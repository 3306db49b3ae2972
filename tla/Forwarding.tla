-------------------------- MODULE Forwarding --------------------------
(***************************************************************************)
(* The data path of the proxy: one pipeline per interface (Pipeline.Run    *)
(* with FilterProcessor and RegistryLearnerProcessor), one RouteSink per   *)
(* pair of interfaces, and the client table they share (module Registry)   *)
(* with the cleanup goroutine.                                             *)
(*                                                                         *)
(* A pipeline handles one packet at a time.  For each route it takes a     *)
(* copy of the clients of the egress interface and writes to them one by   *)
(* one, while the other pipelines learn and the table is cleaned.  A frame *)
(* is handed to the route's TransmitterSink, whose Write returns nil in    *)
(* every case: what an outage does to it is the matter of module           *)
(* Transmitter and cannot disturb the route.  Routes and targets are       *)
(* served in any order; the code takes the routes as configured.           *)
(***************************************************************************)
EXTENDS Rewrite, Naturals

CONSTANTS
    Ifaces, IPs, Texts, ParseIP, IPString, MACs,
    Fixed, TTL, Period, MaxTime, NoClient,      \* see module Registry
    Hosts,              \* addresses the capture filter of an interface accepts
    Broadcast,          \* the interfaces with net.FlagBroadcast
    BroadcastAddress,   \* RouteSink.BroadcastAddress by interface
    HardwareAddr,       \* RouteSink.HardwareAddr by interface
    LinkType            \* link type of each interface's writer handle

ASSUME WiringAssumption ==
    /\ IPv4 \subseteq IPs
    /\ Hosts \in [Ifaces -> SUBSET IPs]
    /\ Broadcast \subseteq Ifaces
    /\ BroadcastAddress \in [Ifaces -> IPs]
    /\ \A e \in Broadcast : BroadcastAddress[e] \in IPv4
    /\ HardwareAddr \in [Ifaces -> MACs \cup {NoMAC}]
    /\ LinkType \in [Ifaces -> {"Ethernet"} \cup L2Types \cup L3Types]

\* What module Registry assumes of its constants.
ASSUME RegistryAssumption ==
    /\ ParseIP \in [Texts -> IPs] /\ IPString \in [IPs -> Texts]
    /\ \A ip \in IPs : ParseIP[IPString[ip]] = ip
    /\ Fixed \subseteq Ifaces \X Texts
    /\ TTL \in Nat \ {0} /\ Period \in Nat \ {0} /\ MaxTime \in Nat
    /\ NoClient \notin [ip : IPs, iface : Ifaces, lastSeen : Nat, mac : MACs \cup {NoMAC}]

VARIABLES
    clients, now, nextTick, heard,  \* the client table: see module Registry
    pipe        \* what each pipeline is doing with its current packet

registryVars == <<clients, now, nextTick, heard>>
vars == <<registryVars, pipe>>

Reg == INSTANCE Registry

\* attachCrossInterfaceSinks: a route to every other interface.
Egress(i) == Ifaces \ {i}

\* An Ethernet header carries a source MAC, the other link types none.
SourceMACs(i) == IF LinkType[i] = "Ethernet" THEN MACs ELSE {NoMAC}

Targets == [ip : IPs, mac : MACs \cup {NoMAC}, broadcastDestMAC : BOOLEAN,
            allowBroadcastMAC : BOOLEAN]
Frames == [src : IPv4, dst : IPv4, mac : MACs \cup {NoMAC, BroadcastMAC}, iface : Ifaces]

\* A pipeline: the packet it holds, the routes it has not taken, the route it
\* is on with the targets left, and the frames it has handed over.
Pipes == [at : {"read", "route", "write"}, src : IPs, readAt : Nat, routes : SUBSET Ifaces,
          egress : Ifaces, targets : SUBSET Targets, handed : SUBSET Frames]

\* A pipeline that waits for its first packet.
IdlePipe(i) ==
    [at |-> "read", src |-> CHOOSE ip \in IPs : TRUE, readAt |-> 0, routes |-> {},
     egress |-> i, targets |-> {}, handed |-> {}]

TypeOK ==
    /\ Reg!TypeOK
    /\ pipe \in [Ifaces -> Pipes]

Init ==
    /\ Reg!Init
    /\ pipe = [i \in Ifaces |-> IdlePipe(i)]

-----------------------------------------------------------------------------
(* The pipeline of interface i *)

\* Where the pipeline goes with routes still to serve.
NextPoint(routes) == IF routes = {} THEN "read" ELSE "route"

\* FilterProcessor: not valid UDP over IPv4.
FilterDrop(i) ==
    /\ pipe[i].at = "read"
    /\ UNCHANGED vars

\* A packet is read, passes the filter, and its source is learned.
ReadAndLearn(i) ==
    /\ pipe[i].at = "read"
    /\ \E src \in Hosts[i] \cap IPv4, mac \in SourceMACs(i) :
         /\ Reg!ProcessForInterface(i, src, mac)
         /\ pipe' = [pipe EXCEPT ![i] =
                       [at |-> NextPoint(Egress(i)), src |-> src, readAt |-> now,
                        routes |-> Egress(i), egress |-> i, targets |-> {},
                        handed |-> {}]]

\* Faulty variant: the broadcast address is added to the known clients.
TargetsAndBroadcast(e) ==
    LET known == {[ip |-> c.ip, mac |-> c.mac, broadcastDestMAC |-> FALSE,
                   allowBroadcastMAC |-> e \in Broadcast] :
                    c \in Reg!GetClientsForInterface(e)}
        fallback == {[ip |-> BroadcastAddress[e], mac |-> NoMAC,
                      broadcastDestMAC |-> TRUE, allowBroadcastMAC |-> FALSE]}
    IN  IF e \in Broadcast THEN known \cup fallback ELSE known

\* RouteSink.targetsForPacket: the clients known on the egress interface, or
\* the interface's broadcast address if there is none.
TargetsForPacket(e) ==
    LET known == {[ip |-> c.ip, mac |-> c.mac, broadcastDestMAC |-> FALSE,
                   allowBroadcastMAC |-> e \in Broadcast] :
                    c \in Reg!GetClientsForInterface(e)}
        fallback == {[ip |-> BroadcastAddress[e], mac |-> NoMAC,
                      broadcastDestMAC |-> TRUE, allowBroadcastMAC |-> FALSE]}
    IN  IF known # {} THEN known ELSE IF e \in Broadcast THEN fallback ELSE {}

\* RouteSink.Write takes its targets; with none the packet is dropped there.
Route(i) ==
    /\ pipe[i].at = "route"
    /\ \E e \in pipe[i].routes :
         LET targets == TargetsForPacket(e)
             routes == pipe[i].routes \ {e}
         IN  pipe' = [pipe EXCEPT
               ![i].at = IF targets = {} THEN NextPoint(routes) ELSE "write",
               ![i].routes = routes, ![i].egress = e, ![i].targets = targets]
    /\ UNCHANGED registryVars

\* RouteSink.writeToTarget: how the packet is rewritten for a target.
RewriteOptions(e, t) ==
    [targetIP |-> t.ip, targetMAC |-> t.mac, sourceMAC |-> HardwareAddr[e],
     egressLinkType |-> LinkType[e], allowBroadcastDstMAC |-> t.allowBroadcastMAC,
     forceBroadcastDestMAC |-> t.broadcastDestMAC, outputArrivalInterface |-> e]

\* The pipeline is done with target t and has handed over frames for it.
TargetDone(i, t, frames) ==
    LET rest == pipe[i].targets \ {t} IN
    pipe' = [pipe EXCEPT
       ![i].targets = rest,
       ![i].at = IF rest = {} THEN NextPoint(pipe[i].routes) ELSE "write",
       ![i].handed = @ \cup frames]

\* Faulty variant: the first target that cannot be served ends the route.
RewriteFailureEndsRoute(i) ==
    /\ pipe[i].at = "write"
    /\ \E t \in pipe[i].targets :
         ~CanRewrite(RewriteOptions(pipe[i].egress, t))
    /\ pipe' = [pipe EXCEPT ![i].targets = {}, ![i].at = NextPoint(pipe[i].routes)]
    /\ UNCHANGED registryVars

\* writeToTarget when the packet cannot be rewritten: it is dropped.
RewriteFails(i) ==
    /\ pipe[i].at = "write"
    /\ \E t \in pipe[i].targets :
         /\ ~CanRewrite(RewriteOptions(pipe[i].egress, t))
         /\ TargetDone(i, t, {})
    /\ UNCHANGED registryVars

\* writeToTarget when it can: the frame goes to the transmitter.  (A processor
\* of the route that stops it, or another sink that fails: see module Pipeline.)
WriteToTarget(i) ==
    /\ pipe[i].at = "write"
    /\ \E t \in pipe[i].targets :
         LET opts == RewriteOptions(pipe[i].egress, t)
         IN  /\ CanRewrite(opts)
             /\ TargetDone(i, t, {PacketForEgress(pipe[i].src, opts)})
    /\ UNCHANGED registryVars

-----------------------------------------------------------------------------
Cleanup == Reg!Cleanup /\ UNCHANGED pipe
Tick == Reg!Tick /\ UNCHANGED pipe

Next ==
    \/ \E i \in Ifaces :
         \/ FilterDrop(i) \/ ReadAndLearn(i) \/ Route(i)
         \/ RewriteFails(i) \/ WriteToTarget(i)
    \/ Cleanup
    \/ Tick

Spec == Init /\ [][Next]_vars

-----------------------------------------------------------------------------
(* Properties *)

FixedIPs(e) == {ParseIP[k[2]] : k \in {k \in Fixed : k[1] = e}}

\* Heard on e before the packet of pipeline i was read, and not yet forgotten.
StillRemembered(i, e, ip) ==
    LET h == heard[<<e, ip>>]
    IN  h.at # 0 /\ h.at < pipe[i].readAt /\ now <= h.at + TTL

\* On e there is no fixed IP, and nobody has been heard within the TTL and one
\* cleanup period before the packet of pipeline i was read.
Silent(i, e) ==
    /\ FixedIPs(e) = {}
    /\ \A ip \in IPs : heard[<<e, ip>>].at # 0 =>
                         heard[<<e, ip>>].at + TTL + Period < pipe[i].readAt

\* Pipeline i has served its route to e for the current packet.
Served(i, e) ==
    /\ pipe[i].readAt # 0
    /\ e \in Egress(i) \ pipe[i].routes
    /\ ~(pipe[i].at = "write" /\ pipe[i].egress = e)

\* What pipeline i handed to its transmitter on e for the current packet.
Handed(i, e) == {f \in pipe[i].handed : f.iface = e}

\* Frames can be addressed on e even to a client whose MAC is unknown.
Reachable(e) ==
    LinkType[e] = "Ethernet" => HardwareAddr[e] # NoMAC /\ e \in Broadcast

\* Whatever the other pipelines learn and the cleanup removes while the
\* packet is routed, each client heard on the egress interface before the
\* packet was read, and within the last TTL, gets the packet, and a target
\* that cannot be served keeps it from no other.
RememberedClientsAreServed ==
    \A i \in Ifaces : \A e \in Ifaces : Served(i, e) /\ Reachable(e) =>
        \A ip \in IPs : StillRemembered(i, e, ip) =>
            \E f \in Handed(i, e) : f.dst = ip

\* Every fixed IP of the egress interface gets every packet, learned clients
\* or not.
FixedAlwaysServed ==
    \A i \in Ifaces : \A e \in Ifaces : Served(i, e) /\ Reachable(e) =>
        \A ip \in FixedIPs(e) \cap IPv4 : \E f \in Handed(i, e) : f.dst = ip

\* A packet is not sent to a client that had been silent for more than the
\* TTL and one cleanup period when the packet was read.
NoFrameToForgotten ==
    \A i \in Ifaces : \A f \in pipe[i].handed :
        \/ f.dst \in FixedIPs(f.iface)
        \/ f.dst = BroadcastAddress[f.iface] /\ f.iface \in Broadcast
        \/ /\ heard[<<f.iface, f.dst>>].at # 0
           /\ pipe[i].readAt <= heard[<<f.iface, f.dst>>].at + TTL + Period

\* The whole segment is only bothered with a broadcast when nobody is known
\* there: no fixed IP, and no host that is still remembered.
BroadcastOnlyWhenAlone ==
    \A i \in Ifaces : \A f \in pipe[i].handed :
        f.dst = BroadcastAddress[f.iface] =>
            /\ FixedIPs(f.iface) = {}
            /\ \A ip \in IPs : ~StillRemembered(i, f.iface, ip)

\* A segment where nobody is known any more is flooded: whoever was heard there
\* has been silent for more than the TTL and one cleanup period, and no entry
\* that should have expired keeps the packet from the hosts that never talk.
SilentSegmentIsFlooded ==
    \A i \in Ifaces : \A e \in Broadcast :
        Served(i, e) /\ Reachable(e) /\ Silent(i, e) =>
            \E f \in Handed(i, e) : f.dst = BroadcastAddress[e]
=============================================================================
