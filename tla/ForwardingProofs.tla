----------------------- MODULE ForwardingProofs -----------------------
(***************************************************************************)
(* The data path serves every client it should and no other, for any       *)
(* interfaces, addresses, link types and fixed IPs, and whatever is heard  *)
(* and forgotten while a packet is routed.                                 *)
(***************************************************************************)
EXTENDS Forwarding, TLAPS

\* The client table, with the invariant module RegistryProofs shows of it.
Table == INSTANCE RegistryProofs

-----------------------------------------------------------------------------
(* The invariant *)

\* The targets of interface e that pipeline i has still to write to.
Waiting(i, e) ==
    IF pipe[i].at = "write" /\ pipe[i].egress = e THEN pipe[i].targets ELSE {}

\* Where the current packet of pipeline i has gone, or will go, on e.
Reaches(i, e) == {f.dst : f \in Handed(i, e)} \cup {t.ip : t \in Waiting(i, e)}

\* Where it must go on e once the route is served.
Owed(i, e) == {ip \in IPs : ip \in FixedIPs(e) \cap IPv4 \/ StillRemembered(i, e, ip)}

\* Why it may go to ip on e.
Justified(i, e, ip) ==
    \/ ip \in FixedIPs(e)
    \/ ip = BroadcastAddress[e] /\ e \in Broadcast
    \/ /\ heard[<<e, ip>>].at # 0
       /\ pipe[i].readAt <= heard[<<e, ip>>].at + TTL + Period

\* The pipeline of i has taken its route to e for the current packet.
Taken(i, e) == pipe[i].readAt # 0 /\ e \in Egress(i) \ pipe[i].routes

\* A packet under way is an IPv4 packet that was read in the past.
PacketInv ==
    \A i \in Ifaces :
        /\ pipe[i].readAt <= now
        /\ pipe[i].at # "read" => pipe[i].src \in IPv4 /\ pipe[i].readAt # 0

\* A target may be sent to the broadcast MAC if its interface allows it.
TargetInv ==
    \A i \in Ifaces : \A t \in pipe[i].targets :
        t.broadcastDestMAC \/ t.allowBroadcastMAC = (pipe[i].egress \in Broadcast)

\* Only hosts the capture filter accepts are heard, over IPv4.
HostInv ==
    \A e \in Ifaces, ip \in IPs : heard[<<e, ip>>].at # 0 => ip \in Hosts[e] \cap IPv4

\* A route that was taken owes nothing it will not deliver.
ServedInv ==
    \A i \in Ifaces, e \in Ifaces :
        Taken(i, e) /\ Reachable(e) => Owed(i, e) \subseteq Reaches(i, e)

\* Nothing goes where it should not.
JustifiedInv ==
    \A i \in Ifaces, e \in Ifaces : \A ip \in Reaches(i, e) : Justified(i, e, ip)

\* A route that was taken to a silent segment floods it.
FloodedInv ==
    \A i \in Ifaces, e \in Broadcast :
        Taken(i, e) /\ Reachable(e) /\ Silent(i, e) =>
            BroadcastAddress[e] \in Reaches(i, e)

\* The broadcast address is only reached where nothing is owed.
AloneInv ==
    \A i \in Ifaces, e \in Ifaces : BroadcastAddress[e] \in Reaches(i, e) =>
        /\ FixedIPs(e) = {}
        /\ \A ip \in IPs : ~StillRemembered(i, e, ip)

IInv ==
    /\ TypeOK
    /\ Table!IInv
    /\ PacketInv
    /\ TargetInv
    /\ HostInv
    /\ ServedInv
    /\ JustifiedInv
    /\ FloodedInv

-----------------------------------------------------------------------------
(* The client table *)

\* What module RegistryProofs assumes is what this module assumes.
LEMMA TableAssumptions ==
    /\ Table!TextAssumption
    /\ Table!FixedAssumption
    /\ Table!TimeAssumption
    /\ Table!NoClientAssumption
  BY RegistryAssumption DEF Table!TextAssumption, Table!FixedAssumption,
     Table!TimeAssumption, Table!NoClientAssumption, Table!Clients, Table!HwAddrs

\* What a pipeline learns is a packet module Registry allows.
LEMMA LearnedIsInput ==
    ASSUME NEW i \in Ifaces, ReadAndLearn(i)
    PROVE  \E ip \in IPs, mac \in Reg!HwAddrs : Reg!ProcessForInterface(i, ip, mac)
<1>1. PICK src \in Hosts[i] \cap IPv4, mac \in SourceMACs(i) : Reg!ProcessForInterface(i, src, mac)
  BY DEF ReadAndLearn
<1>2. src \in IPs
  BY WiringAssumption
<1>3. mac \in Reg!HwAddrs
  BY DEF SourceMACs, Reg!HwAddrs
<1> QED
  BY <1>1, <1>2, <1>3

\* Whatever the pipelines do at the same time, the table steps as in module
\* Registry, so that its invariant holds of the table they share.
LEMMA RegistryStep == [Next]_vars => [Reg!Next]_(Reg!vars)
<1> SUFFICES ASSUME [Next]_vars PROVE Reg!Next \/ UNCHANGED registryVars
  BY DEF Reg!vars, registryVars
<1>1. ASSUME NEW i \in Ifaces, ReadAndLearn(i) PROVE Reg!Next
  BY <1>1, LearnedIsInput DEF Reg!Next
<1>2. CASE Cleanup
  BY <1>2 DEF Cleanup, Reg!Next
<1>3. CASE Tick
  BY <1>3 DEF Tick, Reg!Next
<1> QED
  BY <1>1, <1>2, <1>3 DEF Next, FilterDrop, Route, RewriteFails, WriteToTarget, vars, registryVars

\* The two instances speak of the same steps.
LEMMA SameInit == Reg!Init => Table!Init
  BY DEF Reg!Init, Reg!Keys, Reg!FixedClient, Reg!Immortal, Reg!Never,
         Table!Init, Table!Keys, Table!FixedClient, Table!Immortal, Table!Never

LEMMA SameNext == [Reg!Next]_(Reg!vars) => [Table!Next]_(Table!vars)
  BY DEF Reg!Next, Reg!vars, Reg!ProcessForInterface, Reg!KeyForClient, Reg!Known, Reg!Keys,
         Reg!Immortal, Reg!HwAddrs, Reg!Cleanup, Reg!Mortal, Reg!Expired, Reg!Tick,
         Table!Next, Table!vars, Table!ProcessForInterface, Table!KeyForClient, Table!Known,
         Table!Keys, Table!Immortal, Table!HwAddrs, Table!Cleanup, Table!Mortal,
         Table!Expired, Table!Tick

LEMMA TableInit == Init => Table!IInv
  BY TableAssumptions, SameInit, Table!InitIInv DEF Init

LEMMA TableStep == Table!IInv /\ [Next]_vars => Table!IInv'
  BY TableAssumptions, RegistryStep, SameNext, Table!IInvStep

LEMMA TableType == Table!IInv => Reg!TypeOK
  BY DEF Table!IInv, Table!TypeOK, Table!Keys, Table!Clients, Table!HwAddrs,
         Reg!TypeOK, Reg!Keys, Reg!Clients, Reg!HwAddrs

\* A client that is listed for an interface is one of its fixed IPs, or was
\* heard there not too long ago.
LEMMA ListedIsJustified ==
    ASSUME Table!IInv, NEW e \in Ifaces, NEW c \in Reg!GetClientsForInterface(e)
    PROVE  /\ c \in Reg!Clients
           /\ \/ c.ip \in FixedIPs(e)
              \/ heard[<<e, c.ip>>].at # 0 /\ now <= heard[<<e, c.ip>>].at + TTL + Period
<1>1. PICK k \in Reg!Keys : clients[k] # NoClient /\ clients[k].iface = e /\ c = clients[k]
  BY DEF Reg!GetClientsForInterface, Reg!Known
<1>2. c \in Reg!Clients
  BY <1>1, TableType DEF Reg!TypeOK
<1>3. k \in Table!Keys /\ k \in Table!Known
  BY <1>1 DEF Table!Keys, Table!Known, Reg!Keys
<1>4. CASE c.lastSeen = Table!Immortal
  <2>1. k \in Fixed
    BY <1>1, <1>3, <1>4 DEF Table!IInv, Table!ImmortalInv
  <2>2. c = [ip |-> ParseIP[k[2]], iface |-> k[1], lastSeen |-> Table!Immortal, mac |-> NoMAC]
    BY <1>1, <2>1 DEF Table!IInv, Table!FixedForever, Table!FixedClient
  <2>3. c.ip = ParseIP[k[2]] /\ k[1] = e
    BY <1>1, <2>2
  <2> QED
    BY <1>2, <2>1, <2>3 DEF FixedIPs
<1>5. CASE c.lastSeen # Table!Immortal
  <2>1. Table!Mortal(k)
    BY <1>1, <1>3, <1>5 DEF Table!Mortal
  <2>2. heard[<<e, c.ip>>].at = c.lastSeen
    <3>1. heard[<<clients[k].iface, clients[k].ip>>] =
            [at |-> clients[k].lastSeen, mac |-> clients[k].mac]
      BY <1>3, <2>1 DEF Table!IInv, Table!LearnedIsLatest
    <3> QED
      BY <1>1, <3>1
  <2>3. now <= c.lastSeen + TTL + Period
    BY <1>1, <1>3, <2>1, TableAssumptions, Table!DueIsInTime DEF Table!ForgottenInTime
  <2> QED
    BY <1>2, <1>5, <2>2, <2>3 DEF Table!Immortal
<1> QED
  BY <1>4, <1>5

\* A fixed IP, and a host heard within the last TTL, is listed.
LEMMA FixedIsListed ==
    ASSUME Table!IInv, NEW e \in Ifaces, NEW ip \in FixedIPs(e)
    PROVE  \E c \in Reg!GetClientsForInterface(e) : c.ip = ip
<1>1. PICK k \in Fixed : k[1] = e /\ ip = ParseIP[k[2]]
  BY DEF FixedIPs
<1>2. clients[k] = Table!FixedClient(k)
  BY DEF Table!IInv, Table!FixedForever
<1>3. k \in Reg!Keys /\ Table!FixedClient(k) \in Table!Clients
  BY TableAssumptions, Table!FixedClientType DEF Table!Keys, Reg!Keys
<1>4. clients[k] # NoClient /\ clients[k].iface = e /\ clients[k].ip = ip
  BY <1>1, <1>2, <1>3, TableAssumptions DEF Table!NoClientAssumption, Table!FixedClient
<1> QED
  BY <1>3, <1>4 DEF Reg!GetClientsForInterface, Reg!Known

LEMMA HeardIsListed ==
    ASSUME Table!IInv, NEW e \in Ifaces, NEW ip \in IPs,
           heard[<<e, ip>>].at # 0, now <= heard[<<e, ip>>].at + TTL
    PROVE  \E c \in Reg!GetClientsForInterface(e) : c.ip = ip
<1> DEFINE k == <<e, IPString[ip]>>
<1>1. k \in Reg!Keys /\ k \in Table!Keys
  BY RegistryAssumption DEF Reg!Keys, Table!Keys
<1>2. \/ k \in Table!Known /\ clients[k].lastSeen = Table!Immortal
      \/ clients[k] = [ip |-> ip, iface |-> e, lastSeen |-> heard[<<e, ip>>].at,
                       mac |-> heard[<<e, ip>>].mac]
  BY DEF Table!IInv, Table!RememberedForTTL, Table!KeyForClient
<1>3. CASE k \in Table!Known /\ clients[k].lastSeen = Table!Immortal
  <2>1. k \in Fixed
    BY <1>3 DEF Table!IInv, Table!ImmortalInv
  <2>2. ip \in FixedIPs(e)
    BY <2>1, RegistryAssumption DEF FixedIPs
  <2> QED
    BY <2>2, FixedIsListed
<1>4. CASE clients[k] = [ip |-> ip, iface |-> e, lastSeen |-> heard[<<e, ip>>].at,
                         mac |-> heard[<<e, ip>>].mac]
  <2>1. clients[k] \in [ip : IPs, iface : Ifaces, lastSeen : Nat, mac : MACs \cup {NoMAC}]
    <3>1. heard[<<e, ip>>] \in [at : Nat, mac : MACs \cup {NoMAC}]
      BY TableType DEF Reg!TypeOK, Reg!HwAddrs
    <3> QED
      BY <1>4, <3>1
  <2>2. clients[k] # NoClient /\ clients[k].iface = e /\ clients[k].ip = ip
    BY <1>4, <2>1, RegistryAssumption
  <2> QED
    BY <1>1, <2>2 DEF Reg!GetClientsForInterface, Reg!Known
<1> QED
  BY <1>2, <1>3, <1>4

-----------------------------------------------------------------------------
(* The steps of a pipeline *)

LEMMA ReadEffect ==
    ASSUME IInv, NEW i \in Ifaces, ReadAndLearn(i)
    PROVE  /\ pipe' \in [Ifaces -> Pipes]
           /\ \A j \in Ifaces \ {i} : pipe'[j] = pipe[j]
           /\ pipe'[i].readAt = now /\ pipe'[i].src \in IPv4
           /\ pipe'[i].routes = Egress(i) /\ pipe'[i].at # "write"
           /\ pipe'[i].targets = {} /\ pipe'[i].handed = {}
<1>1. PICK src \in Hosts[i] \cap IPv4 :
        pipe' = [pipe EXCEPT ![i] =
                   [at |-> NextPoint(Egress(i)), src |-> src, readAt |-> now,
                    routes |-> Egress(i), egress |-> i, targets |-> {}, handed |-> {}]]
  BY DEF ReadAndLearn
<1>2. src \in IPs /\ Egress(i) \subseteq Ifaces
  BY WiringAssumption DEF Egress
<1>3. now \in Nat
  BY DEF IInv, TypeOK, Reg!TypeOK
<1>4. NextPoint(Egress(i)) \in {"read", "route"}
  BY DEF NextPoint
<1>5. pipe \in [Ifaces -> Pipes]
  BY DEF IInv, TypeOK
<1> QED
  BY <1>1, <1>2, <1>3, <1>4, <1>5 DEF Pipes

\* A target is a client that is listed, or the broadcast address if there is
\* none.
LEMMA TargetCases ==
    ASSUME NEW e \in Ifaces, NEW t \in TargetsForPacket(e)
    PROVE  \/ \E c \in Reg!GetClientsForInterface(e) :
                t = [ip |-> c.ip, mac |-> c.mac, broadcastDestMAC |-> FALSE,
                     allowBroadcastMAC |-> e \in Broadcast]
           \/ /\ Reg!GetClientsForInterface(e) = {} /\ e \in Broadcast
              /\ t = [ip |-> BroadcastAddress[e], mac |-> NoMAC,
                      broadcastDestMAC |-> TRUE, allowBroadcastMAC |-> FALSE]
  BY Zenon DEF TargetsForPacket

LEMMA TargetsType ==
    ASSUME IInv, NEW e \in Ifaces
    PROVE  /\ TargetsForPacket(e) \subseteq Targets
           /\ \A t \in TargetsForPacket(e) :
                t.broadcastDestMAC \/ t.allowBroadcastMAC = (e \in Broadcast)
<1> SUFFICES ASSUME NEW t \in TargetsForPacket(e)
             PROVE  /\ t \in Targets
                    /\ t.broadcastDestMAC \/ t.allowBroadcastMAC = (e \in Broadcast)
  OBVIOUS
<1>1. \A c \in Reg!GetClientsForInterface(e) : c.ip \in IPs /\ c.mac \in MACs \cup {NoMAC}
  BY ListedIsJustified DEF IInv, Reg!Clients, Reg!HwAddrs
<1>2. BroadcastAddress[e] \in IPs
  BY WiringAssumption
<1>3. CASE \E c \in Reg!GetClientsForInterface(e) :
             t = [ip |-> c.ip, mac |-> c.mac, broadcastDestMAC |-> FALSE,
                  allowBroadcastMAC |-> e \in Broadcast]
  BY <1>1, <1>3 DEF Targets
<1>4. CASE t = [ip |-> BroadcastAddress[e], mac |-> NoMAC,
                broadcastDestMAC |-> TRUE, allowBroadcastMAC |-> FALSE]
  BY <1>2, <1>4 DEF Targets
<1> QED
  BY <1>3, <1>4, TargetCases

\* Taking the route to e: its targets now wait, and nothing else changes.
LEMMA RouteEffect ==
    ASSUME IInv, NEW i \in Ifaces, Route(i)
    PROVE  \E e \in pipe[i].routes :
             /\ pipe' \in [Ifaces -> Pipes]
             /\ \A j \in Ifaces \ {i} : pipe'[j] = pipe[j]
             /\ pipe[i].at = "route"
             /\ pipe'[i].readAt = pipe[i].readAt /\ pipe'[i].src = pipe[i].src
             /\ pipe'[i].routes = pipe[i].routes \ {e}
             /\ pipe'[i].egress = e
             /\ pipe'[i].targets = TargetsForPacket(e)
             /\ pipe'[i].handed = pipe[i].handed
             /\ TargetsForPacket(e) # {} => pipe'[i].at = "write"
<1>1. PICK e \in pipe[i].routes :
        pipe' = [pipe EXCEPT
          ![i].at = IF TargetsForPacket(e) = {} THEN NextPoint(pipe[i].routes \ {e}) ELSE "write",
          ![i].routes = pipe[i].routes \ {e}, ![i].egress = e,
          ![i].targets = TargetsForPacket(e)]
  BY DEF Route
<1>2. pipe \in [Ifaces -> Pipes] /\ pipe[i] \in Pipes
  BY DEF IInv, TypeOK
<1>3. e \in Ifaces
  BY <1>2 DEF Pipes
<1>4. TargetsForPacket(e) \subseteq Targets
  BY <1>3, TargetsType
<1>5. NextPoint(pipe[i].routes \ {e}) \in {"read", "route"}
  BY DEF NextPoint
<1>6. pipe[i].at = "route"
  BY DEF Route
<1> DEFINE targets == TargetsForPacket(e)
           at == IF targets = {} THEN NextPoint(pipe[i].routes \ {e}) ELSE "write"
           new == [pipe[i] EXCEPT !.at = at, !.routes = pipe[i].routes \ {e},
                                  !.egress = e, !.targets = targets]
<1>7. at \in {"read", "route", "write"} /\ targets \subseteq Targets
  BY <1>4, <1>5
<1>8. pipe' = [pipe EXCEPT ![i] = new]
  BY <1>1, <1>2
<1>9. targets # {} => at = "write"
  OBVIOUS
<1> HIDE DEF targets, at
<1>10. /\ new \in Pipes
       /\ new.readAt = pipe[i].readAt /\ new.src = pipe[i].src /\ new.at = at
       /\ new.routes = pipe[i].routes \ {e} /\ new.egress = e
       /\ new.targets = targets /\ new.handed = pipe[i].handed
  BY <1>2, <1>3, <1>7 DEF Pipes
<1> HIDE DEF new
<1>11. /\ pipe'[i] = new
       /\ pipe' \in [Ifaces -> Pipes]
       /\ \A j \in Ifaces \ {i} : pipe'[j] = pipe[j]
  BY <1>2, <1>8, <1>10
<1> QED
  BY <1>6, <1>9, <1>10, <1>11 DEF targets

\* Being done with a target of the current route.
LEMMA TargetEffect ==
    ASSUME IInv, NEW i \in Ifaces, NEW t \in pipe[i].targets, NEW frames \in SUBSET Frames,
           pipe[i].at = "write", TargetDone(i, t, frames)
    PROVE  /\ pipe' \in [Ifaces -> Pipes]
           /\ \A j \in Ifaces \ {i} : pipe'[j] = pipe[j]
           /\ pipe'[i].readAt = pipe[i].readAt /\ pipe'[i].src = pipe[i].src
           /\ pipe'[i].routes = pipe[i].routes
           /\ pipe'[i].egress = pipe[i].egress
           /\ pipe'[i].targets = pipe[i].targets \ {t}
           /\ pipe'[i].handed = pipe[i].handed \cup frames
           /\ pipe'[i].targets # {} => pipe'[i].at = "write"
<1>1. pipe' = [pipe EXCEPT
        ![i].targets = pipe[i].targets \ {t},
        ![i].at = IF pipe[i].targets \ {t} = {} THEN NextPoint(pipe[i].routes) ELSE "write",
        ![i].handed = @ \cup frames]
  BY DEF TargetDone
<1>2. pipe \in [Ifaces -> Pipes] /\ pipe[i] \in Pipes
  BY DEF IInv, TypeOK
<1>3. NextPoint(pipe[i].routes) \in {"read", "route"}
  BY DEF NextPoint
<1> QED
  BY <1>1, <1>2, <1>3 DEF Pipes

\* Where the packet goes is not changed by taking a route to another
\* interface; its new targets are added on e.
LEMMA RouteReaches ==
    ASSUME IInv, NEW i \in Ifaces, Route(i)
    PROVE  \E e \in Ifaces :
             /\ Reaches(i, e)' = Reaches(i, e) \cup {t.ip : t \in TargetsForPacket(e)}
             /\ \A d \in Ifaces \ {e} : /\ Reaches(i, d)' = Reaches(i, d)
                                        /\ Taken(i, d)' => Taken(i, d)
<1>1. PICK e \in pipe[i].routes :
        /\ pipe[i].at = "route"
        /\ pipe'[i].readAt = pipe[i].readAt
        /\ pipe'[i].routes = pipe[i].routes \ {e} /\ pipe'[i].egress = e
        /\ pipe'[i].targets = TargetsForPacket(e) /\ pipe'[i].handed = pipe[i].handed
        /\ TargetsForPacket(e) # {} => pipe'[i].at = "write"
  BY RouteEffect
<1>2. e \in Ifaces
  BY DEF IInv, TypeOK, Pipes
<1>3. \A d \in Ifaces : Waiting(i, d) = {} /\ Handed(i, d)' = Handed(i, d)
  BY <1>1 DEF Waiting, Handed
<1>4. Waiting(i, e)' = TargetsForPacket(e)
  BY <1>1 DEF Waiting
<1>5. Reaches(i, e)' = Reaches(i, e) \cup {t.ip : t \in TargetsForPacket(e)}
  BY <1>2, <1>3, <1>4 DEF Reaches
<1>6. ASSUME NEW d \in Ifaces \ {e}
      PROVE  Reaches(i, d)' = Reaches(i, d) /\ (Taken(i, d)' => Taken(i, d))
  <2>1. Waiting(i, d)' = {}
    BY <1>1 DEF Waiting
  <2>2. Taken(i, d)' => Taken(i, d)
    BY <1>1 DEF Taken, Egress
  <2> QED
    BY <1>3, <2>1, <2>2 DEF Reaches
<1> QED
  BY <1>2, <1>5, <1>6

\* A target of an interface that can be reached is given up only if its
\* address is not an IPv4 address.
LEMMA ReachableRewrites ==
    ASSUME IInv, NEW i \in Ifaces, NEW t \in pipe[i].targets,
           Reachable(pipe[i].egress), t.ip \in IPv4
    PROVE  CanRewrite(RewriteOptions(pipe[i].egress, t))
<1> DEFINE e == pipe[i].egress
           opts == RewriteOptions(e, t)
<1>1. e \in Ifaces /\ t \in Targets
  BY DEF IInv, TypeOK, Pipes
<1>2. t.broadcastDestMAC \/ t.allowBroadcastMAC = (e \in Broadcast)
  BY DEF IInv, TargetInv
<1>3. /\ opts.targetIP = t.ip /\ opts.targetMAC = t.mac
      /\ opts.sourceMAC = HardwareAddr[e] /\ opts.egressLinkType = LinkType[e]
      /\ opts.allowBroadcastDstMAC = t.allowBroadcastMAC
      /\ opts.forceBroadcastDestMAC = t.broadcastDestMAC
  BY DEF RewriteOptions
<1> HIDE DEF opts, e
<1>4. CASE LinkType[e] = "Ethernet"
  <2>1. HardwareAddr[e] # NoMAC /\ e \in Broadcast
    BY <1>4 DEF Reachable, e
  <2>2. t.broadcastDestMAC \/ t.allowBroadcastMAC
    BY <1>2, <2>1
  <2>3. DstMAC(opts) # NoMAC
    BY <1>3, <2>2, MACAssumption DEF DstMAC
  <2>4. CanRewrite(opts)
    BY <1>3, <1>4, <2>1, <2>3 DEF CanRewrite
  <2> QED
    BY <2>4 DEF opts, e
<1>5. CASE LinkType[e] # "Ethernet"
  <2>1. LinkType[e] \in L2Types \cup L3Types
    BY <1>1, <1>5, WiringAssumption
  <2>2. CanRewrite(opts)
    BY <1>3, <2>1 DEF CanRewrite
  <2> QED
    BY <2>2 DEF opts, e
<1> QED
  BY <1>4, <1>5

\* Being done with a target, with a frame or without, loses no address that
\* is reachable and adds none.
LEMMA WriteEffect ==
    ASSUME IInv, NEW i \in Ifaces, RewriteFails(i) \/ WriteToTarget(i)
    PROVE  /\ pipe' \in [Ifaces -> Pipes]
           /\ \A j \in Ifaces \ {i} : pipe'[j] = pipe[j]
           /\ pipe'[i].readAt = pipe[i].readAt /\ pipe'[i].src = pipe[i].src
           /\ pipe'[i].routes = pipe[i].routes /\ pipe'[i].egress = pipe[i].egress
           /\ pipe'[i].targets \subseteq pipe[i].targets
           /\ pipe[i].at = "write"
           /\ \A e \in Ifaces :
                /\ Reaches(i, e)' \subseteq Reaches(i, e)
                /\ Reachable(e) => Reaches(i, e) \cap IPv4 \subseteq Reaches(i, e)'
<1>1. pipe[i].at = "write"
  BY DEF RewriteFails, WriteToTarget
<1>2. PICK t \in pipe[i].targets, frames \in SUBSET Frames :
        /\ TargetDone(i, t, frames)
        /\ \A f \in frames : f.dst = t.ip /\ f.iface = pipe[i].egress
        /\ \/ frames # {}
           \/ ~CanRewrite(RewriteOptions(pipe[i].egress, t))
  <2>1. CASE RewriteFails(i)
    BY <2>1 DEF RewriteFails
  <2>2. CASE WriteToTarget(i)
    <3>1. PICK t \in pipe[i].targets :
            LET opts == RewriteOptions(pipe[i].egress, t)
            IN  CanRewrite(opts) /\ TargetDone(i, t, {PacketForEgress(pipe[i].src, opts)})
      BY <2>2 DEF WriteToTarget
    <3> DEFINE opts == RewriteOptions(pipe[i].egress, t)
               frame == PacketForEgress(pipe[i].src, opts)
    <3>2. pipe[i].egress \in Ifaces /\ t \in Targets /\ pipe[i].src \in IPv4
      BY <1>1 DEF IInv, TypeOK, Pipes, PacketInv
    <3>3. DstMAC(opts) \in MACs \cup {NoMAC, BroadcastMAC}
      BY <3>2 DEF DstMAC, RewriteOptions, Targets
    <3>4. opts.targetIP = t.ip /\ opts.outputArrivalInterface = pipe[i].egress
      BY DEF RewriteOptions
    <3>5. t.ip \in IPv4
      BY <3>1, <3>4 DEF CanRewrite
    <3>6. frame \in Frames /\ frame.dst = t.ip /\ frame.iface = pipe[i].egress
      <4> HIDE DEF opts
      <4> QED
        BY <3>2, <3>3, <3>4, <3>5 DEF PacketForEgress, Frames
    <3> HIDE DEF frame
    <3>7. {frame} \in SUBSET Frames /\ {frame} # {} /\ TargetDone(i, t, {frame})
      BY <3>1, <3>6 DEF frame
    <3>8. \A f \in {frame} : f.dst = t.ip /\ f.iface = pipe[i].egress
      BY <3>6
    <3> QED
      BY <3>7, <3>8
  <2> QED
    BY <2>1, <2>2
<1>3. /\ pipe' \in [Ifaces -> Pipes]
      /\ \A j \in Ifaces \ {i} : pipe'[j] = pipe[j]
      /\ pipe'[i].readAt = pipe[i].readAt /\ pipe'[i].src = pipe[i].src
      /\ pipe'[i].routes = pipe[i].routes /\ pipe'[i].egress = pipe[i].egress
      /\ pipe'[i].targets = pipe[i].targets \ {t}
      /\ pipe'[i].handed = pipe[i].handed \cup frames
      /\ pipe'[i].targets # {} => pipe'[i].at = "write"
  BY <1>1, <1>2, TargetEffect
<1>4. ASSUME NEW e \in Ifaces
      PROVE  /\ Reaches(i, e)' \subseteq Reaches(i, e)
             /\ Reachable(e) => Reaches(i, e) \cap IPv4 \subseteq Reaches(i, e)'
  <2>1. CASE e = pipe[i].egress
    <3>1. Waiting(i, e) = pipe[i].targets /\ Waiting(i, e)' = pipe[i].targets \ {t}
      BY <1>1, <1>3, <2>1 DEF Waiting
    <3>2. Handed(i, e)' = Handed(i, e) \cup frames
      BY <1>2, <1>3, <2>1 DEF Handed
    <3>3. Reaches(i, e)' \subseteq Reaches(i, e)
      BY <1>2, <3>1, <3>2 DEF Reaches
    <3>4. ASSUME Reachable(e), t.ip \in IPv4
          PROVE  t.ip \in {f.dst : f \in Handed(i, e)'}
      <4>1. frames # {}
        BY <1>2, <2>1, <3>4, ReachableRewrites
      <4> QED
        BY <1>2, <3>2, <4>1
    <3>5. ASSUME Reachable(e), NEW ip \in Reaches(i, e) \cap IPv4
          PROVE  ip \in Reaches(i, e)'
      <4>1. CASE ip = t.ip
        BY <3>4, <3>5, <4>1 DEF Reaches
      <4>2. CASE ip # t.ip
        BY <3>1, <3>2, <4>2 DEF Reaches
      <4> QED
        BY <4>1, <4>2
    <3> QED
      BY <3>3, <3>5
  <2>2. CASE e # pipe[i].egress
    <3>1. Waiting(i, e) = {} /\ Waiting(i, e)' = {}
      BY <1>3, <2>2 DEF Waiting
    <3>2. Handed(i, e)' = Handed(i, e)
      BY <1>2, <1>3, <2>2 DEF Handed
    <3> QED
      BY <3>1, <3>2 DEF Reaches
  <2> QED
    BY <2>1, <2>2
<1> QED
  BY <1>1, <1>3, <1>4

-----------------------------------------------------------------------------
(* What is owed and what is justified *)

\* What is heard is heard now, from a host of its interface.
LEMMA HeardStep ==
    ASSUME IInv, [Next]_vars
    PROVE  /\ now \in Nat \ {0} /\ now' \in Nat /\ now <= now'
           /\ \A e \in Ifaces, ip \in IPs :
                \/ heard'[<<e, ip>>] = heard[<<e, ip>>]
                \/ heard'[<<e, ip>>].at = now /\ ip \in Hosts[e] \cap IPv4
<1>1. now \in Nat \ {0} /\ heard \in [Ifaces \X IPs -> [at : Nat, mac : Reg!HwAddrs]]
  BY DEF IInv, TypeOK, Reg!TypeOK
<1>2. ASSUME NEW i \in Ifaces, ReadAndLearn(i)
      PROVE  /\ now' = now
             /\ \A e \in Ifaces, ip \in IPs :
                  \/ heard'[<<e, ip>>] = heard[<<e, ip>>]
                  \/ heard'[<<e, ip>>].at = now /\ ip \in Hosts[e] \cap IPv4
  <2>1. PICK src \in Hosts[i] \cap IPv4, mac \in SourceMACs(i) :
          /\ now' = now
          /\ heard' = [heard EXCEPT ![<<i, src>>] = [at |-> now, mac |-> mac]]
    BY <1>2 DEF ReadAndLearn, Reg!ProcessForInterface
  <2> SUFFICES ASSUME NEW e \in Ifaces, NEW ip \in IPs
               PROVE  \/ heard'[<<e, ip>>] = heard[<<e, ip>>]
                      \/ heard'[<<e, ip>>].at = now /\ ip \in Hosts[e] \cap IPv4
    BY <2>1
  <2>2. CASE <<e, ip>> = <<i, src>>
    BY <1>1, <2>1, <2>2
  <2>3. CASE <<e, ip>> # <<i, src>>
    BY <1>1, <2>1, <2>3
  <2> QED
    BY <2>2, <2>3
<1>3. CASE Tick
  BY <1>1, <1>3 DEF Tick, Reg!Tick
<1>4. CASE UNCHANGED <<now, heard>>
  BY <1>1, <1>4
<1>5. \/ \E i \in Ifaces : ReadAndLearn(i)
      \/ Tick
      \/ UNCHANGED <<now, heard>>
  BY DEF Next, vars, registryVars, FilterDrop, Route, RewriteFails, WriteToTarget, Cleanup,
         Reg!Cleanup
<1> QED
  BY <1>1, <1>2, <1>3, <1>4, <1>5

\* While a pipeline holds a packet, no host becomes owed that was not, and
\* what was justified stays so.
LEMMA NothingNewOwed ==
    ASSUME IInv, [Next]_vars, NEW i \in Ifaces, NEW e \in Ifaces,
           pipe'[i].readAt = pipe[i].readAt
    PROVE  /\ \A ip \in IPs : StillRemembered(i, e, ip)' => StillRemembered(i, e, ip)
           /\ Owed(i, e)' \subseteq Owed(i, e)
           /\ \A ip \in IPs : Justified(i, e, ip) => Justified(i, e, ip)'
<1>1. /\ pipe[i].readAt \in Nat /\ pipe[i].readAt <= now
      /\ \A ip \in IPs : heard[<<e, ip>>].at \in Nat
  BY DEF IInv, PacketInv, TypeOK, Pipes, Reg!TypeOK
<1>2. ASSUME NEW ip \in IPs
      PROVE  /\ StillRemembered(i, e, ip)' => StillRemembered(i, e, ip)
             /\ Justified(i, e, ip) => Justified(i, e, ip)'
  <2>1. CASE heard'[<<e, ip>>] = heard[<<e, ip>>]
    BY <1>1, <2>1, HeardStep, RegistryAssumption DEF StillRemembered, Justified, FixedIPs
  <2>2. CASE heard'[<<e, ip>>].at = now
    BY <1>1, <2>2, HeardStep, RegistryAssumption DEF StillRemembered, Justified, FixedIPs
  <2> QED
    BY <2>1, <2>2, HeardStep
<1>3. Owed(i, e)' \subseteq Owed(i, e)
  BY <1>2 DEF Owed, FixedIPs
<1> QED
  BY <1>2, <1>3

\* Whoever is owed the packet when a route is taken is one of its targets.
LEMMA OwedAreTargets ==
    ASSUME IInv, NEW i \in Ifaces, NEW e \in Ifaces
    PROVE  Owed(i, e) \subseteq {t.ip : t \in TargetsForPacket(e)}
<1> SUFFICES ASSUME NEW ip \in Owed(i, e)
             PROVE  \E t \in TargetsForPacket(e) : t.ip = ip
  OBVIOUS
<1>1. PICK c \in Reg!GetClientsForInterface(e) : c.ip = ip
  BY FixedIsListed, HeardIsListed DEF Owed, StillRemembered, IInv
<1> DEFINE known == {[ip |-> d.ip, mac |-> d.mac, broadcastDestMAC |-> FALSE,
                      allowBroadcastMAC |-> e \in Broadcast] :
                        d \in Reg!GetClientsForInterface(e)}
           t == [ip |-> c.ip, mac |-> c.mac, broadcastDestMAC |-> FALSE,
                 allowBroadcastMAC |-> e \in Broadcast]
<1>2. t \in known /\ t.ip = ip
  BY <1>1
<1>3. TargetsForPacket(e) = known
  BY <1>2 DEF TargetsForPacket
<1> QED
  BY <1>2, <1>3

\* A route is only taken to targets that are justified.
LEMMA TargetsAreJustified ==
    ASSUME IInv, NEW i \in Ifaces, NEW e \in Ifaces, NEW t \in TargetsForPacket(e)
    PROVE  t.ip \in IPs /\ Justified(i, e, t.ip)
<1>1. pipe[i].readAt \in Nat /\ pipe[i].readAt <= now /\ now \in Nat
  BY DEF IInv, PacketInv, TypeOK, Pipes, Reg!TypeOK
<1>2. ASSUME NEW c \in Reg!GetClientsForInterface(e), t.ip = c.ip
      PROVE  t.ip \in IPs /\ Justified(i, e, t.ip)
  <2>1. c \in Reg!Clients /\ c.ip \in IPs
    BY ListedIsJustified DEF IInv, Reg!Clients
  <2>2. heard[<<e, c.ip>>].at \in Nat
    BY <2>1 DEF IInv, TypeOK, Reg!TypeOK
  <2> QED
    BY <1>1, <1>2, <2>1, <2>2, ListedIsJustified, RegistryAssumption DEF IInv, Justified
<1>3. CASE t.ip = BroadcastAddress[e] /\ e \in Broadcast
  BY <1>3, WiringAssumption DEF Justified
<1> QED
  BY <1>2, <1>3, TargetCases

-----------------------------------------------------------------------------
(* Invariance *)

\* What a step does to one pipeline.
LEMMA PipeCases ==
    ASSUME IInv, [Next]_vars, NEW i \in Ifaces
    PROVE  \/ ReadAndLearn(i)
           \/ Route(i)
           \/ RewriteFails(i) \/ WriteToTarget(i)
           \/ pipe'[i] = pipe[i]
<1>1. CASE pipe' = pipe
  BY <1>1
<1>2. ASSUME NEW j \in Ifaces \ {i},
             ReadAndLearn(j) \/ Route(j) \/ RewriteFails(j) \/ WriteToTarget(j)
      PROVE  pipe'[i] = pipe[i]
  BY <1>2, ReadEffect, RouteEffect, WriteEffect
<1> QED
  BY <1>1, <1>2 DEF Next, vars, registryVars, FilterDrop, Cleanup, Tick

LEMMA TypeStep == ASSUME IInv, [Next]_vars PROVE TypeOK'
<1>1. Reg!TypeOK'
  BY TableStep, TableType DEF IInv, Table!IInv, Table!TypeOK, Table!Keys, Table!Clients,
     Table!HwAddrs, Reg!TypeOK, Reg!Keys, Reg!Clients, Reg!HwAddrs
<1>2. pipe' \in [Ifaces -> Pipes]
  <2>1. CASE pipe' = pipe
    BY <2>1 DEF IInv, TypeOK
  <2>2. ASSUME NEW i \in Ifaces,
               ReadAndLearn(i) \/ Route(i) \/ RewriteFails(i) \/ WriteToTarget(i)
        PROVE  pipe' \in [Ifaces -> Pipes]
    BY <2>2, ReadEffect, RouteEffect, WriteEffect
  <2> QED
    BY <2>1, <2>2 DEF Next, vars, registryVars, FilterDrop, Cleanup, Tick
<1> QED
  BY <1>1, <1>2 DEF TypeOK, Pipes

\* A pipeline that is left alone reaches what it reached.
LEMMA LeftAlone ==
    ASSUME NEW i \in Ifaces, pipe'[i] = pipe[i], NEW e \in Ifaces
    PROVE  Reaches(i, e)' = Reaches(i, e) /\ (Taken(i, e)' <=> Taken(i, e))
  BY DEF Reaches, Handed, Waiting, Taken, Egress

LEMMA ReadReachesNothing ==
    ASSUME IInv, NEW i \in Ifaces, ReadAndLearn(i), NEW e \in Ifaces
    PROVE  Reaches(i, e)' = {} /\ ~Taken(i, e)'
<1>1. /\ pipe'[i].routes = Egress(i) /\ pipe'[i].at # "write"
      /\ pipe'[i].handed = {}
  BY ReadEffect
<1>2. Waiting(i, e)' = {} /\ Handed(i, e)' = {}
  BY <1>1 DEF Waiting, Handed
<1> QED
  BY <1>1, <1>2 DEF Reaches, Taken, Egress

LEMMA PacketStep == ASSUME IInv, [Next]_vars PROVE PacketInv'
<1> SUFFICES ASSUME NEW i \in Ifaces
             PROVE  /\ pipe'[i].readAt <= now'
                    /\ pipe'[i].at # "read" => pipe'[i].src \in IPv4 /\ pipe'[i].readAt # 0
  BY DEF PacketInv
<1>1. /\ pipe[i].readAt \in Nat /\ pipe[i].readAt <= now
      /\ pipe[i].at # "read" => pipe[i].src \in IPv4 /\ pipe[i].readAt # 0
  BY DEF IInv, PacketInv, TypeOK, Pipes
<1>2. CASE ReadAndLearn(i)
  BY <1>2, HeardStep, ReadEffect
<1>3. CASE Route(i)
  BY <1>1, <1>3, HeardStep, RouteEffect
<1>4. CASE RewriteFails(i) \/ WriteToTarget(i)
  BY <1>1, <1>4, HeardStep, WriteEffect
<1>5. CASE pipe'[i] = pipe[i]
  BY <1>1, <1>5, HeardStep
<1> QED
  BY <1>2, <1>3, <1>4, <1>5, PipeCases

LEMMA TargetStep == ASSUME IInv, [Next]_vars PROVE TargetInv'
<1> SUFFICES ASSUME NEW i \in Ifaces, NEW t \in pipe'[i].targets
             PROVE  t.broadcastDestMAC \/ t.allowBroadcastMAC = (pipe'[i].egress \in Broadcast)
  BY DEF TargetInv
<1>1. \A u \in pipe[i].targets :
        u.broadcastDestMAC \/ u.allowBroadcastMAC = (pipe[i].egress \in Broadcast)
  BY DEF IInv, TargetInv
<1>2. CASE ReadAndLearn(i)
  BY <1>2, ReadEffect
<1>3. CASE Route(i)
  <2>1. PICK e \in pipe[i].routes : /\ pipe'[i].egress = e
                                    /\ pipe'[i].targets = TargetsForPacket(e)
    BY <1>3, RouteEffect
  <2>2. e \in Ifaces
    BY DEF IInv, TypeOK, Pipes
  <2> QED
    BY <2>1, <2>2, TargetsType
<1>4. CASE RewriteFails(i) \/ WriteToTarget(i)
  BY <1>1, <1>4, WriteEffect
<1>5. CASE pipe'[i] = pipe[i]
  BY <1>1, <1>5
<1> QED
  BY <1>2, <1>3, <1>4, <1>5, PipeCases

LEMMA HostStep == ASSUME IInv, [Next]_vars PROVE HostInv'
  BY HeardStep DEF IInv, HostInv

LEMMA ServedStep == ASSUME IInv, [Next]_vars PROVE ServedInv'
<1> SUFFICES ASSUME NEW i \in Ifaces, NEW e \in Ifaces, Taken(i, e)', Reachable(e)
             PROVE  Owed(i, e)' \subseteq Reaches(i, e)'
  BY DEF ServedInv, Reachable
<1>1. Taken(i, e) => Owed(i, e) \subseteq Reaches(i, e)
  BY DEF IInv, ServedInv
<1>2. ~ReadAndLearn(i)
  BY ReadReachesNothing
<1>3. Owed(i, e)' \subseteq Owed(i, e)
  BY <1>2, PipeCases, NothingNewOwed, RouteEffect, WriteEffect
<1>4. CASE Route(i)
  BY <1>1, <1>3, <1>4, RouteReaches, OwedAreTargets
<1>5. CASE RewriteFails(i) \/ WriteToTarget(i)
  <2>1. Taken(i, e)
    BY <1>5, WriteEffect DEF Taken, Egress
  <2>2. Owed(i, e) \subseteq IPv4
    BY DEF Owed, StillRemembered, IInv, HostInv
  <2>3. Reaches(i, e) \cap IPv4 \subseteq Reaches(i, e)'
    BY <1>5, WriteEffect
  <2> QED
    BY <1>1, <1>3, <2>1, <2>2, <2>3
<1>6. CASE pipe'[i] = pipe[i]
  BY <1>1, <1>3, <1>6, LeftAlone
<1> QED
  BY <1>2, <1>4, <1>5, <1>6, PipeCases

\* What a pipeline reaches after a step it reached before, or the packet was
\* just routed there.
LEMMA ReachesStep ==
    ASSUME IInv, [Next]_vars, NEW i \in Ifaces, NEW e \in Ifaces, NEW ip \in Reaches(i, e)'
    PROVE  /\ pipe'[i].readAt = pipe[i].readAt
           /\ \/ ip \in Reaches(i, e)
              \/ \E t \in TargetsForPacket(e) : t.ip = ip
<1>1. ~ReadAndLearn(i)
  BY ReadReachesNothing
<1>2. CASE Route(i)
  BY <1>2, RouteEffect, RouteReaches
<1>3. CASE RewriteFails(i) \/ WriteToTarget(i)
  BY <1>3, WriteEffect
<1>4. CASE pipe'[i] = pipe[i]
  BY <1>4, LeftAlone
<1> QED
  BY <1>1, <1>2, <1>3, <1>4, PipeCases

LEMMA ReachesType ==
    ASSUME IInv, NEW i \in Ifaces, NEW e \in Ifaces
    PROVE  Reaches(i, e) \subseteq IPs
<1>1. pipe[i].handed \subseteq Frames /\ pipe[i].targets \subseteq Targets
  BY DEF IInv, TypeOK, Pipes
<1>2. {f.dst : f \in Handed(i, e)} \subseteq IPs
  BY <1>1, WiringAssumption DEF Handed, Frames
<1>3. {t.ip : t \in Waiting(i, e)} \subseteq IPs
  BY <1>1 DEF Waiting, Targets
<1> QED
  BY <1>2, <1>3 DEF Reaches

LEMMA JustifiedStep == ASSUME IInv, [Next]_vars PROVE JustifiedInv'
<1> SUFFICES ASSUME NEW i \in Ifaces, NEW e \in Ifaces, NEW ip \in Reaches(i, e)'
             PROVE  Justified(i, e, ip)'
  BY DEF JustifiedInv
<1>1. ip \in IPs /\ Justified(i, e, ip)
  BY ReachesStep, ReachesType, TargetsAreJustified DEF IInv, JustifiedInv
<1> QED
  BY <1>1, ReachesStep, NothingNewOwed

\* No segment becomes silent for a packet that is being routed.
LEMMA SilentStep ==
    ASSUME IInv, [Next]_vars, NEW i \in Ifaces, NEW e \in Ifaces,
           pipe'[i].readAt = pipe[i].readAt, Silent(i, e)'
    PROVE  Silent(i, e)
<1>1. pipe[i].readAt \in Nat /\ pipe[i].readAt <= now
  BY DEF IInv, PacketInv, TypeOK, Pipes
<1>2. ASSUME NEW ip \in IPs, heard[<<e, ip>>].at # 0
      PROVE  heard[<<e, ip>>].at + TTL + Period < pipe[i].readAt
  <2>1. CASE heard'[<<e, ip>>] = heard[<<e, ip>>]
    BY <1>2, <2>1 DEF Silent
  <2>2. CASE heard'[<<e, ip>>].at = now
    <3>1. now \in Nat \ {0} /\ now + TTL + Period < pipe[i].readAt
      BY <2>2, HeardStep DEF Silent
    <3> QED
      BY <1>1, <3>1, RegistryAssumption
  <2> QED
    BY <2>1, <2>2, HeardStep
<1> QED
  BY <1>2 DEF Silent, FixedIPs

\* Nobody is listed for a silent segment, so its target is the fallback.
LEMMA SilentIsFlooded ==
    ASSUME IInv, NEW i \in Ifaces, NEW e \in Broadcast, Silent(i, e)
    PROVE  \E t \in TargetsForPacket(e) : t.ip = BroadcastAddress[e]
<1>1. e \in Ifaces /\ pipe[i].readAt \in Nat /\ pipe[i].readAt <= now /\ now \in Nat
  BY WiringAssumption DEF IInv, PacketInv, TypeOK, Pipes, Reg!TypeOK
<1>2. Reg!GetClientsForInterface(e) = {}
  <2> SUFFICES ASSUME NEW c \in Reg!GetClientsForInterface(e) PROVE FALSE
    OBVIOUS
  <2>1. c.ip \in IPs /\ heard[<<e, c.ip>>].at # 0 /\ now <= heard[<<e, c.ip>>].at + TTL + Period
    BY <1>1, ListedIsJustified DEF IInv, Silent, Reg!Clients
  <2>2. heard[<<e, c.ip>>].at \in Nat
    BY <1>1, <2>1 DEF IInv, TypeOK, Reg!TypeOK
  <2>3. heard[<<e, c.ip>>].at + TTL + Period < pipe[i].readAt
    BY <2>1 DEF Silent
  <2> QED
    BY <1>1, <2>1, <2>2, <2>3, RegistryAssumption
<1> DEFINE fallback == [ip |-> BroadcastAddress[e], mac |-> NoMAC,
                        broadcastDestMAC |-> TRUE, allowBroadcastMAC |-> FALSE]
<1>3. TargetsForPacket(e) = {fallback}
  BY <1>2 DEF TargetsForPacket
<1> QED
  BY <1>3

LEMMA FloodedStep == ASSUME IInv, [Next]_vars PROVE FloodedInv'
<1> SUFFICES ASSUME NEW i \in Ifaces, NEW e \in Broadcast,
                    Taken(i, e)', Reachable(e), Silent(i, e)'
             PROVE  BroadcastAddress[e] \in Reaches(i, e)'
  BY DEF FloodedInv, Reachable
<1>1. e \in Ifaces /\ BroadcastAddress[e] \in IPv4
  BY WiringAssumption
<1>2. ~ReadAndLearn(i)
  BY <1>1, ReadReachesNothing
<1>3. Silent(i, e)
  BY <1>1, <1>2, PipeCases, SilentStep, RouteEffect, WriteEffect
<1>4. Taken(i, e) => BroadcastAddress[e] \in Reaches(i, e)
  BY <1>3 DEF IInv, FloodedInv
<1>5. CASE Route(i)
  BY <1>1, <1>3, <1>4, <1>5, RouteReaches, SilentIsFlooded
<1>6. CASE RewriteFails(i) \/ WriteToTarget(i)
  <2>1. Taken(i, e)
    BY <1>6, WriteEffect DEF Taken, Egress
  <2>2. Reaches(i, e) \cap IPv4 \subseteq Reaches(i, e)'
    BY <1>1, <1>6, WriteEffect
  <2> QED
    BY <1>1, <1>4, <2>1, <2>2
<1>7. CASE pipe'[i] = pipe[i]
  BY <1>1, <1>4, <1>7, LeftAlone
<1> QED
  BY <1>2, <1>5, <1>6, <1>7, PipeCases

LEMMA InitIInv == Init => IInv
<1> SUFFICES ASSUME Init PROVE IInv
  OBVIOUS
<1>1. Table!IInv /\ Reg!TypeOK
  BY TableInit, TableType
<1>2. pipe \in [Ifaces -> Pipes]
  <2>1. ASSUME NEW i \in Ifaces PROVE IdlePipe(i) \in Pipes
    <3>1. (CHOOSE ip \in IPs : TRUE) \in IPs
      <4>1. BroadcastAddress[i] \in IPs
        BY WiringAssumption
      <4> QED
        BY <4>1
    <3> QED
      BY <3>1 DEF IdlePipe, Pipes
  <2> QED
    BY <2>1 DEF Init
<1>3. \A i \in Ifaces : /\ pipe[i].readAt = 0 /\ pipe[i].at = "read"
                        /\ pipe[i].targets = {} /\ pipe[i].handed = {}
  BY DEF Init, IdlePipe
<1>4. TypeOK
  BY <1>1, <1>2 DEF TypeOK
<1>5. PacketInv /\ TargetInv
  <2>1. now = 1
    BY DEF Init, Reg!Init
  <2> QED
    BY <1>3, <2>1 DEF PacketInv, TargetInv
<1>6. HostInv
  BY DEF Init, Reg!Init, Reg!Never, HostInv
<1>7. \A i \in Ifaces, e \in Ifaces : Reaches(i, e) = {} /\ ~Taken(i, e)
  BY <1>3 DEF Reaches, Handed, Waiting, Taken
<1>8. ServedInv /\ JustifiedInv /\ FloodedInv
  BY <1>7, WiringAssumption DEF ServedInv, JustifiedInv, FloodedInv
<1> QED
  BY <1>1, <1>4, <1>5, <1>6, <1>8 DEF IInv

LEMMA IInvStep == IInv /\ [Next]_vars => IInv'
<1> SUFFICES ASSUME IInv, [Next]_vars PROVE IInv'
  OBVIOUS
<1>1. Table!IInv'
  BY TableStep DEF IInv
<1>2. TypeOK' /\ PacketInv' /\ TargetInv' /\ HostInv'
  BY TypeStep, PacketStep, TargetStep, HostStep
<1>3. ServedInv' /\ JustifiedInv' /\ FloodedInv'
  BY ServedStep, JustifiedStep, FloodedStep
<1> QED
  BY <1>1, <1>2, <1>3 DEF IInv

THEOREM Invariance == Spec => []IInv
  BY InitIInv, IInvStep, PTL DEF Spec

-----------------------------------------------------------------------------
\* The pipelines and the table keep their types.
THEOREM TypeCorrect == Spec => []TypeOK
<1>1. IInv => TypeOK
  BY DEF IInv
<1> QED
  BY <1>1, Invariance, PTL

\* What is owed on a route that was served has been handed over.
LEMMA ServedIsHanded ==
    ASSUME IInv, NEW i \in Ifaces, NEW e \in Ifaces, Served(i, e), Reachable(e),
           NEW ip \in Owed(i, e)
    PROVE  \E f \in Handed(i, e) : f.dst = ip
<1>1. Taken(i, e) /\ Waiting(i, e) = {}
  BY DEF Served, Taken, Waiting
<1>2. ip \in Reaches(i, e)
  BY <1>1 DEF IInv, ServedInv
<1> QED
  BY <1>1, <1>2 DEF Reaches

\* Every client that is remembered gets every packet, whatever the other
\* pipelines learn and the cleanup removes meanwhile, and whichever other
\* target cannot be served.
THEOREM RememberedServed == Spec => []RememberedClientsAreServed
<1>1. IInv => RememberedClientsAreServed
  BY ServedIsHanded DEF RememberedClientsAreServed, Owed
<1> QED
  BY <1>1, Invariance, PTL

\* Every fixed IPv4 address gets every packet.
THEOREM FixedServed == Spec => []FixedAlwaysServed
<1>1. \A e \in Ifaces : FixedIPs(e) \cap IPv4 \subseteq IPs
  BY WiringAssumption
<1>2. IInv => FixedAlwaysServed
  BY <1>1, ServedIsHanded DEF FixedAlwaysServed, Owed
<1> QED
  BY <1>2, Invariance, PTL

\* No packet goes to a host that should have been forgotten.
THEOREM ForgottenNotServed == Spec => []NoFrameToForgotten
<1>1. ASSUME IInv, NEW i \in Ifaces, NEW f \in pipe[i].handed
      PROVE  Justified(i, f.iface, f.dst)
  <2>1. f \in Frames /\ f.iface \in Ifaces
    BY <1>1 DEF IInv, TypeOK, Pipes, Frames
  <2>2. f.dst \in Reaches(i, f.iface)
    BY DEF Reaches, Handed
  <2> QED
    BY <1>1, <2>1, <2>2 DEF IInv, JustifiedInv
<1>2. IInv => NoFrameToForgotten
  BY <1>1 DEF NoFrameToForgotten, Justified
<1> QED
  BY <1>2, Invariance, PTL

\* Where nobody has been heard for longer than an entry may live, and there is
\* no fixed IP, the packet goes to the broadcast address.
THEOREM SilentFlooded == Spec => []SilentSegmentIsFlooded
<1>1. IInv => SilentSegmentIsFlooded
  <2> SUFFICES ASSUME IInv, NEW i \in Ifaces, NEW e \in Broadcast,
                      Served(i, e), Reachable(e), Silent(i, e)
               PROVE  \E f \in Handed(i, e) : f.dst = BroadcastAddress[e]
    BY WiringAssumption DEF SilentSegmentIsFlooded
  <2>1. Taken(i, e) /\ Waiting(i, e) = {}
    BY DEF Served, Taken, Waiting
  <2>2. BroadcastAddress[e] \in Reaches(i, e)
    BY <2>1 DEF IInv, FloodedInv
  <2> QED
    BY <2>1, <2>2 DEF Reaches
<1> QED
  BY <1>1, Invariance, PTL

-----------------------------------------------------------------------------
(* The broadcast address, where no client can have it *)

BroadcastIsNoHost ==
    \A e \in Ifaces : BroadcastAddress[e] \notin Hosts[e] \cup FixedIPs(e)

LEMMA AloneStep ==
    ASSUME BroadcastIsNoHost, IInv, AloneInv, [Next]_vars
    PROVE  AloneInv'
<1> SUFFICES ASSUME NEW i \in Ifaces, NEW e \in Ifaces,
                    BroadcastAddress[e] \in Reaches(i, e)'
             PROVE  /\ FixedIPs(e) = {}
                    /\ \A ip \in IPs : ~StillRemembered(i, e, ip)'
  BY DEF AloneInv, FixedIPs
<1>1. \A ip \in IPs : StillRemembered(i, e, ip)' => StillRemembered(i, e, ip)
  BY ReachesStep, NothingNewOwed
<1>2. CASE BroadcastAddress[e] \in Reaches(i, e)
  BY <1>1, <1>2 DEF AloneInv
<1>3. ASSUME NEW t \in TargetsForPacket(e), t.ip = BroadcastAddress[e]
      PROVE  FixedIPs(e) = {} /\ \A ip \in IPs : ~StillRemembered(i, e, ip)
  <2>1. ASSUME NEW c \in Reg!GetClientsForInterface(e) PROVE c.ip # BroadcastAddress[e]
    BY <2>1, ListedIsJustified, WiringAssumption
       DEF IInv, HostInv, BroadcastIsNoHost
  <2>2. Reg!GetClientsForInterface(e) = {}
    BY <1>3, <2>1, TargetCases
  <2> QED
    BY <2>2, FixedIsListed, HeardIsListed DEF IInv, StillRemembered
<1> QED
  BY <1>1, <1>2, <1>3, ReachesStep

\* The segment is only bothered with a broadcast when nobody is known there,
\* provided no client has the broadcast address.
THEOREM BroadcastAlone ==
    ASSUME BroadcastIsNoHost
    PROVE  Spec => []BroadcastOnlyWhenAlone
<1>1. Init => AloneInv
  BY DEF Init, IdlePipe, AloneInv, Reaches, Handed, Waiting
<1>2. IInv /\ AloneInv /\ [Next]_vars => AloneInv'
  BY AloneStep
<1>3. IInv /\ AloneInv => BroadcastOnlyWhenAlone
  <2> SUFFICES ASSUME IInv, AloneInv, NEW i \in Ifaces, NEW f \in pipe[i].handed,
                      f.dst = BroadcastAddress[f.iface]
               PROVE  /\ FixedIPs(f.iface) = {}
                      /\ \A ip \in IPs : ~StillRemembered(i, f.iface, ip)
    BY DEF BroadcastOnlyWhenAlone
  <2>1. f.iface \in Ifaces
    BY DEF IInv, TypeOK, Pipes, Frames
  <2>2. f.dst \in Reaches(i, f.iface)
    BY DEF Reaches, Handed
  <2> QED
    BY <2>1, <2>2 DEF AloneInv
<1> QED
  BY <1>1, <1>2, <1>3, Invariance, PTL DEF Spec
=============================================================================
