--------------------------- MODULE Registry ---------------------------
(***************************************************************************)
(* stages.RegistryProcessor: the table of known clients, shared by the     *)
(* pipelines of all interfaces and by the goroutine of main that cleans it *)
(* every minute.  Every operation is one critical section.                 *)
(*                                                                         *)
(* Time is counted in units that divide the cleanup period.  A value of    *)
(* now is an instant time.Now() can return; 0 is the zero time.Time.       *)
(***************************************************************************)
EXTENDS Naturals

CONSTANTS
    Ifaces,     \* interface names
    IPs,        \* IP addresses
    Texts,      \* spellings of IP addresses
    ParseIP,    \* net.ParseIP: the address a spelling stands for
    IPString,   \* net.IP.String: the canonical spelling of an address
    MACs,       \* Ethernet addresses
    NoMAC,      \* the empty Ethernet address
    Fixed,      \* the --fixed-ip arguments: pairs <<interface, spelling>>
    TTL,        \* --cache-ttl
    Period,     \* time between two ticks of the cleanup goroutine
    MaxTime,    \* the clock stops there (bound of the model)
    NoClient    \* there is no entry for this key

ASSUME TextAssumption ==
    /\ ParseIP \in [Texts -> IPs]
    /\ IPString \in [IPs -> Texts]
    /\ \A ip \in IPs : ParseIP[IPString[ip]] = ip
ASSUME FixedAssumption == Fixed \subseteq Ifaces \X Texts
ASSUME TimeAssumption == TTL \in Nat \ {0} /\ Period \in Nat \ {0} /\ MaxTime \in Nat

Immortal == 0

HwAddrs == MACs \cup {NoMAC}
Clients == [ip : IPs, iface : Ifaces, lastSeen : Nat, mac : HwAddrs]

ASSUME NoClientAssumption == NoClient \notin Clients

VARIABLES
    clients,    \* r.clients
    now,        \* the clock
    nextTick,   \* when the cleanup ticker fires next
    heard       \* history: when and from which MAC each address was last
                \* heard on each interface

vars == <<clients, now, nextTick, heard>>

\* keyForClient
Keys == Ifaces \X Texts
KeyForClient(i, text) == <<i, text>>

Never == [at |-> 0, mac |-> NoMAC]
Known == {k \in Keys : clients[k] # NoClient}
\* Faulty variant: the zero time is taken for an ordinary one.
MortalAll(k) == k \in Known
Mortal(k) == k \in Known /\ clients[k].lastSeen # Immortal

TypeOK ==
    /\ clients \in [Keys -> Clients \cup {NoClient}]
    /\ now \in Nat \ {0}
    /\ nextTick \in Nat
    /\ heard \in [Ifaces \X IPs -> [at : Nat, mac : HwAddrs]]

\* Faulty variant: fixed clients get no interface, as NewRegistryProcessor's.
FixedClientNowhere(k) ==
    [ip |-> ParseIP[k[2]], iface |-> "", lastSeen |-> Immortal, mac |-> NoMAC]

FixedClient(k) ==
    [ip |-> ParseIP[k[2]], iface |-> k[1], lastSeen |-> Immortal, mac |-> NoMAC]

\* NewRegistryProcessorByInterface, and the ticker main starts.
Init ==
    /\ clients = [k \in Keys |-> IF k \in Fixed THEN FixedClient(k) ELSE NoClient]
    /\ now = 1
    /\ nextTick = 1 + Period
    /\ heard = [h \in Ifaces \X IPs |-> Never]

-----------------------------------------------------------------------------
\* Faulty variant: a client that is known is refreshed, but keeps its old MAC.
RefreshKeepsMAC(i, ip, mac) ==
    LET k == KeyForClient(i, IPString[ip]) IN
    /\ clients' =
         IF k \notin Known
         THEN [clients EXCEPT ![k] = [ip |-> ip, iface |-> i, lastSeen |-> now, mac |-> mac]]
         ELSE IF Mortal(k) THEN [clients EXCEPT ![k].lastSeen = now] ELSE clients
    /\ heard' = [heard EXCEPT ![<<i, ip>>] = [at |-> now, mac |-> mac]]
    /\ UNCHANGED <<now, nextTick>>

\* Faulty variant: a packet from a fixed IP makes it an ordinary client.
RefreshAll(i, ip, mac) ==
    /\ clients' = [clients EXCEPT ![KeyForClient(i, IPString[ip])] =
                     [ip |-> ip, iface |-> i, lastSeen |-> now, mac |-> mac]]
    /\ heard' = [heard EXCEPT ![<<i, ip>>] = [at |-> now, mac |-> mac]]
    /\ UNCHANGED <<now, nextTick>>

\* ProcessForInterface, for an IPv4 packet from ip that arrived on i: a new
\* client is entered, one that is not immortal is refreshed with the MAC of
\* this packet.
ProcessForInterface(i, ip, mac) ==
    LET k == KeyForClient(i, IPString[ip]) IN
    /\ clients' =
         IF k \in Known /\ clients[k].lastSeen = Immortal
         THEN clients
         ELSE [clients EXCEPT ![k] =
                 [ip |-> ip, iface |-> i, lastSeen |-> now, mac |-> mac]]
    /\ heard' = [heard EXCEPT ![<<i, ip>>] = [at |-> now, mac |-> mac]]
    /\ UNCHANGED <<now, nextTick>>

\* GetClientsForInterface: a copy, used after the lock is released.
GetClientsForInterface(i) ==
    {clients[k] : k \in {k \in Known : clients[k].iface = i}}

\* Faulty variants: the boundary is off by one, in both directions.
ExpiredEarly(k) == now - clients[k].lastSeen >= TTL
ExpiredLate(k) == now - clients[k].lastSeen > TTL + 1

Expired(k) == now - clients[k].lastSeen > TTL

\* Cleanup, on a tick.
Cleanup ==
    /\ now = nextTick
    /\ clients' = [k \in Keys |->
                     IF Mortal(k) /\ Expired(k) THEN NoClient ELSE clients[k]]
    /\ nextTick' = nextTick + Period
    /\ UNCHANGED <<now, heard>>

\* Time passes; a tick that is due is handled before the next instant.
Tick ==
    /\ now < MaxTime
    /\ now # nextTick
    /\ now' = now + 1
    /\ UNCHANGED <<clients, nextTick, heard>>

Next ==
    \/ \E i \in Ifaces, ip \in IPs, mac \in HwAddrs : ProcessForInterface(i, ip, mac)
    \/ Cleanup
    \/ Tick

Spec == Init /\ [][Next]_vars

-----------------------------------------------------------------------------
(* Properties *)

\* A host that was heard on an interface within the last TTL is in the table
\* for that interface, with the MAC it was last heard from (an immortal entry
\* keeps no MAC): no cleanup, and no packet heard on another interface, can
\* make the proxy forget it early or remember it wrongly.
RememberedForTTL ==
    \A i \in Ifaces, ip \in IPs :
        LET k == KeyForClient(i, IPString[ip])
            h == heard[<<i, ip>>]
        IN  h.at # 0 /\ now <= h.at + TTL =>
              \/ k \in Known /\ clients[k].lastSeen = Immortal
              \/ clients[k] = [ip |-> ip, iface |-> i, lastSeen |-> h.at, mac |-> h.mac]

\* A learned client that falls silent is forgotten no later than one cleanup
\* period after its TTL.
ForgottenInTime ==
    \A k \in Keys : Mortal(k) => now <= clients[k].lastSeen + TTL + Period

\* A learned entry tells when, and from which MAC, its address was last heard
\* on its own interface, even if the host is heard on several interfaces.
LearnedIsLatest ==
    \A k \in Keys : Mortal(k) =>
        heard[<<clients[k].iface, clients[k].ip>>] =
            [at |-> clients[k].lastSeen, mac |-> clients[k].mac]

\* The entry of a --fixed-ip argument never changes, whatever is heard from
\* that address and however long it is silent.
FixedForever ==
    \A k \in Fixed : clients[k] = FixedClient(k)
=============================================================================
