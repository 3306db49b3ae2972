------------------------ MODULE RegistryProofs ------------------------
(***************************************************************************)
(* What the client table promises, for any interfaces, addresses, fixed    *)
(* IPs, TTL and cleanup period.                                            *)
(***************************************************************************)
EXTENDS Registry, TLAPS

\* A tick is never overdue, and the next one is at most a period away.
ClockInv ==
    /\ now <= nextTick
    /\ nextTick <= now + Period

\* An entry is filed under its own interface, and a learned one under the
\* canonical spelling of its address.
FiledInv ==
    \A k \in Keys : Mortal(k) =>
        /\ clients[k].iface = k[1]
        /\ k[2] = IPString[clients[k].ip]

\* A learned entry that has outlived its TTL falls at the next tick.
DueInv ==
    \A k \in Keys : Mortal(k) =>
        /\ clients[k].lastSeen <= now
        /\ nextTick <= clients[k].lastSeen + TTL + Period

\* Nothing was heard in the future.
HeardInv == \A i \in Ifaces, ip \in IPs : heard[<<i, ip>>].at <= now

\* Only a fixed IP is immortal: whatever is learned has been heard, and can
\* be forgotten.
ImmortalInv ==
    \A k \in Known : clients[k].lastSeen = Immortal => k \in Fixed

IInv ==
    /\ TypeOK
    /\ ClockInv
    /\ FiledInv
    /\ DueInv
    /\ HeardInv
    /\ LearnedIsLatest
    /\ RememberedForTTL
    /\ FixedForever
    /\ ImmortalInv

-----------------------------------------------------------------------------
LEMMA KeyType ==
    ASSUME NEW i \in Ifaces, NEW ip \in IPs
    PROVE  KeyForClient(i, IPString[ip]) \in Keys
BY TextAssumption DEF KeyForClient, Keys

\* A fixed IP is entered as a client.
LEMMA FixedClientType ==
    ASSUME NEW k \in Fixed
    PROVE  k \in Keys /\ FixedClient(k) \in Clients
BY TextAssumption, FixedAssumption DEF FixedClient, Clients, Keys, Immortal, HwAddrs

\* Different addresses of an interface, or different interfaces, are filed
\* under different keys.
LEMMA KeyInjective ==
    ASSUME NEW i \in Ifaces, NEW ip \in IPs, NEW j \in Ifaces, NEW jp \in IPs,
           KeyForClient(i, IPString[ip]) = KeyForClient(j, IPString[jp])
    PROVE  i = j /\ ip = jp
<1>1. i = j /\ IPString[ip] = IPString[jp]
    BY DEF KeyForClient
<1> QED
    BY <1>1, TextAssumption

LEMMA FixedIsKnown ==
    ASSUME FixedForever, NEW k \in Fixed
    PROVE  k \in Known /\ clients[k].lastSeen = Immortal
<1>1. clients[k] = FixedClient(k) /\ k \in Keys /\ clients[k] # NoClient
    BY FixedClientType, NoClientAssumption DEF FixedForever
<1>2. FixedClient(k).lastSeen = Immortal
    BY DEF FixedClient
<1> QED
    BY <1>1, <1>2 DEF Known

LEMMA InitIInv == Init => IInv
<1> SUFFICES ASSUME Init
             PROVE  IInv
    OBVIOUS
<1>1. TypeOK
    BY FixedClientType, TimeAssumption DEF Init, TypeOK, Never, HwAddrs
<1>2. ClockInv
    BY TimeAssumption DEF Init, ClockInv
<1>3. \A k \in Keys : ~Mortal(k)
    BY DEF Init, Mortal, Known, FixedClient
<1>4. FiledInv /\ DueInv /\ LearnedIsLatest
    BY <1>3 DEF FiledInv, DueInv, LearnedIsLatest
<1>5. HeardInv /\ RememberedForTTL
    <2>1. \A i \in Ifaces, ip \in IPs : heard[<<i, ip>>].at = 0
        BY DEF Init, Never
    <2>2. now = 1
        BY DEF Init
    <2> QED
        BY <2>1, <2>2 DEF HeardInv, RememberedForTTL
<1>6. FixedForever
    BY FixedClientType DEF Init, FixedForever
<1>7. ImmortalInv
    BY DEF Init, ImmortalInv, Known
<1> QED
    BY <1>1, <1>2, <1>4, <1>5, <1>6, <1>7 DEF IInv

\* Learning a packet's source keeps the invariant.
LEMMA LearnStep ==
    ASSUME IInv, NEW i \in Ifaces, NEW ip \in IPs, NEW mac \in HwAddrs,
           ProcessForInterface(i, ip, mac)
    PROVE  IInv'
<1> DEFINE key == KeyForClient(i, IPString[ip])
           new == [ip |-> ip, iface |-> i, lastSeen |-> now, mac |-> mac]
           fixed == key \in Known /\ clients[key].lastSeen = Immortal
<1>1. /\ clients' = IF fixed THEN clients ELSE [clients EXCEPT ![key] = new]
      /\ heard' = [heard EXCEPT ![<<i, ip>>] = [at |-> now, mac |-> mac]]
      /\ now' = now /\ nextTick' = nextTick
    BY DEF ProcessForInterface
<1>2. key \in Keys /\ key[1] = i /\ key[2] = IPString[ip]
    BY KeyType DEF KeyForClient
<1>3. new \in Clients /\ new # NoClient
    BY NoClientAssumption DEF IInv, TypeOK, Clients
<1> HIDE DEF new
<1>4. TypeOK'
    BY <1>1, <1>2, <1>3 DEF IInv, TypeOK
<1>5. /\ new.ip = ip /\ new.iface = i /\ new.lastSeen = now /\ new.mac = mac
    BY DEF new
<1> HIDE DEF key
\* Every other key, and the key of an immortal client, keeps its entry.
<1>6. /\ \A k \in Keys : k # key \/ fixed => clients'[k] = clients[k]
      /\ ~fixed => clients'[key] = new
    BY <1>1, <1>2 DEF IInv, TypeOK
<1>7. \A k \in Keys : Mortal(k)' =>
        \/ k = key /\ ~fixed /\ clients'[k] = new
        \/ k # key /\ Mortal(k) /\ clients'[k] = clients[k]
    BY <1>6 DEF Mortal, Known
<1>8. HeardInv'
    <2> SUFFICES ASSUME NEW j \in Ifaces, NEW jp \in IPs
                 PROVE  heard'[<<j, jp>>].at <= now
        BY <1>1 DEF HeardInv
    <2>1. CASE <<j, jp>> = <<i, ip>>
        BY <1>1, <2>1 DEF IInv, TypeOK
    <2>2. CASE <<j, jp>> # <<i, ip>>
        BY <1>1, <2>2 DEF IInv, TypeOK, HeardInv
    <2> QED
        BY <2>1, <2>2
<1>9. ClockInv'
    BY <1>1 DEF IInv, ClockInv
<1>10. FiledInv'
    BY <1>2, <1>5, <1>7 DEF IInv, FiledInv
<1>11. DueInv'
    BY <1>1, <1>5, <1>7, TimeAssumption DEF IInv, TypeOK, DueInv, ClockInv
<1>12. LearnedIsLatest'
    <2> SUFFICES ASSUME NEW k \in Keys, Mortal(k)'
                 PROVE  heard'[<<clients'[k].iface, clients'[k].ip>>] =
                          [at |-> clients'[k].lastSeen, mac |-> clients'[k].mac]
        BY DEF LearnedIsLatest
    <2>1. CASE k = key /\ clients'[k] = new
        BY <1>1, <1>5, <2>1 DEF IInv, TypeOK
    <2>2. CASE k # key /\ Mortal(k) /\ clients'[k] = clients[k]
        <3>1. clients[k] \in Clients
            BY <2>2 DEF IInv, TypeOK, Mortal, Known
        <3>2. <<clients[k].iface, clients[k].ip>> # <<i, ip>>
            BY <1>2, <2>2, <3>1 DEF IInv, FiledInv, Keys
        <3>3. heard'[<<clients[k].iface, clients[k].ip>>] =
                heard[<<clients[k].iface, clients[k].ip>>]
            BY <1>1, <3>1, <3>2 DEF IInv, TypeOK, Clients
        <3> QED
            BY <2>2, <3>3 DEF IInv, LearnedIsLatest
    <2> QED
        BY <1>7, <2>1, <2>2
<1>13. RememberedForTTL'
    <2> SUFFICES ASSUME NEW j \in Ifaces, NEW jp \in IPs,
                        heard'[<<j, jp>>].at # 0, now <= heard'[<<j, jp>>].at + TTL
                 PROVE  LET k == KeyForClient(j, IPString[jp])
                        IN  \/ k \in Known' /\ clients'[k].lastSeen = Immortal
                            \/ clients'[k] = [ip |-> jp, iface |-> j,
                                              lastSeen |-> heard'[<<j, jp>>].at,
                                              mac |-> heard'[<<j, jp>>].mac]
        BY <1>1 DEF RememberedForTTL
    <2> DEFINE k == KeyForClient(j, IPString[jp])
    <2>1. k \in Keys
        BY KeyType
    <2>2. CASE j = i /\ jp = ip
        <3>1. k = key
            BY <2>2 DEF key
        <3>2. CASE fixed
            BY <1>6, <2>1, <3>1, <3>2 DEF Known
        <3>3. CASE ~fixed
            <4>1. heard'[<<j, jp>>] = [at |-> now, mac |-> mac]
                BY <1>1, <2>2 DEF IInv, TypeOK
            <4> QED
                BY <1>6, <2>2, <3>1, <3>3, <4>1 DEF new
        <3> QED
            BY <3>2, <3>3
    <2>3. CASE ~(j = i /\ jp = ip)
        <3>1. k # key
            BY <2>3, KeyInjective DEF key
        <3>2. clients'[k] = clients[k]
            BY <1>6, <2>1, <3>1
        <3>3. heard'[<<j, jp>>] = heard[<<j, jp>>]
            BY <1>1, <2>3 DEF IInv, TypeOK
        <3>4. \/ k \in Known /\ clients[k].lastSeen = Immortal
              \/ clients[k] = [ip |-> jp, iface |-> j, lastSeen |-> heard[<<j, jp>>].at,
                               mac |-> heard[<<j, jp>>].mac]
            BY <3>3 DEF IInv, RememberedForTTL
        <3> QED
            BY <2>1, <3>2, <3>3, <3>4 DEF Known
    <2> QED
        BY <2>2, <2>3
<1>14. FixedForever'
    <2>1. \A k \in Fixed : k \in Known /\ clients[k].lastSeen = Immortal
        BY FixedIsKnown DEF IInv
    <2>2. \A k \in Fixed : clients'[k] = clients[k]
        BY <1>6, <2>1 DEF Known
    <2>3. \A k \in Fixed : clients'[k] = FixedClient(k)
        BY <2>2 DEF IInv, FixedForever
    <2> QED
        BY <2>3 DEF FixedForever, FixedClient
<1>15. ImmortalInv'
    <2> SUFFICES ASSUME NEW k \in Keys, clients'[k] # NoClient,
                        clients'[k].lastSeen = Immortal
                 PROVE  k \in Fixed
        BY DEF ImmortalInv, Known
    <2>1. now # Immortal
        BY DEF IInv, TypeOK, Immortal
    <2>2. clients'[k] = clients[k]
        BY <1>5, <1>6, <2>1
    <2> QED
        BY <2>2 DEF IInv, ImmortalInv, Known
<1> QED
    BY <1>4, <1>8, <1>9, <1>10, <1>11, <1>12, <1>13, <1>14, <1>15 DEF IInv

\* A cleanup keeps it.
LEMMA CleanupStep == ASSUME IInv, Cleanup PROVE IInv'
<1>1. /\ \A k \in Keys :
            clients'[k] = IF Mortal(k) /\ Expired(k) THEN NoClient ELSE clients[k]
      /\ now = nextTick /\ nextTick' = nextTick + Period
      /\ now' = now /\ heard' = heard
    BY DEF Cleanup
<1>2. TypeOK'
    BY TimeAssumption DEF IInv, TypeOK, Cleanup
<1>3. \A k \in Keys : Mortal(k)' => Mortal(k) /\ ~Expired(k) /\ clients'[k] = clients[k]
    BY <1>1 DEF Mortal, Known
<1>4. \A k \in Keys : Mortal(k) => clients[k] \in Clients
    BY DEF IInv, TypeOK, Mortal, Known
<1>5. ClockInv' /\ HeardInv'
    BY <1>1, TimeAssumption DEF IInv, TypeOK, ClockInv, HeardInv
<1>6. FiledInv' /\ LearnedIsLatest'
    BY <1>1, <1>3 DEF IInv, FiledInv, LearnedIsLatest
<1>7. DueInv'
    <2> SUFFICES ASSUME NEW k \in Keys, Mortal(k)'
                 PROVE  /\ clients[k].lastSeen <= now
                        /\ now + Period <= clients[k].lastSeen + TTL + Period
        BY <1>1, <1>3 DEF DueInv
    <2>1. clients[k].lastSeen \in Nat /\ clients[k].lastSeen <= now /\ ~Expired(k)
        BY <1>3, <1>4 DEF IInv, DueInv, Clients
    <2> QED
        BY <2>1, TimeAssumption DEF IInv, TypeOK, Expired
<1>8. RememberedForTTL'
    <2> SUFFICES ASSUME NEW i \in Ifaces, NEW ip \in IPs,
                        heard[<<i, ip>>].at # 0, now <= heard[<<i, ip>>].at + TTL
                 PROVE  LET k == KeyForClient(i, IPString[ip])
                        IN  /\ clients'[k] = clients[k]
                            /\ \/ k \in Known /\ clients[k].lastSeen = Immortal
                               \/ clients[k] = [ip |-> ip, iface |-> i,
                                                lastSeen |-> heard[<<i, ip>>].at,
                                                mac |-> heard[<<i, ip>>].mac]
        BY <1>1 DEF RememberedForTTL, Known
    <2> DEFINE k == KeyForClient(i, IPString[ip])
    <2>1. k \in Keys
        BY KeyType
    <2>2. CASE k \in Known /\ clients[k].lastSeen = Immortal
        BY <1>1, <2>1, <2>2 DEF Mortal
    <2>3. CASE clients[k] = [ip |-> ip, iface |-> i, lastSeen |-> heard[<<i, ip>>].at,
                             mac |-> heard[<<i, ip>>].mac]
        <3>1. heard[<<i, ip>>].at \in Nat
            BY DEF IInv, TypeOK
        <3>2. ~Expired(k)
            BY <2>3, <3>1, TimeAssumption DEF IInv, TypeOK, Expired
        <3> QED
            BY <1>1, <2>1, <2>3, <3>2
    <2> QED
        BY <2>2, <2>3 DEF IInv, RememberedForTTL
<1>9. FixedForever'
    <2>1. \A k \in Fixed : k \in Keys /\ ~Mortal(k)
        BY FixedIsKnown, FixedClientType DEF IInv, Mortal
    <2>2. \A k \in Fixed : clients'[k] = FixedClient(k)
        BY <1>1, <2>1 DEF IInv, FixedForever
    <2> QED
        BY <2>2 DEF FixedForever, FixedClient
<1>10. ImmortalInv'
    BY <1>1 DEF IInv, ImmortalInv, Known
<1> QED
    BY <1>2, <1>5, <1>6, <1>7, <1>8, <1>9, <1>10 DEF IInv

\* So does the passing of time, for no tick is ever overdue.
LEMMA TickStep == ASSUME IInv, Tick PROVE IInv'
<1>1. /\ clients' = clients /\ nextTick' = nextTick /\ heard' = heard
      /\ now' = now + 1 /\ now # nextTick
    BY DEF Tick
<1>2. TypeOK' /\ ClockInv'
    BY <1>1, TimeAssumption DEF IInv, TypeOK, ClockInv
<1>3. FiledInv' /\ LearnedIsLatest' /\ FixedForever' /\ ImmortalInv'
    BY <1>1 DEF IInv, FiledInv, LearnedIsLatest, FixedForever, ImmortalInv, Mortal, Known,
                FixedClient
<1>4. DueInv'
    <2>1. \A k \in Keys : Mortal(k) => clients[k].lastSeen \in Nat
        BY DEF IInv, TypeOK, Mortal, Known, Clients
    <2> QED
        BY <1>1, <2>1 DEF IInv, TypeOK, DueInv, Mortal, Known
<1>5. \A i \in Ifaces, ip \in IPs : heard[<<i, ip>>].at \in Nat
    BY DEF IInv, TypeOK
<1>6. HeardInv'
    <2> SUFFICES ASSUME NEW i \in Ifaces, NEW ip \in IPs
                 PROVE  heard'[<<i, ip>>].at <= now'
        BY DEF HeardInv
    <2>1. heard[<<i, ip>>].at <= now
        BY DEF IInv, HeardInv
    <2>2. heard[<<i, ip>>].at \in Nat /\ now \in Nat
        BY DEF IInv, TypeOK
    <2> QED
        BY <1>1, <2>1, <2>2
<1>7. RememberedForTTL'
    <2>1. \A i \in Ifaces, ip \in IPs :
            now' <= heard[<<i, ip>>].at + TTL => now <= heard[<<i, ip>>].at + TTL
        BY <1>1, <1>5, TimeAssumption DEF IInv, TypeOK
    <2> QED
        BY <1>1, <2>1 DEF IInv, RememberedForTTL, Known
<1> QED
    BY <1>2, <1>3, <1>4, <1>6, <1>7 DEF IInv

LEMMA IInvStep == IInv /\ [Next]_vars => IInv'
<1> SUFFICES ASSUME IInv, [Next]_vars
             PROVE  IInv'
    OBVIOUS
<1>1. CASE \E i \in Ifaces, ip \in IPs, mac \in HwAddrs : ProcessForInterface(i, ip, mac)
    BY <1>1, LearnStep
<1>2. CASE Cleanup
    BY <1>2, CleanupStep
<1>3. CASE Tick
    BY <1>3, TickStep
<1>4. CASE UNCHANGED vars
    <2>1. TypeOK' /\ ClockInv' /\ FiledInv' /\ DueInv'
        BY <1>4 DEF vars, IInv, TypeOK, ClockInv, FiledInv, DueInv, Mortal, Known
    <2>2. HeardInv' /\ LearnedIsLatest' /\ RememberedForTTL' /\ FixedForever' /\ ImmortalInv'
        BY <1>4 DEF vars, IInv, HeardInv, LearnedIsLatest, RememberedForTTL,
                    FixedForever, ImmortalInv, FixedClient, Mortal, Known
    <2> QED
        BY <2>1, <2>2 DEF IInv
<1> QED
    BY <1>1, <1>2, <1>3, <1>4 DEF Next

THEOREM Invariance == Spec => []IInv
BY InitIInv, IInvStep, PTL DEF Spec

-----------------------------------------------------------------------------
\* The table holds clients, whatever is heard.
THEOREM TypeCorrect == Spec => []TypeOK
<1>1. IInv => TypeOK
    BY DEF IInv
<1> QED
    BY <1>1, Invariance, PTL

\* A host heard within the last TTL is remembered, with its latest MAC.
THEOREM Remembered == Spec => []RememberedForTTL
<1>1. IInv => RememberedForTTL
    BY DEF IInv
<1> QED
    BY <1>1, Invariance, PTL

LEMMA DueIsInTime == IInv => ForgottenInTime
<1> SUFFICES ASSUME IInv, NEW k \in Keys, Mortal(k)
             PROVE  now <= clients[k].lastSeen + TTL + Period
    BY DEF ForgottenInTime
<1>1. clients[k].lastSeen \in Nat
    BY DEF IInv, TypeOK, Mortal, Known, Clients
<1> QED
    BY <1>1, TimeAssumption DEF IInv, TypeOK, ClockInv, DueInv

\* A silent client is forgotten at most one cleanup period after its TTL.
THEOREM Forgotten == Spec => []ForgottenInTime
BY DueIsInTime, Invariance, PTL

\* A learned entry is the latest thing heard from its host on its interface.
THEOREM Latest == Spec => []LearnedIsLatest
<1>1. IInv => LearnedIsLatest
    BY DEF IInv
<1> QED
    BY <1>1, Invariance, PTL

\* The entry of a fixed IP never changes.
THEOREM FixedIsImmortal == Spec => []FixedForever
<1>1. IInv => FixedForever
    BY DEF IInv
<1> QED
    BY <1>1, Invariance, PTL
=============================================================================
