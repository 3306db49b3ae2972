------------------------- MODULE StartupProofs -------------------------
(***************************************************************************)
(* The set-up, for any host, any command line, and whatever comes and goes *)
(* meanwhile.                                                              *)
(***************************************************************************)
EXTENDS Startup, FiniteSetTheorems, TLAPS

BuiltType ==
    [active : Seq(Devices), routes : SUBSET (Nat \X Nat),
     listener : [Devices -> {None, "open", "refused", "ended"}]]

TypeInv ==
    /\ cli \in CommandLines
    /\ at \in {"begin", "configure", "setup", "addresses", "connect", "listen",
               "wait", "exited"}
    /\ status \in {0, 1} /\ failed \in BOOLEAN
    /\ todo \in Seq(Devices) /\ built \in BuiltType
    /\ listed \subseteq Devices /\ present \subseteq Devices

SettingUp == at \in {"setup", "addresses"}
IsSetUp == at \in {"connect", "listen", "wait"}

\* The interfaces that the command line asks for, fixed IPs included.
Complete(devices) ==
    /\ Range(cli.interface) \subseteq devices
    /\ cli.deliverLocal => devices \cap Loopbacks # {}
    /\ OneLoopback => cli.fixed \subseteq devices

\* No interface is lost between the command line and the pipelines.
PlanInv ==
    /\ SettingUp => Complete(Range(active) \cup Range(todo))
    /\ at = "addresses" => todo # <<>>
    /\ IsSetUp => Complete(Range(active))

\* Routes connect pipelines of different interfaces, once all are there.
RouteInv ==
    /\ routes \subseteq Pairs
    /\ ~IsSetUp => routes = {}
    /\ Running => routes = Pairs

\* An interface has been listened on, is still to be, or must not be.
ListenInv ==
    /\ ~Running => \A d \in Devices : listener[d] = None
    /\ Running => \A d \in Devices :
         listener[d] # None => ~cli.noListen /\ d \in Range(cli.interface)
    /\ at = "listen" => ~cli.noListen /\ Range(todo) \subseteq Range(cli.interface)
    /\ Running /\ ~cli.noListen => \A d \in Range(cli.interface) :
         listener[d] # None \/ (at = "listen" /\ d \in Range(todo))

IInv == TypeInv /\ PlanInv /\ RouteInv /\ ListenInv

-----------------------------------------------------------------------------
(* Sequences, and what the constants are *)

LEMMA CliType ==
  ASSUME TypeInv
  PROVE  /\ cli.interface \in Seq(Devices) /\ cli.fixed \subseteq Devices
         /\ cli.deliverLocal \in BOOLEAN /\ cli.noListen \in BOOLEAN
BY StartupAssumption DEF TypeInv

LEMMA RangeOfAppend ==
  ASSUME NEW S, NEW s \in Seq(S), NEW e \in S
  PROVE  Range(Append(s, e)) = Range(s) \cup {e}
<1>1. Append(s, e) \in Seq(S) /\ DOMAIN s = 1..Len(s) /\ Len(s) \in Nat
      /\ DOMAIN Append(s, e) = 1..Len(s) + 1
  OBVIOUS
<1>2. Append(s, e)[Len(s) + 1] = e /\ \A k \in 1..Len(s) : Append(s, e)[k] = s[k]
  OBVIOUS
<1>3. 1..Len(s) + 1 = 1..Len(s) \cup {Len(s) + 1}
  BY <1>1
<1> QED
  BY <1>1, <1>2, <1>3 DEF Range

LEMMA RangeOfTail ==
  ASSUME NEW S, NEW s \in Seq(S), s # <<>>
  PROVE  /\ Head(s) \in S /\ Tail(s) \in Seq(S)
         /\ Range(s) = Range(Tail(s)) \cup {Head(s)}
<1>1. Len(s) \in Nat \ {0} /\ DOMAIN s = 1..Len(s) /\ Head(s) = s[1]
      /\ Tail(s) \in Seq(S) /\ DOMAIN Tail(s) = 1..Len(s) - 1
  OBVIOUS
<1>2. \A k \in 1..Len(s) - 1 : Tail(s)[k] = s[k + 1]
  OBVIOUS
<1>3. ASSUME NEW x \in Range(s) PROVE x \in Range(Tail(s)) \cup {Head(s)}
  <2>1. PICK k \in 1..Len(s) : x = s[k]
    BY <1>1 DEF Range
  <2>2. CASE k = 1
    BY <1>1, <2>1, <2>2
  <2>3. CASE k # 1
    <3>1. k - 1 \in 1..Len(s) - 1 /\ Tail(s)[k - 1] = x
      BY <1>1, <1>2, <2>1, <2>3
    <3> QED
      BY <1>1, <3>1 DEF Range
  <2> QED
    BY <2>2, <2>3
<1>4. ASSUME NEW x \in Range(Tail(s)) PROVE x \in Range(s)
  <2>1. PICK k \in 1..Len(s) - 1 : x = Tail(s)[k]
    BY <1>1, <1>4 DEF Range
  <2>2. k + 1 \in 1..Len(s) /\ s[k + 1] = x
    BY <1>1, <1>2, <2>1
  <2> QED
    BY <1>1, <2>2 DEF Range
<1>5. Head(s) \in Range(s) /\ Head(s) \in S
  <2>1. 1 \in 1..Len(s)
    BY <1>1
  <2> QED
    BY <1>1, <2>1 DEF Range
<1> QED
  BY <1>1, <1>3, <1>4, <1>5

LEMMA RangeOfConcat ==
  ASSUME NEW S, NEW s \in Seq(S), NEW t \in Seq(S)
  PROVE  Range(s \o t) = Range(s) \cup Range(t)
<1>1. /\ Len(s) \in Nat /\ DOMAIN s = 1..Len(s)
      /\ Len(t) \in Nat /\ DOMAIN t = 1..Len(t)
      /\ s \o t \in Seq(S) /\ DOMAIN (s \o t) = 1..Len(s) + Len(t)
  OBVIOUS
<1>2. /\ \A k \in 1..Len(s) : (s \o t)[k] = s[k]
      /\ \A k \in 1..Len(t) : (s \o t)[Len(s) + k] = t[k]
  OBVIOUS
<1>3. ASSUME NEW x \in Range(s \o t) PROVE x \in Range(s) \cup Range(t)
  <2>1. PICK k \in 1..Len(s) + Len(t) : x = (s \o t)[k]
    BY <1>1 DEF Range
  <2>2. CASE k <= Len(s)
    BY <1>1, <1>2, <2>1, <2>2 DEF Range
  <2>3. CASE k > Len(s)
    <3>1. k - Len(s) \in 1..Len(t) /\ x = t[k - Len(s)]
      BY <1>1, <1>2, <2>1, <2>3
    <3> QED
      BY <1>1, <3>1 DEF Range
  <2> QED
    BY <1>1, <2>1, <2>2, <2>3
<1>4. ASSUME NEW x \in Range(s) PROVE x \in Range(s \o t)
  <2>1. PICK k \in 1..Len(s) : x = s[k]
    BY <1>1, <1>4 DEF Range
  <2>2. k \in 1..Len(s) + Len(t) /\ x = (s \o t)[k]
    BY <1>1, <1>2, <2>1
  <2> QED
    BY <1>1, <2>2 DEF Range
<1>5. ASSUME NEW x \in Range(t) PROVE x \in Range(s \o t)
  <2>1. PICK k \in 1..Len(t) : x = t[k]
    BY <1>1, <1>5 DEF Range
  <2>2. Len(s) + k \in 1..Len(s) + Len(t) /\ x = (s \o t)[Len(s) + k]
    BY <1>1, <1>2, <2>1
  <2> QED
    BY <1>1, <2>2 DEF Range
<1> QED
  BY <1>3, <1>4, <1>5

LEMMA RangeOfEmpty == Range(<<>>) = {}
BY DEF Range

-----------------------------------------------------------------------------
(* The initial states, and the steps that end the process *)

LEMMA NothingIsBuilt ==
  ASSUME built = Nothing
  PROVE  /\ built \in BuiltType
         /\ active = <<>> /\ routes = {} /\ routes \subseteq Pairs
         /\ \A d \in Devices : listener[d] = None
<1>1. Nothing \in BuiltType
  BY DEF Nothing, BuiltType
<1>2. active = <<>> /\ routes = {} /\ listener = [d \in Devices |-> None]
  BY DEF active, routes, listener, Nothing
<1> QED
  BY <1>1, <1>2

LEMMA InitIInv == Init => IInv
<1> SUFFICES ASSUME Init PROVE IInv
  OBVIOUS
<1>1. built = Nothing /\ at = "begin" /\ todo = <<>>
  BY DEF Init
<1>2. built \in BuiltType
  BY <1>1, NothingIsBuilt
<1>3. todo \in Seq(Devices) /\ listed \subseteq Devices /\ present \subseteq Devices
  BY <1>1 DEF Init
<1>4. TypeInv
  BY <1>2, <1>3 DEF Init, TypeInv
<1> QED
  BY <1>1, <1>4, NothingIsBuilt
  DEF IInv, PlanInv, RouteInv, ListenInv, SettingUp, IsSetUp, Running

LEMMA ExitStep ==
  ASSUME TypeInv, NEW code \in {0, 1}, NEW error \in BOOLEAN, Exit(code, error)
  PROVE  IInv'
<1>1. (built = Nothing)' /\ at' = "exited" /\ todo' = <<>>
  BY DEF Exit
<1>2. (/\ built \in BuiltType
       /\ active = <<>> /\ routes = {} /\ routes \subseteq Pairs
       /\ \A d \in Devices : listener[d] = None)'
  <2>1. Nothing' = Nothing
    BY DEF Nothing
  <2>2. Nothing \in BuiltType /\ built' = Nothing
    BY <1>1, <2>1 DEF Nothing, BuiltType
  <2>3. active' = <<>> /\ routes' = {} /\ listener' = [d \in Devices |-> None]
    BY <2>2 DEF active, routes, listener, Nothing
  <2> QED
    BY <2>2, <2>3 DEF BuiltType
<1>3. TypeInv'
  BY <1>1, <1>2 DEF TypeInv, Exit
<1> QED
  BY <1>1, <1>2, <1>3 DEF IInv, PlanInv, RouteInv, ListenInv, SettingUp, IsSetUp, Running

-----------------------------------------------------------------------------
(* Setting up *)

LEMMA ConfigureStep == ASSUME IInv, Configure PROVE IInv'
<1>1. /\ at' = "setup" /\ at = "configure"
      /\ UNCHANGED <<cli, status, failed, built, listed, present>>
  BY DEF Configure, Goto
<1>2. PICK lb \in IF cli.deliverLocal THEN {<<d>> : d \in GetLoopback} ELSE {<<>>} :
        todo' = cli.interface \o lb
  BY DEF Configure
<1>3. cli.interface \in Seq(Devices) /\ GetLoopback \subseteq Loopbacks /\ Loopbacks \subseteq Devices
  BY CliType, StartupAssumption DEF IInv, GetLoopback
<1>4. /\ lb \in Seq(Devices)
      /\ cli.deliverLocal => \E d \in GetLoopback : Range(lb) = {d}
  <2>1. CASE cli.deliverLocal
    <3>1. PICK d \in GetLoopback : lb = <<d>>
      BY <1>2, <2>1
    <3>2. Range(lb) = {d} /\ lb \in Seq(Devices)
      BY <3>1, <1>3 DEF Range
    <3> QED
      BY <3>1, <3>2
  <2>2. CASE ~cli.deliverLocal
    BY <1>2, <2>2
  <2> QED
    BY <2>1, <2>2
<1>5. todo' \in Seq(Devices) /\ Range(todo') = Range(cli.interface) \cup Range(lb)
  BY <1>2, <1>3, <1>4, RangeOfConcat
<1>6. Complete(Range(todo'))
  <2>1. OneLoopback => cli.fixed \subseteq Range(todo')
    <3> SUFFICES ASSUME OneLoopback, NEW f \in cli.fixed PROVE f \in Range(todo')
      OBVIOUS
    <3>1. f \in Range(cli.interface) \/ (cli.deliverLocal /\ f \in GetLoopback)
      BY DEF Configure, FixedIsActive
    <3> QED
      BY <3>1, <1>3, <1>4, <1>5 DEF OneLoopback
  <2> QED
    BY <2>1, <1>3, <1>4, <1>5 DEF Complete
<1>7. Complete(Range(active) \cup Range(todo'))
  BY <1>6 DEF Complete
<1>8. PlanInv'
  BY <1>1, <1>7 DEF PlanInv, Complete, active, SettingUp, IsSetUp
<1> QED
  BY <1>1, <1>5, <1>8
  DEF IInv, TypeInv, RouteInv, ListenInv, IsSetUp, Running, Pairs,
      active, routes, listener

LEMMA SetUpStep == ASSUME IInv, SetUp PROVE IInv'
<1> DEFINE d == Head(todo)
<1>1. /\ at = "addresses" /\ at' = "setup" /\ todo' = Tail(todo)
      /\ UNCHANGED <<cli, status, failed, listed, present>>
      /\ built' = [built EXCEPT !.active = Append(@, d)]
  BY DEF SetUp, Goto
<1>2. todo \in Seq(Devices) /\ todo # <<>> /\ built \in BuiltType
  BY <1>1 DEF IInv, TypeInv, PlanInv
<1>3. d \in Devices /\ todo' \in Seq(Devices) /\ Range(todo) = Range(todo') \cup {d}
  BY <1>1, <1>2, RangeOfTail
<1> HIDE DEF d
<1>4. active' = Append(active, d) /\ routes' = routes /\ listener' = listener
  BY <1>1, <1>2 DEF BuiltType, active, routes, listener
<1>5. active \in Seq(Devices)
  BY <1>2 DEF BuiltType, active
<1>6. built' \in BuiltType
  <2>1. built' = [built EXCEPT !.active = Append(active, d)]
    BY <1>1, <1>2 DEF BuiltType, active
  <2>2. Append(active, d) \in Seq(Devices)
    BY <1>3, <1>5
  <2> QED
    BY <1>2, <2>1, <2>2 DEF BuiltType
<1>7. PlanInv'
  <2>1. Range(active') \cup Range(todo') = Range(active) \cup Range(todo)
    BY <1>3, <1>4, <1>5, RangeOfAppend
  <2>2. Complete(Range(active) \cup Range(todo))
    BY <1>1 DEF IInv, PlanInv, SettingUp
  <2> QED
    BY <1>1, <2>1, <2>2 DEF PlanInv, Complete, SettingUp, IsSetUp
<1>8. RouteInv' /\ ListenInv'
  BY <1>1, <1>4 DEF IInv, RouteInv, ListenInv, IsSetUp, Running
<1> QED
  BY <1>1, <1>3, <1>6, <1>7, <1>8 DEF IInv, TypeInv

\* A step that changes neither what is built nor what is planned.
LEMMA MoveStep ==
  ASSUME IInv, UNCHANGED <<cli, status, failed, todo, built>>,
         at \in {"setup", "begin", "exited"},
         \/ at = "setup" /\ at' = "addresses" /\ todo # <<>>
         \/ at = "setup" /\ at' = "connect" /\ todo = <<>>
         \/ at = "begin" /\ at' = "configure",
         listed' \subseteq Devices, present' \subseteq Devices
  PROVE  IInv'
<1>1. TypeInv'
  BY DEF IInv, TypeInv
<1>2. PlanInv'
  BY RangeOfEmpty DEF IInv, PlanInv, SettingUp, IsSetUp, Complete, active
<1> QED
  BY <1>1, <1>2
  DEF IInv, RouteInv, ListenInv, IsSetUp, Running, Pairs,
      active, routes, listener

LEMMA ConnectStep == ASSUME IInv, Connect PROVE IInv'
<1>1. PICK p \in Pairs \ routes : built' = [built EXCEPT !.routes = @ \cup {p}]
  BY DEF Connect
<1>2. at = "connect" /\ UNCHANGED <<cli, at, status, failed, todo, listed, present>>
  BY DEF Connect
<1>3. built \in BuiltType
  BY DEF IInv, TypeInv
<1>4. /\ active' = active /\ listener' = listener
      /\ routes' = routes \cup {p}
  BY <1>1, <1>3 DEF BuiltType, active, routes, listener
<1>5. p \in Nat \X Nat
  BY <1>3 DEF BuiltType, Pairs, active
<1>6. built' \in BuiltType
  BY <1>1, <1>3, <1>5 DEF BuiltType
<1>7. TypeInv'
  BY <1>2, <1>6 DEF IInv, TypeInv
<1>8. RouteInv'
  BY <1>2, <1>4 DEF IInv, RouteInv, IsSetUp, Running, Pairs
<1> QED
  BY <1>2, <1>4, <1>7, <1>8
  DEF IInv, PlanInv, SettingUp, IsSetUp, Complete, ListenInv, Running

-----------------------------------------------------------------------------
(* The pipelines run *)

LEMMA RunStep == ASSUME IInv, Run PROVE IInv'
<1>1. /\ at = "connect" /\ routes = Pairs
      /\ UNCHANGED <<cli, status, failed, present, built, listed>>
      /\ \/ cli.noListen /\ at' = "wait" /\ todo' = todo
         \/ ~cli.noListen /\ at' = "listen" /\ todo' = cli.interface
  BY DEF Run, Goto
<1>2. TypeInv'
  BY <1>1, CliType DEF IInv, TypeInv
<1>3. PlanInv'
  BY <1>1 DEF IInv, PlanInv, SettingUp, IsSetUp, Complete, active
<1>4. RouteInv'
  BY <1>1 DEF IInv, RouteInv, IsSetUp, Running, Pairs, active, routes
<1>5. ListenInv'
  BY <1>1 DEF IInv, ListenInv, Running, listener
<1> QED
  BY <1>2, <1>3, <1>4, <1>5 DEF IInv

LEMMA ListenStep == ASSUME IInv, Listen PROVE IInv'
<1> DEFINE d == Head(todo)
<1>1. PICK result \in {"refused", "open"} :
        built' = [built EXCEPT !.listener[d] = result]
  BY DEF Listen
<1>2. /\ at = "listen" /\ todo # <<>> /\ todo' = Tail(todo)
      /\ UNCHANGED <<cli, at, status, failed, listed, present>>
  BY DEF Listen
<1>3. built \in BuiltType /\ todo \in Seq(Devices)
  BY DEF IInv, TypeInv
<1>4. d \in Devices /\ todo' \in Seq(Devices) /\ Range(todo) = Range(todo') \cup {d}
  BY <1>2, <1>3, RangeOfTail
<1> HIDE DEF d
<1>5. /\ active' = active /\ routes' = routes
      /\ listener' = [listener EXCEPT ![d] = result]
      /\ listener \in [Devices -> {None, "open", "refused", "ended"}]
  BY <1>1, <1>3 DEF BuiltType, active, routes, listener
<1>6. built' \in BuiltType
  BY <1>1, <1>3, <1>4 DEF BuiltType
<1>7. TypeInv'
  BY <1>2, <1>4, <1>6 DEF IInv, TypeInv
<1>8. ListenInv'
  <2>1. /\ ~cli.noListen /\ Range(todo) \subseteq Range(cli.interface)
        /\ \A e \in Range(cli.interface) : listener[e] # None \/ e \in Range(todo)
        /\ \A e \in Devices : listener[e] # None => e \in Range(cli.interface)
    BY <1>2 DEF IInv, ListenInv, Running
  <2>2. result # None
    BY StartupAssumption
  <2>3. \A e \in Devices : listener'[e] = IF e = d THEN result ELSE listener[e]
    BY <1>4, <1>5
  <2>4. Range(cli.interface) \subseteq Devices
    BY CliType DEF IInv, Range
  <2>5. Running' /\ at' = "listen" /\ cli' = cli
    BY <1>2 DEF Running
  <2>6. \A e \in Devices : listener'[e] # None => e \in Range(cli.interface)
    BY <1>4, <2>1, <2>3
  <2>7. \A e \in Range(cli.interface) : listener'[e] # None \/ e \in Range(todo')
    BY <1>4, <2>1, <2>2, <2>3, <2>4
  <2> QED
    BY <1>4, <2>1, <2>5, <2>6, <2>7 DEF ListenInv
<1> QED
  BY <1>2, <1>5, <1>7, <1>8
  DEF IInv, PlanInv, SettingUp, IsSetUp, Complete, RouteInv, Running, Pairs

LEMMA WaitStep == ASSUME IInv, Wait PROVE IInv'
<1>1. /\ at = "listen" /\ at' = "wait" /\ todo = <<>>
      /\ UNCHANGED <<cli, status, failed, present, todo, built, listed>>
  BY DEF Wait, Goto
<1> QED
  BY <1>1, RangeOfEmpty
  DEF IInv, TypeInv, PlanInv, SettingUp, IsSetUp, Complete, RouteInv, ListenInv,
      Running, Pairs, active, routes, listener

LEMMA ListenerEndsStep ==
  ASSUME IInv, NEW d \in Devices, ListenerEnds(d) PROVE IInv'
<1>1. /\ listener[d] = "open" /\ built' = [built EXCEPT !.listener[d] = "ended"]
      /\ UNCHANGED <<cli, at, status, failed, todo, listed, present>>
  BY DEF ListenerEnds
<1>2. built \in BuiltType
  BY DEF IInv, TypeInv
<1>3. /\ active' = active /\ routes' = routes
      /\ listener' = [listener EXCEPT ![d] = "ended"]
      /\ listener \in [Devices -> {None, "open", "refused", "ended"}]
      /\ built' \in BuiltType
  BY <1>1, <1>2 DEF BuiltType, active, routes, listener
<1>4. TypeInv'
  BY <1>1, <1>3 DEF IInv, TypeInv
<1>5. \A e \in Devices : listener'[e] # None <=> listener[e] # None
  BY <1>1, <1>3, StartupAssumption
<1>6. Range(cli.interface) \subseteq Devices
  BY CliType DEF IInv, Range
<1>7. ListenInv'
  BY <1>1, <1>5, <1>6 DEF IInv, ListenInv, Running
<1> QED
  BY <1>1, <1>3, <1>4, <1>7
  DEF IInv, PlanInv, SettingUp, IsSetUp, Complete, RouteInv, Running, Pairs

-----------------------------------------------------------------------------
(* What goes on outside main *)

\* Neither main nor what it has built takes part.
LEMMA OutsideStep ==
  ASSUME IInv, UNCHANGED <<cli, at, status, failed, todo, built>>,
         listed' \subseteq Devices, present' \subseteq Devices
  PROVE  IInv'
BY DEF IInv, TypeInv, PlanInv, SettingUp, IsSetUp, Complete, RouteInv, ListenInv,
       Running, Pairs, active, routes, listener

LEMMA RestartStep == ASSUME IInv, Restart PROVE IInv'
<1>1. /\ at = "exited" /\ at' = "begin" /\ status' = 0 /\ failed' = FALSE
      /\ UNCHANGED <<cli, todo, built, listed, present>>
  BY DEF Restart
<1> QED
  BY <1>1
  DEF IInv, TypeInv, PlanInv, SettingUp, IsSetUp, RouteInv, ListenInv,
      Running, Pairs, active, routes, listener

LEMMA IInvStep == IInv /\ [Next]_vars => IInv'
<1> SUFFICES ASSUME IInv, [Next]_vars PROVE IInv'
  OBVIOUS
<1>1. TypeInv /\ listed \subseteq Devices /\ present \subseteq Devices
  BY DEF IInv, TypeInv
<1>2. CASE Refuse \/ RefuseDuplicates \/ RefuseFixed \/ NoLoopback \/ SetUpFails \/ DrawGraph
  <2>1. PICK code \in {0, 1}, error \in BOOLEAN : Exit(code, error)
    BY <1>2 DEF Refuse, RefuseDuplicates, RefuseFixed, NoLoopback, SetUpFails, DrawGraph
  <2> QED
    BY <1>1, <2>1, ExitStep
<1>3. CASE Discover
  <2>1. CASE cli.mode = "list"
    BY <1>1, <1>3, <2>1, ExitStep DEF Discover
  <2>2. CASE cli.mode # "list"
    BY <1>1, <1>3, <2>2, MoveStep DEF Discover, Goto
  <2> QED
    BY <2>1, <2>2
<1>4. CASE OpenSource
  BY <1>1, <1>4, MoveStep DEF OpenSource, Goto
<1>5. CASE StartConnecting
  BY <1>1, <1>5, MoveStep DEF StartConnecting, Goto
<1>6. ASSUME NEW d \in Devices, InterfaceChanges(d) PROVE IInv'
  BY <1>1, <1>6, OutsideStep DEF InterfaceChanges
<1>7. CASE MonitorRefresh
  BY <1>1, <1>7, OutsideStep DEF MonitorRefresh
<1>8. CASE UNCHANGED vars
  BY <1>1, <1>8, OutsideStep DEF vars
<1> QED
  BY <1>2, <1>3, <1>4, <1>5, <1>6, <1>7, <1>8, ConfigureStep, SetUpStep, ConnectStep,
     RunStep, ListenStep, WaitStep, ListenerEndsStep, RestartStep
  DEF Next

LEMMA Invariant == Spec => []IInv
  BY InitIInv, IInvStep, PTL DEF Spec

-----------------------------------------------------------------------------
\* Routes are between pipelines that are set up.
THEOREM TypeCorrect == Spec => []TypeOK
<1>1. IInv => TypeOK
  <2> SUFFICES ASSUME IInv PROVE TypeOK
    OBVIOUS
  <2>1. built \in BuiltType /\ routes \subseteq Pairs
    BY DEF IInv, TypeInv, RouteInv
  <2> QED
    BY <2>1 DEF IInv, TypeInv, TypeOK, BuiltType, Pairs, active, routes,
           listener
<1> QED
  BY <1>1, Invariant, PTL

LEMMA TimesType ==
  ASSUME NEW seq \in Seq(Devices), NEW d
  PROVE  /\ IsFiniteSet({k \in DOMAIN seq : seq[k] = d})
         /\ Times(seq, d) \in Nat
         /\ d \in Range(seq) => Times(seq, d) > 0
<1> DEFINE S == {k \in DOMAIN seq : seq[k] = d}
<1>1. IsFiniteSet(1..Len(seq))
  BY FS_Interval
<1>2. S \in SUBSET (1..Len(seq))
  OBVIOUS
<1>3. IsFiniteSet(S)
  BY <1>1, <1>2, FS_Subset
<1>4. Cardinality(S) \in Nat /\ (Cardinality(S) = 0 <=> S = {})
  BY <1>3, FS_CardinalityType, FS_EmptySet
<1>5. d \in Range(seq) => S # {}
  BY DEF Range
<1> QED
  BY <1>3, <1>4, <1>5 DEF Times

\* Once the proxy runs, every interface asked for has a pipeline, and every
\* two interfaces all their routes, whatever came, went or failed meanwhile.
THEOREM RunsCompletely == Spec => []RunningIsComplete
<1>1. IInv => RunningIsComplete
  <2> SUFFICES ASSUME IInv, Running PROVE RunningIsComplete
    BY DEF RunningIsComplete
  <2>1. active \in Seq(Devices) /\ cli.interface \in Seq(Devices)
    BY CliType DEF IInv, TypeInv, BuiltType, active
  <2>2. Complete(Range(active)) /\ routes = Pairs
    BY DEF IInv, PlanInv, RouteInv, Running, IsSetUp
  <2>3. ASSUME NEW k \in DOMAIN cli.interface PROVE Times(active, cli.interface[k]) > 0
    <3>1. cli.interface[k] \in Range(active)
      BY <2>2 DEF Complete, Range
    <3> QED
      BY <2>1, <3>1, TimesType
  <2>4. ASSUME NEW s \in Range(active), NEW d \in Range(active), s # d
        PROVE  Cardinality({p \in routes : active[p[1]] = s /\ active[p[2]] = d})
                 = Times(active, s) * Times(active, d)
    <3> DEFINE From == {k \in DOMAIN active : active[k] = s}
               To == {k \in DOMAIN active : active[k] = d}
    <3>1. {p \in routes : active[p[1]] = s /\ active[p[2]] = d} = From \X To
      BY <2>2, <2>4 DEF Pairs
    <3>2. IsFiniteSet(From) /\ IsFiniteSet(To)
      BY <2>1, TimesType
    <3>3. Cardinality(From \X To) = Cardinality(From) * Cardinality(To)
      BY <3>2, FS_Product
    <3> QED
      BY <3>1, <3>3 DEF Times
  <2> QED
    BY <2>2, <2>3, <2>4 DEF RunningIsComplete, Complete
<1> QED
  BY <1>1, Invariant, PTL

\* Every interface of the command line gets its try at a listener, whatever
\* became of the others, and no other interface is listened on.
THEOREM ListenersTried == Spec => []EveryListenerIsTried
<1>1. IInv => EveryListenerIsTried
  <2> SUFFICES ASSUME IInv, at = "wait", NEW d \in Devices
               PROVE  listener[d] # None <=> ~cli.noListen /\ d \in Range(cli.interface)
    BY DEF EveryListenerIsTried
  <2> QED
    BY DEF IInv, ListenInv, Running
<1> QED
  BY <1>1, Invariant, PTL

\* On a host with one loopback interface a fixed IP that passed the checks
\* is on an interface the proxy runs on.
THEOREM FixedActive == ASSUME OneLoopback PROVE Spec => []FixedIPsAreActive
<1>1. IInv => FixedIPsAreActive
  BY OneLoopback DEF IInv, PlanInv, Complete, FixedIPsAreActive, Running, IsSetUp
<1> QED
  BY <1>1, Invariant, PTL
=============================================================================
