---------------------------- MODULE Startup ----------------------------
(***************************************************************************)
(* main: from the command line to the running proxy.  The interfaces are   *)
(* listed once, then set up one after the other, then connected in pairs,  *)
(* while they may come and go; the monitors of the sources that are        *)
(* already there refresh the list.  Setting up stops at the first error,   *)
(* with a return from main or with os.Exit(1).  Once the pipelines run,    *)
(* the UDP listeners are started one after the other.                      *)
(*                                                                         *)
(* The service manager starts the program, and starts it again as the      *)
(* systemd unit of the repository says.                                    *)
(***************************************************************************)
EXTENDS Integers, SequencesExt

CONSTANTS
    Devices,        \* the interfaces the host may have
    Loopbacks,      \* those with a loopback address
    CommandLines,   \* the command lines considered
    None            \* no listener

ASSUME StartupAssumption ==
    /\ Loopbacks \subseteq Devices /\ None \notin {"open", "refused", "ended"}
    /\ CommandLines \subseteq
         [interface : Seq(Devices), fixed : SUBSET Devices, deliverLocal : BOOLEAN,
          noListen : BOOLEAN, mode : {"run", "graph", "list"}]

VARIABLES
    cli,        \* the command line
    at,         \* where main is
    status,     \* exit status of the program
    failed,     \* history: the program ended because of an error
    todo,       \* interfaces left to set up, or to listen on
    built,      \* what has been set up:
                \*   active    the interfaces, in order (states, pipelines)
                \*   routes    positions in active that a RouteSink connects
                \*   listener  each interface's UDP listeners, or None
    listed,     \* dm.interfaces
    present     \* external: the interfaces that exist

vars == <<cli, at, status, failed, todo, built, listed, present>>

active == built.active
routes == built.routes
listener == built.listener

TypeOK ==
    /\ cli \in CommandLines
    /\ at \in {"begin", "configure", "setup", "addresses", "connect", "listen",
               "wait", "exited"}
    /\ status \in {0, 1} /\ failed \in BOOLEAN
    /\ todo \in Seq(Devices) /\ active \in Seq(Devices)
    /\ routes \subseteq (DOMAIN active) \X (DOMAIN active)
    /\ listener \in [Devices -> {None, "open", "refused", "ended"}]
    /\ listed \subseteq Devices /\ present \subseteq Devices

Nothing == [active |-> <<>>, routes |-> {}, listener |-> [d \in Devices |-> None]]

Init ==
    /\ cli \in CommandLines
    /\ at = "begin" /\ status = 0 /\ failed = FALSE
    /\ todo = <<>> /\ built = Nothing
    /\ listed = {} /\ present \in SUBSET Devices

\* The pipelines have been started.
Running == at \in {"listen", "wait"}

Goto(point) == at' = point /\ UNCHANGED <<cli, status, failed, present>>

\* The process ends; everything it holds is gone.
Exit(code, error) ==
    /\ at' = "exited" /\ status' = code /\ failed' = error
    /\ todo' = <<>> /\ built' = Nothing /\ listed' = {}
    /\ UNCHANGED <<cli, present>>

-----------------------------------------------------------------------------
(* Before any interface is opened *)

\* parseArgs wants two interfaces, except for --list-interfaces.
ArgumentsAreValid == cli.mode = "list" \/ Len(cli.interface) >= 2

\* Bad arguments, of this or another kind, or the interfaces cannot be
\* listed: os.Exit(1).
Refuse ==
    /\ at = "begin"
    /\ Exit(1, TRUE)

\* NewDeviceManager lists the interfaces that have an address;
\* --list-interfaces needs no more.
Discover ==
    /\ at = "begin" /\ ArgumentsAreValid
    /\ IF cli.mode = "list"
       THEN Exit(0, FALSE)
       ELSE /\ Goto("configure")
            /\ listed' \in SUBSET present
            /\ UNCHANGED <<todo, built>>

\* GetLoopback: some interface with a loopback address, each time anew.
GetLoopback == listed \cap Loopbacks

HasDuplicates(seq) == Cardinality(Range(seq)) # Len(seq)

\* checkDuplicateInterfaces: os.Exit(1).
RefuseDuplicates ==
    /\ at = "configure"
    /\ HasDuplicates(cli.interface)
    /\ Exit(1, TRUE)

\* --deliver-local without a loopback interface: main returns.
NoLoopback ==
    /\ at = "configure"
    /\ ~HasDuplicates(cli.interface)
    /\ cli.deliverLocal /\ GetLoopback = {}
    /\ Exit(0, TRUE)

\* Faulty variant: the loopback interface is always taken for active.
FixedMayBeLoopback(f) ==
    \/ f \in Range(cli.interface)
    \/ f \in GetLoopback

\* getFixedIPs: can the interface f pass for active?
FixedIsActive(f) ==
    \/ f \in Range(cli.interface)
    \/ cli.deliverLocal /\ f \in GetLoopback

\* The loopback interface is appended to those of the command line, and the
\* fixed IPs are on interfaces among them ...
Configure ==
    /\ at = "configure"
    /\ ~HasDuplicates(cli.interface)
    /\ \A f \in cli.fixed : FixedIsActive(f)
    /\ \E lb \in IF cli.deliverLocal THEN {<<d>> : d \in GetLoopback} ELSE {<<>>} :
         todo' = cli.interface \o lb
    /\ Goto("setup")
    /\ UNCHANGED <<built, listed>>

\* ... or one of them is not: os.Exit(1).
RefuseFixed ==
    /\ at = "configure"
    /\ ~HasDuplicates(cli.interface)
    /\ cli.deliverLocal => GetLoopback # {}
    /\ \E f \in cli.fixed \ Range(cli.interface) :
         cli.deliverLocal => GetLoopback # {f}
    /\ Exit(1, TRUE)

-----------------------------------------------------------------------------
(* setupInterfacePipeline *)

\* The first of its steps that needs the interface itself: NewPcapSource.
OpenSource ==
    /\ at = "setup" /\ todo # <<>>
    /\ Head(todo) \in present
    /\ Goto("addresses")
    /\ UNCHANGED <<todo, built, listed>>

\* Faulty variant: an interface is connected as soon as it is set up, also
\* with those that are yet to be.
SetUpConnects ==
    /\ at = "addresses"
    /\ Head(todo) \in listed
    /\ LET n == Len(active) + 1 IN
       built' = [built EXCEPT !.active = Append(@, Head(todo)),
                              !.routes = @ \cup {<<n, k>> : k \in 1..Len(cli.interface) \ {n}}]
    /\ todo' = Tail(todo)
    /\ Goto("setup")
    /\ UNCHANGED listed

\* The rest: the addresses come from the list, however old it is, and give
\* the BPF filter and the broadcast address.
SetUp ==
    /\ at = "addresses"
    /\ Head(todo) \in listed
    /\ built' = [built EXCEPT !.active = Append(@, Head(todo))]
    /\ todo' = Tail(todo)
    /\ Goto("setup")
    /\ UNCHANGED listed

\* Any step fails: main returns, after CloseHandles.  The error may have a
\* reason other than that the interface has gone or is not in the list.
SetUpFails ==
    /\ at \in {"setup", "addresses", "connect"}
    /\ Exit(0, TRUE)

-----------------------------------------------------------------------------
(* attachCrossInterfaceSinks *)

\* Positions that attachCrossInterfaceSinks connects.
Pairs == {p \in (DOMAIN active) \X (DOMAIN active) : active[p[1]] # active[p[2]]}

StartConnecting ==
    /\ at = "setup" /\ todo = <<>>
    /\ Goto("connect")
    /\ UNCHANGED <<todo, built, listed>>

\* setupCrossInterfaceSink: a RouteSink with a writer handle of its own.
Connect ==
    /\ at = "connect"
    /\ \E p \in Pairs \ routes :
         /\ active[p[2]] \in present
         /\ built' = [built EXCEPT !.routes = @ \cup {p}]
    /\ UNCHANGED <<cli, at, status, failed, todo, listed, present>>

\* --graph-pipeline: the graph is written, or it is not.
DrawGraph ==
    /\ at = "connect" /\ routes = Pairs /\ cli.mode = "graph"
    /\ Exit(0, FALSE) \/ Exit(1, TRUE)

\* Faulty variant: the pipelines start before all routes are attached.
RunEarly ==
    /\ at = "connect" /\ cli.mode = "run"
    /\ IF cli.noListen THEN Goto("wait") /\ UNCHANGED todo
                       ELSE Goto("listen") /\ todo' = cli.interface
    /\ UNCHANGED <<built, listed>>

\* Cleanup and the pipelines are started, then the listeners.
Run ==
    /\ at = "connect" /\ routes = Pairs /\ cli.mode = "run"
    /\ IF cli.noListen THEN Goto("wait") /\ UNCHANGED todo
                       ELSE Goto("listen") /\ todo' = cli.interface
    /\ UNCHANGED <<built, listed>>

-----------------------------------------------------------------------------
(* startUDPListeners *)

\* Faulty variant: startUDPListeners returns at the first error.
ListenStops ==
    /\ at = "listen" /\ todo # <<>>
    /\ \E result \in {"refused"} \cup (IF Head(todo) \in present \ Loopbacks
                                       THEN {"open"} ELSE {}) :
         /\ built' = [built EXCEPT !.listener[Head(todo)] = result]
         /\ todo' = IF result = "refused" THEN <<>> ELSE Tail(todo)
    /\ UNCHANGED <<cli, at, status, failed, listed, present>>

\* The listeners of the next interface are opened, or it is passed over
\* because it is not there, its addresses are unsuitable or the port is in use.
Listen ==
    /\ at = "listen" /\ todo # <<>>
    /\ \E result \in {"refused"} \cup (IF Head(todo) \in present \ Loopbacks
                                       THEN {"open"} ELSE {}) :
         built' = [built EXCEPT !.listener[Head(todo)] = result]
    /\ todo' = Tail(todo)
    /\ UNCHANGED <<cli, at, status, failed, listed, present>>

Wait ==
    /\ at = "listen" /\ todo = <<>>
    /\ Goto("wait")
    /\ UNCHANGED <<todo, built, listed>>

\* A listener ends at the first error that is not a timeout.
ListenerEnds(d) ==
    /\ listener[d] = "open"
    /\ built' = [built EXCEPT !.listener[d] = "ended"]
    /\ UNCHANGED <<cli, at, status, failed, todo, listed, present>>

-----------------------------------------------------------------------------
(* The monitors of the sources, the system and the service manager *)

MonitorRefresh ==
    /\ active # <<>> \/ at = "addresses"
    /\ listed' \in SUBSET present
    /\ UNCHANGED <<cli, at, status, failed, todo, built, present>>

\* An interface comes or goes; what that does to the handle of a source that
\* is there, and to the filter of the handle, is in module PcapSource.
InterfaceChanges(d) ==
    /\ present' = IF d \in present THEN present \ {d} ELSE present \cup {d}
    /\ UNCHANGED <<cli, at, status, failed, todo, built, listed>>

\* Restart=on-failure, and a failure is an exit status other than 0.
Restart ==
    /\ at = "exited" /\ status # 0
    /\ at' = "begin" /\ status' = 0 /\ failed' = FALSE
    /\ UNCHANGED <<cli, todo, built, listed, present>>

Next ==
    \/ Refuse \/ Discover \/ RefuseDuplicates \/ NoLoopback \/ Configure
    \/ RefuseFixed
    \/ OpenSource \/ SetUp \/ SetUpFails
    \/ StartConnecting \/ Connect \/ DrawGraph \/ Run
    \/ Listen \/ Wait
    \/ \E d \in Devices : ListenerEnds(d) \/ InterfaceChanges(d)
    \/ MonitorRefresh \/ Restart

Spec == Init /\ [][Next]_vars

\* The service manager does what it is told.
FairSpec == Spec /\ WF_vars(Restart)

-----------------------------------------------------------------------------
(* Properties *)

Times(seq, d) == Cardinality({k \in DOMAIN seq : seq[k] = d})

\* The proxy runs either completely or not at all, whatever came and went
\* while it was set up: every interface asked for has its pipeline, and
\* every two of them as many routes, each way, as they have pipelines.
RunningIsComplete ==
    Running =>
        /\ \A k \in DOMAIN cli.interface : Times(active, cli.interface[k]) > 0
        /\ cli.deliverLocal => Range(active) \cap Loopbacks # {}
        /\ \A s, d \in Range(active) : s # d =>
             Cardinality({p \in routes : active[p[1]] = s /\ active[p[2]] = d})
                 = Times(active, s) * Times(active, d)

\* A listener that cannot be opened does not cost the other interfaces
\* theirs, and one interface is only listened on if the user wants it.
EveryListenerIsTried ==
    at = "wait" => \A d \in Devices :
        listener[d] # None <=> ~cli.noListen /\ d \in Range(cli.interface)

\* Then GetLoopback has no choice.
OneLoopback == \A d, e \in Loopbacks : d = e

\* A fixed IP is on an interface the proxy runs on, so it is not silently
\* ignored.  (Without OneLoopback it can be.)
FixedIPsAreActive == Running => cli.fixed \subseteq Range(active)

-----------------------------------------------------------------------------
\* What the systemd unit expects of the program: when it fails, it ends with
\* a status that makes the service manager start it again.
FailureIsRestarted == at = "exited" /\ failed ~> at # "exited"
=============================================================================
