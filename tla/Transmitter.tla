-------------------------- MODULE Transmitter --------------------------
(***************************************************************************)
(* stages.TransmitterSink: one open pcap writer handle, the goroutines     *)
(* that call Write and Close on the sink, and the goroutine reconnectLoop  *)
(* that Write starts when a write fails.                                   *)
(*                                                                         *)
(* Write holds the mutex for the whole pcap call, so it is the one         *)
(* critical section split in two steps; every other critical section of    *)
(* the sink is a single step taken while the mutex is free.  ctx is        *)
(* cancelled outside the mutex, between any two steps of the others.       *)
(***************************************************************************)
EXTENDS Backoff, FiniteSets

CONSTANTS
    Callers,    \* goroutines that use the sink
    Loops,      \* identities of reconnectLoop goroutines
    Handles,    \* pcap handles the system can give out
    None        \* nil

ASSUME NoneAssumption == None \notin Callers /\ None \notin Handles

VARIABLES
    writer,         \* s.Writer
    reconnecting,   \* s.reconnecting
    cancelled,      \* s.ctx.Err() != nil
    mu,             \* the caller that holds s.mu across a pcap write, or None
    call,           \* where each caller is in Write or Close
    staleWriter,    \* the staleWriter local of each caller's Close
    loop,           \* each reconnectLoop: program point, delay, handle
    open,           \* external: the handles libpcap has open
    up              \* external: the interface exists and can be opened

sinkVars   == <<writer, reconnecting, cancelled>>
callerVars == <<mu, call, staleWriter>>
vars == <<sinkVars, callerVars, loop, open, up>>

CallPoints == {"idle", "writing", "closing", "closeHandle"}
LoopPoints == {"none", "select", "create", "install"}

NoLoop == [at |-> "none", delay |-> InitialDelay, handle |-> None]
LiveLoops == {l \in Loops : loop[l].at # "none"}

\* Every handle somebody still has a reference to.
Referenced ==
    ({writer} \cup {staleWriter[c] : c \in Callers}
              \cup {loop[l].handle : l \in Loops}) \ {None}

\* A handle that libpcap can return: one not in use.
FreshHandles == Handles \ (open \cup Referenced)

TypeOK ==
    /\ writer \in Handles \cup {None}
    /\ reconnecting \in BOOLEAN
    /\ cancelled \in BOOLEAN
    /\ mu \in Callers \cup {None}
    /\ call \in [Callers -> CallPoints]
    /\ staleWriter \in [Callers -> Handles \cup {None}]
    /\ loop \in [Loops -> [at : LoopPoints, delay : Delays,
                           handle : Handles \cup {None}]]
    /\ open \subseteq Handles
    /\ up \in BOOLEAN

\* NewTransmitterSink: it opens the writer handle, or there is no sink.
Init ==
    /\ writer \in Handles
    /\ reconnecting = FALSE
    /\ cancelled = FALSE
    /\ mu = None
    /\ call = [c \in Callers |-> "idle"]
    /\ staleWriter = [c \in Callers |-> None]
    /\ loop = [l \in Loops |-> NoLoop]
    /\ open = {writer}
    /\ up = TRUE

-----------------------------------------------------------------------------
(* Write *)

\* The sink has no writer: the packet is dropped.
WriteDrop(c) ==
    /\ call[c] = "idle" /\ mu = None
    /\ writer = None
    /\ UNCHANGED vars

\* The lock is taken and WritePacketData is called under it.
WriteBegin(c) ==
    /\ call[c] = "idle" /\ mu = None
    /\ writer # None
    /\ mu' = c
    /\ call' = [call EXCEPT ![c] = "writing"]
    /\ UNCHANGED <<sinkVars, staleWriter, loop, open, up>>

\* WritePacketData succeeded.
WriteOK(c) ==
    /\ call[c] = "writing"
    /\ up
    /\ mu' = None
    /\ call' = [call EXCEPT ![c] = "idle"]
    /\ UNCHANGED <<sinkVars, staleWriter, loop, open, up>>

\* Faulty variant: the failed handle is dropped without being closed.
WriteFailKeepsHandle(c) ==
    /\ call[c] = "writing"
    /\ mu' = None
    /\ call' = [call EXCEPT ![c] = "idle"]
    /\ \E l \in Loops \ LiveLoops :
         /\ reconnecting' = TRUE
         /\ writer' = None
         /\ loop' = [loop EXCEPT ![l] = [NoLoop EXCEPT !.at = "select"]]
    /\ UNCHANGED <<cancelled, staleWriter, open, up>>

\* WritePacketData returned an error, whatever the error is.
WriteFail(c) ==
    /\ call[c] = "writing"
    /\ mu' = None
    /\ call' = [call EXCEPT ![c] = "idle"]
    /\ IF reconnecting
       THEN UNCHANGED <<writer, reconnecting, open, loop>>
       ELSE \E l \in Loops \ LiveLoops :
              /\ reconnecting' = TRUE
              /\ writer' = None
              /\ open' = open \ {writer}
              /\ loop' = [loop EXCEPT ![l] = [NoLoop EXCEPT !.at = "select"]]
    /\ UNCHANGED <<cancelled, staleWriter, up>>

-----------------------------------------------------------------------------
(* Close *)

\* s.cancel(), outside the mutex.
CloseCancel(c) ==
    /\ call[c] = "idle"
    /\ cancelled' = TRUE
    /\ call' = [call EXCEPT ![c] = "closing"]
    /\ UNCHANGED <<writer, reconnecting, mu, staleWriter, loop, open, up>>

\* Faulty variant: Close does not wait for the mutex.
CloseSwapUnlocked(c) ==
    /\ call[c] = "closing"
    /\ staleWriter' = [staleWriter EXCEPT ![c] = writer]
    /\ writer' = None
    /\ reconnecting' = FALSE
    /\ call' = [call EXCEPT ![c] = "closeHandle"]
    /\ UNCHANGED <<cancelled, mu, loop, open, up>>

\* The critical section of Close.
CloseSwap(c) ==
    /\ call[c] = "closing" /\ mu = None
    /\ staleWriter' = [staleWriter EXCEPT ![c] = writer]
    /\ writer' = None
    /\ reconnecting' = FALSE
    /\ call' = [call EXCEPT ![c] = "closeHandle"]
    /\ UNCHANGED <<cancelled, mu, loop, open, up>>

\* closePacketWriter(staleWriter), after the mutex is released.
CloseHandle(c) ==
    /\ call[c] = "closeHandle"
    /\ open' = open \ {staleWriter[c]}
    /\ staleWriter' = [staleWriter EXCEPT ![c] = None]
    /\ call' = [call EXCEPT ![c] = "idle"]
    /\ UNCHANGED <<sinkVars, mu, loop, up>>

-----------------------------------------------------------------------------
(* reconnectLoop *)

\* Faulty variant: the loop does not look at ctx.
LoopDoneNever(l) == FALSE /\ loop[l].at = "select" /\ UNCHANGED vars

\* case <-s.ctx.Done()
LoopDone(l) ==
    /\ loop[l].at = "select"
    /\ cancelled
    /\ loop' = [loop EXCEPT ![l] = NoLoop]
    /\ UNCHANGED <<sinkVars, callerVars, open, up>>

\* case <-time.After(delay); when both cases are ready select picks either.
LoopTimer(l) ==
    /\ loop[l].at = "select"
    /\ loop' = [loop EXCEPT ![l].at = "create"]
    /\ UNCHANGED <<sinkVars, callerVars, open, up>>

\* createWriter succeeded.
LoopCreate(l) ==
    /\ loop[l].at = "create"
    /\ up
    /\ \E h \in FreshHandles :
         /\ open' = open \cup {h}
         /\ loop' = [loop EXCEPT ![l].at = "install", ![l].handle = h]
    /\ UNCHANGED <<sinkVars, callerVars, up>>

\* Faulty variant: the loop gives up after a failed attempt.
LoopGivesUp(l) ==
    /\ loop[l].at = "create"
    /\ loop' = [loop EXCEPT ![l] = NoLoop]
    /\ UNCHANGED <<sinkVars, callerVars, open, up>>

\* createWriter failed, with or without the interface: back off, try again.
LoopCreateFails(l) ==
    /\ loop[l].at = "create"
    /\ loop' = [loop EXCEPT ![l].at = "select",
                            ![l].delay = NextDelay(loop[l].delay)]
    /\ UNCHANGED <<sinkVars, callerVars, open, up>>

\* Faulty variant: ctx is not checked again under the mutex.
LoopInstallUnchecked(l) ==
    /\ loop[l].at = "install" /\ mu = None
    /\ writer' = loop[l].handle
    /\ reconnecting' = FALSE
    /\ loop' = [loop EXCEPT ![l] = NoLoop]
    /\ UNCHANGED <<cancelled, callerVars, open, up>>

\* The critical section that makes the new handle the sink's writer.
LoopInstall(l) ==
    /\ loop[l].at = "install" /\ mu = None
    /\ ~cancelled
    /\ writer' = loop[l].handle
    /\ reconnecting' = FALSE
    /\ loop' = [loop EXCEPT ![l] = NoLoop]
    /\ UNCHANGED <<cancelled, callerVars, open, up>>

\* The same critical section once ctx is cancelled: it returns, and the
\* handle it has just opened stays open.
LoopAbandon(l) ==
    /\ loop[l].at = "install" /\ mu = None
    /\ cancelled
    /\ loop' = [loop EXCEPT ![l] = NoLoop]
    /\ UNCHANGED <<sinkVars, callerVars, open, up>>

-----------------------------------------------------------------------------
(* The interface goes away and comes back. *)

InterfaceDown == up /\ up' = FALSE /\ UNCHANGED <<sinkVars, callerVars, loop, open>>
InterfaceUp == ~up /\ up' = TRUE /\ UNCHANGED <<sinkVars, callerVars, loop, open>>

WriteEnd(c) == WriteOK(c) \/ WriteFail(c)
LoopFinish(l) == LoopInstall(l) \/ LoopAbandon(l)
LoopOpen(l) == LoopCreate(l) \/ LoopCreateFails(l)

Next ==
    \/ \E c \in Callers :
         \/ WriteDrop(c) \/ WriteBegin(c) \/ WriteOK(c) \/ WriteFail(c)
         \/ CloseCancel(c) \/ CloseSwap(c) \/ CloseHandle(c)
    \/ \E l \in Loops :
         \/ LoopDone(l) \/ LoopTimer(l) \/ LoopCreate(l) \/ LoopCreateFails(l)
         \/ LoopInstall(l) \/ LoopAbandon(l)
    \/ InterfaceDown \/ InterfaceUp

Spec == Init /\ [][Next]_vars

(***************************************************************************)
(* Fairness.  A pcap call and a timer end (WF).  sync.Mutex hands the lock *)
(* to a waiter that has starved for 1 ms, so a goroutine that wants it     *)
(* infinitely often gets it (SF).  select chooses at random among the      *)
(* ready cases, so a case that is ready infinitely often is taken (SF).    *)
(* An open that is tried again and again while the interface is there      *)
(* succeeds in the end (SF).                                               *)
(* Nobody is obliged to call Write or Close, and the interface need not    *)
(* come back.                                                              *)
(***************************************************************************)
Fairness ==
    /\ \A c \in Callers : /\ WF_vars(WriteEnd(c))
                          /\ SF_vars(CloseSwap(c))
                          /\ WF_vars(CloseHandle(c))
    /\ \A l \in Loops : /\ SF_vars(LoopDone(l))
                        /\ WF_vars(LoopTimer(l))
                        /\ WF_vars(LoopOpen(l))
                        /\ SF_vars(LoopCreate(l))
                        /\ SF_vars(LoopFinish(l))

FairSpec == Spec /\ Fairness

-----------------------------------------------------------------------------
(* Properties *)

\* A packet is only ever handed to a handle that is still open: neither
\* Close nor a reconnect closes a handle under a write in progress.
WriteOnOpenHandle ==
    \A c \in Callers : call[c] = "writing" => writer \in open

\* Until Close, a sink without a writer has exactly one reconnectLoop
\* working on it, and a sink with a writer has none: an outage can neither
\* be forgotten nor be repaired twice.
OutageHasOneLoop ==
    ~cancelled => Cardinality(LiveLoops) = IF writer = None THEN 1 ELSE 0

\* A write that fails while a Close is waiting does not close a handle twice:
\* what the sink, a Close or a loop refers to is open.  Until Close there are
\* no other open handles, so no outage leaves one behind.
HandlesAreOwned ==
    /\ Referenced \subseteq open
    /\ ~cancelled => open = Referenced

\* Once Close has cancelled ctx, no late reconnect brings the sink back to life.
NoInstallAfterCancel ==
    [][cancelled => writer' \in {writer, None}]_vars

\* If the interface stays up from some point on, an outage of the sink
\* ends: a new writer is installed, or somebody has closed the sink.
WriterRecovers ==
    <>[]up => ((writer = None) ~> (writer # None \/ cancelled))

\* After Close no reconnectLoop goroutine is left behind.
LoopsExit == cancelled ~> (LiveLoops = {})

(***************************************************************************)
(* The sink implements the link its users rely on: whatever writes, closes *)
(* and reconnects overlap, packets go out one at a time, an outage only    *)
(* follows a failed write or a Close, and a closed sink stays down.        *)
(***************************************************************************)
L == INSTANCE Link WITH linked <- writer # None, closing <- cancelled, sender <- mu

LinkSpec == L!Spec

-----------------------------------------------------------------------------
(***************************************************************************)
(* What the code promises but does not do.  CreateIsolatedWriterHandle     *)
(* says that each caller owns and closes its handle; once the sink is      *)
(* closed and idle, no handle should be open.                              *)
(***************************************************************************)
ClosedSinkHoldsNoHandle ==
    (/\ cancelled /\ writer = None
     /\ LiveLoops = {} /\ \A c \in Callers : call[c] = "idle") => open = {}
=============================================================================
