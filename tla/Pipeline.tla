--------------------------- MODULE Pipeline ---------------------------
(***************************************************************************)
(* proxy.Pipeline: Run reads packets and takes each one through processors *)
(* and sinks, and closes everything when its context is cancelled.  A      *)
(* RouteSink does the same once more, with processors and sinks of its own *)
(* for each copy of the packet it has rewritten.  What the stages do to a  *)
(* packet is left to module Forwarding; here any of them may fail.         *)
(*                                                                         *)
(* The pipelines run concurrently.  Their DecodeProcessors print to one    *)
(* output, under the global mutex decodeOutputMu.                          *)
(***************************************************************************)
EXTENDS Integers, SequencesExt

CONSTANTS
    Pipelines,
    Routes,         \* the sinks of a pipeline that are RouteSinks
    Main,           \* the pipeline itself, beside its routes
    Processors,     \* of the pipeline and of each route: its processors ...
    Sinks,          \* ... and its sinks, in order
    Decoders,       \* the processors that are DecodeProcessors
    Source,         \* the source of a pipeline
    None,           \* nobody
    MaxTargets      \* bound of the model: targets of a packet on a route

Levels == {Main} \cup Routes
AllProcessors == UNION {Range(Processors[l]) : l \in Levels}
AllSinks == UNION {Range(Sinks[l]) : l \in Levels}

\* What a packet, or a copy of it, goes through.
Stages(l) == Processors[l] \o Sinks[l]

\* What closeAll closes.
Closers == {Source} \cup (AllSinks \ Routes)

ASSUME PipelineAssumption ==
    /\ Main \notin Routes /\ None \notin Pipelines /\ MaxTargets \in Nat
    /\ Processors \in [Levels -> Seq(AllProcessors)]
    /\ Sinks \in [Levels -> Seq(AllSinks)]
    /\ AllProcessors \cap AllSinks = {} /\ Source \notin AllSinks
    /\ Decoders \subseteq AllProcessors
    /\ Routes \subseteq Range(Sinks[Main])

\* main gives every pipeline and every route sinks of its own.
ASSUME WiredOnce ==
    \A l, m \in Levels : \A j \in DOMAIN Sinks[l], k \in DOMAIN Sinks[m] :
        Sinks[l][j] = Sinks[m][k] => l = m /\ j = k

VARIABLES
    run,        \* each pipeline: where Run is, the stages left for the packet
                \* it handles, the route it is on, targets left on it, and
                \* stages left for the copy to the current target; later the
                \* sinks left to close, and those of the current route
    output,     \* the pipeline that holds decodeOutputMu, or None
    cancelled,  \* ctx is cancelled
    offered,    \* history: how often the packet was given to each sink
    closed      \* history: how often each source and sink was closed

history == <<offered, closed>>
vars == <<run, output, cancelled, history>>

TypeOK ==
    /\ \A p \in Pipelines :
         /\ run[p].at \in {"running", "source", "sinks", "returned"}
         /\ IsSuffix(run[p].chain, Stages(Main))
         /\ run[p].route \in Routes \cup {None}
         /\ run[p].targets \in 0..MaxTargets
         /\ run[p].inner = <<>> \/ IsSuffix(run[p].inner, Stages(run[p].route))
    /\ output \in Pipelines \cup {None}
    /\ cancelled \in BOOLEAN
    /\ offered \in [Pipelines -> [AllSinks -> 0..MaxTargets + 1]]
    /\ closed \in [Pipelines -> [Closers -> {0, 1}]]

Init ==
    /\ run = [p \in Pipelines |-> [at |-> "running", chain |-> <<>>, route |-> None,
                                   targets |-> 0, inner |-> <<>>]]
    /\ output = None
    /\ cancelled = FALSE
    /\ offered = [p \in Pipelines |-> [s \in AllSinks |-> 0]]
    /\ closed = [p \in Pipelines |-> [s \in Closers |-> 0]]

\* The stages that see the packet, or the current copy of it, next; when
\* the pipeline closes, the sinks it closes next.
Left(p) ==
    IF run[p].inner # <<>> THEN run[p].inner
    ELSE IF run[p].targets > 0 THEN <<>> ELSE run[p].chain

\* The packet, the copy or the closing goes on with the given stages.
GoOn(p, stages) ==
    run' = [run EXCEPT ![p] = IF @.inner # <<>> THEN [@ EXCEPT !.inner = stages]
                                                ELSE [@ EXCEPT !.chain = stages]]

\* Run is about to call Read.
AtRead(p) ==
    run[p].at = "running" /\ run[p].targets = 0 /\ Left(p) = <<>>

AtStage(p, set) ==
    run[p].at = "running" /\ Left(p) # <<>> /\ Head(Left(p)) \in set

-----------------------------------------------------------------------------
(* Pipeline.Run *)

ReadPacket(p) ==
    /\ AtRead(p)
    /\ run' = [run EXCEPT ![p].chain = Stages(Main)]
    /\ offered' = [offered EXCEPT ![p] = [s \in AllSinks |-> 0]]
    /\ UNCHANGED <<output, cancelled, closed>>

\* Read returns no packet, or an error that does not end the pipeline.
ReadNothing(p) ==
    /\ AtRead(p)
    /\ UNCHANGED vars

\* Run returns, and with it runs the deferred closeAll.
StartClosing(p) ==
    /\ AtRead(p)
    /\ run' = [run EXCEPT ![p].at = "source"]
    /\ UNCHANGED <<output, cancelled, history>>

\* Read returns io.EOF.
ReadEOF(p) == StartClosing(p)

\* Read returns the error of the context.
ReadCancelled(p) == cancelled /\ StartClosing(p)

\* A processor keeps the packet, or it returns false or an error.
Process(p) ==
    /\ AtStage(p, AllProcessors \ Decoders)
    /\ GoOn(p, Tail(Left(p))) \/ GoOn(p, <<>>)
    /\ UNCHANGED <<output, cancelled, history>>

\* Faulty variant: an error of a sink ends the handling of the packet.
WriteSinkStops(p) ==
    /\ AtStage(p, AllSinks \ Routes)
    /\ offered' = [offered EXCEPT ![p][Head(Left(p))] = @ + 1]
    /\ GoOn(p, Tail(Left(p))) \/ GoOn(p, <<>>)
    /\ UNCHANGED <<output, cancelled, closed>>

\* Faulty variant: a sink that returns an error is tried again.
WriteSinkRetries(p) ==
    /\ AtStage(p, AllSinks \ Routes)
    /\ offered' = [offered EXCEPT ![p][Head(Left(p))] = @ + 1]
    /\ GoOn(p, Tail(Left(p))) \/ GoOn(p, Left(p))
    /\ UNCHANGED <<output, cancelled, closed>>

\* A sink other than a RouteSink is given the packet, or the copy; its
\* error is logged.
WriteSink(p) ==
    /\ AtStage(p, AllSinks \ Routes)
    /\ offered' = [offered EXCEPT ![p][Head(Left(p))] = @ + 1]
    /\ GoOn(p, Tail(Left(p)))
    /\ UNCHANGED <<output, cancelled, closed>>

-----------------------------------------------------------------------------
(* DecodeProcessor *)

\* writePacket takes the mutex and writes a line.
DecodeBegin(p) ==
    /\ AtStage(p, Decoders)
    /\ output = None
    /\ output' = p
    /\ UNCHANGED <<run, cancelled, history>>

\* Faulty variant: the mutex is not released when the line cannot be written.
DecodeEndKeepsMutex(p) ==
    /\ output = p /\ AtStage(p, Decoders)
    /\ \/ GoOn(p, Tail(Left(p))) /\ output' = None
       \/ GoOn(p, <<>>) /\ UNCHANGED output
    /\ UNCHANGED <<cancelled, history>>

\* The line is written, or the packet is dropped because it cannot be.
DecodeEnd(p) ==
    /\ output = p
    /\ output' = None
    /\ GoOn(p, Tail(Left(p))) \/ GoOn(p, <<>>)
    /\ UNCHANGED <<cancelled, history>>

-----------------------------------------------------------------------------
(* RouteSink.Write *)

\* The targets of the packet are determined; there may be none.
Route(p) ==
    /\ AtStage(p, Routes)
    /\ offered' = [offered EXCEPT ![p][Head(Left(p))] = @ + 1]
    /\ \E n \in 0..MaxTargets :
         run' = [run EXCEPT ![p].route = Head(Left(p)), ![p].targets = n,
                            ![p].chain = Tail(Left(p))]
    /\ UNCHANGED <<output, cancelled, closed>>

\* writeToTarget: the next copy goes through the stages of the route,
\* unless it cannot be rewritten.
WriteToTarget(p) ==
    /\ run[p].inner = <<>> /\ run[p].targets > 0
    /\ \E stages \in {Stages(run[p].route), <<>>} :
         run' = [run EXCEPT ![p].targets = @ - 1, ![p].inner = stages]
    /\ UNCHANGED <<output, cancelled, history>>

-----------------------------------------------------------------------------
(* closeAll, with RouteSink.Close.  An error is logged, or kept.           *)

CloseSource(p) ==
    /\ run[p].at = "source"
    /\ run' = [run EXCEPT ![p].at = "sinks", ![p].chain = Sinks[Main]]
    /\ closed' = [closed EXCEPT ![p][Source] = @ + 1]
    /\ UNCHANGED <<output, cancelled, offered>>

AtSink(p, set) ==
    run[p].at = "sinks" /\ Left(p) # <<>> /\ Head(Left(p)) \in set

\* Faulty variant: closing stops at the first error.
CloseSinkStops(p) ==
    /\ AtSink(p, AllSinks \ Routes)
    /\ GoOn(p, Tail(Left(p))) \/ GoOn(p, <<>>)
    /\ closed' = [closed EXCEPT ![p][Head(Left(p))] = @ + 1]
    /\ UNCHANGED <<output, cancelled, offered>>

CloseSink(p) ==
    /\ AtSink(p, AllSinks \ Routes)
    /\ GoOn(p, Tail(Left(p)))
    /\ closed' = [closed EXCEPT ![p][Head(Left(p))] = @ + 1]
    /\ UNCHANGED <<output, cancelled, offered>>

\* RouteSink.Close closes the sinks of the route.
CloseRoute(p) ==
    /\ AtSink(p, Routes)
    /\ run' = [run EXCEPT ![p].route = Head(Left(p)), ![p].inner = Sinks[Head(Left(p))],
                          ![p].chain = Tail(Left(p))]
    /\ UNCHANGED <<output, cancelled, history>>

Return(p) ==
    /\ run[p].at = "sinks" /\ Left(p) = <<>>
    /\ run' = [run EXCEPT ![p].at = "returned"]
    /\ UNCHANGED <<output, cancelled, history>>

Cancel ==
    /\ cancelled' = TRUE
    /\ UNCHANGED <<run, output, history>>

Step(p) ==
    \/ Process(p) \/ WriteSink(p) \/ DecodeEnd(p) \/ Route(p)
    \/ WriteToTarget(p) \/ CloseSource(p) \/ CloseSink(p) \/ CloseRoute(p) \/ Return(p)

Next ==
    \/ \E p \in Pipelines :
         \/ ReadPacket(p) \/ ReadNothing(p) \/ ReadEOF(p) \/ ReadCancelled(p)
         \/ DecodeBegin(p) \/ Step(p)
    \/ Cancel

Spec == Init /\ [][Next]_vars

(***************************************************************************)
(* Fairness.  A running goroutine goes on, and what it writes to returns   *)
(* (WF).  sync.Mutex starves nobody (SF).  Read selects among a cancelled  *)
(* context and a captured packet at random, and so ends some time (SF).    *)
(***************************************************************************)
Fairness ==
    \A p \in Pipelines :
        WF_vars(Step(p)) /\ SF_vars(DecodeBegin(p)) /\ SF_vars(ReadCancelled(p))

FairSpec == Spec /\ Fairness

-----------------------------------------------------------------------------
(* Properties *)

\* A sink that fails does not cost the others the packet: when Run comes
\* back to Read, all sinks of the pipeline, and all sinks of a route, have
\* been given the packet, or its copies, equally often.
NoSinkIsStarved ==
    \A p \in Pipelines : AtRead(p) =>
        \A l \in Levels : \A s, t \in Range(Sinks[l]) :
            offered[p][s] = offered[p][t]

\* When Run has returned, the source and every sink, those of the routes
\* included, have been closed exactly once, whichever Close failed.
ClosedExactlyOnce ==
    \A p \in Pipelines : run[p].at = "returned" =>
        \A s \in Closers : closed[p][s] = 1

\* After cancellation every Run returns, though the pipelines wait for one
\* another to print, and lines cannot always be printed.
RunEnds ==
    cancelled ~> \A p \in Pipelines : run[p].at = "returned"
=============================================================================
