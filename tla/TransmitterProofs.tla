----------------------- MODULE TransmitterProofs -----------------------
(***************************************************************************)
(* The safety of TransmitterSink for any number of callers, loops and      *)
(* handles and any delays.                                                 *)
(***************************************************************************)
EXTENDS Transmitter, FiniteSetTheorems, TLAPS

-----------------------------------------------------------------------------
(* The inductive invariant, by parts. *)

\* The mutex is held across a step exactly by the caller that is writing,
\* and nobody takes the writer away from it.
LockInv ==
    /\ mu # None => call[mu] = "writing"
    /\ \A c \in Callers : call[c] = "writing" => mu = c /\ writer # None

\* A sink that has a writer is not reconnecting.
WriterInv ==
    writer # None =>
        /\ writer \in open
        /\ ~reconnecting
        /\ \A l \in Loops : loop[l].at = "none"

\* There is never more than one reconnectLoop goroutine ...
OneLoopInv ==
    \A k, l \in Loops : loop[k].at # "none" /\ loop[l].at # "none" => k = l

\* ... and until Close there is one whenever the sink has no writer.
OutageInv ==
    ~cancelled /\ writer = None =>
        reconnecting /\ \E l \in Loops : loop[l].at # "none"

\* A loop owns an open handle exactly between createWriter and its return.
LoopHandleInv ==
    \A l \in Loops :
        /\ loop[l].at = "install" <=> loop[l].handle # None
        /\ loop[l].handle # None => loop[l].handle \in open

\* A handle that Close has taken from the sink belongs to that Close alone.
StaleInv ==
    \A c \in Callers : staleWriter[c] # None =>
        /\ call[c] = "closeHandle"
        /\ staleWriter[c] \in open
        /\ staleWriter[c] # writer
        /\ \A l \in Loops : staleWriter[c] # loop[l].handle
        /\ \A d \in Callers : staleWriter[d] = staleWriter[c] => d = c

CloseInv ==
    \A c \in Callers : call[c] \in {"closing", "closeHandle"} => cancelled

\* Until Close, nothing is open but the writer and a loop's new handle.
OwnedInv ==
    ~cancelled =>
        \A h \in open : h = writer \/ \E l \in Loops : h = loop[l].handle

IInv ==
    /\ TypeOK
    /\ LockInv
    /\ WriterInv
    /\ OneLoopInv
    /\ OutageInv
    /\ LoopHandleInv
    /\ StaleInv
    /\ CloseInv
    /\ OwnedInv

-----------------------------------------------------------------------------
(* Types *)

LoopStates == [at : LoopPoints, delay : Delays, handle : Handles \cup {None}]

\* The next delay stays between the initial and the largest one.
LEMMA NextDelayInRange ==
    ASSUME NEW d \in Delays
    PROVE  NextDelay(d) \in Delays
BY DelayAssumption DEF Delays, NextDelay

LEMMA NoLoopType == NoLoop \in LoopStates
BY DelayAssumption DEF NoLoop, LoopStates, LoopPoints, Delays

\* Every step keeps the types.
LEMMA TypeStep == TypeOK /\ [Next]_vars => TypeOK'
<1> SUFFICES ASSUME TypeOK, [Next]_vars
             PROVE  TypeOK'
    OBVIOUS
<1> USE DEF TypeOK, CallPoints, LoopPoints, sinkVars, callerVars
<1>1. ASSUME NEW c \in Callers, WriteDrop(c) PROVE TypeOK'
    BY <1>1 DEF WriteDrop, vars
<1>2. ASSUME NEW c \in Callers, WriteBegin(c) PROVE TypeOK'
    BY <1>2 DEF WriteBegin
<1>3. ASSUME NEW c \in Callers, WriteOK(c) PROVE TypeOK'
    BY <1>3 DEF WriteOK
<1>4. ASSUME NEW c \in Callers, WriteFail(c) PROVE TypeOK'
    <2>1. [NoLoop EXCEPT !.at = "select"] \in LoopStates
        BY NoLoopType DEF LoopStates
    <2>2. CASE reconnecting
        BY <1>4, <2>2 DEF WriteFail
    <2>3. CASE ~reconnecting
        BY <1>4, <2>1, <2>3 DEF WriteFail, LoopStates
    <2> QED
        BY <2>2, <2>3
<1>5. ASSUME NEW c \in Callers, CloseCancel(c) PROVE TypeOK'
    BY <1>5 DEF CloseCancel
<1>6. ASSUME NEW c \in Callers, CloseSwap(c) PROVE TypeOK'
    BY <1>6 DEF CloseSwap
<1>7. ASSUME NEW c \in Callers, CloseHandle(c) PROVE TypeOK'
    BY <1>7 DEF CloseHandle
<1>8. ASSUME NEW l \in Loops, LoopDone(l) PROVE TypeOK'
    BY <1>8, NoLoopType DEF LoopDone, LoopStates
<1>9. ASSUME NEW l \in Loops, LoopTimer(l) PROVE TypeOK'
    BY <1>9 DEF LoopTimer
<1>10. ASSUME NEW l \in Loops, LoopCreate(l) PROVE TypeOK'
    <2>1. PICK h \in FreshHandles :
                /\ open' = open \cup {h}
                /\ loop' = [loop EXCEPT ![l].at = "install", ![l].handle = h]
        BY <1>10 DEF LoopCreate
    <2>2. h \in Handles
        BY DEF FreshHandles
    <2>3. [loop[l] EXCEPT !.at = "install", !.handle = h] \in LoopStates
        BY <2>2 DEF LoopStates
    <2>4. loop' = [loop EXCEPT ![l] = [loop[l] EXCEPT !.at = "install", !.handle = h]]
        BY <2>1
    <2>5. loop' \in [Loops -> LoopStates]
        BY <2>3, <2>4 DEF LoopStates
    <2>6. open' \subseteq Handles
        BY <2>1, <2>2
    <2> QED
        BY <1>10, <2>5, <2>6 DEF LoopCreate, LoopStates
<1>11. ASSUME NEW l \in Loops, LoopCreateFails(l) PROVE TypeOK'
    <2>1. NextDelay(loop[l].delay) \in Delays
        BY NextDelayInRange
    <2>2. [loop[l] EXCEPT !.at = "select", !.delay = NextDelay(loop[l].delay)] \in LoopStates
        BY <2>1 DEF LoopStates
    <2>3. loop' \in [Loops -> LoopStates]
        BY <1>11, <2>2 DEF LoopCreateFails, LoopStates
    <2> QED
        BY <1>11, <2>3 DEF LoopCreateFails, LoopStates
<1>12. ASSUME NEW l \in Loops, LoopInstall(l) PROVE TypeOK'
    BY <1>12, NoLoopType DEF LoopInstall, LoopStates
<1>13. ASSUME NEW l \in Loops, LoopAbandon(l) PROVE TypeOK'
    BY <1>13, NoLoopType DEF LoopAbandon, LoopStates
<1>14. CASE InterfaceDown
    BY <1>14 DEF InterfaceDown
<1>15. CASE InterfaceUp
    BY <1>15 DEF InterfaceUp
<1>16. CASE UNCHANGED vars
    BY <1>16 DEF vars
<1> QED
    BY <1>1, <1>2, <1>3, <1>4, <1>5, <1>6, <1>7, <1>8, <1>9, <1>10, <1>11,
       <1>12, <1>13, <1>14, <1>15, <1>16 DEF Next

-----------------------------------------------------------------------------
(* The inductive invariant *)

LEMMA InitIInv == Init => IInv
<1> SUFFICES ASSUME Init
             PROVE  IInv
    OBVIOUS
<1>1. TypeOK
    BY NoLoopType DEF Init, TypeOK, CallPoints, LoopStates
<1>2. LockInv /\ WriterInv /\ OneLoopInv /\ OutageInv
    BY NoneAssumption DEF Init, LockInv, WriterInv, OneLoopInv, OutageInv, NoLoop
<1>3. LoopHandleInv /\ StaleInv /\ CloseInv /\ OwnedInv
    BY DEF Init, LoopHandleInv, StaleInv, CloseInv, OwnedInv, NoLoop
<1> QED
    BY <1>1, <1>2, <1>3 DEF IInv

\* The invariant is inductive.  Under each action, a step of its own for
\* every part whose proof needs another part, and one for all the others.
LEMMA IInvStep == IInv /\ [Next]_vars => IInv'
<1> SUFFICES ASSUME IInv, [Next]_vars
             PROVE  IInv'
    OBVIOUS
<1> USE NoneAssumption DEF NoLoop, sinkVars, callerVars
<1>0. TypeOK /\ TypeOK'
    BY TypeStep DEF IInv
<1>1. ASSUME NEW c \in Callers, WriteBegin(c) PROVE IInv'
    <2>1. LockInv' /\ WriterInv' /\ OneLoopInv' /\ OutageInv'
        BY <1>0, <1>1 DEF IInv, TypeOK, WriteBegin, LockInv, WriterInv,
                          OneLoopInv, OutageInv
    <2>2. LoopHandleInv' /\ StaleInv' /\ CloseInv' /\ OwnedInv'
        BY <1>0, <1>1 DEF IInv, TypeOK, WriteBegin, LoopHandleInv, StaleInv,
                          CloseInv, OwnedInv
    <2> QED
        BY <1>0, <2>1, <2>2 DEF IInv
<1>2. ASSUME NEW c \in Callers, WriteOK(c) PROVE IInv'
    <2>1. LockInv' /\ WriterInv' /\ OneLoopInv' /\ OutageInv'
        BY <1>0, <1>2 DEF IInv, TypeOK, WriteOK, LockInv, WriterInv,
                          OneLoopInv, OutageInv
    <2>2. LoopHandleInv' /\ StaleInv' /\ CloseInv' /\ OwnedInv'
        BY <1>0, <1>2 DEF IInv, TypeOK, WriteOK, LoopHandleInv, StaleInv,
                          CloseInv, OwnedInv
    <2> QED
        BY <1>0, <2>1, <2>2 DEF IInv
<1>3. ASSUME NEW c \in Callers, WriteFail(c) PROVE IInv'
    <2>1. LockInv' /\ WriterInv'
        BY <1>0, <1>3 DEF IInv, TypeOK, WriteFail, LiveLoops, LockInv,
                          WriterInv
    <2>2. OutageInv'
        BY <1>0, <1>3 DEF IInv, TypeOK, WriteFail, LiveLoops, OutageInv
    <2>3. OneLoopInv'
        BY <1>0, <1>3 DEF IInv, TypeOK, WriteFail, LiveLoops, OneLoopInv,
                          LockInv, WriterInv
    <2>4. LoopHandleInv'
        BY <1>0, <1>3 DEF IInv, TypeOK, WriteFail, LiveLoops, LoopHandleInv,
                          WriterInv
    <2>5. OwnedInv'
        BY <1>0, <1>3 DEF IInv, TypeOK, WriteFail, LiveLoops, OwnedInv,
                          LoopHandleInv
    <2>6. StaleInv'
        BY <1>0, <1>3 DEF IInv, TypeOK, WriteFail, LiveLoops, StaleInv
    <2>7. CloseInv'
        BY <1>0, <1>3 DEF IInv, TypeOK, WriteFail, CloseInv
    <2> QED
        BY <1>0, <2>1, <2>2, <2>3, <2>4, <2>5, <2>6, <2>7 DEF IInv
<1>4. ASSUME NEW c \in Callers, CloseCancel(c) PROVE IInv'
    <2>1. LockInv' /\ WriterInv' /\ OneLoopInv' /\ OutageInv'
        BY <1>0, <1>4 DEF IInv, TypeOK, CloseCancel, LockInv, WriterInv,
                          OneLoopInv, OutageInv
    <2>2. LoopHandleInv' /\ StaleInv' /\ CloseInv' /\ OwnedInv'
        BY <1>0, <1>4 DEF IInv, TypeOK, CloseCancel, LoopHandleInv, StaleInv,
                          CloseInv, OwnedInv
    <2> QED
        BY <1>0, <2>1, <2>2 DEF IInv
<1>5. ASSUME NEW c \in Callers, CloseSwap(c) PROVE IInv'
    <2>1. LockInv' /\ WriterInv'
        BY <1>0, <1>5 DEF IInv, TypeOK, CloseSwap, LockInv, WriterInv
    <2>2. OneLoopInv' /\ LoopHandleInv' /\ CloseInv'
        BY <1>0, <1>5 DEF IInv, TypeOK, CloseSwap, OneLoopInv, LoopHandleInv,
                          CloseInv
    <2>3. OutageInv'
        BY <1>0, <1>5 DEF IInv, TypeOK, CloseSwap, OutageInv, CloseInv
    <2>4. StaleInv'
        BY <1>0, <1>5 DEF IInv, TypeOK, CloseSwap, StaleInv, WriterInv,
                          LoopHandleInv
    <2>5. OwnedInv'
        BY <1>0, <1>5 DEF IInv, TypeOK, CloseSwap, OwnedInv, CloseInv
    <2> QED
        BY <1>0, <2>1, <2>2, <2>3, <2>4, <2>5 DEF IInv
<1>6. ASSUME NEW c \in Callers, CloseHandle(c) PROVE IInv'
    <2>1. LockInv' /\ OneLoopInv' /\ OutageInv'
        BY <1>0, <1>6 DEF IInv, TypeOK, CloseHandle, LockInv, OneLoopInv,
                          OutageInv
    <2>2. StaleInv' /\ CloseInv' /\ OwnedInv'
        BY <1>0, <1>6 DEF IInv, TypeOK, CloseHandle, StaleInv, CloseInv,
                          OwnedInv
    <2>3. WriterInv'
        BY <1>0, <1>6 DEF IInv, TypeOK, CloseHandle, WriterInv, StaleInv
    <2>4. LoopHandleInv'
        BY <1>0, <1>6 DEF IInv, TypeOK, CloseHandle, LoopHandleInv, StaleInv
    <2> QED
        BY <1>0, <2>1, <2>2, <2>3, <2>4 DEF IInv
<1>7. ASSUME NEW l \in Loops, LoopDone(l) PROVE IInv'
    <2>1. LockInv' /\ WriterInv' /\ OneLoopInv' /\ OutageInv'
        BY <1>0, <1>7 DEF IInv, TypeOK, LoopDone, LockInv, WriterInv,
                          OneLoopInv, OutageInv
    <2>2. LoopHandleInv' /\ StaleInv' /\ CloseInv' /\ OwnedInv'
        BY <1>0, <1>7 DEF IInv, TypeOK, LoopDone, LoopHandleInv, StaleInv,
                          CloseInv, OwnedInv
    <2> QED
        BY <1>0, <2>1, <2>2 DEF IInv
<1>8. ASSUME NEW l \in Loops, LoopTimer(l) PROVE IInv'
    <2>1. LockInv' /\ WriterInv' /\ OneLoopInv' /\ OutageInv'
        BY <1>0, <1>8 DEF IInv, TypeOK, LoopTimer, LockInv, WriterInv,
                          OneLoopInv, OutageInv
    <2>2. LoopHandleInv' /\ StaleInv' /\ CloseInv' /\ OwnedInv'
        BY <1>0, <1>8 DEF IInv, TypeOK, LoopTimer, LoopHandleInv, StaleInv,
                          CloseInv, OwnedInv
    <2> QED
        BY <1>0, <2>1, <2>2 DEF IInv
<1>9. ASSUME NEW l \in Loops, LoopCreate(l) PROVE IInv'
    <2>1. LockInv' /\ WriterInv' /\ OneLoopInv' /\ OutageInv'
        BY <1>0, <1>9 DEF IInv, TypeOK, LoopCreate, FreshHandles, Referenced,
                          LockInv, WriterInv, OneLoopInv, OutageInv
    <2>2. LoopHandleInv' /\ StaleInv' /\ CloseInv' /\ OwnedInv'
        BY <1>0, <1>9 DEF IInv, TypeOK, LoopCreate, FreshHandles, Referenced,
                          LoopHandleInv, StaleInv, CloseInv, OwnedInv
    <2> QED
        BY <1>0, <2>1, <2>2 DEF IInv
<1>10. ASSUME NEW l \in Loops, LoopCreateFails(l) PROVE IInv'
    <2>1. LockInv' /\ WriterInv' /\ OneLoopInv' /\ OutageInv'
        BY <1>0, <1>10 DEF IInv, TypeOK, LoopCreateFails, LockInv, WriterInv,
                           OneLoopInv, OutageInv
    <2>2. LoopHandleInv' /\ StaleInv' /\ CloseInv' /\ OwnedInv'
        BY <1>0, <1>10 DEF IInv, TypeOK, LoopCreateFails, LoopHandleInv,
                           StaleInv, CloseInv, OwnedInv
    <2> QED
        BY <1>0, <2>1, <2>2 DEF IInv
<1>11. ASSUME NEW l \in Loops, LoopInstall(l) PROVE IInv'
    <2>1. LockInv' /\ OneLoopInv'
        BY <1>0, <1>11 DEF IInv, TypeOK, LoopInstall, LockInv, OneLoopInv
    <2>2. LoopHandleInv' /\ StaleInv' /\ CloseInv'
        BY <1>0, <1>11 DEF IInv, TypeOK, LoopInstall, LoopHandleInv,
                           StaleInv, CloseInv
    <2>3. WriterInv'
        BY <1>0, <1>11 DEF IInv, TypeOK, LoopInstall, WriterInv, OneLoopInv,
                           LoopHandleInv
    <2>4. OutageInv'
        BY <1>0, <1>11 DEF IInv, TypeOK, LoopInstall, OutageInv,
                           LoopHandleInv
    <2>5. OwnedInv'
        BY <1>0, <1>11 DEF IInv, TypeOK, LoopInstall, OwnedInv, WriterInv
    <2> QED
        BY <1>0, <2>1, <2>2, <2>3, <2>4, <2>5 DEF IInv
<1>12. ASSUME NEW l \in Loops, LoopAbandon(l) PROVE IInv'
    <2>1. LockInv' /\ WriterInv' /\ OneLoopInv' /\ OutageInv'
        BY <1>0, <1>12 DEF IInv, TypeOK, LoopAbandon, LockInv, WriterInv,
                           OneLoopInv, OutageInv
    <2>2. LoopHandleInv' /\ StaleInv' /\ CloseInv' /\ OwnedInv'
        BY <1>0, <1>12 DEF IInv, TypeOK, LoopAbandon, LoopHandleInv,
                           StaleInv, CloseInv, OwnedInv
    <2> QED
        BY <1>0, <2>1, <2>2 DEF IInv
<1>13. CASE UNCHANGED vars \/ InterfaceDown \/ InterfaceUp
    <2>1. UNCHANGED <<sinkVars, callerVars, loop, open>>
        BY <1>13 DEF vars, InterfaceDown, InterfaceUp
    <2>2. LockInv' /\ WriterInv' /\ OneLoopInv' /\ OutageInv'
        BY <2>1 DEF IInv, LockInv, WriterInv, OneLoopInv, OutageInv
    <2>3. LoopHandleInv' /\ StaleInv' /\ CloseInv' /\ OwnedInv'
        BY <2>1 DEF IInv, LoopHandleInv, StaleInv, CloseInv, OwnedInv
    <2> QED
        BY <1>0, <2>2, <2>3 DEF IInv
<1> QED
    BY <1>1, <1>2, <1>3, <1>4, <1>5, <1>6, <1>7, <1>8, <1>9, <1>10, <1>11,
       <1>12, <1>13 DEF Next, WriteDrop

THEOREM Invariance == Spec => []IInv
BY InitIInv, IInvStep, PTL DEF Spec

-----------------------------------------------------------------------------
(* What follows from it *)

\* TypeOK holds of every sink.
THEOREM TypeCorrect == Spec => []TypeOK
<1>1. IInv => TypeOK
    BY DEF IInv
<1> QED
    BY <1>1, Invariance, PTL

\* The handle a write in progress uses is never closed under it.
THEOREM WriteSafe == Spec => []WriteOnOpenHandle
<1>1. IInv => WriteOnOpenHandle
    BY DEF IInv, LockInv, WriterInv, WriteOnOpenHandle
<1> QED
    BY <1>1, Invariance, PTL

\* Until Close, exactly one reconnectLoop works on an outage, and none
\* when there is a writer.
THEOREM OneLoopPerOutage == Spec => []OutageHasOneLoop
<1>1. ASSUME IInv, ~cancelled, writer = None
      PROVE  Cardinality(LiveLoops) = 1
    <2>1. PICK l \in Loops : loop[l].at # "none"
        BY <1>1 DEF IInv, OutageInv
    <2>2. LiveLoops = {l}
        BY <1>1, <2>1 DEF IInv, OneLoopInv, LiveLoops
    <2> QED
        BY <2>2, FS_Singleton
<1>2. ASSUME IInv, writer # None
      PROVE  Cardinality(LiveLoops) = 0
    <2>1. LiveLoops = {}
        BY <1>2 DEF IInv, WriterInv, LiveLoops
    <2> QED
        BY <2>1, FS_EmptySet
<1>3. IInv => OutageHasOneLoop
    BY <1>1, <1>2 DEF OutageHasOneLoop
<1> QED
    BY <1>3, Invariance, PTL

\* No handle is closed while somebody still refers to it, and until Close the
\* open handles are exactly the ones somebody refers to.
THEOREM NoLeak == Spec => []HandlesAreOwned
<1>1. ASSUME IInv, ~cancelled
      PROVE  open = Referenced
    <2>1. \A c \in Callers : staleWriter[c] = None
        BY <1>1 DEF IInv, StaleInv, CloseInv
    <2>2. open \subseteq Referenced
        BY <1>1, NoneAssumption DEF IInv, TypeOK, OwnedInv, Referenced
    <2>3. Referenced \subseteq open
        BY <1>1, <2>1 DEF IInv, WriterInv, LoopHandleInv, Referenced
    <2> QED
        BY <2>2, <2>3
<1>2. IInv => Referenced \subseteq open
    BY DEF IInv, WriterInv, LoopHandleInv, StaleInv, Referenced
<1>3. IInv => HandlesAreOwned
    BY <1>1, <1>2 DEF HandlesAreOwned
<1> QED
    BY <1>3, Invariance, PTL

\* A late reconnect never gives a closed sink a writer.
THEOREM CloseIsFinal == Spec => NoInstallAfterCancel
<1>1. [Next]_vars => (cancelled => writer' \in {writer, None})
    BY DEF Next, vars, sinkVars, callerVars, WriteDrop, WriteBegin, WriteOK,
           WriteFail, CloseCancel, CloseSwap, CloseHandle, LoopDone, LoopTimer,
           LoopCreate, LoopCreateFails, LoopInstall, LoopAbandon,
           InterfaceDown, InterfaceUp
<1>2. [Next]_vars => [cancelled => writer' \in {writer, None}]_vars
    BY <1>1
<1> QED
    BY <1>2, PTL DEF Spec, NoInstallAfterCancel

-----------------------------------------------------------------------------
(* The abstract link *)

\* Every step of the sink is a step of the link, or changes nothing its
\* users can see.
LEMMA LinkStep == IInv /\ [Next]_vars => [L!Next]_L!vars
<1> SUFFICES ASSUME IInv, [Next]_vars
             PROVE  L!Next \/ UNCHANGED L!vars
    BY DEF L!vars
<1> USE DEF sinkVars, callerVars, L!vars
<1>1. ASSUME NEW c \in Callers, WriteBegin(c) PROVE L!Send(c)
    BY <1>1 DEF WriteBegin, L!Send
<1>2. ASSUME NEW c \in Callers, WriteOK(c) PROVE L!Sent(c)
    BY <1>2 DEF WriteOK, L!Sent, IInv, LockInv
<1>3. ASSUME NEW c \in Callers, WriteFail(c) PROVE L!Lose(c)
    BY <1>3 DEF WriteFail, L!Lose, IInv, LockInv, WriterInv
<1>4. ASSUME NEW c \in Callers, CloseCancel(c) PROVE L!Ask
    BY <1>4 DEF CloseCancel, L!Ask
<1>5. ASSUME NEW c \in Callers, CloseSwap(c) PROVE L!Shut
    BY <1>5 DEF CloseSwap, L!Shut, IInv, CloseInv
<1>6. ASSUME NEW l \in Loops, LoopInstall(l) PROVE L!Repair
    <2>1. writer = None
        BY <1>6 DEF LoopInstall, IInv, WriterInv
    <2>2. loop[l].handle # None
        BY <1>6 DEF LoopInstall, IInv, LoopHandleInv
    <2> QED
        BY <1>6, <2>1, <2>2 DEF LoopInstall, L!Repair
<1>7. ASSUME NEW c \in Callers, WriteDrop(c) \/ CloseHandle(c)
      PROVE  UNCHANGED L!vars
    BY <1>7 DEF WriteDrop, CloseHandle, vars
<1>8. ASSUME NEW l \in Loops,
             \/ LoopDone(l) \/ LoopTimer(l) \/ LoopCreate(l)
             \/ LoopCreateFails(l) \/ LoopAbandon(l)
      PROVE  UNCHANGED L!vars
    BY <1>8 DEF LoopDone, LoopTimer, LoopCreate, LoopCreateFails, LoopAbandon
<1>9. CASE InterfaceDown \/ InterfaceUp \/ UNCHANGED vars
    BY <1>9 DEF InterfaceDown, InterfaceUp, vars
<1> QED
    BY <1>1, <1>2, <1>3, <1>4, <1>5, <1>6, <1>7, <1>8, <1>9 DEF Next, L!Next

\* TransmitterSink implements the abstract link.
THEOREM ImplementsLink == Spec => LinkSpec
<1>1. Init => L!Init
    BY NoneAssumption DEF Init, L!Init
<1> QED
    BY <1>1, LinkStep, Invariance, PTL DEF Spec, LinkSpec, L!Spec
=============================================================================
