----------------------- MODULE PcapSourceProofs -----------------------
(***************************************************************************)
(* What the capture sources of an interface promise, for any number of     *)
(* outages, any capacity of the channels and any delays: the types for any *)
(* number of sources, the rest for one that has its interface to itself.   *)
(***************************************************************************)
EXTENDS PcapSource, TLAPS

\* The handle the sources were set up with is open until they run, and who is
\* about to store a handle has one.
ShareInv ==
    /\ (\A s \in Sources : source[s].at = "setup") => reader \in open
    /\ \A s \in Sources : source[s].at = "store" => source[s].created # None

\* The open handle is the one in the cache, or the one about to be stored,
\* and where the source stands tells which of them there is.
HandleInv(s) ==
    /\ open = {reader, source[s].created} \ {None}
    /\ source[s].created # None <=> source[s].at = "store"
    /\ source[s].at \in {"setup", "select", "closeOld"} => reader = source[s].handle
    /\ source[s].at \in {"wait", "lookup", "store", "closed"} => reader = None

-----------------------------------------------------------------------------
(* Every handle that is opened is paid for by an outage.  What an outage    *)
(* has set going, and has not led to a new handle yet, is counted as        *)
(* pending; each outage adds two at most.                                   *)

One(b) == IF b THEN 1 ELSE 0

\* The source is reconnecting and has no new handle yet.
Reconnecting(s) == One(source[s].at \in {"closeOld", "wait", "lookup"})

\* The source will find its channel closed: the handle it reads, or is about
\* to read, is dead.
WillClose(s) ==
    One(\/ source[s].at \in {"setup", "select"} /\ (source[s].handle \in dead \/ channel[s].closed)
        \/ source[s].created \in dead)

\* The signals the monitor may still send: one for an outage it has seen, and
\* one for an outage it has yet to see.
WillSignal(s) ==
    IF monitor[s].wasDown THEN 1 + One(listed /\ ~up) ELSE One(~listed \/ ~up)

CreditInv(s) ==
    opened + Reconnecting(s) + One(signal[s]) + WillClose(s) + WillSignal(s)
        <= 1 + 2 * outages

-----------------------------------------------------------------------------
(* While the interface is there, a handle that died has left a trace: the   *)
(* monitor has seen the outage, or has sent its signal, which only the      *)
(* source takes.  The handle may have died before it was stored.            *)

ReadsDead(s) ==
    \/ source[s].at \in {"setup", "select"} /\ source[s].handle \in dead
    \/ source[s].at = "store" /\ source[s].created \in dead

TraceInv(s) ==
    /\ ReadsDead(s) /\ up => signal[s] \/ monitor[s].wasDown \/ missed
    /\ monitor[s].at = "stopped" => source[s].at = "closed"

IInv(s) == TypeOK /\ HandleInv(s) /\ CreditInv(s) /\ TraceInv(s)

-----------------------------------------------------------------------------
LEMMA DelayType ==
    /\ InitialDelay \in Delays
    /\ \A d \in Delays : NextDelay(d) \in Delays
  BY DelayAssumption DEF Delays, NextDelay

LEMMA ClosedChannelType ==
    ASSUME NEW s \in Sources, channel \in [Sources -> [packets : 0..Cap, closed : BOOLEAN]]
    PROVE  [channel EXCEPT ![s].closed = TRUE]
             \in [Sources -> [packets : 0..Cap, closed : BOOLEAN]]
  OBVIOUS

LEMMA DelayedSourceType ==
    ASSUME NEW s \in Sources, NEW d \in Delays,
           source \in [Sources -> [at : SourcePoints, handle : Handles,
                                   created : Handles \cup {None}, delay : Delays]]
    PROVE  [source EXCEPT ![s].at = "wait", ![s].delay = d]
             \in [Sources -> [at : SourcePoints, handle : Handles,
                              created : Handles \cup {None}, delay : Delays]]
  BY DEF SourcePoints

LEMMA GoneSourceType ==
    ASSUME NEW s \in Sources, NEW point \in SourcePoints,
           source \in [Sources -> [at : SourcePoints, handle : Handles,
                                   created : Handles \cup {None}, delay : Delays]],
           Goto(s, point)
    PROVE  source' \in [Sources -> [at : SourcePoints, handle : Handles,
                                    created : Handles \cup {None}, delay : Delays]]
  BY DEF Goto

LEMMA InstalledSourceType ==
    ASSUME NEW s \in Sources, NEW h \in Handles,
           source \in [Sources -> [at : SourcePoints, handle : Handles,
                                   created : Handles \cup {None}, delay : Delays]]
    PROVE  [source EXCEPT ![s].at = "select", ![s].handle = h, ![s].created = None]
             \in [Sources -> [at : SourcePoints, handle : Handles,
                              created : Handles \cup {None}, delay : Delays]]
  BY DEF SourcePoints

LEMMA OpenedSourceType ==
    ASSUME NEW s \in Sources, NEW h \in Handles,
           source \in [Sources -> [at : SourcePoints, handle : Handles,
                                   created : Handles \cup {None}, delay : Delays]]
    PROVE  [source EXCEPT ![s].at = "store", ![s].created = h]
             \in [Sources -> [at : SourcePoints, handle : Handles,
                              created : Handles \cup {None}, delay : Delays]]
  BY DEF SourcePoints

\* A step of a source, its monitor, its capture, or the system keeps the types.
LEMMA TypeStep ==
    ASSUME TypeOK, ShareInv, [Next]_vars
    PROVE  TypeOK'
<1> USE DEF TypeOK, ShareInv, SourcePoints, MonitorPoints
<1>1. ASSUME NEW s \in Sources, CtxDone(s) PROVE TypeOK'
  BY <1>1, GoneSourceType DEF CtxDone, dmVars, handleVars, envVars
<1>2. ASSUME NEW s \in Sources, ReadSignal(s) PROVE TypeOK'
  BY <1>2, GoneSourceType DEF ReadSignal, dmVars, handleVars, envVars
<1>3. ASSUME NEW s \in Sources, ReadPacket(s) PROVE TypeOK'
  BY <1>3, BoundAssumption DEF ReadPacket, dmVars, handleVars, envVars
<1>4. ASSUME NEW s \in Sources, ReadClosed(s) PROVE TypeOK'
  BY <1>4, GoneSourceType DEF ReadClosed, dmVars, handleVars, envVars
<1>5. ASSUME NEW s \in Sources, CloseOld(s) PROVE TypeOK'
  <2>1. source' \in [Sources -> [at : SourcePoints, handle : Handles,
                                created : Handles \cup {None}, delay : Delays]]
    BY <1>5, DelayType, DelayedSourceType DEF CloseOld
  <2> QED
    BY <1>5, <2>1 DEF CloseOld, CloseReader, envVars
<1>6. ASSUME NEW s \in Sources, DelayOver(s) PROVE TypeOK'
  BY <1>6, GoneSourceType DEF DelayOver, dmVars, handleVars, envVars
<1>7. ASSUME NEW s \in Sources, CreateReaderHandle(s) PROVE TypeOK'
  <2>1. CASE reader # None
    <3>1. reader \in Handles
      BY <2>1
    <3>2. /\ source' = [source EXCEPT ![s].at = "select", ![s].handle = reader,
                                      ![s].created = None]
          /\ channel' = [channel EXCEPT ![s] = EmptyChannel]
      BY <1>7, <2>1 DEF CreateReaderHandle, Install
    <3>3. source' \in [Sources -> [at : SourcePoints, handle : Handles,
                                   created : Handles \cup {None}, delay : Delays]]
      BY <3>1, <3>2, InstalledSourceType
    <3>4. channel' \in [Sources -> [packets : 0..Cap, closed : BOOLEAN]]
      BY <3>2, BoundAssumption DEF EmptyChannel
    <3> QED
      BY <1>7, <2>1, <3>3, <3>4 DEF CreateReaderHandle, dmVars, envVars
  <2>2. CASE reader = None
    <3>1. PICK h \in Handles : /\ open' = open \cup {h}
                               /\ source' = [source EXCEPT ![s].at = "store", ![s].created = h]
      BY <1>7, <2>2 DEF CreateReaderHandle, FreshHandles
    <3>2. source' \in [Sources -> [at : SourcePoints, handle : Handles,
                                   created : Handles \cup {None}, delay : Delays]]
      BY <3>1, OpenedSourceType
    <3>3. /\ opened' = opened + 1
          /\ UNCHANGED <<reader, listed, channel, signal, monitor, cancelled, dead,
                        filtered, up, outages, missed>>
      BY <1>7, <2>2 DEF CreateReaderHandle, dmVars, envVars
    <3> QED
      BY <3>1, <3>2, <3>3
  <2> QED
    BY <2>1, <2>2
<1>8. ASSUME NEW s \in Sources, StoreReaderHandle(s) PROVE TypeOK'
  BY <1>8, BoundAssumption, NoneAssumption DEF StoreReaderHandle, Install, handleVars,
     envVars
<1>9. ASSUME NEW s \in Sources, CreateFails(s) PROVE TypeOK'
  <2>1. source' = [source EXCEPT ![s].at = "wait", ![s].delay = NextDelay(source[s].delay)]
    BY <1>9 DEF CreateFails
  <2>2. source' \in [Sources -> [at : SourcePoints, handle : Handles,
                                created : Handles \cup {None}, delay : Delays]]
    BY <2>1, DelayType, DelayedSourceType
  <2> QED
    BY <1>9, <2>2 DEF CreateFails, dmVars, handleVars, envVars
<1>10. ASSUME NEW s \in Sources, Close(s) PROVE TypeOK'
  BY <1>10, GoneSourceType DEF Close, CloseReader, envVars
<1>11. ASSUME NEW s \in Sources, MonitorTick(s) PROVE TypeOK'
  BY <1>11 DEF MonitorTick, Refresh, handleVars, envVars
<1>12. ASSUME NEW s \in Sources, MonitorSeesDown(s) PROVE TypeOK'
  BY <1>12 DEF MonitorSeesDown, dmVars, handleVars, envVars
<1>13. ASSUME NEW s \in Sources, MonitorSeesUp(s) PROVE TypeOK'
  BY <1>13 DEF MonitorSeesUp, dmVars, handleVars, envVars
<1>14. ASSUME NEW s \in Sources, MonitorDone(s) PROVE TypeOK'
  BY <1>14 DEF MonitorDone, dmVars, handleVars, envVars
<1>15. ASSUME NEW s \in Sources, Capture(s) PROVE TypeOK'
  BY <1>15, BoundAssumption DEF Capture, dmVars, handleVars, envVars
<1>16. ASSUME NEW s \in Sources, ChannelCloses(s) PROVE TypeOK'
  <2>1. channel' \in [Sources -> [packets : 0..Cap, closed : BOOLEAN]]
    BY <1>16, ClosedChannelType DEF ChannelCloses
  <2> QED
    BY <1>16, <2>1 DEF ChannelCloses, dmVars, handleVars, envVars
<1>17. CASE SetBPFFilter
  <2>1. reader \in open
    BY <1>17 DEF SetBPFFilter
  <2>2. source' \in [Sources -> [at : SourcePoints, handle : Handles,
                                created : Handles \cup {None}, delay : Delays]]
    <3>1. source' = [s \in Sources |-> [source[s] EXCEPT !.at = "select"]]
      BY <1>17 DEF SetBPFFilter
    <3>2. ASSUME NEW s \in Sources
          PROVE  [source[s] EXCEPT !.at = "select"]
                   \in [at : SourcePoints, handle : Handles,
                        created : Handles \cup {None}, delay : Delays]
      OBVIOUS
    <3> QED
      BY <3>1, <3>2
  <2> QED
    BY <1>17, <2>1, <2>2 DEF SetBPFFilter, dmVars, envVars
<1>18. CASE OtherRefresh
  BY <1>18 DEF OtherRefresh, Refresh, handleVars, envVars
<1>19. CASE Cancel
  BY <1>19 DEF Cancel, dmVars, handleVars, envVars
<1>20. CASE InterfaceDown
  <2>1. outages' \in 0..MaxOutages
    BY <1>20, BoundAssumption DEF InterfaceDown
  <2> QED
    BY <1>20, <2>1 DEF InterfaceDown, dmVars
<1>21. CASE InterfaceUp
  BY <1>21 DEF InterfaceUp, dmVars, handleVars
<1>22. CASE UNCHANGED vars
  BY <1>22 DEF vars, dmVars, handleVars, envVars
<1> QED
  BY <1>1, <1>2, <1>3, <1>4, <1>5, <1>6, <1>7, <1>8, <1>9, <1>10, <1>11, <1>12, <1>13,
     <1>14, <1>15, <1>16, <1>17, <1>18, <1>19, <1>20, <1>21, <1>22 DEF Next

\* Nobody closes the first handle before all sources run.
LEMMA ShareStep ==
    ASSUME TypeOK, ShareInv, [Next]_vars
    PROVE  ShareInv'
<1> USE DEF ShareInv
<1>0. ASSUME NEW s \in Sources, source' = [source EXCEPT ![s] = source'[s]],
             source'[s].at # "setup",
             source'[s].at = "store" => source'[s].created # None
      PROVE  ShareInv'
  BY <1>0 DEF TypeOK
<1> USE DEF TypeOK
<1>1. ASSUME NEW s \in Sources, CtxDone(s) \/ ReadSignal(s) \/ ReadClosed(s) \/ DelayOver(s)
      PROVE  ShareInv'
  BY <1>0, <1>1 DEF CtxDone, ReadSignal, ReadClosed, DelayOver, Goto
<1>2. ASSUME NEW s \in Sources, CloseOld(s) \/ Close(s) PROVE ShareInv'
  BY <1>0, <1>2 DEF CloseOld, Close, Goto
<1>3. ASSUME NEW s \in Sources, CreateReaderHandle(s) PROVE ShareInv'
  BY <1>0, <1>3, NoneAssumption DEF CreateReaderHandle, Install, FreshHandles
<1>4. ASSUME NEW s \in Sources, StoreReaderHandle(s) PROVE ShareInv'
  BY <1>0, <1>4 DEF StoreReaderHandle, Install
<1>5. ASSUME NEW s \in Sources, CreateFails(s) PROVE ShareInv'
  BY <1>0, <1>5 DEF CreateFails
<1>6. CASE SetBPFFilter
  BY <1>6 DEF SetBPFFilter, dmVars
<1>7. ASSUME UNCHANGED <<source, reader, open>> PROVE ShareInv'
  BY <1>7
<1> QED
  BY <1>1, <1>2, <1>3, <1>4, <1>5, <1>6, <1>7
  DEF Next, ReadPacket, MonitorTick, MonitorSeesDown, MonitorSeesUp, MonitorDone, Refresh,
      Capture, ChannelCloses, OtherRefresh, Cancel, InterfaceDown, InterfaceUp, dmVars,
      handleVars, vars

\* One source that has its interface to itself is a special case.
LEMMA AloneShares ==
    ASSUME NEW s, Sources = {s}, TypeOK, HandleInv(s)
    PROVE  ShareInv
  BY NoneAssumption DEF TypeOK, HandleInv, ShareInv

\* The handle is in the cache or about to be: CloseOld and Close take it from
\* there, StoreReaderHandle puts it there, and no other step touches it.
LEMMA HandleStep ==
    ASSUME NEW s, Sources = {s}, TypeOK, HandleInv(s), [Next]_vars
    PROVE  HandleInv(s)'
<1> USE DEF TypeOK, HandleInv
<1>1. CASE CtxDone(s)
  BY <1>1 DEF CtxDone, Goto, dmVars, handleVars, envVars
<1>2. CASE ReadSignal(s)
  BY <1>2 DEF ReadSignal, Goto, dmVars, handleVars, envVars
<1>3. CASE ReadPacket(s)
  BY <1>3 DEF ReadPacket, dmVars, handleVars, envVars
<1>4. CASE ReadClosed(s)
  BY <1>4 DEF ReadClosed, Goto, dmVars, handleVars, envVars
<1>5. CASE CloseOld(s)
  BY <1>5, NoneAssumption DEF CloseOld, CloseReader, envVars
<1>6. CASE DelayOver(s)
  BY <1>6 DEF DelayOver, Goto, dmVars, handleVars, envVars
<1>7. CASE CreateReaderHandle(s)
  BY <1>7, NoneAssumption DEF CreateReaderHandle, Install, FreshHandles, Held, dmVars,
     envVars
<1>8. CASE StoreReaderHandle(s)
  BY <1>8, NoneAssumption DEF StoreReaderHandle, Install, handleVars, envVars
<1>9. CASE CreateFails(s)
  BY <1>9 DEF CreateFails, dmVars, handleVars, envVars
<1>10. CASE Close(s)
  BY <1>10, NoneAssumption DEF Close, CloseReader, Goto, envVars
<1>11. CASE MonitorTick(s)
  BY <1>11 DEF MonitorTick, Refresh, handleVars, envVars
<1>12. CASE MonitorSeesDown(s)
  BY <1>12 DEF MonitorSeesDown, dmVars, handleVars, envVars
<1>13. CASE MonitorSeesUp(s)
  BY <1>13 DEF MonitorSeesUp, dmVars, handleVars, envVars
<1>14. CASE MonitorDone(s)
  BY <1>14 DEF MonitorDone, dmVars, handleVars, envVars
<1>15. CASE Capture(s)
  BY <1>15 DEF Capture, dmVars, handleVars, envVars
<1>16. CASE ChannelCloses(s)
  BY <1>16 DEF ChannelCloses, dmVars, handleVars, envVars
<1>17. CASE SetBPFFilter
  BY <1>17, NoneAssumption DEF SetBPFFilter, dmVars, envVars
<1>18. CASE OtherRefresh
  BY <1>18 DEF OtherRefresh, Refresh, handleVars, envVars
<1>19. CASE Cancel
  BY <1>19 DEF Cancel, dmVars, handleVars, envVars
<1>20. CASE InterfaceDown
  BY <1>20 DEF InterfaceDown, dmVars
<1>21. CASE InterfaceUp
  BY <1>21 DEF InterfaceUp, dmVars, handleVars
<1>22. CASE UNCHANGED vars
  BY <1>22 DEF vars, dmVars, handleVars, envVars
<1> QED
  BY <1>1, <1>2, <1>3, <1>4, <1>5, <1>6, <1>7, <1>8, <1>9, <1>10, <1>11, <1>12, <1>13,
     <1>14, <1>15, <1>16, <1>17, <1>18, <1>19, <1>20, <1>21, <1>22 DEF Next

\* InterfaceDown makes at most one channel and one signal pending.  Every other
\* step hands on what is pending: ChannelCloses and MonitorSeesUp to the source,
\* ReadClosed and ReadSignal to the reconnect, CreateReaderHandle to the handle
\* it opens.
LEMMA CreditStep ==
    ASSUME NEW s, Sources = {s}, IInv(s), [Next]_vars
    PROVE  CreditInv(s)'
<1> USE DEF IInv, TypeOK, HandleInv, CreditInv, Reconnecting, WillClose, WillSignal, One
<1>1. CASE CtxDone(s)
  BY <1>1 DEF CtxDone, Goto, dmVars, handleVars, envVars
<1>2. CASE ReadSignal(s)
  BY <1>2 DEF ReadSignal, Goto, dmVars, handleVars, envVars
<1>3. CASE ReadPacket(s)
  BY <1>3 DEF ReadPacket, dmVars, handleVars, envVars
<1>4. CASE ReadClosed(s)
  BY <1>4 DEF ReadClosed, Goto, dmVars, handleVars, envVars
<1>5. CASE CloseOld(s)
  BY <1>5 DEF CloseOld, CloseReader, envVars
<1>6. CASE DelayOver(s)
  BY <1>6 DEF DelayOver, Goto, dmVars, handleVars, envVars
<1>7. CASE CreateReaderHandle(s)
  BY <1>7, NoneAssumption DEF CreateReaderHandle, Install, FreshHandles, Held, dmVars,
     envVars
<1>8. CASE StoreReaderHandle(s)
  BY <1>8, NoneAssumption DEF StoreReaderHandle, Install, handleVars, envVars
<1>9. CASE CreateFails(s)
  BY <1>9 DEF CreateFails, dmVars, handleVars, envVars
<1>10. CASE Close(s)
  BY <1>10 DEF Close, CloseReader, Goto, envVars
<1>11. CASE MonitorTick(s)
  BY <1>11 DEF MonitorTick, Refresh, handleVars, envVars
<1>12. CASE MonitorSeesDown(s)
  BY <1>12 DEF MonitorSeesDown, dmVars, handleVars, envVars
<1>13. CASE MonitorSeesUp(s)
  BY <1>13 DEF MonitorSeesUp, dmVars, handleVars, envVars
<1>14. CASE MonitorDone(s)
  BY <1>14 DEF MonitorDone, dmVars, handleVars, envVars
<1>15. CASE Capture(s)
  BY <1>15 DEF Capture, dmVars, handleVars, envVars
<1>16. CASE ChannelCloses(s)
  BY <1>16, NoneAssumption DEF ChannelCloses, dmVars, handleVars, envVars
<1>17. CASE SetBPFFilter
  BY <1>17 DEF SetBPFFilter, dmVars, envVars
<1>18. CASE OtherRefresh
  BY <1>18 DEF OtherRefresh, Refresh, handleVars, envVars
<1>19. CASE Cancel
  BY <1>19 DEF Cancel, dmVars, handleVars, envVars
<1>20. CASE InterfaceDown
  BY <1>20 DEF InterfaceDown, dmVars
<1>21. CASE InterfaceUp
  BY <1>21 DEF InterfaceUp, dmVars, handleVars
<1>22. CASE UNCHANGED vars
  BY <1>22 DEF vars, dmVars, handleVars, envVars
<1> QED
  BY <1>1, <1>2, <1>3, <1>4, <1>5, <1>6, <1>7, <1>8, <1>9, <1>10, <1>11, <1>12, <1>13,
     <1>14, <1>15, <1>16, <1>17, <1>18, <1>19, <1>20, <1>21, <1>22 DEF Next

\* The monitor sees the outage or it is missed, MonitorSeesUp turns what it has
\* seen into a signal, and ReadSignal takes that to the reconnect.
LEMMA TraceStep ==
    ASSUME NEW s, Sources = {s}, IInv(s), [Next]_vars
    PROVE  TraceInv(s)'
<1> USE DEF IInv, TypeOK, HandleInv, TraceInv, ReadsDead
<1>1. CASE CtxDone(s)
  BY <1>1 DEF CtxDone, Goto, dmVars, handleVars, envVars
<1>2. CASE ReadSignal(s)
  BY <1>2 DEF ReadSignal, Goto, dmVars, handleVars, envVars
<1>3. CASE ReadPacket(s)
  BY <1>3 DEF ReadPacket, dmVars, handleVars, envVars
<1>4. CASE ReadClosed(s)
  BY <1>4 DEF ReadClosed, Goto, dmVars, handleVars, envVars
<1>5. CASE CloseOld(s)
  BY <1>5 DEF CloseOld, CloseReader, envVars
<1>6. CASE DelayOver(s)
  BY <1>6 DEF DelayOver, Goto, dmVars, handleVars, envVars
<1>7. CASE CreateReaderHandle(s)
  BY <1>7, NoneAssumption DEF CreateReaderHandle, Install, FreshHandles, Held, dmVars,
     envVars
<1>8. CASE StoreReaderHandle(s)
  BY <1>8, NoneAssumption DEF StoreReaderHandle, Install, handleVars, envVars
<1>9. CASE CreateFails(s)
  BY <1>9 DEF CreateFails, dmVars, handleVars, envVars
<1>10. CASE Close(s)
  BY <1>10 DEF Close, CloseReader, Goto, envVars
<1>11. CASE MonitorTick(s)
  BY <1>11 DEF MonitorTick, Refresh, handleVars, envVars
<1>12. CASE MonitorSeesDown(s)
  BY <1>12 DEF MonitorSeesDown, dmVars, handleVars, envVars
<1>13. CASE MonitorSeesUp(s)
  BY <1>13 DEF MonitorSeesUp, dmVars, handleVars, envVars
<1>14. CASE MonitorDone(s)
  BY <1>14 DEF MonitorDone, dmVars, handleVars, envVars
<1>15. CASE Capture(s)
  BY <1>15 DEF Capture, dmVars, handleVars, envVars
<1>16. CASE ChannelCloses(s)
  BY <1>16, NoneAssumption DEF ChannelCloses, dmVars, handleVars, envVars
<1>17. CASE SetBPFFilter
  BY <1>17 DEF SetBPFFilter, dmVars, envVars
<1>18. CASE OtherRefresh
  BY <1>18 DEF OtherRefresh, Refresh, handleVars, envVars
<1>19. CASE Cancel
  BY <1>19 DEF Cancel, dmVars, handleVars, envVars
<1>20. CASE InterfaceDown
  BY <1>20 DEF InterfaceDown, dmVars
<1>21. CASE InterfaceUp
  BY <1>21 DEF InterfaceUp, dmVars, handleVars
<1>22. CASE UNCHANGED vars
  BY <1>22 DEF vars, dmVars, handleVars, envVars
<1> QED
  BY <1>1, <1>2, <1>3, <1>4, <1>5, <1>6, <1>7, <1>8, <1>9, <1>10, <1>11, <1>12, <1>13,
     <1>14, <1>15, <1>16, <1>17, <1>18, <1>19, <1>20, <1>21, <1>22 DEF Next

LEMMA InitShared == Init => TypeOK /\ ShareInv
<1> SUFFICES ASSUME Init PROVE TypeOK /\ ShareInv
  OBVIOUS
<1>1. source \in [Sources -> [at : SourcePoints, handle : Handles,
                             created : Handles \cup {None}, delay : Delays]]
  BY DelayType DEF Init, SourcePoints
<1>2. channel \in [Sources -> [packets : 0..Cap, closed : BOOLEAN]]
  BY BoundAssumption DEF Init, EmptyChannel
<1>3. monitor \in [Sources -> [at : MonitorPoints, wasDown : BOOLEAN]]
  BY DEF Init, MonitorPoints
<1>4. signal \in [Sources -> BOOLEAN]
  BY DEF Init
<1>5. outages \in 0..MaxOutages /\ opened \in Nat
  BY BoundAssumption DEF Init
<1>6. /\ reader \in Handles \cup {None}
      /\ open \subseteq Handles /\ dead \subseteq open /\ filtered \subseteq open
      /\ listed \in BOOLEAN /\ cancelled \in BOOLEAN
      /\ up \in BOOLEAN /\ missed \in BOOLEAN
  BY DEF Init
<1>7. ShareInv
  BY DEF Init, ShareInv
<1> QED
  BY <1>1, <1>2, <1>3, <1>4, <1>5, <1>6, <1>7 DEF TypeOK

LEMMA InitIInv ==
    ASSUME NEW s, Sources = {s}
    PROVE  Init => IInv(s)
<1> SUFFICES ASSUME Init PROVE IInv(s)
  OBVIOUS
<1>1. TypeOK
  BY InitShared
<1>2. HandleInv(s)
  BY NoneAssumption DEF Init, HandleInv
<1>3. CreditInv(s)
  BY DEF Init, CreditInv, Reconnecting, WillClose, WillSignal, One, EmptyChannel
<1>4. TraceInv(s)
  BY DEF Init, TraceInv, ReadsDead
<1> QED
  BY <1>1, <1>2, <1>3, <1>4 DEF IInv

LEMMA IInvStep ==
    ASSUME NEW s, Sources = {s}
    PROVE  IInv(s) /\ [Next]_vars => IInv(s)'
  BY AloneShares, TypeStep, HandleStep, CreditStep, TraceStep DEF IInv

LEMMA Shared == Spec => [](TypeOK /\ ShareInv)
<1>1. TypeOK /\ ShareInv /\ [Next]_vars => (TypeOK /\ ShareInv)'
  BY TypeStep, ShareStep
<1> QED
  BY <1>1, InitShared, PTL DEF Spec

THEOREM Invariance ==
    ASSUME NEW CONSTANT s, Sources = {s}
    PROVE  Spec => []IInv(s)
  BY InitIInv, IInvStep, PTL DEF Spec

-----------------------------------------------------------------------------
\* The sources of an interface keep the types of their parts, and what is
\* dead or filtered is open, however many sources share the one cached handle.
THEOREM TypeCorrect == Spec => []TypeOK
  BY Shared, PTL

\* No handle of a single source is left open out of reach of a reconnect and
\* of a shutdown, however often its interface goes and comes, and a closed
\* one holds none.
THEOREM NoLeak ==
    ASSUME NEW CONSTANT s, Sources = {s}
    PROVE  Spec => []NoReaderLeak
<1>1. IInv(s) => NoReaderLeak
  BY DEF IInv, HandleInv, NoReaderLeak
<1> QED
  BY <1>1, Invariance, PTL

\* A single source never reads from a handle that has been closed under it.
THEOREM ReadsOpenHandle ==
    ASSUME NEW CONSTANT s, Sources = {s}
    PROVE  Spec => []ReadsOwnHandle
<1>1. IInv(s) => ReadsOwnHandle
  BY NoneAssumption DEF IInv, TypeOK, HandleInv, ReadsOwnHandle
<1> QED
  BY <1>1, Invariance, PTL

\* Each outage costs a single source at most two new handles, whatever the
\* monitor, the capture goroutine and the retries do in which order.
THEOREM BoundedReconnects ==
    ASSUME NEW CONSTANT s, Sources = {s}
    PROVE  Spec => []ReconnectsAreBounded
<1>1. IInv(s) => ReconnectsAreBounded
  BY DEF IInv, TypeOK, CreditInv, ReconnectsAreBounded, Reconnecting, WillClose, WillSignal, One
<1> QED
  BY <1>1, Invariance, PTL

\* No order of outages, refreshes, signals and retries makes a single source
\* forget that its handle died, unless the outage was too short to be seen:
\* the part of RecoversFromOutage that does not depend on the scheduler.
THEOREM NoLostSignal ==
    ASSUME NEW CONSTANT s, Sources = {s}
    PROVE  Spec => []OutageLeavesTrace
<1>1. IInv(s) => OutageLeavesTrace
  BY DEF IInv, TraceInv, ReadsDead, OutageLeavesTrace
<1> QED
  BY <1>1, Invariance, PTL
=============================================================================
