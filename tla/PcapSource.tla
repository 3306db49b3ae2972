-------------------------- MODULE PcapSource --------------------------
(***************************************************************************)
(* stages.PcapSource on one interface, with the part of DeviceManager it   *)
(* uses: the cached reader handle of the interface and the list of the     *)
(* interfaces that exist.  For each source there are the goroutine of its  *)
(* pipeline, which calls Read until ctx is cancelled and then Close, the   *)
(* goroutine of gopacket that captures into the source's channel, and the  *)
(* monitor that asks for a reconnect when the interface was away.          *)
(*                                                                         *)
(* Sources has one element unless the interface is configured twice.       *)
(***************************************************************************)
EXTENDS Backoff, FiniteSets

CONSTANTS
    Sources,        \* the PcapSources on the interface
    Handles,        \* pcap handles the system can give out
    None,           \* nil
    Cap,            \* capacity of a packet channel (1000 in gopacket)
    MaxOutages      \* bound of the model: how often the interface goes away

ASSUME BoundAssumption ==
    Cap \in Nat \ {0} /\ MaxOutages \in Nat
ASSUME NoneAssumption == None \notin Handles

VARIABLES
    reader,     \* dm.handles["<iface>:read"], or None
    listed,     \* the interface is in dm.interfaces
    source,     \* each source: point in Run, Read and reconnect; s.handle;
                \* the handle local of CreateReaderHandle; the delay
    channel,    \* each source's s.packets: packets in it, is it closed
    signal,     \* each source's s.reconnectSignal holds a signal
    monitor,    \* each source's monitor: its point, and interfaceWasDown
    cancelled,  \* the ctx that Run passes to Read is cancelled
    open,       \* external: the open pcap handles of the interface
    dead,       \* external: those whose interface has gone since
    filtered,   \* external: those with the BPF filter installed
    up,         \* external: the interface exists and has an address
    outages,    \* history: times the interface went away
    missed,     \* history: the last outage was over before a monitor saw it
    opened      \* history: reader handles opened

dmVars     == <<reader, listed>>
handleVars == <<open, dead, filtered>>
envVars    == <<up, outages, missed>>
vars == <<dmVars, source, channel, signal, monitor, cancelled, handleVars,
          envVars, opened>>

SourcePoints == {"setup", "select", "closeOld", "wait", "lookup", "store",
                 "returned", "closed"}
MonitorPoints == {"tick", "look", "stopped"}

EmptyChannel == [packets |-> 0, closed |-> FALSE]

TypeOK ==
    /\ reader \in Handles \cup {None}
    /\ listed \in BOOLEAN
    /\ source \in [Sources -> [at : SourcePoints, handle : Handles,
                               created : Handles \cup {None}, delay : Delays]]
    /\ channel \in [Sources -> [packets : 0..Cap, closed : BOOLEAN]]
    /\ signal \in [Sources -> BOOLEAN]
    /\ monitor \in [Sources -> [at : MonitorPoints, wasDown : BOOLEAN]]
    /\ cancelled \in BOOLEAN
    /\ open \subseteq Handles /\ dead \subseteq open /\ filtered \subseteq open
    /\ up \in BOOLEAN
    /\ outages \in 0..MaxOutages
    /\ missed \in BOOLEAN
    /\ opened \in Nat

\* A handle that libpcap can return: one that nobody holds.
Held == {source[s].handle : s \in Sources} \cup {source[s].created : s \in Sources}
FreshHandles == Handles \ (open \cup Held)

\* The interface is up; NewPcapSource has opened a handle (a second source
\* on the interface got the cached one), captures into a channel and has
\* started the monitor.
Init ==
    /\ reader \in Handles
    /\ listed = TRUE
    /\ source = [s \in Sources |-> [at |-> "setup", handle |-> reader,
                                    created |-> None, delay |-> InitialDelay]]
    /\ channel = [s \in Sources |-> EmptyChannel]
    /\ signal = [s \in Sources |-> FALSE]
    /\ monitor = [s \in Sources |-> [at |-> "tick", wasDown |-> FALSE]]
    /\ cancelled = FALSE
    /\ open = {reader} /\ dead = {} /\ filtered = {}
    /\ up = TRUE /\ outages = 0 /\ missed = FALSE
    /\ opened = 1

Goto(s, point) == source' = [source EXCEPT ![s].at = point]

\* Faulty variant: the handle leaves the cache without being closed.
ForgetReader ==
    /\ reader' = None
    /\ UNCHANGED <<listed, handleVars>>

\* pcap.Handle.Close of the cached reader handle and its removal: dm.Close.
\* Without a cached handle it only returns an error, which is ignored.
CloseReader ==
    /\ reader' = None
    /\ open' = open \ {reader}
    /\ dead' = dead \ {reader}
    /\ filtered' = filtered \ {reader}
    /\ UNCHANGED listed

-----------------------------------------------------------------------------
(* The pipeline of the source *)

\* setupInterfacePipeline installs the filter, after the capture has begun;
\* the pipelines run once all of them are set up.
SetBPFFilter ==
    /\ \A s \in Sources : source[s].at = "setup"
    /\ filtered' = {reader}
    /\ source' = [s \in Sources |-> [source[s] EXCEPT !.at = "select"]]
    /\ UNCHANGED <<dmVars, channel, signal, monitor, cancelled, open, dead, envVars, opened>>

\* Faulty variant: reconnect does not look at ctx.
CtxDoneInRead(s) ==
    /\ source[s].at = "select"
    /\ cancelled
    /\ Goto(s, "returned")
    /\ UNCHANGED <<dmVars, channel, signal, monitor, cancelled, handleVars, envVars, opened>>

\* case <-ctx.Done(), in Read and in reconnect: Run is about to close.
CtxDone(s) ==
    /\ source[s].at \in {"select", "wait"}
    /\ cancelled
    /\ Goto(s, "returned")
    /\ UNCHANGED <<dmVars, channel, signal, monitor, cancelled, handleVars, envVars, opened>>

\* case <-reconnectSignal
ReadSignal(s) ==
    /\ source[s].at = "select"
    /\ signal[s]
    /\ signal' = [signal EXCEPT ![s] = FALSE]
    /\ Goto(s, "closeOld")
    /\ UNCHANGED <<dmVars, channel, monitor, cancelled, handleVars, envVars, opened>>

\* case p, ok := <-s.packets, with a packet: the pipeline forwards it.
ReadPacket(s) ==
    /\ source[s].at = "select"
    /\ channel[s].packets > 0
    /\ channel' = [channel EXCEPT ![s].packets = @ - 1]
    /\ UNCHANGED <<dmVars, source, signal, monitor, cancelled, handleVars, envVars, opened>>

\* case p, ok := <-s.packets, when the channel is closed and drained.
ReadClosed(s) ==
    /\ source[s].at = "select"
    /\ channel[s] = [packets |-> 0, closed |-> TRUE]
    /\ Goto(s, "closeOld")
    /\ UNCHANGED <<dmVars, channel, signal, monitor, cancelled, handleVars, envVars, opened>>

\* reconnect: close the old handle.
CloseOld(s) ==
    /\ source[s].at = "closeOld"
    /\ CloseReader
    /\ source' = [source EXCEPT ![s].at = "wait", ![s].delay = InitialDelay]
    /\ UNCHANGED <<channel, signal, monitor, cancelled, envVars, opened>>

\* reconnect: case <-time.After(delay); select may take it when ctx is done too.
DelayOver(s) ==
    /\ source[s].at = "wait"
    /\ Goto(s, "lookup")
    /\ UNCHANGED <<dmVars, channel, signal, monitor, cancelled, handleVars, envVars, opened>>

\* reconnect: the new handle becomes the source's, with a new channel.
Install(s, h) ==
    /\ source' = [source EXCEPT ![s].at = "select", ![s].handle = h, ![s].created = None]
    /\ channel' = [channel EXCEPT ![s] = EmptyChannel]

\* CreateReaderHandle: a cached handle is used; otherwise one is opened, to
\* be stored in the cache by a later step.
CreateReaderHandle(s) ==
    /\ source[s].at = "lookup"
    /\ IF reader # None
       THEN Install(s, reader) /\ UNCHANGED <<open, opened>>
       ELSE /\ up
            /\ \E h \in FreshHandles :
                 /\ open' = open \cup {h}
                 /\ source' = [source EXCEPT ![s].at = "store", ![s].created = h]
            /\ opened' = opened + 1
            /\ UNCHANGED channel
    /\ UNCHANGED <<dmVars, signal, monitor, cancelled, dead, filtered, envVars>>

\* Faulty variant: the new handle is not cached.
StoreNothing(s) ==
    /\ source[s].at = "store"
    /\ Install(s, source[s].created)
    /\ UNCHANGED <<dmVars, signal, monitor, cancelled, handleVars, envVars, opened>>

\* Faulty variant: reconnect drops the signals that came in while it was busy.
StoreAndDrain(s) ==
    /\ source[s].at = "store"
    /\ reader' = source[s].created
    /\ Install(s, source[s].created)
    /\ signal' = [signal EXCEPT ![s] = FALSE]
    /\ UNCHANGED <<listed, monitor, cancelled, handleVars, envVars, opened>>

\* CreateReaderHandle: the new handle is cached and reconnect returns.
StoreReaderHandle(s) ==
    /\ source[s].at = "store"
    /\ reader' = source[s].created
    /\ Install(s, source[s].created)
    /\ UNCHANGED <<listed, signal, monitor, cancelled, handleVars, envVars, opened>>

\* CreateReaderHandle fails, with or without the interface: reconnect backs
\* off and tries again.
CreateFails(s) ==
    /\ source[s].at = "lookup"
    /\ reader = None
    /\ source' = [source EXCEPT ![s].at = "wait", ![s].delay = NextDelay(@)]
    /\ UNCHANGED <<dmVars, channel, signal, monitor, cancelled, handleVars, envVars, opened>>

\* PcapSource.Close, called by Run on its way out; it also cancels the monitor.
Close(s) ==
    /\ source[s].at = "returned"
    /\ CloseReader
    /\ Goto(s, "closed")
    /\ UNCHANGED <<channel, signal, monitor, cancelled, envVars, opened>>

-----------------------------------------------------------------------------
(* The interface monitor of the source *)

\* dm.Refresh.  If the system cannot list its interfaces nothing changes.
Refresh ==
    /\ listed' \in {listed, up}
    /\ UNCHANGED reader

\* case <-ticker.C: InterfaceAvailable refreshes the list ...
MonitorTick(s) ==
    /\ monitor[s].at = "tick"
    /\ Refresh
    /\ monitor' = [monitor EXCEPT ![s].at = "look"]
    /\ UNCHANGED <<source, channel, signal, cancelled, handleVars, envVars, opened>>

\* ... and looks the interface up: it is away ...
MonitorSeesDown(s) ==
    /\ monitor[s].at = "look"
    /\ ~listed
    /\ monitor' = [monitor EXCEPT ![s] = [at |-> "tick", wasDown |-> TRUE]]
    /\ UNCHANGED <<dmVars, source, channel, signal, cancelled, handleVars, envVars, opened>>

\* Faulty variant: the monitor does not reset interfaceWasDown.
MonitorStaysDown(s) ==
    /\ monitor[s].at = "look"
    /\ listed
    /\ monitor' = [monitor EXCEPT ![s].at = "tick"]
    /\ signal' = [signal EXCEPT ![s] = @ \/ monitor[s].wasDown]
    /\ UNCHANGED <<dmVars, source, channel, cancelled, handleVars, envVars, opened>>

\* Faulty variant: the monitor resets interfaceWasDown before it looks at it.
MonitorForgetsOutage(s) ==
    /\ monitor[s].at = "look"
    /\ listed
    /\ monitor' = [monitor EXCEPT ![s] = [at |-> "tick", wasDown |-> FALSE]]
    /\ UNCHANGED <<dmVars, source, channel, signal, cancelled, handleVars, envVars, opened>>

\* ... or there, and if it was away the source is told to reconnect (a
\* signal that is still pending absorbs the new one).
MonitorSeesUp(s) ==
    /\ monitor[s].at = "look"
    /\ listed
    /\ monitor' = [monitor EXCEPT ![s] = [at |-> "tick", wasDown |-> FALSE]]
    /\ signal' = [signal EXCEPT ![s] = @ \/ monitor[s].wasDown]
    /\ UNCHANGED <<dmVars, source, channel, cancelled, handleVars, envVars, opened>>

\* case <-ctx.Done(), of the monitor's own context.
MonitorDone(s) ==
    /\ monitor[s].at = "tick"
    /\ source[s].at = "closed"
    /\ monitor' = [monitor EXCEPT ![s].at = "stopped"]
    /\ UNCHANGED <<dmVars, source, channel, signal, cancelled, handleVars, envVars, opened>>

-----------------------------------------------------------------------------
(* The rest of the program, and the system *)

\* The monitor of another interface refreshes the shared list.
OtherRefresh ==
    /\ Refresh
    /\ UNCHANGED <<source, channel, signal, monitor, cancelled, handleVars, envVars, opened>>

Cancel ==
    /\ ~cancelled
    /\ cancelled' = TRUE
    /\ UNCHANGED <<dmVars, source, channel, signal, monitor, handleVars, envVars, opened>>

\* gopacket's goroutine puts a captured packet into the channel.
Capture(s) ==
    /\ source[s].handle \in open \ dead
    /\ ~channel[s].closed
    /\ channel[s].packets < Cap
    /\ channel' = [channel EXCEPT ![s].packets = @ + 1]
    /\ UNCHANGED <<dmVars, source, signal, monitor, cancelled, handleVars, envVars, opened>>

\* It closes the channel when its handle is closed.  When the interface has
\* gone it may do so too; for most read errors it just tries again.
ChannelCloses(s) ==
    /\ source[s].handle \notin open \ dead
    /\ ~channel[s].closed
    /\ channel' = [channel EXCEPT ![s].closed = TRUE]
    /\ UNCHANGED <<dmVars, source, signal, monitor, cancelled, handleVars, envVars, opened>>

\* The interface goes away, and every handle on it is dead for good.
InterfaceDown ==
    /\ up /\ outages < MaxOutages
    /\ up' = FALSE
    /\ outages' = outages + 1
    /\ dead' = open
    /\ UNCHANGED <<dmVars, source, channel, signal, monitor, cancelled, open, filtered, missed, opened>>

\* It comes back, perhaps before the monitors, which look once a second,
\* have seen it away.
InterfaceUp ==
    /\ ~up
    /\ up' = TRUE
    /\ missed' = \E s \in Sources : ~monitor[s].wasDown /\ monitor[s].at # "stopped"
    /\ UNCHANGED <<dmVars, source, channel, signal, monitor, cancelled, handleVars, outages, opened>>

Next ==
    \/ \E s \in Sources :
         \/ CtxDone(s) \/ ReadSignal(s) \/ ReadPacket(s)
         \/ ReadClosed(s) \/ CloseOld(s) \/ DelayOver(s)
         \/ CreateReaderHandle(s) \/ StoreReaderHandle(s) \/ CreateFails(s)
         \/ Close(s)
         \/ MonitorTick(s) \/ MonitorSeesDown(s) \/ MonitorSeesUp(s)
         \/ MonitorDone(s)
         \/ Capture(s) \/ ChannelCloses(s)
    \/ SetBPFFilter \/ OtherRefresh \/ Cancel
    \/ InterfaceDown \/ InterfaceUp

Spec == Init /\ [][Next]_vars

(***************************************************************************)
(* Fairness.  A running goroutine goes on and a timer fires (WF).  select  *)
(* chooses at random among its ready cases, so one that is ready again and *)
(* again is taken (SF), and an open that is tried again and again while    *)
(* the interface is there succeeds.  Listing the interfaces does so, too:  *)
(* the SF on a MonitorTick that brings the list up to date.  Neither       *)
(* packets, nor closed channels of dead handles, nor the end of an outage  *)
(* are owed to anybody, and ctx need not be cancelled.                     *)
(***************************************************************************)
Fairness ==
    /\ WF_vars(SetBPFFilter)
    /\ \A s \in Sources :
        /\ SF_vars(CtxDone(s))
        /\ SF_vars(ReadSignal(s))
        /\ SF_vars(ReadClosed(s))
        /\ WF_vars(CloseOld(s))
        /\ WF_vars(DelayOver(s))
        /\ WF_vars(CreateReaderHandle(s) \/ CreateFails(s))
        /\ SF_vars(CreateReaderHandle(s))
        /\ WF_vars(StoreReaderHandle(s))
        /\ WF_vars(Close(s))
        /\ SF_vars(MonitorTick(s) /\ listed' = up)
        /\ WF_vars(MonitorSeesDown(s) \/ MonitorSeesUp(s))
        /\ SF_vars(MonitorDone(s))

FairSpec == Spec /\ Fairness

-----------------------------------------------------------------------------
(* Properties *)

\* Every open reader handle is cached or about to be, so a reconnect or a
\* shutdown finds and closes it: however often the interface flaps, no
\* capture is left running behind.  Closed sources have left none at all.
NoReaderLeak ==
    /\ \A h \in open : h = reader \/ \E s \in Sources : h = source[s].created
    /\ (\A s \in Sources : source[s].at = "closed") => open = {}

\* A source that is reading reads from the handle the DeviceManager has
\* cached, and nobody has closed that handle under it.
ReadsOwnHandle ==
    \A s \in Sources : source[s].at = "select" =>
        source[s].handle = reader /\ reader \in open

\* An outage can be noticed twice, by the closed channel and by the monitor,
\* but never more: the source does not reopen a healthy capture over and over.
ReconnectsAreBounded == opened <= 1 + 2 * outages

\* An outage is not forgotten before the source has reconnected: if it reads
\* from a handle that died and the interface is there again, it will be told,
\* however signals, retries and further outages have crossed.  Only an outage
\* that was over before the monitor saw it may leave no trace.
OutageLeavesTrace ==
    \A s \in Sources : source[s].at = "select" /\ source[s].handle \in dead /\ up =>
        signal[s] \/ monitor[s].wasDown \/ missed

\* If the interface stays up from some point on, no source keeps waiting for
\* packets on a handle that died in an outage, unless ctx is cancelled.  Only
\* an outage that was over before the monitor saw it may leave no trace: then
\* the source stays on the dead handle until the next outage.
RecoversFromOutage ==
    <>[]up => \A s \in Sources : source[s].handle \in dead ~>
        source[s].handle \in open \ dead \/ cancelled \/ missed

\* After cancellation the pipeline and the monitor both end.
StopsWhenCancelled ==
    cancelled ~> \A s \in Sources :
        source[s].at = "closed" /\ monitor[s].at = "stopped"

-----------------------------------------------------------------------------
\* What the documentation says of the capture: packets are restricted to the
\* given ports and to the networks of the interface whenever the source reads.
CaptureIsFiltered ==
    \A s \in Sources : source[s].at = "select" => source[s].handle \in filtered

\* What the comment of reconnect says: it closes the stale handle before it
\* opens a fresh one, so the handle a source leaves is not open any more.
StaleHandleIsClosed ==
    [][\A s \in Sources : source'[s].handle # source[s].handle =>
           source[s].handle \notin open']_vars
=============================================================================
