# A verification of udp-proxy-2020

udp-proxy-2020 listens for UDP packets on two or more network interfaces and
repeats each packet on the other interfaces, so that programs that find each
other by broadcast also do so across LANs and tunnels. This directory holds TLA+ models of
the program's core, the TLC configurations that check them, and
proofs that TLAPS checks. File names below are relative to the root of the
repository; `stages/` is short for `internal/proxy/stages/`.

1. The system
2. The modules
3. What each run checks
4. Bounds
5. Fairness
6. What is proved
7. Where the code and its documentation disagree
8. Sensitivity: faulty variants
9. What is not modelled
10. Plan

## 1. The system

`main` (`cmd/udp-proxy-2020/main.go`) builds, for every interface, a `Pipeline`
that reads from a `PcapSource`, filters, learns the sender into one
`RegistryProcessor` that all pipelines share, and writes to one `RouteSink` per other
interface. Each `RouteSink` has its own `TransmitterSink`, that is, its own pcap
handle for injecting frames. Several kinds of goroutine meet in shared
state: one per pipeline, one interface monitor per source, reconnect
loops of the transmitters, one that cleans the registry once a minute, and
UDP listeners that discard what they read.

```
           +------------------ pipeline of interface i ------------------+
 libpcap ->| PcapSource -> Filter -> [Decode] -> RegistryLearner -> Route |-> TransmitterSink(j) -> libpcap
   ^       |     ^                                  |            Sink(j) |        |
   |       +-----|----------------------------------|---------------|----+        | reconnectLoop
   |     interface monitor                          v               v             v
   +--- DeviceManager (reader cache,        RegistryProcessor <- cleanup    DeviceManager
        interface list)                      (all interfaces)    ticker     (isolated writers)
```

| Component (source) | State | Operations | Hard behaviour | What makes it correct |
|---|---|---|---|---|
| `TransmitterSink` (`stages/transmitter.go`) | writer handle, `reconnecting`, mutex, ctx | `Write`, `Close`, `reconnectLoop` | a write fails while somebody closes; a reconnect ends while somebody closes; endless retry | no write on a closed handle, one loop per outage, no leaked handle, recovery, no revival after `Close` |
| `PcapSource` (`stages/pcap_source.go`) | handle, packet channel, `reconnectSignal`, monitor | `Read`, `reconnect`, `Close`, monitor tick | an outage is noticed twice, or not at all; the select chooses; cancellation in the middle of a reconnect | the reader reads from its own open handle, handles are closed, reconnects are bounded, recovery, shutdown |
| `DeviceManager` (`internal/proxy/device_manager.go`) | interface list, handle cache, RW mutex | `Refresh`, `InterfaceAvailable`, `CreateReaderHandle`, `CreateIsolatedWriterHandle`, `Close`, `CloseHandles`, getters | look-up and store are two critical sections; errors of `Refresh` are ignored | every open reader handle is in the cache, an interface has one |
| `RegistryProcessor` (`stages/registry.go`) | `clients` by interface and IP text, RW mutex | `ProcessForInterface`, `Cleanup`, `GetClientsForInterface` | several learners, a cleaner and readers; the zero time is a marker; expiry at a boundary | hosts are remembered for the TTL, then forgotten; fixed IPs for ever |
| `RouteSink` (`stages/route_sink.go`) | none of its own | `Write`, `targetsForPacket`, `writeToTarget`, `Close` | works on a copy of the table; one target fails | each known client gets the packet; broadcast only if nobody is known |
| rewrite (`internal/proxy/rewrite/rewrite.go`) | none | `PacketForEgress` | which packets cannot be rewritten | addresses of the frame |
| `Pipeline` (`internal/proxy/pipeline.go`) | source, processors, sinks | `Run`, `closeAll` | errors of a stage, nested stages, a shared output; order of shutdown | every sink is offered the packet; everything is closed once; `Run` ends |
| `FilterProcessor` (`stages/filter.go`) | none | `Process` | - | only UDP over IPv4 goes on |
| wiring (`cmd/udp-proxy-2020/main.go`) | pipelines, registries | `setupPipelines`, `attachCrossInterfaceSinks`, cleanup ticker | setup fails half way; interfaces come and go meanwhile; duplicate interfaces; exit status | it runs completely or not at all; every pair of interfaces has its routes; fixed IPs are served |
| UDP listeners (`cmd/udp-proxy-2020/listener.go`) | sockets | read and discard | one that cannot be opened; one that ends | keeps the host from answering with ICMP errors on every interface |
| `PacketBus`, `ForwardingSink` (`internal/proxy/bus.go`, `stages/forwarding.go`) | subscriptions, RW mutex | `Subscribe`, `Unsubscribe`, `Publish` | a send while a subscription changes; a full channel | order, quiet after `Unsubscribe`, no call hangs (unused by `main`) |
| `DecodeProcessor`, `PcapFileSink` (`stages/`) | output, `decodeOutputMu` | print, store | one mutex for all pipelines; output errors drop a packet | no pipeline blocks another |
| `config` (`internal/config/utils.go`), CLI | none | BPF filter, parsing | which networks a filter lets through | the filter outlives the handle |
| `TransformProcessor`, graph output, types | none | formatting | - | - |

Interactions: a pipeline calls its processors and sinks synchronously, so a
pipeline handles one packet at a time. Components of different interfaces meet
only in `RegistryProcessor` (under its RW mutex) and `DeviceManager` (under its
own). A monitor talks to its source through `reconnectSignal`, a channel of
capacity one; gopacket talks to the source through the packet channel. `Write` of
a transmitter starts `reconnectLoop`, which comes back through the sink's mutex.

The hazards of this code, each with the line where it bites and the
properties that cover it, are listed in `PROJECT.json` under `hazards`.

## 2. The modules

| Module | Models | Uses |
|---|---|---|
| `Backoff` | the retry delay of both reconnect loops | |
| `Transmitter` | `TransmitterSink` and its goroutines | `Backoff`, `Link` |
| `TransmitterProofs` | theorems about `Transmitter` | |
| `Registry` | `RegistryProcessor` and the cleanup ticker | |
| `RegistryProofs` | theorems about `Registry` | |
| `Rewrite` | `PacketForEgress` | |
| `Forwarding` | pipelines, route sinks and the shared table | `Rewrite`, `Registry` |
| `ForwardingProofs` | theorems about `Forwarding` | `RegistryProofs` |
| `PcapSource` | `PcapSource`, its monitor, the reader cache of `DeviceManager` | `Backoff` |
| `PcapSourceProofs` | theorems about `PcapSource` | |
| `Link` | what a `TransmitterSink` promises: abstract | |
| `Pipeline` | `Pipeline.Run`, the stages of a `RouteSink`, `DecodeProcessor`, `closeAll` | |
| `PipelineProofs` | theorems about `Pipeline` | |
| `Startup` | `main`: arguments, set-up, wiring, listeners, exit | |
| `StartupProofs` | theorems about `Startup` | |
| `Bus` | `PacketBus` and `ForwardingSink` | |
| `BusProofs` | theorems about `Bus` | |
| `MC...` | instances for TLC | |

**Transmitter.** The sink's fields are `writer`, `reconnecting`, `cancelled`
(of `ctx`) and `mu`. Every critical section is one action taken while `mu` is
free, except that of `Write`: `Write` keeps the mutex during the pcap call, so it is two steps,
`WriteBegin` and `WriteOK` or `WriteFail`, and `mu` names the caller in between.
`Close` is three steps, since it cancels before and closes the handle after its
critical section. `reconnectLoop` has a program point for its select, its open and its
critical section; when ctx is done and the timer has fired, either case of the select may be
taken. `open` is what libpcap has open, `up` whether the interface can be opened. A
write or an open may fail whether the interface is up or not, as with a frame that is too
long or an unsupported link type, and cannot succeed while it is away.

**Link** is the abstract specification of a sink: packets go out one at a time, a
lost packet takes the link down, a repair brings it back, a closed link goes down
for good and never under a packet. The refinement mapping `L` of `Transmitter` reads `linked` as
`writer # None`, `closing` as `cancelled` and `sender` as `mu`; handles, loops and delays
are not seen.

**Registry.** `clients` is a function on pairs of interface and *text*, because the
code's key is text: a fixed IP is entered under the argument as it was written,
a learned client under the canonical spelling. `ParseIP` and `IPString` are the
two conversions. Each operation is one step, as in the code it is one critical
section. `now` and `nextTick` are the clock and the cleanup ticker: a tick
that is due is handled before time goes on. `heard` is a history variable for
the properties.

**Rewrite, Forwarding.** A pipeline's step is one call that reads or writes shared state:
`ReadAndLearn` (read, filter, learn), `Route` (`targetsForPacket` takes a copy
of the clients), and for every target `WriteToTarget` or
`RewriteFails`. Between these steps all other pipelines, the cleanup and the clock go on. The
table is `INSTANCE Registry`, whose operations are the only ones the data path has on it. The
processors of a route are in `Pipeline`. A packet's ports and payload
are left out, since no decision depends on them. The transmitter takes every frame: its
`Write` returns nil in every case, so an outage never disturbs the route; what
happens to the frame then is the matter of `Transmitter`.

**PcapSource.** `source` holds the pipeline's point in `Run`, `Read` and `reconnect`; the
select of `Read` is an action per case. `reader` is the cache entry of
`DeviceManager` and `listed` its interface list. `CreateReaderHandle` looks up the
cache and opens a handle in one step and stores it in another, as the code's two
critical sections do. An outage kills every open handle (`dead`) for good. gopacket's
goroutine (`Capture`, `ChannelCloses`) may close the channel of a dead
handle, and need not: for most read errors it tries again for ever.
`Sources` may have several members: they are then sources of one interface, which
share its cache entry. `missed` is a history variable: the last outage was over before a monitor had
looked.

**Pipeline.** `run` is each pipeline's place: the stages the packet has yet to see and, while it is
in a `RouteSink`, the targets left and the stages the current copy has yet to see.
One step is one call of a stage, with each outcome the code tells apart: a processor keeps or stops the packet,
a sink's error is logged and nothing else, a target that cannot be rewritten is skipped. Inbound and
outbound `DecodeProcessor`s of all pipelines hold the one mutex `output` while they write.
The stages are constants: `Processors` and `Sinks` give those of the pipeline itself (`Main`) and of each route.
When `Run` closes, what is left of them is what `closeAll` has yet to close, and, while it is in a
`RouteSink`, what `RouteSink.Close` has. Where `Forwarding` says who
gets which frame, this module says what failures and shutdown do to the chain.

**Startup.** `main` from `parseArgs` to `wg.Wait`, a step per place where something outside can change
the outcome: the list of interfaces (`listed`, refreshed by the monitors of the
sources that are there already), the interfaces themselves (`present`), or an error. A
return from `main` has exit status 0, `os.Exit(1)` has status 1. `listed` holds interfaces that have
an address, `present` all that exist: opening a handle needs no address. `built` is what the process
holds and loses when it ends; `routes` connects positions rather than names, since an
interface can be set up twice. The BPF filter belongs to a handle and is in `PcapSource`. `Restart` is systemd with the unit in `startup-scripts/`.

**Bus.** `Publish` holds the read lock while it goes over the map, and a send is one step;
`Subscribe` and `Unsubscribe` announce themselves (`pending`), which
stops new readers, wait for the readers that are there, and change the map. That is
how `sync.RWMutex` works, and what `QuietAfterUnsubscribe` and `CallsReturn` rest on.

## 3. What each run checks

Run a configuration with `tlc -config X.cfg M`.

**transmitter** (`MCTransmitter.tla`, `MCTransmitter.cfg`). Three goroutines write to and close one
sink while the interface comes and goes. It shows that no
interleaving of writes, closes and reconnects writes to a closed handle
(`WriteOnOpenHandle`) or closes one that is still referred to, and that until `Close` no handle is
lost (`HandlesAreOwned`); that an outage has exactly one reconnect loop (`OutageHasOneLoop`); that
a late reconnect does not revive a closed sink (`NoInstallAfterCancel`); that the sink recovers if the interface stays up
(`WriterRecovers`), that loops end after `Close` (`LoopsExit`), and that the sink implements the
abstract link (`LinkSpec`), whatever goes on behind it.

**registry** (`MCRegistry.tla`). Every order of packets, ticks and instants, over two
interfaces; hosts may be heard on both. `RememberedForTTL` and `ForgottenInTime` bound
the life of an entry from both sides against the history of what was heard, not against
the entry itself; `LearnedIsLatest` says that interfaces do not mix;
`FixedForever` that neither packets nor time touch a fixed IP.

**forwarding** (`MCForwarding.tla`). Three interfaces route at the same time, with an Ethernet
LAN, a tunnel with fixed IPs (one of them IPv6, which cannot be rewritten), and an
Ethernet with a silent fixed IP. `RememberedClientsAreServed` says who must get a
packet whatever happens to the table in the meantime, `NoFrameToForgotten` who must not,
`FixedAlwaysServed` that fixed IPs are served beside learned clients,
`BroadcastOnlyWhenAlone` when a segment may be flooded, and `SilentSegmentIsFlooded` when it must be: an entry that has
expired must not keep the broadcast from a segment where nobody has been heard for the TTL and a cleanup
period, or the hosts there would never hear of the others again.

**pcap_source** (`MCPcapSource.tla`, `MCPcapSource.cfg`). A source through two outages of any length,
short ones that nobody notices included, and a cancellation at any point. No handle is leaked
or kept by a closed source (`NoReaderLeak`), none is closed under the reader (`ReadsOwnHandle`),
an outage costs at most two reconnects (`ReconnectsAreBounded`; two do occur, one for the closed channel
and one for the monitor's signal), the source does not stay on a handle that died
(`RecoversFromOutage`), since as long as it reads from one while the interface is there a signal is
on its way (`OutageLeavesTrace`), and after cancellation pipeline and monitor end
(`StopsWhenCancelled`). Recovery excepts only an outage the monitor missed: it looks once a second, and libpcap
need not report the loss, so that the source may then wait on the dead handle until the next outage.

**bus** (`MCBus.tla`). Two interfaces publish, each with two channels it may subscribe in turn, and
nobody has to receive. Messages of one publisher keep their order and are not doubled (`InOrder`);
a channel that was given up gets nothing more, not even from a `Publish` under way
(`QuietAfterUnsubscribe`: its owner may close it, and a send would then panic); no interface gets its own packets back (`TypeOK`); every call returns
although channels are full and nobody empties them (`CallsReturn`), whatever calls cross.

**pipeline** (`MCPipeline.tla`). Two pipelines with every stage the options can add, two routes with nested
stages, packets with up to two targets, and any stage failing at any time. A failure
costs no other sink the packet (`NoSinkIsStarved`), and closing gets to every sink once
(`ClosedExactlyOnce`); the mutex of the decoders blocks nobody for good, so that every `Run` ends after
cancellation (`RunEnds`).

**startup** (`MCStartup.tla`). A LAN, a tunnel and the loopback interface come and go while the
proxy is set up for a set of command lines, good and bad ones. If it runs, it has every
pipeline and every route, and as many as belong to an interface that is set up
twice (`RunningIsComplete`); each interface got its try at a listener
(`EveryListenerIsTried`); and fixed IPs are on interfaces that run (`FixedIPsAreActive`), as far as the host has one loopback interface.

**transmitter_close**, **deliver_local**, **pcap_filter**,
**pcap_two_sources** and **startup_restart** each show one disagreement between code and documentation; see section 7.

The registry, forwarding and source runs turn deadlock checking off, because their models end where a bound is reached: time stops
at `MaxTime`, and a closed source with all its outages behind it has nothing left to do.
The others check for deadlock.

## 4. Bounds

| Bound | Value | Why it is enough |
|---|---|---|
| `Callers` | 3 | the mutex is contended by a writer, a second writer, a closer, and a loop |
| `Loops` | 2 | a second loop in one outage would be seen; `OneLoopInv` is proved for every number |
| `Handles` (transmitter) | 5 | the writer, one held by each `Close`, one held by a loop, one to open |
| `MaxDelay` | 3 | the doubling 1, 2, 4 passes the maximum, as 16, 32 passes 30 |
| `TTL`, `Period`, `MaxTime` (registry) | 2, 2, 8 | instants on, before and after a tick; three cleanups; the TTL ends between ticks and on one |
| `TTL`, `Period`, `MaxTime` (forwarding) | 1, 1, 4 | a client is learned, expires, and a packet is routed after that: heard at 1, swept at 3 at the latest, routed at 4, as `SilentSegmentIsFlooded` needs |
| `IPs`, `Ifaces`, `Hosts` | 2 to 6, 2 to 3 | a known client and none, fixed and learned together, equal address on two interfaces |
| `MaxOutages` | 2 | an outage in the middle of the repair of another |
| `Cap` (source) | 1 | a channel that is full or empty; capacity is 1000 in gopacket, and what is in it does not matter |
| `Handles` (source) | 2 or 3 | the old one and the new one, and with two sources one more |
| `Interfaces`, `Generations`, `Cap` (bus) | 2, 2, 2 | a publisher and a subscriber in both roles, a channel given up for another, a channel full, empty and neither; order and silence are proved for every number |
| `MaxPublished` | 3 | one message more than a channel holds |
| `Pipelines`, `MaxTargets` | 2, 2 | two wait for one mutex; no target, one, and one after a failure |
| `Processors`, `Sinks` | 4 stages, 2 routes | each kind of stage, a route before and after another, nested stages in both |
| `Devices` | 3 | interface, tunnel and loopback, which may be configured twice; `StartupProofs` has any number |

The bounds on time, outages, publications and targets are guards of `Tick`, `InterfaceDown`, `PublishBegin` and
`Route` only.

## 5. Fairness

`Transmitter` assumes that a pcap call returns and a timer fires (weak fairness), that a
goroutine that wants the mutex gets it (strong: after a millisecond `sync.Mutex` hands the lock to
the longest waiter), and that a select case that is ready again and
again is taken (strong: Go's select chooses uniformly). Opening a handle may fail at any time,
but an open that is tried again and again while the interface exists succeeds in the end
(strong); without that no retry could be shown to help. Nobody has to call `Write` or
`Close`, and the interface need not come back: recovery is stated under `<>[]up`.

`PcapSource` assumes the same of goroutines, timers, selects and opens, and that listing the
system's interfaces succeeds again and again. It does not assume that packets
arrive, that gopacket closes the channel of a dead handle, that an outage ends,
or that anybody cancels.

`Bus` assumes that a goroutine that can go on does (weak), and that whoever waits to announce a
change gets there (strong: writers queue on a `sync.Mutex`). It does not assume that anyone receives, which is
the point of `CallsReturn`.

`Pipeline` assumes that stages return (weak), that whoever waits for the decoders' mutex gets it (strong), and that
a `Read` that meets a cancelled ctx again and again picks that case in the end (strong:
the select of `PcapSource.Read`).

`Startup` assumes that systemd restarts what its unit says (weak), for the run that shows that it
is not told to.

`Registry` and `Forwarding` state safety only and assume no fairness.

## 6. What is proved

TLAPS proves the following for all values of the constants, from the assumptions
named in the modules: the delays are naturals with `0 < InitialDelay <= MaxDelay`, nil is
neither a caller nor a handle, parsing undoes formatting, TTL and cleanup period are
positive, the broadcast MAC is not the empty one, the wiring is of the types `main` gives it, an interface with broadcast has an IPv4 broadcast address (otherwise its set-up fails), and a sink is in one place of one
pipeline (`WiredOnce`: `main` makes new ones for every pipeline and every route). A theorem that needs more
of the environment states it as a hypothesis.

**`TransmitterProofs`** proves `TypeOK`, `WriteOnOpenHandle`, `OutageHasOneLoop`,
`HandlesAreOwned` and `NoInstallAfterCancel`. None of them is inductive. The
invariant `IInv` adds the reasons the code works: who holds the mutex is writing, and to
the sink's writer (`LockInv`); a sink with a writer has no loop
(`WriterInv`); there is never more than one loop (`OneLoopInv`), which needs
`reconnecting` and the fact that a sink without a writer cannot fail a write; a loop
owns an open handle only between `createWriter` and its critical section (`LoopHandleInv`); what `Close` has
taken from the sink nobody else refers to (`StaleInv`), so its late
close hits no other handle; a goroutine inside `Close` implies that ctx is
cancelled (`CloseInv`); and until then each open handle has an owner
(`OwnedInv`). `IInvStep` has one step per action.

**`RegistryProofs`** proves all five properties of the registry. The invariant adds that the
ticker is never late (`ClockInv`), that an entry is filed under its interface
and, unless it is a fixed IP, under the canonical text of its address
(`FiledInv`), that a mortal entry's end comes before the tick that must remove it
(`DueInv`), that nothing was heard in the future (`HeardInv`), and that only fixed IPs
are immortal (`ImmortalInv`).
`FiledInv` carries the case of a fixed IP in an unusual spelling: the learned
entry of that address lives beside it, under another key.

`TransmitterProofs` also proves that the sink implements `Link` (`ImplementsLink`): each step is a step of the
link or leaves it alone (`LinkStep`), and the invariant supplies what the
mapping needs, for instance that who holds the mutex has a writer.

**`BusProofs`** proves `TypeOK`, `InOrder` and `QuietAfterUnsubscribe`, for any interfaces, channels and capacity.
The invariant adds that what a `Publish` has left to do is in the map as long as it
holds the read lock (`RestInv`), that no channel has a message from the future
(`SeqInv`), and that the message being published is in no channel that has not had its
turn (`TurnInv`), which is why an append keeps the order.

**`ForwardingProofs`** proves all properties of `Forwarding`, for any interfaces, addresses, link types
and fixed IPs. The lemma `RegistryStep` says that the table steps as in module `Registry`, so that
the invariant of `RegistryProofs`, taken by `INSTANCE`, holds of the table the pipelines share. The rest of the
argument is about one set, `Reaches(i, e)`: where the packet of pipeline i has gone on e, or waits to go.
When a route is taken, everybody who is owed the packet is in the set (`ServedInv`, by the registry's
`RememberedForTTL` and `FixedForever`), and only those who may get it are (`JustifiedInv`, by
`ForgottenInTime` and `LearnedIsLatest`). From then on nobody is newly owed, since what is heard
is heard later than the packet was read, and what was justified stays so (`NothingNewOwed`). A target that is
given up has no IPv4 address, if its interface is `Reachable` (`ReachableRewrites`), so it is owed nothing.
A silent segment's route had nothing but the broadcast in it (`FloodedInv`), as `ForgottenInTime` leaves no client in the copy,
and the broadcast can always be rewritten.
`BroadcastAlone` needs the assumption `BroadcastIsNoHost`: no client has the broadcast address of its interface.

**`PcapSourceProofs`** proves `TypeOK` of `PcapSource` for any number of sources on one interface; all it takes is that the handle they
are set up with stays open until they run, and that who is about to store a handle has one (`ShareInv`).
The other safety properties are proved for an interface with one source (with two, `StaleHandleIsClosed` is violated; see section 7). `HandleInv` ties the open handle to the place the
source has reached: it is in the cache, or was opened and is about to be stored. `ReconnectsAreBounded` is not
inductive; `CreditInv` is, which adds to the handles opened so far those that an outage will still cost: a reconnect that is
under way, a signal, a handle that is dead, and the signals the monitor may still send, which are two if the interface goes
away again while the monitor has yet to report the last outage. An outage adds two, every other step
only hands on. `TraceInv` is `OutageLeavesTrace` extended to handles that die before they are read, as in an outage that
begins while `reconnect` is about to store the new one; so it is the safety half of
`RecoversFromOutage`: what remains for TLC is that the monitor ticks and the source selects.

**`PipelineProofs`** proves `TypeOK`, `NoSinkIsStarved` and `ClosedExactlyOnce`, for any stages and routes, any number of
pipelines and targets, and whatever fails. As no pipeline changes what belongs to another, the invariant is stated of one run
`R` and of how often its sinks were called, and each of its parts is about one level: what is left of a level is its end, and
a route that is being taken is not left to take (`Place`); on each level the sinks that had their turn were given exactly one
packet more than those that have not (`Given`, and `Even` for all levels), for a route with as many packets as it has had targets;
and a source or sink is closed once, or is still in what is left to close (`Closing`), which counts the sinks inside
routes that have not been entered. That a sink is wired in one place makes the first of what is left different from
all the rest. `NoSinkIsStarved` is `Even` at `Read`, where nothing is left on any level. `HolderPrints` proves of the decoders' mutex that its holder is running and in a decoder
(`HolderGoesOn`), so that its next step releases it.

**`StartupProofs`** proves the four properties of the startup run, for any host, any command lines, and whatever interfaces, lists and
errors do meanwhile. `PlanInv` says that what is set up and what is yet to be set up are together what the command line asks
for; `RouteInv` that there are no
routes before, and all of them after, the wiring; `ListenInv` that a listener was tried exactly where one is wanted and not
still to come. `RunningIsComplete` counts routes, so its proof is about the cardinality of sets of pairs (`FiniteSetTheorems`).
`FixedActive` has a hypothesis, which is a property of the host and not of the program: `OneLoopback`, without which a
fixed IP that was accepted for one loopback interface can be ignored because another was set up: `GetLoopback` goes over a Go map and may answer differently each time (`internal/proxy/device_manager.go:167`). The run's
instance meets it (`InstanceAssumption` of `MCStartup`).

Left to TLC: the liveness properties (`WriterRecovers`, `LoopsExit`, `RecoversFromOutage`,
`StopsWhenCancelled`, `CallsReturn`, `RunEnds`), which are out of the prover's reach. What they rest on and no scheduler decides is proved:
a loop runs for each outage (`OutageHasOneLoop`), a signal is coming (`OutageLeavesTrace`), who has the mutex releases it (`HolderGoesOn`). All other properties of the passing runs are proved.
No module uses a recursive operator, and nothing is proved by induction over data.

## 7. Where the code and its documentation disagree

* **pcap_filter**: `reconnect` opens a new handle (`stages/pcap_source.go:130`), but the BPF
  filter is installed only in `setupInterfacePipeline` (`cmd/udp-proxy-2020/main.go:229`). After the first
  reconnect the source captures UDP of every port and source, while `README.md:94` and
  `CHANGELOG.md:117` say that ports and source networks restrict what is forwarded.
  The source networks are there "to prevent infinite loops" (`CHANGELOG.md:117-119`) on platforms where a handle
  also captures what the host sends; they too are gone with the first handle.
  Counterexample to `CaptureIsFiltered`: outage, channel closed or signal, reconnect.
* **transmitter_close**: `reconnectLoop` returns at `stages/transmitter.go:120` without
  closing the handle it has just opened, while `internal/proxy/device_manager.go:224` says that
  the caller of an isolated handle must close it and `transmitter.go:133` that `Close` closes the handle.
  Counterexample to `ClosedSinkHoldsNoHandle`: a write fails, the loop opens a
  handle, `Close` runs, the loop sees ctx cancelled. As long as nothing is
  cancelled there is no leak (`HandlesAreOwned`).
* **deliver_local**: a loopback interface has no `net.FlagBroadcast`, so
  `cmd/udp-proxy-2020/main.go:257` marks it as not broadcast and its broadcast address
  127.0.0.1 (`main.go:293`) is never a target. Unless some local program has been heard on,
  or fixed to, the loopback interface, nothing is delivered there, while `README.md:169`
  says `--deliver-local` does. Counterexample to `DeliveredLocally`: the
  first packet from the LAN.
* **pcap_two_sources**: `CreateReaderHandle` looks up the cache and stores into it in two critical
  sections (`internal/proxy/device_manager.go:81` and `:118`). `--deliver-local` with the loopback
  interface among `--interface` configures it twice, since it is appended
  (`cmd/udp-proxy-2020/main.go:175`) after the check for duplicates. The two sources share one handle; when both
  reconnect, both open one, and the store of the second makes the cache forget the first.
  `reconnect` closes by interface name, so that a source leaves its stale handle open, while the comment at
  `stages/pcap_source.go:111-113` says that it closes it. With one source per interface there
  is no such race (`NoReaderLeak`).
* **startup_restart**: a set-up that fails, as at boot when an interface is not there yet, makes `main`
  return (`cmd/udp-proxy-2020/main.go:69-71`), that is, exit with status 0, where other failures call
  `os.Exit(1)`. The unit `startup-scripts/systemd/udp-proxy-2020.service:12` says `Restart=on-failure`, and 0 is no failure: the
  service stays down. Counterexample to `FailureIsRestarted`: any failing set-up.

## 8. Sensitivity: faulty variants

Beside some actions the modules define a *faulty variant*, the action with a plausible
bug: a dropped check, a missing reset, a bound off by one. None of them is
part of a specification. Put in the place of the action, each makes TLC report
the property named with it in `PROJECT.json` under `mutants`: every property
of every passing run can fail, and fails for the reason it is there.

## 9. What is not modelled

* `TransformProcessor`, `CreateWriterHandle`, `NewRegistryProcessor`: not used by the program.
* The line `DecodeProcessor` prints, the files' format, BPF text, timeouts, graph output, logging: formatting without state.
* Options that decide none of this: log level, timeout, paths.
* What a fixed IPv6 address should mean. It is accepted (`cmd/udp-proxy-2020/main.go:372`,
  `stages/registry.go:57`) and the model enters it, but no packet is ever sent to it, because the serializer
  wants a 4-byte address (`internal/proxy/rewrite/rewrite.go:63`), while `README.md:99` says that traffic is always
  sent to a fixed IP; as a known client it also keeps the broadcast from its interface
  (`stages/route_sink.go:109`). `FixedAlwaysServed` is stated for IPv4 addresses only, and on interfaces that can
  be reached; the forwarding run has such an address.
* Frame contents: payload, ports, checksums, IP id and fragments pass through.
* Hosts with two loopback interfaces: the model has them, but `FixedIPsAreActive` does not hold there, and no documentation says
  which of the two `--deliver-local` means.
* Fixed IPs on an Ethernet without broadcast, such as the loopback interface of Linux: a fixed IP has no MAC, so
  `PacketForEgress` refuses it (`internal/proxy/rewrite/rewrite.go:87`) and the packet is dropped with a warning. `FixedAlwaysServed` leaves
  such interfaces out (`Reachable`).
* Capture goroutines of channels that have been replaced, and packets captured before the filter is set.
* What nobody promises: a packet that a failing processor stops is lost (`internal/proxy/pipeline.go`), and so is its
  sender to the registry; a full channel of the bus loses the message; a listener that ends is not opened again; and nothing cancels
  the pipelines before the process ends. The models do all this, but no property speaks of it.

## 10. Plan

The core came first: the two places where goroutines race for a pcap handle, and the
shared table with the data path over it. Around it are now the abstract link, two sources on one
interface, the pipeline with its failures and its shutdown, the life of the process, and the bus.
All safety and action properties of the passing runs, and the refinement of `Link`, are proved. Left, in this order:

1. `Link` in `Forwarding`, in place of a sink that takes everything.
2. More about the data path: fixed IPs spelled in two ways.
3. The capture goroutine of a replaced channel that is full.
4. What two sources on one interface still promise (`OutageLeavesTrace`), for which `TypeOK` is the first step.
