# TLA+ specifications of the Nupi daemon

This directory holds TLA+ models of `nupid`, the daemon under `internal/`, with the TLC
configurations that model-check them on small instances and the TLAPS proofs of properties that
hold for every instance. Each module is written from the Go source; `PROJECT.json` maps every
definition to the lines it stands for, and lists runs, mutants, findings, hazards and theorems.

To check one run: `tlc -config Speech.cfg MCSpeech.tla`.
To check the proofs of one module: `tlapm SessionProofs.tla`.

## The system

`nupid` runs interactive shell and AI-tool sessions in PTYs and passes their output and the user's
speech through a chain of services. The services share one in-process event bus and are started in
a fixed order by a service host. Clients attach over gRPC/Connect; adapters (STT, TTS, VAD, AI)
run as child processes or remote endpoints and are started from slot bindings in the configuration
store. What survives a restart of the daemon is little: the configuration store, recordings, and
the awareness logs. The conversation log is modelled with crashes between any two of its steps; the
rest of the modelled state is in memory, and what a crash loses of it is simply gone. The plugins'
JavaScript runtime is a child process that may die and is started again, which is modelled too.

```
 PTY ──> session manager ──> content pipeline ──> conversation ──> intent router ──> adapters
          │        ▲               ▲                                   │
        clients   tool handler     │ transcripts                       │ replies
                                   │                                   ▼
 audio ingress ──> VAD / STT ──────┘                        audio egress (TTS) ──> playback
                     │                                             ▲
                     └──────────────> barge-in ────────────────────┘
            every arrow between services is a topic of the event bus
```

## Inventory

| component | state it keeps | operations | interacts through | what is hard |
|---|---|---|---|---|
| event bus (`internal/eventbus`) | per subscription: channel, overflow ring, closed flag, drop counter | publish, subscribe, close, shutdown; drain, bridge and consumer goroutines | every service publishes and subscribes | three closers, sends racing with close, wake-ups, full buffers |
| PTY wrapper (`internal/pty`) | process, output buffer, sinks, event channel, exit code | start, capture, reap, stop, add/remove sink | session manager, tool handler | one `Wait` wanted by many goroutines, kill escalation, closing channels |
| session manager (`internal/session`) | session table, status, client counter | create, attach, detach, kill, monitor | PTY, tool handler, recorder, lifecycle topic | check-then-act in every handler |
| content pipeline (`internal/contentpipeline`) | output buffer, idle timer, idle entry, tool per session | output, tool, lifecycle handlers, timer callbacks, shutdown | bus | overlapping flushes, fired timers, cleanup under use |
| stream manager (`internal/audio/streammanager`) | streams, pending queues, retry timers | create, enqueue, buffer, retry, flush, remove, shutdown | STT, VAD, egress | concurrent creation, replay order, timers racing with consumers |
| STT, VAD, egress (`internal/audio/...`) | stream workers | segment and speak handlers, rebuffer, interrupt | stream manager, adapters | failure of an adapter with work queued; streams that end under their senders |
| conversation (`internal/conversation`) | tool cache, detach timers, rate-limit maps | five consumers, detach timer | bus | a fired timer against its cancellation; events of one session through several subscriptions |
| session output (`internal/pty`, `internal/session`, `internal/plugins/tool_handlers`) | replay buffer, sink list, detected tool, two channels of changes | read, broadcast, add/remove sink, detect, announce, attach | recorder, bus, clients | sinks that join and leave under a broadcast; channels closed under their sender |
| barge-in (`internal/audio/barge`) | playback state, quiet time, cooldown | VAD, client, playback events | VAD, egress | playback and voice activity arrive separately |
| audio ingress (`internal/audio/ingress`) | open streams, sequence numbers, segment buffer | open, write, close | gRPC, bus | segmentation at limits, several closers of one stream |
| adapters service and manager (`internal/plugins/adapters`) | bindings, instances, published state, heartbeat state | reconcile, start/stop slot, heartbeat | config store, processes, bus | reconciliations that overlap; a probe in flight while the adapter is swapped |
| intent router and its bridge (`internal/intentrouter`), command executor (`internal/server/runtimebridge`) | provider, error count, conversation session, command queue | prompt handler, tool loop, commands, adapter bridge | bus, adapters, session manager | the bridge learns of the adapter from events alone; a session that ends between the check and the command |
| plugin service, JS runtime (`internal/plugins`, `internal/jsruntime`) | plugin index, supervised process, callbacks, pending calls | start, reload, shutdown, crash callback, call | session manager, pipeline | a runtime that dies under a reload; answers after their callers have left |
| plugin installer (`internal/plugins/installer`, `internal/config/store`) | a directory and a row with checksums for each plugin | install, uninstall, enable | CLI commands, disk, database | two stores that change one after the other; a failed step, a crash, two commands at once |
| conversation log (`internal/awareness`) | a file: raw tail, summaries; archive; guard of a compaction | append, compact, answer, archive | bus, intent router, disk | compaction by request and reply while the log grows; crashes |
| journal (`internal/awareness`) | per session: rolling log, cached daily file, its mutex, guard of a compaction | lifecycle, output and tool handlers, compact, answer, shutdown | bus, intent router, disk | a mutex that is deleted while others wait for it; a shutdown that does not wait |
| onboarding, heartbeats (`internal/awareness`) | two files, a cached flag, the session that has claimed it; the time of the last beat | ask, complete, release; check, fire, record | intent router, config store, disk | two files that change one after the other; crashes |
| notification (`internal/notification`) | dedup map, bounded goroutines | three consumers, push, shutdown | bus, config store, push service | windows with failing pushes and a map that is trimmed |
| service host, daemon, transport gateway (`internal/runtime`, `internal/daemon`, `internal/transport`) | registrations, configuration, listeners | start, stop, restart, update, watch | config store, all services | three parties restart the gateway, which writes the configuration it was made from |
| config store, server, CLI, generated code, pure helpers | rows, connections | CRUD, RPC | everything | see "Not modelled" |

What makes each of them correct:

- event bus: no send on or second close of a closed channel; every accepted event handled or
  counted as dropped; no sleeping on a non-empty ring; order per publisher; closers return.
- session and PTY: an exit is reported once the child has been waited for; a session is
  said to have ended when its process has exited, been killed or hung up; `Stop` returns; the end is
  announced; the client counter is right.
- content pipeline: output published once, in order, with truncation marked, and never forgotten.
- stream manager and its services: a segment is processed once; no worker is orphaned or waited for
  in vain; a registered stream is alive; order but for replays; shutdown leaves nothing pending.
- session output: every sink gets the output from the moment it is added, without a gap or a
  repetition; the announced tool follows the detected one.
- conversation: nothing of a session is left when it has ended; prompts keep their distance.
- conversation log: a turn is in one place, and lost only for a known reason. Journal: no entry is
  lost, no file stays open, the guard of a compaction opens again. Onboarding and heartbeats: what
  was done is not done again, also after a crash.
- barge-in: barge-ins keep their distance and come to what is playing. Ingress: the segments of a
  stream are all of it, numbered, with one end. Notification: one thing is told once.
- adapters: the slot settles on what is bound; the router follows what the service publishes.
- host and gateway: the configuration in the store is the one that is served; no listener leaks.
- plugins: whenever the runtime is up callers find every plugin that it loads; who waits for an answer gets one or the
  end of the runtime; a plugin is installed whole or not at all.
- intent router: prompts do not go to sessions that have ended, each has a reply, no command is left.

## Plan

The modules, in order of importance for the system, and what composes what:

1. EventBus: every other service depends on it.
2. PtyWrapper, and SessionManager on top of it by EXTENDS; SessionOutput for what they leave out.
3. ContentPipeline: the way from output to the AI. Conversation: from there to the prompt.
4. StreamManager with the STT consumer; AudioEgress on top of it by EXTENDS; BargeIn, AudioIngress.
5. AdapterService, and AdapterBridge on top of it by EXTENDS; IntentRouter.
6. TransportHost, PluginRuntime, RuntimeCalls, PluginInstall, ConversationLog, Notification.
7. Journal, and Awareness for onboarding and heartbeats.
8. The abstract specifications: LossyFifo of EventBus, Delivery of StreamManager and of AudioEgress,
   RemoteCalls of RuntimeCalls, AtomicInstall of PluginInstall.

Proofs are in modules of their own, `*Proofs.tla`, by groups of components: EventBusProofs; SessionProofs
(session, journal, awareness); PipelineProofs; StreamProofs (streams, barge-in, ingress, text to
speech); SpeechProofs (intent router, notification); BridgeProofs (adapters and bridge); PluginProofs
(plugins, calls, installation); ServicesProofs (log, conversation, session output, transport).

MCServices, MCSpeech and MCSessions check parts that share no state in one run each: in a behaviour
one part is at work, and the others keep their initial state. The constants of the parts are bounded
separately, so the states of the run are the sum of those of the parts. A behaviour of the composition
is one of each part (`SessionsCompose`, `SpeechComposes`, `ServicesCompose`), so what is proved of a
part holds there.

Bounds: two or three items, two streams, buffers or clients, one or two timers, two concurrent
callers; each section says why that is enough for its hazards. Every bound is a CONSTANT named in its
module, or a bound on several counts together, which the MC module states: PipelineBound, EgressBound,
StreamBound, JournalBound, HostBound, OutputBound. Those let any two (or three) of the disturbances
they count meet, but not all of them in one behaviour. A run takes from seconds to two minutes.

What could follow: the composition of the bus with the services that stand on it, now that both have
abstract specifications, and the parts
listed under "Not modelled" that keep state of their own: the awareness indexer, the JavaScript
host's plugins, the tool cache of the router.

## EventBus, LossyFifo, EventBusProofs

One typed subscription with everything that touches it. Subscriptions of a topic are independent:
`publish` delivers to each in turn without blocking, so one is enough.

State: `ch`, `ring` with `notify`, `closed`, `done`, `registered` and `dropped` are the fields of
`Subscription` and `overflowBuffer`; `drainPc`/`drainHold`, `bridgePc`/`bridgeHold` and
`consumerPc`/`consumerHold` are the three goroutines with the envelope each has in hand; `pub[p]` is
a publisher inside `deliver`; `closer[c]` the owner (`ServiceLifecycle.Shutdown`), the
`WithContext` watcher and `Bus.Shutdown`.

Actions: `PubStart`..`PubEnqueue` are the steps of `publish`, `deliver` and
`dropOldestAndEnqueue`, each channel operation a step; `DrainPop`..`DrainCancel` the drain
goroutine; `Bridge*`, `Handoff`, `Handle`, `ConsumerExit` the typed bridge and `ConsumeEnvelope`;
`Owner*`, `RawClose`, `RawDrained`, `RawUnlink`, `BusShutdown`, `BusDrained`, `WatcherRelease` the
closing. The bus's read lock is `Reading`, the write lock `WriteLocked`. Priorities of topics,
observers and the payload are left out; `Foreign` events carry a payload of another type.

`LossyFifo` is the promise to a consumer: a bounded queue that may lose but never repeats an
envelope, and keeps each publisher's order as long as no push found the ring full. `EventBus`
implements it with `queue <- InFlight` (what the goroutines hold, the channel and the ring).

| run | instance | shows |
|---|---|---|
| bus_delivery | 2 publishers, 2 events each (one of a foreign type), channel and ring of 1, three policies | ClosedSafely, NoSilentLoss, NoLostWakeup, and the implementation of LossyFifo |
| bus_live | 2 publishers, 1 event each, fair | NothingHangs: a publication in flight ends, and a closing ends |

Bounds: a channel and a ring of one are full after one event, and two publishers are enough for one
to steal the slot the other has freed.

Fairness (`FairSpec`): the steps of a delivery, of the three goroutines and of a closing that has
begun are weakly fair, which is what the Go scheduler gives to runnable goroutines; the handler is
assumed to return. Nobody has to publish or close.

Proved for all publishers, events, capacities and policies: `TypeCorrect`, and from it
`ClosesSafely` by the invariant `CloseInv`, and `WakeupKept`. `NoSendOnClosed`, half of `ClosedSafely`,
is not inductive: that no publisher is inside `deliver` once the channel is closed rests on the
closer's having taken the write lock *after* the compare-and-swap, and after the drain goroutine has
ended. `CloseInv` says so in four parts: `ElectedCloser` (one closer past the swap), `DrainedFirst`
(a closer in `unlink` has seen the drain goroutine exit), `LockedOut` (what the write lock excludes)
and `ClosedForAll`. `NoLostWakeup` is inductive with the types.

`LossAccounted` proves `NoSilentLoss` by counting: `HoldInv` (who has an envelope in hand), `FreshInv`
(what has not been published is nowhere) and `CountInv` (the counter of drops against the envelopes
that are in no place). `BusIsLossyFifo` proves the implementation: a step of a publisher, of the drain
or bridge goroutine, or of a closer is a step of the abstract queue or leaves it alone. It needs
`PipeInv` (what the pipe from publishers to the consumer holds, and in which order) and `FallbackInv`
(that an envelope put ahead of the ring came by a push that found it full).

## PtyWrapper, SessionManager, SessionProofs

`PtyWrapper` is the life of a child process: the process itself (it may exit, hang up its terminal,
and obeys SIGTERM or not), the capture goroutine (`Cap*`), callers of `Stop` with the goroutine each
starts to reap the child (`Stop*`, `Reap*`), the once (`once`) and the lock `reapProcess` holds
during `Wait` (`CmdLocked`), and the event channel. `SessionManager` extends it with one session:
`CreateSession` after the PTY has started, `monitorSession`, clients that attach and detach, and
`KillSession`. Every read and write under a lock of its own is a step, so that clients, the monitor
and killers interleave as in the code; `published` is the sequence of lifecycle events on the bus.
Output and tool detection are SessionOutput's; `recording` is whether the recorder is open.

| run | instance | shows |
|---|---|---|
| session_clients (part "session") | 1 killer, 2 clients (symmetric), hang-ups | SinksCounted; SessionsTypeOK: the types of the three parts |
| session_stop | 2 killers, obedient process, hang-ups, fair | ExitIsReaped, EndsAreReal, StopReturns, ExitSettles: what waits for the exit is released, and the end is announced |
| session_stubborn | 1 killer, process that ignores SIGTERM | violated: `Stop` waits for `commandMu`, held by the goroutine that waits for the child, so SIGKILL is never sent |

Fairness: goroutines and calls that have begun go on; the process dies when killed, and when it
obeys and was told to; nobody has to call `Stop`, and a process need not exit.

Proved for any callers and clients: `TypeCorrect`, `ReportsReapedExits` (from `ReapInv`: who is
inside the once and what holds when it is done), `CountsClients` (`CountInv`: the counter against
the places of clients). `EndsAreAlwaysReal` follows from `ExitInv`, which says what a closed PTY file, a
cleared `isRunning` and a successful `Stop` imply about the process. A process that closes its terminal and lives on makes `isRunning` false, so that
`Stop` returns at once and the session is announced as stopped while it runs (`wrapper.go:377`): then
the process has no terminal any more and the capture goroutine waits for its exit (`HungUp`), which is
what EndsAreReal says of it. In every other case it has exited or been sent SIGKILL.

## ContentPipeline

One session's output on its way to `pipeline.cleaned`. Output chunks are numbers in their order and
one unit of buffer space each; a timer, and a buffer's generation, are named by the chunk that set
them (the code compares generations for equality only). Actors are the output consumer, the tool
consumer and one timer callback per chunk; `pc`, `held` and `hand` say where each is, which buffer
it works on and what it has flushed. The lifecycle consumer (`cleaner`) and `Shutdown` delete timer,
buffer and idle entry in steps, as the code does under separate locks and `sync.Map`s.

Steps that touch one variable nobody else can see in between are merged: storing the idle entry and
publishing, stopping the old timer and arming the new, taking the buffer and checking whether the
pipeline is active. Cleaning, event extraction, transcripts and sequence numbers are left out:
functions of the text, or published without touching this state.

| run | instance | shows |
|---|---|---|
| pipeline_flush | 3 chunks, buffer of 2, 1 tool event, a `stopped` event, Shutdown; PipelineBound: two of these in a behaviour | TypeOK, OutputFlows: OutputWhole (once, in order, truncation marked) and NoStrandedOutput |

`NoStrandedOutput` is stated until the first cleanup: after it a flush of the session's old buffer
cancels the timer of its new one (timers are kept by session, buffers by pointer), which strands the
new output; see the hazards. Three chunks overflow a buffer of two and give overlapping timers.

Proved (in `PipelineProofs`) for any chunks, buffer size and tool events: `PipelineTypeCorrect` and
`OutputFlowsWhole`. The first needs `HeldInv` (an actor between two locks works on a buffer that
existed) and `CreateInv`, which pays for each buffer made after the first with a clearing. For the
second: `FreshTimers` (timers not yet set are nowhere), `ContentInv` and its `MarkedRun` (a buffer
and a flush in hand are unbroken runs of chunks, marked where the run begins late), `PlacesApart`
and `SaidOnce` (no chunk in two places, what is published is behind what waits), and `CalmInv`: until
the first cleanup a buffer with output has its timer, or somebody who is about to flush it.

## StreamManager, Delivery

One key of the stream manager, with the worker goroutines of its streams, the segment consumer of
speech to text (`handleSegment`) and the retry callbacks. Segments, streams and timers are numbers
in their order. `stream` is the entry in `Manager.streams`, `pending`/`timer`/`failures` the
`PendingQueue`, `queue[h]` and `cancelled` a `Worker`'s channel and context. `CreateStream` is six
actions (fast path, factory with its three outcomes, registration, flush), used alike by the
consumer and by timers; `Enqueue` is a check of the context, then a send or the context's end. A
timer may fire at any time after it was set: backoff delays only make that later.

| run | instance | shows |
|---|---|---|
| speech (part "streams") | 3 segments (the 2nd ends its stream), 2 streams, 2 timers, queue and channel of 1, 2 failures; StreamBound: streams, timers and Shutdown are four at most in all | SegmentsFlow (SegmentOnce, OrderedUnlessReplaying, ShutdownEmpties), StreamsRegistered (NoOrphanWorker, RegisteredAlive, WaitEnds), ImplementsDelivery; SpeechTypeOK: the types of the five parts |
| stream_stranded | 2 segments, 1 stream, 2 timers, queue of 2 | violated: a retry that finds a stream does not flush the queue it was set for |

Two streams and two timers are the least with which creators race and a callback finds a queue that
is not its own. When the bound on timers is reached the model stops where another would be set.

Proved (in `StreamProofs`) for any numbers of segments, streams and timers and any capacities:
`TypeCorrect`, `StreamsStayRegistered`, `SegmentsFlowOnce`, `StreamsDeliver`. None of the
properties is inductive: that the loser of a registration race may stop its stream, and that the
winner's is alive, rest on nobody else knowing a stream its creator has not registered. `StreamInv`
adds `OffInv` (timers not yet set are off), `FlowInv` (who can hold which stream, and that a worker
which has returned is cancelled), `FreshInv` (an unregistered stream has one holder, an empty channel
and, until the shutdown, a running worker) and `ShutdownInv`. `Only(a)` is what one actor's step may
do to another: set a timer that was off, stop one that was set. `HandInv` is needed for the types:
who waits in `Enqueue`, and the consumer until it has buffered, have a segment in hand.

`SegmentsFlowOnce` proves the three parts of `SegmentsFlow`. For the first, `OnceInv` says that the
places a segment can be in (pending, hands, queues, done, dropped) are disjoint, have no repetition,
and cover exactly what was received; `SegmentOnce` counts to one from there. `OrderInv` is about what
one stream has been given and what is still to come to it: only who registered a stream replays to it
(`ReadyInv`), and what is newer than a segment in hand and has already been sent there overtook it.
`ShutdownInv` gives the third: Shutdown ends when the consumer has ended, and no callback still under
way buffers again.

`Delivery` is what the manager promises its user: an item that has arrived is given to one live stream
at most, once, in order but for those let ahead early, or is lost, and either is final. Pending queues,
retries, factories and registration races are not in it. The mapping: `given <- done`, `lost <- dropped`,
`early <- overtook`, and a stream has ended when its worker no longer serves. `StreamsDeliver` proves the
implementation from the invariants above: a step of a creator or a timer stutters or loses items or
opens a stream; a worker that takes a segment gives it. That the item is outstanding is
`OnceInv`; that nothing newer was given to the stream, except what overtook, is `OrderInv`.

## AudioEgress, and Delivery again

Text to speech on top of `StreamManager` (EXTENDS): a segment is a speak request. New are the stream
flags `stopped` and `keep`, the request a worker is about (`speaking`), rebuffering when the adapter
fails (`Rebuffer`, `RebufferDrain`, `ClosedDrains`), `onStreamClosed` (`StreamClosed`,
`ClosedClears`), barge-in (`Interrupt*`), the end of the session (`SessionRemoves`, `SessionStops`)
and this service's order of `Shutdown`. Replies and manual requests are handled by two consumers
that run the same handler; the model has one of them, and its races with retries are those the two
would have with each other. Playback events are left out.

| run | instance | shows |
|---|---|---|
| egress_rebuffer | 2 requests, 2 streams, 1 timer, 1 interruption; EgressBound: two of the interruption, the session's end and Shutdown in a behaviour | RequestsServed (RequestOnce and DrainComplete), SynthsRegistered |
| egress_wiped | the same with 1 stream, without EgressBound | violated: an interrupted stream clears what was buffered to survive it |

`DrainComplete` says precisely what the two drains achieve: only a request whose sender chose the
channel although the context was already done is left behind. The code's comment expects the drain
to catch those too; they are lost when they come after the last drain.

Proved (in `StreamProofs`) for any numbers of requests, streams, timers and interruptions and any
capacities: `EgressTypeCorrect`, `SynthsStayRegistered`, `RequestsAreServed`, `RequestsAreSpokenOnce`.
`EgressInv` shares `SharedInv` (`OffInv`, `FlowInv`, `FreshInv` and the types of places) with the
stream manager, and an actor's step is mostly proved by the same lemmas; they allow for the places
that are new here. `OnceInv` is not enough, since a request a worker is about can return to the
pending queue: `BusyInv` counts what a stream has spoken or speaks as one home, and `Occupied` only
loses its last element by rebuffering.

- `TargetInv`: the streams barge-in and the end of the session have got from the table were
  registered, so that neither stops one that is still its creator's alone. `NoOrphanSynth` needs that.
- `SpeakInv`: a stream has one request exactly while it speaks or is about to rebuffer.
- `KeepInv`: a stream that rebuffers never goes back to serving; it is cancelled before it drains, so
  that after the drain only a sender that chose the channel in spite of it (`slipped`) adds to it.

Text to speech implements `Delivery` too (`SpeaksOnce`), with `early <- Segments`: it promises no
order, since a request put back by a stream that failed may come after newer ones. What is given is
what has been spoken: a request that is being spoken may still be put back, so giving it is
`SpeakEnds` and not `SpeakStarts`. `SpeaksOnce` is proved; it was checked with TLC on the instance of
egress_rebuffer and is not a property of a run, because RequestsServed already says its first half
there.

## SessionOutput

What PtyWrapper and SessionManager leave out: the output itself. `Cap*` is `captureWithBuffer`, which
stores a chunk for replays, takes `sinksMutex` and writes to the sinks one after another (`turn` is
the one it is at: a client that does not read keeps the lock). `Setup*` and `StartMonitor` are the
rest of `CreateSession`, `Monitor*` and `Kill*` the two ends of a session, `ReadHistory`,
`SendHistory`, `JoinSinks`, `RemoveSink` a client's stream, `WriteHandler` and `Detect` the tool
handler, `Detector*` the goroutine that announces tools. A chunk is its number; the buffer is
bounded in chunks. Which plugin recognises a tool, debounce and rate limit are a choice.

| run | instance | shows |
|---|---|---|
| services (part "output") | 2 clients, 2 tools, 3 chunks, history of 2, change channel of 1; OutputBound: a client that is attached and a detected tool count as two chunks, at most five in all | SessionFollowed (OutputFollows, ToolFollows); ServicesTypeOK: the types of the seven parts |

Three chunks overflow the history of two and the channel of one; two clients are enough for one to
leave at the position the broadcast is at while the other joins behind it.

Proved (in `ServicesProofs`) for any clients, tools, chunks and capacities: `OutputTypeCorrect`,
`SessionIsFollowed`; with the types, `ReadBefore`: what a sink has taken and the history a client was given
are chunks that were read. For tools (`ToolInv`), the invariant says where a change can be on its way
(`ToolPlaceInv`: the two channels and the goroutine's hand form one chain from the announced to the
detected tool), that the channels are closed only when no output can come (`ShutInv`), and who stops
the handler (`HandlerInv`). For sinks (`FollowInv`), what a sink last took depends on whether the
broadcast under way has passed its position: `Delivered(p)` is the last chunk position `p` has been
offered, and `ReachInv` that its sink has it. Removing a sink under the lock is what makes this
inductive, since no position moves during a broadcast (mutant `RemoveSink_Unlocked`).

## Conversation

One session of the conversation service; sessions share no state. The five consumers (`Stopped`,
`Detached`, `Attached`, `ToolEvent`, `Message` and what follows it) and one timer for each detachment
act on the tool cache and the timers under `s.mu`, and on the two rate-limit maps without it, so
clearing (`ClearLocked`, `ClearOutput`, `ClearBypass`) and a prompt (`Check`, `Store*`, `Publish`)
are steps of their own. A time is its age in units of the shorter interval and saturates at the
longer. Texts, summaries and history are left out.

| run | instance | shows |
|---|---|---|
| services (part "conversation") | intervals 2 and 1, 2 detachments | NothingKept |

Two detachments give a cancelled timer that has fired beside one that is armed.

Proved (in `ServicesProofs`) for any intervals and numbers of detachments: `ConvTypeCorrect`,
`NothingIsKept` and `PromptsAreLimited` ([][...] about every step that lets a prompt pass). `AgeInv`
ties the entries of the maps to the prompts they are about; `TimerInv` and `LeftInv` say for each
thing left of an ended session who is about to remove it: an armed timer, a fired one that waits, or
the consumer. `ConvTypeCorrect` has `TimerInv` with the types: a timer in the map is armed, or has fired
and waits for the lock, unless the service is down.

## ConversationLog

One log: the raw tail and the summaries in a file that is replaced atomically (`Cut`,
`AppendSummary`, `CommitArchival` write it or fail and roll back), the daily audit log that takes a
summary which could not be appended (`WriteFallback`), the archive, the guard of a compaction
(`inFlight`, `stamped`: two atomics), and two goroutines: the `writer` that appends turns and asks for
a summary of the older half, the `reader` that takes the answers. A summary is the set of turns it
stands for. `Restart` is a crash between any two steps and a reload from the files.
`excused` are the turns the code loses: by an append that fails, a stale or an empty answer, a crash
between the cut and the answer, or a summary for which both `AppendSummary` and the audit log fail.

| run | instance | shows |
|---|---|---|
| services (part "log") | threshold 2, budget 1, 6 turns, 2 faults or crashes, 1 stale compaction | TurnKept |

Six turns give three compactions, of which one may be found stale and answered late, and an archival.

Proved (in `ServicesProofs`) for any threshold, budget, turns, faults: `LogTypeCorrect`, `TurnsAreKept`,
`CompactsOneAtATime`. With the types, `Surplus`: whoever archives has summaries beyond the budget, and no
more than there are. `PlaceInv` says that the tail has no turn twice, that pending compactions,
hands, tail and summaries are apart, what of an archival is in both places, and that a turn that is
nowhere is excused; `ClaimInv` which of cutting, waiting and answering holds the guard.

## Journal, Awareness

`Journal` is one session's journal: the rolling log of entries, the cached handle of the day's file,
the mutex of the session in its map, and the guard of a compaction. The lifecycle goroutine (`"life"`)
makes and retires it, the `Loggers` (output, tool changes) write entries: each gets the mutex from the
map or makes it, waits for it, opens or rotates the file, writes, and may cut the rolling log and ask
for a summary. A fourth goroutine (`taker`) stores the summaries. The end of the session closes the
file and deletes the mutex from the map while others may wait for it. `Shutdown` (`"shut"`) waits for
the four goroutines, but not for ever, and then closes what is open and clears the maps. A mutex and a
handle are numbers in the order they are made.

`Awareness` is the rest: onboarding (the bootstrap file and the marker, which `CompleteOnboarding`
changes one after the other, the cached flag, the session that has claimed it; the user may delete
the file too) and heartbeats (the check, the event, the row that records it), with a crash and a
restart between any two steps.

| run | instance | shows |
|---|---|---|
| session_clients (part "journal") | 2 loggers, 2 days, threshold 0; JournalBound: outputs and tool changes, stale compactions, failures and Shutdown are at most two in all | JournalSound: FilesClosed, EntriesKept, OneJournalCompaction, GuardOpens |
| session_clients (part "awareness") | 2 visitors, 1 minute, 3 starts of the daemon | AwarenessSound: OnboardedForGood, ClaimReleased, BeatsOnce |

Two loggers beside the lifecycle goroutine are enough for one to wait for a mutex that another deletes;
two days rotate the file. Three starts are two crashes, one while completing and one while recovering.

Each property says what the code does not prevent: a goroutine that outlives `Shutdown`'s wait inside
an entry (`survivor`), a session whose stop comes before its creation, a guard found stale and
cleared over a compaction (`forced`), a prompt that comes after its session's end (`tardy`), and the
minute whose beat is about to be recorded.

Proved (in `SessionProofs`) for any loggers, days, thresholds, failures: `JournalTypeCorrect`,
`JournalIsSound`, `AwareTypeCorrect` and `AwarenessIsSound`. For the journal's types `MutexBudget` and
`EntryBudget` count what the goroutines under way can still make. Its soundness rests on `BeforeInv`,
`RetiredInv` and `ExclusionInv`: whoever is inside an entry holds the mutex that is in the map, and
with it the handle, while nobody has outlived Shutdown inside. `FileInv` and `ClosedInv` follow the
handles, `HalfInv` the half that a compaction has cut, and `OneInv` the guard for as long as it has
not been forced. For awareness, `OnboardInv` says that the marker is written once the bootstrap file
is gone and that a start which has seen it makes no file; `BeatInv` that a minute in which the
heartbeat fired is in its record or behind it, but for the one about to be recorded, and that the
record is never ahead of time.

## TransportHost

The service host with its last service, the gateway, as the daemon drives it. `read`, `got` and
`startPc` are the two executions of a start: by `ServiceHost.Start` and by whichever `Restart` has
`reg.mu`. `Prepare`, `Apply`, `Listen`, `Lookup`, `Save`, `SetPort`, `Assign` are the gateway's start,
including the port it got being written back to the store; `Update`..`HookRestarts` a client's
`UpdateTransportConfig` and the goroutine it spawns; `Poll`, `Load`, `Compare`, `Renew`,
`ConfigRestarts` the watcher and the certificate monitor under `configMu`; `Quit`..`StopCalls` the end.

| run | instance | shows |
|---|---|---|
| services (part "host") | 2 bindings, ports 0 and 1, 2 updates, 1 renewal, 1 failure; HostBound: a failure counts as two, at most three in all | ServesConfig |

Two updates let the second come while the first one's restart is at any of its steps, with a renewal
or a port written back between them.

Proved (in `ServicesProofs`) for any bindings, ports and numbers of events: `HostTypeCorrect`,
`NothingLeaks` and `ConfigIsServed`. `OrderInv` and `BootInv` say who can be at work before and after
the start, `LeakInv` whose each gateway is, and `ServeInv` what is known at each step of a start
*provided no other restart is due*; if one is due, nothing need be known, since it will read the store
anew. NoLeak and OneCompaction are proved and not listed in a run; they were checked with TLC before.

## PluginRuntime

The plugin service and the supervised JavaScript runtime. Each start of the service is a generation
with its supervisor (`Notice`, `Cease`, `Awake`, `StartRuntime`, `CallBack`), each process of the
runtime a number; `Crash` and `Deafen` (its answers can no longer be read) happen at any time.
`BeginStart`, `BeginReload`, `LookUp`, `LoadKind`, `Generate`, `Register` are the steps of a load,
under `reloadMu` (`holder`); callbacks wait for it. One cleaner and one tool handler are the plugins.
A load may fail in a process that runs: the context of `ReloadPlugins`' caller ends, the limit for a
cleaner is over, or the host answers with an error. The index is then without the plugin, and no reload
is due: `skipped` has those whose last load ended so, and PluginsFound is about the others.

| run | instance | shows |
|---|---|---|
| services (part "plugins") | 4 processes, 2 generations, 1 reload, 2 crashes, 2 failures, 2 attempts | PluginsFound |

Two crashes let the second process die while the callback for the first is loading from it.

Proved (in `PluginProofs`) for any of those numbers: `PluginTypeCorrect` and `PluginsAreFound`.
`PluginInv` says who restores the index if it is not complete: the load under way, from a process that
is the current one or has not been looked up, or a callback still to come (`Awaited`); a plugin it has
been through is in the index or skipped (`Settled`). `OwnerInv` and `LockInv` support it.

## RuntimeCalls, RemoteCalls

One process of the runtime behind its connection, as its callers see it. `call` is where each `Call` is:
it checks `stopped`, registers in `pending` (`awaiting`), takes `r.mu` (`muHolder`), writes its request,
waits for the answer, the end of its context (`Limited`) or of the runtime, and deletes its entry.
`ReadFrame`, `Deliver` and what follows are `readResponses`; `ProcessEnds`, `MarkStopped`, `CloseDone`
are `waitProcess`; `BeginHalt`..`HaltKills` are `Shutdown`. The process, `host.js`, takes requests off
the socket as they come (`requested`, `working`) and works on one at a time; it may loop for ever
(`bun = "hung"`), die, or be unable to send an answer (`HostSpoils`).

| run | instance | shows |
|---|---|---|
| services (part "calls") | 3 calls, of which 1 has a context that ends, a socket that holds 1 request | CallsAnswered, CallsAreRemote |

Three calls are enough for one to be worked on, one to fill the socket, and one to be stuck writing with
`r.mu` in its hand, which is what `Shutdown` then waits for.

`CallsAnswered` has two parts. `AnswerComes`: for whoever waits, the answer is to come, on its way or
there, or the process is down. It excepts a reader that ended before the process (a frame that is too
large), a connection that `Shutdown` has closed, and answers that could not be sent.
`NothingLeft`: `pending` holds callers under way only, and the reader is never held up by a channel
that nobody reads.

Proved (in `PluginProofs`) for any calls and socket: `CallsTypeCorrect`, `CallsGetAnswers` and
`RuntimeIsRemote`. `PendingInv` says that a call is in `pending` from its registration until the
reader takes its answer for it, which then is on its way to the call's channel, or there; `SentInv`
that what is under way was written by a call that is past writing; `LostInv` where the answer of
whoever waits is. The last is where each exception comes from: its proof breaks at the step that loses
the answer.

`RemoteCalls` is a runtime as its callers may think of it: a call begins before the stop or is
refused, is sent once to a host not known to be gone, is answered once at most, and returns or fails;
once sent, it fails only if its context ends or the runtime has ended. Socket, reader, process and
locks are not in it. In the mapping a call that waits is *ready* when its answer has been sent,
whether it is on its way, with the reader or in the call's channel (`Replied`), and the end of the
runtime is the closing of `done`. That the answer of a call that has ended is a stutter rests on
`PendingInv` and `SentInv`, that none is sent after the end on `EndOrder` (the process is down and
`stopped` set before `done` is closed).

## PluginInstall, AtomicInstall

One plugin: its directory (`files`: none, part or whole), its row in `installed_plugins` (`record`, by
the number the database gave it) and the row's `checksums`. Every CLI command is a process; each
is used once. `BeginInstall`..`CleanRow` are the steps of `installFromDir` with `cleanupInstall`,
`BeginUninstall`..`ForgetRow` those of `Uninstall`, `Enable` is `SetPluginEnabled`. Each step may fail
where the code returns an error, and `CommandCrashes` ends a command between any two of them.

| run | instance | shows |
|---|---|---|
| services (part "install") | 3 commands, 2 rows | InstalledWhole, InstallsAtomically |

Three commands can install, remove and install again, with another row; or install, enable, and remove.

`InstalledWhole`: at rest, directory, row and checksums are all there or none is (`AllOrNothing`); a
directory without a row, which the daemon would load as installed by hand, is there only while a command
is between its copy and its row (`NoStrayFiles`); an enabled plugin is whole (`EnabledWhole`). All three
except what the code cannot prevent: a crash, a cleanup that failed, and commands that overlap, since
nothing keeps two of them apart.

Proved (in `PluginProofs`) for any commands and rows: `InstallTypeCorrect`, `InstallsWhole` and
`InstallsAreAtomic`. `InstallInv` has, for each step of a command that was never disturbed, what it
finds in the three places (`Stage`), that it is alone, and that at rest there is all or nothing. The
types need `Recorded`: who is about to hash files has the number of its row.

`AtomicInstall` says the same as steps: the plugin is absent, installed or enabled, and a command that
reports success has made its one change. The plugin is taken to be there once its row has the
checksums of its files, so that installing takes effect where they are stored, and removing where the
files go, before the command reports. A failed command changes nothing, except that an uninstallation
that fails after `SetPluginEnabled(false)` leaves the plugin disabled (the step `Disable`). `Disturb`
stands for an overlap, a crash or a cleanup that failed: only reported results are kept then.

## AdapterService, AdapterBridge

`AdapterService` is one slot: the binding in the store, the process, and what the service has
published. `Reconcile` of the watcher, the ticker and the callers of `StartSlot` and `StopSlot` is
`Load`, `Ensure` (by a plan that may be out of date), `List`, `Lock`, and the events; `Heartbeat`
probes what it saw running, and publishes after its lock. A *print* stands for a configuration's
fingerprint; two prints may be of one adapter. `AdapterBridge` extends it with the intent router's
bridge, which subscribes, takes stock once (`Sync`) and then lives on events (`Handle`).

| run | instance | shows |
|---|---|---|
| adapters_settle | 2 prints of 2 adapters, 1 loop, 1 caller, 1 edit, 1 failure, 2 events in the channel | PublishedInTurn, RouterFollows, Settles (liveness) |

One edit while a caller and the loop hold plans of before and after it is the least in which a stale
plan is put into effect; one failure is enough to bring in each error path. `MaxPorts` is a bound
of the model, since the kernel gives out the addresses: at 1, the bridge's breaker tells a restart from
its predecessor by the binding's adapter and version only.

`PublishedInTurn`: two reconciliations take their lists before `updateState`'s lock, and each compares
its own with what the other may have published since. What one decides there holds until it has
published it, nothing is stopped that is not published, and, failures apart, events are of ready and
stopped in turn, the last telling what is published (mutant: `updateState` without its lock).

Proved (in `BridgeProofs`) for any prints, reconcilers, edits and capacities: `BridgeTypeCorrect`,
`PublishesInTurn` and `RouterFollowsService`. The types go with `LockInv`: one reconciliation at a time
is inside `updateState`, and what it has decided there holds (`DecisionsHold`). `HeardInv` is about the
events under way: without failures the service tells of stopping and starting in turn, also in the
channel (`Alternates`), the last event that waits tells what is published (`LastTells`), and the adapter with
which the bridge comes to the events is one for which the last of them has its effect (`Comes`): a
`ready` of the adapter it has is no news, and a `stopped` of another is ignored.

Fairness: a reconciliation that has begun goes on, the loops reconcile again and again (a ticker), and
the bridge handles its events; the heartbeat, the store and callers owe nothing. `Settles` needs no
more: the ticker corrects what a stale plan has done. `RouterFollows` is stated for runs without
failures, because with them it is false; see below.

## IntentRouter

The goroutine that handles prompts (`router` is the step of `handlePrompt` and `executeActions` it is
at), the one that forgets sessions (`HearStopped`, `HearDetached`: `clearToolCache` resets the
conversation session), and the command executor with its queue, channel of one and goroutine. `life`
is a session's life together with what the router has heard of it. A command passes `ValidateCommand`
(`GetSession`), `CheckStatus` (`QueueCommand`, which must find it running), `PushCommand`, `WakeDrain`
and `UpdateContext`, with the session ending between any two of them. What adapters answer and
plugins' tools return is a choice; the tool loop is its count.

| run | instance | shows |
|---|---|---|
| speech (part "router") | 2 sessions (symmetric), 2 rounds of tools, a queue of 1 | RouterSound |

Two sessions are the least for `FollowContext` and `TakeOnly` to differ, two rounds reach the limit.

`RouterSound` has three parts. `ContextLives`: prompts without a session are not sent to one whose end
the router has heard of; it excepts the end that is heard while a command for that session is between
its check and `updateConversationSession` (`overtaken`). `CommandsServed`: a command in the queue has
a notice or a drain at work. `PromptsAnswered`: no prompt ends without a reply, but for actions that
have nothing to say.

Proved (in `SpeechProofs`) for any sessions, rounds and queue: `RouterTypeCorrect` and
`RouterIsSound`. `RouterInv` adds `RefLives` (a command that has been found to have a running session
and whose end has been heard since is `overtaken`) and that the reply is there when the next action is
due, not only at the end.

## BargeIn, AudioIngress, Notification

`BargeIn` is the coordinator for one session: three consumers, each in steps (look up the target,
register under the lock, publish), with times that the publishers put on their events and that may
arrive late and out of order. `AudioIngress` is one identifier: `OpenStream`, `WriteAudio` with its
segmentation, and `CloseStream`, `Close` and `Shutdown`, which each find, flush and remove in steps.
`Notification` is a consumer for each subscription, the goroutines they start under the semaphore,
`isDuplicate` with its cleanup and hard cap, pushes that fail and take their entry back
(`ClearDedup`), and `Shutdown` with its two waits, either of which may be cut short.

| run | instance | shows |
|---|---|---|
| speech (part "barge") | 2 playbacks, cooldown 2, quiet time 1, 3 playback events, 1 trigger for each consumer, 3 ticks | BargesFit |
| speech (part "ingress") | segments of 2, writes of 1 and 3, 2 closers and Shutdown, 2 streams | StreamsWhole |
| speech (part "notices") | 2 keys in 2 subscriptions, window 2, 2 slots, 3 events, 3 ticks; cleanup above 1 entry, hard cap 1 | NotifiedOnce |

Three playback events let one playback end and the other begin around a lookup. Writes of one and
three leave a rest, fill one and overfill one. Three events are two of one key and one of another,
whose entry makes the map too large. `Prompt` bounds how long an event is under way by the window: the
timeouts of the store, the push and the cleanup for the event and the slot it waits for add up to 28
of the window's 30 seconds.

Proved for any values of the bounds: `BargeTypeCorrect`, `BargesFitPlaybacks`, `IngressTypeCorrect` and
`StreamsArePublishedWhole` (in `StreamProofs`), `NotifyTypeCorrect` and `NotifiedAtMostOnce` (in
`SpeechProofs`).

- Barge-in: the entry in `lastEvent` is the time of the latest trigger let through, so that triggers past
  that check are a cooldown apart whatever their order of publication (`TriggerInv`, `BargedInv`), and
  a stream that plays was in the middle of its playback by the events heard (`PlayingInv`).
- Ingress: what is published of a stream is a run of full segments with one shorter last one. `EndingInv`
  says that whoever is between closing a stream and removing it has it locked, and that the table still
  has that stream; `UnopenedInv` that nothing is known of streams to come. `IngressBounds` gives the types their
  limits: what is kept back of a stream is less than a segment and no more than was written to it.
- Notification: `NoticeInv` ties an event's place to its age and to whether it has its entry; `ApartInv` says that two events
  of one key that may come to a push are a window apart; `EntryInv` that the entry left is as young as
  the event that used it; `ShutInv` what the two waits of Shutdown leave. For
  the types, `SlotsHeld` counts the goroutines against the semaphore, and `MapBounded` says that the map
  never has more entries than the cleanup threshold or than the hard cap, whichever entries the
  cleanup finds old enough; it needs a positive threshold (the code's is 100), for with none the
  entry just made would be above it.

## What is proved, and what is only checked

Proved by TLAPS for every value of the constants: the theorems of the eight modules `*Proofs.tla`,
from the named assumptions on the constants and nothing else. They state every invariant that
a passing run checks, and the five implementations of abstract specifications. Each of the
invariants they rest on was checked by TLC before.

- Bounds are naturals, and those that must not be are positive: `PolicyAssumption`, `EventAssumption`,
  `BoundAssumption`, `SizeAssumption`, `FailuresAssumption`, `InterruptAssumption`, `BufferAssumption`, `ChunkAssumption`,
  `ToolAssumption`, `LogAssumption`, `JournalAssumption`, `AwarenessAssumption`, `ConversationAssumption`,
  `HostAssumption`, `PluginAssumption`, `CallsAssumption`, `InstallAssumption`, `OutputAssumption`,
  `AdapterAssumption`, `BridgeAssumption`, `RouterAssumption`, `BargeAssumption`, `IngressAssumption`,
  `NotificationAssumption`. Some of these also keep names of actors, or keys of subscriptions, apart.
- Sets of possible inputs are of the right kind: `LastAssumption`, `LifecycleAssumption`,
  `ObedienceAssumption`; sets of actors are finite or have other names: `ClientsAssumption`,
  `KillersAssumption`.

The argument is the same everywhere: an inductive invariant, one lemma for each action or group of
actors, and a theorem that combines them. What makes an invariant inductive is named in each section.
An implementation has two parts more: the initial states map to initial states, and a step from a
state with the invariant maps to a step of the abstract specification or to a stutter. For LossyFifo,
Delivery, RemoteCalls and AtomicInstall most steps are stutters; the others are given by name in the
proofs.

The composed runs (MCSessions, MCSpeech, MCServices) are about parts of which one is at work in a
behaviour. `SessionsCompose`, `SpeechComposes` and `ServicesCompose` say that such a behaviour is one
of every part, and `SessionsTypeCorrect`, `SpeechTypeCorrect` and `ServicesTypeCorrect` put the parts'
types together.

Only model-checked:

- NothingHangs (bus_live), StopReturns and ExitSettles (session_stop), Settles (adapters_settle): what must
  eventually happen. Liveness under fairness, and with it what is enabled, is out of the prover's reach.
- The three violations: a counterexample is for TLC to find.

## Behaviours of the code found while modelling

Three contradict a comment and have a run that shows it (the findings in `PROJECT.json`):

- session_stubborn: `Stop` waits for `commandMu`, which the goroutine holds that waits for the child;
- stream_stranded: a retry that finds a stream leaves the pending queue without flush and timer;
- egress_wiped: an interrupted stream clears what was buffered to survive it.

The others are in the models, where a property says precisely what holds in spite of them, or are
seen while translating the code. Paths are under `src/internal`.

Bus, sessions and output:

- the fallback of a full ring puts the newest event ahead of those in the ring (`eventbus/bus.go:325`);
- attach and detach decide on a status they read earlier, and may announce a stopped session as
  running or detached (`session/manager.go:433`);
- an exit published while `Stop` closes the event channel is dropped, and the monitor ends without
  announcing it; the killer does (`session/manager.go:319`);
- attaching takes the history, writes it and then adds the sink: a chunk that was stored but not yet
  broadcast comes twice, although the comment at `session/manager.go:409` says this "prevents duplicate
  data between history and new stream"; chunks broadcast in between are missed;
- output before the sinks are added never reaches recorder, bus or tool handler; a kill closes the
  recorder while output is still broadcast; a slow client freezes the broadcast for all;
- a killed session never stops its tool detection, so the goroutine that announces tools stays; the
  icon announced with a first tool may be that of a later one; a change is lost when `changeChan` is
  full;
- a client's stream subscribes to the lifecycle after attaching, and never ends if the session stops in
  between;
- terminal size: `termresize/mode_host_lock.go:30,44` speaks of notifying everyone, and only the requester is
  told; `ForgetSession` is never called.

Pipeline, conversation and its log:

- the idle entry of a tool survives new output; after a cleanup a flush of the old buffer cancels the
  timer of the new one (`contentpipeline/service.go:405`);
- a detach timer that has fired, and waits for the lock while it is cancelled, clears a session in use
  (`conversation/service.go:438`); a tool event or message that comes after the stop fills the cache or
  the rate limits again (`:180`, `:410`);
- the guard of a compaction is released by two stores (`awareness/conversation_log.go:616`): one
  started between them has its time erased, is never found stale and blocks compaction for ever if it
  is not answered; a late answer releases the guard of a newer compaction; a crash between the cut and
  the answer loses the turns that were cut; so do `AppendSummary` and its fallback when both fail, which
  is only logged (`:651`).

Router and awareness:

- when the conversation session is set after its stop was heard, prompts go to a session that has ended
  (`intentrouter/service.go:673`); stopped sessions stay in the manager's table, since nothing calls
  `CleanupStopped`, so they count as available and `GetSession` finds them;
- the executor's fallback takes the prompt's session and not the one the request was routed to; nothing
  in the daemon calls its `Stop`;
- a late prompt of a session that has ended claims the onboarding lock, which is then never released; a
  heartbeat is told "at most once" but for a crash between its event and `UpdateHeartbeatLastRun`; a
  session whose stop comes before its creation leaves a log file open in the journal.

Speech:

- VAD streams are never closed before Shutdown (`audio/vad/service.go:328`);
- barge-in clears the pending queue before it stops a stream, which may then rebuffer
  (`audio/egress/service.go:348`);
- voice activity during the quiet time of a stream triggers all the same if the stream plays again, and
  with a quiet and a playing stream it depends on the order in which Go walks a map whether it does
  (`audio/barge/service.go:252`); a stream that rebuffers stays "playing" for the coordinator;
- an audio stream opened while Shutdown closes its snapshot stays open (`audio/ingress/service.go`), and
  the branch of closing for a full segment is never taken, since writing leaves less than one.

Host, plugins, adapters, notification:

- an update while the host starts makes a second gateway, which leaks or fails to listen; `Stop` may
  call a service that a restart has just set to nil (`runtime/service_host.go:138`); a restart whose
  start fails leaves no gateway and is not tried again (`daemon/daemon.go:564`); the port written back
  may overwrite an update already acknowledged (`server/api_server.go:830`);
- a `Reload` whose caller gives up, or a load that exceeds its limit, replaces the index without the plugin
  although the runtime is up, and nothing loads it again before the next reload (`plugins/service.go:196`,
  `:314`); a runtime that dies before the callback is registered is restarted without a reload; loading a tool
  handler has no time limit, and with a runtime that no longer answers holds `reloadMu` for ever;
  `Shutdown` during a restart leaves the new process running (`jsruntime/supervised.go:91`);
- `Shutdown` of a runtime that has crashed returns at once and leaves its socket and temporary script; it
  takes `r.mu` before it closes the connection, so that a host that hangs with a full socket blocks it
  beyond its context (`jsruntime/runtime.go:341`); a frame that is too large ends the reader without closing
  `done`, and an answer with no JSON form goes out under the id 0 (`host.js:307`), so that callers wait
  until their contexts end;
- of two installations of one plugin the loser's cleanup deletes the winner's directory; a crash between
  copy and row blocks another installation while `uninstall` finds nothing to remove, and the daemon takes
  the directory for a manual installation (`plugins/installer/installer.go:262`);
- a heartbeat's result is published after its lock is released, and a degraded status that was out of
  date is not corrected; an error event makes the router let go of an adapter that runs on, and no ready
  follows; a ready refused or dropped in the backoff is not repeated
  (`intentrouter/adapter_bridge.go:386`), whose shift overflows after 35 errors;
- `Shutdown` of notifications clears the map although its wait has timed out, against its comment
  (`notification/service.go:155`); the cleanup of a large map compares the current time and not that of
  receipt, so that an event handled late is pushed again (`:458`, against the comment at 438-441); an
  event suppressed in favour of one whose push fails is never sent; a push whose answer is lost counts
  as failed, and devices may be told twice.

## Not modelled

`PROJECT.json` lists every component with the reason. In short:

- the intent router's tool cache, the adapters' protocols and the tools (their answers are choices);
- the core memory of awareness, its search, chunking and embedding (data);
- adapter probes and launch, adapter streams, the push client: one call each, whose outcome is an input
  of the models;
- terminal size: one decision under a lock;
- the configuration store: SQL with one transaction per write, an input of TransportHost and
  AdapterService;
- API server, WebSocket relay, CLI and clients: they translate requests, and the parts with state of
  their own (session stream, `UpdateTransportConfig`) are in SessionOutput and TransportHost;
- downloading, unpacking and verifying plugin packages, bootstrap, prompts, language, mapping, sanitizing, validation: sequential I/O and
  conversions of text; the API code is generated.

Of what is modelled, each section says what it leaves out: payloads, wording, plugins' answers and
adapters' protocols are choices of the environment.
