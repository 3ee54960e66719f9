----------------------------- MODULE AudioEgress -----------------------------
(***************************************************************************)
(* Text to speech (internal/audio/egress): the stream manager with the     *)
(* parts only this service uses.  A request is spoken by the key's stream; *)
(* when the adapter fails under it the stream puts its requests back into  *)
(* the pending queue and ends (rebuffering).  Barge-in interrupts the      *)
(* stream, and the end of the session stops it.                            *)
(*                                                                         *)
(* A segment of StreamManager is a speak request here, and done[h] lists   *)
(* the requests stream h has spoken.  Playback events are left out.        *)
(***************************************************************************)
EXTENDS StreamManager

CONSTANT MaxInterrupts   \* bound: interruptions

ASSUME InterruptAssumption == MaxInterrupts \in Nat

VARIABLES
    speaking,    \* speaking[h]: the request stream h is about
    stopped,     \* the streams with stream.stopped
    keep,        \* the streams with stream.keepPending
    found,       \* handleSpeakRequest found the stream, and did not create it
    barge,       \* where interruptStream is
    interrupts,  \* number of interruptions
    lifecycle,   \* where the handler of the session's end is
    target,      \* target[x]: the stream in the hands of x
    saved,       \* history: pending requests whose Enqueue had failed
    wiped,       \* history: those of them dropped because a stream ended
    slipped      \* history: requests sent to a stream after its context's end

sVars == <<speaking, stopped, keep>>
handlerVars == <<barge, interrupts, lifecycle, target>>
savedVars == <<saved, wiped, slipped>>
egressVars == <<sVars, found, handlerVars, savedVars>>
evars == <<vars, egressVars>>

EgressTypeOK ==
    /\ received \in 0..MaxSegments
    /\ hand \in [Actors -> Seq(Segments)] /\ to \in [Actors -> Streams \cup {0}]
    /\ pending \in Seq(Segments) /\ Len(pending) <= MaxPending
    /\ timer \in Timers \cup {0} /\ stream \in Streams \cup {0}
    /\ worker \in [Streams -> {"none", "run", "speak", "rebuffer", "drain",
                               "exit", "closed", "cancel", "done"}]
    /\ \A h \in Streams : Len(queue[h]) <= Capacity
    /\ speaking \in [Streams -> Seq(Segments)]
    /\ stopped \subseteq Streams /\ keep \subseteq stopped
    /\ barge \in {"idle", "clear", "stop"} /\ interrupts \in 0..MaxInterrupts
    /\ lifecycle \in {"idle", "stop", "end"}
    /\ target \in [{"barge", "lifecycle"} -> Streams \cup {0}]
    /\ saved \cup slipped \subseteq Segments /\ wiped \subseteq dropped

EgressInit ==
    /\ Init
    /\ speaking = [h \in Streams |-> <<>>] /\ stopped = {} /\ keep = {}
    /\ found = FALSE
    /\ barge = "idle" /\ interrupts = 0 /\ lifecycle = "idle"
    /\ target = [x \in {"barge", "lifecycle"} |-> 0]
    /\ saved = {} /\ wiped = {} /\ slipped = {}

-----------------------------------------------------------------------------
(* handleSpeakRequest and the retries.                                     *)

RequestRecv ==
    /\ ConsumerRecv
    /\ found' = (stream # 0)
    /\ UNCHANGED <<sVars, handlerVars, savedVars>>

\* The loser of the race to register is stopped, not only cancelled.
RequestRegister(a) ==
    /\ Register(a)
    /\ stopped' = IF stream # 0 THEN stopped \cup {to[a]} ELSE stopped
    /\ UNCHANGED <<speaking, keep, found, handlerVars, savedVars>>

RequestCreate(a) ==
    \/ RequestRegister(a)
    \/ /\ CreateFast(a) \/ FactoryOpens(a) \/ FactoryUnavailable(a)
          \/ FactoryFails(a)
       /\ UNCHANGED egressVars
    \/ /\ FlushPending(a)
       /\ saved' = saved \ ToSet(pending)
       /\ UNCHANGED <<sVars, found, handlerVars, wiped, slipped>>

\* stream.Enqueue reads the flag, Worker.Enqueue the context, and then waits.
RequestChecks(a) ==
    /\ hand[a] # <<>>
    /\ \/ pc[a] = "enqueue" /\ to[a] \notin stopped /\ Goto(a, "ctx")
       \/ pc[a] = "ctx" /\ ~Cancelled(to[a]) /\ Goto(a, "send")
    /\ UNCHANGED <<received, to, hand, pendingVars, streamVars, workerVars,
                   historyVars, endVars, egressVars>>

RequestSend(a) ==
    /\ EnqueueSend(a)
    /\ slipped' = IF Cancelled(to[a]) THEN slipped \cup {Head(hand[a])} ELSE slipped
    /\ UNCHANGED <<sVars, found, handlerVars, saved, wiped>>

RequestEnd(a) ==
    /\ EnqueueEnd(a)
    /\ found' = (found /\ a # Consumer)
    /\ UNCHANGED <<sVars, handlerVars, savedVars>>

\* It fails for a stopped stream and for one whose context is done.
FailsStopped(a) == pc[a] = "enqueue" /\ to[a] \in stopped
FailsCancelled(a) == pc[a] \in {"ctx", "send"} /\ Cancelled(to[a])

\* The request goes to the pending queue if the stream is stopped, or if the
\* consumer found the stream and the service is running.
RequestBuffers(a) ==
    /\ hand[a] # <<>>
    /\ \/ FailsStopped(a) /\ (a = Consumer /\ found => ~closing)
       \/ FailsCancelled(a) /\ a = Consumer /\ found /\ ~closing
    /\ BufferItem(Head(hand[a]), [pc EXCEPT ![a] = "enqueue"])
    /\ hand' = [hand EXCEPT ![a] = Tail(@)]
    /\ saved' = saved \cup {Head(hand[a])}
    /\ UNCHANGED <<received, to, failures, streamVars, workerVars, overtook,
                   endVars, sVars, found, handlerVars, wiped, slipped>>

\* Otherwise it is given up.
RequestDrops(a) ==
    /\ hand[a] # <<>>
    /\ \/ FailsStopped(a) /\ a = Consumer /\ found /\ closing
       \/ FailsCancelled(a) /\ (a = Consumer /\ found => closing)
    /\ dropped' = dropped \cup {Head(hand[a])}
    /\ hand' = [hand EXCEPT ![a] = Tail(@)]
    /\ Goto(a, "enqueue")
    /\ UNCHANGED <<received, to, pendingVars, streamVars, workerVars, overtook,
                   endVars, egressVars>>

RequestFirst == (BufferPending \/ ConsumerEnd) /\ UNCHANGED egressVars

RequestRetry(t) == Retry(t) /\ UNCHANGED egressVars

Request ==
    \/ RequestRecv \/ RequestFirst
    \/ \E a \in Actors :
          \/ RequestCreate(a) \/ RequestChecks(a) \/ RequestSend(a)
          \/ RequestEnd(a) \/ RequestBuffers(a) \/ RequestDrops(a)
    \/ \E t \in Timers : RequestRetry(t)

-----------------------------------------------------------------------------
(* The worker of a stream.                                                 *)

WorkerGoto(h, place) == worker' = [worker EXCEPT ![h] = place]

SpeakStarts(h) ==
    /\ worker[h] = "run" /\ queue[h] # <<>>
    /\ speaking' = [speaking EXCEPT ![h] = <<Head(queue[h])>>]
    /\ queue' = [queue EXCEPT ![h] = Tail(@)]
    /\ WorkerGoto(h, "speak")
    /\ UNCHANGED <<actorVars, pendingVars, streamVars, cancelled, done,
                   historyVars, endVars, stopped, keep, found, handlerVars,
                   savedVars>>

\* Spoken, or failed in a way that is only logged.
SpeakEnds(h) ==
    /\ worker[h] = "speak"
    /\ done' = [done EXCEPT ![h] = @ \o speaking[h]]
    /\ speaking' = [speaking EXCEPT ![h] = <<>>]
    /\ WorkerGoto(h, "run")
    /\ UNCHANGED <<actorVars, pendingVars, streamVars, queue, cancelled,
                   historyVars, endVars, stopped, keep, found, handlerVars,
                   savedVars>>

\* Mutant of SpeakUnavailable: the stream goes on accepting requests.
SpeakUnavailable_Open(h) ==
    /\ worker[h] = "speak"
    /\ keep' = keep \cup {h}
    /\ WorkerGoto(h, "rebuffer")
    /\ UNCHANGED <<actorVars, pendingVars, streamVars, queue, cancelled, done,
                   historyVars, endVars, speaking, stopped, found, handlerVars,
                   savedVars>>

\* The adapter is unavailable: rebufferPending.
SpeakUnavailable(h) ==
    /\ worker[h] = "speak"
    /\ stopped' = stopped \cup {h} /\ keep' = keep \cup {h}
    /\ WorkerGoto(h, "rebuffer")
    /\ UNCHANGED <<actorVars, pendingVars, streamVars, queue, cancelled, done,
                   historyVars, endVars, speaking, found, handlerVars, savedVars>>

\* Mutant of Rebuffer: the context is not cancelled before the drain.
Rebuffer_Running(h) ==
    /\ worker[h] = "rebuffer"
    /\ BufferItem(Head(speaking[h]), pc)
    /\ speaking' = [speaking EXCEPT ![h] = <<>>]
    /\ WorkerGoto(h, "drain")
    /\ UNCHANGED <<received, to, hand, failures, streamVars, queue, cancelled,
                   done, overtook, endVars, stopped, keep, found, handlerVars,
                   savedVars>>

\* The failed request is buffered and the context cancelled ...
Rebuffer(h) ==
    /\ worker[h] = "rebuffer"
    /\ BufferItem(Head(speaking[h]), pc)
    /\ speaking' = [speaking EXCEPT ![h] = <<>>]
    /\ cancelled' = cancelled \cup {h}
    /\ WorkerGoto(h, "drain")
    /\ UNCHANGED <<received, to, hand, failures, streamVars, queue, done,
                   overtook, endVars, stopped, keep, found, handlerVars,
                   savedVars>>

\* DrainNonBlocking, item by item, and then to next.
Drain(h, next) ==
    /\ IF queue[h] = <<>>
          THEN WorkerGoto(h, next) /\ UNCHANGED <<queue, pendingVars, pc, dropped>>
          ELSE /\ BufferItem(Head(queue[h]), pc)
               /\ queue' = [queue EXCEPT ![h] = Tail(@)]
               /\ UNCHANGED <<worker, failures>>
    /\ UNCHANGED <<received, to, hand, streamVars, cancelled, done, overtook,
                   endVars, egressVars>>

\* ... before the queue is drained into the pending queue.
RebufferDrain(h) == worker[h] = "drain" /\ Drain(h, "exit")

SpeakStops(h) == WorkerStops(h) /\ UNCHANGED egressVars

\* onStreamClosed: RemoveStream; then the pending queue is deleted, unless
\* the stream was rebuffered: then its channel is drained once more.
StreamClosed(h) ==
    /\ worker[h] = "exit"
    /\ stream' = IF stream = h THEN 0 ELSE stream
    /\ WorkerGoto(h, "closed")
    /\ UNCHANGED <<actorVars, pendingVars, streams, queue, cancelled, done,
                   historyVars, endVars, egressVars>>

ClosedClears(h) ==
    /\ worker[h] = "closed" /\ h \notin keep
    /\ DeletePending(pc)
    /\ wiped' = wiped \cup (saved \cap ToSet(pending))
    /\ WorkerGoto(h, "cancel")
    /\ UNCHANGED <<received, to, hand, timers, streamVars, queue, cancelled,
                   done, overtook, endVars, sVars, found, handlerVars, saved,
                   slipped>>

ClosedDrains(h) == worker[h] = "closed" /\ h \in keep /\ Drain(h, "cancel")

SpeakCancels(h) == WorkerCancels(h) /\ UNCHANGED egressVars

Speaker(h) ==
    \/ SpeakStarts(h) \/ SpeakEnds(h) \/ SpeakUnavailable(h) \/ Rebuffer(h)
    \/ RebufferDrain(h) \/ SpeakStops(h) \/ StreamClosed(h) \/ ClosedClears(h)
    \/ ClosedDrains(h) \/ SpeakCancels(h)

-----------------------------------------------------------------------------
(* Barge-in, the end of the session and Shutdown.                          *)

\* The consumers of events still run.
Consuming == shutdown \notin {"wait", "end"}

\* interruptStream: find the stream, clear the pending queue, stop the worker.
InterruptFinds ==
    /\ barge = "idle" /\ Consuming /\ stream # 0 /\ interrupts < MaxInterrupts
    /\ target' = [target EXCEPT !["barge"] = stream]
    /\ barge' = "clear" /\ interrupts' = interrupts + 1
    /\ UNCHANGED <<vars, sVars, found, lifecycle, savedVars>>

InterruptClears ==
    /\ barge = "clear"
    /\ DeletePending(pc)
    /\ barge' = "stop"
    /\ UNCHANGED <<received, to, hand, timers, streamVars, workerVars, overtook,
                   endVars, sVars, found, interrupts, lifecycle, target,
                   savedVars>>

InterruptStops ==
    /\ barge = "stop"
    /\ cancelled' = cancelled \cup {target["barge"]}
    /\ barge' = "idle" /\ target' = [target EXCEPT !["barge"] = 0]
    /\ UNCHANGED <<actorVars, pendingVars, streamVars, worker, queue, done,
                   historyVars, endVars, sVars, found, interrupts, lifecycle,
                   savedVars>>

\* RemoveStreamByKey when the session has stopped.
SessionRemoves ==
    /\ lifecycle = "idle" /\ Consuming
    /\ target' = [target EXCEPT !["lifecycle"] = stream]
    /\ stream' = 0
    /\ lifecycle' = IF stream = 0 THEN "end" ELSE "stop"
    /\ UNCHANGED <<actorVars, pendingVars, streams, workerVars, historyVars,
                   endVars, sVars, found, barge, interrupts, savedVars>>

\* Mutant of SessionStops: the removed stream is not stopped.
SessionStops_Not ==
    /\ lifecycle = "stop"
    /\ lifecycle' = "end"
    /\ UNCHANGED <<vars, sVars, found, barge, interrupts, target, savedVars>>

SessionStops ==
    /\ lifecycle = "stop"
    /\ stopped' = stopped \cup {target["lifecycle"]}
    /\ cancelled' = cancelled \cup {target["lifecycle"]}
    /\ lifecycle' = "end" /\ target' = [target EXCEPT !["lifecycle"] = 0]
    /\ UNCHANGED <<actorVars, pendingVars, streamVars, worker, queue, done,
                   historyVars, endVars, speaking, keep, found, barge,
                   interrupts, savedVars>>

Handlers == \/ InterruptFinds \/ InterruptClears \/ InterruptStops
            \/ SessionRemoves \/ SessionStops

EgressShutdownStart == ShutdownStart /\ UNCHANGED egressVars

ConsumersEnded ==
    pc[Consumer] = "end" /\ barge = "idle" /\ lifecycle # "stop"

\* Shutdown waits for the consumers before it closes the streams.
EgressCloseStreams ==
    /\ ConsumersEnded /\ CloseAllStreams
    /\ stopped' = IF stream # 0 THEN stopped \cup {stream} ELSE stopped
    /\ UNCHANGED <<speaking, keep, found, handlerVars, savedVars>>

\* The wait for the streams in between may time out.
EgressShutdownPending == ShutdownPending /\ UNCHANGED egressVars

EgressShutdownTimeout ==
    /\ shutdown = "streams" /\ ~ConsumersEnded
    /\ shutdown' = "failed"
    /\ UNCHANGED <<actorVars, pendingVars, streamVars, workerVars, historyVars,
                   closing, egressVars>>

EgressShutdown == \/ EgressShutdownStart \/ EgressCloseStreams
                  \/ EgressShutdownPending \/ EgressShutdownTimeout

EgressNext ==
    \/ Request \/ Handlers \/ EgressShutdown
    \/ \E h \in Streams : Speaker(h)

EgressSpec == EgressInit /\ [][EgressNext]_evars

-----------------------------------------------------------------------------
(* Properties.                                                             *)

\* A request is in one place, spoken by one stream or dropped: rebuffering a
\* stream, with its two drains, neither loses nor doubles one.
RequestOnce ==
    \A s \in 1..received :
        Cardinality(Where(s)) + Cardinality({h \in Streams : s \in ToSet(speaking[h])}) = 1

\* A synthesizer that nobody has told to end is the key's stream, or about to
\* be registered, or about to be stopped by the end of the session.
NoOrphanSynth ==
    \A h \in Streams :
        worker[h] \in {"run", "speak", "rebuffer"} /\ ~Cancelled(h) =>
            \/ stream = h
            \/ \E a \in Actors : pc[a] = "register" /\ to[a] = h
            \/ lifecycle = "stop" /\ target["lifecycle"] = h

\* The key's stream is alive or about to be removed: interruption, rebuffering
\* and session end leave no dead stream that swallows later requests.
SynthAlive ==
    stream # 0 /\ ~closing =>
        worker[stream] \in {"run", "speak", "rebuffer", "drain", "exit"}

\* The table and the running synthesizers agree, with barge-in, rebuffering and
\* the end of the session at work on the same stream.
SynthsRegistered == NoOrphanSynth /\ SynthAlive

\* When a rebuffered stream has ended its channel holds only requests whose
\* sender chose the channel although the context was done already.
DrainComplete ==
    \A h \in keep : worker[h] = "done" => ToSet(queue[h]) \subseteq slipped

\* What a stream that rebuffers holds is neither lost nor doubled, and nothing
\* of it stays behind in the channel it no longer reads.
RequestsServed == RequestOnce /\ DrainComplete

\* A request buffered because the stream was dying survives the transition
\* to the next stream, while the session and the service go on.
SurvivesTransition ==
    lifecycle = "idle" /\ ~closing => wiped = {}

-----------------------------------------------------------------------------
(* What the service promises: no order, for a request that was put back    *)
(* may be behind newer ones.                                               *)

\* The streams that will speak no more requests.
SilentStreams == {h \in Streams : worker[h] \notin {"none", "run", "speak"}}

SpeechPromise == INSTANCE Delivery WITH
    MaxItems <- MaxSegments, Last <- {}, arrived <- received, opened <- streams,
    ended <- SilentStreams,
    given <- done, lost <- dropped, early <- Segments

\* However often its stream is interrupted, rebuffered or removed, a request is
\* spoken once at most, by a stream that has not ended, or given up for good.
SpeaksOnce == SpeechPromise!Spec
=============================================================================
