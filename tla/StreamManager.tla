---------------------------- MODULE StreamManager ----------------------------
(***************************************************************************)
(* The stream manager (internal/audio/streammanager) for one key, with the *)
(* workers of its streams and the segment consumer of the STT service that *)
(* uses it.  A segment goes to the key's stream; while no adapter can be   *)
(* had it waits in the pending queue, and a retry timer's callback opens   *)
(* the stream and replays the queue.  Callbacks may overlap with each      *)
(* other and with the consumer.                                            *)
(*                                                                         *)
(* Segments are numbers, in the order of their arrival.  Streams are       *)
(* numbers, in the order of their creation, and so are timers.             *)
(***************************************************************************)
EXTENDS Naturals, Sequences, FiniteSets

CONSTANTS
    MaxSegments,  \* bound: segments that arrive
    Last,         \* the segments marked as the last of their stream
    MaxStreams,   \* bound: streams created
    MaxTimers,    \* bound: retry timers set
    MaxPending,   \* Config.MaxPending
    Capacity,     \* the buffer of Worker.ch
    MaxFailures   \* RetryConfig.MaxFailures

ASSUME BoundAssumption ==
    MaxSegments \in Nat /\ MaxStreams \in Nat /\ MaxTimers \in Nat
ASSUME LastAssumption == Last \subseteq 1..MaxSegments
ASSUME SizeAssumption == MaxPending \in Nat \ {0} /\ Capacity \in Nat \ {0}
ASSUME FailuresAssumption == MaxFailures \in Nat

Segments == 1..MaxSegments
Streams == 1..MaxStreams
Timers == 1..MaxTimers
Consumer == 0
Actors == {Consumer} \cup Timers

VARIABLES
    received,   \* number of segments the consumer has taken
    pc,         \* pc[a]: where the consumer or the timer callback is
    to,         \* to[a]: the stream it has in hand, 0 if none
    hand,       \* hand[a]: the segments it still has to enqueue there
    pending,    \* Items of the key's PendingQueue; no queue if empty
    failures,   \* its FailureCount
    timer,      \* its timer, 0 for nil
    timers,     \* number of timers set so far
    stream,     \* the key's entry in Manager.streams, 0 if none
    streams,    \* number of streams created so far
    worker,     \* worker[h]: where the worker of stream h is
    queue,      \* queue[h]: Worker.ch
    cancelled,  \* the streams whose context has been cancelled by Stop
    done,       \* done[h]: the segments the worker has processed, in order
    dropped,    \* segments the code gives up
    overtook,   \* history: segments enqueued while older ones were replayed
    closing,    \* the service's context is cancelled
    shutdown    \* where Shutdown is

actorVars == <<received, pc, to, hand>>
pendingVars == <<pending, failures, timer, timers>>
streamVars == <<stream, streams>>
workerVars == <<worker, queue, cancelled, done>>
historyVars == <<dropped, overtook>>
endVars == <<closing, shutdown>>
vars == <<actorVars, pendingVars, streamVars, workerVars, historyVars, endVars>>

TypeOK ==
    /\ received \in 0..MaxSegments
    /\ pc \in [Actors -> {"off", "set", "recv", "fast", "factory", "register",
                          "flush", "enqueue", "send", "buffer", "again",
                          "failed", "end"}]
    /\ to \in [Actors -> Streams \cup {0}]
    /\ hand \in [Actors -> Seq(Segments)]
    /\ pending \in Seq(Segments) /\ Len(pending) <= MaxPending
    /\ failures \in Nat /\ failures <= MaxFailures
    /\ timer \in Timers \cup {0} /\ timers \in 0..MaxTimers
    /\ stream \in Streams \cup {0} /\ streams \in 0..MaxStreams
    /\ worker \in [Streams -> {"none", "run", "exit", "cancel", "done"}]
    /\ queue \in [Streams -> Seq(Segments)]
    /\ \A h \in Streams : Len(queue[h]) <= Capacity
    /\ cancelled \subseteq Streams
    /\ done \in [Streams -> Seq(Segments)]
    /\ dropped \subseteq Segments /\ overtook \subseteq Segments
    /\ closing \in BOOLEAN
    /\ shutdown \in {"no", "streams", "wait", "end", "failed"}

Init ==
    /\ received = 0
    /\ pc = [a \in Actors |-> IF a = Consumer THEN "recv" ELSE "off"]
    /\ to = [a \in Actors |-> 0] /\ hand = [a \in Actors |-> <<>>]
    /\ pending = <<>> /\ failures = 0 /\ timer = 0 /\ timers = 0
    /\ stream = 0 /\ streams = 0
    /\ worker = [h \in Streams |-> "none"] /\ queue = [h \in Streams |-> <<>>]
    /\ cancelled = {} /\ done = [h \in Streams |-> <<>>]
    /\ dropped = {} /\ overtook = {}
    /\ closing = FALSE /\ shutdown = "no"

ToSet(s) == {s[i] : i \in 1..Len(s)}

Goto(a, place) == pc' = [pc EXCEPT ![a] = place]

\* A worker's context is derived from the service's.
Cancelled(h) == closing \/ h \in cancelled

\* Where an actor goes when it has no stream to enqueue to.
Home(a) == IF a = Consumer THEN "recv" ELSE "end"

\* Timer.Stop and the timer forgotten; one that has fired goes on.
StopTimer(at) ==
    IF timer # 0 /\ pc[timer] = "set" THEN [at EXCEPT ![timer] = "end"] ELSE at

-----------------------------------------------------------------------------
(* CreateStream, by the consumer or by a retry.                            *)

CreateFast(a) ==
    /\ pc[a] = "fast"
    /\ IF stream # 0
          THEN /\ to' = [to EXCEPT ![a] = stream]
               /\ Goto(a, IF a = Consumer THEN "enqueue" ELSE "end")
          ELSE Goto(a, "factory") /\ UNCHANGED to
    /\ UNCHANGED <<received, hand, pendingVars, streamVars, workerVars,
                   historyVars, endVars>>

\* The factory opens an adapter and starts the worker of a new stream ...
FactoryOpens(a) ==
    /\ pc[a] = "factory" /\ streams < MaxStreams
    /\ streams' = streams + 1
    /\ worker' = [worker EXCEPT ![streams'] = "run"]
    /\ to' = [to EXCEPT ![a] = streams']
    /\ Goto(a, "register")
    /\ UNCHANGED <<received, hand, pendingVars, stream, queue, cancelled, done,
                   historyVars, endVars>>

\* ... or has no adapter for now: the consumer buffers, a retry tries again.
FactoryUnavailable(a) ==
    /\ pc[a] = "factory"
    /\ Goto(a, IF a = Consumer THEN "buffer" ELSE "again")
    /\ UNCHANGED <<received, to, hand, pendingVars, streamVars, workerVars,
                   historyVars, endVars>>

\* ... or fails for good: the consumer drops the segment, a retry counts.
FactoryFails(a) ==
    /\ pc[a] = "factory"
    /\ Goto(a, IF a = Consumer THEN "recv" ELSE "failed")
    /\ dropped' = dropped \cup ToSet(hand[a])
    /\ hand' = [hand EXCEPT ![a] = <<>>]
    /\ UNCHANGED <<received, to, pendingVars, streamVars, workerVars, overtook,
                   endVars>>

\* If another stream was registered meanwhile it is used and ours is stopped.
Register(a) ==
    /\ pc[a] = "register"
    /\ IF stream # 0
          THEN /\ cancelled' = cancelled \cup {to[a]}
               /\ to' = [to EXCEPT ![a] = stream]
               /\ Goto(a, IF a = Consumer THEN "enqueue" ELSE "end")
               /\ UNCHANGED stream
          ELSE /\ stream' = to[a] /\ Goto(a, "flush")
               /\ UNCHANGED <<cancelled, to>>
    /\ UNCHANGED <<received, hand, pendingVars, streams, worker, queue, done,
                   historyVars, endVars>>

\* Mutant of FlushPending: the segment in hand goes before those replayed.
FlushPending_Behind(a) ==
    /\ pc[a] = "flush"
    /\ hand' = [hand EXCEPT ![a] = @ \o pending]
    /\ pending' = <<>> /\ failures' = 0
    /\ timer' = 0 /\ pc' = StopTimer([pc EXCEPT ![a] = "enqueue"])
    /\ UNCHANGED <<received, to, timers, streamVars, workerVars, historyVars,
                   endVars>>

\* Whoever registered the stream takes the queue, to replay it before the
\* segment it has in hand.
FlushPending(a) ==
    /\ pc[a] = "flush"
    /\ hand' = [hand EXCEPT ![a] = pending \o @]
    /\ pending' = <<>> /\ failures' = 0
    /\ timer' = 0 /\ pc' = StopTimer([pc EXCEPT ![a] = "enqueue"])
    /\ UNCHANGED <<received, to, timers, streamVars, workerVars, historyVars,
                   endVars>>

Create(a) == \/ CreateFast(a) \/ FactoryOpens(a) \/ FactoryUnavailable(a)
             \/ FactoryFails(a) \/ Register(a) \/ FlushPending(a)

-----------------------------------------------------------------------------
(* Enqueue.  It checks the context first and then waits for room, again    *)
(* until the context is done; with both at hand either may win.            *)

EnqueueCheck(a) ==
    /\ pc[a] = "enqueue" /\ hand[a] # <<>> /\ ~Cancelled(to[a])
    /\ Goto(a, "send")
    /\ UNCHANGED <<received, to, hand, pendingVars, streamVars, workerVars,
                   historyVars, endVars>>

\* A retry is still replaying, or about to replay, older segments to h.
Replaying(h) ==
    \E t \in Timers : to[t] = h /\ (hand[t] # <<>> \/ pc[t] = "flush")

EnqueueSend(a) ==
    /\ pc[a] = "send" /\ Len(queue[to[a]]) < Capacity
    /\ queue' = [queue EXCEPT ![to[a]] = Append(@, Head(hand[a]))]
    /\ hand' = [hand EXCEPT ![a] = Tail(@)]
    /\ overtook' = IF a = Consumer /\ Replaying(to[a])
                   THEN overtook \cup {Head(hand[a])} ELSE overtook
    /\ Goto(a, "enqueue")
    /\ UNCHANGED <<received, to, pendingVars, streamVars, worker, cancelled,
                   done, dropped, endVars>>

EnqueueClosed(a) ==
    /\ pc[a] \in {"enqueue", "send"} /\ hand[a] # <<>> /\ Cancelled(to[a])
    /\ dropped' = dropped \cup {Head(hand[a])}
    /\ hand' = [hand EXCEPT ![a] = Tail(@)]
    /\ Goto(a, "enqueue")
    /\ UNCHANGED <<received, to, pendingVars, streamVars, workerVars, overtook,
                   endVars>>

EnqueueEnd(a) ==
    /\ pc[a] = "enqueue" /\ hand[a] = <<>>
    /\ to' = [to EXCEPT ![a] = 0]
    /\ Goto(a, Home(a))
    /\ UNCHANGED <<received, hand, pendingVars, streamVars, workerVars,
                   historyVars, endVars>>

Enqueue(a) == EnqueueCheck(a) \/ EnqueueSend(a) \/ EnqueueClosed(a) \/ EnqueueEnd(a)

-----------------------------------------------------------------------------
(* The segment consumer: handleSegment.                                    *)

ConsumerRecv ==
    /\ pc[Consumer] = "recv" /\ received < MaxSegments
    /\ received' = received + 1
    /\ hand' = [hand EXCEPT ![Consumer] = <<received'>>]
    /\ to' = [to EXCEPT ![Consumer] = stream]
    /\ Goto(Consumer, IF stream # 0 THEN "enqueue" ELSE "fast")
    /\ UNCHANGED <<pendingVars, streamVars, workerVars, historyVars, endVars>>

\* scheduleRetry: a timer, unless the queue has one.
Schedule(at) ==
    IF timer # 0
    THEN pc' = at /\ UNCHANGED <<timer, timers>>
    ELSE /\ timers < MaxTimers
         /\ timers' = timers + 1 /\ timer' = timers'
         /\ pc' = [at EXCEPT ![timers'] = "set"]

\* Mutant of BufferItem: the limit is compared after the append.
BufferItem_OneMore(s, at) ==
    LET full == Len(pending) > MaxPending IN
    /\ pending' = Append(IF full THEN Tail(pending) ELSE pending, s)
    /\ dropped' = IF full THEN dropped \cup {Head(pending)} ELSE dropped
    /\ Schedule(at)

\* Manager.BufferPending: a full queue loses its oldest item.
BufferItem(s, at) ==
    LET full == Len(pending) >= MaxPending IN
    /\ pending' = Append(IF full THEN Tail(pending) ELSE pending, s)
    /\ dropped' = IF full THEN dropped \cup {Head(pending)} ELSE dropped
    /\ Schedule(at)

BufferPending ==
    /\ pc[Consumer] = "buffer"
    /\ BufferItem(Head(hand[Consumer]), [pc EXCEPT ![Consumer] = "recv"])
    /\ hand' = [hand EXCEPT ![Consumer] = <<>>]
    /\ UNCHANGED <<received, to, failures, streamVars, workerVars, overtook,
                   endVars>>

ConsumerEnd ==
    /\ pc[Consumer] = "recv" /\ closing
    /\ Goto(Consumer, "end")
    /\ UNCHANGED <<received, to, hand, pendingVars, streamVars, workerVars,
                   historyVars, endVars>>

Consume == ConsumerRecv \/ BufferPending \/ ConsumerEnd

-----------------------------------------------------------------------------
(* retryPending, a timer's callback.                                       *)

\* It acts on the queue the key has now, which may have a timer of its own.
RetryFires(t) ==
    /\ pc[t] = "set"
    /\ IF pending = <<>>
          THEN Goto(t, "end") /\ UNCHANGED timer
          ELSE Goto(t, "fast") /\ timer' = 0
    /\ UNCHANGED <<received, to, hand, pending, failures, timers, streamVars,
                   workerVars, historyVars, endVars>>

RetryAgain(t) ==
    /\ pc[t] = "again"
    /\ IF pending = <<>>
          THEN Goto(t, "end") /\ UNCHANGED <<timer, timers>>
          ELSE Schedule([pc EXCEPT ![t] = "end"])
    /\ UNCHANGED <<received, to, hand, pending, failures, streamVars,
                   workerVars, historyVars, endVars>>

\* The queue is deleted and its timer stopped.
DeletePending(at) ==
    /\ dropped' = dropped \cup ToSet(pending)
    /\ pending' = <<>> /\ failures' = 0
    /\ timer' = 0 /\ pc' = StopTimer(at)

\* The queue is abandoned after MaxFailures failures, or too long a time.
RetryAbandons(t) ==
    /\ pc[t] = "failed" /\ pending # <<>>
    /\ DeletePending([pc EXCEPT ![t] = "end"])
    /\ UNCHANGED <<received, to, hand, timers, streamVars, workerVars, overtook,
                   endVars>>

RetryGoesOn(t) ==
    /\ pc[t] = "failed"
    /\ IF pending = <<>>
          THEN Goto(t, "end") /\ UNCHANGED <<failures, timer, timers>>
          ELSE /\ failures + 1 < MaxFailures
               /\ failures' = failures + 1
               /\ Schedule([pc EXCEPT ![t] = "end"])
    /\ UNCHANGED <<received, to, hand, pending, streamVars, workerVars,
                   historyVars, endVars>>

Retry(t) == RetryFires(t) \/ RetryAgain(t) \/ RetryAbandons(t) \/ RetryGoesOn(t)

-----------------------------------------------------------------------------
(* The worker of a stream.                                                 *)

\* Mutant of WorkerTakes: the loop goes on after the last segment.
WorkerTakes_GoesOn(h) ==
    /\ worker[h] = "run" /\ queue[h] # <<>>
    /\ done' = [done EXCEPT ![h] = Append(@, Head(queue[h]))]
    /\ queue' = [queue EXCEPT ![h] = Tail(@)]
    /\ UNCHANGED <<actorVars, pendingVars, streamVars, worker, cancelled, historyVars,
                   endVars>>

\* Process the next segment; after the last one the loop ends.
WorkerTakes(h) ==
    /\ worker[h] = "run" /\ queue[h] # <<>>
    /\ done' = [done EXCEPT ![h] = Append(@, Head(queue[h]))]
    /\ queue' = [queue EXCEPT ![h] = Tail(@)]
    /\ worker' = [worker EXCEPT ![h] =
                    IF Head(queue[h]) \in Last THEN "exit" ELSE @]
    /\ UNCHANGED <<actorVars, pendingVars, streamVars, cancelled, historyVars,
                   endVars>>

WorkerStops(h) ==
    /\ worker[h] = "run" /\ Cancelled(h)
    /\ worker' = [worker EXCEPT ![h] = "exit"]
    /\ UNCHANGED <<actorVars, pendingVars, streamVars, queue, cancelled, done,
                   historyVars, endVars>>

\* Mutant of WorkerExits: whatever stream the key has is removed.
WorkerExits_AnyStream(h) ==
    /\ worker[h] = "exit"
    /\ stream' = 0
    /\ worker' = [worker EXCEPT ![h] = "cancel"]
    /\ UNCHANGED <<actorVars, pendingVars, streams, queue, cancelled, done,
                   historyVars, endVars>>

\* onExit: RemoveStream, if the key's stream is this one ...
WorkerExits(h) ==
    /\ worker[h] = "exit"
    /\ stream' = IF stream = h THEN 0 ELSE stream
    /\ worker' = [worker EXCEPT ![h] = "cancel"]
    /\ UNCHANGED <<actorVars, pendingVars, streams, queue, cancelled, done,
                   historyVars, endVars>>

\* ... and then the context, for those who wait in Enqueue.
WorkerCancels(h) ==
    /\ worker[h] = "cancel"
    /\ cancelled' = cancelled \cup {h}
    /\ worker' = [worker EXCEPT ![h] = "done"]
    /\ UNCHANGED <<actorVars, pendingVars, streamVars, queue, done, historyVars,
                   endVars>>

Worker(h) == WorkerTakes(h) \/ WorkerStops(h) \/ WorkerExits(h) \/ WorkerCancels(h)

-----------------------------------------------------------------------------
(* Shutdown of the service.                                                *)

ShutdownStart ==
    /\ shutdown = "no"
    /\ closing' = TRUE /\ shutdown' = "streams"
    /\ UNCHANGED <<actorVars, pendingVars, streamVars, workerVars, historyVars>>

CloseAllStreams ==
    /\ shutdown = "streams"
    /\ cancelled' = IF stream # 0 THEN cancelled \cup {stream} ELSE cancelled
    /\ stream' = 0
    /\ shutdown' = "wait"
    /\ UNCHANGED <<actorVars, pendingVars, streams, worker, queue, done,
                   historyVars, closing>>

\* After the consumer has ended; the wait for the workers may time out.
ShutdownPending ==
    /\ shutdown = "wait" /\ pc[Consumer] = "end"
    /\ DeletePending(pc)
    /\ shutdown' = "end"
    /\ UNCHANGED <<received, to, hand, timers, streamVars, workerVars, overtook,
                   closing>>

\* The wait for the consumer may time out too: the pending queue stays.
ShutdownTimeout ==
    /\ shutdown = "wait" /\ pc[Consumer] # "end"
    /\ shutdown' = "failed"
    /\ UNCHANGED <<actorVars, pendingVars, streamVars, workerVars, historyVars,
                   closing>>

Shutdown == ShutdownStart \/ CloseAllStreams \/ ShutdownPending \/ ShutdownTimeout

Next ==
    \/ Consume \/ Shutdown
    \/ \E a \in Actors : Create(a) \/ Enqueue(a)
    \/ \E t \in Timers : Retry(t)
    \/ \E h \in Streams : Worker(h)

Spec == Init /\ [][Next]_vars

-----------------------------------------------------------------------------
(* Properties.                                                             *)

\* The positions of segment s in t; where it is, with its position.
At(t, s) == {j \in 1..Len(t) : t[j] = s}

Where(s) ==
    {<<"pending", 0, i>> : i \in At(pending, s)}
    \cup (UNION {{<<"hand", a, i>> : i \in At(hand[a], s)} : a \in Actors})
    \cup (UNION {{<<"queue", h, i>> : i \in At(queue[h], s)} : h \in Streams})
    \cup (UNION {{<<"done", h, i>> : i \in At(done[h], s)} : h \in Streams})
    \cup {<<"dropped", 0, 0>> : d \in dropped \cap {s}}

\* A segment is neither processed twice nor lost, but where the code gives it
\* up, while it moves between consumer, pending queue, replays and workers.
SegmentOnce == \A s \in 1..received : Cardinality(Where(s)) = 1

\* A worker that nobody has told to stop is the key's stream, or that of a
\* creator still about to register it: no adapter connection is left open.
NoOrphanWorker ==
    \A h \in Streams : worker[h] = "run" /\ ~Cancelled(h) =>
        \/ stream = h
        \/ \E a \in Actors : pc[a] = "register" /\ to[a] = h

\* The key's stream has a worker that still removes it when it ends: until the
\* shutdown, segments do not go to a dead stream for ever.
RegisteredAlive ==
    stream # 0 /\ ~closing => worker[stream] \in {"run", "exit"}

\* Nobody waits in Enqueue for a worker that will neither take nor refuse the
\* segment: the wait ends also when the worker ends with a full channel.
WaitEnds ==
    \A a \in Actors : pc[a] = "send" =>
        worker[to[a]] \in {"run", "exit", "cancel"} \/ Cancelled(to[a])

\* The manager's table, the running workers and those who wait for them agree,
\* whoever opens, loses the race, ends or removes a stream.
StreamsRegistered == NoOrphanWorker /\ RegisteredAlive /\ WaitEnds

\* A worker gets segments in their order, but for those the consumer enqueued
\* while a retry was replaying older ones to the same stream.
OrderedUnlessReplaying ==
    \A h \in Streams : LET s == done[h] \o queue[h] IN
        \A i, j \in 1..Len(s) : i < j /\ s[i] > s[j] => s[i] \in overtook

\* After Shutdown has succeeded nothing is pending and nothing becomes so.
ShutdownEmpties == shutdown = "end" => pending = <<>> /\ timer = 0

\* Whatever moves the segments, each is in one place, they come in order, and none
\* is left behind.
SegmentsFlow == SegmentOnce /\ OrderedUnlessReplaying /\ ShutdownEmpties

\* A pending segment has a timer, or a callback or consumer at work that will
\* replay it, drop it or set one.
NoStrandedPending ==
    pending # <<>> =>
        \/ timer # 0
        \/ \E a \in Actors : pc[a] \in {"fast", "factory", "register", "flush",
                                         "buffer", "again", "failed"}

-----------------------------------------------------------------------------
(* What the manager promises its user.                                     *)

\* The streams that will process no more segments.
EndedStreams == {h \in Streams : worker[h] \notin {"none", "run"}}

Promise == INSTANCE Delivery WITH
    MaxItems <- MaxSegments, arrived <- received, opened <- streams,
    ended <- EndedStreams,
    given <- done, lost <- dropped, early <- overtook

\* Whatever becomes of the streams, a segment goes to one of them at most, once,
\* while it lives and in order, or is given up for good.
ImplementsDelivery == Promise!Spec
=============================================================================
