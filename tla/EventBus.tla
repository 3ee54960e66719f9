------------------------------ MODULE EventBus ------------------------------
(***************************************************************************)
(* One typed subscription of the in-process event bus                      *)
(* (internal/eventbus): the publishers that deliver into it under the      *)
(* bus's read lock, the raw channel with its delivery policy, the overflow *)
(* ring with its drain goroutine, the typed bridge, the consumer worker of *)
(* the owning service, and the three parties that may close it: the owner  *)
(* (ServiceLifecycle.Shutdown), the WithContext watcher, Bus.Shutdown.     *)
(*                                                                         *)
(* Subscriptions of a topic are independent: publish() delivers to each of *)
(* them in turn and no step of a delivery blocks or touches another one.   *)
(***************************************************************************)
EXTENDS Naturals, Sequences, FiniteSets

CONSTANTS
    Publishers,    \* goroutines that publish on the topic
    MaxEvents,     \* bound: number of publish calls of one publisher
    BufferSize,    \* capacity of the raw channel
    MaxOverflow,   \* capacity of the overflow ring
    Policies,      \* delivery policies the topic may have
    Foreign        \* sequence numbers whose payload is not a T

Strategies == {"drop-oldest", "drop-newest", "overflow"}

ASSUME BufferAssumption == /\ BufferSize \in Nat \ {0}
                           /\ MaxOverflow \in Nat \ {0}
ASSUME PolicyAssumption == Policies \subseteq Strategies
ASSUME EventAssumption == /\ MaxEvents \in Nat
                          /\ Foreign \subseteq Nat

VARIABLES
    policy,     \* Subscription.policy.Strategy
    registered, \* the subscription is in bus.subscribers
    closed,     \* Subscription.closed (atomic)
    cancelled,  \* the drain goroutine's context is cancelled
    done,       \* Subscription.done is closed
    ch,         \* contents of Subscription.ch
    chClosed,   \* Subscription.ch is closed
    ring,       \* overflowBuffer.buf, oldest first
    notify,     \* a token is in overflowBuffer.notify
    drainPc,    \* where drainLoop is
    drainHold,  \* the envelope drainLoop has popped, or <<>>
    bridgePc,   \* where TypedSubscription.bridge is
    bridgeHold, \* the envelope it has received, or <<>>
    quit,       \* TypedSubscription.quit is closed
    tsClosed,   \* TypedSubscription.ch (and .done) is closed
    consumerPc,   \* where the ConsumeEnvelope worker is
    consumerHold, \* the envelope its handler has, or <<>>
    ctxDone,    \* the service context is cancelled
    pub,        \* pub[p]: what publisher p is doing
    sent,       \* sent[p]: number of publish calls p has started
    dropped,    \* Subscription.dropped
    closer,     \* closer[c]: progress of the owner, the watcher, the bus
    accepted,   \* history: deliveries that passed the closed and ctx checks
    handled,    \* history: events given to the handler, in order
    skipped,    \* history: number of envelopes of another payload type
    fallback    \* history: a push has found the ring full

rawVars == <<policy, registered, closed, cancelled, done, ch, chClosed>>
drain == <<drainPc, drainHold>>
bridge == <<bridgePc, bridgeHold>>
consumer == <<consumerPc, consumerHold>>
ovfVars == <<ring, notify, drain>>
typedVars == <<bridge, quit, tsClosed>>
workerVars == <<consumer, ctxDone>>
pubVars == <<pub, sent, accepted, fallback>>
histVars == <<handled, skipped>>
vars == <<rawVars, ovfVars, typedVars, workerVars, pubVars, histVars,
          dropped, closer>>

Event == Publishers \X (1..MaxEvents)
Closers == {"owner", "watcher", "bus"}

\* The envelope publisher p is delivering.
Current(p) == <<p, sent[p]>>

\* publish() holds the bus's read lock from its first step to its last.
Reading(p) == pub[p] # "idle"
\* Bus.Shutdown holds the write lock while it waits for the drain goroutine;
\* the other writers take and release it in one step (RawUnlink).
WriteLocked == closer["bus"] = "drain"

FlagTypeOK ==
    /\ registered \in BOOLEAN /\ closed \in BOOLEAN /\ cancelled \in BOOLEAN
    /\ done \in BOOLEAN /\ chClosed \in BOOLEAN /\ notify \in BOOLEAN
    /\ quit \in BOOLEAN /\ tsClosed \in BOOLEAN /\ ctxDone \in BOOLEAN

QueueTypeOK ==
    /\ ch \in Seq(Event) /\ Len(ch) <= BufferSize
    /\ ring \in Seq(Event) /\ Len(ring) <= MaxOverflow

HandTypeOK ==
    /\ drainPc \in {"pop", "send", "wait", "exit"} /\ drainHold \in Seq(Event)
    /\ drainPc = "send" => Len(drainHold) = 1
    /\ bridgePc \in {"recv", "send", "exit"} /\ bridgeHold \in Seq(Event)
    /\ consumerPc \in {"select", "handle", "exit"} /\ consumerHold \in Seq(Event)
    /\ handled \in Seq(Event)
    /\ skipped \in Nat

PublisherTypeOK ==
    /\ pub \in [Publishers -> {"idle", "check", "route", "notify",
                               "evict", "enqueue"}]
    /\ sent \in [Publishers -> 0..MaxEvents]
    /\ \A p \in Publishers : Reading(p) => sent[p] > 0
    /\ accepted \subseteq Event
    /\ dropped \in Nat

CloserTypeOK ==
    closer \in [Closers -> {"idle", "quit", "cas", "drain", "unlink",
                            "await", "join", "end"}]

PolicyTypeOK == policy \in Policies /\ fallback \in BOOLEAN

TypeOK == /\ FlagTypeOK /\ QueueTypeOK /\ HandTypeOK
          /\ PublisherTypeOK /\ CloserTypeOK /\ PolicyTypeOK

\* Subscribe has returned: the drain and bridge goroutines run (without the
\* overflow strategy there is no drain goroutine).
Init ==
    /\ policy \in Policies /\ fallback = FALSE
    /\ registered = TRUE /\ closed = FALSE /\ cancelled = FALSE
    /\ done = FALSE /\ ch = <<>> /\ chClosed = FALSE
    /\ ring = <<>> /\ notify = FALSE
    /\ drainHold = <<>>
    /\ drainPc = IF policy = "overflow" THEN "pop" ELSE "exit"
    /\ bridgePc = "recv" /\ bridgeHold = <<>>
    /\ quit = FALSE /\ tsClosed = FALSE
    /\ consumerPc = "select" /\ consumerHold = <<>>
    /\ ctxDone = FALSE
    /\ pub = [p \in Publishers |-> "idle"]
    /\ sent = [p \in Publishers |-> 0]
    /\ dropped = 0
    /\ closer = [c \in Closers |-> IF c = "owner" THEN "idle" ELSE "cas"]
    /\ accepted = {} /\ handled = <<>> /\ skipped = 0

-----------------------------------------------------------------------------
(* Publishers: Bus.publish and Subscription.deliver.                       *)

PubGoto(p, pc) == pub' = [pub EXCEPT ![p] = pc]

\* publish() takes the read lock and finds the subscription, or does not.
PubStart(p) ==
    /\ pub[p] = "idle" /\ sent[p] < MaxEvents
    /\ ~WriteLocked
    /\ sent' = [sent EXCEPT ![p] = @ + 1]
    /\ PubGoto(p, IF registered THEN "check" ELSE "idle")
    /\ UNCHANGED <<fallback, rawVars, ovfVars, typedVars, workerVars, histVars,
                   accepted, dropped, closer>>

\* The closed flag and the caller's context are checked once, up front; the
\* context may be cancelled at any time.
PubAbandon(p) ==
    /\ pub[p] = "check"
    /\ PubGoto(p, "idle")
    /\ UNCHANGED <<fallback, rawVars, ovfVars, typedVars, workerVars, histVars,
                   sent, accepted, dropped, closer>>

PubAccept(p) ==
    /\ pub[p] = "check" /\ ~closed
    /\ PubGoto(p, "route")
    /\ accepted' = accepted \cup {Current(p)}
    /\ UNCHANGED <<fallback, rawVars, ovfVars, typedVars, workerVars, histVars,
                   sent, dropped, closer>>

\* Mutants of PubPush: an off-by-one capacity check, a push that never signals
\* the drain goroutine, a direct send whenever the channel has room.
PubPush_OffByOne(p) ==
    /\ pub[p] = "route" /\ policy = "overflow"
    /\ IF Len(ring) > MaxOverflow
          THEN PubGoto(p, "evict") /\ fallback' = TRUE /\ UNCHANGED ring
          ELSE PubGoto(p, "notify") /\ ring' = Append(ring, Current(p))
               /\ UNCHANGED fallback
    /\ UNCHANGED <<rawVars, notify, drain, typedVars, workerVars, histVars,
                   sent, accepted, dropped, closer>>

PubPush_NoSignal(p) ==
    /\ pub[p] = "route" /\ policy = "overflow"
    /\ IF Len(ring) >= MaxOverflow
          THEN PubGoto(p, "evict") /\ fallback' = TRUE /\ UNCHANGED ring
          ELSE PubGoto(p, "idle") /\ ring' = Append(ring, Current(p))
               /\ UNCHANGED fallback
    /\ UNCHANGED <<rawVars, notify, drain, typedVars, workerVars, histVars,
                   sent, accepted, dropped, closer>>

PubPush_Direct(p) ==
    /\ pub[p] = "route" /\ policy = "overflow"
    /\ IF Len(ch) < BufferSize
          THEN PubGoto(p, "idle") /\ ch' = Append(ch, Current(p)) /\ UNCHANGED ring
          ELSE PubGoto(p, "notify") /\ ring' = Append(ring, Current(p)) /\ UNCHANGED ch
    /\ UNCHANGED <<policy, fallback, registered, closed, cancelled, done, chClosed, notify, drain,
                   typedVars, workerVars, histVars, sent, accepted, dropped, closer>>

\* overflowBuffer.push: false when the ring is full, else append and signal.
PubPush(p) ==
    /\ pub[p] = "route" /\ policy = "overflow"
    /\ IF Len(ring) >= MaxOverflow
          THEN PubGoto(p, "evict") /\ fallback' = TRUE /\ UNCHANGED ring
          ELSE PubGoto(p, "notify") /\ ring' = Append(ring, Current(p))
               /\ UNCHANGED fallback
    /\ UNCHANGED <<rawVars, notify, drain, typedVars, workerVars, histVars,
                   sent, accepted, dropped, closer>>

PubNotify(p) ==
    /\ pub[p] = "notify"
    /\ notify' = TRUE
    /\ PubGoto(p, "idle")
    /\ UNCHANGED <<fallback, rawVars, ring, drain, typedVars, workerVars, histVars,
                   sent, accepted, dropped, closer>>

\* The fast path of the other strategies, and the policy when ch is full.
PubFastPath(p) ==
    /\ pub[p] = "route" /\ policy # "overflow"
    /\ Len(ch) < BufferSize
    /\ ch' = Append(ch, Current(p))
    /\ PubGoto(p, "idle")
    /\ UNCHANGED <<policy, fallback, registered, closed, cancelled, done, chClosed, ovfVars,
                   typedVars, workerVars, histVars, sent, accepted, dropped,
                   closer>>

PubFull(p) ==
    /\ pub[p] = "route" /\ policy # "overflow"
    /\ Len(ch) >= BufferSize
    /\ IF policy = "drop-newest"
          THEN PubGoto(p, "idle") /\ dropped' = dropped + 1
          ELSE PubGoto(p, "evict") /\ UNCHANGED dropped
    /\ UNCHANGED <<fallback, rawVars, ovfVars, typedVars, workerVars, histVars,
                   sent, accepted, closer>>

\* dropOldestAndEnqueue is two separate non-blocking selects.
PubEvict(p) ==
    /\ pub[p] = "evict"
    /\ IF ch = <<>>
          THEN UNCHANGED <<ch, dropped>>
          ELSE ch' = Tail(ch) /\ dropped' = dropped + 1
    /\ PubGoto(p, "enqueue")
    /\ UNCHANGED <<policy, fallback, registered, closed, cancelled, done, chClosed, ovfVars,
                   typedVars, workerVars, histVars, sent, accepted, closer>>

\* Mutant of PubEnqueue: the drop of the current event is not counted.
PubEnqueue_Uncounted(p) ==
    /\ pub[p] = "enqueue"
    /\ ch' = IF Len(ch) < BufferSize THEN Append(ch, Current(p)) ELSE ch
    /\ PubGoto(p, "idle")
    /\ UNCHANGED <<policy, fallback, registered, closed, cancelled, done, chClosed, ovfVars,
                   typedVars, workerVars, histVars, sent, accepted, dropped,
                   closer>>

PubEnqueue(p) ==
    /\ pub[p] = "enqueue"
    /\ IF Len(ch) < BufferSize
          THEN ch' = Append(ch, Current(p)) /\ UNCHANGED dropped
          ELSE dropped' = dropped + 1 /\ UNCHANGED ch
    /\ PubGoto(p, "idle")
    /\ UNCHANGED <<policy, fallback, registered, closed, cancelled, done, chClosed, ovfVars,
                   typedVars, workerVars, histVars, sent, accepted, closer>>

Deliver(p) == \/ PubAbandon(p) \/ PubAccept(p) \/ PubPush(p) \/ PubNotify(p)
              \/ PubFastPath(p) \/ PubFull(p) \/ PubEvict(p) \/ PubEnqueue(p)

-----------------------------------------------------------------------------
(* The drain goroutine of the overflow ring.                               *)

DrainPop ==
    /\ drainPc = "pop"
    /\ IF ring = <<>>
          THEN drainPc' = "wait" /\ UNCHANGED <<drainHold, ring>>
          ELSE /\ drainPc' = "send" /\ drainHold' = <<Head(ring)>>
               /\ ring' = Tail(ring)
    /\ UNCHANGED <<rawVars, notify, typedVars, workerVars, pubVars, histVars,
                   dropped, closer>>

DrainSend ==
    /\ drainPc = "send" /\ Len(ch) < BufferSize
    /\ ch' = ch \o drainHold
    /\ drainPc' = "pop" /\ drainHold' = <<>>
    /\ UNCHANGED <<policy, registered, closed, cancelled, done, chClosed, ring, notify,
                   typedVars, workerVars, pubVars, histVars, dropped, closer>>

DrainWake ==
    /\ drainPc = "wait" /\ notify
    /\ notify' = FALSE
    /\ drainPc' = "pop" /\ UNCHANGED drainHold
    /\ UNCHANGED <<rawVars, ring, typedVars, workerVars, pubVars, histVars,
                   dropped, closer>>

\* Both selects of drainLoop also watch the context; an envelope in hand is
\* lost with the goroutine.
DrainCancel ==
    /\ drainPc \in {"send", "wait"} /\ cancelled
    /\ drainPc' = "exit" /\ drainHold' = <<>>
    /\ UNCHANGED <<rawVars, ring, notify, typedVars, workerVars, pubVars,
                   histVars, dropped, closer>>

Drain == DrainPop \/ DrainSend \/ DrainWake \/ DrainCancel

-----------------------------------------------------------------------------
(* The typed bridge and the service's consumer worker.                     *)

BridgeRecv ==
    /\ bridgePc = "recv" /\ ch # <<>>
    /\ ch' = Tail(ch)
    /\ IF Head(ch)[2] \in Foreign
          THEN skipped' = skipped + 1 /\ UNCHANGED bridge
          ELSE /\ bridgePc' = "send" /\ bridgeHold' = <<Head(ch)>>
               /\ UNCHANGED skipped
    /\ UNCHANGED <<policy, registered, closed, cancelled, done, chClosed, ovfVars,
                   quit, tsClosed, workerVars, pubVars, handled, dropped,
                   closer>>

\* range over the raw channel ends when it is closed and empty.
BridgeEnd ==
    /\ bridgePc = "recv" /\ ch = <<>> /\ chClosed
    /\ bridgePc' = "exit" /\ UNCHANGED bridgeHold
    /\ tsClosed' = TRUE
    /\ UNCHANGED <<rawVars, ovfVars, quit, workerVars, pubVars, histVars,
                   dropped, closer>>

BridgeQuit ==
    /\ bridgePc = "send" /\ quit
    /\ bridgePc' = "exit" /\ bridgeHold' = <<>>
    /\ tsClosed' = TRUE
    /\ UNCHANGED <<rawVars, ovfVars, quit, workerVars, pubVars, histVars,
                   dropped, closer>>

\* The typed channel is unbuffered: the send and the receive are one step.
Handoff ==
    /\ bridgePc = "send" /\ consumerPc = "select"
    /\ consumerPc' = "handle" /\ consumerHold' = bridgeHold
    /\ bridgePc' = "recv" /\ bridgeHold' = <<>>
    /\ UNCHANGED <<rawVars, ovfVars, quit, tsClosed, ctxDone, pubVars,
                   histVars, dropped, closer>>

Handle ==
    /\ consumerPc = "handle"
    /\ handled' = handled \o consumerHold
    /\ consumerPc' = "select" /\ consumerHold' = <<>>
    /\ UNCHANGED <<rawVars, ovfVars, typedVars, ctxDone, pubVars, skipped,
                   dropped, closer>>

ConsumerExit ==
    /\ consumerPc = "select" /\ (ctxDone \/ tsClosed)
    /\ consumerPc' = "exit" /\ UNCHANGED consumerHold
    /\ UNCHANGED <<rawVars, ovfVars, typedVars, ctxDone, pubVars, histVars,
                   dropped, closer>>

Receive == BridgeRecv \/ BridgeEnd \/ BridgeQuit \/ Handoff
Consume == Handle \/ ConsumerExit

-----------------------------------------------------------------------------
(* Closing: ServiceLifecycle.Shutdown, TypedSubscription.Close,            *)
(* Subscription.Close, the WithContext watcher and Bus.Shutdown.           *)

CloserGoto(c, pc) == closer' = [closer EXCEPT ![c] = pc]

\* ServiceLifecycle.Stop: cancel the context, then close the subscriptions.
OwnerStop ==
    /\ closer["owner"] = "idle"
    /\ ctxDone' = TRUE
    /\ CloserGoto("owner", "quit")
    /\ UNCHANGED <<rawVars, ovfVars, typedVars, consumer, pubVars, histVars,
                   dropped>>

OwnerQuit ==
    /\ closer["owner"] = "quit"
    /\ quit' = TRUE
    /\ CloserGoto("owner", "cas")
    /\ UNCHANGED <<rawVars, ovfVars, bridge, tsClosed, workerVars, pubVars,
                   histVars, dropped>>

\* What a closer does once the raw subscription is closed, by it or another.
AfterRaw(c) == IF c = "owner" THEN "await" ELSE "end"

\* Mutant of RawClose: the drain goroutine is not cancelled.
RawClose_NoCancel(c) ==
    /\ c \in {"owner", "watcher"} /\ closer[c] = "cas"
    /\ closed' = TRUE
    /\ CloserGoto(c, IF closed THEN AfterRaw(c) ELSE "drain")
    /\ UNCHANGED <<policy, registered, cancelled, done, ch, chClosed, ovfVars,
                   typedVars, workerVars, pubVars, histVars, dropped>>

\* Subscription.Close: the compare-and-swap elects one closer, which cancels
\* the drain goroutine.
RawClose(c) ==
    /\ c \in {"owner", "watcher"} /\ closer[c] = "cas"
    /\ IF closed
          THEN CloserGoto(c, AfterRaw(c)) /\ UNCHANGED <<closed, cancelled>>
          ELSE CloserGoto(c, "drain") /\ closed' = TRUE /\ cancelled' = TRUE
    /\ UNCHANGED <<policy, registered, done, ch, chClosed, ovfVars, typedVars,
                   workerVars, pubVars, histVars, dropped>>

\* The watcher also returns when somebody else has closed the subscription.
WatcherRelease ==
    /\ closer["watcher"] = "cas" /\ done
    /\ CloserGoto("watcher", "end")
    /\ UNCHANGED <<rawVars, ovfVars, typedVars, workerVars, pubVars, histVars,
                   dropped>>

\* stopOverflow has seen the drain goroutine exit.
RawDrained(c) ==
    /\ c \in {"owner", "watcher"} /\ closer[c] = "drain"
    /\ drainPc = "exit"
    /\ done' = TRUE
    /\ CloserGoto(c, "unlink")
    /\ UNCHANGED <<policy, registered, closed, cancelled, ch, chClosed, ovfVars,
                   typedVars, workerVars, pubVars, histVars, dropped>>

\* Mutant of RawUnlink: the channel is closed without the bus's write lock.
RawUnlink_NoLock(c) ==
    /\ c \in {"owner", "watcher"} /\ closer[c] = "unlink"
    /\ registered' = FALSE
    /\ chClosed' = TRUE
    /\ CloserGoto(c, AfterRaw(c))
    /\ UNCHANGED <<policy, closed, cancelled, done, ch, ovfVars, typedVars,
                   workerVars, pubVars, histVars, dropped>>

\* Under the write lock: remove the routing entry and close the channel.
RawUnlink(c) ==
    /\ c \in {"owner", "watcher"} /\ closer[c] = "unlink"
    /\ ~WriteLocked /\ \A p \in Publishers : ~Reading(p)
    /\ registered' = FALSE
    /\ chClosed' = TRUE
    /\ CloserGoto(c, AfterRaw(c))
    /\ UNCHANGED <<policy, closed, cancelled, done, ch, ovfVars, typedVars,
                   workerVars, pubVars, histVars, dropped>>

\* TypedSubscription.Close waits for the bridge, Wait for the worker.
OwnerAwait ==
    /\ closer["owner"] = "await" /\ tsClosed
    /\ CloserGoto("owner", "join")
    /\ UNCHANGED <<rawVars, ovfVars, typedVars, workerVars, pubVars, histVars,
                   dropped>>

OwnerJoin ==
    /\ closer["owner"] = "join" /\ consumerPc = "exit"
    /\ CloserGoto("owner", "end")
    /\ UNCHANGED <<rawVars, ovfVars, typedVars, workerVars, pubVars, histVars,
                   dropped>>

\* Bus.Shutdown takes the write lock and keeps it until the channel is
\* closed; a subscription somebody else is closing is only removed.
BusShutdown ==
    /\ closer["bus"] = "cas"
    /\ \A p \in Publishers : ~Reading(p)
    /\ IF registered /\ ~closed
          THEN /\ closed' = TRUE /\ cancelled' = TRUE
               /\ CloserGoto("bus", "drain") /\ UNCHANGED registered
          ELSE /\ registered' = FALSE
               /\ CloserGoto("bus", "end") /\ UNCHANGED <<closed, cancelled>>
    /\ UNCHANGED <<policy, done, ch, chClosed, ovfVars, typedVars, workerVars,
                   pubVars, histVars, dropped>>

BusDrained ==
    /\ closer["bus"] = "drain" /\ drainPc = "exit"
    /\ done' = TRUE /\ chClosed' = TRUE /\ registered' = FALSE
    /\ CloserGoto("bus", "end")
    /\ UNCHANGED <<policy, closed, cancelled, ch, ovfVars, typedVars, workerVars,
                   pubVars, histVars, dropped>>

\* Steps of a closing that has begun.
CloseStep ==
    \/ OwnerQuit \/ OwnerAwait \/ OwnerJoin \/ WatcherRelease \/ BusDrained
    \/ \E c \in {"owner", "watcher"} : RawDrained(c) \/ RawUnlink(c)

Next ==
    \/ \E p \in Publishers : PubStart(p) \/ Deliver(p)
    \/ Drain \/ Receive \/ Consume
    \/ OwnerStop \/ CloseStep \/ BusShutdown
    \/ \E c \in {"owner", "watcher"} : RawClose(c)

Spec == Init /\ [][Next]_vars

(* Every goroutine is scheduled: a delivery, the drain, the bridge, the     *)
(* worker (its handler returns) and a closing that has begun all go on.     *)
(* Nobody is obliged to publish or to close.                                *)
Fairness ==
    /\ \A p \in Publishers : WF_vars(Deliver(p))
    /\ WF_vars(Drain) /\ WF_vars(Receive) /\ WF_vars(Consume)
    /\ WF_vars(OwnerQuit) /\ WF_vars(OwnerAwait) /\ WF_vars(OwnerJoin)
    /\ WF_vars(closer["owner"] = "cas" /\ RawClose("owner"))
    /\ WF_vars(WatcherRelease) /\ WF_vars(BusDrained)
    /\ \A c \in {"owner", "watcher"} : WF_vars(RawDrained(c) \/ RawUnlink(c))

FairSpec == Spec /\ Fairness

-----------------------------------------------------------------------------
(* Properties.                                                             *)

\* Envelopes inside the subscription, in the order the consumer will see them.
InFlight == consumerHold \o bridgeHold \o ch \o drainHold \o ring
Pipeline == handled \o InFlight

\* Publishers that hold an accepted envelope they have not yet placed.
Placing == {p \in Publishers : pub[p] \in {"route", "evict", "enqueue"}}

\* No send on a closed channel (a Go panic): once ch is closed no publisher is
\* inside deliver and the drain goroutine has exited.
NoSendOnClosed ==
    chClosed => /\ \A p \in Publishers : ~Reading(p)
                /\ drainPc = "exit"

\* No close of a closed channel (a Go panic): of the owner, the watcher and
\* the bus at most one is past the compare-and-swap, and only while ch is open.
SingleCloser ==
    \A c \in Closers : closer[c] \in {"drain", "unlink"} =>
        /\ ~chClosed
        /\ \A d \in Closers \ {c} : closer[d] \notin {"drain", "unlink"}

\* Closing the subscription from three sides at once panics in neither way.
ClosedSafely == NoSendOnClosed /\ SingleCloser

\* Until the subscription is closed every accepted envelope is handled, in
\* flight, in a publisher's hands, skipped for its type or counted as dropped.
NoSilentLoss ==
    ~closed /\ ~quit =>
        Cardinality(accepted) =
            Len(Pipeline) + Cardinality(Placing) + skipped + dropped

\* With an overflow ring, envelopes that wait in the ring have a drain
\* goroutine awake for them: a wake-up is pending or under way.
NoLostWakeup ==
    ring # <<>> /\ drainPc = "wait" =>
        notify \/ cancelled \/ \E p \in Publishers : pub[p] = "notify"

\* An accepted envelope does not stay in flight forever: it is handled,
\* skipped or dropped unless the subscription closes.
InFlightEnds ==
    \A e \in Event :
        (e \in accepted) ~>
            \/ closed \/ quit
            \/ /\ \A i \in 1..Len(InFlight) : InFlight[i] # e
               /\ \A p \in Placing : Current(p) # e

\* Whoever closes, and in whatever order the three closers meet: the service's
\* Shutdown returns, Bus.Shutdown returns and the watcher goroutine ends.
CloseTerminates ==
    /\ (closer["owner"] # "idle") ~> (closer["owner"] = "end")
    /\ closed ~> (closer["watcher"] = "end")
    /\ (closer["bus"] = "drain") ~> (closer["bus"] = "end")

\* Nothing in a subscription waits for ever: no envelope, and no closer.
NothingHangs == InFlightEnds /\ CloseTerminates

\* What a subscription promises its consumer under every policy: a bounded
\* queue that may lose envelopes but never repeats one, and keeps the order of
\* each publisher as long as no push has found the overflow ring full.
Promise == INSTANCE LossyFifo WITH
    Capacity <- BufferSize + MaxOverflow + 3,
    queue <- InFlight,
    got <- handled,
    overflowed <- fallback
ImplementsLossyFifo == Promise!Spec
=============================================================================
