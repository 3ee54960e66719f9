--------------------------- MODULE EventBusProofs ---------------------------
(***************************************************************************)
(* A bus subscription, for any number of publishers, any buffer sizes and  *)
(* every delivery policy: nobody sends on a closed channel and nobody      *)
(* closes it twice, a wake-up is never lost, every accepted envelope is    *)
(* accounted for, and the whole implements the lossy FIFO of LossyFifo.    *)
(***************************************************************************)
EXTENDS EventBus, FiniteSetTheorems, SequenceTheorems, TLAPS

USE DEF Closers, Reading, WriteLocked, Strategies

\* The queues: appending, taking the head and joining stay within Seq(S).
LEMMA SeqOps ==
  ASSUME NEW S, NEW s \in Seq(S), NEW t \in Seq(S), NEW e \in S
  PROVE  /\ Append(s, e) \in Seq(S) /\ Len(Append(s, e)) = Len(s) + 1
         /\ s \o t \in Seq(S) /\ Len(s \o t) = Len(s) + Len(t)
         /\ <<e>> \in Seq(S) /\ Len(<<e>>) = 1 /\ Len(s) \in Nat
         /\ s # <<>> => /\ Head(s) \in S /\ Tail(s) \in Seq(S)
                        /\ Len(Tail(s)) = Len(s) - 1
  OBVIOUS

\* A publisher inside deliver holds one of the enumerated envelopes.
LEMMA CurrentIsEvent ==
  ASSUME TypeOK, NEW p \in Publishers, Reading(p)
  PROVE  Current(p) \in Event
<1>1. sent[p] \in 0..MaxEvents /\ sent[p] > 0
  BY DEF TypeOK, PublisherTypeOK
<1>2. sent[p] \in 1..MaxEvents
  BY <1>1, EventAssumption
<1> QED BY <1>2 DEF Current, Event

LEMMA InitTypeOK == Init => TypeOK
<1> USE BufferAssumption, EventAssumption
<1> SUFFICES ASSUME Init PROVE TypeOK
  OBVIOUS
<1>1. <<>> \in Seq(Event) /\ Len(<<>>) = 0
  OBVIOUS
<1>2. FlagTypeOK
  BY DEF Init, FlagTypeOK
<1>3. QueueTypeOK
  BY <1>1 DEF Init, QueueTypeOK
<1>4. HandTypeOK
  BY <1>1 DEF Init, HandTypeOK
<1>5. PublisherTypeOK /\ CloserTypeOK
  BY DEF Init, PublisherTypeOK, CloserTypeOK
<1>6. PolicyTypeOK
  BY DEF Init, PolicyTypeOK
<1> QED BY <1>2, <1>3, <1>4, <1>5, <1>6 DEF TypeOK

\* The flags: a publisher and the three goroutines touch one each at most.
LEMMA DeliverFlags ==
  ASSUME FlagTypeOK, NEW p \in Publishers, Deliver(p)
  PROVE  FlagTypeOK'
<1> USE DEF FlagTypeOK, rawVars, ovfVars, typedVars, workerVars, PubGoto
<1>1. CASE PubAbandon(p) \/ PubAccept(p)
  BY <1>1 DEF PubAbandon, PubAccept
<1>2. CASE PubPush(p) \/ PubNotify(p)
  BY <1>2 DEF PubPush, PubNotify
<1>3. CASE PubFastPath(p)
  BY <1>3 DEF PubFastPath
<1>4. CASE PubFull(p)
  BY <1>4 DEF PubFull
<1>5. CASE PubEvict(p)
  BY <1>5 DEF PubEvict
<1>6. CASE PubEnqueue(p)
  BY <1>6 DEF PubEnqueue
<1> QED BY <1>1, <1>2, <1>3, <1>4, <1>5, <1>6 DEF Deliver

LEMMA ReceiveFlags ==
  ASSUME FlagTypeOK, Drain \/ Receive \/ Consume
  PROVE  FlagTypeOK'
<1> USE DEF FlagTypeOK, rawVars, ovfVars, typedVars, workerVars
<1>1. CASE DrainPop \/ DrainSend
  BY <1>1 DEF DrainPop, DrainSend
<1>2. CASE DrainWake \/ DrainCancel
  BY <1>2 DEF DrainWake, DrainCancel
<1>3. CASE BridgeRecv
  BY <1>3 DEF BridgeRecv
<1>4. CASE BridgeEnd \/ BridgeQuit
  BY <1>4 DEF BridgeEnd, BridgeQuit
<1>5. CASE Handoff
  BY <1>5 DEF Handoff
<1>6. CASE Handle \/ ConsumerExit
  BY <1>6 DEF Handle, ConsumerExit
<1> QED BY <1>1, <1>2, <1>3, <1>4, <1>5, <1>6 DEF Drain, Receive, Consume

\* A step of a publisher.
LEMMA DeliverTypeOK ==
  ASSUME TypeOK, NEW p \in Publishers, Deliver(p)
  PROVE  TypeOK'
<1> USE DEF Deliver, PubAbandon, PubAccept, PubPush, PubNotify, PubFastPath, PubFull,
        PubEvict, PubEnqueue, rawVars, ovfVars, typedVars, workerVars, pubVars,
        histVars, drain, bridge, consumer, PubGoto
<1> DEFINE A == Append(ch, Current(p))
           B == Append(ring, Current(p))
<1>1. Current(p) \in Event
  BY CurrentIsEvent
<1>2. ch \in Seq(Event) /\ ring \in Seq(Event)
  BY DEF TypeOK, QueueTypeOK
<1>3. /\ A \in Seq(Event) /\ Len(A) = Len(ch) + 1 /\ Len(ch) \in Nat
      /\ B \in Seq(Event) /\ Len(B) = Len(ring) + 1 /\ Len(ring) \in Nat
      /\ ch # <<>> => Tail(ch) \in Seq(Event) /\ Len(Tail(ch)) = Len(ch) - 1
  BY <1>1, <1>2, SeqOps
<1> HIDE DEF A, B
<1>4. FlagTypeOK'
  <2> HIDE DEF Deliver
  <2> QED BY DeliverFlags DEF TypeOK
<1>5. QueueTypeOK'
  <2>1. \/ UNCHANGED ch
        \/ Len(ch) < BufferSize /\ ch' = A
        \/ ch # <<>> /\ ch' = Tail(ch)
    BY DEF A
  <2>2. \/ UNCHANGED ring
        \/ Len(ring) < MaxOverflow /\ ring' = B
    BY <1>3, BufferAssumption DEF B
  <2> HIDE DEF Deliver
  <2>3. Len(ch) <= BufferSize /\ Len(ring) <= MaxOverflow
    BY DEF TypeOK, QueueTypeOK
  <2>4. ch' \in Seq(Event) /\ Len(ch') <= BufferSize
    <3>1. CASE UNCHANGED ch
      BY <1>2, <2>3, <3>1
    <3>2. CASE Len(ch) < BufferSize /\ ch' = A
      BY <1>3, <2>3, <3>2, BufferAssumption
    <3>3. CASE ch # <<>> /\ ch' = Tail(ch)
      BY <1>3, <2>3, <3>3, BufferAssumption
    <3> QED BY <2>1, <3>1, <3>2, <3>3
  <2>5. ring' \in Seq(Event) /\ Len(ring') <= MaxOverflow
    BY <1>2, <1>3, <2>2, <2>3, BufferAssumption
  <2> QED BY <2>4, <2>5 DEF QueueTypeOK
<1>6. HandTypeOK'
  BY DEF TypeOK, HandTypeOK
<1>7. PublisherTypeOK' /\ CloserTypeOK'
  BY <1>1 DEF TypeOK, PublisherTypeOK, CloserTypeOK
<1>8. PolicyTypeOK'
  BY DEF TypeOK, PolicyTypeOK
<1> QED BY <1>4, <1>5, <1>6, <1>7, <1>8 DEF TypeOK

\* A step of the drain goroutine, the bridge or the consumer worker.
LEMMA ReceiveTypeOK ==
  ASSUME TypeOK, Drain \/ Receive \/ Consume
  PROVE  TypeOK'
<1> USE DEF Drain, DrainPop, DrainSend, DrainWake, DrainCancel, Receive, BridgeRecv,
        BridgeEnd, BridgeQuit, Handoff, Consume, Handle, ConsumerExit, rawVars, ovfVars,
        typedVars, workerVars, pubVars, histVars, drain, bridge, consumer
<1> DEFINE A == ch \o drainHold
           H == handled \o consumerHold
<1>1. /\ ch \in Seq(Event) /\ ring \in Seq(Event) /\ drainHold \in Seq(Event)
      /\ handled \in Seq(Event) /\ consumerHold \in Seq(Event)
  BY DEF TypeOK, QueueTypeOK, HandTypeOK
<1>2. /\ A \in Seq(Event) /\ Len(A) = Len(ch) + Len(drainHold) /\ Len(ch) \in Nat
      /\ H \in Seq(Event) /\ Len(ring) \in Nat
  BY <1>1, SeqOps
<1>3. /\ ch # <<>> => /\ Tail(ch) \in Seq(Event) /\ Len(Tail(ch)) = Len(ch) - 1
                      /\ <<Head(ch)>> \in Seq(Event)
      /\ ring # <<>> => /\ Tail(ring) \in Seq(Event) /\ Len(Tail(ring)) = Len(ring) - 1
                        /\ <<Head(ring)>> \in Seq(Event) /\ Len(<<Head(ring)>>) = 1
      /\ <<>> \in Seq(Event)
  BY <1>1, SeqOps
<1> HIDE DEF A, H
<1>4. FlagTypeOK'
  <2> HIDE DEF Drain, Receive, Consume
  <2> QED BY ReceiveFlags DEF TypeOK
<1>5. QueueTypeOK'
  <2>1. \/ UNCHANGED ch
        \/ Len(ch) < BufferSize /\ ch' = A /\ drainPc = "send"
        \/ ch # <<>> /\ ch' = Tail(ch)
    BY DEF A
  <2>2. \/ UNCHANGED ring
        \/ ring # <<>> /\ ring' = Tail(ring)
    OBVIOUS
  <2>3. /\ drainPc = "send" => Len(drainHold) = 1
        /\ Len(ch) <= BufferSize /\ Len(ring) <= MaxOverflow
    BY DEF TypeOK, HandTypeOK, QueueTypeOK
  <2> HIDE DEF Drain, Receive, Consume
  <2>4. ch' \in Seq(Event) /\ Len(ch') <= BufferSize
    <3>1. CASE UNCHANGED ch
      BY <1>1, <2>3, <3>1
    <3>2. CASE Len(ch) < BufferSize /\ ch' = A /\ drainPc = "send"
      <4>1. Len(A) = Len(ch) + 1
        BY <1>2, <2>3, <3>2
      <4> QED BY <1>2, <3>2, <4>1, BufferAssumption
    <3>3. CASE ch # <<>> /\ ch' = Tail(ch)
      BY <1>2, <1>3, <2>3, <3>3, BufferAssumption
    <3> QED BY <2>1, <3>1, <3>2, <3>3
  <2>5. ring' \in Seq(Event) /\ Len(ring') <= MaxOverflow
    <3>1. CASE UNCHANGED ring
      BY <1>1, <2>3, <3>1
    <3>2. CASE ring # <<>> /\ ring' = Tail(ring)
      BY <1>2, <1>3, <2>3, <3>2, BufferAssumption
    <3> QED BY <2>2, <3>1, <3>2
  <2> QED BY <2>4, <2>5 DEF QueueTypeOK
<1>6. HandTypeOK'
  <2>1. CASE Drain
    BY <2>1, <1>3 DEF TypeOK, HandTypeOK
  <2>2. CASE Receive
    <3>1. UNCHANGED <<drainPc, drainHold, handled>>
      BY <2>2
    <3>2. /\ bridgePc' \in {"recv", "send", "exit"} /\ bridgeHold' \in Seq(Event)
          /\ consumerPc' \in {"select", "handle", "exit"}
          /\ consumerHold' \in Seq(Event)
      BY <2>2, <1>3 DEF TypeOK, HandTypeOK
    <3>3. skipped' \in Nat
      BY <2>2 DEF TypeOK, HandTypeOK
    <3> QED BY <3>1, <3>2, <3>3 DEF TypeOK, HandTypeOK
  <2>3. CASE Consume
    <3>1. handled' \in Seq(Event)
      BY <2>3, <1>1, <1>2 DEF H
    <3> QED BY <2>3, <3>1, <1>3 DEF TypeOK, HandTypeOK
  <2> QED BY <2>1, <2>2, <2>3
<1>7. PublisherTypeOK' /\ CloserTypeOK'
  BY DEF TypeOK, PublisherTypeOK, CloserTypeOK
<1>8. PolicyTypeOK'
  BY DEF TypeOK, PolicyTypeOK
<1> QED BY <1>4, <1>5, <1>6, <1>7, <1>8 DEF TypeOK

\* A step of a closer, its flags first.
LEMMA CloseFlags ==
  ASSUME FlagTypeOK,
         \/ OwnerStop \/ CloseStep \/ BusShutdown
         \/ \E c \in {"owner", "watcher"} : RawClose(c)
  PROVE  FlagTypeOK'
<1> USE DEF FlagTypeOK, rawVars, ovfVars, typedVars, workerVars, CloserGoto
<1>1. CASE OwnerStop
  BY <1>1 DEF OwnerStop
<1>2. CASE BusShutdown
  BY <1>2 DEF BusShutdown
<1>3. CASE OwnerQuit
  BY <1>3 DEF OwnerQuit
<1>4. CASE OwnerAwait \/ OwnerJoin
  BY <1>4 DEF OwnerAwait, OwnerJoin
<1>5. CASE WatcherRelease
  BY <1>5 DEF WatcherRelease
<1>6. CASE BusDrained
  BY <1>6 DEF BusDrained
<1>7. ASSUME NEW c \in {"owner", "watcher"}, RawClose(c) \/ RawDrained(c) \/ RawUnlink(c)
      PROVE  FlagTypeOK'
  <2>1. CASE RawClose(c)
    BY <2>1 DEF RawClose
  <2>2. CASE RawDrained(c)
    BY <2>2 DEF RawDrained
  <2>3. CASE RawUnlink(c)
    BY <2>3 DEF RawUnlink
  <2> QED BY <1>7, <2>1, <2>2, <2>3
<1> QED BY <1>1, <1>2, <1>3, <1>4, <1>5, <1>6, <1>7 DEF CloseStep

LEMMA CloseTypeOK ==
  ASSUME TypeOK,
         \/ OwnerStop \/ CloseStep \/ BusShutdown
         \/ \E c \in {"owner", "watcher"} : RawClose(c)
  PROVE  TypeOK'
<1> USE DEF OwnerStop, CloseStep, BusShutdown, RawClose, OwnerQuit, OwnerAwait, OwnerJoin,
        WatcherRelease, BusDrained, RawDrained, RawUnlink, rawVars, ovfVars,
        typedVars, workerVars, pubVars, histVars, drain, bridge, consumer, CloserGoto
<1>1. FlagTypeOK'
  <2> HIDE DEF OwnerStop, CloseStep, BusShutdown, RawClose
  <2> QED BY CloseFlags DEF TypeOK
<1>2. QueueTypeOK' /\ HandTypeOK' /\ PublisherTypeOK'
  BY DEF TypeOK, QueueTypeOK, HandTypeOK, PublisherTypeOK
<1>3. CloserTypeOK'
  BY DEF TypeOK, CloserTypeOK, AfterRaw
<1>4. PolicyTypeOK'
  BY DEF TypeOK, PolicyTypeOK
<1> QED BY <1>1, <1>2, <1>3, <1>4 DEF TypeOK

\* Every variable keeps its type; in particular ch and the ring stay within
\* their capacities (deliver, push and drainLoop check before they append).
THEOREM TypeCorrect == Spec => []TypeOK
<1>1. TypeOK /\ [Next]_vars => TypeOK'
  <2> SUFFICES ASSUME TypeOK, [Next]_vars PROVE TypeOK'
    OBVIOUS
  <2>1. ASSUME NEW p \in Publishers, PubStart(p) PROVE TypeOK'
    BY <2>1, EventAssumption DEF PubStart, PubGoto, TypeOK, FlagTypeOK, QueueTypeOK,
       HandTypeOK, PublisherTypeOK, CloserTypeOK, PolicyTypeOK, rawVars, ovfVars,
       typedVars, workerVars, histVars, drain, bridge, consumer
  <2>2. CASE UNCHANGED vars
    BY <2>2 DEF vars, TypeOK, FlagTypeOK, QueueTypeOK, HandTypeOK, PublisherTypeOK,
       CloserTypeOK, PolicyTypeOK, rawVars, ovfVars, typedVars, workerVars, pubVars, histVars, drain,
       bridge, consumer
  <2> QED BY <2>1, <2>2, DeliverTypeOK, ReceiveTypeOK, CloseTypeOK DEF Next
<1> QED BY <1>1, InitTypeOK, PTL DEF Spec

-----------------------------------------------------------------------------
(* Closing.  Two things keep it safe: the compare-and-swap leaves a single  *)
(* closer, and the write lock it needs for the channel keeps publishers out *)
(* from then on, because the routing entry goes in the same critical        *)
(* section.                                                                 *)

ClosedForAll ==
  chClosed => /\ closed /\ ~registered /\ drainPc = "exit"
              /\ \A p \in Publishers : ~Reading(p)

ElectedCloser ==
  \A c \in Closers : closer[c] \in {"drain", "unlink"} =>
      /\ closed /\ ~chClosed
      /\ \A d \in Closers : closer[d] \in {"drain", "unlink"} => d = c

DrainedFirst == \A c \in Closers : closer[c] = "unlink" => drainPc = "exit"

LockedOut == closer["bus"] = "drain" => \A p \in Publishers : ~Reading(p)

CloseInv == ClosedForAll /\ ElectedCloser /\ DrainedFirst /\ LockedOut

LEMMA InitCloseInv == Init => CloseInv
BY DEF Init, CloseInv, ClosedForAll, ElectedCloser, DrainedFirst, LockedOut

LEMMA PublishCloseInv ==
  ASSUME TypeOK, CloseInv, NEW p \in Publishers, PubStart(p) \/ Deliver(p)
  PROVE  CloseInv'
<1>1. UNCHANGED <<closer, chClosed, closed, registered, drainPc>>
  BY DEF PubStart, Deliver, PubAbandon, PubAccept, PubPush, PubNotify, PubFastPath,
     PubFull, PubEvict, PubEnqueue, rawVars, ovfVars, drain
<1>2. /\ pub \in [Publishers -> {"idle", "check", "route", "notify", "evict", "enqueue"}]
      /\ \E pc : pub' = [pub EXCEPT ![p] = pc]
  BY DEF PubStart, Deliver, PubAbandon, PubAccept, PubPush, PubNotify, PubFastPath,
     PubFull, PubEvict, PubEnqueue, PubGoto, TypeOK, PublisherTypeOK
<1>3. \/ Reading(p)
      \/ ~registered /\ ~Reading(p)'
      \/ registered /\ ~WriteLocked
  <2>1. CASE PubStart(p)
    BY <1>2, <2>1 DEF PubStart, PubGoto
  <2>2. CASE Deliver(p)
    BY <2>2 DEF Deliver, PubAbandon, PubAccept, PubPush, PubNotify, PubFastPath,
       PubFull, PubEvict, PubEnqueue
  <2> QED BY <2>1, <2>2
<1>4. ClosedForAll'
  BY <1>1, <1>2, <1>3 DEF CloseInv, ClosedForAll
<1>5. LockedOut'
  BY <1>1, <1>2, <1>3 DEF CloseInv, LockedOut
<1>6. ElectedCloser' /\ DrainedFirst'
  BY <1>1 DEF CloseInv, ElectedCloser, DrainedFirst
<1> QED BY <1>4, <1>5, <1>6 DEF CloseInv

LEMMA ReceiveCloseInv ==
  ASSUME CloseInv, Drain \/ Receive \/ Consume
  PROVE  CloseInv'
<1>1. UNCHANGED <<closer, chClosed, closed, registered, pub>>
  BY DEF Drain, DrainPop, DrainSend, DrainWake, DrainCancel, Receive, BridgeRecv,
     BridgeEnd, BridgeQuit, Handoff, Consume, Handle, ConsumerExit, rawVars, pubVars
<1>2. drainPc = "exit" => drainPc' = "exit"
  BY DEF Drain, DrainPop, DrainSend, DrainWake, DrainCancel, Receive, BridgeRecv,
     BridgeEnd, BridgeQuit, Handoff, Consume, Handle, ConsumerExit, ovfVars, drain
<1> QED BY <1>1, <1>2 DEF CloseInv, ClosedForAll, ElectedCloser, DrainedFirst, LockedOut

LEMMA CloserCloseInv ==
  ASSUME TypeOK, CloseInv,
         \/ OwnerStop \/ CloseStep \/ BusShutdown
         \/ \E c \in {"owner", "watcher"} : RawClose(c)
  PROVE  CloseInv'
<1> USE DEF CloserGoto, rawVars, ovfVars, drain, pubVars
<1>1. closer \in [Closers -> {"idle", "quit", "cas", "drain", "unlink",
                              "await", "join", "end"}]
  BY DEF TypeOK, CloserTypeOK
<1>2. CASE OwnerStop \/ OwnerQuit \/ OwnerAwait \/ OwnerJoin \/ WatcherRelease
  <2>1. UNCHANGED <<chClosed, closed, registered, drainPc, pub>>
    BY <1>2 DEF OwnerStop, OwnerQuit, OwnerAwait, OwnerJoin, WatcherRelease
  <2>2. \A c \in Closers : closer'[c] \in {"drain", "unlink"} => closer'[c] = closer[c]
    BY <1>1, <1>2 DEF OwnerStop, OwnerQuit, OwnerAwait, OwnerJoin, WatcherRelease
  <2> QED BY <1>1, <2>1, <2>2 DEF CloseInv, ClosedForAll, ElectedCloser,
             DrainedFirst, LockedOut
<1>3. ASSUME NEW c \in {"owner", "watcher"}, RawClose(c) PROVE CloseInv'
  <2>1. CASE closed
    <3>1. UNCHANGED <<chClosed, closed, registered, drainPc, pub>>
      BY <1>3, <2>1 DEF RawClose
    <3>2. \A d \in Closers : closer'[d] \in {"drain", "unlink"} => closer'[d] = closer[d]
      BY <1>1, <1>3, <2>1 DEF RawClose, AfterRaw
    <3> QED BY <1>1, <3>1, <3>2 DEF CloseInv, ClosedForAll, ElectedCloser,
               DrainedFirst, LockedOut
  <2>2. CASE ~closed
    <3>1. /\ closed' /\ ~chClosed' /\ UNCHANGED <<registered, drainPc, pub>>
          /\ closer' = [closer EXCEPT ![c] = "drain"]
      BY <1>3, <2>2 DEF RawClose, CloseInv, ClosedForAll
    <3>2. \A d \in Closers : closer[d] \notin {"drain", "unlink"}
      BY <2>2 DEF CloseInv, ElectedCloser
    <3> QED BY <1>1, <3>1, <3>2 DEF CloseInv, ClosedForAll, ElectedCloser,
               DrainedFirst, LockedOut
  <2> QED BY <2>1, <2>2
<1>4. ASSUME NEW c \in {"owner", "watcher"}, RawDrained(c) PROVE CloseInv'
  <2>1. /\ UNCHANGED <<chClosed, closed, registered, drainPc, pub>> /\ drainPc = "exit"
        /\ closer[c] = "drain" /\ closer' = [closer EXCEPT ![c] = "unlink"]
    BY <1>4 DEF RawDrained
  <2> QED BY <1>1, <2>1 DEF CloseInv, ClosedForAll, ElectedCloser, DrainedFirst, LockedOut
<1>5. ASSUME NEW c \in {"owner", "watcher"}, RawUnlink(c) PROVE CloseInv'
  <2>1. /\ UNCHANGED <<closed, drainPc, pub>> /\ chClosed' /\ ~registered'
        /\ \A p \in Publishers : ~Reading(p)
        /\ closer[c] = "unlink" /\ closer' = [closer EXCEPT ![c] = AfterRaw(c)]
    BY <1>5 DEF RawUnlink
  <2>2. closed /\ drainPc = "exit"
    BY <2>1 DEF CloseInv, ElectedCloser, DrainedFirst
  <2>3. \A d \in Closers : closer'[d] \notin {"drain", "unlink"}
    BY <1>1, <2>1 DEF CloseInv, ElectedCloser, AfterRaw
  <2> QED BY <2>1, <2>2, <2>3 DEF CloseInv, ClosedForAll, ElectedCloser,
             DrainedFirst, LockedOut
<1>6. CASE BusShutdown
  <2>1. CASE registered /\ ~closed
    <3>1. /\ closed' /\ ~chClosed' /\ UNCHANGED <<drainPc, pub>>
          /\ \A p \in Publishers : ~Reading(p)
          /\ closer' = [closer EXCEPT !["bus"] = "drain"]
      BY <1>6, <2>1 DEF BusShutdown, CloseInv, ClosedForAll
    <3>2. \A d \in Closers : closer[d] \notin {"drain", "unlink"}
      BY <2>1 DEF CloseInv, ElectedCloser
    <3> QED BY <1>1, <3>1, <3>2 DEF CloseInv, ClosedForAll, ElectedCloser,
               DrainedFirst, LockedOut
  <2>2. CASE ~(registered /\ ~closed)
    <3>1. /\ UNCHANGED <<chClosed, closed, drainPc, pub>> /\ ~registered'
          /\ closer' = [closer EXCEPT !["bus"] = "end"]
      BY <1>6, <2>2 DEF BusShutdown
    <3> QED BY <1>1, <3>1 DEF CloseInv, ClosedForAll, ElectedCloser,
               DrainedFirst, LockedOut
  <2> QED BY <2>1, <2>2
<1>7. CASE BusDrained
  <2>1. /\ UNCHANGED <<closed, drainPc, pub>> /\ chClosed' /\ ~registered'
        /\ drainPc = "exit"
        /\ closer["bus"] = "drain" /\ closer' = [closer EXCEPT !["bus"] = "end"]
    BY <1>7 DEF BusDrained
  <2>2. closed /\ \A p \in Publishers : ~Reading(p)
    BY <2>1 DEF CloseInv, ElectedCloser, LockedOut
  <2>3. \A d \in Closers : closer'[d] \notin {"drain", "unlink"}
    BY <1>1, <2>1 DEF CloseInv, ElectedCloser
  <2> QED BY <2>1, <2>2, <2>3 DEF CloseInv, ClosedForAll, ElectedCloser,
             DrainedFirst, LockedOut
<1> QED BY <1>2, <1>3, <1>4, <1>5, <1>6, <1>7 DEF CloseStep

LEMMA CloseInvariant == Spec => []CloseInv
<1>1. TypeOK /\ CloseInv /\ [Next]_vars => CloseInv'
  <2> SUFFICES ASSUME TypeOK, CloseInv, [Next]_vars PROVE CloseInv'
    OBVIOUS
  <2>1. CASE UNCHANGED vars
    BY <2>1 DEF vars, rawVars, ovfVars, pubVars, drain, CloseInv, ClosedForAll,
       ElectedCloser, DrainedFirst, LockedOut
  <2> QED BY <2>1, PublishCloseInv, ReceiveCloseInv, CloserCloseInv DEF Next
<1> QED BY <1>1, InitCloseInv, TypeCorrect, PTL DEF Spec

\* Nobody can send on the raw channel once it is closed, for a publisher inside
\* deliver or a live drain goroutine excludes close(ch); and Close, the context
\* watcher and Bus.Shutdown never close it twice.
THEOREM ClosesSafely == Spec => []ClosedSafely
<1>1. CloseInv => NoSendOnClosed
  BY DEF CloseInv, ClosedForAll, NoSendOnClosed
<1>2. CloseInv => SingleCloser
  BY DEF CloseInv, ElectedCloser, SingleCloser
<1>3. CloseInv => ClosedSafely
  BY <1>1, <1>2 DEF ClosedSafely
<1> QED BY <1>3, CloseInvariant, PTL

-----------------------------------------------------------------------------
\* push's signal cannot be lost: it is sent after the append, and the drain
\* goroutine only waits after it has found the ring empty.
THEOREM WakeupKept == Spec => []NoLostWakeup
<1>1. Init => NoLostWakeup
  BY DEF Init, NoLostWakeup
<1>2. TypeOK /\ NoLostWakeup /\ [Next]_vars => NoLostWakeup'
  <2> SUFFICES ASSUME TypeOK, NoLostWakeup, [Next]_vars PROVE NoLostWakeup'
    OBVIOUS
  <2> USE DEF NoLostWakeup, rawVars, ovfVars, drain, pubVars
  <2>1. pub \in [Publishers -> {"idle", "check", "route", "notify", "evict", "enqueue"}]
    BY DEF TypeOK, PublisherTypeOK
  <2>2. ASSUME NEW p \in Publishers, PubStart(p) \/ Deliver(p) PROVE NoLostWakeup'
    <3>1. CASE PubPush(p)
      BY <2>1, <3>1 DEF PubPush, PubGoto
    <3>2. CASE PubNotify(p)
      BY <3>2 DEF PubNotify
    <3>3. CASE ~PubPush(p) /\ ~PubNotify(p)
      <4>1. UNCHANGED <<ring, drainPc, notify, cancelled>> /\ pub[p] # "notify"
            /\ \E pc : pub' = [pub EXCEPT ![p] = pc]
        BY <2>2, <3>3 DEF PubStart, Deliver, PubAbandon, PubAccept, PubFastPath,
           PubFull, PubEvict, PubEnqueue, PubGoto
      <4> QED BY <2>1, <4>1
    <3> QED BY <3>1, <3>2, <3>3
  <2>3. CASE Drain
    BY <2>3 DEF Drain, DrainPop, DrainSend, DrainWake, DrainCancel
  <2>4. CASE Receive \/ Consume \/ UNCHANGED vars
    BY <2>4 DEF Receive, BridgeRecv, BridgeEnd, BridgeQuit, Handoff, Consume, Handle,
       ConsumerExit, vars
  <2>5. CASE \/ OwnerStop \/ CloseStep \/ BusShutdown
             \/ \E c \in {"owner", "watcher"} : RawClose(c)
    <3>1. UNCHANGED <<ring, drainPc, notify, pub>> /\ (cancelled => cancelled')
      BY <2>5 DEF OwnerStop, CloseStep, BusShutdown, RawClose, OwnerQuit, OwnerAwait,
         OwnerJoin, WatcherRelease, BusDrained, RawDrained, RawUnlink
    <3> QED BY <3>1
  <2> QED BY <2>2, <2>3, <2>4, <2>5 DEF Next
<1> QED BY <1>1, <1>2, TypeCorrect, PTL DEF Spec

-----------------------------------------------------------------------------
(* The books.  Whatever policy drops, no accepted envelope goes uncounted. *)

\* A goroutine has an envelope in its hands exactly when it is about to send it on
\* or to handle it; and without the overflow strategy there is nothing in the ring.
HoldInv ==
  /\ drainPc # "send" => drainHold = <<>>
  /\ bridgeHold = <<>> \/ (bridgePc = "send" /\ Len(bridgeHold) = 1)
  /\ bridgePc = "send" => Len(bridgeHold) = 1
  /\ consumerHold = <<>> \/ (consumerPc = "handle" /\ Len(consumerHold) = 1)
  /\ consumerPc = "handle" => Len(consumerHold) = 1
  /\ policy # "overflow" => ring = <<>> /\ drainPc = "exit"

LEMMA SmallSeqs == Len(<<>>) = 0 /\ \A x : Len(<<x>>) = 1 /\ <<x>> # <<>>
OBVIOUS

LEMMA HoldInvKept == TypeOK /\ HoldInv /\ [Next]_vars => HoldInv'
<1> SUFFICES ASSUME TypeOK, HoldInv, [Next]_vars PROVE HoldInv'
  OBVIOUS
<1> USE DEF HoldInv, rawVars, ovfVars, drain
<1>1. ASSUME NEW p \in Publishers, PubStart(p) \/ Deliver(p) PROVE HoldInv'
  <2>1. UNCHANGED <<policy, drain, bridge, consumer>>
    BY <1>1 DEF PubStart, Deliver, PubAbandon, PubAccept, PubPush, PubNotify, PubFastPath, PubFull, PubEvict,
                PubEnqueue, typedVars, workerVars
  <2>2. policy # "overflow" => ring' = ring
    BY <1>1 DEF PubStart, Deliver, PubAbandon, PubAccept, PubPush, PubNotify, PubFastPath, PubFull, PubEvict,
                PubEnqueue
  <2> QED BY <2>1, <2>2 DEF bridge, consumer
<1>2. CASE Drain
  <2>1. UNCHANGED <<policy, bridge, consumer>>
    BY <1>2 DEF Drain, DrainPop, DrainSend, DrainWake, DrainCancel, typedVars, workerVars
  <2>2. drainPc # "exit" /\ (drainPc' # "send" => drainHold' = <<>>)
    BY <1>2 DEF Drain, DrainPop, DrainSend, DrainWake, DrainCancel
  <2> QED BY <2>1, <2>2 DEF bridge, consumer
<1>3. CASE Receive
  <2>1. UNCHANGED <<policy, ring, drain>>
    BY <1>3 DEF Receive, BridgeRecv, BridgeEnd, BridgeQuit, Handoff
  <2>2. CASE BridgeRecv
    BY <2>1, <2>2, SmallSeqs DEF BridgeRecv, bridge, consumer, workerVars
  <2>3. CASE BridgeEnd \/ BridgeQuit
    BY <2>1, <2>3 DEF BridgeEnd, BridgeQuit, consumer, workerVars
  <2>4. CASE Handoff
    BY <2>1, <2>4 DEF Handoff
  <2> QED BY <1>3, <2>2, <2>3, <2>4 DEF Receive
<1>4. CASE Consume
  BY <1>4 DEF Consume, Handle, ConsumerExit, bridge, typedVars
<1>5. CASE \/ OwnerStop \/ CloseStep \/ BusShutdown
           \/ \E c \in {"owner", "watcher"} : RawClose(c)
  <2>1. UNCHANGED <<policy, ring, drain, bridge, consumer>>
    BY <1>5 DEF OwnerStop, CloseStep, BusShutdown, RawClose, OwnerQuit, OwnerAwait, OwnerJoin, WatcherRelease,
                BusDrained, RawDrained, RawUnlink, typedVars, workerVars
  <2> QED BY <2>1 DEF bridge, consumer
<1>6. CASE UNCHANGED vars
  BY <1>6 DEF vars, typedVars, workerVars, bridge, consumer
<1> QED BY <1>1, <1>2, <1>3, <1>4, <1>5, <1>6 DEF Next

\* No publisher's number is accepted before it is checked, and only a closed
\* subscription has its drain goroutine cancelled.
FreshInv ==
  /\ \A e \in accepted : e[2] <= sent[e[1]]
  /\ \A p \in Publishers : pub[p] = "check" => Current(p) \notin accepted
  /\ IsFiniteSet(accepted) /\ IsFiniteSet(Placing)
  /\ cancelled => closed

PubPlaces == {"idle", "check", "route", "notify", "evict", "enqueue"}
Held == {"route", "evict", "enqueue"}

LEMMA PlacingStep ==
  ASSUME pub \in [Publishers -> PubPlaces], NEW p \in Publishers, NEW pc, PubGoto(p, pc)
  PROVE  /\ Placing' = IF pc \in Held THEN Placing \cup {p} ELSE Placing \ {p}
         /\ pub'[p] = pc /\ \A q \in Publishers \ {p} : pub'[q] = pub[q]
BY DEF PubGoto, Placing, Held

LEMMA CurrentParts ==
  ASSUME TypeOK, NEW p \in Publishers
  PROVE  /\ Current(p)[1] = p /\ Current(p)[2] = sent[p] /\ sent[p] \in Nat
         /\ \A e \in accepted : e[1] \in Publishers /\ e[2] \in Nat /\ e = <<e[1], e[2]>>
BY EventAssumption DEF TypeOK, PublisherTypeOK, Current, Event

LEMMA FreshInvKept == TypeOK /\ FreshInv /\ [Next]_vars => FreshInv'
<1> SUFFICES ASSUME TypeOK, FreshInv, [Next]_vars PROVE FreshInv'
  OBVIOUS
<1>0. pub \in [Publishers -> PubPlaces] /\ sent \in [Publishers -> Nat]
  BY EventAssumption DEF TypeOK, PublisherTypeOK, PubPlaces
<1>1. ASSUME NEW p \in Publishers, PubStart(p) PROVE FreshInv'
  <2>1. /\ sent' = [sent EXCEPT ![p] = @ + 1] /\ UNCHANGED <<accepted, cancelled, closed>>
        /\ pub[p] = "idle"
    BY <1>1 DEF PubStart, rawVars
  <2>2. PICK pc \in {"check", "idle"} : PubGoto(p, pc)
    BY <1>1 DEF PubStart
  <2>3. \A q \in Publishers : q # p => pub'[q] = pub[q] /\ sent'[q] = sent[q]
    BY <1>0, <2>1, <2>2, PlacingStep
  <2>4. sent'[p] = sent[p] + 1 /\ sent[p] \in Nat
    BY <1>0, <2>1
  <2>5. Placing' = Placing \ {p}
    BY <1>0, <2>2, PlacingStep DEF Held
  <2>6. \A e \in accepted : e[1] \in Publishers /\ e[2] \in Nat /\ e[2] <= sent[e[1]]
    BY CurrentParts DEF FreshInv
  <2>7. \A e \in accepted : e[2] <= sent'[e[1]]
    BY <2>3, <2>4, <2>6
  <2>8. ASSUME NEW q \in Publishers, pub'[q] = "check" PROVE Current(q)' \notin accepted
    <3>1. CASE q = p
      <4>1. \A e \in accepted : e # <<p, sent[p] + 1>>
        BY <2>4, <2>6
      <4> QED BY <2>4, <3>1, <4>1 DEF Current
    <3>2. CASE q # p
      BY <2>3, <2>8, <3>2 DEF FreshInv, Current
    <3> QED BY <3>1, <3>2
  <2>9. IsFiniteSet(Placing')
    BY <2>5, FS_RemoveElement DEF FreshInv
  <2> QED BY <2>1, <2>7, <2>8, <2>9 DEF FreshInv
<1>2. ASSUME NEW p \in Publishers, Deliver(p) PROVE FreshInv'
  <2>1. UNCHANGED <<sent, cancelled, closed>>
    BY <1>2 DEF Deliver, PubAbandon, PubAccept, PubPush, PubNotify, PubFastPath, PubFull, PubEvict, PubEnqueue,
                rawVars
  <2>2. PICK pc \in PubPlaces \ {"check"} : PubGoto(p, pc)
    BY <1>2 DEF Deliver, PubAbandon, PubAccept, PubPush, PubNotify, PubFastPath, PubFull, PubEvict, PubEnqueue,
                PubPlaces
  <2>3. accepted' = accepted \/ accepted' = accepted \cup {Current(p)}
    BY <1>2 DEF Deliver, PubAbandon, PubAccept, PubPush, PubNotify, PubFastPath, PubFull, PubEvict, PubEnqueue
  <2>4. IsFiniteSet(accepted') /\ IsFiniteSet(Placing')
    BY <1>0, <2>2, <2>3, PlacingStep, FS_AddElement, FS_RemoveElement DEF FreshInv
  <2>5. \A e \in accepted' : e[2] <= sent[e[1]]
    BY <2>3, CurrentParts DEF FreshInv
  <2>6. ASSUME NEW q \in Publishers, pub'[q] = "check" PROVE Current(q) \notin accepted'
    <3>1. q # p /\ pub[q] = "check"
      BY <1>0, <2>2, <2>6, PlacingStep
    <3>2. Current(q) # Current(p)
      BY <3>1, CurrentParts
    <3> QED BY <2>3, <3>1, <3>2 DEF FreshInv
  <2> QED BY <2>1, <2>4, <2>5, <2>6 DEF FreshInv, Current
<1>3. CASE Drain \/ Receive \/ Consume
  <2>1. UNCHANGED <<sent, pub, accepted, cancelled, closed>>
    BY <1>3 DEF Drain, DrainPop, DrainSend, DrainWake, DrainCancel, Receive, BridgeRecv, BridgeEnd, BridgeQuit,
                Handoff, Consume, Handle, ConsumerExit, rawVars, pubVars
  <2> QED BY <2>1 DEF FreshInv, Current, Placing
<1>4. CASE \/ OwnerStop \/ CloseStep \/ BusShutdown
           \/ \E c \in {"owner", "watcher"} : RawClose(c)
  <2>1. UNCHANGED <<sent, pub, accepted>>
    BY <1>4 DEF OwnerStop, CloseStep, BusShutdown, RawClose, OwnerQuit, OwnerAwait, OwnerJoin, WatcherRelease,
                BusDrained, RawDrained, RawUnlink, pubVars
  <2>2. UNCHANGED <<closed, cancelled>> \/ closed'
    BY <1>4 DEF OwnerStop, CloseStep, BusShutdown, RawClose, OwnerQuit, OwnerAwait, OwnerJoin, WatcherRelease,
                BusDrained, RawDrained, RawUnlink, rawVars
  <2> QED BY <2>1, <2>2 DEF FreshInv, Current, Placing
<1>5. CASE UNCHANGED vars
  BY <1>5 DEF vars, rawVars, pubVars, FreshInv, Current, Placing
<1> QED BY <1>1, <1>2, <1>3, <1>4, <1>5 DEF Next

\* The books of the subscription: what each place holds.
Total == Len(handled) + Len(consumerHold) + Len(bridgeHold) + Len(ch) + Len(drainHold) + Len(ring)
Accounted == Cardinality(accepted) = Total + Cardinality(Placing) + skipped + dropped
CountInv == ~closed /\ ~quit => Accounted

LEMMA Lengths ==
  ASSUME TypeOK
  PROVE  /\ Len(handled) \in Nat /\ Len(consumerHold) \in Nat /\ Len(bridgeHold) \in Nat
         /\ Len(ch) \in Nat /\ Len(drainHold) \in Nat /\ Len(ring) \in Nat
         /\ skipped \in Nat /\ dropped \in Nat
         /\ Len(Pipeline) = Total
<1>1. /\ handled \in Seq(Event) /\ consumerHold \in Seq(Event) /\ bridgeHold \in Seq(Event)
      /\ ch \in Seq(Event) /\ drainHold \in Seq(Event) /\ ring \in Seq(Event)
  BY DEF TypeOK, QueueTypeOK, HandTypeOK
<1>2. skipped \in Nat /\ dropped \in Nat
  BY DEF TypeOK, HandTypeOK, PublisherTypeOK
<1> DEFINE a == consumerHold \o bridgeHold
           b == a \o ch
           c == b \o drainHold
           d == c \o ring
<1>3. a \in Seq(Event) /\ Len(a) = Len(consumerHold) + Len(bridgeHold)
  BY <1>1, ConcatProperties
<1> HIDE DEF a
<1>4. b \in Seq(Event) /\ Len(b) = Len(a) + Len(ch)
  BY <1>1, <1>3, ConcatProperties
<1> HIDE DEF b
<1>5. c \in Seq(Event) /\ Len(c) = Len(b) + Len(drainHold)
  BY <1>1, <1>4, ConcatProperties
<1> HIDE DEF c
<1>6. d \in Seq(Event) /\ Len(d) = Len(c) + Len(ring)
  BY <1>1, <1>5, ConcatProperties
<1> HIDE DEF d
<1>7. Len(handled \o d) = Len(handled) + Len(d)
  BY <1>1, <1>6, ConcatProperties
<1>8. Pipeline = handled \o d
  BY DEF Pipeline, InFlight, a, b, c, d
<1>9. /\ Len(handled) \in Nat /\ Len(consumerHold) \in Nat /\ Len(bridgeHold) \in Nat
      /\ Len(ch) \in Nat /\ Len(drainHold) \in Nat /\ Len(ring) \in Nat
  BY <1>1, LenProperties
<1>10. Len(Pipeline) = Total
  BY <1>3, <1>4, <1>5, <1>6, <1>7, <1>8, <1>9 DEF Total
<1> QED BY <1>2, <1>9, <1>10

\* A publisher that leaves the placing states is one fewer, one that enters one more.
LEMMA PlacingCount ==
  ASSUME TypeOK, FreshInv, NEW p \in Publishers, NEW pc, PubGoto(p, pc)
  PROVE  /\ Cardinality(Placing) \in Nat
         /\ (pub[p] \in Held <=> pc \in Held) => Cardinality(Placing') = Cardinality(Placing)
         /\ pub[p] \in Held /\ pc \notin Held => Cardinality(Placing) = Cardinality(Placing') + 1
         /\ pub[p] \notin Held /\ pc \in Held => Cardinality(Placing') = Cardinality(Placing) + 1
<1>1. pub \in [Publishers -> PubPlaces]
  BY DEF TypeOK, PublisherTypeOK, PubPlaces
<1>2. Placing' = IF pc \in Held THEN Placing \cup {p} ELSE Placing \ {p}
  BY <1>1, PlacingStep
<1>3. p \in Placing <=> pub[p] \in Held
  BY DEF Placing, Held
<1>4. IsFiniteSet(Placing) /\ Cardinality(Placing) \in Nat
  BY FS_CardinalityType DEF FreshInv
<1>5. pub[p] \in Held /\ pc \notin Held => Cardinality(Placing) = Cardinality(Placing') + 1
  <2> SUFFICES ASSUME pub[p] \in Held, pc \notin Held
               PROVE  Cardinality(Placing) = Cardinality(Placing') + 1
    OBVIOUS
  <2>1. p \in Placing /\ Placing' = Placing \ {p}
    BY <1>2, <1>3
  <2>2. Cardinality(Placing \ {p}) = Cardinality(Placing) - 1
    BY <1>4, <2>1, FS_RemoveElement
  <2> QED BY <1>4, <2>1, <2>2
<1>6. pub[p] \notin Held /\ pc \in Held => Cardinality(Placing') = Cardinality(Placing) + 1
  BY <1>2, <1>3, <1>4, FS_AddElement
<1>7. (pub[p] \in Held <=> pc \in Held) => Placing' = Placing
  BY <1>2, <1>3
<1> QED BY <1>4, <1>5, <1>6, <1>7

LEMMA PublishCount ==
  ASSUME TypeOK, HoldInv, FreshInv, Accounted, NEW p \in Publishers, PubStart(p) \/ Deliver(p)
  PROVE  Accounted'
<1> USE DEF rawVars, ovfVars, drain, typedVars, bridge, workerVars, consumer, histVars
<1>0. /\ Len(handled) \in Nat /\ Len(consumerHold) \in Nat /\ Len(bridgeHold) \in Nat
      /\ Len(ch) \in Nat /\ Len(drainHold) \in Nat /\ Len(ring) \in Nat
      /\ skipped \in Nat /\ dropped \in Nat
  BY Lengths
<1>1. UNCHANGED <<handled, consumerHold, bridgeHold, drainHold, skipped>>
  BY DEF PubStart, Deliver, PubAbandon, PubAccept, PubPush, PubNotify, PubFastPath, PubFull, PubEvict, PubEnqueue
<1>2. Cardinality(accepted) \in Nat /\ IsFiniteSet(accepted)
  BY FS_CardinalityType DEF FreshInv
<1> DEFINE Rest == Len(handled) + Len(consumerHold) + Len(bridgeHold) + Len(drainHold) + skipped
           N == Cardinality(Placing)
<1>3. Rest \in Nat /\ Rest' = Rest
  BY <1>0, <1>1
<1>4. N \in Nat
  BY FS_CardinalityType DEF FreshInv
<1>5. Cardinality(accepted) = Rest + Len(ch) + Len(ring) + N + dropped
  BY <1>0, <1>4 DEF Accounted, Total
<1>6. ASSUME Cardinality(accepted') = Rest + Len(ch') + Len(ring') + N' + dropped',
             N' \in Nat, Len(ch') \in Nat, Len(ring') \in Nat, dropped' \in Nat
      PROVE  Accounted'
  BY <1>0, <1>1, <1>6 DEF Accounted, Total
<1> HIDE DEF Rest
<1>7. /\ \A pc : PubGoto(p, pc) => N' \in Nat
      /\ \A pc : PubGoto(p, pc) /\ (pub[p] \in Held <=> pc \in Held) => N' = N
      /\ \A pc : PubGoto(p, pc) /\ pub[p] \in Held /\ pc \notin Held => N = N' + 1
      /\ \A pc : PubGoto(p, pc) /\ pub[p] \notin Held /\ pc \in Held => N' = N + 1
  <2>1. ASSUME NEW pc, PubGoto(p, pc)
        PROVE  /\ (pub[p] \in Held <=> pc \in Held) => N' = N
               /\ pub[p] \in Held /\ pc \notin Held => N = N' + 1
               /\ pub[p] \notin Held /\ pc \in Held => N' = N + 1
               /\ N' \in Nat
    <3>1. IsFiniteSet(Placing')
      BY <2>1, PlacingStep, FS_AddElement, FS_RemoveElement DEF FreshInv, TypeOK, PublisherTypeOK, PubPlaces
    <3> QED BY <2>1, <3>1, PlacingCount, FS_CardinalityType
  <2> QED BY <2>1
<1> HIDE DEF N
<1>c. Current(p) \in Event \/ ~Reading(p)
  BY CurrentIsEvent
<1>8. CASE PubStart(p) \/ PubAbandon(p) \/ PubNotify(p)
  <2>1. UNCHANGED <<ch, ring, accepted, dropped>>
    BY <1>8 DEF PubStart, PubAbandon, PubNotify
  <2>2. PICK pc \in {"idle", "check"} : PubGoto(p, pc)
    BY <1>8 DEF PubStart, PubAbandon, PubNotify
  <2>3. pub[p] \notin Held /\ pc \notin Held
    BY <1>8, <2>2 DEF PubStart, PubAbandon, PubNotify, Held
  <2>4. N' = N
    BY <1>7, <2>2, <2>3
  <2> QED BY <1>0, <1>4, <1>5, <1>6, <2>1, <2>4
<1>9. CASE PubAccept(p)
  <2>1. /\ UNCHANGED <<ch, ring, dropped>> /\ accepted' = accepted \cup {Current(p)}
        /\ pub[p] = "check" /\ PubGoto(p, "route")
    BY <1>9 DEF PubAccept
  <2>2. N' = N + 1
    BY <1>7, <2>1 DEF Held
  <2>3. Current(p) \notin accepted
    BY <2>1 DEF FreshInv
  <2>4. Cardinality(accepted') = Cardinality(accepted) + 1
    BY <1>2, <2>1, <2>3, FS_AddElement
  <2> QED BY <1>0, <1>3, <1>4, <1>5, <1>6, <2>1, <2>2, <2>4
<1>10. CASE PubPush(p)
  <2>1. UNCHANGED <<ch, dropped, accepted>> /\ pub[p] = "route"
    BY <1>10 DEF PubPush
  <2>2. CASE PubGoto(p, "evict") /\ UNCHANGED ring
    <3>1. N' = N
      BY <1>7, <2>1, <2>2 DEF Held
    <3> QED BY <1>0, <1>4, <1>5, <1>6, <2>1, <2>2, <3>1
  <2>3. CASE PubGoto(p, "notify") /\ ring' = Append(ring, Current(p))
    <3>1. N = N' + 1 /\ N' \in Nat
      BY <1>7, <2>1, <2>3 DEF Held
    <3>2. Len(ring') = Len(ring) + 1
      BY <1>c, <2>1, <2>3, SeqOps DEF TypeOK, QueueTypeOK
    <3> QED BY <1>0, <1>3, <1>5, <1>6, <2>1, <3>1, <3>2
  <2> QED BY <1>10, <2>2, <2>3 DEF PubPush
<1>11. CASE PubFastPath(p)
  <2>1. /\ UNCHANGED <<ring, dropped, accepted>> /\ pub[p] = "route" /\ PubGoto(p, "idle")
        /\ ch' = Append(ch, Current(p))
    BY <1>11 DEF PubFastPath
  <2>2. N = N' + 1 /\ N' \in Nat
    BY <1>7, <2>1 DEF Held
  <2>3. Len(ch') = Len(ch) + 1
    BY <1>c, <2>1, SeqOps DEF TypeOK, QueueTypeOK
  <2> QED BY <1>0, <1>3, <1>5, <1>6, <2>1, <2>2, <2>3
<1>12. CASE PubFull(p)
  <2>1. UNCHANGED <<ch, ring, accepted>> /\ pub[p] = "route"
    BY <1>12 DEF PubFull
  <2>2. CASE PubGoto(p, "idle") /\ dropped' = dropped + 1
    <3>1. N = N' + 1 /\ N' \in Nat
      BY <1>7, <2>1, <2>2 DEF Held
    <3> QED BY <1>0, <1>3, <1>5, <1>6, <2>1, <2>2, <3>1
  <2>3. CASE PubGoto(p, "evict") /\ UNCHANGED dropped
    <3>1. N' = N
      BY <1>7, <2>1, <2>3 DEF Held
    <3> QED BY <1>0, <1>4, <1>5, <1>6, <2>1, <2>3, <3>1
  <2> QED BY <1>12, <2>2, <2>3 DEF PubFull
<1>13. CASE PubEvict(p)
  <2>1. UNCHANGED <<ring, accepted>> /\ pub[p] = "evict" /\ PubGoto(p, "enqueue")
    BY <1>13 DEF PubEvict
  <2>2. N' = N
    BY <1>7, <2>1 DEF Held
  <2>3. CASE UNCHANGED <<ch, dropped>>
    BY <1>0, <1>4, <1>5, <1>6, <2>1, <2>2, <2>3
  <2>4. CASE ch # <<>> /\ ch' = Tail(ch) /\ dropped' = dropped + 1
    <3>1. ch \in Seq(Event) /\ Tail(ch) \in Seq(Event)
      BY <2>4, SeqOps DEF TypeOK, QueueTypeOK
    <3>2. Len(ch) = Len(ch') + 1 /\ Len(ch') \in Nat
      BY <2>4, <3>1
    <3> QED BY <1>0, <1>3, <1>4, <1>5, <1>6, <2>1, <2>2, <2>4, <3>2
  <2> QED BY <1>13, <2>3, <2>4 DEF PubEvict
<1>14. CASE PubEnqueue(p)
  <2>1. UNCHANGED <<ring, accepted>> /\ pub[p] = "enqueue" /\ PubGoto(p, "idle")
    BY <1>14 DEF PubEnqueue
  <2>2. N = N' + 1 /\ N' \in Nat
    BY <1>7, <2>1 DEF Held
  <2>3. CASE ch' = Append(ch, Current(p)) /\ UNCHANGED dropped
    <3>1. Len(ch') = Len(ch) + 1
      BY <1>c, <2>1, <2>3, SeqOps DEF TypeOK, QueueTypeOK
    <3> QED BY <1>0, <1>3, <1>5, <1>6, <2>1, <2>2, <2>3, <3>1
  <2>4. CASE dropped' = dropped + 1 /\ UNCHANGED ch
    BY <1>0, <1>3, <1>5, <1>6, <2>1, <2>2, <2>4
  <2> QED BY <1>14, <2>3, <2>4 DEF PubEnqueue
<1> QED BY <1>8, <1>9, <1>10, <1>11, <1>12, <1>13, <1>14 DEF Deliver

LEMMA SameSum ==
  \A t1, t2, s1, s2, n, d \in Nat : t1 + s1 = t2 + s2 => t1 + n + s1 + d = t2 + n + s2 + d
OBVIOUS

LEMMA SameTotal ==
  ASSUME TypeOK, FreshInv, Accounted, UNCHANGED <<accepted, pub, dropped>>,
         Total' + skipped' = Total + skipped, Total' \in Nat, skipped' \in Nat
  PROVE  Accounted'
<1>0. /\ Len(handled) \in Nat /\ Len(consumerHold) \in Nat /\ Len(bridgeHold) \in Nat
      /\ Len(ch) \in Nat /\ Len(drainHold) \in Nat /\ Len(ring) \in Nat
      /\ skipped \in Nat /\ dropped \in Nat /\ Cardinality(Placing) \in Nat
  BY Lengths, FS_CardinalityType DEF FreshInv
<1>01. Placing' = Placing
  BY DEF Placing
<1>1. Total \in Nat
  BY <1>0 DEF Total
<1>2. PICK t, t1, s1, n \in Nat : t = Total /\ t1 = Total' /\ s1 = skipped' /\ n = Cardinality(Placing)
  BY <1>0, <1>1
<1>3. t1 + s1 = t + skipped
  BY <1>2
<1>4. t + n + skipped + dropped = t1 + n + s1 + dropped
  BY <1>0, <1>3, SameSum
<1>5. Cardinality(accepted) = t + n + skipped + dropped
  BY <1>2 DEF Accounted
<1>6. Cardinality(accepted') = Total' + Cardinality(Placing') + skipped' + dropped'
  BY <1>01, <1>2, <1>4, <1>5
<1> QED BY <1>6 DEF Accounted

\* Between the ring and the handler an envelope only changes hands, or is skipped.
LEMMA ReceiveCount ==
  ASSUME TypeOK, HoldInv, FreshInv, Accounted, ~cancelled, ~quit, Drain \/ Receive \/ Consume
  PROVE  Accounted'
<1> USE DEF rawVars, ovfVars, drain, typedVars, bridge, workerVars, consumer, histVars, pubVars
<1>0. /\ Len(handled) \in Nat /\ Len(consumerHold) \in Nat /\ Len(bridgeHold) \in Nat
      /\ Len(ch) \in Nat /\ Len(drainHold) \in Nat /\ Len(ring) \in Nat
      /\ skipped \in Nat /\ dropped \in Nat /\ Cardinality(Placing) \in Nat
  BY Lengths, FS_CardinalityType DEF FreshInv
<1>1. UNCHANGED <<accepted, pub, dropped>>
  BY DEF Drain, DrainPop, DrainSend, DrainWake, DrainCancel, Receive, BridgeRecv, BridgeEnd, BridgeQuit, Handoff,
         Consume, Handle, ConsumerExit
<1>2. Cardinality(Placing') = Cardinality(Placing) /\ Cardinality(accepted') = Cardinality(accepted)
  BY <1>1 DEF Placing
<1>3. ASSUME Total' + skipped' = Total + skipped, Total' \in Nat, skipped' \in Nat
      PROVE  Accounted'
  BY <1>1, <1>3, SameTotal
<1>4. /\ ch \in Seq(Event) /\ ring \in Seq(Event) /\ drainHold \in Seq(Event) /\ handled \in Seq(Event)
      /\ consumerHold \in Seq(Event)
  BY DEF TypeOK, QueueTypeOK, HandTypeOK
<1>5. /\ Len(ch \o drainHold) = Len(ch) + Len(drainHold)
      /\ Len(handled \o consumerHold) = Len(handled) + Len(consumerHold)
      /\ ch # <<>> => Len(ch) = Len(Tail(ch)) + 1 /\ Len(Tail(ch)) \in Nat
      /\ ring # <<>> => Len(ring) = Len(Tail(ring)) + 1 /\ Len(Tail(ring)) \in Nat
      /\ Len(<<>>) = 0
  BY <1>4, SeqOps
<1>6. CASE DrainPop
  <2>1. UNCHANGED <<handled, consumerHold, bridgeHold, ch, skipped>> /\ drainHold = <<>>
    BY <1>6 DEF DrainPop, HoldInv
  <2>2. Len(drainHold') + Len(ring') = Len(drainHold) + Len(ring) /\ Len(drainHold') \in Nat /\ Len(ring') \in Nat
    <3>1. CASE ring = <<>>
      BY <1>0, <1>6, <2>1, <3>1 DEF DrainPop
    <3>2. CASE ring # <<>>
      <4>1. drainHold' = <<Head(ring)>> /\ ring' = Tail(ring)
        BY <1>6, <3>2 DEF DrainPop
      <4>2. Len(drainHold') = 1 /\ Len(drainHold) = 0
        BY <2>1, <4>1, SmallSeqs
      <4> QED BY <1>5, <3>2, <4>1, <4>2
    <3> QED BY <3>1, <3>2
  <2>3. Total' = Total /\ Total' \in Nat
    BY <1>0, <2>1, <2>2 DEF Total
  <2> QED BY <1>0, <1>3, <2>1, <2>3
<1>7. CASE DrainSend
  <2>1. UNCHANGED <<handled, consumerHold, bridgeHold, ring, skipped>>
    BY <1>7 DEF DrainSend
  <2>2. Len(ch') = Len(ch) + Len(drainHold) /\ Len(drainHold') = 0
    BY <1>5, <1>7 DEF DrainSend
  <2>3. Total' = Total /\ Total' \in Nat
    BY <1>0, <2>1, <2>2 DEF Total
  <2> QED BY <1>0, <1>3, <2>1, <2>3
<1>8. CASE BridgeRecv
  <2>1. UNCHANGED <<handled, consumerHold, drainHold, ring>> /\ bridgeHold = <<>> /\ ch # <<>> /\ ch' = Tail(ch)
    BY <1>8 DEF BridgeRecv, HoldInv
  <2>2. Len(bridgeHold) = 0 /\ skipped \in Nat
    BY <1>0, <2>1, SmallSeqs
  <2>3. \/ skipped' = skipped + 1 /\ bridgeHold' = bridgeHold
        \/ skipped' = skipped /\ bridgeHold' = <<Head(ch)>>
    BY <1>8 DEF BridgeRecv
  <2>4. \/ skipped' = skipped + 1 /\ Len(bridgeHold') = 0
        \/ skipped' = skipped /\ Len(bridgeHold') = 1
    BY <2>2, <2>3, SmallSeqs
  <2>5. Len(ch) = Len(ch') + 1 /\ Len(ch') \in Nat
    BY <1>5, <2>1
  <2> DEFINE R == Len(handled) + Len(consumerHold) + Len(drainHold) + Len(ring)
  <2>6. R \in Nat /\ R' = R
    BY <1>0, <2>1
  <2>7. Total = R + Len(ch) /\ Total' = R' + Len(bridgeHold') + Len(ch')
    BY <1>0, <2>1, <2>2, <2>4, <2>5 DEF Total
  <2> HIDE DEF R
  <2>8. CASE skipped' = skipped + 1 /\ Len(bridgeHold') = 0
    <3>1. Total = R + (Len(ch') + 1) /\ Total' = R + Len(ch')
      BY <2>5, <2>6, <2>7, <2>8
    <3> QED BY <1>3, <2>2, <2>5, <2>6, <2>8, <3>1
  <2>9. CASE skipped' = skipped /\ Len(bridgeHold') = 1
    <3>1. Total = R + (Len(ch') + 1) /\ Total' = R + 1 + Len(ch')
      BY <2>5, <2>6, <2>7, <2>9
    <3> QED BY <1>3, <2>2, <2>5, <2>6, <2>9, <3>1
  <2> QED BY <2>4, <2>8, <2>9
<1>9. CASE Handoff
  <2>1. UNCHANGED <<handled, ch, drainHold, ring, skipped>> /\ consumerHold' = bridgeHold /\ bridgeHold' = <<>>
        /\ consumerHold = <<>>
    BY <1>9 DEF Handoff, HoldInv
  <2>2. Total' = Total /\ Total' \in Nat
    BY <1>0, <1>5, <2>1 DEF Total
  <2> QED BY <1>0, <1>3, <2>1, <2>2
<1>10. CASE Handle
  <2>1. UNCHANGED <<bridgeHold, ch, drainHold, ring, skipped>> /\ consumerHold' = <<>>
        /\ handled' = handled \o consumerHold
    BY <1>10 DEF Handle
  <2>2. Total' = Total /\ Total' \in Nat
    BY <1>0, <1>5, <2>1 DEF Total
  <2> QED BY <1>0, <1>3, <2>1, <2>2
<1>11. CASE DrainWake \/ BridgeEnd \/ ConsumerExit
  <2>1. UNCHANGED <<handled, consumerHold, bridgeHold, ch, drainHold, ring, skipped>>
    BY <1>11 DEF DrainWake, BridgeEnd, ConsumerExit
  <2>2. Total' = Total /\ Total' \in Nat
    BY <1>0, <2>1 DEF Total
  <2> QED BY <1>0, <1>3, <2>1, <2>2
<1>12. ~DrainCancel /\ ~BridgeQuit
  BY DEF DrainCancel, BridgeQuit
<1> QED BY <1>6, <1>7, <1>8, <1>9, <1>10, <1>11, <1>12 DEF Drain, Receive, Consume

LEMMA CountInvKept == TypeOK /\ HoldInv /\ FreshInv /\ CountInv /\ [Next]_vars => CountInv'
<1> SUFFICES ASSUME TypeOK, HoldInv, FreshInv, CountInv, [Next]_vars, ~closed', ~quit' PROVE Accounted'
  BY DEF CountInv
<1>1. ~closed /\ ~quit
  <2>1. ASSUME NEW p \in Publishers, PubStart(p) \/ Deliver(p) PROVE UNCHANGED <<closed, quit>>
    BY <2>1 DEF PubStart, Deliver, PubAbandon, PubAccept, PubPush, PubNotify, PubFastPath, PubFull, PubEvict,
                PubEnqueue, rawVars, typedVars
  <2>2. CASE Drain \/ Receive \/ Consume \/ UNCHANGED vars
    BY <2>2 DEF Drain, DrainPop, DrainSend, DrainWake, DrainCancel, Receive, BridgeRecv, BridgeEnd, BridgeQuit,
                Handoff, Consume, Handle, ConsumerExit, vars, rawVars, typedVars
  <2>3. CASE \/ OwnerStop \/ CloseStep \/ BusShutdown
             \/ \E c \in {"owner", "watcher"} : RawClose(c)
    BY <2>3 DEF OwnerStop, CloseStep, BusShutdown, RawClose, OwnerQuit, OwnerAwait, OwnerJoin, WatcherRelease,
                BusDrained, RawDrained, RawUnlink, rawVars, typedVars
  <2> QED BY <2>1, <2>2, <2>3 DEF Next
<1>2. Accounted
  BY <1>1 DEF CountInv
<1>3. ~cancelled
  BY <1>1 DEF FreshInv
<1>4. CASE \/ OwnerStop \/ CloseStep \/ BusShutdown \/ UNCHANGED vars
           \/ \E c \in {"owner", "watcher"} : RawClose(c)
  <2>1. UNCHANGED <<ring, drainHold, ch, bridgeHold, consumerHold, handled, accepted, pub, skipped, dropped>>
    BY <1>4 DEF OwnerStop, CloseStep, BusShutdown, RawClose, OwnerQuit, OwnerAwait, OwnerJoin, WatcherRelease,
                BusDrained, RawDrained, RawUnlink, vars, rawVars, typedVars, workerVars, ovfVars, pubVars, histVars,
                drain, bridge, consumer
  <2> QED BY <1>2, <2>1 DEF Accounted, Total, Placing
<1> QED BY <1>2, <1>3, <1>1, <1>4, PublishCount, ReceiveCount DEF Next

LEMMA InitBooks == Init => HoldInv /\ FreshInv /\ CountInv
<1> SUFFICES ASSUME Init PROVE HoldInv /\ FreshInv /\ CountInv
  OBVIOUS
<1>1. Placing = {} /\ accepted = {}
  BY DEF Init, Placing
<1>2. HoldInv
  BY DEF Init, HoldInv
<1>3. FreshInv
  BY <1>1, FS_EmptySet DEF Init, FreshInv
<1>4. CountInv
  BY <1>1, FS_EmptySet, SmallSeqs DEF Init, CountInv, Accounted, Total
<1> QED BY <1>2, <1>3, <1>4

LEMMA BooksInvariant == Spec => [](HoldInv /\ FreshInv /\ CountInv)
<1>1. TypeOK /\ (HoldInv /\ FreshInv /\ CountInv) /\ [Next]_vars => (HoldInv /\ FreshInv /\ CountInv)'
  BY HoldInvKept, FreshInvKept, CountInvKept
<1> QED BY <1>1, InitBooks, TypeCorrect, PTL DEF Spec

\* Until the subscription closes, the deliveries that were accepted are exactly
\* those handled, in flight, in a publisher's hands, skipped for their payload
\* type or counted in dropped: no policy loses an envelope without a trace.
THEOREM LossAccounted == Spec => []NoSilentLoss
<1>1. TypeOK /\ CountInv => NoSilentLoss
  <2> SUFFICES ASSUME TypeOK, CountInv, ~closed, ~quit
               PROVE  Cardinality(accepted) = Len(Pipeline) + Cardinality(Placing) + skipped + dropped
    BY DEF NoSilentLoss
  <2> QED BY Lengths DEF CountInv, Accounted
<1> QED BY <1>1, BooksInvariant, TypeCorrect, PTL

-----------------------------------------------------------------------------
(* The promise.  Every step of the subscription is one of a lossy FIFO.    *)

\* The envelopes of a sequence, by the operations on it.
Ev(s) == Promise!Events(s)

LEMMA EvOps ==
  ASSUME NEW S, NEW s \in Seq(S), NEW t \in Seq(S)
  PROVE  /\ Ev(<<>>) = {} /\ \A e : Ev(<<e>>) = {e}
         /\ Ev(s \o t) = Ev(s) \cup Ev(t)
         /\ \A e \in S : Ev(Append(s, e)) = Ev(s) \cup {e}
         /\ s # <<>> => Ev(s) = {Head(s)} \cup Ev(Tail(s))
<1>1. Ev(<<>>) = {} /\ \A e : Ev(<<e>>) = {e}
  BY DEF Ev, Promise!Events
<1>0. \A u : Ev(u) = {u[i] : i \in 1..Len(u)}
  BY DEF Ev, Promise!Events
<1>2. \A u \in Seq(S) : Ev(u) = Range(u)
  BY <1>0, RangeEquality
<1>3. s \o t \in Seq(S)
  BY ConcatProperties
<1>c. \A u, v \in Seq(S) : u \o v \in Seq(S) => Ev(u \o v) = Ev(u) \cup Ev(v)
  <2> SUFFICES ASSUME NEW u \in Seq(S), NEW v \in Seq(S), u \o v \in Seq(S)
               PROVE  Ev(u \o v) = Ev(u) \cup Ev(v)
    OBVIOUS
  <2>1. Ev(u \o v) = Range(u \o v) /\ Ev(u) = Range(u) /\ Ev(v) = Range(v)
    BY <1>2, Zenon
  <2>2. Range(u \o v) = Range(u) \cup Range(v)
    BY RangeConcatenation
  <2> QED BY <2>1, <2>2, Zenon
<1>4. Ev(s \o t) = Ev(s) \cup Ev(t)
  BY <1>c, <1>3, Zenon
<1>5. ASSUME NEW e \in S PROVE Ev(Append(s, e)) = Ev(s) \cup {e}
  <2>1. Append(s, e) = s \o <<e>> /\ <<e>> \in Seq(S) /\ s \o <<e>> \in Seq(S)
    BY AppendIsConcat, SeqOps
  <2>2. Ev(s \o <<e>>) = Ev(s) \cup Ev(<<e>>)
    BY <1>c, <2>1, Zenon
  <2> QED BY <1>1, <2>1, <2>2
<1>7. ASSUME s # <<>> PROVE Ev(s) = {Head(s)} \cup Ev(Tail(s))
  <2>1. Len(s) \in Nat /\ Len(s) >= 1 /\ Len(Tail(s)) = Len(s) - 1 /\ Head(s) = s[1]
    BY <1>7
  <2>2. \A i \in 1..Len(Tail(s)) : Tail(s)[i] = s[i + 1]
    BY <1>7, HeadTailProperties
  <2>3. \A i \in 2..Len(s) : i - 1 \in 1..Len(Tail(s)) /\ Tail(s)[i - 1] = s[i]
    BY <2>1, <2>2
  <2>4. \A i \in 1..Len(Tail(s)) : i + 1 \in 1..Len(s)
    BY <2>1
  <2>5. \A i \in 1..Len(s) : i = 1 \/ i \in 2..Len(s)
    BY <2>1
  <2>6. 1 \in 1..Len(s)
    BY <2>1
  <2>7. Ev(s) \subseteq {Head(s)} \cup Ev(Tail(s))
    <3> SUFFICES ASSUME NEW i \in 1..Len(s) PROVE s[i] \in {Head(s)} \cup Ev(Tail(s))
      BY <1>0
    <3>1. CASE i = 1
      BY <2>1, <3>1
    <3>2. CASE i \in 2..Len(s)
      <4>1. i - 1 \in 1..Len(Tail(s)) /\ Tail(s)[i - 1] = s[i]
        BY <2>3, <3>2
      <4>2. Tail(s)[i - 1] \in Ev(Tail(s))
        BY <1>0, <4>1
      <4> QED BY <4>1, <4>2
    <3> QED BY <2>5, <3>1, <3>2
  <2>8. Head(s) \in Ev(s)
    BY <1>0, <2>1, <2>6
  <2>9. Ev(Tail(s)) \subseteq Ev(s)
    <3> SUFFICES ASSUME NEW i \in 1..Len(Tail(s)) PROVE Tail(s)[i] \in Ev(s)
      BY <1>0
    <3>1. i + 1 \in 1..Len(s) /\ Tail(s)[i] = s[i + 1]
      BY <2>2, <2>4
    <3>2. s[i + 1] \in Ev(s)
      BY <1>0, <3>1
    <3> QED BY <3>1, <3>2
  <2> QED BY <2>7, <2>8, <2>9
<1> QED BY <1>1, <1>4, <1>5, <1>7

LEMMA RemoveInsert ==
  /\ \A s, i : Promise!RemoveAt(s, i) = SubSeq(s, 1, i - 1) \o SubSeq(s, i + 1, Len(s))
  /\ \A s, i, e : Promise!InsertAt(s, i, e) = SubSeq(s, 1, i - 1) \o <<e>> \o SubSeq(s, i, Len(s))
BY Zenon DEF Promise!RemoveAt, Promise!InsertAt

\* Taking the head out of the middle part of a sequence is losing its element, and
\* appending to the first part is inserting behind it.
LEMMA LoseMiddle ==
  ASSUME NEW S, NEW a \in Seq(S), NEW c \in Seq(S), NEW b \in Seq(S), c # <<>>
  PROVE  /\ Len(a) + 1 \in 1..Len((a \o c) \o b)
         /\ Promise!RemoveAt((a \o c) \o b, Len(a) + 1) = (a \o Tail(c)) \o b
<1> DEFINE s == (a \o c) \o b
           u == (a \o Tail(c)) \o b
           k == Len(a)
           f == SubSeq(s, 1, (k + 1) - 1)
           g == SubSeq(s, (k + 1) + 1, Len(s))
<1>1. k \in Nat /\ Len(c) \in Nat /\ Len(c) >= 1 /\ Len(b) \in Nat
  BY LenProperties, EmptySeq
<1>2. /\ Tail(c) \in Seq(S) /\ Len(Tail(c)) = Len(c) - 1
      /\ \A i \in 1..Len(Tail(c)) : Tail(c)[i] = c[i + 1]
  BY HeadTailProperties
<1>3. /\ a \o c \in Seq(S) /\ Len(a \o c) = k + Len(c)
      /\ \A i \in 1..k + Len(c) : (a \o c)[i] = IF i <= k THEN a[i] ELSE c[i - k]
  BY ConcatProperties
<1>4. /\ s \in Seq(S) /\ Len(s) = k + Len(c) + Len(b)
      /\ \A i \in 1..k + Len(c) + Len(b) :
            s[i] = IF i <= k + Len(c) THEN (a \o c)[i] ELSE b[i - (k + Len(c))]
  BY <1>3, ConcatProperties
<1>5. /\ a \o Tail(c) \in Seq(S) /\ Len(a \o Tail(c)) = k + Len(Tail(c))
      /\ \A i \in 1..k + Len(Tail(c)) : (a \o Tail(c))[i] = IF i <= k THEN a[i] ELSE Tail(c)[i - k]
  BY <1>2, ConcatProperties
<1>6. /\ u \in Seq(S) /\ Len(u) = k + Len(Tail(c)) + Len(b)
      /\ \A i \in 1..k + Len(Tail(c)) + Len(b) :
            u[i] = IF i <= k + Len(Tail(c)) THEN (a \o Tail(c))[i] ELSE b[i - (k + Len(Tail(c)))]
  BY <1>5, ConcatProperties
<1> HIDE DEF s, u, k
<1>7. \A i \in 1..Len(s) : s[i] \in S
  BY <1>4, ElementOfSeq
<1>8. /\ f \in Seq(S) /\ Len(f) = k
      /\ \A i \in 1..k : f[i] = s[i]
  <2>1. (k + 1) - 1 = k /\ k \in Int /\ 1 \in Int /\ \A i \in 1..k : s[i] \in S
    BY <1>1, <1>4, <1>7
  <2>2. /\ SubSeq(s, 1, k) \in Seq(S) /\ Len(SubSeq(s, 1, k)) = IF 1 <= k THEN k - 1 + 1 ELSE 0
        /\ \A i \in 1..k - 1 + 1 : SubSeq(s, 1, k)[i] = s[1 + i - 1]
    BY <2>1, SubSeqProperties
  <2> QED BY <1>1, <2>1, <2>2
<1>9. /\ g \in Seq(S) /\ Len(g) = Len(s) - (k + 1)
      /\ \A i \in 1..Len(s) - (k + 1) : g[i] = s[k + 1 + i]
  <2>1. (k + 1) + 1 = k + 2 /\ k + 2 \in Int /\ Len(s) \in Int /\ \A i \in k + 2..Len(s) : s[i] \in S
    BY <1>1, <1>4, <1>7
  <2>2. /\ SubSeq(s, k + 2, Len(s)) \in Seq(S)
        /\ Len(SubSeq(s, k + 2, Len(s))) = IF k + 2 <= Len(s) THEN Len(s) - (k + 2) + 1 ELSE 0
        /\ \A i \in 1..Len(s) - (k + 2) + 1 : SubSeq(s, k + 2, Len(s))[i] = s[k + 2 + i - 1]
    BY <2>1, SubSeqProperties
  <2> QED BY <1>1, <1>4, <2>1, <2>2
<1>10. Promise!RemoveAt(s, k + 1) = f \o g
  BY RemoveInsert, Zenon DEF f, g
<1> HIDE DEF f, g
<1>11. /\ f \o g \in Seq(S) /\ Len(f \o g) = Len(f) + Len(g)
       /\ \A i \in 1..Len(f) + Len(g) : (f \o g)[i] = IF i <= Len(f) THEN f[i] ELSE g[i - Len(f)]
  BY <1>8, <1>9, ConcatProperties
<1>111. Len(f \o g) = Len(u) /\ Len(f) + Len(g) = Len(u)
  <2>1. Len(g) = Len(c) + Len(b) - 1
    BY <1>1, <1>4, <1>9
  <2>2. Len(u) = k + (Len(c) - 1) + Len(b)
    BY <1>2, <1>6
  <2>3. Len(f) + Len(g) = Len(u)
    BY <1>1, <1>8, <2>1, <2>2
  <2> QED BY <1>11, <2>3
<1>12. ASSUME NEW i \in 1..Len(u) PROVE (f \o g)[i] = u[i]
  <2>0. i \in Nat /\ i >= 1 /\ i <= k + (Len(c) - 1) + Len(b)
    BY <1>1, <1>2, <1>6
  <2>1. CASE i <= k
    <3>1. (f \o g)[i] = s[i]
      <4>1. i \in 1..Len(f) + Len(g) /\ i \in 1..k /\ i <= Len(f)
        BY <1>1, <1>8, <1>111, <2>0, <2>1
      <4> QED BY <1>8, <1>11, <4>1
    <3>2. s[i] = a[i]
      BY <1>1, <1>3, <1>4, <2>0, <2>1
    <3>3. u[i] = a[i]
      BY <1>1, <1>2, <1>5, <1>6, <2>0, <2>1
    <3> QED BY <3>1, <3>2, <3>3
  <2>2. CASE i > k
    <3>1. (f \o g)[i] = g[i - k] /\ g[i - k] = s[i + 1]
      <4>1. i - k \in 1..Len(s) - (k + 1) /\ k + 1 + (i - k) = i + 1
        BY <1>1, <1>4, <2>0, <2>2
      <4>2. i \in 1..Len(f) + Len(g)
        BY <1>1, <1>4, <1>8, <1>9, <2>0
      <4>3. ~(i <= Len(f)) /\ i - Len(f) = i - k
        BY <1>1, <1>8, <2>0, <2>2
      <4>4. (f \o g)[i] = g[i - k]
        BY <1>11, <4>2, <4>3
      <4>5. g[i - k] = s[k + 1 + (i - k)]
        BY <1>9, <4>1
      <4> QED BY <4>1, <4>4, <4>5
    <3>2. CASE i <= k + (Len(c) - 1)
      <4>1. s[i + 1] = (a \o c)[i + 1] /\ (a \o c)[i + 1] = c[(i + 1) - k]
        BY <1>1, <1>3, <1>4, <2>0, <2>2, <3>2
      <4>2. u[i] = (a \o Tail(c))[i] /\ (a \o Tail(c))[i] = Tail(c)[i - k]
        <5>1. Len(Tail(c)) = Len(c) - 1 /\ i \in 1..k + (Len(c) - 1) /\ i \in 1..k + (Len(c) - 1) + Len(b)
          BY <1>1, <1>2, <2>0, <3>2
        <5>2. u[i] = (a \o Tail(c))[i]
          BY <1>6, <3>2, <5>1
        <5>3. ~(i <= k)
          BY <1>1, <2>0, <2>2
        <5> QED BY <1>5, <5>1, <5>2, <5>3
      <4>3. i - k \in 1..Len(Tail(c)) /\ (i - k) + 1 = (i + 1) - k
        BY <1>1, <1>2, <2>0, <2>2, <3>2
      <4> QED BY <1>2, <3>1, <4>1, <4>2, <4>3
    <3>3. CASE i > k + (Len(c) - 1)
      <4>1. s[i + 1] = b[(i + 1) - (k + Len(c))]
        <5>1. i + 1 \in 1..k + Len(c) + Len(b) /\ ~(i + 1 <= k + Len(c))
          BY <1>1, <2>0, <3>3
        <5> QED BY <1>4, <5>1
      <4>2. u[i] = b[i - (k + (Len(c) - 1))]
        BY <1>1, <1>2, <1>6, <2>0, <3>3
      <4>3. (i + 1) - (k + Len(c)) = i - (k + (Len(c) - 1))
        BY <1>1, <2>0
      <4> QED BY <3>1, <4>1, <4>2, <4>3
    <3>4. i <= k + (Len(c) - 1) \/ i > k + (Len(c) - 1)
      BY <1>1, <2>0
    <3> QED BY <3>2, <3>3, <3>4, Zenon
  <2>3. i <= k \/ i > k
    BY <1>1, <2>0
  <2> QED BY <2>1, <2>2, <2>3, Zenon
<1>13. f \o g = u
  BY <1>6, <1>11, <1>111, <1>12, SeqEqual
<1>14. k + 1 \in 1..Len(s)
  BY <1>1, <1>4
<1> QED BY <1>10, <1>13, <1>14 DEF s, u, k

LEMMA InsertMiddle ==
  ASSUME NEW S, NEW a \in Seq(S), NEW b \in Seq(S), NEW e \in S
  PROVE  Promise!InsertAt(a \o b, Len(a) + 1, e) = Append(a, e) \o b
<1> DEFINE s == a \o b
           k == Len(a)
<1>1. k \in Nat /\ Len(b) \in Nat
  BY LenProperties
<1>2. s \in Seq(S) /\ Len(s) = k + Len(b)
  BY ConcatProperties
<1>3. SubSeq(s, 1, k) = a
  <2>0. \A i \in 1..k : s[i] = a[i] /\ a[i] \in S
    BY <1>1, ConcatProperties, ElementOfSeq
  <2> HIDE DEF s
  <2>1. /\ SubSeq(s, 1, k) \in Seq(S) /\ Len(SubSeq(s, 1, k)) = IF 1 <= k THEN k - 1 + 1 ELSE 0
        /\ \A i \in 1..k - 1 + 1 : SubSeq(s, 1, k)[i] = s[1 + i - 1]
    <3>1. k \in Int /\ 1 \in Int /\ \A i \in 1..k : s[i] \in S
      BY <1>1, <2>0
    <3> QED BY <3>1, SubSeqProperties
  <2>2. Len(SubSeq(s, 1, k)) = k /\ \A i \in 1..k : SubSeq(s, 1, k)[i] = a[i]
    BY <1>1, <2>0, <2>1
  <2> QED BY <2>1, <2>2, SeqEqual
<1>4. SubSeq(s, k + 1, Len(s)) = b
  <2>0. \A i \in 1..Len(b) : s[k + i] = b[i] /\ b[i] \in S
    <3>1. \A i \in 1..Len(b) : k + i \in 1..k + Len(b) /\ ~(k + i <= k) /\ k + i - k = i
      BY <1>1
    <3>2. \A j \in 1..k + Len(b) : s[j] = IF j <= k THEN a[j] ELSE b[j - k]
      BY ConcatProperties
    <3> QED BY <3>1, <3>2, ElementOfSeq
  <2> HIDE DEF s
  <2>1. /\ SubSeq(s, k + 1, Len(s)) \in Seq(S)
        /\ Len(SubSeq(s, k + 1, Len(s))) = IF k + 1 <= Len(s) THEN Len(s) - (k + 1) + 1 ELSE 0
        /\ \A i \in 1..Len(s) - (k + 1) + 1 : SubSeq(s, k + 1, Len(s))[i] = s[k + 1 + i - 1]
    <3>1. k + 1 \in Int /\ Len(s) \in Int
      BY <1>1, <1>2
    <3>2. ASSUME NEW i \in k + 1..Len(s) PROVE s[i] \in S
      <4>1. i - k \in 1..Len(b) /\ k + (i - k) = i
        BY <1>1, <1>2
      <4> QED BY <2>0, <4>1
    <3> QED BY <3>1, <3>2, SubSeqProperties
  <2>2. Len(SubSeq(s, k + 1, Len(s))) = Len(b)
    BY <1>1, <1>2, <2>1
  <2>3. ASSUME NEW i \in 1..Len(b) PROVE SubSeq(s, k + 1, Len(s))[i] = b[i]
    <3>1. i \in 1..Len(s) - (k + 1) + 1 /\ k + 1 + i - 1 = k + i
      BY <1>1, <1>2
    <3> QED BY <2>0, <2>1, <3>1
  <2> QED BY <2>1, <2>2, <2>3, SeqEqual
<1>5. (k + 1) - 1 = k
  BY <1>1
<1>6. Promise!InsertAt(s, k + 1, e) = a \o <<e>> \o b
  <2>1. Promise!InsertAt(s, k + 1, e) = SubSeq(s, 1, (k + 1) - 1) \o <<e>> \o SubSeq(s, k + 1, Len(s))
    BY RemoveInsert, Zenon
  <2> HIDE DEF s, k
  <2> QED BY <1>3, <1>4, <1>5, <2>1, Zenon
<1>7. Append(a, e) = a \o <<e>>
  BY AppendIsConcat
<1> QED BY <1>6, <1>7

\* The queue around the channel, and its room: the three hands hold one each.
LEMMA FlightParts ==
  ASSUME TypeOK, HoldInv
  PROVE  LET A == consumerHold \o bridgeHold
             B == drainHold \o ring
         IN  /\ A \in Seq(Event) /\ B \in Seq(Event) /\ ch \in Seq(Event) /\ A \o ch \in Seq(Event)
             /\ InFlight = (A \o ch) \o B /\ InFlight = ((A \o ch) \o drainHold) \o ring
             /\ Len(A) \in Nat /\ Len(ch) \in Nat /\ Len(B) \in Nat
             /\ Len(A) <= 2 /\ Len(ring) \in Nat /\ Len(B) <= Len(ring) + 1
             /\ Len(InFlight) = Len(A) + Len(ch) + Len(B) /\ InFlight \in Seq(Event)
<1> DEFINE A == consumerHold \o bridgeHold
           B == drainHold \o ring
<1>1. /\ consumerHold \in Seq(Event) /\ bridgeHold \in Seq(Event) /\ ch \in Seq(Event)
      /\ drainHold \in Seq(Event) /\ ring \in Seq(Event)
  BY DEF TypeOK, QueueTypeOK, HandTypeOK
<1>2. /\ Len(consumerHold) \in {0, 1} /\ Len(bridgeHold) \in {0, 1} /\ Len(drainHold) \in {0, 1}
  BY SmallSeqs DEF HoldInv, TypeOK, HandTypeOK
<1>3. A \in Seq(Event) /\ B \in Seq(Event)
  BY <1>1, ConcatProperties
<1>31. Len(A) = Len(consumerHold) + Len(bridgeHold) /\ Len(B) = Len(drainHold) + Len(ring)
  BY <1>1, ConcatProperties
<1>4. Len(ch) \in Nat /\ Len(ring) \in Nat
  BY <1>1, LenProperties
<1>6. InFlight = ((A \o ch) \o drainHold) \o ring
  BY DEF InFlight
<1> HIDE DEF A
<1>7. A \o ch \in Seq(Event) /\ Len(A \o ch) = Len(A) + Len(ch)
  BY <1>1, <1>3, ConcatProperties
<1>8. InFlight = (A \o ch) \o B
  <2>1. ((A \o ch) \o drainHold) \o ring = (A \o ch) \o (drainHold \o ring)
    <3> DEFINE C == A \o ch
    <3>1. C \in Seq(Event)
      BY <1>7
    <3> HIDE DEF C
    <3>2. (C \o drainHold) \o ring = C \o (drainHold \o ring)
      <4>1. \A u, v, w \in Seq(Event) : (u \o v) \o w = u \o (v \o w)
        BY ConcatAssociative
      <4> QED BY <1>1, <3>1, <4>1, Zenon
    <3> QED BY <3>2 DEF C
  <2> QED BY <1>6, <2>1
<1> HIDE DEF B
<1>5. Len(A) \in Nat /\ Len(B) \in Nat /\ Len(A) <= 2 /\ Len(B) <= Len(ring) + 1
  <2>1. PICK x, y, z \in {0, 1} : /\ x = Len(consumerHold) /\ y = Len(bridgeHold) /\ z = Len(drainHold)
    BY <1>2
  <2>2. Len(A) = x + y /\ Len(B) = z + Len(ring)
    BY <1>31, <2>1
  <2>3. x + y \in Nat /\ x + y <= 2
    OBVIOUS
  <2>4. z + Len(ring) \in Nat /\ z + Len(ring) <= Len(ring) + 1
    BY <1>4
  <2> QED BY <2>2, <2>3, <2>4
<1>9. InFlight \in Seq(Event) /\ Len(InFlight) = Len(A) + Len(ch) + Len(B)
  <2>1. (A \o ch) \o B \in Seq(Event) /\ Len((A \o ch) \o B) = Len(A \o ch) + Len(B)
    BY <1>3, <1>7, ConcatProperties
  <2> QED BY <1>7, <1>8, <2>1
<1> QED BY <1>1, <1>3, <1>4, <1>5, <1>6, <1>7, <1>8, <1>9 DEF A, B

\* A push that fell back to the channel remembers it, and no event is in the queue
\* or handled before its publisher has placed it.
Seen == Ev(handled) \cup Ev(consumerHold) \cup Ev(bridgeHold) \cup Ev(ch) \cup Ev(drainHold) \cup Ev(ring)
ToPlace == {"check", "route", "evict", "enqueue"}
PipeInv ==
  /\ \A e \in Seen : e[2] <= sent[e[1]]
  /\ \A p \in Publishers : pub[p] \in ToPlace => Current(p) \notin Seen
FallbackInv ==
  policy = "overflow" => \A p \in Publishers : pub[p] \in {"evict", "enqueue"} => fallback = TRUE

LEMMA FallbackKept == TypeOK /\ FallbackInv /\ [Next]_vars => FallbackInv'
<1> SUFFICES ASSUME TypeOK, FallbackInv, [Next]_vars PROVE FallbackInv'
  OBVIOUS
<1> USE DEF FallbackInv, rawVars, pubVars
<1>0. pub \in [Publishers -> PubPlaces]
  BY DEF TypeOK, PublisherTypeOK, PubPlaces
<1>1. ASSUME NEW p \in Publishers, PubStart(p) \/ PubAbandon(p) \/ PubAccept(p) \/ PubNotify(p) \/ PubFastPath(p)
                                   \/ PubEnqueue(p)
      PROVE FallbackInv'
  <2>1. UNCHANGED <<policy, fallback>>
    BY <1>1 DEF PubStart, PubAbandon, PubAccept, PubNotify, PubFastPath, PubEnqueue
  <2>2. PICK pc \in {"idle", "check", "route"} : PubGoto(p, pc)
    BY <1>1 DEF PubStart, PubAbandon, PubAccept, PubNotify, PubFastPath, PubEnqueue
  <2>3. pub' = [pub EXCEPT ![p] = pc]
    BY <2>2 DEF PubGoto
  <2> QED BY <1>0, <2>1, <2>3
<1>2. ASSUME NEW p \in Publishers, PubPush(p) PROVE FallbackInv'
  <2>1. CASE fallback' = TRUE
    BY <2>1
  <2>2. CASE PubGoto(p, "notify") /\ UNCHANGED <<policy, fallback>>
    BY <1>0, <2>2 DEF PubGoto
  <2> QED BY <1>2, <2>1, <2>2 DEF PubPush
<1>3. ASSUME NEW p \in Publishers, PubFull(p) PROVE FallbackInv'
  BY <1>3 DEF PubFull
<1>4. ASSUME NEW p \in Publishers, PubEvict(p) PROVE FallbackInv'
  <2>1. pub[p] = "evict" /\ pub' = [pub EXCEPT ![p] = "enqueue"] /\ UNCHANGED <<policy, fallback>>
    BY <1>4 DEF PubEvict, PubGoto
  <2> QED BY <1>0, <2>1
<1>5. CASE Drain \/ Receive \/ Consume \/ UNCHANGED vars
  <2>1. UNCHANGED <<policy, pub, fallback>>
    BY <1>5 DEF Drain, DrainPop, DrainSend, DrainWake, DrainCancel, Receive, BridgeRecv, BridgeEnd, BridgeQuit,
                Handoff, Consume, Handle, ConsumerExit, vars
  <2> QED BY <2>1
<1>6. CASE \/ OwnerStop \/ CloseStep \/ BusShutdown
           \/ \E c \in {"owner", "watcher"} : RawClose(c)
  <2>1. UNCHANGED <<policy, pub, fallback>>
    BY <1>6 DEF OwnerStop, CloseStep, BusShutdown, RawClose, OwnerQuit, OwnerAwait, OwnerJoin, WatcherRelease,
                BusDrained, RawDrained, RawUnlink
  <2> QED BY <2>1
<1> QED BY <1>1, <1>2, <1>3, <1>4, <1>5, <1>6 DEF Next, Deliver

LEMMA Assoc == \A s, t, u \in Seq(Event) : (s \o t) \o u = s \o (t \o u)
BY ConcatAssociative

LEMMA EventSeqs ==
  /\ \A s, t \in Seq(Event) : s \o t \in Seq(Event)
  /\ \A s \in Seq(Event) : \A e \in Event : /\ Append(s, e) = s \o <<e>> /\ <<e>> \in Seq(Event)
                                          /\ Append(s, e) \in Seq(Event)
                                          /\ Ev(Append(s, e)) = Ev(s) \cup {e}
BY ConcatProperties, AppendIsConcat, AppendProperties, EvOps, SeqOps

LEMMA SeenParts ==
  ASSUME TypeOK, HoldInv
  PROVE  Seen = Ev(InFlight) \cup Ev(handled)
<1> DEFINE A == consumerHold \o bridgeHold
           B == A \o ch
           C == B \o drainHold
<1>1. /\ consumerHold \in Seq(Event) /\ bridgeHold \in Seq(Event) /\ ch \in Seq(Event)
      /\ drainHold \in Seq(Event) /\ ring \in Seq(Event)
  BY DEF TypeOK, QueueTypeOK, HandTypeOK
<1>0. InFlight = C \o ring
  BY DEF InFlight
<1>p. \A s, t \in Seq(Event) : Ev(s \o t) = Ev(s) \cup Ev(t) /\ s \o t \in Seq(Event)
  <2> SUFFICES ASSUME NEW s \in Seq(Event), NEW t \in Seq(Event)
               PROVE  Ev(s \o t) = Ev(s) \cup Ev(t) /\ s \o t \in Seq(Event)
    OBVIOUS
  <2> QED BY EvOps, ConcatProperties
<1>2. A \in Seq(Event) /\ Ev(A) = Ev(consumerHold) \cup Ev(bridgeHold)
  BY <1>1, <1>p
<1> HIDE DEF A
<1>3. B \in Seq(Event) /\ Ev(B) = Ev(A) \cup Ev(ch)
  BY <1>1, <1>2, <1>p
<1> HIDE DEF B
<1>4. C \in Seq(Event) /\ Ev(C) = Ev(B) \cup Ev(drainHold)
  BY <1>1, <1>3, <1>p
<1> HIDE DEF C
<1>5. Ev(C \o ring) = Ev(C) \cup Ev(ring)
  BY <1>1, <1>4, <1>p
<1> QED BY <1>0, <1>2, <1>3, <1>4, <1>5 DEF Seen

\* An accepted event may enter: there is room, and it is its publisher's newest.
LEMMA MayEnter ==
  ASSUME TypeOK, HoldInv, PipeInv, NEW p \in Publishers, pub[p] \in {"route", "enqueue"},
         Len(ch) < BufferSize \/ Len(ring) < MaxOverflow
  PROVE  /\ Len(InFlight) < BufferSize + MaxOverflow + 3 /\ sent[p] > 0
         /\ \A e \in Promise!Events(InFlight) \cup Promise!Events(handled) : e[1] = p => e[2] < sent[p]
         /\ <<p, sent[p]>> \notin Promise!Events(InFlight) \cup Promise!Events(handled)
<1>1. Len(InFlight) < BufferSize + MaxOverflow + 3
  <2>1. PICK a, c, b, r \in Nat : /\ Len(InFlight) = a + c + b /\ c = Len(ch) /\ r = Len(ring)
                                 /\ a <= 2 /\ b <= r + 1
    BY FlightParts
  <2>2. c <= BufferSize /\ r <= MaxOverflow /\ (c < BufferSize \/ r < MaxOverflow)
    BY <2>1 DEF TypeOK, QueueTypeOK
  <2>3. a + c + b < BufferSize + MaxOverflow + 3
    BY <2>1, <2>2, BufferAssumption
  <2> QED BY <2>1, <2>3
<1>2. sent[p] > 0
  <2>1. Reading(p)
    BY DEF Reading
  <2> QED BY <2>1 DEF TypeOK, PublisherTypeOK
<1>3. Promise!Events(InFlight) \cup Promise!Events(handled) = Seen
  BY SeenParts DEF Ev
<1>4. Current(p) \notin Seen /\ Current(p) = <<p, sent[p]>>
  BY DEF PipeInv, ToPlace, Current
<1>5. Seen \subseteq Event
  <2>1. InFlight \in Seq(Event) /\ handled \in Seq(Event)
    BY FlightParts DEF TypeOK, HandTypeOK
  <2>2. Ev(InFlight) \subseteq Event /\ Ev(handled) \subseteq Event
    BY <2>1, ElementOfSeq DEF Ev, Promise!Events
  <2> QED BY <2>2, SeenParts
<1>6. ASSUME NEW e \in Seen, e[1] = p PROVE e[2] < sent[p]
  <2>1. e[2] <= sent[p]
    BY <1>6 DEF PipeInv
  <2>2. e \in Publishers \X (1..MaxEvents)
    BY <1>5, <1>6 DEF Event
  <2>3. e = <<p, e[2]>> /\ e[2] \in Nat /\ sent[p] \in Nat
    BY <1>6, <2>2, EventAssumption DEF TypeOK, PublisherTypeOK
  <2>4. e[2] # sent[p]
    BY <1>4, <1>6, <2>3
  <2> QED BY <2>1, <2>3, <2>4
<1> QED BY <1>1, <1>2, <1>3, <1>4, <1>6

PromiseVars == <<sent, InFlight, handled, fallback>>

LEMMA PromiseForms ==
  /\ Promise!vars = PromiseVars
  /\ \A p \in Publishers : Promise!Publish(p) \/ Promise!Enter(p) => Promise!Next
  /\ \A p \in Publishers : \A i \in 1..Len(InFlight) : Promise!Overtake(p, i) => Promise!Next
  /\ \A i \in 1..Len(InFlight) : Promise!Lose(i) => Promise!Next
  /\ Promise!Overflow \/ Promise!Take => Promise!Next
BY DEF Promise!vars, PromiseVars, Promise!Next

\* What a step may do to the events the consumer has or will have.
KeepsSeen == Seen' \subseteq Seen
Places(p) == /\ Seen' = Seen \cup {Current(p)} /\ pub[p] \in {"route", "enqueue"}
             /\ pub'[p] \in {"idle", "notify"}

LEMMA PlaceSim ==
  ASSUME TypeOK, HoldInv, FallbackInv, PipeInv, NEW p \in Publishers,
         PubPush(p) \/ PubFastPath(p) \/ PubEnqueue(p)
  PROVE  /\ Promise!Next \/ UNCHANGED PromiseVars
         /\ KeepsSeen \/ Places(p)
<1> USE DEF rawVars, ovfVars, drain, typedVars, bridge, workerVars, consumer, histVars
<1> DEFINE A == consumerHold \o bridgeHold
           B == drainHold \o ring
           e == Current(p)
<1>0. pub \in [Publishers -> PubPlaces]
  BY DEF TypeOK, PublisherTypeOK, PubPlaces
<1>1. UNCHANGED <<handled, consumerHold, bridgeHold, drainHold, sent>>
  BY DEF PubPush, PubFastPath, PubEnqueue
<1>2. pub[p] \in {"route", "enqueue"}
  BY DEF PubPush, PubFastPath, PubEnqueue
<1>3. e \in Event /\ e = <<p, sent[p]>>
  BY <1>2, CurrentIsEvent DEF Reading, Current
<1>4. /\ A \in Seq(Event) /\ B \in Seq(Event) /\ ch \in Seq(Event) /\ A \o ch \in Seq(Event)
      /\ InFlight = (A \o ch) \o B /\ InFlight = ((A \o ch) \o drainHold) \o ring
      /\ drainHold \in Seq(Event) /\ ring \in Seq(Event) /\ InFlight \in Seq(Event)
  BY FlightParts DEF TypeOK, QueueTypeOK, HandTypeOK
<1>6. Len(ch) < BufferSize \/ Len(ring) < MaxOverflow =>
        /\ Len(InFlight) < BufferSize + MaxOverflow + 3 /\ sent[p] > 0
        /\ \A x \in Promise!Events(InFlight) \cup Promise!Events(handled) : x[1] = p => x[2] < sent[p]
        /\ <<p, sent[p]>> \notin Promise!Events(InFlight) \cup Promise!Events(handled)
  BY <1>2, MayEnter
\* A step that appends to the whole queue is Enter.
<1>7. ASSUME Len(ch) < BufferSize \/ Len(ring) < MaxOverflow, InFlight' = Append(InFlight, e), fallback' = fallback
      PROVE  Promise!Next
  <2>1. Promise!Enter(p)
    BY <1>1, <1>3, <1>6, <1>7 DEF Promise!Enter
  <2> QED BY <2>1, PromiseForms
<1>8. CASE PubPush(p) /\ Len(ring) >= MaxOverflow
  <2>1. UNCHANGED <<ch, ring>> /\ fallback' = TRUE
    BY <1>8 DEF PubPush
  <2>2. InFlight' = InFlight
    BY <1>1, <2>1 DEF InFlight
  <2>3. Promise!Overflow
    BY <1>1, <2>1, <2>2 DEF Promise!Overflow
  <2>4. Seen' = Seen
    BY <1>1, <2>1 DEF Seen, Ev, Promise!Events
  <2> QED BY <2>3, <2>4, PromiseForms DEF KeepsSeen
<1>9. CASE PubPush(p) /\ ~(Len(ring) >= MaxOverflow)
  <2>1. ring' = Append(ring, e) /\ UNCHANGED <<ch, fallback>> /\ PubGoto(p, "notify")
    BY <1>9 DEF PubPush
  <2>2. Len(ring) < MaxOverflow
    BY <1>4, <1>9, BufferAssumption, LenProperties
  <2>3. InFlight' = ((A \o ch) \o drainHold) \o Append(ring, e)
    BY <1>1, <2>1 DEF InFlight
  <2>4. InFlight' = Append(InFlight, e)
    <3> DEFINE D == (A \o ch) \o drainHold
    <3>1. D \in Seq(Event)
      BY <1>4, ConcatProperties
    <3>2. InFlight = D \o ring /\ InFlight' = D \o Append(ring, e)
      BY <1>4, <2>3
    <3> HIDE DEF D, e
    <3>3. <<e>> \in Seq(Event) /\ Append(ring, e) = ring \o <<e>> /\ Append(D \o ring, e) = (D \o ring) \o <<e>>
      BY <1>3, <1>4, <3>1, <3>2, EventSeqs, Zenon
    <3>4. (D \o ring) \o <<e>> = D \o (ring \o <<e>>)
      <4>1. ring \in Seq(Event)
        BY <1>4
      <4> QED BY <3>1, <3>3, <4>1, EventSeqs
    <3> QED BY <3>2, <3>3, <3>4
  <2>5. Ev(ring') = Ev(ring) \cup {e}
    BY <1>3, <1>4, <2>1, EventSeqs, Zenon
  <2>6. Seen' = Seen \cup {e}
    BY <1>1, <2>1, <2>5 DEF Seen
  <2>7. Places(p)
    BY <1>0, <1>2, <2>1, <2>6 DEF Places, PubGoto
  <2> QED BY <1>7, <2>1, <2>2, <2>4, <2>7
<1>10. CASE PubFastPath(p) \/ (PubEnqueue(p) /\ Len(ch) < BufferSize)
  <2>1. ch' = Append(ch, e) /\ UNCHANGED <<ring, fallback, policy>> /\ PubGoto(p, "idle") /\ Len(ch) < BufferSize
    BY <1>10 DEF PubFastPath, PubEnqueue
  <2>2. (A \o ch)' = Append(A \o ch, e) /\ InFlight' = Append(A \o ch, e) \o B
    <3>1. Append(ch, e) = ch \o <<e>> /\ <<e>> \in Seq(Event) /\ Append(A \o ch, e) = (A \o ch) \o <<e>>
      BY <1>3, <1>4, AppendIsConcat, SeqOps
    <3>2. (A \o ch) \o <<e>> = A \o (ch \o <<e>>)
      <4>1. A \in Seq(Event) /\ ch \in Seq(Event) /\ <<e>> \in Seq(Event)
        BY <1>4, <3>1
      <4> HIDE DEF A, e
      <4> QED BY <4>1, EventSeqs
    <3>3. (A \o ch)' = Append(A \o ch, e)
      BY <1>1, <2>1, <3>1, <3>2
    <3>4. InFlight' = (Append(A \o ch, e) \o drainHold) \o ring
      BY <1>1, <2>1, <3>3 DEF InFlight
    <3>5. Append(A \o ch, e) \in Seq(Event)
      BY <1>3, <1>4, AppendProperties
    <3>6. (Append(A \o ch, e) \o drainHold) \o ring = Append(A \o ch, e) \o (drainHold \o ring)
      <4> DEFINE D == Append(A \o ch, e)
      <4>1. D \in Seq(Event) /\ drainHold \in Seq(Event) /\ ring \in Seq(Event)
        BY <1>4, <3>5
      <4> HIDE DEF D
      <4>2. (D \o drainHold) \o ring = D \o (drainHold \o ring)
        BY <4>1, Assoc
      <4> QED BY <4>2 DEF D
    <3> QED BY <3>3, <3>4, <3>6
  <2>5. Ev(ch') = Ev(ch) \cup {e}
    BY <1>3, <1>4, <2>1, EventSeqs, Zenon
  <2>6. Seen' = Seen \cup {e}
    BY <1>1, <2>1, <2>5 DEF Seen
  <2>7. Places(p)
    BY <1>0, <1>2, <2>1, <2>6 DEF Places, PubGoto
  <2>3. CASE B = <<>>
    <3>1. InFlight = A \o ch
      BY <1>4, <2>3, ConcatEmptySeq
    <3>2. InFlight' = Append(InFlight, e)
      BY <1>3, <1>4, <2>2, <2>3, <3>1, ConcatEmptySeq, AppendProperties
    <3>3. Len(ch) < BufferSize /\ fallback' = fallback
      BY <2>1
    <3> QED BY <1>7, <2>7, <3>2, <3>3, Zenon
  <2>4. CASE B # <<>>
    <3>1. fallback = TRUE
      <4>1. policy = "overflow"
        BY <1>4, <2>4, ConcatEmptySeq DEF HoldInv
      <4>2. PubEnqueue(p)
        BY <1>10, <4>1 DEF PubFastPath
      <4> QED BY <4>1, <4>2 DEF PubEnqueue, FallbackInv
    <3>2. Len(A \o ch) + 1 \in 1..Len(InFlight)
      <4>1. Len(InFlight) = Len(A \o ch) + Len(B)
        BY <1>4, ConcatProperties
      <4>2. Len(B) \in Nat \ {0} /\ Len(A \o ch) \in Nat
        BY <1>4, <2>4, EmptySeq, LenProperties
      <4> QED BY <4>1, <4>2
    <3>3. InFlight' = Promise!InsertAt(InFlight, Len(A \o ch) + 1, <<p, sent[p]>>)
      <4> DEFINE D == A \o ch
      <4>1. D \in Seq(Event) /\ B \in Seq(Event) /\ e \in Event /\ InFlight = D \o B
        BY <1>3, <1>4
      <4>2. InFlight' = Append(D, e) \o B
        BY <2>2
      <4> HIDE DEF D, B, e
      <4>3. Promise!InsertAt(D \o B, Len(D) + 1, e) = Append(D, e) \o B
        BY <4>1, InsertMiddle
      <4>4. InFlight' = Promise!InsertAt(InFlight, Len(D) + 1, e)
        BY <4>1, <4>2, <4>3
      <4> QED BY <1>3, <4>4 DEF D, e
    <3>4. Promise!Overtake(p, Len(A \o ch) + 1)
      BY <1>1, <1>6, <2>1, <3>1, <3>3 DEF Promise!Overtake
    <3> QED BY <2>7, <3>2, <3>4, PromiseForms, Zenon
  <2> QED BY <2>3, <2>4, <2>7
<1>11. CASE PubEnqueue(p) /\ ~(Len(ch) < BufferSize)
  <2>1. UNCHANGED <<ch, ring, fallback>>
    BY <1>11 DEF PubEnqueue
  <2>2. InFlight' = InFlight
    BY <1>1, <2>1 DEF InFlight
  <2>3. Seen' = Seen
    BY <1>1, <2>1 DEF Seen, Ev, Promise!Events
  <2> QED BY <1>1, <2>1, <2>2, <2>3 DEF KeepsSeen, PromiseVars
<1> QED BY <1>8, <1>9, <1>10, <1>11

LEMMA OtherSim ==
  ASSUME TypeOK, HoldInv, NEW p \in Publishers,
         \/ PubStart(p) \/ PubAbandon(p) \/ PubAccept(p) \/ PubNotify(p) \/ PubFull(p) \/ PubEvict(p)
  PROVE  /\ Promise!Next \/ UNCHANGED PromiseVars
         /\ KeepsSeen
<1> USE DEF rawVars, ovfVars, drain, typedVars, bridge, workerVars, consumer, histVars
<1>1. UNCHANGED <<handled, consumerHold, bridgeHold, drainHold, ring, fallback>>
  BY DEF PubStart, PubAbandon, PubAccept, PubNotify, PubFull, PubEvict
<1>2. CASE PubStart(p)
  <2>1. UNCHANGED ch /\ sent[p] < MaxEvents /\ sent' = [sent EXCEPT ![p] = @ + 1]
    BY <1>2 DEF PubStart
  <2>2. InFlight' = InFlight
    BY <1>1, <2>1 DEF InFlight
  <2>3. Promise!Publish(p)
    BY <1>1, <2>1, <2>2 DEF Promise!Publish
  <2>4. Seen' = Seen
    BY <1>1, <2>1 DEF Seen, Ev, Promise!Events
  <2> QED BY <2>3, <2>4, PromiseForms DEF KeepsSeen
<1>3. CASE UNCHANGED <<ch, sent>>
  BY <1>1, <1>3 DEF InFlight, Seen, Ev, Promise!Events, KeepsSeen, PromiseVars
<1>4. CASE ch # <<>> /\ ch' = Tail(ch) /\ UNCHANGED sent
  <2> DEFINE A == consumerHold \o bridgeHold
             B == drainHold \o ring
  <2>1. A \in Seq(Event) /\ B \in Seq(Event) /\ ch \in Seq(Event) /\ InFlight = (A \o ch) \o B
    BY FlightParts
  <2>2. A \o Tail(ch) \in Seq(Event) /\ drainHold \in Seq(Event) /\ ring \in Seq(Event)
    BY <1>4, <2>1, HeadTailProperties, EventSeqs DEF TypeOK, QueueTypeOK, HandTypeOK
  <2>3. InFlight' = (A \o Tail(ch)) \o B
    <3>1. InFlight' = ((A \o Tail(ch)) \o drainHold) \o ring
      BY <1>1, <1>4 DEF InFlight
    <3> DEFINE D == A \o Tail(ch)
    <3>2. D \in Seq(Event)
      BY <2>2
    <3> HIDE DEF D
    <3>3. (D \o drainHold) \o ring = D \o (drainHold \o ring)
      BY <2>2, <3>2, Assoc, Zenon
    <3> QED BY <3>1, <3>3 DEF D
  <2>4. /\ Len(A) + 1 \in 1..Len(InFlight)
        /\ Promise!RemoveAt(InFlight, Len(A) + 1) = (A \o Tail(ch)) \o B
    <3> HIDE DEF A, B
    <3>1. \A a, c, b \in Seq(Event) : c # <<>> =>
             /\ Len(a) + 1 \in 1..Len((a \o c) \o b)
             /\ Promise!RemoveAt((a \o c) \o b, Len(a) + 1) = (a \o Tail(c)) \o b
      BY LoseMiddle
    <3> QED BY <1>4, <2>1, <3>1, Zenon
  <2>5. Promise!Lose(Len(A) + 1)
    BY <1>1, <1>4, <2>3, <2>4 DEF Promise!Lose
  <2>6. Ev(ch') \subseteq Ev(ch)
    BY <1>4, <2>1, EvOps
  <2>7. KeepsSeen
    BY <1>1, <2>6 DEF Seen, KeepsSeen
  <2> QED BY <2>4, <2>5, <2>7, PromiseForms
<1>5. PubStart(p) \/ UNCHANGED <<ch, sent>> \/ (ch # <<>> /\ ch' = Tail(ch) /\ UNCHANGED sent)
  BY DEF PubAbandon, PubAccept, PubNotify, PubFull, PubEvict
<1> QED BY <1>2, <1>3, <1>4, <1>5

LEMMA ReceiveSim ==
  ASSUME TypeOK, HoldInv, Drain \/ Receive \/ Consume
  PROVE  /\ Promise!Next \/ UNCHANGED PromiseVars
         /\ KeepsSeen /\ UNCHANGED <<pub, sent>>
<1> USE DEF rawVars, ovfVars, drain, typedVars, bridge, workerVars, consumer, histVars, pubVars
<1>0. UNCHANGED <<pub, sent, fallback>>
  BY DEF Drain, DrainPop, DrainSend, DrainWake, DrainCancel, Receive, BridgeRecv, BridgeEnd, BridgeQuit, Handoff,
         Consume, Handle, ConsumerExit
<1>1. /\ consumerHold \in Seq(Event) /\ bridgeHold \in Seq(Event) /\ ch \in Seq(Event)
      /\ drainHold \in Seq(Event) /\ ring \in Seq(Event) /\ handled \in Seq(Event)
  BY DEF TypeOK, QueueTypeOK, HandTypeOK
<1>c. ch \in Seq(Event)
  BY <1>1
<1>d. drainHold \in Seq(Event)
  BY <1>1
<1>r. ring \in Seq(Event)
  BY <1>1
<1>2. \A s \in Seq(Event) : s # <<>> => /\ <<Head(s)>> \in Seq(Event) /\ Tail(s) \in Seq(Event)
                                        /\ s = <<Head(s)>> \o Tail(s)
                                        /\ Ev(s) = Ev(<<Head(s)>>) \cup Ev(Tail(s))
  <2> SUFFICES ASSUME NEW s \in Seq(Event), s # <<>>
               PROVE  /\ <<Head(s)>> \in Seq(Event) /\ Tail(s) \in Seq(Event) /\ s = <<Head(s)>> \o Tail(s)
                      /\ Ev(s) = Ev(<<Head(s)>>) \cup Ev(Tail(s))
    OBVIOUS
  <2>1. Head(s) \in Event /\ Tail(s) \in Seq(Event) /\ <<Head(s)>> \in Seq(Event)
    BY SeqOps, HeadTailProperties
  <2>2. s = <<Head(s)>> \o Tail(s)
    OBVIOUS
  <2>3. Ev(s) = {Head(s)} \cup Ev(Tail(s)) /\ Ev(<<Head(s)>>) = {Head(s)}
    BY EvOps
  <2> QED BY <2>1, <2>2, <2>3
<1>3. \A s \in Seq(Event) : s \o <<>> = s /\ <<>> \o s = s
  BY ConcatEmptySeq
<1>4. <<>> \in Seq(Event) /\ Ev(<<>>) = {}
  BY DEF Ev, Promise!Events
\* The steps that only move an event along.
<1>5. ASSUME InFlight' = InFlight, UNCHANGED handled PROVE UNCHANGED PromiseVars
  BY <1>0, <1>5 DEF PromiseVars
<1>6. CASE DrainPop
  <2>1. UNCHANGED <<consumerHold, bridgeHold, ch, handled>> /\ drainHold = <<>>
    BY <1>6 DEF DrainPop, HoldInv
  <2>2. CASE ring = <<>>
    <3>1. UNCHANGED <<drainHold, ring>>
      BY <1>6, <2>2 DEF DrainPop
    <3> QED BY <1>0, <1>5, <2>1, <3>1 DEF InFlight, Seen, KeepsSeen, Ev, Promise!Events
  <2>3. CASE ring # <<>>
    <3>1. drainHold' = <<Head(ring)>> /\ ring' = Tail(ring)
      BY <1>6, <2>3 DEF DrainPop
    <3> DEFINE C == (consumerHold \o bridgeHold) \o ch
    <3>2. C \in Seq(Event) /\ C' = C
      BY <1>1, <2>1, EventSeqs
    <3>3. InFlight = (C \o drainHold) \o ring /\ InFlight' = (C \o <<Head(ring)>>) \o Tail(ring)
      BY <2>1, <3>1, <3>2 DEF InFlight
    <3> HIDE DEF C
    <3>4. C \o drainHold = C
      BY <1>3, <2>1, <3>2
    <3>5. (C \o <<Head(ring)>>) \o Tail(ring) = C \o (<<Head(ring)>> \o Tail(ring))
      <4>1. <<Head(ring)>> \in Seq(Event) /\ Tail(ring) \in Seq(Event)
        BY <1>1, <1>2, <2>3
      <4> QED BY <3>2, <4>1, Assoc, Zenon
    <3>6. InFlight' = InFlight
      BY <1>1, <1>2, <2>3, <3>3, <3>4, <3>5
    <3>7. KeepsSeen
      BY <1>1, <1>2, <2>1, <2>3, <3>1 DEF KeepsSeen, Seen
    <3> QED BY <1>0, <1>5, <2>1, <3>6, <3>7
  <2> QED BY <2>2, <2>3
<1>7. CASE DrainSend
  <2>1. UNCHANGED <<consumerHold, bridgeHold, ring, handled>> /\ ch' = ch \o drainHold /\ drainHold' = <<>>
    BY <1>7 DEF DrainSend
  <2> DEFINE A == consumerHold \o bridgeHold
  <2>2. A \in Seq(Event) /\ A' = A
    BY <1>1, <2>1, EventSeqs
  <2>3. InFlight = ((A \o ch) \o drainHold) \o ring /\ InFlight' = ((A \o (ch \o drainHold)) \o <<>>) \o ring
    BY <2>1, <2>2 DEF InFlight
  <2> HIDE DEF A
  <2>4. (A \o ch) \o drainHold = A \o (ch \o drainHold) /\ A \o (ch \o drainHold) \in Seq(Event)
    <3>1. A \in Seq(Event)
      BY <2>2
    <3>2. (A \o ch) \o drainHold = A \o (ch \o drainHold)
      BY <1>c, <1>d, <3>1, Assoc, Zenon
    <3> QED BY <1>c, <1>d, <3>1, <3>2, EventSeqs
  <2>5. InFlight' = InFlight
    BY <1>3, <2>3, <2>4
  <2>6. Ev(ch') = Ev(ch) \cup Ev(drainHold)
    BY <1>1, <2>1, EvOps
  <2>7. KeepsSeen
    BY <1>4, <2>1, <2>6 DEF KeepsSeen, Seen
  <2> QED BY <1>0, <1>5, <2>1, <2>5, <2>7
<1>8. CASE BridgeRecv
  <2>1. UNCHANGED <<consumerHold, drainHold, ring, handled>> /\ bridgeHold = <<>> /\ ch # <<>> /\ ch' = Tail(ch)
    BY <1>8 DEF BridgeRecv, HoldInv
  <2> DEFINE B == drainHold \o ring
  <2>2. B \in Seq(Event) /\ B' = B
    BY <1>1, <2>1, EventSeqs
  <2>3. InFlight = (consumerHold \o ch) \o B
    <3>1. InFlight = ((consumerHold \o bridgeHold) \o ch) \o B
      BY FlightParts
    <3> QED BY <1>1, <1>3, <2>1, <3>1
  <2>4. CASE bridgeHold' = bridgeHold
    <3>1. InFlight' = (consumerHold \o Tail(ch)) \o B
      <4>1. InFlight' = (((consumerHold \o <<>>) \o Tail(ch)) \o drainHold) \o ring
        BY <2>1, <2>4 DEF InFlight
      <4> DEFINE D == consumerHold \o Tail(ch)
      <4>2. D \in Seq(Event) /\ consumerHold \o <<>> = consumerHold
        BY <1>1, <1>2, <1>3, <2>1, EventSeqs
      <4>3. InFlight' = (D \o drainHold) \o ring
        BY <4>1, <4>2
      <4> HIDE DEF D
      <4>4. (D \o drainHold) \o ring = D \o (drainHold \o ring)
        <5>1. D \in Seq(Event)
          BY <4>2
        <5> QED BY <1>d, <1>r, <5>1, Assoc, Zenon
      <4> QED BY <4>3, <4>4 DEF D
    <3>2. /\ Len(consumerHold) + 1 \in 1..Len(InFlight)
          /\ Promise!RemoveAt(InFlight, Len(consumerHold) + 1) = (consumerHold \o Tail(ch)) \o B
      <4> HIDE DEF B
      <4>1. \A a, c, b \in Seq(Event) : c # <<>> =>
               /\ Len(a) + 1 \in 1..Len((a \o c) \o b)
               /\ Promise!RemoveAt((a \o c) \o b, Len(a) + 1) = (a \o Tail(c)) \o b
        BY LoseMiddle
      <4>2. consumerHold \in Seq(Event) /\ B \in Seq(Event) /\ ch # <<>>
        BY <1>1, <2>1, <2>2
      <4> QED BY <1>c, <2>3, <4>1, <4>2, Zenon
    <3>3. Promise!Lose(Len(consumerHold) + 1)
      BY <1>0, <2>1, <3>1, <3>2 DEF Promise!Lose
    <3>5. Ev(ch') \subseteq Ev(ch)
      BY <1>1, <1>2, <2>1
    <3>4. KeepsSeen
      BY <2>1, <2>4, <3>5 DEF KeepsSeen, Seen
    <3> QED BY <1>0, <3>2, <3>3, <3>4, PromiseForms
  <2>5. CASE bridgeHold' = <<Head(ch)>>
    <3>1. InFlight' = (((consumerHold \o <<Head(ch)>>) \o Tail(ch)) \o drainHold) \o ring
      BY <2>1, <2>5 DEF InFlight
    <3>2. (consumerHold \o <<Head(ch)>>) \o Tail(ch) = consumerHold \o ch
      <4>1. (consumerHold \o <<Head(ch)>>) \o Tail(ch) = consumerHold \o (<<Head(ch)>> \o Tail(ch))
        <5>1. <<Head(ch)>> \in Seq(Event) /\ Tail(ch) \in Seq(Event)
          BY <1>1, <1>2, <2>1
        <5>2. consumerHold \in Seq(Event)
          BY <1>1
        <5> QED BY <5>1, <5>2, Assoc, Zenon
      <4> QED BY <1>1, <1>2, <2>1, <4>1
    <3>3. ((consumerHold \o ch) \o drainHold) \o ring = (consumerHold \o ch) \o B
      <4> DEFINE D == consumerHold \o ch
      <4>1. D \in Seq(Event)
        BY <1>1, EventSeqs
      <4> HIDE DEF D
      <4>2. (D \o drainHold) \o ring = D \o (drainHold \o ring)
        BY <1>d, <1>r, <4>1, Assoc, Zenon
      <4> QED BY <4>2 DEF D
    <3>4. InFlight' = InFlight
      BY <2>3, <3>1, <3>2, <3>3
    <3>5. KeepsSeen
      BY <1>1, <1>2, <2>1, <2>5 DEF KeepsSeen, Seen
    <3> QED BY <1>0, <1>5, <2>1, <3>4, <3>5
  <2> QED BY <1>8, <2>4, <2>5 DEF BridgeRecv
<1>9. CASE BridgeQuit
  <2>1. UNCHANGED <<consumerHold, ch, drainHold, ring, handled>> /\ bridgeHold' = <<>> /\ bridgeHold # <<>>
    BY <1>9, SmallSeqs DEF BridgeQuit, HoldInv
  <2>2. Tail(bridgeHold) = <<>>
    <3>1. Len(bridgeHold) = 1
      BY <1>9 DEF BridgeQuit, HoldInv
    <3>2. Tail(bridgeHold) \in Seq(Event) /\ Len(Tail(bridgeHold)) = 0
      BY <1>1, <2>1, <3>1, HeadTailProperties
    <3> QED BY <3>2, EmptySeq
  <2> DEFINE R == (ch \o drainHold) \o ring
  <2>3. R \in Seq(Event) /\ InFlight = (consumerHold \o bridgeHold) \o R /\ InFlight' = (consumerHold \o <<>>) \o R
    <3>1. ASSUME NEW A \in Seq(Event) PROVE ((A \o ch) \o drainHold) \o ring = A \o R
      <4>1. (A \o ch) \o drainHold = A \o (ch \o drainHold) /\ ch \o drainHold \in Seq(Event)
        <5>1. (A \o ch) \o drainHold = A \o (ch \o drainHold)
          BY <1>c, <1>d, <3>1, Assoc, Zenon
        <5> QED BY <1>c, <1>d, <5>1, EventSeqs
      <4> DEFINE D == ch \o drainHold
      <4>3. D \in Seq(Event)
        BY <4>1
      <4> HIDE DEF D
      <4>2. (A \o D) \o ring = A \o (D \o ring)
        BY <1>r, <3>1, <4>3, Assoc, Zenon
      <4> QED BY <4>1, <4>2 DEF D
    <3>2. consumerHold \o bridgeHold \in Seq(Event) /\ consumerHold \o <<>> \in Seq(Event) /\ R \in Seq(Event)
      BY <1>1, <1>4, EventSeqs
    <3>3. InFlight' = (((consumerHold \o <<>>) \o ch) \o drainHold) \o ring
      BY <2>1 DEF InFlight
    <3> HIDE DEF R
    <3> QED BY <3>1, <3>2, <3>3 DEF InFlight
  <2> HIDE DEF R
  <2>4. /\ Len(consumerHold) + 1 \in 1..Len(InFlight)
        /\ Promise!RemoveAt(InFlight, Len(consumerHold) + 1) = (consumerHold \o Tail(bridgeHold)) \o R
    <3>1. \A a, c, b \in Seq(Event) : c # <<>> =>
             /\ Len(a) + 1 \in 1..Len((a \o c) \o b)
             /\ Promise!RemoveAt((a \o c) \o b, Len(a) + 1) = (a \o Tail(c)) \o b
      BY LoseMiddle
    <3>2. consumerHold \in Seq(Event) /\ bridgeHold \in Seq(Event) /\ R \in Seq(Event) /\ bridgeHold # <<>>
      BY <1>1, <2>1, <2>3
    <3>3. InFlight = (consumerHold \o bridgeHold) \o R
      BY <2>3
    <3> QED BY <3>1, <3>2, <3>3, Zenon
  <2>5. Promise!Lose(Len(consumerHold) + 1)
    BY <1>0, <2>1, <2>2, <2>3, <2>4 DEF Promise!Lose
  <2>6. KeepsSeen
    BY <1>4, <2>1 DEF KeepsSeen, Seen
  <2> QED BY <1>0, <2>4, <2>5, <2>6, PromiseForms
<1>10. CASE Handoff
  <2>1. UNCHANGED <<ch, drainHold, ring, handled>> /\ bridgeHold' = <<>> /\ consumerHold = <<>>
        /\ consumerHold' = bridgeHold
    BY <1>10 DEF Handoff, HoldInv
  <2>2. consumerHold \o bridgeHold = bridgeHold /\ (consumerHold \o bridgeHold)' = bridgeHold
    BY <1>1, <1>3, <2>1
  <2>3. InFlight' = InFlight
    BY <2>1, <2>2 DEF InFlight
  <2>4. KeepsSeen
    BY <1>4, <2>1 DEF KeepsSeen, Seen
  <2> QED BY <1>0, <1>5, <2>1, <2>3, <2>4
<1>11. CASE Handle
  <2>1. UNCHANGED <<bridgeHold, ch, drainHold, ring>> /\ consumerHold' = <<>> /\ handled' = handled \o consumerHold
        /\ Len(consumerHold) = 1
    BY <1>11 DEF Handle, HoldInv
  <2>2. PICK h \in Event : consumerHold = <<h>>
    <3>1. consumerHold # <<>>
      <4>1. Len(consumerHold) # 0
        BY <2>1
      <4> QED BY <4>1, SmallSeqs, Zenon
    <3>2. Head(consumerHold) \in Event /\ Tail(consumerHold) \in Seq(Event) /\ Len(Tail(consumerHold)) = 0
      BY <1>1, <2>1, <3>1, HeadTailProperties
    <3>3. Tail(consumerHold) = <<>>
      BY <3>2, EmptySeq
    <3>4. consumerHold = <<Head(consumerHold)>>
      <4>1. consumerHold = <<Head(consumerHold)>> \o <<>> /\ <<Head(consumerHold)>> \in Seq(Event)
        BY <1>1, <1>2, <3>1, <3>3, Zenon
      <4> QED BY <1>3, <4>1, Zenon
    <3> QED BY <3>2, <3>4
  <2> DEFINE R == ((bridgeHold \o ch) \o drainHold) \o ring
  <2>3. R \in Seq(Event) /\ InFlight = <<h>> \o R /\ InFlight' = R
    <3>0. <<h>> \in Seq(Event)
      BY EventSeqs, <2>2
    <3>1. /\ bridgeHold \o ch \in Seq(Event) /\ (bridgeHold \o ch) \o drainHold \in Seq(Event) /\ R \in Seq(Event)
          /\ <<h>> \in Seq(Event)
      BY <1>1, <2>2, EventSeqs, Zenon
    <3>2. (<<h>> \o bridgeHold) \o ch = <<h>> \o (bridgeHold \o ch)
      <4>1. bridgeHold \in Seq(Event)
        BY <1>1
      <4> QED BY <1>c, <3>0, <4>1, Assoc, Zenon
    <3>3. (<<h>> \o (bridgeHold \o ch)) \o drainHold = <<h>> \o ((bridgeHold \o ch) \o drainHold)
      <4> DEFINE D == bridgeHold \o ch
      <4>1. D \in Seq(Event)
        BY <3>1
      <4> HIDE DEF D
      <4>2. (<<h>> \o D) \o drainHold = <<h>> \o (D \o drainHold)
        BY <1>d, <3>0, <4>1, Assoc, Zenon
      <4> QED BY <4>2 DEF D
    <3>4. (<<h>> \o ((bridgeHold \o ch) \o drainHold)) \o ring = <<h>> \o R
      <4> DEFINE D == (bridgeHold \o ch) \o drainHold
      <4>1. D \in Seq(Event)
        BY <3>1
      <4> HIDE DEF D
      <4>2. (<<h>> \o D) \o ring = <<h>> \o (D \o ring)
        BY <1>r, <3>0, <4>1, Assoc, Zenon
      <4> QED BY <4>2 DEF D
    <3>5. InFlight = <<h>> \o R
      BY <2>2, <3>2, <3>3, <3>4 DEF InFlight
    <3>6. <<>> \o bridgeHold = bridgeHold
      BY <1>1, <1>3
    <3>7. InFlight' = R
      BY <2>1, <3>6 DEF InFlight
    <3> QED BY <3>1, <3>5, <3>7
  <2> HIDE DEF R
  <2>4. InFlight # <<>> /\ Head(InFlight) = h /\ Tail(InFlight) = R
    BY <2>3
  <2>5. handled' = Append(handled, h)
    BY <1>1, <2>1, <2>2, EventSeqs
  <2>6. Promise!Take
    BY <1>0, <2>3, <2>4, <2>5 DEF Promise!Take
  <2>7. Ev(handled') = Ev(handled) \cup Ev(consumerHold)
    BY <1>1, <2>1, EvOps
  <2>8. KeepsSeen
    BY <1>4, <2>1, <2>7 DEF KeepsSeen, Seen
  <2> QED BY <1>0, <2>6, <2>8, PromiseForms
<1>12. CASE DrainCancel
  <2>1. UNCHANGED <<consumerHold, bridgeHold, ch, ring, handled>> /\ drainHold' = <<>>
    BY <1>12 DEF DrainCancel
  <2>2. KeepsSeen
    BY <1>4, <2>1 DEF KeepsSeen, Seen
  <2>3. CASE drainHold = <<>>
    <3>1. InFlight' = InFlight
      BY <2>1, <2>3 DEF InFlight
    <3> QED BY <1>0, <1>5, <2>1, <2>2, <3>1
  <2>4. CASE drainHold # <<>>
    <3>1. Tail(drainHold) = <<>>
      <4>1. Len(drainHold) = 1
        BY <2>4 DEF HoldInv, TypeOK, HandTypeOK
      <4>2. Tail(drainHold) \in Seq(Event) /\ Len(Tail(drainHold)) = 0
        BY <1>1, <2>4, <4>1, HeadTailProperties
      <4> QED BY <4>2, EmptySeq
    <3> DEFINE C == (consumerHold \o bridgeHold) \o ch
    <3>2. C \in Seq(Event) /\ C' = C
      BY <1>1, <2>1, EventSeqs
    <3>3. InFlight = (C \o drainHold) \o ring /\ InFlight' = (C \o <<>>) \o ring
      BY <2>1, <3>2 DEF InFlight
    <3> HIDE DEF C
    <3>4. /\ Len(C) + 1 \in 1..Len(InFlight)
          /\ Promise!RemoveAt(InFlight, Len(C) + 1) = (C \o Tail(drainHold)) \o ring
      <4>1. \A a, c, b \in Seq(Event) : c # <<>> =>
               /\ Len(a) + 1 \in 1..Len((a \o c) \o b)
               /\ Promise!RemoveAt((a \o c) \o b, Len(a) + 1) = (a \o Tail(c)) \o b
        BY LoseMiddle
      <4>2. C \in Seq(Event) /\ InFlight = (C \o drainHold) \o ring
        BY <3>2, <3>3
      <4> QED BY <1>d, <1>r, <2>4, <4>1, <4>2, Zenon
    <3>5. Promise!Lose(Len(C) + 1)
      BY <1>0, <2>1, <3>1, <3>3, <3>4 DEF Promise!Lose
    <3> QED BY <1>0, <2>2, <3>4, <3>5, PromiseForms
  <2> QED BY <2>3, <2>4
<1>13. CASE DrainWake \/ BridgeEnd \/ ConsumerExit
  <2>1. UNCHANGED <<consumerHold, bridgeHold, ch, drainHold, ring, handled>>
    BY <1>13 DEF DrainWake, BridgeEnd, ConsumerExit
  <2> QED BY <1>0, <1>5, <2>1 DEF InFlight, Seen, KeepsSeen, Ev, Promise!Events
<1> QED BY <1>6, <1>7, <1>8, <1>9, <1>10, <1>11, <1>12, <1>13 DEF Drain, Receive, Consume

LEMMA PromiseStep ==
  ASSUME TypeOK, TypeOK', HoldInv, FallbackInv, PipeInv, [Next]_vars
  PROVE  [Promise!Next]_(Promise!vars) /\ PipeInv'
<1> USE DEF rawVars, ovfVars, drain, typedVars, bridge, workerVars, consumer, histVars, pubVars
<1>0. pub \in [Publishers -> PubPlaces]
  BY DEF TypeOK, PublisherTypeOK, PubPlaces
<1>s. /\ \A x \in Seen : x[1] \in Publishers /\ x[2] \in Nat /\ x[2] <= sent[x[1]]
      /\ sent \in [Publishers -> Nat]
  <2>1. Seen \subseteq Event
    <3>1. InFlight \in Seq(Event) /\ handled \in Seq(Event)
      BY FlightParts DEF TypeOK, HandTypeOK
    <3>2. Ev(InFlight) \subseteq Event /\ Ev(handled) \subseteq Event
      BY <3>1, ElementOfSeq DEF Ev, Promise!Events
    <3> QED BY <3>2, SeenParts
  <2> QED BY <2>1, EventAssumption DEF PipeInv, Event, TypeOK, PublisherTypeOK
\* Nothing new is seen, and nobody goes back to place an event.
<1>1. ASSUME KeepsSeen, UNCHANGED <<pub, sent>> PROVE PipeInv'
  BY <1>1 DEF KeepsSeen, PipeInv, Current
<1>2. ASSUME NEW p \in Publishers, PubPush(p) \/ PubFastPath(p) \/ PubEnqueue(p)
      PROVE  [Promise!Next]_(Promise!vars) /\ PipeInv'
  <2>1. Promise!Next \/ UNCHANGED PromiseVars
    BY <1>2, PlaceSim
  <2>2. KeepsSeen \/ Places(p)
    BY <1>2, PlaceSim
  <2>3. UNCHANGED sent
    BY <1>2 DEF PubPush, PubFastPath, PubEnqueue
  <2>4. PICK pc \in {"idle", "notify", "evict"} : PubGoto(p, pc)
    BY <1>2 DEF PubPush, PubFastPath, PubEnqueue
  <2>5. pub'[p] = pc /\ \A q \in Publishers \ {p} : pub'[q] = pub[q]
    BY <1>0, <2>4, PlacingStep
  <2>6. pub[p] \in ToPlace
    BY <1>2 DEF PubPush, PubFastPath, PubEnqueue, ToPlace
  <2>7. ASSUME KeepsSeen PROVE PipeInv'
    <3>1. \A q \in Publishers : pub'[q] \in ToPlace => pub[q] \in ToPlace
      BY <2>5, <2>6
    <3>2. \A q \in Publishers : Current(q)' = Current(q)
      BY <2>3 DEF Current
    <3> QED BY <2>3, <2>7, <3>1, <3>2 DEF KeepsSeen, PipeInv
  <2>8. ASSUME Places(p) PROVE PipeInv'
    <3>1. Seen' = Seen \cup {Current(p)} /\ pub'[p] \notin ToPlace
      BY <2>8 DEF Places, ToPlace
    <3>2. ASSUME NEW x \in Seen' PROVE x[2] <= sent'[x[1]]
      <4>1. CASE x \in Seen
        BY <2>3, <4>1 DEF PipeInv
      <4>2. CASE x = Current(p)
        BY <1>s, <2>3, <4>2 DEF Current
      <4> QED BY <3>1, <3>2, <4>1, <4>2
    <3>3. ASSUME NEW q \in Publishers, pub'[q] \in ToPlace PROVE Current(q)' \notin Seen'
      <4>1. q # p /\ pub[q] \in ToPlace
        BY <2>5, <3>1, <3>3
      <4>2. Current(q) \notin Seen /\ Current(q) # Current(p) /\ Current(q)' = Current(q)
        BY <2>3, <4>1 DEF PipeInv, Current
      <4> QED BY <3>1, <4>2
    <3> QED BY <3>2, <3>3 DEF PipeInv
  <2>9. PipeInv'
    BY <2>2, <2>7, <2>8
  <2> QED BY <2>1, <2>9 DEF PromiseVars, Promise!vars
<1>3. ASSUME NEW p \in Publishers, PubStart(p)
      PROVE  [Promise!Next]_(Promise!vars) /\ PipeInv'
  <2>1. Promise!Next \/ UNCHANGED PromiseVars
    BY <1>3, OtherSim
  <2>2. Seen' \subseteq Seen
    BY <1>3, OtherSim DEF KeepsSeen
  <2>3. sent' = [sent EXCEPT ![p] = @ + 1] /\ pub[p] = "idle"
    BY <1>3 DEF PubStart
  <2>4. PICK pc : PubGoto(p, pc)
    BY <1>3 DEF PubStart
  <2>5. \A q \in Publishers \ {p} : pub'[q] = pub[q] /\ sent'[q] = sent[q]
    BY <1>0, <1>s, <2>3, <2>4, PlacingStep
  <2>6. sent'[p] = sent[p] + 1 /\ sent[p] \in Nat
    BY <1>s, <2>3
  <2>7. ASSUME NEW x \in Seen' PROVE x[2] <= sent'[x[1]] /\ x # <<p, sent[p] + 1>>
    <3>1. x[1] \in Publishers /\ x[2] \in Nat /\ x[2] <= sent[x[1]] /\ sent[x[1]] \in Nat
      BY <1>s, <2>2
    <3>2. CASE x[1] = p
      BY <2>6, <3>1, <3>2
    <3>3. CASE x[1] # p
      BY <2>5, <3>1, <3>3
    <3> QED BY <3>2, <3>3
  <2>8. ASSUME NEW q \in Publishers, pub'[q] \in ToPlace PROVE Current(q)' \notin Seen'
    <3>1. CASE q = p
      BY <2>6, <2>7, <3>1 DEF Current
    <3>2. CASE q # p
      <4>1. pub[q] \in ToPlace /\ Current(q)' = Current(q)
        BY <2>5, <2>8, <3>2 DEF Current
      <4> QED BY <2>2, <4>1 DEF PipeInv
    <3> QED BY <3>1, <3>2
  <2>9. PipeInv'
    BY <2>7, <2>8 DEF PipeInv
  <2> QED BY <2>1, <2>9 DEF PromiseVars, Promise!vars
<1>4. ASSUME NEW p \in Publishers,
             PubAbandon(p) \/ PubAccept(p) \/ PubNotify(p) \/ PubFull(p) \/ PubEvict(p)
      PROVE  [Promise!Next]_(Promise!vars) /\ PipeInv'
  <2>1. Promise!Next \/ UNCHANGED PromiseVars
    BY <1>4, OtherSim
  <2>2. Seen' \subseteq Seen
    BY <1>4, OtherSim DEF KeepsSeen
  <2>3. UNCHANGED sent
    BY <1>4 DEF PubAbandon, PubAccept, PubNotify, PubFull, PubEvict
  <2>4. PICK pc : PubGoto(p, pc) /\ (pc \in ToPlace => pub[p] \in ToPlace)
    BY <1>4 DEF PubAbandon, PubAccept, PubNotify, PubFull, PubEvict, ToPlace
  <2>5. pub'[p] = pc /\ \A q \in Publishers \ {p} : pub'[q] = pub[q]
    BY <1>0, <2>4, PlacingStep
  <2>6. \A q \in Publishers : pub'[q] \in ToPlace => pub[q] \in ToPlace
    BY <2>4, <2>5
  <2>7. \A q \in Publishers : Current(q)' = Current(q)
    BY <2>3 DEF Current
  <2>8. PipeInv'
    BY <2>2, <2>3, <2>6, <2>7 DEF PipeInv
  <2> QED BY <2>1, <2>8 DEF PromiseVars, Promise!vars
<1>5. CASE Drain \/ Receive \/ Consume
  <2>1. Promise!Next \/ UNCHANGED PromiseVars
    BY <1>5, ReceiveSim
  <2>2. KeepsSeen /\ UNCHANGED <<pub, sent>>
    BY <1>5, ReceiveSim
  <2>3. PipeInv'
    BY <1>1, <2>2
  <2> QED BY <2>1, <2>3 DEF PromiseVars, Promise!vars
<1>6. CASE \/ OwnerStop \/ CloseStep \/ BusShutdown \/ UNCHANGED vars
           \/ \E c \in {"owner", "watcher"} : RawClose(c)
  <2>1. UNCHANGED <<ring, drainHold, ch, bridgeHold, consumerHold, handled, sent, pub, fallback>>
    BY <1>6 DEF OwnerStop, CloseStep, BusShutdown, RawClose, OwnerQuit, OwnerAwait, OwnerJoin, WatcherRelease,
                BusDrained, RawDrained, RawUnlink, vars
  <2>2. UNCHANGED PromiseVars /\ Seen' = Seen
    BY <2>1 DEF PromiseVars, InFlight, Seen, Ev, Promise!Events
  <2>3. PipeInv'
    BY <1>1, <2>1, <2>2 DEF KeepsSeen
  <2> QED BY <2>2, <2>3 DEF PromiseVars, Promise!vars
<1> QED BY <1>2, <1>3, <1>4, <1>5, <1>6 DEF Next, Deliver

LEMMA PipeInit == Init => PipeInv /\ FallbackInv /\ Promise!Init
<1> SUFFICES ASSUME Init PROVE PipeInv /\ FallbackInv /\ Promise!Init
  OBVIOUS
<1>1. Seen = {} /\ InFlight = <<>>
  BY DEF Init, Seen, Ev, Promise!Events, InFlight
<1>2. PipeInv
  BY <1>1 DEF PipeInv, Init, ToPlace
<1>3. FallbackInv
  BY DEF FallbackInv, Init
<1>4. Promise!Init
  BY <1>1 DEF Promise!Init, Init
<1> QED BY <1>2, <1>3, <1>4

\* A subscription is a lossy FIFO under every policy, for any buffer sizes: an
\* envelope is never repeated, those of one publisher keep their order until a push
\* has found the ring full, and nothing enters beyond the capacities of the channel,
\* the ring and the three hands between them.
THEOREM BusIsLossyFifo == Spec => ImplementsLossyFifo
<1>1. Spec => [](PipeInv /\ FallbackInv)
  <2>1. TypeOK /\ TypeOK' /\ HoldInv /\ (PipeInv /\ FallbackInv) /\ [Next]_vars => (PipeInv /\ FallbackInv)'
    BY PromiseStep, FallbackKept
  <2> QED BY <2>1, PipeInit, TypeCorrect, BooksInvariant, PTL DEF Spec
<1>2. TypeOK /\ TypeOK' /\ HoldInv /\ PipeInv /\ FallbackInv /\ [Next]_vars => [Promise!Next]_(Promise!vars)
  BY PromiseStep
<1> QED BY <1>1, <1>2, PipeInit, TypeCorrect, BooksInvariant, PTL DEF Spec, ImplementsLossyFifo, Promise!Spec
=============================================================================
