---------------------------- MODULE StreamProofs ----------------------------
(***************************************************************************)
(* Proofs about the stream manager, for any numbers of segments, streams   *)
(* and timers and any capacities. FlowInv says which streams an actor can  *)
(* have in hand, FreshInv that a stream about to be registered is known to *)
(* its creator only; the properties of workers follow from both. Then the  *)
(* barge-in coordinator (how far barge-ins are apart), the ingress service *)
(* (what is published of a stream) and text to speech, whose steps are the *)
(* stream manager's with its own handlers around them. At the end both     *)
(* users of the manager implement Delivery.                                *)
(***************************************************************************)
EXTENDS AudioEgress, BargeIn, AudioIngress, FiniteSetTheorems,
        SequenceTheorems, TLAPS

\* Where an actor and a worker can be: "ctx" and some places of workers are
\* AudioEgress's, so that what is proved of a step holds there too.
Places == {"off", "set", "recv", "fast", "factory", "register", "flush",
           "enqueue", "ctx", "send", "buffer", "again", "failed", "end"}

WorkerPlaces == {"none", "run", "speak", "rebuffer", "drain", "exit", "closed", "cancel", "done"}

\* The part of the type invariant that concerns actors, streams and workers.
PlaceTypes ==
    /\ pc \in [Actors -> Places] /\ to \in [Actors -> Streams \cup {0}]
    /\ stream \in Streams \cup {0} /\ streams \in 0..MaxStreams
    /\ worker \in [Streams -> WorkerPlaces]
    /\ timer \in Timers \cup {0} /\ timers \in 0..MaxTimers
    /\ closing \in BOOLEAN
    /\ shutdown \in {"no", "streams", "wait", "end", "failed"}

\* The part that concerns segments and queues.
DataTypes ==
    /\ received \in 0..MaxSegments
    /\ hand \in [Actors -> Seq(Segments)]
    /\ pending \in Seq(Segments) /\ Len(pending) <= MaxPending
    /\ failures \in Nat /\ failures <= MaxFailures
    /\ queue \in [Streams -> Seq(Segments)]
    /\ \A h \in Streams : Len(queue[h]) <= Capacity
    /\ done \in [Streams -> Seq(Segments)]
    /\ dropped \subseteq Segments /\ overtook \subseteq Segments

\* The places of the stream manager itself.
StreamPlaces ==
    /\ \A a \in Actors : pc[a] # "ctx"
    /\ \A h \in Streams : worker[h] \in {"none", "run", "exit", "cancel", "done"}

LEMMA TypesSplit == PlaceTypes /\ StreamPlaces /\ DataTypes /\ cancelled \subseteq Streams => TypeOK
    BY DEF TypeOK, PlaceTypes, StreamPlaces, DataTypes, Places, WorkerPlaces

-----------------------------------------------------------------------------
(* What stopping and setting a timer does to the program counters.         *)

LEMMA StopTimerSpec ==
    ASSUME PlaceTypes, NEW at \in [Actors -> Places]
    PROVE  /\ StopTimer(at) \in [Actors -> Places]
           /\ \A a \in Actors : \/ StopTimer(at)[a] = at[a]
                                \/ /\ a \in Timers /\ pc[a] = "set"
                                   /\ StopTimer(at)[a] = "end"
    BY DEF PlaceTypes, StopTimer, Places, Actors

LEMMA ScheduleSpec ==
    ASSUME PlaceTypes, NEW at \in [Actors -> Places], Schedule(at)
    PROVE  /\ pc' \in [Actors -> Places]
           /\ timer' \in Timers \cup {0} /\ timers' \in 0..MaxTimers
           /\ \A a \in Actors : \/ pc'[a] = at[a]
                                \/ /\ a \in Timers /\ a = timers + 1
                                   /\ pc'[a] = "set"
<1>1. CASE timer # 0
    BY <1>1 DEF Schedule, PlaceTypes
<1>2. CASE timer = 0
  <2>1. /\ timers' = timers + 1 /\ timer' = timers' /\ timers' \in Timers
        /\ timers' \in 0..MaxTimers
    BY <1>2, BoundAssumption DEF Schedule, PlaceTypes, Timers
  <2>2. pc' = [at EXCEPT ![timers + 1] = "set"]
    BY <1>2, <2>1 DEF Schedule
  <2>. QED BY <2>1, <2>2 DEF Places, Actors
<1>. QED BY <1>1, <1>2

LEMMA GotoSpec ==
    ASSUME PlaceTypes, NEW a \in Actors, NEW place \in Places, Goto(a, place)
    PROVE  /\ pc' \in [Actors -> Places] /\ pc'[a] = place
           /\ \A b \in Actors \ {a} : pc'[b] = pc[b]
    BY DEF PlaceTypes, Goto

-----------------------------------------------------------------------------
(* Types of places.                                                        *)

LEMMA InitPlaceTypes == Init => PlaceTypes
<1> HAVE Init
<1>1. pc \in [Actors -> Places]
    BY DEF Init, Places
<1>2. 0 \in 0..MaxStreams /\ 0 \in 0..MaxTimers
    BY BoundAssumption
<1>3. /\ to \in [Actors -> Streams \cup {0}]
      /\ worker \in [Streams -> WorkerPlaces]
    BY DEF Init, WorkerPlaces
<1>. QED BY <1>1, <1>2, <1>3 DEF Init, PlaceTypes

LEMMA CreatePlaceTypes ==
    ASSUME PlaceTypes, NEW a \in Actors, Create(a)
    PROVE  PlaceTypes'
<1> USE DEF streamVars, workerVars, endVars, pendingVars, historyVars
<1>1. CASE CreateFast(a)
    BY <1>1 DEF CreateFast, PlaceTypes, Places, Goto
<1>2. CASE FactoryOpens(a)
  <2>1. streams + 1 \in Streams /\ streams + 1 \in 0..MaxStreams
    BY <1>2, BoundAssumption DEF FactoryOpens, PlaceTypes, Streams
  <2>. QED BY <1>2, <2>1 DEF FactoryOpens, PlaceTypes, Places, WorkerPlaces, Goto
<1>3. CASE FactoryUnavailable(a)
    BY <1>3 DEF FactoryUnavailable, PlaceTypes, Places, Goto
<1>4. CASE FactoryFails(a)
    BY <1>4 DEF FactoryFails, PlaceTypes, Places, Goto
<1>5. CASE Register(a)
  <2>1. CASE stream # 0
    BY <1>5, <2>1 DEF Register, PlaceTypes, Places, Goto
  <2>2. CASE stream = 0
    BY <1>5, <2>2 DEF Register, PlaceTypes, Places, Goto
  <2>. QED BY <2>1, <2>2
<1>6. CASE FlushPending(a)
  <2>1. [pc EXCEPT ![a] = "enqueue"] \in [Actors -> Places]
    BY DEF PlaceTypes, Places
  <2>2. pc' \in [Actors -> Places]
    BY <1>6, <2>1, StopTimerSpec DEF FlushPending
  <2>. QED BY <1>6, <2>2 DEF FlushPending, PlaceTypes
<1>. QED BY <1>1, <1>2, <1>3, <1>4, <1>5, <1>6 DEF Create

LEMMA EnqueuePlaceTypes ==
    ASSUME PlaceTypes, NEW a \in Actors, Enqueue(a)
    PROVE  PlaceTypes'
<1> USE DEF streamVars, workerVars, endVars, pendingVars, historyVars
<1>1. CASE EnqueueCheck(a)
    BY <1>1 DEF EnqueueCheck, PlaceTypes, Places, Goto
<1>2. CASE EnqueueSend(a)
    BY <1>2 DEF EnqueueSend, PlaceTypes, Places, Goto
<1>3. CASE EnqueueClosed(a)
    BY <1>3 DEF EnqueueClosed, PlaceTypes, Places, Goto
<1>4. CASE EnqueueEnd(a)
    BY <1>4 DEF EnqueueEnd, PlaceTypes, Places, Goto, Home
<1>. QED BY <1>1, <1>2, <1>3, <1>4 DEF Enqueue

LEMMA ConsumePlaceTypes ==
    ASSUME PlaceTypes, Consume
    PROVE  PlaceTypes'
<1> USE DEF streamVars, workerVars, endVars, pendingVars, historyVars
<1>0. Consumer \in Actors
    BY DEF Actors
<1>1. CASE ConsumerRecv
    BY <1>0, <1>1 DEF ConsumerRecv, PlaceTypes, Places, Goto
<1>2. CASE BufferPending
  <2>1. [pc EXCEPT ![Consumer] = "recv"] \in [Actors -> Places]
    BY DEF PlaceTypes, Places
  <2>. QED BY <1>2, <2>1, ScheduleSpec DEF BufferPending, BufferItem, PlaceTypes
<1>3. CASE ConsumerEnd
    BY <1>0, <1>3 DEF ConsumerEnd, PlaceTypes, Places, Goto
<1>. QED BY <1>1, <1>2, <1>3 DEF Consume

LEMMA RetryPlaceTypes ==
    ASSUME PlaceTypes, NEW t \in Timers, Retry(t)
    PROVE  PlaceTypes'
<1> USE DEF streamVars, workerVars, endVars, pendingVars, historyVars
<1>0. t \in Actors /\ [pc EXCEPT ![t] = "end"] \in [Actors -> Places]
    BY DEF Actors, PlaceTypes, Places
<1>1. CASE RetryFires(t)
    BY <1>0, <1>1 DEF RetryFires, PlaceTypes, Places, Goto
<1>2. CASE RetryAgain(t)
  <2>1. CASE pending = <<>>
    BY <1>0, <1>2, <2>1 DEF RetryAgain, PlaceTypes, Places, Goto
  <2>2. CASE pending # <<>>
    BY <1>0, <1>2, <2>2, ScheduleSpec DEF RetryAgain, PlaceTypes
  <2>. QED BY <2>1, <2>2
<1>3. CASE RetryAbandons(t)
    BY <1>0, <1>3, StopTimerSpec DEF RetryAbandons, DeletePending, PlaceTypes
<1>4. CASE RetryGoesOn(t)
  <2>1. CASE pending = <<>>
    BY <1>0, <1>4, <2>1 DEF RetryGoesOn, PlaceTypes, Places, Goto
  <2>2. CASE pending # <<>>
    BY <1>0, <1>4, <2>2, ScheduleSpec DEF RetryGoesOn, PlaceTypes
  <2>. QED BY <2>1, <2>2
<1>. QED BY <1>1, <1>2, <1>3, <1>4 DEF Retry

LEMMA WorkerPlaceTypes ==
    ASSUME PlaceTypes, NEW h \in Streams, Worker(h)
    PROVE  PlaceTypes'
    BY DEF Worker, WorkerTakes, WorkerStops, WorkerExits, WorkerCancels, PlaceTypes,
           WorkerPlaces, actorVars, streamVars, pendingVars, endVars, historyVars

LEMMA ShutdownPlaceTypes ==
    ASSUME PlaceTypes, Shutdown
    PROVE  PlaceTypes'
<1> USE DEF actorVars, streamVars, workerVars, endVars, pendingVars, historyVars
<1>0. pc \in [Actors -> Places]
    BY DEF PlaceTypes
<1>1. CASE ShutdownStart
    BY <1>1 DEF ShutdownStart, PlaceTypes
<1>2. CASE CloseAllStreams
    BY <1>2 DEF CloseAllStreams, PlaceTypes
<1>3. CASE ShutdownPending
    BY <1>0, <1>3, StopTimerSpec DEF ShutdownPending, DeletePending, PlaceTypes
<1>4. CASE ShutdownTimeout
    BY <1>4 DEF ShutdownTimeout, PlaceTypes
<1>. QED BY <1>1, <1>2, <1>3, <1>4 DEF Shutdown

LEMMA StepPlaceTypes == PlaceTypes /\ [Next]_vars => PlaceTypes'
<1> SUFFICES ASSUME PlaceTypes, [Next]_vars PROVE PlaceTypes'
    OBVIOUS
<1>1. CASE UNCHANGED vars
    BY <1>1 DEF vars, actorVars, streamVars, workerVars, endVars, pendingVars, PlaceTypes
<1>2. CASE Next
    BY <1>2, CreatePlaceTypes, EnqueuePlaceTypes, ConsumePlaceTypes,
       RetryPlaceTypes, WorkerPlaceTypes, ShutdownPlaceTypes DEF Next
<1>. QED BY <1>1, <1>2

\* The stream manager keeps to its own places.
LEMMA StreamPlacesStep == PlaceTypes /\ StreamPlaces /\ [Next]_vars => StreamPlaces'
<1> SUFFICES ASSUME PlaceTypes, StreamPlaces, [Next]_vars PROVE StreamPlaces'
    OBVIOUS
<1> USE DEF actorVars, streamVars, workerVars, endVars, pendingVars, historyVars
<1> DEFINE Here(at) == at \in [Actors -> Places \ {"ctx"}]
           Working == \A g \in Streams : worker'[g] \in {"none", "run", "exit", "cancel", "done"}
<1>0. /\ Here(pc) /\ worker \in [Streams -> WorkerPlaces]
      /\ \A g \in Streams : worker[g] \in {"none", "run", "exit", "cancel", "done"}
    BY DEF PlaceTypes, StreamPlaces
<1>1. ASSUME NEW at, Here(at)
      PROVE  /\ pc' = at => Here(pc')
             /\ pc' = StopTimer(at) => Here(pc')
             /\ Schedule(at) => Here(pc')
  <2>1. at \in [Actors -> Places]
    BY <1>1
  <2>2. pc' = StopTimer(at) => Here(pc')
    BY <1>1, <2>1, StopTimerSpec DEF Places
  <2>3. Schedule(at) => Here(pc')
    BY <1>1, <2>1, ScheduleSpec DEF Places
  <2> QED BY <1>1, <2>2, <2>3
<1>2. ASSUME NEW a \in Actors, NEW place \in Places \ {"ctx"} PROVE Here([pc EXCEPT ![a] = place])
    BY <1>0
<1>3. worker' = worker => Working
    BY <1>0
<1> HIDE DEF Here
<1>4. ASSUME NEW a \in Actors, NEW place \in Places \ {"ctx"}
      PROVE  /\ Goto(a, place) => Here(pc')
             /\ pc' = StopTimer([pc EXCEPT ![a] = place]) => Here(pc')
             /\ Schedule([pc EXCEPT ![a] = place]) => Here(pc')
    BY <1>1, <1>2 DEF Goto
<1>5. ASSUME NEW a \in Actors, Create(a) PROVE Here(pc') /\ Working
  <2>1. CASE FactoryOpens(a)
    <3>1. Working
      BY <1>0, <2>1 DEF FactoryOpens
    <3>. QED BY <1>4, <2>1, <3>1 DEF FactoryOpens, Places
  <2>2. CASE CreateFast(a) \/ FactoryUnavailable(a) \/ FactoryFails(a) \/ Register(a) \/ FlushPending(a)
    BY <1>4, <1>3, <2>2
       DEF CreateFast, FactoryUnavailable, FactoryFails, Register, FlushPending, Places
  <2>. QED BY <1>5, <2>1, <2>2 DEF Create
<1>6. ASSUME NEW a \in Actors, Enqueue(a) PROVE Here(pc') /\ Working
    BY <1>4, <1>3, <1>6 DEF Enqueue, EnqueueCheck, EnqueueSend, EnqueueClosed, EnqueueEnd, Home, Places
<1>7. ASSUME Consume PROVE Here(pc') /\ Working
  <2>1. Consumer \in Actors
    BY DEF Actors
  <2>2. CASE ConsumerRecv
    BY <1>4, <1>3, <2>1, <2>2 DEF ConsumerRecv, Places
  <2>3. CASE BufferPending
    BY <1>4, <1>3, <2>1, <2>3 DEF BufferPending, BufferItem, Places
  <2>4. CASE ConsumerEnd
    BY <1>4, <1>3, <2>1, <2>4 DEF ConsumerEnd, Places
  <2>. QED BY <1>7, <2>2, <2>3, <2>4 DEF Consume
<1>8. ASSUME NEW t \in Timers, Retry(t) PROVE Here(pc') /\ Working
  <2>1. t \in Actors
    BY DEF Actors
  <2>. QED BY <1>4, <1>3, <1>8, <2>1
           DEF Retry, RetryFires, RetryAgain, RetryAbandons, RetryGoesOn, DeletePending, Places
<1>9. ASSUME NEW h \in Streams, Worker(h) PROVE Here(pc') /\ Working
  <2>1. Working
    BY <1>0, <1>9 DEF Worker, WorkerTakes, WorkerStops, WorkerExits, WorkerCancels
  <2>2. pc' = pc
    BY <1>9 DEF Worker, WorkerTakes, WorkerStops, WorkerExits, WorkerCancels
  <2>. QED BY <1>0, <1>1, <2>1, <2>2
<1>10. ASSUME Shutdown PROVE Here(pc') /\ Working
  <2>1. (pc' = pc \/ pc' = StopTimer(pc)) /\ worker' = worker
    BY <1>10 DEF Shutdown, ShutdownStart, CloseAllStreams, ShutdownPending, ShutdownTimeout, DeletePending
  <2>. QED BY <1>0, <1>1, <1>3, <2>1
<1>11. ASSUME UNCHANGED vars PROVE Here(pc') /\ Working
  <2>1. pc' = pc /\ worker' = worker
    BY <1>11 DEF vars
  <2>. QED BY <1>0, <1>1, <1>3, <2>1
<1>12. Here(pc') /\ Working
    BY <1>5, <1>6, <1>7, <1>8, <1>9, <1>10, <1>11 DEF Next
<1>. QED BY <1>12 DEF Here, StreamPlaces

-----------------------------------------------------------------------------
(* Who moves in a step.                                                    *)

\* Timers that have not been set are off.
OffInv == \A t \in Timers : t > timers => pc[t] = "off"

\* Only a moves, but for a timer that is set or stopped.
Only(a) == \A b \in Actors \ {a} :
    \/ pc'[b] = pc[b]
    \/ pc[b] = "off" /\ pc'[b] = "set"
    \/ pc[b] = "set" /\ pc'[b] = "end"

LEMMA StopMoves ==
    ASSUME PlaceTypes, OffInv, NEW a \in Actors, pc[a] \notin {"off", "set"},
           NEW place \in Places \ {"off"},
           pc' = StopTimer([pc EXCEPT ![a] = place]), timers' = timers
    PROVE  Only(a) /\ pc'[a] = place /\ OffInv'
<1>1. [pc EXCEPT ![a] = place] \in [Actors -> Places]
    BY DEF PlaceTypes
<1>2. \A b \in Actors : \/ pc'[b] = [pc EXCEPT ![a] = place][b]
                        \/ pc[b] = "set" /\ pc'[b] = "end"
    BY <1>1, StopTimerSpec
<1>3. \A b \in Actors : [pc EXCEPT ![a] = place][b] = IF b = a THEN place ELSE pc[b]
    BY DEF PlaceTypes
<1>4. Only(a) /\ pc'[a] = place
    BY <1>2, <1>3 DEF Only
<1>. QED BY <1>2, <1>3, <1>4 DEF OffInv, Actors

LEMMA ScheduleMoves ==
    ASSUME PlaceTypes, OffInv, NEW a \in Actors, pc[a] # "off",
           NEW place \in Places \ {"off"}, Schedule([pc EXCEPT ![a] = place])
    PROVE  Only(a) /\ pc'[a] = place /\ OffInv'
<1>1. [pc EXCEPT ![a] = place] \in [Actors -> Places]
    BY DEF PlaceTypes
<1>2. \A b \in Actors : \/ pc'[b] = [pc EXCEPT ![a] = place][b]
                        \/ b \in Timers /\ b = timers + 1 /\ pc'[b] = "set"
    BY <1>1, ScheduleSpec
<1>3. \A b \in Actors : [pc EXCEPT ![a] = place][b] = IF b = a THEN place ELSE pc[b]
    BY DEF PlaceTypes
<1>4. \A t \in Timers : t = timers + 1 => pc[t] = "off"
    BY DEF OffInv, PlaceTypes, Timers
<1>5. Only(a) /\ pc'[a] = place
    BY <1>2, <1>3, <1>4 DEF Only
<1>6. timers' \in {timers, timers + 1}
    BY DEF Schedule
<1>7. timers' = timers => pc' = [pc EXCEPT ![a] = place]
    BY DEF Schedule, PlaceTypes
<1>8. CASE timers' = timers
    BY <1>3, <1>5, <1>7, <1>8 DEF OffInv, Actors
<1>9. CASE timers' = timers + 1
  <2>1. \A t \in Timers : t > timers' => t > timers /\ t # timers + 1
    BY <1>9 DEF PlaceTypes, Timers
  <2>2. Timers \subseteq Actors
    BY DEF Actors
  <2>3. \A t \in Timers : t > timers' => pc'[t] = [pc EXCEPT ![a] = place][t] /\ pc[t] = "off" /\ t # a
    BY <1>2, <2>1, <2>2 DEF OffInv
  <2>. QED BY <1>3, <1>5, <2>2, <2>3 DEF OffInv
<1>. QED BY <1>6, <1>8, <1>9

LEMMA GotoMoves ==
    ASSUME PlaceTypes, OffInv, NEW a \in Actors, pc[a] # "off",
           NEW place \in Places, Goto(a, place), timers' = timers
    PROVE  Only(a) /\ pc'[a] = place /\ OffInv'
    BY GotoSpec DEF Only, OffInv, Actors

-----------------------------------------------------------------------------
(* The inductive invariant.                                                *)

Holding == {"register", "flush", "enqueue", "ctx", "send"}

\* Streams that have not been created are unknown to everybody.
FlowInv ==
    /\ stream <= streams /\ cancelled \subseteq 1..streams
    /\ \A h \in Streams : worker[h] = "none" <=> h > streams
    /\ \A h \in Streams : worker[h] = "done" => h \in cancelled
    /\ \A a \in Actors : to[a] <= streams /\ (pc[a] \in Holding => to[a] # 0)

\* A stream about to be registered is known to its creator only, has got no
\* segment, and its worker runs unless the service is shut down.
FreshInv ==
    /\ \A h \in Streams : h > streams => queue[h] = <<>>
    /\ \A a \in Actors : pc[a] = "register" =>
          /\ stream # to[a] /\ queue[to[a]] = <<>>
          /\ \A b \in Actors \ {a} : to[b] # to[a]
          /\ ~closing => worker[to[a]] = "run" /\ to[a] \notin cancelled

ShutdownInv ==
    /\ shutdown # "no" => closing
    /\ shutdown = "end" => pc[Consumer] = "end" /\ pending = <<>> /\ timer = 0

\* What AudioEgress keeps to as well.
SharedInv == PlaceTypes /\ OffInv /\ FlowInv /\ FreshInv

StreamInv == SharedInv /\ NoOrphanWorker /\ RegisteredAlive /\ ShutdownInv

LEMMA ActorMoves ==
    ASSUME PlaceTypes, OffInv, NEW a \in Actors, Create(a) \/ Enqueue(a)
    PROVE  Only(a) /\ OffInv' /\ pc[a] \notin {"end", "off"}
<1> USE DEF pendingVars
<1>1. CASE CreateFast(a)
    BY <1>1, GotoMoves DEF CreateFast, Places
<1>2. CASE FactoryOpens(a)
    BY <1>2, GotoMoves DEF FactoryOpens, Places
<1>3. CASE FactoryUnavailable(a)
    BY <1>3, GotoMoves DEF FactoryUnavailable, Places
<1>4. CASE FactoryFails(a)
    BY <1>4, GotoMoves DEF FactoryFails, Places
<1>5. CASE Register(a)
    BY <1>5, GotoMoves DEF Register, Places
<1>6. CASE FlushPending(a)
    BY <1>6, StopMoves DEF FlushPending, Places
<1>7. CASE EnqueueCheck(a)
    BY <1>7, GotoMoves DEF EnqueueCheck, Places
<1>8. CASE EnqueueSend(a)
    BY <1>8, GotoMoves DEF EnqueueSend, Places
<1>9. CASE EnqueueClosed(a)
    BY <1>9, GotoMoves DEF EnqueueClosed, Places
<1>10. CASE EnqueueEnd(a)
    BY <1>10, GotoMoves DEF EnqueueEnd, Home, Places
<1>. QED BY <1>1, <1>2, <1>3, <1>4, <1>5, <1>6, <1>7, <1>8, <1>9, <1>10
         DEF Create, Enqueue

\* A step of actor a by which it at most takes the key's stream in hand or
\* lets its own go, and enqueues to its own: streams and workers stay.
HandMoves(a) ==
    /\ Only(a) /\ pc[a] \notin {"register", "end"} /\ pc'[a] # "register"
    /\ \A b \in Actors \ {a} : to'[b] = to[b]
    /\ to'[a] \in {0, stream, to[a]} /\ (pc'[a] \in Holding => to'[a] # 0)
    /\ \A h \in Streams : h = to[a] \/ queue'[h] = queue[h]
    /\ UNCHANGED <<streamVars, worker, cancelled, closing>>

LEMMA HandMovesStep ==
    ASSUME SharedInv, PlaceTypes', NEW a \in Actors, HandMoves(a)
    PROVE  /\ FlowInv' /\ FreshInv'
           /\ \A b \in Actors : pc[b] = "register" => pc'[b] = "register" /\ to'[b] = to[b]
           /\ \A b \in Actors : pc'[b] = "register" => pc[b] = "register" /\ to'[b] = to[b]
<1> USE DEF SharedInv, HandMoves, streamVars
<1>1. \A b \in Actors \ {a} : pc'[b] \in Holding => pc'[b] = pc[b]
    BY DEF Only, Holding
<1>2. FlowInv'
    BY <1>1 DEF FlowInv, PlaceTypes
<1>3. \A b \in Actors : pc'[b] = "register" => b # a /\ pc[b] = "register" /\ to'[b] = to[b]
    BY <1>1 DEF Holding
<1>4. \A b \in Actors : pc[b] = "register" => b # a /\ pc'[b] = "register" /\ to'[b] = to[b]
    BY DEF Only
<1>5. FreshInv'
  <2>1. \A h \in Streams : h > streams => queue'[h] = <<>>
    BY DEF FlowInv, FreshInv, PlaceTypes, Streams
  <2>2. ASSUME NEW b \in Actors, pc'[b] = "register"
        PROVE  /\ stream # to[b] /\ queue'[to[b]] = <<>>
               /\ \A c \in Actors \ {b} : to'[c] # to[b]
               /\ ~closing => worker[to[b]] = "run" /\ to[b] \notin cancelled
    <3>1. /\ b # a /\ pc[b] = "register" /\ to[b] \in Streams /\ to[b] # 0
          /\ stream # to[b] /\ queue[to[b]] = <<>>
          /\ \A c \in Actors \ {b} : to[c] # to[b]
      BY <1>3, <2>2 DEF FreshInv, FlowInv, Holding, PlaceTypes
    <3>2. queue'[to[b]] = <<>>
      BY <3>1
    <3>3. \A c \in Actors \ {b} : to'[c] # to[b]
      BY <3>1
    <3>. QED BY <3>1, <3>2, <3>3 DEF FreshInv
  <2>. QED BY <1>3, <2>1, <2>2 DEF FreshInv
<1>. QED BY <1>2, <1>3, <1>4, <1>5

\* Such a step of the stream manager keeps its own part of the invariant.
LEMMA HandStep ==
    ASSUME StreamInv, PlaceTypes', OffInv', NEW a \in Actors, HandMoves(a), UNCHANGED endVars,
           pending = <<>> /\ timer = 0 => pending' = <<>> /\ timer' = 0
    PROVE  StreamInv'
<1>1. FlowInv' /\ FreshInv' /\ \A b \in Actors : pc[b] = "register" => pc'[b] = "register" /\ to'[b] = to[b]
    BY HandMovesStep DEF StreamInv
<1>2. UNCHANGED <<streamVars, worker, cancelled, closing>> /\ Only(a) /\ pc[a] # "end"
    BY DEF HandMoves
<1>3. NoOrphanWorker'
    BY <1>1, <1>2 DEF StreamInv, NoOrphanWorker, Cancelled, streamVars
<1>4. RegisteredAlive'
    BY <1>2 DEF StreamInv, RegisteredAlive, streamVars
<1>5. ShutdownInv'
    BY <1>2 DEF StreamInv, ShutdownInv, Only, endVars, Actors
<1>. QED BY <1>1, <1>3, <1>4, <1>5 DEF StreamInv, SharedInv

LEMMA EndStep ==
    ASSUME StreamInv, NEW a \in Actors, Only(a), pc[a] # "end",
           UNCHANGED endVars,
           shutdown = "end" => pending' = <<>> /\ timer' = 0
    PROVE  ShutdownInv'
    BY DEF StreamInv, SharedInv, ShutdownInv, Only, endVars, Actors

\* An actor's step that neither creates nor registers a stream.
LEMMA HandActions ==
    ASSUME SharedInv, NEW a \in Actors,
           \/ CreateFast(a) \/ FactoryUnavailable(a) \/ FactoryFails(a)
           \/ FlushPending(a) \/ Enqueue(a)
    PROVE  /\ HandMoves(a) /\ UNCHANGED endVars
           /\ pending = <<>> /\ timer = 0 => pending' = <<>> /\ timer' = 0
<1> USE DEF SharedInv, HandMoves, pendingVars, streamVars, workerVars, historyVars, endVars
<1>0. /\ pc \in [Actors -> Places] /\ to \in [Actors -> Streams \cup {0}]
      /\ queue' = queue => \A h \in Streams : h = to[a] \/ queue'[h] = queue[h]
      /\ pc[a] \in Holding => to[a] # 0
      /\ Only(a)
    BY ActorMoves DEF PlaceTypes, FlowInv, Create
<1>1. CASE CreateFast(a)
    BY <1>0, <1>1 DEF CreateFast, Goto, Holding
<1>2. CASE FactoryUnavailable(a)
    BY <1>0, <1>2 DEF FactoryUnavailable, Goto, Holding
<1>3. CASE FactoryFails(a)
    BY <1>0, <1>3 DEF FactoryFails, Goto, Holding
<1>4. CASE FlushPending(a)
    BY <1>0, <1>4, StopMoves DEF FlushPending, Holding, Places
<1>5. CASE EnqueueCheck(a)
    BY <1>0, <1>5 DEF EnqueueCheck, Goto, Holding
<1>6. CASE EnqueueSend(a)
    BY <1>0, <1>6 DEF EnqueueSend, Goto, Holding
<1>7. CASE EnqueueClosed(a)
    BY <1>0, <1>7 DEF EnqueueClosed, Goto, Holding
<1>8. CASE EnqueueEnd(a)
    BY <1>0, <1>8 DEF EnqueueEnd, Goto, Holding, Home
<1>. QED BY <1>1, <1>2, <1>3, <1>4, <1>5, <1>6, <1>7, <1>8 DEF Enqueue

LEMMA FactoryOpensStep ==
    ASSUME SharedInv, PlaceTypes', NEW a \in Actors, Only(a), FactoryOpens(a)
    PROVE  /\ FlowInv' /\ FreshInv' /\ (NoOrphanWorker => NoOrphanWorker')
           /\ RegisteredAlive => RegisteredAlive'
           /\ to'[a] = streams + 1 /\ streams + 1 \in Streams /\ worker'[streams + 1] = "run"
           /\ \A h \in Streams \ {streams + 1} : worker'[h] = worker[h]
           /\ pc'[a] = "register" /\ stream # streams + 1 /\ streams + 1 \notin cancelled
           /\ \A b \in Actors : to[b] # streams + 1
           /\ \A b \in Actors \ {a} : to'[b] = to[b]
                /\ (pc'[b] = "register" <=> pc[b] = "register")
<1> USE DEF SharedInv, FactoryOpens, pendingVars, historyVars, endVars
<1> DEFINE new == streams + 1
<1>1. /\ new \in Streams /\ \A h \in 0..streams : h # new
      /\ streams' = new /\ worker' = [worker EXCEPT ![new] = "run"]
      /\ to' = [to EXCEPT ![a] = new]
    BY BoundAssumption DEF PlaceTypes, Streams
<1>2. /\ pc'[a] = "register" /\ to'[a] = new
      /\ \A b \in Actors \ {a} : to'[b] = to[b] /\ (pc'[b] \in Holding => pc'[b] = pc[b])
      /\ \A b \in Actors \ {a} : pc[b] = "register" => pc'[b] = "register"
    BY <1>1 DEF PlaceTypes, Goto, Only, Holding
<1>3. worker'[new] = "run" /\ \A h \in Streams \ {new} : worker'[h] = worker[h]
    BY <1>1 DEF PlaceTypes
<1>4. \A h \in Streams : h > new <=> h > streams /\ h # new
    BY DEF Streams, PlaceTypes
<1>5. \A b \in Actors : to[b] <= streams /\ to[b] # new
    BY <1>1 DEF FlowInv, PlaceTypes, Streams
<1>6. stream <= streams /\ stream # new /\ new \notin cancelled
    BY DEF FlowInv, PlaceTypes, Streams
<1>7. FlowInv'
  <2>1. stream' <= streams' /\ cancelled' \subseteq 1..streams'
    BY <1>1, <1>6 DEF FlowInv, PlaceTypes, Streams
  <2>2. \A h \in Streams : (worker'[h] = "none" <=> h > streams')
                           /\ (worker'[h] = "done" => h \in cancelled')
    BY <1>1, <1>3, <1>4 DEF FlowInv
  <2>3. \A b \in Actors : to'[b] <= streams' /\ (pc'[b] \in Holding => to'[b] # 0)
    BY <1>1, <1>2, <1>5 DEF FlowInv, PlaceTypes, Streams
  <2>. QED BY <2>1, <2>2, <2>3 DEF FlowInv
<1>8. FreshInv'
  <2>1. \A h \in Streams : h > streams' => queue'[h] = <<>>
    BY <1>1, <1>4 DEF FreshInv
  <2>2. queue[new] = <<>>
    BY <1>1 DEF FreshInv, PlaceTypes
  <2>3. ASSUME NEW b \in Actors, pc'[b] = "register"
        PROVE  /\ stream # to'[b] /\ queue[to'[b]] = <<>>
               /\ \A c \in Actors \ {b} : to'[c] # to'[b]
               /\ ~closing => worker'[to'[b]] = "run" /\ to'[b] \notin cancelled
    <3>1. CASE b = a
        BY <1>2, <1>3, <1>5, <1>6, <2>2, <3>1
    <3>2. CASE b # a
      <4>1. pc[b] = "register" /\ to'[b] = to[b] /\ to[b] \in Streams \ {new}
        BY <1>2, <1>5, <2>3, <3>2 DEF Holding, FlowInv, PlaceTypes
      <4>2. \A c \in Actors \ {b} : to'[c] # to[b]
        BY <1>2, <1>5, <4>1 DEF FreshInv
      <4>. QED BY <1>3, <4>1, <4>2 DEF FreshInv
    <3>. QED BY <3>1, <3>2
  <2>. QED BY <2>1, <2>3 DEF FreshInv
<1>9. NoOrphanWorker => NoOrphanWorker'
    BY <1>2, <1>3 DEF NoOrphanWorker, Cancelled
<1>10. RegisteredAlive => RegisteredAlive'
    BY <1>3, <1>6 DEF RegisteredAlive, PlaceTypes
<1>11. \A b \in Actors \ {a} : to'[b] = to[b] /\ (pc'[b] = "register" <=> pc[b] = "register")
    BY <1>2 DEF Holding
<1>. QED BY <1>1, <1>2, <1>3, <1>5, <1>6, <1>7, <1>8, <1>9, <1>10, <1>11

LEMMA RegisterStep ==
    ASSUME SharedInv, PlaceTypes', NEW a \in Actors, Only(a), Register(a)
    PROVE  /\ FlowInv' /\ FreshInv' /\ (NoOrphanWorker => NoOrphanWorker')
           /\ RegisteredAlive => RegisteredAlive'
           /\ to[a] \in Streams /\ stream # to[a] /\ (~closing => worker[to[a]] = "run")
           /\ pc'[a] # "register"
           /\ \/ stream # 0 /\ cancelled' = cancelled \cup {to[a]} /\ stream' = stream
              \/ stream = 0 /\ stream' = to[a] /\ cancelled' = cancelled
           /\ \A b \in Actors \ {a} : to'[b] = to[b]
                /\ (pc'[b] = "register" <=> pc[b] = "register")
<1> USE DEF SharedInv, Register, pendingVars, historyVars, endVars
<1>0. /\ to[a] \in Streams /\ to[a] # 0 /\ to[a] <= streams /\ stream # to[a]
      /\ \A b \in Actors \ {a} : to[b] # to[a]
      /\ ~closing => worker[to[a]] = "run"
    BY DEF FlowInv, FreshInv, Holding, PlaceTypes
<1>1. /\ pc'[a] \in {"enqueue", "flush", "end"}
      /\ \A b \in Actors \ {a} : to'[b] = to[b] /\ (pc'[b] \in Holding => pc'[b] = pc[b])
      /\ \A b \in Actors \ {a} : pc[b] = "register" => pc'[b] = "register"
    BY DEF PlaceTypes, Goto, Only, Holding
<1>2. \/ stream # 0 /\ cancelled' = cancelled \cup {to[a]} /\ to'[a] = stream /\ stream' = stream
      \/ stream = 0 /\ stream' = to[a] /\ cancelled' = cancelled /\ to'[a] = to[a]
    BY DEF PlaceTypes
<1>3. streams' = streams /\ worker' = worker /\ queue' = queue /\ closing' = closing
    OBVIOUS
<1>4. FlowInv'
  <2>0. to[a] \in 1..streams
    BY <1>0 DEF Streams, PlaceTypes
  <2>1. stream' <= streams' /\ cancelled' \subseteq 1..streams'
    BY <1>2, <1>3, <2>0 DEF FlowInv
  <2>2. \A h \in Streams : (worker'[h] = "none" <=> h > streams')
                           /\ (worker'[h] = "done" => h \in cancelled')
    BY <1>2, <1>3 DEF FlowInv
  <2>3. \A b \in Actors : to'[b] <= streams' /\ (pc'[b] \in Holding => to'[b] # 0)
    BY <1>0, <1>1, <1>2, <1>3 DEF FlowInv
  <2>. QED BY <2>1, <2>2, <2>3 DEF FlowInv
<1>5. FreshInv'
  <2>1. ASSUME NEW b \in Actors, pc'[b] = "register"
        PROVE  /\ stream' # to'[b] /\ queue[to'[b]] = <<>>
               /\ \A c \in Actors \ {b} : to'[c] # to'[b]
               /\ ~closing => worker[to'[b]] = "run" /\ to'[b] \notin cancelled'
    <3>1. b # a /\ pc[b] = "register" /\ to'[b] = to[b] /\ to[b] # to[a] /\ to[b] # stream
        BY <1>0, <1>1, <2>1 DEF Holding, FreshInv
    <3>2. \A c \in Actors \ {b} : to'[c] # to[b]
        BY <1>1, <1>2, <3>1 DEF FreshInv
    <3>. QED BY <1>2, <3>1, <3>2 DEF FreshInv
  <2>. QED BY <1>3, <2>1 DEF FreshInv
<1>6. NoOrphanWorker => NoOrphanWorker'
  <2> SUFFICES ASSUME NoOrphanWorker, NEW h \in Streams, worker[h] = "run", ~closing, h \notin cancelled'
               PROVE  \/ stream' = h
                      \/ \E b \in Actors : pc'[b] = "register" /\ to'[b] = h
    BY <1>3 DEF NoOrphanWorker, Cancelled
  <2>1. h # 0 /\ h \notin cancelled
    BY <1>2 DEF Streams
  <2>2. CASE stream = h
    BY <1>2, <2>1, <2>2
  <2>3. CASE \E b \in Actors : pc[b] = "register" /\ to[b] = h
    <3>1. PICK b \in Actors : pc[b] = "register" /\ to[b] = h
      BY <2>3
    <3>2. CASE b = a
      BY <1>2, <3>1, <3>2
    <3>3. CASE b # a
      BY <1>1, <3>1, <3>3
    <3>. QED BY <3>2, <3>3
  <2>. QED BY <2>1, <2>2, <2>3 DEF NoOrphanWorker, Cancelled
<1>7. RegisteredAlive => RegisteredAlive'
    BY <1>0, <1>2, <1>3 DEF RegisteredAlive
<1>8. \A b \in Actors \ {a} : to'[b] = to[b] /\ (pc'[b] = "register" <=> pc[b] = "register")
    BY <1>1 DEF Holding
<1>. QED BY <1>0, <1>1, <1>2, <1>4, <1>5, <1>6, <1>7, <1>8

LEMMA ConsumeStep ==
    ASSUME SharedInv, Consume
    PROVE  /\ HandMoves(Consumer) /\ OffInv' /\ UNCHANGED endVars
           /\ pc[Consumer] # "buffer" => UNCHANGED pendingVars
<1> USE DEF SharedInv, pendingVars, streamVars, workerVars, historyVars, endVars
<1> DEFINE a == Consumer
<1>0. /\ a \in Actors /\ pc \in [Actors -> Places]
      /\ to \in [Actors -> Streams \cup {0}]
    BY DEF Actors, PlaceTypes
<1>1. CASE ConsumerRecv
  <2>1. Only(a) /\ OffInv'
    BY <1>0, <1>1, GotoMoves DEF ConsumerRecv, Places
  <2>. QED BY <1>0, <1>1, <2>1 DEF ConsumerRecv, Goto, Holding, HandMoves
<1>2. CASE BufferPending
  <2>1. Only(a) /\ pc'[a] = "recv" /\ OffInv'
    BY <1>0, <1>2, ScheduleMoves DEF BufferPending, BufferItem, Places
  <2>. QED BY <1>0, <1>2, <2>1 DEF BufferPending, Holding, HandMoves
<1>3. CASE ConsumerEnd
  <2>1. Only(a) /\ OffInv'
    BY <1>0, <1>3, GotoMoves DEF ConsumerEnd, Places
  <2>. QED BY <1>0, <1>3, <2>1 DEF ConsumerEnd, Goto, Holding, HandMoves
<1>. QED BY <1>1, <1>2, <1>3 DEF Consume

LEMMA RetryStep ==
    ASSUME SharedInv, NEW t \in Timers, Retry(t)
    PROVE  /\ HandMoves(t) /\ OffInv' /\ UNCHANGED endVars
           /\ pending = <<>> /\ timer = 0 => pending' = <<>> /\ timer' = 0
<1> USE DEF SharedInv, pendingVars, streamVars, workerVars, historyVars, endVars
<1>1. /\ Only(t) /\ OffInv' /\ pc[t] \notin Holding \cup {"end"} /\ pc'[t] \notin Holding
      /\ UNCHANGED <<to, queue, streamVars, worker, cancelled, endVars>>
      /\ pending = <<>> /\ timer = 0 => pending' = <<>> /\ timer' = 0
  <2>0. t \in Actors
    BY DEF Actors
  <2>1. CASE RetryFires(t)
    BY <2>0, <2>1, GotoMoves DEF RetryFires, Places, Holding
  <2>2. CASE RetryAgain(t) /\ pending = <<>>
    BY <2>0, <2>2, GotoMoves DEF RetryAgain, Places, Holding
  <2>3. CASE RetryAgain(t) /\ pending # <<>>
    BY <2>0, <2>3, ScheduleMoves DEF RetryAgain, Places, Holding
  <2>4. CASE RetryAbandons(t)
    BY <2>0, <2>4, StopMoves DEF RetryAbandons, DeletePending, Places, Holding
  <2>5. CASE RetryGoesOn(t) /\ pending = <<>>
    BY <2>0, <2>5, GotoMoves DEF RetryGoesOn, Places, Holding
  <2>6. CASE RetryGoesOn(t) /\ pending # <<>>
    BY <2>0, <2>6, ScheduleMoves DEF RetryGoesOn, Places, Holding
  <2>. QED BY <2>1, <2>2, <2>3, <2>4, <2>5, <2>6 DEF Retry
<1>2. t \in Actors /\ pc[t] \notin {"register", "end"} /\ pc'[t] # "register"
    BY <1>1 DEF Actors, Holding
<1>. QED BY <1>1, <1>2 DEF HandMoves

LEMMA WorkerStep ==
    ASSUME StreamInv, PlaceTypes', NEW h \in Streams, Worker(h)
    PROVE  StreamInv'
<1> USE DEF StreamInv, SharedInv, actorVars, pendingVars, historyVars, endVars
<1>1. /\ UNCHANGED <<pc, to, timer, timers, pending, streams, closing, shutdown>>
      /\ stream' \in {stream, 0} /\ worker[h] \in {"run", "exit", "cancel"}
      /\ \A g \in Streams \ {h} : worker'[g] = worker[g] /\ queue'[g] = queue[g]
      /\ stream' = 0 => stream = 0 \/ stream = h
  <2>1. CASE WorkerTakes(h)
    BY <2>1 DEF WorkerTakes, streamVars, PlaceTypes
  <2>2. CASE WorkerStops(h)
    BY <2>2 DEF WorkerStops, streamVars, PlaceTypes
  <2>3. CASE WorkerExits(h)
    BY <2>3 DEF WorkerExits, PlaceTypes
  <2>4. CASE WorkerCancels(h)
    BY <2>4 DEF WorkerCancels, streamVars, PlaceTypes
  <2>. QED BY <2>1, <2>2, <2>3, <2>4 DEF Worker
<1>2. /\ worker'[h] \in {"run", "exit", "cancel", "done"}
      /\ worker'[h] = "done" => h \in cancelled'
      /\ cancelled' \in {cancelled, cancelled \cup {h}}
      /\ worker'[h] = "run" => worker[h] = "run"
      /\ worker[h] = "run" => /\ stream' = stream /\ cancelled' = cancelled
                              /\ queue[h] # <<>> \/ Cancelled(h)
      /\ worker[h] = "exit" => stream' # h \/ h = 0
      /\ worker[h] = "run" => worker'[h] \in {"run", "exit"}
  <2>1. CASE WorkerTakes(h)
    BY <2>1 DEF WorkerTakes, streamVars, PlaceTypes
  <2>2. CASE WorkerStops(h)
    BY <2>2 DEF WorkerStops, streamVars, PlaceTypes
  <2>3. CASE WorkerExits(h)
    BY <2>3 DEF WorkerExits, PlaceTypes
  <2>4. CASE WorkerCancels(h)
    BY <2>4 DEF WorkerCancels, streamVars, PlaceTypes
  <2>. QED BY <2>1, <2>2, <2>3, <2>4 DEF Worker
<1>3. h \in 1..streams /\ h # 0
    BY <1>1 DEF FlowInv, Streams, PlaceTypes
<1>4. FlowInv'
  <2>1. stream' <= streams' /\ cancelled' \subseteq 1..streams'
    BY <1>1, <1>2, <1>3 DEF FlowInv, PlaceTypes
  <2>2. \A g \in Streams : (worker'[g] = "none" <=> g > streams')
                           /\ (worker'[g] = "done" => g \in cancelled')
    BY <1>1, <1>2 DEF FlowInv
  <2>. QED BY <1>1, <2>1, <2>2 DEF FlowInv
<1>5. FreshInv'
  <2>1. \A g \in Streams : g > streams' => queue'[g] = <<>>
    BY <1>1, <1>3 DEF FreshInv, PlaceTypes, Streams
  <2>2. ASSUME NEW b \in Actors, pc[b] = "register"
        PROVE  /\ stream' # to[b] /\ queue'[to[b]] = <<>>
               /\ ~closing => worker'[to[b]] = "run" /\ to[b] \notin cancelled'
    <3>1. /\ stream # to[b] /\ queue[to[b]] = <<>> /\ to[b] \in Streams /\ to[b] # 0
          /\ ~closing => worker[to[b]] = "run" /\ to[b] \notin cancelled
      BY <2>2 DEF FreshInv, FlowInv, Holding, PlaceTypes
    <3>2. CASE to[b] # h
      BY <1>1, <1>2, <3>1, <3>2
    <3>3. CASE to[b] = h
      <4>1. Worker(h) /\ queue[h] = <<>>
        BY <3>1, <3>3
      <4>2. closing /\ queue' = queue
        BY <1>2, <3>1, <3>3, <4>1
           DEF Cancelled, Worker, WorkerTakes, WorkerStops, WorkerExits, WorkerCancels
      <4>. QED BY <1>1, <3>1, <4>2
    <3>. QED BY <3>2, <3>3
  <2>. QED BY <1>1, <2>1, <2>2 DEF FreshInv
<1>6. NoOrphanWorker'
    BY <1>1, <1>2 DEF NoOrphanWorker, Cancelled
<1>7. RegisteredAlive'
    BY <1>1, <1>2 DEF RegisteredAlive, PlaceTypes
<1>8. ShutdownInv' /\ OffInv'
    BY <1>1 DEF ShutdownInv, OffInv
<1>. QED BY <1>4, <1>5, <1>6, <1>7, <1>8

LEMMA ShutdownStep ==
    ASSUME StreamInv, PlaceTypes', Shutdown
    PROVE  StreamInv'
<1> USE DEF StreamInv, SharedInv, actorVars, pendingVars, streamVars, workerVars, historyVars
<1>0. Consumer \in Actors /\ pc \in [Actors -> Places]
    BY DEF Actors, PlaceTypes
<1>1. CASE ShutdownStart
    BY <1>1 DEF ShutdownStart, OffInv, FlowInv, FreshInv, NoOrphanWorker, Cancelled,
                RegisteredAlive, ShutdownInv
<1>2. CASE ShutdownTimeout
    BY <1>2 DEF ShutdownTimeout, OffInv, FlowInv, FreshInv, NoOrphanWorker, Cancelled,
                RegisteredAlive, ShutdownInv
<1>3. CASE CloseAllStreams
  <2>0. /\ closing /\ stream' = 0 /\ shutdown' = "wait"
        /\ UNCHANGED <<pc, to, timers, timer, pending, streams, worker, queue, closing>>
        /\ cancelled' \in {cancelled, cancelled \cup {stream}}
        /\ stream # 0 => stream \in 1..streams
        /\ stream = 0 => cancelled' = cancelled
    BY <1>3 DEF CloseAllStreams, ShutdownInv, FlowInv, PlaceTypes, Streams
  <2>1. cancelled' \subseteq 1..streams /\ cancelled \subseteq cancelled'
    BY <2>0 DEF FlowInv
  <2>2. FlowInv'
    BY <2>0, <2>1 DEF FlowInv, PlaceTypes
  <2>3. ASSUME NEW b \in Actors, pc[b] = "register" PROVE to[b] # 0
    BY <2>3 DEF FlowInv, Holding
  <2>4. FreshInv'
    BY <2>0, <2>3 DEF FreshInv
  <2>. QED BY <2>0, <2>2, <2>4 DEF OffInv, NoOrphanWorker, Cancelled, RegisteredAlive,
                                   ShutdownInv
<1>4. CASE ShutdownPending
  <2>0. /\ pc' = StopTimer(pc) /\ timer' = 0 /\ pending' = <<>>
        /\ UNCHANGED <<to, timers, stream, streams, worker, queue, cancelled, closing>>
        /\ pc[Consumer] = "end" /\ closing
    BY <1>4 DEF ShutdownPending, DeletePending, ShutdownInv
  <2>1. \A b \in Actors : \/ pc'[b] = pc[b]
                          \/ pc[b] = "set" /\ pc'[b] = "end"
    BY <1>0, <2>0, StopTimerSpec
  <2>2. \A b \in Actors : (pc'[b] \in Holding <=> pc[b] \in Holding)
                          /\ (pc'[b] = "register" <=> pc[b] = "register")
    BY <2>1 DEF Holding
  <2>3. FlowInv'
    BY <2>0, <2>2 DEF FlowInv
  <2>4. FreshInv'
    BY <2>0, <2>2 DEF FreshInv
  <2>5. OffInv' /\ ShutdownInv'
    BY <1>0, <2>0, <2>1 DEF OffInv, ShutdownInv, Actors
  <2>. QED BY <2>0, <2>2, <2>3, <2>4, <2>5 DEF NoOrphanWorker, Cancelled, RegisteredAlive
<1>. QED BY <1>1, <1>2, <1>3, <1>4 DEF Shutdown

LEMMA InitStreamInv == Init => StreamInv
<1> SUFFICES ASSUME Init PROVE StreamInv
    OBVIOUS
<1>1. PlaceTypes
    BY InitPlaceTypes
<1>2. Consumer \notin Timers /\ \A t \in Timers : pc[t] = "off"
    BY DEF Init, Actors, Consumer, Timers
<1>3. OffInv
    BY <1>2 DEF OffInv
<1>4. \A a \in Actors : to[a] = 0 /\ pc[a] \in {"recv", "off"}
    BY DEF Init
<1>5. \A h \in Streams : h > 0 /\ worker[h] = "none" /\ queue[h] = <<>>
    BY DEF Init, Streams
<1>6. FlowInv
    BY <1>4, <1>5 DEF Init, FlowInv, Holding
<1>7. FreshInv /\ NoOrphanWorker
    BY <1>4, <1>5 DEF FreshInv, NoOrphanWorker
<1>. QED BY <1>1, <1>3, <1>6, <1>7 DEF Init, StreamInv, SharedInv, RegisteredAlive, ShutdownInv

LEMMA NextStreamInv == StreamInv /\ [Next]_vars => StreamInv'
<1> SUFFICES ASSUME StreamInv, [Next]_vars PROVE StreamInv'
    OBVIOUS
<1>0. PlaceTypes /\ OffInv /\ PlaceTypes'
    BY StepPlaceTypes DEF StreamInv, SharedInv
<1>1. ASSUME NEW a \in Actors, Create(a) \/ Enqueue(a)
      PROVE  StreamInv'
  <2>1. Only(a) /\ OffInv' /\ pc[a] # "end"
    BY <1>0, <1>1, ActorMoves
  <2>2. CASE FactoryOpens(a)
    <3>1. ShutdownInv'
      BY <2>1, <2>2, EndStep DEF FactoryOpens, StreamInv, ShutdownInv, endVars, pendingVars
    <3>. QED BY <1>0, <2>1, <2>2, <3>1, FactoryOpensStep DEF StreamInv, SharedInv
  <2>3. CASE Register(a)
    <3>1. ShutdownInv'
      BY <2>1, <2>3, EndStep DEF Register, StreamInv, ShutdownInv, endVars, pendingVars
    <3>. QED BY <1>0, <2>1, <2>3, <3>1, RegisterStep DEF StreamInv, SharedInv
  <2>4. CASE ~FactoryOpens(a) /\ ~Register(a)
    <3>1. SharedInv
      BY DEF StreamInv
    <3>. QED BY <1>0, <1>1, <2>1, <2>4, <3>1, HandActions, HandStep DEF Create
  <2>. QED BY <2>2, <2>3, <2>4
<1>3. CASE Consume
  <2>1. /\ HandMoves(Consumer) /\ OffInv' /\ UNCHANGED endVars
        /\ pc[Consumer] # "buffer" => UNCHANGED pendingVars
    BY <1>3, ConsumeStep DEF StreamInv
  <2>2. pc[Consumer] # "end" /\ Only(Consumer) /\ Consumer \in Actors
    BY <2>1 DEF HandMoves, Actors
  <2>3. FlowInv' /\ FreshInv'
        /\ \A b \in Actors : pc[b] = "register" => pc'[b] = "register" /\ to'[b] = to[b]
    BY <1>0, <2>1, <2>2, HandMovesStep DEF StreamInv
  <2>4. NoOrphanWorker' /\ RegisteredAlive'
    BY <2>1, <2>3 DEF StreamInv, NoOrphanWorker, Cancelled, RegisteredAlive, streamVars, HandMoves
  <2>5. ShutdownInv'
    BY <2>1, <2>2 DEF StreamInv, ShutdownInv, endVars
  <2>. QED BY <1>0, <2>1, <2>3, <2>4, <2>5 DEF StreamInv, SharedInv
<1>4. ASSUME NEW t \in Timers, Retry(t) PROVE StreamInv'
  <2>1. SharedInv /\ t \in Actors
    BY DEF StreamInv, Actors
  <2>. QED BY <1>0, <1>4, <2>1, RetryStep, HandStep
<1>2. CASE UNCHANGED vars
    BY <1>2 DEF vars, actorVars, pendingVars, streamVars, workerVars, endVars, StreamInv, SharedInv,
                PlaceTypes, OffInv, FlowInv, FreshInv, NoOrphanWorker, Cancelled,
                RegisteredAlive, ShutdownInv
<1>. QED BY <1>0, <1>1, <1>2, <1>3, <1>4, WorkerStep, ShutdownStep DEF Next

LEMMA InvariantStreamInv == Spec => []StreamInv
    BY InitStreamInv, NextStreamInv, PTL DEF Spec

LEMMA InvariantStreamPlaces == Spec => []StreamPlaces
<1>1. Init => StreamPlaces
    BY DEF Init, StreamPlaces
<1>2. StreamInv /\ StreamPlaces /\ [Next]_vars => StreamPlaces'
    BY StreamPlacesStep DEF StreamInv, SharedInv
<1>. QED BY <1>1, <1>2, InvariantStreamInv, PTL DEF Spec

-----------------------------------------------------------------------------
(* The properties.                                                         *)

\* A stream's worker that nobody has told to stop is reachable: it is the one
\* the manager has for the key or that of a CreateStream about to decide
\* whether it is kept, whatever races it runs.
THEOREM OrphansNever == Spec => []NoOrphanWorker
<1>1. StreamInv => NoOrphanWorker
    BY DEF StreamInv, SharedInv
<1>. QED BY <1>1, InvariantStreamInv, PTL

\* The stream the manager has for the key is served by a worker that will
\* remove it when it ends, as long as the service is not shut down.
THEOREM RegisteredStaysAlive == Spec => []RegisteredAlive
<1>1. StreamInv => RegisteredAlive
    BY DEF StreamInv, SharedInv
<1>. QED BY <1>1, InvariantStreamInv, PTL

\* Nobody waits in Enqueue for a worker that has gone without cancelling.
LEMMA EnqueueEnds == Spec => []WaitEnds
<1>1. StreamInv /\ StreamPlaces => WaitEnds
  <2> SUFFICES ASSUME StreamInv, StreamPlaces, NEW a \in Actors, pc[a] = "send"
               PROVE  worker[to[a]] \in {"run", "exit", "cancel"} \/ Cancelled(to[a])
      BY DEF WaitEnds
  <2>1. to[a] \in Streams /\ to[a] <= streams /\ streams \in Nat
      BY DEF StreamInv, SharedInv, FlowInv, Holding, PlaceTypes
  <2>2. worker[to[a]] # "none" /\ (worker[to[a]] = "done" => to[a] \in cancelled)
      BY <2>1 DEF StreamInv, SharedInv, FlowInv, Streams
  <2>. QED BY <2>1, <2>2 DEF StreamPlaces, Cancelled
<1>. QED BY <1>1, InvariantStreamInv, InvariantStreamPlaces, PTL

\* All three together: the table, the workers and those who wait for them agree.
THEOREM StreamsStayRegistered == Spec => []StreamsRegistered
<1>. QED BY OrphansNever, RegisteredStaysAlive, EnqueueEnds, PTL DEF StreamsRegistered

\* A Shutdown that succeeds leaves nothing pending and no timer, for good.
LEMMA ShutdownLeavesNothing == Spec => []ShutdownEmpties
<1>1. StreamInv => ShutdownEmpties
    BY DEF StreamInv, SharedInv, ShutdownInv, ShutdownEmpties
<1>. QED BY <1>1, InvariantStreamInv, PTL

-----------------------------------------------------------------------------
(* Types.  The consumer and whoever waits in Enqueue have a segment in     *)
(* hand, which is what makes taking the head of the hand defined.          *)

HandInv ==
    /\ \A a \in Actors : pc[a] \in {"ctx", "send"} => hand[a] # <<>>
    /\ pc[Consumer] \in {"fast", "factory", "buffer"} => hand[Consumer] # <<>>

LEMMA AppendSegment ==
    ASSUME NEW s \in Seq(Segments), NEW e \in Segments
    PROVE  /\ Append(s, e) \in Seq(Segments) /\ Len(Append(s, e)) = Len(s) + 1
           /\ <<e>> \in Seq(Segments) /\ <<e>> # <<>> /\ Len(s) \in Nat
    OBVIOUS

LEMMA ConcatSegments ==
    ASSUME NEW s \in Seq(Segments), NEW t \in Seq(Segments)
    PROVE  s \o t \in Seq(Segments) /\ ToSet(s) \subseteq Segments
    BY DEF ToSet

LEMMA TakeHead ==
    ASSUME NEW s \in Seq(Segments), s # <<>>
    PROVE  /\ Head(s) \in Segments /\ Tail(s) \in Seq(Segments)
           /\ Len(Tail(s)) = Len(s) - 1 /\ Len(s) \in Nat
    OBVIOUS

LEMMA NoSegments == <<>> \in Seq(Segments) /\ Len(<<>>) = 0
    OBVIOUS

LEMMA InitDataTypes == Init => DataTypes /\ HandInv
<1> HAVE Init
<1>1. DataTypes
    BY NoSegments, BoundAssumption, SizeAssumption, FailuresAssumption DEF Init, DataTypes
<1>2. Consumer \in Actors
    BY DEF Actors
<1>. QED BY <1>1, <1>2 DEF Init, HandInv

LEMMA CreateDataTypes ==
    ASSUME PlaceTypes, OffInv, DataTypes, HandInv, NEW a \in Actors, Create(a)
    PROVE  DataTypes' /\ HandInv'
<1> USE DEF pendingVars, streamVars, workerVars, historyVars, endVars
<1>0. /\ hand \in [Actors -> Seq(Segments)] /\ pc \in [Actors -> Places]
      /\ hand[a] \in Seq(Segments) /\ pending \in Seq(Segments) /\ Consumer \in Actors
    BY DEF DataTypes, PlaceTypes, Actors
<1>1. Only(a)
    BY ActorMoves
<1>2. \A b \in Actors \ {a} : pc'[b] \in {"ctx", "send", "fast", "factory", "buffer"} => pc'[b] = pc[b]
    BY <1>1 DEF Only
<1>3. CASE CreateFast(a)
  <2>1. DataTypes'
    BY <1>3 DEF CreateFast, DataTypes
  <2>. QED BY <1>0, <1>2, <1>3, <2>1 DEF CreateFast, HandInv, Goto
<1>4. CASE FactoryOpens(a)
  <2>1. DataTypes'
    BY <1>4 DEF FactoryOpens, DataTypes
  <2>. QED BY <1>0, <1>2, <1>4, <2>1 DEF FactoryOpens, HandInv, Goto
<1>5. CASE FactoryUnavailable(a)
  <2>1. DataTypes'
    BY <1>5 DEF FactoryUnavailable, DataTypes
  <2>. QED BY <1>0, <1>2, <1>5, <2>1 DEF FactoryUnavailable, HandInv, Goto
<1>6. CASE FactoryFails(a)
  <2>1. hand' \in [Actors -> Seq(Segments)] /\ \A b \in Actors \ {a} : hand'[b] = hand[b]
    BY <1>0, <1>6, NoSegments DEF FactoryFails
  <2>2. dropped' \subseteq Segments
    BY <1>0, <1>6, ConcatSegments DEF FactoryFails, DataTypes
  <2>3. DataTypes'
    BY <1>6, <2>1, <2>2 DEF FactoryFails, DataTypes
  <2>4. pc'[a] \in {"recv", "failed"}
    BY <1>0, <1>6 DEF FactoryFails, Goto
  <2>. QED BY <1>0, <1>2, <2>1, <2>3, <2>4 DEF HandInv
<1>7. CASE Register(a)
  <2>1. DataTypes'
    BY <1>7 DEF Register, DataTypes
  <2>2. pc'[a] \in {"enqueue", "end", "flush"} /\ hand' = hand
    BY <1>0, <1>7 DEF Register, Goto
  <2>. QED BY <1>0, <1>2, <2>1, <2>2 DEF HandInv
<1>8. CASE FlushPending(a)
  <2>1. pending \o hand[a] \in Seq(Segments)
    BY <1>0, ConcatSegments
  <2>2. hand' \in [Actors -> Seq(Segments)] /\ \A b \in Actors \ {a} : hand'[b] = hand[b]
    BY <1>0, <1>8, <2>1 DEF FlushPending
  <2>3. 0 <= MaxPending /\ 0 <= MaxFailures
    BY SizeAssumption, FailuresAssumption
  <2>4. DataTypes'
    BY <1>8, <2>2, <2>3, NoSegments DEF FlushPending, DataTypes
  <2>5. pc'[a] = "enqueue"
    BY <1>8, StopMoves DEF FlushPending, Places
  <2>. QED BY <1>0, <1>2, <2>2, <2>4, <2>5 DEF HandInv
<1>. QED BY <1>3, <1>4, <1>5, <1>6, <1>7, <1>8 DEF Create

LEMMA EnqueueDataTypes ==
    ASSUME SharedInv, DataTypes, HandInv, NEW a \in Actors, Enqueue(a)
    PROVE  DataTypes' /\ HandInv'
<1> USE DEF pendingVars, streamVars, workerVars, historyVars, endVars
<1>0. /\ hand \in [Actors -> Seq(Segments)] /\ pc \in [Actors -> Places]
      /\ hand[a] \in Seq(Segments) /\ Consumer \in Actors
    BY DEF DataTypes, SharedInv, PlaceTypes, Actors
<1>1. Only(a)
    BY ActorMoves DEF SharedInv
<1>2. \A b \in Actors \ {a} : pc'[b] \in {"ctx", "send", "fast", "factory", "buffer"} => pc'[b] = pc[b]
    BY <1>1 DEF Only
<1>3. CASE EnqueueCheck(a)
  <2>1. DataTypes'
    BY <1>3 DEF EnqueueCheck, DataTypes
  <2>. QED BY <1>0, <1>2, <1>3, <2>1 DEF EnqueueCheck, HandInv, Goto
<1>4. CASE EnqueueSend(a)
  <2> DEFINE q == queue[to[a]]
  <2>1. /\ hand[a] # <<>> /\ to[a] \in Streams /\ q \in Seq(Segments) /\ Len(q) < Capacity
        /\ queue \in [Streams -> Seq(Segments)] /\ pc'[a] = "enqueue"
    BY <1>0, <1>4 DEF EnqueueSend, HandInv, SharedInv, FlowInv, Holding, PlaceTypes,
                      DataTypes, Goto
  <2>2. Head(hand[a]) \in Segments /\ Tail(hand[a]) \in Seq(Segments)
    BY <1>0, <2>1, TakeHead
  <2>3. Append(q, Head(hand[a])) \in Seq(Segments) /\ Len(Append(q, Head(hand[a]))) = Len(q) + 1
        /\ Len(q) \in Nat
    BY <2>1, <2>2, AppendSegment
  <2>4. hand' \in [Actors -> Seq(Segments)] /\ \A b \in Actors \ {a} : hand'[b] = hand[b]
    BY <1>0, <1>4, <2>2 DEF EnqueueSend
  <2>5. queue' = [queue EXCEPT ![to[a]] = Append(q, Head(hand[a]))]
    BY <1>4 DEF EnqueueSend
  <2>6. queue' \in [Streams -> Seq(Segments)]
    BY <2>1, <2>3, <2>5
  <2>7. Len(Append(q, Head(hand[a]))) <= Capacity
    BY <2>1, <2>3, SizeAssumption
  <2>8. \A h \in Streams : Len(queue'[h]) <= Capacity
    BY <2>1, <2>5, <2>7 DEF DataTypes
  <2>9. overtook' \subseteq Segments
    BY <1>4, <2>2 DEF EnqueueSend, DataTypes
  <2>10. DataTypes'
    BY <1>4, <2>4, <2>6, <2>8, <2>9 DEF EnqueueSend, DataTypes
  <2>. QED BY <1>0, <1>2, <2>1, <2>4, <2>10 DEF HandInv
<1>5. CASE EnqueueClosed(a)
  <2>1. hand[a] # <<>> /\ pc'[a] = "enqueue"
    BY <1>0, <1>5 DEF EnqueueClosed, Goto
  <2>2. Head(hand[a]) \in Segments /\ Tail(hand[a]) \in Seq(Segments)
    BY <1>0, <2>1, TakeHead
  <2>3. hand' \in [Actors -> Seq(Segments)] /\ \A b \in Actors \ {a} : hand'[b] = hand[b]
    BY <1>0, <1>5, <2>2 DEF EnqueueClosed
  <2>4. DataTypes'
    BY <1>5, <2>2, <2>3 DEF EnqueueClosed, DataTypes
  <2>. QED BY <1>0, <1>2, <2>1, <2>3, <2>4 DEF HandInv
<1>6. CASE EnqueueEnd(a)
  <2>1. DataTypes'
    BY <1>6 DEF EnqueueEnd, DataTypes
  <2>2. pc'[a] \in {"recv", "end"} /\ hand' = hand
    BY <1>0, <1>6 DEF EnqueueEnd, Goto, Home
  <2>. QED BY <1>0, <1>2, <2>1, <2>2 DEF HandInv
<1>. QED BY <1>3, <1>4, <1>5, <1>6 DEF Enqueue

\* The pending queue never grows beyond its limit.
LEMMA ItemTypes ==
    ASSUME DataTypes, NEW x \in Segments, NEW at, BufferItem(x, at)
    PROVE  /\ pending' \in Seq(Segments) /\ Len(pending') <= MaxPending
           /\ dropped' \subseteq Segments /\ dropped \subseteq dropped'
<1>0. pending \in Seq(Segments) /\ Len(pending) <= MaxPending /\ Len(pending) \in Nat
    BY AppendSegment DEF DataTypes
<1>1. CASE Len(pending) >= MaxPending
  <2>1. pending # <<>>
    BY <1>0, <1>1, SizeAssumption
  <2>2. Head(pending) \in Segments /\ Tail(pending) \in Seq(Segments)
        /\ Len(Tail(pending)) = Len(pending) - 1
    BY <1>0, <2>1, TakeHead
  <2>3. /\ pending' = Append(Tail(pending), x)
        /\ dropped' = dropped \cup {Head(pending)}
    BY <1>1 DEF BufferItem
  <2>4. pending' \in Seq(Segments) /\ Len(pending') = Len(pending) - 1 + 1
    BY <2>2, <2>3, AppendSegment
  <2>. QED BY <1>0, <2>2, <2>3, <2>4 DEF DataTypes
<1>2. CASE ~(Len(pending) >= MaxPending)
  <2>1. pending' = Append(pending, x) /\ dropped' = dropped
    BY <1>2 DEF BufferItem
  <2>2. pending' \in Seq(Segments) /\ Len(pending') = Len(pending) + 1
    BY <1>0, <2>1, AppendSegment
  <2>. QED BY <1>0, <1>2, <2>1, <2>2, SizeAssumption DEF DataTypes
<1>. QED BY <1>1, <1>2

LEMMA ConsumeDataTypes ==
    ASSUME SharedInv, DataTypes, HandInv, Consume
    PROVE  DataTypes' /\ HandInv'
<1> USE DEF pendingVars, streamVars, workerVars, historyVars, endVars
<1> DEFINE c == Consumer
<1>0. /\ hand \in [Actors -> Seq(Segments)] /\ pc \in [Actors -> Places]
      /\ c \in Actors /\ hand[c] \in Seq(Segments) /\ PlaceTypes /\ OffInv
    BY DEF DataTypes, SharedInv, PlaceTypes, Actors
<1>1. CASE ConsumerRecv
  <2>1. received' \in 0..MaxSegments /\ received' \in Segments
    BY <1>1, BoundAssumption DEF ConsumerRecv, DataTypes, Segments
  <2>2. <<received'>> \in Seq(Segments) /\ <<received'>> # <<>>
    BY <2>1, NoSegments, AppendSegment
  <2>3. /\ hand' = [hand EXCEPT ![c] = <<received'>>]
        /\ \A b \in Actors \ {c} : pc'[b] = pc[b]
    BY <1>0, <1>1 DEF ConsumerRecv, Goto
  <2>4. hand' \in [Actors -> Seq(Segments)] /\ hand'[c] # <<>>
        /\ \A b \in Actors \ {c} : hand'[b] = hand[b]
    BY <1>0, <2>2, <2>3
  <2>5. DataTypes'
    BY <1>1, <2>1, <2>4 DEF ConsumerRecv, DataTypes
  <2>. QED BY <1>0, <2>3, <2>4, <2>5 DEF HandInv
<1>2. CASE BufferPending
  <2>1. hand[c] # <<>>
    BY <1>2 DEF BufferPending, HandInv
  <2>2. Head(hand[c]) \in Segments
    BY <1>0, <2>1, TakeHead
  <2>3. /\ hand' \in [Actors -> Seq(Segments)]
        /\ \A b \in Actors \ {c} : hand'[b] = hand[b]
    BY <1>0, <1>2, NoSegments DEF BufferPending
  <2>4. Only(c) /\ pc'[c] = "recv"
    BY <1>0, <1>2, ScheduleMoves DEF BufferPending, BufferItem, Places
  <2>5. pending' \in Seq(Segments) /\ Len(pending') <= MaxPending /\ dropped' \subseteq Segments
    BY <1>2, <2>2, ItemTypes DEF BufferPending
  <2>6. DataTypes'
    BY <1>2, <2>3, <2>5 DEF BufferPending, DataTypes
  <2>. QED BY <1>0, <2>3, <2>4, <2>6 DEF HandInv, Only
<1>3. CASE ConsumerEnd
  <2>1. DataTypes'
    BY <1>3 DEF ConsumerEnd, DataTypes
  <2>. QED BY <1>0, <1>3, <2>1 DEF ConsumerEnd, HandInv, Goto
<1>. QED BY <1>1, <1>2, <1>3 DEF Consume

LEMMA RetryDataTypes ==
    ASSUME SharedInv, DataTypes, HandInv, NEW t \in Timers, Retry(t)
    PROVE  DataTypes' /\ HandInv'
<1> USE DEF pendingVars, streamVars, workerVars, historyVars, endVars
<1>0. t \in Actors /\ PlaceTypes /\ OffInv /\ Consumer \in Actors /\ t # Consumer
    BY DEF SharedInv, Actors, Timers, Consumer
<1>1. /\ Only(t) /\ pc'[t] \in {"end", "fast"} /\ hand' = hand
      /\ UNCHANGED <<received, queue, done, overtook>>
  <2>1. CASE RetryFires(t)
    BY <1>0, <2>1, GotoMoves DEF RetryFires, Places
  <2>2. CASE RetryAgain(t) /\ pending = <<>>
    BY <1>0, <2>2, GotoMoves DEF RetryAgain, Places
  <2>3. CASE RetryAgain(t) /\ pending # <<>>
    BY <1>0, <2>3, ScheduleMoves DEF RetryAgain, Places
  <2>4. CASE RetryAbandons(t)
    BY <1>0, <2>4, StopMoves DEF RetryAbandons, DeletePending, Places
  <2>5. CASE RetryGoesOn(t) /\ pending = <<>>
    BY <1>0, <2>5, GotoMoves DEF RetryGoesOn, Places
  <2>6. CASE RetryGoesOn(t) /\ pending # <<>>
    BY <1>0, <2>6, ScheduleMoves DEF RetryGoesOn, Places
  <2>. QED BY <2>1, <2>2, <2>3, <2>4, <2>5, <2>6 DEF Retry
<1>2. HandInv'
    BY <1>0, <1>1 DEF HandInv, Only
<1>3. CASE RetryAbandons(t)
  <2>1. dropped' \subseteq Segments
    BY <1>3, ConcatSegments DEF RetryAbandons, DeletePending, DataTypes
  <2>. QED BY <1>1, <1>2, <1>3, <2>1, NoSegments, SizeAssumption, FailuresAssumption
           DEF RetryAbandons, DeletePending, DataTypes
<1>4. CASE RetryFires(t) \/ RetryAgain(t)
    BY <1>1, <1>2, <1>4 DEF RetryFires, RetryAgain, DataTypes
<1>5. CASE RetryGoesOn(t)
  <2>1. failures' \in Nat /\ failures' <= MaxFailures
    BY <1>5, FailuresAssumption DEF RetryGoesOn, DataTypes
  <2>. QED BY <1>1, <1>2, <1>5, <2>1 DEF RetryGoesOn, DataTypes
<1>. QED BY <1>3, <1>4, <1>5 DEF Retry

LEMMA WorkerDataTypes ==
    ASSUME StreamInv, DataTypes, HandInv, NEW h \in Streams, Worker(h)
    PROVE  DataTypes' /\ HandInv'
<1> USE DEF actorVars, pendingVars, streamVars, historyVars, endVars
<1>0. HandInv'
    BY DEF Worker, WorkerTakes, WorkerStops, WorkerExits, WorkerCancels, HandInv
<1>1. CASE WorkerTakes(h)
  <2> DEFINE s == Head(queue[h])
  <2>0. /\ queue \in [Streams -> Seq(Segments)] /\ done \in [Streams -> Seq(Segments)]
        /\ queue[h] \in Seq(Segments) /\ queue[h] # <<>> /\ done[h] \in Seq(Segments)
        /\ \A g \in Streams : Len(queue[g]) <= Capacity
    BY <1>1 DEF WorkerTakes, DataTypes
  <2>1. s \in Segments /\ Tail(queue[h]) \in Seq(Segments)
        /\ Len(Tail(queue[h])) = Len(queue[h]) - 1 /\ Len(queue[h]) \in Nat
    BY <2>0, TakeHead
  <2>2. Append(done[h], s) \in Seq(Segments)
    BY <2>0, <2>1, AppendSegment
  <2>3. done' \in [Streams -> Seq(Segments)]
    BY <1>1, <2>0, <2>2 DEF WorkerTakes
  <2>4. queue' = [queue EXCEPT ![h] = Tail(queue[h])]
    BY <1>1 DEF WorkerTakes
  <2>5. Len(Tail(queue[h])) <= Capacity
    BY <2>0, <2>1, SizeAssumption
  <2>6. queue' \in [Streams -> Seq(Segments)] /\ \A g \in Streams : Len(queue'[g]) <= Capacity
    BY <2>0, <2>1, <2>4, <2>5
  <2>. QED BY <1>0, <1>1, <2>3, <2>6 DEF WorkerTakes, DataTypes
<1>2. CASE WorkerStops(h) \/ WorkerExits(h) \/ WorkerCancels(h)
    BY <1>0, <1>2 DEF WorkerStops, WorkerExits, WorkerCancels, DataTypes
<1>. QED BY <1>1, <1>2 DEF Worker

LEMMA ShutdownDataTypes ==
    ASSUME StreamInv, DataTypes, HandInv, Shutdown
    PROVE  DataTypes' /\ HandInv'
<1> USE DEF actorVars, pendingVars, streamVars, workerVars, historyVars, endVars
<1>1. CASE ShutdownPending
  <2>1. dropped' \subseteq Segments
    BY <1>1, ConcatSegments DEF ShutdownPending, DeletePending, DataTypes
  <2>2. DataTypes'
    BY <1>1, <2>1, NoSegments, SizeAssumption, FailuresAssumption
       DEF ShutdownPending, DeletePending, DataTypes
  <2>3. pc \in [Actors -> Places] /\ pc' = StopTimer(pc) /\ hand' = hand /\ Consumer \in Actors
    BY <1>1 DEF ShutdownPending, DeletePending, StreamInv, SharedInv, PlaceTypes, Actors
  <2>4. \A b \in Actors : pc'[b] \in {pc[b], "end"}
    BY <2>3, StopTimerSpec DEF StreamInv, SharedInv
  <2>. QED BY <2>2, <2>3, <2>4 DEF HandInv
<1>2. CASE ShutdownStart \/ CloseAllStreams \/ ShutdownTimeout
    BY <1>2 DEF ShutdownStart, CloseAllStreams, ShutdownTimeout, DataTypes, HandInv
<1>. QED BY <1>1, <1>2 DEF Shutdown

LEMMA StepDataTypes ==
    ASSUME StreamInv, DataTypes, HandInv, [Next]_vars
    PROVE  DataTypes' /\ HandInv'
<1>1. CASE UNCHANGED vars
    BY <1>1 DEF vars, actorVars, pendingVars, workerVars, historyVars, DataTypes, HandInv
<1>. QED BY <1>1, CreateDataTypes, EnqueueDataTypes, ConsumeDataTypes, RetryDataTypes,
            WorkerDataTypes, ShutdownDataTypes DEF Next, StreamInv, SharedInv

\* Every variable keeps to its type: no buffer grows beyond its bound, and no
\* head of an empty hand is taken.
THEOREM TypeCorrect == Spec => []TypeOK
<1> DEFINE Inv == StreamInv /\ DataTypes /\ HandInv
<1>1. Init => Inv
    BY InitStreamInv, InitDataTypes
<1>2. Inv /\ [Next]_vars => Inv'
    BY NextStreamInv, StepDataTypes
<1>3. Inv /\ StreamPlaces => TypeOK
  <2>1. PlaceTypes => 1..streams \subseteq Streams
    BY BoundAssumption DEF PlaceTypes, Streams
  <2>2. Inv => cancelled \subseteq Streams
    BY <2>1 DEF StreamInv, SharedInv, FlowInv
  <2>. QED BY <2>2, TypesSplit DEF StreamInv, SharedInv
<1>. QED BY <1>1, <1>2, <1>3, InvariantStreamPlaces, PTL DEF Spec

-----------------------------------------------------------------------------
(* Barge-in: barge-ins keep their distance.                                *)

HeardEvent == [stream : Playbacks, final : BOOLEAN]
BargeStages == {"select", "register", "publish"}

\* Stream s was in the middle of its playback by the first n of the events all.
InPlay(all, s, n) ==
  \E i \in 1..n : /\ all[i].stream = s /\ ~all[i].final
                  /\ \A j \in (i + 1)..n : all[j].stream # s

HeardApart(a, b) == a.at - b.at >= Cooldown \/ b.at - a.at >= Cooldown

\* The entry in lastEvent is the time of the latest trigger let through for a stream,
\* so that one that comes later is a cooldown younger than all of them.
Passed(a, last, all) ==
  /\ a.stream \in Playbacks /\ 0 < a.at /\ a.at <= last[a.stream]
  /\ a.after <= Len(all) /\ (a.after # 0 => InPlay(all, a.stream, a.after))

TriggerInv ==
  /\ \A c \in Triggers : stage[c] # "select" =>
       /\ aim[c].stream \in Playbacks /\ 0 < aim[c].at /\ aim[c].after <= Len(heard)
       /\ aim[c].after # 0 => InPlay(heard, aim[c].stream, aim[c].after)
  /\ \A c \in Triggers : stage[c] = "publish" => Passed(aim[c], lastEvent, heard)
  /\ \A c, d \in Triggers : /\ c # d /\ stage[c] = "publish" /\ stage[d] = "publish"
                            /\ aim[c].stream = aim[d].stream
                            => HeardApart(aim[c], aim[d])

BargedInv ==
  /\ \A i \in 1..Len(barged) : Passed(barged[i], lastEvent, heard)
  /\ \A i \in 1..Len(barged), c \in Triggers :
       stage[c] = "publish" /\ barged[i].stream = aim[c].stream => HeardApart(barged[i], aim[c])
  /\ \A i, j \in 1..Len(barged) :
       i # j /\ barged[i].stream = barged[j].stream => HeardApart(barged[i], barged[j])

PlayingInv == \A s \in Playbacks : playing[s] => InPlay(heard, s, Len(heard))

BargeInv == BargeTypeOK /\ TriggerInv /\ BargedInv /\ PlayingInv

LEMMA BargeParts ==
  ASSUME BargeTypeOK
  PROVE  /\ Len(heard) \in Nat /\ Len(barged) \in Nat /\ moment \in Nat /\ MaxTime \in Nat /\ MaxHeard \in Nat
         /\ Cooldown \in Nat /\ QuietPeriod \in Nat
         /\ \A c \in Triggers : /\ aim[c] \in Aim /\ aim[c].at \in Nat /\ aim[c].after \in Nat
                                /\ aim[c].stream \in Playbacks \cup {NoPlayback}
         /\ \A i \in 1..Len(barged) : barged[i] \in Aim /\ barged[i].at \in Nat /\ barged[i].after \in Nat
         /\ \A s \in Playbacks : lastEvent[s] \in Nat
<1>1. /\ Len(heard) \in Nat /\ Len(barged) \in Nat /\ moment \in Nat
      /\ \A i \in 1..Len(barged) : barged[i] \in Aim
  BY BargeAssumption, ElementOfSeq DEF BargeTypeOK, Times
<1>2. \A a \in Aim : a.at \in Nat /\ a.after \in Nat /\ a.stream \in Playbacks \cup {NoPlayback}
  BY BargeAssumption DEF Aim
<1>3. \A c \in Triggers : aim[c] \in Aim
  BY DEF BargeTypeOK
<1>4. \A s \in Playbacks : lastEvent[s] \in Nat
  BY BargeAssumption DEF BargeTypeOK
<1> QED BY <1>1, <1>2, <1>3, <1>4, BargeAssumption

LEMMA BargeInitial == BargeInit => BargeInv
<1> SUFFICES ASSUME BargeInit PROVE BargeInv
  OBVIOUS
<1>1. NoAim \in Aim
  BY BargeAssumption DEF NoAim, Aim
<1>2. /\ moment \in Times
      /\ heardAt \in 0..MaxTime /\ quietUntil \in [Playbacks -> 0..(MaxTime + QuietPeriod)]
      /\ lastEvent \in [Playbacks -> 0..MaxTime] /\ triggers \in [Triggers -> 0..MaxTriggers]
      /\ Len(<<>>) <= MaxHeard
  BY BargeAssumption DEF BargeInit, Times
<1>3. /\ onAir \in Playbacks \cup {NoPlayback} /\ playing \in [Playbacks -> BOOLEAN]
      /\ heard \in Seq(HeardEvent) /\ barged \in Seq(Aim)
      /\ stage \in [Triggers -> BargeStages] /\ aim \in [Triggers -> Aim]
  BY <1>1 DEF BargeInit, BargeStages
<1>4. BargeTypeOK
  BY <1>2, <1>3 DEF BargeInit, BargeTypeOK, HeardEvent, BargeStages
<1>5. TriggerInv /\ BargedInv /\ PlayingInv
  BY DEF BargeInit, TriggerInv, BargedInv, PlayingInv
<1> QED BY <1>4, <1>5 DEF BargeInv

\* What was in play by the first n events stays so when another is handled.
LEMMA HeardKept ==
  ASSUME BargeTypeOK, NEW s \in Playbacks, NEW final \in BOOLEAN, NEW at \in Times,
         HearPlayback(s, final, at)
  PROVE  /\ heard' \in Seq(HeardEvent) /\ Len(heard') = Len(heard) + 1 /\ Len(heard') <= MaxHeard
         /\ heard'[Len(heard) + 1] = [stream |-> s, final |-> final]
         /\ \A i \in 1..Len(heard) : heard'[i] = heard[i]
<1>1. heard \in Seq(HeardEvent) /\ [stream |-> s, final |-> final] \in HeardEvent
  BY DEF BargeTypeOK, HeardEvent
<1>2. Len(heard) \in Nat /\ MaxHeard \in Nat /\ Len(heard) < MaxHeard
      /\ heard' = Append(heard, [stream |-> s, final |-> final])
  BY <1>1, BargeAssumption DEF HearPlayback
<1> QED BY <1>1, <1>2, AppendProperties

LEMMA HearStep ==
  ASSUME BargeInv, NEW s \in Playbacks, NEW final \in BOOLEAN, NEW at \in Times,
         HearPlayback(s, final, at)
  PROVE  BargeInv'
<1> USE DEF BargeInv
<1>1. /\ heard' \in Seq(HeardEvent) /\ Len(heard') = Len(heard) + 1 /\ Len(heard') <= MaxHeard
      /\ heard'[Len(heard) + 1] = [stream |-> s, final |-> final]
      /\ \A i \in 1..Len(heard) : heard'[i] = heard[i]
      /\ Len(heard) \in Nat
  BY HeardKept, BargeParts
<1>2. /\ UNCHANGED <<moment, lastEvent, triggers, stage, aim, barged>>
      /\ heardAt' = at /\ playing' = [playing EXCEPT ![s] = ~final]
      /\ quietUntil' = [quietUntil EXCEPT ![s] = IF final THEN at + QuietPeriod ELSE 0]
  BY DEF HearPlayback, triggerVars
<1>3. BargeTypeOK'
  <2>1. /\ at \in Nat /\ at <= MaxTime /\ MaxTime \in Nat /\ QuietPeriod \in Nat
    BY BargeAssumption DEF Times
  <2>2. quietUntil' \in [Playbacks -> 0..(MaxTime + QuietPeriod)] /\ heardAt' \in 0..MaxTime
    BY <1>2, <2>1 DEF BargeTypeOK
  <2>3. playing' \in [Playbacks -> BOOLEAN]
    BY <1>2 DEF BargeTypeOK
  <2>4. onAir' \in Playbacks \cup {NoPlayback}
    BY DEF HearPlayback, BargeTypeOK
  <2> QED BY <1>1, <1>2, <2>2, <2>3, <2>4 DEF BargeTypeOK, HeardEvent
<1>4. ASSUME NEW t, NEW n \in Nat, n <= Len(heard), InPlay(heard, t, n)
      PROVE  InPlay(heard', t, n)
  <2>1. PICK i \in 1..n : /\ heard[i].stream = t /\ ~heard[i].final
                          /\ \A j \in (i + 1)..n : heard[j].stream # t
    BY <1>4 DEF InPlay
  <2>2. \A j \in 1..n : heard'[j] = heard[j]
    BY <1>1, <1>4
  <2>3. \A j \in (i + 1)..n : j \in 1..n
    BY <1>4
  <2> QED BY <2>1, <2>2, <2>3 DEF InPlay
<1>5. ASSUME NEW a \in Aim, Passed(a, lastEvent, heard) PROVE Passed(a, lastEvent', heard')
  <2>1. a.after \in Nat
    BY <1>5, BargeAssumption DEF Aim
  <2> QED BY <1>1, <1>2, <1>4, <1>5, <2>1 DEF Passed
<1>6. TriggerInv'
  <2>1. \A c \in Triggers : stage[c] # "select" =>
          /\ aim[c].stream \in Playbacks /\ 0 < aim[c].at /\ aim[c].after <= Len(heard')
          /\ aim[c].after # 0 => InPlay(heard', aim[c].stream, aim[c].after)
    <3> SUFFICES ASSUME NEW c \in Triggers, stage[c] # "select"
                 PROVE  /\ aim[c].stream \in Playbacks /\ 0 < aim[c].at /\ aim[c].after <= Len(heard')
                        /\ aim[c].after # 0 => InPlay(heard', aim[c].stream, aim[c].after)
      OBVIOUS
    <3>1. /\ aim[c].stream \in Playbacks /\ 0 < aim[c].at /\ aim[c].after <= Len(heard)
          /\ aim[c].after # 0 => InPlay(heard, aim[c].stream, aim[c].after)
          /\ aim[c].after \in Nat
      BY BargeParts DEF TriggerInv
    <3>2. aim[c].after # 0 => InPlay(heard', aim[c].stream, aim[c].after)
      BY <1>4, <3>1
    <3> QED BY <1>1, <3>1, <3>2
  <2>2. \A c \in Triggers : stage[c] = "publish" => Passed(aim[c], lastEvent', heard')
    BY <1>2, <1>5, BargeParts DEF TriggerInv
  <2> QED BY <1>2, <2>1, <2>2 DEF TriggerInv, HeardApart
<1>7. BargedInv'
  <2>1. \A i \in 1..Len(barged) : Passed(barged[i], lastEvent', heard')
    BY <1>5, BargeParts DEF BargedInv
  <2> QED BY <1>2, <2>1 DEF BargedInv, HeardApart
<1>8. PlayingInv'
  <2> SUFFICES ASSUME NEW t \in Playbacks, playing'[t]
               PROVE  \E i \in 1..Len(heard') : /\ heard'[i].stream = t /\ ~heard'[i].final
                                               /\ \A j \in (i + 1)..Len(heard') : heard'[j].stream # t
    BY DEF PlayingInv, InPlay
  <2> DEFINE m == Len(heard) + 1
  <2>1. CASE t = s
    <3>1. ~final
      BY <1>2, <2>1 DEF BargeTypeOK
    <3>2. m \in 1..Len(heard') /\ heard'[m].stream = t /\ ~heard'[m].final /\ (m + 1)..Len(heard') = {}
      BY <1>1, <2>1, <3>1
    <3> QED BY <3>2
  <2>2. CASE t # s
    <3>1. playing[t]
      BY <1>2, <2>2 DEF BargeTypeOK
    <3>2. PICK i \in 1..Len(heard) : /\ heard'[i].stream = t /\ ~heard'[i].final
                                     /\ \A j \in (i + 1)..Len(heard) : heard'[j].stream # t
      BY <1>1, <1>4, <3>1 DEF PlayingInv, InPlay
    <3>3. heard'[m].stream # t
      BY <1>1, <2>2
    <3>4. \A j \in (i + 1)..Len(heard') : j = m \/ j \in (i + 1)..Len(heard)
      BY <1>1
    <3>5. i \in 1..Len(heard')
      BY <1>1
    <3> QED BY <3>2, <3>3, <3>4, <3>5
  <2> QED BY <2>1, <2>2
<1> QED BY <1>3, <1>6, <1>7, <1>8

LEMMA AimStep ==
  ASSUME BargeInv, NEW c \in Triggers, NEW at \in Times,
         NEW s \in Playbacks, NEW after \in {0, Len(heard)}, after # 0 => playing[s],
         stage[c] = "select", stage' = [stage EXCEPT ![c] = "register"],
         aim' = [aim EXCEPT ![c] = [stream |-> s, at |-> at, after |-> after]],
         triggers' \in [Triggers -> 0..MaxTriggers], onAir' \in Playbacks \cup {NoPlayback},
         UNCHANGED <<moment, playVars, lastEvent, barged>>
  PROVE  BargeInv'
<1> USE DEF BargeInv, playVars
<1>1. /\ Len(heard) \in Nat /\ Len(heard) <= MaxHeard /\ at \in Nat /\ 0 < at /\ at <= MaxTime
      /\ MaxHeard \in Nat /\ MaxTime \in Nat
  <2>1. Len(heard) \in Nat /\ Len(heard) <= MaxHeard
    BY DEF BargeTypeOK
  <2> QED BY <2>1, BargeAssumption DEF Times
<1>2. [stream |-> s, at |-> at, after |-> after] \in Aim
  BY <1>1 DEF Aim
<1>3. /\ aim' \in [Triggers -> Aim] /\ stage' \in [Triggers -> BargeStages]
      /\ aim'[c] = [stream |-> s, at |-> at, after |-> after] /\ stage'[c] = "register"
      /\ \A d \in Triggers \ {c} : aim'[d] = aim[d] /\ stage'[d] = stage[d]
  BY <1>2 DEF BargeTypeOK, BargeStages
<1>4. BargeTypeOK'
  BY <1>3 DEF BargeTypeOK, BargeStages
<1>5. after # 0 => InPlay(heard, s, after)
  BY DEF PlayingInv
<1>6. TriggerInv'
  <2>1. \A d \in Triggers : stage'[d] # "select" =>
          /\ aim'[d].stream \in Playbacks /\ 0 < aim'[d].at /\ aim'[d].after <= Len(heard)
          /\ aim'[d].after # 0 => InPlay(heard, aim'[d].stream, aim'[d].after)
    BY <1>1, <1>3, <1>5 DEF TriggerInv
  <2>2. \A d \in Triggers : stage'[d] = "publish" => stage[d] = "publish" /\ aim'[d] = aim[d]
    BY <1>3
  <2>3. \A d \in Triggers : stage'[d] = "publish" => Passed(aim'[d], lastEvent, heard)
    BY <2>2 DEF TriggerInv
  <2> QED BY <2>1, <2>2, <2>3 DEF TriggerInv, Passed, InPlay
<1>7. BargedInv' /\ PlayingInv'
  BY <1>3 DEF BargedInv, PlayingInv, Passed, InPlay
<1> QED BY <1>4, <1>6, <1>7

LEMMA LookStep ==
  ASSUME BargeInv, NEW c \in Triggers, NEW at \in Times, LookForStream(c, at)
  PROVE  BargeInv'
<1>1. /\ stage[c] = "select" /\ UNCHANGED <<moment, playVars, lastEvent, barged>>
  BY DEF LookForStream
<1>2. triggers' \in [Triggers -> 0..MaxTriggers]
  BY BargeAssumption DEF LookForStream, BargeInv, BargeTypeOK
<1>3. PICK s \in Found(at) :
          /\ onAir' = IF s = NoPlayback THEN onAir ELSE s
          /\ IF s = NoPlayback
                THEN UNCHANGED <<stage, aim>>
                ELSE /\ stage' = [stage EXCEPT ![c] = "register"]
                     /\ aim' = [aim EXCEPT ![c] = [stream |-> s, at |-> at, after |-> Len(heard)]]
  BY DEF LookForStream
<1>4. s # NoPlayback => s \in Playbacks /\ playing[s]
  BY DEF Found, BargeInv, BargeTypeOK
<1>5. CASE s = NoPlayback
  <2>1. UNCHANGED <<moment, playVars, onAir, lastEvent, stage, aim, barged>>
    BY <1>1, <1>3, <1>5
  <2>2. BargeTypeOK'
    BY <1>2, <2>1 DEF BargeInv, BargeTypeOK, playVars
  <2> QED BY <2>1, <2>2 DEF BargeInv, TriggerInv, BargedInv, PlayingInv, Passed, InPlay, playVars, HeardApart
<1>6. CASE s # NoPlayback
  <2>1. onAir' \in Playbacks \cup {NoPlayback}
    BY <1>3, <1>4, <1>6
  <2> QED BY <1>1, <1>2, <1>3, <1>4, <1>6, <2>1, AimStep
<1> QED BY <1>5, <1>6

LEMMA NameStep ==
  ASSUME BargeInv, NEW s \in Playbacks, NEW at \in Times, NameStream(s, at)
  PROVE  BargeInv'
<1>1. triggers' \in [Triggers -> 0..MaxTriggers] /\ onAir' \in Playbacks \cup {NoPlayback}
  BY BargeAssumption DEF NameStream, BargeInv, BargeTypeOK, Triggers
<1>2. "client" \in Triggers
  BY DEF Triggers
<1> QED BY <1>1, <1>2, AimStep DEF NameStream

LEMMA TriggerStep ==
  ASSUME BargeInv, NEW c \in Triggers, RegisterTrigger(c)
  PROVE  BargeInv'
<1> USE DEF BargeInv
<1> DEFINE s == aim[c].stream
           at == aim[c].at
<1>1. /\ stage[c] = "register" /\ UNCHANGED <<moment, playVars, onAir, triggers, barged>>
      /\ s \in Playbacks /\ 0 < at /\ aim[c].after <= Len(heard)
      /\ aim[c].after # 0 => InPlay(heard, s, aim[c].after)
  BY DEF RegisterTrigger, TriggerInv
<1>2. /\ at \in Nat /\ Cooldown \in Nat /\ aim[c] \in Aim
      /\ \A t \in Playbacks : lastEvent[t] \in Nat
  BY BargeParts
<1>3. CASE Suppressed(s, at)
  <2>1. /\ stage' = [stage EXCEPT ![c] = "select"] /\ aim' = [aim EXCEPT ![c] = NoAim] /\ lastEvent' = lastEvent
    BY <1>3 DEF RegisterTrigger
  <2>2. NoAim \in Aim
    BY BargeAssumption DEF NoAim, Aim
  <2>3. /\ stage'[c] = "select" /\ stage' \in [Triggers -> BargeStages] /\ aim' \in [Triggers -> Aim]
        /\ \A d \in Triggers \ {c} : stage'[d] = stage[d] /\ aim'[d] = aim[d]
    BY <2>1, <2>2 DEF BargeTypeOK, BargeStages
  <2>4. BargeTypeOK'
    BY <1>1, <2>1, <2>3 DEF BargeTypeOK, BargeStages, playVars
  <2>5. \A d \in Triggers : stage'[d] # "select" => stage'[d] = stage[d] /\ aim'[d] = aim[d]
    BY <2>3
  <2>6. TriggerInv' /\ BargedInv' /\ PlayingInv'
    BY <1>1, <2>1, <2>5 DEF TriggerInv, BargedInv, PlayingInv, Passed, InPlay, HeardApart, playVars
  <2> QED BY <2>4, <2>6
<1>4. CASE ~Suppressed(s, at)
  <2>1. /\ stage' = [stage EXCEPT ![c] = "publish"] /\ aim' = aim /\ lastEvent' = [lastEvent EXCEPT ![s] = at]
        /\ UNCHANGED <<moment, heard, heardAt, playing, quietUntil, onAir, triggers, barged>>
        /\ lastEvent[s] = 0 \/ at - lastEvent[s] >= Cooldown
    <3>1. lastEvent[s] = 0 \/ ~(at - lastEvent[s] < Cooldown)
      BY <1>4 DEF Suppressed
    <3> QED BY <1>1, <1>2, <1>4, <3>1 DEF RegisterTrigger, playVars
  <2>2. /\ stage'[c] = "publish" /\ stage' \in [Triggers -> BargeStages]
        /\ \A d \in Triggers \ {c} : stage'[d] = stage[d]
    BY <2>1 DEF BargeTypeOK, BargeStages
  <2>3. /\ lastEvent' \in [Playbacks -> 0..MaxTime] /\ lastEvent'[s] = at
        /\ \A t \in Playbacks \ {s} : lastEvent'[t] = lastEvent[t]
    <3>1. at \in 0..MaxTime
      BY <1>2 DEF Aim
    <3> QED BY <1>1, <2>1, <3>1 DEF BargeTypeOK
  <2>4. BargeTypeOK'
    BY <2>1, <2>2, <2>3 DEF BargeTypeOK, BargeStages
  <2>5. ASSUME NEW a \in Aim, Passed(a, lastEvent, heard) PROVE Passed(a, lastEvent', heard') /\ (a.stream = s => HeardApart(a, aim[c]))
    <3>1. a.at \in Nat
      BY <2>5, BargeAssumption DEF Aim
    <3>2. /\ a.stream \in Playbacks /\ 0 < a.at /\ a.at <= lastEvent[a.stream]
          /\ a.after <= Len(heard) /\ (a.after # 0 => InPlay(heard, a.stream, a.after))
      BY <2>5 DEF Passed
    <3>3. CASE a.stream = s
      <4>1. at - a.at >= Cooldown
        BY <1>1, <1>2, <2>1, <3>1, <3>2, <3>3
      <4>2. a.at <= at
        BY <1>2, <3>1, <4>1
      <4> QED BY <2>1, <2>3, <3>2, <3>3, <4>1, <4>2 DEF Passed, HeardApart, InPlay
    <3>4. CASE a.stream # s
      BY <2>1, <2>3, <3>2, <3>4 DEF Passed, InPlay
    <3> QED BY <3>3, <3>4
  <2>6. Passed(aim[c], lastEvent', heard')
    BY <1>1, <1>2, <2>1, <2>3 DEF Passed, InPlay
  <2>7. TriggerInv'
    <3>1. \A d \in Triggers : stage'[d] # "select" =>
            /\ aim'[d].stream \in Playbacks /\ 0 < aim'[d].at /\ aim'[d].after <= Len(heard')
            /\ aim'[d].after # 0 => InPlay(heard', aim'[d].stream, aim'[d].after)
      BY <1>1, <2>1, <2>2 DEF TriggerInv, InPlay
    <3>2. \A d \in Triggers \ {c} : stage'[d] = "publish" =>
            aim[d] \in Aim /\ Passed(aim[d], lastEvent, heard) /\ Passed(aim[d], lastEvent', heard')
      BY <2>2, <2>5, BargeParts DEF TriggerInv
    <3>3. \A d \in Triggers \ {c} : stage'[d] = "publish" /\ aim[d].stream = s => HeardApart(aim[d], aim[c])
      BY <2>5, <3>2
    <3>4. \A d \in Triggers : stage'[d] = "publish" => Passed(aim'[d], lastEvent', heard')
      BY <2>1, <2>6, <3>2
    <3>5. ASSUME NEW d \in Triggers, NEW e \in Triggers, d # e, stage'[d] = "publish", stage'[e] = "publish",
                 aim[d].stream = aim[e].stream
          PROVE  HeardApart(aim[d], aim[e])
      BY <2>2, <3>3, <3>5 DEF TriggerInv, HeardApart
    <3> QED BY <2>1, <3>1, <3>4, <3>5 DEF TriggerInv, HeardApart
  <2>8. BargedInv'
    <3>1. \A i \in 1..Len(barged) : /\ Passed(barged[i], lastEvent', heard')
                                    /\ barged[i].stream = s => HeardApart(barged[i], aim[c])
      BY <2>5, BargeParts DEF BargedInv
    <3>2. ASSUME NEW i \in 1..Len(barged), NEW d \in Triggers, stage'[d] = "publish",
                 barged[i].stream = aim[d].stream
          PROVE  HeardApart(barged[i], aim[d])
      BY <2>2, <3>1, <3>2 DEF BargedInv
    <3> QED BY <2>1, <3>1, <3>2 DEF BargedInv, HeardApart
  <2>9. PlayingInv'
    BY <2>1 DEF PlayingInv, InPlay
  <2> QED BY <2>4, <2>7, <2>8, <2>9
<1> QED BY <1>3, <1>4

LEMMA PublishStep ==
  ASSUME BargeInv, NEW c \in Triggers, PublishBargeIn(c)
  PROVE  BargeInv'
<1> USE DEF BargeInv
<1>1. /\ stage[c] = "publish" /\ barged' = Append(barged, aim[c])
      /\ stage' = [stage EXCEPT ![c] = "select"] /\ aim' = [aim EXCEPT ![c] = NoAim]
      /\ UNCHANGED <<moment, heard, heardAt, playing, quietUntil, onAir, lastEvent, triggers>>
  BY DEF PublishBargeIn, playVars
<1>2. /\ aim[c] \in Aim /\ barged \in Seq(Aim) /\ Len(barged) \in Nat
  BY BargeParts DEF BargeTypeOK
<1>3. /\ barged' \in Seq(Aim) /\ Len(barged') = Len(barged) + 1 /\ barged'[Len(barged) + 1] = aim[c]
      /\ \A i \in 1..Len(barged) : barged'[i] = barged[i]
  BY <1>1, <1>2, AppendProperties
<1>4. NoAim \in Aim
  BY BargeAssumption DEF NoAim, Aim
<1>5. /\ stage'[c] = "select" /\ stage' \in [Triggers -> BargeStages] /\ aim' \in [Triggers -> Aim]
      /\ \A d \in Triggers \ {c} : stage'[d] = stage[d] /\ aim'[d] = aim[d]
  BY <1>1, <1>4 DEF BargeTypeOK, BargeStages
<1>6. BargeTypeOK'
  BY <1>1, <1>3, <1>5 DEF BargeTypeOK, BargeStages
<1>7. \A d \in Triggers : stage'[d] # "select" => d # c /\ stage'[d] = stage[d] /\ aim'[d] = aim[d]
  BY <1>5
<1>8. TriggerInv' /\ PlayingInv'
  BY <1>1, <1>7 DEF TriggerInv, PlayingInv, Passed, InPlay, HeardApart
<1>9. \A i \in 1..Len(barged') : i = Len(barged) + 1 \/ i \in 1..Len(barged)
  BY <1>2, <1>3
<1>10. BargedInv'
  <2>1. \A i \in 1..Len(barged') : Passed(barged'[i], lastEvent, heard)
    BY <1>1, <1>3, <1>9 DEF BargedInv, TriggerInv
  <2>2. ASSUME NEW i \in 1..Len(barged'), NEW d \in Triggers, stage'[d] = "publish",
               barged'[i].stream = aim'[d].stream
        PROVE  HeardApart(barged'[i], aim'[d])
    <3>1. d # c /\ stage[d] = "publish" /\ aim'[d] = aim[d]
      BY <1>7, <2>2
    <3>2. CASE i \in 1..Len(barged)
      BY <1>3, <2>2, <3>1, <3>2 DEF BargedInv
    <3>3. CASE i = Len(barged) + 1
      BY <1>1, <1>3, <2>2, <3>1, <3>3 DEF TriggerInv
    <3> QED BY <1>9, <3>2, <3>3
  <2>3. ASSUME NEW i \in 1..Len(barged'), NEW j \in 1..Len(barged'), i # j, barged'[i].stream = barged'[j].stream
        PROVE  HeardApart(barged'[i], barged'[j])
    <3>1. CASE i \in 1..Len(barged) /\ j \in 1..Len(barged)
      BY <1>3, <2>3, <3>1 DEF BargedInv
    <3>2. CASE i \in 1..Len(barged) /\ j = Len(barged) + 1
      BY <1>1, <1>3, <2>3, <3>2 DEF BargedInv
    <3>3. CASE j \in 1..Len(barged) /\ i = Len(barged) + 1
      BY <1>1, <1>3, <2>3, <3>3 DEF BargedInv, HeardApart
    <3> QED BY <1>9, <2>3, <3>1, <3>2, <3>3
  <2>4. (\A i \in 1..Len(barged) : Passed(barged[i], lastEvent, heard))'
    BY <1>1, <2>1 DEF Passed, InPlay
  <2>5. (\A i \in 1..Len(barged), d \in Triggers :
           stage[d] = "publish" /\ barged[i].stream = aim[d].stream => HeardApart(barged[i], aim[d]))'
    BY <2>2 DEF HeardApart
  <2>6. (\A i, j \in 1..Len(barged) :
           i # j /\ barged[i].stream = barged[j].stream => HeardApart(barged[i], barged[j]))'
    BY <2>3 DEF HeardApart
  <2> QED BY <2>4, <2>5, <2>6 DEF BargedInv
<1> QED BY <1>6, <1>8, <1>10

LEMMA BargeStep == BargeInv /\ [BargeNext]_bargeVars => BargeInv'
<1> SUFFICES ASSUME BargeInv, [BargeNext]_bargeVars PROVE BargeInv'
  OBVIOUS
<1>1. ASSUME UNCHANGED <<playVars, onAir, lastEvent, triggerVars, barged>>, moment' \in Times
      PROVE  BargeInv'
  <2>1. BargeTypeOK'
    BY <1>1 DEF BargeInv, BargeTypeOK, playVars, triggerVars
  <2> QED BY <1>1, <2>1 DEF BargeInv, TriggerInv, BargedInv, PlayingInv, Passed, InPlay, HeardApart, playVars,
                            triggerVars
<1>2. CASE Advance
  <2>1. moment' \in Times
    BY <1>2, BargeAssumption DEF Advance, BargeInv, BargeTypeOK, Times
  <2> QED BY <1>1, <1>2, <2>1 DEF Advance
<1>3. CASE UNCHANGED bargeVars
  BY <1>1, <1>3 DEF bargeVars, BargeInv, BargeTypeOK
<1>4. CASE \E s \in Playbacks, final \in BOOLEAN, at \in Times : HearPlayback(s, final, at)
  BY <1>4, HearStep
<1>5. CASE \E c \in Triggers : (\E at \in Times : LookForStream(c, at)) \/ RegisterTrigger(c) \/ PublishBargeIn(c)
  BY <1>5, LookStep, TriggerStep, PublishStep
<1>6. CASE \E s \in Playbacks, at \in Times : NameStream(s, at)
  BY <1>6, NameStep
<1> QED BY <1>2, <1>3, <1>4, <1>5, <1>6 DEF BargeNext

\* BargeSpec keeps BargesFit, for any playbacks, cooldown and quiet period: two
\* barge-ins on one playback are a cooldown apart, however late the consumers saw
\* their events, and a playback that was looked up was in the middle.
THEOREM BargesFitPlaybacks == BargeSpec => []BargesFit
<1>1. BargeInv => BargesFit
  <2> SUFFICES ASSUME BargeInv PROVE BargesFit
    OBVIOUS
  <2>1. BargedApart
    BY DEF BargeInv, BargedInv, HeardApart, BargedApart
  <2>2. ASSUME NEW i \in 1..Len(barged), barged[i].after # 0
        PROVE  \E e \in LastHeard(barged[i].stream, barged[i].after) : ~e.final
    <3>1. InPlay(heard, barged[i].stream, barged[i].after)
      BY <2>2 DEF BargeInv, BargedInv, Passed
    <3> QED BY <3>1 DEF InPlay, LastHeard
  <2> QED BY <2>1, <2>2 DEF BargesFit, TargetsHeard
<1> QED BY <1>1, BargeInitial, BargeStep, PTL DEF BargeSpec

\* The coordinator's variables have their types.
THEOREM BargeTypeCorrect == BargeSpec => []BargeTypeOK
BY BargeInitial, BargeStep, PTL DEF BargeSpec, BargeInv

-----------------------------------------------------------------------------
(* Ingress: a stream is published whole.                                   *)

IngressData ==
  /\ openings \in Nat /\ openings <= MaxOpens /\ table \in Nat /\ table <= openings
  /\ ended \in [AudioStreams -> BOOLEAN] /\ lastSent \in [AudioStreams -> BOOLEAN]
  /\ rest \in [AudioStreams -> Nat] /\ accepted \in [AudioStreams -> Nat]
  /\ segments \in [AudioStreams -> Seq(Segment)]
  /\ ending \in [Endings -> {"find", "flush", "remove", "end"}]
  /\ chosen \in [Endings -> Nat]

\* A stream that has not been opened is as it was at first, and one that has not been
\* ended has sent no last segment.
UnopenedInv ==
  /\ \A s \in AudioStreams \ Opened : /\ ~ended[s] /\ segments[s] = <<>>
                                      /\ rest[s] = 0 /\ accepted[s] = 0
  /\ \A s \in AudioStreams : ~ended[s] => ~lastSent[s]

\* Who is between closing a stream and removing it holds its lock, and the table has
\* that stream until it is removed: it removes no other.
EndingInv ==
  /\ \A e \in Endings : ending[e] \in {"flush", "remove"} => chosen[e] \in Opened
  /\ \A e \in Endings : ending[e] = "remove" =>
       locked[chosen[e]] = e /\ table = chosen[e] /\ ended[chosen[e]]
  /\ locked \in [AudioStreams -> Endings \cup {"none"}]
  /\ "none" \notin Endings

IngressInv == IngressData /\ UnopenedInv /\ EndingInv /\ SegmentsWhole /\ OpenIsFound

LEMMA OpenedStreams == IngressData => Opened \subseteq AudioStreams
BY IngressAssumption DEF IngressData, Opened, AudioStreams

LEMMA Divide ==
  ASSUME NEW a \in Nat, NEW b \in Nat \ {0}
  PROVE  /\ a \div b \in Nat /\ a % b \in Nat /\ a % b < b
         /\ a = b * (a \div b) + (a % b)
<1>1. a \div b \in Nat
  BY SMT
<1>2. a % b \in Nat /\ a % b < b
  BY SMT
<1>3. a = b * (a \div b) + (a % b)
  BY SMT
<1> QED BY <1>1, <1>2, <1>3

LEMMA Spread ==
  ASSUME NEW a \in Nat, NEW b \in Nat, NEW c \in Nat
  PROVE  /\ a * b \in Nat /\ a * c \in Nat
         /\ a * (b + c) = a * b + a * c
BY SMT

\* Segment i of a stream, if it is a full one that is not the last.
FullSegment(i) == [seq |-> i, length |-> SegSize, first |-> (i = 1), last |-> FALSE]

\* The whole segments of a write come after those that were sent.
LEMMA WholeSegments ==
  ASSUME NEW sent \in Seq(Segment), NEW n \in Nat
  PROVE  /\ Whole(sent, n) \in Seq(Segment) /\ Len(Whole(sent, n)) = Len(sent) + n
         /\ \A i \in 1..(Len(sent) + n) :
              Whole(sent, n)[i] = IF i <= Len(sent) THEN sent[i] ELSE FullSegment(i)
<1> DEFINE m == Len(sent) + n
           w == Whole(sent, n)
<1>1. Len(sent) \in Nat /\ m \in Nat
  OBVIOUS
<1>2. ASSUME NEW i \in 1..m PROVE FullSegment(i) \in Segment
  BY <1>1, IngressAssumption DEF Segment, FullSegment
<1>3. \A i \in 1..m : i <= Len(sent) => sent[i] \in Segment
  BY <1>1, ElementOfSeq
<1>4. w = [i \in 1..m |-> IF i <= Len(sent) THEN sent[i] ELSE FullSegment(i)]
  BY DEF Whole, FullSegment
<1>5. w \in [1..m -> Segment]
  BY <1>2, <1>3, <1>4
<1>6. w \in Seq(Segment) /\ Len(w) = m
  BY <1>1, <1>5
<1> QED BY <1>1, <1>4, <1>6

LEMMA FullMark ==
  ASSUME NEW i \in Nat, NEW n \in Nat, i <= n PROVE Marked(FullSegment(i), i, n)
<1>1. ~(i > n)
  OBVIOUS
<1> QED BY <1>1 DEF Marked, FullSegment

LEMMA KeptMark ==
  ASSUME NEW i \in Nat, NEW n \in Nat, NEW m \in Nat, i <= n, n <= m, NEW x, Marked(x, i, n)
  PROVE  Marked(x, i, m)
<1>1. ~(i > n) /\ ~(i > m)
  OBVIOUS
<1> QED BY <1>1 DEF Marked

LEMMA WritePublishes ==
  ASSUME NEW sent \in Seq(Segment), NEW taken \in Nat, NEW left \in Nat, NEW length \in Nat,
         Published(sent, FALSE, taken, left)
  PROVE  Published(Whole(sent, (left + length) \div SegSize), FALSE, taken + length, (left + length) % SegSize)
<1> DEFINE all == left + length
<1>1. /\ SegSize \in Nat \ {0} /\ all \in Nat
  BY IngressAssumption
<1>2. PICK q \in Nat, r \in Nat : all \div SegSize = q /\ all % SegSize = r /\ r < SegSize /\ all = SegSize * q + r
  BY <1>1, Divide
<1>3. PICK n \in Nat, m \in Nat : Len(sent) = n /\ m = n + q /\ n <= m
  BY <1>2
<1>4. PICK w \in Seq(Segment) :
         /\ w = Whole(sent, q) /\ Len(w) = m
         /\ \A i \in 1..m : w[i] = IF i <= n THEN sent[i] ELSE FullSegment(i)
  <2> DEFINE x == Whole(sent, q)
  <2>1. /\ x \in Seq(Segment) /\ Len(x) = Len(sent) + q
        /\ \A i \in 1..(Len(sent) + q) : x[i] = IF i <= Len(sent) THEN sent[i] ELSE FullSegment(i)
    BY WholeSegments
  <2>2. Len(x) = m /\ \A i \in 1..m : x[i] = IF i <= n THEN sent[i] ELSE FullSegment(i)
    BY <1>3, <2>1
  <2> QED BY <2>1, <2>2
<1>5. /\ \A i \in 1..n : Marked(sent[i], i, n)
      /\ taken = SegSize * n + left
  BY <1>3 DEF Published
<1>6. ASSUME NEW i \in 1..m PROVE Marked(w[i], i, m)
  <2>1. CASE i <= n
    BY <1>4, <1>5, <2>1, KeptMark, <1>3
  <2>2. CASE ~(i <= n)
    <3>1. w[i] = FullSegment(i)
      BY <1>4, <2>2
    <3> QED BY <3>1, FullMark, <1>3
  <2> QED BY <2>1, <2>2
<1>7. taken + length = SegSize * m + r
  <2>1. PICK x \in Nat, y \in Nat : x = SegSize * n /\ y = SegSize * q
    BY <1>1, Spread
  <2>2. SegSize * m = x + y
    BY <1>1, <1>3, <2>1, Spread
  <2>3. taken = x + left /\ left + length = y + r
    BY <1>2, <1>5, <2>1
  <2>4. ASSUME NEW u \in Nat, NEW v \in Nat, taken = u + left, left + length = v + r
        PROVE  taken + length = (u + v) + r
    BY <2>4
  <2>5. taken + length = (x + y) + r
    BY <2>3, <2>4
  <2> QED BY <2>2, <2>5
<1>8. m >= 0
  OBVIOUS
<1>9. Published(w, FALSE, taken + length, r)
  BY <1>2, <1>4, <1>6, <1>7, <1>8 DEF Published
<1> QED BY <1>2, <1>4, <1>9

LEMMA ClosePublishes ==
  ASSUME NEW sent \in Seq(Segment), NEW taken \in Nat, NEW left \in Nat,
         Published(sent, FALSE, taken, left)
  PROVE  LET all == Append(sent, NextSegment(sent, left, TRUE)) IN
         /\ all \in Seq(Segment)
         /\ Published(all, TRUE, taken, 0)
<1>1. PICK n \in Nat : Len(sent) = n
  OBVIOUS
<1>2. /\ \A i \in 1..n : Marked(sent[i], i, n)
      /\ taken = SegSize * n + left /\ left < SegSize
  BY <1>1 DEF Published
<1>3. PICK last \in Segment : last = NextSegment(sent, left, TRUE) /\ last.length = left /\ Marked(last, n + 1, n)
  <2>1. sent = <<>> <=> n + 1 = 1
    BY <1>1, EmptySeq
  <2>2. n + 1 > n /\ n + 1 \in Nat
    OBVIOUS
  <2>3. NextSegment(sent, left, TRUE) \in Segment
    BY <1>1, <2>2 DEF NextSegment, Segment
  <2> DEFINE x == NextSegment(sent, left, TRUE)
  <2>4. x.seq = n + 1 /\ x.length = left /\ x.last /\ (x.first <=> sent = <<>>)
    BY <1>1 DEF NextSegment
  <2> HIDE DEF x
  <2>5. Marked(x, n + 1, n)
    BY <1>2, <2>1, <2>2, <2>4 DEF Marked
  <2> QED BY <2>3, <2>4, <2>5 DEF x
<1>4. PICK all \in Seq(Segment) : /\ all = Append(sent, last) /\ Len(all) = n + 1 /\ all[n + 1] = last
                                  /\ \A i \in 1..n : all[i] = sent[i]
  <2>1. /\ Append(sent, last) \in Seq(Segment) /\ Len(Append(sent, last)) = Len(sent) + 1
        /\ \A i \in 1..Len(sent) : Append(sent, last)[i] = sent[i]
        /\ Append(sent, last)[Len(sent) + 1] = last
    BY AppendProperties
  <2> QED BY <1>1, <2>1
<1>5. ASSUME NEW i \in 1..(n + 1) PROVE Marked(all[i], i, n)
  <2>1. CASE i = n + 1
    BY <1>3, <1>4, <2>1
  <2>2. CASE i \in 1..n
    BY <1>2, <1>4, <2>2
  <2> QED BY <2>1, <2>2
<1>6. (n + 1) - 1 = n /\ n >= 0
  OBVIOUS
<1>7. Published(all, TRUE, taken, 0)
  BY <1>2, <1>3, <1>4, <1>5, <1>6 DEF Published
<1> QED BY <1>3, <1>4, <1>7

LEMMA IngressInitial == IngressInit => IngressInv
<1> SUFFICES ASSUME IngressInit PROVE IngressInv
  OBVIOUS
<1>1. Opened = {}
  BY DEF IngressInit, Opened
<1>2. /\ <<>> \in Seq(Segment) /\ 0 <= MaxOpens /\ 0 <= 0
  BY IngressAssumption
<1>3. IngressData
  <2>1. segments \in [AudioStreams -> Seq(Segment)]
    BY <1>2 DEF IngressInit
  <2>2. ended \in [AudioStreams -> BOOLEAN] /\ lastSent \in [AudioStreams -> BOOLEAN]
    BY DEF IngressInit
  <2>3. /\ rest \in [AudioStreams -> Nat] /\ accepted \in [AudioStreams -> Nat]
        /\ ending \in [Endings -> {"find", "flush", "remove", "end"}] /\ chosen \in [Endings -> Nat]
    BY DEF IngressInit
  <2> QED BY <1>2, <2>1, <2>2, <2>3 DEF IngressInit, IngressData
<1>4. UnopenedInv
  BY DEF IngressInit, UnopenedInv
<1>5. EndingInv
  <2>1. locked \in [AudioStreams -> Endings \cup {"none"}] /\ \A e \in Endings : ending[e] = "find"
    BY DEF IngressInit
  <2>2. "none" \notin Endings
    BY IngressAssumption DEF Endings
  <2> QED BY <2>1, <2>2 DEF EndingInv
<1> QED BY <1>1, <1>3, <1>4, <1>5 DEF IngressInv, SegmentsWhole, OpenIsFound

LEMMA OpenStep ==
  ASSUME IngressInv, OpenStream
  PROVE  IngressInv'
<1> USE DEF IngressInv, audioVars, endingVars
<1>1. /\ table = 0 /\ openings' = openings + 1 /\ table' = openings + 1
      /\ UNCHANGED <<rest, accepted, segments, lastSent, ended, locked, ending, chosen>>
      /\ openings \in Nat /\ openings < MaxOpens /\ MaxOpens \in Nat
  BY IngressAssumption DEF OpenStream, IngressData
<1>2. \A s \in Opened : ended[s]
  BY <1>1 DEF OpenIsFound, Opened
<1>3. Opened' = Opened \cup {openings + 1} /\ openings + 1 \in AudioStreams /\ openings + 1 \notin Opened
  BY <1>1 DEF Opened, AudioStreams
<1>4. IngressData'
  BY <1>1 DEF IngressData
<1>5. UnopenedInv'
  BY <1>1, <1>3 DEF UnopenedInv
<1>6. \A e \in Endings : ending[e] # "remove"
  BY <1>1 DEF EndingInv, Opened
<1>7. EndingInv'
  BY <1>1, <1>3, <1>6 DEF EndingInv
<1>8. SegmentsWhole'
  <2> DEFINE s == openings + 1
  <2>1. ~ended[s] /\ segments[s] = <<>> /\ rest[s] = 0 /\ accepted[s] = 0
    BY <1>3 DEF UnopenedInv
  <2>2. Published(<<>>, FALSE, 0, 0)
    <3>1. SegSize * 0 = 0 /\ 0 < SegSize /\ Len(<<>>) = 0
      BY IngressAssumption
    <3> QED BY <3>1 DEF Published
  <2>3. ended[s] = FALSE
    BY <1>3, <2>1 DEF IngressData
  <2>4. Published(segments[s], ended[s], accepted[s], rest[s])
    BY <2>1, <2>2, <2>3
  <2> QED BY <1>1, <1>3, <2>4 DEF SegmentsWhole, Published, Marked
<1>9. OpenIsFound'
  BY <1>1, <1>2, <1>3 DEF OpenIsFound
<1> QED BY <1>4, <1>5, <1>7, <1>8, <1>9

LEMMA WriteStep ==
  ASSUME IngressInv, NEW s \in AudioStreams, NEW length \in Lengths, WriteAudio(s, length)
  PROVE  IngressInv'
<1> USE DEF IngressInv, endingVars
<1> DEFINE all == rest[s] + length
           left == all % SegSize
           sent == Whole(segments[s], all \div SegSize)
<1>1. /\ s \in Opened /\ ~ended[s]
      /\ accepted' = [accepted EXCEPT ![s] = @ + length]
      /\ segments' = [segments EXCEPT ![s] = sent]
      /\ rest' = [rest EXCEPT ![s] = left]
      /\ lastSent' = [lastSent EXCEPT ![s] = @ /\ all < SegSize]
      /\ UNCHANGED <<openings, table, ended, locked, ending, chosen>>
  BY DEF WriteAudio
<1>2. /\ length \in Nat /\ rest[s] \in Nat /\ accepted[s] \in Nat /\ segments[s] \in Seq(Segment)
      /\ SegSize \in Nat \ {0}
  BY IngressAssumption DEF IngressData
<1>3. all \in Nat /\ all \div SegSize \in Nat /\ left \in Nat
  <2>1. all \in Nat
    BY <1>2
  <2> HIDE DEF all
  <2> QED BY <1>2, <2>1, Divide DEF left
<1>4. sent \in Seq(Segment)
  BY <1>2, <1>3, WholeSegments
<1>5. /\ accepted' \in [AudioStreams -> Nat] /\ accepted'[s] = accepted[s] + length
      /\ rest' \in [AudioStreams -> Nat] /\ rest'[s] = left
      /\ \A t \in AudioStreams \ {s} : accepted'[t] = accepted[t] /\ rest'[t] = rest[t]
  <2>1. accepted[s] + length \in Nat
    BY <1>2
  <2> HIDE DEF left, all, sent
  <2>2. /\ accepted' \in [AudioStreams -> Nat] /\ accepted'[s] = accepted[s] + length
        /\ \A t \in AudioStreams \ {s} : accepted'[t] = accepted[t]
    BY <1>1, <2>1 DEF IngressData
  <2>3. /\ rest' \in [AudioStreams -> Nat] /\ rest'[s] = left
        /\ \A t \in AudioStreams \ {s} : rest'[t] = rest[t]
    BY <1>1, <1>3 DEF IngressData
  <2> QED BY <2>2, <2>3
<1>6. /\ segments' \in [AudioStreams -> Seq(Segment)] /\ segments'[s] = sent
      /\ \A t \in AudioStreams \ {s} : segments'[t] = segments[t]
  <2> HIDE DEF sent
  <2> QED BY <1>1, <1>4 DEF IngressData
<1>7. /\ lastSent' \in [AudioStreams -> BOOLEAN]
      /\ \A t \in AudioStreams : lastSent'[t] => lastSent[t]
  BY <1>1 DEF IngressData
<1> HIDE DEF left, sent
<1>8. IngressData'
  BY <1>1, <1>5, <1>6, <1>7 DEF IngressData
<1>9. UnopenedInv'
  BY <1>1, <1>5, <1>6, <1>7 DEF UnopenedInv, Opened
<1>10. EndingInv'
  BY <1>1 DEF EndingInv, Opened
<1>11. SegmentsWhole'
  <2>1. ended[s] = FALSE
    BY <1>1 DEF IngressData
  <2>2. Published(sent, FALSE, accepted[s] + length, left)
    BY <1>1, <1>2, <2>1, WritePublishes DEF SegmentsWhole, sent, left
  <2> SUFFICES ASSUME NEW t \in Opened PROVE Published(segments'[t], ended'[t], accepted'[t], rest'[t])
    BY <1>1 DEF SegmentsWhole, Opened, Published, Marked
  <2>3. CASE t = s
    BY <1>1, <1>5, <1>6, <2>1, <2>2, <2>3
  <2>4. CASE t # s
    <3>1. t \in AudioStreams \ {s}
      BY <2>4, OpenedStreams
    <3> QED BY <1>1, <1>5, <1>6, <3>1 DEF SegmentsWhole
  <2> QED BY <2>3, <2>4
<1>12. OpenIsFound'
  BY <1>1 DEF OpenIsFound, Opened
<1> QED BY <1>8, <1>9, <1>10, <1>11, <1>12

LEMMA TargetStep ==
  ASSUME IngressInv, NEW e \in Endings,
         FindStream(e) \/ (\E s \in AudioStreams : HoldStream(e, s)) \/ AlreadyClosed(e)
  PROVE  IngressInv'
<1> USE DEF IngressInv, audioVars
<1>1. /\ UNCHANGED <<openings, table, rest, accepted, segments, lastSent, ended, locked>>
      /\ ending[e] # "remove"
  BY DEF FindStream, HoldStream, AlreadyClosed
<1>0. \A s \in AudioStreams : s \in Nat
  BY IngressAssumption DEF AudioStreams
<1>2. /\ ending' \in [Endings -> {"find", "flush", "remove", "end"}] /\ chosen' \in [Endings -> Nat]
      /\ \A d \in Endings \ {e} : ending'[d] = ending[d] /\ chosen'[d] = chosen[d]
      /\ ending'[e] # "remove"
  BY <1>0 DEF FindStream, HoldStream, AlreadyClosed, IngressData
<1>3. ending'[e] = "flush" => chosen'[e] \in Opened
  <2>1. table # 0 => table \in Opened
    BY DEF IngressData, Opened
  <2> QED BY <2>1 DEF FindStream, HoldStream, AlreadyClosed, IngressData
<1>4. IngressData' /\ UnopenedInv' /\ OpenIsFound'
  BY <1>1, <1>2 DEF IngressData, UnopenedInv, OpenIsFound, Opened
<1>5. EndingInv'
  BY <1>1, <1>2, <1>3 DEF EndingInv, Opened
<1>6. SegmentsWhole'
  BY <1>1 DEF SegmentsWhole, Opened, Published, Marked
<1> QED BY <1>4, <1>5, <1>6

LEMMA FlushStep ==
  ASSUME IngressInv, NEW e \in Endings, CloseFlush(e)
  PROVE  IngressInv'
<1> USE DEF IngressInv
<1>1. PICK s \in Opened : s = chosen[e] /\ ~ended[s] /\ locked[s] = "none" /\ s \in AudioStreams
  BY OpenedStreams DEF CloseFlush, EndingInv
<1>2. /\ ~lastSent[s] /\ ended[s] = FALSE /\ table = s
      /\ segments[s] \in Seq(Segment) /\ rest[s] \in Nat /\ accepted[s] \in Nat
  BY <1>1 DEF UnopenedInv, IngressData, OpenIsFound
<1> DEFINE sent == Append(segments[s], NextSegment(segments[s], rest[s], TRUE))
<1>3. sent \in Seq(Segment) /\ Published(sent, TRUE, accepted[s], 0)
  BY <1>1, <1>2, ClosePublishes DEF SegmentsWhole
<1> HIDE DEF sent
<1>4. /\ segments' = [segments EXCEPT ![s] = sent]
      /\ rest' = [rest EXCEPT ![s] = 0]
      /\ lastSent' = [lastSent EXCEPT ![s] = TRUE] /\ ended' = [ended EXCEPT ![s] = TRUE]
      /\ locked' = [locked EXCEPT ![s] = e] /\ ending' = [ending EXCEPT ![e] = "remove"]
      /\ UNCHANGED <<openings, table, accepted, chosen>> /\ ending[e] = "flush"
  <2>1. (IF rest[s] = 0 /\ lastSent[s] THEN segments[s] ELSE sent) = sent
    BY <1>2
  <2> QED BY <1>1, <2>1 DEF CloseFlush, sent
<1>5. /\ segments' \in [AudioStreams -> Seq(Segment)] /\ segments'[s] = sent
      /\ rest' \in [AudioStreams -> Nat] /\ rest'[s] = 0
      /\ \A t \in AudioStreams \ {s} : segments'[t] = segments[t] /\ rest'[t] = rest[t]
  BY <1>1, <1>3, <1>4 DEF IngressData
<1>6. /\ ended' \in [AudioStreams -> BOOLEAN] /\ ended'[s] = TRUE /\ lastSent' \in [AudioStreams -> BOOLEAN]
      /\ \A t \in AudioStreams \ {s} : ended'[t] = ended[t] /\ lastSent'[t] = lastSent[t]
  BY <1>1, <1>4 DEF IngressData
<1>7. /\ locked' \in [AudioStreams -> Endings \cup {"none"}] /\ locked'[s] = e
      /\ \A t \in AudioStreams \ {s} : locked'[t] = locked[t]
      /\ ending' \in [Endings -> {"find", "flush", "remove", "end"}] /\ ending'[e] = "remove"
      /\ \A d \in Endings \ {e} : ending'[d] = ending[d]
  BY <1>1, <1>4 DEF IngressData, EndingInv
<1>8. IngressData'
  BY <1>4, <1>5, <1>6, <1>7 DEF IngressData
<1>9. UnopenedInv'
  BY <1>1, <1>4, <1>5, <1>6 DEF UnopenedInv, Opened
<1>10. EndingInv'
  <2>1. \A d \in Endings : ending'[d] \in {"flush", "remove"} => chosen[d] \in Opened
    BY <1>1, <1>7 DEF EndingInv
  <2>2. ASSUME NEW d \in Endings, ending'[d] = "remove"
        PROVE  locked'[chosen[d]] = d /\ table = chosen[d] /\ ended'[chosen[d]]
    <3>1. CASE d = e
      BY <1>1, <1>2, <1>6, <1>7, <3>1
    <3>2. CASE d # e
      <4>1. locked[chosen[d]] = d /\ table = chosen[d] /\ ended[chosen[d]]
        BY <1>7, <2>2, <3>2 DEF EndingInv
      <4>2. FALSE
        BY <1>1, <1>2, <4>1
      <4> QED BY <4>2
    <3> QED BY <3>1, <3>2
  <2> QED BY <1>4, <1>7, <2>1, <2>2 DEF EndingInv, Opened
<1>11. SegmentsWhole'
  <2> SUFFICES ASSUME NEW t \in Opened PROVE Published(segments'[t], ended'[t], accepted'[t], rest'[t])
    BY <1>4 DEF SegmentsWhole, Opened, Published, Marked
  <2>1. CASE t = s
    BY <1>3, <1>4, <1>5, <1>6, <2>1
  <2>2. CASE t # s
    <3>1. t \in AudioStreams \ {s}
      BY <2>2, OpenedStreams
    <3> QED BY <1>4, <1>5, <1>6, <3>1 DEF SegmentsWhole
  <2> QED BY <2>1, <2>2
<1>12. OpenIsFound'
  BY <1>1, <1>4, <1>6, OpenedStreams DEF OpenIsFound, Opened
<1> QED BY <1>8, <1>9, <1>10, <1>11, <1>12

LEMMA RemoveStep ==
  ASSUME IngressInv, NEW e \in Endings, RemoveStream(e)
  PROVE  IngressInv'
<1> USE DEF IngressInv, audioVars
<1>1. PICK s \in Opened : /\ s = chosen[e] /\ s \in AudioStreams
                          /\ ending[e] = "remove" /\ locked[s] = e /\ table = s /\ ended[s]
  BY OpenedStreams DEF RemoveStream, EndingInv
<1>2. /\ table' = 0 /\ locked' = [locked EXCEPT ![s] = "none"] /\ ending' = [ending EXCEPT ![e] = "end"]
      /\ UNCHANGED <<openings, rest, accepted, segments, lastSent, ended, chosen>>
  BY <1>1 DEF RemoveStream
<1>3. /\ ending' \in [Endings -> {"find", "flush", "remove", "end"}] /\ ending'[e] = "end"
      /\ \A d \in Endings \ {e} : ending'[d] = ending[d]
      /\ locked' \in [AudioStreams -> Endings \cup {"none"}]
  BY <1>2 DEF IngressData, EndingInv
<1>4. IngressData'
  BY <1>2, <1>3 DEF IngressData
<1>5. UnopenedInv'
  BY <1>2 DEF UnopenedInv, Opened
<1>6. \A d \in Endings : ending'[d] # "remove"
  BY <1>1, <1>3 DEF EndingInv
<1>7. EndingInv'
  BY <1>2, <1>3, <1>6 DEF EndingInv, Opened
<1>8. SegmentsWhole'
  BY <1>2 DEF SegmentsWhole, Opened, Published, Marked
<1>9. OpenIsFound'
  BY <1>1, <1>2 DEF OpenIsFound, Opened
<1> QED BY <1>4, <1>5, <1>7, <1>8, <1>9

LEMMA IngressStep == IngressInv /\ [IngressNext]_ingressVars => IngressInv'
<1> SUFFICES ASSUME IngressInv, [IngressNext]_ingressVars PROVE IngressInv'
  OBVIOUS
<1>1. CASE UNCHANGED ingressVars
  BY <1>1 DEF ingressVars, audioVars, endingVars, IngressInv, IngressData, UnopenedInv, EndingInv, SegmentsWhole,
              OpenIsFound, Opened, Published, Marked
<1>2. ASSUME NEW e \in Endings, CloseStream(e) PROVE IngressInv'
  BY <1>2, TargetStep, FlushStep, RemoveStep DEF CloseStream
<1> QED BY <1>1, <1>2, OpenStep, WriteStep DEF IngressNext

\* IngressSpec keeps StreamsWhole, for any segment size, writes, closers and streams:
\* what is published of a stream is what was written to it, in full segments with one
\* last after them, and closing it late or twice removes no stream opened since.
THEOREM StreamsArePublishedWhole == IngressSpec => []StreamsWhole
<1>1. IngressInv => StreamsWhole
  BY DEF IngressInv, StreamsWhole
<1> QED BY <1>1, IngressInitial, IngressStep, PTL DEF IngressSpec

\* What a stream keeps back was written to it and is no full segment, and whoever
\* closes one was handed one that was opened.
IngressBounds ==
  /\ \A s \in AudioStreams :
        rest[s] <= accepted[s] /\ rest[s] < SegSize /\ accepted[s] <= MaxLength
  /\ \A e \in Endings : chosen[e] <= MaxOpens

LEMMA IngressBoundsStep ==
  IngressInv /\ IngressBounds /\ [IngressNext]_ingressVars => IngressBounds'
<1> SUFFICES ASSUME IngressInv, IngressBounds, [IngressNext]_ingressVars PROVE IngressBounds'
  OBVIOUS
<1>0. /\ rest \in [AudioStreams -> Nat] /\ accepted \in [AudioStreams -> Nat] /\ chosen \in [Endings -> Nat]
      /\ openings \in Nat /\ openings <= MaxOpens /\ table \in Nat /\ table <= openings
      /\ MaxOpens \in Nat /\ MaxLength \in Nat
  BY IngressAssumption DEF IngressInv, IngressData
<1>1. ASSUME rest' = rest, accepted' = accepted, chosen' = chosen PROVE IngressBounds'
  BY <1>1 DEF IngressBounds
<1>2. CASE OpenStream \/ UNCHANGED ingressVars
  BY <1>1, <1>2 DEF OpenStream, ingressVars, audioVars, endingVars
<1>3. ASSUME NEW s \in AudioStreams, NEW length \in Lengths, WriteAudio(s, length) PROVE IngressBounds'
  <2>1. /\ length \in Nat /\ accepted[s] \in Nat /\ rest[s] \in Nat /\ rest[s] <= accepted[s]
        /\ accepted[s] + length <= MaxLength
    BY <1>0, <1>3, IngressAssumption DEF WriteAudio, IngressBounds
  <2>2. PICK r \in Nat : r = (rest[s] + length) % SegSize /\ r <= rest[s] + length
                     /\ r < SegSize
    <3>1. SegSize \in Nat \ {0} /\ rest[s] + length \in Nat
      BY <2>1, IngressAssumption
    <3>2. PICK all \in Nat : all = rest[s] + length
      BY <3>1
    <3>3. PICK b \in Nat \ {0} : b = SegSize
      BY <3>1
    <3>4. all % b \in Nat /\ all % b <= all /\ all % b < b
      BY SMT
    <3> QED BY <3>2, <3>3, <3>4
  <2>3. /\ rest' = [rest EXCEPT ![s] = r] /\ accepted' = [accepted EXCEPT ![s] = @ + length]
        /\ chosen' = chosen
    BY <1>3, <2>2 DEF WriteAudio, endingVars
  <2>4. rest'[s] = r /\ accepted'[s] = accepted[s] + length
    BY <1>0, <2>3
  <2>5. \A t \in AudioStreams \ {s} : rest'[t] = rest[t] /\ accepted'[t] = accepted[t]
    BY <1>0, <2>3
  <2>6. rest'[s] <= accepted'[s] /\ rest'[s] < SegSize /\ accepted'[s] <= MaxLength
    BY <1>0, <2>1, <2>2, <2>4
  <2> QED BY <2>3, <2>5, <2>6 DEF IngressBounds
<1>4. ASSUME NEW e \in Endings, CloseStream(e) PROVE IngressBounds'
  <2>1. CASE FindStream(e) \/ \E s \in AudioStreams : HoldStream(e, s)
    <3>1. PICK s \in Nat : s <= MaxOpens /\ chosen' = [chosen EXCEPT ![e] = s]
      BY <1>0, <2>1 DEF FindStream, HoldStream, AudioStreams
    <3>2. rest' = rest /\ accepted' = accepted
      BY <2>1 DEF FindStream, HoldStream, audioVars
    <3>3. \A d \in Endings : chosen'[d] \in {s, chosen[d]}
      BY <1>0, <3>1
    <3> QED BY <3>1, <3>2, <3>3 DEF IngressBounds
  <2>2. CASE AlreadyClosed(e) \/ RemoveStream(e)
    BY <1>1, <2>2 DEF AlreadyClosed, RemoveStream, audioVars
  <2>3. CASE CloseFlush(e)
    <3>1. rest' = [rest EXCEPT ![chosen[e]] = 0] /\ accepted' = accepted /\ chosen' = chosen
      BY <2>3 DEF CloseFlush
    <3>2. \A s \in AudioStreams : rest'[s] = 0 \/ rest'[s] = rest[s]
      BY <1>0, <3>1
    <3> QED BY <1>0, <3>1, <3>2, IngressAssumption DEF IngressBounds
  <2> QED BY <1>4, <2>1, <2>2, <2>3 DEF CloseStream
<1> QED BY <1>2, <1>3, <1>4 DEF IngressNext

\* The variables of ingress have their types, and what is kept back of a stream is
\* never more than was written to it, and less than a segment.
THEOREM IngressTypeCorrect == IngressSpec => [](IngressTypeOK /\ IngressBounds)
<1>1. IngressInit => IngressBounds
  BY IngressAssumption DEF IngressInit, IngressBounds
<1>2. IngressInv /\ IngressBounds => IngressTypeOK
  <2> SUFFICES ASSUME IngressInv, IngressBounds PROVE IngressTypeOK
    OBVIOUS
  <2>1. IngressData /\ locked \in [AudioStreams -> Endings \cup {"none"}] /\ MaxOpens \in Nat /\ MaxLength \in Nat
    BY IngressAssumption DEF IngressInv, EndingInv
  <2>2. /\ \A s \in AudioStreams : rest[s] \in 0..MaxLength /\ accepted[s] \in 0..MaxLength
        /\ \A e \in Endings : chosen[e] \in 0..MaxOpens
    <3>1. /\ \A s \in AudioStreams : rest[s] \in Nat /\ accepted[s] \in Nat
          /\ \A e \in Endings : chosen[e] \in Nat
      BY <2>1 DEF IngressData
    <3> QED BY <2>1, <3>1 DEF IngressBounds
  <2>3. /\ rest \in [AudioStreams -> 0..MaxLength] /\ accepted \in [AudioStreams -> 0..MaxLength]
        /\ chosen \in [Endings -> 0..MaxOpens]
    BY <2>1, <2>2 DEF IngressData
  <2>4. openings \in 0..MaxOpens /\ table \in 0..MaxOpens
    BY <2>1 DEF IngressData
  <2> QED BY <2>1, <2>3, <2>4 DEF IngressTypeOK, IngressData
<1> QED BY <1>1, <1>2, IngressInitial, IngressStep, IngressBoundsStep, PTL DEF IngressSpec

-----------------------------------------------------------------------------
(* Segments: none is lost, none comes twice, and they come in order.       *)

\* No element twice; in increasing order.
Distinct(s) == \A i, j \in 1..Len(s) : s[i] = s[j] => i = j
Sorted(s) == \A i, j \in 1..Len(s) : i < j => s[i] < s[j]

LEMMA SortedDistinct ==
  ASSUME NEW s \in Seq(Segments), Sorted(s)
  PROVE  Distinct(s)
<1> SUFFICES ASSUME NEW i \in 1..Len(s), NEW j \in 1..Len(s), s[i] = s[j], i # j PROVE FALSE
  BY DEF Distinct
<1>1. s[i] \in Nat /\ s[j] \in Nat
  BY ElementOfSeq, BoundAssumption DEF Segments
<1>2. i < j \/ j < i
  OBVIOUS
<1> QED BY <1>1, <1>2 DEF Sorted

LEMMA TailMembers ==
  ASSUME NEW s \in Seq(Segments), s # <<>>, Distinct(s)
  PROVE  /\ Distinct(Tail(s)) /\ Head(s) \in ToSet(s)
         /\ ToSet(Tail(s)) = ToSet(s) \ {Head(s)}
         /\ Sorted(s) => Sorted(Tail(s)) /\ \A x \in ToSet(Tail(s)) : Head(s) < x
<1>1. PICK n \in Nat : Len(s) = n + 1
  <2>1. Len(s) \in Nat /\ Len(s) # 0
    BY EmptySeq
  <2> QED BY <2>1
<1>2. /\ Tail(s) \in Seq(Segments) /\ Len(Tail(s)) = n /\ Head(s) = s[1]
      /\ \A i \in 1..n : Tail(s)[i] = s[i + 1] /\ i + 1 \in 1..(n + 1)
  BY <1>1, HeadTailProperties
<1>3. 1 \in 1..(n + 1) /\ \A i \in 1..(n + 1) : i = 1 \/ (i - 1 \in 1..n /\ (i - 1) + 1 = i)
  BY <1>1
<1>4. Distinct(Tail(s))
  BY <1>1, <1>2 DEF Distinct
<1>5. Head(s) \in ToSet(s)
  BY <1>1, <1>2, <1>3 DEF ToSet
<1>6. ASSUME NEW x \in ToSet(Tail(s)) PROVE \E i \in 1..n : x = s[i + 1]
  BY <1>2 DEF ToSet
<1>7. ToSet(Tail(s)) \subseteq ToSet(s) \ {Head(s)}
  <2> SUFFICES ASSUME NEW x \in ToSet(Tail(s)) PROVE x \in ToSet(s) /\ x # s[1]
    BY <1>2
  <2>1. PICK i \in 1..n : x = s[i + 1]
    BY <1>6
  <2>2. i + 1 \in 1..Len(s) /\ i + 1 # 1 /\ 1 \in 1..Len(s)
    BY <1>1
  <2> QED BY <2>1, <2>2 DEF ToSet, Distinct
<1>8. ToSet(s) \ {Head(s)} \subseteq ToSet(Tail(s))
  <2> SUFFICES ASSUME NEW i \in 1..(n + 1), s[i] # s[1] PROVE s[i] \in ToSet(Tail(s))
    BY <1>1, <1>2 DEF ToSet
  <2>1. i - 1 \in 1..n /\ (i - 1) + 1 = i
    BY <1>3
  <2>2. s[i] = Tail(s)[i - 1]
    BY <1>2, <2>1
  <2> QED BY <1>2, <2>1, <2>2 DEF ToSet
<1>9. ASSUME Sorted(s) PROVE Sorted(Tail(s)) /\ \A x \in ToSet(Tail(s)) : Head(s) < x
  <2>1. Sorted(Tail(s))
    <3> SUFFICES ASSUME NEW i \in 1..n, NEW j \in 1..n, i < j PROVE s[i + 1] < s[j + 1]
      BY <1>2 DEF Sorted
    <3>1. i + 1 \in 1..Len(s) /\ j + 1 \in 1..Len(s) /\ i + 1 < j + 1
      BY <1>1
    <3> QED BY <1>9, <3>1 DEF Sorted
  <2>2. ASSUME NEW x \in ToSet(Tail(s)) PROVE s[1] < x
    <3>1. PICK i \in 1..n : x = s[i + 1]
      BY <1>6
    <3>2. 1 \in 1..Len(s) /\ i + 1 \in 1..Len(s) /\ 1 < i + 1
      BY <1>1
    <3> QED BY <1>9, <3>1, <3>2 DEF Sorted
  <2> QED BY <1>2, <2>1, <2>2
<1> QED BY <1>4, <1>5, <1>7, <1>8, <1>9

LEMMA ConcatMembers ==
  ASSUME NEW s \in Seq(Segments), NEW t \in Seq(Segments)
  PROVE  /\ ToSet(s \o t) = ToSet(s) \cup ToSet(t)
         /\ Distinct(s) /\ Distinct(t) /\ ToSet(s) \cap ToSet(t) = {} => Distinct(s \o t)
         /\ Sorted(s) /\ Sorted(t) /\ (\A x \in ToSet(s), y \in ToSet(t) : x < y) => Sorted(s \o t)
<1>1. PICK m \in Nat, n \in Nat : Len(s) = m /\ Len(t) = n
  OBVIOUS
<1> DEFINE u == s \o t
<1>a. /\ u \in Seq(Segments) /\ Len(u) = Len(s) + Len(t)
      /\ \A i \in 1..(Len(s) + Len(t)) : u[i] = IF i <= Len(s) THEN s[i] ELSE t[i - Len(s)]
  BY ConcatProperties, Zenon
<1> HIDE DEF u
<1>b. /\ Len(u) = m + n
      /\ \A i \in 1..(m + n) : u[i] = IF i <= m THEN s[i] ELSE t[i - m]
  BY <1>a, <1>1
<1>c. ASSUME NEW i \in 1..m PROVE u[i] = s[i]
  <2>1. i \in 1..(m + n) /\ i <= m
    OBVIOUS
  <2> QED BY <1>b, <2>1
<1>d. ASSUME NEW i \in 1..n PROVE u[m + i] = t[i]
  <2>1. m + i \in 1..(m + n) /\ ~(m + i <= m) /\ (m + i) - m = i
    OBVIOUS
  <2> QED BY <1>b, <2>1
<1>2. /\ Len(u) = m + n /\ u \in Seq(Segments)
      /\ \A i \in 1..m : u[i] = s[i]
      /\ \A i \in 1..n : u[m + i] = t[i]
  BY <1>a, <1>b, <1>c, <1>d
<1>3. ASSUME NEW i \in 1..(m + n)
      PROVE  \/ i \in 1..m /\ u[i] = s[i] /\ s[i] \in ToSet(s)
             \/ \E j \in 1..n : i = m + j /\ u[i] = t[j] /\ t[j] \in ToSet(t)
  <2>1. CASE i <= m
    BY <1>1, <1>2, <2>1 DEF ToSet
  <2>2. CASE ~(i <= m)
    <3>1. i - m \in 1..n /\ m + (i - m) = i
      BY <2>2
    <3> QED BY <1>1, <1>2, <3>1 DEF ToSet
  <2> QED BY <2>1, <2>2
<1>4. ToSet(u) = ToSet(s) \cup ToSet(t)
  <2>1. ASSUME NEW x \in ToSet(u) PROVE x \in ToSet(s) \cup ToSet(t)
    <3>1. PICK i \in 1..(m + n) : x = u[i]
      BY <1>2 DEF ToSet
    <3> QED BY <1>3, <3>1
  <2>2. ASSUME NEW i \in 1..m PROVE s[i] \in ToSet(u)
    <3>1. i \in 1..(m + n)
      OBVIOUS
    <3> QED BY <1>2, <3>1 DEF ToSet
  <2>3. ASSUME NEW i \in 1..n PROVE t[i] \in ToSet(u)
    <3>1. m + i \in 1..(m + n)
      OBVIOUS
    <3> QED BY <1>2, <3>1 DEF ToSet
  <2> QED BY <1>1, <2>1, <2>2, <2>3 DEF ToSet
<1>5. ASSUME Distinct(s), Distinct(t), ToSet(s) \cap ToSet(t) = {} PROVE Distinct(u)
  <2> SUFFICES ASSUME NEW i \in 1..(m + n), NEW j \in 1..(m + n), u[i] = u[j] PROVE i = j
    BY <1>2 DEF Distinct
  <2>1. CASE i \in 1..m /\ u[i] = s[i] /\ s[i] \in ToSet(s)
    <3>1. j \in 1..m /\ u[j] = s[j]
      BY <1>3, <1>5, <2>1
    <3> QED BY <1>1, <1>5, <2>1, <3>1 DEF Distinct
  <2>2. CASE \E k \in 1..n : i = m + k /\ u[i] = t[k] /\ t[k] \in ToSet(t)
    <3>1. PICK k \in 1..n : i = m + k /\ u[i] = t[k] /\ t[k] \in ToSet(t)
      BY <2>2
    <3>2. PICK l \in 1..n : j = m + l /\ u[j] = t[l]
      BY <1>3, <1>5, <3>1
    <3> QED BY <1>1, <1>5, <3>1, <3>2 DEF Distinct
  <2> QED BY <1>3, <2>1, <2>2
<1>6. ASSUME Sorted(s), Sorted(t), \A x \in ToSet(s), y \in ToSet(t) : x < y PROVE Sorted(u)
  <2> SUFFICES ASSUME NEW i \in 1..(m + n), NEW j \in 1..(m + n), i < j PROVE u[i] < u[j]
    BY <1>2 DEF Sorted
  <2>1. CASE i \in 1..m /\ u[i] = s[i] /\ s[i] \in ToSet(s)
    <3>1. CASE j \in 1..m /\ u[j] = s[j]
      BY <1>1, <1>6, <2>1, <3>1 DEF Sorted
    <3>2. CASE \E l \in 1..n : j = m + l /\ u[j] = t[l] /\ t[l] \in ToSet(t)
      BY <1>6, <2>1, <3>2
    <3> QED BY <1>3, <3>1, <3>2
  <2>2. CASE \E k \in 1..n : i = m + k /\ u[i] = t[k] /\ t[k] \in ToSet(t)
    <3>1. PICK k \in 1..n : i = m + k /\ u[i] = t[k]
      BY <2>2
    <3>2. ~(j \in 1..m)
      BY <3>1
    <3>3. PICK l \in 1..n : j = m + l /\ u[j] = t[l]
      BY <1>3, <3>2
    <3>4. k < l
      BY <3>1, <3>3
    <3> QED BY <1>1, <1>6, <3>1, <3>3, <3>4 DEF Sorted
  <2> QED BY <1>3, <2>1, <2>2
<1> QED BY <1>4, <1>5, <1>6 DEF u

LEMMA SingleMembers ==
  ASSUME NEW x \in Segments
  PROVE  /\ <<x>> \in Seq(Segments) /\ Head(<<x>>) = x /\ Tail(<<x>>) = <<>> /\ ToSet(<<x>>) = {x}
         /\ Distinct(<<x>>) /\ Sorted(<<x>>)
         /\ ToSet(<<>>) = {} /\ Distinct(<<>>) /\ Sorted(<<>>)
<1>1. Len(<<x>>) = 1 /\ <<x>>[1] = x /\ 1..1 = {1} /\ 1..0 = {} /\ Len(<<>>) = 0
  OBVIOUS
<1>2. ToSet(<<x>>) = {x} /\ ToSet(<<>>) = {}
  BY <1>1 DEF ToSet
<1>3. Distinct(<<x>>) /\ Sorted(<<x>>) /\ Distinct(<<>>) /\ Sorted(<<>>)
  BY <1>1 DEF Distinct, Sorted
<1> QED BY <1>2, <1>3

LEMMA AppendMembers ==
  ASSUME NEW s \in Seq(Segments), NEW x \in Segments
  PROVE  /\ ToSet(Append(s, x)) = ToSet(s) \cup {x} /\ Append(s, x) = s \o <<x>>
         /\ Distinct(s) /\ x \notin ToSet(s) => Distinct(Append(s, x))
         /\ Sorted(s) /\ (\A y \in ToSet(s) : y < x) => Sorted(Append(s, x))
<1>1. Append(s, x) = s \o <<x>>
  BY AppendIsConcat
<1>2. /\ <<x>> \in Seq(Segments) /\ ToSet(<<x>>) = {x} /\ Distinct(<<x>>) /\ Sorted(<<x>>)
  BY SingleMembers
<1>3. /\ ToSet(s \o <<x>>) = ToSet(s) \cup {x}
      /\ Distinct(s) /\ ToSet(s) \cap {x} = {} => Distinct(s \o <<x>>)
      /\ Sorted(s) /\ (\A y \in ToSet(s), z \in {x} : y < z) => Sorted(s \o <<x>>)
  BY <1>2, ConcatMembers
<1>4. x \notin ToSet(s) => ToSet(s) \cap {x} = {}
  OBVIOUS
<1> QED BY <1>1, <1>3, <1>4

\* The last of a sequence without repetition.
LEMMA FrontMembers ==
  ASSUME NEW s \in Seq(Segments), NEW x \in Segments, Distinct(s \o <<x>>)
  PROVE  /\ Distinct(s) /\ x \notin ToSet(s) /\ ToSet(s \o <<x>>) = ToSet(s) \cup {x}
         /\ ToSet(s) = ToSet(s \o <<x>>) \ {x}
<1> DEFINE u == s \o <<x>>
<1>1. /\ Len(s) \in Nat /\ Len(u) = Len(s) + 1 /\ u[Len(s) + 1] = x
      /\ \A i \in 1..Len(s) : u[i] = s[i] /\ i \in 1..Len(u) /\ i # Len(s) + 1
      /\ Len(s) + 1 \in 1..Len(u)
  OBVIOUS
<1>2. ToSet(u) = ToSet(s) \cup {x}
  <2>1. <<x>> \in Seq(Segments) /\ ToSet(<<x>>) = {x}
    BY SingleMembers
  <2> QED BY <2>1, ConcatMembers
<1>3. Distinct(u)
  OBVIOUS
<1> HIDE DEF u
<1>4. Distinct(s)
  BY <1>1, <1>3 DEF Distinct
<1>5. x \notin ToSet(s)
  BY <1>1, <1>3 DEF Distinct, ToSet
<1> QED BY <1>2, <1>4, <1>5 DEF u

-----------------------------------------------------------------------------
(* Where the segments are.  A home is one of the places a segment can be   *)
(* in; the homes share no segment and hold all that have arrived.          *)

Waiting == <<"pending", 0>>
Given == <<"dropped", 0>>
Hands(a) == <<"hand", a>>
Queued(h) == <<"queue", h>>
Worked(h) == <<"done", h>>

Homes ==
    {Waiting, Given} \cup {Hands(a) : a \in Actors}
    \cup {Queued(h) : h \in Streams} \cup {Worked(h) : h \in Streams}

\* The segments in each home.
Contents(p, hd, q, dn, dr) ==
    [m \in Homes |-> CASE m[1] = "pending" -> ToSet(p)
                       [] m[1] = "hand" -> ToSet(hd[m[2]])
                       [] m[1] = "queue" -> ToSet(q[m[2]])
                       [] m[1] = "done" -> ToSet(dn[m[2]])
                       [] OTHER -> dr]

Parted(E, r) ==
    /\ \A m, n \in Homes : m # n => E[m] \cap E[n] = {}
    /\ \A m \in Homes : E[m] \subseteq 1..r
    /\ \A x \in 1..r : \E m \in Homes : x \in E[m]

LEMMA HomesDiffer ==
  /\ Waiting \in Homes /\ Given \in Homes /\ Waiting # Given
  /\ \A a \in Actors : Hands(a) \in Homes /\ Hands(a) # Waiting /\ Hands(a) # Given
  /\ \A a, b \in Actors : Hands(a) = Hands(b) => a = b
  /\ \A h \in Streams : /\ Queued(h) \in Homes /\ Queued(h) # Waiting /\ Queued(h) # Given
                        /\ Worked(h) \in Homes /\ Worked(h) # Waiting /\ Worked(h) # Given
  /\ \A g, h \in Streams : /\ Queued(g) = Queued(h) => g = h
                           /\ Worked(g) = Worked(h) => g = h
                           /\ Queued(g) # Worked(h)
  /\ \A h \in Streams, a \in Actors : Queued(h) # Hands(a) /\ Worked(h) # Hands(a)
BY DEF Homes, Waiting, Given, Hands, Queued, Worked

LEMMA EveryHome ==
  ASSUME NEW m \in Homes
  PROVE  \/ m = Waiting \/ m = Given
         \/ \E a \in Actors : m = Hands(a)
         \/ \E h \in Streams : m = Queued(h) \/ m = Worked(h)
BY DEF Homes

LEMMA ContentsOf ==
  ASSUME NEW p, NEW hd, NEW q, NEW dn, NEW dr
  PROVE  LET E == Contents(p, hd, q, dn, dr) IN
         /\ E[Waiting] = ToSet(p) /\ E[Given] = dr
         /\ \A a \in Actors : E[Hands(a)] = ToSet(hd[a])
         /\ \A h \in Streams : E[Queued(h)] = ToSet(q[h]) /\ E[Worked(h)] = ToSet(dn[h])
<1> DEFINE E == Contents(p, hd, q, dn, dr)
<1>1. E[Waiting] = ToSet(p)
  BY HomesDiffer DEF Contents, Waiting
<1>2. E[Given] = dr
  BY HomesDiffer DEF Contents, Given
<1>3. ASSUME NEW a \in Actors PROVE E[Hands(a)] = ToSet(hd[a])
  BY HomesDiffer DEF Contents, Hands
<1>4. ASSUME NEW h \in Streams PROVE E[Queued(h)] = ToSet(q[h])
  BY HomesDiffer DEF Contents, Queued
<1>5. ASSUME NEW h \in Streams PROVE E[Worked(h)] = ToSet(dn[h])
  BY HomesDiffer DEF Contents, Worked
<1> QED BY <1>1, <1>2, <1>3, <1>4, <1>5

\* Some of the segments of one home move to another.
LEMMA Moved ==
  ASSUME NEW E, NEW F, NEW r, Parted(E, r),
         NEW l \in Homes, NEW m \in Homes, l # m, NEW X, X \subseteq E[l],
         F[l] = E[l] \ X, F[m] = E[m] \cup X,
         \A n \in Homes \ {l, m} : F[n] = E[n]
  PROVE  Parted(F, r)
<1>1. \A n \in Homes : F[n] \subseteq 1..r
  BY DEF Parted
<1>2. ASSUME NEW x \in 1..r PROVE \E n \in Homes : x \in F[n]
  <2>1. PICK n \in Homes : x \in E[n]
    BY DEF Parted
  <2> QED BY <2>1
<1>3. ASSUME NEW n \in Homes, NEW k \in Homes, n # k, NEW x, x \in F[n], x \in F[k] PROVE FALSE
  BY <1>3 DEF Parted
<1> QED BY <1>1, <1>2, <1>3 DEF Parted

\* A segment arrives in a home.
LEMMA Arrived ==
  ASSUME NEW E, NEW F, NEW r \in Nat, Parted(E, r), NEW m \in Homes,
         F[m] = E[m] \cup {r + 1}, \A n \in Homes \ {m} : F[n] = E[n]
  PROVE  Parted(F, r + 1)
<1>0. 1..(r + 1) = 1..r \cup {r + 1} /\ r + 1 \notin 1..r
  OBVIOUS
<1>1. \A n \in Homes : F[n] \subseteq 1..(r + 1)
  BY <1>0 DEF Parted
<1>2. ASSUME NEW x \in 1..(r + 1) PROVE \E n \in Homes : x \in F[n]
  <2>1. CASE x = r + 1
    BY <2>1
  <2>2. CASE x # r + 1
    <3>1. PICK n \in Homes : x \in E[n]
      BY <1>0, <2>2 DEF Parted
    <3> QED BY <3>1
  <2> QED BY <2>1, <2>2
<1>3. ASSUME NEW n \in Homes, NEW k \in Homes, n # k, NEW x, x \in F[n], x \in F[k] PROVE FALSE
  BY <1>0, <1>3 DEF Parted
<1> QED BY <1>1, <1>2, <1>3 DEF Parted

-----------------------------------------------------------------------------
(* One segment is in one place.                                            *)

Once(p, hd, q, dn, dr, r) ==
    /\ Parted(Contents(p, hd, q, dn, dr), r)
    /\ Distinct(p) /\ \A a \in Actors : Distinct(hd[a])
    /\ \A h \in Streams : Distinct(q[h]) /\ Distinct(dn[h])

OnceInv == Once(pending, hand, queue, done, dropped, received)

\* The positions of s in a sequence without repetition.
LEMMA Position ==
  ASSUME NEW s, NEW t, Distinct(t)
  PROVE  IF s \in ToSet(t) THEN \E i : At(t, s) = {i} ELSE At(t, s) = {}
<1>1. CASE s \notin ToSet(t)
  BY <1>1 DEF ToSet, At
<1>2. CASE s \in ToSet(t)
  <2>1. PICK i \in 1..Len(t) : t[i] = s
    BY <1>2 DEF ToSet
  <2>2. At(t, s) = {i}
    BY <2>1 DEF Distinct, At
  <2> QED BY <1>2, <2>2
<1> QED BY <1>1, <1>2

\* A segment that is in one home m is found once, and one in no home nowhere.
LEMMA OneWhere ==
  ASSUME Distinct(pending), \A a \in Actors : Distinct(hand[a]),
         \A h \in Streams : Distinct(queue[h]) /\ Distinct(done[h]),
         NEW s, NEW m,
         \A n \in Homes : s \in Contents(pending, hand, queue, done, dropped)[n] <=> n = m
  PROVE  /\ m \in Homes => Cardinality(Where(s)) = 1
         /\ m \notin Homes => Where(s) = {}
<1> DEFINE E == Contents(pending, hand, queue, done, dropped)
           WP == {<<"pending", 0, i>> : i \in At(pending, s)}
           WA == UNION {{<<"hand", a, i>> : i \in At(hand[a], s)} : a \in Actors}
           WQ == UNION {{<<"queue", h, i>> : i \in At(queue[h], s)} : h \in Streams}
           WD == UNION {{<<"done", h, i>> : i \in At(done[h], s)} : h \in Streams}
           WG == {<<"dropped", 0, 0>> : d \in dropped \cap {s}}
<1>1. Where(s) = WP \cup WA \cup WQ \cup WD \cup WG
  BY DEF Where
<1>2. \A n \in Homes : s \in E[n] <=> n = m
  OBVIOUS
<1>3. /\ E[Waiting] = ToSet(pending) /\ E[Given] = dropped
      /\ \A a \in Actors : E[Hands(a)] = ToSet(hand[a])
      /\ \A h \in Streams : E[Queued(h)] = ToSet(queue[h]) /\ E[Worked(h)] = ToSet(done[h])
  BY ContentsOf
<1> HIDE DEF E
<1>13. /\ s \in ToSet(pending) <=> m = Waiting
       /\ \A a \in Actors : s \in ToSet(hand[a]) <=> m = Hands(a)
  BY <1>2, <1>3, HomesDiffer
<1>14. ASSUME NEW h \in Streams
       PROVE  /\ s \in ToSet(queue[h]) <=> m = Queued(h)
              /\ s \in ToSet(done[h]) <=> m = Worked(h)
  BY <1>2, <1>3, HomesDiffer
<1>5. /\ m # Waiting => WP = {}
      /\ m = Waiting => \E w : WP = {w}
  <2>1. IF s \in ToSet(pending) THEN \E i : At(pending, s) = {i} ELSE At(pending, s) = {}
    BY Position
  <2>2. CASE m = Waiting
    <3>1. PICK i : At(pending, s) = {i}
      BY <1>13, <2>1, <2>2
    <3>2. WP = {<<"pending", 0, i>>}
      BY <3>1
    <3> QED BY <2>2, <3>2
  <2>3. CASE m # Waiting
    BY <1>13, <2>1, <2>3
  <2> QED BY <2>2, <2>3
<1>6. ASSUME NEW a \in Actors
      PROVE  IF m = Hands(a) THEN \E i : At(hand[a], s) = {i} ELSE At(hand[a], s) = {}
  BY Position, <1>13
<1>7. ASSUME NEW h \in Streams
      PROVE  /\ IF m = Queued(h) THEN \E i : At(queue[h], s) = {i} ELSE At(queue[h], s) = {}
             /\ IF m = Worked(h) THEN \E i : At(done[h], s) = {i} ELSE At(done[h], s) = {}
  BY Position, <1>14
<1>8. /\ (\A a \in Actors : m # Hands(a)) => WA = {}
      /\ \A a \in Actors : m = Hands(a) => \E w : WA = {w}
  <2>1. ASSUME \A a \in Actors : m # Hands(a) PROVE WA = {}
    BY <1>6, <2>1
  <2>2. ASSUME NEW a \in Actors, m = Hands(a) PROVE \E w : WA = {w}
    <3>1. PICK i : At(hand[a], s) = {i}
      BY <1>6, <2>2
    <3>2. \A b \in Actors : b # a => At(hand[b], s) = {}
      BY <1>6, <2>2, HomesDiffer
    <3>3. WA = {<<"hand", a, i>>}
      BY <3>1, <3>2
    <3> QED BY <3>3
  <2> QED BY <2>1, <2>2
<1>9. /\ (\A h \in Streams : m # Queued(h)) => WQ = {}
      /\ \A h \in Streams : m = Queued(h) => \E w : WQ = {w}
  <2>1. ASSUME \A h \in Streams : m # Queued(h) PROVE WQ = {}
    BY <1>7, <2>1
  <2>2. ASSUME NEW h \in Streams, m = Queued(h) PROVE \E w : WQ = {w}
    <3>1. PICK i : At(queue[h], s) = {i}
      BY <1>7, <2>2
    <3>2. \A g \in Streams : g # h => At(queue[g], s) = {}
      BY <1>7, <2>2, HomesDiffer
    <3>3. WQ = {<<"queue", h, i>>}
      BY <3>1, <3>2
    <3> QED BY <3>3
  <2> QED BY <2>1, <2>2
<1>10. /\ (\A h \in Streams : m # Worked(h)) => WD = {}
       /\ \A h \in Streams : m = Worked(h) => \E w : WD = {w}
  <2>1. ASSUME \A h \in Streams : m # Worked(h) PROVE WD = {}
    BY <1>7, <2>1
  <2>2. ASSUME NEW h \in Streams, m = Worked(h) PROVE \E w : WD = {w}
    <3>1. PICK i : At(done[h], s) = {i}
      BY <1>7, <2>2
    <3>2. \A g \in Streams : g # h => At(done[g], s) = {}
      BY <1>7, <2>2, HomesDiffer
    <3>3. WD = {<<"done", h, i>>}
      BY <3>1, <3>2
    <3> QED BY <3>3
  <2> QED BY <2>1, <2>2
<1>11. /\ m # Given => WG = {}
       /\ m = Given => WG = {<<"dropped", 0, 0>>}
  BY <1>2, <1>3, HomesDiffer
<1>15. CASE m \notin Homes
  <2>1. /\ m # Waiting /\ m # Given /\ \A a \in Actors : m # Hands(a)
        /\ \A h \in Streams : m # Queued(h) /\ m # Worked(h)
    BY <1>15, HomesDiffer
  <2>2. WP = {} /\ WA = {} /\ WQ = {} /\ WD = {} /\ WG = {}
    BY <2>1, <1>5, <1>8, <1>9, <1>10, <1>11
  <2> HIDE DEF WP, WA, WQ, WD, WG
  <2> QED BY <1>1, <1>15, <2>2
<1> HIDE DEF WP, WA, WQ, WD, WG
<1>12. ASSUME m \in Homes PROVE \E w : Where(s) = {w}
  <2>1. CASE m = Waiting
    <3>1. m # Given /\ (\A a \in Actors : m # Hands(a))
          /\ (\A h \in Streams : m # Queued(h)) /\ (\A h \in Streams : m # Worked(h))
      BY <2>1, HomesDiffer
    <3>2. WA = {} /\ WQ = {} /\ WD = {} /\ WG = {}
      BY <3>1, <1>5, <1>8, <1>9, <1>10, <1>11
    <3>3. \E w : WP = {w}
      BY <2>1, <1>5, <1>8, <1>9, <1>10, <1>11
    <3> QED BY <1>1, <3>2, <3>3
  <2>2. CASE m = Given
    <3>1. m # Waiting /\ (\A a \in Actors : m # Hands(a))
          /\ (\A h \in Streams : m # Queued(h)) /\ (\A h \in Streams : m # Worked(h))
      BY <2>2, HomesDiffer
    <3>2. WP = {} /\ WA = {} /\ WQ = {} /\ WD = {}
      BY <3>1, <1>5, <1>8, <1>9, <1>10, <1>11
    <3>3. \E w : WG = {w}
      BY <2>2, <1>5, <1>8, <1>9, <1>10, <1>11
    <3> QED BY <1>1, <3>2, <3>3
  <2>3. ASSUME NEW a \in Actors, m = Hands(a) PROVE \E w : Where(s) = {w}
    <3>1. m # Waiting /\ m # Given /\ (\A h \in Streams : m # Queued(h)) /\ (\A h \in Streams : m # Worked(h))
      BY <2>3, HomesDiffer
    <3>2. WP = {} /\ WQ = {} /\ WD = {} /\ WG = {}
      BY <3>1, <1>5, <1>8, <1>9, <1>10, <1>11
    <3>3. \E w : WA = {w}
      BY <2>3, <1>5, <1>8, <1>9, <1>10, <1>11
    <3> QED BY <1>1, <3>2, <3>3
  <2>4. ASSUME NEW h \in Streams, m = Queued(h) PROVE \E w : Where(s) = {w}
    <3>1. m # Waiting /\ m # Given /\ (\A a \in Actors : m # Hands(a)) /\ (\A g \in Streams : m # Worked(g))
      BY <2>4, HomesDiffer
    <3>2. WP = {} /\ WA = {} /\ WD = {} /\ WG = {}
      BY <3>1, <1>5, <1>8, <1>9, <1>10, <1>11
    <3>3. \E w : WQ = {w}
      BY <2>4, <1>5, <1>8, <1>9, <1>10, <1>11
    <3> QED BY <1>1, <3>2, <3>3
  <2>5. ASSUME NEW h \in Streams, m = Worked(h) PROVE \E w : Where(s) = {w}
    <3>1. m # Waiting /\ m # Given /\ (\A a \in Actors : m # Hands(a)) /\ (\A g \in Streams : m # Queued(g))
      BY <2>5, HomesDiffer
    <3>2. WP = {} /\ WA = {} /\ WQ = {} /\ WG = {}
      BY <3>1, <1>5, <1>8, <1>9, <1>10, <1>11
    <3>3. \E w : WD = {w}
      BY <2>5, <1>5, <1>8, <1>9, <1>10, <1>11
    <3> QED BY <1>1, <3>2, <3>3
  <2> QED BY <1>12, <2>1, <2>2, <2>3, <2>4, <2>5, EveryHome
<1>16. m \in Homes => Cardinality(Where(s)) = 1
  BY <1>12, FS_Singleton
<1> QED BY <1>15, <1>16

LEMMA OnceIsOne == OnceInv => SegmentOnce
<1> SUFFICES ASSUME OnceInv, NEW s \in 1..received PROVE Cardinality(Where(s)) = 1
  BY DEF SegmentOnce
<1> DEFINE E == Contents(pending, hand, queue, done, dropped)
<1>1. PICK m \in Homes : s \in E[m]
  BY DEF OnceInv, Once, Parted
<1>2. \A n \in Homes : s \in E[n] <=> n = m
  BY <1>1 DEF OnceInv, Once, Parted
<1> QED BY <1>2, OneWhere DEF OnceInv, Once


-----------------------------------------------------------------------------
(* What an actor has in hand, by its place: a retry only what it replays,  *)
(* the consumer the segment it took last, unless it is enqueueing.         *)

Ready(a, p, s, r) ==
    IF a = Consumer
    THEN /\ p \notin {"off", "set"}
         /\ p \in {"fast", "factory", "register", "flush", "buffer"} => s = <<r>>
         /\ p \in {"recv", "end"} => s = <<>>
    ELSE p \notin {"enqueue", "ctx", "send"} => s = <<>>

ReadyInv == \A a \in Actors : Ready(a, pc[a], hand[a], received)

LEMMA ReadyInitial == Init => ReadyInv
<1> HAVE Init
<1>1. \A a \in Actors : hand[a] = <<>> /\ (a = Consumer => pc[a] = "recv")
  BY DEF Init
<1> QED BY <1>1 DEF ReadyInv, Ready

\* Others stay ready while a moves.
LEMMA ReadyKept ==
  ASSUME ReadyInv, NEW a \in Actors, Only(a),
         \A b \in Actors \ {a} : hand'[b] = hand[b], received' = received \/ a = Consumer,
         Ready(a, pc'[a], hand'[a], received')
  PROVE  ReadyInv'
<1> SUFFICES ASSUME NEW b \in Actors, b # a PROVE Ready(b, pc'[b], hand'[b], received')
  BY DEF ReadyInv
<1>1. Ready(b, pc[b], hand[b], received)
  BY DEF ReadyInv
<1>2. hand'[b] = hand[b] /\ (b = Consumer => received' = received)
  OBVIOUS
<1>3. pc'[b] = pc[b] \/ (pc[b] = "off" /\ pc'[b] = "set") \/ (pc[b] = "set" /\ pc'[b] = "end")
  BY DEF Only
<1> QED BY <1>1, <1>2, <1>3 DEF Ready

LEMMA CreateReady ==
  ASSUME PlaceTypes, OffInv, DataTypes, ReadyInv, NEW a \in Actors, Create(a)
  PROVE  ReadyInv' /\ \A b \in Actors \ {a} : hand'[b] = hand[b]
<1> USE DEF pendingVars
<1>1. Only(a)
  BY ActorMoves
<1>2. Ready(a, pc[a], hand[a], received) /\ hand \in [Actors -> Seq(Segments)]
  BY DEF ReadyInv, DataTypes
<1>3. CASE CreateFast(a)
  <2>1. /\ hand' = hand /\ received' = received /\ pc[a] = "fast"
        /\ pc'[a] \in {IF a = Consumer THEN "enqueue" ELSE "end", "factory"}
    BY <1>3, GotoMoves DEF CreateFast, Places
  <2>2. Ready(a, pc'[a], hand'[a], received')
    BY <1>2, <2>1 DEF Ready
  <2> QED BY <1>1, <2>1, <2>2, ReadyKept
<1>4. CASE FactoryOpens(a)
  <2>1. hand' = hand /\ received' = received /\ pc[a] = "factory" /\ pc'[a] = "register"
    BY <1>4, GotoMoves DEF FactoryOpens, Places
  <2>2. Ready(a, pc'[a], hand'[a], received')
    BY <1>2, <2>1 DEF Ready
  <2> QED BY <1>1, <2>1, <2>2, ReadyKept
<1>5. CASE FactoryUnavailable(a)
  <2>1. /\ hand' = hand /\ received' = received /\ pc[a] = "factory"
        /\ pc'[a] = IF a = Consumer THEN "buffer" ELSE "again"
    BY <1>5, GotoMoves DEF FactoryUnavailable, Places
  <2>2. Ready(a, pc'[a], hand'[a], received')
    BY <1>2, <2>1 DEF Ready
  <2> QED BY <1>1, <2>1, <2>2, ReadyKept
<1>6. CASE FactoryFails(a)
  <2>1. /\ hand' = [hand EXCEPT ![a] = <<>>] /\ received' = received
        /\ pc'[a] = IF a = Consumer THEN "recv" ELSE "failed"
    BY <1>6, GotoMoves DEF FactoryFails, Places
  <2>2. hand'[a] = <<>> /\ \A b \in Actors \ {a} : hand'[b] = hand[b]
    BY <1>2, <2>1
  <2>3. Ready(a, pc'[a], hand'[a], received')
    BY <2>1, <2>2 DEF Ready
  <2> QED BY <1>1, <2>1, <2>2, <2>3, ReadyKept
<1>7. CASE Register(a)
  <2>1. /\ hand' = hand /\ received' = received /\ pc[a] = "register"
        /\ pc'[a] \in {IF a = Consumer THEN "enqueue" ELSE "end", "flush"}
    BY <1>7, GotoMoves DEF Register, Places
  <2>2. Ready(a, pc'[a], hand'[a], received')
    BY <1>2, <2>1 DEF Ready
  <2> QED BY <1>1, <2>1, <2>2, ReadyKept
<1>8. CASE FlushPending(a)
  <2>1. hand' = [hand EXCEPT ![a] = pending \o @] /\ received' = received /\ pc'[a] = "enqueue"
    BY <1>8, StopMoves DEF FlushPending, Places
  <2>2. \A b \in Actors \ {a} : hand'[b] = hand[b]
    BY <1>2, <2>1
  <2>3. Ready(a, pc'[a], hand'[a], received')
    BY <2>1 DEF Ready
  <2> QED BY <1>1, <2>1, <2>2, <2>3, ReadyKept
<1> QED BY <1>3, <1>4, <1>5, <1>6, <1>7, <1>8 DEF Create

LEMMA EnqueueReady ==
  ASSUME PlaceTypes, OffInv, DataTypes, ReadyInv, NEW a \in Actors, Enqueue(a)
  PROVE  ReadyInv' /\ \A b \in Actors \ {a} : hand'[b] = hand[b]
<1> USE DEF pendingVars
<1>1. Only(a)
  BY ActorMoves
<1>2. hand \in [Actors -> Seq(Segments)]
  BY DEF DataTypes
<1>3. CASE EnqueueEnd(a)
  <2>1. /\ hand' = hand /\ received' = received /\ hand[a] = <<>>
        /\ pc'[a] = IF a = Consumer THEN "recv" ELSE "end"
    BY <1>3, GotoMoves DEF EnqueueEnd, Home, Places
  <2>2. Ready(a, pc'[a], hand'[a], received')
    BY <2>1 DEF Ready
  <2> QED BY <1>1, <2>1, <2>2, ReadyKept
<1>4. CASE EnqueueCheck(a) \/ EnqueueSend(a) \/ EnqueueClosed(a)
  <2>1. /\ hand' \in {hand, [hand EXCEPT ![a] = Tail(@)]} /\ received' = received
        /\ pc'[a] \in {"send", "enqueue"}
    BY <1>4, GotoMoves DEF EnqueueCheck, EnqueueSend, EnqueueClosed, Places
  <2>2. \A b \in Actors \ {a} : hand'[b] = hand[b]
    BY <1>2, <2>1
  <2>3. Ready(a, pc'[a], hand'[a], received')
    BY <2>1 DEF Ready
  <2> QED BY <1>1, <2>1, <2>2, <2>3, ReadyKept
<1> QED BY <1>3, <1>4 DEF Enqueue

LEMMA ConsumeReady ==
  ASSUME PlaceTypes, OffInv, DataTypes, ReadyInv, Consume
  PROVE  ReadyInv' /\ Only(Consumer) /\ \A b \in Actors \ {Consumer} : hand'[b] = hand[b]
<1> USE DEF pendingVars
<1> DEFINE c == Consumer
<1>1. c \in Actors /\ hand \in [Actors -> Seq(Segments)] /\ Ready(c, pc[c], hand[c], received)
  BY DEF Actors, DataTypes, ReadyInv
<1>2. CASE ConsumerRecv
  <2>1. /\ hand' = [hand EXCEPT ![c] = <<received'>>] /\ Only(c)
        /\ pc'[c] \in {"enqueue", "fast"}
    BY <1>1, <1>2, GotoMoves DEF ConsumerRecv, Places
  <2>2. hand'[c] = <<received'>> /\ \A b \in Actors \ {c} : hand'[b] = hand[b]
    BY <1>1, <2>1
  <2>3. Ready(c, pc'[c], hand'[c], received')
    BY <2>1, <2>2 DEF Ready
  <2> QED BY <1>1, <2>1, <2>2, <2>3, ReadyKept
<1>3. CASE BufferPending
  <2>1. hand' = [hand EXCEPT ![c] = <<>>] /\ received' = received /\ Only(c) /\ pc'[c] = "recv"
    BY <1>1, <1>3, ScheduleMoves DEF BufferPending, BufferItem, Places
  <2>2. hand'[c] = <<>> /\ \A b \in Actors \ {c} : hand'[b] = hand[b]
    BY <1>1, <2>1
  <2>3. Ready(c, pc'[c], hand'[c], received')
    BY <2>1, <2>2 DEF Ready
  <2> QED BY <1>1, <2>1, <2>2, <2>3, ReadyKept
<1>4. CASE ConsumerEnd
  <2>1. /\ hand' = hand /\ received' = received /\ Only(c)
        /\ pc[c] = "recv" /\ pc'[c] = "end"
    BY <1>1, <1>4, GotoMoves DEF ConsumerEnd, Places
  <2>2. Ready(c, pc'[c], hand'[c], received')
    BY <1>1, <2>1 DEF Ready
  <2> QED BY <1>1, <2>1, <2>2, ReadyKept
<1> QED BY <1>2, <1>3, <1>4 DEF Consume

LEMMA RetryReady ==
  ASSUME PlaceTypes, OffInv, DataTypes, ReadyInv, NEW t \in Timers, Retry(t)
  PROVE  /\ ReadyInv' /\ Only(t) /\ pc'[t] \in {"end", "fast"}
         /\ pc[t] \in {"set", "again", "failed"}
         /\ UNCHANGED <<hand, to, received, queue, done, overtook, streams>>
<1> USE DEF pendingVars, streamVars, workerVars, historyVars
<1>0. t \in Actors /\ t # Consumer
  BY DEF Actors, Timers, Consumer
<1>1. /\ Only(t) /\ pc'[t] \in {"end", "fast"} /\ pc[t] \in {"set", "again", "failed"}
      /\ UNCHANGED <<hand, to, received, queue, done, overtook, streams>>
  <2>1. CASE RetryFires(t)
    BY <1>0, <2>1, GotoMoves DEF RetryFires, Places
  <2>2. CASE RetryAgain(t) /\ pending = <<>>
    BY <1>0, <2>2, GotoMoves DEF RetryAgain, Places
  <2>3. CASE RetryAgain(t) /\ pending # <<>>
    BY <1>0, <2>3, ScheduleMoves DEF RetryAgain, Places
  <2>4. CASE RetryAbandons(t)
    BY <1>0, <2>4, StopMoves DEF RetryAbandons, DeletePending, Places
  <2>5. CASE RetryGoesOn(t) /\ pending = <<>>
    BY <1>0, <2>5, GotoMoves DEF RetryGoesOn, Places
  <2>6. CASE RetryGoesOn(t) /\ pending # <<>>
    BY <1>0, <2>6, ScheduleMoves DEF RetryGoesOn, Places
  <2> QED BY <2>1, <2>2, <2>3, <2>4, <2>5, <2>6 DEF Retry
<1>2. Ready(t, pc[t], hand[t], received)
  BY <1>0 DEF ReadyInv
<1>3. Ready(t, pc'[t], hand'[t], received')
  BY <1>0, <1>1, <1>2 DEF Ready
<1> QED BY <1>0, <1>1, <1>3, ReadyKept

\* The steps of nobody: a timer at most is stopped.
LEMMA OthersReady ==
  ASSUME PlaceTypes, OffInv, ReadyInv, Shutdown \/ \E h \in Streams : Worker(h)
  PROVE  /\ ReadyInv' /\ UNCHANGED <<hand, to, received, overtook, streams>>
         /\ \A b \in Actors : pc'[b] = pc[b] \/ (pc[b] = "set" /\ pc'[b] = "end")
<1> USE DEF actorVars, pendingVars, streamVars, workerVars, historyVars
<1>1. UNCHANGED <<hand, to, received, overtook, streams>>
  BY DEF Shutdown, ShutdownStart, CloseAllStreams, ShutdownPending, ShutdownTimeout,
         Worker, WorkerTakes, WorkerStops, WorkerExits, WorkerCancels
<1>2. pc' = pc \/ pc' = StopTimer(pc)
  BY DEF Shutdown, ShutdownStart, CloseAllStreams, ShutdownPending, ShutdownTimeout,
         DeletePending, Worker, WorkerTakes, WorkerStops, WorkerExits, WorkerCancels
<1>3. \A b \in Actors : pc'[b] = pc[b] \/ (pc[b] = "set" /\ pc'[b] = "end")
  BY <1>2, StopTimerSpec DEF PlaceTypes
<1>4. ASSUME NEW b \in Actors PROVE Ready(b, pc'[b], hand[b], received)
  <2>1. Ready(b, pc[b], hand[b], received)
    BY DEF ReadyInv
  <2> QED BY <1>3, <2>1 DEF Ready
<1> QED BY <1>1, <1>3, <1>4 DEF ReadyInv


-----------------------------------------------------------------------------
(* How the segments move.                                                  *)

LEMMA OnceInitial == Init => OnceInv
<1> SUFFICES ASSUME Init PROVE OnceInv
  OBVIOUS
<1> DEFINE E == Contents(pending, hand, queue, done, dropped)
<1>1. ToSet(<<>>) = {} /\ Distinct(<<>>)
  BY DEF ToSet, Distinct
<1>2. \A m \in Homes : E[m] = {}
  BY <1>1, ContentsOf, EveryHome DEF Init
<1>3. Parted(E, received)
  BY <1>2 DEF Parted, Init
<1> QED BY <1>1, <1>3 DEF OnceInv, Once, Init

\* The homes outside H are as they were.
LEMMA SameContents ==
  ASSUME NEW dn, NEW dn2, NEW H,
         Waiting \in H \/ pending' = pending, Given \in H \/ dropped' = dropped,
         \A a \in Actors : Hands(a) \in H \/ hand'[a] = hand[a],
         \A h \in Streams : Queued(h) \in H \/ queue'[h] = queue[h],
         \A h \in Streams : Worked(h) \in H \/ dn2[h] = dn[h]
  PROVE  \A m \in Homes \ H : Contents(pending', hand', queue', dn2, dropped')[m] =
                              Contents(pending, hand, queue, dn, dropped)[m]
<1> SUFFICES ASSUME NEW m \in Homes, m \notin H
             PROVE  Contents(pending', hand', queue', dn2, dropped')[m] =
                    Contents(pending, hand, queue, dn, dropped)[m]
  OBVIOUS
<1>1. CASE m = Waiting
  BY <1>1, ContentsOf
<1>2. CASE m = Given
  BY <1>2, ContentsOf
<1>3. ASSUME NEW a \in Actors, m = Hands(a)
      PROVE  Contents(pending', hand', queue', dn2, dropped')[m] =
             Contents(pending, hand, queue, dn, dropped)[m]
  <2>1. hand'[a] = hand[a]
    BY <1>3
  <2> QED BY <1>3, <2>1, ContentsOf
<1>4. ASSUME NEW h \in Streams, m = Queued(h)
      PROVE  Contents(pending', hand', queue', dn2, dropped')[m] =
             Contents(pending, hand, queue, dn, dropped)[m]
  <2>1. queue'[h] = queue[h]
    BY <1>4
  <2> QED BY <1>4, <2>1, ContentsOf
<1>5. ASSUME NEW h \in Streams, m = Worked(h)
      PROVE  Contents(pending', hand', queue', dn2, dropped')[m] =
             Contents(pending, hand, queue, dn, dropped)[m]
  <2>1. dn2[h] = dn[h]
    BY <1>5
  <2> QED BY <1>5, <2>1, ContentsOf
<1> QED BY <1>1, <1>2, <1>3, <1>4, <1>5, EveryHome

LEMMA SameHomes ==
  ASSUME NEW dn, NEW H,
         Waiting \in H \/ pending' = pending, Given \in H \/ dropped' = dropped,
         \A a \in Actors : Hands(a) \in H \/ hand'[a] = hand[a],
         \A h \in Streams : Queued(h) \in H \/ queue'[h] = queue[h]
  PROVE  \A m \in Homes \ H : Contents(pending', hand', queue', dn, dropped')[m] =
                              Contents(pending, hand, queue, dn, dropped)[m]
BY SameContents

LEMMA OnceStays ==
  ASSUME OnceInv, UNCHANGED <<received, pending, hand, queue, done, dropped>>
  PROVE  OnceInv'
BY DEF OnceInv, Once

\* A factory that fails for good costs the segment in hand.
LEMMA FailsOnce ==
  ASSUME DataTypes, NEW dn,
         Once(pending, hand, queue, dn, dropped, received), NEW a \in Actors, FactoryFails(a)
  PROVE  Once(pending', hand', queue', dn, dropped', received')
<1> USE DEF pendingVars, streamVars, workerVars, historyVars
<1> DEFINE E == Contents(pending, hand, queue, dn, dropped)
           F == Contents(pending', hand', queue', dn, dropped')
           X == ToSet(hand[a])
<1>1. /\ hand' = [hand EXCEPT ![a] = <<>>] /\ dropped' = dropped \cup X
      /\ UNCHANGED <<received, pending, queue>>
  BY DEF FactoryFails
<1>2. hand'[a] = <<>> /\ \A b \in Actors \ {a} : hand'[b] = hand[b]
  BY <1>1 DEF DataTypes
<1>3. ToSet(<<>>) = {} /\ Distinct(<<>>)
  BY DEF ToSet, Distinct
<1>4. E[Hands(a)] = X /\ E[Given] = dropped /\ F[Hands(a)] = {} /\ F[Given] = dropped \cup X
  <2>1. E[Hands(a)] = ToSet(hand[a]) /\ E[Given] = dropped
    BY ContentsOf
  <2>2. F[Hands(a)] = ToSet(hand'[a]) /\ F[Given] = dropped'
    BY ContentsOf
  <2> QED BY <1>1, <1>2, <1>3, <2>1, <2>2
<1>5. \A m \in Homes \ {Hands(a), Given} : F[m] = E[m]
  <2> DEFINE H == {Hands(a), Given}
  <2>1. /\ Waiting \in H \/ pending' = pending
        /\ Given \in H \/ dropped' = dropped
        /\ \A b \in Actors : Hands(b) \in H \/ hand'[b] = hand[b]
        /\ \A g \in Streams : Queued(g) \in H \/ queue'[g] = queue[g]
    BY <1>1, <1>2
  <2> HIDE DEF H
  <2>2. \A m \in Homes \ H : F[m] = E[m]
    BY <2>1, SameHomes
  <2> QED BY <2>2 DEF H
<1>6. Hands(a) \in Homes /\ Given \in Homes /\ Hands(a) # Given
  BY HomesDiffer
<1> HIDE DEF E, F, X
<1>7. Parted(F, received)
  <2>1. Parted(E, received)
    BY DEF Once, E
  <2> QED BY <1>4, <1>5, <1>6, <2>1, Moved
<1> QED BY <1>1, <1>2, <1>3, <1>7 DEF Once, F

\* Whoever flushes takes the waiting segments, which it does not have yet.
LEMMA FlushOnce ==
  ASSUME DataTypes, NEW dn,
         Once(pending, hand, queue, dn, dropped, received), NEW a \in Actors, FlushPending(a)
  PROVE  Once(pending', hand', queue', dn, dropped', received')
<1> USE DEF pendingVars, streamVars, workerVars, historyVars
<1> DEFINE E == Contents(pending, hand, queue, dn, dropped)
           F == Contents(pending', hand', queue', dn, dropped')
           X == ToSet(pending)
<1>1. /\ hand' = [hand EXCEPT ![a] = pending \o hand[a]] /\ pending' = <<>>
      /\ UNCHANGED <<received, dropped, queue>>
  BY DEF FlushPending
<1>2. hand'[a] = pending \o hand[a] /\ \A b \in Actors \ {a} : hand'[b] = hand[b]
  BY <1>1 DEF DataTypes
<1>3. ToSet(<<>>) = {} /\ Distinct(<<>>)
  BY DEF ToSet, Distinct
<1>4. pending \in Seq(Segments) /\ hand[a] \in Seq(Segments)
  BY DEF DataTypes
<1>5. E[Hands(a)] = ToSet(hand[a]) /\ E[Waiting] = X
  BY ContentsOf
<1>6. Hands(a) \in Homes /\ Waiting \in Homes /\ Hands(a) # Waiting
  BY HomesDiffer
<1>7. Parted(E, received) /\ X \cap ToSet(hand[a]) = {}
  BY <1>5, <1>6 DEF Once, Parted
<1>8. ToSet(pending \o hand[a]) = X \cup ToSet(hand[a]) /\ Distinct(pending \o hand[a])
  BY <1>4, <1>7, ConcatMembers DEF Once
<1>9. F[Hands(a)] = X \cup ToSet(hand[a]) /\ F[Waiting] = {}
  <2>1. F[Hands(a)] = ToSet(hand'[a]) /\ F[Waiting] = ToSet(pending')
    BY ContentsOf
  <2> QED BY <1>1, <1>2, <1>3, <1>8, <2>1
<1>10. \A m \in Homes \ {Hands(a), Waiting} : F[m] = E[m]
  <2> DEFINE H == {Hands(a), Waiting}
  <2>1. /\ Waiting \in H \/ pending' = pending
        /\ Given \in H \/ dropped' = dropped
        /\ \A b \in Actors : Hands(b) \in H \/ hand'[b] = hand[b]
        /\ \A g \in Streams : Queued(g) \in H \/ queue'[g] = queue[g]
    BY <1>1, <1>2
  <2> HIDE DEF H
  <2>2. \A m \in Homes \ H : F[m] = E[m]
    BY <2>1, SameHomes
  <2> QED BY <2>2 DEF H
<1> HIDE DEF E, F, X
<1>11. Parted(F, received)
  BY <1>5, <1>6, <1>7, <1>9, <1>10, Moved
<1> QED BY <1>1, <1>2, <1>3, <1>8, <1>11 DEF Once, F

\* Enqueue moves the head of the hand to the stream's channel ...
LEMMA SendOnce ==
  ASSUME DataTypes, NEW dn,
         Once(pending, hand, queue, dn, dropped, received), NEW a \in Actors, to[a] \in Streams, hand[a] # <<>>,
         EnqueueSend(a)
  PROVE  Once(pending', hand', queue', dn, dropped', received')
<1> USE DEF pendingVars, streamVars, workerVars, historyVars
<1> DEFINE E == Contents(pending, hand, queue, dn, dropped)
           F == Contents(pending', hand', queue', dn, dropped')
           h == to[a]
           x == Head(hand[a])
<1>1. /\ hand' = [hand EXCEPT ![a] = Tail(hand[a])]
      /\ queue' = [queue EXCEPT ![h] = Append(queue[h], x)]
      /\ UNCHANGED <<received, pending, dropped>>
  BY DEF EnqueueSend
<1>2. /\ hand'[a] = Tail(hand[a]) /\ \A b \in Actors \ {a} : hand'[b] = hand[b]
      /\ queue'[h] = Append(queue[h], x) /\ \A g \in Streams \ {h} : queue'[g] = queue[g]
  BY <1>1 DEF DataTypes
<1>3. hand[a] \in Seq(Segments) /\ queue[h] \in Seq(Segments) /\ x \in Segments
  BY TakeHead DEF DataTypes
<1>4. Hands(a) \in Homes /\ Queued(h) \in Homes /\ Hands(a) # Queued(h)
  BY HomesDiffer
<1>5. E[Hands(a)] = ToSet(hand[a]) /\ E[Queued(h)] = ToSet(queue[h])
  BY ContentsOf
<1>6. x \in ToSet(hand[a]) /\ ToSet(Tail(hand[a])) = ToSet(hand[a]) \ {x} /\ Distinct(Tail(hand[a]))
  BY <1>3, TailMembers DEF Once
<1>7. Parted(E, received) /\ x \notin ToSet(queue[h])
  BY <1>4, <1>5, <1>6 DEF Once, Parted
<1>8. ToSet(Append(queue[h], x)) = ToSet(queue[h]) \cup {x} /\ Distinct(Append(queue[h], x))
  BY <1>3, <1>7, AppendMembers DEF Once
<1>9. F[Hands(a)] = ToSet(hand[a]) \ {x} /\ F[Queued(h)] = ToSet(queue[h]) \cup {x}
  <2>1. F[Hands(a)] = ToSet(hand'[a]) /\ F[Queued(h)] = ToSet(queue'[h])
    BY ContentsOf
  <2> QED BY <1>2, <1>6, <1>8, <2>1
<1>10. \A m \in Homes \ {Hands(a), Queued(h)} : F[m] = E[m]
  <2> DEFINE H == {Hands(a), Queued(h)}
  <2>1. Hands(a) \in H /\ Queued(h) \in H
    OBVIOUS
  <2> HIDE DEF H
  <2>2. /\ pending' = pending /\ dropped' = dropped
        /\ \A b \in Actors : Hands(b) \in H \/ hand'[b] = hand[b]
        /\ \A g \in Streams : Queued(g) \in H \/ queue'[g] = queue[g]
        /\ \A g \in Streams : Worked(g) \in H \/ dn[g] = dn[g]
    BY <1>1, <1>2, <2>1
  <2>3. \A m \in Homes \ H : F[m] = E[m]
    BY <2>2, SameHomes
  <2> QED BY <2>3 DEF H
<1> HIDE DEF E, F, x
<1>11. Parted(F, received)
  <2> DEFINE X == {x}
  <2>1. X \subseteq E[Hands(a)] /\ F[Hands(a)] = E[Hands(a)] \ X /\ F[Queued(h)] = E[Queued(h)] \cup X
    BY <1>5, <1>6, <1>9
  <2>2. h \in Streams
    OBVIOUS
  <2> HIDE DEF X, h
  <2> QED BY <1>4, <1>7, <1>10, <2>1, <2>2, Moved
<1>12. \A b \in Actors : Distinct(hand'[b])
  BY <1>2, <1>6 DEF Once
<1>13. \A g \in Streams : Distinct(queue'[g])
  BY <1>2, <1>8 DEF Once
<1> QED BY <1>1, <1>11, <1>12, <1>13 DEF Once, F

\* ... or gives it up.
GivesUp(a) ==
  /\ hand[a] # <<>> /\ hand' = [hand EXCEPT ![a] = Tail(hand[a])]
  /\ dropped' = dropped \cup {Head(hand[a])} /\ UNCHANGED <<received, pending, queue>>

LEMMA ClosedOnce ==
  ASSUME DataTypes, NEW dn,
         Once(pending, hand, queue, dn, dropped, received), NEW a \in Actors, GivesUp(a)
  PROVE  Once(pending', hand', queue', dn, dropped', received')
<1> DEFINE E == Contents(pending, hand, queue, dn, dropped)
           F == Contents(pending', hand', queue', dn, dropped')
           x == Head(hand[a])
<1>1. /\ hand' = [hand EXCEPT ![a] = Tail(hand[a])] /\ hand[a] # <<>>
      /\ dropped' = dropped \cup {x} /\ UNCHANGED <<received, pending, queue>>
  BY DEF GivesUp
<1>2. hand'[a] = Tail(hand[a]) /\ \A b \in Actors \ {a} : hand'[b] = hand[b]
  BY <1>1 DEF DataTypes
<1>3. hand[a] \in Seq(Segments)
  BY DEF DataTypes
<1>4. Hands(a) \in Homes /\ Given \in Homes /\ Hands(a) # Given
  BY HomesDiffer
<1>5. x \in ToSet(hand[a]) /\ ToSet(Tail(hand[a])) = ToSet(hand[a]) \ {x} /\ Distinct(Tail(hand[a]))
  BY <1>1, <1>3, TailMembers DEF Once
<1>6. /\ E[Hands(a)] = ToSet(hand[a]) /\ E[Given] = dropped
      /\ F[Hands(a)] = ToSet(hand[a]) \ {x} /\ F[Given] = dropped \cup {x}
  <2>1. E[Hands(a)] = ToSet(hand[a]) /\ E[Given] = dropped
    BY ContentsOf
  <2>2. F[Hands(a)] = ToSet(hand'[a]) /\ F[Given] = dropped'
    BY ContentsOf
  <2> QED BY <1>1, <1>2, <1>5, <2>1, <2>2
<1>7. \A m \in Homes \ {Hands(a), Given} : F[m] = E[m]
  <2> DEFINE H == {Hands(a), Given}
  <2>1. /\ Waiting \in H \/ pending' = pending
        /\ Given \in H \/ dropped' = dropped
        /\ \A b \in Actors : Hands(b) \in H \/ hand'[b] = hand[b]
        /\ \A g \in Streams : Queued(g) \in H \/ queue'[g] = queue[g]
    BY <1>1, <1>2
  <2> HIDE DEF H
  <2>2. \A m \in Homes \ H : F[m] = E[m]
    BY <2>1, SameHomes
  <2> QED BY <2>2 DEF H
<1>8. Parted(E, received)
  BY DEF Once
<1> HIDE DEF E, F, x
<1>9. Parted(F, received)
  <2> DEFINE X == {x}
  <2>1. X \subseteq E[Hands(a)] /\ F[Hands(a)] = E[Hands(a)] \ X /\ F[Given] = E[Given] \cup X
    BY <1>5, <1>6
  <2> HIDE DEF X
  <2> QED BY <1>4, <1>7, <1>8, <2>1, Moved
<1>10. \A b \in Actors : Distinct(hand'[b])
  BY <1>2, <1>5 DEF Once
<1> QED BY <1>1, <1>9, <1>10 DEF Once, F

\* A segment that is taken from the subscription is new.
LEMMA RecvOnce ==
  ASSUME DataTypes, ReadyInv, NEW dn,
         Once(pending, hand, queue, dn, dropped, received), ConsumerRecv
  PROVE  Once(pending', hand', queue', dn, dropped', received')
<1> USE DEF pendingVars, streamVars, workerVars, historyVars
<1> DEFINE E == Contents(pending, hand, queue, dn, dropped)
           F == Contents(pending', hand', queue', dn, dropped')
           c == Consumer
<1>0. c \in Actors
  BY DEF Actors
<1>1. /\ received' = received + 1 /\ hand' = [hand EXCEPT ![c] = <<received + 1>>]
      /\ UNCHANGED <<pending, queue, dropped>> /\ pc[c] = "recv" /\ received \in Nat
  BY DEF ConsumerRecv, DataTypes
<1>2. hand'[c] = <<received + 1>> /\ \A b \in Actors \ {c} : hand'[b] = hand[b]
  BY <1>0, <1>1 DEF DataTypes
<1>3. hand[c] = <<>>
  BY <1>0, <1>1 DEF ReadyInv, Ready
<1>4. received + 1 \in Segments
  BY <1>1, BoundAssumption DEF ConsumerRecv, DataTypes, Segments
<1>5. ToSet(<<received + 1>>) = {received + 1} /\ Distinct(<<received + 1>>) /\ ToSet(<<>>) = {}
  BY <1>4, SingleMembers
<1>6. E[Hands(c)] = {} /\ F[Hands(c)] = {received + 1}
  BY <1>0, <1>2, <1>3, <1>5, ContentsOf
<1>7. \A m \in Homes \ {Hands(c)} : F[m] = E[m]
  <2> DEFINE H == {Hands(c)}
  <2>1. /\ Waiting \in H \/ pending' = pending
        /\ Given \in H \/ dropped' = dropped
        /\ \A b \in Actors : Hands(b) \in H \/ hand'[b] = hand[b]
        /\ \A g \in Streams : Queued(g) \in H \/ queue'[g] = queue[g]
    BY <1>1, <1>2
  <2> HIDE DEF H
  <2>2. \A m \in Homes \ H : F[m] = E[m]
    BY <2>1, SameHomes
  <2> QED BY <2>2 DEF H
<1>8. Parted(E, received) /\ Hands(c) \in Homes
  BY <1>0, HomesDiffer DEF Once
<1> HIDE DEF E, F
<1>9. F[Hands(c)] = E[Hands(c)] \cup {received + 1}
  BY <1>6
<1>10. Parted(F, received + 1)
  BY <1>1, <1>7, <1>8, <1>9, Arrived
<1>11. \A b \in Actors : Distinct(hand'[b])
  BY <1>2, <1>5 DEF Once
<1> QED BY <1>1, <1>10, <1>11 DEF Once, F

\* Segment x leaves home m, and the others but the pending queue stay.
Leaves(x, m, dn, dn2) ==
  /\ x \in Contents(pending, hand, queue, dn, dropped)[m]
  /\ Contents(pending', hand', queue', dn2, dropped')[m] =
         Contents(pending, hand, queue, dn, dropped)[m] \ {x}
  /\ \A a \in Actors : Hands(a) = m \/ hand'[a] = hand[a]
  /\ \A h \in Streams : Queued(h) = m \/ queue'[h] = queue[h]
  /\ \A h \in Streams : Worked(h) = m \/ dn2[h] = dn[h]
  /\ \A a \in Actors : Distinct(hand'[a])
  /\ \A h \in Streams : Distinct(queue'[h]) /\ Distinct(dn2[h])

\* It goes to the pending queue, which may cost the oldest of those there.
LEMMA ItemOnce ==
  ASSUME DataTypes, NEW dn, NEW dn2,
         Once(pending, hand, queue, dn, dropped, received),
         NEW x \in Segments, NEW at, BufferItem(x, at), received' = received,
         NEW m \in Homes, m # Waiting, m # Given,
         Leaves(x, m, dn, dn2)
  PROVE  Once(pending', hand', queue', dn2, dropped', received')
<1> DEFINE full == Len(pending) >= MaxPending
           kept == IF full THEN Tail(pending) ELSE pending
           lost == IF full THEN {Head(pending)} ELSE {}
           E == Contents(pending, hand, queue, dn, dropped)
           M == Contents(kept, hand, queue, dn, dropped \cup lost)
           F == Contents(pending', hand', queue', dn2, dropped')
<1>2. pending' = Append(kept, x) /\ dropped' = dropped \cup lost
  BY DEF BufferItem
<1>4. pending \in Seq(Segments) /\ (full => pending # <<>>)
  BY SizeAssumption DEF DataTypes
<1>5. /\ kept \in Seq(Segments) /\ Distinct(kept) /\ lost \subseteq ToSet(pending)
      /\ ToSet(kept) = ToSet(pending) \ lost
  <2>1. CASE full
    BY <1>4, <2>1, TailMembers, TakeHead DEF Once
  <2>2. CASE ~full
    BY <1>4, <2>2 DEF Once
  <2> QED BY <2>1, <2>2
<1> HIDE DEF full, kept, lost
<1>7. /\ E[Waiting] = ToSet(pending) /\ M[Waiting] = ToSet(kept)
      /\ E[Given] = dropped /\ M[Given] = dropped \cup lost /\ F[Given] = dropped \cup lost
      /\ F[Waiting] = ToSet(Append(kept, x))
  BY <1>2, ContentsOf
<1>8. Waiting \in Homes /\ Given \in Homes /\ Waiting # Given
  BY HomesDiffer
<1>9. ASSUME NEW n \in Homes, n # Waiting, n # Given PROVE M[n] = E[n]
  BY <1>9, ContentsOf, EveryHome
<1>10. \A n \in Homes \ {Waiting, Given, m} : F[n] = E[n]
  <2> DEFINE H == {Waiting, Given, m}
  <2>1. /\ Waiting \in H \/ pending' = pending
        /\ Given \in H \/ dropped' = dropped
        /\ \A b \in Actors : Hands(b) \in H \/ hand'[b] = hand[b]
        /\ \A g \in Streams : Queued(g) \in H \/ queue'[g] = queue[g]
        /\ \A g \in Streams : Worked(g) \in H \/ dn2[g] = dn[g]
    BY DEF Leaves
  <2> HIDE DEF H
  <2>2. \A n \in Homes \ H : F[n] = E[n]
    BY <2>1, SameContents
  <2> QED BY <2>2 DEF H
<1>11. Parted(E, received) /\ x \in E[m] /\ F[m] = E[m] \ {x}
  BY DEF Once, Leaves
<1> HIDE DEF E, M, F
<1>12. Parted(M, received)
  <2>1. /\ lost \subseteq E[Waiting] /\ M[Waiting] = E[Waiting] \ lost
        /\ M[Given] = E[Given] \cup lost
        /\ \A n \in Homes \ {Waiting, Given} : M[n] = E[n]
    BY <1>5, <1>7, <1>9
  <2> QED BY <1>8, <1>11, <2>1, Moved
<1>13. x \notin ToSet(kept) /\ M[m] = E[m]
  BY <1>7, <1>8, <1>9, <1>11, <1>12 DEF Parted
<1>14. /\ ToSet(Append(kept, x)) = ToSet(kept) \cup {x}
       /\ Distinct(Append(kept, x))
  BY <1>5, <1>13, AppendMembers
<1>15. /\ F[Waiting] = M[Waiting] \cup {x} /\ F[m] = M[m] \ {x}
       /\ {x} \subseteq M[m]
       /\ \A n \in Homes \ {m, Waiting} : F[n] = M[n]
  BY <1>7, <1>9, <1>10, <1>11, <1>13, <1>14
<1>16. Parted(F, received)
  <2> DEFINE X == {x}
  <2>1. /\ F[Waiting] = M[Waiting] \cup X /\ F[m] = M[m] \ X
        /\ X \subseteq M[m]
    BY <1>15
  <2> HIDE DEF X
  <2> QED BY <1>8, <1>12, <1>15, <2>1, Moved
<1> QED BY <1>2, <1>14, <1>16 DEF Once, Leaves, F

\* A request in the channel is put back.
LEMMA QueueWaits ==
  ASSUME DataTypes, NEW h \in Streams, queue[h] # <<>>, NEW at,
         BufferItem(Head(queue[h]), at), NEW dn,
         Once(pending, hand, queue, dn, dropped, received),
         queue'[h] = Tail(queue[h]), \A g \in Streams \ {h} : queue'[g] = queue[g],
         UNCHANGED <<received, hand>>
  PROVE  Once(pending', hand', queue', dn, dropped', received')
<1> DEFINE x == Head(queue[h])
           E == Contents(pending, hand, queue, dn, dropped)
           F == Contents(pending', hand', queue', dn, dropped')
<1>0. queue[h] \in Seq(Segments) /\ x \in Segments
  BY TakeHead DEF DataTypes
<1>2. /\ x \in ToSet(queue[h]) /\ ToSet(Tail(queue[h])) = ToSet(queue[h]) \ {x}
      /\ Distinct(Tail(queue[h]))
  BY <1>0, TailMembers DEF Once
<1>5. /\ Queued(h) \in Homes /\ Queued(h) # Waiting /\ Queued(h) # Given
  BY HomesDiffer
<1>6. E[Queued(h)] = ToSet(queue[h]) /\ F[Queued(h)] = ToSet(queue'[h])
  <2>1. E[Queued(h)] = ToSet(queue[h])
    BY ContentsOf
  <2>2. F[Queued(h)] = ToSet(queue'[h])
    BY ContentsOf
  <2> QED BY <2>1, <2>2
<1>7. \A g \in Streams : Distinct(queue'[g]) /\ Distinct(dn[g])
  BY <1>2 DEF Once
<1>8. \A a \in Actors : Distinct(hand'[a])
  BY DEF Once
<1>9. /\ x \in E[Queued(h)] /\ F[Queued(h)] = E[Queued(h)] \ {x}
      /\ \A g \in Streams : Queued(g) = Queued(h) \/ queue'[g] = queue[g]
  BY <1>2, <1>6
<1>10. BufferItem(x, at)
  OBVIOUS
<1>11. Leaves(x, Queued(h), dn, dn)
  BY <1>7, <1>8, <1>9 DEF Leaves
<1> HIDE DEF x
<1> QED BY <1>0, <1>5, <1>10, <1>11, ItemOnce

\* A request in hand is put back.
LEMMA HandWaits ==
  ASSUME DataTypes, NEW a \in Actors, hand[a] # <<>>, NEW at,
         BufferItem(Head(hand[a]), at), NEW dn,
         Once(pending, hand, queue, dn, dropped, received),
         hand'[a] = Tail(hand[a]), \A b \in Actors \ {a} : hand'[b] = hand[b],
         UNCHANGED <<received, queue>>
  PROVE  Once(pending', hand', queue', dn, dropped', received')
<1> DEFINE x == Head(hand[a])
           E == Contents(pending, hand, queue, dn, dropped)
           F == Contents(pending', hand', queue', dn, dropped')
<1>0. hand[a] \in Seq(Segments) /\ x \in Segments
  BY TakeHead DEF DataTypes
<1>2. /\ x \in ToSet(hand[a]) /\ ToSet(Tail(hand[a])) = ToSet(hand[a]) \ {x}
      /\ Distinct(Tail(hand[a]))
  BY <1>0, TailMembers DEF Once
<1>5. /\ Hands(a) \in Homes /\ Hands(a) # Waiting /\ Hands(a) # Given
  BY HomesDiffer
<1>6. E[Hands(a)] = ToSet(hand[a]) /\ F[Hands(a)] = ToSet(hand'[a])
  <2>1. E[Hands(a)] = ToSet(hand[a])
    BY ContentsOf
  <2>2. F[Hands(a)] = ToSet(hand'[a])
    BY ContentsOf
  <2> QED BY <2>1, <2>2
<1>7. \A g \in Streams : Distinct(queue'[g]) /\ Distinct(dn[g])
  BY DEF Once
<1>8. \A b \in Actors : Distinct(hand'[b])
  BY <1>2 DEF Once
<1>9. /\ x \in E[Hands(a)] /\ F[Hands(a)] = E[Hands(a)] \ {x}
      /\ \A b \in Actors : Hands(b) = Hands(a) \/ hand'[b] = hand[b]
  BY <1>2, <1>6
<1>10. BufferItem(x, at)
  OBVIOUS
<1>11. Leaves(x, Hands(a), dn, dn)
  BY <1>7, <1>8, <1>9 DEF Leaves
<1> HIDE DEF x
<1> QED BY <1>0, <1>5, <1>10, <1>11, ItemOnce

\* The consumer buffers the segment it has in hand.
LEMMA BufferOnce ==
  ASSUME DataTypes, ReadyInv, NEW dn,
         Once(pending, hand, queue, dn, dropped, received), BufferPending
  PROVE  Once(pending', hand', queue', dn, dropped', received')
<1> DEFINE c == Consumer
           x == Head(hand[c])
<1>1. c \in Actors /\ pc[c] = "buffer" /\ hand \in [Actors -> Seq(Segments)]
  BY DEF Actors, BufferPending, DataTypes
<1>2. hand[c] = <<received>> /\ hand[c] # <<>> /\ Tail(hand[c]) = <<>>
  <2>1. hand[c] = <<received>>
    BY <1>1 DEF ReadyInv, Ready
  <2>2. <<received>> # <<>> /\ Tail(<<received>>) = <<>>
    OBVIOUS
  <2> QED BY <2>1, <2>2
<1>3. /\ hand' = [hand EXCEPT ![c] = <<>>] /\ UNCHANGED <<received, queue>>
      /\ BufferItem(x, [pc EXCEPT ![c] = "recv"])
  BY DEF BufferPending, workerVars
<1>4. hand'[c] = Tail(hand[c]) /\ \A b \in Actors \ {c} : hand'[b] = hand[b]
  BY <1>1, <1>2, <1>3
<1> QED BY <1>1, <1>2, <1>3, <1>4, HandWaits

\* A queue that is given up is lost as a whole.
LEMMA DeleteOnce ==
  ASSUME DataTypes, NEW dn,
         Once(pending, hand, queue, dn, dropped, received), NEW at, DeletePending(at), UNCHANGED <<received, hand, queue>>
  PROVE  Once(pending', hand', queue', dn, dropped', received')
<1> DEFINE E == Contents(pending, hand, queue, dn, dropped)
           F == Contents(pending', hand', queue', dn, dropped')
           X == ToSet(pending)
<1>1. pending' = <<>> /\ dropped' = dropped \cup X
  BY DEF DeletePending
<1>2. ToSet(<<>>) = {} /\ Distinct(<<>>)
  BY DEF ToSet, Distinct
<1>3. E[Waiting] = X /\ E[Given] = dropped /\ F[Waiting] = {} /\ F[Given] = dropped \cup X
  BY <1>1, <1>2, ContentsOf
<1>4. \A m \in Homes \ {Waiting, Given} : F[m] = E[m]
  BY SameHomes
<1>5. Waiting \in Homes /\ Given \in Homes /\ Waiting # Given
  BY HomesDiffer
<1> HIDE DEF E, F, X
<1>6. Parted(F, received)
  <2>1. Parted(E, received)
    BY DEF Once, E
  <2> QED BY <1>3, <1>4, <1>5, <2>1, Moved
<1> QED BY <1>1, <1>2, <1>6 DEF Once, F

\* The worker takes the segments from its channel one by one.
Takes(h, dn, dn2) ==
  /\ dn \in [Streams -> Seq(Segments)]
  /\ queue[h] # <<>> /\ queue' = [queue EXCEPT ![h] = Tail(@)]
  /\ dn2 = [dn EXCEPT ![h] = Append(@, Head(queue[h]))]
  /\ UNCHANGED <<received, pending, dropped, hand>>

LEMMA TakesOnce ==
  ASSUME DataTypes, NEW dn, NEW dn2, NEW h \in Streams,
         Once(pending, hand, queue, dn, dropped, received), Takes(h, dn, dn2)
  PROVE  Once(pending', hand', queue', dn2, dropped', received')
<1> DEFINE E == Contents(pending, hand, queue, dn, dropped)
           F == Contents(pending', hand', queue', dn2, dropped')
           x == Head(queue[h])
<1>2. /\ queue'[h] = Tail(queue[h]) /\ \A g \in Streams \ {h} : queue'[g] = queue[g]
      /\ dn2[h] = Append(dn[h], x) /\ \A g \in Streams \ {h} : dn2[g] = dn[g]
  BY DEF DataTypes, Takes
<1>1. /\ queue[h] # <<>> /\ dn \in [Streams -> Seq(Segments)]
      /\ UNCHANGED <<received, pending, dropped, hand>>
  BY DEF Takes
<1>3. queue[h] \in Seq(Segments) /\ dn[h] \in Seq(Segments) /\ x \in Segments
  BY <1>1, TakeHead DEF DataTypes
<1>4. Worked(h) \in Homes /\ Queued(h) \in Homes /\ Queued(h) # Worked(h)
  BY HomesDiffer
<1>5. E[Worked(h)] = ToSet(dn[h]) /\ E[Queued(h)] = ToSet(queue[h])
  BY ContentsOf
<1>6. /\ x \in ToSet(queue[h]) /\ ToSet(Tail(queue[h])) = ToSet(queue[h]) \ {x}
      /\ Distinct(Tail(queue[h]))
  BY <1>1, <1>3, TailMembers DEF Once
<1>7. Parted(E, received) /\ x \notin ToSet(dn[h])
  BY <1>4, <1>5, <1>6 DEF Once, Parted
<1>8. ToSet(Append(dn[h], x)) = ToSet(dn[h]) \cup {x} /\ Distinct(Append(dn[h], x))
  BY <1>3, <1>7, AppendMembers DEF Once
<1>9. F[Queued(h)] = ToSet(queue[h]) \ {x} /\ F[Worked(h)] = ToSet(dn[h]) \cup {x}
  <2>1. F[Queued(h)] = ToSet(queue'[h]) /\ F[Worked(h)] = ToSet(dn2[h])
    BY ContentsOf
  <2> QED BY <1>2, <1>6, <1>8, <2>1
<1>10. \A m \in Homes \ {Queued(h), Worked(h)} : F[m] = E[m]
  <2> DEFINE H == {Queued(h), Worked(h)}
  <2>1. Queued(h) \in H /\ Worked(h) \in H
    OBVIOUS
  <2> HIDE DEF H
  <2>2. /\ pending' = pending /\ dropped' = dropped
        /\ \A b \in Actors : Hands(b) \in H \/ hand'[b] = hand[b]
        /\ \A g \in Streams : Queued(g) \in H \/ queue'[g] = queue[g]
        /\ \A g \in Streams : Worked(g) \in H \/ dn2[g] = dn[g]
    BY <1>1, <1>2, <2>1
  <2>3. \A m \in Homes \ H : F[m] = E[m]
    BY <2>2, SameContents
  <2> QED BY <2>3 DEF H
<1> HIDE DEF E, F, x
<1>11. Parted(F, received)
  <2> DEFINE X == {x}
  <2>1. X \subseteq E[Queued(h)] /\ F[Queued(h)] = E[Queued(h)] \ X /\ F[Worked(h)] = E[Worked(h)] \cup X
    BY <1>5, <1>6, <1>9
  <2> HIDE DEF X
  <2> QED BY <1>4, <1>7, <1>10, <2>1, Moved
<1>12. \A g \in Streams : Distinct(queue'[g]) /\ Distinct(dn2[g])
  BY <1>2, <1>6, <1>8 DEF Once
<1> QED BY <1>1, <1>11, <1>12 DEF Once, F


LEMMA OnceStep ==
  ASSUME StreamInv, DataTypes, HandInv, ReadyInv, OnceInv, [Next]_vars
  PROVE  OnceInv'
<1> USE DEF actorVars, pendingVars, streamVars, workerVars, historyVars
<1>0. /\ Once(pending, hand, queue, done, dropped, received) /\ done \in [Streams -> Seq(Segments)]
      /\ Once(pending', hand', queue', done', dropped', received') => OnceInv'
  BY DEF OnceInv, DataTypes
<1>1. ASSUME NEW a \in Actors, Create(a) PROVE OnceInv'
  <2>1. CASE CreateFast(a) \/ FactoryOpens(a) \/ FactoryUnavailable(a) \/ Register(a)
    BY <2>1, OnceStays DEF CreateFast, FactoryOpens, FactoryUnavailable, Register
  <2>2. CASE FactoryFails(a) \/ FlushPending(a)
    <3>1. done' = done
      BY <2>2 DEF FactoryFails, FlushPending
    <3> QED BY <1>0, <2>2, <3>1, FailsOnce, FlushOnce
  <2> QED BY <1>1, <2>1, <2>2 DEF Create
<1>2. ASSUME NEW a \in Actors, Enqueue(a) PROVE OnceInv'
  <2>1. CASE EnqueueCheck(a) \/ EnqueueEnd(a)
    BY <2>1, OnceStays DEF EnqueueCheck, EnqueueEnd
  <2>2. CASE EnqueueSend(a)
    <3>1. pc[a] = "send"
      BY <2>2 DEF EnqueueSend
    <3>2. to[a] \in Streams /\ hand[a] # <<>>
      BY <3>1 DEF StreamInv, SharedInv, PlaceTypes, FlowInv, Holding, HandInv
    <3>3. done' = done
      BY <2>2 DEF EnqueueSend
    <3> QED BY <1>0, <2>2, <3>2, <3>3, SendOnce
  <2>3. CASE EnqueueClosed(a)
    <3>1. done' = done /\ GivesUp(a)
      BY <2>3 DEF EnqueueClosed, GivesUp
    <3> QED BY <1>0, <3>1, ClosedOnce
  <2> QED BY <1>2, <2>1, <2>2, <2>3 DEF Enqueue
<1>3. CASE Consume
  <2>1. CASE ConsumerEnd
    BY <2>1, OnceStays DEF ConsumerEnd
  <2>2. CASE ConsumerRecv \/ BufferPending
    <3>1. done' = done
      BY <2>2 DEF ConsumerRecv, BufferPending
    <3> QED BY <1>0, <2>2, <3>1, RecvOnce, BufferOnce
  <2> QED BY <1>3, <2>1, <2>2 DEF Consume
<1>4. ASSUME NEW t \in Timers, Retry(t) PROVE OnceInv'
  <2>1. CASE RetryFires(t) \/ RetryAgain(t) \/ RetryGoesOn(t)
    BY <2>1, OnceStays DEF RetryFires, RetryAgain, RetryGoesOn
  <2>2. CASE RetryAbandons(t)
    BY <1>0, <2>2, DeleteOnce DEF RetryAbandons
  <2> QED BY <1>4, <2>1, <2>2 DEF Retry
<1>5. ASSUME NEW h \in Streams, Worker(h) PROVE OnceInv'
  <2>1. CASE WorkerStops(h) \/ WorkerExits(h) \/ WorkerCancels(h)
    BY <2>1, OnceStays DEF WorkerStops, WorkerExits, WorkerCancels
  <2>2. CASE WorkerTakes(h)
    <3>1. Takes(h, done, done')
      BY <1>0, <2>2 DEF WorkerTakes, Takes
    <3> QED BY <1>0, <3>1, TakesOnce
  <2> QED BY <1>5, <2>1, <2>2 DEF Worker
<1>6. CASE Shutdown
  <2>1. CASE ShutdownStart \/ CloseAllStreams \/ ShutdownTimeout
    BY <2>1, OnceStays DEF ShutdownStart, CloseAllStreams, ShutdownTimeout
  <2>2. CASE ShutdownPending
    BY <1>0, <2>2, DeleteOnce DEF ShutdownPending
  <2> QED BY <1>6, <2>1, <2>2 DEF Shutdown
<1>7. CASE UNCHANGED vars
  BY <1>7, OnceStays DEF vars
<1> QED BY <1>1, <1>2, <1>3, <1>4, <1>5, <1>6, <1>7 DEF Next

-----------------------------------------------------------------------------
(* The order.  An actor owns a stream if it registered it and will replay, *)
(* or replays, older segments to it: nobody else does, and the consumer's  *)
(* segments that get in between are those in overtook.                     *)

Owns(a, h, t, p, s, r) ==
    /\ t = h
    /\ p \in {"register", "flush"} \/ (s # <<>> /\ (a # Consumer \/ s # <<r>>))

\* Of d and q, the segments that are newer than one of s have overtaken it.
Older(s, d, q, o) == \A x \in ToSet(s), y \in ToSet(d) \cup ToSet(q) : y > x => y \in o

InLine(s, o) == \A i, j \in 1..Len(s) : i < j /\ s[i] > s[j] => s[i] \in o

OwnInv ==
    \A h \in Streams, a, b \in Actors :
        /\ Owns(a, h, to[a], pc[a], hand[a], received)
        /\ Owns(b, h, to[b], pc[b], hand[b], received)
        => a = b

OlderInv ==
    \A a \in Actors : to[a] # 0 =>
        /\ Older(hand[a], done[to[a]], queue[to[a]], overtook)
        /\ pc[a] = "flush" => Older(pending, done[to[a]], queue[to[a]], overtook)

OrderInv ==
    /\ Sorted(pending) /\ \A a \in Actors : Sorted(hand[a])
    /\ OwnInv /\ OlderInv
    /\ \A h \in Streams : h > streams => done[h] = <<>>
    /\ \A a \in Actors : pc[a] = "register" => done[to[a]] = <<>>
    /\ \A h \in Streams : InLine(done[h] \o queue[h], overtook)

\* No segment is newer than the one received last.
LEMMA Received ==
  ASSUME OnceInv
  PROVE  /\ ToSet(pending) \subseteq 1..received
         /\ \A a \in Actors : ToSet(hand[a]) \subseteq 1..received
         /\ \A h \in Streams : ToSet(queue[h]) \subseteq 1..received /\ ToSet(done[h]) \subseteq 1..received
<1> DEFINE E == Contents(pending, hand, queue, done, dropped)
<1>1. \A m \in Homes : E[m] \subseteq 1..received
  BY DEF OnceInv, Once, Parted
<1>2. /\ E[Waiting] = ToSet(pending)
      /\ \A a \in Actors : E[Hands(a)] = ToSet(hand[a])
      /\ \A h \in Streams : E[Queued(h)] = ToSet(queue[h]) /\ E[Worked(h)] = ToSet(done[h])
  BY ContentsOf
<1> HIDE DEF E
<1> QED BY <1>1, <1>2, HomesDiffer

\* What an actor has in hand before it replays is newer than all that were sent.
LEMMA ReadyHand ==
  ASSUME StreamInv, DataTypes, ReadyInv, OnceInv, NEW a \in Actors,
         pc[a] \in {"fast", "factory", "register", "flush"}
  PROVE  /\ hand[a] = IF a = Consumer THEN <<received>> ELSE <<>>
         /\ Sorted(hand[a])
         /\ \A h \in Streams : Older(hand[a], done[h], queue[h], overtook)
         /\ \A h \in Streams, t \in Streams \cup {0} :
              \A p \in Places \ {"register", "flush"} :
               ~Owns(a, h, t, p, hand[a], received)
<1>1. hand[a] = IF a = Consumer THEN <<received>> ELSE <<>>
  BY DEF ReadyInv, Ready
<1>2. CASE a = Consumer
  <2>1. received \in Segments
    <3>1. hand[a] \in Seq(Segments)
      BY DEF DataTypes
    <3> QED BY <1>1, <1>2, <3>1, TakeHead
  <2>2. ToSet(hand[a]) = {received} /\ Sorted(hand[a])
    BY <1>1, <1>2, <2>1, SingleMembers
  <2>3. ASSUME NEW h \in Streams PROVE Older(hand[a], done[h], queue[h], overtook)
    BY <2>1, <2>2, Received DEF Older, Segments
  <2> QED BY <1>1, <1>2, <2>2, <2>3 DEF Owns
<1>3. CASE a # Consumer
  <2>1. ToSet(hand[a]) = {} /\ Sorted(hand[a])
    BY <1>1, <1>3 DEF ToSet, Sorted
  <2> QED BY <1>1, <1>3, <2>1 DEF Owns, Older
<1> QED BY <1>2, <1>3

\* A step of actor a that sends nothing.
LEMMA OrderKept ==
  ASSUME StreamInv, DataTypes, OnceInv, OrderInv, NEW a \in Actors, Only(a),
         \A b \in Actors \ {a} : hand'[b] = hand[b] /\ to'[b] = to[b],
         UNCHANGED <<queue, done, overtook>>, received' = received \/ a = Consumer,
         streams' \in Nat, streams' >= streams,
         \A h \in Streams : Owns(a, h, to'[a], pc'[a], hand'[a], received') =>
             \/ Owns(a, h, to[a], pc[a], hand[a], received)
             \/ \A b \in Actors \ {a} : to[b] # h,
         pc'[a] = "register" => done[to'[a]] = <<>>,
         Sorted(hand'[a]), Sorted(pending'), ToSet(pending') \subseteq ToSet(pending) \cup {received},
         to'[a] # 0 => /\ Older(hand'[a], done[to'[a]], queue[to'[a]], overtook)
                       /\ pc'[a] = "flush" => Older(pending', done[to'[a]], queue[to'[a]], overtook)
  PROVE  OrderInv'
<1>1. ASSUME NEW b \in Actors \ {a}
      PROVE  /\ hand'[b] = hand[b] /\ to'[b] = to[b] /\ b # a
             /\ pc'[b] \in {"register", "flush"} => pc'[b] = pc[b]
             /\ b = Consumer => received' = received
  BY DEF Only
<1>2. ASSUME NEW b \in Actors \ {a}, NEW h \in Streams,
             Owns(b, h, to'[b], pc'[b], hand'[b], received')
      PROVE  Owns(b, h, to[b], pc[b], hand[b], received) /\ to[b] = h
  BY <1>1, <1>2 DEF Owns
<1>3. OwnInv'
  <2> SUFFICES ASSUME NEW h \in Streams, NEW b \in Actors, NEW c \in Actors, b # c,
                      Owns(b, h, to'[b], pc'[b], hand'[b], received'),
                      Owns(c, h, to'[c], pc'[c], hand'[c], received')
               PROVE  FALSE
    BY DEF OwnInv
  <2>1. CASE b = a
    BY <1>2, <2>1 DEF OrderInv, OwnInv
  <2>2. CASE c = a
    BY <1>2, <2>2 DEF OrderInv, OwnInv
  <2>3. CASE b # a /\ c # a
    BY <1>2, <2>3 DEF OrderInv, OwnInv
  <2> QED BY <2>1, <2>2, <2>3
<1>4. ASSUME NEW b \in Actors \ {a}, to'[b] # 0
      PROVE  /\ Older(hand'[b], done[to'[b]], queue[to'[b]], overtook)
             /\ pc'[b] = "flush" => Older(pending', done[to'[b]], queue[to'[b]], overtook)
  <2>1. to[b] \in Streams
    BY <1>1, <1>4 DEF StreamInv, SharedInv, PlaceTypes
  <2>2. Older(hand[b], done[to[b]], queue[to[b]], overtook)
    BY <1>1, <1>4 DEF OrderInv, OlderInv
  <2>3. ASSUME pc'[b] = "flush" PROVE Older(pending', done[to[b]], queue[to[b]], overtook)
    <3>1. Older(pending, done[to[b]], queue[to[b]], overtook)
      BY <1>1, <1>4, <2>3 DEF OrderInv, OlderInv
    <3>2. received \in Nat /\ \A y \in ToSet(done[to[b]]) \cup ToSet(queue[to[b]]) : ~(y > received)
      BY <2>1, Received DEF DataTypes
    <3> QED BY <3>1, <3>2 DEF Older
  <2> QED BY <1>1, <2>2, <2>3
<1>5. OlderInv'
  BY <1>4 DEF OlderInv
<1>6. ASSUME NEW h \in Streams, h > streams' PROVE done'[h] = <<>>
  <2>1. h > streams
    BY <1>6 DEF StreamInv, SharedInv, PlaceTypes, Streams
  <2> QED BY <2>1 DEF OrderInv
<1>7. \A b \in Actors : pc'[b] = "register" => done'[to'[b]] = <<>>
  BY <1>1 DEF OrderInv
<1>8. \A b \in Actors : Sorted(hand'[b])
  BY <1>1 DEF OrderInv
<1> QED BY <1>3, <1>5, <1>6, <1>7, <1>8 DEF OrderInv


\* A step of a that changes neither what it has in hand nor what waits.
LEMMA SameHand ==
  ASSUME StreamInv, DataTypes, OnceInv, OrderInv, NEW a \in Actors, Only(a),
         UNCHANGED <<hand, pending, queue, done, overtook, received, streams>>,
         \A b \in Actors \ {a} : to'[b] = to[b],
         \A h \in Streams : Owns(a, h, to'[a], pc'[a], hand[a], received) =>
             Owns(a, h, to[a], pc[a], hand[a], received),
         pc'[a] \notin {"register", "flush"},
         to'[a] # 0 => Older(hand[a], done[to'[a]], queue[to'[a]], overtook)
  PROVE  OrderInv'
<1>1. streams' \in Nat /\ streams' >= streams
  BY DEF StreamInv, SharedInv, PlaceTypes
<1> QED BY <1>1, OrderKept DEF OrderInv

LEMMA CreateOrder ==
  ASSUME StreamInv, PlaceTypes', DataTypes, ReadyInv, OnceInv, OrderInv, NEW a \in Actors, Create(a)
  PROVE  OrderInv'
<1> USE DEF pendingVars, streamVars, workerVars, historyVars
<1>0. /\ PlaceTypes /\ OffInv /\ to \in [Actors -> Streams \cup {0}] /\ received \in Nat
      /\ hand \in [Actors -> Seq(Segments)] /\ stream \in Streams \cup {0} /\ streams \in Nat
  BY DEF StreamInv, SharedInv, PlaceTypes, DataTypes
<1>1. Only(a) /\ \A b \in Actors \ {a} : hand'[b] = hand[b]
  BY <1>0, ActorMoves, CreateReady
<1>2. /\ hand[a] = IF a = Consumer THEN <<received>> ELSE <<>>
      /\ Sorted(hand[a])
      /\ \A h \in Streams : Older(hand[a], done[h], queue[h], overtook)
      /\ \A h \in Streams, t \in Streams \cup {0} :
           \A p \in Places \ {"register", "flush"} : ~Owns(a, h, t, p, hand[a], received)
  <2>1. pc[a] \in {"fast", "factory", "register", "flush"}
    BY DEF Create, CreateFast, FactoryOpens, FactoryUnavailable, FactoryFails, Register, FlushPending
  <2> QED BY <2>1, ReadyHand
<1>3. CASE CreateFast(a) \/ FactoryUnavailable(a) \/ (Register(a) /\ stream # 0)
  <2>1. /\ UNCHANGED <<hand, pending, queue, done, overtook, received, streams>>
        /\ to' \in {to, [to EXCEPT ![a] = stream]}
    BY <1>3 DEF CreateFast, FactoryUnavailable, Register
  <2>2. pc'[a] \in {"enqueue", "end", "factory", "buffer", "again"}
    <3>1. CASE CreateFast(a)
      BY <1>0, <3>1, GotoMoves DEF CreateFast, Places
    <3>2. CASE FactoryUnavailable(a)
      BY <1>0, <3>2, GotoMoves DEF FactoryUnavailable, Places
    <3>3. CASE Register(a) /\ stream # 0
      BY <1>0, <3>3, GotoMoves DEF Register, Places
    <3> QED BY <1>3, <3>1, <3>2, <3>3
  <2>3. pc'[a] \in Places \ {"register", "flush"}
    BY <2>2 DEF Places
  <2>4. to'[a] \in Streams \cup {0} /\ \A b \in Actors \ {a} : to'[b] = to[b]
    BY <1>0, <2>1
  <2>5. to'[a] # 0 => Older(hand[a], done[to'[a]], queue[to'[a]], overtook)
    BY <1>2, <2>4
  <2>6. \A h \in Streams : ~Owns(a, h, to'[a], pc'[a], hand[a], received)
    BY <1>2, <2>3, <2>4
  <2> QED BY <1>1, <2>1, <2>3, <2>4, <2>5, <2>6, SameHand
<1>4. CASE FactoryOpens(a)
  <2>1. /\ UNCHANGED <<hand, pending, queue, done, overtook, received>>
        /\ streams' = streams + 1 /\ to' = [to EXCEPT ![a] = streams + 1]
        /\ pc'[a] = "register" /\ streams < MaxStreams
    BY <1>0, <1>4, GotoMoves DEF FactoryOpens, Places
  <2>2. to'[a] = streams + 1 /\ \A b \in Actors \ {a} : to'[b] = to[b]
    BY <1>0, <2>1
  <2>3. streams + 1 \in Streams /\ streams' \in Nat /\ streams' >= streams /\ streams + 1 > streams
    BY <1>0, <2>1, BoundAssumption DEF Streams
  <2>4. done[streams + 1] = <<>>
    BY <2>3 DEF OrderInv
  <2>5. \A b \in Actors : to[b] # streams + 1
    BY <1>0, <2>3 DEF StreamInv, SharedInv, FlowInv, Streams
  <2>6. Older(hand'[a], done[to'[a]], queue[to'[a]], overtook)
    BY <1>2, <2>1, <2>2, <2>3
  <2>7. \A h \in Streams : Owns(a, h, to'[a], pc'[a], hand'[a], received') =>
            \A b \in Actors \ {a} : to[b] # h
    BY <2>2, <2>5 DEF Owns
  <2>8. Sorted(hand'[a]) /\ Sorted(pending') /\ pc'[a] # "flush"
    BY <1>2, <2>1 DEF OrderInv
  <2>9. pc'[a] = "register" => done[to'[a]] = <<>>
    BY <2>2, <2>4
  <2> QED BY <1>1, <2>1, <2>2, <2>3, <2>6, <2>7, <2>8, <2>9, OrderKept
<1>5. CASE FactoryFails(a)
  <2>1. /\ UNCHANGED <<pending, queue, done, overtook, received, to, streams>>
        /\ hand' = [hand EXCEPT ![a] = <<>>] /\ pc'[a] \in {"recv", "failed"}
    BY <1>0, <1>5, GotoMoves DEF FactoryFails, Places
  <2>2. hand'[a] = <<>>
    BY <1>0, <2>1
  <2>3. Sorted(hand'[a]) /\ Sorted(pending') /\ ToSet(hand'[a]) = {}
    BY <2>1, <2>2 DEF OrderInv, Sorted, ToSet
  <2>4. \A h \in Streams : ~Owns(a, h, to'[a], pc'[a], hand'[a], received')
    BY <2>1, <2>2 DEF Owns
  <2>5. to'[a] # 0 => Older(hand'[a], done[to'[a]], queue[to'[a]], overtook)
    BY <2>3 DEF Older
  <2>6. streams' \in Nat /\ streams' >= streams /\ pc'[a] \notin {"register", "flush"}
    BY <1>0, <2>1
  <2> QED BY <1>1, <2>1, <2>3, <2>4, <2>5, <2>6, OrderKept
<1>6. CASE Register(a) /\ stream = 0
  <2>1. /\ UNCHANGED <<hand, pending, queue, done, overtook, received, to, streams>>
        /\ pc'[a] = "flush" /\ pc[a] = "register"
    BY <1>0, <1>6, GotoMoves DEF Register, Places
  <2>2. done[to[a]] = <<>> /\ queue[to[a]] = <<>> /\ ToSet(<<>>) = {}
    BY <2>1 DEF OrderInv, StreamInv, SharedInv, FreshInv, ToSet
  <2>3. \A h \in Streams : Owns(a, h, to'[a], pc'[a], hand'[a], received') =>
            Owns(a, h, to[a], pc[a], hand[a], received)
    BY <2>1 DEF Owns
  <2>4. Older(hand[a], <<>>, <<>>, overtook) /\ Older(pending, <<>>, <<>>, overtook)
    BY <2>2 DEF Older
  <2>5. streams' \in Nat /\ streams' >= streams /\ Sorted(hand'[a]) /\ Sorted(pending')
    BY <1>0, <2>1 DEF OrderInv
  <2> QED BY <1>1, <2>1, <2>2, <2>3, <2>4, <2>5, OrderKept
<1>7. CASE FlushPending(a)
  <2>1. /\ UNCHANGED <<queue, done, overtook, received, to, streams>> /\ pc[a] = "flush"
        /\ hand' = [hand EXCEPT ![a] = pending \o hand[a]] /\ pending' = <<>>
        /\ pc'[a] = "enqueue"
    BY <1>0, <1>7, StopMoves DEF FlushPending, Places
  <2>2. hand'[a] = pending \o hand[a]
    BY <1>0, <2>1
  <2>3. to[a] # 0
    BY <2>1 DEF StreamInv, SharedInv, FlowInv, Holding
  <2>4. pending \in Seq(Segments) /\ hand[a] \in Seq(Segments) /\ Sorted(pending)
    BY DEF DataTypes, OrderInv
  <2>5. \A x \in ToSet(pending), y \in ToSet(hand[a]) : x < y
    <3>1. CASE a # Consumer
      BY <1>2, <3>1 DEF ToSet
    <3>2. CASE a = Consumer
      <4>1. received \in Segments
        BY <1>2, <2>4, <3>2, TakeHead
      <4>2. ToSet(hand[a]) = {received}
        BY <1>2, <3>2, <4>1, SingleMembers
      <4>3. received \notin ToSet(pending)
        BY <4>2, ContentsOf, HomesDiffer DEF OnceInv, Once, Parted
      <4>4. ToSet(pending) \subseteq 1..received
        BY Received
      <4> QED BY <1>0, <4>2, <4>3, <4>4
    <3> QED BY <3>1, <3>2
  <2>6. Sorted(pending \o hand[a]) /\ ToSet(pending \o hand[a]) = ToSet(pending) \cup ToSet(hand[a])
    BY <1>2, <2>4, <2>5, ConcatMembers
  <2>7. Older(pending, done[to[a]], queue[to[a]], overtook)
    BY <2>1, <2>3 DEF OrderInv, OlderInv
  <2>8. Older(hand[a], done[to[a]], queue[to[a]], overtook)
    BY <2>3 DEF OrderInv, OlderInv
  <2>9. Older(hand'[a], done[to'[a]], queue[to'[a]], overtook)
    BY <2>1, <2>2, <2>6, <2>7, <2>8 DEF Older
  <2>10. \A h \in Streams : Owns(a, h, to'[a], pc'[a], hand'[a], received') =>
            Owns(a, h, to[a], pc[a], hand[a], received)
    BY <2>1 DEF Owns
  <2>11. /\ streams' \in Nat /\ streams' >= streams /\ Sorted(hand'[a])
         /\ Sorted(pending') /\ ToSet(pending') = {} /\ pc'[a] \notin {"register", "flush"}
    BY <1>0, <2>1, <2>2, <2>6 DEF Sorted, ToSet
  <2> QED BY <1>1, <2>1, <2>9, <2>10, <2>11, OrderKept
<1> QED BY <1>3, <1>4, <1>5, <1>6, <1>7 DEF Create


-----------------------------------------------------------------------------
(* Sending and working.                                                    *)

LEMMA InLineAppend ==
  ASSUME NEW s \in Seq(Segments), NEW x \in Segments, NEW o, NEW p, InLine(s, o), o \subseteq p,
         \A y \in ToSet(s) : y > x => y \in p
  PROVE  InLine(Append(s, x), p)
<1>1. PICK n \in Nat : Len(s) = n
  OBVIOUS
<1>2. /\ Len(Append(s, x)) = n + 1 /\ Append(s, x)[n + 1] = x
      /\ \A i \in 1..n : Append(s, x)[i] = s[i] /\ s[i] \in ToSet(s)
  BY <1>1, AppendProperties DEF ToSet
<1>3. SUFFICES ASSUME NEW i \in 1..(n + 1), NEW j \in 1..(n + 1), i < j,
                      Append(s, x)[i] > Append(s, x)[j]
               PROVE  Append(s, x)[i] \in p
  BY <1>2 DEF InLine
<1>4. i \in 1..n
  BY <1>3
<1>5. CASE j = n + 1
  BY <1>2, <1>3, <1>4, <1>5
<1>6. CASE j # n + 1
  <2>1. j \in 1..n
    BY <1>6
  <2>2. s[i] > s[j] /\ i \in 1..Len(s) /\ j \in 1..Len(s)
    BY <1>1, <1>2, <1>3, <1>4, <2>1
  <2>3. s[i] \in o
    BY <1>3, <2>2 DEF InLine
  <2> QED BY <1>2, <1>4, <2>3
<1> QED BY <1>5, <1>6

\* The line of a stream grows at its end only.
LEMMA LineAppend ==
  ASSUME NEW d \in Seq(Segments), NEW q \in Seq(Segments), NEW x \in Segments
  PROVE  d \o Append(q, x) = Append(d \o q, x)
<1>1. /\ <<x>> \in Seq(Segments) /\ d \o q \in Seq(Segments)
      /\ Append(q, x) = q \o <<x>> /\ Append(d \o q, x) = (d \o q) \o <<x>>
  BY AppendIsConcat
<1> QED BY <1>1, ConcatAssociative

LEMMA LineMoves ==
  ASSUME NEW d \in Seq(Segments), NEW q \in Seq(Segments), q # <<>>
  PROVE  /\ Append(d, Head(q)) \o Tail(q) = d \o q
         /\ ToSet(Append(d, Head(q))) \cup ToSet(Tail(q)) = ToSet(d) \cup ToSet(q)
<1>1. /\ Head(q) \in Segments /\ Tail(q) \in Seq(Segments)
      /\ <<Head(q)>> \in Seq(Segments) /\ q = <<Head(q)>> \o Tail(q)
  OBVIOUS
<1>2. Append(d, Head(q)) = d \o <<Head(q)>>
  BY <1>1, AppendIsConcat
<1>3. Append(d, Head(q)) \o Tail(q) = d \o q
  BY <1>1, <1>2, ConcatAssociative
<1>4. /\ ToSet(Append(d, Head(q))) = ToSet(d) \cup {Head(q)}
      /\ ToSet(q) = {Head(q)} \cup ToSet(Tail(q))
  <2>1. ToSet(<<Head(q)>>) = {Head(q)}
    BY <1>1, SingleMembers
  <2>2. ToSet(<<Head(q)>> \o Tail(q)) = ToSet(<<Head(q)>>) \cup ToSet(Tail(q))
    BY <1>1, ConcatMembers
  <2>3. ToSet(d \o <<Head(q)>>) = ToSet(d) \cup ToSet(<<Head(q)>>)
    BY <1>1, ConcatMembers
  <2> QED BY <1>1, <1>2, <2>1, <2>2, <2>3
<1> QED BY <1>3, <1>4

\* Without its head, what an actor has in hand is as good as before.
LEMMA TailHand ==
  ASSUME StreamInv, DataTypes, OnceInv, OrderInv, NEW a \in Actors, hand[a] # <<>>
  PROVE  /\ Head(hand[a]) \in ToSet(hand[a]) /\ Head(hand[a]) \in Segments
         /\ Sorted(Tail(hand[a])) /\ ToSet(Tail(hand[a])) \subseteq ToSet(hand[a])
         /\ \A x \in ToSet(Tail(hand[a])) : Head(hand[a]) < x
         /\ \A h \in Streams : Owns(a, h, to[a], "enqueue", Tail(hand[a]), received) =>
                Owns(a, h, to[a], pc[a], hand[a], received)
<1>1. hand[a] \in Seq(Segments) /\ Distinct(hand[a]) /\ Sorted(hand[a])
  BY DEF DataTypes, OnceInv, Once, OrderInv
<1>2. hand[a] = <<received>> => Tail(hand[a]) = <<>>
  OBVIOUS
<1>3. \A h \in Streams : Owns(a, h, to[a], "enqueue", Tail(hand[a]), received) =>
          Owns(a, h, to[a], pc[a], hand[a], received)
  BY <1>2 DEF Owns
<1> QED BY <1>1, <1>3, TailMembers, TakeHead

\* Sending: what is older and still to be sent to the stream is in the hand of
\* the sender, or the sender is the consumer overtaking a retry.
LEMMA SendOrder ==
  ASSUME StreamInv, PlaceTypes', DataTypes, HandInv, ReadyInv, OnceInv, OrderInv,
         NEW a \in Actors, EnqueueSend(a)
  PROVE  OrderInv'
<1> USE DEF pendingVars, streamVars, workerVars, historyVars
<1> DEFINE h == to[a]
           x == Head(hand[a])
<1>0. /\ PlaceTypes /\ OffInv /\ to \in [Actors -> Streams \cup {0}] /\ received \in Nat
      /\ hand \in [Actors -> Seq(Segments)] /\ queue \in [Streams -> Seq(Segments)]
      /\ done \in [Streams -> Seq(Segments)] /\ pending \in Seq(Segments)
  BY DEF StreamInv, SharedInv, PlaceTypes, DataTypes
<1>1. Only(a) /\ pc'[a] = "enqueue" /\ pc[a] = "send"
  BY <1>0, GotoMoves DEF EnqueueSend, Places
<1>2. hand[a] # <<>> /\ h \in Streams
  BY <1>0, <1>1 DEF HandInv, StreamInv, SharedInv, FlowInv, Holding
<1>3. /\ hand' = [hand EXCEPT ![a] = Tail(hand[a])]
      /\ queue' = [queue EXCEPT ![h] = Append(queue[h], x)]
      /\ overtook' = IF a = Consumer /\ Replaying(h) THEN overtook \cup {x} ELSE overtook
      /\ UNCHANGED <<received, pending, to, streams, done>>
  BY DEF EnqueueSend
<1>4. /\ hand'[a] = Tail(hand[a]) /\ \A b \in Actors \ {a} : hand'[b] = hand[b]
      /\ queue'[h] = Append(queue[h], x) /\ \A g \in Streams \ {h} : queue'[g] = queue[g]
  BY <1>0, <1>2, <1>3
<1>5. /\ x \in ToSet(hand[a]) /\ x \in Segments
      /\ Sorted(Tail(hand[a])) /\ ToSet(Tail(hand[a])) \subseteq ToSet(hand[a])
      /\ \A y \in ToSet(Tail(hand[a])) : x < y
      /\ \A g \in Streams : Owns(a, g, to[a], "enqueue", Tail(hand[a]), received) =>
             Owns(a, g, to[a], pc[a], hand[a], received)
  BY <1>2, TailHand
<1>6. overtook \subseteq overtook' /\ (a = Consumer /\ Replaying(h) => x \in overtook')
  BY <1>3
<1>7. x <= received /\ x \in Nat
  BY <1>0, <1>5, Received
<1> HIDE DEF h, x
\* Nobody else owns more than before.
<1>8. ASSUME NEW b \in Actors, NEW g \in Streams, Owns(b, g, to'[b], pc'[b], hand'[b], received')
      PROVE  Owns(b, g, to[b], pc[b], hand[b], received)
  <2>1. CASE b = a
    BY <1>1, <1>3, <1>4, <1>5, <1>8, <2>1
  <2>2. CASE b # a
    <3>1. hand'[b] = hand[b] /\ (pc'[b] \in {"register", "flush"} => pc'[b] = pc[b])
      BY <1>1, <1>4, <2>2 DEF Only
    <3> QED BY <1>3, <1>8, <3>1 DEF Owns
  <2> QED BY <2>1, <2>2
<1>9. OwnInv'
  <2> SUFFICES ASSUME NEW g \in Streams, NEW b \in Actors, NEW c \in Actors, b # c,
                      Owns(b, g, to'[b], pc'[b], hand'[b], received'),
                      Owns(c, g, to'[c], pc'[c], hand'[c], received')
               PROVE  FALSE
    BY DEF OwnInv
  <2> QED BY <1>8 DEF OrderInv, OwnInv
\* Whoever else will send to this stream is overtaken, or has the newest.
<1>10. ASSUME NEW b \in Actors \ {a}, to[b] = h, hand[b] # <<>> \/ pc[b] = "flush"
       PROVE  \/ x \in overtook'
              \/ b = Consumer /\ hand[b] = <<received>> /\ pc[b] # "flush"
  <2>1. ~(Owns(a, h, to[a], pc[a], hand[a], received) /\ Owns(b, h, to[b], pc[b], hand[b], received))
    BY <1>2 DEF OrderInv, OwnInv
  <2>2. CASE b # Consumer
    <3>1. Owns(b, h, to[b], pc[b], hand[b], received) /\ b \in Timers
      BY <1>10, <2>2 DEF Owns, Actors
    <3>2. a = Consumer
      BY <1>2, <2>1, <3>1 DEF Owns, h
    <3>3. Replaying(h)
      BY <1>10, <3>1 DEF Replaying
    <3> QED BY <1>6, <3>2, <3>3
  <2>3. CASE b = Consumer
    <3>1. Owns(a, h, to[a], pc[a], hand[a], received)
      BY <1>2, <2>3 DEF Owns, h
    <3>2. ~Owns(b, h, to[b], pc[b], hand[b], received)
      BY <2>1, <3>1
    <3> QED BY <1>10, <2>3, <3>2 DEF Owns
  <2> QED BY <2>2, <2>3
<1>11. ToSet(queue'[h]) = ToSet(queue[h]) \cup {x}
  BY <1>0, <1>2, <1>4, <1>5, AppendMembers
\* Whatever has been found older stays so, in other hands ...
<1>12. ASSUME NEW b \in Actors, NEW g \in Streams, NEW s, g # h,
              Older(s, done[g], queue[g], overtook)
       PROVE  Older(s, done'[g], queue'[g], overtook')
  BY <1>3, <1>4, <1>6, <1>12 DEF Older
\* ... and in those who send to this stream.
<1>13. ASSUME NEW s, Older(s, done[h], queue[h], overtook), \A z \in ToSet(s) : x > z => x \in overtook'
       PROVE  Older(s, done'[h], queue'[h], overtook')
  BY <1>3, <1>6, <1>11, <1>13 DEF Older
<1>14. ASSUME NEW b \in Actors, to'[b] # 0
       PROVE  /\ Older(hand'[b], done'[to'[b]], queue'[to'[b]], overtook')
              /\ pc'[b] = "flush" => Older(pending', done'[to'[b]], queue'[to'[b]], overtook')
  <2>0. to[b] \in Streams /\ to'[b] = to[b]
    BY <1>0, <1>3, <1>14
  <2>1. Older(hand[b], done[to[b]], queue[to[b]], overtook)
    BY <1>3, <1>14 DEF OrderInv, OlderInv
  <2>2. pc[b] = "flush" => Older(pending, done[to[b]], queue[to[b]], overtook)
    BY <1>3, <1>14 DEF OrderInv, OlderInv
  <2>3. CASE b = a
    <3>1. Older(Tail(hand[a]), done[h], queue[h], overtook)
      BY <1>5, <2>1, <2>3 DEF Older, h
    <3>2. \A z \in ToSet(Tail(hand[a])) : ~(x > z)
      <4> SUFFICES ASSUME NEW z \in ToSet(Tail(hand[a])), x > z PROVE FALSE
        OBVIOUS
      <4>1. x < z /\ z \in 1..received
        BY <1>5, Received
      <4> QED BY <1>0, <1>7, <4>1
    <3>3. Older(Tail(hand[a]), done'[h], queue'[h], overtook')
      BY <1>13, <3>1, <3>2
    <3> QED BY <1>1, <1>4, <2>0, <2>3, <3>3 DEF h
  <2>4. CASE b # a /\ to[b] # h
    <3>1. hand'[b] = hand[b] /\ (pc'[b] = "flush" => pc[b] = "flush")
      BY <1>1, <1>4, <2>4 DEF Only
    <3> QED BY <1>3, <1>12, <2>0, <2>1, <2>2, <2>4, <3>1
  <2>5. CASE b # a /\ to[b] = h
    <3>1. hand'[b] = hand[b] /\ (pc'[b] = "flush" => pc[b] = "flush")
      BY <1>1, <1>4, <2>5 DEF Only
    <3>2. \A z \in ToSet(hand[b]) : x > z => x \in overtook'
      <4> SUFFICES ASSUME NEW z \in ToSet(hand[b]), x > z, x \notin overtook' PROVE FALSE
        OBVIOUS
      <4>1. hand[b] # <<>>
        BY DEF ToSet
      <4>2. hand[b] = <<received>>
        BY <1>10, <2>5, <4>1
      <4>3. z = received
        BY <4>2 DEF ToSet
      <4> QED BY <1>0, <1>7, <4>3
    <3>3. pc[b] = "flush" => x \in overtook'
      BY <1>10, <2>5
    <3>4. Older(hand[b], done'[h], queue'[h], overtook')
      BY <1>13, <2>1, <2>5, <3>2
    <3>5. pc[b] = "flush" => Older(pending, done'[h], queue'[h], overtook')
      BY <1>13, <2>2, <2>5, <3>3
    <3> QED BY <1>3, <2>0, <2>5, <3>1, <3>4, <3>5
  <2> QED BY <2>3, <2>4, <2>5
<1>15. OlderInv'
  BY <1>14 DEF OlderInv
<1>16. ASSUME NEW g \in Streams PROVE InLine(done'[g] \o queue'[g], overtook')
  <2>0. InLine(done[g] \o queue[g], overtook)
    BY DEF OrderInv
  <2>1. CASE g # h
    BY <1>3, <1>4, <1>6, <2>0, <2>1 DEF InLine
  <2>2. CASE g = h
    <3>1. done'[h] \o queue'[h] = Append(done[h] \o queue[h], x)
      BY <1>0, <1>2, <1>3, <1>4, <1>5, LineAppend
    <3>2. Older(hand[a], done[h], queue[h], overtook)
      <4>1. to[a] # 0
        BY <1>1 DEF StreamInv, SharedInv, FlowInv, Holding
      <4> QED BY <4>1 DEF OrderInv, OlderInv, h
    <3>3. /\ done[h] \o queue[h] \in Seq(Segments)
          /\ ToSet(done[h] \o queue[h]) = ToSet(done[h]) \cup ToSet(queue[h])
      BY <1>0, <1>2, ConcatMembers
    <3>4. \A y \in ToSet(done[h] \o queue[h]) : y > x => y \in overtook'
      BY <1>5, <1>6, <3>2, <3>3 DEF Older
    <3>5. InLine(Append(done[h] \o queue[h], x), overtook')
      <4> DEFINE s == done[h] \o queue[h]
      <4>1. /\ s \in Seq(Segments) /\ InLine(s, overtook)
            /\ \A y \in ToSet(s) : y > x => y \in overtook'
        BY <2>0, <2>2, <3>3, <3>4
      <4> HIDE DEF s
      <4>2. InLine(Append(s, x), overtook')
        BY <1>5, <1>6, <4>1, InLineAppend
      <4> QED BY <4>2 DEF s
    <3> QED BY <2>2, <3>1, <3>5
  <2> QED BY <2>1, <2>2
<1>17. \A b \in Actors : Sorted(hand'[b])
  BY <1>4, <1>5 DEF OrderInv
<1>18. \A b \in Actors : pc'[b] = "register" => done'[to'[b]] = <<>>
  <2> SUFFICES ASSUME NEW b \in Actors, pc'[b] = "register" PROVE done'[to'[b]] = <<>>
    OBVIOUS
  <2>1. pc[b] = "register"
    BY <1>1 DEF Only
  <2> QED BY <1>3, <2>1 DEF OrderInv
<1> QED BY <1>3, <1>9, <1>15, <1>16, <1>17, <1>18 DEF OrderInv

\* The worker's step leaves the line of its stream as it is.
LEMMA TakesOrder ==
  ASSUME StreamInv, DataTypes, OrderInv, NEW h \in Streams, WorkerTakes(h)
  PROVE  OrderInv'
<1> USE DEF actorVars, pendingVars, streamVars, historyVars
<1> DEFINE x == Head(queue[h])
<1>1. /\ queue' = [queue EXCEPT ![h] = Tail(queue[h])] /\ queue[h] # <<>>
      /\ done' = [done EXCEPT ![h] = Append(done[h], x)]
      /\ UNCHANGED <<received, pc, to, hand, pending, streams, overtook>>
  BY DEF WorkerTakes
<1>2. /\ queue'[h] = Tail(queue[h]) /\ \A g \in Streams \ {h} : queue'[g] = queue[g]
      /\ done'[h] = Append(done[h], x) /\ \A g \in Streams \ {h} : done'[g] = done[g]
  BY <1>1 DEF DataTypes
<1>3. queue[h] \in Seq(Segments) /\ done[h] \in Seq(Segments)
  BY DEF DataTypes
<1>4. \A g \in Streams : /\ done'[g] \o queue'[g] = done[g] \o queue[g]
                         /\ ToSet(done'[g]) \cup ToSet(queue'[g]) = ToSet(done[g]) \cup ToSet(queue[g])
  <2>1. /\ Append(done[h], x) \o Tail(queue[h]) = done[h] \o queue[h]
        /\ ToSet(Append(done[h], x)) \cup ToSet(Tail(queue[h])) = ToSet(done[h]) \cup ToSet(queue[h])
    BY <1>1, <1>3, LineMoves
  <2> QED BY <1>2, <2>1
<1>5. \A b \in Actors : to[b] # 0 => to[b] \in Streams
  BY DEF StreamInv, SharedInv, PlaceTypes
<1>6. OlderInv'
  <2> SUFFICES ASSUME NEW b \in Actors, to[b] # 0
               PROVE  /\ Older(hand[b], done'[to[b]], queue'[to[b]], overtook)
                      /\ pc[b] = "flush" => Older(pending, done'[to[b]], queue'[to[b]], overtook)
    BY <1>1 DEF OlderInv
  <2>1. /\ Older(hand[b], done[to[b]], queue[to[b]], overtook)
        /\ pc[b] = "flush" => Older(pending, done[to[b]], queue[to[b]], overtook)
    BY DEF OrderInv, OlderInv
  <2> QED BY <1>4, <1>5, <2>1 DEF Older
<1>7. OwnInv'
  BY <1>1 DEF OrderInv, OwnInv
<1>8. \A g \in Streams : g > streams => done'[g] = <<>>
  BY <1>1, <1>2 DEF OrderInv, StreamInv, SharedInv, FreshInv
<1>9. \A b \in Actors : pc[b] = "register" => done'[to[b]] = <<>>
  <2> SUFFICES ASSUME NEW b \in Actors, pc[b] = "register" PROVE done'[to[b]] = <<>>
    OBVIOUS
  <2>1. queue[to[b]] = <<>> /\ done[to[b]] = <<>> /\ to[b] # 0
    BY DEF StreamInv, SharedInv, FreshInv, OrderInv, FlowInv, Holding
  <2> QED BY <1>1, <1>2, <1>5, <2>1
<1>10. \A g \in Streams : InLine(done'[g] \o queue'[g], overtook)
  BY <1>4 DEF OrderInv
<1> QED BY <1>1, <1>6, <1>7, <1>8, <1>9, <1>10 DEF OrderInv


LEMMA EnqueueOrder ==
  ASSUME StreamInv, PlaceTypes', DataTypes, HandInv, ReadyInv, OnceInv, OrderInv,
         NEW a \in Actors, Enqueue(a)
  PROVE  OrderInv'
<1> USE DEF pendingVars, streamVars, workerVars, historyVars
<1>0. /\ PlaceTypes /\ OffInv /\ to \in [Actors -> Streams \cup {0}] /\ received \in Nat
      /\ hand \in [Actors -> Seq(Segments)] /\ streams \in Nat
  BY DEF StreamInv, SharedInv, PlaceTypes, DataTypes
<1>1. Only(a) /\ \A b \in Actors \ {a} : hand'[b] = hand[b]
  BY <1>0, ActorMoves, EnqueueReady
<1>2. to[a] # 0 => Older(hand[a], done[to[a]], queue[to[a]], overtook)
  BY DEF OrderInv, OlderInv
<1>3. CASE EnqueueCheck(a)
  <2>1. /\ UNCHANGED <<hand, pending, queue, done, overtook, received, streams, to>>
        /\ pc'[a] = "send"
    BY <1>0, <1>3, GotoMoves DEF EnqueueCheck, Places
  <2>2. \A h \in Streams : Owns(a, h, to'[a], pc'[a], hand[a], received) =>
            Owns(a, h, to[a], pc[a], hand[a], received)
    BY <2>1 DEF Owns
  <2> QED BY <1>1, <1>2, <2>1, <2>2, SameHand
<1>4. CASE EnqueueEnd(a)
  <2>1. /\ UNCHANGED <<hand, pending, queue, done, overtook, received, streams>>
        /\ to' = [to EXCEPT ![a] = 0] /\ pc'[a] \in {"recv", "end"}
    BY <1>0, <1>4, GotoMoves DEF EnqueueEnd, Home, Places
  <2>2. to'[a] = 0 /\ \A b \in Actors \ {a} : to'[b] = to[b]
    BY <1>0, <2>1
  <2>3. \A h \in Streams : h # 0
    BY DEF Streams
  <2>4. \A h \in Streams : ~Owns(a, h, to'[a], pc'[a], hand[a], received)
    BY <2>2, <2>3 DEF Owns
  <2> QED BY <1>1, <2>1, <2>2, <2>4, SameHand
<1>5. CASE EnqueueClosed(a)
  <2>1. /\ UNCHANGED <<pending, queue, done, overtook, received, streams, to>>
        /\ hand' = [hand EXCEPT ![a] = Tail(hand[a])] /\ hand[a] # <<>>
        /\ pc'[a] = "enqueue"
    BY <1>0, <1>5, GotoMoves DEF EnqueueClosed, Places
  <2>2. hand'[a] = Tail(hand[a])
    BY <1>0, <2>1
  <2>3. /\ Sorted(Tail(hand[a])) /\ ToSet(Tail(hand[a])) \subseteq ToSet(hand[a])
        /\ \A h \in Streams : Owns(a, h, to[a], "enqueue", Tail(hand[a]), received) =>
               Owns(a, h, to[a], pc[a], hand[a], received)
    BY <2>1, TailHand
  <2>4. to'[a] # 0 => Older(hand'[a], done[to'[a]], queue[to'[a]], overtook)
    BY <1>2, <2>1, <2>2, <2>3 DEF Older
  <2>5. \A h \in Streams : Owns(a, h, to'[a], pc'[a], hand'[a], received') =>
            Owns(a, h, to[a], pc[a], hand[a], received)
    BY <2>1, <2>2, <2>3
  <2>6. /\ streams' \in Nat /\ streams' >= streams /\ pc'[a] \notin {"register", "flush"}
        /\ Sorted(hand'[a]) /\ Sorted(pending')
    BY <1>0, <2>1, <2>2, <2>3 DEF OrderInv
  <2> QED BY <1>1, <2>1, <2>4, <2>5, <2>6, OrderKept
<1> QED BY <1>3, <1>4, <1>5, SendOrder DEF Enqueue

LEMMA ConsumeOrder ==
  ASSUME StreamInv, PlaceTypes', DataTypes, HandInv, ReadyInv, OnceInv, OrderInv, Consume
  PROVE  OrderInv'
<1> USE DEF pendingVars, streamVars, workerVars, historyVars
<1> DEFINE c == Consumer
<1>0. /\ PlaceTypes /\ OffInv /\ to \in [Actors -> Streams \cup {0}] /\ received \in Nat
      /\ hand \in [Actors -> Seq(Segments)] /\ streams \in Nat /\ stream \in Streams \cup {0}
      /\ pending \in Seq(Segments) /\ c \in Actors
  BY DEF StreamInv, SharedInv, PlaceTypes, DataTypes, Actors
<1>1. Only(c) /\ \A b \in Actors \ {c} : hand'[b] = hand[b]
  BY <1>0, ConsumeReady
<1>2. Ready(c, pc[c], hand[c], received)
  BY <1>0 DEF ReadyInv
<1>3. CASE ConsumerRecv
  <2>1. /\ UNCHANGED <<pending, queue, done, overtook, streams>> /\ received' = received + 1
        /\ hand' = [hand EXCEPT ![c] = <<received + 1>>] /\ to' = [to EXCEPT ![c] = stream]
        /\ pc'[c] \in {"enqueue", "fast"}
    BY <1>0, <1>3, GotoMoves DEF ConsumerRecv, Places
  <2>2. /\ hand'[c] = <<received + 1>> /\ to'[c] = stream
        /\ \A b \in Actors \ {c} : to'[b] = to[b]
    BY <1>0, <2>1
  <2>3. received + 1 \in Segments
    BY <1>0, <1>3, BoundAssumption DEF ConsumerRecv, Segments
  <2>4. Sorted(hand'[c]) /\ ToSet(hand'[c]) = {received + 1}
    BY <2>2, <2>3, SingleMembers
  <2>5. \A h \in Streams : Older(hand'[c], done[h], queue[h], overtook)
    <3> SUFFICES ASSUME NEW h \in Streams, NEW y \in ToSet(done[h]) \cup ToSet(queue[h]),
                        y > received + 1
                 PROVE  FALSE
      BY <2>4 DEF Older
    <3>1. y \in 1..received
      BY Received
    <3> QED BY <1>0, <3>1
  <2>6. \A h \in Streams : ~Owns(c, h, to'[c], pc'[c], hand'[c], received')
    BY <2>1, <2>2 DEF Owns
  <2>7. /\ streams' \in Nat /\ streams' >= streams /\ pc'[c] \notin {"register", "flush"}
        /\ Sorted(pending') /\ ToSet(pending') \subseteq ToSet(pending) \cup {received}
    BY <1>0, <2>1 DEF OrderInv
  <2> QED BY <1>0, <1>1, <2>1, <2>2, <2>4, <2>5, <2>6, <2>7, OrderKept
<1>4. CASE BufferPending
  <2> DEFINE full == Len(pending) >= MaxPending
             kept == IF full THEN Tail(pending) ELSE pending
  <2>0. hand[c] = <<received>> /\ received \in Segments
    <3>1. hand[c] = <<received>>
      BY <1>2, <1>4 DEF Ready, BufferPending
    <3>2. hand[c] \in Seq(Segments)
      BY <1>0
    <3> QED BY <3>1, <3>2, TakeHead
  <2>1. /\ UNCHANGED <<queue, done, overtook, streams, received, to>>
        /\ hand' = [hand EXCEPT ![c] = <<>>] /\ pending' = Append(kept, received)
        /\ pc'[c] = "recv"
    BY <1>0, <1>4, <2>0, ScheduleMoves DEF BufferPending, BufferItem, Places
  <2>2. hand'[c] = <<>>
    BY <1>0, <2>1
  <2>3. Sorted(hand'[c]) /\ ToSet(hand'[c]) = {}
    BY <2>2 DEF Sorted, ToSet
  <2>4. kept \in Seq(Segments) /\ ToSet(kept) \subseteq ToSet(pending) /\ Sorted(kept)
    <3>1. CASE full
      <4>1. pending # <<>>
        BY <3>1, SizeAssumption
      <4>2. Distinct(pending) /\ Sorted(pending)
        BY DEF OnceInv, Once, OrderInv
      <4> QED BY <1>0, <3>1, <4>1, <4>2, TailMembers, TakeHead
    <3>2. CASE ~full
      BY <1>0, <3>2 DEF OrderInv
    <3> QED BY <3>1, <3>2
  <2> HIDE DEF kept
  <2>5. \A y \in ToSet(kept) : y < received
    <3>1. ToSet(hand[c]) = {received}
      BY <2>0, SingleMembers
    <3>2. received \notin ToSet(pending)
      <4> DEFINE E == Contents(pending, hand, queue, done, dropped)
      <4>1. E[Hands(c)] = {received} /\ E[Waiting] = ToSet(pending)
        BY <1>0, <3>1, ContentsOf
      <4>2. Hands(c) \in Homes /\ Waiting \in Homes /\ Hands(c) # Waiting
        BY <1>0, HomesDiffer
      <4>3. Parted(E, received)
        BY DEF OnceInv, Once
      <4> HIDE DEF E
      <4> QED BY <4>1, <4>2, <4>3 DEF Parted
    <3>3. ToSet(pending) \subseteq 1..received
      BY Received
    <3> QED BY <1>0, <2>4, <3>2, <3>3
  <2>6. Sorted(pending') /\ ToSet(pending') \subseteq ToSet(pending) \cup {received}
    BY <2>0, <2>1, <2>4, <2>5, AppendMembers
  <2>7. \A h \in Streams : ~Owns(c, h, to'[c], pc'[c], hand'[c], received')
    BY <2>1, <2>2 DEF Owns
  <2>8. to'[c] # 0 => Older(hand'[c], done[to'[c]], queue[to'[c]], overtook)
    BY <2>3 DEF Older
  <2>9. streams' \in Nat /\ streams' >= streams /\ pc'[c] \notin {"register", "flush"}
    BY <1>0, <2>1
  <2> QED BY <1>0, <1>1, <2>1, <2>3, <2>6, <2>7, <2>8, <2>9, OrderKept
<1>5. CASE ConsumerEnd
  <2>1. /\ UNCHANGED <<hand, pending, queue, done, overtook, received, streams, to>>
        /\ pc'[c] = "end" /\ pc[c] = "recv"
    BY <1>0, <1>5, GotoMoves DEF ConsumerEnd, Places
  <2>2. \A h \in Streams : ~Owns(c, h, to'[c], pc'[c], hand[c], received)
    BY <1>2, <2>1 DEF Owns, Ready
  <2>3. to'[c] # 0 => Older(hand[c], done[to'[c]], queue[to'[c]], overtook)
    BY <1>0, <2>1 DEF OrderInv, OlderInv
  <2> QED BY <1>0, <1>1, <2>1, <2>2, <2>3, SameHand
<1> QED BY <1>3, <1>4, <1>5 DEF Consume

LEMMA RetryOrder ==
  ASSUME StreamInv, PlaceTypes', DataTypes, ReadyInv, OnceInv, OrderInv, NEW t \in Timers, Retry(t)
  PROVE  OrderInv'
<1> USE DEF pendingVars, streamVars, workerVars, historyVars
<1>0. PlaceTypes /\ OffInv /\ streams \in Nat /\ t \in Actors /\ t # Consumer
  BY DEF StreamInv, SharedInv, PlaceTypes, Actors, Timers, Consumer
<1>1. /\ Only(t) /\ pc'[t] \in {"end", "fast"} /\ pc[t] \in {"set", "again", "failed"}
      /\ UNCHANGED <<hand, to, received, queue, done, overtook, streams>>
  BY <1>0, RetryReady
<1>2. hand[t] = <<>>
  BY <1>0, <1>1 DEF ReadyInv, Ready
<1>3. pending' = pending \/ pending' = <<>>
  BY DEF Retry, RetryFires, RetryAgain, RetryGoesOn, RetryAbandons, DeletePending
<1>4. Sorted(pending') /\ ToSet(pending') \subseteq ToSet(pending) \cup {received}
  BY <1>3 DEF OrderInv, Sorted, ToSet
<1>5. \A h \in Streams : ~Owns(t, h, to'[t], pc'[t], hand'[t], received')
  BY <1>1, <1>2 DEF Owns
<1>6. to'[t] # 0 => Older(hand'[t], done[to'[t]], queue[to'[t]], overtook)
  BY <1>0, <1>1 DEF OrderInv, OlderInv
<1>7. /\ streams' \in Nat /\ streams' >= streams /\ pc'[t] \notin {"register", "flush"}
      /\ Sorted(hand'[t])
  BY <1>0, <1>1 DEF OrderInv
<1> QED BY <1>0, <1>1, <1>4, <1>5, <1>6, <1>7, OrderKept

\* The rest: the consumer stays where it is, and so do the hands.
LEMMA OthersOrder ==
  ASSUME StreamInv, PlaceTypes', DataTypes, ReadyInv, OnceInv, OrderInv,
         \/ Shutdown
         \/ \E h \in Streams : WorkerStops(h) \/ WorkerExits(h) \/ WorkerCancels(h)
  PROVE  OrderInv'
<1> USE DEF actorVars, pendingVars, streamVars, workerVars, historyVars
<1> DEFINE c == Consumer
<1>0. PlaceTypes /\ OffInv /\ streams \in Nat /\ c \in Actors
  BY DEF StreamInv, SharedInv, PlaceTypes, Actors
<1>1. /\ UNCHANGED <<hand, to, received, overtook, streams>>
      /\ \A b \in Actors : pc'[b] = pc[b] \/ (pc[b] = "set" /\ pc'[b] = "end")
  BY <1>0, OthersReady DEF Worker
<1>2. UNCHANGED <<queue, done>> /\ (pending' = pending \/ pending' = <<>>)
  BY DEF Shutdown, ShutdownStart, CloseAllStreams, ShutdownPending, ShutdownTimeout,
         DeletePending, WorkerStops, WorkerExits, WorkerCancels
<1>3. Only(c) /\ pc'[c] = pc[c]
  <2>1. Ready(c, pc[c], hand[c], received)
    BY <1>0 DEF ReadyInv
  <2> QED BY <1>0, <1>1, <2>1 DEF Only, Ready
<1>4. Sorted(pending') /\ ToSet(pending') \subseteq ToSet(pending) /\ Sorted(hand'[c])
  BY <1>0, <1>1, <1>2 DEF OrderInv, Sorted, ToSet
<1>5. to'[c] # 0 => /\ Older(hand'[c], done[to'[c]], queue[to'[c]], overtook)
                    /\ pc'[c] = "flush" => Older(pending', done[to'[c]], queue[to'[c]], overtook)
  <2> SUFFICES ASSUME to[c] # 0
               PROVE  /\ Older(hand[c], done[to[c]], queue[to[c]], overtook)
                      /\ pc[c] = "flush" => Older(pending', done[to[c]], queue[to[c]], overtook)
    BY <1>1, <1>3
  <2>1. /\ Older(hand[c], done[to[c]], queue[to[c]], overtook)
        /\ pc[c] = "flush" => Older(pending, done[to[c]], queue[to[c]], overtook)
    BY <1>0 DEF OrderInv, OlderInv
  <2> QED BY <1>4, <2>1 DEF Older
<1>6. pc'[c] = "register" => done[to'[c]] = <<>>
  BY <1>0, <1>1, <1>3 DEF OrderInv
<1>7. streams' \in Nat /\ streams' >= streams
  BY <1>0, <1>1
<1>8. \A h \in Streams : Owns(c, h, to'[c], pc'[c], hand'[c], received') =>
          Owns(c, h, to[c], pc[c], hand[c], received)
  BY <1>1, <1>3
<1> QED BY <1>0, <1>1, <1>2, <1>3, <1>4, <1>5, <1>6, <1>7, <1>8, OrderKept

LEMMA OrderInitial == Init => OrderInv
<1> SUFFICES ASSUME Init PROVE OrderInv
  OBVIOUS
<1>1. /\ \A a \in Actors : hand[a] = <<>> /\ to[a] = 0 /\ pc[a] \in {"recv", "off"}
      /\ \A h \in Streams : queue[h] = <<>> /\ done[h] = <<>>
      /\ pending = <<>>
  BY DEF Init
<1>2. \A h \in Streams : h # 0
  BY DEF Streams
<1>3. OwnInv /\ OlderInv
  BY <1>1, <1>2 DEF OwnInv, OlderInv, Owns
<1>4. Sorted(<<>>) /\ \A o : InLine(<<>> \o <<>>, o)
  <2>1. <<>> \o <<>> = <<>>
    OBVIOUS
  <2> QED BY <2>1 DEF Sorted, InLine
<1> QED BY <1>1, <1>3, <1>4 DEF OrderInv

-----------------------------------------------------------------------------
FlowsInv == StreamInv /\ DataTypes /\ HandInv /\ ReadyInv /\ OnceInv /\ OrderInv

LEMMA FlowsStep == FlowsInv /\ [Next]_vars => FlowsInv'
<1> SUFFICES ASSUME FlowsInv, [Next]_vars PROVE FlowsInv'
  OBVIOUS
<1> USE DEF FlowsInv
<1>1. PlaceTypes /\ OffInv /\ PlaceTypes' /\ StreamInv'
  BY NextStreamInv, StepPlaceTypes DEF StreamInv, SharedInv
<1>2. DataTypes' /\ HandInv'
  BY <1>1, StepDataTypes
<1>3. OnceInv'
  BY OnceStep
<1>4. CASE UNCHANGED vars
  <2>1. UNCHANGED <<received, pc, to, hand, pending, streams, queue, done, overtook>>
    BY <1>4 DEF vars, actorVars, pendingVars, streamVars, workerVars, historyVars
  <2>2. ReadyInv'
    BY <2>1 DEF ReadyInv
  <2>3. OwnInv' /\ OlderInv'
    BY <2>1 DEF OrderInv, OwnInv, OlderInv
  <2>4. OrderInv'
    BY <2>1, <2>3 DEF OrderInv
  <2> QED BY <1>1, <1>2, <1>3, <2>2, <2>4
<1>5. CASE Next
  <2>1. ReadyInv'
    BY <1>1, <1>5, CreateReady, EnqueueReady, ConsumeReady, RetryReady, OthersReady DEF Next
  <2>2. ASSUME NEW h \in Streams, Worker(h) PROVE OrderInv'
    BY <1>1, <2>2, TakesOrder, OthersOrder DEF Worker
  <2>3. OrderInv'
    BY <1>1, <1>5, <2>2, CreateOrder, EnqueueOrder, ConsumeOrder, RetryOrder, OthersOrder DEF Next
  <2> QED BY <1>1, <1>2, <1>3, <2>1, <2>3
<1> QED BY <1>1, <1>2, <1>3, <1>4, <1>5

\* Between consumer, pending queue, retries and workers no segment gets lost,
\* but where the code gives it up, or is processed twice; a worker gets them in
\* order, but for those the consumer enqueued while a retry replayed; and a
\* Shutdown that succeeds leaves none pending.
THEOREM SegmentsFlowOnce == Spec => []SegmentsFlow
<1>1. Init => FlowsInv
  BY InitStreamInv, InitDataTypes, ReadyInitial, OnceInitial, OrderInitial DEF FlowsInv
<1>2. FlowsInv /\ ShutdownEmpties => SegmentsFlow
  <2>1. FlowsInv => SegmentOnce
    BY OnceIsOne DEF FlowsInv
  <2>2. FlowsInv => OrderedUnlessReplaying
    BY DEF FlowsInv, OrderInv, InLine, OrderedUnlessReplaying
  <2> QED BY <2>1, <2>2 DEF SegmentsFlow
<1> QED BY <1>1, <1>2, FlowsStep, ShutdownLeavesNothing, PTL DEF Spec

-----------------------------------------------------------------------------
(* Text to speech: what holds of its table, requests and workers.          *)

\* The part of the type invariant that is text to speech's own.
EgressTypes ==
    /\ speaking \in [Streams -> Seq(Segments)]
    /\ stopped \subseteq Streams /\ keep \subseteq stopped
    /\ barge \in {"idle", "clear", "stop"} /\ interrupts \in 0..MaxInterrupts
    /\ lifecycle \in {"idle", "stop", "end"}
    /\ target \in [{"barge", "lifecycle"} -> Streams \cup {0}]
    /\ saved \subseteq Segments /\ slipped \subseteq Segments /\ wiped \subseteq dropped

\* A handler has got the stream it interrupts or removes from the table, where
\* no stream is that is still to be registered.
TargetInv ==
    /\ \A x \in {"barge", "lifecycle"} : target[x] <= streams
    /\ barge # "idle" => target["barge"] # 0
    /\ lifecycle = "stop" => target["lifecycle"] # 0
    /\ \A a \in Actors : pc[a] = "register" =>
          \A x \in {"barge", "lifecycle"} : target[x] # to[a]

\* What is required of the table, with what its handlers know of it.
TableInv == TargetInv /\ NoOrphanSynth /\ SynthAlive

\* A stream that speaks, or is about to rebuffer, has one request.
SpeakInv ==
    \A h \in Streams :
        IF worker[h] \in {"speak", "rebuffer"}
        THEN \E x \in Segments : speaking[h] = <<x>>
        ELSE speaking[h] = <<>>

\* A stream that rebuffers goes on to its end, cancelled, and leaves behind
\* only what slipped in.
KeepInv ==
    \A h \in keep :
        /\ worker[h] \in {"rebuffer", "drain", "exit", "closed", "cancel", "done"}
        /\ worker[h] # "rebuffer" => h \in cancelled
        /\ worker[h] \in {"cancel", "done"} => ToSet(queue[h]) \subseteq slipped

\* What a stream has spoken or speaks counts as one home.
Occupied == [h \in Streams |-> done[h] \o speaking[h]]
\* Every request received is in one home.
BusyInv == Once(pending, hand, queue, Occupied, dropped, received)

\* The inductive invariant of text to speech.
EgressInv ==
    /\ SharedInv /\ EgressTypes /\ DataTypes /\ HandInv /\ ReadyInv
    /\ TableInv /\ SpeakInv /\ KeepInv /\ BusyInv

\* No actor moves, but for a timer that is set or stopped.
Still == \A b \in Actors :
    \/ pc'[b] = pc[b]
    \/ pc[b] = "off" /\ pc'[b] = "set"
    \/ pc[b] = "set" /\ pc'[b] = "end"

\* What a step that starts or stops no one but a timer does to the actors.
LEMMA StillMoves ==
    ASSUME SharedInv,
           \/ UNCHANGED <<pc, timer, timers>>
           \/ pc' = StopTimer(pc) /\ timer' = 0 /\ timers' = timers
           \/ Schedule(pc)
    PROVE  /\ Still /\ OffInv' /\ pc' \in [Actors -> Places]
           /\ timer' \in Timers \cup {0} /\ timers' \in 0..MaxTimers
<1>0. /\ pc \in [Actors -> Places] /\ PlaceTypes /\ OffInv
      /\ timer \in Timers \cup {0} /\ timers \in 0..MaxTimers
    BY DEF SharedInv, PlaceTypes
<1>1. CASE UNCHANGED <<pc, timer, timers>>
    BY <1>0, <1>1 DEF Still, OffInv
<1>2. CASE pc' = StopTimer(pc) /\ timer' = 0 /\ timers' = timers
  <2>1. /\ pc' \in [Actors -> Places]
        /\ \A b \in Actors : pc'[b] = pc[b] \/ (pc[b] = "set" /\ pc'[b] = "end")
    BY <1>0, <1>2, StopTimerSpec
  <2>2. OffInv' /\ Still
    BY <1>0, <1>2, <2>1 DEF Still, OffInv, Actors
  <2>. QED BY <1>0, <1>2, <2>1, <2>2
<1>3. CASE Schedule(pc)
  <2>1. /\ pc' \in [Actors -> Places] /\ timer' \in Timers \cup {0} /\ timers' \in 0..MaxTimers
        /\ \A a \in Actors : \/ pc'[a] = pc[a]
                             \/ a \in Timers /\ a = timers + 1 /\ pc'[a] = "set"
    BY <1>0, <1>3, ScheduleSpec
  <2>2. \A t \in Timers : t = timers + 1 => pc[t] = "off"
    BY <1>0 DEF OffInv, Timers
  <2>3. Still
    BY <2>1, <2>2 DEF Still
  <2>4. (timers' = timers /\ pc' = pc) \/ timers' = timers + 1
    BY <1>0, <1>3 DEF Schedule
  <2>5. \A t \in Timers : t > timers' => t > timers /\ (t = timers + 1 => pc' = pc)
    BY <1>0, <2>4 DEF Timers
  <2>6. OffInv'
    BY <1>0, <2>1, <2>5 DEF OffInv, Actors
  <2>. QED BY <2>1, <2>3, <2>6
<1>. QED BY <1>1, <1>2, <1>3

\* Actors that stand still keep what they hold.
LEMMA StillHands ==
    ASSUME HandInv, ReadyInv, Still, UNCHANGED <<hand, received>>
    PROVE  HandInv' /\ ReadyInv'
<1>1. Consumer \in Actors
    BY DEF Actors
<1>2. HandInv'
    BY <1>1 DEF HandInv, Still
<1>3. ASSUME NEW b \in Actors PROVE Ready(b, pc'[b], hand[b], received)
  <2>1. Ready(b, pc[b], hand[b], received)
    BY DEF ReadyInv
  <2>. QED BY <2>1 DEF Ready, Still
<1>. QED BY <1>2, <1>3 DEF ReadyInv

\* What a step of a worker, a handler or the shutdown keeps.
LEMMA StillShared ==
    ASSUME SharedInv, Still, OffInv', pc' \in [Actors -> Places],
           timer' \in Timers \cup {0}, timers' \in 0..MaxTimers,
           closing' \in BOOLEAN, closing => closing',
           shutdown' \in {"no", "streams", "wait", "end", "failed"},
           UNCHANGED <<to, streams>>, worker' \in [Streams -> WorkerPlaces],
           \A h \in Streams : (worker'[h] = "none" <=> worker[h] = "none"),
           \A h \in Streams : worker'[h] = "done" => h \in cancelled',
           cancelled' \subseteq 1..streams, stream' \in {0, stream},
           \A h \in Streams : queue[h] = <<>> => queue'[h] = <<>>,
           \A a \in Actors : pc[a] = "register" /\ ~closing' =>
               worker'[to[a]] = "run" /\ to[a] \notin cancelled'
    PROVE  /\ SharedInv'
           /\ \A b \in Actors : pc'[b] = "register" <=> pc[b] = "register"
<1> USE DEF SharedInv
<1>1. PlaceTypes'
    BY DEF PlaceTypes
<1>2. \A b \in Actors : (pc'[b] \in Holding <=> pc[b] \in Holding)
                        /\ (pc'[b] = "register" <=> pc[b] = "register")
    BY DEF Still, Holding
<1>3. FlowInv'
    BY <1>2 DEF FlowInv, PlaceTypes
<1>4. FreshInv'
  <2>1. \A h \in Streams : h > streams => queue'[h] = <<>>
    BY DEF FreshInv
  <2>2. ASSUME NEW a \in Actors, pc[a] = "register"
        PROVE  stream' # to[a] /\ queue'[to[a]] = <<>>
    <3>1. to[a] \in Streams /\ to[a] # 0 /\ stream # to[a] /\ queue[to[a]] = <<>>
      BY <2>2 DEF FreshInv, FlowInv, Holding, PlaceTypes
    <3>. QED BY <3>1
  <2>. QED BY <1>2, <2>1, <2>2 DEF FreshInv
<1>. QED BY <1>1, <1>2, <1>3, <1>4

\* Deleting the pending queue.
LEMMA DeleteTypes ==
    ASSUME DataTypes, NEW at, DeletePending(at)
    PROVE  /\ pending' \in Seq(Segments) /\ Len(pending') <= MaxPending
           /\ failures' \in Nat /\ failures' <= MaxFailures
           /\ dropped' \subseteq Segments /\ dropped \subseteq dropped'
           /\ ToSet(pending) \subseteq dropped'
<1>1. ToSet(pending) \subseteq Segments
    BY ConcatSegments DEF DataTypes
<1>. QED BY <1>1, NoSegments, SizeAssumption, FailuresAssumption DEF DeletePending, DataTypes

-----------------------------------------------------------------------------
(* Text to speech: the handlers of sessions and barge-in, Shutdown.        *)

\* A step aside from the requests' path: it deletes the pending queue at most.
LEMMA AsideData ==
    ASSUME EgressInv, Still,
           UNCHANGED <<received, hand, queue, overtook, done, worker, speaking, keep, slipped>>,
           cancelled \subseteq cancelled',
           UNCHANGED <<pending, failures, dropped>> \/ \E at : DeletePending(at)
    PROVE  /\ DataTypes' /\ HandInv' /\ ReadyInv' /\ SpeakInv' /\ KeepInv' /\ BusyInv'
           /\ dropped \subseteq dropped'
<1> USE DEF EgressInv
<1>1. HandInv' /\ ReadyInv'
    BY StillHands
<1>2. SpeakInv' /\ KeepInv'
    BY DEF SpeakInv, KeepInv
<1>3. Occupied' = Occupied
    BY DEF Occupied
<1>4. CASE UNCHANGED <<pending, failures, dropped>>
  <2>1. DataTypes'
    BY <1>4 DEF DataTypes
  <2>2. BusyInv'
    BY <1>3, <1>4 DEF BusyInv
  <2>. QED BY <1>1, <1>2, <1>4, <2>1, <2>2
<1>5. CASE \E at : DeletePending(at)
  <2>1. PICK at : DeletePending(at)
    BY <1>5
  <2>2. DataTypes' /\ dropped \subseteq dropped'
    BY <2>1, DeleteTypes DEF DataTypes
  <2>3. Once(pending', hand', queue', Occupied, dropped', received')
    BY <2>1, DeleteOnce DEF BusyInv
  <2>4. BusyInv'
    BY <1>3, <2>3 DEF BusyInv
  <2>. QED BY <1>1, <1>2, <2>2, <2>4
<1>. QED BY <1>4, <1>5

\* A stream about to be registered is nobody's but its creator's.
LEMMA RegisteringApart ==
    ASSUME SharedInv, TargetInv, NEW a \in Actors, pc[a] = "register"
    PROVE  /\ to[a] \in Streams /\ to[a] # 0 /\ stream # to[a]
           /\ \A x \in {"barge", "lifecycle"} : target[x] # to[a]
           /\ ~closing => worker[to[a]] = "run" /\ to[a] \notin cancelled
    BY DEF SharedInv, TargetInv, FreshInv, FlowInv, Holding, PlaceTypes

\* Barge-in and the end of a session keep the invariant.
LEMMA HandlersStep == EgressInv /\ Handlers => EgressInv'
<1> SUFFICES ASSUME EgressInv, Handlers PROVE EgressInv'
    OBVIOUS
<1> USE DEF actorVars, pendingVars, streamVars, workerVars, historyVars, endVars, sVars, savedVars
<1>0. /\ SharedInv /\ TargetInv /\ NoOrphanSynth /\ SynthAlive /\ EgressTypes
      /\ stream \in Streams \cup {0} /\ streams \in 0..MaxStreams /\ stream <= streams
      /\ worker \in [Streams -> WorkerPlaces] /\ cancelled \subseteq 1..streams
      /\ closing \in BOOLEAN /\ shutdown \in {"no", "streams", "wait", "end", "failed"}
      /\ \A h \in Streams : worker[h] = "done" => h \in cancelled
      /\ target \in [{"barge", "lifecycle"} -> Streams \cup {0}]
    BY DEF EgressInv, TableInv, SharedInv, PlaceTypes, FlowInv, EgressTypes
<1>1. \A x \in {"barge", "lifecycle"} : target[x] # 0 => target[x] \in 1..streams /\ target[x] \in Streams
    BY <1>0 DEF TargetInv, Streams
<1>2. CASE InterruptFinds
  <2>1. /\ UNCHANGED <<vars, sVars, lifecycle, savedVars>> /\ barge' = "clear" /\ stream # 0
        /\ target' = [target EXCEPT !["barge"] = stream] /\ interrupts' \in 0..MaxInterrupts
    BY <1>0, <1>2, InterruptAssumption DEF InterruptFinds, EgressTypes
  <2>2. UNCHANGED <<pc, to, timer, timers, stream, streams, closing, shutdown, worker, queue,
                    cancelled, received, hand, overtook, done, pending, failures, dropped,
                    speaking, keep, slipped, stopped, saved, wiped>>
    BY <2>1 DEF vars
  <2>3. Still /\ OffInv' /\ pc' \in [Actors -> Places]
        /\ timer' \in Timers \cup {0} /\ timers' \in 0..MaxTimers
    BY <1>0, <2>2, StillMoves
  <2>4. SharedInv' /\ \A b \in Actors : pc'[b] = "register" <=> pc[b] = "register"
    BY <1>0, <2>2, <2>3, RegisteringApart, StillShared
  <2>5. DataTypes' /\ HandInv' /\ ReadyInv' /\ SpeakInv' /\ KeepInv' /\ BusyInv'
    BY <2>2, <2>3, AsideData
  <2>6. EgressTypes'
    BY <1>0, <2>1, <2>2 DEF EgressTypes
  <2>7. target'["barge"] = stream /\ target'["lifecycle"] = target["lifecycle"]
    BY <1>0, <2>1
  <2>8. TargetInv'
    BY <1>0, <2>1, <2>2, <2>7, RegisteringApart DEF TargetInv
  <2>9. NoOrphanSynth' /\ SynthAlive'
    BY <1>0, <2>1, <2>2, <2>7 DEF NoOrphanSynth, SynthAlive, Cancelled
  <2>. QED BY <2>4, <2>5, <2>6, <2>8, <2>9 DEF EgressInv, TableInv
<1>3. CASE InterruptClears
  <2>1. /\ UNCHANGED <<to, stream, streams, closing, shutdown, worker, queue, timers,
                       cancelled, received, hand, overtook, done, target, lifecycle, interrupts,
                       speaking, keep, slipped, stopped, saved, wiped>>
        /\ barge = "clear" /\ barge' = "stop" /\ DeletePending(pc)
    BY <1>3 DEF InterruptClears
  <2>3. Still /\ OffInv' /\ pc' \in [Actors -> Places]
        /\ timer' \in Timers \cup {0} /\ timers' \in 0..MaxTimers
    BY <1>0, <2>1, StillMoves DEF DeletePending
  <2>4. SharedInv' /\ \A b \in Actors : pc'[b] = "register" <=> pc[b] = "register"
    BY <1>0, <2>1, <2>3, RegisteringApart, StillShared
  <2>5. DataTypes' /\ HandInv' /\ ReadyInv' /\ SpeakInv' /\ KeepInv' /\ BusyInv'
        /\ dropped \subseteq dropped'
    BY <2>1, <2>3, AsideData
  <2>6. EgressTypes'
    BY <1>0, <2>1, <2>5 DEF EgressTypes
  <2>8. TargetInv'
    BY <1>0, <2>1, <2>4 DEF TargetInv
  <2>9. NoOrphanSynth' /\ SynthAlive'
    BY <1>0, <2>1, <2>4 DEF NoOrphanSynth, SynthAlive, Cancelled
  <2>. QED BY <2>4, <2>5, <2>6, <2>8, <2>9 DEF EgressInv, TableInv
<1>4. CASE InterruptStops
  <2>1. /\ UNCHANGED <<pc, to, stream, streams, closing, shutdown, worker, queue, timer, timers,
                       received, hand, overtook, done, lifecycle, interrupts, pending, failures,
                       dropped, speaking, keep, slipped, stopped, saved, wiped>>
        /\ barge = "stop" /\ barge' = "idle" /\ cancelled' = cancelled \cup {target["barge"]}
        /\ target' = [target EXCEPT !["barge"] = 0]
    BY <1>4 DEF InterruptStops
  <2>2. target["barge"] \in 1..streams /\ target["barge"] # 0
    BY <1>0, <1>1, <2>1 DEF TargetInv
  <2>3. Still /\ OffInv' /\ pc' \in [Actors -> Places]
        /\ timer' \in Timers \cup {0} /\ timers' \in 0..MaxTimers
    BY <1>0, <2>1, StillMoves
  <2>4. SharedInv' /\ \A b \in Actors : pc'[b] = "register" <=> pc[b] = "register"
    BY <1>0, <2>1, <2>2, <2>3, RegisteringApart, StillShared
  <2>5. DataTypes' /\ HandInv' /\ ReadyInv' /\ SpeakInv' /\ KeepInv' /\ BusyInv'
    BY <2>1, <2>3, AsideData
  <2>6. EgressTypes'
    BY <1>0, <2>1 DEF EgressTypes
  <2>7. target'["barge"] = 0 /\ target'["lifecycle"] = target["lifecycle"]
    BY <1>0, <2>1
  <2>8. TargetInv'
    BY <1>0, <2>1, <2>7, RegisteringApart DEF TargetInv
  <2>9. NoOrphanSynth' /\ SynthAlive'
    BY <1>0, <2>1, <2>7 DEF NoOrphanSynth, SynthAlive, Cancelled
  <2>. QED BY <2>4, <2>5, <2>6, <2>8, <2>9 DEF EgressInv, TableInv
<1>5. CASE SessionRemoves
  <2>1. /\ UNCHANGED <<pc, to, streams, closing, shutdown, worker, queue, timer, timers, cancelled,
                       received, hand, overtook, done, interrupts, pending, failures, barge,
                       dropped, speaking, keep, slipped, stopped, saved, wiped>>
        /\ lifecycle = "idle" /\ lifecycle' = (IF stream = 0 THEN "end" ELSE "stop") /\ stream' = 0
        /\ target' = [target EXCEPT !["lifecycle"] = stream]
    BY <1>5 DEF SessionRemoves
  <2>3. Still /\ OffInv' /\ pc' \in [Actors -> Places]
        /\ timer' \in Timers \cup {0} /\ timers' \in 0..MaxTimers
    BY <1>0, <2>1, StillMoves
  <2>4. SharedInv' /\ \A b \in Actors : pc'[b] = "register" <=> pc[b] = "register"
    BY <1>0, <2>1, <2>3, RegisteringApart, StillShared
  <2>5. DataTypes' /\ HandInv' /\ ReadyInv' /\ SpeakInv' /\ KeepInv' /\ BusyInv'
    BY <2>1, <2>3, AsideData
  <2>6. EgressTypes'
    BY <1>0, <2>1 DEF EgressTypes
  <2>7. target'["lifecycle"] = stream /\ target'["barge"] = target["barge"]
    BY <1>0, <2>1
  <2>8. TargetInv'
    BY <1>0, <2>1, <2>7, RegisteringApart DEF TargetInv
  <2>9. NoOrphanSynth' /\ SynthAlive'
    <3>1. \A h \in Streams : h # 0
      BY DEF Streams
    <3>. QED BY <1>0, <2>1, <2>7, <3>1 DEF NoOrphanSynth, SynthAlive, Cancelled
  <2>. QED BY <2>4, <2>5, <2>6, <2>8, <2>9 DEF EgressInv, TableInv
<1>6. CASE SessionStops
  <2>1. /\ UNCHANGED <<pc, to, stream, streams, closing, shutdown, worker, queue, timer, timers,
                       received, hand, overtook, done, interrupts, pending, failures, barge,
                       dropped, speaking, keep, slipped, saved, wiped>>
        /\ lifecycle = "stop" /\ lifecycle' = "end"
        /\ cancelled' = cancelled \cup {target["lifecycle"]}
        /\ stopped' = stopped \cup {target["lifecycle"]}
        /\ target' = [target EXCEPT !["lifecycle"] = 0]
    BY <1>6 DEF SessionStops
  <2>2. target["lifecycle"] \in 1..streams /\ target["lifecycle"] \in Streams
    BY <1>0, <1>1, <2>1 DEF TargetInv
  <2>3. Still /\ OffInv' /\ pc' \in [Actors -> Places]
        /\ timer' \in Timers \cup {0} /\ timers' \in 0..MaxTimers
    BY <1>0, <2>1, StillMoves
  <2>4. SharedInv' /\ \A b \in Actors : pc'[b] = "register" <=> pc[b] = "register"
    BY <1>0, <2>1, <2>2, <2>3, RegisteringApart, StillShared
  <2>5. DataTypes' /\ HandInv' /\ ReadyInv' /\ SpeakInv' /\ KeepInv' /\ BusyInv'
    BY <2>1, <2>3, AsideData
  <2>6. EgressTypes'
    BY <1>0, <2>1, <2>2 DEF EgressTypes
  <2>7. target'["lifecycle"] = 0 /\ target'["barge"] = target["barge"]
    BY <1>0, <2>1
  <2>8. TargetInv'
    BY <1>0, <2>1, <2>7, RegisteringApart DEF TargetInv
  <2>9. NoOrphanSynth' /\ SynthAlive'
    BY <1>0, <2>1, <2>7 DEF NoOrphanSynth, SynthAlive, Cancelled
  <2>. QED BY <2>4, <2>5, <2>6, <2>8, <2>9 DEF EgressInv, TableInv
<1>. QED BY <1>2, <1>3, <1>4, <1>5, <1>6 DEF Handlers

\* Shutdown keeps the invariant.
LEMMA EgressShutdownStep == EgressInv /\ EgressShutdown => EgressInv'
<1> SUFFICES ASSUME EgressInv, EgressShutdown PROVE EgressInv'
    OBVIOUS
<1> USE DEF actorVars, pendingVars, streamVars, workerVars, historyVars, sVars, savedVars,
            handlerVars, egressVars
<1>0. /\ SharedInv /\ TargetInv /\ NoOrphanSynth /\ SynthAlive /\ EgressTypes
      /\ stream \in Streams \cup {0} /\ streams \in 0..MaxStreams /\ stream <= streams
      /\ worker \in [Streams -> WorkerPlaces] /\ cancelled \subseteq 1..streams
      /\ closing \in BOOLEAN /\ shutdown \in {"no", "streams", "wait", "end", "failed"}
      /\ \A h \in Streams : worker[h] = "done" => h \in cancelled
    BY DEF EgressInv, TableInv, SharedInv, PlaceTypes, FlowInv
<1>1. /\ UNCHANGED <<to, streams, worker, queue, received, hand, overtook, done, speaking, keep,
                     slipped, target, lifecycle, barge, interrupts, saved, wiped, timers>>
      /\ (UNCHANGED <<pc, timer, pending, failures, dropped>> \/ DeletePending(pc))
      /\ \/ stream' = stream /\ cancelled' = cancelled /\ stopped' = stopped
         \/ /\ stream # 0 /\ stream' = 0 /\ cancelled' = cancelled \cup {stream}
            /\ stopped' = stopped \cup {stream}
      /\ closing' \in BOOLEAN /\ (closing => closing')
      /\ shutdown' \in {"no", "streams", "wait", "end", "failed"}
  <2>1. CASE EgressShutdownStart
    BY <1>0, <2>1 DEF EgressShutdownStart, ShutdownStart
  <2>2. CASE EgressCloseStreams
    BY <1>0, <2>2 DEF EgressCloseStreams, CloseAllStreams
  <2>3. CASE EgressShutdownPending
    BY <1>0, <2>3 DEF EgressShutdownPending, ShutdownPending
  <2>4. CASE EgressShutdownTimeout
    BY <1>0, <2>4 DEF EgressShutdownTimeout
  <2>. QED BY <2>1, <2>2, <2>3, <2>4 DEF EgressShutdown
<1>3. Still /\ OffInv' /\ pc' \in [Actors -> Places]
      /\ timer' \in Timers \cup {0} /\ timers' \in 0..MaxTimers
    BY <1>0, <1>1, StillMoves DEF DeletePending
<1>4. /\ cancelled' \subseteq 1..streams /\ stream' \in {0, stream} /\ cancelled \subseteq cancelled'
      /\ \A a \in Actors : pc[a] = "register" /\ ~closing' =>
             worker'[to[a]] = "run" /\ to[a] \notin cancelled'
  <2>1. stream # 0 => stream \in 1..streams
    BY <1>0 DEF Streams
  <2>. QED BY <1>0, <1>1, <2>1, RegisteringApart
<1>5. SharedInv' /\ \A b \in Actors : pc'[b] = "register" <=> pc[b] = "register"
    BY <1>0, <1>1, <1>3, <1>4, StillShared
<1>6. DataTypes' /\ HandInv' /\ ReadyInv' /\ SpeakInv' /\ KeepInv' /\ BusyInv'
      /\ dropped \subseteq dropped'
    BY <1>1, <1>3, <1>4, AsideData
<1>7. EgressTypes'
    BY <1>0, <1>1, <1>6 DEF EgressTypes
<1>8. TargetInv'
    BY <1>0, <1>1, <1>5 DEF TargetInv
<1>9. NoOrphanSynth' /\ SynthAlive'
    BY <1>0, <1>1, <1>5 DEF NoOrphanSynth, SynthAlive, Cancelled
<1>. QED BY <1>5, <1>6, <1>7, <1>8, <1>9 DEF EgressInv, TableInv

-----------------------------------------------------------------------------
(* Text to speech: a worker's request.                                     *)

\* The worker's request returns to the pending queue.
LEMMA BusyWaits ==
  ASSUME DataTypes, NEW h \in Streams, NEW x \in Segments, NEW at, BufferItem(x, at),
         speaking \in [Streams -> Seq(Segments)], speaking[h] = <<x>>, BusyInv,
         speaking' = [speaking EXCEPT ![h] = <<>>], UNCHANGED <<received, hand, queue, done>>
  PROVE  BusyInv'
<1> DEFINE dn == Occupied
           dn2 == Occupied'
           E == Contents(pending, hand, queue, dn, dropped)
           F == Contents(pending', hand', queue', dn2, dropped')
<1>0. done[h] \in Seq(Segments)
  BY DEF DataTypes
<1>1. /\ dn[h] = done[h] \o <<x>> /\ dn2[h] = done[h] \o <<>>
      /\ \A g \in Streams \ {h} : dn2[g] = dn[g]
  BY DEF Occupied
<1>2. dn2[h] = done[h]
  BY <1>0, <1>1
<1>3. /\ Once(pending, hand, queue, dn, dropped, received)
      /\ Distinct(done[h] \o <<x>>)
  BY <1>1 DEF BusyInv, Once
<1>4. /\ Distinct(done[h]) /\ ToSet(dn[h]) = ToSet(done[h]) \cup {x}
      /\ ToSet(done[h]) = ToSet(dn[h]) \ {x}
  BY <1>0, <1>1, <1>3, FrontMembers
<1>5. /\ Worked(h) \in Homes /\ Worked(h) # Waiting /\ Worked(h) # Given
  BY HomesDiffer
<1>6. E[Worked(h)] = ToSet(dn[h]) /\ F[Worked(h)] = ToSet(dn2[h])
  BY ContentsOf
<1>7. \A g \in Streams : Distinct(queue'[g]) /\ Distinct(dn2[g])
  BY <1>1, <1>2, <1>3, <1>4 DEF Once
<1>8. \A a \in Actors : Distinct(hand'[a])
  BY <1>3 DEF Once
<1>9. /\ x \in E[Worked(h)] /\ F[Worked(h)] = E[Worked(h)] \ {x}
      /\ \A g \in Streams : Worked(g) = Worked(h) \/ dn2[g] = dn[g]
  BY <1>1, <1>2, <1>4, <1>6
<1>10. Leaves(x, Worked(h), dn, dn2)
  BY <1>7, <1>8, <1>9 DEF Leaves
<1> HIDE DEF dn, dn2
<1>11. Once(pending', hand', queue', dn2, dropped', received')
  BY <1>3, <1>5, <1>10, ItemOnce
<1> QED BY <1>11 DEF BusyInv, dn2

-----------------------------------------------------------------------------
(* Text to speech: what a worker moves.                                    *)

\* A worker that still reads its channel.
Synth == {"run", "speak", "rebuffer"}

\* What the step of a worker can do to workers, channels and the table.
SpeakerMoves(h) ==
    /\ UNCHANGED <<received, to, hand, streams, overtook, endVars, handlerVars, saved, slipped>>
    /\ \A g \in Streams \ {h} : worker'[g] = worker[g] /\ queue'[g] = queue[g]
    /\ worker' \in [Streams -> WorkerPlaces]
    /\ worker[h] \notin {"none", "done"} /\ worker'[h] # "none"
    /\ worker'[h] \in Synth => worker[h] \in Synth /\ stream' = stream /\ cancelled' = cancelled
    /\ worker[h] \in {"run", "speak", "rebuffer", "drain"} =>
           worker'[h] \in {"run", "speak", "rebuffer", "drain", "exit"}
    /\ worker[h] = "exit" => stream' # h
    /\ worker[h] = "run" => queue[h] # <<>> \/ Cancelled(h)
    /\ worker'[h] = "done" => h \in cancelled'
    /\ cancelled' \in {cancelled, cancelled \cup {h}}
    /\ stream' \in {stream, 0} /\ (stream' = stream \/ stream = h)
    /\ queue[h] = <<>> => queue'[h] = <<>>
    /\ \/ UNCHANGED <<pc, timer, timers>>
       \/ pc' = StopTimer(pc) /\ timer' = 0 /\ timers' = timers
       \/ Schedule(pc)

\* A drain moves the worker on by its length.
LEMMA DrainMoves ==
    ASSUME SharedInv, DataTypes, NEW h \in Streams,
           \/ worker[h] = "drain" /\ Drain(h, "exit")
           \/ worker[h] = "closed" /\ Drain(h, "cancel")
    PROVE  SpeakerMoves(h)
<1> USE DEF actorVars, pendingVars, streamVars, historyVars, egressVars, sVars, handlerVars, savedVars
<1>0. worker \in [Streams -> WorkerPlaces] /\ queue \in [Streams -> Seq(Segments)]
      /\ h # 0 /\ streams \in Nat
    BY DEF SharedInv, PlaceTypes, DataTypes, Streams
<1>1. CASE queue[h] = <<>>
    BY <1>0, <1>1 DEF Drain, WorkerGoto, SpeakerMoves, Synth, WorkerPlaces
<1>2. CASE queue[h] # <<>>
    BY <1>0, <1>2 DEF Drain, BufferItem, SpeakerMoves, Synth, WorkerPlaces
<1>. QED BY <1>1, <1>2

\* Every step of a worker moves as SpeakerMoves says.
LEMMA SpeakerStepMoves ==
    ASSUME SharedInv, DataTypes, NEW h \in Streams, Speaker(h)
    PROVE  SpeakerMoves(h)
<1> USE DEF actorVars, pendingVars, streamVars, historyVars, egressVars, sVars, handlerVars,
            savedVars, SpeakerMoves, WorkerGoto, Synth, WorkerPlaces
<1>0. worker \in [Streams -> WorkerPlaces] /\ queue \in [Streams -> Seq(Segments)]
      /\ h # 0
    BY DEF SharedInv, PlaceTypes, DataTypes, Streams
<1>1. CASE SpeakStarts(h)
    BY <1>0, <1>1 DEF SpeakStarts
<1>2. CASE SpeakEnds(h)
    BY <1>0, <1>2 DEF SpeakEnds
<1>3. CASE SpeakUnavailable(h)
    BY <1>0, <1>3 DEF SpeakUnavailable
<1>4. CASE Rebuffer(h)
    BY <1>0, <1>4 DEF Rebuffer, BufferItem
<1>5. CASE RebufferDrain(h)
    BY <1>5, DrainMoves DEF RebufferDrain
<1>6. CASE SpeakStops(h)
    BY <1>0, <1>6 DEF SpeakStops, WorkerStops
<1>7. CASE StreamClosed(h)
    BY <1>0, <1>7 DEF StreamClosed
<1>8. CASE ClosedClears(h)
    BY <1>0, <1>8 DEF ClosedClears, DeletePending
<1>9. CASE ClosedDrains(h)
    BY <1>9, DrainMoves DEF ClosedDrains
<1>10. CASE SpeakCancels(h)
    BY <1>0, <1>10 DEF SpeakCancels, WorkerCancels
<1>. QED BY <1>1, <1>2, <1>3, <1>4, <1>5, <1>6, <1>7, <1>8, <1>9, <1>10 DEF Speaker

\* A worker's step keeps the stream manager's part of the invariant.
LEMMA SpeakerShared ==
    ASSUME EgressInv, NEW h \in Streams, SpeakerMoves(h)
    PROVE  SharedInv' /\ TableInv' /\ HandInv' /\ ReadyInv' /\ pc' \in [Actors -> Places]
<1> USE DEF SpeakerMoves, endVars, handlerVars
<1>0. /\ SharedInv /\ TargetInv /\ NoOrphanSynth /\ SynthAlive /\ HandInv /\ ReadyInv
      /\ stream \in Streams \cup {0} /\ streams \in 0..MaxStreams
      /\ worker \in [Streams -> WorkerPlaces] /\ cancelled \subseteq 1..streams
      /\ closing \in BOOLEAN /\ shutdown \in {"no", "streams", "wait", "end", "failed"}
      /\ \A g \in Streams : worker[g] = "done" => g \in cancelled
      /\ \A g \in Streams : worker[g] = "none" <=> g > streams
    BY DEF EgressInv, TableInv, SharedInv, PlaceTypes, FlowInv
<1>1. h \in 1..streams /\ h # 0
    BY <1>0 DEF Streams
<1>2. Still /\ OffInv' /\ pc' \in [Actors -> Places]
      /\ timer' \in Timers \cup {0} /\ timers' \in 0..MaxTimers
    BY <1>0, StillMoves
<1>3. HandInv' /\ ReadyInv'
    BY <1>0, <1>2, StillHands
<1>4. cancelled' \subseteq 1..streams /\ cancelled \subseteq cancelled'
    BY <1>0, <1>1
<1>5. \A g \in Streams : (worker'[g] = "none" <=> worker[g] = "none")
                          /\ (worker'[g] = "done" => g \in cancelled')
                          /\ (queue[g] = <<>> => queue'[g] = <<>>)
    BY <1>0, <1>4
<1>6. ASSUME NEW a \in Actors, pc[a] = "register", ~closing'
      PROVE  worker'[to[a]] = "run" /\ to[a] \notin cancelled'
  <2>1. /\ to[a] \in Streams /\ worker[to[a]] = "run" /\ to[a] \notin cancelled
        /\ queue[to[a]] = <<>>
    BY <1>0, <1>6, RegisteringApart DEF SharedInv, FreshInv
  <2>2. to[a] # h
    BY <1>6, <2>1 DEF Cancelled
  <2>. QED BY <2>1, <2>2
<1>7. SharedInv' /\ \A b \in Actors : pc'[b] = "register" <=> pc[b] = "register"
    BY <1>0, <1>2, <1>4, <1>5, <1>6, StillShared
<1>8. TargetInv'
    BY <1>0, <1>7 DEF TargetInv
<1>9. NoOrphanSynth'
  <2> SUFFICES ASSUME NEW g \in Streams, worker'[g] \in Synth, ~closing, g \notin cancelled'
               PROVE  \/ stream' = g
                      \/ \E a \in Actors : pc'[a] = "register" /\ to'[a] = g
                      \/ lifecycle = "stop" /\ target["lifecycle"] = g
    BY DEF NoOrphanSynth, Cancelled, Synth
  <2>1. worker[g] \in Synth /\ g \notin cancelled /\ (stream = g => stream' = g)
    BY <1>4
  <2>2. \/ stream = g
        \/ \E a \in Actors : pc[a] = "register" /\ to[a] = g
        \/ lifecycle = "stop" /\ target["lifecycle"] = g
    BY <1>0, <2>1 DEF NoOrphanSynth, Cancelled, Synth
  <2>. QED BY <1>7, <2>1, <2>2
<1>10. SynthAlive'
  <2> SUFFICES ASSUME stream' # 0, ~closing
               PROVE  worker'[stream'] \in {"run", "speak", "rebuffer", "drain", "exit"}
    BY DEF SynthAlive
  <2>1. stream' = stream /\ stream # 0
    OBVIOUS
  <2>2. worker[stream] \in {"run", "speak", "rebuffer", "drain", "exit"} /\ stream \in Streams
    BY <1>0, <2>1 DEF SynthAlive
  <2>. QED BY <2>1, <2>2
<1>. QED BY <1>2, <1>3, <1>7, <1>8, <1>9, <1>10 DEF TableInv

-----------------------------------------------------------------------------
(* Text to speech: the steps of a worker.                                  *)

\* SpeakInv and KeepInv, for one stream.
Speaks(w, s) ==
    IF w \in {"speak", "rebuffer"} THEN \E x \in Segments : s = <<x>> ELSE s = <<>>

Keeps(h, w, c, q, sl) ==
    /\ w \in {"rebuffer", "drain", "exit", "closed", "cancel", "done"}
    /\ w # "rebuffer" => h \in c
    /\ w \in {"cancel", "done"} => ToSet(q) \subseteq sl

\* A worker's step touches what is said of its own stream only.
LEMMA SpeakerInvs ==
    ASSUME SpeakInv, KeepInv, NEW h \in Streams, SpeakerMoves(h),
           \A g \in Streams \ {h} : speaking'[g] = speaking[g],
           Speaks(worker'[h], speaking'[h]), keep \subseteq Streams,
           keep' \subseteq keep \cup {h},
           h \in keep' => Keeps(h, worker'[h], cancelled', queue'[h], slipped)
    PROVE  SpeakInv' /\ KeepInv'
<1>1. /\ \A g \in Streams \ {h} : worker'[g] = worker[g] /\ queue'[g] = queue[g]
      /\ cancelled \subseteq cancelled' /\ slipped' = slipped
    BY DEF SpeakerMoves
<1>2. ASSUME NEW g \in Streams PROVE Speaks(worker'[g], speaking'[g])
  <2>1. CASE g = h
    BY <2>1
  <2>2. CASE g # h
    <3>1. Speaks(worker[g], speaking[g])
      BY DEF SpeakInv, Speaks
    <3>. QED BY <1>1, <2>2, <3>1
  <2>. QED BY <2>1, <2>2
<1>3. SpeakInv'
    BY <1>2 DEF SpeakInv, Speaks
<1>4. ASSUME NEW g \in keep' PROVE Keeps(g, worker'[g], cancelled', queue'[g], slipped)
  <2>1. CASE g = h
    BY <2>1
  <2>2. CASE g # h
    <3>1. g \in keep /\ Keeps(g, worker[g], cancelled, queue[g], slipped)
      BY <2>2 DEF KeepInv, Keeps
    <3>2. Keeps(g, worker[g], cancelled', queue[g], slipped)
      BY <1>1, <3>1 DEF Keeps
    <3>. QED BY <1>1, <2>2, <3>1, <3>2
  <2>. QED BY <2>1, <2>2
<1>5. KeepInv'
    BY <1>1, <1>4 DEF KeepInv, Keeps
<1>. QED BY <1>3, <1>5

\* The parts of the invariant that the channel and its requests concern.
SpeechInv == EgressTypes /\ DataTypes /\ SpeakInv /\ KeepInv /\ BusyInv

LEMMA StartsSpeech ==
    ASSUME EgressInv, NEW h \in Streams, SpeakerMoves(h), SpeakStarts(h)
    PROVE  SpeechInv'
<1> USE DEF actorVars, pendingVars, streamVars, historyVars, handlerVars, savedVars
<1> DEFINE x == Head(queue[h])
<1>0. EgressTypes /\ DataTypes /\ SpeakInv /\ KeepInv /\ BusyInv
    BY DEF EgressInv
<1>1. /\ worker[h] = "run" /\ queue[h] # <<>> /\ worker'[h] = "speak"
      /\ queue[h] \in Seq(Segments) /\ done[h] \in Seq(Segments)
      /\ queue \in [Streams -> Seq(Segments)] /\ done \in [Streams -> Seq(Segments)]
      /\ speaking \in [Streams -> Seq(Segments)] /\ keep \subseteq Streams
    BY <1>0 DEF SpeakStarts, WorkerGoto, EgressInv, SharedInv, PlaceTypes, DataTypes, EgressTypes
<1>2. x \in Segments /\ Tail(queue[h]) \in Seq(Segments) /\ Len(Tail(queue[h])) <= Len(queue[h])
      /\ <<x>> \in Seq(Segments)
    BY <1>1, TakeHead
<1>3. /\ speaking' = [speaking EXCEPT ![h] = <<x>>] /\ queue' = [queue EXCEPT ![h] = Tail(queue[h])]
      /\ UNCHANGED <<received, hand, pending, failures, dropped, overtook, done, stopped, keep,
                     barge, interrupts, lifecycle, target, saved, wiped, slipped>>
    BY DEF SpeakStarts
<1>4. /\ speaking'[h] = <<x>> /\ \A g \in Streams \ {h} : speaking'[g] = speaking[g]
      /\ speaking' \in [Streams -> Seq(Segments)]
      /\ queue'[h] = Tail(queue[h]) /\ \A g \in Streams \ {h} : queue'[g] = queue[g]
      /\ queue' \in [Streams -> Seq(Segments)]
    BY <1>1, <1>2, <1>3
<1>5. EgressTypes'
    BY <1>0, <1>3, <1>4 DEF EgressTypes
<1>6. \A g \in Streams : Len(queue'[g]) <= Capacity
  <2>1. Len(queue[h]) <= Capacity /\ Len(queue[h]) \in Nat /\ Len(Tail(queue[h])) = Len(queue[h]) - 1
    BY <1>0, <1>1, TakeHead DEF DataTypes
  <2>2. Len(queue'[h]) <= Capacity
    BY <1>4, <2>1, SizeAssumption
  <2>. QED BY <1>0, <1>4, <2>2 DEF DataTypes
<1>7. DataTypes'
    BY <1>0, <1>3, <1>4, <1>6 DEF DataTypes
<1>8. Speaks(worker'[h], speaking'[h]) /\ h \notin keep
    BY <1>0, <1>1, <1>2, <1>4 DEF Speaks, KeepInv
<1>9. SpeakInv' /\ KeepInv'
    BY <1>0, <1>1, <1>3, <1>4, <1>8, SpeakerInvs
<1>10. Takes(h, Occupied, Occupied')
  <2>1. speaking[h] = <<>>
    BY <1>0, <1>1 DEF SpeakInv
  <2>2. \A g \in Streams : done[g] \o speaking[g] \in Seq(Segments)
    BY <1>1
  <2>3. Occupied \in [Streams -> Seq(Segments)]
    BY <2>2 DEF Occupied
  <2>4. done[h] \o <<>> = done[h]
    BY <1>1
  <2>5. Occupied[h] = done[h]
    BY <2>1, <2>4 DEF Occupied
  <2>6. Append(Occupied[h], x) = done[h] \o <<x>>
    BY <1>1, <1>2, <2>5, AppendMembers
  <2>7. Occupied' = [g \in Streams |-> done[g] \o speaking'[g]]
    BY <1>3 DEF Occupied
  <2>8. Occupied' = [Occupied EXCEPT ![h] = Append(Occupied[h], x)]
    BY <1>4, <2>3, <2>6, <2>7 DEF Occupied
  <2>. QED BY <1>1, <1>3, <2>3, <2>8 DEF Takes
<1>11. BusyInv'
    BY <1>0, <1>10, TakesOnce DEF BusyInv
<1>. QED BY <1>5, <1>7, <1>9, <1>11 DEF SpeechInv

LEMMA EndsSpeech ==
    ASSUME EgressInv, NEW h \in Streams, SpeakerMoves(h), SpeakEnds(h)
    PROVE  SpeechInv'
<1> USE DEF actorVars, pendingVars, streamVars, historyVars, handlerVars, savedVars
<1>0. EgressTypes /\ DataTypes /\ SpeakInv /\ KeepInv /\ BusyInv
    BY DEF EgressInv
<1>1. /\ worker[h] = "speak" /\ worker'[h] = "run"
      /\ done \in [Streams -> Seq(Segments)]
      /\ speaking \in [Streams -> Seq(Segments)] /\ keep \subseteq Streams
    BY <1>0 DEF SpeakEnds, WorkerGoto, EgressInv, SharedInv, PlaceTypes, DataTypes, EgressTypes
<1>2. /\ speaking' = [speaking EXCEPT ![h] = <<>>]
      /\ done' = [done EXCEPT ![h] = done[h] \o speaking[h]]
      /\ UNCHANGED <<received, hand, pending, failures, dropped, overtook, queue, stopped, keep,
                     barge, interrupts, lifecycle, target, saved, wiped, slipped>>
    BY DEF SpeakEnds
<1>3. done[h] \o speaking[h] \in Seq(Segments)
    BY <1>1
<1>4. /\ speaking'[h] = <<>> /\ \A g \in Streams \ {h} : speaking'[g] = speaking[g]
      /\ speaking' \in [Streams -> Seq(Segments)]
      /\ done'[h] = done[h] \o speaking[h] /\ \A g \in Streams \ {h} : done'[g] = done[g]
      /\ done' \in [Streams -> Seq(Segments)]
    BY <1>1, <1>2, <1>3, NoSegments
<1>5. EgressTypes'
    BY <1>0, <1>2, <1>4 DEF EgressTypes
<1>6. DataTypes'
    BY <1>0, <1>2, <1>4 DEF DataTypes
<1>7. Speaks(worker'[h], speaking'[h]) /\ h \notin keep
    BY <1>0, <1>1, <1>4 DEF Speaks, KeepInv
<1>8. SpeakInv' /\ KeepInv'
    BY <1>0, <1>1, <1>2, <1>4, <1>7, SpeakerInvs
<1>9. Occupied' = Occupied
  <2>1. (done[h] \o speaking[h]) \o <<>> = done[h] \o speaking[h]
    BY <1>3
  <2>2. \A g \in Streams : done'[g] \o speaking'[g] = done[g] \o speaking[g]
    BY <1>4, <2>1
  <2>. QED BY <2>2 DEF Occupied
<1>10. BusyInv'
    BY <1>0, <1>2, <1>9 DEF BusyInv
<1>. QED BY <1>5, <1>6, <1>8, <1>10 DEF SpeechInv

LEMMA RebufferSpeech ==
    ASSUME EgressInv, NEW h \in Streams, SpeakerMoves(h), Rebuffer(h)
    PROVE  SpeechInv'
<1> USE DEF actorVars, pendingVars, streamVars, historyVars, handlerVars, savedVars
<1>0. EgressTypes /\ DataTypes /\ SpeakInv /\ KeepInv /\ BusyInv
    BY DEF EgressInv
<1>1. /\ worker[h] = "rebuffer" /\ worker'[h] = "drain"
      /\ speaking \in [Streams -> Seq(Segments)] /\ keep \subseteq Streams
    BY <1>0 DEF Rebuffer, WorkerGoto, EgressInv, SharedInv, PlaceTypes, EgressTypes
<1>2. PICK x \in Segments : speaking[h] = <<x>>
    BY <1>0, <1>1 DEF SpeakInv
<1>3. /\ speaking' = [speaking EXCEPT ![h] = <<>>] /\ cancelled' = cancelled \cup {h}
      /\ BufferItem(x, pc)
      /\ UNCHANGED <<received, hand, failures, done, overtook, queue, stopped, keep,
                     barge, interrupts, lifecycle, target, saved, wiped, slipped>>
  <2>1. Head(<<x>>) = x
    OBVIOUS
  <2>. QED BY <1>2, <2>1 DEF Rebuffer
<1>4. /\ speaking'[h] = <<>> /\ \A g \in Streams \ {h} : speaking'[g] = speaking[g]
      /\ speaking' \in [Streams -> Seq(Segments)]
    BY <1>1, <1>3, NoSegments
<1>5. /\ pending' \in Seq(Segments) /\ Len(pending') <= MaxPending
      /\ dropped' \subseteq Segments /\ dropped \subseteq dropped'
    BY <1>0, <1>3, ItemTypes
<1>6. EgressTypes'
    BY <1>0, <1>3, <1>4, <1>5 DEF EgressTypes
<1>7. DataTypes'
    BY <1>0, <1>3, <1>5 DEF DataTypes
<1>8. Speaks(worker'[h], speaking'[h]) /\ Keeps(h, worker'[h], cancelled', queue'[h], slipped)
    BY <1>1, <1>3, <1>4 DEF Speaks, Keeps
<1>9. SpeakInv' /\ KeepInv'
    BY <1>0, <1>1, <1>3, <1>4, <1>8, SpeakerInvs
<1>10. BusyInv'
    BY <1>0, <1>1, <1>2, <1>3, BusyWaits
<1>. QED BY <1>6, <1>7, <1>9, <1>10 DEF SpeechInv

LEMMA DrainSpeech ==
    ASSUME EgressInv, NEW h \in Streams, SpeakerMoves(h),
           \/ worker[h] = "drain" /\ Drain(h, "exit")
           \/ worker[h] = "closed" /\ Drain(h, "cancel")
    PROVE  SpeechInv'
<1> USE DEF actorVars, pendingVars, streamVars, historyVars, handlerVars, savedVars, egressVars, sVars
<1>0. /\ EgressTypes /\ DataTypes /\ SpeakInv /\ KeepInv /\ BusyInv
      /\ Once(pending, hand, queue, Occupied, dropped, received)
    BY DEF EgressInv, BusyInv
<1>1. /\ queue \in [Streams -> Seq(Segments)] /\ keep \subseteq Streams
      /\ worker \in [Streams -> WorkerPlaces]
      /\ queue[h] \in Seq(Segments) /\ Len(queue[h]) <= Capacity
    BY <1>0 DEF EgressInv, SharedInv, PlaceTypes, DataTypes, EgressTypes
<1>2. /\ UNCHANGED <<received, hand, cancelled, done, overtook, speaking, stopped, keep, barge,
                     interrupts, lifecycle, target, saved, wiped, slipped>>
      /\ worker'[h] \in {worker[h], "exit", "cancel"}
      /\ worker'[h] \in {"drain", "exit", "closed", "cancel"}
      /\ worker'[h] # "cancel" \/ queue[h] = <<>>
    BY <1>1 DEF Drain, WorkerGoto
<1>3. Occupied' = Occupied
    BY <1>2 DEF Occupied
<1>4. /\ queue' \in [Streams -> Seq(Segments)] /\ \A g \in Streams : Len(queue'[g]) <= Capacity
      /\ pending' \in Seq(Segments) /\ Len(pending') <= MaxPending
      /\ failures' \in Nat /\ failures' <= MaxFailures
      /\ dropped' \subseteq Segments /\ dropped \subseteq dropped'
      /\ BusyInv' /\ (worker'[h] = "cancel" => queue'[h] = <<>>)
  <2>1. CASE queue[h] = <<>>
    <3>1. UNCHANGED <<queue, pending, failures, dropped>>
      BY <2>1 DEF Drain
    <3>2. BusyInv'
      BY <1>0, <1>2, <1>3, <3>1 DEF BusyInv
    <3>. QED BY <1>0, <2>1, <3>1, <3>2 DEF DataTypes
  <2>2. CASE queue[h] # <<>>
    <3>1. /\ BufferItem(Head(queue[h]), pc) /\ queue' = [queue EXCEPT ![h] = Tail(queue[h])]
          /\ failures' = failures
      BY <2>2 DEF Drain
    <3>2. Head(queue[h]) \in Segments /\ Tail(queue[h]) \in Seq(Segments)
          /\ Len(Tail(queue[h])) = Len(queue[h]) - 1 /\ Len(queue[h]) \in Nat
      BY <1>1, <2>2, TakeHead
    <3>3. Len(Tail(queue[h])) <= Capacity
      BY <1>1, <3>2, SizeAssumption
    <3>4. queue'[h] = Tail(queue[h]) /\ \A g \in Streams \ {h} : queue'[g] = queue[g]
          /\ queue' \in [Streams -> Seq(Segments)]
      BY <1>1, <3>1, <3>2
    <3>5. \A g \in Streams : Len(queue'[g]) <= Capacity
      BY <1>0, <3>3, <3>4 DEF DataTypes
    <3>6. /\ pending' \in Seq(Segments) /\ Len(pending') <= MaxPending
          /\ dropped' \subseteq Segments /\ dropped \subseteq dropped'
      BY <1>0, <3>1, <3>2, ItemTypes
    <3>7. Once(pending', hand', queue', Occupied, dropped', received')
      BY <1>0, <1>2, <2>2, <3>1, <3>4, QueueWaits
    <3>8. BusyInv'
      BY <1>3, <3>7 DEF BusyInv
    <3>. QED BY <1>0, <1>2, <2>2, <3>1, <3>4, <3>5, <3>6, <3>8 DEF DataTypes
  <2>. QED BY <2>1, <2>2
<1>5. EgressTypes' /\ DataTypes'
    BY <1>0, <1>2, <1>4 DEF EgressTypes, DataTypes
<1>6. Speaks(worker'[h], speaking'[h])
    BY <1>0, <1>2 DEF SpeakInv, Speaks
<1>7. h \in keep => Keeps(h, worker'[h], cancelled', queue'[h], slipped)
  <2>1. ToSet(<<>>) = {}
    BY DEF ToSet
  <2>. QED BY <1>0, <1>2, <1>4, <2>1 DEF KeepInv, Keeps
<1>8. SpeakInv' /\ KeepInv'
    BY <1>0, <1>1, <1>2, <1>6, <1>7, SpeakerInvs
<1>. QED BY <1>4, <1>5, <1>8 DEF SpeechInv

\* The other steps of a worker leave its requests where they are, but for the
\* pending queue.
LEMMA OtherSpeech ==
    ASSUME EgressInv, NEW h \in Streams, SpeakerMoves(h),
           \/ SpeakUnavailable(h) \/ SpeakStops(h) \/ StreamClosed(h) \/ ClosedClears(h)
           \/ SpeakCancels(h)
    PROVE  SpeechInv'
<1> USE DEF actorVars, pendingVars, streamVars, historyVars, handlerVars, savedVars, egressVars, sVars
<1>0. /\ EgressTypes /\ DataTypes /\ SpeakInv /\ KeepInv /\ BusyInv
      /\ worker \in [Streams -> WorkerPlaces] /\ keep \subseteq Streams
    BY DEF EgressInv, SharedInv, PlaceTypes, EgressTypes
<1>1. /\ UNCHANGED <<received, hand, queue, done, overtook, speaking, barge,
                     interrupts, lifecycle, target, saved, slipped>>
      /\ \/ UNCHANGED <<pending, failures, dropped, wiped>>
         \/ DeletePending(pc) /\ wiped' = wiped \cup (saved \cap ToSet(pending))
      /\ \/ stopped' = stopped \cup {h} /\ keep' = keep \cup {h} /\ worker'[h] = "rebuffer"
         \/ stopped' = stopped /\ keep' = keep /\ worker'[h] \in {"exit", "closed", "cancel", "done"}
      /\ (worker[h] \in {"speak", "rebuffer"} <=> worker'[h] \in {"speak", "rebuffer"})
      /\ h \in keep' => \/ worker'[h] = "rebuffer" \/ worker[h] = "run"
                        \/ worker[h] = "exit" /\ worker'[h] = "closed"
                        \/ worker[h] = "cancel" /\ worker'[h] = "done"
      /\ cancelled \subseteq cancelled'
  <2>1. CASE SpeakUnavailable(h)
    BY <1>0, <2>1 DEF SpeakUnavailable, WorkerGoto
  <2>2. CASE SpeakStops(h)
    BY <1>0, <2>2 DEF SpeakStops, WorkerStops
  <2>3. CASE StreamClosed(h)
    BY <1>0, <2>3 DEF StreamClosed, WorkerGoto
  <2>4. CASE ClosedClears(h)
    BY <1>0, <2>4 DEF ClosedClears, WorkerGoto
  <2>5. CASE SpeakCancels(h)
    BY <1>0, <2>5 DEF SpeakCancels, WorkerCancels
  <2>. QED BY <2>1, <2>2, <2>3, <2>4, <2>5
<1>2. Occupied' = Occupied
    BY <1>1 DEF Occupied
<1>3. /\ pending' \in Seq(Segments) /\ Len(pending') <= MaxPending
      /\ failures' \in Nat /\ failures' <= MaxFailures
      /\ dropped' \subseteq Segments /\ dropped \subseteq dropped' /\ wiped' \subseteq dropped'
      /\ BusyInv'
  <2>1. CASE UNCHANGED <<pending, failures, dropped, wiped>>
    BY <1>0, <1>1, <1>2, <2>1 DEF DataTypes, EgressTypes, BusyInv
  <2>2. CASE DeletePending(pc) /\ wiped' = wiped \cup (saved \cap ToSet(pending))
    <3>1. /\ pending' \in Seq(Segments) /\ Len(pending') <= MaxPending
          /\ failures' \in Nat /\ failures' <= MaxFailures
          /\ dropped' \subseteq Segments /\ dropped \subseteq dropped'
          /\ ToSet(pending) \subseteq dropped'
      BY <1>0, <2>2, DeleteTypes
    <3>2. wiped' \subseteq dropped'
      BY <1>0, <2>2, <3>1 DEF EgressTypes
    <3>3. Once(pending', hand', queue', Occupied, dropped', received')
      BY <1>0, <1>1, <2>2, DeleteOnce DEF BusyInv
    <3>. QED BY <1>2, <3>1, <3>2, <3>3 DEF BusyInv
  <2>. QED BY <1>1, <2>1, <2>2
<1>4. EgressTypes' /\ DataTypes'
  <2>1. stopped' \subseteq Streams /\ keep' \subseteq stopped'
    BY <1>0, <1>1 DEF EgressTypes
  <2>. QED BY <1>0, <1>1, <1>3, <2>1 DEF EgressTypes, DataTypes
<1>5. Speaks(worker'[h], speaking'[h])
    BY <1>0, <1>1 DEF SpeakInv, Speaks
<1>6. h \in keep' => Keeps(h, worker'[h], cancelled', queue'[h], slipped)
  <2> SUFFICES ASSUME h \in keep' PROVE Keeps(h, worker'[h], cancelled', queue'[h], slipped)
    OBVIOUS
  <2>1. CASE worker'[h] = "rebuffer"
    BY <2>1 DEF Keeps
  <2>2. CASE worker'[h] # "rebuffer"
    <3>1. h \in keep
      BY <1>1, <2>2
    <3>. QED BY <1>0, <1>1, <2>2, <3>1 DEF KeepInv, Keeps
  <2>. QED BY <2>1, <2>2
<1>7. SpeakInv' /\ KeepInv'
  <2>1. keep' \subseteq keep \cup {h}
    BY <1>1
  <2>. QED BY <1>0, <1>1, <1>5, <1>6, <2>1, SpeakerInvs
<1>. QED BY <1>3, <1>4, <1>7 DEF SpeechInv

\* The steps of workers keep the invariant.
LEMMA SpeakerStep ==
    ASSUME EgressInv, NEW h \in Streams, Speaker(h)
    PROVE  EgressInv'
<1>1. SpeakerMoves(h)
    BY SpeakerStepMoves DEF EgressInv
<1>2. SharedInv' /\ TableInv' /\ HandInv' /\ ReadyInv'
    BY <1>1, SpeakerShared
<1>3. SpeechInv'
    BY <1>1, StartsSpeech, EndsSpeech, RebufferSpeech, DrainSpeech, OtherSpeech
       DEF Speaker, RebufferDrain, ClosedDrains
<1>. QED BY <1>2, <1>3 DEF EgressInv, SpeechInv

-----------------------------------------------------------------------------
(* Text to speech: what a request moves, and its registration.             *)

\* What handling a request leaves of workers and handlers.
RequestMoves ==
    /\ UNCHANGED <<speaking, done, keep, barge, interrupts, lifecycle, target, wiped>>
    /\ stopped \subseteq stopped' /\ stopped' \subseteq Streams
    /\ saved' \subseteq Segments /\ slipped \subseteq slipped' /\ slipped' \subseteq Segments
    /\ dropped \subseteq dropped' /\ cancelled \subseteq cancelled'
    /\ \A h \in Streams : worker'[h] = worker[h] \/ (worker[h] = "none" /\ worker'[h] = "run")
    /\ \A h \in Streams : worker[h] \in {"cancel", "done"} /\ h \in cancelled =>
           ToSet(queue'[h]) \subseteq ToSet(queue[h]) \cup slipped'

\* Handling a request keeps what is said of workers.
LEMMA RequestSpeech ==
    ASSUME EgressInv, RequestMoves, DataTypes',
           Once(pending', hand', queue', Occupied, dropped', received')
    PROVE  SpeechInv'
<1>0. EgressTypes /\ SpeakInv /\ KeepInv /\ keep \subseteq Streams
    BY DEF EgressInv, EgressTypes
<1>1. /\ UNCHANGED <<speaking, done, keep, barge, interrupts, lifecycle, target, wiped>>
      /\ stopped \subseteq stopped' /\ stopped' \subseteq Streams
      /\ saved' \subseteq Segments /\ slipped' \subseteq Segments
      /\ dropped \subseteq dropped'
    BY DEF RequestMoves
<1>2. EgressTypes'
    BY <1>0, <1>1 DEF EgressTypes
<1>3. ASSUME NEW h \in Streams PROVE Speaks(worker'[h], speaking'[h])
  <2>1. Speaks(worker[h], speaking[h]) /\ speaking' = speaking
    BY <1>0, <1>1 DEF SpeakInv, Speaks
  <2>2. worker'[h] = worker[h] \/ (worker[h] = "none" /\ worker'[h] = "run")
    BY DEF RequestMoves
  <2>. QED BY <2>1, <2>2 DEF Speaks
<1>4. SpeakInv'
    BY <1>3 DEF SpeakInv, Speaks
<1>5. ASSUME NEW h \in keep PROVE Keeps(h, worker'[h], cancelled', queue'[h], slipped')
  <2>1. Keeps(h, worker[h], cancelled, queue[h], slipped) /\ h \in Streams
    BY <1>0 DEF KeepInv, Keeps
  <2>2. worker'[h] = worker[h] /\ cancelled \subseteq cancelled' /\ slipped \subseteq slipped'
    BY <2>1 DEF RequestMoves, Keeps
  <2>3. worker[h] \in {"cancel", "done"} => ToSet(queue'[h]) \subseteq slipped'
    BY <2>1, <2>2 DEF RequestMoves, Keeps
  <2>. QED BY <2>1, <2>2, <2>3 DEF Keeps
<1>6. KeepInv'
    BY <1>1, <1>5 DEF KeepInv, Keeps
<1>7. BusyInv'
  <2>1. Occupied' = Occupied
    BY <1>1 DEF Occupied
  <2>. QED BY <2>1 DEF BusyInv
<1>. QED BY <1>2, <1>4, <1>6, <1>7 DEF SpeechInv

\* An actor that neither creates nor registers a stream leaves the table alone.
LEMMA MoveStep ==
    ASSUME EgressInv, NEW a \in Actors, HandMoves(a), PlaceTypes', OffInv',
           DataTypes', HandInv', ReadyInv', RequestMoves,
           Once(pending', hand', queue', Occupied, dropped', received')
    PROVE  EgressInv'
<1>0. SharedInv /\ TargetInv /\ NoOrphanSynth /\ SynthAlive
    BY DEF EgressInv, TableInv
<1>1. /\ FlowInv' /\ FreshInv'
      /\ \A b \in Actors : pc[b] = "register" => pc'[b] = "register" /\ to'[b] = to[b]
      /\ \A b \in Actors : pc'[b] = "register" => pc[b] = "register" /\ to'[b] = to[b]
    BY <1>0, HandMovesStep
<1>2. SharedInv'
    BY <1>1 DEF SharedInv
<1>3. UNCHANGED <<stream, streams, worker, cancelled, closing, target, barge, lifecycle>>
    BY DEF HandMoves, RequestMoves, streamVars
<1>4. TargetInv'
    BY <1>0, <1>1, <1>3 DEF TargetInv
<1>5. NoOrphanSynth' /\ SynthAlive'
    BY <1>0, <1>1, <1>3 DEF NoOrphanSynth, SynthAlive, Cancelled
<1>6. SpeechInv'
    BY RequestSpeech
<1>. QED BY <1>2, <1>4, <1>5, <1>6 DEF EgressInv, TableInv, SpeechInv

\* Opening a stream for a request.
LEMMA OpensStep ==
    ASSUME EgressInv, NEW a \in Actors, FactoryOpens(a), UNCHANGED egressVars
    PROVE  EgressInv'
<1> USE DEF pendingVars, historyVars, endVars, egressVars, sVars, handlerVars, savedVars
<1>0. /\ SharedInv /\ TargetInv /\ NoOrphanSynth /\ SynthAlive /\ PlaceTypes /\ OffInv
      /\ DataTypes /\ HandInv /\ ReadyInv /\ EgressTypes
      /\ stream \in Streams \cup {0}
    BY DEF EgressInv, TableInv, SharedInv, PlaceTypes
<1>1. Create(a)
    BY DEF Create
<1>2. PlaceTypes' /\ Only(a) /\ OffInv'
    BY <1>0, <1>1, CreatePlaceTypes, ActorMoves
<1>3. DataTypes' /\ HandInv' /\ ReadyInv'
    BY <1>0, <1>1, CreateDataTypes, CreateReady
<1> DEFINE new == streams + 1
<1>4. /\ FlowInv' /\ FreshInv' /\ to'[a] = new /\ new \in Streams /\ worker'[new] = "run"
      /\ \A h \in Streams \ {new} : worker'[h] = worker[h]
      /\ pc'[a] = "register" /\ stream # new
      /\ \A b \in Actors : to[b] # new
      /\ \A b \in Actors \ {a} : to'[b] = to[b] /\ (pc'[b] = "register" <=> pc[b] = "register")
    BY <1>0, <1>2, FactoryOpensStep
<1>5. UNCHANGED <<stream, cancelled, closing, target, barge, lifecycle, queue>> /\ streams' = new
    BY DEF FactoryOpens
<1>6. worker[new] = "none" /\ new > streams
    BY <1>0, <1>4 DEF SharedInv, FlowInv, PlaceTypes
<1>7. \A x \in {"barge", "lifecycle"} : target[x] <= streams /\ target[x] <= new /\ target[x] # new
  <2>1. \A x \in {"barge", "lifecycle"} : target[x] <= streams /\ target[x] \in Nat /\ streams \in Nat
    BY <1>0 DEF TargetInv, EgressTypes, Streams, SharedInv, PlaceTypes
  <2>. QED BY <2>1
<1>8. TargetInv'
    BY <1>0, <1>4, <1>5, <1>7 DEF TargetInv
<1>9. NoOrphanSynth'
  <2> SUFFICES ASSUME NEW h \in Streams, worker'[h] \in Synth, ~Cancelled(h)
               PROVE  \/ stream = h
                      \/ \E b \in Actors : pc'[b] = "register" /\ to'[b] = h
                      \/ lifecycle = "stop" /\ target["lifecycle"] = h
    BY <1>5 DEF NoOrphanSynth, Cancelled, Synth
  <2>1. CASE h = new
    BY <1>4, <2>1
  <2>2. CASE h # new
    <3>1. \/ stream = h
          \/ \E b \in Actors : pc[b] = "register" /\ to[b] = h
          \/ lifecycle = "stop" /\ target["lifecycle"] = h
      BY <1>0, <1>4, <2>2 DEF NoOrphanSynth, Synth
    <3>2. \A b \in Actors : pc[b] = "register" => b # a
      BY DEF FactoryOpens
    <3>. QED BY <1>4, <3>1, <3>2
  <2>. QED BY <2>1, <2>2
<1>10. SynthAlive'
    BY <1>0, <1>4, <1>5 DEF SynthAlive
<1>11. RequestMoves
  <2>1. UNCHANGED <<speaking, done, keep, barge, interrupts, lifecycle, target, wiped,
                    stopped, saved, slipped, dropped, cancelled, queue>>
    BY DEF FactoryOpens
  <2>2. stopped \subseteq Streams /\ saved \subseteq Segments /\ slipped \subseteq Segments
    BY <1>0 DEF EgressTypes
  <2>3. \A h \in Streams : worker'[h] = worker[h] \/ (worker[h] = "none" /\ worker'[h] = "run")
    BY <1>4, <1>6
  <2>. QED BY <2>1, <2>2, <2>3 DEF RequestMoves
<1>12. Once(pending', hand', queue', Occupied, dropped', received')
  <2>1. UNCHANGED <<pending, hand, queue, dropped, received>>
    BY DEF FactoryOpens
  <2>. QED BY <2>1 DEF EgressInv, BusyInv
<1>13. SpeechInv'
    BY <1>3, <1>11, <1>12, RequestSpeech
<1>. QED BY <1>2, <1>3, <1>4, <1>8, <1>9, <1>10, <1>13 DEF EgressInv, TableInv, SpeechInv, SharedInv

\* Registering a stream, or finding that another came first.
LEMMA RegistersStep ==
    ASSUME EgressInv, NEW a \in Actors, RequestRegister(a)
    PROVE  EgressInv'
<1> USE DEF pendingVars, historyVars, endVars, handlerVars, savedVars
<1>0. /\ SharedInv /\ TargetInv /\ NoOrphanSynth /\ SynthAlive /\ PlaceTypes /\ OffInv
      /\ DataTypes /\ HandInv /\ ReadyInv /\ EgressTypes
    BY DEF EgressInv, TableInv, SharedInv
<1>1. Register(a) /\ Create(a)
    BY DEF RequestRegister, Create
<1>2. PlaceTypes' /\ Only(a) /\ OffInv'
    BY <1>0, <1>1, CreatePlaceTypes, ActorMoves
<1>3. DataTypes' /\ HandInv' /\ ReadyInv'
    BY <1>0, <1>1, CreateDataTypes, CreateReady
<1>4. /\ FlowInv' /\ FreshInv'
      /\ to[a] \in Streams /\ stream # to[a] /\ (~closing => worker[to[a]] = "run")
      /\ pc'[a] # "register"
      /\ \/ stream # 0 /\ cancelled' = cancelled \cup {to[a]} /\ stream' = stream
         \/ stream = 0 /\ stream' = to[a] /\ cancelled' = cancelled
      /\ \A b \in Actors \ {a} : to'[b] = to[b] /\ (pc'[b] = "register" <=> pc[b] = "register")
    BY <1>0, <1>1, <1>2, RegisterStep
<1>5. UNCHANGED <<streams, worker, closing, target, barge, lifecycle, queue>>
    BY <1>1 DEF Register, RequestRegister
<1>6. TargetInv'
    BY <1>0, <1>4, <1>5 DEF TargetInv
<1>7. NoOrphanSynth'
  <2> SUFFICES ASSUME NEW h \in Streams, worker[h] \in Synth, ~closing, h \notin cancelled'
               PROVE  \/ stream' = h
                      \/ \E b \in Actors : pc'[b] = "register" /\ to'[b] = h
                      \/ lifecycle = "stop" /\ target["lifecycle"] = h
    BY <1>5 DEF NoOrphanSynth, Cancelled, Synth
  <2>0. h # 0 /\ h \notin cancelled
    BY <1>4 DEF Streams
  <2>1. \/ stream = h
        \/ \E b \in Actors : pc[b] = "register" /\ to[b] = h
        \/ lifecycle = "stop" /\ target["lifecycle"] = h
    BY <1>0, <2>0 DEF NoOrphanSynth, Cancelled, Synth
  <2>2. CASE stream = h
    BY <1>4, <2>0, <2>2
  <2>3. CASE \E b \in Actors : pc[b] = "register" /\ to[b] = h
    <3>1. PICK b \in Actors : pc[b] = "register" /\ to[b] = h
      BY <2>3
    <3>. QED BY <1>4, <3>1
  <2>. QED BY <2>1, <2>2, <2>3
<1>8. SynthAlive'
    BY <1>0, <1>4, <1>5 DEF SynthAlive
<1>9. RequestMoves
  <2>1. UNCHANGED <<speaking, done, keep, barge, interrupts, lifecycle, target, wiped,
                    saved, slipped, dropped, queue, worker>>
    BY <1>1 DEF RequestRegister, Register
  <2>2. stopped \subseteq Streams /\ saved \subseteq Segments /\ slipped \subseteq Segments
    BY <1>0 DEF EgressTypes
  <2>3. stopped' \subseteq Streams /\ stopped \subseteq stopped'
    BY <1>4, <2>2 DEF RequestRegister
  <2>4. cancelled \subseteq cancelled'
    BY <1>4
  <2>. QED BY <2>1, <2>2, <2>3, <2>4 DEF RequestMoves
<1>10. Once(pending', hand', queue', Occupied, dropped', received')
  <2>1. UNCHANGED <<pending, hand, queue, dropped, received>>
    BY <1>1 DEF Register
  <2>. QED BY <2>1 DEF EgressInv, BusyInv
<1>11. SpeechInv'
    BY <1>3, <1>9, <1>10, RequestSpeech
<1>. QED BY <1>2, <1>3, <1>4, <1>6, <1>7, <1>8, <1>11 DEF EgressInv, TableInv, SpeechInv, SharedInv

-----------------------------------------------------------------------------
(* Text to speech: the steps of a request.                                 *)

\* The steps of an actor that are the stream manager's, too.
LEMMA CreatesStep ==
    ASSUME EgressInv, NEW a \in Actors, RequestCreate(a)
    PROVE  EgressInv'
<1> USE DEF pendingVars, streamVars, workerVars, historyVars, egressVars, sVars, handlerVars, savedVars
<1>0. /\ SharedInv /\ PlaceTypes /\ OffInv /\ DataTypes /\ HandInv /\ ReadyInv
      /\ stopped \subseteq Streams /\ saved \subseteq Segments /\ slipped \subseteq Segments
      /\ Once(pending, hand, queue, Occupied, dropped, received)
    BY DEF EgressInv, SharedInv, EgressTypes, BusyInv
<1>1. CASE RequestRegister(a)
    BY <1>1, RegistersStep
<1>2. CASE FactoryOpens(a) /\ UNCHANGED egressVars
    BY <1>2, OpensStep
<1>3. CASE \/ (CreateFast(a) \/ FactoryUnavailable(a) \/ FactoryFails(a)) /\ UNCHANGED egressVars
           \/ /\ FlushPending(a) /\ saved' = saved \ ToSet(pending)
              /\ UNCHANGED <<sVars, found, handlerVars, wiped, slipped>>
  <2>1. Create(a) /\ (CreateFast(a) \/ FactoryUnavailable(a) \/ FactoryFails(a) \/ FlushPending(a))
    BY <1>3 DEF Create
  <2>2. PlaceTypes' /\ OffInv' /\ HandMoves(a)
    BY <1>0, <2>1, CreatePlaceTypes, ActorMoves, HandActions
  <2>3. DataTypes' /\ HandInv' /\ ReadyInv'
    BY <1>0, <2>1, CreateDataTypes, CreateReady
  <2>4. /\ UNCHANGED <<speaking, done, keep, barge, interrupts, lifecycle, target, wiped, worker,
                       queue, stopped, slipped, cancelled>>
        /\ saved' \subseteq saved
    BY <1>3 DEF CreateFast, FactoryUnavailable, FactoryFails, FlushPending
  <2>5. dropped \subseteq dropped'
    BY <1>3 DEF CreateFast, FactoryUnavailable, FactoryFails, FlushPending
  <2>6. RequestMoves
    BY <1>0, <2>4, <2>5 DEF RequestMoves
  <2>7. Once(pending', hand', queue', Occupied, dropped', received')
    <3>1. CASE CreateFast(a) \/ FactoryUnavailable(a)
      <4>1. UNCHANGED <<pending, hand, queue, dropped, received>>
        BY <3>1 DEF CreateFast, FactoryUnavailable
      <4>. QED BY <1>0, <4>1
    <3>2. CASE FactoryFails(a)
      BY <1>0, <3>2, FailsOnce
    <3>3. CASE FlushPending(a)
      BY <1>0, <3>3, FlushOnce
    <3>. QED BY <2>1, <3>1, <3>2, <3>3
  <2>. QED BY <2>2, <2>3, <2>6, <2>7, MoveStep
<1>. QED BY <1>1, <1>2, <1>3 DEF RequestCreate

\* Sending to a stream's channel.
LEMMA SendsStep ==
    ASSUME EgressInv, NEW a \in Actors, RequestSend(a)
    PROVE  EgressInv'
<1> USE DEF pendingVars, streamVars, historyVars, sVars, handlerVars
<1>0. /\ SharedInv /\ PlaceTypes /\ OffInv /\ DataTypes /\ HandInv /\ ReadyInv
      /\ stopped \subseteq Streams /\ saved \subseteq Segments /\ slipped \subseteq Segments
      /\ Once(pending, hand, queue, Occupied, dropped, received)
    BY DEF EgressInv, SharedInv, EgressTypes, BusyInv
<1>1. EnqueueSend(a) /\ Enqueue(a)
    BY DEF RequestSend, Enqueue
<1>2. PlaceTypes' /\ OffInv' /\ HandMoves(a)
    BY <1>0, <1>1, EnqueuePlaceTypes, ActorMoves, HandActions
<1>3. DataTypes' /\ HandInv' /\ ReadyInv'
    BY <1>0, <1>1, EnqueueDataTypes, EnqueueReady
<1> DEFINE x == Head(hand[a])
<1>4. /\ pc[a] = "send" /\ to[a] \in Streams /\ hand[a] # <<>>
      /\ hand[a] \in Seq(Segments) /\ queue \in [Streams -> Seq(Segments)]
  <2>1. pc[a] = "send"
    BY <1>1 DEF EnqueueSend
  <2>. QED BY <1>0, <2>1 DEF SharedInv, PlaceTypes, FlowInv, Holding, HandInv, DataTypes
<1>5. x \in Segments
    BY <1>4, TakeHead
<1>6. Once(pending', hand', queue', Occupied, dropped', received')
    BY <1>0, <1>1, <1>4, SendOnce
<1>7. /\ UNCHANGED <<speaking, done, keep, barge, interrupts, lifecycle, target, wiped, worker,
                     stopped, saved, cancelled, dropped>>
      /\ slipped' = IF Cancelled(to[a]) THEN slipped \cup {x} ELSE slipped
      /\ queue' = [queue EXCEPT ![to[a]] = Append(queue[to[a]], x)]
    BY <1>1 DEF RequestSend, EnqueueSend
<1>8. \A h \in Streams : worker[h] \in {"cancel", "done"} /\ h \in cancelled =>
         ToSet(queue'[h]) \subseteq ToSet(queue[h]) \cup slipped'
  <2> SUFFICES ASSUME NEW h \in Streams, h \in cancelled
               PROVE  ToSet(queue'[h]) \subseteq ToSet(queue[h]) \cup slipped'
    OBVIOUS
  <2>1. CASE h = to[a]
    <3>1. slipped' = slipped \cup {x}
      BY <1>7, <2>1 DEF Cancelled
    <3>2. ToSet(Append(queue[h], x)) = ToSet(queue[h]) \cup {x}
      BY <1>4, <1>5, AppendMembers
    <3>3. queue'[h] = Append(queue[h], x)
      BY <1>4, <1>7, <2>1
    <3>. QED BY <3>1, <3>2, <3>3
  <2>2. CASE h # to[a]
    BY <1>4, <1>7, <2>2
  <2>. QED BY <2>1, <2>2
<1>9. slipped \subseteq slipped' /\ slipped' \subseteq Segments
    BY <1>0, <1>5, <1>7
<1>10. RequestMoves
    BY <1>0, <1>7, <1>8, <1>9 DEF RequestMoves
<1>. QED BY <1>2, <1>3, <1>6, <1>10, MoveStep

\* A request that ends where it is.
LEMMA EndsStep ==
    ASSUME EgressInv, NEW a \in Actors, RequestEnd(a)
    PROVE  EgressInv'
<1> USE DEF pendingVars, streamVars, workerVars, historyVars, sVars, handlerVars, savedVars
<1>0. /\ SharedInv /\ PlaceTypes /\ OffInv /\ DataTypes /\ HandInv /\ ReadyInv
      /\ stopped \subseteq Streams /\ saved \subseteq Segments /\ slipped \subseteq Segments
      /\ Once(pending, hand, queue, Occupied, dropped, received)
    BY DEF EgressInv, SharedInv, EgressTypes, BusyInv
<1>1. EnqueueEnd(a) /\ Enqueue(a)
    BY DEF RequestEnd, Enqueue
<1>2. PlaceTypes' /\ OffInv' /\ HandMoves(a)
    BY <1>0, <1>1, EnqueuePlaceTypes, ActorMoves, HandActions
<1>3. DataTypes' /\ HandInv' /\ ReadyInv'
    BY <1>0, <1>1, EnqueueDataTypes, EnqueueReady
<1>4. UNCHANGED <<speaking, done, keep, barge, interrupts, lifecycle, target, wiped, worker,
                  stopped, saved, slipped, cancelled, dropped, pending, hand, queue, received>>
    BY <1>1 DEF RequestEnd, EnqueueEnd
<1>5. RequestMoves
    BY <1>0, <1>4 DEF RequestMoves
<1>6. Once(pending', hand', queue', Occupied, dropped', received')
    BY <1>0, <1>4
<1>. QED BY <1>2, <1>3, <1>5, <1>6, MoveStep

\* The consumer takes its next request.
LEMMA ConsumesStep ==
    ASSUME EgressInv, RequestRecv \/ RequestFirst
    PROVE  EgressInv'
<1> USE DEF pendingVars, streamVars, workerVars, historyVars, egressVars, sVars, handlerVars, savedVars
<1>0. /\ SharedInv /\ PlaceTypes /\ OffInv /\ DataTypes /\ HandInv /\ ReadyInv
      /\ stopped \subseteq Streams /\ saved \subseteq Segments /\ slipped \subseteq Segments
      /\ Once(pending, hand, queue, Occupied, dropped, received)
    BY DEF EgressInv, SharedInv, EgressTypes, BusyInv
<1>1. Consume /\ Consumer \in Actors
    BY DEF RequestRecv, RequestFirst, Consume, Actors
<1>2. PlaceTypes' /\ OffInv' /\ HandMoves(Consumer)
    BY <1>0, <1>1, ConsumePlaceTypes, ConsumeStep
<1>3. DataTypes' /\ HandInv' /\ ReadyInv'
    BY <1>0, <1>1, ConsumeDataTypes, ConsumeReady
<1>4. UNCHANGED <<speaking, done, keep, barge, interrupts, lifecycle, target, wiped, worker,
                  stopped, saved, slipped, cancelled, queue>>
    BY DEF RequestRecv, RequestFirst, ConsumerRecv, BufferPending, ConsumerEnd
<1>5. dropped \subseteq dropped' /\ Once(pending', hand', queue', Occupied, dropped', received')
  <2>1. CASE ConsumerRecv
    <3>1. dropped' = dropped
      BY <2>1 DEF ConsumerRecv
    <3>. QED BY <1>0, <2>1, <3>1, RecvOnce
  <2>2. CASE BufferPending
    <3>1. dropped \subseteq dropped'
      BY <2>2 DEF BufferPending, BufferItem
    <3>. QED BY <1>0, <2>2, <3>1, BufferOnce
  <2>3. CASE ConsumerEnd
    <3>1. UNCHANGED <<pending, hand, queue, dropped, received>>
      BY <2>3 DEF ConsumerEnd
    <3>. QED BY <1>0, <3>1
  <2>. QED BY <2>1, <2>2, <2>3 DEF RequestRecv, RequestFirst
<1>6. RequestMoves
    BY <1>0, <1>4, <1>5 DEF RequestMoves
<1>. QED BY <1>1, <1>2, <1>3, <1>5, <1>6, MoveStep

\* A retry begins.
LEMMA RetriesStep ==
    ASSUME EgressInv, NEW t \in Timers, RequestRetry(t)
    PROVE  EgressInv'
<1> USE DEF pendingVars, streamVars, workerVars, historyVars, egressVars, sVars, handlerVars, savedVars
<1>0. /\ SharedInv /\ PlaceTypes /\ OffInv /\ DataTypes /\ HandInv /\ ReadyInv
      /\ stopped \subseteq Streams /\ saved \subseteq Segments /\ slipped \subseteq Segments
      /\ Once(pending, hand, queue, Occupied, dropped, received)
    BY DEF EgressInv, SharedInv, EgressTypes, BusyInv
<1>1. Retry(t) /\ t \in Actors
    BY DEF RequestRetry, Actors
<1>2. PlaceTypes' /\ OffInv' /\ HandMoves(t)
    BY <1>0, <1>1, RetryPlaceTypes, RetryStep
<1>3. DataTypes' /\ HandInv' /\ ReadyInv' /\ UNCHANGED <<hand, received, queue, done>>
    BY <1>0, <1>1, RetryDataTypes, RetryReady
<1>4. UNCHANGED <<speaking, keep, barge, interrupts, lifecycle, target, wiped, worker,
                  stopped, saved, slipped, cancelled>>
    BY <1>1 DEF RequestRetry, Retry, RetryFires, RetryAgain, RetryAbandons, RetryGoesOn
<1>5. dropped \subseteq dropped' /\ Once(pending', hand', queue', Occupied, dropped', received')
  <2>1. CASE RetryAbandons(t)
    <3>1. dropped \subseteq dropped' /\ DeletePending([pc EXCEPT ![t] = "end"])
      BY <2>1 DEF RetryAbandons, DeletePending
    <3>. QED BY <1>0, <1>3, <3>1, DeleteOnce
  <2>2. CASE RetryFires(t) \/ RetryAgain(t) \/ RetryGoesOn(t)
    <3>1. UNCHANGED <<pending, dropped>>
      BY <2>2 DEF RetryFires, RetryAgain, RetryGoesOn
    <3>. QED BY <1>0, <1>3, <3>1
  <2>. QED BY <1>1, <2>1, <2>2 DEF Retry
<1>6. RequestMoves
    BY <1>0, <1>3, <1>4, <1>5 DEF RequestMoves
<1>. QED BY <1>1, <1>2, <1>3, <1>5, <1>6, MoveStep

\* The steps that are text to speech's own: an actor with a request in hand
\* checks the stream, puts the request back or gives it up.
LEMMA ChecksStep ==
    ASSUME EgressInv, NEW a \in Actors,
           RequestChecks(a) \/ RequestBuffers(a) \/ RequestDrops(a)
    PROVE  EgressInv'
<1> USE DEF pendingVars, streamVars, workerVars, historyVars, egressVars, sVars, handlerVars,
            savedVars, endVars
<1> DEFINE x == Head(hand[a])
           put == BufferItem(x, [pc EXCEPT ![a] = "enqueue"])
<1>0. /\ SharedInv /\ PlaceTypes /\ OffInv /\ DataTypes /\ HandInv /\ ReadyInv /\ FlowInv
      /\ stopped \subseteq Streams /\ saved \subseteq Segments /\ slipped \subseteq Segments
      /\ Once(pending, hand, queue, Occupied, dropped, received)
    BY DEF EgressInv, SharedInv, EgressTypes, BusyInv
<1>1. /\ hand[a] # <<>> /\ hand[a] \in Seq(Segments) /\ hand \in [Actors -> Seq(Segments)]
      /\ pc[a] \in {"enqueue", "ctx", "send"}
      /\ to[a] # 0
    BY <1>0 DEF RequestChecks, RequestBuffers, RequestDrops, FailsStopped, FailsCancelled,
                DataTypes, FlowInv, Holding
<1>2. x \in Segments /\ Tail(hand[a]) \in Seq(Segments)
    BY <1>1, TakeHead
<1>3. /\ UNCHANGED <<speaking, done, keep, barge, interrupts, lifecycle, target, wiped, worker,
                     stopped, slipped, cancelled, queue, to, streams, stream, closing, shutdown,
                     received, overtook, failures>>
      /\ \/ /\ UNCHANGED <<hand, pending, timer, timers, dropped, saved>>
            /\ Goto(a, "ctx") \/ Goto(a, "send")
         \/ /\ put /\ hand' = [hand EXCEPT ![a] = Tail(hand[a])]
            /\ saved' = saved \cup {x}
         \/ /\ UNCHANGED <<pending, timer, timers, saved>> /\ GivesUp(a) /\ Goto(a, "enqueue")
            /\ hand' = [hand EXCEPT ![a] = Tail(hand[a])]
  <2>1. CASE RequestChecks(a)
    BY <2>1 DEF RequestChecks
  <2>2. CASE RequestBuffers(a)
    BY <2>2 DEF RequestBuffers, BufferItem
  <2>3. CASE RequestDrops(a)
    BY <2>3 DEF RequestDrops, GivesUp
  <2>. QED BY <2>1, <2>2, <2>3
<1> HIDE DEF put, x
<1>4. /\ Only(a) /\ OffInv' /\ pc'[a] \in {"enqueue", "ctx", "send"}
      /\ pc' \in [Actors -> Places] /\ timer' \in Timers \cup {0} /\ timers' \in 0..MaxTimers
  <2>1. pc[a] # "off" /\ timer \in Timers \cup {0} /\ timers \in 0..MaxTimers
    BY <1>0, <1>1 DEF PlaceTypes
  <2>2. CASE UNCHANGED <<timer, timers>> /\ \E place \in {"enqueue", "ctx", "send"} : Goto(a, place)
    BY <1>0, <2>1, <2>2, GotoMoves, GotoSpec DEF Places
  <2>3. CASE put
    <3>1. Schedule([pc EXCEPT ![a] = "enqueue"]) /\ [pc EXCEPT ![a] = "enqueue"] \in [Actors -> Places]
      BY <1>0, <2>3 DEF put, BufferItem, PlaceTypes, Places
    <3>. QED BY <1>0, <2>1, <3>1, ScheduleMoves, ScheduleSpec DEF Places
  <2>. QED BY <1>3, <2>2, <2>3
<1>5. PlaceTypes'
    BY <1>0, <1>3, <1>4 DEF PlaceTypes
<1>6. HandMoves(a)
    BY <1>1, <1>3, <1>4 DEF HandMoves
<1>7. /\ hand' \in [Actors -> Seq(Segments)] /\ \A b \in Actors \ {a} : hand'[b] = hand[b]
      /\ hand'[a] \in {hand[a], Tail(hand[a])} /\ (hand' # hand => pc'[a] = "enqueue")
      /\ (hand' # hand => hand'[a] = Tail(hand[a]))
  <2>1. CASE hand' = hand
    BY <1>1, <2>1
  <2>2. CASE hand' = [hand EXCEPT ![a] = Tail(hand[a])]
    <3>1. hand' \in [Actors -> Seq(Segments)] /\ hand'[a] = Tail(hand[a])
          /\ \A b \in Actors \ {a} : hand'[b] = hand[b]
      BY <1>1, <1>2, <2>2
    <3>2. hand' # hand => pc'[a] = "enqueue"
      <4>1. [pc EXCEPT ![a] = "enqueue"] \in [Actors -> Places] /\ pc \in [Actors -> Places]
        BY <1>0 DEF PlaceTypes, Places
      <4>2. put => pc'[a] = "enqueue"
        BY <1>0, <1>1, ScheduleMoves DEF put, BufferItem, Places
      <4>3. Goto(a, "enqueue") => pc'[a] = "enqueue"
        BY <4>1 DEF Goto
      <4>. QED BY <1>3, <4>2, <4>3
    <3>. QED BY <3>1, <3>2
  <2>. QED BY <1>3, <2>1, <2>2
<1>8. HandInv'
  <2>1. Consumer \in Actors
    BY DEF Actors
  <2>2. \A b \in Actors \ {a} : pc'[b] \in {"ctx", "send", "fast", "factory", "buffer"} => pc'[b] = pc[b]
    BY <1>4 DEF Only
  <2>. QED BY <1>0, <1>1, <1>4, <1>7, <2>1, <2>2 DEF HandInv
<1>9. ReadyInv'
  <2>1. Ready(a, pc'[a], hand'[a], received')
    BY <1>4 DEF Ready
  <2>. QED BY <1>0, <1>3, <1>4, <1>7, <2>1, ReadyKept
<1>10. /\ pending' \in Seq(Segments) /\ Len(pending') <= MaxPending
       /\ dropped' \subseteq Segments /\ dropped \subseteq dropped'
  <2>1. CASE UNCHANGED <<pending, dropped>>
    BY <1>0, <2>1 DEF DataTypes
  <2>2. CASE put
    BY <1>0, <1>2, <2>2, ItemTypes DEF put
  <2>3. CASE GivesUp(a) /\ UNCHANGED pending
    BY <1>0, <1>2, <2>3 DEF GivesUp, DataTypes, x
  <2>. QED BY <1>3, <2>1, <2>2, <2>3
<1>11. DataTypes'
    BY <1>0, <1>3, <1>7, <1>10 DEF DataTypes
<1>12. RequestMoves
  <2>1. saved' \subseteq Segments
    BY <1>0, <1>2, <1>3
  <2>. QED BY <1>0, <1>3, <1>10, <2>1 DEF RequestMoves
<1>13. Once(pending', hand', queue', Occupied, dropped', received')
  <2>1. CASE UNCHANGED <<pending, hand, dropped>>
    BY <1>0, <1>3, <2>1
  <2>2. CASE put /\ hand' = [hand EXCEPT ![a] = Tail(hand[a])]
    <3>1. hand'[a] = Tail(hand[a]) /\ \A b \in Actors \ {a} : hand'[b] = hand[b]
      BY <1>1, <2>2
    <3>. QED BY <1>0, <1>1, <1>3, <2>2, <3>1, HandWaits DEF put, x
  <2>3. CASE GivesUp(a)
    BY <1>0, <2>3, ClosedOnce
  <2>. QED BY <1>3, <2>1, <2>2, <2>3
<1>. QED BY <1>5, <1>4, <1>6, <1>8, <1>9, <1>11, <1>12, <1>13, MoveStep

-----------------------------------------------------------------------------
(* Text to speech: the invariant of the specification.                     *)

\* The three facts that make the invariant one of the specification.
LEMMA EgressInitial == EgressInit => EgressInv
<1> SUFFICES ASSUME EgressInit PROVE EgressInv
    OBVIOUS
<1>0. Init
    BY DEF EgressInit
<1>1. SharedInv /\ DataTypes /\ HandInv /\ ReadyInv /\ OnceInv
    BY <1>0, InitStreamInv, InitDataTypes, ReadyInitial, OnceInitial DEF StreamInv
<1>2. /\ \A a \in Actors : to[a] = 0 /\ pc[a] \in {"recv", "off"}
      /\ \A h \in Streams : worker[h] = "none" /\ done[h] = <<>> /\ speaking[h] = <<>>
      /\ stream = 0 /\ streams = 0
    BY <1>0 DEF Init, EgressInit
<1>3. /\ speaking \in [Streams -> Seq(Segments)]
      /\ target \in [{"barge", "lifecycle"} -> Streams \cup {0}]
      /\ 0 \in 0..MaxInterrupts
    BY NoSegments, InterruptAssumption DEF EgressInit
<1>4. EgressTypes
    BY <1>3 DEF EgressInit, EgressTypes
<1>5. TargetInv
  <2>1. \A x \in {"barge", "lifecycle"} : target[x] = 0
    BY DEF EgressInit
  <2>. QED BY <1>2, <2>1 DEF EgressInit, TargetInv
<1>6. NoOrphanSynth /\ SynthAlive /\ SpeakInv /\ KeepInv
    BY <1>2 DEF EgressInit, NoOrphanSynth, SynthAlive, SpeakInv, KeepInv
<1>7. BusyInv
  <2>1. <<>> \o <<>> = <<>>
    BY NoSegments
  <2>2. Occupied = [h \in Streams |-> <<>>] /\ done = [h \in Streams |-> <<>>]
    BY <1>0, <1>2, <2>1 DEF Occupied, Init
  <2>3. Occupied = done
    BY <2>2
  <2>. QED BY <1>1, <2>3 DEF OnceInv, BusyInv
<1>. QED BY <1>1, <1>4, <1>5, <1>6, <1>7 DEF EgressInv, TableInv

LEMMA EgressStep == EgressInv /\ [EgressNext]_evars => EgressInv'
<1> SUFFICES ASSUME EgressInv, [EgressNext]_evars PROVE EgressInv'
    OBVIOUS
<1>1. CASE UNCHANGED evars
  <2>1. UNCHANGED <<received, pc, to, hand, pending, failures, timer, timers, stream, streams,
                    worker, queue, cancelled, done, dropped, overtook, closing, shutdown>>
    BY <1>1 DEF evars, vars, actorVars, pendingVars, streamVars, workerVars, historyVars, endVars
  <2>2. UNCHANGED <<speaking, stopped, keep, barge, interrupts, lifecycle, target, saved, wiped,
                    slipped>>
    BY <1>1 DEF evars, egressVars, sVars, handlerVars, savedVars
  <2>3. SharedInv'
    BY <2>1 DEF EgressInv, SharedInv, PlaceTypes, OffInv, FlowInv, FreshInv
  <2>4. EgressTypes' /\ DataTypes' /\ HandInv' /\ ReadyInv'
    BY <2>1, <2>2 DEF EgressInv, EgressTypes, DataTypes, HandInv, ReadyInv, Ready
  <2>5. TableInv' /\ SpeakInv' /\ KeepInv'
    BY <2>1, <2>2 DEF EgressInv, TableInv, TargetInv, NoOrphanSynth, SynthAlive, Cancelled,
                      SpeakInv, KeepInv
  <2>6. Occupied' = Occupied
    BY <2>1, <2>2 DEF Occupied
  <2>7. BusyInv'
    BY <2>1, <2>6 DEF EgressInv, BusyInv
  <2>. QED BY <2>3, <2>4, <2>5, <2>7 DEF EgressInv
<1>2. CASE Request
  <2>1. Consumer \in Actors
    BY DEF Actors
  <2>. QED BY <1>2, <2>1, ConsumesStep, CreatesStep, ChecksStep, SendsStep, EndsStep, RetriesStep
           DEF Request
<1>3. CASE EgressNext
    BY <1>2, <1>3, HandlersStep, EgressShutdownStep, SpeakerStep DEF EgressNext
<1>. QED BY <1>1, <1>3

LEMMA InvariantEgressInv == EgressSpec => []EgressInv
    BY EgressInitial, EgressStep, PTL DEF EgressSpec

\* Text to speech keeps its variables to their types: what waits and what the
\* channels hold stays in its bounds, also while streams are rebuffered.
THEOREM EgressTypeCorrect == EgressSpec => []EgressTypeOK
<1>1. EgressInv => EgressTypeOK
    BY DEF EgressInv, SharedInv, PlaceTypes, EgressTypes, DataTypes, EgressTypeOK, WorkerPlaces
<1>. QED BY <1>1, InvariantEgressInv, PTL

\* The table and the running synthesizers agree, with barge-in, rebuffering and
\* the end of the session at work on the same stream.
THEOREM SynthsStayRegistered == EgressSpec => []SynthsRegistered
<1>1. EgressInv => SynthsRegistered
    BY DEF EgressInv, TableInv, SynthsRegistered
<1>. QED BY <1>1, InvariantEgressInv, PTL

\* A request that has arrived is in one place or spoken by one stream.
LEMMA BusyIsOnce ==
    ASSUME EgressInv
    PROVE  RequestOnce
<1> SUFFICES ASSUME NEW s \in 1..received
             PROVE  Cardinality(Where(s)) + Cardinality({h \in Streams : s \in ToSet(speaking[h])}) = 1
    BY DEF RequestOnce
<1> DEFINE E == Contents(pending, hand, queue, Occupied, dropped)
           C == Contents(pending, hand, queue, done, dropped)
           S == {h \in Streams : s \in ToSet(speaking[h])}
<1>0. DataTypes /\ SpeakInv /\ Once(pending, hand, queue, Occupied, dropped, received)
    BY DEF EgressInv, BusyInv
<1>1. ASSUME NEW h \in Streams
      PROVE  /\ Distinct(done[h]) /\ ToSet(Occupied[h]) = ToSet(done[h]) \cup ToSet(speaking[h])
             /\ ToSet(done[h]) \cap ToSet(speaking[h]) = {}
  <2>1. done[h] \in Seq(Segments) /\ Occupied[h] = done[h] \o speaking[h] /\ Distinct(Occupied[h])
    BY <1>0 DEF DataTypes, Occupied, Once
  <2>2. CASE worker[h] \in {"speak", "rebuffer"}
    <3>1. PICK x \in Segments : speaking[h] = <<x>>
      BY <1>0, <2>2 DEF SpeakInv
    <3>2. ToSet(<<x>>) = {x}
      BY SingleMembers
    <3>3. /\ Distinct(done[h]) /\ x \notin ToSet(done[h])
          /\ ToSet(done[h] \o <<x>>) = ToSet(done[h]) \cup {x}
      BY <2>1, <3>1, FrontMembers
    <3>. QED BY <2>1, <3>1, <3>2, <3>3
  <2>3. CASE worker[h] \notin {"speak", "rebuffer"}
    <3>1. speaking[h] = <<>>
      BY <1>0, <2>3 DEF SpeakInv
    <3>2. done[h] \o <<>> = done[h]
      BY <2>1
    <3>3. ToSet(<<>>) = {}
      BY DEF ToSet
    <3>. QED BY <2>1, <3>1, <3>2, <3>3
  <2>. QED BY <2>2, <2>3
<1>2. /\ Distinct(pending) /\ \A a \in Actors : Distinct(hand[a])
      /\ \A h \in Streams : Distinct(queue[h]) /\ Distinct(done[h])
    BY <1>0, <1>1 DEF Once
<1>3. PICK m \in Homes : s \in E[m]
    BY <1>0 DEF Once, Parted
<1>4. \A n \in Homes : s \in E[n] <=> n = m
    BY <1>0, <1>3 DEF Once, Parted
<1>5. /\ E[Waiting] = ToSet(pending) /\ E[Given] = dropped
      /\ \A a \in Actors : E[Hands(a)] = ToSet(hand[a])
      /\ \A h \in Streams : E[Queued(h)] = ToSet(queue[h]) /\ E[Worked(h)] = ToSet(Occupied[h])
    BY ContentsOf
<1>6. /\ C[Waiting] = ToSet(pending) /\ C[Given] = dropped
      /\ \A a \in Actors : C[Hands(a)] = ToSet(hand[a])
      /\ \A h \in Streams : C[Queued(h)] = ToSet(queue[h]) /\ C[Worked(h)] = ToSet(done[h])
    BY ContentsOf
<1>7. \A h \in Streams : E[Worked(h)] = C[Worked(h)] \cup ToSet(speaking[h])
                         /\ C[Worked(h)] \cap ToSet(speaking[h]) = {} /\ Worked(h) \in Homes
    BY <1>1, <1>5, <1>6, HomesDiffer
<1>8. \A n \in Homes : C[n] \subseteq E[n] /\ ((\A h \in Streams : n # Worked(h)) => C[n] = E[n])
    BY <1>5, <1>6, <1>7, EveryHome
<1>9. \A n \in Homes : s \in C[n] <=> n = IF s \in C[m] THEN m ELSE <<"nowhere">>
  <2>1. <<"nowhere">> \notin Homes
    BY DEF Homes, Waiting, Given, Hands, Queued, Worked
  <2>. QED BY <1>3, <1>4, <1>8, <2>1
<1> HIDE DEF E, C
<1>10. CASE s \in C[m]
  <2>1. Cardinality(Where(s)) = 1
    BY <1>2, <1>3, <1>9, <1>10, OneWhere DEF C
  <2>2. S = {}
    <3>1. ASSUME NEW h \in Streams, s \in ToSet(speaking[h]) PROVE FALSE
      <4>1. m = Worked(h)
        BY <1>4, <1>7, <3>1
      <4>. QED BY <1>7, <1>10, <3>1, <4>1
    <3>. QED BY <3>1
  <2>3. Cardinality(S) = 0
    BY <2>2, FS_EmptySet
  <2>. QED BY <2>1, <2>3
<1>11. CASE s \notin C[m]
  <2>1. Where(s) = {}
    <3>1. <<"nowhere">> \notin Homes
      BY DEF Homes, Waiting, Given, Hands, Queued, Worked
    <3>. QED BY <1>2, <1>9, <1>11, <3>1, OneWhere DEF C
  <2>2. Cardinality(Where(s)) = 0
    BY <2>1, FS_EmptySet
  <2>3. PICK h \in Streams : m = Worked(h) /\ s \in ToSet(speaking[h])
    BY <1>3, <1>7, <1>8, <1>11
  <2>4. S = {h}
    <3>1. ASSUME NEW g \in Streams, s \in ToSet(speaking[g]) PROVE g = h
      BY <1>4, <1>7, <2>3, <3>1, HomesDiffer
    <3>. QED BY <2>3, <3>1
  <2>5. Cardinality(S) = 1
    BY <2>4, FS_Singleton
  <2>. QED BY <2>2, <2>5
<1>. QED BY <1>10, <1>11

\* Rebuffering with its two drains loses no request and doubles none, and what
\* stays in the channel of a stream that has rebuffered had slipped in after
\* its context's end.
THEOREM RequestsAreServed == EgressSpec => []RequestsServed
<1>1. EgressInv => DrainComplete
    BY DEF EgressInv, KeepInv, DrainComplete
<1>2. EgressInv => RequestsServed
    BY <1>1, BusyIsOnce DEF RequestsServed
<1>. QED BY <1>2, InvariantEgressInv, PTL

-----------------------------------------------------------------------------
(* The stream manager delivers: it implements Delivery.                    *)

\* The segments that have arrived and are neither processed nor given up.
Unserved == {s \in 1..received : s \notin dropped /\ \A h \in Streams : s \notin ToSet(done[h])}

\* What is lost in a step that serves nothing was not served before.
LEMMA NewlyLost ==
  ASSUME NEW p, NEW hd, NEW q, NEW dn, Once(p, hd, q, dn, dropped', received),
         \A h \in Streams : ToSet(done[h]) \subseteq ToSet(dn[h])
  PROVE  dropped' \ dropped \subseteq Unserved
<1> DEFINE F == Contents(p, hd, q, dn, dropped')
<1>1. F[Given] = dropped' /\ \A h \in Streams : F[Worked(h)] = ToSet(dn[h])
  BY ContentsOf
<1>2. /\ \A m, n \in Homes : m # n => F[m] \cap F[n] = {}
      /\ \A m \in Homes : F[m] \subseteq 1..received
  BY DEF Once, Parted
<1> HIDE DEF F
<1>3. SUFFICES ASSUME NEW s \in dropped', s \notin dropped PROVE s \in Unserved
  OBVIOUS
<1>4. s \in 1..received
  BY <1>1, <1>2, HomesDiffer
<1>5. ASSUME NEW h \in Streams PROVE s \notin ToSet(done[h])
  BY <1>1, <1>2, HomesDiffer
<1> QED BY <1>3, <1>4, <1>5 DEF Unserved

\* What is in a channel or in hand has arrived and is not served yet.
LEMMA StillUnserved ==
  ASSUME NEW p, NEW dn, Once(p, hand, queue, dn, dropped, received),
         \A h \in Streams : ToSet(done[h]) \subseteq ToSet(dn[h])
  PROVE  /\ \A a \in Actors : ToSet(hand[a]) \subseteq Unserved
         /\ \A h \in Streams : ToSet(queue[h]) \subseteq Unserved
<1> DEFINE E == Contents(p, hand, queue, dn, dropped)
<1>1. /\ E[Given] = dropped /\ \A h \in Streams : E[Worked(h)] = ToSet(dn[h])
      /\ \A a \in Actors : E[Hands(a)] = ToSet(hand[a])
      /\ \A h \in Streams : E[Queued(h)] = ToSet(queue[h])
  BY ContentsOf
<1>2. /\ \A m, n \in Homes : m # n => E[m] \cap E[n] = {}
      /\ \A m \in Homes : E[m] \subseteq 1..received
  BY DEF Once, Parted
<1> HIDE DEF E
<1>3. ASSUME NEW a \in Actors, NEW s \in ToSet(hand[a]) PROVE s \in Unserved
  <2>1. s \in 1..received /\ s \notin dropped
    BY <1>1, <1>2, HomesDiffer
  <2>2. ASSUME NEW h \in Streams PROVE s \notin ToSet(done[h])
    BY <1>1, <1>2, HomesDiffer
  <2> QED BY <2>1, <2>2 DEF Unserved
<1>4. ASSUME NEW g \in Streams, NEW s \in ToSet(queue[g]) PROVE s \in Unserved
  <2>1. s \in 1..received /\ s \notin dropped
    BY <1>1, <1>2, HomesDiffer
  <2>2. ASSUME NEW h \in Streams PROVE s \notin ToSet(done[h])
    BY <1>1, <1>2, HomesDiffer
  <2> QED BY <2>1, <2>2 DEF Unserved
<1> QED BY <1>3, <1>4

LEMMA PromiseForms ==
  /\ Promise!vars = <<received, streams, EndedStreams, done, dropped, overtook>>
  /\ Promise!Outstanding = Unserved
  /\ \A h : Promise!GivenTo(h) = ToSet(done[h])
  /\ \A h \in Streams : Promise!Live(h) <=> h <= streams /\ worker[h] \in {"none", "run"}
  /\ Promise!Arrive \/ Promise!Open => Promise!Next
  /\ \A h \in Streams : Promise!End(h) => Promise!Next
  /\ \A h \in Streams, s \in Segments : Promise!Give(h, s) => Promise!Next
  /\ \A S \in SUBSET Segments : Promise!Lose(S) => Promise!Next
  /\ \A s \in Segments : Promise!LetAhead(s) => Promise!Next
<1>1. Promise!vars = <<received, streams, EndedStreams, done, dropped, overtook>>
  BY DEF Promise!vars
<1>2. Promise!Streams = Streams /\ Promise!Items = Segments
  BY DEF Promise!Streams, Promise!Items, Streams, Segments
<1>3. \A h : Promise!GivenTo(h) = ToSet(done[h])
  BY DEF Promise!GivenTo, ToSet
<1>4. Promise!Outstanding = Unserved
  BY <1>2, <1>3 DEF Promise!Outstanding, Unserved
<1>5. \A h \in Streams : Promise!Live(h) <=> h <= streams /\ worker[h] \in {"none", "run"}
  BY DEF Promise!Live, EndedStreams
<1> QED BY <1>1, <1>2, <1>3, <1>4, <1>5 DEF Promise!Next

\* A step that may only lose segments, and ends or opens no stream.
LEMMA LosingDelivers ==
  ASSUME OnceInv', received \in Nat, received <= MaxSegments,
         UNCHANGED <<received, streams, done, overtook>>, EndedStreams' = EndedStreams,
         dropped \subseteq dropped'
  PROVE  [Promise!Next]_(Promise!vars)
<1> DEFINE X == dropped' \ dropped
<1>1. Once(pending', hand', queue', done, dropped', received)
  BY DEF OnceInv
<1>2. X \subseteq Unserved
  BY <1>1, NewlyLost
<1>3. X \in SUBSET Segments /\ dropped' = dropped \cup X
  <2>1. 1..received \subseteq Segments
    BY BoundAssumption DEF Segments
  <2> QED BY <1>2, <2>1 DEF Unserved
<1> HIDE DEF X
<1>4. Promise!Lose(X)
  BY <1>2, <1>3, PromiseForms DEF Promise!Lose
<1> QED BY <1>3, <1>4, PromiseForms

\* A step that only ends streams' work: at most that of h, which has not ended.
LEMMA EndingDelivers ==
  ASSUME PlaceTypes, FlowInv, NEW h \in Streams, worker[h] = "run",
         UNCHANGED <<received, streams, done, dropped, overtook>>,
         EndedStreams' = EndedStreams \cup {h}
  PROVE  [Promise!Next]_(Promise!vars)
<1>1. h <= streams
  BY BoundAssumption DEF PlaceTypes, FlowInv, Streams
<1>2. Promise!End(h)
  BY <1>1, PromiseForms DEF Promise!End
<1> QED BY <1>2, PromiseForms

\* A worker gives its stream the oldest segment of the channel.
LEMMA TakingDelivers ==
  ASSUME FlowsInv, FlowsInv', NEW h \in Streams, WorkerTakes(h)
  PROVE  [Promise!Next]_(Promise!vars)
<1> USE DEF actorVars, pendingVars, streamVars, historyVars
<1> DEFINE x == Head(queue[h])
<1>1. /\ DataTypes /\ PlaceTypes /\ FlowInv /\ OnceInv
      /\ OrderInv'
  BY DEF FlowsInv, StreamInv, SharedInv
<1>2. /\ worker[h] = "run" /\ queue[h] # <<>>
      /\ done' = [done EXCEPT ![h] = Append(done[h], x)]
      /\ worker' = [worker EXCEPT ![h] = IF x \in Last THEN "exit" ELSE worker[h]]
      /\ UNCHANGED <<received, streams, dropped, overtook>>
  BY DEF WorkerTakes
<1>3. queue[h] \in Seq(Segments) /\ x \in Segments /\ x \in ToSet(queue[h])
  BY <1>1, <1>2, TakeHead, TailMembers DEF DataTypes, OnceInv, Once
<1>4. x \in Unserved
  <2>1. Once(pending, hand, queue, done, dropped, received)
    BY <1>1 DEF OnceInv
  <2> QED BY <1>3, <2>1, StillUnserved
<1>5. h <= streams
  BY <1>1, <1>2, BoundAssumption DEF PlaceTypes, FlowInv, Streams
<1>6. ASSUME NEW e \in ToSet(done[h]), e > x PROVE e \in overtook
  <2> DEFINE d == done[h]  t == done'[h]  q == queue'[h]
  <2>1. t = Append(d, x) /\ d \in Seq(Segments) /\ q \in Seq(Segments)
    BY <1>1, <1>2 DEF FlowsInv, DataTypes
  <2>2. InLine(t \o q, overtook)
    BY <1>1, <1>2 DEF OrderInv
  <2>3. PICK i \in 1..Len(d) : d[i] = e
    BY <1>6 DEF ToSet
  <2> HIDE DEF d, t, q
  <2>4. /\ Len(d) \in Nat /\ Len(t) = Len(d) + 1 /\ t[Len(d) + 1] = x /\ t[i] = e
        /\ t \in Seq(Segments)
    BY <1>3, <2>1, <2>3
  <2>5. /\ (t \o q)[i] = e /\ (t \o q)[Len(d) + 1] = x
        /\ Len(d) + 1 \in 1..Len(t \o q) /\ i \in 1..Len(t \o q)
    BY <2>1, <2>4
  <2> QED BY <1>6, <2>2, <2>5 DEF InLine
<1>7. EndedStreams' = IF x \in Last THEN EndedStreams \cup {h} ELSE EndedStreams
  BY <1>1, <1>2 DEF EndedStreams, PlaceTypes
<1> HIDE DEF x
<1>8. Promise!Give(h, x)
  BY <1>2, <1>4, <1>5, <1>6, <1>7, PromiseForms DEF Promise!Give
<1> QED BY <1>3, <1>8, PromiseForms

\* A segment is enqueued, maybe ahead of older ones.
LEMMA SendingDelivers ==
  ASSUME FlowsInv, NEW a \in Actors, EnqueueSend(a)
  PROVE  [Promise!Next]_(Promise!vars)
<1> USE DEF pendingVars, streamVars
<1> DEFINE x == Head(hand[a])
<1>1. /\ UNCHANGED <<received, streams, worker, done, dropped>>
      /\ overtook' \in {overtook, overtook \cup {x}} /\ pc[a] = "send"
  BY DEF EnqueueSend
<1>2. EndedStreams' = EndedStreams
  BY <1>1 DEF EndedStreams
<1>3. DataTypes /\ HandInv /\ OnceInv
  BY DEF FlowsInv
<1>4. hand[a] # <<>> /\ hand[a] \in Seq(Segments)
  BY <1>1, <1>3 DEF HandInv, DataTypes
<1>5. x \in Segments /\ x \in ToSet(hand[a])
  BY <1>3, <1>4, TakeHead, TailMembers DEF OnceInv, Once
<1>6. x \in Unserved
  <2>1. Once(pending, hand, queue, done, dropped, received)
    BY <1>3 DEF OnceInv
  <2> QED BY <1>5, <2>1, StillUnserved
<1> HIDE DEF x
<1>7. CASE overtook' = overtook
  BY <1>1, <1>2, <1>7 DEF Promise!vars
<1>8. CASE overtook' = overtook \cup {x}
  <2>1. Promise!LetAhead(x)
    BY <1>1, <1>2, <1>6, <1>8, PromiseForms DEF Promise!LetAhead
  <2> QED BY <1>5, <2>1, PromiseForms
<1> QED BY <1>1, <1>7, <1>8

\* A step that serves and loses nothing.
LEMMA QuietDelivers ==
  ASSUME UNCHANGED <<received, streams, done, dropped, overtook>>, EndedStreams' = EndedStreams
  PROVE  [Promise!Next]_(Promise!vars)
BY DEF Promise!vars

LEMMA CreateDelivers ==
  ASSUME FlowsInv, FlowsInv', NEW a \in Actors, Create(a)
  PROVE  [Promise!Next]_(Promise!vars)
<1> USE DEF actorVars, pendingVars, streamVars, workerVars, historyVars
<1>1. CASE CreateFast(a) \/ FactoryUnavailable(a) \/ Register(a) \/ FlushPending(a)
  <2>1. UNCHANGED <<received, streams, worker, done, dropped, overtook>>
    BY <1>1 DEF CreateFast, FactoryUnavailable, Register, FlushPending
  <2> QED BY <2>1, QuietDelivers DEF EndedStreams
<1>2. CASE FactoryOpens(a)
  <2>1. /\ streams < MaxStreams /\ streams' = streams + 1
        /\ worker' = [worker EXCEPT ![streams + 1] = "run"]
        /\ UNCHANGED <<received, done, dropped, overtook>>
    BY <1>2 DEF FactoryOpens
  <2>2. streams + 1 \in Streams /\ worker[streams + 1] = "none"
    BY <2>1, BoundAssumption DEF FlowsInv, StreamInv, SharedInv, PlaceTypes, FlowInv, Streams
  <2>3. EndedStreams' = EndedStreams
    BY <2>1, <2>2 DEF EndedStreams, FlowsInv, StreamInv, SharedInv, PlaceTypes
  <2>4. Promise!Open
    BY <2>1, <2>3 DEF Promise!Open
  <2> QED BY <2>4, PromiseForms
<1>3. CASE FactoryFails(a)
  <2>1. UNCHANGED <<received, streams, worker, done, overtook>> /\ dropped \subseteq dropped'
    BY <1>3 DEF FactoryFails
  <2>2. OnceInv' /\ received \in Nat /\ received <= MaxSegments
    BY BoundAssumption DEF FlowsInv, DataTypes
  <2>3. EndedStreams' = EndedStreams
    BY <2>1 DEF EndedStreams
  <2> QED BY <2>1, <2>2, <2>3, LosingDelivers
<1> QED BY <1>1, <1>2, <1>3 DEF Create

LEMMA OthersDeliver ==
  ASSUME FlowsInv, FlowsInv',
         \/ Shutdown \/ Consume \/ \E t \in Timers : Retry(t)
         \/ \E a \in Actors : Enqueue(a) /\ ~EnqueueSend(a)
  PROVE  [Promise!Next]_(Promise!vars)
<1> USE DEF actorVars, pendingVars, streamVars, workerVars, historyVars
<1>1. CASE ConsumerRecv
  <2>1. /\ received < MaxSegments /\ received' = received + 1
        /\ UNCHANGED <<streams, worker, done, dropped, overtook>>
    BY <1>1 DEF ConsumerRecv
  <2>2. EndedStreams' = EndedStreams
    BY <2>1 DEF EndedStreams
  <2>3. Promise!Arrive
    BY <2>1, <2>2 DEF Promise!Arrive
  <2> QED BY <2>3, PromiseForms
<1>2. CASE UNCHANGED <<received, streams, worker, done, overtook>> /\ dropped \subseteq dropped'
  <2>2. OnceInv' /\ received \in Nat /\ received <= MaxSegments
    BY BoundAssumption DEF FlowsInv, DataTypes
  <2>3. EndedStreams' = EndedStreams
    BY <1>2 DEF EndedStreams
  <2> QED BY <1>2, <2>2, <2>3, LosingDelivers
<1>3. ASSUME NEW a \in Actors, Enqueue(a), ~EnqueueSend(a)
      PROVE  UNCHANGED <<received, streams, worker, done, overtook>> /\ dropped \subseteq dropped'
  BY <1>3 DEF Enqueue, EnqueueCheck, EnqueueClosed, EnqueueEnd
<1>4. ASSUME NEW t \in Timers, Retry(t)
      PROVE  UNCHANGED <<received, streams, worker, done, overtook>> /\ dropped \subseteq dropped'
  BY <1>4 DEF Retry, RetryFires, RetryAgain, RetryAbandons, RetryGoesOn, DeletePending
<1>5. ASSUME BufferPending \/ ConsumerEnd
      PROVE  UNCHANGED <<received, streams, worker, done, overtook>> /\ dropped \subseteq dropped'
  BY <1>5 DEF BufferPending, ConsumerEnd, BufferItem
<1>6. ASSUME Shutdown
      PROVE  UNCHANGED <<received, streams, worker, done, overtook>> /\ dropped \subseteq dropped'
  BY <1>6 DEF Shutdown, ShutdownStart, CloseAllStreams, ShutdownPending, ShutdownTimeout,
              DeletePending
<1> QED BY <1>1, <1>2, <1>3, <1>4, <1>5, <1>6 DEF Consume

LEMMA WorkerDelivers ==
  ASSUME FlowsInv, FlowsInv', NEW h \in Streams, Worker(h)
  PROVE  [Promise!Next]_(Promise!vars)
<1> USE DEF actorVars, pendingVars, streamVars, historyVars
<1>1. PlaceTypes /\ FlowInv
  BY DEF FlowsInv, StreamInv, SharedInv
<1>2. CASE WorkerStops(h)
  <2>1. /\ worker[h] = "run" /\ worker' = [worker EXCEPT ![h] = "exit"]
        /\ UNCHANGED <<received, streams, done, dropped, overtook>>
    BY <1>2 DEF WorkerStops
  <2>2. EndedStreams' = EndedStreams \cup {h}
    BY <1>1, <2>1 DEF EndedStreams, PlaceTypes
  <2> QED BY <1>1, <2>1, <2>2, EndingDelivers
<1>3. CASE WorkerExits(h) \/ WorkerCancels(h)
  <2>1. /\ worker[h] \in {"exit", "cancel"}
        /\ \E w \in {"cancel", "done"} : worker' = [worker EXCEPT ![h] = w]
        /\ UNCHANGED <<received, streams, done, dropped, overtook>>
    BY <1>3 DEF WorkerExits, WorkerCancels
  <2>2. EndedStreams' = EndedStreams
    BY <1>1, <2>1 DEF EndedStreams, PlaceTypes
  <2> QED BY <2>1, <2>2, QuietDelivers
<1> QED BY <1>2, <1>3, TakingDelivers DEF Worker

\* The stream manager implements Delivery: whatever becomes of the streams, a
\* segment is given to one of them at most, once, while it lives and in order
\* but for those let ahead of a replay, or is given up for good.
THEOREM StreamsDeliver == Spec => ImplementsDelivery
<1>1. Init => Promise!Init
  BY DEF Init, Promise!Init, EndedStreams, Promise!Streams, Streams
<1>2. FlowsInv /\ FlowsInv' /\ [Next]_vars => [Promise!Next]_(Promise!vars)
  <2> SUFFICES ASSUME FlowsInv, FlowsInv', [Next]_vars PROVE [Promise!Next]_(Promise!vars)
    OBVIOUS
  <2>1. CASE UNCHANGED vars
    <3>1. UNCHANGED <<received, streams, worker, done, dropped, overtook>>
      BY <2>1 DEF vars, actorVars, streamVars, workerVars, historyVars
    <3> QED BY <3>1, QuietDelivers DEF EndedStreams
  <2>2. CASE Next
    BY <2>2, CreateDelivers, SendingDelivers, OthersDeliver, WorkerDelivers DEF Next
  <2> QED BY <2>1, <2>2
<1>3. Init => FlowsInv
  BY InitStreamInv, InitDataTypes, ReadyInitial, OnceInitial, OrderInitial DEF FlowsInv
<1> QED BY <1>1, <1>2, <1>3, FlowsStep, PTL DEF Spec, ImplementsDelivery, Promise!Spec
-----------------------------------------------------------------------------
(* Text to speech delivers: it implements Delivery, without its order.     *)

LEMMA SpeechForms ==
  /\ SpeechPromise!vars = <<received, streams, SilentStreams, done, dropped, Segments>>
  /\ SpeechPromise!Outstanding = Unserved
  /\ \A h : SpeechPromise!GivenTo(h) = ToSet(done[h])
  /\ \A h \in Streams :
       SpeechPromise!Live(h) <=> h <= streams /\ worker[h] \in {"none", "run", "speak"}
  /\ SpeechPromise!Arrive \/ SpeechPromise!Open => SpeechPromise!Next
  /\ \A h \in Streams : SpeechPromise!End(h) => SpeechPromise!Next
  /\ \A h \in Streams, s \in Segments : SpeechPromise!Give(h, s) => SpeechPromise!Next
  /\ \A S \in SUBSET Segments : SpeechPromise!Lose(S) => SpeechPromise!Next
<1>1. SpeechPromise!vars = <<received, streams, SilentStreams, done, dropped, Segments>>
  BY DEF SpeechPromise!vars
<1>2. SpeechPromise!Streams = Streams /\ SpeechPromise!Items = Segments
  BY DEF SpeechPromise!Streams, SpeechPromise!Items, Streams, Segments
<1>3. \A h : SpeechPromise!GivenTo(h) = ToSet(done[h])
  BY DEF SpeechPromise!GivenTo, ToSet
<1>4. SpeechPromise!Outstanding = Unserved
  BY <1>2, <1>3 DEF SpeechPromise!Outstanding, Unserved
<1>5. \A h \in Streams :
        SpeechPromise!Live(h) <=> h <= streams /\ worker[h] \in {"none", "run", "speak"}
  BY DEF SpeechPromise!Live, SilentStreams
<1> QED BY <1>1, <1>2, <1>3, <1>4, <1>5 DEF SpeechPromise!Next

\* What a stream has spoken, and what it speaks, is what keeps it busy.
LEMMA BusyHas ==
  ASSUME DataTypes, EgressTypes, NEW h \in Streams
  PROVE  ToSet(Occupied[h]) = ToSet(done[h]) \cup ToSet(speaking[h])
<1>1. done[h] \in Seq(Segments) /\ speaking[h] \in Seq(Segments)
  BY DEF DataTypes, EgressTypes
<1>2. Occupied[h] = done[h] \o speaking[h]
  BY DEF Occupied
<1> QED BY <1>1, <1>2, ConcatMembers

\* A step that may only lose requests, and opens or ends no stream.
LEMMA LosingSpeaks ==
  ASSUME EgressInv, EgressInv', UNCHANGED <<received, streams, done>>,
         SilentStreams' = SilentStreams, dropped \subseteq dropped'
  PROVE  [SpeechPromise!Next]_(SpeechPromise!vars)
<1> DEFINE X == dropped' \ dropped  B == Occupied'
<1>1. Once(pending', hand', queue', B, dropped', received)
  BY DEF EgressInv, BusyInv
<1>2. ASSUME NEW h \in Streams PROVE ToSet(done[h]) \subseteq ToSet(B[h])
  <2>1. done'[h] \in Seq(Segments) /\ speaking'[h] \in Seq(Segments)
    BY DEF EgressInv, DataTypes, EgressTypes
  <2>2. B[h] = done'[h] \o speaking'[h]
    BY DEF Occupied
  <2>3. done' = done
    OBVIOUS
  <2> HIDE DEF B
  <2> QED BY <2>1, <2>2, <2>3, ConcatMembers
<1> HIDE DEF B
<1>3. X \subseteq Unserved
  BY <1>1, <1>2, NewlyLost
<1>4. X \in SUBSET Segments /\ dropped' = dropped \cup X
  <2>1. 1..received \subseteq Segments
    BY BoundAssumption DEF Segments, EgressInv, DataTypes
  <2> QED BY <1>3, <2>1 DEF Unserved
<1> HIDE DEF X
<1>5. SpeechPromise!Lose(X)
  BY <1>3, <1>4, SpeechForms DEF SpeechPromise!Lose
<1> QED BY <1>4, <1>5, SpeechForms

\* A step that ends the work of a stream.
LEMMA EndingSpeaks ==
  ASSUME EgressInv, NEW h \in Streams, worker[h] \in {"run", "speak"},
         UNCHANGED <<received, streams, done, dropped>>,
         SilentStreams' = SilentStreams \cup {h}
  PROVE  [SpeechPromise!Next]_(SpeechPromise!vars)
<1>1. h <= streams
  BY BoundAssumption DEF EgressInv, SharedInv, PlaceTypes, FlowInv, Streams
<1>2. SpeechPromise!End(h)
  BY <1>1, SpeechForms DEF SpeechPromise!End
<1> QED BY <1>2, SpeechForms

\* The request a stream speaks has been spoken.
LEMMA SpeakingSpeaks ==
  ASSUME EgressInv, NEW h \in Streams, SpeakEnds(h)
  PROVE  [SpeechPromise!Next]_(SpeechPromise!vars)
<1> USE DEF actorVars, pendingVars, streamVars, historyVars
<1>1. /\ worker[h] = "speak" /\ worker' = [worker EXCEPT ![h] = "run"]
      /\ done' = [done EXCEPT ![h] = done[h] \o speaking[h]]
      /\ UNCHANGED <<received, streams, dropped>>
  BY DEF SpeakEnds, WorkerGoto
<1>2. PlaceTypes /\ FlowInv /\ DataTypes /\ EgressTypes /\ SpeakInv
  BY DEF EgressInv, SharedInv
<1>3. PICK x \in Segments : speaking[h] = <<x>>
  BY <1>1, <1>2 DEF SpeakInv
<1>4. done[h] \in Seq(Segments)
  BY <1>2 DEF DataTypes
<1>5. done[h] \o speaking[h] = Append(done[h], x)
  BY <1>3, <1>4
<1>6. x \in Unserved
  <2> DEFINE E == Contents(pending, hand, queue, Occupied, dropped)
  <2>1. /\ E[Given] = dropped /\ \A g \in Streams : E[Worked(g)] = ToSet(Occupied[g])
    BY ContentsOf
  <2>2. /\ \A m, n \in Homes : m # n => E[m] \cap E[n] = {}
        /\ \A m \in Homes : E[m] \subseteq 1..received
        /\ \A g \in Streams : Distinct(Occupied[g])
    BY DEF EgressInv, BusyInv, Once, Parted
  <2> HIDE DEF E
  <2>3. \A g \in Streams : ToSet(Occupied[g]) = ToSet(done[g]) \cup ToSet(speaking[g])
    BY <1>2, BusyHas
  <2>4. x \in ToSet(speaking[h])
    BY <1>3 DEF ToSet
  <2>5. x \in 1..received /\ x \notin dropped
    BY <2>1, <2>2, <2>3, <2>4, HomesDiffer
  <2>6. ASSUME NEW g \in Streams, g # h PROVE x \notin ToSet(done[g])
    BY <2>1, <2>2, <2>3, <2>4, <2>6, HomesDiffer
  <2>7. x \notin ToSet(done[h])
    <3> DEFINE d == done[h]
    <3>1. Distinct(d \o <<x>>)
      BY <1>3, <2>2 DEF Occupied
    <3>2. d \in Seq(Segments)
      BY <1>4
    <3> HIDE DEF d
    <3>3. /\ Len(d) \in Nat /\ (d \o <<x>>)[Len(d) + 1] = x /\ Len(d \o <<x>>) = Len(d) + 1
          /\ \A i \in 1..Len(d) : (d \o <<x>>)[i] = d[i]
      BY <3>2
    <3>4. ASSUME NEW i \in 1..Len(d), d[i] = x PROVE FALSE
      BY <3>1, <3>3, <3>4 DEF Distinct
    <3> QED BY <3>4 DEF ToSet, d
  <2> QED BY <2>5, <2>6, <2>7 DEF Unserved
<1>7. h <= streams
  BY <1>1, <1>2, BoundAssumption DEF PlaceTypes, FlowInv, Streams
<1>8. SilentStreams' = SilentStreams
  BY <1>1, <1>2 DEF SilentStreams, PlaceTypes
<1>9. \A e \in ToSet(done[h]) : e \in Segments
  BY <1>4, ElementOfSeq DEF ToSet
<1>10. SpeechPromise!Give(h, x)
  BY <1>1, <1>5, <1>6, <1>7, <1>8, <1>9, SpeechForms DEF SpeechPromise!Give
<1> QED BY <1>10, SpeechForms

\* Every other step of a stream loses requests, ends the stream, or neither.
LEMMA SpeakerSpeaks ==
  ASSUME EgressInv, EgressInv', NEW h \in Streams, Speaker(h)
  PROVE  [SpeechPromise!Next]_(SpeechPromise!vars)
<1> USE DEF actorVars, pendingVars, streamVars, workerVars, historyVars, WorkerGoto
<1>0. worker \in [Streams -> WorkerPlaces]
  BY DEF EgressInv, SharedInv, PlaceTypes
<1>1. CASE SpeakEnds(h)
  BY <1>1, SpeakingSpeaks
<1>2. CASE SpeakUnavailable(h) \/ SpeakStops(h)
  <2>1. /\ worker[h] \in {"run", "speak"}
        /\ \E w \in {"rebuffer", "exit"} : worker' = [worker EXCEPT ![h] = w]
        /\ UNCHANGED <<received, streams, done, dropped>>
    BY <1>2 DEF SpeakUnavailable, SpeakStops, WorkerStops
  <2>2. SilentStreams' = SilentStreams \cup {h}
    BY <1>0, <2>1 DEF SilentStreams
  <2> QED BY <2>1, <2>2, EndingSpeaks
<1>3. CASE SpeakStarts(h)
  <2>1. /\ worker[h] = "run" /\ worker' = [worker EXCEPT ![h] = "speak"]
        /\ UNCHANGED <<received, streams, done, dropped>>
    BY <1>3 DEF SpeakStarts
  <2>2. SilentStreams' = SilentStreams
    BY <1>0, <2>1 DEF SilentStreams
  <2> QED BY <2>1, <2>2, LosingSpeaks
<1>4. CASE Rebuffer(h) \/ RebufferDrain(h) \/ StreamClosed(h) \/ ClosedClears(h)
           \/ ClosedDrains(h) \/ SpeakCancels(h)
  <2>1. /\ worker[h] \in {"rebuffer", "drain", "exit", "closed", "cancel"}
        /\ \/ worker' = worker
           \/ \E w \in {"drain", "exit", "closed", "cancel", "done"} :
                  worker' = [worker EXCEPT ![h] = w]
        /\ UNCHANGED <<received, streams, done>> /\ dropped \subseteq dropped'
    BY <1>4 DEF Rebuffer, RebufferDrain, StreamClosed, ClosedClears, ClosedDrains, SpeakCancels,
                WorkerCancels, Drain, BufferItem, DeletePending
  <2>2. SilentStreams' = SilentStreams
    BY <1>0, <2>1 DEF SilentStreams
  <2> QED BY <2>1, <2>2, LosingSpeaks
<1> QED BY <1>1, <1>2, <1>3, <1>4 DEF Speaker

LEMMA RequestSpeaks ==
  ASSUME EgressInv, EgressInv', Request
  PROVE  [SpeechPromise!Next]_(SpeechPromise!vars)
<1> USE DEF actorVars, pendingVars, streamVars, workerVars, historyVars
<1>1. CASE RequestRecv
  <2>1. /\ received < MaxSegments /\ received' = received + 1
        /\ UNCHANGED <<streams, worker, done, dropped>>
    BY <1>1 DEF RequestRecv, ConsumerRecv
  <2>2. SilentStreams' = SilentStreams
    BY <2>1 DEF SilentStreams
  <2>3. SpeechPromise!Arrive
    BY <2>1, <2>2 DEF SpeechPromise!Arrive
  <2> QED BY <2>3, SpeechForms
<1>2. ASSUME NEW a \in Actors, FactoryOpens(a) PROVE SpeechPromise!Next
  <2>1. /\ streams < MaxStreams /\ streams' = streams + 1
        /\ worker' = [worker EXCEPT ![streams + 1] = "run"]
        /\ UNCHANGED <<received, done, dropped>>
    BY <1>2 DEF FactoryOpens
  <2>2. /\ streams + 1 \in Streams /\ worker[streams + 1] = "none"
        /\ worker \in [Streams -> WorkerPlaces]
    BY <2>1, BoundAssumption DEF EgressInv, SharedInv, PlaceTypes, FlowInv, Streams
  <2>3. SilentStreams' = SilentStreams
    BY <2>1, <2>2 DEF SilentStreams
  <2>4. SpeechPromise!Open
    BY <2>1, <2>3 DEF SpeechPromise!Open
  <2> QED BY <2>4, SpeechForms
<1>3. CASE UNCHANGED <<received, streams, worker, done>> /\ dropped \subseteq dropped'
  <2>1. SilentStreams' = SilentStreams
    BY <1>3 DEF SilentStreams
  <2> QED BY <1>3, <2>1, LosingSpeaks
<1>4. ASSUME NEW a \in Actors, RequestCreate(a), ~FactoryOpens(a)
      PROVE  UNCHANGED <<received, streams, worker, done>> /\ dropped \subseteq dropped'
  BY <1>4 DEF RequestCreate, RequestRegister, CreateFast, FactoryUnavailable, FactoryFails,
              Register, FlushPending
<1>5. ASSUME NEW a \in Actors,
             RequestChecks(a) \/ RequestSend(a) \/ RequestEnd(a) \/ RequestBuffers(a)
             \/ RequestDrops(a)
      PROVE  UNCHANGED <<received, streams, worker, done>> /\ dropped \subseteq dropped'
  BY <1>5 DEF RequestChecks, RequestSend, RequestEnd, RequestBuffers, RequestDrops,
              EnqueueSend, EnqueueEnd, BufferItem
<1>6. ASSUME NEW t \in Timers, RequestRetry(t)
      PROVE  UNCHANGED <<received, streams, worker, done>> /\ dropped \subseteq dropped'
  BY <1>6 DEF RequestRetry, Retry, RetryFires, RetryAgain, RetryAbandons, RetryGoesOn, DeletePending
<1>7. ASSUME RequestFirst
      PROVE  UNCHANGED <<received, streams, worker, done>> /\ dropped \subseteq dropped'
  BY <1>7 DEF RequestFirst, BufferPending, ConsumerEnd, BufferItem
<1> QED BY <1>1, <1>2, <1>3, <1>4, <1>5, <1>6, <1>7 DEF Request

LEMMA HandlersSpeak ==
  ASSUME EgressInv, EgressInv', Handlers \/ EgressShutdown
  PROVE  [SpeechPromise!Next]_(SpeechPromise!vars)
<1> USE DEF vars, actorVars, pendingVars, streamVars, workerVars, historyVars
<1>1. UNCHANGED <<received, streams, worker, done>> /\ dropped \subseteq dropped'
  <2>1. CASE Handlers
    BY <2>1 DEF Handlers, InterruptFinds, InterruptClears, InterruptStops, SessionRemoves,
                SessionStops, DeletePending
  <2>2. CASE EgressShutdown
    BY <2>2 DEF EgressShutdown, EgressShutdownStart, EgressCloseStreams, EgressShutdownPending,
                EgressShutdownTimeout, ShutdownStart, CloseAllStreams, ShutdownPending, DeletePending
  <2> QED BY <2>1, <2>2
<1>2. SilentStreams' = SilentStreams
  BY <1>1 DEF SilentStreams
<1> QED BY <1>1, <1>2, LosingSpeaks

\* Text to speech implements Delivery, without its order: however often its
\* stream is interrupted, rebuffered or removed, a request is spoken once at
\* most, by a stream that has not ended, or given up for good.
THEOREM RequestsAreSpokenOnce == EgressSpec => SpeaksOnce
<1>1. EgressInit => SpeechPromise!Init
  BY DEF EgressInit, Init, SpeechPromise!Init, SilentStreams, SpeechPromise!Streams, Streams,
         SpeechPromise!Items, Segments
<1>2. EgressInv /\ EgressInv' /\ [EgressNext]_evars => [SpeechPromise!Next]_(SpeechPromise!vars)
  <2> SUFFICES ASSUME EgressInv, EgressInv', [EgressNext]_evars
               PROVE  [SpeechPromise!Next]_(SpeechPromise!vars)
    OBVIOUS
  <2>1. CASE UNCHANGED evars
    <3>1. UNCHANGED <<received, streams, worker, done, dropped>>
      BY <2>1 DEF evars, vars, actorVars, streamVars, workerVars, historyVars
    <3> QED BY <3>1, LosingSpeaks DEF SilentStreams
  <2>2. CASE EgressNext
    BY <2>2, RequestSpeaks, HandlersSpeak, SpeakerSpeaks DEF EgressNext
  <2> QED BY <2>1, <2>2
<1> QED BY <1>1, <1>2, EgressInitial, EgressStep, PTL DEF EgressSpec, SpeaksOnce, SpeechPromise!Spec
=============================================================================
