--------------------------- MODULE PipelineProofs ---------------------------
(***************************************************************************)
(* Proofs about the content pipeline, for any number of chunks, buffers    *)
(* and timers. CreateInv pays for each new buffer with a clearing;         *)
(* ContentInv says what a buffer holds and ends with, and PlacesApart that *)
(* a chunk has one place at a time; CalmInv and FreshTimers say why the    *)
(* party that stops a timer is itself responsible for the output the timer *)
(* would have flushed.                                                     *)
(***************************************************************************)
EXTENDS ContentPipeline, FiniteSetTheorems, SequenceTheorems, TLAPS

-----------------------------------------------------------------------------
(* The content pipeline: who holds which output, and who will flush it.    *)

PipePlaces == {"off", "pending", "generation", "recv", "write", "detect", "store", "settool",
               "cancel", "flush", "idle", "publish", "end"}
\* Where an actor works on a buffer.
AtBuffer == {"pending", "generation", "write", "detect", "store", "cancel", "flush"}

ActorTypes ==
    /\ pc \in [Actors -> PipePlaces] /\ held \in [Actors -> Buffers \cup {0}]
    /\ received \in 0..MaxChunks /\ slot \in 0..MaxChunks

ContentTypes ==
    /\ data \in [Buffers -> Seq(Chunks)] /\ (\A b \in Buffers : Len(data[b]) <= MaxSize)
    /\ gen \in [Buffers -> 0..MaxChunks] /\ over \in [Buffers -> BOOLEAN]
    /\ start \in [Buffers -> 0..MaxChunks]
    /\ hand \in [Actors -> Seq(CleanedMessage)] /\ published \in Seq(CleanedMessage)

ControlTypes ==
    /\ current \in Buffers \cup {0} /\ created \in Buffers \cup {0}
    /\ idle \in BOOLEAN /\ tools \in 0..MaxTools /\ tool \in BOOLEAN
    /\ pending \subseteq Lifecycle /\ cleaner \in {"recv", "timer", "buffer", "end"}
    /\ stopped \in BOOLEAN /\ shutdown \in {"no", "timers", "buffers", "wait", "end"}

LEMMA PipeTypesSplit == TypeOK <=> ActorTypes /\ ContentTypes /\ ControlTypes
    BY DEF TypeOK, ActorTypes, ContentTypes, ControlTypes, PipePlaces

LEMMA ActorFacts ==
    /\ MaxChunks \in Nat /\ MaxSize \in Nat /\ MaxSize > 0 /\ MaxTools \in Nat
    /\ OutputC \in Actors /\ ToolC \in Actors /\ OutputC # ToolC
    /\ OutputC \notin Chunks /\ ToolC \notin Chunks /\ Chunks \subseteq Actors
    /\ \A c \in Chunks : c \in 1..MaxChunks
    BY ChunkAssumption, ToolAssumption DEF OutputC, ToolC, Chunks, Actors, Workers

LEMMA BufferFacts ==
    /\ IsFiniteSet(Lifecycle) /\ Cardinality(Lifecycle) \in Nat
    /\ Buffers = 1..(2 + Cardinality(Lifecycle)) /\ 0 \notin Buffers
    /\ \A b \in Buffers : b \in Nat
<1>1. IsFiniteSet({"created"}) /\ {"created", "stopped"} = {"created"} \cup {"stopped"}
    BY FS_Singleton
<1>2. IsFiniteSet({"created", "stopped"})
    BY <1>1, FS_AddElement
<1>3. IsFiniteSet(Lifecycle)
    BY <1>2, FS_Subset, LifecycleAssumption
<1>4. Cardinality(Lifecycle) \in Nat
    BY <1>3, FS_CardinalityType
<1>. QED BY <1>3, <1>4 DEF Buffers

\* Stopping the session's timer ends that timer, if it has not fired, and nothing else.
LEMMA SlotStops ==
    ASSUME ActorTypes, NEW then \in [Actors -> PipePlaces]
    PROVE  /\ StopSlot(then) \in [Actors -> PipePlaces]
           /\ \A a \in Actors :
                  \/ StopSlot(then)[a] = then[a]
                  \/ StopSlot(then)[a] = "end" /\ a = slot /\ a \in Chunks /\ pc[a] = "pending"
<1>1. slot # 0 => slot \in Chunks /\ slot \in Actors
    BY ActorFacts DEF ActorTypes, Chunks
<1>. QED BY <1>1 DEF StopSlot, PipePlaces

LEMMA GotoMoves ==
    ASSUME ActorTypes, NEW a \in Actors, NEW p \in PipePlaces
    PROVE  /\ [pc EXCEPT ![a] = p] \in [Actors -> PipePlaces]
           /\ [pc EXCEPT ![a] = p][a] = p
           /\ \A c \in Actors : c # a => [pc EXCEPT ![a] = p][c] = pc[c]
    BY DEF ActorTypes

\* Whoever works on a buffer has one that has been made.
HeldInv ==
    /\ \A a \in Actors : pc[a] \in AtBuffer => held[a] \in Buffers
    /\ \A a \in Actors : held[a] <= created
    /\ current <= created

\* The buffers made so far: one for the beginning and one for each clearing.
Spent ==
    created + (IF current = 0 THEN 1 ELSE 0) + (IF cleaner \in {"timer", "buffer"} THEN 1 ELSE 0)
Granted ==
    1 + Cardinality(Lifecycle \ pending) + (IF shutdown \in {"wait", "end"} THEN 1 ELSE 0)
CreateInv == Spent <= Granted

\* A timer not yet set is off, and the buffer's generation is the chunk just written.
FreshTimers ==
    /\ \A c \in Chunks : c > received => pc[c] = "off"
    /\ pc[OutputC] \in {"write", "detect"} => received \in Chunks /\ pc[received] = "off"
    /\ pc[OutputC] = "detect" => gen[held[OutputC]] = received

PipeTypeInv == ActorTypes /\ ContentTypes /\ ControlTypes /\ HeldInv /\ CreateInv

LEMMA HeldKept ==
    ASSUME ActorTypes, ControlTypes, HeldInv, held' = held, created' = created, current' \in {0, current},
           \A a \in Actors : pc'[a] \in AtBuffer => pc[a] \in AtBuffer
    PROVE  HeldInv'
<1>1. created \in Nat /\ current \in Nat
    BY BufferFacts DEF ControlTypes
<1>. QED BY <1>1 DEF HeldInv

\* What a step of the control leaves alone.
LEMMA ContentKept ==
    ASSUME ContentTypes, UNCHANGED <<data, gen, over, start, hand, published>>
    PROVE  ContentTypes'
    BY DEF ContentTypes

LEMMA ControlKept ==
    ASSUME ControlTypes, CreateInv,
           UNCHANGED <<current, created, tools, tool, pending, cleaner, stopped, shutdown>>,
           idle' \in BOOLEAN
    PROVE  ControlTypes' /\ CreateInv'
    BY DEF ControlTypes, CreateInv, Spent, Granted

LEMMA FlushTypes ==
    ASSUME PipeTypeInv, NEW a \in Actors, Flush(a)
    PROVE  PipeTypeInv'
<1> USE DEF PipeTypeInv, bufVars, serviceVars
<1>1. CASE FlushCancel(a)
  <2>1. [pc EXCEPT ![a] = "flush"] \in [Actors -> PipePlaces]
    BY GotoMoves DEF PipePlaces
  <2>2. /\ pc' \in [Actors -> PipePlaces]
        /\ \A c \in Actors : pc'[c] \in AtBuffer => pc[c] \in AtBuffer
    <3> DEFINE then == [pc EXCEPT ![a] = "flush"]
    <3>1. pc' = StopSlot(then) /\ pc[a] = "cancel"
      BY <1>1 DEF FlushCancel
    <3>2. then[a] = "flush" /\ \A c \in Actors : c # a => then[c] = pc[c]
      BY GotoMoves DEF PipePlaces
    <3>3. then \in [Actors -> PipePlaces]
      BY <2>1
    <3> HIDE DEF then
    <3>. QED BY <3>1, <3>2, <3>3, SlotStops DEF AtBuffer
  <2>3. ActorTypes'
    <3>1. slot' = 0 /\ held' = held /\ received' = received
      BY <1>1 DEF FlushCancel
    <3>. QED BY <2>2, <3>1, ActorFacts DEF ActorTypes
  <2>4. HeldInv'
    BY <1>1, <2>2, HeldKept DEF FlushCancel
  <2>. QED BY <1>1, <2>3, <2>4, ContentKept, ControlKept DEF FlushCancel, ControlTypes
<1>2. CASE FlushTake(a)
  <2>1. \E p \in {"idle", "publish"} : pc' = [pc EXCEPT ![a] = p]
    BY <1>2 DEF FlushTake, Goto
  <2>2. /\ pc' \in [Actors -> PipePlaces]
        /\ \A c \in Actors : pc'[c] \in AtBuffer => pc[c] \in AtBuffer
    BY <2>1, GotoMoves DEF AtBuffer, PipePlaces
  <2>3. ActorTypes' /\ HeldInv'
    BY <1>2, <2>2, HeldKept DEF FlushTake, ActorTypes
  <2>4. held[a] \in Buffers
    BY <1>2 DEF FlushTake, HeldInv, AtBuffer
  <2>5. /\ data' = [data EXCEPT ![held[a]] = <<>>] /\ over' = [over EXCEPT ![held[a]] = FALSE]
        /\ start' = [start EXCEPT ![held[a]] = 0]
        /\ UNCHANGED <<gen, published>>
    BY <1>2 DEF FlushTake
  <2>6. data' \in [Buffers -> Seq(Chunks)] /\ \A b \in Buffers : Len(data'[b]) <= MaxSize
    BY <2>4, <2>5, ActorFacts DEF ContentTypes
  <2>7. over' \in [Buffers -> BOOLEAN] /\ start' \in [Buffers -> 0..MaxChunks]
    BY <2>4, <2>5, ActorFacts DEF ContentTypes
  <2>8. [chunks |-> data[held[a]], start |-> start[held[a]], truncated |-> over[held[a]]] \in CleanedMessage
    BY <2>4 DEF ContentTypes, CleanedMessage
  <2>9. hand' \in [Actors -> Seq(CleanedMessage)]
    <3> DEFINE m == [chunks |-> data[held[a]], start |-> start[held[a]], truncated |-> over[held[a]]]
    <3>1. hand' = [hand EXCEPT ![a] = <<>>] \/ hand' = [hand EXCEPT ![a] = <<m>>]
      BY <1>2 DEF FlushTake
    <3>2. m \in CleanedMessage
      BY <2>8
    <3> HIDE DEF m
    <3>3. <<>> \in Seq(CleanedMessage) /\ <<m>> \in Seq(CleanedMessage)
      BY <3>2
    <3>. QED BY <3>1, <3>3 DEF ContentTypes
  <2>10. ContentTypes'
    BY <2>5, <2>6, <2>7, <2>9 DEF ContentTypes
  <2>. QED BY <1>2, <2>3, <2>10, ControlKept DEF FlushTake, ControlTypes
<1>3. CASE FlushPublish(a)
  <2>1. \E p \in {"recv", "settool", "end"} : pc' = [pc EXCEPT ![a] = p]
    <3> DEFINE p == CASE a = OutputC -> "recv" [] a = ToolC -> "settool" [] OTHER -> "end"
    <3>1. pc' = [pc EXCEPT ![a] = p]
      BY <1>3 DEF FlushPublish, Goto
    <3>2. p \in {"recv", "settool", "end"}
      BY ActorFacts
    <3>. QED BY <3>1, <3>2
  <2>2. /\ pc' \in [Actors -> PipePlaces]
        /\ \A c \in Actors : pc'[c] \in AtBuffer => pc[c] \in AtBuffer /\ c # a
    BY <2>1, GotoMoves DEF AtBuffer, PipePlaces
  <2>3. /\ held' \in [Actors -> Buffers \cup {0}]
        /\ held'[a] = 0 /\ \A c \in Actors : c # a => held'[c] = held[c]
    BY <1>3 DEF FlushPublish, ActorTypes
  <2>4. ActorTypes'
    BY <1>3, <2>2, <2>3 DEF FlushPublish, ActorTypes
  <2>5. HeldInv'
    <3>1. created \in Nat /\ created' = created /\ current' = current
      BY <1>3, BufferFacts DEF FlushPublish, ControlTypes
    <3>. QED BY <2>2, <2>3, <3>1 DEF HeldInv
  <2>6. hand[a] \in Seq(CleanedMessage) /\ published \in Seq(CleanedMessage)
    BY DEF ContentTypes
  <2>7. published' \in Seq(CleanedMessage)
    BY <1>3, <2>6 DEF FlushPublish
  <2>8. hand' \in [Actors -> Seq(CleanedMessage)]
    BY <1>3 DEF FlushPublish, ContentTypes
  <2>9. ContentTypes'
    BY <1>3, <2>7, <2>8 DEF FlushPublish, ContentTypes
  <2>10. idle' \in BOOLEAN
    BY <1>3 DEF FlushPublish, ControlTypes
  <2>. QED BY <1>3, <2>4, <2>5, <2>9, <2>10, ControlKept DEF FlushPublish
<1>. QED BY <1>1, <1>2, <1>3 DEF Flush

\* A new buffer is within the bound, since each clearing is paid for.
LEMMA BufferLeft ==
    ASSUME ControlTypes, CreateInv, current = 0
    PROVE  created + 1 \in Buffers
<1>1. IsFiniteSet(Lifecycle) /\ Lifecycle \ pending \subseteq Lifecycle
    BY BufferFacts
<1>2. /\ Cardinality(Lifecycle \ pending) \in Nat
      /\ Cardinality(Lifecycle \ pending) <= Cardinality(Lifecycle)
    BY <1>1, FS_Subset, FS_CardinalityType
<1>3. created \in Nat
    BY BufferFacts DEF ControlTypes
<1>4. created + 1 <= Spent
    BY <1>3 DEF Spent
<1>5. Granted <= 2 + Cardinality(Lifecycle)
    BY <1>2, BufferFacts DEF Granted
<1>6. Spent \in Nat /\ Granted \in Nat
    BY <1>2, <1>3 DEF Spent, Granted
<1>. QED BY <1>3, <1>4, <1>5, <1>6, BufferFacts DEF CreateInv

LEMMA OutputTypes ==
    ASSUME PipeTypeInv, FreshTimers, Output
    PROVE  PipeTypeInv'
<1> USE DEF PipeTypeInv, bufVars, serviceVars
<1>0. MaxChunks \in Nat /\ OutputC \in Actors /\ created \in Nat /\ current \in Nat
    BY ActorFacts, BufferFacts DEF ControlTypes
<1>1. CASE OutputRecv
  <2>1. /\ pc' = [pc EXCEPT ![OutputC] = "write"] /\ pc[OutputC] = "recv"
        /\ held' = [held EXCEPT ![OutputC] = current']
        /\ received' = received + 1 /\ received < MaxChunks /\ slot' = slot
    BY <1>1 DEF OutputRecv, Goto
  <2>2. /\ UNCHANGED <<data, gen, over, start, hand, published>>
        /\ UNCHANGED <<tools, tool, pending, cleaner, stopped, shutdown, idle>>
    BY <1>1 DEF OutputRecv
  <2>3. /\ current' \in Buffers /\ created' \in Buffers /\ created <= created' /\ current' <= created'
        /\ created' \in Nat /\ current' \in Nat
        /\ created' + (IF current' = 0 THEN 1 ELSE 0) = created + (IF current = 0 THEN 1 ELSE 0)
    <3>1. CASE current = 0
      <4>1. created' = created + 1 /\ current' = created + 1
        BY <1>1, <3>1 DEF OutputRecv
      <4>. QED BY <1>0, <3>1, <4>1, BufferLeft
    <3>2. CASE current # 0
      <4>1. created' = created /\ current' = current
        BY <1>1, <3>2 DEF OutputRecv
      <4>2. current \in Buffers /\ created # 0
        BY <1>0, <3>2 DEF ControlTypes, HeldInv
      <4>. QED BY <1>0, <3>2, <4>1, <4>2 DEF ControlTypes, HeldInv
    <3>. QED BY <3>1, <3>2
  <2>4. /\ pc' \in [Actors -> PipePlaces] /\ pc'[OutputC] = "write"
        /\ \A c \in Actors : c # OutputC => pc'[c] = pc[c]
    BY <1>0, <2>1, GotoMoves DEF PipePlaces
  <2>5. /\ held' \in [Actors -> Buffers \cup {0}] /\ held'[OutputC] = current'
        /\ \A c \in Actors : c # OutputC => held'[c] = held[c]
    BY <1>0, <2>1, <2>3 DEF ActorTypes
  <2>6. ActorTypes'
    <3>1. received' \in 0..MaxChunks
      BY <1>0, <2>1 DEF ActorTypes
    <3>. QED BY <2>1, <2>4, <2>5, <3>1 DEF ActorTypes
  <2>7. HeldInv'
    <3>1. \A c \in Actors : held[c] \in Nat
      BY BufferFacts DEF ActorTypes
    <3>2. ASSUME NEW c \in Actors
          PROVE  held'[c] <= created' /\ (pc'[c] \in AtBuffer => held'[c] \in Buffers)
      <4>1. CASE c = OutputC
        BY <2>3, <2>5, <4>1
      <4>2. CASE c # OutputC
        BY <1>0, <2>3, <2>4, <2>5, <3>1, <4>2 DEF HeldInv
      <4>. QED BY <4>1, <4>2
    <3>. QED BY <2>3, <3>2 DEF HeldInv
  <2>8. ControlTypes'
    BY <2>2, <2>3 DEF ControlTypes
  <2>9. CreateInv'
    <3>1. Spent' = Spent /\ Granted' = Granted
      BY <1>0, <2>2, <2>3 DEF Spent, Granted
    <3>. QED BY <3>1 DEF CreateInv
  <2>. QED BY <2>2, <2>6, <2>7, <2>8, <2>9, ContentKept
<1>2. CASE OutputWrite
  <2> DEFINE b == held[OutputC]
             new == Append(data[b], received)
  <2>1. /\ pc' = [pc EXCEPT ![OutputC] = "detect"] /\ pc[OutputC] = "write"
        /\ UNCHANGED <<received, slot, held, hand, published, current, created>>
        /\ UNCHANGED <<tools, tool, pending, cleaner, stopped, shutdown, idle>>
    BY <1>2 DEF OutputWrite, Goto
  <2>2. /\ pc' \in [Actors -> PipePlaces]
        /\ \A c \in Actors : pc'[c] \in AtBuffer => pc[c] \in AtBuffer
    BY <1>0, <2>1, GotoMoves DEF AtBuffer, PipePlaces
  <2>3. ActorTypes' /\ HeldInv'
    BY <2>1, <2>2, HeldKept DEF ActorTypes
  <2>4. b \in Buffers /\ received \in 0..MaxChunks
    BY <1>0, <2>1 DEF HeldInv, AtBuffer, ActorTypes
  <2>5. received \in Chunks
    BY <2>1 DEF FreshTimers
  <2>6. /\ new \in Seq(Chunks) /\ Len(new) <= MaxSize + 1 /\ Len(new) > 0
        /\ Tail(new) \in Seq(Chunks) /\ Len(Tail(new)) = Len(new) - 1 /\ Len(new) \in Nat
    <3>1. data[b] \in Seq(Chunks) /\ Len(data[b]) <= MaxSize
      BY <2>4 DEF ContentTypes
    <3> HIDE DEF b
    <3>2. new \in Seq(Chunks) /\ Len(new) = Len(data[b]) + 1 /\ Len(data[b]) \in Nat
      BY <2>5, <3>1
    <3>3. new # <<>> /\ Len(new) <= MaxSize + 1
      BY <3>1, <3>2, ActorFacts
    <3> HIDE DEF new
    <3>. QED BY <3>2, <3>3
  <2>7. /\ data' = [data EXCEPT ![b] = IF Len(new) > MaxSize THEN Tail(new) ELSE new]
        /\ over' = [over EXCEPT ![b] = @ \/ Len(new) > MaxSize]
        /\ gen' = [gen EXCEPT ![b] = received]
        /\ start' = [start EXCEPT ![b] = IF data[b] = <<>> THEN received ELSE @]
    BY <1>2 DEF OutputWrite
  <2> HIDE DEF new
  <2>8. data' \in [Buffers -> Seq(Chunks)] /\ \A d \in Buffers : Len(data'[d]) <= MaxSize
    <3> DEFINE s == IF Len(new) > MaxSize THEN Tail(new) ELSE new
    <3>1. s \in Seq(Chunks) /\ Len(s) <= MaxSize
      BY <2>6, ActorFacts
    <3>2. data' = [data EXCEPT ![b] = s]
      BY <2>7
    <3> HIDE DEF s, b
    <3>. QED BY <2>4, <3>1, <3>2 DEF ContentTypes
  <2>9. over' \in [Buffers -> BOOLEAN]
    BY <2>7 DEF ContentTypes
  <2>10. gen' \in [Buffers -> 0..MaxChunks] /\ start' \in [Buffers -> 0..MaxChunks]
    BY <2>4, <2>7 DEF ContentTypes
  <2>11. ContentTypes'
    BY <2>1, <2>8, <2>9, <2>10 DEF ContentTypes
  <2>. QED BY <2>1, <2>3, <2>11, ControlKept DEF ControlTypes
<1>3. CASE OutputDetect
  <2>1. /\ pc' \in [Actors -> PipePlaces]
        /\ \A c \in Actors : pc'[c] \in AtBuffer => pc[c] \in AtBuffer
    BY <1>0, <1>3, GotoMoves DEF OutputDetect, Goto, AtBuffer, PipePlaces
  <2>2. ActorTypes' /\ HeldInv'
    BY <1>3, <2>1, HeldKept DEF OutputDetect, ActorTypes
  <2>. QED BY <1>3, <2>2, ContentKept, ControlKept DEF OutputDetect, ControlTypes
<1>4. CASE OutputReset
  <2> DEFINE then == [pc EXCEPT ![OutputC] = "store", ![received] = "pending"]
  <2>1. /\ pc' = StopSlot(then) /\ pc[OutputC] = "detect"
        /\ held' = [held EXCEPT ![received] = held[OutputC]]
        /\ UNCHANGED <<received, slot, current, created, data, gen, over, start, hand, published>>
        /\ UNCHANGED <<tools, tool, pending, cleaner, stopped, shutdown, idle>>
    BY <1>4 DEF OutputReset
  <2>2. received \in Chunks /\ received \in Actors /\ received # OutputC
    BY <2>1, ActorFacts DEF FreshTimers
  <2>3. /\ then \in [Actors -> PipePlaces]
        /\ \A c \in Actors : c \notin {OutputC, received} => then[c] = pc[c]
    BY <1>0, <2>2 DEF ActorTypes, PipePlaces
  <2>4. held[OutputC] \in Buffers
    BY <1>0, <2>1 DEF HeldInv, AtBuffer
  <2>5. /\ held' \in [Actors -> Buffers \cup {0}] /\ held'[received] = held[OutputC]
        /\ \A c \in Actors : c # received => held'[c] = held[c]
    BY <2>1, <2>2, <2>4 DEF ActorTypes
  <2> HIDE DEF then
  <2>6. /\ pc' \in [Actors -> PipePlaces]
        /\ \A c \in Actors : c \notin {OutputC, received} /\ pc'[c] \in AtBuffer => pc[c] \in AtBuffer
    BY <2>1, <2>3, SlotStops DEF AtBuffer
  <2>7. ActorTypes'
    BY <2>1, <2>5, <2>6 DEF ActorTypes
  <2>8. HeldInv'
    BY <1>0, <2>1, <2>4, <2>5, <2>6 DEF HeldInv
  <2>. QED BY <2>1, <2>7, <2>8, ContentKept, ControlKept DEF ControlTypes
<1>5. CASE OutputStore
  <2>1. /\ pc' = [pc EXCEPT ![OutputC] = "recv"] /\ held' = [held EXCEPT ![OutputC] = 0]
        /\ slot' = received
        /\ UNCHANGED <<received, current, created, data, gen, over, start, hand, published>>
        /\ UNCHANGED <<tools, tool, pending, cleaner, stopped, shutdown, idle>>
    BY <1>5 DEF OutputStore, Goto
  <2>2. /\ pc' \in [Actors -> PipePlaces] /\ pc'[OutputC] = "recv"
        /\ \A c \in Actors : c # OutputC => pc'[c] = pc[c]
    BY <1>0, <2>1, GotoMoves DEF PipePlaces
  <2>3. /\ held' \in [Actors -> Buffers \cup {0}] /\ held'[OutputC] = 0
        /\ \A c \in Actors : c # OutputC => held'[c] = held[c]
    BY <1>0, <2>1 DEF ActorTypes
  <2>4. ActorTypes'
    BY <2>1, <2>2, <2>3 DEF ActorTypes
  <2>5. HeldInv'
    BY <1>0, <2>1, <2>2, <2>3 DEF HeldInv, AtBuffer
  <2>. QED BY <2>1, <2>4, <2>5, ContentKept, ControlKept DEF ControlTypes
<1>. QED BY <1>1, <1>2, <1>3, <1>4, <1>5 DEF Output

LEMMA TimerToolTypes ==
    ASSUME PipeTypeInv, Tool \/ \E c \in Chunks : Timer(c)
    PROVE  PipeTypeInv'
<1> USE DEF PipeTypeInv, bufVars, serviceVars
<1>0. OutputC \in Actors /\ ToolC \in Actors /\ created \in Nat /\ current \in Nat
    BY ActorFacts, BufferFacts DEF ControlTypes
<1>1. ASSUME NEW c \in Chunks, Timer(c)
      PROVE  PipeTypeInv'
  <2>1. /\ \E p \in {"generation", "cancel", "end"} : pc' = [pc EXCEPT ![c] = p]
        /\ pc[c] \in {"pending", "generation"}
        /\ UNCHANGED <<bufVars, slot, held, hand, serviceVars, idle, published>>
    BY <1>1 DEF Timer, TimerFire, TimerGeneration, Goto
  <2>2. c \in Actors
    BY ActorFacts
  <2>3. /\ pc' \in [Actors -> PipePlaces]
        /\ \A d \in Actors : pc'[d] \in AtBuffer => pc[d] \in AtBuffer
    BY <2>1, <2>2, GotoMoves DEF AtBuffer, PipePlaces
  <2>4. ActorTypes' /\ HeldInv'
    BY <2>1, <2>3, HeldKept DEF ActorTypes
  <2>. QED BY <2>1, <2>4, ContentKept, ControlKept DEF ControlTypes
<1>2. CASE ToolRecv
  <2>1. /\ tools' \in 0..MaxTools /\ idle' \in BOOLEAN
        /\ UNCHANGED <<slot, received, current, created, tool, pending, cleaner, stopped, shutdown>>
        /\ UNCHANGED <<data, gen, over, start, hand, published>>
    <3>1. tools' = tools + 1 /\ tools < MaxTools /\ tools \in 0..MaxTools
      BY <1>2 DEF ToolRecv, ControlTypes
    <3>2. tools' \in 0..MaxTools
      BY <3>1, ActorFacts
    <3>3. idle' = idle \/ idle' = (~tool /\ idle)
      BY <1>2 DEF ToolRecv
    <3>. QED BY <1>2, <3>2, <3>3 DEF ToolRecv, ControlTypes
  <2>2. \/ /\ current # 0 /\ held' = [held EXCEPT ![ToolC] = current]
           /\ pc' = [pc EXCEPT ![ToolC] = "cancel"]
        \/ held' = held /\ pc' = [pc EXCEPT ![ToolC] = "settool"]
    BY <1>2 DEF ToolRecv, Goto
  <2>3. CASE held' = held /\ pc' = [pc EXCEPT ![ToolC] = "settool"]
    <3>1. /\ pc' \in [Actors -> PipePlaces]
          /\ \A d \in Actors : pc'[d] \in AtBuffer => pc[d] \in AtBuffer
      BY <1>0, <2>3, GotoMoves DEF AtBuffer, PipePlaces
    <3>2. ActorTypes' /\ HeldInv'
      BY <2>1, <2>3, <3>1, HeldKept DEF ActorTypes
    <3>3. ControlTypes' /\ CreateInv'
      BY <2>1 DEF ControlTypes, CreateInv, Spent, Granted
    <3>. QED BY <2>1, <3>2, <3>3, ContentKept
  <2>4. CASE /\ current # 0 /\ held' = [held EXCEPT ![ToolC] = current]
             /\ pc' = [pc EXCEPT ![ToolC] = "cancel"]
    <3>1. /\ pc' \in [Actors -> PipePlaces] /\ pc'[ToolC] = "cancel"
          /\ \A d \in Actors : d # ToolC => pc'[d] = pc[d]
      BY <1>0, <2>4, GotoMoves DEF PipePlaces
    <3>2. /\ held' \in [Actors -> Buffers \cup {0}] /\ held'[ToolC] = current
          /\ \A d \in Actors : d # ToolC => held'[d] = held[d]
      BY <1>0, <2>4 DEF ActorTypes, ControlTypes
    <3>3. ActorTypes'
      BY <2>1, <3>1, <3>2 DEF ActorTypes
    <3>4. HeldInv'
      <4>1. current \in Buffers /\ created' = created /\ current' = current
        BY <2>1, <2>4 DEF ControlTypes
      <4>. QED BY <3>1, <3>2, <4>1 DEF HeldInv
    <3>5. ControlTypes' /\ CreateInv'
      BY <2>1 DEF ControlTypes, CreateInv, Spent, Granted
    <3>. QED BY <2>1, <3>3, <3>4, <3>5, ContentKept
  <2>. QED BY <2>2, <2>3, <2>4
<1>3. CASE ToolSet
  <2>1. /\ pc' = [pc EXCEPT ![ToolC] = "recv"] /\ tool' = TRUE
        /\ UNCHANGED <<slot, held, received, current, created, tools, pending, cleaner, stopped>>
        /\ UNCHANGED <<shutdown, idle>>
        /\ UNCHANGED <<data, gen, over, start, hand, published>>
    BY <1>3 DEF ToolSet, Goto
  <2>2. /\ pc' \in [Actors -> PipePlaces]
        /\ \A d \in Actors : pc'[d] \in AtBuffer => pc[d] \in AtBuffer
    BY <1>0, <2>1, GotoMoves DEF AtBuffer, PipePlaces
  <2>3. ActorTypes' /\ HeldInv'
    BY <2>1, <2>2, HeldKept DEF ActorTypes
  <2>4. ControlTypes' /\ CreateInv'
    BY <2>1 DEF ControlTypes, CreateInv, Spent, Granted
  <2>. QED BY <2>1, <2>3, <2>4, ContentKept
<1>. QED BY <1>1, <1>2, <1>3 DEF Tool

\* Whoever clears the session's timer stops at most that one.
LEMMA TimerCleared ==
    ASSUME ActorTypes, pc' = StopSlot(pc)
    PROVE  /\ pc' \in [Actors -> PipePlaces]
           /\ \A a \in Actors : pc'[a] \in AtBuffer => pc[a] = pc'[a]
    BY SlotStops DEF ActorTypes, AtBuffer

LEMMA CleanTypes ==
    ASSUME PipeTypeInv, Clean
    PROVE  PipeTypeInv'
<1> USE DEF PipeTypeInv, bufVars, flushVars
<1>0. created \in Nat /\ current \in Nat
    BY BufferFacts DEF ControlTypes
<1>1. ASSUME NEW e \in Lifecycle, CleanRecv(e)
      PROVE  PipeTypeInv'
  <2>1. /\ UNCHANGED <<pc, held, received, slot, created, current, tools, stopped, shutdown, idle>>
        /\ UNCHANGED <<data, gen, over, start, hand, published>>
        /\ cleaner = "recv" /\ cleaner' = "timer" /\ tool' = FALSE
        /\ e \in pending /\ pending' = pending \ {e}
    BY <1>1 DEF CleanRecv
  <2>2. ActorTypes' /\ HeldInv' /\ ControlTypes'
    BY <2>1 DEF ActorTypes, HeldInv, ControlTypes
  <2>3. CreateInv'
    <3>1. /\ Lifecycle \ pending' = (Lifecycle \ pending) \cup {e} /\ e \notin Lifecycle \ pending
          /\ Lifecycle \ pending \subseteq Lifecycle
      BY <2>1 DEF ControlTypes
    <3>2. IsFiniteSet(Lifecycle \ pending)
      BY <3>1, BufferFacts, FS_Subset
    <3>3. /\ Cardinality(Lifecycle \ pending') = Cardinality(Lifecycle \ pending) + 1
          /\ Cardinality(Lifecycle \ pending) \in Nat
      BY <3>1, <3>2, FS_AddElement, FS_CardinalityType
    <3>4. Spent' = Spent + 1 /\ Granted' = Granted + 1
      BY <1>0, <2>1, <3>3 DEF Spent, Granted
    <3>5. Spent \in Nat /\ Granted \in Nat
      BY <1>0, <3>3 DEF Spent, Granted
    <3>. QED BY <3>4, <3>5 DEF CreateInv
  <2>. QED BY <2>1, <2>2, <2>3, ContentKept
<1>2. CASE CleanTimer
  <2>1. /\ pc' = StopSlot(pc) /\ slot' = 0
        /\ UNCHANGED <<held, received, created, current, tools, tool, pending, stopped, shutdown, idle>>
        /\ UNCHANGED <<data, gen, over, start, hand, published>>
        /\ cleaner = "timer" /\ cleaner' = "buffer"
    BY <1>2 DEF CleanTimer
  <2>2. ActorTypes' /\ HeldInv'
    BY <2>1, TimerCleared, HeldKept, ActorFacts DEF ActorTypes
  <2>3. ControlTypes'
    BY <2>1 DEF ControlTypes
  <2>4. CreateInv'
    BY <2>1 DEF CreateInv, Spent, Granted
  <2>. QED BY <2>1, <2>2, <2>3, <2>4, ContentKept
<1>3. CASE CleanState
  <2>1. /\ UNCHANGED <<pc, held, received, slot, created, tools, tool, pending, stopped, shutdown>>
        /\ UNCHANGED <<data, gen, over, start, hand, published>>
        /\ cleaner = "buffer" /\ cleaner' = "recv" /\ current' = 0 /\ idle' = FALSE
    BY <1>3 DEF CleanState
  <2>2. ActorTypes' /\ ControlTypes'
    BY <2>1 DEF ActorTypes, ControlTypes
  <2>3. HeldInv'
    BY <1>0, <2>1 DEF HeldInv
  <2>4. CreateInv'
    <3>1. Granted' = Granted /\ Spent' <= Spent
      BY <1>0, <2>1 DEF Spent, Granted
    <3>2. Spent \in Nat /\ Spent' \in Nat /\ Granted \in Nat
      <4>1. Cardinality(Lifecycle \ pending) \in Nat
        BY BufferFacts, FS_Subset, FS_CardinalityType
      <4>. QED BY <1>0, <2>1, <4>1 DEF Spent, Granted
    <3>. QED BY <3>1, <3>2 DEF CreateInv
  <2>. QED BY <2>1, <2>2, <2>3, <2>4, ContentKept
<1>. QED BY <1>1, <1>2, <1>3 DEF Clean

LEMMA CloseTypes ==
    ASSUME PipeTypeInv, ClosingDown
    PROVE  PipeTypeInv'
<1> USE DEF PipeTypeInv, bufVars, flushVars, serviceVars
<1>0. created \in Nat /\ current \in Nat /\ OutputC \in Actors /\ ToolC \in Actors
    BY BufferFacts, ActorFacts DEF ControlTypes
<1>1. CASE ShutdownStart \/ ShutdownWait
  <2>1. /\ UNCHANGED <<pc, held, received, slot, created, current, tools, tool, pending, cleaner, idle>>
        /\ UNCHANGED <<data, gen, over, start, hand, published>>
        /\ stopped' \in {stopped, TRUE}
        /\ \/ shutdown = "no" /\ shutdown' = "timers"
           \/ shutdown = "wait" /\ shutdown' = "end"
    BY <1>1 DEF ShutdownStart, ShutdownWait
  <2>2. ActorTypes' /\ HeldInv' /\ ControlTypes'
    BY <2>1 DEF ActorTypes, HeldInv, ControlTypes
  <2>3. CreateInv'
    BY <2>1 DEF CreateInv, Spent, Granted
  <2>. QED BY <2>1, <2>2, <2>3, ContentKept
<1>2. CASE ShutdownTimers
  <2>1. /\ pc' = StopSlot(pc) /\ slot' = 0
        /\ UNCHANGED <<held, received, created, current, tools, tool, pending, cleaner, stopped, idle>>
        /\ UNCHANGED <<data, gen, over, start, hand, published>>
        /\ shutdown = "timers" /\ shutdown' = "buffers"
    BY <1>2 DEF ShutdownTimers
  <2>2. ActorTypes' /\ HeldInv'
    BY <2>1, TimerCleared, HeldKept, ActorFacts DEF ActorTypes
  <2>3. ControlTypes'
    BY <2>1 DEF ControlTypes
  <2>4. CreateInv'
    BY <2>1 DEF CreateInv, Spent, Granted
  <2>. QED BY <2>1, <2>2, <2>3, <2>4, ContentKept
<1>3. CASE ShutdownState
  <2>1. /\ UNCHANGED <<pc, held, received, slot, created, tools, tool, pending, cleaner, stopped>>
        /\ UNCHANGED <<data, gen, over, start, hand, published>>
        /\ shutdown = "buffers" /\ shutdown' = "wait" /\ current' = 0 /\ idle' = FALSE
    BY <1>3 DEF ShutdownState
  <2>2. ActorTypes' /\ ControlTypes'
    BY <2>1 DEF ActorTypes, ControlTypes
  <2>3. HeldInv'
    BY <1>0, <2>1 DEF HeldInv
  <2>4. CreateInv'
    <3>1. Cardinality(Lifecycle \ pending) \in Nat
      BY BufferFacts, FS_Subset, FS_CardinalityType
    <3>2. Granted' = Granted + 1 /\ Spent' <= Spent + 1
      BY <1>0, <2>1, <3>1 DEF Spent, Granted
    <3>3. Spent \in Nat /\ Spent' \in Nat /\ Granted \in Nat
      BY <1>0, <2>1, <3>1 DEF Spent, Granted
    <3>. QED BY <3>2, <3>3 DEF CreateInv
  <2>. QED BY <2>1, <2>2, <2>3, <2>4, ContentKept
<1>4. CASE CleanerEnd
  <2>1. /\ UNCHANGED <<pc, held, received, slot, created, current, tools, tool, pending, stopped>>
        /\ UNCHANGED <<shutdown, idle>>
        /\ UNCHANGED <<data, gen, over, start, hand, published>>
        /\ cleaner = "recv" /\ cleaner' = "end"
    BY <1>4 DEF CleanerEnd
  <2>2. ActorTypes' /\ HeldInv' /\ ControlTypes'
    BY <2>1 DEF ActorTypes, HeldInv, ControlTypes
  <2>3. CreateInv'
    BY <2>1 DEF CreateInv, Spent, Granted
  <2>. QED BY <2>1, <2>2, <2>3, ContentKept
<1>5. ASSUME NEW w \in Workers, WorkerEnd(w)
      PROVE  PipeTypeInv'
  <2>1. /\ pc' = [pc EXCEPT ![w] = "end"]
        /\ UNCHANGED <<bufVars, slot, held, hand, serviceVars, idle, published>>
    BY <1>5 DEF WorkerEnd, Goto
  <2>2. w \in Actors
    BY DEF Actors
  <2>3. /\ pc' \in [Actors -> PipePlaces]
        /\ \A d \in Actors : pc'[d] \in AtBuffer => pc[d] \in AtBuffer
    BY <2>1, <2>2, GotoMoves DEF AtBuffer, PipePlaces
  <2>4. ActorTypes' /\ HeldInv'
    BY <2>1, <2>3, HeldKept DEF ActorTypes
  <2>. QED BY <2>1, <2>4, ContentKept, ControlKept DEF ControlTypes
<1>. QED BY <1>1, <1>2, <1>3, <1>4, <1>5 DEF ClosingDown

-----------------------------------------------------------------------------

\* A step that leaves the output consumer with its chunk, and the timers not yet
\* set alone; and one that moves no output.
Steady ==
    /\ UNCHANGED <<gen, received, created>> /\ current' \in {0, current}
    /\ \A p \in {"write", "detect"} :
           pc'[OutputC] = p => pc[OutputC] = p /\ held'[OutputC] = held[OutputC]
    /\ pc[OutputC] = "write" => pc'[OutputC] = "write"
    /\ \A c \in Chunks : pc[c] = "off" => pc'[c] = "off" \/ (c = received /\ pc'[OutputC] = "store")
Quiet == Steady /\ UNCHANGED <<data, over, start, hand, published>>

LEMMA SteadyFlush ==
    ASSUME PipeTypeInv, NEW a \in Actors, Flush(a)
    PROVE  Steady /\ (FlushCancel(a) => Quiet)
<1> USE DEF bufVars, serviceVars, PipeTypeInv
<1>0. pc[a] \in {"cancel", "flush", "idle", "publish"}
    BY DEF Flush, FlushCancel, FlushTake, FlushPublish
<1>1. CASE FlushCancel(a)
  <2> DEFINE then == [pc EXCEPT ![a] = "flush"]
  <2>1. pc' = StopSlot(then)
    BY <1>1 DEF FlushCancel
  <2>2. /\ then \in [Actors -> PipePlaces] /\ then[a] = "flush"
        /\ \A c \in Actors : c # a => then[c] = pc[c]
    BY GotoMoves DEF PipePlaces
  <2> HIDE DEF then
  <2>3. \A c \in Actors : pc'[c] = then[c] \/ (pc'[c] = "end" /\ c \in Chunks /\ pc[c] = "pending")
    BY <2>1, <2>2, SlotStops
  <2>4. \A p \in {"write", "detect"} : pc'[OutputC] = p => pc[OutputC] = p
    BY <1>0, <2>2, <2>3, ActorFacts
  <2>5. pc[OutputC] = "write" => pc'[OutputC] = "write"
    BY <1>0, <2>2, <2>3, ActorFacts
  <2>6. \A c \in Chunks : pc[c] = "off" => pc'[c] = "off"
    BY <1>0, <2>2, <2>3, ActorFacts
  <2>. QED BY <1>1, <2>4, <2>5, <2>6 DEF FlushCancel, Steady, Quiet
<1>2. CASE FlushTake(a) \/ FlushPublish(a)
  <2>1. /\ \E p \in {"idle", "publish", "recv", "settool", "end"} : pc' = [pc EXCEPT ![a] = p]
        /\ UNCHANGED <<gen, received, current, created>>
        /\ held' = held \/ held' = [held EXCEPT ![a] = 0]
    <3>1. CASE FlushTake(a)
      BY <3>1 DEF FlushTake, Goto
    <3>2. CASE FlushPublish(a)
      <4> DEFINE p == CASE a = OutputC -> "recv" [] a = ToolC -> "settool" [] OTHER -> "end"
      <4>1. pc' = [pc EXCEPT ![a] = p]
        BY <3>2 DEF FlushPublish, Goto
      <4>2. p \in {"recv", "settool", "end"}
        BY ActorFacts
      <4> HIDE DEF p
      <4>. QED BY <3>2, <4>1, <4>2 DEF FlushPublish
    <3>. QED BY <1>2, <3>1, <3>2
  <2>2. /\ pc'[a] \in {"idle", "publish", "recv", "settool", "end"}
        /\ \A c \in Actors : c # a => pc'[c] = pc[c] /\ held'[c] = held[c]
    BY <2>1 DEF ActorTypes
  <2>3. ~FlushCancel(a)
    BY <1>2 DEF FlushCancel, FlushTake, FlushPublish
  <2>4. \A p \in {"write", "detect"} : pc'[OutputC] = p => pc[OutputC] = p /\ held'[OutputC] = held[OutputC]
    BY <2>2, ActorFacts
  <2>5. pc[OutputC] = "write" => pc'[OutputC] = "write"
    BY <1>0, <2>2, ActorFacts
  <2>6. \A c \in Chunks : pc[c] = "off" => pc'[c] = "off"
    BY <1>0, <2>2, ActorFacts
  <2>. QED BY <2>1, <2>3, <2>4, <2>5, <2>6 DEF Steady
<1>. QED BY <1>1, <1>2 DEF Flush

LEMMA SteadyOutput ==
    ASSUME PipeTypeInv, FreshTimers, OutputDetect \/ OutputReset \/ OutputStore
    PROVE  Quiet
<1> USE DEF bufVars, serviceVars, PipeTypeInv
<1>0. OutputC \in Actors
    BY ActorFacts
<1>1. CASE OutputDetect \/ OutputStore
  <2>1. /\ \E p \in {"cancel", "recv"} : pc' = [pc EXCEPT ![OutputC] = p]
        /\ pc[OutputC] \in {"detect", "store"}
        /\ UNCHANGED <<bufVars, received, hand, published>>
    BY <1>1 DEF OutputDetect, OutputStore, Goto
  <2>2. /\ pc'[OutputC] \in {"cancel", "recv"}
        /\ \A c \in Actors : c # OutputC => pc'[c] = pc[c]
    BY <1>0, <2>1 DEF ActorTypes
  <2>3. \A c \in Chunks : pc'[c] = pc[c]
    BY <2>2, ActorFacts
  <2>. QED BY <2>1, <2>2, <2>3 DEF Quiet, Steady
<1>2. CASE OutputReset
  <2> DEFINE then == [pc EXCEPT ![OutputC] = "store", ![received] = "pending"]
  <2>1. pc' = StopSlot(then) /\ pc[OutputC] = "detect"
    BY <1>2 DEF OutputReset
  <2>2. received \in Chunks /\ received \in Actors /\ received # OutputC
    BY <2>1, ActorFacts DEF FreshTimers
  <2>3. /\ then \in [Actors -> PipePlaces] /\ then[OutputC] = "store"
        /\ \A c \in Actors : c \notin {OutputC, received} => then[c] = pc[c]
    BY <1>0, <2>2 DEF ActorTypes, PipePlaces
  <2> HIDE DEF then
  <2>4. /\ pc'[OutputC] = "store"
        /\ \A c \in Actors : c \notin {OutputC, received} /\ pc[c] = "off" => pc'[c] = "off"
    BY <1>0, <2>1, <2>3, SlotStops, ActorFacts
  <2>5. \A c \in Chunks : pc[c] = "off" => pc'[c] = "off" \/ c = received
    BY <2>4, ActorFacts
  <2>. QED BY <1>2, <2>1, <2>4, <2>5 DEF OutputReset, Quiet, Steady
<1>. QED BY <1>1, <1>2

LEMMA SteadyRest ==
    ASSUME PipeTypeInv, Tool \/ Clean \/ ClosingDown \/ (\E c \in Chunks : Timer(c)) \/ UNCHANGED vars
    PROVE  Quiet
<1> USE DEF bufVars, serviceVars, flushVars, PipeTypeInv
<1>0. /\ OutputC \in Actors /\ ToolC \in Actors /\ OutputC # ToolC
      /\ OutputC \notin Chunks /\ ToolC \notin Chunks /\ Chunks \subseteq Actors
    BY ActorFacts
<1>1. ASSUME NEW c \in Chunks, Timer(c)
      PROVE  Quiet
  <2>1. /\ \E p \in {"generation", "cancel", "end"} : pc' = [pc EXCEPT ![c] = p]
        /\ pc[c] \in {"pending", "generation"}
        /\ UNCHANGED <<bufVars, slot, held, hand, serviceVars, idle, published>>
    BY <1>1 DEF Timer, TimerFire, TimerGeneration, Goto
  <2>2. \A d \in Actors : d # c => pc'[d] = pc[d]
    BY <1>0, <2>1 DEF ActorTypes
  <2>3. pc'[OutputC] = pc[OutputC]
    BY <1>0, <2>2
  <2>4. \A d \in Chunks : pc[d] = "off" => pc'[d] = "off"
    BY <1>0, <2>1, <2>2
  <2>. QED BY <2>1, <2>3, <2>4 DEF Quiet, Steady
<1>2. CASE Tool
  <2>1. /\ \E p \in {"cancel", "settool", "recv"} : pc' = [pc EXCEPT ![ToolC] = p]
        /\ held' = held \/ held' = [held EXCEPT ![ToolC] = current]
        /\ UNCHANGED <<bufVars, received, hand, published>>
    BY <1>2 DEF Tool, ToolRecv, ToolSet, Goto
  <2>2. \A d \in Actors : d # ToolC => pc'[d] = pc[d] /\ held'[d] = held[d]
    BY <1>0, <2>1 DEF ActorTypes
  <2>3. pc'[OutputC] = pc[OutputC] /\ held'[OutputC] = held[OutputC]
    BY <1>0, <2>2
  <2>4. \A d \in Chunks : pc'[d] = pc[d]
    BY <1>0, <2>2
  <2>. QED BY <2>1, <2>3, <2>4 DEF Quiet, Steady
<1>3. ASSUME pc' = StopSlot(pc), UNCHANGED <<bufVars, held, hand, received, published>>
      PROVE  Quiet
  <2>1. \A c \in Actors : pc'[c] = pc[c] \/ (pc'[c] = "end" /\ c \in Chunks /\ pc[c] = "pending")
    BY <1>3, SlotStops DEF ActorTypes
  <2>2. pc'[OutputC] = pc[OutputC] /\ \A c \in Chunks : pc[c] = "off" => pc'[c] = "off"
    BY <1>0, <2>1
  <2>. QED BY <1>3, <2>2 DEF Quiet, Steady
<1>4. ASSUME NEW w \in Workers, WorkerEnd(w)
      PROVE  Quiet
  <2>1. /\ pc' = [pc EXCEPT ![w] = "end"] /\ pc[w] = "recv"
        /\ UNCHANGED <<bufVars, slot, held, hand, serviceVars, idle, published>>
    BY <1>4 DEF WorkerEnd, Goto
  <2>2. w \in Actors /\ w \notin Chunks
    BY <1>0 DEF Actors, Workers
  <2>3. pc'[w] = "end" /\ \A d \in Actors : d # w => pc'[d] = pc[d]
    BY <2>1, <2>2 DEF ActorTypes
  <2>4. \A d \in Chunks : pc'[d] = pc[d]
    BY <1>0, <2>2, <2>3
  <2>5. \A p \in {"write", "detect"} : pc'[OutputC] = p => pc[OutputC] = p
    BY <1>0, <2>3
  <2>6. pc[OutputC] = "write" => pc'[OutputC] = "write"
    BY <1>0, <2>1, <2>3
  <2>. QED BY <2>1, <2>4, <2>5, <2>6 DEF Quiet, Steady
<1>5. ASSUME UNCHANGED <<pc, held, hand, received, created, data, gen, over, start, published>>,
             current' \in {0, current}
      PROVE  Quiet
    BY <1>5 DEF Quiet, Steady
<1>6. CASE Clean
    BY <1>3, <1>5, <1>6 DEF Clean, CleanRecv, CleanTimer, CleanState
<1>7. CASE ClosingDown
    BY <1>3, <1>4, <1>5, <1>7 DEF ClosingDown, ShutdownStart, ShutdownTimers, ShutdownState, ShutdownWait,
                                  CleanerEnd
<1>8. CASE UNCHANGED vars
    BY <1>5, <1>8 DEF vars
<1>. QED BY <1>1, <1>2, <1>6, <1>7, <1>8

LEMMA TimersSteady ==
    ASSUME PipeTypeInv, FreshTimers, Steady
    PROVE  FreshTimers'
<1>1. /\ \A c \in Chunks : c \in Nat
      /\ received' = received /\ received \in Nat
    BY ActorFacts DEF Steady, PipeTypeInv, ActorTypes
<1>2. \A c \in Chunks : c > received' => pc'[c] = "off"
    BY <1>1 DEF FreshTimers, Steady
<1>3. ASSUME pc'[OutputC] \in {"write", "detect"} PROVE received' \in Chunks /\ pc'[received'] = "off"
    BY <1>1, <1>3 DEF FreshTimers, Steady
<1>4. ASSUME pc'[OutputC] = "detect" PROVE gen'[held'[OutputC]] = received'
    BY <1>1, <1>4 DEF FreshTimers, Steady
<1>. QED BY <1>2, <1>3, <1>4 DEF FreshTimers

\* The last chunk that is in a buffer or has left one.
Top == IF pc[OutputC] = "write" THEN received - 1 ELSE received

\* What a buffer holds is a run, marked if it lacks a beginning, and ends with the
\* last chunk if the buffer is the session's, or the output consumer's.
Newest(b) == data[b] # <<>> => data[b][Len(data[b])] = Top
BufferInv(b) ==
    /\ Run(data[b]) /\ (\A i \in 1..Len(data[b]) : data[b][i] <= Top)
    /\ data[b] = <<>> => ~over[b]
    /\ data[b] # <<>> => start[b] <= data[b][1] /\ (over[b] <=> data[b][1] # start[b])
    /\ b = current => Newest(b)
    /\ pc[OutputC] = "write" /\ b = held[OutputC] => Newest(b)
    /\ b > created => data[b] = <<>>

MarkedRun(m) == m.chunks # <<>> /\ Run(m.chunks) /\ (m.truncated <=> m.chunks[1] # m.start)
Below(m, top) == \A i \in 1..Len(m.chunks) : m.chunks[i] <= top

MessagesInv ==
    /\ \A i \in 1..Len(published) : MarkedRun(published[i]) /\ Below(published[i], Top)
    /\ \A a \in Actors :
           /\ Len(hand[a]) <= 1
           /\ hand[a] # <<>> => MarkedRun(hand[a][1]) /\ Below(hand[a][1], Top)

ContentInv ==
    /\ \A b \in Buffers : BufferInv(b)
    /\ MessagesInv
    /\ pc[OutputC] = "write" => current \in {0, held[OutputC]}

\* The places a chunk can be in, and that they are apart.
Said(x) == \E i \in 1..Len(published) : x \in ToSet(published[i].chunks)
Saying(a, x) == hand[a] # <<>> /\ x \in ToSet(hand[a][1].chunks)
Within(b, x) == x \in ToSet(data[b])
PlacesApart ==
    \A x \in Chunks :
        /\ \A a \in Actors : Saying(a, x) => ~Said(x)
        /\ \A b \in Buffers : Within(b, x) => ~Said(x)
        /\ \A a, c \in Actors : Saying(a, x) /\ Saying(c, x) => a = c
        /\ \A b, d \in Buffers : Within(b, x) /\ Within(d, x) => b = d
        /\ \A a \in Actors, b \in Buffers : ~(Saying(a, x) /\ Within(b, x))
SaidOnce ==
    \A x \in Chunks : \A i, j \in 1..Len(published) :
        x \in ToSet(published[i].chunks) /\ x \in ToSet(published[j].chunks) => i = j

LEMMA ChunkNumbers ==
    ASSUME NEW s \in Seq(Chunks)
    PROVE  /\ Len(s) \in Nat /\ (\A i \in 1..Len(s) : s[i] \in Chunks /\ s[i] \in Nat)
           /\ s # <<>> => Len(s) > 0 /\ s[1] \in Nat /\ s[Len(s)] \in Nat
<1>1. /\ Len(s) \in Nat /\ (\A i \in 1..Len(s) : s[i] \in Chunks)
      /\ s # <<>> => Len(s) > 0
    OBVIOUS
<1>2. \A i \in 1..Len(s) : s[i] \in Nat
    BY <1>1, ActorFacts
<1>3. s # <<>> => 1 \in 1..Len(s) /\ Len(s) \in 1..Len(s)
    BY <1>1
<1>. QED BY <1>1, <1>2, <1>3

LEMMA RunAppend ==
    ASSUME NEW s \in Seq(Chunks), NEW x \in Chunks, Run(s), s # <<>> => s[Len(s)] = x - 1
    PROVE  /\ Append(s, x) \in Seq(Chunks) /\ Append(s, x) # <<>> /\ Len(Append(s, x)) = Len(s) + 1
           /\ Run(Append(s, x)) /\ Append(s, x)[Len(s) + 1] = x
           /\ ToSet(Append(s, x)) = ToSet(s) \cup {x}
           /\ s # <<>> => Append(s, x)[1] = s[1]
           /\ s = <<>> => Append(s, x)[1] = x
<1>1. PICK n \in Nat : Len(s) = n
    OBVIOUS
<1> DEFINE t == Append(s, x)
<1>a. /\ t \in Seq(Chunks) /\ Len(t) = Len(s) + 1 /\ t[Len(s) + 1] = x
      /\ \A i \in 1..Len(s) : t[i] = s[i]
    OBVIOUS
<1>b. (s # <<>> <=> Len(s) > 0) /\ t # <<>>
    BY <1>a
<1> HIDE DEF t
<1>2. /\ t \in Seq(Chunks) /\ t # <<>> /\ Len(t) = n + 1 /\ t[n + 1] = x
      /\ (\A i \in 1..n : t[i] = s[i])
      /\ (s # <<>> <=> n > 0)
    BY <1>1, <1>a, <1>b
<1> HIDE DEF t
<1>3. \A i \in 1..(n + 1) : i = n + 1 \/ i \in 1..n
    OBVIOUS
<1>4. Run(t)
  <2> SUFFICES ASSUME NEW i \in 1..n PROVE t[i + 1] = t[i] + 1
    BY <1>2 DEF Run
  <2>1. CASE i = n
    <3>1. n > 0 /\ t[n] = s[n] /\ s[n] = x - 1 /\ x \in Nat
      BY <1>1, <1>2, <2>1, ActorFacts
    <3>. QED BY <1>2, <2>1, <3>1
  <2>2. CASE i # n
    <3>1. i + 1 \in 1..n /\ i \in 1..(n - 1)
      BY <2>2
    <3>. QED BY <1>1, <1>2, <3>1 DEF Run
  <2>. QED BY <2>1, <2>2
<1>5. ToSet(t) = ToSet(s) \cup {x}
  <2>1. ASSUME NEW y \in ToSet(t) PROVE y \in ToSet(s) \cup {x}
    <3>1. PICK i \in 1..(n + 1) : y = t[i]
      BY <1>2 DEF ToSet
    <3>. QED BY <1>1, <1>2, <1>3, <3>1 DEF ToSet
  <2>2. ASSUME NEW y \in ToSet(s) PROVE y \in ToSet(t)
    <3>1. PICK i \in 1..n : y = s[i]
      BY <1>1 DEF ToSet
    <3>2. i \in 1..(n + 1)
      OBVIOUS
    <3>. QED BY <1>2, <3>1, <3>2 DEF ToSet
  <2>3. x \in ToSet(t)
    <3>1. n + 1 \in 1..(n + 1)
      OBVIOUS
    <3>. QED BY <1>2, <3>1 DEF ToSet
  <2>. QED BY <2>1, <2>2, <2>3
<1>6. (s # <<>> => t[1] = s[1]) /\ (s = <<>> => t[1] = x)
  <2>1. n > 0 => 1 \in 1..n
    OBVIOUS
  <2>. QED BY <1>1, <1>2, <2>1
<1>. QED BY <1>1, <1>2, <1>4, <1>5, <1>6 DEF t

LEMMA RunTail ==
    ASSUME NEW s \in Seq(Chunks), Run(s), Len(s) > 1
    PROVE  /\ Tail(s) \in Seq(Chunks) /\ Tail(s) # <<>> /\ Len(Tail(s)) = Len(s) - 1
           /\ Run(Tail(s)) /\ Tail(s)[1] = s[1] + 1
           /\ Tail(s)[Len(Tail(s))] = s[Len(s)]
           /\ ToSet(Tail(s)) \subseteq ToSet(s)
<1>1. PICK n \in Nat : Len(s) = n
    OBVIOUS
<1> DEFINE t == Tail(s)
<1>a. s # <<>> /\ t \in Seq(Chunks) /\ Len(t) = Len(s) - 1
    OBVIOUS
<1>b. \A i \in 1..(Len(s) - 1) : t[i] = s[i + 1]
    BY <1>a
<1> HIDE DEF t
<1>2. /\ s # <<>> /\ t \in Seq(Chunks) /\ Len(t) = n - 1 /\ t # <<>>
      /\ \A i \in 1..(n - 1) : t[i] = s[i + 1]
    BY <1>1, <1>a, <1>b
<1> HIDE DEF t
<1>3. Run(t)
  <2> SUFFICES ASSUME NEW i \in 1..(n - 2) PROVE t[i + 1] = t[i] + 1
    BY <1>2 DEF Run
  <2>1. i + 1 \in 1..(n - 1) /\ i \in 1..(n - 1)
    OBVIOUS
  <2>. QED BY <1>1, <1>2, <2>1 DEF Run
<1>4. t[1] = s[1] + 1 /\ t[n - 1] = s[n]
  <2>1. 1 \in 1..(n - 1) /\ n - 1 \in 1..(n - 1) /\ (n - 1) + 1 = n
    BY <1>1
  <2>. QED BY <1>1, <1>2, <2>1 DEF Run
<1>5. ASSUME NEW y \in ToSet(t) PROVE y \in ToSet(s)
  <2>1. PICK i \in 1..(n - 1) : y = s[i + 1]
    BY <1>2, <1>5 DEF ToSet
  <2>2. i + 1 \in 1..n
    OBVIOUS
  <2>. QED BY <1>1, <2>1, <2>2 DEF ToSet
<1>. QED BY <1>1, <1>2, <1>3, <1>4, <1>5 DEF t

LEMMA ContentQuiet ==
    ASSUME PipeTypeInv, ContentInv, PlacesApart, SaidOnce, Quiet
    PROVE  ContentInv' /\ PlacesApart' /\ SaidOnce'
<1>1. /\ UNCHANGED <<data, over, start, hand, published, created>> /\ current' \in {0, current}
      /\ pc'[OutputC] = "write" <=> pc[OutputC] = "write"
      /\ pc'[OutputC] = "write" => held'[OutputC] = held[OutputC]
    BY DEF Quiet, Steady
<1>2. Top' = Top
    BY <1>1 DEF Top, Quiet, Steady
<1>3. ASSUME NEW b \in Buffers PROVE BufferInv(b)'
  <2>1. b # 0 /\ BufferInv(b)
    BY BufferFacts DEF ContentInv
  <2>2. Newest(b)' <=> Newest(b)
    BY <1>1, <1>2 DEF Newest
  <2>3. b = current' => b = current
    BY <1>1, <2>1
  <2>. QED BY <1>1, <1>2, <2>1, <2>2, <2>3 DEF BufferInv
<1>4. MessagesInv'
    BY <1>1, <1>2 DEF ContentInv, MessagesInv
<1>5. ContentInv'
    BY <1>1, <1>3, <1>4 DEF ContentInv
<1>6. PlacesApart' /\ SaidOnce'
    BY <1>1 DEF PlacesApart, SaidOnce, Said, Saying, Within
<1>. QED BY <1>5, <1>6

\* Taking the buffer's output moves it from the buffer to the actor's hand.
LEMMA ContentTake ==
    ASSUME PipeTypeInv, ContentInv, PlacesApart, SaidOnce, NEW a \in Actors, FlushTake(a)
    PROVE  ContentInv' /\ PlacesApart' /\ SaidOnce'
<1>0. Steady
    BY SteadyFlush DEF Flush
<1>1. PICK b \in Buffers : b = held[a] /\ b <= created
    BY DEF FlushTake, PipeTypeInv, HeldInv, AtBuffer
<1> DEFINE m == [chunks |-> data[b], start |-> start[b], truncated |-> over[b]]
<1>2. /\ data'[b] = <<>> /\ over'[b] = FALSE
      /\ \A d \in Buffers : d # b => data'[d] = data[d] /\ over'[d] = over[d] /\ start'[d] = start[d]
      /\ hand'[a] = IF data[b] = <<>> THEN <<>> ELSE <<m>>
      /\ \A c \in Actors : c # a => hand'[c] = hand[c]
      /\ published' = published /\ current' = current /\ created' = created
    BY <1>1 DEF FlushTake, PipeTypeInv, ContentTypes, bufVars
<1>3. /\ pc'[OutputC] = "write" <=> pc[OutputC] = "write"
      /\ pc'[OutputC] = "write" => held'[OutputC] = held[OutputC]
      /\ Top' = Top
    BY <1>0 DEF Steady, Top
<1>4. m.chunks = data[b] /\ m.start = start[b] /\ m.truncated = over[b]
    OBVIOUS
<1>5. BufferInv(b) /\ data[b] \in Seq(Chunks)
    BY <1>1 DEF ContentInv, PipeTypeInv, ContentTypes
<1>6. data[b] # <<>> => MarkedRun(m) /\ Below(m, Top)
    BY <1>4, <1>5 DEF MarkedRun, Below, BufferInv
<1> HIDE DEF m
<1>7. ASSUME NEW d \in Buffers PROVE BufferInv(d)'
  <2>1. CASE d = b
    <3>1. Run(<<>>) /\ Len(<<>>) = 0
      BY DEF Run
    <3>2. Newest(d)'
      BY <1>2, <2>1 DEF Newest
    <3>. QED BY <1>2, <2>1, <3>1, <3>2 DEF BufferInv
  <2>2. CASE d # b
    <3>1. BufferInv(d) /\ (Newest(d)' <=> Newest(d))
      BY <1>2, <1>3, <2>2 DEF ContentInv, Newest
    <3>. QED BY <1>2, <1>3, <2>2, <3>1 DEF BufferInv
  <2>. QED BY <2>1, <2>2
<1>8. MessagesInv'
  <2>1. \A i \in 1..Len(published') : MarkedRun(published'[i]) /\ Below(published'[i], Top')
    BY <1>2, <1>3 DEF ContentInv, MessagesInv
  <2>2. ASSUME NEW c \in Actors
        PROVE  Len(hand'[c]) <= 1 /\ (hand'[c] # <<>> => MarkedRun(hand'[c][1]) /\ Below(hand'[c][1], Top'))
    <3>1. CASE c # a
      BY <1>2, <1>3, <3>1 DEF ContentInv, MessagesInv
    <3>2. CASE c = a /\ data[b] = <<>>
      BY <1>2, <3>2
    <3>3. CASE c = a /\ data[b] # <<>>
      <4>1. hand'[c] = <<m>> /\ Len(<<m>>) = 1 /\ <<m>>[1] = m
        BY <1>2, <3>3
      <4>. QED BY <1>3, <1>6, <3>3, <4>1
    <3>. QED BY <3>1, <3>2, <3>3
  <2>. QED BY <2>1, <2>2 DEF MessagesInv
<1>9. ContentInv'
    BY <1>2, <1>3, <1>7, <1>8 DEF ContentInv
<1>10. ASSUME NEW x
       PROVE  /\ Said(x)' <=> Said(x)
              /\ \A c \in Actors : c # a => (Saying(c, x)' <=> Saying(c, x))
              /\ \A d \in Buffers : d # b => (Within(d, x)' <=> Within(d, x))
              /\ ~Within(b, x)' /\ (Saying(a, x)' => Within(b, x))
  <2>1. Said(x)' <=> Said(x)
    BY <1>2 DEF Said
  <2>2. \A c \in Actors : c # a => (Saying(c, x)' <=> Saying(c, x))
    BY <1>2 DEF Saying
  <2>3. \A d \in Buffers : d # b => (Within(d, x)' <=> Within(d, x))
    BY <1>2 DEF Within
  <2>4. ~Within(b, x)'
    BY <1>1, <1>2 DEF Within, ToSet
  <2>5. Saying(a, x)' => Within(b, x)
    <3>1. CASE data[b] = <<>>
      BY <1>2, <3>1 DEF Saying
    <3>2. CASE data[b] # <<>>
      <4>1. hand'[a] = <<m>> /\ <<m>>[1] = m
        BY <1>2, <3>2
      <4>2. hand'[a][1].chunks = data[b]
        BY <1>4, <4>1
      <4>. QED BY <4>2 DEF Saying, Within
    <3>. QED BY <3>1, <3>2
  <2>. QED BY <2>1, <2>2, <2>3, <2>4, <2>5
<1>11. PlacesApart'
  <2> SUFFICES ASSUME NEW x \in Chunks
               PROVE  /\ \A c \in Actors : Saying(c, x)' => ~Said(x)'
                      /\ \A d \in Buffers : Within(d, x)' => ~Said(x)'
                      /\ \A c, e \in Actors : Saying(c, x)' /\ Saying(e, x)' => c = e
                      /\ \A d, e \in Buffers : Within(d, x)' /\ Within(e, x)' => d = e
                      /\ \A c \in Actors, d \in Buffers : ~(Saying(c, x)' /\ Within(d, x)')
    BY DEF PlacesApart
  <2>1. /\ \A c \in Actors : Saying(c, x) => ~Said(x)
        /\ \A d \in Buffers : Within(d, x) => ~Said(x)
        /\ \A c, e \in Actors : Saying(c, x) /\ Saying(e, x) => c = e
        /\ \A d, e \in Buffers : Within(d, x) /\ Within(e, x) => d = e
        /\ \A c \in Actors, d \in Buffers : ~(Saying(c, x) /\ Within(d, x))
    BY DEF PlacesApart
  <2>. QED BY <1>1, <1>10, <2>1
<1>12. SaidOnce'
    BY <1>2 DEF SaidOnce
<1>. QED BY <1>9, <1>11, <1>12

LEMMA OneMessageMore ==
    ASSUME NEW S, NEW s \in Seq(S), NEW t \in Seq(S), t # <<>>, Len(t) <= 1, NEW n \in Nat, Len(s) = n
    PROVE  /\ Len(s \o t) = n + 1 /\ (s \o t)[n + 1] = t[1]
           /\ \A i \in 1..n : (s \o t)[i] = s[i]
<1>1. PICK k \in Nat \ {0} : Len(t) = k
    BY EmptySeq
<1>2. Len(t) = 1
  <2>1. k <= 1
    BY <1>1
  <2>2. k = 1
    BY <2>1
  <2>. QED BY <1>1, <2>2
<1>3. /\ Len(s \o t) = Len(s) + Len(t)
      /\ \A i \in 1..(Len(s) + Len(t)) : (s \o t)[i] = IF i <= Len(s) THEN s[i] ELSE t[i - Len(s)]
    BY ConcatProperties
<1>4. \A i \in 1..(n + 1) : (s \o t)[i] = IF i <= n THEN s[i] ELSE t[i - n]
    BY <1>2, <1>3
<1>5. n + 1 \in 1..(n + 1) /\ ~(n + 1 <= n) /\ (n + 1) - n = 1
    OBVIOUS
<1>6. (s \o t)[n + 1] = t[1]
    BY <1>4, <1>5
<1>7. \A i \in 1..n : i \in 1..(n + 1) /\ i <= n
    OBVIOUS
<1>. QED BY <1>2, <1>3, <1>4, <1>6, <1>7

\* Publishing moves it from the hand to the topic.
LEMMA ContentPublish ==
    ASSUME PipeTypeInv, ContentInv, PlacesApart, SaidOnce, NEW a \in Actors, FlushPublish(a)
    PROVE  ContentInv' /\ PlacesApart' /\ SaidOnce'
<1>0. Steady
    BY SteadyFlush DEF Flush
<1>1. /\ hand'[a] = <<>> /\ (\A c \in Actors : c # a => hand'[c] = hand[c])
      /\ published' = published \o hand[a]
      /\ UNCHANGED <<data, over, start, current, created>>
    BY DEF FlushPublish, PipeTypeInv, ContentTypes, bufVars
<1>2. /\ pc'[OutputC] = "write" <=> pc[OutputC] = "write"
      /\ pc'[OutputC] = "write" => held'[OutputC] = held[OutputC]
      /\ Top' = Top
    BY <1>0 DEF Steady, Top
<1>3. PICK n \in Nat : Len(published) = n
    BY DEF PipeTypeInv, ContentTypes
<1>4. hand[a] \in Seq(CleanedMessage) /\ published \in Seq(CleanedMessage) /\ Len(hand[a]) <= 1
    BY DEF PipeTypeInv, ContentTypes, ContentInv, MessagesInv
<1>5. \/ hand[a] = <<>> /\ published' = published
      \/ /\ hand[a] # <<>> /\ Len(published') = n + 1 /\ published'[n + 1] = hand[a][1]
         /\ \A i \in 1..n : published'[i] = published[i]
  <2>1. CASE hand[a] = <<>>
    BY <1>1, <1>4, <2>1
  <2>2. CASE hand[a] # <<>>
    <3>1. /\ Len(published \o hand[a]) = n + 1 /\ (published \o hand[a])[n + 1] = hand[a][1]
          /\ \A i \in 1..n : (published \o hand[a])[i] = published[i]
      BY <1>3, <1>4, <2>2, OneMessageMore
    <3>. QED BY <1>1, <2>2, <3>1
  <2>. QED BY <2>1, <2>2
<1>6. MessagesInv'
  <2>1. \A i \in 1..n : MarkedRun(published[i]) /\ Below(published[i], Top)
    BY <1>3 DEF ContentInv, MessagesInv
  <2>2. hand[a] # <<>> => MarkedRun(hand[a][1]) /\ Below(hand[a][1], Top)
    BY DEF ContentInv, MessagesInv
  <2>3. ASSUME NEW i \in 1..Len(published') PROVE MarkedRun(published'[i]) /\ Below(published'[i], Top')
    <3>1. CASE hand[a] = <<>> /\ published' = published
      BY <1>2, <1>3, <2>1, <3>1
    <3>2. CASE /\ hand[a] # <<>> /\ Len(published') = n + 1 /\ published'[n + 1] = hand[a][1]
               /\ \A j \in 1..n : published'[j] = published[j]
      <4>1. i \in 1..n \/ i = n + 1
        BY <3>2
      <4>. QED BY <1>2, <2>1, <2>2, <3>2, <4>1
    <3>. QED BY <1>5, <3>1, <3>2
  <2>4. ASSUME NEW c \in Actors
        PROVE  Len(hand'[c]) <= 1 /\ (hand'[c] # <<>> => MarkedRun(hand'[c][1]) /\ Below(hand'[c][1], Top'))
    <3>1. CASE c = a
      BY <1>1, <3>1
    <3>2. CASE c # a
      BY <1>1, <1>2, <3>2 DEF ContentInv, MessagesInv
    <3>. QED BY <3>1, <3>2
  <2>. QED BY <2>3, <2>4 DEF MessagesInv
<1>7. ASSUME NEW d \in Buffers PROVE BufferInv(d)'
  <2>1. BufferInv(d) /\ (Newest(d)' <=> Newest(d))
    BY <1>1, <1>2 DEF ContentInv, Newest
  <2>. QED BY <1>1, <1>2, <2>1 DEF BufferInv
<1>8. ContentInv'
    BY <1>1, <1>2, <1>6, <1>7 DEF ContentInv
<1>9. ASSUME NEW x
      PROVE  /\ Said(x)' => Said(x) \/ Saying(a, x)
             /\ ~Saying(a, x)' /\ (\A c \in Actors : c # a => (Saying(c, x)' <=> Saying(c, x)))
             /\ \A d \in Buffers : Within(d, x)' <=> Within(d, x)
  <2>1. Said(x)' => Said(x) \/ Saying(a, x)
    <3>1. CASE hand[a] = <<>> /\ published' = published
      BY <3>1 DEF Said
    <3>2. CASE /\ hand[a] # <<>> /\ Len(published') = n + 1 /\ published'[n + 1] = hand[a][1]
               /\ \A j \in 1..n : published'[j] = published[j]
      <4> SUFFICES ASSUME NEW i \in 1..Len(published'), x \in ToSet(published'[i].chunks)
                   PROVE  Said(x) \/ Saying(a, x)
        BY DEF Said
      <4>1. i \in 1..n \/ i = n + 1
        BY <3>2
      <4>. QED BY <1>3, <3>2, <4>1 DEF Said, Saying
    <3>. QED BY <1>5, <3>1, <3>2
  <2>2. ~Saying(a, x)' /\ (\A c \in Actors : c # a => (Saying(c, x)' <=> Saying(c, x)))
    BY <1>1 DEF Saying
  <2>3. \A d \in Buffers : Within(d, x)' <=> Within(d, x)
    BY <1>1 DEF Within
  <2>. QED BY <2>1, <2>2, <2>3
<1>10. PlacesApart'
  <2> SUFFICES ASSUME NEW x \in Chunks
               PROVE  /\ \A c \in Actors : Saying(c, x)' => ~Said(x)'
                      /\ \A d \in Buffers : Within(d, x)' => ~Said(x)'
                      /\ \A c, e \in Actors : Saying(c, x)' /\ Saying(e, x)' => c = e
                      /\ \A d, e \in Buffers : Within(d, x)' /\ Within(e, x)' => d = e
                      /\ \A c \in Actors, d \in Buffers : ~(Saying(c, x)' /\ Within(d, x)')
    BY DEF PlacesApart
  <2>1. /\ \A c \in Actors : Saying(c, x) => ~Said(x)
        /\ \A d \in Buffers : Within(d, x) => ~Said(x)
        /\ \A c, e \in Actors : Saying(c, x) /\ Saying(e, x) => c = e
        /\ \A d, e \in Buffers : Within(d, x) /\ Within(e, x) => d = e
        /\ \A c \in Actors, d \in Buffers : ~(Saying(c, x) /\ Within(d, x))
    BY DEF PlacesApart
  <2>. QED BY <1>9, <2>1
<1>11. SaidOnce'
  <2> SUFFICES ASSUME NEW x \in Chunks, NEW i \in 1..Len(published'), NEW j \in 1..Len(published'),
                      x \in ToSet(published'[i].chunks), x \in ToSet(published'[j].chunks)
               PROVE  i = j
    BY DEF SaidOnce
  <2>1. CASE hand[a] = <<>> /\ published' = published
    BY <2>1 DEF SaidOnce
  <2>2. CASE /\ hand[a] # <<>> /\ Len(published') = n + 1 /\ published'[n + 1] = hand[a][1]
             /\ \A k \in 1..n : published'[k] = published[k]
    <3>1. (i \in 1..n \/ i = n + 1) /\ (j \in 1..n \/ j = n + 1)
      BY <2>2
    <3>2. \A k \in {i, j} : /\ k \in 1..n => Said(x)
                            /\ k = n + 1 => Saying(a, x)
      BY <1>3, <2>2 DEF Said, Saying
    <3>3. ~(Said(x) /\ Saying(a, x))
      BY DEF PlacesApart
    <3>4. CASE i \in 1..n /\ j \in 1..n
      BY <1>3, <2>2, <3>4 DEF SaidOnce
    <3>. QED BY <3>1, <3>2, <3>3, <3>4
  <2>. QED BY <1>5, <2>1, <2>2
<1>. QED BY <1>8, <1>10, <1>11

LEMMA ContentReceive ==
    ASSUME PipeTypeInv, ContentInv, PlacesApart, SaidOnce, OutputRecv
    PROVE  ContentInv' /\ PlacesApart' /\ SaidOnce'
<1>1. /\ pc[OutputC] = "recv" /\ pc'[OutputC] = "write" /\ received' = received + 1
      /\ held'[OutputC] = current'
      /\ \/ current = 0 /\ created' = created + 1 /\ current' = created + 1
         \/ current # 0 /\ created' = created /\ current' = current
      /\ UNCHANGED <<data, over, start, hand, published>>
    BY ActorFacts DEF OutputRecv, Goto, PipeTypeInv, ActorTypes
<1>2. received \in Nat /\ created \in Nat
    BY ActorFacts, BufferFacts DEF PipeTypeInv, ActorTypes, ControlTypes
<1>3. Top' = Top
    BY <1>1, <1>2 DEF Top
<1>4. ASSUME NEW d \in Buffers PROVE BufferInv(d)'
  <2>1. BufferInv(d) /\ (Newest(d)' <=> Newest(d)) /\ d \in Nat
    BY <1>1, <1>3, BufferFacts DEF ContentInv, Newest
  <2>2. d = current' => Newest(d)
    <3>1. CASE current = 0 /\ created' = created + 1 /\ current' = created + 1
      <4>1. d = current' => data[d] = <<>>
        BY <1>2, <2>1, <3>1 DEF BufferInv
      <4>. QED BY <4>1 DEF Newest
    <3>2. CASE current # 0 /\ current' = current
      BY <2>1, <3>2 DEF BufferInv
    <3>. QED BY <1>1, <3>1, <3>2
  <2>3. d > created' => d > created
    BY <1>1, <1>2, <2>1
  <2>. QED BY <1>1, <1>3, <2>1, <2>2, <2>3 DEF BufferInv
<1>5. MessagesInv'
    BY <1>1, <1>3 DEF ContentInv, MessagesInv
<1>6. ContentInv'
    BY <1>1, <1>4, <1>5 DEF ContentInv
<1>7. PlacesApart' /\ SaidOnce'
    BY <1>1 DEF PlacesApart, SaidOnce, Said, Saying, Within
<1>. QED BY <1>6, <1>7

\* The chunk received last is nowhere until the output consumer writes it.
LEMMA ContentWrite ==
    ASSUME PipeTypeInv, FreshTimers, ContentInv, PlacesApart, SaidOnce, OutputWrite
    PROVE  ContentInv' /\ PlacesApart' /\ SaidOnce'
<1>1. PICK x \in Chunks : x = received /\ x \in Nat /\ pc[OutputC] = "write" /\ Top = x - 1
  <2>1. pc[OutputC] = "write" /\ received \in Chunks
    BY DEF OutputWrite, FreshTimers
  <2>. QED BY <2>1, ActorFacts DEF Top
<1>2. PICK b \in Buffers : b = held[OutputC] /\ b <= created
    BY <1>1, ActorFacts DEF PipeTypeInv, HeldInv, AtBuffer
<1>3. b \in Nat /\ created \in Nat
    BY BufferFacts DEF PipeTypeInv, ControlTypes
<1> DEFINE s == data[b]
           new == Append(s, x)
<1>4. /\ data'[b] = (IF Len(new) > MaxSize THEN Tail(new) ELSE new)
      /\ over'[b] = (over[b] \/ Len(new) > MaxSize)
      /\ start'[b] = (IF s = <<>> THEN x ELSE start[b])
      /\ \A d \in Buffers : d # b => data'[d] = data[d] /\ over'[d] = over[d] /\ start'[d] = start[d]
      /\ pc'[OutputC] = "detect"
      /\ UNCHANGED <<received, hand, published, current, created>>
  <2>1. /\ data' = [data EXCEPT ![b] = IF Len(new) > MaxSize THEN Tail(new) ELSE new]
        /\ over' = [over EXCEPT ![b] = @ \/ Len(new) > MaxSize]
        /\ start' = [start EXCEPT ![b] = IF s = <<>> THEN x ELSE @]
        /\ pc' = [pc EXCEPT ![OutputC] = "detect"]
        /\ UNCHANGED <<received, hand, published, current, created>>
    BY <1>1, <1>2 DEF OutputWrite, Goto, bufVars, serviceVars
  <2>2. /\ DOMAIN data = Buffers /\ DOMAIN over = Buffers /\ DOMAIN start = Buffers
        /\ DOMAIN pc = Actors /\ OutputC \in Actors
    BY ActorFacts DEF PipeTypeInv, ContentTypes, ActorTypes
  <2> HIDE DEF s, new
  <2>3. /\ data'[b] = (IF Len(new) > MaxSize THEN Tail(new) ELSE new)
        /\ \A d \in Buffers : d # b => data'[d] = data[d]
    BY <2>1, <2>2, <1>2
  <2>4. /\ over'[b] = (over[b] \/ Len(new) > MaxSize)
        /\ \A d \in Buffers : d # b => over'[d] = over[d]
    BY <2>1, <2>2, <1>2
  <2>5. /\ start'[b] = (IF s = <<>> THEN x ELSE start[b])
        /\ \A d \in Buffers : d # b => start'[d] = start[d]
    BY <2>1, <2>2, <1>2
  <2>6. pc'[OutputC] = "detect"
    BY <2>1, <2>2
  <2>. QED BY <2>1, <2>3, <2>4, <2>5, <2>6
<1>5. Top' = x
    BY <1>1, <1>4 DEF Top
<1>6. s \in Seq(Chunks) /\ Len(s) <= MaxSize /\ start[b] \in Nat /\ over[b] \in BOOLEAN
    BY ActorFacts DEF PipeTypeInv, ContentTypes
<1>7. /\ BufferInv(b) /\ Newest(b)
    BY <1>1, <1>2 DEF ContentInv, BufferInv
<1>8. Run(s) /\ (s # <<>> => s[Len(s)] = x - 1)
    BY <1>1, <1>7 DEF BufferInv, Newest
<1> HIDE DEF s, new
<1>9. /\ new \in Seq(Chunks) /\ new # <<>> /\ Len(new) = Len(s) + 1 /\ Run(new)
      /\ new[Len(s) + 1] = x /\ ToSet(new) = ToSet(s) \cup {x}
      /\ (s # <<>> => new[1] = s[1]) /\ (s = <<>> => new[1] = x)
    BY <1>6, <1>8, RunAppend DEF new
<1>10. \A y \in ToSet(s) : y <= x - 1 /\ y \in Nat
    BY <1>1, <1>6, <1>7, ChunkNumbers DEF s, BufferInv, ToSet
<1>11. /\ data'[b] # <<>> /\ data'[b] \in Seq(Chunks) /\ Run(data'[b])
       /\ data'[b][Len(data'[b])] = x /\ ToSet(data'[b]) \subseteq ToSet(s) \cup {x}
       /\ start'[b] <= data'[b][1] /\ (over'[b] <=> data'[b][1] # start'[b])
  <2>1. CASE s = <<>>
    <3>1. Len(s) = 0 /\ Len(new) = 1 /\ ~(Len(new) > MaxSize) /\ MaxSize \in Nat
      BY <1>9, <2>1, ActorFacts
    <3>2. ~over[b]
      BY <1>7, <2>1 DEF BufferInv, s
    <3>3. data'[b] = new /\ ~over'[b] /\ start'[b] = x
      BY <1>4, <2>1, <3>1, <3>2
    <3>4. new[1] = x /\ new[Len(new)] = x
      BY <1>9, <2>1, <3>1
    <3>5. x <= x
      BY <1>1
    <3>. QED BY <1>9, <3>3, <3>4, <3>5
  <2>2. CASE s # <<>> /\ ~(Len(new) > MaxSize)
    <3>1. data'[b] = new /\ (over'[b] <=> over[b]) /\ start'[b] = start[b] /\ Len(s) \in Nat
      BY <1>4, <1>6, <2>2
    <3>2. start[b] <= s[1] /\ (over[b] <=> s[1] # start[b])
      BY <1>7, <2>2 DEF BufferInv, s
    <3>. QED BY <1>9, <2>2, <3>1, <3>2
  <2>3. CASE s # <<>> /\ Len(new) > MaxSize
    <3>1. data'[b] = Tail(new) /\ over'[b] = TRUE /\ start'[b] = start[b]
      BY <1>4, <2>3
    <3>2. Len(new) > 1 /\ Len(s) \in Nat /\ s[1] \in Nat
      BY <1>6, <1>9, <2>3, ChunkNumbers
    <3>3. /\ Tail(new) \in Seq(Chunks) /\ Tail(new) # <<>> /\ Run(Tail(new))
          /\ Tail(new)[1] = new[1] + 1 /\ Tail(new)[Len(Tail(new))] = new[Len(new)]
          /\ ToSet(Tail(new)) \subseteq ToSet(new)
      BY <1>9, <3>2, RunTail
    <3>4. start[b] <= s[1]
      BY <1>7, <2>3 DEF BufferInv, s
    <3>5. start[b] <= Tail(new)[1] /\ Tail(new)[1] # start[b]
      BY <1>6, <1>9, <2>3, <3>2, <3>3, <3>4
    <3>. QED BY <1>9, <3>1, <3>3, <3>5
  <2>. QED BY <2>1, <2>2, <2>3
<1>12. ASSUME NEW d \in Buffers PROVE BufferInv(d)'
  <2>1. CASE d = b
    <3>1. Newest(d)'
      BY <1>5, <1>11, <2>1 DEF Newest
    <3>2. \A i \in 1..Len(data'[d]) : data'[d][i] <= Top'
      <4> SUFFICES ASSUME NEW i \in 1..Len(data'[b]) PROVE data'[b][i] <= x
        BY <1>5, <2>1
      <4>1. data'[b][i] \in ToSet(s) \cup {x}
        BY <1>11 DEF ToSet
      <4>. QED BY <1>1, <1>10, <4>1
    <3>3. ~(d > created')
      BY <1>2, <1>3, <1>4, <2>1
    <3>. QED BY <1>11, <2>1, <3>1, <3>2, <3>3 DEF BufferInv
  <2>2. CASE d # b
    <3>1. BufferInv(d) /\ data[d] \in Seq(Chunks)
      BY DEF ContentInv, PipeTypeInv, ContentTypes
    <3>2. d # current' /\ pc'[OutputC] # "write"
      BY <1>1, <1>2, <1>4, <2>2, BufferFacts DEF ContentInv
    <3>3. \A i \in 1..Len(data[d]) : data[d][i] <= Top'
      <4> SUFFICES ASSUME NEW i \in 1..Len(data[d]) PROVE data[d][i] <= x
        BY <1>5
      <4>1. data[d][i] <= x - 1 /\ data[d][i] \in Nat
        BY <1>1, <3>1, ChunkNumbers DEF BufferInv
      <4>. QED BY <1>1, <4>1
    <3>. QED BY <1>4, <2>2, <3>1, <3>2, <3>3 DEF BufferInv
  <2>. QED BY <2>1, <2>2
<1>13. ASSUME NEW m \in CleanedMessage, Below(m, Top) PROVE Below(m, Top')
  <2>1. m.chunks \in Seq(Chunks)
    BY DEF CleanedMessage
  <2>. QED BY <1>1, <1>5, <1>13, <2>1, ChunkNumbers DEF Below
<1>14. MessagesInv'
  <2>1. \A i \in 1..Len(published) : published[i] \in CleanedMessage
    BY DEF PipeTypeInv, ContentTypes
  <2>2. \A a \in Actors : hand[a] # <<>> => hand[a][1] \in CleanedMessage
    BY DEF PipeTypeInv, ContentTypes
  <2>. QED BY <1>4, <1>13, <2>1, <2>2 DEF ContentInv, MessagesInv
<1>15. ContentInv'
    BY <1>4, <1>12, <1>14 DEF ContentInv
<1>16. /\ ~Said(x) /\ (\A a \in Actors : ~Saying(a, x)) /\ (\A d \in Buffers : ~Within(d, x))
  <2>1. ASSUME NEW m, Below(m, Top) PROVE x \notin ToSet(m.chunks)
    BY <1>1, <2>1 DEF Below, ToSet
  <2>2. ~Said(x)
    BY <2>1 DEF Said, ContentInv, MessagesInv
  <2>3. \A a \in Actors : ~Saying(a, x)
    BY <2>1 DEF Saying, ContentInv, MessagesInv
  <2>4. \A d \in Buffers : ~Within(d, x)
    BY <1>1 DEF Within, ToSet, ContentInv, BufferInv
  <2>. QED BY <2>2, <2>3, <2>4
<1>17. ASSUME NEW y
       PROVE  /\ Said(y)' <=> Said(y)
              /\ \A a \in Actors : Saying(a, y)' <=> Saying(a, y)
              /\ \A d \in Buffers : Within(d, y)' => Within(d, y) \/ (d = b /\ y = x)
  <2>1. (Said(y)' <=> Said(y)) /\ \A a \in Actors : Saying(a, y)' <=> Saying(a, y)
    BY <1>4 DEF Said, Saying
  <2>2. ASSUME NEW d \in Buffers, Within(d, y)' PROVE Within(d, y) \/ (d = b /\ y = x)
    <3>1. CASE d = b
      BY <1>11, <2>2, <3>1 DEF Within, s
    <3>2. CASE d # b
      BY <1>4, <2>2, <3>2 DEF Within
    <3>. QED BY <3>1, <3>2
  <2>. QED BY <2>1, <2>2
<1>18. PlacesApart'
  <2> SUFFICES ASSUME NEW y \in Chunks
               PROVE  /\ \A c \in Actors : Saying(c, y)' => ~Said(y)'
                      /\ \A d \in Buffers : Within(d, y)' => ~Said(y)'
                      /\ \A c, e \in Actors : Saying(c, y)' /\ Saying(e, y)' => c = e
                      /\ \A d, e \in Buffers : Within(d, y)' /\ Within(e, y)' => d = e
                      /\ \A c \in Actors, d \in Buffers : ~(Saying(c, y)' /\ Within(d, y)')
    BY DEF PlacesApart
  <2>1. /\ \A c \in Actors : Saying(c, y) => ~Said(y)
        /\ \A d \in Buffers : Within(d, y) => ~Said(y)
        /\ \A c, e \in Actors : Saying(c, y) /\ Saying(e, y) => c = e
        /\ \A d, e \in Buffers : Within(d, y) /\ Within(e, y) => d = e
        /\ \A c \in Actors, d \in Buffers : ~(Saying(c, y) /\ Within(d, y))
    BY DEF PlacesApart
  <2>. QED BY <1>16, <1>17, <2>1
<1>19. SaidOnce'
    BY <1>4 DEF SaidOnce
<1>. QED BY <1>15, <1>18, <1>19

-----------------------------------------------------------------------------

\* Before the first cleanup and the shutdown there is one buffer.
Calm == pending = Lifecycle /\ ~stopped
CalmInv ==
    /\ cleaner \in {"timer", "buffer"} => pending # Lifecycle
    /\ shutdown # "no" => stopped
    /\ Calm => \A a \in Actors : held[a] \in {0, current}
PipelineInv ==
    PipeTypeInv /\ FreshTimers /\ ContentInv /\ PlacesApart /\ SaidOnce /\ CalmInv /\ NoStrandedOutput

LEMMA FreshRecv ==
    ASSUME PipeTypeInv, FreshTimers, OutputRecv
    PROVE  FreshTimers'
<1>1. /\ pc'[OutputC] = "write" /\ (\A c \in Chunks : pc'[c] = pc[c])
      /\ received' = received + 1 /\ received < MaxChunks
    BY ActorFacts DEF OutputRecv, Goto, PipeTypeInv, ActorTypes
<1>2. received \in Nat /\ MaxChunks \in Nat /\ \A c \in Chunks : c \in Nat
    BY ActorFacts DEF PipeTypeInv, ActorTypes
<1>3. received' \in Chunks /\ received' > received
    BY <1>1, <1>2 DEF Chunks
<1>4. \A c \in Chunks : c > received' => c > received
    BY <1>1, <1>2
<1>. QED BY <1>1, <1>3, <1>4 DEF FreshTimers

LEMMA FreshWrite ==
    ASSUME PipeTypeInv, FreshTimers, OutputWrite
    PROVE  FreshTimers'
<1>1. /\ pc[OutputC] = "write" /\ pc'[OutputC] = "detect" /\ (\A c \in Chunks : pc'[c] = pc[c])
      /\ UNCHANGED <<received, held>> /\ gen' = [gen EXCEPT ![held[OutputC]] = received]
    BY ActorFacts DEF OutputWrite, Goto, PipeTypeInv, ActorTypes, serviceVars
<1>2. held[OutputC] \in Buffers
    BY <1>1, ActorFacts DEF PipeTypeInv, HeldInv, AtBuffer
<1>3. gen'[held[OutputC]] = received
    BY <1>1, <1>2 DEF PipeTypeInv, ContentTypes
<1>. QED BY <1>1, <1>3 DEF FreshTimers

LEMMA NotCalm ==
    ASSUME PipeTypeInv, CalmInv, Clean \/ ClosingDown
    PROVE  CalmInv' /\ ~Calm'
<1> USE DEF serviceVars
<1>1. ASSUME NEW e \in Lifecycle, CleanRecv(e) PROVE CalmInv' /\ ~Calm'
  <2>1. pending' # Lifecycle /\ UNCHANGED <<shutdown, stopped>>
    BY <1>1 DEF CleanRecv
  <2>. QED BY <2>1 DEF CalmInv, Calm
<1>2. CASE CleanTimer \/ CleanState
    BY <1>2 DEF CleanTimer, CleanState, CalmInv, Calm
<1>3. CASE ClosingDown
  <2>1. stopped' /\ UNCHANGED pending /\ (cleaner' \in {"timer", "buffer"} => cleaner' = cleaner)
    BY <1>3 DEF ClosingDown, ShutdownStart, ShutdownTimers, ShutdownState, ShutdownWait, CleanerEnd,
                WorkerEnd, CalmInv
  <2>. QED BY <2>1 DEF CalmInv, Calm
<1>. QED BY <1>1, <1>2, <1>3 DEF Clean

\* The steps that leave the lifecycle alone.
LEMMA CalmKept ==
    ASSUME CalmInv, UNCHANGED <<pending, stopped, shutdown, cleaner>>,
           Calm => \A a \in Actors : held'[a] \in {0, current'}
    PROVE  CalmInv' /\ (Calm' <=> Calm)
    BY DEF CalmInv, Calm

\* Who is responsible stays so as long as it stays where it is.
LEMMA WitnessKept ==
    ASSUME NEW b \in Buffers, Responsible(b), gen' = gen,
           \A a \in Actors : pc[a] \in {"detect", "cancel", "flush", "pending", "generation"}
                             => pc'[a] = pc[a] /\ held'[a] = held[a]
    PROVE  Responsible(b)'
<1>1. CASE held[OutputC] = b /\ pc[OutputC] = "detect"
    BY <1>1, ActorFacts DEF Responsible
<1>2. ASSUME NEW a \in Actors, held[a] = b, pc[a] \in {"cancel", "flush"} PROVE Responsible(b)'
    BY <1>2 DEF Responsible
<1>3. ASSUME NEW c \in Chunks, held[c] = b, gen[b] = c, pc[c] \in {"pending", "generation"}
      PROVE  Responsible(b)'
    BY <1>3, ActorFacts DEF Responsible
<1>. QED BY <1>1, <1>2, <1>3 DEF Responsible

\* In the calm whoever works on a buffer works on the session's.
LEMMA CalmHeld ==
    ASSUME PipeTypeInv, CalmInv, Calm, NEW a \in Actors, pc[a] \in AtBuffer
    PROVE  held[a] = current /\ current \in Buffers
    BY BufferFacts DEF CalmInv, PipeTypeInv, HeldInv

LEMMA CalmFlush ==
    ASSUME PipeTypeInv, CalmInv, NoStrandedOutput, NEW a \in Actors, Flush(a)
    PROVE  CalmInv' /\ NoStrandedOutput'
<1> USE DEF bufVars, serviceVars
<1>1. \/ held' = held
      \/ held' = [held EXCEPT ![a] = 0]
    BY DEF Flush, FlushCancel, FlushTake, FlushPublish
<1>2. UNCHANGED <<pending, stopped, shutdown, cleaner, current, gen>>
    BY DEF Flush, FlushCancel, FlushTake, FlushPublish
<1>3. \A c \in Actors : held'[c] \in {0, held[c]} /\ (c # a => held'[c] = held[c])
    BY <1>1 DEF PipeTypeInv, ActorTypes
<1>4. CalmInv' /\ (Calm' <=> Calm)
    BY <1>2, <1>3, CalmKept DEF CalmInv
<1>5. SUFFICES ASSUME Calm, current # 0, data'[current] # <<>>
               PROVE  Responsible(current)'
    BY <1>2, <1>4 DEF NoStrandedOutput, Calm
<1>6. CASE FlushCancel(a)
  <2> DEFINE then == [pc EXCEPT ![a] = "flush"]
  <2>1. pc' = StopSlot(then) /\ pc[a] = "cancel" /\ held' = held
    BY <1>6 DEF FlushCancel
  <2>2. then \in [Actors -> PipePlaces] /\ then[a] = "flush"
    BY GotoMoves DEF PipePlaces, PipeTypeInv
  <2> HIDE DEF then
  <2>3. pc'[a] = "flush"
    BY <2>1, <2>2, SlotStops DEF PipeTypeInv
  <2>4. held'[a] = current
    BY <1>5, <2>1, CalmHeld DEF AtBuffer
  <2>. QED BY <1>2, <2>3, <2>4 DEF Responsible
<1>7. CASE FlushTake(a)
  <2>1. held[a] = current /\ current \in Buffers
    BY <1>5, <1>7, CalmHeld DEF FlushTake, AtBuffer
  <2>2. data'[current] = <<>>
    BY <1>7, <2>1 DEF FlushTake, PipeTypeInv, ContentTypes
  <2>. QED BY <1>5, <2>2
<1>8. CASE FlushPublish(a)
  <2>1. data[current] # <<>> /\ current \in Buffers
    BY <1>5, <1>8 DEF FlushPublish, PipeTypeInv, ControlTypes
  <2>2. Responsible(current)
    BY <1>5, <2>1 DEF NoStrandedOutput, Calm
  <2>3. pc[a] \in {"idle", "publish"} /\ \A c \in Actors : c # a => pc'[c] = pc[c]
    BY <1>8 DEF FlushPublish, Goto, PipeTypeInv, ActorTypes
  <2>4. Responsible(current)'
    <3> PICK b \in Buffers : b = current /\ b = current'
      BY <1>2, <2>1
    <3>1. Responsible(b)
      BY <2>2
    <3>2. Responsible(b)'
      BY <1>2, <1>3, <2>3, <3>1, WitnessKept
    <3>. QED BY <3>2
  <2>. QED BY <2>4
<1>. QED BY <1>6, <1>7, <1>8 DEF Flush

LEMMA CalmTimer ==
    ASSUME PipeTypeInv, CalmInv, NoStrandedOutput, NEW c \in Chunks, Timer(c)
    PROVE  CalmInv' /\ NoStrandedOutput'
<1> USE DEF bufVars, serviceVars
<1>1. UNCHANGED <<held, pending, stopped, shutdown, cleaner, current, gen, data>>
    BY DEF Timer, TimerFire, TimerGeneration
<1>2. CalmInv' /\ (Calm' <=> Calm)
    BY <1>1, CalmKept DEF CalmInv
<1>3. SUFFICES ASSUME Calm, current # 0, data[current] # <<>>
               PROVE  Responsible(current)'
    BY <1>1, <1>2 DEF NoStrandedOutput, Calm
<1>4. PICK b \in Buffers : b = current /\ b = current'
    BY <1>1, <1>3 DEF PipeTypeInv, ControlTypes
<1>5. Responsible(b)
    BY <1>3, <1>4 DEF NoStrandedOutput, Calm
<1>6. c \in Actors /\ c # OutputC /\ \A a \in Actors : a # c => pc'[a] = pc[a]
    BY ActorFacts DEF Timer, TimerFire, TimerGeneration, Goto, PipeTypeInv, ActorTypes
<1>7. pc[c] \in {"pending", "generation"} /\ held[c] = b
    BY <1>3, <1>4, <1>6, CalmHeld DEF Timer, TimerFire, TimerGeneration, AtBuffer
<1>8. gen[b] = c => pc'[c] \in {"generation", "cancel"}
    BY <1>3, <1>6, <1>7 DEF Timer, TimerFire, TimerGeneration, Goto, Calm, PipeTypeInv, ActorTypes
<1>9. CASE gen[b] = c
    BY <1>1, <1>4, <1>6, <1>7, <1>8, <1>9 DEF Responsible
<1>10. CASE gen[b] # c
  <2>1. CASE held[OutputC] = b /\ pc[OutputC] = "detect"
    BY <1>1, <1>4, <1>6, <2>1, ActorFacts DEF Responsible
  <2>2. ASSUME NEW a \in Actors, held[a] = b, pc[a] \in {"cancel", "flush"} PROVE Responsible(b)'
    BY <1>1, <1>6, <1>7, <2>2 DEF Responsible
  <2>3. ASSUME NEW d \in Chunks, held[d] = b, gen[b] = d, pc[d] \in {"pending", "generation"}
        PROVE  Responsible(b)'
    BY <1>1, <1>6, <1>10, <2>3, ActorFacts DEF Responsible
  <2>. QED BY <1>4, <1>5, <2>1, <2>2, <2>3 DEF Responsible
<1>. QED BY <1>9, <1>10

\* What is left: the steps of the two consumers that touch no one else's place.
LEMMA CalmAlone ==
    ASSUME PipeTypeInv, CalmInv, NoStrandedOutput,
           UNCHANGED <<pending, stopped, shutdown, cleaner, current, gen, data>>,
           NEW w \in Workers, pc[w] \in {"recv", "store", "settool"}, held'[w] \in {0, current},
           \A a \in Actors : a # w => pc'[a] = pc[a] /\ held'[a] = held[a]
    PROVE  CalmInv' /\ NoStrandedOutput'
<1>1. CalmInv' /\ (Calm' <=> Calm)
    BY CalmKept DEF CalmInv
<1>2. SUFFICES ASSUME Calm, current # 0, data[current] # <<>>
               PROVE  Responsible(current)'
    BY <1>1 DEF NoStrandedOutput, Calm
<1>3. PICK b \in Buffers : b = current /\ b = current'
    BY <1>2 DEF PipeTypeInv, ControlTypes
<1>4. Responsible(b)
    BY <1>2, <1>3 DEF NoStrandedOutput, Calm
<1>5. Responsible(b)'
    BY <1>4, WitnessKept
<1>. QED BY <1>3, <1>5

LEMMA CalmTool ==
    ASSUME PipeTypeInv, CalmInv, NoStrandedOutput, Tool
    PROVE  CalmInv' /\ NoStrandedOutput'
<1>1. /\ UNCHANGED <<pending, stopped, shutdown, cleaner, current, gen, data>>
      /\ pc[ToolC] \in {"recv", "settool"}
      /\ held' = [held EXCEPT ![ToolC] = current] \/ (held' = held)
      /\ \E p \in PipePlaces : pc' = [pc EXCEPT ![ToolC] = p]
    BY DEF Tool, ToolRecv, ToolSet, Goto, bufVars, PipePlaces
<1>2. ToolC \in Workers /\ ToolC \in Actors
    BY DEF Workers, Actors
<1>3. \A a \in Actors : a # ToolC => pc'[a] = pc[a] /\ held'[a] = held[a]
    BY <1>1 DEF PipeTypeInv, ActorTypes
<1>4. CASE held'[ToolC] \in {0, current}
    BY <1>1, <1>2, <1>3, <1>4, CalmAlone
<1>5. CASE held'[ToolC] \notin {0, current}
  <2>1. held' = held /\ ~Calm
    BY <1>1, <1>2, <1>5 DEF PipeTypeInv, ActorTypes, CalmInv
  <2>2. CalmInv' /\ ~Calm'
    BY <1>1, <2>1, CalmKept
  <2>. QED BY <2>2 DEF NoStrandedOutput, Calm
<1>. QED BY <1>4, <1>5

LEMMA CalmOutput ==
    ASSUME PipeTypeInv, FreshTimers, ContentInv, CalmInv, NoStrandedOutput, Output
    PROVE  CalmInv' /\ NoStrandedOutput'
<1> USE DEF bufVars, serviceVars
<1>0. UNCHANGED <<pending, stopped, shutdown, cleaner>> /\ OutputC \in Actors /\ OutputC \in Workers
    BY ActorFacts DEF Output, OutputRecv, OutputWrite, OutputDetect, OutputReset, OutputStore, Workers
<1>1. CASE OutputRecv
  <2>1. /\ pc[OutputC] = "recv" /\ held'[OutputC] = current'
        /\ \A a \in Actors : a # OutputC => pc'[a] = pc[a] /\ held'[a] = held[a]
        /\ UNCHANGED <<gen, data>>
        /\ \/ current # 0 /\ current' = current
           \/ current = 0 /\ current' = created + 1
    BY <1>0, <1>1 DEF OutputRecv, Goto, PipeTypeInv, ActorTypes
  <2>2. CASE current # 0 /\ current' = current
    BY <1>0, <2>1, <2>2, CalmAlone
  <2>3. CASE current = 0 /\ current' = created + 1
    <3>1. Calm => \A a \in Actors : held'[a] \in {0, current'}
      BY <2>1, <2>3 DEF CalmInv
    <3>2. CalmInv'
      BY <1>0, <3>1, CalmKept
    <3>3. current' \in Buffers /\ created \in Nat /\ created + 1 > created
      BY <2>3, BufferLeft, BufferFacts DEF PipeTypeInv, ControlTypes
    <3>4. data[current'] = <<>>
      BY <2>3, <3>3 DEF ContentInv, BufferInv
    <3>. QED BY <2>1, <3>2, <3>4 DEF NoStrandedOutput
  <2>. QED BY <2>1, <2>2, <2>3
<1>2. CASE OutputWrite
  <2>1. pc[OutputC] = "write" /\ pc'[OutputC] = "detect" /\ UNCHANGED <<held, current>>
    BY <1>0, <1>2 DEF OutputWrite, Goto, PipeTypeInv, ActorTypes
  <2>2. CalmInv' /\ (Calm' <=> Calm)
    BY <1>0, <2>1, CalmKept DEF CalmInv
  <2>3. Calm => held[OutputC] = current
    BY <1>0, <2>1, CalmHeld DEF AtBuffer
  <2>4. Calm => Responsible(current)'
    BY <2>1, <2>3 DEF Responsible
  <2>. QED BY <2>2, <2>4 DEF NoStrandedOutput, Calm
<1>3. CASE OutputDetect
  <2>1. pc[OutputC] = "detect" /\ pc'[OutputC] = "cancel" /\ UNCHANGED <<held, current>>
    BY <1>0, <1>3 DEF OutputDetect, Goto, PipeTypeInv, ActorTypes
  <2>2. CalmInv' /\ (Calm' <=> Calm)
    BY <1>0, <2>1, CalmKept DEF CalmInv
  <2>3. Calm => held[OutputC] = current
    BY <1>0, <2>1, CalmHeld DEF AtBuffer
  <2>4. Calm => Responsible(current)'
    BY <1>0, <2>1, <2>3 DEF Responsible
  <2>. QED BY <2>2, <2>4 DEF NoStrandedOutput, Calm
<1>4. CASE OutputReset
  <2> DEFINE then == [pc EXCEPT ![OutputC] = "store", ![received] = "pending"]
  <2>1. /\ pc' = StopSlot(then) /\ pc[OutputC] = "detect" /\ UNCHANGED <<current, gen>>
        /\ held' = [held EXCEPT ![received] = held[OutputC]]
    BY <1>4 DEF OutputReset
  <2>2. received \in Chunks /\ received \in Actors /\ pc[received] = "off" /\ gen[held[OutputC]] = received
    BY <2>1, ActorFacts DEF FreshTimers
  <2>3. then \in [Actors -> PipePlaces] /\ then[received] = "pending"
    BY <1>0, <2>2, ActorFacts DEF PipeTypeInv, ActorTypes, PipePlaces
  <2> HIDE DEF then
  <2>4. pc'[received] = "pending"
    BY <2>1, <2>2, <2>3, SlotStops DEF PipeTypeInv
  <2>5. /\ held'[received] = held[OutputC]
        /\ \A a \in Actors : a # received => held'[a] = held[a]
    BY <2>1, <2>2 DEF PipeTypeInv, ActorTypes
  <2>6. Calm => held[OutputC] = current
    BY <1>0, <2>1, CalmHeld DEF AtBuffer
  <2>7. Calm => \A a \in Actors : held'[a] \in {0, current'}
    BY <2>1, <2>5, <2>6 DEF CalmInv
  <2>8. CalmInv' /\ (Calm' <=> Calm)
    BY <1>0, <2>7, CalmKept
  <2>9. Calm => Responsible(current)'
    BY <2>1, <2>2, <2>4, <2>5, <2>6 DEF Responsible
  <2>. QED BY <2>8, <2>9 DEF NoStrandedOutput, Calm
<1>5. CASE OutputStore
  <2>1. /\ pc[OutputC] = "store" /\ held'[OutputC] = 0
        /\ \A a \in Actors : a # OutputC => pc'[a] = pc[a] /\ held'[a] = held[a]
        /\ UNCHANGED <<gen, data, current>>
    BY <1>0, <1>5 DEF OutputStore, Goto, PipeTypeInv, ActorTypes
  <2>. QED BY <1>0, <2>1, CalmAlone
<1>. QED BY <1>1, <1>2, <1>3, <1>4, <1>5 DEF Output

-----------------------------------------------------------------------------

LEMMA PipelineStarts == Init => PipelineInv
<1> SUFFICES ASSUME Init PROVE PipelineInv
    OBVIOUS
<1>1. /\ MaxChunks \in Nat /\ MaxSize \in Nat /\ MaxTools \in Nat /\ 0 \in 0..MaxChunks /\ 0 \in 0..MaxTools
      /\ OutputC \notin Chunks /\ OutputC \in Actors
    BY ActorFacts
<1>2. <<>> \in Seq(Chunks) /\ <<>> \in Seq(CleanedMessage) /\ Len(<<>>) = 0
    OBVIOUS
<1>3. ActorTypes
    BY <1>1 DEF Init, ActorTypes, PipePlaces
<1>4. ContentTypes
  <2>1. data \in [Buffers -> Seq(Chunks)] /\ \A b \in Buffers : Len(data[b]) <= MaxSize
    BY <1>1, <1>2, ActorFacts DEF Init
  <2>2. gen \in [Buffers -> 0..MaxChunks] /\ start \in [Buffers -> 0..MaxChunks]
    BY <1>1 DEF Init
  <2>3. over \in [Buffers -> BOOLEAN]
    BY DEF Init
  <2>4. hand \in [Actors -> Seq(CleanedMessage)] /\ published \in Seq(CleanedMessage)
    BY <1>2 DEF Init
  <2>. QED BY <2>1, <2>2, <2>3, <2>4 DEF ContentTypes
<1>5. ControlTypes
    BY <1>1 DEF Init, ControlTypes
<1>6. HeldInv
    BY DEF Init, HeldInv, AtBuffer
<1>7. CreateInv
  <2>1. Lifecycle \ pending = {} /\ Cardinality(Lifecycle \ pending) = 0
    BY FS_EmptySet DEF Init
  <2>2. Spent = 1 /\ Granted = 1
    BY <2>1 DEF Init, Spent, Granted
  <2>. QED BY <2>2 DEF CreateInv
<1>8. FreshTimers
  <2>1. pc[OutputC] = "recv" /\ \A c \in Chunks : pc[c] = "off"
    BY <1>1, ActorFacts DEF Init
  <2>. QED BY <2>1 DEF FreshTimers
<1>9. ContentInv
  <2>1. \A b \in Buffers : data[b] = <<>> /\ ~over[b]
    BY DEF Init
  <2>2. published = <<>> /\ pc[OutputC] = "recv" /\ \A a \in Actors : hand[a] = <<>>
    BY <1>1 DEF Init
  <2>3. Run(<<>>)
    BY <1>2 DEF Run
  <2>4. \A b \in Buffers : BufferInv(b)
    BY <1>2, <2>1, <2>2, <2>3 DEF BufferInv, Newest
  <2>5. MessagesInv
    BY <1>2, <2>2 DEF MessagesInv
  <2>. QED BY <2>2, <2>4, <2>5 DEF ContentInv
<1>10. PlacesApart /\ SaidOnce
  <2>1. \A x : ~Said(x)
    BY <1>2 DEF Init, Said
  <2>2. \A x : \A a \in Actors : ~Saying(a, x)
    BY DEF Init, Saying
  <2>3. \A x : \A b \in Buffers : ~Within(b, x)
    BY <1>2 DEF Init, Within, ToSet
  <2>4. SaidOnce
    BY <1>2 DEF Init, SaidOnce
  <2>. QED BY <2>1, <2>2, <2>3, <2>4 DEF PlacesApart
<1>11. CalmInv
    BY DEF Init, CalmInv
<1>12. NoStrandedOutput
    BY DEF Init, NoStrandedOutput
<1>. QED BY <1>3, <1>4, <1>5, <1>6, <1>7, <1>8, <1>9, <1>10, <1>11, <1>12 DEF PipelineInv, PipeTypeInv

LEMMA PipelineGoes == PipelineInv /\ [Next]_vars => PipelineInv'
<1> SUFFICES ASSUME PipelineInv, [Next]_vars PROVE PipelineInv'
    OBVIOUS
<1> USE DEF PipelineInv
<1>1. ASSUME NEW a \in Actors, Flush(a) PROVE PipelineInv'
  <2>1. PipeTypeInv' /\ FreshTimers'
    BY <1>1, FlushTypes, SteadyFlush, TimersSteady
  <2>2. ContentInv' /\ PlacesApart' /\ SaidOnce'
    BY <1>1, SteadyFlush, ContentQuiet, ContentTake, ContentPublish DEF Flush
  <2>3. CalmInv' /\ NoStrandedOutput'
    BY <1>1, CalmFlush
  <2>. QED BY <2>1, <2>2, <2>3
<1>2. CASE Output
  <2>1. PipeTypeInv'
    BY <1>2, OutputTypes
  <2>2. FreshTimers'
    BY <1>2, FreshRecv, FreshWrite, SteadyOutput, TimersSteady DEF Output, Quiet
  <2>3. ContentInv' /\ PlacesApart' /\ SaidOnce'
    BY <1>2, ContentReceive, ContentWrite, SteadyOutput, ContentQuiet DEF Output
  <2>4. CalmInv' /\ NoStrandedOutput'
    BY <1>2, CalmOutput
  <2>. QED BY <2>1, <2>2, <2>3, <2>4
<1>3. CASE Tool \/ (\E c \in Chunks : Timer(c))
  <2>1. Quiet
    BY <1>3, SteadyRest
  <2>2. PipeTypeInv' /\ FreshTimers' /\ ContentInv' /\ PlacesApart' /\ SaidOnce'
    BY <1>3, <2>1, TimerToolTypes, TimersSteady, ContentQuiet DEF Quiet
  <2>3. CalmInv' /\ NoStrandedOutput'
    BY <1>3, CalmTimer, CalmTool
  <2>. QED BY <2>2, <2>3
<1>4. CASE Clean \/ ClosingDown
  <2>1. Quiet
    BY <1>4, SteadyRest
  <2>2. PipeTypeInv' /\ FreshTimers' /\ ContentInv' /\ PlacesApart' /\ SaidOnce'
    BY <1>4, <2>1, CleanTypes, CloseTypes, TimersSteady, ContentQuiet DEF Quiet
  <2>3. CalmInv' /\ ~Calm'
    BY <1>4, NotCalm
  <2>. QED BY <2>2, <2>3 DEF NoStrandedOutput, Calm
<1>5. CASE UNCHANGED vars
  <2>1. PipeTypeInv'
    BY <1>5 DEF vars, bufVars, flushVars, serviceVars, PipeTypeInv, ActorTypes, ContentTypes, ControlTypes,
                HeldInv, CreateInv, Spent, Granted
  <2>2. FreshTimers' /\ ContentInv' /\ PlacesApart' /\ SaidOnce'
    BY <1>5, SteadyRest, TimersSteady, ContentQuiet DEF Quiet
  <2>3. CalmInv' /\ NoStrandedOutput'
    BY <1>5 DEF vars, bufVars, flushVars, serviceVars, CalmInv, Calm, NoStrandedOutput, Responsible
  <2>. QED BY <2>1, <2>2, <2>3
<1>. QED BY <1>1, <1>2, <1>3, <1>4, <1>5 DEF Next

\* The state of the pipeline has its type: no more buffers are made than the
\* session's clearings allow, and no buffer outgrows MaxSize
\* (internal/contentpipeline/service.go).
THEOREM PipelineTypeCorrect == Spec => []TypeOK
<1>1. PipelineInv => TypeOK
    BY PipeTypesSplit DEF PipelineInv, PipeTypeInv
<1>. QED BY <1>1, PipelineStarts, PipelineGoes, PTL DEF Spec

\* Nothing is said twice, and nothing is said that is still buffered.
LEMMA OutputSaidOnce ==
    ASSUME PipelineInv
    PROVE  OutputOnce
<1> USE DEF PipelineInv
<1>1. PICK n \in Nat : Len(published) = n
    BY DEF PipeTypeInv, ContentTypes
<1>2. \A i \in 1..n : MarkedRun(published[i]) /\ published[i] \in CleanedMessage
    BY <1>1 DEF ContentInv, MessagesInv, PipeTypeInv, ContentTypes
<1>3. ASSUME NEW m \in Flushed
      PROVE  \/ \E i \in 1..n : m = published[i]
             \/ \E a \in Actors : hand[a] # <<>> /\ m = hand[a][1]
  <2>1. CASE m \in ToSet(published)
    BY <1>1, <2>1 DEF ToSet
  <2>2. ASSUME NEW a \in Actors, m \in ToSet(hand[a])
        PROVE  hand[a] # <<>> /\ m = hand[a][1]
    <3>1. hand[a] \in Seq(CleanedMessage) /\ Len(hand[a]) <= 1
      BY DEF PipeTypeInv, ContentTypes, ContentInv, MessagesInv
    <3>2. PICK k \in Nat : Len(hand[a]) = k
      BY <3>1
    <3>3. PICK i \in 1..k : m = hand[a][i]
      BY <2>2, <3>2 DEF ToSet
    <3>4. i = 1 /\ k = 1
      BY <3>1, <3>2
    <3>5. Len(<<>>) = 0 /\ Len(hand[a]) # 0
      BY <3>2, <3>4
    <3>6. hand[a] # <<>>
      BY <3>5
    <3>. QED BY <3>3, <3>4, <3>6
  <2>. QED BY <2>1, <2>2 DEF Flushed
<1>4. ASSUME NEW m \in Flushed PROVE MarkedRun(m) /\ m \in CleanedMessage
  <2>1. ASSUME NEW a \in Actors, hand[a] # <<>> PROVE MarkedRun(hand[a][1]) /\ hand[a][1] \in CleanedMessage
    BY <2>1 DEF ContentInv, MessagesInv, PipeTypeInv, ContentTypes
  <2>. QED BY <1>2, <1>3, <2>1
<1>5. ASSUME NEW m \in Flushed, NEW x \in ToSet(m.chunks) PROVE x \in Chunks
    BY <1>4 DEF CleanedMessage, ToSet
<1>6. ASSUME NEW m \in Flushed, NEW x \in ToSet(m.chunks)
      PROVE  \/ \E i \in 1..n : m = published[i] /\ Said(x)
             \/ \E a \in Actors : m = hand[a][1] /\ Saying(a, x)
    BY <1>1, <1>3 DEF Said, Saying
<1>7. ASSUME NEW m \in Flushed, NEW o \in Flushed, NEW x \in Chunks,
             x \in ToSet(m.chunks), x \in ToSet(o.chunks)
      PROVE  m = o
  <2>1. /\ ~(Said(x) /\ \E a \in Actors : Saying(a, x))
        /\ \A a, c \in Actors : Saying(a, x) /\ Saying(c, x) => a = c
    BY DEF PlacesApart
  <2>2. CASE \E a \in Actors : m = hand[a][1] /\ Saying(a, x)
    BY <1>6, <1>7, <2>1, <2>2
  <2>3. CASE Said(x)
    <3>1. PICK i \in 1..n, j \in 1..n : m = published[i] /\ o = published[j]
      BY <1>6, <1>7, <2>1, <2>3
    <3>2. i = j
      BY <1>1, <1>7, <3>1 DEF SaidOnce
    <3>. QED BY <3>1, <3>2
  <2>. QED BY <1>6, <1>7, <2>2, <2>3
<1>8. ASSUME NEW m \in Flushed, NEW b \in Buffers, NEW x \in ToSet(m.chunks), x \in ToSet(data[b])
      PROVE  FALSE
    BY <1>5, <1>6, <1>8 DEF PlacesApart, Within
<1>9. ASSUME NEW i \in 1..n, NEW j \in 1..n, published[i] = published[j] PROVE i = j
  <2>1. published[i].chunks \in Seq(Chunks) /\ published[i].chunks # <<>>
    BY <1>2 DEF MarkedRun, CleanedMessage
  <2>2. PICK x \in Chunks : x \in ToSet(published[i].chunks)
    <3>1. 1 \in 1..Len(published[i].chunks) /\ published[i].chunks[1] \in Chunks
      <4>1. Len(published[i].chunks) \in Nat \ {0}
        BY <2>1, EmptySeq
      <4>. QED BY <2>1, <4>1
    <3>. QED BY <3>1 DEF ToSet
  <2>. QED BY <1>1, <1>9, <2>2 DEF SaidOnce
<1>10. \A m \in Flushed : Run(m.chunks)
    BY <1>4 DEF MarkedRun
<1>11. \A b \in Buffers : Run(data[b])
    BY DEF ContentInv, BufferInv
<1>. QED BY <1>1, <1>5, <1>7, <1>8, <1>9, <1>10, <1>11 DEF OutputOnce

\* However the flushes overlap, no chunk is in two messages, or in a message and
\* still in a buffer; a message is a run of chunks, and says so if it lacks their
\* beginning; and until the session's first cleanup or the shutdown some party is
\* going to flush what is buffered, whichever timers were stopped
\* (flushAndProcess, resetIdleTimer and its callback, internal/contentpipeline).
THEOREM OutputFlowsWhole == Spec => []OutputFlows
<1>1. ASSUME PipelineInv PROVE TruncationMarked
  <2>1. ASSUME NEW i \in 1..Len(published) PROVE MarkedRun(published[i])
    BY <1>1 DEF PipelineInv, ContentInv, MessagesInv
  <2>2. ASSUME NEW a \in Actors, NEW i \in 1..Len(hand[a]) PROVE MarkedRun(hand[a][i])
    <3>1. hand[a] \in Seq(CleanedMessage) /\ Len(hand[a]) <= 1
      BY <1>1 DEF PipelineInv, PipeTypeInv, ContentTypes, ContentInv, MessagesInv
    <3>2. PICK k \in Nat : Len(hand[a]) = k
      BY <3>1
    <3>3. i = 1 /\ k = 1
      BY <3>1, <3>2
    <3>4. Len(<<>>) = 0 /\ Len(hand[a]) # 0
      BY <3>2, <3>3
    <3>5. hand[a] # <<>>
      BY <3>4
    <3>. QED BY <1>1, <3>3, <3>5 DEF PipelineInv, ContentInv, MessagesInv
  <2>3. ASSUME NEW m \in Flushed PROVE MarkedRun(m)
    BY <2>1, <2>2 DEF Flushed, ToSet
  <2>. QED BY <2>3 DEF TruncationMarked, MarkedRun
<1>2. PipelineInv => OutputFlows
    BY <1>1, OutputSaidOnce DEF OutputFlows, OutputWhole, PipelineInv
<1>. QED BY <1>2, PipelineStarts, PipelineGoes, PTL DEF Spec
=============================================================================
