--------------------------- MODULE ContentPipeline ---------------------------
(***************************************************************************)
(* The content pipeline for one session (internal/contentpipeline): output *)
(* chunks are buffered until the tool is idle, then flushed, cleaned and   *)
(* published as one message.  Four parties share the buffer, the timer     *)
(* slot and the idle state, each guarded on its own: the output consumer,  *)
(* the tool consumer, the lifecycle consumer and the idle timers, whose    *)
(* callbacks run on goroutines of their own and may overlap.               *)
(*                                                                         *)
(* A chunk is a number, in output order, and one unit of buffer space.  A  *)
(* timer bears the number of the chunk that set it, and so does the buffer *)
(* generation: the counter is compared for equality only.                  *)
(***************************************************************************)
EXTENDS Naturals, Sequences, FiniteSets

CONSTANTS
    MaxChunks,   \* bound: output events of the session
    MaxSize,     \* OutputBuffer.maxSize, in chunks
    MaxTools,    \* bound: tool events of the session
    Lifecycle    \* lifecycle events that may be handled: "created", "stopped"

ASSUME ChunkAssumption == MaxChunks \in Nat /\ MaxSize \in Nat \ {0}
ASSUME ToolAssumption == MaxTools \in Nat
ASSUME LifecycleAssumption == Lifecycle \subseteq {"created", "stopped"}

Chunks == 1..MaxChunks
Buffers == 1..(2 + Cardinality(Lifecycle))   \* one more after each clearing
OutputC == MaxChunks + 1                     \* the output consumer
ToolC == MaxChunks + 2                       \* the tool consumer
Workers == {OutputC, ToolC}
Actors == Workers \cup Chunks                \* whoever may flush

VARIABLES
    received,  \* number of chunks the output consumer has taken
    current,   \* the session's buffer in Service.buffers, 0 if none
    created,   \* number of buffers created
    data,      \* data[b]: chunks in OutputBuffer b
    gen,       \* gen[b]: its generation, named by the last chunk written
    over,      \* over[b]: its overflowed flag
    start,     \* history: the first chunk written to b since its last flush
    pc,        \* pc[a]: where the consumer or the timer callback is
    held,      \* held[a]: the buffer it works on
    hand,      \* hand[a]: the message it has flushed, as a sequence of 0 or 1
    slot,      \* the session's timer in Service.idleTimers, 0 if none
    idle,      \* the session has an entry in Service.idleStates
    tools,     \* number of tool events received
    tool,      \* the session has a tool in toolBySession
    pending,   \* lifecycle events not yet handled
    cleaner,   \* where the lifecycle consumer is
    stopped,   \* Service.stopped
    shutdown,  \* where Shutdown is
    published  \* messages on the pipeline.cleaned topic, in order

bufVars == <<current, created, data, gen, over, start>>
flushVars == <<pc, held, hand>>
serviceVars == <<received, tools, tool, pending, cleaner, stopped, shutdown>>
vars == <<bufVars, slot, flushVars, serviceVars, idle, published>>

CleanedMessage == [chunks : Seq(Chunks), start : 0..MaxChunks, truncated : BOOLEAN]

TypeOK ==
    /\ received \in 0..MaxChunks
    /\ current \in Buffers \cup {0} /\ created \in Buffers \cup {0}
    /\ data \in [Buffers -> Seq(Chunks)]
    /\ \A b \in Buffers : Len(data[b]) <= MaxSize
    /\ gen \in [Buffers -> 0..MaxChunks]
    /\ over \in [Buffers -> BOOLEAN] /\ start \in [Buffers -> 0..MaxChunks]
    /\ pc \in [Actors -> {"off", "pending", "generation", "recv", "write",
                          "detect", "store", "settool",
                          "cancel", "flush", "idle", "publish", "end"}]
    /\ held \in [Actors -> Buffers \cup {0}]
    /\ hand \in [Actors -> Seq(CleanedMessage)]
    /\ slot \in 0..MaxChunks
    /\ idle \in BOOLEAN /\ tools \in 0..MaxTools /\ tool \in BOOLEAN
    /\ pending \subseteq Lifecycle
    /\ cleaner \in {"recv", "timer", "buffer", "end"}
    /\ stopped \in BOOLEAN
    /\ shutdown \in {"no", "timers", "buffers", "wait", "end"}
    /\ published \in Seq(CleanedMessage)

Init ==
    /\ received = 0 /\ current = 0 /\ created = 0
    /\ data = [b \in Buffers |-> <<>>] /\ gen = [b \in Buffers |-> 0]
    /\ over = [b \in Buffers |-> FALSE] /\ start = [b \in Buffers |-> 0]
    /\ pc = [a \in Actors |-> IF a \in Chunks THEN "off" ELSE "recv"]
    /\ held = [a \in Actors |-> 0] /\ hand = [a \in Actors |-> <<>>]
    /\ slot = 0
    /\ idle = FALSE /\ tools = 0 /\ tool \in BOOLEAN
    /\ pending = Lifecycle /\ cleaner = "recv"
    /\ stopped = FALSE /\ shutdown = "no"
    /\ published = <<>>

Goto(a, place) == pc' = [pc EXCEPT ![a] = place]

\* Timer.Stop on the session's timer: it no longer fires if it has not yet.
StopSlot(then) ==
    IF slot # 0 /\ pc[slot] = "pending" THEN [then EXCEPT ![slot] = "end"] ELSE then

-----------------------------------------------------------------------------
(* flushAndProcess, by whichever actor.                                    *)

FlushCancel(a) ==
    /\ pc[a] = "cancel"
    /\ pc' = StopSlot([pc EXCEPT ![a] = "flush"])
    /\ slot' = 0
    /\ UNCHANGED <<bufVars, held, hand, serviceVars, idle, published>>

FlushTake(a) ==
    /\ pc[a] = "flush"
    /\ LET b == held[a] IN
       /\ hand' = [hand EXCEPT ![a] =
                     IF data[b] = <<>> THEN <<>>
                     ELSE <<[chunks |-> data[b], start |-> start[b],
                             truncated |-> over[b]]>>]
       /\ data' = [data EXCEPT ![b] = <<>>] /\ over' = [over EXCEPT ![b] = FALSE]
       /\ start' = [start EXCEPT ![b] = 0]
    /\ Goto(a, IF current # 0 THEN "idle" ELSE "publish")
    /\ UNCHANGED <<current, created, gen, slot, held, serviceVars, idle,
                   published>>

\* The idle state is only touched if the session had a buffer just before; a
\* tool change is no idleness.  Cleaning is a function of the text, and nothing
\* is published for an empty one.
FlushPublish(a) ==
    /\ pc[a] \in {"idle", "publish"}
    /\ idle' = IF pc[a] = "idle" THEN a # ToolC ELSE idle
    /\ published' = published \o hand[a]
    /\ hand' = [hand EXCEPT ![a] = <<>>] /\ held' = [held EXCEPT ![a] = 0]
    /\ Goto(a, CASE a = OutputC -> "recv" [] a = ToolC -> "settool"
                 [] OTHER -> "end")
    /\ UNCHANGED <<bufVars, slot, serviceVars>>

Flush(a) == FlushCancel(a) \/ FlushTake(a) \/ FlushPublish(a)

-----------------------------------------------------------------------------
(* The output consumer: handleSessionOutput.                               *)

\* Take the next chunk; find the session's buffer or create it.
OutputRecv ==
    /\ pc[OutputC] = "recv" /\ received < MaxChunks
    /\ received' = received + 1
    /\ IF current = 0
          THEN created' = created + 1 /\ current' = created'
          ELSE UNCHANGED <<created, current>>
    /\ held' = [held EXCEPT ![OutputC] = current']
    /\ Goto(OutputC, "write")
    /\ UNCHANGED <<data, gen, over, start, slot, hand, tools, tool,
                   pending, cleaner, stopped, shutdown, idle, published>>

\* Mutant of OutputWrite: the oldest chunk stays when the buffer overflows.
OutputWrite_Grows ==
    /\ pc[OutputC] = "write"
    /\ LET b == held[OutputC]  new == Append(data[b], received) IN
       /\ data' = [data EXCEPT ![b] = new]
       /\ over' = [over EXCEPT ![b] = @ \/ Len(new) > MaxSize]
       /\ gen' = [gen EXCEPT ![b] = received]
       /\ start' = [start EXCEPT ![b] = IF data[b] = <<>> THEN received ELSE @]
    /\ Goto(OutputC, "detect")
    /\ UNCHANGED <<current, created, slot, held, hand, serviceVars, idle,
                   published>>

\* OutputBuffer.Write: append, count, and drop the oldest beyond maxSize.
OutputWrite ==
    /\ pc[OutputC] = "write"
    /\ LET b == held[OutputC]  new == Append(data[b], received) IN
       /\ data' = [data EXCEPT ![b] = IF Len(new) > MaxSize THEN Tail(new) ELSE new]
       /\ over' = [over EXCEPT ![b] = @ \/ Len(new) > MaxSize]
       /\ gen' = [gen EXCEPT ![b] = received]
       /\ start' = [start EXCEPT ![b] = IF data[b] = <<>> THEN received ELSE @]
    /\ Goto(OutputC, "detect")
    /\ UNCHANGED <<current, created, slot, held, hand, serviceVars, idle,
                   published>>

\* A tool handler may find the tool idle and flush.
OutputDetect ==
    /\ pc[OutputC] = "detect" /\ tool
    /\ Goto(OutputC, "cancel")
    /\ UNCHANGED <<bufVars, slot, held, hand, serviceVars, idle, published>>

\* Otherwise resetIdleTimer: stop the old timer, start a new one for the
\* present generation, and then store it.
OutputReset ==
    /\ pc[OutputC] = "detect"
    /\ pc' = StopSlot([pc EXCEPT ![OutputC] = "store", ![received] = "pending"])
    /\ held' = [held EXCEPT ![received] = held[OutputC]]
    /\ UNCHANGED <<bufVars, slot, hand, serviceVars, idle, published>>

OutputStore ==
    /\ pc[OutputC] = "store"
    /\ slot' = received
    /\ Goto(OutputC, "recv")
    /\ held' = [held EXCEPT ![OutputC] = 0]
    /\ UNCHANGED <<bufVars, hand, serviceVars, idle, published>>

Output == \/ OutputRecv \/ OutputWrite \/ OutputDetect \/ OutputReset
          \/ OutputStore

-----------------------------------------------------------------------------
(* The timer callbacks.                                                    *)

TimerFire(c) ==
    /\ pc[c] = "pending"
    /\ Goto(c, IF stopped THEN "end" ELSE "generation")
    /\ UNCHANGED <<bufVars, slot, held, hand, serviceVars, idle, published>>

\* Mutant of TimerGeneration: the check is inverted by a stale comparison, so a
\* timer that is still the right one is ignored.
TimerGeneration_Skips(c) ==
    /\ pc[c] = "generation"
    /\ Goto(c, IF gen[held[c]] # c THEN "cancel" ELSE "end")
    /\ UNCHANGED <<bufVars, slot, held, hand, serviceVars, idle, published>>

\* A timer set for an earlier generation leaves the flush to a later one.
TimerGeneration(c) ==
    /\ pc[c] = "generation"
    /\ Goto(c, IF gen[held[c]] = c THEN "cancel" ELSE "end")
    /\ UNCHANGED <<bufVars, slot, held, hand, serviceVars, idle, published>>

Timer(c) == TimerFire(c) \/ TimerGeneration(c)

-----------------------------------------------------------------------------
(* The tool consumer: a change of tool flushes the old tool's output.      *)

ToolRecv ==
    /\ pc[ToolC] = "recv" /\ tools < MaxTools
    /\ tools' = tools + 1
    /\ IF tool /\ current # 0 /\ data[current] # <<>>
          THEN /\ held' = [held EXCEPT ![ToolC] = current]
               /\ Goto(ToolC, "cancel") /\ UNCHANGED idle
          ELSE /\ idle' = ~tool /\ idle
               /\ Goto(ToolC, "settool") /\ UNCHANGED held
    /\ UNCHANGED <<bufVars, slot, hand, received, tool, pending, cleaner,
                   stopped, shutdown, published>>

ToolSet ==
    /\ pc[ToolC] = "settool"
    /\ tool' = TRUE
    /\ Goto(ToolC, "recv")
    /\ UNCHANGED <<bufVars, slot, held, hand, received, tools, pending,
                   cleaner, stopped, shutdown, idle, published>>

Tool == ToolRecv \/ ToolSet

-----------------------------------------------------------------------------
(* The lifecycle consumer: cleanupSessionBuffer on "created" and "stopped". *)

CleanRecv(e) ==
    /\ cleaner = "recv" /\ e \in pending
    /\ e = "stopped" => "created" \notin pending
    /\ pending' = pending \ {e}
    /\ tool' = FALSE
    /\ cleaner' = "timer"
    /\ UNCHANGED <<bufVars, slot, flushVars, received, tools, stopped,
                   shutdown, idle, published>>

CleanTimer ==
    /\ cleaner = "timer"
    /\ pc' = StopSlot(pc) /\ slot' = 0
    /\ cleaner' = "buffer"
    /\ UNCHANGED <<bufVars, held, hand, received, tools, tool, pending,
                   stopped, shutdown, idle, published>>

\* The buffer and the idle state: no other party tells the two steps apart.
CleanState ==
    /\ cleaner = "buffer"
    /\ current' = 0 /\ idle' = FALSE
    /\ cleaner' = "recv"
    /\ UNCHANGED <<created, data, gen, over, start, slot, flushVars,
                   received, tools, tool, pending, stopped, shutdown, published>>

Clean == (\E e \in Lifecycle : CleanRecv(e)) \/ CleanTimer \/ CleanState

-----------------------------------------------------------------------------
(* Shutdown: the flag, the subscriptions, then timers, buffers, idle states *)
(* are cleared while the consumers may still be in a handler.              *)

ShutdownStart ==
    /\ shutdown = "no"
    /\ stopped' = TRUE /\ shutdown' = "timers"
    /\ UNCHANGED <<bufVars, slot, flushVars, received, tools, tool, pending,
                   cleaner, idle, published>>

ShutdownTimers ==
    /\ shutdown = "timers"
    /\ pc' = StopSlot(pc) /\ slot' = 0
    /\ shutdown' = "buffers"
    /\ UNCHANGED <<bufVars, held, hand, received, tools, tool, pending,
                   cleaner, stopped, idle, published>>

ShutdownState ==
    /\ shutdown = "buffers"
    /\ current' = 0 /\ idle' = FALSE
    /\ shutdown' = "wait"
    /\ UNCHANGED <<created, data, gen, over, start, slot, flushVars,
                   received, tools, tool, pending, cleaner, stopped, published>>

\* A consumer ends between two events; Shutdown waits for all of them.
WorkerEnd(w) ==
    /\ stopped /\ pc[w] = "recv"
    /\ Goto(w, "end")
    /\ UNCHANGED <<bufVars, slot, held, hand, serviceVars, idle, published>>

CleanerEnd ==
    /\ stopped /\ cleaner = "recv"
    /\ cleaner' = "end"
    /\ UNCHANGED <<bufVars, slot, flushVars, received, tools, tool, pending,
                   stopped, shutdown, idle, published>>

ShutdownWait ==
    /\ shutdown = "wait" /\ cleaner = "end"
    /\ \A w \in Workers : pc[w] = "end"
    /\ shutdown' = "end"
    /\ UNCHANGED <<bufVars, slot, flushVars, received, tools, tool, pending,
                   cleaner, stopped, idle, published>>

ClosingDown == \/ ShutdownStart \/ ShutdownTimers \/ ShutdownState \/ CleanerEnd
               \/ ShutdownWait \/ \E w \in Workers : WorkerEnd(w)

Next ==
    \/ Output \/ Tool \/ Clean \/ ClosingDown
    \/ \E a \in Actors : Flush(a)
    \/ \E c \in Chunks : Timer(c)

Spec == Init /\ [][Next]_vars

-----------------------------------------------------------------------------
(* Properties.                                                             *)

ToSet(s) == {s[i] : i \in 1..Len(s)}

\* The message an actor has flushed, those published, and what is buffered.
Flushed == ToSet(published) \cup UNION {ToSet(hand[a]) : a \in Actors}

\* A run of consecutive chunks, in output order.
Run(s) == \A i \in 1..(Len(s) - 1) : s[i + 1] = s[i] + 1

\* Output is never repeated: no chunk is in two messages, or in a message and
\* still in a buffer, however the consumers' and the timers' flushes overlap.
\* Within a message and a buffer the chunks are consecutive and in order.
OutputOnce ==
    /\ \A m \in Flushed : Run(m.chunks)
    /\ \A b \in Buffers : Run(data[b])
    /\ \A m, n \in Flushed : m # n => ToSet(m.chunks) \cap ToSet(n.chunks) = {}
    /\ \A m \in Flushed, b \in Buffers : ToSet(m.chunks) \cap ToSet(data[b]) = {}
    /\ \A i, j \in 1..Len(published) : i # j => published[i] # published[j]

\* A message that lacks output the buffer has dropped says so.
TruncationMarked ==
    \A m \in Flushed : m.truncated <=> m.chunks[1] # m.start

\* What is published is the output, once and in order, less what is marked.
OutputWhole == OutputOnce /\ TruncationMarked

\* Somebody will flush buffer b: the output consumer has written to it and is
\* about to flush or to set a timer, an actor is about to flush, or a timer
\* that is set or has fired matches its generation.
Responsible(b) ==
    \/ /\ held[OutputC] = b
       /\ pc[OutputC] = "detect"
    \/ \E a \in Actors : held[a] = b /\ pc[a] \in {"cancel", "flush"}
    \/ \E c \in Chunks : /\ held[c] = b /\ gen[b] = c
                         /\ pc[c] \in {"pending", "generation"}

\* Buffered output is not forgotten: whatever timer was stopped, by whomever,
\* before the session's first cleanup and the shutdown somebody will flush.
NoStrandedOutput ==
    current # 0 /\ data[current] # <<>> /\ pending = Lifecycle /\ ~stopped
        => Responsible(current)

\* What is published is whole, and what is not yet published will be.
OutputFlows == OutputWhole /\ NoStrandedOutput
=============================================================================
