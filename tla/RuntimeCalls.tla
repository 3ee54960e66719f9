----------------------------- MODULE RuntimeCalls -----------------------------
(***************************************************************************)
(* The JavaScript runtime as its callers see it                            *)
(* (internal/jsruntime/runtime.go): one process behind one connection,     *)
(* requests written under a lock, answers handed to whoever is registered  *)
(* for them, and the goroutine that waits for the process.  The process    *)
(* (host.js) takes requests from the socket as they come and works on one  *)
(* at a time.  PluginRuntime has what supervises such processes.           *)
(*                                                                         *)
(* A call is its identifier; it is made once.  What the plugins compute is *)
(* left out.                                                               *)
(***************************************************************************)
EXTENDS Integers, Sequences, FiniteSets

CONSTANTS
    Calls,      \* calls of the runtime
    Limited,    \* those whose context ends
    SocketSize  \* requests the socket holds for a host that does not read

ASSUME CallsAssumption ==
    /\ Limited \subseteq Calls /\ SocketSize \in Nat \ {0}
    /\ "none" \notin Calls /\ "halt" \notin Calls

VARIABLES
    bun,        \* the process: "up", "hung" in a loop, or "down"
    connection, \* r.conn as the daemon has left it
    requested,  \* requests in the socket, the oldest first
    working,    \* host.js's queue of requests, the one it works on first
    frames,     \* its answers in the socket, the oldest first
    awaiting,   \* r.pending
    respCh,     \* the calls whose response channel holds their answer
    call,       \* call[c]: where call c is
    muHolder,   \* who has r.mu
    frameReader, \* where readResponses is
    inHand,     \* the answer it has in hand, as a set of 0 or 1
    waiter,     \* where waitProcess is
    halted,     \* r.stopped
    doneClosed, \* r.done is closed
    halt,       \* where Shutdown is
    answered,   \* history: calls that returned their answer
    unsent,     \* history: calls whose answer could not be sent
    deaf        \* history: the reader has ended before the process

bunVars == <<bun, requested, working, frames, unsent>>
callVars == <<awaiting, respCh, call, muHolder, answered>>
frameVars == <<frameReader, inHand, deaf>>
finalVars == <<waiter, halted, doneClosed, halt, connection>>
runtimeVars == <<bunVars, callVars, frameVars, finalVars>>

Within(queue) == {queue[i] : i \in DOMAIN queue}
Broken == bun = "down" \/ connection = "closed"

CallsTypeOK ==
    /\ bun \in {"up", "hung", "down"} /\ connection \in {"open", "closed"}
    /\ requested \in Seq(Calls) /\ working \in Seq(Calls) /\ frames \in Seq(Calls)
    /\ Len(requested) <= SocketSize
    /\ awaiting \subseteq Calls /\ respCh \subseteq Calls
    /\ call \in [Calls -> {"idle", "lock", "write", "wait", "leave", "end"}]
    /\ muHolder \in Calls \cup {"none", "halt"}
    /\ muHolder \in Calls => call[muHolder] = "write"
    /\ frameReader \in {"read", "look", "send", "end"}
    /\ inHand \subseteq Calls /\ (inHand # {} <=> frameReader \in {"look", "send"})
    /\ waiter \in {"wait", "stop", "close", "end"}
    /\ halted \in BOOLEAN /\ doneClosed \in BOOLEAN /\ deaf \in BOOLEAN
    /\ halt \in {"no", "lock", "write", "close", "wait", "end"}
    /\ answered \subseteq Calls /\ unsent \subseteq Calls

CallsInit ==
    /\ bun = "up" /\ connection = "open"
    /\ requested = <<>> /\ working = <<>> /\ frames = <<>> /\ unsent = {}
    /\ awaiting = {} /\ respCh = {} /\ call = [c \in Calls |-> "idle"] /\ muHolder = "none"
    /\ frameReader = "read" /\ inHand = {} /\ deaf = FALSE
    /\ waiter = "wait" /\ halted = FALSE /\ doneClosed = FALSE /\ halt = "no"
    /\ answered = {}

CallTo(c, next) == call' = [call EXCEPT ![c] = next]

-----------------------------------------------------------------------------
(* The host.                                                               *)

HostTakes ==
    /\ bun = "up" /\ requested # <<>>
    /\ requested' = Tail(requested) /\ working' = Append(working, Head(requested))
    /\ UNCHANGED <<bun, frames, unsent, callVars, frameVars, finalVars>>

HostAnswers ==
    /\ bun = "up" /\ working # <<>>
    /\ working' = Tail(working) /\ frames' = Append(frames, Head(working))
    /\ UNCHANGED <<bun, requested, unsent, callVars, frameVars, finalVars>>

\* A result that has no JSON form: what is sent then bears no identifier.
HostSpoils ==
    /\ bun = "up" /\ working # <<>>
    /\ working' = Tail(working) /\ unsent' = unsent \cup {Head(working)}
    /\ UNCHANGED <<bun, requested, frames, callVars, frameVars, finalVars>>

\* A plugin loops; or the process dies, of itself or since the context that
\* started it has ended.
HostHangs ==
    /\ bun = "up" /\ bun' = "hung"
    /\ UNCHANGED <<requested, working, frames, unsent, callVars, frameVars, finalVars>>

HostDies ==
    /\ bun # "down" /\ bun' = "down"
    /\ requested' = <<>> /\ working' = <<>>
    /\ UNCHANGED <<frames, unsent, callVars, frameVars, finalVars>>

Host == HostTakes \/ HostAnswers \/ HostSpoils \/ HostHangs \/ HostDies

-----------------------------------------------------------------------------
(* The callers.                                                            *)

Refuse(c) ==
    /\ call[c] = "idle" /\ halted
    /\ CallTo(c, "end")
    /\ UNCHANGED <<bunVars, awaiting, respCh, muHolder, answered, frameVars, finalVars>>

RegisterCall(c) ==
    /\ call[c] = "idle" /\ ~halted
    /\ awaiting' = awaiting \cup {c}
    /\ CallTo(c, "lock")
    /\ UNCHANGED <<bunVars, respCh, muHolder, answered, frameVars, finalVars>>

LockWriter(c) ==
    /\ call[c] = "lock" /\ muHolder = "none"
    /\ muHolder' = c /\ CallTo(c, "write")
    /\ UNCHANGED <<bunVars, awaiting, respCh, answered, frameVars, finalVars>>

\* writeFrame blocks while the socket is full, with r.mu held.
WriteRequest(c) ==
    /\ call[c] = "write" /\ ~Broken /\ Len(requested) < SocketSize
    /\ requested' = Append(requested, c)
    /\ muHolder' = "none" /\ CallTo(c, "wait")
    /\ UNCHANGED <<bun, working, frames, unsent, awaiting, respCh, answered, frameVars,
                   finalVars>>

\* The connection is gone, or the request is too large or has no JSON form.
WriteFails(c) ==
    /\ call[c] = "write"
    /\ muHolder' = "none" /\ CallTo(c, "leave")
    /\ UNCHANGED <<bunVars, awaiting, respCh, answered, frameVars, finalVars>>

\* The select takes any branch that is ready.
TakeAnswer(c) ==
    /\ call[c] = "wait" /\ c \in respCh
    /\ respCh' = respCh \ {c} /\ answered' = answered \cup {c}
    /\ CallTo(c, "leave")
    /\ UNCHANGED <<bunVars, awaiting, muHolder, frameVars, finalVars>>

\* Mutant of LimitEnds: the callers give up as soon as the runtime is to stop.
LimitEnds_AtHalt(c) ==
    /\ call[c] = "wait" /\ (c \in Limited \/ halted)
    /\ CallTo(c, "leave")
    /\ UNCHANGED <<bunVars, awaiting, respCh, muHolder, answered, frameVars, finalVars>>

LimitEnds(c) ==
    /\ call[c] = "wait" /\ (c \in Limited \/ doneClosed)
    /\ CallTo(c, "leave")
    /\ UNCHANGED <<bunVars, awaiting, respCh, muHolder, answered, frameVars, finalVars>>

\* Mutant of Leave: only the reader would take a call out of pending.
Leave_Pending(c) ==
    /\ call[c] = "leave"
    /\ CallTo(c, "end")
    /\ UNCHANGED <<bunVars, awaiting, respCh, muHolder, answered, frameVars, finalVars>>

\* The deferred delete.
Leave(c) ==
    /\ call[c] = "leave"
    /\ awaiting' = awaiting \ {c}
    /\ CallTo(c, "end")
    /\ UNCHANGED <<bunVars, respCh, muHolder, answered, frameVars, finalVars>>

CallSteps(c) == \/ Refuse(c) \/ RegisterCall(c) \/ LockWriter(c)
                \/ WriteRequest(c) \/ WriteFails(c)
                \/ TakeAnswer(c) \/ LimitEnds(c) \/ Leave(c)

-----------------------------------------------------------------------------
(* readResponses.                                                          *)

\* What the host has sent can be read after its end, and what the buffer has of
\* it after our close.
ReadFrame ==
    /\ frameReader = "read" /\ frames # <<>>
    /\ frames' = Tail(frames) /\ inHand' = {Head(frames)}
    /\ frameReader' = "look"
    /\ UNCHANGED <<bun, requested, working, unsent, callVars, deaf, finalVars>>

\* The end of the connection, or a frame beyond the limit.
ReadFails ==
    /\ frameReader = "read"
    /\ Broken \/ frames # <<>>
    /\ frameReader' = "end"
    /\ deaf' = (bun # "down" /\ connection = "open")
    /\ UNCHANGED <<bunVars, callVars, inHand, finalVars>>

LookUpCall ==
    /\ frameReader = "look"
    /\ awaiting' = awaiting \ inHand
    /\ IF inHand \subseteq awaiting
          THEN frameReader' = "send" /\ UNCHANGED inHand
          ELSE frameReader' = "read" /\ inHand' = {}
    /\ UNCHANGED <<bunVars, respCh, call, muHolder, answered, deaf, finalVars>>

\* The channel has room for the one answer.
SendAnswer ==
    /\ frameReader = "send"
    /\ respCh' = respCh \cup inHand
    /\ frameReader' = "read" /\ inHand' = {}
    /\ UNCHANGED <<bunVars, awaiting, call, muHolder, answered, deaf, finalVars>>

ReadResponses == ReadFrame \/ ReadFails \/ LookUpCall \/ SendAnswer

-----------------------------------------------------------------------------
(* The end: waitProcess, and Shutdown.                                     *)

ProcessEnds ==
    /\ waiter = "wait" /\ bun = "down"
    /\ waiter' = "stop"
    /\ UNCHANGED <<bunVars, callVars, frameVars, halted, doneClosed, halt, connection>>

MarkStopped ==
    /\ waiter = "stop" /\ waiter' = "close"
    /\ halted' = TRUE
    /\ UNCHANGED <<bunVars, callVars, frameVars, doneClosed, halt, connection>>

CloseDone ==
    /\ waiter = "close" /\ waiter' = "end"
    /\ doneClosed' = TRUE
    /\ UNCHANGED <<bunVars, callVars, frameVars, halted, halt, connection>>

\* Once stopped is set Shutdown returns at once.
BeginHalt ==
    /\ halt = "no"
    /\ halt' = IF halted THEN "end" ELSE "lock"
    /\ halted' = TRUE
    /\ UNCHANGED <<bunVars, callVars, frameVars, waiter, doneClosed, connection>>

LockHalt ==
    /\ halt = "lock" /\ muHolder = "none"
    /\ halt' = "write" /\ muHolder' = "halt"
    /\ UNCHANGED <<bunVars, awaiting, respCh, call, answered, frameVars>>
    /\ UNCHANGED <<waiter, halted, doneClosed, connection>>

\* The shutdown command; an error is ignored.
WriteHalt ==
    /\ halt = "write"
    /\ Broken \/ Len(requested) < SocketSize
    /\ halt' = "close" /\ muHolder' = "none"
    /\ UNCHANGED <<bunVars, awaiting, respCh, call, answered, frameVars>>
    /\ UNCHANGED <<waiter, halted, doneClosed, connection>>

CloseConnection ==
    /\ halt = "close" /\ halt' = "wait"
    /\ connection' = "closed"
    /\ UNCHANGED <<bunVars, callVars, frameVars, waiter, halted, doneClosed>>

\* The process has ended, or the context has and the process is killed.
HaltWaited ==
    /\ halt = "wait" /\ doneClosed
    /\ halt' = "end"
    /\ UNCHANGED <<bunVars, callVars, frameVars, waiter, halted, doneClosed, connection>>

HaltKills ==
    /\ halt = "wait" /\ halt' = "end"
    /\ bun' = "down" /\ requested' = <<>> /\ working' = <<>>
    /\ UNCHANGED <<frames, unsent, callVars, frameVars, waiter, halted, doneClosed, connection>>

Halting == \/ ProcessEnds \/ MarkStopped \/ CloseDone
           \/ BeginHalt \/ LockHalt \/ WriteHalt \/ CloseConnection \/ HaltWaited \/ HaltKills

CallsNext == Host \/ ReadResponses \/ Halting \/ \E c \in Calls : CallSteps(c)

CallsSpec == CallsInit /\ [][CallsNext]_runtimeVars

-----------------------------------------------------------------------------
(* Properties.                                                             *)

\* Whoever waits for an answer will get one, or the end of the runtime: the
\* answer is still to come, on the way, or there; unless the reader has ended
\* before the process, we have closed the connection, or the answer was one that
\* host.js could not send.
AnswerComes ==
    ~deaf /\ connection = "open" =>
        \A c \in Calls : call[c] = "wait" =>
            \/ c \in respCh \cup inHand \/ bun = "down"
            \/ c \in Within(requested) \cup Within(working) \cup Within(frames)
            \/ c \in unsent

\* A process that answers after its callers have given up, or dies with calls
\* under way, leaves nothing in pending; and the reader is never held up by a
\* channel whose answer nobody takes.
NothingLeft ==
    /\ \A c \in awaiting : call[c] \in {"lock", "write", "wait", "leave"}
    /\ frameReader = "send" => inHand \cap (respCh \cup answered) = {}

CallsAnswered == AnswerComes /\ NothingLeft

-----------------------------------------------------------------------------
(* What the runtime promises its callers.                                  *)

\* The calls the host has answered.
Replied == respCh \cup inHand \cup Within(frames)

\* A call as its caller sees it.
CallStatus(c) ==
    CASE c \in answered -> "returned"
      [] c \notin answered /\ call[c] \in {"leave", "end"} -> "failed"
      [] call[c] = "idle" -> "idle"
      [] call[c] \in {"lock", "write"} -> "begun"
      [] call[c] = "wait" -> IF c \in Replied THEN "ready" ELSE "sent"

CallsPromise == INSTANCE RemoteCalls WITH
    status <- [c \in Calls |-> CallStatus(c)],
    stopped <- halted, ended <- doneClosed

\* However the process, its reader and its end are timed, a call is sent to a
\* process that lives, answered once at most, and fails after that only at its
\* limit or when the runtime has ended.
CallsAreRemote == CallsPromise!Spec
=============================================================================
