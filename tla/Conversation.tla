----------------------------- MODULE Conversation -----------------------------
(***************************************************************************)
(* The conversation service (internal/conversation/service.go): what it    *)
(* remembers of a session, and when its output may become a prompt.  Five  *)
(* consumers and the timers of detached sessions share the tool cache and  *)
(* the timers under a lock, and the times of the last prompts without.     *)
(*                                                                         *)
(* One session; sessions do not share state.  A time is its age in units   *)
(* of the shorter interval, and counts up to the longer one.               *)
(***************************************************************************)
EXTENDS Integers, FiniteSets, FiniteSetsExt

CONSTANTS
    OutputInterval, \* sessionOutputMinInterval
    BypassInterval, \* waitingForBypassMinInterval
    MaxDetaches     \* bound: detached events

ASSUME ConversationAssumption ==
    /\ OutputInterval \in Nat /\ BypassInterval \in 1..OutputInterval
    /\ MaxDetaches \in Nat

VARIABLES
    cached,     \* the tool cache has the session
    lastOutput, \* the age of its time in lastSessionOutput, or Absent
    lastBypass, \* the age of its time in lastWaitingForBypass, or Absent
    detach,     \* its timer in the map, 0 for none
    armed,      \* the timers that run
    detaches,   \* timers made so far
    clearing,   \* where each call of clearSession is
    lifecycle,  \* where the consumer of lifecycle events is
    session,    \* the last of these events
    pipe,       \* where the consumer of the pipeline's messages is
    kind,       \* what its message is
    now,        \* the age of the time it has taken
    down,       \* shuttingDown
    used,       \* history: the session was used since the last lifecycle event
    sincePrompt, \* history: the age of the last prompt about output
    sinceWaiting, \* history: the age of the last one that bypassed the limit
    forgotten   \* history: the entries deleted since they were last stored

rateVars == <<lastOutput, lastBypass>>
timerVars == <<detach, armed, detaches>>
pipeVars == <<pipe, kind, now>>
sinceVars == <<sincePrompt, sinceWaiting, forgotten>>
convVars == <<cached, rateVars, timerVars, clearing, lifecycle, session, pipeVars, down, used,
              sinceVars>>

Timers == 1..MaxDetaches
Callers == {0} \cup Timers \* 0 is the consumer of lifecycle events
Absent == -1
Ages == 0..OutputInterval
MessageKinds == {"user", "plain", "notable", "waiting"}

ConvTypeOK ==
    /\ cached \in BOOLEAN
    /\ lastOutput \in Ages \cup {Absent} /\ lastBypass \in Ages \cup {Absent}
    /\ detach \in Timers \cup {0} /\ armed \subseteq Timers /\ detaches \in 0..MaxDetaches
    /\ clearing \in [Callers -> {"idle", "lock", "output", "bypass"}]
    /\ lifecycle \in {"rest", "clear", "schedule"}
    /\ session \in {"live", "detached", "stopped"}
    /\ pipe \in {"rest", "cancel", "check", "bypass", "output", "prompt"}
    /\ kind \in MessageKinds /\ now \in Ages
    /\ down \in BOOLEAN /\ used \in BOOLEAN
    /\ sincePrompt \in Ages /\ sinceWaiting \in Ages
    /\ forgotten \subseteq {"output", "bypass"}

ConvInit ==
    /\ cached = FALSE /\ lastOutput = Absent /\ lastBypass = Absent
    /\ detach = 0 /\ armed = {} /\ detaches = 0
    /\ clearing = [c \in Callers |-> "idle"]
    /\ lifecycle = "rest" /\ session = "live"
    /\ pipe = "rest" /\ kind = "plain" /\ now = 0
    /\ down = FALSE /\ used = FALSE
    /\ sincePrompt = OutputInterval /\ sinceWaiting = OutputInterval /\ forgotten = {}

\* time.Timer.Stop has no effect on a timer that has fired.
DropTimer == detach' = 0 /\ armed' = armed \ {detach}

-----------------------------------------------------------------------------
(* clearSession, by the consumer of lifecycle events or a timer's callback. *)

ClearLocked(c) ==
    /\ clearing[c] = "lock" /\ clearing' = [clearing EXCEPT ![c] = "output"]
    /\ cached' = FALSE /\ DropTimer
    /\ UNCHANGED <<rateVars, detaches, lifecycle, session, pipeVars, down, used, sinceVars>>

ClearOutput(c) ==
    /\ clearing[c] = "output" /\ clearing' = [clearing EXCEPT ![c] = "bypass"]
    /\ lastOutput' = Absent /\ forgotten' = forgotten \cup {"output"}
    /\ UNCHANGED <<cached, lastBypass, timerVars, lifecycle, session, pipeVars, down, used,
                   sincePrompt, sinceWaiting>>

\* A clearSession that does not know of the second map.
ClearBypass_Forgets(c) ==
    /\ clearing[c] = "bypass" /\ clearing' = [clearing EXCEPT ![c] = "idle"]
    /\ lifecycle' = IF c = 0 THEN "rest" ELSE lifecycle
    /\ UNCHANGED <<cached, rateVars, timerVars, session, pipeVars, down, used, sinceVars>>

ClearBypass(c) ==
    /\ clearing[c] = "bypass" /\ clearing' = [clearing EXCEPT ![c] = "idle"]
    /\ lastBypass' = Absent /\ forgotten' = forgotten \cup {"bypass"}
    /\ lifecycle' = IF c = 0 THEN "rest" ELSE lifecycle
    /\ UNCHANGED <<cached, lastOutput, timerVars, session, pipeVars, down, used, sincePrompt,
                   sinceWaiting>>

Clearing == \E c \in Callers : ClearLocked(c) \/ ClearOutput(c) \/ ClearBypass(c)

\* The callback waits for the lock once its timer has fired.
Fire ==
    /\ \E t \in armed :
          /\ armed' = armed \ {t}
          /\ clearing' = IF down THEN clearing ELSE [clearing EXCEPT ![t] = "lock"]
    /\ UNCHANGED <<cached, rateVars, detach, detaches, lifecycle, session, pipeVars, down, used,
                   sinceVars>>

-----------------------------------------------------------------------------
(* Lifecycle and tool events.                                              *)

\* A message under way still uses the session.
Receives(state) ==
    /\ lifecycle = "rest" /\ ~down
    /\ session' = state /\ used' = (pipe # "rest")

Stopped ==
    /\ Receives("stopped") /\ lifecycle' = "clear"
    /\ clearing' = [clearing EXCEPT ![0] = "lock"]
    /\ UNCHANGED <<cached, rateVars, timerVars, pipeVars, down, sinceVars>>

\* clearToolCache, then scheduleDetachCleanup.
Detached ==
    /\ Receives("detached") /\ detaches < MaxDetaches
    /\ lifecycle' = "schedule" /\ cached' = FALSE
    /\ UNCHANGED <<rateVars, timerVars, clearing, pipeVars, down, sinceVars>>

Schedule ==
    /\ lifecycle = "schedule" /\ lifecycle' = "rest"
    /\ detaches' = detaches + 1 /\ detach' = detaches'
    /\ armed' = (armed \ {detach}) \cup {detaches'}
    /\ UNCHANGED <<cached, rateVars, clearing, session, pipeVars, down, used, sinceVars>>

Attached ==
    /\ Receives("live") /\ DropTimer
    /\ UNCHANGED <<cached, rateVars, detaches, clearing, lifecycle, pipeVars, down, sinceVars>>

\* Two subscriptions bring tool events.
ToolEvent ==
    /\ ~down /\ cached' = TRUE /\ used' = TRUE
    /\ UNCHANGED <<rateVars, timerVars, clearing, lifecycle, session, pipeVars, down, sinceVars>>

-----------------------------------------------------------------------------
(* Messages of the pipeline, and replies.                                  *)

Message ==
    /\ pipe = "rest" /\ ~down /\ pipe' = "cancel"
    /\ kind' \in MessageKinds /\ used' = TRUE
    /\ UNCHANGED <<cached, rateVars, timerVars, clearing, lifecycle, session, now, down, sinceVars>>

CancelCleanup ==
    /\ pipe = "cancel" /\ DropTimer
    /\ pipe' = IF kind \in {"notable", "waiting"} THEN "check" ELSE "prompt"
    /\ UNCHANGED <<cached, rateVars, detaches, clearing, lifecycle, session, kind, now, down, used,
                   sinceVars>>

\* shouldTriggerSessionOutput and shouldBypassForWaitingFor take the time and
\* look at one entry.
Allowed ==
    IF kind = "notable" THEN lastOutput \notin 0..(OutputInterval - 1)
                        ELSE lastBypass \notin 0..(BypassInterval - 1)

Check ==
    /\ pipe = "check" /\ now' = 0
    /\ pipe' = IF ~Allowed THEN "prompt" ELSE IF kind = "notable" THEN "output" ELSE "bypass"
    /\ sincePrompt' = IF Allowed THEN 0 ELSE sincePrompt
    /\ sinceWaiting' = IF Allowed /\ kind = "waiting" THEN 0 ELSE sinceWaiting
    /\ UNCHANGED <<cached, rateVars, timerVars, clearing, lifecycle, session, kind, down, used,
                   forgotten>>

StoreBypass ==
    /\ pipe = "bypass" /\ pipe' = "output"
    /\ lastBypass' = now /\ forgotten' = forgotten \ {"bypass"}
    /\ UNCHANGED <<cached, lastOutput, timerVars, clearing, lifecycle, session, kind, now, down,
                   used, sincePrompt, sinceWaiting>>

StoreOutput ==
    /\ pipe = "output" /\ pipe' = "prompt"
    /\ lastOutput' = now /\ forgotten' = forgotten \ {"output"}
    /\ UNCHANGED <<cached, lastBypass, timerVars, clearing, lifecycle, session, kind, now, down,
                   used, sincePrompt, sinceWaiting>>

\* The turn and the prompt, if any, are published.
Publish ==
    /\ pipe = "prompt" /\ pipe' = "rest" /\ kind' = "plain" /\ now' = 0
    /\ UNCHANGED <<cached, rateVars, timerVars, clearing, lifecycle, session, down, used, sinceVars>>

\* handleReplyMessage of a reply that is not about compaction.
Reply ==
    /\ ~down /\ DropTimer /\ used' = TRUE
    /\ UNCHANGED <<cached, rateVars, detaches, clearing, lifecycle, session, pipeVars, down,
                   sinceVars>>

Messages ==
    Message \/ CancelCleanup \/ Check \/ StoreBypass \/ StoreOutput \/ Publish \/ Reply

-----------------------------------------------------------------------------
Aged(age) == IF age \in 0..(OutputInterval - 1) THEN age + 1 ELSE age

Tick ==
    /\ lastOutput' = Aged(lastOutput) /\ lastBypass' = Aged(lastBypass)
    /\ now' = IF pipe \in {"bypass", "output"} THEN Aged(now) ELSE now
    /\ sincePrompt' = Aged(sincePrompt) /\ sinceWaiting' = Aged(sinceWaiting)
    /\ UNCHANGED <<cached, timerVars, clearing, lifecycle, session, pipe, kind, down, used,
                   forgotten>>

Shutdown ==
    /\ ~down /\ down' = TRUE
    /\ UNCHANGED <<cached, rateVars, timerVars, clearing, lifecycle, session, pipeVars, used,
                   sinceVars>>

ConvNext ==
    \/ Clearing \/ Fire
    \/ Stopped \/ Detached \/ Schedule \/ Attached \/ ToolEvent
    \/ Messages
    \/ Tick \/ Shutdown

ConvSpec == ConvInit /\ [][ConvNext]_convVars

-----------------------------------------------------------------------------
(* Properties.                                                             *)

\* Notable output becomes a prompt only if the last prompt about output, the
\* bypassing ones included, is OutputInterval old, and a waiting session's only
\* if the last that bypassed is BypassInterval old; unless the session has been
\* cleared in between.
RateLimited ==
    [][Check /\ Allowed =>
          IF kind = "notable" THEN sincePrompt >= OutputInterval \/ "output" \in forgotten
                              ELSE sinceWaiting >= BypassInterval \/ "bypass" \in forgotten]_convVars

\* A session that stopped, or was detached until its timer fired, and that
\* nobody has used since, has left nothing in the service's maps, whatever
\* timers of earlier detachments fired before or after they were cancelled.
NothingKept ==
    /\ session # "live" /\ ~used /\ ~down
    /\ lifecycle = "rest" /\ armed = {} /\ \A c \in Callers : clearing[c] = "idle"
    => ~cached /\ lastOutput = Absent /\ lastBypass = Absent /\ detach = 0
=============================================================================
