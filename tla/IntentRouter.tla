----------------------------- MODULE IntentRouter -----------------------------
(***************************************************************************)
(* The intent router (internal/intentrouter/service.go) and the command    *)
(* executor behind it (internal/server/runtimebridge/audio.go).  One       *)
(* goroutine handles the prompts: it chooses a target session, asks the AI *)
(* adapter, lets tools run while the adapter wants them, and carries out   *)
(* the actions of the answer.  Another forgets sessions as they stop or    *)
(* detach.  Commands go to a queue that a third one drains.                *)
(*                                                                         *)
(* Prompts and answers are choices of the environment; what tools return,  *)
(* the tool cache and the prompts' texts are left out.  The router is the  *)
(* queue's only user and of one origin: the heap is a queue.               *)
(***************************************************************************)
EXTENDS Integers, Sequences, FiniteSets

CONSTANTS
    Targets,    \* sessions
    NoTarget,   \* no session
    MaxRounds,  \* maxToolIterations
    MaxCommands \* bound: commands in the queue

ASSUME RouterAssumption ==
    /\ NoTarget \notin Targets
    /\ MaxRounds \in Nat \ {0} /\ MaxCommands \in Nat \ {0}

VARIABLES
    life,       \* life[s]: "new", "running", "stopped", then "announced" by
                \* its event, then "forgotten" by the router
    detaching,  \* sessions with a detached event on its way
    context,    \* conversationSession
    recent,     \* conversationSessionTime is of the last five minutes
    router,     \* where handlePrompt is
    asker,      \* the prompt's session
    addressee,  \* the one the request is about
    ref,        \* the one of the command under way
    rounds,     \* turns of the tool loop
    replied,    \* the prompt has a reply
    mute,       \* one of its actions had nothing to say
    commands,   \* the executor's queue
    notify,     \* its channel of one
    drain,      \* where the executor's goroutine is
    executorDone, \* the executor's done channel is closed
    overtaken   \* history: sessions whose end was handled while a command
                \* was queued for them

sessionVars == <<life, detaching>>
contextVars == <<context, recent>>
promptVars == <<asker, addressee, ref, rounds, replied, mute>>
executorVars == <<commands, notify, drain, executorDone>>
aroundVars == <<sessionVars, contextVars, executorVars, overtaken>>
routerVars == <<sessionVars, contextVars, router, promptVars, executorVars, overtaken>>

Asked == Targets \cup {NoTarget}

\* GetSession; sessions stay in the manager's table once they have stopped.
Known(s) == s \in Targets /\ life[s] # "new"
Listed == {s \in Targets : Known(s)}

\* QueueCommand has found the session running.
Queueing == router \in {"push", "wake", "update"}

RouterTypeOK ==
    /\ life \in [Targets -> {"new", "running", "stopped", "announced", "forgotten"}]
    /\ detaching \subseteq Targets
    /\ context \in Asked /\ asker \in Asked /\ addressee \in Asked /\ ref \in Asked
    /\ recent \in BOOLEAN /\ replied \in BOOLEAN /\ mute \in BOOLEAN
    /\ notify \in BOOLEAN /\ executorDone \in BOOLEAN
    /\ router \in {"rest", "adapter", "context", "list", "resolve", "final", "act", "validate",
                   "status", "push", "wake", "update", "confirm"}
    /\ rounds \in 0..MaxRounds
    /\ commands \in Seq(Targets) /\ Len(commands) <= MaxCommands
    /\ drain \in {"wait", "pop", "end"}
    /\ overtaken \subseteq Targets

RouterInit ==
    /\ life = [s \in Targets |-> "new"] /\ detaching = {}
    /\ context = NoTarget /\ recent = FALSE
    /\ router = "rest" /\ asker = NoTarget /\ addressee = NoTarget /\ ref = NoTarget
    /\ rounds = 0 /\ replied = TRUE /\ mute = FALSE
    /\ commands = <<>> /\ notify = FALSE /\ drain = "wait" /\ executorDone = FALSE
    /\ overtaken = {}

-----------------------------------------------------------------------------
(* Sessions, and what the router hears of them.                            *)

StageTo(s, from, next) == life[s] = from /\ life' = [life EXCEPT ![s] = next]

SessionSteps(s) ==
    /\ \/ StageTo(s, "new", "running") \/ StageTo(s, "running", "stopped")
       \/ StageTo(s, "stopped", "announced")
    /\ UNCHANGED <<detaching, contextVars, router, promptVars, executorVars, overtaken>>

Detaches(s) ==
    /\ life[s] = "running" /\ detaching' = detaching \cup {s}
    /\ UNCHANGED <<life, contextVars, router, promptVars, executorVars, overtaken>>

\* clearToolCache
Clear(s) == context' = IF context = s THEN NoTarget ELSE context

HearDetached(s) ==
    /\ s \in detaching /\ detaching' = detaching \ {s}
    /\ Clear(s)
    /\ UNCHANGED <<life, recent, router, promptVars, executorVars, overtaken>>

HearStopped(s) ==
    /\ StageTo(s, "announced", "forgotten") /\ s \notin detaching
    /\ Clear(s)
    /\ overtaken' = IF Queueing /\ ref = s THEN overtaken \cup {s} ELSE overtaken
    /\ UNCHANGED <<detaching, recent, router, promptVars, executorVars>>

ContextAges ==
    /\ recent /\ recent' = FALSE
    /\ UNCHANGED <<sessionVars, context, router, promptVars, executorVars, overtaken>>

Hearing == ContextAges \/ \E s \in Targets : HearDetached(s) \/ HearStopped(s)

-----------------------------------------------------------------------------
(* handlePrompt up to the answer.                                          *)

TakePrompt ==
    /\ router = "rest" /\ router' = "adapter"
    /\ asker' \in {NoTarget} \cup Listed
    /\ replied' = FALSE /\ mute' = FALSE
    /\ UNCHANGED <<aroundVars, addressee, ref, rounds>>

\* handlePrompt returns.
PromptEnds == /\ router' = "rest"
              /\ asker' = NoTarget /\ addressee' = NoTarget /\ rounds' = 0
PromptFails == PromptEnds /\ replied' = TRUE

\* No adapter, one that is not ready, or one that fails.
AdapterFails ==
    /\ router \in {"adapter", "resolve"}
    /\ PromptFails
    /\ UNCHANGED <<aroundVars, ref, mute>>

AdapterReady ==
    /\ router = "adapter"
    /\ addressee' = asker
    /\ router' = IF asker = NoTarget THEN "context" ELSE "resolve"
    /\ UNCHANGED <<aroundVars, asker, ref, rounds, replied, mute>>

\* The session that was last given a command, if the manager has it.
FollowContext ==
    /\ router = "context"
    /\ IF recent /\ Known(context)
          THEN addressee' = context /\ router' = "resolve"
          ELSE router' = "list" /\ UNCHANGED addressee
    /\ UNCHANGED <<aroundVars, asker, ref, rounds, replied, mute>>

\* The only session there is, or none.
TakeOnly ==
    /\ router = "list" /\ router' = "resolve"
    /\ IF Cardinality(Listed) = 1 THEN addressee' \in Listed ELSE UNCHANGED addressee
    /\ UNCHANGED <<aroundVars, asker, ref, rounds, replied, mute>>

\* The adapter wants tools: without a registry, or at the limit, an error.
ToolRound ==
    /\ router = "resolve"
    /\ \/ /\ rounds + 1 < MaxRounds
          /\ rounds' = rounds + 1 /\ UNCHANGED <<router, asker, addressee, replied>>
       \/ PromptFails
    /\ UNCHANGED <<aroundVars, ref, mute>>

NoActions ==
    /\ router = "resolve" /\ PromptFails
    /\ UNCHANGED <<aroundVars, ref, mute>>

Resolved ==
    /\ router = "resolve" /\ router' = "final"
    /\ rounds' = 0
    /\ UNCHANGED <<aroundVars, asker, addressee, ref, replied, mute>>

Asking == \/ AdapterFails \/ AdapterReady \/ FollowContext \/ TakeOnly
          \/ ToolRound \/ NoActions \/ Resolved

-----------------------------------------------------------------------------
(* executeActions.                                                         *)

Acting == router \in {"final", "act"}

\* A reply or an error is published, and the next action is due.
Reply == replied' = TRUE /\ router' = "act" /\ ref' = NoTarget

\* speak, clarify, noop, and tool_use where it does not belong
Say ==
    /\ Acting /\ Reply
    /\ UNCHANGED <<aroundVars, asker, addressee, rounds, mute>>

\* Nothing to speak, or an unknown type: only the log has it.
SayNothing ==
    /\ Acting /\ router' = "act" /\ mute' = TRUE
    /\ UNCHANGED <<aroundVars, asker, addressee, ref, rounds, replied>>

\* Of its own session, or that of the prompt.
Command ==
    /\ Acting /\ router' = "validate"
    /\ ref' \in Targets \cup {asker}
    /\ UNCHANGED <<aroundVars, asker, addressee, rounds, replied, mute>>

\* An unknown session, or no executor.
RefuseCommand ==
    /\ router = "validate" /\ Reply
    /\ UNCHANGED <<aroundVars, asker, addressee, rounds, mute>>

ValidateCommand ==
    /\ router = "validate" /\ Known(ref)
    /\ router' = "status"
    /\ UNCHANGED <<sessionVars, contextVars, promptVars, executorVars, overtaken>>

\* Mutant of CheckStatus: it only asks whether there is such a session.
CheckStatus_Known ==
    /\ router = "status"
    /\ IF executorDone THEN Reply ELSE router' = "push" /\ UNCHANGED <<replied, ref>>
    /\ UNCHANGED <<aroundVars, asker, addressee, rounds, mute>>

\* QueueCommand, before it takes the lock.
CheckStatus ==
    /\ router = "status"
    /\ IF executorDone \/ life[ref] # "running"
          THEN Reply
          ELSE router' = "push" /\ UNCHANGED <<replied, ref>>
    /\ UNCHANGED <<aroundVars, asker, addressee, rounds, mute>>

PushCommand ==
    /\ router = "push"
    /\ IF executorDone
          THEN Reply /\ UNCHANGED commands
          ELSE /\ Len(commands) < MaxCommands
               /\ commands' = Append(commands, ref)
               /\ router' = "wake" /\ UNCHANGED <<replied, ref>>
    /\ UNCHANGED <<sessionVars, contextVars, asker, addressee, rounds, mute, notify, drain, executorDone,
                   overtaken>>

WakeDrain ==
    /\ router = "wake" /\ router' = "update"
    /\ notify' = TRUE
    /\ UNCHANGED <<sessionVars, contextVars, promptVars, commands, drain, executorDone, overtaken>>

UpdateContext ==
    /\ router = "update" /\ router' = "confirm"
    /\ context' = ref /\ recent' = TRUE
    /\ UNCHANGED <<sessionVars, promptVars, executorVars, overtaken>>

Confirm ==
    /\ router = "confirm" /\ Reply
    /\ UNCHANGED <<aroundVars, asker, addressee, rounds, mute>>

Finish ==
    /\ router = "act" /\ PromptEnds
    /\ UNCHANGED <<aroundVars, ref, replied, mute>>

Executing == \/ Say \/ SayNothing \/ Command \/ RefuseCommand \/ ValidateCommand \/ CheckStatus
             \/ PushCommand \/ WakeDrain \/ UpdateContext \/ Confirm \/ Finish

-----------------------------------------------------------------------------
(* The executor's goroutine, and Stop.                                     *)

DrainWakes ==
    /\ drain = "wait" /\ notify
    /\ notify' = FALSE /\ drain' = "pop"
    /\ UNCHANGED <<sessionVars, contextVars, router, promptVars, commands, executorDone, overtaken>>

\* WriteToSession; an error is only logged.
PopCommand ==
    /\ drain = "pop" /\ ~executorDone
    /\ IF commands = <<>> THEN drain' = "wait" /\ UNCHANGED commands
                          ELSE commands' = Tail(commands) /\ UNCHANGED drain
    /\ UNCHANGED <<sessionVars, contextVars, router, promptVars, notify, executorDone, overtaken>>

DropCommands ==
    /\ drain = "pop" /\ executorDone
    /\ commands' = <<>> /\ drain' = "wait"
    /\ UNCHANGED <<sessionVars, contextVars, router, promptVars, notify, executorDone, overtaken>>

DrainEnds ==
    /\ drain = "wait" /\ executorDone
    /\ drain' = "end"
    /\ UNCHANGED <<sessionVars, contextVars, router, promptVars, commands, notify, executorDone, overtaken>>

StopExecutor ==
    /\ ~executorDone /\ executorDone' = TRUE
    /\ UNCHANGED <<sessionVars, contextVars, router, promptVars, commands, notify, drain, overtaken>>

Draining == DrainWakes \/ PopCommand \/ DropCommands \/ DrainEnds \/ StopExecutor

RouterNext == TakePrompt \/ Asking \/ Executing \/ Draining \/ Hearing
              \/ \E s \in Targets : SessionSteps(s) \/ Detaches(s)

RouterSpec == RouterInit /\ [][RouterNext]_routerVars

-----------------------------------------------------------------------------
(* Properties.                                                             *)

\* The session that prompts without one go to is not one whose end the router
\* has heard of, unless it heard of it while it queued a command there.
ContextLives == context \in Targets /\ life[context] = "forgotten" => context \in overtaken

\* A queued command is never left to an executor that waits for a notice.
CommandsServed == commands # <<>> /\ drain = "wait" /\ ~executorDone => notify \/ router = "wake"

\* No prompt ends without a reply, unless an action had nothing to say.
PromptsAnswered == router = "rest" => replied \/ mute

RouterSound == ContextLives /\ CommandsServed /\ PromptsAnswered
=============================================================================
