---------------------------- MODULE SpeechProofs ----------------------------
(***************************************************************************)
(* Proofs about the intent router and the notifications, and about the     *)
(* five parts of MCSpeech together.                                        *)
(*                                                                         *)
(* Of the intent router, for any sessions and prompts: RefLives says that  *)
(* a command under way was found to have a running session, so that an end *)
(* of that session was heard after it. Of the notifications, EntryInv says *)
(* what an event that has made its entry left in the map, and so why a     *)
(* later event of its key that finds the way free is a window younger      *)
(* (ApartInv); ShutInv says who can still start a goroutine while Shutdown *)
(* waits.                                                                  *)
(***************************************************************************)
EXTENDS MCSpeech, StreamProofs

-----------------------------------------------------------------------------
(* The intent router and its command queue.                                *)

RouterPlaces == {"rest", "adapter", "context", "list", "resolve", "final", "act", "validate",
                 "status", "push", "wake", "update", "confirm"}
Stages == {"new", "running", "stopped", "announced", "forgotten"}

\* What is remembered of a session that has ended: the command under way was found
\* to have a running session, so that its end was heard after that.
AfterStatus == {"status", "push", "wake", "update"}
RefLives ==
  /\ router \in AfterStatus => ref \in Targets
  /\ Queueing /\ life[ref] = "forgotten" => ref \in overtaken

\* The prompt has its reply when the next action is due, not only at the end.
Answered == router \in {"rest", "act"} => replied \/ mute

RouterInv == RouterTypeOK /\ RefLives /\ ContextLives /\ CommandsServed /\ Answered

LEMMA RouterInitial == RouterInit => RouterInv
<1> SUFFICES ASSUME RouterInit PROVE RouterInv
  OBVIOUS
<1>1. RouterTypeOK
  <2>1. /\ life \in [Targets -> Stages] /\ detaching \subseteq Targets /\ overtaken \subseteq Targets
        /\ commands = <<>> /\ commands \in Seq(Targets)
        /\ router \in RouterPlaces /\ drain \in {"wait", "pop", "end"}
    BY DEF RouterInit, Stages, RouterPlaces
  <2>2. /\ context \in Asked /\ asker \in Asked /\ addressee \in Asked /\ ref \in Asked
        /\ recent \in BOOLEAN /\ replied \in BOOLEAN /\ mute \in BOOLEAN
        /\ notify \in BOOLEAN /\ executorDone \in BOOLEAN
    BY DEF RouterInit, Asked
  <2>3. rounds \in 0..MaxRounds /\ Len(<<>>) <= MaxCommands
    BY RouterAssumption DEF RouterInit
  <2> QED BY <2>1, <2>2, <2>3 DEF RouterTypeOK, Stages, RouterPlaces
<1> QED BY <1>1, RouterAssumption DEF RouterInit, RouterInv, RefLives, ContextLives, CommandsServed, Answered,
                    AfterStatus, Queueing

LEMMA PromptStep ==
  ASSUME RouterInv, TakePrompt \/ Asking
  PROVE  RouterInv'
<1> USE DEF RouterInv, aroundVars, sessionVars, contextVars, executorVars
<1>1. RouterAssumption /\ rounds \in Nat
  BY RouterAssumption DEF RouterTypeOK
<1>2. /\ UNCHANGED aroundVars /\ ref' = ref
      /\ router \notin AfterStatus /\ router' \notin AfterStatus
      /\ router' # "act"
  BY DEF TakePrompt, Asking, AfterStatus, AdapterFails, AdapterReady, FollowContext, TakeOnly, ToolRound,
         NoActions, Resolved, PromptFails, PromptEnds
<1>3. router' = "rest" => replied'
  BY DEF TakePrompt, Asking, AdapterFails, AdapterReady, FollowContext, TakeOnly, ToolRound,
         NoActions, Resolved, PromptFails, PromptEnds
<1>4. RouterTypeOK'
  <2>1. asker' \in Asked /\ addressee' \in Asked
    BY DEF RouterTypeOK, TakePrompt, Asking, AdapterFails, AdapterReady, FollowContext, TakeOnly, ToolRound,
           NoActions, Resolved, PromptFails, PromptEnds, Asked, Listed, Known
  <2>2. router' \in RouterPlaces
    BY DEF RouterTypeOK, RouterPlaces, TakePrompt, Asking, AdapterFails, AdapterReady, FollowContext, TakeOnly,
           ToolRound, NoActions, Resolved, PromptFails, PromptEnds
  <2>3. rounds' \in 0..MaxRounds
    BY <1>1 DEF RouterAssumption, RouterTypeOK, TakePrompt, Asking, AdapterFails, AdapterReady, FollowContext,
           TakeOnly, ToolRound, NoActions, Resolved, PromptFails, PromptEnds
  <2>4. replied' \in BOOLEAN /\ mute' \in BOOLEAN
    BY DEF RouterTypeOK, TakePrompt, Asking, AdapterFails, AdapterReady, FollowContext, TakeOnly,
           ToolRound, NoActions, Resolved, PromptFails, PromptEnds
  <2> QED BY <1>2, <2>1, <2>2, <2>3, <2>4 DEF RouterTypeOK, RouterPlaces
<1>5. RefLives' /\ ContextLives'
  BY <1>2 DEF RefLives, ContextLives, Queueing, AfterStatus
<1>6. CommandsServed'
  BY <1>2 DEF CommandsServed, AfterStatus
<1>7. Answered'
  BY <1>2, <1>3 DEF Answered
<1> QED BY <1>4, <1>5, <1>6, <1>7

LEMMA ActionStep ==
  ASSUME RouterInv, Executing
  PROVE  RouterInv'
<1> USE DEF RouterInv, aroundVars, sessionVars, contextVars, executorVars, promptVars, AfterStatus
<1>1. /\ Asked = Targets \cup {NoTarget} /\ asker \in Asked /\ NoTarget \notin Targets
      /\ rounds \in 0..MaxRounds /\ 0 \in 0..MaxRounds /\ MaxCommands \in Nat
  BY RouterAssumption DEF RouterTypeOK, Asked
<1>2. \* Those that queue nothing.
      ASSUME \/ Say \/ SayNothing \/ Command \/ RefuseCommand \/ ValidateCommand \/ CheckStatus
             \/ Confirm \/ Finish
      PROVE  RouterInv'
  <2>1. UNCHANGED aroundVars /\ router' # "wake" /\ router # "wake"
    BY <1>2 DEF Say, SayNothing, Command, RefuseCommand, ValidateCommand, CheckStatus, Confirm, Finish, Acting,
                Reply, PromptEnds
  <2>2. ref' \in Asked /\ asker' \in Asked /\ addressee' \in Asked
    BY <1>1, <1>2 DEF RouterTypeOK, Say, SayNothing, Command, RefuseCommand, ValidateCommand, CheckStatus, Confirm,
                Finish, Reply, PromptEnds
  <2>3. router' \in RouterPlaces /\ rounds' \in 0..MaxRounds
    BY <1>1, <1>2 DEF RouterTypeOK, RouterPlaces, Say, SayNothing, Command, RefuseCommand, ValidateCommand,
                CheckStatus, Confirm, Finish, Reply, PromptEnds
  <2>4. replied' \in BOOLEAN /\ mute' \in BOOLEAN
    BY <1>2 DEF RouterTypeOK, Say, SayNothing, Command, RefuseCommand, ValidateCommand,
                CheckStatus, Confirm, Finish, Reply, PromptEnds
  <2>5. RouterTypeOK'
    BY <2>1, <2>2, <2>3, <2>4 DEF RouterTypeOK, RouterPlaces
  <2>6. router' \in AfterStatus => ref' \in Targets
    BY <1>2 DEF RefLives, Known, Say, SayNothing, Command, RefuseCommand, ValidateCommand, CheckStatus, Confirm,
                Finish, Acting, Reply, PromptEnds
  <2>7. Queueing' => life[ref'] = "running"
    BY <1>2 DEF Queueing, Say, SayNothing, Command, RefuseCommand, ValidateCommand, CheckStatus, Confirm,
                Finish, Acting, Reply, PromptEnds
  <2>8. RefLives' /\ ContextLives' /\ CommandsServed'
    BY <2>1, <2>6, <2>7 DEF RefLives, ContextLives, CommandsServed
  <2>9. Answered'
    BY <1>2 DEF Answered, Say, SayNothing, Command, RefuseCommand, ValidateCommand, CheckStatus, Confirm,
                Finish, Acting, Reply, PromptEnds
  <2> QED BY <2>5, <2>8, <2>9
<1>3. CASE PushCommand
  <2>1. UNCHANGED <<life, detaching, context, recent, asker, addressee, rounds, mute, notify, drain, executorDone, overtaken>>
    BY <1>3 DEF PushCommand
  <2>2. commands' \in Seq(Targets) /\ Len(commands') <= MaxCommands
    <3>1. CASE executorDone
      BY <1>3, <3>1 DEF PushCommand, RouterTypeOK
    <3>2. CASE ~executorDone
      <4>1. ref \in Targets /\ commands' = Append(commands, ref) /\ Len(commands) < MaxCommands
        BY <1>3, <3>2 DEF PushCommand, RefLives
      <4>2. commands \in Seq(Targets) /\ Len(commands) \in Nat
        BY DEF RouterTypeOK
      <4> QED BY <1>1, <4>1, <4>2
    <3> QED BY <3>1, <3>2
  <2>3. /\ ref' \in Asked /\ router' \in RouterPlaces /\ replied' \in BOOLEAN
        /\ router' \in AfterStatus => ref' = ref /\ router' = "wake"
        /\ router' = "act" => replied'
        /\ router' # "rest" /\ router = "push"
        /\ ~executorDone => router' = "wake"
    BY <1>1, <1>3 DEF PushCommand, Reply, RouterTypeOK, RouterPlaces
  <2>4. RouterTypeOK'
    BY <2>1, <2>2, <2>3 DEF RouterTypeOK, RouterPlaces
  <2>5. RefLives' /\ ContextLives'
    BY <2>1, <2>3 DEF RefLives, ContextLives, Queueing
  <2>6. CommandsServed' /\ Answered'
    BY <2>1, <2>3 DEF CommandsServed, Answered
  <2> QED BY <2>4, <2>5, <2>6
<1>4. CASE WakeDrain
  BY <1>4 DEF WakeDrain, RouterTypeOK, RefLives, ContextLives, CommandsServed, Answered, Queueing
<1>5. CASE UpdateContext
  <2>1. RouterTypeOK'
    BY <1>5 DEF UpdateContext, RouterTypeOK
  <2>2. RefLives' /\ Answered' /\ CommandsServed'
    BY <1>5 DEF UpdateContext, RefLives, Queueing, Answered, CommandsServed
  <2>3. ContextLives'
    BY <1>5 DEF UpdateContext, RefLives, Queueing, ContextLives
  <2> QED BY <2>1, <2>2, <2>3
<1> QED BY <1>2, <1>3, <1>4, <1>5 DEF Executing

LEMMA DrainStep ==
  ASSUME RouterInv, Draining
  PROVE  RouterInv'
<1> USE DEF RouterInv, sessionVars, contextVars, promptVars
<1>1. /\ UNCHANGED <<sessionVars, contextVars, router, promptVars, overtaken>>
  BY DEF Draining, DrainWakes, PopCommand, DropCommands, DrainEnds, StopExecutor
<1>2. commands' \in Seq(Targets) /\ Len(commands') <= MaxCommands
  <2>1. commands \in Seq(Targets) /\ Len(commands) \in Nat /\ Len(commands) <= MaxCommands /\ MaxCommands \in Nat
    BY RouterAssumption DEF RouterTypeOK
  <2>2. commands' = commands \/ commands' = <<>> \/ (commands # <<>> /\ commands' = Tail(commands))
    BY DEF Draining, DrainWakes, PopCommand, DropCommands, DrainEnds, StopExecutor
  <2>3. CASE commands # <<>> /\ commands' = Tail(commands)
    <3>1. commands' \in Seq(Targets) /\ Len(commands') = Len(commands) - 1
      BY <2>1, <2>3, HeadTailProperties
    <3> QED BY <2>1, <3>1
  <2>4. CASE commands' = <<>>
    BY <2>1, <2>4
  <2> QED BY <2>1, <2>2, <2>3, <2>4
<1>3. notify' \in BOOLEAN /\ executorDone' \in BOOLEAN /\ drain' \in {"wait", "pop", "end"}
  BY DEF RouterTypeOK, Draining, DrainWakes, PopCommand, DropCommands, DrainEnds, StopExecutor
<1>4. RouterTypeOK'
  BY <1>1, <1>2, <1>3 DEF RouterTypeOK
<1>5. RefLives' /\ ContextLives' /\ Answered'
  BY <1>1 DEF RefLives, ContextLives, Answered, Queueing
<1>6. CommandsServed'
  BY <1>1 DEF CommandsServed, Draining, DrainWakes, PopCommand, DropCommands, DrainEnds, StopExecutor
<1> QED BY <1>4, <1>5, <1>6

LEMMA SessionsStep ==
  ASSUME RouterInv, NEW s \in Targets, SessionSteps(s) \/ Detaches(s) \/ HearDetached(s) \/ HearStopped(s)
  PROVE  RouterInv'
<1> USE DEF RouterInv, contextVars, promptVars, executorVars
<1>1. UNCHANGED <<recent, router, promptVars, executorVars>>
  BY DEF SessionSteps, Detaches, HearDetached, HearStopped
<1>2. /\ life' \in [Targets -> Stages] /\ detaching' \subseteq Targets
      /\ context' \in {context, NoTarget} /\ overtaken \subseteq overtaken' /\ overtaken' \subseteq Targets
  BY DEF RouterTypeOK, Stages, StageTo, SessionSteps, Detaches, HearDetached, HearStopped, Clear
<1>3. ASSUME NEW r \in Targets, life'[r] = "forgotten", life[r] # "forgotten"
      PROVE  context' # r /\ (Queueing /\ ref = r => r \in overtaken')
  <2>1. life' # life
    BY <1>3
  <2>2. CASE SessionSteps(s)
    BY <1>3, <2>2 DEF SessionSteps, StageTo, RouterTypeOK
  <2>3. CASE HearStopped(s)
    <3>1. r = s
      BY <1>3, <2>3 DEF HearStopped, StageTo, RouterTypeOK
    <3> QED BY <2>3, <3>1, RouterAssumption DEF HearStopped, Clear
  <2> QED BY <2>1, <2>2, <2>3 DEF Detaches, HearDetached
<1>4. RouterTypeOK'
  BY <1>1, <1>2 DEF RouterTypeOK, Stages, Asked
<1>5. RefLives'
  <2> SUFFICES ASSUME Queueing, life'[ref] = "forgotten" PROVE ref \in overtaken'
    BY <1>1 DEF RefLives, Queueing
  <2>1. ref \in Targets
    BY DEF RefLives, Queueing, AfterStatus
  <2> QED BY <1>2, <1>3, <2>1 DEF RefLives
<1>6. ContextLives'
  BY <1>2, <1>3, RouterAssumption DEF ContextLives
<1>7. CommandsServed' /\ Answered'
  BY <1>1 DEF CommandsServed, Answered
<1> QED BY <1>4, <1>5, <1>6, <1>7

LEMMA RouterStep == RouterInv /\ [RouterNext]_routerVars => RouterInv'
<1> SUFFICES ASSUME RouterInv, [RouterNext]_routerVars PROVE RouterInv'
  OBVIOUS
<1>1. CASE ContextAges
  <2>1. /\ UNCHANGED <<life, detaching, context, router, asker, addressee, ref, rounds, replied, mute,
                       commands, notify, drain, executorDone, overtaken>>
        /\ recent' \in BOOLEAN
    BY <1>1 DEF ContextAges, sessionVars, promptVars, executorVars
  <2>2. RouterTypeOK'
    BY <2>1 DEF RouterInv, RouterTypeOK
  <2>3. RefLives' /\ ContextLives' /\ CommandsServed' /\ Answered'
    BY <2>1 DEF RouterInv, RefLives, ContextLives, CommandsServed, Answered, Queueing
  <2> QED BY <2>2, <2>3 DEF RouterInv
<1>2. CASE UNCHANGED routerVars
  BY <1>2 DEF routerVars, RouterInv, RouterTypeOK, RefLives, ContextLives, CommandsServed, Answered, Queueing,
              sessionVars, contextVars, promptVars, executorVars
<1> QED BY <1>1, <1>2, PromptStep, ActionStep, DrainStep, SessionsStep DEF RouterNext, Hearing

\* The router's variables have their types, and its queue, the counter of the tool
\* loop and what is remembered of a prompt never go beyond their bounds.
THEOREM RouterTypeCorrect == RouterSpec => []RouterTypeOK
<1> QED BY RouterInitial, RouterStep, PTL DEF RouterSpec, RouterInv

\* RouterSpec keeps RouterSound, for any sessions, rounds of tools and length of the
\* queue: the context is no session whose end was heard, no command is left to an
\* executor that waits, and no prompt ends unanswered.
THEOREM RouterIsSound == RouterSpec => []RouterSound
<1>1. RouterInv => RouterSound
  BY DEF RouterInv, RouterSound, Answered, PromptsAnswered
<1> QED BY <1>1, RouterInitial, RouterStep, PTL DEF RouterSpec

-----------------------------------------------------------------------------
(* Notifications: one push for one thing in one window.                    *)

NoticePlaces == {"unborn", "dispatch", "check", "dedup", "send", "push", "clear", "end"}
ShutStages == {"no", "stop", "consumers", "workers", "clear", "done", "gave up"}

NoticeData ==
  /\ wall \in Nat \ {0}
  /\ notice \in Seq([key : NoticeKeys, at : Nat \ {0}])
  /\ Len(notice) <= MaxNotices
  /\ place \in [Notices -> NoticePlaces]
  /\ dedup \in [NoticeKeys -> Nat]
  /\ shutting \in ShutStages
  /\ handled \in [Notices -> Nat]

NoticesMade == 1..Len(notice)
Live(n) == place[n] \notin {"unborn", "end"}

\* What an event's place says of its times: it is not older than a window while it
\* is on its way, and has an entry exactly while it is sent, or when it was pushed.
NoticeInv ==
  /\ \A n \in Notices : place[n] # "unborn" => n \in NoticesMade
  /\ \A n \in NoticesMade : n \in Notices /\ notice[n].at <= wall /\ handled[n] <= wall
  /\ \A n \in Notices : Live(n) => wall - notice[n].at < DedupWindow
  /\ \A n \in Notices : handled[n] # 0 => place[n] \in {"send", "push", "clear"} \/ n \in pushed
  /\ \A n \in Notices : place[n] \in {"send", "push", "clear"} => handled[n] # 0
  /\ \A n \in pushed : n \in Notices /\ place[n] = "end" /\ handled[n] # 0

\* The events that may come to push, or have: after the context has ended no other
\* event begins to.
Contender(n) == handled[n] # 0 /\ (n \in pushed \/ place[n] = "push" \/ ~ContextEnded)
Apart(m, n) == \/ handled[m] - notice[n].at >= DedupWindow
               \/ handled[n] - notice[m].at >= DedupWindow
ApartInv ==
  \A m, n \in Notices :
     m # n /\ Contender(m) /\ Contender(n) /\ notice[m].key = notice[n].key /\ notice[n].key \notin evicted
     => Apart(m, n)

\* Until then, an event that holds or has used its key's entry left one at least as
\* young, or is a window old.
EntryInv ==
  ~ContextEnded =>
     \A n \in Notices : handled[n] # 0 /\ notice[n].key \notin evicted =>
        \/ dedup[notice[n].key] >= notice[n].at
        \/ wall - notice[n].at >= DedupWindow

ShutInv ==
  /\ \A n \in Notices : place[n] = "dispatch" => \E S \in consuming : notice[n].key \in S
  /\ shutting \in {"workers", "clear", "done"} => consuming = {}
  /\ shutting \in {"clear", "done"} => \A n \in Notices : place[n] \in {"unborn", "end"}
  /\ shutting = "done" => Entries = {}

LEMMA NoticeParts ==
  ASSUME NoticeData, NEW n \in NoticesMade
  PROVE  /\ n \in Notices /\ n \in Nat /\ notice[n].key \in NoticeKeys /\ notice[n].at \in Nat \ {0}
         /\ handled[n] \in Nat /\ wall \in Nat /\ dedup[notice[n].key] \in Nat
         /\ DedupWindow \in Nat \ {0}
<1>1. notice[n] \in [key : NoticeKeys, at : Nat \ {0}]
  BY ElementOfSeq DEF NoticeData, NoticesMade
<1>2. n \in Notices /\ n \in Nat
  BY NotificationAssumption DEF NoticeData, NoticesMade, Notices
<1> QED BY <1>1, <1>2, NotificationAssumption DEF NoticeData

LEMMA PlaceMoves ==
  ASSUME NoticeData, NEW n \in Notices, NEW next \in NoticePlaces, MoveNotice(n, next)
  PROVE  /\ place' \in [Notices -> NoticePlaces] /\ place'[n] = next
         /\ \A m \in Notices \ {n} : place'[m] = place[m]
BY DEF NoticeData, MoveNotice

\* Cleaning up keeps no entry it did not have, and what it takes away has expired or
\* is evicted.
LEMMA CleanedEntries ==
  ASSUME NEW d \in [NoticeKeys -> Nat], NEW c \in Cleaned(d), wall \in Nat
  PROVE  /\ c \in [NoticeKeys -> Nat]
         /\ \A k \in NoticeKeys : \/ c[k] = d[k]
                                  \/ wall - d[k] >= DedupWindow
                                  \/ k \in EntriesOf(Expire(d)) \ EntriesOf(c)
<1> DEFINE fresh == Expire(d)
<1>1. fresh \in [NoticeKeys -> Nat] /\ \A k \in NoticeKeys : fresh[k] = d[k] \/ wall - d[k] >= DedupWindow
  BY DEF Expire
<1>2. CASE c = d
  BY <1>2
<1>3. CASE c = fresh
  BY <1>1, <1>3
<1>4. ASSUME NEW old \in OldestHalves(fresh), c = [k \in NoticeKeys |-> IF k \in old THEN 0 ELSE fresh[k]]
      PROVE  /\ c \in [NoticeKeys -> Nat]
             /\ \A k \in NoticeKeys : \/ c[k] = d[k]
                                      \/ wall - d[k] >= DedupWindow
                                      \/ k \in EntriesOf(fresh) \ EntriesOf(c)
  <2>1. old \subseteq EntriesOf(fresh)
    BY DEF OldestHalves
  <2>2. c \in [NoticeKeys -> Nat]
    BY <1>1, <1>4
  <2>3. ASSUME NEW k \in NoticeKeys, c[k] # fresh[k] PROVE k \in EntriesOf(fresh) \ EntriesOf(c)
    BY <1>4, <2>1, <2>3 DEF EntriesOf
  <2> QED BY <1>1, <2>2, <2>3
<1>5. c = d \/ c = fresh \/ \E old \in OldestHalves(fresh) : c = [k \in NoticeKeys |-> IF k \in old THEN 0 ELSE fresh[k]]
  BY DEF Cleaned
<1> QED BY <1>2, <1>3, <1>4, <1>5

LEMMA NoticeDataInit == NotifyInit => NoticeData /\ NoticeInv /\ ApartInv /\ EntryInv /\ ShutInv
<1> SUFFICES ASSUME NotifyInit PROVE NoticeData /\ NoticeInv /\ ApartInv /\ EntryInv /\ ShutInv
  OBVIOUS
<1>1. NoticeData
  BY NotificationAssumption DEF NotifyInit, NoticeData, NoticePlaces, ShutStages
<1>2. NoticeInv
  BY DEF NotifyInit, NoticeInv, NoticesMade, Live
<1>3. ApartInv /\ EntryInv
  BY DEF NotifyInit, ApartInv, Contender, EntryInv
<1>4. ShutInv
  BY DEF NotifyInit, ShutInv
<1> QED BY <1>1, <1>2, <1>3, <1>4

NoticeSafe == NoticeData /\ NoticeInv /\ ApartInv /\ EntryInv /\ ShutInv

\* A step that only takes an event from one place to another keeps the invariant, if
\* it begins a push for none but an event that holds an entry of a running service.
LEMMA QuietMove ==
  ASSUME NoticeSafe, NEW n \in Notices, Live(n),
         NEW next \in NoticePlaces \ {"unborn", "dispatch"}, MoveNotice(n, next),
         UNCHANGED <<wall, notice, dedup, shutVars, histVars>>,
         handled[n] # 0 => next \in {"send", "push", "clear"},
         next \in {"send", "push", "clear"} => handled[n] # 0,
         next = "push" => ~ContextEnded
  PROVE  NoticeSafe'
<1> USE DEF NoticeSafe, histVars, shutVars
<1>1. /\ place' \in [Notices -> NoticePlaces] /\ place'[n] = next
      /\ \A m \in Notices \ {n} : place'[m] = place[m]
  BY PlaceMoves
<1>2. NoticeData'
  BY <1>1 DEF NoticeData
<1>3. n \notin pushed /\ place[n] # "unborn" /\ place[n] # "end"
  BY DEF NoticeInv, Live
<1>4. NoticeInv'
  BY <1>1, <1>3 DEF NoticeInv, Live, NoticesMade
<1>5. ASSUME NEW m \in Notices, Contender(m)' PROVE Contender(m)
  BY <1>1, <1>5 DEF Contender, ContextEnded
<1>6. ApartInv'
  BY <1>5 DEF ApartInv, Apart
<1>7. EntryInv'
  BY DEF EntryInv, ContextEnded
<1>8. ShutInv'
  BY <1>1, <1>3 DEF ShutInv, Entries
<1> QED BY <1>2, <1>4, <1>6, <1>7, <1>8

LEMMA NoticeMoves ==
  ASSUME NoticeSafe, NEW n \in Notices,
         \/ Dispatch(n) \/ DispatchCancelled(n) \/ CheckClosing(n) \/ Duplicate(n)
         \/ StartPush(n) \/ PushFails(n)
  PROVE  NoticeSafe'
<1>1. place[n] \notin {"send", "push", "clear", "end"} => handled[n] = 0
  BY DEF NoticeSafe, NoticeInv
<1>2. place[n] \in {"send", "push"} => handled[n] # 0
  BY DEF NoticeSafe, NoticeInv
<1>a. CASE Dispatch(n)
  BY <1>a, <1>1, QuietMove DEF Dispatch, Live, NoticePlaces
<1>b. CASE DispatchCancelled(n)
  BY <1>b, <1>1, QuietMove DEF DispatchCancelled, Live, NoticePlaces
<1>c. CASE CheckClosing(n)
  BY <1>c, <1>1, QuietMove DEF CheckClosing, Live, NoticePlaces
<1>d. CASE Duplicate(n)
  BY <1>d, <1>1, QuietMove DEF Duplicate, Live, NoticePlaces
<1>e. CASE StartPush(n)
  BY <1>e, <1>2, QuietMove DEF StartPush, Live, NoticePlaces
<1>f. CASE PushFails(n)
  BY <1>f, <1>2, QuietMove DEF PushFails, Live, NoticePlaces
<1> QED BY <1>a, <1>b, <1>c, <1>d, <1>e, <1>f

LEMMA ReceiveStep ==
  ASSUME NoticeSafe, NEW S \in Subscriptions, NEW k \in S, ReceiveNotice(S, k)
  PROVE  NoticeSafe'
<1> USE DEF NoticeSafe, histVars, shutVars
<1> DEFINE n == Len(notice) + 1
<1>0. /\ wall \in Nat /\ notice \in Seq([key : NoticeKeys, at : Nat \ {0}]) /\ Len(notice) \in Nat
      /\ MaxNotices \in Nat /\ DedupWindow \in Nat \ {0}
  BY NotificationAssumption DEF NoticeData
<1>w. wall # 0
  BY DEF NoticeData
<1>1. [key |-> k, at |-> wall] \in [key : NoticeKeys, at : Nat \ {0}]
  BY <1>0, <1>w DEF NoticeKeys
<1>2. /\ notice' \in Seq([key : NoticeKeys, at : Nat \ {0}]) /\ Len(notice') = n
      /\ \A m \in 1..Len(notice) : notice'[m] = notice[m]
      /\ notice'[n] = [key |-> k, at |-> wall]
  BY <1>0, <1>1, AppendProperties DEF ReceiveNotice
<1>3. n \in Notices /\ n \notin NoticesMade /\ NoticesMade' = NoticesMade \cup {n} /\ n <= MaxNotices
  BY <1>0, <1>2 DEF ReceiveNotice, Notices, NoticesMade
<1>4. place[n] = "unborn" /\ n \notin pushed /\ handled[n] = 0
  BY <1>3 DEF NoticeInv
<1>5. /\ place' \in [Notices -> NoticePlaces] /\ place'[n] = "dispatch"
      /\ \A m \in Notices \ {n} : place'[m] = place[m]
  BY <1>2, <1>3, PlaceMoves DEF ReceiveNotice, NoticePlaces
<1>6. /\ wall' = wall /\ dedup' = dedup /\ consuming' = consuming /\ shutting' = shutting
      /\ handled' = handled /\ pushed' = pushed /\ evicted' = evicted
  BY DEF ReceiveNotice
<1>7. NoticeData'
  BY <1>2, <1>3, <1>5, <1>6 DEF NoticeData
<1>8. \A m \in NoticesMade : m # n /\ m \in Notices /\ notice'[m] = notice[m]
  BY <1>2, <1>3 DEF NoticesMade, NoticeInv
<1>9. \A m \in Notices : handled[m] # 0 => m \in NoticesMade
  BY DEF NoticeInv
<1>10. NoticeInv'
  <2>1. \A m \in Notices : place'[m] # "unborn" => m \in NoticesMade'
    BY <1>3, <1>5 DEF NoticeInv
  <2>2. ASSUME NEW m \in NoticesMade' PROVE m \in Notices /\ notice'[m].at <= wall' /\ handled'[m] <= wall'
    <3>1. CASE m = n
      BY <1>0, <1>2, <1>3, <1>4, <1>6, <3>1
    <3>2. CASE m \in NoticesMade
      BY <1>6, <1>8, <3>2 DEF NoticeInv
    <3> QED BY <1>3, <3>1, <3>2
  <2>3. ASSUME NEW m \in Notices, Live(m)' PROVE wall' - notice'[m].at < DedupWindow
    <3>1. CASE m = n
      BY <1>0, <1>2, <1>6, <3>1
    <3>2. CASE m # n
      BY <1>5, <1>6, <1>8, <2>3, <3>2 DEF NoticeInv, Live
    <3> QED BY <3>1, <3>2
  <2>4. \A m \in Notices : /\ handled'[m] # 0 => place'[m] \in {"send", "push", "clear"} \/ m \in pushed'
                           /\ place'[m] \in {"send", "push", "clear"} => handled'[m] # 0
    BY <1>4, <1>5, <1>6 DEF NoticeInv
  <2>5. \A m \in pushed' : m \in Notices /\ place'[m] = "end" /\ handled'[m] # 0
    BY <1>4, <1>5, <1>6 DEF NoticeInv
  <2> QED BY <2>1, <2>2, <2>3, <2>4, <2>5 DEF NoticeInv
<1>11. ASSUME NEW m \in Notices, Contender(m)' PROVE Contender(m) /\ notice'[m] = notice[m]
  BY <1>4, <1>5, <1>6, <1>8, <1>9, <1>11 DEF Contender, ContextEnded
<1>12. ApartInv'
  BY <1>6, <1>11 DEF ApartInv, Apart
<1>13. EntryInv'
  BY <1>6, <1>8, <1>9 DEF EntryInv, ContextEnded
<1>14. ShutInv'
  <2>1. S \in consuming /\ notice'[n].key \in S
    BY <1>2 DEF ReceiveNotice
  <2>2. shutting \notin {"workers", "clear", "done"}
    BY <2>1 DEF ShutInv
  <2>3. ASSUME NEW m \in Notices, place'[m] = "dispatch" PROVE \E T \in consuming' : notice'[m].key \in T
    <3>1. CASE m = n
      BY <1>6, <2>1, <3>1
    <3>2. CASE m # n
      <4>1. place[m] = "dispatch" /\ m \in NoticesMade
        BY <1>5, <2>3, <3>2 DEF NoticeInv
      <4> QED BY <1>6, <1>8, <4>1 DEF ShutInv
    <3> QED BY <3>1, <3>2
  <2> QED BY <1>6, <2>2, <2>3 DEF ShutInv
<1> QED BY <1>7, <1>10, <1>12, <1>13, <1>14

\* While the service runs, an event that has an entry its own was to replace or to
\* take away is a window old.
LEMMA EntryStep ==
  ASSUME NoticeSafe, NEW n \in Notices, FirstOfWindow(n)
  PROVE  NoticeSafe'
<1> USE DEF NoticeSafe, histVars, shutVars
<1> DEFINE k == notice[n].key
           entered == [dedup EXCEPT ![k] = notice[n].at]
<1>0. place[n] = "dedup" /\ n \in NoticesMade
  BY DEF FirstOfWindow, NoticeInv
<1>1. /\ k \in NoticeKeys /\ notice[n].at \in Nat \ {0} /\ wall \in Nat \ {0}
      /\ dedup[k] \in Nat /\ DedupWindow \in Nat \ {0} /\ dedup \in [NoticeKeys -> Nat]
  BY <1>0, NoticeParts DEF NoticeData
<1>2. /\ wall' = wall /\ notice' = notice /\ consuming' = consuming /\ shutting' = shutting
      /\ pushed' = pushed /\ handled' = [handled EXCEPT ![n] = wall]
      /\ dedup' \in Cleaned(entered)
      /\ evicted' = evicted \cup (EntriesOf(Expire(entered)) \ EntriesOf(dedup'))
      /\ dedup[k] = 0 \/ notice[n].at - dedup[k] >= DedupWindow
  BY DEF FirstOfWindow
<1>3. /\ place' \in [Notices -> NoticePlaces] /\ place'[n] = "send"
      /\ \A m \in Notices \ {n} : place'[m] = place[m]
  BY PlaceMoves DEF FirstOfWindow, NoticePlaces
<1>4. /\ handled' \in [Notices -> Nat] /\ handled'[n] = wall
      /\ \A m \in Notices \ {n} : handled'[m] = handled[m]
  BY <1>1, <1>2 DEF NoticeData
<1>5. /\ entered \in [NoticeKeys -> Nat] /\ entered[k] = notice[n].at
      /\ \A l \in NoticeKeys \ {k} : entered[l] = dedup[l]
  BY <1>1
<1>6. /\ dedup' \in [NoticeKeys -> Nat]
      /\ \A l \in NoticeKeys \ evicted' : dedup'[l] = entered[l] \/ wall - entered[l] >= DedupWindow
  BY <1>1, <1>2, <1>5, CleanedEntries
<1>7. NoticeData'
  BY <1>2, <1>3, <1>4, <1>6 DEF NoticeData
<1>8. n \notin pushed /\ wall - notice[n].at < DedupWindow /\ notice[n].at <= wall
  BY <1>0 DEF NoticeInv, Live
<1>9. NoticeInv'
  <2>1. \A m \in Notices : place'[m] # "unborn" => m \in NoticesMade'
    BY <1>0, <1>2, <1>3 DEF NoticeInv, NoticesMade
  <2>2. ASSUME NEW m \in NoticesMade' PROVE m \in Notices /\ notice'[m].at <= wall' /\ handled'[m] <= wall'
    <3>1. m \in NoticesMade /\ m \in Notices /\ notice[m].at <= wall /\ handled[m] <= wall
      BY <1>2 DEF NoticeInv, NoticesMade
    <3> QED BY <1>1, <1>2, <1>4, <3>1
  <2>3. \A m \in Notices : Live(m)' => wall' - notice'[m].at < DedupWindow
    BY <1>2, <1>3, <1>8 DEF NoticeInv, Live
  <2>4. \A m \in Notices : /\ handled'[m] # 0 => place'[m] \in {"send", "push", "clear"} \/ m \in pushed'
                           /\ place'[m] \in {"send", "push", "clear"} => handled'[m] # 0
    BY <1>1, <1>2, <1>3, <1>4 DEF NoticeInv
  <2>5. \A m \in pushed' : m \in Notices /\ place'[m] = "end" /\ handled'[m] # 0
    BY <1>2, <1>3, <1>4, <1>8 DEF NoticeInv
  <2> QED BY <2>1, <2>2, <2>3, <2>4, <2>5 DEF NoticeInv
<1>10. ASSUME NEW m \in Notices, handled[m] # 0
       PROVE  /\ notice[m].key \in NoticeKeys /\ notice[m].at \in Nat \ {0}
              /\ dedup[notice[m].key] \in Nat
  BY <1>10, NoticeParts DEF NoticeInv
<1>11. ASSUME NEW m \in Notices, m # n, handled[m] # 0, notice[m].key = k, k \notin evicted', ~ContextEnded
       PROVE  wall - notice[m].at >= DedupWindow
  <2>1. dedup[k] >= notice[m].at \/ wall - notice[m].at >= DedupWindow
    BY <1>2, <1>11 DEF EntryInv
  <2>2. notice[m].at \in Nat \ {0}
    BY <1>10, <1>11
  <2> QED BY <1>1, <1>2, <1>8, <2>1, <2>2
<1>12. ASSUME NEW m \in Notices, Contender(m)' PROVE (m # n => Contender(m)) /\ (m = n => ~ContextEnded)
  BY <1>2, <1>3, <1>4, <1>8, <1>12 DEF Contender, ContextEnded
<1>13. ApartInv'
  <2> SUFFICES ASSUME NEW l \in Notices, NEW m \in Notices, l # m, Contender(l)', Contender(m)',
                      notice[l].key = notice[m].key, notice[m].key \notin evicted'
               PROVE  Apart(l, m)'
    BY <1>2 DEF ApartInv
  <2>1. CASE l = n
    <3>1. handled[m] # 0 /\ ~ContextEnded
      BY <1>12, <2>1 DEF Contender
    <3> QED BY <1>2, <1>4, <1>11, <2>1, <3>1 DEF Apart
  <2>2. CASE m = n
    <3>1. handled[l] # 0 /\ ~ContextEnded
      BY <1>12, <2>2 DEF Contender
    <3> QED BY <1>2, <1>4, <1>11, <2>2, <3>1 DEF Apart
  <2>3. CASE l # n /\ m # n
    <3>1. Apart(l, m)
      BY <1>2, <1>12, <2>3 DEF ApartInv
    <3> QED BY <1>2, <1>4, <2>3, <3>1 DEF Apart
  <2> QED BY <2>1, <2>2, <2>3
<1>14. EntryInv'
  <2> SUFFICES ASSUME ~ContextEnded, NEW m \in Notices, handled'[m] # 0, notice[m].key \notin evicted'
               PROVE  dedup'[notice[m].key] >= notice[m].at \/ wall - notice[m].at >= DedupWindow
    BY <1>2 DEF EntryInv, ContextEnded
  <2>1. CASE m = n
    <3>1. dedup'[k] = notice[n].at \/ wall - notice[n].at >= DedupWindow
      BY <1>1, <1>5, <1>6, <2>1
    <3> QED BY <1>1, <2>1, <3>1
  <2>2. CASE m # n /\ notice[m].key = k
    BY <1>4, <1>11, <2>2
  <2>3. CASE m # n /\ notice[m].key # k
    <3> DEFINE l == notice[m].key
    <3>1. l \in NoticeKeys \ {k} /\ notice[m].at \in Nat \ {0} /\ dedup[l] \in Nat /\ handled[m] # 0
      BY <1>4, <1>10, <2>3
    <3>2. dedup'[l] = dedup[l] \/ wall - dedup[l] >= DedupWindow
      BY <1>5, <1>6, <3>1
    <3>3. dedup[l] >= notice[m].at \/ wall - notice[m].at >= DedupWindow
      BY <1>2, <3>1 DEF EntryInv
    <3> QED BY <1>1, <3>1, <3>2, <3>3
  <2> QED BY <2>1, <2>2, <2>3
<1>15. ShutInv'
  <2>1. shutting \notin {"clear", "done"}
    BY <1>0 DEF ShutInv
  <2> QED BY <1>2, <1>3, <2>1 DEF ShutInv
<1> QED BY <1>7, <1>9, <1>13, <1>14, <1>15

LEMMA PushStep ==
  ASSUME NoticeSafe, NEW n \in Notices, PushSucceeds(n)
  PROVE  NoticeSafe'
<1> USE DEF NoticeSafe, shutVars
<1>1. place[n] = "push" /\ handled[n] # 0 /\ n \in Notices
  BY DEF PushSucceeds, NoticeInv
<1>2. /\ wall' = wall /\ notice' = notice /\ consuming' = consuming /\ shutting' = shutting
      /\ pushed' = pushed \cup {n} /\ handled' = handled /\ dedup' = dedup /\ evicted' = evicted
  BY DEF PushSucceeds
<1>3. /\ place' \in [Notices -> NoticePlaces] /\ place'[n] = "end"
      /\ \A m \in Notices \ {n} : place'[m] = place[m]
  BY PlaceMoves DEF PushSucceeds, NoticePlaces
<1>4. NoticeData'
  BY <1>2, <1>3 DEF NoticeData
<1>5. NoticeInv'
  BY <1>1, <1>2, <1>3 DEF NoticeInv, Live, NoticesMade
<1>6. ASSUME NEW m \in Notices, Contender(m)' PROVE Contender(m)
  BY <1>1, <1>2, <1>3, <1>6 DEF Contender, ContextEnded
<1>7. ApartInv'
  BY <1>2, <1>6 DEF ApartInv, Apart
<1>8. EntryInv'
  BY <1>2 DEF EntryInv, ContextEnded
<1>9. ShutInv'
  BY <1>1, <1>2, <1>3 DEF ShutInv, Entries
<1> QED BY <1>4, <1>5, <1>7, <1>8, <1>9

\* The entry an event takes back may be another's: then that one is a window old.
LEMMA ClearStep ==
  ASSUME NoticeSafe, NEW n \in Notices, ClearDedup(n)
  PROVE  NoticeSafe'
<1> USE DEF NoticeSafe, shutVars
<1> DEFINE k == notice[n].key
<1>1. place[n] = "clear" /\ handled[n] # 0 /\ n \in NoticesMade /\ n \notin pushed
  BY DEF ClearDedup, NoticeInv
<1>2. /\ wall' = wall /\ notice' = notice /\ consuming' = consuming /\ shutting' = shutting
      /\ pushed' = pushed /\ evicted' = evicted
      /\ handled' = [handled EXCEPT ![n] = 0] /\ dedup' = [dedup EXCEPT ![k] = 0]
  BY DEF ClearDedup
<1>3. /\ place' \in [Notices -> NoticePlaces] /\ place'[n] = "end"
      /\ \A m \in Notices \ {n} : place'[m] = place[m]
  BY PlaceMoves DEF ClearDedup, NoticePlaces
<1>4. /\ handled' \in [Notices -> Nat] /\ handled'[n] = 0
      /\ \A m \in Notices \ {n} : handled'[m] = handled[m]
  BY <1>2 DEF NoticeData
<1>5. /\ dedup' \in [NoticeKeys -> Nat]
      /\ \A l \in NoticeKeys \ {k} : dedup'[l] = dedup[l]
  BY <1>2 DEF NoticeData
<1>6. NoticeData'
  BY <1>2, <1>3, <1>4, <1>5 DEF NoticeData
<1>7. NoticeInv'
  <2>0. wall \in Nat
    BY DEF NoticeData
  <2>1. \A m \in NoticesMade' : m \in Notices /\ notice'[m].at <= wall' /\ handled'[m] <= wall'
    BY <1>2, <1>4, <2>0 DEF NoticeInv, NoticesMade
  <2>2. \A m \in Notices : /\ place'[m] # "unborn" => m \in NoticesMade'
                           /\ Live(m)' => wall' - notice'[m].at < DedupWindow
    BY <1>1, <1>2, <1>3 DEF NoticeInv, NoticesMade, Live
  <2>3. \A m \in Notices : /\ handled'[m] # 0 => place'[m] \in {"send", "push", "clear"} \/ m \in pushed'
                           /\ place'[m] \in {"send", "push", "clear"} => handled'[m] # 0
    BY <1>2, <1>3, <1>4 DEF NoticeInv
  <2>4. \A m \in pushed' : m \in Notices /\ place'[m] = "end" /\ handled'[m] # 0
    BY <1>1, <1>2, <1>3, <1>4 DEF NoticeInv
  <2> QED BY <2>1, <2>2, <2>3, <2>4 DEF NoticeInv
<1>8. ASSUME NEW m \in Notices, Contender(m)' PROVE Contender(m) /\ m # n
  BY <1>2, <1>3, <1>4, <1>8 DEF Contender, ContextEnded
<1>9. ApartInv'
  <2> SUFFICES ASSUME NEW l \in Notices, NEW m \in Notices, l # m, Contender(l)', Contender(m)',
                      notice[l].key = notice[m].key, notice[m].key \notin evicted
               PROVE  Apart(l, m)'
    BY <1>2 DEF ApartInv
  <2>1. Apart(l, m) /\ l # n /\ m # n
    BY <1>8 DEF ApartInv
  <2> QED BY <1>2, <1>4, <2>1 DEF Apart
<1>10. EntryInv'
  <2> SUFFICES ASSUME ~ContextEnded, NEW m \in Notices, handled'[m] # 0, notice[m].key \notin evicted
               PROVE  dedup'[notice[m].key] >= notice[m].at \/ wall - notice[m].at >= DedupWindow
    BY <1>2 DEF EntryInv, ContextEnded
  <2>1. m # n /\ handled[m] # 0 /\ m \in NoticesMade
    BY <1>4 DEF NoticeInv
  <2>2. CASE notice[m].key = k
    <3>1. Contender(m) /\ Contender(n)
      BY <1>1, <2>1 DEF Contender
    <3>2. Apart(m, n)
      BY <2>1, <2>2, <3>1 DEF ApartInv
    <3>3. /\ handled[m] <= wall /\ handled[n] <= wall /\ wall - notice[n].at < DedupWindow
      BY <1>1, <2>1 DEF NoticeInv, Live
    <3>4. /\ notice[m].at \in Nat /\ notice[n].at \in Nat /\ wall \in Nat /\ DedupWindow \in Nat
          /\ handled[m] \in Nat /\ handled[n] \in Nat
      BY <1>1, <2>1, NoticeParts
    <3> QED BY <3>2, <3>3, <3>4 DEF Apart
  <2>3. CASE notice[m].key # k
    <3>1. dedup'[notice[m].key] = dedup[notice[m].key]
      BY <1>5, <2>1, <2>3, NoticeParts
    <3> QED BY <2>1, <3>1 DEF EntryInv
  <2> QED BY <2>2, <2>3
<1>11. ShutInv'
  <2>1. shutting \notin {"clear", "done"}
    BY <1>1 DEF ShutInv
  <2> QED BY <1>2, <1>3, <2>1 DEF ShutInv
<1> QED BY <1>6, <1>7, <1>9, <1>10, <1>11

LEMMA CloseStep ==
  ASSUME NoticeSafe, NEW here \in ShutStages, NEW next \in ShutStages, CloseNotices(here, next),
         next \in {"no", "stop"} => here \in {"no", "stop"},
         consuming' = consuming,
         \/ dedup' = dedup /\ next # "done"
         \/ dedup' = [k \in NoticeKeys |-> 0] /\ next \in {"done", "gave up"},
         next \in {"workers", "clear", "done"} => consuming = {},
         next \in {"clear", "done"} => \A n \in Notices : place[n] \in {"unborn", "end"}
  PROVE  NoticeSafe'
<1> USE DEF NoticeSafe, noticeVars, histVars
<1>1. /\ wall' = wall /\ notice' = notice /\ place' = place /\ handled' = handled
      /\ pushed' = pushed /\ evicted' = evicted /\ shutting = here /\ shutting' = next
  BY DEF CloseNotices
<1>2. dedup' \in [NoticeKeys -> Nat]
  <2>1. dedup \in [NoticeKeys -> Nat] /\ [k \in NoticeKeys |-> 0] \in [NoticeKeys -> Nat]
    BY DEF NoticeData
  <2> QED BY <2>1
<1>3. NoticeData' /\ NoticeInv'
  BY <1>1, <1>2 DEF NoticeData, NoticeInv, Live, NoticesMade
<1>4. ContextEnded => ContextEnded'
  BY <1>1 DEF ContextEnded
<1>5. ApartInv'
  BY <1>1, <1>4 DEF ApartInv, Apart, Contender
<1>6. dedup' # dedup => ContextEnded'
  BY <1>1 DEF ContextEnded
<1>7. EntryInv'
  BY <1>1, <1>4, <1>6 DEF EntryInv
<1>8. next = "done" => Entries' = {}
  BY <1>1 DEF Entries, EntriesOf
<1>9. ShutInv'
  BY <1>1, <1>8 DEF ShutInv
<1> QED BY <1>3, <1>5, <1>7, <1>9

LEMMA CloseDownStep ==
  ASSUME NoticeSafe, CloseDown
  PROVE  NoticeSafe'
<1>1. CASE Announce
  BY <1>1, CloseStep DEF Announce, ShutStages
<1>2. CASE StopConsumers
  BY <1>2, CloseStep DEF StopConsumers, ShutStages
<1>3. CASE AwaitConsumers
  BY <1>3, CloseStep DEF AwaitConsumers, ShutStages
<1>4. CASE GiveUp
  BY <1>4, CloseStep DEF GiveUp, ShutStages
<1>5. CASE AwaitWorkers
  <2>1. consuming = {}
    BY <1>5 DEF AwaitWorkers, CloseNotices, NoticeSafe, ShutInv
  <2>2. \A n \in Notices : place[n] \in {"unborn", "end"}
    BY <1>5, <2>1 DEF AwaitWorkers, Running, NoticeSafe, ShutInv
  <2> QED BY <1>5, <2>1, <2>2, CloseStep DEF AwaitWorkers, ShutStages
<1>6. CASE ClearAll
  <2>1. consuming = {} /\ \A n \in Notices : place[n] \in {"unborn", "end"}
    BY <1>6 DEF ClearAll, CloseNotices, NoticeSafe, ShutInv
  <2> QED BY <1>6, <2>1, CloseStep DEF ClearAll, ShutStages
<1>7. CASE ClearEarly
  BY <1>7, CloseStep DEF ClearEarly, ShutStages
<1>8. ASSUME NEW S \in Subscriptions, ConsumerReturns(S) PROVE NoticeSafe'
  <2>1. /\ wall' = wall /\ notice' = notice /\ place' = place /\ handled' = handled /\ dedup' = dedup
        /\ pushed' = pushed /\ evicted' = evicted /\ shutting' = shutting
        /\ consuming' = consuming \ {S} /\ ~Busy(S)
    BY <1>8 DEF ConsumerReturns, noticeVars, histVars
  <2>2. NoticeData' /\ NoticeInv' /\ ApartInv' /\ EntryInv'
    BY <2>1 DEF NoticeSafe, NoticeData, NoticeInv, ApartInv, EntryInv, Live, NoticesMade, Contender,
                Apart, ContextEnded
  <2>3. ShutInv'
    <3>1. ASSUME NEW n \in Notices, place[n] = "dispatch" PROVE \E T \in consuming \ {S} : notice[n].key \in T
      <4>1. PICK T \in consuming : notice[n].key \in T
        BY <3>1 DEF NoticeSafe, ShutInv
      <4>2. T # S
        BY <2>1, <3>1, <4>1 DEF Busy
      <4> QED BY <4>1, <4>2
    <3> QED BY <2>1, <3>1 DEF NoticeSafe, ShutInv, Entries
  <2> QED BY <2>2, <2>3 DEF NoticeSafe
<1> QED BY <1>1, <1>2, <1>3, <1>4, <1>5, <1>6, <1>7, <1>8 DEF CloseDown

LEMMA TickStep ==
  ASSUME NoticeSafe, PassTime
  PROVE  NoticeSafe'
<1> USE DEF NoticeSafe, noticeVars, shutVars, histVars
<1>1. /\ wall' = wall + 1 /\ notice' = notice /\ place' = place /\ handled' = handled
      /\ pushed' = pushed /\ evicted' = evicted /\ shutting' = shutting /\ dedup' = dedup
      /\ consuming' = consuming /\ Prompt(wall')
  BY DEF PassTime
<1>2. wall \in Nat \ {0} /\ DedupWindow \in Nat \ {0}
  BY NotificationAssumption DEF NoticeData
<1>3. NoticeData'
  BY <1>1, <1>2 DEF NoticeData
<1>4. \A n \in NoticesMade : notice[n].at \in Nat /\ handled[n] \in Nat
  BY NoticeParts
<1>5. NoticeInv'
  <2>1. \A n \in NoticesMade' : n \in Notices /\ notice'[n].at <= wall' /\ handled'[n] <= wall'
    BY <1>1, <1>2, <1>4 DEF NoticeInv, NoticesMade
  <2>2. \A n \in Notices : Live(n)' => wall' - notice'[n].at < DedupWindow
    BY <1>1 DEF Live, Prompt
  <2> QED BY <1>1, <2>1, <2>2 DEF NoticeInv, NoticesMade
<1>6. ApartInv'
  BY <1>1 DEF ApartInv, Apart, Contender, ContextEnded
<1>7. EntryInv'
  <2> SUFFICES ASSUME ~ContextEnded, NEW n \in Notices, handled[n] # 0, notice[n].key \notin evicted
               PROVE  dedup[notice[n].key] >= notice[n].at \/ wall' - notice[n].at >= DedupWindow
    <3>1. ContextEnded' = ContextEnded /\ handled' = handled /\ notice' = notice /\ evicted' = evicted /\ dedup' = dedup
      BY <1>1 DEF ContextEnded
    <3> QED BY <3>1 DEF EntryInv
  <2>1. notice[n].at \in Nat
    BY <1>4 DEF NoticeInv
  <2>2. dedup[notice[n].key] >= notice[n].at \/ wall - notice[n].at >= DedupWindow
    BY DEF EntryInv
  <2> QED BY <1>1, <1>2, <2>1, <2>2
<1>8. ShutInv'
  BY <1>1 DEF ShutInv, Entries
<1> QED BY <1>3, <1>5, <1>6, <1>7, <1>8

LEMMA NotifyStep == NoticeSafe /\ [NotifyNext]_notifyVars => NoticeSafe'
<1> SUFFICES ASSUME NoticeSafe, [NotifyNext]_notifyVars PROVE NoticeSafe'
  OBVIOUS
<1>1. ASSUME NEW n \in Notices, Notify(n) PROVE NoticeSafe'
  BY <1>1, NoticeMoves, EntryStep, PushStep, ClearStep DEF Notify
<1>2. CASE UNCHANGED notifyVars
  BY <1>2 DEF notifyVars, noticeVars, shutVars, histVars, NoticeSafe, NoticeData, NoticeInv, ApartInv,
              EntryInv, ShutInv, Live, NoticesMade, Contender, Apart, ContextEnded, Entries
<1> QED BY <1>1, <1>2, ReceiveStep, CloseDownStep, TickStep DEF NotifyNext

\* NotifySpec keeps NotifiedOnce, for every set of consumers and keys, every window,
\* every bound of the map and of the semaphore: two pushes for one thing were a
\* window apart, in whatever order their goroutines ran and others failed, and after
\* Shutdown has returned no goroutine is left and the map is empty.
THEOREM NotifiedAtMostOnce == NotifySpec => []NotifiedOnce
<1>1. NotifyInit => NoticeSafe
  BY NoticeDataInit DEF NoticeSafe
<1>2. NoticeSafe => NotifiedOnce
  <2> SUFFICES ASSUME NoticeSafe PROVE NotifiedOnce
    OBVIOUS
  <2>1. OncePerWindow
    BY DEF NoticeSafe, NoticeInv, ApartInv, Apart, Contender, OncePerWindow
  <2> QED BY <2>1 DEF NoticeSafe, ShutInv, NotifiedOnce, QuietAfterShutdown
<1> QED BY <1>1, <1>2, NotifyStep, PTL DEF NotifySpec

\* Times and sets, and what the semaphore and the two limits of the map bound.
NoticeTimes ==
  /\ wall <= MaxWall /\ \A k \in NoticeKeys : dedup[k] <= wall
  /\ consuming \subseteq Subscriptions /\ evicted \subseteq NoticeKeys

SlotsHeld == Cardinality(Running) <= SendSlots

MapBounded ==
  /\ IsFiniteSet(Entries)
  /\ Cardinality(Entries) <= CleanupThreshold \/ Cardinality(Entries) <= DedupHardCap

LEMMA RunningFinite == IsFiniteSet(Running) /\ IsFiniteSet(Running')
<1>1. IsFiniteSet(Notices)
  BY FS_Interval, NotificationAssumption DEF Notices
<1>2. Running \subseteq Notices /\ Running' \subseteq Notices
  BY DEF Running
<1> QED BY <1>1, <1>2, FS_Subset

LEMMA SlotsStep == NoticeSafe /\ SlotsHeld /\ [NotifyNext]_notifyVars => SlotsHeld'
<1> SUFFICES ASSUME NoticeSafe, SlotsHeld, [NotifyNext]_notifyVars PROVE SlotsHeld'
  OBVIOUS
<1>0. /\ Cardinality(Running) \in Nat /\ Cardinality(Running') \in Nat /\ SendSlots \in Nat
      /\ place \in [Notices -> NoticePlaces]
  BY RunningFinite, FS_CardinalityType, NotificationAssumption DEF NoticeSafe, NoticeData
<1>1. ASSUME Running' \subseteq Running PROVE SlotsHeld'
  <2>1. Cardinality(Running') <= Cardinality(Running)
    BY <1>1, RunningFinite, FS_Subset
  <2> QED BY <1>0, <2>1 DEF SlotsHeld
<1>2. CASE UNCHANGED notifyVars
  BY <1>1, <1>2 DEF notifyVars, noticeVars, Running
<1>3. CASE CloseDown \/ PassTime
  <2>1. place' = place
    BY <1>3
       DEF CloseDown, Announce, StopConsumers, AwaitConsumers, GiveUp, AwaitWorkers, ClearAll, ClearEarly,
           ConsumerReturns, CloseNotices, PassTime, noticeVars
  <2> QED BY <1>1, <2>1 DEF Running
<1>4. ASSUME NEW S \in Subscriptions, NEW k \in S, ReceiveNotice(S, k) PROVE SlotsHeld'
  BY <1>0, <1>1, <1>4 DEF ReceiveNotice, MoveNotice, Running
<1>5. ASSUME NEW n \in Notices, Dispatch(n) PROVE SlotsHeld'
  <2>1. Running' \subseteq Running \cup {n} /\ Cardinality(Running) < SendSlots
    BY <1>0, <1>5 DEF Dispatch, MoveNotice, Running
  <2>2. /\ IsFiniteSet(Running \cup {n})
        /\ Cardinality(Running \cup {n}) \in {Cardinality(Running), Cardinality(Running) + 1}
    <3>1. /\ IsFiniteSet(Running \cup {n})
          /\ \/ Cardinality(Running \cup {n}) = Cardinality(Running)
             \/ Cardinality(Running \cup {n}) = Cardinality(Running) + 1
      BY RunningFinite, FS_AddElement, Zenon
    <3> QED BY <3>1
  <2>3. Cardinality(Running') <= Cardinality(Running \cup {n})
    BY <2>1, <2>2, FS_Subset
  <2> QED BY <1>0, <2>1, <2>2, <2>3 DEF SlotsHeld
<1>6. ASSUME NEW n \in Notices, Notify(n), ~Dispatch(n) PROVE SlotsHeld'
  <2>1. Running' \subseteq Running
    <3>1. ASSUME NEW next, MoveNotice(n, next), n \in Running \/ next = "end" PROVE Running' \subseteq Running
      BY <1>0, <3>1 DEF MoveNotice, Running
    <3>2. place[n] \notin {"unborn", "dispatch", "end"} => n \in Running
      BY DEF Running
    <3> QED BY <1>6, <3>1, <3>2
            DEF Notify, DispatchCancelled, CheckClosing, Duplicate, FirstOfWindow, StartPush, PushSucceeds,
                PushFails, ClearDedup
  <2> QED BY <1>1, <2>1
<1> QED BY <1>2, <1>3, <1>4, <1>5, <1>6 DEF NotifyNext

\* A cleaned map holds no more than one of the limits, however the oldest half of its
\* entries is chosen, if there was one entry too many at most.
LEMMA CleanedBounded ==
  ASSUME NEW d \in [NoticeKeys -> Nat], NEW c \in Cleaned(d), IsFiniteSet(EntriesOf(d)),
         \/ Cardinality(EntriesOf(d)) <= CleanupThreshold + 1
         \/ Cardinality(EntriesOf(d)) <= DedupHardCap + 1
  PROVE  /\ \A k \in NoticeKeys : c[k] \in {0, d[k]}
         /\ IsFiniteSet(EntriesOf(c))
         /\ Cardinality(EntriesOf(c)) <= CleanupThreshold \/ Cardinality(EntriesOf(c)) <= DedupHardCap
<1> DEFINE fresh == Expire(d)
<1>0. CleanupThreshold \in Nat \ {0} /\ DedupHardCap \in Nat /\ Cardinality(EntriesOf(d)) \in Nat
  BY NotificationAssumption, FS_CardinalityType
<1>1. /\ \A k \in NoticeKeys : fresh[k] \in {0, d[k]}
      /\ EntriesOf(fresh) \subseteq EntriesOf(d)
  BY DEF Expire, EntriesOf
<1>2. /\ IsFiniteSet(EntriesOf(fresh)) /\ Cardinality(EntriesOf(fresh)) <= Cardinality(EntriesOf(d))
      /\ Cardinality(EntriesOf(fresh)) \in Nat
  BY <1>1, FS_Subset, FS_CardinalityType
<1>3. CASE Cardinality(EntriesOf(d)) <= CleanupThreshold
  <2>1. c = d
    BY <1>3 DEF Cleaned
  <2> QED BY <1>3, <2>1
<1>4. CASE ~(Cardinality(EntriesOf(d)) <= CleanupThreshold) /\ Cardinality(EntriesOf(fresh)) <= DedupHardCap
  <2>1. c = fresh
    BY <1>4 DEF Cleaned
  <2> HIDE DEF fresh
  <2> QED BY <1>1, <1>2, <1>4, <2>1
<1>5. CASE ~(Cardinality(EntriesOf(d)) <= CleanupThreshold) /\ ~(Cardinality(EntriesOf(fresh)) <= DedupHardCap)
  <2>1. PICK old \in OldestHalves(fresh) : c = [k \in NoticeKeys |-> IF k \in old THEN 0 ELSE fresh[k]]
    BY <1>5 DEF Cleaned
  <2>2. /\ old \subseteq EntriesOf(fresh)
        /\ Cardinality(old) = Cardinality(EntriesOf(fresh)) \div 2
    BY DEF OldestHalves
  <2> HIDE DEF fresh
  <2>3. EntriesOf(c) = EntriesOf(fresh) \ old
    BY <2>1 DEF EntriesOf
  <2>4. EntriesOf(fresh) \cap old = old
    BY <2>2
  <2>5. /\ IsFiniteSet(EntriesOf(c))
        /\ Cardinality(EntriesOf(c)) = Cardinality(EntriesOf(fresh)) - Cardinality(old)
    BY <1>2, <2>3, <2>4, FS_Difference
  <2>6. Cardinality(EntriesOf(c)) <= CleanupThreshold \/ Cardinality(EntriesOf(c)) <= DedupHardCap
    <3> DEFINE all == Cardinality(EntriesOf(d))
               left == Cardinality(EntriesOf(fresh))
    <3>1. /\ all \in Nat /\ left \in Nat /\ left <= all
          /\ all <= CleanupThreshold + 1 \/ all <= DedupHardCap + 1
          /\ ~(all <= CleanupThreshold) /\ ~(left <= DedupHardCap)
          /\ Cardinality(EntriesOf(c)) = left - (left \div 2)
      BY <1>0, <1>2, <1>5, <2>2, <2>5
    <3> HIDE DEF all, left
    <3> QED BY <1>0, <3>1
  <2>7. \A k \in NoticeKeys : c[k] \in {0, d[k]}
    BY <1>1, <2>1
  <2> QED BY <2>5, <2>6, <2>7
<1> QED BY <1>3, <1>4, <1>5

\* The step that makes an entry.
LEMMA EntryBounded ==
  ASSUME NoticeSafe, MapBounded, NEW n \in Notices, FirstOfWindow(n)
  PROVE  /\ MapBounded'
         /\ \A k \in NoticeKeys : dedup'[k] \in {0, dedup[k], notice[n].at}
         /\ evicted' \subseteq evicted \cup NoticeKeys
<1> DEFINE k == notice[n].key
           entered == [dedup EXCEPT ![k] = notice[n].at]
<1>1. n \in NoticesMade
  BY DEF FirstOfWindow, NoticeSafe, NoticeInv
<1>2. k \in NoticeKeys /\ notice[n].at \in Nat \ {0} /\ dedup \in [NoticeKeys -> Nat]
  BY <1>1, NoticeParts DEF NoticeSafe, NoticeData
<1>3. /\ dedup' \in Cleaned(entered)
      /\ evicted' = evicted \cup (EntriesOf(Expire(entered)) \ EntriesOf(dedup'))
  BY DEF FirstOfWindow
<1>4. entered \in [NoticeKeys -> Nat] /\ \A l \in NoticeKeys : entered[l] \in {dedup[l], notice[n].at}
  BY <1>2
<1>5. EntriesOf(entered) \subseteq Entries \cup {k}
  BY <1>2 DEF EntriesOf, Entries
<1> HIDE DEF entered, k
<1>6. /\ IsFiniteSet(Entries \cup {k}) /\ Cardinality(Entries \cup {k}) \in Nat /\ Cardinality(Entries) \in Nat
      /\ Cardinality(Entries \cup {k}) <= Cardinality(Entries) + 1
  <2>1. IsFiniteSet(Entries)
    BY DEF MapBounded
  <2>2. /\ IsFiniteSet(Entries \cup {k})
        /\ \/ Cardinality(Entries \cup {k}) = Cardinality(Entries)
           \/ Cardinality(Entries \cup {k}) = Cardinality(Entries) + 1
    BY <2>1, FS_AddElement, Zenon
  <2> QED BY <2>1, <2>2, FS_CardinalityType
<1>7. /\ IsFiniteSet(EntriesOf(entered)) /\ Cardinality(EntriesOf(entered)) \in Nat
      /\ Cardinality(EntriesOf(entered)) <= Cardinality(Entries \cup {k})
  BY <1>5, <1>6, FS_Subset, FS_CardinalityType
<1>8. \/ Cardinality(EntriesOf(entered)) <= CleanupThreshold + 1
      \/ Cardinality(EntriesOf(entered)) <= DedupHardCap + 1
  BY <1>6, <1>7, NotificationAssumption DEF MapBounded
<1>9. /\ \A l \in NoticeKeys : dedup'[l] \in {0, entered[l]}
      /\ IsFiniteSet(EntriesOf(dedup'))
      /\ Cardinality(EntriesOf(dedup')) <= CleanupThreshold \/ Cardinality(EntriesOf(dedup')) <= DedupHardCap
  BY <1>3, <1>4, <1>7, <1>8, CleanedBounded
<1>10. MapBounded'
  BY <1>9 DEF MapBounded, Entries
<1>11. EntriesOf(Expire(entered)) \subseteq NoticeKeys
  BY DEF EntriesOf
<1> QED BY <1>3, <1>4, <1>9, <1>10, <1>11

\* What an entry is made for was received by now, and what is cleared is not later.
LEMMA EntriesStep ==
  ASSUME NoticeSafe, MapBounded, [NotifyNext]_notifyVars
  PROVE  /\ MapBounded'
         /\ \A k \in NoticeKeys : dedup'[k] \in {0, dedup[k]} \cup {notice[n].at : n \in NoticesMade}
         /\ evicted' \subseteq evicted \cup NoticeKeys
<1> DEFINE Kept == /\ MapBounded'
                   /\ \A k \in NoticeKeys : dedup'[k] \in {0, dedup[k]} \cup {notice[n].at : n \in NoticesMade}
                   /\ evicted' \subseteq evicted \cup NoticeKeys
<1>1. ASSUME \A k \in NoticeKeys : dedup'[k] \in {0, dedup[k]}, evicted' = evicted PROVE Kept
  <2>1. Entries' \subseteq Entries /\ IsFiniteSet(Entries)
    BY <1>1 DEF Entries, EntriesOf, MapBounded
  <2>2. IsFiniteSet(Entries') /\ Cardinality(Entries') <= Cardinality(Entries)
    BY <2>1, FS_Subset
  <2>3. Cardinality(Entries) \in Nat /\ Cardinality(Entries') \in Nat
    BY <2>1, <2>2, FS_CardinalityType
  <2>4. MapBounded'
    BY <2>2, <2>3, NotificationAssumption DEF MapBounded
  <2> QED BY <1>1, <2>4
<1>2. ASSUME dedup' = dedup, evicted' = evicted PROVE Kept
  BY <1>1, <1>2
<1>3. ASSUME dedup' = [k \in NoticeKeys |-> 0], evicted' = evicted PROVE Kept
  BY <1>1, <1>3
<1>4. ASSUME NEW n \in Notices, FirstOfWindow(n) PROVE Kept
  <2>1. n \in NoticesMade
    BY <1>4 DEF FirstOfWindow, NoticeSafe, NoticeInv
  <2> QED BY <1>4, <2>1, EntryBounded
<1>5. ASSUME NEW n \in Notices, ClearDedup(n) PROVE Kept
  <2>1. dedup' = [dedup EXCEPT ![notice[n].key] = 0] /\ evicted' = evicted /\ dedup \in [NoticeKeys -> Nat]
    BY <1>5 DEF ClearDedup, NoticeSafe, NoticeData
  <2> QED BY <1>1, <2>1
<1>6. ASSUME NEW n \in Notices, Notify(n), ~FirstOfWindow(n), ~ClearDedup(n) PROVE Kept
  BY <1>2, <1>6
     DEF Notify, Dispatch, DispatchCancelled, CheckClosing, Duplicate, StartPush, PushSucceeds, PushFails, histVars
<1>7. CASE CloseDown
  BY <1>2, <1>3, <1>7
     DEF CloseDown, Announce, StopConsumers, AwaitConsumers, GiveUp, AwaitWorkers, ClearAll, ClearEarly,
         ConsumerReturns, CloseNotices, histVars
<1>8. CASE PassTime \/ UNCHANGED notifyVars \/ \E S \in Subscriptions : \E k \in S : ReceiveNotice(S, k)
  BY <1>2, <1>8 DEF PassTime, ReceiveNotice, notifyVars, histVars
<1> QED BY <1>4, <1>5, <1>6, <1>7, <1>8 DEF NotifyNext

LEMMA TimesStep == NoticeSafe /\ MapBounded /\ NoticeTimes /\ [NotifyNext]_notifyVars => NoticeTimes'
<1> SUFFICES ASSUME NoticeSafe, MapBounded, NoticeTimes, [NotifyNext]_notifyVars PROVE NoticeTimes'
  OBVIOUS
<1>0. wall \in Nat /\ MaxWall \in Nat /\ dedup \in [NoticeKeys -> Nat]
  BY NotificationAssumption DEF NoticeSafe, NoticeData
<1>1. wall' \in Nat /\ wall <= wall' /\ wall' <= MaxWall
  <2>1. CASE PassTime
    BY <1>0, <2>1 DEF PassTime, NoticeTimes
  <2>2. CASE ~PassTime
    <3>1. wall' = wall
      BY <2>2
         DEF NotifyNext, notifyVars, Notify, Dispatch, DispatchCancelled, CheckClosing, Duplicate, FirstOfWindow,
             StartPush, PushSucceeds, PushFails, ClearDedup, ReceiveNotice, CloseDown, Announce, StopConsumers,
             AwaitConsumers, GiveUp, AwaitWorkers, ClearAll, ClearEarly, ConsumerReturns, CloseNotices
    <3> QED BY <1>0, <3>1 DEF NoticeTimes
  <2> QED BY <2>1, <2>2
<1>2. ASSUME NEW k \in NoticeKeys PROVE dedup'[k] <= wall'
  <2>1. CASE dedup'[k] \in {0, dedup[k]}
    <3>1. dedup[k] \in Nat /\ dedup[k] <= wall
      BY <1>0 DEF NoticeTimes
    <3> QED BY <1>0, <1>1, <2>1, <3>1
  <2>2. ASSUME NEW n \in NoticesMade, dedup'[k] = notice[n].at PROVE dedup'[k] <= wall'
    <3>1. notice[n].at \in Nat /\ notice[n].at <= wall
      BY NoticeParts DEF NoticeSafe, NoticeInv
    <3> QED BY <1>0, <1>1, <2>2, <3>1
  <2> QED BY <2>1, <2>2, EntriesStep
<1>3. consuming' \subseteq consuming
  BY DEF NotifyNext, notifyVars, Notify, Dispatch, DispatchCancelled, CheckClosing, Duplicate, FirstOfWindow,
         StartPush, PushSucceeds, PushFails, ClearDedup, ReceiveNotice, CloseDown, Announce, StopConsumers,
         AwaitConsumers, GiveUp, AwaitWorkers, ClearAll, ClearEarly, ConsumerReturns, CloseNotices, PassTime,
         shutVars
<1>4. evicted' \subseteq NoticeKeys
  BY EntriesStep DEF NoticeTimes
<1> QED BY <1>1, <1>2, <1>3, <1>4 DEF NoticeTimes

\* The notifications keep their types: no event is received or handled later than now,
\* the goroutines are no more than the semaphore has slots, and the map is no larger
\* than one of its limits, whatever the cleanup leaves in it.
THEOREM NotifyTypeCorrect == NotifySpec => []NotifyTypeOK
<1> DEFINE Typed == NoticeSafe /\ MapBounded /\ NoticeTimes /\ SlotsHeld
<1>1. NotifyInit => Typed
  <2> SUFFICES ASSUME NotifyInit PROVE Typed
    OBVIOUS
  <2>1. Running = {} /\ Entries = {}
    BY DEF NotifyInit, Running, Entries, EntriesOf
  <2>2. IsFiniteSet({}) /\ Cardinality({}) = 0
    BY FS_EmptySet
  <2>3. SlotsHeld /\ MapBounded
    BY <2>1, <2>2, NotificationAssumption DEF SlotsHeld, MapBounded
  <2>4. NoticeTimes
    BY NotificationAssumption DEF NotifyInit, NoticeTimes
  <2> QED BY <2>3, <2>4, NoticeDataInit DEF NoticeSafe
<1>2. Typed /\ [NotifyNext]_notifyVars => Typed'
  BY NotifyStep, EntriesStep, TimesStep, SlotsStep
<1>3. Typed => NotifyTypeOK
  <2> SUFFICES ASSUME Typed PROVE NotifyTypeOK
    OBVIOUS
  <2>1. /\ wall \in Nat \ {0} /\ MaxWall \in Nat /\ wall <= MaxWall
        /\ notice \in Seq([key : NoticeKeys, at : Nat \ {0}]) /\ Len(notice) <= MaxNotices
        /\ dedup \in [NoticeKeys -> Nat] /\ handled \in [Notices -> Nat]
        /\ \A k \in NoticeKeys : dedup[k] <= wall
    BY NotificationAssumption DEF NoticeSafe, NoticeData, NoticeTimes
  <2>2. notice \in Seq([key : NoticeKeys, at : 1..MaxWall])
    <3>1. ASSUME NEW n \in 1..Len(notice) PROVE notice[n] \in [key : NoticeKeys, at : 1..MaxWall]
      <4>1. notice[n] \in [key : NoticeKeys, at : Nat \ {0}]
        BY <2>1, ElementOfSeq
      <4>2. notice[n].at <= wall
        BY DEF NoticeSafe, NoticeInv, NoticesMade
      <4>3. notice[n].at \in 1..MaxWall
        BY <2>1, <4>1, <4>2
      <4> QED BY <4>1, <4>3
    <3>2. notice = [n \in 1..Len(notice) |-> notice[n]] /\ Len(notice) \in Nat
      BY <2>1
    <3>3. notice \in [1..Len(notice) -> [key : NoticeKeys, at : 1..MaxWall]]
      BY <3>1, <3>2
    <3>4. ASSUME NEW S, NEW n \in Nat, NEW f \in [1..n -> S] PROVE f \in Seq(S)
      OBVIOUS
    <3> QED BY <3>2, <3>3, <3>4
  <2>3. dedup \in [NoticeKeys -> 0..MaxWall]
    <3>1. \A k \in NoticeKeys : dedup[k] \in 0..MaxWall
      BY <2>1
    <3> QED BY <2>1, <3>1
  <2>4. handled \in [Notices -> 0..MaxWall]
    <3>1. ASSUME NEW n \in Notices PROVE handled[n] \in 0..MaxWall
      <4>1. handled[n] = 0 \/ n \in NoticesMade
        BY DEF NoticeSafe, NoticeInv
      <4>2. handled[n] \in Nat /\ (handled[n] # 0 => handled[n] <= wall)
        BY <2>1, <4>1 DEF NoticeSafe, NoticeInv
      <4> QED BY <2>1, <4>2
    <3> QED BY <2>1, <3>1
  <2>5. pushed \subseteq Notices /\ place \in [Notices -> NoticePlaces] /\ shutting \in ShutStages
    BY DEF NoticeSafe, NoticeData, NoticeInv
  <2>6. wall \in 1..MaxWall
    BY <2>1
  <2>7. /\ Cardinality(Running) <= SendSlots
        /\ Cardinality(Entries) <= CleanupThreshold \/ Cardinality(Entries) <= DedupHardCap
        /\ consuming \subseteq Subscriptions /\ evicted \subseteq NoticeKeys
    BY DEF NoticeTimes, SlotsHeld, MapBounded
  <2>8. Len(notice) <= MaxNotices
    BY <2>1
  <2> QED BY <2>2, <2>3, <2>4, <2>5, <2>6, <2>7, <2>8 DEF NotifyTypeOK, NoticePlaces, ShutStages
<1> QED BY <1>1, <1>2, <1>3, PTL DEF NotifySpec

-----------------------------------------------------------------------------
(* The parts of MCSpeech together.                                         *)

\* A behaviour of the parts together is one of each part: what is proved of a part
\* holds where MCSpeech checks it.
THEOREM SpeechComposes ==
  SpeechSpec => Spec /\ BargeSpec /\ IngressSpec /\ RouterSpec /\ NotifySpec
<1>1. SpeechInit => Init /\ BargeInit /\ IngressInit /\ RouterInit /\ NotifyInit
  BY DEF SpeechInit
<1>2. [SpeechNext]_speechVars => [Next]_vars
  BY DEF SpeechNext, speechVars
<1>3. [SpeechNext]_speechVars => [BargeNext]_bargeVars
  BY DEF SpeechNext, speechVars
<1>4. [SpeechNext]_speechVars => [IngressNext]_ingressVars
  BY DEF SpeechNext, speechVars
<1>5. [SpeechNext]_speechVars => [RouterNext]_routerVars
  BY DEF SpeechNext, speechVars
<1>6. [SpeechNext]_speechVars => [NotifyNext]_notifyVars
  BY DEF SpeechNext, speechVars
<1> QED
  BY <1>1, <1>2, <1>3, <1>4, <1>5, <1>6, PTL
     DEF SpeechSpec, Spec, BargeSpec, IngressSpec, RouterSpec, NotifySpec

\* So every variable of every part keeps its type, whichever part is at work.
THEOREM SpeechTypeCorrect == SpeechSpec => []SpeechTypeOK
<1>1. SpeechInit => part \in Parts
  BY DEF SpeechInit
<1>2. part \in Parts /\ [SpeechNext]_speechVars => (part \in Parts)'
  BY DEF SpeechNext, speechVars
<1>3. /\ part \in Parts
      /\ TypeOK /\ BargeTypeOK /\ IngressTypeOK /\ RouterTypeOK /\ NotifyTypeOK
      => SpeechTypeOK
  BY DEF SpeechTypeOK, Parts
<1> QED BY <1>1, <1>2, <1>3, SpeechComposes,
        TypeCorrect, BargeTypeCorrect, IngressTypeCorrect, RouterTypeCorrect, NotifyTypeCorrect, PTL
        DEF SpeechSpec
=============================================================================
