------------------------------- MODULE Awareness -------------------------------
(***************************************************************************)
(* What the awareness service (internal/awareness) keeps over restarts     *)
(* besides its logs: whether the first conversation with the user, the     *)
(* onboarding, is due (two files, a cached flag, and the session that has  *)
(* claimed it), and when a heartbeat last ran (a row of the store).  The   *)
(* intent router asks and tells from its goroutine, the service hears of   *)
(* sessions that end on another, heartbeats run on a third; the daemon may *)
(* crash between any two steps, and the user may delete a file.            *)
(***************************************************************************)
EXTENDS Integers, FiniteSets

CONSTANTS
    Visitors,   \* sessions
    NoVisitor,  \* none
    MaxMinutes, \* bound: the last minute
    MaxStarts   \* bound: starts of the daemon

ASSUME AwarenessAssumption == NoVisitor \notin Visitors /\ MaxMinutes \in Nat /\ MaxStarts \in Nat

VARIABLES
    phase,      \* of the service: "down", "scaffold", "refresh" or "run"
    starts,     \* starts so far
    bootstrap,  \* BOOTSTRAP.md is there
    doneMarker, \* .onboarding_done is there
    onboardingActive,
    onboarder,  \* onboardingSessionID
    finishing,  \* CompleteOnboarding has removed the one file and has to
                \* write the other; it has onboardingMu
    visit,      \* visit[s]: a session is "live", "ended", or "heard" to have
    completed,  \* history: onboarding was completed
    tardy,      \* history: sessions that claimed it after their end was heard
    minute,     \* the time
    lastRun,    \* the heartbeat's last_run_at, -1 for none
    beat,       \* where checkHeartbeats is
    seen,       \* the last_run_at it has read
    now,        \* the minute it is about
    fired,      \* history: how often the heartbeat fired in a minute
    unrecorded  \* history: minutes of a beat whose update failed or was cut off

markVars == <<bootstrap, doneMarker>>
lockVars == <<onboardingActive, onboarder>>
onboardVars == <<markVars, lockVars, finishing, visit, completed, tardy>>
beatVars == <<minute, lastRun, beat, seen, now, fired, unrecorded>>
awareVars == <<phase, starts, onboardVars, beatVars>>

Minutes == 0..MaxMinutes

AwareTypeOK ==
    /\ phase \in {"down", "scaffold", "refresh", "run"} /\ starts \in 0..MaxStarts
    /\ bootstrap \in BOOLEAN /\ doneMarker \in BOOLEAN /\ onboardingActive \in BOOLEAN
    /\ finishing \in BOOLEAN /\ completed \in BOOLEAN
    /\ onboarder \in Visitors \cup {NoVisitor} /\ tardy \subseteq Visitors
    /\ visit \in [Visitors -> {"live", "ended", "heard"}]
    /\ minute \in Minutes /\ lastRun \in {-1} \cup Minutes
    /\ beat \in {"rest", "time", "publish", "update"}
    /\ seen \in {-1} \cup Minutes /\ now \in Minutes
    /\ fired \in [Minutes -> 0..2] /\ unrecorded \subseteq Minutes

AwareInit ==
    /\ phase = "down" /\ starts = 0
    /\ bootstrap = FALSE /\ doneMarker = FALSE
    /\ onboardingActive = FALSE /\ onboarder = NoVisitor /\ finishing = FALSE
    /\ visit = [s \in Visitors |-> "heard"] /\ completed = FALSE /\ tardy = {}
    /\ minute = 0 /\ lastRun = -1 /\ beat = "rest" /\ seen = -1 /\ now = 0
    /\ fired = [m \in Minutes |-> 0] /\ unrecorded = {}

-----------------------------------------------------------------------------
(* Start: scaffoldCoreFiles, in steps; and the end of the daemon.          *)

\* isOnboardingDone
StartService ==
    /\ phase = "down" /\ starts < MaxStarts /\ starts' = starts + 1
    /\ phase' = IF doneMarker THEN "refresh" ELSE "scaffold"
    /\ UNCHANGED <<onboardVars, beatVars>>

\* A file that is there is kept; one that cannot be written ends the start.
Scaffold ==
    /\ phase = "scaffold"
    /\ \/ phase' = "refresh" /\ bootstrap' = TRUE
       \/ phase' = "down" /\ UNCHANGED bootstrap
    /\ UNCHANGED <<starts, doneMarker, lockVars, finishing, visit, completed, tardy, beatVars>>

Refresh ==
    /\ phase = "refresh" /\ phase' = "run"
    /\ onboardingActive' = bootstrap
    /\ visit' = [s \in Visitors |-> "live"] /\ tardy' = {}
    /\ UNCHANGED <<starts, markVars, onboarder, finishing, completed, beatVars>>

\* Whatever is in memory is gone; a beat that fired is not recorded.
CrashDaemon ==
    /\ phase # "down" /\ phase' = "down"
    /\ onboardingActive' = FALSE /\ onboarder' = NoVisitor /\ finishing' = FALSE
    /\ visit' = [s \in Visitors |-> "heard"] /\ tardy' = {}
    /\ beat' = "rest" /\ seen' = -1 /\ now' = 0
    /\ unrecorded' = IF beat = "update" THEN unrecorded \cup {now} ELSE unrecorded
    /\ UNCHANGED <<starts, markVars, completed, minute, lastRun, fired>>

-----------------------------------------------------------------------------
(* Onboarding.                                                             *)

\* onboardingMu is free.
Unlocked == phase = "run" /\ ~finishing

\* IsOnboardingSession, for a prompt that may be older than its session's end.
AskOnboarding(s) ==
    /\ Unlocked /\ onboardingActive
    /\ IF ~bootstrap
          THEN onboardingActive' = FALSE /\ onboarder' = NoVisitor /\ UNCHANGED tardy
          ELSE /\ onboarder = NoVisitor /\ onboarder' = s
               /\ tardy' = IF visit[s] = "heard" THEN tardy \cup {s} ELSE tardy
               /\ UNCHANGED onboardingActive
    /\ UNCHANGED <<phase, starts, markVars, finishing, visit, completed, beatVars>>

\* BootstrapContent, when the file is gone.
MissContent ==
    /\ Unlocked /\ ~bootstrap /\ onboardingActive
    /\ onboardingActive' = FALSE
    /\ UNCHANGED <<phase, starts, markVars, onboarder, finishing, visit, completed, tardy, beatVars>>

\* CompleteOnboarding: the file goes, whether or not it was there, and then the
\* marker comes; either may fail.
RemoveBootstrap ==
    /\ Unlocked /\ finishing' = TRUE
    /\ bootstrap' = FALSE
    /\ UNCHANGED <<phase, starts, doneMarker, lockVars, visit, completed, tardy, beatVars>>

\* Mutant of WriteMarker: the marker is not written.
WriteMarker_Forgets ==
    /\ finishing /\ finishing' = FALSE
    /\ \/ /\ onboardingActive' = FALSE /\ onboarder' = NoVisitor /\ completed' = TRUE
          /\ UNCHANGED doneMarker
       \/ UNCHANGED <<doneMarker, lockVars, completed>>
    /\ UNCHANGED <<phase, starts, bootstrap, visit, tardy, beatVars>>

WriteMarker ==
    /\ finishing /\ finishing' = FALSE
    /\ \/ /\ doneMarker' = TRUE /\ completed' = TRUE
          /\ onboardingActive' = FALSE /\ onboarder' = NoVisitor
       \/ UNCHANGED <<doneMarker, lockVars, completed>>
    /\ UNCHANGED <<phase, starts, bootstrap, visit, tardy, beatVars>>

UserDeletes ==
    /\ bootstrap /\ bootstrap' = FALSE
    /\ UNCHANGED <<phase, starts, doneMarker, lockVars, finishing, visit, completed, tardy,
                   beatVars>>

EndVisit(s) ==
    /\ phase = "run" /\ visit[s] = "live"
    /\ visit' = [visit EXCEPT ![s] = "ended"]
    /\ UNCHANGED <<phase, starts, markVars, lockVars, finishing, completed, tardy, beatVars>>

\* ReleaseOnboardingSession, when a session stops or its client detaches.
HearVisit(s) ==
    /\ Unlocked /\ visit[s] # "heard"
    /\ visit' = [visit EXCEPT ![s] = IF visit[s] = "ended" THEN "heard" ELSE "live"]
    /\ onboarder' = IF onboarder = s THEN NoVisitor ELSE onboarder
    /\ UNCHANGED <<phase, starts, markVars, onboardingActive, finishing, completed, tardy, beatVars>>

Onboarding == \/ MissContent \/ RemoveBootstrap \/ WriteMarker \/ UserDeletes
              \/ \E s \in Visitors : AskOnboarding(s) \/ EndVisit(s) \/ HearVisit(s)

-----------------------------------------------------------------------------
(* One heartbeat: checkHeartbeats, at the start and at every tick.         *)

MinutePasses ==
    /\ minute < MaxMinutes /\ minute' = minute + 1
    /\ UNCHANGED <<phase, starts, onboardVars, lastRun, beat, seen, now, fired, unrecorded>>

ListBeats ==
    /\ phase = "run" /\ beat = "rest" /\ beat' = "time"
    /\ seen' = lastRun
    /\ UNCHANGED <<phase, starts, onboardVars, minute, lastRun, now, fired, unrecorded>>

\* Whether the expression is due is open.
Due ==
    /\ beat = "time" /\ now' = minute
    /\ beat' \in IF seen = now' THEN {"rest"} ELSE {"publish", "rest"}
    /\ UNCHANGED <<phase, starts, onboardVars, minute, lastRun, seen, fired, unrecorded>>

\* Bound: two beats in a minute tell a double one.
Fire ==
    /\ beat = "publish" /\ beat' = "update"
    /\ fired[now] < 2 /\ fired' = [fired EXCEPT ![now] = @ + 1]
    /\ UNCHANGED <<phase, starts, onboardVars, minute, lastRun, seen, now, unrecorded>>

UpdateLastRun ==
    /\ beat = "update" /\ beat' = "rest"
    /\ \/ lastRun' = now /\ UNCHANGED unrecorded
       \/ unrecorded' = unrecorded \cup {now} /\ UNCHANGED lastRun
    /\ UNCHANGED <<phase, starts, onboardVars, minute, seen, now, fired>>

Beating == MinutePasses \/ ListBeats \/ Due \/ Fire \/ UpdateLastRun

AwareNext == StartService \/ Scaffold \/ Refresh \/ CrashDaemon \/ Onboarding \/ Beating

AwareSpec == AwareInit /\ [][AwareNext]_awareVars

-----------------------------------------------------------------------------
(* Properties.                                                             *)

\* Once onboarding has been completed no session is led into it again, in this
\* run of the daemon or a later one, wherever the daemon crashed.
OnboardedForGood ==
    completed => doneMarker /\ ~bootstrap /\ ~onboardingActive /\ onboarder = NoVisitor

\* The claim to it does not stay with a session whose end has been heard of,
\* unless a late prompt of that session has made it.
ClaimReleased ==
    onboarder # NoVisitor /\ visit[onboarder] = "heard" => onboarder \in tardy

\* A heartbeat fires at most once in a minute, over restarts, unless the record
\* of its having fired could not be made.
BeatsOnce == \A m \in Minutes : fired[m] > 1 => m \in unrecorded

AwarenessSound == OnboardedForGood /\ ClaimReleased /\ BeatsOnce
=============================================================================
