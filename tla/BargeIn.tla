------------------------------- MODULE BargeIn -------------------------------
(***************************************************************************)
(* The barge-in coordinator (internal/audio/barge/service.go) for one      *)
(* session.  It hears, through three subscriptions with a consumer each,   *)
(* when playback starts and ends, when somebody speaks, and when a client  *)
(* interrupts; speech over a playback, and every interrupt, is announced   *)
(* as a barge-in, at most one in a cooldown for each playback stream.      *)
(*                                                                         *)
(* Times are those the publishers put on their events; the consumers see   *)
(* them late and in any order between the subscriptions.                   *)
(***************************************************************************)
EXTENDS Integers, Sequences, FiniteSets

CONSTANTS
    Playbacks,   \* playback streams of the session
    NoPlayback,  \* the empty stream identifier
    Cooldown,    \* in ticks
    QuietPeriod, \* in ticks
    MaxHeard,    \* bound: playback events
    MaxTriggers, \* bound: events of voice activity, and of interrupts
    MaxTime      \* bound: ticks

ASSUME BargeAssumption ==
    /\ Cooldown \in Nat /\ QuietPeriod \in Nat
    /\ MaxHeard \in Nat /\ MaxTriggers \in Nat /\ MaxTime \in Nat \ {0}
    /\ NoPlayback \notin Playbacks

Triggers == {"voice", "client"}    \* the consumers of triggers
Times == 1..MaxTime

VARIABLES
    moment,      \* the time
    heard,       \* history: the playback events handled, in order
    heardAt,     \* the time of the last of them
    playing,     \* playing[s]: playbackState.playing
    quietUntil,  \* quietUntil[s]: playbackState.quietUntil, 0 if zero
    onAir,       \* the session's entry in sessionStreams, or NoPlayback
    lastEvent,   \* lastEvent[s]: the time in Service.lastEvent, 0 if none
    triggers,    \* triggers[c]: events consumer c has taken
    stage,       \* stage[c]: where consumer c is
    aim,         \* aim[c]: stream, time and history of the event it handles
    barged       \* the barge-ins published, in order

playVars == <<heard, heardAt, playing, quietUntil>>
triggerVars == <<triggers, stage, aim>>
bargeVars == <<moment, playVars, onAir, lastEvent, triggerVars, barged>>

\* A trigger's stream and time, and how many playback events had been handled
\* when its stream was looked up, 0 if the event named the stream itself.
Aim == [stream : Playbacks \cup {NoPlayback}, at : 0..MaxTime, after : 0..MaxHeard]
NoAim == [stream |-> NoPlayback, at |-> 0, after |-> 0]

BargeTypeOK ==
    /\ moment \in Times /\ heardAt \in 0..MaxTime
    /\ heard \in Seq([stream : Playbacks, final : BOOLEAN]) /\ Len(heard) <= MaxHeard
    /\ playing \in [Playbacks -> BOOLEAN]
    /\ quietUntil \in [Playbacks -> 0..(MaxTime + QuietPeriod)]
    /\ onAir \in Playbacks \cup {NoPlayback}
    /\ lastEvent \in [Playbacks -> 0..MaxTime]
    /\ triggers \in [Triggers -> 0..MaxTriggers]
    /\ stage \in [Triggers -> {"select", "register", "publish"}]
    /\ aim \in [Triggers -> Aim]
    /\ barged \in Seq(Aim)

BargeInit ==
    /\ moment = 1 /\ heard = <<>> /\ heardAt = 0
    /\ playing = [s \in Playbacks |-> FALSE]
    /\ quietUntil = [s \in Playbacks |-> 0]
    /\ onAir = NoPlayback
    /\ lastEvent = [s \in Playbacks |-> 0]
    /\ triggers = [c \in Triggers |-> 0]
    /\ stage = [c \in Triggers |-> "select"] /\ aim = [c \in Triggers |-> NoAim]
    /\ barged = <<>>

-----------------------------------------------------------------------------
(* Playback events.                                                        *)

\* Mutant of HearPlayback: the end of a playback only ends the quiet time.
HearPlayback_Plays(s, final, at) ==
    /\ Len(heard) < MaxHeard /\ at \in heardAt..moment
    /\ heard' = Append(heard, [stream |-> s, final |-> final]) /\ heardAt' = at
    /\ playing' = [playing EXCEPT ![s] = @ \/ ~final]
    /\ quietUntil' = [quietUntil EXCEPT ![s] = IF final THEN at + QuietPeriod ELSE 0]
    /\ onAir' = IF ~final THEN s ELSE IF onAir = s THEN NoPlayback ELSE onAir
    /\ UNCHANGED <<moment, lastEvent, triggerVars, barged>>

\* handlePlaybackEvent, one step under the service's lock.
HearPlayback(s, final, at) ==
    /\ Len(heard) < MaxHeard /\ at \in heardAt..moment
    /\ heard' = Append(heard, [stream |-> s, final |-> final]) /\ heardAt' = at
    /\ playing' = [playing EXCEPT ![s] = ~final]
    /\ quietUntil' = [quietUntil EXCEPT ![s] = IF final THEN at + QuietPeriod ELSE 0]
    /\ onAir' = IF ~final THEN s ELSE IF onAir = s THEN NoPlayback ELSE onAir
    /\ UNCHANGED <<moment, lastEvent, triggerVars, barged>>

-----------------------------------------------------------------------------
(* targetStreamForSession, under the lock: the stream on the air if it is   *)
(* playing, else whichever entry of the playback map comes first that is    *)
(* either playing or quiet.  Go iterates the map in any order.              *)

QuietAt(s, at) == quietUntil[s] # 0 /\ at < quietUntil[s]

\* The streams that may be found, NoPlayback for none.
Found(at) ==
    IF onAir # NoPlayback /\ playing[onAir] THEN {onAir}
    ELSE IF onAir # NoPlayback /\ QuietAt(onAir, at) THEN {NoPlayback}
    ELSE {s \in Playbacks : playing[s]}
         \cup (IF (\E s \in Playbacks : QuietAt(s, at)) \/ ~ \E s \in Playbacks : playing[s]
                  THEN {NoPlayback} ELSE {})

\* Consumer c takes an event whose time is at and looks for its stream; without
\* one the event is dropped.
LookForStream(c, at) ==
    /\ stage[c] = "select" /\ triggers[c] < MaxTriggers /\ at <= moment
    /\ triggers' = [triggers EXCEPT ![c] = @ + 1]
    /\ \E s \in Found(at) :
          /\ onAir' = IF s = NoPlayback THEN onAir ELSE s
          /\ IF s = NoPlayback
                THEN UNCHANGED <<stage, aim>>
                ELSE /\ stage' = [stage EXCEPT ![c] = "register"]
                     /\ aim' = [aim EXCEPT ![c] =
                                  [stream |-> s, at |-> at, after |-> Len(heard)]]
    /\ UNCHANGED <<moment, playVars, lastEvent, barged>>

\* A client may name the stream; whether it is playing does not matter then.
NameStream(s, at) ==
    /\ stage["client"] = "select" /\ triggers["client"] < MaxTriggers /\ at <= moment
    /\ triggers' = [triggers EXCEPT !["client"] = @ + 1]
    /\ stage' = [stage EXCEPT !["client"] = "register"]
    /\ aim' = [aim EXCEPT !["client"] = [stream |-> s, at |-> at, after |-> 0]]
    /\ UNCHANGED <<moment, playVars, onAir, lastEvent, barged>>

Suppressed(s, at) == lastEvent[s] # 0 /\ at - lastEvent[s] < Cooldown

\* Mutant of RegisterTrigger: an interrupt by a client starts no cooldown.
RegisterTrigger_VoiceOnly(c) ==
    LET s == aim[c].stream  at == aim[c].at IN
    /\ stage[c] = "register"
    /\ IF Suppressed(s, at)
          THEN /\ stage' = [stage EXCEPT ![c] = "select"]
               /\ aim' = [aim EXCEPT ![c] = NoAim] /\ UNCHANGED lastEvent
          ELSE /\ stage' = [stage EXCEPT ![c] = "publish"]
               /\ lastEvent' = IF c = "voice" THEN [lastEvent EXCEPT ![s] = at] ELSE lastEvent
               /\ UNCHANGED aim
    /\ UNCHANGED <<moment, playVars, onAir, triggers, barged>>

\* registerTrigger: check and entry are one step under the lock.
RegisterTrigger(c) ==
    LET s == aim[c].stream  at == aim[c].at IN
    /\ stage[c] = "register"
    /\ IF Suppressed(s, at)
          THEN /\ stage' = [stage EXCEPT ![c] = "select"]
               /\ aim' = [aim EXCEPT ![c] = NoAim] /\ UNCHANGED lastEvent
          ELSE /\ stage' = [stage EXCEPT ![c] = "publish"]
               /\ lastEvent' = [lastEvent EXCEPT ![s] = at] /\ UNCHANGED aim
    /\ UNCHANGED <<moment, playVars, onAir, triggers, barged>>

PublishBargeIn(c) ==
    /\ stage[c] = "publish"
    /\ barged' = Append(barged, aim[c])
    /\ stage' = [stage EXCEPT ![c] = "select"] /\ aim' = [aim EXCEPT ![c] = NoAim]
    /\ UNCHANGED <<moment, playVars, onAir, lastEvent, triggers>>

Advance ==
    /\ moment < MaxTime /\ moment' = moment + 1
    /\ UNCHANGED <<playVars, onAir, lastEvent, triggerVars, barged>>

BargeNext ==
    \/ \E s \in Playbacks, final \in BOOLEAN, at \in Times : HearPlayback(s, final, at)
    \/ \E c \in Triggers :
          \/ \E at \in Times : LookForStream(c, at)
          \/ RegisterTrigger(c) \/ PublishBargeIn(c)
    \/ \E s \in Playbacks, at \in Times : NameStream(s, at)
    \/ Advance

BargeSpec == BargeInit /\ [][BargeNext]_bargeVars

-----------------------------------------------------------------------------
(* Properties.                                                             *)

\* Two barge-ins on one playback are a cooldown apart, whichever consumers
\* announced them and however late and disordered they saw their events.
BargedApart ==
    \A i, j \in 1..Len(barged) :
        i # j /\ barged[i].stream = barged[j].stream
            => \/ barged[i].at - barged[j].at >= Cooldown
               \/ barged[j].at - barged[i].at >= Cooldown

\* The last event heard of stream s among the first n, as a set of 0 or 1.
LastHeard(s, n) ==
    {heard[i] : i \in {i \in 1..n : /\ heard[i].stream = s
                                    /\ \A j \in (i + 1)..n : heard[j].stream # s}}

\* A stream that was looked up was in the middle of its playback, by the events
\* handled until then, whichever stream had been on the air before or ended
\* meanwhile.
TargetsHeard ==
    \A i \in 1..Len(barged) :
        barged[i].after # 0 =>
            \E e \in LastHeard(barged[i].stream, barged[i].after) : ~e.final

\* Barge-ins come to what is playing, and not in bursts.
BargesFit == BargedApart /\ TargetsHeard
=============================================================================
