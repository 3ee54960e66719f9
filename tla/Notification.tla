----------------------------- MODULE Notification -----------------------------
(***************************************************************************)
(* Push notifications (internal/notification/service.go): three consumers  *)
(* hand each event to a goroutine of its own, bounded by a semaphore.  The *)
(* goroutine drops the event if one with its key was handled within the    *)
(* window, pushes it otherwise, and takes its entry back when that fails.  *)
(*                                                                         *)
(* A subscription is the set of the keys its events have.  What makes an   *)
(* event worth a notification, its text and the tokens of the devices are  *)
(* left out: an event here is one that passes those filters.               *)
(***************************************************************************)
EXTENDS Integers, Sequences, FiniteSets

CONSTANTS
    Subscriptions,     \* the consumers, each the set of its events' keys
    DedupWindow,       \* in ticks
    SendSlots,         \* maxConcurrentSend
    CleanupThreshold,  \* dedupCleanupThreshold
    DedupHardCap,      \* dedupHardCap
    MaxNotices,        \* bound: events received
    MaxWall            \* bound: ticks

ASSUME NotificationAssumption ==
    /\ DedupWindow \in Nat \ {0} /\ SendSlots \in Nat \ {0}
    /\ CleanupThreshold \in Nat \ {0} /\ DedupHardCap \in Nat
    /\ MaxNotices \in Nat /\ MaxWall \in Nat \ {0}
    /\ \A S, T \in Subscriptions : S # T => S \cap T = {}

NoticeKeys == UNION Subscriptions
Notices == 1..MaxNotices

VARIABLES
    wall,      \* the time
    notice,    \* the events received, each with its key and when
    place,     \* place[n]: where event n is
    dedup,     \* dedup[k]: the time in Service.dedup, 0 if there is no entry
    consuming, \* the subscriptions whose consumer has not returned
    shutting,   \* where Shutdown is
    handled,   \* history: handled[n]: when event n made its entry,
               \* 0 if not yet or if it has taken it back
    pushed,    \* history: the events whose push succeeded
    evicted    \* history: keys evicted by the hard cap

noticeVars == <<notice, place>>
shutVars == <<consuming, shutting>>
histVars == <<handled, pushed, evicted>>
notifyVars == <<wall, noticeVars, dedup, shutVars, histVars>>

Running == {n \in Notices : place[n] \notin {"unborn", "dispatch", "end"}}
EntriesOf(d) == {k \in NoticeKeys : d[k] # 0}
Entries == EntriesOf(dedup)
ContextEnded == shutting \notin {"no", "stop"}    \* the service's context
Busy(S) == \E n \in Notices : place[n] = "dispatch" /\ notice[n].key \in S

NotifyTypeOK ==
    /\ wall \in 1..MaxWall
    /\ notice \in Seq([key : NoticeKeys, at : 1..MaxWall])
    /\ Len(notice) <= MaxNotices
    /\ place \in [Notices -> {"unborn", "dispatch", "check", "dedup", "send",
                              "push", "clear", "end"}]
    /\ Cardinality(Running) <= SendSlots
    /\ dedup \in [NoticeKeys -> 0..MaxWall]
    /\ Cardinality(Entries) <= CleanupThreshold \/ Cardinality(Entries) <= DedupHardCap
    /\ consuming \subseteq Subscriptions
    /\ shutting \in {"no", "stop", "consumers", "workers", "clear", "done",
                    "gave up"}
    /\ handled \in [Notices -> 0..MaxWall]
    /\ pushed \subseteq Notices /\ evicted \subseteq NoticeKeys

NotifyInit ==
    /\ wall = 1 /\ notice = <<>>
    /\ place = [n \in Notices |-> "unborn"]
    /\ dedup = [k \in NoticeKeys |-> 0]
    /\ consuming = Subscriptions /\ shutting = "no"
    /\ handled = [n \in Notices |-> 0] /\ pushed = {} /\ evicted = {}

MoveNotice(n, next) == place' = [place EXCEPT ![n] = next]

-----------------------------------------------------------------------------
(* The consumers.                                                          *)

\* The time of receipt is taken here, before the wait for the semaphore.  When
\* the context has ended and an event is waiting, select takes either.
ReceiveNotice(S, k) ==
    /\ S \in consuming /\ ~Busy(S)
    /\ Len(notice) < MaxNotices
    /\ notice' = Append(notice, [key |-> k, at |-> wall])
    /\ MoveNotice(Len(notice'), "dispatch")
    /\ UNCHANGED <<wall, dedup, shutVars, histVars>>

\* dispatchAsync: a slot of sendSem, asyncWG.Add and the goroutine.
Dispatch(n) ==
    /\ place[n] = "dispatch" /\ Cardinality(Running) < SendSlots
    /\ MoveNotice(n, "check")
    /\ UNCHANGED <<wall, notice, dedup, shutVars, histVars>>

DispatchCancelled(n) ==
    /\ place[n] = "dispatch" /\ ContextEnded
    /\ MoveNotice(n, "end")
    /\ UNCHANGED <<wall, notice, dedup, shutVars, histVars>>

-----------------------------------------------------------------------------
(* The goroutine of one event.                                             *)

CheckClosing(n) ==
    /\ place[n] = "check"
    /\ MoveNotice(n, IF shutting # "no" THEN "end" ELSE "dedup")
    /\ UNCHANGED <<wall, notice, dedup, shutVars, histVars>>

Duplicate(n) ==
    /\ place[n] = "dedup"
    /\ LET last == dedup[notice[n].key] IN
          last # 0 /\ notice[n].at - last < DedupWindow
    /\ MoveNotice(n, "end")
    /\ UNCHANGED <<wall, notice, dedup, shutVars, histVars>>

\* isDuplicate's cleanup of an oversized map d: expired entries go, and if too
\* many are left, the oldest half of those.
Expire(d) == [k \in NoticeKeys |-> IF wall - d[k] >= DedupWindow THEN 0 ELSE d[k]]

OldestHalves(d) ==
    {old \in SUBSET EntriesOf(d) :
        /\ Cardinality(old) = Cardinality(EntriesOf(d)) \div 2
        /\ \A k \in old, l \in EntriesOf(d) \ old : d[k] <= d[l]}

Cleaned(d) ==
    LET fresh == Expire(d) IN
    IF Cardinality(EntriesOf(d)) <= CleanupThreshold THEN {d}
    ELSE IF Cardinality(EntriesOf(fresh)) <= DedupHardCap THEN {fresh}
    ELSE {[k \in NoticeKeys |-> IF k \in old THEN 0 ELSE fresh[k]] :
             old \in OldestHalves(fresh)}

\* Mutant of FirstOfWindow: the entry would be made after the push.
FirstOfWindow_Unentered(n) ==
    /\ place[n] = "dedup"
    /\ LET last == dedup[notice[n].key] IN
          last = 0 \/ notice[n].at - last >= DedupWindow
    /\ handled' = [handled EXCEPT ![n] = wall]
    /\ MoveNotice(n, "send")
    /\ UNCHANGED <<wall, notice, dedup, shutVars, pushed, evicted>>

\* The rest of isDuplicate: the check, the entry and the cleanup are one step
\* under dedupMu.
FirstOfWindow(n) ==
    /\ place[n] = "dedup"
    /\ LET k == notice[n].key
           entered == [dedup EXCEPT ![k] = notice[n].at]
       IN  /\ dedup[k] = 0 \/ notice[n].at - dedup[k] >= DedupWindow
           /\ dedup' \in Cleaned(entered)
           /\ evicted' = evicted \cup (EntriesOf(Expire(entered)) \ EntriesOf(dedup'))
    /\ handled' = [handled EXCEPT ![n] = wall]
    /\ MoveNotice(n, "send")
    /\ UNCHANGED <<wall, notice, shutVars, pushed>>

\* The store lists the devices' tokens, which it does no more once the context
\* has ended, and the request is sent.
StartPush(n) ==
    /\ place[n] = "send" /\ ~ContextEnded
    /\ MoveNotice(n, "push")
    /\ UNCHANGED <<wall, notice, dedup, shutVars, histVars>>

\* It is answered, and some device has been told.
PushSucceeds(n) ==
    /\ place[n] = "push"
    /\ pushed' = pushed \cup {n}
    /\ MoveNotice(n, "end")
    /\ UNCHANGED <<wall, notice, dedup, shutVars, handled, evicted>>

\* The store fails or has no device, the push fails or all its tickets do.
PushFails(n) ==
    /\ place[n] \in {"send", "push"}
    /\ MoveNotice(n, "clear")
    /\ UNCHANGED <<wall, notice, dedup, shutVars, histVars>>

ClearDedup(n) ==
    /\ place[n] = "clear"
    /\ dedup' = [dedup EXCEPT ![notice[n].key] = 0]
    /\ handled' = [handled EXCEPT ![n] = 0]
    /\ MoveNotice(n, "end")
    /\ UNCHANGED <<wall, notice, shutVars, pushed, evicted>>

Notify(n) == \/ Dispatch(n) \/ DispatchCancelled(n) \/ CheckClosing(n)
             \/ Duplicate(n) \/ FirstOfWindow(n)
             \/ StartPush(n) \/ PushSucceeds(n) \/ PushFails(n) \/ ClearDedup(n)

-----------------------------------------------------------------------------
(* Shutdown.                                                               *)

CloseNotices(here, next) ==
    /\ shutting = here /\ shutting' = next
    /\ UNCHANGED <<wall, noticeVars, histVars>>

\* shuttingDown; then lifecycle.Stop cancels the context.
Announce == CloseNotices("no", "stop") /\ UNCHANGED <<consuming, dedup>>
StopConsumers == CloseNotices("stop", "consumers") /\ UNCHANGED <<consuming, dedup>>

ConsumerReturns(S) ==
    /\ S \in consuming /\ ContextEnded /\ ~Busy(S)
    /\ consuming' = consuming \ {S}
    /\ UNCHANGED <<wall, noticeVars, dedup, shutting, histVars>>

\* lifecycle.Wait: asyncWG grows no more after it.
AwaitConsumers ==
    /\ consuming = {}
    /\ CloseNotices("consumers", "workers") /\ UNCHANGED <<consuming, dedup>>

\* Its context ends first: Shutdown returns the error at once.
GiveUp == CloseNotices("consumers", "gave up") /\ UNCHANGED <<consuming, dedup>>

AwaitWorkers ==
    /\ Running = {}
    /\ CloseNotices("workers", "clear") /\ UNCHANGED <<consuming, dedup>>

ClearAll ==
    /\ dedup' = [k \in NoticeKeys |-> 0]
    /\ CloseNotices("clear", "done") /\ UNCHANGED consuming

\* The wait for the goroutines is cut short: the map is cleared all the same.
ClearEarly ==
    /\ dedup' = [k \in NoticeKeys |-> 0]
    /\ CloseNotices("workers", "gave up") /\ UNCHANGED consuming

CloseDown == \/ Announce \/ StopConsumers \/ AwaitConsumers \/ GiveUp
             \/ AwaitWorkers \/ ClearAll \/ ClearEarly
             \/ \E S \in Subscriptions : ConsumerReturns(S)

-----------------------------------------------------------------------------

\* Bound: an event is done with before a window has passed since its receipt.
\* The timeouts of the store, the push and the cleanup, once for the event and
\* once for the slot it waits for, add up to 28 of the window's 30 seconds.
Prompt(time) == \A n \in Notices :
    place[n] \notin {"unborn", "end"} => time - notice[n].at < DedupWindow

PassTime ==
    /\ wall < MaxWall /\ Prompt(wall + 1)
    /\ wall' = wall + 1
    /\ UNCHANGED <<noticeVars, dedup, shutVars, histVars>>

NotifyNext ==
    \/ \E S \in Subscriptions : \E k \in S : ReceiveNotice(S, k)
    \/ \E n \in Notices : Notify(n)
    \/ CloseDown \/ PassTime

NotifySpec == NotifyInit /\ [][NotifyNext]_notifyVars

-----------------------------------------------------------------------------
(* Properties.                                                             *)

\* Of two pushes for one key that both succeeded, one was decided a window after
\* the other's event was received, whatever the order in which their goroutines
\* ran and others failed, unless the hard cap took the key's entry away.
OncePerWindow ==
    \A m, n \in pushed :
        /\ m # n /\ notice[m].key = notice[n].key /\ notice[n].key \notin evicted
        => \/ handled[m] - notice[n].at >= DedupWindow
           \/ handled[n] - notice[m].at >= DedupWindow

\* Shutdown that returns no error leaves no goroutine to push, to touch the
\* store or to fill the map again, however late a consumer started one.
QuietAfterShutdown ==
    shutting = "done" => /\ \A n \in Notices : place[n] \in {"unborn", "end"}
                        /\ Entries = {}

\* One notification for one thing, and none from a service that has ended.
NotifiedOnce == OncePerWindow /\ QuietAfterShutdown
=============================================================================
