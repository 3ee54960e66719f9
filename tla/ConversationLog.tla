--------------------------- MODULE ConversationLog ---------------------------
(***************************************************************************)
(* The conversation log (internal/awareness/conversation_log.go) on its    *)
(* rolling log (rolling_log.go): a file with a raw tail of turns and the   *)
(* summaries of older ones.                                                *)
(*                                                                         *)
(* When the tail is too long its older half is cut off, written out of the *)
(* file, and sent to the AI; its summary comes back as a reply, which      *)
(* another goroutine appends, moving old summaries to the archive.  The    *)
(* file is replaced atomically under the log's lock, and memory is rolled  *)
(* back when that fails: file and memory differ at no time.                *)
(*                                                                         *)
(* A turn is its number, a summary the set of turns it stands for, and     *)
(* every turn and every summary has size one.                              *)
(***************************************************************************)
EXTENDS Integers, Sequences, FiniteSets, SequencesExt

CONSTANTS
    Threshold,    \* compactionThreshold
    Budget,       \* summaryBudget
    MaxTurns,     \* bound: turns
    MaxLogFaults, \* bound: writes that fail, empty replies and restarts
    MaxStale      \* bound: compactions that are found stale

ASSUME LogAssumption ==
    /\ {Threshold, Budget} \subseteq Nat \ {0}
    /\ {MaxTurns, MaxLogFaults, MaxStale} \subseteq Nat

VARIABLES
    count,      \* turns taken so far, all in the day's audit log
    rawTail,    \* the raw tail, in the file
    summaries,  \* the summaries, in the file
    archive,    \* the summaries in the archive
    fallback,   \* the summaries in the audit log
    writer,     \* where the consumer of turns is
    half,       \* the turns it holds: the new one, or the older half
    pending,    \* pendingCompactions
    inFlight,   \* compactionInFlight
    stamped,    \* compactionStartedAt is not zero
    asked,      \* prompts the AI has not answered
    reader,     \* where the consumer of replies is
    summary,    \* the compaction whose reply it handles
    logFaults,  \* faults so far
    stale,      \* compactions found stale so far
    excused     \* history: turns a fault or a stale compaction has cost

fileVars == <<rawTail, summaries, archive, fallback>>
guardVars == <<inFlight, stamped>>
writerVars == <<count, writer, half, stale>>
readerVars == <<reader, summary>>
logVars == <<fileVars, guardVars, writerVars, readerVars, pending, asked, logFaults, excused>>

Turns == 1..MaxTurns
Summaries == SUBSET Turns

LogTypeOK ==
    /\ count \in 0..MaxTurns
    /\ rawTail \in Seq(Turns) /\ summaries \in Seq(Summaries)
    /\ archive \subseteq Summaries /\ fallback \subseteq Summaries
    /\ writer \in {"rest", "append", "claim", "stale", "reopen", "unstamp", "reclaim",
                   "stamp", "cut", "store", "ask"}
    /\ half \in Summaries
    /\ pending \subseteq Summaries /\ asked \subseteq Summaries
    /\ inFlight \in BOOLEAN /\ stamped \in BOOLEAN
    /\ reader \in {"rest", "append", "fallback", "archive", "commit", "release", "unstamp"}
    /\ summary \in Summaries
    /\ logFaults \in 0..MaxLogFaults /\ stale \in 0..MaxStale
    /\ excused \subseteq Turns

LogInit ==
    /\ count = 0 /\ rawTail = <<>> /\ summaries = <<>> /\ archive = {} /\ fallback = {}
    /\ writer = "rest" /\ half = {} /\ pending = {} /\ asked = {}
    /\ inFlight = FALSE /\ stamped = FALSE
    /\ reader = "rest" /\ summary = {}
    /\ logFaults = 0 /\ stale = 0 /\ excused = {}

LogFault == logFaults < MaxLogFaults /\ logFaults' = logFaults + 1
NoFault == UNCHANGED logFaults

-----------------------------------------------------------------------------
(* The consumer of turns.                                                  *)

\* The turn is written to the audit log first.
TakeTurn ==
    /\ writer = "rest" /\ count < MaxTurns
    /\ count' = count + 1 /\ half' = {count'}
    /\ writer' = "append"
    /\ UNCHANGED <<fileVars, guardVars, readerVars, pending, asked, logFaults, stale, excused>>

\* AppendRaw, then ShouldCompact unless it failed.
AppendTurn ==
    /\ writer = "append" /\ half' = {}
    /\ \/ /\ rawTail' = Append(rawTail, count)
          /\ writer' = IF Len(rawTail') > Threshold THEN "claim" ELSE "rest"
          /\ NoFault /\ UNCHANGED excused
       \/ /\ LogFault /\ writer' = "rest"
          /\ excused' = excused \cup half /\ UNCHANGED rawTail
    /\ UNCHANGED <<summaries, archive, fallback, guardVars, readerVars, pending, asked, count,
                   stale>>

\* CompareAndSwap on the guard, a second time after the check for a stale
\* compaction.
Claim ==
    /\ writer \in {"claim", "reclaim"}
    /\ inFlight' = TRUE
    /\ writer' = IF ~inFlight THEN "stamp" ELSE IF writer = "claim" THEN "stale" ELSE "rest"
    /\ UNCHANGED <<fileVars, stamped, readerVars, pending, asked, count, half, stale, logFaults,
                   excused>>

\* checkStaleCompaction; whether the compaction is old enough is open.
Fresh ==
    /\ writer = "stale" /\ writer' = "reclaim"
    /\ UNCHANGED <<fileVars, guardVars, readerVars, pending, asked, count, half, stale,
                   logFaults, excused>>

DropStale ==
    /\ writer = "stale" /\ stamped /\ stale < MaxStale
    /\ writer' = "reopen" /\ stale' = stale + 1
    /\ pending' = {} /\ excused' = excused \cup UNION pending
    /\ UNCHANGED <<fileVars, guardVars, readerVars, asked, count, half, logFaults>>

Reopen ==
    /\ writer = "reopen" /\ writer' = "unstamp"
    /\ inFlight' = FALSE
    /\ UNCHANGED <<fileVars, stamped, readerVars, pending, asked, count, half, stale, logFaults,
                   excused>>

StampClaim ==
    /\ \/ writer = "unstamp" /\ stamped' = FALSE /\ writer' = "reclaim"
       \/ writer = "stamp" /\ stamped' = TRUE /\ writer' = "cut"
    /\ UNCHANGED <<fileVars, inFlight, readerVars, pending, asked, count, half, stale, logFaults,
                   excused>>

\* OlderHalf: the older turns leave the file; the tail is never empty here.
Older == IF Len(rawTail) = 1 THEN 1 ELSE Len(rawTail) \div 2

\* A failing write whose change to memory is not rolled back.
Cut_NoRollback ==
    /\ writer = "cut"
    /\ rawTail' = SubSeq(rawTail, Older + 1, Len(rawTail))
    /\ \/ half' = ToSet(SubSeq(rawTail, 1, Older)) /\ writer' = "store" /\ NoFault /\ UNCHANGED inFlight
       \/ LogFault /\ inFlight' = FALSE /\ writer' = "rest" /\ UNCHANGED half
    /\ UNCHANGED <<summaries, archive, fallback, stamped, readerVars, pending, asked, count,
                   stale, excused>>

Cut ==
    /\ writer = "cut"
    /\ \/ /\ half' = ToSet(SubSeq(rawTail, 1, Older))
          /\ rawTail' = SubSeq(rawTail, Older + 1, Len(rawTail))
          /\ writer' = "store" /\ NoFault /\ UNCHANGED inFlight
       \/ /\ LogFault
          /\ inFlight' = FALSE /\ writer' = "rest" /\ UNCHANGED <<rawTail, half>>
    /\ UNCHANGED <<summaries, archive, fallback, stamped, readerVars, pending, asked, count,
                   stale, excused>>

Store ==
    /\ writer = "store" /\ writer' = "ask"
    /\ pending' = pending \cup {half}
    /\ UNCHANGED <<fileVars, guardVars, readerVars, asked, count, half, stale, logFaults,
                   excused>>

Ask ==
    /\ writer = "ask" /\ writer' = "rest"
    /\ asked' = asked \cup {half} /\ half' = {}
    /\ UNCHANGED <<fileVars, guardVars, readerVars, pending, count, stale, logFaults, excused>>

Writing ==
    \/ AppendTurn \/ Claim \/ Fresh \/ DropStale \/ Reopen \/ StampClaim
    \/ Cut \/ Store \/ Ask

-----------------------------------------------------------------------------
(* The consumer of replies.                                                *)

\* LoadAndDelete; a reply to a compaction that is no longer pending is ignored,
\* one without text costs the turns.
Answer ==
    /\ reader = "rest" /\ NoFault
    /\ \E p \in asked :
          /\ asked' = asked \ {p} /\ pending' = pending \ {p}
          /\ IF p \in pending THEN reader' = "append" /\ summary' = p
                              ELSE UNCHANGED <<reader, summary>>
    /\ UNCHANGED <<fileVars, guardVars, writerVars, excused>>

AnswerEmpty ==
    /\ reader = "rest" /\ LogFault
    /\ \E p \in asked \cap pending :
          /\ asked' = asked \ {p} /\ pending' = pending \ {p}
          /\ excused' = excused \cup p
    /\ reader' = "release"
    /\ UNCHANGED <<fileVars, guardVars, writerVars, summary>>

\* AppendSummary
AppendSummary ==
    /\ reader = "append"
    /\ \/ /\ summaries' = Append(summaries, summary) /\ summary' = {}
          /\ reader' = IF Len(summaries') > Budget THEN "archive" ELSE "release"
          /\ NoFault
       \/ LogFault /\ reader' = "fallback" /\ UNCHANGED <<summaries, summary>>
    /\ UNCHANGED <<rawTail, archive, fallback, guardVars, writerVars, pending, asked, excused>>

\* When it failed, writeFallbackLogEntry: the summary goes to the audit log.
\* When that fails too the summary is gone with its turns, and only logged.
WriteFallback ==
    /\ reader = "fallback" /\ reader' = "release" /\ summary' = {}
    /\ \/ fallback' = fallback \cup {summary} /\ NoFault /\ UNCHANGED excused
       \/ LogFault /\ excused' = excused \cup summary /\ UNCHANGED fallback
    /\ UNCHANGED <<rawTail, summaries, archive, guardVars, writerVars, pending, asked>>

\* OlderSummaries
Excess == Len(summaries) - Budget

Archive ==
    /\ reader = "archive"
    /\ \/ /\ archive' = archive \cup ToSet(SubSeq(summaries, 1, Excess))
          /\ reader' = "commit" /\ NoFault
       \/ LogFault /\ reader' = "release" /\ UNCHANGED archive
    /\ UNCHANGED <<rawTail, summaries, fallback, guardVars, writerVars, summary, pending, asked,
                   excused>>

CommitArchival ==
    /\ reader = "commit" /\ reader' = "release"
    /\ \/ summaries' = SubSeq(summaries, Excess + 1, Len(summaries)) /\ NoFault
       \/ LogFault /\ UNCHANGED summaries
    /\ UNCHANGED <<rawTail, archive, fallback, guardVars, writerVars, summary, pending, asked,
                   excused>>

\* The deferred function: two stores, one after the other.
Release ==
    /\ \/ reader = "release" /\ reader' = "unstamp" /\ inFlight' = FALSE /\ UNCHANGED stamped
       \/ reader = "unstamp" /\ reader' = "rest" /\ stamped' = FALSE /\ UNCHANGED inFlight
    /\ UNCHANGED <<fileVars, writerVars, summary, pending, asked, logFaults, excused>>

Reading == AppendSummary \/ WriteFallback \/ Archive \/ CommitArchival \/ Release

-----------------------------------------------------------------------------
\* The daemon ends and starts again, and the log is loaded from its file.  A
\* crash may come at any time; Shutdown waits for the consumers and drops what
\* is pending.
Restart ==
    /\ LogFault
    /\ excused' = excused \cup half \cup summary \cup UNION pending
    /\ writer' = "rest" /\ half' = {} /\ reader' = "rest" /\ summary' = {}
    /\ pending' = {} /\ asked' = {} /\ inFlight' = FALSE /\ stamped' = FALSE
    /\ UNCHANGED <<fileVars, count, stale>>

LogNext == TakeTurn \/ Writing \/ Answer \/ AnswerEmpty \/ Reading \/ Restart

LogSpec == LogInit /\ [][LogNext]_logVars

-----------------------------------------------------------------------------
(* Properties.                                                             *)

\* Where a turn can be: the file's tail, the hands of a consumer, a pending
\* compaction, or a summary in the file, the archive or the audit log.
\* (writer = "ask": the half is already pending.)
Places(t) ==
    {p \in {"tail", "writer", "pending", "reader", "summary"} :
        CASE p = "tail" -> t \in ToSet(rawTail)
          [] p = "writer" -> t \in half /\ writer # "ask"
          [] p = "pending" -> t \in UNION pending
          [] p = "reader" -> t \in summary
          [] p = "summary" -> t \in UNION (ToSet(summaries) \cup archive \cup fallback)}

\* A turn is in exactly one place, through compaction, archival, failing
\* writes, stale compactions, late replies and crashes between any two steps;
\* in none only if a stale compaction, a crash, an empty reply, a failing
\* AppendRaw, or AppendSummary and its fallback failing both have cost it.
TurnKept ==
    \A t \in 1..count :
        /\ Cardinality(Places(t)) <= 1
        /\ Places(t) = {} => t \in excused

\* At most one compaction is in flight (the comment on compactionInFlight), as
\* long as none has been found stale.
OneCompaction ==
    stale = 0 => Cardinality(pending) + (IF reader \in {"append", "fallback"} THEN 1 ELSE 0) <= 1
=============================================================================
