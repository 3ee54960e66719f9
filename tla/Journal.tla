-------------------------------- MODULE Journal --------------------------------
(***************************************************************************)
(* The journal of one session (internal/awareness/journal.go).  The        *)
(* goroutine for the session's lifecycle makes and retires it; others      *)
(* (output, tool changes) write to it, each entry to the rolling log and   *)
(* to a daily file whose handle is cached; when the rolling log is too     *)
(* long its older half goes to the AI, and a fourth goroutine takes the    *)
(* summaries.  Shutdown waits for the four, but not for ever.              *)
(*                                                                         *)
(* An entry is its number in the rolling log, an open file the number of   *)
(* its handle, a mutex the number sessionLogMu made it with.  The archive  *)
(* of old summaries is ConversationLog's; texts are left out.              *)
(***************************************************************************)
EXTENDS Integers, FiniteSets

CONSTANTS
    Loggers,          \* the goroutines of output and of tool changes
    JournalThreshold, \* entries above which the log is compacted
    MaxLogged,        \* bound: outputs and tool changes
    Days,             \* dates
    MaxOld,           \* bound: compactions found stale
    MaxJournalFaults  \* bound: operations that fail

ASSUME JournalAssumption ==
    /\ {"life", "shut"} \cap Loggers = {} /\ 0 \in Days
    /\ {JournalThreshold, MaxLogged, MaxOld, MaxJournalFaults} \subseteq Nat

VARIABLES
    at,         \* at[g]: where each goroutine, and Shutdown, is
    journal,    \* activeLogs has the session
    heard,      \* the lifecycle events handled
    ending,     \* the one at work is of the session's end
    logged,     \* outputs and tool changes so far
    day,        \* day[g]: the date of the entry g writes
    lines,      \* the entries in the rolling log
    written,    \* the last of them
    half,       \* half[g]: entries g has taken out of it
    mutex,      \* logFileMus has this mutex, 0 for none
    lastMutex,  \* the last one made
    ref,        \* ref[g]: the one g has got
    logFile,    \* logFiles has this handle, 0 for none
    logDay,     \* and its date
    openFiles,  \* the handles that are open
    file,       \* file[g]: the one g has got
    compacting, \* compactionInFlight
    since,      \* compactionStartedAt is set
    awaited,    \* pendingCompactions
    posted,     \* prompts the AI may answer
    taker,      \* where handleCompactionReply is
    digest,     \* the entries of the answer it has
    settled,    \* entries in summaries, or reported lost: their answer did
                \* not come, was empty, or could be stored nowhere
    old,        \* compactions found stale
    failures,   \* operations that failed
    forced,     \* history: the guard was cleared over a compaction
    survivor    \* history: a goroutine outlived Shutdown inside an entry

eventVars == <<journal, heard, ending, logged>>
logVars == <<lines, written>>
muVars == <<mutex, lastMutex, ref>>
dailyVars == <<logFile, logDay, openFiles, file>>
askVars == <<awaited, posted>>
claimVars == <<compacting, since>>
takeVars == <<taker, digest, settled>>
noteVars == <<old, failures, forced, survivor>>
historyVars == <<old, forced, survivor>>
journalVars == <<at, eventVars, day, logVars, half, muVars, dailyVars, claimVars, askVars, takeVars,
                 noteVars>>
\* What compacting does not touch, and what writing to the daily file does not.
outsideVars == <<eventVars, day, muVars, dailyVars, taker, digest>>
besideVars == <<heard, logged, lines, written, half, claimVars, askVars, takeVars>>

Handlers == {"life"} \cup Loggers
Journalists == {"life", "shut"} \cup Loggers
Entries == 1..(MaxLogged + 2)
Files == 1..2
Locked == {"check", "get", "open", "write", "drop", "release"}   \* whoever has the mutex

JournalTypeOK ==
    /\ at \in [Journalists ->
                Locked \cup {"rest", "append", "measure", "guard", "stale", "reopen", "unstamp", "again",
                             "stamp", "cut", "store", "ask", "mutex", "lock", "off", "begin", "activate",
                             "farewell", "retire", "unguard", "forget", "seek", "up", "wait", "clear",
                             "files", "maps", "down"}]
    /\ {journal, ending, compacting, since, forced, survivor} \subseteq BOOLEAN
    /\ heard \subseteq {"created", "stopped"}
    /\ logged \in 0..MaxLogged /\ day \in [Handlers -> Days] /\ logDay \in Days
    /\ lines \subseteq Entries /\ written \in {0} \cup Entries
    /\ half \in [Handlers -> SUBSET Entries]
    /\ mutex \in 0..3 /\ lastMutex \in 0..3 /\ ref \in [Journalists -> 0..3]
    /\ logFile \in {0} \cup Files /\ openFiles \subseteq Files
    /\ file \in [Journalists -> {0} \cup Files]
    /\ awaited \subseteq SUBSET Entries /\ posted \subseteq SUBSET Entries
    /\ taker \in {"rest", "append", "release", "unstamp", "off"}
    /\ digest \subseteq Entries /\ settled \subseteq Entries
    /\ old \in 0..MaxOld /\ failures \in 0..MaxJournalFaults

JournalInit ==
    /\ at = [g \in Journalists |-> IF g = "shut" THEN "up" ELSE "rest"]
    /\ journal = FALSE /\ heard = {} /\ ending = FALSE
    /\ logged = 0 /\ day = [g \in Handlers |-> 0]
    /\ lines = {} /\ written = 0 /\ half = [g \in Handlers |-> {}]
    /\ mutex = 0 /\ lastMutex = 0 /\ ref = [g \in Journalists |-> 0]
    /\ logFile = 0 /\ logDay = 0 /\ openFiles = {} /\ file = [g \in Journalists |-> 0]
    /\ compacting = FALSE /\ since = FALSE
    /\ awaited = {} /\ posted = {} /\ taker = "rest" /\ digest = {} /\ settled = {}
    /\ old = 0 /\ failures = 0 /\ forced = FALSE /\ survivor = FALSE

Fails == failures < MaxJournalFaults /\ failures' = failures + 1
Succeeds == UNCHANGED failures

To(g, place) == at' = [at EXCEPT ![g] = place]
From(g, place, next) == at[g] = place /\ To(g, next)

-----------------------------------------------------------------------------
(* The beginnings of the handlers.  The session manager starts to monitor  *)
(* a session before it announces it: either event may come first.          *)

AppendEntry == written' = written + 1 /\ lines' = lines \cup {written'}
\* A change of tools has the time of its event, which may be of another date.
Dated(g) == \E d \in Days : day' = [day EXCEPT ![g] = d]

HearCreated ==
    /\ "created" \notin heard /\ heard' = heard \cup {"created"}
    /\ From("life", "rest", "begin")
    /\ UNCHANGED <<journal, ending, logged, day, logVars, half, muVars, dailyVars, claimVars, askVars,
                   takeVars, noteVars>>

\* NewRollingLog and the first entry; if either fails there is no journal.
BeginJournal ==
    /\ \/ From("life", "begin", "activate") /\ AppendEntry /\ Succeeds
       \/ From("life", "begin", "rest") /\ Fails /\ UNCHANGED logVars
    /\ UNCHANGED <<eventVars, day, half, muVars, dailyVars, claimVars, askVars, takeVars,
                   historyVars>>

Activate ==
    /\ From("life", "activate", "mutex")
    /\ journal' = TRUE
    /\ survivor' = (survivor \/ at["shut"] \notin {"up", "wait", "clear"})
    /\ UNCHANGED <<heard, ending, logged, day, logVars, half, muVars, dailyVars, claimVars, askVars,
                   takeVars, old, failures, forced>>

\* Without a journal, because there is none or not yet one, nothing is done.
HearStopped ==
    /\ "stopped" \notin heard /\ heard' = heard \cup {"stopped"}
    /\ at["life"] = "rest"
    /\ IF journal THEN To("life", "measure") ELSE UNCHANGED at
    /\ ending' = journal
    /\ UNCHANGED <<journal, logged, day, logVars, half, muVars, dailyVars, claimVars, askVars,
                   takeVars, noteVars>>

Farewell ==
    /\ From("life", "farewell", "mutex") /\ Dated("life")
    /\ (AppendEntry /\ Succeeds) \/ (Fails /\ UNCHANGED logVars)
    /\ UNCHANGED <<eventVars, half, muVars, dailyVars, claimVars, askVars, takeVars, historyVars>>

\* handleOutput and handleToolChanged
HearLogger(g) ==
    /\ journal /\ From(g, "rest", "append") /\ Dated(g)
    /\ logged < MaxLogged /\ logged' = logged + 1
    /\ UNCHANGED <<journal, heard, ending, logVars, half, muVars, dailyVars, claimVars, askVars,
                   takeVars, noteVars>>

\* AppendRaw; when it fails the entry goes to the daily file only.
AppendRaw(g) ==
    /\ From(g, "append", "measure")
    /\ (AppendEntry /\ Succeeds) \/ (Fails /\ UNCHANGED logVars)
    /\ UNCHANGED <<eventVars, day, half, muVars, dailyVars, claimVars, askVars, takeVars,
                   historyVars>>

Beginning == \/ HearCreated \/ BeginJournal \/ Activate \/ HearStopped \/ Farewell
             \/ \E g \in Loggers : HearLogger(g) \/ AppendRaw(g)

-----------------------------------------------------------------------------
(* triggerCompaction, by any of the handlers.                              *)

Compacted(g) == IF g = "life" THEN "farewell" ELSE "mutex"

\* ShouldCompact; at the session's end what there is may be too small as well.
Measure(g) ==
    /\ \/ From(g, "measure", IF Cardinality(lines) > JournalThreshold THEN "guard" ELSE Compacted(g))
       \/ g = "life" /\ From(g, "measure", "farewell")
    /\ UNCHANGED <<outsideVars, logVars, half, claimVars, askVars, settled, noteVars>>

\* LoadOrStore on the guard, a second time after checkStaleCompaction.
Guard(g) ==
    /\ \/ at[g] = "guard" /\ To(g, IF compacting THEN "stale" ELSE "stamp")
       \/ at[g] = "again" /\ To(g, IF compacting THEN Compacted(g) ELSE "stamp")
    /\ compacting' = TRUE
    /\ UNCHANGED <<outsideVars, logVars, half, since, askVars, settled, noteVars>>

NotStale(g) ==
    /\ From(g, "stale", "again")
    /\ UNCHANGED <<outsideVars, logVars, half, claimVars, askVars, settled, noteVars>>

\* Whether it is old enough is open.  Every compaction of the session goes.
DropOld(g) ==
    /\ since /\ From(g, "stale", "reopen")
    /\ old < MaxOld /\ old' = old + 1
    /\ awaited' = {} /\ settled' = settled \cup UNION awaited
    /\ UNCHANGED <<outsideVars, logVars, half, claimVars, posted, failures, forced, survivor>>

ReopenGuard(g) ==
    /\ From(g, "reopen", "unstamp")
    /\ compacting' = FALSE /\ forced' = TRUE
    /\ UNCHANGED <<outsideVars, logVars, half, since, askVars, settled, old, failures, survivor>>

StampGuard(g) ==
    /\ \/ From(g, "unstamp", "again") /\ since' = FALSE
       \/ From(g, "stamp", "cut") /\ since' = TRUE
    /\ UNCHANGED <<outsideVars, logVars, half, compacting, askVars, settled, noteVars>>

\* OlderHalf, which another goroutine may have left with nothing; or it fails.
OlderLines ==
    LET number == IF Cardinality(lines) = 1 THEN 1 ELSE Cardinality(lines) \div 2 IN
        {e \in lines : Cardinality({d \in lines : d <= e}) <= number}

CutLines(g) ==
    /\ \/ /\ lines # {} /\ From(g, "cut", "store")
          /\ half' = [half EXCEPT ![g] = OlderLines] /\ lines' = lines \ OlderLines
          /\ Succeeds /\ UNCHANGED compacting
       \/ /\ IF lines = {} THEN Succeeds ELSE Fails
          /\ From(g, "cut", Compacted(g))
          /\ compacting' = FALSE /\ UNCHANGED <<half, lines>>
    /\ UNCHANGED <<outsideVars, written, since, askVars, settled, historyVars>>

StorePrompt(g) ==
    /\ From(g, "store", "ask")
    /\ awaited' = awaited \cup {half[g]}
    /\ UNCHANGED <<outsideVars, logVars, half, claimVars, posted, settled, noteVars>>

PostPrompt(g) ==
    /\ From(g, "ask", Compacted(g))
    /\ posted' = posted \cup {half[g]} /\ half' = [half EXCEPT ![g] = {}]
    /\ UNCHANGED <<outsideVars, logVars, claimVars, awaited, settled, noteVars>>

Compacting(g) ==
    \/ Measure(g) \/ Guard(g) \/ NotStale(g) \/ DropOld(g) \/ ReopenGuard(g) \/ StampGuard(g)
    \/ CutLines(g) \/ StorePrompt(g) \/ PostPrompt(g)

-----------------------------------------------------------------------------
(* writeLogEntry.                                                          *)

Entered(g) == IF g = "life" /\ ending THEN "retire" ELSE "rest"

\* The handler returns; what it had in its hands is of no account.
EntryEnds(g) ==
    /\ To(g, Entered(g))
    /\ ref' = [ref EXCEPT ![g] = 0] /\ file' = [file EXCEPT ![g] = 0] /\ day' = [day EXCEPT ![g] = 0]
    /\ UNCHANGED <<mutex, lastMutex>>

\* sessionLogMu
GetMutex(g) ==
    /\ lastMutex' = IF mutex = 0 THEN lastMutex + 1 ELSE lastMutex
    /\ mutex' = IF mutex = 0 THEN lastMutex' ELSE mutex
    /\ ref' = [ref EXCEPT ![g] = mutex']

\* Without a directory there is no entry.
EnterMutex(g) ==
    /\ at[g] = "mutex"
    /\ \/ To(g, "lock") /\ GetMutex(g) /\ Succeeds /\ UNCHANGED <<day, file>>
       \/ EntryEnds(g) /\ Fails
    /\ UNCHANGED <<besideVars, journal, ending, logFile, logDay, openFiles, historyVars>>

LockFree(m) == \A g \in Journalists : ref[g] = m => at[g] \notin Locked

LockMutex(g) ==
    /\ From(g, "lock", "check") /\ LockFree(ref[g])
    /\ UNCHANGED <<besideVars, journal, ending, day, muVars, dailyVars, noteVars>>

\* Mutant of CheckJournal: the session is not looked up again.
CheckJournal_Skips(g) ==
    /\ at[g] = "check"
    /\ To(g, "get") /\ UNCHANGED <<day, muVars, file>>
    /\ UNCHANGED <<besideVars, journal, ending, logFile, logDay, openFiles, noteVars>>

\* The entry of a session that has been retired meanwhile is skipped.
CheckJournal(g) ==
    /\ at[g] = "check"
    /\ IF journal THEN To(g, "get") /\ UNCHANGED <<day, muVars, file>> ELSE EntryEnds(g)
    /\ UNCHANGED <<besideVars, journal, ending, logFile, logDay, openFiles, noteVars>>

\* getLogFile: the cached handle if it is of the day, else it is closed.
GetLogFile(g) ==
    /\ IF logFile # 0 /\ logDay = day[g]
          THEN /\ From(g, "get", "write")
               /\ file' = [file EXCEPT ![g] = logFile] /\ UNCHANGED <<logFile, logDay, openFiles>>
          ELSE /\ From(g, "get", "open")
               /\ openFiles' = openFiles \ {logFile} /\ logFile' = 0 /\ logDay' = 0 /\ UNCHANGED file
    /\ UNCHANGED <<besideVars, journal, ending, day, muVars, noteVars>>

OpenLogFile(g) ==
    /\ at[g] = "open"
    /\ \/ /\ To(g, "write") /\ openFiles # Files
          /\ LET free == Files \ openFiles IN
                logFile' = CHOOSE f \in free : \A h \in free : f <= h
          /\ openFiles' = openFiles \cup {logFile'} /\ logDay' = day[g]
          /\ file' = [file EXCEPT ![g] = logFile']
          /\ Succeeds /\ UNCHANGED <<day, muVars>>
       \/ EntryEnds(g) /\ Fails /\ UNCHANGED <<logFile, logDay, openFiles>>
    /\ UNCHANGED <<besideVars, journal, ending, historyVars>>

WriteEntry(g) ==
    /\ at[g] = "write" /\ EntryEnds(g)
    /\ UNCHANGED <<besideVars, journal, ending, logFile, logDay, openFiles, noteVars>>

Entering(g) == \/ EnterMutex(g) \/ LockMutex(g) \/ CheckJournal(g)
               \/ GetLogFile(g) \/ OpenLogFile(g) \/ WriteEntry(g)

-----------------------------------------------------------------------------
(* The rest of handleSessionStopped, and of closeLogFile.                  *)

Retire ==
    /\ From("life", "retire", "unguard")
    /\ journal' = FALSE
    /\ UNCHANGED <<besideVars, ending, day, muVars, dailyVars, noteVars>>

\* The guard is deleted and then its time, by the end of the session and by
\* Shutdown.
ForgetGuard(g) ==
    /\ \/ /\ From(g, "unguard", "forget") /\ compacting' = FALSE
          /\ forced' = (forced \/ compacting) /\ UNCHANGED since
       \/ /\ From(g, "forget", IF g = "life" THEN "seek" ELSE "down") /\ since' = FALSE
          /\ UNCHANGED <<compacting, forced>>
    /\ UNCHANGED <<outsideVars, logVars, half, askVars, settled, old, failures, survivor>>

SeekMutex ==
    /\ From("life", "seek", "drop") /\ GetMutex("life")
    /\ LockFree(ref'["life"])
    /\ UNCHANGED <<besideVars, journal, ending, day, dailyVars, noteVars>>

DropFile ==
    /\ From("life", "drop", "release")
    /\ openFiles' = openFiles \ {logFile} /\ logFile' = 0 /\ logDay' = 0
    /\ UNCHANGED <<besideVars, journal, ending, day, muVars, file, noteVars>>

\* The mutex is deleted while it is held.
ReleaseMutex(g) ==
    /\ From(g, "release", IF g = "life" THEN "rest" ELSE "maps")
    /\ mutex' = 0 /\ ref' = [ref EXCEPT ![g] = 0] /\ file' = [file EXCEPT ![g] = 0]
    /\ ending' = (ending /\ g # "life")
    /\ UNCHANGED <<besideVars, journal, day, lastMutex, logFile, logDay, openFiles, noteVars>>

Ending == Retire \/ SeekMutex \/ DropFile

-----------------------------------------------------------------------------
(* handleCompactionReply.                                                  *)

replyAside == <<at, eventVars, day, logVars, half, muVars, dailyVars>>

TakeReply ==
    /\ taker = "rest"
    /\ \E p \in posted :
          /\ posted' = posted \ {p} /\ awaited' = awaited \ {p}
          /\ IF p \in awaited
                THEN \/ taker' = "append" /\ digest' = p /\ UNCHANGED settled
                     \/ taker' = "release" /\ settled' = settled \cup p /\ UNCHANGED digest
                ELSE UNCHANGED <<taker, digest, settled>>
    /\ UNCHANGED <<replyAside, claimVars, noteVars>>

\* To the log, also when the session has ended; or else to its daily file; or
\* else it is reported lost.
AppendDigest ==
    /\ taker = "append" /\ taker' = "release" /\ digest' = {}
    /\ settled' = settled \cup digest
    /\ UNCHANGED <<replyAside, claimVars, askVars, noteVars>>

\* The deferred function.
ReleaseGuard ==
    /\ \/ /\ taker = "release" /\ taker' = "unstamp"
          /\ compacting' = FALSE /\ UNCHANGED since
       \/ taker = "unstamp" /\ taker' = "rest" /\ since' = FALSE /\ UNCHANGED compacting
    /\ UNCHANGED <<replyAside, askVars, digest, settled, noteVars>>

TakerEnds ==
    /\ taker = "rest" /\ at["shut"] # "up" /\ taker' = "off"
    /\ UNCHANGED <<replyAside, claimVars, askVars, digest, settled, noteVars>>

Replying == TakeReply \/ AppendDigest \/ ReleaseGuard \/ TakerEnds

-----------------------------------------------------------------------------
(* Shutdown.                                                               *)

HandlerEnds(g) ==
    /\ at["shut"] # "up" /\ From(g, "rest", "off")
    /\ UNCHANGED <<besideVars, journal, ending, day, muVars, dailyVars, noteVars>>

BeginShutdown ==
    /\ From("shut", "up", "wait")
    /\ UNCHANGED <<besideVars, journal, ending, day, muVars, dailyVars, noteVars>>

\* The goroutines have ended, or the time they were given has.
WaitedOut ==
    /\ From("shut", "wait", "clear")
    /\ IF taker = "off" /\ \A g \in Handlers : at[g] = "off" THEN Succeeds ELSE Fails
    /\ UNCHANGED <<besideVars, journal, ending, day, muVars, dailyVars, historyVars>>

ClearActive ==
    /\ From("shut", "clear", "files")
    /\ journal' = FALSE
    /\ UNCHANGED <<besideVars, ending, day, muVars, dailyVars, noteVars>>

RangeFiles ==
    /\ \/ /\ logFile # 0 /\ From("shut", "files", "seek")
          /\ GetMutex("shut") /\ file' = [file EXCEPT !["shut"] = logFile]
       \/ logFile = 0 /\ From("shut", "files", "maps") /\ UNCHANGED <<muVars, file>>
    /\ survivor' = (survivor \/ \E g \in Handlers : at[g] \in {"get", "open"})
    /\ UNCHANGED <<besideVars, journal, ending, day, logFile, logDay, openFiles, old, failures, forced>>

CloseRanged ==
    /\ From("shut", "seek", "release") /\ LockFree(ref["shut"])
    /\ openFiles' = openFiles \ {file["shut"]} /\ logFile' = 0 /\ logDay' = 0
    /\ UNCHANGED <<besideVars, journal, ending, day, muVars, file, noteVars>>

DropAwaited ==
    /\ From("shut", "maps", "unguard")
    /\ awaited' = {} /\ settled' = settled \cup UNION awaited
    /\ UNCHANGED <<outsideVars, logVars, half, claimVars, posted, noteVars>>

ShuttingDown == \/ BeginShutdown \/ WaitedOut \/ ClearActive \/ RangeFiles \/ CloseRanged
                \/ DropAwaited

JournalNext ==
    \/ Beginning \/ Ending \/ Replying \/ ShuttingDown
    \/ \E g \in Handlers : Compacting(g) \/ Entering(g) \/ HandlerEnds(g)
    \/ \E g \in {"life", "shut"} : ForgetGuard(g) \/ ReleaseMutex(g)

JournalSpec == JournalInit /\ [][JournalNext]_journalVars

-----------------------------------------------------------------------------
(* Properties.                                                             *)

\* No file handle is leaked or closed under its writer, though the mutex that
\* protects it is deleted while others wait for it: at most the cached handle is
\* open, none once the session's end has been handled, and none after Shutdown,
\* even one that did not wait for its goroutines; unless one of these was inside
\* an entry, or about to make the journal.
FilesClosed ==
    ~survivor =>
        /\ openFiles \subseteq {logFile}
        /\ \A g \in Handlers : at[g] = "write" => file[g] \in openFiles
        /\ ~journal /\ at["life"] \in {"rest", "off"} /\ at["shut"] \in {"up", "wait", "down"} =>
               openFiles = {}

\* An entry stays in the log until a summary stands for it: also one that comes
\* after the session's end.
EntriesKept ==
    \A e \in 1..written :
        \/ e \in lines \cup digest \cup settled \cup UNION awaited
        \/ \E g \in Handlers : e \in half[g]

\* At most one compaction of a session is in flight until the guard is cleared
\* over one.
OneJournalCompaction ==
    ~forced =>
        Cardinality(awaited) + Cardinality({g \in Handlers : at[g] = "store"})
            + (IF taker = "append" THEN 1 ELSE 0) <= 1

\* The guard is never left closed with no compaction to open it.
GuardOpens ==
    compacting =>
        \/ awaited # {} \/ taker \in {"append", "release"}
        \/ \E g \in Journalists : at[g] \in {"stamp", "cut", "store", "reopen", "unguard"}

JournalSound == FilesClosed /\ EntriesKept /\ OneJournalCompaction /\ GuardOpens
=============================================================================
