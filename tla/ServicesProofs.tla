--------------------------- MODULE ServicesProofs ---------------------------
(***************************************************************************)
(* Proofs about four parts of MCServices, and about its seven parts        *)
(* together.                                                               *)
(*                                                                         *)
(* Of the conversation log, for any thresholds and any number of turns,    *)
(* faults and stale compactions: PlaceInv says where every turn is,        *)
(* ClaimInv who holds the guard of a compaction. Of the conversation       *)
(* service, for any intervals and any number of detachments: AgeInv ties   *)
(* the times in the two maps to those of the prompts; LeftInv says for     *)
(* each thing the service keeps of a session who is going to remove it. Of *)
(* a session's output, for any number of clients, chunks and tools:        *)
(* ToolInv says where the tools on their way to the bus are and how they   *)
(* are linked; FollowInv how far the broadcast under way has come at each  *)
(* position of the list of sinks, and what is therefore the last chunk     *)
(* that sink has taken.                                                    *)
(*                                                                         *)
(* Of the service host and the transport gateway, for any bindings, ports  *)
(* and numbers of updates, renewals and failures: LeakInv says whose each  *)
(* gateway is; ServeInv what holds of the configuration at each step of a  *)
(* start, as long as no other restart is due.                              *)
(***************************************************************************)
EXTENDS MCServices, PluginProofs, FiniteSetTheorems, SequenceTheorems

-----------------------------------------------------------------------------
(* Facts about sequences.                                                  *)

LEMMA AppendSet ==
    ASSUME NEW S, NEW s \in Seq(S), NEW x \in S
    PROVE  /\ Append(s, x) \in Seq(S)
           /\ ToSet(Append(s, x)) = ToSet(s) \cup {x}
<1>1. /\ Append(s, x) \in Seq(S) /\ Len(Append(s, x)) = Len(s) + 1
      /\ \A i \in 1..Len(s) : Append(s, x)[i] = s[i]
      /\ Append(s, x)[Len(s) + 1] = x
    OBVIOUS
<1>2. ToSet(Append(s, x)) \subseteq ToSet(s) \cup {x}
    BY <1>1 DEF ToSet
<1>3. ToSet(s) \subseteq ToSet(Append(s, x))
    BY <1>1 DEF ToSet
<1>4. x \in ToSet(Append(s, x))
    BY <1>1 DEF ToSet
<1>. QED BY <1>1, <1>2, <1>3, <1>4

\* A sequence falls into what is up to n and what is after it.
LEMMA SplitSet ==
    ASSUME NEW S, NEW s \in Seq(S), NEW n \in 0..Len(s)
    PROVE  /\ SubSeq(s, 1, n) \in Seq(S) /\ SubSeq(s, n + 1, Len(s)) \in Seq(S)
           /\ Len(SubSeq(s, n + 1, Len(s))) = Len(s) - n
           /\ \A i \in 1..(Len(s) - n) : SubSeq(s, n + 1, Len(s))[i] = s[n + i]
           /\ ToSet(SubSeq(s, 1, n)) \subseteq S
           /\ ToSet(s) = ToSet(SubSeq(s, 1, n)) \cup ToSet(SubSeq(s, n + 1, Len(s)))
<1> DEFINE u == SubSeq(s, 1, n)
           v == SubSeq(s, n + 1, Len(s))
<1>1. u \in Seq(S) /\ Len(u) = n /\ \A i \in 1..n : u[i] = s[i]
    OBVIOUS
<1>2. v \in Seq(S) /\ Len(v) = Len(s) - n /\ \A i \in 1..(Len(s) - n) : v[i] = s[n + i]
    OBVIOUS
<1> HIDE DEF u, v
<1>3. ToSet(u) = {s[i] : i \in 1..n}
    BY <1>1 DEF ToSet
<1>4. ToSet(v) = {s[i] : i \in (n + 1)..Len(s)}
  <2>1. ToSet(v) = {v[i] : i \in 1..(Len(s) - n)}
    <3>1. DOMAIN v = 1..(Len(s) - n)
      BY <1>2
    <3> QED BY <3>1 DEF ToSet
  <2>2. ASSUME NEW i \in 1..(Len(s) - n) PROVE v[i] \in {s[j] : j \in (n + 1)..Len(s)}
    BY <1>2
  <2>3. ASSUME NEW j \in (n + 1)..Len(s) PROVE s[j] \in {v[i] : i \in 1..(Len(s) - n)}
    <3>1. j - n \in 1..(Len(s) - n) /\ v[j - n] = s[j]
      BY <1>2
    <3>. QED BY <3>1
  <2>. QED BY <2>1, <2>2, <2>3
<1>5. ToSet(s) = {s[i] : i \in 1..Len(s)}
    BY DEF ToSet
<1>6. 1..Len(s) = 1..n \cup (n + 1)..Len(s)
    OBVIOUS
<1>7. ToSet(s) = ToSet(u) \cup ToSet(v)
    BY <1>3, <1>4, <1>5, <1>6
<1>8. ToSet(u) \subseteq S
    BY <1>1 DEF ToSet
<1>. QED BY <1>1, <1>2, <1>7, <1>8 DEF u, v

Distinct(s) == \A i, j \in 1..Len(s) : s[i] = s[j] => i = j

LEMMA AppendDistinct ==
    ASSUME NEW S, NEW s \in Seq(S), NEW x \in S, Distinct(s), x \notin ToSet(s)
    PROVE  Distinct(Append(s, x))
<1>1. /\ Len(Append(s, x)) = Len(s) + 1
      /\ \A i \in 1..Len(s) : Append(s, x)[i] = s[i]
      /\ Append(s, x)[Len(s) + 1] = x
    OBVIOUS
<1>2. \A i \in 1..Len(s) : s[i] # x
    BY DEF ToSet
<1>. QED BY <1>1, <1>2 DEF Distinct

\* The parts of a sequence of distinct elements have none in common.
LEMMA SplitDistinct ==
    ASSUME NEW S, NEW s \in Seq(S), NEW n \in 0..Len(s), Distinct(s)
    PROVE  /\ Distinct(SubSeq(s, n + 1, Len(s)))
           /\ ToSet(SubSeq(s, 1, n)) \cap ToSet(SubSeq(s, n + 1, Len(s))) = {}
<1> DEFINE u == SubSeq(s, 1, n)
           v == SubSeq(s, n + 1, Len(s))
<1>1. u \in Seq(S) /\ Len(u) = n /\ \A i \in 1..n : u[i] = s[i]
    OBVIOUS
<1>2. v \in Seq(S) /\ Len(v) = Len(s) - n /\ \A i \in 1..(Len(s) - n) : v[i] = s[n + i]
    OBVIOUS
<1> HIDE DEF u, v
<1>3. Distinct(v)
    BY <1>2 DEF Distinct
<1>4. ASSUME NEW x \in ToSet(u), x \in ToSet(v) PROVE FALSE
  <2>1. PICK i \in 1..n : x = s[i]
    BY <1>1, <1>4 DEF ToSet
  <2>2. PICK j \in 1..Len(v) : x = v[j]
    BY <1>4 DEF ToSet
  <2>3. j \in 1..(Len(s) - n) /\ x = s[n + j]
    BY <1>2, <2>2
  <2>4. i \in 1..Len(s) /\ n + j \in 1..Len(s) /\ i # n + j
    BY <2>3
  <2>. QED BY <2>1, <2>3, <2>4 DEF Distinct
<1>. QED BY <1>3, <1>4 DEF u, v

\* OlderHalf takes from an empty tail nothing.
LEMMA OlderInTail ==
    ASSUME NEW S, rawTail \in Seq(S)
    PROVE  Older \in 0..Len(rawTail)
    BY DEF Older

-----------------------------------------------------------------------------
(* Types.                                                                  *)

NumberTypes == count \in 0..MaxTurns /\ logFaults \in 0..MaxLogFaults /\ stale \in 0..MaxStale

StateTypes ==
    /\ writer \in {"rest", "append", "claim", "stale", "reopen", "unstamp", "reclaim",
                   "stamp", "cut", "store", "ask"}
    /\ inFlight \in BOOLEAN /\ stamped \in BOOLEAN
    /\ reader \in {"rest", "append", "fallback", "archive", "commit", "release", "unstamp"}

FileTypes == rawTail \in Seq(Turns) /\ summaries \in Seq(Summaries)

SetTypes ==
    /\ archive \subseteq Summaries /\ fallback \subseteq Summaries
    /\ half \in Summaries /\ summary \in Summaries
    /\ pending \subseteq Summaries /\ asked \subseteq Summaries
    /\ excused \subseteq Turns

\* While older summaries are archived there are more than the budget, and the
\* archive gets the excess alone.
Surplus == reader \in {"archive", "commit"} => Excess \in 1..Len(summaries)

\* The turn that is being appended is the last.
NewTurn == writer = "append" => half = {count}

LogTypeInv == NumberTypes /\ StateTypes /\ FileTypes /\ SetTypes /\ Surplus /\ NewTurn

LEMMA LogTypeInit == LogInit => LogTypeInv
<1>. SUFFICES ASSUME LogInit PROVE LogTypeInv
    OBVIOUS
<1>1. NumberTypes
    BY LogAssumption DEF LogInit, NumberTypes
<1>2. StateTypes /\ Surplus /\ NewTurn
    BY DEF LogInit, StateTypes, Surplus, NewTurn
<1>3. FileTypes /\ SetTypes
    BY DEF LogInit, FileTypes, SetTypes, Summaries
<1>. QED BY <1>1, <1>2, <1>3 DEF LogTypeInv

LEMMA NumberStep ==
    ASSUME NumberTypes, [LogNext]_logVars
    PROVE  NumberTypes'
<1> USE DEF NumberTypes, writerVars, LogFault, NoFault
<1>1. CASE TakeTurn \/ AppendTurn
    BY <1>1, LogAssumption DEF TakeTurn, AppendTurn
<1>2. CASE Claim \/ Fresh \/ Reopen \/ StampClaim \/ Store \/ Ask
    BY <1>2 DEF Claim, Fresh, Reopen, StampClaim, Store, Ask
<1>3. CASE DropStale \/ Cut
    BY <1>3, LogAssumption DEF DropStale, Cut
<1>4. CASE Answer \/ AnswerEmpty \/ Release
    BY <1>4, LogAssumption DEF Answer, AnswerEmpty, Release
<1>5. CASE AppendSummary \/ WriteFallback \/ Archive \/ CommitArchival
    BY <1>5, LogAssumption DEF AppendSummary, WriteFallback, Archive, CommitArchival
<1>6. CASE Restart
    BY <1>6, LogAssumption DEF Restart
<1>7. CASE UNCHANGED logVars
    BY <1>7 DEF logVars
<1>. QED BY <1>1, <1>2, <1>3, <1>4, <1>5, <1>6, <1>7 DEF LogNext, Writing, Reading

LEMMA StateStep ==
    ASSUME StateTypes, [LogNext]_logVars
    PROVE  StateTypes'
<1> USE DEF StateTypes, guardVars, writerVars, readerVars
<1>1. CASE TakeTurn \/ AppendTurn
    BY <1>1 DEF TakeTurn, AppendTurn
<1>2. CASE Claim \/ Fresh \/ Reopen \/ StampClaim
    BY <1>2 DEF Claim, Fresh, Reopen, StampClaim
<1>3. CASE DropStale \/ Cut \/ Store \/ Ask
    BY <1>3 DEF DropStale, Cut, Store, Ask
<1>4. CASE Answer \/ AnswerEmpty \/ Release
    BY <1>4 DEF Answer, AnswerEmpty, Release
<1>5. CASE AppendSummary \/ WriteFallback \/ Archive \/ CommitArchival
    BY <1>5 DEF AppendSummary, WriteFallback, Archive, CommitArchival
<1>6. CASE Restart
    BY <1>6 DEF Restart
<1>7. CASE UNCHANGED logVars
    BY <1>7 DEF logVars
<1>. QED BY <1>1, <1>2, <1>3, <1>4, <1>5, <1>6, <1>7 DEF LogNext, Writing, Reading

LEMMA SetStep ==
    ASSUME LogTypeInv, [LogNext]_logVars
    PROVE  SetTypes'
<1>0. SetTypes /\ FileTypes /\ Surplus
    BY DEF LogTypeInv
<1> USE DEF SetTypes, Summaries, fileVars, readerVars, writerVars
<1>1. CASE TakeTurn
  <2>1. count' \in Turns
    BY <1>1, LogAssumption DEF TakeTurn, LogTypeInv, NumberTypes, Turns
  <2>. QED BY <1>0, <1>1, <2>1 DEF TakeTurn
<1>2. CASE AppendTurn
    BY <1>0, <1>2 DEF AppendTurn
<1>3. CASE Claim \/ Fresh \/ Reopen \/ StampClaim
    BY <1>0, <1>3 DEF Claim, Fresh, Reopen, StampClaim
<1>4. CASE DropStale
    BY <1>0, <1>4 DEF DropStale
<1>5. CASE Cut
  <2>1. Older \in 0..Len(rawTail)
    BY <1>0, OlderInTail DEF FileTypes
  <2>2. ToSet(SubSeq(rawTail, 1, Older)) \subseteq Turns
    BY <1>0, <2>1, SplitSet DEF FileTypes
  <2>. QED BY <1>0, <1>5, <2>2 DEF Cut
<1>6. CASE Store \/ Ask
    BY <1>0, <1>6 DEF Store, Ask
<1>7. CASE Answer
    BY <1>0, <1>7 DEF Answer
<1>8. CASE AnswerEmpty
    BY <1>0, <1>8 DEF AnswerEmpty
<1>9. CASE AppendSummary \/ WriteFallback
    BY <1>0, <1>9 DEF AppendSummary, WriteFallback
<1>10. CASE Archive
  <2>1. Excess \in 0..Len(summaries)
    BY <1>0, <1>10 DEF Archive, Surplus
  <2>2. ToSet(SubSeq(summaries, 1, Excess)) \subseteq SUBSET Turns
    BY <1>0, <2>1, SplitSet DEF FileTypes
  <2>. QED BY <1>0, <1>10, <2>2 DEF Archive
<1>11. CASE CommitArchival \/ Release
    BY <1>0, <1>11 DEF CommitArchival, Release
<1>12. CASE Restart
  <2>1. /\ excused \subseteq Turns /\ half \subseteq Turns /\ summary \subseteq Turns
        /\ UNION pending \subseteq Turns
    BY <1>0
  <2>2. excused' = excused \cup half \cup summary \cup UNION pending
    BY <1>12 DEF Restart
  <2>3. excused' \subseteq Turns
    BY <2>1, <2>2
  <2>. QED BY <1>0, <1>12, <2>3 DEF Restart
<1>13. CASE UNCHANGED logVars
    BY <1>0, <1>13 DEF logVars
<1>. QED BY <1>1, <1>2, <1>3, <1>4, <1>5, <1>6, <1>7, <1>8, <1>9, <1>10, <1>11, <1>12, <1>13
         DEF LogNext, Writing, Reading

LEMMA FileStep ==
    ASSUME LogTypeInv, [LogNext]_logVars
    PROVE  FileTypes' /\ Surplus'
<1>0. FileTypes /\ Surplus /\ NumberTypes
    BY DEF LogTypeInv
<1> USE DEF fileVars, readerVars, writerVars
<1>1. CASE AppendTurn
  <2>1. UNCHANGED <<reader, summaries>>
    BY <1>1 DEF AppendTurn
  <2>2. CASE rawTail' = Append(rawTail, count)
    <3>1. count \in Turns
      BY <1>1 DEF AppendTurn, LogTypeInv, NewTurn, SetTypes, Summaries
    <3>. QED BY <1>0, <2>1, <2>2, <3>1, AppendSet DEF FileTypes, Surplus, Excess
  <2>3. CASE UNCHANGED rawTail
    BY <1>0, <2>1, <2>3 DEF FileTypes, Surplus, Excess
  <2>. QED BY <1>1, <2>2, <2>3 DEF AppendTurn
<1>2. CASE Cut
  <2>1. UNCHANGED <<reader, summaries>>
    BY <1>2 DEF Cut
  <2>2. Older \in 0..Len(rawTail)
    BY <1>0, OlderInTail DEF FileTypes
  <2>3. SubSeq(rawTail, Older + 1, Len(rawTail)) \in Seq(Turns)
    BY <1>0, <2>2, SplitSet DEF FileTypes
  <2>. QED BY <1>0, <1>2, <2>1, <2>3 DEF Cut, FileTypes, Surplus, Excess
<1>3. CASE AppendSummary
  <2>1. CASE summaries' = Append(summaries, summary)
    <3>1. summaries' \in Seq(Summaries) /\ Len(summaries') = Len(summaries) + 1
      BY <1>0, <2>1 DEF LogTypeInv, SetTypes, FileTypes
    <3>2. Len(summaries') > Budget => (Len(summaries') - Budget) \in 1..Len(summaries')
      BY <3>1, LogAssumption
    <3>3. reader' \in {"archive", "commit"} => Len(summaries') > Budget
      BY <1>3, <2>1, <3>1 DEF AppendSummary
    <3>. QED BY <1>0, <1>3, <3>1, <3>2, <3>3 DEF AppendSummary, FileTypes, Surplus, Excess
  <2>2. CASE UNCHANGED summaries /\ reader' = "fallback"
    BY <1>0, <1>3, <2>2 DEF AppendSummary, FileTypes, Surplus
  <2>. QED BY <1>3, <2>1, <2>2 DEF AppendSummary
<1>4. CASE Archive
    BY <1>0, <1>4 DEF Archive, FileTypes, Surplus, Excess
<1>5. CASE CommitArchival
  <2>1. Excess \in 0..Len(summaries)
    BY <1>0, <1>5 DEF CommitArchival, Surplus
  <2>2. SubSeq(summaries, Excess + 1, Len(summaries)) \in Seq(Summaries)
    BY <1>0, <2>1, SplitSet DEF FileTypes
  <2>. QED BY <1>0, <1>5, <2>2 DEF CommitArchival, FileTypes, Surplus
<1>6. CASE WriteFallback \/ Answer \/ AnswerEmpty \/ Release \/ Restart
    BY <1>0, <1>6 DEF WriteFallback, Answer, AnswerEmpty, Release, Restart, FileTypes, Surplus
<1>7. CASE TakeTurn \/ Claim \/ Fresh \/ DropStale \/ Reopen \/ StampClaim \/ Store \/ Ask
    BY <1>0, <1>7 DEF TakeTurn, Claim, Fresh, DropStale, Reopen, StampClaim, Store, Ask,
                      FileTypes, Surplus, Excess
<1>8. CASE UNCHANGED logVars
    BY <1>0, <1>8 DEF logVars, FileTypes, Surplus, Excess
<1>. QED BY <1>1, <1>2, <1>3, <1>4, <1>5, <1>6, <1>7, <1>8 DEF LogNext, Writing, Reading

LEMMA NewTurnStep ==
    ASSUME NewTurn, [LogNext]_logVars
    PROVE  NewTurn'
<1> USE DEF NewTurn, writerVars
<1>1. CASE TakeTurn \/ AppendTurn \/ Cut
    BY <1>1 DEF TakeTurn, AppendTurn, Cut
<1>2. CASE Claim \/ Fresh \/ DropStale \/ Reopen \/ StampClaim \/ Store \/ Ask
    BY <1>2 DEF Claim, Fresh, DropStale, Reopen, StampClaim, Store, Ask
<1>3. CASE Answer \/ AnswerEmpty \/ Reading \/ Restart
    BY <1>3 DEF Answer, AnswerEmpty, Reading, AppendSummary, WriteFallback, Archive, CommitArchival,
                Release, Restart
<1>4. CASE UNCHANGED logVars
    BY <1>4 DEF logVars
<1>. QED BY <1>1, <1>2, <1>3, <1>4 DEF LogNext, Writing

LEMMA LogTypeStep ==
    ASSUME LogTypeInv, [LogNext]_logVars
    PROVE  LogTypeInv'
    BY NumberStep, StateStep, SetStep, FileStep, NewTurnStep DEF LogTypeInv

\* The log's variables have their types, and older summaries are archived only
\* while the file holds more than the budget, at least one of them and at most
\* all that are in the file.
THEOREM LogTypeCorrect == LogSpec => [](LogTypeOK /\ Surplus)
<1>1. LogTypeInv => LogTypeOK /\ Surplus
    BY DEF LogTypeInv, NumberTypes, StateTypes, FileTypes, SetTypes, LogTypeOK
<1>. QED BY <1>1, LogTypeInit, LogTypeStep, PTL DEF LogSpec

-----------------------------------------------------------------------------
(* Where the turns are.                                                    *)

InTail == ToSet(rawTail)
InHand == IF writer = "ask" THEN {} ELSE half
InPending == UNION pending
InSummary == UNION (ToSet(summaries) \cup archive \cup fallback)

Apart ==
    /\ InTail \cap InHand = {} /\ InTail \cap InPending = {}
    /\ InTail \cap summary = {} /\ InTail \cap InSummary = {}
    /\ InHand \cap InPending = {} /\ InHand \cap summary = {} /\ InHand \cap InSummary = {}
    /\ InPending \cap summary = {} /\ InPending \cap InSummary = {}
    /\ summary \cap InSummary = {}

Kept == InTail \cup InHand \cup InPending \cup summary \cup InSummary

\* What is nowhere is excused, and what is somewhere has been taken.
Accounted == 1..count \subseteq Kept \cup excused /\ Kept \subseteq 1..count

PendingApart == \A p, q \in pending : p # q => p \cap q = {}

\* The consumers' hands are empty unless they are about to put something down.
EmptyHands ==
    /\ writer \notin {"append", "store", "ask"} => half = {}
    /\ reader \notin {"append", "fallback"} => summary = {}

\* What leaves the summaries is in the archive.
Archived == reader = "commit" => ToSet(SubSeq(summaries, 1, Excess)) \subseteq archive

PlaceInv ==
    /\ Distinct(rawTail) /\ PendingApart /\ EmptyHands /\ Archived
    /\ Apart /\ Accounted

LEMMA PlaceInit == LogInit => PlaceInv
<1>. SUFFICES ASSUME LogInit PROVE PlaceInv
    OBVIOUS
<1>1. Distinct(rawTail) /\ PendingApart /\ EmptyHands /\ Archived
    BY DEF LogInit, Distinct, PendingApart, EmptyHands, Archived
<1>2. InTail = {} /\ InHand = {} /\ InPending = {} /\ InSummary = {} /\ summary = {}
    BY DEF LogInit, InTail, InHand, InPending, InSummary, ToSet
<1>3. 1..count = {}
    BY DEF LogInit
<1>. QED BY <1>1, <1>2, <1>3 DEF PlaceInv, Apart, Accounted, Kept

\* A step that touches none of the places.
LEMMA PlaceStutter ==
    ASSUME PlaceInv, Archived', EmptyHands',
           UNCHANGED <<count, rawTail, pending, summary, excused>>,
           InHand' = InHand, InSummary' = InSummary
    PROVE  PlaceInv'
<1>1. InTail' = InTail /\ InPending' = InPending /\ Distinct(rawTail)' /\ PendingApart'
    BY DEF InTail, InPending, PlaceInv, PendingApart
<1>. QED BY <1>1 DEF PlaceInv, Apart, Accounted, Kept

\* A step of the writer leaves the summaries alone.
LEMMA SummaryStutter ==
    ASSUME PlaceInv, UNCHANGED <<summaries, archive, fallback, reader>>
    PROVE  InSummary' = InSummary /\ Archived'
    BY DEF PlaceInv, Archived, InSummary, Excess

LEMMA TurnPlace ==
    ASSUME LogTypeInv, PlaceInv, TakeTurn \/ AppendTurn
    PROVE  PlaceInv'
<1> USE DEF fileVars, guardVars, readerVars, writerVars
<1>0. /\ EmptyHands /\ Apart /\ Accounted /\ Distinct(rawTail) /\ PendingApart
      /\ InSummary' = InSummary /\ Archived'
      /\ InPending' = InPending /\ PendingApart' /\ summary' = summary
  <2>1. UNCHANGED <<summaries, archive, fallback, reader, pending, summary>>
    BY DEF TakeTurn, AppendTurn
  <2>. QED BY <2>1, SummaryStutter DEF PlaceInv, InPending, PendingApart
<1>1. CASE TakeTurn
  <2>1. /\ count' = count + 1 /\ half' = {count'} /\ writer' = "append"
        /\ UNCHANGED <<rawTail, excused, reader>>
    BY <1>1 DEF TakeTurn
  <2>2. count \in Nat /\ count' \notin Kept
    BY <1>0, <2>1, LogAssumption DEF Accounted, LogTypeInv, NumberTypes
  <2>3. InTail' = InTail /\ InHand = {} /\ InHand' = {count'} /\ EmptyHands'
    BY <1>0, <1>1, <2>1 DEF TakeTurn, InTail, InHand, EmptyHands
  <2>4. Apart'
    BY <1>0, <2>2, <2>3 DEF Apart, Kept
  <2>5. 1..count' = 1..count \cup {count'}
    BY <2>1, <2>2
  <2>6. Accounted'
    BY <1>0, <2>1, <2>3, <2>5 DEF Accounted, Kept
  <2>. QED BY <1>0, <2>1, <2>4, <2>6, <2>3 DEF PlaceInv
<1>2. CASE AppendTurn
  <2>1. InHand = {count} /\ half = {count} /\ InHand' = {} /\ EmptyHands' /\ count' = count
    BY <1>0, <1>2 DEF AppendTurn, InHand, EmptyHands, LogTypeInv, NewTurn
  <2>2. CASE rawTail' = Append(rawTail, count) /\ UNCHANGED excused
    <3>1. count \in Turns /\ rawTail \in Seq(Turns)
      BY <2>1 DEF LogTypeInv, SetTypes, FileTypes, Summaries
    <3>2. InTail' = InTail \cup {count} /\ count \notin InTail
      BY <1>0, <2>1, <2>2, <3>1, AppendSet DEF InTail, Apart
    <3>3. Distinct(rawTail)'
      BY <1>0, <2>2, <3>1, <3>2, AppendDistinct DEF InTail
    <3>4. Apart' /\ Accounted'
      BY <1>0, <2>1, <2>2, <3>2 DEF Apart, Accounted, Kept
    <3>. QED BY <1>0, <2>1, <3>3, <3>4 DEF PlaceInv
  <2>3. CASE UNCHANGED rawTail /\ excused' = excused \cup half
    BY <1>0, <2>1, <2>3 DEF PlaceInv, Apart, Accounted, Kept, InTail, Distinct
  <2>. QED BY <1>2, <2>2, <2>3 DEF AppendTurn
<1>. QED BY <1>1, <1>2

LEMMA CutPlace ==
    ASSUME LogTypeInv, PlaceInv, Cut
    PROVE  PlaceInv'
<1> USE DEF fileVars, guardVars, readerVars, writerVars
<1>0. /\ EmptyHands /\ Apart /\ Accounted /\ Distinct(rawTail) /\ PendingApart
      /\ InSummary' = InSummary /\ Archived'
      /\ InPending' = InPending /\ PendingApart' /\ summary' = summary
      /\ UNCHANGED <<count, excused, reader>>
  <2>1. UNCHANGED <<summaries, archive, fallback, reader, pending, summary, count, excused>>
    BY DEF Cut
  <2>. QED BY <2>1, SummaryStutter DEF PlaceInv, InPending, PendingApart
<1>1. InHand = {} /\ half = {}
    BY <1>0 DEF Cut, InHand, EmptyHands
<1>2. CASE UNCHANGED <<rawTail, half>> /\ writer' = "rest"
    BY <1>0, <1>1, <1>2 DEF PlaceInv, Apart, Accounted, Kept, InTail, InHand, EmptyHands
<1>3. CASE /\ half' = ToSet(SubSeq(rawTail, 1, Older)) /\ writer' = "store"
           /\ rawTail' = SubSeq(rawTail, Older + 1, Len(rawTail))
  <2>1. rawTail \in Seq(Turns) /\ Older \in 0..Len(rawTail)
    BY OlderInTail DEF LogTypeInv, FileTypes
  <2>2. InTail = InHand' \cup InTail' /\ EmptyHands'
    BY <1>0, <1>3, <2>1, SplitSet DEF InTail, InHand, EmptyHands
  <2>3. InTail' \cap InHand' = {} /\ Distinct(rawTail)'
    BY <1>0, <1>3, <2>1, SplitDistinct DEF InTail, InHand
  <2>4. Apart' /\ Accounted'
    BY <1>0, <1>1, <2>2, <2>3 DEF Apart, Accounted, Kept
  <2>. QED BY <1>0, <2>2, <2>3, <2>4 DEF PlaceInv
<1>. QED BY <1>2, <1>3 DEF Cut

LEMMA PendPlace ==
    ASSUME LogTypeInv, PlaceInv, Store \/ DropStale
    PROVE  PlaceInv'
<1> USE DEF fileVars, guardVars, readerVars, writerVars
<1>0. /\ EmptyHands /\ Apart /\ Accounted /\ Distinct(rawTail)' /\ PendingApart
      /\ InSummary' = InSummary /\ Archived' /\ InTail' = InTail
      /\ UNCHANGED <<count, reader, summary, half>>
  <2>1. UNCHANGED <<summaries, archive, fallback, reader, rawTail, summary, count, half>>
    BY DEF Store, DropStale
  <2>. QED BY <2>1, SummaryStutter DEF PlaceInv, InTail
<1>1. CASE Store
  <2>1. /\ InHand = half /\ InHand' = {} /\ InPending' = InPending \cup half
        /\ pending' = pending \cup {half} /\ UNCHANGED excused
    BY <1>1 DEF Store, InHand, InPending
  <2>2. PendingApart'
    BY <1>0, <2>1 DEF PendingApart, Apart, InPending
  <2>3. Apart' /\ Accounted'
    BY <1>0, <2>1 DEF Apart, Accounted, Kept
  <2>4. EmptyHands'
    BY <1>0, <1>1 DEF Store, EmptyHands
  <2>. QED BY <1>0, <2>2, <2>3, <2>4 DEF PlaceInv
<1>2. CASE DropStale
  <2>1. /\ InHand' = InHand /\ InPending' = {} /\ pending' = {}
        /\ excused' = excused \cup InPending /\ EmptyHands'
    BY <1>0, <1>2 DEF DropStale, InHand, InPending, EmptyHands
  <2>2. PendingApart'
    BY <2>1 DEF PendingApart
  <2>3. Apart' /\ Accounted'
    BY <1>0, <2>1 DEF Apart, Accounted, Kept
  <2>. QED BY <1>0, <2>1, <2>2, <2>3 DEF PlaceInv
<1>. QED BY <1>1, <1>2

LEMMA ClaimPlace ==
    ASSUME PlaceInv, Claim \/ Fresh \/ Reopen \/ StampClaim \/ Ask
    PROVE  PlaceInv'
<1> USE DEF fileVars, guardVars, readerVars, writerVars
<1>1. UNCHANGED <<count, rawTail, summaries, archive, fallback, reader, pending, summary, excused>>
    BY DEF Claim, Fresh, Reopen, StampClaim, Ask
<1>2. EmptyHands' /\ InHand' = InHand
    BY DEF Claim, Fresh, Reopen, StampClaim, Ask, EmptyHands, InHand, PlaceInv
<1>. QED BY <1>1, <1>2, SummaryStutter, PlaceStutter

LEMMA AnswerPlace ==
    ASSUME LogTypeInv, PlaceInv, Answer \/ AnswerEmpty
    PROVE  PlaceInv'
<1> USE DEF fileVars, guardVars, readerVars, writerVars
<1>0. /\ EmptyHands /\ Apart /\ Accounted /\ Distinct(rawTail)' /\ PendingApart
      /\ InSummary' = InSummary /\ InTail' = InTail /\ InHand' = InHand
      /\ UNCHANGED <<count, half, writer>> /\ summary = {} /\ Archived'
  <2>1. UNCHANGED <<summaries, archive, fallback, writer, rawTail, count, half>>
    BY DEF Answer, AnswerEmpty
  <2>2. reader = "rest" /\ reader' # "commit"
    BY DEF Answer, AnswerEmpty
  <2>. QED BY <2>1, <2>2 DEF PlaceInv, InTail, InSummary, InHand, EmptyHands, Archived
<1>1. ASSUME NEW p \in pending, pending' = pending \ {p}
      PROVE  PendingApart' /\ p \cap InPending' = {} /\ InPending = p \cup InPending'
    BY <1>0, <1>1 DEF PendingApart, InPending
<1>2. CASE Answer
  <2>1. PICK p \in asked : /\ pending' = pending \ {p}
                           /\ IF p \in pending THEN reader' = "append" /\ summary' = p
                                                ELSE UNCHANGED <<reader, summary>>
    BY <1>2 DEF Answer
  <2>2. reader = "rest" /\ UNCHANGED excused
    BY <1>2 DEF Answer
  <2>3. CASE p \in pending
    <3>1. PendingApart' /\ p \cap InPending' = {} /\ InPending = p \cup InPending' /\ summary' = p
      BY <1>1, <2>1, <2>3
    <3>2. Apart' /\ Accounted'
      BY <1>0, <2>2, <3>1 DEF Apart, Accounted, Kept
    <3>3. EmptyHands'
      BY <1>0, <2>1, <2>3 DEF EmptyHands
    <3>. QED BY <1>0, <3>1, <3>2, <3>3 DEF PlaceInv
  <2>4. CASE p \notin pending
    <3>1. pending' = pending /\ UNCHANGED <<reader, summary>>
      BY <2>1, <2>4
    <3>. QED BY <1>0, <2>2, <3>1 DEF PlaceInv, Apart, Accounted, Kept, EmptyHands, PendingApart, InPending
  <2>. QED BY <2>3, <2>4
<1>3. CASE AnswerEmpty
  <2>1. PICK p \in asked \cap pending : pending' = pending \ {p} /\ excused' = excused \cup p
    BY <1>3 DEF AnswerEmpty
  <2>2. reader' = "release" /\ UNCHANGED summary
    BY <1>3 DEF AnswerEmpty
  <2>3. PendingApart' /\ p \cap InPending' = {} /\ InPending = p \cup InPending'
    BY <1>1, <2>1
  <2>4. Apart' /\ Accounted'
    BY <1>0, <2>1, <2>2, <2>3 DEF Apart, Accounted, Kept
  <2>5. EmptyHands'
    BY <1>0, <2>2 DEF EmptyHands
  <2>. QED BY <1>0, <2>3, <2>4, <2>5 DEF PlaceInv
<1>. QED BY <1>2, <1>3

LEMMA SummaryPlace ==
    ASSUME LogTypeInv, PlaceInv, Reading
    PROVE  PlaceInv'
<1> USE DEF fileVars, guardVars, readerVars, writerVars
<1>0. /\ EmptyHands /\ Apart /\ Accounted /\ Distinct(rawTail)' /\ PendingApart' /\ Archived
      /\ InPending' = InPending /\ InTail' = InTail /\ InHand' = InHand
      /\ UNCHANGED <<count, half, writer, rawTail, pending>>
      /\ summaries \in Seq(Summaries)
  <2>1. UNCHANGED <<pending, writer, rawTail, count, half>>
    BY DEF Reading, AppendSummary, WriteFallback, Archive, CommitArchival, Release
  <2>. QED BY <2>1 DEF PlaceInv, InTail, InPending, PendingApart, InHand, LogTypeInv, FileTypes
<1>1. CASE AppendSummary
  <2>1. reader = "append" /\ reader' # "commit" /\ UNCHANGED <<archive, fallback, excused>>
    BY <1>1 DEF AppendSummary
  <2>2. CASE summaries' = Append(summaries, summary) /\ summary' = {}
    <3>1. ToSet(summaries') = ToSet(summaries) \cup {summary}
      BY <1>0, <2>2, AppendSet DEF LogTypeInv, SetTypes
    <3>2. InSummary' = InSummary \cup summary
      BY <2>1, <3>1 DEF InSummary
    <3>3. Apart' /\ Accounted'
      BY <1>0, <2>1, <2>2, <3>2 DEF Apart, Accounted, Kept
    <3>4. EmptyHands' /\ Archived'
      BY <1>0, <2>1, <2>2 DEF EmptyHands, Archived
    <3>. QED BY <1>0, <3>3, <3>4 DEF PlaceInv
  <2>3. CASE reader' = "fallback" /\ UNCHANGED <<summaries, summary>>
    <3>1. InSummary' = InSummary /\ EmptyHands' /\ Archived'
      BY <1>0, <2>1, <2>3 DEF InSummary, EmptyHands, Archived
    <3>. QED BY <1>0, <2>1, <2>3, <3>1, PlaceStutter
  <2>. QED BY <1>1, <2>2, <2>3 DEF AppendSummary
<1>5. CASE WriteFallback
  <2>1. summary' = {} /\ reader' = "release" /\ UNCHANGED <<summaries, archive>>
    BY <1>5 DEF WriteFallback
  <2>2. EmptyHands' /\ Archived'
    BY <1>0, <2>1 DEF EmptyHands, Archived
  <2>3. CASE fallback' = fallback \cup {summary} /\ UNCHANGED excused
    <3>1. InSummary' = InSummary \cup summary
      BY <2>1, <2>3 DEF InSummary
    <3>2. Apart' /\ Accounted'
      BY <1>0, <2>1, <2>3, <3>1 DEF Apart, Accounted, Kept
    <3>. QED BY <1>0, <2>2, <3>2 DEF PlaceInv
  <2>4. CASE excused' = excused \cup summary /\ UNCHANGED fallback
    <3>1. InSummary' = InSummary
      BY <2>1, <2>4 DEF InSummary
    <3>2. Apart' /\ Accounted'
      BY <1>0, <2>1, <2>4, <3>1 DEF Apart, Accounted, Kept
    <3>. QED BY <1>0, <2>2, <3>2 DEF PlaceInv
  <2>. QED BY <1>5, <2>3, <2>4 DEF WriteFallback
<1>2. CASE Archive
  <2>1. UNCHANGED <<summaries, fallback, summary>> /\ reader = "archive" /\ reader' \notin {"append", "fallback"}
        /\ UNCHANGED excused
    BY <1>2 DEF Archive
  <2>2. CASE archive' = archive \cup ToSet(SubSeq(summaries, 1, Excess))
    <3>1. Excess \in 0..Len(summaries)
      BY <2>1 DEF LogTypeInv, Surplus
    <3>2. ToSet(SubSeq(summaries, 1, Excess)) \subseteq ToSet(summaries)
      BY <1>0, <3>1, SplitSet
    <3>3. InSummary' = InSummary
      BY <2>1, <2>2, <3>2 DEF InSummary
    <3>4. EmptyHands' /\ Archived'
      BY <1>0, <2>1, <2>2 DEF EmptyHands, Archived, Excess
    <3>. QED BY <1>0, <2>1, <3>3, <3>4, PlaceStutter
  <2>3. CASE UNCHANGED archive /\ reader' = "release"
    <3>1. InSummary' = InSummary /\ EmptyHands' /\ Archived'
      BY <1>0, <2>1, <2>3 DEF InSummary, EmptyHands, Archived
    <3>. QED BY <1>0, <2>1, <3>1, PlaceStutter
  <2>. QED BY <1>2, <2>2, <2>3 DEF Archive
<1>3. CASE CommitArchival
  <2>1. UNCHANGED <<archive, fallback, summary, excused>> /\ reader = "commit" /\ reader' = "release"
    BY <1>3 DEF CommitArchival
  <2>2. EmptyHands' /\ Archived'
    BY <1>0, <2>1 DEF EmptyHands, Archived
  <2>3. InSummary' = InSummary
    <3>1. CASE UNCHANGED summaries
      BY <2>1, <3>1 DEF InSummary
    <3>2. CASE summaries' = SubSeq(summaries, Excess + 1, Len(summaries))
      <4>1. Excess \in 0..Len(summaries)
        BY <2>1 DEF LogTypeInv, Surplus
      <4>2. ToSet(summaries) = ToSet(SubSeq(summaries, 1, Excess)) \cup ToSet(summaries')
        BY <1>0, <3>2, <4>1, SplitSet
      <4>3. ToSet(SubSeq(summaries, 1, Excess)) \subseteq archive
        BY <1>0, <2>1 DEF Archived
      <4>4. ToSet(summaries) \cup archive = ToSet(summaries') \cup archive
        BY <4>2, <4>3
      <4>. QED BY <2>1, <4>4 DEF InSummary
    <3>. QED BY <1>3, <3>1, <3>2 DEF CommitArchival
  <2>. QED BY <1>0, <2>1, <2>2, <2>3, PlaceStutter
<1>4. CASE Release
  <2>1. UNCHANGED <<summaries, archive, fallback, summary, excused>> /\ reader' \in {"unstamp", "rest"}
        /\ reader \in {"release", "unstamp"}
    BY <1>4 DEF Release
  <2>2. InSummary' = InSummary /\ EmptyHands' /\ Archived'
    BY <1>0, <2>1 DEF InSummary, EmptyHands, Archived
  <2>. QED BY <1>0, <2>1, <2>2, PlaceStutter
<1>. QED BY <1>1, <1>2, <1>3, <1>4, <1>5 DEF Reading

LEMMA RestartPlace ==
    ASSUME LogTypeInv, PlaceInv, Restart
    PROVE  PlaceInv'
<1>1. /\ UNCHANGED <<rawTail, summaries, archive, fallback, count>>
      /\ writer' = "rest" /\ reader' = "rest" /\ half' = {} /\ summary' = {} /\ pending' = {}
      /\ excused' = excused \cup half \cup summary \cup InPending
    BY DEF Restart, fileVars, InPending
<1>2. /\ Distinct(rawTail)' /\ PendingApart' /\ EmptyHands' /\ Archived'
      /\ InTail' = InTail /\ InSummary' = InSummary /\ InHand' = {} /\ InPending' = {}
    BY <1>1 DEF PlaceInv, PendingApart, EmptyHands, Archived, InTail, InSummary, InHand, InPending
<1>3. InHand \subseteq half
    BY DEF InHand
<1>4. Apart' /\ Accounted'
    BY <1>1, <1>2, <1>3 DEF PlaceInv, Apart, Accounted, Kept
<1>. QED BY <1>2, <1>4 DEF PlaceInv

LEMMA PlaceStep ==
    ASSUME LogTypeInv, PlaceInv, [LogNext]_logVars
    PROVE  PlaceInv'
<1>1. CASE UNCHANGED logVars
  <2>1. UNCHANGED <<count, rawTail, summaries, archive, fallback, writer, half, reader, pending,
                    summary, excused>>
    BY <1>1 DEF logVars, fileVars, writerVars, readerVars
  <2>2. EmptyHands' /\ InHand' = InHand
    BY <2>1 DEF PlaceInv, EmptyHands, InHand
  <2>. QED BY <2>1, <2>2, SummaryStutter, PlaceStutter
<1>2. CASE LogNext
    BY <1>2, TurnPlace, CutPlace, PendPlace, ClaimPlace, AnswerPlace, SummaryPlace, RestartPlace
       DEF LogNext, Writing
<1>. QED BY <1>1, <1>2

LEMMA PlaceMeansKept ==
    ASSUME LogTypeInv, PlaceInv
    PROVE  TurnKept
<1>. SUFFICES ASSUME NEW t \in 1..count
              PROVE  Cardinality(Places(t)) <= 1 /\ (Places(t) = {} => t \in excused)
    BY DEF TurnKept
<1>1. /\ "tail" \in Places(t) <=> t \in InTail
      /\ "writer" \in Places(t) <=> t \in InHand
      /\ "pending" \in Places(t) <=> t \in InPending
      /\ "reader" \in Places(t) <=> t \in summary
      /\ "summary" \in Places(t) <=> t \in InSummary
      /\ Places(t) \subseteq {"tail", "writer", "pending", "reader", "summary"}
    BY DEF Places, InTail, InHand, InPending, InSummary
<1>2. ASSUME NEW p \in Places(t), NEW q \in Places(t) PROVE p = q
    BY <1>1, <1>2 DEF PlaceInv, Apart
<1>3. Cardinality(Places(t)) <= 1
  <2>1. CASE Places(t) = {}
    BY <2>1, FS_EmptySet
  <2>2. CASE Places(t) # {}
    <3>1. PICK p : p \in Places(t)
      BY <2>2
    <3>2. Places(t) = {p}
      BY <1>2, <3>1
    <3>. QED BY <3>2, FS_Singleton
  <2>. QED BY <2>1, <2>2
<1>4. Places(t) = {} => t \in excused
    BY <1>1 DEF PlaceInv, Accounted, Kept
<1>. QED BY <1>3, <1>4

\* A turn is in one place, through compaction, archival, failing writes, stale
\* compactions, late replies and crashes between any two steps; in none only if
\* a fault or a stale compaction has cost it.
THEOREM TurnsAreKept == LogSpec => []TurnKept
<1>1. LogInit => LogTypeInv /\ PlaceInv
    BY LogTypeInit, PlaceInit
<1>2. LogTypeInv /\ PlaceInv /\ [LogNext]_logVars => LogTypeInv' /\ PlaceInv'
    BY LogTypeStep, PlaceStep
<1>3. LogTypeInv /\ PlaceInv => TurnKept
    BY PlaceMeansKept
<1>. QED BY <1>1, <1>2, <1>3, PTL DEF LogSpec

-----------------------------------------------------------------------------
(* The guard of a compaction.                                              *)

\* Who is at work on a compaction: the consumer of turns, the AI, or the
\* consumer of replies.
Cutting == writer \in {"stamp", "cut", "store"}
Waiting == pending # {}
Answering == reader \in {"append", "fallback", "archive", "commit", "release"}

OnePending == \A p, q \in pending : p = q

\* Until a compaction is found stale, the guard is held by one of them alone.
ClaimInv ==
    stale = 0 =>
        /\ writer \notin {"reopen", "unstamp"}
        /\ Cutting \/ Waiting \/ Answering => inFlight
        /\ ~(Cutting /\ Waiting) /\ ~(Cutting /\ Answering) /\ ~(Waiting /\ Answering)
        /\ OnePending

LEMMA ClaimStep ==
    ASSUME LogTypeInv, ClaimInv, [LogNext]_logVars
    PROVE  ClaimInv'
<1>. SUFFICES ASSUME stale' = 0
              PROVE  /\ writer' \notin {"reopen", "unstamp"}
                     /\ Cutting' \/ Waiting' \/ Answering' => inFlight'
                     /\ ~(Cutting' /\ Waiting') /\ ~(Cutting' /\ Answering')
                     /\ ~(Waiting' /\ Answering')
                     /\ OnePending'
    BY DEF ClaimInv
<1> USE DEF guardVars, readerVars, writerVars, Cutting, Waiting, Answering, OnePending
<1>0. stale \in Nat
    BY LogAssumption DEF LogTypeInv, NumberTypes
<1>1. CASE TakeTurn \/ AppendTurn
    BY <1>1 DEF TakeTurn, AppendTurn, ClaimInv
<1>2. CASE Claim \/ Fresh \/ StampClaim
    BY <1>2 DEF Claim, Fresh, StampClaim, ClaimInv
<1>3. CASE DropStale \/ Reopen
    BY <1>0, <1>3 DEF DropStale, Reopen, ClaimInv
<1>4. CASE Cut
    BY <1>4 DEF Cut, ClaimInv
<1>5. CASE Store \/ Ask
    BY <1>5 DEF Store, Ask, ClaimInv
<1>6. CASE Answer
  <2>1. PICK p \in asked : /\ pending' = pending \ {p}
                           /\ IF p \in pending THEN reader' = "append" /\ summary' = p
                                                ELSE UNCHANGED <<reader, summary>>
    BY <1>6 DEF Answer
  <2>. QED BY <1>6, <2>1 DEF Answer, ClaimInv
<1>7. CASE AnswerEmpty
  <2>1. PICK p \in asked \cap pending : pending' = pending \ {p}
    BY <1>7 DEF AnswerEmpty
  <2>. QED BY <1>7, <2>1 DEF AnswerEmpty, ClaimInv
<1>8. CASE AppendSummary \/ WriteFallback \/ Archive \/ CommitArchival
    BY <1>8 DEF AppendSummary, WriteFallback, Archive, CommitArchival, ClaimInv
<1>9. CASE Release
    BY <1>9 DEF Release, ClaimInv
<1>10. CASE Restart
    BY <1>10 DEF Restart, ClaimInv
<1>11. CASE UNCHANGED logVars
    BY <1>11 DEF logVars, ClaimInv
<1>. QED BY <1>1, <1>2, <1>3, <1>4, <1>5, <1>6, <1>7, <1>8, <1>9, <1>10, <1>11
         DEF LogNext, Writing, Reading

\* As long as none has been found stale, at most one compaction is in flight,
\* though the guard is let go by one consumer and taken by the other.
THEOREM CompactsOneAtATime == LogSpec => []OneCompaction
<1>1. LogInit => LogTypeInv /\ ClaimInv
    BY LogTypeInit DEF LogInit, ClaimInv, Cutting, Waiting, Answering, OnePending
<1>2. LogTypeInv /\ ClaimInv /\ [LogNext]_logVars => LogTypeInv' /\ ClaimInv'
    BY LogTypeStep, ClaimStep
<1>3. ClaimInv => OneCompaction
  <2>. SUFFICES ASSUME ClaimInv, stale = 0
                PROVE  Cardinality(pending) + (IF reader \in {"append", "fallback"} THEN 1 ELSE 0) <= 1
      BY DEF OneCompaction
  <2>1. CASE pending = {}
    <3>1. Cardinality(pending) = 0
      BY <2>1, FS_EmptySet
    <3>. QED BY <3>1
  <2>2. CASE pending # {}
    <3>1. PICK p : p \in pending
      BY <2>2
    <3>2. pending = {p}
      BY <3>1 DEF ClaimInv, OnePending
    <3>3. Cardinality(pending) = 1
      BY <3>2, FS_Singleton
    <3>4. reader \notin {"append", "fallback"}
      BY <2>2 DEF ClaimInv, Waiting, Answering
    <3>. QED BY <3>3, <3>4
  <2>. QED BY <2>1, <2>2
<1>. QED BY <1>1, <1>2, <1>3, PTL DEF LogSpec

ClearingType == [Callers -> {"idle", "lock", "output", "bypass"}]

\* A detachment under way is within the bound.
Counted == lifecycle = "schedule" => detaches < MaxDetaches

ConvTypeInv == ConvTypeOK /\ Counted

LEMMA ClearingGoes ==
    ASSUME ConvTypeOK, NEW c \in Callers, NEW s \in {"idle", "lock", "output", "bypass"}
    PROVE  [clearing EXCEPT ![c] = s] \in ClearingType
    BY DEF ConvTypeOK, ClearingType

LEMMA AgedType ==
    ASSUME NEW age \in Ages \cup {Absent}
    PROVE  /\ Aged(age) \in Ages \cup {Absent}
           /\ age \in Ages => Aged(age) \in Ages
           /\ age = Absent => Aged(age) = Absent
    BY ConversationAssumption DEF Aged, Ages, Absent

LEMMA ClearType ==
    ASSUME ConvTypeInv, Clearing \/ Fire
    PROVE  ConvTypeInv'
<1>0. ConvTypeOK /\ Counted
    BY DEF ConvTypeInv
<1> USE DEF rateVars, timerVars, pipeVars, sinceVars
<1>1. ASSUME NEW c \in Callers, ClearLocked(c) PROVE ConvTypeInv'
  <2>1. /\ clearing' = [clearing EXCEPT ![c] = "output"] /\ cached' = FALSE
        /\ detach' = 0 /\ armed' \subseteq armed
        /\ UNCHANGED <<rateVars, detaches, lifecycle, session, pipeVars, down, used, sinceVars>>
    BY <1>1 DEF ClearLocked, DropTimer
  <2>2. clearing' \in ClearingType
    BY <1>0, <2>1, ClearingGoes
  <2>3. detach' \in Timers \cup {0} /\ armed' \subseteq Timers
    BY <1>0, <2>1 DEF ConvTypeOK
  <2>4. Counted'
    BY <1>0, <2>1 DEF Counted
  <2>5. ConvTypeOK'
    BY <1>0, <2>1, <2>2, <2>3 DEF ConvTypeOK, ClearingType
  <2>. QED BY <2>4, <2>5 DEF ConvTypeInv
<1>2. ASSUME NEW c \in Callers, ClearOutput(c) PROVE ConvTypeInv'
    BY <1>0, <1>2, ClearingGoes DEF ClearOutput, ConvTypeInv, Counted, ConvTypeOK, ClearingType
<1>3. ASSUME NEW c \in Callers, ClearBypass(c) PROVE ConvTypeInv'
    BY <1>0, <1>3, ClearingGoes DEF ClearBypass, ConvTypeInv, Counted, ConvTypeOK, ClearingType
<1>4. CASE Fire
  <2>1. PICK t \in armed : /\ armed' = armed \ {t}
                           /\ clearing' = IF down THEN clearing
                                                  ELSE [clearing EXCEPT ![t] = "lock"]
    BY <1>4 DEF Fire
  <2>2. t \in Callers
    BY <1>0 DEF ConvTypeOK, Callers
  <2>3. clearing' \in ClearingType
    BY <1>0, <2>1, <2>2, ClearingGoes DEF ConvTypeOK, ClearingType
  <2>. QED BY <1>0, <1>4, <2>1, <2>3 DEF Fire, ConvTypeInv, Counted, ConvTypeOK, ClearingType
<1>. QED BY <1>1, <1>2, <1>3, <1>4 DEF Clearing

LEMMA EventType ==
    ASSUME ConvTypeInv, Stopped \/ Detached \/ Schedule \/ Attached \/ ToolEvent
    PROVE  ConvTypeInv'
<1> USE DEF rateVars, timerVars, pipeVars, sinceVars
<1>0. ConvTypeOK /\ Counted /\ 0 \in Callers
    BY DEF ConvTypeInv, Callers
<1>1. CASE Stopped
  <2>1. clearing' \in ClearingType
    BY <1>0, <1>1, ClearingGoes DEF Stopped
  <2>. QED BY <1>0, <1>1, <2>1 DEF Stopped, Receives, ConvTypeInv, Counted, ConvTypeOK, ClearingType
<1>2. CASE Detached
    BY <1>0, <1>2 DEF Detached, Receives, ConvTypeInv, Counted, ConvTypeOK
<1>3. CASE Schedule
  <2>1. detaches' \in 0..MaxDetaches /\ detaches' \in Timers
    BY <1>0, <1>3, ConversationAssumption DEF Schedule, Counted, ConvTypeOK, Timers
  <2>. QED BY <1>0, <1>3, <2>1 DEF Schedule, ConvTypeInv, Counted, ConvTypeOK
<1>4. CASE Attached
    BY <1>0, <1>4 DEF Attached, Receives, DropTimer, ConvTypeInv, Counted, ConvTypeOK
<1>5. CASE ToolEvent
    BY <1>0, <1>5 DEF ToolEvent, ConvTypeInv, Counted, ConvTypeOK
<1>. QED BY <1>1, <1>2, <1>3, <1>4, <1>5

LEMMA MessageType ==
    ASSUME ConvTypeInv, Messages
    PROVE  ConvTypeInv'
<1> USE DEF rateVars, timerVars, pipeVars, sinceVars
<1>0. ConvTypeOK /\ Counted /\ 0 \in Ages
    BY ConversationAssumption DEF ConvTypeInv, Ages
<1>1. CASE Message
    BY <1>0, <1>1 DEF Message, ConvTypeInv, Counted, ConvTypeOK
<1>2. CASE CancelCleanup
    BY <1>0, <1>2 DEF CancelCleanup, DropTimer, ConvTypeInv, Counted, ConvTypeOK
<1>3. CASE Check
    BY <1>0, <1>3 DEF Check, ConvTypeInv, Counted, ConvTypeOK
<1>4. CASE StoreBypass
    BY <1>0, <1>4 DEF StoreBypass, ConvTypeInv, Counted, ConvTypeOK
<1>5. CASE StoreOutput
    BY <1>0, <1>5 DEF StoreOutput, ConvTypeInv, Counted, ConvTypeOK
<1>6. CASE Publish
    BY <1>0, <1>6 DEF Publish, ConvTypeInv, Counted, ConvTypeOK, MessageKinds
<1>7. CASE Reply
    BY <1>0, <1>7 DEF Reply, DropTimer, ConvTypeInv, Counted, ConvTypeOK
<1>. QED BY <1>1, <1>2, <1>3, <1>4, <1>5, <1>6, <1>7 DEF Messages

LEMMA TickType ==
    ASSUME ConvTypeInv, Tick
    PROVE  ConvTypeInv'
<1> USE DEF rateVars, timerVars, pipeVars, sinceVars
<1>0. ConvTypeOK /\ Counted
    BY DEF ConvTypeInv
<1>1. lastOutput' \in Ages \cup {Absent} /\ lastBypass' \in Ages \cup {Absent}
    BY <1>0, AgedType DEF Tick, ConvTypeOK
<1>2. now' \in Ages /\ sincePrompt' \in Ages /\ sinceWaiting' \in Ages
    BY <1>0, AgedType DEF Tick, ConvTypeOK
<1>. QED BY <1>0, <1>1, <1>2 DEF Tick, ConvTypeInv, Counted, ConvTypeOK

LEMMA ConvTypeStep ==
    ASSUME ConvTypeInv, [ConvNext]_convVars
    PROVE  ConvTypeInv'
<1>1. CASE ConvNext
  <2>1. CASE Shutdown
    BY <2>1 DEF Shutdown, rateVars, timerVars, pipeVars, sinceVars, ConvTypeInv, Counted, ConvTypeOK
  <2>. QED BY <1>1, <2>1, ClearType, EventType, MessageType, TickType DEF ConvNext
<1>2. CASE UNCHANGED convVars
    BY <1>2 DEF convVars, rateVars, timerVars, pipeVars, sinceVars, ConvTypeInv, Counted, ConvTypeOK
<1>. QED BY <1>1, <1>2

LEMMA ConvTypeInit == ConvInit => ConvTypeInv
<1> HAVE ConvInit
<1>1. 0 \in Ages /\ OutputInterval \in Ages /\ 0 \in 0..MaxDetaches
    BY ConversationAssumption DEF Ages
<1>. QED BY <1>1 DEF ConvInit, ConvTypeInv, Counted, ConvTypeOK, MessageKinds

LEMMA ConvTyped == ConvSpec => []ConvTypeOK
<1>1. ConvTypeInv => ConvTypeOK
    BY DEF ConvTypeInv
<1>. QED BY ConvTypeInit, ConvTypeStep, <1>1, PTL DEF ConvSpec

-----------------------------------------------------------------------------
(* The rate limits.                                                        *)

\* A message that bypasses the limit is about a waiting session, and the time
\* that the consumer has taken is that of the prompt it is about to make.
PipeInv ==
    /\ pipe = "check" => kind \in {"notable", "waiting"}
    /\ pipe \in {"bypass", "output"} => now = sincePrompt
    /\ pipe = "bypass" => now = sinceWaiting

\* Between a prompt and the entry about it nobody looks at the entry.
OutputInv ==
    "output" \notin forgotten /\ pipe \notin {"bypass", "output"} =>
        /\ lastOutput = Absent => sincePrompt = OutputInterval
        /\ lastOutput # Absent => sincePrompt >= lastOutput

BypassInv ==
    "bypass" \notin forgotten /\ pipe # "bypass" =>
        /\ lastBypass = Absent => sinceWaiting = OutputInterval
        /\ lastBypass # Absent => sinceWaiting >= lastBypass

AgeInv == PipeInv /\ OutputInv /\ BypassInv

AgeVars == <<rateVars, pipeVars, sinceVars>>

LEMMA AgeStutter ==
    ASSUME AgeInv, UNCHANGED AgeVars
    PROVE  AgeInv'
    BY DEF AgeVars, rateVars, pipeVars, sinceVars, AgeInv, PipeInv, OutputInv, BypassInv

LEMMA AgeClear ==
    ASSUME AgeInv, Clearing
    PROVE  AgeInv'
<1> USE DEF AgeVars, pipeVars, timerVars
<1>1. ASSUME NEW c \in Callers, ClearLocked(c) PROVE AgeInv'
    BY <1>1, AgeStutter DEF ClearLocked
<1>2. ASSUME NEW c \in Callers, ClearOutput(c) PROVE AgeInv'
    BY <1>2 DEF ClearOutput, AgeInv, PipeInv, OutputInv, BypassInv
<1>3. ASSUME NEW c \in Callers, ClearBypass(c) PROVE AgeInv'
    BY <1>3 DEF ClearBypass, AgeInv, PipeInv, OutputInv, BypassInv
<1>. QED BY <1>1, <1>2, <1>3 DEF Clearing

LEMMA AgeMessage ==
    ASSUME ConvTypeOK, AgeInv, Messages
    PROVE  AgeInv'
<1> USE DEF AgeVars, rateVars, timerVars, pipeVars, sinceVars
<1>1. CASE Message
    BY <1>1 DEF Message, AgeInv, PipeInv, OutputInv, BypassInv
<1>2. CASE CancelCleanup
    BY <1>2 DEF CancelCleanup, AgeInv, PipeInv, OutputInv, BypassInv
<1>3. CASE Check
    BY <1>3 DEF Check, AgeInv, PipeInv, OutputInv, BypassInv
<1>4. CASE StoreBypass
    BY <1>4 DEF StoreBypass, AgeInv, PipeInv, OutputInv, BypassInv, ConvTypeOK, Ages, Absent
<1>5. CASE StoreOutput
    BY <1>5 DEF StoreOutput, AgeInv, PipeInv, OutputInv, BypassInv, ConvTypeOK, Ages, Absent
<1>6. CASE Publish
    BY <1>6 DEF Publish, AgeInv, PipeInv, OutputInv, BypassInv
<1>7. CASE Reply
    BY <1>7, AgeStutter DEF Reply
<1>. QED BY <1>1, <1>2, <1>3, <1>4, <1>5, <1>6, <1>7 DEF Messages

LEMMA AgedOrder ==
    ASSUME NEW a \in Ages, NEW b \in Ages, a >= b
    PROVE  Aged(a) >= Aged(b)
    BY ConversationAssumption DEF Aged, Ages

LEMMA AgedLast == Aged(OutputInterval) = OutputInterval
    BY ConversationAssumption DEF Aged

LEMMA AgeTick ==
    ASSUME ConvTypeOK, AgeInv, Tick
    PROVE  AgeInv'
<1>1. /\ lastOutput' = Aged(lastOutput) /\ lastBypass' = Aged(lastBypass)
      /\ now' = IF pipe \in {"bypass", "output"} THEN Aged(now) ELSE now
      /\ sincePrompt' = Aged(sincePrompt) /\ sinceWaiting' = Aged(sinceWaiting)
      /\ pipe' = pipe /\ kind' = kind /\ forgotten' = forgotten
    BY DEF Tick
<1>2. /\ lastOutput \in Ages \cup {Absent} /\ lastBypass \in Ages \cup {Absent}
      /\ sincePrompt \in Ages /\ sinceWaiting \in Ages
    BY DEF ConvTypeOK
<1>3. PipeInv'
    BY <1>1 DEF AgeInv, PipeInv
<1>4. Absent \notin Ages /\ \A age \in Ages : Aged(age) \in Ages
    BY AgedType DEF Ages, Absent
<1>5. OutputInv'
  <2>1. CASE lastOutput = Absent
    BY <1>1, <1>4, <2>1, AgedType, AgedLast DEF AgeInv, OutputInv
  <2>2. CASE lastOutput # Absent
    BY <1>1, <1>2, <1>4, <2>2, AgedOrder DEF AgeInv, OutputInv
  <2>. QED BY <2>1, <2>2
<1>6. BypassInv'
  <2>1. CASE lastBypass = Absent
    BY <1>1, <1>4, <2>1, AgedType, AgedLast DEF AgeInv, BypassInv
  <2>2. CASE lastBypass # Absent
    BY <1>1, <1>2, <1>4, <2>2, AgedOrder DEF AgeInv, BypassInv
  <2>. QED BY <2>1, <2>2
<1>. QED BY <1>3, <1>5, <1>6 DEF AgeInv

LEMMA AgeStep ==
    ASSUME ConvTypeOK, AgeInv, [ConvNext]_convVars
    PROVE  AgeInv'
<1>1. CASE ConvNext
  <2>1. CASE Fire \/ Stopped \/ Detached \/ Schedule \/ Attached \/ ToolEvent \/ Shutdown
    <3>1. UNCHANGED AgeVars
        BY <2>1 DEF AgeVars, Fire, Stopped, Detached, Schedule, Attached, ToolEvent, Shutdown
    <3>. QED BY <3>1, AgeStutter
  <2>. QED BY <1>1, <2>1, AgeClear, AgeMessage, AgeTick DEF ConvNext
<1>2. CASE UNCHANGED convVars
    BY <1>2, AgeStutter DEF convVars, AgeVars
<1>. QED BY <1>1, <1>2

LEMMA AgeInit == ConvInit => AgeInv
    BY DEF ConvInit, AgeInv, PipeInv, OutputInv, BypassInv

\* Output becomes a prompt no more often than the two intervals allow, for
\* whatever intervals, as long as the session has not been cleared.
THEOREM PromptsAreLimited == ConvSpec => RateLimited
<1> DEFINE WithinLimit ==
        Check /\ Allowed =>
          IF kind = "notable" THEN sincePrompt >= OutputInterval \/ "output" \in forgotten
                              ELSE sinceWaiting >= BypassInterval \/ "bypass" \in forgotten
<1>1. ASSUME ConvTypeOK, AgeInv, [ConvNext]_convVars PROVE [WithinLimit]_convVars
  <2>1. SUFFICES ASSUME Check, Allowed
                 PROVE  IF kind = "notable"
                        THEN sincePrompt >= OutputInterval \/ "output" \in forgotten
                        ELSE sinceWaiting >= BypassInterval \/ "bypass" \in forgotten
        OBVIOUS
  <2>2. pipe = "check"
    BY <2>1 DEF Check
  <2>3. /\ lastOutput \in Ages \cup {Absent} /\ lastBypass \in Ages \cup {Absent}
        /\ sincePrompt \in Ages /\ sinceWaiting \in Ages
    BY <1>1 DEF ConvTypeOK
  <2>4. CASE kind = "notable"
    <3>1. lastOutput \in {Absent, OutputInterval}
        BY <2>1, <2>3, <2>4, ConversationAssumption DEF Allowed, Ages
    <3>. QED BY <1>1, <2>2, <2>3, <2>4, <3>1, ConversationAssumption
             DEF AgeInv, OutputInv, Ages
  <2>5. CASE kind # "notable"
    <3>1. lastBypass = Absent \/ (lastBypass \in Ages /\ lastBypass >= BypassInterval)
        BY <2>1, <2>3, <2>5, ConversationAssumption DEF Allowed, Ages
    <3>. QED BY <1>1, <2>2, <2>3, <2>5, <3>1, ConversationAssumption
             DEF AgeInv, BypassInv, Ages, Absent
  <2>. QED BY <2>4, <2>5
<1>. QED BY <1>1, ConvTyped, AgeInit, AgeStep, PTL DEF ConvSpec, RateLimited

-----------------------------------------------------------------------------
(* What is left of a session.                                              *)

\* A message under way uses the session; the consumer of lifecycle events
\* clears nothing but upon a stopped one; a timer in the map will fire, has
\* been waiting for the lock since it fired, or found the service shut down.
TimerInv ==
    /\ ~used => pipe = "rest"
    /\ clearing[0] # "idle" => lifecycle = "clear"
    /\ detach # 0 => detach \in armed \/ clearing[detach] = "lock" \/ down

\* What an unused session has left somebody is about to remove.
LeftInv ==
    session # "live" /\ ~used =>
        /\ cached => clearing[0] = "lock"
        /\ lastOutput # Absent /\ ~down =>
              \/ armed # {} \/ lifecycle = "schedule"
              \/ \E c \in Callers : clearing[c] \in {"lock", "output"}
        /\ lastBypass # Absent /\ ~down =>
              \/ armed # {} \/ lifecycle = "schedule"
              \/ \E c \in Callers : clearing[c] \in {"lock", "output", "bypass"}

LEMMA TimerStep ==
    ASSUME ConvTypeOK, TimerInv, [ConvNext]_convVars
    PROVE  TimerInv'
<1> USE DEF rateVars, timerVars, pipeVars, sinceVars
<1>0. /\ clearing \in [Callers -> {"idle", "lock", "output", "bypass"}]
      /\ 0 \in Callers /\ 0 \notin Timers
      /\ detach \in Timers \cup {0} /\ armed \subseteq Timers /\ detaches \in 0..MaxDetaches
    BY DEF ConvTypeOK, Callers, Timers
<1>1. ASSUME NEW c \in Callers, ClearLocked(c) PROVE TimerInv'
    BY <1>0, <1>1 DEF ClearLocked, DropTimer, TimerInv
<1>2. ASSUME NEW c \in Callers, ClearOutput(c) PROVE TimerInv'
    BY <1>0, <1>2 DEF ClearOutput, TimerInv
<1>10. ASSUME NEW c \in Callers, ClearBypass(c) PROVE TimerInv'
    BY <1>0, <1>10 DEF ClearBypass, TimerInv
<1>3. CASE Fire
  <2>1. PICK t \in armed : /\ armed' = armed \ {t}
                           /\ clearing' = IF down THEN clearing
                                                  ELSE [clearing EXCEPT ![t] = "lock"]
    BY <1>3 DEF Fire
  <2>2. t \in Callers
    BY <1>0 DEF Callers
  <2>. QED BY <1>0, <1>3, <2>1, <2>2 DEF Fire, TimerInv
<1>4. CASE Stopped
  <2>1. /\ clearing' = [clearing EXCEPT ![0] = "lock"] /\ lifecycle' = "clear"
        /\ detach' = detach /\ armed' = armed /\ down' = down
        /\ ~used' => pipe' = "rest"
    BY <1>4 DEF Stopped, Receives
  <2>. QED BY <1>0, <2>1 DEF Callers, TimerInv
<1>5. CASE Detached
    BY <1>5 DEF Detached, Receives, TimerInv
<1>6. CASE Schedule
    BY <1>6 DEF Schedule, TimerInv
<1>7. CASE Attached
    BY <1>7 DEF Attached, Receives, DropTimer, TimerInv
<1>8. CASE ToolEvent \/ Tick \/ Shutdown \/ UNCHANGED convVars
    BY <1>8 DEF ToolEvent, Tick, Shutdown, convVars, TimerInv
<1>9. CASE Messages
    BY <1>9 DEF Messages, Message, CancelCleanup, Check, StoreBypass, StoreOutput, Publish, Reply,
                DropTimer, TimerInv
<1>. QED BY <1>1, <1>2, <1>3, <1>4, <1>5, <1>6, <1>7, <1>8, <1>9, <1>10 DEF ConvNext, Clearing

\* The state of the service has its type; and the timer that the map holds for
\* the session will fire, has fired and waits for the lock, or the service is
\* shut down: no timer is left in the map that nothing will take out.
THEOREM ConvTypeCorrect == ConvSpec => [](ConvTypeOK /\ TimerInv)
<1>1. ConvInit => TimerInv
    BY DEF ConvInit, TimerInv, Callers
<1>. QED BY <1>1, ConvTyped, TimerStep, PTL DEF ConvSpec

LEMMA LeftClear ==
    ASSUME ConvTypeOK, TimerInv, LeftInv, Clearing \/ Fire
    PROVE  LeftInv'
<1> USE DEF rateVars, timerVars, pipeVars, sinceVars
<1>0. clearing \in [Callers -> {"idle", "lock", "output", "bypass"}] /\ armed \subseteq Timers
    BY DEF ConvTypeOK
<1>1. ASSUME NEW c \in Callers, ClearLocked(c) PROVE LeftInv'
  <2>1. clearing'[c] = "output" /\ cached' = FALSE
    BY <1>0, <1>1 DEF ClearLocked
  <2>. QED BY <2>1 DEF LeftInv
<1>2. ASSUME NEW c \in Callers, ClearOutput(c) PROVE LeftInv'
  <2>1. /\ clearing'[c] = "bypass" /\ lastOutput' = Absent /\ clearing[c] = "output"
        /\ \A d \in Callers \ {c} : clearing'[d] = clearing[d]
    BY <1>0, <1>2 DEF ClearOutput
  <2>2. 0 \in Callers
    BY DEF Callers
  <2>. QED BY <1>2, <2>1, <2>2 DEF ClearOutput, LeftInv
<1>3. ASSUME NEW c \in Callers, ClearBypass(c) PROVE LeftInv'
  <2>1. /\ lastBypass' = Absent /\ clearing[c] = "bypass"
        /\ \A d \in Callers \ {c} : clearing'[d] = clearing[d]
    BY <1>0, <1>3 DEF ClearBypass
  <2>2. 0 \in Callers
    BY DEF Callers
  <2>3. lifecycle = "schedule" => lifecycle' = "schedule"
    BY <1>3, <2>1 DEF ClearBypass, TimerInv
  <2>. QED BY <1>3, <2>1, <2>2, <2>3 DEF ClearBypass, LeftInv
<1>4. CASE Fire
  <2>1. PICK t \in armed : /\ armed' = armed \ {t}
                           /\ clearing' = IF down THEN clearing
                                                  ELSE [clearing EXCEPT ![t] = "lock"]
    BY <1>4 DEF Fire
  <2>2. t \in Callers /\ 0 \in Callers /\ 0 \notin Timers
    BY <1>0 DEF Callers, Timers
  <2>. QED BY <1>0, <1>4, <2>1, <2>2 DEF Fire, LeftInv
<1>. QED BY <1>1, <1>2, <1>3, <1>4 DEF Clearing

LEMMA LeftEvent ==
    ASSUME ConvTypeOK, TimerInv, LeftInv,
           Stopped \/ Detached \/ Schedule \/ Attached \/ ToolEvent
    PROVE  LeftInv'
<1> USE DEF rateVars, timerVars, pipeVars, sinceVars
<1>0. clearing \in [Callers -> {"idle", "lock", "output", "bypass"}] /\ 0 \in Callers
    BY DEF ConvTypeOK, Callers
<1>1. CASE Stopped
  <2>1. clearing'[0] = "lock"
    BY <1>0, <1>1 DEF Stopped
  <2>. QED BY <1>0, <2>1 DEF LeftInv
<1>2. CASE Detached
  <2>1. lifecycle' = "schedule" /\ cached' = FALSE
    BY <1>2 DEF Detached
  <2>. QED BY <2>1 DEF LeftInv
<1>3. CASE Schedule
  <2>1. armed' # {} /\ clearing' = clearing /\ cached' = cached
    BY <1>3 DEF Schedule
  <2>2. session' = session /\ used' = used
    BY <1>3 DEF Schedule
  <2>. QED BY <2>1, <2>2 DEF LeftInv
<1>4. CASE Attached
    BY <1>4 DEF Attached, Receives, LeftInv
<1>5. CASE ToolEvent
    BY <1>5 DEF ToolEvent, LeftInv
<1>. QED BY <1>1, <1>2, <1>3, <1>4, <1>5

LEMMA LeftStep ==
    ASSUME ConvTypeOK, TimerInv, LeftInv, [ConvNext]_convVars
    PROVE  LeftInv'
<1> USE DEF rateVars, timerVars, pipeVars, sinceVars
<1>1. CASE Messages
  <2>1. used'
    BY <1>1 DEF Messages, Message, CancelCleanup, Check, StoreBypass, StoreOutput, Publish, Reply,
                TimerInv
  <2>. QED BY <2>1 DEF LeftInv
<1>2. CASE Tick
  <2>1. /\ lastOutput = Absent => lastOutput' = Absent
        /\ lastBypass = Absent => lastBypass' = Absent
    BY <1>2, AgedType DEF Tick
  <2>. QED BY <1>2, <2>1 DEF Tick, LeftInv
<1>3. CASE Shutdown
    BY <1>3 DEF Shutdown, LeftInv
<1>4. CASE UNCHANGED convVars
    BY <1>4 DEF convVars, LeftInv
<1>. QED BY <1>1, <1>2, <1>3, <1>4, LeftClear, LeftEvent DEF ConvNext

LEMMA LeftInit == ConvInit => TimerInv /\ LeftInv
    BY DEF ConvInit, TimerInv, LeftInv, Callers

\* Of a session that is gone and unused nothing is kept, for any number of
\* detachments and timers.
THEOREM NothingIsKept == ConvSpec => []NothingKept
<1>1. ConvTypeOK /\ TimerInv /\ LeftInv => NothingKept
  <2>1. SUFFICES ASSUME ConvTypeOK, TimerInv, LeftInv,
                        session # "live", ~used, ~down, lifecycle = "rest", armed = {},
                        \A c \in Callers : clearing[c] = "idle"
                 PROVE  ~cached /\ lastOutput = Absent /\ lastBypass = Absent /\ detach = 0
    BY DEF NothingKept
  <2>2. 0 \in Callers /\ (detach # 0 => detach \in Callers)
    BY <2>1 DEF ConvTypeOK, Callers
  <2>. QED BY <2>1, <2>2 DEF TimerInv, LeftInv
<1>. QED BY <1>1, ConvTyped, LeftInit, TimerStep, LeftStep, PTL DEF ConvSpec

LEMMA OutputBounds ==
    /\ HistorySize \in Nat /\ HistorySize > 0 /\ ChangeCap \in Nat /\ MaxOutputs \in Nat
    /\ NoTool \notin Tools
    /\ "recorder" \notin Viewers /\ "handler" \notin Viewers /\ "bus" \notin Viewers
    BY OutputAssumption

LEMMA SinkNames ==
    /\ "recorder" \in Keepers /\ "bus" \in Keepers /\ "handler" \in Sinks
    /\ "handler" \notin Keepers /\ Viewers \subseteq Keepers /\ Keepers \subseteq Sinks
    BY OutputBounds DEF Keepers, Sinks

LEMMA AppendElements ==
    ASSUME NEW S, NEW s \in Seq(S), NEW x \in S
    PROVE  /\ Append(s, x) \in Seq(S) /\ Len(s) \in Nat /\ Len(Append(s, x)) = Len(s) + 1
           /\ \A i \in 1..Len(s) : Append(s, x)[i] = s[i]
           /\ Append(s, x)[Len(s) + 1] = x
    OBVIOUS

LEMMA ConcatElements ==
    ASSUME NEW S, NEW u \in Seq(S), NEW v \in Seq(S)
    PROVE  /\ u \o v \in Seq(S) /\ Len(u \o v) = Len(u) + Len(v)
           /\ \A i \in 1..(Len(u) + Len(v)) :
                  (u \o v)[i] = IF i <= Len(u) THEN u[i] ELSE v[i - Len(u)]
    OBVIOUS

LEMMA RemoveElements ==
    ASSUME NEW S, NEW s \in Seq(S), NEW p \in 1..Len(s)
    PROVE  /\ RemoveAt(s, p) \in Seq(S) /\ Len(RemoveAt(s, p)) = Len(s) - 1
           /\ \A i \in 1..(Len(s) - 1) :
                  RemoveAt(s, p)[i] = IF i < p THEN s[i] ELSE s[i + 1]
<1> DEFINE u == SubSeq(s, 1, p - 1)
           v == SubSeq(s, p + 1, Len(s))
<1>0. Len(s) \in Nat
    OBVIOUS
<1>1. u \in Seq(S) /\ Len(u) = p - 1 /\ \A i \in 1..(p - 1) : u[i] = s[i]
    BY <1>0
<1>2. v \in Seq(S) /\ Len(v) = Len(s) - p /\ \A i \in 1..(Len(s) - p) : v[i] = s[p + i]
    BY <1>0
<1>3. RemoveAt(s, p) = u \o v
    BY DEF RemoveAt
<1> HIDE DEF u, v
<1>4. /\ u \o v \in Seq(S) /\ Len(u \o v) = Len(u) + Len(v)
      /\ \A i \in 1..(Len(u) + Len(v)) :
             (u \o v)[i] = IF i <= Len(u) THEN u[i] ELSE v[i - Len(u)]
    BY <1>1, <1>2, ConcatElements
<1>5. ASSUME NEW i \in 1..(Len(s) - 1)
      PROVE  (u \o v)[i] = IF i < p THEN s[i] ELSE s[i + 1]
  <2>1. CASE i < p
    BY <1>0, <1>1, <1>2, <1>4, <2>1
  <2>2. CASE ~(i < p)
    <3>1. i - (p - 1) \in 1..(Len(s) - p) /\ p + (i - (p - 1)) = i + 1
      BY <1>0, <2>2
    <3>2. (u \o v)[i] = v[i - (p - 1)]
      BY <1>0, <1>1, <1>2, <1>4, <2>2
    <3>. QED BY <1>2, <2>2, <3>1, <3>2
  <2>. QED BY <2>1, <2>2
<1>. QED BY <1>0, <1>1, <1>2, <1>3, <1>4, <1>5

-----------------------------------------------------------------------------
(* Types.                                                                  *)

CaptureTypes ==
    /\ outputs \in 0..MaxOutputs
    /\ capturing \in {"read", "store", "sinks", "turns", "emit", "over"}
    /\ outputSinks \in Seq(Sinks)
    /\ turn \in 0..Len(outputSinks)
    /\ turn # 0 <=> capturing = "turns"

SeqTypes == taken \in [Keepers -> Seq(Chunks)] /\ replay \in [Viewers -> Seq(Chunks)]

EndTypes ==
    /\ ptyShut \in BOOLEAN /\ eventsShut \in BOOLEAN
    /\ exitSent \in BOOLEAN /\ recorderOpen \in BOOLEAN
    /\ setup \in {"recorder", "handler", "bus", "monitor", "stored"}
    /\ monitoring \in {"none", "wait", "notify", "end"}
    /\ kill \in {"none", "notify", "end"}

ViewTypes ==
    /\ viewer \in [Viewers -> {"away", "history", "add", "serve", "gone"}]
    /\ linked \in [Viewers -> BOOLEAN]

JoinTypes == joined \in [Sinks -> 0..MaxOutputs]

ToolTypes ==
    /\ detected \in AnyTool
    /\ eventChan \in Seq(Tools) /\ changeChan \in Seq(Changes)
    /\ hand \in Seq(Changes)
    /\ announced \in [tool : AnyTool, icon : AnyTool]

OutputFlags ==
    /\ chansShut \in BOOLEAN /\ overran \in BOOLEAN /\ panicked \in BOOLEAN
    /\ detector \in {"none", "first", "change", "tell", "end"}

\* The histories that were sent, and all that the sinks took, had been read.
UpTo(chunks, n) == \A i \in 1..Len(chunks) : chunks[i] <= n
ReadBefore ==
    /\ \A s \in Keepers : UpTo(taken[s], outputs)
    /\ \A v \in Viewers : UpTo(replay[v], outputs)

\* A chunk that is being handled has been read; an announced event is at hand.
Busy == capturing \in {"store", "sinks", "turns"} => outputs > 0
AtHand == detector = "tell" => Len(hand) = 1

OutputTypeInv ==
    /\ CaptureTypes /\ SeqTypes /\ EndTypes /\ ViewTypes /\ JoinTypes
    /\ ToolTypes /\ OutputFlags /\ Busy /\ AtHand

LEMMA TypesImply == OutputTypeInv => OutputTypeOK
    BY DEF OutputTypeInv, OutputTypeOK, CaptureTypes, SeqTypes, EndTypes, ViewTypes,
       JoinTypes, ToolTypes, OutputFlags

LEMMA OutputTypeInit == OutputInit => OutputTypeInv
<1>. SUFFICES ASSUME OutputInit PROVE OutputTypeInv
    OBVIOUS
<1>0. <<>> \in Seq(Sinks) /\ Len(<<>>) = 0
    OBVIOUS
<1>1. CaptureTypes /\ Busy
    BY <1>0, OutputBounds DEF OutputInit, CaptureTypes, Busy
<1>2. SeqTypes
    BY DEF OutputInit, SeqTypes
<1>3. EndTypes
    BY DEF OutputInit, EndTypes
<1>4. ViewTypes
    BY DEF OutputInit, ViewTypes
<1>5. JoinTypes
    BY OutputBounds DEF OutputInit, JoinTypes
<1>6. OutputFlags /\ AtHand
    BY DEF OutputInit, OutputFlags, AtHand
<1>7. ToolTypes
    BY DEF OutputInit, ToolTypes, AnyTool
<1>. QED BY <1>1, <1>2, <1>3, <1>4, <1>5, <1>6, <1>7 DEF OutputTypeInv

LEMMA WriteType ==
    ASSUME CaptureTypes, Busy, NEW s \in Sinks, WriteTo(s), outputSinks' = outputSinks
    PROVE  CaptureTypes' /\ Busy' /\ outputs \in Chunks
<1>1. Len(outputSinks) \in Nat /\ turn \in 1..Len(outputSinks) /\ capturing = "turns"
    BY DEF CaptureTypes, WriteTo
<1>. QED BY <1>1, OutputBounds DEF CaptureTypes, Busy, WriteTo, Chunks

LEMMA ListType ==
    ASSUME CaptureTypes, Busy, NEW s \in Sinks, AddSink(s), UNCHANGED captureVars
    PROVE  CaptureTypes' /\ Busy'
<1>1. outputSinks' \in Seq(Sinks) /\ Len(outputSinks') \in Nat
    BY AppendElements DEF CaptureTypes, AddSink
<1>2. turn = 0
    BY DEF AddSink, SinksFree
<1>. QED BY <1>1, <1>2 DEF CaptureTypes, Busy, captureVars

LEMMA CaptureStep ==
    ASSUME CaptureTypes, Busy, [OutputNext]_outputVars
    PROVE  CaptureTypes' /\ Busy'
<1> USE DEF sinkVars
<1>0. "recorder" \in Sinks /\ "bus" \in Sinks /\ "handler" \in Sinks /\ Viewers \subseteq Sinks
    BY SinkNames
<1>1. CASE CapRead
    BY <1>1, OutputBounds DEF CapRead, CaptureTypes, Busy
<1>2. CASE CapStore
    BY <1>2 DEF CapStore, CaptureTypes, Busy
<1>3. CASE CapLock
  <2>1. Len(outputSinks) \in Nat /\ (outputSinks # <<>> => Len(outputSinks) > 0)
    BY DEF CaptureTypes
  <2>. QED BY <1>3, <2>1 DEF CapLock, CaptureTypes, Busy
<1>4. CASE CapEof \/ CapEmit
    BY <1>4 DEF CapEof, CapEmit, CaptureTypes, Busy
<1>5. CASE WriteRecorder \/ WriteBus \/ WriteHandler
    BY <1>0, <1>5, WriteType DEF WriteRecorder, WriteBus, WriteHandler
<1>6. ASSUME NEW v \in Viewers, WriteViewer(v) PROVE CaptureTypes' /\ Busy'
    BY <1>0, <1>6, WriteType DEF WriteViewer
<1>7. CASE SettingUp
  <2>1. UNCHANGED captureVars
    BY <1>7 DEF SettingUp, SetupRecording, SetupToolHandler, SetupEventBusSink, StartMonitor
  <2>2. (\E s \in Sinks : AddSink(s)) \/ UNCHANGED outputSinks
    BY <1>0, <1>7 DEF SettingUp, SetupRecording, SetupToolHandler, SetupEventBusSink, StartMonitor
  <2>. QED BY <2>1, <2>2, ListType DEF CaptureTypes, Busy, captureVars
<1>8. CASE Ending \/ Detecting
    BY <1>8 DEF Ending, Detecting, MonitorTakes, MonitorEnds, StopDetection, MonitorNotifies,
       KillStops, KillNotifies, DetectorFirst, DetectorChange, DetectorTell, captureVars,
       CaptureTypes, Busy
<1>9. ASSUME NEW v \in Viewers, Viewing(v) PROVE CaptureTypes' /\ Busy'
  <2>1. CASE ReadHistory(v) \/ SendHistory(v)
    BY <2>1 DEF ReadHistory, SendHistory, captureVars, CaptureTypes, Busy
  <2>2. CASE JoinSinks(v)
    BY <1>0, <2>2, ListType DEF JoinSinks
  <2>3. CASE RemoveSink(v)
    <3>1. PICK p \in 1..Len(outputSinks) : outputSinks' = RemoveAt(outputSinks, p)
      BY <2>3 DEF RemoveSink, Unlist
    <3>2. outputSinks' \in Seq(Sinks) /\ Len(outputSinks') \in Nat
      BY <3>1, RemoveElements DEF CaptureTypes
    <3>3. turn = 0 /\ UNCHANGED <<outputs, capturing, turn>>
      BY <2>3 DEF RemoveSink, SinksFree, captureVars
    <3>. QED BY <3>2, <3>3 DEF CaptureTypes, Busy
  <2>. QED BY <1>9, <2>1, <2>2, <2>3 DEF Viewing
<1>10. CASE UNCHANGED outputVars
    BY <1>10 DEF outputVars, captureVars, CaptureTypes, Busy
<1>. QED BY <1>1, <1>2, <1>3, <1>4, <1>5, <1>6, <1>7, <1>8, <1>9, <1>10
         DEF OutputNext, Capturing

LEMMA WindowElements ==
    ASSUME CaptureTypes, Busy
    PROVE  /\ Stored \in Nat /\ Stored <= outputs /\ Window \in Seq(Chunks)
           /\ Len(Window) \in Nat
           /\ Len(Window) > 0 => Window[Len(Window)] = Stored
           /\ Window = <<>> => Stored = 0
           /\ UpTo(Window, outputs)
<1> DEFINE n == IF Stored < HistorySize THEN Stored ELSE HistorySize
           k == IF Stored < HistorySize THEN 0 ELSE Stored - HistorySize
<1>1. Stored \in Nat /\ Stored <= outputs /\ outputs \in Nat /\ outputs <= MaxOutputs
    BY OutputBounds DEF CaptureTypes, Busy, Stored
<1>2. n \in Nat /\ k \in Nat /\ n + k = Stored /\ (n = 0 => Stored = 0)
    BY <1>1, OutputBounds
<1>3. Window = [i \in 1..n |-> k + i]
    BY DEF Window
<1> HIDE DEF n, k
<1>4. \A i \in 1..n : k + i \in Chunks
    BY <1>1, <1>2, OutputBounds DEF Chunks
<1>5. Window \in Seq(Chunks) /\ Len(Window) = n
    BY <1>2, <1>3, <1>4
<1>6. n > 0 => Window[n] = Stored
    BY <1>2, <1>3
<1>7. Window = <<>> => n = 0
    BY <1>5
<1>8. UpTo(Window, outputs)
    BY <1>1, <1>2, <1>3, <1>5 DEF UpTo
<1>. QED BY <1>1, <1>2, <1>5, <1>6, <1>7, <1>8

LEMMA AcceptType ==
    ASSUME CaptureTypes, Busy, SeqTypes, NEW s \in Keepers, WriteTo(s), Accept(s),
           outputSinks' = outputSinks, UNCHANGED replay
    PROVE  SeqTypes'
<1>1. outputs \in Chunks
    BY WriteType, SinkNames
<1>2. Append(taken[s], outputs) \in Seq(Chunks)
    BY <1>1, AppendElements DEF SeqTypes
<1>. QED BY <1>2, ExceptType DEF SeqTypes, Accept

LEMMA SeqStep ==
    ASSUME CaptureTypes, Busy, SeqTypes, [OutputNext]_outputVars
    PROVE  SeqTypes'
<1> USE DEF sinkVars, viewVars
<1>0. "recorder" \in Keepers /\ "bus" \in Keepers /\ Viewers \subseteq Keepers
    BY SinkNames
<1>1. CASE CapRead \/ CapStore \/ CapLock \/ CapEof \/ CapEmit \/ WriteHandler
    BY <1>1 DEF CapRead, CapStore, CapLock, CapEof, CapEmit, WriteHandler, SeqTypes
<1>2. CASE WriteRecorder \/ WriteBus
    BY <1>0, <1>2, AcceptType DEF WriteRecorder, WriteBus, SeqTypes
<1>3. ASSUME NEW v \in Viewers, WriteViewer(v) PROVE SeqTypes'
    BY <1>0, <1>3, AcceptType DEF WriteViewer, SeqTypes
<1>4. CASE SettingUp
    BY <1>4 DEF SettingUp, SetupRecording, SetupToolHandler, SetupEventBusSink, StartMonitor,
       SeqTypes
<1>5. CASE Ending \/ Detecting
    BY <1>5 DEF Ending, Detecting, MonitorTakes, MonitorEnds, StopDetection, MonitorNotifies,
       KillStops, KillNotifies, DetectorFirst, DetectorChange, DetectorTell, SeqTypes
<1>6. ASSUME NEW v \in Viewers, Viewing(v) PROVE SeqTypes'
  <2>0. <<>> \in Seq(Chunks)
    OBVIOUS
  <2>1. CASE ReadHistory(v)
    <3>1. PICK h \in {Window, <<>>} : replay' = [replay EXCEPT ![v] = h]
      BY <2>1 DEF ReadHistory
    <3>2. h \in Seq(Chunks)
      BY <2>0, WindowElements
    <3>3. UNCHANGED taken
      BY <2>1 DEF ReadHistory
    <3>. QED BY <3>1, <3>2, <3>3, ExceptType DEF SeqTypes
  <2>2. ASSUME Forget(v) PROVE SeqTypes'
    BY <1>0, <2>0, <2>2, ExceptType DEF Forget, SeqTypes
  <2>3. CASE SendHistory(v)
    <3>1. CASE Forget(v)
      BY <2>2, <3>1
    <3>2. CASE taken' = [taken EXCEPT ![v] = replay[v]] /\ UNCHANGED replay
      BY <1>0, <3>2, ExceptType DEF SeqTypes
    <3>. QED BY <2>3, <3>1, <3>2 DEF SendHistory
  <2>4. CASE JoinSinks(v)
    BY <2>4 DEF JoinSinks, SeqTypes
  <2>5. CASE RemoveSink(v)
    BY <2>2, <2>5 DEF RemoveSink
  <2>. QED BY <1>6, <2>1, <2>3, <2>4, <2>5 DEF Viewing
<1>7. CASE UNCHANGED outputVars
    BY <1>7 DEF outputVars, SeqTypes
<1>. QED BY <1>1, <1>2, <1>3, <1>4, <1>5, <1>6, <1>7 DEF OutputNext, Capturing

LEMMA EndStep ==
    ASSUME EndTypes, [OutputNext]_outputVars
    PROVE  EndTypes'
<1>1. CASE CapEmit
    BY <1>1 DEF CapEmit, EndTypes
<1>2. CASE CapRead \/ CapStore \/ CapLock \/ CapEof \/ WriteRecorder \/ WriteBus \/ WriteHandler
    BY <1>2 DEF CapRead, CapStore, CapLock, CapEof, WriteRecorder, WriteBus, WriteHandler,
       endVars, EndTypes
<1>3. ASSUME NEW v \in Viewers, WriteViewer(v) PROVE EndTypes'
    BY <1>3 DEF WriteViewer, endVars, EndTypes
<1>4. CASE SettingUp
    BY <1>4 DEF SettingUp, SetupRecording, SetupToolHandler, SetupEventBusSink, StartMonitor,
       endVars, EndTypes
<1>5. CASE Ending
    BY <1>5 DEF Ending, MonitorTakes, MonitorEnds, StopDetection, MonitorNotifies,
       KillStops, KillNotifies, EndTypes
<1>6. CASE Detecting
    BY <1>6 DEF Detecting, DetectorFirst, DetectorChange, DetectorTell, endVars, EndTypes
<1>7. ASSUME NEW v \in Viewers, Viewing(v) PROVE EndTypes'
    BY <1>7 DEF Viewing, ReadHistory, SendHistory, JoinSinks, RemoveSink, endVars, EndTypes
<1>8. CASE UNCHANGED outputVars
    BY <1>8 DEF outputVars, endVars, EndTypes
<1>. QED BY <1>1, <1>2, <1>3, <1>4, <1>5, <1>6, <1>7, <1>8 DEF OutputNext, Capturing

LEMMA ViewStep ==
    ASSUME ViewTypes, [OutputNext]_outputVars
    PROVE  ViewTypes'
<1> USE DEF sinkVars, viewVars
<1>1. CASE \/ CapRead \/ CapStore \/ CapLock \/ CapEof \/ CapEmit
           \/ WriteRecorder \/ WriteBus \/ WriteHandler
    BY <1>1 DEF CapRead, CapStore, CapLock, CapEof, CapEmit, WriteRecorder, WriteBus,
       WriteHandler, ViewTypes
<1>2. ASSUME NEW v \in Viewers, WriteViewer(v) PROVE ViewTypes'
    BY <1>2, ExceptType DEF WriteViewer, ViewTypes
<1>3. CASE SettingUp
    BY <1>3 DEF SettingUp, SetupRecording, SetupToolHandler, SetupEventBusSink, StartMonitor,
       ViewTypes
<1>4. CASE Ending \/ Detecting
    BY <1>4 DEF Ending, Detecting, MonitorTakes, MonitorEnds, StopDetection, MonitorNotifies,
       KillStops, KillNotifies, DetectorFirst, DetectorChange, DetectorTell, ViewTypes
<1>5. ASSUME NEW v \in Viewers, Viewing(v) PROVE ViewTypes'
  <2> DEFINE ToolPlaces == {"away", "history", "add", "serve", "gone"}
  <2>1. \E w \in ToolPlaces : viewer' = [viewer EXCEPT ![v] = w]
    BY <1>5 DEF Viewing, ReadHistory, SendHistory, JoinSinks, RemoveSink, Forget
  <2>2. viewer' \in [Viewers -> ToolPlaces]
    BY <2>1, ExceptType DEF ViewTypes
  <2>3. UNCHANGED linked \/ linked' = [linked EXCEPT ![v] = TRUE]
    BY <1>5 DEF Viewing, ReadHistory, SendHistory, JoinSinks, RemoveSink, Forget
  <2>4. linked' \in [Viewers -> BOOLEAN]
    BY <2>3, ExceptType DEF ViewTypes
  <2>. QED BY <2>2, <2>4 DEF ViewTypes
<1>6. CASE UNCHANGED outputVars
    BY <1>6 DEF outputVars, ViewTypes
<1>. QED BY <1>1, <1>2, <1>3, <1>4, <1>5, <1>6 DEF OutputNext, Capturing

LEMMA JoinStep ==
    ASSUME CaptureTypes, JoinTypes, [OutputNext]_outputVars
    PROVE  JoinTypes'
<1> USE DEF sinkVars
<1>0. /\ "recorder" \in Sinks /\ "bus" \in Sinks /\ "handler" \in Sinks /\ Viewers \subseteq Sinks
      /\ outputs \in 0..MaxOutputs /\ 0 \in 0..MaxOutputs
    BY SinkNames, OutputBounds DEF CaptureTypes
<1>1. CASE Capturing
    BY <1>1 DEF Capturing, CapRead, CapStore, CapLock, CapEof, CapEmit, WriteRecorder, WriteBus,
       WriteHandler, WriteViewer, JoinTypes
<1>2. ASSUME NEW s \in Sinks, AddSink(s) PROVE JoinTypes'
    BY <1>0, <1>2, ExceptType DEF AddSink, JoinTypes
<1>3. CASE SettingUp
    BY <1>0, <1>2, <1>3 DEF SettingUp, SetupRecording, SetupToolHandler, SetupEventBusSink,
       StartMonitor, JoinTypes
<1>4. CASE Ending \/ Detecting
    BY <1>4 DEF Ending, Detecting, MonitorTakes, MonitorEnds, StopDetection, MonitorNotifies,
       KillStops, KillNotifies, DetectorFirst, DetectorChange, DetectorTell, JoinTypes
<1>5. ASSUME NEW v \in Viewers, Viewing(v) PROVE JoinTypes'
  <2>1. AddSink(v) \/ UNCHANGED joined \/ joined' = [joined EXCEPT ![v] = 0]
    BY <1>5 DEF Viewing, ReadHistory, SendHistory, JoinSinks, RemoveSink, Forget
  <2>. QED BY <1>0, <1>2, <2>1, ExceptType DEF JoinTypes
<1>6. CASE UNCHANGED outputVars
    BY <1>6 DEF outputVars, JoinTypes
<1>. QED BY <1>1, <1>3, <1>4, <1>5, <1>6 DEF OutputNext

\* The steps that concern no tool.
Toolless == UNCHANGED <<toolVars, detectVars>>

LEMMA ToollessStep ==
    ASSUME [OutputNext]_outputVars
    PROVE  \/ Toolless
           \/ WriteHandler /\ UNCHANGED detectVars
           \/ SetupToolHandler
           \/ MonitorTakes
           \/ Detecting
<1>1. CASE Capturing
    BY <1>1 DEF Capturing, CapRead, CapStore, CapLock, CapEof, CapEmit, WriteRecorder, WriteBus,
       WriteHandler, WriteViewer, Toolless
<1>2. CASE SettingUp
    BY <1>2 DEF SettingUp, SetupRecording, SetupEventBusSink, StartMonitor, Toolless
<1>3. CASE Ending
    BY <1>3 DEF Ending, MonitorEnds, MonitorNotifies, KillStops, KillNotifies, Toolless
<1>4. ASSUME NEW v \in Viewers, Viewing(v) PROVE Toolless
    BY <1>4 DEF Viewing, ReadHistory, SendHistory, JoinSinks, RemoveSink, Toolless
<1>5. CASE UNCHANGED outputVars
    BY <1>5 DEF outputVars, Toolless
<1>. QED BY <1>1, <1>2, <1>3, <1>4, <1>5 DEF OutputNext

LEMMA OutputFlagStep ==
    ASSUME OutputFlags, [OutputNext]_outputVars
    PROVE  OutputFlags'
<1>1. CASE Toolless
    BY <1>1 DEF Toolless, toolVars, detectVars, OutputFlags
<1>2. CASE WriteHandler /\ UNCHANGED detectVars
    BY <1>2 DEF WriteHandler, Detect, toolVars, detectVars, OutputFlags
<1>3. CASE SetupToolHandler
    BY <1>3 DEF SetupToolHandler, toolVars, OutputFlags
<1>4. CASE MonitorTakes
    BY <1>4 DEF MonitorTakes, StopDetection, detectVars, OutputFlags
<1>5. CASE Detecting
    BY <1>5 DEF Detecting, DetectorFirst, DetectorChange, DetectorTell, toolVars, OutputFlags
<1>. QED BY <1>1, <1>2, <1>3, <1>4, <1>5, ToollessStep

LEMMA TailElements ==
    ASSUME NEW S, NEW s \in Seq(S), s # <<>>
    PROVE  /\ Head(s) = s[1] /\ s[1] \in S /\ Tail(s) \in Seq(S)
           /\ Len(s) \in Nat /\ Len(s) > 0 /\ Len(Tail(s)) = Len(s) - 1
           /\ \A i \in 1..(Len(s) - 1) : Tail(s)[i] = s[i + 1]
    OBVIOUS

LEMMA SingleElement ==
    ASSUME NEW S, NEW x \in S
    PROVE  <<x>> \in Seq(S) /\ Len(<<x>>) = 1 /\ <<x>>[1] = x /\ <<x>> # <<>>
    OBVIOUS

LEMMA ChangeRecords ==
    /\ \A a \in AnyTool, t \in Tools : [previous |-> a, new |-> t] \in Changes
    /\ \A c \in Changes : c.previous \in AnyTool /\ c.new \in Tools
    /\ Tools \subseteq AnyTool /\ NoTool \in AnyTool
    BY DEF Changes, AnyTool

\* One observation of the handler: what it puts into which channel.
LEMMA DetectType ==
    ASSUME ToolTypes, NEW t \in Tools, Detect(t), UNCHANGED detectVars
    PROVE  ToolTypes'
<1>1. <<t>> \in Seq(Tools)
    BY SingleElement
<1>2. eventChan' \in Seq(Tools)
    BY <1>1 DEF Detect, ToolTypes
<1>3. [previous |-> detected, new |-> t] \in Changes
    BY ChangeRecords DEF ToolTypes
<1>4. Append(changeChan, [previous |-> detected, new |-> t]) \in Seq(Changes)
    BY <1>3, AppendElements DEF ToolTypes
<1>5. changeChan' \in Seq(Changes)
    BY <1>4 DEF Detect, ToolTypes
<1>. QED BY <1>2, <1>5, ChangeRecords DEF Detect, ToolTypes, detectVars

LEMMA ToolStep ==
    ASSUME ToolTypes, AtHand, [OutputNext]_outputVars
    PROVE  ToolTypes' /\ AtHand'
<1>1. CASE Toolless
    BY <1>1 DEF Toolless, toolVars, detectVars, ToolTypes, AtHand
<1>2. CASE WriteHandler /\ UNCHANGED detectVars
  <2>1. UNCHANGED <<detector, hand>>
    BY <1>2 DEF detectVars
  <2>2. ASSUME NEW t \in Tools, Detect(t) PROVE ToolTypes'
    BY <1>2, <2>2, DetectType
  <2>3. CASE UNCHANGED toolVars
    BY <1>2, <2>3 DEF toolVars, detectVars, ToolTypes, AtHand
  <2>. QED BY <1>2, <2>1, <2>2, <2>3 DEF WriteHandler, AtHand
<1>3. CASE SetupToolHandler
    BY <1>3 DEF SetupToolHandler, toolVars, ToolTypes, AtHand
<1>4. CASE MonitorTakes
    BY <1>4 DEF MonitorTakes, StopDetection, detectVars, ToolTypes, AtHand
<1>5. CASE DetectorFirst
  <2>1. CASE eventChan # <<>>
    <3>1. Head(eventChan) \in Tools /\ Tail(eventChan) \in Seq(Tools)
      BY <2>1, TailElements DEF ToolTypes
    <3>2. [previous |-> NoTool, new |-> Head(eventChan)] \in Changes
      BY <3>1, ChangeRecords
    <3>3. hand' \in Seq(Changes) /\ Len(hand') = 1
      BY <1>5, <2>1, <3>2, SingleElement DEF DetectorFirst
    <3>4. eventChan' \in Seq(Tools) /\ UNCHANGED <<detected, changeChan, announced>>
      BY <1>5, <2>1, <3>1 DEF DetectorFirst
    <3>. QED BY <3>3, <3>4 DEF ToolTypes, AtHand
  <2>2. CASE eventChan = <<>>
    BY <1>5, <2>2 DEF DetectorFirst, ToolTypes, AtHand
  <2>. QED BY <2>1, <2>2
<1>6. CASE DetectorChange
  <2>1. CASE changeChan # <<>>
    <3>1. Head(changeChan) \in Changes /\ Tail(changeChan) \in Seq(Changes)
      BY <2>1, TailElements DEF ToolTypes
    <3>2. hand' \in Seq(Changes) /\ Len(hand') = 1
      BY <1>6, <2>1, <3>1, SingleElement DEF DetectorChange
    <3>3. changeChan' \in Seq(Changes) /\ UNCHANGED <<detected, eventChan, announced>>
      BY <1>6, <2>1, <3>1 DEF DetectorChange
    <3>. QED BY <3>2, <3>3 DEF ToolTypes, AtHand
  <2>2. CASE changeChan = <<>>
    BY <1>6, <2>2 DEF DetectorChange, ToolTypes, AtHand
  <2>. QED BY <2>1, <2>2
<1>7. CASE DetectorTell
  <2>1. Len(hand) = 1 /\ hand \in Seq(Changes)
    BY <1>7 DEF DetectorTell, AtHand, ToolTypes
  <2>2. hand[1] \in Changes
    BY <2>1
  <2>5. hand[1].new \in AnyTool
    BY <2>2, ChangeRecords
  <2>3. announced' \in [tool : AnyTool, icon : AnyTool]
    BY <1>7, <2>5 DEF DetectorTell, ToolTypes
  <2>4. <<>> \in Seq(Changes)
    OBVIOUS
  <2>. QED BY <1>7, <2>3, <2>4 DEF DetectorTell, toolVars, ToolTypes, AtHand
<1>. QED BY <1>1, <1>2, <1>3, <1>4, <1>5, <1>6, <1>7, ToollessStep DEF Detecting

LEMMA OutputTypeStep ==
    OutputTypeInv /\ [OutputNext]_outputVars => OutputTypeInv'
    BY CaptureStep, SeqStep, EndStep, ViewStep, JoinStep, ToolStep, OutputFlagStep DEF OutputTypeInv

LEMMA ReadTake ==
    ASSUME CaptureTypes, Busy, SeqTypes, ReadBefore, NEW s \in Keepers, WriteTo(s), Accept(s),
           UNCHANGED <<outputSinks, replay>>
    PROVE  ReadBefore'
<1>1. outputs \in Chunks /\ outputs' = outputs
    BY WriteType, SinkNames DEF WriteTo
<1>2. taken[s] \in Seq(Chunks) /\ UpTo(taken[s], outputs)
    BY DEF SeqTypes, ReadBefore
<1>3. /\ Len(taken[s]) \in Nat /\ Len(Append(taken[s], outputs)) = Len(taken[s]) + 1
      /\ \A i \in 1..Len(taken[s]) : Append(taken[s], outputs)[i] = taken[s][i]
      /\ Append(taken[s], outputs)[Len(taken[s]) + 1] = outputs
    BY <1>1, <1>2, AppendElements
<1>4. outputs \in Nat
    BY <1>1, OutputBounds DEF Chunks
<1>5. UpTo(Append(taken[s], outputs), outputs)
  <2>. SUFFICES ASSUME NEW i \in 1..(Len(taken[s]) + 1)
                PROVE  Append(taken[s], outputs)[i] <= outputs
      BY <1>3 DEF UpTo
  <2>1. CASE i = Len(taken[s]) + 1
      BY <1>3, <1>4, <2>1
  <2>2. CASE i # Len(taken[s]) + 1
    <3>1. i \in 1..Len(taken[s])
      BY <1>3, <2>2
    <3>. QED BY <1>2, <1>3, <3>1 DEF UpTo
  <2>. QED BY <2>1, <2>2
<1>6. ASSUME NEW x \in Keepers PROVE UpTo(taken'[x], outputs)
  <2>1. taken'[x] = IF x = s THEN Append(taken[s], outputs) ELSE taken[x]
    BY DEF SeqTypes, Accept
  <2>. QED BY <1>5, <2>1 DEF ReadBefore
<1>. QED BY <1>1, <1>6 DEF ReadBefore

LEMMA ReadView ==
    ASSUME CaptureTypes, Busy, SeqTypes, ReadBefore, NEW v \in Viewers, Viewing(v)
    PROVE  ReadBefore'
<1> USE DEF sinkVars, viewVars
<1>0. v \in Keepers /\ Len(<<>>) = 0 /\ UpTo(<<>>, outputs) /\ outputs' = outputs
    BY SinkNames DEF UpTo, Viewing, ReadHistory, SendHistory, JoinSinks, RemoveSink, captureVars
<1>1. CASE ReadHistory(v)
  <2>1. PICK h \in {Window, <<>>} : replay' = [replay EXCEPT ![v] = h]
    BY <1>1 DEF ReadHistory
  <2>2. UpTo(h, outputs) /\ taken' = taken
    BY <1>0, <1>1, WindowElements DEF ReadHistory
  <2>3. ASSUME NEW x \in Viewers PROVE UpTo(replay'[x], outputs)
    BY <2>1, <2>2 DEF SeqTypes, ReadBefore
  <2>. QED BY <1>0, <2>2, <2>3 DEF ReadBefore
<1>2. ASSUME Forget(v) PROVE ReadBefore'
  <2>1. ASSUME NEW x \in Keepers PROVE UpTo(taken'[x], outputs)
    BY <1>0, <1>2 DEF Forget, SeqTypes, ReadBefore
  <2>2. ASSUME NEW x \in Viewers PROVE UpTo(replay'[x], outputs)
    BY <1>0, <1>2 DEF Forget, SeqTypes, ReadBefore
  <2>. QED BY <1>0, <2>1, <2>2 DEF ReadBefore
<1>3. CASE taken' = [taken EXCEPT ![v] = replay[v]] /\ UNCHANGED replay
  <2>1. ASSUME NEW x \in Keepers PROVE UpTo(taken'[x], outputs)
    BY <1>0, <1>3 DEF SeqTypes, ReadBefore
  <2>. QED BY <1>0, <1>3, <2>1 DEF ReadBefore
<1>4. CASE JoinSinks(v)
    BY <1>0, <1>4 DEF JoinSinks, ReadBefore
<1>. QED BY <1>1, <1>2, <1>3, <1>4 DEF Viewing, SendHistory, RemoveSink

LEMMA BeforeStep ==
    ASSUME CaptureTypes, Busy, SeqTypes, ReadBefore, [OutputNext]_outputVars
    PROVE  ReadBefore'
<1> USE DEF sinkVars, viewVars
<1>0. "recorder" \in Keepers /\ "bus" \in Keepers /\ Viewers \subseteq Keepers
    BY SinkNames
<1>1. ASSUME outputs' = outputs, UNCHANGED <<taken, replay>> PROVE ReadBefore'
    BY <1>1 DEF ReadBefore
<1>2. CASE CapRead
  <2>1. outputs' = outputs + 1 /\ UNCHANGED <<taken, replay>> /\ outputs \in Nat
    BY <1>2, OutputBounds DEF CapRead, CaptureTypes
  <2>2. ASSUME NEW q \in Seq(Chunks), UpTo(q, outputs) PROVE UpTo(q, outputs')
    <3>1. \A i \in 1..Len(q) : q[i] \in Chunks /\ q[i] <= outputs
      BY <2>2 DEF UpTo
    <3>. QED BY <2>1, <3>1, OutputBounds DEF UpTo, Chunks
  <2>3. ASSUME NEW s \in Keepers PROVE UpTo(taken'[s], outputs')
    BY <2>1, <2>2 DEF SeqTypes, ReadBefore
  <2>4. ASSUME NEW v \in Viewers PROVE UpTo(replay'[v], outputs')
    BY <2>1, <2>2 DEF SeqTypes, ReadBefore
  <2>. QED BY <2>3, <2>4 DEF ReadBefore
<1>3. CASE CapStore \/ CapLock \/ CapEof \/ CapEmit \/ WriteHandler
    BY <1>1, <1>3 DEF CapStore, CapLock, CapEof, CapEmit, WriteHandler, WriteTo
<1>4. CASE WriteRecorder \/ WriteBus
    BY <1>0, <1>1, <1>4, ReadTake DEF WriteRecorder, WriteBus, WriteTo
<1>5. ASSUME NEW v \in Viewers, WriteViewer(v) PROVE ReadBefore'
    BY <1>0, <1>1, <1>5, ReadTake DEF WriteViewer, WriteTo
<1>6. CASE SettingUp
    BY <1>1, <1>6 DEF SettingUp, SetupRecording, SetupToolHandler, SetupEventBusSink,
       StartMonitor, captureVars
<1>7. CASE Ending \/ Detecting
    BY <1>1, <1>7 DEF Ending, Detecting, MonitorTakes, MonitorEnds, StopDetection,
       MonitorNotifies, KillStops, KillNotifies, DetectorFirst, DetectorChange, DetectorTell,
       captureVars
<1>8. CASE UNCHANGED outputVars
    BY <1>1, <1>8 DEF outputVars, captureVars
<1>. QED BY <1>2, <1>3, <1>4, <1>5, <1>6, <1>7, <1>8, ReadView DEF OutputNext, Capturing

\* The state of the session's output always has its types, and of the chunks
\* only those that were read are in a history that was sent or with a sink.
THEOREM OutputTypeCorrect == OutputSpec => [](OutputTypeOK /\ ReadBefore)
<1>1. OutputInit => OutputTypeInv /\ ReadBefore
  <2>. SUFFICES ASSUME OutputInit PROVE OutputTypeInv /\ ReadBefore
    OBVIOUS
  <2>1. Len(<<>>) = 0 /\ UpTo(<<>>, outputs)
    BY DEF UpTo
  <2>. QED BY <2>1, OutputTypeInit DEF OutputInit, ReadBefore
<1>2. OutputTypeInv /\ ReadBefore /\ [OutputNext]_outputVars => OutputTypeInv' /\ ReadBefore'
    BY OutputTypeStep, BeforeStep DEF OutputTypeInv
<1>3. OutputTypeInv => OutputTypeOK
    BY TypesImply
<1>. QED BY <1>1, <1>2, <1>3, PTL DEF OutputSpec

-----------------------------------------------------------------------------
(* The announced tool.                                                     *)

\* The channels of the handler are closed only once no output can come.
ShutInv ==
    /\ exitSent => capturing = "over"
    /\ monitoring = "notify" => exitSent
    /\ chansShut => exitSent

LEMMA ShutStep ==
    ASSUME CaptureTypes, ShutInv, [OutputNext]_outputVars
    PROVE  ShutInv'
<1>1. CASE CapEmit
    BY <1>1 DEF CapEmit, toolVars, ShutInv
<1>2. CASE CapRead \/ CapStore \/ CapLock \/ CapEof
    BY <1>2 DEF CapRead, CapStore, CapLock, CapEof, endVars, toolVars, ShutInv
<1>3. CASE WriteRecorder \/ WriteBus \/ WriteHandler
  <2>1. turn # 0 /\ UNCHANGED <<exitSent, monitoring, chansShut>>
    BY <1>3 DEF WriteRecorder, WriteBus, WriteHandler, WriteTo, Detect, endVars, toolVars
  <2>. QED BY <2>1 DEF CaptureTypes, ShutInv
<1>4. ASSUME NEW v \in Viewers, WriteViewer(v) PROVE ShutInv'
  <2>1. turn # 0 /\ UNCHANGED <<exitSent, monitoring, chansShut>>
    BY <1>4 DEF WriteViewer, WriteTo, endVars, toolVars
  <2>. QED BY <2>1 DEF CaptureTypes, ShutInv
<1>5. CASE SettingUp
    BY <1>5 DEF SettingUp, SetupRecording, SetupToolHandler, SetupEventBusSink, StartMonitor,
       captureVars, endVars, toolVars, ShutInv
<1>6. CASE Ending
    BY <1>6 DEF Ending, MonitorTakes, MonitorEnds, StopDetection, MonitorNotifies,
       KillStops, KillNotifies, captureVars, toolVars, ShutInv
<1>7. CASE Detecting
    BY <1>7 DEF Detecting, DetectorFirst, DetectorChange, DetectorTell, captureVars, endVars,
       toolVars, ShutInv
<1>8. ASSUME NEW v \in Viewers, Viewing(v) PROVE ShutInv'
    BY <1>8 DEF Viewing, ReadHistory, SendHistory, JoinSinks, RemoveSink, captureVars, endVars,
       toolVars, ShutInv
<1>9. CASE UNCHANGED outputVars
    BY <1>9 DEF outputVars, captureVars, endVars, toolVars, ShutInv
<1>. QED BY <1>1, <1>2, <1>3, <1>4, <1>5, <1>6, <1>7, <1>8, <1>9 DEF OutputNext, Capturing

\* How the list of sinks changes.
LEMMA SinksStep ==
    ASSUME [OutputNext]_outputVars
    PROVE  \/ UNCHANGED outputSinks
           \/ SetupToolHandler
           \/ \E s \in Keepers : AddSink(s)
           \/ \E p \in 1..Len(outputSinks) : outputSinks' = RemoveAt(outputSinks, p)
<1> USE DEF sinkVars
<1>0. "recorder" \in Keepers /\ "bus" \in Keepers /\ Viewers \subseteq Keepers
    BY SinkNames
<1>1. CASE Capturing
    BY <1>1 DEF Capturing, CapRead, CapStore, CapLock, CapEof, CapEmit, WriteRecorder, WriteBus,
       WriteHandler, WriteViewer
<1>2. CASE SettingUp
    BY <1>0, <1>2 DEF SettingUp, SetupRecording, SetupEventBusSink, StartMonitor
<1>3. CASE Ending \/ Detecting
    BY <1>3 DEF Ending, Detecting, MonitorTakes, MonitorEnds, StopDetection, MonitorNotifies,
       KillStops, KillNotifies, DetectorFirst, DetectorChange, DetectorTell
<1>4. ASSUME NEW v \in Viewers, Viewing(v)
      PROVE  \/ UNCHANGED outputSinks
             \/ \E s \in Keepers : AddSink(s)
             \/ \E p \in 1..Len(outputSinks) : outputSinks' = RemoveAt(outputSinks, p)
    BY <1>0, <1>4 DEF Viewing, ReadHistory, SendHistory, JoinSinks, RemoveSink, Unlist
<1>5. CASE UNCHANGED outputVars
    BY <1>5 DEF outputVars
<1>. QED BY <1>1, <1>2, <1>3, <1>4, <1>5 DEF OutputNext

\* The handler is on the list only with monitorDetection at work.
HandlerInv ==
    /\ \A p \in 1..Len(outputSinks) : outputSinks[p] = "handler" => detector # "none"
    /\ setup \in {"recorder", "handler"} => detector = "none"

LEMMA DetectorStays ==
    ASSUME [OutputNext]_outputVars, detector # "none" PROVE detector' # "none"
<1>1. CASE Toolless \/ (WriteHandler /\ UNCHANGED detectVars)
    BY <1>1 DEF Toolless, detectVars
<1>2. CASE SetupToolHandler \/ MonitorTakes
    BY <1>2 DEF SetupToolHandler, MonitorTakes, StopDetection, detectVars
<1>3. CASE Detecting
    BY <1>3 DEF Detecting, DetectorFirst, DetectorChange, DetectorTell
<1>. QED BY <1>1, <1>2, <1>3, ToollessStep

LEMMA SetupStays ==
    ASSUME HandlerInv, EndTypes, [OutputNext]_outputVars
    PROVE  setup' \in {"recorder", "handler"} => detector' = "none"
<1>1. CASE SettingUp
    BY <1>1 DEF SettingUp, SetupRecording, SetupToolHandler, SetupEventBusSink, StartMonitor,
       detectVars, HandlerInv
<1>2. CASE Detecting
    BY <1>2 DEF Detecting, DetectorFirst, DetectorChange, DetectorTell, HandlerInv
<1>3. CASE ~SettingUp /\ ~Detecting
  <2>1. UNCHANGED setup
    BY <1>3 DEF OutputNext, Capturing, CapRead, CapStore, CapLock, CapEof, CapEmit,
       WriteRecorder, WriteBus, WriteHandler, WriteViewer, Ending, MonitorTakes, MonitorEnds,
       StopDetection, MonitorNotifies, KillStops, KillNotifies, Viewing, ReadHistory,
       SendHistory, JoinSinks, RemoveSink, outputVars
  <2>2. UNCHANGED detector
    BY <1>3, ToollessStep DEF Toolless, detectVars, MonitorTakes, StopDetection, SettingUp
  <2>. QED BY <2>1, <2>2 DEF HandlerInv
<1>. QED BY <1>1, <1>2, <1>3

LEMMA HandlerStep ==
    ASSUME CaptureTypes, EndTypes, HandlerInv, [OutputNext]_outputVars
    PROVE  HandlerInv'
<1>0. Len(outputSinks) \in Nat /\ outputSinks \in Seq(Sinks)
    BY DEF CaptureTypes
<1>1. SUFFICES ASSUME NEW p \in 1..Len(outputSinks'), outputSinks'[p] = "handler",
                      detector' = "none"
               PROVE  FALSE
    BY SetupStays DEF HandlerInv
<1>2. detector = "none"
    BY <1>1, DetectorStays
<1>3. \A q \in 1..Len(outputSinks) : outputSinks[q] # "handler"
    BY <1>2 DEF HandlerInv
<1>4. CASE UNCHANGED outputSinks
    BY <1>1, <1>3, <1>4
<1>5. CASE SetupToolHandler
  <2>1. detector' = "first" \/ UNCHANGED outputSinks
    BY <1>5 DEF SetupToolHandler
  <2>. QED BY <1>1, <1>3, <2>1
<1>6. ASSUME NEW s \in Keepers, AddSink(s) PROVE FALSE
  <2>1. outputSinks' = Append(outputSinks, s) /\ s \in Sinks /\ s # "handler"
    BY <1>6, SinkNames DEF AddSink
  <2>2. /\ Len(outputSinks') = Len(outputSinks) + 1
        /\ \A i \in 1..Len(outputSinks) : outputSinks'[i] = outputSinks[i]
        /\ outputSinks'[Len(outputSinks) + 1] = s
    BY <1>0, <2>1, AppendElements
  <2>. QED BY <1>0, <1>1, <1>3, <2>1, <2>2
<1>7. ASSUME NEW q \in 1..Len(outputSinks), outputSinks' = RemoveAt(outputSinks, q) PROVE FALSE
  <2>1. /\ Len(outputSinks') = Len(outputSinks) - 1
        /\ \A i \in 1..(Len(outputSinks) - 1) :
               outputSinks'[i] = IF i < q THEN outputSinks[i] ELSE outputSinks[i + 1]
    BY <1>0, <1>7, RemoveElements
  <2>2. p \in 1..Len(outputSinks) /\ p + 1 \in 1..Len(outputSinks)
    BY <1>0, <1>1, <2>1
  <2>. QED BY <1>1, <1>3, <2>1, <2>2
<1>. QED BY <1>4, <1>5, <1>6, <1>7, SinksStep

\* Where tools on their way to the bus are, and when there are none.
ToolPlaceInv ==
    /\ hand # <<>> => Len(hand) = 1 /\ detector = "tell"
    /\ detector = "tell" => hand # <<>>
    /\ eventChan # <<>> => Len(eventChan) = 1 /\ detector = "first"
    /\ detector \in {"none", "first"} => announced = [tool |-> NoTool, icon |-> NoTool]
    /\ detector = "end" => chansShut
    /\ detected = NoTool =>
           /\ eventChan = <<>> /\ changeChan = <<>> /\ hand = <<>>
           /\ detector \in {"none", "first", "end"}
           /\ announced = [tool |-> NoTool, icon |-> NoTool]

\* The tool that the changes in changeChan start from.
From == IF hand # <<>> THEN hand[1].new
        ELSE IF eventChan # <<>> THEN eventChan[1] ELSE announced.tool

\* Each change starts from where the last one led.
Linked ==
    /\ hand # <<>> => hand[1].previous = announced.tool
    /\ changeChan = <<>> => From = detected
    /\ changeChan # <<>> => /\ changeChan[1].previous = From
                            /\ changeChan[Len(changeChan)].new = detected
    /\ \A i \in 1..(Len(changeChan) - 1) : changeChan[i].new = changeChan[i + 1].previous
    /\ hand = <<>> /\ eventChan = <<>> /\ changeChan = <<>> => announced.icon = detected

ToolInv ==
    /\ OutputTypeInv /\ ShutInv /\ HandlerInv /\ ToolPlaceInv
    /\ ~panicked
    /\ ~overran => Linked

LEMMA ToolInvInit == OutputInit => ToolInv
<1>. SUFFICES ASSUME OutputInit PROVE ToolInv
    OBVIOUS
<1>1. OutputTypeInv
    BY OutputTypeInit
<1>2. ShutInv /\ ToolPlaceInv
    BY DEF OutputInit, ShutInv, ToolPlaceInv
<1>3. Len(<<>>) = 0 /\ outputSinks = <<>>
    BY DEF OutputInit
<1>4. HandlerInv
    BY <1>3 DEF OutputInit, HandlerInv
<1>5. Linked
    BY <1>3 DEF OutputInit, Linked, From
<1>. QED BY <1>1, <1>2, <1>4, <1>5 DEF ToolInv, OutputInit

\* The handler sees output: monitorDetection is at work, its channels are open.
LEMMA HandlerAtWork ==
    ASSUME ToolInv, WriteHandler
    PROVE  ~chansShut /\ detector # "none"
<1>1. CaptureTypes /\ turn # 0 /\ outputSinks[turn] = "handler"
    BY DEF ToolInv, OutputTypeInv, WriteHandler, WriteTo
<1>2. Len(outputSinks) \in Nat /\ turn \in 1..Len(outputSinks) /\ capturing = "turns"
    BY <1>1 DEF CaptureTypes
<1>. QED BY <1>1, <1>2 DEF ToolInv, ShutInv, HandlerInv

\* Its first tool goes into eventChan.
LEMMA FirstTool ==
    ASSUME ToolInv, NEW t \in Tools, Detect(t), WriteHandler, UNCHANGED <<chansShut, detectVars>>,
           detected = NoTool
    PROVE  ToolPlaceInv' /\ ~panicked' /\ Linked'
<1>1. /\ eventChan = <<>> /\ changeChan = <<>> /\ hand = <<>> /\ detector = "first"
      /\ announced = [tool |-> NoTool, icon |-> NoTool]
    BY HandlerAtWork DEF ToolInv, ToolPlaceInv
<1>2. /\ eventChan' = <<t>> /\ changeChan' = <<>> /\ hand' = <<>> /\ detected' = t
      /\ detector' = "first" /\ announced' = announced
    BY <1>1 DEF Detect, detectVars
<1>3. t # NoTool /\ ~panicked'
    BY HandlerAtWork, OutputBounds DEF Detect, ToolInv
<1>4. Len(<<t>>) = 1 /\ <<t>>[1] = t /\ <<t>> # <<>> /\ Len(<<>>) = 0
    BY SingleElement
<1>5. ToolPlaceInv'
    BY <1>1, <1>2, <1>3, <1>4 DEF ToolPlaceInv
<1>6. Linked'
    BY <1>1, <1>2, <1>4 DEF Linked, From
<1>. QED BY <1>3, <1>5, <1>6

\* A later one goes into changeChan, unless that is full.
LEMMA NextTool ==
    ASSUME ToolInv, NEW t \in Tools, Detect(t), WriteHandler, UNCHANGED <<chansShut, detectVars>>,
           detected # NoTool
    PROVE  ToolPlaceInv' /\ ~panicked' /\ (~overran' => Linked')
<1> DEFINE c == [previous |-> detected, new |-> t]
<1>1. t # NoTool /\ ~panicked'
    BY HandlerAtWork, OutputBounds DEF Detect, ToolInv
<1>2. detected' = t /\ UNCHANGED <<eventChan, detector, hand, announced, chansShut>>
    BY DEF Detect, detectVars
<1>3. ToolPlaceInv'
    BY <1>1, <1>2 DEF ToolInv, ToolPlaceInv
<1>4. ASSUME ~overran' PROVE Linked'
  <2>1. changeChan' = Append(changeChan, c) /\ ~overran
    BY <1>4 DEF Detect
  <2>2. c \in Changes /\ c.previous = detected /\ c.new = t
    BY ChangeRecords DEF ToolInv, OutputTypeInv, ToolTypes
  <2>3. changeChan \in Seq(Changes)
    BY DEF ToolInv, OutputTypeInv, ToolTypes
  <2> DEFINE n == Len(changeChan)
  <2>4. /\ n \in Nat /\ Len(changeChan') = n + 1
        /\ \A i \in 1..n : changeChan'[i] = changeChan[i]
        /\ changeChan'[n + 1] = c
    BY <2>1, <2>2, <2>3, AppendElements
  <2>5. changeChan' # <<>> /\ (changeChan # <<>> => n > 0) /\ (changeChan = <<>> => n = 0)
    BY <2>3, <2>4
  <2>6. Linked /\ From' = From
    BY <1>2, <2>1 DEF ToolInv, From
  <2>7. changeChan'[1].previous = From'
  <3>1. CASE n = 0
    BY <2>2, <2>4, <2>5, <2>6, <3>1 DEF Linked
  <3>2. CASE n > 0
    <4>1. changeChan'[1] = changeChan[1] /\ changeChan # <<>>
      BY <2>4, <2>5, <3>2
    <4>. QED BY <2>6, <4>1 DEF Linked
  <3>. QED BY <2>4, <3>1, <3>2
  <2>8. ASSUME NEW i \in 1..n PROVE changeChan'[i].new = changeChan'[i + 1].previous
    <3>1. CASE i = n
      BY <2>2, <2>4, <2>5, <2>6, <3>1 DEF Linked
    <3>2. CASE i # n
      <4>1. i \in 1..(n - 1) /\ i + 1 \in 1..n
        BY <2>4, <3>2
      <4>. QED BY <2>4, <2>6, <4>1 DEF Linked
    <3>. QED BY <3>1, <3>2
  <2>9. changeChan'[Len(changeChan')].new = detected'
    BY <1>2, <2>2, <2>4
  <2>10. hand' # <<>> => hand'[1].previous = announced'.tool
    BY <1>2, <2>6 DEF Linked
  <2>11. 1..(Len(changeChan') - 1) = 1..n
    BY <2>4
  <2>. QED BY <2>5, <2>7, <2>8, <2>9, <2>10, <2>11 DEF Linked
<1>. QED BY <1>1, <1>3, <1>4

LEMMA TakeFirst ==
    ASSUME ToolInv, DetectorFirst
    PROVE  ToolPlaceInv' /\ ~panicked' /\ (~overran' => Linked')
<1>1. ~panicked' /\ overran' = overran
    BY DEF ToolInv, DetectorFirst
<1>2. CASE eventChan # <<>>
  <2>1. eventChan \in Seq(Tools)
    BY DEF ToolInv, OutputTypeInv, ToolTypes
  <2>2. Len(eventChan) = 1 /\ announced = [tool |-> NoTool, icon |-> NoTool] /\ hand = <<>>
    BY <1>2 DEF ToolInv, ToolPlaceInv, DetectorFirst
  <2>3. eventChan' = <<>>
    BY <1>2, <2>1, <2>2 DEF DetectorFirst
  <2> DEFINE c == [previous |-> NoTool, new |-> eventChan[1]]
  <2>4. hand' = <<c>> /\ c.previous = NoTool /\ c.new = eventChan[1]
    BY <1>2, <2>1, TailElements DEF DetectorFirst
  <2> HIDE DEF c
  <2>5. hand' # <<>> /\ Len(hand') = 1 /\ hand'[1] = c
    BY <2>4, SingleElement
  <2>6. detector' = "tell" /\ UNCHANGED <<detected, changeChan, chansShut, announced>>
    BY <1>2 DEF DetectorFirst
  <2>7. detected # NoTool
    BY <1>2 DEF ToolInv, ToolPlaceInv
  <2>8. ToolPlaceInv'
    BY <2>3, <2>5, <2>6, <2>7 DEF ToolPlaceInv
  <2>9. ASSUME Linked PROVE Linked'
    <3>1. From' = From
      BY <1>2, <2>2, <2>4, <2>5 DEF From
    <3>. QED BY <2>2, <2>4, <2>5, <2>6, <2>9, <3>1 DEF Linked
  <2>. QED BY <1>1, <2>8, <2>9 DEF ToolInv
<1>3. CASE eventChan = <<>>
  <2>1. detector' = "end" /\ chansShut /\ detector = "first"
    BY <1>3 DEF DetectorFirst
  <2>2. UNCHANGED <<hand, eventChan, changeChan, detected, announced, chansShut>>
    BY <1>3 DEF DetectorFirst
  <2>3. ToolPlaceInv'
    BY <1>3, <2>1, <2>2 DEF ToolInv, ToolPlaceInv
  <2>4. Linked => Linked'
    BY <2>2 DEF Linked, From
  <2>. QED BY <1>1, <2>3, <2>4 DEF ToolInv
<1>. QED BY <1>2, <1>3

LEMMA TakeChange ==
    ASSUME ToolInv, DetectorChange
    PROVE  ToolPlaceInv' /\ ~panicked' /\ (~overran' => Linked')
<1>1. ~panicked' /\ overran' = overran
    BY DEF ToolInv, DetectorChange
<1>2. CASE changeChan # <<>>
  <2> DEFINE n == Len(changeChan)
             c == changeChan[1]
  <2>1. /\ changeChan \in Seq(Changes) /\ Head(changeChan) = c /\ n \in Nat /\ n > 0
        /\ Tail(changeChan) \in Seq(Changes) /\ Len(Tail(changeChan)) = n - 1
        /\ \A i \in 1..(n - 1) : Tail(changeChan)[i] = changeChan[i + 1]
    BY <1>2, TailElements DEF ToolInv, OutputTypeInv, ToolTypes
  <2>2. hand = <<>> /\ eventChan = <<>> /\ detected # NoTool
    BY <1>2 DEF ToolInv, ToolPlaceInv, DetectorChange
  <2>3. hand' = <<c>> /\ changeChan' = Tail(changeChan) /\ detector' = "tell"
    BY <1>2, <2>1 DEF DetectorChange
  <2>4. hand' # <<>> /\ Len(hand') = 1 /\ hand'[1] = c
    BY <2>3, SingleElement
  <2>5. UNCHANGED <<detected, eventChan, chansShut, announced>>
    BY DEF DetectorChange
  <2>6. ToolPlaceInv'
    BY <2>2, <2>3, <2>4, <2>5 DEF ToolPlaceInv
  <2>7. ASSUME Linked PROVE Linked'
    <3>1. c.previous = announced.tool /\ changeChan[n].new = detected
      BY <1>2, <2>2, <2>7 DEF Linked, From
    <3>2. From' = c.new
      BY <2>4 DEF From
    <3>3. hand'[1].previous = announced'.tool
      BY <2>4, <2>5, <3>1
    <3>4. CASE n = 1
      <4>1. changeChan' = <<>> /\ Len(changeChan') = 0
        BY <2>1, <2>3, <3>4
      <4>. QED BY <2>4, <2>5, <3>1, <3>2, <3>3, <3>4, <4>1 DEF Linked
    <3>5. CASE n > 1
      <4>0. Len(<<>>) = 0 /\ Len(changeChan') = n - 1 /\ n - 1 # 0
        BY <2>1, <2>3, <3>5
      <4> HIDE DEF n
      <4>1. changeChan' # <<>> /\ Len(changeChan') = n - 1
        BY <4>0
      <4> USE DEF n
      <4>2. changeChan'[1] = changeChan[2] /\ changeChan'[n - 1] = changeChan[n]
        BY <2>1, <2>3, <3>5
      <4>3. changeChan[1].new = changeChan[2].previous
        BY <2>1, <2>7, <3>5 DEF Linked
      <4>4. ASSUME NEW i \in 1..(n - 2)
            PROVE  changeChan'[i].new = changeChan'[i + 1].previous
        <5>1. i \in 1..(n - 1) /\ i + 1 \in 1..(n - 1) /\ (i + 1) + 1 = i + 2
          BY <2>1, <3>5
        <5>2. changeChan'[i] = changeChan[i + 1] /\ changeChan'[i + 1] = changeChan[(i + 1) + 1]
          BY <2>1, <2>3, <5>1
        <5>. QED BY <2>7, <5>1, <5>2 DEF Linked
      <4>5. 1..(Len(changeChan') - 1) = 1..(n - 2)
        BY <2>1, <4>1
      <4>. QED BY <2>4, <2>5, <3>1, <3>2, <3>3, <4>1, <4>2, <4>3, <4>4, <4>5 DEF Linked
    <3>. QED BY <2>1, <3>4, <3>5
  <2>. QED BY <1>1, <2>6, <2>7 DEF ToolInv
<1>3. CASE changeChan = <<>>
  <2>1. detector' = "end" /\ chansShut /\ detector = "change"
    BY <1>3 DEF DetectorChange
  <2>2. UNCHANGED <<hand, eventChan, changeChan, detected, announced, chansShut>>
    BY <1>3 DEF DetectorChange
  <2>3. ToolPlaceInv'
    BY <2>1, <2>2 DEF ToolInv, ToolPlaceInv
  <2>4. Linked => Linked'
    BY <2>2 DEF Linked, From
  <2>. QED BY <1>1, <2>3, <2>4 DEF ToolInv
<1>. QED BY <1>2, <1>3

LEMMA TellTool ==
    ASSUME ToolInv, DetectorTell
    PROVE  ToolPlaceInv' /\ ~panicked' /\ (~overran' => Linked')
<1>1. UNCHANGED <<detected, eventChan, changeChan, chansShut, overran, panicked>>
    BY DEF DetectorTell, toolVars
<1>2. hand # <<>> /\ eventChan = <<>> /\ detected # NoTool
    BY DEF ToolInv, ToolPlaceInv, DetectorTell
<1>3. /\ hand' = <<>> /\ detector' = "change"
      /\ announced' = [tool |-> hand[1].new, icon |-> detected]
    BY DEF DetectorTell
<1>4. ToolPlaceInv'
    BY <1>1, <1>2, <1>3 DEF ToolPlaceInv
<1>5. ASSUME Linked PROVE Linked'
  <2>1. From' = From
    BY <1>1, <1>2, <1>3 DEF From
  <2>. QED BY <1>1, <1>2, <1>3, <1>5, <2>1 DEF Linked
<1>. QED BY <1>1, <1>4, <1>5 DEF ToolInv

LEMMA ToolInvStep == ToolInv /\ [OutputNext]_outputVars => ToolInv'
<1>. SUFFICES ASSUME ToolInv, [OutputNext]_outputVars PROVE ToolInv'
    OBVIOUS
<1>1. OutputTypeInv' /\ ShutInv' /\ HandlerInv'
    BY OutputTypeStep, ShutStep, HandlerStep DEF ToolInv, OutputTypeInv
<1> DEFINE Aim == ToolPlaceInv' /\ ~panicked' /\ (~overran' => Linked')
<1>. SUFFICES Aim
    BY <1>1 DEF ToolInv
<1>2. ASSUME UNCHANGED <<toolVars, detectVars>> PROVE Aim
  <2>1. UNCHANGED <<detected, eventChan, changeChan, chansShut, overran, panicked, detector,
                    hand, announced>>
    BY <1>2 DEF toolVars, detectVars
  <2>2. ToolPlaceInv' /\ ~panicked'
    BY <2>1 DEF ToolInv, ToolPlaceInv
  <2>3. Linked => Linked'
    BY <2>1 DEF Linked, From
  <2>. QED BY <2>1, <2>2, <2>3 DEF ToolInv
<1>3. CASE WriteHandler /\ UNCHANGED detectVars
  <2>1. CASE UNCHANGED toolVars
    BY <1>2, <1>3, <2>1
  <2>2. ASSUME NEW t \in Tools, Detect(t), UNCHANGED chansShut PROVE Aim
    BY <1>3, <2>2, FirstTool, NextTool
  <2>. QED BY <1>3, <2>1, <2>2 DEF WriteHandler
<1>4. CASE SetupToolHandler
  <2>1. UNCHANGED <<detected, eventChan, changeChan, chansShut, overran, panicked, hand, announced>>
    BY <1>4 DEF SetupToolHandler, toolVars
  <2>2. detector = "none" /\ detector' \in {"none", "first"}
    BY <1>4 DEF SetupToolHandler, ToolInv, HandlerInv
  <2>3. ToolPlaceInv' /\ ~panicked'
    BY <2>1, <2>2 DEF ToolInv, ToolPlaceInv
  <2>4. Linked => Linked'
    BY <2>1 DEF Linked, From
  <2>. QED BY <2>1, <2>3, <2>4 DEF ToolInv
<1>5. CASE MonitorTakes
  <2>1. UNCHANGED <<detected, eventChan, changeChan, overran, panicked, detector, hand, announced>>
    BY <1>5 DEF MonitorTakes, StopDetection, detectVars
  <2>2. detector = "end" => chansShut'
    BY <1>5 DEF MonitorTakes, StopDetection
  <2>3. ToolPlaceInv' /\ ~panicked'
    BY <2>1, <2>2 DEF ToolInv, ToolPlaceInv
  <2>4. Linked => Linked'
    BY <2>1 DEF Linked, From
  <2>. QED BY <2>1, <2>3, <2>4 DEF ToolInv
<1>6. CASE Detecting
    BY <1>6, TakeFirst, TakeChange, TellTool DEF Detecting
<1>. QED BY <1>2, <1>3, <1>4, <1>5, <1>6, ToollessStep DEF Toolless

\* At most one event is in front of the changes in changeChan.
Ahead == hand \o [i \in 1..Len(eventChan) |-> [previous |-> NoTool, new |-> eventChan[i]]]

LEMMA AheadElements ==
    ASSUME ToolInv, Linked
    PROVE  /\ Ahead \in Seq(Changes) /\ Len(Ahead) \in {0, 1}
           /\ Len(Ahead) = 1 => Ahead[1].previous = announced.tool /\ Ahead[1].new = From
           /\ Len(Ahead) = 0 => From = announced.tool /\ hand = <<>> /\ eventChan = <<>>
<1> DEFINE e == [i \in 1..Len(eventChan) |-> [previous |-> NoTool, new |-> eventChan[i]]]
<1>1. eventChan \in Seq(Tools) /\ hand \in Seq(Changes) /\ Len(<<>>) = 0
    BY DEF ToolInv, OutputTypeInv, ToolTypes
<1>2. /\ hand # <<>> => Len(hand) = 1 /\ eventChan = <<>>
      /\ eventChan # <<>> => /\ Len(eventChan) = 1 /\ hand = <<>>
                             /\ announced = [tool |-> NoTool, icon |-> NoTool]
    BY DEF ToolInv, ToolPlaceInv
<1>3. \A i \in 1..Len(eventChan) : [previous |-> NoTool, new |-> eventChan[i]] \in Changes
    BY <1>1, ChangeRecords
<1>4. e \in Seq(Changes) /\ Len(e) = Len(eventChan) /\ Len(eventChan) \in Nat /\ Len(hand) \in Nat
    BY <1>1, <1>3
<1>5. Ahead = hand \o e
    BY DEF Ahead
<1>6. Len(eventChan) = 1 => e[1].previous = NoTool /\ e[1].new = eventChan[1]
    OBVIOUS
<1> HIDE DEF e
<1>0. hand \in Seq(Changes) /\ e \in Seq(Changes)
    BY <1>1, <1>4
<1>7. /\ Ahead \in Seq(Changes) /\ Len(Ahead) = Len(hand) + Len(e)
      /\ \A i \in 1..(Len(hand) + Len(e)) :
             Ahead[i] = IF i <= Len(hand) THEN hand[i] ELSE e[i - Len(hand)]
    BY <1>0, <1>5, ConcatElements
<1>8. CASE hand # <<>>
  <2>1. Len(hand) = 1 /\ Len(e) = 0
    BY <1>1, <1>2, <1>4, <1>8
  <2>2. Len(Ahead) = 1 /\ Ahead[1] = hand[1]
    BY <1>7, <2>1
  <2>3. Ahead[1].previous = announced.tool /\ Ahead[1].new = From
    BY <1>8, <2>2 DEF Linked, From
  <2>4. Len(Ahead) \in {0, 1} /\ Len(Ahead) # 0
    BY <2>2
  <2>. QED BY <1>7, <2>3, <2>4
<1>9. CASE hand = <<>> /\ eventChan # <<>>
  <2>1. Len(hand) = 0 /\ Len(e) = 1 /\ Len(eventChan) = 1
    BY <1>1, <1>2, <1>4, <1>9
  <2>2. Len(Ahead) = 1 /\ Ahead[1] = e[1]
    BY <1>7, <2>1
  <2>3. Ahead[1].previous = announced.tool /\ Ahead[1].new = From
    BY <1>2, <1>6, <1>9, <2>1, <2>2 DEF From
  <2>4. Len(Ahead) \in {0, 1} /\ Len(Ahead) # 0
    BY <2>2
  <2>. QED BY <1>7, <2>3, <2>4
<1>10. CASE hand = <<>> /\ eventChan = <<>>
  <2>1. Len(Ahead) = 0
    BY <1>1, <1>4, <1>7, <1>10
  <2>2. Len(Ahead) \in {0, 1} /\ Len(Ahead) # 1
    BY <2>1
  <2>3. From = announced.tool
    BY <1>10 DEF From
  <2>. QED BY <1>7, <1>10, <2>2, <2>3
<1>. QED BY <1>8, <1>9, <1>10

LEMMA PathFollows ==
    ASSUME ToolInv, Linked
    PROVE  IF OnTheWay = <<>>
              THEN announced = [tool |-> detected, icon |-> detected]
              ELSE /\ OnTheWay[1].previous = announced.tool
                   /\ OnTheWay[Len(OnTheWay)].new = detected
                   /\ \A i \in 1..(Len(OnTheWay) - 1) :
                          OnTheWay[i].new = OnTheWay[i + 1].previous
<1> DEFINE path == OnTheWay
           n == Len(changeChan)
           a == Len(Ahead)
<1>1. changeChan \in Seq(Changes) /\ n \in Nat /\ Len(<<>>) = 0
    BY DEF ToolInv, OutputTypeInv, ToolTypes
<1>2. /\ Ahead \in Seq(Changes) /\ a \in {0, 1}
      /\ a = 1 => Ahead[1].previous = announced.tool /\ Ahead[1].new = From
      /\ a = 0 => From = announced.tool /\ hand = <<>> /\ eventChan = <<>>
    BY AheadElements
<1>3. path = Ahead \o changeChan
    BY DEF OnTheWay, Ahead
<1>4. /\ path \in Seq(Changes) /\ Len(path) = a + n
      /\ \A i \in 1..(a + n) : path[i] = IF i <= a THEN Ahead[i] ELSE changeChan[i - a]
    BY <1>1, <1>2, <1>3, ConcatElements
<1>5. n = 0 <=> changeChan = <<>>
    BY <1>1
<1>6. path = <<>> <=> a + n = 0
    BY <1>4
<1> HIDE DEF path, n, a
<1>7. CASE a = 0 /\ n = 0
  <2>1. announced.tool = detected /\ announced.icon = detected
    BY <1>2, <1>5, <1>7 DEF Linked
  <2>2. announced \in [tool : AnyTool, icon : AnyTool]
    BY DEF ToolInv, OutputTypeInv, ToolTypes
  <2>3. announced = [tool |-> detected, icon |-> detected]
    BY <2>1, <2>2
  <2>4. path = <<>>
    BY <1>6, <1>7
  <2>. QED BY <2>3, <2>4 DEF path
<1>8. CASE a = 0 /\ n # 0
  <2>1. n > 0 /\ path # <<>> /\ Len(path) = n
    BY <1>1, <1>4, <1>6, <1>8
  <2>2. \A i \in 1..n : path[i] = changeChan[i]
    BY <1>1, <1>4, <1>8
  <2>3. path[1].previous = announced.tool /\ path[n].new = detected
    BY <1>1, <1>2, <1>5, <1>8, <2>1, <2>2 DEF Linked, n
  <2>4. ASSUME NEW i \in 1..(n - 1) PROVE path[i].new = path[i + 1].previous
    <3>1. i \in 1..n /\ i + 1 \in 1..n
      BY <1>1
    <3>2. changeChan[i].new = changeChan[i + 1].previous
      BY DEF Linked, n
    <3>. QED BY <2>2, <3>1, <3>2
  <2>. QED BY <2>1, <2>3, <2>4 DEF path
<1>9. CASE a = 1
  <2>1. path # <<>> /\ Len(path) = n + 1
    BY <1>1, <1>4, <1>6, <1>9
  <2>2. path[1] = Ahead[1] /\ \A i \in 1..n : path[i + 1] = changeChan[i]
    BY <1>1, <1>4, <1>9
  <2>3. path[1].previous = announced.tool /\ path[1].new = From
    BY <1>2, <1>9, <2>2
  <2>4. path[n + 1].new = detected
    <3>1. CASE n = 0
      BY <1>5, <2>3, <3>1 DEF Linked
    <3>2. CASE n # 0
      BY <1>1, <1>5, <2>2, <3>2 DEF Linked, n
    <3>. QED BY <3>1, <3>2
  <2>5. ASSUME NEW i \in 1..n PROVE path[i].new = path[i + 1].previous
    <3>1. CASE i = 1
      BY <1>1, <1>5, <2>2, <2>3, <3>1 DEF Linked
    <3>2. CASE i # 1
      <4>1. i - 1 \in 1..(n - 1) /\ (i - 1) + 1 = i /\ i - 1 \in 1..n
        BY <1>1, <3>2
      <4>2. changeChan[i - 1].new = changeChan[(i - 1) + 1].previous
        BY <4>1 DEF Linked, n
      <4>3. path[(i - 1) + 1] = changeChan[i - 1] /\ path[i + 1] = changeChan[i]
        BY <2>2, <4>1
      <4>. QED BY <4>1, <4>2, <4>3
    <3>. QED BY <3>1, <3>2
  <2>6. 1..(Len(path) - 1) = 1..n
    BY <1>1, <2>1
  <2>. QED BY <2>1, <2>3, <2>4, <2>5, <2>6 DEF path
<1>. QED BY <1>2, <1>7, <1>8, <1>9

\* Tools detected in the output reach the bus in order: the announced one leads to
\* the detected one by the changes on the way, unless one found changeChan full;
\* and OnOutput never sends on a channel that StopDetection has closed.
LEMMA ToolsFollow == OutputSpec => []ToolFollows
<1>1. OutputInit => ToolInv
    BY ToolInvInit
<1>2. ToolInv /\ [OutputNext]_outputVars => ToolInv'
    BY ToolInvStep
<1>3. ToolInv => ToolFollows
  <2>. SUFFICES ASSUME ToolInv PROVE ToolFollows
    OBVIOUS
  <2>1. CASE overran
    BY <2>1 DEF ToolInv, ToolFollows
  <2>2. CASE ~overran
    BY <2>2, PathFollows DEF ToolInv, ToolFollows
  <2>. QED BY <2>1, <2>2
<1>. QED BY <1>1, <1>2, <1>3, PTL DEF OutputSpec

-----------------------------------------------------------------------------
(* The output of the sinks.                                                *)

\* The sink has been added, as far as those who add it can tell.
Begun(s) ==
    /\ s = "recorder" => setup # "recorder"
    /\ s = "handler" => setup \notin {"recorder", "handler"}
    /\ s = "bus" => setup \in {"monitor", "stored"}
    /\ s \in Viewers => viewer[s] = "serve"

\* No sink is on the list twice.
ListInv ==
    /\ \A p, q \in 1..Len(outputSinks) : outputSinks[p] = outputSinks[q] => p = q
    /\ \A p \in 1..Len(outputSinks) : Begun(outputSinks[p])

\* What a sink has taken before it is added.
RestInv ==
    /\ \A s \in {"recorder", "bus"} : ~Begun(s) => taken[s] = <<>>
    /\ \A v \in Viewers :
          /\ viewer[v] \in {"away", "gone"} => replay[v] = <<>> /\ taken[v] = <<>>
          /\ viewer[v] = "history" => taken[v] = <<>>
          /\ viewer[v] = "add" => taken[v] = replay[v]

\* Only after the last broadcast is the recorder closed without a kill.
ClosedInv == ~recorderOpen /\ kill = "none" => capturing = "over"

\* Up to which chunk the broadcasts have come at position p of the list.
Delivered(p) ==
    IF capturing \in {"store", "sinks"} \/ (capturing = "turns" /\ p >= turn)
       THEN outputs - 1 ELSE outputs

\* Sink s accepts what is written to it.
Live(s) ==
    /\ s = "recorder" => recorderOpen \/ kill = "none"
    /\ s \in Viewers => linked[s]

\* Sink s has taken all up to chunk d.
Reached(s, d) ==
    \/ Len(taken[s]) > History(s) /\ taken[s][Len(taken[s])] = d
    \/ Len(taken[s]) = History(s) /\ (d = joined[s] - 1 \/ d = joined[s])

SinkOrderInv == \A s \in Keepers : InOrder(s)
ReachInv == \A p \in 1..Len(outputSinks) :
               outputSinks[p] \in Keepers /\ Live(outputSinks[p])
                   => Reached(outputSinks[p], Delivered(p))

FollowInv == /\ OutputTypeInv /\ ShutInv /\ ListInv /\ RestInv /\ ClosedInv
             /\ SinkOrderInv /\ ReachInv

LEMMA FollowTypes ==
    ASSUME FollowInv
    PROVE  /\ outputs \in Nat /\ turn \in Nat /\ outputSinks \in Seq(Sinks)
           /\ Len(outputSinks) \in Nat
           /\ \A p \in 1..Len(outputSinks) : outputSinks[p] \in Sinks
           /\ \A s \in Keepers : taken[s] \in Seq(Chunks) /\ Len(taken[s]) \in Nat
                                 /\ joined[s] \in Nat /\ History(s) \in Nat
<1>1. CaptureTypes /\ SeqTypes /\ JoinTypes
    BY DEF FollowInv, OutputTypeInv
<1>2. outputs \in Nat /\ outputSinks \in Seq(Sinks) /\ Len(outputSinks) \in Nat
    BY <1>1, OutputBounds DEF CaptureTypes
<1>3. turn \in Nat /\ \A p \in 1..Len(outputSinks) : outputSinks[p] \in Sinks
    BY <1>1, <1>2 DEF CaptureTypes
<1>4. \A s \in Keepers : taken[s] \in Seq(Chunks) /\ joined[s] \in 0..MaxOutputs
    BY <1>1, SinkNames DEF SeqTypes, JoinTypes
<1>5. \A s \in Keepers : Len(taken[s]) \in Nat /\ joined[s] \in Nat
    BY <1>4, OutputBounds
<1>6. \A v \in Viewers : replay[v] \in Seq(Chunks)
    BY <1>1 DEF SeqTypes
<1>7. \A s \in Keepers : History(s) \in Nat
    BY <1>6 DEF History
<1>. QED BY <1>2, <1>3, <1>4, <1>5, <1>7

LEMMA FollowInit == OutputInit => FollowInv
<1>. SUFFICES ASSUME OutputInit PROVE FollowInv
    OBVIOUS
<1>1. OutputTypeInv
    BY OutputTypeInit
<1>2. ShutInv /\ ClosedInv
    BY DEF OutputInit, ShutInv, ClosedInv
<1>3. Len(<<>>) = 0 /\ outputSinks = <<>> /\ \A s \in Keepers : taken[s] = <<>>
    BY DEF OutputInit
<1>4. ListInv /\ ReachInv
    BY <1>3 DEF ListInv, ReachInv
<1>5. RestInv
    BY <1>3, SinkNames DEF OutputInit, RestInv
<1>6. ASSUME NEW s \in Keepers PROVE InOrder(s)
  <2>1. Len(taken[s]) = 0 /\ History(s) = 0
    BY <1>3 DEF OutputInit, History
  <2>. QED BY <2>1 DEF InOrder
<1>. QED BY <1>1, <1>2, <1>4, <1>5, <1>6 DEF FollowInv, SinkOrderInv

LEMMA ClosedStep ==
    ASSUME CaptureTypes, ShutInv, ClosedInv, [OutputNext]_outputVars
    PROVE  ClosedInv'
<1>1. CASE CapRead \/ CapStore \/ CapLock \/ CapEof \/ CapEmit
    BY <1>1 DEF CapRead, CapStore, CapLock, CapEof, CapEmit, endVars, ClosedInv
<1>2. CASE WriteRecorder \/ WriteBus \/ WriteHandler \/ \E v \in Viewers : WriteViewer(v)
  <2>1. turn # 0 /\ UNCHANGED <<recorderOpen, kill>>
    BY <1>2 DEF WriteRecorder, WriteBus, WriteHandler, WriteViewer, WriteTo, endVars
  <2>. QED BY <2>1 DEF CaptureTypes, ClosedInv
<1>3. CASE SettingUp
    BY <1>3 DEF SettingUp, SetupRecording, SetupToolHandler, SetupEventBusSink, StartMonitor,
       captureVars, endVars, ClosedInv
<1>4. CASE Ending
    BY <1>4 DEF Ending, MonitorTakes, MonitorEnds, StopDetection, MonitorNotifies,
       KillStops, KillNotifies, captureVars, ShutInv, ClosedInv
<1>5. CASE Detecting
    BY <1>5 DEF Detecting, DetectorFirst, DetectorChange, DetectorTell, captureVars, endVars,
       ClosedInv
<1>6. ASSUME NEW v \in Viewers, Viewing(v) PROVE ClosedInv'
    BY <1>6 DEF Viewing, ReadHistory, SendHistory, JoinSinks, RemoveSink, captureVars, endVars,
       ClosedInv
<1>7. CASE UNCHANGED outputVars
    BY <1>7 DEF outputVars, captureVars, endVars, ClosedInv
<1>. QED BY <1>1, <1>2, <1>3, <1>4, <1>5, <1>6, <1>7 DEF OutputNext, Capturing

\* A sink of which nothing changes.
OutputKept(s) == taken'[s] = taken[s] /\ History(s)' = History(s) /\ joined'[s] = joined[s]

LEMMA KeptInvs ==
    ASSUME NEW s, OutputKept(s)
    PROVE  /\ InOrder(s) => InOrder(s)'
           /\ \A d : Reached(s, d) => (Reached(s, d))'
    BY DEF OutputKept, InOrder, Reached

\* When no broadcast is at work all positions have come equally far.
LEMMA DeliveredAt ==
    ASSUME FollowInv, NEW p \in Nat, turn = 0
    PROVE  /\ Delivered(p) \in {outputs - 1, outputs}
           /\ \A q \in Nat : Delivered(q) = Delivered(p)
           /\ UNCHANGED captureVars => Delivered(p)' = Delivered(p)
<1>1. capturing # "turns"
    BY DEF FollowInv, OutputTypeInv, CaptureTypes
<1>. QED BY <1>1 DEF Delivered, captureVars

\* Steps that leave the sinks alone.
LEMMA RestQuiet ==
    ASSUME FollowInv, UNCHANGED <<taken, replay, viewer>>,
           \A s \in Sinks : Begun(s) => Begun(s)'
    PROVE  RestInv'
<1>1. \A s \in {"recorder", "bus"} : s \in Sinks
    BY SinkNames
<1>. QED BY <1>1 DEF FollowInv, RestInv

LEMMA QuietStep ==
    ASSUME FollowInv, UNCHANGED <<outputSinks, taken, joined, replay, viewer>>,
           \A s \in Sinks : Begun(s) => Begun(s)',
           \A s \in Keepers : Live(s)' => Live(s),
           \A p \in 1..Len(outputSinks) : Delivered(p)' = Delivered(p)
    PROVE  ListInv' /\ RestInv' /\ SinkOrderInv' /\ ReachInv'
<1>0. \A p \in 1..Len(outputSinks) : outputSinks[p] \in Sinks
    BY FollowTypes
<1>1. ListInv'
    BY <1>0 DEF FollowInv, ListInv
<1>2. RestInv'
    BY RestQuiet
<1>3. \A s \in Keepers : OutputKept(s)
    BY DEF OutputKept, History
<1>4. SinkOrderInv'
    BY <1>3, KeptInvs DEF FollowInv, SinkOrderInv
<1>5. ReachInv'
    BY <1>3, KeptInvs DEF FollowInv, ReachInv
<1>. QED BY <1>1, <1>2, <1>4, <1>5

\* A sink that accepts the chunk of the broadcast.
LEMMA AcceptFollows ==
    ASSUME FollowInv, NEW s \in Keepers, Reached(s, outputs - 1), InOrder(s),
           taken'[s] = Append(taken[s], outputs), UNCHANGED <<outputs, joined, replay>>
    PROVE  InOrder(s)' /\ (Reached(s, outputs))'
<1> DEFINE n == Len(taken[s])
           h == History(s)
<1>1. /\ n \in Nat /\ h \in Nat /\ joined[s] \in Nat /\ outputs \in Nat
      /\ taken[s] \in Seq(Chunks)
    BY FollowTypes
<1>2. outputs \in Chunks \/ outputs \notin Chunks
    OBVIOUS
<1>3. /\ Len(taken'[s]) = n + 1 /\ \A i \in 1..n : taken'[s][i] = taken[s][i]
      /\ taken'[s][n + 1] = outputs
  <2>1. taken[s] \in Seq(Nat) /\ outputs \in Nat
    BY <1>1, OutputBounds DEF Chunks
  <2>. QED BY <2>1, AppendElements
<1>4. h = History(s)' /\ joined'[s] = joined[s] /\ outputs' = outputs
    BY DEF History
<1>5. (n > h /\ taken[s][n] = outputs - 1)
      \/ (n = h /\ (outputs = joined[s] \/ outputs = joined[s] + 1))
    BY <1>1 DEF Reached
<1> HIDE DEF n, h
<1>6. (Reached(s, outputs))'
    BY <1>1, <1>3, <1>4, <1>5 DEF Reached
<1>7. \A i \in (h + 1)..n :
          /\ taken[s][i] = joined[s] + (i - h) - 1 \/ taken[s][i] = joined[s] + (i - h)
          /\ i - h > 1 => taken[s][i] = taken[s][i - 1] + 1
    BY DEF InOrder, n, h
<1>8. ASSUME NEW i \in (h + 1)..(n + 1)
      PROVE  /\ \/ taken'[s][i] = joined[s] + (i - h) - 1
                \/ taken'[s][i] = joined[s] + (i - h)
             /\ i - h > 1 => taken'[s][i] = taken'[s][i - 1] + 1
  <2>1. CASE i \in (h + 1)..n
    <3>1. taken'[s][i] = taken[s][i]
      BY <1>1, <1>3, <2>1
    <3>2. i - h > 1 => taken'[s][i - 1] = taken[s][i - 1]
      BY <1>1, <1>3, <2>1
    <3>. QED BY <1>7, <2>1, <3>1, <3>2
  <2>2. CASE i = n + 1 /\ n = h
    <3>1. taken'[s][i] = outputs /\ i - h = 1
      BY <1>1, <1>3, <2>2
    <3>2. outputs = joined[s] \/ outputs = joined[s] + 1
      BY <1>1, <1>5, <2>2
    <3>. QED BY <1>1, <3>1, <3>2
  <2>3. CASE i = n + 1 /\ n > h
    <3>1. n \in (h + 1)..n /\ n \in 1..n
      BY <1>1, <2>3
    <3>0. i - 1 = n
      BY <1>1, <2>3
    <3>2. taken'[s][i] = outputs /\ taken'[s][i - 1] = taken[s][n]
      BY <1>3, <2>3, <3>0, <3>1
    <3>3. taken[s][n] = outputs - 1
      BY <1>1, <1>5, <2>3
    <3>4. taken[s][n] = joined[s] + (n - h) - 1 \/ taken[s][n] = joined[s] + (n - h)
      BY <1>7, <3>1
    <3>5. outputs = joined[s] + (i - h) - 1 \/ outputs = joined[s] + (i - h)
      <4> DEFINE j == joined[s]
                 k == n - h
                 l == i - h
      <4>1. outputs - 1 = j + k - 1 \/ outputs - 1 = j + k
        BY <3>3, <3>4
      <4>2. l = k + 1 /\ k \in Int /\ l \in Int /\ j \in Nat
        BY <1>1, <2>3
      <4> HIDE DEF j, k, l
      <4>3. outputs = j + l - 1 \/ outputs = j + l
        BY <1>1, <4>1, <4>2
      <4>. QED BY <4>3 DEF j, l
    <3>. QED BY <1>1, <3>2, <3>3, <3>5
  <2>4. i \in (h + 1)..n \/ i = n + 1
    BY <1>1
  <2>. QED BY <1>5, <2>1, <2>2, <2>3, <2>4
<1>9. InOrder(s)'
    BY <1>3, <1>4, <1>8 DEF InOrder
<1>. QED BY <1>6, <1>9

LEMMA WriteFollows ==
    ASSUME FollowInv, NEW s \in Sinks, WriteTo(s),
           UNCHANGED <<outputSinks, joined, replay, viewer, setup>>,
           \A x \in Keepers : x # s => taken'[x] = taken[x] /\ (Live(x)' => Live(x)),
           s \in Keepers =>
               \/ Live(s) /\ taken'[s] = Append(taken[s], outputs)
               \/ ~(Live(s)') /\ taken'[s] = taken[s]
    PROVE  ListInv' /\ RestInv' /\ SinkOrderInv' /\ ReachInv'
<1>1. /\ turn \in 1..Len(outputSinks) /\ Len(outputSinks) \in Nat /\ capturing = "turns"
      /\ outputSinks[turn] = s /\ outputs' = outputs /\ outputs \in Nat
    BY FollowTypes DEF FollowInv, OutputTypeInv, CaptureTypes, WriteTo
<1>2. Begun(s)
    BY <1>1 DEF FollowInv, ListInv
<1>3. ListInv'
    BY DEF FollowInv, ListInv, Begun
<1>4. RestInv'
  <2>1. ASSUME NEW x \in {"recorder", "bus"}, ~(Begun(x)') PROVE taken'[x] = <<>>
    <3>1. ~Begun(x) /\ x \in Keepers
      BY <2>1, SinkNames DEF Begun
    <3>. QED BY <1>2, <3>1 DEF FollowInv, RestInv
  <2>2. ASSUME NEW v \in Viewers, viewer[v] # "serve" PROVE taken'[v] = taken[v]
    BY <1>2, <2>2, SinkNames DEF Begun
  <2>. QED BY <2>1, <2>2 DEF FollowInv, RestInv
<1>5. \A x \in Keepers : x # s => OutputKept(x)
    BY DEF OutputKept, History
<1>6. Delivered(turn) = outputs - 1
    BY <1>1 DEF Delivered
<1>7. s \in Keepers /\ Live(s) => Reached(s, outputs - 1) /\ InOrder(s)
    BY <1>1, <1>6 DEF FollowInv, ReachInv, SinkOrderInv
<1>8. ASSUME s \in Keepers PROVE InOrder(s)' /\ (Live(s)' => (Reached(s, outputs))')
  <2>1. CASE Live(s) /\ taken'[s] = Append(taken[s], outputs)
    BY <1>1, <1>7, <1>8, <2>1, AcceptFollows
  <2>2. CASE ~(Live(s)') /\ taken'[s] = taken[s]
    <3>1. OutputKept(s)
      BY <2>2 DEF OutputKept, History
    <3>. QED BY <1>8, <2>2, <3>1, KeptInvs DEF FollowInv, SinkOrderInv
  <2>. QED BY <1>8, <2>1, <2>2
<1>9. SinkOrderInv'
    BY <1>5, <1>8, KeptInvs DEF FollowInv, SinkOrderInv
<1>10. ASSUME NEW p \in 1..Len(outputSinks), p # turn
       PROVE  Delivered(p)' = Delivered(p)
    BY <1>1, <1>10 DEF Delivered, WriteTo
<1>11. ASSUME NEW p \in 1..Len(outputSinks), p = turn
       PROVE  Delivered(p)' = outputs
  <2>1. CASE turn = Len(outputSinks)
    BY <1>1, <1>11, <2>1 DEF Delivered, WriteTo
  <2>2. CASE turn # Len(outputSinks)
    BY <1>1, <1>11, <2>2 DEF Delivered, WriteTo
  <2>. QED BY <2>1, <2>2
<1>12. ReachInv'
  <2>1. SUFFICES ASSUME NEW p \in 1..Len(outputSinks), outputSinks[p] \in Keepers,
                        Live(outputSinks[p])'
                 PROVE  (Reached(outputSinks[p], Delivered(p)))'
    BY DEF ReachInv
  <2>2. CASE outputSinks[p] # s
    <3>1. p # turn
      BY <1>1, <2>2
    <3>. QED BY <1>5, <1>10, <2>1, <2>2, <3>1, KeptInvs DEF FollowInv, ReachInv
  <2>3. CASE outputSinks[p] = s
    <3>1. p = turn
      BY <1>1, <2>3 DEF FollowInv, ListInv
    <3>2. Delivered(p)' = outputs' /\ outputSinks'[p] = s
      BY <1>1, <1>11, <2>3, <3>1
    <3>3. s \in Keepers /\ Live(s)'
      BY <2>1, <2>3
    <3>. QED BY <1>8, <3>2, <3>3
  <2>. QED BY <2>2, <2>3
<1>. QED BY <1>3, <1>4, <1>9, <1>12

LEMMA AddFollows ==
    ASSUME FollowInv, NEW s \in Sinks, AddSink(s), UNCHANGED captureVars,
           UNCHANGED <<taken, replay>>, ~Begun(s), Begun(s)',
           \A x \in Sinks : Begun(x) => Begun(x)', \A x \in Keepers : Live(x)' => Live(x),
           s \in Keepers => Len(taken[s]) = History(s)
    PROVE  ListInv' /\ SinkOrderInv' /\ ReachInv'
<1> DEFINE n == Len(outputSinks)
<1>1. /\ outputs \in Nat /\ n \in Nat /\ outputSinks \in Seq(Sinks)
      /\ \A p \in 1..n : outputSinks[p] \in Sinks
    BY FollowTypes
<1>2. /\ Len(outputSinks') = n + 1 /\ outputSinks'[n + 1] = s
      /\ \A p \in 1..n : outputSinks'[p] = outputSinks[p]
  <2>1. outputSinks' = Append(outputSinks, s)
    BY DEF AddSink
  <2>. QED BY <1>1, <2>1, AppendElements
<1>3. /\ turn = 0 /\ joined'[s] = outputs
      /\ \A x \in Sinks : x # s => joined'[x] = joined[x]
  <2>1. joined \in [Sinks -> 0..MaxOutputs]
    BY DEF FollowInv, OutputTypeInv, JoinTypes
  <2>. QED BY <2>1 DEF AddSink, SinksFree
<1>4. \A p \in 1..n : Begun(outputSinks[p]) /\ outputSinks[p] # s
    BY DEF FollowInv, ListInv
<1> HIDE DEF n
<1>5. ListInv'
  <2>1. ASSUME NEW p \in 1..(n + 1), NEW q \in 1..(n + 1), outputSinks'[p] = outputSinks'[q]
        PROVE  p = q
    <3>1. \A r \in 1..(n + 1) : r \in 1..n \/ r = n + 1
      BY <1>1
    <3>2. \A i, j \in 1..n : outputSinks[i] = outputSinks[j] => i = j
      BY DEF FollowInv, ListInv, n
    <3>. QED BY <1>2, <1>4, <2>1, <3>1, <3>2
  <2>2. ASSUME NEW p \in 1..(n + 1) PROVE Begun(outputSinks[p])'
    <3>1. CASE p \in 1..n
      <4>1. outputSinks'[p] = outputSinks[p] /\ Begun(outputSinks[p]) /\ outputSinks[p] \in Sinks
        BY <1>1, <1>2, <1>4, <3>1
      <4>. QED BY <4>1
    <3>2. CASE p = n + 1
      <4>1. outputSinks'[p] = s
        BY <1>2, <3>2
      <4>. QED BY <4>1
    <3>. QED BY <1>1, <3>1, <3>2
  <2>. QED BY <1>2, <2>1, <2>2 DEF ListInv
<1>6. \A x \in Keepers : x # s => OutputKept(x)
    BY <1>3, SinkNames DEF OutputKept, History
<1>7. ASSUME s \in Keepers PROVE InOrder(s)'
  <2>1. Len(taken'[s]) = History(s)' /\ Len(taken'[s]) \in Nat
    BY <1>7, FollowTypes DEF History
  <2>. QED BY <2>1 DEF InOrder
<1>8. SinkOrderInv'
    BY <1>6, <1>7, KeptInvs DEF FollowInv, SinkOrderInv
<1>9. ASSUME NEW p \in 1..(n + 1), outputSinks'[p] \in Keepers, Live(outputSinks[p])'
      PROVE  (Reached(outputSinks[p], Delivered(p)))'
  <2>1. Delivered(p)' = Delivered(p) /\ Delivered(p) \in {outputs - 1, outputs}
    BY <1>1, <1>3, DeliveredAt
  <2>2. CASE p \in 1..n
    <3>1. outputSinks'[p] = outputSinks[p] /\ outputSinks[p] # s
      BY <1>2, <1>4, <2>2
    <3>2. Reached(outputSinks[p], Delivered(p)) /\ OutputKept(outputSinks[p])
      BY <1>6, <1>9, <2>2, <3>1 DEF FollowInv, ReachInv, n
    <3>. QED BY <2>1, <3>1, <3>2, KeptInvs
  <2>3. CASE p = n + 1
    <3>1. outputSinks'[p] = s /\ s \in Keepers
      BY <1>2, <1>9, <2>3
    <3>2. Len(taken'[s]) = History(s)'
      BY <3>1 DEF History
    <3>. QED BY <1>3, <2>1, <3>1, <3>2 DEF Reached
  <2>. QED BY <1>1, <2>2, <2>3
<1>10. ReachInv'
    BY <1>2, <1>9 DEF ReachInv
<1>. QED BY <1>5, <1>8, <1>10

\* A step of one viewer that is not, or no longer, on the list.
LEMMA ApartFollows ==
    ASSUME FollowInv, NEW v \in Viewers, UNCHANGED <<captureVars, setup>>,
           \A x \in Keepers : x # v => OutputKept(x) /\ (Live(x)' => Live(x)),
           \A u \in Viewers : u # v => viewer'[u] = viewer[u],
           InOrder(v)',
           \/ UNCHANGED outputSinks /\ viewer[v] # "serve"
           \/ turn = 0 /\ Unlist(v)
    PROVE  ListInv' /\ SinkOrderInv' /\ ReachInv'
<1> DEFINE n == Len(outputSinks)
           m == Len(outputSinks')
<1>1. /\ outputs \in Nat /\ n \in Nat /\ outputSinks \in Seq(Sinks)
      /\ \A p \in 1..n : outputSinks[p] \in Sinks
    BY FollowTypes
<1>2. v \in Keepers /\ v \in Sinks /\ v # "recorder" /\ v # "bus" /\ v # "handler"
    BY SinkNames, OutputBounds
<1>3. /\ \A p, q \in 1..n : outputSinks[p] = outputSinks[q] => p = q
      /\ \A p \in 1..n : Begun(outputSinks[p])
    BY DEF FollowInv, ListInv
<1>4. \A x \in Sinks : x # v /\ Begun(x) => Begun(x)'
    BY DEF Begun
<1>5. /\ \A q \in 1..m : \E r \in 1..n :
             /\ outputSinks'[q] = outputSinks[r] /\ outputSinks[r] # v
             /\ Delivered(q)' = Delivered(r)
      /\ \A a, b \in 1..m : outputSinks'[a] = outputSinks'[b] => a = b
  <2>1. CASE UNCHANGED outputSinks /\ viewer[v] # "serve"
    <3>1. \A q \in 1..n : outputSinks[q] # v
      BY <1>3, <2>1 DEF Begun
    <3>2. \A q \in 1..n : Delivered(q)' = Delivered(q)
      BY DEF Delivered, captureVars
    <3>. QED BY <1>3, <2>1, <3>1, <3>2
  <2>2. CASE turn = 0 /\ Unlist(v)
    <3>1. PICK p \in 1..n : outputSinks[p] = v /\ outputSinks' = RemoveAt(outputSinks, p)
      BY <2>2 DEF Unlist
    <3>2. /\ m = n - 1
          /\ \A i \in 1..(n - 1) :
                 outputSinks'[i] = IF i < p THEN outputSinks[i] ELSE outputSinks[i + 1]
      BY <1>1, <3>1, RemoveElements
    <3> HIDE DEF n, m
    <3>3. ASSUME NEW q \in 1..m
          PROVE  \E r \in 1..n : /\ r # p /\ outputSinks'[q] = outputSinks[r]
                                 /\ r = IF q < p THEN q ELSE q + 1
      <4>1. q \in 1..(n - 1) /\ q \in 1..n /\ q + 1 \in 1..n
        BY <1>1, <3>2
      <4>2. CASE q < p
        <5>1. outputSinks'[q] = outputSinks[q] /\ q # p
          BY <3>2, <4>1, <4>2
        <5>. QED BY <4>1, <4>2, <5>1
      <4>3. CASE ~(q < p)
        <5>1. outputSinks'[q] = outputSinks[q + 1]
          BY <3>2, <4>1, <4>3
        <5>2. q + 1 # p
          BY <1>1, <4>1, <4>3
        <5>. QED BY <4>1, <4>3, <5>1, <5>2
      <4>. QED BY <4>2, <4>3
    <3>4. \A r \in 1..n : r # p => outputSinks[r] # v
      BY <1>3, <3>1 DEF n
    <3>5. \A q, r \in Nat : Delivered(q)' = Delivered(r)
      BY <2>2, DeliveredAt
    <3>6. ASSUME NEW a \in 1..m, NEW b \in 1..m, outputSinks'[a] = outputSinks'[b] PROVE a = b
      <4>1. PICK r \in 1..n : /\ outputSinks'[a] = outputSinks[r]
                              /\ r = IF a < p THEN a ELSE a + 1
        BY <3>3
      <4>2. PICK t \in 1..n : /\ outputSinks'[b] = outputSinks[t]
                              /\ t = IF b < p THEN b ELSE b + 1
        BY <3>3
      <4>3. r = t
        BY <1>3, <3>6, <4>1, <4>2 DEF n
      <4>4. a \in Nat /\ b \in Nat /\ p \in Nat
        BY <1>1, <3>2
      <4>. QED BY <4>1, <4>2, <4>3, <4>4
    <3>7. ASSUME NEW q \in 1..m
          PROVE  \E r \in 1..n : /\ outputSinks'[q] = outputSinks[r] /\ outputSinks[r] # v
                                 /\ Delivered(q)' = Delivered(r)
      <4>1. PICK r \in 1..n : r # p /\ outputSinks'[q] = outputSinks[r]
        BY <3>3
      <4>2. q \in Nat /\ r \in Nat
        BY <1>1, <3>2
      <4>. QED BY <3>4, <3>5, <4>1, <4>2
    <3>. QED BY <3>6, <3>7
  <2>. QED BY <2>1, <2>2
<1> HIDE DEF n, m
<1>6. ListInv'
  <2>1. ASSUME NEW q \in 1..m PROVE Begun(outputSinks[q])'
    <3>1. PICK r \in 1..n : outputSinks'[q] = outputSinks[r] /\ outputSinks[r] # v
      BY <1>5
    <3>2. Begun(outputSinks[r]) /\ outputSinks[r] \in Sinks
      BY <1>1, <1>3, <3>1
    <3>. QED BY <1>4, <3>1, <3>2
  <2>. QED BY <1>5, <2>1 DEF ListInv, m
<1>7. SinkOrderInv'
    BY KeptInvs DEF FollowInv, SinkOrderInv
<1>8. ASSUME NEW q \in 1..m, outputSinks'[q] \in Keepers, Live(outputSinks[q])'
      PROVE  (Reached(outputSinks[q], Delivered(q)))'
  <2>1. PICK r \in 1..n : /\ outputSinks'[q] = outputSinks[r] /\ outputSinks[r] # v
                          /\ Delivered(q)' = Delivered(r)
    BY <1>5
  <2>2. Live(outputSinks[r]) /\ OutputKept(outputSinks[r])
    BY <1>8, <2>1
  <2>3. Reached(outputSinks[r], Delivered(r))
    BY <1>8, <2>1, <2>2 DEF FollowInv, ReachInv, n
  <2>. QED BY <2>1, <2>2, <2>3, KeptInvs
<1>9. ReachInv'
    BY <1>8 DEF ReachInv, m
<1>. QED BY <1>6, <1>7, <1>9

\* What one viewer's step may change.
LEMMA RestApart ==
    ASSUME FollowInv, NEW v \in Viewers, UNCHANGED setup,
           \A x \in Keepers : x # v => taken'[x] = taken[x],
           \A u \in Viewers : u # v => viewer'[u] = viewer[u] /\ replay'[u] = replay[u],
           viewer'[v] \in {"away", "gone"} => replay'[v] = <<>> /\ taken'[v] = <<>>,
           viewer'[v] = "history" => taken'[v] = <<>>,
           viewer'[v] = "add" => taken'[v] = replay'[v]
    PROVE  RestInv'
<1>1. v # "recorder" /\ v # "bus" /\ v \in Keepers
    BY SinkNames, OutputBounds
<1>2. ASSUME NEW x \in {"recorder", "bus"}, ~(Begun(x)') PROVE taken'[x] = <<>>
  <2>1. x \in Keepers /\ x \notin Viewers
    BY SinkNames, OutputBounds
  <2>2. ~Begun(x)
    BY <1>2, <2>1 DEF Begun
  <2>. QED BY <1>1, <2>1, <2>2 DEF FollowInv, RestInv
<1>3. ASSUME NEW u \in Viewers, u # v
      PROVE  /\ viewer'[u] \in {"away", "gone"} => replay'[u] = <<>> /\ taken'[u] = <<>>
             /\ viewer'[u] = "history" => taken'[u] = <<>>
             /\ viewer'[u] = "add" => taken'[u] = replay'[u]
  <2>1. u \in Keepers
    BY SinkNames
  <2>. QED BY <1>3, <2>1 DEF FollowInv, RestInv
<1>. QED BY <1>2, <1>3 DEF RestInv

LEMMA ViewFollows ==
    ASSUME FollowInv, NEW v \in Viewers, Viewing(v)
    PROVE  ListInv' /\ RestInv' /\ SinkOrderInv' /\ ReachInv'
<1>1. /\ taken \in [Keepers -> Seq(Chunks)] /\ replay \in [Viewers -> Seq(Chunks)]
      /\ joined \in [Sinks -> 0..MaxOutputs] /\ linked \in [Viewers -> BOOLEAN]
      /\ viewer \in [Viewers -> {"away", "history", "add", "serve", "gone"}]
    BY DEF FollowInv, OutputTypeInv, SeqTypes, JoinTypes, ViewTypes
<1>2. /\ v \in Keepers /\ v \in Sinks /\ v # "recorder" /\ v # "bus" /\ v # "handler"
      /\ Viewers \subseteq Keepers /\ Keepers \subseteq Sinks
    BY SinkNames, OutputBounds
<1>3. Len(<<>>) = 0
    OBVIOUS
<1>4. /\ viewer[v] \in {"away", "gone"} => replay[v] = <<>> /\ taken[v] = <<>>
      /\ viewer[v] = "history" => taken[v] = <<>>
      /\ viewer[v] = "add" => taken[v] = replay[v]
    BY DEF FollowInv, RestInv
<1>5. CASE ReadHistory(v)
  <2>1. PICK h \in {Window, <<>>} :
            /\ replay' = [replay EXCEPT ![v] = h]
            /\ viewer' = [viewer EXCEPT ![v] = IF h = <<>> THEN "add" ELSE "history"]
    BY <1>5 DEF ReadHistory
  <2>2. /\ replay'[v] = h /\ \A u \in Viewers : u # v => replay'[u] = replay[u]
        /\ \A u \in Viewers : u # v => viewer'[u] = viewer[u]
        /\ viewer'[v] = IF h = <<>> THEN "add" ELSE "history"
    BY <1>1, <2>1
  <2>3. UNCHANGED <<captureVars, setup, outputSinks, taken, joined, linked, recorderOpen, kill>>
    BY <1>5 DEF ReadHistory, sinkVars, endVars
  <2>4. viewer[v] = "away" /\ taken[v] = <<>>
    BY <1>4, <1>5 DEF ReadHistory
  <2>5. h \in Seq(Chunks) /\ Len(h) \in Nat
    <3>1. Window \in Seq(Chunks) /\ Len(Window) \in Nat
      BY WindowElements DEF FollowInv, OutputTypeInv
    <3>2. <<>> \in Seq(Chunks)
      OBVIOUS
    <3>. QED BY <1>3, <2>1, <3>1, <3>2
  <2>6. InOrder(v)'
    <3>1. Len(taken'[v]) = 0 /\ History(v)' \in Nat
      BY <1>3, <2>2, <2>3, <2>4, <2>5 DEF History
    <3>. QED BY <3>1 DEF InOrder
  <2>7. \A x \in Keepers : x # v => OutputKept(x) /\ (Live(x)' => Live(x))
    BY <2>2, <2>3 DEF OutputKept, History, Live
  <2>10. UNCHANGED <<captureVars, setup>> /\ UNCHANGED outputSinks /\ viewer[v] # "serve"
    BY <2>3, <2>4
  <2>8. ListInv' /\ SinkOrderInv' /\ ReachInv'
    BY <2>2, <2>6, <2>7, <2>10, ApartFollows
  <2>9. RestInv'
    BY <2>2, <2>3, <2>4, RestApart
  <2>. QED BY <2>8, <2>9
<1>6. ASSUME Forget(v), UNCHANGED <<captureVars, setup, recorderOpen, kill>>,
             \/ UNCHANGED outputSinks /\ viewer[v] # "serve"
             \/ turn = 0 /\ Unlist(v)
      PROVE  ListInv' /\ RestInv' /\ SinkOrderInv' /\ ReachInv'
  <2>1. /\ replay'[v] = <<>> /\ \A u \in Viewers : u # v => replay'[u] = replay[u]
        /\ viewer'[v] = "gone" /\ \A u \in Viewers : u # v => viewer'[u] = viewer[u]
        /\ taken'[v] = <<>> /\ \A x \in Keepers : x # v => taken'[x] = taken[x]
        /\ \A x \in Sinks : x # v => joined'[x] = joined[x]
        /\ \A u \in Viewers : u # v => linked'[u] = linked[u]
    BY <1>1, <1>2, <1>6 DEF Forget
  <2>2. InOrder(v)'
    <3>1. Len(taken'[v]) = 0 /\ History(v)' = 0
      BY <1>3, <2>1 DEF History
    <3>. QED BY <3>1 DEF InOrder
  <2>3. \A x \in Keepers : x # v => OutputKept(x) /\ (Live(x)' => Live(x))
    BY <1>2, <1>6, <2>1 DEF OutputKept, History, Live
  <2>4. ListInv' /\ SinkOrderInv' /\ ReachInv'
    BY <1>6, <2>1, <2>2, <2>3, ApartFollows
  <2>5. RestInv'
    BY <1>6, <2>1, RestApart
  <2>. QED BY <2>4, <2>5
<1>7. CASE SendHistory(v)
  <2>1. /\ viewer[v] = "history"
        /\ UNCHANGED <<captureVars, setup, outputSinks, recorderOpen, kill>>
    BY <1>7 DEF SendHistory, endVars
  <2>4. /\ UNCHANGED <<captureVars, setup>> /\ UNCHANGED <<captureVars, setup, recorderOpen, kill>>
        /\ UNCHANGED outputSinks /\ viewer[v] # "serve"
    BY <2>1
  <2>2. CASE Forget(v)
    BY <1>6, <2>2, <2>4
  <2>3. CASE /\ taken' = [taken EXCEPT ![v] = replay[v]]
             /\ viewer' = [viewer EXCEPT ![v] = "add"]
             /\ UNCHANGED <<replay, joined, linked>>
    <3>1. /\ viewer'[v] = "add" /\ \A u \in Viewers : u # v => viewer'[u] = viewer[u]
          /\ taken'[v] = replay[v] /\ \A x \in Keepers : x # v => taken'[x] = taken[x]
          /\ replay' = replay
      BY <1>1, <1>2, <2>3
    <3>2. InOrder(v)'
      <4>1. replay[v] \in Seq(Chunks)
        BY <1>1
      <4>2. Len(taken'[v]) = History(v)' /\ Len(taken'[v]) \in Nat
        BY <3>1, <4>1 DEF History
      <4>. QED BY <4>2 DEF InOrder
    <3>3. \A x \in Keepers : x # v => OutputKept(x) /\ (Live(x)' => Live(x))
      BY <2>1, <2>3, <3>1 DEF OutputKept, History, Live
    <3>4. ListInv' /\ SinkOrderInv' /\ ReachInv'
      BY <2>4, <3>1, <3>2, <3>3, ApartFollows
    <3>5. RestInv'
      BY <2>1, <3>1, RestApart
    <3>. QED BY <3>4, <3>5
  <2>. QED BY <1>7, <2>2, <2>3 DEF SendHistory
<1>8. CASE JoinSinks(v)
  <2>1. /\ viewer[v] = "add" /\ AddSink(v) /\ viewer' = [viewer EXCEPT ![v] = "serve"]
        /\ UNCHANGED <<captureVars, taken, linked, recorderOpen, kill, replay, setup>>
    BY <1>8 DEF JoinSinks, endVars
  <2>2. viewer'[v] = "serve" /\ \A u \in Viewers : u # v => viewer'[u] = viewer[u]
    BY <1>1, <2>1
  <2>3. /\ ~Begun(v) /\ Begun(v)' /\ \A x \in Sinks : Begun(x) => Begun(x)'
    BY <1>2, <2>1, <2>2 DEF Begun
  <2>4. Len(taken[v]) = History(v)
    BY <1>4, <2>1 DEF History
  <2>5. \A x \in Keepers : Live(x)' => Live(x)
    BY <2>1 DEF Live
  <2>6. ListInv' /\ SinkOrderInv' /\ ReachInv'
    BY <1>2, <2>1, <2>3, <2>4, <2>5, AddFollows
  <2>7. RestInv'
    BY <2>1, <2>2, RestApart
  <2>. QED BY <2>6, <2>7
<1>9. CASE RemoveSink(v)
  <2>1. /\ turn = 0 /\ Unlist(v) /\ Forget(v)
        /\ UNCHANGED <<captureVars, setup, recorderOpen, kill>>
    BY <1>9 DEF RemoveSink, SinksFree, endVars
  <2>. QED BY <1>6, <2>1
<1>. QED BY <1>5, <1>7, <1>8, <1>9 DEF Viewing

LEMMA SetupFollows ==
    ASSUME FollowInv, SettingUp
    PROVE  ListInv' /\ RestInv' /\ SinkOrderInv' /\ ReachInv'
<1>1. /\ UNCHANGED captureVars /\ UNCHANGED <<taken, replay, viewer>>
      /\ UNCHANGED <<linked, recorderOpen, kill>>
    BY DEF SettingUp, SetupRecording, SetupToolHandler, SetupEventBusSink, StartMonitor,
       sinkVars, endVars, viewVars
<1>2. \A x \in Sinks : Begun(x) => Begun(x)'
    BY <1>1 DEF SettingUp, SetupRecording, SetupToolHandler, SetupEventBusSink, StartMonitor,
       Begun
<1>3. \A x \in Keepers : Live(x)' => Live(x)
    BY <1>1 DEF Live
<1>4. \A p \in 1..Len(outputSinks) : Delivered(p)' = Delivered(p)
    BY <1>1 DEF Delivered, captureVars
<1>5. RestInv'
    BY <1>1, <1>2, RestQuiet
<1>6. CASE UNCHANGED <<outputSinks, joined>>
    BY <1>1, <1>2, <1>3, <1>4, <1>6, QuietStep
<1>7. ASSUME NEW s \in Sinks, AddSink(s), ~Begun(s), Begun(s)',
             s \in Keepers => s \in {"recorder", "bus"}
      PROVE  ListInv' /\ SinkOrderInv' /\ ReachInv'
  <2>1. ASSUME s \in Keepers PROVE Len(taken[s]) = History(s)
    <3>1. s \in {"recorder", "bus"} /\ s \notin Viewers /\ Len(<<>>) = 0
      BY <1>7, <2>1, OutputBounds
    <3>2. taken[s] = <<>>
      BY <1>7, <3>1 DEF FollowInv, RestInv
    <3>. QED BY <3>1, <3>2 DEF History
  <2>2. UNCHANGED <<taken, replay>>
    BY <1>1
  <2>. QED BY <1>1, <1>2, <1>3, <1>7, <2>1, <2>2, AddFollows
<1>8. /\ "recorder" \in Sinks /\ "bus" \in Sinks /\ "handler" \in Sinks /\ "handler" \notin Keepers
      /\ "recorder" \notin Viewers /\ "bus" \notin Viewers /\ "handler" \notin Viewers
    BY SinkNames, OutputBounds
<1>9. CASE SetupRecording
  <2>1. ~Begun("recorder") /\ Begun("recorder")'
    BY <1>8, <1>9 DEF SetupRecording, Begun
  <2>. QED BY <1>5, <1>6, <1>7, <1>8, <1>9, <2>1 DEF SetupRecording
<1>10. CASE SetupToolHandler
  <2>1. ~Begun("handler") /\ Begun("handler")'
    BY <1>8, <1>10 DEF SetupToolHandler, Begun
  <2>. QED BY <1>5, <1>6, <1>7, <1>8, <1>10, <2>1 DEF SetupToolHandler
<1>11. CASE SetupEventBusSink
  <2>1. ~Begun("bus") /\ Begun("bus")'
    BY <1>8, <1>11 DEF SetupEventBusSink, Begun
  <2>. QED BY <1>5, <1>7, <1>8, <1>11, <2>1 DEF SetupEventBusSink
<1>12. CASE StartMonitor
    BY <1>6, <1>12 DEF StartMonitor, sinkVars
<1>. QED BY <1>9, <1>10, <1>11, <1>12 DEF SettingUp

LEMMA CaptureFollows ==
    ASSUME FollowInv, CapRead \/ CapStore \/ CapLock \/ CapEof \/ CapEmit
    PROVE  ListInv' /\ RestInv' /\ SinkOrderInv' /\ ReachInv'
<1>1. /\ UNCHANGED <<outputSinks, taken, joined, replay, viewer>>
      /\ UNCHANGED <<setup, linked, recorderOpen, kill>>
    BY DEF CapRead, CapStore, CapLock, CapEof, CapEmit, sinkVars, endVars, viewVars
<1>2. CaptureTypes /\ Busy
    BY DEF FollowInv, OutputTypeInv
<1>3. outputs \in Nat
    BY FollowTypes
<1>4. ASSUME NEW p \in 1..Len(outputSinks) PROVE Delivered(p)' = Delivered(p)
  <2>1. CASE CapRead
    BY <1>2, <1>3, <2>1 DEF CapRead, Delivered
  <2>2. CASE CapStore
    BY <2>2 DEF CapStore, Delivered
  <2>3. CASE CapLock
    <3>1. outputSinks # <<>>
      <4>1. outputSinks = <<>> => Len(outputSinks) = 0
        OBVIOUS
      <4>. QED BY <4>1
    <3>2. p >= 1
      BY FollowTypes
    <3>. QED BY <2>3, <3>1, <3>2 DEF CapLock, Delivered
  <2>4. CASE CapEof \/ CapEmit
    BY <2>4 DEF CapEof, CapEmit, Delivered
  <2>. QED BY <2>1, <2>2, <2>3, <2>4
<1>5. \A s \in Sinks : Begun(s) => Begun(s)'
    BY <1>1 DEF Begun
<1>6. \A s \in Keepers : Live(s)' => Live(s)
    BY <1>1 DEF Live
<1>. QED BY <1>1, <1>4, <1>5, <1>6, QuietStep

LEMMA BroadcastFollows ==
    ASSUME FollowInv, WriteRecorder \/ WriteBus \/ WriteHandler \/ \E v \in Viewers : WriteViewer(v)
    PROVE  ListInv' /\ RestInv' /\ SinkOrderInv' /\ ReachInv'
<1>1. /\ UNCHANGED <<outputSinks, joined, replay, viewer, setup>>
      /\ UNCHANGED <<recorderOpen, kill>>
    BY DEF WriteRecorder, WriteBus, WriteHandler, WriteViewer, sinkVars, endVars, viewVars
<1>2. /\ taken \in [Keepers -> Seq(Chunks)] /\ linked \in [Viewers -> BOOLEAN]
    BY DEF FollowInv, OutputTypeInv, SeqTypes, ViewTypes
<1>3. /\ "recorder" \in Keepers /\ "bus" \in Keepers
      /\ "handler" \in Sinks /\ "handler" \notin Keepers
      /\ "recorder" \notin Viewers /\ "bus" \notin Viewers
      /\ Viewers \subseteq Keepers /\ Keepers \subseteq Sinks
    BY SinkNames, OutputBounds
<1>4. CASE WriteRecorder
  <2>1. WriteTo("recorder") /\ UNCHANGED linked
    BY <1>4 DEF WriteRecorder
  <2>2. \A x \in Keepers : x # "recorder" => taken'[x] = taken[x] /\ (Live(x)' => Live(x))
    BY <1>1, <1>2, <1>3, <1>4, <2>1 DEF WriteRecorder, Accept, Live
  <2>3. CASE recorderOpen
    <3>1. Live("recorder") /\ taken'["recorder"] = Append(taken["recorder"], outputs)
      BY <1>2, <1>3, <1>4, <2>3 DEF WriteRecorder, Accept, Live
    <3>. QED BY <1>1, <1>3, <2>1, <2>2, <3>1, WriteFollows
  <2>4. CASE ~recorderOpen
    <3>1. capturing = "turns"
      BY <2>1 DEF FollowInv, OutputTypeInv, CaptureTypes, WriteTo
    <3>2. kill # "none"
      BY <2>4, <3>1 DEF FollowInv, ClosedInv
    <3>3. ~(Live("recorder")') /\ taken'["recorder"] = taken["recorder"]
      BY <1>1, <1>4, <2>4, <3>2 DEF WriteRecorder, Live
    <3>. QED BY <1>1, <1>3, <2>1, <2>2, <3>3, WriteFollows
  <2>. QED BY <2>3, <2>4
<1>5. CASE WriteBus
  <2>1. WriteTo("bus") /\ UNCHANGED linked
    BY <1>5 DEF WriteBus
  <2>2. \A x \in Keepers : x # "bus" => taken'[x] = taken[x] /\ (Live(x)' => Live(x))
    BY <1>1, <1>2, <1>3, <1>5, <2>1 DEF WriteBus, Accept, Live
  <2>3. Live("bus") /\ taken'["bus"] = Append(taken["bus"], outputs)
    BY <1>2, <1>3, <1>5 DEF WriteBus, Accept, Live
  <2>. QED BY <1>1, <1>3, <2>1, <2>2, <2>3, WriteFollows
<1>6. CASE WriteHandler
  <2>1. WriteTo("handler") /\ UNCHANGED <<taken, linked>>
    BY <1>6 DEF WriteHandler, sinkVars
  <2>2. \A x \in Keepers : x # "handler" => taken'[x] = taken[x] /\ (Live(x)' => Live(x))
    BY <1>1, <2>1 DEF Live
  <2>. QED BY <1>1, <1>3, <2>1, <2>2, WriteFollows
<1>7. ASSUME NEW v \in Viewers, WriteViewer(v)
      PROVE  ListInv' /\ RestInv' /\ SinkOrderInv' /\ ReachInv'
  <2>1. WriteTo(v) /\ v \in Keepers /\ v # "recorder"
    BY <1>3, <1>7 DEF WriteViewer
  <2>2. \/ linked[v] /\ Accept(v) /\ UNCHANGED linked
        \/ linked' = [linked EXCEPT ![v] = FALSE] /\ UNCHANGED taken
    BY <1>7 DEF WriteViewer
  <2>3. \A x \in Keepers : x # v => taken'[x] = taken[x]
    BY <1>2, <2>2 DEF Accept
  <2>4. \A x \in Viewers : x # v => linked'[x] = linked[x]
    BY <1>2, <2>2
  <2>5. \A x \in Keepers : x # v => taken'[x] = taken[x] /\ (Live(x)' => Live(x))
    BY <1>1, <2>3, <2>4 DEF Live
  <2>6. \/ Live(v) /\ taken'[v] = Append(taken[v], outputs)
        \/ ~(Live(v)') /\ taken'[v] = taken[v]
    <3>1. CASE linked[v] /\ Accept(v)
      BY <1>2, <2>1, <3>1 DEF Accept, Live
    <3>2. CASE linked' = [linked EXCEPT ![v] = FALSE] /\ UNCHANGED taken
      <4>1. ~(linked'[v])
        BY <1>2, <3>2
      <4>. QED BY <3>2, <4>1 DEF Live
    <3>. QED BY <2>2, <3>1, <3>2
  <2>. QED BY <1>1, <1>3, <2>1, <2>5, <2>6, WriteFollows
<1>. QED BY <1>4, <1>5, <1>6, <1>7

LEMMA FollowStep == FollowInv /\ [OutputNext]_outputVars => FollowInv'
<1>. SUFFICES ASSUME FollowInv, [OutputNext]_outputVars PROVE FollowInv'
    OBVIOUS
<1>1. OutputTypeInv' /\ ShutInv' /\ ClosedInv'
    BY OutputTypeStep, ShutStep, ClosedStep DEF FollowInv, OutputTypeInv
<1>. SUFFICES ListInv' /\ RestInv' /\ SinkOrderInv' /\ ReachInv'
    BY <1>1 DEF FollowInv
<1>2. CASE Capturing
    BY <1>2, CaptureFollows, BroadcastFollows DEF Capturing
<1>3. CASE SettingUp
    BY <1>3, SetupFollows
<1>4. ASSUME UNCHANGED <<captureVars, sinkVars, viewVars, setup>>,
             (recorderOpen' \/ kill' = "none") => (recorderOpen \/ kill = "none")
      PROVE  ListInv' /\ RestInv' /\ SinkOrderInv' /\ ReachInv'
  <2>1. /\ UNCHANGED <<outputSinks, taken, joined, replay, viewer>>
        /\ UNCHANGED <<linked, setup, outputs, capturing, turn>>
    BY <1>4 DEF captureVars, sinkVars, viewVars
  <2>2. \A s \in Sinks : Begun(s) => Begun(s)'
    BY <2>1 DEF Begun
  <2>3. \A s \in Keepers : Live(s)' => Live(s)
    BY <1>4, <2>1 DEF Live
  <2>4. \A p \in 1..Len(outputSinks) : Delivered(p)' = Delivered(p)
    BY <2>1 DEF Delivered
  <2>. QED BY <2>1, <2>2, <2>3, <2>4, QuietStep
<1>5. CASE Ending
  <2>1. UNCHANGED <<captureVars, sinkVars, viewVars, setup>>
    BY <1>5 DEF Ending, MonitorTakes, MonitorEnds, StopDetection, MonitorNotifies, KillStops,
       KillNotifies
  <2>2. (recorderOpen' \/ kill' = "none") => (recorderOpen \/ kill = "none")
    BY <1>5 DEF Ending, MonitorTakes, MonitorEnds, StopDetection, MonitorNotifies, KillStops,
       KillNotifies
  <2>. QED BY <1>4, <2>1, <2>2
<1>6. CASE Detecting
    BY <1>4, <1>6 DEF Detecting, DetectorFirst, DetectorChange, DetectorTell, endVars
<1>7. CASE \E v \in Viewers : Viewing(v)
    BY <1>7, ViewFollows
<1>8. CASE UNCHANGED outputVars
    BY <1>4, <1>8 DEF outputVars, endVars
<1>. QED BY <1>2, <1>3, <1>5, <1>6, <1>7, <1>8 DEF OutputNext

\* Every sink gets the output from the moment it is added, without a gap or a
\* repetition, and all of it but for what a broken stream or a kill cuts off.
LEMMA SinksFollow == OutputSpec => []OutputFollows
<1>1. OutputInit => FollowInv
    BY FollowInit
<1>2. FollowInv /\ [OutputNext]_outputVars => FollowInv'
    BY FollowStep
<1>3. FollowInv => OutputFollows
  <2>. SUFFICES ASSUME FollowInv PROVE OutputFollows
    OBVIOUS
  <2>1. \A s \in Keepers : InOrder(s)
    BY DEF FollowInv, SinkOrderInv
  <2>2. ASSUME capturing \in {"read", "emit", "over"}, NEW p \in 1..Len(outputSinks),
               outputSinks[p] # "handler", ~CutOff(outputSinks[p])
        PROVE  UpToDate(outputSinks[p])
    <3> DEFINE s == outputSinks[p]
    <3>1. s \in Keepers
      BY <2>2, FollowTypes DEF Sinks
    <3>2. Live(s)
      BY <2>2, OutputBounds DEF CutOff, Live
    <3>3. Delivered(p) = outputs
      BY <2>2 DEF Delivered
    <3>4. Reached(s, outputs)
      BY <3>1, <3>2, <3>3 DEF FollowInv, ReachInv
    <3>5. outputs \in Nat /\ joined[s] \in Nat
      BY <3>1, FollowTypes
    <3>. QED BY <3>4, <3>5 DEF Reached, UpToDate
  <2>. QED BY <2>1, <2>2 DEF OutputFollows
<1>. QED BY <1>1, <1>2, <1>3, PTL DEF OutputSpec

\* OutputSpec keeps SessionFollowed, for any clients, chunks and tools: whoever reads
\* the session's output reads all of it in order, and whoever hears of its tool hears
\* of every change in turn, unless the channel of changes was once full.
THEOREM SessionIsFollowed == OutputSpec => []SessionFollowed
BY SinksFollow, ToolsFollow, PTL DEF SessionFollowed

-----------------------------------------------------------------------------
(* The service host and the transport gateway.                             *)

Steps == {"idle", "stop", "prepare", "apply", "listen", "lookup", "save", "port", "assign"}
Serving == {"lookup", "save", "port", "assign"}
Holding == {"apply", "listen", "save"}

-----------------------------------------------------------------------------
(* Types.                                                                  *)

StepTypes ==
    /\ startPc \in [Starters -> Steps]
    /\ phase \in {"boot", "run", "stop", "call", "ended", "panic"}
    /\ config \in {"free", "compare", "queue", "restart"}
    /\ client \in {"rest", "apply"}

FlagTypes ==
    /\ changed \in BOOLEAN /\ started \in BOOLEAN /\ done \in BOOLEAN /\ cancelled \in BOOLEAN
    /\ early \in BOOLEAN /\ event \in BOOLEAN

HostCounts ==
    /\ updates \in 0..MaxUpdates /\ renewals \in 0..MaxRenewals
    /\ hostFaults \in 0..MaxHostFaults
    /\ spawned \in Nat /\ queued \in Nat

ReadTypes ==
    /\ read \in [Starters -> Configs \cup {None}]
    /\ \A r \in Starters : startPc[r] \in Holding => read[r] \in Configs

GotTypes ==
    /\ got \in [Starters -> Gateway \cup {None}]
    /\ \A r \in Starters : startPc[r] \in Serving => got[r] \in Gateway

ConfigTypes ==
    /\ store \in Configs /\ applied \in Configs
    /\ brought \in Configs \cup {None} /\ loaded \in Configs \cup {None}
    /\ client = "apply" => brought \in Configs

GatewayTypes == gateways \subseteq Gateway /\ service \in Nat /\ made \in Nat

HostTypeInv ==
    /\ StepTypes /\ FlagTypes /\ HostCounts /\ ReadTypes /\ GotTypes /\ ConfigTypes
    /\ GatewayTypes

LEMMA HostTypes == HostTypeInv <=> HostTypeOK
    BY DEF HostTypeInv, HostTypeOK, StepTypes, FlagTypes, HostCounts, ReadTypes, GotTypes,
           ConfigTypes, GatewayTypes, Steps, Serving, Holding

LEMMA HostTypeInit == HostInit => HostTypeInv
<1>. SUFFICES ASSUME HostInit PROVE HostTypeInv
    OBVIOUS
<1>1. StepTypes /\ FlagTypes
    BY DEF HostInit, StepTypes, FlagTypes, Steps
<1>2. HostCounts
    BY HostAssumption DEF HostInit, HostCounts
<1>3. ReadTypes /\ GotTypes
    BY DEF HostInit, ReadTypes, GotTypes, Holding, Serving
<1>4. ConfigTypes /\ GatewayTypes
    BY DEF HostInit, ConfigTypes, GatewayTypes
<1>. QED BY <1>1, <1>2, <1>3, <1>4 DEF HostTypeInv

\* The step of a starter, and what else it may do.
LEMMA GotoStep ==
    ASSUME StepTypes, NEW r \in Starters, NEW pc \in Steps, Goto(r, pc)
    PROVE  /\ startPc' \in [Starters -> Steps] /\ startPc'[r] = pc
           /\ \A q \in Starters : q # r => startPc'[q] = startPc[q]
    BY DEF StepTypes, Goto

\* The steps a starter can take from where it is.
Moves(r) ==
    CASE startPc[r] = "prepare" -> {"apply", "idle"}
      [] startPc[r] = "apply" -> {"listen", "idle"}
      [] startPc[r] = "listen" -> {"lookup", "idle"}
      [] startPc[r] = "lookup" -> {"assign", "save"}
      [] startPc[r] = "save" -> {"port", "assign"}
      [] startPc[r] = "port" -> {"assign"}
      [] startPc[r] = "assign" -> {"idle"}
      [] OTHER -> {}

LEMMA StarterMoves ==
    ASSUME StepTypes, NEW r \in Starters,
           Prepare(r) \/ Apply(r) \/ Listen(r) \/ Lookup(r) \/ Save(r) \/ SetPort(r) \/ Assign(r)
    PROVE  /\ \E pc \in Moves(r) : Goto(r, pc)
           /\ Moves(r) \subseteq Steps
           /\ phase' \in {phase, "ended", "run"} /\ config' \in {config, "free"}
           /\ UNCHANGED <<started, done, cancelled, early, event, client>>
           /\ Save(r) \/ UNCHANGED changed
<1> USE DEF storeVars, daemonVars, clientVars, configVars, regVars, Moves, At, Fails, Unlocked, Steps
<1>1. CASE Prepare(r)
    BY <1>1 DEF Prepare
<1>2. CASE Apply(r)
    BY <1>2 DEF Apply
<1>3. CASE Listen(r)
    BY <1>3 DEF Listen
<1>4. CASE Lookup(r)
    BY <1>4 DEF Lookup
<1>5. CASE Save(r)
    BY <1>5 DEF Save
<1>6. CASE SetPort(r)
    BY <1>6 DEF SetPort
<1>7. CASE Assign(r)
    BY <1>7 DEF Assign
<1>. QED BY <1>1, <1>2, <1>3, <1>4, <1>5, <1>6, <1>7

\* The actions of everybody else.
Others ==
    \/ HostStart \/ Replace \/ Update \/ ApplyUpdate \/ Hook \/ HookRestarts
    \/ Poll \/ Load \/ Compare \/ Renew \/ ConfigRestarts \/ Stopping

LEMMA RestartGoes ==
    ASSUME StepTypes, BeginRestart
    PROVE  /\ startPc' \in [Starters -> Steps]
           /\ startPc'["restart"] \in {"prepare", "stop"} /\ startPc'["start"] = startPc["start"]
<1>1. "restart" \in Starters /\ "start" \in Starters /\ {"prepare", "stop"} \subseteq Steps
    BY DEF Starters, Steps
<1>. QED BY <1>1, GotoStep DEF BeginRestart

LEMMA StepStep ==
    ASSUME StepTypes, [HostNext]_hostVars
    PROVE  StepTypes'
<1> USE DEF storeVars, regVars, startVars, daemonVars, clientVars, hookVars, configVars
<1>0. "restart" \in Starters /\ "start" \in Starters /\ {"prepare", "stop", "idle"} \subseteq Steps
    BY DEF Starters, Steps
<1>1. ASSUME NEW r \in Starters,
             Prepare(r) \/ Apply(r) \/ Listen(r) \/ Lookup(r) \/ Save(r) \/ SetPort(r) \/ Assign(r)
      PROVE  StepTypes'
  <2>1. PICK pc \in Moves(r) : Goto(r, pc)
    BY <1>1, StarterMoves
  <2>2. startPc' \in [Starters -> Steps]
    BY <1>1, <2>1, StarterMoves, GotoStep
  <2>3. phase' \in {phase, "ended", "run"} /\ config' \in {config, "free"} /\ client' = client
    BY <1>1, StarterMoves
  <2>. QED BY <2>2, <2>3 DEF StepTypes
<1>2. CASE HostStart
    BY <1>0, <1>2, GotoStep DEF HostStart, StepTypes
<1>3. CASE Replace
  <2>1. startPc' \in [Starters -> Steps]
    BY <1>0, <1>3, GotoStep DEF Replace, Fails, StepTypes
  <2>. QED BY <1>3, <2>1 DEF Replace, Fails, Unlocked, StepTypes
<1>4. CASE Update \/ ApplyUpdate \/ Hook
    BY <1>4 DEF Update, ApplyUpdate, Hook, StepTypes
<1>5. CASE HookRestarts
    BY <1>5, RestartGoes DEF HookRestarts, StepTypes
<1>6. CASE ConfigRestarts
    BY <1>6, RestartGoes DEF ConfigRestarts, StepTypes
<1>7. CASE Poll \/ Load \/ Compare \/ Renew
    BY <1>7 DEF Poll, Load, Compare, Renew, StepTypes
<1>8. CASE Stopping
    BY <1>8 DEF Stopping, Quit, Cancel, HostStop, StopChecks, StopCalls, ServeEnds, StepTypes
<1>9. CASE UNCHANGED hostVars
    BY <1>9 DEF hostVars, StepTypes
<1>. QED BY <1>1, <1>2, <1>3, <1>4, <1>5, <1>6, <1>7, <1>8, <1>9 DEF HostNext, Starting, Restarting

LEMMA FlagStep ==
    ASSUME StepTypes, FlagTypes, [HostNext]_hostVars
    PROVE  FlagTypes'
<1> USE DEF FlagTypes, storeVars, daemonVars, clientVars, configVars
<1>1. ASSUME NEW r \in Starters,
             Prepare(r) \/ Apply(r) \/ Listen(r) \/ Lookup(r) \/ Save(r) \/ SetPort(r) \/ Assign(r)
      PROVE  FlagTypes'
  <2>1. changed' \in BOOLEAN
    BY <1>1, StarterMoves DEF Save
  <2>. QED BY <1>1, <2>1, StarterMoves
<1>2. CASE HostStart \/ Replace \/ Update \/ ApplyUpdate \/ Hook \/ HookRestarts \/ ConfigRestarts
    BY <1>2 DEF HostStart, Replace, Update, ApplyUpdate, Hook, HookRestarts, ConfigRestarts
<1>3. CASE Poll \/ Load \/ Compare \/ Renew
    BY <1>3 DEF Poll, Load, Compare, Renew
<1>4. CASE Stopping
    BY <1>4 DEF Stopping, Quit, Cancel, HostStop, StopChecks, StopCalls, ServeEnds
<1>5. CASE UNCHANGED hostVars
    BY <1>5 DEF hostVars
<1>. QED BY <1>1, <1>2, <1>3, <1>4, <1>5 DEF HostNext, Starting, Restarting

\* What a starter leaves alone.
LEMMA StarterCounts ==
    ASSUME NEW r \in Starters,
           Prepare(r) \/ Apply(r) \/ Listen(r) \/ Lookup(r) \/ Save(r) \/ SetPort(r) \/ Assign(r)
    PROVE  /\ UNCHANGED <<updates, renewals, spawned, queued, client, brought, loaded>>
           /\ HostFault \/ NoHostFault
    BY DEF Prepare, Apply, Listen, Lookup, Save, SetPort, Assign, NoHostFault, clientVars, hookVars,
           configVars

LEMMA CountStep ==
    ASSUME HostCounts, [HostNext]_hostVars
    PROVE  HostCounts'
<1> USE HostAssumption DEF HostCounts, clientVars, hookVars, configVars, HostFault, NoHostFault
<1>1. ASSUME NEW r \in Starters,
             Prepare(r) \/ Apply(r) \/ Listen(r) \/ Lookup(r) \/ Save(r) \/ SetPort(r) \/ Assign(r)
      PROVE  HostCounts'
    BY <1>1, StarterCounts
<1>2. CASE HostStart \/ Replace \/ Update
    BY <1>2 DEF HostStart, Replace, Update
<1>3. CASE ApplyUpdate \/ Hook \/ HookRestarts \/ ConfigRestarts
    BY <1>3 DEF ApplyUpdate, Hook, HookRestarts, ConfigRestarts
<1>4. CASE Poll \/ Load \/ Compare \/ Renew
    BY <1>4 DEF Poll, Load, Compare, Renew
<1>5. CASE Stopping
    BY <1>5 DEF Stopping, Quit, Cancel, HostStop, StopChecks, StopCalls, ServeEnds
<1>6. CASE UNCHANGED hostVars
    BY <1>6 DEF hostVars
<1>. QED BY <1>1, <1>2, <1>3, <1>4, <1>5, <1>6 DEF HostNext, Starting, Restarting

\* Those who are no starters leave what the starters hold, and start at most a
\* restart.
LEMMA OthersHold ==
    ASSUME StepTypes, ReadTypes, Others
    PROVE  /\ got' = got
           /\ UNCHANGED read \/ read' = [read EXCEPT !["restart"] = None]
           /\ \A r \in Starters : startPc'[r] \in Holding \cup Serving =>
                 startPc'[r] = startPc[r] /\ read'[r] = read[r]
<1> USE DEF startVars, Starters, Holding, Serving
<1>1. CASE HostStart
    BY <1>1, GotoStep DEF HostStart, Steps
<1>2. CASE Replace
  <2>1. CASE phase' = "panic" /\ UNCHANGED startPc /\ UNCHANGED read
    BY <1>2, <2>1 DEF Replace
  <2>2. CASE Goto("restart", "prepare") /\ UNCHANGED read
    BY <1>2, <2>2, GotoStep DEF Replace, Steps
  <2>3. CASE Fails("restart")
    BY <1>2, <2>3, GotoStep, ExceptType DEF Replace, Fails, Forgets, Steps, ReadTypes
  <2>. QED BY <1>2, <2>1, <2>2, <2>3 DEF Replace
<1>3. CASE HookRestarts
    BY <1>3, RestartGoes DEF HookRestarts
<1>4. CASE ConfigRestarts
    BY <1>4, RestartGoes DEF ConfigRestarts
<1>5. CASE Update \/ ApplyUpdate \/ Hook
    BY <1>5 DEF Update, ApplyUpdate, Hook
<1>6. CASE Poll \/ Load \/ Compare \/ Renew
    BY <1>6 DEF Poll, Load, Compare, Renew
<1>7. CASE Stopping
    BY <1>7 DEF Stopping, Quit, Cancel, HostStop, StopChecks, StopCalls, ServeEnds
<1>. QED BY <1>1, <1>2, <1>3, <1>4, <1>5, <1>6, <1>7 DEF Others

LEMMA ReadStep ==
    ASSUME HostTypeInv, [HostNext]_hostVars
    PROVE  ReadTypes'
<1>0. StepTypes /\ ReadTypes /\ ConfigTypes
    BY DEF HostTypeInv
<1>1. ASSUME NEW r \in Starters,
             Prepare(r) \/ Apply(r) \/ Listen(r) \/ Lookup(r) \/ Save(r) \/ SetPort(r) \/ Assign(r)
      PROVE  ReadTypes'
  <2>1. PICK pc \in Moves(r) : Goto(r, pc)
    BY <1>0, <1>1, StarterMoves
  <2>2. /\ startPc'[r] = pc
        /\ \A q \in Starters : q # r => startPc'[q] = startPc[q]
    BY <1>0, <1>1, <2>1, StarterMoves, GotoStep
  <2>3. CASE read' = [read EXCEPT ![r] = store]
    BY <1>0, <2>2, <2>3, ExceptType DEF ReadTypes, ConfigTypes
  <2>4. CASE Forgets(read, r) /\ pc \notin Holding
    BY <1>0, <2>2, <2>4, ExceptType DEF ReadTypes, Forgets
  <2>5. CASE read' = read /\ (pc \in Holding => startPc[r] \in Holding)
    BY <1>0, <2>2, <2>5 DEF ReadTypes
  <2>6. \/ read' = [read EXCEPT ![r] = store]
        \/ Forgets(read, r) /\ pc \notin Holding
        \/ read' = read /\ (pc \in Holding => startPc[r] \in Holding)
    <3> USE DEF At, Moves, Fails, Holding
    <3>1. CASE Prepare(r)
      BY <2>2, <3>1, <1>0, GotoStep DEF Prepare, Steps
    <3>2. CASE Apply(r)
      BY <2>1, <2>2, <3>2, <1>0, GotoStep DEF Apply, Steps
    <3>3. CASE Listen(r)
      BY <2>1, <2>2, <3>3, <1>0, GotoStep DEF Listen, Steps
    <3>4. CASE Lookup(r)
      BY <2>1, <2>2, <3>4, <1>0, GotoStep DEF Lookup, Steps
    <3>5. CASE Save(r)
      BY <2>1, <3>5 DEF Save
    <3>6. CASE SetPort(r) \/ Assign(r)
      BY <2>1, <3>6 DEF SetPort, Assign
    <3>. QED BY <1>1, <3>1, <3>2, <3>3, <3>4, <3>5, <3>6
  <2>. QED BY <2>3, <2>4, <2>5, <2>6
<1>2. CASE Others
  <2>1. read' \in [Starters -> Configs \cup {None}]
    BY <1>0, <1>2, OthersHold, ExceptType DEF ReadTypes, Starters
  <2>. QED BY <1>0, <1>2, <2>1, OthersHold DEF ReadTypes
<1>3. CASE UNCHANGED hostVars
    BY <1>0, <1>3 DEF hostVars, startVars, ReadTypes
<1>. QED BY <1>1, <1>2, <1>3 DEF HostNext, Starting, Restarting, Others

\* The gateway a start makes.
LEMMA ListenMakes ==
    ASSUME HostTypeInv, NEW r \in Starters, Listen(r), made' # made
    PROVE  /\ startPc[r] = "listen" /\ got' \in [Starters -> Gateway \cup {None}] /\ got'[r] \in Gateway
           /\ \A q \in Starters : q # r => got'[q] = got[q]
           /\ gateways' = gateways \cup {got'[r]}
           /\ got'[r].id = made + 1 /\ got'[r].binding = read[r].binding
           /\ got'[r].port \in Free(read[r])
           /\ made' = made + 1 /\ Goto(r, "lookup")
<1>0. ReadTypes /\ GotTypes /\ GatewayTypes /\ startPc[r] = "listen"
    BY DEF HostTypeInv, Listen, At
<1>1. read[r] \in Configs
    BY <1>0 DEF ReadTypes, Holding
<1>2. PICK p \in Free(read[r]) :
         /\ made' = made + 1
         /\ got' = [got EXCEPT ![r] = [id |-> made', binding |-> read[r].binding, port |-> p]]
         /\ gateways' = gateways \cup {got'[r]}
         /\ Goto(r, "lookup")
    BY DEF Listen
<1>3. [id |-> made', binding |-> read[r].binding, port |-> p] \in Gateway
    BY <1>0, <1>1, <1>2 DEF Free, Configs, Gateway, GatewayTypes
<1>. QED BY <1>0, <1>2, <1>3, ExceptType DEF GotTypes

\* What the steps of a starter do to what it has made.
LEMMA StarterGot ==
    ASSUME HostTypeInv, NEW r \in Starters,
           Prepare(r) \/ Apply(r) \/ Listen(r) \/ Lookup(r) \/ Save(r) \/ SetPort(r) \/ Assign(r)
    PROVE  \/ Listen(r) /\ made' # made
           \/ /\ got' = got /\ UNCHANGED <<gateways, service, made>>
              /\ startPc'[r] \in Serving => startPc[r] \in Serving
           \/ /\ Assign(r) /\ Forgets(got, r) /\ service' = got[r].id
              /\ startPc[r] = "assign" /\ startPc'[r] = "idle" /\ UNCHANGED <<gateways, made>>
<1>0. StepTypes /\ GatewayTypes
    BY DEF HostTypeInv
<1>1. PICK pc \in Moves(r) : Goto(r, pc) /\ startPc'[r] = pc
    BY <1>0, StarterMoves, GotoStep
<1> USE DEF regVars, At, Moves, Serving
<1>2. CASE Prepare(r)
    BY <1>0, <1>1, <1>2 DEF Prepare
<1>3. CASE Apply(r)
    BY <1>0, <1>1, <1>3 DEF Apply
<1>4. CASE Listen(r)
  <2>1. CASE made' = made
    <3>1. made + 1 # made
      BY <1>0 DEF GatewayTypes
    <3>2. UNCHANGED <<got, gateways, service>> /\ Goto(r, "idle")
      BY <1>4, <2>1, <3>1 DEF Listen, Fails
    <3>3. startPc'[r] = "idle"
      BY <1>0, <3>2, GotoStep DEF Steps
    <3>. QED BY <2>1, <3>2, <3>3
  <2>. QED BY <1>4, <2>1
<1>5. CASE Lookup(r)
    BY <1>0, <1>1, <1>5 DEF Lookup
<1>6. CASE Save(r)
    BY <1>0, <1>1, <1>6 DEF Save
<1>7. CASE SetPort(r)
    BY <1>0, <1>1, <1>7 DEF SetPort
<1>8. CASE Assign(r)
    BY <1>0, <1>1, <1>8 DEF Assign
<1>. QED BY <1>2, <1>3, <1>4, <1>5, <1>6, <1>7, <1>8

\* What the others do to the gateways.
LEMMA OthersGateways ==
    ASSUME Others
    PROVE  /\ made' = made /\ gateways' \subseteq gateways
           /\ \/ UNCHANGED regVars
              \/ Shut(service) /\ service' = 0 /\ (startPc["restart"] = "stop" \/ phase = "call")
              \/ Shut(service) /\ UNCHANGED service /\ HostFault /\ Fails("restart")
              \/ ServeEnds
<1> USE DEF startVars, regVars, Shut
<1>1. CASE Replace
    BY <1>1 DEF Replace, At
<1>2. CASE StopCalls
    BY <1>2 DEF StopCalls
<1>3. CASE ServeEnds
    BY <1>3 DEF ServeEnds
<1>4. CASE HostStart \/ HookRestarts \/ ConfigRestarts
    BY <1>4 DEF HostStart, HookRestarts, ConfigRestarts
<1>5. CASE Update \/ ApplyUpdate \/ Hook
    BY <1>5 DEF Update, ApplyUpdate, Hook
<1>6. CASE Poll \/ Load \/ Compare \/ Renew
    BY <1>6 DEF Poll, Load, Compare, Renew
<1>7. CASE Quit \/ Cancel \/ HostStop \/ StopChecks
    BY <1>7 DEF Quit, Cancel, HostStop, StopChecks
<1>. QED BY <1>1, <1>2, <1>3, <1>4, <1>5, <1>6, <1>7 DEF Others, Stopping

LEMMA GotStep ==
    ASSUME HostTypeInv, [HostNext]_hostVars
    PROVE  GotTypes' /\ GatewayTypes'
<1>0. StepTypes /\ GotTypes /\ GatewayTypes /\ ReadTypes
    BY DEF HostTypeInv
<1>1. ASSUME NEW r \in Starters,
             Prepare(r) \/ Apply(r) \/ Listen(r) \/ Lookup(r) \/ Save(r) \/ SetPort(r) \/ Assign(r)
      PROVE  GotTypes' /\ GatewayTypes'
  <2>1. \A q \in Starters : q # r => startPc'[q] = startPc[q]
    BY <1>0, <1>1, StarterMoves, GotoStep
  <2>2. CASE Listen(r) /\ made' # made
    <3>1. service' = service
      BY <2>2 DEF Listen
    <3>2. GotTypes'
      BY <1>0, <2>1, <2>2, ListenMakes DEF GotTypes
    <3>3. GatewayTypes'
      BY <1>0, <2>2, <3>1, ListenMakes DEF GatewayTypes
    <3>. QED BY <3>2, <3>3
  <2>3. CASE /\ got' = got /\ UNCHANGED <<gateways, service, made>>
             /\ startPc'[r] \in Serving => startPc[r] \in Serving
    BY <1>0, <2>1, <2>3 DEF GotTypes, GatewayTypes
  <2>4. CASE /\ Assign(r) /\ Forgets(got, r) /\ service' = got[r].id
             /\ startPc[r] = "assign" /\ startPc'[r] = "idle" /\ UNCHANGED <<gateways, made>>
    <3>1. got[r] \in Gateway
      BY <1>0, <2>4 DEF GotTypes, Serving
    <3>2. service' \in Nat
      BY <2>4, <3>1 DEF Gateway
    <3>3. GotTypes'
      BY <1>0, <2>1, <2>4, ExceptType DEF GotTypes, Forgets, Serving
    <3>. QED BY <1>0, <2>4, <3>2, <3>3 DEF GatewayTypes
  <2>. QED BY <1>1, <2>2, <2>3, <2>4, StarterGot
<1>2. CASE Others
  <2>1. service' \in Nat
    BY <1>0, <1>2, OthersGateways DEF GatewayTypes, regVars, ServeEnds
  <2>. QED BY <1>0, <1>2, <2>1, OthersHold, OthersGateways DEF GotTypes, GatewayTypes
<1>3. CASE UNCHANGED hostVars
    BY <1>0, <1>3 DEF hostVars, startVars, regVars, GotTypes, GatewayTypes
<1>. QED BY <1>1, <1>2, <1>3 DEF HostNext, Starting, Restarting, Others

LEMMA ConfigStep ==
    ASSUME HostTypeInv, [HostNext]_hostVars
    PROVE  ConfigTypes'
<1>0. ConfigTypes
    BY DEF HostTypeInv
<1> USE DEF storeVars, clientVars, configVars
<1>1. ASSUME NEW r \in Starters,
             Prepare(r) \/ Apply(r) \/ Listen(r) \/ Lookup(r) \/ Save(r) \/ SetPort(r) \/ Assign(r)
      PROVE  ConfigTypes'
  <2>1. UNCHANGED <<client, brought, loaded>>
    BY <1>1, StarterCounts
  <2>2. store' \in Configs /\ applied' \in Configs
    <3>1. CASE Prepare(r) \/ Listen(r) \/ Lookup(r) \/ Assign(r)
      BY <1>0, <3>1 DEF Prepare, Listen, Lookup, Assign, ConfigTypes
    <3>2. CASE Apply(r)
      <4>1. read[r] \in Configs
        BY <3>2 DEF Apply, At, HostTypeInv, ReadTypes, Holding
      <4>. QED BY <1>0, <3>2, <4>1 DEF Apply, ConfigTypes
    <3>3. CASE Save(r)
      <4>1. read[r] \in Configs /\ got[r] \in Gateway
        BY <3>3 DEF Save, At, HostTypeInv, ReadTypes, GotTypes, Holding, Serving
      <4>2. [read[r] EXCEPT !.port = got[r].port] \in Configs
        BY <4>1 DEF Configs, Gateway
      <4>. QED BY <1>0, <3>3, <4>2 DEF Save, ConfigTypes
    <3>4. CASE SetPort(r)
      <4>1. got[r] \in Gateway /\ applied \in Configs
        BY <1>0, <3>4 DEF SetPort, At, HostTypeInv, GotTypes, Serving, ConfigTypes
      <4>2. [applied EXCEPT !.port = got[r].port] \in Configs
        BY <4>1 DEF Configs, Gateway
      <4>. QED BY <1>0, <3>4, <4>2 DEF SetPort, ConfigTypes
    <3>. QED BY <1>1, <3>1, <3>2, <3>3, <3>4
  <2>. QED BY <1>0, <2>1, <2>2 DEF ConfigTypes
<1>2. CASE Update \/ ApplyUpdate \/ Load \/ Compare
    BY <1>0, <1>2 DEF Update, ApplyUpdate, Load, Compare, ConfigTypes
<1>3. CASE HostStart \/ Replace \/ Hook \/ HookRestarts \/ ConfigRestarts \/ Poll \/ Renew
    BY <1>0, <1>3 DEF HostStart, Replace, Hook, HookRestarts, ConfigRestarts, Poll, Renew, ConfigTypes
<1>4. CASE Stopping
    BY <1>0, <1>4 DEF Stopping, Quit, Cancel, HostStop, StopChecks, StopCalls, ServeEnds, ConfigTypes
<1>5. CASE UNCHANGED hostVars
    BY <1>0, <1>5 DEF hostVars, ConfigTypes
<1>. QED BY <1>1, <1>2, <1>3, <1>4, <1>5 DEF HostNext, Starting, Restarting

LEMMA HostTypeStep ==
    ASSUME HostTypeInv, [HostNext]_hostVars
    PROVE  HostTypeInv'
    BY StepStep, FlagStep, CountStep, ReadStep, GotStep, ConfigStep DEF HostTypeInv

\* The host's variables have their types: a start has read a configuration when
\* it uses it, and has made the gateway it registers.
THEOREM HostTypeCorrect == HostSpec => []HostTypeOK
<1>1. HostTypeInv => HostTypeOK
    BY HostTypes
<1>. QED BY <1>1, HostTypeInit, HostTypeStep, PTL DEF HostSpec

-----------------------------------------------------------------------------
(* Who may be at work, and when.                                           *)

\* The daemon's start and its end come before and after everything else.
OrderInv ==
    /\ startPc["start"] # "idle" => started /\ phase \in {"boot", "panic"}
    /\ startPc["start"] # "stop"
    /\ phase = "run" => started
    /\ phase \in {"stop", "call"} => cancelled
    /\ cancelled => done

\* Without an update during the start, nothing restarts the gateway then.
BootInv ==
    ~early /\ phase = "boot" =>
        /\ startPc["restart"] = "idle" /\ service = 0
        /\ client = "rest" /\ spawned = 0 /\ queued = 0
        /\ config = "free" /\ ~event

LEMMA OrderInit == HostInit => OrderInv /\ BootInv
    BY DEF HostInit, OrderInv, BootInv, Starters

LEMMA OrderStep ==
    ASSUME HostTypeInv, OrderInv, [HostNext]_hostVars
    PROVE  OrderInv'
<1>0. /\ StepTypes /\ startPc \in [Starters -> Steps]
      /\ "restart" \in Starters /\ "start" \in Starters /\ {"prepare", "stop", "idle"} \subseteq Steps
    BY DEF Starters, Steps, HostTypeInv, StepTypes
<1> USE DEF OrderInv, daemonVars
<1>1. ASSUME NEW r \in Starters,
             Prepare(r) \/ Apply(r) \/ Listen(r) \/ Lookup(r) \/ Save(r) \/ SetPort(r) \/ Assign(r)
      PROVE  OrderInv'
  <2>1. /\ UNCHANGED <<started, done, cancelled>>
        /\ startPc'[r] \in Moves(r) /\ startPc[r] # "idle"
        /\ \A q \in Starters : q # r => startPc'[q] = startPc[q]
    <3>1. PICK pc \in Moves(r) : Goto(r, pc)
      BY <1>0, <1>1, StarterMoves
    <3>2. startPc'[r] = pc /\ \A q \in Starters : q # r => startPc'[q] = startPc[q]
      BY <1>0, <1>1, <3>1, StarterMoves, GotoStep
    <3>. QED BY <1>0, <1>1, <3>1, <3>2, StarterMoves DEF Moves
  <2>2. \/ phase' = phase
        \/ r = "start" /\ phase' \in {"ended", "run"} /\ startPc'[r] = "idle"
    <3> USE DEF At, Fails
    <3>1. CASE Prepare(r)
      BY <1>0, <3>1, GotoStep DEF Prepare
    <3>2. CASE Apply(r)
      BY <1>0, <3>2, GotoStep DEF Apply
    <3>3. CASE Listen(r)
      BY <1>0, <3>3, GotoStep DEF Listen
    <3>4. CASE Assign(r)
      BY <1>0, <3>4, GotoStep DEF Assign
    <3>5. CASE Lookup(r) \/ Save(r) \/ SetPort(r)
      BY <3>5 DEF Lookup, Save, SetPort
    <3>. QED BY <1>1, <3>1, <3>2, <3>3, <3>4, <3>5
  <2>3. CASE r = "restart"
    BY <1>0, <2>1, <2>2, <2>3
  <2>4. CASE r = "start"
    <3>1. startPc'[r] # "stop" /\ started /\ phase \in {"boot", "panic"}
      BY <1>0, <2>1, <2>4 DEF Moves
    <3>. QED BY <2>1, <2>2, <2>4, <3>1
  <2>. QED BY <2>3, <2>4 DEF Starters
<1>2. CASE HostStart
    BY <1>0, <1>2, GotoStep DEF HostStart
<1>3. CASE Replace
  <2>1. startPc'["start"] = startPc["start"]
    BY <1>0, <1>3, GotoStep DEF Replace, Fails
  <2>2. phase' \in {phase, "panic"}
    BY <1>3 DEF Replace, Fails
  <2>3. UNCHANGED <<started, done, cancelled>>
    BY <1>3 DEF Replace
  <2>. QED BY <2>1, <2>2, <2>3
<1>4. CASE Update \/ ApplyUpdate \/ Hook
    BY <1>4 DEF Update, ApplyUpdate, Hook, startVars
<1>5. CASE HookRestarts
    BY <1>0, <1>5, RestartGoes DEF HookRestarts
<1>6. CASE ConfigRestarts
    BY <1>0, <1>6, RestartGoes DEF ConfigRestarts
<1>7. CASE Poll \/ Load \/ Compare \/ Renew
    BY <1>7 DEF Poll, Load, Compare, Renew, startVars
<1>8. CASE Stopping
    BY <1>8 DEF Stopping, Quit, Cancel, HostStop, StopChecks, StopCalls, ServeEnds, startVars
<1>9. CASE UNCHANGED hostVars
    BY <1>9 DEF hostVars, startVars
<1>. QED BY <1>1, <1>2, <1>3, <1>4, <1>5, <1>6, <1>7, <1>8, <1>9 DEF HostNext, Starting, Restarting

LEMMA BootStep ==
    ASSUME HostTypeInv, OrderInv, BootInv, [HostNext]_hostVars
    PROVE  BootInv'
<1>0. /\ StepTypes /\ startPc \in [Starters -> Steps]
      /\ "restart" \in Starters /\ "start" \in Starters /\ {"prepare", "stop", "idle"} \subseteq Steps
    BY DEF Starters, Steps, HostTypeInv, StepTypes
<1>. SUFFICES ASSUME ~early', phase' = "boot"
              PROVE  /\ startPc'["restart"] = "idle" /\ service' = 0
                     /\ client' = "rest" /\ spawned' = 0 /\ queued' = 0
                     /\ config' = "free" /\ ~event'
    BY DEF BootInv
<1> USE DEF daemonVars, clientVars, regVars, hookVars, configVars
<1>1. ASSUME NEW r \in Starters,
             Prepare(r) \/ Apply(r) \/ Listen(r) \/ Lookup(r) \/ Save(r) \/ SetPort(r) \/ Assign(r),
             ~early, phase = "boot"
      PROVE  /\ startPc'["restart"] = "idle" /\ service' = 0
             /\ client' = "rest" /\ spawned' = 0 /\ queued' = 0 /\ config' = "free" /\ ~event'
  <2>1. startPc["restart"] = "idle" /\ r = "start"
    <3>1. startPc[r] # "idle"
      BY <1>1, StarterMoves, <1>0 DEF Moves
    <3>. QED BY <1>1, <3>1 DEF BootInv, Starters
  <2>2. startPc'["restart"] = "idle"
    BY <1>0, <1>1, <2>1, StarterMoves, GotoStep
  <2>3. service' = service
    <3>1. ~Assign(r)
      BY <1>1, <2>1 DEF Assign
    <3>2. service' = service
      BY <1>1, <3>1, StarterGot DEF Listen
    <3>. QED BY <3>2
  <2>. QED BY <1>0, <1>1, <2>2, <2>3, StarterMoves, StarterCounts DEF BootInv
<1>2. CASE ~early /\ phase = "boot" /\ Others
  <2> USE DEF BootInv
  <2>1. CASE HostStart
    BY <1>0, <1>2, <2>1, GotoStep DEF HostStart
  <2>2. CASE Replace
    BY <1>2, <2>2 DEF Replace, At
  <2>3. CASE Update
    BY <1>2, <2>3 DEF Update
  <2>8. CASE ApplyUpdate
    BY <1>2, <2>8 DEF ApplyUpdate
  <2>9. CASE Hook
    BY <1>2, <2>9 DEF Hook
  <2>4. CASE HookRestarts \/ ConfigRestarts
    BY <1>2, <2>4 DEF HookRestarts, ConfigRestarts
  <2>5. CASE Poll \/ Load \/ Compare \/ Renew
    BY <1>2, <2>5 DEF Poll, Load, Compare, Renew, startVars
  <2>6. CASE Stopping
    BY <1>2, <2>6 DEF Stopping, Quit, Cancel, HostStop, StopChecks, StopCalls, ServeEnds, startVars
  <2>. QED BY <1>2, <2>1, <2>2, <2>3, <2>4, <2>5, <2>6, <2>8, <2>9 DEF Others
<1>3. CASE UNCHANGED hostVars
    BY <1>3 DEF hostVars, startVars, BootInv
<1>4. ASSUME HostNext PROVE ~early /\ phase = "boot"
  <2>1. ASSUME NEW r \in Starters,
               Prepare(r) \/ Apply(r) \/ Listen(r) \/ Lookup(r) \/ Save(r) \/ SetPort(r) \/ Assign(r)
        PROVE  ~early /\ phase = "boot"
    BY <1>0, <2>1, StarterMoves
  <2>2. CASE HostStart \/ ApplyUpdate
    BY <2>2 DEF HostStart, ApplyUpdate
  <2>6. CASE Update
    BY <2>6 DEF Update, HostTypeInv, FlagTypes
  <2>7. CASE Replace
    BY <2>7 DEF Replace, Fails
  <2>3. CASE Hook \/ HookRestarts \/ ConfigRestarts
    BY <2>3 DEF Hook, HookRestarts, ConfigRestarts
  <2>4. CASE Poll \/ Load \/ Compare \/ Renew
    BY <2>4 DEF Poll, Load, Compare, Renew
  <2>5. CASE Stopping
    BY <2>5 DEF Stopping, Quit, Cancel, HostStop, StopChecks, StopCalls, ServeEnds
  <2>. QED BY <1>4, <2>1, <2>2, <2>3, <2>4, <2>5, <2>6, <2>7 DEF HostNext, Starting, Restarting
<1>. QED BY <1>1, <1>2, <1>3, <1>4 DEF HostNext, Starting, Restarting, Others

\* One of the two starts at a time.
LEMMA OneStarter ==
    ASSUME OrderInv, BootInv, phase \notin {"ended", "panic"}, ~early,
           NEW r \in Starters, startPc[r] # "idle"
    PROVE  /\ \A q \in Starters : q # r => startPc[q] = "idle"
           /\ r = "start" <=> phase = "boot"
    BY DEF OrderInv, BootInv, Starters

-----------------------------------------------------------------------------
(* Whose the gateways are.                                                 *)

\* A start makes the gateway of a service that has none.
Vacant ==
    ~early => \A r \in Starters : startPc[r] \in Holding \cup Serving \cup {"prepare"} => service = 0

Numbered == \A g \in gateways : g.id # 0

LeakInv == Vacant /\ Numbered /\ NoLeak

\* The others leave a start under way to itself, and begin another one only
\* when the service has no gateway.
LEMMA OthersKeep ==
    ASSUME HostTypeInv, OrderInv, BootInv, Others
    PROVE  \A r \in Starters :
              /\ startPc[r] \in Holding \cup Serving \cup {"prepare"} => startPc'[r] = startPc[r]
              /\ startPc'[r] \in Holding \cup Serving => startPc'[r] = startPc[r]
              /\ (~early /\ startPc'[r] = "prepare") => (startPc[r] = "prepare" \/ service' = 0)
<1>0. /\ StepTypes /\ startPc \in [Starters -> Steps]
      /\ "restart" \in Starters /\ "start" \in Starters /\ {"prepare", "stop", "idle"} \subseteq Steps
    BY DEF Starters, Steps, HostTypeInv, StepTypes
<1> USE DEF startVars, regVars, Starters, Holding, Serving
<1>1. CASE HostStart
  <2>1. startPc["start"] = "idle" /\ (~early => service' = 0)
    BY <1>1 DEF HostStart, OrderInv, BootInv
  <2>. QED BY <1>0, <1>1, <2>1, GotoStep DEF HostStart
<1>2. CASE Replace
  <2>1. startPc["restart"] = "stop" /\ startPc'["start"] = startPc["start"]
    BY <1>0, <1>2, GotoStep DEF Replace, At, Fails
  <2>2. startPc'["restart"] \notin {"idle", "stop"} => startPc'["restart"] = "prepare" /\ service' = 0
    BY <1>0, <1>2, <2>1, GotoStep DEF Replace, Fails
  <2>. QED BY <2>1, <2>2
<1>3. CASE HookRestarts \/ ConfigRestarts
  <2>1. BeginRestart /\ service' = service
    BY <1>3 DEF HookRestarts, ConfigRestarts
  <2>2. /\ startPc["restart"] = "idle" /\ startPc'["start"] = startPc["start"]
        /\ startPc'["restart"] = IF service = 0 THEN "prepare" ELSE "stop"
    BY <1>0, <2>1, GotoStep DEF BeginRestart, At
  <2>. QED BY <2>1, <2>2
<1>4. CASE Update \/ ApplyUpdate \/ Hook
    BY <1>4 DEF Update, ApplyUpdate, Hook
<1>5. CASE Poll \/ Load \/ Compare \/ Renew
    BY <1>5 DEF Poll, Load, Compare, Renew
<1>6. CASE Stopping
    BY <1>6 DEF Stopping, Quit, Cancel, HostStop, StopChecks, StopCalls, ServeEnds
<1>. QED BY <1>1, <1>2, <1>3, <1>4, <1>5, <1>6 DEF Others

LEMMA LeakInit == HostInit => LeakInv
    BY DEF HostInit, LeakInv, Vacant, Numbered, NoLeak, Starters, Holding, Serving

LEMMA LeakStep ==
    ASSUME HostTypeInv, OrderInv, BootInv, LeakInv, [HostNext]_hostVars
    PROVE  LeakInv'
<1>0. /\ StepTypes /\ startPc \in [Starters -> Steps] /\ GatewayTypes /\ GotTypes
      /\ "restart" \in Starters /\ "start" \in Starters /\ {"prepare", "stop", "idle"} \subseteq Steps
    BY DEF Starters, Steps, HostTypeInv, StepTypes
<1>1. ASSUME NEW r \in Starters, phase \notin {"ended", "panic"},
             Prepare(r) \/ Apply(r) \/ Listen(r) \/ Lookup(r) \/ Save(r) \/ SetPort(r) \/ Assign(r)
      PROVE  LeakInv'
  <2>1. UNCHANGED <<early, cancelled>> /\ startPc[r] \in Holding \cup Serving \cup {"prepare"}
    BY <1>0, <1>1, StarterMoves DEF Moves, Holding, Serving
  <2>2. \A q \in Starters : q # r => startPc'[q] = startPc[q]
    BY <1>0, <1>1, StarterMoves, GotoStep
  <2>3. ~early => /\ service = 0
                  /\ \A q \in Starters : q # r => startPc[q] = "idle"
    BY <1>1, <2>1, OneStarter DEF LeakInv, Vacant, Holding, Serving
  <2>4. CASE Listen(r) /\ made' # made
    <3>1. /\ service' = service /\ gateways' = gateways \cup {got'[r]} /\ got'[r].id = made + 1
          /\ \A q \in Starters : q # r => got'[q] = got[q]
          /\ startPc[r] = "listen" /\ startPc'[r] = "lookup"
      BY <1>0, <2>4, ListenMakes, GotoStep DEF Listen, Steps
    <3>2. Vacant'
      BY <2>1, <2>3, <3>1 DEF Vacant
    <3>3. Numbered'
      BY <1>0, <3>1 DEF LeakInv, Numbered, GatewayTypes
    <3>4. NoLeak'
      BY <2>1, <2>2, <3>1 DEF LeakInv, NoLeak
    <3>. QED BY <3>2, <3>3, <3>4 DEF LeakInv
  <2>5. CASE /\ got' = got /\ UNCHANGED <<gateways, service, made>>
             /\ startPc'[r] \in Serving => startPc[r] \in Serving
    <3>1. Vacant' /\ Numbered'
      BY <2>1, <2>3, <2>5 DEF LeakInv, Vacant, Numbered
    <3>2. startPc[r] \in Serving => startPc'[r] \in Serving \/ Assign(r)
      <4>1. Prepare(r) \/ Apply(r) \/ Listen(r) => startPc[r] \notin Serving
        BY DEF Prepare, Apply, Listen, At, Serving
      <4>2. Lookup(r) \/ Save(r) \/ SetPort(r) => startPc'[r] \in Serving
        BY <1>0, GotoStep DEF Lookup, Save, SetPort, Serving, Steps
      <4>. QED BY <1>1, <4>1, <4>2
    <3>3. CASE ~Assign(r)
      BY <2>1, <2>2, <2>5, <3>1, <3>2, <3>3 DEF LeakInv, NoLeak, Serving
    <3>4. CASE Assign(r)
      <4>1. startPc'[r] = "idle" /\ service' = got[r].id
        BY <1>0, <3>4, GotoStep DEF Assign
      <4>. QED BY <2>1, <2>2, <2>5, <3>1, <4>1 DEF LeakInv, NoLeak
    <3>. QED BY <3>3, <3>4
  <2>6. CASE /\ Assign(r) /\ Forgets(got, r) /\ service' = got[r].id
             /\ startPc[r] = "assign" /\ startPc'[r] = "idle" /\ UNCHANGED <<gateways, made>>
    <3>1. \A q \in Starters : q # r => got'[q] = got[q]
      BY <1>0, <2>6, ExceptType DEF Forgets, GotTypes
    <3>2. Vacant'
      BY <2>1, <2>2, <2>3, <2>6 DEF Vacant, Holding, Serving
    <3>3. Numbered'
      BY <2>6 DEF LeakInv, Numbered
    <3>4. ASSUME ~early, ~cancelled, NEW g \in gateways
          PROVE  g.id = service'
      <4>1. g.id # 0 /\ service = 0
        BY <2>3, <3>4 DEF LeakInv, Numbered
      <4>2. PICK q \in Starters : g = got[q] /\ startPc[q] \in Serving
        BY <3>4, <4>1 DEF LeakInv, NoLeak, Serving
      <4>3. q = r
        BY <2>3, <3>4, <4>2 DEF Serving
      <4>. QED BY <2>6, <4>2, <4>3
    <3>. QED BY <2>1, <2>6, <3>2, <3>3, <3>4 DEF LeakInv, NoLeak
  <2>. QED BY <1>1, <2>4, <2>5, <2>6, StarterGot
<1>2. CASE Others /\ phase \notin {"ended", "panic"}
  <2>1. ~early' => ~early
    BY <1>2 DEF Others, HostStart, Replace, Update, ApplyUpdate, Hook, HookRestarts, Poll, Load,
           Compare, Renew, ConfigRestarts, Stopping, Quit, Cancel, HostStop, StopChecks, StopCalls,
           ServeEnds, clientVars
  <2>2. ~cancelled' => ~cancelled
    BY <1>2 DEF Others, HostStart, Replace, Update, ApplyUpdate, Hook, HookRestarts, Poll, Load,
           Compare, Renew, ConfigRestarts, Stopping, Quit, Cancel, HostStop, StopChecks, StopCalls,
           ServeEnds, daemonVars
  <2>3. got' = got /\ gateways' \subseteq gateways /\ service' \in {service, 0}
    BY <1>0, <1>2, OthersHold, OthersGateways DEF HostTypeInv, regVars, ServeEnds
  <2>4. Numbered'
    BY <2>3 DEF LeakInv, Numbered
  <2>5. Vacant'
    BY <1>2, <2>1, <2>3, OthersKeep DEF LeakInv, Vacant
  <2>6. ASSUME ~early', ~cancelled', NEW g \in gateways'
        PROVE  \/ g.id = service'
               \/ \E r \in Starters : g = got'[r] /\ startPc'[r] \in Serving
    <3>1. \/ g.id = service
          \/ \E r \in Starters : g = got[r] /\ startPc[r] \in Serving
      BY <2>1, <2>2, <2>3, <2>6 DEF LeakInv, NoLeak, Serving
    <3>2. CASE \E r \in Starters : g = got[r] /\ startPc[r] \in Serving
      BY <1>2, <2>3, <3>2, OthersKeep
    <3>3. CASE g.id = service
      <4>1. ~ServeEnds
        BY <2>2, <2>6 DEF ServeEnds
      <4>2. UNCHANGED regVars
        BY <1>2, <2>6, <3>3, <4>1, OthersGateways DEF Shut
      <4>. QED BY <3>3, <4>2 DEF regVars
    <3>. QED BY <3>1, <3>2, <3>3
  <2>. QED BY <2>4, <2>5, <2>6 DEF LeakInv, NoLeak, Serving
<1>3. CASE UNCHANGED hostVars
    BY <1>3 DEF hostVars, startVars, regVars, daemonVars, clientVars, LeakInv, Vacant, Numbered, NoLeak
<1>. QED BY <1>1, <1>2, <1>3 DEF HostNext, Starting, Restarting, Others

\* No gateway is leaked: one that listens is the registered one, or its start
\* is under way; unless an update came before the host's Start was over, or the
\* context is cancelled, which closes it.
THEOREM NothingLeaks == HostSpec => []NoLeak
<1>1. HostInit => HostTypeInv /\ OrderInv /\ BootInv /\ LeakInv
    BY HostTypeInit, OrderInit, LeakInit
<1>2. HostTypeInv /\ OrderInv /\ BootInv /\ LeakInv /\ [HostNext]_hostVars
      => HostTypeInv' /\ OrderInv' /\ BootInv' /\ LeakInv'
    BY HostTypeStep, OrderStep, BootStep, LeakStep
<1>3. LeakInv => NoLeak
    BY DEF LeakInv
<1>. QED BY <1>1, <1>2, <1>3, PTL DEF HostSpec

-----------------------------------------------------------------------------
(* What the gateway serves.                                                *)

\* No failure, no update during the start, and not at the daemon's end.
Orderly == ~early /\ hostFaults = 0 /\ ~done

\* Another restart will follow.
Due == client = "apply" \/ spawned > 0 \/ queued > 0

Registered == \E g \in gateways : gateways = {g} /\ g.id = service

Serves(g) == applied = store /\ g.binding = store.binding /\ g.port = store.port

\* What a starter has done so far, if no other restart will undo it.
Progress(r) ==
    CASE startPc[r] = "apply" -> read[r] = store
      [] startPc[r] = "listen" -> read[r] = store /\ applied = store
      [] startPc[r] = "lookup" -> applied = store /\ got[r].binding = store.binding
      [] startPc[r] = "save" -> read[r] = store /\ applied = store /\ got[r].binding = store.binding
      [] startPc[r] = "port" -> /\ applied.binding = store.binding
                                /\ got[r].binding = store.binding /\ got[r].port = store.port
      [] startPc[r] = "assign" -> Serves(got[r])
      [] OTHER -> TRUE

ServeInv ==
    Orderly =>
        /\ phase \in {"boot", "run"}
        /\ phase = "boot" /\ startPc["start"] = "idle" => gateways = {}
        /\ phase = "run" /\ startPc["restart"] \in {"idle", "stop"} => Registered
        /\ phase = "run" /\ startPc["restart"] = "idle" => Due \/ \A g \in gateways : Serves(g)
        /\ \A r \in Starters :
              /\ startPc[r] \in {"prepare", "apply", "listen"} => gateways = {}
              /\ startPc[r] \in Serving => gateways = {got[r]}
              /\ Due \/ Progress(r)

LEMMA ServeInit == HostInit => ServeInv
    BY DEF HostInit, ServeInv, Starters, Serving, Progress

\* The state after a step of the one starter that is at work.
LEMMA ServeClose ==
    ASSUME NEW r \in Starters, startPc'[r] \in Holding \cup Serving \cup {"prepare"},
           \A q \in Starters : q # r => startPc'[q] = "idle",
           phase' \in {"boot", "run"}, r = "start" <=> phase' = "boot",
           startPc'[r] \in {"prepare", "apply", "listen"} => gateways' = {},
           startPc'[r] \in Serving => gateways' = {got'[r]},
           Due' \/ Progress(r)'
    PROVE  ServeInv'
<1>1. \A q \in Starters : q # r => Progress(q)'
    BY DEF Progress
<1>2. startPc'[r] # "idle" /\ startPc'[r] # "stop"
    BY DEF Holding, Serving
<1>. QED BY <1>1, <1>2 DEF ServeInv, Starters, Serving

\* A step that leaves another restart due.
LEMMA ServeDue ==
    ASSUME ServeInv, Orderly' => Orderly, Due', UNCHANGED <<gateways, service, startPc, got, phase>>
    PROVE  ServeInv'
    BY DEF ServeInv, Registered, Serving

\* A step that touches no configuration and no gateway.
LEMMA ServeStutter ==
    ASSUME ServeInv, Orderly' => Orderly,
           UNCHANGED <<store, applied, gateways, service, startPc, read, got, phase, client, spawned, queued>>
    PROVE  ServeInv'
<1>1. (Due' <=> Due) /\ (Registered' <=> Registered)
    BY DEF Due, Registered
<1>2. \A r \in Starters : Progress(r)' <=> Progress(r)
    BY DEF Progress, Serves
<1>3. \A g \in gateways : Serves(g)' <=> Serves(g)
    BY DEF Serves
<1>. QED BY <1>1, <1>2, <1>3 DEF ServeInv, Serving

LEMMA SameConfig ==
    ASSUME NEW c \in Configs, NEW d \in Configs, c.binding = d.binding, c.port = d.port
    PROVE  c = d
    BY DEF Configs

LEMMA StarterServes ==
    ASSUME HostTypeInv, OrderInv, BootInv, LeakInv, ServeInv, phase \notin {"ended", "panic"},
           NEW r \in Starters,
           Prepare(r) \/ Apply(r) \/ Listen(r) \/ Lookup(r) \/ Save(r) \/ SetPort(r) \/ Assign(r)
    PROVE  ServeInv'
<1>. SUFFICES ASSUME Orderly' PROVE ServeInv'
    BY DEF ServeInv
<1>0. /\ StepTypes /\ ReadTypes /\ GotTypes /\ ConfigTypes /\ GatewayTypes /\ hostFaults \in Nat
      /\ {"apply", "listen", "lookup", "save", "port", "assign", "idle"} \subseteq Steps
    BY HostAssumption DEF HostTypeInv, HostCounts, Steps
<1>1. UNCHANGED <<client, spawned, queued, early, done, cancelled>>
    BY <1>0, StarterMoves, StarterCounts
<1>2. NoHostFault /\ ~HostFault /\ Orderly /\ ~cancelled
    BY <1>0, <1>1, StarterCounts DEF HostFault, NoHostFault, Orderly, OrderInv
<1>3. startPc[r] \in Holding \cup Serving \cup {"prepare"}
    BY <1>0, StarterMoves DEF Moves, Holding, Serving
<1>4. /\ \A q \in Starters : q # r => startPc[q] = "idle"
      /\ r = "start" <=> phase = "boot"
    BY <1>2, <1>3, OneStarter DEF Orderly, Holding, Serving
<1>5. \A q \in Starters : q # r => startPc'[q] = "idle"
    BY <1>0, <1>4, StarterMoves, GotoStep
<1>6. (Due' <=> Due) /\ phase \in {"boot", "run"}
    BY <1>1, <1>2 DEF Due, ServeInv
<1>7. /\ startPc[r] \in {"prepare", "apply", "listen"} => gateways = {}
      /\ startPc[r] \in Serving => gateways = {got[r]}
      /\ Due \/ Progress(r)
    BY <1>2 DEF ServeInv
<1>8. CASE Prepare(r)
  <2>1. /\ startPc[r] = "prepare" /\ read' = [read EXCEPT ![r] = store] /\ Goto(r, "apply")
        /\ UNCHANGED <<phase, store, gateways>>
    BY <1>2, <1>8 DEF Prepare, At, storeVars, regVars
  <2>2. startPc'[r] = "apply" /\ read'[r] = store
    BY <1>0, <2>1, GotoStep DEF ReadTypes
  <2>3. Progress(r)'
    BY <2>1, <2>2 DEF Progress
  <2>. QED BY <1>4, <1>5, <1>6, <1>7, <2>1, <2>2, <2>3, ServeClose DEF Holding, Serving
<1>9. CASE Apply(r)
  <2>1. /\ startPc[r] = "apply" /\ applied' = read[r] /\ Goto(r, "listen")
        /\ UNCHANGED <<read, phase, store, gateways>>
    BY <1>2, <1>9 DEF Apply, At, storeVars, regVars
  <2>2. startPc'[r] = "listen"
    BY <1>0, <2>1, GotoStep
  <2>3. Progress(r) => Progress(r)'
    BY <2>1, <2>2 DEF Progress
  <2>. QED BY <1>4, <1>5, <1>6, <1>7, <2>1, <2>2, <2>3, ServeClose DEF Holding, Serving
<1>10. CASE Listen(r)
  <2>1. startPc[r] = "listen" /\ gateways = {} /\ read[r] \in Configs
    BY <1>0, <1>7, <1>10 DEF Listen, At, ReadTypes, Holding
  <2>2. Free(read[r]) # {}
    <3>1. PICK p : p \in Ports /\ read[r].port \in {0, p}
      BY <2>1, HostAssumption DEF Configs
    <3>. QED BY <2>1, <3>1 DEF Free
  <2>3. made' = made + 1 /\ UNCHANGED <<phase, store, applied>>
    BY <1>2, <1>10, <2>2 DEF Listen, storeVars
  <2>4. made' # made
    BY <1>0, <2>3 DEF GatewayTypes
  <2>5. /\ gateways' = {got'[r]} /\ got'[r].binding = read[r].binding /\ Goto(r, "lookup")
    BY <1>10, <2>1, <2>4, ListenMakes
  <2>6. startPc'[r] = "lookup"
    BY <1>0, <2>5, GotoStep
  <2>7. Progress(r) => Progress(r)'
    BY <2>1, <2>3, <2>5, <2>6 DEF Progress
  <2>. QED BY <1>4, <1>5, <1>6, <1>7, <2>3, <2>5, <2>6, <2>7, ServeClose DEF Holding, Serving
<1>11. CASE Lookup(r)
  <2>1. startPc[r] = "lookup" /\ gateways = {got[r]} /\ UNCHANGED <<phase, store, applied, gateways, got>>
    BY <1>7, <1>11 DEF Lookup, At, Serving, storeVars, regVars, daemonVars
  <2>2. CASE store.port = got[r].port /\ Goto(r, "assign")
    <3>1. startPc'[r] = "assign"
      BY <1>0, <2>2, GotoStep
    <3>2. Progress(r) => Progress(r)'
      BY <2>1, <2>2, <3>1 DEF Progress, Serves
    <3>. QED BY <1>4, <1>5, <1>6, <1>7, <2>1, <3>1, <3>2, ServeClose DEF Holding, Serving
  <2>3. CASE Goto(r, "save") /\ read' = [read EXCEPT ![r] = store]
    <3>1. startPc'[r] = "save" /\ read'[r] = store
      BY <1>0, <2>3, GotoStep DEF ReadTypes
    <3>2. Progress(r) => Progress(r)'
      BY <2>1, <3>1 DEF Progress
    <3>. QED BY <1>4, <1>5, <1>6, <1>7, <2>1, <3>1, <3>2, ServeClose DEF Holding, Serving
  <2>. QED BY <1>2, <1>11, <2>2, <2>3 DEF Lookup
<1>12. CASE Save(r)
  <2>1. /\ startPc[r] = "save" /\ gateways = {got[r]} /\ read[r] \in Configs /\ got[r] \in Gateway
        /\ UNCHANGED <<phase, applied, gateways, got>>
    BY <1>0, <1>7, <1>12 DEF Save, At, Holding, Serving, regVars, daemonVars, ReadTypes, GotTypes
  <2>2. store' = [read[r] EXCEPT !.port = got[r].port] /\ Goto(r, "port")
    BY <1>2, <1>12 DEF Save
  <2>3. startPc'[r] = "port" /\ store'.port = got[r].port /\ store'.binding = read[r].binding
    BY <1>0, <2>1, <2>2, GotoStep DEF Configs
  <2>4. Progress(r) => Progress(r)'
    BY <2>1, <2>3 DEF Progress
  <2>. QED BY <1>4, <1>5, <1>6, <1>7, <2>1, <2>3, <2>4, ServeClose DEF Holding, Serving
<1>13. CASE SetPort(r)
  <2>1. /\ startPc[r] = "port" /\ gateways = {got[r]} /\ got[r] \in Gateway
        /\ UNCHANGED <<phase, store, gateways, got>> /\ Goto(r, "assign")
        /\ applied' = [applied EXCEPT !.port = got[r].port]
    BY <1>0, <1>7, <1>13 DEF SetPort, At, Serving, storeVars, regVars, daemonVars, GotTypes
  <2>2. startPc'[r] = "assign" /\ applied'.port = got[r].port /\ applied'.binding = applied.binding
        /\ applied' \in Configs /\ store \in Configs
    BY <1>0, <2>1, GotoStep DEF ConfigTypes, Configs, Gateway
  <2>3. ASSUME Progress(r) PROVE Progress(r)'
    <3>1. applied.binding = store.binding /\ got[r].binding = store.binding /\ got[r].port = store.port
      BY <2>1, <2>3 DEF Progress
    <3>2. applied' = store
      BY <2>2, <3>1, SameConfig
    <3>. QED BY <2>1, <2>2, <3>1, <3>2 DEF Progress, Serves
  <2>. QED BY <1>4, <1>5, <1>6, <1>7, <2>1, <2>2, <2>3, ServeClose DEF Holding, Serving
<1>14. CASE Assign(r)
  <2>1. /\ startPc[r] = "assign" /\ gateways = {got[r]} /\ service' = got[r].id
        /\ UNCHANGED <<store, applied, gateways>> /\ Goto(r, "idle")
    BY <1>7, <1>14 DEF Assign, At, Serving, storeVars
  <2>2. phase' = "run"
    BY <1>4, <1>6, <1>14 DEF Assign
  <2>3. \A q \in Starters : startPc'[q] = "idle"
    BY <1>0, <1>5, <2>1, GotoStep
  <2>4. Registered'
    BY <2>1 DEF Registered
  <2>5. Progress(r) => \A g \in gateways' : Serves(g)'
    BY <2>1 DEF Progress, Serves
  <2>6. \A q \in Starters : Progress(q)'
    BY <2>3 DEF Progress
  <2>. QED BY <1>6, <1>7, <2>2, <2>3, <2>4, <2>5, <2>6 DEF ServeInv, Serving
<1>. QED BY <1>8, <1>9, <1>10, <1>11, <1>12, <1>13, <1>14

\* A restart begins where a gateway serves, and replaces it.
LEMMA RestartServes ==
    ASSUME HostTypeInv, OrderInv, BootInv, LeakInv, ServeInv, phase = "run", BeginRestart,
           Orderly' => Orderly, UNCHANGED <<gateways, service, got, phase>>
    PROVE  ServeInv'
<1>. SUFFICES ASSUME Orderly' PROVE ServeInv'
    BY DEF ServeInv
<1>0. /\ StepTypes /\ startPc \in [Starters -> Steps]
      /\ "restart" \in Starters /\ "start" \in Starters /\ {"prepare", "stop", "idle"} \subseteq Steps
    BY DEF Starters, Steps, HostTypeInv, StepTypes
<1>1. startPc["restart"] = "idle" /\ startPc["start"] = "idle" /\ Orderly
    BY DEF BeginRestart, At, OrderInv
<1>2. Registered /\ service # 0
    BY <1>1 DEF ServeInv, Registered, LeakInv, Numbered
<1>3. startPc'["restart"] = "stop" /\ startPc'["start"] = "idle"
    BY <1>0, <1>1, <1>2, GotoStep DEF BeginRestart
<1>4. Registered'
    BY <1>2 DEF Registered
<1>5. \A q \in Starters : Progress(q)'
    BY <1>3 DEF Progress, Starters
<1>. QED BY <1>3, <1>4, <1>5 DEF ServeInv, Serving, Starters

LEMMA OthersServe ==
    ASSUME HostTypeInv, OrderInv, BootInv, LeakInv, ServeInv, phase \notin {"ended", "panic"}, Others
    PROVE  ServeInv'
<1>. SUFFICES ASSUME Orderly' PROVE ServeInv'
    BY DEF ServeInv
<1>0. /\ StepTypes /\ startPc \in [Starters -> Steps] /\ hostFaults \in Nat
      /\ spawned \in Nat /\ queued \in Nat /\ early \in BOOLEAN
      /\ "restart" \in Starters /\ "start" \in Starters /\ {"prepare", "stop", "idle"} \subseteq Steps
    BY HostAssumption DEF Starters, Steps, HostTypeInv, StepTypes, HostCounts, FlagTypes
<1> USE DEF storeVars, regVars, startVars, daemonVars, clientVars, hookVars
<1>1. CASE HostStart
  <2>1. Orderly /\ startPc["start"] = "idle" /\ phase = "boot" /\ phase' = "boot"
    BY <1>1 DEF HostStart, Orderly, OrderInv
  <2>2. startPc["restart"] = "idle" /\ gateways' = {}
    BY <1>1, <2>1 DEF HostStart, ServeInv, BootInv, Orderly
  <2>3. startPc'["start"] = "prepare" /\ startPc'["restart"] = "idle"
    BY <1>0, <1>1, <2>2, GotoStep DEF HostStart
  <2>4. Progress("start")'
    BY <2>3 DEF Progress
  <2>. QED BY <1>0, <2>1, <2>2, <2>3, <2>4, ServeClose DEF Starters, Serving
<1>2. CASE Replace
  <2>1. Orderly /\ ~HostFault /\ startPc["restart"] = "stop"
    BY <1>0, <1>2 DEF Replace, At, HostFault, NoHostFault, Orderly
  <2>2. phase = "run" /\ startPc["start"] = "idle"
    BY <2>1 DEF Orderly, BootInv, OrderInv, ServeInv
  <2>3. Registered /\ service # 0
    BY <2>1, <2>2 DEF ServeInv, Registered, LeakInv, Numbered
  <2>4. Shut(service) /\ Goto("restart", "prepare") /\ UNCHANGED phase
    BY <1>2, <2>1, <2>3 DEF Replace
  <2>5. gateways' = {}
    BY <2>3, <2>4 DEF Registered, Shut
  <2>6. startPc'["restart"] = "prepare" /\ startPc'["start"] = "idle"
    BY <1>0, <2>2, <2>4, GotoStep
  <2>7. Progress("restart")'
    BY <2>6 DEF Progress
  <2>. QED BY <1>0, <2>2, <2>4, <2>5, <2>6, <2>7, ServeClose DEF Starters, Serving
<1>3. CASE Update
  <2>1. Orderly
    BY <1>0, <1>3 DEF Update, Orderly
  <2>2. Due'
    BY <1>3 DEF Update, Due
  <2>. QED BY <1>3, <2>1, <2>2, ServeDue DEF Update
<1>4. CASE ApplyUpdate
  <2>1. Orderly /\ ~HostFault
    BY <1>0, <1>4 DEF ApplyUpdate, Orderly, HostFault, NoHostFault
  <2>2. Due'
    BY <1>0, <1>4, <2>1 DEF ApplyUpdate, Due
  <2>. QED BY <1>4, <2>1, <2>2, ServeDue DEF ApplyUpdate
<1>5. CASE Hook
  <2>1. Orderly /\ spawned > 0
    BY <1>5 DEF Hook, Orderly
  <2>2. started
    BY <1>0, <2>1 DEF Orderly, BootInv, OrderInv, ServeInv
  <2>3. Due'
    BY <1>0, <1>5, <2>1, <2>2 DEF Hook, Due, Orderly
  <2>. QED BY <1>5, <2>1, <2>3, ServeDue DEF Hook
<1>6. CASE HookRestarts
  <2>1. Orderly /\ queued > 0 /\ BeginRestart /\ UNCHANGED <<gateways, service, got, phase>>
    BY <1>6 DEF HookRestarts, Orderly
  <2>2. phase = "run"
    BY <1>0, <2>1 DEF Orderly, BootInv, ServeInv
  <2>. QED BY <2>1, <2>2, RestartServes
<1>7. CASE ConfigRestarts
  <2>1. Orderly /\ config = "queue" /\ BeginRestart /\ UNCHANGED <<gateways, service, got, phase>>
    BY <1>7 DEF ConfigRestarts, Orderly
  <2>2. phase = "run"
    BY <2>1 DEF Orderly, BootInv, ServeInv
  <2>. QED BY <2>1, <2>2, RestartServes
<1>8. CASE Poll \/ Compare \/ Renew
    BY <1>8, ServeStutter DEF Poll, Compare, Renew, Orderly
<1>9. CASE Load
  <2>1. Orderly' => Orderly
    BY <1>0, <1>9 DEF Load, Orderly, HostFault, NoHostFault
  <2>. QED BY <1>9, <2>1, ServeStutter DEF Load
<1>10. CASE Stopping
    BY <1>10 DEF Stopping, Quit, Cancel, HostStop, StopChecks, StopCalls, ServeEnds, Orderly, OrderInv,
                 ServeInv
<1>. QED BY <1>1, <1>2, <1>3, <1>4, <1>5, <1>6, <1>7, <1>8, <1>9, <1>10 DEF Others

LEMMA ServeStep ==
    ASSUME HostTypeInv, OrderInv, BootInv, LeakInv, ServeInv, [HostNext]_hostVars
    PROVE  ServeInv'
<1>1. CASE UNCHANGED hostVars
    BY <1>1, ServeStutter DEF hostVars, storeVars, regVars, startVars, daemonVars, clientVars, hookVars,
                              Orderly
<1>. QED BY <1>1, StarterServes, OthersServe DEF HostNext, Starting, Restarting, Others

\* When nobody is at work, one gateway listens, the host knows it, and it and
\* the server's copy have the configuration that is in the store, whatever the
\* order in which updates, the watcher, the certificate monitor and the
\* written-back port came; unless an operation has failed or an update came
\* before the host's Start was over.
THEOREM ConfigIsServed == HostSpec => []ServesConfig
<1>1. HostInit => HostTypeInv /\ OrderInv /\ BootInv /\ LeakInv /\ ServeInv
    BY HostTypeInit, OrderInit, LeakInit, ServeInit
<1>2. HostTypeInv /\ OrderInv /\ BootInv /\ LeakInv /\ ServeInv /\ [HostNext]_hostVars
      => HostTypeInv' /\ OrderInv' /\ BootInv' /\ LeakInv' /\ ServeInv'
    BY HostTypeStep, OrderStep, BootStep, LeakStep, ServeStep
<1>3. HostTypeInv /\ ServeInv => ServesConfig
  <2>. SUFFICES ASSUME HostTypeInv, ServeInv, Quiet, hostFaults = 0, ~early
                PROVE  /\ applied = store
                       /\ gateways = {[id |-> service, binding |-> store.binding, port |-> store.port]}
      BY DEF ServesConfig
  <2>1. Orderly /\ phase = "run" /\ startPc["restart"] = "idle" /\ ~Due
      BY DEF Quiet, At, Orderly, Due, Starters, HostTypeInv, HostCounts
  <2>2. PICK g \in gateways : gateways = {g} /\ g.id = service /\ Serves(g)
      BY <2>1 DEF ServeInv, Registered
  <2>3. g = [id |-> service, binding |-> store.binding, port |-> store.port]
      BY <2>2 DEF Serves, HostTypeInv, GatewayTypes, Gateway
  <2>. QED BY <2>2, <2>3 DEF Serves
<1>. QED BY <1>1, <1>2, <1>3, PTL DEF HostSpec

-----------------------------------------------------------------------------
(* The parts of MCServices together.                                       *)

\* A behaviour of the parts together is one of each part: what is proved of a part
\* holds where MCServices checks it.
THEOREM ServicesCompose ==
  Spec => LogSpec /\ ConvSpec /\ HostSpec /\ PluginSpec /\ CallsSpec /\ InstallSpec /\ OutputSpec
<1>1. Init => LogInit /\ ConvInit /\ HostInit /\ PluginInit /\ CallsInit /\ InstallInit /\ OutputInit
  BY DEF Init
<1>2. [Next]_servicesVars => [LogNext]_logVars
  BY DEF Next, servicesVars
<1>3. [Next]_servicesVars => [ConvNext]_convVars
  BY DEF Next, servicesVars
<1>4. [Next]_servicesVars => [HostNext]_hostVars
  BY DEF Next, servicesVars
<1>5. [Next]_servicesVars => [PluginNext]_pluginVars
  BY DEF Next, servicesVars
<1>6. [Next]_servicesVars => [CallsNext]_runtimeVars
  BY DEF Next, servicesVars
<1>7. [Next]_servicesVars => [InstallNext]_installVars
  BY DEF Next, servicesVars
<1>8. [Next]_servicesVars => [OutputNext]_outputVars
  BY DEF Next, servicesVars
<1> QED
  BY <1>1, <1>2, <1>3, <1>4, <1>5, <1>6, <1>7, <1>8, PTL
     DEF Spec, LogSpec, ConvSpec, HostSpec, PluginSpec, CallsSpec, InstallSpec, OutputSpec

\* So every variable of every part keeps its type, whichever part is at work.
THEOREM ServicesTypeCorrect == Spec => []ServicesTypeOK
<1>1. Init => part \in Parts
  BY DEF Init
<1>2. part \in Parts /\ [Next]_servicesVars => (part \in Parts)'
  BY DEF Next, servicesVars
<1>3. /\ part \in Parts
      /\ LogTypeOK /\ ConvTypeOK /\ HostTypeOK /\ PluginTypeOK /\ CallsTypeOK /\ InstallTypeOK /\ OutputTypeOK
      => ServicesTypeOK
  BY DEF ServicesTypeOK, Parts
<1> QED BY <1>1, <1>2, <1>3, ServicesCompose,
        LogTypeCorrect, ConvTypeCorrect, HostTypeCorrect, PluginTypeCorrect, CallsTypeCorrect, InstallTypeCorrect, OutputTypeCorrect, PTL
        DEF Spec
=============================================================================
