------------------------------ MODULE MCSessions ------------------------------
(***************************************************************************)
(* A session, and two parts of awareness that live on the events of its    *)
(* life and share no state with it or each other: the journal, and what    *)
(* the service keeps of onboarding and heartbeats.  In a behaviour one of  *)
(* them is at work, and the others stay as they began.                     *)
(***************************************************************************)
EXTENDS SessionManager, Journal, Awareness, TLC

CONSTANTS user1, user2    \* clients, loggers and visitors: one part is at work

VARIABLE part

MCClients == {user1, user2}
Symmetry == Permutations(MCClients)

Parts == {"session", "journal", "awareness"}

SessionsInit ==
    /\ part \in Parts
    /\ Init /\ JournalInit /\ AwareInit

\* Bound: what happens to the journal, Shutdown among it, all told.
JournalBound == logged + old + failures + (IF at["shut"] = "up" THEN 0 ELSE 1) <= 2

sessionsVars == <<part, vars, journalVars, awareVars>>

SessionsNext ==
    /\ UNCHANGED part
    /\ \/ part = "session" /\ Next /\ UNCHANGED <<journalVars, awareVars>>
       \/ part = "journal" /\ JournalNext /\ JournalBound' /\ UNCHANGED <<vars, awareVars>>
       \/ part = "awareness" /\ AwareNext /\ UNCHANGED <<vars, journalVars>>

SessionsSpec == SessionsInit /\ [][SessionsNext]_sessionsVars

\* The states of the part at work have their types; the others keep their first.
SessionsTypeOK ==
    CASE part = "session" -> TypeOK
      [] part = "journal" -> JournalTypeOK
      [] part = "awareness" -> AwareTypeOK
=============================================================================
