---------------------------- MODULE BridgeProofs ----------------------------
(***************************************************************************)
(* Proofs about the intent router's bridge behind the adapters service,    *)
(* for any bindings, loops and callers: SlotInv has the types and who is   *)
(* inside updateState; HeardInv says what the events that wait are worth   *)
(* to the bridge.                                                          *)
(***************************************************************************)
EXTENDS AdapterBridge, TLAPS

LEMMA ExceptType ==
    ASSUME NEW S, NEW T, NEW f \in [S -> T], NEW x \in S, NEW y \in T
    PROVE  /\ [f EXCEPT ![x] = y] \in [S -> T]
           /\ [f EXCEPT ![x] = y][x] = y
           /\ \A z \in S : z # x => [f EXCEPT ![x] = y][z] = f[z]
    OBVIOUS

LEMMA ConcatElements ==
    ASSUME NEW S, NEW u \in Seq(S), NEW v \in Seq(S)
    PROVE  /\ u \o v \in Seq(S) /\ Len(u \o v) = Len(u) + Len(v)
           /\ \A i \in 1..(Len(u) + Len(v)) :
                  (u \o v)[i] = IF i <= Len(u) THEN u[i] ELSE v[i - Len(u)]
    OBVIOUS


LEMMA SingleElement ==
    ASSUME NEW S, NEW x \in S
    PROVE  <<x>> \in Seq(S) /\ Len(<<x>>) = 1 /\ <<x>>[1] = x /\ <<x>> # <<>>
    OBVIOUS


LEMMA TailElements ==
    ASSUME NEW S, NEW s \in Seq(S), s # <<>>
    PROVE  /\ Head(s) = s[1] /\ s[1] \in S /\ Tail(s) \in Seq(S)
           /\ Len(s) \in Nat /\ Len(s) > 0 /\ Len(Tail(s)) = Len(s) - 1
           /\ \A i \in 1..(Len(s) - 1) : Tail(s)[i] = s[i + 1]
    OBVIOUS

-----------------------------------------------------------------------------
(* The adapters service and the intent router's bridge.                    *)

RecSteps == {"idle", "set", "unset", "kill", "load", "ensure", "list", "lock", "gone", "new",
             "ready", "end"}
Healths == {"ready", "stopped", "error", "degraded"}
SlotErrors == ({"prepare", "start", "restart", "stop"} \X AdapterIds) \cup {<<>>}

BindTypes == bound \in Prints /\ active \in BOOLEAN /\ edits \in 0..MaxEdits

SlotTypes == instance \in Processes /\ port \in 0..MaxPorts /\ slotErr \in SlotErrors

PlanTypes ==
    /\ reconciler \in [Reconcilers -> RecSteps]
    /\ plan \in [Reconcilers -> Prints \cup {None, "keep"}]
    /\ seen \in [Reconcilers -> Processes]

StatusTypes == state \in Prints \cup {None} /\ status \in Statuses \cup {NoStatus}

BeatTypes ==
    /\ health \in {"untracked", "healthy", "degraded", "cleared"}
    /\ beat \in {"rest", "probe", "build", "record", "send", "purge"}
    /\ probed \in Processes /\ report \in Statuses \cup {NoStatus}
    /\ beat = "probe" => probed.print \in Prints
    /\ beat \in {"build", "record", "send"} => report \in Statuses

FaultTypes == faults \in 0..MaxFaults

EventTypes == subscribed \in BOOLEAN /\ events \in Seq(Statuses) /\ Len(events) <= MaxEvents

\* Who is inside updateState, which is one at a time, and what it has decided there.
Held == {"gone", "new", "ready"}

LockInv ==
    /\ \A q, r \in Reconcilers : reconciler[q] \in Held /\ reconciler[r] \in Held => q = r
    /\ DecisionsHold

SlotInv ==
    /\ BindTypes /\ SlotTypes /\ PlanTypes /\ StatusTypes /\ BeatTypes /\ FaultTypes
    /\ EventTypes /\ LockInv

LEMMA SlotTypesImply == SlotInv /\ BridgeTypeOK => TypeOK
    BY DEF SlotInv, TypeOK, ServiceTypeOK, BindTypes, SlotTypes, PlanTypes, StatusTypes,
           BeatTypes, FaultTypes, EventTypes, RecSteps, SlotErrors

LEMMA SlotBounds ==
    /\ None \notin Prints /\ None \notin AdapterIds /\ First \in Prints
    /\ \A p \in Prints : AdapterOf[p] \in AdapterIds
    /\ MaxPorts \in Nat /\ MaxPorts > 0 /\ MaxEdits \in Nat /\ MaxFaults \in Nat
    /\ MaxEvents \in Nat /\ ErrorLimit \in Nat /\ ErrorLimit > 0
    BY AdapterAssumption, BridgeAssumption DEF AdapterIds

LEMMA EventType ==
    /\ \A h \in Healths, a \in AdapterIds, n \in 0..MaxPorts : Event(h, a, n) \in Statuses
    /\ \A h, a, n : /\ Event(h, a, n).health = h /\ Event(h, a, n).adapter = a
                    /\ Event(h, a, n).address = n
    /\ \A e \in Statuses : e.health \in Healths /\ e.adapter \in AdapterIds
                           /\ e.address \in 0..MaxPorts
    BY DEF Statuses, Event, Healths

LEMMA NoStatusType ==
    /\ NoStatus.health = "none" /\ NoStatus.adapter = None /\ NoStatus.address = 0
    /\ NoStatus \notin Statuses
    BY DEF NoStatus, Event, Statuses

LEMMA ProcessType ==
    /\ \A p \in Prints, n \in 1..MaxPorts : [print |-> p, address |-> n] \in Processes
    /\ \A x \in Processes : /\ x.print \in Prints \cup {None} /\ x.address \in 0..MaxPorts
                            /\ x.print = None <=> x = NoProcess
                            /\ x.print \in Prints => x.address \in 1..MaxPorts
    /\ NoProcess \in Processes /\ NoProcess.print = None /\ NoProcess.address = 0
    BY SlotBounds DEF Processes, NoProcess

LEMMA RecGoto ==
    ASSUME PlanTypes, NEW r \in Reconcilers, NEW step \in RecSteps, Goto(r, step)
    PROVE  /\ reconciler' \in [Reconcilers -> RecSteps] /\ reconciler'[r] = step
           /\ \A q \in Reconcilers : q # r => reconciler'[q] = reconciler[q]
    BY DEF PlanTypes, Goto

LEMMA PublishType ==
    ASSUME EventTypes, NEW sent \in Seq(Statuses), Publish(sent), UNCHANGED subscribed
    PROVE  EventTypes'
<1>1. events \o sent \in Seq(Statuses)
    BY ConcatElements DEF EventTypes
<1>. QED BY <1>1 DEF EventTypes, Publish

LEMMA ErrorType ==
    ASSUME FaultTypes, EventTypes, NEW kind \in {"prepare", "start", "restart", "stop"},
           NEW a \in AdapterIds, NEW last, SlotError(kind, a, last), UNCHANGED subscribed
    PROVE  FaultTypes' /\ EventTypes' /\ slotErr' \in SlotErrors
<1>1. <<>> \in Seq(Statuses) /\ <<Event("error", a, 0)>> \in Seq(Statuses)
  <2>1. Event("error", a, 0) \in Statuses
    BY EventType, SlotBounds DEF Healths
  <2>. QED BY <2>1, SingleElement
<1>2. (IF last = <<kind, a>> THEN <<>> ELSE <<Event("error", a, 0)>>) \in Seq(Statuses)
    BY <1>1
<1>3. EventTypes'
    BY <1>2, PublishType DEF SlotError
<1>4. FaultTypes'
    BY SlotBounds DEF SlotError, FaultTypes
<1>5. slotErr' \in SlotErrors
    BY DEF SlotError, SlotErrors
<1>. QED BY <1>3, <1>4, <1>5

\* The steps of a reconciliation outside updateState, and of those that call it.
Outside(r) ==
    \/ CallSlot(r) \/ SetStatus(r) \/ KillSlot(r) \/ Reconcile(r) \/ Load(r) \/ Ensure(r)
    \/ List(r)

LEMMA OutsideMoves ==
    ASSUME PlanTypes, NEW r \in Reconcilers, Outside(r)
    PROVE  /\ \E step \in RecSteps \ Held : Goto(r, step)
           /\ reconciler[r] \notin Held
           /\ UNCHANGED <<state, status, subscribed, beatVars>>
<1> USE DEF RecSteps, Held, manVars, recVars, busVars
<1>1. CASE CallSlot(r)
    BY <1>1 DEF CallSlot
<1>2. CASE SetStatus(r)
    BY <1>2 DEF SetStatus
<1>3. CASE KillSlot(r)
    BY <1>3 DEF KillSlot
<1>4. CASE Reconcile(r)
    BY <1>4 DEF Reconcile
<1>5. CASE Load(r)
    BY <1>5 DEF Load, NoError
<1>6. CASE Ensure(r)
    BY <1>6 DEF Ensure, NoError, Start, StartFails, Stops, StopFails
<1>7. CASE List(r)
    BY <1>7 DEF List
<1>. QED BY <1>1, <1>2, <1>3, <1>4, <1>5, <1>6, <1>7 DEF Outside

\* What is published, and how many failures there have been, after such a step.
LEMMA OutsideSends ==
    ASSUME SlotInv, NEW r \in Reconcilers, Outside(r)
    PROVE  /\ FaultTypes' /\ EventTypes' /\ SlotTypes'
           /\ UNCHANGED faults => UNCHANGED events
<1> USE SlotBounds DEF SlotInv, FaultTypes, EventTypes, SlotTypes, manVars, busVars
<1>1. CASE CallSlot(r)
    BY <1>1 DEF CallSlot
<1>2. CASE SetStatus(r)
    BY <1>2 DEF SetStatus
<1>3. CASE KillSlot(r)
    BY <1>3, ProcessType DEF KillSlot
<1>4. CASE Reconcile(r)
    BY <1>4 DEF Reconcile
<1>5. CASE Load(r)
  <2>1. CASE active /\ SlotError("prepare", AdapterOf[bound], slotErr) /\ UNCHANGED subscribed
    <3>1. AdapterOf[bound] \in AdapterIds
        BY DEF BindTypes
    <3>2. FaultTypes' /\ EventTypes' /\ slotErr' \in SlotErrors
        BY <2>1, <3>1, ErrorType
    <3>3. faults' # faults
        BY <2>1 DEF SlotError
    <3>. QED BY <1>5, <3>2, <3>3 DEF Load
  <2>. QED BY <1>5, <2>1 DEF Load, NoError
<1>6. CASE Ensure(r)
  <2>0. plan[r] \in Prints \cup {None, "keep"}
    BY DEF PlanTypes
  <2>1. CASE UNCHANGED manVars /\ NoError
    BY <2>1 DEF NoError
  <2>2. CASE Stops
    BY <2>2, ProcessType DEF Stops, NoError, SlotErrors
  <2>3. ASSUME plan[r] \in Prints, Start(plan[r])
        PROVE  FaultTypes' /\ EventTypes' /\ SlotTypes' /\ UNCHANGED events
    <3>1. port' \in 1..MaxPorts
      <4>1. port % MaxPorts \in 0..(MaxPorts - 1)
        OBVIOUS
      <4>. QED BY <2>3, <4>1 DEF Start
    <3>2. instance' \in Processes
        BY <2>3, <3>1, ProcessType DEF Start
    <3>. QED BY <2>3, <3>1, <3>2 DEF Start, NoError, SlotErrors
  <2>4. ASSUME plan[r] \in Prints, StartFails(plan[r])
        PROVE  FaultTypes' /\ EventTypes' /\ SlotTypes' /\ faults' # faults
    <3>1. FaultTypes' /\ EventTypes' /\ slotErr' \in SlotErrors
        BY <2>4, ErrorType DEF StartFails
    <3>2. faults' # faults
        BY <2>4 DEF StartFails, SlotError
    <3>. QED BY <2>4, <3>1, <3>2, ProcessType DEF StartFails
  <2>5. CASE StopFails
    <3>1. AdapterOf[instance.print] \in AdapterIds
        BY <2>5, ProcessType DEF StopFails
    <3>2. FaultTypes' /\ EventTypes' /\ slotErr' \in SlotErrors
        BY <2>5, <3>1, ErrorType DEF StopFails
    <3>3. faults' # faults
        BY <2>5 DEF StopFails, SlotError
    <3>. QED BY <2>5, <3>2, <3>3 DEF StopFails
  <2>6. ~Ensured(plan[r]) /\ plan[r] # None => plan[r] \in Prints
    BY <2>0 DEF Ensured
  <2>. QED BY <1>6, <2>1, <2>2, <2>3, <2>4, <2>5, <2>6 DEF Ensure
<1>7. CASE List(r)
    BY <1>7 DEF List
<1>. QED BY <1>1, <1>2, <1>3, <1>4, <1>5, <1>6, <1>7 DEF Outside

LEMMA OutsideBinds ==
    ASSUME SlotInv, NEW r \in Reconcilers, Outside(r)
    PROVE  BindTypes'
<1> USE SlotBounds DEF SlotInv, BindTypes, cfgVars
<1>1. CASE CallSlot(r)
    BY <1>1 DEF CallSlot
<1>2. CASE SetStatus(r)
    BY <1>2 DEF SetStatus
<1>3. CASE KillSlot(r) \/ Reconcile(r) \/ Load(r) \/ Ensure(r) \/ List(r)
    BY <1>3 DEF KillSlot, Reconcile, Load, Ensure, List
<1>. QED BY <1>1, <1>2, <1>3 DEF Outside

LEMMA OutsidePlans ==
    ASSUME SlotInv, NEW r \in Reconcilers, Outside(r)
    PROVE  /\ PlanTypes' /\ \A q \in Reconcilers : q # r => seen'[q] = seen[q]
<1> USE DEF SlotInv, PlanTypes, recVars
<1>0. reconciler' \in [Reconcilers -> RecSteps]
    BY OutsideMoves, RecGoto
<1>1. CASE CallSlot(r) \/ SetStatus(r) \/ KillSlot(r) \/ Reconcile(r)
    BY <1>0, <1>1 DEF CallSlot, SetStatus, KillSlot, Reconcile
<1>2. CASE Load(r)
    BY <1>0, <1>2 DEF Load, BindTypes
<1>3. CASE Ensure(r)
    BY <1>0, <1>3 DEF Ensure
<1>4. CASE List(r)
    BY <1>0, <1>4, ExceptType DEF List, SlotTypes
<1>. QED BY <1>1, <1>2, <1>3, <1>4 DEF Outside

LEMMA OutsideStep ==
    ASSUME SlotInv, NEW r \in Reconcilers, Outside(r)
    PROVE  SlotInv'
<1>1. LockInv'
  <2>1. PICK step \in RecSteps \ Held : Goto(r, step)
    BY OutsideMoves DEF SlotInv
  <2>2. reconciler'[r] \notin Held /\ \A q \in Reconcilers : q # r => reconciler'[q] = reconciler[q]
    BY <2>1, RecGoto DEF SlotInv
  <2>3. UNCHANGED state /\ \A q \in Reconcilers : q # r => seen'[q] = seen[q]
    BY OutsideMoves, OutsidePlans DEF SlotInv
  <2>. QED BY <2>2, <2>3 DEF SlotInv, LockInv, DecisionsHold, Held
<1>2. StatusTypes' /\ BeatTypes'
    BY OutsideMoves DEF SlotInv, StatusTypes, BeatTypes, beatVars
<1>. QED BY <1>1, <1>2, OutsideSends, OutsideBinds, OutsidePlans DEF SlotInv

\* Its steps: who is inside, and what comes of what it knows.
LEMMA LockMoves ==
    ASSUME SlotInv, NEW r \in Reconcilers, Lock(r)
    PROVE  /\ PlanTypes' /\ LockInv' /\ ~Leaving /\ ~Arriving /\ ~Arriving'
           /\ Leaving' <=> Differs(r)
<1> USE DEF SlotInv, recVars
<1>1. \A q \in Reconcilers : reconciler[q] \notin Held
    BY DEF Lock, Locked, Held
<1>2. CASE Differs(r)
  <2>1. Goto(r, "gone") /\ state \notin {None, seen[r].print}
    BY <1>2 DEF Lock, Differs
  <2>2. /\ reconciler' \in [Reconcilers -> RecSteps] /\ reconciler'[r] = "gone"
        /\ \A q \in Reconcilers : q # r => reconciler'[q] = reconciler[q]
    BY <2>1, RecGoto DEF RecSteps
  <2>. QED BY <1>1, <1>2, <2>1, <2>2
       DEF Lock, LockInv, DecisionsHold, PlanTypes, Leaving, Arriving, Held
<1>3. CASE ~Differs(r)
  <2>1. Goto(r, "new") /\ state \in {None, seen[r].print}
    BY <1>3 DEF Lock, Differs
  <2>2. /\ reconciler' \in [Reconcilers -> RecSteps] /\ reconciler'[r] = "new"
        /\ \A q \in Reconcilers : q # r => reconciler'[q] = reconciler[q]
    BY <2>1, RecGoto DEF RecSteps
  <2>. QED BY <1>1, <1>3, <2>1, <2>2
       DEF Lock, LockInv, DecisionsHold, PlanTypes, Leaving, Arriving, Held
<1>. QED BY <1>2, <1>3

LEMMA GoneMoves ==
    ASSUME SlotInv, NEW r \in Reconcilers, Gone(r)
    PROVE  /\ PlanTypes' /\ LockInv' /\ Leaving /\ ~Arriving /\ ~Leaving' /\ ~Arriving'
           /\ state \in Prints /\ state' = None
<1> USE DEF SlotInv
<1>1. reconciler[r] = "gone" /\ Goto(r, "new") /\ UNCHANGED <<plan, seen>> /\ state' = None
    BY DEF Gone
<1>2. /\ reconciler' \in [Reconcilers -> RecSteps] /\ reconciler'[r] = "new"
      /\ \A q \in Reconcilers : q # r => reconciler'[q] = reconciler[q]
    BY <1>1, RecGoto DEF RecSteps
<1>3. \A q \in Reconcilers : q # r => reconciler[q] \notin Held
    BY <1>1 DEF LockInv, DecisionsHold, Held
<1>. QED BY <1>1, <1>2, <1>3
     DEF LockInv, DecisionsHold, PlanTypes, Leaving, Arriving, Held, StatusTypes

LEMMA NewMoves ==
    ASSUME SlotInv, NEW r \in Reconcilers, New(r)
    PROVE  /\ PlanTypes' /\ LockInv' /\ ~Leaving /\ ~Arriving /\ ~Leaving' /\ Arriving'
           /\ state = None /\ state' \in Prints
<1> USE DEF SlotInv
<1>1. /\ reconciler[r] = "new" /\ Goto(r, "ready") /\ UNCHANGED <<plan, seen>>
      /\ state' = seen[r].print /\ seen[r].print \notin {state, None}
    BY DEF New
<1>2. /\ reconciler' \in [Reconcilers -> RecSteps] /\ reconciler'[r] = "ready"
      /\ \A q \in Reconcilers : q # r => reconciler'[q] = reconciler[q]
    BY <1>1, RecGoto DEF RecSteps
<1>3. \A q \in Reconcilers : q # r => reconciler[q] \notin Held
    BY <1>1 DEF LockInv, DecisionsHold, Held
<1>4. state = None /\ state' \in Prints
    BY <1>1, ProcessType DEF LockInv, DecisionsHold, PlanTypes
<1>. QED BY <1>1, <1>2, <1>3, <1>4, SlotBounds
     DEF LockInv, DecisionsHold, PlanTypes, Leaving, Arriving, Held

LEMMA UnlockMoves ==
    ASSUME SlotInv, NEW r \in Reconcilers, NothingNew(r) \/ Ready(r)
    PROVE  /\ PlanTypes' /\ LockInv' /\ ~Leaving /\ ~Leaving' /\ ~Arriving'
           /\ Arriving <=> reconciler[r] = "ready"
           /\ reconciler[r] = "ready" => state = seen[r].print /\ state \in Prints
<1> USE DEF SlotInv
<1>0. /\ reconciler[r] \in {"new", "ready"} /\ UNCHANGED <<plan, state>>
      /\ \E step \in {"idle", "end"} : Goto(r, step)
      /\ seen' = [seen EXCEPT ![r] = NoProcess]
    BY DEF NothingNew, Ready, Unlock
<1>1. PICK step \in {"idle", "end"} : Goto(r, step)
    BY <1>0
<1>2. /\ reconciler' \in [Reconcilers -> RecSteps] /\ reconciler'[r] = step
      /\ \A q \in Reconcilers : q # r => reconciler'[q] = reconciler[q]
    BY <1>1, RecGoto DEF RecSteps
<1>3. \A q \in Reconcilers : q # r => reconciler[q] \notin Held
    BY <1>0 DEF LockInv, DecisionsHold, Held
<1>4. /\ seen' \in [Reconcilers -> Processes]
      /\ \A q \in Reconcilers : q # r => seen'[q] = seen[q]
    BY <1>0, ExceptType, ProcessType DEF PlanTypes
<1>. QED BY <1>0, <1>2, <1>3, <1>4
     DEF LockInv, DecisionsHold, PlanTypes, Leaving, Arriving, Held, StatusTypes
Inside(r) == Lock(r) \/ Gone(r) \/ New(r) \/ NothingNew(r) \/ Ready(r)

LEMMA InsideStep ==
    ASSUME SlotInv, NEW r \in Reconcilers, Inside(r)
    PROVE  SlotInv' /\ UNCHANGED faults
<1> USE DEF SlotInv, cfgVars, manVars, beatVars, busVars
<1>0. r \in Reconcilers /\ seen[r] \in Processes
    BY DEF PlanTypes
<1>1. CASE Lock(r)
  <2>1. status' \in Statuses \cup {NoStatus}
    <3>1. CASE Differs(r)
      <4>1. state \in Prints
        BY <3>1 DEF Differs, StatusTypes
      <4>. QED BY <1>1, <3>1, <4>1, EventType, SlotBounds DEF Lock, Healths
    <3>. QED BY <1>1, <3>1 DEF Lock, StatusTypes
  <2>2. LockInv' /\ PlanTypes'
    BY <1>1, LockMoves
  <2>. QED BY <1>1, <2>1, <2>2
           DEF Lock, BindTypes, SlotTypes, StatusTypes, BeatTypes, FaultTypes, EventTypes
<1>2. CASE Gone(r)
  <2>1. PlanTypes' /\ LockInv' /\ state \in Prints /\ state' = None
    BY <1>2, GoneMoves
  <2>2. <<Event("stopped", AdapterOf[state], 0)>> \in Seq(Statuses)
    BY <2>1, EventType, SlotBounds, SingleElement DEF Healths
  <2>3. EventTypes'
    BY <1>2, <2>2, PublishType DEF Gone
  <2>. QED BY <1>2, <2>1, <2>3
           DEF Gone, BindTypes, SlotTypes, StatusTypes, BeatTypes, FaultTypes
<1>3. CASE New(r)
  <2>1. PlanTypes' /\ LockInv' /\ state' \in Prints
    BY <1>3, NewMoves
  <2>2. seen[r].address \in 0..MaxPorts
    BY <1>0, ProcessType
  <2>3. status' \in Statuses
    BY <1>3, <2>1, <2>2, EventType, SlotBounds DEF New, Healths
  <2>. QED BY <1>3, <2>1, <2>3
           DEF New, BindTypes, SlotTypes, StatusTypes, BeatTypes, FaultTypes, EventTypes
<1>4. CASE NothingNew(r)
  <2>1. PlanTypes' /\ LockInv'
    BY <1>4, UnlockMoves
  <2>. QED BY <1>4, <2>1 DEF NothingNew, Unlock, BindTypes, SlotTypes, StatusTypes, BeatTypes,
                             FaultTypes, EventTypes
<1>5. CASE Ready(r)
  <2>1. PlanTypes' /\ LockInv' /\ state = seen[r].print /\ state \in Prints
    BY <1>5, UnlockMoves DEF Ready
  <2>2. seen[r].address \in 0..MaxPorts
    BY <1>0, ProcessType
  <2>3. <<Event("ready", AdapterOf[seen[r].print], seen[r].address)>> \in Seq(Statuses)
    BY <2>1, <2>2, EventType, SlotBounds, SingleElement DEF Healths
  <2>4. EventTypes'
    BY <1>5, <2>3, PublishType DEF Ready, Unlock
  <2>. QED BY <1>5, <2>1, <2>4 DEF Ready, Unlock, BindTypes, SlotTypes, StatusTypes, BeatTypes,
                                   FaultTypes
<1>. QED BY <1>1, <1>2, <1>3, <1>4, <1>5 DEF Inside

\* The heartbeat finds what it probes, and publishes an event of the slot's adapter.
LEMMA BeatTypesStep ==
    ASSUME SlotInv, Heartbeat
    PROVE  BeatTypes' /\ FaultTypes' /\ EventTypes' /\ StatusTypes'
<1> USE DEF SlotInv, busVars
<1>1. CASE BeatInner
  <2>0. StatusTypes' /\ EventTypes'
    BY <1>1 DEF BeatInner, Heartbeat, StatusTypes, EventTypes
  <2>1. CASE Beat
    <3>1. instance # NoProcess => instance.print \in Prints
        BY ProcessType DEF SlotTypes
    <3>2. health' \in {"untracked", "healthy", "degraded", "cleared"}
        BY <2>1 DEF Beat, Purged, BeatTypes
    <3>. QED BY <2>0, <2>1, <3>1, <3>2 DEF Beat, BeatTypes, FaultTypes, SlotTypes
  <2>2. CASE Probe
    <3>1. beat = "probe" /\ AdapterOf[probed.print] \in AdapterIds
        BY <2>2, SlotBounds DEF Probe, ProbeFails, ProbeSucceeds, BeatTypes
    <3>2. \A h \in {"degraded", "ready"} :
              Transition(h) => report' \in Statuses /\ beat' = "build"
        BY <3>1, EventType, SlotBounds DEF Transition, Healths
    <3>3. FaultTypes'
        BY <2>2, SlotBounds DEF Probe, ProbeFails, ProbeSucceeds, FaultTypes
    <3>4. /\ health' \in {"untracked", "healthy", "degraded", "cleared"}
          /\ probed' = NoProcess
          /\ (beat' = "build" /\ report' \in Statuses) \/ (beat' = "purge" /\ UNCHANGED report)
        BY <2>2, <3>2 DEF Probe, ProbeFails, ProbeSucceeds, NoTransition, BeatTypes
    <3>. QED BY <2>0, <3>3, <3>4, ProcessType DEF BeatTypes
  <2>3. CASE Build
    <3>1. status.address \in 0..MaxPorts
        BY EventType, NoStatusType, SlotBounds DEF StatusTypes
    <3>2. report \in Statuses
        BY <2>3 DEF Build, BeatTypes
    <3>3. report' \in Statuses
        BY <2>3, <3>1, <3>2 DEF Build, Statuses
    <3>. QED BY <2>0, <2>3, <3>3 DEF Build, BeatTypes, FaultTypes
  <2>4. CASE Purge
    <3>1. health' \in {"untracked", "healthy", "degraded", "cleared"}
        BY <2>4 DEF Purge, Purged, BeatTypes
    <3>. QED BY <2>0, <2>4, <3>1 DEF Purge, BeatTypes, FaultTypes
  <2>. QED BY <1>1, <2>1, <2>2, <2>3, <2>4 DEF BeatInner
<1>2. CASE Record
    BY <1>2 DEF Record, Heartbeat, BeatTypes, FaultTypes, EventTypes, StatusTypes
<1>3. CASE Send
  <2>1. report \in Statuses
    BY <1>3 DEF Send, BeatTypes
  <2>2. <<report>> \in Seq(Statuses)
    BY <2>1, SingleElement
  <2>3. EventTypes'
    BY <1>3, <2>2, PublishType DEF Send
  <2>. QED BY <1>3, <2>3 DEF Send, Heartbeat, BeatTypes, FaultTypes, StatusTypes
<1>. QED BY <1>1, <1>2, <1>3 DEF Heartbeat

LEMMA HeartbeatStep ==
    ASSUME SlotInv, Heartbeat
    PROVE  SlotInv'
<1>1. BindTypes' /\ SlotTypes' /\ PlanTypes' /\ LockInv'
    BY DEF Heartbeat, SlotInv, BindTypes, SlotTypes, PlanTypes, LockInv, DecisionsHold, cfgVars,
           manVars, recVars
<1>. QED BY <1>1, BeatTypesStep DEF SlotInv

LEMMA RebindStep ==
    ASSUME SlotInv, Rebind
    PROVE  SlotInv'
<1>1. BindTypes'
    BY SlotBounds DEF Rebind, SlotInv, BindTypes
<1>. QED BY <1>1 DEF Rebind, SlotInv, SlotTypes, PlanTypes, StatusTypes, BeatTypes, FaultTypes,
                     EventTypes, LockInv, DecisionsHold, manVars, recVars, beatVars, busVars

LEMMA ServiceSteps ==
    ASSUME ServiceNext
    PROVE  Rebind \/ (\E r \in Reconcilers : Outside(r) \/ Inside(r)) \/ Heartbeat
    BY DEF ServiceNext, Step, Outside, Inside

\* What the bridge does to the service is to subscribe and to take its events.
LEMMA BridgeKeeps ==
    ASSUME SlotInv, Bridge
    PROVE  /\ SlotInv'
           /\ UNCHANGED <<cfgVars, manVars, recVars, state, status, faults, beatVars>>
<1> USE DEF svcVars, cfgVars, manVars, recVars, beatVars, busVars
<1>1. UNCHANGED <<cfgVars, manVars, recVars, state, status, faults, beatVars>>
    BY DEF Bridge, Subscribe, Sync, Apply, Handle
<1>2. EventTypes'
  <2>1. CASE Handle
    <3>1. events # <<>> /\ events' = Tail(events) /\ UNCHANGED subscribed
        BY <2>1 DEF Handle
    <3>2. Tail(events) \in Seq(Statuses) /\ Len(Tail(events)) <= MaxEvents
        BY <3>1, TailElements, SlotBounds DEF SlotInv, EventTypes
    <3>. QED BY <3>1, <3>2 DEF SlotInv, EventTypes
  <2>. QED BY <2>1 DEF Bridge, Subscribe, Sync, Apply, SlotInv, EventTypes
<1>3. BindTypes' /\ SlotTypes' /\ PlanTypes' /\ StatusTypes' /\ BeatTypes' /\ FaultTypes'
    BY <1>1 DEF SlotInv, BindTypes, SlotTypes, PlanTypes, StatusTypes, BeatTypes, FaultTypes
<1>4. LockInv'
    BY <1>1 DEF SlotInv, LockInv, DecisionsHold
<1>. QED BY <1>1, <1>2, <1>3, <1>4 DEF SlotInv

LEMMA ConnectType ==
    ASSUME NEW e \in Statuses, Connect(e)
    PROVE  router' \in [adapter : AdapterIds \cup {None}, address : 0..MaxPorts]
           /\ router'.adapter = e.adapter
    BY EventType DEF Connect

LEMMA RefuseType ==
    ASSUME NEW e \in Statuses, NEW version \in -1..MaxEdits,
           NEW b \in [errors : 0..ErrorLimit, adapter : AdapterIds \cup {None},
                      address : 0..MaxPorts, version : -1..MaxEdits],
           Refuse(e, b, version)
    PROVE  /\ breaker' \in [errors : 0..ErrorLimit, adapter : AdapterIds \cup {None},
                            address : 0..MaxPorts, version : -1..MaxEdits]
           /\ refused' = TRUE /\ UNCHANGED router
<1>1. (IF b.errors < ErrorLimit THEN b.errors + 1 ELSE ErrorLimit) \in 0..ErrorLimit
    BY SlotBounds
<1>2. (IF version = -1 THEN b.version ELSE version) \in -1..MaxEdits
    OBVIOUS
<1>3. e.adapter \in AdapterIds \cup {None} /\ e.address \in 0..MaxPorts
    BY EventType
<1>. QED BY <1>1, <1>2, <1>3 DEF Refuse

LEMMA ClosedType ==
    /\ Closed \in [errors : 0..ErrorLimit, adapter : AdapterIds \cup {None},
                   address : 0..MaxPorts, version : -1..MaxEdits]
    /\ Disconnected \in [adapter : AdapterIds \cup {None}, address : 0..MaxPorts]
    /\ Disconnected.adapter = None
    BY SlotBounds DEF Closed, Disconnected

\* Handling an event: a ready one connects to its adapter or is refused, any
\* other lets go of its adapter.
LEMMA HandleRoutes ==
    ASSUME SlotInv, BridgeTypeOK, Handle
    PROVE  /\ BridgeTypeOK' /\ Head(events) \in Statuses
           /\ Head(events).health = "ready" =>
                (refused' = TRUE /\ UNCHANGED router)
                \/ (refused' = refused /\ router'.adapter = Head(events).adapter)
           /\ Head(events).health # "ready" =>
                /\ refused' = refused
                /\ IF router.adapter = Head(events).adapter THEN router' = Disconnected
                                                             ELSE UNCHANGED router
<1> DEFINE e == Head(events)
           Breakers == [errors : 0..ErrorLimit, adapter : AdapterIds \cup {None},
                        address : 0..MaxPorts, version : -1..MaxEdits]
<1>0. e \in Statuses
    BY TailElements DEF Handle, SlotInv, EventTypes
<1>. HIDE DEF e, Breakers
<1>1. /\ breaker \in Breakers /\ Closed \in Breakers
      /\ UNCHANGED <<bridge, stock, mixed>>
      /\ router \in [adapter : AdapterIds \cup {None}, address : 0..MaxPorts]
      /\ refused \in BOOLEAN
    BY ClosedType DEF BridgeTypeOK, Breakers, Handle
<1>2. LookedUp(e) \in -1..MaxEdits /\ -1 \in -1..MaxEdits
    BY SlotBounds DEF LookedUp, Version, SlotInv, BindTypes
<1>3. Reduced(e, LookedUp(e)) \in Breakers
    BY <1>1 DEF Reduced
<1>4. ASSUME NEW b \in Breakers, NEW version \in -1..MaxEdits, Refuse(e, b, version)
      PROVE  breaker' \in Breakers /\ refused' = TRUE /\ UNCHANGED router
    BY <1>0, <1>4, RefuseType DEF Breakers
<1>5. CASE e.health = "ready" /\ OnReady(e)
  <2>1. /\ breaker' \in Breakers /\ refused' \in BOOLEAN
        /\ router' \in [adapter : AdapterIds \cup {None}, address : 0..MaxPorts]
        /\ (refused' = TRUE /\ UNCHANGED router)
           \/ (refused' = refused /\ router'.adapter = e.adapter)
    <3>1. CASE Refuse(e, breaker, -1)
        BY <1>1, <1>2, <1>4, <3>1
    <3>2. CASE \E b \in Breakers : breaker' = b /\ refused' = TRUE /\ UNCHANGED router
        BY <1>1, <3>2
    <3>3. CASE Connect(e) /\ breaker' = Closed /\ UNCHANGED refused
        BY <1>0, <1>1, <3>3, ConnectType
    <3>4. CASE Refuse(e, Reduced(e, LookedUp(e)), LookedUp(e))
        BY <1>1, <1>2, <1>3, <1>4, <3>4
    <3>. QED BY <1>3, <1>5, <3>1, <3>2, <3>3, <3>4 DEF OnReady
  <2>. HIDE DEF Closed
  <2>2. BridgeTypeOK'
    BY <1>1, <2>1 DEF BridgeTypeOK, Breakers
  <2>. QED BY <1>0, <1>5, <2>1, <2>2 DEF e
<1>6. CASE e.health # "ready" /\ LetGo(e)
  <2>1. /\ breaker' \in Breakers /\ refused' \in BOOLEAN
        /\ router' \in [adapter : AdapterIds \cup {None}, address : 0..MaxPorts]
    BY <1>1, <1>6, ClosedType DEF LetGo
  <2>2. BridgeTypeOK'
    BY <1>1, <2>1 DEF BridgeTypeOK, Breakers
  <2>. QED BY <1>0, <1>6, <2>2 DEF LetGo, e
<1>. QED BY <1>5, <1>6 DEF Handle, e

LEMMA BridgeTypeStep ==
    ASSUME SlotInv, BridgeTypeOK, Bridge
    PROVE  BridgeTypeOK'
<1>1. CASE Subscribe
    BY <1>1 DEF Subscribe, BridgeTypeOK
<1>2. CASE Sync
  <2>1. stock' \in Statuses \cup {NoStatus}
    <3>1. CASE active /\ status.health = "ready"
      <4>1. status \in Statuses
        BY <3>1, NoStatusType DEF SlotInv, StatusTypes
      <4>2. AdapterOf[bound] \in AdapterIds /\ status.address \in 0..MaxPorts
        BY <4>1, EventType, SlotBounds DEF SlotInv, BindTypes
      <4>. QED BY <1>2, <3>1, <4>2, EventType DEF Sync, Healths
    <3>. QED BY <1>2, <3>1 DEF Sync
  <2>2. mixed' \in BOOLEAN
    BY <1>2 DEF Sync
  <2>. QED BY <1>2, <2>1, <2>2 DEF Sync, BridgeTypeOK
<1>3. CASE Apply
  <2>1. stock # NoStatus => stock \in Statuses
    BY DEF BridgeTypeOK
  <2>2. router' \in [adapter : AdapterIds \cup {None}, address : 0..MaxPorts] /\ refused' \in BOOLEAN
    BY <1>3, <2>1, ConnectType DEF Apply, BridgeTypeOK, Fails
  <2>. QED BY <1>3, <2>2 DEF Apply, BridgeTypeOK
<1>4. CASE Handle
    BY <1>4, HandleRoutes
<1>. QED BY <1>1, <1>2, <1>3, <1>4 DEF Bridge

LEMMA NoEvents ==
    ASSUME events = <<>>, subscribed = FALSE
    PROVE  EventTypes
<1>1. events \in Seq(Statuses)
    OBVIOUS
<1>2. Len(events) <= MaxEvents
  <2>1. Len(events) = 0
    OBVIOUS
  <2>. QED BY <2>1, SlotBounds
<1>3. subscribed \in BOOLEAN
    OBVIOUS
<1>. QED BY <1>1, <1>2, <1>3 DEF EventTypes

LEMMA SlotInit == Init => SlotInv /\ BridgeTypeOK
<1>. SUFFICES ASSUME Init PROVE SlotInv /\ BridgeTypeOK
    OBVIOUS
<1> USE SlotBounds, ProcessType, NoStatusType DEF Init, ServiceInit
<1>1. BindTypes /\ SlotTypes /\ FaultTypes
    BY DEF BindTypes, SlotTypes, FaultTypes, SlotErrors
<1>2. PlanTypes
    BY DEF PlanTypes, RecSteps
<1>3. StatusTypes /\ BeatTypes
    BY DEF StatusTypes, BeatTypes
<1>4. EventTypes
    BY NoEvents
<1>5. LockInv
    BY DEF LockInv, DecisionsHold, Held
<1>6. BridgeTypeOK
    BY ClosedType DEF BridgeTypeOK
<1>. QED BY <1>1, <1>2, <1>3, <1>4, <1>5, <1>6 DEF SlotInv

LEMMA SlotStep ==
    ASSUME SlotInv, BridgeTypeOK, [Next]_vars
    PROVE  SlotInv' /\ BridgeTypeOK'
<1>1. CASE ServiceNext /\ UNCHANGED bridgeVars
  <2>1. BridgeTypeOK'
    BY <1>1 DEF bridgeVars, BridgeTypeOK
  <2>. QED BY <1>1, <2>1, ServiceSteps, RebindStep, OutsideStep, InsideStep, HeartbeatStep
<1>2. CASE Bridge
    BY <1>2, BridgeKeeps, BridgeTypeStep
<1>3. CASE UNCHANGED vars
  <2> USE <1>3 DEF vars, svcVars, cfgVars, manVars, recVars, beatVars, busVars, bridgeVars
  <2>1. /\ BindTypes' /\ SlotTypes' /\ PlanTypes' /\ StatusTypes' /\ BeatTypes' /\ FaultTypes'
        /\ EventTypes'
    BY DEF SlotInv, BindTypes, SlotTypes, PlanTypes, StatusTypes, BeatTypes, FaultTypes,
           EventTypes
  <2>2. LockInv' /\ BridgeTypeOK'
    BY DEF SlotInv, LockInv, DecisionsHold, BridgeTypeOK
  <2>. QED BY <2>1, <2>2 DEF SlotInv
<1>. QED BY <1>1, <1>2, <1>3 DEF Next

\* The adapters service and the bridge keep to their types, one reconciliation
\* at a time is inside updateState, and what it has decided there holds until it
\* has published it.
THEOREM BridgeTypeCorrect == Spec => [](TypeOK /\ LockInv)
<1>1. Init => SlotInv /\ BridgeTypeOK
    BY SlotInit
<1>2. SlotInv /\ BridgeTypeOK /\ [Next]_vars => (SlotInv /\ BridgeTypeOK)'
    BY SlotStep
<1>3. SlotInv /\ BridgeTypeOK => TypeOK /\ LockInv
    BY SlotTypesImply DEF SlotInv
<1>. QED BY <1>1, <1>2, <1>3, PTL DEF Spec

-----------------------------------------------------------------------------
(* The router follows the service, as long as nothing has failed.          *)

\* Without failures the heartbeat has nothing to tell.
BeatInv ==
    faults = 0 =>
        health \in {"untracked", "cleared"} /\ beat \in {"rest", "probe", "purge"}

\* The status recorded last is of what is published, or is being published.
StatusInv ==
    faults = 0 =>
        IF state = None \/ Leaving THEN status.health # "ready"
        ELSE status.health = "ready" /\ status.adapter = AdapterOf[state]

StartInv ==
    /\ subscribed <=> bridge # "off"
    /\ bridge \in {"off", "sync"} => ~mixed
    /\ bridge # "on" => router = Disconnected

QueueInv ==
    faults = 0 => (~subscribed => events = <<>>) /\ Alternates(events) /\ LastTells

\* The adapter with which the bridge comes to the events that wait, and what
\* it must be for the last of them to have its effect.
Starting == IF bridge = "apply" THEN stock.adapter ELSE router.adapter
Told == IF state = None THEN None ELSE AdapterOf[state]

Comes ==
    /\ events = <<>> =>
          IF Leaving \/ Arriving THEN Starting \in {None, Told} ELSE Starting = Told
    /\ Len(events) = 1 /\ events[1].health = "stopped" =>
          Starting \in {events[1].adapter, None} \/ (Arriving /\ Starting = Told)

RouteInv ==
    faults = 0 /\ ~refused /\ ~mixed /\ bridge \in {"apply", "on"} => Comes

HeardInv == BeatInv /\ StatusInv /\ StartInv /\ QueueInv /\ RouteInv

LEMMA AlternatesMore ==
    ASSUME NEW S, NEW s \in Seq(S), NEW e \in S, Alternates(s),
           e.health \in {"ready", "stopped"}, s # <<>> => After(s[Len(s)], e)
    PROVE  /\ Alternates(s \o <<e>>) /\ s \o <<e>> # <<>>
           /\ Len(s) \in Nat /\ Len(s \o <<e>>) = Len(s) + 1
           /\ (s \o <<e>>)[Len(s \o <<e>>)] = e
<1>1. <<e>> \in Seq(S) /\ Len(<<e>>) = 1 /\ <<e>>[1] = e
    BY SingleElement
<1>2. Len(s) \in Nat /\ (Len(s) > 0 => s # <<>>)
    OBVIOUS
<1> DEFINE t == s \o <<e>>
<1>3. t \in Seq(S) /\ Len(t) = Len(s) + 1
      /\ (\A i \in 1..Len(s) : t[i] = s[i]) /\ t[Len(s) + 1] = e
  <2>1. /\ t \in Seq(S) /\ Len(t) = Len(s) + Len(<<e>>)
        /\ \A i \in 1..(Len(s) + Len(<<e>>)) :
               t[i] = IF i <= Len(s) THEN s[i] ELSE <<e>>[i - Len(s)]
    BY <1>1, ConcatElements
  <2>. HIDE DEF t
  <2>. QED BY <1>1, <1>2, <2>1
<1>. HIDE DEF t
<1>4. \A i \in 1..Len(t) : t[i].health \in {"ready", "stopped"}
  <2>. TAKE i \in 1..Len(t)
  <2>1. i \in 1..Len(s) \/ i = Len(s) + 1
    BY <1>2, <1>3
  <2>. QED BY <1>3, <2>1 DEF Alternates
<1>5. \A i \in 1..(Len(t) - 1) : After(t[i], t[i + 1])
  <2>. TAKE i \in 1..(Len(t) - 1)
  <2>1. i \in 1..Len(s)
    BY <1>2, <1>3
  <2>2. CASE i = Len(s)
    BY <1>2, <1>3, <2>1, <2>2
  <2>3. CASE i # Len(s)
    <3>1. i \in 1..(Len(s) - 1) /\ i + 1 \in 1..Len(s)
        BY <1>2, <2>1, <2>3
    <3>. QED BY <1>3, <2>1, <3>1 DEF Alternates
  <2>. QED BY <2>2, <2>3
<1>6. t # <<>>
    BY <1>2, <1>3
<1>. QED BY <1>2, <1>3, <1>4, <1>5, <1>6 DEF Alternates, t

LEMMA AlternatesTail ==
    ASSUME NEW S, NEW s \in Seq(S), s # <<>>, Alternates(s)
    PROVE  Alternates(Tail(s))
<1>1. /\ Tail(s) \in Seq(S) /\ Len(s) \in Nat /\ Len(s) > 0 /\ Len(Tail(s)) = Len(s) - 1
      /\ \A i \in 1..(Len(s) - 1) : Tail(s)[i] = s[i + 1]
    BY TailElements
<1> DEFINE t == Tail(s)
<1>. HIDE DEF t
<1>2. Len(t) = Len(s) - 1 /\ \A i \in 1..(Len(s) - 1) : t[i] = s[i + 1]
    BY <1>1 DEF t
<1>3. \A i \in 1..Len(t) : t[i].health \in {"ready", "stopped"}
    BY <1>1, <1>2 DEF Alternates
<1>4. \A i \in 1..(Len(t) - 1) : After(t[i], t[i + 1])
  <2>. TAKE i \in 1..(Len(t) - 1)
  <2>1. i + 1 \in 1..(Len(s) - 1) /\ i \in 1..(Len(s) - 1)
    BY <1>1, <1>2
  <2>2. t[i] = s[i + 1] /\ t[i + 1] = s[(i + 1) + 1]
    BY <1>2, <2>1
  <2>. QED BY <2>1, <2>2 DEF Alternates
<1>. QED BY <1>3, <1>4 DEF Alternates, t

\* Steps that touch nothing of what is published and heard, but for a failure.
LEMMA HeardAside ==
    ASSUME HeardInv, UNCHANGED <<subscribed, bridgeVars>>, BeatInv',
           faults' = 0 => faults = 0 /\ UNCHANGED <<state, status, events>>,
           Leaving' <=> Leaving, Arriving' <=> Arriving
    PROVE  HeardInv'
<1>1. StatusInv'
    BY DEF HeardInv, StatusInv
<1>2. StartInv'
    BY DEF HeardInv, StartInv, bridgeVars
<1>3. QueueInv'
    BY DEF HeardInv, QueueInv, LastTells
<1>4. RouteInv'
    BY DEF HeardInv, RouteInv, Comes, Starting, Told, bridgeVars
<1>. QED BY <1>1, <1>2, <1>3, <1>4 DEF HeardInv

LEMMA OutsideFollows ==
    ASSUME SlotInv, HeardInv, NEW r \in Reconcilers, Outside(r), UNCHANGED bridgeVars
    PROVE  HeardInv'
<1>1. PICK step \in RecSteps \ Held : Goto(r, step)
    BY OutsideMoves DEF SlotInv
<1>2. /\ reconciler'[r] \notin Held /\ reconciler[r] \notin Held
      /\ \A q \in Reconcilers : q # r => reconciler'[q] = reconciler[q]
    BY <1>1, OutsideMoves, RecGoto DEF SlotInv
<1>3. (Leaving' <=> Leaving) /\ (Arriving' <=> Arriving)
    BY <1>2 DEF Leaving, Arriving, Held
<1>4. UNCHANGED <<state, status, subscribed, health, beat>>
    BY OutsideMoves DEF SlotInv, beatVars
<1>5. faults' = 0 => faults = 0 /\ UNCHANGED <<events>>
  <2>1. faults' = faults \/ faults' = faults + 1
    BY DEF Outside, CallSlot, SetStatus, KillSlot, Reconcile, Load, Ensure, List, NoError,
           SlotError, Start, StartFails, Stops, StopFails
  <2>. QED BY <2>1, OutsideSends, SlotBounds DEF SlotInv, FaultTypes
<1>6. BeatInv'
    BY <1>4, <1>5 DEF HeardInv, BeatInv
<1>. QED BY <1>3, <1>4, <1>5, <1>6, HeardAside

LEMMA HeartbeatFollows ==
    ASSUME SlotInv, HeardInv, Heartbeat, UNCHANGED bridgeVars
    PROVE  HeardInv'
<1>1. (Leaving' <=> Leaving) /\ (Arriving' <=> Arriving)
    BY DEF Heartbeat, recVars, Leaving, Arriving
<1>2. UNCHANGED <<state, subscribed>>
    BY DEF Heartbeat, BeatInner, Record, Send, busVars
<1>3. faults' = 0 => faults = 0
    BY SlotBounds DEF Heartbeat, BeatInner, Beat, Probe, ProbeFails, ProbeSucceeds, Build, Purge,
                      Record, Send, SlotInv, FaultTypes
<1>4. faults = 0 => ~Record /\ ~Send /\ ~Build
    BY DEF HeardInv, BeatInv, Record, Send, Build
<1>5. faults' = 0 => faults = 0 /\ UNCHANGED <<state, status, events>>
    BY <1>2, <1>3, <1>4 DEF Heartbeat, BeatInner, busVars
<1>6. BeatInv'
  <2>. SUFFICES ASSUME faults' = 0
                PROVE  health' \in {"untracked", "cleared"} /\ beat' \in {"rest", "probe", "purge"}
    BY DEF BeatInv
  <2>1. faults = 0 /\ health \in {"untracked", "cleared"} /\ beat \in {"rest", "probe", "purge"}
    BY <1>3 DEF HeardInv, BeatInv
  <2>2. Beat \/ ProbeFails \/ ProbeSucceeds \/ Purge
    BY <1>4, <2>1 DEF Heartbeat, BeatInner, Probe
  <2>3. ~ProbeFails
    BY <2>1 DEF ProbeFails
  <2>. QED BY <2>1, <2>2, <2>3 DEF Beat, ProbeSucceeds, Purge, Purged, NoTransition
<1>. QED BY <1>1, <1>2, <1>5, <1>6, HeardAside

LEMMA LockFollows ==
    ASSUME SlotInv, HeardInv, NEW r \in Reconcilers, Lock(r), UNCHANGED bridgeVars
    PROVE  HeardInv'
<1>1. ~Leaving /\ ~Arriving /\ ~Arriving' /\ (Leaving' <=> Differs(r))
    BY LockMoves
<1>2. UNCHANGED <<state, events, subscribed, faults, health, beat>>
    BY DEF Lock, busVars, beatVars
<1>3. BeatInv'
    BY <1>2 DEF HeardInv, BeatInv
<1>4. CASE ~Differs(r)
  <2>1. UNCHANGED status
    BY <1>4 DEF Lock
  <2>. QED BY <1>1, <1>2, <1>3, <1>4, <2>1, HeardAside
<1>5. CASE Differs(r)
  <2>1. status'.health = "stopped" /\ state # None
    BY <1>5, EventType DEF Lock, Differs
  <2>2. StatusInv'
    BY <1>1, <1>2, <1>5, <2>1 DEF StatusInv
  <2>3. StartInv'
    BY <1>2 DEF HeardInv, StartInv, bridgeVars
  <2>4. QueueInv'
    BY <1>1, <1>2 DEF HeardInv, QueueInv, LastTells
  <2>5. RouteInv'
    BY <1>1, <1>2, <1>5 DEF HeardInv, RouteInv, Comes, Starting, Told, bridgeVars
  <2>. QED BY <1>3, <2>2, <2>3, <2>4, <2>5 DEF HeardInv
<1>. QED BY <1>4, <1>5

LEMMA NothingNewFollows ==
    ASSUME SlotInv, HeardInv, NEW r \in Reconcilers, NothingNew(r), UNCHANGED bridgeVars
    PROVE  HeardInv'
<1>1. ~Leaving /\ ~Arriving /\ ~Leaving' /\ ~Arriving'
    BY UnlockMoves DEF NothingNew
<1>2. UNCHANGED <<state, status, events, subscribed, faults, health, beat>>
    BY DEF NothingNew, Unlock, beatVars
<1>3. BeatInv'
    BY <1>2 DEF HeardInv, BeatInv
<1>. QED BY <1>1, <1>2, <1>3, HeardAside

LEMMA NewFollows ==
    ASSUME SlotInv, HeardInv, NEW r \in Reconcilers, New(r), UNCHANGED bridgeVars
    PROVE  HeardInv'
<1>1. ~Leaving /\ ~Arriving /\ ~Leaving' /\ Arriving' /\ state = None /\ state' \in Prints
    BY NewMoves
<1>2. UNCHANGED <<events, subscribed, faults, health, beat>>
    BY DEF New, busVars, beatVars
<1>3. status'.health = "ready" /\ status'.adapter = AdapterOf[state']
    BY EventType DEF New
<1>4. state' # None
    BY <1>1, SlotBounds
<1>5. BeatInv'
    BY <1>2 DEF HeardInv, BeatInv
<1>6. StatusInv'
    BY <1>1, <1>3, <1>4 DEF StatusInv
<1>7. StartInv'
    BY <1>2 DEF HeardInv, StartInv, bridgeVars
<1>8. QueueInv'
    BY <1>1, <1>2 DEF HeardInv, QueueInv, LastTells
<1>9. RouteInv'
    BY <1>1, <1>2 DEF HeardInv, RouteInv, Comes, Starting, Told, bridgeVars
<1>. QED BY <1>5, <1>6, <1>7, <1>8, <1>9 DEF HeardInv

LEMMA GoneFollows ==
    ASSUME SlotInv, HeardInv, NEW r \in Reconcilers, Gone(r), UNCHANGED bridgeVars
    PROVE  HeardInv'
<1>1. Leaving /\ ~Arriving /\ ~Leaving' /\ ~Arriving' /\ state \in Prints /\ state' = None
    BY GoneMoves
<1>2. UNCHANGED <<status, subscribed, faults, beat>> /\ health' = "cleared" /\ state # None
    BY <1>1, SlotBounds DEF Gone
<1>3. BeatInv'
    BY <1>2 DEF HeardInv, BeatInv
<1>4. StatusInv'
    BY <1>1, <1>2 DEF HeardInv, StatusInv
<1>5. StartInv'
    BY <1>2 DEF HeardInv, StartInv, bridgeVars
<1>6. CASE ~subscribed
  <2>1. UNCHANGED events
    BY <1>6 DEF Gone, Publish
  <2>2. QueueInv'
    BY <1>2, <1>6, <2>1 DEF HeardInv, QueueInv, LastTells
  <2>3. RouteInv'
    BY <1>2, <1>5, <1>6 DEF RouteInv, StartInv
  <2>. QED BY <1>3, <1>4, <1>5, <2>2, <2>3 DEF HeardInv
<1>7. CASE subscribed /\ faults = 0
  <2> DEFINE e == Event("stopped", AdapterOf[state], 0)
  <2>1. e \in Statuses /\ e.health = "stopped" /\ e.adapter = AdapterOf[state]
    BY <1>1, EventType, SlotBounds DEF Healths
  <2>2. events' = events \o <<e>> /\ events \in Seq(Statuses)
    BY <1>7 DEF Gone, Publish, SlotInv, EventTypes
  <2>. HIDE DEF e
  <2>3. Alternates(events) /\ (events # <<>> => After(events[Len(events)], e))
    BY <1>1, <1>2, <1>7, <2>1 DEF HeardInv, QueueInv, LastTells, After
  <2>4. /\ Alternates(events') /\ events' # <<>> /\ events'[Len(events')] = e
        /\ Len(events) \in Nat /\ Len(events') = Len(events) + 1
    BY <2>1, <2>2, <2>3, AlternatesMore
  <2>5. QueueInv'
    BY <1>1, <1>2, <1>7, <2>1, <2>4 DEF QueueInv, LastTells
  <2>6. RouteInv'
    <3>. SUFFICES ASSUME ~refused', ~mixed', bridge' \in {"apply", "on"}, Len(events') = 1
                  PROVE  Starting' \in {events'[1].adapter, None}
        BY <2>4 DEF RouteInv, Comes
    <3>1. events = <<>> /\ events'[1] = e
        BY <2>2, <2>4
    <3>2. Starting \in {None, Told}
        BY <1>1, <1>7, <3>1 DEF HeardInv, RouteInv, Comes, bridgeVars
    <3>. QED BY <1>2, <2>1, <3>1, <3>2 DEF Told, Starting, bridgeVars
  <2>. QED BY <1>3, <1>4, <1>5, <2>5, <2>6 DEF HeardInv
<1>8. CASE faults # 0
    BY <1>2, <1>3, <1>4, <1>5, <1>8 DEF HeardInv, QueueInv, RouteInv
<1>. QED BY <1>6, <1>7, <1>8

LEMMA ReadyFollows ==
    ASSUME SlotInv, HeardInv, NEW r \in Reconcilers, Ready(r), UNCHANGED bridgeVars
    PROVE  HeardInv'
<1>1. Arriving /\ ~Leaving /\ ~Leaving' /\ ~Arriving' /\ state \in Prints /\ state = seen[r].print
    BY UnlockMoves DEF Ready
<1>2. UNCHANGED <<state, status, subscribed, faults, health, beat>> /\ state # None
    BY <1>1, SlotBounds DEF Ready, Unlock, beatVars
<1>3. BeatInv'
    BY <1>2 DEF HeardInv, BeatInv
<1>4. StatusInv'
    BY <1>1, <1>2 DEF HeardInv, StatusInv
<1>5. StartInv'
    BY <1>2 DEF HeardInv, StartInv, bridgeVars
<1>6. CASE ~subscribed
  <2>1. UNCHANGED events
    BY <1>6 DEF Ready, Publish
  <2>2. QueueInv'
    BY <1>2, <1>6, <2>1 DEF HeardInv, QueueInv, LastTells
  <2>3. RouteInv'
    BY <1>2, <1>5, <1>6 DEF RouteInv, StartInv
  <2>. QED BY <1>3, <1>4, <1>5, <2>2, <2>3 DEF HeardInv
<1>7. CASE subscribed /\ faults = 0
  <2> DEFINE e == Event("ready", AdapterOf[state], seen[r].address)
  <2>0. seen[r].address \in 0..MaxPorts
    BY ProcessType DEF SlotInv, PlanTypes
  <2>1. e \in Statuses /\ e.health = "ready" /\ e.adapter = AdapterOf[state]
    BY <1>1, <2>0, EventType, SlotBounds DEF Healths
  <2>2. events' = events \o <<e>> /\ events \in Seq(Statuses)
    BY <1>1, <1>7 DEF Ready, Publish, SlotInv, EventTypes
  <2>. HIDE DEF e
  <2>3. Alternates(events) /\ (events # <<>> => After(events[Len(events)], e))
    BY <1>1, <1>7, <2>1 DEF HeardInv, QueueInv, LastTells, After
  <2>4. /\ Alternates(events') /\ events' # <<>> /\ events'[Len(events')] = e
        /\ Len(events) \in Nat /\ Len(events') = Len(events) + 1
    BY <2>1, <2>2, <2>3, AlternatesMore
  <2>5. QueueInv'
    BY <1>1, <1>2, <1>7, <2>1, <2>4 DEF QueueInv, LastTells
  <2>6. Len(events') = 1 => events'[1].health = "ready"
    BY <2>1, <2>4
  <2>7. RouteInv'
    BY <2>4, <2>6 DEF RouteInv, Comes
  <2>. QED BY <1>3, <1>4, <1>5, <2>5, <2>7 DEF HeardInv
<1>8. CASE faults # 0
    BY <1>2, <1>3, <1>4, <1>5, <1>8 DEF HeardInv, QueueInv, RouteInv
<1>. QED BY <1>6, <1>7, <1>8
\* What the steps of the bridge leave to the service.
LEMMA BridgeAside ==
    ASSUME SlotInv, HeardInv, Bridge
    PROVE  /\ UNCHANGED <<state, status, faults, health, beat>>
           /\ (Leaving' <=> Leaving) /\ (Arriving' <=> Arriving)
           /\ BeatInv' /\ StatusInv'
<1>1. UNCHANGED <<state, status, faults, health, beat, reconciler>>
    BY BridgeKeeps DEF recVars, beatVars
<1>2. (Leaving' <=> Leaving) /\ (Arriving' <=> Arriving)
    BY <1>1 DEF Leaving, Arriving
<1>3. BeatInv' /\ StatusInv'
    BY <1>1, <1>2 DEF HeardInv, BeatInv, StatusInv
<1>. QED BY <1>1, <1>2, <1>3

LEMMA SubscribeFollows ==
    ASSUME SlotInv, HeardInv, Subscribe
    PROVE  HeardInv'
<1>1. /\ UNCHANGED <<state, faults>> /\ (Leaving' <=> Leaving) /\ (Arriving' <=> Arriving)
      /\ BeatInv' /\ StatusInv'
    BY BridgeAside DEF Bridge
<1>2. /\ bridge = "off" /\ bridge' = "sync" /\ subscribed'
      /\ UNCHANGED <<events, stock, mixed, router, refused>>
    BY DEF Subscribe
<1>3. StartInv'
    BY <1>2 DEF HeardInv, StartInv
<1>4. QueueInv'
    BY <1>1, <1>2 DEF HeardInv, QueueInv, LastTells
<1>5. RouteInv'
    BY <1>2 DEF RouteInv
<1>. QED BY <1>1, <1>3, <1>4, <1>5 DEF HeardInv

LEMMA SyncFollows ==
    ASSUME SlotInv, HeardInv, Sync
    PROVE  HeardInv'
<1>1. /\ UNCHANGED <<state, status, faults>> /\ (Leaving' <=> Leaving) /\ (Arriving' <=> Arriving)
      /\ BeatInv' /\ StatusInv'
    BY BridgeAside DEF Bridge
<1>2. /\ bridge = "sync" /\ bridge' = "apply"
      /\ UNCHANGED <<events, subscribed, router, refused>>
    BY DEF Sync, svcVars, busVars
<1>3. StartInv'
    BY <1>2 DEF HeardInv, StartInv
<1>4. QueueInv'
    BY <1>1, <1>2 DEF HeardInv, QueueInv, LastTells
<1>5. ASSUME faults = 0, ~mixed'
      PROVE  stock'.adapter = (IF state = None \/ Leaving THEN None ELSE AdapterOf[state])
  <2>1. CASE status.health = "ready"
    <3>1. active /\ AdapterOf[bound] = status.adapter
        BY <1>5, <2>1 DEF Sync
    <3>2. stock'.adapter = status.adapter
        BY <2>1, <3>1, EventType DEF Sync
    <3>3. ~(state = None \/ Leaving) /\ status.adapter = AdapterOf[state]
        BY <1>5, <2>1 DEF HeardInv, StatusInv
    <3>. QED BY <3>2, <3>3
  <2>2. CASE status.health # "ready"
    <3>1. stock'.adapter = None
        BY <2>2, NoStatusType DEF Sync
    <3>2. state = None \/ Leaving
        BY <1>5, <2>2 DEF HeardInv, StatusInv
    <3>. QED BY <3>1, <3>2
  <2>. QED BY <2>1, <2>2
<1>6. RouteInv'
  <2>. SUFFICES ASSUME faults = 0, ~mixed'
                PROVE  Comes'
    BY <1>1 DEF RouteInv
  <2>1. Starting' = (IF state = None \/ Leaving THEN None ELSE AdapterOf[state])
    BY <1>2, <1>5 DEF Starting
  <2>2. Leaving => state # None
    BY DEF SlotInv, LockInv, DecisionsHold, Leaving
  <2>3. events' = <<>> =>
            IF Leaving' \/ Arriving' THEN Starting' \in {None, Told'} ELSE Starting' = Told'
    BY <1>1, <2>1, <2>2 DEF Told
  <2>4. ASSUME Len(events') = 1, events'[1].health = "stopped"
        PROVE  Starting' \in {events'[1].adapter, None} \/ (Arriving' /\ Starting' = Told')
    <3>1. events # <<>> /\ Len(events) = 1 /\ events[1].health = "stopped"
        BY <1>2, <2>4
    <3>2. state = None \/ Arriving
        BY <3>1 DEF HeardInv, QueueInv, LastTells
    <3>. QED BY <1>1, <2>1, <3>2 DEF Told
  <2>. QED BY <2>3, <2>4 DEF Comes
<1>. QED BY <1>1, <1>3, <1>4, <1>6 DEF HeardInv

LEMMA ApplyFollows ==
    ASSUME SlotInv, BridgeTypeOK, HeardInv, Apply
    PROVE  HeardInv'
<1>1. /\ UNCHANGED <<state, faults>> /\ (Leaving' <=> Leaving) /\ (Arriving' <=> Arriving)
      /\ BeatInv' /\ StatusInv'
    BY BridgeAside DEF Bridge
<1>2. /\ bridge = "apply" /\ bridge' = "on"
      /\ UNCHANGED <<events, subscribed, mixed>>
    BY DEF Apply, svcVars, busVars
<1>3. StartInv'
    BY <1>2 DEF HeardInv, StartInv
<1>4. QueueInv'
    BY <1>1, <1>2 DEF HeardInv, QueueInv, LastTells
<1>5. ASSUME ~refused' PROVE ~refused /\ router'.adapter = stock.adapter
  <2>1. CASE stock = NoStatus /\ UNCHANGED <<router, refused>>
    <3>1. router = Disconnected
        BY <1>2 DEF HeardInv, StartInv
    <3>. QED BY <1>5, <2>1, <3>1, NoStatusType, ClosedType
  <2>2. CASE stock # NoStatus /\ Connect(stock) /\ UNCHANGED refused
    <3>1. router'.adapter = stock.adapter
        BY <2>2 DEF Connect
    <3>. QED BY <1>5, <2>2, <3>1
  <2>. QED BY <1>5, <2>1, <2>2 DEF Apply, Fails
<1>6. RouteInv'
  <2>. SUFFICES ASSUME faults = 0, ~refused', ~mixed
                PROVE  Comes'
    BY <1>1, <1>2 DEF RouteInv
  <2>1. Comes
    BY <1>2, <1>5 DEF HeardInv, RouteInv
  <2>2. Starting' = Starting
    BY <1>2, <1>5 DEF Starting
  <2>. QED BY <1>1, <1>2, <2>1, <2>2 DEF Comes, Told
<1>. QED BY <1>1, <1>3, <1>4, <1>6 DEF HeardInv

LEMMA HandleFollows ==
    ASSUME SlotInv, BridgeTypeOK, HeardInv, Handle
    PROVE  HeardInv'
<1>1. /\ UNCHANGED <<state, faults>> /\ (Leaving' <=> Leaving) /\ (Arriving' <=> Arriving)
      /\ BeatInv' /\ StatusInv'
    BY BridgeAside DEF Bridge
<1>2. /\ bridge = "on" /\ events # <<>> /\ events' = Tail(events)
      /\ UNCHANGED <<subscribed, bridge, stock, mixed>>
    BY DEF Handle
<1>3. StartInv'
    BY <1>2 DEF HeardInv, StartInv
<1>4. /\ Head(events) = events[1] /\ Len(events) \in Nat /\ Len(events) > 0
      /\ events' \in Seq(Statuses) /\ Len(events') = Len(events) - 1
      /\ \A i \in 1..(Len(events) - 1) : events'[i] = events[i + 1]
  <2>1. /\ Head(events) = events[1] /\ Len(events) \in Nat /\ Len(events) > 0
        /\ Tail(events) \in Seq(Statuses) /\ Len(Tail(events)) = Len(events) - 1
        /\ \A i \in 1..(Len(events) - 1) : Tail(events)[i] = events[i + 1]
    BY <1>2, TailElements DEF SlotInv, EventTypes
  <2>. QED BY <1>2, <2>1
<1>5. events' = <<>> => Len(events) = 1
    BY <1>4
<1>6. Len(events) \in Nat /\ Len(events') = Len(events) - 1
    BY <1>4
<1>7. Len(events') = 1 => events'[1] = events[2] /\ Len(events) = 2
  <2>. SUFFICES ASSUME Len(events') = 1 PROVE events'[1] = events[2] /\ Len(events) = 2
    OBVIOUS
  <2>1. Len(events) = 2
    <3>1. \A n \in Nat : n - 1 = 1 => n = 2
        OBVIOUS
    <3>2. Len(events) - 1 = 1
        BY <1>6
    <3>. QED BY <1>6, <3>1, <3>2
  <2>2. 1 \in 1..(Len(events) - 1) /\ 1 + 1 = 2
    BY <2>1
  <2>3. events'[1] = events[1 + 1]
    BY <1>4, <2>2
  <2>. QED BY <2>1, <2>2, <2>3
<1>8. QueueInv'
  <2>. SUFFICES ASSUME faults = 0
                PROVE  Alternates(events') /\ LastTells'
    BY <1>1, <1>2, <1>3 DEF QueueInv, StartInv
  <2>1. Alternates(events')
    BY <1>2, AlternatesTail DEF HeardInv, QueueInv, SlotInv, EventTypes
  <2>2. events' # <<>> => events'[Len(events')] = events[Len(events)]
    <3>. SUFFICES ASSUME events' # <<>> PROVE events'[Len(events')] = events[Len(events)]
        OBVIOUS
    <3>1. Len(events) - 1 \in 1..(Len(events) - 1) /\ (Len(events) - 1) + 1 = Len(events)
        BY <1>4
    <3>. QED BY <1>4, <3>1
  <2>3. LastTells
    BY DEF HeardInv, QueueInv
  <2>4. LastTells'
    BY <1>1, <1>2, <2>2, <2>3 DEF LastTells
  <2>. QED BY <2>1, <2>4
<1>9. RouteInv'
  <2>. SUFFICES ASSUME faults = 0, ~refused', ~mixed
                PROVE  Comes'
    BY <1>1, <1>2 DEF RouteInv
  <2>0. /\ Head(events).health = "ready" => ~refused /\ router'.adapter = events[1].adapter
        /\ Head(events).health # "ready" =>
              /\ ~refused
              /\ IF router.adapter = events[1].adapter THEN router'.adapter = None
                                                       ELSE router'.adapter = router.adapter
    <3>1. CASE Head(events).health = "ready"
      <4>1. (refused' = TRUE /\ UNCHANGED router)
              \/ (refused' = refused /\ router'.adapter = Head(events).adapter)
        BY <3>1, HandleRoutes
      <4>2. CASE refused' = TRUE
        BY <4>2
      <4>3. CASE refused' = refused /\ router'.adapter = Head(events).adapter
        BY <1>4, <3>1, <4>3
      <4>. QED BY <4>1, <4>2, <4>3
    <3>2. CASE Head(events).health # "ready"
        BY <1>4, <3>2, HandleRoutes, ClosedType
    <3>. QED BY <3>1, <3>2
  <2>1. Comes /\ Starting = router.adapter /\ Starting' = router'.adapter /\ Told' = Told
    BY <1>1, <1>2, <2>0 DEF HeardInv, RouteInv, Starting, Told
  <2>2. events[1].health \in {"ready", "stopped"}
        /\ (Len(events) = 2 => After(events[1], events[2]))
    BY <1>4 DEF HeardInv, QueueInv, Alternates
  <2>3. LastTells
    BY DEF HeardInv, QueueInv
  <2>4. Leaving => state # None
    BY DEF SlotInv, LockInv, DecisionsHold, Leaving
  <2>5. CASE events[1].health = "ready"
    <3>1. Starting' = events[1].adapter
        BY <1>4, <2>0, <2>1, <2>5
    <3>2. events' = <<>> => Starting' = Told
        BY <1>2, <1>5, <2>3, <2>5, <3>1 DEF LastTells, Told
    <3>3. Len(events') = 1 => Starting' = events'[1].adapter
        BY <1>7, <2>2, <2>5, <3>1 DEF After
    <3>. QED BY <2>1, <3>2, <3>3 DEF Comes
  <2>6. CASE events[1].health = "stopped"
    <3>1. ASSUME events' = <<>>
          PROVE  IF Leaving' \/ Arriving' THEN Starting' \in {None, Told'} ELSE Starting' = Told'
      <4>1. state = None \/ Arriving
        BY <1>2, <1>5, <2>3, <2>6, <3>1 DEF LastTells
      <4>2. Starting \in {events[1].adapter, None} \/ (Arriving /\ Starting = Told)
        BY <1>5, <2>1, <2>6, <3>1 DEF Comes
      <4>3. Starting' = None \/ (Arriving /\ Starting' = Told)
        BY <1>4, <2>0, <2>1, <2>6, <4>2
      <4>4. CASE Arriving
        BY <1>1, <2>1, <4>3, <4>4
      <4>5. CASE ~Arriving
        BY <1>1, <2>1, <2>4, <4>1, <4>3, <4>5 DEF Told
      <4>. QED BY <4>4, <4>5
    <3>2. Len(events') = 1 => events'[1].health = "ready"
        BY <1>7, <2>2, <2>6 DEF After
    <3>. QED BY <3>1, <3>2 DEF Comes
  <2>. QED BY <2>2, <2>5, <2>6
<1>. QED BY <1>1, <1>3, <1>8, <1>9 DEF HeardInv

LEMMA HeardInit == Init => HeardInv
<1>. SUFFICES ASSUME Init PROVE HeardInv
    OBVIOUS
<1>1. BeatInv
    BY DEF Init, ServiceInit, BeatInv
<1>2. StatusInv
    BY NoStatusType DEF Init, ServiceInit, StatusInv
<1>3. bridge = "off" /\ ~subscribed /\ ~mixed /\ router = Disconnected /\ events = <<>>
    BY DEF Init, ServiceInit
<1>4. StartInv /\ RouteInv
    BY <1>3 DEF StartInv, RouteInv
<1>5. Alternates(<<>>)
  <2>1. 1..Len(<<>>) = {} /\ 1..(Len(<<>>) - 1) = {}
    OBVIOUS
  <2>. QED BY <2>1 DEF Alternates
<1>6. QueueInv
    BY <1>3, <1>5 DEF QueueInv, LastTells
<1>. QED BY <1>1, <1>2, <1>4, <1>6 DEF HeardInv

LEMMA HeardStep ==
    ASSUME SlotInv, BridgeTypeOK, HeardInv, [Next]_vars
    PROVE  HeardInv'
<1>1. CASE ServiceNext /\ UNCHANGED bridgeVars
  <2>1. CASE Rebind
    <3>1. UNCHANGED <<state, status, faults, health, beat, events, subscribed, reconciler>>
        BY <2>1 DEF Rebind, recVars, beatVars, busVars
    <3>2. (Leaving' <=> Leaving) /\ (Arriving' <=> Arriving) /\ BeatInv'
        BY <3>1 DEF Leaving, Arriving, HeardInv, BeatInv
    <3>. QED BY <1>1, <3>1, <3>2, HeardAside
  <2>2. ASSUME NEW r \in Reconcilers, Inside(r) PROVE HeardInv'
    BY <1>1, <2>2, LockFollows, GoneFollows, NewFollows, NothingNewFollows, ReadyFollows
       DEF Inside
  <2>. QED BY <1>1, <2>1, <2>2, ServiceSteps, OutsideFollows, HeartbeatFollows
<1>2. CASE Bridge
    BY <1>2, SubscribeFollows, SyncFollows, ApplyFollows, HandleFollows DEF Bridge
<1>3. CASE UNCHANGED vars
  <2>1. /\ UNCHANGED <<state, status, faults, health, beat, events, subscribed, reconciler>>
        /\ UNCHANGED bridgeVars
    BY <1>3 DEF vars, svcVars, recVars, beatVars, busVars
  <2>2. (Leaving' <=> Leaving) /\ (Arriving' <=> Arriving) /\ BeatInv'
    BY <2>1 DEF Leaving, Arriving, HeardInv, BeatInv
  <2>. QED BY <2>1, <2>2, HeardAside
<1>. QED BY <1>1, <1>2, <1>3 DEF Next

LEMMA HeardImplies == HeardInv => RouterFollows
<1>. SUFFICES ASSUME HeardInv, Resting, faults = 0, ~refused, ~mixed
              PROVE  router.adapter = (IF state = None THEN None ELSE AdapterOf[state])
    BY DEF RouterFollows
<1>1. ~Leaving /\ ~Arriving
    BY DEF Resting, Leaving, Arriving
<1>2. Comes /\ events = <<>> /\ bridge = "on"
    BY DEF HeardInv, RouteInv, Resting
<1>. QED BY <1>1, <1>2 DEF Comes, Starting, Told

LEMMA HeardAlways == Spec => [](SlotInv /\ BridgeTypeOK /\ HeardInv)
<1>1. Init => SlotInv /\ BridgeTypeOK /\ HeardInv
    BY SlotInit, HeardInit
<1>2. SlotInv /\ BridgeTypeOK /\ HeardInv /\ [Next]_vars
        => (SlotInv /\ BridgeTypeOK /\ HeardInv)'
    BY SlotStep, HeardStep
<1>. QED BY <1>1, <1>2, PTL DEF Spec

\* However the reconciliations overlap, what one has decided holds until it has
\* published it, and without a failure the service publishes ready and stopped
\* in turn, the last event that waits telling what is published.
THEOREM PublishesInTurn == Spec => []PublishedInTurn
<1>1. SlotInv /\ HeardInv => PublishedInTurn
    BY DEF SlotInv, LockInv, HeardInv, QueueInv, PublishedInTurn
<1>. QED BY <1>1, HeardAlways, PTL

\* With nothing under way the router uses the adapter that the service has
\* published last, or none, if nothing has failed and no ready was refused.
THEOREM RouterFollowsService == Spec => []RouterFollows
    BY HeardAlways, HeardImplies, PTL
=============================================================================
