--------------------------- MODULE AdapterService ---------------------------
(***************************************************************************)
(* The adapters service with its manager (internal/plugins/adapters): what *)
(* runs in one slot against what the configuration binds to it.            *)
(*                                                                         *)
(* A reconciliation loads the binding, ensures the process under the       *)
(* manager's lock, takes the list of what runs, and compares it with what  *)
(* was published under the service's lock.  The watcher, the ticker and    *)
(* the callers of StartSlot and StopSlot reconcile at the same time, and a *)
(* heartbeat probes what it saw running and publishes transitions.         *)
(*                                                                         *)
(* A print stands for a configuration's fingerprint.  Every start of a     *)
(* process allocates an address of its own, which no fingerprint has.      *)
(***************************************************************************)
EXTENDS Integers, Sequences, FiniteSets

CONSTANTS
    Prints,        \* the fingerprints a binding can have
    AdapterOf,     \* AdapterOf[p]: the adapter of fingerprint p
    First,         \* the fingerprint bound when the daemon starts
    None,          \* no fingerprint, no adapter
    Loops,         \* the watcher and the ticker
    Callers,       \* calls of StartSlot and StopSlot, one each
    MaxPorts,      \* bound: addresses, which recur after that many starts
    MaxEdits,      \* bound: writes of the binding
    MaxFaults,     \* bound: failed probes and failures to prepare, start or stop
    MaxEvents      \* bound: events waiting for the router's bridge

ASSUME AdapterAssumption ==
    /\ None \notin Prints /\ None \notin {AdapterOf[p] : p \in Prints}
    /\ DOMAIN AdapterOf = Prints /\ First \in Prints
    /\ Loops \cap Callers = {}
    /\ MaxPorts \in Nat \ {0}
    /\ {MaxEdits, MaxFaults, MaxEvents} \subseteq Nat

VARIABLES
    bound,      \* the binding's fingerprint, active or not
    active,     \* the binding's status
    edits,      \* number of writes of the binding
    instance,   \* the process of the slot: its fingerprint and address
    port,       \* the address allocated last
    slotErr,    \* lastSlotErrs of the slot
    reconciler, \* reconciler[r]: where r's call is
    plan,       \* plan[r]: the fingerprint to run, None, or "keep"
    seen,       \* seen[r]: what Running returned to r
    state,      \* the fingerprint the service has published as ready
    status,     \* the last status recorded for the slot
    health,     \* heartbeatState of the slot
    beat,       \* where the heartbeat is
    probed,     \* what the heartbeat found running
    report,     \* the event the heartbeat is publishing
    faults,     \* how many there have been
    subscribed, \* the bridge has subscribed to the status events
    events      \* the events it has not handled

cfgVars == <<bound, active, edits>>
manVars == <<instance, port, slotErr>>
recVars == <<reconciler, plan, seen>>
beatVars == <<health, beat, probed, report>>
busVars == <<subscribed, events>>
svcVars == <<cfgVars, manVars, recVars, state, status, faults, beatVars, busVars>>

Reconcilers == Loops \cup Callers
AdapterIds == {AdapterOf[p] : p \in Prints}
NoProcess == [print |-> None, address |-> 0]
Processes == [print : Prints, address : 1..MaxPorts] \cup {NoProcess}

\* An AdapterStatusEvent of the slot; the address is one of its Extra fields.
Event(h, a, addr) == [health |-> h, adapter |-> a, address |-> addr]
Statuses == [health : {"ready", "stopped", "error", "degraded"},
             adapter : AdapterIds, address : 0..MaxPorts]
NoStatus == Event("none", None, 0)

ServiceTypeOK ==
    /\ bound \in Prints /\ active \in BOOLEAN /\ edits \in 0..MaxEdits
    /\ instance \in Processes /\ port \in 0..MaxPorts
    /\ slotErr \in ({"prepare", "start", "restart", "stop"} \X AdapterIds) \cup {<<>>}
    /\ reconciler \in [Reconcilers -> {"idle", "set", "unset", "kill", "load", "ensure",
                                       "list", "lock", "gone", "new", "ready", "end"}]
    /\ plan \in [Reconcilers -> Prints \cup {None, "keep"}]
    /\ seen \in [Reconcilers -> Processes]
    /\ state \in Prints \cup {None} /\ status \in Statuses \cup {NoStatus}
    /\ health \in {"untracked", "healthy", "degraded", "cleared"}
    /\ beat \in {"rest", "probe", "build", "record", "send", "purge"}
    /\ probed \in Processes /\ report \in Statuses \cup {NoStatus}
    /\ faults \in 0..MaxFaults
    /\ subscribed \in BOOLEAN /\ events \in Seq(Statuses) /\ Len(events) <= MaxEvents

\* The daemon has a binding, and Start's reconciliation has not begun.
ServiceInit ==
    /\ bound = First /\ active \in BOOLEAN /\ edits = 0
    /\ instance = NoProcess /\ port = 0 /\ slotErr = <<>>
    /\ reconciler = [r \in Reconcilers |-> "idle"]
    /\ plan = [r \in Reconcilers |-> None] /\ seen = [r \in Reconcilers |-> NoProcess]
    /\ state = None /\ status = NoStatus
    /\ health = "untracked" /\ beat = "rest" /\ probed = NoProcess /\ report = NoStatus
    /\ faults = 0 /\ subscribed = FALSE /\ events = <<>>

-----------------------------------------------------------------------------
(* Publishing.                                                             *)

\* The topic drops new events when the subscriber's channel is full; the model
\* keeps within the channel.
Publish(sent) ==
    /\ events' = IF subscribed THEN events \o sent ELSE events
    /\ Len(events') <= MaxEvents

\* logSlotError: the error that was the last one is not published again, and no
\* status is recorded.
SlotError(kind, a, last) ==
    /\ faults < MaxFaults /\ faults' = faults + 1
    /\ slotErr' = <<kind, a>>
    /\ Publish(IF last = <<kind, a>> THEN <<>> ELSE <<Event("error", a, 0)>>)

NoError == UNCHANGED <<faults, busVars>>

Goto(r, step) == reconciler' = [reconciler EXCEPT ![r] = step]

-----------------------------------------------------------------------------
(* The configuration and the callers.                                      *)

\* Somebody binds another adapter, another configuration of it, or none.
Rebind ==
    /\ edits < MaxEdits /\ edits' = edits + 1
    /\ bound' \in Prints /\ active' \in BOOLEAN
    /\ <<bound', active'>> # <<bound, active>>
    /\ UNCHANGED <<manVars, recVars, state, status, faults, beatVars, busVars>>

\* StartSlot and StopSlot write the status first.
CallSlot(r) ==
    /\ r \in Callers /\ reconciler[r] = "idle"
    /\ \E on \in BOOLEAN : Goto(r, IF on THEN "set" ELSE "unset")
    /\ UNCHANGED <<cfgVars, manVars, plan, seen, state, status, faults, beatVars,
                   busVars>>

SetStatus(r) ==
    /\ reconciler[r] \in {"set", "unset"} /\ edits < MaxEdits
    /\ edits' = edits + 1 /\ active' = (reconciler[r] = "set")
    /\ Goto(r, IF reconciler[r] = "set" THEN "load" ELSE "kill")
    /\ UNCHANGED <<bound, manVars, plan, seen, state, status, faults, beatVars,
                   busVars>>

\* StopSlot stops the process; a failure ends the call with an error that no
\* slot error records.
KillSlot(r) ==
    /\ reconciler[r] = "kill"
    /\ \/ /\ instance' = NoProcess
          /\ Goto(r, "load") /\ UNCHANGED faults
       \/ /\ instance # NoProcess /\ faults < MaxFaults
          /\ faults' = faults + 1
          /\ Goto(r, "end") /\ UNCHANGED instance
    /\ UNCHANGED <<cfgVars, port, slotErr, plan, seen, state, status, beatVars, busVars>>

-----------------------------------------------------------------------------
(* One reconciliation.                                                     *)

\* The watcher has heard of a change, or the ticker ticks.
Reconcile(r) ==
    /\ r \in Loops /\ reconciler[r] = "idle"
    /\ Goto(r, "load")
    /\ UNCHANGED <<cfgVars, manVars, plan, seen, state, status, faults, beatVars,
                   busVars>>

\* loadActiveBindings and prepareBinding, before the manager's lock is taken.
\* A store that cannot be read ends Ensure with an error about no slot.  When
\* no slot at all has a plan, Ensure returns and changes nothing; when another
\* slot has one, this slot is treated as not bound.
Load(r) ==
    /\ reconciler[r] = "load" /\ Goto(r, "ensure")
    /\ \/ /\ plan' = [plan EXCEPT ![r] = IF active THEN bound ELSE None]
          /\ UNCHANGED slotErr /\ NoError
       \/ /\ faults < MaxFaults /\ faults' = faults + 1
          /\ plan' = [plan EXCEPT ![r] = "keep"]
          /\ UNCHANGED <<slotErr, busVars>>
       \/ /\ active /\ SlotError("prepare", AdapterOf[bound], slotErr)
          /\ \E p \in {"keep", None} : plan' = [plan EXCEPT ![r] = p]
          /\ UNCHANGED subscribed
    /\ UNCHANGED <<cfgVars, instance, port, seen, state, status, beatVars>>

Start(p) ==
    /\ port' = (port % MaxPorts) + 1
    /\ instance' = [print |-> p, address |-> port']
    /\ slotErr' = <<>> /\ NoError

\* A start that fails leaves the slot empty, also when a process was stopped
\* for it; that stop has cleared the slot's error.
StartFails(p) ==
    /\ instance' = NoProcess /\ UNCHANGED port
    /\ IF instance = NoProcess THEN SlotError("start", AdapterOf[p], slotErr)
                               ELSE SlotError("restart", AdapterOf[p], <<>>)
    /\ UNCHANGED subscribed

Stops ==
    /\ instance' = NoProcess /\ slotErr' = <<>>
    /\ UNCHANGED port /\ NoError

StopFails ==
    /\ instance # NoProcess /\ UNCHANGED <<instance, port>>
    /\ SlotError("stop", AdapterOf[instance.print], slotErr) /\ UNCHANGED subscribed

\* Mutant: a slot that has failed is left alone.
Ensured_Failed(p) == p = "keep" \/ instance.print = p \/ slotErr # <<>>

Ensured(p) == p = "keep" \/ instance.print = p

\* The part of Ensure under the manager's lock.
Ensure(r) ==
    /\ reconciler[r] = "ensure" /\ Goto(r, "list")
    /\ plan' = [plan EXCEPT ![r] = None]
    /\ \/ Ensured(plan[r]) /\ UNCHANGED manVars /\ NoError
       \/ /\ ~Ensured(plan[r])
          /\ \/ plan[r] = None /\ Stops
             \/ plan[r] # None /\ (Start(plan[r]) \/ StartFails(plan[r]))
             \/ StopFails
    /\ UNCHANGED <<cfgVars, seen, state, status, beatVars>>

List(r) ==
    /\ reconciler[r] = "list" /\ Goto(r, "lock")
    /\ seen' = [seen EXCEPT ![r] = instance]
    /\ UNCHANGED <<cfgVars, manVars, plan, state, status, faults, beatVars, busVars>>

-----------------------------------------------------------------------------
(* updateState, under the service's lock.                                  *)

\* publishStatus records the status of the slot and then publishes it, with
\* nothing between the two that keeps a heartbeat's event out.
Differs(r) == state # None /\ seen[r].print # state

Locked == \E r \in Reconcilers : reconciler[r] \in {"gone", "new", "ready"}

\* Mutant: what is published is compared without the lock.
Lock_Unlocked(r) ==
    /\ reconciler[r] = "lock"
    /\ IF Differs(r)
       THEN /\ status' = Event("stopped", AdapterOf[state], 0)
            /\ Goto(r, "gone")
       ELSE Goto(r, "new") /\ UNCHANGED status
    /\ UNCHANGED <<cfgVars, manVars, plan, seen, state, faults, beatVars, busVars>>

Lock(r) ==
    /\ reconciler[r] = "lock" /\ ~Locked
    /\ IF Differs(r)
       THEN /\ status' = Event("stopped", AdapterOf[state], 0)
            /\ Goto(r, "gone")
       ELSE Goto(r, "new") /\ UNCHANGED status
    /\ UNCHANGED <<cfgVars, manVars, plan, seen, state, faults, beatVars, busVars>>

\* The stopped event; the slot's heartbeat state is marked, so that the result
\* of a probe that is under way is discarded.
Gone(r) ==
    /\ reconciler[r] = "gone" /\ Goto(r, "new")
    /\ Publish(<<Event("stopped", AdapterOf[state], 0)>>)
    /\ state' = None /\ health' = "cleared"
    /\ UNCHANGED <<cfgVars, manVars, plan, seen, status, faults, beat, probed, report,
                   subscribed>>

New(r) ==
    /\ reconciler[r] = "new" /\ seen[r].print \notin {state, None}
    /\ Goto(r, "ready")
    /\ state' = seen[r].print
    /\ status' = Event("ready", AdapterOf[state'], seen[r].address)
    /\ UNCHANGED <<cfgVars, manVars, plan, seen, faults, beatVars, busVars>>

Unlock(r) ==
    /\ Goto(r, IF r \in Loops THEN "idle" ELSE "end")
    /\ seen' = [seen EXCEPT ![r] = NoProcess]
    /\ UNCHANGED <<cfgVars, manVars, plan, state, status, faults, beatVars, subscribed>>

NothingNew(r) ==
    /\ reconciler[r] = "new" /\ seen[r].print \in {state, None}
    /\ Unlock(r) /\ UNCHANGED events

Ready(r) ==
    /\ reconciler[r] = "ready"
    /\ Publish(<<Event("ready", AdapterOf[seen[r].print], seen[r].address)>>)
    /\ Unlock(r)

Step(r) ==
    \/ SetStatus(r) \/ KillSlot(r) \/ Load(r) \/ Ensure(r) \/ List(r)
    \/ Lock(r) \/ Gone(r) \/ New(r) \/ NothingNew(r) \/ Ready(r)

-----------------------------------------------------------------------------
(* The heartbeat.                                                          *)

Purged == IF health = "cleared" THEN "untracked" ELSE health

\* Without a process there is nothing to probe.  Beats that can no longer
\* change anything within the bound on faults are left out.
Beat ==
    /\ beat = "rest" /\ (faults < MaxFaults \/ health = "degraded")
    /\ IF instance = NoProcess
       THEN health' = Purged /\ UNCHANGED <<beat, probed>>
       ELSE probed' = instance /\ beat' = "probe" /\ UNCHANGED health
    /\ UNCHANGED <<report, faults>>

\* handleHeartbeatResult, under the heartbeat's lock; an event is published
\* after that lock has been released.
Transition(h) == /\ beat' = "build"
                 /\ report' = Event(h, AdapterOf[probed.print], 0)

NoTransition == beat' = "purge" /\ UNCHANGED report

ProbeFails ==
    /\ beat = "probe" /\ faults < MaxFaults /\ faults' = faults + 1
    /\ IF health \in {"untracked", "healthy"}
       THEN health' = "degraded" /\ Transition("degraded")
       ELSE NoTransition /\ UNCHANGED health
    /\ probed' = NoProcess

ProbeSucceeds ==
    /\ beat = "probe" /\ UNCHANGED faults
    /\ IF health = "degraded"
       THEN health' = "healthy" /\ Transition("ready")
       ELSE NoTransition /\ UNCHANGED health
    /\ probed' = NoProcess

\* buildHeartbeatEvent takes the address from the status recorded last.
Build ==
    /\ beat = "build" /\ beat' = "record"
    /\ report' = [report EXCEPT !.address = status.address]
    /\ UNCHANGED <<health, probed, faults>>

Purge ==
    /\ beat = "purge" /\ beat' = "rest"
    /\ health' = Purged
    /\ report' = NoStatus
    /\ UNCHANGED <<probed, faults>>

Probe == ProbeFails \/ ProbeSucceeds

BeatInner ==
    /\ Beat \/ Probe \/ Build \/ Purge
    /\ UNCHANGED <<status, busVars>>

Record ==
    /\ beat = "record" /\ beat' = "send"
    /\ status' = report
    /\ UNCHANGED <<health, probed, report, faults, busVars>>

Send ==
    /\ beat = "send" /\ beat' = "purge"
    /\ Publish(<<report>>)
    /\ UNCHANGED <<health, probed, report, faults, status, subscribed>>

Heartbeat ==
    /\ BeatInner \/ Record \/ Send
    /\ UNCHANGED <<cfgVars, manVars, recVars, state>>

-----------------------------------------------------------------------------
ServiceNext ==
    \/ Rebind
    \/ \E r \in Reconcilers : CallSlot(r) \/ Reconcile(r) \/ Step(r)
    \/ Heartbeat
=============================================================================
