---------------------------- MODULE AdapterBridge ----------------------------
(***************************************************************************)
(* The intent router's bridge to the adapters service                      *)
(* (internal/intentrouter/adapter_bridge.go), composed with that service.  *)
(*                                                                         *)
(* The bridge learns what runs in the AI slot from status events alone:    *)
(* it connects on ready, lets go on stopped, degraded and error, and       *)
(* compares adapter names.  It subscribes before it takes stock, once, at  *)
(* its start, which follows the start of the service.                      *)
(***************************************************************************)
EXTENDS AdapterService

CONSTANTS
    ErrorLimit,   \* maxConsecutiveErrors
    CanRefuse     \* whether a lookup or the creation of an adapter may fail

ASSUME BridgeAssumption == ErrorLimit \in Nat \ {0} /\ CanRefuse \in BOOLEAN

VARIABLES
    bridge,     \* where Start is: "off", "sync", "apply" or "on"
    stock,      \* the ready status that the initial sync has found
    mixed,      \* history: what was ready at that time was not what is bound
    router,     \* the adapter the router uses and its address
    breaker,    \* consecutiveErrors with the adapter, address and version of the last
    refused     \* history: a READY event has not been acted on

bridgeVars == <<bridge, stock, mixed, router, breaker, refused>>
vars == <<svcVars, bridgeVars>>

Disconnected == [adapter |-> None, address |-> 0]
Closed == [errors |-> 0, adapter |-> None, address |-> 0, version |-> -1]
Version == edits   \* the binding's UpdatedAt

BridgeTypeOK ==
    /\ bridge \in {"off", "sync", "apply", "on"}
    /\ stock \in Statuses \cup {NoStatus} /\ mixed \in BOOLEAN
    /\ router \in [adapter : AdapterIds \cup {None}, address : 0..MaxPorts]
    /\ breaker \in [errors : 0..ErrorLimit, adapter : AdapterIds \cup {None},
                    address : 0..MaxPorts, version : -1..MaxEdits]
    /\ refused \in BOOLEAN

TypeOK == ServiceTypeOK /\ BridgeTypeOK

Init ==
    /\ ServiceInit
    /\ bridge = "off" /\ stock = NoStatus /\ mixed = FALSE
    /\ router = Disconnected /\ breaker = Closed /\ refused = FALSE

-----------------------------------------------------------------------------
(* Start: subscribe, then sync with the current binding.                   *)

Subscribe ==
    /\ bridge = "off" /\ bridge' = "sync"
    /\ subscribed' = TRUE
    /\ UNCHANGED <<cfgVars, manVars, recVars, state, status, faults, beatVars, events,
                   stock, mixed, router, breaker, refused>>

\* Mutant: the sync leaves every adapter to its next ready event.
Sync_Waits ==
    /\ bridge = "sync" /\ bridge' = "apply"
    /\ stock' = NoStatus
    /\ mixed' = (status.health = "ready" /\ ~(active /\ AdapterOf[bound] = status.adapter))
    /\ UNCHANGED <<svcVars, router, breaker, refused>>

\* The adapter is the bound one; the runtime status is the last one of the
\* slot, whichever adapter it was recorded for.
Sync ==
    /\ bridge = "sync" /\ bridge' = "apply"
    /\ stock' = IF active /\ status.health = "ready"
                THEN Event("ready", AdapterOf[bound], status.address) ELSE NoStatus
    /\ mixed' = (status.health = "ready" /\ ~(active /\ AdapterOf[bound] = status.adapter))
    /\ UNCHANGED <<svcVars, router, breaker, refused>>

Connect(e) == router' = [adapter |-> e.adapter, address |-> e.address]

\* configureAdapter needs an address, and may fail with one.
Fails(e) == (CanRefuse \/ e.address = 0) /\ refused' = TRUE

\* A failure is only logged, and the circuit breaker is not told.
Apply ==
    /\ bridge = "apply" /\ bridge' = "on"
    /\ \/ stock = NoStatus /\ UNCHANGED <<router, refused>>
       \/ stock # NoStatus /\ stock.address # 0 /\ Connect(stock) /\ UNCHANGED refused
       \/ stock # NoStatus /\ Fails(stock) /\ UNCHANGED router
    /\ stock' = NoStatus
    /\ UNCHANGED <<svcVars, mixed, breaker>>

-----------------------------------------------------------------------------
(* handleAdapterStatus.                                                    *)

\* The breaker is reset when the adapter, the address or the version of the
\* configuration is not the one that failed.
Reset(e, version) ==
    \/ breaker.adapter # e.adapter \/ breaker.address # e.address
    \/ breaker.version # -1 /\ breaker.version # version

Reduced(e, version) == IF breaker.errors > 0 /\ Reset(e, version) THEN Closed ELSE breaker

\* The version is known only while the binding is that of the event's adapter.
LookedUp(e) == IF AdapterOf[bound] = e.adapter THEN Version ELSE -1

\* recordError keeps the last version when the lookup did not give one.  The
\* errors past the limit only lengthen the backoff.
Refuse(e, b, version) ==
    /\ refused' = TRUE
    /\ breaker' = [errors |-> IF b.errors < ErrorLimit THEN b.errors + 1 ELSE ErrorLimit,
                   adapter |-> e.adapter, address |-> e.address,
                   version |-> IF version = -1 THEN b.version ELSE version]
    /\ UNCHANGED router

\* A READY event within the backoff is dropped; nothing repeats it.
OnReady(e) ==
    \/ CanRefuse /\ Refuse(e, breaker, -1)       \* lookupAdapterConfig fails
    \/ LET b == Reduced(e, LookedUp(e)) IN
       \/ /\ b.errors = ErrorLimit               \* backoff
          /\ breaker' = b /\ refused' = TRUE /\ UNCHANGED router
       \/ /\ e.address # 0 /\ Connect(e)
          /\ breaker' = Closed /\ UNCHANGED refused
       \/ Fails(e) /\ Refuse(e, b, LookedUp(e))

LetGo(e) ==
    /\ UNCHANGED refused
    /\ IF router.adapter = e.adapter
       THEN router' = Disconnected /\ breaker' = Closed
       ELSE UNCHANGED <<router, breaker>>

Handle ==
    /\ bridge = "on" /\ events # <<>>
    /\ events' = Tail(events)
    /\ IF Head(events).health = "ready" THEN OnReady(Head(events)) ELSE LetGo(Head(events))
    /\ UNCHANGED <<cfgVars, manVars, recVars, state, status, faults, beatVars, subscribed,
                   bridge, stock, mixed>>

Bridge == Subscribe \/ Sync \/ Apply \/ Handle

Next == (ServiceNext /\ UNCHANGED bridgeVars) \/ Bridge

Spec == Init /\ [][Next]_vars

\* The ticker fires again and again; every call that has begun goes on.
FairSpec ==
    /\ Spec
    /\ \A r \in Reconcilers : WF_vars(Step(r) /\ UNCHANGED bridgeVars)
    /\ \A r \in Loops : WF_vars(Reconcile(r) /\ UNCHANGED bridgeVars)
    /\ WF_vars(Bridge)

-----------------------------------------------------------------------------
(* Properties.                                                             *)

Wanted == IF active THEN bound ELSE None

\* Whatever the overlap of the watcher, the ticker and the calls of StartSlot
\* and StopSlot, and whatever failed, once the binding no longer changes the
\* slot runs what is bound, and that is what the service has published.
Settles == <>[](instance.print = Wanted /\ state = Wanted)

\* Where updateState is.
Leaving == \E r \in Reconcilers : reconciler[r] = "gone"
Arriving == \E r \in Reconcilers : reconciler[r] = "ready"

\* What a reconciliation has decided to publish is still so when it does: the
\* lists they took overlap, and one may have been compared since.
DecisionsHold ==
    \A r \in Reconcilers :
        /\ reconciler[r] = "gone" => state \notin {None, seen[r].print}
        /\ reconciler[r] = "new" => state \in {None, seen[r].print}
        /\ reconciler[r] = "ready" => state = seen[r].print /\ state # None

\* What is sent after d.
After(d, e) ==
    IF d.health = "ready" THEN e.health = "stopped" /\ e.adapter = d.adapter
                          ELSE e.health = "ready"

Alternates(s) ==
    /\ \A i \in 1..Len(s) : s[i].health \in {"ready", "stopped"}
    /\ \A i \in 1..(Len(s) - 1) : After(s[i], s[i + 1])

\* The last event that waits tells what is published.
LastTells ==
    events # <<>> =>
        IF state = None \/ Arriving THEN events[Len(events)].health = "stopped"
        ELSE events[Len(events)].health = "ready"
             /\ events[Len(events)].adapter = AdapterOf[state]

\* However reconciliations overlap, each publishes the difference to what was
\* published before it: nothing stops that was not ready, what is replaced is
\* stopped first, and who hears the last event knows what the service has
\* published; unless a failure or a failed probe has put in an event of its own.
PublishedInTurn ==
    DecisionsHold /\ (faults = 0 => Alternates(events) /\ LastTells)

Resting ==
    /\ \A r \in Reconcilers : reconciler[r] \in {"idle", "end"}
    /\ beat = "rest" /\ bridge = "on" /\ events = <<>>

\* With nothing under way the router uses the adapter that the service has
\* published last, or none, unless a failure or a failed probe has come in
\* between, or the bridge took stock of a binding that was being changed.
RouterFollows ==
    Resting /\ faults = 0 /\ ~refused /\ ~mixed =>
        router.adapter = (IF state = None THEN None ELSE AdapterOf[state])
=============================================================================
