---------------------------- MODULE TransportHost ----------------------------
(***************************************************************************)
(* The service host (internal/runtime/service_host.go) and its last        *)
(* service, the transport gateway, as the daemon drives it                 *)
(* (internal/daemon/daemon.go): the host starts the gateway, and restarts  *)
(* it upon a change of the transport configuration made through the        *)
(* gateway itself, upon one the configuration watcher reports, and upon    *)
(* one of the certificate files.  Restarts take turns; the host's own      *)
(* start and stop do not wait for them.                                    *)
(*                                                                         *)
(* A configuration is a binding and a port, where port 0 asks for any.     *)
(* The gateway writes the port it got into the store it was read from.     *)
(***************************************************************************)
EXTENDS Integers, FiniteSets

CONSTANTS
    None,         \* the value of a local variable out of use
    Bindings,     \* what the gateway may be bound to
    Ports,        \* the ports of the machine, as positive numbers
    MaxUpdates,   \* bound: calls of UpdateTransportConfig
    MaxRenewals,  \* bound: changes of the certificate files
    MaxHostFaults \* bound: operations that fail

ASSUME HostAssumption ==
    /\ Ports # {} /\ Ports \subseteq Nat \ {0}
    /\ {MaxUpdates, MaxRenewals, MaxHostFaults} \subseteq Nat

VARIABLES
    store,     \* the transport configuration in the store
    applied,   \* the API server's copy of it
    gateways,  \* the gateways that listen
    service,   \* reg.service: the gateway's id, 0 for nil
    started,   \* h.started
    startPc,   \* where the host's Start, and the Restart that holds reg.mu, are
    read,      \* the configuration each has read
    got,       \* the gateway each has made
    made,      \* gateways made so far
    phase,     \* where the daemon's Start is
    done,      \* d.lifecycle is done
    cancelled, \* the daemon's context, and with it the host's, is cancelled
    client,    \* where the client's UpdateTransportConfig is
    brought,    \* the configuration it brings
    updates,   \* its calls so far
    spawned,   \* transport listeners that have not yet run
    queued,    \* those that wait for reg.mu
    changed,   \* the settings have changed since the watcher's last poll
    event,     \* the watcher's event, not yet handled
    config,    \* where the holder of configMu is
    loaded,    \* the configuration it has loaded
    renewals,  \* changes of the certificate files so far
    hostFaults, \* failures so far
    early      \* history: an update came before the host's Start was over

storeVars == <<store, changed>>
regVars == <<gateways, service>>
startVars == <<startPc, read, got, made>>
daemonVars == <<started, phase, done, cancelled>>
clientVars == <<client, brought, updates, early>>
hookVars == <<spawned, queued>>
configVars == <<event, config, loaded, renewals>>
hostVars == <<storeVars, applied, regVars, startVars, daemonVars, clientVars, hookVars,
              configVars, hostFaults>>

Configs == [binding : Bindings, port : {0} \cup Ports]
Gateway == [id : Nat, binding : Bindings, port : {0} \cup Ports]
Starters == {"start", "restart"}

\* Initially the store holds a configuration; the server's copy is filled when
\* the gateway starts.
HostInit ==
    /\ store \in Configs /\ applied = store /\ changed = FALSE
    /\ gateways = {} /\ service = 0 /\ started = FALSE
    /\ startPc = [r \in Starters |-> "idle"] /\ made = 0
    /\ read = [r \in Starters |-> None] /\ got = [r \in Starters |-> None]
    /\ phase = "boot" /\ done = FALSE /\ cancelled = FALSE
    /\ client = "rest" /\ brought = None /\ updates = 0 /\ early = FALSE
    /\ spawned = 0 /\ queued = 0
    /\ event = FALSE /\ config = "free" /\ loaded = None /\ renewals = 0
    /\ hostFaults = 0

HostFault == hostFaults < MaxHostFaults /\ hostFaults' = hostFaults + 1
NoHostFault == UNCHANGED hostFaults

-----------------------------------------------------------------------------
(* The gateway's start, by ServiceHost.Start or ServiceHost.Restart.       *)

At(r, pc) == startPc[r] = pc
Goto(r, pc) == startPc' = [startPc EXCEPT ![r] = pc]

\* The deferred Unlock of reg.mu, and of configMu by its holder.
Unlocked == config' = IF config = "restart" THEN "free" ELSE config

\* Restart leaves the service without an instance; the daemon's Start returns,
\* and its process ends.
Forgets(var, r) == var' = [var EXCEPT ![r] = None]

Fails(r) ==
    /\ Goto(r, "idle") /\ Forgets(read, r)
    /\ IF r = "start" THEN phase' = "ended" /\ UNCHANGED config
                      ELSE Unlocked /\ UNCHANGED phase

\* APIServer.Prepare reads the store under the host's context.
Prepare(r) ==
    /\ At(r, "prepare")
    /\ \/ /\ ~cancelled /\ NoHostFault
          /\ read' = [read EXCEPT ![r] = store]
          /\ Goto(r, "apply") /\ UNCHANGED <<phase, config>>
       \/ /\ cancelled /\ NoHostFault
          /\ Fails(r)
       \/ /\ ~cancelled /\ HostFault
          /\ Fails(r)
    /\ UNCHANGED <<storeVars, applied, regVars, got, made, started, done, cancelled, clientVars,
                   hookVars, event, loaded, renewals>>

\* The configuration is copied before the tokens are made sure of.
Apply(r) ==
    /\ At(r, "apply")
    /\ applied' = read[r]
    /\ \/ Goto(r, "listen") /\ NoHostFault /\ UNCHANGED <<read, phase, config>>
       \/ HostFault /\ Fails(r)
    /\ UNCHANGED <<storeVars, regVars, got, made, started, done, cancelled, clientVars, hookVars,
                   event, loaded, renewals>>

\* Gateway.Start: a port in use is an error.
Free(c) == {p \in Ports : c.port \in {0, p} /\ \A g \in gateways : g.port # p}

Listen(r) ==
    /\ At(r, "listen")
    /\ \/ \E p \in Free(read[r]) :
             /\ made' = made + 1
             /\ got' = [got EXCEPT ![r] = [id |-> made', binding |-> read[r].binding, port |-> p]]
             /\ gateways' = gateways \cup {got'[r]}
             /\ Goto(r, "lookup") /\ Forgets(read, r)
             /\ NoHostFault /\ UNCHANGED <<phase, config>>
       \/ /\ Free(read[r]) = {} /\ Fails(r)
          /\ NoHostFault /\ UNCHANGED <<made, got, gateways>>
       \/ /\ Free(read[r]) # {} /\ HostFault /\ Fails(r)
          /\ UNCHANGED <<made, got, gateways>>
    /\ UNCHANGED <<storeVars, applied, service, started, done, cancelled, clientVars,
                   hookVars, event, loaded, renewals>>

\* A save of a configuration that was never loaded.
Lookup_Unread(r) ==
    /\ At(r, "lookup")
    /\ Goto(r, IF store.port = got[r].port THEN "assign" ELSE "save")
    /\ UNCHANGED <<storeVars, applied, regVars, read, got, made, daemonVars, clientVars, hookVars,
                   configVars, hostFaults>>

\* UpdateActualGRPCPort loads the configuration, saves it with the port, and
\* then sets the port of the server's copy; a failure is only logged.
Lookup(r) ==
    /\ At(r, "lookup")
    /\ \/ store.port = got[r].port /\ Goto(r, "assign") /\ NoHostFault /\ UNCHANGED read
       \/ /\ store.port # got[r].port /\ Goto(r, "save") /\ NoHostFault
          /\ read' = [read EXCEPT ![r] = store]
       \/ HostFault /\ Goto(r, "assign") /\ UNCHANGED read
    /\ UNCHANGED <<storeVars, applied, regVars, got, made, daemonVars, clientVars, hookVars,
                   configVars>>

Save(r) ==
    /\ At(r, "save") /\ Forgets(read, r)
    /\ \/ /\ store' = [read[r] EXCEPT !.port = got[r].port] /\ changed' = TRUE
          /\ Goto(r, "port") /\ NoHostFault
       \/ HostFault /\ Goto(r, "assign") /\ UNCHANGED storeVars
    /\ UNCHANGED <<applied, regVars, got, made, daemonVars, clientVars, hookVars, configVars>>

SetPort(r) ==
    /\ At(r, "port") /\ Goto(r, "assign")
    /\ applied' = [applied EXCEPT !.port = got[r].port]
    /\ UNCHANGED <<storeVars, regVars, read, got, made, daemonVars, clientVars, hookVars,
                   configVars, hostFaults>>

Assign(r) ==
    /\ At(r, "assign") /\ Goto(r, "idle")
    /\ service' = got[r].id /\ Forgets(got, r)
    /\ IF r = "start" THEN phase' = "run" /\ UNCHANGED config
                      ELSE Unlocked /\ UNCHANGED phase
    /\ UNCHANGED <<storeVars, applied, gateways, read, made, started, done, cancelled,
                   clientVars, hookVars, event, loaded, renewals, hostFaults>>

Starting == \E r \in Starters :
    Prepare(r) \/ Apply(r) \/ Listen(r) \/ Lookup(r) \/ Save(r) \/ SetPort(r) \/ Assign(r)

\* The gateway is the last service the host starts.
HostStart ==
    /\ phase = "boot" /\ ~started /\ started' = TRUE
    /\ Goto("start", "prepare")
    /\ UNCHANGED <<storeVars, applied, regVars, read, got, made, phase, done, cancelled,
                   clientVars, hookVars, configVars, hostFaults>>

-----------------------------------------------------------------------------
(* Restart, once it holds reg.mu.                                          *)

Shut(id) == gateways' = {g \in gateways : g.id # id}

BeginRestart == At("restart", "idle") /\ Goto("restart", IF service = 0 THEN "prepare" ELSE "stop")

\* Shutdown may report an error though the gateway is closed, and the host's
\* Stop, which does not take the lock, may have set the service to nil: then
\* the call panics.
Replace ==
    /\ At("restart", "stop")
    /\ \/ /\ service # 0 /\ Shut(service) /\ service' = 0
          /\ Goto("restart", "prepare") /\ NoHostFault /\ UNCHANGED <<read, phase, config>>
       \/ /\ service # 0 /\ Shut(service) /\ UNCHANGED service
          /\ HostFault /\ Fails("restart")
       \/ /\ service = 0 /\ phase' = "panic"
          /\ UNCHANGED <<regVars, startPc, read, config, hostFaults>>
    /\ UNCHANGED <<storeVars, applied, got, made, started, done, cancelled, clientVars,
                   hookVars, event, loaded, renewals>>

-----------------------------------------------------------------------------
(* Those who restart it.                                                   *)

\* UpdateTransportConfig comes through the gateway: it saves the configuration,
\* and applyTransportConfig copies it and runs the listeners in goroutines.
Update ==
    /\ client = "rest" /\ updates < MaxUpdates /\ gateways # {}
    /\ \E c \in Configs : store' = c /\ brought' = c
    /\ changed' = TRUE /\ client' = "apply" /\ updates' = updates + 1
    /\ early' = (early \/ phase = "boot")
    /\ UNCHANGED <<applied, regVars, startVars, daemonVars, hookVars, configVars, hostFaults>>

ApplyUpdate ==
    /\ client = "apply" /\ client' = "rest" /\ brought' = None
    /\ \/ applied' = brought /\ spawned' = spawned + 1 /\ NoHostFault
       \/ HostFault /\ UNCHANGED <<applied, spawned>>
    /\ UNCHANGED <<storeVars, regVars, startVars, daemonVars, updates, early, queued, configVars>>

\* A restart that drops a listener's call while another is under way.
Hook_Skips ==
    /\ spawned > 0 /\ spawned' = spawned - 1
    /\ queued' = IF done \/ ~started \/ ~At("restart", "idle") THEN queued ELSE queued + 1
    /\ UNCHANGED <<storeVars, applied, regVars, startVars, daemonVars, clientVars, configVars,
                   hostFaults>>

Hook ==
    /\ spawned > 0 /\ spawned' = spawned - 1
    /\ queued' = IF done \/ ~started THEN queued ELSE queued + 1
    /\ UNCHANGED <<storeVars, applied, regVars, startVars, daemonVars, clientVars, configVars,
                   hostFaults>>

HookRestarts ==
    /\ queued > 0 /\ queued' = queued - 1
    /\ BeginRestart
    /\ UNCHANGED <<storeVars, applied, regVars, read, got, made, daemonVars, clientVars, spawned,
                   configVars, hostFaults>>

\* The watcher runs once the daemon has started.  A time of change has a
\* resolution of a second: a change may go unseen.
Poll ==
    /\ phase = "run" /\ ~cancelled /\ changed /\ ~event
    /\ changed' = FALSE /\ event' \in BOOLEAN
    /\ UNCHANGED <<store, applied, regVars, startVars, daemonVars, clientVars, hookVars, config,
                   loaded, renewals, hostFaults>>

\* handleTransportSettings
Load ==
    /\ event /\ event' = FALSE /\ config = "free"
    /\ \/ /\ ~cancelled /\ loaded' = store /\ config' = "compare" /\ NoHostFault
       \/ cancelled /\ NoHostFault /\ UNCHANGED <<loaded, config>>
       \/ ~cancelled /\ HostFault /\ UNCHANGED <<loaded, config>>
    /\ UNCHANGED <<storeVars, applied, regVars, startVars, daemonVars, clientVars, hookVars,
                   renewals>>

Compare ==
    /\ config = "compare"
    /\ config' = IF applied # loaded /\ started THEN "queue" ELSE "free"
    /\ loaded' = None
    /\ UNCHANGED <<storeVars, applied, regVars, startVars, daemonVars, clientVars, hookVars,
                   event, renewals, hostFaults>>

\* checkTransportFiles
Renew ==
    /\ phase # "boot" /\ ~cancelled /\ config = "free" /\ started /\ renewals < MaxRenewals
    /\ renewals' = renewals + 1 /\ config' = "queue"
    /\ UNCHANGED <<storeVars, applied, regVars, startVars, daemonVars, clientVars, hookVars,
                   event, loaded, hostFaults>>

ConfigRestarts ==
    /\ config = "queue" /\ config' = "restart"
    /\ BeginRestart
    /\ UNCHANGED <<storeVars, applied, regVars, read, got, made, daemonVars, clientVars, hookVars,
                   event, loaded, renewals, hostFaults>>

Restarting ==
    Replace \/ Update \/ ApplyUpdate \/ Hook \/ HookRestarts \/ Poll \/ Load \/ Compare \/ Renew
    \/ ConfigRestarts

-----------------------------------------------------------------------------
(* The end of the daemon.                                                  *)

\* Daemon.Shutdown, called by the API or upon a service's error, first ends
\* the lifecycle and then cancels the context, as Start does when it wakes.
Quit ==
    /\ ~done /\ done' = TRUE
    /\ UNCHANGED <<storeVars, applied, regVars, startVars, started, phase, cancelled, clientVars,
                   hookVars, configVars, hostFaults>>

Cancel ==
    /\ done /\ ~cancelled /\ cancelled' = TRUE
    /\ UNCHANGED <<storeVars, applied, regVars, startVars, started, phase, done, clientVars,
                   hookVars, configVars, hostFaults>>

HostStop ==
    /\ phase = "run" /\ cancelled
    /\ started' = FALSE /\ phase' = "stop"
    /\ UNCHANGED <<storeVars, applied, regVars, startVars, done, cancelled, clientVars, hookVars,
                   configVars, hostFaults>>

\* Stop looks at reg.service, and calls it, without the lock that Restart has.
StopChecks ==
    /\ phase = "stop" /\ phase' = IF service = 0 THEN "ended" ELSE "call"
    /\ UNCHANGED <<storeVars, applied, regVars, startVars, started, done, cancelled, clientVars,
                   hookVars, configVars, hostFaults>>

StopCalls ==
    /\ phase = "call"
    /\ IF service = 0 THEN phase' = "panic" /\ UNCHANGED regVars
                      ELSE phase' = "ended" /\ Shut(service) /\ service' = 0
    /\ UNCHANGED <<storeVars, applied, startVars, started, done, cancelled, clientVars, hookVars,
                   configVars, hostFaults>>

\* The serving goroutines close a gateway whose context is cancelled.
ServeEnds ==
    /\ cancelled /\ \E g \in gateways : gateways' = gateways \ {g}
    /\ UNCHANGED <<storeVars, applied, service, startVars, daemonVars, clientVars, hookVars,
                   configVars, hostFaults>>

Stopping == Quit \/ Cancel \/ HostStop \/ StopChecks \/ StopCalls \/ ServeEnds

\* "ended" and "panic": the process is over.
HostNext ==
    /\ phase \notin {"ended", "panic"}
    /\ Starting \/ HostStart \/ Restarting \/ Stopping

HostSpec == HostInit /\ [][HostNext]_hostVars

-----------------------------------------------------------------------------
(* Properties.                                                             *)

HostTypeOK ==
    /\ store \in Configs /\ applied \in Configs /\ changed \in BOOLEAN
    /\ gateways \subseteq Gateway /\ service \in Nat /\ started \in BOOLEAN
    /\ startPc \in [Starters -> {"idle", "stop", "prepare", "apply", "listen", "lookup", "save",
                                 "port", "assign"}]
    /\ read \in [Starters -> Configs \cup {None}] /\ got \in [Starters -> Gateway \cup {None}]
    /\ \A r \in Starters :
          /\ startPc[r] \in {"apply", "listen", "save"} => read[r] \in Configs
          /\ startPc[r] \in {"lookup", "save", "port", "assign"} => got[r] \in Gateway
    /\ made \in Nat
    /\ phase \in {"boot", "run", "stop", "call", "ended", "panic"}
    /\ done \in BOOLEAN /\ cancelled \in BOOLEAN
    /\ client \in {"rest", "apply"} /\ brought \in Configs \cup {None}
    /\ client = "apply" => brought \in Configs
    /\ updates \in 0..MaxUpdates
    /\ early \in BOOLEAN
    /\ spawned \in Nat /\ queued \in Nat
    /\ event \in BOOLEAN /\ config \in {"free", "compare", "queue", "restart"}
    /\ loaded \in Configs \cup {None} /\ renewals \in 0..MaxRenewals /\ hostFaults \in 0..MaxHostFaults

Quiet ==
    /\ phase = "run" /\ ~done
    /\ \A r \in Starters : At(r, "idle")
    /\ client = "rest" /\ spawned = 0 /\ queued = 0 /\ config = "free"

\* When nobody is at work, one gateway listens, the host knows it, and it and
\* the server's copy have the configuration that is in the store; unless an
\* operation has failed or an update came before the host's Start was over.
ServesConfig ==
    Quiet /\ hostFaults = 0 /\ ~early =>
        /\ applied = store
        /\ gateways = {[id |-> service, binding |-> store.binding, port |-> store.port]}

\* No gateway is leaked: one that listens is the registered one, or its start
\* is under way; unless an update came before the host's Start was over, or the
\* context is cancelled, which closes it.
NoLeak ==
    early \/ cancelled \/
        \A g \in gateways :
            \/ g.id = service
            \/ \E r \in Starters :
                  g = got[r] /\ startPc[r] \in {"lookup", "save", "port", "assign"}
=============================================================================
