---------------------------- MODULE PluginRuntime ----------------------------
(***************************************************************************)
(* The plugin service (internal/plugins/service.go) and the supervised     *)
(* JavaScript runtime it runs its plugins in (internal/jsruntime).  The    *)
(* runtime is a process; a supervisor starts another one when it ends, and *)
(* then a callback reloads the plugins.  Start, Reload and Shutdown take   *)
(* turns under reloadMu, which the supervisor and its callbacks' making do *)
(* not.  The host may shut the service down and start it again.            *)
(*                                                                         *)
(* One pipeline cleaner and one tool handler stand for the plugins.        *)
(***************************************************************************)
EXTENDS Integers, FiniteSets

CONSTANTS
    MaxProcesses,   \* bound: processes of the runtime
    MaxGenerations, \* bound: starts of the service
    MaxReloads,     \* bound: calls of ReloadPlugins
    MaxCrashes,     \* bound: processes that die or fall silent
    MaxPluginFaults, \* bound: other failures
    Attempts        \* attempts of reloadWithRetry

ASSUME PluginAssumption ==
    /\ {MaxProcesses, MaxGenerations, MaxReloads, MaxCrashes, MaxPluginFaults} \subseteq Nat
    /\ Attempts \in Nat \ {0}

VARIABLES
    process,    \* the state of each process
    born,       \* processes so far
    generation, \* supervised runtimes so far
    supervised, \* the service's supervisedRT, 0 for nil
    runtime,    \* the process of each supervised runtime, 0 for nil
    supervisor, \* where its supervisor is
    stops,      \* the supervised runtimes that are shut down
    registered, \* those with the service's callback
    plugins,    \* where the service is between Start and Shutdown
    holder,     \* who holds reloadMu
    step,       \* what the holder does
    using,      \* the process it has looked up
    attempt,    \* the callback's attempt it makes, 0 for ReloadPlugins
    callbacks,  \* callbacks that wait for each of their attempts
    index,      \* the plugins callers find
    skipped,    \* history: those whose last load has failed in a running process
    crashes,    \* processes that have died or fallen silent
    reloads,    \* calls of ReloadPlugins so far
    pluginFaults, \* other failures so far
    missed      \* history: the last restart reloads nothing

processVars == <<process, born>>
supervisedVars == <<generation, runtime, supervisor, stops>>
serviceVars == <<plugins, supervised, registered>>
loadVars == <<holder, step, using, attempt>>
boundVars == <<crashes, reloads, pluginFaults>>
pluginVars == <<processVars, supervisedVars, serviceVars, loadVars, boundVars, callbacks, index,
                skipped, missed>>

Processes == 1..MaxProcesses
Generations == 1..MaxGenerations
Kinds == {"cleaner", "handler"}
NoProcess == 0
Unknown == -1

PluginTypeOK ==
    /\ process \in [Processes -> {"none", "up", "deaf", "dead"}] /\ born \in 0..MaxProcesses
    /\ generation \in 0..MaxGenerations /\ supervised \in 0..MaxGenerations
    /\ runtime \in [Generations -> 0..MaxProcesses]
    /\ supervisor \in [Generations -> {"none", "watch", "backoff", "starting", "callback", "ended"}]
    /\ stops \subseteq Generations /\ registered \subseteq Generations
    /\ plugins \in {"down", "load", "register", "up", "bare", "failed", "stopping"}
    /\ holder \in {"none", "start", "reload"} /\ step \in Kinds \cup {"generate"}
    /\ using \in {Unknown} \cup (0..MaxProcesses) /\ attempt \in 0..Attempts
    /\ callbacks \in [1..Attempts -> Nat]
    /\ index \subseteq Kinds /\ skipped \subseteq Kinds /\ missed \in BOOLEAN
    /\ crashes \in 0..MaxCrashes /\ reloads \in 0..MaxReloads
    /\ pluginFaults \in 0..MaxPluginFaults

PluginInit ==
    /\ process = [p \in Processes |-> "none"] /\ born = 0
    /\ generation = 0 /\ supervised = 0
    /\ runtime = [g \in Generations |-> NoProcess]
    /\ supervisor = [g \in Generations |-> "none"]
    /\ stops = {} /\ registered = {}
    /\ plugins = "down"
    /\ holder = "none" /\ step = "cleaner" /\ using = Unknown /\ attempt = 0
    /\ callbacks = [n \in 1..Attempts |-> 0]
    /\ index = {} /\ skipped = {} /\ missed = FALSE
    /\ crashes = 0 /\ reloads = 0 /\ pluginFaults = 0

PluginFault ==
    /\ pluginFaults < MaxPluginFaults /\ pluginFaults' = pluginFaults + 1
    /\ UNCHANGED <<crashes, reloads>>

\* New: the process connects, and is the generation's runtime.
Born(g) ==
    /\ born < MaxProcesses /\ born' = born + 1
    /\ process' = [process EXCEPT ![born'] = "up"]
    /\ runtime' = [runtime EXCEPT ![g] = born']

-----------------------------------------------------------------------------
(* The process and its supervisor.                                         *)

\* waitProcess, upon the end of the process.
Crash ==
    /\ crashes < MaxCrashes /\ crashes' = crashes + 1
    /\ \E p \in Processes :
          process[p] \in {"up", "deaf"} /\ process' = [process EXCEPT ![p] = "dead"]
    /\ UNCHANGED <<born, supervisedVars, serviceVars, loadVars, callbacks, index, skipped,
                   missed, reloads, pluginFaults>>

\* readResponses ends upon a frame it cannot read: the process runs, and none
\* of its answers arrives.
Deafen ==
    /\ crashes < MaxCrashes /\ crashes' = crashes + 1
    /\ \E p \in Processes : process[p] = "up" /\ process' = [process EXCEPT ![p] = "deaf"]
    /\ UNCHANGED <<born, supervisedVars, serviceVars, loadVars, callbacks, index, skipped,
                   missed, reloads, pluginFaults>>

SupervisorAt(g, pc) == supervisor[g] = pc
SupervisorTo(g, pc) == supervisor' = [supervisor EXCEPT ![g] = pc]

Notice(g) ==
    /\ SupervisorAt(g, "watch") /\ g \notin stops /\ process[runtime[g]] = "dead"
    /\ SupervisorTo(g, "backoff")
    /\ UNCHANGED <<processVars, generation, runtime, stops, serviceVars, loadVars, boundVars,
                   callbacks, index, skipped, missed>>

Cease(g) ==
    /\ supervisor[g] \in {"watch", "backoff"} /\ g \in stops
    /\ SupervisorTo(g, "ended")
    /\ UNCHANGED <<processVars, generation, runtime, stops, serviceVars, loadVars, boundVars,
                   callbacks, index, skipped, missed>>

Awake(g) ==
    /\ SupervisorAt(g, "backoff") /\ g \notin stops
    /\ SupervisorTo(g, "starting")
    /\ UNCHANGED <<processVars, generation, runtime, stops, serviceVars, loadVars, boundVars,
                   callbacks, index, skipped, missed>>

\* startRuntime does not look whether the supervised runtime was shut down in
\* the meantime.
StartRuntime(g) ==
    /\ SupervisorAt(g, "starting")
    /\ \/ Born(g) /\ SupervisorTo(g, "callback") /\ UNCHANGED boundVars
       \/ PluginFault /\ SupervisorTo(g, "watch") /\ UNCHANGED <<processVars, runtime>>
    /\ UNCHANGED <<generation, stops, serviceVars, loadVars, callbacks, index, skipped, missed>>

\* A callback that leaves the work to the reload it finds under way.
CallBack_Joins(g) ==
    /\ SupervisorAt(g, "callback") /\ SupervisorTo(g, "watch")
    /\ callbacks' = IF g \in registered /\ holder # "reload" THEN [callbacks EXCEPT ![1] = @ + 1]
                                                            ELSE callbacks
    /\ missed' = (missed \/ g \notin registered)
    /\ UNCHANGED <<processVars, generation, runtime, stops, serviceVars, loadVars, boundVars,
                   index, skipped>>

\* A callback runs in a goroutine of its own.
CallBack(g) ==
    /\ SupervisorAt(g, "callback") /\ SupervisorTo(g, "watch")
    /\ callbacks' = IF g \in registered THEN [callbacks EXCEPT ![1] = @ + 1] ELSE callbacks
    /\ missed' = (missed \/ g \notin registered)
    /\ UNCHANGED <<processVars, generation, runtime, stops, serviceVars, loadVars, boundVars,
                   index, skipped>>

Supervise ==
    \E g \in Generations : Notice(g) \/ Cease(g) \/ Awake(g) \/ StartRuntime(g) \/ CallBack(g)

-----------------------------------------------------------------------------
(* Start and Reload, with reloadMu.                                        *)

\* The runtime starts before the lock is taken.  When it is not installed, the
\* service is up without plugins, and its callback goes to the runtime that a
\* start that has failed may have left.
StartPlugins ==
    /\ plugins \in {"down", "failed"} /\ generation < MaxGenerations
    /\ \/ /\ generation' = generation + 1 /\ Born(generation')
          /\ SupervisorTo(generation', "watch")
          /\ supervised' = generation' /\ plugins' = "load"
          /\ UNCHANGED <<boundVars, index, skipped, registered>>
       \/ /\ PluginFault /\ plugins' = "failed"
          /\ UNCHANGED <<processVars, generation, runtime, supervisor, supervised, index,
                         skipped, registered>>
       \/ /\ PluginFault /\ holder = "none" /\ plugins' = "bare" /\ index' = {} /\ skipped' = {}
          /\ registered' = registered \cup ({supervised} \ {0})
          /\ UNCHANGED <<processVars, generation, runtime, supervisor, supervised>>
    /\ UNCHANGED <<stops, loadVars, callbacks, missed>>

Begins(who, n) ==
    /\ holder = "none" /\ holder' = who /\ attempt' = n
    /\ step' = "cleaner" /\ using' = Unknown

BeginStart ==
    /\ plugins = "load" /\ Begins("start", 0)
    /\ UNCHANGED <<processVars, supervisedVars, serviceVars, boundVars, callbacks, index,
                   skipped, missed>>

BeginReload ==
    /\ \/ \E n \in 1..Attempts :
             /\ callbacks[n] > 0 /\ callbacks' = [callbacks EXCEPT ![n] = @ - 1]
             /\ Begins("reload", n) /\ UNCHANGED reloads
       \/ /\ reloads < MaxReloads /\ reloads' = reloads + 1
          /\ Begins("reload", 0) /\ UNCHANGED callbacks
    /\ missed' = FALSE
    /\ UNCHANGED <<processVars, supervisedVars, serviceVars, crashes, pluginFaults, index,
                   skipped>>

\* Service.runtime
Current == IF supervised = 0 THEN NoProcess ELSE runtime[supervised]

LookUp ==
    /\ holder # "none" /\ step \in Kinds /\ using = Unknown /\ using' = Current
    /\ UNCHANGED <<processVars, supervisedVars, serviceVars, holder, step, attempt, boundVars,
                   callbacks, index, skipped, missed>>

\* A plugin that fails to load is left out; without a runtime it is loaded
\* from its file.  A running process may fail to load it too: the context of
\* ReloadPlugins' caller ends, a cleaner takes longer than its limit, or the
\* process answers with an error.  Nothing will load it again then before the
\* next reload, whose index has it or not.
Loads == using # NoProcess => process[using] = "up"

\* A process that does not answer keeps a handler's load waiting, unless the
\* context is that of ReloadPlugins' caller.
Ends == process[using] = "deaf" => step = "cleaner" \/ (holder = "reload" /\ attempt = 0)

LoadKind ==
    /\ holder # "none" /\ step \in Kinds /\ using # Unknown
    /\ \/ /\ Loads /\ index' = index \cup {step} /\ skipped' = skipped \ {step}
          /\ UNCHANGED boundVars
       \/ /\ Loads /\ using # NoProcess /\ PluginFault
          /\ index' = index \ {step} /\ skipped' = skipped \cup {step}
       \/ /\ ~Loads /\ Ends
          /\ index' = index \ {step} /\ skipped' = skipped \ {step}
          /\ UNCHANGED boundVars
    /\ step' = IF step = "cleaner" THEN "handler" ELSE "generate"
    /\ using' = Unknown
    /\ UNCHANGED <<processVars, supervisedVars, serviceVars, holder, attempt, callbacks, missed>>

\* The index file may fail to be written: then Start fails, though its runtime
\* goes on, and a callback tries again.
Retried == [callbacks EXCEPT ![attempt + 1] = @ + 1]

Generate ==
    /\ holder # "none" /\ step = "generate"
    /\ holder' = "none" /\ step' = "cleaner" /\ attempt' = 0 /\ UNCHANGED using
    /\ \/ /\ plugins' = IF holder = "start" THEN "register" ELSE plugins
          /\ UNCHANGED <<boundVars, callbacks>>
       \/ /\ PluginFault
          /\ plugins' = IF holder = "start" THEN "failed" ELSE plugins
          /\ callbacks' = IF attempt \in 1..(Attempts - 1) THEN Retried ELSE callbacks
    /\ UNCHANGED <<processVars, supervisedVars, supervised, registered, index, skipped, missed>>

\* registerOnRestart, after the lock is released.
Register ==
    /\ plugins = "register" /\ plugins' = "up"
    /\ registered' = registered \cup ({supervised} \ {0})
    /\ UNCHANGED <<processVars, supervisedVars, supervised, loadVars, boundVars, callbacks,
                   index, skipped, missed>>

Loading ==
    StartPlugins \/ BeginStart \/ BeginReload \/ LookUp \/ LoadKind \/ Generate \/ Register

-----------------------------------------------------------------------------
(* Shutdown.                                                               *)

ShutPlugins ==
    /\ plugins \in {"up", "bare"} /\ holder = "none"
    /\ plugins' = "stopping" /\ index' = {} /\ skipped' = {}
    /\ UNCHANGED <<processVars, supervisedVars, supervised, registered, loadVars, boundVars,
                   callbacks, missed>>

\* SupervisedRuntime.Shutdown ends the process it finds.
ShutRuntime ==
    /\ plugins = "stopping" /\ plugins' = "down" /\ supervised' = 0
    /\ stops' = stops \cup ({supervised} \ {0})
    /\ runtime' = [g \in Generations |-> IF g = supervised THEN NoProcess ELSE runtime[g]]
    /\ process' = [p \in Processes |-> IF p = Current THEN "dead" ELSE process[p]]
    /\ UNCHANGED <<born, generation, supervisor, registered, loadVars, boundVars, callbacks,
                   index, skipped, missed>>

PluginNext ==
    Crash \/ Deafen \/ Supervise \/ Loading \/ ShutPlugins \/ ShutRuntime

PluginSpec == PluginInit /\ [][PluginNext]_pluginVars

-----------------------------------------------------------------------------
(* Properties.                                                             *)

\* When the service is up with its runtime running and no reload under way or
\* due, callers find every plugin, though loads from a process that has died,
\* or was about to, have removed them; but not one whose last load has failed
\* in a process that was running, and unless the supervisor restarted the
\* runtime before Start had registered the callback.
PluginsFound ==
    /\ plugins = "up" /\ supervised # 0
    /\ SupervisorAt(supervised, "watch") /\ process[Current] = "up"
    /\ holder = "none" /\ \A n \in 1..Attempts : callbacks[n] = 0
    /\ ~missed
    => index = Kinds \ skipped
=============================================================================
