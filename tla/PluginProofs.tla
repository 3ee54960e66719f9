---------------------------- MODULE PluginProofs ----------------------------
(***************************************************************************)
(* Proofs about the plugin service and its runtime, for any number of      *)
(* processes, starts, reloads and failures. The invariant says who makes   *)
(* sure that callers find the plugins of a process that runs: the reload   *)
(* under way, or a callback that is still to come.                         *)
(*                                                                         *)
(* Then the calls of one runtime, for any number of calls: PendingInv and  *)
(* SentInv say where a call and its answer are, and EndOrder who tells of  *)
(* the end of the process; with them the runtime implements RemoteCalls.   *)
(* And the commands that install and uninstall a plugin, for any number of *)
(* them: InstallInv says what a command that was never disturbed finds at  *)
(* each of its steps, so that they implement AtomicInstall.                *)
(***************************************************************************)
EXTENDS PluginRuntime, RuntimeCalls, PluginInstall, TLAPS

LEMMA ExceptType ==
    ASSUME NEW S, NEW T, NEW f \in [S -> T], NEW x \in S, NEW y \in T
    PROVE  /\ [f EXCEPT ![x] = y] \in [S -> T]
           /\ [f EXCEPT ![x] = y][x] = y
           /\ \A z \in S : z # x => [f EXCEPT ![x] = y][z] = f[z]
    OBVIOUS

LEMMA Bounds ==
    /\ MaxProcesses \in Nat /\ MaxGenerations \in Nat /\ MaxReloads \in Nat
    /\ MaxCrashes \in Nat /\ MaxPluginFaults \in Nat
    /\ Attempts \in Nat /\ 1 \in 1..Attempts
    BY PluginAssumption

-----------------------------------------------------------------------------
(* Types.                                                                  *)

ProcessTypes ==
    /\ process \in [Processes -> {"none", "up", "deaf", "dead"}] /\ born \in 0..MaxProcesses
    /\ generation \in 0..MaxGenerations /\ supervised \in 0..MaxGenerations
    /\ runtime \in [Generations -> 0..MaxProcesses]
    /\ stops \subseteq Generations /\ registered \subseteq Generations

SupervisorTypes ==
    supervisor \in [Generations -> {"none", "watch", "backoff", "starting", "callback", "ended"}]

LoadTypes ==
    /\ plugins \in {"down", "load", "register", "up", "bare", "failed", "stopping"}
    /\ holder \in {"none", "start", "reload"} /\ step \in Kinds \cup {"generate"}
    /\ using \in {Unknown} \cup (0..MaxProcesses)
    /\ index \subseteq Kinds /\ skipped \subseteq Kinds /\ missed \in BOOLEAN

BoundTypes ==
    /\ crashes \in 0..MaxCrashes /\ reloads \in 0..MaxReloads
    /\ pluginFaults \in 0..MaxPluginFaults

CallbackTypes == attempt \in 0..Attempts /\ callbacks \in [1..Attempts -> Nat]

CountTypes == BoundTypes /\ CallbackTypes

PluginTypeInv == ProcessTypes /\ SupervisorTypes /\ LoadTypes /\ CountTypes

LEMMA PluginTypes == PluginTypeInv <=> PluginTypeOK
    BY DEF PluginTypeInv, PluginTypeOK, ProcessTypes, SupervisorTypes, LoadTypes, CountTypes,
       BoundTypes, CallbackTypes

LEMMA PluginTypeInit == PluginInit => PluginTypeInv
<1>. SUFFICES ASSUME PluginInit PROVE PluginTypeInv
    OBVIOUS
<1>1. ProcessTypes
    BY Bounds DEF PluginInit, ProcessTypes, NoProcess
<1>2. SupervisorTypes /\ LoadTypes
    BY DEF PluginInit, SupervisorTypes, LoadTypes, Kinds
<1>3. CountTypes
    BY Bounds DEF PluginInit, CountTypes, BoundTypes, CallbackTypes
<1>. QED BY <1>1, <1>2, <1>3 DEF PluginTypeInv

LEMMA BornType ==
    ASSUME ProcessTypes, NEW g \in Generations, Born(g)
    PROVE  /\ born' = born + 1 /\ born' \in Processes
           /\ process' \in [Processes -> {"none", "up", "deaf", "dead"}]
           /\ process'[born'] = "up" /\ \A p \in Processes : p # born' => process'[p] = process[p]
           /\ runtime' \in [Generations -> 0..MaxProcesses] /\ runtime'[g] = born'
           /\ \A h \in Generations : h # g => runtime'[h] = runtime[h]
<1>1. born' = born + 1 /\ born' \in Processes /\ born' \in 0..MaxProcesses
    BY Bounds DEF Born, ProcessTypes, Processes
<1>. QED BY <1>1, ExceptType DEF Born, ProcessTypes

LEMMA ProcessStep ==
    ASSUME ProcessTypes, [PluginNext]_pluginVars
    PROVE  ProcessTypes'
<1> USE DEF processVars, supervisedVars, serviceVars
<1>0. {supervised} \ {0} \subseteq Generations
    BY Bounds DEF ProcessTypes, Generations
<1>1. CASE Crash
  <2>1. process' \in [Processes -> {"none", "up", "deaf", "dead"}]
    BY <1>1 DEF Crash, ProcessTypes
  <2>. QED BY <1>1, <2>1 DEF Crash, ProcessTypes
<1>2. CASE Deafen
  <2>1. process' \in [Processes -> {"none", "up", "deaf", "dead"}]
    BY <1>2 DEF Deafen, ProcessTypes
  <2>. QED BY <1>2, <2>1 DEF Deafen, ProcessTypes
<1>3. CASE Supervise
  <2>1. PICK g \in Generations : Notice(g) \/ Cease(g) \/ Awake(g) \/ StartRuntime(g) \/ CallBack(g)
    BY <1>3 DEF Supervise
  <2>2. CASE Notice(g) \/ Cease(g) \/ Awake(g) \/ CallBack(g)
    BY <2>2 DEF Notice, Cease, Awake, CallBack, ProcessTypes
  <2>3. CASE StartRuntime(g) /\ Born(g)
    BY <2>3, BornType, Bounds DEF StartRuntime, ProcessTypes, Processes
  <2>4. CASE StartRuntime(g) /\ UNCHANGED <<processVars, runtime>>
    BY <2>4 DEF StartRuntime, ProcessTypes
  <2>. QED BY <2>1, <2>2, <2>3, <2>4 DEF StartRuntime
<1>4. CASE StartPlugins
  <2>0. registered' \subseteq Generations /\ stops' = stops
    BY <1>0, <1>4 DEF StartPlugins, ProcessTypes
  <2>1. CASE generation' = generation + 1 /\ Born(generation') /\ supervised' = generation'
    <3>1. generation' \in Generations
      BY <1>4, <2>1, Bounds DEF StartPlugins, ProcessTypes, Generations
    <3>2. /\ process' \in [Processes -> {"none", "up", "deaf", "dead"}]
          /\ born' \in Processes /\ runtime' \in [Generations -> 0..MaxProcesses]
      BY <2>1, <3>1, BornType
    <3>3. born' \in 0..MaxProcesses /\ generation' \in 0..MaxGenerations
      BY <3>1, <3>2, Bounds DEF Processes, Generations
    <3>. QED BY <2>0, <2>1, <3>2, <3>3 DEF ProcessTypes
  <2>2. CASE UNCHANGED <<processVars, generation, runtime, supervised>>
    BY <2>0, <2>2 DEF ProcessTypes
  <2>. QED BY <1>4, <2>1, <2>2 DEF StartPlugins
<1>5. CASE BeginStart \/ BeginReload \/ LookUp \/ LoadKind \/ Generate
    BY <1>5 DEF BeginStart, BeginReload, LookUp, LoadKind, Generate, ProcessTypes
<1>6. CASE Register
    BY <1>0, <1>6 DEF Register, ProcessTypes
<1>7. CASE ShutPlugins
    BY <1>7 DEF ShutPlugins, ProcessTypes
<1>8. CASE ShutRuntime
  <2>1. /\ runtime' \in [Generations -> 0..MaxProcesses]
        /\ process' \in [Processes -> {"none", "up", "deaf", "dead"}]
    BY <1>8, Bounds DEF ShutRuntime, ProcessTypes, NoProcess
  <2>2. stops' \subseteq Generations
    BY <1>0, <1>8 DEF ShutRuntime, ProcessTypes
  <2>. QED BY <1>8, <2>1, <2>2, Bounds DEF ShutRuntime, ProcessTypes
<1>9. CASE UNCHANGED pluginVars
    BY <1>9 DEF pluginVars, ProcessTypes
<1>. QED BY <1>1, <1>2, <1>3, <1>4, <1>5, <1>6, <1>7, <1>8, <1>9 DEF PluginNext, Loading

LEMMA SupervisorStep ==
    ASSUME PluginTypeInv, [PluginNext]_pluginVars
    PROVE  SupervisorTypes'
<1>0. SupervisorTypes /\ ProcessTypes
    BY DEF PluginTypeInv
<1> USE DEF supervisedVars
<1>1. ASSUME NEW g \in Generations, NEW pc \in {"watch", "backoff", "starting", "callback", "ended"},
             SupervisorTo(g, pc)
      PROVE  SupervisorTypes'
    BY <1>0, <1>1 DEF SupervisorTo, SupervisorTypes
<1>2. CASE Supervise
  <2>1. PICK g \in Generations : Notice(g) \/ Cease(g) \/ Awake(g) \/ StartRuntime(g) \/ CallBack(g)
    BY <1>2 DEF Supervise
  <2>2. \E pc \in {"watch", "backoff", "starting", "callback", "ended"} : SupervisorTo(g, pc)
    BY <2>1 DEF Notice, Cease, Awake, StartRuntime, CallBack
  <2>. QED BY <1>1, <2>2
<1>3. CASE StartPlugins
  <2>1. CASE generation' = generation + 1 /\ SupervisorTo(generation', "watch")
    <3>1. generation' \in Generations
      BY <1>0, <1>3, <2>1, Bounds DEF StartPlugins, ProcessTypes, Generations
    <3>. QED BY <1>1, <2>1, <3>1
  <2>2. CASE UNCHANGED supervisor
    BY <1>0, <2>2 DEF SupervisorTypes
  <2>. QED BY <1>3, <2>1, <2>2 DEF StartPlugins
<1>4. CASE Crash \/ Deafen \/ ShutPlugins \/ ShutRuntime
    BY <1>0, <1>4 DEF Crash, Deafen, ShutPlugins, ShutRuntime, SupervisorTypes
<1>5. CASE BeginStart \/ BeginReload \/ LookUp \/ LoadKind \/ Generate \/ Register
    BY <1>0, <1>5 DEF BeginStart, BeginReload, LookUp, LoadKind, Generate, Register, SupervisorTypes
<1>6. CASE UNCHANGED pluginVars
    BY <1>0, <1>6 DEF pluginVars, SupervisorTypes
<1>. QED BY <1>2, <1>3, <1>4, <1>5, <1>6 DEF PluginNext, Loading

LEMMA LoadStep ==
    ASSUME PluginTypeInv, [PluginNext]_pluginVars
    PROVE  LoadTypes'
<1>0. LoadTypes
    BY DEF PluginTypeInv
<1> USE DEF LoadTypes, serviceVars, loadVars, Kinds
<1>1. CASE Supervise
  <2>1. PICK g \in Generations : Notice(g) \/ Cease(g) \/ Awake(g) \/ StartRuntime(g) \/ CallBack(g)
    BY <1>1 DEF Supervise
  <2>. QED BY <1>0, <2>1 DEF Notice, Cease, Awake, StartRuntime, CallBack
<1>2. CASE StartPlugins
    BY <1>0, <1>2 DEF StartPlugins
<1>3. CASE BeginStart \/ BeginReload
    BY <1>0, <1>3 DEF BeginStart, BeginReload, Begins
<1>4. CASE LookUp
  <2>1. Current \in 0..MaxProcesses
    BY Bounds DEF Current, NoProcess, PluginTypeInv, ProcessTypes, Generations
  <2>. QED BY <1>0, <1>4, <2>1 DEF LookUp
<1>5. CASE LoadKind
    BY <1>0, <1>5 DEF LoadKind
<1>6. CASE Generate
    BY <1>0, <1>6 DEF Generate
<1>7. CASE Register \/ ShutPlugins \/ ShutRuntime
    BY <1>0, <1>7 DEF Register, ShutPlugins, ShutRuntime
<1>8. CASE Crash \/ Deafen
    BY <1>0, <1>8 DEF Crash, Deafen
<1>9. CASE UNCHANGED pluginVars
    BY <1>0, <1>9 DEF pluginVars
<1>. QED BY <1>1, <1>2, <1>3, <1>4, <1>5, <1>6, <1>7, <1>8, <1>9 DEF PluginNext, Loading

LEMMA BoundStep ==
    ASSUME BoundTypes, [PluginNext]_pluginVars
    PROVE  BoundTypes'
<1>1. UNCHANGED boundVars => BoundTypes'
    BY DEF BoundTypes, boundVars
<1>2. PluginFault => BoundTypes'
    BY Bounds DEF BoundTypes, PluginFault
<1>3. ASSUME crashes < MaxCrashes, crashes' = crashes + 1, UNCHANGED <<reloads, pluginFaults>>
      PROVE  BoundTypes'
    BY <1>3, Bounds DEF BoundTypes
<1>4. ASSUME reloads < MaxReloads, reloads' = reloads + 1, UNCHANGED <<crashes, pluginFaults>>
      PROVE  BoundTypes'
    BY <1>4, Bounds DEF BoundTypes
<1>5. CASE Supervise
  <2>1. PICK g \in Generations : Notice(g) \/ Cease(g) \/ Awake(g) \/ StartRuntime(g) \/ CallBack(g)
    BY <1>5 DEF Supervise
  <2>. QED BY <1>1, <1>2, <2>1 DEF Notice, Cease, Awake, StartRuntime, CallBack
<1>6. CASE BeginReload
    BY <1>1, <1>4, <1>6 DEF BeginReload, boundVars
<1>7. CASE StartPlugins \/ BeginStart \/ LookUp \/ LoadKind \/ Generate \/ Register
    BY <1>1, <1>2, <1>7 DEF StartPlugins, BeginStart, LookUp, LoadKind, Generate, Register
<1>8. CASE ShutPlugins \/ ShutRuntime \/ UNCHANGED pluginVars
    BY <1>1, <1>8 DEF ShutPlugins, ShutRuntime, pluginVars
<1>9. CASE Crash \/ Deafen
    BY <1>3, <1>9 DEF Crash, Deafen
<1>. QED BY <1>5, <1>6, <1>7, <1>8, <1>9 DEF PluginNext, Loading

LEMMA CallbackStep ==
    ASSUME CallbackTypes, [PluginNext]_pluginVars
    PROVE  CallbackTypes'
<1>0. Attempts \in Nat /\ 1 \in 1..Attempts
    BY Bounds
<1>1. UNCHANGED <<attempt, callbacks>> => CallbackTypes'
    BY DEF CallbackTypes
<1>2. UNCHANGED loadVars => UNCHANGED attempt
    BY DEF loadVars
<1>3. CASE Supervise
  <2>1. PICK g \in Generations : Notice(g) \/ Cease(g) \/ Awake(g) \/ StartRuntime(g) \/ CallBack(g)
    BY <1>3 DEF Supervise
  <2>2. CASE CallBack(g)
    <3>1. callbacks[1] + 1 \in Nat
      BY <1>0 DEF CallbackTypes
    <3>2. callbacks' = [callbacks EXCEPT ![1] = callbacks[1] + 1] \/ UNCHANGED callbacks
      BY <2>2 DEF CallBack
    <3>. QED BY <1>0, <1>2, <2>2, <3>1, <3>2 DEF CallBack, CallbackTypes
  <2>3. CASE Notice(g) \/ Cease(g) \/ Awake(g) \/ StartRuntime(g)
    BY <1>1, <1>2, <2>3 DEF Notice, Cease, Awake, StartRuntime
  <2>. QED BY <2>1, <2>2, <2>3
<1>4. CASE StartPlugins \/ LookUp \/ LoadKind \/ Register
    BY <1>1, <1>2, <1>4 DEF StartPlugins, LookUp, LoadKind, Register
<1>5. CASE BeginStart
    BY <1>0, <1>5 DEF BeginStart, Begins, CallbackTypes
<1>6. CASE BeginReload
  <2>1. CASE Begins("reload", 0) /\ UNCHANGED callbacks
    BY <1>0, <2>1 DEF Begins, CallbackTypes
  <2>2. ASSUME NEW n \in 1..Attempts, callbacks[n] > 0, callbacks' = [callbacks EXCEPT ![n] = @ - 1],
               Begins("reload", n)
        PROVE  CallbackTypes'
    <3>1. callbacks[n] - 1 \in Nat
      BY <2>2 DEF CallbackTypes
    <3>. QED BY <1>0, <2>2, <3>1 DEF Begins, CallbackTypes
  <2>. QED BY <1>6, <2>1, <2>2 DEF BeginReload
<1>7. CASE Generate
  <2>1. attempt \in 1..(Attempts - 1) => Retried \in [1..Attempts -> Nat]
    BY <1>0 DEF Retried, CallbackTypes
  <2>. QED BY <1>0, <1>7, <2>1 DEF Generate, CallbackTypes
<1>8. CASE Crash \/ Deafen \/ ShutPlugins \/ ShutRuntime
    BY <1>1, <1>2, <1>8 DEF Crash, Deafen, ShutPlugins, ShutRuntime
<1>9. CASE UNCHANGED pluginVars
    BY <1>1, <1>9 DEF pluginVars, loadVars
<1>. QED BY <1>3, <1>4, <1>5, <1>6, <1>7, <1>8, <1>9 DEF PluginNext, Loading

LEMMA PluginTypeStep ==
    ASSUME PluginTypeInv, [PluginNext]_pluginVars
    PROVE  PluginTypeInv'
    BY ProcessStep, SupervisorStep, LoadStep, BoundStep, CallbackStep
       DEF PluginTypeInv, CountTypes

\* The variables of the plugin service and its runtime have their types.
THEOREM PluginTypeCorrect == PluginSpec => []PluginTypeOK
<1>1. PluginTypeInv => PluginTypeOK
    BY PluginTypes
<1>. QED BY <1>1, PluginTypeInit, PluginTypeStep, PTL DEF PluginSpec

-----------------------------------------------------------------------------
(* Who will load the plugins.                                              *)

\* A process that is not born is nobody's, and the service's runtime has one.
OwnerInv ==
    /\ \A p \in Processes : p > born => process[p] = "none"
    /\ \A g \in Generations : runtime[g] <= born
    /\ supervised # 0 => Current # 0

\* Start has the lock only while it loads.
LockInv == holder = "start" => plugins = "load"

\* Start's loading, and all that comes after it until Shutdown.
Concerned == holder = "start" \/ plugins \in {"register", "up"}

\* A kind that callers find, or whose load from a running process has failed.
Settled(kind) == kind \in index <=> kind \notin skipped

\* The holder of the lock will have every kind settled by process p.
Restores(p) ==
    \/ step = "cleaner" /\ using \in {Unknown, p}
    \/ step = "handler" /\ using \in {Unknown, p} /\ Settled("cleaner")
    \/ step = "generate" /\ index = Kinds \ skipped

Awaited(g) ==
    \/ SupervisorAt(g, "callback")
    \/ \E n \in 1..Attempts : callbacks[n] > 0
    \/ missed
    \/ holder = "none" /\ index = Kinds \ skipped
    \/ holder # "none" /\ Restores(runtime[g])

PluginInv ==
    Concerned /\ supervised # 0 /\ process[Current] = "up" => Awaited(supervised)

LEMMA AwaitInit == PluginInit => OwnerInv /\ LockInv /\ PluginInv
<1>. SUFFICES ASSUME PluginInit PROVE OwnerInv /\ LockInv /\ PluginInv
    OBVIOUS
<1>1. OwnerInv
    BY DEF PluginInit, OwnerInv, NoProcess
<1>. QED BY <1>1 DEF PluginInit, LockInv, PluginInv, Concerned

\* The service's runtime is one of the supervised ones.
LEMMA SupervisedOne ==
    ASSUME PluginTypeInv, supervised # 0
    PROVE  supervised \in Generations /\ Current = runtime[supervised]
    BY Bounds DEF PluginTypeInv, ProcessTypes, Generations, Current

LEMMA LockStep ==
    ASSUME LockInv, [PluginNext]_pluginVars
    PROVE  LockInv'
<1> USE DEF LockInv, serviceVars, loadVars
<1>1. CASE Supervise
  <2>1. PICK g \in Generations : Notice(g) \/ Cease(g) \/ Awake(g) \/ StartRuntime(g) \/ CallBack(g)
    BY <1>1 DEF Supervise
  <2>. QED BY <2>1 DEF Notice, Cease, Awake, StartRuntime, CallBack
<1>2. CASE Crash \/ Deafen \/ StartPlugins
    BY <1>2 DEF Crash, Deafen, StartPlugins
<1>3. CASE BeginStart \/ BeginReload \/ LookUp \/ LoadKind
    BY <1>3 DEF BeginStart, BeginReload, Begins, LookUp, LoadKind
<1>4. CASE Generate \/ Register \/ ShutPlugins \/ ShutRuntime
    BY <1>4 DEF Generate, Register, ShutPlugins, ShutRuntime
<1>5. CASE UNCHANGED pluginVars
    BY <1>5 DEF pluginVars
<1>. QED BY <1>1, <1>2, <1>3, <1>4, <1>5 DEF PluginNext, Loading

LEMMA BornOwner ==
    ASSUME PluginTypeInv, OwnerInv, NEW g \in Generations, Born(g)
    PROVE  /\ \A p \in Processes : p > born' => process'[p] = "none"
           /\ \A h \in Generations : runtime'[h] <= born'
<1>0. ProcessTypes /\ born \in Nat
    BY Bounds DEF PluginTypeInv, ProcessTypes
<1>1. \A h \in Generations : runtime[h] \in Nat
    BY <1>0, Bounds DEF ProcessTypes
<1>2. \A p \in Processes : p \in Nat
    BY DEF Processes
<1>. QED BY <1>0, <1>1, <1>2, BornType DEF OwnerInv

LEMMA OwnerStep ==
    ASSUME PluginTypeInv, OwnerInv, [PluginNext]_pluginVars
    PROVE  OwnerInv'
<1> USE DEF processVars, supervisedVars, serviceVars
<1>0. ProcessTypes /\ born \in Nat
    BY Bounds DEF PluginTypeInv, ProcessTypes
<1>1. CASE Crash \/ Deafen
  <2>1. PICK p \in Processes, s \in {"deaf", "dead"} :
           process[p] \in {"up", "deaf"} /\ process' = [process EXCEPT ![p] = s]
    BY <1>1 DEF Crash, Deafen
  <2>2. UNCHANGED <<born, runtime, supervised>>
    BY <1>1 DEF Crash, Deafen
  <2>3. ~(p > born)
    BY <2>1 DEF OwnerInv
  <2>. QED BY <1>0, <2>1, <2>2, <2>3 DEF OwnerInv, Current, ProcessTypes
<1>2. CASE Supervise
  <2>1. PICK g \in Generations : Notice(g) \/ Cease(g) \/ Awake(g) \/ StartRuntime(g) \/ CallBack(g)
    BY <1>2 DEF Supervise
  <2>2. CASE UNCHANGED <<process, born, runtime, supervised>>
    BY <2>2 DEF OwnerInv, Current
  <2>3. CASE StartRuntime(g) /\ Born(g)
    <3>1. supervised' = supervised /\ runtime'[g] # 0
      BY <1>0, <2>3, BornType DEF StartRuntime, Processes
    <3>2. \A h \in Generations : h # g => runtime'[h] = runtime[h]
      BY <1>0, <2>3, BornType
    <3>3. supervised # 0 => Current' # 0
      BY <3>1, <3>2, SupervisedOne DEF OwnerInv, Current
    <3>. QED BY <2>3, <3>1, <3>3, BornOwner DEF OwnerInv
  <2>. QED BY <2>1, <2>2, <2>3 DEF Notice, Cease, Awake, StartRuntime, CallBack
<1>3. CASE StartPlugins
  <2>1. CASE generation' = generation + 1 /\ Born(generation') /\ supervised' = generation'
    <3>1. generation' \in Generations /\ supervised' # 0
      BY <1>0, <1>3, <2>1, Bounds DEF StartPlugins, ProcessTypes, Generations
    <3>2. Current' # 0
      BY <1>0, <2>1, <3>1, BornType DEF Current, Processes
    <3>. QED BY <2>1, <3>1, <3>2, BornOwner DEF OwnerInv
  <2>2. CASE UNCHANGED <<processVars, runtime, supervised>>
    BY <2>2 DEF OwnerInv, Current
  <2>. QED BY <1>3, <2>1, <2>2 DEF StartPlugins
<1>4. CASE BeginStart \/ BeginReload \/ LookUp \/ LoadKind
    BY <1>4 DEF BeginStart, BeginReload, LookUp, LoadKind, OwnerInv, Current
<1>5. CASE Generate \/ Register \/ ShutPlugins
    BY <1>5 DEF Generate, Register, ShutPlugins, OwnerInv, Current
<1>6. CASE ShutRuntime
  <2>1. Current = 0 \/ Current <= born
    BY SupervisedOne DEF OwnerInv, Current, NoProcess
  <2>2. \A p \in Processes : p > born => process'[p] = "none"
    BY <1>0, <1>6, <2>1 DEF ShutRuntime, OwnerInv, Processes
  <2>3. \A h \in Generations : runtime'[h] <= born
    BY <1>0, <1>6 DEF ShutRuntime, OwnerInv, NoProcess
  <2>. QED BY <1>6, <2>2, <2>3 DEF ShutRuntime, OwnerInv
<1>7. CASE UNCHANGED pluginVars
    BY <1>7 DEF pluginVars, OwnerInv, Current
<1>. QED BY <1>1, <1>2, <1>3, <1>4, <1>5, <1>6, <1>7 DEF PluginNext, Loading

\* A step of the process or its supervisor leaves the lock's holder and the
\* indexes alone.
LEMMA AwaitStutter ==
    ASSUME PluginInv, UNCHANGED <<loadVars, index, skipped, plugins, supervised>>, supervised # 0,
           Current' = Current, process'[Current'] = "up" => process[Current] = "up",
           runtime'[supervised] = runtime[supervised],
           SupervisorAt(supervised, "callback") =>
              SupervisorAt(supervised, "callback")' \/ missed' \/ \E n \in 1..Attempts : callbacks'[n] > 0,
           missed => missed',
           \A n \in 1..Attempts : callbacks[n] > 0 => callbacks'[n] > 0
    PROVE  PluginInv'
<1>. SUFFICES ASSUME Concerned', process'[Current'] = "up" PROVE Awaited(supervised)'
    BY DEF PluginInv
<1>1. Awaited(supervised)
    BY DEF PluginInv, Concerned, loadVars
<1>. QED BY <1>1 DEF Awaited, Restores, Settled, loadVars

LEMMA AwaitStep ==
    ASSUME PluginTypeInv, OwnerInv, LockInv, PluginInv, [PluginNext]_pluginVars
    PROVE  PluginInv'
<1>. SUFFICES ASSUME Concerned', supervised' # 0, process'[Current'] = "up"
              PROVE  Awaited(supervised)'
    BY DEF PluginInv
<1>0. /\ ProcessTypes /\ born \in Nat
      /\ supervisor \in [Generations -> {"none", "watch", "backoff", "starting", "callback", "ended"}]
      /\ callbacks \in [1..Attempts -> Nat] /\ 1 \in 1..Attempts
      /\ index \subseteq Kinds /\ skipped \subseteq Kinds
      /\ using \in Int /\ step \in Kinds \cup {"generate"}
  <2>1. supervisor \in [Generations -> {"none", "watch", "backoff", "starting", "callback", "ended"}]
    BY DEF PluginTypeInv, SupervisorTypes
  <2>2. using \in Int
    BY Bounds DEF PluginTypeInv, LoadTypes, Unknown
  <2>. QED BY <2>1, <2>2, Bounds DEF PluginTypeInv, ProcessTypes, CountTypes, CallbackTypes,
                                           LoadTypes
<1> USE DEF processVars, supervisedVars, serviceVars, loadVars
<1>1. CASE Crash \/ Deafen
  <2>1. UNCHANGED <<supervisedVars, serviceVars, loadVars, callbacks, index, skipped, missed>>
    BY <1>1 DEF Crash, Deafen
  <2>2. supervised \in Generations /\ Current = runtime[supervised] /\ Current' = Current /\ Current # 0
    BY <2>1, SupervisedOne DEF Current, OwnerInv
  <2>3. PICK p \in Processes, s \in {"deaf", "dead"} : process' = [process EXCEPT ![p] = s]
    BY <1>1 DEF Crash, Deafen
  <2>4. Current \in Processes
    BY <1>0, <2>2, Bounds DEF ProcessTypes, Processes
  <2>5. process[Current] = "up"
    BY <1>0, <2>2, <2>3, <2>4 DEF ProcessTypes
  <2>6. Awaited(supervised)
    BY <2>1, <2>5 DEF PluginInv, Concerned
  <2>. QED BY <2>1, <2>6 DEF Awaited, Restores, Settled, SupervisorAt
<1>2. CASE Supervise
  <2>0. PICK h \in Generations : Notice(h) \/ Cease(h) \/ Awake(h) \/ StartRuntime(h) \/ CallBack(h)
    BY <1>2 DEF Supervise
  <2>1. UNCHANGED <<serviceVars, loadVars, index, skipped>> /\ supervised \in Generations /\ supervised # 0
    BY <2>0, SupervisedOne DEF Notice, Cease, Awake, StartRuntime, CallBack
  <2>2. CASE Notice(h) \/ Cease(h) \/ Awake(h)
    <3>1. UNCHANGED <<processVars, runtime, callbacks, missed>> /\ Current' = Current
      BY <2>1, <2>2 DEF Notice, Cease, Awake, Current
    <3>2. ~SupervisorAt(h, "callback") /\ \A g \in Generations : g # h => supervisor'[g] = supervisor[g]
      BY <1>0, <2>2 DEF Notice, Cease, Awake, SupervisorAt, SupervisorTo
    <3>3. SupervisorAt(supervised, "callback") => SupervisorAt(supervised, "callback")'
      BY <2>1, <3>2 DEF SupervisorAt
    <3>4. PluginInv'
      BY <2>1, <3>1, <3>3, AwaitStutter
    <3>. QED BY <3>4 DEF PluginInv
  <2>3. CASE StartRuntime(h) /\ Born(h)
    <3>1. UNCHANGED <<callbacks, missed>> /\ SupervisorTo(h, "callback")
      BY <2>3 DEF StartRuntime, Born
    <3>2. CASE h = supervised
      <4>1. SupervisorAt(supervised, "callback")'
        BY <1>0, <2>1, <3>1, <3>2 DEF SupervisorAt, SupervisorTo
      <4>. QED BY <4>1 DEF Awaited
    <3>3. CASE h # supervised
      <4>1. runtime'[supervised] = runtime[supervised] /\ Current' = Current
        BY <1>0, <2>1, <2>3, <3>3, BornType DEF Current
      <4>2. Current \in Processes /\ Current # born'
        BY <1>0, <2>1, <2>3, SupervisedOne, Bounds DEF OwnerInv, ProcessTypes, Processes, Born
      <4>3. process'[Current] = process[Current]
        BY <1>0, <2>3, <4>2, BornType
      <4>4. SupervisorAt(supervised, "callback") => SupervisorAt(supervised, "callback")'
        BY <1>0, <2>1, <3>1, <3>3 DEF SupervisorAt, SupervisorTo
      <4>5. PluginInv'
        BY <2>1, <3>1, <4>1, <4>3, <4>4, AwaitStutter
      <4>. QED BY <4>5 DEF PluginInv
    <3>. QED BY <3>2, <3>3
  <2>4. CASE StartRuntime(h) /\ UNCHANGED <<processVars, runtime>>
    <3>1. SupervisorTo(h, "watch") /\ UNCHANGED <<callbacks, missed>> /\ Current' = Current
          /\ SupervisorAt(h, "starting")
      <4>1. born' # born + 1
        BY <1>0, <2>4
      <4>. QED BY <2>1, <2>4, <4>1 DEF StartRuntime, Born, Current
    <3>2. SupervisorAt(supervised, "callback") => SupervisorAt(supervised, "callback")'
      BY <1>0, <2>1, <3>1 DEF SupervisorAt, SupervisorTo
    <3>3. PluginInv'
      BY <2>1, <2>4, <3>1, <3>2, AwaitStutter
    <3>. QED BY <3>3 DEF PluginInv
  <2>5. CASE CallBack(h)
    <3>1. UNCHANGED <<processVars, runtime>> /\ Current' = Current
      BY <2>1, <2>5 DEF CallBack, Current
    <3>2. ASSUME h \in registered PROVE callbacks'[1] > 0
      <4>1. callbacks[1] + 1 \in Nat /\ callbacks[1] + 1 > 0
        BY <1>0
      <4>2. callbacks' = [callbacks EXCEPT ![1] = callbacks[1] + 1]
        BY <2>5, <3>2 DEF CallBack
      <4>. QED BY <1>0, <4>1, <4>2
    <3>3. missed' \/ callbacks'[1] > 0
      BY <2>5, <3>2 DEF CallBack
    <3>. QED BY <1>0, <3>3 DEF Awaited
  <2>. QED BY <2>0, <2>2, <2>3, <2>4, <2>5 DEF StartRuntime
<1>3. CASE StartPlugins
  <2>1. holder' # "start" /\ plugins' \notin {"register", "up"}
    BY <1>3 DEF StartPlugins, LockInv
  <2>. QED BY <2>1 DEF Concerned
<1>4. CASE BeginStart \/ BeginReload
    BY <1>4 DEF BeginStart, BeginReload, Begins, Awaited, Restores
<1>5. ASSUME UNCHANGED <<process, runtime, supervisor, supervised, missed>>, Concerned,
             \A n \in 1..Attempts : callbacks[n] > 0 => callbacks'[n] > 0
      PROVE  /\ supervised # 0 /\ process[Current] = "up" /\ Current = runtime[supervised]
             /\ Current # 0 /\ Current \in Int
             /\ \/ Awaited(supervised)'
                \/ holder = "none" /\ index = Kinds \ skipped
                \/ holder # "none" /\ Restores(Current)
  <2>1. supervised # 0 /\ process[Current] = "up" /\ supervised \in Generations
        /\ Current = runtime[supervised] /\ Current # 0
    BY <1>5, SupervisedOne DEF Current, OwnerInv
  <2>2. Awaited(supervised) /\ Current \in Int
    BY <1>0, <1>5, <2>1, Bounds DEF PluginInv, ProcessTypes
  <2>. QED BY <1>5, <2>1, <2>2 DEF Awaited, SupervisorAt
<1>6. CASE LookUp
  <2>1. Concerned /\ UNCHANGED <<process, runtime, supervisor, supervised, missed, callbacks>>
    BY <1>6 DEF LookUp, Concerned
  <2>2. UNCHANGED <<holder, step, index, skipped>> /\ using = Unknown /\ using' = Current /\ step \in Kinds
        /\ runtime'[supervised'] = runtime[supervised] /\ holder # "none"
    BY <1>6 DEF LookUp
  <2>. QED BY <1>5, <2>1, <2>2 DEF Awaited, Restores, Settled, Kinds
<1>7. CASE LoadKind
  <2>1. Concerned /\ UNCHANGED <<process, runtime, supervisor, supervised, missed, callbacks>>
    BY <1>7 DEF LoadKind, Concerned
  <2>2. UNCHANGED holder /\ using # Unknown /\ using' = Unknown /\ step \in Kinds /\ holder # "none"
        /\ step' = (IF step = "cleaner" THEN "handler" ELSE "generate")
    BY <1>7 DEF LoadKind
  <2>3. CASE Restores(Current)
    <3>1. using = Current /\ step \in Kinds /\ (step = "handler" => Settled("cleaner"))
      BY <2>2, <2>3 DEF Restores, Kinds
    <3>2. Loads
      BY <1>5, <2>1, <3>1 DEF Loads
    <3>4. \/ index' = index \cup {step} /\ skipped' = skipped \ {step}
          \/ index' = index \ {step} /\ skipped' = skipped \cup {step}
      BY <1>7, <3>2 DEF LoadKind
    <3>5. step \in index' <=> step \notin skipped'
      BY <3>4
    <3>6. ASSUME step = "cleaner" PROVE Restores(runtime[supervised])'
      <4>1. Settled("cleaner")'
        BY <3>5, <3>6 DEF Settled
      <4>. QED BY <2>2, <3>6, <4>1 DEF Restores
    <3>7. ASSUME step = "handler" PROVE Restores(runtime[supervised])'
      <4>1. index' \subseteq Kinds /\ skipped' \subseteq Kinds
        BY <1>0, <3>4, <3>1
      <4>2. Settled("cleaner")' /\ Settled("handler")'
        BY <2>2, <3>1, <3>4, <3>5, <3>7 DEF Settled
      <4>3. index' = Kinds \ skipped'
        BY <4>1, <4>2 DEF Settled, Kinds
      <4>. QED BY <2>2, <3>7, <4>3 DEF Restores
    <3>3. Restores(runtime[supervised])'
      BY <3>1, <3>6, <3>7 DEF Kinds
    <3>. QED BY <2>2, <3>3 DEF Awaited, Restores
  <2>. QED BY <1>5, <2>1, <2>2, <2>3
<1>8. CASE Generate
  <2>1. attempt \in 1..(Attempts - 1) =>
           \A n \in 1..Attempts : callbacks[n] > 0 => Retried[n] > 0
    BY <1>0 DEF Retried
  <2>2. \A n \in 1..Attempts : callbacks[n] > 0 => callbacks'[n] > 0
    BY <1>8, <2>1 DEF Generate
  <2>3. UNCHANGED <<process, runtime, supervisor, supervised, missed, index, skipped>> /\ holder' = "none"
        /\ holder # "none" /\ step = "generate"
    BY <1>8 DEF Generate
  <2>4. Concerned
    BY <1>8 DEF Generate, Concerned
  <2>5. Awaited(supervised)' \/ index = Kinds \ skipped
    BY <1>5, <2>2, <2>3, <2>4 DEF Restores
  <2>. QED BY <2>3, <2>5 DEF Awaited
<1>9. CASE Register
  <2>1. Concerned /\ UNCHANGED <<process, runtime, supervisor, supervised, missed, callbacks>>
    BY <1>9 DEF Register, Concerned
  <2>2. UNCHANGED <<holder, step, using, index, skipped>>
    BY <1>9 DEF Register
  <2>3. Awaited(supervised)
    BY <1>5, <2>1, <2>2 DEF PluginInv
  <2>. QED BY <2>1, <2>2, <2>3 DEF Awaited, Restores, Settled, SupervisorAt
<1>10. CASE ShutPlugins \/ ShutRuntime
    BY <1>10 DEF ShutPlugins, ShutRuntime, Concerned
<1>11. CASE UNCHANGED pluginVars
  <2>1. Concerned /\ UNCHANGED <<process, runtime, supervisor, supervised, missed, callbacks>>
    BY <1>11 DEF pluginVars, Concerned
  <2>2. UNCHANGED <<holder, step, using, index, skipped>>
    BY <1>11 DEF pluginVars
  <2>3. Awaited(supervised)
    BY <1>5, <2>1, <2>2 DEF PluginInv
  <2>. QED BY <2>1, <2>2, <2>3 DEF Awaited, Restores, Settled, SupervisorAt
<1>. QED BY <1>1, <1>2, <1>3, <1>4, <1>6, <1>7, <1>8, <1>9, <1>10, <1>11 DEF PluginNext, Loading

LEMMA AwaitFinds ==
    ASSUME PluginTypeInv, PluginInv
    PROVE  PluginsFound
<1>. SUFFICES ASSUME plugins = "up", supervised # 0, SupervisorAt(supervised, "watch"),
                     process[Current] = "up", holder = "none",
                     \A n \in 1..Attempts : callbacks[n] = 0, ~missed
              PROVE  index = Kinds \ skipped
    BY DEF PluginsFound
<1>. QED BY DEF PluginInv, Concerned, Awaited, SupervisorAt

\* When the service is up, its runtime runs and no reload is under way or due,
\* callers find every plugin but those whose last load a running process has
\* failed, though loads from processes that died have removed them: each restart
\* is followed by a load that reads the new process.
THEOREM PluginsAreFound == PluginSpec => []PluginsFound
<1>. DEFINE Inv == PluginTypeInv /\ OwnerInv /\ LockInv /\ PluginInv
<1>1. PluginInit => Inv
    BY PluginTypeInit, AwaitInit
<1>2. Inv /\ [PluginNext]_pluginVars => Inv'
    BY PluginTypeStep, OwnerStep, LockStep, AwaitStep
<1>3. Inv => PluginsFound
    BY AwaitFinds
<1>. QED BY <1>1, <1>2, <1>3, PTL DEF PluginSpec

-----------------------------------------------------------------------------
(* The calls of a runtime.                                                 *)

CallPlaces == {"idle", "lock", "write", "wait", "leave", "end"}

LEMMA CallStep ==
  ASSUME call \in [Calls -> CallPlaces], NEW c \in Calls, NEW next \in CallPlaces, CallTo(c, next)
  PROVE  /\ call' \in [Calls -> CallPlaces] /\ call'[c] = next
         /\ \A d \in Calls : d # c => call'[d] = call[d]
BY DEF CallTo

LEMMA QueueSteps ==
  ASSUME NEW q \in Seq(Calls)
  PROVE  /\ \A c \in Calls : Append(q, c) \in Seq(Calls) /\ Within(Append(q, c)) = Within(q) \cup {c}
         /\ q # <<>> => /\ Head(q) \in Calls /\ Tail(q) \in Seq(Calls)
                        /\ Within(q) = {Head(q)} \cup Within(Tail(q))
         /\ Within(q) \subseteq Calls
<1>1. ASSUME NEW c \in Calls PROVE Append(q, c) \in Seq(Calls) /\ Within(Append(q, c)) = Within(q) \cup {c}
  <2>1. /\ Append(q, c) \in Seq(Calls) /\ Len(Append(q, c)) = Len(q) + 1
        /\ \A i \in 1..Len(q) : Append(q, c)[i] = q[i]
        /\ Append(q, c)[Len(q) + 1] = c
    OBVIOUS
  <2>2. DOMAIN q = 1..Len(q) /\ DOMAIN Append(q, c) = 1..(Len(q) + 1) /\ Len(q) \in Nat
    BY <2>1
  <2>3. \A i : i \in 1..(Len(q) + 1) <=> i \in 1..Len(q) \/ i = Len(q) + 1
    BY <2>2
  <2> QED BY <2>1, <2>2, <2>3 DEF Within
<1>2. ASSUME q # <<>> PROVE /\ Head(q) \in Calls /\ Tail(q) \in Seq(Calls)
                            /\ Within(q) = {Head(q)} \cup Within(Tail(q))
  <2>1. /\ Head(q) = q[1] /\ Tail(q) \in Seq(Calls) /\ Len(Tail(q)) = Len(q) - 1 /\ Len(q) \in Nat \ {0}
        /\ \A i \in 1..(Len(q) - 1) : Tail(q)[i] = q[i + 1]
    BY <1>2
  <2>2. DOMAIN q = 1..Len(q) /\ DOMAIN Tail(q) = 1..(Len(q) - 1)
    BY <2>1
  <2>3. \A i \in 1..Len(q) : i = 1 \/ (i - 1 \in 1..(Len(q) - 1) /\ (i - 1) + 1 = i)
    BY <2>1
  <2>4. \A i \in 1..(Len(q) - 1) : i + 1 \in 1..Len(q)
    BY <2>1
  <2>5. ASSUME NEW x \in Within(q) PROVE x = Head(q) \/ x \in Within(Tail(q))
    <3>1. PICK j \in DOMAIN q : x = q[j]
      BY <2>5 DEF Within
    <3>2. j = 1 \/ \E i \in DOMAIN Tail(q) : x = Tail(q)[i]
      BY <2>1, <2>2, <2>3, <3>1
    <3> QED BY <2>1, <3>1, <3>2 DEF Within
  <2>6. ASSUME NEW x \in Within(Tail(q)) PROVE x \in Within(q)
    <3>1. \E i \in DOMAIN Tail(q) : x = Tail(q)[i]
      BY <2>6 DEF Within
    <3>2. \E j \in DOMAIN q : x = q[j]
      BY <2>1, <2>2, <2>4, <3>1
    <3> QED BY <3>2 DEF Within
  <2>7. Head(q) \in Within(q) /\ Head(q) \in Calls
    BY <2>1, <2>2 DEF Within
  <2> QED BY <2>1, <2>5, <2>6, <2>7
<1>3. \A i \in DOMAIN q : q[i] \in Calls
  OBVIOUS
<1> QED BY <1>1, <1>2, <1>3 DEF Within

LEMMA EmptyQueue == Within(<<>>) = {} /\ <<>> \in Seq(Calls) /\ Len(<<>>) <= SocketSize
BY CallsAssumption DEF Within

-----------------------------------------------------------------------------
CallData ==
    /\ bun \in {"up", "hung", "down"} /\ connection \in {"open", "closed"}
    /\ requested \in Seq(Calls) /\ working \in Seq(Calls) /\ frames \in Seq(Calls)
    /\ Len(requested) <= SocketSize
    /\ awaiting \subseteq Calls /\ respCh \subseteq Calls
    /\ call \in [Calls -> CallPlaces]
    /\ answered \subseteq Calls /\ unsent \subseteq Calls

EndData ==
    /\ muHolder \in Calls \cup {"none", "halt"}
    /\ muHolder \in Calls => call[muHolder] = "write"
    /\ frameReader \in {"read", "look", "send", "end"}
    /\ inHand \subseteq Calls /\ (inHand # {} <=> frameReader \in {"look", "send"})
    /\ \A x, y \in inHand : x = y
    /\ waiter \in {"wait", "stop", "close", "end"}
    /\ halt \in {"no", "lock", "write", "close", "wait", "end"}

EndFlags == halted \in BOOLEAN /\ doneClosed \in BOOLEAN /\ deaf \in BOOLEAN

\* Every state that concerns the calls has its type; the reader has at most one
\* answer in hand.
THEOREM CallsTypeCorrect == CallsSpec => [](CallsTypeOK /\ EndData)
<1> USE DEF CallPlaces
<1>1. CallData /\ EndData /\ EndFlags <=> CallsTypeOK /\ EndData
  BY DEF CallsTypeOK, CallData, EndData, EndFlags
<1>2. CallsInit => CallData /\ EndData /\ EndFlags
  <2>1. CallsInit => CallData
    BY CallsAssumption DEF CallsInit, CallData
  <2>2. CallsInit => EndData
    BY CallsAssumption DEF CallsInit, EndData
  <2>3. CallsInit => EndFlags
    BY DEF CallsInit, EndFlags
  <2> QED BY <2>1, <2>2, <2>3
<1>3. CallData /\ EndData /\ [CallsNext]_runtimeVars => CallData'
  <2> SUFFICES ASSUME CallData, EndData, [CallsNext]_runtimeVars PROVE CallData'
    OBVIOUS
  <2> USE CallsAssumption DEF CallData
  <2>1. ASSUME NEW c \in Calls, CallSteps(c) PROVE CallData'
    <3> USE DEF bunVars, frameVars, finalVars
    <3>1. CASE Refuse(c) \/ RegisterCall(c) \/ LockWriter(c)
      BY <3>1 DEF Refuse, RegisterCall, LockWriter, CallTo
    <3>2. CASE WriteRequest(c)
      <4>1. Append(requested, c) \in Seq(Calls) /\ Len(Append(requested, c)) = Len(requested) + 1
            /\ Len(requested) \in Nat
        OBVIOUS
      <4> QED BY <3>2, <4>1 DEF WriteRequest, CallTo
    <3>3. CASE WriteFails(c) \/ TakeAnswer(c) \/ LimitEnds(c) \/ Leave(c)
      BY <3>3 DEF WriteFails, TakeAnswer, LimitEnds, Leave, CallTo
    <3> QED BY <2>1, <3>1, <3>2, <3>3 DEF CallSteps
  <2>2. CASE Host
    <3> USE DEF callVars, frameVars, finalVars
    <3>1. CASE HostTakes
      <4>1. /\ Tail(requested) \in Seq(Calls) /\ Len(Tail(requested)) = Len(requested) - 1
            /\ Append(working, Head(requested)) \in Seq(Calls)
        BY <3>1, QueueSteps DEF HostTakes
      <4> QED BY <3>1, <4>1 DEF HostTakes
    <3>2. CASE HostAnswers \/ HostSpoils
      <4>1. /\ Tail(working) \in Seq(Calls) /\ Append(frames, Head(working)) \in Seq(Calls)
            /\ Head(working) \in Calls
        BY <3>2, QueueSteps DEF HostAnswers, HostSpoils
      <4> QED BY <3>2, <4>1 DEF HostAnswers, HostSpoils
    <3>3. CASE HostHangs \/ HostDies
      BY <3>3, EmptyQueue DEF HostHangs, HostDies
    <3> QED BY <2>2, <3>1, <3>2, <3>3 DEF Host
  <2>3. CASE ReadResponses
    <3>1. CASE ReadFrame
      BY <3>1, QueueSteps DEF ReadFrame, callVars, finalVars
    <3>2. CASE ReadFails \/ LookUpCall \/ SendAnswer
      BY <3>2 DEF ReadFails, LookUpCall, SendAnswer, EndData, bunVars, callVars, finalVars
    <3> QED BY <2>3, <3>1, <3>2 DEF ReadResponses
  <2>4. CASE Halting
    <3>1. CASE ProcessEnds \/ MarkStopped \/ CloseDone \/ BeginHalt \/ LockHalt \/ WriteHalt
      BY <3>1 DEF ProcessEnds, MarkStopped, CloseDone, BeginHalt, LockHalt, WriteHalt, bunVars, callVars
    <3>2. CASE CloseConnection \/ HaltWaited \/ HaltKills
      BY <3>2, EmptyQueue DEF CloseConnection, HaltWaited, HaltKills, bunVars, callVars
    <3> QED BY <2>4, <3>1, <3>2 DEF Halting
  <2>5. CASE UNCHANGED runtimeVars
    BY <2>5 DEF runtimeVars, bunVars, callVars, finalVars
  <2> QED BY <2>1, <2>2, <2>3, <2>4, <2>5 DEF CallsNext
<1>4. CallData /\ EndData /\ [CallsNext]_runtimeVars => EndData'
  <2> SUFFICES ASSUME CallData, EndData, [CallsNext]_runtimeVars PROVE EndData'
    OBVIOUS
  <2> USE CallsAssumption DEF EndData
  <2>0. call \in [Calls -> CallPlaces]
    BY DEF CallData
  <2>1. ASSUME NEW c \in Calls, CallSteps(c) PROVE EndData'
    <3> USE DEF bunVars, frameVars, finalVars
    <3>1. CASE Refuse(c) \/ RegisterCall(c) \/ LockWriter(c)
      BY <2>0, <3>1 DEF Refuse, RegisterCall, LockWriter, CallTo
    <3>2. CASE WriteRequest(c) \/ WriteFails(c)
      BY <2>0, <3>2 DEF WriteRequest, WriteFails, CallTo
    <3>3. CASE TakeAnswer(c) \/ LimitEnds(c) \/ Leave(c)
      BY <2>0, <3>3 DEF TakeAnswer, LimitEnds, Leave, CallTo
    <3> QED BY <2>1, <3>1, <3>2, <3>3 DEF CallSteps
  <2>2. CASE Host
    <3>1. UNCHANGED <<muHolder, call, frameReader, inHand, waiter, halt>>
      BY <2>2 DEF Host, HostTakes, HostAnswers, HostSpoils, HostHangs, HostDies, callVars, frameVars, finalVars
    <3> QED BY <3>1
  <2>3. CASE ReadResponses
    <3>1. CASE ReadFrame
      BY <3>1, QueueSteps DEF ReadFrame, callVars, finalVars, CallData
    <3>2. CASE ReadFails \/ LookUpCall \/ SendAnswer
      BY <3>2 DEF ReadFails, LookUpCall, SendAnswer, bunVars, callVars, finalVars
    <3> QED BY <2>3, <3>1, <3>2 DEF ReadResponses
  <2>4. CASE Halting
    <3>1. CASE ProcessEnds \/ MarkStopped \/ CloseDone \/ BeginHalt \/ LockHalt \/ WriteHalt
      BY <3>1 DEF ProcessEnds, MarkStopped, CloseDone, BeginHalt, LockHalt, WriteHalt, bunVars, callVars, frameVars
    <3>2. CASE CloseConnection \/ HaltWaited \/ HaltKills
      BY <3>2 DEF CloseConnection, HaltWaited, HaltKills, bunVars, callVars, frameVars
    <3> QED BY <2>4, <3>1, <3>2 DEF Halting
  <2>5. CASE UNCHANGED runtimeVars
    BY <2>5 DEF runtimeVars, bunVars, callVars, finalVars, frameVars
  <2> QED BY <2>1, <2>2, <2>3, <2>4, <2>5 DEF CallsNext
<1>5. EndFlags /\ [CallsNext]_runtimeVars => EndFlags'
  <2> SUFFICES ASSUME EndFlags, [CallsNext]_runtimeVars PROVE EndFlags'
    OBVIOUS
  <2> USE DEF EndFlags
  <2>1. ASSUME NEW c \in Calls, CallSteps(c) PROVE EndFlags'
    BY <2>1 DEF CallSteps, Refuse, RegisterCall, LockWriter, WriteRequest, WriteFails, TakeAnswer, LimitEnds,
                Leave, frameVars, finalVars
  <2>2. CASE Host
    BY <2>2 DEF Host, HostTakes, HostAnswers, HostSpoils, HostHangs, HostDies, frameVars, finalVars
  <2>3. CASE ReadResponses
    BY <2>3 DEF ReadResponses, ReadFrame, ReadFails, LookUpCall, SendAnswer, finalVars
  <2>4. CASE Halting
    BY <2>4 DEF Halting, ProcessEnds, MarkStopped, CloseDone, BeginHalt, LockHalt, WriteHalt, CloseConnection,
                HaltWaited, HaltKills, frameVars
  <2>5. CASE UNCHANGED runtimeVars
    BY <2>5 DEF runtimeVars, finalVars, frameVars
  <2> QED BY <2>1, <2>2, <2>3, <2>4, <2>5 DEF CallsNext
<1> QED BY <1>1, <1>2, <1>3, <1>4, <1>5, PTL DEF CallsSpec

-----------------------------------------------------------------------------
(* Answers.                                                                *)

\* Calls whose answer has been taken out of pending.
Past == respCh \cup answered \cup (IF frameReader = "send" THEN inHand ELSE {})

AnswerUnderWay(c) ==
    \/ c \in respCh \cup inHand
    \/ c \in Within(requested) \cup Within(working) \cup Within(frames)
    \/ c \in unsent

\* A call is in pending from its registration until the reader takes its answer
\* for it, which then is on its way to the call's channel, or there.
PendingInv ==
    /\ \A c \in awaiting : call[c] \in {"lock", "write", "wait", "leave"}
    /\ \A c \in Calls : call[c] \in {"lock", "write"} => c \in awaiting
    /\ \A c \in Calls : call[c] = "wait" =>
           c \in awaiting \cup respCh \cup (IF frameReader = "send" THEN inHand ELSE {})
    /\ \A c \in Past : c \notin awaiting /\ call[c] # "idle"
    /\ frameReader = "send" => inHand \cap (respCh \cup answered) = {}

\* What is under way was written.
InFlight == Within(requested) \cup Within(working) \cup Within(frames) \cup inHand

SentInv == \A c \in InFlight : call[c] \in {"wait", "leave", "end"}

LostInv ==
    ~deaf /\ connection = "open" => \A c \in Calls : call[c] = "wait" => AnswerUnderWay(c) \/ bun = "down"

LEMMA SentStep == CallData /\ EndData /\ SentInv /\ [CallsNext]_runtimeVars => SentInv'
<1> SUFFICES ASSUME CallData, EndData, SentInv, [CallsNext]_runtimeVars PROVE SentInv'
  OBVIOUS
<1>0. /\ requested \in Seq(Calls) /\ working \in Seq(Calls) /\ frames \in Seq(Calls)
      /\ call \in [Calls -> CallPlaces]
  BY DEF CallData
<1>1. ASSUME InFlight' \subseteq InFlight, UNCHANGED call PROVE SentInv'
  BY <1>1 DEF SentInv
<1>2. ASSUME NEW c \in Calls, CallSteps(c) PROVE SentInv'
  <2> USE DEF bunVars, frameVars, finalVars, CallPlaces
  <2>1. CASE WriteRequest(c)
    <3>1. Within(requested') = Within(requested) \cup {c} /\ UNCHANGED <<working, frames, inHand>>
      BY <1>0, <2>1, QueueSteps DEF WriteRequest
    <3>2. call'[c] = "wait" /\ \A d \in Calls : d # c => call'[d] = call[d]
      BY <1>0, <2>1, CallStep DEF WriteRequest
    <3>3. InFlight' = InFlight \cup {c} /\ InFlight \subseteq Calls
      BY <1>0, <3>1, QueueSteps DEF InFlight, EndData
    <3> QED BY <3>2, <3>3 DEF SentInv
  <2>2. CASE ~WriteRequest(c)
    <3>1. InFlight' = InFlight /\ InFlight \subseteq Calls
      <4>1. UNCHANGED <<requested, working, frames, inHand>>
        BY <1>2, <2>2
           DEF CallSteps, Refuse, RegisterCall, LockWriter, WriteFails, TakeAnswer, LimitEnds, Leave
      <4> QED BY <1>0, <4>1, QueueSteps DEF InFlight, EndData
    <3>2. call[c] \in {"wait", "leave"} => call'[c] \in {"leave", "end"}
      BY <1>0, <1>2, <2>2, CallStep
         DEF CallSteps, Refuse, RegisterCall, LockWriter, WriteFails, TakeAnswer, LimitEnds, Leave
    <3>3. call[c] = "end" => FALSE
      BY <1>2, <2>2 DEF CallSteps, Refuse, RegisterCall, LockWriter, WriteFails, TakeAnswer, LimitEnds, Leave
    <3>4. \A d \in Calls : d # c => call'[d] = call[d]
      BY <1>0, <1>2, <2>2, CallStep
         DEF CallSteps, Refuse, RegisterCall, LockWriter, WriteFails, TakeAnswer, LimitEnds, Leave
    <3> QED BY <3>1, <3>2, <3>3, <3>4 DEF SentInv
  <2> QED BY <2>1, <2>2
<1>3. CASE Host
  <2>1. InFlight' \subseteq InFlight
    <3>1. CASE HostTakes
      BY <1>0, <3>1, QueueSteps DEF HostTakes, InFlight, frameVars
    <3>2. CASE HostAnswers
      BY <1>0, <3>2, QueueSteps DEF HostAnswers, InFlight, frameVars
    <3>3. CASE HostSpoils
      BY <1>0, <3>3, QueueSteps DEF HostSpoils, InFlight, frameVars
    <3>4. CASE HostHangs \/ HostDies
      BY <1>0, <3>4, EmptyQueue DEF HostHangs, HostDies, InFlight, frameVars
    <3> QED BY <1>3, <3>1, <3>2, <3>3, <3>4 DEF Host
  <2>2. UNCHANGED call
    BY <1>3 DEF Host, HostTakes, HostAnswers, HostSpoils, HostHangs, HostDies, callVars
  <2> QED BY <1>1, <2>1, <2>2
<1>4. CASE ReadResponses
  <2>1. InFlight' \subseteq InFlight
    <3>1. CASE ReadFrame
      BY <1>0, <3>1, QueueSteps DEF ReadFrame, InFlight
    <3>2. CASE ReadFails
      BY <3>2 DEF ReadFails, InFlight, bunVars
    <3>3. CASE LookUpCall
      BY <3>3 DEF LookUpCall, InFlight, bunVars
    <3>4. CASE SendAnswer
      BY <3>4 DEF SendAnswer, InFlight, bunVars
    <3> QED BY <1>4, <3>1, <3>2, <3>3, <3>4 DEF ReadResponses
  <2>2. UNCHANGED call
    BY <1>4 DEF ReadResponses, ReadFrame, ReadFails, LookUpCall, SendAnswer, callVars
  <2> QED BY <1>1, <2>1, <2>2
<1>5. CASE Halting
  <2>1. UNCHANGED <<frames, inHand, call>>
    BY <1>5 DEF Halting, ProcessEnds, MarkStopped, CloseDone, BeginHalt, LockHalt, WriteHalt, CloseConnection,
                HaltWaited, HaltKills, bunVars, callVars, frameVars
  <2>2. UNCHANGED <<requested, working>> \/ (requested' = <<>> /\ working' = <<>>)
    BY <1>5 DEF Halting, ProcessEnds, MarkStopped, CloseDone, BeginHalt, LockHalt, WriteHalt, CloseConnection,
                HaltWaited, HaltKills, bunVars
  <2> QED BY <1>1, <2>1, <2>2, EmptyQueue DEF InFlight
<1>6. CASE UNCHANGED runtimeVars
  BY <1>1, <1>6 DEF runtimeVars, bunVars, callVars, frameVars, InFlight
<1> QED BY <1>2, <1>3, <1>4, <1>5, <1>6 DEF CallsNext

LEMMA PendingStep ==
  CallData /\ EndData /\ SentInv /\ PendingInv /\ [CallsNext]_runtimeVars => PendingInv'
<1> SUFFICES ASSUME CallData, EndData, SentInv, PendingInv, [CallsNext]_runtimeVars PROVE PendingInv'
  OBVIOUS
<1> USE DEF CallPlaces
<1>0. call \in [Calls -> CallPlaces] /\ inHand \subseteq Calls /\ awaiting \subseteq Calls
      /\ respCh \subseteq Calls /\ answered \subseteq Calls
  BY DEF CallData, EndData
<1>1. ASSUME NEW c \in Calls, CallSteps(c) PROVE PendingInv'
  <2> USE <1>0, CallStep DEF bunVars, frameVars, finalVars, PendingInv, Past
  <2>1. CASE Refuse(c) \/ LimitEnds(c) \/ Leave(c)
    BY <2>1 DEF Refuse, LimitEnds, Leave
  <2>2. CASE RegisterCall(c)
    BY <2>2 DEF RegisterCall
  <2>3. CASE LockWriter(c)
    BY <2>3 DEF LockWriter
  <2>4. CASE WriteRequest(c) \/ WriteFails(c)
    BY <2>4 DEF WriteRequest, WriteFails
  <2>5. CASE TakeAnswer(c)
    BY <2>5 DEF TakeAnswer
  <2> QED BY <1>1, <2>1, <2>2, <2>3, <2>4, <2>5 DEF CallSteps
<1>2. CASE Host
  BY <1>2 DEF Host, HostTakes, HostAnswers, HostSpoils, HostHangs, HostDies, callVars, frameVars, PendingInv, Past
<1>3. CASE ReadResponses
  <2>1. CASE ReadFrame \/ ReadFails
    <3>1. frameReader = "read" /\ frameReader' # "send" /\ UNCHANGED callVars
      BY <2>1 DEF ReadFrame, ReadFails
    <3> QED BY <3>1 DEF callVars, PendingInv, Past
  <2>2. CASE LookUpCall
    <3>1. CASE inHand \subseteq awaiting
      <4>1. /\ awaiting' = awaiting \ inHand /\ frameReader = "look" /\ frameReader' = "send"
            /\ UNCHANGED <<inHand, respCh, call, answered>>
        BY <2>2, <3>1 DEF LookUpCall
      <4>2. Past = respCh \cup answered /\ Past' = respCh \cup answered \cup inHand
        BY <4>1 DEF Past
      <4>3. \A d \in Past' : d \notin awaiting' /\ call'[d] # "idle"
        BY <3>1, <4>1, <4>2 DEF PendingInv
      <4>4. inHand \cap (respCh \cup answered) = {}
        BY <3>1, <4>2 DEF PendingInv
      <4>5. \A d \in Calls : call[d] \in {"lock", "write"} => d \notin inHand
        BY DEF SentInv, InFlight
      <4> QED BY <1>0, <3>1, <4>1, <4>3, <4>4, <4>5 DEF PendingInv
    <3>2. CASE ~(inHand \subseteq awaiting)
      <4>1. awaiting' = awaiting
        BY <2>2, <3>2 DEF LookUpCall, EndData
      <4>2. frameReader = "look" /\ frameReader' = "read" /\ UNCHANGED <<respCh, call, answered>>
        BY <2>2, <3>2 DEF LookUpCall
      <4> QED BY <4>1, <4>2 DEF PendingInv, Past
    <3> QED BY <3>1, <3>2
  <2>3. CASE SendAnswer
    BY <1>0, <2>3 DEF SendAnswer, PendingInv, Past
  <2> QED BY <1>3, <2>1, <2>2, <2>3 DEF ReadResponses
<1>4. CASE Halting
  BY <1>4 DEF Halting, ProcessEnds, MarkStopped, CloseDone, BeginHalt, LockHalt, WriteHalt, CloseConnection,
              HaltWaited, HaltKills, callVars, frameVars, PendingInv, Past
<1>5. CASE UNCHANGED runtimeVars
  BY <1>5 DEF runtimeVars, callVars, frameVars, PendingInv, Past
<1> QED BY <1>1, <1>2, <1>3, <1>4, <1>5 DEF CallsNext

LEMMA LostStep ==
  CallData /\ EndData /\ PendingInv /\ LostInv /\ [CallsNext]_runtimeVars => LostInv'
<1> SUFFICES ASSUME CallData, EndData, PendingInv, LostInv, [CallsNext]_runtimeVars PROVE LostInv'
  OBVIOUS
<1> USE DEF CallPlaces
<1>0. call \in [Calls -> CallPlaces] /\ inHand \subseteq Calls /\ awaiting \subseteq Calls
      /\ respCh \subseteq Calls /\ answered \subseteq Calls
  BY DEF CallData, EndData
<1>1. ASSUME NEW c \in Calls, CallSteps(c) PROVE LostInv'
  <2> USE <1>0, CallStep DEF bunVars, frameVars, finalVars, LostInv, AnswerUnderWay
  <2>1. CASE Refuse(c) \/ LimitEnds(c)
    BY <2>1 DEF Refuse, LimitEnds
  <2>5. CASE Leave(c)
    BY <2>5 DEF Leave
  <2>2. CASE RegisterCall(c) \/ LockWriter(c) \/ WriteFails(c)
    BY <2>2 DEF RegisterCall, LockWriter, WriteFails
  <2>3. CASE WriteRequest(c)
    <3>1. Within(requested') = Within(requested) \cup {c}
      BY <2>3, QueueSteps DEF WriteRequest, CallData
    <3> QED BY <2>3, <3>1 DEF WriteRequest
  <2>4. CASE TakeAnswer(c)
    BY <2>4 DEF TakeAnswer
  <2> QED BY <1>1, <2>1, <2>2, <2>3, <2>4, <2>5 DEF CallSteps
<1>2. CASE Host
  <2> USE DEF callVars, frameVars, finalVars, LostInv, AnswerUnderWay
  <2>1. CASE HostTakes
    <3>1. /\ Within(requested) = {Head(requested)} \cup Within(requested')
          /\ Within(working') = Within(working) \cup {Head(requested)}
      BY <2>1, QueueSteps DEF HostTakes, CallData
    <3> QED BY <2>1, <3>1 DEF HostTakes
  <2>2. CASE HostAnswers
    <3>1. /\ Within(working) = {Head(working)} \cup Within(working')
          /\ Within(frames') = Within(frames) \cup {Head(working)}
      BY <2>2, QueueSteps DEF HostAnswers, CallData
    <3> QED BY <2>2, <3>1 DEF HostAnswers
  <2>3. CASE HostSpoils
    <3>1. Within(working) = {Head(working)} \cup Within(working')
      BY <2>3, QueueSteps DEF HostSpoils, CallData
    <3> QED BY <2>3, <3>1 DEF HostSpoils
  <2>4. CASE HostHangs \/ HostDies
    BY <2>4 DEF HostHangs, HostDies
  <2> QED BY <1>2, <2>1, <2>2, <2>3, <2>4 DEF Host
<1>3. CASE ReadResponses
  <2> USE DEF LostInv, AnswerUnderWay
  <2>1. CASE ReadFrame
    <3>1. Within(frames) = {Head(frames)} \cup Within(frames') /\ inHand' = {Head(frames)}
      BY <2>1, QueueSteps DEF ReadFrame, CallData
    <3>2. inHand = {}
      BY <2>1 DEF ReadFrame, EndData
    <3> QED BY <2>1, <3>1, <3>2 DEF ReadFrame, callVars, finalVars
  <2>2. CASE ReadFails
    BY <2>2 DEF ReadFails, bunVars, callVars, finalVars
  <2>3. CASE LookUpCall
    BY <1>0, <2>3 DEF LookUpCall, PendingInv, EndData, bunVars, finalVars
  <2>4. CASE SendAnswer
    BY <2>4 DEF SendAnswer, bunVars, finalVars
  <2> QED BY <1>3, <2>1, <2>2, <2>3, <2>4 DEF ReadResponses
<1>4. CASE Halting
  BY <1>4 DEF Halting, ProcessEnds, MarkStopped, CloseDone, BeginHalt, LockHalt, WriteHalt, CloseConnection,
              HaltWaited, HaltKills, bunVars, callVars, frameVars, LostInv, AnswerUnderWay
<1>5. CASE UNCHANGED runtimeVars
  BY <1>5 DEF runtimeVars, bunVars, callVars, frameVars, finalVars, LostInv, AnswerUnderWay
<1> QED BY <1>1, <1>2, <1>3, <1>4, <1>5 DEF CallsNext

\* A call that waits is answered or sees the end of the runtime; and nothing is
\* left in pending or blocks the reader.
THEOREM CallsGetAnswers == CallsSpec => []CallsAnswered
<1>1. CallsInit => PendingInv /\ LostInv /\ SentInv
  BY EmptyQueue DEF CallsInit, PendingInv, LostInv, Past, SentInv, InFlight
<1>2. CallData /\ EndData /\ PendingInv /\ LostInv => CallsAnswered
  BY DEF PendingInv, LostInv, AnswerUnderWay, CallsAnswered, AnswerComes, NothingLeft, Past
<1>3. CallsTypeOK => CallData
  BY DEF CallsTypeOK, CallData, CallPlaces
<1> QED BY <1>1, <1>2, <1>3, SentStep, PendingStep, LostStep, CallsTypeCorrect, PTL DEF CallsSpec

-----------------------------------------------------------------------------
(* What the runtime promises its callers.                                  *)

\* The end of the process, seen by waitProcess, precedes every sign of the end;
\* and whoever has returned its answer has left.
EndOrder ==
    /\ waiter # "wait" => bun = "down"
    /\ waiter \in {"close", "end"} => halted
    /\ doneClosed <=> waiter = "end"

AnsweredLeft == \A c \in answered : call[c] \in {"leave", "end"}

LEMMA EndOrderKept == EndData /\ EndOrder /\ [CallsNext]_runtimeVars => EndOrder'
<1> SUFFICES ASSUME EndData, EndOrder, [CallsNext]_runtimeVars PROVE EndOrder'
  OBVIOUS
<1> USE DEF EndOrder
<1>1. ASSUME NEW c \in Calls, CallSteps(c) PROVE EndOrder'
  BY <1>1 DEF CallSteps, Refuse, RegisterCall, LockWriter, WriteRequest, WriteFails, TakeAnswer, LimitEnds,
              Leave, bunVars, finalVars
<1>2. CASE Host
  BY <1>2 DEF Host, HostTakes, HostAnswers, HostSpoils, HostHangs, HostDies, finalVars
<1>3. CASE ReadResponses
  BY <1>3 DEF ReadResponses, ReadFrame, ReadFails, LookUpCall, SendAnswer, bunVars, finalVars
<1>4. CASE Halting
  BY <1>4 DEF Halting, ProcessEnds, MarkStopped, CloseDone, BeginHalt, LockHalt, WriteHalt, CloseConnection,
              HaltWaited, HaltKills, bunVars, EndData
<1>5. CASE UNCHANGED runtimeVars
  BY <1>5 DEF runtimeVars, bunVars, finalVars
<1> QED BY <1>1, <1>2, <1>3, <1>4, <1>5 DEF CallsNext

LEMMA AnsweredLeftKept == CallData /\ AnsweredLeft /\ [CallsNext]_runtimeVars => AnsweredLeft'
<1> SUFFICES ASSUME CallData, AnsweredLeft, [CallsNext]_runtimeVars PROVE AnsweredLeft'
  OBVIOUS
<1>0. call \in [Calls -> CallPlaces] /\ answered \subseteq Calls
  BY DEF CallData
<1>1. ASSUME NEW c \in Calls, CallSteps(c) PROVE AnsweredLeft'
  <2> USE <1>0, CallStep DEF AnsweredLeft, CallPlaces
  <2>1. CASE TakeAnswer(c)
    BY <2>1 DEF TakeAnswer
  <2>2. CASE ~TakeAnswer(c)
    BY <1>1, <2>2 DEF CallSteps, Refuse, RegisterCall, LockWriter, WriteRequest, WriteFails, LimitEnds, Leave
  <2> QED BY <2>1, <2>2
<1>2. ASSUME UNCHANGED <<call, answered>> PROVE AnsweredLeft'
  BY <1>2 DEF AnsweredLeft
<1>3. CASE Host
  BY <1>2, <1>3 DEF Host, HostTakes, HostAnswers, HostSpoils, HostHangs, HostDies, callVars
<1>4. CASE ReadResponses
  BY <1>2, <1>4 DEF ReadResponses, ReadFrame, ReadFails, LookUpCall, SendAnswer, callVars
<1>5. CASE Halting
  BY <1>2, <1>5 DEF Halting, ProcessEnds, MarkStopped, CloseDone, BeginHalt, LockHalt, WriteHalt,
                    CloseConnection, HaltWaited, HaltKills, callVars
<1>6. CASE UNCHANGED runtimeVars
  BY <1>2, <1>6 DEF runtimeVars, callVars
<1> QED BY <1>1, <1>3, <1>4, <1>5, <1>6 DEF CallsNext

\* What a call looks like, in each of its places.
LEMMA StatusAt ==
  ASSUME NEW c \in Calls, call \in [Calls -> CallPlaces], AnsweredLeft
  PROVE  /\ c \in answered => CallStatus(c) = "returned"
         /\ c \notin answered /\ call[c] \in {"leave", "end"} => CallStatus(c) = "failed"
         /\ call[c] = "idle" => CallStatus(c) = "idle"
         /\ call[c] \in {"lock", "write"} => CallStatus(c) = "begun"
         /\ call[c] = "wait" /\ c \in Replied => CallStatus(c) = "ready"
         /\ call[c] = "wait" /\ c \notin Replied => CallStatus(c) = "sent"
BY DEF CallStatus, AnsweredLeft, CallPlaces

\* A step of one call is one of its moves.
LEMMA OneMoves ==
  ASSUME NEW c \in Calls, NEW from, NEW to, CallStatus(c) = from, CallStatus(c)' = to,
         \A d \in Calls : d # c => CallStatus(d)' = CallStatus(d),
         UNCHANGED <<halted, doneClosed>>
  PROVE  CallsPromise!Moves(c, from, to)
BY DEF CallsPromise!Moves

\* Steps that no caller notices, unless the runtime stops or ends.
LEMMA NoneMoves ==
  ASSUME call \in [Calls -> CallPlaces], AnsweredLeft, UNCHANGED <<call, answered>>,
         \A c \in Calls : call[c] = "wait" => (c \in Replied <=> c \in Replied')
  PROVE  \A c \in Calls : CallStatus(c)' = CallStatus(c)
<1> SUFFICES ASSUME NEW c \in Calls PROVE CallStatus(c)' = CallStatus(c)
  OBVIOUS
<1>1. CallStatus(c) = CallStatus(c)'
  BY DEF CallStatus, CallPlaces
<1> QED BY <1>1

LEMMA NoneNotices ==
  ASSUME \A c \in Calls : CallStatus(c)' = CallStatus(c), UNCHANGED <<halted, doneClosed>>
  PROVE  UNCHANGED CallsPromise!vars
BY DEF CallsPromise!vars

LEMMA CallerMoves ==
  ASSUME CallData, EndData, SentInv, PendingInv, EndOrder, AnsweredLeft, AnsweredLeft',
         call' \in [Calls -> CallPlaces], NEW c \in Calls, CallSteps(c)
  PROVE  CallsPromise!Step \/ UNCHANGED CallsPromise!vars
<1> USE DEF CallPlaces
<1>0. /\ call \in [Calls -> CallPlaces] /\ inHand \subseteq Calls /\ awaiting \subseteq Calls
      /\ respCh \subseteq Calls /\ answered \subseteq Calls
  BY DEF CallData, EndData
<1>1. UNCHANGED <<frames, inHand, halted, doneClosed>>
  BY DEF CallSteps, Refuse, RegisterCall, LockWriter, WriteRequest, WriteFails, TakeAnswer, LimitEnds, Leave,
         bunVars, frameVars, finalVars
<1>2. /\ \A d \in Calls : d # c => call'[d] = call[d]
      /\ \A d \in Calls : d # c => (d \in respCh <=> d \in respCh') /\ (d \in answered <=> d \in answered')
  BY <1>0, CallStep
     DEF CallSteps, Refuse, RegisterCall, LockWriter, WriteRequest, WriteFails, TakeAnswer, LimitEnds, Leave
<1>3. ASSUME NEW d \in Calls, d # c PROVE CallStatus(d)' = CallStatus(d)
  <2>1. d \in Replied <=> d \in Replied'
    BY <1>1, <1>2, <1>3 DEF Replied
  <2> QED BY <1>0, <1>2, <1>3, <2>1 DEF CallStatus
<1>4. ASSUME NEW from, NEW to, CallStatus(c) = from, CallStatus(c)' = to
      PROVE  CallsPromise!Moves(c, from, to)
  BY <1>1, <1>3, <1>4, OneMoves
<1>5. /\ c \in answered' => CallStatus(c)' = "returned"
      /\ c \notin answered' /\ call'[c] \in {"leave", "end"} => CallStatus(c)' = "failed"
      /\ call'[c] \in {"lock", "write"} => CallStatus(c)' = "begun"
      /\ call'[c] = "wait" /\ c \notin Replied' => CallStatus(c)' = "sent"
  BY DEF CallStatus, AnsweredLeft, CallPlaces
<1>6. CASE Refuse(c)
  <2>1. call[c] = "idle" /\ call'[c] = "end" /\ halted /\ c \notin answered /\ answered' = answered
    BY <1>0, <1>6, CallStep DEF Refuse, AnsweredLeft
  <2>2. CallsPromise!Moves(c, "idle", "failed")
    BY <1>0, <1>4, <1>5, <2>1, StatusAt
  <2> QED BY <2>1, <2>2 DEF CallsPromise!Refuse, CallsPromise!Step
<1>7. CASE RegisterCall(c)
  <2>1. call[c] = "idle" /\ call'[c] = "lock" /\ ~halted
    BY <1>0, <1>7, CallStep DEF RegisterCall
  <2>2. CallsPromise!Moves(c, "idle", "begun")
    BY <1>0, <1>4, <1>5, <2>1, StatusAt
  <2> QED BY <2>1, <2>2 DEF CallsPromise!Begin, CallsPromise!Step
<1>8. CASE LockWriter(c) \/ Leave(c)
  <2>1. \/ call[c] = "lock" /\ call'[c] = "write"
        \/ call[c] = "leave" /\ call'[c] = "end" /\ answered' = answered
    BY <1>0, <1>8, CallStep DEF LockWriter, Leave
  <2>2. CallStatus(c)' = CallStatus(c)
    BY <1>0, <1>5, <2>1, StatusAt
  <2>3. \A d \in Calls : CallStatus(d)' = CallStatus(d)
    BY <1>3, <2>2
  <2> QED BY <1>1, <2>3, NoneNotices
<1>9. CASE WriteRequest(c)
  <2>1. call[c] = "write" /\ call'[c] = "wait" /\ respCh' = respCh /\ bun # "down"
    BY <1>0, <1>9, CallStep DEF WriteRequest, Broken
  <2>2. c \notin Replied'
    <3>1. c \notin Within(frames) \cup inHand
      BY <2>1 DEF SentInv, InFlight
    <3>2. c \notin respCh
      BY <2>1 DEF PendingInv, Past
    <3> QED BY <1>1, <2>1, <3>1, <3>2 DEF Replied
  <2>3. ~doneClosed
    BY <2>1 DEF EndOrder
  <2>4. CallsPromise!Moves(c, "begun", "sent")
    BY <1>0, <1>4, <1>5, <2>1, <2>2, StatusAt
  <2> QED BY <2>3, <2>4 DEF CallsPromise!Send, CallsPromise!Step
<1>10. CASE WriteFails(c)
  <2>1. call[c] = "write" /\ call'[c] = "leave" /\ c \notin answered /\ answered' = answered
    BY <1>0, <1>10, CallStep DEF WriteFails, AnsweredLeft
  <2>2. CallsPromise!Moves(c, "begun", "failed")
    BY <1>0, <1>4, <1>5, <2>1, StatusAt
  <2> QED BY <2>2 DEF CallsPromise!Fail, CallsPromise!Step
<1>11. CASE TakeAnswer(c)
  <2>1. call[c] = "wait" /\ c \in Replied /\ c \in answered'
    BY <1>11 DEF TakeAnswer, Replied
  <2>2. CallsPromise!Moves(c, "ready", "returned")
    BY <1>0, <1>4, <1>5, <2>1, StatusAt
  <2> QED BY <2>2 DEF CallsPromise!Return, CallsPromise!Step
<1>12. CASE LimitEnds(c)
  <2>1. /\ call[c] = "wait" /\ call'[c] = "leave"
        /\ c \notin answered /\ answered' = answered
    BY <1>0, <1>12, CallStep DEF LimitEnds, AnsweredLeft
  <2>2. CallsPromise!Moves(c, "sent", "failed") \/ CallsPromise!Moves(c, "ready", "failed")
    BY <1>0, <1>4, <1>5, <2>1, StatusAt
  <2>3. c \in Limited \/ doneClosed
    BY <1>12 DEF LimitEnds
  <2> QED BY <2>2, <2>3 DEF CallsPromise!Fail, CallsPromise!Step
<1> QED BY <1>6, <1>7, <1>8, <1>9, <1>10, <1>11, <1>12 DEF CallSteps

LEMMA HostMoves ==
  ASSUME CallData, EndData, SentInv, EndOrder, AnsweredLeft, AnsweredLeft', Host
  PROVE  CallsPromise!Step \/ UNCHANGED CallsPromise!vars
<1>0. /\ call \in [Calls -> CallPlaces] /\ working \in Seq(Calls) /\ frames \in Seq(Calls)
      /\ answered \subseteq Calls
  BY DEF CallData
<1>1. UNCHANGED <<call, answered, respCh, inHand, halted, doneClosed>>
  BY DEF Host, HostTakes, HostAnswers, HostSpoils, HostHangs, HostDies, callVars, frameVars, finalVars
<1>2. CASE UNCHANGED frames
  <2>1. \A c \in Calls : c \in Replied <=> c \in Replied'
    BY <1>1, <1>2 DEF Replied
  <2> QED BY <1>0, <1>1, <2>1, NoneMoves, NoneNotices
<1>3. CASE HostAnswers
  <2>1. PICK c \in Calls : /\ c \in Within(working) /\ Within(frames') = Within(frames) \cup {c}
                          /\ bun = "up"
    BY <1>0, <1>3, QueueSteps DEF HostAnswers
  <2>2. call[c] \in {"wait", "leave", "end"}
    BY <2>1 DEF SentInv, InFlight
  <2>3. Replied' = Replied \cup {c}
    BY <1>1, <2>1 DEF Replied
  <2>4. CASE call[c] # "wait" \/ c \in Replied
    BY <1>0, <1>1, <2>3, <2>4, NoneMoves, NoneNotices
  <2>5. CASE call[c] = "wait" /\ c \notin Replied
    <3>1. CallStatus(c) = "sent" /\ CallStatus(c)' = "ready"
      <4>1. c \notin answered
        BY <2>5 DEF AnsweredLeft
      <4>2. call'[c] = "wait" /\ c \notin answered' /\ c \in Replied'
        BY <1>1, <2>3, <2>5, <4>1
      <4>3. CallStatus(c)' = "ready"
        BY <4>2 DEF CallStatus
      <4> QED BY <1>0, <2>5, <4>3, StatusAt
    <3>2. \A d \in Calls : d # c => CallStatus(d)' = CallStatus(d)
      <4> TAKE d \in Calls
      <4> HAVE d # c
      <4>1. d \in Replied <=> d \in Replied'
        BY <2>3
      <4> QED BY <1>0, <1>1, <4>1 DEF CallStatus, CallPlaces
    <3>3. CallsPromise!Moves(c, "sent", "ready")
      BY <1>1, <2>1, <3>1, <3>2, OneMoves
    <3>4. ~doneClosed
      BY <2>1 DEF EndOrder
    <3> QED BY <2>1, <3>3, <3>4 DEF CallsPromise!Answer, CallsPromise!Step
  <2> QED BY <2>4, <2>5
<1> QED BY <1>2, <1>3 DEF Host, HostTakes, HostSpoils, HostHangs, HostDies

LEMMA ReaderUnnoticed ==
  ASSUME CallData, EndData, PendingInv, AnsweredLeft, ReadResponses
  PROVE  UNCHANGED CallsPromise!vars
<1>0. /\ call \in [Calls -> CallPlaces] /\ frames \in Seq(Calls) /\ inHand \subseteq Calls
  BY DEF CallData, EndData
<1>1. UNCHANGED <<call, answered, halted, doneClosed>>
  BY DEF ReadResponses, ReadFrame, ReadFails, LookUpCall, SendAnswer, callVars, finalVars
<1>2. ASSUME \A c \in Calls : call[c] = "wait" => (c \in Replied <=> c \in Replied')
      PROVE  UNCHANGED CallsPromise!vars
  BY <1>0, <1>1, <1>2, NoneMoves, NoneNotices
<1>3. CASE ReadFrame
  <2>1. /\ Within(frames) = Within(frames') \cup {Head(frames)}
        /\ inHand = {} /\ inHand' = {Head(frames)} /\ respCh' = respCh
    BY <1>0, <1>3, QueueSteps DEF ReadFrame, EndData, callVars
  <2>2. Replied' = Replied
    BY <2>1 DEF Replied
  <2> QED BY <1>2, <2>2
<1>4. CASE ReadFails
  <2>1. UNCHANGED <<frames, inHand, respCh>>
    BY <1>4 DEF ReadFails, bunVars, callVars
  <2> QED BY <1>2, <2>1 DEF Replied
<1>5. CASE LookUpCall
  <2>1. UNCHANGED <<frames, respCh>> /\ frameReader = "look"
    BY <1>5 DEF LookUpCall, bunVars
  <2>2. CASE inHand \subseteq awaiting
    BY <1>2, <1>5, <2>1, <2>2 DEF LookUpCall, Replied
  <2>3. CASE ~(inHand \subseteq awaiting)
    <3>1. \A c \in inHand : call[c] = "wait" => c \in respCh
      BY <1>0, <2>1, <2>3 DEF PendingInv, EndData
    <3>2. inHand' = {}
      BY <1>5, <2>3 DEF LookUpCall
    <3> QED BY <1>2, <2>1, <3>1, <3>2 DEF Replied
  <2> QED BY <2>2, <2>3
<1>6. CASE SendAnswer
  <2>1. frames' = frames /\ respCh' = respCh \cup inHand /\ inHand' = {}
    BY <1>6 DEF SendAnswer, bunVars
  <2>2. Replied' = Replied
    BY <2>1 DEF Replied
  <2> QED BY <1>2, <2>2
<1> QED BY <1>3, <1>4, <1>5, <1>6 DEF ReadResponses

LEMMA EndMoves ==
  ASSUME CallData, EndData, EndOrder, EndFlags, AnsweredLeft, Halting
  PROVE  CallsPromise!Step \/ UNCHANGED CallsPromise!vars
<1>0. call \in [Calls -> CallPlaces]
  BY DEF CallData
<1>1. UNCHANGED <<call, answered, frames, respCh, inHand>>
  BY DEF Halting, ProcessEnds, MarkStopped, CloseDone, BeginHalt, LockHalt, WriteHalt, CloseConnection,
         HaltWaited, HaltKills, bunVars, callVars, frameVars
<1>2. \A c \in Calls : CallStatus(c)' = CallStatus(c)
  <2>1. \A c \in Calls : c \in Replied <=> c \in Replied'
    BY <1>1 DEF Replied
  <2> QED BY <1>0, <1>1, <2>1, NoneMoves
<1>3. \/ UNCHANGED <<halted, doneClosed>>
      \/ halted' = TRUE /\ doneClosed' = doneClosed
      \/ halted /\ ~doneClosed /\ doneClosed' = TRUE /\ halted' = halted
  BY DEF Halting, ProcessEnds, MarkStopped, CloseDone, BeginHalt, LockHalt, WriteHalt, CloseConnection,
         HaltWaited, HaltKills, EndOrder, EndFlags
<1>4. CASE UNCHANGED <<halted, doneClosed>>
  BY <1>2, <1>4, NoneNotices
<1>5. CASE ~halted /\ halted' = TRUE /\ doneClosed' = doneClosed
  BY <1>2, <1>5 DEF CallsPromise!Stop, CallsPromise!Step
<1>6. CASE halted /\ ~doneClosed /\ doneClosed' = TRUE /\ halted' = halted
  BY <1>2, <1>6 DEF CallsPromise!End, CallsPromise!Step
<1> QED BY <1>3, <1>4, <1>5, <1>6 DEF EndFlags

\* A runtime's calls are calls of one remote host: none begins once it is
\* stopped, none is sent to a process that has ended, and each is answered once
\* at most and fails after its sending only at its limit or at the end.
THEOREM RuntimeIsRemote == CallsSpec => CallsAreRemote
<1>1. CallsInit => PendingInv /\ SentInv /\ EndOrder /\ AnsweredLeft
  BY EmptyQueue DEF CallsInit, PendingInv, Past, SentInv, InFlight, EndOrder, AnsweredLeft
<1>2. CallsInit => CallsPromise!Init
  <2> SUFFICES ASSUME CallsInit PROVE CallsPromise!Init
    OBVIOUS
  <2>1. \A c \in Calls : CallStatus(c) = "idle"
    BY DEF CallsInit, CallStatus
  <2> QED BY <2>1 DEF CallsPromise!Init, CallsInit
<1>3. CallsTypeOK => CallData /\ EndFlags
  BY DEF CallsTypeOK, CallData, EndFlags, CallPlaces
<1>4. CallData /\ EndData /\ EndFlags /\ SentInv /\ PendingInv /\ EndOrder /\ AnsweredLeft
        /\ CallData' /\ AnsweredLeft' /\ [CallsNext]_runtimeVars => [CallsPromise!Step]_(CallsPromise!vars)
  <2> SUFFICES ASSUME CallData, EndData, EndFlags, SentInv, PendingInv, EndOrder, AnsweredLeft, CallData',
                      AnsweredLeft', [CallsNext]_runtimeVars
               PROVE  CallsPromise!Step \/ UNCHANGED CallsPromise!vars
    OBVIOUS
  <2>1. ASSUME NEW c \in Calls, CallSteps(c) PROVE CallsPromise!Step \/ UNCHANGED CallsPromise!vars
    BY <2>1, CallerMoves DEF CallData
  <2>2. CASE UNCHANGED runtimeVars
    <3>1. UNCHANGED <<call, answered, frames, respCh, inHand, halted, doneClosed>>
      BY <2>2 DEF runtimeVars, bunVars, callVars, frameVars, finalVars
    <3>2. \A c \in Calls : CallStatus(c)' = CallStatus(c)
      BY <3>1 DEF CallStatus, Replied
    <3> QED BY <3>1, <3>2, NoneNotices
  <2> QED BY <2>1, <2>2, HostMoves, ReaderUnnoticed, EndMoves DEF CallsNext
<1>5. [CallsPromise!Step]_(CallsPromise!vars) => [CallsPromise!Next]_(CallsPromise!vars)
  BY DEF CallsPromise!Next
<1> QED BY <1>1, <1>2, <1>3, <1>4, <1>5, SentStep, PendingStep, EndOrderKept, AnsweredLeftKept, CallsTypeCorrect, PTL
        DEF CallsSpec, CallsAreRemote, CallsPromise!Spec

-----------------------------------------------------------------------------
(* The installation of a plugin.                                           *)

USE DEF Idle, CommandTo, CommandAt, rowVars, faultVars


LEMMA WorkingSteps ==
  /\ "row" \in Working /\ "copy" \in Working /\ "copying" \in Working /\ "insert" \in Working
  /\ "remove" \in Working /\ "hash" \in Working /\ "sums" \in Working /\ "clean" \in Working
  /\ "unrow" \in Working /\ "disable" \in Working /\ "wipe" \in Working /\ "forget" \in Working
BY DEF Working

LEMMA CommandStep ==
  ASSUME command \in [Commands -> Idle \cup Working], NEW c \in Commands, NEW next, CommandTo(c, next),
         next \in Idle \cup Working
  PROVE  command' \in [Commands -> Idle \cup Working]
OBVIOUS

\* A command that stores checksums has a record of its own.
Recorded == \A c \in Commands : command[c] \in {"hash", "sums"} => mine[c] # 0

LEMMA DeleteRowData ==
  ASSUME checksums \subseteq Records, lastRecord \in 0..MaxRecords, DeleteRow
  PROVE  /\ record' \in 0..MaxRecords /\ lastRecord' \in 0..MaxRecords /\ checksums' \subseteq Records
<1>1. record' = 0 /\ lastRecord' = lastRecord /\ checksums' = checksums \ {record}
  BY DEF DeleteRow
<1> QED BY <1>1, InstallAssumption

LEMMA RecordedStep ==
  ASSUME command \in [Commands -> Idle \cup Working], Recorded, NEW c \in Commands, NEW next, CommandTo(c, next),
         mine' = mine, next \in {"hash", "sums"} => command[c] \in {"hash", "sums"}
  PROVE  Recorded'
BY DEF Recorded

DataOK ==
    /\ files \in {"none", "part", "whole"}
    /\ record \in 0..MaxRecords /\ lastRecord \in 0..MaxRecords /\ checksums \subseteq Records
    /\ command \in [Commands -> Idle \cup Working]
    /\ mine \in [Commands -> 0..MaxRecords]

FlagsOK == enabled \in BOOLEAN /\ overlap \in BOOLEAN /\ crash \in BOOLEAN /\ unclean \in BOOLEAN

\* Every variable of an installation keeps its type, and a command that stores
\* checksums has a record of its own.
THEOREM InstallTypeCorrect == InstallSpec => [](InstallTypeOK /\ Recorded)
<1> USE InstallAssumption, WorkingSteps DEF Records
<1>1. DataOK /\ FlagsOK => InstallTypeOK
  BY DEF InstallTypeOK, DataOK, FlagsOK
<1>2. InstallInit => DataOK /\ FlagsOK /\ Recorded
  <2>1. InstallInit => DataOK
    BY DEF InstallInit, DataOK
  <2>2. InstallInit => FlagsOK
    BY DEF InstallInit, FlagsOK
  <2>3. InstallInit => Recorded
    BY DEF InstallInit, Recorded
  <2> QED BY <2>1, <2>2, <2>3
<1>3. DataOK /\ Recorded /\ FlagsOK /\ [InstallNext]_installVars => DataOK'
  <2> SUFFICES ASSUME DataOK, Recorded, [InstallNext]_installVars PROVE DataOK'
    OBVIOUS
  <2> USE DEF DataOK
  <2>1. ASSUME NEW c \in Commands, Installing(c) PROVE DataOK'
    <3>1. CASE BeginInstall(c) \/ CheckRow(c)
      <4>1. command' \in [Commands -> Idle \cup Working]
        BY <3>1, CommandStep DEF BeginInstall, CheckRow, Starts
      <4> QED BY <3>1, <4>1 DEF BeginInstall, CheckRow
    <3>2. CASE BeginCopy(c) \/ EndCopy(c) \/ CopyFails(c) \/ HashFiles(c)
      <4>1. command' \in [Commands -> Idle \cup Working]
        BY <3>2, CommandStep DEF BeginCopy, EndCopy, CopyFails, HashFiles
      <4> QED BY <3>2, <4>1 DEF BeginCopy, EndCopy, CopyFails, HashFiles
    <3>3. CASE RemoveCopy(c) \/ CleanFiles(c)
      <4>1. command' \in [Commands -> Idle \cup Working]
        BY <3>3, CommandStep DEF RemoveCopy, CleanFiles
      <4> QED BY <3>3, <4>1 DEF RemoveCopy, CleanFiles, RemoveFiles, RemoveFails
    <3>4. CASE InsertRow(c) \/ InsertFails(c)
      <4>1. command' \in [Commands -> Idle \cup Working]
        BY <3>4, CommandStep DEF InsertRow, InsertFails
      <4>2. CASE InsertRow(c)
        <5>1. /\ lastRecord' = lastRecord + 1 /\ record' = lastRecord' /\ lastRecord < MaxRecords
              /\ mine' = [mine EXCEPT ![c] = record'] /\ files' = files /\ checksums' = checksums
          BY <4>2 DEF InsertRow
        <5> QED BY <4>1, <5>1
      <4> QED BY <3>4, <4>1, <4>2 DEF InsertFails
    <3>5. CASE StoreChecksums(c) \/ ChecksumsFail(c)
      <4>1. command' \in [Commands -> Idle \cup Working]
        BY <3>5, CommandStep DEF StoreChecksums, ChecksumsFail
      <4>2. CASE StoreChecksums(c)
        <5>1. record # 0 /\ checksums' = checksums \cup {record}
          BY <4>2 DEF StoreChecksums, Recorded
        <5>2. UNCHANGED <<files, record, lastRecord, mine>>
          BY <4>2 DEF StoreChecksums
        <5> QED BY <4>1, <5>1, <5>2
      <4> QED BY <3>5, <4>1, <4>2 DEF ChecksumsFail
    <3>6. CASE CleanRow(c)
      <4>1. command' \in [Commands -> Idle \cup Working]
        BY <3>6, CommandStep DEF CleanRow
      <4>2. DeleteRow \/ UNCHANGED rowVars
        BY <3>6 DEF CleanRow
      <4>3. files' = files /\ mine' = mine
        BY <3>6 DEF CleanRow
      <4> QED BY <4>1, <4>2, <4>3, DeleteRowData
    <3> QED BY <2>1, <3>1, <3>2, <3>3, <3>4, <3>5, <3>6 DEF Installing
  <2>2. ASSUME NEW c \in Commands, Uninstalling(c) PROVE DataOK'
    <3>1. CASE BeginUninstall(c) \/ Disable(c)
      <4>1. command' \in [Commands -> Idle \cup Working]
        BY <3>1, CommandStep DEF BeginUninstall, Disable, Starts
      <4> QED BY <3>1, <4>1 DEF BeginUninstall, Disable
    <3>2. CASE WipeFiles(c)
      <4>1. command' \in [Commands -> Idle \cup Working]
        BY <3>2, CommandStep DEF WipeFiles, RemoveFiles, RemoveFails
      <4> QED BY <3>2, <4>1 DEF WipeFiles, RemoveFiles, RemoveFails
    <3>3. CASE ForgetRow(c)
      <4>1. command' \in [Commands -> Idle \cup Working]
        BY <3>3, CommandStep DEF ForgetRow
      <4>2. DeleteRow \/ UNCHANGED rowVars
        BY <3>3 DEF ForgetRow
      <4>3. files' = files /\ mine' = mine
        BY <3>3 DEF ForgetRow
      <4> QED BY <4>1, <4>2, <4>3, DeleteRowData
    <3> QED BY <2>2, <3>1, <3>2, <3>3 DEF Uninstalling
  <2>3. ASSUME NEW c \in Commands, Enable(c) \/ CommandCrashes(c) PROVE DataOK'
    BY <2>3 DEF Enable, CommandCrashes, Starts
  <2>4. CASE UNCHANGED installVars
    BY <2>4 DEF installVars
  <2> QED BY <2>1, <2>2, <2>3, <2>4 DEF InstallNext
<1>4. DataOK /\ Recorded /\ FlagsOK /\ [InstallNext]_installVars => FlagsOK'
  <2> SUFFICES ASSUME FlagsOK, [InstallNext]_installVars PROVE FlagsOK'
    OBVIOUS
  <2> USE DEF FlagsOK
  <2>1. ASSUME NEW c \in Commands, Installing(c) PROVE FlagsOK'
    <3>1. CASE BeginInstall(c) \/ CheckRow(c)
      BY <3>1 DEF BeginInstall, CheckRow, Starts
    <3>2. CASE BeginCopy(c) \/ EndCopy(c) \/ CopyFails(c) \/ HashFiles(c)
      BY <3>2 DEF BeginCopy, EndCopy, CopyFails, HashFiles
    <3>3. CASE RemoveCopy(c) \/ CleanFiles(c)
      BY <3>3 DEF RemoveCopy, CleanFiles, RemoveFiles, RemoveFails
    <3>4. CASE InsertRow(c) \/ InsertFails(c)
      BY <3>4 DEF InsertRow, InsertFails
    <3>5. CASE StoreChecksums(c) \/ ChecksumsFail(c)
      BY <3>5 DEF StoreChecksums, ChecksumsFail
    <3>6. CASE CleanRow(c)
      BY <3>6 DEF CleanRow, DeleteRow
    <3> QED BY <2>1, <3>1, <3>2, <3>3, <3>4, <3>5, <3>6 DEF Installing
  <2>2. ASSUME NEW c \in Commands, Uninstalling(c) PROVE FlagsOK'
    <3>1. CASE BeginUninstall(c) \/ Disable(c)
      BY <3>1 DEF BeginUninstall, Disable, Starts
    <3>2. CASE WipeFiles(c)
      BY <3>2 DEF WipeFiles, RemoveFiles, RemoveFails
    <3>3. CASE ForgetRow(c)
      BY <3>3 DEF ForgetRow, DeleteRow
    <3> QED BY <2>2, <3>1, <3>2, <3>3 DEF Uninstalling
  <2>3. ASSUME NEW c \in Commands, Enable(c) \/ CommandCrashes(c) PROVE FlagsOK'
    BY <2>3 DEF Enable, CommandCrashes, Starts
  <2>4. CASE UNCHANGED installVars
    BY <2>4 DEF installVars
  <2> QED BY <2>1, <2>2, <2>3, <2>4 DEF InstallNext
<1>5. DataOK /\ Recorded /\ FlagsOK /\ [InstallNext]_installVars => Recorded'
  <2> SUFFICES ASSUME DataOK, Recorded, [InstallNext]_installVars PROVE Recorded'
    OBVIOUS
  <2> USE DEF DataOK
  <2>1. ASSUME NEW c \in Commands, InsertRow(c) PROVE Recorded'
    <3>1. /\ record' = lastRecord + 1 /\ mine' = [mine EXCEPT ![c] = record'] /\ CommandTo(c, "hash")
          /\ lastRecord \in Nat
      BY <2>1 DEF InsertRow
    <3> QED BY <3>1 DEF Recorded
  <2>2. ASSUME NEW c \in Commands, Installing(c), ~InsertRow(c) PROVE Recorded'
    BY <2>2, RecordedStep
       DEF Installing, BeginInstall, CheckRow, BeginCopy, EndCopy, CopyFails, RemoveCopy, InsertFails, HashFiles,
           StoreChecksums, ChecksumsFail, CleanFiles, CleanRow, Starts
  <2>3. ASSUME NEW c \in Commands, Uninstalling(c) \/ Enable(c) \/ CommandCrashes(c) PROVE Recorded'
    BY <2>3, RecordedStep
       DEF Uninstalling, BeginUninstall, Disable, WipeFiles, ForgetRow, Enable, CommandCrashes, Starts
  <2>4. CASE UNCHANGED installVars
    BY <2>4 DEF installVars, Recorded
  <2> QED BY <2>1, <2>2, <2>3, <2>4 DEF InstallNext
<1> QED BY <1>1, <1>2, <1>3, <1>4, <1>5, PTL DEF InstallSpec

\* What a command that runs alone, and was never disturbed, finds at each of its
\* steps; and what commands leave behind.
Calm == ~overlap /\ ~crash /\ ~unclean
Whole == record # 0 /\ files = "whole" /\ record \in checksums
Nothing == record = 0 /\ files = "none" /\ ~enabled

Stage(c) ==
    /\ command[c] \in {"row", "copy"} => Nothing
    /\ command[c] = "copying" => record = 0 /\ ~enabled /\ files # "none"
    /\ command[c] = "insert" => record = 0 /\ ~enabled /\ files = "whole"
    /\ command[c] = "remove" => record = 0 /\ ~enabled
    /\ command[c] \in {"hash", "sums"} => record # 0 /\ record = mine[c] /\ ~enabled /\ files = "whole"
    /\ command[c] = "clean" => record # 0 /\ ~enabled
    /\ command[c] \in {"unrow", "forget"} => record # 0 /\ ~enabled /\ files = "none"
    /\ command[c] = "disable" => Whole
    /\ command[c] = "wipe" => Whole /\ ~enabled

Alone(c) == \A d \in Commands : d # c => command[d] \in Idle

InstallInv ==
    Calm =>
        /\ \A c \in Commands : command[c] \notin Idle => Alone(c)
        /\ \A c \in Commands : Stage(c)
        /\ AtRest => Whole \/ Nothing

\* A step of a command that is alone.
LEMMA StepAlone ==
  ASSUME InstallTypeOK, NEW c \in Commands, NEW next, Alone(c), CommandTo(c, next),
         Stage(c)', next \in Idle => (Whole \/ Nothing)'
  PROVE  InstallInv'
<1>1. command' = [command EXCEPT ![c] = next] /\ command \in [Commands -> Idle \cup Working]
  BY DEF InstallTypeOK
<1>2. \A d \in Commands : d # c => command'[d] \in Idle
  BY <1>1 DEF Alone
<1>3. \A d \in Commands : Stage(d)'
  BY <1>2 DEF Stage
<1>4. \A d \in Commands : command'[d] \notin Idle => Alone(d)'
  BY <1>2 DEF Alone
<1>5. AtRest' => (Whole \/ Nothing)'
  BY <1>1 DEF AtRest
<1> QED BY <1>3, <1>4, <1>5 DEF InstallInv

\* A command that begins while none is at work, or else it is an overlap.
LEMMA BeginsAlone ==
  ASSUME InstallInv, NEW c \in Commands, NEW next, Starts(c, next), Calm'
  PROVE  Alone(c) /\ AtRest
BY DEF Starts, Calm, Alone, AtRest

LEMMA InstallInvKept == InstallTypeOK /\ InstallInv /\ [InstallNext]_installVars => InstallInv'
<1> SUFFICES ASSUME InstallTypeOK, InstallInv, [InstallNext]_installVars, Calm' PROVE InstallInv'
  BY DEF InstallInv
<1>1. CASE UNCHANGED installVars
  BY <1>1 DEF installVars, InstallInv, Calm, Stage, Whole, Nothing, Alone, AtRest
<1>2. ASSUME NEW c \in Commands,
             Installing(c) \/ Uninstalling(c) \/ Enable(c) \/ CommandCrashes(c)
      PROVE  InstallInv'
  <2>1. ~CommandCrashes(c)
    BY DEF CommandCrashes, Calm
  <2>2. /\ command \in [Commands -> Idle \cup Working]
        /\ files \in {"none", "part", "whole"} /\ mine \in [Commands -> 0..MaxRecords]
        /\ record \in Nat /\ lastRecord \in Nat
    BY InstallAssumption DEF InstallTypeOK
  <2>3. CASE BeginInstall(c)
    <3>1. Alone(c) /\ AtRest
      BY <2>3, BeginsAlone DEF BeginInstall
    <3>2. Calm /\ (Whole \/ Nothing)
      BY <2>3, <3>1 DEF BeginInstall, Starts, Calm, InstallInv
    <3> QED BY <2>2, <2>3, <3>1, <3>2, StepAlone DEF BeginInstall, Starts, Stage, Whole, Nothing
  <2>4. CASE BeginUninstall(c)
    <3>1. Alone(c) /\ AtRest
      BY <2>4, BeginsAlone DEF BeginUninstall
    <3>2. Calm /\ (Whole \/ Nothing)
      BY <2>4, <3>1 DEF BeginUninstall, Starts, Calm, InstallInv
    <3> QED BY <2>2, <2>4, <3>1, <3>2, StepAlone DEF BeginUninstall, Starts, Stage, Whole, Nothing
  <2>5. CASE Enable(c)
    <3>1. Alone(c) /\ AtRest
      BY <2>5, BeginsAlone DEF Enable
    <3>2. Calm /\ (Whole \/ Nothing)
      BY <2>5, <3>1 DEF Enable, Starts, Calm, InstallInv
    <3> QED BY <2>2, <2>5, <3>1, <3>2, StepAlone DEF Enable, Starts, Stage, Whole, Nothing
  <2>6. ASSUME command[c] \notin Idle, Calm PROVE Alone(c) /\ Stage(c)
    BY <2>6 DEF InstallInv
  <2>7. CASE CheckRow(c) \/ BeginCopy(c) \/ EndCopy(c) \/ CopyFails(c)
    <3>1. Alone(c) /\ Stage(c)
      BY <2>6, <2>7 DEF CheckRow, BeginCopy, EndCopy, CopyFails, Calm
    <3> QED BY <2>2, <2>7, <3>1, StepAlone DEF CheckRow, BeginCopy, EndCopy, CopyFails, Stage, Nothing
  <2>8. CASE RemoveCopy(c)
    <3>1. Alone(c) /\ Stage(c) /\ RemoveFiles
      BY <2>6, <2>8 DEF RemoveCopy, RemoveFiles, RemoveFails, Calm
    <3> QED BY <2>2, <2>8, <3>1, StepAlone DEF RemoveCopy, RemoveFiles, Stage, Nothing
  <2>9. CASE InsertRow(c) \/ InsertFails(c) \/ HashFiles(c)
    <3>1. Alone(c) /\ Stage(c)
      BY <2>6, <2>9 DEF InsertRow, InsertFails, HashFiles, Calm
    <3> QED BY <2>2, <2>9, <3>1, StepAlone DEF InsertRow, InsertFails, HashFiles, Stage
  <2>10. CASE StoreChecksums(c)
    <3>1. Alone(c) /\ Stage(c)
      BY <2>6, <2>10 DEF StoreChecksums, Calm
    <3>2. Whole'
      BY <2>2, <2>10, <3>1 DEF StoreChecksums, Stage, Whole
    <3> QED BY <2>2, <2>10, <3>1, <3>2, StepAlone DEF StoreChecksums, Stage
  <2>11. CASE ChecksumsFail(c) \/ CleanFiles(c)
    <3>1. ~RemoveFails
      BY DEF RemoveFails, Calm
    <3>2. Alone(c) /\ Stage(c)
      BY <2>6, <2>11, <3>1 DEF ChecksumsFail, CleanFiles, RemoveFiles, Calm
    <3> QED BY <2>2, <2>11, <3>1, <3>2, StepAlone DEF ChecksumsFail, CleanFiles, RemoveFiles, Stage
  <2>12. CASE CleanRow(c) \/ ForgetRow(c)
    <3>1. Alone(c) /\ Stage(c) /\ DeleteRow
      BY <2>6, <2>12 DEF CleanRow, ForgetRow, DeleteRow, Calm
    <3>2. Nothing'
      BY <2>12, <3>1 DEF CleanRow, ForgetRow, DeleteRow, Stage, Nothing
    <3> QED BY <2>2, <2>12, <3>1, <3>2, StepAlone DEF CleanRow, ForgetRow, Stage
  <2>13. CASE Disable(c)
    <3>1. Alone(c) /\ Stage(c)
      BY <2>6, <2>13 DEF Disable, Calm
    <3> QED BY <2>2, <2>13, <3>1, StepAlone DEF Disable, Stage, Whole
  <2>14. CASE WipeFiles(c)
    <3>1. Alone(c) /\ Stage(c) /\ RemoveFiles /\ CommandAt(c, "wipe", "forget")
      BY <2>6, <2>14 DEF WipeFiles, RemoveFiles, RemoveFails, Calm
    <3> QED BY <2>2, <2>14, <3>1, StepAlone DEF WipeFiles, RemoveFiles, Stage, Whole
  <2> QED BY <1>2, <2>1, <2>3, <2>4, <2>5, <2>7, <2>8, <2>9, <2>10, <2>11, <2>12, <2>13, <2>14
          DEF Installing, Uninstalling
<1> QED BY <1>1, <1>2 DEF InstallNext

\* A plugin is installed whole or not at all, and enabled only when it is whole,
\* through every failure of a step of a command that is not disturbed.
THEOREM InstallsWhole == InstallSpec => []InstalledWhole
<1>1. InstallInit => InstallInv
  BY DEF InstallInit, InstallInv, Alone, Stage, AtRest, Whole, Nothing
<1>2. InstallTypeOK /\ InstallInv => InstalledWhole
  <2> SUFFICES ASSUME InstallTypeOK, InstallInv, Calm PROVE InstalledWhole
    BY DEF InstalledWhole, AllOrNothing, NoStrayFiles, EnabledWhole, Calm
  <2>1. \A c \in Commands : command[c] \notin Idle =>
            command[c] \in Working
    BY DEF InstallTypeOK
  <2>2. AllOrNothing
    BY DEF InstallInv, AllOrNothing, Whole, Nothing
  <2>3. NoStrayFiles
    BY <2>1 DEF Working, InstallInv, NoStrayFiles, AtRest, Stage, Whole, Nothing
  <2>4. EnabledWhole
    BY <2>1 DEF Working, InstallInv, EnabledWhole, AtRest, Stage, Whole, Nothing
  <2> QED BY <2>2, <2>3, <2>4 DEF InstalledWhole
<1> QED BY <1>1, <1>2, InstallInvKept, InstallTypeCorrect, PTL DEF InstallSpec

-----------------------------------------------------------------------------
(* What the commands promise.                                              *)

\* A new record has no checksums until its command stores them.
RecordsFresh ==
    /\ record <= lastRecord /\ \A r \in checksums : r <= lastRecord
    /\ Calm => \A c \in Commands : command[c] \in {"hash", "sums", "clean"} => record \notin checksums

\* What has been disturbed stays so.
LEMMA CalmBefore ==
  ASSUME InstallTypeOK, NEW c \in Commands, Calm',
         Installing(c) \/ Uninstalling(c) \/ Enable(c) \/ CommandCrashes(c)
  PROVE  Calm
<1>0. overlap \in BOOLEAN /\ crash \in BOOLEAN /\ unclean \in BOOLEAN
  BY DEF InstallTypeOK
<1>1. CASE Installing(c)
  BY <1>0, <1>1
     DEF Installing, BeginInstall, CheckRow, BeginCopy, EndCopy, CopyFails, RemoveCopy, InsertRow, InsertFails,
         HashFiles, StoreChecksums, ChecksumsFail, CleanFiles, CleanRow, Starts, RemoveFiles, RemoveFails, Calm
<1>2. CASE Uninstalling(c)
  BY <1>0, <1>2
     DEF Uninstalling, BeginUninstall, Disable, WipeFiles, ForgetRow, Starts, RemoveFiles, RemoveFails, Calm
<1>3. CASE Enable(c) \/ CommandCrashes(c)
  BY <1>0, <1>3 DEF Enable, CommandCrashes, Starts, Calm
<1> QED BY <1>1, <1>2, <1>3

LEMMA RecordsFreshKept ==
  InstallTypeOK /\ InstallInv /\ RecordsFresh /\ [InstallNext]_installVars => RecordsFresh'
<1> SUFFICES ASSUME InstallTypeOK, InstallInv, RecordsFresh, [InstallNext]_installVars PROVE RecordsFresh'
  OBVIOUS
<1>0. /\ record \in Nat /\ lastRecord \in Nat /\ checksums \subseteq Nat
      /\ command \in [Commands -> Idle \cup Working]
  BY InstallAssumption DEF InstallTypeOK, Records
<1>1. CASE UNCHANGED installVars
  BY <1>1 DEF installVars, RecordsFresh, Calm
<1>2. ASSUME NEW c \in Commands, Installing(c) \/ Uninstalling(c) \/ Enable(c) \/ CommandCrashes(c)
      PROVE  RecordsFresh'
  <2>9. \E next : CommandTo(c, next)
    BY <1>2
       DEF Installing, BeginInstall, CheckRow, BeginCopy, EndCopy, CopyFails, RemoveCopy, InsertRow, InsertFails,
           HashFiles, StoreChecksums, ChecksumsFail, CleanFiles, CleanRow, Uninstalling, BeginUninstall, Disable,
           WipeFiles, ForgetRow, Enable, CommandCrashes, Starts
  <2>8. Calm' => Calm
    BY <1>2, CalmBefore
  <2>0. (\A d \in Commands : d # c => command'[d] = command[d]) /\ (Calm' => Calm)
    BY <1>0, <2>8, <2>9
  <2>1. CASE InsertRow(c)
    <3>1. lastRecord' = lastRecord + 1 /\ record' = lastRecord' /\ checksums' = checksums
      BY <2>1 DEF InsertRow
    <3> QED BY <1>0, <3>1 DEF RecordsFresh
  <2>2. CASE StoreChecksums(c)
    <3>1. /\ checksums' = checksums \cup {record} /\ record' = record /\ lastRecord' = lastRecord
          /\ command[c] = "sums" /\ command'[c] = "done"
      BY <1>0, <2>2 DEF StoreChecksums
    <3>2. ASSUME Calm' PROVE \A d \in Commands : command'[d] \notin {"hash", "sums", "clean"}
      <4>1. Alone(c)
        BY <2>0, <3>1, <3>2 DEF InstallInv
      <4> QED BY <2>0, <3>1, <4>1 DEF Alone
    <3> QED BY <1>0, <3>1, <3>2 DEF RecordsFresh
  <2>3. CASE CleanRow(c) \/ ForgetRow(c)
    <3>1. \/ record' = 0 /\ checksums' \subseteq checksums /\ lastRecord' = lastRecord
          \/ UNCHANGED <<record, checksums, lastRecord>>
      BY <2>3 DEF CleanRow, ForgetRow, DeleteRow
    <3>2. command'[c] \in {"done", "failed"}
      BY <1>0, <2>3 DEF CleanRow, ForgetRow
    <3>3. ASSUME Calm' PROVE \A d \in Commands : command'[d] \notin {"hash", "sums", "clean"}
      <4>1. command[c] \in {"unrow", "forget"}
        BY <2>3 DEF CleanRow, ForgetRow
      <4>2. Alone(c)
        BY <2>0, <3>3, <4>1 DEF InstallInv
      <4> QED BY <2>0, <3>2, <4>2 DEF Alone
    <3>4. record' <= lastRecord'
      BY <1>0, <3>1 DEF RecordsFresh
    <3>5. \A r \in checksums' : r <= lastRecord'
      BY <3>1 DEF RecordsFresh
    <3> QED BY <3>3, <3>4, <3>5 DEF RecordsFresh
  <2>4. CASE ~(InsertRow(c) \/ StoreChecksums(c) \/ CleanRow(c) \/ ForgetRow(c))
    <3>1. UNCHANGED <<record, checksums, lastRecord>>
      BY <1>2, <2>4
         DEF Installing, BeginInstall, CheckRow, BeginCopy, EndCopy, CopyFails, RemoveCopy, InsertFails,
             HashFiles, ChecksumsFail, CleanFiles, Uninstalling, BeginUninstall, Disable,
             WipeFiles, Enable, CommandCrashes
    <3>2. command'[c] \in {"hash", "sums", "clean"} => command[c] \in {"hash", "sums", "clean"}
      BY <1>0, <1>2, <2>4
         DEF Installing, BeginInstall, CheckRow, BeginCopy, EndCopy, CopyFails, RemoveCopy, InsertFails,
             HashFiles, ChecksumsFail, CleanFiles, Uninstalling, BeginUninstall, Disable,
             WipeFiles, Enable, CommandCrashes, Starts
    <3> QED BY <2>0, <3>1, <3>2 DEF RecordsFresh
  <2> QED BY <2>1, <2>2, <2>3, <2>4
<1> QED BY <1>1, <1>2 DEF InstallNext

\* What a command has reported changes in one step of that command only.
LEMMA OutcomeStep ==
  ASSUME command \in [Commands -> Idle \cup Working], NEW c \in Commands, NEW next, CommandTo(c, next)
  PROVE  /\ \A d \in Commands : d # c => OutcomeOf(d)' = OutcomeOf(d)
         /\ next = "forget" => OutcomeOf(c)' = "removed"
         /\ next \in {"done", "failed"} => OutcomeOf(c)' = next
         /\ next \notin {"forget", "done", "failed"} => OutcomeOf(c)' = "open"
         /\ [d \in Commands |-> OutcomeOf(d)]' = [[d \in Commands |-> OutcomeOf(d)] EXCEPT ![c] = OutcomeOf(c)']
<1>1. command'[c] = next /\ \A d \in Commands : d # c => command'[d] = command[d]
  OBVIOUS
<1>2. \A d \in Commands : d # c => OutcomeOf(d)' = OutcomeOf(d)
  BY <1>1 DEF OutcomeOf
<1> QED BY <1>1, <1>2 DEF OutcomeOf

LEMMA OutcomeEnds ==
  ASSUME command \in [Commands -> Idle \cup Working], NEW c \in Commands, NEW next, CommandTo(c, next),
         NEW to, OutcomeOf(c)' = to, NEW from, OutcomeOf(c) = from
  PROVE  InstallPromise!Ends(c, from, to)
BY OutcomeStep DEF InstallPromise!Ends

LEMMA OutcomeStays ==
  ASSUME command \in [Commands -> Idle \cup Working], NEW c \in Commands, NEW next, CommandTo(c, next),
         OutcomeOf(c)' = OutcomeOf(c)
  PROVE  [d \in Commands |-> OutcomeOf(d)]' = [d \in Commands |-> OutcomeOf(d)]
BY OutcomeStep

\* How the plugin looks, in each of the states an undisturbed command leaves.
LEMMA PluginForms ==
  /\ ~Calm => PluginIs = "unknown"
  /\ Calm /\ Whole /\ enabled => PluginIs = "enabled"
  /\ Calm /\ Whole /\ ~enabled => PluginIs = "installed"
  /\ Calm /\ ~Whole => PluginIs = "absent"
BY DEF PluginIs, Calm, Whole

\* Commands at rest and alone have removed nothing that they have to confirm.
LEMMA NoneRemoved ==
  ASSUME NEW c \in Commands, Alone(c), command[c] # "forget"
  PROVE  \A d \in Commands : OutcomeOf(d) # "removed"
BY DEF Alone, OutcomeOf

LEMMA CommandDelivers ==
  ASSUME InstallTypeOK, InstallInv, RecordsFresh, Calm', NEW c \in Commands,
         Installing(c) \/ Uninstalling(c) \/ Enable(c) \/ CommandCrashes(c)
  PROVE  InstallPromise!Step \/ UNCHANGED InstallPromise!vars
<1> DEFINE Done == InstallPromise!Step \/ UNCHANGED InstallPromise!vars
<1>0. command \in [Commands -> Idle \cup Working] /\ enabled \in BOOLEAN
  BY DEF InstallTypeOK
<1>1. ~CommandCrashes(c)
  BY DEF CommandCrashes, Calm
<1>2. Calm
  BY CalmBefore
<1>3. ASSUME command[c] \notin Idle PROVE Alone(c) /\ Stage(c)
  BY <1>2, <1>3 DEF InstallInv
<1>4. ASSUME NEW next, Starts(c, next) PROVE Alone(c) /\ (Whole \/ Nothing) /\ command[c] = "new"
  BY <1>2, <1>4, BeginsAlone DEF InstallInv, Starts
<1>5. ASSUME NEW next, CommandTo(c, next), next \notin {"done", "failed", "forget"},
             command[c] \notin {"done", "failed", "forget"}, PluginIs' = PluginIs
      PROVE  Done
  <2>1. OutcomeOf(c)' = OutcomeOf(c)
    BY <1>0, <1>5, OutcomeStep DEF OutcomeOf
  <2>2. [d \in Commands |-> OutcomeOf(d)]' = [d \in Commands |-> OutcomeOf(d)]
    BY <1>0, <1>5, <2>1, OutcomeStays
  <2> QED BY <1>5, <2>2 DEF InstallPromise!vars
<1>6. ASSUME CommandTo(c, "failed"), command[c] \notin {"done", "failed", "forget"}, PluginIs' = PluginIs
      PROVE  Done
  <2>1. OutcomeOf(c) = "open" /\ OutcomeOf(c)' = "failed"
    BY <1>0, <1>6, OutcomeStep DEF OutcomeOf
  <2>2. InstallPromise!Ends(c, "open", "failed")
    BY <1>0, <1>6, <2>1, OutcomeEnds
  <2>3. PluginIs # "unknown"
    BY <1>2, PluginForms
  <2> QED BY <1>6, <2>2, <2>3 DEF InstallPromise!Fail, InstallPromise!Step
<1>7. CASE BeginInstall(c) \/ BeginUninstall(c)
  <2>1. PluginIs' = PluginIs
    BY <1>2, <1>7 DEF BeginInstall, BeginUninstall, PluginIs, Calm
  <2>2. PICK next \in {"row", "failed", "disable", "wipe"} : CommandTo(c, next) /\ command[c] = "new"
    BY <1>7 DEF BeginInstall, BeginUninstall, Starts
  <2> QED BY <1>5, <1>6, <2>1, <2>2
<1>8. CASE Enable(c)
  <2>1. Starts(c, IF record = 0 THEN "failed" ELSE "done") /\ (Whole \/ Nothing)
        /\ enabled' = (record # 0) /\ UNCHANGED <<files, record, checksums>>
    BY <1>4, <1>8 DEF Enable
  <2>2. CASE record = 0
    <3>1. PluginIs' = PluginIs
      BY <1>2, <2>1, <2>2 DEF Calm, PluginIs
    <3> QED BY <1>6, <2>1, <2>2, <3>1 DEF Starts
  <2>3. CASE record # 0
    <3>1. CommandTo(c, "done") /\ command[c] = "new" /\ Whole /\ Whole' /\ enabled'
      BY <2>1, <2>3 DEF Starts, Whole, Nothing
    <3>2. PluginIs \in {"installed", "enabled"} /\ PluginIs' = "enabled"
      BY <1>2, <3>1 DEF PluginIs, Calm, Whole
    <3>3. OutcomeOf(c) = "open" /\ OutcomeOf(c)' = "done"
      BY <1>0, <3>1, OutcomeStep DEF OutcomeOf
    <3>4. InstallPromise!Ends(c, "open", "done")
      BY <1>0, <3>1, <3>3, OutcomeEnds
    <3> QED BY <3>2, <3>4 DEF InstallPromise!Enable, InstallPromise!Step
  <2> QED BY <2>2, <2>3
<1>9. CASE CheckRow(c) \/ BeginCopy(c) \/ EndCopy(c) \/ CopyFails(c) \/ InsertFails(c) \/ RemoveCopy(c)
  <2>1. Stage(c)
    BY <1>3, <1>9 DEF CheckRow, BeginCopy, EndCopy, CopyFails, InsertFails, RemoveCopy
  <2>2. record = 0 /\ record' = 0
    BY <1>9, <2>1
       DEF CheckRow, BeginCopy, EndCopy, CopyFails, InsertFails, RemoveCopy, Stage, Nothing
  <2>3. PluginIs' = PluginIs
    BY <1>2, <2>2, PluginForms DEF PluginIs, Calm
  <2>4. PICK next \in {"copy", "failed", "copying", "insert", "remove"} :
            CommandTo(c, next) /\ command[c] \notin {"done", "failed", "forget"}
    BY <1>9 DEF CheckRow, BeginCopy, EndCopy, CopyFails, InsertFails, RemoveCopy
  <2> QED BY <1>5, <1>6, <2>3, <2>4
<1>10. CASE InsertRow(c)
  <2>1. /\ record = 0 /\ record' = lastRecord + 1 /\ checksums' = checksums /\ CommandTo(c, "hash")
        /\ command[c] = "insert"
    BY <1>10 DEF InsertRow
  <2>2. lastRecord \in Nat
    BY InstallAssumption DEF InstallTypeOK
  <2>3. record' \notin checksums'
    BY <2>1, <2>2 DEF RecordsFresh
  <2>4. PluginIs' = PluginIs
    BY <1>2, <2>1, <2>3 DEF PluginIs, Calm
  <2> QED BY <1>5, <2>1, <2>4
<1>11. CASE HashFiles(c) \/ ChecksumsFail(c) \/ CleanFiles(c)
  <2>1. record \notin checksums /\ UNCHANGED <<record, checksums>>
    BY <1>2, <1>11 DEF HashFiles, ChecksumsFail, CleanFiles, RecordsFresh
  <2>2. PluginIs' = PluginIs
    BY <1>2, <2>1 DEF PluginIs, Calm
  <2>3. PICK next \in {"sums", "clean", "unrow"} :
            CommandTo(c, next) /\ command[c] \in {"hash", "sums", "clean"}
    BY <1>11 DEF HashFiles, ChecksumsFail, CleanFiles
  <2> QED BY <1>5, <2>2, <2>3
<1>12. CASE StoreChecksums(c)
  <2>1. /\ command[c] = "sums" /\ CommandTo(c, "done") /\ checksums' = checksums \cup {record}
        /\ UNCHANGED <<record, files, enabled>>
    BY <1>12 DEF StoreChecksums
  <2>2. Alone(c) /\ record # 0 /\ ~enabled /\ files = "whole" /\ record \notin checksums
    BY <1>2, <1>3, <2>1 DEF Stage, RecordsFresh
  <2>3. PluginIs = "absent" /\ PluginIs' = "installed"
    BY <1>2, <2>1, <2>2 DEF PluginIs, Calm
  <2>4. \A d \in Commands : OutcomeOf(d) # "removed"
    BY <2>1, <2>2, NoneRemoved
  <2>5. InstallPromise!Ends(c, "open", "done")
    <3>1. OutcomeOf(c) = "open" /\ OutcomeOf(c)' = "done"
      BY <1>0, <2>1, OutcomeStep DEF OutcomeOf
    <3> QED BY <1>0, <2>1, <3>1, OutcomeEnds
  <2> QED BY <2>3, <2>4, <2>5 DEF InstallPromise!Install, InstallPromise!Step
<1>13. CASE CleanRow(c)
  <2>1. /\ CommandTo(c, "failed") /\ command[c] = "unrow" /\ files = "none" /\ files' = "none"
    BY <1>3, <1>13 DEF CleanRow, Stage
  <2>2. PluginIs' = PluginIs
    BY <1>2, <2>1 DEF PluginIs, Calm
  <2> QED BY <1>6, <2>1, <2>2
<1>14. CASE Disable(c)
  <2>1. /\ command[c] = "disable" /\ Whole
        /\ UNCHANGED <<files, record, checksums>>
    BY <1>3, <1>14 DEF Disable, Stage
  <2>2. CASE CommandTo(c, "failed") /\ UNCHANGED enabled
    <3>1. PluginIs' = PluginIs
      BY <1>2, <2>1, <2>2 DEF PluginIs, Calm
    <3> QED BY <1>6, <2>1, <2>2, <3>1
  <2>3. CASE CommandTo(c, "wipe") /\ enabled' = FALSE
    <3>1. OutcomeOf(c)' = OutcomeOf(c) /\ OutcomeOf(c) = "open"
      BY <1>0, <2>1, <2>3, OutcomeStep DEF OutcomeOf
    <3>2. [d \in Commands |-> OutcomeOf(d)]' = [d \in Commands |-> OutcomeOf(d)]
      BY <1>0, <2>3, <3>1, OutcomeStays
    <3>3. PluginIs' = "installed"
      BY <1>2, <2>1, <2>3 DEF PluginIs, Calm, Whole
    <3>4. CASE enabled
      <4>1. PluginIs = "enabled"
        BY <1>2, <2>1, <3>4 DEF PluginIs, Calm, Whole
      <4> QED BY <3>1, <3>2, <3>3, <4>1 DEF InstallPromise!Disable, InstallPromise!Step
    <3>5. CASE ~enabled
      <4>1. PluginIs = "installed"
        BY <1>2, <2>1, <3>5 DEF PluginIs, Calm, Whole
      <4> QED BY <3>2, <3>3, <4>1 DEF InstallPromise!vars
    <3> QED BY <3>4, <3>5
  <2> QED BY <1>14, <2>2, <2>3 DEF Disable
<1>15. CASE WipeFiles(c)
  <2>1. /\ command[c] = "wipe" /\ Whole /\ ~enabled /\ CommandTo(c, "forget") /\ files' = "none"
        /\ UNCHANGED <<record, checksums, enabled>>
    BY <1>3, <1>15 DEF WipeFiles, Stage, RemoveFiles, RemoveFails, Calm
  <2>2. PluginIs = "installed" /\ PluginIs' = "absent"
    BY <1>2, <2>1 DEF PluginIs, Calm, Whole
  <2>3. OutcomeOf(c) = "open" /\ OutcomeOf(c)' = "removed"
    BY <1>0, <2>1, OutcomeStep DEF OutcomeOf
  <2>4. InstallPromise!Ends(c, "open", "removed")
    BY <1>0, <2>1, <2>3, OutcomeEnds
  <2> QED BY <2>2, <2>4 DEF InstallPromise!Remove, InstallPromise!Step
<1>16. CASE ForgetRow(c)
  <2>1. /\ command[c] = "forget" /\ CommandTo(c, "done") /\ files = "none" /\ files' = "none"
    BY <1>3, <1>16 DEF ForgetRow, Stage, Calm
  <2>2. PluginIs = "absent" /\ PluginIs' = "absent"
    BY <1>2, <2>1 DEF PluginIs, Calm
  <2>3. OutcomeOf(c) = "removed" /\ OutcomeOf(c)' = "done"
    BY <1>0, <2>1, OutcomeStep DEF OutcomeOf
  <2>4. InstallPromise!Ends(c, "removed", "done")
    BY <1>0, <2>1, <2>3, OutcomeEnds
  <2> QED BY <2>2, <2>4 DEF InstallPromise!Confirm, InstallPromise!Step
<1> QED BY <1>1, <1>7, <1>8, <1>9, <1>10, <1>11, <1>12, <1>13, <1>14, <1>15, <1>16
        DEF Installing, Uninstalling

\* Installing and removing a plugin is atomic: with one command at a time, none
\* crashing and every cleanup succeeding, whatever else fails.
THEOREM InstallsAreAtomic == InstallSpec => InstallsAtomically
<1>1. InstallInit => InstallInv /\ RecordsFresh
  BY DEF InstallInit, InstallInv, Alone, Stage, AtRest, Whole, Nothing, RecordsFresh
<1>2. InstallInit => InstallPromise!Init
  BY DEF InstallInit, InstallPromise!Init, PluginIs, OutcomeOf
<1>3. InstallTypeOK /\ InstallInv /\ RecordsFresh /\ InstallTypeOK' /\ [InstallNext]_installVars
        => [InstallPromise!Step]_(InstallPromise!vars)
  <2> SUFFICES ASSUME InstallTypeOK, InstallInv, RecordsFresh, InstallTypeOK', [InstallNext]_installVars
               PROVE  InstallPromise!Step \/ UNCHANGED InstallPromise!vars
    OBVIOUS
  <2>0. command \in [Commands -> Idle \cup Working]
    BY DEF InstallTypeOK
  <2>1. CASE UNCHANGED installVars
    BY <2>1 DEF installVars, InstallPromise!vars, PluginIs, OutcomeOf
  <2>2. ASSUME NEW c \in Commands, Installing(c) \/ Uninstalling(c) \/ Enable(c) \/ CommandCrashes(c)
        PROVE  InstallPromise!Step \/ UNCHANGED InstallPromise!vars
    <3>1. CASE Calm'
      BY <2>2, <3>1, CommandDelivers
    <3>2. CASE ~Calm'
      <4>1. PluginIs' = "unknown"
        BY <3>2 DEF PluginIs, Calm
      <4>2. \A d \in Commands : OutcomeOf(d)' \in {"open", "removed", "done", "failed"}
        BY DEF OutcomeOf
      <4>3. (\E next : CommandTo(c, next)) /\ command[c] \notin {"done", "failed"}
        BY <2>2
           DEF Installing, BeginInstall, CheckRow, BeginCopy, EndCopy, CopyFails, RemoveCopy, InsertRow,
               InsertFails, HashFiles, StoreChecksums, ChecksumsFail, CleanFiles, CleanRow, Uninstalling,
               BeginUninstall, Disable, WipeFiles, ForgetRow, Enable, CommandCrashes, Starts
      <4>4. \A d \in Commands : OutcomeOf(d) \in {"done", "failed"} => OutcomeOf(d)' = OutcomeOf(d)
        BY <2>0, <4>3 DEF OutcomeOf
      <4> QED BY <4>1, <4>2, <4>4 DEF InstallPromise!Disturb, InstallPromise!Final, InstallPromise!Step
    <3> QED BY <3>1, <3>2
  <2> QED BY <2>1, <2>2 DEF InstallNext
<1>4. [InstallPromise!Step]_(InstallPromise!vars) => [InstallPromise!Next]_(InstallPromise!vars)
  BY DEF InstallPromise!Next
<1> QED BY <1>1, <1>2, <1>3, <1>4, InstallInvKept, RecordsFreshKept, InstallTypeCorrect, PTL
        DEF InstallSpec, InstallsAtomically, InstallPromise!Spec
=============================================================================
