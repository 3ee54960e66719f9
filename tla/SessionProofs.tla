--------------------------- MODULE SessionProofs ----------------------------
(***************************************************************************)
(* Proofs about one session and what lives on its events. SessionManager   *)
(* on PtyWrapper, for any number of callers of KillSession, of clients,    *)
(* and for processes that obey SIGTERM or not: ReapInv ties the once, the  *)
(* exit code and the waiting goroutines together; ExitInv, when a process  *)
(* cannot hang up its terminal, says what a closed PTY file, a cleared     *)
(* isRunning flag and a successful Stop imply about the process.           *)
(*                                                                         *)
(* The session's journal, for any number of writers, dates and faults:     *)
(* MutexBudget and EntryBudget count what its goroutines can still make,   *)
(* FileInv says that whoever is inside an entry has the mutex that is in   *)
(* the map, HalfInv and OneInv where the entries of a compaction are and   *)
(* who holds its guard.                                                    *)
(*                                                                         *)
(* Onboarding and heartbeats, for any sessions and any number of crashes   *)
(* and restarts. At the end the three together, as MCSessions has them.    *)
(***************************************************************************)
EXTENDS MCSessions, FiniteSetTheorems, TLAPS

-----------------------------------------------------------------------------
(* The once: who is inside it, and what is known when it is done.          *)

ReapInv ==
    /\ (once = "done") <=> (proc = "reaped")
    /\ once = "done" => exitCode
    /\ once = "capture" => capture = "wait"
    /\ \A k \in Killers : reaper[k] = "end" => once = "done"
    /\ capture \in {"emit", "close", "end"} => once = "done"
    /\ \A i \in 1..Len(events) : events[i] = "exited" => once = "done"
    /\ monitor \in {"status", "handler", "notify", "publish"} => once = "done"

\* The part of the type invariant the steps below need.
PtyTypes ==
    /\ reaper \in [Killers -> {"none", "reap", "wait", "end"}]
    /\ stop \in [Killers -> {"idle", "lock", "term", "select", "relock",
                             "kill", "await", "end"}]
    /\ result \in [Killers -> {"none", "ok", "error"}]
    /\ events \in Seq({"started", "exited"})

LEMMA AppendExited ==
    ASSUME NEW s \in Seq({"started", "exited"})
    PROVE  Append(s, "exited") \in Seq({"started", "exited"})
    OBVIOUS

LEMMA TailEvents ==
    ASSUME NEW s \in Seq({"started", "exited"}), s # <<>>
    PROVE  /\ Tail(s) \in Seq({"started", "exited"})
           /\ Len(Tail(s)) = Len(s) - 1 /\ Len(s) \in Nat \ {0}
           /\ \A i \in 1..Len(Tail(s)) : Tail(s)[i] = s[i + 1]
           /\ Head(s) = s[1] /\ 1 \in 1..Len(s)
    OBVIOUS

LEMMA InitPtyTypes == Init => PtyTypes
<1> HAVE Init
<1>1. <<"started">> \in Seq({"started", "exited"})
    OBVIOUS
<1>. QED BY <1>1 DEF Init, PtyInit, PtyTypes

\* Every step of the capture goroutine, of a Stop, or of a reaping goroutine
\* keeps the types.
LEMMA StepPtyTypes == PtyTypes /\ [Next]_vars => PtyTypes'
<1> SUFFICES ASSUME PtyTypes, [Next]_vars PROVE PtyTypes'
    OBVIOUS
<1>1. CASE UNCHANGED <<stop, reaper, result, events>>
    BY <1>1 DEF PtyTypes
<1>2. CASE CapEmit
    BY <1>2, AppendExited DEF PtyTypes, CapEmit
<1>3. CASE MonitorRecv
    BY <1>3, TailEvents DEF PtyTypes, MonitorRecv
<1>4. ASSUME NEW k \in Killers, StopStep(k) \/ Reap(k) \/ KillCall(k)
      PROVE  PtyTypes'
  <2>1. events' = events
    BY <1>4 DEF StopStep, Reap, KillCall, StopCall, StopLock, StopTerm, StopDone,
                StopTimeout, StopRelock, StopKill, StopAwait, ReapEnter, ReapWait,
                CloseEvents, evVars
  <2>2. stop' \in [Killers -> {"idle", "lock", "term", "select", "relock",
                               "kill", "await", "end"}]
    BY <1>4 DEF PtyTypes, StopStep, Reap, KillCall, StopCall, StopLock, StopTerm,
                StopDone, StopTimeout, StopRelock, StopKill, StopAwait, ReapEnter,
                ReapWait, StopReturn, StopGoto
  <2>3. reaper' \in [Killers -> {"none", "reap", "wait", "end"}]
    BY <1>4 DEF PtyTypes, StopStep, Reap, KillCall, StopCall, StopLock, StopTerm,
                StopDone, StopTimeout, StopRelock, StopKill, StopAwait, ReapEnter,
                ReapWait, OnceEnter, OnceWait
  <2>4. result' \in [Killers -> {"none", "ok", "error"}]
    BY <1>4 DEF PtyTypes, StopStep, Reap, KillCall, StopCall, StopLock, StopTerm,
                StopDone, StopTimeout, StopRelock, StopKill, StopAwait, ReapEnter,
                ReapWait, StopReturn
  <2>. QED BY <2>1, <2>2, <2>3, <2>4 DEF PtyTypes
<1>5. CASE ProcExit \/ ProcHangup
    BY <1>1, <1>5 DEF ProcExit, ProcHangup, evVars
<1>6. CASE Capture
    BY <1>1, <1>2, <1>6 DEF Capture, CapEof, CapFlag, CapReap, CapWait, CapClose, evVars
<1>7. CASE Create \/ Monitor
    BY <1>1, <1>3, <1>7 DEF Create, CreateMonitor, CreateStore, CreateAnnounce,
       Monitor, MonitorStatus, MonitorHandler, MonitorNotify, MonitorPublish,
       ptyVars, evVars
<1>8. ASSUME NEW c \in Clients, Attach(c) \/ Detach(c) \/ ClientStep(c)
      PROVE  PtyTypes'
    BY <1>1, <1>8 DEF Attach, Detach, ClientStep, AttachCount, AttachCheck,
       AttachStatus, AttachSet, AttachAnnounce, DetachCheck, DetachStatus,
       DetachSet, DetachAnnounce, ptyVars, evVars
<1>9. ASSUME NEW k \in Killers, KillStep(k)
      PROVE  PtyTypes'
    BY <1>1, <1>9 DEF KillStep, KillReturn, KillStatus, KillNotify, KillPublish,
       ptyVars, evVars
<1>10. CASE UNCHANGED vars
    BY <1>1, <1>10 DEF vars, ptyVars, evVars
<1>. QED BY <1>4, <1>5, <1>6, <1>7, <1>8, <1>9, <1>10 DEF Next, PtyNext

LEMMA InitReap == Init => ReapInv
    BY DEF Init, PtyInit, ReapInv

\* A step that leaves the reaping variables alone keeps ReapInv.
LEMMA ReapFrame ==
    ReapInv /\ UNCHANGED <<proc, once, exitCode, capture, reaper, events, monitor>>
        => ReapInv'
    BY DEF ReapInv

\* The steps of the PTY layer that touch the once, the child or an event.
LEMMA PtyReap ==
    ASSUME PtyTypes, ReapInv, PtyNext, UNCHANGED sessVars
    PROVE  ReapInv'
<1>1. monitor' = monitor
    BY DEF sessVars
<1>2. CASE ProcExit \/ ProcHangup
    BY <1>1, <1>2 DEF ReapInv, ProcExit, ProcHangup, evVars
<1>3. CASE CapReap
    BY <1>1, <1>3 DEF ReapInv, CapReap, OnceEnter, procVars, evVars
<1>4. CASE CapWait
    BY <1>1, <1>4 DEF ReapInv, CapWait, OnceWait, evVars
<1>5. CASE CapEmit
  <2>1. once = "done"
    BY <1>5 DEF CapEmit, ReapInv
  <2>. QED BY <1>1, <1>5, <2>1 DEF ReapInv, CapEmit, procVars
<1>6. CASE CapEof \/ CapFlag \/ CapClose
    BY <1>1, <1>6 DEF ReapInv, CapEof, CapFlag, CapClose, procVars, evVars
<1>7. ASSUME NEW k \in Killers, Reap(k)
      PROVE  ReapInv'
  <2>1. CASE ReapEnter(k)
    BY <1>1, <2>1, KillersAssumption
       DEF ReapInv, PtyTypes, ReapEnter, OnceEnter, procVars, evVars
  <2>2. CASE ReapWait(k)
    BY <1>1, <2>2, KillersAssumption
       DEF ReapInv, PtyTypes, ReapWait, OnceWait, evVars
  <2>. QED BY <1>7, <2>1, <2>2 DEF Reap
<1>8. ASSUME NEW k \in Killers, StopStep(k)
      PROVE  ReapInv'
  <2>1. UNCHANGED <<proc, once, exitCode, capture, events>>
    BY <1>8 DEF StopStep, StopLock, StopTerm, StopDone, StopTimeout, StopRelock,
       StopKill, StopAwait, procVars, evVars
  <2>2. \A q \in Killers : reaper'[q] = "end" => reaper[q] = "end"
    BY <1>8 DEF PtyTypes, StopStep, StopLock, StopTerm, StopDone, StopTimeout,
       StopRelock, StopKill, StopAwait
  <2>. QED BY <1>1, <2>1, <2>2 DEF ReapInv
<1>. QED BY <1>2, <1>3, <1>4, <1>5, <1>6, <1>7, <1>8 DEF PtyNext, Capture

LEMMA StepReap == PtyTypes /\ ReapInv /\ [Next]_vars => ReapInv'
<1> SUFFICES ASSUME PtyTypes, ReapInv, [Next]_vars PROVE ReapInv'
    OBVIOUS
<1>1. CASE UNCHANGED <<proc, once, exitCode, capture, reaper, events, monitor>>
    BY <1>1, ReapFrame
<1>2. CASE PtyNext /\ UNCHANGED sessVars
    BY <1>2, PtyReap
<1>3. ASSUME NEW k \in Killers, KillCall(k) \/ KillStep(k)
      PROVE  ReapInv'
    BY <1>1, <1>3 DEF KillCall, StopCall, KillStep, KillReturn, KillStatus,
       KillNotify, KillPublish, ptyVars, procVars, evVars, sessVars
<1>4. CASE Create
    BY <1>4 DEF ReapInv, Create, CreateMonitor, CreateStore, CreateAnnounce,
       ptyVars, procVars, evVars
<1>5. CASE MonitorRecv
  <2>1. CASE events # <<>>
    BY <1>5, <2>1, TailEvents DEF ReapInv, PtyTypes, MonitorRecv, procVars
  <2>2. CASE events = <<>>
    BY <1>5, <2>2 DEF ReapInv, MonitorRecv, procVars
  <2>. QED BY <2>1, <2>2
<1>6. CASE MonitorStatus \/ MonitorHandler \/ MonitorNotify \/ MonitorPublish
    BY <1>6 DEF ReapInv, MonitorStatus, MonitorHandler, MonitorNotify,
       MonitorPublish, ptyVars, procVars, evVars
<1>7. ASSUME NEW c \in Clients, Attach(c) \/ Detach(c) \/ ClientStep(c)
      PROVE  ReapInv'
    BY <1>1, <1>7 DEF Attach, Detach, ClientStep, AttachCount, AttachCheck,
       AttachStatus, AttachSet, AttachAnnounce, DetachCheck, DetachStatus,
       DetachSet, DetachAnnounce, ptyVars, procVars, evVars
<1>8. CASE UNCHANGED vars
    BY <1>1, <1>8 DEF vars, ptyVars, procVars, evVars, sessVars
<1>. QED BY <1>2, <1>3, <1>4, <1>5, <1>6, <1>7, <1>8 DEF Next, Monitor

-----------------------------------------------------------------------------
(* What a child without a terminal, a closed PTY file and a stop imply.    *)

Ended == Doomed \/ HungUp

ExitInv ==
    /\ proc # "alive" \/ ptyClosed \/ capture # "read" => ~tty
    /\ ~running => Ended
    /\ \A k \in Killers : result[k] = "ok" => Ended
    /\ \A k \in Killers : killer[k] # "stop" => stop[k] = "end"
    /\ \A k \in Killers :
          killer[k] \in {"status", "notify", "publish"} => result[k] = "ok"
    /\ killer \in [Killers -> {"stop", "status", "notify", "publish", "end"}]
    /\ Published("stopped") => Ended

LEMMA InitExit == Init => ExitInv
<1> HAVE Init
<1>1. ~Published("stopped")
    BY DEF Init, Published
<1>. QED BY <1>1 DEF Init, PtyInit, ExitInv

LEMMA ExitFrame ==
    ExitInv /\ UNCHANGED <<proc, signals, tty, ptyClosed, capture, running, result,
                          stop, killer, published>>
        => ExitInv'
    BY DEF ExitInv, Ended, Doomed, HungUp, Published

\* Publishing a state adds at most that state to what has been published.
LEMMA PublishAdds ==
    ASSUME NEW e, Publish(e), published \in Seq(LifecycleState),
           e \in LifecycleState
    PROVE  /\ published' \in Seq(LifecycleState)
           /\ Published("stopped")' => Published("stopped") \/ e = "stopped"
    BY DEF Publish, Published

LEMMA PtyExit ==
    ASSUME PtyTypes, ReapInv, ExitInv, PtyNext, UNCHANGED sessVars
    PROVE  ExitInv'
<1>1. killer' = killer /\ published' = published
    BY DEF sessVars
<1>2. CASE ProcExit \/ ProcHangup
    BY <1>1, <1>2 DEF ExitInv, Ended, Doomed, HungUp, Published, ProcExit, ProcHangup
<1>3. CASE Capture
    BY <1>1, <1>3 DEF ExitInv, Ended, Doomed, HungUp, Published, ReapInv, Capture, CapEof, CapFlag,
       CapReap, CapWait, CapEmit, CapClose, OnceEnter, OnceWait, procVars
<1>4. ASSUME NEW k \in Killers, Reap(k)
      PROVE  ExitInv'
    BY <1>1, <1>4 DEF ExitInv, Ended, Doomed, HungUp, Published, Reap, ReapEnter, ReapWait,
       OnceWait, procVars
<1>5. ASSUME NEW k \in Killers, StopStep(k)
      PROVE  ExitInv'
  <2>1. UNCHANGED <<proc, tty, capture>> /\ signals \subseteq signals'
    BY <1>5 DEF StopStep, StopLock, StopTerm, StopDone, StopTimeout, StopRelock,
       StopKill, StopAwait, procVars
  <2>2. stop[k] # "end" /\ killer[k] = "stop"
    BY <1>5 DEF StopStep, StopLock, StopTerm, StopDone, StopTimeout, StopRelock,
       StopKill, StopAwait, ExitInv
  <2>3. \A q \in Killers \ {k} : stop'[q] = stop[q] /\ result'[q] = result[q]
    BY <1>5 DEF PtyTypes, StopStep, StopLock, StopTerm, StopDone, StopTimeout,
       StopRelock, StopKill, StopAwait, StopReturn, StopGoto
  <2>4. ptyClosed' => ptyClosed \/ proc # "alive"
    BY <1>5 DEF StopStep, StopLock, StopTerm, StopDone, StopTimeout, StopRelock,
       StopKill, StopAwait, StopReturn, ReapInv
  <2>5. running' \/ ~running \/ Ended'
    BY <1>5 DEF StopStep, StopLock, StopTerm, StopDone, StopTimeout, StopRelock,
       StopKill, StopAwait, ReapInv, Ended, Doomed, HungUp, procVars
  <2>6. result'[k] = "ok" => result[k] = "ok" \/ Ended'
    BY <1>5 DEF PtyTypes, StopStep, StopLock, StopTerm, StopDone, StopTimeout,
       StopRelock, StopKill, StopAwait, StopReturn, ReapInv, Ended, Doomed, HungUp, procVars
  <2>. QED BY <1>1, <2>1, <2>2, <2>3, <2>4, <2>5, <2>6
           DEF ExitInv, Ended, Doomed, HungUp, Published
<1>. QED BY <1>2, <1>3, <1>4, <1>5 DEF PtyNext

\* The log of lifecycle events keeps its type and grows by what is published.
LEMMA StepPublished ==
    ASSUME published \in Seq(LifecycleState), [Next]_vars
    PROVE  published' \in Seq(LifecycleState)
<1>1. {"created", "running", "detached", "stopped"} = LifecycleState
    BY DEF LifecycleState
<1>2. CASE UNCHANGED published
    BY <1>2
<1>3. CASE Create
    BY <1>1, <1>2, <1>3, PublishAdds DEF Create, CreateMonitor, CreateStore, CreateAnnounce
<1>4. CASE Monitor
    BY <1>1, <1>2, <1>4, PublishAdds DEF Monitor, MonitorRecv, MonitorStatus,
       MonitorHandler, MonitorNotify, MonitorPublish
<1>5. ASSUME NEW c \in Clients, Attach(c) \/ Detach(c) \/ ClientStep(c)
      PROVE  published' \in Seq(LifecycleState)
    BY <1>1, <1>2, <1>5, PublishAdds DEF Attach, Detach, ClientStep, AttachCount,
       AttachCheck, AttachStatus, AttachSet, AttachAnnounce, DetachCheck,
       DetachStatus, DetachSet, DetachAnnounce
<1>6. ASSUME NEW k \in Killers, KillCall(k) \/ KillStep(k)
      PROVE  published' \in Seq(LifecycleState)
    BY <1>1, <1>2, <1>6, PublishAdds DEF KillCall, KillStep, KillReturn, KillStatus,
       KillNotify, KillPublish, sessVars
<1>7. CASE (PtyNext /\ UNCHANGED sessVars) \/ UNCHANGED vars
    BY <1>2, <1>7 DEF sessVars, vars
<1>. QED BY <1>3, <1>4, <1>5, <1>6, <1>7 DEF Next

LEMMA StepExit ==
    ASSUME PtyTypes, ReapInv, ExitInv,
           published \in Seq(LifecycleState), [Next]_vars
    PROVE  ExitInv'
<1>1. CASE UNCHANGED <<proc, signals, tty, ptyClosed, capture, running, result,
                       stop, killer, published>>
    BY <1>1, ExitFrame
<1>2. CASE PtyNext /\ UNCHANGED sessVars
    BY <1>2, PtyExit
<1>3. ASSUME NEW e \in LifecycleState, Publish(e), e = "stopped" => Ended,
             UNCHANGED <<ptyVars, killer>>
      PROVE  ExitInv'
  <2>1. Published("stopped")' => Ended
    BY <1>3, PublishAdds DEF ExitInv
  <2>. QED BY <1>3, <2>1 DEF ExitInv, Ended, Doomed, HungUp, ptyVars, procVars
<1>4. CASE Create
    BY <1>1, <1>3, <1>4 DEF Create, CreateMonitor, CreateStore, CreateAnnounce,
       LifecycleState, ptyVars, procVars
<1>5. CASE Monitor
  <2>1. CASE MonitorPublish
    BY <1>3, <2>1 DEF MonitorPublish, ReapInv, Ended, Doomed, LifecycleState
  <2>. QED BY <1>1, <1>5, <2>1 DEF Monitor, MonitorRecv, MonitorStatus,
           MonitorHandler, MonitorNotify, ptyVars, procVars
<1>6. ASSUME NEW c \in Clients, Attach(c) \/ Detach(c) \/ ClientStep(c)
      PROVE  ExitInv'
    BY <1>1, <1>3, <1>6 DEF Attach, Detach, ClientStep, AttachCount, AttachCheck,
       AttachStatus, AttachSet, AttachAnnounce, DetachCheck, DetachStatus,
       DetachSet, DetachAnnounce, LifecycleState, ptyVars, procVars
<1>7. ASSUME NEW k \in Killers, KillCall(k)
      PROVE  ExitInv'
    BY <1>7 DEF ExitInv, PtyTypes, KillCall, StopCall, StopGoto, Ended, Doomed, HungUp, Published,
       sessVars, procVars
<1>8. ASSUME NEW k \in Killers, KillReturn(k) \/ KillStatus(k) \/ KillNotify(k)
      PROVE  ExitInv'
    BY <1>8 DEF ExitInv, KillReturn, KillStatus, KillNotify, Ended, Doomed, HungUp, Published,
       ptyVars, procVars
<1>9. ASSUME NEW k \in Killers, KillPublish(k)
      PROVE  ExitInv'
  <2>1. Ended /\ stop[k] = "end" /\ Ended' = Ended
    BY <1>9 DEF KillPublish, ExitInv, Ended, Doomed, HungUp, ptyVars, procVars
  <2>. QED BY <1>9, <2>1 DEF ExitInv, KillPublish, Ended, Doomed, HungUp, ptyVars, procVars
<1>10. CASE UNCHANGED vars
    BY <1>1, <1>10 DEF vars, ptyVars, procVars, sessVars
<1>. QED BY <1>2, <1>4, <1>5, <1>6, <1>7, <1>8, <1>9, <1>10 DEF Next, KillStep

-----------------------------------------------------------------------------
(* The client counter.                                                     *)

ClientTypes ==
    /\ client \in [Clients -> {"away", "count", "check", "status", "set", "announce",
                               "here", "uncheck", "unstatus", "unset",
                               "unannounce", "gone"}]
    /\ remaining \in [Clients -> 0..Cardinality(Clients)]
CountInv == ClientTypes /\ SinksCounted

LEMMA AttachedFinite ==
    /\ IsFiniteSet(Attached) /\ Cardinality(Attached) \in 0..Cardinality(Clients)
    /\ Cardinality(Clients) \in Nat
<1>1. Attached \subseteq Clients
    BY DEF Attached
<1>. QED BY <1>1, ClientsAssumption, FS_Subset, FS_CardinalityType

LEMMA InitCount == Init => CountInv
<1> HAVE Init
<1>1. Attached = {}
    BY DEF Init, Attached
<1>. QED BY <1>1, AttachedFinite, FS_EmptySet DEF Init, CountInv, ClientTypes, SinksCounted

LEMMA StepCount == CountInv /\ [Next]_vars => CountInv'
<1> SUFFICES ASSUME CountInv, [Next]_vars PROVE CountInv'
    OBVIOUS
<1>1. CASE UNCHANGED <<client, remaining, sinks>>
    BY <1>1 DEF CountInv, ClientTypes, SinksCounted, Attached
<1>2. CASE (PtyNext /\ UNCHANGED sessVars) \/ UNCHANGED vars
    BY <1>1, <1>2 DEF sessVars, vars
<1>3. CASE Create \/ Monitor
    BY <1>1, <1>3 DEF Create, CreateMonitor, CreateStore, CreateAnnounce, Monitor,
       MonitorRecv, MonitorStatus, MonitorHandler, MonitorNotify, MonitorPublish
<1>4. ASSUME NEW k \in Killers, KillCall(k) \/ KillStep(k)
      PROVE  CountInv'
    BY <1>1, <1>4 DEF KillCall, KillStep, KillReturn, KillStatus, KillNotify,
       KillPublish, sessVars
<1>5. ASSUME NEW c \in Clients, AttachCount(c)
      PROVE  CountInv'
  <2>1. Attached' = Attached \cup {c} /\ c \notin Attached
    BY <1>5 DEF AttachCount, ClientGoto, Attached, CountInv, ClientTypes
  <2>2. Cardinality(Attached') = Cardinality(Attached) + 1
    BY <2>1, AttachedFinite, FS_AddElement
  <2>3. ClientTypes'
    BY <1>5 DEF AttachCount, ClientGoto, CountInv, ClientTypes
  <2>. QED BY <1>5, <2>2, <2>3 DEF AttachCount, CountInv, SinksCounted
<1>6. ASSUME NEW c \in Clients, Detach(c)
      PROVE  CountInv'
  <2>1. Attached' = Attached \ {c} /\ c \in Attached
    BY <1>6 DEF Detach, ClientGoto, Attached, CountInv, ClientTypes
  <2>2. Cardinality(Attached') = Cardinality(Attached) - 1
    BY <2>1, AttachedFinite, FS_RemoveElement
  <2>3. Cardinality(Attached) # 0
    BY <2>1, AttachedFinite, FS_EmptySet
  <2>4. sinks' = sinks - 1 /\ sinks' \in 0..Cardinality(Clients)
    BY <1>6, <2>3, AttachedFinite DEF Detach, CountInv, SinksCounted
  <2>5. ClientTypes'
    BY <1>6, <2>4 DEF Detach, ClientGoto, CountInv, ClientTypes
  <2>. QED BY <2>2, <2>4, <2>5 DEF CountInv, SinksCounted
<1>7. ASSUME NEW c \in Clients, Attach(c) \/ (ClientStep(c) /\ ~AttachCount(c))
      PROVE  CountInv'
  <2>1. sinks' = sinks /\ remaining' = remaining
    BY <1>7 DEF Attach, ClientStep, AttachCheck, AttachStatus, AttachSet,
       AttachAnnounce, DetachCheck, DetachStatus, DetachSet, DetachAnnounce
  <2>2. PICK to \in {"count", "status", "set", "announce", "here", "unstatus",
                     "unset", "unannounce", "gone"} : ClientGoto(c, to)
    BY <1>7 DEF Attach, ClientStep, AttachCheck, AttachStatus, AttachSet,
       AttachAnnounce, DetachCheck, DetachStatus, DetachSet, DetachAnnounce
  <2>3. c \in Attached <=> to \in {"check", "status", "set", "announce", "here"}
    BY <1>7, <2>2 DEF Attach, ClientStep, AttachCheck, AttachStatus, AttachSet,
       AttachAnnounce, DetachCheck, DetachStatus, DetachSet, DetachAnnounce,
       ClientGoto, Attached, CountInv, ClientTypes
  <2>4. Attached' = Attached
    BY <2>2, <2>3 DEF ClientGoto, Attached, CountInv, ClientTypes
  <2>5. ClientTypes'
    BY <2>1, <2>2 DEF ClientGoto, CountInv, ClientTypes
  <2>. QED BY <2>1, <2>4, <2>5 DEF CountInv, SinksCounted
<1>. QED BY <1>2, <1>3, <1>4, <1>5, <1>6, <1>7 DEF Next

-----------------------------------------------------------------------------
(* The rest of the type invariant.                                         *)

ChildTypes ==
    /\ proc \in {"alive", "zombie", "reaped"} /\ signals \subseteq {"TERM", "KILL"}
    /\ once \in {"fresh", "capture", "done"} \cup Killers
    /\ capture \in {"read", "flag", "reap", "wait", "emit", "close", "end"}
FlagTypes ==
    /\ obeys \in BOOLEAN /\ tty \in BOOLEAN /\ running \in BOOLEAN
    /\ exitCode \in BOOLEAN /\ ptyClosed \in BOOLEAN /\ eventsClosed \in BOOLEAN
    /\ handlerUp \in BOOLEAN /\ recording \in BOOLEAN
PlaceTypes ==
    /\ creator \in {"monitor", "store", "created", "running", "end"}
    /\ monitor \in {"none", "recv", "status", "handler", "notify", "publish", "end"}
    /\ killer \in [Killers -> {"stop", "status", "notify", "publish", "end"}]
    /\ status \in {"running", "detached", "stopped"}
RestTypes == ChildTypes /\ FlagTypes /\ PlaceTypes

LEMMA InitRest == Init => RestTypes
<1> HAVE Init
<1>1. ChildTypes /\ PlaceTypes
    BY DEF Init, PtyInit, ChildTypes, PlaceTypes
<1>2. obeys \in BOOLEAN
    BY ObedienceAssumption DEF Init, PtyInit
<1>3. FlagTypes
    BY <1>2 DEF Init, PtyInit, FlagTypes
<1>. QED BY <1>1, <1>3 DEF RestTypes

LEMMA PtyRest ==
    ASSUME RestTypes, PtyNext, UNCHANGED sessVars
    PROVE  RestTypes'
<1>1. PlaceTypes' /\ UNCHANGED <<handlerUp, recording>>
    BY DEF RestTypes, PlaceTypes, sessVars
<1>2. CASE ProcExit \/ ProcHangup
  <2>1. ChildTypes'
    BY <1>2 DEF RestTypes, ChildTypes, ProcExit, ProcHangup
  <2>2. FlagTypes'
    BY <1>1, <1>2 DEF RestTypes, FlagTypes, ProcExit, ProcHangup, evVars
  <2>. QED BY <1>1, <2>1, <2>2 DEF RestTypes
<1>3. CASE Capture
  <2>1. ChildTypes'
    BY <1>3 DEF RestTypes, ChildTypes, Capture, CapEof, CapFlag, CapReap, CapWait,
       CapEmit, CapClose, OnceEnter, OnceWait, procVars
  <2>2. CASE CapEof \/ CapFlag \/ CapClose
    BY <1>1, <2>1, <2>2 DEF RestTypes, FlagTypes, CapEof, CapFlag, CapClose, procVars, evVars
  <2>3. CASE CapReap \/ CapWait
    BY <1>1, <2>1, <2>3 DEF RestTypes, FlagTypes, CapReap, CapWait, OnceEnter, OnceWait,
       procVars, evVars
  <2>4. CASE CapEmit
    BY <1>1, <2>1, <2>4 DEF RestTypes, FlagTypes, CapEmit, procVars, evVars
  <2>. QED BY <1>3, <2>2, <2>3, <2>4 DEF Capture
<1>4. ASSUME NEW k \in Killers, StopStep(k) \/ Reap(k)
      PROVE  ChildTypes' /\ FlagTypes'
  <2>1. ChildTypes'
    BY <1>4 DEF RestTypes, ChildTypes, StopStep, StopLock, StopTerm, StopDone,
       StopTimeout, StopRelock, StopKill, StopAwait, Reap, ReapEnter, ReapWait,
       OnceEnter, OnceWait, procVars
  <2>2. CASE Reap(k)
    BY <1>1, <2>1, <2>2 DEF RestTypes, FlagTypes, Reap, ReapEnter, ReapWait, OnceWait,
       procVars, evVars
  <2>3. CASE StopLock(k) \/ StopTimeout(k) \/ StopRelock(k)
    BY <1>1, <2>1, <2>3 DEF RestTypes, FlagTypes, StopLock, StopTimeout, StopRelock,
       procVars, evVars
  <2>4. CASE StopTerm(k)
    BY <1>1, <2>1, <2>4 DEF RestTypes, FlagTypes, StopTerm, StopReturn, evVars
  <2>5. CASE StopDone(k)
    BY <1>1, <2>1, <2>5 DEF RestTypes, FlagTypes, StopDone, StopReturn, CloseEvents,
       procVars
  <2>6. CASE StopKill(k)
    BY <1>1, <2>1, <2>6 DEF RestTypes, FlagTypes, StopKill, StopReturn, CloseEvents
  <2>7. CASE StopAwait(k)
    BY <1>1, <2>1, <2>7 DEF RestTypes, FlagTypes, StopAwait, StopReturn, procVars, evVars
  <2>. QED BY <1>4, <2>1, <2>2, <2>3, <2>4, <2>5, <2>6, <2>7 DEF StopStep
<1>. QED BY <1>1, <1>2, <1>3, <1>4 DEF PtyNext, RestTypes

LEMMA StepRest == RestTypes /\ [Next]_vars => RestTypes'
<1> SUFFICES ASSUME RestTypes, [Next]_vars PROVE RestTypes'
    OBVIOUS
<1>1. CASE PtyNext /\ UNCHANGED sessVars
    BY <1>1, PtyRest
<1>2. CASE Create
  <2>1. UNCHANGED <<proc, signals, once, capture>>
    BY <1>2 DEF Create, CreateMonitor, CreateStore, CreateAnnounce, ptyVars, procVars
  <2>2. UNCHANGED <<obeys, tty, running, exitCode, ptyClosed>>
    BY <1>2 DEF Create, CreateMonitor, CreateStore, CreateAnnounce, ptyVars, procVars
  <2>3. eventsClosed' = eventsClosed
    BY <1>2 DEF Create, CreateMonitor, CreateStore, CreateAnnounce, ptyVars, evVars
  <2>4. handlerUp' \in BOOLEAN /\ recording' \in BOOLEAN
    BY <1>2 DEF Create, CreateMonitor, CreateStore, CreateAnnounce, RestTypes, FlagTypes
  <2>5. PlaceTypes'
    BY <1>2 DEF Create, CreateMonitor, CreateStore, CreateAnnounce, RestTypes, PlaceTypes
  <2>. QED BY <2>1, <2>2, <2>3, <2>4, <2>5 DEF RestTypes, ChildTypes, FlagTypes
<1>3. CASE Monitor
  <2>1. UNCHANGED <<proc, signals, once, capture>>
    BY <1>3 DEF Monitor, MonitorRecv, MonitorStatus, MonitorHandler,
       MonitorNotify, MonitorPublish, ptyVars, procVars
  <2>2. UNCHANGED <<obeys, tty, running, exitCode, ptyClosed>>
    BY <1>3 DEF Monitor, MonitorRecv, MonitorStatus, MonitorHandler,
       MonitorNotify, MonitorPublish, ptyVars, procVars
  <2>3. eventsClosed' = eventsClosed
    BY <1>3 DEF Monitor, MonitorRecv, MonitorStatus, MonitorHandler,
       MonitorNotify, MonitorPublish, ptyVars, evVars
  <2>4. handlerUp' \in BOOLEAN /\ recording' \in BOOLEAN
    BY <1>3 DEF Monitor, MonitorRecv, MonitorStatus, MonitorHandler,
       MonitorNotify, MonitorPublish, RestTypes, FlagTypes
  <2>5. PlaceTypes'
    BY <1>3 DEF Monitor, MonitorRecv, MonitorStatus, MonitorHandler,
       MonitorNotify, MonitorPublish, RestTypes, PlaceTypes
  <2>. QED BY <2>1, <2>2, <2>3, <2>4, <2>5 DEF RestTypes, ChildTypes, FlagTypes
<1>4. CASE \E c \in Clients : Attach(c) \/ Detach(c) \/ ClientStep(c)
  <2>1. UNCHANGED <<proc, signals, once, capture>>
    BY <1>4 DEF Attach, Detach, ClientStep, AttachCount, AttachCheck,
       AttachStatus, AttachSet, AttachAnnounce, DetachCheck, DetachStatus,
       DetachSet, DetachAnnounce, ptyVars, procVars
  <2>2. UNCHANGED <<obeys, tty, running, exitCode, ptyClosed>>
    BY <1>4 DEF Attach, Detach, ClientStep, AttachCount, AttachCheck,
       AttachStatus, AttachSet, AttachAnnounce, DetachCheck, DetachStatus,
       DetachSet, DetachAnnounce, ptyVars, procVars
  <2>3. eventsClosed' = eventsClosed
    BY <1>4 DEF Attach, Detach, ClientStep, AttachCount, AttachCheck,
       AttachStatus, AttachSet, AttachAnnounce, DetachCheck, DetachStatus,
       DetachSet, DetachAnnounce, ptyVars, evVars
  <2>4. handlerUp' \in BOOLEAN /\ recording' \in BOOLEAN
    BY <1>4 DEF Attach, Detach, ClientStep, AttachCount, AttachCheck,
       AttachStatus, AttachSet, AttachAnnounce, DetachCheck, DetachStatus,
       DetachSet, DetachAnnounce, RestTypes, FlagTypes
  <2>5. PlaceTypes'
    BY <1>4 DEF Attach, Detach, ClientStep, AttachCount, AttachCheck,
       AttachStatus, AttachSet, AttachAnnounce, DetachCheck, DetachStatus,
       DetachSet, DetachAnnounce, RestTypes, PlaceTypes
  <2>. QED BY <2>1, <2>2, <2>3, <2>4, <2>5 DEF RestTypes, ChildTypes, FlagTypes
<1>5. CASE \E k \in Killers : KillCall(k) \/ KillStep(k)
  <2>1. UNCHANGED <<proc, signals, once, capture>>
    BY <1>5 DEF KillCall, StopCall, KillStep, KillReturn, KillStatus,
       KillNotify, KillPublish, sessVars, ptyVars, procVars
  <2>2. UNCHANGED <<obeys, tty, running, exitCode, ptyClosed>>
    BY <1>5 DEF KillCall, StopCall, KillStep, KillReturn, KillStatus,
       KillNotify, KillPublish, sessVars, ptyVars, procVars
  <2>3. eventsClosed' = eventsClosed
    BY <1>5 DEF KillCall, StopCall, KillStep, KillReturn, KillStatus,
       KillNotify, KillPublish, sessVars, ptyVars, evVars
  <2>4. handlerUp' \in BOOLEAN /\ recording' \in BOOLEAN
    BY <1>5 DEF KillCall, StopCall, KillStep, KillReturn, KillStatus,
       KillNotify, KillPublish, sessVars, RestTypes, FlagTypes
  <2>5. PlaceTypes'
    BY <1>5 DEF KillCall, StopCall, KillStep, KillReturn, KillStatus,
       KillNotify, KillPublish, sessVars, RestTypes, PlaceTypes
  <2>. QED BY <2>1, <2>2, <2>3, <2>4, <2>5 DEF RestTypes, ChildTypes, FlagTypes
<1>6. CASE UNCHANGED vars
  <2>1. ChildTypes'
    BY <1>6 DEF vars, ptyVars, procVars, RestTypes, ChildTypes
  <2>2. FlagTypes'
    BY <1>6 DEF vars, ptyVars, procVars, evVars, sessVars, RestTypes, FlagTypes
  <2>3. PlaceTypes'
    BY <1>6 DEF vars, sessVars, RestTypes, PlaceTypes
  <2>. QED BY <2>1, <2>2, <2>3 DEF RestTypes
<1>. QED BY <1>1, <1>2, <1>3, <1>4, <1>5, <1>6 DEF Next

-----------------------------------------------------------------------------
(* The theorems.                                                           *)

LEMMA PtyAlways == Spec => [](PtyTypes /\ ReapInv)
    BY InitPtyTypes, InitReap, StepPtyTypes, StepReap, PTL DEF Spec

\* Every variable of a session keeps its type.
THEOREM TypeCorrect == Spec => []TypeOK
<1>1. Init => published \in Seq(LifecycleState)
    BY DEF Init
<1>2. published \in Seq(LifecycleState) /\ [Next]_vars
        => (published \in Seq(LifecycleState))'
    BY StepPublished
<1>3. CountInv => sinks \in 0..Cardinality(Clients)
    BY AttachedFinite DEF CountInv, SinksCounted
<1>4. PtyTypes /\ RestTypes /\ CountInv /\ published \in Seq(LifecycleState) => TypeOK
    BY <1>3 DEF TypeOK, PtyTypeOK, PtyTypes, RestTypes, ChildTypes, FlagTypes,
       PlaceTypes, CountInv, ClientTypes
<1>. QED BY <1>1, <1>2, <1>4, PtyAlways, InitRest, StepRest, InitCount, StepCount, PTL
         DEF Spec

\* An exit is reported only after Wait returned and the exit code was stored,
\* whichever goroutine ran reapProcess and whatever the child's terminal does.
THEOREM ReportsReapedExits == Spec => []ExitIsReaped
<1>1. PtyTypes /\ ReapInv => ExitIsReaped
    BY DEF ReapInv, ExitIsReaped
<1>. QED BY <1>1, PtyAlways, PTL

\* Session.clientSinks is the number of attached clients, for any number of
\* concurrent calls of AttachToSession and DetachFromSession.
THEOREM CountsClients == Spec => []SinksCounted
<1>1. CountInv => SinksCounted
    BY DEF CountInv
<1>. QED BY <1>1, InitCount, StepCount, PTL DEF Spec

LEMMA ExitAlways == Spec => []ExitInv
<1>1. Init => published \in Seq(LifecycleState)
    BY DEF Init
<1>2. published \in Seq(LifecycleState) /\ [Next]_vars
        => (published \in Seq(LifecycleState))'
    BY StepPublished
<1>3. PtyTypes /\ ReapInv /\ published \in Seq(LifecycleState) /\ ExitInv
        /\ [Next]_vars => ExitInv'
    BY StepExit
<1>. QED BY <1>1, <1>2, <1>3, InitExit, PtyAlways, PTL DEF Spec

\* Stop succeeds, and a session is announced as stopped, only when the process
\* has exited or been sent SIGKILL, or has closed its terminal and the capture
\* goroutine waits for its exit.
THEOREM EndsAreAlwaysReal == Spec => []EndsAreReal
<1>1. ExitInv => StopMeansEnd
    BY DEF ExitInv, StopMeansEnd, Ended
<1>2. ExitInv => StoppedMeansEnd
    BY DEF ExitInv, StoppedMeansEnd, Ended
<1>3. ExitInv => EndsAreReal
    BY <1>1, <1>2 DEF EndsAreReal
<1>. QED BY <1>3, ExitAlways, PTL

-----------------------------------------------------------------------------
(* The journal (Journal.tla): its types.                                   *)

Spots == Locked \cup {"rest", "append", "measure", "guard", "stale", "reopen", "unstamp", "again",
                      "stamp", "cut", "store", "ask", "mutex", "lock", "off", "begin", "activate",
                      "farewell", "retire", "unguard", "forget", "seek", "up", "wait", "clear",
                      "files", "maps", "down"}

SpotTypes == at \in [Journalists -> Spots]
EventTypes ==
    /\ {journal, ending} \subseteq BOOLEAN /\ heard \subseteq {"created", "stopped"}
    /\ logged \in 0..MaxLogged /\ day \in [Handlers -> Days]
LogTypes ==
    lines \subseteq Entries /\ written \in {0} \cup Entries /\ half \in [Handlers -> SUBSET Entries]
MutexTypes ==
    mutex \in 0..3 /\ lastMutex \in 0..3 /\ ref \in [Journalists -> 0..3]
DailyTypes ==
    /\ logDay \in Days /\ logFile \in {0} \cup Files /\ openFiles \subseteq Files
    /\ file \in [Journalists -> {0} \cup Files]
AskTypes ==
    /\ {compacting, since} \subseteq BOOLEAN
    /\ awaited \subseteq SUBSET Entries /\ posted \subseteq SUBSET Entries
    /\ taker \in {"rest", "append", "release", "unstamp", "off"}
    /\ digest \subseteq Entries /\ settled \subseteq Entries
NoteTypes ==
    /\ {forced, survivor} \subseteq BOOLEAN /\ old \in 0..MaxOld /\ failures \in 0..MaxJournalFaults

LEMMA JournalTypesSplit ==
    JournalTypeOK <=> /\ SpotTypes /\ EventTypes /\ LogTypes /\ MutexTypes /\ DailyTypes
                      /\ AskTypes /\ NoteTypes
    BY DEF JournalTypeOK, SpotTypes, EventTypes, LogTypes, MutexTypes, DailyTypes, AskTypes, NoteTypes,
        Spots

LEMMA JournalFacts ==
    /\ MaxLogged \in Nat /\ MaxOld \in Nat /\ MaxJournalFaults \in Nat /\ 0 \in Days
    /\ "life" \notin Loggers /\ "shut" \notin Loggers /\ "shut" \notin Handlers
    /\ "life" \in Handlers /\ Handlers \subseteq Journalists /\ "shut" \in Journalists
    /\ Loggers \subseteq Handlers
    /\ \A e \in Entries : e \in Nat /\ e > 0 /\ e <= MaxLogged + 2
    /\ 0 \notin Files
    BY JournalAssumption DEF Handlers, Journalists, Entries, Files

\* A step moves one party at most.
LEMMA PartyMoves ==
    ASSUME SpotTypes, NEW a \in Journalists, NEW p \in Spots, To(a, p)
    PROVE  SpotTypes' /\ at'[a] = p /\ \A c \in Journalists : c # a => at'[c] = at[c]
    BY DEF SpotTypes, To

LEMMA OneMoves ==
    ASSUME SpotTypes, [JournalNext]_journalVars
    PROVE  \/ at' = at
           \/ \E a \in Journalists, p \in Spots : To(a, p)
<1>0. SpotTypes
    OBVIOUS
<1> USE JournalFacts DEF From, Spots, Locked
<1>1. CASE Beginning
    BY <1>1 DEF Beginning, HearCreated, BeginJournal, Activate, HearStopped, Farewell, HearLogger,
        AppendRaw
<1>2. ASSUME NEW g \in Handlers, Compacting(g) PROVE \E a \in Journalists, p \in Spots : To(a, p)
    BY <1>2 DEF Compacting, Measure, Guard, NotStale, DropOld, ReopenGuard, StampGuard, CutLines,
                StorePrompt, PostPrompt, Compacted
<1>3. ASSUME NEW g \in Handlers, Entering(g) PROVE \E a \in Journalists, p \in Spots : To(a, p)
    BY <1>3 DEF Entering, EnterMutex, LockMutex, CheckJournal, GetLogFile, OpenLogFile, WriteEntry,
                EntryEnds, Entered
<1>4. CASE Ending
    BY <1>4 DEF Ending, Retire, SeekMutex, DropFile
<1>5. ASSUME NEW g \in {"life", "shut"}, ForgetGuard(g) \/ ReleaseMutex(g)
      PROVE  \E a \in Journalists, p \in Spots : To(a, p)
    BY <1>5 DEF ForgetGuard, ReleaseMutex
<1>6. CASE Replying
    BY <1>6 DEF Replying, TakeReply, AppendDigest, ReleaseGuard, TakerEnds, replyAside
<1>7. CASE ShuttingDown
    BY <1>7 DEF ShuttingDown, BeginShutdown, WaitedOut, ClearActive, RangeFiles, CloseRanged, DropAwaited
<1>8. ASSUME NEW g \in Handlers, HandlerEnds(g) PROVE \E a \in Journalists, p \in Spots : To(a, p)
    BY <1>8 DEF HandlerEnds
<1>9. CASE UNCHANGED journalVars
    BY <1>9 DEF journalVars
<1>. QED BY <1>1, <1>2, <1>3, <1>4, <1>5, <1>6, <1>7, <1>8, <1>9 DEF JournalNext

\* The mutexes made: one for the beginning and one for each that is deleted.
Deleted ==
    (IF "stopped" \in heard /\ ~ending THEN 1 ELSE 0)
        + (IF at["shut"] \in {"maps", "unguard", "forget", "down"} THEN 1 ELSE 0)
Mutexes == lastMutex + (IF mutex = 0 THEN 1 ELSE 0)
AtTheEnd == {"retire", "unguard", "forget", "seek", "drop", "release"}
MutexBudget ==
    /\ ending => "stopped" \in heard
    /\ at["life"] \in AtTheEnd => ending
    /\ Mutexes <= 1 + Deleted

\* The entries still to be made by those who have begun, and by the session's life.
Appending == {g \in Loggers : at[g] = "append"}
InCompaction == {"measure", "guard", "stale", "reopen", "unstamp", "again", "stamp", "cut", "store", "ask"}
BeforeFarewell == InCompaction \cup {"farewell"}
BeginDue == (IF "created" \notin heard THEN 1 ELSE 0) + (IF at["life"] = "begin" THEN 1 ELSE 0)
EndDue == (IF "stopped" \notin heard THEN 1 ELSE 0) + (IF at["life"] \in BeforeFarewell THEN 1 ELSE 0)
EntriesDue == Cardinality(Appending) + BeginDue + EndDue
EntryBudget == IsFiniteSet(Appending) /\ written + EntriesDue <= logged + 2

JournalTypeInv == JournalTypeOK /\ MutexBudget /\ EntryBudget

LEMMA NextEntry ==
    ASSUME LogTypes, written' = written + 1, lines' = lines \cup {written'}, written < MaxLogged + 2, half' = half
    PROVE  LogTypes'
<1>1. written \in Nat /\ MaxLogged \in Nat
    BY JournalFacts DEF LogTypes, Entries
<1>2. written' \in Entries
    BY <1>1 DEF Entries
<1>. QED BY <1>2 DEF LogTypes

LEMMA SameTypes ==
    ASSUME JournalTypeOK
    PROVE  /\ UNCHANGED eventVars /\ UNCHANGED day => EventTypes'
           /\ UNCHANGED logVars /\ UNCHANGED half => LogTypes'
           /\ UNCHANGED muVars => MutexTypes'
           /\ UNCHANGED dailyVars => DailyTypes'
           /\ UNCHANGED <<claimVars, askVars, takeVars>> => AskTypes'
           /\ UNCHANGED noteVars => NoteTypes'
           /\ EventTypes /\ LogTypes /\ MutexTypes /\ DailyTypes /\ AskTypes /\ NoteTypes
    BY JournalTypesSplit DEF EventTypes, LogTypes, MutexTypes, DailyTypes, AskTypes, NoteTypes,
        eventVars, logVars, muVars, dailyVars, claimVars, askVars, takeVars, noteVars

LEMMA BeginningTypes ==
    ASSUME JournalTypeInv, Beginning
    PROVE  EventTypes' /\ LogTypes' /\ MutexTypes' /\ DailyTypes' /\ AskTypes' /\ NoteTypes'
<1>0. JournalTypeOK
    BY DEF JournalTypeInv
<1>1. MutexTypes' /\ DailyTypes' /\ AskTypes'
    BY <1>0, SameTypes DEF Beginning, HearCreated, BeginJournal, Activate, HearStopped, Farewell,
        HearLogger, AppendRaw
<1>2. NoteTypes'
  <2>1. UNCHANGED <<forced, old>> /\ survivor' \in BOOLEAN
    BY <1>0, SameTypes DEF Beginning, HearCreated, BeginJournal, Activate, HearStopped, Farewell,
        HearLogger,
        AppendRaw, noteVars, historyVars, NoteTypes
  <2>2. failures' = failures \/ (failures < MaxJournalFaults /\ failures' = failures + 1)
    BY DEF Beginning, HearCreated, BeginJournal, Activate, HearStopped, Farewell, HearLogger,
        AppendRaw, noteVars, historyVars, Fails, Succeeds
  <2>. QED BY <1>0, <2>1, <2>2, SameTypes, JournalFacts DEF NoteTypes
<1>3. EventTypes'
  <2>1. journal' \in BOOLEAN /\ ending' \in BOOLEAN /\ heard' \subseteq {"created", "stopped"}
    BY <1>0, SameTypes DEF Beginning, HearCreated, BeginJournal, Activate, HearStopped, Farewell,
        HearLogger,
        AppendRaw, eventVars, EventTypes
  <2>2. logged' = logged \/ (logged < MaxLogged /\ logged' = logged + 1)
    BY DEF Beginning, HearCreated, BeginJournal, Activate, HearStopped, Farewell, HearLogger,
        AppendRaw, eventVars
  <2>3. logged' \in 0..MaxLogged
    BY <1>0, <2>2, SameTypes, JournalFacts DEF EventTypes
  <2>4. day' \in [Handlers -> Days]
    BY <1>0, SameTypes DEF Beginning, HearCreated, BeginJournal, Activate, HearStopped, Farewell,
        HearLogger,
        AppendRaw, Dated, EventTypes
  <2>. QED BY <2>1, <2>3, <2>4 DEF EventTypes
<1>4. LogTypes'
  <2>1. \/ UNCHANGED <<logVars, half>>
        \/ AppendEntry /\ half' = half /\ EntriesDue > 0
    <3>1. Cardinality(Appending) \in Nat
      BY FS_CardinalityType DEF JournalTypeInv, EntryBudget
    <3>2. CASE EntriesDue > 0
      BY <3>2 DEF Beginning, HearCreated, BeginJournal, Activate, HearStopped, Farewell, HearLogger,
          AppendRaw
    <3>3. CASE ~(EntriesDue > 0)
      <4>1. at["life"] \notin {"begin", "farewell"}
        BY <3>1, <3>3 DEF EntriesDue, BeginDue, EndDue, BeforeFarewell, InCompaction
      <4>2. \A g \in Loggers : at[g] # "append"
        <5> SUFFICES ASSUME NEW g \in Loggers, at[g] = "append" PROVE FALSE
          OBVIOUS
        <5>1. g \in Appending /\ IsFiniteSet(Appending)
          BY DEF Appending, JournalTypeInv, EntryBudget
        <5>2. Cardinality(Appending) # 0
          BY <5>1, FS_EmptySet
        <5>. QED BY <3>1, <3>3, <5>2 DEF EntriesDue, BeginDue, EndDue
      <4>. QED BY <4>1, <4>2 DEF Beginning, HearCreated, BeginJournal, Activate, HearStopped, Farewell,
                  HearLogger, AppendRaw, From
    <3>. QED BY <3>2, <3>3
  <2>2. written + EntriesDue <= logged + 2 /\ EntriesDue \in Nat /\ written \in Nat /\ logged \in 0..MaxLogged
    <3>1. Cardinality(Appending) \in Nat
      BY FS_CardinalityType DEF JournalTypeInv, EntryBudget
    <3>. QED BY <1>0, <3>1, SameTypes, JournalFacts DEF JournalTypeInv, EntryBudget, EntriesDue, BeginDue,
        EndDue, LogTypes, EventTypes, Entries
  <2>3. EntriesDue > 0 => written < MaxLogged + 2
    BY <2>2, JournalFacts
  <2>. QED BY <1>0, <2>1, <2>3, NextEntry, SameTypes DEF AppendEntry
<1>. QED BY <1>1, <1>2, <1>3, <1>4

LEMMA CompactingTypes ==
    ASSUME JournalTypeInv, NEW g \in Handlers, Compacting(g)
    PROVE  EventTypes' /\ LogTypes' /\ MutexTypes' /\ DailyTypes' /\ AskTypes' /\ NoteTypes'
<1>0. JournalTypeOK
    BY DEF JournalTypeInv
<1>1. EventTypes' /\ MutexTypes' /\ DailyTypes'
    BY <1>0, SameTypes DEF Compacting, Measure, Guard, NotStale, DropOld, ReopenGuard, StampGuard,
        CutLines,
        StorePrompt, PostPrompt, outsideVars
<1>2. LogTypes'
  <2>1. half[g] \subseteq Entries /\ OlderLines \subseteq lines
    BY <1>0, SameTypes DEF LogTypes, OlderLines
  <2>2. CASE CutLines(g)
    BY <1>0, <2>1, <2>2, SameTypes DEF CutLines, LogTypes
  <2>3. CASE PostPrompt(g)
    BY <1>0, <2>3, SameTypes DEF PostPrompt, LogTypes, logVars
  <2>. QED BY <1>0, <2>2, <2>3, SameTypes DEF Compacting, Measure, Guard, NotStale, DropOld, ReopenGuard,
            StampGuard, StorePrompt
<1>3. AskTypes'
  <2>1. compacting' \in BOOLEAN /\ since' \in BOOLEAN
    BY <1>0, SameTypes DEF Compacting, Measure, Guard, NotStale, DropOld, ReopenGuard, StampGuard,
        CutLines,
        StorePrompt, PostPrompt, AskTypes, claimVars
  <2>2. half[g] \subseteq Entries /\ AskTypes
    BY <1>0, SameTypes DEF LogTypes
  <2>3. awaited' \subseteq SUBSET Entries /\ posted' \subseteq SUBSET Entries /\ settled' \subseteq Entries
    BY <2>2 DEF Compacting, Measure, Guard, NotStale, DropOld, ReopenGuard, StampGuard, CutLines,
        StorePrompt, PostPrompt, AskTypes, askVars
  <2>4. taker' = taker /\ digest' = digest
    BY DEF Compacting, Measure, Guard, NotStale, DropOld, ReopenGuard, StampGuard, CutLines,
        StorePrompt, PostPrompt, outsideVars
  <2>. QED BY <2>1, <2>2, <2>3, <2>4 DEF AskTypes
<1>4. NoteTypes'
  <2>1. /\ old' = old \/ (old < MaxOld /\ old' = old + 1)
        /\ failures' = failures \/ (failures < MaxJournalFaults /\ failures' = failures + 1)
    BY DEF Compacting, Measure, Guard, NotStale, DropOld, ReopenGuard, StampGuard, CutLines,
        StorePrompt, PostPrompt, noteVars, historyVars, Fails, Succeeds
  <2>2. forced' \in {forced, TRUE} /\ survivor' = survivor
    BY DEF Compacting, Measure, Guard, NotStale, DropOld, ReopenGuard, StampGuard, CutLines,
        StorePrompt, PostPrompt, noteVars, historyVars
  <2>3. old' \in 0..MaxOld
    BY <1>0, <2>1, SameTypes, JournalFacts DEF NoteTypes
  <2>4. failures' \in 0..MaxJournalFaults
    BY <1>0, <2>1, SameTypes, JournalFacts DEF NoteTypes
  <2>. QED BY <1>0, <2>2, <2>3, <2>4, SameTypes DEF NoteTypes
<1>. QED BY <1>1, <1>2, <1>3, <1>4

LEMMA GetMutexTypes ==
    ASSUME JournalTypeOK, MutexBudget, NEW g \in Journalists, GetMutex(g)
    PROVE  /\ MutexTypes' /\ ref'[g] = mutex' /\ mutex' # 0 /\ (mutex # 0 => mutex' = mutex)
           /\ \A c \in Journalists : c # g => ref'[c] = ref[c]
           /\ Mutexes' = Mutexes
<1>1. mutex \in 0..3 /\ lastMutex \in 0..3 /\ ref \in [Journalists -> 0..3]
    BY SameTypes DEF MutexTypes
<1>2. Deleted \in 0..2
    BY DEF Deleted
<1>3. mutex = 0 => lastMutex + 1 <= 3
    BY <1>1, <1>2 DEF MutexBudget, Mutexes
<1>4. mutex' \in 1..3 /\ lastMutex' \in 0..3 /\ (mutex # 0 => mutex' = mutex)
    BY <1>1, <1>3 DEF GetMutex
<1>5. ref' \in [Journalists -> 0..3] /\ ref'[g] = mutex' /\ \A c \in Journalists : c # g => ref'[c] = ref[c]
    BY <1>1, <1>4 DEF GetMutex
<1>6. Mutexes' = Mutexes
    BY <1>1, <1>3, <1>4 DEF GetMutex, Mutexes
<1>. QED BY <1>4, <1>5, <1>6 DEF MutexTypes

LEMMA EntryEndsTypes ==
    ASSUME JournalTypeOK, NEW g \in Handlers, EntryEnds(g)
    PROVE  /\ MutexTypes' /\ day' \in [Handlers -> Days] /\ file' \in [Journalists -> {0} \cup Files]
    BY SameTypes, JournalFacts DEF EntryEnds, MutexTypes, EventTypes, DailyTypes

\* The least handle that is free.
LEMMA FreeFile ==
    ASSUME openFiles \subseteq Files, openFiles # Files
    PROVE  LET free == Files \ openFiles IN
               (CHOOSE f \in free : \A h \in free : f <= h) \in free
<1> DEFINE free == Files \ openFiles
<1>1. \E f \in free : \A h \in free : f <= h
  <2>1. CASE 1 \in free
    BY <2>1 DEF Files
  <2>2. CASE 1 \notin free
    <3>1. Files = {1, 2}
      BY DEF Files
    <3>2. free = {2}
      BY <2>2, <3>1
    <3>. QED BY <3>2
  <2>. QED BY <2>1, <2>2
<1>. QED BY <1>1

LEMMA EnteringTypes ==
    ASSUME JournalTypeInv, NEW g \in Handlers, Entering(g)
    PROVE  EventTypes' /\ LogTypes' /\ MutexTypes' /\ DailyTypes' /\ AskTypes' /\ NoteTypes'
<1>0. JournalTypeOK /\ g \in Journalists /\ MutexBudget
    BY JournalFacts DEF JournalTypeInv
<1>1. LogTypes' /\ AskTypes'
    BY <1>0, SameTypes DEF Entering, EnterMutex, LockMutex, CheckJournal, GetLogFile, OpenLogFile,
        WriteEntry, besideVars, logVars, takeVars
<1>2. EventTypes'
  <2>1. UNCHANGED <<heard, logged, journal, ending>>
    BY DEF Entering, EnterMutex, LockMutex, CheckJournal, GetLogFile, OpenLogFile, WriteEntry, besideVars
  <2>2. day' = day \/ EntryEnds(g)
    BY DEF Entering, EnterMutex, LockMutex, CheckJournal, GetLogFile, OpenLogFile, WriteEntry
  <2>. QED BY <1>0, <2>1, <2>2, EntryEndsTypes, SameTypes DEF EventTypes
<1>3. MutexTypes'
  <2>1. UNCHANGED muVars \/ EntryEnds(g) \/ GetMutex(g)
    BY DEF Entering, EnterMutex, LockMutex, CheckJournal, GetLogFile, OpenLogFile, WriteEntry
  <2>. QED BY <1>0, <2>1, EntryEndsTypes, GetMutexTypes, SameTypes
<1>4. DailyTypes'
  <2>1. DailyTypes
    BY <1>0, SameTypes
  <2>2. CASE GetLogFile(g)
    BY <1>0, <2>1, <2>2, JournalFacts DEF GetLogFile, DailyTypes
  <2>3. CASE OpenLogFile(g)
    <3>1. CASE EntryEnds(g) /\ UNCHANGED <<logFile, logDay, openFiles>>
      BY <1>0, <2>1, <3>1, EntryEndsTypes DEF DailyTypes
    <3>2. CASE ~(EntryEnds(g) /\ UNCHANGED <<logFile, logDay, openFiles>>)
      <4> DEFINE free == Files \ openFiles
      <4>1. /\ openFiles # Files /\ logFile' = CHOOSE f \in free : \A h \in free : f <= h
            /\ openFiles' = openFiles \cup {logFile'} /\ logDay' = day[g]
            /\ file' = [file EXCEPT ![g] = logFile']
        BY <2>3, <3>2 DEF OpenLogFile
      <4>2. logFile' \in Files
        BY <2>1, <4>1, FreeFile DEF DailyTypes
      <4>3. day[g] \in Days
        BY <1>0, SameTypes DEF EventTypes
      <4>. QED BY <2>1, <4>1, <4>2, <4>3 DEF DailyTypes
    <3>. QED BY <3>1, <3>2
  <2>4. CASE UNCHANGED <<logFile, logDay, openFiles>> /\ (file' = file \/ EntryEnds(g))
    BY <1>0, <2>1, <2>4, EntryEndsTypes DEF DailyTypes
  <2>. QED BY <2>2, <2>3, <2>4 DEF Entering, EnterMutex, LockMutex, CheckJournal, WriteEntry, dailyVars
<1>5. NoteTypes'
  <2>1. failures' = failures \/ (failures < MaxJournalFaults /\ failures' = failures + 1)
    BY DEF Entering, EnterMutex, LockMutex, CheckJournal, GetLogFile, OpenLogFile, WriteEntry, noteVars,
        historyVars, Fails, Succeeds
  <2>2. UNCHANGED historyVars
    BY DEF Entering, EnterMutex, LockMutex, CheckJournal, GetLogFile, OpenLogFile, WriteEntry,
        noteVars, historyVars
  <2>3. failures' \in 0..MaxJournalFaults
    BY <1>0, <2>1, SameTypes, JournalFacts DEF NoteTypes
  <2>. QED BY <1>0, <2>2, <2>3, SameTypes DEF NoteTypes, historyVars
<1>. QED BY <1>1, <1>2, <1>3, <1>4, <1>5

LEMMA EndingTypes ==
    ASSUME JournalTypeInv,
           Ending \/ Replying \/ ShuttingDown \/ (\E g \in Handlers : HandlerEnds(g))
               \/ \E g \in {"life", "shut"} : ForgetGuard(g) \/ ReleaseMutex(g)
    PROVE  EventTypes' /\ LogTypes' /\ MutexTypes' /\ DailyTypes' /\ AskTypes' /\ NoteTypes'
<1>0. JournalTypeOK /\ MutexBudget
    BY DEF JournalTypeInv
<1>1. CASE Ending
  <2>1. LogTypes' /\ AskTypes' /\ NoteTypes'
    BY <1>0, <1>1, SameTypes DEF Ending, Retire, SeekMutex, DropFile, besideVars, logVars, takeVars
  <2>2. EventTypes'
    BY <1>0, <1>1, SameTypes DEF Ending, Retire, SeekMutex, DropFile, besideVars, EventTypes
  <2>3. UNCHANGED muVars \/ GetMutex("life")
    BY <1>1 DEF Ending, Retire, SeekMutex, DropFile
  <2>4. MutexTypes'
    BY <1>0, <2>3, GetMutexTypes, SameTypes, JournalFacts
  <2>5. DailyTypes'
    BY <1>0, <1>1, SameTypes, JournalFacts DEF Ending, Retire, SeekMutex, DropFile, DailyTypes, dailyVars
  <2>. QED BY <2>1, <2>2, <2>4, <2>5
<1>2. CASE Replying
  <2>1. EventTypes' /\ LogTypes' /\ MutexTypes' /\ DailyTypes' /\ NoteTypes'
    BY <1>0, <1>2, SameTypes DEF Replying, TakeReply, AppendDigest, ReleaseGuard, TakerEnds, replyAside
  <2>2. AskTypes
    BY <1>0, SameTypes
  <2>3. AskTypes'
    <3>1. CASE TakeReply
      BY <2>2, <3>1 DEF TakeReply, AskTypes, claimVars
    <3>2. CASE AppendDigest
      BY <2>2, <3>2 DEF AppendDigest, AskTypes, claimVars, askVars
    <3>3. CASE ReleaseGuard
      BY <2>2, <3>3 DEF ReleaseGuard, AskTypes, askVars
    <3>4. CASE TakerEnds
      BY <2>2, <3>4 DEF TakerEnds, AskTypes, claimVars, askVars
    <3>. QED BY <1>2, <3>1, <3>2, <3>3, <3>4 DEF Replying
  <2>. QED BY <2>1, <2>3
<1>3. CASE ShuttingDown
  <2>1. LogTypes'
    BY <1>0, <1>3, SameTypes DEF ShuttingDown, BeginShutdown, WaitedOut, ClearActive, RangeFiles,
        CloseRanged, DropAwaited, besideVars, logVars
  <2>2. AskTypes'
    BY <1>0, <1>3, SameTypes DEF ShuttingDown, BeginShutdown, WaitedOut, ClearActive, RangeFiles,
        CloseRanged, DropAwaited, besideVars, outsideVars, claimVars, askVars, takeVars, AskTypes
  <2>3. EventTypes'
    BY <1>0, <1>3, SameTypes DEF ShuttingDown, BeginShutdown, WaitedOut, ClearActive, RangeFiles,
        CloseRanged, DropAwaited, besideVars, outsideVars, eventVars, EventTypes
  <2>4. UNCHANGED muVars \/ GetMutex("shut")
    BY <1>3 DEF ShuttingDown, BeginShutdown, WaitedOut, ClearActive, RangeFiles,
        CloseRanged, DropAwaited, outsideVars
  <2>5. MutexTypes'
    BY <1>0, <2>4, GetMutexTypes, SameTypes, JournalFacts
  <2>6. DailyTypes'
    BY <1>0, <1>3, SameTypes, JournalFacts DEF ShuttingDown, BeginShutdown, WaitedOut, ClearActive,
        RangeFiles,
        CloseRanged, DropAwaited, outsideVars, DailyTypes, dailyVars
  <2>7. /\ failures' = failures \/ (failures < MaxJournalFaults /\ failures' = failures + 1)
        /\ UNCHANGED <<old, forced>> /\ survivor' \in BOOLEAN
    BY <1>0, <1>3, SameTypes DEF ShuttingDown, BeginShutdown, WaitedOut, ClearActive, RangeFiles,
        CloseRanged, DropAwaited, noteVars, historyVars, Fails, Succeeds, NoteTypes
  <2>8. failures' \in 0..MaxJournalFaults
    BY <1>0, <2>7, SameTypes, JournalFacts DEF NoteTypes
  <2>9. NoteTypes'
    BY <1>0, <2>7, <2>8, SameTypes DEF NoteTypes
  <2>. QED BY <2>1, <2>2, <2>3, <2>5, <2>6, <2>9
<1>4. ASSUME NEW g \in Handlers, HandlerEnds(g)
      PROVE  EventTypes' /\ LogTypes' /\ MutexTypes' /\ DailyTypes' /\ AskTypes' /\ NoteTypes'
    BY <1>0, <1>4, SameTypes DEF HandlerEnds, besideVars, eventVars, logVars, takeVars
<1>5. ASSUME NEW g \in {"life", "shut"}, ForgetGuard(g)
      PROVE  EventTypes' /\ LogTypes' /\ MutexTypes' /\ DailyTypes' /\ AskTypes' /\ NoteTypes'
  <2>1. EventTypes' /\ LogTypes' /\ MutexTypes' /\ DailyTypes'
    BY <1>0, <1>5, SameTypes DEF ForgetGuard, outsideVars
  <2>2. AskTypes' /\ NoteTypes'
    BY <1>0, <1>5, SameTypes DEF ForgetGuard, outsideVars, askVars, AskTypes, NoteTypes
  <2>. QED BY <2>1, <2>2
<1>6. ASSUME NEW g \in {"life", "shut"}, ReleaseMutex(g)
      PROVE  EventTypes' /\ LogTypes' /\ MutexTypes' /\ DailyTypes' /\ AskTypes' /\ NoteTypes'
  <2>1. LogTypes' /\ AskTypes' /\ NoteTypes'
    BY <1>0, <1>6, SameTypes DEF ReleaseMutex, besideVars, logVars, takeVars
  <2>2. EventTypes'
    BY <1>0, <1>6, SameTypes DEF ReleaseMutex, besideVars, EventTypes
  <2>3. MutexTypes'
    <3>1. mutex' = 0 /\ ref' = [ref EXCEPT ![g] = 0] /\ lastMutex' = lastMutex
      BY <1>6 DEF ReleaseMutex
    <3>2. lastMutex \in 0..3 /\ ref \in [Journalists -> 0..3] /\ 0 \in 0..3
      BY <1>0, SameTypes DEF MutexTypes
    <3>3. ref' \in [Journalists -> 0..3]
      BY <3>1, <3>2
    <3>. QED BY <3>1, <3>2, <3>3 DEF MutexTypes
  <2>4. DailyTypes'
    BY <1>0, <1>6, SameTypes DEF ReleaseMutex, DailyTypes
  <2>. QED BY <2>1, <2>2, <2>3, <2>4
<1>. QED BY <1>1, <1>2, <1>3, <1>4, <1>5, <1>6

-----------------------------------------------------------------------------
(* Where a step may take a party.                                          *)

LEMMA CompactingMoves ==
    ASSUME SpotTypes, NEW g \in Handlers, Compacting(g)
    PROVE  /\ SpotTypes' /\ \A c \in Journalists : c # g => at'[c] = at[c]
           /\ at[g] \in InCompaction /\ at'[g] \in InCompaction \cup {Compacted(g)}
<1>1. at[g] \in InCompaction /\ \E p \in InCompaction \cup {Compacted(g)} : To(g, p)
    BY DEF Compacting, Measure, Guard, NotStale, DropOld, ReopenGuard, StampGuard, CutLines, StorePrompt,
        PostPrompt, From, InCompaction, Compacted
<1>2. PICK p \in InCompaction \cup {Compacted(g)} : To(g, p)
    BY <1>1
<1>3. p \in Spots /\ g \in Journalists
    BY JournalFacts DEF InCompaction, Compacted, Spots
<1>. QED BY <1>1, <1>2, <1>3, PartyMoves

InEntry == {"mutex", "lock", "check", "get", "open", "write"}

LEMMA EnteringMoves ==
    ASSUME SpotTypes, NEW g \in Handlers, Entering(g)
    PROVE  /\ SpotTypes' /\ \A c \in Journalists : c # g => at'[c] = at[c]
           /\ at[g] \in InEntry /\ at'[g] \in (InEntry \ {"mutex"}) \cup {Entered(g)}
<1>1. at[g] \in InEntry /\ \E p \in (InEntry \ {"mutex"}) \cup {Entered(g)} : To(g, p)
    BY DEF Entering, EnterMutex, LockMutex, CheckJournal, GetLogFile, OpenLogFile, WriteEntry, EntryEnds,
        From, InEntry
<1>2. PICK p \in (InEntry \ {"mutex"}) \cup {Entered(g)} : To(g, p)
    BY <1>1
<1>3. p \in Spots /\ g \in Journalists
    BY JournalFacts DEF InEntry, Entered, Spots, Locked
<1>. QED BY <1>1, <1>2, <1>3, PartyMoves

LEMMA EndingMoves ==
    ASSUME SpotTypes, Ending
    PROVE  /\ SpotTypes' /\ \A c \in Journalists : c # "life" => at'[c] = at[c]
           /\ at["life"] \in AtTheEnd /\ at'["life"] \in AtTheEnd
<1>1. at["life"] \in AtTheEnd /\ \E p \in AtTheEnd : To("life", p)
    BY DEF Ending, Retire, SeekMutex, DropFile, From, AtTheEnd
<1>2. PICK p \in AtTheEnd : To("life", p)
    BY <1>1
<1>3. p \in Spots /\ "life" \in Journalists
    BY JournalFacts DEF AtTheEnd, Spots, Locked
<1>. QED BY <1>1, <1>2, <1>3, PartyMoves

ShutEnds == {"maps", "unguard", "forget", "down"}

LEMMA ShuttingDownMoves ==
    ASSUME SpotTypes, ShuttingDown
    PROVE  /\ SpotTypes' /\ \A c \in Journalists : c # "shut" => at'[c] = at[c]
           /\ at["shut"] \in ShutEnds => at'["shut"] \in ShutEnds
<1>1. \E p \in {"wait", "clear", "files", "seek", "release", "maps", "unguard"} :
          To("shut", p) /\ (at["shut"] = "maps" => p = "unguard") /\ at["shut"] \notin {"unguard", "forget", "down"}
    BY DEF ShuttingDown, BeginShutdown, WaitedOut, ClearActive, RangeFiles, CloseRanged, DropAwaited, From
<1>2. PICK p \in {"wait", "clear", "files", "seek", "release", "maps", "unguard"} :
          To("shut", p) /\ (at["shut"] = "maps" => p = "unguard") /\ at["shut"] \notin {"unguard", "forget", "down"}
    BY <1>1
<1>3. p \in Spots /\ "shut" \in Journalists
    BY JournalFacts DEF Spots, Locked
<1>. QED BY <1>1, <1>2, <1>3, PartyMoves DEF ShutEnds

\* The two that clean up alike.
LEMMA CleaningMoves ==
    ASSUME SpotTypes, NEW g \in {"life", "shut"}, ForgetGuard(g) \/ ReleaseMutex(g)
    PROVE  /\ SpotTypes' /\ g \in Journalists /\ \A c \in Journalists : c # g => at'[c] = at[c]
           /\ \/ at[g] = "unguard" /\ at'[g] = "forget" /\ ForgetGuard(g)
              \/ at[g] = "forget" /\ at'[g] = (IF g = "life" THEN "seek" ELSE "down") /\ ForgetGuard(g)
              \/ at[g] = "release" /\ at'[g] = (IF g = "life" THEN "rest" ELSE "maps") /\ ReleaseMutex(g)
<1>1. \E p \in Spots : /\ To(g, p)
                       /\ \/ at[g] = "unguard" /\ p = "forget" /\ ForgetGuard(g)
                          \/ at[g] = "forget" /\ p = (IF g = "life" THEN "seek" ELSE "down") /\ ForgetGuard(g)
                          \/ at[g] = "release" /\ p = (IF g = "life" THEN "rest" ELSE "maps") /\ ReleaseMutex(g)
    BY DEF ForgetGuard, ReleaseMutex, From, Spots, Locked
<1>2. g \in Journalists
    BY JournalFacts
<1>. QED BY <1>1, <1>2, PartyMoves

LEMMA BeginningMoves ==
    ASSUME SpotTypes, Beginning
    PROVE  SpotTypes' /\ \A c \in Journalists \ Handlers : at'[c] = at[c]
<1>1. at' = at \/ \E g \in Handlers, p \in Spots : To(g, p)
    BY JournalFacts DEF Beginning, HearCreated, BeginJournal, Activate, HearStopped, Farewell, HearLogger,
        AppendRaw, From, Spots, Locked
<1>. QED BY <1>1, PartyMoves, JournalFacts DEF SpotTypes

LEMMA ReplyingMoves ==
    ASSUME SpotTypes, Replying
    PROVE  SpotTypes' /\ at' = at
    BY DEF Replying, TakeReply, AppendDigest, ReleaseGuard, TakerEnds, replyAside, SpotTypes

LEMMA HandlerEndsMoves ==
    ASSUME SpotTypes, NEW g \in Handlers, HandlerEnds(g)
    PROVE  /\ SpotTypes' /\ \A c \in Journalists : c # g => at'[c] = at[c]
           /\ at[g] = "rest" /\ at'[g] = "off"
<1>1. at[g] = "rest" /\ To(g, "off") /\ "off" \in Spots /\ g \in Journalists
    BY JournalFacts DEF HandlerEnds, From, Spots
<1>. QED BY <1>1, PartyMoves

-----------------------------------------------------------------------------
(* The two budgets.                                                        *)

LEMMA MutexAside ==
    ASSUME MutexBudget, Mutexes' = Mutexes, ending' = ending, "stopped" \in heard' <=> "stopped" \in heard,
           at'["life"] \in AtTheEnd => at["life"] \in AtTheEnd \/ ending,
           at["shut"] \in ShutEnds <=> at'["shut"] \in ShutEnds
    PROVE  MutexBudget'
<1>1. Deleted' = Deleted
    BY DEF Deleted, ShutEnds
<1>. QED BY <1>1 DEF MutexBudget

LEMMA EntryAside ==
    ASSUME EntryBudget, written' = written, logged' = logged, Appending' = Appending,
           MaxLogged \in Nat, written \in Nat, logged \in Nat,
           BeginDue' <= BeginDue, EndDue' <= EndDue
    PROVE  EntryBudget'
<1>1. Cardinality(Appending) \in Nat
    BY FS_CardinalityType DEF EntryBudget
<1>2. EntriesDue' <= EntriesDue /\ EntriesDue \in Nat /\ EntriesDue' \in Nat
  <2>1. BeginDue \in Nat /\ BeginDue' \in Nat /\ EndDue \in Nat /\ EndDue' \in Nat
    BY DEF BeginDue, EndDue
  <2>. QED BY <1>1, <2>1 DEF EntriesDue
<1>3. written + EntriesDue <= logged + 2
    BY DEF EntryBudget
<1>4. written' + EntriesDue' <= logged' + 2
  <2>1. \A w, l, d, e \in Nat : w + d <= l + 2 /\ e <= d => w + e <= l + 2
    OBVIOUS
  <2>2. written + EntriesDue' <= logged + 2
    BY <1>2, <1>3, <2>1
  <2>. QED BY <2>2
<1>5. IsFiniteSet(Appending')
    BY DEF EntryBudget
<1>. QED BY <1>4, <1>5 DEF EntryBudget

LEMMA BudgetSums ==
    /\ \A m, d, e \in Nat : m <= 1 + d /\ d <= e => m <= 1 + e
    /\ \A w, v, d, e, l \in Nat : w + d <= l + 2 /\ v \in {w, w + 1} /\ e + 1 <= d => v + e <= l + 2
    OBVIOUS

LEMMA MutexBudgetKept ==
    ASSUME JournalTypeInv, [JournalNext]_journalVars
    PROVE  MutexBudget'
<1>0. JournalTypeOK /\ MutexBudget /\ SpotTypes /\ mutex \in Nat /\ lastMutex \in Nat
    BY SameTypes, JournalTypesSplit DEF JournalTypeInv, MutexTypes
<1>a. UNCHANGED <<mutex, lastMutex>> => Mutexes' = Mutexes
    BY DEF Mutexes
<1>b. "life" \in Journalists /\ "shut" \in Journalists /\ "life" \in Handlers /\ "life" # "shut"
    BY JournalFacts
<1>1. CASE HearStopped
  <2>1. /\ "stopped" \notin heard /\ heard' = heard \cup {"stopped"} /\ ending' = journal
        /\ UNCHANGED muVars /\ at["life"] = "rest"
        /\ \/ To("life", "measure")
           \/ at' = at
    BY <1>1 DEF HearStopped
  <2>2. at'["life"] \notin AtTheEnd /\ at'["shut"] = at["shut"]
    BY <1>0, <1>b, <2>1, PartyMoves DEF AtTheEnd, Spots
  <2>3. Mutexes' = Mutexes
    BY <1>a, <2>1 DEF muVars
  <2>4. Deleted <= Deleted' /\ Deleted \in Nat /\ Deleted' \in Nat
    BY <2>1, <2>2 DEF Deleted
  <2>5. Mutexes <= 1 + Deleted /\ Mutexes \in Nat
    BY <1>0 DEF MutexBudget, Mutexes
  <2>6. Mutexes' <= 1 + Deleted'
    <3>1. Mutexes <= 1 + Deleted'
      BY <2>4, <2>5, BudgetSums
    <3>. QED BY <2>3, <3>1
  <2>. QED BY <2>1, <2>2, <2>6 DEF MutexBudget
<1>2. CASE Beginning /\ ~HearStopped
  <2>1. UNCHANGED <<ending, muVars>> /\ ("stopped" \in heard' <=> "stopped" \in heard)
    BY <1>2 DEF Beginning, HearCreated, BeginJournal, Activate, Farewell, HearLogger, AppendRaw, eventVars
  <2>2. \/ \E p \in {"begin", "activate", "rest", "mutex"} : To("life", p)
        \/ \E g \in Loggers, p \in {"append", "measure"} : To(g, p)
    BY <1>2 DEF Beginning, HearCreated, BeginJournal, Activate, Farewell, HearLogger, AppendRaw, From
  <2>3. at'["life"] \in AtTheEnd => at["life"] \in AtTheEnd
    BY <1>0, <1>b, <2>2, PartyMoves, JournalFacts DEF AtTheEnd, Spots
  <2>4. at'["shut"] = at["shut"]
    BY <1>0, <1>2, BeginningMoves, JournalFacts
  <2>. QED BY <1>0, <1>a, <2>1, <2>3, <2>4, MutexAside DEF muVars
<1>3. ASSUME NEW g \in Handlers, Compacting(g) PROVE MutexBudget'
  <2>1. UNCHANGED <<ending, heard, muVars>>
    BY <1>3 DEF Compacting, Measure, Guard, NotStale, DropOld, ReopenGuard, StampGuard, CutLines,
        StorePrompt, PostPrompt, outsideVars, eventVars
  <2>2. at'["life"] \in AtTheEnd => at["life"] \in AtTheEnd
    BY <1>0, <1>b, <1>3, CompactingMoves DEF AtTheEnd, InCompaction, Compacted
  <2>3. at'["shut"] = at["shut"]
    BY <1>0, <1>b, <1>3, CompactingMoves, JournalFacts
  <2>. QED BY <1>0, <1>a, <2>1, <2>2, <2>3, MutexAside DEF muVars
<1>4. ASSUME NEW g \in Handlers, Entering(g) PROVE MutexBudget'
  <2>1. UNCHANGED <<ending, heard>>
    BY <1>4 DEF Entering, EnterMutex, LockMutex, CheckJournal, GetLogFile, OpenLogFile, WriteEntry,
        besideVars
  <2>2. UNCHANGED <<mutex, lastMutex>> \/ GetMutex(g)
    BY <1>4 DEF Entering, EnterMutex, LockMutex, CheckJournal, GetLogFile, OpenLogFile, WriteEntry,
        muVars, EntryEnds
  <2>3. Mutexes' = Mutexes
    BY <1>0, <1>a, <2>2, GetMutexTypes, JournalFacts
  <2>4. at'["life"] \in AtTheEnd => at["life"] \in AtTheEnd \/ ending
    BY <1>0, <1>b, <1>4, EnteringMoves DEF AtTheEnd, InEntry, Entered
  <2>5. at'["shut"] = at["shut"]
    BY <1>0, <1>b, <1>4, EnteringMoves, JournalFacts
  <2>. QED BY <1>0, <2>1, <2>3, <2>4, <2>5, MutexAside
<1>5. CASE Ending
  <2>1. UNCHANGED <<ending, heard>> /\ (UNCHANGED <<mutex, lastMutex>> \/ GetMutex("life"))
    BY <1>5 DEF Ending, Retire, SeekMutex, DropFile, besideVars, muVars
  <2>2. Mutexes' = Mutexes
    BY <1>0, <1>a, <1>b, <2>1, GetMutexTypes
  <2>3. at["life"] \in AtTheEnd /\ at'["shut"] = at["shut"]
    BY <1>0, <1>b, <1>5, EndingMoves
  <2>. QED BY <1>0, <2>1, <2>2, <2>3, MutexAside
<1>6. CASE Replying \/ UNCHANGED journalVars
  <2>1. UNCHANGED <<ending, heard, mutex, lastMutex, at>>
    BY <1>0, <1>6, ReplyingMoves DEF Replying, TakeReply, AppendDigest, ReleaseGuard, TakerEnds,
        replyAside,
        eventVars, muVars, journalVars
  <2>. QED BY <1>0, <1>a, <2>1, MutexAside
<1>7. CASE ShuttingDown
  <2>1. UNCHANGED <<ending, heard>> /\ (UNCHANGED <<mutex, lastMutex>> \/ GetMutex("shut"))
    BY <1>7 DEF ShuttingDown, BeginShutdown, WaitedOut, ClearActive, RangeFiles, CloseRanged, DropAwaited,
        besideVars, outsideVars, eventVars, muVars
  <2>2. Mutexes' = Mutexes
    BY <1>0, <1>a, <1>b, <2>1, GetMutexTypes
  <2>3. /\ at["shut"] \in ShutEnds => at'["shut"] \in ShutEnds
        /\ at'["life"] = at["life"]
    BY <1>0, <1>b, <1>7, ShuttingDownMoves
  <2>4. Deleted <= Deleted' /\ Deleted \in Nat /\ Deleted' \in Nat
    BY <2>1, <2>3 DEF Deleted, ShutEnds
  <2>5. Mutexes <= 1 + Deleted /\ Mutexes \in Nat
    BY <1>0 DEF MutexBudget, Mutexes
  <2>6. Mutexes' <= 1 + Deleted'
    <3>1. Mutexes <= 1 + Deleted'
      BY <2>4, <2>5, BudgetSums
    <3>. QED BY <2>2, <3>1
  <2>. QED BY <1>0, <2>1, <2>3, <2>6 DEF MutexBudget
<1>8. ASSUME NEW g \in Handlers, HandlerEnds(g) PROVE MutexBudget'
  <2>1. UNCHANGED <<ending, heard, muVars>>
    BY <1>8 DEF HandlerEnds, besideVars
  <2>2. at'["shut"] = at["shut"] /\ (at'["life"] \in AtTheEnd => at["life"] \in AtTheEnd)
    BY <1>0, <1>b, <1>8, HandlerEndsMoves, JournalFacts DEF AtTheEnd
  <2>. QED BY <1>0, <1>a, <2>1, <2>2, MutexAside DEF muVars
<1>9. ASSUME NEW g \in {"life", "shut"}, ForgetGuard(g) PROVE MutexBudget'
  <2>1. UNCHANGED <<ending, heard, muVars>>
    BY <1>9 DEF ForgetGuard, outsideVars, eventVars
  <2>2. /\ at["shut"] \in ShutEnds <=> at'["shut"] \in ShutEnds
        /\ at'["life"] \in AtTheEnd => at["life"] \in AtTheEnd
    <3>1. at[g] # "release"
      BY <1>9 DEF ForgetGuard, From
    <3>. QED BY <1>0, <1>b, <1>9, <3>1, CleaningMoves DEF AtTheEnd, ShutEnds
  <2>. QED BY <1>0, <1>a, <2>1, <2>2, MutexAside DEF muVars
<1>10. ASSUME NEW g \in {"life", "shut"}, ReleaseMutex(g) PROVE MutexBudget'
  <2>1. /\ heard' = heard /\ lastMutex' = lastMutex /\ mutex' = 0 /\ at[g] = "release"
        /\ ending' = (ending /\ g # "life")
    BY <1>10 DEF ReleaseMutex, besideVars, From
  <2>2. /\ at'[g] = (IF g = "life" THEN "rest" ELSE "maps")
        /\ \A c \in Journalists : c # g => at'[c] = at[c]
    BY <1>0, <1>10, <2>1, CleaningMoves
  <2>3. Mutexes' <= Mutexes + 1 /\ Mutexes \in Nat /\ Mutexes' \in Nat /\ Mutexes <= 1 + Deleted
    BY <1>0, <2>1 DEF Mutexes, MutexBudget
  <2>4. Deleted' = Deleted + 1 /\ Deleted \in Nat
    <3>1. CASE g = "life"
      <4>1. ending /\ "stopped" \in heard /\ ~ending' /\ "stopped" \in heard'
        BY <1>0, <2>1, <3>1 DEF MutexBudget, AtTheEnd
      <4>2. at'["shut"] = at["shut"]
        BY <1>b, <2>2, <3>1
      <4>. QED BY <4>1, <4>2 DEF Deleted
    <3>2. CASE g = "shut"
      <4>1. ending' <=> ending
        BY <2>1, <3>2
      <4>2. at["shut"] = "release" /\ at'["shut"] = "maps"
        BY <2>1, <2>2, <3>2
      <4>. QED BY <2>1, <4>1, <4>2 DEF Deleted
    <3>. QED BY <3>1, <3>2
  <2>5. Mutexes' <= 1 + Deleted'
    BY <2>3, <2>4
  <2>6. (ending' => "stopped" \in heard') /\ (at'["life"] \in AtTheEnd => ending')
    <3>1. CASE g = "life"
      BY <2>1, <2>2, <3>1 DEF AtTheEnd
    <3>2. CASE g = "shut"
      <4>1. (ending' <=> ending) /\ at'["life"] = at["life"]
        BY <1>b, <2>1, <2>2, <3>2
      <4>. QED BY <1>0, <2>1, <4>1 DEF MutexBudget
    <3>. QED BY <3>1, <3>2
  <2>. QED BY <2>5, <2>6 DEF MutexBudget
<1>. QED BY <1>1, <1>2, <1>3, <1>4, <1>5, <1>6, <1>7, <1>8, <1>9, <1>10 DEF JournalNext

LEMMA EntryBudgetKept ==
    ASSUME JournalTypeInv, [JournalNext]_journalVars
    PROVE  EntryBudget'
<1>0. /\ JournalTypeOK /\ EntryBudget /\ SpotTypes
      /\ MaxLogged \in Nat /\ written \in Nat /\ logged \in Nat
    BY SameTypes, JournalTypesSplit, JournalFacts DEF JournalTypeInv, LogTypes, EventTypes
<1>a. /\ "life" \in Journalists /\ "life" \in Handlers /\ "life" \notin Loggers /\ "shut" \notin Loggers
      /\ Loggers \subseteq Journalists /\ Loggers \subseteq Handlers /\ "life" # "shut"
    BY JournalFacts
<1>b. Cardinality(Appending) \in Nat /\ IsFiniteSet(Appending)
    BY <1>0, FS_CardinalityType DEF EntryBudget
<1>1. ASSUME UNCHANGED <<written, logged, heard>>, SpotTypes',
             \A g \in Loggers : at'[g] = "append" <=> at[g] = "append",
             at'["life"] = "begin" => at["life"] = "begin",
             at'["life"] \in BeforeFarewell => at["life"] \in BeforeFarewell
      PROVE  EntryBudget'
  <2>1. Appending' = Appending
    BY <1>1 DEF Appending
  <2>2. BeginDue' <= BeginDue /\ EndDue' <= EndDue
    BY <1>1 DEF BeginDue, EndDue, BeforeFarewell, InCompaction
  <2>. QED BY <1>0, <1>1, <2>1, <2>2, EntryAside
<1>2. ASSUME NEW g \in Handlers, Compacting(g) PROVE EntryBudget'
  <2>1. UNCHANGED <<written, logged, heard>>
    BY <1>2 DEF Compacting, Measure, Guard, NotStale, DropOld, ReopenGuard, StampGuard, CutLines,
        StorePrompt, PostPrompt, outsideVars, eventVars, logVars
  <2>2. /\ SpotTypes' /\ \A c \in Journalists : c # g => at'[c] = at[c]
        /\ at[g] \in InCompaction /\ at'[g] \in InCompaction \cup {Compacted(g)}
    BY <1>0, <1>2, CompactingMoves
  <2>3. \A c \in Loggers : at'[c] = "append" <=> at[c] = "append"
    BY <1>a, <2>2 DEF InCompaction, Compacted
  <2>4. /\ at'["life"] = "begin" => at["life"] = "begin"
        /\ at'["life"] \in BeforeFarewell => at["life"] \in BeforeFarewell
    BY <1>a, <2>2 DEF InCompaction, Compacted, BeforeFarewell
  <2>. QED BY <1>1, <2>1, <2>2, <2>3, <2>4
<1>3. ASSUME NEW g \in Handlers, Entering(g) PROVE EntryBudget'
  <2>1. UNCHANGED <<written, logged, heard>>
    BY <1>3 DEF Entering, EnterMutex, LockMutex, CheckJournal, GetLogFile, OpenLogFile, WriteEntry,
        besideVars
  <2>2. /\ SpotTypes' /\ \A c \in Journalists : c # g => at'[c] = at[c]
        /\ at[g] \in InEntry /\ at'[g] \in (InEntry \ {"mutex"}) \cup {Entered(g)}
    BY <1>0, <1>3, EnteringMoves
  <2>3. \A c \in Loggers : at'[c] = "append" <=> at[c] = "append"
    BY <1>a, <2>2 DEF InEntry, Entered
  <2>4. /\ at'["life"] = "begin" => at["life"] = "begin"
        /\ at'["life"] \in BeforeFarewell => at["life"] \in BeforeFarewell
    BY <1>a, <2>2 DEF InEntry, Entered, BeforeFarewell, InCompaction
  <2>. QED BY <1>1, <2>1, <2>2, <2>3, <2>4
<1>4. CASE Ending
  <2>1. UNCHANGED <<written, logged, heard>>
    BY <1>4 DEF Ending, Retire, SeekMutex, DropFile, besideVars
  <2>2. /\ SpotTypes' /\ \A c \in Journalists : c # "life" => at'[c] = at[c]
        /\ at'["life"] \in AtTheEnd
    BY <1>0, <1>4, EndingMoves
  <2>3. \A c \in Loggers : at'[c] = "append" <=> at[c] = "append"
    BY <1>a, <2>2
  <2>. QED BY <1>1, <2>1, <2>2, <2>3 DEF AtTheEnd, BeforeFarewell, InCompaction
<1>5. CASE Replying \/ UNCHANGED journalVars
  <2>1. UNCHANGED <<written, logged, heard, at>>
    BY <1>0, <1>5, ReplyingMoves DEF Replying, TakeReply, AppendDigest, ReleaseGuard, TakerEnds,
        replyAside,
        eventVars, logVars, journalVars
  <2>. QED BY <1>0, <1>1, <2>1 DEF SpotTypes
<1>6. CASE ShuttingDown
  <2>1. UNCHANGED <<written, logged, heard>>
    BY <1>6 DEF ShuttingDown, BeginShutdown, WaitedOut, ClearActive, RangeFiles, CloseRanged, DropAwaited,
        besideVars, outsideVars, eventVars, logVars
  <2>2. SpotTypes' /\ \A c \in Journalists : c # "shut" => at'[c] = at[c]
    BY <1>0, <1>6, ShuttingDownMoves
  <2>3. at'["life"] = at["life"] /\ \A c \in Loggers : at'[c] = at[c]
    BY <1>a, <2>2
  <2>. QED BY <1>1, <2>1, <2>2, <2>3
<1>7. ASSUME NEW g \in Handlers, HandlerEnds(g) PROVE EntryBudget'
  <2>1. UNCHANGED <<written, logged, heard>>
    BY <1>7 DEF HandlerEnds, besideVars
  <2>2. /\ SpotTypes' /\ \A c \in Journalists : c # g => at'[c] = at[c]
        /\ at[g] = "rest" /\ at'[g] = "off"
    BY <1>0, <1>7, HandlerEndsMoves
  <2>3. \A c \in Loggers : at'[c] = "append" <=> at[c] = "append"
    BY <1>a, <2>2
  <2>4. /\ at'["life"] = "begin" => at["life"] = "begin"
        /\ at'["life"] \in BeforeFarewell => at["life"] \in BeforeFarewell
    BY <1>a, <2>2 DEF BeforeFarewell, InCompaction
  <2>. QED BY <1>1, <2>1, <2>2, <2>3, <2>4
<1>8. ASSUME NEW g \in {"life", "shut"}, ForgetGuard(g) \/ ReleaseMutex(g) PROVE EntryBudget'
  <2>1. UNCHANGED <<written, logged, heard>>
    BY <1>8 DEF ForgetGuard, ReleaseMutex, outsideVars, besideVars, eventVars, logVars
  <2>2. /\ SpotTypes' /\ \A c \in Journalists : c # g => at'[c] = at[c]
        /\ at'[g] \in {"forget", "seek", "down", "rest", "maps"}
    BY <1>0, <1>8, CleaningMoves
  <2>3. \A c \in Loggers : at'[c] = at[c]
    BY <1>a, <2>2
  <2>4. /\ at'["life"] = "begin" => at["life"] = "begin"
        /\ at'["life"] \in BeforeFarewell => at["life"] \in BeforeFarewell
    BY <1>a, <2>2 DEF BeforeFarewell, InCompaction
  <2>. QED BY <1>1, <2>1, <2>2, <2>3, <2>4
<1>9. CASE Beginning
  <2>1. CASE \E g \in Loggers : HearLogger(g)
    <3>1. PICK g \in Loggers : HearLogger(g)
      BY <2>1
    <3>2. /\ at[g] = "rest" /\ To(g, "append") /\ logged' = logged + 1 /\ written' = written /\ heard' = heard
      BY <3>1 DEF HearLogger, From, logVars
    <3>3. at'[g] = "append" /\ \A c \in Journalists : c # g => at'[c] = at[c]
      BY <1>0, <1>a, <3>2, PartyMoves DEF Spots
    <3>4. Appending' = Appending \cup {g} /\ g \notin Appending
      BY <1>a, <3>2, <3>3 DEF Appending
    <3>5. IsFiniteSet(Appending') /\ Cardinality(Appending') = Cardinality(Appending) + 1
      BY <1>b, <3>4, FS_AddElement
    <3>6. at'["life"] = at["life"]
      BY <1>a, <3>3
    <3>7. EntriesDue' = EntriesDue + 1 /\ EntriesDue \in Nat
      BY <1>b, <3>2, <3>5, <3>6 DEF EntriesDue, BeginDue, EndDue, BeforeFarewell, InCompaction
    <3>8. written' + EntriesDue' <= logged' + 2
      BY <1>0, <3>2, <3>7 DEF EntryBudget
    <3>. QED BY <3>5, <3>8 DEF EntryBudget
  <2>2. CASE \E g \in Loggers : AppendRaw(g)
    <3>1. PICK g \in Loggers : AppendRaw(g)
      BY <2>2
    <3>2. /\ at[g] = "append" /\ To(g, "measure") /\ logged' = logged /\ heard' = heard
          /\ written' \in {written, written + 1}
      BY <3>1 DEF AppendRaw, From, AppendEntry, logVars, eventVars
    <3>3. at'[g] = "measure" /\ \A c \in Journalists : c # g => at'[c] = at[c]
      BY <1>0, <1>a, <3>2, PartyMoves DEF Spots
    <3>4. Appending' = Appending \ {g} /\ g \in Appending
      BY <1>a, <3>2, <3>3 DEF Appending
    <3>5. IsFiniteSet(Appending') /\ Cardinality(Appending') = Cardinality(Appending) - 1
      BY <1>b, <3>4, FS_RemoveElement
    <3>6. at'["life"] = at["life"]
      BY <1>a, <3>3
    <3>7. EntriesDue' + 1 <= EntriesDue /\ EntriesDue \in Nat /\ EntriesDue' \in Nat
      <4>1. Cardinality(Appending') \in Nat
        BY <3>5, FS_CardinalityType
      <4>. QED BY <1>b, <3>2, <3>5, <3>6, <4>1 DEF EntriesDue, BeginDue, EndDue, BeforeFarewell, InCompaction
    <3>8. written' + EntriesDue' <= logged' + 2
      <4>1. written' \in Nat /\ written + EntriesDue <= logged + 2
        BY <1>0, <3>2 DEF EntryBudget
      <4>2. written' + EntriesDue' <= logged + 2
        BY <1>0, <3>2, <3>7, <4>1, BudgetSums
      <4>. QED BY <3>2, <4>2
    <3>. QED BY <3>5, <3>8 DEF EntryBudget
  <2>3. CASE BeginJournal \/ Farewell
    <3>1. /\ logged' = logged /\ heard' = heard /\ written' \in {written, written + 1}
          /\ \/ at["life"] = "begin" /\ \E p \in {"activate", "rest"} : To("life", p)
             \/ at["life"] = "farewell" /\ To("life", "mutex")
      BY <2>3 DEF BeginJournal, Farewell, From, AppendEntry, logVars, eventVars
    <3>2. /\ \/ at["life"] = "begin" /\ at'["life"] \in {"activate", "rest"}
             \/ at["life"] = "farewell" /\ at'["life"] = "mutex"
          /\ \A c \in Journalists : c # "life" => at'[c] = at[c]
      BY <1>0, <1>a, <3>1, PartyMoves DEF Spots
    <3>3. Appending' = Appending
      BY <1>a, <3>2 DEF Appending
    <3>4. EntriesDue' + 1 <= EntriesDue /\ EntriesDue \in Nat /\ EntriesDue' \in Nat
      <4>1. CASE at["life"] = "begin" /\ at'["life"] \in {"activate", "rest"}
        <5>1. at["life"] \notin BeforeFarewell /\ at'["life"] \notin BeforeFarewell
          BY <4>1 DEF BeforeFarewell, InCompaction
        <5>2. BeginDue = BeginDue' + 1 /\ BeginDue' \in Nat /\ EndDue' = EndDue /\ EndDue \in Nat
          BY <3>1, <4>1, <5>1 DEF BeginDue, EndDue
        <5>. QED BY <1>b, <3>3, <5>2 DEF EntriesDue
      <4>2. CASE at["life"] = "farewell" /\ at'["life"] = "mutex"
        <5>1. at["life"] \in BeforeFarewell /\ at'["life"] \notin BeforeFarewell
          BY <4>2 DEF BeforeFarewell, InCompaction
        <5>2. EndDue = EndDue' + 1 /\ EndDue' \in Nat /\ BeginDue' = BeginDue /\ BeginDue \in Nat
          BY <3>1, <4>2, <5>1 DEF BeginDue, EndDue
        <5>. QED BY <1>b, <3>3, <5>2 DEF EntriesDue
      <4>. QED BY <3>2, <4>1, <4>2
    <3>5. written' + EntriesDue' <= logged' + 2
      <4>1. written' \in Nat /\ written + EntriesDue <= logged + 2
        BY <1>0, <3>1 DEF EntryBudget
      <4>2. written' + EntriesDue' <= logged + 2
        BY <1>0, <3>1, <3>4, <4>1, BudgetSums
      <4>. QED BY <3>1, <4>2
    <3>. QED BY <1>b, <3>3, <3>5 DEF EntryBudget
  <2>4. CASE HearCreated \/ Activate \/ HearStopped
    <3>1. /\ written' = written /\ logged' = logged
          /\ \/ at["life"] = "rest" /\ To("life", "begin") /\ "created" \notin heard /\ heard' = heard \cup {"created"}
             \/ at["life"] = "activate" /\ To("life", "mutex") /\ heard' = heard
             \/ at["life"] = "rest" /\ (To("life", "measure") \/ at' = at)
                /\ "stopped" \notin heard /\ heard' = heard \cup {"stopped"}
      BY <2>4 DEF HearCreated, Activate, HearStopped, From, logVars
    <3>2. /\ \A c \in Journalists : c # "life" => at'[c] = at[c]
          /\ \/ at["life"] = "rest" /\ at'["life"] = "begin" /\ "created" \notin heard /\ heard' = heard \cup {"created"}
             \/ at["life"] = "activate" /\ at'["life"] = "mutex" /\ heard' = heard
             \/ at["life"] = "rest" /\ at'["life"] \in {"rest", "measure"}
                /\ "stopped" \notin heard /\ heard' = heard \cup {"stopped"}
      BY <1>0, <1>a, <3>1, PartyMoves DEF Spots
    <3>3. Appending' = Appending
      BY <1>a, <3>2 DEF Appending
    <3>4. BeginDue' <= BeginDue /\ EndDue' <= EndDue
      BY <3>2 DEF BeginDue, EndDue, BeforeFarewell, InCompaction
    <3>. QED BY <1>0, <3>1, <3>3, <3>4, EntryAside
  <2>. QED BY <1>9, <2>1, <2>2, <2>3, <2>4 DEF Beginning
<1>. QED BY <1>2, <1>3, <1>4, <1>5, <1>6, <1>7, <1>8, <1>9 DEF JournalNext

LEMMA JournalTypesKept ==
    ASSUME JournalTypeInv, [JournalNext]_journalVars
    PROVE  JournalTypeInv'
<1>0. JournalTypeOK /\ SpotTypes
    BY JournalTypesSplit DEF JournalTypeInv
<1>1. EventTypes' /\ LogTypes' /\ MutexTypes' /\ DailyTypes' /\ AskTypes' /\ NoteTypes'
    BY <1>0, BeginningTypes, CompactingTypes, EnteringTypes, EndingTypes, SameTypes
    DEF JournalNext, journalVars
<1>2. SpotTypes'
    BY <1>0, OneMoves, PartyMoves DEF SpotTypes
<1>3. JournalTypeOK'
    BY <1>1, <1>2 DEF JournalTypeOK, SpotTypes, EventTypes, LogTypes, MutexTypes, DailyTypes, AskTypes,
        NoteTypes, Spots
<1>. QED BY <1>3, MutexBudgetKept, EntryBudgetKept DEF JournalTypeInv

LEMMA JournalTypesStart == JournalInit => JournalTypeInv
<1> SUFFICES ASSUME JournalInit PROVE JournalTypeInv
    OBVIOUS
<1>1. JournalTypeOK
  <2>1. SpotTypes
    BY DEF JournalInit, SpotTypes, Spots
  <2>2. EventTypes
    <3>1. 0 \in 0..MaxLogged /\ 0 \in Days
      BY JournalFacts
    <3>. QED BY <3>1 DEF JournalInit, EventTypes
  <2>3. LogTypes /\ AskTypes
    BY DEF JournalInit, LogTypes, AskTypes
  <2>4. MutexTypes
    BY DEF JournalInit, MutexTypes
  <2>5. DailyTypes
    BY JournalFacts DEF JournalInit, DailyTypes
  <2>6. NoteTypes
    <3>1. 0 \in 0..MaxOld /\ 0 \in 0..MaxJournalFaults
      BY JournalFacts
    <3>. QED BY <3>1 DEF JournalInit, NoteTypes
  <2>. QED BY <2>1, <2>2, <2>3, <2>4, <2>5, <2>6, JournalTypesSplit
<1>2. "life" \in Journalists /\ "shut" \in Journalists /\ at["life"] = "rest" /\ at["shut"] = "up"
    BY JournalFacts DEF JournalInit
<1>3. MutexBudget
  <2>1. Mutexes = 1 /\ Deleted = 0
    BY <1>2 DEF JournalInit, Mutexes, Deleted
  <2>. QED BY <1>2, <2>1 DEF JournalInit, MutexBudget, AtTheEnd
<1>4. EntryBudget
  <2>1. Appending = {}
    BY JournalFacts DEF JournalInit, Appending
  <2>2. IsFiniteSet(Appending) /\ Cardinality(Appending) = 0
    BY <2>1, FS_EmptySet
  <2>3. BeginDue = 1 /\ EndDue = 1
    BY <1>2 DEF JournalInit, BeginDue, EndDue, BeforeFarewell, InCompaction
  <2>4. EntriesDue = 2
    BY <2>2, <2>3 DEF EntriesDue
  <2>. QED BY <2>2, <2>4 DEF JournalInit, EntryBudget
<1>. QED BY <1>1, <1>3, <1>4 DEF JournalTypeInv

-----------------------------------------------------------------------------
(* EntriesKept.                                                            *)

Summed == digest \cup settled \cup UNION awaited
HalfInv ==
    /\ \A g \in Handlers : at[g] \notin {"store", "ask"} => half[g] = {}
    /\ \A g \in Handlers : at[g] = "ask" => half[g] \subseteq Summed
    /\ taker # "append" => digest = {}

LEMMA SummedGrows ==
    ASSUME taker # "append" => digest = {}, [JournalNext]_journalVars, NEW e \in Summed
    PROVE  e \in Summed'
<1>1. CASE UNCHANGED <<digest, settled, awaited>>
    BY <1>1 DEF Summed
<1>2. CASE Replying
  <2>1. CASE TakeReply
    <3>1. PICK p \in posted :
              /\ awaited' = awaited \ {p}
              /\ \/ p \in awaited /\ digest' = p /\ settled' = settled
                 \/ p \in awaited /\ settled' = settled \cup p /\ digest' = digest
                 \/ p \notin awaited /\ settled' = settled /\ digest' = digest
      BY <2>1 DEF TakeReply
    <3>2. e \in settled \/ \E q \in awaited : e \in q
      BY <2>1 DEF TakeReply, Summed
    <3>3. e \in settled => e \in settled'
      BY <3>1
    <3>4. ASSUME NEW q \in awaited, e \in q PROVE e \in Summed'
      <4>1. q \in awaited' \/ q = p
        BY <3>1
      <4>2. q = p => e \in digest' \/ e \in settled'
        BY <3>1, <3>4
      <4>. QED BY <3>4, <4>1, <4>2 DEF Summed
    <3>. QED BY <3>2, <3>3, <3>4 DEF Summed
  <2>2. CASE AppendDigest
    BY <2>2 DEF AppendDigest, Summed, askVars
  <2>3. CASE ReleaseGuard \/ TakerEnds
    BY <1>1, <2>3 DEF ReleaseGuard, TakerEnds, askVars
  <2>. QED BY <1>2, <2>1, <2>2, <2>3 DEF Replying
<1>3. ASSUME NEW g \in Handlers, Compacting(g) PROVE e \in Summed'
  <2>1. \/ UNCHANGED <<digest, settled, awaited>>
        \/ digest' = digest /\ settled' = settled /\ awaited' = awaited \cup {half[g]}
        \/ digest' = digest /\ settled' = settled \cup UNION awaited
    BY <1>3 DEF Compacting, Measure, Guard, NotStale, DropOld, ReopenGuard, StampGuard, CutLines,
        StorePrompt, PostPrompt, outsideVars, askVars
  <2>. QED BY <1>1, <2>1 DEF Summed
<1>4. CASE ShuttingDown
  <2>1. \/ UNCHANGED <<digest, settled, awaited>>
        \/ digest' = digest /\ settled' = settled \cup UNION awaited
    BY <1>4 DEF ShuttingDown, BeginShutdown, WaitedOut, ClearActive, RangeFiles, CloseRanged, DropAwaited,
        besideVars, outsideVars, askVars, takeVars
  <2>. QED BY <1>1, <2>1 DEF Summed
<1>5. CASE Beginning \/ Ending \/ UNCHANGED journalVars \/ \E g \in Handlers : Entering(g) \/ HandlerEnds(g)
    BY <1>1, <1>5 DEF Beginning, HearCreated, BeginJournal, Activate, HearStopped, Farewell, HearLogger,
        AppendRaw, Ending, Retire, SeekMutex, DropFile, Entering, EnterMutex, LockMutex, CheckJournal,
        GetLogFile, OpenLogFile, WriteEntry, HandlerEnds, journalVars, besideVars, askVars, takeVars
<1>6. ASSUME NEW g \in {"life", "shut"}, ForgetGuard(g) \/ ReleaseMutex(g) PROVE e \in Summed'
    BY <1>1, <1>6 DEF ForgetGuard, ReleaseMutex, outsideVars, besideVars, askVars, takeVars
<1>. QED BY <1>2, <1>3, <1>4, <1>5, <1>6 DEF JournalNext

\* What a step does with the log and the halves cut from it.
LEMMA HalfMoves ==
    ASSUME SpotTypes, HalfInv, [JournalNext]_journalVars
    PROVE  \/ /\ half' = half /\ written' = written /\ lines' = lines
              /\ \A g \in Handlers : at'[g] \in {"store", "ask"} <=> at[g] \in {"store", "ask"}
              /\ \A g \in Handlers : at'[g] = "ask" /\ at[g] # "ask" => half[g] \in awaited'
           \/ /\ half' = half /\ written' = written + 1 /\ lines' = lines \cup {written'}
              /\ \A g \in Handlers : at'[g] \in {"store", "ask"} <=> at[g] \in {"store", "ask"}
              /\ \A g \in Handlers : at'[g] = "ask" => at[g] = "ask"
           \/ \E g \in Handlers :
                /\ half[g] = {} /\ half' = [half EXCEPT ![g] = OlderLines] /\ lines' = lines \ OlderLines
                /\ written' = written /\ at'[g] = "store"
                /\ \A c \in Handlers : c # g => at'[c] = at[c]
           \/ \E g \in Handlers :
                /\ at[g] = "ask" /\ half' = [half EXCEPT ![g] = {}] /\ lines' = lines
                /\ written' = written /\ at'[g] \notin {"store", "ask"}
                /\ \A c \in Handlers : c # g => at'[c] = at[c]
<1> DEFINE Aside == /\ \A g \in Handlers : at'[g] \in {"store", "ask"} <=> at[g] \in {"store", "ask"}
                    /\ \A g \in Handlers : at'[g] = "ask" => at[g] = "ask"
<1>0. SpotTypes /\ Handlers \subseteq Journalists /\ "shut" \notin Handlers
    BY JournalFacts
<1>1. CASE half' = half /\ lines' = lines /\ written' = written /\ Aside
    BY <1>1
<1>2. CASE half' = half /\ written' = written + 1 /\ lines' = lines \cup {written'} /\ Aside
    BY <1>2
<1>3. ASSUME NEW g \in Handlers, Compacting(g)
      PROVE  \/ /\ half' = half /\ written' = written /\ lines' = lines
                /\ \A c \in Handlers : at'[c] \in {"store", "ask"} <=> at[c] \in {"store", "ask"}
                /\ \A c \in Handlers : at'[c] = "ask" /\ at[c] # "ask" => half[c] \in awaited'
             \/ /\ half[g] = {} /\ half' = [half EXCEPT ![g] = OlderLines] /\ lines' = lines \ OlderLines
                /\ written' = written /\ at'[g] = "store"
                /\ \A c \in Handlers : c # g => at'[c] = at[c]
             \/ /\ at[g] = "ask" /\ half' = [half EXCEPT ![g] = {}] /\ lines' = lines
                /\ written' = written /\ at'[g] \notin {"store", "ask"}
                /\ \A c \in Handlers : c # g => at'[c] = at[c]
  <2>0. /\ SpotTypes' /\ \A c \in Handlers : c # g => at'[c] = at[c]
    BY <1>0, <1>3, CompactingMoves
  <2>1. \A p \in Spots : To(g, p) => at'[g] = p
    BY <1>0, PartyMoves
  <2>2. Compacted(g) \in Spots /\ Compacted(g) \notin {"store", "ask"}
    BY DEF Compacted, Spots
  <2>3. CASE StorePrompt(g)
    <3>1. /\ at[g] = "store" /\ at'[g] = "ask" /\ half' = half /\ written' = written /\ lines' = lines
          /\ half[g] \in awaited'
      BY <2>1, <2>3 DEF StorePrompt, From, Spots, logVars
    <3>. QED BY <2>0, <3>1
  <2>4. CASE PostPrompt(g)
    <3>1. /\ at[g] = "ask" /\ at'[g] \notin {"store", "ask"} /\ half' = [half EXCEPT ![g] = {}] /\ lines' = lines
          /\ written' = written
      BY <2>1, <2>2, <2>4 DEF PostPrompt, From, logVars
    <3>. QED BY <2>0, <3>1
  <2>5. CASE CutLines(g)
    <3>1. /\ at[g] = "cut" /\ written' = written
          /\ \/ To(g, "store") /\ half' = [half EXCEPT ![g] = OlderLines] /\ lines' = lines \ OlderLines
             \/ To(g, Compacted(g)) /\ half' = half /\ lines' = lines
      BY <2>5 DEF CutLines, From
    <3>2. half[g] = {}
      BY <3>1 DEF HalfInv
    <3>3. CASE To(g, "store") /\ half' = [half EXCEPT ![g] = OlderLines] /\ lines' = lines \ OlderLines
      <4>1. at'[g] = "store"
        BY <2>1, <3>3 DEF Spots
      <4>. QED BY <2>0, <3>1, <3>2, <3>3, <4>1
    <3>4. CASE To(g, Compacted(g)) /\ half' = half /\ lines' = lines
      <4>1. at'[g] \notin {"store", "ask"} /\ at[g] \notin {"store", "ask"}
        BY <2>1, <2>2, <3>1, <3>4
      <4>. QED BY <2>0, <3>1, <3>4, <4>1
    <3>. QED BY <3>1, <3>3, <3>4
  <2>6. CASE Measure(g) \/ Guard(g) \/ NotStale(g) \/ DropOld(g) \/ ReopenGuard(g) \/ StampGuard(g)
    <3>1. /\ half' = half /\ written' = written /\ lines' = lines /\ at[g] \notin {"store", "ask"}
          /\ \E p \in Spots \ {"store", "ask"} : To(g, p)
      BY <2>2, <2>6 DEF Measure, Guard, NotStale, DropOld, ReopenGuard, StampGuard, From, logVars, Spots
    <3>2. at'[g] \notin {"store", "ask"}
      BY <2>1, <3>1
    <3>. QED BY <2>0, <3>1, <3>2
  <2>. QED BY <1>3, <2>3, <2>4, <2>5, <2>6 DEF Compacting
<1>4. ASSUME NEW g \in Handlers, Entering(g) PROVE half' = half /\ lines' = lines /\ written' = written /\ Aside
  <2>1. half' = half /\ lines' = lines /\ written' = written
    BY <1>4 DEF Entering, EnterMutex, LockMutex, CheckJournal, GetLogFile, OpenLogFile, WriteEntry,
        besideVars
  <2>2. /\ SpotTypes' /\ \A c \in Journalists : c # g => at'[c] = at[c]
        /\ at[g] \in InEntry /\ at'[g] \in (InEntry \ {"mutex"}) \cup {Entered(g)}
    BY <1>0, <1>4, EnteringMoves
  <2>. QED BY <1>0, <2>1, <2>2 DEF InEntry, Entered
<1>5. CASE Ending
  <2>1. half' = half /\ lines' = lines /\ written' = written
    BY <1>5 DEF Ending, Retire, SeekMutex, DropFile, besideVars
  <2>2. /\ SpotTypes' /\ \A c \in Journalists : c # "life" => at'[c] = at[c]
        /\ at["life"] \in AtTheEnd /\ at'["life"] \in AtTheEnd
    BY <1>0, <1>5, EndingMoves
  <2>. QED BY <1>0, <1>1, <2>1, <2>2 DEF AtTheEnd
<1>6. CASE Replying \/ UNCHANGED journalVars
  <2>1. half' = half /\ lines' = lines /\ written' = written /\ at' = at
    BY <1>6 DEF Replying, TakeReply, AppendDigest, ReleaseGuard, TakerEnds, replyAside, logVars,
        journalVars
  <2>. QED BY <1>1, <2>1
<1>7. CASE ShuttingDown
  <2>1. half' = half /\ lines' = lines /\ written' = written
    BY <1>7 DEF ShuttingDown, BeginShutdown, WaitedOut, ClearActive, RangeFiles, CloseRanged, DropAwaited,
        besideVars, outsideVars, logVars
  <2>2. \A c \in Handlers : at'[c] = at[c]
    BY <1>0, <1>7, ShuttingDownMoves
  <2>. QED BY <1>1, <2>1, <2>2
<1>8. ASSUME NEW g \in Handlers, HandlerEnds(g) PROVE half' = half /\ lines' = lines /\ written' = written /\ Aside
  <2>1. half' = half /\ lines' = lines /\ written' = written
    BY <1>8 DEF HandlerEnds, besideVars
  <2>2. /\ \A c \in Journalists : c # g => at'[c] = at[c]
        /\ at[g] = "rest" /\ at'[g] = "off"
    BY <1>0, <1>8, HandlerEndsMoves
  <2>. QED BY <1>0, <2>1, <2>2
<1>9. ASSUME NEW g \in {"life", "shut"}, ForgetGuard(g) \/ ReleaseMutex(g)
      PROVE  half' = half /\ lines' = lines /\ written' = written /\ Aside
  <2>1. half' = half /\ lines' = lines /\ written' = written
    BY <1>9 DEF ForgetGuard, ReleaseMutex, outsideVars, besideVars, logVars
  <2>2. /\ \A c \in Journalists : c # g => at'[c] = at[c]
        /\ at[g] \in {"unguard", "forget", "release"} /\ at'[g] \in {"forget", "seek", "down", "rest", "maps"}
    BY <1>0, <1>9, CleaningMoves
  <2>. QED BY <1>0, <2>1, <2>2
<1>10. CASE Beginning
  <2>1. \E g \in Handlers : \E p \in Spots \ {"store", "ask"} :
            at[g] \notin {"store", "ask"} /\ (To(g, p) \/ at' = at)
    BY <1>10, JournalFacts DEF Beginning, HearCreated, BeginJournal, Activate, HearStopped, Farewell,
        HearLogger,
        AppendRaw, From, Spots
  <2>2. Aside
    BY <1>0, <2>1, PartyMoves
  <2>3. half' = half /\ \/ lines' = lines /\ written' = written
                        \/ written' = written + 1 /\ lines' = lines \cup {written'}
    BY <1>10 DEF Beginning, HearCreated, BeginJournal, Activate, HearStopped, Farewell, HearLogger,
        AppendRaw, AppendEntry, logVars
  <2>. QED BY <1>1, <1>2, <2>2, <2>3
<1> HIDE DEF Aside
<1>11. CASE Beginning \/ Ending \/ Replying \/ ShuttingDown \/ UNCHANGED journalVars
    BY <1>5, <1>6, <1>7, <1>10, <1>11
<1>12. CASE \E g \in Handlers : Compacting(g)
    BY <1>3, <1>12
<1>13. CASE \/ \E g \in Handlers : Entering(g) \/ HandlerEnds(g)
            \/ \E g \in {"life", "shut"} : ForgetGuard(g) \/ ReleaseMutex(g)
    BY <1>1, <1>4, <1>8, <1>9, <1>13
<1>. QED BY <1>11, <1>12, <1>13 DEF JournalNext

LEMMA HalfKept ==
    ASSUME JournalTypeInv, HalfInv, EntriesKept, [JournalNext]_journalVars
    PROVE  HalfInv' /\ EntriesKept'
<1>0. SpotTypes /\ written \in Nat /\ half \in [Handlers -> SUBSET Entries]
    BY JournalTypesSplit, JournalFacts DEF JournalTypeInv, LogTypes
<1>1. \A e \in Summed : e \in Summed'
    BY SummedGrows DEF HalfInv
<1>2. taker' # "append" => digest' = {}
  <2>1. CASE UNCHANGED <<taker, digest>>
    BY <2>1 DEF HalfInv
  <2>2. CASE Replying
    BY <2>2 DEF Replying, TakeReply, AppendDigest, ReleaseGuard, TakerEnds, HalfInv
  <2>3. CASE ~Replying
    <3>1. UNCHANGED <<taker, digest>>
      BY <2>3 DEF JournalNext, Beginning, HearCreated, BeginJournal, Activate, HearStopped, Farewell,
          HearLogger,
        AppendRaw, Ending, Retire, SeekMutex, DropFile, Entering, EnterMutex, LockMutex, CheckJournal,
        GetLogFile, OpenLogFile, WriteEntry, HandlerEnds, journalVars, besideVars, takeVars, outsideVars,
        Compacting, Measure, Guard, NotStale, DropOld, ReopenGuard, StampGuard, CutLines,
        StorePrompt, PostPrompt, ShuttingDown, BeginShutdown, WaitedOut, ClearActive, RangeFiles,
        CloseRanged,
        DropAwaited, ForgetGuard, ReleaseMutex
    <3>. QED BY <2>1, <3>1
  <2>. QED BY <2>2, <2>3
<1>3. CASE half' = half /\ written' = written /\ lines' = lines
           /\ (\A g \in Handlers : at'[g] \in {"store", "ask"} <=> at[g] \in {"store", "ask"})
           /\ \A g \in Handlers : at'[g] = "ask" /\ at[g] # "ask" => half[g] \in awaited'
  <2>1. ASSUME NEW g \in Handlers, at'[g] = "ask" PROVE half'[g] \subseteq Summed'
    <3>1. CASE at[g] = "ask"
      BY <1>1, <1>3, <3>1 DEF HalfInv
    <3>2. CASE half[g] \in awaited'
      BY <1>3, <3>2 DEF Summed
    <3>. QED BY <1>3, <2>1, <3>1, <3>2
  <2>2. HalfInv'
    BY <1>2, <1>3, <2>1 DEF HalfInv
  <2>. QED BY <1>1, <1>3, <2>2 DEF EntriesKept, Summed
<1>4. CASE half' = half /\ written' = written + 1 /\ lines' = lines \cup {written'}
           /\ (\A g \in Handlers : at'[g] \in {"store", "ask"} <=> at[g] \in {"store", "ask"})
           /\ \A g \in Handlers : at'[g] = "ask" => at[g] = "ask"
  <2>1. HalfInv'
    BY <1>1, <1>2, <1>4 DEF HalfInv
  <2>2. ASSUME NEW e \in 1..written'
        PROVE  \/ e \in lines' \cup digest' \cup settled' \cup UNION awaited'
               \/ \E g \in Handlers : e \in half'[g]
    <3>1. e \in 1..written \/ e = written'
      BY <1>0, <1>4
    <3>2. e = written' => e \in lines'
      BY <1>4
    <3>. QED BY <1>1, <1>4, <3>1, <3>2 DEF EntriesKept, Summed
  <2>. QED BY <2>1, <2>2 DEF EntriesKept
<1>5. ASSUME NEW g \in Handlers,
             half[g] = {}, half' = [half EXCEPT ![g] = OlderLines], lines' = lines \ OlderLines,
             written' = written, at'[g] = "store",
             \A c \in Handlers : c # g => at'[c] = at[c]
      PROVE  HalfInv' /\ EntriesKept'
  <2>1. half'[g] = OlderLines /\ \A c \in Handlers : c # g => half'[c] = half[c]
    BY <1>0, <1>5
  <2>2. HalfInv'
    BY <1>1, <1>2, <1>5, <2>1 DEF HalfInv
  <2>3. ASSUME NEW e \in 1..written
        PROVE  \/ e \in lines' \cup digest' \cup settled' \cup UNION awaited'
               \/ \E c \in Handlers : e \in half'[c]
    <3>1. CASE e \in lines
      BY <1>5, <2>1, <3>1
    <3>2. CASE e \in Summed
      BY <1>1, <3>2 DEF Summed
    <3>3. CASE \E c \in Handlers : e \in half[c]
      BY <1>5, <2>1, <3>3
    <3>. QED BY <3>1, <3>2, <3>3 DEF EntriesKept, Summed
  <2>. QED BY <1>5, <2>2, <2>3 DEF EntriesKept
<1>6. ASSUME NEW g \in Handlers,
             at[g] = "ask", half' = [half EXCEPT ![g] = {}], lines' = lines,
             written' = written, at'[g] \notin {"store", "ask"},
             \A c \in Handlers : c # g => at'[c] = at[c]
      PROVE  HalfInv' /\ EntriesKept'
  <2>1. half'[g] = {} /\ \A c \in Handlers : c # g => half'[c] = half[c]
    BY <1>0, <1>6
  <2>2. HalfInv'
    BY <1>1, <1>2, <1>6, <2>1 DEF HalfInv
  <2>3. ASSUME NEW e \in 1..written
        PROVE  \/ e \in lines' \cup digest' \cup settled' \cup UNION awaited'
               \/ \E c \in Handlers : e \in half'[c]
    <3>1. CASE e \in lines
      BY <1>6, <3>1
    <3>2. CASE e \in Summed
      BY <1>1, <3>2 DEF Summed
    <3>3. ASSUME NEW c \in Handlers, e \in half[c]
          PROVE  e \in Summed' \/ e \in half'[c]
      BY <1>1, <1>6, <2>1, <3>3 DEF HalfInv
    <3>. QED BY <3>1, <3>2, <3>3 DEF EntriesKept, Summed
  <2>. QED BY <1>6, <2>2, <2>3 DEF EntriesKept
<1>. QED BY <1>0, <1>3, <1>4, <1>5, <1>6, HalfMoves

-----------------------------------------------------------------------------
(* GuardOpens and OneJournalCompaction.                                    *)

Openers == {"stamp", "cut", "store", "reopen", "unguard"}
Busy == {g \in Handlers : at[g] \in {"stamp", "cut", "store"}}
Answered == taker \in {"append", "release"}
OneInv ==
    ~forced =>
        /\ \A g, h \in Busy : g = h
        /\ \A p, q \in awaited : p = q
        /\ Busy # {} => awaited = {} /\ ~Answered
        /\ awaited # {} => ~Answered
        /\ Busy # {} \/ awaited # {} \/ Answered => compacting

\* A step that has nothing to do with the guard.
LEMMA GuardAside ==
    ASSUME GuardOpens, OneInv, compacting' = compacting, awaited' = awaited, taker' = taker, forced' = forced,
           \A g \in Journalists : at[g] \in Openers => at'[g] \in Openers,
           Busy' = Busy
    PROVE  GuardOpens' /\ OneInv'
<1>1. Answered' = Answered
    BY DEF Answered
<1>. QED BY <1>1 DEF GuardOpens, OneInv, Openers

LEMMA BusySame ==
    ASSUME \A g \in Handlers : at'[g] \in {"stamp", "cut", "store"} <=> at[g] \in {"stamp", "cut", "store"}
    PROVE  Busy' = Busy
    BY DEF Busy

LEMMA GuardKeptCompacting ==
    ASSUME SpotTypes, GuardOpens, OneInv, NEW g \in Handlers, Compacting(g)
    PROVE  GuardOpens' /\ OneInv'
<1>0. /\ SpotTypes' /\ \A c \in Journalists : c # g => at'[c] = at[c]
      /\ g \in Journalists /\ Handlers \subseteq Journalists
    BY CompactingMoves, JournalFacts
<1>a. \A p \in Spots : To(g, p) => at'[g] = p
    BY <1>0, PartyMoves
<1>b. Compacted(g) \in Spots /\ Compacted(g) \notin Openers \cup {"stamp", "cut", "store"}
    BY DEF Compacted, Spots, Openers
<1>c. taker' = taker
    BY DEF Compacting, Measure, Guard, NotStale, DropOld, ReopenGuard, StampGuard, CutLines, StorePrompt,
        PostPrompt, outsideVars
<1>d. Answered' = Answered
    BY <1>c DEF Answered
<1>1. CASE Measure(g) \/ NotStale(g) \/ PostPrompt(g)
  <2>1. /\ compacting' = compacting /\ awaited' = awaited /\ forced' = forced
        /\ at[g] \notin Openers /\ at[g] \notin {"stamp", "cut", "store"}
        /\ \E p \in Spots \ (Openers \cup {"stamp", "cut", "store"}) : To(g, p)
    BY <1>1, <1>b DEF Measure, NotStale, PostPrompt, claimVars, askVars, noteVars, From, Spots, Openers
  <2>2. at'[g] \notin Openers /\ at'[g] \notin {"stamp", "cut", "store"}
    BY <1>a, <2>1
  <2>3. Busy' = Busy
    BY <1>0, <2>1, <2>2, BusySame
  <2>. QED BY <1>0, <1>c, <2>1, <2>3, GuardAside
<1>2. CASE Guard(g)
  <2>1. compacting' = TRUE /\ awaited' = awaited /\ forced' = forced
    BY <1>2 DEF Guard, askVars, noteVars
  <2>2. at[g] \in {"guard", "again"}
    BY <1>2 DEF Guard
  <2>3. \/ ~compacting /\ at'[g] = "stamp"
        \/ compacting /\ at'[g] \notin Openers /\ at'[g] \notin {"stamp", "cut", "store"}
    BY <1>2, <1>a, <1>b DEF Guard, Spots, Openers
  <2>4. CASE compacting
    <3>1. Busy' = Busy
      BY <1>0, <2>2, <2>3, <2>4, BusySame
    <3>2. compacting' <=> compacting
      BY <2>1, <2>4
    <3>. QED BY <1>0, <1>c, <1>d, <2>1, <2>2, <3>1, <3>2 DEF GuardOpens, OneInv, Openers
  <2>5. CASE ~compacting
    <3>1. at'[g] = "stamp"
      BY <2>3, <2>5
    <3>2. GuardOpens'
      BY <1>0, <3>1 DEF GuardOpens
    <3>3. OneInv'
      <4>1. CASE ~forced
        <5>1. Busy = {} /\ awaited = {} /\ ~Answered
          BY <2>5, <4>1 DEF OneInv
        <5>2. \A c \in Busy' : c = g
          <6> SUFFICES ASSUME NEW c \in Handlers, at'[c] \in {"stamp", "cut", "store"}, c # g PROVE FALSE
            BY DEF Busy
          <6>. QED BY <1>0, <5>1 DEF Busy
        <5>. QED BY <1>d, <2>1, <5>1, <5>2 DEF OneInv
      <4>2. CASE forced
        BY <2>1, <4>2 DEF OneInv
      <4>. QED BY <4>1, <4>2
    <3>. QED BY <3>2, <3>3
  <2>. QED BY <2>4, <2>5
<1>3. CASE DropOld(g)
  <2>1. compacting' = compacting /\ awaited' = {} /\ forced' = forced /\ at[g] = "stale" /\ at'[g] = "reopen"
    BY <1>3, <1>a DEF DropOld, claimVars, From, Spots
  <2>2. Busy' = Busy
    BY <1>0, <2>1, BusySame
  <2>. QED BY <1>0, <1>d, <2>1, <2>2 DEF GuardOpens, OneInv
<1>4. CASE ReopenGuard(g)
    BY <1>4 DEF ReopenGuard, GuardOpens, OneInv
<1>5. CASE StampGuard(g)
  <2>1. compacting' = compacting /\ awaited' = awaited /\ forced' = forced
    BY <1>5 DEF StampGuard, askVars, noteVars
  <2>2. \/ at[g] = "unstamp" /\ at'[g] = "again"
        \/ at[g] = "stamp" /\ at'[g] = "cut"
    BY <1>5, <1>a DEF StampGuard, From, Spots
  <2>3. Busy' = Busy
    BY <1>0, <2>2, BusySame
  <2>. QED BY <1>0, <1>c, <2>1, <2>2, <2>3, GuardAside DEF Openers
<1>6. CASE CutLines(g)
  <2>1. at[g] = "cut" /\ awaited' = awaited /\ forced' = forced
    BY <1>6 DEF CutLines, askVars, historyVars, From
  <2>2. CASE compacting' = compacting /\ at'[g] = "store"
    <3>1. Busy' = Busy
      BY <1>0, <2>1, <2>2, BusySame
    <3>. QED BY <1>0, <1>c, <2>1, <2>2, <3>1, GuardAside DEF Openers
  <2>3. CASE ~compacting' /\ at'[g] = Compacted(g)
    <3>1. GuardOpens'
      BY <2>3 DEF GuardOpens
    <3>2. CASE ~forced
      <4>1. g \in Busy
        BY <2>1 DEF Busy
      <4>2. awaited = {} /\ ~Answered /\ \A c \in Busy : c = g
        BY <3>2, <4>1 DEF OneInv
      <4>3. Busy' = {}
        <5> SUFFICES ASSUME NEW c \in Handlers, at'[c] \in {"stamp", "cut", "store"} PROVE FALSE
          BY DEF Busy
        <5>1. c # g
          BY <1>b, <2>3
        <5>. QED BY <1>0, <4>2, <5>1 DEF Busy
      <4>. QED BY <1>d, <2>1, <3>1, <4>2, <4>3 DEF OneInv
    <3>. QED BY <2>1, <3>1, <3>2 DEF OneInv
  <2>4. \/ To(g, "store") /\ compacting' = compacting
        \/ To(g, Compacted(g)) /\ ~compacting'
    BY <1>6 DEF CutLines, From
  <2>. QED BY <1>a, <1>b, <2>2, <2>3, <2>4 DEF Spots
<1>7. CASE StorePrompt(g)
  <2>1. /\ compacting' = compacting /\ awaited' = awaited \cup {half[g]} /\ forced' = forced
        /\ at[g] = "store" /\ at'[g] = "ask"
    BY <1>7, <1>a DEF StorePrompt, claimVars, noteVars, From, Spots
  <2>2. GuardOpens'
    BY <2>1 DEF GuardOpens
  <2>3. CASE ~forced
    <3>1. g \in Busy
      BY <2>1 DEF Busy
    <3>2. awaited = {} /\ ~Answered /\ compacting /\ \A c \in Busy : c = g
      BY <2>3, <3>1 DEF OneInv
    <3>3. Busy' = {}
      <4> SUFFICES ASSUME NEW c \in Handlers, at'[c] \in {"stamp", "cut", "store"} PROVE FALSE
        BY DEF Busy
      <4>1. c # g
        BY <2>1
      <4>. QED BY <1>0, <3>2, <4>1 DEF Busy
    <3>4. awaited' = {half[g]} /\ compacting'
      BY <2>1, <3>2
    <3>. QED BY <1>d, <2>2, <3>2, <3>3, <3>4 DEF OneInv
  <2>. QED BY <2>1, <2>2, <2>3 DEF OneInv
<1>. QED BY <1>1, <1>2, <1>3, <1>4, <1>5, <1>6, <1>7 DEF Compacting

LEMMA GuardKeptReplying ==
    ASSUME SpotTypes, GuardOpens, OneInv, Replying
    PROVE  GuardOpens' /\ OneInv'
<1>0. at' = at /\ forced' = forced
    BY DEF Replying, TakeReply, AppendDigest, ReleaseGuard, TakerEnds, replyAside, noteVars
<1>a. Busy' = Busy
    BY <1>0 DEF Busy
<1>1. CASE TakeReply
  <2>1. PICK p \in posted :
            /\ taker = "rest" /\ awaited' = awaited \ {p}
            /\ IF p \in awaited THEN taker' \in {"append", "release"} ELSE taker' = taker
    BY <1>1 DEF TakeReply
  <2>2. compacting' = compacting
    BY <1>1 DEF TakeReply, claimVars
  <2>3. CASE p \in awaited
    <3>1. Answered'
      BY <2>1, <2>3 DEF Answered
    <3>2. GuardOpens'
      BY <3>1 DEF GuardOpens, Answered
    <3>3. CASE ~forced
      <4>1. Busy = {} /\ compacting /\ awaited' = {}
        BY <2>1, <2>3, <3>3 DEF OneInv
      <4>. QED BY <1>a, <2>2, <3>2, <4>1 DEF OneInv
    <3>. QED BY <1>0, <3>2, <3>3 DEF OneInv
  <2>4. CASE p \notin awaited
    <3>1. awaited' = awaited /\ taker' = taker
      BY <2>1, <2>4
    <3>. QED BY <1>0, <1>a, <2>2, <3>1, GuardAside
  <2>. QED BY <2>3, <2>4
<1>2. CASE AppendDigest
  <2>1. compacting' = compacting /\ awaited' = awaited /\ Answered /\ Answered'
    BY <1>2 DEF AppendDigest, claimVars, askVars, Answered
  <2>. QED BY <1>0, <1>a, <2>1 DEF GuardOpens, OneInv, Answered
<1>3. CASE ReleaseGuard
  <2>1. CASE taker = "release" /\ taker' = "unstamp" /\ ~compacting'
    <3>1. Answered /\ ~Answered' /\ awaited' = awaited
      BY <1>3, <2>1 DEF Answered, ReleaseGuard, askVars
    <3>2. GuardOpens'
      BY <2>1 DEF GuardOpens
    <3>3. CASE ~forced
      <4>1. Busy = {} /\ awaited = {}
        BY <3>1, <3>3 DEF OneInv
      <4>. QED BY <1>a, <3>1, <3>2, <4>1 DEF OneInv
    <3>. QED BY <1>0, <3>2, <3>3 DEF OneInv
  <2>2. CASE taker = "unstamp" /\ taker' = "rest" /\ compacting' = compacting
    <3>1. ~Answered /\ ~Answered' /\ awaited' = awaited
      BY <1>3, <2>2 DEF Answered, ReleaseGuard, askVars
    <3>2. Answered' <=> Answered
      BY <3>1
    <3>. QED BY <1>0, <1>a, <2>2, <3>1, <3>2 DEF GuardOpens, OneInv, Answered
  <2>. QED BY <1>3, <2>1, <2>2 DEF ReleaseGuard
<1>4. CASE TakerEnds
  <2>1. compacting' = compacting /\ awaited' = awaited /\ ~Answered /\ ~Answered'
    BY <1>4 DEF TakerEnds, claimVars, askVars, Answered
  <2>2. Answered' <=> Answered
    BY <2>1
  <2>. QED BY <1>0, <1>a, <2>1, <2>2 DEF GuardOpens, OneInv, Answered
<1>. QED BY <1>1, <1>2, <1>3, <1>4 DEF Replying

LEMMA GuardKept ==
    ASSUME SpotTypes, GuardOpens, OneInv, [JournalNext]_journalVars
    PROVE  GuardOpens' /\ OneInv'
<1>0. /\ "life" \in Handlers /\ "shut" \in Journalists /\ "shut" \notin Handlers
      /\ Handlers \subseteq Journalists /\ \A c \in Journalists : c # "shut" => c \in Handlers
    BY JournalFacts DEF Journalists, Handlers
<1> DEFINE Quiet == compacting' = compacting /\ awaited' = awaited /\ taker' = taker /\ forced' = forced
<1>a. ASSUME Quiet, NEW g \in Journalists, at[g] \notin Openers, at'[g] \notin {"stamp", "cut", "store"},
             \A c \in Journalists : c # g => at'[c] = at[c]
      PROVE  GuardOpens' /\ OneInv'
  <2>1. Busy' = Busy
    BY <1>0, <1>a, BusySame DEF Openers
  <2>. QED BY <1>a, <2>1, GuardAside
<1>1. CASE \E g \in Handlers : Compacting(g)
    BY <1>1, GuardKeptCompacting
<1>2. CASE Replying
    BY <1>2, GuardKeptReplying
<1>3. CASE UNCHANGED journalVars
  <2>1. Quiet /\ at' = at
    BY <1>3 DEF journalVars, claimVars, askVars, takeVars, noteVars
  <2>. QED BY <2>1, GuardAside, BusySame
<1>4. ASSUME NEW g \in Handlers, Entering(g) PROVE GuardOpens' /\ OneInv'
  <2>1. Quiet
    BY <1>4 DEF Entering, EnterMutex, LockMutex, CheckJournal, GetLogFile, OpenLogFile, WriteEntry,
        besideVars, claimVars, askVars, takeVars, noteVars, historyVars
  <2>2. /\ \A c \in Journalists : c # g => at'[c] = at[c]
        /\ at[g] \in InEntry /\ at'[g] \in (InEntry \ {"mutex"}) \cup {Entered(g)}
    BY <1>4, EnteringMoves
  <2>3. at[g] \notin Openers /\ at'[g] \notin {"stamp", "cut", "store"}
    BY <2>2 DEF InEntry, Openers, Entered
  <2>. QED BY <1>0, <1>a, <2>1, <2>2, <2>3
<1>5. ASSUME NEW g \in Handlers, HandlerEnds(g) PROVE GuardOpens' /\ OneInv'
  <2>1. Quiet
    BY <1>5 DEF HandlerEnds, besideVars, claimVars, askVars, takeVars, noteVars
  <2>2. /\ \A c \in Journalists : c # g => at'[c] = at[c]
        /\ at[g] = "rest" /\ at'[g] = "off"
    BY <1>5, HandlerEndsMoves
  <2>. QED BY <1>0, <1>a, <2>1, <2>2 DEF Openers
<1>6. CASE Ending
  <2>1. Quiet
    BY <1>6 DEF Ending, Retire, SeekMutex, DropFile, besideVars, claimVars, askVars, takeVars, noteVars
  <2>2. /\ \A c \in Journalists : c # "life" => at'[c] = at[c]
        /\ at["life"] \in {"retire", "seek", "drop"} /\ at'["life"] \in AtTheEnd
    BY <1>6, EndingMoves DEF Ending, Retire, SeekMutex, DropFile, From
  <2>. QED BY <1>0, <1>a, <2>1, <2>2 DEF Openers, AtTheEnd
<1>7. CASE Beginning
  <2>1. Quiet
    BY <1>7 DEF Beginning, HearCreated, BeginJournal, Activate, HearStopped, Farewell, HearLogger,
        AppendRaw, claimVars, askVars, takeVars, noteVars, historyVars
  <2>2. \E g \in Handlers : \E p \in Spots \ {"stamp", "cut", "store"} :
            at[g] \notin Openers /\ (To(g, p) \/ at' = at)
    BY <1>7, JournalFacts DEF Beginning, HearCreated, BeginJournal, Activate, HearStopped, Farewell,
        HearLogger,
        AppendRaw, From, Spots, Openers
  <2>3. PICK g \in Handlers, p \in Spots \ {"stamp", "cut", "store"} :
            at[g] \notin Openers /\ (To(g, p) \/ at' = at)
    BY <2>2
  <2>4. CASE at' = at
    BY <2>1, <2>4, GuardAside, BusySame
  <2>5. CASE To(g, p)
    <3>1. at'[g] = p /\ \A c \in Journalists : c # g => at'[c] = at[c]
      BY <1>0, <2>5, PartyMoves
    <3>. QED BY <1>0, <1>a, <2>1, <2>3, <3>1
  <2>. QED BY <2>3, <2>4, <2>5
<1>8. CASE ShuttingDown
  <2>1. \A c \in Journalists : c # "shut" => at'[c] = at[c]
    BY <1>8, ShuttingDownMoves
  <2>2. Busy' = Busy
    BY <1>0, <2>1, BusySame
  <2>3. CASE DropAwaited
    <3>1. /\ compacting' = compacting /\ awaited' = {} /\ taker' = taker /\ forced' = forced
          /\ To("shut", "unguard")
      BY <2>3 DEF DropAwaited, From, claimVars, outsideVars, noteVars
    <3>2. at'["shut"] = "unguard"
      BY <1>0, <3>1, PartyMoves DEF Spots
    <3>3. Answered' = Answered
      BY <3>1 DEF Answered
    <3>. QED BY <1>0, <2>2, <3>1, <3>2, <3>3 DEF GuardOpens, OneInv
  <2>4. CASE ~DropAwaited
    <3>1. Quiet /\ at["shut"] \in {"up", "wait", "clear", "files", "seek"}
      BY <1>8, <2>4 DEF ShuttingDown, BeginShutdown, WaitedOut, ClearActive, RangeFiles, CloseRanged,
        besideVars, claimVars, askVars, takeVars, noteVars, historyVars, From
    <3>2. at["shut"] \notin Openers
      BY <3>1 DEF Openers
    <3>. QED BY <2>1, <2>2, <3>1, <3>2, GuardAside
  <2>. QED BY <2>3, <2>4
<1>9. ASSUME NEW g \in {"life", "shut"}, ForgetGuard(g) \/ ReleaseMutex(g) PROVE GuardOpens' /\ OneInv'
  <2>1. /\ g \in Journalists /\ \A c \in Journalists : c # g => at'[c] = at[c]
        /\ \/ at[g] = "unguard" /\ at'[g] = "forget" /\ ForgetGuard(g)
           \/ at[g] = "forget" /\ at'[g] \in {"seek", "down"} /\ ForgetGuard(g)
           \/ at[g] = "release" /\ at'[g] \in {"rest", "maps"} /\ ReleaseMutex(g)
    BY <1>9, CleaningMoves
  <2>2. CASE at[g] = "unguard" /\ at'[g] = "forget" /\ ForgetGuard(g)
    <3>1. /\ ~compacting' /\ (~forced' => ~forced /\ ~compacting) /\ awaited' = awaited /\ taker' = taker
      BY <2>2 DEF ForgetGuard, From, askVars, outsideVars
    <3>2. GuardOpens'
      BY <3>1 DEF GuardOpens
    <3>3. Busy' = Busy
      BY <2>1, <2>2, <1>0, BusySame
    <3>4. Answered' = Answered
      BY <3>1 DEF Answered
    <3>. QED BY <3>1, <3>2, <3>3, <3>4 DEF OneInv
  <2>3. CASE at[g] = "forget" /\ at'[g] \in {"seek", "down"} /\ ForgetGuard(g)
    <3>1. Quiet
      BY <2>3 DEF ForgetGuard, From, askVars, outsideVars
    <3>. QED BY <1>a, <2>1, <2>3, <3>1 DEF Openers
  <2>4. CASE at[g] = "release" /\ at'[g] \in {"rest", "maps"} /\ ReleaseMutex(g)
    <3>1. Quiet
      BY <2>4 DEF ReleaseMutex, besideVars, claimVars, askVars, takeVars, noteVars
    <3>. QED BY <1>a, <2>1, <2>4, <3>1 DEF Openers
  <2>. QED BY <2>1, <2>2, <2>3, <2>4
<1>. QED BY <1>1, <1>2, <1>3, <1>4, <1>5, <1>6, <1>7, <1>8, <1>9 DEF JournalNext

LEMMA OneCompaction == OneInv => OneJournalCompaction
<1> SUFFICES ASSUME OneInv, ~forced
             PROVE  Cardinality(awaited) + Cardinality({g \in Handlers : at[g] = "store"})
                        + (IF taker = "append" THEN 1 ELSE 0) <= 1
    BY DEF OneJournalCompaction
<1> DEFINE storing == {g \in Handlers : at[g] = "store"}
<1>0. storing \subseteq Busy
    BY DEF Busy
<1>1. ASSUME awaited # {} PROVE Cardinality(awaited) = 1 /\ storing = {} /\ taker # "append"
  <2>1. PICK p \in awaited : awaited = {p}
    BY <1>1 DEF OneInv
  <2>. QED BY <1>0, <1>1, <2>1, FS_Singleton DEF OneInv, Answered
<1>2. ASSUME storing # {} PROVE Cardinality(storing) = 1 /\ awaited = {} /\ taker # "append"
  <2>1. PICK g \in storing : storing = {g}
    BY <1>0, <1>2 DEF OneInv
  <2>2. Cardinality(storing) = 1
    BY <2>1, FS_Singleton
  <2>. QED BY <1>0, <1>2, <2>2 DEF OneInv, Answered
<1>3. (awaited = {} => Cardinality(awaited) = 0) /\ (storing = {} => Cardinality(storing) = 0)
    BY FS_EmptySet
<1> HIDE DEF storing
<1>4. Cardinality(awaited) + Cardinality(storing) + (IF taker = "append" THEN 1 ELSE 0) <= 1
    BY <1>1, <1>2, <1>3
<1>. QED BY <1>4 DEF storing

-----------------------------------------------------------------------------
(* FilesClosed.                                                            *)

Inside == {"get", "open", "write"}
AtTheMutex == {"lock", "check"}
Early == {"up", "wait", "clear"}
Withdrawing == {"unguard", "forget", "seek", "drop"}
NobodyIn(places) == \A g \in Handlers : at[g] \notin places
Closed == openFiles = {} /\ logFile = 0 /\ NobodyIn(Inside)

\* Before the journal is made nobody writes to it, afterwards it is not made again.
Before == "created" \notin heard \/ at["life"] \in {"begin", "activate"}
BeforeInv ==
    /\ at["life"] \in {"begin", "activate"} => "created" \in heard
    /\ Before => ~journal /\ \A g \in Loggers : at[g] \in {"rest", "off"}
RetiredInv == at["life"] \in Withdrawing \cup {"release"} => ~journal
ExclusionInv ==
    \A g, h \in Journalists : ref[g] = ref[h] /\ at[g] \in Locked /\ at[h] \in Locked => g = h

\* Whoever is inside an entry has the mutex that is in the map, and so the handle.
PlaceInv(g) ==
    /\ at[g] \in Inside \/ (journal /\ at[g] \in AtTheMutex) => ref[g] = mutex /\ mutex # 0
    /\ at[g] = "open" => logFile = 0
    /\ at[g] = "write" => logFile # 0 /\ file[g] = logFile
SeekInv ==
    at["shut"] = "seek" =>
        /\ NobodyIn({"get", "open"}) /\ logFile \in {0, file["shut"]}
        /\ mutex # ref["shut"] => NobodyIn({"write"})
FileInv ==
    /\ openFiles = (IF logFile = 0 THEN {} ELSE {logFile})
    /\ \A g \in Handlers : PlaceInv(g)
    /\ at["life"] = "drop" => NobodyIn(Inside)
    /\ at["life"] = "release" => Closed
    /\ at["shut"] \in Early /\ ~journal /\ at["life"] \notin Withdrawing => Closed
    /\ at["shut"] \notin Early => ~journal
    /\ SeekInv
    /\ at["shut"] \in {"release"} \cup ShutEnds => Closed
ClosedInv == ~survivor => FileInv

\* A step that has nothing to do with the file.
LEMMA FileAside ==
    ASSUME FileInv,
           journal' <=> journal, mutex' = mutex, logFile' = logFile, openFiles' = openFiles,
           \A g \in Handlers :
               /\ at'[g] \in Inside => at'[g] = at[g]
               /\ at'[g] \in AtTheMutex => at[g] \in AtTheMutex
               /\ at'[g] \in Inside \cup AtTheMutex => ref'[g] = ref[g] /\ file'[g] = file[g],
           at'["life"] \in {"drop", "release"} => at'["life"] = at["life"],
           at["life"] \in Withdrawing => at'["life"] \in Withdrawing,
           at["shut"] \in Early <=> at'["shut"] \in Early,
           at'["shut"] = "seek" => at["shut"] = "seek" /\ ref'["shut"] = ref["shut"] /\ file'["shut"] = file["shut"],
           at'["shut"] \in {"release"} \cup ShutEnds => at["shut"] \in {"release"} \cup ShutEnds
    PROVE  FileInv'
<1>1. \A g \in Handlers : at'[g] \in Inside => at[g] = at'[g]
    OBVIOUS
<1>2. NobodyIn(Inside) => NobodyIn(Inside)'
    BY DEF NobodyIn
<1>3. Closed => Closed'
    BY <1>2 DEF Closed
<1>4. ASSUME NEW g \in Handlers PROVE PlaceInv(g)'
    BY <1>4 DEF FileInv, PlaceInv, Inside
<1>5. SeekInv'
  <2>1. NobodyIn({"get", "open"}) => NobodyIn({"get", "open"})'
    BY <1>1 DEF NobodyIn, Inside
  <2>2. NobodyIn({"write"}) => NobodyIn({"write"})'
    BY <1>1 DEF NobodyIn, Inside
  <2>. QED BY <2>1, <2>2 DEF FileInv, SeekInv
<1>. QED BY <1>2, <1>3, <1>4, <1>5 DEF FileInv

\* Steps that take no one into an entry, and those of an entry that leave it.
LEMMA FilePartyAside ==
    ASSUME FileInv, NEW a \in Handlers,
           journal' <=> journal, mutex' = mutex, logFile' = logFile, openFiles' = openFiles,
           \A c \in Journalists : c # a => at'[c] = at[c] /\ ref'[c] = ref[c] /\ file'[c] = file[c],
           at'[a] \notin Inside \cup {"lock", "drop", "release"},
           at'[a] = "check" => at[a] = "lock" /\ ref'[a] = ref[a] /\ file'[a] = file[a],
           a = "life" /\ at[a] \in Withdrawing => at'[a] \in Withdrawing
    PROVE  FileInv'
<1>1. /\ "shut" \in Journalists /\ "shut" \notin Handlers /\ Handlers \subseteq Journalists
      /\ "life" \in Handlers
    BY JournalFacts
<1>2. ASSUME NEW g \in Handlers
      PROVE  /\ at'[g] \in Inside => at'[g] = at[g]
             /\ at'[g] \in AtTheMutex => at[g] \in AtTheMutex
             /\ at'[g] \in Inside \cup AtTheMutex => ref'[g] = ref[g] /\ file'[g] = file[g]
  <2>1. CASE g # a
    BY <1>1, <2>1
  <2>2. CASE g = a
    BY <2>2 DEF Inside, AtTheMutex
  <2>. QED BY <2>1, <2>2
<1>3. at'["shut"] = at["shut"] /\ ref'["shut"] = ref["shut"] /\ file'["shut"] = file["shut"]
    BY <1>1
<1>4. at'["life"] \in {"drop", "release"} => at'["life"] = at["life"]
    BY <1>1
<1>5. at["life"] \in Withdrawing => at'["life"] \in Withdrawing
    BY <1>1
<1>. QED BY <1>2, <1>3, <1>4, <1>5, FileAside

LEMMA ExclusionAside ==
    ASSUME ExclusionInv,
           \A g \in Journalists : at'[g] \in Locked => at[g] \in Locked /\ ref'[g] = ref[g]
    PROVE  ExclusionInv'
    BY DEF ExclusionInv

\* One who comes to have a mutex, when no one else has it.
LEMMA ExclusionJoined ==
    ASSUME ExclusionInv, NEW a \in Journalists, LockFree(ref'[a]),
           \A c \in Journalists : c # a => at'[c] = at[c] /\ ref'[c] = ref[c]
    PROVE  ExclusionInv'
    BY DEF ExclusionInv, LockFree

LEMMA RefTypes ==
    ASSUME JournalTypeOK
    PROVE  /\ ref \in [Journalists -> 0..3] /\ file \in [Journalists -> {0} \cup Files] /\ mutex \in 0..3
           /\ logFile \in {0} \cup Files /\ 0 \notin Files
    BY SameTypes, JournalFacts DEF MutexTypes, DailyTypes

\* Who is where, and who has which mutex.
LEMMA ExclusionKept ==
    ASSUME JournalTypeInv, ExclusionInv, [JournalNext]_journalVars
    PROVE  ExclusionInv'
<1>0. /\ JournalTypeOK /\ SpotTypes /\ MutexBudget /\ ref \in [Journalists -> 0..3]
      /\ "life" \in Handlers /\ "shut" \in Journalists /\ "shut" \notin Handlers /\ Handlers \subseteq Journalists
    BY JournalTypesSplit, JournalFacts DEF JournalTypeInv, MutexTypes
<1>a. ASSUME ref' = ref, NEW g \in Journalists, at'[g] \notin Locked,
             \A c \in Journalists : c # g => at'[c] = at[c]
      PROVE  ExclusionInv'
    BY <1>a, ExclusionAside
<1>1. ASSUME NEW g \in Handlers, Compacting(g) PROVE ExclusionInv'
  <2>1. ref' = ref
    BY <1>1 DEF Compacting, Measure, Guard, NotStale, DropOld, ReopenGuard, StampGuard, CutLines,
        StorePrompt, PostPrompt, outsideVars, muVars
  <2>2. /\ \A c \in Journalists : c # g => at'[c] = at[c]
        /\ at'[g] \notin Locked
    BY <1>0, <1>1, CompactingMoves DEF InCompaction, Compacted, Locked
  <2>. QED BY <1>0, <1>a, <2>1, <2>2
<1>2. ASSUME NEW g \in Handlers, Entering(g) PROVE ExclusionInv'
  <2>0. /\ \A c \in Journalists : c # g => at'[c] = at[c]
        /\ at[g] \in InEntry
    BY <1>0, <1>2, EnteringMoves
  <2>1. CASE LockMutex(g)
    <3>1. ref' = ref /\ LockFree(ref[g])
      BY <2>1 DEF LockMutex, muVars
    <3>. QED BY <1>0, <2>0, <3>1, ExclusionJoined
  <2>2. CASE ~LockMutex(g)
    <3>1. /\ \A c \in Journalists : c # g => ref'[c] = ref[c]
          /\ \/ at[g] \in Locked /\ ref' = ref
             \/ at'[g] \notin Locked
      <4>1. CASE EntryEnds(g)
        <5>1. To(g, Entered(g)) /\ Entered(g) \in Spots \ Locked
          BY <4>1 DEF EntryEnds, Entered, Spots, Locked
        <5>2. at'[g] \notin Locked
          BY <1>0, <5>1, PartyMoves
        <5>. QED BY <1>0, <4>1, <5>2 DEF EntryEnds
      <4>2. CASE ~EntryEnds(g)
        <5>1. \/ at[g] \in Locked /\ ref' = ref
              \/ To(g, "lock") /\ GetMutex(g)
          BY <1>2, <2>2, <4>2 DEF Entering, EnterMutex, CheckJournal, GetLogFile, OpenLogFile, WriteEntry,
              muVars, From, Locked
        <5>2. CASE To(g, "lock") /\ GetMutex(g)
          <6>1. at'[g] = "lock"
            BY <1>0, <5>2, PartyMoves DEF Spots
          <6>2. \A c \in Journalists : c # g => ref'[c] = ref[c]
            BY <1>0, <5>2, GetMutexTypes
          <6>. QED BY <6>1, <6>2 DEF Locked
        <5>. QED BY <5>1, <5>2
      <4>. QED BY <4>1, <4>2
    <3>. QED BY <2>0, <3>1, ExclusionAside
  <2>. QED BY <2>1, <2>2
<1>3. CASE Ending
  <2>0. \A c \in Journalists : c # "life" => at'[c] = at[c]
    BY <1>0, <1>3, EndingMoves
  <2>1. CASE SeekMutex
    <3>1. GetMutex("life") /\ LockFree(ref'["life"])
      BY <2>1 DEF SeekMutex
    <3>2. \A c \in Journalists : c # "life" => ref'[c] = ref[c]
      BY <1>0, <3>1, GetMutexTypes
    <3>. QED BY <1>0, <2>0, <3>1, <3>2, ExclusionJoined
  <2>2. CASE Retire \/ DropFile
    <3>1. ref' = ref /\ \/ at["life"] \in Locked
                        \/ To("life", "unguard")
      BY <2>2 DEF Retire, DropFile, From, muVars, Locked
    <3>2. at["life"] \in Locked \/ at'["life"] \notin Locked
      BY <1>0, <3>1, PartyMoves DEF Spots, Locked
    <3>. QED BY <2>0, <3>1, <3>2, ExclusionAside
  <2>. QED BY <1>3, <2>1, <2>2 DEF Ending
<1>4. CASE Replying \/ UNCHANGED journalVars
  <2>1. at' = at /\ ref' = ref
    BY <1>4 DEF Replying, TakeReply, AppendDigest, ReleaseGuard, TakerEnds, replyAside, muVars,
        journalVars
  <2>. QED BY <2>1, ExclusionAside
<1>5. CASE ShuttingDown
  <2>0. \A c \in Journalists : c # "shut" => at'[c] = at[c]
    BY <1>0, <1>5, ShuttingDownMoves
  <2>1. CASE CloseRanged
    <3>1. ref' = ref /\ LockFree(ref["shut"])
      BY <2>1 DEF CloseRanged, muVars
    <3>. QED BY <1>0, <2>0, <3>1, ExclusionJoined
  <2>2. CASE ~CloseRanged
    <3>1. /\ \E p \in Spots \ Locked : To("shut", p)
          /\ ref' = ref \/ GetMutex("shut")
      BY <1>5, <2>2 DEF ShuttingDown, BeginShutdown, WaitedOut, ClearActive, RangeFiles, DropAwaited,
          outsideVars, muVars, From, Spots, Locked
    <3>2. at'["shut"] \notin Locked
      BY <1>0, <3>1, PartyMoves
    <3>3. \A c \in Journalists : c # "shut" => ref'[c] = ref[c]
      BY <1>0, <3>1, GetMutexTypes
    <3>. QED BY <2>0, <3>2, <3>3, ExclusionAside
  <2>. QED BY <2>1, <2>2
<1>6. ASSUME NEW g \in Handlers, HandlerEnds(g) PROVE ExclusionInv'
  <2>1. ref' = ref
    BY <1>6 DEF HandlerEnds, muVars
  <2>2. /\ \A c \in Journalists : c # g => at'[c] = at[c]
        /\ at'[g] \notin Locked
    BY <1>0, <1>6, HandlerEndsMoves DEF Locked
  <2>. QED BY <1>0, <1>a, <2>1, <2>2
<1>7. ASSUME NEW g \in {"life", "shut"}, ForgetGuard(g) \/ ReleaseMutex(g) PROVE ExclusionInv'
  <2>1. \A c \in Journalists : c # g => ref'[c] = ref[c]
    BY <1>0, <1>7 DEF ForgetGuard, ReleaseMutex, outsideVars, muVars
  <2>2. /\ g \in Journalists /\ \A c \in Journalists : c # g => at'[c] = at[c]
        /\ at'[g] \notin Locked
    BY <1>0, <1>7, CleaningMoves DEF Locked
  <2>. QED BY <2>1, <2>2, ExclusionAside
<1>8. CASE Beginning
  <2>1. ref' = ref
    BY <1>8 DEF Beginning, HearCreated, BeginJournal, Activate, HearStopped, Farewell, HearLogger,
        AppendRaw, muVars
  <2>2. \E g \in Handlers : \E p \in Spots \ Locked : To(g, p) \/ at' = at
    BY <1>8, JournalFacts DEF Beginning, HearCreated, BeginJournal, Activate, HearStopped, Farewell,
        HearLogger,
        AppendRaw, From, Spots, Locked
  <2>3. PICK g \in Handlers, p \in Spots \ Locked : To(g, p) \/ at' = at
    BY <2>2
  <2>4. CASE To(g, p)
    <3>1. at'[g] = p /\ \A c \in Journalists : c # g => at'[c] = at[c]
      BY <1>0, <2>4, PartyMoves
    <3>. QED BY <1>0, <1>a, <2>1, <3>1
  <2>. QED BY <2>1, <2>3, <2>4, ExclusionAside
<1>. QED BY <1>1, <1>2, <1>3, <1>4, <1>5, <1>6, <1>7, <1>8 DEF JournalNext

\* The journal is made once, by the session's life.
LEMMA JournalMoves ==
    ASSUME [JournalNext]_journalVars
    PROVE  \/ journal' = journal
           \/ journal' = FALSE /\ at["life"] = "retire" /\ To("life", "unguard")
           \/ journal' = FALSE /\ at["shut"] = "clear" /\ To("shut", "files")
           \/ journal' = TRUE /\ Activate
<1>1. CASE Beginning \/ Ending \/ Replying \/ ShuttingDown \/ UNCHANGED journalVars
    BY <1>1 DEF Beginning, HearCreated, BeginJournal, Activate, HearStopped, Farewell, HearLogger,
        AppendRaw,
        Ending, Retire, SeekMutex, DropFile, Replying, TakeReply, AppendDigest, ReleaseGuard, TakerEnds,
        ShuttingDown, BeginShutdown, WaitedOut, ClearActive, RangeFiles, CloseRanged, DropAwaited,
        replyAside, outsideVars, eventVars, journalVars, From
<1>2. CASE \E g \in Handlers : Compacting(g)
    BY <1>2 DEF Compacting, Measure, Guard, NotStale, DropOld, ReopenGuard, StampGuard, CutLines,
        StorePrompt, PostPrompt, outsideVars, eventVars
<1>3. CASE \E g \in Handlers : Entering(g) \/ HandlerEnds(g)
    BY <1>3 DEF Entering, EnterMutex, LockMutex, CheckJournal, GetLogFile, OpenLogFile, WriteEntry,
        HandlerEnds
<1>4. CASE \E g \in {"life", "shut"} : ForgetGuard(g) \/ ReleaseMutex(g)
    BY <1>4 DEF ForgetGuard, ReleaseMutex, outsideVars, eventVars
<1>. QED BY <1>1, <1>2, <1>3, <1>4 DEF JournalNext


LEMMA RetiredKept ==
    ASSUME SpotTypes, RetiredInv, [JournalNext]_journalVars
    PROVE  RetiredInv'
<1>0. /\ "life" \in Handlers /\ "shut" \in Journalists /\ "shut" \notin Handlers
      /\ Handlers \subseteq Journalists /\ "life" \in Journalists /\ "life" # "shut"
    BY JournalFacts
<1>1. CASE Activate
  <2>1. at'["life"] = "mutex"
    BY <1>0, <1>1, PartyMoves DEF Activate, From, Spots
  <2>. QED BY <2>1 DEF RetiredInv, Withdrawing
<1>2. CASE Retire
    BY <1>2 DEF Retire, RetiredInv
<1>3. CASE ~Activate /\ ~Retire
  <2>1. ~journal => ~journal'
    BY <1>3, JournalMoves
  <2>2. at'["life"] \in Withdrawing \cup {"release"} => at["life"] \in Withdrawing \cup {"release"}
    <3>1. CASE \E g \in Handlers : Compacting(g)
      BY <1>0, <3>1, CompactingMoves DEF InCompaction, Compacted, Withdrawing
    <3>2. CASE \E g \in Handlers : Entering(g)
      BY <1>0, <3>2, EnteringMoves DEF InEntry, Entered, Withdrawing
    <3>3. CASE SeekMutex \/ DropFile
      BY <3>3 DEF SeekMutex, DropFile, From, Withdrawing
    <3>4. CASE Replying \/ UNCHANGED journalVars
      BY <3>4, ReplyingMoves DEF journalVars
    <3>5. CASE ShuttingDown
      BY <1>0, <3>5, ShuttingDownMoves
    <3>6. CASE \E g \in Handlers : HandlerEnds(g)
      BY <1>0, <3>6, HandlerEndsMoves DEF Withdrawing
    <3>7. CASE \E g \in {"life", "shut"} : ForgetGuard(g) \/ ReleaseMutex(g)
      BY <1>0, <3>7, CleaningMoves DEF Withdrawing
    <3>8. CASE Beginning
      <4>1. \E g \in Handlers : \E p \in Spots \ (Withdrawing \cup {"release"}) : To(g, p) \/ at' = at
        BY <3>8, JournalFacts DEF Beginning, HearCreated, BeginJournal, Activate, HearStopped, Farewell,
            HearLogger, AppendRaw, From, Spots, Withdrawing
      <4>. QED BY <1>0, <4>1, PartyMoves
    <3>. QED BY <1>3, <3>1, <3>2, <3>3, <3>4, <3>5, <3>6, <3>7, <3>8 DEF JournalNext, Ending
  <2>. QED BY <2>1, <2>2 DEF RetiredInv
<1>. QED BY <1>1, <1>2, <1>3

LEMMA BeforeAside ==
    ASSUME BeforeInv, "created" \in heard' <=> "created" \in heard, ~journal => ~journal',
           at'["life"] \in {"begin", "activate"} => at["life"] \in {"begin", "activate"},
           \A g \in Loggers : at[g] \in {"rest", "off"} => at'[g] \in {"rest", "off"}
    PROVE  BeforeInv'
    BY DEF BeforeInv, Before

LEMMA BeforeKept ==
    ASSUME SpotTypes, BeforeInv, [JournalNext]_journalVars
    PROVE  BeforeInv'
<1>0. /\ "life" \in Handlers /\ "shut" \in Journalists /\ "shut" \notin Handlers /\ "life" \notin Loggers
      /\ Handlers \subseteq Journalists /\ "life" \in Journalists /\ "life" # "shut"
      /\ Loggers \subseteq Handlers /\ "shut" \notin Loggers
    BY JournalFacts
<1>1. CASE Activate
  <2>1. at'["life"] = "mutex" /\ at["life"] = "activate" /\ heard' = heard
    BY <1>0, <1>1, PartyMoves DEF Activate, From, Spots
  <2>. QED BY <2>1 DEF BeforeInv, Before
<1>2. CASE ~Activate
  <2>0. ~journal => ~journal'
    BY <1>2, JournalMoves
  <2>a. ASSUME heard' = heard, NEW g \in Journalists, at[g] \notin {"rest", "off"} \/ at'[g] \in {"rest", "off"},
               at'[g] \notin {"begin", "activate"},
               \A c \in Journalists : c # g => at'[c] = at[c]
        PROVE  BeforeInv'
    BY <1>0, <2>0, <2>a, BeforeAside
  <2>1. ASSUME NEW g \in Handlers, Compacting(g) PROVE BeforeInv'
    <3>1. heard' = heard
      BY <2>1 DEF Compacting, Measure, Guard, NotStale, DropOld, ReopenGuard, StampGuard, CutLines,
          StorePrompt, PostPrompt, outsideVars, eventVars
    <3>. QED BY <1>0, <2>1, <2>a, <3>1, CompactingMoves DEF InCompaction, Compacted
  <2>2. ASSUME NEW g \in Handlers, Entering(g) PROVE BeforeInv'
    <3>1. heard' = heard
      BY <2>2 DEF Entering, EnterMutex, LockMutex, CheckJournal, GetLogFile, OpenLogFile, WriteEntry,
          besideVars
    <3>. QED BY <1>0, <2>2, <2>a, <3>1, EnteringMoves DEF InEntry, Entered
  <2>3. CASE Ending
    <3>1. heard' = heard
      BY <2>3 DEF Ending, Retire, SeekMutex, DropFile, besideVars
    <3>. QED BY <1>0, <2>3, <2>a, <3>1, EndingMoves DEF AtTheEnd
  <2>4. CASE Replying \/ UNCHANGED journalVars
    <3>1. at' = at /\ heard' = heard
      BY <2>4 DEF Replying, TakeReply, AppendDigest, ReleaseGuard, TakerEnds, replyAside, eventVars,
          journalVars
    <3>. QED BY <2>0, <3>1, BeforeAside
  <2>5. CASE ShuttingDown
    <3>1. heard' = heard
      BY <2>5 DEF ShuttingDown, BeginShutdown, WaitedOut, ClearActive, RangeFiles, CloseRanged,
          DropAwaited,
          besideVars, outsideVars, eventVars
    <3>2. \A c \in Journalists : c # "shut" => at'[c] = at[c]
      BY <1>0, <2>5, ShuttingDownMoves
    <3>. QED BY <1>0, <2>0, <3>1, <3>2, BeforeAside
  <2>6. ASSUME NEW g \in Handlers, HandlerEnds(g) PROVE BeforeInv'
    <3>1. heard' = heard
      BY <2>6 DEF HandlerEnds, besideVars
    <3>. QED BY <1>0, <2>6, <2>a, <3>1, HandlerEndsMoves
  <2>7. ASSUME NEW g \in {"life", "shut"}, ForgetGuard(g) \/ ReleaseMutex(g) PROVE BeforeInv'
    <3>1. heard' = heard
      BY <2>7 DEF ForgetGuard, ReleaseMutex, besideVars, outsideVars, eventVars
    <3>. QED BY <1>0, <2>7, <2>a, <3>1, CleaningMoves
  <2>8. CASE Beginning
    <3>1. CASE HearCreated
      <4>1. /\ at["life"] = "rest" /\ To("life", "begin") /\ "created" \notin heard
            /\ "created" \in heard' /\ journal' = journal
        BY <3>1 DEF HearCreated, From
      <4>2. at'["life"] = "begin" /\ \A c \in Journalists : c # "life" => at'[c] = at[c]
        BY <1>0, <4>1, PartyMoves DEF Spots
      <4>. QED BY <1>0, <4>1, <4>2 DEF BeforeInv, Before
    <3>2. CASE HearStopped
      <4>1. /\ "created" \in heard' <=> "created" \in heard
            /\ at' = at \/ To("life", "measure")
        BY <3>2 DEF HearStopped
      <4>2. CASE To("life", "measure")
        <5>1. at'["life"] = "measure" /\ \A c \in Journalists : c # "life" => at'[c] = at[c]
          BY <1>0, <4>2, PartyMoves DEF Spots
        <5>. QED BY <1>0, <2>0, <4>1, <5>1, BeforeAside
      <4>. QED BY <2>0, <4>1, <4>2, BeforeAside
    <3>3. CASE BeginJournal \/ Farewell
      <4>1. heard' = heard /\ \/ at["life"] = "begin" /\ \E p \in {"activate", "rest"} : To("life", p)
                              \/ at["life"] = "farewell" /\ To("life", "mutex")
        BY <3>3 DEF BeginJournal, Farewell, From, eventVars
      <4>2. /\ \A c \in Journalists : c # "life" => at'[c] = at[c]
            /\ \/ at["life"] = "begin" /\ at'["life"] \in {"activate", "rest"}
               \/ at["life"] = "farewell" /\ at'["life"] = "mutex"
        BY <1>0, <4>1, PartyMoves DEF Spots
      <4>. QED BY <1>0, <2>0, <4>1, <4>2, BeforeAside
    <3>4. ASSUME NEW g \in Loggers, AppendRaw(g) PROVE BeforeInv'
      <4>1. heard' = heard /\ at[g] = "append" /\ To(g, "measure")
        BY <3>4 DEF AppendRaw, From, eventVars
      <4>2. at'[g] = "measure" /\ \A c \in Journalists : c # g => at'[c] = at[c]
        BY <1>0, <4>1, PartyMoves DEF Spots
      <4>. QED BY <1>0, <2>a, <4>1, <4>2
    <3>5. ASSUME NEW g \in Loggers, HearLogger(g) PROVE BeforeInv'
      <4>1. heard' = heard /\ journal /\ To(g, "append")
        BY <3>5 DEF HearLogger, From
      <4>2. at'["life"] = at["life"]
        BY <1>0, <4>1, PartyMoves DEF Spots
      <4>. QED BY <4>1, <4>2 DEF BeforeInv, Before
    <3>. QED BY <1>2, <2>8, <3>1, <3>2, <3>3, <3>4, <3>5 DEF Beginning
  <2>. QED BY <2>1, <2>2, <2>3, <2>4, <2>5, <2>6, <2>7, <2>8 DEF JournalNext
<1>. QED BY <1>1, <1>2

LEMMA SurvivorStays ==
    ASSUME [JournalNext]_journalVars, survivor
    PROVE  survivor'
<1>1. CASE Beginning \/ Ending \/ Replying \/ ShuttingDown \/ UNCHANGED journalVars
    BY <1>1 DEF Beginning, HearCreated, BeginJournal, Activate, HearStopped, Farewell, HearLogger,
        AppendRaw,
        Ending, Retire, SeekMutex, DropFile, Replying, TakeReply, AppendDigest, ReleaseGuard, TakerEnds,
        ShuttingDown, BeginShutdown, WaitedOut, ClearActive, RangeFiles, CloseRanged, DropAwaited,
        journalVars, noteVars, historyVars
<1>2. CASE \E g \in Handlers : Compacting(g)
    BY <1>2 DEF Compacting, Measure, Guard, NotStale, DropOld, ReopenGuard, StampGuard, CutLines,
        StorePrompt, PostPrompt, noteVars, historyVars
<1>3. CASE \E g \in Handlers : Entering(g) \/ HandlerEnds(g)
    BY <1>3 DEF Entering, EnterMutex, LockMutex, CheckJournal, GetLogFile, OpenLogFile, WriteEntry,
        HandlerEnds,
        noteVars, historyVars
<1>4. CASE \E g \in {"life", "shut"} : ForgetGuard(g) \/ ReleaseMutex(g)
    BY <1>4 DEF ForgetGuard, ReleaseMutex, noteVars
<1>. QED BY <1>1, <1>2, <1>3, <1>4 DEF JournalNext

LEMMA FileKeptBeginning ==
    ASSUME JournalTypeInv, FileInv, BeforeInv, Beginning, ~survivor'
    PROVE  FileInv'
<1>0. /\ SpotTypes /\ "life" \in Handlers /\ "shut" \in Journalists /\ "shut" \notin Handlers
      /\ Handlers \subseteq Journalists /\ "life" \in Journalists /\ "life" # "shut"
      /\ \A g \in Handlers : g = "life" \/ g \in Loggers
    BY JournalTypesSplit, JournalFacts DEF JournalTypeInv, Handlers
<1>a. UNCHANGED <<mutex, ref, logFile, openFiles, file>>
    BY DEF Beginning, HearCreated, BeginJournal, Activate, HearStopped, Farewell, HearLogger, AppendRaw,
        muVars, dailyVars
<1>1. CASE Activate
  <2>1. /\ at["life"] = "activate" /\ at'["life"] = "mutex" /\ journal' = TRUE
        /\ \A c \in Journalists : c # "life" => at'[c] = at[c]
        /\ at["shut"] \in Early
    BY <1>0, <1>1, PartyMoves DEF Activate, From, Spots, Early
  <2>2. \A g \in Handlers : at'[g] \notin Inside \cup AtTheMutex
    BY <1>0, <2>1 DEF BeforeInv, Before, Inside, AtTheMutex
  <2>3. \A g \in Handlers : PlaceInv(g)'
    BY <2>2 DEF PlaceInv, Inside, AtTheMutex
  <2>4. at'["shut"] \in Early /\ at'["shut"] # "seek" /\ at'["shut"] \notin {"release"} \cup ShutEnds
    BY <1>0, <2>1 DEF Early, ShutEnds
  <2>. QED BY <1>a, <2>1, <2>3, <2>4 DEF FileInv, SeekInv
<1>2. CASE ~Activate
  <2>1. journal' = journal
    BY <1>2 DEF Beginning, HearCreated, BeginJournal, HearStopped, Farewell, HearLogger, AppendRaw,
        eventVars
  <2>2. \E g \in Handlers : \E p \in Spots \ (Inside \cup Locked \cup {"lock"}) :
            at[g] \notin Withdrawing /\ (To(g, p) \/ at' = at)
    BY <1>2, JournalFacts DEF Beginning, HearCreated, BeginJournal, HearStopped, Farewell, HearLogger,
        AppendRaw,
        From, Spots, Locked, Inside, Withdrawing
  <2>3. PICK g \in Handlers, p \in Spots \ (Inside \cup Locked \cup {"lock"}) :
            at[g] \notin Withdrawing /\ (To(g, p) \/ at' = at)
    BY <2>2
  <2>4. CASE To(g, p)
    <3>1. at'[g] = p /\ \A c \in Journalists : c # g => at'[c] = at[c]
      BY <1>0, <2>4, PartyMoves
    <3>2. at'[g] \notin Inside \cup {"lock", "drop", "release", "check"}
      BY <2>3, <3>1 DEF Locked
    <3>. QED BY <1>a, <2>1, <2>3, <3>1, <3>2, FilePartyAside
  <2>5. CASE at' = at
    BY <1>a, <2>1, <2>5, FileAside
  <2>. QED BY <2>3, <2>4, <2>5
<1>. QED BY <1>1, <1>2

LEMMA FileKeptAside ==
    ASSUME JournalTypeInv, FileInv,
           Replying \/ UNCHANGED journalVars \/ \E g \in Handlers : Compacting(g) \/ HandlerEnds(g)
    PROVE  FileInv'
<1>0. /\ SpotTypes /\ Handlers \subseteq Journalists
    BY JournalTypesSplit, JournalFacts DEF JournalTypeInv
<1>1. CASE Replying \/ UNCHANGED journalVars
  <2>1. UNCHANGED <<at, journal, mutex, ref, logFile, openFiles, file>>
    BY <1>1 DEF Replying, TakeReply, AppendDigest, ReleaseGuard, TakerEnds, replyAside, journalVars,
        eventVars, muVars, dailyVars
  <2>. QED BY <2>1, FileAside
<1>2. ASSUME NEW g \in Handlers, Compacting(g) \/ HandlerEnds(g) PROVE FileInv'
  <2>1. UNCHANGED <<journal, mutex, ref, logFile, openFiles, file>>
    BY <1>2 DEF Compacting, Measure, Guard, NotStale, DropOld, ReopenGuard, StampGuard, CutLines,
        StorePrompt, PostPrompt, HandlerEnds, outsideVars, eventVars, muVars, dailyVars
  <2>2. /\ \A c \in Journalists : c # g => at'[c] = at[c]
        /\ at'[g] \in InCompaction \cup {Compacted(g), "off"} /\ at[g] \in InCompaction \cup {"rest"}
    BY <1>0, <1>2, CompactingMoves, HandlerEndsMoves
  <2>3. at'[g] \notin Inside \cup {"lock", "drop", "release", "check"} /\ at[g] \notin Withdrawing
    BY <2>2 DEF InCompaction, Compacted, Inside, Withdrawing
  <2>. QED BY <2>1, <2>2, <2>3, FilePartyAside
<1>. QED BY <1>1, <1>2

\* The handler's way out of an entry.
LEMMA FileKeptEntryEnds ==
    ASSUME JournalTypeInv, FileInv, NEW g \in Handlers, at[g] \in InEntry, EntryEnds(g),
           UNCHANGED <<journal, logFile, openFiles>>
    PROVE  FileInv'
<1>0. /\ SpotTypes /\ g \in Journalists /\ ref \in [Journalists -> 0..3]
      /\ file \in [Journalists -> {0} \cup Files]
    BY JournalTypesSplit, RefTypes, JournalFacts DEF JournalTypeInv
<1>1. To(g, Entered(g)) /\ Entered(g) \in Spots /\ Entered(g) \in {"retire", "rest"}
    BY DEF EntryEnds, Entered, Spots
<1>2. at'[g] \in {"retire", "rest"} /\ \A c \in Journalists : c # g => at'[c] = at[c]
    BY <1>0, <1>1, PartyMoves
<1>3. \A c \in Journalists : c # g => ref'[c] = ref[c] /\ file'[c] = file[c]
    BY <1>0 DEF EntryEnds
<1>4. at'[g] \notin Inside \cup {"lock", "drop", "release", "check"} /\ at[g] \notin Withdrawing
    BY <1>2 DEF InEntry, Inside, Withdrawing
<1>5. mutex' = mutex
    BY DEF EntryEnds
<1>. QED BY <1>2, <1>3, <1>4, <1>5, FilePartyAside

\* While one is inside an entry, or about to enter, the file is not being closed.
LEMMA NobodyClosing ==
    ASSUME FileInv, RetiredInv, NEW g \in Handlers, at[g] \in Inside \/ (journal /\ at[g] \in AtTheMutex)
    PROVE  /\ journal => at["life"] \notin Withdrawing \cup {"release"} /\ at["shut"] \in Early
           /\ ~journal => /\ at["life"] \notin {"drop", "release"}
                          /\ ~(at["shut"] \in Early /\ at["life"] \notin Withdrawing)
                          /\ at["shut"] \notin {"release"} \cup ShutEnds
    BY DEF FileInv, RetiredInv, Closed, NobodyIn, Withdrawing, Early, ShutEnds

LEMMA FileKeptEntering ==
    ASSUME JournalTypeInv, FileInv, RetiredInv, ExclusionInv, NEW g \in Handlers, Entering(g)
    PROVE  FileInv'
<1>0. /\ JournalTypeOK /\ MutexBudget /\ SpotTypes /\ "life" \in Handlers /\ "shut" \in Journalists
      /\ "shut" \notin Handlers /\ g \in Journalists
      /\ Handlers \subseteq Journalists /\ "life" \in Journalists /\ "life" # "shut"
      /\ ref \in [Journalists -> 0..3] /\ file \in [Journalists -> {0} \cup Files] /\ mutex \in 0..3
      /\ logFile \in {0} \cup Files /\ 0 \notin Files
    BY JournalTypesSplit, RefTypes, JournalFacts DEF JournalTypeInv
<1>a. at[g] \in InEntry /\ \A c \in Journalists : c # g => at'[c] = at[c]
    BY <1>0, EnteringMoves
<1>b. at'["shut"] = at["shut"]
    BY <1>0, <1>a
<1>c. \A p \in Spots : To(g, p) => at'[g] = p
    BY <1>0, PartyMoves
<1>d. at["life"] = at'["life"] \/ g = "life"
    BY <1>0, <1>a
<1>e. g = "life" => at["life"] \notin Withdrawing \cup {"drop", "release"}
    BY <1>a DEF InEntry, Withdrawing
<1>1. CASE EntryEnds(g) /\ UNCHANGED <<journal, logFile, openFiles>>
    BY <1>1, <1>a, FileKeptEntryEnds
<1>2. CASE EnterMutex(g) /\ ~EntryEnds(g)
  <2>1. /\ at[g] = "mutex" /\ To(g, "lock") /\ GetMutex(g)
        /\ UNCHANGED <<journal, logFile, openFiles, file>>
    BY <1>2 DEF EnterMutex
  <2>2. at'[g] = "lock"
    BY <1>c, <2>1 DEF Spots
  <2>3. /\ ref'[g] = mutex' /\ mutex' # 0 /\ (mutex # 0 => mutex' = mutex)
        /\ \A c \in Journalists : c # g => ref'[c] = ref[c]
    BY <1>0, <2>1, GetMutexTypes
  <2>4. ASSUME NEW c \in Handlers PROVE PlaceInv(c)'
    <3>1. CASE c = g
      BY <2>2, <2>3, <3>1 DEF PlaceInv, Inside
    <3>2. CASE c # g
      <4>1. PlaceInv(c) /\ at'[c] = at[c] /\ ref'[c] = ref[c] /\ c \in Journalists
        BY <1>0, <1>a, <2>3, <3>2 DEF FileInv
      <4>. QED BY <2>1, <2>3, <4>1 DEF PlaceInv
    <3>. QED BY <3>1, <3>2
  <2>5. ASSUME NEW places, "lock" \notin places, NobodyIn(places) PROVE NobodyIn(places)'
    BY <1>0, <1>a, <2>2, <2>5 DEF NobodyIn
  <2>6. "lock" \notin Inside /\ "lock" \notin {"get", "open"} /\ "lock" \notin {"write"}
    BY DEF Inside
  <2>7. Closed => Closed'
    BY <2>1, <2>5, <2>6 DEF Closed
  <2>8. SeekInv'
    <3>1. CASE at["shut"] = "seek"
      <4>1. /\ NobodyIn({"get", "open"})' /\ logFile' \in {0, file'["shut"]}
            /\ ref'["shut"] = ref["shut"]
        BY <1>0, <2>1, <2>3, <2>5, <2>6, <3>1 DEF FileInv, SeekInv
      <4>2. mutex = 0 => NobodyIn({"write"})
        BY DEF FileInv, PlaceInv, NobodyIn, Inside
      <4>3. mutex' # ref'["shut"] => NobodyIn({"write"})
        BY <2>3, <3>1, <4>1, <4>2 DEF FileInv, SeekInv
      <4>. QED BY <2>5, <2>6, <4>1, <4>3 DEF SeekInv
    <3>. QED BY <1>b, <3>1 DEF SeekInv
  <2>9. /\ at'["life"] = "drop" => NobodyIn(Inside)'
        /\ at'["life"] = "release" => Closed'
        /\ at'["life"] \notin Withdrawing => at["life"] \notin Withdrawing
    BY <1>d, <1>e, <2>2, <2>5, <2>6, <2>7 DEF FileInv
  <2>. QED BY <1>b, <2>1, <2>4, <2>7, <2>8, <2>9 DEF FileInv
<1>3. CASE LockMutex(g)
  <2>1. UNCHANGED <<journal, mutex, ref, logFile, openFiles, file>> /\ at[g] = "lock" /\ To(g, "check")
    BY <1>3 DEF LockMutex, From, muVars, dailyVars
  <2>2. at'[g] = "check"
    BY <1>c, <2>1 DEF Spots, Locked
  <2>3. at'[g] \notin Inside \cup {"lock", "drop", "release"} /\ at[g] \notin Withdrawing
    BY <2>1, <2>2 DEF Inside, Withdrawing
  <2>. QED BY <1>a, <2>1, <2>2, <2>3, FilePartyAside
<1>4. CASE CheckJournal(g) /\ ~EntryEnds(g)
  <2>1. /\ at[g] = "check" /\ journal /\ To(g, "get")
        /\ UNCHANGED <<journal, mutex, ref, logFile, openFiles, file>>
    BY <1>4 DEF CheckJournal, muVars
  <2>2. at'[g] = "get"
    BY <1>c, <2>1 DEF Spots, Locked
  <2>3. at["life"] \notin Withdrawing \cup {"release"} /\ at["shut"] \in Early
    BY <2>1, NobodyClosing DEF AtTheMutex
  <2>4. ASSUME NEW c \in Handlers PROVE PlaceInv(c)'
    <3>0. PlaceInv(c)
      BY DEF FileInv
    <3>1. CASE c = g
      BY <2>1, <2>2, <3>0, <3>1 DEF PlaceInv, AtTheMutex
    <3>2. CASE c # g
      <4>1. at'[c] = at[c]
        BY <1>0, <1>a, <3>2
      <4>. QED BY <2>1, <3>0, <4>1 DEF PlaceInv
    <3>. QED BY <3>1, <3>2
  <2>5. at'["life"] \notin Withdrawing \cup {"release", "drop"}
    BY <1>d, <2>2, <2>3 DEF Withdrawing
  <2>6. at'["shut"] \in Early /\ at'["shut"] # "seek" /\ at'["shut"] \notin {"release"} \cup ShutEnds
    BY <1>b, <2>3 DEF Early, ShutEnds
  <2>. QED BY <2>1, <2>4, <2>5, <2>6 DEF FileInv, SeekInv
<1>5. CASE GetLogFile(g) \/ (OpenLogFile(g) /\ ~EntryEnds(g))
  <2>1. at[g] \in {"get", "open"} /\ UNCHANGED <<journal, mutex, ref>>
    BY <1>5 DEF GetLogFile, OpenLogFile, From, muVars
  <2>2. at[g] \in Inside /\ at[g] \in Locked /\ ref[g] = mutex /\ mutex # 0
    BY <2>1 DEF FileInv, PlaceInv, Inside, Locked
  \* No one else is.
  <2>3. ASSUME NEW c \in Handlers, c # g PROVE at[c] \notin Inside /\ at'[c] = at[c]
    <3>1. at[c] \in Inside => ref[c] = mutex /\ at[c] \in Locked
      BY DEF FileInv, PlaceInv, Inside, Locked
    <3>2. c \in Journalists
      BY <1>0
    <3>. QED BY <1>0, <1>a, <2>2, <2>3, <3>1, <3>2 DEF ExclusionInv
  <2>4. /\ at'[g] \in {"write", "open"}
        /\ at'[g] = "write" => logFile' # 0 /\ file'[g] = logFile'
        /\ at'[g] = "open" => logFile' = 0
        /\ openFiles' = IF logFile' = 0 THEN {} ELSE {logFile'}
    <3>1. CASE GetLogFile(g)
      <4>1. openFiles = IF logFile = 0 THEN {} ELSE {logFile}
        BY DEF FileInv
      <4>2. CASE logFile # 0 /\ logDay = day[g]
        <5>1. To(g, "write") /\ file' = [file EXCEPT ![g] = logFile] /\ UNCHANGED <<logFile, openFiles>>
          BY <3>1, <4>2 DEF GetLogFile, From
        <5>2. at'[g] = "write" /\ file'[g] = logFile
          BY <1>0, <1>c, <5>1 DEF Spots, Locked
        <5>. QED BY <4>1, <4>2, <5>1, <5>2
      <4>3. CASE ~(logFile # 0 /\ logDay = day[g])
        <5>1. To(g, "open") /\ openFiles' = openFiles \ {logFile} /\ logFile' = 0
          BY <3>1, <4>3 DEF GetLogFile, From
        <5>2. at'[g] = "open" /\ openFiles' = {}
          BY <1>c, <4>1, <5>1 DEF Spots, Locked
        <5>. QED BY <5>1, <5>2
      <4>. QED BY <4>2, <4>3
    <3>2. CASE OpenLogFile(g) /\ ~EntryEnds(g)
      <4> DEFINE free == Files \ openFiles
      <4>1. /\ at[g] = "open" /\ To(g, "write") /\ openFiles # Files
            /\ logFile' = CHOOSE f \in free : \A h \in free : f <= h
            /\ openFiles' = openFiles \cup {logFile'}
            /\ file' = [file EXCEPT ![g] = logFile']
        BY <3>2 DEF OpenLogFile
      <4>2. logFile = 0 /\ openFiles = {}
        BY <4>1 DEF FileInv, PlaceInv
      <4>3. logFile' \in Files
        BY <4>1, <4>2, FreeFile
      <4>4. logFile' # 0 /\ openFiles' = {logFile'}
        BY <1>0, <4>1, <4>2, <4>3
      <4>5. at'[g] = "write" /\ file'[g] = logFile'
        BY <1>0, <1>c, <4>1 DEF Spots, Locked
      <4>. QED BY <4>4, <4>5
    <3>. QED BY <1>5, <3>1, <3>2
  <2>5. ASSUME NEW c \in Handlers PROVE PlaceInv(c)'
    <3>0. PlaceInv(c)
      BY DEF FileInv
    <3>1. CASE c = g
      BY <2>1, <2>2, <2>4, <3>1 DEF PlaceInv
    <3>2. CASE c # g
      BY <2>1, <2>3, <3>0, <3>2 DEF PlaceInv, Inside
    <3>. QED BY <3>1, <3>2
  <2>6. /\ at["life"] \notin {"drop", "release"}
        /\ ~(at["shut"] \in Early /\ ~journal /\ at["life"] \notin Withdrawing)
        /\ at["shut"] \notin {"release"} \cup ShutEnds
    BY <2>2, NobodyClosing DEF Withdrawing, Early, ShutEnds
  <2>7. at'["life"] \notin {"drop", "release"} /\ (at'["life"] \notin Withdrawing => at["life"] \notin Withdrawing)
    BY <1>d, <1>e, <2>4, <2>6
  <2>8. at["shut"] # "seek"
    BY <2>1 DEF FileInv, SeekInv, NobodyIn
  <2>9. /\ at'["life"] = "drop" => NobodyIn(Inside)'
        /\ at'["life"] = "release" => Closed'
        /\ at'["shut"] \in Early /\ ~journal' /\ at'["life"] \notin Withdrawing => Closed'
        /\ at'["shut"] \notin Early => ~journal'
        /\ SeekInv'
        /\ at'["shut"] \in {"release"} \cup ShutEnds => Closed'
    BY <1>b, <2>1, <2>6, <2>7, <2>8 DEF FileInv, SeekInv
  <2>. QED BY <2>4, <2>5, <2>9 DEF FileInv
<1>6. \/ EntryEnds(g) /\ UNCHANGED <<journal, logFile, openFiles>>
      \/ EnterMutex(g) /\ ~EntryEnds(g)
      \/ LockMutex(g)
      \/ CheckJournal(g) /\ ~EntryEnds(g)
      \/ GetLogFile(g) \/ (OpenLogFile(g) /\ ~EntryEnds(g))
  <2>1. CASE GetLogFile(g) \/ LockMutex(g)
    BY <2>1
  <2>2. CASE EnterMutex(g) \/ CheckJournal(g)
    BY <2>2 DEF EnterMutex, CheckJournal
  <2>3. CASE WriteEntry(g)
    BY <2>3 DEF WriteEntry
  <2>4. CASE OpenLogFile(g) /\ EntryEnds(g)
    <3>1. at'[g] # "write"
      BY <1>c, <2>4 DEF EntryEnds, Entered, Spots
    <3>2. ~To(g, "write")
      BY <1>c, <3>1 DEF Spots, Locked
    <3>3. UNCHANGED <<journal, logFile, openFiles>>
      BY <2>4, <3>2 DEF OpenLogFile
    <3>. QED BY <2>4, <3>3
  <2>. QED BY <2>1, <2>2, <2>3, <2>4 DEF Entering
<1>. QED BY <1>1, <1>2, <1>3, <1>4, <1>5, <1>6

LEMMA ClosedFile ==
    ASSUME Closed', ~journal'
    PROVE  FileInv'
<1>1. \A g \in Handlers : at'[g] \notin Inside
    BY DEF Closed, NobodyIn
<1>2. \A g \in Handlers : PlaceInv(g)'
    BY <1>1 DEF PlaceInv, Inside
<1>3. SeekInv'
    BY <1>1 DEF Closed, SeekInv, NobodyIn, Inside
<1>. QED BY <1>2, <1>3 DEF FileInv, Closed

LEMMA FileKeptEnding ==
    ASSUME JournalTypeInv, FileInv, RetiredInv, Ending
    PROVE  FileInv'
<1>0. /\ JournalTypeOK /\ MutexBudget /\ SpotTypes /\ "life" \in Handlers /\ "shut" \in Journalists
      /\ Handlers \subseteq Journalists /\ "life" \in Journalists /\ "life" # "shut"
    BY JournalTypesSplit, JournalFacts DEF JournalTypeInv
<1>a. \A c \in Journalists : c # "life" => at'[c] = at[c]
    BY <1>0, EndingMoves
<1>b. at'["shut"] = at["shut"]
    BY <1>0, <1>a
<1>1. CASE Retire
  <2>1. /\ at["life"] = "retire" /\ at'["life"] = "unguard" /\ ~journal'
        /\ UNCHANGED <<mutex, ref, logFile, openFiles, file>>
    BY <1>0, <1>1, PartyMoves DEF Retire, From, muVars, dailyVars, Spots
  <2>2. ASSUME NEW c \in Handlers PROVE PlaceInv(c)'
    <3>1. PlaceInv(c) /\ (at'[c] = at[c] \/ c = "life")
      BY <1>0, <1>a DEF FileInv
    <3>. QED BY <2>1, <3>1 DEF PlaceInv, Inside
  <2>3. ASSUME NEW places, "unguard" \notin places, NobodyIn(places) PROVE NobodyIn(places)'
    BY <1>0, <1>a, <2>1, <2>3 DEF NobodyIn
  <2>4. Closed => Closed'
    BY <2>1, <2>3 DEF Closed, Inside
  <2>5. SeekInv'
    BY <1>b, <2>1, <2>3 DEF FileInv, SeekInv
  <2>6. at'["life"] \in Withdrawing /\ at'["life"] \notin {"drop", "release"}
    BY <2>1 DEF Withdrawing
  <2>. QED BY <1>b, <2>1, <2>2, <2>4, <2>5, <2>6 DEF FileInv
<1>2. CASE SeekMutex
  <2>1. /\ at["life"] = "seek" /\ at'["life"] = "drop" /\ GetMutex("life") /\ LockFree(ref'["life"])
        /\ UNCHANGED <<journal, logFile, openFiles, file>>
    BY <1>0, <1>2, PartyMoves DEF SeekMutex, From, dailyVars, Spots, Locked
  <2>2. ~journal
    BY <2>1 DEF RetiredInv, Withdrawing
  <2>3. ref'["life"] = mutex' /\ (mutex # 0 => mutex' = mutex)
    BY <1>0, <2>1, GetMutexTypes
  <2>4. ASSUME NEW c \in Handlers PROVE at'[c] \notin Inside
    <3>1. CASE c = "life"
      BY <2>1, <3>1 DEF Inside
    <3>2. CASE c # "life"
      <4>1. at'[c] = at[c] /\ c \in Journalists
        BY <1>0, <1>a, <3>2
      <4>2. at[c] \in Inside => ref[c] = mutex /\ mutex # 0 /\ at[c] \in Locked
        BY DEF FileInv, PlaceInv, Inside, Locked
      <4>. QED BY <2>1, <2>3, <4>1, <4>2 DEF LockFree
    <3>. QED BY <3>1, <3>2
  <2>5. \A c \in Handlers : PlaceInv(c)'
    BY <2>1, <2>2, <2>4 DEF PlaceInv, Inside
  <2>6. NobodyIn(Inside)' /\ NobodyIn({"get", "open"})' /\ NobodyIn({"write"})'
    BY <2>4 DEF NobodyIn, Inside
  <2>7. Closed => Closed'
    BY <2>1, <2>6 DEF Closed
  <2>8. SeekInv'
    BY <1>0, <1>b, <2>1, <2>6 DEF FileInv, SeekInv
  <2>9. at'["life"] \in Withdrawing /\ at'["life"] # "release"
    BY <2>1 DEF Withdrawing
  <2>. QED BY <1>b, <2>1, <2>2, <2>5, <2>6, <2>7, <2>8, <2>9 DEF FileInv
<1>3. CASE DropFile
  <2>1. /\ at["life"] = "drop" /\ at'["life"] = "release" /\ logFile' = 0 /\ openFiles' = openFiles \ {logFile}
        /\ journal' = journal
    BY <1>0, <1>3, PartyMoves DEF DropFile, From, Spots, Locked
  <2>2. ~journal /\ NobodyIn(Inside) /\ openFiles' = {}
    BY <2>1 DEF FileInv, RetiredInv, Withdrawing
  <2>3. NobodyIn(Inside)'
    BY <1>0, <1>a, <2>1, <2>2 DEF NobodyIn, Inside
  <2>. QED BY <2>1, <2>2, <2>3, ClosedFile DEF Closed
<1>. QED BY <1>1, <1>2, <1>3 DEF Ending

LEMMA FileKeptCleaning ==
    ASSUME JournalTypeInv, FileInv, RetiredInv, NEW g \in {"life", "shut"}, ForgetGuard(g) \/ ReleaseMutex(g)
    PROVE  FileInv'
<1>0. /\ JournalTypeOK /\ SpotTypes /\ "life" \in Handlers /\ "shut" \in Journalists /\ "shut" \notin Handlers
      /\ Handlers \subseteq Journalists /\ "life" \in Journalists /\ "life" # "shut"
    BY JournalTypesSplit, JournalFacts DEF JournalTypeInv
<1>a. /\ g \in Journalists /\ \A c \in Journalists : c # g => at'[c] = at[c]
      /\ \/ at[g] = "unguard" /\ at'[g] = "forget" /\ ForgetGuard(g)
         \/ at[g] = "forget" /\ at'[g] = (IF g = "life" THEN "seek" ELSE "down") /\ ForgetGuard(g)
         \/ at[g] = "release" /\ at'[g] = (IF g = "life" THEN "rest" ELSE "maps") /\ ReleaseMutex(g)
    BY <1>0, CleaningMoves
<1>1. CASE ForgetGuard(g) /\ at[g] \in {"unguard", "forget"}
  <2>1. UNCHANGED <<journal, mutex, ref, logFile, openFiles, file>>
    BY <1>1 DEF ForgetGuard, outsideVars, eventVars, muVars, dailyVars
  <2>2. CASE g = "life"
    <3>1. at'[g] \in {"forget", "seek"}
      BY <1>1, <1>a, <2>2
    <3>2. at'[g] \notin Inside \cup {"lock", "drop", "release", "check"} /\ at'[g] \in Withdrawing
      BY <3>1 DEF Inside, Withdrawing
    <3>. QED BY <1>0, <1>a, <2>1, <2>2, <3>2, FilePartyAside
  <2>3. CASE g = "shut"
    <3>1. at'[g] \in {"forget", "down"} /\ at[g] \in {"unguard", "forget"}
      BY <1>1, <1>a, <2>3
    <3>2. \A c \in Handlers : at'[c] = at[c]
      BY <1>0, <1>a, <2>3
    <3>3. at["shut"] \in ShutEnds /\ at["shut"] \notin Early /\ at'["shut"] \notin Early /\ at'["shut"] # "seek"
      BY <2>3, <3>1 DEF ShutEnds, Early
    <3>. QED BY <1>0, <2>1, <3>2, <3>3, FileAside
  <2>. QED BY <2>2, <2>3
<1>2. CASE ReleaseMutex(g)
  <2>1. /\ at[g] = "release" /\ at'[g] \in {"rest", "maps"}
        /\ UNCHANGED <<journal, logFile, openFiles>>
    BY <1>2, <1>a DEF ReleaseMutex, From
  <2>2. Closed /\ ~journal
    BY <2>1 DEF FileInv, RetiredInv, Early
  <2>3. NobodyIn(Inside)'
    BY <1>0, <1>a, <2>1, <2>2 DEF Closed, NobodyIn, Inside
  <2>. QED BY <2>1, <2>2, <2>3, ClosedFile DEF Closed
<1>. QED BY <1>1, <1>2, <1>a

LEMMA FileKeptShuttingDown ==
    ASSUME JournalTypeInv, FileInv, ShuttingDown, ~survivor'
    PROVE  FileInv'
<1>0. /\ JournalTypeOK /\ MutexBudget /\ SpotTypes /\ "life" \in Handlers /\ "shut" \in Journalists
      /\ "shut" \notin Handlers /\ Handlers \subseteq Journalists /\ "life" # "shut"
      /\ file \in [Journalists -> {0} \cup Files] /\ logFile \in {0} \cup Files
    BY JournalTypesSplit, RefTypes, JournalFacts DEF JournalTypeInv
<1>a. \A c \in Handlers : at'[c] = at[c]
    BY <1>0, ShuttingDownMoves
<1>b. at'["life"] = at["life"]
    BY <1>0, <1>a
<1>c. \A places : NobodyIn(places)' <=> NobodyIn(places)
    BY <1>a DEF NobodyIn
<1>d. \A p \in Spots : To("shut", p) => at'["shut"] = p
    BY <1>0, PartyMoves
<1>1. CASE BeginShutdown \/ WaitedOut \/ DropAwaited
  <2>1. UNCHANGED <<journal, mutex, ref, logFile, openFiles, file>>
    BY <1>1 DEF BeginShutdown, WaitedOut, DropAwaited, outsideVars, eventVars, muVars, dailyVars
  <2>2. \/ at["shut"] = "up" /\ at'["shut"] = "wait"
        \/ at["shut"] = "wait" /\ at'["shut"] = "clear"
        \/ at["shut"] = "maps" /\ at'["shut"] = "unguard"
    BY <1>1, <1>d DEF BeginShutdown, WaitedOut, DropAwaited, From, Spots
  <2>3. /\ at["shut"] \in Early <=> at'["shut"] \in Early
        /\ at'["shut"] # "seek"
        /\ at'["shut"] \in {"release"} \cup ShutEnds => at["shut"] \in {"release"} \cup ShutEnds
    BY <2>2 DEF Early, ShutEnds
  <2>. QED BY <1>a, <1>b, <2>1, <2>3, FileAside
<1>2. CASE ClearActive
  <2>1. /\ at'["shut"] = "files" /\ ~journal'
        /\ UNCHANGED <<mutex, ref, logFile, openFiles, file>>
    BY <1>2, <1>d DEF ClearActive, From, Spots, muVars, dailyVars
  <2>2. \A c \in Handlers : PlaceInv(c)'
    BY <1>a, <2>1 DEF FileInv, PlaceInv
  <2>3. Closed' <=> Closed
    BY <1>c, <2>1 DEF Closed
  <2>4. at'["shut"] \notin Early /\ at'["shut"] \notin {"release"} \cup ShutEnds /\ at'["shut"] # "seek"
    BY <2>1 DEF Early, ShutEnds
  <2>. QED BY <1>b, <1>c, <2>1, <2>2, <2>3, <2>4 DEF FileInv, SeekInv
<1>3. CASE RangeFiles
  <2>1. /\ at["shut"] = "files" /\ UNCHANGED <<journal, logFile, openFiles>>
        /\ \A g \in Handlers : at[g] \notin {"get", "open"}
    BY <1>3 DEF RangeFiles, From
  <2>2. ~journal /\ at["shut"] \notin Early
    BY <2>1 DEF FileInv, Early
  <2>3. CASE logFile = 0
    <3>1. openFiles = {} /\ \A g \in Handlers : at[g] # "write"
      BY <2>3 DEF FileInv, PlaceInv
    <3>2. NobodyIn(Inside)
      BY <2>1, <3>1 DEF NobodyIn, Inside
    <3>3. Closed'
      BY <1>c, <2>1, <2>3, <3>1, <3>2 DEF Closed
    <3>. QED BY <2>1, <2>2, <3>3, ClosedFile
  <2>4. CASE logFile # 0
    <3>1. To("shut", "seek") /\ GetMutex("shut") /\ file' = [file EXCEPT !["shut"] = logFile]
      BY <1>3, <2>4 DEF RangeFiles, From
    <3>2. at'["shut"] = "seek" /\ file'["shut"] = logFile /\ \A c \in Journalists : c # "shut" => file'[c] = file[c]
      BY <1>0, <1>d, <3>1 DEF Spots
    <3>3. /\ ref'["shut"] = mutex' /\ (mutex # 0 => mutex' = mutex)
          /\ \A c \in Journalists : c # "shut" => ref'[c] = ref[c]
      BY <1>0, <3>1, GetMutexTypes
    <3>4. ASSUME NEW c \in Handlers PROVE PlaceInv(c)'
      <4>1. PlaceInv(c) /\ at'[c] = at[c] /\ ref'[c] = ref[c] /\ file'[c] = file[c]
        BY <1>0, <1>a, <3>2, <3>3 DEF FileInv
      <4>. QED BY <2>1, <2>2, <3>3, <4>1 DEF PlaceInv
    <3>5. Closed' <=> Closed
      BY <1>c, <2>1 DEF Closed
    <3>6. NobodyIn({"get", "open"})'
      BY <1>c, <2>1 DEF NobodyIn
    <3>7. SeekInv'
      BY <2>1, <3>2, <3>3, <3>6 DEF SeekInv
    <3>8. at'["shut"] \notin Early /\ at'["shut"] \notin {"release"} \cup ShutEnds
      BY <3>2 DEF Early, ShutEnds
    <3>. QED BY <1>b, <1>c, <2>1, <2>2, <3>4, <3>5, <3>7, <3>8 DEF FileInv
  <2>. QED BY <2>3, <2>4
<1>4. CASE CloseRanged
  <2>1. /\ at["shut"] = "seek" /\ LockFree(ref["shut"]) /\ journal' = journal
        /\ openFiles' = openFiles \ {file["shut"]} /\ logFile' = 0
    BY <1>4 DEF CloseRanged, From
  <2>2. ~journal /\ openFiles' = {}
    BY <2>1 DEF FileInv, SeekInv, Early
  <2>3. ASSUME NEW c \in Handlers PROVE at[c] \notin Inside
    <3>1. at[c] \notin {"get", "open"}
      BY <2>1 DEF FileInv, SeekInv, NobodyIn
    <3>2. mutex # ref["shut"] => at[c] # "write"
      BY <2>1 DEF FileInv, SeekInv, NobodyIn
    <3>3. at[c] = "write" => ref[c] = mutex /\ at[c] \in Locked
      BY DEF FileInv, PlaceInv, Inside, Locked
    <3>4. c \in Journalists
      BY <1>0
    <3>. QED BY <2>1, <3>1, <3>2, <3>3, <3>4 DEF LockFree, Inside
  <2>4. Closed'
    BY <1>a, <2>1, <2>2, <2>3 DEF Closed, NobodyIn
  <2>. QED BY <2>1, <2>2, <2>4, ClosedFile
<1>. QED BY <1>1, <1>2, <1>3, <1>4 DEF ShuttingDown

LEMMA FileGivesClosed == ClosedInv => FilesClosed
<1> SUFFICES ASSUME FileInv PROVE
        /\ openFiles \subseteq {logFile}
        /\ \A g \in Handlers : at[g] = "write" => file[g] \in openFiles
        /\ ~journal /\ at["life"] \in {"rest", "off"} /\ at["shut"] \in {"up", "wait", "down"} =>
               openFiles = {}
    BY DEF ClosedInv, FilesClosed
<1>1. openFiles = (IF logFile = 0 THEN {} ELSE {logFile})
    BY DEF FileInv
<1>2. \A g \in Handlers : at[g] = "write" => logFile # 0 /\ file[g] = logFile
    BY DEF FileInv, PlaceInv
<1>3. ASSUME ~journal, at["life"] \in {"rest", "off"}, at["shut"] \in {"up", "wait", "down"} PROVE Closed
    BY <1>3 DEF FileInv, Early, ShutEnds, Withdrawing
<1>. QED BY <1>1, <1>2, <1>3 DEF Closed

-----------------------------------------------------------------------------
(* The two together.                                                       *)

JournalInv ==
    /\ JournalTypeInv /\ HalfInv /\ EntriesKept /\ GuardOpens /\ OneInv
    /\ BeforeInv /\ RetiredInv /\ ExclusionInv /\ ClosedInv

LEMMA JournalStarts == JournalInit => JournalInv
<1> SUFFICES ASSUME JournalInit PROVE JournalInv
    OBVIOUS
<1>1. /\ \A g \in Handlers : at[g] = "rest" /\ half[g] = {}
      /\ \A g \in Journalists : at[g] \in {"rest", "up"}
      /\ at["life"] = "rest" /\ at["shut"] = "up"
    BY JournalFacts DEF JournalInit
<1>2. HalfInv /\ EntriesKept
    BY <1>1 DEF JournalInit, HalfInv, EntriesKept
<1>3. GuardOpens /\ OneInv
  <2>1. Busy = {} /\ ~Answered
    BY <1>1 DEF JournalInit, Busy, Answered
  <2>. QED BY <2>1 DEF JournalInit, GuardOpens, OneInv
<1>4. BeforeInv /\ RetiredInv /\ ExclusionInv
    BY <1>1, JournalFacts DEF JournalInit, BeforeInv, RetiredInv, ExclusionInv, Locked
<1>5. FileInv
  <2>1. Closed
    BY <1>1 DEF JournalInit, Closed, NobodyIn, Inside
  <2>2. \A g \in Handlers : PlaceInv(g)
    BY <1>1 DEF PlaceInv, Inside, AtTheMutex
  <2>. QED BY <1>1, <2>1, <2>2 DEF JournalInit, FileInv, SeekInv, Early, ShutEnds
<1>. QED BY <1>2, <1>3, <1>4, <1>5, JournalTypesStart DEF JournalInv, ClosedInv

LEMMA JournalKept ==
    ASSUME JournalInv, [JournalNext]_journalVars
    PROVE  JournalInv'
<1>0. /\ JournalTypeInv /\ HalfInv /\ EntriesKept /\ GuardOpens /\ OneInv
      /\ BeforeInv /\ RetiredInv /\ ExclusionInv /\ ClosedInv
    BY DEF JournalInv
<1>1. SpotTypes
    BY <1>0, JournalTypesSplit DEF JournalTypeInv
<1>2. ClosedInv'
  <2> SUFFICES ASSUME ~survivor' PROVE FileInv'
    BY DEF ClosedInv
  <2>1. FileInv
    BY <1>0, SurvivorStays DEF ClosedInv
  <2>. QED BY <1>0, <2>1, FileKeptBeginning, FileKeptAside, FileKeptEntering, FileKeptEnding,
              FileKeptCleaning, FileKeptShuttingDown DEF JournalNext
<1>. QED BY <1>0, <1>1, <1>2, JournalTypesKept, HalfKept, GuardKept, RetiredKept, BeforeKept,
    ExclusionKept
         DEF JournalInv

\* The state of the journal has the types the code gives it, in every behaviour:
\* no more mutexes, handles and entries than its goroutines can make.
THEOREM JournalTypeCorrect == JournalSpec => []JournalTypeOK
<1>1. JournalInv => JournalTypeOK
    BY DEF JournalInv, JournalTypeInv
<1>. QED BY <1>1, JournalStarts, JournalKept, PTL DEF JournalSpec

\* The journal of a session neither leaks a handle nor loses an entry, has at
\* most one compaction in flight and never leaves its guard closed.
THEOREM JournalIsSound == JournalSpec => []JournalSound
<1>1. JournalInv => JournalSound
    BY FileGivesClosed, OneCompaction DEF JournalInv, JournalSound
<1>. QED BY <1>1, JournalStarts, JournalKept, PTL DEF JournalSpec

-----------------------------------------------------------------------------
(* Onboarding and heartbeats.                                              *)

VisitTypes ==
    /\ phase \in {"down", "scaffold", "refresh", "run"} /\ starts \in 0..MaxStarts
    /\ onboarder \in Visitors \cup {NoVisitor} /\ tardy \subseteq Visitors
    /\ visit \in [Visitors -> {"live", "ended", "heard"}]

BeatTypes ==
    /\ minute \in Minutes /\ lastRun \in {-1} \cup Minutes
    /\ beat \in {"rest", "time", "publish", "update"}
    /\ seen \in {-1} \cup Minutes /\ now \in Minutes
    /\ fired \in [Minutes -> 0..2] /\ unrecorded \subseteq Minutes

MarkTypes ==
    /\ bootstrap \in BOOLEAN /\ doneMarker \in BOOLEAN /\ onboardingActive \in BOOLEAN
    /\ finishing \in BOOLEAN /\ completed \in BOOLEAN

\* Whatever onboarding does leaves the beat alone, and the other way round.
LEMMA BeatsApart ==
  /\ StartService \/ Scaffold \/ Refresh \/ Onboarding => UNCHANGED beatVars
  /\ Beating => UNCHANGED <<phase, starts, onboardVars>>
BY DEF StartService, Scaffold, Refresh, Onboarding, MissContent, RemoveBootstrap, WriteMarker, UserDeletes,
       AskOnboarding, EndVisit, HearVisit, Beating, MinutePasses, ListBeats, Due, Fire, UpdateLastRun

\* The variables of the awareness service have their types.
THEOREM AwareTypeCorrect == AwareSpec => []AwareTypeOK
<1> USE AwarenessAssumption DEF Minutes
<1>1. VisitTypes /\ BeatTypes /\ MarkTypes <=> AwareTypeOK
  BY DEF VisitTypes, BeatTypes, MarkTypes, AwareTypeOK
<1>2. AwareInit => VisitTypes /\ BeatTypes /\ MarkTypes
  <2>1. AwareInit => VisitTypes
    BY DEF AwareInit, VisitTypes
  <2>2. AwareInit => BeatTypes
    BY DEF AwareInit, BeatTypes
  <2>3. AwareInit => MarkTypes
    BY DEF AwareInit, MarkTypes
  <2> QED BY <2>1, <2>2, <2>3
<1>3. VisitTypes /\ [AwareNext]_awareVars => VisitTypes'
  <2> SUFFICES ASSUME VisitTypes, [AwareNext]_awareVars PROVE VisitTypes'
    OBVIOUS
  <2> USE DEF VisitTypes, lockVars
  <2>1. CASE StartService \/ Scaffold \/ Refresh
    BY <2>1 DEF StartService, Scaffold, Refresh, onboardVars
  <2>2. CASE CrashDaemon
    BY <2>2 DEF CrashDaemon
  <2>3. CASE MissContent \/ RemoveBootstrap \/ WriteMarker \/ UserDeletes
    BY <2>3 DEF MissContent, RemoveBootstrap, WriteMarker, UserDeletes
  <2>4. ASSUME NEW s \in Visitors, AskOnboarding(s) \/ EndVisit(s) \/ HearVisit(s) PROVE VisitTypes'
    BY <2>4 DEF AskOnboarding, EndVisit, HearVisit
  <2>5. CASE Beating \/ UNCHANGED awareVars
    BY <2>5, BeatsApart DEF awareVars, onboardVars
  <2> QED BY <2>1, <2>2, <2>3, <2>4, <2>5 DEF AwareNext, Onboarding
<1>4. BeatTypes /\ [AwareNext]_awareVars => BeatTypes'
  <2> SUFFICES ASSUME BeatTypes, [AwareNext]_awareVars PROVE BeatTypes'
    OBVIOUS
  <2> USE DEF BeatTypes
  <2>1. CASE StartService \/ Scaffold \/ Refresh \/ Onboarding \/ UNCHANGED awareVars
    BY <2>1, BeatsApart DEF awareVars, beatVars
  <2>2. CASE CrashDaemon
    BY <2>2 DEF CrashDaemon
  <2>3. CASE MinutePasses \/ ListBeats
    <3>1. CASE MinutePasses
      <4>1. minute' \in Minutes
        BY <3>1 DEF MinutePasses
      <4> QED BY <3>1, <4>1 DEF MinutePasses
    <3>2. CASE ListBeats
      BY <3>2 DEF ListBeats
    <3> QED BY <2>3, <3>1, <3>2
  <2>4. CASE Due
    BY <2>4 DEF Due
  <2>5. CASE Fire
    BY <2>5 DEF Fire
  <2>6. CASE UpdateLastRun
    BY <2>6 DEF UpdateLastRun
  <2> QED BY <2>1, <2>2, <2>3, <2>4, <2>5, <2>6 DEF AwareNext, Beating
<1>5. MarkTypes /\ [AwareNext]_awareVars => MarkTypes'
  <2> SUFFICES ASSUME MarkTypes, [AwareNext]_awareVars PROVE MarkTypes'
    OBVIOUS
  <2> USE DEF MarkTypes, markVars, lockVars
  <2>1. CASE StartService \/ Scaffold \/ Refresh \/ CrashDaemon
    BY <2>1 DEF StartService, Scaffold, Refresh, CrashDaemon, onboardVars
  <2>2. CASE MissContent \/ RemoveBootstrap \/ WriteMarker \/ UserDeletes
    BY <2>2 DEF MissContent, RemoveBootstrap, WriteMarker, UserDeletes
  <2>3. ASSUME NEW s \in Visitors, AskOnboarding(s) \/ EndVisit(s) \/ HearVisit(s) PROVE MarkTypes'
    BY <2>3 DEF AskOnboarding, EndVisit, HearVisit
  <2>4. CASE Beating \/ UNCHANGED awareVars
    BY <2>4, BeatsApart DEF awareVars, onboardVars
  <2> QED BY <2>1, <2>2, <2>3, <2>4 DEF AwareNext, Onboarding
<1> QED BY <1>1, <1>2, <1>3, <1>4, <1>5, PTL DEF AwareSpec

-----------------------------------------------------------------------------
\* The marker is written once the file is gone, and a start that saw the marker
\* makes no file.
OnboardInv ==
    /\ OnboardedForGood
    /\ finishing => phase = "run" /\ ~bootstrap
    /\ phase = "scaffold" => ~doneMarker

LEMMA OnboardStep == OnboardInv /\ [AwareNext]_awareVars => OnboardInv'
<1> SUFFICES ASSUME OnboardInv, [AwareNext]_awareVars PROVE OnboardInv'
  OBVIOUS
<1> USE DEF OnboardInv, OnboardedForGood, markVars, lockVars
<1>1. CASE StartService \/ Scaffold \/ Refresh
  BY <1>1 DEF StartService, Scaffold, Refresh, onboardVars
<1>2. CASE CrashDaemon
  BY <1>2 DEF CrashDaemon
<1>3. CASE MissContent \/ RemoveBootstrap \/ UserDeletes
  BY <1>3 DEF MissContent, RemoveBootstrap, UserDeletes, Unlocked
<1>4. CASE WriteMarker
  BY <1>4 DEF WriteMarker
<1>5. ASSUME NEW s \in Visitors, AskOnboarding(s) \/ EndVisit(s) \/ HearVisit(s) PROVE OnboardInv'
  BY <1>5 DEF AskOnboarding, EndVisit, HearVisit
<1>6. CASE Beating \/ UNCHANGED awareVars
  BY <1>6, BeatsApart DEF awareVars, onboardVars
<1> QED BY <1>1, <1>2, <1>3, <1>4, <1>5, <1>6 DEF AwareNext, Onboarding

LEMMA ReleaseStep == VisitTypes /\ ClaimReleased /\ [AwareNext]_awareVars => ClaimReleased'
<1> SUFFICES ASSUME VisitTypes, ClaimReleased, [AwareNext]_awareVars PROVE ClaimReleased'
  OBVIOUS
<1> USE AwarenessAssumption DEF VisitTypes, ClaimReleased, lockVars
<1>1. CASE StartService \/ Scaffold \/ Refresh
  BY <1>1 DEF StartService, Scaffold, Refresh, onboardVars
<1>2. CASE CrashDaemon
  BY <1>2 DEF CrashDaemon
<1>3. CASE MissContent \/ RemoveBootstrap \/ WriteMarker \/ UserDeletes
  BY <1>3 DEF MissContent, RemoveBootstrap, WriteMarker, UserDeletes
<1>4. ASSUME NEW s \in Visitors, AskOnboarding(s) \/ EndVisit(s) \/ HearVisit(s) PROVE ClaimReleased'
  BY <1>4 DEF AskOnboarding, EndVisit, HearVisit
<1>5. CASE Beating \/ UNCHANGED awareVars
  BY <1>5, BeatsApart DEF awareVars, onboardVars
<1> QED BY <1>1, <1>2, <1>3, <1>4, <1>5 DEF AwareNext, Onboarding

\* A minute in which the heartbeat has fired is in its record or behind it, but
\* for the one it is about to record; and the record is never ahead of the time.
BeatInv ==
    /\ BeatsOnce
    /\ lastRun <= minute /\ now <= minute
    /\ beat \in {"time", "publish"} => seen = lastRun
    /\ beat \in {"publish", "update"} => lastRun < now
    /\ \A m \in Minutes : fired[m] > 0 /\ m \notin unrecorded =>
           m <= lastRun \/ (beat = "update" /\ m = now)

LEMMA BeatStep == BeatTypes /\ BeatInv /\ [AwareNext]_awareVars => BeatInv'
<1> SUFFICES ASSUME BeatTypes, BeatInv, [AwareNext]_awareVars PROVE BeatInv'
  OBVIOUS
<1> USE AwarenessAssumption DEF BeatTypes, BeatInv, BeatsOnce, Minutes
<1>1. CASE StartService \/ Scaffold \/ Refresh \/ Onboarding \/ UNCHANGED awareVars
  BY <1>1, BeatsApart DEF awareVars, beatVars
<1>2. CASE CrashDaemon
  BY <1>2 DEF CrashDaemon
<1>3. CASE MinutePasses \/ ListBeats
  BY <1>3 DEF MinutePasses, ListBeats
<1>4. CASE Due
  BY <1>4 DEF Due
<1>5. CASE Fire
  BY <1>5 DEF Fire
<1>6. CASE UpdateLastRun
  BY <1>6 DEF UpdateLastRun
<1> QED BY <1>1, <1>2, <1>3, <1>4, <1>5, <1>6 DEF AwareNext, Beating

\* Onboarding that was completed stays completed, its claim is given back, and a
\* heartbeat fires at most once in a minute, wherever the daemon crashes.
THEOREM AwarenessIsSound == AwareSpec => []AwarenessSound
<1>1. AwareInit => OnboardInv /\ ClaimReleased /\ BeatInv
  <2>1. AwareInit => OnboardInv /\ ClaimReleased
    BY DEF AwareInit, OnboardInv, OnboardedForGood, ClaimReleased
  <2>2. AwareInit => BeatInv
    BY DEF AwareInit, BeatInv, BeatsOnce
  <2> QED BY <2>1, <2>2
<1>2. AwareTypeOK => VisitTypes /\ BeatTypes
  BY DEF AwareTypeOK, VisitTypes, BeatTypes
<1>3. OnboardInv /\ ClaimReleased /\ BeatInv => AwarenessSound
  BY DEF OnboardInv, BeatInv, AwarenessSound
<1> QED BY <1>1, <1>2, <1>3, OnboardStep, ReleaseStep, BeatStep, AwareTypeCorrect, PTL DEF AwareSpec

-----------------------------------------------------------------------------
(* The parts of MCSessions together.                                       *)

\* A behaviour of the parts together is one of each part: what is proved of a part
\* holds where MCSessions checks it.
THEOREM SessionsCompose ==
  SessionsSpec => Spec /\ JournalSpec /\ AwareSpec
<1>1. SessionsInit => Init /\ JournalInit /\ AwareInit
  BY DEF SessionsInit
<1>2. [SessionsNext]_sessionsVars => [Next]_vars
  BY DEF SessionsNext, sessionsVars
<1>3. [SessionsNext]_sessionsVars => [JournalNext]_journalVars
  BY DEF SessionsNext, sessionsVars
<1>4. [SessionsNext]_sessionsVars => [AwareNext]_awareVars
  BY DEF SessionsNext, sessionsVars
<1> QED
  BY <1>1, <1>2, <1>3, <1>4, PTL
     DEF SessionsSpec, Spec, JournalSpec, AwareSpec

\* So every variable of every part keeps its type, whichever part is at work.
THEOREM SessionsTypeCorrect == SessionsSpec => []SessionsTypeOK
<1>1. SessionsInit => part \in Parts
  BY DEF SessionsInit
<1>2. part \in Parts /\ [SessionsNext]_sessionsVars => (part \in Parts)'
  BY DEF SessionsNext, sessionsVars
<1>3. /\ part \in Parts
      /\ TypeOK /\ JournalTypeOK /\ AwareTypeOK
      => SessionsTypeOK
  BY DEF SessionsTypeOK, Parts
<1> QED BY <1>1, <1>2, <1>3, SessionsCompose,
        TypeCorrect, JournalTypeCorrect, AwareTypeCorrect, PTL
        DEF SessionsSpec
=============================================================================
