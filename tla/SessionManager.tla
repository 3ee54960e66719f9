--------------------------- MODULE SessionManager ---------------------------
(***************************************************************************)
(* One session of the session manager (internal/session/manager.go) on top *)
(* of its PTY wrapper: CreateSession, the monitor goroutine, clients that  *)
(* attach and detach, and callers of KillSession.  "published" is the      *)
(* sequence of lifecycle events put on the bus, in publish order.          *)
(***************************************************************************)
EXTENDS PtyWrapper

CONSTANTS Clients  \* clients that attach and detach, once each

ASSUME ClientsAssumption == IsFiniteSet(Clients)

VARIABLES
    creator,   \* where CreateSession is
    monitor,   \* where monitorSession is
    client,    \* client[c]: where c's AttachToSession / DetachFromSession is
    remaining, \* remaining[c]: the client count c's detach has computed
    killer,    \* killer[k]: where k's KillSession is after PTY.Stop
    status,    \* Session.Status
    sinks,     \* Session.clientSinks
    handlerUp, \* the tool handler's detection goroutines run
    recording, \* the asciicast recorder is open
    published  \* lifecycle events on the bus, in order

sessVars == <<creator, monitor, client, remaining, killer, status, sinks,
              handlerUp, recording, published>>
vars == <<ptyVars, sessVars>>

LifecycleState == {"created", "running", "detached", "stopped"}

TypeOK ==
    /\ PtyTypeOK
    /\ creator \in {"monitor", "store", "created", "running", "end"}
    /\ monitor \in {"none", "recv", "status", "handler", "notify", "publish", "end"}
    /\ client \in [Clients -> {"away", "count", "check", "status", "set", "announce",
                               "here", "uncheck", "unstatus", "unset",
                               "unannounce", "gone"}]
    /\ remaining \in [Clients -> 0..Cardinality(Clients)]
    /\ killer \in [Killers -> {"stop", "status", "notify", "publish", "end"}]
    /\ status \in {"running", "detached", "stopped"}
    /\ sinks \in 0..Cardinality(Clients)
    /\ handlerUp \in BOOLEAN /\ recording \in BOOLEAN
    /\ published \in Seq(LifecycleState)

\* CreateSession has started the PTY and set up recording and the handler.
Init ==
    /\ PtyInit
    /\ creator = "monitor" /\ monitor = "none"
    /\ client = [c \in Clients |-> "away"]
    /\ remaining = [c \in Clients |-> 0]
    /\ killer = [k \in Killers |-> "stop"]
    /\ status = "running" /\ sinks = 0
    /\ handlerUp = TRUE /\ recording = TRUE
    /\ published = <<>>

Publish(e) == published' = Append(published, e)

-----------------------------------------------------------------------------
(* CreateSession after the setup: start the monitor, store the session in   *)
(* the table (only then can it be attached to or killed), announce it.      *)

CreateMonitor ==
    /\ creator = "monitor"
    /\ monitor' = "recv" /\ creator' = "store"
    /\ UNCHANGED <<ptyVars, client, remaining, killer, status, sinks, handlerUp,
                   recording, published>>

CreateStore ==
    /\ creator = "store"
    /\ creator' = "created"
    /\ UNCHANGED <<ptyVars, monitor, client, remaining, killer, status, sinks,
                   handlerUp, recording, published>>

CreateAnnounce ==
    /\ creator \in {"created", "running"}
    /\ Publish(creator)
    /\ creator' = IF creator = "created" THEN "running" ELSE "end"
    /\ UNCHANGED <<ptyVars, monitor, client, remaining, killer, status, sinks,
                   handlerUp, recording>>

Stored == creator \notin {"monitor", "store"}

-----------------------------------------------------------------------------
(* monitorSession.                                                         *)

MonitorRecv ==
    /\ monitor = "recv"
    /\ \/ /\ events # <<>>
          /\ events' = Tail(events)
          /\ monitor' = IF Head(events) = "exited" THEN "status" ELSE "recv"
       \/ /\ events = <<>> /\ eventsClosed
          /\ monitor' = "end" /\ UNCHANGED events
    /\ UNCHANGED <<procVars, running, once, exitCode, ptyClosed, eventsClosed,
                   capture, stop, reaper, result, creator, client, remaining,
                   killer, status, sinks, handlerUp, recording, published>>

MonitorStatus ==
    /\ monitor = "status"
    /\ status' = "stopped" /\ monitor' = "handler"
    /\ UNCHANGED <<ptyVars, creator, client, remaining, killer, sinks, handlerUp,
                   recording, published>>

MonitorHandler ==
    /\ monitor = "handler"
    /\ handlerUp' = FALSE /\ monitor' = "notify"
    /\ UNCHANGED <<ptyVars, creator, client, remaining, killer, status, sinks,
                   recording, published>>

MonitorNotify ==
    /\ monitor = "notify"
    /\ recording' = FALSE /\ monitor' = "publish"
    /\ UNCHANGED <<ptyVars, creator, client, remaining, killer, status, sinks,
                   handlerUp, published>>

MonitorPublish ==
    /\ monitor = "publish"
    /\ Publish("stopped") /\ monitor' = "recv"
    /\ UNCHANGED <<ptyVars, creator, client, remaining, killer, status, sinks,
                   handlerUp, recording>>

Monitor == \/ MonitorRecv \/ MonitorStatus \/ MonitorHandler \/ MonitorNotify
           \/ MonitorPublish

-----------------------------------------------------------------------------
(* AttachToSession and DetachFromSession.                                  *)

ClientGoto(c, pc) == client' = [client EXCEPT ![c] = pc]

Attach(c) ==
    /\ client[c] = "away" /\ Stored
    /\ ClientGoto(c, "count")
    /\ UNCHANGED <<ptyVars, creator, monitor, remaining, killer, status, sinks,
                   handlerUp, recording, published>>

AttachCount(c) ==
    /\ client[c] = "count"
    /\ sinks' = sinks + 1
    /\ ClientGoto(c, "check")
    /\ UNCHANGED <<ptyVars, creator, monitor, remaining, killer, status,
                   handlerUp, recording, published>>

\* IsRunning, then CurrentStatus, then SetStatus, then publish.
AttachCheck(c) ==
    /\ client[c] = "check"
    /\ ClientGoto(c, IF running THEN "status" ELSE "here")
    /\ UNCHANGED <<ptyVars, creator, monitor, remaining, killer, status, sinks,
                   handlerUp, recording, published>>

AttachStatus(c) ==
    /\ client[c] = "status"
    /\ ClientGoto(c, IF status # "running" THEN "set" ELSE "here")
    /\ UNCHANGED <<ptyVars, creator, monitor, remaining, killer, status, sinks,
                   handlerUp, recording, published>>

AttachSet(c) ==
    /\ client[c] = "set"
    /\ status' = "running"
    /\ ClientGoto(c, "announce")
    /\ UNCHANGED <<ptyVars, creator, monitor, remaining, killer, sinks,
                   handlerUp, recording, published>>

AttachAnnounce(c) ==
    /\ client[c] = "announce"
    /\ Publish("running")
    /\ ClientGoto(c, "here")
    /\ UNCHANGED <<ptyVars, creator, monitor, remaining, killer, status, sinks,
                   handlerUp, recording>>

\* Mutant of Detach: the counter is read after the lock is released, so the
\* decrement is lost.
Detach_Uncounted(c) ==
    /\ client[c] = "here"
    /\ remaining' = [remaining EXCEPT ![c] = sinks - 1]
    /\ ClientGoto(c, "uncheck")
    /\ UNCHANGED <<ptyVars, creator, monitor, killer, status, sinks, handlerUp,
                   recording, published>>

\* Mutant of Detach: a client may detach again, and the count has no floor.
Detach_Again(c) ==
    /\ client[c] = "here"
    /\ sinks' = sinks - 1
    /\ UNCHANGED <<ptyVars, creator, monitor, client, remaining, killer, status,
                   handlerUp, recording, published>>

Detach(c) ==
    /\ client[c] = "here"
    /\ sinks' = IF sinks > 0 THEN sinks - 1 ELSE sinks
    /\ remaining' = [remaining EXCEPT ![c] = sinks']
    /\ ClientGoto(c, "uncheck")
    /\ UNCHANGED <<ptyVars, creator, monitor, killer, status, handlerUp,
                   recording, published>>

DetachCheck(c) ==
    /\ client[c] = "uncheck"
    /\ ClientGoto(c, IF running /\ remaining[c] = 0 THEN "unstatus" ELSE "gone")
    /\ UNCHANGED <<ptyVars, creator, monitor, remaining, killer, status, sinks,
                   handlerUp, recording, published>>

DetachStatus(c) ==
    /\ client[c] = "unstatus"
    /\ ClientGoto(c, IF status # "detached" THEN "unset" ELSE "gone")
    /\ UNCHANGED <<ptyVars, creator, monitor, remaining, killer, status, sinks,
                   handlerUp, recording, published>>

DetachSet(c) ==
    /\ client[c] = "unset"
    /\ status' = "detached"
    /\ ClientGoto(c, "unannounce")
    /\ UNCHANGED <<ptyVars, creator, monitor, remaining, killer, sinks,
                   handlerUp, recording, published>>

DetachAnnounce(c) ==
    /\ client[c] = "unannounce"
    /\ Publish("detached")
    /\ ClientGoto(c, "gone")
    /\ UNCHANGED <<ptyVars, creator, monitor, remaining, killer, status, sinks,
                   handlerUp, recording>>

\* Steps of a call that has begun.
ClientStep(c) == \/ AttachCount(c) \/ AttachCheck(c) \/ AttachStatus(c)
                 \/ AttachSet(c) \/ AttachAnnounce(c) \/ DetachCheck(c)
                 \/ DetachStatus(c) \/ DetachSet(c) \/ DetachAnnounce(c)

-----------------------------------------------------------------------------
(* KillSession: PTY.Stop, then status, notifiers and the lifecycle event;   *)
(* nothing of that when Stop fails.                                         *)

KillCall(k) == StopCall(k) /\ Stored /\ UNCHANGED sessVars

KillReturn(k) ==
    /\ killer[k] = "stop" /\ stop[k] = "end"
    /\ killer' = [killer EXCEPT ![k] = IF result[k] = "ok" THEN "status" ELSE "end"]
    /\ UNCHANGED <<ptyVars, creator, monitor, client, remaining, status, sinks,
                   handlerUp, recording, published>>

KillStatus(k) ==
    /\ killer[k] = "status"
    /\ status' = "stopped"
    /\ killer' = [killer EXCEPT ![k] = "notify"]
    /\ UNCHANGED <<ptyVars, creator, monitor, client, remaining, sinks,
                   handlerUp, recording, published>>

KillNotify(k) ==
    /\ killer[k] = "notify"
    /\ recording' = FALSE
    /\ killer' = [killer EXCEPT ![k] = "publish"]
    /\ UNCHANGED <<ptyVars, creator, monitor, client, remaining, status, sinks,
                   handlerUp, published>>

\* Mutant of KillPublish: the killed session is not announced.
KillPublish_Silent(k) ==
    /\ killer[k] = "publish"
    /\ killer' = [killer EXCEPT ![k] = "end"]
    /\ UNCHANGED <<ptyVars, creator, monitor, client, remaining, status, sinks,
                   handlerUp, recording, published>>

KillPublish(k) ==
    /\ killer[k] = "publish"
    /\ Publish("stopped")
    /\ killer' = [killer EXCEPT ![k] = "end"]
    /\ UNCHANGED <<ptyVars, creator, monitor, client, remaining, status, sinks,
                   handlerUp, recording>>

KillStep(k) == KillReturn(k) \/ KillStatus(k) \/ KillNotify(k) \/ KillPublish(k)
Create == CreateMonitor \/ CreateStore \/ CreateAnnounce

Next ==
    \/ PtyNext /\ UNCHANGED sessVars
    \/ Create \/ Monitor
    \/ \E c \in Clients : Attach(c) \/ Detach(c) \/ ClientStep(c)
    \/ \E k \in Killers : KillCall(k) \/ KillStep(k)

Fairness ==
    /\ PtyFairness
    /\ WF_vars(Create) /\ WF_vars(Monitor)
    /\ \A c \in Clients : WF_vars(ClientStep(c))
    /\ \A k \in Killers : WF_vars(KillStep(k))

Spec == Init /\ [][Next]_vars
FairSpec == Spec /\ Fairness

-----------------------------------------------------------------------------
(* Properties.                                                             *)

Published(e) == \E i \in 1..Len(published) : published[i] = e

\* A session is announced as stopped only when its process has exited, has been
\* sent SIGKILL or has hung up.
StoppedMeansEnd == Published("stopped") => Doomed \/ HungUp

\* Whoever says that the session has ended, by a return value or by an event,
\* does so once its process has exited or cannot but do so, or has given up its
\* terminal for good and is being waited for.
EndsAreReal == StopMeansEnd /\ StoppedMeansEnd

\* Once the process is gone, somebody announces it and closes the recording,
\* whichever of the monitor and the killers gets there.
ExitAnnounced == (proc = "reaped" /\ Stored) ~> (Published("stopped") /\ ~recording)

\* The end of the process is the end of the session, inside and to others.
ExitSettles == ExitReleases /\ ExitAnnounced

\* The client counter is the number of clients whose sink is attached.
Attached == {c \in Clients :
                client[c] \in {"check", "status", "set", "announce", "here"}}
SinksCounted == sinks = Cardinality(Attached)
=============================================================================
