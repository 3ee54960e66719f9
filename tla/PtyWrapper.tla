----------------------------- MODULE PtyWrapper -----------------------------
(***************************************************************************)
(* The PTY wrapper of one session (internal/pty/wrapper.go): the child     *)
(* process, the capture goroutine, the callers of Stop with the goroutine  *)
(* each of them starts to reap the process, the once-only Wait under       *)
(* commandMu, and the event channel the session monitor reads.             *)
(***************************************************************************)
EXTENDS Naturals, Sequences, FiniteSets

CONSTANTS
    Killers,    \* callers of Stop
    Obedience,  \* possible answers to "does the process obey SIGTERM?"
    CanHangup   \* may the process close its terminal and go on running?

ASSUME ObedienceAssumption == Obedience \subseteq BOOLEAN /\ CanHangup \in BOOLEAN
ASSUME KillersAssumption == Killers \cap {"fresh", "capture", "done"} = {}

VARIABLES
    proc,         \* the child: "alive", "zombie" (exited), "reaped"
    obeys,        \* the child exits on SIGTERM
    signals,      \* signals sent to the child
    tty,          \* the child's side of the terminal is open
    running,      \* Wrapper.isRunning
    once,         \* waitOnce: "fresh", the actor inside it, or "done"
    exitCode,     \* Wrapper.exitCode is the child's (else -1)
    ptyClosed,    \* the PTY file is closed
    events,       \* contents of Wrapper.events
    eventsClosed, \* Wrapper.events is closed
    capture,      \* where captureWithBuffer is
    stop,         \* stop[k]: where k's call of Stop is
    reaper,       \* reaper[k]: where the goroutine of k's Stop is
    result        \* result[k]: what Stop returned to k

procVars == <<proc, obeys, signals, tty>>
evVars == <<events, eventsClosed>>
ptyVars == <<procVars, running, once, exitCode, ptyClosed, evVars, capture,
             stop, reaper, result>>

\* reapProcess holds commandMu while it waits for the child.
CmdLocked == once \notin {"fresh", "done"}

PtyTypeOK ==
    /\ proc \in {"alive", "zombie", "reaped"}
    /\ obeys \in BOOLEAN /\ signals \subseteq {"TERM", "KILL"}
    /\ tty \in BOOLEAN /\ running \in BOOLEAN
    /\ once \in {"fresh", "capture", "done"} \cup Killers
    /\ exitCode \in BOOLEAN /\ ptyClosed \in BOOLEAN
    /\ events \in Seq({"started", "exited"}) /\ eventsClosed \in BOOLEAN
    /\ capture \in {"read", "flag", "reap", "wait", "emit", "close", "end"}
    /\ stop \in [Killers -> {"idle", "lock", "term", "select", "relock",
                             "kill", "await", "end"}]
    /\ reaper \in [Killers -> {"none", "reap", "wait", "end"}]
    /\ result \in [Killers -> {"none", "ok", "error"}]

\* Start has returned: the child runs, "process_started" is in the channel.
PtyInit ==
    /\ proc = "alive" /\ obeys \in Obedience /\ signals = {} /\ tty = TRUE
    /\ running = TRUE /\ once = "fresh" /\ exitCode = FALSE
    /\ ptyClosed = FALSE
    /\ events = <<"started">> /\ eventsClosed = FALSE
    /\ capture = "read"
    /\ stop = [k \in Killers |-> "idle"]
    /\ reaper = [k \in Killers |-> "none"]
    /\ result = [k \in Killers |-> "none"]

-----------------------------------------------------------------------------
(* The child process.                                                      *)

\* It may exit by itself; it must when killed, or told to and obedient.
ProcExit ==
    /\ proc = "alive"
    /\ proc' = "zombie" /\ tty' = FALSE
    /\ UNCHANGED <<obeys, signals, running, once, exitCode, ptyClosed, evVars,
                   capture, stop, reaper, result>>
ProcDies == ("KILL" \in signals \/ (obeys /\ "TERM" \in signals)) /\ ProcExit

ProcHangup ==
    /\ CanHangup /\ proc = "alive" /\ tty
    /\ tty' = FALSE
    /\ UNCHANGED <<proc, obeys, signals, running, once, exitCode, ptyClosed,
                   evVars, capture, stop, reaper, result>>

-----------------------------------------------------------------------------
(* reapProcess: sync.Once around commandMu.Lock and Wait.  A caller that    *)
(* finds the once taken waits until it is done.                             *)

OnceEnter(a) == once = "fresh" /\ once' = a
OnceWait(a) == /\ once = a /\ proc = "zombie"
               /\ proc' = "reaped" /\ exitCode' = TRUE /\ once' = "done"

\* captureWithBuffer: the read fails once the terminal or the file is closed.
CapEof ==
    /\ capture = "read" /\ (~tty \/ ptyClosed)
    /\ ptyClosed' = TRUE
    /\ capture' = "flag"
    /\ UNCHANGED <<procVars, running, once, exitCode, evVars, stop, reaper, result>>

CapFlag ==
    /\ capture = "flag"
    /\ running' = FALSE
    /\ capture' = "reap"
    /\ UNCHANGED <<procVars, once, exitCode, ptyClosed, evVars, stop, reaper, result>>

\* Mutant of CapReap: an atomic "somebody is waiting" flag instead of a Once.
CapReap_NoWait ==
    /\ capture = "reap"
    /\ \/ OnceEnter("capture") /\ capture' = "wait"
       \/ once # "fresh" /\ capture' = "emit" /\ UNCHANGED once
    /\ UNCHANGED <<procVars, running, exitCode, ptyClosed, evVars, stop, reaper, result>>

CapReap ==
    /\ capture = "reap"
    /\ \/ OnceEnter("capture") /\ capture' = "wait"
       \/ once = "done" /\ capture' = "emit" /\ UNCHANGED once
    /\ UNCHANGED <<procVars, running, exitCode, ptyClosed, evVars, stop, reaper, result>>

CapWait ==
    /\ capture = "wait" /\ OnceWait("capture")
    /\ capture' = "emit"
    /\ UNCHANGED <<obeys, signals, tty, running, ptyClosed, evVars, stop, reaper, result>>

\* emitEvent drops the event when Stop has closed the channel already.
CapEmit ==
    /\ capture = "emit"
    /\ events' = IF eventsClosed THEN events ELSE Append(events, "exited")
    /\ capture' = "close"
    /\ UNCHANGED <<procVars, running, once, exitCode, ptyClosed, eventsClosed,
                   stop, reaper, result>>

CapClose ==
    /\ capture = "close"
    /\ eventsClosed' = TRUE
    /\ capture' = "end"
    /\ UNCHANGED <<procVars, running, once, exitCode, ptyClosed, events, stop,
                   reaper, result>>

Capture == CapEof \/ CapFlag \/ CapReap \/ CapWait \/ CapEmit \/ CapClose

-----------------------------------------------------------------------------
(* Stop.                                                                   *)

StopGoto(k, pc) == stop' = [stop EXCEPT ![k] = pc]
\* Every return past the isRunning check runs the deferred closePTY.
StopReturn(k, r) == /\ StopGoto(k, "end")
                    /\ result' = [result EXCEPT ![k] = r]
                    /\ ptyClosed' = TRUE
CloseEvents == running' = FALSE /\ eventsClosed' = TRUE

StopCall(k) ==
    /\ stop[k] = "idle"
    /\ IF running
          THEN StopGoto(k, "lock") /\ UNCHANGED result
          ELSE StopGoto(k, "end") /\ result' = [result EXCEPT ![k] = "ok"]
    /\ UNCHANGED <<procVars, running, once, exitCode, ptyClosed, evVars,
                   capture, reaper>>

StopLock(k) ==
    /\ stop[k] = "lock" /\ ~CmdLocked
    /\ StopGoto(k, "term")
    /\ UNCHANGED <<procVars, running, once, exitCode, ptyClosed, evVars,
                   capture, reaper, result>>

\* GracefulTerminate fails when the process has been waited for already.
StopTerm(k) ==
    /\ stop[k] = "term"
    /\ IF proc = "reaped"
          THEN StopReturn(k, "error") /\ UNCHANGED <<signals, reaper>>
          ELSE /\ signals' = signals \cup {"TERM"}
               /\ reaper' = [reaper EXCEPT ![k] = "reap"]
               /\ StopGoto(k, "select") /\ UNCHANGED <<result, ptyClosed>>
    /\ UNCHANGED <<proc, obeys, tty, running, once, exitCode, evVars, capture>>

\* Mutant of ReapEnter: only the goroutine that waits reports to its Stop.
ReapEnter_FirstOnly(k) ==
    /\ reaper[k] = "reap"
    /\ OnceEnter(k) /\ reaper' = [reaper EXCEPT ![k] = "wait"]
    /\ UNCHANGED <<procVars, running, exitCode, ptyClosed, evVars, capture,
                   stop, result>>

ReapEnter(k) ==
    /\ reaper[k] = "reap"
    /\ \/ OnceEnter(k) /\ reaper' = [reaper EXCEPT ![k] = "wait"]
       \/ once = "done" /\ reaper' = [reaper EXCEPT ![k] = "end"] /\ UNCHANGED once
    /\ UNCHANGED <<procVars, running, exitCode, ptyClosed, evVars, capture,
                   stop, result>>

ReapWait(k) ==
    /\ reaper[k] = "wait" /\ OnceWait(k)
    /\ reaper' = [reaper EXCEPT ![k] = "end"]
    /\ UNCHANGED <<obeys, signals, tty, running, ptyClosed, evVars, capture,
                   stop, result>>

\* The select: the child is reaped in time, or the timeout fires.
StopDone(k) ==
    /\ stop[k] = "select" /\ reaper[k] = "end"
    /\ CloseEvents
    /\ StopReturn(k, "ok")
    /\ UNCHANGED <<procVars, once, exitCode, events, capture, reaper>>

\* Mutant of StopTimeout: Stop gives up without killing.
StopTimeout_GivesUp(k) ==
    /\ stop[k] = "select"
    /\ StopReturn(k, "ok")
    /\ UNCHANGED <<procVars, running, once, exitCode, evVars, capture, reaper>>

StopTimeout(k) ==
    /\ stop[k] = "select"
    /\ StopGoto(k, "relock")
    /\ UNCHANGED <<procVars, running, once, exitCode, ptyClosed, evVars,
                   capture, reaper, result>>

\* The timeout branch reads w.command under commandMu again.
StopRelock(k) ==
    /\ stop[k] = "relock" /\ ~CmdLocked
    /\ StopGoto(k, "kill")
    /\ UNCHANGED <<procVars, running, once, exitCode, ptyClosed, evVars,
                   capture, reaper, result>>

StopKill(k) ==
    /\ stop[k] = "kill"
    /\ IF proc = "reaped"
          THEN StopReturn(k, "error") /\ UNCHANGED <<signals, running, eventsClosed>>
          ELSE /\ signals' = signals \cup {"KILL"} /\ CloseEvents
               /\ StopGoto(k, "await") /\ UNCHANGED <<result, ptyClosed>>
    /\ UNCHANGED <<proc, obeys, tty, once, exitCode, events, capture, reaper>>

StopAwait(k) ==
    /\ stop[k] = "await" /\ reaper[k] = "end"
    /\ StopReturn(k, "ok")
    /\ UNCHANGED <<procVars, running, once, exitCode, evVars, capture, reaper>>

StopStep(k) == \/ StopLock(k) \/ StopTerm(k) \/ StopDone(k) \/ StopTimeout(k)
               \/ StopRelock(k) \/ StopKill(k) \/ StopAwait(k)
Reap(k) == ReapEnter(k) \/ ReapWait(k)

PtyNext ==
    \/ ProcExit \/ ProcHangup \/ Capture
    \/ \E k \in Killers : StopStep(k) \/ Reap(k)

\* The scheduler runs every goroutine, the timer fires, and a signalled child
\* dies; nothing makes a child exit by itself.
PtyFairness ==
    /\ WF_ptyVars(ProcDies) /\ WF_ptyVars(Capture)
    /\ \A k \in Killers : WF_ptyVars(StopStep(k)) /\ WF_ptyVars(Reap(k))

-----------------------------------------------------------------------------
(* Properties.                                                             *)

\* "process_exited" is only reported for a child that has been waited for,
\* with its exit code stored, whoever won the once.
ExitIsReaped ==
    (\E i \in 1..Len(events) : events[i] = "exited") => proc = "reaped" /\ exitCode

\* The child has exited or has been sent SIGKILL; or it has closed its terminal
\* and lives on without it, and the capture goroutine waits for its exit.
Doomed == proc # "alive" \/ "KILL" \in signals
HungUp == ~tty /\ capture \in {"reap", "wait"}

\* Stop returns success only then (a second caller returns at once after the
\* first one's kill, and any after the capture goroutine has seen end of file).
StopMeansEnd == \A k \in Killers : result[k] = "ok" => Doomed \/ HungUp

\* Stop escalates: once it has sent SIGTERM it returns.
StopReturns == \A k \in Killers : (stop[k] = "select") ~> (stop[k] = "end")

\* A process that is gone leaves nothing behind: the PTY file is closed, the
\* event channel is closed and the capture goroutine has ended.
ExitReleases == (proc = "reaped") ~> (ptyClosed /\ eventsClosed /\ capture = "end")
=============================================================================
