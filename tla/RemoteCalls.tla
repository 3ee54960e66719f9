----------------------------- MODULE RemoteCalls -----------------------------
(***************************************************************************)
(* What a runtime promises its callers, whatever process, socket and       *)
(* reader stand behind it: a call begins before the runtime is stopped or  *)
(* is refused; it is sent once, to a host not known to be gone, answered   *)
(* once at most, and returns when it has been answered, or fails.  Once    *)
(* sent, only its own limit or the end of the runtime makes it fail.       *)
(***************************************************************************)
CONSTANTS
    Calls,   \* each is made once
    Limited  \* those whose caller may give up

VARIABLES
    status,  \* status[c]: "idle", "begun", "sent", "ready", "returned" or "failed"
    stopped, \* no call begins any more
    ended    \* the host is gone, and everybody is told

vars == <<status, stopped, ended>>

Init ==
    /\ status = [c \in Calls |-> "idle"]
    /\ stopped = FALSE /\ ended = FALSE

Moves(c, from, to) ==
    /\ status[c] = from
    /\ status' = [status EXCEPT ![c] = to]
    /\ UNCHANGED <<stopped, ended>>

Begin(c) == ~stopped /\ Moves(c, "idle", "begun")

Refuse(c) == stopped /\ Moves(c, "idle", "failed")

\* Not to a host that is known to be gone.
Send(c) == ~ended /\ Moves(c, "begun", "sent")

Answer(c) == ~ended /\ Moves(c, "sent", "ready")

Return(c) == Moves(c, "ready", "returned")

Fail(c) ==
    \/ Moves(c, "begun", "failed")
    \/ /\ c \in Limited \/ ended
       /\ Moves(c, "sent", "failed") \/ Moves(c, "ready", "failed")

Stop == ~stopped /\ stopped' = TRUE /\ UNCHANGED <<status, ended>>

End == stopped /\ ~ended /\ ended' = TRUE /\ UNCHANGED <<status, stopped>>

Step == \/ \E c \in Calls : \/ Begin(c) \/ Refuse(c) \/ Send(c) \/ Answer(c)
                            \/ Return(c) \/ Fail(c)
        \/ Stop \/ End

\* What changes nothing is stuttering, and TLC need not look for a step in it.
Next == vars' # vars /\ Step

Spec == Init /\ [][Next]_vars
=============================================================================
