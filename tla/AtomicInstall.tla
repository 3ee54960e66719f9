---------------------------- MODULE AtomicInstall ----------------------------
(***************************************************************************)
(* What the plugin commands promise, for one plugin: it is there, disabled *)
(* or enabled, or it is not, and a command that reports success has made   *)
(* the one step it is for.  A command that fails has changed nothing,      *)
(* except that an uninstallation may leave the plugin disabled.  Once two  *)
(* commands run at a time, one crashes or one cannot clean up, only the    *)
(* reports can be relied on to stay what they are.                         *)
(***************************************************************************)
CONSTANT Commands

VARIABLES
    plugin,  \* "absent", "installed", "enabled" or, after a fault, "unknown"
    outcome  \* outcome[c]: "open", "removed" the plugin, "done" or "failed"

vars == <<plugin, outcome>>

Init == plugin = "absent" /\ outcome = [c \in Commands |-> "open"]

Ends(c, from, to) == outcome[c] = from /\ outcome' = [outcome EXCEPT ![c] = to]

Install(c) ==
    /\ plugin = "absent" /\ \A d \in Commands : outcome[d] # "removed"
    /\ plugin' = "installed" /\ Ends(c, "open", "done")

Enable(c) ==
    /\ plugin \in {"installed", "enabled"}
    /\ plugin' = "enabled" /\ Ends(c, "open", "done")

\* An uninstallation disables the plugin, then removes it, then reports.
Disable(c) ==
    /\ plugin = "enabled" /\ outcome[c] = "open"
    /\ plugin' = "installed" /\ UNCHANGED outcome

Remove(c) ==
    /\ plugin = "installed"
    /\ plugin' = "absent" /\ Ends(c, "open", "removed")

Confirm(c) ==
    /\ plugin = "absent"
    /\ Ends(c, "removed", "done") /\ UNCHANGED plugin

Fail(c) ==
    /\ plugin # "unknown"
    /\ Ends(c, "open", "failed") /\ UNCHANGED plugin

Final == {"done", "failed"}

Disturb ==
    /\ plugin' = "unknown"
    /\ outcome' \in [Commands -> {"open", "removed"} \cup Final]
    /\ \A c \in Commands : outcome[c] \in Final => outcome'[c] = outcome[c]

Step ==
    \/ \E c \in Commands : \/ Install(c) \/ Enable(c) \/ Fail(c)
                           \/ Disable(c) \/ Remove(c) \/ Confirm(c)
    \/ Disturb

\* What changes nothing is stuttering, and TLC need not look for a step in it.
Next == vars' # vars /\ Step

Spec == Init /\ [][Next]_vars
=============================================================================
