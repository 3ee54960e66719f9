---------------------------- MODULE MCAudioEgress ----------------------------
(* AudioEgress on small instances.                                         *)
EXTENDS AudioEgress, TLC

\* Bound: interruptions, the end of the session and Shutdown, of which two may
\* meet in a behaviour.
EgressBound ==
    interrupts + (IF lifecycle = "idle" THEN 0 ELSE 1) + (IF shutdown = "no" THEN 0 ELSE 1) <= 2

MCEgressSpec == EgressInit /\ [][EgressNext /\ EgressBound']_evars
=============================================================================
