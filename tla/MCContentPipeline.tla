------------------------- MODULE MCContentPipeline -------------------------
(* ContentPipeline on small instances.                                     *)
EXTENDS ContentPipeline, TLC

\* Bound: tool events, lifecycle events and Shutdown, of which two may meet in
\* a behaviour.
PipelineBound ==
    tools + Cardinality(Lifecycle \ pending) + (IF shutdown = "no" THEN 0 ELSE 1) <= 2

MCSpec == Init /\ [][Next /\ PipelineBound']_vars
=============================================================================
