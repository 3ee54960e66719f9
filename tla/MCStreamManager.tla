--------------------------- MODULE MCStreamManager ---------------------------
(* StreamManager on small instances.                                       *)
EXTENDS StreamManager, TLC
=============================================================================
