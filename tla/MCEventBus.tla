---------------------------- MODULE MCEventBus ----------------------------
(* EventBus on small instances; publishers are interchangeable.            *)
EXTENDS EventBus, TLC

Symmetry == Permutations(Publishers)
=============================================================================
