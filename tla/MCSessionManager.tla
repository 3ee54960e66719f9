-------------------------- MODULE MCSessionManager --------------------------
(* SessionManager on small instances.                                      *)
EXTENDS SessionManager, TLC

AlwaysObeys == {TRUE}
MayIgnore == {FALSE, TRUE}
Symmetry == Permutations(Killers) \cup Permutations(Clients)
=============================================================================
