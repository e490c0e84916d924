---------------------------- MODULE MCPageNavigate ----------------------------
(* Instances of PageNavigate for TLC.                                      *)
EXTENDS PageNavigate, TLC

Symmetry == Permutations(Calls) \cup Permutations(Targets)

=============================================================================
