------------------------------ MODULE MCProfile ------------------------------
(* Instances of Profile for TLC.                                           *)
EXTENDS Profile, TLC

Symmetry ==
  Permutations(Procs) \cup Permutations(Dirs) \cup Permutations(Files)

=============================================================================
