----------------------------- MODULE MCRendering -----------------------------
(* Instances of Rendering for TLC.                                         *)
EXTENDS Rendering, TLC
=============================================================================
