------------------------------ MODULE MCPageRun ------------------------------
(* Instances of PageRun for TLC.                                           *)
EXTENDS PageRun

=============================================================================
