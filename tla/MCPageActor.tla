----------------------------- MODULE MCPageActor -----------------------------
(* Instances of PageActor for TLC.                                         *)
EXTENDS PageActor, TLC

CONSTANTS MaxNavigations,  \* bound: navigations a behaviour knows of
          MaxSequences,    \* bound: the sequences they belong to
          MaxRequests      \* bound: runs requested in a behaviour

\* A request refused by a full queue ends at once and does not count.
Counted == {j \in Jobs : phase[j] # "none" /\ slot[j] # "Busy"}

Bounded ==
  /\ Cardinality({j \in Jobs : phase[j] # "none"}) <= MaxNavigations
  /\ Cardinality({j.scope : j \in Counted}) <= MaxSequences
  /\ Cardinality({j \in Counted : ~ Unrequested(j)}) <= MaxRequests

Symmetry == Permutations(Scopes) \cup Permutations(Workers)
=============================================================================
