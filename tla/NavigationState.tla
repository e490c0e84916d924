--------------------------- MODULE NavigationState ---------------------------
(***************************************************************************)
(* NavigationState of crates/fandhe-browser-core/src/state.rs: a number of *)
(* navigation sequences, each with the number of its newest navigation     *)
(* (its generation) and the page that navigation ended with, if any.       *)
(*                                                                         *)
(* Every operation holds the sequence's lock from beginning to end, so     *)
(* each is one step here.  The operations are the conjuncts that the       *)
(* actions of PageNavigate are made of.                                    *)
(***************************************************************************)
EXTENDS Integers

CONSTANTS
  Navs,    \* the sequences: one per CDP target, one shared by the whole browser
  Pages,   \* what a navigation may end with: URL and HTML
  NoPage,  \* NavigationState::latest() = None
  MaxGen   \* the largest generation number, u64::MAX in the code

ASSUME NoPageAssumption == NoPage \notin Pages
ASSUME MaxGenAssumption == MaxGen \in Nat

VARIABLES generation, latest

navVars == <<generation, latest>>

NavTypeOK ==
  /\ generation \in [Navs -> 0 .. MaxGen]
  /\ latest \in [Navs -> Pages \cup {NoPage}]

NavInit ==
  /\ generation = [n \in Navs |-> 0]
  /\ latest = [n \in Navs |-> NoPage]

\* begin_navigation: the page of the navigation before is gone at once.
BeginNavigation(n) ==
  /\ generation[n] < MaxGen
  /\ generation' = [generation EXCEPT ![n] = @ + 1]
  /\ latest' = [latest EXCEPT ![n] = NoPage]

\* The generation was handed out and no newer navigation has begun.
IsCurrent(n, g) == g # 0 /\ generation[n] = g

\* commit_navigation of the current generation.
CommitNavigation(n, p) ==
  /\ latest' = [latest EXCEPT ![n] = p]
  /\ UNCHANGED generation

\* clear_navigation of the current generation: it uses up one more number, so
\* that a fetch still under way for this generation cannot commit after it.
ClearNavigation(n, p) ==
  /\ generation[n] < MaxGen
  /\ generation' = [generation EXCEPT ![n] = @ + 1]
  /\ latest' = [latest EXCEPT ![n] = p]

=============================================================================
