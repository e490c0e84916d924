---------------------------- MODULE RenderContract ----------------------------
(***************************************************************************)
(* What the rendering methods of AppState promise (RENDER-1, RENDER-3): a  *)
(* call ends with an error, or with a picture of a page that was the       *)
(* recorded result of the navigation at some moment of this call, and that *)
(* ended where the policy lets it.                                         *)
(***************************************************************************)
CONSTANTS
  Pages,   \* what navigations may record
  Allowed, \* those whose URL may be loaded
  NoPage, NoPicture, Refusal

VARIABLES
  page,       \* the recorded result
  calling,    \* a call is under way
  candidates, \* the results recorded since it began
  picture     \* what the last call returned

vars == <<page, calling, candidates, picture>>

Init ==
  /\ page = NoPage
  /\ calling = FALSE
  /\ candidates = {}
  /\ picture = NoPicture

Navigate ==
  /\ page' \in Pages \cup {NoPage}
  /\ candidates' = IF calling THEN candidates \cup {page'} ELSE candidates
  /\ UNCHANGED <<calling, picture>>

Begin ==
  /\ ~ calling
  /\ calling' = TRUE
  /\ candidates' = {page}
  /\ picture' = NoPicture
  /\ UNCHANGED page

Answer ==
  /\ calling
  /\ picture' \in {Refusal} \cup [url : candidates \cap Allowed, allowed : {TRUE}]
  /\ calling' = FALSE
  /\ candidates' = {}
  /\ UNCHANGED page

Next == Navigate \/ Begin \/ Answer

Spec == Init /\ [][Next]_vars

=============================================================================
