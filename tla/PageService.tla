----------------------------- MODULE PageService -----------------------------
(***************************************************************************)
(* What the page-script actor promises its callers (the contract at the    *)
(* head of page_actor.rs), without threads, flags, wakers or records of    *)
(* generations: requests wait in one bounded line, at most one is served,  *)
(* each is answered once, and a request is cancelled only because a newer  *)
(* navigation of its own sequence came, its caller left, or the service    *)
(* closed.                                                                 *)
(***************************************************************************)
EXTENDS Integers, FiniteSets

CONSTANTS
  Requests,  \* records with a `scope' and a `gen'
  Capacity,  \* requests that may wait
  NoRequest

VARIABLES
  open,      \* the service takes requests
  turn,      \* turn[j]: the place of a waiting request, 0 otherwise
  serving,   \* the request whose page is run
  answer,    \* "none" until the request is answered
  stage,     \* how far the caller of each request got
  revoking   \* the request that is being called off

vars == <<open, turn, serving, answer, stage, revoking>>

-----------------------------------------------------------------------------
Waiting == {j \in Requests : turn[j] > 0}

Overtaken(j) == {k \in Requests : k.scope = j.scope /\ k.gen < j.gen}

Newer(j) == {k \in Requests : k.scope = j.scope /\ k.gen > j.gen}

Unasked(j) == stage[j] \in {"none", "announced"}

\* Requests that still have no answer get this one.
Answered(js, r) ==
  [j \in Requests |-> IF j \in js /\ answer[j] = "none" THEN r ELSE answer[j]]

\* The line once j overtook its predecessors.
Rest(j) == [k \in Requests |-> IF k \in Overtaken(j) THEN 0 ELSE turn[k]]

\* The caller of j gets so far, the others stay.
Moves(j, to) ==
  /\ stage'[j] = to
  /\ \A k \in Requests \ {j} : stage'[k] = stage[k]

Init ==
  /\ open = TRUE
  /\ turn = [j \in Requests |-> 0]
  /\ serving = NoRequest
  /\ answer = [j \in Requests |-> "none"]
  /\ stage = [j \in Requests |-> "none"]
  /\ revoking = NoRequest

\* Nobody joins behind a newer navigation of the same sequence that waits or
\* is served; the older ones are answered at once or called off.
Overtake(j) ==
  /\ open /\ revoking = NoRequest
  /\ \A k \in Newer(j) : k \notin Waiting /\ (k = serving => answer[k] # "none")
  /\ revoking' = IF serving \in Overtaken(j) THEN serving ELSE NoRequest
  /\ UNCHANGED <<open, serving>>

\* A navigation begins.
Announce(j) ==
  /\ stage[j] = "none"
  /\ Moves(j, "announced")
  /\ Overtake(j)
  /\ turn' = Rest(j)
  /\ answer' = Answered(Waiting \cap Overtaken(j), "Cancelled")

\* A request that is behind its time is refused, with no effect on others.
RefuseLate(j) ==
  /\ open /\ revoking = NoRequest /\ Unasked(j)
  /\ Moves(j, "returned")
  /\ \E k \in Newer(j) : stage[k] # "none"
  /\ answer' = [answer EXCEPT ![j] = "Cancelled"]
  /\ UNCHANGED <<open, turn, serving, revoking>>

\* As many wait as may, apart from those j overtakes.
Full(j) == Cardinality(Waiting \ Overtaken(j)) >= Capacity

\* There is nothing to run, no room, or no thread for the first of the line.
Reason(j, r) ==
  \/ r = "Skipped"
  \/ r = "Busy" /\ Full(j)
  \/ r = "SpawnFailed" /\ Waiting = {} /\ serving = NoRequest

Refuse(j, r) ==
  /\ Unasked(j)
  /\ Moves(j, "returned")
  /\ Reason(j, r)
  /\ Overtake(j)
  /\ turn' = Rest(j)
  /\ answer' = [Answered(Waiting \cap Overtaken(j), "Cancelled") EXCEPT ![j] = r]

\* The request joins the end of the line.
Join(j) ==
  /\ Unasked(j)
  /\ Moves(j, "asked")
  /\ ~ Full(j)
  /\ Overtake(j)
  /\ turn' \in [Requests -> Nat]
  /\ \A k \in Requests \ {j} : turn'[k] = Rest(j)[k] /\ turn'[k] < turn'[j]
  /\ answer' = Answered(Waiting \cap Overtaken(j), "Cancelled")

\* The caller reads its answer.
Return(j) ==
  /\ stage[j] = "asked" /\ answer[j] # "none"
  /\ Moves(j, "returned")
  /\ UNCHANGED <<open, turn, serving, answer, revoking>>

\* The caller loses interest.
Leave(j) ==
  /\ stage[j] = "asked" /\ revoking = NoRequest
  /\ Moves(j, "left")
  /\ turn' = [turn EXCEPT ![j] = 0]
  /\ revoking' = j
  /\ UNCHANGED <<open, serving, answer>>

Close ==
  /\ open /\ revoking = NoRequest
  /\ open' = FALSE
  /\ turn' = [j \in Requests |-> 0]
  /\ answer' = Answered(Waiting, "Cancelled")
  /\ revoking' = serving
  /\ UNCHANGED <<serving, stage>>

Revoke ==
  /\ revoking # NoRequest
  /\ answer' = Answered({revoking}, "Cancelled")
  /\ revoking' = NoRequest
  /\ UNCHANGED <<open, turn, serving, stage>>

\* The first of the line is served, one at a time.
Take(j) ==
  /\ serving = NoRequest /\ revoking = NoRequest
  /\ serving' = j
  /\ j \in Waiting /\ \A k \in Waiting : turn[j] <= turn[k]
  /\ turn' = [turn EXCEPT ![j] = 0]
  /\ UNCHANGED <<open, answer, stage, revoking>>

Answer(r) ==
  /\ serving # NoRequest /\ answer[serving] = "none"
  /\ answer' = [answer EXCEPT ![serving] = r]
  /\ UNCHANGED <<open, turn, serving, stage, revoking>>

\* Nobody is put aside without an answer.
Done ==
  /\ serving # NoRequest /\ revoking = NoRequest /\ answer[serving] # "none"
  /\ serving' = NoRequest
  /\ UNCHANGED <<open, turn, answer, stage, revoking>>

\* The service breaks down: all who wait or are served are told.
Fail(r) ==
  /\ revoking = NoRequest
  /\ serving' = NoRequest
  /\ turn' = [j \in Requests |-> 0]
  /\ answer' = Answered(Waiting \cup ({serving} \ {NoRequest}), r)
  /\ UNCHANGED <<open, stage, revoking>>

Next ==
  \/ \E j \in Requests :
       \/ Announce(j) \/ RefuseLate(j) \/ Join(j)
       \/ \E r \in {"Skipped", "Busy", "SpawnFailed"} : Refuse(j, r)
       \/ Return(j) \/ Leave(j) \/ Take(j)
  \/ Close \/ Revoke \/ Done
  \/ \E r \in {"Executed", "RunError", "Terminated"} : Answer(r)
  \/ \E r \in {"Terminated", "ExecutorFailed"} : Fail(r)

Spec == Init /\ [][Next]_vars

=============================================================================
