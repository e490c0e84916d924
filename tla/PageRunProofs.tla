---------------------------- MODULE PageRunProofs ----------------------------
(***************************************************************************)
(* Proofs about PageRun: a run whose limits are exceeded runs nothing of   *)
(* the page any more; every import and request is in its report; and the   *)
(* timer queue, its order and the shim's table agree.  Nothing is assumed  *)
(* of the limits: they may be zero, but for the size the table sweeps at.  *)
(***************************************************************************)
EXTENDS PageRun, FiniteSetTheorems, SequenceTheorems, WellFoundedInduction, TLAPS

\* A run that was given up is at one of the stages that only pass over what is
\* left.
Closed == abort # "none" => stage \in {"script", "event", "done"}

\* Where the runner begins something, it has looked at the limits since page
\* code ran last.
Unlimited ==
  abort = "none" /\ stage \in {"install", "script", "event", "load"} => ~ Tripped

\* Between tasks there is none.
Between == stage \in {"install", "script", "event", "loop", "done"} => task = "none"

Numbers == asked \in Nat /\ imports \in Nat /\ requested \in Nat /\ counted \in Nat

ClosedInv == Closed /\ Unlimited /\ opsOut \in BOOLEAN /\ tripped \in BOOLEAN
DoomedOK  == doomed \in EngineAborts \cup {"none"}
CountInv  == Numbers /\ Between /\ ImportsCounted

-----------------------------------------------------------------------------
(* The ways to go on.                                                      *)

\* Giving up leaves a reason and one of the passing stages.
LEMMA GivenUp ==
  ASSUME NEW k, NEW n, GiveUp(k, n)
  PROVE  abort' = k /\ task' = "none" /\ stage' \in {"script", "event", "done"}
<1>1. After(task) \in {"script", "event", "loop"}
  BY DEF After
<1> QED
  BY <1>1 DEF GiveUp

\* Giving up counts the import that is at hand, if n says so, and all that wait.
LEMMA GivenUpCounts ==
  ASSUME CountInv, NEW k, NEW n \in Nat, GiveUp(k, n), n = IF AtImport THEN 1 ELSE 0
  PROVE  CountInv'
<1>1. task' = "none" /\ ~ AtImport'
  BY GivenUp DEF AtImport
<1>2. /\ counted' = counted + n + imports /\ imports' = 0
      /\ requested' = requested /\ asked' = asked
  BY DEF GiveUp
<1>3. requested = counted + imports + n
  BY DEF CountInv, ImportsCounted
<1> QED
  BY <1>1, <1>2, <1>3 DEF CountInv, Numbers, Between, ImportsCounted

\* Going on from a task.
LEMMA GoneOn ==
  ASSUME GoOn
  PROVE  /\ stage' \in {"script", "event", "loop"} /\ task' = "none" /\ abort' = abort
         /\ task \notin {"script", "event"} => stage' = "loop"
BY DEF GoOn, After


-----------------------------------------------------------------------------
(* Nothing is run after a limit was exceeded.                              *)

FailStep ==
  /\ abort # "none" => abort' = abort /\ stage' \notin {"run", "drain", "micro"}
  /\ stage' = "run" /\ stage # "run" => ~ Tripped

\* Giving up is fine for a run that has not been given up.
LEMMA GivenUpCloses ==
  ASSUME ClosedInv, NEW k \in AbortKinds, NEW n, GiveUp(k, n), abort = "none",
         opsOut' \in BOOLEAN, tripped' \in BOOLEAN
  PROVE  ClosedInv' /\ FailStep
<1>1. abort' # "none"
  BY GivenUp DEF AbortKinds, EngineAborts
<1> QED
  BY <1>1, GivenUp DEF ClosedInv, Closed, Unlimited, FailStep

\* So is every step that leaves the limits alone and begins nothing.
LEMMA QuietStep ==
  ASSUME ClosedInv, abort = "none", abort' = abort, UNCHANGED limitVars,
         stage' \notin {"install", "script", "event", "load"} \/ ~ Tripped,
         stage' = "run" => stage = "run" \/ ~ Tripped
  PROVE  ClosedInv' /\ FailStep
BY DEF ClosedInv, Closed, Unlimited, FailStep, limitVars, Tripped

LEMMA PageCodeCloses ==
  ASSUME ClosedInv, PageCode
  PROVE  ClosedInv' /\ FailStep
<1>1. stage \in {"run", "micro"} /\ stage' = stage /\ abort' = abort
  BY DEF PageCode, OpsRunOut, TripLimit, SetTimer, SetDirectly, ClearTimer, ClearDirectly,
         QueueMicrotask, Request, CancelRequest, CancelDirectly, Import, PageRuns, runVars
<1>2. opsOut' \in BOOLEAN /\ tripped' \in BOOLEAN
  <2>1. CASE OpsRunOut
    BY <2>1 DEF OpsRunOut, ClosedInv
  <2>2. CASE TripLimit
    BY <2>2 DEF TripLimit, ClosedInv
  <2>3. CASE SetTimer
    <3>1. CASE Full /\ tripped' = TRUE /\ UNCHANGED <<opsOut, timerVars>>
      BY <3>1 DEF ClosedInv
    <3>2. CASE ~ Full
      BY <2>3, <3>2 DEF SetTimer, ClosedInv
    <3> QED
      BY <2>3, <3>1, <3>2 DEF SetTimer
  <2>4. CASE ClearTimer
    BY <2>4 DEF ClearTimer, ClosedInv, limitVars
  <2>5. CASE ClearDirectly
    BY <2>5 DEF ClearDirectly, ClosedInv, limitVars
  <2>6. CASE QueueMicrotask
    BY <2>6 DEF QueueMicrotask, ClosedInv
  <2>7. CASE Request
    BY <2>7 DEF Request, ClosedInv, limitVars
  <2>8. CASE CancelRequest
    BY <2>8 DEF CancelRequest, ClosedInv, limitVars
  <2>9. CASE Import
    BY <2>9 DEF Import, ClosedInv, limitVars
  <2>10. CASE SetDirectly
    <3>1. CASE Full /\ tripped' = TRUE /\ UNCHANGED queueVars
      BY <2>10, <3>1 DEF SetDirectly, ClosedInv
    <3>2. CASE ~ Full
      BY <2>10, <3>2 DEF SetDirectly, ClosedInv
    <3> QED
      BY <2>10, <3>1, <3>2 DEF SetDirectly
  <2>11. CASE CancelDirectly
    BY <2>11 DEF CancelDirectly, ClosedInv, limitVars
  <2> QED
    BY <2>1, <2>2, <2>3, <2>4, <2>5, <2>6, <2>7, <2>8, <2>9, <2>10, <2>11 DEF PageCode
<1> QED
  BY <1>1, <1>2 DEF ClosedInv, Closed, Unlimited, FailStep

\* Before the loop: the actions that may meet a run that was given up.
LEMMA ScriptsClose ==
  ASSUME ClosedInv, Install \/ Script \/ ScriptsEnd \/ Lifecycle \/ LifecycleEnds
  PROVE  ClosedInv' /\ FailStep
<1>1. opsOut' = opsOut /\ tripped' = tripped
  BY DEF Install, Script, ScriptsEnd, Lifecycle, LifecycleEnds, limitVars
<1>2. Tripped' <=> Tripped
  BY <1>1 DEF Tripped
<1>3. CASE Install
  BY <1>1, <1>2, <1>3 DEF Install, ClosedInv, Closed, Unlimited, FailStep
<1>4. CASE Script
  BY <1>1, <1>2, <1>4 DEF Script, ClosedInv, Closed, Unlimited, FailStep, EngineAborts
<1>5. CASE ScriptsEnd
  BY <1>1, <1>2, <1>5 DEF ScriptsEnd, ClosedInv, Closed, Unlimited, FailStep
<1>6. CASE Lifecycle
  BY <1>1, <1>2, <1>6 DEF Lifecycle, ClosedInv, Closed, Unlimited, FailStep
<1>7. CASE LifecycleEnds
  BY <1>1, <1>2, <1>7 DEF LifecycleEnds, ClosedInv, Closed, Unlimited, FailStep
<1> QED
  BY <1>3, <1>4, <1>5, <1>6, <1>7

\* Evaluations: each begins in a run that has not been given up.
LEMMA EvaluationsClose ==
  ASSUME ClosedInv, DoomedOK,
         \/ Microtask \/ MicrotaskEnds \/ Returns \/ Stopped \/ ScriptRan
         \/ ImportRan \/ RequestRan \/ Drained \/ TimerRan
  PROVE  ClosedInv' /\ FailStep
<1>1. stage \in {"run", "ran", "drain", "micro"} /\ abort = "none" /\ UNCHANGED limitVars
  BY DEF Microtask, MicrotaskEnds, Returns, Stopped, ScriptRan, ImportRan, RequestRan,
         Drained, TimerRan, ClosedInv, Closed
<1>2. opsOut' \in BOOLEAN /\ tripped' \in BOOLEAN
  BY <1>1 DEF ClosedInv, limitVars
<1>3. ASSUME NEW k \in AbortKinds, NEW n, GiveUp(k, n)
      PROVE  ClosedInv' /\ FailStep
  BY <1>1, <1>2, <1>3, GivenUpCloses
<1>4. ASSUME NEW n, Late(n)
      PROVE  ClosedInv' /\ FailStep
  BY <1>3, <1>4 DEF Late, AbortKinds, EngineAborts
<1>5. ASSUME NEW s \in {"drain", "micro", "ran"}, Evaluate(s)
      PROVE  ClosedInv' /\ FailStep
  BY <1>1, <1>5, QuietStep DEF Evaluate
<1>6. ASSUME GoOn, ~ Tripped \/ task \notin {"script", "event"}
      PROVE  ClosedInv' /\ FailStep
  BY <1>1, <1>6, GoneOn, QuietStep
<1>7. ASSUME Checkpoint
      PROVE  ClosedInv' /\ FailStep
  BY <1>4, <1>5, <1>7 DEF Checkpoint
<1>8. CASE Microtask \/ MicrotaskEnds
  BY <1>5, <1>8 DEF Microtask, MicrotaskEnds
<1>9. CASE Returns
  BY <1>4, <1>5, <1>9 DEF Returns
<1>10. CASE Stopped
  <2>1. PICK k \in EngineAborts :
          GiveUp(IF doomed = "none" THEN k ELSE doomed,
                 IF task = "import" /\ stage = "run" THEN 1 ELSE 0)
    BY <1>10 DEF Stopped
  <2> QED
    BY <2>1, <1>3 DEF DoomedOK, AbortKinds, EngineAborts
<1>11. CASE ScriptRan
  BY <1>3, <1>7, <1>11 DEF ScriptRan, AbortKinds, EngineAborts
<1>12. CASE ImportRan
  BY <1>3, <1>4, <1>5, <1>12 DEF ImportRan, DoomedOK, AbortKinds
<1>13. CASE RequestRan
  BY <1>3, <1>7, <1>13 DEF RequestRan, AbortKinds, EngineAborts
<1>14. CASE Drained
  BY <1>3, <1>4, <1>6, <1>14 DEF Drained, AbortKinds, EngineAborts
<1>15. CASE TimerRan
  BY <1>3, <1>4, <1>6, <1>15 DEF TimerRan, AbortKinds, EngineAborts
<1> QED
  BY <1>8, <1>9, <1>10, <1>11, <1>12, <1>13, <1>14, <1>15

\* The loop begins a task only after it has looked at the limits; what a task
\* does before page code runs does not change that.
LEMMA LoopCloses ==
  ASSUME ClosedInv, DoomedOK,
         \/ LoopTrips \/ TakeImports \/ StartImport \/ ImportLoaded \/ StartRequest
         \/ RequestLoaded \/ Idle \/ NextTimer \/ RunTimer
  PROVE  ClosedInv' /\ FailStep
<1>1. stage \in {"loop", "load"} /\ abort = "none"
  BY DEF LoopTrips, TakeImports, StartImport, ImportLoaded, StartRequest, RequestLoaded,
         Idle, NextTimer, RunTimer, Take, ClosedInv, Closed
<1>2. ASSUME NEW k \in AbortKinds, NEW n, GiveUp(k, n), opsOut' \in {opsOut, TRUE}, tripped' = tripped
      PROVE  ClosedInv' /\ FailStep
  BY <1>1, <1>2, GivenUpCloses DEF ClosedInv
<1>3. ASSUME NEW n, Late(n), UNCHANGED limitVars
      PROVE  ClosedInv' /\ FailStep
  BY <1>2, <1>3 DEF Late, AbortKinds, EngineAborts, limitVars
<1>4. CASE LoopTrips
  BY <1>2, <1>4 DEF LoopTrips, limitVars, AbortKinds, EngineAborts
<1>5. CASE TakeImports
  <2>1. CASE GiveUp("engineError", 0)
    BY <1>2, <1>5, <2>1 DEF TakeImports, limitVars, AbortKinds, EngineAborts
  <2>2. CASE UNCHANGED runVars
    BY <1>1, <1>5, <2>2, QuietStep DEF TakeImports, runVars
  <2> QED
    BY <1>5, <2>1, <2>2 DEF TakeImports
<1>6. CASE StartImport
  BY <1>1, <1>3, <1>6, QuietStep DEF StartImport
<1>7. CASE ImportLoaded
  <2>1. stage = "load" /\ ~ Tripped /\ UNCHANGED limitVars
    BY <1>1, <1>7 DEF ImportLoaded, ClosedInv, Unlimited
  <2>2. CASE stage' = "run" /\ abort' = abort
    BY <1>1, <2>1, <2>2, QuietStep
  <2>3. CASE stage' = "done"
    BY <1>1, <2>1, <2>3 DEF ClosedInv, Closed, Unlimited, FailStep, limitVars
  <2> QED
    BY <1>7, <2>2, <2>3 DEF ImportLoaded
<1>8. CASE StartRequest
  BY <1>1, <1>3, <1>8, QuietStep DEF StartRequest
<1>9. CASE RequestLoaded
  <2>1. stage = "load" /\ ~ Tripped /\ tripped' = tripped
    BY <1>1, <1>9 DEF RequestLoaded, ClosedInv, Unlimited
  <2>2. CASE Late(0) /\ opsOut' = opsOut
    BY <1>3, <2>1, <2>2 DEF limitVars
  <2>3. CASE Evaluate("run") /\ opsOut' = opsOut
    BY <1>1, <2>1, <2>3, QuietStep DEF Evaluate, limitVars
  <2>4. CASE Evaluate("ran") /\ opsOut' = TRUE
    BY <1>1, <2>1, <2>4 DEF Evaluate, ClosedInv, Closed, Unlimited, FailStep
  <2>5. CASE Evaluate("ran") /\ opsOut' = opsOut
    BY <1>1, <2>1, <2>5, QuietStep DEF Evaluate, limitVars
  <2> QED
    BY <1>9, <2>2, <2>3, <2>4, <2>5 DEF RequestLoaded
<1>10. CASE Idle
  BY <1>1, <1>10, QuietStep DEF Idle
<1>11. CASE NextTimer
  <2>1. stage = "loop" /\ ~ Tripped /\ UNCHANGED limitVars
    BY <1>11 DEF NextTimer
  <2>2. CASE Late(0)
    BY <1>3, <2>1, <2>2
  <2>3. CASE \E id \in Ids : IsFirst(id) /\ OverTime(id) /\ GiveUp("virtualTime", 0) /\ UNCHANGED timerVars
    BY <1>2, <2>1, <2>3 DEF limitVars, AbortKinds, EngineAborts
  <2>4. CASE \E id \in Ids : IsFirst(id) /\ ~ OverTime(id) /\ OverFires
                               /\ GiveUp("timerFires", 0) /\ UNCHANGED timerVars
    BY <1>2, <2>1, <2>4 DEF limitVars, AbortKinds, EngineAborts
  <2>5. CASE stage' = "load" /\ abort' = abort
    BY <1>1, <2>1, <2>5, QuietStep
  <2> QED
    BY <1>11, <2>2, <2>3, <2>4, <2>5 DEF NextTimer
<1>12. CASE RunTimer
  <2>1. stage = "load" /\ ~ Tripped /\ tripped' = tripped
    BY <1>1, <1>12 DEF RunTimer, ClosedInv, Unlimited
  <2>2. CASE Late(0) /\ opsOut' = opsOut
    BY <1>3, <2>1, <2>2 DEF limitVars
  <2>3. CASE opsOut' = TRUE /\ GiveUp("resourceLimit", 0)
    BY <1>2, <2>1, <2>3 DEF AbortKinds, EngineAborts
  <2>4. CASE (Evaluate("run") \/ Evaluate("drain")) /\ opsOut' = opsOut
    BY <1>1, <2>1, <2>4, QuietStep DEF Evaluate, limitVars
  <2> QED
    BY <1>12, <2>2, <2>3, <2>4 DEF RunTimer
<1> QED
  BY <1>4, <1>5, <1>6, <1>7, <1>8, <1>9, <1>10, <1>11, <1>12

\* What an import is refused for is a reason to abort.
LEMMA DoomedStays ==
  ASSUME DoomedOK, [Next]_vars
  PROVE  DoomedOK'
<1>1. CASE UNCHANGED vars
  BY <1>1 DEF vars, runVars, DoomedOK
<1>2. CASE ImportLoaded
  BY <1>2 DEF ImportLoaded, DoomedOK, EngineAborts
<1>3. ASSUME doomed' \in {doomed, "none"}
      PROVE  DoomedOK'
  BY <1>3 DEF DoomedOK
<1>4. CASE PageCode
  BY <1>3, <1>4 DEF PageCode, OpsRunOut, TripLimit, SetTimer, SetDirectly, ClearTimer, ClearDirectly,
                    QueueMicrotask, Request, CancelRequest, CancelDirectly, Import, runVars
<1>5. CASE Install \/ Script \/ ScriptsEnd \/ Lifecycle \/ LifecycleEnds
  BY <1>3, <1>5 DEF Install, Script, ScriptsEnd, Lifecycle, LifecycleEnds
<1>6. CASE Microtask \/ MicrotaskEnds \/ Returns \/ Stopped
  BY <1>3, <1>6 DEF Microtask, MicrotaskEnds, Returns, Stopped, GiveUp, Late, Evaluate
<1>7. CASE ScriptRan \/ ImportRan \/ RequestRan \/ Drained \/ TimerRan
  BY <1>3, <1>7 DEF ScriptRan, ImportRan, RequestRan, Drained, TimerRan, Checkpoint,
                    GoOn, GiveUp, Late, Evaluate
<1>8. CASE LoopTrips \/ TakeImports \/ StartImport \/ StartRequest \/ RequestLoaded
  BY <1>3, <1>8 DEF LoopTrips, TakeImports, StartImport, StartRequest, RequestLoaded,
                    GiveUp, Late, Evaluate, runVars
<1>9. CASE Idle \/ NextTimer \/ RunTimer
  BY <1>3, <1>9 DEF Idle, NextTimer, RunTimer, GiveUp, Late, Evaluate
<1>10. CASE Finished
  BY <1>3, <1>10 DEF Finished, vars, runVars
<1> QED
  BY <1>1, <1>2, <1>4, <1>5, <1>6, <1>7, <1>8, <1>9, <1>10 DEF Next, Runner

\* One step.
LEMMA StepCloses ==
  ASSUME ClosedInv, DoomedOK, [Next]_vars
  PROVE  ClosedInv' /\ FailStep
<1>1. CASE UNCHANGED vars
  BY <1>1 DEF vars, runVars, limitVars, ClosedInv, Closed, Unlimited, Tripped, FailStep
<1>2. CASE Finished
  BY <1>1, <1>2 DEF Finished
<1> QED
  BY <1>1, <1>2, PageCodeCloses, ScriptsClose, EvaluationsClose, LoopCloses DEF Next, Runner

\* JS-6 (page_runner.rs:1444, 1849): for any page and any limits, the first
\* reason to give a run up stays, no code of the page runs after it, and no
\* script, event, answer or timer begins once a limit was exceeded.
THEOREM RunsFailClosed == Spec => FailClosed
<1>1. Init => ClosedInv /\ DoomedOK
  BY DEF Init, ClosedInv, Closed, Unlimited, Tripped, DoomedOK
<1>2. ClosedInv /\ DoomedOK /\ [Next]_vars => (ClosedInv /\ DoomedOK)'
  BY StepCloses, DoomedStays
<1>3. ClosedInv /\ DoomedOK /\ [Next]_vars
      => [/\ abort # "none" => abort' = abort /\ stage' \notin {"run", "drain", "micro"}
          /\ stage' = "run" /\ stage # "run" => ~ Tripped]_vars
  BY StepCloses DEF FailStep
<1> QED
  BY <1>1, <1>2, <1>3, PTL DEF Spec, FailClosed

-----------------------------------------------------------------------------
(* Every dynamic import is in the report.                                  *)

\* A step that leaves the books and what is at hand alone.
LEMMA BooksUntouched ==
  ASSUME CountInv, UNCHANGED <<imports, requested, counted>>, asked' \in Nat,
         Between', AtImport' <=> AtImport
  PROVE  CountInv'
BY DEF CountInv, Numbers, ImportsCounted

LEMMA PageCodeCounts ==
  ASSUME CountInv, PageCode
  PROVE  CountInv'
<1>1. UNCHANGED <<stage, task, imports, requested, counted>>
  BY DEF PageCode, OpsRunOut, TripLimit, SetTimer, SetDirectly, ClearTimer, ClearDirectly,
         QueueMicrotask, Request, CancelRequest, CancelDirectly, Import, runVars, importVars
<1>2. asked' \in {asked, asked + 1}
  BY DEF PageCode, OpsRunOut, TripLimit, SetTimer, SetDirectly, ClearTimer, ClearDirectly,
         QueueMicrotask, Request, CancelRequest, CancelDirectly, Import, importVars
<1> QED
  BY <1>1, <1>2, BooksUntouched DEF CountInv, Numbers, Between, AtImport

LEMMA ScriptsCount ==
  ASSUME CountInv, Install \/ Script \/ ScriptsEnd \/ Lifecycle \/ LifecycleEnds
  PROVE  CountInv'
<1>1. UNCHANGED importVars /\ stage \in {"install", "script", "event"} /\ task = "none"
  BY DEF Install, Script, ScriptsEnd, Lifecycle, LifecycleEnds, CountInv, Between
<1>2. task' # "import" /\ Between'
  BY <1>1 DEF Install, Script, ScriptsEnd, Lifecycle, LifecycleEnds, Between
<1> QED
  BY <1>1, <1>2, BooksUntouched DEF importVars, CountInv, Numbers, AtImport

LEMMA EvaluationsCount ==
  ASSUME CountInv,
         \/ Microtask \/ MicrotaskEnds \/ Returns \/ Stopped \/ ScriptRan
         \/ ImportRan \/ RequestRan \/ Drained \/ TimerRan
  PROVE  CountInv'
<1>1. ASSUME NEW k, NEW n \in Nat, GiveUp(k, n), n = IF AtImport THEN 1 ELSE 0
      PROVE  CountInv'
  BY <1>1, GivenUpCounts
<1>2. ASSUME NEW n \in Nat, Late(n), n = IF AtImport THEN 1 ELSE 0
      PROVE  CountInv'
  BY <1>1, <1>2 DEF Late
<1>3. ASSUME NEW s \in {"drain", "micro", "ran"}, Evaluate(s), UNCHANGED importVars,
             task = "import" => (s = "ran" <=> stage \in {"load", "run", "ran"})
      PROVE  CountInv'
  BY <1>3, BooksUntouched DEF Evaluate, importVars, CountInv, Numbers, Between, AtImport
<1>4. ASSUME GoOn, UNCHANGED importVars, ~ AtImport
      PROVE  CountInv'
  BY <1>4, GoneOn, BooksUntouched DEF importVars, CountInv, Numbers, Between, AtImport
<1>5. ASSUME Checkpoint, task # "import"
      PROVE  CountInv'
  BY <1>2, <1>3, <1>5 DEF Checkpoint, AtImport
<1>6. CASE Microtask \/ MicrotaskEnds
  BY <1>3, <1>6 DEF Microtask, MicrotaskEnds
<1>7. CASE Returns
  BY <1>2, <1>3, <1>7 DEF Returns, AtImport
<1>8. CASE Stopped
  BY <1>1, <1>8 DEF Stopped, AtImport
<1>9. CASE ScriptRan
  BY <1>1, <1>5, <1>9 DEF ScriptRan, AtImport
<1>10. CASE ImportRan
  <2>1. AtImport
    BY <1>10 DEF ImportRan, AtImport
  <2>2. CASE GiveUp(doomed, 1) \/ Late(1)
    BY <1>1, <1>2, <2>1, <2>2
  <2>3. CASE Evaluate("drain") /\ counted' = counted + 1 /\ UNCHANGED <<asked, imports, requested, tried>>
    BY <2>1, <2>3 DEF Evaluate, CountInv, Numbers, Between, AtImport, ImportsCounted
  <2> QED
    BY <1>10, <2>2, <2>3 DEF ImportRan
<1>11. CASE RequestRan
  BY <1>1, <1>5, <1>11 DEF RequestRan, AtImport
<1>12. CASE Drained
  BY <1>1, <1>2, <1>4, <1>12 DEF Drained, AtImport
<1>13. CASE TimerRan
  BY <1>1, <1>2, <1>4, <1>13 DEF TimerRan, AtImport
<1> QED
  BY <1>6, <1>7, <1>8, <1>9, <1>10, <1>11, <1>12, <1>13

LEMMA LoopCounts ==
  ASSUME CountInv,
         \/ LoopTrips \/ TakeImports \/ StartImport \/ ImportLoaded \/ StartRequest
         \/ RequestLoaded \/ Idle \/ NextTimer \/ RunTimer
  PROVE  CountInv'
<1>1. stage = "loop" => task = "none"
  BY DEF CountInv, Between
<1>2. ASSUME NEW k, GiveUp(k, 0), ~ AtImport
      PROVE  CountInv'
  BY <1>2, GivenUpCounts
<1>3. ASSUME Late(0), ~ AtImport
      PROVE  CountInv'
  BY <1>2, <1>3 DEF Late
<1>4. ASSUME UNCHANGED importVars, stage' \in {"load", "run", "ran", "drain"},
             task' \in {"request", "timer"}, ~ AtImport
      PROVE  CountInv'
  BY <1>4, BooksUntouched DEF importVars, CountInv, Numbers, Between, AtImport
<1>5. CASE LoopTrips
  BY <1>1, <1>2, <1>5 DEF LoopTrips, AtImport
<1>6. CASE TakeImports
  <2>1. CASE GiveUp("engineError", 0)
    BY <1>1, <1>2, <1>6, <2>1 DEF TakeImports, AtImport
  <2>2. CASE /\ requested' = requested + asked /\ imports' = asked /\ asked' = 0
             /\ UNCHANGED <<runVars, counted, tried>>
    BY <1>6, <2>2 DEF TakeImports, runVars, CountInv, Numbers, Between, AtImport, ImportsCounted
  <2> QED
    BY <1>6, <2>1, <2>2 DEF TakeImports
<1>7. CASE StartImport
  <2>1. CASE Late(0)
    BY <1>1, <1>3, <1>7, <2>1 DEF StartImport, AtImport
  <2>2. CASE stage' = "load" /\ task' = "import" /\ imports' = imports - 1
             /\ UNCHANGED <<asked, requested, counted>>
    BY <1>7, <2>2 DEF StartImport, CountInv, Numbers, Between, AtImport, ImportsCounted
  <2> QED
    BY <1>7, <2>1, <2>2 DEF StartImport
<1>8. CASE ImportLoaded
  <2>1. AtImport
    BY <1>8 DEF ImportLoaded, AtImport
  <2>2. CASE stage' = "run" /\ UNCHANGED <<task, asked, imports, requested, counted>>
    BY <2>1, <2>2 DEF CountInv, Numbers, Between, AtImport, ImportsCounted
  <2>3. CASE /\ stage' = "done" /\ task' = "none"
             /\ counted' = counted + 1 + imports /\ imports' = 0
             /\ UNCHANGED <<asked, requested>>
    BY <2>1, <2>3 DEF CountInv, Numbers, Between, AtImport, ImportsCounted
  <2> QED
    BY <1>8, <2>2, <2>3 DEF ImportLoaded
<1>9. CASE StartRequest
  BY <1>1, <1>3, <1>4, <1>9 DEF StartRequest, AtImport
<1>10. CASE RequestLoaded
  BY <1>3, <1>4, <1>10 DEF RequestLoaded, Evaluate, AtImport
<1>11. CASE Idle
  BY <1>1, <1>11, BooksUntouched DEF Idle, importVars, CountInv, Numbers, Between, AtImport
<1>12. CASE NextTimer
  BY <1>1, <1>2, <1>3, <1>4, <1>12 DEF NextTimer, AtImport
<1>13. CASE RunTimer
  BY <1>2, <1>3, <1>4, <1>13 DEF RunTimer, Evaluate, AtImport
<1> QED
  BY <1>5, <1>6, <1>7, <1>8, <1>9, <1>10, <1>11, <1>12, <1>13

LEMMA CountKept ==
  ASSUME CountInv, [Next]_vars
  PROVE  CountInv'
<1>1. CASE UNCHANGED vars
  BY <1>1, BooksUntouched DEF vars, runVars, importVars, CountInv, Numbers, Between, AtImport
<1>2. CASE Finished
  BY <1>1, <1>2 DEF Finished
<1> QED
  BY <1>1, <1>2, PageCodeCounts, ScriptsCount, EvaluationsCount, LoopCounts DEF Next, Runner

\* page_runner.rs:1867: however many imports a page asks for and whichever way
\* the run ends, each one the runner has taken is fulfilled, rejected or pending
\* in the report, but for those in its queue and the one it is at.
THEOREM NoImportLost == Spec => []ImportsCounted
<1>1. Init => CountInv
  BY DEF Init, CountInv, Numbers, Between, ImportsCounted, AtImport
<1>2. CountInv /\ [Next]_vars => CountInv'
  BY CountKept
<1>3. CountInv => ImportsCounted
  BY DEF CountInv
<1> QED
  BY <1>1, <1>2, <1>3, PTL DEF Spec

-----------------------------------------------------------------------------
(* Sequences without repetition.                                           *)

\* A set of numbers that is not empty has a least one.
LEMMA Least ==
  ASSUME NEW T \in SUBSET Nat, T # {}
  PROVE  \E x \in T : \A y \in T : x <= y
<1>1. PICK x \in T : \A y \in T : ~ (<<y, x>> \in OpToRel(<, Nat))
  BY NatLessThanWellFounded, WFMin
<1>2. \A y \in T : ~ (y < x)
  BY <1>1 DEF OpToRel
<1> QED BY <1>2

\* Of an element that occurs once, its place is removed.
LEMMA RemovingFirst ==
  ASSUME NEW S, NEW s \in Seq(S), NEW e, NEW k \in 1 .. Len(s), s[k] = e,
         \A i \in 1 .. Len(s) : s[i] = e => i = k
  PROVE  RemoveFirst(s, e) = RemoveAt(s, k)
<1>1. {i \in 1 .. Len(s) : s[i] = e} = {k}
  OBVIOUS
<1>2. SelectInSeq(s, LAMBDA v : v = e) = Min({k})
  BY <1>1 DEF SelectInSeq
<1>3. Min({k}) = k
  BY DEF Min
<1> QED BY <1>2, <1>3 DEF RemoveFirst

\* What removing and inserting at a place does.
LEMMA Removed ==
  ASSUME NEW S, NEW s \in Seq(S), NEW k \in 1 .. Len(s)
  PROVE  /\ RemoveAt(s, k) \in Seq(S)
         /\ Len(RemoveAt(s, k)) = Len(s) - 1
         /\ \A i \in 1 .. Len(s) - 1 : RemoveAt(s, k)[i] = IF i < k THEN s[i] ELSE s[i + 1]
<1> DEFINE a == SubSeq(s, 1, k - 1)
           b == SubSeq(s, k + 1, Len(s))
<1>0. Len(s) \in Nat
  OBVIOUS
<1>1. a \in Seq(S) /\ Len(a) = k - 1 /\ \A i \in 1 .. k - 1 : a[i] = s[i]
  BY <1>0, SubSeqProperties, ElementOfSeq
<1>2. b \in Seq(S) /\ Len(b) = Len(s) - k /\ \A i \in 1 .. Len(s) - k : b[i] = s[k + i]
  BY <1>0, SubSeqProperties, ElementOfSeq
<1> HIDE DEF a, b
<1>3. /\ a \o b \in Seq(S) /\ Len(a \o b) = Len(a) + Len(b)
      /\ \A i \in 1 .. Len(a) + Len(b) : (a \o b)[i] = IF i <= Len(a) THEN a[i] ELSE b[i - Len(a)]
  BY <1>1, <1>2, ConcatProperties
<1>4. RemoveAt(s, k) = a \o b
  BY DEF RemoveAt, a, b
<1>5. Len(a) + Len(b) = Len(s) - 1
  BY <1>0, <1>1, <1>2
<1>6. ASSUME NEW i \in 1 .. Len(s) - 1
      PROVE  (a \o b)[i] = IF i < k THEN s[i] ELSE s[i + 1]
  <2>1. CASE i < k
    BY <1>0, <1>1, <1>3, <1>5, <2>1
  <2>2. CASE i >= k
    <3>1. i - (k - 1) \in 1 .. Len(s) - k /\ k + (i - (k - 1)) = i + 1
      BY <1>0, <2>2
    <3>2. (a \o b)[i] = b[i - (k - 1)]
      BY <1>0, <1>1, <1>3, <1>5, <2>2
    <3>3. b[i - (k - 1)] = s[k + (i - (k - 1))]
      BY <1>2, <3>1
    <3>4. ~ (i < k)
      BY <1>0, <2>2
    <3> QED BY <3>1, <3>2, <3>3, <3>4
  <2>3. i < k \/ i >= k
    BY <1>0
  <2> QED BY <2>1, <2>2, <2>3
<1> QED BY <1>3, <1>4, <1>5, <1>6

LEMMA Inserted ==
  ASSUME NEW S, NEW s \in Seq(S), NEW k \in 1 .. Len(s) + 1, NEW e \in S
  PROVE  /\ InsertAt(s, k, e) \in Seq(S)
         /\ Len(InsertAt(s, k, e)) = Len(s) + 1
         /\ \A i \in 1 .. Len(s) + 1 :
              InsertAt(s, k, e)[i] = IF i < k THEN s[i] ELSE IF i = k THEN e ELSE s[i - 1]
<1> DEFINE a == SubSeq(s, 1, k - 1)
           b == SubSeq(s, k, Len(s))
           c == a \o <<e>>
<1>0. Len(s) \in Nat
  OBVIOUS
<1>1. a \in Seq(S) /\ Len(a) = k - 1 /\ \A i \in 1 .. k - 1 : a[i] = s[i]
  BY <1>0, SubSeqProperties, ElementOfSeq
<1>2. b \in Seq(S) /\ Len(b) = Len(s) - k + 1 /\ \A i \in 1 .. Len(s) - k + 1 : b[i] = s[k + i - 1]
  BY <1>0, SubSeqProperties, ElementOfSeq
<1>3. <<e>> \in Seq(S) /\ Len(<<e>>) = 1 /\ <<e>>[1] = e
  OBVIOUS
<1> HIDE DEF a, b
<1>4. /\ c \in Seq(S) /\ Len(c) = k
      /\ \A i \in 1 .. k : c[i] = IF i <= k - 1 THEN a[i] ELSE e
  BY <1>0, <1>1, <1>3, ConcatProperties
<1>5. InsertAt(s, k, e) = c \o b
  BY DEF InsertAt, a, b
<1> HIDE DEF c
<1>6. /\ c \o b \in Seq(S) /\ Len(c \o b) = Len(c) + Len(b)
      /\ \A i \in 1 .. Len(c) + Len(b) : (c \o b)[i] = IF i <= Len(c) THEN c[i] ELSE b[i - Len(c)]
  BY <1>2, <1>4, ConcatProperties
<1>7. Len(c) + Len(b) = Len(s) + 1
  BY <1>0, <1>2, <1>4
<1>8. ASSUME NEW i \in 1 .. Len(s) + 1
      PROVE  (c \o b)[i] = IF i < k THEN s[i] ELSE IF i = k THEN e ELSE s[i - 1]
  <2>1. CASE i <= k
    <3>1. (c \o b)[i] = c[i]
      BY <1>0, <1>4, <1>6, <1>7, <2>1
    <3> QED BY <1>0, <1>1, <1>4, <2>1, <3>1
  <2>2. CASE i > k
    <3>1. i - k \in 1 .. Len(s) - k + 1 /\ k + (i - k) - 1 = i - 1
      BY <1>0, <2>2
    <3>2. (c \o b)[i] = b[i - k]
      BY <1>0, <1>4, <1>6, <1>7, <2>2
    <3>3. b[i - k] = s[k + (i - k) - 1]
      BY <1>2, <3>1
    <3>4. ~ (i < k) /\ i # k
      BY <1>0, <2>2
    <3> QED BY <3>1, <3>2, <3>3, <3>4
  <2>3. i <= k \/ i > k
    BY <1>0
  <2> QED BY <2>1, <2>2, <2>3
<1> QED BY <1>5, <1>6, <1>7, <1>8

Distinct(s) == \A i, j \in DOMAIN s : i < j => s[i] # s[j]

\* Removing an element leaves the others, in their order.
LEMMA WithoutElement ==
  ASSUME NEW S, NEW s \in Seq(S), Distinct(s), NEW e, NEW r, r = RemoveFirst(s, e)
  PROVE  /\ r \in Seq(S) /\ ToSet(r) = ToSet(s) \ {e}
         /\ Len(r) = IF e \in ToSet(s) THEN Len(s) - 1 ELSE Len(s)
         /\ \A i, j \in DOMAIN r : i < j =>
              \E m, n \in DOMAIN s : m < n /\ r[i] = s[m] /\ r[j] = s[n]
<1>0. Len(s) \in Nat /\ DOMAIN s = 1 .. Len(s)
  OBVIOUS
<1>1. CASE e \notin ToSet(s)
  <2>1. r = s
    BY <1>0, <1>1 DEF RemoveFirst, ToSet
  <2> QED BY <1>0, <1>1, <2>1
<1>2. CASE e \in ToSet(s)
  <2>1. PICK k \in 1 .. Len(s) : s[k] = e
    BY <1>0, <1>2 DEF ToSet
  <2>2. \A i \in 1 .. Len(s) : s[i] = e => i = k
    BY <1>0, <2>1 DEF Distinct
  <2>3. r = RemoveAt(s, k)
    BY <2>1, <2>2, RemovingFirst
  <2>4. /\ r \in Seq(S) /\ Len(r) = Len(s) - 1 /\ DOMAIN r = 1 .. Len(s) - 1
        /\ \A i \in 1 .. Len(s) - 1 : r[i] = IF i < k THEN s[i] ELSE s[i + 1]
    <3>1. /\ r \in Seq(S) /\ Len(r) = Len(s) - 1
          /\ \A i \in 1 .. Len(s) - 1 : r[i] = IF i < k THEN s[i] ELSE s[i + 1]
      BY <2>3, Removed
    <3>2. DOMAIN r = 1 .. Len(r)
      BY <3>1
    <3> QED
      BY <3>1, <3>2
  <2>5. ToSet(r) = ToSet(s) \ {e}
    <3>1. ASSUME NEW x \in ToSet(r) PROVE x \in ToSet(s) \ {e}
      <4>1. PICK i \in 1 .. Len(s) - 1 : r[i] = x
        BY <2>4, <3>1 DEF ToSet
      <4>2. CASE i < k
        BY <1>0, <2>2, <2>4, <4>1, <4>2 DEF ToSet
      <4>3. CASE ~ (i < k)
        <5>1. x = s[i + 1] /\ i + 1 \in 1 .. Len(s) /\ i + 1 # k
          BY <1>0, <2>4, <4>1, <4>3
        <5> QED BY <1>0, <2>2, <5>1 DEF ToSet
      <4> QED BY <4>2, <4>3
    <3>2. ASSUME NEW x \in ToSet(s) \ {e} PROVE x \in ToSet(r)
      <4>1. PICK i \in 1 .. Len(s) : s[i] = x
        BY <1>0, <3>2 DEF ToSet
      <4>2. i # k
        BY <2>1, <3>2, <4>1
      <4>3. CASE i < k
        <5>1. i \in 1 .. Len(s) - 1 /\ r[i] = x
          BY <1>0, <2>4, <4>1, <4>3
        <5> QED BY <2>4, <5>1 DEF ToSet
      <4>4. CASE i > k
        <5>1. i - 1 \in 1 .. Len(s) - 1 /\ ~ (i - 1 < k) /\ (i - 1) + 1 = i
          BY <1>0, <4>4
        <5>2. r[i - 1] = x
          BY <2>4, <4>1, <5>1
        <5> QED BY <2>4, <5>1, <5>2 DEF ToSet
      <4> QED BY <4>2, <4>3, <4>4
    <3> QED BY <3>1, <3>2
  <2>6. ASSUME NEW i \in DOMAIN r, NEW j \in DOMAIN r, i < j
        PROVE  \E m, n \in DOMAIN s : m < n /\ r[i] = s[m] /\ r[j] = s[n]
    <3> DEFINE m == IF i < k THEN i ELSE i + 1
               n == IF j < k THEN j ELSE j + 1
    <3>1. m \in DOMAIN s /\ n \in DOMAIN s /\ m < n
      BY <1>0, <2>4, <2>6
    <3>2. r[i] = s[m] /\ r[j] = s[n]
      BY <2>4
    <3> QED BY <3>1, <3>2
  <2> QED BY <1>2, <2>4, <2>5, <2>6
<1> QED BY <1>1, <1>2

\* So does taking the first one.
LEMMA WithoutFirst ==
  ASSUME NEW S, NEW s \in Seq(S), Distinct(s), s # <<>>
  PROVE  /\ Tail(s) \in Seq(S) /\ Head(s) \in ToSet(s) /\ Head(s) = s[1] /\ 1 \in DOMAIN s
         /\ ToSet(Tail(s)) = ToSet(s) \ {Head(s)}
         /\ Len(Tail(s)) = Len(s) - 1 /\ DOMAIN Tail(s) = 1 .. Len(s) - 1
         /\ \A i \in DOMAIN Tail(s) : i + 1 \in DOMAIN s /\ Tail(s)[i] = s[i + 1]
<1>0. Len(s) \in Nat /\ DOMAIN s = 1 .. Len(s) /\ Len(s) # 0 /\ Head(s) = s[1]
  OBVIOUS
<1>1. /\ Tail(s) \in Seq(S) /\ Len(Tail(s)) = Len(s) - 1 /\ DOMAIN Tail(s) = 1 .. Len(s) - 1
      /\ \A i \in 1 .. Len(s) - 1 : Tail(s)[i] = s[i + 1]
  BY <1>0, HeadTailProperties
<1>2. \A i \in DOMAIN Tail(s) : i + 1 \in DOMAIN s /\ Tail(s)[i] = s[i + 1]
  BY <1>0, <1>1
<1>3. ASSUME NEW x \in ToSet(Tail(s)) PROVE x \in ToSet(s) \ {Head(s)}
  <2>1. PICK i \in 1 .. Len(s) - 1 : x = s[i + 1]
    BY <1>1, <1>3 DEF ToSet
  <2>2. i + 1 \in DOMAIN s /\ 1 \in DOMAIN s /\ 1 < i + 1
    BY <1>0
  <2> QED BY <1>0, <2>1, <2>2 DEF ToSet, Distinct
<1>4. ASSUME NEW x \in ToSet(s) \ {Head(s)} PROVE x \in ToSet(Tail(s))
  <2>1. PICK i \in 1 .. Len(s) : s[i] = x
    BY <1>0, <1>4 DEF ToSet
  <2>2. i - 1 \in 1 .. Len(s) - 1 /\ (i - 1) + 1 = i
    BY <1>0, <1>4, <2>1
  <2>3. Tail(s)[i - 1] = x
    BY <1>1, <2>1, <2>2
  <2> QED BY <1>1, <2>2, <2>3 DEF ToSet
<1>5. 1 \in DOMAIN s /\ Head(s) \in ToSet(s)
  BY <1>0 DEF ToSet
<1> QED BY <1>0, <1>1, <1>2, <1>3, <1>4, <1>5

-----------------------------------------------------------------------------
(* The timers.                                                             *)

\* No id is there twice, and what is due earlier is in front.
Sorted(s, e) ==
  \A i, j \in DOMAIN s : i < j => s[i] # s[j] /\ e[s[i]].due <= e[s[j]].due

\* There is one place for a new timer: behind the last that is due no later.
LEMMA Place ==
  ASSUME order \in Seq(Ids), Sorted(order, entries), NEW due \in Nat,
         \A i \in DOMAIN order : entries[order[i]].due \in Nat
  PROVE  \E k \in 1 .. Len(order) + 1 :
           /\ \A j \in 1 .. k - 1 : entries[order[j]].due <= due
           /\ \A j \in k .. Len(order) : entries[order[j]].due > due
<1> DEFINE T == {k \in 1 .. Len(order) : entries[order[k]].due > due}
<1>0. Len(order) \in Nat /\ DOMAIN order = 1 .. Len(order)
  OBVIOUS
<1>1. CASE T = {}
  <2>1. ASSUME NEW j \in 1 .. Len(order) PROVE entries[order[j]].due <= due
    <3>1. ~ (entries[order[j]].due > due) /\ entries[order[j]].due \in Nat
      BY <1>0, <1>1
    <3> QED
      BY <3>1
  <2>2. Len(order) + 1 \in 1 .. Len(order) + 1 /\ (Len(order) + 1) - 1 = Len(order)
    BY <1>0
  <2>3. ~ \E j \in Len(order) + 1 .. Len(order) : TRUE
    BY <1>0
  <2> QED
    BY <2>1, <2>2, <2>3
<1>2. CASE T # {}
  <2>0. T \in SUBSET Nat
    OBVIOUS
  <2>1. PICK k \in T : \A j \in T : k <= j
    BY <1>2, <2>0, Least
  <2>2. ASSUME NEW j \in 1 .. k - 1 PROVE entries[order[j]].due <= due
    <3>1. j \in 1 .. Len(order) /\ ~ (k <= j)
      BY <1>0
    <3>2. ~ (entries[order[j]].due > due) /\ entries[order[j]].due \in Nat
      BY <1>0, <2>1, <3>1
    <3> QED
      BY <3>2
  <2>3. ASSUME NEW j \in k .. Len(order) PROVE entries[order[j]].due > due
    <3>1. j \in DOMAIN order /\ k \in DOMAIN order /\ (k < j \/ k = j)
      BY <1>0, <2>1
    <3>2. entries[order[k]].due <= entries[order[j]].due
      BY <3>1 DEF Sorted
    <3>3. entries[order[k]].due > due
      BY <2>1
    <3> QED
      BY <3>1, <3>2, <3>3
  <2> QED
    BY <1>0, <2>1, <2>2, <2>3
<1> QED
  BY <1>1, <1>2

\* Inserting keeps the order, whatever else has happened to the entries.
LEMMA InsertKeeps ==
  ASSUME order \in Seq(Ids), Sorted(order, entries),
         \A i \in DOMAIN order : entries[order[i]].due \in Nat,
         NEW id \in Ids, id \notin ToSet(order), NEW due \in Nat,
         NEW e, e[id].due = due, \A x \in ToSet(order) : e[x].due = entries[x].due,
         NEW s, s = Insert(id, due)
  PROVE  s \in Seq(Ids) /\ ToSet(s) = ToSet(order) \cup {id} /\ Sorted(s, e)
<1>0. Len(order) \in Nat /\ DOMAIN order = 1 .. Len(order)
  OBVIOUS
<1> DEFINE Fits(k) ==
             /\ \A j \in 1 .. k - 1 : entries[order[j]].due <= due
             /\ \A j \in k .. Len(order) : entries[order[j]].due > due
           place == CHOOSE k \in 1 .. Len(order) + 1 : Fits(k)
<1>1. \E k \in 1 .. Len(order) + 1 : Fits(k)
  BY Place
<1>2. place \in 1 .. Len(order) + 1 /\ Fits(place)
  BY <1>1
<1>3. s = InsertAt(order, place, id)
  BY DEF Insert
<1> HIDE DEF place
<1>4. PICK k \in 1 .. Len(order) + 1 : Fits(k) /\ s = InsertAt(order, k, id)
  BY <1>2, <1>3
<1>5. /\ s \in Seq(Ids) /\ Len(s) = Len(order) + 1 /\ DOMAIN s = 1 .. Len(order) + 1
      /\ \A i \in 1 .. Len(order) + 1 :
           s[i] = IF i < k THEN order[i] ELSE IF i = k THEN id ELSE order[i - 1]
  <2>1. s = InsertAt(order, k, id)
    BY <1>4
  <2> DEFINE t == InsertAt(order, k, id)
  <2>2. /\ t \in Seq(Ids) /\ Len(t) = Len(order) + 1
        /\ \A i \in 1 .. Len(order) + 1 :
             t[i] = IF i < k THEN order[i] ELSE IF i = k THEN id ELSE order[i - 1]
    BY Inserted
  <2> HIDE DEF t
  <2>3. /\ s \in Seq(Ids) /\ Len(s) = Len(order) + 1
        /\ \A i \in 1 .. Len(order) + 1 :
             s[i] = IF i < k THEN order[i] ELSE IF i = k THEN id ELSE order[i - 1]
    BY <2>1, <2>2 DEF t
  <2>4. DOMAIN s = 1 .. Len(s)
    BY <2>3
  <2> QED
    BY <2>3, <2>4
<1>6. ASSUME NEW x \in ToSet(s) PROVE x \in ToSet(order) \cup {id}
  <2>1. PICK i \in 1 .. Len(order) + 1 : s[i] = x
    BY <1>5, <1>6 DEF ToSet
  <2>2. i < k => i \in DOMAIN order
    BY <1>0
  <2>3. i > k => i - 1 \in DOMAIN order
    BY <1>0
  <2>4. i < k \/ i = k \/ (~ (i < k) /\ i # k /\ i > k)
    BY <1>0
  <2> QED
    BY <1>5, <2>1, <2>2, <2>3, <2>4 DEF ToSet
<1>7. ASSUME NEW x \in ToSet(order) \cup {id} PROVE x \in ToSet(s)
  <2>1. CASE x = id
    <3>1. s[k] = id /\ k \in DOMAIN s
      BY <1>0, <1>5
    <3> QED
      BY <2>1, <3>1 DEF ToSet
  <2>2. CASE x \in ToSet(order)
    <3>1. PICK i \in 1 .. Len(order) : order[i] = x
      BY <1>0, <2>2 DEF ToSet
    <3>2. CASE i < k
      <4>1. i \in DOMAIN s /\ s[i] = x
        BY <1>0, <1>5, <3>1, <3>2
      <4> QED
        BY <4>1 DEF ToSet
    <3>3. CASE i >= k
      <4>1. i + 1 \in 1 .. Len(order) + 1 /\ ~ (i + 1 < k) /\ i + 1 # k /\ (i + 1) - 1 = i
        BY <1>0, <3>3
      <4>2. s[i + 1] = x
        BY <1>5, <3>1, <4>1
      <4> QED
        BY <1>5, <4>1, <4>2 DEF ToSet
    <3> QED
      BY <1>0, <3>2, <3>3
  <2> QED
    BY <2>1, <2>2
<1>8. ASSUME NEW i \in DOMAIN order PROVE e[order[i]].due = entries[order[i]].due /\ order[i] # id
  BY DEF ToSet
<1>9. ASSUME NEW i \in DOMAIN s, NEW j \in DOMAIN s, i < j
      PROVE  s[i] # s[j] /\ e[s[i]].due <= e[s[j]].due
  <2>0. i \in 1 .. Len(order) + 1 /\ j \in 1 .. Len(order) + 1
    BY <1>5
  <2>1. CASE j < k
    <3>1. i \in DOMAIN order /\ j \in DOMAIN order /\ i < k /\ s[i] = order[i] /\ s[j] = order[j]
      BY <1>0, <1>5, <1>9, <2>0, <2>1
    <3> QED
      BY <1>8, <1>9, <3>1 DEF Sorted
  <2>2. CASE j = k
    <3>1. i \in DOMAIN order /\ i \in 1 .. k - 1 /\ s[i] = order[i] /\ s[j] = id
      BY <1>0, <1>5, <1>9, <2>0, <2>2
    <3> QED
      BY <1>4, <1>8, <3>1
  <2>3. CASE j > k
    <3>1. j - 1 \in DOMAIN order /\ j - 1 \in k .. Len(order) /\ ~ (j < k) /\ j # k
      BY <1>0, <2>0, <2>3
    <3>2. s[j] = order[j - 1] /\ entries[order[j - 1]].due > due
      BY <1>4, <1>5, <2>0, <3>1
    <3>3. CASE i < k
      <4>1. i \in DOMAIN order /\ s[i] = order[i] /\ i < j - 1
        BY <1>0, <1>5, <2>0, <2>3, <3>3
      <4> QED
        BY <1>8, <3>1, <3>2, <4>1 DEF Sorted
    <3>4. CASE i = k
      <4>1. s[i] = id
        BY <1>5, <2>0, <3>4
      <4>2. entries[order[j - 1]].due \in Nat
        BY <3>1
      <4> QED
        BY <1>8, <3>1, <3>2, <4>1, <4>2
    <3>5. CASE i > k
      <4>1. i - 1 \in DOMAIN order /\ i - 1 < j - 1 /\ ~ (i < k) /\ i # k
        BY <1>0, <1>9, <2>0, <3>5
      <4>2. s[i] = order[i - 1]
        BY <1>5, <2>0, <4>1
      <4> QED
        BY <1>8, <3>1, <3>2, <4>1, <4>2 DEF Sorted
    <3> QED
      BY <1>0, <2>0, <3>3, <3>4, <3>5
  <2> QED
    BY <1>0, <2>0, <2>1, <2>2, <2>3
<1> QED
  BY <1>5, <1>6, <1>7, <1>9 DEF Sorted

\* The queue by itself: what waits is registered, sorted and not over.
QueueOK ==
  /\ order \in Seq(Ids) /\ Pending \subseteq 1 .. lastId
  /\ \A i \in Pending : entries[i] \in [due : Nat, delay : Delays, repeat : BOOLEAN, direct : BOOLEAN]
  /\ armed \in Ids \cup {NoTimer}
  /\ lastId \in 0 .. MaxIds /\ now \in Nat /\ fired \in 0 .. MaxFires
  /\ ToSet(order) \subseteq Pending /\ Sorted(order, entries)
  /\ \A i \in ToSet(order) : now <= entries[i].due

\* Nothing but the timer that runs is registered and does not wait.
HandOK ==
  /\ abort = "none" => ToSet(order) = Pending \ (IF task = "timer" THEN {hand} ELSE {})
  /\ task = "timer" => hand \in 1 .. lastId /\ (hand \in Pending => entries[hand].repeat)

LEMMA Waits ==
  ASSUME QueueOK
  PROVE  /\ Pending \subseteq Ids
         /\ \A i \in Pending : /\ entries[i].due \in Nat /\ entries[i].delay \in Nat
                               /\ entries[i].repeat \in BOOLEAN
         /\ \A i \in DOMAIN order : order[i] \in ToSet(order) /\ order[i] \in Pending
                                    /\ entries[order[i]].due \in Nat
<1>1. Pending \subseteq Ids
  BY TimerBoundsAssumption DEF QueueOK, Ids
<1>2. ASSUME NEW i \in Pending
      PROVE  entries[i].due \in Nat /\ entries[i].delay \in Nat /\ entries[i].repeat \in BOOLEAN
  <2>1. entries[i] \in [due : Nat, delay : Delays, repeat : BOOLEAN, direct : BOOLEAN]
    BY DEF QueueOK
  <2>2. entries[i].due \in Nat /\ entries[i].delay \in Delays /\ entries[i].repeat \in BOOLEAN
    BY <2>1
  <2> QED
    BY <2>2, TimerBoundsAssumption
<1>3. \A i \in DOMAIN order : order[i] \in ToSet(order)
  BY DEF ToSet
<1> QED
  BY <1>1, <1>2, <1>3 DEF QueueOK

LEMMA Registers ==
  ASSUME QueueOK, NEW delay \in Delays, NEW repeat \in BOOLEAN, NEW direct \in BOOLEAN,
         Register(delay, repeat, direct)
  PROVE  /\ QueueOK' /\ lastId' = lastId + 1 /\ lastId + 1 \notin Pending
         /\ Pending' = Pending \cup {lastId + 1}
         /\ Entrusted' = IF direct THEN Entrusted ELSE Entrusted \cup {lastId + 1}
         /\ ToSet(order') = ToSet(order) \cup {lastId + 1}
         /\ \A x \in Pending : entries'[x] = entries[x]
<1> DEFINE id == lastId + 1
           entry == [due |-> now + delay, delay |-> delay, repeat |-> repeat, direct |-> direct]
<1>1. /\ lastId < MaxIds /\ lastId' = id /\ UNCHANGED <<armed, now, fired>>
      /\ entries' = [i \in Pending \cup {id} |-> IF i = id THEN entry ELSE entries[i]]
      /\ order' = Insert(id, now + delay)
  BY DEF Register
<1>2. id \in Ids /\ id \notin Pending /\ id \in 0 .. MaxIds /\ lastId <= id
  BY <1>1, TimerBoundsAssumption DEF QueueOK, Ids
<1>3. now + delay \in Nat /\ now <= now + delay /\ delay \in Nat
  BY TimerBoundsAssumption DEF QueueOK
<1>4. entry \in [due : Nat, delay : Delays, repeat : BOOLEAN, direct : BOOLEAN] /\ entry.due = now + delay
      /\ entry.direct = direct
  BY <1>3
<1> HIDE DEF entry
<1>5. Pending' = Pending \cup {id} /\ entries'[id] = entry
      /\ \A x \in Pending : entries'[x] = entries[x]
  BY <1>1, <1>2 DEF Pending
<1>6. entries'[id].due = now + delay
  BY <1>4, <1>5
<1>13. Entrusted' = IF direct THEN Entrusted ELSE Entrusted \cup {id}
  BY <1>2, <1>4, <1>5 DEF Entrusted
<1> HIDE DEF id
<1>7. order' \in Seq(Ids) /\ ToSet(order') = ToSet(order) \cup {id} /\ Sorted(order', entries')
  <2>1. id \notin ToSet(order) /\ \A x \in ToSet(order) : entries'[x].due = entries[x].due
    BY <1>2, <1>5 DEF QueueOK
  <2>2. order \in Seq(Ids) /\ Sorted(order, entries) /\ \A i \in DOMAIN order : entries[order[i]].due \in Nat
    BY Waits DEF QueueOK
  <2>3. order' = Insert(id, now + delay)
    BY <1>1
  <2> QED
    BY <1>2, <1>3, <1>6, <2>1, <2>2, <2>3, InsertKeeps
<1>8. Pending' \subseteq 1 .. lastId'
  <2>1. id \in 1 .. id /\ 1 .. lastId \subseteq 1 .. id
    BY <1>2 DEF QueueOK, id
  <2> QED
    BY <1>1, <1>5, <2>1 DEF QueueOK
<1>9. \A i \in Pending' : entries'[i] \in [due : Nat, delay : Delays, repeat : BOOLEAN, direct : BOOLEAN]
  BY <1>4, <1>5 DEF QueueOK
<1>10. \A i \in ToSet(order') : now' <= entries'[i].due
  BY <1>1, <1>3, <1>5, <1>6, <1>7 DEF QueueOK
<1>11. armed' \in Ids \cup {NoTimer} /\ lastId' \in 0 .. MaxIds /\ now' \in Nat /\ fired' \in 0 .. MaxFires
  BY <1>1, <1>2 DEF QueueOK
<1>12. QueueOK'
  BY <1>5, <1>7, <1>8, <1>9, <1>10, <1>11 DEF QueueOK
<1> QED
  BY <1>1, <1>2, <1>5, <1>7, <1>12, <1>13 DEF id

\* A queue from which entries were taken is a queue.
LEMMA Fewer ==
  ASSUME QueueOK, Pending' \subseteq Pending, \A x \in Pending' : entries'[x] = entries[x],
         order' \in Seq(Ids), ToSet(order') \subseteq ToSet(order) \cap Pending',
         Sorted(order', entries), lastId' = lastId,
         armed' \in Ids \cup {NoTimer}, now' \in Nat, fired' \in 0 .. MaxFires,
         \A i \in ToSet(order') : now' <= entries[i].due
  PROVE  QueueOK'
<1>1. \A i \in DOMAIN order' : order'[i] \in ToSet(order')
  BY DEF ToSet
<1>2. \A x \in ToSet(order') : entries'[x] = entries[x]
  OBVIOUS
<1>3. \A i \in DOMAIN order' : entries'[order'[i]].due = entries[order'[i]].due
  BY <1>1, <1>2
<1>4. Sorted(order', entries')
  BY <1>3 DEF Sorted
<1>5. \A i \in ToSet(order') : now' <= entries'[i].due
  BY <1>2
<1>6. Pending' \subseteq 1 .. lastId' /\ lastId' \in 0 .. MaxIds
  BY DEF QueueOK
<1>7. \A i \in Pending' : entries'[i] \in [due : Nat, delay : Delays, repeat : BOOLEAN, direct : BOOLEAN]
  BY DEF QueueOK
<1>8. ToSet(order') \subseteq Pending'
  OBVIOUS
<1> QED
  BY <1>4, <1>5, <1>6, <1>7, <1>8 DEF QueueOK

LEMMA Clears ==
  ASSUME QueueOK, NEW id, ClearQueue(id)
  PROVE  /\ QueueOK' /\ Pending' = Pending \ {id} /\ ToSet(order') = ToSet(order) \ {id}
         /\ \A x \in Pending' : entries'[x] = entries[x]
         /\ lastId' = lastId
<1>1. /\ entries' = Restrict(entries, Pending \ {id}) /\ order' = RemoveFirst(order, id)
      /\ UNCHANGED <<armed, lastId, now, fired>>
  BY DEF ClearQueue
<1>2. Pending' = Pending \ {id} /\ \A x \in Pending' : entries'[x] = entries[x]
  BY <1>1 DEF Restrict, Pending
<1>3. /\ order' \in Seq(Ids) /\ ToSet(order') = ToSet(order) \ {id}
      /\ \A i, j \in DOMAIN order' : i < j =>
           \E m, n \in DOMAIN order : m < n /\ order'[i] = order[m] /\ order'[j] = order[n]
  <2>1. order \in Seq(Ids) /\ Distinct(order)
    BY DEF QueueOK, Sorted, Distinct
  <2> QED
    BY <1>1, <2>1, WithoutElement
<1>4. Sorted(order', entries)
  BY <1>3 DEF QueueOK, Sorted
<1>5. ToSet(order') \subseteq ToSet(order) \cap Pending'
  BY <1>2, <1>3 DEF QueueOK
<1>6. \A i \in ToSet(order') : now' <= entries[i].due
  BY <1>1, <1>5 DEF QueueOK
<1>7. armed' \in Ids \cup {NoTimer} /\ now' \in Nat /\ fired' \in 0 .. MaxFires
  BY <1>1 DEF QueueOK
<1>8. QueueOK'
  BY <1>1, <1>2, <1>3, <1>4, <1>5, <1>6, <1>7, Fewer
<1> QED
  BY <1>1, <1>2, <1>3, <1>8

LEMMA Takes ==
  ASSUME QueueOK, NEW id \in Ids, Take(id)
  PROVE  /\ QueueOK' /\ ToSet(order') = ToSet(order) \ {id}
         /\ id \in Pending /\ Pending' \subseteq Pending /\ Pending' \ {id} = Pending \ {id}
         /\ id \in Pending' => entries'[id].repeat
         /\ lastId' = lastId
<1>1. /\ order # <<>> /\ Head(order) = id /\ order' = Tail(order)
      /\ now' = IF entries[id].due > now THEN entries[id].due ELSE now
      /\ fired' = fired + 1 /\ armed' = id /\ lastId' = lastId
      /\ entries' = IF entries[id].repeat THEN entries ELSE Restrict(entries, Pending \ {id})
      /\ ~ (fired >= MaxFires)
  BY DEF Take, IsFirst, OverFires
<1>2. order \in Seq(Ids) /\ Distinct(order)
  BY DEF QueueOK, Sorted, Distinct
<1>3. /\ order' \in Seq(Ids) /\ id \in ToSet(order) /\ id = order[1] /\ 1 \in DOMAIN order
      /\ ToSet(order') = ToSet(order) \ {id}
      /\ DOMAIN order' = 1 .. Len(order) - 1
      /\ \A i \in DOMAIN order' : i + 1 \in DOMAIN order /\ order'[i] = order[i + 1]
  BY <1>1, <1>2, WithoutFirst
<1>4. id \in Pending /\ entries[id].due \in Nat /\ entries[id].repeat \in BOOLEAN /\ now <= entries[id].due
  BY <1>3, Waits DEF QueueOK
<1>5. now' = entries[id].due /\ now' \in Nat
  BY <1>1, <1>4 DEF QueueOK
<1>6. /\ Pending' \subseteq Pending /\ Pending' \ {id} = Pending \ {id}
      /\ \A x \in Pending' : entries'[x] = entries[x]
      /\ id \in Pending' => entries'[id].repeat
  <2>1. CASE entries[id].repeat
    BY <1>1, <2>1 DEF Pending
  <2>2. CASE ~ entries[id].repeat
    <3>1. Pending' = Pending \ {id} /\ \A x \in Pending' : entries'[x] = entries[x]
      BY <1>1, <2>2 DEF Restrict, Pending
    <3> QED
      BY <3>1
  <2> QED
    BY <2>1, <2>2
<1>7. Sorted(order', entries)
  <2>1. ASSUME NEW i \in DOMAIN order', NEW j \in DOMAIN order', i < j
        PROVE  order'[i] # order'[j] /\ entries[order'[i]].due <= entries[order'[j]].due
    <3>1. i + 1 < j + 1
      BY <1>3, <2>1
    <3> QED
      BY <1>3, <3>1 DEF QueueOK, Sorted
  <2> QED
    BY <2>1 DEF Sorted
<1>8. ASSUME NEW x \in ToSet(order') PROVE now' <= entries[x].due
  <2>1. PICK i \in DOMAIN order' : x = order'[i]
    BY DEF ToSet
  <2>2. i + 1 \in DOMAIN order /\ x = order[i + 1] /\ 1 < i + 1
    BY <1>3, <2>1
  <2>3. entries[order[1]].due <= entries[order[i + 1]].due
    BY <1>3, <2>2 DEF QueueOK, Sorted
  <2> QED
    BY <1>3, <1>5, <2>2, <2>3
<1>9. armed' \in Ids \cup {NoTimer} /\ fired' \in 0 .. MaxFires
  BY <1>1, TimerBoundsAssumption DEF QueueOK
<1>10. ToSet(order') \subseteq ToSet(order) \cap Pending'
  BY <1>3, <1>6 DEF QueueOK
<1>11. QueueOK'
  BY <1>1, <1>3, <1>5, <1>6, <1>7, <1>8, <1>9, <1>10, Fewer
<1> QED
  BY <1>1, <1>3, <1>4, <1>6, <1>11

LEMMA Rearms ==
  ASSUME QueueOK, NEW id, Rearm(id)
  PROVE  /\ QueueOK' /\ Pending' = Pending /\ lastId' = lastId
         /\ ToSet(order') = IF id \in Pending /\ entries[id].repeat THEN ToSet(order) \cup {id}
                            ELSE ToSet(order)
<1>1. CASE ~ (id \in Pending /\ entries[id].repeat /\ id \notin ToSet(order))
  <2>1. UNCHANGED queueVars
    BY <1>1 DEF Rearm, queueVars
  <2>2. QueueOK' /\ Pending' = Pending /\ lastId' = lastId /\ order' = order
    BY <2>1 DEF QueueOK, queueVars, Sorted, Pending
  <2> QED
    BY <1>1, <2>2
<1>2. CASE id \in Pending /\ entries[id].repeat /\ id \notin ToSet(order)
  <2> DEFINE due == now + entries[id].delay
  <2>0. order' = Insert(id, due)
    BY <1>2 DEF Rearm
  <2>1. entries' = [entries EXCEPT ![id].due = due] /\ UNCHANGED <<armed, lastId, now, fired>>
    BY <1>2 DEF Rearm
  <2>2. id \in Ids /\ due \in Nat /\ now <= due /\ Pending' = Pending
    BY <1>2, <2>1, Waits DEF QueueOK, Pending
  <2> HIDE DEF due
  <2>3. \A x \in Pending : x # id => entries'[x] = entries[x]
    BY <2>1 DEF Pending
  <2>4. /\ entries'[id] = [entries[id] EXCEPT !.due = due]
        /\ entries[id] \in [due : Nat, delay : Delays, repeat : BOOLEAN, direct : BOOLEAN]
    BY <1>2, <2>1 DEF QueueOK, Pending
  <2>5. entries'[id] \in [due : Nat, delay : Delays, repeat : BOOLEAN, direct : BOOLEAN] /\ entries'[id].due = due
    BY <2>2, <2>4
  <2>6. order' \in Seq(Ids) /\ ToSet(order') = ToSet(order) \cup {id} /\ Sorted(order', entries')
    <3>1. \A x \in ToSet(order) : entries'[x].due = entries[x].due
      BY <1>2, <2>3 DEF QueueOK
    <3>2. order \in Seq(Ids) /\ Sorted(order, entries) /\ \A i \in DOMAIN order : entries[order[i]].due \in Nat
      BY Waits DEF QueueOK
    <3> QED
      BY <1>2, <2>0, <2>2, <2>5, <3>1, <3>2, InsertKeeps
  <2>7. \A i \in Pending' : entries'[i] \in [due : Nat, delay : Delays, repeat : BOOLEAN, direct : BOOLEAN]
    BY <2>2, <2>3, <2>5 DEF QueueOK
  <2>8. \A i \in ToSet(order') : now' <= entries'[i].due
    BY <1>2, <2>1, <2>2, <2>3, <2>5, <2>6 DEF QueueOK
  <2>9. ToSet(order') \subseteq Pending' /\ Pending' \subseteq 1 .. lastId'
    BY <1>2, <2>1, <2>2, <2>6 DEF QueueOK
  <2>10. armed' \in Ids \cup {NoTimer} /\ lastId' \in 0 .. MaxIds /\ now' \in Nat /\ fired' \in 0 .. MaxFires
    BY <2>1 DEF QueueOK
  <2>11. QueueOK'
    BY <2>6, <2>7, <2>8, <2>9, <2>10 DEF QueueOK
  <2> QED
    BY <1>2, <2>1, <2>2, <2>6, <2>11
<1> QED
  BY <1>1, <1>2

\* The table by itself.
Limit == IF 2 * MaxTimers > SweepMin THEN 2 * MaxTimers ELSE SweepMin

ShimOK ==
  /\ table \subseteq 1 .. lastId /\ retained \in Nat /\ retained = Cardinality(table)
  /\ sweepAt \in Nat /\ retained <= sweepAt /\ sweepAt <= Limit
  /\ ~ opsOut => Entrusted \subseteq table
  /\ Cardinality(Pending) <= MaxTimers

LEMMA Finite ==
  ASSUME QueueOK, ShimOK
  PROVE  /\ IsFiniteSet(1 .. lastId) /\ IsFiniteSet(table) /\ IsFiniteSet(Pending)
         /\ Cardinality(Pending) \in Nat
<1>0. 1 \in Int /\ lastId \in Int
  BY TimerBoundsAssumption DEF QueueOK
<1>1. IsFiniteSet(1 .. lastId)
  BY <1>0, FS_Interval
<1>2. IsFiniteSet(table) /\ IsFiniteSet(Pending)
  BY <1>1, FS_Subset DEF QueueOK, ShimOK
<1> QED
  BY <1>1, <1>2, FS_CardinalityType

\* A callback leaves the table; the queue has forgotten about it.
LEMMA Forgets ==
  ASSUME QueueOK, ShimOK, NEW id, Forget(id), Pending' \subseteq Pending, lastId' = lastId,
         Entrusted' \subseteq Entrusted, ~ opsOut' => ~ opsOut /\ id \notin Entrusted'
  PROVE  ShimOK'
<1>1. /\ table' = table \ {id} /\ sweepAt' = sweepAt
      /\ retained' = IF id \in table THEN retained - 1 ELSE retained
  BY DEF Forget
<1>2. Cardinality(table') = IF id \in table THEN Cardinality(table) - 1 ELSE Cardinality(table)
  BY <1>1, Finite, FS_RemoveElement
<1>3. IsFiniteSet(table') /\ Cardinality(table') \in Nat
  BY <1>1, Finite, FS_Subset, FS_CardinalityType
<1>4. retained' \in Nat /\ retained' = Cardinality(table') /\ retained' <= retained
  BY <1>1, <1>2, <1>3 DEF ShimOK
<1>5. Cardinality(Pending') <= MaxTimers
  <2>1. Cardinality(Pending') <= Cardinality(Pending) /\ Cardinality(Pending') \in Nat
    BY Finite, FS_Subset, FS_CardinalityType
  <2> QED
    BY <2>1, Finite, TimerBoundsAssumption DEF ShimOK
<1>6. sweepAt' \in Nat /\ retained' <= sweepAt' /\ sweepAt' <= Limit
  BY <1>1, <1>4 DEF ShimOK
<1>7. table' \subseteq 1 .. lastId'
  BY <1>1 DEF ShimOK
<1>8. ~ opsOut' => Entrusted' \subseteq table'
  BY <1>1 DEF ShimOK
<1> QED
  BY <1>4, <1>5, <1>6, <1>7, <1>8 DEF ShimOK

\* Nothing happens to the table, and the queue does not grow.
LEMMA Leaves ==
  ASSUME QueueOK, ShimOK, UNCHANGED shimVars, Pending' \subseteq Pending, lastId' = lastId,
         Entrusted' \subseteq Entrusted, ~ opsOut' => ~ opsOut
  PROVE  ShimOK'
<1>1. Cardinality(Pending') <= Cardinality(Pending) /\ Cardinality(Pending') \in Nat
  BY Finite, FS_Subset, FS_CardinalityType
<1>2. Cardinality(Pending') <= MaxTimers
  BY <1>1, Finite, TimerBoundsAssumption DEF ShimOK
<1>3. table' = table /\ retained' = retained /\ sweepAt' = sweepAt
  BY DEF shimVars
<1> QED
  BY <1>2, <1>3 DEF ShimOK

\* Of what a sweep keeps the queue still knows: as many timers as may wait at
\* once, and the one that runs.
LEMMA Sweeps ==
  ASSUME QueueOK, ShimOK, ~ opsOut, ~ Full,
         NEW delay \in Delays, NEW repeat \in BOOLEAN, Register(delay, repeat, FALSE),
         NEW lost \in SUBSET table, Keep(lastId', lost), opsOut' = (lost # {})
  PROVE  ShimOK'
<1> DEFINE id == lastId + 1
           kept == {i \in table \ lost : Alive(i)}
           k    == Cardinality(kept)
<1>1. lastId' = id /\ id \notin Pending /\ Pending' = Pending \cup {id} /\ lastId \in Nat
      /\ Entrusted' = Entrusted \cup {id}
  <2>1. /\ lastId' = lastId + 1 /\ lastId + 1 \notin Pending
        /\ Pending' = Pending \cup {lastId + 1}
        /\ Entrusted' = IF FALSE THEN Entrusted ELSE Entrusted \cup {lastId + 1}
    BY Registers
  <2> QED
    BY <2>1 DEF QueueOK
<1>2. id \notin table /\ 1 .. lastId \subseteq 1 .. id /\ id \in 1 .. id
  BY <1>1 DEF ShimOK
<1>3. kept \subseteq table /\ kept \subseteq Pending \cup {armed}
  BY DEF Alive
<1>4. IsFiniteSet(kept) /\ k \in Nat
  BY <1>3, Finite, FS_Subset, FS_CardinalityType
<1>5. Cardinality(Pending) + 1 <= MaxTimers
  BY Finite, TimerBoundsAssumption DEF Full
<1>6. k <= MaxTimers
  <2>0. /\ IsFiniteSet(Pending \cup {armed})
        /\ Cardinality(Pending \cup {armed}) =
             IF armed \in Pending THEN Cardinality(Pending) ELSE Cardinality(Pending) + 1
    <3>1. IsFiniteSet(Pending)
      BY Finite
    <3> QED
      BY <3>1, FS_AddElement
  <2>1. IsFiniteSet(Pending \cup {armed}) /\ Cardinality(Pending \cup {armed}) <= Cardinality(Pending) + 1
    BY <2>0, Finite
  <2>2. k <= Cardinality(Pending \cup {armed}) /\ Cardinality(Pending \cup {armed}) \in Nat
    BY <1>3, <2>1, FS_Subset, FS_CardinalityType
  <2> QED
    BY <1>4, <1>5, <2>1, <2>2, Finite, TimerBoundsAssumption
<1>7. Cardinality(Pending') <= MaxTimers
  <2>1. IsFiniteSet(Pending)
    BY Finite
  <2>2. Cardinality(Pending \cup {id}) = Cardinality(Pending) + 1
    BY <1>1, <2>1, FS_AddElement
  <2> QED
    BY <1>1, <1>5, <2>2
<1>8. ~ opsOut' => Entrusted \subseteq kept /\ Entrusted \subseteq table
  BY DEF Alive, Entrusted, ShimOK
<1>9. Cardinality(kept \cup {id}) = k + 1 /\ Cardinality(table \cup {id}) = Cardinality(table) + 1
  BY <1>2, <1>3, <1>4, Finite, FS_AddElement
<1>10. Keep(id, lost)
  BY <1>1
<1>11. CASE retained >= sweepAt
  <2>1. /\ table' = kept \cup {id} /\ retained' = k + 1
        /\ sweepAt' = IF 2 * k > SweepMin THEN 2 * k ELSE SweepMin
    BY <1>10, <1>11 DEF Keep
  <2> HIDE DEF k, kept
  <2>2. sweepAt' \in Nat /\ retained' <= sweepAt' /\ sweepAt' <= Limit
    BY <1>4, <1>6, <2>1, TimerBoundsAssumption DEF Limit
  <2>3. table' \subseteq 1 .. lastId' /\ (~ opsOut' => Entrusted' \subseteq table')
    BY <1>1, <1>2, <1>3, <1>8, <2>1 DEF ShimOK
  <2>4. retained' \in Nat /\ retained' = Cardinality(table')
    BY <1>4, <1>9, <2>1
  <2> QED
    BY <1>7, <2>2, <2>3, <2>4 DEF ShimOK
<1>12. CASE ~ (retained >= sweepAt)
  <2>1. table' = table \cup {id} /\ retained' = retained + 1 /\ sweepAt' = sweepAt
    BY <1>10, <1>12 DEF Keep
  <2> HIDE DEF k, kept
  <2>2. sweepAt' \in Nat /\ retained' <= sweepAt' /\ sweepAt' <= Limit
    BY <1>12, <2>1 DEF ShimOK
  <2>3. table' \subseteq 1 .. lastId' /\ (~ opsOut' => Entrusted' \subseteq table')
    BY <1>1, <1>2, <1>8, <2>1 DEF ShimOK
  <2>4. retained' \in Nat /\ retained' = Cardinality(table')
    BY <1>9, <2>1 DEF ShimOK
  <2> QED
    BY <1>7, <2>2, <2>3, <2>4 DEF ShimOK
<1> QED
  BY <1>11, <1>12

\* The queue grows by a timer that the shim is not told of.
LEMMA Bypasses ==
  ASSUME QueueOK, ShimOK, ~ opsOut, ~ Full, UNCHANGED <<shimVars, opsOut>>,
         NEW delay \in Delays, NEW repeat \in BOOLEAN, Register(delay, repeat, TRUE)
  PROVE  ShimOK'
<1>1. /\ lastId' = lastId + 1 /\ lastId + 1 \notin Pending /\ Pending' = Pending \cup {lastId + 1}
      /\ Entrusted' = Entrusted /\ lastId \in Nat
  <2>1. /\ lastId' = lastId + 1 /\ lastId + 1 \notin Pending
        /\ Pending' = Pending \cup {lastId + 1}
        /\ Entrusted' = IF TRUE THEN Entrusted ELSE Entrusted \cup {lastId + 1}
    BY Registers
  <2> QED
    BY <2>1 DEF QueueOK
<1>2. 1 .. lastId \subseteq 1 .. lastId'
  BY <1>1
<1>3. Cardinality(Pending) + 1 <= MaxTimers
  BY Finite, TimerBoundsAssumption DEF Full
<1>4. Cardinality(Pending') <= MaxTimers
  <2>1. IsFiniteSet(Pending)
    BY Finite
  <2>2. Cardinality(Pending \cup {lastId + 1}) = Cardinality(Pending) + 1
    BY <1>1, <2>1, FS_AddElement
  <2> QED
    BY <1>1, <1>3, <2>2
<1>5. table' = table /\ retained' = retained /\ sweepAt' = sweepAt /\ opsOut' = opsOut
  BY DEF shimVars
<1> QED
  BY <1>1, <1>2, <1>4, <1>5 DEF ShimOK

\* The operations of a page that ran out do not come back.
LEMMA OpsStay ==
  ASSUME ClosedInv, [Next]_vars
  PROVE  opsOut => opsOut'
<1> SUFFICES ASSUME opsOut PROVE opsOut'
  OBVIOUS
<1>0. opsOut = TRUE
  BY DEF ClosedInv
<1>1. CASE UNCHANGED vars \/ Finished
  BY <1>0, <1>1 DEF Finished, vars, limitVars
<1>2. CASE PageCode
  BY <1>0, <1>2 DEF PageCode, OpsRunOut, TripLimit, SetTimer, SetDirectly, ClearTimer, ClearDirectly,
                    QueueMicrotask, Request, CancelRequest, CancelDirectly, Import, limitVars
<1>3. CASE Install \/ Script \/ ScriptsEnd \/ Lifecycle \/ LifecycleEnds
  BY <1>0, <1>3 DEF Install, Script, ScriptsEnd, Lifecycle, LifecycleEnds, limitVars
<1>4. CASE Microtask \/ MicrotaskEnds \/ Returns \/ Stopped \/ ScriptRan \/ ImportRan
  BY <1>0, <1>4 DEF Microtask, MicrotaskEnds, Returns, Stopped, ScriptRan, ImportRan, limitVars
<1>5. CASE RequestRan \/ Drained \/ TimerRan \/ LoopTrips \/ TakeImports \/ StartImport \/ ImportLoaded
  BY <1>0, <1>5 DEF RequestRan, Drained, TimerRan, LoopTrips, TakeImports, StartImport,
                    ImportLoaded, limitVars
<1>6. CASE StartRequest \/ RequestLoaded \/ Idle \/ NextTimer \/ RunTimer
  BY <1>0, <1>6 DEF StartRequest, RequestLoaded, Idle, NextTimer, RunTimer, limitVars
<1> QED
  BY <1>1, <1>2, <1>3, <1>4, <1>5, <1>6 DEF Next, Runner

\* Nothing happens to the queue, and the same timer runs; or the run ends.
QueueLeft ==
  /\ UNCHANGED queueVars
  /\ abort' = "none" => abort = "none" /\ (task' = "timer" <=> task = "timer")
  /\ task' = "timer" => task = "timer" /\ hand' = hand

\* The timer that runs, or none.
AtTimer == IF task = "timer" THEN {hand} ELSE {}

\* What is to be shown of a step.
QueueStep == QueueOK' /\ HandOK'

LEMMA LeftAlone ==
  ASSUME QueueOK, HandOK, QueueLeft
  PROVE  QueueStep
<1>1. UNCHANGED <<entries, order, armed, lastId, now, fired>> /\ Pending' = Pending
  BY DEF QueueLeft, queueVars, Pending
<1>2. QueueOK'
  BY <1>1 DEF QueueOK, Sorted
<1>3. HandOK'
  BY <1>1 DEF HandOK, QueueLeft
<1> QED
  BY <1>2, <1>3 DEF QueueStep

LEMMA EndedQueue ==
  ASSUME QueueOK, HandOK, NEW k, NEW n, GiveUp(k, n), k # "none", UNCHANGED queueVars
  PROVE  QueueStep
<1>1. QueueLeft
  BY GivenUp DEF QueueLeft
<1> QED
  BY <1>1, LeftAlone

\* Steps that have to do with the timers in no way.
LEMMA QueueElsewhere ==
  ASSUME ClosedInv, DoomedOK, Between, QueueOK, HandOK,
         \/ Install \/ Script \/ ScriptsEnd \/ Lifecycle \/ LifecycleEnds
         \/ OpsRunOut \/ TripLimit \/ QueueMicrotask \/ Request \/ CancelRequest \/ CancelDirectly \/ Import
         \/ Microtask \/ MicrotaskEnds \/ Returns \/ Stopped \/ ScriptRan \/ ImportRan
         \/ RequestRan \/ Drained
         \/ LoopTrips \/ TakeImports \/ StartImport \/ ImportLoaded \/ StartRequest
         \/ RequestLoaded \/ Idle \/ Finished \/ UNCHANGED vars
  PROVE  QueueStep
<1>0. UNCHANGED timerVars
  BY DEF Install, Script, ScriptsEnd, Lifecycle, LifecycleEnds, OpsRunOut, TripLimit,
         QueueMicrotask, Request, CancelRequest, CancelDirectly, Import, Microtask, MicrotaskEnds, Returns,
         Stopped, ScriptRan, ImportRan, RequestRan, Drained, LoopTrips, TakeImports,
         StartImport, ImportLoaded, StartRequest, RequestLoaded, Idle, Finished, vars
<1>1. UNCHANGED queueVars
  BY <1>0 DEF timerVars
<1>2. ASSUME NEW k \in AbortKinds, NEW n, GiveUp(k, n) PROVE QueueStep
  BY <1>1, <1>2, EndedQueue DEF AbortKinds, EngineAborts
<1>3. ASSUME NEW n, Late(n) PROVE QueueStep
  BY <1>2, <1>3 DEF Late, AbortKinds, EngineAborts
<1>4. ASSUME NEW t, Evaluate(t) PROVE QueueStep
  BY <1>1, <1>4, LeftAlone DEF Evaluate, QueueLeft
<1>5. ASSUME abort' = "none" => abort = "none", task # "timer", task' # "timer" PROVE QueueStep
  BY <1>1, <1>5, LeftAlone DEF QueueLeft
<1>6. CASE OpsRunOut \/ TripLimit \/ QueueMicrotask \/ Request \/ CancelRequest \/ CancelDirectly \/ Import
           \/ Finished \/ UNCHANGED vars
  <2>1. UNCHANGED runVars
    BY <1>6 DEF OpsRunOut, TripLimit, QueueMicrotask, Request, CancelRequest, CancelDirectly, Import, Finished, vars
  <2> QED
    BY <1>1, <2>1, LeftAlone DEF runVars, QueueLeft
<1>7. CASE Install \/ Script \/ ScriptsEnd \/ Lifecycle \/ LifecycleEnds
  <2>1. task # "timer" /\ task' # "timer" /\ (abort' = "none" => abort = "none")
    BY <1>7 DEF Install, Script, ScriptsEnd, Lifecycle, LifecycleEnds, Between, EngineAborts
  <2> QED
    BY <1>5, <2>1
<1>8. CASE Microtask \/ MicrotaskEnds
  BY <1>4, <1>8 DEF Microtask, MicrotaskEnds
<1>9. CASE Returns
  BY <1>3, <1>4, <1>9 DEF Returns
<1>10. CASE Stopped
  BY <1>2, <1>10 DEF Stopped, DoomedOK, AbortKinds
<1>11. CASE ScriptRan \/ RequestRan
  BY <1>2, <1>3, <1>4, <1>11 DEF ScriptRan, RequestRan, Checkpoint, AbortKinds, EngineAborts
<1>12. CASE ImportRan
  BY <1>2, <1>3, <1>4, <1>12 DEF ImportRan, DoomedOK, AbortKinds
<1>13. CASE Drained
  <2>1. CASE GoOn
    BY <1>5, <1>13, <2>1, GoneOn DEF Drained
  <2> QED
    BY <1>2, <1>3, <1>13, <2>1 DEF Drained, AbortKinds, EngineAborts
<1>14. CASE LoopTrips
  BY <1>2, <1>14 DEF LoopTrips, AbortKinds, EngineAborts
<1>15. CASE TakeImports
  <2>1. CASE UNCHANGED runVars
    BY <1>1, <2>1, LeftAlone DEF runVars, QueueLeft
  <2> QED
    BY <1>2, <1>15, <2>1 DEF TakeImports, AbortKinds, EngineAborts
<1>16. CASE StartImport
  BY <1>3, <1>5, <1>16 DEF StartImport, Between
<1>17. CASE ImportLoaded
  BY <1>5, <1>17 DEF ImportLoaded, EngineAborts
<1>18. CASE StartRequest
  BY <1>3, <1>5, <1>18 DEF StartRequest, Between
<1>19. CASE RequestLoaded
  BY <1>3, <1>4, <1>19 DEF RequestLoaded
<1>20. CASE Idle
  BY <1>5, <1>20 DEF Idle, Between
<1> QED
  BY <1>6, <1>7, <1>8, <1>9, <1>10, <1>11, <1>12, <1>13, <1>14, <1>15, <1>16, <1>17, <1>18, <1>19, <1>20

\* Steps of the page, its callbacks and the loop that do.
LEMMA QueueOfPage ==
  ASSUME QueueOK, HandOK, SetTimer \/ SetDirectly \/ ClearTimer \/ ClearDirectly
  PROVE  QueueStep
<1>0. UNCHANGED <<task, hand, abort>>
  BY DEF SetTimer, SetDirectly, ClearTimer, ClearDirectly, runVars
<1>1. ASSUME UNCHANGED queueVars PROVE QueueStep
  BY <1>0, <1>1, LeftAlone DEF QueueLeft
<1>2. ASSUME NEW id, ClearQueue(id) PROVE QueueStep
  <2>1. /\ QueueOK' /\ Pending' = Pending \ {id} /\ ToSet(order') = ToSet(order) \ {id}
        /\ \A x \in Pending' : entries'[x] = entries[x]
        /\ lastId' = lastId
    BY <1>2, Clears
  <2>2. HandOK'
    BY <1>0, <2>1 DEF HandOK
  <2> QED
    BY <2>1, <2>2 DEF QueueStep
<1>3. ASSUME NEW delay \in Delays, NEW repeat \in BOOLEAN, NEW direct \in BOOLEAN,
             Register(delay, repeat, direct)
      PROVE  QueueStep
  <2>1. /\ QueueOK' /\ lastId' = lastId + 1 /\ lastId + 1 \notin Pending
        /\ Pending' = Pending \cup {lastId + 1}
        /\ ToSet(order') = ToSet(order) \cup {lastId + 1}
        /\ \A x \in Pending : entries'[x] = entries[x]
    BY <1>3, Registers
  <2>2. lastId \in Nat
    BY DEF QueueOK
  <2>3. task = "timer" => hand # lastId + 1 /\ hand \in 1 .. lastId + 1
    BY <2>2 DEF HandOK
  <2>4. HandOK'
    BY <1>0, <2>1, <2>3 DEF HandOK
  <2> QED
    BY <2>1, <2>4 DEF QueueStep
<1>4. CASE SetTimer
  <2>1. CASE UNCHANGED timerVars
    BY <1>1, <2>1 DEF timerVars
  <2> QED
    BY <1>3, <1>4, <2>1 DEF SetTimer
<1>5. CASE ClearTimer
  BY <1>1, <1>2, <1>5 DEF ClearTimer
<1>6. CASE ClearDirectly
  BY <1>2, <1>6 DEF ClearDirectly
<1>7. CASE SetDirectly
  BY <1>1, <1>3, <1>7 DEF SetDirectly
<1> QED
  BY <1>4, <1>5, <1>6, <1>7

LEMMA QueueOfLoop ==
  ASSUME ClosedInv, Between, QueueOK, HandOK, TimerRan \/ NextTimer \/ RunTimer
  PROVE  QueueStep
<1>1. abort = "none"
  BY DEF TimerRan, NextTimer, RunTimer, ClosedInv, Closed
<1>2. ASSUME NEW k \in AbortKinds, NEW n, GiveUp(k, n), UNCHANGED queueVars PROVE QueueStep
  BY <1>2, EndedQueue DEF AbortKinds, EngineAborts
<1>3. ASSUME NEW k \in AbortKinds, NEW n, GiveUp(k, n), UNCHANGED timerVars PROVE QueueStep
  BY <1>2, <1>3 DEF timerVars
<1>4. {"wallTime", "resourceLimit", "virtualTime", "timerFires"} \subseteq AbortKinds
  BY DEF AbortKinds, EngineAborts
<1>5. ASSUME GoOn, Rearm(hand), task = "timer" PROVE QueueStep
  <2>1. /\ QueueOK' /\ Pending' = Pending /\ lastId' = lastId
        /\ ToSet(order') = IF hand \in Pending /\ entries[hand].repeat THEN ToSet(order) \cup {hand}
                           ELSE ToSet(order)
    BY <1>5, Rearms
  <2>2. ToSet(order) = Pending \ {hand} /\ (hand \in Pending => entries[hand].repeat)
    BY <1>1, <1>5 DEF HandOK
  <2>3. ToSet(order') = Pending'
    BY <2>1, <2>2
  <2>4. task' = "none"
    BY <1>5 DEF GoOn
  <2> QED
    BY <2>1, <2>3, <2>4 DEF HandOK, QueueStep
<1>6. ASSUME NEW id \in Ids, Take(id), task' = "timer", hand' = id, task = "none" PROVE QueueStep
  <2>1. /\ QueueOK' /\ ToSet(order') = ToSet(order) \ {id}
        /\ id \in Pending /\ Pending' \subseteq Pending /\ Pending' \ {id} = Pending \ {id}
        /\ id \in Pending' => entries'[id].repeat
        /\ lastId' = lastId
    BY <1>6, Takes
  <2>2. ToSet(order) = Pending /\ Pending \subseteq 1 .. lastId
    BY <1>1, <1>6 DEF HandOK, QueueOK
  <2> QED
    BY <1>6, <2>1, <2>2 DEF HandOK, QueueStep
<1>7. ASSUME Consume(hand), UNCHANGED <<task, hand, abort>> PROVE QueueStep
  <2>1. UNCHANGED <<entries, order, lastId, now, fired>> /\ armed' = NoTimer /\ Pending' = Pending
    BY <1>7 DEF Consume, Pending
  <2> QED
    BY <1>7, <2>1 DEF QueueOK, HandOK, Sorted, QueueStep
<1>8. CASE TimerRan
  BY <1>3, <1>4, <1>5, <1>8 DEF TimerRan, Late
<1>9. CASE NextTimer
  BY <1>3, <1>4, <1>6, <1>9 DEF NextTimer, Late, Between
<1>10. CASE RunTimer
  BY <1>3, <1>4, <1>7, <1>10 DEF RunTimer, Late, Evaluate
<1> QED
  BY <1>8, <1>9, <1>10

LEMMA QueueKept ==
  ASSUME ClosedInv, DoomedOK, Between, QueueOK, HandOK, [Next]_vars
  PROVE  QueueOK' /\ HandOK'
<1>1. QueueStep
  BY QueueElsewhere, QueueOfPage, QueueOfLoop DEF Next, Runner, PageCode
<1> QED
  BY <1>1 DEF QueueStep

LEMMA ShimKept ==
  ASSUME ClosedInv, DoomedOK, Between, QueueOK, HandOK, ShimOK, [Next]_vars
  PROVE  ShimOK'
<1>0. ~ opsOut' => ~ opsOut
  BY OpsStay
<1>1. ASSUME UNCHANGED timerVars PROVE ShimOK'
  BY <1>0, <1>1, Leaves DEF timerVars, queueVars, Pending, Entrusted
<1>2. CASE SetTimer
  <2>1. CASE UNCHANGED timerVars
    BY <1>1, <2>1
  <2>2. CASE ~ Full /\ ~ UNCHANGED timerVars
    <3>1. PICK delay \in Delays, repeat \in BOOLEAN : Register(delay, repeat, FALSE)
      BY <1>2, <2>2 DEF SetTimer
    <3>2. PICK lost \in SUBSET table : Keep(lastId', lost) /\ opsOut' = (lost # {})
      BY <1>2, <2>2 DEF SetTimer
    <3> QED
      BY <1>2, <2>2, <3>1, <3>2, Sweeps DEF SetTimer
  <2> QED
    BY <1>2, <2>1, <2>2 DEF SetTimer
<1>3. CASE ClearTimer
  <2>1. PICK id \in 1 .. lastId : Forget(id) /\ IF opsOut THEN UNCHANGED queueVars ELSE ClearQueue(id)
    BY <1>3 DEF ClearTimer
  <2>2. CASE opsOut
    <3>1. opsOut' /\ Pending' = Pending /\ lastId' = lastId /\ Entrusted' = Entrusted
      BY <2>1, <2>2, OpsStay DEF queueVars, Pending, Entrusted
    <3> QED
      BY <2>1, <3>1, Forgets
  <2>3. CASE ~ opsOut
    <3>1. Pending' = Pending \ {id} /\ lastId' = lastId /\ \A x \in Pending' : entries'[x] = entries[x]
      BY <2>1, <2>3, Clears
    <3>2. Entrusted' \subseteq Entrusted /\ id \notin Entrusted'
      BY <3>1 DEF Entrusted
    <3> QED
      BY <1>0, <2>1, <3>1, <3>2, Forgets
  <2> QED
    BY <2>2, <2>3
<1>4. CASE ClearDirectly
  <2>1. PICK id \in 1 .. lastId : ClearQueue(id)
    BY <1>4 DEF ClearDirectly
  <2>2. /\ Pending' \subseteq Pending /\ lastId' = lastId /\ UNCHANGED shimVars
        /\ \A x \in Pending' : entries'[x] = entries[x]
    BY <1>4, <2>1, Clears DEF ClearDirectly
  <2>3. Entrusted' \subseteq Entrusted
    BY <2>2 DEF Entrusted
  <2> QED
    BY <1>0, <2>2, <2>3, Leaves
<1>5. CASE TimerRan
  <2>1. CASE UNCHANGED timerVars
    BY <1>1, <2>1
  <2>2. CASE Rearm(hand) /\ UNCHANGED shimVars
    <3>1. Pending' = Pending /\ lastId' = lastId
      BY <2>2, Rearms
    <3>2. Entrusted' = Entrusted
      BY <2>2, <3>1 DEF Rearm, Entrusted, Pending, QueueOK
    <3> QED
      BY <1>0, <2>2, <3>1, <3>2, Leaves
  <2> QED
    BY <1>5, <2>1, <2>2 DEF TimerRan
<1>6. CASE NextTimer
  <2>1. CASE UNCHANGED timerVars
    BY <1>1, <2>1
  <2>2. ASSUME NEW id \in Ids, Take(id), UNCHANGED shimVars PROVE ShimOK'
    <3>1. Pending' \subseteq Pending /\ lastId' = lastId
      BY <2>2, Takes
    <3>2. Entrusted' \subseteq Entrusted
      BY <2>2, <3>1 DEF Take, Entrusted, Pending, Restrict
    <3> QED
      BY <1>0, <2>2, <3>1, <3>2, Leaves
  <2> QED
    BY <1>6, <2>1, <2>2 DEF NextTimer
<1>7. CASE RunTimer
  <2>1. CASE UNCHANGED timerVars
    BY <1>1, <2>1
  <2>2. CASE Consume(hand) /\ (UNCHANGED shimVars \/ (hand \notin Pending /\ Forget(hand)))
    <3>1. Pending' = Pending /\ lastId' = lastId /\ Entrusted' = Entrusted /\ Entrusted \subseteq Pending
      BY <2>2 DEF Consume, Pending, Entrusted
    <3> QED
      BY <1>0, <2>2, <3>1, Leaves, Forgets
  <2> QED
    BY <1>7, <2>1, <2>2 DEF RunTimer
<1>8. CASE UNCHANGED vars \/ Finished
  BY <1>1, <1>8 DEF vars, Finished
<1>12. CASE SetDirectly
  <2>1. CASE UNCHANGED timerVars
    BY <1>1, <2>1
  <2>2. CASE ~ UNCHANGED timerVars
    <3>1. /\ ~ Full /\ ~ opsOut /\ UNCHANGED <<shimVars, opsOut>>
          /\ \E delay \in Delays, repeat \in BOOLEAN : Register(delay, repeat, TRUE)
      BY <1>12, <2>2 DEF SetDirectly, timerVars
    <3> QED
      BY <3>1, Bypasses
  <2> QED
    BY <2>1, <2>2
<1>9. CASE OpsRunOut \/ TripLimit \/ QueueMicrotask \/ Request \/ CancelRequest \/ CancelDirectly \/ Import
  BY <1>1, <1>9 DEF OpsRunOut, TripLimit, QueueMicrotask, Request, CancelRequest, CancelDirectly, Import
<1>10. CASE Install \/ Script \/ ScriptsEnd \/ Lifecycle \/ LifecycleEnds \/ Microtask
            \/ MicrotaskEnds \/ Returns \/ Stopped \/ ScriptRan \/ ImportRan \/ RequestRan \/ Drained
  BY <1>1, <1>10 DEF Install, Script, ScriptsEnd, Lifecycle, LifecycleEnds, Microtask, MicrotaskEnds,
                     Returns, Stopped, ScriptRan, ImportRan, RequestRan, Drained
<1>11. CASE LoopTrips \/ TakeImports \/ StartImport \/ ImportLoaded \/ StartRequest \/ RequestLoaded \/ Idle
  BY <1>1, <1>11 DEF LoopTrips, TakeImports, StartImport, ImportLoaded, StartRequest, RequestLoaded, Idle
<1> QED
  BY <1>2, <1>3, <1>4, <1>5, <1>6, <1>7, <1>8, <1>9, <1>10, <1>11, <1>12 DEF Next, Runner, PageCode

-----------------------------------------------------------------------------
(* The requests.                                                           *)

\* A request is in the queue or at hand, once; as long as the run goes on no
\* other is unaccounted for, and as long as the operations last the shim waits
\* for exactly these, but for the ones it was passed by for.
NetOK ==
  /\ accepted \in 0 .. MaxRequests /\ completed \in Nat /\ cancelled \in Nat
  /\ bytes \in 0 .. MaxBytes /\ limitHit \in BOOLEAN
  /\ requests \in Seq(1 .. accepted) /\ Distinct(requests)
  /\ waiting \subseteq 1 .. accepted /\ bypassed \subseteq 1 .. accepted
  /\ AtRequest => hand \in 1 .. accepted /\ hand \notin ToSet(requests)
  /\ accepted - completed - cancelled >= Len(requests) + (IF AtRequest THEN 1 ELSE 0)
  /\ abort = "none" =>
       accepted - completed - cancelled = Len(requests) + (IF AtRequest THEN 1 ELSE 0)
  /\ abort = "none" /\ ~ opsOut => waiting \ bypassed = Underway \ bypassed

LEMMA Widened ==
  ASSUME NEW S, NEW T, S \subseteq T, NEW s \in Seq(S)
  PROVE  s \in Seq(T)
<1>1. Len(s) \in Nat /\ s \in [1 .. Len(s) -> S]
  OBVIOUS
<1>2. s \in [1 .. Len(s) -> T]
  BY <1>1
<1> QED
  BY <1>1, <1>2, SeqDef

LEMMA QueueLength == NetOK => Len(requests) \in Nat
BY LenProperties DEF NetOK

\* Steps that neither take up nor answer a request.
LEMMA NetLeft ==
  ASSUME NetOK, UNCHANGED netVars, ~ AtRequest, ~ AtRequest', opsOut => opsOut',
         abort' = "none" => abort = "none"
  PROVE  NetOK'
BY DEF NetOK, netVars, Underway

\* Which are all but five.
LEMMA NetElsewhere ==
  ASSUME Between,
         \/ Install \/ Script \/ ScriptsEnd \/ Lifecycle \/ LifecycleEnds
         \/ OpsRunOut \/ TripLimit \/ SetTimer \/ SetDirectly \/ ClearTimer \/ ClearDirectly \/ QueueMicrotask \/ Import
         \/ Microtask \/ MicrotaskEnds \/ Returns \/ Stopped \/ ScriptRan \/ ImportRan
         \/ RequestRan \/ Drained \/ TimerRan
         \/ LoopTrips \/ TakeImports \/ StartImport \/ ImportLoaded
         \/ Idle \/ NextTimer \/ RunTimer \/ Finished
  PROVE  UNCHANGED netVars /\ ~ AtRequest /\ ~ AtRequest'
<1>1. CASE Install \/ Script \/ ScriptsEnd \/ Lifecycle \/ LifecycleEnds
  BY <1>1 DEF Install, Script, ScriptsEnd, Lifecycle, LifecycleEnds, Between, AtRequest
<1>2. CASE OpsRunOut \/ TripLimit \/ SetTimer \/ SetDirectly \/ ClearTimer \/ ClearDirectly \/ QueueMicrotask \/ Import
  BY <1>2 DEF OpsRunOut, TripLimit, SetTimer, SetDirectly, ClearTimer, ClearDirectly, QueueMicrotask, Import,
              PageRuns, runVars, AtRequest
<1>3. ASSUME NEW k, NEW n, GiveUp(k, n) PROVE ~ AtRequest'
  BY <1>3, GivenUp DEF AtRequest
<1>4. ASSUME NEW n, Late(n) PROVE ~ AtRequest'
  BY <1>3, <1>4 DEF Late
<1>5. ASSUME NEW s \in {"run", "ran", "drain", "micro"}, Evaluate(s) PROVE ~ AtRequest'
  BY <1>5 DEF Evaluate, AtRequest
<1>6. CASE Microtask \/ MicrotaskEnds \/ Returns
  BY <1>4, <1>5, <1>6 DEF Microtask, MicrotaskEnds, Returns, AtRequest
<1>7. CASE Stopped
  BY <1>3, <1>7 DEF Stopped, AtRequest
<1>8. CASE ScriptRan \/ ImportRan \/ RequestRan
  BY <1>3, <1>4, <1>5, <1>8 DEF ScriptRan, ImportRan, RequestRan, Checkpoint, AtRequest
<1>9. CASE Drained \/ TimerRan
  BY <1>3, <1>4, <1>9 DEF Drained, TimerRan, GoOn, AtRequest
<1>10. CASE LoopTrips \/ TakeImports \/ StartImport
  BY <1>3, <1>4, <1>10 DEF LoopTrips, TakeImports, StartImport, runVars, AtRequest
<1>11. CASE ImportLoaded \/ Idle \/ Finished
  BY <1>11 DEF ImportLoaded, Idle, Finished, vars, runVars, AtRequest
<1>12. CASE NextTimer \/ RunTimer
  BY <1>3, <1>4, <1>5, <1>12 DEF NextTimer, RunTimer, AtRequest
<1> QED
  BY <1>1, <1>2, <1>6, <1>7, <1>8, <1>9, <1>10, <1>11, <1>12

\* NetQueue::admit: a request joins the queue, and the shim waits for it if it
\* was the one to ask.
LEMMA RequestKeepsNet ==
  ASSUME ClosedInv, NetOK, Request
  PROVE  NetOK'
<1>1. /\ ~ AtRequest /\ ~ AtRequest' /\ UNCHANGED <<completed, cancelled, bytes, abort, opsOut>>
      /\ ~ opsOut
  BY DEF Request, PageRuns, runVars, limitVars, AtRequest
<1>2. CASE limitHit' = TRUE /\ UNCHANGED <<requests, accepted, waiting, bypassed>>
  BY <1>1, <1>2 DEF NetOK, Underway
<1>3. CASE /\ accepted < MaxRequests /\ accepted' = accepted + 1
           /\ requests' = Append(requests, accepted + 1)
           /\ \/ waiting' = waiting \cup {accepted + 1} /\ bypassed' = bypassed
              \/ bypassed' = bypassed \cup {accepted + 1} /\ waiting' = waiting
           /\ limitHit' = limitHit
  <2> DEFINE id == accepted + 1
  <2>1. /\ accepted \in Nat /\ accepted' \in 0 .. MaxRequests /\ id \in 1 .. id
        /\ 1 .. accepted \subseteq 1 .. id /\ id \notin 1 .. accepted /\ accepted' = id
    BY <1>3, RunBoundsAssumption DEF NetOK
  <2>2. requests \in Seq(1 .. id)
    BY <2>1, Widened DEF NetOK
  <2>3. /\ requests' \in Seq(1 .. id) /\ Len(requests') = Len(requests) + 1
        /\ DOMAIN requests' = 1 .. Len(requests) + 1
        /\ \A i \in 1 .. Len(requests) + 1 :
             requests'[i] = IF i = Len(requests) + 1 THEN id ELSE requests[i]
    <3> HIDE DEF id
    <3>1. requests' = Append(requests, id)
      BY <1>3 DEF id
    <3> QED
      BY <2>1, <2>2, <3>1, AppendProperties, LenProperties
  <2>4. Len(requests) \in Nat /\ DOMAIN requests = 1 .. Len(requests)
    BY <2>2
  <2>5. \A i \in DOMAIN requests : requests[i] \in 1 .. accepted
    BY <2>4 DEF NetOK
  <2>6. ToSet(requests') = ToSet(requests) \cup {id}
    <3>1. ASSUME NEW x \in ToSet(requests') PROVE x \in ToSet(requests) \cup {id}
      <4>1. PICK i \in 1 .. Len(requests) + 1 : requests'[i] = x
        BY <2>3 DEF ToSet
      <4>2. i = Len(requests) + 1 \/ (i # Len(requests) + 1 /\ i \in DOMAIN requests)
        BY <2>4
      <4> QED
        BY <2>3, <4>1, <4>2 DEF ToSet
    <3>2. ASSUME NEW x \in ToSet(requests) PROVE x \in ToSet(requests')
      <4>1. PICK i \in 1 .. Len(requests) : requests[i] = x
        BY <2>4 DEF ToSet
      <4>2. i \in 1 .. Len(requests) + 1 /\ i # Len(requests) + 1
        BY <2>4
      <4> QED
        BY <2>3, <4>1, <4>2 DEF ToSet
    <3>3. id \in ToSet(requests')
      <4>1. Len(requests) + 1 \in 1 .. Len(requests) + 1
        BY <2>4
      <4> QED
        BY <2>3, <4>1 DEF ToSet
    <3> QED
      BY <3>1, <3>2, <3>3
  <2>7. Distinct(requests')
    <3>1. ASSUME NEW i \in DOMAIN requests', NEW j \in DOMAIN requests', i < j
          PROVE  requests'[i] # requests'[j]
      <4>1. i \in DOMAIN requests /\ i # Len(requests) + 1
        BY <2>3, <2>4, <3>1
      <4>2. CASE j = Len(requests) + 1
        BY <2>1, <2>3, <2>4, <2>5, <4>1, <4>2
      <4>3. CASE j # Len(requests) + 1
        <5>1. j \in DOMAIN requests
          BY <2>3, <2>4, <4>3
        <5> QED
          BY <2>3, <3>1, <4>1, <4>3, <5>1 DEF NetOK, Distinct
      <4> QED
        BY <4>2, <4>3
    <3> QED
      BY <3>1 DEF Distinct
  <2>8. \/ waiting' = waiting \cup {id} /\ bypassed' = bypassed
        \/ bypassed' = bypassed \cup {id} /\ waiting' = waiting
    BY <1>3
  <2>9. id \notin waiting /\ id \notin bypassed
    BY <2>1 DEF NetOK
  <2> HIDE DEF id
  <2>10. waiting' \subseteq 1 .. id /\ bypassed' \subseteq 1 .. id
    BY <2>1, <2>8 DEF NetOK
  <2>11. /\ accepted' - completed' - cancelled' >= Len(requests') + (IF AtRequest' THEN 1 ELSE 0)
         /\ abort' = "none" =>
              accepted' - completed' - cancelled' = Len(requests') + (IF AtRequest' THEN 1 ELSE 0)
    <3>1. completed \in Nat /\ cancelled \in Nat
      BY DEF NetOK
    <3>2. /\ accepted - completed - cancelled >= Len(requests)
          /\ abort = "none" => accepted - completed - cancelled = Len(requests)
      BY <1>1 DEF NetOK
    <3>3. accepted' = accepted + 1 /\ completed' = completed /\ cancelled' = cancelled /\ abort' = abort
      BY <1>1, <1>3
    <3>4. Len(requests') = Len(requests) + 1
      BY <2>3
    <3>5. (IF AtRequest' THEN 1 ELSE 0) = 0
      BY <1>1
    <3> HIDE <2>3
    <3> QED
      BY <2>1, <2>4, <3>1, <3>2, <3>3, <3>4, <3>5
  <2>12. abort' = "none" => waiting' \ bypassed' = Underway' \ bypassed'
    <3>1. Underway = ToSet(requests) /\ Underway' = ToSet(requests')
      BY <1>1 DEF Underway
    <3>2. ASSUME abort' = "none" PROVE waiting \ bypassed = Underway \ bypassed
      BY <1>1, <3>2 DEF NetOK
    <3> QED
      BY <2>6, <2>8, <2>9, <3>1, <3>2
  <2>13. /\ completed' \in Nat /\ cancelled' \in Nat /\ bytes' \in 0 .. MaxBytes /\ limitHit' \in BOOLEAN
    BY <1>1, <1>3 DEF NetOK
  <2> QED
    BY <1>1, <2>1, <2>3, <2>7, <2>10, <2>11, <2>12, <2>13 DEF NetOK
<1> QED
  BY <1>2, <1>3 DEF Request

\* NetQueue::cancel: a request that was not taken yet leaves the queue.
LEMMA Cancels ==
  ASSUME NetOK, ~ AtRequest, ~ AtRequest', NEW id \in ToSet(requests),
         requests' = RemoveFirst(requests, id), cancelled' = cancelled + 1,
         UNCHANGED <<accepted, completed, bytes, limitHit, abort>>,
         waiting' \subseteq waiting, bypassed' \subseteq bypassed \cup {id},
         abort = "none" /\ ~ opsOut' => waiting' \ bypassed' = (Underway \ {id}) \ bypassed'
  PROVE  NetOK'
<1>1. requests \in Seq(1 .. accepted) /\ Distinct(requests)
  BY DEF NetOK
<1>2. /\ requests' \in Seq(1 .. accepted) /\ ToSet(requests') = ToSet(requests) \ {id}
      /\ Len(requests') = Len(requests) - 1
      /\ \A i, j \in DOMAIN requests' : i < j =>
           \E m, n \in DOMAIN requests : m < n /\ requests'[i] = requests[m] /\ requests'[j] = requests[n]
  BY <1>1, WithoutElement
<1>3. Distinct(requests')
  BY <1>1, <1>2 DEF Distinct
<1>4. accepted \in Nat /\ completed \in Nat /\ cancelled \in Nat /\ Len(requests) \in Nat
  BY QueueLength, RunBoundsAssumption DEF NetOK
<1>5. /\ accepted' - completed' - cancelled' >= Len(requests') + (IF AtRequest' THEN 1 ELSE 0)
      /\ abort' = "none" =>
           accepted' - completed' - cancelled' = Len(requests') + (IF AtRequest' THEN 1 ELSE 0)
  BY <1>2, <1>4 DEF NetOK
<1>6. Underway' = Underway \ {id}
  BY <1>2 DEF Underway
<1>7. id \in 1 .. accepted
  <2>1. PICK i \in DOMAIN requests : requests[i] = id
    BY DEF ToSet
  <2>2. i \in 1 .. Len(requests)
    BY <1>1, <2>1, LenProperties
  <2> QED
    BY <1>1, <2>1, <2>2, ElementOfSeq
<1>8. waiting' \subseteq 1 .. accepted' /\ bypassed' \subseteq 1 .. accepted' /\ cancelled' \in Nat
  BY <1>4, <1>7 DEF NetOK
<1> QED
  BY <1>2, <1>3, <1>5, <1>6, <1>8 DEF NetOK

\* Through the shim, which does not wait for it any longer.
LEMMA CancelKeepsNet ==
  ASSUME ClosedInv, NetOK, CancelRequest
  PROVE  NetOK'
<1>1. /\ ~ AtRequest /\ ~ AtRequest' /\ abort = "none"
      /\ UNCHANGED <<accepted, completed, bytes, limitHit, abort, opsOut, bypassed>>
  BY DEF CancelRequest, PageRuns, runVars, limitVars, AtRequest, ClosedInv, Closed
<1>2. PICK id \in waiting :
        /\ waiting' = waiting \ {id}
        /\ IF ~ opsOut /\ id \in ToSet(requests)
           THEN requests' = RemoveFirst(requests, id) /\ cancelled' = cancelled + 1
           ELSE UNCHANGED <<requests, cancelled>>
  BY DEF CancelRequest
<1>3. ~ opsOut => waiting \ bypassed = Underway \ bypassed
  BY <1>1 DEF NetOK
<1>4. CASE opsOut \/ id \notin ToSet(requests)
  <2>1. requests' = requests /\ cancelled' = cancelled /\ Underway' = Underway
    BY <1>1, <1>2, <1>4 DEF Underway
  <2>2. ~ opsOut' => waiting' \ bypassed' = Underway' \ bypassed'
    BY <1>1, <1>2, <1>3, <1>4, <2>1 DEF Underway
  <2>3. waiting' \subseteq 1 .. accepted'
    BY <1>1, <1>2 DEF NetOK
  <2> QED
    BY <1>1, <2>1, <2>2, <2>3 DEF NetOK
<1>5. CASE ~ opsOut /\ id \in ToSet(requests)
  <2>1. requests' = RemoveFirst(requests, id) /\ cancelled' = cancelled + 1
    BY <1>2, <1>5
  <2>2. waiting' \ bypassed' = (Underway \ {id}) \ bypassed'
    BY <1>1, <1>2, <1>3, <1>5
  <2> QED
    BY <1>1, <1>2, <1>5, <2>1, <2>2, Cancels
<1> QED
  BY <1>4, <1>5

\* Without the shim, which waits on.
LEMMA CancelDirectlyKeepsNet ==
  ASSUME ClosedInv, NetOK, CancelDirectly
  PROVE  NetOK'
<1>1. /\ ~ AtRequest /\ ~ AtRequest' /\ abort = "none"
      /\ UNCHANGED <<accepted, completed, bytes, limitHit, abort, opsOut, waiting>>
      /\ cancelled' = cancelled + 1
  BY DEF CancelDirectly, PageRuns, runVars, limitVars, AtRequest, ClosedInv, Closed
<1>2. PICK id \in ToSet(requests) :
        requests' = RemoveFirst(requests, id) /\ bypassed' = bypassed \cup {id}
  BY DEF CancelDirectly
<1>3. ~ opsOut' => waiting' \ bypassed' = (Underway \ {id}) \ bypassed'
  <2>1. ~ opsOut => waiting \ bypassed = Underway \ bypassed
    BY <1>1 DEF NetOK
  <2> QED
    BY <1>1, <1>2, <2>1
<1> QED
  BY <1>1, <1>2, <1>3, Cancels

\* The first request of the queue is taken up.
LEMMA StartKeepsNet ==
  ASSUME ClosedInv, Between, NetOK, StartRequest
  PROVE  NetOK'
<1>1. /\ ~ AtRequest /\ abort = "none"
      /\ UNCHANGED <<accepted, completed, cancelled, bytes, limitHit, waiting, bypassed, opsOut>>
  BY DEF StartRequest, limitVars, AtRequest, ClosedInv, Closed
<1>2. CASE Late(0) /\ requests' = requests
  <2>1. abort' # "none" /\ ~ AtRequest'
    BY <1>2, GivenUp DEF Late, AtRequest
  <2> QED
    BY <1>1, <1>2, <2>1 DEF NetOK
<1>3. CASE /\ stage' = "load" /\ task' = "request" /\ hand' = Head(requests)
           /\ requests' = Tail(requests) /\ abort' = abort
  <2>0. requests \in Seq(1 .. accepted) /\ Distinct(requests) /\ requests # <<>>
    BY DEF NetOK, StartRequest
  <2>1. /\ requests' \in Seq(1 .. accepted) /\ hand' \in ToSet(requests) /\ hand' = requests[1]
        /\ ToSet(requests') = ToSet(requests) \ {hand'} /\ 1 \in DOMAIN requests
        /\ Len(requests') = Len(requests) - 1
        /\ \A i \in DOMAIN requests' : i + 1 \in DOMAIN requests /\ requests'[i] = requests[i + 1]
    BY <1>3, <2>0, WithoutFirst
  <2>2. AtRequest' /\ hand' \in 1 .. accepted /\ hand' \notin ToSet(requests')
    <3>0. requests \in Seq(1 .. accepted) /\ 1 \in 1 .. Len(requests)
      BY <2>0, <2>1, LenProperties
    <3>1. requests[1] \in 1 .. accepted
      BY <3>0, ElementOfSeq
    <3> QED
      BY <1>3, <2>1, <3>1 DEF AtRequest
  <2>3. Distinct(requests')
    <3>1. ASSUME NEW i \in DOMAIN requests', NEW j \in DOMAIN requests', i < j
          PROVE  requests'[i] # requests'[j]
      <4>1. i \in Nat /\ j \in Nat
        BY <2>1
      <4>2. i + 1 < j + 1
        BY <3>1, <4>1
      <4> QED
        BY <2>0, <2>1, <4>2 DEF Distinct
    <3> QED
      BY <3>1 DEF Distinct
  <2>4. /\ accepted' - completed' - cancelled' >= Len(requests') + 1
        /\ abort' = "none" => accepted' - completed' - cancelled' = Len(requests') + 1
    BY <1>1, <1>3, <2>1, QueueLength, RunBoundsAssumption DEF NetOK
  <2>5. abort' = "none" /\ ~ opsOut' => waiting' \ bypassed' = Underway' \ bypassed'
    <3>1. Underway = ToSet(requests) /\ Underway' = ToSet(requests') \cup {hand'}
      BY <1>1, <2>2 DEF Underway
    <3> QED
      BY <1>1, <1>3, <2>1, <3>1 DEF NetOK
  <2> QED
    BY <1>1, <2>1, <2>2, <2>3, <2>4, <2>5 DEF NetOK
<1> QED
  BY <1>2, <1>3 DEF StartRequest

\* It is answered; or nobody hears of it, and the run will end for that.
LEMMA AnswerKeepsNet ==
  ASSUME ClosedInv, NetOK, RequestLoaded
  PROVE  NetOK'
<1>1. AtRequest /\ abort = "none" /\ UNCHANGED <<requests, accepted, cancelled, bypassed>>
  BY DEF RequestLoaded, AtRequest, ClosedInv, Closed
<1>2. /\ accepted - completed - cancelled = Len(requests) + 1
      /\ accepted \in Nat /\ completed \in Nat /\ cancelled \in Nat /\ Len(requests) \in Nat
  BY <1>1, QueueLength, RunBoundsAssumption DEF NetOK
<1>3. ~ AtRequest'
  BY GivenUp DEF RequestLoaded, Late, Evaluate, AtRequest
<1>4. completed' \in {completed, completed + 1} /\ completed' \in Nat
  BY <1>2 DEF RequestLoaded
<1>5. accepted' - completed' - cancelled' >= Len(requests')
  BY <1>1, <1>2, <1>4
<1>6. bytes' \in 0 .. MaxBytes /\ limitHit' \in BOOLEAN
  <2>1. bytes \in 0 .. MaxBytes /\ limitHit \in BOOLEAN
    BY DEF NetOK
  <2>2. \/ limitHit' = limitHit /\ bytes' = bytes
        \/ limitHit' = limitHit /\ bytes < MaxBytes /\ \E body \in 0 .. 1 : bytes' = bytes + body
        \/ limitHit' = TRUE /\ bytes' = bytes
    BY DEF RequestLoaded
  <2>3. CASE limitHit' = limitHit /\ bytes < MaxBytes /\ \E body \in 0 .. 1 : bytes' = bytes + body
    <3>1. PICK body \in 0 .. 1 : bytes' = bytes + body
      BY <2>3
    <3>2. bytes' \in 0 .. MaxBytes
      BY <2>1, <2>3, <3>1, RunBoundsAssumption
    <3> QED
      BY <2>1, <2>3, <3>2
  <2> QED
    BY <2>1, <2>2, <2>3
<1>7. waiting' \subseteq 1 .. accepted' /\ bypassed' \subseteq 1 .. accepted'
  BY <1>1 DEF RequestLoaded, NetOK
<1>8. ASSUME abort' = "none" PROVE accepted' - completed' - cancelled' = Len(requests')
  <2>1. completed' = completed + 1
    BY <1>8, GivenUp DEF RequestLoaded, Late
  <2> QED
    BY <1>1, <1>2, <2>1
<1>9. ASSUME abort' = "none", ~ opsOut' PROVE waiting' \ bypassed' = Underway' \ bypassed'
  <2>1. waiting' = waiting \ {hand} /\ opsOut' = opsOut
    BY <1>9, GivenUp DEF RequestLoaded, Late
  <2>2. waiting \ bypassed = Underway \ bypassed /\ hand \notin ToSet(requests)
    BY <1>1, <1>9, <2>1 DEF NetOK
  <2>3. Underway = ToSet(requests) \cup {hand} /\ Underway' = ToSet(requests)
    BY <1>1, <1>3 DEF Underway
  <2> QED
    BY <1>1, <2>1, <2>2, <2>3
<1>10. (IF AtRequest' THEN 1 ELSE 0) = 0 /\ Len(requests') = Len(requests) + 0
  BY <1>1, <1>2, <1>3
<1>11. /\ accepted' - completed' - cancelled' >= Len(requests') + (IF AtRequest' THEN 1 ELSE 0)
       /\ abort' = "none" =>
            accepted' - completed' - cancelled' = Len(requests') + (IF AtRequest' THEN 1 ELSE 0)
  BY <1>1, <1>2, <1>5, <1>8, <1>10
<1>12. /\ accepted' \in 0 .. MaxRequests /\ cancelled' \in Nat
       /\ requests' \in Seq(1 .. accepted') /\ Distinct(requests')
  BY <1>1 DEF NetOK
<1> QED
  BY <1>3, <1>4, <1>6, <1>7, <1>9, <1>11, <1>12 DEF NetOK

LEMMA NetKept ==
  ASSUME ClosedInv, DoomedOK, Between, NetOK, [Next]_vars
  PROVE  NetOK'
<1>1. opsOut => opsOut'
  BY OpsStay
<1>2. abort' = "none" => abort = "none"
  BY StepCloses DEF FailStep
<1>3. CASE UNCHANGED vars
  BY <1>3 DEF vars, runVars, limitVars, netVars, NetOK, AtRequest, Underway
<1>4. CASE Request \/ CancelRequest \/ CancelDirectly \/ StartRequest \/ RequestLoaded
  BY <1>4, RequestKeepsNet, CancelKeepsNet, CancelDirectlyKeepsNet, StartKeepsNet, AnswerKeepsNet
<1>5. CASE Next /\ ~ (Request \/ CancelRequest \/ CancelDirectly \/ StartRequest \/ RequestLoaded)
  <2>1. UNCHANGED netVars /\ ~ AtRequest /\ ~ AtRequest'
    BY <1>5, NetElsewhere DEF Next, Runner, PageCode
  <2> QED
    BY <1>1, <1>2, <2>1, NetLeft
<1> QED
  BY <1>3, <1>4, <1>5

-----------------------------------------------------------------------------
(* The run as a whole.                                                     *)

RunOK ==
  /\ stage \in {"install", "script", "event", "loop", "load", "run", "ran",
               "drain", "micro", "done"}
  /\ task \in {"none", "script", "event", "import", "request", "timer"}
  /\ hand \in Nat
  /\ scripts \in 0 .. MaxScripts /\ events \in 0 .. 2 /\ engine \in BOOLEAN
  /\ abort \in AbortKinds \cup {"none"}
  /\ micro \in 0 .. MaxMicro /\ tried \in 0 .. MaxImports

\* What page code may ask for is not used up; MayAsk looks at the sum.
BudgetOK == lastId + accepted + requested + asked <= MaxWork

\* Microtasks are left behind only by a run that is given up.
Drawn == abort = "none" /\ stage \notin {"run", "ran", "drain", "micro"} => micro = 0

\* Without a runtime nothing is asked for.
Idling ==
  ~ engine => /\ stage \in {"install", "script", "event", "done"}
              /\ Pending = {} /\ asked = 0 /\ imports = 0 /\ requests = <<>>
              /\ waiting = {} /\ micro = 0 /\ ~ opsOut /\ ~ tripped

IInv ==
  /\ RunOK /\ ClosedInv /\ DoomedOK /\ CountInv
  /\ QueueOK /\ HandOK /\ ShimOK /\ NetOK
  /\ BudgetOK /\ Drawn /\ Idling /\ CompleteMeansDone

LEMMA EndedRun ==
  ASSUME RunOK, NEW k \in AbortKinds, NEW n, GiveUp(k, n), micro' = micro
  PROVE  RunOK' /\ Drawn'
<1>1. abort' = k /\ k # "none"
  BY GivenUp DEF AbortKinds, EngineAborts
<1>2. /\ stage' \in {"script", "event", "done"} /\ task' = "none" /\ hand' = NoTimer
      /\ UNCHANGED <<scripts, events, engine, tried>>
  BY GivenUp DEF GiveUp
<1> QED
  BY <1>1, <1>2 DEF RunOK, Drawn, NoTimer

LEMMA PageKeepsRun ==
  ASSUME RunOK, PageCode
  PROVE  RunOK' /\ Drawn'
<1>1. UNCHANGED <<runVars, tried>> /\ stage \in {"run", "micro"}
  BY DEF PageCode, OpsRunOut, TripLimit, SetTimer, SetDirectly, ClearTimer, ClearDirectly,
         QueueMicrotask, Request, CancelRequest, CancelDirectly, Import, PageRuns, importVars
<1>2. micro' \in 0 .. MaxMicro
  <2>1. CASE QueueMicrotask
    BY <2>1, RunBoundsAssumption DEF QueueMicrotask, RunOK
  <2>2. CASE ~ QueueMicrotask
    BY <2>2 DEF PageCode, OpsRunOut, TripLimit, SetTimer, SetDirectly, ClearTimer, ClearDirectly,
                Request, CancelRequest, CancelDirectly, Import, RunOK
  <2> QED
    BY <2>1, <2>2
<1> QED
  BY <1>1, <1>2 DEF runVars, RunOK, Drawn

LEMMA ScriptsKeepRun ==
  ASSUME RunOK, Drawn, Install \/ Script \/ ScriptsEnd \/ Lifecycle \/ LifecycleEnds
  PROVE  RunOK' /\ Drawn'
<1>1. /\ UNCHANGED <<micro, tried, hand>> /\ stage \in {"install", "script", "event"}
      /\ abort' = "none" => abort = "none"
  BY DEF Install, Script, ScriptsEnd, Lifecycle, LifecycleEnds, importVars, EngineAborts
<1>2. Drawn'
  BY <1>1 DEF Drawn
<1> SUFFICES RunOK'
  BY <1>2
<1>3. CASE Install
  BY <1>1, <1>3 DEF Install, RunOK, AbortKinds, EngineAborts
<1>4. CASE Script
  <2>1. scripts' \in 0 .. MaxScripts
    BY <1>4, RunBoundsAssumption DEF Script, RunOK
  <2> QED
    BY <1>1, <1>4, <2>1 DEF Script, RunOK, AbortKinds, EngineAborts
<1>5. CASE ScriptsEnd
  BY <1>1, <1>5, RunBoundsAssumption DEF ScriptsEnd, RunOK, AbortKinds, EngineAborts
<1>6. CASE Lifecycle
  <2>1. events' \in 0 .. 2
    BY <1>6 DEF Lifecycle, RunOK
  <2> QED
    BY <1>1, <1>6, <2>1 DEF Lifecycle, RunOK, AbortKinds, EngineAborts
<1>7. CASE LifecycleEnds
  BY <1>1, <1>7 DEF LifecycleEnds, RunOK
<1> QED
  BY <1>3, <1>4, <1>5, <1>6, <1>7

LEMMA EvaluationsKeepRun ==
  ASSUME RunOK, DoomedOK,
         \/ Microtask \/ MicrotaskEnds \/ Returns \/ Stopped \/ ScriptRan
         \/ ImportRan \/ RequestRan \/ Drained \/ TimerRan
  PROVE  RunOK' /\ Drawn'
<1>1. ASSUME NEW k \in AbortKinds, NEW n, GiveUp(k, n), micro' = micro PROVE RunOK' /\ Drawn'
  BY <1>1, EndedRun
<1>2. ASSUME NEW n, Late(n), micro' = micro PROVE RunOK' /\ Drawn'
  BY <1>1, <1>2 DEF Late, AbortKinds, EngineAborts
<1>3. ASSUME NEW s \in {"ran", "drain", "micro"}, Evaluate(s), tried' = tried, micro' \in 0 .. MaxMicro
      PROVE  RunOK' /\ Drawn'
  BY <1>3 DEF Evaluate, RunOK, Drawn
<1>4. ASSUME GoOn, tried' = tried, micro = 0, micro' = micro PROVE RunOK' /\ Drawn'
  BY <1>4 DEF GoOn, After, RunOK, Drawn, NoTimer
<1>5. ASSUME Checkpoint, micro' = micro PROVE RunOK' /\ Drawn'
  BY <1>2, <1>3, <1>5 DEF Checkpoint, importVars, RunOK
<1>6. CASE Microtask
  <2>1. micro' \in 0 .. MaxMicro /\ tried' = tried
    BY <1>6, RunBoundsAssumption DEF Microtask, importVars, RunOK
  <2> QED
    BY <1>3, <1>6, <2>1 DEF Microtask
<1>7. CASE MicrotaskEnds
  BY <1>3, <1>7 DEF MicrotaskEnds, importVars, RunOK
<1>8. CASE Returns
  BY <1>2, <1>3, <1>8 DEF Returns, importVars, RunOK
<1>9. CASE Stopped
  BY <1>1, <1>9 DEF Stopped, DoomedOK, AbortKinds
<1>10. CASE ScriptRan \/ RequestRan
  BY <1>1, <1>5, <1>10 DEF ScriptRan, RequestRan, AbortKinds, EngineAborts
<1>11. CASE ImportRan
  BY <1>1, <1>2, <1>3, <1>11 DEF ImportRan, DoomedOK, AbortKinds, RunOK
<1>12. CASE Drained
  BY <1>1, <1>2, <1>4, <1>12 DEF Drained, importVars, AbortKinds, EngineAborts
<1>13. CASE TimerRan
  BY <1>1, <1>2, <1>4, <1>13 DEF TimerRan, importVars, AbortKinds, EngineAborts
<1> QED
  BY <1>6, <1>7, <1>8, <1>9, <1>10, <1>11, <1>12, <1>13

LEMMA LoopKeepsRun ==
  ASSUME RunOK, ClosedInv, Drawn, NetOK,
         \/ LoopTrips \/ TakeImports \/ StartImport \/ ImportLoaded \/ StartRequest
         \/ RequestLoaded \/ Idle \/ NextTimer \/ RunTimer
  PROVE  RunOK' /\ Drawn'
<1>1. micro' = micro /\ stage \in {"loop", "load"} /\ abort = "none" /\ micro = 0
  BY DEF LoopTrips, TakeImports, StartImport, ImportLoaded, StartRequest, RequestLoaded,
         Idle, NextTimer, RunTimer, ClosedInv, Closed, Drawn
<1>2. Drawn'
  BY <1>1 DEF Drawn
<1> SUFFICES RunOK'
  BY <1>2
<1>3. ASSUME NEW k \in AbortKinds, NEW n, GiveUp(k, n) PROVE RunOK'
  BY <1>1, <1>3, EndedRun
<1>4. ASSUME NEW n, Late(n) PROVE RunOK'
  BY <1>3, <1>4 DEF Late, AbortKinds, EngineAborts
<1>5. ASSUME NEW s \in {"run", "ran", "drain"}, Evaluate(s), tried' = tried PROVE RunOK'
  BY <1>1, <1>5 DEF Evaluate, RunOK
<1>6. ASSUME stage' = "load", task' \in {"import", "request", "timer"}, hand' \in Nat,
             UNCHANGED <<scripts, events, engine, abort, tried>>
      PROVE  RunOK'
  BY <1>1, <1>6 DEF RunOK
<1>7. CASE LoopTrips
  BY <1>3, <1>7 DEF LoopTrips, AbortKinds, EngineAborts
<1>8. CASE TakeImports
  <2>1. CASE UNCHANGED <<runVars, counted, tried>>
    BY <1>1, <2>1 DEF runVars, RunOK
  <2> QED
    BY <1>3, <1>8, <2>1 DEF TakeImports, AbortKinds, EngineAborts
<1>9. CASE StartImport
  <2>1. CASE UNCHANGED <<hand, scripts, events, engine, abort, doomed, asked, requested, counted, tried>>
    <3>1. hand' \in Nat
      BY <2>1 DEF RunOK
    <3>2. CASE stage' = "load" /\ task' = "import"
      BY <1>6, <2>1, <3>1, <3>2
    <3> QED
      BY <1>4, <1>9, <3>2 DEF StartImport
  <2> QED
    BY <1>4, <1>9, <2>1 DEF StartImport
<1>10. CASE ImportLoaded
  <2>1. tried' \in 0 .. MaxImports
    BY <1>10, RunBoundsAssumption DEF ImportLoaded, RunOK
  <2>2. /\ stage' \in {"run", "done"} /\ task' \in {task, "none"}
        /\ abort' \in {abort, "wallTime", "resourceLimit"} \cup EngineAborts
        /\ UNCHANGED <<hand, scripts, events, engine>>
    BY <1>10 DEF ImportLoaded
  <2> QED
    BY <1>1, <2>1, <2>2 DEF RunOK, AbortKinds, EngineAborts
<1>11. CASE StartRequest
  <2>1. CASE Late(0)
    BY <1>4, <2>1
  <2>2. CASE /\ stage' = "load" /\ task' = "request" /\ hand' = Head(requests)
             /\ UNCHANGED <<scripts, events, engine, abort, doomed, importVars>>
    <3>1. requests \in Seq(1 .. accepted) /\ requests # <<>>
      BY <1>11 DEF NetOK, StartRequest
    <3>2. Head(requests) \in 1 .. accepted
      BY <3>1, HeadTailProperties
    <3>3. hand' \in Nat
      BY <2>2, <3>2
    <3> QED
      BY <1>6, <2>2, <3>3 DEF importVars
  <2> QED
    BY <1>11, <2>1, <2>2 DEF StartRequest
<1>12. CASE RequestLoaded
  BY <1>4, <1>5, <1>12 DEF RequestLoaded, importVars
<1>13. CASE Idle
  BY <1>1, <1>13 DEF Idle, importVars, RunOK
<1>14. CASE NextTimer
  <2>1. ASSUME NEW id \in Ids, stage' = "load", task' = "timer", hand' = id,
               UNCHANGED <<scripts, events, engine, abort, doomed, importVars, shimVars>>
        PROVE  RunOK'
    <3>1. hand' \in Nat
      BY <2>1, TimerBoundsAssumption DEF Ids
    <3> QED
      BY <1>6, <2>1, <3>1 DEF importVars
  <2> QED
    BY <1>3, <1>4, <1>14, <2>1 DEF NextTimer, AbortKinds, EngineAborts
<1>15. CASE RunTimer
  BY <1>3, <1>4, <1>5, <1>15 DEF RunTimer, importVars, AbortKinds, EngineAborts
<1> QED
  BY <1>7, <1>8, <1>9, <1>10, <1>11, <1>12, <1>13, <1>14, <1>15

LEMMA RunKept ==
  ASSUME RunOK, ClosedInv, DoomedOK, Drawn, NetOK, [Next]_vars
  PROVE  RunOK' /\ Drawn'
<1>1. CASE UNCHANGED vars \/ Finished
  BY <1>1 DEF Finished, vars, runVars, importVars, RunOK, Drawn
<1> QED
  BY <1>1, PageKeepsRun, ScriptsKeepRun, EvaluationsKeepRun, LoopKeepsRun DEF Next, Runner

\* What the page may still ask for is never exceeded.
LEMMA BudgetKept ==
  ASSUME CountInv, QueueOK, NetOK, BudgetOK, [Next]_vars
  PROVE  BudgetOK'
<1>0. lastId \in Nat /\ accepted \in Nat /\ requested \in Nat /\ asked \in Nat
  BY RunBoundsAssumption DEF CountInv, Numbers, QueueOK, NetOK
<1>1. ASSUME UNCHANGED <<lastId, accepted, requested, asked>> PROVE BudgetOK'
  BY <1>1 DEF BudgetOK
<1>2. ASSUME NEW k, NEW n, GiveUp(k, n), UNCHANGED <<lastId, accepted>> PROVE BudgetOK'
  BY <1>1, <1>2 DEF GiveUp
<1>3. ASSUME NEW n, Late(n), UNCHANGED <<lastId, accepted>> PROVE BudgetOK'
  BY <1>2, <1>3 DEF Late
<1>5. CASE SetTimer \/ SetDirectly
  <2>1. UNCHANGED <<accepted, requested, asked>> /\ MayAsk
    BY <1>5 DEF SetTimer, SetDirectly, importVars, netVars
  <2>2. lastId' \in {lastId, lastId + 1}
    BY <1>5 DEF SetTimer, SetDirectly, timerVars, queueVars, Register
  <2>3. CASE lastId' = lastId + 1
    <3>1. lastId' + accepted' + requested' + asked' = lastId + accepted + requested + asked + 1
      BY <1>0, <2>1, <2>3
    <3>2. lastId + accepted + requested + asked < MaxWork
      BY <2>1 DEF MayAsk
    <3> QED
      BY <1>0, <3>1, <3>2, RunBoundsAssumption DEF BudgetOK
  <2> QED
    BY <1>1, <2>1, <2>2, <2>3
<1>6. CASE Request
  <2>0. UNCHANGED <<lastId, requested, asked>>
    BY <1>6 DEF Request, importVars, timerVars, queueVars
  <2>1. accepted' = accepted \/ (accepted' = accepted + 1 /\ MayAsk)
    BY <1>6 DEF Request
  <2> QED
    BY <1>0, <2>0, <2>1, RunBoundsAssumption DEF MayAsk, BudgetOK
<1>7. CASE Import
  <2>1. UNCHANGED <<lastId, accepted, requested>> /\ asked' = asked + 1 /\ MayAsk
    BY <1>7 DEF Import, netVars, timerVars, queueVars
  <2> QED
    BY <1>0, <2>1, RunBoundsAssumption DEF MayAsk, BudgetOK
<1>8. CASE TakeImports
  <2>1. UNCHANGED <<lastId, accepted>>
    BY <1>8 DEF TakeImports, netVars, timerVars, queueVars
  <2>2. CASE requested' = requested + asked /\ asked' = 0
    BY <1>0, <2>1, <2>2 DEF BudgetOK
  <2> QED
    BY <1>2, <1>8, <2>1, <2>2 DEF TakeImports
<1>9. CASE UNCHANGED vars \/ Finished
  BY <1>1, <1>9 DEF Finished, vars, importVars, netVars, timerVars, queueVars
<1>10. CASE \/ OpsRunOut \/ TripLimit \/ ClearTimer \/ ClearDirectly \/ QueueMicrotask
            \/ CancelRequest \/ CancelDirectly
  BY <1>1, <1>10 DEF OpsRunOut, TripLimit, ClearTimer, ClearDirectly, QueueMicrotask, CancelRequest,
                     CancelDirectly, ClearQueue, importVars, netVars, timerVars, queueVars
<1>11. CASE Install \/ Script \/ ScriptsEnd \/ Lifecycle \/ LifecycleEnds \/ Microtask \/ MicrotaskEnds \/ Idle
  BY <1>1, <1>11 DEF Install, Script, ScriptsEnd, Lifecycle, LifecycleEnds, Microtask, MicrotaskEnds,
                     Idle, importVars, netVars, timerVars, queueVars
<1>12. CASE Returns \/ Stopped \/ ScriptRan \/ ImportRan \/ RequestRan \/ Drained
  <2>1. UNCHANGED <<lastId, accepted>>
    BY <1>12 DEF Returns, Stopped, ScriptRan, ImportRan, RequestRan, Drained, netVars, timerVars, queueVars
  <2> QED
    BY <1>1, <1>2, <1>3, <1>12, <2>1 DEF Returns, Stopped, ScriptRan, ImportRan, RequestRan, Drained,
                                      Checkpoint, importVars
<1>13. CASE TimerRan \/ NextTimer \/ RunTimer
  <2>1. UNCHANGED <<lastId, accepted>>
    BY <1>13 DEF TimerRan, NextTimer, RunTimer, Rearm, Take, Consume, netVars, timerVars, queueVars
  <2> QED
    BY <1>1, <1>2, <1>3, <1>13, <2>1 DEF TimerRan, NextTimer, RunTimer, importVars
<1>14. CASE LoopTrips \/ StartImport \/ ImportLoaded \/ StartRequest \/ RequestLoaded
  <2>1. UNCHANGED <<lastId, accepted>>
    BY <1>14 DEF LoopTrips, StartImport, ImportLoaded, StartRequest, RequestLoaded, netVars, timerVars, queueVars
  <2> QED
    BY <1>1, <1>2, <1>3, <1>14, <2>1 DEF LoopTrips, StartImport, ImportLoaded, StartRequest, RequestLoaded, importVars
<1> QED
  BY <1>5, <1>6, <1>7, <1>8, <1>9, <1>10, <1>11, <1>12, <1>13, <1>14 DEF Next, Runner, PageCode

\* Nobody but the page asks for anything, and it runs in a runtime.
LEMMA IdlingKept ==
  ASSUME Idling, [Next]_vars
  PROVE  Idling'
<1>1. CASE engine'
  BY <1>1 DEF Idling
<1>2. CASE ~ engine' /\ engine
  <2>1. ~ (Install \/ Script \/ ScriptsEnd \/ Lifecycle \/ LifecycleEnds \/ UNCHANGED vars)
    BY <1>2 DEF Install, Script, ScriptsEnd, Lifecycle, LifecycleEnds, vars, runVars
  <2>2. ~ PageCode /\ ~ Finished
    BY <1>2 DEF PageCode, OpsRunOut, TripLimit, SetTimer, SetDirectly, ClearTimer, ClearDirectly,
                QueueMicrotask, Request, CancelRequest, CancelDirectly, Import, Finished, vars, runVars
  <2>3. ~ (Microtask \/ MicrotaskEnds \/ Returns \/ Stopped \/ ScriptRan \/ ImportRan)
    BY <1>2 DEF Microtask, MicrotaskEnds, Returns, Stopped, ScriptRan, ImportRan, Checkpoint,
                Evaluate, Late, GiveUp
  <2>4. ~ (RequestRan \/ Drained \/ TimerRan \/ LoopTrips \/ TakeImports \/ StartImport)
    BY <1>2 DEF RequestRan, Drained, TimerRan, LoopTrips, TakeImports, StartImport, Checkpoint,
                Evaluate, Late, GiveUp, GoOn, runVars
  <2>5. ~ (ImportLoaded \/ StartRequest \/ RequestLoaded \/ Idle \/ NextTimer \/ RunTimer)
    BY <1>2 DEF ImportLoaded, StartRequest, RequestLoaded, Idle, NextTimer, RunTimer,
                Evaluate, Late, GiveUp
  <2> QED
    BY <2>1, <2>2, <2>3, <2>4, <2>5 DEF Next, Runner
<1>3. CASE ~ engine /\ ~ engine'
  <2>1. stage \in {"install", "script", "event", "done"}
    BY <1>3 DEF Idling
  <2>2. UNCHANGED vars \/ Install \/ Script \/ ScriptsEnd \/ Lifecycle \/ LifecycleEnds
    BY <2>1 DEF Next, Runner, PageCode, OpsRunOut, TripLimit, SetTimer, SetDirectly, ClearTimer, ClearDirectly,
                QueueMicrotask, Request, CancelRequest, CancelDirectly, Import, PageRuns, Finished, Microtask,
                MicrotaskEnds, Returns, Stopped, ScriptRan, ImportRan, RequestRan, Drained, TimerRan,
                LoopTrips, TakeImports, StartImport, ImportLoaded, StartRequest, RequestLoaded,
                Idle, NextTimer, RunTimer
  <2>3. UNCHANGED <<limitVars, micro, importVars, netVars, timerVars>>
    BY <2>2 DEF vars, Install, Script, ScriptsEnd, Lifecycle, LifecycleEnds
  <2>4. UNCHANGED <<entries, asked, imports, requests, waiting, micro, opsOut, tripped>>
    BY <2>3 DEF limitVars, importVars, netVars, timerVars, queueVars
  <2>5. stage' \in {"install", "script", "event", "done"}
    BY <1>3, <2>1, <2>2 DEF vars, runVars, Install, Script, ScriptsEnd, Lifecycle, LifecycleEnds
  <2> QED
    BY <1>3, <2>4, <2>5 DEF Idling, Pending
<1> QED
  BY <1>1, <1>2, <1>3

\* A run ends well in one of two places, and in both nothing is left.
LEMMA DoneKept ==
  ASSUME IInv, [Next]_vars, CountInv', ClosedInv', NetOK'
  PROVE  CompleteMeansDone'
<1> SUFFICES ASSUME stage' = "done", abort' = "none" PROVE CompleteMeansDone'
  BY DEF CompleteMeansDone
<1>0. abort = "none"
  BY StepCloses DEF IInv, FailStep
<1>1. CASE UNCHANGED vars \/ Finished
  <2>1. UNCHANGED vars
    BY <1>1 DEF Finished
  <2> QED
    BY <2>1 DEF vars, runVars, limitVars, importVars, netVars, timerVars, queueVars, IInv,
                CompleteMeansDone, Pending, NothingElse, NoImports, Tripped
<1>2. CASE LifecycleEnds
  <2>1. ~ engine /\ task = "none"
    BY <1>0, <1>2 DEF LifecycleEnds, IInv, RunOK, CountInv, Between
  <2>2. Idling /\ ImportsCounted /\ Numbers
    BY DEF IInv, CountInv
  <2>3. /\ Pending = {} /\ asked = 0 /\ imports = 0 /\ requests = <<>>
        /\ waiting = {} /\ micro = 0 /\ ~ Tripped /\ requested = counted
    BY <2>1, <2>2 DEF Idling, ImportsCounted, Numbers, AtImport, Tripped
  <2>4. UNCHANGED <<entries, asked, imports, requested, counted, requests, waiting, micro, opsOut, tripped>>
    BY <1>2 DEF LifecycleEnds, limitVars, importVars, netVars, timerVars, queueVars
  <2> QED
    BY <2>3, <2>4 DEF CompleteMeansDone, Pending, NothingElse, NoImports, Tripped
<1>3. CASE Idle
  <2>1. stage = "loop" /\ ~ Tripped /\ NothingElse /\ order = <<>> /\ task = "none"
    BY <1>3 DEF Idle, IInv, CountInv, Between
  <2>2. ToSet(order) = {}
    BY <2>1 DEF ToSet
  <2>3. Pending = {}
    BY <1>0, <2>1, <2>2 DEF IInv, HandOK
  <2>4. micro = 0
    BY <1>0, <2>1 DEF IInv, Drawn
  <2>5. waiting \subseteq bypassed
    <3>1. ToSet(requests) = {}
      BY <2>1 DEF NothingElse, ToSet
    <3>2. ~ opsOut /\ ~ AtRequest
      BY <2>1 DEF Tripped, AtRequest
    <3>3. Underway = {}
      BY <3>1, <3>2 DEF Underway
    <3>4. waiting \ bypassed = Underway \ bypassed
      BY <1>0, <3>2 DEF IInv, NetOK
    <3> QED
      BY <3>3, <3>4
  <2>6. requested = counted
    BY <2>1 DEF IInv, CountInv, ImportsCounted, Numbers, AtImport, NothingElse, NoImports
  <2>7. /\ UNCHANGED <<entries, asked, imports, requested, counted, requests, waiting, bypassed>>
        /\ UNCHANGED <<micro, opsOut, tripped>>
    BY <1>3 DEF Idle, limitVars, importVars, netVars, timerVars, queueVars
  <2> QED
    BY <2>1, <2>3, <2>4, <2>5, <2>6, <2>7 DEF CompleteMeansDone, Pending, NothingElse, NoImports, Tripped
<1>4. ASSUME NEW k \in AbortKinds, NEW n, GiveUp(k, n) PROVE FALSE
  BY <1>4, GivenUp DEF AbortKinds, EngineAborts
<1>5. ASSUME NEW n, Late(n) PROVE FALSE
  BY <1>4, <1>5 DEF Late, AbortKinds, EngineAborts
<1>6. ASSUME NEW s \in {"run", "ran", "drain", "micro"}, Evaluate(s) PROVE FALSE
  BY <1>6 DEF Evaluate
<1>7. CASE PageCode
  BY <1>7 DEF PageCode, OpsRunOut, TripLimit, SetTimer, SetDirectly, ClearTimer, ClearDirectly,
              QueueMicrotask, Request, CancelRequest, CancelDirectly, Import, PageRuns, runVars
<1>8. CASE Install \/ Script \/ ScriptsEnd \/ Lifecycle
  BY <1>8 DEF Install, Script, ScriptsEnd, Lifecycle
<1>9. CASE Microtask \/ MicrotaskEnds \/ Returns
  BY <1>5, <1>6, <1>9 DEF Microtask, MicrotaskEnds, Returns
<1>10. CASE Stopped
  BY <1>4, <1>10 DEF Stopped, IInv, DoomedOK, AbortKinds
<1>11. CASE ScriptRan \/ RequestRan
  BY <1>4, <1>5, <1>6, <1>11 DEF ScriptRan, RequestRan, Checkpoint, AbortKinds, EngineAborts
<1>12. CASE ImportRan
  BY <1>4, <1>5, <1>6, <1>12 DEF ImportRan, IInv, DoomedOK, AbortKinds
<1>13. CASE Drained \/ TimerRan
  BY <1>4, <1>5, <1>13, GoneOn DEF Drained, TimerRan, AbortKinds, EngineAborts
<1>14. CASE LoopTrips \/ TakeImports \/ StartImport
  BY <1>4, <1>5, <1>14 DEF LoopTrips, TakeImports, StartImport, runVars, AbortKinds, EngineAborts
<1>15. CASE ImportLoaded
  BY <1>15 DEF ImportLoaded, EngineAborts
<1>16. CASE StartRequest \/ RequestLoaded
  BY <1>5, <1>6, <1>16 DEF StartRequest, RequestLoaded
<1>17. CASE NextTimer \/ RunTimer
  BY <1>4, <1>5, <1>6, <1>17 DEF NextTimer, RunTimer, AbortKinds, EngineAborts
<1> QED
  BY <1>1, <1>2, <1>3, <1>7, <1>8, <1>9, <1>10, <1>11, <1>12, <1>13, <1>14, <1>15, <1>16, <1>17 DEF Next, Runner

-----------------------------------------------------------------------------
(* The invariant.                                                          *)

LEMMA EmptySequence ==
  /\ Len(<<>>) = 0 /\ DOMAIN <<>> = {} /\ ToSet(<<>>) = {}
  /\ \A S : <<>> \in Seq(S)
<1>1. Len(<<>>) = 0 /\ \A S : <<>> \in Seq(S)
  OBVIOUS
<1>2. DOMAIN <<>> = {}
  OBVIOUS
<1> QED
  BY <1>1, <1>2 DEF ToSet

LEMMA Initially == Init => IInv
<1> SUFFICES ASSUME Init PROVE IInv
  OBVIOUS
<1>1. ClosedInv /\ DoomedOK
  BY DEF Init, ClosedInv, Closed, Unlimited, Tripped, DoomedOK
<1>9. RunOK
  <2>1. 0 \in 0 .. MaxMicro /\ 0 \in 0 .. MaxImports /\ 2 \in 0 .. 2
    BY RunBoundsAssumption
  <2> QED
    BY <2>1 DEF Init, RunOK, NoTimer
<1>2. CountInv /\ BudgetOK /\ Drawn
  BY RunBoundsAssumption DEF Init, TimerInit, CountInv, Numbers, Between, ImportsCounted, AtImport, BudgetOK, Drawn
<1>3. Pending = {} /\ ToSet(order) = {} /\ order \in Seq(Ids) /\ DOMAIN order = {}
  BY EmptySequence DEF Init, TimerInit, Pending
<1>4. QueueOK /\ HandOK
  BY <1>3, TimerBoundsAssumption DEF Init, TimerInit, QueueOK, HandOK, Sorted, NoTimer
<1>5. ShimOK
  <2>1. Entrusted = {}
    BY <1>3 DEF Entrusted
  <2> QED
    BY <1>3, <2>1, FS_EmptySet, TimerBoundsAssumption DEF Init, TimerInit, ShimOK, Limit
<1>6. NetOK
  <2>1. requests \in Seq(1 .. accepted) /\ DOMAIN requests = {} /\ ToSet(requests) = {} /\ Len(requests) = 0
    BY EmptySequence DEF Init
  <2>2. accepted \in 0 .. MaxRequests /\ bytes \in 0 .. MaxBytes
    BY RunBoundsAssumption DEF Init
  <2>3. waiting = {} /\ bypassed = {}
    BY DEF Init
  <2>4. ~ AtRequest /\ accepted - completed - cancelled = 0
    BY DEF Init, AtRequest
  <2>5. completed \in Nat /\ cancelled \in Nat /\ limitHit \in BOOLEAN
    BY DEF Init
  <2>6. Distinct(requests)
    BY <2>1 DEF Distinct
  <2>7. Underway = {}
    BY <2>1, <2>4 DEF Underway
  <2> QED
    BY <2>1, <2>2, <2>3, <2>4, <2>5, <2>6, <2>7 DEF NetOK
<1>7. Idling
  BY <1>3 DEF Init, Idling
<1>8. CompleteMeansDone
  BY DEF Init, CompleteMeansDone
<1> QED
  BY <1>1, <1>2, <1>4, <1>5, <1>6, <1>7, <1>8, <1>9 DEF IInv

LEMMA Inductive == IInv /\ [Next]_vars => IInv'
<1> SUFFICES ASSUME IInv, [Next]_vars PROVE IInv'
  OBVIOUS
<1>0. Between /\ CountInv /\ ClosedInv /\ DoomedOK
  BY DEF IInv, CountInv
<1>1. ClosedInv' /\ DoomedOK' /\ CountInv'
  BY <1>0, StepCloses, DoomedStays, CountKept
<1>2. RunOK' /\ Drawn'
  BY RunKept DEF IInv
<1>3. QueueOK' /\ HandOK' /\ ShimOK'
  BY <1>0, QueueKept, ShimKept DEF IInv
<1>4. NetOK'
  BY <1>0, NetKept DEF IInv
<1>5. BudgetOK' /\ Idling'
  BY BudgetKept, IdlingKept DEF IInv
<1>6. CompleteMeansDone'
  BY <1>1, <1>4, DoneKept
<1> QED
  BY <1>1, <1>2, <1>3, <1>4, <1>5, <1>6 DEF IInv

LEMMA Invariance == Spec => []IInv
BY Initially, Inductive, PTL DEF Spec

\* For every limit, delay and number of scripts the variables are of their
\* types: no microtask, request, byte, import or timer fired beyond its limit.
THEOREM TypeCorrect == Spec => []TypeOK
<1>1. IInv => TypeOK
  <2> SUFFICES ASSUME IInv PROVE TypeOK
    OBVIOUS
  <2>1. TimerTypeOK
    <3>1. Pending \subseteq Ids /\ 1 .. lastId \subseteq Ids
      BY Waits, TimerBoundsAssumption DEF IInv, QueueOK, Ids
    <3>2. table \subseteq Ids /\ retained \in Nat /\ sweepAt \in Nat
      BY <3>1 DEF IInv, ShimOK
    <3> QED
      BY <3>1, <3>2 DEF IInv, QueueOK, TimerTypeOK
  <2>2. /\ requests \in Seq(1 .. MaxRequests)
        /\ waiting \subseteq 1 .. MaxRequests /\ bypassed \subseteq 1 .. MaxRequests
    <3>1. 1 .. accepted \subseteq 1 .. MaxRequests
      BY RunBoundsAssumption DEF IInv, NetOK
    <3> QED
      BY <3>1, Widened DEF IInv, NetOK
  <2>3. requested \in 0 .. MaxWork
    BY RunBoundsAssumption DEF IInv, BudgetOK, CountInv, Numbers, QueueOK, NetOK
  <2>4. doomed \in EngineAborts \cup {"none"} /\ opsOut \in BOOLEAN /\ tripped \in BOOLEAN
    BY DEF IInv, DoomedOK, ClosedInv
  <2>5. asked \in Nat /\ imports \in Nat /\ counted \in Nat
    BY DEF IInv, CountInv, Numbers
  <2>6. /\ accepted \in 0 .. MaxRequests /\ completed \in Nat /\ cancelled \in Nat
        /\ bytes \in 0 .. MaxBytes /\ limitHit \in BOOLEAN
    BY DEF IInv, NetOK
  <2>7. RunOK
    BY DEF IInv
  <2> QED
    BY <2>1, <2>2, <2>3, <2>4, <2>5, <2>6, <2>7 DEF TypeOK, RunOK
<1> QED
  BY <1>1, Invariance, PTL

\* event_loop.rs:391, timers.js:160: whatever callbacks clear and register, with
\* the shim or past it, all that is registered waits in the order it is due in,
\* but for the timer that runs; the table has the callback of each timer that
\* was registered through the shim, and no more than twice the timers that may
\* be registered.
THEOREM QueueAndTableAgree == Spec => []TimersAgree
<1>1. IInv => TimersAgree
  <2> SUFFICES ASSUME IInv PROVE TimersAgree
    OBVIOUS
  <2>1. QueueOK /\ HandOK /\ ShimOK
    BY DEF IInv
  <2>2. \A i \in DOMAIN order : order[i] \in ToSet(order)
    BY DEF ToSet
  <2>3. \A i, j \in DOMAIN order :
          /\ now <= entries[order[i]].due
          /\ i < j => order[i] # order[j] /\ entries[order[i]].due <= entries[order[j]].due
    BY <2>1, <2>2 DEF QueueOK, Sorted
  <2>4. retained <= (IF 2 * MaxTimers > SweepMin THEN 2 * MaxTimers ELSE SweepMin)
    BY <2>1, TimerBoundsAssumption DEF ShimOK, Limit
  <2>5. abort = "none" => ToSet(order) = Pending \ (IF task = "timer" THEN {hand} ELSE {})
    BY <2>1 DEF HandOK
  <2>6. (~ opsOut => Entrusted \subseteq table) /\ retained = Cardinality(table)
    BY <2>1 DEF ShimOK
  <2> QED
    BY <2>3, <2>4, <2>5, <2>6 DEF TimersAgree
<1> QED
  BY <1>1, Invariance, PTL

\* page_runner.rs:1880, page_net.rs:579: whichever way a run ends, its report
\* has every import that was taken and every request that was accepted; the
\* shim waits for the requests that are left to it and are worked at; and a run
\* without an abort has left nothing undone.
THEOREM ReportsAreTrue == Spec => []ReportIsTrue
<1>1. IInv => ReportIsTrue
  <2> SUFFICES ASSUME IInv PROVE ReportIsTrue
    OBVIOUS
  <2>1. ImportsCounted /\ CompleteMeansDone /\ NetOK
    BY DEF IInv, CountInv
  <2>2. accepted - completed - cancelled >= Len(requests)
    BY <2>1, QueueLength, RunBoundsAssumption DEF NetOK
  <2>3. /\ abort = "none" =>
             accepted - completed - cancelled = Len(requests) + (IF AtRequest THEN 1 ELSE 0)
        /\ abort = "none" /\ ~ opsOut => waiting \ bypassed = Underway \ bypassed
    BY <2>1 DEF NetOK
  <2> QED
    BY <2>1, <2>2, <2>3 DEF ReportIsTrue, NothingUncounted
<1> QED
  BY <1>1, Invariance, PTL

=============================================================================
