--------------------------- MODULE PageActorProofs ---------------------------
(***************************************************************************)
(* Theorems about PageActor, for any scopes, generations, capacities and   *)
(* threads.                                                                *)
(***************************************************************************)
EXTENDS PageActor, FiniteSetTheorems, TLAPS

\* The assumptions on the constants that the proofs use.
USE GenAssumption, CapacityAssumption, TrackedAssumption,
    NoJobAssumption, NoWorkerAssumption

-----------------------------------------------------------------------------
(* What the helpers return.                                                *)

\* JobState::complete keeps the slots and the futures well typed.
LEMMA CompleteTypes ==
  ASSUME TypeOK, NEW js \in SUBSET Jobs, NEW r \in Results
  PROVE  /\ Completed(js, r) \in [Jobs -> Results \cup {"none"}]
         /\ Notified(js) \in [Jobs -> Phases]
BY DEF TypeOK, Completed, Notified, Phases

\* Starting a cancellation, or none, keeps the lock data well typed.
LEMMA StartCancelTypes ==
  ASSUME TypeOK, NEW js \in SUBSET Jobs, StartCancel(js)
  PROVE  /\ cancelling' \in Jobs \cup {NoJob}
         /\ cancelStep' \in {"idle", "flag", "complete", "wake"}
BY DEF TypeOK, StartCancel, lockVars

\* note_generation keeps its part of the state well typed.
LEMMA NoteTypes ==
  ASSUME TypeOK, NEW s \in Scopes, NEW g \in Gens, NoteGeneration(s, g)
  PROVE  /\ latest' \in [Scopes -> 0 .. MaxGen]
         /\ cancelled' \in [Jobs -> BOOLEAN]
         /\ cancelling' \in Jobs \cup {NoJob}
         /\ cancelStep' \in {"idle", "flag", "complete", "wake"}
         /\ KeptPlaces(s, g) \in [Jobs -> Nat]
<1>1. latest' \in [Scopes -> 0 .. MaxGen]
  BY DEF NoteGeneration, Recorded, TypeOK, Gens
<1>2. cancelled' \in [Jobs -> BOOLEAN]
  BY DEF NoteGeneration, TypeOK
<1>3. Running \cap Older(s, g) \in SUBSET Jobs
  BY DEF Older
<1>4. StartCancel(Running \cap Older(s, g))
  BY DEF NoteGeneration
<1>5. /\ cancelling' \in Jobs \cup {NoJob}
      /\ cancelStep' \in {"idle", "flag", "complete", "wake"}
  BY <1>3, <1>4, StartCancelTypes
<1>6. KeptPlaces(s, g) \in [Jobs -> Nat]
  BY DEF KeptPlaces, TypeOK
<1> QED BY <1>1, <1>2, <1>5, <1>6

\* What the outcomes of run_page_scripts share keeps its part well typed.
LEMMA AcceptTypes ==
  ASSUME TypeOK, NEW j \in Jobs, NEW p \in {"poll", "returned"},
         NEW r \in Results \cup {"none"}, Accept(j, p, r)
  PROVE  /\ open' \in BOOLEAN
         /\ latest' \in [Scopes -> 0 .. MaxGen]
         /\ running' \in Jobs \cup {NoJob}
         /\ cancelling' \in Jobs \cup {NoJob}
         /\ cancelStep' \in {"idle", "flag", "complete", "wake"}
         /\ phase' \in [Jobs -> Phases]
         /\ slot' \in [Jobs -> Results \cup {"none"}]
         /\ cancelled' \in [Jobs -> BOOLEAN]
         /\ waker' \in [Jobs -> Workers \cup {NoWorker}]
         /\ KeptPlaces(j.scope, j.gen) \in [Jobs -> Nat]
<1>1. j.scope \in Scopes /\ j.gen \in Gens
  BY DEF Jobs
<1>2. NoteGeneration(j.scope, j.gen)
  BY DEF Accept
<1>3. Stale(j.scope, j.gen) \in SUBSET Jobs /\ "Cancelled" \in Results
  BY DEF Stale, Queue, Results
<1>4. /\ Completed(Stale(j.scope, j.gen), "Cancelled")
           \in [Jobs -> Results \cup {"none"}]
      /\ Notified(Stale(j.scope, j.gen)) \in [Jobs -> Phases]
  BY <1>3, CompleteTypes
<1>5. slot' \in [Jobs -> Results \cup {"none"}]
  BY <1>4 DEF Accept
<1>6. phase' \in [Jobs -> Phases]
  BY <1>4 DEF Phases, Accept
<1> QED BY <1>1, <1>2, <1>5, <1>6, NoteTypes DEF Accept, TypeOK

-----------------------------------------------------------------------------
(* Type correctness.                                                       *)

\* Every variable starts in its range.
LEMMA InitTypes == Init => TypeOK
<1> SUFFICES ASSUME Init PROVE TypeOK
  OBVIOUS
<1>1. latest \in [Scopes -> 0 .. MaxGen]
  BY DEF Init, GenAssumption
<1>2. place \in [Jobs -> Nat] /\ nextId \in Nat \ {0}
  BY DEF Init
<1>3. /\ phase \in [Jobs -> Phases]
      /\ slot \in [Jobs -> Results \cup {"none"}]
      /\ cancelled \in [Jobs -> BOOLEAN]
      /\ waker \in [Jobs -> Workers \cup {NoWorker}]
  BY DEF Phases, Init
<1>4. /\ pc \in [Workers -> Labels]
      /\ cur \in [Workers -> Jobs \cup {NoJob}]
      /\ outcome \in [Workers -> Results \cup {"none"}]
      /\ fetcher \in [Workers -> BOOLEAN]
      /\ woken \in [Workers -> BOOLEAN]
  BY DEF Init, Labels
<1>5. /\ open \in BOOLEAN /\ alive \in BOOLEAN
      /\ running \in Jobs \cup {NoJob} /\ cancelling \in Jobs \cup {NoJob}
      /\ cancelStep \in {"idle", "flag", "complete", "wake"}
  BY DEF Init
<1> QED BY <1>1, <1>2, <1>3, <1>4, <1>5 DEF TypeOK

\* The operations of the handle keep every variable in its range.
LEMMA HandleTypes ==
  ASSUME TypeOK,
         \/ \E j \in Jobs : BeginGeneration(j) \/ Submit(j)
         \/ DropHandle
  PROVE  TypeOK'
<1>1. ASSUME NEW j \in Jobs, BeginGeneration(j)
      PROVE  TypeOK'
  <2>1. j.scope \in Scopes /\ j.gen \in Gens
    BY DEF Jobs
  <2>2. NoteGeneration(j.scope, j.gen)
    BY <1>1 DEF BeginGeneration
  <2>3. Stale(j.scope, j.gen) \in SUBSET Jobs /\ "Cancelled" \in Results
    BY DEF Stale, Queue, Results
  <2>4. /\ slot' \in [Jobs -> Results \cup {"none"}]
        /\ phase' \in [Jobs -> Phases]
    BY <1>1, <2>3, CompleteTypes DEF Phases, BeginGeneration
  <2> QED BY <1>1, <2>1, <2>2, <2>4, NoteTypes DEF BeginGeneration, TypeOK, workerVars
<1>2. ASSUME NEW j \in Jobs, Submit(j)
      PROVE  TypeOK'
  <2>1. CASE SubmitSuperseded(j)
    BY <2>1 DEF Phases, SubmitSuperseded, TypeOK, stateVars, lockVars, workerVars, Results
  <2>2. CASE SubmitSkipped(j)
    <3>1. "Skipped" \in Results BY DEF Results
    <3> QED BY <2>2, <3>1, AcceptTypes DEF SubmitSkipped, TypeOK, workerVars
  <2>3. CASE SubmitBusy(j)
    <3>1. "Busy" \in Results BY DEF Results
    <3> QED BY <2>3, <3>1, AcceptTypes DEF SubmitBusy, TypeOK, workerVars
  <2>4. CASE SubmitQueued(j)
    BY <2>4, AcceptTypes DEF SubmitQueued, TypeOK, workerVars
  <2>5. CASE SubmitSpawnFails(j)
    <3>1. "SpawnFailed" \in Results BY DEF Results, Failures
    <3> QED BY <2>5, <3>1, AcceptTypes DEF SubmitSpawnFails, TypeOK, workerVars
  <2>6. CASE \E w \in Workers : SubmitSpawn(j, w)
    BY <2>6, AcceptTypes DEF SubmitSpawn, TypeOK, Labels
  <2> QED BY <1>2, <2>1, <2>2, <2>3, <2>4, <2>5, <2>6 DEF Submit
<1>3. CASE DropHandle
  <2>1. Queue \in SUBSET Jobs /\ "Cancelled" \in Results
    BY DEF Queue, Results
  <2>2. Running \in SUBSET Jobs /\ StartCancel(Running)
    BY <1>3 DEF Running, DropHandle, TypeOK
  <2>3. /\ slot' \in [Jobs -> Results \cup {"none"}]
        /\ phase' \in [Jobs -> Phases]
    BY <1>3, <2>1, CompleteTypes DEF DropHandle
  <2>4. cancelled' \in [Jobs -> BOOLEAN]
    BY <1>3 DEF DropHandle, TypeOK
  <2> QED BY <1>3, <2>2, <2>3, <2>4, StartCancelTypes
          DEF DropHandle, TypeOK, workerVars
<1> QED BY <1>1, <1>2, <1>3

\* So do the polls and drops of the callers' futures.
LEMMA CallerTypes ==
  ASSUME TypeOK, NEW j \in Jobs, CallerPoll(j) \/ DropFuture(j)
  PROVE  TypeOK'
<1>1. CASE CallerPoll(j)
  BY <1>1 DEF Phases, CallerPoll, TypeOK, stateVars, lockVars, workerVars
<1>2. CASE DropFuture(j)
  <2>1. {j} \in SUBSET Jobs /\ StartCancel({j})
    BY <1>2 DEF DropFuture
  <2> QED BY <1>2, <2>1, StartCancelTypes DEF Phases, DropFuture, TypeOK, workerVars
<1> QED BY <1>1, <1>2

\* So do the steps of a cancellation.
LEMMA CancelTypes ==
  ASSUME TypeOK, StagesOK, Cancel
  PROVE  TypeOK'
<1>0. cancelling \in Jobs
  BY DEF TypeOK, StagesOK, LockFree, Cancel, CancelFlag, CancelComplete, CancelWake
<1>1. CASE CancelFlag
  BY <1>1 DEF CancelFlag, TypeOK, stateVars, workerVars
<1>2. CASE CancelComplete
  <2>1. {cancelling} \in SUBSET Jobs /\ "Cancelled" \in Results
    BY <1>0 DEF Results
  <2>2. /\ slot' \in [Jobs -> Results \cup {"none"}]
        /\ phase' \in [Jobs -> Phases]
    BY <1>2, <2>1, CompleteTypes DEF CancelComplete, Complete
  <2> QED BY <1>2, <2>2 DEF CancelComplete, TypeOK, stateVars, workerVars
<1>3. CASE CancelWake
  BY <1>3 DEF CancelWake, TypeOK, stateVars
<1> QED BY <1>1, <1>2, <1>3 DEF Cancel

\* The worker's steps before and between the runs.
LEMMA WorkerLoopTypes ==
  ASSUME TypeOK, StagesOK, NEW w \in Workers,
         \/ Boot(w) \/ Pop(w) \/ Retire(w) \/ SkipCancelled(w)
         \/ Clear(w) \/ Exit(w)
  PROVE  TypeOK'
<1>1. CASE Boot(w)
  BY <1>1 DEF Boot, Goto, TypeOK, Labels, Results, Failures,
             stateVars, lockVars, jobVars
<1>2. CASE Pop(w)
  BY <1>2 DEF Pop, Front, Goto, TypeOK, Labels, lockVars, jobVars
<1>3. CASE Retire(w)
  BY <1>3 DEF Retire, Goto, TypeOK, Labels, lockVars, jobVars
<1>4. CASE SkipCancelled(w)
  BY <1>4 DEF SkipCancelled, Goto, TypeOK, Labels, stateVars, lockVars, jobVars
<1>5. CASE Clear(w)
  BY <1>5 DEF Clear, Goto, TypeOK, Labels, lockVars, jobVars
<1>6. CASE Exit(w)
  BY <1>6 DEF Exit, ThreadEnds, Goto, TypeOK, Labels, stateVars, lockVars
<1> QED BY <1>1, <1>2, <1>3, <1>4, <1>5, <1>6

\* The steps of a run that does not complete a request.
LEMMA WorkerRunTypes ==
  ASSUME TypeOK, StagesOK, NEW w \in Workers,
         \/ Start(w) \/ Register(w) \/ Check(w) \/ InnerDone(w)
         \/ InnerPending(w) \/ Resume(w) \/ InnerReady(w)
  PROVE  TypeOK'
<1>1. CASE Start(w)
  BY <1>1 DEF Start, Goto, TypeOK, Labels, stateVars, lockVars, jobVars
<1>2. CASE Register(w)
  BY <1>2 DEF Register, Goto, TypeOK, Labels, stateVars, lockVars
<1>3. CASE Check(w)
  BY <1>3 DEF Check, Goto, TypeOK, Labels, stateVars, lockVars, jobVars
<1>4. CASE InnerDone(w)
  BY <1>4 DEF InnerDone, Goto, TypeOK, Labels, Results,
             stateVars, lockVars, jobVars
<1>5. CASE InnerPending(w)
  BY <1>5 DEF InnerPending, Goto, TypeOK, Labels, stateVars, lockVars, jobVars
<1>6. CASE Resume(w)
  BY <1>6 DEF Resume, Goto, TypeOK, Labels, stateVars, lockVars, jobVars
<1>7. CASE InnerReady(w)
  BY <1>7 DEF InnerReady, TypeOK, stateVars, lockVars, jobVars
<1> QED BY <1>1, <1>2, <1>3, <1>4, <1>5, <1>6, <1>7

\* The steps that complete requests.
LEMMA WorkerCompleteTypes ==
  ASSUME TypeOK, StagesOK, NEW w \in Workers,
         FetcherFails(w) \/ Finish(w) \/ DropTicket(w) \/ Panic(w) \/ Guard(w)
  PROVE  TypeOK'
<1> DEFINE Typed(js, r) == js \in SUBSET Jobs /\ r \in Results
<1>1. CASE FetcherFails(w)
  <2>1. Typed({cur[w]}, "RunError")
    BY <1>1 DEF FetcherFails, StagesOK, Holding, Results
  <2>2. /\ slot' \in [Jobs -> Results \cup {"none"}]
        /\ phase' \in [Jobs -> Phases]
    BY <1>1, <2>1, CompleteTypes DEF FetcherFails, Complete
  <2> QED BY <1>1, <2>2 DEF FetcherFails, Goto, TypeOK, Labels, stateVars, lockVars
<1>2. CASE Finish(w)
  <2>1. Typed({cur[w]}, outcome[w])
    BY <1>2 DEF Finish, StagesOK, Holding, Results
  <2>2. /\ slot' \in [Jobs -> Results \cup {"none"}]
        /\ phase' \in [Jobs -> Phases]
    BY <1>2, <2>1, CompleteTypes DEF Finish, Complete
  <2> QED BY <1>2, <2>2 DEF Finish, Goto, TypeOK, Labels, stateVars, lockVars
<1>3. CASE DropTicket(w)
  <2>1. Typed({cur[w]}, "Terminated")
    BY <1>3 DEF DropTicket, StagesOK, Results, Failures
  <2>2. /\ slot' \in [Jobs -> Results \cup {"none"}]
        /\ phase' \in [Jobs -> Phases]
    BY <1>3, <2>1, CompleteTypes DEF DropTicket, Complete
  <2> QED BY <1>3, <2>2 DEF DropTicket, Goto, TypeOK, Labels, stateVars, lockVars
<1>4. CASE Panic(w)
  <2>1. Typed({cur[w]}, "Terminated")
    BY <1>4 DEF Panic, StagesOK, Holding, Results, Failures
  <2>2. /\ slot' \in [Jobs -> Results \cup {"none"}]
        /\ phase' \in [Jobs -> Phases]
    BY <1>4, <2>1, CompleteTypes DEF Panic, Complete
  <2> QED BY <1>4, <2>1, <2>2 DEF Panic, Goto, TypeOK, Labels, stateVars, lockVars
<1>5. CASE Guard(w)
  <2>1. Typed(Queue \cup Running, outcome[w])
    BY <1>5 DEF Guard, StagesOK, Results, Failures, Queue, Running, TypeOK
  <2>2. /\ slot' \in [Jobs -> Results \cup {"none"}]
        /\ phase' \in [Jobs -> Phases]
    BY <1>5, <2>1, CompleteTypes DEF Guard
  <2> QED BY <1>5, <2>2 DEF Guard, ThreadEnds, Goto, TypeOK, Labels, lockVars
<1> QED BY <1>1, <1>2, <1>3, <1>4, <1>5

\* Every step keeps the types.
LEMMA NextTypes ==
  ASSUME TypeOK, StagesOK, [Next]_vars
  PROVE  TypeOK'
<1>1. CASE UNCHANGED vars
  BY <1>1 DEF vars, stateVars, lockVars, jobVars, workerVars, TypeOK
<1>2. CASE \E w \in Workers : WorkerStep(w) \/ InnerReady(w)
  BY <1>2, WorkerLoopTypes, WorkerRunTypes, WorkerCompleteTypes DEF WorkerStep
<1> QED BY <1>1, <1>2, HandleTypes, CallerTypes, CancelTypes DEF Next

\* The steps outside the worker leave the threads alone or start a fresh one.
LEMMA StagesOutside ==
  ASSUME TypeOK, StagesOK,
         \/ \E j \in Jobs : BeginGeneration(j) \/ Submit(j)
         \/ \E j \in Jobs : CallerPoll(j) \/ DropFuture(j)
         \/ DropHandle
         \/ Cancel
  PROVE  StagesOK'
<1> DEFINE Threads == \A w \in Workers :
       /\ Holding(w) \/ pc[w] = "ticket" => cur[w] \in Jobs
       /\ pc[w] = "finish" => outcome[w] \in {"Executed", "RunError"}
       /\ pc[w] = "guard" => outcome[w] \in {"Terminated", "ExecutorFailed"}
<1>1. ASSUME NEW js \in SUBSET Jobs, StartCancel(js), LockFree
      PROVE  LockFree' <=> cancelStep' = "idle"
  BY <1>1, NoJobAssumption DEF StartCancel, lockVars, LockFree, StagesOK
<1>2. ASSUME NEW s \in Scopes, NEW g \in Gens, NoteGeneration(s, g), LockFree
      PROVE  LockFree' <=> cancelStep' = "idle"
  <2>1. Running \cap Older(s, g) \in SUBSET Jobs
    BY DEF Older
  <2> QED BY <1>1, <1>2, <2>1 DEF NoteGeneration
<1>3. CASE \E j \in Jobs : BeginGeneration(j)
  BY <1>2, <1>3 DEF BeginGeneration, StagesOK, Holding, workerVars, Jobs
<1>4. ASSUME NEW j \in Jobs, Submit(j)
      PROVE  StagesOK'
  <2>1. CASE SubmitSuperseded(j)
    BY <2>1 DEF SubmitSuperseded, StagesOK, LockFree, Holding, lockVars, workerVars
  <2>2. ASSUME NEW q \in {"poll", "returned"}, NEW r \in Results \cup {"none"},
               Accept(j, q, r)
        PROVE  LockFree' <=> cancelStep' = "idle"
    BY <1>2, <2>2 DEF Accept, Jobs
  <2>3. CASE \/ SubmitSkipped(j) \/ SubmitBusy(j) \/ SubmitQueued(j)
             \/ SubmitSpawnFails(j)
    BY <2>2, <2>3 DEF SubmitSkipped, SubmitBusy, SubmitQueued, SubmitSpawnFails,
                      StagesOK, Holding, workerVars, Results, Failures
  <2>4. CASE \E w \in Workers : SubmitSpawn(j, w)
    <3>1. PICK w \in Workers : SubmitSpawn(j, w)
      BY <2>4
    <3>2. LockFree' <=> cancelStep' = "idle"
      BY <2>2, <3>1 DEF SubmitSpawn
    <3>3. Threads'
      BY <3>1 DEF SubmitSpawn, StagesOK, Holding, TypeOK
    <3> QED BY <3>2, <3>3 DEF StagesOK
  <2> QED BY <1>4, <2>1, <2>3, <2>4 DEF Submit
<1>5. CASE \E j \in Jobs : CallerPoll(j)
  BY <1>5 DEF CallerPoll, StagesOK, LockFree, Holding, lockVars, workerVars
<1>6. CASE \E j \in Jobs : DropFuture(j)
  BY <1>1, <1>6 DEF DropFuture, StagesOK, Holding, workerVars
<1>7. CASE DropHandle
  <2>1. Running \in SUBSET Jobs
    BY DEF Running, TypeOK
  <2> QED BY <1>1, <1>7, <2>1 DEF DropHandle, StagesOK, Holding, workerVars
<1>8. CASE Cancel
  BY <1>8 DEF Cancel, CancelFlag, CancelComplete, CancelWake, StagesOK,
              LockFree, Holding, workerVars
<1> QED BY <1>3, <1>4, <1>5, <1>6, <1>7, <1>8

\* What a thread carries follows it through its own steps.
LEMMA StagesInside ==
  ASSUME TypeOK, StagesOK, NEW w \in Workers, WorkerStep(w) \/ InnerReady(w)
  PROVE  StagesOK'
<1>1. lockVars' = lockVars
  BY DEF WorkerStep, Boot, Pop, Retire, SkipCancelled, Start, FetcherFails,
         Register, Check, InnerDone, InnerPending, InnerReady, Resume, Finish,
         Clear, DropTicket, Panic, Guard, Exit
<1>2. ASSUME NEW v \in Workers, v # w
      PROVE  pc'[v] = pc[v] /\ cur'[v] = cur[v] /\ outcome'[v] = outcome[v]
  BY <1>2 DEF WorkerStep, Boot, Pop, Retire, SkipCancelled, Start, FetcherFails,
         Register, Check, InnerDone, InnerPending, InnerReady, Resume, Finish,
         Clear, DropTicket, Panic, Guard, Exit, ThreadEnds, Goto, TypeOK
<1>3. /\ (Holding(w) \/ pc[w] = "ticket" => cur[w] \in Jobs)'
      /\ (pc[w] = "finish" => outcome[w] \in {"Executed", "RunError"})'
      /\ (pc[w] = "guard" => outcome[w] \in {"Terminated", "ExecutorFailed"})'
  BY DEF WorkerStep, Boot, Pop, Retire, SkipCancelled, Start, FetcherFails,
         Register, Check, InnerDone, InnerPending, InnerReady, Resume, Finish,
         Clear, DropTicket, Panic, Guard, Exit, ThreadEnds, Goto, TypeOK,
         StagesOK, Holding
<1> QED BY <1>1, <1>2, <1>3 DEF StagesOK, Holding, LockFree, lockVars

\* The types, and what they need to be inductive.
TypeInv == TypeOK /\ StagesOK

\* TypeInv is inductive: the ranges, and what the position of a thread
\* says of the request it carries.
LEMMA TypeInvInductive ==
  /\ Init => TypeInv
  /\ TypeInv /\ [Next]_vars => TypeInv'
<1>1. ASSUME Init PROVE StagesOK
  BY <1>1 DEF Init, StagesOK, LockFree, Holding
<1>2. ASSUME TypeInv, UNCHANGED vars PROVE StagesOK'
  BY <1>2 DEF TypeInv, vars, lockVars, workerVars, StagesOK, LockFree, Holding
<1>3. ASSUME TypeInv, Next PROVE StagesOK'
  BY <1>3, StagesOutside, StagesInside DEF TypeInv, Next
<1> QED BY <1>1, <1>2, <1>3, InitTypes, NextTypes DEF TypeInv

\* Every reachable state of the actor is well typed.
THEOREM TypeCorrect == Spec => []TypeOK
<1>1. Spec => []TypeInv
  BY TypeInvInductive, PTL DEF Spec
<1>2. TypeInv => TypeOK
  BY DEF TypeInv
<1> QED BY <1>1, <1>2, PTL

-----------------------------------------------------------------------------
(* One worker, and nobody left behind.                                     *)

WorkerInv == OneWorker /\ NoStrandedQueue /\ RunningIsHeld

\* Requests leave the queue, or enter it while a worker lives: no other step
\* of the handle touches the threads.
LEMMA WorkerInvHandle ==
  ASSUME TypeInv, WorkerInv,
         \/ \E j \in Jobs : BeginGeneration(j) \/ Submit(j)
         \/ DropHandle
  PROVE  WorkerInv'
<1> USE DEF TypeInv, WorkerInv
<1>1. ASSUME NEW j \in Jobs, BeginGeneration(j)
      PROVE  WorkerInv'
  <2>1. Queue' \subseteq Queue
    BY <1>1 DEF BeginGeneration, KeptPlaces, Queue
  <2>2. UNCHANGED <<workerVars, running, alive>>
    BY <1>1 DEF BeginGeneration
  <2> QED BY <2>1, <2>2 DEF OneWorker, NoStrandedQueue, RunningIsHeld,
             Active, Holding, workerVars
<1>2. ASSUME NEW j \in Jobs, Submit(j)
      PROVE  WorkerInv'
  <2>1. CASE \/ SubmitSuperseded(j) \/ SubmitSkipped(j) \/ SubmitBusy(j)
             \/ SubmitSpawnFails(j)
    <3>1. Queue' \subseteq Queue
      BY <2>1 DEF SubmitSuperseded, SubmitSkipped, SubmitBusy, SubmitSpawnFails,
                  KeptPlaces, Queue, stateVars
    <3>2. UNCHANGED <<workerVars, running, alive>>
      BY <2>1 DEF SubmitSuperseded, SubmitSkipped, SubmitBusy, SubmitSpawnFails,
                  Accept, stateVars
    <3> QED BY <3>1, <3>2 DEF OneWorker, NoStrandedQueue, RunningIsHeld,
               Active, Holding, workerVars
  <2>2. CASE SubmitQueued(j)
    BY <2>2 DEF SubmitQueued, Accept, OneWorker, NoStrandedQueue, RunningIsHeld,
                Active, Holding, workerVars
  <2>3. ASSUME NEW w \in Workers, SubmitSpawn(j, w)
        PROVE  WorkerInv'
    <3>1. \A v \in Workers : ~ Active(v)
      BY <2>3 DEF SubmitSpawn, OneWorker
    <3>2. \A v \in Workers : Active(v)' <=> v = w
      BY <2>3, <3>1 DEF SubmitSpawn, Active, TypeOK
    <3>3. \A v \in Workers : ~ Holding(v)'
      BY <2>3, <3>1 DEF SubmitSpawn, Active, Holding, TypeOK
    <3>4. alive'
      BY <2>3 DEF SubmitSpawn
    <3> QED BY <3>2, <3>3, <3>4 DEF OneWorker, NoStrandedQueue, RunningIsHeld
  <2> QED BY <1>2, <2>1, <2>2, <2>3 DEF Submit
<1>3. CASE DropHandle
  BY <1>3 DEF DropHandle, OneWorker, NoStrandedQueue, RunningIsHeld, Queue,
              Active, Holding, workerVars
<1> QED BY <1>1, <1>2, <1>3

\* The callers and a cancellation leave the threads' places alone.
LEMMA WorkerInvCaller ==
  ASSUME TypeInv, WorkerInv,
         Cancel \/ \E j \in Jobs : CallerPoll(j) \/ DropFuture(j)
  PROVE  WorkerInv'
<1>1. UNCHANGED <<pc, cur, running, alive>>
  BY DEF Cancel, CancelFlag, CancelComplete, CancelWake, CallerPoll, DropFuture,
         stateVars, workerVars
<1>2. CASE Cancel \/ \E j \in Jobs : CallerPoll(j)
  <2>1. place' = place
    BY <1>2 DEF Cancel, CancelFlag, CancelComplete, CancelWake, CallerPoll, stateVars
  <2> QED BY <1>1, <2>1 DEF WorkerInv, OneWorker, NoStrandedQueue, RunningIsHeld,
             Queue, Active, Holding
<1>3. ASSUME NEW j \in Jobs, DropFuture(j)
      PROVE  WorkerInv'
  <2>1. Queue' \subseteq Queue
    BY <1>3 DEF DropFuture, Queue, TypeInv, TypeOK
  <2> QED BY <1>1, <2>1 DEF WorkerInv, OneWorker, NoStrandedQueue, RunningIsHeld,
             Active, Holding
<1> QED BY <1>2, <1>3

\* The worker's own steps: it is the only active thread before the step, and
\* it stays so unless it signs off with an empty queue.
LEMMA WorkerInvWorker ==
  ASSUME TypeInv, WorkerInv, NEW w \in Workers, WorkerStep(w) \/ InnerReady(w)
  PROVE  WorkerInv'
<1> USE DEF TypeInv, WorkerInv
<1>1. ASSUME NEW v \in Workers, v # w
      PROVE  pc'[v] = pc[v] /\ cur'[v] = cur[v]
  BY <1>1 DEF WorkerStep, Boot, Pop, Retire, SkipCancelled, Start, FetcherFails,
         Register, Check, InnerDone, InnerPending, InnerReady, Resume, Finish,
         Clear, DropTicket, Panic, Guard, Exit, ThreadEnds, Goto, TypeOK
<1>2. CASE Exit(w)
  <2>1. UNCHANGED <<running, alive, place>> /\ pc[w] = "exit" /\ pc'[w] = "off"
    BY <1>2 DEF Exit, ThreadEnds, Goto, stateVars, TypeOK
  <2> QED BY <1>1, <2>1 DEF OneWorker, NoStrandedQueue, RunningIsHeld,
             Active, Holding, Queue
<1>3. CASE Retire(w) \/ Guard(w)
  <2>1. alive' = FALSE /\ Queue' = {} /\ pc'[w] \in {"exit", "off"}
    BY <1>3 DEF Retire, Guard, ThreadEnds, Goto, Queue, TypeOK
  <2>2. \A v \in Workers : ~ Active(v)'
    BY <1>1, <1>3, <2>1 DEF OneWorker, Active, Retire, Guard
  <2>3. \A v \in Workers : ~ Holding(v)'
    BY <2>2 DEF Active, Holding
  <2> QED BY <2>1, <2>2, <2>3 DEF OneWorker, NoStrandedQueue, RunningIsHeld
<1>4. CASE ~ (Exit(w) \/ Retire(w) \/ Guard(w))
  <2>1. Active(w) /\ Active(w)' /\ alive' = alive
    BY <1>4 DEF WorkerStep, Boot, Pop, SkipCancelled, Start, FetcherFails,
         Register, Check, InnerDone, InnerPending, InnerReady, Resume, Finish,
         Clear, DropTicket, Panic, Goto, TypeOK, Active, stateVars
  <2>2. \A v \in Workers : Active(v)' <=> Active(v)
    BY <1>1, <2>1 DEF Active
  <2>3. \A v \in Workers : v # w => ~ Holding(v)'
    BY <1>1, <2>1 DEF OneWorker, Active, Holding
  <2>4. Holding(w)' => running' = cur'[w]
    BY <1>4 DEF WorkerStep, Boot, Pop, SkipCancelled, Start, FetcherFails,
         Register, Check, InnerDone, InnerPending, InnerReady, Resume, Finish,
         Clear, DropTicket, Panic, Goto, TypeOK, Holding, stateVars, RunningIsHeld
  <2> QED BY <2>1, <2>2, <2>3, <2>4 DEF OneWorker, NoStrandedQueue, RunningIsHeld
<1> QED BY <1>2, <1>3, <1>4

\* WorkerInv is inductive, given TypeInv.
LEMMA WorkerInvInductive ==
  /\ Init => WorkerInv
  /\ TypeInv /\ WorkerInv /\ [Next]_vars => WorkerInv'
<1>1. ASSUME Init PROVE WorkerInv
  BY <1>1 DEF Init, WorkerInv, OneWorker, NoStrandedQueue, RunningIsHeld,
              Queue, Active, Holding
<1>2. ASSUME WorkerInv, UNCHANGED vars PROVE WorkerInv'
  BY <1>2 DEF vars, stateVars, workerVars, WorkerInv, OneWorker,
              NoStrandedQueue, RunningIsHeld, Queue, Active, Holding
<1>3. ASSUME TypeInv, WorkerInv, Next PROVE WorkerInv'
  BY <1>3, WorkerInvHandle, WorkerInvCaller, WorkerInvWorker DEF Next
<1> QED BY <1>1, <1>2, <1>3 DEF TypeInv

\* At most one thread works at any time, worker_alive tells whether one does,
\* and a request that waits always has a worker that will look at it: neither
\* the sign-off of an idle worker nor the death of a busy one strands it.
THEOREM NobodyStranded ==
  Spec => [](OneWorker /\ NoStrandedQueue /\ RunningIsHeld)
<1>1. Spec => [](TypeInv /\ WorkerInv)
  BY TypeInvInductive, WorkerInvInductive, PTL DEF Spec
<1>2. WorkerInv => OneWorker /\ NoStrandedQueue /\ RunningIsHeld
  BY DEF WorkerInv
<1> QED BY <1>1, <1>2, PTL

-----------------------------------------------------------------------------
(* Newer generations cut off older ones.                                   *)

RequestInv == Apart /\ CutOff

\* What note_generation does to the requests that stay: those of the scope
\* that wait are of this generation, those of other scopes keep their record.
LEMMA NoteKeeps ==
  ASSUME TypeInv, RequestInv, NEW i \in Jobs,
         LockFree, ~ Superseded(i.scope, i.gen), NoteGeneration(i.scope, i.gen)
  PROVE  /\ \A k \in Queue \ Stale(i.scope, i.gen) :
              latest'[k.scope] = k.gen /\ ~ cancelled'[k]
         /\ \A k \in Running : \/ cancelled'[k]
                               \/ latest'[k.scope] = k.gen
                               \/ cancelling' = k /\ cancelStep' = "flag"
         /\ \A k \in Jobs : cancelled'[k] <=> cancelled[k] \/ k \in Stale(i.scope, i.gen)
         /\ cancelling' \in Running \cup {NoJob}
         /\ cancelStep' \in {"idle", "flag"}
<1> USE DEF TypeInv, RequestInv
<1>1. i.scope \in Scopes /\ i.gen \in 1 .. MaxGen
  BY DEF Jobs, Gens
<1>2. \A k \in Jobs : k.scope \in Scopes /\ k.gen \in 1 .. MaxGen
  BY DEF Jobs, Gens
<1>3. \A k \in Jobs : cancelled'[k] <=> cancelled[k] \/ k \in Stale(i.scope, i.gen)
  BY DEF NoteGeneration, TypeOK
<1>4. cancelStep = "idle"
  BY DEF StagesOK
<1>5. \/ Running \cap Older(i.scope, i.gen) = {} /\ UNCHANGED lockVars
      \/ cancelling' \in Running \cap Older(i.scope, i.gen) /\ cancelStep' = "flag"
  BY DEF NoteGeneration, StartCancel
<1>6. ASSUME NEW k \in Queue \cup Running, latest[k.scope] = k.gen,
             k \notin Older(i.scope, i.gen)
      PROVE  latest'[k.scope] = k.gen
  <2>1. k \in Jobs /\ k.scope \in Scopes /\ k.gen \in 1 .. MaxGen
    BY <1>2, <1>6 DEF Queue, Running, TypeOK
  <2>2. CASE k.scope = i.scope
    <3>1. k.gen = i.gen
      BY <1>1, <1>6, <2>1, <2>2 DEF Older, Superseded, GenAssumption
    <3> QED BY <1>1, <2>1, <2>2, <3>1 DEF NoteGeneration, Recorded
  <2>3. CASE k.scope # i.scope
    <3>1. k.scope \in Kept(i.scope)
      BY <1>6, <2>1 DEF Kept, Tracked, GenAssumption
    <3> QED BY <1>6, <2>1, <2>3, <3>1 DEF NoteGeneration, Recorded
  <2> QED BY <2>2, <2>3
<1>7. \A k \in Queue \ Stale(i.scope, i.gen) :
        latest'[k.scope] = k.gen /\ ~ cancelled'[k]
  BY <1>3, <1>6 DEF CutOff, Stale, Queue
<1>8. ASSUME NEW k \in Running
      PROVE  \/ cancelled'[k]
             \/ latest'[k.scope] = k.gen
             \/ cancelling' = k /\ cancelStep' = "flag"
  <2>1. k \in Jobs
    BY DEF Running, TypeOK
  <2>2. cancelled[k] \/ latest[k.scope] = k.gen
    BY <1>4 DEF CutOff
  <2>3. CASE k \in Older(i.scope, i.gen)
    BY <1>5, <2>3 DEF Running
  <2>4. CASE k \notin Older(i.scope, i.gen)
    BY <1>3, <1>6, <2>1, <2>2, <2>4
  <2> QED BY <2>3, <2>4
<1>9. cancelling' \in Running \cup {NoJob} /\ cancelStep' \in {"idle", "flag"}
  BY <1>4, <1>5 DEF lockVars, LockFree
<1> QED BY <1>3, <1>7, <1>8, <1>9

\* The shape that begin_generation and every accepted run_page_scripts share:
\* note_generation, and a place in the queue or none for the request i itself.
AcceptShape(i) ==
  /\ LockFree /\ Unrequested(i) /\ ~ Superseded(i.scope, i.gen)
  /\ NoteGeneration(i.scope, i.gen)
  /\ UNCHANGED <<running, cur>>
  /\ \A k \in Jobs \ {i} :
       /\ place'[k] = KeptPlaces(i.scope, i.gen)[k]
       /\ slot'[k] = Completed(Stale(i.scope, i.gen), "Cancelled")[k]
       /\ phase'[k] = Notified(Stale(i.scope, i.gen))[k]
  /\ \/ place'[i] = 0 /\ phase'[i] \notin {"none", "begun"}
     \/ place'[i] = 0 /\ slot'[i] = "none"
     \/ place'[i] > 0 /\ slot'[i] = "none" /\ phase'[i] = "poll"

\* Accepting a request keeps RequestInv for every place the request may
\* then have: the common part of all outcomes of run_page_scripts.
LEMMA AcceptKeepsRequestInv ==
  ASSUME TypeInv, RequestInv, TypeOK', NEW i \in Jobs, AcceptShape(i)
  PROVE  RequestInv'
<1> DEFINE S == Stale(i.scope, i.gen)
<1> USE DEF TypeInv, RequestInv
<1>1. /\ \A k \in Queue \ S : latest'[k.scope] = k.gen /\ ~ cancelled'[k]
      /\ \A k \in Running : \/ cancelled'[k]
                            \/ latest'[k.scope] = k.gen
                            \/ cancelling' = k /\ cancelStep' = "flag"
      /\ \A k \in Jobs : cancelled'[k] <=> cancelled[k] \/ k \in S
      /\ cancelling' \in Running \cup {NoJob}
      /\ cancelStep' \in {"idle", "flag"}
  BY NoteKeeps DEF AcceptShape
<1>2. /\ place[i] = 0 /\ ~ cancelled[i] /\ ~ Settled(i)
      /\ i # running /\ \A w \in Workers : cur[w] # i
  BY DEF AcceptShape, Apart
<1>3. i \notin S /\ ~ cancelled'[i]
  BY <1>1, <1>2 DEF Stale, Queue
<1>4. ASSUME NEW k \in Jobs, k # i
      PROVE  /\ k \in Queue' <=> k \in Queue \ S
             /\ slot'[k] = IF k \in S /\ slot[k] = "none" THEN "Cancelled" ELSE slot[k]
             /\ Unrequested(k)' => Unrequested(k)
  BY <1>4 DEF AcceptShape, KeptPlaces, Completed, Notified, Queue, Stale,
              Unrequested, TypeOK
<1>5. latest'[i.scope] = i.gen
  BY DEF AcceptShape, NoteGeneration, Recorded, Jobs
<1>6. i # cancelling' /\ running' = running /\ cur' = cur
  BY <1>1, <1>2, NoJobAssumption DEF AcceptShape, Running
<1>7. \A k \in Queue : k # running
  BY DEF Apart
<1>8. Apart'
  <2>1. ASSUME NEW k \in Jobs, Unrequested(k)'
        PROVE  /\ place'[k] = 0 /\ ~ cancelled'[k] /\ ~ Settled(k)'
               /\ k # running' /\ k # cancelling'
               /\ \A w \in Workers : cur'[w] # k
    <3>1. CASE k = i
      BY <1>2, <1>3, <1>6, <2>1, <3>1 DEF AcceptShape, Settled, Unrequested
    <3>2. CASE k # i
      <4>1. Unrequested(k)
        BY <1>4, <2>1, <3>2
      <4>2. /\ place[k] = 0 /\ ~ cancelled[k] /\ ~ Settled(k) /\ k # running
            /\ \A w \in Workers : cur[w] # k
        BY <4>1 DEF Apart
      <4>3. k \notin S /\ k \notin Queue
        BY <4>2 DEF Stale, Queue
      <4>4. place'[k] = 0
        BY <1>4, <3>2, <4>3 DEF Queue, TypeOK
      <4>5. k # cancelling'
        BY <1>1, <4>2, NoJobAssumption DEF Running
      <4> QED BY <1>1, <1>4, <1>6, <3>2, <4>2, <4>3, <4>4, <4>5 DEF Settled
    <3> QED BY <3>1, <3>2
  <2>2. ASSUME NEW k \in Queue'
        PROVE  k # running' /\ k # cancelling' /\ \A w \in Workers : cur'[w] # k
    <3>1. k \in Jobs
      BY DEF Queue
    <3>2. CASE k = i
      BY <1>2, <1>6, <3>2
    <3>3. CASE k # i
      <4>1. k \in Queue
        BY <1>4, <3>1, <3>3
      <4> QED BY <1>1, <1>6, <3>1, <4>1, NoJobAssumption DEF Apart, Running
    <3> QED BY <3>2, <3>3
  <2> QED BY <2>1, <2>2 DEF Apart
<1>9. CutOff'
  <2>1. ASSUME NEW k \in Queue'
        PROVE  latest'[k.scope] = k.gen /\ ~ cancelled'[k] /\ ~ Settled(k)'
    <3>1. k \in Jobs
      BY DEF Queue
    <3>2. CASE k = i
      BY <1>3, <1>5, <2>1, <3>2 DEF AcceptShape, Settled, Queue
    <3>3. CASE k # i
      <4>1. k \in Queue \ S /\ slot'[k] = slot[k]
        BY <1>4, <3>1, <3>3
      <4> QED BY <1>1, <4>1 DEF CutOff, Settled
    <3> QED BY <3>2, <3>3
  <2>2. ASSUME NEW k \in Jobs, cancelled'[k]
        PROVE  Settled(k)'
    <3>1. k # i
      BY <1>3, <2>2
    <3>2. k \in S \/ Settled(k)
      BY <1>1, <2>2 DEF CutOff, AcceptShape, StagesOK
    <3> QED BY <1>4, <3>1, <3>2 DEF Settled
  <2>3. Running' = Running
    BY <1>6 DEF Running
  <2> QED BY <1>1, <2>1, <2>2, <2>3 DEF CutOff
<1> QED BY <1>8, <1>9

\* RequestInv under the operations of the handle.
LEMMA RequestInvHandle ==
  ASSUME TypeInv, RequestInv, TypeOK',
         \/ \E j \in Jobs : BeginGeneration(j) \/ Submit(j)
         \/ DropHandle
  PROVE  RequestInv'
<1> USE DEF TypeInv
<1>1. ASSUME NEW j \in Jobs, BeginGeneration(j)
      PROVE  RequestInv'
  <2>1. place[j] = 0 /\ slot[j] = "none"
    BY <1>1 DEF BeginGeneration, RequestInv, Apart, Unrequested, Settled
  <2>2. place'[j] = 0 /\ slot'[j] = "none"
    BY <1>1, <2>1 DEF BeginGeneration, KeptPlaces, Completed, Stale, Queue
  <2>3. AcceptShape(j)
    BY <1>1, <2>2 DEF BeginGeneration, AcceptShape, Unrequested, workerVars,
                      TypeOK, Notified
  <2> QED BY <2>3, AcceptKeepsRequestInv
<1>2. ASSUME NEW j \in Jobs, Submit(j)
      PROVE  RequestInv'
  <2>1. CASE SubmitSuperseded(j)
    BY <2>1 DEF SubmitSuperseded, stateVars, lockVars, workerVars, TypeOK,
                RequestInv, Apart, CutOff, Unrequested, Settled, Queue, Running
  <2>2. place[j] = 0 \/ SubmitSuperseded(j)
    BY <1>2 DEF RequestInv, Apart, Submit, SubmitSkipped, SubmitBusy,
                SubmitQueued, SubmitSpawn, SubmitSpawnFails, Accept
  <2>3. CASE SubmitSkipped(j) \/ SubmitBusy(j) \/ SubmitSpawnFails(j)
    <3>1. place[j] = 0
      BY <2>3 DEF RequestInv, Apart, SubmitSkipped, SubmitBusy,
                  SubmitSpawnFails, Accept
    <3>2. phase'[j] = "returned" /\ place'[j] = 0
      BY <2>3, <3>1 DEF SubmitSkipped, SubmitBusy, SubmitSpawnFails, Accept,
                        KeptPlaces, Notified
    <3>3. AcceptShape(j)
      BY <2>3, <3>2 DEF SubmitSkipped, SubmitBusy, SubmitSpawnFails, Accept,
              AcceptShape, workerVars, Completed, Notified
    <3> QED BY <3>3, AcceptKeepsRequestInv
  <2>4. CASE SubmitQueued(j) \/ \E w \in Workers : SubmitSpawn(j, w)
    <3>1. phase'[j] = "poll" /\ slot'[j] = "none" /\ place'[j] = nextId
      BY <2>4 DEF SubmitQueued, SubmitSpawn, Accept, KeptPlaces, Notified, Completed
    <3>2. place'[j] > 0
      BY <3>1 DEF TypeOK
    <3>3. PICK q, r : Accept(j, q, r)
      BY <2>4 DEF SubmitQueued, SubmitSpawn
    <3>4. place' = [KeptPlaces(j.scope, j.gen) EXCEPT ![j] = nextId] /\ cur' = cur
      BY <2>4 DEF SubmitQueued, SubmitSpawn, workerVars
    <3>5. AcceptShape(j)
      BY <3>1, <3>2, <3>3, <3>4 DEF Accept, AcceptShape, Completed, Notified,
                                    KeptPlaces
    <3> QED BY <3>5, AcceptKeepsRequestInv
  <2> QED BY <1>2, <2>1, <2>3, <2>4 DEF Submit
<1>3. CASE DropHandle
  <2>1. Queue' = {} /\ Running' = Running /\ cancelStep = "idle"
    BY <1>3 DEF DropHandle, Queue, Running, StagesOK
  <2>2. cancelling' \in Running \cup {NoJob} /\ cancelStep' \in {"idle", "flag"}
    BY <1>3, <2>1 DEF DropHandle, StartCancel, lockVars, LockFree
  <2>3. ASSUME NEW k \in Jobs
        PROVE  /\ cancelled'[k] <=> cancelled[k] \/ k \in Queue
               /\ slot'[k] = IF k \in Queue /\ slot[k] = "none"
                               THEN "Cancelled" ELSE slot[k]
               /\ Unrequested(k)' <=> Unrequested(k)
               /\ place'[k] = 0
    BY <1>3 DEF DropHandle, Completed, Notified, Unrequested, TypeOK
  <2>4. Apart'
    <3>1. ASSUME NEW k \in Jobs, Unrequested(k)'
          PROVE  /\ place'[k] = 0 /\ ~ cancelled'[k] /\ ~ Settled(k)'
                 /\ k # running' /\ k # cancelling'
                 /\ \A w \in Workers : cur'[w] # k
      <4>1. /\ place[k] = 0 /\ ~ cancelled[k] /\ ~ Settled(k) /\ k # running
            /\ \A w \in Workers : cur[w] # k
        BY <2>3, <3>1 DEF RequestInv, Apart
      <4>2. k \notin Queue /\ k # cancelling'
        BY <2>2, <4>1, NoJobAssumption DEF Queue, Running
      <4> QED BY <1>3, <2>3, <4>1, <4>2 DEF DropHandle, Settled, workerVars
    <3> QED BY <2>1, <3>1 DEF Apart
  <2>5. CutOff'
    <3>1. \A k \in Running' : cancelled'[k] \/ latest'[k.scope] = k.gen
      BY <1>3, <2>1, <2>3 DEF RequestInv, CutOff, Running, TypeOK, DropHandle
    <3>2. \A k \in Jobs : cancelled'[k] => Settled(k)'
      BY <2>1, <2>3 DEF RequestInv, CutOff, Settled
    <3> QED BY <2>1, <3>1, <3>2 DEF CutOff
  <2> QED BY <2>4, <2>5 DEF RequestInv
<1> QED BY <1>1, <1>2, <1>3

\* RequestInv under the callers' steps and under a cancellation.
LEMMA RequestInvCaller ==
  ASSUME TypeInv, RequestInv,
         Cancel \/ \E j \in Jobs : CallerPoll(j) \/ DropFuture(j)
  PROVE  RequestInv'
<1> USE DEF TypeInv
<1>1. ASSUME NEW j \in Jobs, CallerPoll(j)
      PROVE  RequestInv'
  BY <1>1 DEF CallerPoll, stateVars, lockVars, workerVars, TypeOK,
              RequestInv, Apart, CutOff, Unrequested, Settled, Queue, Running
<1>2. ASSUME NEW j \in Jobs, DropFuture(j)
      PROVE  RequestInv'
  <2>1. cancelling' = j /\ cancelStep' = "flag" /\ cancelStep = "idle"
    BY <1>2 DEF DropFuture, StartCancel, StagesOK
  <2>2. j \notin Queue' /\ Queue' \subseteq Queue /\ ~ Unrequested(j)'
    BY <1>2 DEF DropFuture, Queue, TypeOK, Unrequested
  <2>3. \A k \in Jobs : Unrequested(k)' => Unrequested(k) /\ place'[k] = place[k]
    BY <1>2 DEF DropFuture, Unrequested, TypeOK
  <2>4. UNCHANGED <<latest, running, slot, cancelled, cur>>
    BY <1>2 DEF DropFuture, workerVars
  <2>5. Apart'
    BY <2>1, <2>2, <2>3, <2>4 DEF RequestInv, Apart, Settled
  <2>6. CutOff'
    BY <2>1, <2>2, <2>4 DEF RequestInv, CutOff, Settled, Running
  <2> QED BY <2>5, <2>6 DEF RequestInv
<1>3. CASE CancelFlag
  <2>1. cancelling \in Jobs
    BY <1>3 DEF CancelFlag, StagesOK, LockFree, TypeOK
  <2> QED BY <1>3, <2>1 DEF CancelFlag, stateVars, workerVars, TypeOK,
              RequestInv, Apart, CutOff, Unrequested, Settled, Queue, Running
<1>4. CASE CancelComplete
  <2>1. cancelling \in Jobs
    BY <1>4 DEF CancelComplete, StagesOK, LockFree, TypeOK
  <2> QED BY <1>4, <2>1 DEF CancelComplete, Complete, Completed, Notified,
              stateVars, workerVars, TypeOK,
              RequestInv, Apart, CutOff, Unrequested, Settled, Queue, Running
<1>5. CASE CancelWake
  BY <1>5, NoJobAssumption DEF CancelWake, stateVars, workerVars, TypeOK,
              RequestInv, Apart, CutOff, Unrequested, Settled, Queue, Running
<1> QED BY <1>1, <1>2, <1>3, <1>4, <1>5 DEF Cancel

\* RequestInv under the steps of the worker thread.
LEMMA RequestInvWorker ==
  ASSUME TypeInv, RequestInv, NEW w \in Workers, WorkerStep(w) \/ InnerReady(w)
  PROVE  RequestInv'
<1> USE DEF TypeInv
<1>1. CASE Pop(w)
  <2>1. PICK j \in Jobs : /\ j \in Queue
                          /\ place' = [place EXCEPT ![j] = 0]
                          /\ running' = j
                          /\ cur' = [cur EXCEPT ![w] = j]
    BY <1>1 DEF Pop, Front
  <2>2. UNCHANGED <<latest, cancelling, cancelStep, phase, slot, cancelled>>
    BY <1>1 DEF Pop, lockVars, jobVars
  <2>3. Queue' = Queue \ {j} /\ ~ Unrequested(j)
    BY <2>1 DEF Queue, TypeOK, RequestInv, Apart
  <2> QED BY <2>1, <2>2, <2>3 DEF RequestInv, Apart, CutOff, Unrequested,
             Settled, Running, TypeOK
<1>2. CASE FetcherFails(w) \/ Finish(w) \/ DropTicket(w) \/ Panic(w)
  <2>1. PICK r \in Results : Complete(cur[w], r)
    BY <1>2 DEF FetcherFails, Finish, DropTicket, Panic, StagesOK,
                Results, Failures
  <2>2. UNCHANGED <<stateVars, lockVars, cancelled>>
    BY <1>2 DEF FetcherFails, Finish, DropTicket, Panic
  <2>3. \A v \in Workers : cur'[v] \in {cur[v], NoJob}
    BY <1>2 DEF FetcherFails, Finish, DropTicket, Panic, TypeOK
  <2>4. \A k \in Jobs : /\ Unrequested(k)' <=> Unrequested(k)
                        /\ Settled(k) => Settled(k)'
                        /\ slot'[k] # slot[k] => k = cur[w]
    BY <2>1 DEF Complete, Completed, Notified, Unrequested, Settled, TypeOK
  <2> QED BY <2>2, <2>3, <2>4, NoJobAssumption DEF stateVars, lockVars,
             RequestInv, Apart, CutOff, Settled, Queue, Running
<1>3. CASE Guard(w)
  <2>1. Queue' = {} /\ Running' = {}
    BY <1>3 DEF Guard, Queue, Running
  <2>2. UNCHANGED <<latest, cancelling, cancelStep, cancelled>>
    BY <1>3 DEF Guard, lockVars
  <2>3. \A v \in Workers : cur'[v] \in {cur[v], NoJob}
    BY <1>3 DEF Guard, ThreadEnds, TypeOK
  <2>4. \A k \in Jobs : /\ Unrequested(k)' <=> Unrequested(k)
                        /\ Settled(k) => Settled(k)'
                        /\ slot'[k] # slot[k] => k \in Queue \cup Running
                        /\ place'[k] = 0
    BY <1>3 DEF Guard, Completed, Notified, Unrequested, Settled, TypeOK
  <2> QED BY <1>3, <2>1, <2>2, <2>3, <2>4, NoJobAssumption DEF
             Guard, RequestInv, Apart, CutOff, Settled, Queue, Running
<1>4. CASE ~ (Pop(w) \/ FetcherFails(w) \/ Finish(w) \/ DropTicket(w)
               \/ Panic(w) \/ Guard(w))
  <2>1. UNCHANGED <<latest, place, cancelling, cancelStep, phase, slot, cancelled>>
    BY <1>4 DEF WorkerStep, Boot, Retire, SkipCancelled, Start, Register, Check,
         InnerDone, InnerPending, InnerReady, Resume, Clear, Exit, ThreadEnds,
         stateVars, lockVars, jobVars
  <2>2. running' \in {running, NoJob} /\ \A v \in Workers : cur'[v] \in {cur[v], NoJob}
    BY <1>4 DEF WorkerStep, Boot, Retire, SkipCancelled, Start, Register, Check,
         InnerDone, InnerPending, InnerReady, Resume, Clear, Exit, ThreadEnds,
         stateVars, TypeOK
  <2> QED BY <2>1, <2>2, NoJobAssumption DEF RequestInv, Apart, CutOff,
             Unrequested, Settled, Queue, Running
<1> QED BY <1>1, <1>2, <1>3, <1>4

\* RequestInv is inductive, given TypeInv and WorkerInv.
LEMMA RequestInvInductive ==
  /\ Init => RequestInv
  /\ TypeInv /\ TypeInv' /\ RequestInv /\ [Next]_vars => RequestInv'
<1>1. ASSUME Init PROVE RequestInv
  BY <1>1, NoJobAssumption DEF Init, RequestInv, Apart, CutOff, Unrequested,
              Settled, Queue, Running
<1>2. ASSUME RequestInv, UNCHANGED vars PROVE RequestInv'
  BY <1>2 DEF vars, stateVars, lockVars, jobVars, workerVars, RequestInv, Apart,
              CutOff, Unrequested, Settled, Queue, Running
<1>3. ASSUME TypeInv, TypeInv', RequestInv, Next PROVE RequestInv'
  BY <1>3, RequestInvHandle, RequestInvCaller, RequestInvWorker DEF Next, TypeInv
<1> QED BY <1>1, <1>2, <1>3

\* The types, the worker and the requests: everything proved below rests on it.
IInv == TypeInv /\ WorkerInv /\ RequestInv

\* The three parts together are inductive.
LEMMA IInvInductive ==
  /\ Init => IInv
  /\ IInv /\ [Next]_vars => IInv'
BY TypeInvInductive, WorkerInvInductive, RequestInvInductive DEF IInv

\* The inductive invariant holds in every behaviour.
LEMMA IInvHolds == Spec => []IInv
BY IInvInductive, PTL DEF Spec

\* A newer generation always finds the older requests of its scope: what waits
\* is the newest that was announced, what runs is the newest or was cut off,
\* even when records of other scopes were evicted in between.
THEOREM OnlyNewestRuns == Spec => [](NewestOnly /\ CutOff)
<1>1. IInv => NewestOnly /\ CutOff
  BY DEF IInv, TypeInv, RequestInv, CutOff, NewestOnly, StagesOK
<1> QED BY <1>1, IInvHolds, PTL

\* The first result wins: no late ticket, guard or cancellation replaces it.
THEOREM FirstResultStays == Spec => FirstResultWins
<1>1. ASSUME IInv, [Next]_vars
      PROVE  (\A j \in Jobs : Settled(j) => slot'[j] = slot[j]) \/ UNCHANGED vars
  <2> USE <1>1 DEF IInv, TypeInv
  <2>1. ASSUME NEW j \in Jobs, BeginGeneration(j) \/ Submit(j)
        PROVE  \A k \in Jobs : Settled(k) => slot'[k] = slot[k]
    <3>1. ~ Settled(j)
      BY <2>1 DEF RequestInv, Apart, BeginGeneration, Submit, SubmitSuperseded,
            SubmitSkipped, SubmitBusy, SubmitQueued, SubmitSpawn,
            SubmitSpawnFails, Accept, Unrequested
    <3> QED BY <2>1, <3>1 DEF BeginGeneration, Submit, SubmitSuperseded,
            SubmitSkipped, SubmitBusy, SubmitQueued, SubmitSpawn,
            SubmitSpawnFails, Accept, Completed, Settled, TypeOK
  <2>2. CASE DropHandle
    BY <2>2 DEF DropHandle, Completed, Settled
  <2>3. CASE Cancel \/ \E j \in Jobs : CallerPoll(j) \/ DropFuture(j)
    BY <2>3 DEF Cancel, CancelFlag, CancelComplete, CancelWake, CallerPoll,
                DropFuture, Complete, Completed, Settled
  <2>4. ASSUME NEW w \in Workers, WorkerStep(w) \/ InnerReady(w)
        PROVE  \A k \in Jobs : Settled(k) => slot'[k] = slot[k]
    BY <2>4 DEF WorkerStep, Boot, Pop, Retire, SkipCancelled, Start,
         FetcherFails, Register, Check, InnerDone, InnerPending, InnerReady,
         Resume, Finish, Clear, DropTicket, Panic, Guard, Exit, Complete,
         Completed, Settled, jobVars
  <2> QED BY <1>1, <2>1, <2>2, <2>3, <2>4 DEF Next
<1>2. IInv /\ [Next]_vars => [\A j \in Jobs : Settled(j) => slot'[j] = slot[j]]_vars
  BY <1>1
<1> QED BY <1>2, IInvHolds, PTL DEF Spec, FirstResultWins

\* JS-4: once a newer generation of its scope is on record, a request without a
\* result does not end as executed any more.
THEOREM StaleStaysUnexecuted == Spec => StaleNeverExecutes
<1> DEFINE Step == \A j \in Jobs :
       LockFree /\ latest[j.scope] > j.gen /\ ~ Settled(j) => slot'[j] # "Executed"
<1>1. ASSUME IInv, Next
      PROVE  Step
  <2> USE <1>1 DEF IInv, TypeInv
  <2> SUFFICES ASSUME NEW j \in Jobs, LockFree, latest[j.scope] > j.gen,
                      ~ Settled(j), slot'[j] = "Executed"
               PROVE  FALSE
    OBVIOUS
  <2>1. slot[j] = "none"
    BY DEF Settled
  <2>2. PICK w \in Workers : Finish(w) \/ Guard(w)
    <3>1. ASSUME NEW i \in Jobs, BeginGeneration(i) \/ Submit(i)
          PROVE  FALSE
      BY <2>1, <3>1 DEF BeginGeneration, Submit, SubmitSuperseded,
         SubmitSkipped, SubmitBusy, SubmitQueued, SubmitSpawn, SubmitSpawnFails,
         Accept, Completed, TypeOK
    <3>2. ~ DropHandle
      BY <2>1 DEF DropHandle, Completed
    <3>3. ASSUME Cancel \/ \E i \in Jobs : CallerPoll(i) \/ DropFuture(i)
          PROVE  FALSE
      BY <2>1, <3>3 DEF Cancel, CancelFlag, CancelComplete, CancelWake,
         CallerPoll, DropFuture, Complete, Completed
    <3>4. ASSUME NEW v \in Workers, WorkerStep(v) \/ InnerReady(v)
          PROVE  Finish(v) \/ Guard(v)
      BY <2>1, <3>4 DEF WorkerStep, Boot, Pop, Retire, SkipCancelled,
         Start, FetcherFails, Register, Check, InnerDone, InnerPending,
         InnerReady, Resume, Clear, DropTicket, Panic, Exit, Complete,
         Completed, jobVars
    <3> QED BY <1>1, <3>1, <3>2, <3>3, <3>4 DEF Next
  <2>3. ~ Guard(w)
    BY <2>1 DEF Guard, Completed, StagesOK
  <2>4. Finish(w) /\ cur[w] = j
    BY <2>1, <2>2, <2>3 DEF Finish, Complete, Completed
  <2>5. running = j
    BY <2>4 DEF WorkerInv, RunningIsHeld, Holding, Finish
  <2>6. cancelStep = "idle" /\ latest[j.scope] # j.gen
    BY DEF StagesOK, TypeOK, Jobs, Gens, GenAssumption
  <2>7. cancelled[j]
    BY <2>5, <2>6, NoJobAssumption DEF RequestInv, CutOff, Running
  <2> QED BY <2>6, <2>7 DEF RequestInv, CutOff
<1>2. IInv /\ [Next]_vars => [Step]_vars
  BY <1>1
<1> QED BY <1>2, IInvHolds, PTL DEF Spec, StaleNeverExecutes

-----------------------------------------------------------------------------
(* No lost wakeup.                                                         *)

\* Between leaving its waker and sleeping, a run is either registered or woken,
\* and the cancellation that set its flag has not yet passed the waker by.
WakeInv ==
  \A w \in Workers :
    /\ pc[w] \in {"check", "inner", "parked"} => waker[cur[w]] = w \/ woken[w]
    /\ pc[w] \in {"inner", "parked"} /\ cancelled[cur[w]] =>
         woken[w] \/ (cancelling = cur[w] /\ waker[cur[w]] = w)

\* Outside the worker only a cancellation touches a run, and it starts with the
\* State lock free, when every cut-off run is awake already.
LEMMA WakeInvOutside ==
  ASSUME IInv, WakeInv,
         \/ \E j \in Jobs : BeginGeneration(j) \/ Submit(j)
         \/ \E j \in Jobs : CallerPoll(j) \/ DropFuture(j)
         \/ DropHandle
  PROVE  WakeInv'
<1> USE DEF IInv, TypeInv
<1>1. ASSUME NEW w \in Workers, pc[w] \in {"check", "inner", "parked"}
      PROVE  pc'[w] = pc[w] /\ cur'[w] = cur[w] /\ woken'[w] = woken[w]
  BY <1>1 DEF BeginGeneration, Submit, SubmitSuperseded, SubmitSkipped,
       SubmitBusy, SubmitQueued, SubmitSpawn, SubmitSpawnFails, CallerPoll,
       DropFuture, DropHandle, workerVars, TypeOK
<1>2. ASSUME NEW w \in Workers, pc'[w] \in {"check", "inner", "parked"}
      PROVE  pc[w] = pc'[w]
  BY <1>2 DEF BeginGeneration, Submit, SubmitSuperseded, SubmitSkipped,
       SubmitBusy, SubmitQueued, SubmitSpawn, SubmitSpawnFails, CallerPoll,
       DropFuture, DropHandle, workerVars, TypeOK
<1>3. waker' = waker
  BY DEF BeginGeneration, Submit, SubmitSuperseded, SubmitSkipped,
       SubmitBusy, SubmitQueued, SubmitSpawn, SubmitSpawnFails, Accept,
       CallerPoll, DropFuture, DropHandle
<1>4. LockFree \/ UNCHANGED lockVars
  BY DEF BeginGeneration, Submit, SubmitSuperseded, SubmitSkipped,
       SubmitBusy, SubmitQueued, SubmitSpawn, SubmitSpawnFails, Accept,
       CallerPoll, DropFuture, DropHandle
<1>5. \A k \in Jobs \ Queue : cancelled'[k] = cancelled[k]
  <2>1. ASSUME NEW j \in Jobs, BeginGeneration(j) \/ Submit(j)
        PROVE  \/ NoteGeneration(j.scope, j.gen)
               \/ cancelled' = cancelled
    BY <2>1 DEF BeginGeneration, Submit, SubmitSuperseded, SubmitSkipped,
         SubmitBusy, SubmitQueued, SubmitSpawn, SubmitSpawnFails, Accept
  <2>2. ASSUME NEW j \in Jobs, NoteGeneration(j.scope, j.gen)
        PROVE  \A k \in Jobs \ Queue : cancelled'[k] = cancelled[k]
    BY <2>2 DEF NoteGeneration, Stale, TypeOK
  <2>3. CASE DropHandle
    BY <2>3 DEF DropHandle, TypeOK
  <2>4. CASE \E j \in Jobs : CallerPoll(j) \/ DropFuture(j)
    BY <2>4 DEF CallerPoll, DropFuture
  <2> QED BY <2>1, <2>2, <2>3, <2>4
<1>6. ASSUME NEW w \in Workers, pc[w] \in {"inner", "parked"}
      PROVE  cancelled'[cur[w]] = cancelled[cur[w]] /\ cur[w] # NoJob
  <2>1. cur[w] \in Jobs
    BY <1>6 DEF StagesOK, Holding
  <2>2. cur[w] \notin Queue
    BY DEF RequestInv, Apart
  <2> QED BY <1>5, <2>1, <2>2, NoJobAssumption
<1> QED BY <1>1, <1>2, <1>3, <1>4, <1>6 DEF WakeInv, LockFree, lockVars

\* WakeInv under the steps of a cancellation, which set the flag before they
\* take the waker.
LEMMA WakeInvCancel ==
  ASSUME IInv, WakeInv, Cancel
  PROVE  WakeInv'
<1> USE DEF IInv, TypeInv
<1>1. cancelling \in Jobs
  BY DEF Cancel, CancelFlag, CancelComplete, CancelWake, StagesOK, LockFree, TypeOK
<1>2. CASE CancelFlag
  BY <1>1, <1>2 DEF CancelFlag, workerVars, WakeInv, TypeOK
<1>3. CASE CancelComplete
  BY <1>3 DEF CancelComplete, workerVars, WakeInv
<1>4. CASE CancelWake
  <2>1. \A w \in Workers : woken'[w] = (woken[w] \/ w = waker[cancelling])
    BY <1>4 DEF CancelWake
  <2>2. \A k \in Jobs : k # cancelling => waker'[k] = waker[k]
    BY <1>4 DEF CancelWake, TypeOK
  <2>3. UNCHANGED <<pc, cur, cancelled>>
    BY <1>4 DEF CancelWake
  <2>4. ASSUME NEW w \in Workers, pc[w] \in {"check", "inner", "parked"}
        PROVE  cur[w] \in Jobs
    BY <2>4 DEF StagesOK, Holding
  <2>5. ASSUME NEW w \in Workers, pc[w] \in {"check", "inner", "parked"},
               waker[cur[w]] = w \/ woken[w]
        PROVE  waker'[cur[w]] = w \/ woken'[w]
    BY <2>1, <2>2, <2>4, <2>5
  <2>6. ASSUME NEW w \in Workers,
               woken[w] \/ (cancelling = cur[w] /\ waker[cur[w]] = w)
        PROVE  woken'[w]
    BY <2>1, <2>6
  <2> QED BY <2>3, <2>5, <2>6 DEF WakeInv
<1> QED BY <1>2, <1>3, <1>4 DEF Cancel

\* WakeInv under the steps of the worker, which leaves its waker before it
\* looks at the flag.
LEMMA WakeInvWorker ==
  ASSUME IInv, WakeInv, NEW w \in Workers, WorkerStep(w) \/ InnerReady(w)
  PROVE  WakeInv'
<1> USE DEF IInv, TypeInv
<1>1. ASSUME NEW v \in Workers, v # w
      PROVE  /\ pc'[v] = pc[v] /\ cur'[v] = cur[v] /\ woken'[v] = woken[v]
  BY <1>1 DEF WorkerStep, Boot, Pop, Retire, SkipCancelled, Start, FetcherFails,
         Register, Check, InnerDone, InnerPending, InnerReady, Resume, Finish,
         Clear, DropTicket, Panic, Guard, Exit, ThreadEnds, Goto, TypeOK
<1>2. UNCHANGED <<cancelled, cancelling>>
  BY DEF WorkerStep, Boot, Pop, Retire, SkipCancelled, Start, FetcherFails,
         Register, Check, InnerDone, InnerPending, InnerReady, Resume, Finish,
         Clear, DropTicket, Panic, Guard, Exit, jobVars, lockVars
<1>3. ASSUME NEW v \in Workers, v # w, pc[v] \in {"check", "inner", "parked"}
      PROVE  waker'[cur[v]] = waker[cur[v]] \/ waker[cur[v]] # v
  <2>1. cur[v] \in Jobs /\ Active(v)
    BY <1>3 DEF StagesOK, Holding, Active
  <2>2. ~ Active(w)
    BY <1>3, <2>1 DEF WorkerInv, OneWorker
  <2>3. Exit(w)
    BY <2>2 DEF Active, WorkerStep, Boot, Pop, Retire, SkipCancelled, Start,
         FetcherFails, Register, Check, InnerDone, InnerPending, InnerReady,
         Resume, Finish, Clear, DropTicket, Panic, Guard
  <2> QED BY <1>3, <2>1, <2>3 DEF Exit, ThreadEnds
<1>4. /\ (pc[w] \in {"check", "inner", "parked"} => waker[cur[w]] = w \/ woken[w])'
      /\ (pc[w] \in {"inner", "parked"} /\ cancelled[cur[w]] =>
           woken[w] \/ (cancelling = cur[w] /\ waker[cur[w]] = w))'
  <2>1. CASE Register(w)
    <3>1. cur[w] \in Jobs
      BY <2>1 DEF Register, StagesOK, Holding
    <3> QED BY <2>1, <3>1 DEF Register, Goto, TypeOK
  <2>2. CASE Check(w) \/ InnerPending(w)
    BY <2>2 DEF Check, InnerPending, Goto, TypeOK, WakeInv, jobVars, lockVars
  <2>3. CASE InnerReady(w)
    BY <2>3 DEF InnerReady, TypeOK
  <2>4. CASE ~ (Register(w) \/ Check(w) \/ InnerPending(w) \/ InnerReady(w))
    <3>1. pc'[w] \notin {"check", "inner", "parked"}
      BY <2>4 DEF WorkerStep, Boot, Pop, Retire, SkipCancelled, Start,
         FetcherFails, InnerDone, Resume, Finish, Clear, DropTicket, Panic,
         Guard, Exit, ThreadEnds, Goto, TypeOK
    <3> QED BY <3>1
  <2> QED BY <2>1, <2>2, <2>3, <2>4
<1>5. ASSUME NEW v \in Workers, v # w
      PROVE  /\ (pc[v] \in {"check", "inner", "parked"} => waker[cur[v]] = v \/ woken[v])'
             /\ (pc[v] \in {"inner", "parked"} /\ cancelled[cur[v]] =>
                  woken[v] \/ (cancelling = cur[v] /\ waker[cur[v]] = v))'
  BY <1>1, <1>2, <1>3, <1>5 DEF WakeInv
<1> QED BY <1>4, <1>5 DEF WakeInv

\* No lost wakeup: a run that was cut off never sleeps unless its wakeup is on
\* the way.  It rests on register_worker before is_cancelled in the worker and
\* on the flag before the waker in cancel().
THEOREM NoLostWakeup == Spec => []CutOffRunWakes
<1>1. Init => WakeInv
  BY DEF Init, WakeInv
<1>2. ASSUME IInv, WakeInv, [Next]_vars
      PROVE  WakeInv'
  <2>1. CASE UNCHANGED vars
    BY <1>2, <2>1 DEF vars, jobVars, workerVars, lockVars, WakeInv
  <2>2. CASE Next
    BY <1>2, <2>2, WakeInvOutside, WakeInvCancel, WakeInvWorker DEF Next
  <2> QED BY <1>2, <2>1, <2>2
<1>3. WakeInv => CutOffRunWakes
  BY DEF WakeInv, CutOffRunWakes
<1> QED BY <1>1, <1>2, <1>3, IInvHolds, PTL DEF Spec

-----------------------------------------------------------------------------
(* Every caller's request is known to somebody.                            *)

\* A thread between two requests carries none, and one that dies has answered
\* the request it carried.
ServedInv ==
  /\ NoOrphan
  /\ \A w \in Workers :
       /\ pc[w] \in {"off", "boot", "pop", "exit"} => cur[w] = NoJob
       /\ pc[w] = "guard" /\ cur[w] # NoJob => Settled(cur[w])

\* ServedInv under the operations of the handle and under a cancellation.
LEMMA ServedOutside ==
  ASSUME IInv, ServedInv,
         \/ \E j \in Jobs : BeginGeneration(j) \/ Submit(j)
         \/ DropHandle
  PROVE  ServedInv'
<1> USE DEF IInv, TypeInv
<1>1. cur' = cur /\ \A w \in Workers : Active(w) => Active(w)'
  BY DEF BeginGeneration, Submit, SubmitSuperseded, SubmitSkipped,
       SubmitBusy, SubmitQueued, SubmitSpawn, SubmitSpawnFails,
       DropHandle, workerVars, Active, TypeOK
<1>2. \A w \in Workers : \/ pc'[w] = pc[w]
                         \/ pc[w] = "off" /\ pc'[w] = "boot"
  <2>1. ASSUME NEW j \in Jobs, NEW v \in Workers, SubmitSpawn(j, v)
        PROVE  \A w \in Workers : \/ pc'[w] = pc[w]
                                  \/ pc[w] = "off" /\ pc'[w] = "boot"
    BY <2>1 DEF SubmitSpawn, TypeOK
  <2>2. ASSUME NEW j \in Jobs, BeginGeneration(j) \/ Submit(j),
               ~ \E v \in Workers : SubmitSpawn(j, v)
        PROVE  pc' = pc
    BY <2>2 DEF BeginGeneration, Submit, SubmitSuperseded, SubmitSkipped,
         SubmitBusy, SubmitQueued, SubmitSpawnFails, workerVars
  <2>3. CASE DropHandle
    BY <2>3 DEF DropHandle, workerVars
  <2> QED BY <2>1, <2>2, <2>3
<1>3. \A k \in Jobs : Settled(k) => Settled(k)'
  <2>1. ASSUME NEW j \in Jobs, BeginGeneration(j) \/ Submit(j)
        PROVE  ~ Settled(j)
    BY <2>1 DEF RequestInv, Apart, BeginGeneration, Submit, SubmitSuperseded,
            SubmitSkipped, SubmitBusy, SubmitQueued, SubmitSpawn,
            SubmitSpawnFails, Accept, Unrequested
  <2>2. ASSUME NEW j \in Jobs, BeginGeneration(j) \/ Submit(j)
        PROVE  \A k \in Jobs : Settled(k) => Settled(k)'
    BY <2>1, <2>2 DEF BeginGeneration, Submit, SubmitSuperseded,
            SubmitSkipped, SubmitBusy, SubmitQueued, SubmitSpawn,
            SubmitSpawnFails, Accept, Completed, Settled, TypeOK
  <2>3. CASE DropHandle
    BY <2>3 DEF DropHandle, Completed, Settled
  <2> QED BY <2>2, <2>3
<1>4. ASSUME NEW k \in Jobs, Pending(k)', ~ Settled(k)'
      PROVE  k \in Queue' \/ (Pending(k) /\ ~ Settled(k) /\ k \notin Queue)
  <2>1. CASE DropHandle
    BY <1>3, <1>4, <2>1 DEF DropHandle, Notified, Completed, Settled, Pending, TypeOK
  <2>2. ASSUME NEW j \in Jobs, BeginGeneration(j) \/ Submit(j), k # j
        PROVE  \/ k \in Queue'
               \/ Pending(k) /\ ~ Settled(k) /\ k \notin Queue
    <3>1. CASE SubmitSuperseded(j)
      BY <1>3, <1>4, <2>2, <3>1 DEF SubmitSuperseded, Pending, Settled, Queue,
                                    stateVars
    <3>2. CASE ~ SubmitSuperseded(j)
      <4>1. /\ slot'[k] = Completed(Stale(j.scope, j.gen), "Cancelled")[k]
            /\ phase'[k] = Notified(Stale(j.scope, j.gen))[k]
            /\ place'[k] = KeptPlaces(j.scope, j.gen)[k]
        BY <2>2, <3>2 DEF BeginGeneration, Submit, SubmitSkipped, SubmitBusy,
             SubmitQueued, SubmitSpawn, SubmitSpawnFails, Accept, Completed,
             Notified, KeptPlaces
      <4> QED BY <1>4, <4>1 DEF Completed, Notified, KeptPlaces, Stale, Queue,
                 Pending, Settled
    <3> QED BY <3>1, <3>2
  <2>3. ASSUME BeginGeneration(k) \/ Submit(k)
        PROVE  k \in Queue'
    <3>1. CASE SubmitQueued(k) \/ \E w \in Workers : SubmitSpawn(k, w)
      BY <3>1 DEF SubmitQueued, SubmitSpawn, Queue, KeptPlaces, TypeOK
    <3>2. CASE \/ BeginGeneration(k) \/ SubmitSuperseded(k) \/ SubmitSkipped(k)
               \/ SubmitBusy(k) \/ SubmitSpawnFails(k)
      BY <1>4, <3>2 DEF BeginGeneration, SubmitSuperseded, SubmitSkipped,
           SubmitBusy, SubmitSpawnFails, Accept, Notified, Pending, TypeOK
    <3> QED BY <2>3, <3>1, <3>2 DEF Submit
  <2> QED BY <2>1, <2>2, <2>3
<1>5. NoOrphan'
  BY <1>1, <1>4 DEF ServedInv, NoOrphan
<1>6. ASSUME NEW w \in Workers, pc'[w] = "guard", cur'[w] # NoJob
      PROVE  Settled(cur[w])'
  <2>1. cur[w] \in Jobs
    BY <1>1, <1>6 DEF TypeOK
  <2> QED BY <1>1, <1>2, <1>3, <1>6, <2>1 DEF ServedInv
<1> QED BY <1>1, <1>2, <1>5, <1>6 DEF ServedInv

\* ServedInv under the callers' steps.
LEMMA ServedCaller ==
  ASSUME IInv, ServedInv,
         Cancel \/ \E j \in Jobs : CallerPoll(j) \/ DropFuture(j)
  PROVE  ServedInv'
<1> USE DEF IInv, TypeInv
<1>1. UNCHANGED <<pc, cur>>
  BY DEF Cancel, CancelFlag, CancelComplete, CancelWake, CallerPoll, DropFuture,
         workerVars
<1>2. \A k \in Jobs : Settled(k) => Settled(k)'
  <2>1. CASE CancelComplete
    BY <2>1 DEF CancelComplete, Complete, Completed, Settled
  <2>2. CASE ~ CancelComplete
    BY <2>2 DEF Cancel, CancelFlag, CancelWake, CallerPoll, DropFuture, Settled
  <2> QED BY <2>1, <2>2
<1>3. CASE Cancel \/ \E j \in Jobs : CallerPoll(j)
  <2>1. \A k \in Jobs : Pending(k)' => Pending(k)
    BY <1>3 DEF Cancel, CancelFlag, CancelComplete, CancelWake, CallerPoll,
         Complete, Notified, Pending, TypeOK
  <2>2. Queue' = Queue
    BY <1>3 DEF Cancel, CancelFlag, CancelComplete, CancelWake, CallerPoll,
         stateVars, Queue
  <2> QED BY <1>1, <1>2, <2>1, <2>2 DEF ServedInv, NoOrphan, Active, TypeOK
<1>4. ASSUME NEW j \in Jobs, DropFuture(j)
      PROVE  ServedInv'
  <2>1. \A k \in Jobs : Pending(k)' => Pending(k) /\ (k \in Queue => k \in Queue')
    BY <1>4 DEF DropFuture, Pending, Queue, TypeOK
  <2> QED BY <1>1, <1>2, <2>1 DEF ServedInv, NoOrphan, Active, TypeOK
<1> QED BY <1>3, <1>4

\* ServedInv under the steps of the worker thread.
LEMMA ServedWorker ==
  ASSUME IInv, ServedInv, NEW w \in Workers, WorkerStep(w) \/ InnerReady(w)
  PROVE  ServedInv'
<1> USE DEF IInv, TypeInv
<1>1. ASSUME NEW v \in Workers, v # w
      PROVE  pc'[v] = pc[v] /\ cur'[v] = cur[v]
  BY <1>1 DEF WorkerStep, Boot, Pop, Retire, SkipCancelled, Start, FetcherFails,
         Register, Check, InnerDone, InnerPending, InnerReady, Resume, Finish,
         Clear, DropTicket, Panic, Guard, Exit, ThreadEnds, Goto, TypeOK
<1>2. \A k \in Jobs : /\ Settled(k) => Settled(k)'
                      /\ Pending(k)' => Pending(k)
  BY DEF WorkerStep, Boot, Pop, Retire, SkipCancelled, Start, FetcherFails,
         Register, Check, InnerDone, InnerPending, InnerReady, Resume, Finish,
         Clear, DropTicket, Panic, Guard, Exit, Complete, Completed, Notified,
         Settled, Pending, jobVars, TypeOK
<1>3. /\ (pc[w] \in {"off", "boot", "pop", "exit"} => cur[w] = NoJob)'
      /\ (pc[w] = "guard" /\ cur[w] # NoJob => Settled(cur[w]))'
  <2>1. CASE Panic(w)
    <3>1. cur[w] \in Jobs /\ cur' = cur
      BY <2>1 DEF Panic, StagesOK, Holding
    <3> QED BY <2>1, <3>1 DEF Panic, Goto, Complete, Completed, Settled, TypeOK
  <2>2. CASE ~ Panic(w)
    BY <2>2 DEF WorkerStep, Boot, Pop, Retire, SkipCancelled, Start,
         FetcherFails, Register, Check, InnerDone, InnerPending, InnerReady,
         Resume, Finish, Clear, DropTicket, Guard, Exit, ThreadEnds,
         Goto, TypeOK, ServedInv, stateVars
  <2> QED BY <2>1, <2>2
<1>4. ASSUME NEW k \in Jobs, Pending(k)', ~ Settled(k)'
      PROVE  k \in Queue' \/ \E v \in Workers : Active(v)' /\ cur'[v] = k
  <2>1. Pending(k) /\ ~ Settled(k)
    BY <1>2, <1>4
  <2>2. CASE Pop(w)
    <3>1. Active(w)' /\ cur[w] = NoJob
      BY <2>2 DEF Pop, Goto, Active, TypeOK, ServedInv
    <3>2. k \in Queue => k \in Queue' \/ cur'[w] = k
      BY <2>2 DEF Pop, Queue, TypeOK
    <3> QED BY <1>1, <2>1, <3>1, <3>2, NoJobAssumption DEF ServedInv, NoOrphan, Active
  <2>3. CASE Guard(w)
    <3>1. k \notin Queue
      BY <1>4, <2>3 DEF Guard, Completed, Settled, StagesOK
    <3>2. cur[w] # k
      BY <2>1, <2>3, NoJobAssumption DEF Guard, ServedInv
    <3> QED BY <1>1, <2>1, <3>1, <3>2 DEF ServedInv, NoOrphan, Active
  <2>4. CASE DropTicket(w)
    <3>1. cur[w] # k
      BY <1>4, <2>4 DEF DropTicket, Complete, Completed, Settled
    <3>2. Queue' = Queue
      BY <2>4 DEF DropTicket, stateVars, Queue
    <3> QED BY <1>1, <2>1, <3>1, <3>2 DEF ServedInv, NoOrphan, Active
  <2>5. CASE Retire(w) \/ Exit(w)
    <3>1. cur[w] # k
      BY <2>5, NoJobAssumption DEF Retire, Exit, ServedInv
    <3>2. Queue' = Queue
      BY <2>5 DEF Retire, Exit, stateVars, Queue
    <3> QED BY <1>1, <2>1, <3>1, <3>2 DEF ServedInv, NoOrphan, Active
  <2>6. CASE ~ (Pop(w) \/ Guard(w) \/ DropTicket(w) \/ Retire(w) \/ Exit(w))
    <3>1. Active(w)' /\ cur'[w] = cur[w]
      BY <2>6 DEF WorkerStep, Boot, SkipCancelled, Start, FetcherFails,
         Register, Check, InnerDone, InnerPending, InnerReady, Resume, Finish,
         Clear, Panic, Goto, Active, TypeOK
    <3>2. Queue' = Queue
      BY <2>6 DEF WorkerStep, Boot, SkipCancelled, Start, FetcherFails,
         Register, Check, InnerDone, InnerPending, InnerReady, Resume, Finish,
         Clear, Panic, stateVars, Queue
    <3> QED BY <1>1, <2>1, <3>1, <3>2 DEF ServedInv, NoOrphan, Active
  <2> QED BY <2>2, <2>3, <2>4, <2>5, <2>6
<1>5. ASSUME NEW v \in Workers, v # w
      PROVE  /\ (pc[v] \in {"off", "boot", "pop", "exit"} => cur[v] = NoJob)'
             /\ (pc[v] = "guard" /\ cur[v] # NoJob => Settled(cur[v]))'
  BY <1>1, <1>2, <1>5 DEF ServedInv, TypeOK
<1> QED BY <1>3, <1>4, <1>5 DEF ServedInv, NoOrphan

\* Nobody waits on a request that no thread knows: a pending future without a
\* result is in the queue or in the hands of a live worker, through panics,
\* failed executors and dropped handles.
THEOREM EveryRequestKnown == Spec => []NoOrphan
<1>1. Init => ServedInv
  BY DEF Init, ServedInv, NoOrphan, Pending
<1>2. ASSUME IInv, ServedInv, [Next]_vars
      PROVE  ServedInv'
  <2>1. CASE UNCHANGED vars
    BY <1>2, <2>1 DEF vars, stateVars, jobVars, workerVars, ServedInv, NoOrphan,
            Pending, Settled, Queue, Active
  <2>2. CASE Next
    BY <1>2, <2>2, ServedOutside, ServedCaller, ServedWorker DEF Next
  <2> QED BY <1>2, <2>1, <2>2
<1>3. ServedInv => NoOrphan
  BY DEF ServedInv
<1> QED BY <1>1, <1>2, <1>3, IInvHolds, PTL DEF Spec

-----------------------------------------------------------------------------
(* The limit of the queue.                                                 *)

BoundInv == IsFiniteSet(Queue) /\ Cardinality(Queue) <= Capacity

\* A step that only takes requests out of the queue keeps the bound.
LEMMA BoundShrinks ==
  ASSUME BoundInv, Queue' \subseteq Queue
  PROVE  BoundInv'
BY FS_Subset, FS_CardinalityType DEF BoundInv, CapacityAssumption

\* One more request enters the queue only below its limit, the requests it cut
\* off no longer counted.
LEMMA BoundGrows ==
  ASSUME BoundInv, NEW j \in Jobs, ~ QueueFull(j),
         Queue' = (Queue \ Older(j.scope, j.gen)) \cup {j}
  PROVE  BoundInv'
<1> DEFINE Q == Queue \ Older(j.scope, j.gen)
<1>1. IsFiniteSet(Q)
  BY FS_Subset DEF BoundInv
<1>2. Cardinality(Q) \in Nat /\ Cardinality(Q) < Capacity
  BY <1>1, FS_CardinalityType DEF QueueFull, CapacityAssumption
<1>3. /\ IsFiniteSet(Q \cup {j})
      /\ Cardinality(Q \cup {j}) \in {Cardinality(Q), Cardinality(Q) + 1}
  BY <1>1, FS_AddElement
<1> QED BY <1>2, <1>3 DEF BoundInv, CapacityAssumption

\* At most Capacity requests wait, however they come and are cut off.
THEOREM QueueStaysBounded == Spec => []WithinCapacity
<1>1. Init => BoundInv
  <2>1. Init => Queue = {}
    BY DEF Init, Queue
  <2> QED BY <2>1, FS_EmptySet DEF BoundInv, CapacityAssumption
<1>2. ASSUME IInv, BoundInv, [Next]_vars
      PROVE  BoundInv'
  <2> USE <1>2 DEF IInv, TypeInv
  <2>1. CASE UNCHANGED vars
    <3>1. Queue' = Queue
      BY <2>1 DEF vars, stateVars, Queue
    <3> QED BY <3>1, BoundShrinks
  <2>2. ASSUME NEW j \in Jobs, BeginGeneration(j) \/ Submit(j)
        PROVE  BoundInv'
    <3>1. CASE SubmitQueued(j) \/ \E w \in Workers : SubmitSpawn(j, w)
      <4>1. place' = [KeptPlaces(j.scope, j.gen) EXCEPT ![j] = nextId]
        BY <3>1 DEF SubmitQueued, SubmitSpawn
      <4>2. Queue' = (Queue \ Older(j.scope, j.gen)) \cup {j}
        BY <4>1 DEF Queue, KeptPlaces, TypeOK, Older
      <4> QED BY <3>1, <4>2, BoundGrows DEF SubmitQueued, SubmitSpawn
    <3>2. CASE \/ BeginGeneration(j) \/ SubmitSuperseded(j) \/ SubmitSkipped(j)
               \/ SubmitBusy(j) \/ SubmitSpawnFails(j)
      <4>1. Queue' \subseteq Queue
        BY <3>2 DEF BeginGeneration, SubmitSuperseded, SubmitSkipped, SubmitBusy,
             SubmitSpawnFails, KeptPlaces, Queue, stateVars
      <4> QED BY <4>1, BoundShrinks
    <3> QED BY <2>2, <3>1, <3>2 DEF Submit
  <2>3. ASSUME \/ DropHandle
               \/ Cancel
               \/ \E j \in Jobs : CallerPoll(j)
               \/ \E w \in Workers : WorkerStep(w) \/ InnerReady(w)
        PROVE  BoundInv'
    <3>1. ASSUME NEW w \in Workers, WorkerStep(w) \/ InnerReady(w)
          PROVE  Queue' \subseteq Queue
      <4>1. CASE Pop(w)
        BY <4>1 DEF Pop, Queue, TypeOK
      <4>2. CASE ~ Pop(w)
        BY <3>1, <4>2 DEF WorkerStep, Boot, Retire, SkipCancelled, Start,
           FetcherFails, Register, Check, InnerDone, InnerPending, InnerReady,
           Resume, Finish, Clear, DropTicket, Panic, Guard, Exit, Queue, stateVars
      <4> QED BY <4>1, <4>2
    <3>2. CASE DropHandle \/ Cancel \/ \E j \in Jobs : CallerPoll(j)
      <4>1. Queue' \subseteq Queue
        BY <3>2 DEF DropHandle, Cancel, CancelFlag, CancelComplete, CancelWake,
           CallerPoll, Queue, stateVars
      <4> QED BY <4>1, BoundShrinks
    <3> QED BY <2>3, <3>1, <3>2, BoundShrinks
  <2>4. ASSUME NEW j \in Jobs, DropFuture(j)
        PROVE  BoundInv'
    <3>1. Queue' \subseteq Queue
      BY <2>4 DEF DropFuture, Queue, TypeOK
    <3> QED BY <3>1, BoundShrinks
  <2> QED BY <2>1, <2>2, <2>3, <2>4 DEF Next
<1>3. BoundInv => WithinCapacity
  BY DEF BoundInv, WithinCapacity
<1> QED BY <1>1, <1>2, <1>3, IInvHolds, PTL DEF Spec

-----------------------------------------------------------------------------
(* The properties of the runs, put together.                               *)

\* Served: there is one worker, it knows what it holds, and no request waits
\* without a worker that will look at it.
THEOREM EverybodyServed == Spec => []Served
BY NobodyStranded, EveryRequestKnown, PTL DEF Served

\* A thread gets a request only by taking it from the front of the queue.
LEMMA OnlyPopTakes ==
  ASSUME TypeInv, [Next]_vars, NEW w \in Workers, NEW k \in Jobs, cur[w] # k, cur'[w] = k
  PROVE  Front(k)
<1> USE DEF TypeInv, TypeOK
<1>1. ASSUME cur' = cur PROVE FALSE
  BY <1>1
<1>2. ASSUME NEW v \in Workers, cur' = [cur EXCEPT ![v] = NoJob] PROVE FALSE
  BY <1>2, NoJobAssumption
<1>3. CASE UNCHANGED vars
  BY <1>1, <1>3 DEF vars, workerVars
<1>4. CASE \E j \in Jobs : BeginGeneration(j) \/ Submit(j)
  BY <1>1, <1>4 DEF BeginGeneration, Submit, SubmitSuperseded, SubmitSkipped, SubmitBusy, SubmitQueued,
     SubmitSpawnFails, SubmitSpawn, workerVars
<1>5. CASE (\E j \in Jobs : CallerPoll(j) \/ DropFuture(j)) \/ DropHandle \/ Cancel
  BY <1>1, <1>5 DEF CallerPoll, DropFuture, DropHandle, Cancel,
     CancelFlag, CancelComplete, CancelWake, workerVars
<1>6. CASE \E v \in Workers : WorkerStep(v) \/ InnerReady(v)
  <2> PICK v \in Workers : WorkerStep(v) \/ InnerReady(v)
    BY <1>6
  <2>1. CASE Pop(v)
    BY <2>1 DEF Pop
  <2>2. CASE DropTicket(v)
    BY <2>2, <1>2 DEF DropTicket
  <2>3. CASE SkipCancelled(v) \/ Exit(v) \/ Guard(v) \/ Retire(v)
    BY <2>3, <1>1, <1>2 DEF SkipCancelled, Exit, Guard, Retire, ThreadEnds
  <2>4. CASE Boot(v) \/ Start(v) \/ FetcherFails(v) \/ Register(v) \/ Check(v) \/ InnerDone(v)
    BY <2>4, <1>1 DEF Boot, Start, FetcherFails, Register, Check, InnerDone, workerVars
  <2>5. CASE InnerPending(v) \/ Resume(v) \/ Finish(v) \/ Clear(v) \/ Panic(v) \/ InnerReady(v)
    BY <2>5, <1>1 DEF InnerPending, Resume, Finish, Clear, Panic, InnerReady, workerVars
  <2> QED
    BY <2>1, <2>2, <2>3, <2>4, <2>5 DEF WorkerStep
<1> QED
  BY <1>3, <1>4, <1>5, <1>6 DEF Next

\* FirstComeFirstServed: requests of all sequences are run in the order in which
\* submit accepted them (pop_front of State::jobs), also when some between them
\* are replaced, cancelled or dropped.
THEOREM AcceptedInOrder == Spec => FirstComeFirstServed
<1>1. ASSUME IInv, [Next]_vars
      PROVE  \A j, k \in Jobs :
               /\ j \in Queue /\ k \in Queue /\ place[j] < place[k]
               /\ \E w \in Workers : cur[w] # k /\ cur'[w] = k
               => FALSE
  <2> SUFFICES ASSUME NEW j \in Jobs, NEW k \in Jobs, j \in Queue, place[j] < place[k],
                      NEW w \in Workers, cur[w] # k, cur'[w] = k
               PROVE  FALSE
    OBVIOUS
  <2>1. Front(k)
    BY <1>1, OnlyPopTakes DEF IInv
  <2>2. place[k] <= place[j] /\ place[j] \in Int /\ place[k] \in Int
    BY <1>1, <2>1 DEF Front, IInv, TypeInv, TypeOK
  <2> QED
    BY <2>2
<1> QED
  BY <1>1, IInvHolds, PTL DEF Spec, FirstComeFirstServed

\* ResultsStand: answers are neither changed nor given as executed to the
\* overtaken.
THEOREM ResultsAreFinal == Spec => ResultsStand
BY FirstResultStays, StaleStaysUnexecuted DEF ResultsStand

-----------------------------------------------------------------------------
(* The actor implements its contract.                                      *)

\* What the contract needs beyond IInv: places are given out in ascending
\* order, what is recorded as running is held by a thread, a request is put
\* aside only with its answer, and a record is of a navigation that began.
ContractInv ==
  /\ \A j \in Jobs : place[j] < nextId
  /\ running # NoJob =>
       \E w \in Workers : (Holding(w) \/ pc[w] = "guard") /\ cur[w] = running
  /\ \A w \in Workers :
       /\ pc[w] = "clear" => cancelled[cur[w]] \/ Settled(cur[w])
       /\ pc[w] = "ticket" => Settled(cur[w])
  /\ \A s \in Scopes :
       latest[s] > 0 => phase[[scope |-> s, gen |-> latest[s]]] # "none"

\* A caller that began a navigation stays one that did, and a result or the flag
\* of a request is never taken back.
LEMMA NothingForgotten ==
  ASSUME IInv, [Next]_vars, NEW j \in Jobs
  PROVE  /\ phase[j] # "none" => phase'[j] # "none"
         /\ Settled(j) => Settled(j)'
         /\ cancelled[j] => cancelled'[j]
<1> USE DEF IInv, TypeInv, TypeOK
<1>1. CASE UNCHANGED vars
  BY <1>1 DEF vars, jobVars, Settled
<1>2. ASSUME NEW i \in Jobs, BeginGeneration(i)
      PROVE  /\ phase[j] # "none" => phase'[j] # "none"
             /\ Settled(j) => Settled(j)'
             /\ cancelled[j] => cancelled'[j]
  BY <1>2 DEF BeginGeneration, NoteGeneration, Notified, Completed, Settled
<1>3. ASSUME NEW i \in Jobs, Submit(i)
      PROVE  /\ phase[j] # "none" => phase'[j] # "none"
             /\ Settled(j) => Settled(j)'
             /\ cancelled[j] => cancelled'[j]
  <2>1. ~ Settled(i)
    BY <1>3 DEF RequestInv, Apart, Submit, SubmitSuperseded, SubmitSkipped, SubmitBusy,
         SubmitQueued, SubmitSpawn, SubmitSpawnFails, Accept, Unrequested
  <2>2. CASE SubmitSuperseded(i)
    BY <2>1, <2>2 DEF SubmitSuperseded, Settled
  <2>3. ASSUME NEW p \in {"poll", "returned"}, NEW r \in Results \cup {"none"},
               Accept(i, p, r)
        PROVE  /\ phase[j] # "none" => phase'[j] # "none"
               /\ Settled(j) => Settled(j)'
               /\ cancelled[j] => cancelled'[j]
    BY <2>1, <2>3 DEF Accept, NoteGeneration, Notified, Completed, Settled
  <2> QED BY <1>3, <2>2, <2>3 DEF Submit, SubmitSkipped, SubmitBusy, SubmitQueued,
         SubmitSpawn, SubmitSpawnFails, Results, Failures
<1>4. CASE \E i \in Jobs : CallerPoll(i) \/ DropFuture(i)
  BY <1>4 DEF CallerPoll, DropFuture, Settled
<1>5. CASE DropHandle \/ Cancel
  BY <1>5 DEF DropHandle, Cancel, CancelFlag, CancelComplete, CancelWake, Complete,
       Notified, Completed, Settled
<1>6. CASE \E w \in Workers : WorkerStep(w) \/ InnerReady(w)
  BY <1>6 DEF WorkerStep, Boot, Pop, Retire, SkipCancelled, Start, FetcherFails,
       Register, Check, InnerDone, InnerPending, InnerReady, Resume, Finish,
       Clear, DropTicket, Panic, Guard, Exit, Complete, Completed, Notified,
       Settled, jobVars
<1> QED BY <1>1, <1>2, <1>3, <1>4, <1>5, <1>6 DEF Next

\* Places grow with the counter they are taken from.
LEMMA PlacesBelow ==
  ASSUME IInv, [Next]_vars, \A j \in Jobs : place[j] < nextId
  PROVE  \A j \in Jobs : place'[j] < nextId'
<1> USE DEF IInv, TypeInv, TypeOK
<1>1. ASSUME NEW i \in Jobs, BeginGeneration(i) \/ Submit(i) \/ DropFuture(i)
      PROVE  \A j \in Jobs : place'[j] < nextId'
  <2>1. \A j \in Jobs : KeptPlaces(i.scope, i.gen)[j] < nextId
    BY DEF KeptPlaces
  <2>2. CASE SubmitQueued(i) \/ \E w \in Workers : SubmitSpawn(i, w)
    <3>1. /\ place' = [KeptPlaces(i.scope, i.gen) EXCEPT ![i] = nextId]
          /\ nextId' = nextId + 1
      BY <2>2 DEF SubmitQueued, SubmitSpawn
    <3>2. KeptPlaces(i.scope, i.gen) \in [Jobs -> Nat]
      BY DEF KeptPlaces
    <3> QED BY <2>1, <3>1, <3>2
  <2>3. CASE SubmitSkipped(i) \/ SubmitBusy(i) \/ SubmitSpawnFails(i) \/ BeginGeneration(i)
    <3>1. place' = KeptPlaces(i.scope, i.gen) /\ nextId' \in {nextId, nextId + 1}
      BY <2>3 DEF SubmitSkipped, SubmitBusy, SubmitSpawnFails, BeginGeneration
    <3>2. KeptPlaces(i.scope, i.gen) \in [Jobs -> Nat]
      BY DEF KeptPlaces
    <3> QED BY <2>1, <3>1, <3>2
  <2>4. CASE SubmitSuperseded(i) \/ DropFuture(i)
    BY <2>4 DEF SubmitSuperseded, DropFuture, stateVars
  <2> QED BY <1>1, <2>2, <2>3, <2>4 DEF Submit
<1>2. CASE UNCHANGED vars
  BY <1>2 DEF vars, stateVars
<1>3. CASE DropHandle \/ Cancel \/ \E i \in Jobs : CallerPoll(i)
  BY <1>3 DEF DropHandle, Cancel, CancelFlag, CancelComplete, CancelWake, CallerPoll,
       stateVars
<1>4. CASE \E w \in Workers : WorkerStep(w) \/ InnerReady(w)
  BY <1>4 DEF WorkerStep, Boot, Pop, Retire, SkipCancelled, Start, FetcherFails,
       Register, Check, InnerDone, InnerPending, InnerReady, Resume, Finish,
       Clear, DropTicket, Panic, Guard, Exit, stateVars
<1> QED BY <1>1, <1>2, <1>3, <1>4 DEF Next

\* A record is made when its navigation begins or asks for its run.
LEMMA RecordsBegan ==
  ASSUME IInv, TypeOK', [Next]_vars,
         \A s \in Scopes :
           latest[s] > 0 => phase[[scope |-> s, gen |-> latest[s]]] # "none",
         NEW s \in Scopes, latest'[s] > 0
  PROVE  phase'[[scope |-> s, gen |-> latest'[s]]] # "none"
<1> USE DEF IInv, TypeInv
<1>1. ASSUME latest'[s] = latest[s]
      PROVE  phase'[[scope |-> s, gen |-> latest'[s]]] # "none"
  <2>1. [scope |-> s, gen |-> latest[s]] \in Jobs
    BY <1>1 DEF TypeOK, Jobs, Gens
  <2> QED BY <1>1, <2>1, NothingForgotten
<1>2. ASSUME NEW i \in Jobs, NoteGeneration(i.scope, i.gen), phase'[i] # "none"
      PROVE  phase'[[scope |-> s, gen |-> latest'[s]]] # "none"
  <2>1. CASE s = i.scope
    <3>1. latest'[s] = i.gen
      BY <1>2, <2>1 DEF NoteGeneration, Recorded
    <3>2. i = [scope |-> i.scope, gen |-> i.gen]
      BY DEF Jobs
    <3> QED BY <1>2, <2>1, <3>1, <3>2
  <2>2. CASE s # i.scope
    <3>1. latest'[s] = latest[s]
      BY <1>2, <2>2 DEF NoteGeneration, Recorded
    <3> QED BY <1>1, <3>1
  <2> QED BY <2>1, <2>2
<1>3. ASSUME NEW i \in Jobs, BeginGeneration(i)
      PROVE  phase'[[scope |-> s, gen |-> latest'[s]]] # "none"
  BY <1>2, <1>3 DEF BeginGeneration, Notified, TypeOK
<1>4. ASSUME NEW i \in Jobs, Submit(i)
      PROVE  phase'[[scope |-> s, gen |-> latest'[s]]] # "none"
  <2>1. CASE SubmitSuperseded(i)
    BY <1>1, <2>1 DEF SubmitSuperseded, stateVars
  <2>2. CASE ~ SubmitSuperseded(i)
    <3>1. PICK p \in {"poll", "returned"}, r \in Results \cup {"none"} : Accept(i, p, r)
      BY <1>4, <2>2 DEF Submit, SubmitSkipped, SubmitBusy, SubmitQueued, SubmitSpawn,
           SubmitSpawnFails, Results, Failures
    <3>2. NoteGeneration(i.scope, i.gen) /\ phase'[i] # "none"
      BY <3>1 DEF Accept, Notified, TypeOK
    <3> QED BY <1>2, <3>2
  <2> QED BY <2>1, <2>2
<1>5. CASE \/ UNCHANGED vars \/ DropHandle \/ Cancel
           \/ \E i \in Jobs : CallerPoll(i) \/ DropFuture(i)
  BY <1>1, <1>5 DEF vars, DropHandle, Cancel, CancelFlag, CancelComplete, CancelWake,
       CallerPoll, DropFuture, stateVars
<1>6. CASE \E w \in Workers : WorkerStep(w) \/ InnerReady(w)
  BY <1>1, <1>6 DEF WorkerStep, Boot, Pop, Retire, SkipCancelled, Start, FetcherFails,
       Register, Check, InnerDone, InnerPending, InnerReady, Resume, Finish,
       Clear, DropTicket, Panic, Guard, Exit, stateVars
<1> QED BY <1>3, <1>4, <1>5, <1>6 DEF Next

\* A thread keeps what is recorded as running, and puts it aside answered.
LEMMA RunningKept ==
  ASSUME IInv, ContractInv, [Next]_vars
  PROVE  /\ running' # NoJob =>
              \E w \in Workers : (Holding(w)' \/ pc'[w] = "guard") /\ cur'[w] = running'
         /\ \A w \in Workers :
              /\ pc'[w] = "clear" => cancelled'[cur'[w]] \/ Settled(cur[w])'
              /\ pc'[w] = "ticket" => Settled(cur[w])'
<1> USE DEF IInv, TypeInv
<1> DEFINE Aside(w) == /\ pc[w] = "clear" => cancelled[cur[w]] \/ Settled(cur[w])
                       /\ pc[w] = "ticket" => Settled(cur[w])
<1>1. ASSUME NEW w \in Workers, pc'[w] = pc[w], cur'[w] = cur[w]
      PROVE  Aside(w)'
  <2>1. CASE pc[w] \in {"clear", "ticket"}
    <3>1. cur[w] \in Jobs
      BY <2>1 DEF StagesOK, Holding
    <3> QED BY <1>1, <3>1, NothingForgotten DEF ContractInv
  <2> QED BY <1>1, <2>1
<1>2. CASE \/ UNCHANGED vars \/ DropHandle \/ Cancel
           \/ \E i \in Jobs : BeginGeneration(i) \/ Submit(i) \/ CallerPoll(i) \/ DropFuture(i)
  <2>1. UNCHANGED <<running, cur>>
    BY <1>2 DEF vars, stateVars, workerVars, DropHandle, Cancel, CancelFlag, CancelComplete,
         CancelWake, BeginGeneration, Submit, SubmitSuperseded, SubmitSkipped, SubmitBusy,
         SubmitQueued, SubmitSpawn, SubmitSpawnFails, Accept, CallerPoll, DropFuture
  <2>2. \A w \in Workers : pc'[w] = pc[w] \/ (pc[w] = "off" /\ pc'[w] = "boot")
    <3>1. ASSUME NEW i \in Jobs, NEW v \in Workers, SubmitSpawn(i, v)
          PROVE  \A w \in Workers : pc'[w] = pc[w] \/ (pc[w] = "off" /\ pc'[w] = "boot")
      BY <3>1 DEF SubmitSpawn, TypeOK
    <3>2. CASE ~ \E i \in Jobs, v \in Workers : SubmitSpawn(i, v)
      BY <1>2, <3>2 DEF vars, workerVars, DropHandle, Cancel, CancelFlag, CancelComplete,
           CancelWake, BeginGeneration, Submit, SubmitSuperseded, SubmitSkipped, SubmitBusy,
           SubmitQueued, SubmitSpawnFails, CallerPoll, DropFuture
    <3> QED BY <3>1, <3>2
  <2>3. \A w \in Workers : Aside(w)'
    BY <1>1, <2>1, <2>2
  <2> QED BY <2>1, <2>2, <2>3 DEF ContractInv, Holding
<1>3. ASSUME NEW w \in Workers, WorkerStep(w) \/ InnerReady(w)
      PROVE  /\ running' # NoJob =>
                  \E v \in Workers : (Holding(v)' \/ pc'[v] = "guard") /\ cur'[v] = running'
             /\ \A v \in Workers : Aside(v)'
  <2>1. ASSUME NEW v \in Workers, v # w
        PROVE  pc'[v] = pc[v] /\ cur'[v] = cur[v]
    BY <1>3, <2>1 DEF WorkerStep, Boot, Pop, Retire, SkipCancelled, Start, FetcherFails,
         Register, Check, InnerDone, InnerPending, InnerReady, Resume, Finish,
         Clear, DropTicket, Panic, Guard, Exit, ThreadEnds, Goto, TypeOK
  <2>2. Aside(w)'
    <3>1. CASE Finish(w) \/ FetcherFails(w)
      <4>1. cur[w] \in Jobs /\ cur' = cur /\ Settled(cur[w])'
        BY <3>1 DEF Finish, FetcherFails, StagesOK, Holding, Complete, Completed, Settled, TypeOK
      <4>2. pc'[w] = "clear"
        BY <3>1 DEF Finish, FetcherFails, Goto, TypeOK
      <4> QED BY <4>1, <4>2
    <3>2. CASE Clear(w)
      <4>1. cur[w] \in Jobs /\ UNCHANGED <<cur, slot, cancelled>> /\ pc'[w] = "ticket"
        BY <3>2 DEF Clear, StagesOK, Holding, jobVars, Goto, TypeOK
      <4>2. Settled(cur[w])
        BY <3>2, <4>1 DEF Clear, ContractInv, RequestInv, CutOff, StagesOK
      <4> QED BY <4>1, <4>2 DEF Settled
    <3>3. CASE SkipCancelled(w) \/ Check(w)
      BY <3>3 DEF SkipCancelled, Check, jobVars, Goto, TypeOK
    <3>4. CASE InnerReady(w)
      BY <1>1, <3>4 DEF InnerReady
    <3>5. CASE \/ Boot(w) \/ Pop(w) \/ Retire(w) \/ Start(w) \/ Register(w) \/ InnerDone(w)
               \/ InnerPending(w) \/ Resume(w) \/ DropTicket(w) \/ Panic(w) \/ Guard(w) \/ Exit(w)
      <4>1. pc'[w] \notin {"clear", "ticket"}
        BY <3>5 DEF Boot, Pop, Retire, Start, Register, InnerDone, InnerPending, Resume,
             DropTicket, Panic, Guard, Exit, ThreadEnds, Goto, TypeOK
      <4> QED BY <4>1
    <3> QED BY <1>3, <3>1, <3>2, <3>3, <3>4, <3>5 DEF WorkerStep
  <2>3. ASSUME running' # NoJob
        PROVE  \E v \in Workers : (Holding(v)' \/ pc'[v] = "guard") /\ cur'[v] = running'
    <3>1. CASE Pop(w)
      BY <3>1 DEF Pop, Goto, Holding, TypeOK
    <3>2. CASE Clear(w) \/ Guard(w)
      BY <2>3, <3>2 DEF Clear, Guard
    <3>3. CASE ~ (Pop(w) \/ Clear(w) \/ Guard(w))
      <4>1. running' = running
        BY <1>3, <3>3 DEF WorkerStep, Boot, Retire, SkipCancelled, Start, FetcherFails,
             Register, Check, InnerDone, InnerPending, InnerReady, Resume, Finish,
             DropTicket, Panic, Exit, stateVars
      <4>2. PICK v \in Workers : (Holding(v) \/ pc[v] = "guard") /\ cur[v] = running
        BY <2>3, <4>1 DEF ContractInv
      <4>3. CASE v # w
        BY <2>1, <4>1, <4>2, <4>3 DEF Holding
      <4>4. CASE v = w
        <5>1. cur'[w] = cur[w] /\ (Holding(w)' \/ pc'[w] = "guard")
          BY <1>3, <3>3, <4>2, <4>4 DEF WorkerStep, Boot, Retire, SkipCancelled, Start, FetcherFails,
             Register, Check, InnerDone, InnerPending, InnerReady, Resume, Finish,
             DropTicket, Panic, Exit, ThreadEnds, Goto, Holding, TypeOK
        <5> QED BY <4>1, <4>2, <4>4, <5>1
      <4> QED BY <4>3, <4>4
    <3> QED BY <3>1, <3>2, <3>3
  <2>4. \A v \in Workers : Aside(v)'
    BY <1>1, <2>1, <2>2
  <2> QED BY <2>3, <2>4
<1> QED BY <1>2, <1>3 DEF Next

\* ContractInv is inductive, given IInv.
LEMMA ContractInvInductive ==
  /\ Init => ContractInv
  /\ IInv /\ IInv' /\ ContractInv /\ [Next]_vars => ContractInv'
<1>1. ASSUME Init PROVE ContractInv
  BY <1>1 DEF Init, ContractInv
<1>2. ASSUME IInv, IInv', ContractInv, [Next]_vars PROVE ContractInv'
  <2>1. \A j \in Jobs : place'[j] < nextId'
    BY <1>2, PlacesBelow DEF ContractInv
  <2>2. ASSUME NEW s \in Scopes, latest'[s] > 0
        PROVE  phase'[[scope |-> s, gen |-> latest'[s]]] # "none"
    BY <1>2, <2>2, RecordsBegan DEF ContractInv, IInv, TypeInv
  <2>3. /\ running' # NoJob =>
              \E w \in Workers : (Holding(w)' \/ pc'[w] = "guard") /\ cur'[w] = running'
        /\ \A w \in Workers :
              /\ pc'[w] = "clear" => cancelled'[cur'[w]] \/ Settled(cur[w])'
              /\ pc'[w] = "ticket" => Settled(cur[w])'
    BY <1>2, RunningKept
  <2> QED BY <2>1, <2>2, <2>3 DEF ContractInv, Settled
<1> QED BY <1>1, <1>2

-----------------------------------------------------------------------------
(* The actions of the actor as steps of the contract.                      *)

\* The contract's words for the line and for what was overtaken are the actor's.
LEMMA SameWords ==
  /\ Service!Waiting = Queue
  /\ \A j \in Jobs : /\ Service!Overtaken(j) = Older(j.scope, j.gen)
                     /\ Service!Rest(j) = KeptPlaces(j.scope, j.gen)
                     /\ Service!Waiting \cap Service!Overtaken(j) = Stale(j.scope, j.gen)
  /\ \A js, r : Service!Answered(js, r) = Completed(js, r)
BY DEF Service!Waiting, Service!Overtaken, Service!Rest, Service!Answered,
       Queue, Older, KeptPlaces, Stale, Completed

\* The contract's Cardinality is that of FiniteSets.
LEMMA SameCount == \A S : Service!Cardinality(S) = Cardinality(S)
BY DEF Service!Cardinality, Cardinality

\* A woken caller is still one that asked.
LEMMA StageKept ==
  ASSUME TypeOK, NEW js
  PROVE  /\ phase' = Notified(js) => CallerStage' = CallerStage
         /\ \A j \in Jobs, p \in {"begun", "poll", "returned", "dropped"} :
              phase' = [Notified(js) EXCEPT ![j] = p] =>
                Service!Moves(j, CASE p = "begun"   -> "announced"
                                   [] p = "poll"    -> "asked"
                                   [] p = "dropped" -> "left"
                                   [] OTHER         -> p)
<1>1. \A j \in Jobs : \/ Notified(js)[j] = phase[j]
                      \/ Notified(js)[j] = "poll" /\ phase[j] = "wait"
  BY DEF Notified
<1>2. ASSUME phase' = Notified(js)
      PROVE  CallerStage' = CallerStage
  BY <1>1, <1>2 DEF CallerStage
<1>3. ASSUME NEW j \in Jobs, NEW p \in {"begun", "poll", "returned", "dropped"},
             phase' = [Notified(js) EXCEPT ![j] = p]
      PROVE  Service!Moves(j, CASE p = "begun"   -> "announced"
                                [] p = "poll"    -> "asked"
                                [] p = "dropped" -> "left"
                                [] OTHER         -> p)
  <2>1. phase'[j] = p /\ \A k \in Jobs \ {j} : phase'[k] = Notified(js)[k]
    BY <1>3 DEF Notified
  <2>2. \A k \in Jobs \ {j} : CallerStage'[k] = CallerStage[k]
    BY <1>1, <2>1 DEF CallerStage
  <2>3. CallerStage'[j] = CASE p = "begun"   -> "announced"
                            [] p = "poll"    -> "asked"
                            [] p = "dropped" -> "left"
                            [] OTHER         -> p
    BY <2>1 DEF CallerStage
  <2> QED BY <2>2, <2>3 DEF Service!Moves
<1> QED BY <1>2, <1>3

\* note_generation and the refusal of what is superseded keep to the contract:
\* whatever records were evicted, nobody passes a newer request of its scope.
LEMMA OvertakeMapped ==
  ASSUME IInv, NEW j \in Jobs, open, LockFree, ~ Superseded(j.scope, j.gen),
         NoteGeneration(j.scope, j.gen), UNCHANGED <<open, running>>
  PROVE  Service!Overtake(j)
<1> USE DEF IInv, TypeInv
<1>1. cancelStep = "idle" /\ Revoking = NoJob
  BY DEF StagesOK, Revoking
<1>2. Revoking' = IF running \in Older(j.scope, j.gen) THEN running ELSE NoJob
  <2>1. CASE running \in Older(j.scope, j.gen)
    <3>1. Running \cap Older(j.scope, j.gen) = {running}
      BY <2>1, NoJobAssumption DEF Running, Older
    <3> QED BY <2>1, <3>1 DEF NoteGeneration, StartCancel, Revoking
  <2>2. CASE running \notin Older(j.scope, j.gen)
    <3>1. Running \cap Older(j.scope, j.gen) = {}
      BY <2>2 DEF Running
    <3> QED BY <1>1, <2>2, <3>1 DEF NoteGeneration, StartCancel, Revoking, lockVars
  <2> QED BY <2>1, <2>2
<1>3. ASSUME NEW k \in Service!Newer(j)
      PROVE  k \notin Queue /\ (k = running => slot[k] # "none")
  <2>1. k \in Jobs /\ k.scope = j.scope /\ k.gen > j.gen
    BY DEF Service!Newer
  <2>2. latest[k.scope] # k.gen
    BY <2>1 DEF Superseded, TypeOK, Jobs, Gens, GenAssumption
  <2>3. k \notin Queue
    BY <2>2 DEF RequestInv, CutOff
  <2>4. ASSUME k = running PROVE slot[k] # "none"
    <3>1. cancelled[k]
      BY <1>1, <2>1, <2>2, <2>4, NoJobAssumption DEF RequestInv, CutOff, Running
    <3> QED BY <1>1, <2>1, <3>1 DEF RequestInv, CutOff, Settled
  <2> QED BY <2>3, <2>4
<1> QED BY <1>1, <1>2, <1>3, SameWords DEF Service!Overtake

\* The announcement of a navigation.
LEMMA BeginMapped ==
  ASSUME IInv, NEW j \in Jobs, BeginGeneration(j)
  PROVE  Service!Announce(j)
<1>1. Service!Overtake(j)
  BY OvertakeMapped DEF BeginGeneration
<1>2. Service!Moves(j, "announced")
  BY StageKept DEF BeginGeneration, IInv, TypeInv
<1>3. CallerStage[j] = "none"
  BY DEF CallerStage, BeginGeneration
<1> QED BY <1>1, <1>2, <1>3, SameWords DEF BeginGeneration, Service!Announce

\* A request is refused as late only behind a newer one that somebody made.
LEMMA SupersededMapped ==
  ASSUME IInv, ContractInv, NEW j \in Jobs, SubmitSuperseded(j)
  PROVE  Service!RefuseLate(j)
<1> USE DEF IInv, TypeInv
<1>1. Service!Unasked(j)
  BY DEF Service!Unasked, CallerStage, SubmitSuperseded, Unrequested
<1>2. \E k \in Service!Newer(j) : CallerStage[k] # "none"
  <2> DEFINE k == [scope |-> j.scope, gen |-> latest[j.scope]]
  <2>1. k \in Jobs /\ k.gen > j.gen /\ j.scope \in Scopes /\ latest[j.scope] > 0
    BY DEF SubmitSuperseded, Superseded, TypeOK, Jobs, Gens, GenAssumption
  <2>2. phase[k] # "none"
    BY <2>1 DEF ContractInv
  <2>3. CallerStage[k] # "none"
    BY <2>1, <2>2 DEF CallerStage
  <2>4. k \in Service!Newer(j)
    BY <2>1 DEF Service!Newer
  <2> QED BY <2>3, <2>4
<1>3. Service!Moves(j, "returned")
  <2>1. phase'[j] = "returned" /\ \A k \in Jobs \ {j} : phase'[k] = phase[k]
    BY DEF SubmitSuperseded, TypeOK
  <2> QED BY <2>1 DEF CallerStage, Service!Moves
<1>4. Revoking = NoJob /\ Revoking' = Revoking
  BY DEF SubmitSuperseded, StagesOK, Revoking, lockVars
<1> QED BY <1>1, <1>2, <1>3, <1>4 DEF SubmitSuperseded, Service!RefuseLate, stateVars

\* A request that is skipped, turned away or left without a thread.
LEMMA RefuseMapped ==
  ASSUME IInv, ContractInv, NEW j \in Jobs,
         SubmitSkipped(j) \/ SubmitBusy(j) \/ SubmitSpawnFails(j)
  PROVE  \E r \in {"Skipped", "Busy", "SpawnFailed"} : Service!Refuse(j, r)
<1>1. ASSUME NEW r \in {"Skipped", "Busy", "SpawnFailed"}, Accept(j, "returned", r),
             place' = KeptPlaces(j.scope, j.gen), Service!Reason(j, r)
      PROVE  Service!Refuse(j, r)
  <2>1. Service!Overtake(j)
    BY <1>1, OvertakeMapped DEF Accept
  <2>2. Service!Moves(j, "returned")
    BY <1>1, StageKept DEF Accept, IInv, TypeInv
  <2>3. Service!Unasked(j)
    BY <1>1 DEF Service!Unasked, CallerStage, Accept, Unrequested
  <2> QED BY <1>1, <2>1, <2>2, <2>3, SameWords DEF Accept, Service!Refuse
<1>2. CASE SubmitSkipped(j)
  BY <1>1, <1>2 DEF SubmitSkipped, Service!Reason
<1>3. CASE SubmitBusy(j)
  BY <1>1, <1>3, SameWords, SameCount DEF SubmitBusy, QueueFull, Service!Full, Service!Reason
<1>4. CASE SubmitSpawnFails(j)
  <2>1. \A w \in Workers : ~ Active(w)
    BY <1>4 DEF SubmitSpawnFails, IInv, WorkerInv, OneWorker
  <2>2. Queue = {} /\ running = NoJob
    BY <2>1 DEF IInv, WorkerInv, NoStrandedQueue, ContractInv, Active, Holding
  <2> QED BY <1>1, <1>4, <2>2, SameWords DEF SubmitSpawnFails, Service!Reason
<1> QED BY <1>2, <1>3, <1>4

\* An accepted request joins the end of the line.
LEMMA JoinMapped ==
  ASSUME IInv, TypeOK', ContractInv, NEW j \in Jobs,
         SubmitQueued(j) \/ \E w \in Workers : SubmitSpawn(j, w)
  PROVE  Service!Join(j)
<1>1. /\ ~ QueueFull(j)
      /\ Accept(j, "poll", "none")
      /\ place' = [KeptPlaces(j.scope, j.gen) EXCEPT ![j] = nextId]
  BY DEF SubmitQueued, SubmitSpawn
<1>2. Service!Overtake(j)
  BY <1>1, OvertakeMapped DEF Accept
<1>3. Service!Moves(j, "asked")
  BY <1>1, StageKept DEF Accept, IInv, TypeInv
<1>4. Service!Unasked(j)
  BY <1>1 DEF Service!Unasked, CallerStage, Accept, Unrequested
<1>5. slot' = Completed(Stale(j.scope, j.gen), "Cancelled")
  <2>1. slot[j] = "none" /\ place[j] = 0
    BY <1>1 DEF Accept, IInv, RequestInv, Apart, Settled
  <2>2. Completed(Stale(j.scope, j.gen), "Cancelled")[j] = "none"
    BY <2>1 DEF Completed, Stale, Queue
  <2> QED BY <1>1, <2>2 DEF Accept, Completed
<1>6. \A k \in Jobs \ {j} : /\ place'[k] = KeptPlaces(j.scope, j.gen)[k]
                           /\ place'[k] < place'[j]
  <2>1. place'[j] = nextId
    BY <1>1 DEF KeptPlaces
  <2>2. \A k \in Jobs : place[k] < nextId
    BY DEF ContractInv
  <2>3. \A k \in Jobs : KeptPlaces(j.scope, j.gen)[k] < nextId
    BY <2>2 DEF KeptPlaces, IInv, TypeInv, TypeOK
  <2> QED BY <1>1, <2>1, <2>3 DEF KeptPlaces
<1>7. ~ Service!Full(j)
  BY <1>1, SameWords, SameCount DEF QueueFull, Service!Full
<1>8. place' \in [Jobs -> Nat]
  BY DEF TypeOK
<1> QED BY <1>2, <1>3, <1>4, <1>5, <1>6, <1>7, <1>8, SameWords DEF Service!Join

\* A step that the callers cannot tell from none.
Unseen == UNCHANGED <<open, place, running, slot, CallerStage, Revoking>>

\* Such a step is a stutter of the contract.
LEMMA UnseenMapped ==
  ASSUME Unseen
  PROVE  UNCHANGED Service!vars
BY DEF Unseen, Service!vars

\* The callers' own steps, and the end of the last handle.
LEMMA CallerMapped ==
  ASSUME IInv, NEW j \in Jobs, CallerPoll(j) \/ DropFuture(j)
  PROVE  Service!Return(j) \/ Service!Leave(j) \/ Unseen
<1> USE DEF IInv, TypeInv
<1>1. CASE CallerPoll(j)
  <2>1. UNCHANGED <<open, place, running, slot, Revoking>> /\ CallerStage[j] = "asked"
    BY <1>1 DEF CallerPoll, stateVars, lockVars, Revoking, CallerStage
  <2>2. CASE slot[j] = "none"
    <3>1. \A k \in Jobs : phase'[k] = phase[k] \/ (phase[k] = "poll" /\ phase'[k] = "wait")
      BY <1>1, <2>2 DEF CallerPoll, TypeOK
    <3>2. CallerStage' = CallerStage
      BY <3>1 DEF CallerStage
    <3> QED BY <2>1, <3>2 DEF Unseen
  <2>3. CASE slot[j] # "none"
    <3>1. phase'[j] = "returned" /\ \A k \in Jobs \ {j} : phase'[k] = phase[k]
      BY <1>1, <2>3 DEF CallerPoll, TypeOK
    <3>2. Service!Moves(j, "returned")
      BY <3>1 DEF CallerStage, Service!Moves
    <3> QED BY <2>1, <2>3, <3>2 DEF Service!Return
  <2> QED BY <2>2, <2>3
<1>2. CASE DropFuture(j)
  <2>1. phase'[j] = "dropped" /\ \A k \in Jobs \ {j} : phase'[k] = phase[k]
    BY <1>2 DEF DropFuture, TypeOK
  <2>2. Service!Moves(j, "left")
    BY <2>1 DEF CallerStage, Service!Moves
  <2>3. CallerStage[j] = "asked"
    BY <1>2 DEF CallerStage, DropFuture, Pending
  <2>4. Revoking = NoJob /\ Revoking' = j
    BY <1>2 DEF DropFuture, StartCancel, StagesOK, Revoking
  <2> QED BY <1>2, <2>2, <2>3, <2>4 DEF DropFuture, Service!Leave
<1> QED BY <1>1, <1>2

\* Inner::drop closes the service.
LEMMA CloseMapped ==
  ASSUME IInv, DropHandle
  PROVE  Service!Close
<1> USE DEF IInv, TypeInv
<1>1. Revoking = NoJob
  BY DEF DropHandle, StagesOK, Revoking
<1>2. Revoking' = running
  <2>1. CASE running = NoJob
    BY <1>1, <2>1 DEF DropHandle, StartCancel, Running, Revoking, lockVars
  <2>2. CASE running # NoJob
    <3>1. Running = {running}
      BY <2>2 DEF Running
    <3> QED BY <3>1 DEF DropHandle, StartCancel, Revoking
  <2> QED BY <2>1, <2>2
<1>3. CallerStage' = CallerStage
  BY StageKept DEF DropHandle
<1> QED BY <1>1, <1>2, <1>3, SameWords DEF DropHandle, Service!Close

\* Of the three steps of a cancellation its caller sees the answer.
LEMMA CancelMapped ==
  ASSUME IInv, Cancel
  PROVE  Service!Revoke \/ Unseen
<1> USE DEF IInv, TypeInv
<1>1. CASE CancelFlag
  BY <1>1 DEF CancelFlag, Unseen, Revoking, CallerStage, stateVars
<1>2. CASE CancelComplete
  <2>1. Revoking = cancelling /\ cancelling # NoJob /\ Revoking' = NoJob
    BY <1>2 DEF CancelComplete, StagesOK, LockFree, Revoking
  <2>2. CallerStage' = CallerStage
    BY <1>2, StageKept DEF CancelComplete, Complete
  <2> QED BY <1>2, <2>1, <2>2, SameWords DEF CancelComplete, Complete, Service!Revoke,
             stateVars
<1>3. CASE CancelWake
  BY <1>3 DEF CancelWake, Unseen, Revoking, CallerStage, stateVars
<1> QED BY <1>1, <1>2, <1>3 DEF Cancel

\* JobState::complete by the thread that holds the request.
LEMMA CompleteMapped ==
  ASSUME IInv, NEW w \in Workers, Holding(w),
         NEW r \in {"Executed", "RunError", "Terminated"}, Complete(cur[w], r),
         UNCHANGED <<stateVars, lockVars>>
  PROVE  Service!Answer(r) \/ Unseen
<1> USE DEF IInv, TypeInv
<1>1. running = cur[w] /\ cur[w] \in Jobs /\ running # NoJob
  BY NoJobAssumption DEF WorkerInv, RunningIsHeld, StagesOK
<1>2. CallerStage' = CallerStage /\ Revoking' = Revoking
  BY StageKept DEF Complete, Revoking, lockVars
<1>3. CASE slot[cur[w]] = "none"
  <2>1. slot' = [slot EXCEPT ![running] = r]
    BY <1>1, <1>3 DEF Complete, Completed, TypeOK
  <2> QED BY <1>1, <1>2, <1>3, <2>1 DEF Service!Answer, stateVars
<1>4. CASE slot[cur[w]] # "none"
  <2>1. slot' = slot
    BY <1>4 DEF Complete, Completed, TypeOK
  <2> QED BY <1>2, <2>1 DEF Unseen, stateVars
<1> QED BY <1>3, <1>4

\* The worker takes the first of the line, when it has nothing else.
LEMMA PopMapped ==
  ASSUME IInv, ContractInv, NEW w \in Workers, Pop(w)
  PROVE  \E j \in Jobs : Service!Take(j)
<1> USE DEF IInv, TypeInv
<1>1. running = NoJob
  BY DEF ContractInv, WorkerInv, OneWorker, Active, Holding, Pop
<1>2. Revoking = NoJob /\ Revoking' = NoJob /\ CallerStage' = CallerStage
  BY DEF Pop, StagesOK, Revoking, CallerStage, lockVars, jobVars
<1>3. PICK j \in Jobs : Front(j) /\ place' = [place EXCEPT ![j] = 0] /\ running' = j
  BY DEF Pop
<1>4. UNCHANGED <<open, slot>>
  BY DEF Pop, jobVars
<1> QED BY <1>1, <1>2, <1>3, <1>4, SameWords DEF Front, Service!Take

\* The worker puts a request aside, and everybody has been told.
LEMMA ClearMapped ==
  ASSUME IInv, ContractInv, NEW w \in Workers, Clear(w)
  PROVE  Service!Done
<1> USE DEF IInv, TypeInv
<1>1. running = cur[w] /\ cur[w] \in Jobs /\ running # NoJob
  BY NoJobAssumption DEF Clear, Holding, WorkerInv, RunningIsHeld, StagesOK
<1>2. Revoking = NoJob /\ Revoking' = NoJob /\ CallerStage' = CallerStage
  BY DEF Clear, StagesOK, Revoking, CallerStage, lockVars, jobVars
<1>3. slot[running] # "none"
  BY <1>1 DEF Clear, ContractInv, RequestInv, CutOff, Settled, StagesOK
<1> QED BY <1>1, <1>2, <1>3 DEF Clear, jobVars, Service!Done

\* A thread that dies tells everybody.
LEMMA GuardMapped ==
  ASSUME IInv, NEW w \in Workers, Guard(w)
  PROVE  \E r \in {"Terminated", "ExecutorFailed"} : Service!Fail(r)
<1> USE DEF IInv, TypeInv
<1>1. outcome[w] \in {"Terminated", "ExecutorFailed"}
  BY DEF Guard, StagesOK
<1>2. Revoking = NoJob /\ Revoking' = NoJob
  BY DEF Guard, StagesOK, Revoking, lockVars
<1>3. CallerStage' = CallerStage
  BY StageKept DEF Guard
<1>4. /\ slot' = Completed(Queue \cup Running, outcome[w])
      /\ place' = [j \in Jobs |-> 0] /\ running' = NoJob /\ open' = open
  BY DEF Guard
<1> QED BY <1>1, <1>2, <1>3, <1>4, SameWords DEF Running, Service!Fail

\* A step of the worker thread is one of the contract, or nobody sees it.
LEMMA WorkerMapped ==
  ASSUME IInv, ContractInv, NEW w \in Workers, WorkerStep(w) \/ InnerReady(w)
  PROVE  Service!Next \/ Unseen
<1> USE DEF IInv, TypeInv
<1>1. CASE Pop(w)
  BY <1>1, PopMapped DEF Service!Next
<1>2. CASE Clear(w)
  BY <1>2, ClearMapped DEF Service!Next
<1>3. CASE Guard(w)
  BY <1>3, GuardMapped DEF Service!Next
<1>4. CASE FetcherFails(w) \/ Finish(w) \/ Panic(w)
  <2>1. PICK r \in {"Executed", "RunError", "Terminated"} : Complete(cur[w], r)
    BY <1>4 DEF FetcherFails, Finish, Panic, StagesOK
  <2>2. Holding(w) /\ UNCHANGED <<stateVars, lockVars>>
    BY <1>4 DEF FetcherFails, Finish, Panic, Holding
  <2> QED BY <2>1, <2>2, CompleteMapped DEF Service!Next
<1>5. CASE DropTicket(w)
  <2>1. Settled(cur[w])
    BY <1>5 DEF DropTicket, ContractInv
  <2>2. slot' = slot
    BY <1>5, <2>1 DEF DropTicket, Complete, Completed, Settled, TypeOK
  <2>3. CallerStage' = CallerStage
    BY <1>5, StageKept DEF DropTicket, Complete
  <2> QED BY <1>5, <2>2, <2>3 DEF DropTicket, Unseen, Revoking, stateVars, lockVars
<1>6. CASE \/ Boot(w) \/ Retire(w) \/ SkipCancelled(w) \/ Start(w) \/ Register(w)
           \/ Check(w) \/ InnerDone(w) \/ InnerPending(w) \/ InnerReady(w)
           \/ Resume(w) \/ Exit(w)
  <2>1. UNCHANGED <<open, place, running, slot, phase, lockVars>>
    BY <1>6 DEF Boot, Retire, SkipCancelled, Start, Register, Check, InnerDone,
         InnerPending, InnerReady, Resume, Exit, stateVars, jobVars
  <2> QED BY <2>1 DEF Unseen, CallerStage, Revoking, lockVars
<1> QED BY <1>1, <1>2, <1>3, <1>4, <1>5, <1>6 DEF WorkerStep

\* The actor starts as its contract does.
LEMMA InitMapped == Init => Service!Init
BY DEF Init, Service!Init, CallerStage, Revoking

\* Every step of the actor is a step of the contract or a stutter.
LEMMA StepMapped ==
  ASSUME IInv, IInv', ContractInv, [Next]_vars
  PROVE  [Service!Next]_(Service!vars)
<1>1. ASSUME Unseen PROVE UNCHANGED Service!vars
  BY <1>1, UnseenMapped
<1>2. CASE UNCHANGED vars
  <2>1. Unseen
    BY <1>2 DEF vars, stateVars, lockVars, jobVars, Unseen, CallerStage, Revoking
  <2> QED BY <1>1, <2>1
<1>3. ASSUME NEW j \in Jobs, BeginGeneration(j) PROVE Service!Next
  BY <1>3, BeginMapped DEF Service!Next
<1>4. ASSUME NEW j \in Jobs, Submit(j) PROVE Service!Next
  <2>1. CASE SubmitSuperseded(j)
    BY <2>1, SupersededMapped DEF Service!Next
  <2>2. CASE SubmitSkipped(j) \/ SubmitBusy(j) \/ SubmitSpawnFails(j)
    BY <2>2, RefuseMapped DEF Service!Next
  <2>3. CASE SubmitQueued(j) \/ \E w \in Workers : SubmitSpawn(j, w)
    BY <2>3, JoinMapped DEF Service!Next, IInv, TypeInv
  <2> QED BY <1>4, <2>1, <2>2, <2>3 DEF Submit
<1>5. ASSUME NEW j \in Jobs, CallerPoll(j) \/ DropFuture(j) PROVE Service!Next \/ Unseen
  BY <1>5, CallerMapped DEF Service!Next
<1>6. CASE DropHandle
  BY <1>6, CloseMapped DEF Service!Next
<1>7. CASE Cancel
  BY <1>1, <1>7, CancelMapped DEF Service!Next
<1>8. ASSUME NEW w \in Workers, WorkerStep(w) \/ InnerReady(w) PROVE Service!Next \/ Unseen
  BY <1>8, WorkerMapped
<1> QED BY <1>1, <1>2, <1>3, <1>4, <1>5, <1>6, <1>7, <1>8 DEF Next

\* ImplementsService: whatever threads, flags and records do, callers see
\* the contract at the head of page_actor.rs.
THEOREM ActorImplementsService == Spec => ImplementsService
<1>1. Spec => []ContractInv
  BY ContractInvInductive, IInvHolds, PTL DEF Spec
<1>2. ASSUME IInv, IInv', ContractInv, [Next]_vars
      PROVE  [Service!Next]_(Service!vars)
  BY <1>2, StepMapped
<1> QED BY <1>1, <1>2, InitMapped, IInvHolds, PTL DEF Spec, ImplementsService, Service!Spec

==============================================================================
