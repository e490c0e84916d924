------------------------------ MODULE PageActor ------------------------------
(***************************************************************************)
(* The page-script actor of crates/fandhe-browser-core/src/page_actor.rs.  *)
(*                                                                         *)
(* Callers (the CDP handlers) hand script runs to one lazily started       *)
(* worker thread.  A navigation sequence ("scope") numbers its navigations *)
(* ("generations"); a newer generation cuts off the older ones.            *)
(*                                                                         *)
(* Two kinds of lock exist in the code: the one `State' lock and one       *)
(* `JobState' lock per request.  A critical section of `State' is one      *)
(* action, except that cancelling a request the worker may hold is spread  *)
(* over three further steps (CancelFlag, CancelComplete, CancelWake),      *)
(* because the worker uses the JobState without taking the State lock.     *)
(* While a cancellation is under way the State lock stays taken.           *)
(***************************************************************************)
EXTENDS Integers, FiniteSets

CONSTANTS
  Scopes,      \* navigation sequences (CDP targets and the browser itself)
  MaxGen,      \* bound: generations per scope in a behaviour
  Capacity,    \* PageScriptActorOptions::queue_capacity
  MaxTracked,  \* MAX_TRACKED_SCOPES
  Workers,     \* bound: identities of threads that may exist at one time
  NoJob, NoWorker

ASSUME GenAssumption      == MaxGen \in Nat \ {0}
ASSUME CapacityAssumption == Capacity \in Nat \ {0}
ASSUME TrackedAssumption  == MaxTracked \in Nat \ {0}

Gens == 1 .. MaxGen

\* A request: the actor sees at most one per navigation of a scope.
Jobs == [scope : Scopes, gen : Gens]

ASSUME NoJobAssumption    == NoJob \notin Jobs
ASSUME NoWorkerAssumption == NoWorker \notin Workers

Failures == {"Terminated", "SpawnFailed", "ExecutorFailed"}
Results  == {"Executed", "RunError", "Skipped", "Busy", "Cancelled"} \cup Failures

VARIABLES
  \* --- the State lock's data -------------------------------------------
  open,       \* some PageScriptHandle still exists
  latest,     \* latest[s]: newest generation accepted for s, 0 if no record
  place,      \* place[j]: Job::id while j waits in the queue, 0 otherwise
  nextId,     \* State::next_id, counted from 1
  running,    \* State::running
  alive,      \* State::worker_alive
  cancelling, \* the request a holder of the State lock is cancelling
  cancelStep, \* how far that cancel() got
  \* --- one JobState and one future per request -------------------------
  phase,      \* the caller: announced, to be polled, waiting, over
  slot,       \* Slot::result, kept after it was taken ("none": not completed)
  cancelled,  \* JobState::cancelled
  waker,      \* Slot::worker_waker: the thread it wakes
  \* --- one worker thread -----------------------------------------------
  pc, cur, outcome, fetcher, woken

stateVars  == <<open, latest, place, nextId, running, alive>>
lockVars   == <<cancelling, cancelStep>>
jobVars    == <<phase, slot, cancelled, waker>>
workerVars == <<pc, cur, outcome, fetcher, woken>>
vars       == <<stateVars, lockVars, jobVars, workerVars>>

-----------------------------------------------------------------------------
(* The parts of the state the actions speak of.                            *)

Queue   == {j \in Jobs : place[j] > 0}
Running == {running} \ {NoJob}
Tracked == {s \in Scopes : latest[s] > 0}

\* The future was handed out by run_page_scripts and waits for its JobState.
Pending(j) == phase[j] \in {"poll", "wait"}

\* No run was asked for yet, though the navigation may have been announced.
Unrequested(j) == phase[j] \in {"none", "begun"}

\* Nobody is inside a critical section of the State lock.
LockFree == cancelling = NoJob

\* Mutant of Older: a generation counts for every scope.
MutOlder(s, g) == {j \in Jobs : j.gen < g}

\* A newer generation of the scope makes this request obsolete.
Older(s, g) == {j \in Jobs : j.scope = s /\ j.gen < g}

\* The caller's future after JobState::complete woke it.
Notified(js) ==
  [j \in Jobs |-> IF j \in js /\ slot[j] = "none" /\ phase[j] = "wait"
                    THEN "poll" ELSE phase[j]]

\* Mutant of Completed: the last result wins.
MutCompleted(js, r) == [j \in Jobs |-> IF j \in js THEN r ELSE slot[j]]

\* JobState::complete on each of js: the first result wins.
Completed(js, r) ==
  [j \in Jobs |-> IF j \in js /\ slot[j] = "none" THEN r ELSE slot[j]]

\* JobState::complete for one request.
Complete(j, r) ==
  /\ phase' = Notified({j})
  /\ slot'  = Completed({j}, r)

-----------------------------------------------------------------------------
Init ==
  /\ open = TRUE
  /\ latest = [s \in Scopes |-> 0]
  /\ place = [j \in Jobs |-> 0]
  /\ nextId = 1
  /\ running = NoJob
  /\ alive = FALSE
  /\ cancelling = NoJob
  /\ cancelStep = "idle"
  /\ phase = [j \in Jobs |-> "none"]
  /\ slot = [j \in Jobs |-> "none"]
  /\ cancelled = [j \in Jobs |-> FALSE]
  /\ waker = [j \in Jobs |-> NoWorker]
  /\ pc = [w \in Workers |-> "off"]
  /\ cur = [w \in Workers |-> NoJob]
  /\ outcome = [w \in Workers |-> "none"]
  /\ fetcher = [w \in Workers |-> FALSE]
  /\ woken = [w \in Workers |-> FALSE]

-----------------------------------------------------------------------------
(* cancel() on a request the worker may be using.  Queued requests are     *)
(* cancelled inside the action that removes them: nobody but the caller    *)
(* shares their JobState.                                                  *)

\* Mutant of StartCancel: the running request is not told.
MutStartCancel(js) == js \subseteq Jobs /\ UNCHANGED lockVars

StartCancel(js) ==
  \/ /\ js = {}
     /\ UNCHANGED lockVars
  \/ /\ cancelling' \in js
     /\ cancelStep' = "flag"

CancelFlag ==
  /\ cancelStep = "flag"
  /\ cancelled' = [cancelled EXCEPT ![cancelling] = TRUE]
  /\ cancelStep' = "complete"
  /\ UNCHANGED <<stateVars, cancelling, phase, slot, waker, workerVars>>

CancelComplete ==
  /\ cancelStep = "complete"
  /\ Complete(cancelling, "Cancelled")
  /\ cancelStep' = "wake"
  /\ UNCHANGED <<stateVars, cancelling, cancelled, waker, workerVars>>

\* worker_waker.take(), wake(), and the State lock is released.
CancelWake ==
  /\ cancelStep = "wake"
  /\ waker' = [waker EXCEPT ![cancelling] = NoWorker]
  /\ woken' = [w \in Workers |-> woken[w] \/ w = waker[cancelling]]
  /\ cancelling' = NoJob
  /\ cancelStep' = "idle"
  /\ UNCHANGED <<stateVars, phase, slot, cancelled, pc, cur, outcome, fetcher>>

Cancel == CancelFlag \/ CancelComplete \/ CancelWake

-----------------------------------------------------------------------------
(* State::note_generation                                                  *)

\* The records kept when one more scope is to be recorded.
Kept(s) ==
  IF Cardinality(Tracked) >= MaxTracked /\ s \notin Tracked
    THEN Tracked \cap {j.scope : j \in Queue \cup Running}
    ELSE Tracked

\* Mutant of Recorded: the generation is advanced once too often.
MutRecorded(s, g) ==
  [t \in Scopes |-> IF t = s THEN g + 1
                    ELSE IF t \in Kept(s) THEN latest[t] ELSE 0]

Recorded(s, g) ==
  [t \in Scopes |-> IF t = s THEN g
                    ELSE IF t \in Kept(s) THEN latest[t] ELSE 0]

\* An actor that already knows a newer generation ignores or refuses this one.
Superseded(s, g) == latest[s] > g

\* The waiting requests that (s, g) cuts off.
Stale(s, g) == Queue \cap Older(s, g)

NoteGeneration(s, g) ==
  /\ latest' = Recorded(s, g)
  /\ cancelled' = [j \in Jobs |-> cancelled[j] \/ j \in Stale(s, g)]
  /\ StartCancel(Running \cap Older(s, g))

\* The queue once note_generation dropped the stale requests.
KeptPlaces(s, g) ==
  [j \in Jobs |-> IF j \in Older(s, g) THEN 0 ELSE place[j]]

-----------------------------------------------------------------------------
(* The handle: begin_generation, run_page_scripts, and its last drop.      *)

\* The caller announces each navigation once, before its request if at all.
BeginGeneration(j) ==
  LET stale == Stale(j.scope, j.gen) IN
  /\ open /\ LockFree /\ phase[j] = "none"
  /\ ~ Superseded(j.scope, j.gen)
  /\ NoteGeneration(j.scope, j.gen)
  /\ place' = KeptPlaces(j.scope, j.gen)
  /\ slot' = Completed(stale, "Cancelled")
  /\ phase' = [Notified(stale) EXCEPT ![j] = "begun"]
  /\ UNCHANGED <<open, nextId, running, alive, waker, workerVars>>

\* A future that is ready at once holds no JobState: its first poll returns the
\* result and its drop does nothing, so such a request ends where it starts.

\* A newer generation was accepted before.
SubmitSuperseded(j) ==
  /\ open /\ LockFree /\ Unrequested(j)
  /\ Superseded(j.scope, j.gen)
  /\ phase' = [phase EXCEPT ![j] = "returned"]
  /\ slot' = [slot EXCEPT ![j] = "Cancelled"]
  /\ UNCHANGED <<stateVars, lockVars, cancelled, waker, workerVars>>

\* What every later outcome of run_page_scripts shares: the older requests
\* are cut off first, also when this one is then refused.
Accept(j, p, r) ==
  LET stale == Stale(j.scope, j.gen) IN
  /\ open /\ LockFree /\ Unrequested(j)
  /\ ~ Superseded(j.scope, j.gen)
  /\ NoteGeneration(j.scope, j.gen)
  /\ slot' = [Completed(stale, "Cancelled") EXCEPT ![j] = r]
  /\ phase' = [Notified(stale) EXCEPT ![j] = p]
  /\ UNCHANGED <<open, running, waker>>

QueueFull(j) ==
  Cardinality(Queue \ Older(j.scope, j.gen)) >= Capacity

\* No `<script' in the page: no thread is started.
SubmitSkipped(j) ==
  /\ Accept(j, "returned", "Skipped")
  /\ place' = KeptPlaces(j.scope, j.gen)
  /\ UNCHANGED <<nextId, alive, workerVars>>

SubmitBusy(j) ==
  /\ QueueFull(j)
  /\ Accept(j, "returned", "Busy")
  /\ place' = KeptPlaces(j.scope, j.gen)
  /\ UNCHANGED <<nextId, alive, workerVars>>

\* The worker of an earlier request takes this one too.
SubmitQueued(j) ==
  /\ ~ QueueFull(j) /\ alive
  /\ Accept(j, "poll", "none")
  /\ place' = [KeptPlaces(j.scope, j.gen) EXCEPT ![j] = nextId]
  /\ nextId' = nextId + 1
  /\ UNCHANGED <<alive, workerVars>>

SubmitSpawn(j, w) ==
  /\ ~ QueueFull(j) /\ ~ alive
  /\ pc[w] = "off"
  /\ Accept(j, "poll", "none")
  /\ place' = [KeptPlaces(j.scope, j.gen) EXCEPT ![j] = nextId]
  /\ nextId' = nextId + 1
  /\ alive' = TRUE
  /\ pc' = [pc EXCEPT ![w] = "boot"]
  /\ UNCHANGED <<cur, outcome, fetcher, woken>>

\* spawn_worker failed: the request just pushed is popped again.
SubmitSpawnFails(j) ==
  /\ ~ QueueFull(j) /\ ~ alive
  /\ Accept(j, "returned", "SpawnFailed")
  /\ place' = KeptPlaces(j.scope, j.gen)
  /\ nextId' = nextId + 1
  /\ UNCHANGED <<alive, workerVars>>

Submit(j) ==
  \/ SubmitSuperseded(j) \/ SubmitSkipped(j) \/ SubmitBusy(j)
  \/ SubmitQueued(j) \/ SubmitSpawnFails(j)
  \/ \E w \in Workers : SubmitSpawn(j, w)

\* Mutant of DropHandle: only the queue is cancelled.
MutDropHandle ==
  /\ open /\ LockFree
  /\ open' = FALSE
  /\ place' = [j \in Jobs |-> 0]
  /\ cancelled' = [j \in Jobs |-> cancelled[j] \/ j \in Queue]
  /\ slot' = Completed(Queue, "Cancelled")
  /\ phase' = Notified(Queue)
  /\ UNCHANGED <<latest, nextId, running, alive, lockVars, waker, workerVars>>

\* Inner::drop, when the last handle goes.  The thread is not joined.
DropHandle ==
  /\ open /\ LockFree
  /\ open' = FALSE
  /\ place' = [j \in Jobs |-> 0]
  /\ cancelled' = [j \in Jobs |-> cancelled[j] \/ j \in Queue]
  /\ slot' = Completed(Queue, "Cancelled")
  /\ phase' = Notified(Queue)
  /\ StartCancel(Running)
  /\ UNCHANGED <<latest, nextId, running, alive, waker, workerVars>>

-----------------------------------------------------------------------------
(* The caller's future: PageRunFuture::poll and its Drop.                  *)

CallerPoll(j) ==
  /\ phase[j] = "poll"
  /\ phase' = [phase EXCEPT ![j] = IF slot[j] = "none" THEN "wait" ELSE "returned"]
  /\ UNCHANGED <<stateVars, lockVars, slot, cancelled, waker, workerVars>>

\* The request leaves the queue, or its run is cut off.
DropFuture(j) ==
  /\ LockFree /\ Pending(j)
  /\ phase' = [phase EXCEPT ![j] = "dropped"]
  /\ place' = [place EXCEPT ![j] = 0]
  /\ StartCancel({j})
  /\ UNCHANGED <<open, latest, nextId, running, alive, slot, cancelled, waker,
                 workerVars>>

-----------------------------------------------------------------------------
(* The worker thread: worker_main, worker_loop and CancelOnSignal.         *)

Goto(w, l) == pc' = [pc EXCEPT ![w] = l]

\* The thread is gone, and the wakers that name it are dead.
ThreadEnds(w) ==
  /\ Goto(w, "off")
  /\ cur' = [cur EXCEPT ![w] = NoJob]
  /\ outcome' = [outcome EXCEPT ![w] = "none"]
  /\ fetcher' = [fetcher EXCEPT ![w] = FALSE]
  /\ woken' = [woken EXCEPT ![w] = FALSE]
  /\ waker' = [j \in Jobs |-> IF waker[j] = w THEN NoWorker ELSE waker[j]]

\* The executor builds its runtime, or fails before it polls the loop.
Boot(w) ==
  /\ pc[w] = "boot"
  /\ \/ Goto(w, "pop") /\ UNCHANGED outcome
     \/ Goto(w, "guard") /\ outcome' = [outcome EXCEPT ![w] = "ExecutorFailed"]
  /\ UNCHANGED <<stateVars, lockVars, jobVars, cur, fetcher, woken>>

\* The front of the queue: the least id in it.
Front(j) == j \in Queue /\ \A k \in Queue : place[j] <= place[k]

Pop(w) ==
  /\ pc[w] = "pop" /\ LockFree
  /\ \E j \in Jobs :
       /\ Front(j)
       /\ place' = [place EXCEPT ![j] = 0]
       /\ running' = j
       /\ cur' = [cur EXCEPT ![w] = j]
  /\ Goto(w, "start")
  /\ UNCHANGED <<open, latest, nextId, alive, lockVars, jobVars,
                 outcome, fetcher, woken>>

\* Mutant of Retire: the thread signs off without lowering worker_alive.
MutRetire(w) ==
  /\ pc[w] = "pop" /\ LockFree
  /\ Queue = {}
  /\ Goto(w, "exit")
  /\ UNCHANGED <<stateVars, lockVars, jobVars, cur, outcome, fetcher, woken>>

\* The queue is empty: the thread signs off in the same critical section.
Retire(w) ==
  /\ pc[w] = "pop" /\ LockFree
  /\ Queue = {}
  /\ alive' = FALSE
  /\ Goto(w, "exit")
  /\ UNCHANGED <<open, latest, place, nextId, running, lockVars, jobVars,
                 cur, outcome, fetcher, woken>>

SkipCancelled(w) ==
  /\ pc[w] = "start" /\ cancelled[cur[w]]
  /\ Goto(w, "clear")
  /\ UNCHANGED <<stateVars, lockVars, jobVars, cur, outcome, fetcher, woken>>

\* Fetcher::new succeeds (once per thread), and the run is polled.
Start(w) ==
  /\ pc[w] = "start" /\ ~ cancelled[cur[w]]
  /\ fetcher' = [fetcher EXCEPT ![w] = TRUE]
  /\ Goto(w, "register")
  /\ UNCHANGED <<stateVars, lockVars, jobVars, cur, outcome, woken>>

FetcherFails(w) ==
  /\ pc[w] = "start" /\ ~ cancelled[cur[w]] /\ ~ fetcher[w]
  /\ Complete(cur[w], "RunError")
  /\ Goto(w, "clear")
  /\ UNCHANGED <<stateVars, lockVars, cancelled, waker, cur, outcome, fetcher, woken>>

\* CancelOnSignal::poll: first leave a waker ...
Register(w) ==
  /\ pc[w] = "register"
  /\ waker' = [waker EXCEPT ![cur[w]] = w]
  /\ woken' = [woken EXCEPT ![w] = FALSE]
  /\ Goto(w, "check")
  /\ UNCHANGED <<stateVars, lockVars, phase, slot, cancelled, cur, outcome, fetcher>>

\* ... then look at the flag.
Check(w) ==
  /\ pc[w] = "check"
  /\ Goto(w, IF cancelled[cur[w]] THEN "clear" ELSE "inner")
  /\ UNCHANGED <<stateVars, lockVars, jobVars, cur, outcome, fetcher, woken>>

\* The run itself, bounded by the runner's wall-clock limit.
InnerDone(w) ==
  /\ pc[w] = "inner"
  /\ \E r \in {"Executed", "RunError"} : outcome' = [outcome EXCEPT ![w] = r]
  /\ Goto(w, "finish")
  /\ UNCHANGED <<stateVars, lockVars, jobVars, cur, fetcher, woken>>

InnerPending(w) ==
  /\ pc[w] = "inner"
  /\ Goto(w, "parked")
  /\ UNCHANGED <<stateVars, lockVars, jobVars, cur, outcome, fetcher, woken>>

\* What the run awaits makes progress.
InnerReady(w) ==
  /\ pc[w] = "parked" /\ ~ woken[w]
  /\ woken' = [woken EXCEPT ![w] = TRUE]
  /\ UNCHANGED <<stateVars, lockVars, jobVars, pc, cur, outcome, fetcher>>

\* Mutant of Resume: a later poll does not look at the flag again.
MutResume(w) ==
  /\ pc[w] = "parked" /\ woken[w]
  /\ woken' = [woken EXCEPT ![w] = FALSE]
  /\ Goto(w, "inner")
  /\ UNCHANGED <<stateVars, lockVars, jobVars, cur, outcome, fetcher>>

Resume(w) ==
  /\ pc[w] = "parked" /\ woken[w]
  /\ Goto(w, "register")
  /\ UNCHANGED <<stateVars, lockVars, jobVars, cur, outcome, fetcher, woken>>

Finish(w) ==
  /\ pc[w] = "finish"
  /\ Complete(cur[w], outcome[w])
  /\ outcome' = [outcome EXCEPT ![w] = "none"]
  /\ Goto(w, "clear")
  /\ UNCHANGED <<stateVars, lockVars, cancelled, waker, cur, fetcher, woken>>

Clear(w) ==
  /\ pc[w] = "clear" /\ LockFree
  /\ running' = NoJob
  /\ Goto(w, "ticket")
  /\ UNCHANGED <<open, latest, place, nextId, alive, lockVars, jobVars,
                 cur, outcome, fetcher, woken>>

\* JobTicket::drop after a run.
DropTicket(w) ==
  /\ pc[w] = "ticket"
  /\ Complete(cur[w], "Terminated")
  /\ cur' = [cur EXCEPT ![w] = NoJob]
  /\ Goto(w, "pop")
  /\ UNCHANGED <<stateVars, lockVars, cancelled, waker, outcome, fetcher, woken>>

\* The run panics: its locals are dropped, the ticket among them.
Panic(w) ==
  /\ pc[w] \in {"start", "inner"}
  /\ pc[w] = "start" => ~ cancelled[cur[w]]
  /\ Complete(cur[w], "Terminated")
  /\ outcome' = [outcome EXCEPT ![w] = "Terminated"]
  /\ Goto(w, "guard")
  /\ UNCHANGED <<stateVars, lockVars, cancelled, waker, cur, fetcher, woken>>

\* WorkerGuard::drop on a thread that dies: everyone waiting is told.
Guard(w) ==
  LET told == Queue \cup Running IN
  /\ pc[w] = "guard" /\ LockFree
  /\ alive' = FALSE
  /\ running' = NoJob
  /\ place' = [j \in Jobs |-> 0]
  /\ slot' = Completed(told, outcome[w])
  /\ phase' = Notified(told)
  /\ ThreadEnds(w)
  /\ UNCHANGED <<open, latest, nextId, lockVars, cancelled>>

\* The guard of a thread that retired does nothing.
Exit(w) ==
  /\ pc[w] = "exit"
  /\ ThreadEnds(w)
  /\ UNCHANGED <<stateVars, lockVars, phase, slot, cancelled>>

WorkerStep(w) ==
  \/ Boot(w) \/ Pop(w) \/ Retire(w)
  \/ SkipCancelled(w) \/ Start(w) \/ FetcherFails(w)
  \/ Register(w) \/ Check(w) \/ InnerDone(w) \/ InnerPending(w) \/ Resume(w)
  \/ Finish(w) \/ Clear(w) \/ DropTicket(w)
  \/ Panic(w) \/ Guard(w) \/ Exit(w)

-----------------------------------------------------------------------------
Next ==
  \/ \E j \in Jobs : BeginGeneration(j) \/ Submit(j)
  \/ \E j \in Jobs : CallerPoll(j) \/ DropFuture(j)
  \/ DropHandle
  \/ Cancel
  \/ \E w \in Workers : WorkerStep(w) \/ InnerReady(w)

Spec == Init /\ [][Next]_vars

\* The threads and the callers' executors keep running; a critical section
\* ends; nothing is assumed of the network a run waits for.
ThreadFairness ==
  /\ WF_vars(Cancel)
  /\ \A w \in Workers : WF_vars(WorkerStep(w))
  /\ \A j \in Jobs : WF_vars(CallerPoll(j))

\* The runner's wall-clock limit: a run makes progress and ends.
RunFairness ==
  \A w \in Workers : WF_vars(InnerReady(w)) /\ SF_vars(InnerDone(w))

FairSpec == Spec /\ ThreadFairness

-----------------------------------------------------------------------------
(* Type invariant.                                                         *)

Phases == {"none", "begun", "poll", "wait", "returned", "dropped"}

Labels == {"off", "boot", "pop", "start", "register", "check", "inner",
           "parked", "finish", "clear", "ticket", "guard", "exit"}

\* Every variable stays in its range.
TypeOK ==
  /\ open \in BOOLEAN
  /\ latest \in [Scopes -> 0 .. MaxGen]
  /\ place \in [Jobs -> Nat]
  /\ nextId \in Nat \ {0}
  /\ running \in Jobs \cup {NoJob}
  /\ alive \in BOOLEAN
  /\ cancelling \in Jobs \cup {NoJob}
  /\ cancelStep \in {"idle", "flag", "complete", "wake"}
  /\ phase \in [Jobs -> Phases]
  /\ slot \in [Jobs -> Results \cup {"none"}]
  /\ cancelled \in [Jobs -> BOOLEAN]
  /\ waker \in [Jobs -> Workers \cup {NoWorker}]
  /\ pc \in [Workers -> Labels]
  /\ cur \in [Workers -> Jobs \cup {NoJob}]
  /\ outcome \in [Workers -> Results \cup {"none"}]
  /\ fetcher \in [Workers -> BOOLEAN]
  /\ woken \in [Workers -> BOOLEAN]

-----------------------------------------------------------------------------
(* Safety.                                                                 *)

\* A thread that the State counts as its worker.
Active(w) == pc[w] \notin {"off", "exit"}

\* A worker that took a request and has not given it back.
Holding(w) == pc[w] \in {"start", "register", "check", "inner", "parked",
                         "finish", "clear"}

\* Where a thread is tells what it carries, and the lock data says whether a
\* cancellation is under way.
StagesOK ==
  /\ LockFree <=> cancelStep = "idle"
  /\ \A w \in Workers :
       /\ Holding(w) \/ pc[w] = "ticket" => cur[w] \in Jobs
       /\ pc[w] = "finish" => outcome[w] \in {"Executed", "RunError"}
       /\ pc[w] = "guard" => outcome[w] \in {"Terminated", "ExecutorFailed"}

\* The request is over for everybody but the caller who may read its result.
Settled(j) == slot[j] # "none"

\* One worker at a time, and worker_alive says exactly whether there is one:
\* a request that sees worker_alive need not start a thread, one that does not
\* must (lines 716 and 879-884 of page_actor.rs).
OneWorker ==
  /\ \A v, w \in Workers : Active(v) /\ Active(w) => v = w
  /\ alive <=> \E w \in Workers : Active(w)

\* A waiting request is never left behind by a thread that signs off or dies:
\* while the queue holds something there is a worker that will look at it.
NoStrandedQueue ==
  \A j \in Queue : \E w \in Workers : Active(w)

\* `running' names the request the worker holds, so that a newer generation
\* cancels the right run.
RunningIsHeld ==
  \A w \in Workers : Holding(w) => running = cur[w]

\* What waits or runs is the newest generation of its scope, or was cut off;
\* the eviction of records must not lose the record of such a scope.
NewestOnly ==
  LockFree => /\ \A j \in Queue : latest[j.scope] = j.gen
              /\ \A j \in Running : cancelled[j] \/ latest[j.scope] = j.gen

\* At most Capacity requests wait, the running one not counted.
WithinCapacity == Cardinality(Queue) <= Capacity

\* Nobody waits on a request that no thread knows: a pending future without a
\* result is queued or in the hands of a live worker (JobTicket, WorkerGuard).
NoOrphan ==
  \A j \in Jobs :
    Pending(j) /\ ~ Settled(j) =>
      \/ j \in Queue
      \/ \E w \in Workers : Active(w) /\ cur[w] = j

\* Who was accepted is served: whatever retires, dies or cannot start, there is
\* one worker that callers know of, it looks at every waiting request, and it
\* is the run it really holds that a newer generation finds (lines 716 to 732
\* and 845 to 884 of page_actor.rs).
Served == OneWorker /\ NoStrandedQueue /\ NoOrphan /\ RunningIsHeld

\* A request is in one place: one that nobody asked for is untouched, one that
\* waits is neither run nor being cancelled.
Apart ==
  /\ \A j \in Jobs : Unrequested(j) =>
       /\ place[j] = 0 /\ ~ cancelled[j] /\ ~ Settled(j)
       /\ j # running /\ j # cancelling
       /\ \A w \in Workers : cur[w] # j
  /\ \A j \in Queue : /\ j # running /\ j # cancelling
                      /\ \A w \in Workers : cur[w] # j

\* A cancellation reaches its request and answers it before the State lock is
\* released: what waits is current, what runs is current or cut off, and what
\* was cut off has its answer.
CutOff ==
  /\ \A j \in Queue :
       latest[j.scope] = j.gen /\ ~ cancelled[j] /\ ~ Settled(j)
  /\ \A j \in Running : \/ cancelled[j]
                        \/ latest[j.scope] = j.gen
                        \/ cancelling = j /\ cancelStep = "flag"
  /\ \A j \in Jobs : cancelled[j] =>
       Settled(j) \/ (cancelling = j /\ cancelStep = "complete")

\* No lost wakeup: a run that was cut off never sleeps without a wakeup on
\* its way (register_worker before is_cancelled, the flag before the waker).
CutOffRunWakes ==
  \A w \in Workers :
    pc[w] = "parked" /\ cancelled[cur[w]] =>
      woken[w] \/ (cancelling = cur[w] /\ waker[cur[w]] = w)

-----------------------------------------------------------------------------
(* What a step may never do.                                               *)

\* The first result wins: whatever a late ticket, guard or cancel writes, a
\* request that was answered keeps its answer.
FirstResultWins ==
  [][\A j \in Jobs : Settled(j) => slot'[j] = slot[j]]_vars

\* JS-4: once a newer generation is on record, an older request that has no
\* result yet does not end as executed.
StaleNeverExecutes ==
  [][\A j \in Jobs :
       LockFree /\ latest[j.scope] > j.gen /\ ~ Settled(j)
         => slot'[j] # "Executed"]_vars

\* What a caller is told stands: cancellation, run, ticket and guard all write,
\* in any order, and neither is an answer taken back nor is a request that was
\* overtaken while it was unanswered reported as executed.
ResultsStand == FirstResultWins /\ StaleNeverExecutes

\* Requests are taken in the order they were accepted.
FirstComeFirstServed ==
  [][\A j, k \in Jobs :
       /\ j \in Queue /\ k \in Queue /\ place[j] < place[k]
       /\ \E w \in Workers : cur[w] # k /\ cur'[w] = k
       => FALSE]_vars

-----------------------------------------------------------------------------
(* Liveness.                                                               *)

\* No caller waits for ever, whatever fails: if runs end, every pending future
\* returns (or its caller dropped it).
EveryRequestResolves ==
  RunFairness => \A j \in Jobs : Pending(j) ~> ~ Pending(j)

\* A run that was cut off leaves the worker even if what it awaits never
\* comes: the wakeup of cancel() is not lost.
CutOffRunLeaves ==
  \A j \in Jobs : (running = j /\ cancelled[j]) ~> running # j

\* Once the last handle is gone the thread ends by itself, even if the run it
\* was driving would never have ended.
DroppedHandleStopsWorker ==
  ~ open ~> ~ alive

\* Nothing keeps the worker busy for nobody: neither a run that was cut off nor
\* one whose handle is gone, though what it awaits may never come.
RunsEnd == CutOffRunLeaves /\ DroppedHandleStopsWorker

\* Callers get their answers, and the worker does not stay with a run that
\* nobody waits for, whatever is cancelled, dies, or never comes.
EverythingEnds == EveryRequestResolves /\ RunsEnd

-----------------------------------------------------------------------------
(* What the callers are promised.                                          *)

\* What a caller may know of its own request.
CallerStage ==
  [j \in Jobs |-> CASE phase[j] = "begun"             -> "announced"
                    [] phase[j] \in {"poll", "wait"} -> "asked"
                    [] phase[j] = "dropped"           -> "left"
                    [] OTHER                          -> phase[j]]

\* The request a cancellation has yet to answer.
Revoking == IF cancelStep \in {"flag", "complete"} THEN cancelling ELSE NoJob

Service == INSTANCE PageService WITH
  Requests <- Jobs, NoRequest <- NoJob,
  turn <- place, serving <- running, answer <- slot,
  stage <- CallerStage, revoking <- Revoking

\* With its thread that comes and goes, the flags, tickets and guards, and a
\* table of generations that forgets, the actor does no more than the contract
\* says: one request at a time in the order of acceptance, one answer to each,
\* and none cancelled but by a newer navigation of its own sequence, by its
\* caller or by the end of the service (lines 28 to 38 of page_actor.rs).
ImplementsService == Service!Spec

=============================================================================
