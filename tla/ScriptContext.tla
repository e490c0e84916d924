---------------------------- MODULE ScriptContext ----------------------------
(***************************************************************************)
(* The evaluation contexts of core/src/script_context.rs: CDP handlers ask *)
(* for a script to be evaluated on a committed document, one lazily        *)
(* started worker thread owns the contexts (one JS process each), and a    *)
(* record per navigation sequence ("scope") says which generation counts.  *)
(* A record that was released and made again has a new incarnation.        *)
(*                                                                         *)
(* One action is one critical section of the `State' lock, with the        *)
(* thread-private steps around it.  Notifying the worker is part of the    *)
(* action although begin_generation, release_scope and Inner::drop do it   *)
(* after giving the lock back: a worker that looked at the state in        *)
(* between looks once more, and finds nothing new.                         *)
(***************************************************************************)
EXTENDS Integers, Sequences, FiniteSets, SequencesExt

CONSTANTS
  Scopes,       \* navigation sequences
  MaxGen,       \* bound: generations of a scope
  Worlds,       \* execution contexts of a page
  Evals,        \* bound: the evaluations of a behaviour
  Capacity,     \* queue_capacity
  MaxTracked,   \* MAX_TRACKED_SCOPES
  MaxLive,      \* max_live
  MaxPerScope,  \* max_per_scope
  MaxRecords,   \* bound: records made in a behaviour
  Workers,      \* bound: threads that may exist at one time
  NoEval, NoKey

ASSUME ScriptBoundsAssumption ==
  /\ MaxGen \in Nat \ {0} /\ Capacity \in Nat \ {0} /\ MaxRecords \in Nat
  /\ MaxTracked \in Nat   /\ MaxLive \in Nat        /\ MaxPerScope \in Nat
ASSUME NoEvalAssumption == NoEval \notin Evals

Gens == 1 .. MaxGen
Keys == [scope : Scopes, gen : Gens, world : Worlds]

ASSUME NoKeyAssumption == NoKey \notin Keys

\* A live context: its key and the incarnation it was built under.
Contexts == [key : Keys, inc : 1 .. MaxRecords]

\* NotFound: out of date; Limit: some bound was reached; Engine: no context
\* could be made, or its process was lost; Value: the script was evaluated.
Results == {"Value", "NotFound", "Limit", "Engine", "Terminated", "SpawnFailed"}

VARIABLES
  open,        \* a ScriptContextHandle exists (State::shutdown is its negation)
  latest,      \* latest[s]: newest generation on record, 0 if no record
  incarnation, \* incarnation[s] of that record
  made,        \* State::next_incarnation: records made so far
  queue,       \* State::queue
  alive,       \* State::worker_alive
  spawns,      \* State::worker_spawns
  live,        \* State::live_contexts
  key, inc,    \* of each EvalJob: its key and the incarnation accepted for
  phase,       \* of its future: new, pending, dropping, over
  slot,        \* Slot::result, kept after it was taken
  pc,          \* of each worker thread
  generation,  \* WorkerGuard::generation
  contexts,    \* the worker's table
  cur, current,\* the evaluation it took, and whether that was up to date
  announced    \* history: newest generation announced since the last release

callerVars == <<open, latest, incarnation, made, announced>>
sharedVars == <<queue, alive, spawns, live>>
evalVars   == <<key, inc, phase, slot>>
threadVars == <<pc, generation, contexts, cur, current>>
vars       == <<callerVars, sharedVars, evalVars, threadVars>>

Init ==
  /\ open = TRUE
  /\ latest = [s \in Scopes |-> 0]
  /\ incarnation = [s \in Scopes |-> 0]
  /\ made = 0
  /\ queue = <<>>
  /\ alive = FALSE
  /\ spawns = 0
  /\ live = 0
  /\ key = [e \in Evals |-> NoKey]
  /\ inc = [e \in Evals |-> 0]
  /\ phase = [e \in Evals |-> "new"]
  /\ slot = [e \in Evals |-> "none"]
  /\ pc = [w \in Workers |-> "off"]
  /\ generation = [w \in Workers |-> 0]
  /\ contexts = [w \in Workers |-> {}]
  /\ cur = [w \in Workers |-> NoEval]
  /\ current = [w \in Workers |-> FALSE]
  /\ announced = [s \in Scopes |-> 0]

-----------------------------------------------------------------------------
Tracked == {s \in Scopes : latest[s] > 0}
Larger(a, b) == IF a < b THEN b ELSE a

\* State::is_current.
IsCurrent(k, i) == latest[k.scope] = k.gen /\ incarnation[k.scope] = i

\* Mutant of QueueFull: one evaluation too many.
MutQueueFull == Len(queue) > Capacity

\* evaluate() finds no room to wait.
QueueFull == Len(queue) >= Capacity

\* State::track refuses.
TableFull(s) == s \notin Tracked /\ Cardinality(Tracked) >= MaxTracked

\* State::track: a known record goes up, an unknown one is made.
Track(s, g) ==
  /\ latest' = [latest EXCEPT ![s] = Larger(@, g)]
  /\ IF s \in Tracked THEN UNCHANGED <<incarnation, made>>
     ELSE /\ made < MaxRecords
          /\ made' = made + 1
          /\ incarnation' = [incarnation EXCEPT ![s] = made + 1]

\* JobState::complete for each of es, whose EvalJob is dropped: the first result
\* wins.  The caller's future, woken under the same lock, ends with it.
Complete(es, r) ==
  /\ key' = [e \in Evals |-> IF e \in es THEN NoKey ELSE key[e]]
  /\ inc' = [e \in Evals |-> IF e \in es THEN 0 ELSE inc[e]]
  /\ slot' = [e \in Evals |->
                IF e \in es /\ slot[e] = "none" THEN r ELSE slot[e]]
  /\ phase' = [e \in Evals |->
                IF e \in es /\ phase[e] = "pending" THEN "over" ELSE phase[e]]

\* notify_all: a worker that waits on the condition variable looks again.
Woken == [w \in Workers |-> IF pc[w] = "asleep" THEN "look" ELSE pc[w]]

-----------------------------------------------------------------------------
(* The handle.                                                             *)

\* Mutant of BeginGeneration: the worker is not woken.
MutBeginGeneration(s, g) ==
  /\ open
  /\ ~ TableFull(s)
  /\ Track(s, g)
  /\ announced' = [announced EXCEPT ![s] = Larger(@, g)]
  /\ UNCHANGED <<open, sharedVars, evalVars, threadVars>>

\* begin_generation; a refusal changes nothing.
BeginGeneration(s, g) ==
  /\ open
  /\ ~ TableFull(s)
  /\ Track(s, g)
  /\ announced' = [announced EXCEPT ![s] = Larger(@, g)]
  /\ pc' = Woken
  /\ UNCHANGED <<open, sharedVars, evalVars, generation, contexts, cur, current>>

\* release_scope.
ReleaseScope(s) ==
  /\ open
  /\ s \in Tracked
  /\ latest' = [latest EXCEPT ![s] = 0]
  /\ incarnation' = [incarnation EXCEPT ![s] = 0]
  /\ announced' = [announced EXCEPT ![s] = 0]
  /\ pc' = Woken
  /\ UNCHANGED <<open, made, sharedVars, evalVars,
                 generation, contexts, cur, current>>

\* evaluate() returns a future that has its answer.
Refuse(e, r) ==
  /\ phase' = [phase EXCEPT ![e] = "over"]
  /\ slot' = [slot EXCEPT ![e] = r]
  /\ UNCHANGED <<callerVars, sharedVars, key, inc, threadVars>>

\* evaluate() of something out of date, or with no room to wait or to track.
EvaluateRefused(e, k) ==
  /\ open
  /\ phase[e] = "new"
  /\ \/ latest[k.scope] > k.gen /\ Refuse(e, "NotFound")
     \/ /\ latest[k.scope] <= k.gen
        /\ QueueFull \/ TableFull(k.scope)
        /\ Refuse(e, "Limit")

\* Mutant of SpawnFails: the record is removed, not put back.
MutSpawnFails(e, k) ==
  /\ latest' = [latest EXCEPT ![k.scope] = 0]
  /\ phase' = [phase EXCEPT ![e] = "over"]
  /\ slot' = [slot EXCEPT ![e] = "SpawnFailed"]
  /\ UNCHANGED <<open, incarnation, made, announced, sharedVars, key, inc, threadVars>>

\* The thread cannot start: evaluation and record are taken back.
SpawnFails(e, k) == Refuse(e, "SpawnFailed")

\* A worker is there for what was pushed: it is woken, or a thread is started.
Notify ==
  /\ alive' = TRUE
  /\ IF alive
       THEN pc' = Woken /\ UNCHANGED <<spawns, generation>>
       ELSE \E w \in {v \in Workers : pc[v] = "off"} :
              /\ pc' = [pc EXCEPT ![w] = "look"]
              /\ spawns' = spawns + 1
              /\ generation' = [generation EXCEPT ![w] = spawns + 1]

\* evaluate(): track and push, and see to a worker.
Push(e, k) ==
  /\ Track(k.scope, k.gen)
  /\ announced' = [announced EXCEPT ![k.scope] = Larger(@, k.gen)]
  /\ queue' = Append(queue, e)
  /\ key' = [key EXCEPT ![e] = k]
  /\ inc' = [inc EXCEPT ![e] = incarnation'[k.scope]]
  /\ phase' = [phase EXCEPT ![e] = "pending"]
  /\ Notify
  /\ UNCHANGED <<open, live, slot, contexts, cur, current>>

\* evaluate() of what is up to date and finds room.
EvaluateAccepted(e, k) ==
  /\ open
  /\ phase[e] = "new"
  /\ latest[k.scope] <= k.gen
  /\ ~ QueueFull
  /\ ~ TableFull(k.scope)
  /\ (~ alive /\ SpawnFails(e, k)) \/ Push(e, k)

\* ScriptEvalFuture::drop before the answer: the flag first ...
Abandon(e) ==
  /\ phase[e] = "pending"
  /\ phase' = [phase EXCEPT ![e] = "dropping"]
  /\ UNCHANGED <<callerVars, sharedVars, key, inc, slot, threadVars>>

\* ... then the evaluation is taken out of the queue; its ticket goes with it.
Withdraw(e) ==
  /\ phase[e] = "dropping"
  /\ phase' = [phase EXCEPT ![e] = "over"]
  /\ \/ \E i \in DOMAIN queue :
          /\ queue[i] = e
          /\ queue' = RemoveAt(queue, i)
          /\ slot' = [slot EXCEPT ![e] = "Terminated"]
          /\ key' = [key EXCEPT ![e] = NoKey]
          /\ inc' = [inc EXCEPT ![e] = 0]
     \/ e \notin Range(queue) /\ UNCHANGED <<queue, slot, key, inc>>
  /\ UNCHANGED <<callerVars, alive, spawns, live, threadVars>>

\* Inner::drop, with the last handle.
CloseHandle ==
  /\ open
  /\ open' = FALSE
  /\ queue' = <<>>
  /\ Complete(Range(queue), "Terminated")
  /\ pc' = Woken
  /\ UNCHANGED <<latest, incarnation, made, announced, alive, spawns, live,
                 generation, contexts, cur, current>>

-----------------------------------------------------------------------------
(* The worker thread.                                                      *)

Outdated(w) == {c \in contexts[w] : ~ IsCurrent(c.key, c.inc)}

\* worker_main, the locked part: the handle is gone, or nothing is left.
Retire(w) ==
  /\ pc[w] = "look"
  /\ \/ ~ open /\ UNCHANGED alive
     \/ open /\ queue = <<>> /\ contexts[w] = {} /\ alive' = FALSE
  /\ pc' = [pc EXCEPT ![w] = "leave"]
  /\ UNCHANGED <<callerVars, queue, spawns, live, evalVars,
                 generation, contexts, cur, current>>

\* Nothing to do, but contexts to keep: wait on the condition variable.
Sleep(w) ==
  /\ pc[w] = "look"
  /\ open /\ queue = <<>> /\ contexts[w] # {} /\ Outdated(w) = {}
  /\ pc' = [pc EXCEPT ![w] = "asleep"]
  /\ UNCHANGED <<callerVars, sharedVars, evalVars,
                 generation, contexts, cur, current>>

\* Take the next evaluation, if any, and drop the contexts that the same look
\* at the records found out of date; sync_live follows.
Take(w) ==
  /\ pc[w] = "look"
  /\ open
  /\ queue # <<>> \/ Outdated(w) # {}
  /\ contexts' = [contexts EXCEPT ![w] = @ \ Outdated(w)]
  /\ live' = IF Outdated(w) = {} THEN live
             ELSE Cardinality(contexts[w] \ Outdated(w))
  /\ IF queue = <<>>
       THEN UNCHANGED <<queue, pc, cur, current>>
       ELSE /\ queue' = Tail(queue)
            /\ cur' = [cur EXCEPT ![w] = Head(queue)]
            /\ current' = [current EXCEPT ![w] =
                             IsCurrent(key[Head(queue)], inc[Head(queue)])]
            /\ pc' = [pc EXCEPT ![w] = "prepare"]
  /\ UNCHANGED <<callerVars, alive, spawns, evalVars, generation>>

\* The evaluation in hand is over; the ticket writes only if nobody did.
Finish(w, r) ==
  /\ Complete({cur[w]}, r)
  /\ pc' = [pc EXCEPT ![w] = "look"]
  /\ cur' = [cur EXCEPT ![w] = NoEval]
  /\ current' = [current EXCEPT ![w] = FALSE]

HasContext(w, k) == \E c \in contexts[w] : c.key = k
OfScope(w, s)    == {c \in contexts[w] : c.key.scope = s}
AtLimit(w, k) ==
  \/ Cardinality(contexts[w]) >= MaxLive
  \/ Cardinality(OfScope(w, k.scope)) >= MaxPerScope

Abandoned(e) == phase[e] \in {"dropping", "over"}

\* Not evaluated: abandoned, out of date, or no room for its context.
Decline(w) ==
  /\ pc[w] = "prepare"
  /\ \/ Abandoned(cur[w]) /\ Finish(w, "Terminated")
     \/ ~ Abandoned(cur[w]) /\ ~ current[w] /\ Finish(w, "NotFound")
     \/ /\ ~ Abandoned(cur[w]) /\ current[w]
        /\ ~ HasContext(w, key[cur[w]]) /\ AtLimit(w, key[cur[w]])
        /\ Finish(w, "Limit")
  /\ UNCHANGED <<callerVars, sharedVars, generation, contexts>>

\* handle_evaluate: the context exists or is built, which may fail.
Prepare(w) ==
  LET e == cur[w]
  IN /\ pc[w] = "prepare"
     /\ ~ Abandoned(e) /\ current[w]
     /\ \/ /\ HasContext(w, key[e])
           /\ pc' = [pc EXCEPT ![w] = "execute"]
           /\ UNCHANGED <<live, contexts, cur, current, evalVars>>
        \/ /\ ~ HasContext(w, key[e]) /\ ~ AtLimit(w, key[e])
           /\ \/ /\ contexts' = [contexts EXCEPT ![w] =
                                   @ \cup {[key |-> key[e], inc |-> inc[e]]}]
                 /\ live' = Cardinality(contexts[w]) + 1
                 /\ pc' = [pc EXCEPT ![w] = "execute"]
                 /\ UNCHANGED <<cur, current, evalVars>>
              \/ Finish(w, "Engine") /\ UNCHANGED <<live, contexts>>
     /\ UNCHANGED <<callerVars, queue, alive, spawns, generation>>

\* The script ends; a lost engine takes its context along (classify_evaluation).
Execute(w) ==
  LET mine == {c \in contexts[w] : c.key = key[cur[w]]}
  IN /\ pc[w] = "execute"
     /\ \/ Finish(w, "Value") /\ UNCHANGED <<live, contexts>>
        \/ /\ Finish(w, "Engine")
           /\ contexts' = [contexts EXCEPT ![w] = @ \ mine]
           /\ live' = Cardinality(contexts[w] \ mine)
     /\ UNCHANGED <<callerVars, queue, alive, spawns, generation>>

\* The thread panics while it works for an evaluation: the ticket goes first.
Panic(w) ==
  /\ pc[w] \in {"prepare", "execute"}
  /\ Complete({cur[w]}, "Terminated")
  /\ pc' = [pc EXCEPT ![w] = "leave"]
  /\ cur' = [cur EXCEPT ![w] = NoEval]
  /\ current' = [current EXCEPT ![w] = FALSE]
  /\ UNCHANGED <<callerVars, sharedVars, generation, contexts>>

\* Leaving drops the contexts, then the guard.
DropContexts(w) ==
  /\ pc[w] = "leave"
  /\ contexts' = [contexts EXCEPT ![w] = {}]
  /\ pc' = [pc EXCEPT ![w] = "guard"]
  /\ UNCHANGED <<callerVars, sharedVars, evalVars, generation, cur, current>>

\* Mutant of Guard: it does not ask whether a newer worker was started.
MutGuard(w) ==
  /\ pc[w] = "guard"
  /\ alive' = FALSE /\ live' = 0 /\ queue' = <<>>
  /\ Complete(Range(queue), "Terminated")
  /\ pc' = [pc EXCEPT ![w] = "off"]
  /\ UNCHANGED <<callerVars, spawns, generation, contexts, cur, current>>

\* WorkerGuard::drop.
Guard(w) ==
  /\ pc[w] = "guard"
  /\ IF spawns = generation[w]
       THEN /\ alive' = FALSE /\ live' = 0 /\ queue' = <<>>
            /\ Complete(Range(queue), "Terminated")
       ELSE UNCHANGED <<alive, live, queue, evalVars>>
  /\ pc' = [pc EXCEPT ![w] = "off"]
  /\ UNCHANGED <<callerVars, spawns, generation, contexts, cur, current>>

-----------------------------------------------------------------------------
Client ==
  \/ \E s \in Scopes, g \in Gens : BeginGeneration(s, g)
  \/ \E s \in Scopes : ReleaseScope(s)
  \/ \E e \in Evals, k \in Keys : EvaluateRefused(e, k) \/ EvaluateAccepted(e, k)
  \/ \E e \in Evals : Abandon(e) \/ Withdraw(e)
  \/ CloseHandle

Worker(w) ==
  \/ Retire(w) \/ Sleep(w) \/ Take(w) \/ Decline(w) \/ Prepare(w) \/ Execute(w)
  \/ Panic(w) \/ DropContexts(w) \/ Guard(w)

Next == Client \/ \E w \in Workers : Worker(w)

Spec == Init /\ [][Next]_vars

\* A drop goes on, threads are scheduled, and an evaluation has a timeout
\*  (ScriptEvalOptions::timeout), so a worker's step always ends.
FairSpec ==
  /\ Spec
  /\ \A e \in Evals : WF_vars(Withdraw(e))
  /\ \A w \in Workers : WF_vars(Worker(w))

-----------------------------------------------------------------------------
(* Properties.                                                             *)

Working(w) == pc[w] \in {"look", "asleep", "prepare", "execute"}
AllContexts == UNION {contexts[w] : w \in Workers}

\* Types of State, of the evaluations and of the worker's locals.
TypeOK ==
  /\ open \in BOOLEAN /\ alive \in BOOLEAN
  /\ latest \in [Scopes -> 0 .. MaxGen]
  /\ incarnation \in [Scopes -> 0 .. MaxRecords]
  /\ announced \in [Scopes -> 0 .. MaxGen]
  /\ made \in 0 .. MaxRecords
  /\ queue \in Seq(Evals) /\ Len(queue) <= Capacity
  /\ spawns \in Nat /\ live \in Nat
  /\ key \in [Evals -> Keys \cup {NoKey}]
  /\ inc \in [Evals -> 0 .. MaxRecords]
  /\ phase \in [Evals -> {"new", "pending", "dropping", "over"}]
  /\ slot \in [Evals -> Results \cup {"none"}]
  /\ pc \in [Workers -> {"off", "look", "asleep", "prepare", "execute", "leave", "guard"}]
  /\ generation \in [Workers -> Nat]
  /\ contexts \in [Workers -> SUBSET Contexts]
  /\ cur \in [Workers -> Evals \cup {NoEval}]
  /\ current \in [Workers -> BOOLEAN]

\* script_context.rs:1163: what is evaluated runs in a context that was built
\* under the same registration of its scope; a scope that was released and
\* registered again, with an evaluation waiting or a context alive, never
\* shows the former page to the new one.
RunsInItsContext ==
  \A w \in Workers : pc[w] = "execute" =>
    \A c \in contexts[w] : c.key = key[cur[w]] => c.inc = inc[cur[w]]

\* script_context.rs:28: once a newer generation was announced and not released
\* since, nothing of an older one is taken up, whatever else failed meanwhile.
NoStaleRun ==
  [][\A w \in Workers : pc[w] = "look" /\ pc'[w] = "prepare" /\ current'[w] =>
       announced[key[cur'[w]].scope] = key[cur'[w]].gen]_vars

\* No evaluation runs for a page that is gone: neither in a context of the
\* former page, nor itself left over from one.
RunsAreCurrent == []RunsInItsContext /\ NoStaleRun

\* script_context.rs:1100: a thread that takes evaluations is the one that
\* callers know of, so there is one, and the late guard of a thread that left
\* neither empties its successor's queue nor makes room for a third.
OneWorker ==
  \A w \in Workers : Working(w) => alive /\ generation[w] = spawns

\* The processes of all threads together stay within max_live, also while a
\* worker that died is being cleaned up and another takes over.
ProcessesBounded == Cardinality(AllContexts) <= MaxLive

\* Neither threads nor processes multiply while workers die and are replaced.
WorkersBounded == OneWorker /\ ProcessesBounded

\* Who waits for an evaluation gets its answer, though the worker retires, dies
\* or is replaced, and the handle or other callers go away.
EveryEvaluationResolves ==
  \A e \in Evals : phase[e] = "pending" ~> phase[e] = "over"

\* A context whose scope was released, navigated or registered again goes, and
\* all do once the last handle is dropped; their processes do not pile up.
Leftover ==
  {c \in AllContexts : ~ open \/ ~ IsCurrent(c.key, c.inc)}
StaleContextsGo == (Leftover # {}) ~> (Leftover = {})

\* The worker neither leaves a caller waiting nor sleeps over a context that
\* nobody can use any more.
WorkIsDone == EveryEvaluationResolves /\ StaleContextsGo

=============================================================================
