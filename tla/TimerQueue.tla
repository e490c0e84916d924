----------------------------- MODULE TimerQueue -----------------------------
(***************************************************************************)
(* Timers of a page in virtual time: TimerQueue of core/src/event_loop.rs  *)
(* with the table of callbacks that js_shim/timers.js keeps beside it.     *)
(* The queue decides what is due; the table has what is to be called.      *)
(* The page may go to the queue directly (__dom.op): it then leaves a       *)
(* callback behind, so that the shim sweeps its table now and then, or has *)
(* a timer that the shim knows nothing of.                                 *)
(*                                                                         *)
(* The operations are the conjuncts that the actions of PageRun are made   *)
(* of.                                                                     *)
(***************************************************************************)
EXTENDS Integers, FiniteSets, Functions, Sequences, SequencesExt

CONSTANTS
  Delays,      \* bound: the delays a page asks for, normalised already
  MaxIds,      \* bound: timers registered in a behaviour
  MaxTimers,   \* max_registered_timers
  MaxFires,    \* max_timer_fires
  MaxVirtual,  \* max_virtual_time
  SweepMin     \* SWEEP_MIN

ASSUME TimerBoundsAssumption ==
  /\ Delays \subseteq Nat  /\ MaxIds \in Nat      /\ MaxTimers \in Nat
  /\ MaxFires \in Nat      /\ MaxVirtual \in Nat  /\ SweepMin \in Nat \ {0}

Ids == 1 .. MaxIds
NoTimer == 0

VARIABLES
  entries,   \* TimerQueue::entries: id -> [due, delay, repeat], and as history
             \* whether the page registered it without the shim
  order,     \* TimerQueue::order: the ids as the BTreeMap sorts them, by the
             \* time they are due at, then by turn (next_seq)
  armed,     \* TimerQueue::armed
  lastId,    \* TimerQueue::next_id: the last id given out
  now,       \* TimerQueue::now_ms
  fired,     \* TimerQueue::fired
  table,     \* timers.js: the ids with a callback in `timers'
  retained,  \* timers.js: how many it takes them for
  sweepAt    \* timers.js: the number at which it sweeps

queueVars == <<entries, order, armed, lastId, now, fired>>
shimVars  == <<table, retained, sweepAt>>
timerVars == <<queueVars, shimVars>>

TimerInit ==
  /\ entries = <<>> /\ order = <<>> /\ armed = NoTimer
  /\ lastId = 0 /\ now = 0 /\ fired = 0
  /\ table = {} /\ retained = 0 /\ sweepAt = SweepMin

Pending == DOMAIN entries

\* Those whose callback the shim was given.
Entrusted == {id \in Pending : ~ entries[id].direct}

\* order.insert, with a new turn: behind all that is due no later.
Insert(id, due) ==
  LET place == CHOOSE k \in 1 .. Len(order) + 1 :
                 /\ \A j \in 1 .. k - 1 : entries[order[j]].due <= due
                 /\ \A j \in k .. Len(order) : entries[order[j]].due > due
  IN  InsertAt(order, place, id)

\* order.first_key_value()
IsFirst(i) == order # <<>> /\ Head(order) = i

-----------------------------------------------------------------------------
(* The queue.                                                              *)

\* register, when there is room.
Register(delay, repeat, direct) ==
  LET id == lastId + 1
  IN  /\ lastId < MaxIds
      /\ entries' = [i \in Pending \cup {id} |->
                       IF i = id
                       THEN [due |-> now + delay, delay |-> delay, repeat |-> repeat,
                             direct |-> direct]
                       ELSE entries[i]]
      /\ order' = Insert(id, now + delay)
      /\ lastId' = id
      /\ UNCHANGED <<armed, now, fired>>

\* register refuses: registration_refused is for the caller to set.
Full == Cardinality(Pending) >= MaxTimers

\* clear: nothing happens for an id that is not registered.
ClearQueue(id) ==
  /\ entries' = Restrict(entries, Pending \ {id})
  /\ order' = RemoveFirst(order, id)
  /\ UNCHANGED <<armed, lastId, now, fired>>

\* is_alive
Alive(id) == id \in Pending \/ armed = id

\* next: the time limit is looked at before the number of fires.
OverTime(id)  == entries[id].due > MaxVirtual
OverFires     == fired >= MaxFires

\* Mutant of Take: the timer is not counted.
MutTake(id) ==
  /\ IsFirst(id) /\ ~ OverTime(id) /\ ~ OverFires
  /\ order' = Tail(order)
  /\ now' = IF entries[id].due > now THEN entries[id].due ELSE now
  /\ entries' = IF entries[id].repeat THEN entries ELSE Restrict(entries, Pending \ {id})
  /\ armed' = id
  /\ UNCHANGED <<lastId, fired>>

Take(id) ==
  /\ IsFirst(id) /\ ~ OverTime(id) /\ ~ OverFires
  /\ order' = Tail(order)
  /\ now' = IF entries[id].due > now THEN entries[id].due ELSE now
  /\ fired' = fired + 1
  /\ entries' = IF entries[id].repeat THEN entries ELSE Restrict(entries, Pending \ {id})
  /\ armed' = id
  /\ UNCHANGED lastId

\* consume_armed: the dispatcher may run the timer once.
Consume(id) ==
  /\ armed = id /\ armed' = NoTimer
  /\ UNCHANGED <<entries, order, lastId, now, fired>>

\* rearm_if_alive: an interval that its callback did not clear goes back with
\* a new turn, behind everything that is due at the same time.
Rearm(id) ==
  /\ IF id \in Pending /\ entries[id].repeat /\ id \notin ToSet(order)
     THEN /\ entries' = [entries EXCEPT ![id].due = now + entries[id].delay]
          /\ order' = Insert(id, now + entries[id].delay)
     ELSE UNCHANGED <<entries, order>>
  /\ UNCHANGED <<armed, lastId, now, fired>>

-----------------------------------------------------------------------------
(* The table.                                                              *)

\* schedule: keep the callback, after a sweep if the table has grown.  `lost'
\* are ids whose query failed because the operations ran out meanwhile.
Keep(id, lost) ==
  LET kept  == {i \in table \ lost : Alive(i)}
      twice == 2 * Cardinality(kept)
  IN  IF retained >= sweepAt
      THEN /\ table' = kept \cup {id}
           /\ retained' = Cardinality(kept) + 1
           /\ sweepAt' = IF twice > SweepMin THEN twice ELSE SweepMin
      ELSE /\ table' = table \cup {id}
           /\ retained' = retained + 1
           /\ UNCHANGED sweepAt

\* Mutant of Forget: an id that is not in the table counts too.
MutForget(id) ==
  /\ table' = table \ {id} /\ retained' = retained - 1
  /\ UNCHANGED sweepAt

\* clearTimer and the one-shot branch of runTimer.
Forget(id) ==
  /\ table' = table \ {id}
  /\ retained' = IF id \in table THEN retained - 1 ELSE retained
  /\ UNCHANGED sweepAt

-----------------------------------------------------------------------------
TimerTypeOK ==
  /\ Pending \subseteq Ids /\ order \in Seq(Ids)
  /\ \A i \in Pending :
       entries[i] \in [due : Nat, delay : Delays, repeat : BOOLEAN, direct : BOOLEAN]
  /\ armed \in Ids \cup {NoTimer}
  /\ lastId \in 0 .. MaxIds /\ now \in Nat /\ fired \in 0 .. MaxFires
  /\ table \subseteq Ids /\ retained \in Nat /\ sweepAt \in Nat

=============================================================================
