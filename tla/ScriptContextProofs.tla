------------------------- MODULE ScriptContextProofs -------------------------
(***************************************************************************)
(* Theorems about ScriptContext, for any scopes, worlds, evaluations,      *)
(* threads and limits.                                                     *)
(***************************************************************************)
EXTENDS ScriptContext, FiniteSetTheorems, SequenceTheorems, TLAPS

USE DEF callerVars, sharedVars, evalVars, threadVars

InHand(w) == pc[w] \in {"prepare", "execute"}

\* A thread that has something to do or to clean up.
Owner(w) == Working(w) \/ contexts[w] # {}

\* The one owner is the worker that callers know of: its number is the last
\* one given out, and every thread has its own.
Threads ==
  /\ \A w \in Workers :
       /\ Owner(w) => alive /\ generation[w] = spawns
       /\ generation[w] <= spawns
       /\ pc[w] # "off" => generation[w] > 0
       /\ pc[w] \in {"off", "guard"} => contexts[w] = {}
  /\ \A v, w \in Workers : generation[v] = generation[w] => v = w \/ generation[v] = 0

\* No thread has more contexts than max_live.
Sizes ==
  \A w \in Workers : IsFiniteSet(contexts[w]) /\ Cardinality(contexts[w]) <= MaxLive

\* A record has an incarnation, and is of the generation announced last.
Records ==
  /\ announced = latest
  /\ \A s \in Scopes : latest[s] > 0 => incarnation[s] > 0

\* What waits or is worked for knows what it is to be evaluated in.
Accepted(e) == phase[e] # "new" /\ key[e] \in Keys /\ inc[e] \in 1 .. MaxRecords

\* An evaluation is in one place of the queue, or in the worker's hands.
Places ==
  /\ \A i, j \in 1 .. Len(queue) : queue[i] = queue[j] => i = j
  /\ \A i \in 1 .. Len(queue) : Accepted(queue[i])
  /\ \A w \in Workers : InHand(w) =>
       /\ cur[w] \in Evals /\ Accepted(cur[w])
       /\ \A i \in 1 .. Len(queue) : queue[i] # cur[w]

\* What was up to date when it was taken meets no context of another
\* registration, and nothing else is executed.
Matching ==
  \A w \in Workers : InHand(w) =>
    /\ pc[w] = "execute" => current[w]
    /\ current[w] => \A c \in contexts[w] : c.key = key[cur[w]] => c.inc = inc[cur[w]]

IInv == TypeOK /\ Threads /\ Sizes /\ Records /\ Places /\ Matching

-----------------------------------------------------------------------------
(* What the steps are made of.                                             *)

\* Taking out one place of a sequence moves the later ones up.
LEMMA Removed ==
  ASSUME NEW S, NEW q \in Seq(S), NEW i \in 1 .. Len(q)
  PROVE  /\ RemoveAt(q, i) \in Seq(S)
         /\ Len(RemoveAt(q, i)) = Len(q) - 1
         /\ \A j \in 1 .. Len(q) - 1 :
              RemoveAt(q, i)[j] = IF j < i THEN q[j] ELSE q[j + 1]
<1> DEFINE a == SubSeq(q, 1, i - 1)
           b == SubSeq(q, i + 1, Len(q))
<1>1. /\ a \in Seq(S) /\ Len(a) = i - 1
      /\ \A j \in 1 .. i - 1 : a[j] = q[j]
  <2>1. \A j \in 1 .. i - 1 : q[j] \in S
    BY ElementOfSeq
  <2> QED BY <2>1, SubSeqProperties
<1>2. /\ b \in Seq(S) /\ Len(b) = Len(q) - i
      /\ \A j \in 1 .. Len(q) - i : b[j] = q[i + j]
  <2>1. \A j \in i + 1 .. Len(q) : q[j] \in S
    BY ElementOfSeq
  <2> QED BY <2>1, SubSeqProperties
<1>3. /\ a \o b \in Seq(S) /\ Len(a \o b) = Len(q) - 1
      /\ \A j \in 1 .. Len(q) - 1 :
           (a \o b)[j] = IF j < i THEN a[j] ELSE b[j - (i - 1)]
  <2> HIDE DEF a, b
  <2>1. Len(q) \in Nat /\ Len(a) + Len(b) = Len(q) - 1
    BY <1>1, <1>2, LenProperties
  <2>2. /\ a \o b \in Seq(S) /\ Len(a \o b) = Len(a) + Len(b)
        /\ \A j \in 1 .. Len(a) + Len(b) :
             (a \o b)[j] = IF j <= Len(a) THEN a[j] ELSE b[j - Len(a)]
    BY <1>1, <1>2, ConcatProperties
  <2>3. \A j \in 1 .. Len(q) - 1 : j <= Len(a) <=> j < i
    BY <1>1, <2>1
  <2> QED BY <1>1, <2>1, <2>2, <2>3
<1>4. ASSUME NEW j \in 1 .. Len(q) - 1
      PROVE  (a \o b)[j] = IF j < i THEN q[j] ELSE q[j + 1]
  <2> HIDE DEF a, b
  <2>1. CASE j < i
    BY <1>1, <1>3, <2>1
  <2>2. CASE ~ j < i
    <3>1. j - (i - 1) \in 1 .. Len(q) - i /\ i + (j - (i - 1)) = j + 1
      BY <2>2
    <3> QED BY <1>2, <1>3, <2>2, <3>1
  <2> QED BY <2>1, <2>2
<1> QED BY <1>3, <1>4 DEF RemoveAt

\* Waking the worker changes nothing of where it is, but from sleep to work.
LEMMA Waking ==
  ASSUME TypeOK, pc' = Woken
  PROVE  /\ pc' \in [Workers -> {"off", "look", "prepare", "execute", "leave", "guard"}]
         /\ \A w \in Workers :
              /\ Working(w)' <=> Working(w)
              /\ InHand(w)' <=> InHand(w)
              /\ \A p \in {"off", "prepare", "execute", "leave", "guard"} :
                   pc'[w] = p <=> pc[w] = p
BY DEF TypeOK, Woken, Working, InHand

\* What is completed is forgotten, and nothing else.
LEMMA Completing ==
  ASSUME TypeOK, NEW es \in SUBSET Evals, NEW r \in Results, Complete(es, r)
  PROVE  /\ key' \in [Evals -> Keys \cup {NoKey}]
         /\ inc' \in [Evals -> 0 .. MaxRecords]
         /\ phase' \in [Evals -> {"new", "pending", "dropping", "over"}]
         /\ slot' \in [Evals -> Results \cup {"none"}]
         /\ \A e \in Evals \ es : key'[e] = key[e] /\ inc'[e] = inc[e]
         /\ \A e \in Evals : phase'[e] = "new" <=> phase[e] = "new"
<1>1. /\ key' \in [Evals -> Keys \cup {NoKey}]
      /\ \A e \in Evals \ es : key'[e] = key[e]
  BY DEF TypeOK, Complete
<1>2. /\ inc' \in [Evals -> 0 .. MaxRecords]
      /\ \A e \in Evals \ es : inc'[e] = inc[e]
  BY ScriptBoundsAssumption DEF TypeOK, Complete
<1>3. /\ phase' \in [Evals -> {"new", "pending", "dropping", "over"}]
      /\ \A e \in Evals : phase'[e] = "new" <=> phase[e] = "new"
  BY DEF TypeOK, Complete
<1>4. slot' \in [Evals -> Results \cup {"none"}]
  BY DEF TypeOK, Complete
<1> QED BY <1>1, <1>2, <1>3, <1>4

\* Only the worker is at work or has contexts.
LEMMA OneOwner ==
  ASSUME TypeOK, Threads, NEW v \in Workers, NEW w \in Workers,
         Owner(v), pc[w] # "off", generation[w] = spawns
  PROVE  v = w
BY DEF Threads, TypeOK

\* A record that goes up or is made stays one.
LEMMA TrackKept ==
  ASSUME TypeOK, Records, NEW s \in Scopes, NEW g \in Gens, Track(s, g),
         announced' = [announced EXCEPT ![s] = Larger(@, g)]
  PROVE  /\ latest' \in [Scopes -> 0 .. MaxGen]
         /\ incarnation' \in [Scopes -> 0 .. MaxRecords]
         /\ announced' \in [Scopes -> 0 .. MaxGen]
         /\ made' \in 0 .. MaxRecords
         /\ Records'
         /\ incarnation'[s] \in 1 .. MaxRecords
BY ScriptBoundsAssumption DEF TypeOK, Records, Track, Tracked, Larger, Gens

\* Contexts that go leave no more than there were.
LEMMA Fewer ==
  ASSUME Sizes, NEW w \in Workers, NEW D
  PROVE  /\ IsFiniteSet(contexts[w] \ D)
         /\ Cardinality(contexts[w] \ D) \in Nat
         /\ Cardinality(contexts[w] \ D) <= MaxLive
<1>1. contexts[w] \ D \in SUBSET contexts[w]
  OBVIOUS
<1>2. Cardinality(contexts[w]) \in Nat /\ Cardinality(contexts[w] \ D) \in Nat
  BY <1>1, FS_CardinalityType, FS_Subset DEF Sizes
<1> QED BY <1>1, <1>2, FS_Subset, ScriptBoundsAssumption DEF Sizes

-----------------------------------------------------------------------------
(* Types.                                                                  *)

LEMMA InitHolds == Init => IInv
<1> SUFFICES ASSUME Init PROVE IInv
  OBVIOUS
<1>1. TypeOK
  <2>1. queue \in Seq(Evals) /\ Len(queue) <= Capacity
    BY ScriptBoundsAssumption, EmptySeq DEF Init
  <2>2. /\ pc \in [Workers -> {"off", "look", "asleep", "prepare", "execute", "leave", "guard"}]
        /\ generation \in [Workers -> Nat]
        /\ contexts \in [Workers -> SUBSET Contexts]
        /\ cur \in [Workers -> Evals \cup {NoEval}]
        /\ current \in [Workers -> BOOLEAN]
    BY DEF Init
  <2>3. /\ key \in [Evals -> Keys \cup {NoKey}]
        /\ inc \in [Evals -> 0 .. MaxRecords]
        /\ phase \in [Evals -> {"new", "pending", "dropping", "over"}]
        /\ slot \in [Evals -> Results \cup {"none"}]
    BY ScriptBoundsAssumption DEF Init
  <2>5. open \in BOOLEAN /\ alive \in BOOLEAN /\ spawns \in Nat /\ live \in Nat
    BY DEF Init
  <2>4. /\ latest \in [Scopes -> 0 .. MaxGen]
        /\ incarnation \in [Scopes -> 0 .. MaxRecords]
        /\ announced \in [Scopes -> 0 .. MaxGen]
        /\ made \in 0 .. MaxRecords
    BY ScriptBoundsAssumption DEF Init
  <2> QED BY <2>1, <2>2, <2>3, <2>4, <2>5 DEF TypeOK
<1>2. Threads /\ Sizes /\ Records /\ Places /\ Matching
  BY ScriptBoundsAssumption, FS_EmptySet, EmptySeq
  DEF Init, Threads, Sizes, Records, Places, Matching, Owner, Working, InHand
<1> QED BY <1>1, <1>2 DEF IInv

\* The callers' steps keep the types.
LEMMA ClientTypes == ASSUME IInv, Client PROVE TypeOK'
<1> USE DEF IInv
<1>q. queue \in Seq(Evals) /\ Len(queue) \in Nat
      /\ Range(queue) \in SUBSET Evals /\ \A i \in 1 .. Len(queue) : queue[i] \in Evals
  BY LenProperties, RangeOfSeq, ElementOfSeq DEF TypeOK
<1>1. ASSUME NEW s \in Scopes, NEW g \in Gens, BeginGeneration(s, g) PROVE TypeOK'
  BY <1>1, TrackKept, Waking DEF BeginGeneration, TypeOK
<1>2. ASSUME NEW s \in Scopes, ReleaseScope(s) PROVE TypeOK'
  BY <1>2, Waking, ScriptBoundsAssumption DEF ReleaseScope, TypeOK
<1>3. ASSUME NEW e \in Evals, NEW k \in Keys, EvaluateRefused(e, k) PROVE TypeOK'
  BY <1>3 DEF EvaluateRefused, Refuse, TypeOK, Results
<1>4. ASSUME NEW e \in Evals, NEW k \in Keys, EvaluateAccepted(e, k) PROVE TypeOK'
  <2>1. CASE SpawnFails(e, k)
    BY <2>1 DEF SpawnFails, Refuse, TypeOK, Results
  <2>2. CASE Push(e, k)
    <3>1. k.scope \in Scopes /\ k.gen \in Gens
      BY DEF Keys
    <3>2. queue' \in Seq(Evals) /\ Len(queue') = Len(queue) + 1
      BY <2>2, <1>q, AppendProperties DEF Push
    <3>3. Len(queue') <= Capacity
      BY <1>4, <1>q, <3>2, ScriptBoundsAssumption DEF EvaluateAccepted, QueueFull
    <3>4. /\ pc' \in [Workers -> {"off", "look", "asleep", "prepare", "execute", "leave", "guard"}]
          /\ spawns' \in Nat /\ generation' \in [Workers -> Nat] /\ alive' \in BOOLEAN
      <4>1. CASE alive
        <5>1. pc' = Woken /\ UNCHANGED <<spawns, generation>> /\ alive' = TRUE
          BY <2>2, <4>1 DEF Push, Notify
        <5> QED BY <5>1, Waking DEF TypeOK
      <4>2. CASE ~ alive
        <5>1. alive' = TRUE
          BY <2>2 DEF Push, Notify
        <5>2. PICK w \in Workers :
                /\ pc' = [pc EXCEPT ![w] = "look"]
                /\ spawns' = spawns + 1
                /\ generation' = [generation EXCEPT ![w] = spawns + 1]
          BY <2>2, <4>2 DEF Push, Notify
        <5> QED BY <5>1, <5>2 DEF TypeOK
      <4> QED BY <4>1, <4>2
    <3>5. /\ latest' \in [Scopes -> 0 .. MaxGen]
          /\ incarnation' \in [Scopes -> 0 .. MaxRecords]
          /\ announced' \in [Scopes -> 0 .. MaxGen]
          /\ made' \in 0 .. MaxRecords
          /\ incarnation'[k.scope] \in 1 .. MaxRecords
      BY <2>2, <3>1, TrackKept DEF Push
    <3>6. /\ key' \in [Evals -> Keys \cup {NoKey}]
          /\ inc' \in [Evals -> 0 .. MaxRecords]
          /\ phase' \in [Evals -> {"new", "pending", "dropping", "over"}]
      BY <2>2, <3>5 DEF Push, TypeOK
    <3> QED BY <2>2, <3>2, <3>3, <3>4, <3>5, <3>6 DEF Push, TypeOK
  <2> QED BY <1>4, <2>1, <2>2 DEF EvaluateAccepted
<1>5. ASSUME NEW e \in Evals, Abandon(e) PROVE TypeOK'
  BY <1>5 DEF Abandon, TypeOK
<1>6. ASSUME NEW e \in Evals, Withdraw(e) PROVE TypeOK'
  <2>1. queue' \in Seq(Evals) /\ Len(queue') <= Capacity
    BY <1>6, <1>q, Removed, ScriptBoundsAssumption DEF Withdraw, TypeOK
  <2>2. /\ key' \in [Evals -> Keys \cup {NoKey}]
        /\ inc' \in [Evals -> 0 .. MaxRecords]
        /\ phase' \in [Evals -> {"new", "pending", "dropping", "over"}]
        /\ slot' \in [Evals -> Results \cup {"none"}]
    <3>1. "Terminated" \in Results
      BY DEF Results
    <3>2. CASE UNCHANGED <<queue, slot, key, inc>>
      BY <1>6, <3>2 DEF Withdraw, TypeOK
    <3>3. CASE /\ slot' = [slot EXCEPT ![e] = "Terminated"]
               /\ key' = [key EXCEPT ![e] = NoKey]
               /\ inc' = [inc EXCEPT ![e] = 0]
      BY <1>6, <3>1, <3>3, ScriptBoundsAssumption DEF Withdraw, TypeOK
    <3> QED BY <1>6, <3>2, <3>3 DEF Withdraw
  <2> QED BY <1>6, <2>1, <2>2 DEF Withdraw, TypeOK
<1>7. CASE CloseHandle
  <2>1. /\ key' \in [Evals -> Keys \cup {NoKey}]
        /\ inc' \in [Evals -> 0 .. MaxRecords]
        /\ phase' \in [Evals -> {"new", "pending", "dropping", "over"}]
        /\ slot' \in [Evals -> Results \cup {"none"}]
    <3>1. Complete(Range(queue), "Terminated") /\ "Terminated" \in Results
      BY <1>7 DEF CloseHandle, Results
    <3> QED BY <1>q, <3>1, Completing
  <2>2. queue' \in Seq(Evals) /\ Len(queue') <= Capacity
    BY <1>7, EmptySeq, ScriptBoundsAssumption DEF CloseHandle
  <2>3. pc' \in [Workers -> {"off", "look", "asleep", "prepare", "execute", "leave", "guard"}]
    BY <1>7, Waking DEF CloseHandle
  <2> QED BY <1>7, <2>1, <2>2, <2>3 DEF CloseHandle, TypeOK
<1> QED BY <1>1, <1>2, <1>3, <1>4, <1>5, <1>6, <1>7 DEF Client

\* The worker's steps keep the types.
LEMMA WorkerTypes == ASSUME IInv, NEW w \in Workers, Worker(w) PROVE TypeOK'
<1> USE DEF IInv
<1>q. queue \in Seq(Evals) /\ Len(queue) \in Nat /\ Range(queue) \in SUBSET Evals
  BY LenProperties, RangeOfSeq DEF TypeOK
<1>f. ASSUME NEW r \in Results, Finish(w, r), InHand(w)
      PROVE  /\ key' \in [Evals -> Keys \cup {NoKey}]
             /\ inc' \in [Evals -> 0 .. MaxRecords]
             /\ phase' \in [Evals -> {"new", "pending", "dropping", "over"}]
             /\ slot' \in [Evals -> Results \cup {"none"}]
             /\ pc' \in [Workers -> {"off", "look", "asleep", "prepare", "execute", "leave", "guard"}]
             /\ cur' \in [Workers -> Evals \cup {NoEval}]
             /\ current' \in [Workers -> BOOLEAN]
  <2>1. {cur[w]} \in SUBSET Evals
    BY <1>f DEF Places
  <2> QED BY <1>f, <2>1, Completing DEF Finish, TypeOK
<1>1. CASE Retire(w) \/ Sleep(w)
  BY <1>1 DEF Retire, Sleep, TypeOK
<1>2. CASE Take(w)
  <2>1. contexts' \in [Workers -> SUBSET Contexts] /\ live' \in Nat
    BY <1>2, Fewer DEF Take, TypeOK
  <2>2. CASE queue = <<>>
    BY <1>2, <2>1, <2>2 DEF Take, TypeOK
  <2>3. CASE queue # <<>>
    <3>1. Head(queue) \in Evals /\ Tail(queue) \in Seq(Evals) /\ Len(Tail(queue)) = Len(queue) - 1
      BY <1>q, <2>3, HeadTailProperties
    <3>2. Len(Tail(queue)) <= Capacity
      BY <1>q, <3>1, ScriptBoundsAssumption DEF TypeOK
    <3>3. IsCurrent(key[Head(queue)], inc[Head(queue)]) \in BOOLEAN
      BY DEF IsCurrent
    <3> QED BY <1>2, <2>1, <2>3, <3>1, <3>2, <3>3 DEF Take, TypeOK
  <2> QED BY <2>2, <2>3
<1>3. CASE Decline(w)
  BY <1>3, <1>f DEF Decline, TypeOK, Results, InHand
<1>4. CASE Prepare(w)
  <2>1. ASSUME Finish(w, "Engine"), UNCHANGED <<live, contexts>> PROVE TypeOK'
    BY <1>4, <1>f, <2>1 DEF Prepare, TypeOK, Results, InHand
  <2>2. ASSUME HasContext(w, key[cur[w]]),
               pc' = [pc EXCEPT ![w] = "execute"],
               UNCHANGED <<live, contexts, cur, current, evalVars>>
        PROVE  TypeOK'
    BY <1>4, <2>2 DEF Prepare, TypeOK
  <2>3. ASSUME contexts' = [contexts EXCEPT ![w] =
                              @ \cup {[key |-> key[cur[w]], inc |-> inc[cur[w]]]}],
               live' = Cardinality(contexts[w]) + 1,
               pc' = [pc EXCEPT ![w] = "execute"],
               UNCHANGED <<cur, current, evalVars>>
        PROVE  TypeOK'
    <3>1. [key |-> key[cur[w]], inc |-> inc[cur[w]]] \in Contexts
      BY <1>4 DEF Prepare, Places, InHand, Accepted, Contexts
    <3>2. live' \in Nat
      BY <2>3, FS_CardinalityType DEF Sizes
    <3> QED BY <1>4, <2>3, <3>1, <3>2 DEF Prepare, TypeOK
  <2> QED BY <1>4, <2>1, <2>2, <2>3 DEF Prepare
<1>5. CASE Execute(w)
  <2>1. ASSUME NEW D PROVE Cardinality(contexts[w] \ D) \in Nat
    BY Fewer
  <2>2. live' \in Nat /\ contexts' \in [Workers -> SUBSET Contexts]
    <3>1. CASE UNCHANGED <<live, contexts>>
      BY <3>1 DEF TypeOK
    <3>2. ASSUME NEW D, contexts' = [contexts EXCEPT ![w] = @ \ D],
                 live' = Cardinality(contexts[w] \ D)
          PROVE  live' \in Nat /\ contexts' \in [Workers -> SUBSET Contexts]
      BY <2>1, <3>2 DEF TypeOK
    <3> QED BY <1>5, <3>1, <3>2 DEF Execute
  <2>3. \E r \in Results : Finish(w, r)
    BY <1>5 DEF Execute, Results
  <2> QED BY <1>5, <1>f, <2>2, <2>3 DEF Execute, TypeOK, InHand
<1>6. CASE Panic(w)
  <2>1. {cur[w]} \in SUBSET Evals
    BY <1>6 DEF Panic, Places, InHand
  <2> QED BY <1>6, <2>1, Completing DEF Panic, TypeOK, Results
<1>7. CASE DropContexts(w)
  BY <1>7 DEF DropContexts, TypeOK
<1>8. CASE Guard(w)
  <2>1. CASE spawns = generation[w]
    <3>1. /\ key' \in [Evals -> Keys \cup {NoKey}]
          /\ inc' \in [Evals -> 0 .. MaxRecords]
          /\ phase' \in [Evals -> {"new", "pending", "dropping", "over"}]
          /\ slot' \in [Evals -> Results \cup {"none"}]
      <4>1. Complete(Range(queue), "Terminated") /\ "Terminated" \in Results
        BY <1>8, <2>1 DEF Guard, Results
      <4> QED BY <1>q, <4>1, Completing
    <3>2. queue' \in Seq(Evals) /\ Len(queue') <= Capacity
      BY <1>8, <2>1, EmptySeq, ScriptBoundsAssumption DEF Guard
    <3>3. alive' = FALSE /\ live' = 0
      BY <1>8, <2>1 DEF Guard
    <3> QED BY <1>8, <3>1, <3>2, <3>3 DEF Guard, TypeOK
  <2>2. CASE spawns # generation[w]
    BY <1>8, <2>2 DEF Guard, TypeOK
  <2> QED BY <2>1, <2>2
<1> QED BY <1>1, <1>2, <1>3, <1>4, <1>5, <1>6, <1>7, <1>8 DEF Worker

-----------------------------------------------------------------------------
(* Threads and their contexts.                                             *)

\* No thread becomes an owner, and none leaves with contexts.
LEMMA Steady ==
  ASSUME Threads, UNCHANGED <<alive, spawns, generation>>,
         \A w \in Workers :
           /\ Owner(w)' => Owner(w)
           /\ pc'[w] # "off" => pc[w] # "off"
           /\ pc'[w] \in {"off", "guard"} => contexts'[w] = {}
  PROVE  Threads'
BY DEF Threads

LEMMA ClientThreads == ASSUME IInv, Client PROVE Threads'
<1> USE DEF IInv
<1>1. ASSUME UNCHANGED <<alive, spawns, generation, contexts>>, pc' = Woken
      PROVE  Threads'
  <2>1. \A w \in Workers : /\ Owner(w)' <=> Owner(w)
                           /\ pc'[w] = "off" <=> pc[w] = "off"
                           /\ pc'[w] = "guard" <=> pc[w] = "guard"
    BY <1>1, Waking DEF Owner
  <2> QED BY <1>1, <2>1, Steady DEF Threads
<1>2. ASSUME UNCHANGED <<alive, spawns, generation, contexts, pc>>
      PROVE  Threads'
  BY <1>2 DEF Threads, Owner, Working
<1>3. ASSUME NEW e \in Evals, NEW k \in Keys, Push(e, k) PROVE Threads'
  <2>1. CASE alive
    <3>1. pc' = Woken /\ UNCHANGED <<alive, spawns, generation, contexts>>
      BY <1>3, <2>1 DEF Push, Notify, TypeOK
    <3> QED BY <1>1, <3>1
  <2>2. CASE ~ alive
    <3>1. PICK w \in Workers :
            /\ pc[w] = "off" /\ pc' = [pc EXCEPT ![w] = "look"]
            /\ spawns' = spawns + 1
            /\ generation' = [generation EXCEPT ![w] = spawns + 1]
      BY <1>3, <2>2 DEF Push, Notify
    <3>2. alive' = TRUE /\ contexts' = contexts
      BY <1>3 DEF Push, Notify
    <3>3. \A v \in Workers : ~ Owner(v) /\ contexts[v] = {}
      BY <2>2 DEF Threads, Owner
    <3>4. \A v \in Workers : generation[v] \in Nat /\ generation[v] <= spawns /\ spawns \in Nat
      BY DEF Threads, TypeOK
    <3>5. \A v \in Workers :
            /\ v # w => generation'[v] = generation[v] /\ pc'[v] = pc[v]
            /\ generation'[w] = spawns' /\ pc'[w] = "look"
      BY <3>1 DEF TypeOK
    <3>6. \A v \in Workers : Owner(v)' => v = w
      BY <3>2, <3>3, <3>5 DEF Owner, Working
    <3>7. \A v \in Workers :
            /\ Owner(v)' => alive' /\ generation'[v] = spawns'
            /\ generation'[v] <= spawns'
            /\ pc'[v] # "off" => generation'[v] > 0
            /\ contexts'[v] = {}
      BY <3>1, <3>2, <3>3, <3>4, <3>5, <3>6 DEF Threads
    <3>8. \A u, v \in Workers :
            generation'[u] = generation'[v] => u = v \/ generation'[u] = 0
      BY <3>1, <3>4, <3>5 DEF Threads
    <3> QED BY <3>7, <3>8 DEF Threads
  <2> QED BY <2>1, <2>2
<1>4. ASSUME NEW s \in Scopes, NEW g \in Gens, BeginGeneration(s, g) PROVE Threads'
  BY <1>1, <1>4 DEF BeginGeneration
<1>5. ASSUME NEW s \in Scopes, ReleaseScope(s) PROVE Threads'
  BY <1>1, <1>5 DEF ReleaseScope
<1>6. ASSUME NEW e \in Evals, NEW k \in Keys, EvaluateRefused(e, k) \/ EvaluateAccepted(e, k)
      PROVE  Threads'
  BY <1>2, <1>3, <1>6 DEF EvaluateRefused, EvaluateAccepted, Refuse, SpawnFails
<1>7. ASSUME NEW e \in Evals, Abandon(e) \/ Withdraw(e) PROVE Threads'
  BY <1>2, <1>7 DEF Abandon, Withdraw
<1>8. CASE CloseHandle
  BY <1>1, <1>8 DEF CloseHandle
<1> QED BY <1>4, <1>5, <1>6, <1>7, <1>8 DEF Client

LEMMA WorkerThreads == ASSUME IInv, NEW w \in Workers, Worker(w) PROVE Threads'
<1> USE DEF IInv
<1>1. ASSUME NEW v \in Workers, v # w PROVE pc'[v] = pc[v] /\ contexts'[v] = contexts[v]
  BY <1>1 DEF Worker, Retire, Sleep, Take, Decline, Prepare, Execute, Panic,
     DropContexts, Guard, Finish, TypeOK
<1>2. UNCHANGED <<spawns, generation>>
  BY DEF Worker, Retire, Sleep, Take, Decline, Prepare, Execute, Panic,
     DropContexts, Guard
<1>3. ASSUME Working(w), pc'[w] \notin {"off", "guard"}, UNCHANGED alive
      PROVE  Threads'
  BY <1>1, <1>2, <1>3, Steady DEF Threads, Owner, Working
<1>4. CASE Sleep(w) \/ Take(w) \/ Decline(w) \/ Prepare(w) \/ Execute(w) \/ Panic(w)
  <2>1. Working(w) /\ UNCHANGED alive
    BY <1>4 DEF Sleep, Take, Decline, Prepare, Execute, Panic, Working
  <2>2. pc'[w] \in {"look", "asleep", "prepare", "execute", "leave"}
    BY <1>4 DEF Sleep, Take, Decline, Prepare, Execute, Panic, Finish, TypeOK
  <2> QED BY <1>3, <2>1, <2>2
<1>5. CASE Retire(w)
  <2>1. pc[w] = "look" /\ pc'[w] = "leave" /\ contexts' = contexts
    BY <1>5 DEF Retire, TypeOK
  <2>2. CASE UNCHANGED alive
    BY <1>3, <2>1, <2>2 DEF Working
  <2>3. CASE ~ UNCHANGED alive
    <3>1. contexts[w] = {}
      BY <1>5, <2>3 DEF Retire
    <3>2. Owner(w) /\ pc[w] # "off" /\ generation[w] = spawns
      BY <2>1 DEF Owner, Working, Threads
    <3>3. \A v \in Workers : Owner(v) => v = w
      BY <3>2, OneOwner
    <3>4. \A v \in Workers : ~ Owner(v)'
      BY <1>1, <2>1, <3>1, <3>3 DEF Owner, Working
    <3> QED BY <1>1, <1>2, <2>1, <3>4 DEF Threads
  <2> QED BY <2>2, <2>3
<1>6. CASE DropContexts(w)
  <2>1. pc[w] = "leave" /\ pc'[w] = "guard" /\ contexts'[w] = {} /\ UNCHANGED alive
    BY <1>6 DEF DropContexts, TypeOK
  <2> QED BY <1>1, <1>2, <2>1, Steady DEF Threads, Owner, Working
<1>7. CASE Guard(w)
  <2>1. pc[w] = "guard" /\ pc'[w] = "off" /\ contexts' = contexts /\ contexts[w] = {}
    BY <1>7 DEF Guard, TypeOK, Threads
  <2>2. CASE spawns = generation[w]
    <3>1. \A v \in Workers : Owner(v) => v = w
      BY <2>1, <2>2, OneOwner
    <3>2. \A v \in Workers : ~ Owner(v)'
      BY <1>1, <2>1, <3>1 DEF Owner, Working
    <3> QED BY <1>1, <1>2, <2>1, <3>2 DEF Threads
  <2>3. CASE spawns # generation[w]
    <3>1. UNCHANGED alive
      BY <1>7, <2>3 DEF Guard
    <3> QED BY <1>1, <1>2, <2>1, <3>1, Steady DEF Threads, Owner, Working
  <2> QED BY <2>2, <2>3
<1> QED BY <1>4, <1>5, <1>6, <1>7 DEF Worker

LEMMA SizesKept == ASSUME IInv, Next PROVE Sizes'
<1> USE DEF IInv
<1>1. CASE UNCHANGED contexts
  BY <1>1 DEF Sizes
<1>2. ASSUME NEW w \in Workers, NEW D, contexts' = [contexts EXCEPT ![w] = @ \ D]
      PROVE  Sizes'
  BY <1>2, Fewer DEF Sizes, TypeOK
<1>3. CASE Client
  <2>1. UNCHANGED contexts
    BY <1>3 DEF Client, BeginGeneration, ReleaseScope, EvaluateRefused,
       EvaluateAccepted, Refuse, SpawnFails, Push, Abandon, Withdraw, CloseHandle
  <2> QED BY <1>1, <2>1
<1>4. ASSUME NEW w \in Workers, Worker(w) PROVE Sizes'
  <2>1. CASE Retire(w) \/ Sleep(w) \/ Decline(w) \/ Panic(w) \/ Guard(w)
    BY <1>1, <2>1 DEF Retire, Sleep, Decline, Panic, Guard
  <2>2. CASE Take(w)
    BY <1>2, <2>2 DEF Take
  <2>3. CASE Execute(w)
    BY <1>1, <1>2, <2>3 DEF Execute
  <2>4. CASE DropContexts(w)
    BY <2>4, FS_EmptySet, ScriptBoundsAssumption DEF DropContexts, Sizes, TypeOK
  <2>5. CASE Prepare(w)
    <3>1. CASE UNCHANGED contexts
      BY <1>1, <3>1
    <3>2. CASE ~ UNCHANGED contexts
      <4>1. PICK c : contexts' = [contexts EXCEPT ![w] = @ \cup {c}]
        BY <2>5, <3>2 DEF Prepare
      <4>2. ~ Cardinality(contexts[w]) >= MaxLive
        BY <2>5, <3>2 DEF Prepare, AtLimit
      <4>3. IsFiniteSet(contexts[w]) /\ Cardinality(contexts[w]) \in Nat
        BY FS_CardinalityType DEF Sizes
      <4>4. /\ IsFiniteSet(contexts[w] \cup {c})
            /\ Cardinality(contexts[w] \cup {c}) <= MaxLive
        BY <4>2, <4>3, FS_AddElement, ScriptBoundsAssumption
      <4>5. \A v \in Workers :
              contexts'[v] = IF v = w THEN contexts[w] \cup {c} ELSE contexts[v]
        BY <4>1 DEF TypeOK
      <4> QED BY <4>4, <4>5 DEF Sizes
    <3> QED BY <3>1, <3>2
  <2> QED BY <1>4, <2>1, <2>2, <2>3, <2>4, <2>5 DEF Worker
<1> QED BY <1>3, <1>4 DEF Next

LEMMA RecordsKept == ASSUME IInv, Next PROVE Records'
<1> USE DEF IInv
<1>1. CASE UNCHANGED callerVars
  BY <1>1 DEF Records
<1>2. ASSUME NEW s \in Scopes, NEW g \in Gens, Track(s, g),
             announced' = [announced EXCEPT ![s] = Larger(@, g)]
      PROVE  Records'
  BY <1>2, TrackKept
<1>3. ASSUME NEW s \in Scopes, ReleaseScope(s) PROVE Records'
  BY <1>3 DEF ReleaseScope, Records, TypeOK
<1>4. CASE Client
  <2>1. ASSUME NEW e \in Evals, NEW k \in Keys, Push(e, k) PROVE Records'
    BY <1>2, <2>1 DEF Push, Keys
  <2>2. ASSUME NEW s \in Scopes, NEW g \in Gens, BeginGeneration(s, g) PROVE Records'
    BY <1>2, <2>2 DEF BeginGeneration
  <2>3. ASSUME NEW e \in Evals, NEW k \in Keys, EvaluateRefused(e, k) \/ EvaluateAccepted(e, k)
        PROVE  Records'
    BY <1>1, <2>1, <2>3 DEF EvaluateRefused, EvaluateAccepted, Refuse, SpawnFails
  <2>4. ASSUME NEW e \in Evals, Abandon(e) \/ Withdraw(e) PROVE Records'
    BY <1>1, <2>4 DEF Abandon, Withdraw
  <2>5. CASE CloseHandle
    BY <2>5 DEF CloseHandle, Records
  <2> QED BY <1>3, <1>4, <2>2, <2>3, <2>4, <2>5 DEF Client
<1>5. ASSUME NEW w \in Workers, Worker(w) PROVE Records'
  BY <1>1, <1>5 DEF Worker, Retire, Sleep, Take, Decline, Prepare, Execute, Panic,
     DropContexts, Guard
<1> QED BY <1>4, <1>5 DEF Next

-----------------------------------------------------------------------------
(* Evaluations.                                                            *)

\* A thread keeps what it has in hand, which is neither answered nor accepted
\* a second time.
Undisturbed(w) ==
  InHand(w)' =>
    /\ InHand(w) /\ pc'[w] = pc[w] /\ current'[w] = current[w]
    /\ cur'[w] = cur[w] /\ contexts'[w] = contexts[w]
    /\ key'[cur[w]] = key[cur[w]] /\ inc'[cur[w]] = inc[cur[w]]
    /\ phase'[cur[w]] # "new"

\* As in the sequence of those that wait, so in its range.
LEMMA Waiting ==
  ASSUME TypeOK
  PROVE  /\ queue \in Seq(Evals) /\ Len(queue) \in Nat
         /\ Range(queue) = {queue[i] : i \in 1 .. Len(queue)}
         /\ DOMAIN queue = 1 .. Len(queue)
         /\ \A i \in 1 .. Len(queue) : queue[i] \in Evals
BY LenProperties, RangeEquality, ElementOfSeq DEF TypeOK

LEMMA ClientHands == ASSUME IInv, Client PROVE \A w \in Workers : Undisturbed(w)
<1> SUFFICES ASSUME NEW w \in Workers, InHand(w)' PROVE Undisturbed(w)
  BY DEF Undisturbed
<1> USE DEF IInv
<1>1. ASSUME pc' = Woken, UNCHANGED <<current, cur, contexts>>
      PROVE  InHand(w) /\ pc'[w] = pc[w]
  BY <1>1, Waking DEF InHand
<1>2. InHand(w) => cur[w] \in Evals /\ phase[cur[w]] # "new" /\ cur[w] \notin Range(queue)
  BY Waiting DEF Places, Accepted
<1>3. ASSUME NEW s \in Scopes, NEW g \in Gens, BeginGeneration(s, g) PROVE Undisturbed(w)
  BY <1>1, <1>2, <1>3 DEF BeginGeneration, Undisturbed
<1>8. ASSUME NEW s \in Scopes, ReleaseScope(s) PROVE Undisturbed(w)
  BY <1>1, <1>2, <1>8 DEF ReleaseScope, Undisturbed
<1>4. ASSUME NEW e \in Evals, NEW k \in Keys, EvaluateRefused(e, k) \/ EvaluateAccepted(e, k)
      PROVE  Undisturbed(w)
  <2>1. CASE \E r : Refuse(e, r)
    BY <1>2, <2>1 DEF Refuse, Undisturbed, InHand, TypeOK
  <2>2. CASE Push(e, k)
    <3>1. InHand(w) /\ pc'[w] = pc[w]
      <4>1. CASE alive
        BY <1>1, <2>2, <4>1 DEF Push, Notify
      <4>2. CASE ~ alive
        BY <2>2, <4>2 DEF Push, Notify, InHand, TypeOK
      <4> QED BY <4>1, <4>2
    <3>2. e # cur[w]
      BY <1>2, <1>4, <3>1 DEF EvaluateRefused, EvaluateAccepted
    <3> QED BY <1>2, <2>2, <3>1, <3>2 DEF Push, Undisturbed, TypeOK
  <2> QED BY <1>4, <2>1, <2>2 DEF EvaluateRefused, EvaluateAccepted, SpawnFails
<1>5. ASSUME NEW e \in Evals, Abandon(e) PROVE Undisturbed(w)
  BY <1>2, <1>5 DEF Abandon, Undisturbed, InHand, TypeOK
<1>6. ASSUME NEW e \in Evals, Withdraw(e) PROVE Undisturbed(w)
  <2>1. InHand(w) /\ UNCHANGED <<pc, current, cur, contexts>>
    BY <1>6 DEF Withdraw, InHand
  <2>2. phase'[cur[w]] # "new"
    BY <1>2, <1>6, <2>1 DEF Withdraw, TypeOK
  <2>3. CASE UNCHANGED <<key, inc>>
    BY <2>1, <2>2, <2>3 DEF Undisturbed
  <2>4. CASE ~ UNCHANGED <<key, inc>>
    <3>1. e \in Range(queue)
      BY <1>6, <2>4, Waiting DEF Withdraw
    <3>2. key' = [key EXCEPT ![e] = NoKey] /\ inc' = [inc EXCEPT ![e] = 0]
      BY <1>6, <2>4 DEF Withdraw
    <3> QED BY <1>2, <2>1, <2>2, <3>1, <3>2 DEF Undisturbed, TypeOK
  <2> QED BY <2>3, <2>4
<1>7. CASE CloseHandle
  <2>1. Complete(Range(queue), "Terminated") /\ "Terminated" \in Results
    BY <1>7 DEF CloseHandle, Results
  <2>2. InHand(w) /\ pc'[w] = pc[w] /\ UNCHANGED <<current, cur, contexts>>
    BY <1>1, <1>7 DEF CloseHandle
  <2>3. Range(queue) \in SUBSET Evals
    BY Waiting
  <2> QED BY <1>2, <2>1, <2>2, <2>3, Completing DEF Undisturbed
<1> QED BY <1>3, <1>4, <1>5, <1>6, <1>7, <1>8 DEF Client

\* Undisturbed hands keep what Places and Matching say of them, if those that
\* wait remain in their places.
LEMMA HandsKept ==
  ASSUME IInv, \A w \in Workers : Undisturbed(w)
  PROVE  /\ Matching'
         /\ \A w \in Workers : InHand(w)' => cur'[w] \in Evals /\ Accepted(cur[w])' /\ cur'[w] = cur[w]
BY DEF IInv, Undisturbed, Matching, InHand, Places, Accepted

LEMMA ClientPlaces == ASSUME IInv, Client PROVE Places'
<1> USE DEF IInv
<1>h. \A w \in Workers : InHand(w)' =>
        /\ InHand(w) /\ cur'[w] \in Evals /\ Accepted(cur[w])' /\ cur'[w] = cur[w]
  BY ClientHands, HandsKept DEF Undisturbed
<1>1. ASSUME UNCHANGED queue, \A i \in 1 .. Len(queue) : Accepted(queue[i])'
      PROVE  Places'
  BY <1>h, <1>1 DEF Places
<1>2. ASSUME NEW s \in Scopes, NEW g \in Gens, BeginGeneration(s, g) PROVE Places'
  BY <1>1, <1>2 DEF BeginGeneration, Places, Accepted
<1>7. ASSUME NEW s \in Scopes, ReleaseScope(s) PROVE Places'
  BY <1>1, <1>7 DEF ReleaseScope, Places, Accepted
<1>3. ASSUME NEW e \in Evals, NEW k \in Keys, EvaluateRefused(e, k) \/ EvaluateAccepted(e, k)
      PROVE  Places'
  <2>1. CASE \E r : Refuse(e, r)
    BY <1>1, <2>1, Waiting DEF Refuse, Places, Accepted, TypeOK
  <2>2. CASE EvaluateAccepted(e, k) /\ Push(e, k)
    <3>1. /\ Len(queue') = Len(queue) + 1
          /\ \A i \in 1 .. Len(queue) : queue'[i] = queue[i]
          /\ queue'[Len(queue) + 1] = e
      BY <2>2, Waiting, AppendProperties DEF Push
    <3>2. \A i \in 1 .. Len(queue) : queue[i] # e
      BY <2>2 DEF EvaluateAccepted, Places, Accepted
    <3>3. \A w \in Workers : InHand(w)' => cur'[w] # e
      BY <1>h, <2>2 DEF EvaluateAccepted, Places, Accepted
    <3>4. Accepted(e)'
      <4>1. k.scope \in Scopes /\ k.gen \in Gens
        BY DEF Keys
      <4>2. incarnation'[k.scope] \in 1 .. MaxRecords
        BY <2>2, <4>1, TrackKept DEF Push
      <4> QED BY <2>2, <4>2 DEF Push, Accepted, TypeOK
    <3>5. \A i \in 1 .. Len(queue) : Accepted(queue[i])'
      <4>1. \A f \in Evals : f # e =>
              key'[f] = key[f] /\ inc'[f] = inc[f] /\ phase'[f] = phase[f]
        BY <2>2 DEF Push, TypeOK
      <4> TAKE i \in 1 .. Len(queue)
      <4>2. /\ queue'[i] = queue[i] /\ queue[i] \in Evals /\ queue[i] # e
            /\ Accepted(queue[i])
        BY <3>1, <3>2, Waiting DEF Places
      <4> QED BY <4>1, <4>2 DEF Accepted
    <3>6. \A i \in 1 .. Len(queue') : i \in 1 .. Len(queue) \/ i = Len(queue) + 1
      BY <3>1, Waiting
    <3>7. \A i, j \in 1 .. Len(queue') : queue'[i] = queue'[j] => i = j
      BY <3>1, <3>2, <3>6 DEF Places
    <3>8. \A i \in 1 .. Len(queue') : Accepted(queue[i])'
      BY <3>1, <3>4, <3>5, <3>6
    <3>9. \A w \in Workers : InHand(w)' => \A i \in 1 .. Len(queue') : queue'[i] # cur'[w]
      BY <1>h, <3>1, <3>3, <3>6 DEF Places
    <3> QED BY <1>h, <3>7, <3>8, <3>9 DEF Places
  <2> QED BY <1>3, <2>1, <2>2 DEF EvaluateRefused, EvaluateAccepted, SpawnFails
<1>4. ASSUME NEW e \in Evals, Abandon(e) PROVE Places'
  BY <1>1, <1>4, Waiting DEF Abandon, Places, Accepted, TypeOK
<1>5. ASSUME NEW e \in Evals, Withdraw(e) PROVE Places'
  <2>1. CASE UNCHANGED <<queue, slot, key, inc>>
    BY <1>1, <1>5, <2>1, Waiting DEF Withdraw, Places, Accepted, TypeOK
  <2>2. ASSUME NEW n \in 1 .. Len(queue), queue[n] = e, queue' = RemoveAt(queue, n),
               key' = [key EXCEPT ![e] = NoKey], inc' = [inc EXCEPT ![e] = 0]
        PROVE  Places'
    <3> DEFINE old(i) == IF i < n THEN i ELSE i + 1
    <3>1. /\ Len(queue') = Len(queue) - 1
          /\ \A i \in 1 .. Len(queue') :
               /\ old(i) \in 1 .. Len(queue) /\ old(i) # n
               /\ queue'[i] = queue[old(i)]
      <4>1. /\ Len(queue') = Len(queue) - 1
            /\ \A i \in 1 .. Len(queue) - 1 :
                 queue'[i] = IF i < n THEN queue[i] ELSE queue[i + 1]
        BY <2>2, Waiting, Removed
      <4>2. \A i \in 1 .. Len(queue) - 1 : old(i) \in 1 .. Len(queue) /\ old(i) # n
        BY Waiting
      <4>3. \A i \in 1 .. Len(queue) - 1 : queue'[i] = queue[old(i)]
        BY <4>1
      <4> QED BY <4>1, <4>2, <4>3
    <3>2. \A i, j \in 1 .. Len(queue') : old(i) = old(j) => i = j
      BY <3>1, Waiting
    <3> HIDE DEF old
    <3>3. \A i, j \in 1 .. Len(queue') : queue'[i] = queue'[j] => i = j
      BY <3>1, <3>2 DEF Places
    <3>4. \A i \in 1 .. Len(queue') : Accepted(queue[i])'
      <4> TAKE i \in 1 .. Len(queue')
      <4>1. queue'[i] \in Evals /\ queue'[i] # e /\ Accepted(queue[old(i)])
        BY <2>2, <3>1, Waiting DEF Places
      <4> QED BY <1>5, <2>2, <3>1, <4>1 DEF Withdraw, Accepted, TypeOK
    <3> QED BY <1>h, <3>1, <3>3, <3>4 DEF Places
  <2> QED BY <1>5, <2>1, <2>2, Waiting DEF Withdraw
<1>6. CASE CloseHandle
  BY <1>h, <1>6, EmptySeq DEF CloseHandle, Places
<1> QED BY <1>2, <1>3, <1>4, <1>5, <1>6, <1>7 DEF Client

\* While the worker works, no other thread has anything in hand.
LEMMA Alone ==
  ASSUME IInv, NEW w \in Workers, Working(w), NEW u \in Workers, InHand(u)
  PROVE  u = w
<1>1. Owner(u) /\ Owner(w)
  BY DEF Owner, Working, InHand
<1>2. pc[w] # "off" /\ generation[w] = spawns
  BY <1>1 DEF IInv, Threads, Working
<1> QED BY <1>1, <1>2, OneOwner DEF IInv

\* The worker's steps leave the other threads alone.
LEMMA OtherThreads ==
  ASSUME TypeOK, NEW w \in Workers, Worker(w), NEW u \in Workers, u # w
  PROVE  /\ pc'[u] = pc[u] /\ contexts'[u] = contexts[u]
         /\ cur'[u] = cur[u] /\ current'[u] = current[u]
BY DEF Worker, Retire, Sleep, Take, Decline, Prepare, Execute, Panic,
   DropContexts, Guard, Finish, TypeOK

LEMMA WorkerPlaces ==
  ASSUME IInv, NEW w \in Workers, Worker(w)
  PROVE  Places' /\ Matching'
<1> USE DEF IInv
<1>q. /\ queue \in Seq(Evals) /\ Len(queue) \in Nat
      /\ \A i \in 1 .. Len(queue) : queue[i] \in Evals
  BY Waiting
\* Nothing is in hand any more, and what waits is as before.
<1>n. ASSUME \A u \in Workers : ~ InHand(u)', UNCHANGED queue,
             \A i \in 1 .. Len(queue) : Accepted(queue[i])'
      PROVE  Places' /\ Matching'
  BY <1>n DEF Places, Matching
<1>e. ASSUME UNCHANGED evalVars, UNCHANGED queue
      PROVE  \A i \in 1 .. Len(queue) : Accepted(queue[i])'
  BY <1>e DEF Places, Accepted
<1>w. ASSUME Working(w), ~ InHand(w)' PROVE \A u \in Workers : ~ InHand(u)'
  BY <1>w, Alone, OtherThreads DEF InHand
<1>o. ASSUME InHand(w), NEW r \in Results, Complete({cur[w]}, r), UNCHANGED queue,
             pc'[w] \in {"look", "leave"}
      PROVE  Places' /\ Matching'
  <2>1. \A u \in Workers : ~ InHand(u)'
    BY <1>o, <1>w DEF InHand, Working
  <2>2. \A i \in 1 .. Len(queue) : Accepted(queue[i])'
    <3>1. {cur[w]} \in SUBSET Evals
      BY <1>o DEF Places
    <3>2. \A e \in Evals \ {cur[w]} :
            key'[e] = key[e] /\ inc'[e] = inc[e] /\ (phase'[e] = "new" <=> phase[e] = "new")
      BY <1>o, <3>1, Completing
    <3>3. \A i \in 1 .. Len(queue) :
            queue'[i] = queue[i] /\ queue[i] \in Evals \ {cur[w]} /\ Accepted(queue[i])
      BY <1>o, <1>q DEF Places
    <3> QED BY <3>2, <3>3 DEF Accepted
  <2> QED BY <1>n, <1>o, <2>1, <2>2
<1>1. CASE Retire(w) \/ Sleep(w)
  <2>1. Working(w) /\ ~ InHand(w)' /\ UNCHANGED evalVars /\ UNCHANGED queue
    BY <1>1 DEF Retire, Sleep, Working, InHand, TypeOK
  <2> QED BY <1>n, <1>e, <1>w, <2>1
<1>2. CASE Take(w)
  <2>0. pc[w] = "look" /\ Working(w) /\ UNCHANGED evalVars
    BY <1>2 DEF Take, Working
  <2>1. CASE queue = <<>>
    <3>1. ~ InHand(w)' /\ UNCHANGED queue
      BY <1>2, <2>0, <2>1 DEF Take, InHand
    <3> QED BY <1>n, <1>e, <1>w, <2>0, <3>1
  <2>2. CASE queue # <<>>
    <3> DEFINE e == Head(queue)
    <3>1. /\ e = queue[1] /\ Len(queue) >= 1
          /\ Len(queue') = Len(queue) - 1
          /\ \A i \in 1 .. Len(queue') : queue'[i] = queue[i + 1]
      <4>1. queue' = Tail(queue)
        BY <1>2, <2>2 DEF Take
      <4>2. e = queue[1] /\ Len(queue) >= 1
        BY <1>q, <2>2, EmptySeq
      <4>3. /\ Len(Tail(queue)) = Len(queue) - 1
            /\ \A i \in 1 .. Len(Tail(queue)) : Tail(queue)[i] = queue[i + 1]
        BY <1>q, <2>2, HeadTailProperties
      <4> QED BY <4>1, <4>2, <4>3
    <3>2. /\ contexts'[w] = contexts[w] \ Outdated(w)
          /\ cur'[w] = e /\ pc'[w] = "prepare"
          /\ current'[w] <=> IsCurrent(key[e], inc[e])
      BY <1>2, <2>2 DEF Take, TypeOK, IsCurrent
    <3> HIDE DEF e
    <3>3. \A u \in Workers : InHand(u)' => u = w
      BY <2>0, OtherThreads DEF InHand, Working, Owner, OneOwner, Threads
    <3>4. \A i, j \in 1 .. Len(queue') : queue'[i] = queue'[j] => i = j
      <4> TAKE i, j \in 1 .. Len(queue')
      <4>1. i + 1 \in 1 .. Len(queue) /\ j + 1 \in 1 .. Len(queue)
        BY <1>q, <3>1
      <4> QED BY <3>1, <4>1 DEF Places
    <3>5. \A i \in 1 .. Len(queue') : Accepted(queue[i])' /\ queue'[i] # e
      <4> TAKE i \in 1 .. Len(queue')
      <4>1. i + 1 \in 1 .. Len(queue) /\ 1 \in 1 .. Len(queue) /\ i + 1 # 1
        BY <1>q, <3>1
      <4>2. queue'[i] = queue[i + 1] /\ queue[i + 1] # e /\ Accepted(queue[i + 1])
        BY <3>1, <4>1 DEF Places
      <4> QED BY <2>0, <4>2 DEF Accepted
    <3>6. e \in Evals /\ Accepted(e)
      BY <1>q, <3>1 DEF Places
    <3>7. Accepted(cur[w])' /\ cur'[w] \in Evals
      BY <2>0, <3>2, <3>6 DEF Accepted
    <3>8. Places'
      BY <3>2, <3>3, <3>4, <3>5, <3>7 DEF Places
    <3>9. current'[w] => \A c \in contexts'[w] : c.key = key'[e] => c.inc = inc'[e]
      BY <2>0, <3>2 DEF Outdated, IsCurrent
    <3>10. Matching'
      BY <3>2, <3>3, <3>9 DEF Matching
    <3> QED BY <3>8, <3>10
  <2> QED BY <2>1, <2>2
<1>3. CASE Decline(w)
  <2>1. PICK r \in {"Terminated", "NotFound", "Limit"} : Finish(w, r)
    BY <1>3 DEF Decline
  <2>2. InHand(w) /\ UNCHANGED queue /\ r \in Results
    BY <1>3 DEF Decline, InHand, Results
  <2> QED BY <1>o, <2>1, <2>2 DEF Finish, TypeOK
<1>4. CASE Prepare(w)
  <2>0. /\ pc[w] = "prepare" /\ InHand(w) /\ Working(w) /\ current[w] /\ UNCHANGED queue
    BY <1>4 DEF Prepare, InHand, Working
  <2>1. CASE Finish(w, "Engine")
    BY <1>o, <2>0, <2>1 DEF Finish, TypeOK, Results
  <2>2. CASE ~ Finish(w, "Engine")
    <3>1. pc'[w] = "execute" /\ UNCHANGED <<cur, current, evalVars>>
      BY <1>4, <2>2 DEF Prepare, TypeOK
    <3>2. \/ contexts' = contexts
          \/ /\ ~ HasContext(w, key[cur[w]])
             /\ contexts'[w] = contexts[w] \cup {[key |-> key[cur[w]], inc |-> inc[cur[w]]]}
      BY <1>4, <2>2 DEF Prepare, TypeOK
    <3>3. \A c \in contexts'[w] : c.key = key[cur[w]] => c.inc = inc[cur[w]]
      BY <2>0, <3>2 DEF Matching, HasContext
    <3>4. \A u \in Workers : InHand(u)' => u = w
      BY <2>0, Alone, OtherThreads DEF InHand
    <3>5. Places'
      BY <1>e, <2>0, <3>1, <3>4 DEF Places, Accepted
    <3>6. Matching'
      BY <2>0, <3>1, <3>3, <3>4 DEF Matching
    <3> QED BY <3>5, <3>6
  <2> QED BY <2>1, <2>2
<1>5. CASE Execute(w)
  <2>1. PICK r \in {"Value", "Engine"} : Finish(w, r)
    BY <1>5 DEF Execute
  <2>2. InHand(w) /\ UNCHANGED queue /\ r \in Results
    BY <1>5 DEF Execute, InHand, Results
  <2> QED BY <1>o, <2>1, <2>2 DEF Finish, TypeOK
<1>6. CASE Panic(w)
  BY <1>o, <1>6 DEF Panic, InHand, TypeOK, Results
<1>7. CASE DropContexts(w)
  <2>1. ~ InHand(w)' /\ UNCHANGED evalVars /\ UNCHANGED queue
    BY <1>7 DEF DropContexts, InHand, TypeOK
  <2>2. \A u \in Workers : InHand(u)' =>
          /\ InHand(u) /\ pc'[u] = pc[u] /\ contexts'[u] = contexts[u]
          /\ cur'[u] = cur[u] /\ current'[u] = current[u]
    BY <2>1, OtherThreads DEF InHand
  <2> QED BY <1>e, <2>1, <2>2 DEF Places, Matching, Accepted
<1>8. CASE Guard(w)
  <2>0. pc[w] = "guard" /\ pc'[w] = "off"
    BY <1>8 DEF Guard, TypeOK
  <2>1. CASE spawns = generation[w]
    <3>1. \A u \in Workers : ~ InHand(u)'
      <4>1. \A u \in Workers : Owner(u) => u = w
        BY <2>0, <2>1, OneOwner
      <4> QED BY <2>0, <4>1, OtherThreads DEF Owner, Working, InHand
    <3>2. queue' = <<>>
      BY <1>8, <2>1 DEF Guard
    <3> QED BY <3>1, <3>2, EmptySeq DEF Places, Matching
  <2>2. CASE spawns # generation[w]
    <3>1. ~ InHand(w)' /\ UNCHANGED evalVars /\ UNCHANGED queue
      BY <1>8, <2>0, <2>2 DEF Guard, InHand
    <3>2. \A u \in Workers : InHand(u)' =>
            /\ InHand(u) /\ pc'[u] = pc[u] /\ contexts'[u] = contexts[u]
            /\ cur'[u] = cur[u] /\ current'[u] = current[u]
      BY <3>1, OtherThreads DEF InHand
    <3> QED BY <1>e, <3>1, <3>2 DEF Places, Matching, Accepted
  <2> QED BY <2>1, <2>2
<1> QED BY <1>1, <1>2, <1>3, <1>4, <1>5, <1>6, <1>7, <1>8 DEF Worker

-----------------------------------------------------------------------------
(* The theorems.                                                           *)

LEMMA Inductive == Spec => []IInv
<1>1. IInv /\ [Next]_vars => IInv'
  <2> SUFFICES ASSUME IInv, [Next]_vars PROVE IInv'
    OBVIOUS
  <2>1. CASE Client
    <3>1. Next
      BY <2>1 DEF Next
    <3> QED BY <2>1, <3>1, ClientTypes, ClientThreads, SizesKept, RecordsKept,
            ClientPlaces, ClientHands, HandsKept DEF IInv
  <2>2. ASSUME NEW w \in Workers, Worker(w) PROVE IInv'
    <3>1. Next
      BY <2>2 DEF Next
    <3> QED BY <2>2, <3>1, WorkerTypes, WorkerThreads, SizesKept, RecordsKept,
            WorkerPlaces DEF IInv
  <2>3. CASE UNCHANGED vars
    BY <2>3 DEF vars, IInv, TypeOK, Threads, Owner, Working, Sizes, Records,
       Places, Accepted, InHand, Matching
  <2> QED BY <2>1, <2>2, <2>3 DEF Next
<1> QED BY <1>1, InitHolds, PTL DEF Spec

\* Types of State, of the evaluations and of the worker's locals
\* (script_context.rs).
THEOREM Types == Spec => []TypeOK
BY Inductive, PTL DEF IInv

\* One thread takes evaluations, and the processes of all threads, also of one
\* that died and of its successor, stay within max_live (WorkerGuard::drop).
THEOREM WorkersStayBounded == Spec => []WorkersBounded
<1>1. IInv => WorkersBounded
  <2> SUFFICES ASSUME IInv PROVE OneWorker /\ ProcessesBounded
    BY DEF WorkersBounded
  <2>1. OneWorker
    BY DEF IInv, Threads, Owner, OneWorker
  <2>2. CASE \A w \in Workers : contexts[w] = {}
    <3>1. AllContexts = {}
      BY <2>2 DEF AllContexts
    <3> QED BY <2>1, <3>1, FS_EmptySet, ScriptBoundsAssumption DEF ProcessesBounded
  <2>3. ASSUME NEW w \in Workers, contexts[w] # {} PROVE ProcessesBounded
    <3>1. Owner(w) /\ pc[w] # "off" /\ generation[w] = spawns
      BY <2>3 DEF IInv, Threads, Owner
    <3>2. \A v \in Workers : contexts[v] # {} => v = w
      BY <3>1, OneOwner DEF IInv, Owner
    <3>3. AllContexts = contexts[w]
      BY <3>2 DEF AllContexts
    <3> QED BY <3>3 DEF IInv, Sizes, ProcessesBounded
  <2> QED BY <2>1, <2>2, <2>3
<1> QED BY <1>1, Inductive, PTL

\* What is executed belongs to the page that counts: it is of the generation
\* announced last, and its context was built under the same registration of
\* its scope (worker_main, handle_evaluate).
THEOREM RunsStayCurrent == Spec => RunsAreCurrent
<1>1. IInv => RunsInItsContext
  BY DEF IInv, Matching, InHand, RunsInItsContext
<1>2. IInv /\ [Next]_vars =>
        [\A w \in Workers : pc[w] = "look" /\ pc'[w] = "prepare" /\ current'[w] =>
           announced[key[cur'[w]].scope] = key[cur'[w]].gen]_vars
  <2> SUFFICES ASSUME IInv, Next, NEW w \in Workers,
                      pc[w] = "look", pc'[w] = "prepare", current'[w]
               PROVE  announced[key[cur'[w]].scope] = key[cur'[w]].gen
    BY DEF vars
  <2>1. PICK v \in Workers : Worker(v)
    <3>1. CASE Client
      <4>1. InHand(w)' /\ ~ InHand(w)
        BY DEF InHand
      <4> QED BY <3>1, <4>1, ClientHands DEF Undisturbed
    <3> QED BY <3>1 DEF Next
  <2>2. v = w
    BY <2>1, OtherThreads DEF IInv
  <2>3. Take(w)
    BY <2>1, <2>2 DEF Worker, Retire, Sleep, Decline, Prepare, Execute, Panic,
       DropContexts, Guard, IInv, TypeOK
  <2>4. IsCurrent(key[cur'[w]], inc[cur'[w]])
    <3>1. /\ cur' = [cur EXCEPT ![w] = Head(queue)]
          /\ current' = [current EXCEPT ![w] = IsCurrent(key[Head(queue)], inc[Head(queue)])]
      BY <2>3 DEF Take
    <3>2. cur'[w] = Head(queue)
      BY <3>1 DEF IInv, TypeOK
    <3>3. current'[w] = IsCurrent(key[Head(queue)], inc[Head(queue)])
      BY <3>1 DEF IInv, TypeOK
    <3> QED BY <3>2, <3>3
  <2> QED BY <2>4 DEF IsCurrent, IInv, Records
<1> QED BY <1>1, <1>2, Inductive, PTL DEF RunsAreCurrent, NoStaleRun, Spec

=============================================================================
