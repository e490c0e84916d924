---------------------------- MODULE JsWorkerProofs ----------------------------
(***************************************************************************)
(* Theorems about JsWorker, for any global names and any limits.           *)
(***************************************************************************)
EXTENDS JsWorker, FiniteSetTheorems, SequenceTheorems, TLAPS

\* The names of the groups of variables are expanded everywhere.
USE DEF recordVars, bookVars, workerVars, nativeVars, pageVars, childVars

-----------------------------------------------------------------------------
(* The inductive invariant, one part after the other.                      *)

Operations ==
  [kind : {"evaluate", "compile", "link", "run", "take"}, arg : {0}]
    \cup [kind : {"register"}, arg : Names]
    \cup [kind : {"finish"}, arg : 1 .. MaxImports]

\* Every variable stays in its range.
Types ==
  /\ pc \in {"idle", "spawn", "take", "write", "await", "native", "return"}
  /\ op \in Operations \cup {Nothing}
  /\ bindings \in Seq(Bindings) /\ natives \in Seq(Names \X Nat)
  /\ joined \in 0 .. Len(bindings)
  /\ known \subseteq 1 .. MaxModules
  /\ pending \subseteq 1 .. MaxImports
  /\ monitor \in {"off", "watching", "decided", "killed"}

Flags ==
  /\ late \in BOOLEAN /\ worker \in BOOLEAN /\ relied \in BOOLEAN
  /\ replied \in BOOLEAN /\ used \in BOOLEAN

ChildTypes ==
  /\ phase \in {"ready", "running", "calling", "gone"}
  /\ installed \subseteq Bindings
  /\ modules \in 0 .. MaxModules
  /\ next \in 1 .. MaxImports + 1
  /\ queued \subseteq 1 .. next - 1
  /\ awaiting \subseteq 1 .. next - 1

\* Native threads, those of abandoned calls included, fit in their slots.
Slots ==
  /\ \A t \in threads : /\ t = [id |-> t.id, fn |-> t.fn, st |-> t.st]
                        /\ t.st \in {"started", "inside", "leaving"}
  /\ IsFiniteSet(threads)
  /\ Cardinality(threads) <= MaxThreads

\* An import is asked for once, and what is open stays under the limit on
\* both sides.
Imports ==
  /\ queued \cap awaiting = {}
  /\ Cardinality(queued \cup awaiting) <= MaxPending
  /\ Cardinality(pending) <= MaxPending

\* The numbers of a name's functions lead to that name's functions.
Functions ==
  \A i \in DOMAIN bindings : \A k \in 1 .. Members[bindings[i].name] :
    /\ bindings[i].first + k <= Len(natives)
    /\ natives[bindings[i].first + k] = <<bindings[i].name, k>>

\* Without a worker nothing is left of one.  With one, an operation is past
\* its start, and outside of the re-registration all names are registered.
Stages ==
  /\ pc = "idle" <=> op = Nothing
  /\ pc = "spawn" => ~ worker
  /\ pc \notin {"idle", "spawn"} => worker
  /\ ~ worker => /\ phase = "gone" /\ down = <<>> /\ up = <<>>
                 /\ joined = 0 /\ known = {} /\ pending = {}
  /\ worker /\ pc \in {"idle", "take"} => joined = Len(bindings)
  /\ pc \in {"native", "return"} => op.kind \in Runs /\ ~ Joining

-----------------------------------------------------------------------------
(* What is in the pipes, and what each side knows meanwhile.               *)

Torn == Frame("torn", 0)

\* An answer the parent can accept, with a body of the right kind.
Sound(a) ==
  /\ a.tag # "torn" /\ Acceptable(a)
  /\ a.tag = "moduleCompiled" => a.body \in 1 .. MaxModules
  /\ a.tag = "dynamicImports" => a.body \subseteq 1 .. MaxImports

Registered == {bindings[i] : i \in 1 .. joined}

Same(open) ==
  /\ installed = Registered
  /\ known = 1 .. modules
  /\ awaiting = open

\* What the parent's record of imports will be when the request is through.
Awaited == IF Asked.kind = "finish" THEN pending \ {op.arg} ELSE pending

\* The books once the answer a is read.
After(a) ==
  /\ installed =
       Registered \cup {b \in {Asked.arg} : Asked.kind = "register" /\ a.tag = "result"}
  /\ 1 .. modules = known \cup {m \in {a.body} : a.tag = "moduleCompiled"}
  /\ awaiting = IF a.tag = "dynamicImports" THEN pending \cup a.body
                      ELSE IF Unresolved(a) THEN pending ELSE Awaited

AtRest == phase = "ready" /\ down = <<>> /\ up = <<>> /\ Same(pending)

Sent == phase = "ready" /\ down = <<Asked>> /\ up = <<>> /\ Same(pending)

Working(p) == phase = p /\ asked = Asked /\ Same(Awaited)

Running == Working("running") /\ down = <<>> /\ up = <<>>

Calling ==
  /\ Working("calling") /\ Asked.kind \in Runs
  /\ down = <<>> /\ up = <<Answer>> /\ Answer.tag = "call" /\ Sound(Answer)

Serving == Working("calling") /\ down = <<>> /\ up = <<>>

Returning ==
  /\ Working("calling") /\ Asked.kind \in Runs
  /\ down = <<[kind |-> "return", arg |-> 0]>> /\ up = <<>>

Replied ==
  /\ phase = "ready" /\ down = <<>>
  /\ up = <<Answer>> /\ Answer.tag # "call" /\ Sound(Answer) /\ After(Answer)

Alive ==
  phase # "gone" =>
    /\ pc \in {"idle", "take", "write"} => AtRest
    /\ pc = "await" => Sent \/ Running \/ Calling \/ Returning \/ Replied
    /\ pc \in {"native", "return"} => Serving

\* A dead child leaves at most an answer and a torn frame behind.
Dead ==
  phase = "gone" =>
    \/ up \in {<<>>, <<Torn>>}
    \/ pc = "await" /\ Sound(Answer) /\ up \in {<<Answer>>, <<Answer, Torn>>}

\* The parent writes one frame at a time.
Single == down \in {<<>>, <<Head(down)>>}

\* Only a child that was asked something says or does something.
Memory ==
  /\ relied => worker /\ used
  /\ phase \in {"running", "calling"} => used
  /\ up # <<>> => used

IInv ==
  /\ Types /\ ChildTypes /\ Flags /\ Slots /\ Imports /\ Functions /\ Stages
  /\ Alive /\ Dead /\ Single /\ Memory

-----------------------------------------------------------------------------
(* What the proofs use of sequences, and of the steps.                     *)

\* One or two frames are all a pipe ever holds.
LEMMA Pipes ==
  ASSUME NEW a, NEW b
  PROVE  /\ Len(<<>>) = 0 /\ Len(<<a>>) = 1 /\ Len(<<a, b>>) = 2
         /\ <<>> # <<a>> /\ <<>> # <<a, b>>
         /\ Head(<<a>>) = a /\ Tail(<<a>>) = <<>>
         /\ Head(<<a, b>>) = a /\ Tail(<<a, b>>) = <<b>>
         /\ Append(<<>>, a) = <<a>> /\ Append(<<a>>, b) = <<a, b>>
<1>1. Len(<<>>) = 0 /\ Len(<<a>>) = 1 /\ Len(<<a, b>>) = 2
  OBVIOUS
<1>2. <<>> # <<a>> /\ <<>> # <<a, b>>
  OBVIOUS
<1>3. Head(<<a>>) = a /\ Head(<<a, b>>) = a
  OBVIOUS
<1>4. Tail(<<a>>) = <<>>
  OBVIOUS
<1>5. Tail(<<a, b>>) = <<b>>
  OBVIOUS
<1>6. Append(<<>>, a) = <<a>>
  OBVIOUS
<1>7. Append(<<a>>, b) = <<a, b>>
  <2>1. <<a>> \in Seq({a, b}) /\ <<a, b>> \in Seq({a, b}) /\ b \in {a, b}
    OBVIOUS
  <2>2. /\ Append(<<a>>, b) \in Seq({a, b}) /\ Len(Append(<<a>>, b)) = 2
        /\ Append(<<a>>, b)[1] = a /\ Append(<<a>>, b)[2] = b
    BY <1>1, <2>1
  <2>3. \A i \in 1 .. 2 : Append(<<a>>, b)[i] = <<a, b>>[i]
    BY <2>2
  <2> QED BY <1>1, <2>1, <2>2, <2>3, SeqEqual
<1> QED BY <1>1, <1>2, <1>3, <1>4, <1>5, <1>6, <1>7

\* A set grows by one at most.
LEMMA OneMore ==
  ASSUME NEW S, IsFiniteSet(S), NEW x
  PROVE  /\ IsFiniteSet(S \cup {x})
         /\ Cardinality(S) \in Nat /\ Cardinality(S \cup {x}) \in Nat
         /\ Cardinality(S \cup {x}) <= Cardinality(S) + 1
<1>1. Cardinality(S) \in Nat
  BY FS_CardinalityType
<1>2. /\ IsFiniteSet(S \cup {x})
      /\ Cardinality(S \cup {x}) = IF x \in S THEN Cardinality(S) ELSE Cardinality(S) + 1
  BY FS_AddElement
<1> QED BY <1>1, <1>2

\* The tag of a last word.
LEMMA Tags ==
  ASSUME NEW kind \in {"register", "evaluate", "compile", "link", "run", "take", "finish"}
  PROVE  /\ kind \in {"register", "evaluate", "link"} => OkTag(kind) = "result"
         /\ kind \in {"run", "finish"} => OkTag(kind) = "moduleResult"
         /\ kind = "compile" => OkTag(kind) = "moduleCompiled"
         /\ kind = "take" => OkTag(kind) = "dynamicImports"
BY DEF OkTag

\* Giving the worker up is one thing, whatever the reason.
GivesUp ==
  \/ TakeKilled \/ WriteFails \/ Overweight \/ Violated
  \/ TimedOut \/ Ended \/ NativeLate

\* The steps, one by one.
LEMMA Steps ==
  ASSUME [Next]_vars
  PROVE  \/ Begin \/ SpawnFails \/ Spawn \/ ModulesFull \/ TakeLive
         \/ Write \/ WriteReturn
         \/ Rejoin \/ Register \/ Refused \/ Answered
         \/ CallServed \/ CallRefused \/ NativeDone
         \/ GivesUp \/ Deadline \/ NativeThread \/ MonitorDecides \/ MonitorKills
         \/ ChildReads \/ ChildAnswers \/ ChildImports \/ ChildCalls \/ ChildReturns
         \/ ChildDies \/ UNCHANGED vars
BY DEF Next, Operation, Child, GivesUp

\* All that gives the worker up discards it.
LEMMA Discards == GivesUp => Discard /\ pc # "idle"
BY DEF GivesUp, TakeKilled, WriteFails, Overweight, Violated, TimedOut, Ended,
       NativeLate, Receiving

\* What the child is asked is one of the requests, or a recorded name.
LEMMA AskedKinds ==
  ASSUME Types, pc # "idle", Stages
  PROVE  /\ Asked.kind \in {"register", "evaluate", "compile", "link", "run",
                            "take", "finish"}
         /\ Joining => Asked.kind = "register"
         /\ ~ Joining => Asked.kind = op.kind
         /\ Asked.kind = "register" => Asked.arg \in Bindings
         /\ Asked.kind # "register" => Asked = op /\ ~ Joining
         /\ Asked.kind = "finish" => op.arg \in 1 .. MaxImports
         /\ op.kind = "register" => op.arg \in Names
<1>1. op \in Operations
  BY DEF Types, Stages
<1>2. CASE Joining
  <2>1. bindings[joined + 1] \in Bindings
    BY <1>2 DEF Types, Joining
  <2>2. Asked = [kind |-> "register", arg |-> bindings[joined + 1]]
    BY <1>2 DEF Asked
  <2> QED BY <1>1, <1>2, <2>1, <2>2 DEF Operations
<1>3. CASE ~ Joining /\ op.kind = "register"
  <2>1. Asked = [kind |-> "register", arg |-> NewBinding]
    BY <1>3 DEF Asked
  <2>2. op.arg \in Names
    BY <1>1, <1>3 DEF Operations
  <2>3. NewBinding \in Bindings
    BY <2>2 DEF NewBinding, Bindings, Types
  <2> QED BY <1>3, <2>1, <2>2, <2>3
<1>4. CASE ~ Joining /\ op.kind # "register"
  <2>1. Asked = op
    BY <1>4 DEF Asked
  <2> QED BY <1>1, <1>4, <2>1 DEF Operations
<1> QED BY <1>2, <1>3, <1>4

\* While the operation and the records stay, the question stays.
LEMMA AskedStays ==
  ASSUME UNCHANGED <<op, joined, bindings, natives>>
  PROVE  /\ Asked' = Asked /\ Joining' = Joining /\ Registered' = Registered
         /\ UNCHANGED pending => Awaited' = Awaited
         /\ UNCHANGED <<known, pending>> =>
              \A a : (Acceptable(a)' <=> Acceptable(a)) /\ (Sound(a)' <=> Sound(a))
<1>1. Asked' = Asked /\ Joining' = Joining /\ Registered' = Registered
  BY DEF Asked, Joining, NewBinding, Registered
<1>2. UNCHANGED pending => Awaited' = Awaited
  BY <1>1 DEF Awaited
<1>3. ASSUME UNCHANGED <<known, pending>>, NEW a
      PROVE  (Acceptable(a)' <=> Acceptable(a)) /\ (Sound(a)' <=> Sound(a))
  BY <1>1, <1>3 DEF Sound, Acceptable
<1> QED BY <1>1, <1>2, <1>3

\* What the operation can find in its pipe.
LEMMA Received ==
  ASSUME IInv, Receiving
  PROVE  /\ Answer = Torn \/ Sound(Answer)
         /\ phase # "gone" => (Calling \/ Replied) /\ Tail(up) = <<>>
         /\ phase = "gone" => Tail(up) \in {<<>>, <<Torn>>}
         /\ worker /\ used /\ op \in Operations /\ pc = "await"
<1>1. worker /\ used /\ op \in Operations /\ pc = "await" /\ up # <<>>
  BY DEF IInv, Receiving, Stages, Memory, Types
<1>2. CASE phase # "gone"
  <2>1. Calling \/ Replied
    BY <1>1, <1>2 DEF IInv, Alive, Sent, Running, Returning
  <2>2. up = <<Answer>> /\ Sound(Answer)
    BY <2>1 DEF Calling, Replied
  <2>3. Tail(up) = <<>>
    BY <2>2, Pipes
  <2> QED BY <1>1, <1>2, <2>1, <2>2, <2>3
<1>3. CASE phase = "gone"
  <2>1. CASE up \in {<<>>, <<Torn>>}
    <3>1. up = <<Torn>>
      BY <1>1, <2>1
    <3>2. Answer = Torn /\ Tail(up) = <<>>
      BY <3>1, Pipes DEF Answer
    <3> QED BY <1>1, <1>3, <3>2
  <2>2. CASE Sound(Answer) /\ up \in {<<Answer>>, <<Answer, Torn>>}
    <3>1. Tail(up) \in {<<>>, <<Torn>>}
      <4>1. Tail(<<Answer>>) = <<>> /\ Tail(<<Answer, Torn>>) = <<Torn>>
        BY Pipes
      <4> QED BY <2>2, <4>1
    <3> QED BY <1>1, <1>3, <2>2, <3>1
  <2> QED BY <1>3, <2>1, <2>2 DEF IInv, Dead
<1> QED BY <1>2, <1>3

-----------------------------------------------------------------------------
(* Types.                                                                  *)

\* A child that has done nothing has done nothing wrong.
LEMMA FreshTypes ==
  ASSUME NEW p \in {"ready", "gone"}, Fresh(p), pending' = {}
  PROVE  ChildTypes' /\ Imports'
<1>1. ChildTypes'
  BY LimitsAssumption DEF Fresh, ChildTypes
<1>2. queued' \cup awaiting' = {} /\ queued' \cap awaiting' = {}
  BY DEF Fresh
<1>3. Imports'
  BY <1>2, FS_EmptySet, LimitsAssumption DEF Imports
<1> QED BY <1>1, <1>3

LEMMA TypesInit == Init => Types /\ ChildTypes /\ Flags /\ Slots
<1> SUFFICES ASSUME Init PROVE Types /\ ChildTypes /\ Flags /\ Slots
  OBVIOUS
<1>1. Types
  BY DEF Init, Types, Nothing
<1>2. ChildTypes
  BY LimitsAssumption DEF Init, ChildTypes
<1>3. Flags
  BY DEF Init, Flags
<1>4. Slots
  BY FS_EmptySet, LimitsAssumption DEF Init, Slots
<1> QED BY <1>1, <1>2, <1>3, <1>4

LEMMA RequestTypes ==
  ASSUME Types, NEW r \in Requests
  PROVE  r \in Operations /\ r # Nothing
<1>1. r \in Operations
  BY DEF Types, Requests, Operations
<1>2. r.kind # "none"
  BY <1>1 DEF Operations
<1> QED BY <1>1, <1>2 DEF Nothing

\* The types survive what leaves the records alone.
LEMMA TypesStay ==
  ASSUME Types, UNCHANGED <<bindings, natives, joined, known, pending>>,
         pc' \in {"idle", "spawn", "take", "write", "await", "native", "return"},
         op' \in Operations \cup {Nothing},
         monitor' \in {"off", "watching", "decided", "killed"}
  PROVE  Types'
BY DEF Types

LEMMA TypesKept == IInv /\ [Next]_vars => Types'
<1> SUFFICES ASSUME IInv, [Next]_vars PROVE Types'
  OBVIOUS
<1>0. IInv /\ Types /\ Stages
  BY DEF IInv
<1>1. CASE Begin
  <2>1. op' \in Operations
    BY <1>0, <1>1, RequestTypes DEF Begin
  <2> QED BY <1>0, <1>1, <2>1, TypesStay DEF Begin, Types
<1>2. CASE SpawnFails \/ ModulesFull \/ TakeLive
  BY <1>0, <1>2, TypesStay DEF SpawnFails, ModulesFull, TakeLive, EndOperation, Types
<1>3. CASE Spawn
  BY <1>0, <1>3, TypesStay DEF Spawn, Types
<1>4. CASE Write \/ WriteReturn
  BY <1>0, <1>4, TypesStay DEF Write, WriteReturn, Types
<1>5. CASE Rejoin
  <2>1. joined + 1 \in 0 .. Len(bindings)
    BY <1>0, <1>5 DEF Rejoin, Joining, Types
  <2> QED BY <1>0, <1>5, <2>1 DEF Rejoin, Types
<1>6. CASE Register
  <2>1. op.arg \in Names
    BY <1>0, <1>6, AskedKinds DEF Register, Receiving
  <2>2. NewBinding \in Bindings
    BY <1>0, <2>1 DEF NewBinding, Bindings, Types
  <2>3. bindings' \in Seq(Bindings) /\ Len(bindings') = Len(bindings) + 1
    BY <1>0, <1>6, <2>2, AppendProperties DEF Register, Types
  <2>4. joined' \in 0 .. Len(bindings')
    BY <1>0, <1>6, <2>3 DEF Register, Types
  <2>5. [i \in 1 .. Members[op.arg] |-> <<op.arg, i>>] \in Seq(Names \X Nat)
    BY <2>1, MembersAssumption DEF Names
  <2>6. natives' \in Seq(Names \X Nat)
    BY <1>0, <1>6, <2>5, ConcatProperties DEF Register, Types
  <2> QED BY <1>0, <1>6, <2>3, <2>4, <2>6 DEF Register, KeepWorker, EndOperation, Types
<1>7. CASE Refused
  BY <1>0, <1>7, TypesStay DEF Refused, KeepWorker, EndOperation, Types
<1>8. CASE Answered
  <2>1. Sound(Answer)
    BY <1>0, <1>8, Received, AskedKinds DEF Answered, Final, Torn, Frame, Receiving, OkTag
  <2>2. known' \subseteq 1 .. MaxModules
    BY <1>0, <1>8, <2>1 DEF Answered, Sound, Types
  <2>3. pending' \subseteq 1 .. MaxImports
    BY <1>0, <1>8, <2>1 DEF Answered, Sound, Types
  <2> QED BY <1>0, <1>8, <2>2, <2>3 DEF Answered, KeepWorker, EndOperation, Types
<1>9. CASE CallServed \/ CallRefused \/ NativeDone
  BY <1>0, <1>9, TypesStay DEF CallServed, CallRefused, NativeDone, Types
<1>10. CASE GivesUp
  BY <1>0, <1>10, Discards, LimitsAssumption DEF Discard, EndOperation, Types
<1>11. CASE Deadline \/ MonitorDecides \/ MonitorKills
  BY <1>0, <1>11, TypesStay DEF Deadline, MonitorDecides, MonitorKills, Types
<1>12. CASE NativeThread
  BY <1>0, <1>12, TypesStay DEF NativeThread, Types
<1>13. CASE ChildReads \/ ChildAnswers \/ ChildImports \/ ChildCalls
              \/ ChildReturns \/ ChildDies
  BY <1>0, <1>13, TypesStay DEF ChildReads, ChildAnswers, ChildImports, ChildCalls,
     ChildReturns, ChildDies, Types
<1>14. CASE UNCHANGED vars
  BY <1>0, <1>14, TypesStay DEF vars, Types
<1> QED BY <1>1, <1>2, <1>3, <1>4, <1>5, <1>6, <1>7, <1>8, <1>9, <1>10, <1>11,
           <1>12, <1>13, <1>14, Steps

LEMMA FlagsKept == IInv /\ [Next]_vars => Flags'
<1> SUFFICES ASSUME IInv, [Next]_vars PROVE Flags'
  OBVIOUS
<1>0. Flags
  BY DEF IInv
<1>1. CASE Begin \/ SpawnFails \/ ModulesFull \/ TakeLive \/ Write \/ WriteReturn
  BY <1>0, <1>1 DEF Flags, Begin, SpawnFails, ModulesFull, TakeLive, Write,
     WriteReturn, EndOperation
<1>2. CASE Spawn
  BY <1>0, <1>2 DEF Flags, Spawn, Fresh
<1>3. CASE Rejoin \/ Register \/ Refused \/ Answered
  BY <1>0, <1>3 DEF Flags, Rejoin, Register, Refused, Answered, KeepWorker, EndOperation
<1>4. CASE CallServed \/ CallRefused \/ NativeDone
  BY <1>0, <1>4 DEF Flags, CallServed, CallRefused, NativeDone
<1>5. CASE GivesUp
  BY <1>0, <1>5, Discards DEF Flags, Discard, EndOperation, Fresh
<1>6. CASE Deadline \/ MonitorDecides \/ MonitorKills \/ ChildDies
  BY <1>0, <1>6 DEF Flags, Deadline, MonitorDecides, MonitorKills, ChildDies, Dies
<1>7. CASE NativeThread
  BY <1>0, <1>7 DEF Flags, NativeThread, ThreadEnters, ThreadReplies, ThreadEnds
<1>8. CASE ChildReads \/ ChildAnswers \/ ChildImports \/ ChildCalls \/ ChildReturns
  BY <1>0, <1>8 DEF Flags, ChildReads, Unready, Starts, ChildAnswers, ChildImports,
     ChildCalls, ChildReturns
<1>9. CASE UNCHANGED vars
  BY <1>0, <1>9 DEF Flags, vars
<1> QED BY <1>1, <1>2, <1>3, <1>4, <1>5, <1>6, <1>7, <1>8, <1>9, Steps

\* What a child may be asked.
LEMMA AskedOfChild ==
  ASSUME IInv, phase = "running"
  PROVE  /\ pc = "await" /\ Running /\ up = <<>> /\ down = <<>>
         /\ asked = Asked /\ op \in Operations /\ used
         /\ asked.kind \in {"register", "evaluate", "compile", "link", "run",
                            "take", "finish"}
         /\ asked.kind = "register" => asked.arg \in Bindings
<1>1. pc \notin {"idle", "take", "write"}
  BY DEF IInv, Alive, AtRest
<1>2. pc \notin {"native", "return"}
  BY DEF IInv, Alive, Serving, Working
<1>3. pc # "spawn"
  BY DEF IInv, Stages
<1>4. pc = "await"
  BY <1>1, <1>2, <1>3 DEF IInv, Types
<1>5. Running
  BY <1>4 DEF IInv, Alive, Sent, Calling, Returning, Replied, Working
<1>6. up = <<>> /\ down = <<>> /\ asked = Asked
  BY <1>5 DEF Running, Working
<1>7. Types /\ Stages /\ op \in Operations /\ used
  BY <1>4 DEF IInv, Stages, Types, Memory
<1> QED BY <1>4, <1>5, <1>6, <1>7, AskedKinds

LEMMA ChildTypesKept == IInv /\ [Next]_vars => ChildTypes'
<1> SUFFICES ASSUME IInv, [Next]_vars PROVE ChildTypes'
  OBVIOUS
<1>0. ChildTypes
  BY DEF IInv
<1>1. CASE Begin \/ SpawnFails \/ ModulesFull \/ TakeLive \/ Write \/ WriteReturn
  BY <1>0, <1>1 DEF ChildTypes, Begin, SpawnFails, ModulesFull, TakeLive, Write,
     WriteReturn
<1>2. CASE Spawn
  BY <1>2, LimitsAssumption DEF ChildTypes, Spawn, Fresh
<1>3. CASE Rejoin \/ Register \/ Refused \/ Answered
  BY <1>0, <1>3 DEF ChildTypes, Rejoin, Register, Refused, Answered
<1>4. CASE CallServed \/ CallRefused \/ NativeDone \/ NativeThread
  BY <1>0, <1>4 DEF ChildTypes, CallServed, CallRefused, NativeDone, NativeThread
<1>5. CASE GivesUp
  BY <1>5, Discards, LimitsAssumption DEF ChildTypes, Discard, Fresh
<1>6. CASE Deadline \/ MonitorDecides \/ MonitorKills \/ ChildDies
  BY <1>0, <1>6 DEF ChildTypes, Deadline, MonitorDecides, MonitorKills, ChildDies, Dies
<1>7. CASE ChildReads
  BY <1>0, <1>7 DEF ChildTypes, ChildReads, Unready, Starts
<1>8. CASE ChildAnswers
  <2>1. asked.kind = "register" => asked.arg \in Bindings
    BY <1>8, AskedOfChild DEF ChildAnswers
  <2>2. CASE Fails \/ Completes
    BY <1>0, <1>8, <2>2 DEF ChildTypes, ChildAnswers, Fails, Completes
  <2>3. CASE Installs
    BY <1>0, <1>8, <2>1, <2>3 DEF ChildTypes, ChildAnswers, Installs
  <2>4. CASE Compiles
    BY <1>0, <1>8, <2>4, LimitsAssumption DEF ChildTypes, ChildAnswers, Compiles
  <2>5. CASE Delivers
    BY <1>0, <1>8, <2>5 DEF ChildTypes, ChildAnswers, Delivers
  <2> QED BY <1>8, <2>2, <2>3, <2>4, <2>5 DEF ChildAnswers
<1>9. CASE ChildImports
  BY <1>0, <1>9, LimitsAssumption DEF ChildTypes, ChildImports
<1>10. CASE ChildCalls \/ ChildReturns
  BY <1>0, <1>10 DEF ChildTypes, ChildCalls, ChildReturns
<1>11. CASE UNCHANGED vars
  BY <1>0, <1>11 DEF ChildTypes, vars
<1> QED BY <1>1, <1>2, <1>3, <1>4, <1>5, <1>6, <1>7, <1>8, <1>9, <1>10, <1>11, Steps

\* A thread that changes its state still holds one slot.
LEMMA SetThreadSlots ==
  ASSUME Slots, NEW t \in threads, NEW s \in {"inside", "leaving"}, SetThread(t, s)
  PROVE  Slots'
<1> DEFINE u == [id |-> t.id, fn |-> t.fn, st |-> s]
<1>1. u = [id |-> u.id, fn |-> u.fn, st |-> u.st] /\ u.st \in {"started", "inside", "leaving"}
  OBVIOUS
<1>2. threads' = (threads \ {t}) \cup {u}
  BY DEF SetThread
<1>3. /\ IsFiniteSet(threads \ {t})
      /\ Cardinality(threads \ {t}) = Cardinality(threads) - 1
  BY FS_RemoveElement DEF Slots
<1>4. /\ IsFiniteSet(threads')
      /\ Cardinality(threads') <= Cardinality(threads \ {t}) + 1
      /\ Cardinality(threads') \in Nat
  <2> HIDE DEF u
  <2> QED BY <1>2, <1>3, OneMore
<1>5. Cardinality(threads) \in Nat
  BY FS_CardinalityType DEF Slots
<1>6. \A v \in threads' : /\ v = [id |-> v.id, fn |-> v.fn, st |-> v.st]
                          /\ v.st \in {"started", "inside", "leaving"}
  BY <1>1, <1>2 DEF Slots
<1>7. Cardinality(threads') <= MaxThreads
  BY <1>3, <1>4, <1>5, LimitsAssumption DEF Slots
<1> QED BY <1>4, <1>6, <1>7 DEF Slots

LEMMA SlotsKept == IInv /\ [Next]_vars => Slots'
<1> SUFFICES ASSUME IInv, [Next]_vars PROVE Slots'
  OBVIOUS
<1>0. Slots
  BY DEF IInv
<1>1. CASE CallServed
  <2> DEFINE t == [id |-> FreeId, fn |-> Answer.body, st |-> "started"]
  <2>1. threads' = threads \cup {t} /\ Cardinality(threads) < MaxThreads
    BY <1>1 DEF CallServed, SlotFree
  <2>2. t = [id |-> t.id, fn |-> t.fn, st |-> t.st] /\ t.st \in {"started", "inside", "leaving"}
    OBVIOUS
  <2>3. /\ IsFiniteSet(threads') /\ Cardinality(threads) \in Nat
        /\ Cardinality(threads') <= Cardinality(threads) + 1
        /\ Cardinality(threads') \in Nat
    <3> HIDE DEF t
    <3> QED BY <1>0, <2>1, OneMore DEF Slots
  <2>4. Cardinality(threads') <= MaxThreads
    BY <2>1, <2>3, LimitsAssumption
  <2>5. \A v \in threads' : /\ v = [id |-> v.id, fn |-> v.fn, st |-> v.st]
                            /\ v.st \in {"started", "inside", "leaving"}
    BY <1>0, <2>1, <2>2 DEF Slots
  <2> QED BY <2>3, <2>4, <2>5 DEF Slots
<1>2. CASE NativeThread
  <2>1. PICK t \in threads : ThreadEnters(t) \/ ThreadReplies(t) \/ ThreadEnds(t)
    BY <1>2 DEF NativeThread
  <2>2. CASE ThreadEnters(t) \/ ThreadReplies(t)
    BY <1>0, <2>2, SetThreadSlots DEF ThreadEnters, ThreadReplies
  <2>3. CASE ThreadEnds(t)
    <3>1. threads' = threads \ {t}
      BY <2>3 DEF ThreadEnds
    <3>2. /\ IsFiniteSet(threads') /\ Cardinality(threads) \in Nat
          /\ Cardinality(threads') = Cardinality(threads) - 1
      BY <1>0, <3>1, FS_RemoveElement, FS_CardinalityType DEF Slots
    <3> QED BY <1>0, <3>1, <3>2, LimitsAssumption DEF Slots
  <2> QED BY <2>1, <2>2, <2>3
<1>3. CASE UNCHANGED threads
  BY <1>0, <1>3 DEF Slots
<1>4. CallServed \/ NativeThread \/ UNCHANGED threads
  <2>1. GivesUp => UNCHANGED threads
    BY Discards DEF Discard
  <2> QED BY <2>1, Steps DEF Begin, SpawnFails, Spawn, ModulesFull, TakeLive, Write,
      WriteReturn, Rejoin, Register, Refused, Answered, CallRefused, NativeDone,
      Deadline, MonitorDecides, MonitorKills, ChildReads, ChildAnswers, ChildImports,
      ChildCalls, ChildReturns, ChildDies, vars
<1> QED BY <1>1, <1>2, <1>3, <1>4

-----------------------------------------------------------------------------
(* Functions, imports and stages.                                          *)

LEMMA FunctionsKept == IInv /\ [Next]_vars => Functions'
<1> SUFFICES ASSUME IInv, [Next]_vars PROVE Functions'
  OBVIOUS
<1>0. Functions /\ Types /\ Stages
  BY DEF IInv
<1>1. CASE Register
  <2>1. op.arg \in Names /\ Members[op.arg] \in Nat
    BY <1>0, <1>1, AskedKinds, MembersAssumption DEF Register, Receiving, Names
  <2> DEFINE new == [k \in 1 .. Members[op.arg] |-> <<op.arg, k>>]
  <2>2. new \in Seq(Names \X Nat) /\ Len(new) = Members[op.arg]
    BY <2>1 DEF Names
  <2>3. natives' = natives \o new /\ bindings' = Append(bindings, NewBinding)
    BY <1>1 DEF Register
  <2>4. /\ Len(natives') = Len(natives) + Members[op.arg]
        /\ \A n \in 1 .. Len(natives) : natives'[n] = natives[n]
        /\ \A k \in 1 .. Members[op.arg] : natives'[Len(natives) + k] = <<op.arg, k>>
    <3>1. /\ Len(natives') = Len(natives) + Len(new)
          /\ \A n \in 1 .. Len(natives') :
               natives'[n] = IF n <= Len(natives) THEN natives[n] ELSE new[n - Len(natives)]
      <4> HIDE DEF new
      <4>1. natives \in Seq(Names \X Nat)
        BY <1>0 DEF Types
      <4>2. /\ Len(natives \o new) = Len(natives) + Len(new)
            /\ \A n \in 1 .. Len(natives) + Len(new) :
                 (natives \o new)[n] =
                    IF n <= Len(natives) THEN natives[n] ELSE new[n - Len(natives)]
        BY <2>2, <4>1, ConcatProperties
      <4> QED BY <2>3, <4>2
    <3>2. Len(natives) \in Nat
      BY <1>0 DEF Types
    <3>3. \A k \in 1 .. Members[op.arg] : natives'[Len(natives) + k] = new[k]
      <4> SUFFICES ASSUME NEW k \in 1 .. Members[op.arg]
                   PROVE  natives'[Len(natives) + k] = new[k]
        OBVIOUS
      <4> HIDE DEF new
      <4>1. Len(natives) + k \in 1 .. Len(natives') /\ ~ (Len(natives) + k <= Len(natives))
        BY <2>1, <2>2, <3>1, <3>2
      <4>2. (Len(natives) + k) - Len(natives) = k
        BY <2>1, <3>2
      <4> QED BY <3>1, <4>1, <4>2
    <3>4. \A n \in 1 .. Len(natives) : natives'[n] = natives[n]
      <4> SUFFICES ASSUME NEW n \in 1 .. Len(natives) PROVE natives'[n] = natives[n]
        OBVIOUS
      <4> HIDE DEF new
      <4>1. n \in 1 .. Len(natives') /\ n <= Len(natives)
        BY <2>1, <2>2, <3>1, <3>2
      <4> QED BY <3>1, <4>1
    <3>5. \A k \in 1 .. Members[op.arg] : new[k] = <<op.arg, k>>
      OBVIOUS
    <3> HIDE DEF new
    <3> QED BY <2>2, <3>1, <3>3, <3>4, <3>5
  <2>5. NewBinding \in Bindings
    BY <1>0, <2>1 DEF NewBinding, Bindings, Types
  <2>6. /\ Len(bindings') = Len(bindings) + 1 /\ bindings' \in Seq(Bindings)
        /\ \A i \in 1 .. Len(bindings) : bindings'[i] = bindings[i]
        /\ bindings'[Len(bindings) + 1] = NewBinding
    BY <1>0, <2>3, <2>5, AppendProperties DEF Types
  <2> SUFFICES ASSUME NEW i \in DOMAIN bindings', NEW k \in 1 .. Members[bindings'[i].name]
               PROVE  /\ bindings'[i].first + k <= Len(natives')
                      /\ natives'[bindings'[i].first + k] = <<bindings'[i].name, k>>
    BY DEF Functions
  <2>7. DOMAIN bindings = 1 .. Len(bindings) /\ Len(bindings) \in Nat /\ Len(natives) \in Nat
    BY <1>0 DEF Types
  <2>8. i \in 1 .. Len(bindings) + 1
    BY <2>6
  <2>9. CASE i = Len(bindings) + 1
    <3>1. bindings'[i].first = Len(natives) /\ bindings'[i].name = op.arg
      BY <2>6, <2>9 DEF NewBinding
    <3>2. k \in 1 .. Members[op.arg]
      BY <3>1
    <3> QED BY <2>1, <2>4, <2>7, <3>1, <3>2
  <2>10. CASE i \in 1 .. Len(bindings)
    <3>1. bindings'[i] = bindings[i] /\ bindings[i] \in Bindings
      BY <1>0, <2>6, <2>10 DEF Types
    <3>2. bindings[i].first \in Nat /\ bindings[i].name \in Names
      BY <3>1 DEF Bindings
    <3>3. Members[bindings[i].name] \in Nat
      BY <3>2, MembersAssumption DEF Names
    <3>4. /\ bindings[i].first + k <= Len(natives)
          /\ natives[bindings[i].first + k] = <<bindings[i].name, k>>
      BY <1>0, <2>7, <2>10, <3>1 DEF Functions
    <3>5. bindings[i].first + k \in 1 .. Len(natives)
      BY <2>7, <3>1, <3>2, <3>3, <3>4
    <3>6. natives'[bindings[i].first + k] = natives[bindings[i].first + k]
      BY <2>4, <3>5
    <3>7. bindings[i].first + k <= Len(natives')
      BY <2>1, <2>4, <2>7, <3>5
    <3> QED BY <3>1, <3>4, <3>6, <3>7
  <2> QED BY <2>7, <2>8, <2>9, <2>10
<1>2. CASE UNCHANGED recordVars
  BY <1>0, <1>2 DEF Functions
<1>3. Register \/ UNCHANGED recordVars
  <2>1. GivesUp => UNCHANGED recordVars
    BY Discards DEF Discard
  <2> QED BY <2>1, Steps DEF Begin, SpawnFails, Spawn, ModulesFull, TakeLive, Write,
      WriteReturn, Rejoin, Refused, Answered, CallServed, CallRefused, NativeDone,
      Deadline, NativeThread, MonitorDecides, MonitorKills, ChildReads, ChildAnswers,
      ChildImports, ChildCalls, ChildReturns, ChildDies, vars
<1> QED BY <1>1, <1>2, <1>3

\* The sets of imports are finite.
LEMMA ImportsFinite ==
  ASSUME Types, ChildTypes
  PROVE  IsFiniteSet(pending) /\ IsFiniteSet(queued) /\ IsFiniteSet(awaiting)
         /\ IsFiniteSet(queued \cup awaiting)
<1>1. IsFiniteSet(1 .. MaxImports) /\ IsFiniteSet(1 .. next - 1)
  BY FS_Interval, LimitsAssumption DEF ChildTypes
<1>2. IsFiniteSet(pending)
  BY <1>1, FS_Subset DEF Types
<1>3. IsFiniteSet(queued) /\ IsFiniteSet(awaiting) /\ IsFiniteSet(queued \cup awaiting)
  BY <1>1, FS_Subset DEF ChildTypes
<1> QED BY <1>2, <1>3

\* Of an acceptable answer the tag tells what was asked.
LEMMA AnswerKinds ==
  ASSUME Types, Stages, pc # "idle", NEW a, Acceptable(a)
  PROVE  /\ a.tag = "moduleCompiled" =>
              /\ Asked.kind = "compile"
              /\ a.body \notin known /\ Cardinality(known) < MaxModules
         /\ a.tag = "dynamicImports" =>
              /\ Asked.kind = "take"
              /\ a.body \cap pending = {}
              /\ Cardinality(pending) + Cardinality(a.body) <= MaxPending
         /\ a.tag = "call" => Asked.kind \in Runs /\ ~ Joining
<1>1. Asked.kind \in {"register", "evaluate", "compile", "link", "run", "take", "finish"}
  BY AskedKinds
<1>2. Joining => Asked.kind = "register"
  BY AskedKinds
<1> QED BY <1>1, <1>2, Tags DEF Acceptable, Runs

LEMMA ImportsKept == IInv /\ [Next]_vars => Imports'
<1> SUFFICES ASSUME IInv, [Next]_vars PROVE Imports'
  OBVIOUS
<1>0. IInv /\ Types /\ ChildTypes /\ Imports /\ Stages
  BY DEF IInv
<1>f. IsFiniteSet(pending) /\ IsFiniteSet(queued \cup awaiting)
  BY <1>0, ImportsFinite
<1>1. CASE Spawn
  BY <1>0, <1>1, FreshTypes DEF Spawn, Stages
<1>2. CASE GivesUp
  BY <1>2, Discards, FreshTypes DEF Discard
<1>3. CASE Answered
  <2>1. Sound(Answer) /\ pc = "await"
    BY <1>0, <1>3, Received, AskedKinds DEF Answered, Final, Torn, Frame, Receiving, OkTag
  <2>2. Cardinality(pending') <= MaxPending
    <3>1. CASE Answer.tag = "dynamicImports"
      <4>1. Answer.body \subseteq 1 .. MaxImports
        BY <2>1, <3>1 DEF Sound
      <4>2. IsFiniteSet(Answer.body)
        <5>1. IsFiniteSet(1 .. MaxImports)
          BY FS_Interval, LimitsAssumption
        <5> QED BY <4>1, <5>1, FS_Subset
      <4>3. /\ Answer.body \cap pending = {}
            /\ Cardinality(pending) + Cardinality(Answer.body) <= MaxPending
        BY <1>0, <2>1, <3>1, AnswerKinds DEF Sound
      <4>4. Cardinality(pending \cup Answer.body) =
              Cardinality(pending) + Cardinality(Answer.body) - Cardinality(pending \cap Answer.body)
        BY <1>f, <4>2, FS_Union
      <4>5. /\ Cardinality(pending) \in Nat /\ Cardinality(Answer.body) \in Nat
            /\ Cardinality(pending \cap Answer.body) = 0
        BY <1>f, <4>2, <4>3, FS_CardinalityType, FS_EmptySet
      <4>6. pending' = pending \cup Answer.body
        BY <1>3, <3>1 DEF Answered
      <4>7. Cardinality(pending') = Cardinality(pending) + Cardinality(Answer.body)
        BY <4>4, <4>5, <4>6
      <4> QED BY <4>3, <4>7
    <3>2. CASE Answer.tag # "dynamicImports"
      <4>1. pending' \subseteq pending
        BY <1>3, <3>2 DEF Answered
      <4>2. Cardinality(pending') <= Cardinality(pending)
        BY <1>f, <4>1, FS_Subset
      <4>3. Cardinality(pending) \in Nat /\ Cardinality(pending') \in Nat
        BY <1>f, <4>1, FS_Subset, FS_CardinalityType
      <4> QED BY <1>0, <4>2, <4>3, LimitsAssumption DEF Imports
    <3> QED BY <3>1, <3>2
  <2> QED BY <1>0, <1>3, <2>2 DEF Imports, Answered
<1>4. CASE ChildReads
  <2>1. CASE Unready
    BY <1>0, <1>4, <2>1 DEF Imports, ChildReads, Unready
  <2>2. CASE Starts
    <3>1. queued' \cup awaiting' \subseteq queued \cup awaiting /\ queued' = queued
          /\ awaiting' \subseteq awaiting /\ pending' = pending
      BY <1>4, <2>2 DEF ChildReads, Starts
    <3>2. Cardinality(queued' \cup awaiting') <= Cardinality(queued \cup awaiting)
      BY <1>f, <3>1, FS_Subset
    <3>3. /\ Cardinality(queued \cup awaiting) \in Nat
          /\ Cardinality(queued' \cup awaiting') \in Nat
      BY <1>f, <3>1, FS_Subset, FS_CardinalityType
    <3>4. Cardinality(queued' \cup awaiting') <= MaxPending
      BY <1>0, <3>2, <3>3, LimitsAssumption DEF Imports
    <3> QED BY <1>0, <3>1, <3>4 DEF Imports
  <2> QED BY <1>4, <2>1, <2>2 DEF ChildReads
<1>5. CASE ChildAnswers
  <2>1. CASE Delivers
    <3>1. queued' \cup awaiting' = queued \cup awaiting /\ queued' = {} /\ pending' = pending
      BY <1>5, <2>1 DEF ChildAnswers, Delivers
    <3> QED BY <1>0, <3>1 DEF Imports
  <2>2. CASE ~ Delivers
    <3>1. UNCHANGED <<queued, awaiting, pending>>
      BY <1>5, <2>2 DEF ChildAnswers, Fails, Installs, Compiles, Completes
    <3> QED BY <1>0, <3>1 DEF Imports
  <2> QED BY <2>1, <2>2
<1>6. CASE ChildImports
  <2>1. queued' = queued \cup {next} /\ awaiting' = awaiting /\ pending' = pending
        /\ Cardinality(queued \cup awaiting) < MaxPending
    BY <1>6 DEF ChildImports, Admits
  <2>2. queued' \cup awaiting' = (queued \cup awaiting) \cup {next}
    BY <2>1
  <2>3. /\ Cardinality(queued' \cup awaiting') <= Cardinality(queued \cup awaiting) + 1
        /\ Cardinality(queued \cup awaiting) \in Nat
        /\ Cardinality(queued' \cup awaiting') \in Nat
    BY <1>f, <2>2, OneMore
  <2>4. next \notin awaiting
    BY <1>0 DEF ChildTypes
  <2>5. Cardinality(queued' \cup awaiting') <= MaxPending
    BY <2>1, <2>3, LimitsAssumption
  <2>6. queued' \cap awaiting' = {}
    BY <1>0, <2>1, <2>4 DEF Imports
  <2> QED BY <1>0, <2>1, <2>5, <2>6 DEF Imports
<1>7. CASE UNCHANGED <<queued, awaiting, pending>>
  BY <1>0, <1>7 DEF Imports
<1>8. Spawn \/ GivesUp \/ Answered \/ ChildReads \/ ChildAnswers \/ ChildImports
        \/ UNCHANGED <<queued, awaiting, pending>>
  BY Steps DEF Begin, SpawnFails, ModulesFull, TakeLive, Write, WriteReturn, Rejoin,
     Register, Refused, CallServed, CallRefused, NativeDone, Deadline, NativeThread,
     MonitorDecides, MonitorKills, Dies, ChildCalls, ChildReturns, ChildDies, vars
<1> QED BY <1>1, <1>2, <1>3, <1>4, <1>5, <1>6, <1>7, <1>8

\* The operation, its worker and the registered names keep step.
LEMMA StagesKept == IInv /\ [Next]_vars => Stages'
<1> SUFFICES ASSUME IInv, [Next]_vars PROVE Stages'
  OBVIOUS
<1>0. IInv /\ Types /\ Stages
  BY DEF IInv
<1> USE DEF Stages
<1>1. CASE Begin
  <2>1. op' # Nothing /\ joined' = joined /\ bindings' = bindings /\ worker' = worker
        /\ pc' \in {"take", "spawn"} /\ (pc' = "take" <=> worker)
    BY <1>0, <1>1, RequestTypes DEF Begin
  <2> QED BY <1>0, <1>1, <2>1 DEF Begin
<1>2. CASE SpawnFails
  BY <1>0, <1>2 DEF SpawnFails, EndOperation
<1>3. CASE Spawn
  BY <1>0, <1>3 DEF Spawn, Fresh
<1>4. CASE ModulesFull \/ TakeLive
  BY <1>0, <1>4 DEF ModulesFull, TakeLive, EndOperation
<1>5. CASE Write \/ WriteReturn
  BY <1>0, <1>5 DEF Write, WriteReturn
<1>6. CASE Rejoin
  <2>1. /\ op' = op /\ bindings' = bindings /\ worker' = worker /\ pc = "await"
        /\ joined' = joined + 1 /\ joined < Len(bindings)
        /\ pc' = IF joined + 1 < Len(bindings) THEN "write" ELSE "take"
    BY <1>6 DEF Rejoin, Joining, Receiving
  <2>2. pc' = "take" => joined' = Len(bindings')
    BY <1>0, <2>1 DEF Types
  <2> QED BY <1>0, <2>1, <2>2
<1>7. CASE Register
  <2>1. /\ op' = Nothing /\ pc' = "idle" /\ worker' = worker /\ worker
        /\ joined' = joined + 1 /\ ~ (joined < Len(bindings))
        /\ bindings' = Append(bindings, NewBinding)
    BY <1>0, <1>7, Received DEF Register, KeepWorker, EndOperation, Joining
  <2>2. op.arg \in Names
    BY <1>0, <1>7, AskedKinds DEF Register, Receiving
  <2>3. NewBinding \in Bindings
    BY <1>0, <2>2 DEF NewBinding, Bindings, Types
  <2>4. Len(bindings') = Len(bindings) + 1
    BY <1>0, <2>1, <2>3, AppendProperties DEF Types
  <2>5. joined' = Len(bindings')
    BY <1>0, <2>1, <2>4 DEF Types
  <2> QED BY <1>0, <2>1, <2>5
<1>8. CASE Refused \/ Answered
  <2>1. /\ op' = Nothing /\ pc' = "idle" /\ worker' = worker /\ worker
        /\ joined' = joined /\ bindings' = bindings /\ ~ (joined < Len(bindings))
    BY <1>0, <1>8, Received DEF Refused, Answered, KeepWorker, EndOperation, Joining
  <2>2. joined' = Len(bindings')
    BY <1>0, <2>1 DEF Types
  <2> QED BY <1>0, <2>1, <2>2
<1>9. CASE CallServed \/ CallRefused
  <2>1. /\ op' = op /\ joined' = joined /\ bindings' = bindings /\ natives' = natives
        /\ worker' = worker /\ pc' \in {"native", "return"} /\ pc = "await"
        /\ Acceptable(Answer) /\ Answer.tag = "call" /\ ~ Joining
    BY <1>9 DEF CallServed, CallRefused, Called, Receiving
  <2>2. Asked.kind \in Runs /\ Asked.kind = op.kind
    BY <1>0, <2>1, AnswerKinds, AskedKinds
  <2>3. Joining' = Joining
    BY <2>1, AskedStays
  <2> QED BY <1>0, <2>1, <2>2, <2>3
<1>10. CASE NativeDone
  <2>1. Joining' = Joining
    BY <1>10, AskedStays DEF NativeDone
  <2> QED BY <1>0, <1>10, <2>1 DEF NativeDone
<1>11. CASE GivesUp
  BY <1>11, Discards DEF Discard, EndOperation, Fresh
<1>12. CASE Deadline \/ NativeThread \/ MonitorDecides
  BY <1>0, <1>12 DEF Deadline, NativeThread, MonitorDecides, Joining
<1>13. CASE MonitorKills \/ ChildDies
  BY <1>0, <1>13 DEF MonitorKills, ChildDies, Dies, Joining
<1>14. CASE ChildReads \/ ChildAnswers \/ ChildImports \/ ChildCalls \/ ChildReturns
  BY <1>0, <1>14 DEF ChildReads, ChildAnswers, ChildImports, ChildCalls, ChildReturns,
     Joining
<1>15. CASE UNCHANGED vars
  BY <1>0, <1>15 DEF vars, Joining
<1> QED BY <1>1, <1>2, <1>3, <1>4, <1>5, <1>6, <1>7, <1>8, <1>9, <1>10, <1>11,
           <1>12, <1>13, <1>14, <1>15, Steps

\* Whatever the caller relies on was done by the worker in use.
LEMMA MemoryKept == IInv /\ [Next]_vars => Memory'
<1> SUFFICES ASSUME IInv, [Next]_vars PROVE Memory'
  OBVIOUS
<1>0. IInv /\ Memory /\ Stages
  BY DEF IInv
<1> USE DEF Memory
<1>1. CASE Begin \/ SpawnFails \/ ModulesFull \/ TakeLive \/ Write \/ WriteReturn
  BY <1>0, <1>1 DEF Begin, SpawnFails, ModulesFull, TakeLive, Write, WriteReturn
<1>2. CASE Spawn
  BY <1>0, <1>2 DEF Spawn, Fresh, Stages
<1>3. CASE Rejoin \/ Register \/ Refused \/ Answered
  BY <1>0, <1>3, Received DEF Rejoin, Register, Refused, Answered, KeepWorker
<1>4. CASE CallServed \/ CallRefused
  BY <1>0, <1>4, Received DEF CallServed, CallRefused, Called
<1>5. CASE NativeDone \/ Deadline \/ NativeThread \/ MonitorDecides
  BY <1>0, <1>5 DEF NativeDone, Deadline, NativeThread, MonitorDecides
<1>6. CASE GivesUp
  BY <1>6, Discards DEF Discard, Fresh
<1>7. CASE MonitorKills \/ ChildDies
  BY <1>0, <1>7 DEF MonitorKills, ChildDies, Dies
<1>8. CASE ChildReads
  BY <1>0, <1>8 DEF ChildReads, Unready, Starts
<1>9. CASE ChildAnswers \/ ChildImports \/ ChildCalls \/ ChildReturns
  BY <1>0, <1>9 DEF ChildAnswers, ChildImports, ChildCalls, ChildReturns
<1>10. CASE UNCHANGED vars
  BY <1>0, <1>10 DEF vars
<1> QED BY <1>1, <1>2, <1>3, <1>4, <1>5, <1>6, <1>7, <1>8, <1>9, <1>10, Steps

-----------------------------------------------------------------------------
(* The pipes.                                                              *)

\* A living child between requests, or one that reads a request.
LEMMA ReadyChild ==
  ASSUME IInv, phase = "ready"
  PROVE  /\ worker
         /\ down # <<>> => pc = "await" /\ Sent
         /\ pc \in {"idle", "take", "write"} => AtRest
         /\ pc \notin {"native", "return", "spawn"}
<1>1. worker /\ pc # "spawn"
  BY DEF IInv, Stages
<1>2. pc \notin {"native", "return"}
  BY DEF IInv, Alive, Serving, Working
<1>3. pc \in {"idle", "take", "write"} => AtRest
  BY DEF IInv, Alive
<1>4. ASSUME down # <<>> PROVE pc = "await" /\ Sent
  <2>1. pc = "await"
    BY <1>1, <1>2, <1>3, <1>4 DEF AtRest, IInv, Types
  <2>2. Sent
    BY <1>4, <2>1 DEF IInv, Alive, Running, Calling, Returning, Replied, Working
  <2> QED BY <2>1, <2>2
<1> QED BY <1>1, <1>2, <1>3, <1>4

\* A child in a call is served, or has its answer on the way.
LEMMA CallingChild ==
  ASSUME IInv, phase = "calling"
  PROVE  /\ \/ pc = "await" /\ (Calling \/ Returning)
            \/ pc \in {"native", "return"} /\ Serving
         /\ down # <<>> => pc = "await" /\ Returning
<1>1. pc \notin {"idle", "take", "write", "spawn"}
  BY DEF IInv, Alive, AtRest, Stages
<1>2. pc = "await" => Calling \/ Returning
  BY DEF IInv, Alive, Sent, Running, Replied, Working
<1>3. pc \in {"native", "return"} => Serving
  BY DEF IInv, Alive
<1>4. pc \in {"await", "native", "return"}
  BY <1>1 DEF IInv, Types
<1> QED BY <1>2, <1>3, <1>4 DEF Calling, Serving

\* What the operation does not touch stays sound.
LEMMA AnswerStays ==
  ASSUME UNCHANGED <<op, joined, bindings, natives, known, pending, up>>
  PROVE  Answer' = Answer /\ (Sound(Answer)' <=> Sound(Answer))
<1>1. Answer' = Answer
  BY DEF Answer
<1>2. \A a : Sound(a)' <=> Sound(a)
  BY AskedStays
<1> QED BY <1>1, <1>2

LEMMA DiesDead ==
  ASSUME IInv, Dies, UNCHANGED <<pc, op, joined, bindings, natives, known, pending>>
  PROVE  Dead'
<1>1. CASE phase = "gone"
  <2>1. UNCHANGED up
    BY <1>1 DEF Dies
  <2>2. Dead
    BY DEF IInv
  <2> QED BY <1>1, <2>1, <2>2, AnswerStays DEF Dead, Torn
<1>2. CASE phase = "ready"
  <2>1. UNCHANGED up
    BY <1>2 DEF Dies
  <2>2. up = <<>> \/ (pc = "await" /\ up = <<Answer>> /\ Sound(Answer))
    <3>1. pc \in {"idle", "take", "write", "await"}
      BY <1>2, ReadyChild DEF IInv, Types
    <3>2. pc \in {"idle", "take", "write"} => up = <<>>
      BY <1>2, ReadyChild DEF AtRest
    <3>3. pc = "await" => up = <<>> \/ (up = <<Answer>> /\ Sound(Answer))
      BY <1>2 DEF IInv, Alive, Sent, Running, Calling, Returning, Replied
    <3> QED BY <3>1, <3>2, <3>3
  <2> QED BY <2>1, <2>2, AnswerStays DEF Dead
<1>3. CASE phase \in {"running", "calling"}
  <2>1. up = <<>> \/ (pc = "await" /\ up = <<Answer>> /\ Sound(Answer))
    BY <1>3, AskedOfChild, CallingChild DEF Calling, Returning, Serving
  <2>2. up' = up \/ up' = Append(up, Torn)
    BY <1>3 DEF Dies, Torn
  <2>3. CASE up = <<>>
    <3>1. up' \in {<<>>, <<Torn>>}
      BY <2>2, <2>3, Pipes
    <3> QED BY <3>1 DEF Dead, Torn, Frame
  <2>4. CASE pc = "await" /\ up = <<Answer>> /\ Sound(Answer)
    <3>1. PICK a : a = Answer
      OBVIOUS
    <3>2. up = <<a>> /\ Sound(a)
      BY <2>4, <3>1
    <3>3. up' \in {<<a>>, <<a, Torn>>}
      BY <2>2, <3>2, Pipes
    <3>4. Answer' = a
      BY <3>3, Pipes DEF Answer
    <3>5. \A b : Sound(b)' <=> Sound(b)
      BY AskedStays
    <3>6. Sound(Answer)'
      BY <3>2, <3>4, <3>5
    <3> QED BY <2>4, <3>3, <3>4, <3>6 DEF Dead, Torn, Frame
  <2> QED BY <2>1, <2>3, <2>4
<1> QED BY <1>1, <1>2, <1>3 DEF IInv, ChildTypes

\* A dead child leaves nothing that could be mistaken for an answer.
LEMMA DeadKept == IInv /\ [Next]_vars => Dead'
<1> SUFFICES ASSUME IInv, [Next]_vars PROVE Dead'
  OBVIOUS
<1>0. IInv /\ Dead /\ Stages
  BY DEF IInv
<1>t. Torn' = Torn
  BY DEF Torn, Frame
<1>1. CASE Begin \/ SpawnFails \/ ModulesFull \/ TakeLive \/ NativeDone
  <2>1. pc # "await" /\ UNCHANGED <<up, phase>>
    BY <1>1 DEF Begin, SpawnFails, ModulesFull, TakeLive, NativeDone
  <2> QED BY <1>0, <1>t, <2>1 DEF Dead
<1>2. CASE Spawn \/ Write \/ WriteReturn
  BY <1>2 DEF Dead, Spawn, Fresh, Write, WriteReturn
<1>3. CASE Rejoin \/ Register \/ Refused \/ Answered \/ CallServed \/ CallRefused
  <2>1. Receiving /\ up' = Tail(up) /\ phase' = phase
    BY <1>3 DEF Rejoin, Register, Refused, Answered, CallServed, CallRefused, Called
  <2> QED BY <1>0, <1>t, <2>1, Received DEF Dead
<1>4. CASE GivesUp
  BY <1>4, Discards DEF Dead, Discard
<1>5. CASE Deadline \/ NativeThread \/ MonitorDecides \/ UNCHANGED vars
  <2>1. UNCHANGED <<pc, op, joined, bindings, natives, known, pending, up, phase>>
    BY <1>5 DEF Deadline, NativeThread, MonitorDecides, vars
  <2> QED BY <1>0, <1>t, <2>1, AnswerStays DEF Dead
<1>6. CASE MonitorKills \/ ChildDies
  BY <1>0, <1>6, DiesDead DEF MonitorKills, ChildDies
<1>7. CASE ChildReads \/ ChildAnswers \/ ChildImports \/ ChildCalls
  BY <1>7 DEF Dead, ChildReads, Unready, Starts, ChildAnswers, ChildImports, ChildCalls
<1>8. CASE ChildReturns
  <2>1. Returning
    BY <1>0, <1>8, CallingChild DEF ChildReturns
  <2>2. Head(down).kind = "return"
    BY <2>1, Pipes DEF Returning
  <2> QED BY <1>8, <2>2 DEF Dead, ChildReturns
<1> QED BY <1>1, <1>2, <1>3, <1>4, <1>5, <1>6, <1>7, <1>8, Steps

-----------------------------------------------------------------------------
(* Parent and child.                                                       *)

\* The books stay while what they are made of does.
LEMMA SameStays ==
  ASSUME UNCHANGED <<op, joined, bindings, natives, known, pending, installed,
                     modules, awaiting>>
  PROVE  /\ Same(pending)' <=> Same(pending)
         /\ Same(Awaited)' <=> Same(Awaited)
<1>1. Registered' = Registered /\ Awaited' = Awaited
  BY AskedStays
<1> QED BY <1>1 DEF Same

\* An operation that begins, goes on, or is refused before it wrote anything.
LEMMA RestStays ==
  ASSUME AtRest,
         UNCHANGED <<phase, down, up, joined, bindings, known, pending, installed,
                     modules, awaiting>>
  PROVE  AtRest'
<1>1. Registered' = Registered
  BY DEF Registered
<1> QED BY <1>1 DEF AtRest, Same

\* Once a name's registration is answered it is on both records.
LEMMA RejoinAlive ==
  ASSUME IInv, Rejoin, phase # "gone"
  PROVE  AtRest'
<1>1. /\ Receiving /\ Joining /\ Answer.tag = "result" /\ up' = Tail(up)
      /\ joined' = joined + 1 /\ Types /\ Stages
      /\ UNCHANGED <<phase, down, bindings, known, pending, installed, modules, awaiting>>
  BY DEF Rejoin, IInv
<1>2. Replied /\ up' = <<>>
  BY <1>1, Received DEF Calling
<1>3. Asked = [kind |-> "register", arg |-> bindings[joined + 1]]
  BY <1>1 DEF Asked
<1>4. Registered' = Registered \cup {bindings[joined + 1]}
  BY <1>1 DEF Registered, Types
<1>5. Awaited = pending
  BY <1>3 DEF Awaited
<1>6. installed = Registered' /\ known = 1 .. modules /\ awaiting = pending
  BY <1>1, <1>2, <1>3, <1>4, <1>5 DEF Replied, After
<1> QED BY <1>1, <1>2, <1>6 DEF AtRest, Same, Replied

LEMMA RegisterAlive ==
  ASSUME IInv, Register, phase # "gone"
  PROVE  AtRest'
<1>1. /\ Receiving /\ ~ Joining /\ op.kind = "register" /\ Answer.tag = "result"
      /\ up' = Tail(up) /\ joined' = joined + 1
      /\ bindings' = Append(bindings, NewBinding) /\ Types /\ Stages
      /\ UNCHANGED <<phase, down, known, pending, installed, modules, awaiting>>
  BY DEF Register, IInv
<1>2. Replied /\ up' = <<>>
  BY <1>1, Received DEF Calling
<1>3. Asked = [kind |-> "register", arg |-> NewBinding]
  BY <1>1 DEF Asked
<1>4. NewBinding \in Bindings
  BY <1>1, <1>3, AskedKinds DEF Receiving
<1>5. joined = Len(bindings) /\ Len(bindings) \in Nat
  BY <1>1 DEF Joining, Types
<1>6. /\ Len(bindings') = Len(bindings) + 1
      /\ \A i \in 1 .. Len(bindings) : bindings'[i] = bindings[i]
      /\ bindings'[Len(bindings) + 1] = NewBinding
  BY <1>1, <1>4, AppendProperties DEF Types
<1>7. Registered' = Registered \cup {NewBinding}
  <2>1. Registered' = {bindings'[i] : i \in 1 .. joined + 1}
    BY <1>1 DEF Registered
  <2>2. \A i \in 1 .. joined : bindings'[i] = bindings[i]
    BY <1>5, <1>6
  <2>3. bindings'[joined + 1] = NewBinding
    BY <1>5, <1>6
  <2>4. 1 .. joined + 1 = (1 .. joined) \cup {joined + 1}
    BY <1>5
  <2>5. {bindings'[i] : i \in 1 .. joined} = Registered
    BY <2>2 DEF Registered
  <2>6. Registered' = {bindings'[i] : i \in 1 .. joined} \cup {bindings'[joined + 1]}
    BY <2>1, <2>4
  <2> QED BY <2>3, <2>5, <2>6
<1>8. Awaited = pending
  BY <1>3 DEF Awaited
<1>9. installed = Registered' /\ known = 1 .. modules /\ awaiting = pending
  BY <1>1, <1>2, <1>3, <1>7, <1>8 DEF Replied, After
<1> QED BY <1>1, <1>2, <1>9 DEF AtRest, Same, Replied

LEMMA RefusedAlive ==
  ASSUME IInv, Refused, phase # "gone"
  PROVE  AtRest'
<1>1. /\ Receiving /\ ~ Joining /\ op.kind = "register" /\ Answer.tag = "error"
      /\ up' = Tail(up)
      /\ UNCHANGED <<phase, down, joined, bindings, known, pending, installed, modules,
                     awaiting>>
  BY DEF Refused
<1>2. Replied /\ up' = <<>>
  BY <1>1, Received DEF Calling
<1>3. Asked = [kind |-> "register", arg |-> NewBinding]
  BY <1>1 DEF Asked
<1>4. Awaited = pending
  BY <1>3 DEF Awaited
<1>5. installed = Registered /\ known = 1 .. modules /\ awaiting = pending
  BY <1>1, <1>2, <1>4 DEF Replied, After
<1>6. Registered' = Registered
  BY <1>1 DEF Registered
<1> QED BY <1>1, <1>2, <1>5, <1>6 DEF AtRest, Same, Replied

\* The parent enters what the answer says, as the child did.
LEMMA AnsweredAlive ==
  ASSUME IInv, Answered, phase # "gone"
  PROVE  AtRest'
<1>1. /\ Receiving /\ ~ Joining /\ Final(Answer) /\ up' = Tail(up) /\ Types /\ Stages
      /\ UNCHANGED <<phase, down, joined, bindings, installed, modules, awaiting>>
  BY DEF Answered, IInv
<1>2. /\ known' = IF Answer.tag = "moduleCompiled" THEN known \cup {Answer.body} ELSE known
      /\ pending' = IF Answer.tag = "dynamicImports" THEN pending \cup Answer.body
                    ELSE IF op.kind = "finish" /\ ~ Unresolved(Answer)
                      THEN pending \ {op.arg}
                    ELSE pending
  BY DEF Answered
<1>3. pc # "idle" /\ pc = "await"
  BY <1>1 DEF Receiving
<1>4. Asked = op /\ op.kind # "register"
  BY <1>1 DEF Asked, Final
<1>5. Replied /\ up' = <<>>
  <2>1. Answer.tag # "call"
    BY <1>1, <1>3, <1>4, AskedKinds, Tags DEF Final
  <2> QED BY <1>1, <2>1, Received DEF Calling
<1>6. installed = Registered /\ known' = 1 .. modules
  BY <1>2, <1>4, <1>5 DEF Replied, After
<1>7. awaiting = pending'
  BY <1>2, <1>4, <1>5 DEF Replied, After, Awaited
<1>8. Registered' = Registered
  BY <1>1 DEF Registered
<1> QED BY <1>1, <1>5, <1>6, <1>7, <1>8 DEF AtRest, Same, Replied

\* Unknown or not linked: the child answers and the books are as before.
LEMMA UnreadyAlive ==
  ASSUME IInv, ChildReads, Unready
  PROVE  Replied' /\ pc' = "await"
<1>1. /\ phase = "ready" /\ down # <<>> /\ down' = Tail(down)
      /\ up' = Append(up, Frame("error", "unresolved"))
      /\ Head(down).kind \in {"link", "run", "finish"} /\ Types /\ Stages
      /\ UNCHANGED <<pc, op, joined, bindings, natives, known, pending, phase,
                     installed, modules, awaiting>>
  BY DEF ChildReads, Unready, IInv
<1>2. pc = "await" /\ Sent
  BY <1>1, ReadyChild
<1>3. down = <<Asked>> /\ up = <<>>
  BY <1>2 DEF Sent
<1>4. PICK a : a = Frame("error", "unresolved")
  OBVIOUS
<1>5. down' = <<>> /\ up' = <<a>> /\ Answer' = a /\ Asked.kind \in {"link", "run", "finish"}
  BY <1>1, <1>3, <1>4, Pipes DEF Answer
<1>6. a.tag = "error" /\ a.body = "unresolved"
  BY <1>4 DEF Frame
<1>7. Sound(a)
  BY <1>5, <1>6 DEF Sound, Acceptable
<1>8. Sound(Answer)'
  <2>1. \A b : Sound(b)' <=> Sound(b)
    BY <1>1, AskedStays
  <2> QED BY <1>5, <1>7, <2>1
<1>9. After(Answer)'
  <2>1. Asked' = Asked /\ Registered' = Registered
    BY <1>1, AskedStays
  <2>2. installed = Registered /\ known = 1 .. modules /\ awaiting = pending
    BY <1>2 DEF Sent, Same
  <2> QED BY <1>1, <1>5, <1>6, <2>1, <2>2 DEF After, Unresolved
<1>10. Answer'.tag # "call" /\ up' = <<Answer'>>
  BY <1>5, <1>6
<1> QED BY <1>1, <1>2, <1>5, <1>8, <1>9, <1>10 DEF Replied

LEMMA StartsAlive ==
  ASSUME IInv, ChildReads, Starts
  PROVE  Running' /\ pc' = "await"
<1>1. /\ phase = "ready" /\ down # <<>> /\ down' = Tail(down) /\ up' = up
      /\ phase' = "running" /\ asked' = Head(down)
      /\ awaiting' = IF Head(down).kind = "finish" THEN awaiting \ {Head(down).arg}
                                                   ELSE awaiting
      /\ UNCHANGED <<pc, op, joined, bindings, natives, known, pending, installed, modules>>
      /\ Types /\ Stages
  BY DEF ChildReads, Starts, IInv
<1>2. pc = "await" /\ Sent
  BY <1>1, ReadyChild
<1>3. down = <<Asked>> /\ up = <<>> /\ Same(pending)
  BY <1>2 DEF Sent
<1>4. Head(down) = Asked /\ Tail(down) = <<>>
  BY <1>3, Pipes
<1>5. Asked.kind = "finish" => Asked = op
  BY <1>1, <1>2, AskedKinds
<1>6. awaiting' = Awaited
  BY <1>1, <1>3, <1>4, <1>5 DEF Awaited, Same
<1>7. Asked' = Asked /\ Registered' = Registered /\ Awaited' = Awaited
  BY <1>1, AskedStays
<1> QED BY <1>1, <1>2, <1>3, <1>4, <1>6, <1>7 DEF Running, Working, Same

\* A child that answers, and what its answer does to its books.
LEMMA AnswersAlive ==
  ASSUME IInv, ChildAnswers
  PROVE  Replied' /\ pc' = "await"
<1>1. /\ phase = "running" /\ phase' = "ready"
      /\ UNCHANGED <<pc, op, joined, bindings, natives, known, pending, down>>
      /\ Types /\ ChildTypes /\ Imports /\ Stages
  BY DEF ChildAnswers, IInv
<1>2. /\ pc = "await" /\ Running /\ up = <<>> /\ down = <<>> /\ asked = Asked
      /\ op \in Operations
      /\ asked.kind \in {"register", "evaluate", "compile", "link", "run", "take", "finish"}
  BY <1>1, AskedOfChild
<1>3. installed = Registered /\ known = 1 .. modules /\ awaiting = Awaited
  BY <1>2 DEF Running, Working, Same
<1>4. /\ Asked' = Asked /\ Registered' = Registered /\ Awaited' = Awaited
      /\ \A a : Sound(a)' <=> Sound(a)
  BY <1>1, AskedStays
<1> DEFINE Moved(a) ==
      /\ installed' = Registered \cup
           {b \in {Asked.arg} : Asked.kind = "register" /\ a.tag = "result"}
      /\ 1 .. modules' = known \cup {m \in {a.body} : a.tag = "moduleCompiled"}
      /\ awaiting' = IF a.tag = "dynamicImports" THEN pending \cup a.body
                     ELSE IF Unresolved(a) THEN pending ELSE Awaited
<1>5. ASSUME NEW a, up' = Append(up, a), a.tag # "call", Sound(a), Moved(a)
      PROVE  Replied'
  <2>1. up' = <<a>> /\ Answer' = a
    BY <1>2, <1>5, Pipes DEF Answer
  <2>2. Sound(Answer)'
    BY <1>4, <1>5, <2>1
  <2>3. After(Answer)'
    BY <1>1, <1>4, <1>5, <2>1 DEF After, Unresolved
  <2> QED BY <1>1, <1>2, <1>5, <2>1, <2>2, <2>3 DEF Replied
<1> HIDE DEF Moved
<1>6. CASE Fails
  <2>1. PICK a : a = Frame("error", IF asked.kind = "register" THEN "binding"
                                                               ELSE "evaluation")
    OBVIOUS
  <2>2. /\ a.tag = "error" /\ a.body # "unresolved"
        /\ Asked.kind = "register" => a.body = "binding"
    BY <1>2, <2>1 DEF Frame
  <2>3. Sound(a)
    BY <2>2 DEF Sound, Acceptable
  <2>4. up' = Append(up, a) /\ UNCHANGED <<installed, modules, awaiting>>
    BY <1>6, <2>1 DEF Fails
  <2>5. Moved(a)
    BY <1>3, <2>2, <2>4 DEF Moved, Unresolved
  <2> QED BY <1>1, <1>2, <1>5, <2>2, <2>3, <2>4, <2>5
<1>7. CASE Installs
  <2>1. PICK a : a = Frame("result", 0)
    OBVIOUS
  <2>2. a.tag = "result" /\ asked.kind = "register"
    BY <1>7, <2>1 DEF Frame, Installs
  <2>3. Sound(a)
    BY <1>2, <2>2, Tags DEF Sound, Acceptable
  <2>4. /\ up' = Append(up, a) /\ installed' = installed \cup {asked.arg}
        /\ UNCHANGED <<modules, awaiting>>
    BY <1>7, <2>1 DEF Installs
  <2>5. Moved(a)
    BY <1>2, <1>3, <2>2, <2>4 DEF Moved, Unresolved
  <2> QED BY <1>1, <1>2, <1>5, <2>2, <2>3, <2>4, <2>5
<1>8. CASE Compiles
  <2>1. PICK a : a = Frame("moduleCompiled", modules + 1)
    OBVIOUS
  <2>2. /\ a.tag = "moduleCompiled" /\ a.body = modules + 1
        /\ asked.kind = "compile" /\ modules < MaxModules /\ modules \in Nat
    BY <1>1, <1>8, <2>1 DEF Frame, Compiles, ChildTypes
  <2>3. Cardinality(known) = modules /\ a.body \notin known
    BY <1>3, <2>2, FS_Interval
  <2>4. Sound(a)
    BY <1>2, <2>2, <2>3, Tags, LimitsAssumption DEF Sound, Acceptable
  <2>5. /\ up' = Append(up, a) /\ modules' = modules + 1
        /\ UNCHANGED <<installed, awaiting>>
    BY <1>8, <2>1 DEF Compiles
  <2>6. 1 .. modules' = known \cup {a.body}
    BY <1>3, <2>2, <2>5
  <2>7. Moved(a)
    BY <1>2, <1>3, <2>2, <2>5, <2>6 DEF Moved, Unresolved
  <2> QED BY <1>1, <1>2, <1>5, <2>2, <2>4, <2>5, <2>7
<1>9. CASE Delivers
  <2>1. PICK a : a = Frame("dynamicImports", queued)
    OBVIOUS
  <2>2. a.tag = "dynamicImports" /\ a.body = queued /\ asked.kind = "take"
    BY <1>9, <2>1 DEF Frame, Delivers
  <2>3. awaiting = pending
    BY <1>2, <1>3, <2>2 DEF Awaited
  <2>4. Cardinality(pending) + Cardinality(queued) <= MaxPending
    <3>1. IsFiniteSet(pending) /\ IsFiniteSet(queued)
      BY <1>1, ImportsFinite
    <3>2. queued \cap pending = {}
      BY <1>1, <2>3 DEF Imports
    <3>3. /\ Cardinality(queued \cup pending) =
               Cardinality(queued) + Cardinality(pending) - Cardinality(queued \cap pending)
          /\ Cardinality(queued \cap pending) = 0
      BY <3>1, <3>2, FS_Union, FS_EmptySet
    <3>4. Cardinality(queued) \in Nat /\ Cardinality(pending) \in Nat
      BY <3>1, FS_CardinalityType
    <3> QED BY <1>1, <2>3, <3>3, <3>4 DEF Imports
  <2>5. queued \subseteq 1 .. MaxImports
    BY <1>1, LimitsAssumption DEF ChildTypes
  <2>6. Sound(a)
    BY <1>1, <1>2, <2>2, <2>3, <2>4, <2>5, Tags DEF Sound, Acceptable, Imports
  <2>7. /\ up' = Append(up, a) /\ awaiting' = awaiting \cup queued
        /\ UNCHANGED <<installed, modules>>
    BY <1>9, <2>1 DEF Delivers
  <2>8. Moved(a)
    BY <1>2, <1>3, <2>2, <2>3, <2>7 DEF Moved
  <2> QED BY <1>1, <1>2, <1>5, <2>2, <2>6, <2>7, <2>8
<1>10. CASE Completes
  <2>1. PICK a : a = Frame(OkTag(asked.kind), 0)
    OBVIOUS
  <2>2. a.tag = OkTag(asked.kind) /\ asked.kind \in {"evaluate", "run", "finish", "link"}
    BY <1>10, <2>1 DEF Frame, Completes, Runs
  <2>3. a.tag \in {"result", "moduleResult"}
    BY <2>2, Tags
  <2>4. Sound(a)
    BY <1>2, <2>2, <2>3 DEF Sound, Acceptable
  <2>5. up' = Append(up, a) /\ UNCHANGED <<installed, modules, awaiting>>
    BY <1>10, <2>1 DEF Completes
  <2>6. Moved(a)
    BY <1>2, <1>3, <2>2, <2>3, <2>5 DEF Moved, Unresolved
  <2> QED BY <1>1, <1>2, <1>5, <2>3, <2>4, <2>5, <2>6
<1> QED BY <1>1, <1>2, <1>6, <1>7, <1>8, <1>9, <1>10 DEF ChildAnswers

\* A call is for a function that the parent has.
LEMMA CallsAlive ==
  ASSUME IInv, ChildCalls
  PROVE  Calling' /\ pc' = "await"
<1>1. /\ phase = "running" /\ phase' = "calling" /\ asked.kind \in Runs
      /\ UNCHANGED <<pc, op, joined, bindings, natives, known, pending, down,
                     asked, installed, modules, awaiting>>
      /\ Types /\ Stages /\ Functions
  BY DEF ChildCalls, IInv
<1>2. pc = "await" /\ Running /\ up = <<>> /\ down = <<>> /\ asked = Asked
  BY <1>1, AskedOfChild
<1>3. PICK b \in installed : \E i \in 1 .. Members[b.name] :
        up' = Append(up, Frame("call", b.first + i - 1))
  BY DEF ChildCalls
<1>4. PICK i \in 1 .. Members[b.name] : up' = Append(up, Frame("call", b.first + i - 1))
  BY <1>3
<1>5. PICK a : a = Frame("call", b.first + i - 1)
  OBVIOUS
<1>6. a.tag = "call" /\ a.body = b.first + i - 1
  BY <1>5 DEF Frame
<1>7. a.body < Len(natives)
  <2>1. installed = Registered
    BY <1>2 DEF Running, Working, Same
  <2>2. PICK n \in 1 .. joined : b = bindings[n]
    BY <2>1 DEF Registered
  <2>3. n \in DOMAIN bindings /\ bindings[n] \in Bindings
    BY <1>1 DEF Types
  <2>4. b.first \in Nat /\ Members[b.name] \in Nat /\ Len(natives) \in Nat
    BY <1>1, <2>2, <2>3, MembersAssumption DEF Bindings, Names, Types
  <2>5. b.first + i <= Len(natives)
    BY <1>1, <2>2, <2>3 DEF Functions
  <2> QED BY <1>6, <2>4, <2>5
<1>8. Sound(a)
  BY <1>1, <1>2, <1>6, <1>7 DEF Sound, Acceptable
<1>9. up' = <<a>> /\ Answer' = a
  BY <1>2, <1>4, <1>5, Pipes DEF Answer
<1>10. /\ Asked' = Asked /\ \A c : Sound(c)' <=> Sound(c)
       /\ Same(Awaited)' <=> Same(Awaited)
  BY <1>1, AskedStays, SameStays
<1>11. Sound(Answer)'
  BY <1>8, <1>9, <1>10
<1>12. Working("calling")'
  BY <1>1, <1>2, <1>10 DEF Running, Working
<1> QED BY <1>1, <1>2, <1>6, <1>9, <1>10, <1>11, <1>12 DEF Calling

\* The child goes on after an import, and after its call.
LEMMA GoesOn ==
  ASSUME IInv, ChildImports \/ ChildReturns
  PROVE  Running' /\ pc' = "await"
<1>1. CASE ChildImports
  <2>1. /\ phase = "running"
        /\ UNCHANGED <<pc, op, joined, bindings, natives, known, pending, down, up,
                       phase, asked, installed, modules, awaiting>>
    BY <1>1 DEF ChildImports
  <2>2. pc = "await" /\ Running
    BY <2>1, AskedOfChild
  <2>3. Asked' = Asked /\ (Same(Awaited)' <=> Same(Awaited))
    BY <2>1, AskedStays, SameStays
  <2> QED BY <2>1, <2>2, <2>3 DEF Running, Working
<1>2. CASE ChildReturns
  <2>1. /\ phase = "calling" /\ down # <<>> /\ down' = Tail(down)
        /\ phase' = IF Head(down).kind = "return" THEN "running" ELSE "gone"
        /\ UNCHANGED <<pc, op, joined, bindings, natives, known, pending, up, asked,
                       installed, modules, awaiting>>
    BY <1>2 DEF ChildReturns
  <2>2. pc = "await" /\ Returning
    BY <2>1, CallingChild
  <2>3. down = <<[kind |-> "return", arg |-> 0]>> /\ up = <<>>
    BY <2>2 DEF Returning
  <2>4. Head(down) = [kind |-> "return", arg |-> 0] /\ Tail(down) = <<>>
    BY <2>3, Pipes
  <2>5. Asked' = Asked /\ (Same(Awaited)' <=> Same(Awaited))
    BY <2>1, AskedStays, SameStays
  <2> QED BY <2>1, <2>2, <2>3, <2>4, <2>5 DEF Running, Returning, Working
<1> QED BY <1>1, <1>2

\* Nothing that the pipes and the books are made of changes.
LEMMA AliveStays ==
  ASSUME Alive,
         UNCHANGED <<pc, op, joined, bindings, natives, known, pending, down, up, phase,
                     asked, installed, modules, awaiting>>
  PROVE  Alive'
<1>1. /\ Asked' = Asked /\ Registered' = Registered /\ Awaited' = Awaited
      /\ Answer' = Answer /\ (Sound(Answer)' <=> Sound(Answer))
      /\ (Same(pending)' <=> Same(pending)) /\ (Same(Awaited)' <=> Same(Awaited))
  BY AskedStays, AnswerStays, SameStays
<1>2. After(Answer)' <=> After(Answer)
  BY <1>1 DEF After, Unresolved
<1>3. \A p : Working(p)' <=> Working(p)
  BY <1>1 DEF Working
<1>4. AtRest' <=> AtRest
  BY <1>1 DEF AtRest
<1>5. (Sent' <=> Sent) /\ (Running' <=> Running) /\ (Serving' <=> Serving)
  BY <1>1, <1>3 DEF Sent, Running, Serving
<1>6. Calling' <=> Calling
  BY <1>1, <1>3 DEF Calling
<1>7. Returning' <=> Returning
  BY <1>1, <1>3 DEF Returning
<1>8. Replied' <=> Replied
  BY <1>1, <1>2 DEF Replied
<1> QED BY <1>4, <1>5, <1>6, <1>7, <1>8 DEF Alive

LEMMA AliveKept == IInv /\ [Next]_vars => Alive'
<1> SUFFICES ASSUME IInv, [Next]_vars PROVE Alive'
  OBVIOUS
<1>0. IInv /\ Alive /\ Stages /\ Types
  BY DEF IInv
<1>1. CASE Begin
  <2>1. pc = "idle" /\ pc' \in {"take", "spawn"} /\ (pc' = "take" <=> worker)
    BY <1>0, <1>1 DEF Begin
  <2>2. CASE phase = "gone"
    BY <1>1, <2>2 DEF Begin, Alive
  <2>3. CASE phase # "gone"
    <3>1. AtRest /\ worker
      BY <1>0, <2>1, <2>3 DEF Alive, Stages
    <3>2. AtRest'
      BY <1>1, <3>1, RestStays DEF Begin
    <3> QED BY <2>1, <3>1, <3>2 DEF Alive
  <2> QED BY <2>2, <2>3
<1>2. CASE SpawnFails
  BY <1>0, <1>2 DEF SpawnFails, Alive, Stages
<1>3. CASE Spawn
  <2>1. joined = 0 /\ known = {} /\ pending = {} /\ down = <<>> /\ up = <<>>
    BY <1>0, <1>3 DEF Spawn, Stages
  <2>2. /\ phase' = "ready" /\ installed' = {} /\ modules' = 0 /\ awaiting' = {}
        /\ down' = <<>> /\ up' = <<>> /\ known' = {} /\ pending' = {} /\ joined' = 0
        /\ pc' \in {"take", "write"}
    BY <1>3, <2>1 DEF Spawn, Fresh
  <2>3. Registered' = {}
    BY <2>2 DEF Registered
  <2>4. AtRest'
    BY <2>2, <2>3 DEF AtRest, Same
  <2> QED BY <2>2, <2>4 DEF Alive
<1>4. CASE ModulesFull \/ TakeLive
  <2>1. /\ pc = "take" /\ pc' \in {"idle", "write"}
        /\ UNCHANGED <<phase, down, up, joined, bindings, known, pending, installed,
                       modules, awaiting>>
    BY <1>4 DEF ModulesFull, TakeLive, EndOperation
  <2>2. phase # "gone" => AtRest'
    BY <1>0, <2>1, RestStays DEF Alive
  <2> QED BY <2>1, <2>2 DEF Alive
<1>5. CASE Write
  <2>1. /\ pc = "write" /\ phase # "gone" /\ down' = Append(down, Asked) /\ pc' = "await"
        /\ UNCHANGED <<op, phase, up, joined, bindings, natives, known, pending,
                       installed, modules, awaiting>>
    BY <1>5 DEF Write
  <2>2. AtRest
    BY <1>0, <2>1 DEF Alive
  <2>3. Asked' = Asked /\ (Same(pending)' <=> Same(pending))
    BY <2>1, AskedStays, SameStays
  <2>4. down' = <<Asked>>
    BY <2>1, <2>2, Pipes DEF AtRest
  <2> QED BY <2>1, <2>2, <2>3, <2>4 DEF Alive, Sent, AtRest
<1>6. CASE WriteReturn
  <2>1. /\ pc = "return" /\ phase # "gone" /\ pc' = "await"
        /\ down' = Append(down, [kind |-> "return", arg |-> 0])
        /\ UNCHANGED <<op, phase, asked, up, joined, bindings, natives, known, pending,
                       installed, modules, awaiting>>
    BY <1>6 DEF WriteReturn
  <2>2. Serving /\ Asked.kind \in Runs
    BY <1>0, <2>1, AskedKinds DEF Alive, Stages
  <2>3. Asked' = Asked /\ (Same(Awaited)' <=> Same(Awaited))
    BY <2>1, AskedStays, SameStays
  <2>4. down' = <<[kind |-> "return", arg |-> 0]>>
    BY <2>1, <2>2, Pipes DEF Serving
  <2> QED BY <2>1, <2>2, <2>3, <2>4 DEF Alive, Returning, Serving, Working
<1>7. CASE Rejoin
  <2>1. pc' \in {"write", "take"} /\ phase' = phase
    BY <1>7 DEF Rejoin
  <2> QED BY <1>0, <1>7, <2>1, RejoinAlive DEF Alive
<1>8. CASE Register \/ Refused \/ Answered
  <2>1. pc' = "idle" /\ phase' = phase
    BY <1>8 DEF Register, Refused, Answered, KeepWorker, EndOperation
  <2> QED BY <1>0, <1>8, <2>1, RegisterAlive, RefusedAlive, AnsweredAlive DEF Alive
<1>9. CASE CallServed \/ CallRefused
  <2>1. /\ Receiving /\ Answer.tag = "call" /\ up' = Tail(up)
        /\ pc' \in {"native", "return"}
        /\ UNCHANGED <<op, phase, asked, down, joined, bindings, natives, known, pending,
                       installed, modules, awaiting>>
    BY <1>9 DEF CallServed, CallRefused, Called
  <2>2. phase # "gone" => Calling /\ up' = <<>>
    BY <1>0, <2>1, Received DEF Replied
  <2>3. Asked' = Asked /\ (Same(Awaited)' <=> Same(Awaited))
    BY <2>1, AskedStays, SameStays
  <2> QED BY <2>1, <2>2, <2>3 DEF Alive, Calling, Serving, Working
<1>10. CASE NativeDone
  <2>1. /\ pc = "native" /\ pc' = "return"
        /\ UNCHANGED <<op, phase, asked, down, up, joined, bindings, natives, known,
                       pending, installed, modules, awaiting>>
    BY <1>10 DEF NativeDone
  <2>2. Asked' = Asked /\ (Same(Awaited)' <=> Same(Awaited))
    BY <2>1, AskedStays, SameStays
  <2> QED BY <1>0, <2>1, <2>2 DEF Alive, Serving, Working
<1>11. CASE GivesUp
  BY <1>11, Discards DEF Alive, Discard, Fresh
<1>12. CASE Deadline \/ NativeThread \/ MonitorDecides \/ UNCHANGED vars
  BY <1>0, <1>12, AliveStays DEF Deadline, NativeThread, MonitorDecides, vars
<1>13. CASE MonitorKills \/ ChildDies
  BY <1>13 DEF Alive, MonitorKills, ChildDies, Dies
<1>14. CASE ChildReads
  <2>1. CASE Unready
    BY <1>0, <1>14, <2>1, UnreadyAlive DEF Alive
  <2>2. CASE Starts
    BY <1>0, <1>14, <2>2, StartsAlive DEF Alive
  <2> QED BY <1>14, <2>1, <2>2 DEF ChildReads
<1>15. CASE ChildAnswers
  BY <1>0, <1>15, AnswersAlive DEF Alive
<1>16. CASE ChildCalls
  BY <1>0, <1>16, CallsAlive DEF Alive
<1>17. CASE ChildImports \/ ChildReturns
  BY <1>0, <1>17, GoesOn DEF Alive
<1> QED BY <1>1, <1>2, <1>3, <1>4, <1>5, <1>6, <1>7, <1>8, <1>9, <1>10, <1>11, <1>12,
           <1>13, <1>14, <1>15, <1>16, <1>17, Steps

LEMMA SingleKept == IInv /\ [Next]_vars => Single'
<1> SUFFICES ASSUME IInv, [Next]_vars PROVE Single'
  OBVIOUS
<1>0. IInv /\ Single /\ Alive
  BY DEF IInv
<1>1. CASE Write \/ WriteReturn
  <2>1. PICK r : down' = Append(down, r)
    BY <1>1 DEF Write, WriteReturn
  <2>2. down = <<>>
    BY <1>0, <1>1 DEF Write, WriteReturn, Alive, AtRest, Serving
  <2>3. down' = <<r>>
    BY <2>1, <2>2, Pipes
  <2> QED BY <2>3, Pipes DEF Single
<1>2. CASE ChildReads \/ ChildReturns
  <2>1. down' = Tail(down) /\ down # <<>>
    BY <1>2 DEF ChildReads, ChildReturns
  <2>2. down = <<Head(down)>>
    BY <1>0, <2>1 DEF Single
  <2>3. down' = <<>>
    BY <2>1, <2>2, Pipes
  <2> QED BY <2>3 DEF Single
<1>3. CASE GivesUp
  BY <1>3, Discards DEF Single, Discard
<1>4. CASE UNCHANGED down
  BY <1>0, <1>4 DEF Single
<1>5. Write \/ WriteReturn \/ ChildReads \/ ChildReturns \/ GivesUp \/ UNCHANGED down
  BY Steps DEF Begin, SpawnFails, Spawn, ModulesFull, TakeLive, Rejoin, Register,
     Refused, Answered, CallServed, CallRefused, NativeDone, Deadline, NativeThread,
     MonitorDecides, MonitorKills, ChildAnswers, ChildImports, ChildCalls, ChildDies,
     vars
<1> QED BY <1>1, <1>2, <1>3, <1>4, <1>5

-----------------------------------------------------------------------------
(* The theorems.                                                           *)

\* The state in which the engine is made satisfies every part.
LEMMA IInvInit == Init => IInv
<1> SUFFICES ASSUME Init PROVE IInv
  OBVIOUS
<1>1. Types /\ ChildTypes /\ Flags /\ Slots
  BY TypesInit
<1>2. queued \cup awaiting = {} /\ queued \cap awaiting = {} /\ pending = {}
  BY DEF Init
<1>3. Imports
  BY <1>2, FS_EmptySet, LimitsAssumption DEF Imports
<1>4. Functions
  BY DEF Init, Functions
<1>5. Stages
  BY DEF Init, Stages
<1>6. Alive /\ Dead /\ Single /\ Memory
  BY DEF Init, Alive, Dead, Single, Memory
<1> QED BY <1>1, <1>3, <1>4, <1>5, <1>6 DEF IInv

LEMMA IInvKept == IInv /\ [Next]_vars => IInv'
BY TypesKept, ChildTypesKept, FlagsKept, SlotsKept, ImportsKept, FunctionsKept,
   StagesKept, AliveKept, DeadKept, SingleKept, MemoryKept DEF IInv

LEMMA IInvAlways == Spec => []IInv
BY IInvInit, IInvKept, PTL DEF Spec

\* A pipe holds a request, or an answer and a torn frame.
LEMMA PipesBounded == ASSUME IInv PROVE Len(down) <= 1 /\ Len(up) <= 2
<1>1. \A a, b : Len(<<>>) <= 2 /\ Len(<<a>>) <= 2 /\ Len(<<a, b>>) <= 2
              /\ Len(<<>>) <= 1 /\ Len(<<a>>) <= 1
  BY Pipes
<1>2. Len(down) <= 1
  BY <1>1 DEF IInv, Single
<1>3. up \in {<<>>, <<Answer>>, <<Torn>>, <<Answer, Torn>>}
  <2>1. CASE phase = "gone"
    BY <2>1 DEF IInv, Dead
  <2>2. CASE phase # "gone"
    BY <2>2 DEF IInv, Types, Stages, Alive, AtRest, Sent, Running, Calling, Serving,
       Returning, Replied
  <2> QED BY <2>1, <2>2
<1> QED BY <1>1, <1>2, <1>3

\* Types, and the limits on native threads, modules, imports and pipes, for
\* any numbers of functions and any limits (MAX_LIVE_NATIVE_THREADS,
\* MAX_MODULES_PER_WORKER, MAX_PENDING_DYNAMIC_IMPORTS).
THEOREM WorkerTypes == Spec => []TypeOK
<1>1. IInv => TypeOK
  <2> SUFFICES ASSUME IInv PROVE TypeOK
    OBVIOUS
  <2>1. Types /\ ChildTypes /\ Flags /\ Slots /\ Imports
    BY DEF IInv
  <2>2. Len(down) <= 1 /\ Len(up) <= 2
    BY PipesBounded
  <2>3. late \in BOOLEAN /\ worker \in BOOLEAN /\ relied \in BOOLEAN
    BY <2>1 DEF Flags
  <2>4. \A t \in threads : t.st \in {"started", "inside", "leaving"}
    BY <2>1 DEF Slots
  <2>5. \A i \in DOMAIN bindings : bindings[i] \in Bindings
    BY <2>1 DEF Types
  <2> QED BY <2>1, <2>2, <2>3, <2>4, <2>5 DEF TypeOK, Types, ChildTypes, Slots, Imports
<1> QED BY <1>1, IInvAlways, PTL

\* Between operations parent and child agree on the names, the functions, the
\* modules and the imports, and nothing is in the pipes; during one no answer
\* is taken for a breach of the protocol (process_engine.rs 2221-2406).
THEOREM NoCrossTalk == Spec => []WorkerAgrees
<1>1. IInv => WorkerAgrees
  <2> SUFFICES ASSUME IInv PROVE WorkerAgrees
    OBVIOUS
  <2>1. ASSUME pc = "idle", worker, phase # "gone"
        PROVE  phase = "ready" /\ up = <<>> /\ down = <<>> /\ BooksAgree
    <3>1. AtRest
      BY <2>1 DEF IInv, Alive
    <3>2. joined = Len(bindings) /\ DOMAIN bindings = 1 .. Len(bindings)
      BY <2>1 DEF IInv, Stages, Types
    <3>3. installed = {bindings[i] : i \in DOMAIN bindings}
      BY <3>1, <3>2 DEF AtRest, Same, Registered
    <3>4. \A i \in DOMAIN bindings : \A k \in 1 .. Members[bindings[i].name] :
            natives[bindings[i].first + k] = <<bindings[i].name, k>>
      BY DEF IInv, Functions
    <3> QED BY <3>1, <3>3, <3>4 DEF AtRest, Same, BooksAgree
  <2>2. ASSUME Receiving, Answer.tag # "torn"
        PROVE  Acceptable(Answer)
    BY <2>2, Received DEF Sound, Torn, Frame
  <2> QED BY <2>1, <2>2 DEF WorkerAgrees
<1> QED BY <1>1, IInvAlways, PTL

\* A context that the caller counts on is never replaced without an error
\* that says so (take_live_worker, ensure_discarded_phrase).
THEOREM LossesAreTold == Spec => []LossIsTold
<1>1. IInv => LossIsTold
  BY DEF IInv, Memory, LossIsTold
<1> QED BY <1>1, IInvAlways, PTL

=============================================================================
