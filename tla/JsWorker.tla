------------------------------- MODULE JsWorker -------------------------------
(***************************************************************************)
(* The process-isolated JavaScript engine: V8ProcessEngine in              *)
(* crates/fandhe-browser-js/src/process_engine.rs, its child process       *)
(* (worker.rs, v8_engine.rs), the native threads that serve the child's    *)
(* calls, and the thread that watches the child's memory.                  *)
(*                                                                         *)
(* The caller holds the engine by `&mut': one operation at a time.  Parent *)
(* and child talk over two pipes.  A context lives as long as its process; *)
(* the parent gives a process up by killing it, and tells the caller that  *)
(* the context was discarded.  Values, scripts and messages are left out,  *)
(* and so is the handshake, which nothing else takes part in.              *)
(***************************************************************************)
EXTENDS Integers, Sequences, FiniteSets

CONSTANTS
  Members,     \* Members[n]: native functions behind the global name n
  MaxThreads,  \* MAX_LIVE_NATIVE_THREADS
  MaxModules,  \* MAX_MODULES_PER_WORKER
  MaxPending,  \* MAX_PENDING_DYNAMIC_IMPORTS
  MaxImports   \* bound: dynamic imports a context asks for

ASSUME MembersAssumption == \A n \in DOMAIN Members : Members[n] \in Nat
ASSUME LimitsAssumption ==
  {MaxThreads, MaxModules, MaxPending, MaxImports} \subseteq Nat \ {0}

Names == DOMAIN Members

\* Requests that run code of the page: it may call back and import.
Runs == {"evaluate", "run", "finish"}

Nothing == [kind |-> "none", arg |-> 0]

VARIABLES
  \* --- the engine and the operation that holds it ------------------------
  pc,        \* how far the operation is
  op,        \* what it asks for
  late,      \* its deadline has passed
  worker,    \* there is a WorkerHandle
  joined,    \* global names this worker knows, of those recorded
  bindings,  \* V8ProcessEngine::host_bindings
  natives,   \* V8ProcessEngine::native_fns: whose function each one is
  known,     \* ModuleIdRegistry::known
  pending,   \* ModuleIdRegistry::pending
  relied,    \* the caller counts on what it did in the context
  \* --- the memory monitor and the pipes ----------------------------------
  monitor, down, up,
  \* --- the child process -------------------------------------------------
  phase,     \* "gone" when there is none, or it is dead
  asked,     \* the request it works on
  installed, \* global names it installed
  modules,   \* how many modules it compiled; they are numbered from 1
  queued,    \* ModuleMap::queued_dynamic: imports asked for
  awaiting,  \* ModuleMap::awaiting_dynamic: imports handed out
  next,      \* ModuleMap::next_dynamic_id
  used,      \* it was asked something
  \* --- native threads ----------------------------------------------------
  threads,   \* those that hold a slot
  serving,   \* the one whose answer the operation awaits, 0 if none
  replied    \* that answer is there

recordVars == <<bindings, natives>>
bookVars   == <<joined, known, pending>>
workerVars == <<worker, monitor, bookVars>>
nativeVars == <<threads, serving, replied>>
pageVars   == <<installed, modules, queued, awaiting, next>>
childVars  == <<phase, asked, used, pageVars>>
vars == <<pc, op, late, worker, joined, bindings, natives, known, pending,
          relied, monitor, down, up, phase, asked, installed, modules, queued,
          awaiting, next, used, threads, serving, replied>>

-----------------------------------------------------------------------------
(* Frames, and what the engine makes of them.                              *)

Frame(t, b) == [tag |-> t, body |-> b]

\* ModuleRoundtrip::ok_tag and the tags of registration and evaluation.
OkTag(kind) ==
  [register |-> "result", evaluate |-> "result", link |-> "result",
   run |-> "moduleResult", finish |-> "moduleResult",
   compile |-> "moduleCompiled", take |-> "dynamicImports"][kind]

\* Names recorded before still have to be registered with this worker.
Joining == joined < Len(bindings)

\* Native functions are numbered from 0 in the order of their registration.
NewBinding == [name |-> op.arg, first |-> Len(natives)]

\* What the operation asks the child at this point.
Asked ==
  IF Joining THEN [kind |-> "register", arg |-> bindings[joined + 1]]
  ELSE IF op.kind = "register" THEN [kind |-> "register", arg |-> NewBinding]
  ELSE op

\* An answer in which the parent's own record finds no contradiction.
Acceptable(f) ==
  \/ /\ f.tag = OkTag(Asked.kind)
     /\ Asked.kind = "compile" =>
          f.body \notin known /\ Cardinality(known) < MaxModules
     /\ Asked.kind = "take" =>
          /\ f.body \cap pending = {}
          /\ Cardinality(pending) + Cardinality(f.body) <= MaxPending
  \/ /\ f.tag = "error"
     /\ Asked.kind = "register" => f.body = "binding"
  \/ /\ f.tag = "call"
     /\ Asked.kind \in Runs
     /\ f.body < Len(natives)

\* The monitor has left a reason.
KillReason == monitor \in {"decided", "killed"}

-----------------------------------------------------------------------------
Init ==
  /\ pc = "idle" /\ op = Nothing /\ late = FALSE
  /\ worker = FALSE /\ joined = 0
  /\ bindings = <<>> /\ natives = <<>>
  /\ known = {} /\ pending = {}
  /\ relied = FALSE
  /\ monitor = "off" /\ down = <<>> /\ up = <<>>
  /\ phase = "gone" /\ asked = Nothing /\ used = FALSE
  /\ installed = {} /\ modules = 0
  /\ queued = {} /\ awaiting = {} /\ next = 1
  /\ threads = {} /\ serving = 0 /\ replied = FALSE

\* A process that has done nothing yet, or none.
Fresh(p) ==
  /\ phase' = p /\ asked' = Nothing /\ used' = FALSE
  /\ installed' = {} /\ modules' = 0
  /\ queued' = {} /\ awaiting' = {} /\ next' = 1

-----------------------------------------------------------------------------
(* How an operation ends.                                                  *)

EndOperation == pc' = "idle" /\ op' = Nothing /\ late' = FALSE

\* The worker is put back, and the caller builds on its context.
KeepWorker == EndOperation /\ relied' = TRUE

\* The process is killed and reaped, its handle dropped, and the error says
\* that the context was discarded.
Discard ==
  /\ EndOperation
  /\ worker' = FALSE /\ joined' = 0 /\ known' = {} /\ pending' = {}
  /\ relied' = FALSE
  /\ monitor' = "off" /\ down' = <<>> /\ up' = <<>>
  /\ Fresh("gone")
  /\ serving' = 0 /\ replied' = FALSE
  /\ UNCHANGED <<recordVars, threads>>

-----------------------------------------------------------------------------
(* The operation: take_live_worker, spawn_worker and the writes.           *)

\* A careful caller: it names each global once, and uses the imports it was
\* handed by this context.
Requests ==
  [kind : {"evaluate", "compile", "link", "run", "take"}, arg : {0}]
    \cup [kind : {"register"},
          arg : Names \ {bindings[i].name : i \in DOMAIN bindings}]
    \cup [kind : {"finish"}, arg : pending]

Begin ==
  /\ pc = "idle"
  /\ op' \in Requests
  /\ pc' = IF worker THEN "take" ELSE "spawn"
  /\ UNCHANGED <<late, workerVars, recordVars, relied, down, up, childVars, nativeVars>>

SpawnFails ==
  /\ pc = "spawn"
  /\ EndOperation
  /\ UNCHANGED <<workerVars, recordVars, relied, down, up, childVars, nativeVars>>

\* The names recorded so far are registered first, under one deadline.
Spawn ==
  /\ pc = "spawn"
  /\ worker' = TRUE /\ monitor' = "watching"
  /\ Fresh("ready")
  /\ pc' = IF bindings = <<>> THEN "take" ELSE "write"
  /\ late' = FALSE
  /\ UNCHANGED <<op, bookVars, recordVars, relied, down, up, nativeVars>>

\* Mutant of TakeKilled: a killed worker is replaced without a word.
MutTakeKilled ==
  /\ pc = "take" /\ KillReason
  /\ pc' = "spawn"
  /\ worker' = FALSE /\ joined' = 0 /\ known' = {} /\ pending' = {}
  /\ monitor' = "off" /\ Fresh("gone")
  /\ UNCHANGED <<op, late, recordVars, relied, down, up, nativeVars>>

TakeKilled == pc = "take" /\ KillReason /\ Discard

ModulesFull ==
  /\ pc = "take" /\ ~ KillReason
  /\ op.kind = "compile" /\ Cardinality(known) >= MaxModules
  /\ EndOperation
  /\ UNCHANGED <<workerVars, recordVars, relied, down, up, childVars, nativeVars>>

\* The deadline runs from here.
TakeLive ==
  /\ pc = "take" /\ ~ KillReason
  /\ op.kind = "compile" => Cardinality(known) < MaxModules
  /\ pc' = "write" /\ late' = FALSE
  /\ UNCHANGED <<op, workerVars, recordVars, relied, down, up, childVars, nativeVars>>

\* The writer thread takes the bytes while the process lives.
Write ==
  /\ pc = "write" /\ phase # "gone"
  /\ down' = Append(down, Asked)
  /\ pc' = "await"
  /\ UNCHANGED <<op, late, workerVars, recordVars, relied, up, childVars, nativeVars>>

WriteReturn ==
  /\ pc = "return" /\ ~ late /\ phase # "gone"
  /\ down' = Append(down, [kind |-> "return", arg |-> 0])
  /\ pc' = "await"
  /\ UNCHANGED <<op, late, workerVars, recordVars, relied, up, childVars, nativeVars>>

WriteFails ==
  /\ pc \in {"write", "return"}
  /\ late \/ phase = "gone"
  /\ Discard

-----------------------------------------------------------------------------
(* The operation: register_one and await_response.                         *)

Answer == Head(up)

Receiving == pc = "await" /\ ~ late /\ up # <<>>

\* A name recorded before is registered again.
Rejoin ==
  /\ Receiving /\ Joining /\ Acceptable(Answer) /\ Answer.tag = "result"
  /\ up' = Tail(up)
  /\ joined' = joined + 1
  /\ pc' = IF joined + 1 < Len(bindings) THEN "write" ELSE "take"
  /\ UNCHANGED <<op, late, worker, monitor, known, pending, recordVars, relied,
                 down, childVars, nativeVars>>

\* Its functions get their numbers only now, so a refusal uses none up.
Register ==
  /\ Receiving /\ ~ Joining /\ op.kind = "register"
  /\ Acceptable(Answer) /\ Answer.tag = "result"
  /\ up' = Tail(up)
  /\ natives' = natives \o [i \in 1 .. Members[op.arg] |-> <<op.arg, i>>]
  /\ bindings' = Append(bindings, NewBinding)
  /\ joined' = joined + 1
  /\ KeepWorker
  /\ UNCHANGED <<worker, monitor, known, pending, down, childVars, nativeVars>>

Refused ==
  /\ Receiving /\ ~ Joining /\ op.kind = "register"
  /\ Acceptable(Answer) /\ Answer.tag = "error"
  /\ up' = Tail(up)
  /\ KeepWorker
  /\ UNCHANGED <<workerVars, recordVars, down, childVars, nativeVars>>

\* The child's last word on anything but a registration.
Final(f) == f.tag \in {OkTag(op.kind), "error"} /\ op.kind # "register"

\* ModuleResolutionFailed: the request did not get as far as the page's code.
Unresolved(f) == f.tag = "error" /\ f.body = "unresolved"

\* Neither did the monitor strike, nor is the child too large after it.
Answered ==
  /\ Receiving /\ ~ Joining /\ Final(Answer) /\ Acceptable(Answer)
  /\ ~ KillReason
  /\ up' = Tail(up)
  /\ known' = IF Answer.tag = "moduleCompiled" THEN known \cup {Answer.body}
                                               ELSE known
  /\ pending' = IF Answer.tag = "dynamicImports" THEN pending \cup Answer.body
                ELSE IF op.kind = "finish" /\ ~ Unresolved(Answer)
                  THEN pending \ {op.arg}
                ELSE pending
  /\ KeepWorker
  /\ UNCHANGED <<worker, monitor, joined, recordVars, down, childVars, nativeVars>>

\* apply_post_response_rss_check: the answer came from a child that is to go.
Overweight == Receiving /\ ~ Joining /\ Final(Answer) /\ Acceptable(Answer) /\ Discard

\* A torn or unexpected frame, or a recorded name that is refused now.
Violated ==
  /\ Receiving
  /\ ~ Acceptable(Answer) \/ (Joining /\ Answer.tag = "error")
  /\ Discard

\* Mutant of TimedOut: the worker is kept, its answer will come.
MutTimedOut ==
  /\ pc = "await" /\ late
  /\ KeepWorker
  /\ UNCHANGED <<workerVars, recordVars, down, up, childVars, nativeVars>>

TimedOut == pc = "await" /\ late /\ Discard

Ended == pc = "await" /\ ~ late /\ up = <<>> /\ phase = "gone" /\ Discard

-----------------------------------------------------------------------------
(* Native calls: dispatch_threaded.                                        *)

\* Mutant of SlotFree: off by one.
MutSlotFree == Cardinality(threads) <= MaxThreads

SlotFree == Cardinality(threads) < MaxThreads

FreeId == CHOOSE i \in 1 .. Cardinality(threads) + 1 : \A t \in threads : t.id # i

Called == Receiving /\ ~ Joining /\ Acceptable(Answer) /\ Answer.tag = "call"

CallServed ==
  /\ Called /\ SlotFree
  /\ up' = Tail(up)
  /\ threads' = threads \cup {[id |-> FreeId, fn |-> Answer.body, st |-> "started"]}
  /\ serving' = FreeId /\ replied' = FALSE
  /\ pc' = "native"
  /\ UNCHANGED <<op, late, workerVars, recordVars, relied, down, childVars>>

\* The page is told that too many calls are still running.
CallRefused ==
  /\ Called /\ ~ SlotFree
  /\ up' = Tail(up)
  /\ pc' = "return"
  /\ UNCHANGED <<op, late, workerVars, recordVars, relied, down, childVars, nativeVars>>

NativeDone ==
  /\ pc = "native" /\ replied /\ ~ late
  /\ pc' = "return"
  /\ serving' = 0 /\ replied' = FALSE
  /\ UNCHANGED <<op, late, workerVars, recordVars, relied, down, up, childVars, threads>>

\* Mutant of NativeLate: the function's answer is awaited without a limit.
MutNativeLate == pc = "native" /\ late /\ replied /\ Discard

\* The thread is told to stop if it has not begun, and left alone otherwise.
NativeLate == pc = "native" /\ late /\ Discard

SetThread(t, s) ==
  threads' = (threads \ {t}) \cup {[id |-> t.id, fn |-> t.fn, st |-> s]}

Busy(t) == \E u \in threads : u.fn = t.fn /\ u.st = "inside"

Cancelled(t) == t.id # serving \/ late

ThreadEnters(t) ==
  /\ t.st = "started" /\ ~ Busy(t) /\ ~ Cancelled(t)
  /\ SetThread(t, "inside")
  /\ UNCHANGED <<serving, replied>>

\* With a value, an error, a panic, or without having entered the function.
ThreadReplies(t) ==
  /\ t.st = "inside" \/ (t.st = "started" /\ (Busy(t) \/ Cancelled(t)))
  /\ SetThread(t, "leaving")
  /\ replied' = (replied \/ t.id = serving)
  /\ UNCHANGED serving

ThreadEnds(t) ==
  /\ t.st = "leaving"
  /\ threads' = threads \ {t}
  /\ UNCHANGED <<serving, replied>>

NativeThread ==
  /\ \E t \in threads : ThreadEnters(t) \/ ThreadReplies(t) \/ ThreadEnds(t)
  /\ UNCHANGED <<pc, op, late, workerVars, recordVars, relied, down, up, childVars>>

-----------------------------------------------------------------------------
(* The memory monitor: the reason first, then the kill.                    *)

MonitorDecides ==
  /\ monitor = "watching" /\ phase # "gone"
  /\ monitor' = "decided"
  /\ UNCHANGED <<pc, op, late, worker, bookVars, recordVars, relied, down, up,
                 childVars, nativeVars>>

\* A frame that the child was writing arrives in part.
Dies ==
  /\ phase' = "gone" /\ UNCHANGED <<asked, used, pageVars>>
  /\ \/ UNCHANGED up
     \/ /\ phase \in {"running", "calling"}
        /\ up' = Append(up, Frame("torn", 0))

MonitorKills ==
  /\ monitor = "decided"
  /\ monitor' = "killed"
  /\ Dies
  /\ UNCHANGED <<pc, op, late, worker, bookVars, recordVars, relied, down, nativeVars>>

-----------------------------------------------------------------------------
(* The child: the loop of worker.rs and the modules of v8_engine.rs.       *)

Admits == Cardinality(queued \cup awaiting) < MaxPending

\* An error leaves no trace of the request.
Fails ==
  /\ asked.kind # "take"
  /\ up' = Append(up, Frame("error",
                IF asked.kind = "register" THEN "binding" ELSE "evaluation"))
  /\ UNCHANGED pageVars

Installs ==
  /\ asked.kind = "register"
  /\ up' = Append(up, Frame("result", 0))
  /\ installed' = installed \cup {asked.arg}
  /\ UNCHANGED <<modules, queued, awaiting, next>>

Compiles ==
  /\ asked.kind = "compile" /\ modules < MaxModules
  /\ up' = Append(up, Frame("moduleCompiled", modules + 1))
  /\ modules' = modules + 1
  /\ UNCHANGED <<installed, queued, awaiting, next>>

\* The imports asked for since the last time wait for their end from now on.
Delivers ==
  /\ asked.kind = "take"
  /\ up' = Append(up, Frame("dynamicImports", queued))
  /\ awaiting' = awaiting \cup queued /\ queued' = {}
  /\ UNCHANGED <<installed, modules, next>>

Completes ==
  /\ asked.kind \in Runs \cup {"link"}
  /\ up' = Append(up, Frame(OkTag(asked.kind), 0))
  /\ UNCHANGED pageVars

\* The root or an import is not known, or not linked.
Unready ==
  /\ Head(down).kind \in {"link", "run", "finish"}
  /\ up' = Append(up, Frame("error", "unresolved"))
  /\ used' = TRUE
  /\ UNCHANGED <<phase, asked, pageVars>>

\* An import that is being finished is no longer awaited, however it ends.
Starts ==
  /\ Head(down).kind # "return"
  /\ Head(down).kind = "finish" => Head(down).arg \in awaiting
  /\ phase' = "running" /\ asked' = Head(down) /\ used' = TRUE
  /\ awaiting' = IF Head(down).kind = "finish" THEN awaiting \ {Head(down).arg}
                                               ELSE awaiting
  /\ UNCHANGED <<up, installed, modules, queued, next>>

ChildReads ==
  /\ phase = "ready" /\ down # <<>>
  /\ down' = Tail(down)
  /\ Unready \/ Starts
  /\ UNCHANGED <<pc, op, late, workerVars, recordVars, relied, nativeVars>>

ChildAnswers ==
  /\ phase = "running"
  /\ phase' = "ready" /\ asked' = Nothing
  /\ Fails \/ Installs \/ Compiles \/ Delivers \/ Completes
  /\ UNCHANGED <<pc, op, late, workerVars, recordVars, relied, used, down, nativeVars>>

ChildImports ==
  /\ phase = "running" /\ asked.kind \in Runs
  /\ Admits /\ next <= MaxImports
  /\ queued' = queued \cup {next} /\ next' = next + 1
  /\ UNCHANGED <<pc, op, late, workerVars, recordVars, relied, down, up, phase,
                 asked, used, installed, modules, awaiting, nativeVars>>

ChildCalls ==
  /\ phase = "running" /\ asked.kind \in Runs
  /\ \E b \in installed : \E i \in 1 .. Members[b.name] :
       up' = Append(up, Frame("call", b.first + i - 1))
  /\ phase' = "calling"
  /\ UNCHANGED <<pc, op, late, workerVars, recordVars, relied, down, asked, used,
                 pageVars, nativeVars>>

\* Anything but the answer to its call ends the child.
ChildReturns ==
  /\ phase = "calling" /\ down # <<>>
  /\ down' = Tail(down)
  /\ phase' = IF Head(down).kind = "return" THEN "running" ELSE "gone"
  /\ UNCHANGED <<pc, op, late, workerVars, recordVars, relied, up, asked, used,
                 pageVars, nativeVars>>

\* A crash, or the heap limit.
ChildDies ==
  /\ phase # "gone"
  /\ Dies
  /\ UNCHANGED <<pc, op, late, workerVars, recordVars, relied, down, nativeVars>>

-----------------------------------------------------------------------------
\* Time passes for the operation under way.
Deadline ==
  /\ pc \notin {"idle", "spawn", "take"} /\ ~ late
  /\ late' = TRUE
  /\ UNCHANGED <<pc, op, workerVars, recordVars, relied, down, up, childVars, nativeVars>>

Operation ==
  \/ SpawnFails \/ Spawn \/ TakeKilled \/ ModulesFull \/ TakeLive
  \/ Write \/ WriteReturn \/ WriteFails
  \/ Rejoin \/ Register \/ Refused \/ Answered \/ Overweight \/ Violated
  \/ TimedOut \/ Ended
  \/ CallServed \/ CallRefused \/ NativeDone \/ NativeLate

Child == ChildReads \/ ChildAnswers \/ ChildImports \/ ChildCalls \/ ChildReturns

Next ==
  \/ Begin \/ Operation \/ Deadline
  \/ NativeThread
  \/ MonitorDecides \/ MonitorKills
  \/ Child \/ ChildDies

\* The parent's thread runs and its clock goes on.  Nothing is assumed of the
\* child, of the native functions or of the monitor.
Spec == Init /\ [][Next]_vars /\ WF_vars(Operation) /\ WF_vars(Deadline)

-----------------------------------------------------------------------------
(* Properties.                                                             *)

Bindings == [name : Names, first : Nat]

\* Every variable stays in its range; in particular no more native threads
\* live than there are slots, whatever operations left them behind.
TypeOK ==
  /\ pc \in {"idle", "spawn", "take", "write", "await", "native", "return"}
  /\ late \in BOOLEAN /\ worker \in BOOLEAN /\ relied \in BOOLEAN
  /\ joined \in 0 .. Len(bindings)
  /\ known \subseteq 1 .. MaxModules
  /\ pending \subseteq 1 .. MaxImports /\ Cardinality(pending) <= MaxPending
  /\ \A i \in DOMAIN bindings : bindings[i] \in Bindings
  /\ monitor \in {"off", "watching", "decided", "killed"}
  /\ phase \in {"ready", "running", "calling", "gone"}
  /\ installed \subseteq Bindings /\ modules \in 0 .. MaxModules
  /\ Len(down) <= 1 /\ Len(up) <= 2
  /\ \A t \in threads : t.st \in {"started", "inside", "leaving"}
  /\ Cardinality(threads) <= MaxThreads

\* What the child was told and told itself is what the parent has on record.
BooksAgree ==
  /\ installed = {bindings[i] : i \in DOMAIN bindings}
  /\ \A i \in DOMAIN bindings : \A k \in 1 .. Members[bindings[i].name] :
       natives[bindings[i].first + k] = <<bindings[i].name, k>>
  /\ known = 1 .. modules
  /\ pending = awaiting

\* Between operations parent and child are at one: nothing is in the pipes
\* that the next operation could take for its own answer, every global name
\* calls its own function, and the records of modules and imports are equal.
\* During one, no answer of the child looks like a breach of the protocol
\* (process_engine.rs 1333-1365, 2221-2406, 2864-2882).
WorkerAgrees ==
  /\ pc = "idle" /\ worker /\ phase # "gone" =>
       /\ phase = "ready"
       /\ up = <<>> /\ down = <<>>
       /\ BooksAgree
  /\ Receiving /\ Answer.tag # "torn" => Acceptable(Answer)

\* A context is never replaced behind the caller's back: while it counts on
\* what it did there, the worker in use is the one that did it.  Who loses a
\* context has been told that it was discarded (ensure_discarded_phrase).
LossIsTold == relied => worker /\ used

\* Every operation comes back, whatever child and native functions do.
OperationsReturn == pc # "idle" ~> pc = "idle"

=============================================================================
