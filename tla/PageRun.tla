------------------------------ MODULE PageRun ------------------------------
(***************************************************************************)
(* One run of a page's scripts: execute, fire_lifecycle and run_event_loop *)
(* of core/src/page_runner.rs, with the pumps for dynamic imports and      *)
(* network requests, NetQueue of page_net.rs, and the shims' books.        *)
(* Scripts in document order, two lifecycle events, then a loop: imports,  *)
(* then requests, then timers in virtual time, until nothing is left, a    *)
(* limit is exceeded or the page's time is up.                             *)
(*                                                                         *)
(* While page code runs it may do what the page actions say, in any order. *)
(* The runner calls page code through evaluations; a microtask checkpoint  *)
(* follows each.  Whenever the page's clock is read its time may be over;  *)
(* the run is given up then, so the clock needs no variable.               *)
(***************************************************************************)
EXTENDS TimerQueue

CONSTANTS
  MaxScripts,   \* bound: scripts of the page
  MaxMicro,     \* MAX_PENDING_MICROTASKS
  MaxRequests,  \* PageNetLimits::max_requests
  MaxBytes,     \* PageNetLimits::max_response_bytes; a body has 0 or 1 here
  MaxImports,   \* MAX_PAGE_DYNAMIC_IMPORTS
  MaxWork       \* bound: timers, requests and imports a page asks for, together

ASSUME RunBoundsAssumption ==
  /\ MaxScripts \in Nat   /\ MaxMicro \in Nat    /\ MaxRequests \in Nat
  /\ MaxBytes \in Nat     /\ MaxImports \in Nat  /\ MaxWork \in Nat

\* AbortKind; "none" as long as the run goes on.
EngineAborts == {"wallTime", "resourceLimit", "engineError"}
AbortKinds == EngineAborts \cup {"scriptLimit", "virtualTime", "timerFires"}

VARIABLES
  stage,      \* what the runner is about to do
  task,       \* the evaluation it is at: script, event, import, request, timer
  hand,       \* the timer or request this is for
  scripts,    \* scripts not yet dealt with
  events,     \* lifecycle events not yet dealt with
  engine,     \* there is a runtime
  abort,      \* PageAbort, or "none"
  doomed,     \* an import was refused: abort with this after the page was told
  opsOut,     \* DomBridge::op_limit_tripped
  tripped,    \* DomBridge::resource_limit_tripped
  micro,      \* microtasks in the shim's queue
  asked,      \* dynamic imports the engine has for the runner
  imports,    \* dynamic_queue
  requested,  \* DynamicImportReport::requested
  counted,    \* its fulfilled, rejected and pending together
  tried,      \* ModuleGraph::dynamic_requests
  requests,   \* NetQueue::pending
  accepted, completed, cancelled, \* NetQueue
  bytes, limitHit, \* NetQueue::used_bytes, limit_hit
  waiting,    \* net.js: requests somebody waits for
  bypassed    \* history: requests made or cancelled without the shim

runVars    == <<stage, task, hand, scripts, events, engine, abort, doomed>>
limitVars  == <<opsOut, tripped>>
importVars == <<asked, imports, requested, counted, tried>>
netVars    == <<requests, accepted, completed, cancelled, bytes, limitHit, waiting, bypassed>>
vars == <<runVars, limitVars, micro, importVars, netVars, timerVars>>

Init ==
  /\ stage = "install" /\ task = "none" /\ hand = NoTimer
  /\ scripts \in 0 .. MaxScripts /\ events = 2
  /\ engine = FALSE /\ abort = "none" /\ doomed = "none"
  /\ opsOut = FALSE /\ tripped = FALSE
  /\ micro = 0
  /\ asked = 0 /\ imports = 0 /\ requested = 0 /\ counted = 0 /\ tried = 0
  /\ requests = <<>> /\ accepted = 0 /\ completed = 0 /\ cancelled = 0
  /\ bytes = 0 /\ limitHit = FALSE /\ waiting = {} /\ bypassed = {}
  /\ TimerInit

-----------------------------------------------------------------------------
(* Going on and giving up.                                                 *)

\* Where the runner goes on after task t.
After(t) == IF t \in {"script", "event"} THEN t ELSE "loop"

\* tripped_abort_kind
Tripped == opsOut \/ tripped

GoOn ==
  /\ stage' = After(task) /\ task' = "none" /\ hand' = NoTimer /\ doomed' = "none"
  /\ UNCHANGED <<scripts, events, engine, abort>>

\* Mutant of GiveUp: the imports in the queue are forgotten.
MutGiveUp(k, n) ==
  /\ abort' = k /\ task' = "none" /\ hand' = NoTimer /\ doomed' = "none"
  /\ stage' = IF After(task) = "loop" THEN "done" ELSE After(task)
  /\ counted' = counted + n /\ imports' = 0
  /\ UNCHANGED <<scripts, events, engine, asked, requested, tried>>

\* The run ends with kind k: scripts and events that are left are not run, and
\* the imports in the queue (and n more) count as rejected.
GiveUp(k, n) ==
  /\ abort' = k /\ task' = "none" /\ hand' = NoTimer /\ doomed' = "none"
  /\ stage' = IF After(task) = "loop" THEN "done" ELSE After(task)
  /\ counted' = counted + n + imports /\ imports' = 0
  /\ UNCHANGED <<scripts, events, engine, asked, requested, tried>>

Evaluate(s) == stage' = s /\ UNCHANGED <<task, hand, scripts, events, engine, abort, doomed>>

\* The page's clock was read, and its wall time is over.
Late(n) == GiveUp("wallTime", n)

\* microtask_checkpoint: one more evaluation, if there is time for it.
Checkpoint ==
  \/ Late(0)
  \/ Evaluate("drain") /\ UNCHANGED importVars

-----------------------------------------------------------------------------
(* Scripts and lifecycle events.                                           *)

\* The runtime with its shims.  No time for it: no runtime and an abort.  A
\* page whose scripts could all not be fetched gets none either.
Install ==
  /\ stage = "install" /\ stage' = "script"
  /\ \/ UNCHANGED <<engine, abort>>
     \/ scripts > 0 /\ engine' = TRUE /\ UNCHANGED abort
     \/ scripts > 0 /\ abort' = "wallTime" /\ UNCHANGED engine
  /\ UNCHANGED <<task, hand, scripts, events, doomed, limitVars, micro, importVars, netVars, timerVars>>

\* One entry of the list.  Its source could not be fetched; the sources are too
\* large, a module could not be loaded for a limit, or there is no time left; a
\* module is not evaluated (it failed to load, or its result is known); or
\* there is something to evaluate.
Script ==
  /\ stage = "script" /\ scripts > 0 /\ abort = "none"
  /\ scripts' = scripts - 1
  /\ \/ UNCHANGED <<stage, task, abort>>
     \/ abort' = "scriptLimit" /\ UNCHANGED <<stage, task>>
     \/ engine /\ abort' \in EngineAborts /\ UNCHANGED <<stage, task>>
     \/ engine /\ stage' = "ran" /\ task' = "script" /\ UNCHANGED abort
     \/ engine /\ stage' = "run" /\ task' = "script" /\ UNCHANGED abort
  /\ UNCHANGED <<hand, events, engine, doomed, limitVars, micro, importVars, netVars, timerVars>>

\* Behind the last script, or an abort: too many scripts were found, or a
\* limit was exceeded.
ScriptsEnd ==
  /\ stage = "script" /\ (scripts = 0 \/ abort # "none")
  /\ stage' = "event" /\ scripts' = 0
  /\ \/ abort' = IF abort = "none" /\ Tripped THEN "resourceLimit" ELSE abort
     \/ abort = "none" /\ abort' = "scriptLimit"
  /\ UNCHANGED <<task, hand, events, engine, doomed, limitVars, micro, importVars, netVars, timerVars>>

\* fire_lifecycle: an event is not fired after an abort, and is nothing to
\* evaluate without a runtime.
Lifecycle ==
  /\ stage = "event" /\ events > 0
  /\ events' = events - 1
  /\ \/ (abort # "none" \/ ~ engine) /\ UNCHANGED <<stage, task, abort>>
     \/ abort = "none" /\ engine /\ stage' = "run" /\ task' = "event" /\ UNCHANGED abort
     \/ abort = "none" /\ engine /\ abort' = "wallTime" /\ UNCHANGED <<stage, task>>
  /\ UNCHANGED <<hand, scripts, engine, doomed, limitVars, micro, importVars, netVars, timerVars>>

\* The loop is entered with a runtime and without an abort.
LifecycleEnds ==
  /\ stage = "event" /\ events = 0
  /\ stage' = IF abort = "none" /\ engine THEN "loop" ELSE "done"
  /\ UNCHANGED <<task, hand, scripts, events, engine, abort, doomed, limitVars, micro, importVars, netVars, timerVars>>

-----------------------------------------------------------------------------
(* Page code.                                                              *)

PageRuns == stage \in {"run", "micro"}

MayAsk == lastId + accepted + requested + asked < MaxWork

\* Operations of the bridge are counted; when they are used up each one fails.
OpsRunOut ==
  /\ PageRuns /\ opsOut' = TRUE
  /\ UNCHANGED <<runVars, tripped, micro, importVars, netVars, timerVars>>

\* A limit of listeners or of mutation observers is exceeded.
TripLimit ==
  /\ PageRuns /\ tripped' = TRUE
  /\ UNCHANGED <<runVars, opsOut, micro, importVars, netVars, timerVars>>

\* setTimeout, setInterval: refused if too many wait.
SetTimer ==
  /\ PageRuns /\ ~ opsOut /\ MayAsk
  /\ \/ Full /\ tripped' = TRUE /\ UNCHANGED <<opsOut, timerVars>>
     \/ /\ ~ Full
        /\ \E delay \in Delays, repeat \in BOOLEAN : Register(delay, repeat, FALSE)
        /\ \E lost \in SUBSET table :
             /\ retained < sweepAt => lost = {}
             /\ Keep(lastId', lost)
             /\ opsOut' = (lost # {})
        /\ UNCHANGED tripped
  /\ UNCHANGED <<runVars, micro, importVars, netVars>>

\* The page registers with the queue (timerSet) and not with the shim.
SetDirectly ==
  /\ PageRuns /\ ~ opsOut /\ MayAsk
  /\ \/ Full /\ tripped' = TRUE /\ UNCHANGED queueVars
     \/ /\ ~ Full
        /\ \E delay \in Delays, repeat \in BOOLEAN : Register(delay, repeat, TRUE)
        /\ UNCHANGED tripped
  /\ UNCHANGED <<runVars, opsOut, micro, importVars, netVars, shimVars>>

\* clearTimeout, clearInterval: the callback goes even if the queue is not told.
ClearTimer ==
  /\ PageRuns
  /\ \E id \in 1 .. lastId :
       /\ Forget(id)
       /\ IF opsOut THEN UNCHANGED queueVars ELSE ClearQueue(id)
  /\ UNCHANGED <<runVars, limitVars, micro, importVars, netVars>>

\* The page tells the queue (timerClear) and not the shim.
ClearDirectly ==
  /\ PageRuns /\ ~ opsOut
  /\ \E id \in 1 .. lastId : ClearQueue(id)
  /\ UNCHANGED <<runVars, limitVars, micro, importVars, netVars, shimVars>>

\* Mutant of QueueMicrotask: one more than the limit.
MutQueueMicrotask ==
  /\ PageRuns
  /\ \/ micro <= MaxMicro /\ micro' = micro + 1 /\ UNCHANGED tripped
     \/ micro > MaxMicro /\ tripped' = TRUE /\ UNCHANGED micro
  /\ UNCHANGED <<runVars, opsOut, importVars, netVars, timerVars>>

\* queueMicrotask: thrown away if too many wait; telling so costs no operation.
QueueMicrotask ==
  /\ PageRuns
  /\ \/ micro < MaxMicro /\ micro' = micro + 1 /\ UNCHANGED tripped
     \/ micro >= MaxMicro /\ tripped' = TRUE /\ UNCHANGED micro
  /\ UNCHANGED <<runVars, opsOut, importVars, netVars, timerVars>>

\* NetQueue::admit.  The shim waits for what it asked for; of what the page
\* asked for without it (netRequest) it knows nothing.
Request ==
  /\ PageRuns /\ ~ opsOut
  /\ \/ /\ limitHit \/ bytes >= MaxBytes
        /\ limitHit' = TRUE
        /\ UNCHANGED <<requests, accepted, waiting, bypassed>>
     \/ /\ ~ limitHit /\ bytes < MaxBytes /\ MayAsk /\ accepted < MaxRequests
        /\ accepted' = accepted + 1
        /\ requests' = Append(requests, accepted + 1)
        /\ \/ waiting' = waiting \cup {accepted + 1} /\ UNCHANGED bypassed
           \/ bypassed' = bypassed \cup {accepted + 1} /\ UNCHANGED waiting
        /\ UNCHANGED limitHit
  /\ UNCHANGED <<runVars, limitVars, micro, importVars, completed, cancelled, bytes, timerVars>>

\* An AbortSignal, or abort() or open() of an XMLHttpRequest.  NetQueue::cancel
\* removes what was not taken yet.
CancelRequest ==
  /\ PageRuns
  /\ \E id \in waiting :
       /\ waiting' = waiting \ {id}
       /\ IF ~ opsOut /\ id \in ToSet(requests)
          THEN requests' = RemoveFirst(requests, id) /\ cancelled' = cancelled + 1
          ELSE UNCHANGED <<requests, cancelled>>
  /\ UNCHANGED <<runVars, limitVars, micro, importVars, accepted, completed, bytes, limitHit,
                 bypassed, timerVars>>

\* The page cancels (netCancel) without the shim, which goes on waiting.
CancelDirectly ==
  /\ PageRuns /\ ~ opsOut
  /\ \E id \in ToSet(requests) :
       requests' = RemoveFirst(requests, id) /\ bypassed' = bypassed \cup {id}
  /\ cancelled' = cancelled + 1
  /\ UNCHANGED <<runVars, limitVars, micro, importVars, accepted, completed, bytes, limitHit,
                 waiting, timerVars>>

\* import(): the engine keeps it until the runner asks.
Import ==
  /\ PageRuns /\ MayAsk
  /\ asked' = asked + 1
  /\ UNCHANGED <<runVars, limitVars, micro, imports, requested, counted, tried, netVars, timerVars>>

PageCode ==
  \/ OpsRunOut \/ TripLimit \/ SetTimer \/ SetDirectly \/ ClearTimer \/ ClearDirectly
  \/ QueueMicrotask \/ Request \/ CancelRequest \/ CancelDirectly \/ Import

-----------------------------------------------------------------------------
(* Evaluations.                                                            *)

\* drain: the next microtask; all that it queues comes behind.
Microtask ==
  /\ stage = "drain" /\ micro > 0
  /\ micro' = micro - 1
  /\ Evaluate("micro")
  /\ UNCHANGED <<limitVars, importVars, netVars, timerVars>>

MicrotaskEnds ==
  /\ stage = "micro" /\ Evaluate("drain")
  /\ UNCHANGED <<limitVars, micro, importVars, netVars, timerVars>>

\* The page's own code returns, or throws.  __fandheRunTimer drains the
\* microtasks in the same evaluation.  An answer that comes after the time is
\* over is too late.
Returns ==
  /\ stage = "run"
  /\ IF task = "timer" THEN Evaluate("drain") /\ UNCHANGED importVars
     ELSE \/ Evaluate("ran") /\ UNCHANGED importVars
          \/ doomed = "none" /\ Late(IF task = "import" THEN 1 ELSE 0)
  /\ UNCHANGED <<limitVars, micro, netVars, timerVars>>

\* The engine ends an evaluation: its time is up, a limit of its own, a crash.
\* Of two reasons to give up the first is reported.
Stopped ==
  /\ stage \in {"run", "drain", "micro"}
  /\ \E k \in EngineAborts :
       GiveUp(IF doomed = "none" THEN k ELSE doomed,
              IF task = "import" /\ stage = "run" THEN 1 ELSE 0)
  /\ UNCHANGED <<limitVars, micro, netVars, timerVars>>

\* After a script or an event: the checkpoint only if no limit is exceeded.
ScriptRan ==
  /\ stage = "ran" /\ task \in {"script", "event"}
  /\ \/ Tripped /\ GiveUp("resourceLimit", 0)
     \/ ~ Tripped /\ Checkpoint
  /\ UNCHANGED <<limitVars, micro, netVars, timerVars>>

\* After the answer to an import: it is counted, then the checkpoint.
ImportRan ==
  /\ stage = "ran" /\ task = "import"
  /\ \/ doomed # "none" /\ GiveUp(doomed, 1)
     \/ doomed = "none" /\ Late(1)
     \/ /\ doomed = "none" /\ Evaluate("drain")
        /\ counted' = counted + 1
        /\ UNCHANGED <<asked, imports, requested, tried>>
  /\ UNCHANGED <<limitVars, micro, netVars, timerVars>>

\* After the answer to a request only the operations are looked at.
RequestRan ==
  /\ stage = "ran" /\ task = "request"
  /\ \/ opsOut /\ GiveUp("resourceLimit", 0)
     \/ ~ opsOut /\ Checkpoint
  /\ UNCHANGED <<limitVars, micro, netVars, timerVars>>

\* Mutant of Drained: the limits are not looked at after the checkpoint.
MutDrained ==
  /\ stage = "drain" /\ micro = 0 /\ task # "timer"
  /\ \/ Late(0)
     \/ GoOn /\ UNCHANGED importVars
  /\ UNCHANGED <<limitVars, micro, netVars, timerVars>>

\* The checkpoint of a task has ended.
Drained ==
  /\ stage = "drain" /\ micro = 0 /\ task # "timer"
  /\ \/ Late(0)
     \/ Tripped /\ task # "request" /\ GiveUp("resourceLimit", 0)
     \/ (~ Tripped \/ task = "request") /\ GoOn /\ UNCHANGED importVars
  /\ UNCHANGED <<limitVars, micro, netVars, timerVars>>

\* The same for a timer: it goes back into the queue only now, so that its own
\* callback can clear it.
TimerRan ==
  /\ stage = "drain" /\ micro = 0 /\ task = "timer"
  /\ \/ Late(0) /\ UNCHANGED timerVars
     \/ opsOut /\ GiveUp("resourceLimit", 0) /\ UNCHANGED timerVars
     \/ ~ opsOut /\ GoOn /\ Rearm(hand) /\ UNCHANGED <<importVars, shimVars>>
  /\ UNCHANGED <<limitVars, micro, netVars>>

-----------------------------------------------------------------------------
(* The event loop.                                                         *)

LoopTrips ==
  /\ stage = "loop" /\ Tripped
  /\ GiveUp("resourceLimit", 0)
  /\ UNCHANGED <<limitVars, micro, netVars, timerVars>>

\* take_dynamic_import_requests: all are counted as they are taken.
TakeImports ==
  /\ stage = "loop" /\ ~ Tripped /\ imports = 0 /\ asked > 0
  /\ \/ /\ requested' = requested + asked /\ imports' = asked /\ asked' = 0
        /\ UNCHANGED <<runVars, counted, tried>>
     \/ GiveUp("engineError", 0)
  /\ UNCHANGED <<limitVars, micro, netVars, timerVars>>

\* One import: with no time left for page code, all are rejected.
StartImport ==
  /\ stage = "loop" /\ ~ Tripped /\ imports > 0
  /\ \/ Late(0)
     \/ /\ stage' = "load" /\ task' = "import" /\ imports' = imports - 1
        /\ UNCHANGED <<hand, scripts, events, engine, abort, doomed, asked, requested, counted, tried>>
  /\ UNCHANGED <<limitVars, micro, netVars, timerVars>>

\* The module is loaded, or it is not, or there are too many: the page is told
\* in each case, unless its time is over.
ImportLoaded ==
  /\ stage = "load" /\ task = "import"
  /\ tried' = IF tried >= MaxImports THEN tried ELSE tried + 1
  /\ \E reason \in IF tried >= MaxImports THEN {"resourceLimit"} ELSE {"none"} \cup EngineAborts :
       \/ /\ doomed' = reason /\ stage' = "run"
          /\ UNCHANGED <<task, hand, scripts, events, engine, abort,
                         asked, imports, requested, counted>>
       \/ /\ abort' = (IF reason = "none" THEN "wallTime" ELSE reason)
          /\ stage' = "done" /\ task' = "none"
          /\ counted' = counted + 1 + imports /\ imports' = 0
          /\ UNCHANGED <<hand, scripts, events, engine, doomed, asked, requested>>
  /\ UNCHANGED <<limitVars, micro, netVars, timerVars>>

NoImports == imports = 0 /\ asked = 0

\* One request of the page.
StartRequest ==
  /\ stage = "loop" /\ ~ Tripped /\ NoImports /\ requests # <<>>
  /\ \/ Late(0) /\ UNCHANGED requests
     \/ /\ stage' = "load" /\ task' = "request" /\ hand' = Head(requests)
        /\ requests' = Tail(requests)
        /\ UNCHANGED <<scripts, events, engine, abort, doomed, importVars>>
  /\ UNCHANGED <<limitVars, micro, accepted, completed, cancelled, bytes, limitHit, waiting, bypassed,
                 timerVars>>

\* It is answered, refused or fails (begin_delivery), and the page is told, if
\* the shim waits for it; or its time is over while it is fetched.  The shim takes the answer with
\* netConsume; if that operation is one too many, nobody hears of it.
RequestLoaded ==
  /\ stage = "load" /\ task = "request"
  /\ \/ /\ Late(0)
        /\ UNCHANGED <<opsOut, completed, bytes, limitHit, waiting>>
     \/ /\ completed' = completed + 1
        /\ \/ ~ limitHit /\ bytes < MaxBytes /\ UNCHANGED limitHit
              /\ \E body \in 0 .. 1 : bytes' = bytes + body
           \/ limitHit' = TRUE /\ UNCHANGED bytes
        /\ \/ /\ Late(0)
              /\ UNCHANGED <<opsOut, waiting>>
           \/ /\ Evaluate(IF hand \in waiting THEN "run" ELSE "ran") /\ UNCHANGED importVars
              /\ waiting' = waiting \ {hand} /\ UNCHANGED opsOut
           \/ /\ Evaluate("ran") /\ UNCHANGED importVars
              /\ opsOut' = TRUE /\ UNCHANGED waiting
  /\ UNCHANGED <<tripped, micro, requests, accepted, cancelled, bypassed, timerVars>>

NothingElse == NoImports /\ requests = <<>>

\* Nothing waits: the run ends well, with time left or without.
Idle ==
  /\ stage = "loop" /\ ~ Tripped /\ NothingElse
  /\ order = <<>>
  /\ stage' = "done"
  /\ UNCHANGED <<task, hand, scripts, events, engine, abort, doomed, limitVars, micro, importVars, netVars, timerVars>>

\* The next timer: over a limit, or taken.
NextTimer ==
  /\ stage = "loop" /\ ~ Tripped /\ NothingElse /\ Pending # {}
  /\ \/ Late(0) /\ UNCHANGED timerVars
     \/ \E id \in Ids :
          \/ IsFirst(id) /\ OverTime(id) /\ GiveUp("virtualTime", 0) /\ UNCHANGED timerVars
          \/ IsFirst(id) /\ ~ OverTime(id) /\ OverFires
             /\ GiveUp("timerFires", 0) /\ UNCHANGED timerVars
          \/ /\ Take(id)
             /\ stage' = "load" /\ task' = "timer" /\ hand' = id
             /\ UNCHANGED <<scripts, events, engine, abort, doomed, importVars, shimVars>>
  /\ UNCHANGED <<limitVars, micro, netVars>>

\* __fandheRunTimer: timerConsume has to agree, and fails without a sound if it
\* is one operation too many.  A one-shot's callback leaves the table: of the
\* timers that are taken the queue has only the intervals still.
RunTimer ==
  /\ stage = "load" /\ task = "timer"
  /\ \/ Late(0) /\ UNCHANGED <<opsOut, timerVars>>
     \/ opsOut' = TRUE /\ GiveUp("resourceLimit", 0) /\ UNCHANGED timerVars
     \/ /\ Consume(hand)
        /\ IF hand \in table
           THEN /\ Evaluate("run")
                /\ IF hand \in Pending THEN UNCHANGED shimVars ELSE Forget(hand)
           ELSE Evaluate("drain") /\ UNCHANGED shimVars
        /\ UNCHANGED <<opsOut, importVars>>
  /\ UNCHANGED <<tripped, micro, netVars>>

Finished == stage = "done" /\ UNCHANGED vars

Runner ==
  \/ Install \/ Script \/ ScriptsEnd \/ Lifecycle \/ LifecycleEnds
  \/ Microtask \/ ScriptRan \/ ImportRan \/ RequestRan \/ Drained \/ TimerRan
  \/ LoopTrips \/ TakeImports \/ StartImport \/ ImportLoaded
  \/ StartRequest \/ RequestLoaded \/ Idle \/ NextTimer \/ RunTimer

Next == Runner \/ PageCode \/ Returns \/ MicrotaskEnds \/ Stopped \/ Finished

Spec == Init /\ [][Next]_vars

\* Page code ends, by itself or with the time of its evaluation; the runner is
\* polled, and what it awaits (a fetch) ends with a time-out at the latest.
FairSpec == Spec /\ WF_vars(Runner) /\ WF_vars(Stopped)

-----------------------------------------------------------------------------
(* Type invariant.                                                         *)

TypeOK ==
  /\ TimerTypeOK
  /\ stage \in {"install", "script", "event", "loop", "load", "run", "ran",
               "drain", "micro", "done"}
  /\ task \in {"none", "script", "event", "import", "request", "timer"}
  /\ hand \in Nat
  /\ scripts \in 0 .. MaxScripts /\ events \in 0 .. 2 /\ engine \in BOOLEAN
  /\ abort \in AbortKinds \cup {"none"} /\ doomed \in EngineAborts \cup {"none"}
  /\ opsOut \in BOOLEAN /\ tripped \in BOOLEAN
  /\ micro \in 0 .. MaxMicro
  /\ asked \in Nat /\ imports \in Nat /\ requested \in 0 .. MaxWork
  /\ counted \in Nat /\ tried \in 0 .. MaxImports
  /\ requests \in Seq(1 .. MaxRequests) /\ accepted \in 0 .. MaxRequests
  /\ completed \in Nat /\ cancelled \in Nat /\ bytes \in 0 .. MaxBytes
  /\ limitHit \in BOOLEAN /\ waiting \subseteq 1 .. MaxRequests /\ bypassed \subseteq 1 .. MaxRequests

-----------------------------------------------------------------------------
(* Safety.                                                                 *)

\* event_loop.rs:391: whatever callbacks clear and register, their own timer
\* among them, every timer the queue counts as pending will come up, but for
\* the one that runs; none comes up late; and the shim has the callback of each
\* that was registered through it, whatever the page tells the queue alone.
\* timers.js:160: it keeps no more than twice the timers that may wait.
TimersAgree ==
  /\ abort = "none" => ToSet(order) = Pending \ (IF task = "timer" THEN {hand} ELSE {})
  /\ \A i, j \in DOMAIN order :
       /\ now <= entries[order[i]].due
       /\ i < j => order[i] # order[j] /\ entries[order[i]].due <= entries[order[j]].due
  /\ ~ opsOut => Entrusted \subseteq table
  /\ retained = Cardinality(table)
  /\ retained <= (IF 2 * MaxTimers > SweepMin THEN 2 * MaxTimers ELSE SweepMin)

\* An import has been loaded, or its evaluation begun, and is not counted yet.
AtImport == task = "import" /\ stage \in {"load", "run", "ran"}

ImportsCounted == requested = counted + imports + (IF AtImport THEN 1 ELSE 0)

\* The requests that somebody works at.
AtRequest == task = "request" /\ stage = "load"
Underway == ToSet(requests) \cup (IF AtRequest THEN {hand} ELSE {})

\* page_runner.rs:1880 and page_net.rs:579: whichever way the run ends, every
\* import that was taken is in the report's fulfilled, rejected or pending, and
\* every request was answered, cancelled or is the report's pending_at_end; and
\* the shim waits for the requests somebody works at and for no others, but for
\* those that the page made or cancelled without it.
NothingUncounted ==
  /\ ImportsCounted
  /\ accepted - completed - cancelled >= Len(requests)
  /\ abort = "none" =>
       accepted - completed - cancelled = Len(requests) + (IF AtRequest THEN 1 ELSE 0)
  /\ abort = "none" /\ ~ opsOut => waiting \ bypassed = Underway \ bypassed

\* A run that ends without an abort has nothing left: no timer, request, import
\* or microtask, no limit exceeded, and nobody waits for a request that was left
\* to the shim.
CompleteMeansDone ==
  stage = "done" /\ abort = "none" =>
    /\ Pending = {} /\ NothingElse /\ micro = 0
    /\ waiting \subseteq bypassed /\ ~ Tripped /\ requested = counted

\* What the report says of a run is so.
ReportIsTrue == NothingUncounted /\ CompleteMeansDone

-----------------------------------------------------------------------------
(* What a step may never do.                                               *)

\* JS-6: the first reason to give up stays, no page code runs after it, and no
\* script, event, answer or timer begins after a limit was exceeded.
FailClosed ==
  [][/\ abort # "none" => abort' = abort /\ stage' \notin {"run", "drain", "micro"}
     /\ stage' = "run" /\ stage # "run" => ~ Tripped]_vars

-----------------------------------------------------------------------------
(* Liveness.                                                               *)

\* Every run ends, with intervals that are never cleared, microtasks that queue
\* microtasks and page code that never returns.
RunEnds == <>(stage = "done")

=============================================================================
