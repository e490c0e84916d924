# Formal models of fandhe-browser

TLA+ modules for the parts of fandhe-browser whose correctness depends on
interleavings, failures and histories of calls, the TLC configurations that
check them, and TLAPS proofs of what matters most. Every definition is
translated from the Rust source; `PROJECT.json` names the lines for each
(`map`), the runs, the hazards of the code with the properties that watch
them, and one seeded bug per property that its run must catch (`mutants`).

Check one configuration with `tlc -config MCPageActor_requests.cfg MCPageActor`,
and the proofs with `tlapm` on `PageActorProofs.tla`, `PageNavigateProofs.tla`,
`ProfileProofs.tla`, `RenderingProofs.tla`, `ScriptContextProofs.tla`,
`TargetsProofs.tla`, `JsWorkerProofs.tla` and `PageRunProofs.tla`. All modules use only the standard, community and TLAPS modules.

## 1. The system

fandhe-browser is a headless browser driven over CDP (WebSocket), an AI API and
MCP (stdio). One process serves one profile.

| Component (source) | State it keeps | Operations | Interacts with |
|---|---|---|---|
| Page-script actor (`core/src/page_actor.rs`) | queue, newest generation per sequence, the running request, whether a worker lives; per request a result slot, a cancelled flag and wakers | announce a navigation, request a run, cancel, drop the future or the last handle; the worker thread pops, runs, completes, retires, dies | called by `Page.navigate`; drives the page runner |
| Navigation state (`core/src/state.rs`) | a generation and the page on record, under one lock | begin, commit, clear, snapshot | written by `Page.navigate`, read by rendering and the AI API |
| `Page.navigate` (`cdp/src/page.rs`, `navigation.rs`) | per target a navigation state; commit numbers; `Published` (what the shared state mirrors, what was put off, browser navigations in flight) | validate, begin, fetch, run scripts, commit, publish, reply; undo on failure; be dropped | actor, registry, shared state |
| Target registry, connections (`cdp/src/target.rs`, `conn_state.rs`, `protocol.rs`, `server.rs`) | targets, sessions, stopped targets, browser contexts; per connection what it attached to, discovered and owns | create, attach, discover, auto-attach, stop and resume, close, detach, reconcile after a request, release a connection that ended | `Page.navigate`, `Runtime`, script contexts |
| Profile (`profile/src/profile.rs`, `lock.rs`) | directories and files on disk, an advisory lock | open, drop, delete | other processes |
| Render gate, host renderer (`core/src/state.rs`, `render/src/host_renderer.rs`) | the generation loaded last; the current page | screenshot, visibility, bounding box | navigation state, host process |
| Host process, breaker, RSS monitor (`render/src/host_process*`) | the child, the page it is believed to show, counted failures | start, handshake, load, draw, discard, shutdown | Servo host over pipes |
| Servo host (`servo-host/src`) | engine, current page | hello, load, screenshot, queries | Servo (external) |
| Egress proxy (`render/src/egress_proxy*`) | connection counter, stop flag | accept, relay, stop | Servo host |
| Script contexts (`core/src/script_context.rs`) | queue, worker, a record and an incarnation per sequence, live contexts | evaluate, begin a generation, release; the worker takes, builds, evicts, evaluates, retires, dies | `Runtime`, JS engines |
| Page runner, modules, page network (`core/src/page_runner.rs`, `page_net.rs`, `page_script.rs`) | what is left of scripts, events, imports and requests; limits; the reason for giving up | run the scripts, fire events, run the event loop, report | DOM bridge, timers, JS engines |
| Timers (`core/src/event_loop.rs`, `core/src/js_shim/timers.js`) | entries, their order, virtual time, the timer that is up; the shim's callbacks | register, clear, take the next, consume, put an interval back, sweep | page runner |
| JS worker process (`js/src/process_engine.rs`, `worker.rs`, `v8_engine.rs`) | child process, two pipes, request under way, deadline, recorded bindings, modules, imports, native threads | evaluate, register, compile, link, run, take and finish imports, native call, kill, start again | V8 or Boa |
| DOM, CSS, fetch, AI snapshot, MCP, CLI | documents, budgets, configuration | mostly sequential or pure | all of the above |

A navigation through the system: a CDP client calls `Page.navigate`; the
handler begins a generation, fetches, asks the actor to run the page's scripts,
commits under the gate, publishes to the target list and the shared state and
replies with events. The AI API and the rendering methods read the shared state;
a rendering method loads the page into the render host if its generation has
changed, and draws.

### What is hard here

- *Interleaving.* Two locks in the actor (its state and one per request) with a
  worker that takes only the second; two locks in `Page.navigate` (`published`,
  then `gate`), released at every await; several processes on one profile
  directory; the monitor threads that kill the render host and the JS child at
  any moment; a connection's release beside other clients' requests; a page that
  changes timers, requests and imports while the runner walks them.
- *Failure half-way.* A thread that cannot start or panics; a future dropped at
  an await; a deletion that stops after the lock file is gone; a load that timed
  out after it reached the host; a JS child that dies, hangs or is late in the
  middle of an operation; a page run that is given up at any of its steps.
- *Stale state.* A page fetched for a navigation that is no longer the newest; a
  mirrored page of a target that has failed since; a record of a loaded page
  when the host died; a context of a scope that was released and registered
  again; a session whose target another client has closed.
- *Progress.* Every caller of the actor and of the script contexts gets an answer;
  a cut-off run leaves; a deletion ends; rendering recovers after the breaker's
  cooldown; every operation of the JS engine returns; every page run ends.

`PROJECT.json` lists each at its line under `hazards`, with the properties that
watch it; section 5 names two limits that are left out.

### What makes each component correct

- Actor: one worker, none while requests wait is impossible; only the newest
  navigation of a sequence runs; the first result counts; no wakeup is lost; no
  caller waits for ever.
- Navigation and publication: document, target list, shared state and events
  agree; the shared state never goes back; what is put off is settled.
- Profile: one holder; nothing is removed under the profile's name; a restored
  tree never replaces a new profile.
- Rendering: a picture is of a page that was on record during the call and
  allowed; record and host agree; failures stop restarts; service comes back.
- Targets and connections: nothing a connection held outlives it; a client that
  takes what it is told in its order knows what there is; no target stays stopped
  for nobody.
- Script contexts: what is evaluated runs in a context of its own registration;
  one worker and a bounded number of processes; everybody is answered.
- JS worker: no operation takes another's answer for its own; parent and child
  keep the same books; a lost context is reported; every operation returns.
- Page runner and timers: queue and shim agree on the timers; what the report
  says is so; after a limit nothing more runs; every run ends.

## 2. Modules

| Module | Extends | Checked by | Proved in |
|---|---|---|---|
| `PageActor` | | `MCPageActor` | `PageActorProofs` |
| `PageService` | | the abstract specification `PageActor` refines | |
| `NavigationState` | | as part of the two modules that compose it | |
| `PageNavigate` | `NavigationState` | `MCPageNavigate` | `PageNavigateProofs` |
| `Profile` | | `MCProfile` | `ProfileProofs` |
| `CircuitBreaker` | | as part of `RenderHost` | as part of `RenderingProofs` |
| `RenderHost` | `CircuitBreaker` | as part of `Rendering` | `RenderingProofs` |
| `Rendering` | `RenderHost`, `NavigationState` | `MCRendering` | `RenderingProofs` |
| `RenderContract` | | the abstract specification `Rendering` refines | |
| `ScriptContext` | | `MCScriptContext` | `ScriptContextProofs` |
| `Targets` | | `MCTargets` | `TargetsProofs` |
| `JsWorker` | | `MCJsWorker` | `JsWorkerProofs` |
| `TimerQueue` | | as part of `PageRun` | as part of `PageRunProofs` |
| `PageRun` | `TimerQueue` | `MCPageRun` | `PageRunProofs` |

The MC modules only name constants and symmetries, bound what a behaviour may
do, and give the constants that are functions.

**PageActor** (`page_actor.rs`). One action is one critical section of the
`State` lock. `cancel()` of a request the worker may hold is three further
actions (flag, result, wake), since the worker uses the request's own lock
without the state lock; `register_worker` and `is_cancelled` are two actions of
the worker. A request is `[scope, gen]`: the actor sees one request per
navigation. The queue is kept as the acceptance number of each waiting request
(`place`), which is the code's `Job::id` and its order. Wakers are the phase of
a future ("poll"/"wait") and, for the worker, `waker` and `woken`. A script run
is a run of steps that ends with `Executed` or `RunError`; a run may fail to
build its executor, panic, or park. Evicting records (`MAX_TRACKED_SCOPES`) is
part of the action that adds one. The release build aborts on panic (`panic =
"abort"`); the panic path is modelled because the other profiles unwind and the
guards are written for it. **PageService** is the abstract specification, the
contract at the head of `page_actor.rs` (lines 21 to 38): a bounded line, one request
served at a time, one answer each, and a reason for every refusal and cancellation. It
has no threads, flags or tables. PageActor maps `place`, `running` and `slot` to the
line, the request served and the answers, a future to what its caller did with it
(`CallerStage`), and a cancellation that has not answered yet to the request being
called off (`Revoking`). In one point the contract is weaker than one might wish, as
the code is (`MAX_TRACKED_SCOPES`, line 480): behind a navigation of its sequence that
is over, a late request may still be accepted, since the record may be gone; it never
passes one that waits or is served unanswered.

**NavigationState** (`state.rs`). The generation and the page, for a set of
navigation sequences, as operators that PageNavigate and Rendering compose.
`MaxGen` bounds the generation. That `begin` and `clear` refuse at `u64::MAX`
is not followed further.

**PageNavigate** (`page.rs`, `navigation.rs`). One action per section of `gate`;
a section of `published` that does several things keeps `publisher` set in
between. A page is named by the call that loads it, and so is its URL. Abandon is
the handler's future being dropped at an await, with what its guards
(`BrowserFlight`) do. The variable `parallel`, which never changes, says whether
handlers run on several threads; both are initial states of the one run.
The shipped server uses one (`launch.rs:156`), where calls interleave at awaits
only; `Turn` encodes that. The locks of page.rs are meant to suffice without it,
so every property is asked of both, except that `FailedPageIsWithdrawn` needs
the one thread: with several, a browser navigation that will be refused may have
entered just when a target's failure looks at `browser_in_flight`; the failure
leaves the target's page on the shared state and nothing removes it later.

**Profile** (`profile.rs`, `lock.rs`, unix). One action per system call that reads
or changes what another process may change: directories with the profile's name,
a tombstone name or none; a lock file per directory; a lock per open file. Any
call may fail, and a process may die anywhere. `Dirs` and `Files` are inode
numbers, reused when nobody can reach them.

**CircuitBreaker** (`breaker.rs`) and **RenderHost** (`host_process.rs`,
`rss.rs`, servo-host `page.rs`, `server.rs`). Instants are relative to now: a
failure is its age, the cooldown the ticks left. `LoadedPage` holds two numbers
of generations that are only ever compared with the current ones: they are
kept as "still current". An exchange of frames is one action with its possible
ends (answer, error answer, crash or timeout, refused before it is sent). The
host side is the page it shows and its engine. The monitor's kill and any other
death of the host is `HostDies`, at any moment; that the monitor also changes the
error's name does not matter, since all of these count. What counts and what
does not (`counts_as_failure`) is in the actions. `stable` is a switch that is
thrown once, after which nothing fails by itself; only `Recovers` uses it.
`history` keeps the ages of the last failures apart from the breaker's own
bookkeeping.

**Rendering** (`state.rs` RenderGate, `host_renderer.rs`). The gate's snapshot,
the load if the generation differs, the check of the URL, the call on the page,
over RenderHost, with Begin, Commit and Clear of the shared navigation at any
time in between. The gate's lock is held for the whole call, so one call is
under way at a time. A generation is committed at most once, as PageNavigate
does. **RenderContract** is the abstract specification: three variables a client
can speak of and a history variable, `candidates`, of the pages on record since
the call began.

**ScriptContext** (`script_context.rs`). Queue, worker and guard are built as in
the actor, but contexts outlive the evaluation they were made for. One action is
one critical section of the `State` lock; a record is `announced` (the
generation) with `incarnation`, and a context carries the key and the
incarnation it was built under. `contexts[w]` is the table a thread owns; a
thread that dies keeps it until its guard has run, which is a step of its own, so
that a successor may start in between. A script ends with an answer that leaves its
context as it was (a value, an exception, a timeout), or with an engine's error
that costs the context.

**Targets** (`target.rs`, `conn_state.rs`, handlers in `playwright_compat.rs`,
`protocol.rs`, `server.rs`). The table of connections has one lock, held over
the calls into the registry, so that a handler is one action; enabling
auto-attach and reconciling list the targets first and attach to them one by one
(`job`), and the release of a connection that ended (`ended`, `detach`,
`dispose`, `orphans`, `prune`) holds no lock between its steps. A session is
named by its connection, its kind and its target, and a target's id is free again
when nothing names it any more: `MaxIds` bounds how many are in use at a time, not
how many there have been. What a task has still to do is a set (`job[c].ids`),
taken in the order in which the registry lists its tables. `reply[c]` is the sequence of events that goes
out with an answer; `told[c]` is what a client believes that takes them one after
the other, so that of what one reply tells of a session or target the last event
counts (`Heard`). The run `targets_order` finds replies that tell the end of a session
before its beginning (`Crossed`): such a client believes in a session that is over,
and `told[c].ghosts` keeps which ones. The properties of notices name this one case and
leave out no other.

**JsWorker** (`process_engine.rs`, `worker.rs`, `v8_engine.rs`). One action is a
frame sent or received, a native thread started, ended or left behind, a deadline
that passes, or a death of the child. `up` and `down` are the pipes. The parent's
books (`bindings`, `natives`, `known`, `pending`) stand beside the child's
(`modules`, `awaiting`, ...). A child may crash, hang or be killed by the memory
monitor at any moment, also between a deadline's passing and its being noticed;
`relied` is the caller's belief that its context is the one it has worked in.
Values, scripts and the handshake are left out.

**TimerQueue** (`event_loop.rs`, `js_shim/timers.js`) holds the queue's
operations and the shim's table as conjuncts of actions. `order` keeps the ids
as the code's `BTreeMap` sorts its keys, by the due time and then by turn.
**PageRun** (`page_runner.rs`, `module_graph.rs`, `page_net.rs`, the shims)
composes them: `stage` and `task` say what the runner is at, and while page code
runs (`PageRuns`) the page may register and clear timers, send and cancel
requests, queue microtasks, ask for imports, and exceed a limit, in any order.
The page may do the first four through the shim (`SetTimer`, `ClearTimer`, `Request`,
`CancelRequest`) or with `__dom.op` past it (`SetDirectly`, `ClearDirectly`, a
disjunct of `Request`, `CancelDirectly`), and the shim then knows nothing of it. The
field `direct` of a timer's entry and `bypassed` are history: they say which timers
and requests that was. Every reading of the page's clock may
find that the time is over (`Late`). Scripts are run, dropped or refused; the
sources were fetched before and modules only load, fail, or exceed a limit.

## 3. Runs

All runs except the ones marked *violated* pass; TLC visits every action.

| Run | Asks | Bounds |
|---|---|---|
| `actor_requests` | what waits or runs is the newest of its sequence or is cut off, even when records are evicted (`CutOff`); PageActor implements PageService, the order of acceptance included (`ImplementsService`); `TypeOK` | 2 sequences × 2 generations, 2 places, 1 record: the table overflows with requests waiting and running, and the sequences meet in the line, in the table and while one is being cancelled; a third sequence only meets the full queue |
| `actor_threads` | one worker, nobody stranded or orphaned (`Served`); the first answer stands, stale runs never count (`ResultsStand`); no lost wakeup (`CutOffRunWakes`); callers are answered, a cut-off run leaves, the last handle's drop ends the thread (`EverythingEnds`) | 1 sequence × 2 generations, 2 threads, capacity 1; a replaced request and a dying worker occur |
| `navigate` | documents, target list, shared state and events agree (`UrlFollowsNavigation`, `EventsMatchState`); the shared state shows the newest commit once nothing is under way, although clients go away (`SharedSettles`), and never goes back (`SharedMovesForward`); a failed target's page is not left on show (`FailedPageIsWithdrawn`); `TypeOK` | 3 calls on 2 targets and the shared state, with one thread and with several, one target may close |
| `profile_use` | exclusive opening of the directory that has the profile's name, as long as no deletion failed half-way (`ExclusiveOpen`); a restored tree replaces nothing and nothing is removed under the profile's name (`NameIsSafe`); a deletion ends (`DeletionEnds`); `TypeOK` | 2 processes that open, drop, delete and crash, 2 directories and lock files at a time, 2 passes |
| `profile_double` | `ExclusiveRoot` with deletions: *violated* | the same |
| `render_gate` | Rendering implements RenderContract (`ImplementsContract`); gate, record and host agree (`GateAgrees`, `RecordMatchesHost`); counted failures stop restarts (`RestartsPause`); a recorded page is drawn some time (`Recovers`); `TypeOK` | 2 loadable pages and about:blank, 3 generations, threshold 2, window and cooldown 1 tick: the cooldown is no shorter than the window, as in the code (60 s each) |
| `render_engine` | a host without Servo is replaced (`EngineIsReplaced`): *violated* | 1 page |
| `script_contexts` | an evaluation runs in a context of its own registration, and no stale one is taken up (`RunsAreCurrent`); one worker, bounded processes (`WorkersBounded`); everybody is answered, contexts of nobody go (`WorkIsDone`); `TypeOK` | 2 scopes × 2 generations × 2 worlds, 2 evaluations, 2 records in a behaviour, 2 threads; queue, records, processes and processes per scope all bounded by 1, so that each limit is met |
| `targets` | sessions, stops, contexts and navigation states are given back (`NothingLeaks`); a client that takes its events in their order believes in what its record says, and in ghosts only beyond it (`NoticesAgree`); no stopped or new target is forgotten (`NobodyWaitsForever`); `TypeOK` | 2 target ids (`MaxIds`), 3 sessions, 1 context; one client that works with tabs, children and stops, one with pages and a context; each closes what the other uses |
| `targets_order` | a session's beginning is told before its end (`AttachedBeforeDetached`): *violated* | the same |
| `js_worker` | no answer is taken for another's, parent and child keep the same books (`WorkerAgrees`); the caller hears of a lost context (`LossIsTold`); every operation returns (`OperationsReturn`); `TypeOK` | 2 global names, one with a function, 1 module, 2 imports of which 1 may be pending, 2 native threads: one left behind and one more |
| `page_run` | every registered timer comes up in its turn, and the shim has the callback of each that it was given (`TimersAgree`); what the report says is so (`ReportIsTrue`); nothing begins after a limit (`FailClosed`); every run ends (`RunEnds`); `TypeOK` | 1 script, 2 events, any 3 of timers, requests and imports, at most 2 timers waiting, 3 firings, 1 ms of virtual time, 1 microtask, 1 request, 1 byte, 1 import: each limit can be exceeded |

Why the bounds suffice for what is asked: each property relates at most two
requests, calls, processes, timers or pages and one that interferes; capacities,
thresholds and tables are set to the smallest value at which they overflow
within the bound. `ExclusiveOpen` speaks only of the profile's name because, of three processes, two
can each lock a `profile.lock` of their own inside a tree that the third is
deleting under a private name, without any failure: TLC found that on a third
process, the theorem of section 4 holds for any number. Symmetry is used only in
runs without liveness properties.
Deadlock is checked except in the runs of the actor, the script contexts and the
JS worker, where all callers can be done and the thread or process gone. In the profile
and rendering models there is always a next call, in Targets a next request;
PageNavigate and PageRun have a step for having ended.

Some properties join parts that one question asks for:
`Served` is one worker, no stranded queue, no orphan and `running` naming the
request that is held; `ResultsStand` is `FirstResultWins` and
`StaleNeverExecutes`; `EverythingEnds` is `EveryRequestResolves` and `RunsEnd`;
`SharedSettles` is `FlightAccounted` and `SharedIsNewest`; `SharedMovesForward`
is `OnlyBrowserSupersedes` and `SharedNeverRewinds`; `NameIsSafe` is `OneRoot` and
`RemovalIsHidden`; `RunsAreCurrent` is `RunsInItsContext` and `NoStaleRun`;
`WorkersBounded` is `OneWorker` and `ProcessesBounded`; `WorkIsDone` is
`EveryEvaluationResolves` and `StaleContextsGo`; `NoticesAgree` is
`ClientsInformed` and `NoticesInOrder`; `ReportIsTrue` is `NothingUncounted` and
`CompleteMeansDone`.

### Fairness

- PageActor: threads are scheduled and futures that were woken are polled (weak
  fairness of every worker and caller step). Nothing is assumed of what a run
  awaits, except in `EveryRequestResolves`, whose premise `RunFairness` is the
  page runner's wall-clock limit: a run ends.
- PageNavigate: none. What should come about in the end is stated of the states in
  which no browser call is under way.
- Profile: a call goes on or its process dies; nothing is assumed about errors.
- Rendering: a call goes on, since every wait for the host has a timeout; time
  passes; somebody asks for a picture again and again.
- ScriptContext: the worker's thread goes on, since every evaluation has a timeout
  in the engine; a future that was dropped or woken is taken out (`Withdraw`).
- Targets: none; `NobodyWaitsForever` says of each state that a task is on the way.
- JsWorker: the operation takes its steps and its deadline passes some time.
  Nothing is assumed of the child, of native functions or of the monitor.
- PageRun: the runner is polled, a fetch has a timeout, and an evaluation that does
  not return is stopped by the engine's own (`Stopped`). Nothing is assumed of
  the page.

### Disagreements between code and comments

- `profile_double`: two processes can have one profile open if a deletion failed
  after unlinking `profile.lock` and gave the tree its name back. It takes an
  input/output error or interference during the deletion.
- `render_engine`: page.rs says the parent replaces a host whose Servo could not be
  created; HostProcess takes its error answer for a healthy one and keeps it.
- `targets_order`: `insert_auto_events` (protocol.rs:756) puts the
  detachedFromTarget of the reconciliation before the attachedToTarget of the
  same session, if another client closes the target in between.

Noticed while modelling, without a run of its own:

- breaker.rs:27 and 37 say that one start is let through after the cooldown;
  `check` (breaker.rs:44) does not look at `half_open`, so that starts that fail in
  a way that is not counted may follow each other.
- engine_trait.rs:178 and 679 say that module ids of before a restart are invalid;
  V8ProcessEngine forwards a caller's id unchecked (process_engine.rs), and the
  new worker counts from the beginning again.
- `Runtime.evaluate` looks at the generation of its scope, awaits and evaluates; a
  scope that is released meanwhile is registered again by the evaluation and
  keeps its record until the next release.
- page_runner.rs leaves out the microtask checkpoint after a script or event that
  exceeded a limit, but not the one after a network answer or an import. A
  one-shot timer can be taken and counted without its callback being run, if the
  clock ends between the loop's look at it (page_runner.rs:1952) and that of
  `evaluate_with_budget`; the run is given up then anyway.
- module_graph.rs:1131 would leave an import uncounted that an engine cannot take
  (Unsupported or NotYetImplemented to the finish of a dynamic import); no engine that
  hands out dynamic imports answers so. `ImportRan` counts it in every case.

## 4. Proofs

`PageActorProofs` proves for all finite or infinite sets of sequences and
threads and every value of `MaxGen`, `Capacity` and `MaxTracked` (assumed
positive numbers, with `NoJob` and `NoWorker` outside the sets they mark):

| Theorem | Property |
|---|---|
| `TypeCorrect` | `TypeOK` |
| `EverybodyServed` | `Served` (by `NobodyStranded` and `EveryRequestKnown`) |
| `OnlyNewestRuns` | `CutOff`, and `NewestOnly`, which follows from it |
| `ResultsAreFinal` | `ResultsStand` (by `FirstResultStays` and `StaleStaysUnexecuted`) |
| `NoLostWakeup` | `CutOffRunWakes` |
| `AcceptedInOrder` | `FirstComeFirstServed`: of the threads, what `ImplementsService` says of the line |
| `QueueStaysBounded` | the queue stays within its capacity |
| `ActorImplementsService` | `ImplementsService` |

The inductive invariant is `IInv == TypeInv /\ WorkerInv /\ RequestInv`.
`TypeInv` adds to `TypeOK` what the position of a thread says about what it
carries (`StagesOK`): without it `cur[w]` could be no job where a step uses it.
`WorkerInv` is self-supporting given `TypeInv`: the queue grows only while a
worker lives, and a worker leaves only with an empty queue or by clearing it.
`RequestInv` (`Apart /\ CutOff`) is needed for everything about single requests:
that `NewestOnly` survives an eviction, for example, rests on the evicted
sequence having no waiting request and only a running one that is being cut
off. `WakeInv`, `ServedInv` and `BoundInv` are added on top for wakeups, orphans
and the capacity, and `ContractInv` for the refinement: places are given out in
ascending order, what `running` names is in the hands of a thread, the worker puts a
request aside only when it has its answer, and a record is of a navigation that
began. With it every action is mapped by a lemma (`BeginMapped`, ..., `GuardMapped`) to
a step of PageService, or to none: the booting, parking and retiring of threads, the
flag and the waker, and a ticket that comes after the answer go unseen
(`Unseen`). Each invariant is proved action by action, the callers', the
canceller's and the worker's actions in a lemma of their own.

`PageNavigateProofs` proves, for any targets, any calls, finitely or infinitely
many, any `MaxGen`, and handlers on one thread or on several (`NavsAssumption`,
`NoPageAssumption`, `MaxGenAssumption`),

| Theorem | Property |
|---|---|
| `TypeCorrect` | `TypeOK` |
| `ListMatchesDocument` | `UrlFollowsNavigation` |
| `SettledSharedIsNewest` | `SharedSettles` |
| `FailureWithdrawsPage` | `FailedPageIsWithdrawn` |
| `SharedForward` | `SharedMovesForward` |
| `EventsRight` | `EventsMatchState` |

Its invariant `IInv` begins with `Basics`: what a call has by the time it has come
so far (`Stages`, `Where`), that the generations of two calls on one state do not
overlap (`Numbers`), so that "still current" means one call, what being on record
says (`OnRecord`), that commits have numbers of their own (`Sequence`), and that
`browser_in_flight` counts right (`Flight`). `Publication` is what the two locks are
for. What was put off is the newest commit (`PutOff`); a mirrored page is on show
only with the generation it was mirrored under, and a browser navigation that has
begun leaves none (`Mirrors`); only such a navigation, between its commit and its
publication, shows something newer than what was published (`Shown`); and the
newest published commit is on show, put off, or overtaken by a browser navigation
(`Newest`). `SharedSettles` is what these say when nobody is under way; none of them
could be left out. `Withdrawn` is `FailedPageIsWithdrawn` for every state, and the
only part that needs the one thread.

`ProfileProofs` proves, for any number of processes, directories, lock files and
passes (`DeletersAssumption` and the names of nothing),

| Theorem | Property |
|---|---|
| `TypeCorrect` | `TypeOK` |
| `OpenIsExclusive` | `ExclusiveOpen` |
| `NameStaysSafe` | `NameIsSafe` |

by `Inv`. That the lock excludes is plain (`Locked`); what has to be shown is that two
processes in one directory compete for the same lock file. `Whole` says so of the
trees that nobody has begun to empty, and is kept because a tree is emptied only
under a private name (`Removals`) that one process has given it for that purpose
(`Moves`) and that nobody else can rename. A deletion that failed half-way breaks
`Whole`, which is what the run `profile_double` shows.

`RenderingProofs` first proves of RenderHost alone (`HostSpec`), for any set of URLs and
any settings of the breaker with `Window <= Cooldown`,

| Theorem | Property |
|---|---|
| `RecordAlwaysMatches` | `RecordMatchesHost` |
| `HostsPause` | `RestartsPause` |

`HostInv` suffices for the first: what is recorded and what is shown are URLs or
nothing, a call under way has an operation, and the two agree; the breaker plays no
part in it, nor does the liveness of the child, since a host that dies shows
nothing. The second is about the breaker alone. `history` keeps all the last
failures, the breaker forgets some: when it trips, and when a half-open one
succeeds. `PauseInv` says how the two go together:
the ages are ordered (`Ordered`); while the breaker is open there is no host, and the
newest failure is as old as the part of the cooldown that is over (`WhileOpen`); a half-open
breaker has no failure within the window behind it (`HalfOpen`); a closed one counts
every failure within the window (`Counted`), so that `Threshold` of them have opened it
(`Paused`).
`CooldownAssumption` is needed: both are 60 seconds in the code (breaker.rs:15 and 19), and with a
shorter cooldown (threshold 3, window 10, cooldown 2) the failures from before the pause would
still be within the window when it is over, but no longer be counted.

It then proves of Rendering, for any pages, any set of allowed URLs among them and any
`MaxGen` (`RenderingAssumption`, `NoUrlAssumption`, `MaxGenAssumption`),

| Theorem | Property |
|---|---|
| `GateStaysInAgreement` | `GateAgrees` |
| `RenderingImplementsContract` | `ImplementsContract` |
| `TypeCorrect` | `TypeOK` |
| `RestartsAreHeldBack` | `RestartsPause` |

Its invariant is `RInv == HostInv /\ NavInv /\ CallInv`. `NavInv` says what a
generation that the gate or a snapshot remembers still means: as long as it is the
present one, nothing is undecided and the page on record is the one it was taken
with; a commit cannot change that, because a generation that awaits its commit has
no page to take. It also carries the pages a call works on through to `seen`.
`CallInv` connects the call to the process below: an exchange belongs to the call
under way and is about its page, and what is about to be drawn is allowed. The
part that is easy to miss is `Bad`: after a load that ended on a page that is not
allowed, host and record agree on that page, and only the renderer's current page
being none keeps the next call from drawing it. Each step of Rendering is then a
step of RenderContract or a stutter: navigations map to `Navigate`, Start to
`Begin`, every end of a call to `Answer`, everything below to a stutter. The last two theorems carry `PauseInv` and the types through the
composition, where a call may begin or be given up between any two steps of the host.

`JsWorkerProofs` proves, for any global names with any numbers of functions and
any positive limits (`MembersAssumption`, `LimitsAssumption`),

| Theorem | Property |
|---|---|
| `WorkerTypes` | `TypeOK` |
| `NoCrossTalk` | `WorkerAgrees` |
| `LossesAreTold` | `LossIsTold` |

Its invariant `IInv` has one part per question. `Types`, `Flags`, `ChildTypes` and
`Slots` bound the variables; `Slots` counts the native threads that operations have left
behind. `Functions` says that a recorded number leads to a function of its own
name, whatever was registered since. `Stages` says what an operation's stage means
for the worker: without one, nothing of it is left. `Alive` and `Dead` hold the
argument for `NoCrossTalk`: while a child lives, the pipes hold exactly what the
stages of both sides allow (a request not yet read, or one answer, or a call and
its answer), with the books of both sides equal up to that frame; once it is
gone, what is still in the pipe to the parent is a prefix of such a sequence or a
torn frame, which the parent never takes for an answer. `Imports` keeps an
import from being taken twice, `Single` says that the parent writes one frame at a
time, and `Memory` ties `relied` to the worker in use. A
killed child stays in use until the operation notices, which is why `LossIsTold`
speaks of `used` and not of the process.

`PageRunProofs` proves, for any limits including zero (`TimerBoundsAssumption`,
`RunBoundsAssumption`),

| Theorem | Property |
|---|---|
| `TypeCorrect` | `TypeOK` |
| `RunsFailClosed` | `FailClosed` |
| `QueueAndTableAgree` | `TimersAgree` |
| `ReportsAreTrue` | `ReportIsTrue` |
| `NoImportLost` | `ImportsCounted`, a part of `ReportIsTrue` |

`FailClosed` rests on `ClosedInv`: a run that was given up is at one of the three
stages that only pass over what is left (`Closed`), and wherever the runner is about
to begin something it has looked at the limits since page code ran last
(`Unlimited`). `CountInv` is for the imports: one is at hand only within its own task, so
that each way of giving up, each of which says how many imports are at hand, counts
right; `NetOK` does the same for requests and for what the shim still waits for, but for
those that the page made or cancelled past it.
The timers need three parts. `QueueOK` is the queue by itself: registered ids
below the last one given out, sorted by due time and then by turn, none of them
over. `HandOK` says that the timer that runs, and no other, is registered without
waiting; page code may clear it, itself or others meanwhile. `ShimOK` is the shim's
table: as long as operations last it has every timer that waits and was registered
through the shim (`Entrusted`), and it is swept before it grows beyond its limit; ids are
not used again, so that a timer registered past the shim never gets another's callback. `BudgetOK` and `Idling` complete the types.

`TargetsProofs` proves, for any number of connections, target ids and requests and any
limits of the tables (`TargetBoundsAssumption`, `TargetNamesAssumption`, `FiltersAssumption`),

| Theorem | Property |
|---|---|
| `TypeCorrect` | `TypeOK` |
| `NothingIsLeaked` | `NothingLeaks` |
| `NobodyWaits` | `NobodyWaitsForever` |
| `NoticesStayInStep` | `NoticesAgree` (`ClientsInformed` and `NoticesInOrder`) |

None of them is inductive. `IInv` adds what each task may be about to do
(`Stages`): a release has only sessions of its own left to give back, a handler that
closes targets forgets only targets that are gone, a connection that gives back has
no record any more. A record names a child only beside its tab (`Records`), and a
child's session does not outlive its tab's (`Tabs`): this is what keeps a session
in the record of its connection (`Held`) when a sweep drops the tab because its
session is gone. A step of one connection has to leave what `IInv` says of the others alone
although it may take their targets away: `Frame`, `LiveEffect`, `StopEffect` and `EndEffect` say
once what a step can do to other tasks, to sessions, to stops and to navigation states.
A new target's id is one that nothing names (`Fresh`), so that nobody who is
still to forget an old one can hit it.

`NoticesStayInStep` rests on a second invariant on top of `IInv`, which TLC finds true of
all states of the run `targets` (`NoticesInvariance`). `Books` weighs a connection's
record against what its client was told, ghosts apart, and what the reply is about to
tell it (`Balanced`), at every point between a request and its answer: sessions that a sweep
took out of the record and that nobody reported yet (`gone`) still count. It says of
the reply that no notice comes after one it has to precede (`Fine`; `Clash` names the
pairs) and that the reconciliation can put its events into it (`Ready`): what a handler
says before its answer is only created and attached, and what it says after is
either all attached or has no attached at all. From that, `Inserted` shows that
`insert_auto_events`, which finds its two places by the methods of the events alone,
keeps every pair in order. `Current` says which parts of record and reply still agree with
the tables, which other connections change meanwhile: a recorded session whose target is
there is in the table, so that a sweep finds nothing gone whose target is not; and what a
reply calls destroyed is gone, so that the reconciliation does not create it again. Ids
matter here too: a target that is gone stays gone under every name that a record or a
reply still holds (`Back`). `Haunted` says that a ghost is something its client believes
in. A reply is read event by event where it is sent; since none that is `Fine` says anything
twice or calls a target destroyed before created, this comes to taking all it announces
and then away all it ends, with the crossed sessions as the only rest (`InTurn`,
`HeardNotices`, `HeardSessions`).

`ScriptContextProofs` proves, for any scopes, worlds, evaluations, threads and limits
(`ScriptBoundsAssumption`, `NoEvalAssumption`, `NoKeyAssumption`),

| Theorem | Property |
|---|---|
| `Types` | `TypeOK` |
| `WorkersStayBounded` | `WorkersBounded` |
| `RunsStayCurrent` | `RunsAreCurrent` |

None of the three is inductive. The invariant adds `Threads`: a thread that works, or
that still has contexts, carries the last number given out, and numbers differ, so
that there is one such thread (`OneOwner`); `Sizes` bounds what that thread keeps, and
with it the processes of all. `Records` says that a record is of the generation
announced last, which makes the worker's look at the records (`IsCurrent`) as good as a
look at the history. `Places` keeps an evaluation in one place, the queue or the hands
of the worker, so that whoever answers another one leaves its key alone; and `Matching`
is `RunsInItsContext` from the moment the evaluation was taken: the same critical
section that found it up to date drops every context that is not, and the worker builds
only for the registration it was accepted for.

Every safety property of a run that passes is a theorem. Only model-checked: all liveness
(`EverythingEnds`, `DeletionEnds`, `Recovers`, `WorkIsDone`, `OperationsReturn`, `RunEnds`), which together with
ENABLED is beyond the prover; and the three runs that end in a violation.

## 5. Not modelled

Parsing, formatting and path checks; the algorithms of the DOM, of CSS and of
the snapshots (sequential, about text); bindings to V8, Boa and Servo; OS isolation
and memory probes (their effect, a start that fails or a process that dies, is in
RenderHost and JsWorker); the HTTP and WebSocket transport, which is another
repository's. In the profile, checks that only refuse and Windows. In Targets, what
belongs to one session and goes with it, downloads and node ids. In PageRun, the
fetching of the sources before the run, the graph of modules, and the outcomes of
single scripts; in the page network, `fetch.rs`, whose time-out is a
premise here. A large part of the code (the bridges to the engines, the
accessible names, the DOM's operations, the CDP's compatibility answers) keeps no
state between calls or computes text, so that the models cover the concurrent
core and not a large share of the lines. `PROJECT.json` gives the reason for each
component.

Two limits are left out: the generation counter at
`u64::MAX` (`state.rs:223`), which `begin` and `clear` refuse; and the length a line
carries from one read to the next in `mcp/src/limit.rs:19`, a sequential
algorithm that its unit tests reach.

## 6. Plan

Done: the actor with its contract and proofs, navigation and publication, the profile,
rendering with its contract, script contexts, targets and connections, the JS
worker with its proofs, the page runner with timers and the page network. Next:

1. *EgressProxy*: the counter at its limit, stop while threads accept and relay.
2. `Runtime.evaluate` over ScriptContext and NavigationState: the generation looked
   at before and after the await; scopes that are released meanwhile.
3. Composition of Targets with PageNavigate, whose CloseTarget stands for it now.
4. The graph of modules (`module_graph.rs`) as a pure algorithm against a reference
   definition; `limit.rs` and the plugin registry likewise.
5. An abstract specification of publication (one register with a commit number),
   refined by PageNavigate, and the proof of that.
