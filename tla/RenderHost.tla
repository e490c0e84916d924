------------------------------ MODULE RenderHost ------------------------------
(***************************************************************************)
(* HostProcess of crates/fandhe-browser-render/src/host_process.rs and the *)
(* host it runs (ServoHandler of servo-host/src/page.rs): starting it,     *)
(* loading a page, drawing it, and what both know of the page after        *)
(* crashes, timeouts, errors and restarts.                                 *)
(*                                                                         *)
(* HostProcess is used by one call at a time (&mut self).  What goes on    *)
(* beside a call: the host dies, killed by the RSS monitor or by itself,   *)
(* and time passes.  The pipes, the threads on them and the working        *)
(* directory are abstracted to how an exchange of frames can end.          *)
(***************************************************************************)
EXTENDS CircuitBreaker

CONSTANTS Urls, NoUrl

ASSUME NoUrlAssumption == NoUrl \notin Urls

VARIABLES
  \* --- HostProcess ----------------------------------------------------
  running, \* there is a child that was not torn down
  loaded,  \* LoadedPage: its URL, and whether the numbers of the navigation
           \* and of the host are still the current ones; or NoUrl
  op,      \* the call under way: [do, url]
  hp,      \* where it stands
  reply,   \* what it returned
  \* --- the child ------------------------------------------------------
  alive,
  engine,  \* ServoHandler::engine and engine_failed: "none", "up", "failed"
  shown,   \* ServoHandler::page: what was loaded, and whether the page it
           \* ended on is allowed; or NoUrl
  \* --- around ---------------------------------------------------------
  stable,  \* from now on nothing goes wrong by itself
  history  \* the ages of the last Threshold counted failures

childVars == <<alive, engine, shown>>
hostVars  == <<breakerVars, running, loaded, op, hp, reply, childVars, stable, history>>

NoOp    == [do |-> "nothing", url |-> NoUrl]
NoReply == [is |-> "none", url |-> NoUrl, allowed |-> FALSE]
Error   == [NoReply EXCEPT !.is = "error"]
\* on_reload refused where the reload ended
Rejected == [NoReply EXCEPT !.is = "rejected"]

HostTypeOK ==
  /\ BreakerTypeOK
  /\ running \in BOOLEAN
  /\ loaded \in [url : Urls, nav : BOOLEAN, host : BOOLEAN] \cup {NoUrl}
  /\ op \in [do : {"load", "draw"}, url : Urls] \cup {NoOp}
  /\ hp \in {"idle", "ensure", "check", "spawn", "hello", "load", "draw"}
  /\ reply \in [is : {"loaded", "drawn"}, url : Urls, allowed : BOOLEAN]
                 \cup {NoReply, Error, Rejected}
  /\ alive \in BOOLEAN
  /\ engine \in {"none", "up", "failed"}
  /\ shown \in [url : Urls, allowed : BOOLEAN] \cup {NoUrl}
  /\ stable \in BOOLEAN
  /\ history \in Seq(0 .. Window + Cooldown) /\ Len(history) <= Threshold

HostInit ==
  /\ BreakerInit
  /\ running = FALSE /\ loaded = NoUrl
  /\ op = NoOp /\ hp = "idle" /\ reply = NoReply
  /\ alive = FALSE /\ engine = "none" /\ shown = NoUrl
  /\ stable = FALSE /\ history = <<>>

-----------------------------------------------------------------------------
NoChild == alive' = FALSE /\ engine' = "none" /\ shown' = NoUrl

Return(r) == op' = NoOp /\ hp' = "idle" /\ reply' = r

\* A counted failure.
Failure ==
  /\ RecordFailure
  /\ history' = SubSeq(<<0>> \o history, 1,
                       IF Len(history) < Threshold THEN Len(history) + 1 ELSE Threshold)

\* discard, for the errors that count: the child is killed and forgotten.
Discard == running' = FALSE /\ loaded' = NoUrl /\ NoChild /\ Failure

\* load with a new number of the navigation, or call_on_page_checked.
Call(do, url) ==
  /\ hp = "idle"
  /\ op' = [do |-> do, url |-> url]
  /\ hp' = "ensure"
  /\ reply' = NoReply
  /\ loaded' = IF do = "load" /\ loaded # NoUrl THEN [loaded EXCEPT !.nav = FALSE] ELSE loaded
  /\ UNCHANGED <<breakerVars, running, childVars, stable, history>>

\* needs_reload
NeedsReload ==
  loaded = NoUrl \/ loaded.url # op.url \/ ~ loaded.nav \/ ~ loaded.host

\* The host that had been started runs still: what is sent to it?
Ready == hp' = IF op.do = "load" \/ NeedsReload THEN "load" ELSE "draw"

-----------------------------------------------------------------------------
(* ensure_running and spawn                                                *)

EnsureRunning ==
  /\ hp = "ensure"
  /\ \/ running /\ alive /\ Ready
        /\ UNCHANGED <<breakerVars, running, loaded, childVars, history>>
     \/ running /\ ~ alive /\ Discard /\ hp' = "check"
     \/ ~ running /\ hp' = "check"
        /\ UNCHANGED <<breakerVars, running, loaded, childVars, history>>
  /\ UNCHANGED <<op, reply, stable>>

Check ==
  /\ hp = "check"
  /\ \/ Refuses /\ Return(Error) /\ UNCHANGED breakerVars
     \/ Pass /\ hp' = "spawn" /\ UNCHANGED <<op, reply>>
  /\ UNCHANGED <<running, loaded, childVars, stable, history>>

Spawn ==
  /\ hp = "spawn"
  /\ running' = TRUE
  /\ alive' = TRUE
  /\ hp' = "hello"
  /\ UNCHANGED <<breakerVars, loaded, op, reply, engine, shown, stable, history>>

\* fail_spawn counts; WorkDirFailed and EgressIsolationUnavailable do not.
SpawnFails ==
  /\ hp = "spawn" /\ ~ stable
  /\ Failure \/ UNCHANGED <<breakerVars, history>>
  /\ Return(Error)
  /\ UNCHANGED <<running, loaded, childVars, stable>>

\* handshake: the greeting may still come from a host that is dead by now.  The
\* number of the host has changed, so that needs_reload says yes.
Hello ==
  /\ hp = "hello"
  /\ loaded' = IF loaded = NoUrl THEN NoUrl ELSE [loaded EXCEPT !.host = FALSE]
  /\ hp' = "load"
  /\ UNCHANGED <<breakerVars, running, op, reply, childVars, stable, history>>

\* ExitedBeforeHello, Timeout, ProtocolMismatch, ProtocolViolation
HelloFails ==
  /\ hp = "hello" /\ (~ alive \/ ~ stable)
  /\ Discard /\ Return(Error)
  /\ UNCHANGED stable

-----------------------------------------------------------------------------
(* exchange, load_inner and what the host does with the request            *)

\* Mutant of NotSent: the page is recorded before the request is sent.
MutNotSent ==
  /\ hp \in {"load", "draw"} /\ ~ stable
  /\ loaded' = [url |-> op.url, nav |-> TRUE, host |-> TRUE]
  /\ Return(Error)
  /\ UNCHANGED <<breakerVars, running, childVars, stable, history>>

\* The request is refused before it is sent: nothing has changed.
NotSent ==
  /\ hp \in {"load", "draw"} /\ ~ stable
  /\ Return(Error)
  /\ UNCHANGED <<breakerVars, running, loaded, childVars, stable, history>>

\* Crashed, Timeout or ProtocolViolation
ExchangeFails ==
  /\ hp \in {"load", "draw"} /\ (~ alive \/ ~ stable)
  /\ Discard /\ Return(Error)
  /\ UNCHANGED stable

\* A page is there, but is it where the request wanted to go?  For a load
\* the caller looks, for a reload it has passed on_reload.
Loads ==
  /\ hp = "load" /\ alive /\ engine # "failed"
  /\ engine' = "up"
  /\ \E allowed \in IF stable THEN {TRUE} ELSE BOOLEAN :
       /\ shown' = [url |-> op.url, allowed |-> allowed]
       /\ loaded' = IF op.do = "load" \/ allowed
                    THEN [url |-> op.url, nav |-> TRUE, host |-> TRUE] ELSE NoUrl
       /\ \/ /\ op.do = "load"
             /\ Return([is |-> "loaded", url |-> op.url, allowed |-> allowed])
          \/ op.do = "draw" /\ allowed /\ hp' = "draw" /\ UNCHANGED <<op, reply>>
          \/ op.do = "draw" /\ ~ allowed /\ Return(Rejected)
  /\ RecordSuccess
  /\ UNCHANGED <<running, alive, stable, history>>

\* The host answers with an error, which is a proper response.  It gave up
\* the page before, unless it refused the request at once, and HostProcess the
\* record of it.
LoadFails ==
  /\ hp = "load" /\ alive /\ (engine = "failed" \/ ~ stable)
  /\ engine' \in IF engine = "none" THEN {"none", "up", "failed"} ELSE {engine}
  /\ shown' \in {shown, NoUrl}
  /\ loaded' = NoUrl
  /\ RecordSuccess
  /\ Return(Error)
  /\ UNCHANGED <<running, alive, stable, history>>

Draws ==
  /\ hp = "draw" /\ alive /\ shown # NoUrl
  /\ RecordSuccess
  /\ Return([is |-> "drawn", url |-> shown.url, allowed |-> shown.allowed])
  /\ UNCHANGED <<running, loaded, childVars, stable, history>>

\* Mutant of DrawFails: HostProcess relies on what it has recorded.
MutDrawFails ==
  /\ hp = "draw" /\ alive
  /\ shown = NoUrl \/ ~ stable
  /\ shown' \in {shown, NoUrl}
  /\ RecordSuccess
  /\ Return(Error)
  /\ UNCHANGED <<running, loaded, alive, engine, stable, history>>

\* NotLoaded makes HostProcess forget the page; other errors do not, though
\* the host may have lost it (Crashed, DocumentGone) or not have looked for it
\* (a selector it refuses).
DrawFails ==
  /\ hp = "draw" /\ alive
  /\ \/ shown = NoUrl /\ loaded' = NoUrl /\ UNCHANGED shown
     \/ ~ stable /\ shown' \in {shown, NoUrl} /\ UNCHANGED loaded
  /\ RecordSuccess
  /\ Return(Error)
  /\ UNCHANGED <<running, alive, engine, stable, history>>

\* shutdown: teardown that is no failure.
Shutdown ==
  /\ hp = "idle" /\ running
  /\ running' = FALSE /\ loaded' = NoUrl /\ NoChild
  /\ UNCHANGED <<breakerVars, op, hp, reply, stable, history>>

-----------------------------------------------------------------------------
(* Beside the calls                                                        *)

HostDies ==
  /\ alive /\ ~ stable
  /\ NoChild
  /\ UNCHANGED <<breakerVars, running, loaded, op, hp, reply, stable, history>>

Tick ==
  /\ Age
  /\ history' = [i \in DOMAIN history |->
                   IF history[i] < Window + Cooldown THEN history[i] + 1 ELSE history[i]]
  /\ UNCHANGED <<running, loaded, op, hp, reply, childVars, stable>>

Stabilise ==
  /\ ~ stable /\ stable' = TRUE
  /\ UNCHANGED <<breakerVars, running, loaded, op, hp, reply, childVars, history>>

HostStep ==
  \/ EnsureRunning \/ Check \/ Spawn \/ SpawnFails \/ Hello \/ HelloFails
  \/ NotSent \/ ExchangeFails \/ Loads \/ LoadFails \/ Draws \/ DrawFails

\* The process alone, with any caller.
HostNext ==
  \/ \E do \in {"load", "draw"}, url \in Urls : Call(do, url)
  \/ HostStep \/ Shutdown \/ HostDies \/ Tick \/ Stabilise

HostSpec == HostInit /\ [][HostNext]_hostVars

-----------------------------------------------------------------------------
(* Properties.                                                             *)

\* What HostProcess believes to be loaded is what the host shows, if it shows
\* anything: no failed, refused or unsent load leaves the two apart.
RecordMatchesHost ==
  loaded # NoUrl /\ shown # NoUrl => loaded.url = shown.url

\* RENDER-4: after Threshold counted failures within the window no host is
\* started for the time of the cooldown, however the calls in between ended.
RestartsPause ==
  [][~ running /\ running' =>
       ~ /\ Len(history) = Threshold
         /\ history[Threshold] - history[1] < Window
         /\ history[1] < Cooldown]_hostVars

=============================================================================
