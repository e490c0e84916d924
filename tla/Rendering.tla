------------------------------ MODULE Rendering ------------------------------
(***************************************************************************)
(* A rendering method of AppState from the outside to the host: RenderGate *)
(* (crates/fandhe-browser-core/src/state.rs) compares the generation of    *)
(* the shared navigation with the one it loaded last, HostRenderer         *)
(* (crates/fandhe-browser-render/src/host_renderer.rs) checks URLs and     *)
(* knows the current page, RenderHost is the process below.                *)
(*                                                                         *)
(* The gate's lock is held during a call, so one call is under way at a    *)
(* time; navigations take place beside it, in PageNavigate's way: a        *)
(* generation is committed or cleared once.  Pages stand for their URLs.   *)
(***************************************************************************)
EXTENDS RenderHost, NavigationState

CONSTANT Shared  \* AppState::navigation

ASSUME RenderingAssumption ==
  /\ Urls \subseteq Pages  \* the pages whose URL check_network_target_url lets pass
  /\ Navs = {Shared}
  /\ NoPage = NoUrl

VARIABLES
  undecided, \* the shared navigation has begun and neither ended nor failed
  gate,      \* RenderGate::loaded, a generation
  current,   \* Inner::current of HostRenderer
  pc,
  want,      \* the snapshot of the navigation
  wantGen,
  answer,
  seen       \* the pages that were recorded since the call began

callVars == <<gate, current, pc, want, wantGen, answer, seen>>
vars     == <<hostVars, navVars, undecided, callVars>>

Page       == latest[Shared]
Generation == generation[Shared]
NoGen      == -1
NoAnswer   == NoUrl

TypeOK ==
  /\ HostTypeOK /\ NavTypeOK
  /\ undecided \in BOOLEAN
  /\ gate \in NoGen .. MaxGen
  /\ current \in Urls \cup {NoUrl}
  /\ pc \in {"idle", "gate", "load", "loading", "draw", "drawing"}
  /\ want \in Pages \cup {NoPage}
  /\ wantGen \in NoGen .. MaxGen
  /\ answer \in {NoAnswer, Error} \cup [url : Urls, allowed : BOOLEAN]
  /\ seen \subseteq Pages \cup {NoPage}

Init ==
  /\ HostInit /\ NavInit
  /\ undecided = FALSE
  /\ gate = NoGen /\ current = NoUrl
  /\ pc = "idle" /\ want = NoPage /\ wantGen = NoGen
  /\ answer = NoAnswer /\ seen = {}

-----------------------------------------------------------------------------
(* The navigation                                                          *)

Witness == seen' = IF pc = "idle" THEN seen ELSE seen \cup {latest'[Shared]}

Beside == Witness /\ UNCHANGED <<hostVars, gate, current, pc, want, wantGen, answer>>

Begin == BeginNavigation(Shared) /\ undecided' = TRUE /\ Beside

Commit ==
  /\ undecided /\ undecided' = FALSE
  /\ \E p \in Pages : CommitNavigation(Shared, p)
  /\ Beside

\* A failure after the commit or in its place; about:blank is no URL of Urls.
Clear ==
  /\ IsCurrent(Shared, Generation)
  /\ undecided' = FALSE
  /\ \E p \in Pages \ Urls : ClearNavigation(Shared, p)
  /\ Beside

-----------------------------------------------------------------------------
(* RenderGate::with_page and HostRenderer                                  *)

Start ==
  /\ pc = "idle"
  /\ pc' = "gate"
  /\ answer' = NoAnswer
  /\ seen' = {Page}
  /\ UNCHANGED <<hostVars, navVars, undecided, gate, current, want, wantGen>>

Answer(a) ==
  /\ answer' = a
  /\ pc' = "idle"
  /\ want' = NoPage /\ wantGen' = NoGen
  /\ seen' = {}

\* The generation and its page, in one: is there a page, is it loaded?
Snapshot ==
  /\ pc = "gate"
  /\ \/ Page = NoPage /\ Answer(Error)
     \/ /\ Page # NoPage
        /\ want' = Page /\ wantGen' = Generation
        /\ pc' = IF gate = Generation THEN "draw" ELSE "load"
        /\ UNCHANGED <<answer, seen>>
  /\ UNCHANGED <<hostVars, navVars, undecided, gate, current>>

\* HostRenderer::load gives up the current page before it looks at the URL.
LoadPage ==
  /\ pc = "load"
  /\ current' = NoUrl
  /\ \/ /\ want \in Urls
        /\ Call("load", want)
        /\ pc' = "loading"
        /\ UNCHANGED <<want, wantGen, answer, seen>>
     \/ /\ want \notin Urls
        /\ Answer(Error)
        /\ loaded' = IF loaded = NoUrl THEN NoUrl ELSE [loaded EXCEPT !.nav = FALSE]
        /\ UNCHANGED <<breakerVars, running, op, hp, reply, childVars, stable, history>>
  /\ UNCHANGED <<navVars, undecided, gate>>

\* Mutant of Loaded: the generation is that of now, not of the snapshot.
MutLoaded ==
  /\ pc = "loading" /\ hp = "idle"
  /\ \/ /\ reply.is = "loaded" /\ reply.allowed
        /\ current' = want /\ gate' = Generation
        /\ pc' = "draw"
        /\ UNCHANGED <<want, wantGen, answer, seen>>
     \/ /\ ~ (reply.is = "loaded" /\ reply.allowed)
        /\ Answer(Error)
        /\ UNCHANGED <<gate, current>>
  /\ UNCHANGED <<hostVars, navVars, undecided>>

\* The page it ended on is checked; a failed load is not recorded.
Loaded ==
  /\ pc = "loading" /\ hp = "idle"
  /\ \/ /\ reply.is = "loaded" /\ reply.allowed
        /\ current' = want /\ gate' = wantGen
        /\ pc' = "draw"
        /\ UNCHANGED <<want, wantGen, answer, seen>>
     \/ /\ ~ (reply.is = "loaded" /\ reply.allowed)
        /\ Answer(Error)
        /\ UNCHANGED <<gate, current>>
  /\ UNCHANGED <<hostVars, navVars, undecided>>

\* HostRenderer::call.  The kind of element reference or request may be one it
\* does not support.
DrawPage ==
  /\ pc = "draw"
  /\ \/ /\ current # NoUrl
        /\ Call("draw", current)
        /\ pc' = "drawing"
        /\ UNCHANGED <<want, wantGen, answer, seen>>
     \/ (current = NoUrl \/ ~ stable) /\ Answer(Error) /\ UNCHANGED hostVars
  /\ UNCHANGED <<navVars, undecided, gate, current>>

\* What was drawn may be unusable (no PNG); a reload that ended on a page that is
\* not allowed takes the page away.
Drawn ==
  /\ pc = "drawing" /\ hp = "idle"
  /\ \/ reply.is = "drawn" /\ Answer([url |-> reply.url, allowed |-> reply.allowed])
     \/ (reply.is # "drawn" \/ ~ stable) /\ Answer(Error)
  /\ current' = IF reply.is = "rejected" THEN NoUrl ELSE current
  /\ UNCHANGED <<hostVars, navVars, undecided, gate>>

-----------------------------------------------------------------------------
Below == UNCHANGED <<navVars, undecided, callVars>>

CallStep == Snapshot \/ LoadPage \/ Loaded \/ DrawPage \/ Drawn \/ (HostStep /\ Below)

Next ==
  \/ Begin \/ Commit \/ Clear
  \/ Start \/ CallStep
  \/ (HostDies \/ Tick \/ Stabilise) /\ Below

Spec == Init /\ [][Next]_vars

\* A call goes on (every wait for the host has a timeout), time passes, and
\* somebody asks again.
FairSpec ==
  /\ Spec
  /\ WF_vars(CallStep) /\ WF_vars(Start) /\ WF_vars(Tick /\ Below)

-----------------------------------------------------------------------------
(* Properties.                                                             *)

\* RENDER-3: see RenderContract.
Contract == INSTANCE RenderContract WITH
  Allowed <- Urls, NoPicture <- NoAnswer, Refusal <- Error,
  page <- Page, calling <- pc # "idle", candidates <- seen, picture <- answer

ImplementsContract == Contract!Spec

\* As long as the gate takes the recorded page for loaded, the page that
\* HostRenderer would load again after a crash is this page or none.
GateAgrees ==
  pc = "idle" /\ gate = Generation /\ Page # NoPage => current \in {Page, NoUrl}

\* A reload ended on a page that is not allowed: nothing is drawn until the
\* next navigation.
Withdrawn == gate = Generation /\ current = NoUrl

\* When nothing goes wrong any more, a recorded page is drawn some time: the
\* breaker closes again, the host is started, the page is loaded again.
\* Left out: a host without Servo, and a page that was taken away.
Recovers ==
  \A p \in Urls :
    stable /\ Page = p /\ engine # "failed"
      ~> Page # p \/ Withdrawn \/ answer = [url |-> p, allowed |-> TRUE]

\* servo-host/src/page.rs: a host whose Servo could not be started is replaced.
EngineIsReplaced == engine = "failed" ~> engine # "failed"

=============================================================================
