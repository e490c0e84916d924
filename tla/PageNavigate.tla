----------------------------- MODULE PageNavigate -----------------------------
(***************************************************************************)
(* Page.navigate of crates/fandhe-browser-cdp/src/page.rs.                 *)
(*                                                                         *)
(* A call navigates one target, or, when it names no session, the state    *)
(* all clients share (AppState::navigation()).  A target's navigation that *)
(* succeeds is also mirrored into the shared state, where the AI API reads *)
(* it.  Two locks order the calls: `gate' (begin, commit, and everything   *)
(* that depends on a generation being current) and, taken before it,       *)
(* `published' (what the shared state shows).                              *)
(*                                                                         *)
(* One action is one critical section of `gate'; a section of `published'  *)
(* that does more than one thing is spread over two actions, between which *)
(* `publisher' holds the lock.                                             *)
(***************************************************************************)
EXTENDS NavigationState, FiniteSets

CONSTANTS
  Targets,  \* CDP targets; their ids are never used again
  Shared,   \* the sequence of AppState::navigation()
  MaxClosed  \* bound: targets closed in a behaviour

\* A page, and the URL it has, is named by the call that loaded it.
Calls  == Pages
NoCall == NoPage

\* A call whose target was closed under its feet navigates a NavigationState
\* of its own, which nobody else can reach.
ASSUME NavsAssumption == /\ Navs = Targets \cup {Shared} \cup Calls
                         /\ Shared \notin Targets \cup Calls
                         /\ Targets \cap Calls = {}

VARIABLES
  parallel,  \* do handlers run on several threads?  The shipped server has one
             \* (launch.rs), so that calls only interleave where they await
  alive,     \* the targets in the TargetRegistry
  url,       \* TargetInfo::url, NoCall for the URL of creation
  seq,       \* CommitGate: commits so far
  \* --- Published -------------------------------------------------------
  publisher, \* who holds the lock
  pubSeq,    \* Published::seq
  mirrored,  \* Published::mirrored: the call, and its generation on Shared
  flight,    \* Published::browser_in_flight
  pending,   \* Published::pending: the call whose mirroring was put off
  \* --- one call --------------------------------------------------------
  pc,
  place,     \* what it navigates: a target or Shared
  nav,       \* the NavigationState it works on
  kind,      \* of its URL: refused by validate_url, about:blank, or a page
  began,     \* NavigateOutcome::began, 0 if none
  committed, \* CommittedNavigation::generation, 0 if none
  commitSeq, \* CommittedNavigation::seq
  navigated, \* its result is in force: events are to be sent
  told,      \* its events are in the reply
  \* --- history ---------------------------------------------------------
  shownSeq   \* the newest commit that Shared has shown

regVars  == <<parallel, alive, url>>
pubVars  == <<publisher, pubSeq, mirrored, flight, pending>>
callVars == <<pc, place, nav, kind, began, committed, commitSeq, navigated, told>>
vars     == <<navVars, regVars, seq, pubVars, callVars, shownSeq>>

-----------------------------------------------------------------------------
NoMirror == [call |-> NoCall, gen |-> 0]

Browser(c) == place[c] = Shared

\* The future of the call is suspended, or there is none.
AtAwait(c) == pc[c] \in {"idle", "fetch", "run", "done", "dropped"}

\* On one thread a call runs on until it awaits something or returns.
Turn(c) == parallel \/ \A d \in Calls \ {c} : AtAwait(d)

PublishedFree == publisher = NoCall

Goto(c, l) == pc' = [pc EXCEPT ![c] = l]

\* begin_navigation and commit_navigation in one section of the gate: the
\* shared state shows the page of call c.
Mirror(c) ==
  /\ generation[Shared] < MaxGen
  /\ generation' = [generation EXCEPT ![Shared] = @ + 1]
  /\ latest' = [latest EXCEPT ![Shared] = c]
  /\ mirrored' = [call |-> c, gen |-> generation[Shared] + 1]
  /\ shownSeq' = commitSeq[c]

\* The shared state still shows what was last mirrored.
OnShared == mirrored # NoMirror /\ generation[Shared] = mirrored.gen

-----------------------------------------------------------------------------
Init ==
  /\ NavInit
  /\ parallel \in BOOLEAN
  /\ alive = Targets
  /\ url = [t \in Targets |-> NoCall]
  /\ seq = 0
  /\ publisher = NoCall
  /\ pubSeq = 0
  /\ mirrored = NoMirror
  /\ flight = 0
  /\ pending = NoCall
  /\ pc = [c \in Calls |-> "idle"]
  /\ place = [c \in Calls |-> Shared]
  /\ nav = [c \in Calls |-> Shared]
  /\ kind = [c \in Calls |-> "page"]
  /\ began = [c \in Calls |-> 0]
  /\ committed = [c \in Calls |-> 0]
  /\ commitSeq = [c \in Calls |-> 0]
  /\ navigated = {}
  /\ told = {}
  /\ shownSeq = 0

-----------------------------------------------------------------------------
(* The call begins.                                                        *)

\* The session's target is known and TargetNavigations::get_or_create finds
\* its state; a target closed in between gets a state of its own.
EnterTarget(c, t) ==
  /\ t \in alive \/ parallel
  /\ place' = [place EXCEPT ![c] = t]
  /\ nav' = [nav EXCEPT ![c] = IF t \in alive THEN t ELSE c]
  /\ UNCHANGED pubVars

\* BrowserFlight::enter.
EnterBrowser(c) ==
  /\ PublishedFree
  /\ flight' = flight + 1
  /\ place' = [place EXCEPT ![c] = Shared]
  /\ nav' = [nav EXCEPT ![c] = Shared]
  /\ UNCHANGED <<publisher, pubSeq, mirrored, pending>>

Enter(c) ==
  /\ pc[c] = "idle" /\ Turn(c)
  /\ \/ \E t \in Targets : EnterTarget(c, t)
     \/ EnterBrowser(c)
  /\ \E k \in {"refused", "blank", "page"} : kind' = [kind EXCEPT ![c] = k]
  /\ Goto(c, "begin")
  /\ UNCHANGED <<navVars, regVars, seq, began, committed, commitSeq, navigated,
                 told, shownSeq>>

\* validate_url refuses: nothing has been touched yet.
Refuse(c) ==
  /\ pc[c] = "begin" /\ Turn(c) /\ kind[c] = "refused"
  /\ Goto(c, "settle")
  /\ UNCHANGED <<navVars, regVars, seq, pubVars, place, nav, kind, began,
                 committed, commitSeq, navigated, told, shownSeq>>

\* Under the gate.  The announcement to the evaluation contexts that follows
\* may fail, and then the navigation ends here.
Begin(c) ==
  /\ pc[c] = "begin" /\ Turn(c) /\ kind[c] # "refused"
  /\ BeginNavigation(nav[c])
  /\ began' = [began EXCEPT ![c] = generation[nav[c]] + 1]
  /\ \/ Goto(c, IF kind[c] = "blank" THEN "clear" ELSE "fetch")
     \/ Goto(c, "settle")
  /\ UNCHANGED <<regVars, seq, pubVars, place, nav, kind, committed, commitSeq,
                 navigated, told, shownSeq>>

-----------------------------------------------------------------------------
(* navigate_gated after its begin.                                         *)

\* The fetch fails, or ends on a URL that is too long.
FetchFails(c) ==
  /\ pc[c] = "fetch" /\ Turn(c)
  /\ Goto(c, "settle")
  /\ UNCHANGED <<navVars, regVars, seq, pubVars, place, nav, kind, began,
                 committed, commitSeq, navigated, told, shownSeq>>

\* A page whose navigation was overtaken meanwhile is not run.
Fetched(c) ==
  /\ pc[c] = "fetch" /\ Turn(c)
  /\ Goto(c, IF generation[nav[c]] = began[c] THEN "run" ELSE "settle")
  /\ UNCHANGED <<navVars, regVars, seq, pubVars, place, nav, kind, began,
                 committed, commitSeq, navigated, told, shownSeq>>

\* The scripts ran (if the actor is enabled), or the page is blank: under the
\* gate the result is stored and numbered.
Commit(c) ==
  /\ pc[c] \in {"run", "clear"} /\ Turn(c)
  /\ IsCurrent(nav[c], began[c])
  /\ \/ pc[c] = "run" /\ CommitNavigation(nav[c], c)
     \/ pc[c] = "clear" /\ ClearNavigation(nav[c], c)
  /\ seq' = seq + 1
  /\ committed' = [committed EXCEPT ![c] = generation'[nav[c]]]
  /\ commitSeq' = [commitSeq EXCEPT ![c] = seq + 1]
  /\ shownSeq' = IF nav[c] = Shared THEN seq + 1 ELSE shownSeq
  /\ Goto(c, "settle")
  /\ UNCHANGED <<regVars, pubVars, place, nav, kind, began, navigated, told>>

\* StateError::Superseded.
CommitSuperseded(c) ==
  /\ pc[c] \in {"run", "clear"} /\ Turn(c)
  /\ ~ IsCurrent(nav[c], began[c])
  /\ Goto(c, "settle")
  /\ UNCHANGED <<navVars, regVars, seq, pubVars, place, nav, kind, began,
                 committed, commitSeq, navigated, told, shownSeq>>

-----------------------------------------------------------------------------
(* The target branch of the handler, under `published'.                    *)

\* The call failed after its begin and no newer navigation has begun.
Failed(c) == committed[c] = 0 /\ IsCurrent(nav[c], began[c])

\* Closed meanwhile, or overtaken, or nothing had begun: nothing to publish.
SettleNothing(c) ==
  /\ pc[c] = "settle" /\ Turn(c) /\ ~ Browser(c) /\ PublishedFree
  /\ place[c] \notin alive \/ (committed[c] = 0 /\ ~ Failed(c))
  /\ Goto(c, "done")
  /\ UNCHANGED <<navVars, regVars, seq, pubVars, place, nav, kind, began,
                 committed, commitSeq, navigated, told, shownSeq>>

\* The target is there: keep the lock and go on to take the gate.
Settle(c) ==
  /\ pc[c] = "settle" /\ Turn(c) /\ ~ Browser(c) /\ PublishedFree
  /\ place[c] \in alive
  /\ committed[c] # 0 \/ Failed(c)
  /\ publisher' = c
  /\ Goto(c, "publish")
  /\ UNCHANGED <<navVars, regVars, seq, pubSeq, mirrored, flight, pending, place,
                 nav, kind, began, committed, commitSeq, navigated, told, shownSeq>>

\* The call gives `published' back and has nothing more to do.
Withdraw(c) ==
  /\ publisher' = NoCall
  /\ Goto(c, "done")

\* By the time the gate is taken, a newer navigation has begun.
PublishOvertaken(c) ==
  /\ pc[c] = "publish" /\ Turn(c) /\ ~ Browser(c)
  /\ generation[nav[c]] # IF committed[c] # 0 THEN committed[c] ELSE began[c]
  /\ Withdraw(c)
  /\ UNCHANGED <<navVars, regVars, seq, pubSeq, mirrored, flight, pending, place,
                 nav, kind, began, committed, commitSeq, navigated, told, shownSeq>>

\* set_target_url finds the target gone: forget_with.
PublishGone(c) ==
  /\ pc[c] = "publish" /\ Turn(c) /\ ~ Browser(c)
  /\ committed[c] # 0 /\ generation[nav[c]] = committed[c]
  /\ place[c] \notin alive
  /\ Withdraw(c)
  /\ UNCHANGED <<navVars, regVars, seq, pubSeq, mirrored, flight, pending, place,
                 nav, kind, began, committed, commitSeq, navigated, told, shownSeq>>

\* Mutant of ShowOrPutOff: a commit that is put off leaves no number.
MutPutOff(c) ==
  \/ /\ commitSeq[c] <= pubSeq
     /\ UNCHANGED <<navVars, pubSeq, mirrored, pending, shownSeq>>
  \/ /\ commitSeq[c] > pubSeq
     /\ \/ /\ flight # 0
           /\ pending' = c
           /\ UNCHANGED <<navVars, pubSeq, mirrored, shownSeq>>
        \/ /\ flight = 0
           /\ pubSeq' = commitSeq[c]
           /\ Mirror(c)
           /\ UNCHANGED pending

\* Mutant of ShowOrPutOff: the order of the commits is not looked at.
MutShowAny(c) ==
  /\ pubSeq' = commitSeq[c]
  /\ \/ /\ flight # 0
        /\ pending' = c
        /\ UNCHANGED <<navVars, mirrored, shownSeq>>
     \/ /\ flight = 0
        /\ Mirror(c)
        /\ UNCHANGED pending

\* Only a commit newer than all that were published is mirrored, and while a
\* browser navigation is under way it is put off.
ShowOrPutOff(c) ==
  \/ /\ commitSeq[c] <= pubSeq
     /\ UNCHANGED <<navVars, pubSeq, mirrored, pending, shownSeq>>
  \/ /\ commitSeq[c] > pubSeq
     /\ pubSeq' = commitSeq[c]
     /\ \/ /\ flight # 0
           /\ pending' = c
           /\ UNCHANGED <<navVars, mirrored, shownSeq>>
        \/ /\ flight = 0
           /\ Mirror(c)
           /\ UNCHANGED pending

PublishPage(c) ==
  /\ pc[c] = "publish" /\ Turn(c) /\ ~ Browser(c)
  /\ committed[c] # 0 /\ generation[nav[c]] = committed[c]
  /\ place[c] \in alive
  /\ url' = [url EXCEPT ![place[c]] = c]
  /\ navigated' = navigated \cup {c}
  /\ ShowOrPutOff(c)
  /\ publisher' = NoCall
  /\ Goto(c, "reply")
  /\ UNCHANGED <<parallel, alive, seq, flight, place, nav, kind, began, committed,
                 commitSeq, told>>

\* Mutant of Retract: the page that was put off is forgotten, the one on show
\* is not looked at.
MutRetract(t) ==
  /\ pending' = IF pending # NoCall /\ place[pending] = t THEN NoCall ELSE pending
  /\ UNCHANGED <<navVars, mirrored>>

\* What the shared state may still show, or come to show, of target t is
\* older than its failed navigation.
Retract(t) ==
  /\ pending' = IF pending # NoCall /\ place[pending] = t THEN NoCall ELSE pending
  /\ IF OnShared /\ place[mirrored.call] = t /\ flight = 0
       THEN BeginNavigation(Shared) /\ mirrored' = NoMirror
       ELSE UNCHANGED <<navVars, mirrored>>

\* Mutant of PublishFailure: the URL stays the one of the page that is gone.
MutPublishFailure(c) ==
  /\ pc[c] = "publish" /\ Turn(c) /\ ~ Browser(c) /\ Failed(c)
  /\ Retract(place[c])
  /\ publisher' = NoCall
  /\ Goto(c, "done")
  /\ UNCHANGED <<regVars, seq, pubSeq, flight, place, nav, kind, began,
                 committed, commitSeq, navigated, told, shownSeq>>

\* The failure is current: the target has the URL that was tried, and no page.
PublishFailure(c) ==
  /\ pc[c] = "publish" /\ Turn(c) /\ ~ Browser(c) /\ Failed(c)
  /\ url' = IF place[c] \in alive THEN [url EXCEPT ![place[c]] = c] ELSE url
  /\ Retract(place[c])
  /\ publisher' = NoCall
  /\ Goto(c, "done")
  /\ UNCHANGED <<parallel, alive, seq, pubSeq, flight, place, nav, kind, began, committed,
                 commitSeq, navigated, told, shownSeq>>

-----------------------------------------------------------------------------
(* The browser branch, under `published'.                                  *)

BrowserFails(c) ==
  /\ pc[c] = "settle" /\ Turn(c) /\ Browser(c)
  /\ committed[c] = 0
  /\ Goto(c, "leave")
  /\ UNCHANGED <<navVars, regVars, seq, pubVars, place, nav, kind, began,
                 committed, commitSeq, navigated, told, shownSeq>>

\* Under the gate: is the result still in force?
BrowserSettle(c) ==
  /\ pc[c] = "settle" /\ Turn(c) /\ Browser(c) /\ PublishedFree
  /\ committed[c] # 0
  /\ publisher' = c
  /\ navigated' = IF generation[Shared] = committed[c]
                    THEN navigated \cup {c} ELSE navigated
  /\ Goto(c, "publish")
  /\ UNCHANGED <<navVars, regVars, seq, pubSeq, mirrored, flight, pending, place,
                 nav, kind, began, committed, commitSeq, told, shownSeq>>

\* Without the gate: what was put off before this commit is dropped, and a
\* target's older mirror still on show would be replaced.
BrowserPublish(c) ==
  /\ pc[c] = "publish" /\ Turn(c) /\ Browser(c)
  /\ pubSeq' = IF commitSeq[c] > pubSeq THEN commitSeq[c] ELSE pubSeq
  /\ pending' = IF commitSeq[c] > pubSeq THEN NoCall ELSE pending
  /\ mirrored' = IF commitSeq[c] > pubSeq THEN NoMirror ELSE mirrored
  /\ IF commitSeq[c] > pubSeq /\ OnShared
       THEN /\ generation' = [generation EXCEPT ![Shared] = @ + 1]
            /\ latest' = [latest EXCEPT ![Shared] = c]
       ELSE UNCHANGED navVars
  /\ publisher' = NoCall
  /\ Goto(c, "reply")
  /\ UNCHANGED <<regVars, seq, flight, place, nav, kind, began, committed,
                 commitSeq, navigated, told, shownSeq>>

-----------------------------------------------------------------------------
(* The events, the end of a browser navigation, and what may go wrong.     *)

\* Mutant of InForce: only the generation counts.
MutInForce(c) == generation[nav[c]] = committed[c]

\* Just before the events are made, under the gate.
InForce(c) ==
  /\ generation[nav[c]] = committed[c]
  /\ place[c] \in alive \cup {Shared}

\* The events go into the reply, if the call's page is still there and its
\* session still has the target.
Reply(c) ==
  /\ pc[c] = "reply" /\ Turn(c)
  /\ told' \in IF c \in navigated /\ InForce(c)
                 THEN IF Browser(c) THEN {told \cup {c}} ELSE {told, told \cup {c}}
                 ELSE {told}
  /\ Goto(c, IF Browser(c) THEN "leave" ELSE "done")
  /\ UNCHANGED <<navVars, regVars, seq, pubVars, place, nav, kind, began,
                 committed, commitSeq, navigated, shownSeq>>

\* BrowserFlight::drop: the last one out mirrors what was put off, if the
\* target is still there and has not begun a newer navigation.
Leave(c) ==
  /\ pc[c] = "leave" /\ Turn(c) /\ PublishedFree
  /\ flight' = flight - 1
  /\ IF flight = 1 /\ pending # NoCall
       THEN /\ pending' = NoCall
            /\ IF /\ place[pending] \in alive
                  /\ generation[nav[pending]] = committed[pending]
                 THEN Mirror(pending)
                 ELSE UNCHANGED <<navVars, mirrored, shownSeq>>
       ELSE UNCHANGED <<navVars, mirrored, pending, shownSeq>>
  /\ Goto(c, "done")
  /\ UNCHANGED <<regVars, seq, publisher, pubSeq, place, nav, kind, began,
                 committed, commitSeq, navigated, told>>

\* Mutant of Abandon: any dropped call closes a flight.
MutAbandonAny(c) ==
  /\ pc[c] \in {"fetch", "run"} /\ Turn(c)
  /\ Goto(c, "leave")
  /\ UNCHANGED <<navVars, regVars, seq, pubVars, place, nav, kind, began,
                 committed, commitSeq, navigated, told, shownSeq>>

\* The client is gone and the future is dropped where it waits; dropping the
\* BrowserFlight is all that runs.
Abandon(c) ==
  /\ pc[c] \in {"fetch", "run"} /\ Turn(c)
  /\ Goto(c, IF Browser(c) THEN "leave" ELSE "dropped")
  /\ UNCHANGED <<navVars, regVars, seq, pubVars, place, nav, kind, began,
                 committed, commitSeq, navigated, told, shownSeq>>

\* Target.closeTarget, or the end of the connection that owns the target.
CloseTarget(t) ==
  /\ t \in alive
  /\ Cardinality(Targets \ alive) < MaxClosed
  /\ parallel \/ \A c \in Calls : AtAwait(c)
  /\ alive' = alive \ {t}
  /\ UNCHANGED <<navVars, parallel, url, seq, pubVars, callVars, shownSeq>>

-----------------------------------------------------------------------------
\* What a call does by itself once it has been received.
CallStep(c) ==
  \/ Refuse(c) \/ Begin(c) \/ FetchFails(c) \/ Fetched(c)
  \/ Commit(c) \/ CommitSuperseded(c)
  \/ SettleNothing(c) \/ Settle(c) \/ PublishOvertaken(c) \/ PublishGone(c)
  \/ PublishPage(c) \/ PublishFailure(c)
  \/ BrowserFails(c) \/ BrowserSettle(c) \/ BrowserPublish(c)
  \/ Reply(c) \/ Leave(c)

\* Every call has ended.
Finished ==
  /\ \A c \in Calls : pc[c] \in {"done", "dropped"}
  /\ UNCHANGED vars

Next ==
  \/ \E c \in Calls : Enter(c) \/ CallStep(c) \/ Abandon(c)
  \/ \E t \in Targets : CloseTarget(t)
  \/ Finished

Spec == Init /\ [][Next]_vars

-----------------------------------------------------------------------------
(* Type invariant.                                                         *)

\* Every variable stays in its range.
TypeOK ==
  /\ NavTypeOK
  /\ parallel \in BOOLEAN /\ alive \subseteq Targets
  /\ url \in [Targets -> Calls \cup {NoCall}]
  /\ seq \in Nat /\ pubSeq \in Nat /\ shownSeq \in Nat
  /\ publisher \in Calls \cup {NoCall}
  /\ mirrored \in [call : Calls \cup {NoCall}, gen : 0 .. MaxGen]
  /\ flight \in Nat
  /\ pending \in Calls \cup {NoCall}
  /\ pc \in [Calls -> {"idle", "begin", "clear", "fetch", "run", "settle",
                       "publish", "reply", "leave", "done", "dropped"}]
  /\ place \in [Calls -> Targets \cup {Shared}]
  /\ nav \in [Calls -> Navs]
  /\ kind \in [Calls -> {"refused", "blank", "page"}]
  /\ began \in [Calls -> 0 .. MaxGen]
  /\ committed \in [Calls -> 0 .. MaxGen]
  /\ commitSeq \in [Calls -> Nat]
  /\ navigated \subseteq Calls
  /\ told \subseteq Calls

-----------------------------------------------------------------------------
(* Safety.                                                                 *)

\* The target's document and its entry in the target list agree: a page on
\* record has its URL in the list as soon as its call has published it, and
\* after a failed navigation the list has the URL that was tried.
UrlFollowsNavigation ==
  \A t \in alive, c \in Calls :
    /\ latest[t] = c /\ pc[c] \notin {"settle", "publish"} => url[t] = c
    /\ /\ nav[c] = t /\ pc[c] = "done"
       /\ committed[c] = 0 /\ IsCurrent(t, began[c])
       => url[t] = c

\* The generation a browser navigation needs to find on the shared state.
Awaited(c) == IF committed[c] # 0 THEN committed[c] ELSE began[c]

\* A mirror never ends a browser navigation: until its events are out, the
\* shared state stays at its generation unless another browser navigation has
\* begun (the reason for Published::browser_in_flight).
OnlyBrowserSupersedes ==
  \A c \in Calls :
    /\ Browser(c) /\ began[c] # 0
    /\ pc[c] \notin {"leave", "done"}
    => \/ generation[Shared] = Awaited(c)
       \/ \E d \in Calls \ {c} : Browser(d) /\ began[d] > Awaited(c)

\* browser_in_flight counts the browser navigations that have entered and not
\* left, and what is put off waits for one of them to leave.
FlightAccounted ==
  /\ flight = Cardinality({c \in Calls : Browser(c) /\
                             pc[c] \notin {"idle", "done", "dropped"}})
  /\ pending # NoCall => flight > 0

\* The newest commit of all is what the shared state shows: if it is a
\* target's and still current, no older page is on show once no browser
\* navigation is under way.
SharedIsNewest ==
  \A c \in Calls :
    /\ flight = 0
    /\ commitSeq[c] = pubSeq /\ pubSeq > 0
    /\ place[c] \in alive /\ generation[nav[c]] = committed[c]
    /\ latest[Shared] # NoCall
    => latest[Shared] = c

\* page.rs:894: the count of browser navigations is right however they end,
\* and with none of them under way nothing is put off and the newest commit is
\* what the shared state shows.
SharedSettles == FlightAccounted /\ SharedIsNewest

\* After a navigation of a target failed, and with no browser navigation under
\* way, no page of that target is on show: the comment before Retract's code
\* says that the shared state is cleared if it is still the target's mirror.
\* With handlers on several threads it would fail: a browser call that will be
\* refused may have entered at that moment, and nothing clears the page later.
FailedPageIsWithdrawn ==
  ~ parallel => \A c \in Calls :
    /\ pc[c] = "done" /\ place[c] \in alive
    /\ committed[c] = 0 /\ IsCurrent(nav[c], began[c])
    /\ flight = 0 /\ latest[Shared] # NoCall
    => place[latest[Shared]] # place[c]

-----------------------------------------------------------------------------
(* What a step may never do.                                               *)

\* The shared state never goes back to a page older than one it has shown.
SharedNeverRewinds ==
  [][shownSeq' >= shownSeq]_vars

\* The shared state goes forward, and past a browser navigation only by the
\* next one, however calls overlap at the two locks.
SharedMovesForward == []OnlyBrowserSupersedes /\ SharedNeverRewinds

\* A client is told of a page only while that page is the document, and (for a
\* target) while the target list has its URL.
EventsMatchState ==
  [][\A c \in told' \ told :
       /\ latest[nav[c]] = c
       /\ ~ Browser(c) => place[c] \in alive /\ url[place[c]] = c]_vars

=============================================================================
