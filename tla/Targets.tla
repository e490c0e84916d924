------------------------------- MODULE Targets -------------------------------
(***************************************************************************)
(* The CDP server's table of targets and sessions (cdp/src/target.rs), the *)
(* connections that own sessions and browser contexts                      *)
(* (cdp/src/conn_state.rs), and the handlers of Target.* and               *)
(* Runtime.runIfWaitingForDebugger with the events that follow every       *)
(* request (cdp/src/playwright_compat.rs, protocol.rs, server.rs).         *)
(*                                                                         *)
(* A connection serves one request at a time; several connections and the  *)
(* release of closed ones run side by side.  The table of connections has  *)
(* one lock that is held over calls to the registry, which has its own: a  *)
(* handler is one action, except that enabling auto-attach and reconciling *)
(* read the list of targets first and attach to each of them later, while  *)
(* a release, which holds no lock between its steps, may take targets away. *)
(*                                                                         *)
(* Ids are counters that are never used twice.  Here a target's id is free *)
(* again when nothing in the state names it, and a session is named by its *)
(* connection, what it is attached to and the target: no connection has    *)
(* two such sessions at a time, and it makes the second in a later request *)
(* than the one that reported the end of the first.  A connection makes at *)
(* most one browser context (a bound), which has the connection's name.    *)
(***************************************************************************)
EXTENDS Integers, Sequences, FiniteSets, SequencesExt

CONSTANTS
  Conns,        \* client connections
  MaxIds,       \* bound: target ids there are at one time
  MaxTargets,   \* MAX_TARGETS
  MaxSessions,  \* MAX_SESSIONS
  MaxContexts,  \* MAX_BROWSER_CONTEXTS
  Requests,     \* Requests[c]: bound: what client c asks for
  Filters,      \* bound: what it sets discovery to
  Default, None

ASSUME TargetBoundsAssumption ==
  /\ MaxTargets \in Nat  /\ MaxSessions \in Nat  /\ MaxContexts \in Nat
  /\ MaxIds \in Nat
ASSUME TargetNamesAssumption == Default \notin Conns /\ None \notin Conns /\ None # Default

Targets == 1 .. MaxIds

\* What root auto-attach attaches to, and what discovery tells of.
Kinds == {"off", "pages", "tabs"}

ASSUME FiltersAssumption == Filters \subseteq Kinds

\* A session for a page, for the tab of a page, or for a page as the child of
\* its tab's session.
Sessions == Conns \X {"page", "tab", "child"} \X Targets

\* What discovery tells of: a page, or the tab of a page.
Notices == {"page", "tab"} \X Targets

Entries == [auto : Kinds, wait : BOOLEAN, attached : SUBSET Targets, children : SUBSET Targets,
            gone : SUBSET Sessions, discover : Kinds, discovered : SUBSET Notices]

VARIABLES
  context,   \* context[t]: browser context of a target, None if there is no t
  live,      \* the sessions there are (sessions and tab_sessions)
  paused,    \* the sessions that have stopped their target
  contexts,  \* the browser contexts beside the default one, named by owner
  documents, \* targets with a navigation state
  entry,     \* the record of an open connection
  pc,        \* where the connection's task is
  job,       \* what it is busy with there
  reply,     \* the events collected for the client
  told       \* history: what the client was told exists, and its ghosts: the
             \* sessions among it whose end it was told of before they began

registryVars == <<context, live, paused, contexts>>
vars         == <<registryVars, documents, entry, pc, job, reply, told>>

NewEntry == [auto |-> "off", wait |-> FALSE, attached |-> {}, children |-> {},
             gone |-> {}, discover |-> "off", discovered |-> {}]

NoJob == [ids |-> {}, next |-> "idle", auto |-> "off", wait |-> FALSE, early |-> 0, failed |-> FALSE]

Nothing == [sessions |-> {}, ghosts |-> {}, notices |-> {}]

Init ==
  /\ context = [t \in Targets |-> None]
  /\ live = {}
  /\ paused = {}
  /\ contexts = {}
  /\ documents = {}
  /\ entry = [c \in Conns |-> NewEntry]
  /\ pc = [c \in Conns |-> "closed"]
  /\ job = [c \in Conns |-> NoJob]
  /\ reply = [c \in Conns |-> <<>>]
  /\ told = [c \in Conns |-> Nothing]

-----------------------------------------------------------------------------
(* The registry *)

LiveTargets == {t \in Targets : context[t] # None}

TargetOf(s) == s[3]

NamedTargets ==
  LiveTargets \cup documents \cup {TargetOf(s) : s \in live \cup paused}
    \cup (UNION {entry[c].attached \cup {TargetOf(s) : s \in entry[c].gone \cup told[c].sessions}
                   \cup {x[2] : x \in entry[c].discovered \cup told[c].notices} : c \in Conns})
    \cup (UNION {{Last(reply[c][i].what) : i \in DOMAIN reply[c]} : c \in Conns})
    \cup (UNION {IF pc[c] = "detach" THEN {} ELSE job[c].ids : c \in Conns})

\* The elements that s has at the places I, in their order.
Kept(s, I) ==
  [k \in 1 .. Cardinality(I) |-> s[CHOOSE i \in I : Cardinality({j \in I : j <= i}) = k]]

\* The tables are listed in the order of their ids.
Listed(all, some) == Kept(all, {i \in DOMAIN all : all[i] \in some})
Ascending(ids) == Kept([t \in Targets |-> t], ids)
Lowest(t, ids) == t \in ids /\ \A u \in ids : t <= u

\* MUTANT: the sessions of tabs, which have a table of their own, are free.
MutSessionsFull == Cardinality({s \in live : s[2] # "tab"}) >= MaxSessions

SessionsFull == Cardinality(live) >= MaxSessions

RemoveTargets(ts) ==
  /\ context' = [t \in Targets |-> IF t \in ts THEN None ELSE context[t]]
  /\ paused' = {s \in paused : TargetOf(s) \notin ts}
  /\ live' = {s \in live : TargetOf(s) \notin ts}

\* MUTANT: the sessions of tabs are not looked at.
MutOrphaned == {s \in paused : s[2] # "tab" /\ s \notin live}

\* The stops whose session is gone: nobody is left who could end them.
Orphaned == paused \ live

Permitted(c, t) == context[t] = Default \/ (c \in contexts /\ context[t] = c)

Visible(c) == {t \in LiveTargets : Permitted(c, t)}

-----------------------------------------------------------------------------
(* Events *)

Event(m, x) == [method |-> m, what |-> x]

EventsOf(m, xs) == [i \in DOMAIN xs |-> Event(m, xs[i])]

\* detached_event and tab_detach_events: the child before its tab.
SessionsInOrder == [c \in Conns |->
  [i \in 1 .. 3 * MaxIds |-> <<c, <<"page", "child", "tab">>[((i - 1) % 3) + 1], ((i - 1) \div 3) + 1>>]]

DetachEvents(c, ss) == EventsOf("detached", Listed(SessionsInOrder[c], ss))

NoticesInTurn == [kind \in {"page", "tab"} |-> [t \in Targets |-> <<kind, t>>]]

NoticesOf(m, kind, xs) == EventsOf(m, Listed(NoticesInTurn[kind], xs))

CreatedEvents(xs)   == NoticesOf("created", "tab", xs) \o NoticesOf("created", "page", xs)
DestroyedEvents(xs) == NoticesOf("destroyed", "page", xs) \o NoticesOf("destroyed", "tab", xs)

FirstOf(es, methods) ==
  SelectInSeq(es \o <<Event("end", None)>>,
              LAMBDA e : e.method \in methods \cup {"end"})

SpliceAt(es, i, xs) == SubSeq(es, 1, i - 1) \o xs \o SubSeq(es, i, Len(es))

\* MUTANT: the reconciliation's events follow the handler's.
MutInsertAutoEvents(events, auto) == events \o auto

\* Where the events of a reconciliation go among those of the handler.
InsertAutoEvents(events, auto) ==
  LET detached == Kept(auto, {i \in DOMAIN auto : auto[i].method = "detached"})
      others   == Kept(auto, {i \in DOMAIN auto : auto[i].method # "detached"})
      first    == SpliceAt(events, FirstOf(events, {"destroyed", "attached"}), detached)
      split    == FirstOf(others, {"attached"})
  IN  SpliceAt(first, FirstOf(first, {"attached"}), SubSeq(others, 1, split - 1))
        \o SubSeq(others, split, Len(others))

-----------------------------------------------------------------------------
(* The record of one connection *)

Root(c, auto, t) == <<c, IF auto = "tabs" THEN "tab" ELSE "page", t>>
Child(c, t)      == <<c, "child", t>>

\* The sessions of a record: the root's, and the children of its tabs.
SessionsOf(c, e) == {Root(c, e.auto, t) : t \in e.attached} \cup {Child(c, t) : t \in e.children}

\* discover_diff: what the connection should know of by now.
Now(c, e) ==
  CASE e.discover = "off"   -> {}
    [] e.discover = "pages" -> {"page"} \X Visible(c)
    [] e.discover = "tabs"  -> {"page", "tab"} \X Visible(c)

\* What it was told of and still counts: without tabs in the filter their
\* notices are forgotten, with discovery off all of them.
Counted(e, xs) ==
  CASE e.discover = "off"   -> {}
    [] e.discover = "pages" -> {x \in xs : x[1] = "page"}
    [] e.discover = "tabs"  -> xs

DiffEvents(c, e) ==
  LET known == Counted(e, e.discovered)
  IN  DestroyedEvents(known \ Now(c, e)) \o CreatedEvents(Now(c, e) \ known)

\* The first half of attach_missing and attach_missing_tabs: attachments
\* whose session is gone leave the record and wait to be reported.
Swept(c, e) ==
  LET lost == {t \in e.attached : Root(c, e.auto, t) \notin live}
  IN  [e EXCEPT !.attached = @ \ lost, !.children = @ \ lost,
                !.gone = @ \cup {s \in SessionsOf(c, e) : TargetOf(s) \in lost}]

Missing(c, e, auto) ==
  (IF auto = "tabs" THEN Visible(c) ELSE LiveTargets) \ e.attached

\* The second half: attach to one after the other until one is gone or no
\* session is left.
Attachable(ts) ==
  {t \in ts : LET first == {u \in ts : u <= t}
              IN  Cardinality(live) + Cardinality(first) <= MaxSessions /\ first \subseteq LiveTargets}

-----------------------------------------------------------------------------
(* Requests *)

LockFree == \A c \in Conns : pc[c] \notin {"enable", "attach"}

Serves(c, request) == request \in Requests[c] /\ pc[c] = "idle" /\ LockFree

\* The handler is done, or all but what next says; then come the events of
\* the reconciliation.  The handler's early events go before the answer, and
\* the others after it.
Handled(c, next, ids, early, events, failed) ==
  /\ pc' = [pc EXCEPT ![c] = next]
  /\ job' = [job EXCEPT ![c] = [NoJob EXCEPT !.ids = ids, !.next = "ended", !.failed = failed,
                                             !.early = Len(early)]]
  /\ reply' = [reply EXCEPT ![c] = early \o events]

Succeed(c, events) == Handled(c, "ended", {}, <<>>, events, FALSE)
Fail(c)            == Handled(c, "ended", {}, <<>>, <<>>, TRUE)

Open(c) ==
  /\ pc[c] = "closed"
  /\ pc' = [pc EXCEPT ![c] = "idle"]
  /\ entry' = [entry EXCEPT ![c] = NewEntry]
  /\ UNCHANGED <<registryVars, documents, job, reply, told>>

\* A request that leaves these tables alone.
Other(c, failed) ==
  /\ Serves(c, "other")
  /\ Handled(c, "ended", {}, <<>>, <<>>, failed)
  /\ UNCHANGED <<registryVars, documents, entry, told>>

CreateBrowserContext(c) ==
  /\ Serves(c, "context")
  /\ c \notin contexts
  /\ IF Cardinality(contexts) >= MaxContexts
     THEN Fail(c) /\ UNCHANGED contexts
     ELSE Succeed(c, <<>>) /\ contexts' = contexts \cup {c}
  /\ UNCHANGED <<context, live, paused, documents, entry, told>>

\* Target.setAutoAttach for the root, up to the list of targets.
SetAutoAttach(c, auto, wait) ==
  LET e == Swept(c, entry[c])
  IN  /\ Serves(c, auto)
      /\ IF entry[c].auto \notin {"off", auto}
         THEN Fail(c) /\ UNCHANGED entry
         ELSE /\ entry' = [entry EXCEPT ![c] = e]
              /\ pc' = [pc EXCEPT ![c] = "enable"]
              /\ job' = [job EXCEPT ![c] = [NoJob EXCEPT !.ids = Missing(c, e, auto),
                                                         !.auto = auto, !.wait = wait]]
              /\ reply' = [reply EXCEPT ![c] = <<>>]
      /\ UNCHANGED <<registryVars, documents, told>>

AttachEvents(c, auto, ts) ==
  EventsOf("attached", [i \in DOMAIN ts |-> Root(c, auto, ts[i])])

\* All of them, or none.
EnableAutoAttach(c) ==
  LET j == job[c]
  IN  /\ pc[c] = "enable"
      /\ IF Attachable(j.ids) # j.ids
         THEN Fail(c) /\ UNCHANGED <<live, entry>>
         ELSE /\ live' = live \cup {Root(c, j.auto, t) : t \in j.ids}
              /\ entry' = [entry EXCEPT ![c].auto = j.auto, ![c].wait = j.wait,
                                        ![c].attached = @ \cup j.ids]
              /\ Succeed(c, AttachEvents(c, j.auto, Ascending(j.ids)))
      /\ UNCHANGED <<context, paused, contexts, documents, told>>

DisableAutoAttach(c) ==
  LET e == entry[c]
  IN  /\ Serves(c, "stop")
      /\ live' = live \ SessionsOf(c, e)
      /\ entry' = [entry EXCEPT ![c] = [e EXCEPT !.auto = "off", !.wait = FALSE,
                     !.attached = {}, !.children = {}, !.gone = {}]]
      /\ Succeed(c, DetachEvents(c, e.gone) \o DetachEvents(c, SessionsOf(c, e)))
      /\ UNCHANGED <<context, paused, contexts, documents, told>>

TabOf(c, t) == <<c, "tab", t>>

\* Target.setAutoAttach for the session of a tab: its page is the child, and
\* takes over the stop if the client wants to wait.
AttachChild(c, t, wait) ==
  /\ Serves(c, "child")
  /\ t \in entry[c].attached /\ entry[c].auto = "tabs"
  /\ IF TabOf(c, t) \notin live \/ (t \notin entry[c].children /\ SessionsFull)
     THEN Fail(c) /\ UNCHANGED <<live, paused, entry>>
     ELSE IF t \in entry[c].children
     THEN Succeed(c, <<>>) /\ UNCHANGED <<live, paused, entry>>
     ELSE /\ live' = live \cup {Child(c, t)}
          /\ paused' = IF wait /\ TabOf(c, t) \in paused
                       THEN (paused \ {TabOf(c, t)}) \cup {Child(c, t)} ELSE paused
          /\ entry' = [entry EXCEPT ![c].children = @ \cup {t}]
          /\ Succeed(c, <<Event("attached", Child(c, t))>>)
  /\ UNCHANGED <<context, contexts, documents, told>>

DetachChild(c, t) ==
  /\ Serves(c, "child")
  /\ t \in entry[c].attached /\ entry[c].auto = "tabs"
  /\ IF TabOf(c, t) \notin live
     THEN Fail(c) /\ UNCHANGED <<live, entry>>
     ELSE /\ live' = live \ {Child(c, t)}
          /\ entry' = [entry EXCEPT ![c].children = @ \ {t}]
          /\ Succeed(c, DetachEvents(c, {Child(c, t)} \cap SessionsOf(c, entry[c])))
  /\ UNCHANGED <<context, paused, contexts, documents, told>>

SetDiscoverTargets(c, discover) ==
  LET e == [entry[c] EXCEPT !.discover = discover]
  IN  /\ Serves(c, "discover")
      /\ entry' = [entry EXCEPT ![c] = [e EXCEPT !.discovered = Now(c, e)]]
      /\ Succeed(c, DiffEvents(c, e))
      /\ UNCHANGED <<registryVars, documents, told>>

\* Target.createTarget: the target, its first session and the stop are one
\* step.  A target that is not stopped gets its first document right after.
CreateTarget(c, cx, t) ==
  LET e == entry[c]
      new == IF e.auto = "off" THEN {} ELSE {Root(c, e.auto, t)}
      stop == IF e.wait THEN new ELSE {}
      known == Counted(e, {"page", "tab"} \X {t})
  IN  /\ Serves(c, "create")
      /\ Lowest(t, Targets \ NamedTargets)
      /\ IF \/ cx # Default /\ (cx # c \/ c \notin contexts)
            \/ Cardinality(LiveTargets) >= MaxTargets
            \/ e.auto # "off" /\ SessionsFull
         THEN Fail(c) /\ UNCHANGED <<context, live, paused, entry>>
         ELSE /\ context' = [context EXCEPT ![t] = cx]
              /\ live' = live \cup new
              /\ paused' = paused \cup stop
              /\ entry' = [entry EXCEPT ![c].discovered = @ \cup known,
                             ![c].attached = IF new = {} THEN @ ELSE @ \cup {t}]
              /\ Handled(c, IF stop = {} THEN "commit" ELSE "ended", {t},
                         CreatedEvents(known) \o EventsOf("attached", Listed(SessionsInOrder[c], new)),
                         <<>>, FALSE)
      /\ UNCHANGED <<contexts, documents, told>>

\* Target.closeTarget: the connection's own sessions leave its record and are
\* reported here; the others' find out when they reconcile.
CloseTarget(c, t) ==
  LET e == entry[c]
      own == {s \in SessionsOf(c, e) : TargetOf(s) = t}
      known == {x \in e.discovered : x[2] = t}
  IN  /\ Serves(c, "close")
      /\ IF t \notin Visible(c)
         THEN Fail(c) /\ UNCHANGED <<context, live, paused, entry>>
         ELSE /\ RemoveTargets({t})
              /\ entry' = [entry EXCEPT ![c].attached = @ \ {t}, ![c].children = @ \ {t},
                                        ![c].discovered = @ \ known]
              /\ Handled(c, "forget", {t}, <<>>, DetachEvents(c, own) \o DestroyedEvents(known), FALSE)
      /\ UNCHANGED <<contexts, documents, told>>

\* Runtime.runIfWaitingForDebugger: only the session that stopped a target
\* sets it going.
RunIfWaitingForDebugger(c, s) ==
  /\ Serves(c, "resume")
  /\ IF s \notin live
     THEN Fail(c) /\ UNCHANGED paused
     ELSE IF s \notin paused
     THEN Succeed(c, <<>>) /\ UNCHANGED paused
     ELSE /\ paused' = paused \ {s}
          /\ Handled(c, "commit", {TargetOf(s)}, <<>>, <<>>, FALSE)
  /\ UNCHANGED <<context, live, contexts, documents, entry, told>>

-----------------------------------------------------------------------------
(* Navigation states *)

\* drain_closed and commit_initial_blank, for the first of the targets.
CommitInitialBlank(c, t) ==
  /\ pc[c] = "commit" /\ Lowest(t, job[c].ids)
  /\ documents' = (documents \cup {t}) \cap LiveTargets
  /\ job' = [job EXCEPT ![c].ids = @ \ {t}]
  /\ pc' = [pc EXCEPT ![c] = IF job[c].ids = {t} THEN job[c].next ELSE "commit"]
  /\ UNCHANGED <<registryVars, entry, reply, told>>

Forget(c) ==
  /\ pc[c] = "forget"
  /\ documents' = documents \ job[c].ids
  /\ job' = [job EXCEPT ![c].ids = {}]
  /\ pc' = [pc EXCEPT ![c] = "ended"]
  /\ UNCHANGED <<registryVars, entry, reply, told>>

-----------------------------------------------------------------------------
(* After every request, and after a release *)

\* take_orphaned_paused; the documents of those targets come next.
TakeOrphanedPaused(c, at, next) ==
  /\ pc[c] = at
  /\ paused' = paused \ Orphaned
  /\ pc' = [pc EXCEPT ![c] = IF Orphaned = {} THEN next ELSE "commit"]
  /\ job' = [job EXCEPT ![c].ids = {TargetOf(s) : s \in Orphaned}, ![c].next = next]
  /\ UNCHANGED <<context, live, contexts, documents, entry, reply, told>>

\* reconcile_auto_attach up to the list of targets: first what discovery has
\* to tell, then the sessions that are gone.
Reconcile(c) ==
  LET e == Swept(c, entry[c])
      missing == IF job[c].failed \/ e.auto = "off" THEN {} ELSE Missing(c, e, e.auto)
  IN  /\ pc[c] = "reconcile" /\ LockFree
      /\ entry' = [entry EXCEPT ![c] = [e EXCEPT !.gone = {}, !.discovered = Now(c, e)]]
      /\ reply' = [reply EXCEPT ![c] =
           SubSeq(@, 1, job[c].early)
             \o InsertAutoEvents(SubSeq(@, job[c].early + 1, Len(@)),
                                 DetachEvents(c, e.gone) \o DiffEvents(c, entry[c]))]
      /\ job' = [job EXCEPT ![c] = [NoJob EXCEPT !.ids = missing]]
      /\ pc' = [pc EXCEPT ![c] = IF missing = {} THEN "send" ELSE "attach"]
      /\ UNCHANGED <<registryVars, documents, told>>

\* As many as there is room for; the next request tries the rest.
AttachMissing(c) ==
  LET e == entry[c]
      ts == Attachable(job[c].ids)
  IN  /\ pc[c] = "attach"
      /\ live' = live \cup {Root(c, e.auto, t) : t \in ts}
      /\ entry' = [entry EXCEPT ![c].attached = @ \cup ts]
      /\ reply' = [reply EXCEPT ![c] = @ \o AttachEvents(c, e.auto, Ascending(ts))]
      /\ job' = [job EXCEPT ![c] = NoJob]
      /\ pc' = [pc EXCEPT ![c] = "send"]
      /\ UNCHANGED <<context, paused, contexts, documents, told>>

Of(method, es) == {es[i].what : i \in {i \in DOMAIN es : es[i].method = method}}

Said(m, x, es, I) == \E i \in I : es[i] = Event(m, x)
Behind(i, es)     == {j \in DOMAIN es : i < j}
Before(i, es)     == {j \in DOMAIN es : j < i}

\* What a client that knows of xs takes to exist when it has read es in order:
\* of what is told of x the last counts.
Heard(xs, es, begin, end) ==
  {x \in xs : ~ Said(end, x, es, DOMAIN es)} \cup
  {es[i].what : i \in {i \in DOMAIN es : /\ es[i].method = begin
                                        /\ ~ Said(end, es[i].what, es, Behind(i, es))}}

\* The sessions whose end is told of before their beginning.
Crossed(es) ==
  {es[i].what : i \in {i \in DOMAIN es : /\ es[i].method = "attached"
                                        /\ Said("detached", es[i].what, es, Before(i, es))}}

\* The frames go out, and the connection may send its next request.
Send(c) ==
  LET r == reply[c]
  IN  /\ pc[c] = "send"
      /\ told' = [told EXCEPT ![c] =
           [sessions |-> Heard(@.sessions, r, "attached", "detached"),
            ghosts   |-> (@.ghosts \ Of("attached", r)) \cup Crossed(r),
            notices  |-> Counted(entry[c], Heard(@.notices, r, "created", "destroyed"))]]
      /\ reply' = [reply EXCEPT ![c] = <<>>]
      /\ job' = [job EXCEPT ![c] = NoJob]
      /\ pc' = [pc EXCEPT ![c] = "idle"]
      /\ UNCHANGED <<registryVars, documents, entry>>

-----------------------------------------------------------------------------
(* The end of a connection *)

\* MUTANT: the children of its tabs are forgotten.
MutReturned(c) == {Root(c, entry[c].auto, t) : t \in entry[c].attached}

\* The sessions a release has to give back.
Returned(c) == SessionsOf(c, entry[c])

\* The record goes first; what it owned is given back step by step.
Release(c) ==
  /\ pc[c] = "idle" /\ LockFree
  /\ entry' = [entry EXCEPT ![c] = NewEntry]
  /\ told' = [told EXCEPT ![c] = Nothing]
  /\ job' = [job EXCEPT ![c] = [NoJob EXCEPT !.ids = Returned(c)]]
  /\ pc' = [pc EXCEPT ![c] = IF Returned(c) = {} THEN "dispose" ELSE "detach"]
  /\ UNCHANGED <<registryVars, documents, reply>>

\* The child before its tab.
DetachNext(c, s) ==
  /\ pc[c] = "detach" /\ s \in job[c].ids
  /\ \A r \in job[c].ids \ {s} : TargetOf(s) < TargetOf(r) \/ (TargetOf(s) = TargetOf(r) /\ s[2] = "child")
  /\ live' = live \ {s}
  /\ job' = [job EXCEPT ![c].ids = @ \ {s}]
  /\ pc' = [pc EXCEPT ![c] = IF job[c].ids = {s} THEN "dispose" ELSE "detach"]
  /\ UNCHANGED <<context, paused, contexts, documents, entry, reply, told>>

\* dispose_browser_context, of the context the connection made, if it did.
DisposeBrowserContext(c) ==
  /\ pc[c] = "dispose"
  /\ contexts' = contexts \ {c}
  /\ RemoveTargets({t \in Targets : context[t] = c})
  /\ pc' = [pc EXCEPT ![c] = "orphans"]
  /\ UNCHANGED <<documents, entry, job, reply, told>>

Prune(c) ==
  /\ pc[c] = "prune"
  /\ documents' = documents \cap LiveTargets
  /\ job' = [job EXCEPT ![c] = NoJob]
  /\ pc' = [pc EXCEPT ![c] = "closed"]
  /\ UNCHANGED <<registryVars, entry, reply, told>>

-----------------------------------------------------------------------------
Request(c) ==
  \/ Open(c) \/ Release(c)
  \/ \E failed \in BOOLEAN : Other(c, failed)
  \/ CreateBrowserContext(c)
  \/ \E auto \in {"pages", "tabs"}, wait \in BOOLEAN :
       (wait => "wait" \in Requests[c]) /\ SetAutoAttach(c, auto, wait)
  \/ DisableAutoAttach(c)
  \/ \E t \in entry[c].attached, wait \in BOOLEAN : AttachChild(c, t, wait)
  \/ \E t \in entry[c].attached : DetachChild(c, t)
  \/ \E discover \in Filters : SetDiscoverTargets(c, discover)
  \/ \E cx \in Conns \cup {Default}, t \in Targets : CreateTarget(c, cx, t)
  \/ \E t \in Targets : CloseTarget(c, t)
  \/ \E s \in told[c].sessions : RunIfWaitingForDebugger(c, s)

Proceed(c) ==
  \/ EnableAutoAttach(c) \/ Forget(c)
  \/ \E t \in job[c].ids : CommitInitialBlank(c, t)
  \/ TakeOrphanedPaused(c, "ended", "reconcile")
  \/ Reconcile(c) \/ AttachMissing(c)
  \/ \E s \in job[c].ids : DetachNext(c, s)
  \/ DisposeBrowserContext(c)
  \/ TakeOrphanedPaused(c, "orphans", "prune") \/ Prune(c)

\* Sending touches nothing that another task reads: it comes first.
Next ==
  \/ \E c \in Conns : Send(c)
  \/ (\A c \in Conns : pc[c] # "send") /\ \E c \in Conns : Request(c) \/ Proceed(c)

Spec == Init /\ [][Next]_vars

-----------------------------------------------------------------------------
(* Properties *)

PCs == {"closed", "idle", "enable", "commit", "forget", "ended", "reconcile",
        "attach", "send", "detach", "dispose", "orphans", "prune"}

\* Types, and the limits of the tables.
TypeOK ==
  /\ Cardinality(live) <= MaxSessions
  /\ Cardinality(LiveTargets) <= MaxTargets
  /\ Cardinality(contexts) <= MaxContexts
  /\ context \in [Targets -> Conns \cup {Default, None}]
  /\ live \subseteq Sessions /\ paused \subseteq Sessions
  /\ contexts \subseteq Conns /\ documents \subseteq Targets
  /\ pc \in [Conns -> PCs]
  /\ \A c \in Conns :
       /\ DOMAIN entry[c] = DOMAIN NewEntry
       /\ entry[c].attached \subseteq Targets /\ entry[c].children \subseteq entry[c].attached
       /\ entry[c].auto \in Kinds /\ entry[c].discover \in Kinds
       /\ entry[c].gone \subseteq Sessions /\ entry[c].discovered \subseteq Notices
       /\ job[c].ids \subseteq (IF pc[c] = "detach" THEN Sessions ELSE Targets)
       /\ told[c].sessions \subseteq Sessions /\ told[c].ghosts \subseteq Sessions
       /\ told[c].notices \subseteq Notices

\* A connection's own sessions, or those its release still has to give back.
Holds(c) == IF pc[c] = "detach" THEN job[c].ids ELSE SessionsOf(c, entry[c])

\* Who is on the way to remove the navigation state of a closed target.
Removes(c, t) ==
  \/ pc[c] = "forget" /\ t \in job[c].ids
  \/ pc[c] \in {"orphans", "prune"}
  \/ pc[c] = "commit" /\ job[c].next = "prune"

\* What closing a target, detaching and the end of a connection must leave
\* in step (MAX_SESSIONS is shared by all connections: what leaks there is
\* lost to everybody): every session has a target and a connection that will
\* give it back, contexts and stops have their owner and their target, and a
\* navigation state outlives its target only while somebody is on the way to
\* remove it.
NothingLeaks ==
  /\ \A s \in live : TargetOf(s) \in LiveTargets /\ s \in Holds(s[1])
  /\ \A c \in contexts : pc[c] \notin {"closed", "orphans", "prune"}
  /\ \A t \in LiveTargets : context[t] = Default \/ context[t] \in contexts
  /\ \A s \in paused : TargetOf(s) \in LiveTargets /\ \A r \in paused : TargetOf(r) = TargetOf(s) => r = s
  /\ \A t \in documents : t \in LiveTargets \/ \E c \in Conns : Removes(c, t)

\* The sessions a client believes in without its ghosts.
Sure(b) == b.sessions \ b.ghosts

\* What every client believes, if it takes the notices it was sent in their
\* order, is what its record says: nothing is reported twice, nothing is
\* reported that was never there, and no notice is lost, whoever made the
\* change.  One case is left out, that of AttachedBeforeDetached below: a
\* session that one reply reports the end of and then the beginning is over,
\* and the client is never told of that; it believes in a ghost.
ClientsInformed ==
  \A c \in Conns :
    LET r == reply[c]
        e == entry[c]
        b == told[c]
    IN  /\ pc[c] = "idle" =>
             /\ Sure(b) = SessionsOf(c, e) \cup e.gone /\ b.ghosts \subseteq b.sessions
             /\ b.notices = e.discovered
        /\ pc[c] = "send" =>
             /\ \A i, j \in DOMAIN r : r[i] = r[j] => i = j
             /\ Of("attached", r) \cap Sure(b) = {}
             /\ Of("created", r) \cap Counted(e, b.notices) = {}
             /\ \A i \in DOMAIN r :
                  LET x == r[i].what IN
                  /\ r[i].method = "detached" =>
                       x \in Sure(b) \/ Said("attached", x, r, Before(i, r)) \/ x \in Crossed(r)
                  /\ r[i].method = "destroyed" =>
                       x \in b.notices \/ Said("created", x, r, Before(i, r))
             /\ Crossed(r) \cap (SessionsOf(c, e) \cup e.gone) = {}

Precedes(c, m, n, Related(_, _)) ==
  LET r == reply[c]
  IN  \A i, j \in DOMAIN r :
        r[i].method = m /\ r[j].method = n /\ Related(r[i].what, r[j].what) => i < j

\* protocol.rs: detached, destroyed, created, attached, in that order for one
\* target; and the child before its tab.
NoticesInOrder ==
  \A c \in Conns : pc[c] = "send" =>
    /\ Precedes(c, "detached", "destroyed", LAMBDA s, x : TargetOf(s) = x[2])
    /\ Precedes(c, "created", "destroyed", LAMBDA x, y : x = y)
    /\ Precedes(c, "created", "attached", LAMBDA x, s : TargetOf(s) = x[2])
    /\ Precedes(c, "detached", "detached",
                LAMBDA r, s : TargetOf(r) = TargetOf(s) /\ r[2] = "child" /\ s[2] = "tab")

\* Each client is told exactly what changes, and in an order it can follow.
NoticesAgree == ClientsInformed /\ NoticesInOrder

\* A session is announced before its end is.
AttachedBeforeDetached ==
  \A c \in Conns : pc[c] = "send" =>
    Precedes(c, "attached", "detached", LAMBDA r, s : r = s)

\* A target whose stopping session is gone is not forgotten, and one that is
\* not stopped gets its first document: a task is on the way to see to it.
NobodyWaitsForever ==
  /\ \A s \in paused \ live : pc[s[1]] \in {"ended", "detach", "dispose", "orphans"}
  /\ \A t \in LiveTargets \ documents :
       \/ \E s \in paused : TargetOf(s) = t
       \/ \E c \in Conns : pc[c] = "commit" /\ t \in job[c].ids

=============================================================================
