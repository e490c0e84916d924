---------------------------- MODULE TargetsProofs ----------------------------
(***************************************************************************)
(* Proofs about Targets, for any number of connections, target ids and     *)
(* requests and any limits of the tables: the types with the limits        *)
(* (MAX_TARGETS, MAX_SESSIONS, MAX_BROWSER_CONTEXTS), that nothing is      *)
(* leaked when targets, sessions and connections end in any order, that no *)
(* target is left stopped, or without a first document, for ever, and that *)
(* each client is told exactly what changes, but for its ghosts.           *)
(*                                                                         *)
(* The invariant says what each task may be about to do (Stages), that a   *)
(* record never names a child without its tab (Records, Tabs), that every  *)
(* session in the registry is in the record of its connection or among     *)
(* what its release has still to give back (Held), and that a context, a   *)
(* stop and a navigation state have somebody who will take them away       *)
(* (Owned, Stops, Outlived).  Two connections act side by side, so a step  *)
(* of one has to leave what the invariant says of the other as it was:     *)
(* Frame, LiveEffect, StopEffect and EndEffect say what a step can do.     *)
(*                                                                         *)
(* What the clients are told rests on a second invariant.  Books weighs    *)
(* what a client was told, and what its reply is about to tell it, against *)
(* its record, and says of the reply that no notice in it comes after one  *)
(* it has to precede (Fine), from which follows what a client makes of it  *)
(* that reads it in order (HeardSessions, HeardNotices); Current says which parts of the record and    *)
(* the reply agree with the tables, which other connections change.  The   *)
(* reconciliation's events go into the reply of the handler (Inserted).    *)
(***************************************************************************)
EXTENDS Targets, FiniteSetTheorems, SequenceTheorems, WellFoundedInduction, TLAPS

-----------------------------------------------------------------------------
(* Numbers, and the elements a table lists *)

\* A set of natural numbers has a least one.
LEMMA Least ==
  ASSUME NEW I \in SUBSET Nat, I # {}
  PROVE  \E n \in I : \A m \in I : n <= m
<1> DEFINE R == OpToRel(<, Nat)
<1>1. \A x, y \in Nat : x < y => <<x, y>> \in R
  BY DEF OpToRel
<1>2. IsWellFoundedOn(R, Nat)
  BY NatLessThanWellFounded
<1> HIDE DEF R
<1>3. PICK n \in I : \A y \in I : ~ (<<y, n>> \in R)
  BY <1>2, WFMin
<1>4. \A m \in I : ~ (m < n)
  BY <1>1, <1>3
<1>5. \A m \in I : n <= m
  BY <1>4
<1> QED
  BY <1>5

\* Some places of a sequence are finitely many.
LEMMA FiniteIndices ==
  ASSUME NEW n \in Nat, NEW I \in SUBSET (1 .. n)
  PROVE  IsFiniteSet(I) /\ Cardinality(I) \in Nat
<1>1. IsFiniteSet(1 .. n)
  BY FS_Interval
<1>2. IsFiniteSet(I)
  BY <1>1, FS_Subset
<1> QED
  BY <1>2, FS_CardinalityType

\* Counting the places up to each one reaches every number up to their count: the
\* k-th place that Kept chooses is there.
LEMMA RankOnto ==
  ASSUME NEW n \in Nat, NEW I \in SUBSET (1 .. n), NEW k \in 1 .. Cardinality(I)
  PROVE  \E i \in I : Cardinality({j \in I : j <= i}) = k
<1> DEFINE rank == [i \in I |-> Cardinality({j \in I : j <= i})]
           N == Cardinality(I)
           R == {rank[i] : i \in I}
<1>f. IsFiniteSet(I) /\ N \in Nat
  BY FiniteIndices
<1>i. \A i \in I : i \in Int
  OBVIOUS
<1>1. \A i \in I : IsFiniteSet({j \in I : j <= i}) /\ rank[i] \in 1 .. N
  <2> SUFFICES ASSUME NEW i \in I PROVE IsFiniteSet({j \in I : j <= i}) /\ rank[i] \in 1 .. N
    OBVIOUS
  <2> DEFINE S == {j \in I : j <= i}
  <2>1. S \in SUBSET I /\ i \in S
    OBVIOUS
  <2>2. IsFiniteSet(S) /\ Cardinality(S) <= N /\ Cardinality(S) \in Nat
    BY <1>f, <2>1, FS_Subset, FS_CardinalityType
  <2>3. Cardinality(S) # 0
    BY <2>1, <2>2, FS_EmptySet
  <2> QED
    BY <1>f, <2>2, <2>3
<1>2. \A i, l \in I : i < l => rank[i] < rank[l]
  <2> SUFFICES ASSUME NEW i \in I, NEW l \in I, i < l PROVE rank[i] < rank[l]
    OBVIOUS
  <2> DEFINE S == {j \in I : j <= i}
             T == {j \in I : j <= l}
  <2>1. S \in SUBSET T /\ l \in T /\ l \notin S
    <3>1. i \in Int /\ l \in Int /\ \A j \in I : j \in Int
      BY <1>i
    <3>2. \A j \in I : j <= i => j <= l
      BY <3>1
    <3>3. ~ (l <= i) /\ l <= l
      BY <3>1
    <3> QED
      BY <3>2, <3>3
  <2>2. Cardinality(S) <= Cardinality(T) /\ Cardinality(S) # Cardinality(T)
    BY <1>1, <2>1, FS_Subset
  <2>3. Cardinality(S) \in Nat /\ Cardinality(T) \in Nat
    BY <1>1, FS_CardinalityType
  <2> QED
    BY <2>2, <2>3
<1>3. \A i, l \in I : rank[i] = rank[l] => i = l
  BY <1>1, <1>2
<1>4. R \in SUBSET (1 .. N)
  BY <1>1
<1>5. rank \in Bijection(I, R)
  BY <1>3 DEF Bijection, Injection, Surjection, IsInjective
<1>6. IsFiniteSet(R) /\ Cardinality(R) = N
  BY <1>f, <1>5, FS_Bijection DEF ExistsBijection
<1>7. R = 1 .. N
  <2>1. IsFiniteSet(1 .. N) /\ Cardinality(1 .. N) = N
    BY <1>f, FS_Interval
  <2> HIDE DEF R, N
  <2> QED
    BY <1>4, <1>6, <2>1, FS_Subset
<1> QED
  BY <1>7

\* Kept takes elements of the sequence.
LEMMA KeptSeq ==
  ASSUME NEW E, NEW s \in Seq(E), NEW I \in SUBSET (DOMAIN s)
  PROVE  Kept(s, I) \in Seq(E)
<1>1. Len(s) \in Nat /\ DOMAIN s = 1 .. Len(s)
  OBVIOUS
<1>2. Cardinality(I) \in Nat
  BY <1>1, FiniteIndices
<1>3. \A k \in 1 .. Cardinality(I) : \E i \in I : Cardinality({j \in I : j <= i}) = k
  <2> DEFINE n == Len(s)
  <2>1. n \in Nat /\ I \in SUBSET (1 .. n)
    BY <1>1
  <2> HIDE DEF n
  <2> QED
    BY <2>1, RankOnto
<1>4. \A k \in 1 .. Cardinality(I) : s[CHOOSE i \in I : Cardinality({j \in I : j <= i}) = k] \in E
  <2> SUFFICES ASSUME NEW k \in 1 .. Cardinality(I)
               PROVE  s[CHOOSE i \in I : Cardinality({j \in I : j <= i}) = k] \in E
    OBVIOUS
  <2> DEFINE i0 == CHOOSE i \in I : Cardinality({j \in I : j <= i}) = k
  <2>1. i0 \in I
    BY <1>3, Zenon
  <2> HIDE DEF i0
  <2>2. s[i0] \in E
    BY <1>1, <2>1
  <2> QED
    BY <2>2 DEF i0
<1> HIDE DEF Kept
<1>5. Kept(s, I) \in [1 .. Cardinality(I) -> E]
  BY <1>4 DEF Kept
<1> QED
  BY <1>2, <1>5

-----------------------------------------------------------------------------
(* Events *)

\* What a reply can tell of.
SessionEvents == [method : {"attached", "detached"}, what : Sessions]
NoticeEvents  == [method : {"created", "destroyed"}, what : Notices]
Events == SessionEvents \cup NoticeEvents

\* Events of one kind about sessions, or about notices.
LEMMA EventsTyped ==
  /\ \A m \in {"attached", "detached"}, xs \in Seq(Sessions) : EventsOf(m, xs) \in Seq(Events)
  /\ \A m \in {"created", "destroyed"}, xs \in Seq(Notices) : EventsOf(m, xs) \in Seq(Events)
<1>1. ASSUME NEW m \in {"attached", "detached"}, NEW xs \in Seq(Sessions)
      PROVE  EventsOf(m, xs) \in Seq(Events)
  <2>1. \A i \in 1 .. Len(xs) : Event(m, xs[i]) \in Events
    <3> SUFFICES ASSUME NEW i \in 1 .. Len(xs) PROVE Event(m, xs[i]) \in Events
      OBVIOUS
    <3>1. xs[i] \in Sessions
      OBVIOUS
    <3> HIDE DEF Sessions
    <3> QED
      BY <3>1 DEF Event, Events, SessionEvents
  <2> HIDE DEF Events
  <2>2. DOMAIN xs = 1 .. Len(xs) /\ Len(xs) \in Nat
    OBVIOUS
  <2>3. EventsOf(m, xs) \in [1 .. Len(xs) -> Events]
    BY <2>1, <2>2 DEF EventsOf
  <2> QED
    BY <2>2, <2>3
<1>2. ASSUME NEW m \in {"created", "destroyed"}, NEW xs \in Seq(Notices)
      PROVE  EventsOf(m, xs) \in Seq(Events)
  <2>1. \A i \in 1 .. Len(xs) : Event(m, xs[i]) \in Events
    <3> SUFFICES ASSUME NEW i \in 1 .. Len(xs) PROVE Event(m, xs[i]) \in Events
      OBVIOUS
    <3>1. xs[i] \in Notices
      OBVIOUS
    <3> QED
      BY <3>1 DEF Event, Events, NoticeEvents
  <2>2. DOMAIN xs = 1 .. Len(xs) /\ Len(xs) \in Nat
    OBVIOUS
  <2>3. EventsOf(m, xs) \in [1 .. Len(xs) -> Events]
    BY <2>1, <2>2 DEF EventsOf
  <2> QED
    BY <2>2, <2>3
<1> QED
  BY <1>1, <1>2

\* Listing takes elements of the table.
LEMMA ListedSeq ==
  ASSUME NEW E, NEW s \in Seq(E), NEW some
  PROVE  Listed(s, some) \in Seq(E)
<1>1. {i \in DOMAIN s : s[i] \in some} \in SUBSET (DOMAIN s)
  OBVIOUS
<1> QED
  BY <1>1, KeptSeq DEF Listed

\* The sessions of a connection, in the order in which a reply names them.
LEMMA DetachEventsTyped ==
  ASSUME NEW c \in Conns
  PROVE  /\ \A ss : DetachEvents(c, ss) \in Seq(Events)
         /\ \A ss : EventsOf("attached", Listed(SessionsInOrder[c], ss)) \in Seq(Events)
<1>1. SessionsInOrder[c] \in Seq(Sessions)
  <2> DEFINE n == 3 * MaxIds
  <2>1. n \in Nat
    BY TargetBoundsAssumption
  <2>2. \A i \in 1 .. n :
          <<c, <<"page", "child", "tab">>[((i - 1) % 3) + 1], ((i - 1) \div 3) + 1>> \in Sessions
    <3> SUFFICES ASSUME NEW i \in 1 .. n
                 PROVE  <<c, <<"page", "child", "tab">>[((i - 1) % 3) + 1],
                          ((i - 1) \div 3) + 1>> \in Sessions
      OBVIOUS
    <3> DEFINE a == ((i - 1) % 3) + 1
               b == ((i - 1) \div 3) + 1
    <3>1. a \in 1 .. 3
      OBVIOUS
    <3>2. b \in 1 .. MaxIds
      BY TargetBoundsAssumption
    <3>3. <<"page", "child", "tab">>[a] \in {"page", "tab", "child"}
      BY <3>1
    <3> HIDE DEF a, b
    <3>4. <<c, <<"page", "child", "tab">>[a], b>> \in Sessions
      BY <3>2, <3>3 DEF Sessions, Targets
    <3> QED
      BY <3>4 DEF a, b
  <2>3. SessionsInOrder[c] \in [1 .. n -> Sessions]
    BY <2>2 DEF SessionsInOrder
  <2> HIDE DEF n
  <2> QED
    BY <2>1, <2>3
<1>2. \A ss : Listed(SessionsInOrder[c], ss) \in Seq(Sessions)
  BY <1>1, ListedSeq
<1> QED
  BY <1>2, EventsTyped DEF DetachEvents

\* The notices of discovery.
LEMMA NoticesTyped ==
  \A xs : CreatedEvents(xs) \in Seq(Events) /\ DestroyedEvents(xs) \in Seq(Events)
<1>1. \A kind \in {"page", "tab"} : NoticesInTurn[kind] \in Seq(Notices)
  <2> SUFFICES ASSUME NEW kind \in {"page", "tab"} PROVE NoticesInTurn[kind] \in Seq(Notices)
    OBVIOUS
  <2>1. NoticesInTurn[kind] \in [1 .. MaxIds -> Notices]
    BY DEF NoticesInTurn, Targets, Notices
  <2> QED
    BY <2>1, TargetBoundsAssumption
<1>2. \A xs : \A kind \in {"page", "tab"} : Listed(NoticesInTurn[kind], xs) \in Seq(Notices)
  BY <1>1, ListedSeq
<1>3. \A xs : \A kind \in {"page", "tab"} : \A m \in {"created", "destroyed"} :
        NoticesOf(m, kind, xs) \in Seq(Events)
  BY <1>2, EventsTyped DEF NoticesOf
<1>4. \A r, s \in Seq(Events) : r \o s \in Seq(Events)
  OBVIOUS
<1> QED
  BY <1>3, <1>4 DEF CreatedEvents, DestroyedEvents

\* The new sessions of a connection.
LEMMA AttachEventsTyped ==
  ASSUME NEW c \in Conns, NEW auto, NEW ts \in SUBSET Targets
  PROVE  AttachEvents(c, auto, Ascending(ts)) \in Seq(Events)
<1>1. [t \in Targets |-> t] \in Seq(Targets) /\ DOMAIN [t \in Targets |-> t] = Targets
  <2>1. [t \in Targets |-> t] \in [1 .. MaxIds -> Targets]
    BY DEF Targets
  <2> QED
    BY <2>1, TargetBoundsAssumption
<1>2. Ascending(ts) \in Seq(Targets)
  BY <1>1, KeptSeq DEF Ascending
<1> DEFINE a == Ascending(ts)
           xs == [i \in DOMAIN a |-> Root(c, auto, a[i])]
<1> HIDE DEF a
<1>3. a \in Seq(Targets) /\ DOMAIN a = 1 .. Len(a) /\ Len(a) \in Nat /\
        \A i \in 1 .. Len(a) : a[i] \in Targets
  BY <1>2 DEF a
<1>4. xs \in [1 .. Len(a) -> Sessions]
  BY <1>3 DEF Root, Sessions
<1>5. xs \in Seq(Sessions)
  BY <1>3, <1>4
<1> QED
  BY <1>5, EventsTyped DEF AttachEvents, a

\* Putting the events of a reconciliation among those of a handler adds none.
LEMMA InsertTyped ==
  ASSUME NEW es \in Seq(Events), NEW auto \in Seq(Events)
  PROVE  InsertAutoEvents(es, auto) \in Seq(Events)
<1>1. \A s \in Seq(Events) : \A ms : FirstOf(s, ms) \in 1 .. Len(s) + 1
  <2> SUFFICES ASSUME NEW s \in Seq(Events), NEW ms PROVE FirstOf(s, ms) \in 1 .. Len(s) + 1
    OBVIOUS
  <2> DEFINE w == s \o <<Event("end", None)>>
             I == {i \in 1 .. Len(w) : w[i].method \in ms \cup {"end"}}
  <2>1. Len(s) \in Nat /\ Len(w) = Len(s) + 1 /\ w[Len(s) + 1] = Event("end", None)
    OBVIOUS
  <2>2. Len(s) + 1 \in I
    BY <2>1 DEF Event
  <2>3. I \in SUBSET Nat /\ I # {}
    <3>1. \A i \in I : i \in 1 .. Len(w)
      OBVIOUS
    <3> HIDE DEF I, w
    <3>2. \A i \in I : i \in Nat
      BY <3>1, <2>1
    <3> QED
      BY <3>2, <2>2
  <2> HIDE DEF I
  <2>4. \E n \in I : \A m \in I : n <= m
    BY <2>3, Least
  <2>5. Min(I) \in I
    BY <2>4 DEF Min
  <2>6. FirstOf(s, ms) = Min(I)
    BY <2>3 DEF FirstOf, SelectInSeq, I
  <2> QED
    BY <2>1, <2>5, <2>6 DEF I
<1>2. \A s, xs \in Seq(Events) : \A i \in 1 .. Len(s) + 1 : SpliceAt(s, i, xs) \in Seq(Events)
  <2> SUFFICES ASSUME NEW s \in Seq(Events), NEW xs \in Seq(Events), NEW i \in 1 .. Len(s) + 1
               PROVE  SpliceAt(s, i, xs) \in Seq(Events)
    OBVIOUS
  <2>1. SubSeq(s, 1, i - 1) \in Seq(Events)
    OBVIOUS
  <2>2. SubSeq(s, i, Len(s)) \in Seq(Events)
    OBVIOUS
  <2> QED
    BY <2>1, <2>2 DEF SpliceAt
<1> DEFINE detached == Kept(auto, {i \in DOMAIN auto : auto[i].method = "detached"})
           others   == Kept(auto, {i \in DOMAIN auto : auto[i].method # "detached"})
           first    == SpliceAt(es, FirstOf(es, {"destroyed", "attached"}), detached)
           split    == FirstOf(others, {"attached"})
<1>3. detached \in Seq(Events) /\ others \in Seq(Events)
  BY KeptSeq
<1> HIDE DEF detached, others
<1>4. first \in Seq(Events)
  BY <1>1, <1>2, <1>3
<1>5. split \in 1 .. Len(others) + 1
  BY <1>1, <1>3
<1> HIDE DEF first, split
<1>6. SubSeq(others, 1, split - 1) \in Seq(Events) /\ SubSeq(others, split, Len(others)) \in Seq(Events)
  BY <1>3, <1>5
<1>7. SpliceAt(first, FirstOf(first, {"attached"}), SubSeq(others, 1, split - 1)) \in Seq(Events)
  BY <1>1, <1>2, <1>4, <1>6
<1>8. InsertAutoEvents(es, auto) =
        SpliceAt(first, FirstOf(first, {"attached"}), SubSeq(others, 1, split - 1))
        \o SubSeq(others, split, Len(others))
  BY DEF InsertAutoEvents, detached, others, first, split
<1> QED
  BY <1>6, <1>7, <1>8

-----------------------------------------------------------------------------
(* The invariant, and what the branching actions do *)

\* What a task can be busy with.
Jobs == [ids : SUBSET (Targets \cup Sessions), next : {"idle", "ended", "reconcile", "prune"},
         auto : Kinds, wait : BOOLEAN, early : Nat, failed : BOOLEAN]

\* Every variable is in its range.
Ranges ==
  /\ context \in [Targets -> Conns \cup {Default, None}]
  /\ live \subseteq Sessions /\ paused \subseteq Sessions
  /\ contexts \subseteq Conns /\ documents \subseteq Targets
  /\ entry \in [Conns -> Entries]
  /\ pc \in [Conns -> PCs]
  /\ job \in [Conns -> Jobs]
  /\ reply \in [Conns -> Seq(Events)]
  /\ told \in [Conns -> [sessions : SUBSET Sessions, ghosts : SUBSET Sessions, notices : SUBSET Notices]]

\* The limits of the tables.
Caps ==
  /\ IsFiniteSet(live) /\ Cardinality(live) <= MaxSessions
  /\ Cardinality(LiveTargets) <= MaxTargets
  /\ IsFiniteSet(contexts) /\ Cardinality(contexts) <= MaxContexts

\* The connection has disposed of its context.
Over(c) == pc[c] \in {"closed", "orphans", "prune"} \/ (pc[c] = "commit" /\ job[c].next = "prune")

\* What a task may be about to do: give back its own sessions, commit or forget
\* targets, enable auto-attach that was off or of the same kind.
Stages ==
  \A c \in Conns :
    /\ pc[c] = "detach" => \A s \in job[c].ids : s \in Sessions /\ s[1] = c
    /\ pc[c] # "detach" => job[c].ids \subseteq Targets
    /\ pc[c] = "enable" => job[c].auto # "off" /\ entry[c].auto \in {"off", job[c].auto}
    /\ pc[c] = "attach" => entry[c].auto # "off"
    /\ pc[c] = "commit" => job[c].next # "idle"
    /\ pc[c] = "forget" => job[c].ids \cap LiveTargets = {}
    /\ Over(c) \/ pc[c] \in {"detach", "dispose"} => entry[c] = NewEntry

\* The handler's early events are in the reply.
Early == \A c \in Conns : job[c].early <= Len(reply[c])

\* A record has a child only beside its tab, and nothing while auto-attach is off.
Records ==
  \A c \in Conns : /\ entry[c].children \subseteq entry[c].attached
                   /\ entry[c].auto = "off" => entry[c].attached = {}

\* A child's session does not outlive its tab's, unless both are being given back.
Tabs == \A c \in Conns, t \in Targets :
          pc[c] # "detach" /\ Child(c, t) \in live => TabOf(c, t) \in live

\* A session has a target, and is known to its connection or to its release.
Held == \A s \in live : TargetOf(s) \in LiveTargets /\ s \in Holds(s[1])

\* A context has a connection that will dispose of it, and a target a context.
Owned ==
  /\ \A c \in contexts : ~ Over(c)
  /\ \A t \in LiveTargets : context[t] = Default \/ context[t] \in contexts

\* A target is there as long as a session stops it, and it is one session.
Stops ==
  \A s \in paused : /\ TargetOf(s) \in LiveTargets
                    /\ \A r \in paused : TargetOf(r) = TargetOf(s) => r = s

\* Who will remove the navigation state of a target that is gone.
Outlived == \A t \in documents : t \in LiveTargets \/ \E c \in Conns : Removes(c, t)

IInv ==
  /\ Ranges /\ Caps /\ Stages /\ Early
  /\ Records /\ Tabs /\ Held
  /\ Owned /\ Stops /\ Outlived /\ NobodyWaitsForever

Step(c) == Send(c) \/ Request(c) \/ Proceed(c)

\* The names of sessions.
LEMMA Names ==
  ASSUME NEW c \in Conns, NEW t \in Targets
  PROVE  /\ \A auto : Root(c, auto, t) \in Sessions /\ TargetOf(Root(c, auto, t)) = t /\
           Root(c, auto, t)[1] = c
         /\ Child(c, t) \in Sessions /\ TargetOf(Child(c, t)) = t /\ Child(c, t)[1] = c
         /\ TabOf(c, t) \in Sessions /\ TargetOf(TabOf(c, t)) = t /\ TabOf(c, t)[1] = c
BY DEF Root, Child, TabOf, TargetOf, Sessions

\* What creating a target makes: a session, and its stop if the client waits.
New(c, t) == IF entry[c].auto = "off" THEN {} ELSE {Root(c, entry[c].auto, t)}
Stop(c, t) == IF entry[c].wait THEN New(c, t) ELSE {}
Full == Cardinality(LiveTargets) >= MaxTargets
Added(c, t) ==
  [entry[c] EXCEPT !.discovered = @ \cup Counted(entry[c], {"page", "tab"} \X {t}),
                   !.attached = IF New(c, t) = {} THEN @ ELSE @ \cup {t}]
WithChild(c, t) == [entry[c] EXCEPT !.children = @ \cup {t}]

\* A handler that answers with an error.
Refused(c) == Fail(c) /\ UNCHANGED <<context, live, paused, entry>>

\* Target.createTarget when it succeeds, and the two things it can do.
Creates(c, cx, t) ==
  /\ cx = Default \/ (cx = c /\ c \in contexts)
  /\ ~ Full
  /\ entry[c].auto = "off" \/ ~ SessionsFull
  /\ context' = [context EXCEPT ![t] = cx]
  /\ live' = live \cup New(c, t)
  /\ paused' = paused \cup Stop(c, t)
  /\ entry' = [entry EXCEPT ![c] = Added(c, t)]
  /\ Handled(c, IF Stop(c, t) = {} THEN "commit" ELSE "ended", {t},
             CreatedEvents(Counted(entry[c], {"page", "tab"} \X {t}))
               \o EventsOf("attached", Listed(SessionsInOrder[c], New(c, t))), <<>>, FALSE)

LEMMA CreateEffect ==
  ASSUME NEW c \in Conns, NEW cx \in Conns \cup {Default}, NEW t \in Targets, CreateTarget(c, cx, t)
  PROVE  /\ UNCHANGED <<contexts, documents, told>>
         /\ Serves(c, "create")
         /\ t \notin NamedTargets
         /\ Refused(c) \/ Creates(c, cx, t)
BY DEF CreateTarget, New, Stop, Lowest, Added, Full, Refused, Creates

\* Target.closeTarget when it succeeds, and the two things it can do.
Closes(c, t) ==
  /\ t \in Visible(c)
  /\ RemoveTargets({t})
  /\ \E known : entry' = [entry EXCEPT ![c].attached = @ \ {t}, ![c].children = @ \ {t},
                                      ![c].discovered = @ \ known]
  /\ \E ss, xs : Handled(c, "forget", {t}, <<>>, DetachEvents(c, ss) \o DestroyedEvents(xs), FALSE)

LEMMA CloseEffect ==
  ASSUME NEW c \in Conns, NEW t \in Targets, CloseTarget(c, t)
  PROVE  /\ UNCHANGED <<contexts, documents, told>>
         /\ Serves(c, "close")
         /\ Refused(c) \/ Closes(c, t)
BY DEF CloseTarget, Refused, Closes

\* Enabling auto-attach attaches to all of the list, or to nothing.
LEMMA EnableEffect ==
  ASSUME NEW c \in Conns, EnableAutoAttach(c)
  PROVE  /\ UNCHANGED <<context, paused, contexts, documents, told>>
         /\ pc[c] = "enable"
         /\ \/ Fail(c) /\ UNCHANGED <<live, entry>>
            \/ /\ Attachable(job[c].ids) = job[c].ids
               /\ live' = live \cup {Root(c, job[c].auto, t) : t \in job[c].ids}
               /\ entry' = [entry EXCEPT ![c].auto = job[c].auto, ![c].wait = job[c].wait,
                                        ![c].attached = @ \cup job[c].ids]
               /\ Succeed(c, AttachEvents(c, job[c].auto, Ascending(job[c].ids)))
BY DEF EnableAutoAttach

\* Target.setAutoAttach for a tab, on: there is nothing to do, or the page becomes
\* the tab's child and may take over its stop.
Declined(c) == (Fail(c) \/ Succeed(c, <<>>)) /\ UNCHANGED <<live, paused, entry>>

Adopts(c, t) ==
  /\ TabOf(c, t) \in live /\ t \notin entry[c].children /\ ~ SessionsFull
  /\ live' = live \cup {Child(c, t)}
  /\ \/ paused' = paused
     \/ TabOf(c, t) \in paused /\ paused' = (paused \ {TabOf(c, t)}) \cup {Child(c, t)}
  /\ entry' = [entry EXCEPT ![c] = WithChild(c, t)]
  /\ Succeed(c, <<Event("attached", Child(c, t))>>)

LEMMA ChildEffect ==
  ASSUME NEW c \in Conns, NEW t \in entry[c].attached, NEW wait \in BOOLEAN, AttachChild(c, t, wait)
  PROVE  /\ UNCHANGED <<context, contexts, documents, told>>
         /\ Serves(c, "child")
         /\ entry[c].auto = "tabs"
         /\ Declined(c) \/ Adopts(c, t)
BY DEF AttachChild, WithChild, Declined, Adopts

\* The same, off: the child goes.
LEMMA UnchildEffect ==
  ASSUME NEW c \in Conns, NEW t \in entry[c].attached, DetachChild(c, t)
  PROVE  /\ UNCHANGED <<context, paused, contexts, documents, told>>
         /\ Serves(c, "child")
         /\ entry[c].auto = "tabs"
         /\ \/ Fail(c) /\ UNCHANGED <<live, entry>>
            \/ /\ live' = live \ {Child(c, t)}
               /\ entry' = [entry EXCEPT ![c].children = @ \ {t}]
               /\ \E ss : Succeed(c, DetachEvents(c, ss))
BY DEF DetachChild

-----------------------------------------------------------------------------
(* The types are kept *)

\* A step moves its own task, to a place and a job there are.
Moves(c) == \E l \in PCs, j \in Jobs : pc' = [pc EXCEPT ![c] = l] /\ job' = [job EXCEPT ![c] = j]

LEMMA StepMoves ==
  ASSUME Ranges, Stages, NEW c \in Conns, Step(c)
  PROVE  Moves(c)
<1>t. pc \in [Conns -> PCs] /\ job \in [Conns -> Jobs] /\ entry \in [Conns -> Entries]
  BY DEF Ranges
<1>j. job[c] \in Jobs /\ NoJob \in Jobs /\ entry[c] \in Entries
  BY <1>t DEF NoJob, Jobs, Kinds
<1>m. ASSUME NEW l \in PCs, NEW j \in Jobs, pc' = [pc EXCEPT ![c] = l], job' = [job EXCEPT ![c] = j]
      PROVE  Moves(c)
  BY <1>m DEF Moves
<1>h. ASSUME NEW next \in {"ended", "commit", "forget"}, NEW ids \in SUBSET Targets,
               NEW early \in Seq(Events),
             NEW events, NEW failed \in BOOLEAN, Handled(c, next, ids, early, events, failed)
      PROVE  Moves(c)
  <2>1. Len(early) \in Nat
    OBVIOUS
  <2>2. [NoJob EXCEPT !.ids = ids, !.next = "ended", !.failed = failed, !.early = Len(early)] \in Jobs
    BY <2>1 DEF NoJob, Jobs, Kinds
  <2>3. next \in PCs
    BY DEF PCs
  <2> QED
    BY <1>h, <1>m, <2>2, <2>3 DEF Handled
<1>e. <<>> \in Seq(Events) /\ {} \in SUBSET Targets
  OBVIOUS
<1>f. Fail(c) => Moves(c)
  BY <1>h, <1>e DEF Fail
<1>s. \A events : Succeed(c, events) => Moves(c)
  BY <1>h, <1>e DEF Succeed
<1>1. CASE \E cx \in Conns \cup {Default}, t \in Targets : CreateTarget(c, cx, t)
  <2> PICK cx \in Conns \cup {Default}, t \in Targets : CreateTarget(c, cx, t)
    BY <1>1
  <2> DEFINE es == CreatedEvents(Counted(entry[c], {"page", "tab"} \X {t}))
                     \o EventsOf("attached", Listed(SessionsInOrder[c], New(c, t)))
  <2>1. es \in Seq(Events)
    BY NoticesTyped, DetachEventsTyped
  <2>2. Fail(c) \/ \E next \in {"ended", "commit"} : Handled(c, next, {t}, es, <<>>, FALSE)
    <3> HIDE DEF es
    <3>1. CASE Refused(c)
      BY <3>1 DEF Refused
    <3>2. CASE Creates(c, cx, t)
      BY <3>2 DEF Creates, es
    <3> QED
      BY <3>1, <3>2, CreateEffect
  <2> HIDE DEF es
  <2> QED
    BY <1>h, <1>f, <1>s, <2>1, <2>2
<1>2. CASE \E t \in Targets : CloseTarget(c, t)
  <2> PICK t \in Targets : CloseTarget(c, t)
    BY <1>2
  <2> QED
    BY CloseEffect, <1>h, <1>f, <1>s, <1>e DEF Refused, Closes
<1>3. CASE EnableAutoAttach(c)
  BY <1>3, <1>f, <1>s, EnableEffect
<1>4. CASE \E t \in entry[c].attached, wait \in BOOLEAN : AttachChild(c, t, wait)
  BY <1>4, <1>f, <1>s, ChildEffect DEF Declined, Adopts
<1>5. CASE \E t \in entry[c].attached : DetachChild(c, t)
  BY <1>5, <1>f, <1>s, UnchildEffect
<1>6. CASE DisableAutoAttach(c) \/ CreateBrowserContext(c) \/
             \E discover \in Filters : SetDiscoverTargets(c, discover)
  BY <1>6, <1>f, <1>s DEF DisableAutoAttach, CreateBrowserContext, SetDiscoverTargets
<1>7. CASE \E failed \in BOOLEAN : Other(c, failed)
  BY <1>7, <1>h, <1>e DEF Other
<1>8. CASE \E s \in told[c].sessions : RunIfWaitingForDebugger(c, s)
  <2> PICK s \in told[c].sessions : RunIfWaitingForDebugger(c, s)
    BY <1>8
  <2>1. s \in live => {TargetOf(s)} \in SUBSET Targets
    BY DEF Ranges, Sessions, TargetOf
  <2> QED
    BY <1>f, <1>s, <1>h, <1>e, <2>1 DEF RunIfWaitingForDebugger
<1>9. CASE Open(c) \/ Send(c) \/ Prune(c)
  BY <1>9, <1>j, <1>m, <1>t DEF Open, Send, Prune, PCs
<1>10. CASE \E auto \in {"pages", "tabs"}, wait \in BOOLEAN : SetAutoAttach(c, auto, wait)
  <2> PICK auto \in {"pages", "tabs"}, wait \in BOOLEAN : SetAutoAttach(c, auto, wait)
    BY <1>10
  <2> DEFINE ids == Missing(c, Swept(c, entry[c]), auto)
  <2>1. ids \in SUBSET Targets
    BY DEF Missing, LiveTargets, Visible
  <2>2. Fail(c) \/ (pc' = [pc EXCEPT ![c] = "enable"] /\
          job' = [job EXCEPT ![c] = [NoJob EXCEPT !.ids = ids, !.auto = auto, !.wait = wait]])
    BY DEF SetAutoAttach
  <2> HIDE DEF ids
  <2>3. [NoJob EXCEPT !.ids = ids, !.auto = auto, !.wait = wait] \in Jobs
    BY <2>1 DEF Jobs, NoJob, Kinds
  <2> QED
    BY <1>f, <1>s, <1>m, <2>2, <2>3 DEF PCs
<1>11. CASE Release(c)
  <2>1. Returned(c) \in SUBSET Sessions
    <3>1. entry[c].attached \subseteq Targets /\ entry[c].children \subseteq Targets
      BY <1>j DEF Entries
    <3> QED
      BY <3>1, Names DEF Returned, SessionsOf
  <2>2. [NoJob EXCEPT !.ids = Returned(c)] \in Jobs
    BY <2>1 DEF Jobs, NoJob, Kinds
  <2> QED
    BY <1>11, <1>m, <2>2 DEF Release, PCs
<1>12. CASE Forget(c) \/ (\E t \in job[c].ids : CommitInitialBlank(c, t)) \/
              \E s \in job[c].ids : DetachNext(c, s)
  <2>1. \A I \in SUBSET job[c].ids : [job[c] EXCEPT !.ids = I] \in Jobs
    BY <1>j DEF Jobs
  <2>2. pc[c] = "commit" => job[c].next \in PCs
    BY <1>j DEF Stages, Jobs, PCs
  <2>3. \E I \in SUBSET job[c].ids : job' = [job EXCEPT ![c] = [job[c] EXCEPT !.ids = I]]
    <3>1. CASE Forget(c)
      BY <3>1 DEF Forget
    <3>2. CASE \E t \in job[c].ids : CommitInitialBlank(c, t)
      BY <3>2 DEF CommitInitialBlank
    <3>3. CASE \E s \in job[c].ids : DetachNext(c, s)
      BY <3>3 DEF DetachNext
    <3> QED
      BY <1>12, <3>1, <3>2, <3>3
  <2>4. \E l \in PCs : pc' = [pc EXCEPT ![c] = l]
    BY <1>12, <2>2 DEF Forget, CommitInitialBlank, DetachNext, PCs
  <2> QED
    BY <1>m, <2>1, <2>3, <2>4
<1>13. CASE DisposeBrowserContext(c)
  BY <1>13, <1>m, <1>j, <1>t DEF DisposeBrowserContext, PCs
<1>14. ASSUME NEW at, NEW next \in {"reconcile", "prune"}, TakeOrphanedPaused(c, at, next)
       PROVE  Moves(c)
  <2> DEFINE ids == {TargetOf(s) : s \in Orphaned}
  <2>1. ids \in SUBSET Targets
    BY DEF Ranges, Sessions, TargetOf, Orphaned
  <2>2. pc' = [pc EXCEPT ![c] = IF Orphaned = {} THEN next ELSE "commit"] /\
          job' = [job EXCEPT ![c] = [job[c] EXCEPT !.ids = ids, !.next = next]]
    BY <1>14, <1>t DEF TakeOrphanedPaused
  <2> HIDE DEF ids
  <2>3. [job[c] EXCEPT !.ids = ids, !.next = next] \in Jobs
    BY <2>1, <1>j DEF Jobs
  <2> QED
    BY <1>m, <2>2, <2>3 DEF PCs
<1>15. CASE Reconcile(c)
  <2> DEFINE e == Swept(c, entry[c])
             missing == IF job[c].failed \/ e.auto = "off" THEN {} ELSE Missing(c, e, e.auto)
  <2>1. missing \in SUBSET Targets
    BY DEF Missing, LiveTargets, Visible
  <2>2. pc' = [pc EXCEPT ![c] = IF missing = {} THEN "send" ELSE "attach"] /\
          job' = [job EXCEPT ![c] = [NoJob EXCEPT !.ids = missing]]
    BY <1>15 DEF Reconcile
  <2> HIDE DEF missing
  <2>3. [NoJob EXCEPT !.ids = missing] \in Jobs
    BY <2>1 DEF Jobs, NoJob, Kinds
  <2> QED
    BY <1>m, <2>2, <2>3 DEF PCs
<1>16. CASE AttachMissing(c)
  BY <1>16, <1>m, <1>j DEF AttachMissing, PCs
<1> QED
  BY <1>1, <1>2, <1>3, <1>4, <1>5, <1>6, <1>7, <1>8, <1>9, <1>10, <1>11, <1>12, <1>13, <1>14, <1>15, <1>16
     DEF Step, Request, Proceed

\* What Records says of one record.
Sound(e) == e.children \subseteq e.attached /\ (e.auto = "off" => e.attached = {})

\* A step writes its own record, and leaves it sound.
Writes(c) == \E e \in Entries : Sound(e) /\ entry' = [entry EXCEPT ![c] = e]

\* Sweeping takes the attachments whose session is gone out of a record.
LEMMA SweptSound ==
  ASSUME NEW c \in Conns, NEW e \in Entries, Sound(e)
  PROVE  /\ Swept(c, e) \in Entries /\ Sound(Swept(c, e))
         /\ Swept(c, e).auto = e.auto /\ Swept(c, e).discover = e.discover /\ Swept(c, e).wait = e.wait
         /\ Swept(c, e).attached = {t \in e.attached : Root(c, e.auto, t) \in live}
         /\ Swept(c, e).children = {t \in e.children : Root(c, e.auto, t) \in live}
<1> DEFINE lost == {t \in e.attached : Root(c, e.auto, t) \notin live}
           g == {s \in SessionsOf(c, e) : TargetOf(s) \in lost}
<1>1. g \in SUBSET Sessions
  <2>1. e.attached \subseteq Targets /\ e.children \subseteq Targets
    BY DEF Entries
  <2> QED
    BY <2>1, Names DEF SessionsOf
<1>2. Swept(c, e) = [e EXCEPT !.attached = @ \ lost, !.children = @ \ lost, !.gone = @ \cup g]
  BY DEF Swept
<1>3. e.attached \ lost = {t \in e.attached : Root(c, e.auto, t) \in live}
  OBVIOUS
<1>4. e.children \ lost = {t \in e.children : Root(c, e.auto, t) \in live}
  BY DEF Sound
<1> HIDE DEF lost, g
<1> QED
  BY <1>1, <1>2, <1>3, <1>4 DEF Entries, Sound

\* What discovery should have told is a set of notices.
LEMMA NowNotices ==
  ASSUME Ranges, NEW c \in Conns, NEW e
  PROVE  e.discover \in Kinds => Now(c, e) \in SUBSET Notices
BY DEF Now, Notices, Visible, LiveTargets, Kinds

\* Every record that a step writes is sound: whatever leaves the attachments leaves
\* the children, and nothing is attached while auto-attach is off.
LEMMA StepWrites ==
  ASSUME Ranges, Stages, Records, NEW c \in Conns, Step(c)
  PROVE  Writes(c)
<1>e. entry \in [Conns -> Entries] /\ entry[c] \in Entries /\ Sound(entry[c])
  BY DEF Ranges, Records, Sound
<1>s. UNCHANGED entry => Writes(c)
  BY <1>e DEF Writes
<1>n. NewEntry \in Entries /\ Sound(NewEntry)
  BY DEF NewEntry, Entries, Sound, Kinds
<1>1. CASE \E cx \in Conns \cup {Default}, t \in Targets : CreateTarget(c, cx, t)
  <2> PICK cx \in Conns \cup {Default}, t \in Targets : CreateTarget(c, cx, t)
    BY <1>1
  <2>1. Counted(entry[c], {"page", "tab"} \X {t}) \in SUBSET Notices
    BY <1>e DEF Counted, Notices, Entries, Kinds
  <2>2. UNCHANGED entry \/ entry' = [entry EXCEPT ![c] = Added(c, t)]
    <3>1. Refused(c) => UNCHANGED entry
      BY DEF Refused
    <3>2. Creates(c, cx, t) => entry' = [entry EXCEPT ![c] = Added(c, t)]
      BY DEF Creates
    <3> QED
      BY <3>1, <3>2, CreateEffect
  <2>3. Added(c, t) \in Entries
    BY <1>e, <2>1 DEF Entries, Added
  <2>4. Sound(Added(c, t))
    BY <1>e DEF Sound, New, Entries, Added
  <2> QED
    BY <1>s, <2>2, <2>3, <2>4 DEF Writes
<1>2. CASE \E t \in Targets : CloseTarget(c, t)
  <2> PICK t \in Targets : CloseTarget(c, t)
    BY <1>2
  <2>1. CASE UNCHANGED entry
    BY <1>s, <2>1
  <2>2. CASE \E known : entry' = [entry EXCEPT ![c].attached = @ \ {t}, ![c].children = @ \ {t},
                                         ![c].discovered = @ \ known]
    <3> PICK known : entry' = [entry EXCEPT ![c].attached = @ \ {t}, ![c].children = @ \ {t},
                                         ![c].discovered = @ \ known]
      BY <2>2
    <3> DEFINE e == [entry[c] EXCEPT !.attached = @ \ {t}, !.children = @ \ {t}, !.discovered = @ \ known]
    <3>1. e \in Entries /\ Sound(e)
      BY <1>e DEF Entries, Sound
    <3>2. entry' = [entry EXCEPT ![c] = e]
      BY <1>e
    <3> QED
      BY <3>1, <3>2 DEF Writes
  <2> QED
    BY CloseEffect, <2>1, <2>2 DEF Refused, Closes
<1>3. CASE EnableAutoAttach(c)
  <2>1. CASE UNCHANGED entry
    BY <1>s, <2>1
  <2>2. CASE entry' = [entry EXCEPT ![c].auto = job[c].auto, ![c].wait = job[c].wait,
                                        ![c].attached = @ \cup job[c].ids]
    <3> DEFINE e == [entry[c] EXCEPT !.auto = job[c].auto, !.wait = job[c].wait,
                            !.attached = @ \cup job[c].ids]
    <3>0. job[c].auto \in Kinds /\ job[c].wait \in BOOLEAN /\ job[c].ids \subseteq Targets /\
            job[c].auto # "off"
      BY <1>3, EnableEffect DEF Ranges, Jobs, Stages
    <3>1. e \in Entries
      BY <1>e, <3>0 DEF Entries
    <3>2. Sound(e)
      BY <1>e, <3>0 DEF Entries, Sound
    <3>3. entry' = [entry EXCEPT ![c] = e]
      BY <1>e, <2>2
    <3> QED
      BY <3>1, <3>2, <3>3 DEF Writes
  <2> QED
    BY <1>3, EnableEffect, <2>1, <2>2
<1>4. CASE AttachMissing(c)
  <2> DEFINE ts == Attachable(job[c].ids)
             e == [entry[c] EXCEPT !.attached = @ \cup ts]
  <2>1. ts \subseteq Targets /\ entry[c].auto # "off"
    BY <1>4 DEF AttachMissing, Attachable, Stages
  <2>2. entry' = [entry EXCEPT ![c] = e]
    BY <1>4, <1>e DEF AttachMissing
  <2> HIDE DEF ts
  <2>3. e \in Entries
    BY <1>e, <2>1 DEF Entries
  <2>4. Sound(e)
    BY <1>e, <2>1 DEF Entries, Sound
  <2> QED
    BY <2>2, <2>3, <2>4 DEF Writes
<1>5. CASE \E t \in entry[c].attached, wait \in BOOLEAN : AttachChild(c, t, wait)
  <2> PICK t \in entry[c].attached, wait \in BOOLEAN : AttachChild(c, t, wait)
    BY <1>5
  <2>1. UNCHANGED entry \/ entry' = [entry EXCEPT ![c] = WithChild(c, t)]
    BY ChildEffect DEF Declined, Adopts
  <2>2. WithChild(c, t) \in Entries /\ Sound(WithChild(c, t))
    BY <1>e DEF Entries, Sound, WithChild
  <2> QED
    BY <1>s, <2>1, <2>2 DEF Writes
<1>6. CASE \E t \in entry[c].attached : DetachChild(c, t)
  <2> PICK t \in entry[c].attached : DetachChild(c, t)
    BY <1>6
  <2> DEFINE e == [entry[c] EXCEPT !.children = @ \ {t}]
  <2>1. UNCHANGED entry \/ entry' = [entry EXCEPT ![c] = e]
    BY UnchildEffect, <1>e
  <2>2. e \in Entries /\ Sound(e)
    BY <1>e DEF Entries, Sound
  <2> QED
    BY <1>s, <2>1, <2>2 DEF Writes
<1>7. CASE DisableAutoAttach(c)
  <2> DEFINE e == [entry[c] EXCEPT !.auto = "off", !.wait = FALSE, !.attached = {}, !.children = {},
                            !.gone = {}]
  <2>1. e \in Entries /\ Sound(e)
    BY <1>e DEF Entries, Sound, Kinds
  <2> QED
    BY <1>7, <2>1 DEF DisableAutoAttach, Writes
<1>8. CASE \E discover \in Filters : SetDiscoverTargets(c, discover)
  <2> PICK discover \in Filters : SetDiscoverTargets(c, discover)
    BY <1>8
  <2> DEFINE d == [entry[c] EXCEPT !.discover = discover]
             e == [d EXCEPT !.discovered = Now(c, d)]
  <2>1. discover \in Kinds
    BY FiltersAssumption
  <2>2. d \in Entries /\ d.discover \in Kinds /\ Sound(d)
    BY <1>e, <2>1 DEF Entries, Sound
  <2>3. entry' = [entry EXCEPT ![c] = e]
    BY DEF SetDiscoverTargets
  <2> HIDE DEF d
  <2>4. Now(c, d) \in SUBSET Notices
    BY <2>2, NowNotices
  <2>5. e \in Entries /\ Sound(e)
    BY <2>2, <2>4 DEF Entries, Sound
  <2> QED
    BY <2>3, <2>5 DEF Writes
<1>9. CASE \E auto \in {"pages", "tabs"}, wait \in BOOLEAN : SetAutoAttach(c, auto, wait)
  BY <1>9, <1>s, <1>e, SweptSound DEF SetAutoAttach, Writes
<1>10. CASE Reconcile(c)
  <2> DEFINE d == Swept(c, entry[c])
             e == [d EXCEPT !.gone = {}, !.discovered = Now(c, d)]
  <2>1. d \in Entries /\ Sound(d) /\ d.discover \in Kinds
    BY <1>e, SweptSound DEF Entries
  <2>2. entry' = [entry EXCEPT ![c] = e]
    BY <1>10 DEF Reconcile
  <2> HIDE DEF d
  <2>3. Now(c, d) \in SUBSET Notices
    BY <2>1, NowNotices
  <2>4. e \in Entries /\ Sound(e)
    BY <2>1, <2>3 DEF Entries, Sound
  <2> QED
    BY <2>2, <2>4 DEF Writes
<1>11. CASE Open(c) \/ Release(c)
  BY <1>11, <1>n DEF Open, Release, Writes
<1>12. CASE UNCHANGED entry
  BY <1>s, <1>12
<1> QED
  BY <1>1, <1>2, <1>3, <1>4, <1>5, <1>6, <1>7, <1>8, <1>9, <1>10, <1>11, <1>12 DEF Step, Request,
       Proceed, Send,
     Other, CreateBrowserContext, RunIfWaitingForDebugger, Forget, CommitInitialBlank,
     TakeOrphanedPaused, DetachNext,
     DisposeBrowserContext, Prune

\* The registry and the navigation states stay in their ranges.
Registry ==
  /\ context \in [Targets -> Conns \cup {Default, None}]
  /\ live \subseteq Sessions /\ paused \subseteq Sessions
  /\ contexts \subseteq Conns /\ documents \subseteq Targets

LEMMA RegistryTyped ==
  ASSUME Ranges, Stages, NEW c \in Conns, Step(c)
  PROVE  Registry'
<1>t. Registry /\ pc \in [Conns -> PCs] /\ job \in [Conns -> Jobs] /\ entry \in [Conns -> Entries]
  BY DEF Ranges, Registry
<1>a. entry[c].attached \subseteq Targets /\ entry[c].children \subseteq Targets
  BY <1>t DEF Entries
<1>u. UNCHANGED registryVars /\ UNCHANGED documents => Registry'
  BY <1>t DEF Registry, registryVars
<1>r. ASSUME NEW ts, RemoveTargets(ts), UNCHANGED documents, contexts' \in SUBSET contexts
      PROVE  Registry'
  BY <1>r, <1>t DEF Registry, RemoveTargets
<1>1. CASE \E cx \in Conns \cup {Default}, t \in Targets : CreateTarget(c, cx, t)
  <2> PICK cx \in Conns \cup {Default}, t \in Targets : CreateTarget(c, cx, t)
    BY <1>1
  <2>1. New(c, t) \subseteq Sessions /\ Stop(c, t) \subseteq Sessions
    BY Names DEF New, Stop
  <2>2. CASE Refused(c)
    BY <2>2, <1>u, CreateEffect DEF registryVars, Refused
  <2>3. CASE Creates(c, cx, t)
    BY <2>1, <2>3, <1>t, CreateEffect DEF Registry, Creates
  <2> QED
    BY <2>2, <2>3, CreateEffect
<1>2. CASE \E t \in Targets : CloseTarget(c, t)
  BY <1>2, CloseEffect, <1>u, <1>r DEF registryVars, Refused, Closes
<1>3. CASE EnableAutoAttach(c)
  <2>1. job[c].ids \subseteq Targets
    BY <1>3, EnableEffect DEF Stages
  <2>2. {Root(c, job[c].auto, t) : t \in job[c].ids} \subseteq Sessions
    BY <2>1, Names
  <2>3. CASE UNCHANGED live
    BY <2>3, <1>3, <1>u, EnableEffect DEF registryVars
  <2>4. CASE live' = live \cup {Root(c, job[c].auto, t) : t \in job[c].ids}
    BY <2>2, <2>4, <1>3, <1>t, EnableEffect DEF Registry
  <2> QED
    BY <1>3, <2>3, <2>4, EnableEffect
<1>4. CASE \E t \in entry[c].attached, wait \in BOOLEAN : AttachChild(c, t, wait)
  <2> PICK t \in entry[c].attached, wait \in BOOLEAN : AttachChild(c, t, wait)
    BY <1>4
  <2>1. Child(c, t) \in Sessions
    BY <1>a, Names
  <2>2. CASE UNCHANGED <<live, paused>>
    BY <2>2, <1>u, ChildEffect DEF registryVars, Declined, Adopts
  <2>3. CASE /\ live' = live \cup {Child(c, t)}
             /\ \/ paused' = paused
                \/ paused' = (paused \ {TabOf(c, t)}) \cup {Child(c, t)}
    <3>1. UNCHANGED <<context, contexts, documents>>
      BY ChildEffect
    <3>2. paused' \subseteq paused \cup {Child(c, t)}
      BY <2>3
    <3> QED
      BY <2>1, <2>3, <3>1, <3>2, <1>t DEF Registry
  <2> QED
    BY <2>2, <2>3, ChildEffect DEF Declined, Adopts
<1>5. CASE \E t \in entry[c].attached : DetachChild(c, t)
  <2> PICK t \in entry[c].attached : DetachChild(c, t)
    BY <1>5
  <2> QED
    BY UnchildEffect, <1>t DEF Registry
<1>6. CASE AttachMissing(c)
  <2>1. {Root(c, entry[c].auto, t) : t \in Attachable(job[c].ids)} \subseteq Sessions
    <3>1. Attachable(job[c].ids) \subseteq Targets
      BY <1>6 DEF Attachable, AttachMissing, Stages
    <3> QED
      BY <3>1, Names
  <2> QED
    BY <1>6, <2>1, <1>t DEF AttachMissing, Registry
<1>7. CASE \/ DisableAutoAttach(c) \/ CreateBrowserContext(c)
           \/ \E s \in told[c].sessions : RunIfWaitingForDebugger(c, s)
  BY <1>7, <1>t DEF DisableAutoAttach, CreateBrowserContext, RunIfWaitingForDebugger, Registry
<1>8. CASE Forget(c) \/ (\E t \in job[c].ids : CommitInitialBlank(c, t)) \/ Prune(c)
  BY <1>8, <1>t DEF Forget, CommitInitialBlank, Prune, Registry, LiveTargets, registryVars
<1>9. CASE TakeOrphanedPaused(c, "ended", "reconcile") \/ TakeOrphanedPaused(c, "orphans", "prune")
           \/ \E s \in job[c].ids : DetachNext(c, s)
  BY <1>9, <1>t DEF TakeOrphanedPaused, DetachNext, Registry
<1>10. CASE DisposeBrowserContext(c)
  BY <1>10, <1>r DEF DisposeBrowserContext
<1>11. CASE UNCHANGED registryVars /\ UNCHANGED documents
  BY <1>11, <1>u
<1> QED
  BY <1>1, <1>2, <1>3, <1>4, <1>5, <1>6, <1>7, <1>8, <1>9, <1>10, <1>11 DEF Step, Request, Proceed, Send,
     Other, Open, Release, SetAutoAttach, SetDiscoverTargets, Reconcile

\* A step writes its own reply, which keeps the early events.
Answers(c) == \E r \in Seq(Events) : reply' = [reply EXCEPT ![c] = r] /\ job'[c].early <= Len(r)

LEMMA StepAnswers ==
  ASSUME Ranges, Stages, Early, NEW c \in Conns, Step(c)
  PROVE  Answers(c)
<1>t. /\ pc \in [Conns -> PCs] /\ job \in [Conns -> Jobs] /\ entry \in [Conns -> Entries] /\
           reply \in [Conns -> Seq(Events)]
      /\ job[c] \in Jobs /\ reply[c] \in Seq(Events) /\ job[c].early \in Nat /\
           job[c].early <= Len(reply[c])
  BY DEF Ranges, Jobs, Early
<1>m. ASSUME NEW r \in Seq(Events), reply' = [reply EXCEPT ![c] = r], job'[c].early <= Len(r)
      PROVE  Answers(c)
  BY <1>m DEF Answers
<1>h. ASSUME NEW next, NEW ids, NEW early \in Seq(Events),
             NEW events \in Seq(Events), NEW failed, Handled(c, next, ids, early, events, failed)
      PROVE  Answers(c)
  <2>1. early \o events \in Seq(Events) /\ Len(early) <= Len(early \o events)
    OBVIOUS
  <2>2. reply' = [reply EXCEPT ![c] = early \o events]
    BY <1>h DEF Handled
  <2>3. job'[c].early = Len(early)
    BY <1>h, <1>t DEF Handled, NoJob
  <2> QED
    BY <2>1, <2>2, <2>3, <1>m
<1>e. <<>> \in Seq(Events) /\ Len(<<>>) = 0
  OBVIOUS
<1>z. ASSUME reply' = [reply EXCEPT ![c] = <<>>], job'[c].early = 0
      PROVE  Answers(c)
  <2>1. job'[c].early <= Len(<<>>)
    BY <1>z, <1>e
  <2> QED
    BY <1>z, <1>e, <1>m, <2>1, Zenon
<1>f. Fail(c) => Answers(c)
  BY <1>h, <1>e DEF Fail
<1>s. \A events \in Seq(Events) : Succeed(c, events) => Answers(c)
  BY <1>h, <1>e DEF Succeed
<1>u. UNCHANGED reply /\ (job'[c].early = job[c].early \/ job'[c].early = 0) => Answers(c)
  <2> SUFFICES ASSUME UNCHANGED reply, job'[c].early = job[c].early \/ job'[c].early = 0 PROVE Answers(c)
    OBVIOUS
  <2>1. reply' = [reply EXCEPT ![c] = reply[c]]
    BY <1>t
  <2>2. job'[c].early <= Len(reply[c])
    BY <1>t
  <2> QED
    BY <1>t, <2>1, <2>2, <1>m
<1>1. CASE \E cx \in Conns \cup {Default}, t \in Targets : CreateTarget(c, cx, t)
  <2> PICK cx \in Conns \cup {Default}, t \in Targets : CreateTarget(c, cx, t)
    BY <1>1
  <2> DEFINE es == CreatedEvents(Counted(entry[c], {"page", "tab"} \X {t}))
                     \o EventsOf("attached", Listed(SessionsInOrder[c], New(c, t)))
  <2>1. es \in Seq(Events)
    BY NoticesTyped, DetachEventsTyped
  <2>2. Fail(c) \/ \E next \in {"ended", "commit"} : Handled(c, next, {t}, es, <<>>, FALSE)
    BY CreateEffect DEF Refused, Creates
  <2> HIDE DEF es
  <2> QED
    BY <1>h, <1>f, <1>e, <2>1, <2>2
<1>2. CASE \E t \in Targets : CloseTarget(c, t)
  <2> PICK t \in Targets : CloseTarget(c, t)
    BY <1>2
  <2>1. \A ss, xs : DetachEvents(c, ss) \o DestroyedEvents(xs) \in Seq(Events)
    BY NoticesTyped, DetachEventsTyped
  <2> QED
    BY CloseEffect, <1>h, <1>f, <1>e, <2>1 DEF Refused, Closes
<1>3. CASE EnableAutoAttach(c)
  <2>1. AttachEvents(c, job[c].auto, Ascending(job[c].ids)) \in Seq(Events)
    BY <1>3, EnableEffect, AttachEventsTyped DEF Stages
  <2> QED
    BY <1>3, <1>f, <1>s, <2>1, EnableEffect
<1>4. CASE \E t \in entry[c].attached, wait \in BOOLEAN : AttachChild(c, t, wait)
  <2> PICK t \in entry[c].attached, wait \in BOOLEAN : AttachChild(c, t, wait)
    BY <1>4
  <2>1. <<Event("attached", Child(c, t))>> \in Seq(Events)
    <3>1. Child(c, t) \in Sessions
      BY <1>t, Names DEF Entries
    <3>2. Event("attached", Child(c, t)) \in Events
      <4> HIDE DEF Sessions
      <4> QED
        BY <3>1 DEF Event, Events, SessionEvents
    <3> QED
      BY <3>2
  <2> QED
    BY <1>f, <1>s, <1>e, <2>1, ChildEffect DEF Declined, Adopts
<1>5. CASE \E t \in entry[c].attached : DetachChild(c, t)
  BY <1>5, <1>f, <1>s, UnchildEffect, DetachEventsTyped
<1>6. CASE DisableAutoAttach(c)
  <2>1. \A rs, ss : DetachEvents(c, rs) \o DetachEvents(c, ss) \in Seq(Events)
    BY DetachEventsTyped
  <2> QED
    BY <1>6, <1>s, <2>1 DEF DisableAutoAttach
<1>7. CASE CreateBrowserContext(c)
  BY <1>7, <1>f, <1>s, <1>e DEF CreateBrowserContext
<1>8. CASE \E discover \in Filters : SetDiscoverTargets(c, discover)
  <2>1. \A e : DiffEvents(c, e) \in Seq(Events)
    BY NoticesTyped DEF DiffEvents
  <2> QED
    BY <1>8, <1>s, <2>1 DEF SetDiscoverTargets
<1>9. CASE \/ \E failed \in BOOLEAN : Other(c, failed)
           \/ \E s \in told[c].sessions : RunIfWaitingForDebugger(c, s)
  BY <1>9, <1>h, <1>f, <1>s, <1>e DEF Other, RunIfWaitingForDebugger
<1>10. CASE \E auto \in {"pages", "tabs"}, wait \in BOOLEAN : SetAutoAttach(c, auto, wait)
  <2> PICK auto \in {"pages", "tabs"}, wait \in BOOLEAN : SetAutoAttach(c, auto, wait)
    BY <1>10
  <2> DEFINE ids == Missing(c, Swept(c, entry[c]), auto)
  <2>1. Fail(c) \/ (reply' = [reply EXCEPT ![c] = <<>>] /\
          job' = [job EXCEPT ![c] = [NoJob EXCEPT !.ids = ids, !.auto = auto, !.wait = wait]])
    BY DEF SetAutoAttach
  <2> HIDE DEF ids
  <2>2. job' = [job EXCEPT ![c] = [NoJob EXCEPT !.ids = ids, !.auto = auto, !.wait = wait]] =>
          job'[c].early = 0
    BY <1>t DEF NoJob
  <2> QED
    BY <1>f, <1>z, <2>1, <2>2
<1>11. CASE Open(c) \/ DisposeBrowserContext(c)
  BY <1>11, <1>u DEF Open, DisposeBrowserContext
<1>12. CASE Release(c) \/ Prune(c)
  BY <1>12, <1>u, <1>t DEF Release, Prune, NoJob
<1>13. CASE Send(c)
  <2>1. reply' = [reply EXCEPT ![c] = <<>>] /\ job' = [job EXCEPT ![c] = NoJob]
    BY <1>13 DEF Send
  <2>2. job'[c].early = 0
    BY <2>1, <1>t DEF NoJob
  <2> QED
    BY <2>1, <2>2, <1>z
<1>14. CASE Forget(c) \/ (\E t \in job[c].ids : CommitInitialBlank(c, t)) \/
              \E s \in job[c].ids : DetachNext(c, s)
  BY <1>14, <1>u, <1>t DEF Forget, CommitInitialBlank, DetachNext, Jobs
<1>15. CASE TakeOrphanedPaused(c, "ended", "reconcile") \/ TakeOrphanedPaused(c, "orphans", "prune")
  <2> DEFINE ids == {TargetOf(s) : s \in Orphaned}
  <2>1. UNCHANGED reply /\ \E next : job' = [job EXCEPT ![c] = [job[c] EXCEPT !.ids = ids, !.next = next]]
    <3>1. ASSUME NEW at, NEW next, TakeOrphanedPaused(c, at, next)
          PROVE  UNCHANGED reply /\ job' = [job EXCEPT ![c] = [job[c] EXCEPT !.ids = ids, !.next = next]]
      BY <3>1 DEF TakeOrphanedPaused
    <3> HIDE DEF ids
    <3> QED
      BY <1>15, <3>1
  <2> HIDE DEF ids
  <2> QED
    BY <2>1, <1>u, <1>t DEF Jobs
<1>16. CASE Reconcile(c)
  <2> DEFINE n == job[c].early
             a == SubSeq(reply[c], 1, n)
             b == SubSeq(reply[c], n + 1, Len(reply[c]))
             d == DetachEvents(c, Swept(c, entry[c]).gone) \o DiffEvents(c, entry[c])
             i == InsertAutoEvents(b, d)
  <2>1. a \in Seq(Events) /\ b \in Seq(Events)
    BY <1>t
  <2>2. d \in Seq(Events)
    BY NoticesTyped, DetachEventsTyped DEF DiffEvents
  <2>3. reply' = [reply EXCEPT ![c] = a \o i]
    BY <1>16, <1>t DEF Reconcile
  <2>4. \E ids : job' = [job EXCEPT ![c] = [NoJob EXCEPT !.ids = ids]]
    BY <1>16 DEF Reconcile
  <2>5. job'[c].early = 0
    BY <2>4, <1>t DEF NoJob
  <2> HIDE DEF a, b, d
  <2>6. i \in Seq(Events)
    BY <2>1, <2>2, InsertTyped
  <2> HIDE DEF i
  <2>7. a \o i \in Seq(Events) /\ Len(a \o i) >= 0
    BY <2>1, <2>6
  <2> QED
    BY <2>3, <2>5, <2>7, <1>m
<1>17. CASE AttachMissing(c)
  <2> DEFINE a == AttachEvents(c, entry[c].auto, Ascending(Attachable(job[c].ids)))
  <2>1. a \in Seq(Events)
    <3>1. Attachable(job[c].ids) \in SUBSET Targets
      BY <1>17 DEF Attachable, AttachMissing, Stages
    <3> QED
      BY <3>1, AttachEventsTyped
  <2>2. reply' = [reply EXCEPT ![c] = reply[c] \o a] /\ job' = [job EXCEPT ![c] = NoJob]
    BY <1>17, <1>t DEF AttachMissing
  <2> HIDE DEF a
  <2>3. reply[c] \o a \in Seq(Events) /\ Len(reply[c] \o a) >= 0
    BY <1>t, <2>1
  <2>4. job'[c].early = 0
    BY <1>t, <2>2 DEF NoJob
  <2> QED
    BY <2>2, <2>3, <2>4, <1>m
<1> QED
  BY <1>1, <1>2, <1>3, <1>4, <1>5, <1>6, <1>7, <1>8, <1>9, <1>10, <1>11, <1>12, <1>13, <1>14,
       <1>15, <1>16, <1>17
     DEF Step, Request, Proceed

\* A step leaves the task, the record and the reply of every other connection alone.
LEMMA Frame ==
  ASSUME Ranges, Stages, Early, Records, NEW c \in Conns, Step(c)
  PROVE  /\ \A d \in Conns \ {c} : pc'[d] = pc[d] /\ job'[d] = job[d] /\ entry'[d] = entry[d] /\
           reply'[d] = reply[d]
         /\ pc'[c] \in PCs /\ job'[c] \in Jobs
<1>1. Moves(c) /\ Writes(c) /\ Answers(c)
  BY StepMoves, StepWrites, StepAnswers
<1>2. pc \in [Conns -> PCs] /\ job \in [Conns -> Jobs] /\ entry \in [Conns -> Entries] /\
        reply \in [Conns -> Seq(Events)]
  BY DEF Ranges
<1>3. \A d \in Conns \ {c} : pc'[d] = pc[d] /\ job'[d] = job[d]
  BY <1>1, <1>2 DEF Moves
<1>4. \A d \in Conns \ {c} : entry'[d] = entry[d]
  BY <1>1, <1>2 DEF Writes
<1>5. \A d \in Conns \ {c} : reply'[d] = reply[d]
  BY <1>1, <1>2 DEF Answers
<1>6. pc'[c] \in PCs /\ job'[c] \in Jobs
  BY <1>1, <1>2 DEF Moves
<1> QED
  BY <1>3, <1>4, <1>5, <1>6

\* What the clients were told are sessions and notices.
Clients == told \in [Conns -> [sessions : SUBSET Sessions, ghosts : SUBSET Sessions, notices : SUBSET Notices]]

LEMMA StepTells ==
  ASSUME Ranges, Stages, NEW c \in Conns, Step(c)
  PROVE  Clients'
<1>t. told \in [Conns -> [sessions : SUBSET Sessions, ghosts : SUBSET Sessions, notices : SUBSET Notices]] /\ reply[c] \in Seq(Events)
      /\ entry[c] \in Entries
  BY DEF Ranges
<1>1. CASE Send(c)
  <2> DEFINE r == reply[c]
             ss == Heard(told[c].sessions, r, "attached", "detached")
             gs == (told[c].ghosts \ Of("attached", r)) \cup Crossed(r)
             xs == Heard(told[c].notices, r, "created", "destroyed")
             ns == Counted(entry[c], xs)
  <2>1. Of("attached", r) \subseteq Sessions
    <3> SUFFICES ASSUME NEW i \in DOMAIN r, r[i].method = "attached" PROVE r[i].what \in Sessions
      BY DEF Of
    <3>1. r[i] \in Events
      BY <1>t
    <3> HIDE DEF Sessions, Notices
    <3> QED
      BY <3>1 DEF Events, SessionEvents, NoticeEvents
  <2>2. Of("created", r) \subseteq Notices
    <3> SUFFICES ASSUME NEW i \in DOMAIN r, r[i].method = "created" PROVE r[i].what \in Notices
      BY DEF Of
    <3>1. r[i] \in Events
      BY <1>t
    <3> HIDE DEF Sessions, Notices
    <3> QED
      BY <3>1 DEF Events, SessionEvents, NoticeEvents
  <2>7. ss \subseteq told[c].sessions \cup Of("attached", r) /\ Crossed(r) \subseteq Of("attached", r)
    BY DEF Heard, Crossed, Of
  <2>8. xs \subseteq told[c].notices \cup Of("created", r)
    BY DEF Heard, Of
  <2>9. /\ told[c].sessions \subseteq Sessions /\ told[c].ghosts \subseteq Sessions
        /\ told[c].notices \subseteq Notices
    BY <1>t
  <2> HIDE DEF ss, xs
  <2>3. ss \in SUBSET Sessions /\ gs \in SUBSET Sessions
    BY <2>1, <2>7, <2>9
  <2>4. xs \in SUBSET Notices
    BY <2>2, <2>8, <2>9
  <2>5. told' = [told EXCEPT ![c] = [sessions |-> ss, ghosts |-> gs, notices |-> ns]]
    BY <1>1 DEF Send, ss, xs
  <2> HIDE DEF gs
  <2>6. ns \in SUBSET Notices
    BY <2>4, <1>t DEF Counted, Entries, Kinds
  <2> HIDE DEF ns
  <2> QED
    BY <1>t, <2>3, <2>5, <2>6 DEF Clients
<1>2. CASE Release(c)
  BY <1>2, <1>t DEF Release, Nothing, Clients
<1>3. CASE UNCHANGED told
  BY <1>3, <1>t DEF Clients
<1>4. CASE \E cx \in Conns \cup {Default}, t \in Targets : CreateTarget(c, cx, t)
  BY <1>4, <1>3 DEF CreateTarget
<1>5. CASE (\E t \in entry[c].attached, wait \in BOOLEAN : AttachChild(c, t, wait))
  BY <1>5, <1>3 DEF AttachChild
<1> QED
  BY <1>1, <1>2, <1>3, <1>4, <1>5 DEF Step, Request, Proceed, Open, Other, CreateBrowserContext,
       SetAutoAttach, DisableAutoAttach,
     DetachChild, SetDiscoverTargets, CloseTarget, RunIfWaitingForDebugger, EnableAutoAttach, Forget,
     CommitInitialBlank, TakeOrphanedPaused, Reconcile, AttachMissing, DetachNext,
     DisposeBrowserContext, Prune

\* Ranges, Early and Records are kept.
LEMMA StepRanges ==
  ASSUME Ranges, Stages, Early, Records, NEW c \in Conns, Step(c)
  PROVE  Ranges' /\ Early' /\ Records'
<1>1. Moves(c) /\ Writes(c) /\ Answers(c) /\ Registry' /\ Clients'
  BY StepMoves, StepWrites, StepAnswers, RegistryTyped, StepTells
<1>2. pc \in [Conns -> PCs] /\ job \in [Conns -> Jobs] /\ entry \in [Conns -> Entries] /\
        reply \in [Conns -> Seq(Events)]
  BY DEF Ranges
<1>3. pc' \in [Conns -> PCs] /\ job' \in [Conns -> Jobs]
  BY <1>1, <1>2 DEF Moves
<1>4. entry' \in [Conns -> Entries]
  BY <1>1, <1>2 DEF Writes
<1>5. reply' \in [Conns -> Seq(Events)]
  BY <1>1, <1>2 DEF Answers
<1>6. Ranges'
  BY <1>1, <1>3, <1>4, <1>5 DEF Ranges, Registry, Clients
<1>7. \A d \in Conns : job'[d].early <= Len(reply'[d])
  <2> TAKE d \in Conns
  <2>1. CASE d = c
    <3> PICK r \in Seq(Events) : reply' = [reply EXCEPT ![c] = r] /\ job'[c].early <= Len(r)
      BY <1>1 DEF Answers
    <3>1. reply'[c] = r
      BY <1>2
    <3> QED
      BY <2>1, <3>1
  <2>2. CASE d # c
    BY <2>2, Frame DEF Early
  <2> QED
    BY <2>1, <2>2
<1>8. \A d \in Conns : Sound(entry'[d])
  <2> TAKE d \in Conns
  <2>1. CASE d = c
    BY <1>1, <1>2, <2>1 DEF Writes
  <2>2. CASE d # c
    BY <2>2, Frame DEF Records, Sound
  <2> QED
    BY <2>1, <2>2
<1> QED
  BY <1>6, <1>7, <1>8 DEF Early, Records, Sound

-----------------------------------------------------------------------------
(* The tables keep their limits *)

\* A finite set of places has a last one.
LEMMA Greatest ==
  ASSUME NEW n \in Nat, NEW I \in SUBSET (1 .. n), I # {}
  PROVE  \E m \in I : \A x \in I : x <= m
<1> DEFINE J == {n - x : x \in I}
<1>1. J \in SUBSET Nat /\ J # {}
  <2>1. \A x \in I : n - x \in Nat
    OBVIOUS
  <2> QED
    BY <2>1
<1> HIDE DEF J
<1>2. PICK j \in J : \A i \in J : j <= i
  BY <1>1, Least
<1>3. PICK m \in I : j = n - m
  BY <1>2 DEF J
<1>4. \A x \in I : n - m <= n - x
  BY <1>2, <1>3 DEF J
<1> QED
  BY <1>4

\* Attaching one after the other fits: what Attachable lets through is, with what is
\* there already, within MAX_SESSIONS.
LEMMA AttachFits ==
  ASSUME Ranges, Caps, NEW c \in Conns, NEW auto, NEW ids \in SUBSET Targets
  PROVE  LET xs == {Root(c, auto, t) : t \in Attachable(ids)}
         IN  /\ IsFiniteSet(live \cup xs)
             /\ Cardinality(live \cup xs) <= MaxSessions
             /\ Attachable(ids) \subseteq LiveTargets \cap ids
<1> DEFINE ts == Attachable(ids)
           f == [t \in ts |-> Root(c, auto, t)]
           xs == {Root(c, auto, t) : t \in ts}
           N == Cardinality(live)
<1>n. MaxIds \in Nat /\ MaxSessions \in Nat
  BY TargetBoundsAssumption
<1>0. IsFiniteSet(live) /\ N \in Nat /\ N <= MaxSessions
  BY FS_CardinalityType DEF Caps
<1>a. \A t \in ts : t \in ids /\ N + Cardinality({u \in ids : u <= t}) <= MaxSessions /\
        {u \in ids : u <= t} \subseteq LiveTargets
  BY DEF Attachable
<1>i. \A t \in Targets : t \in Int
  BY DEF Targets
<1>1. ts \subseteq LiveTargets \cap ids
  <2>1. \A t \in ts : t \in {u \in ids : u <= t}
    <3> TAKE t \in ts
    <3>1. t \in ids
      BY <1>a
    <3>2. t <= t
      BY <3>1, <1>i
    <3> QED
      BY <3>1, <3>2
  <2> QED
    BY <2>1, <1>a
<1> HIDE DEF ts, N
<1>2. IsFiniteSet(ts)
  <2>1. ts \in SUBSET (1 .. MaxIds)
    BY <1>1 DEF Targets
  <2> QED
    BY <2>1, <1>n, FiniteIndices
<1>3. CASE ts = {}
  <2>1. live \cup xs = live
    BY <1>3
  <2> QED
    BY <2>1, <1>0, <1>1 DEF ts, N
<1>4. CASE ts # {}
  <2>0. ts \in SUBSET (1 .. MaxIds) /\ ids \in SUBSET (1 .. MaxIds)
    BY <1>1 DEF Targets
  <2>1. PICK m \in ts : \A t \in ts : t <= m
    BY <2>0, <1>4, <1>n, Greatest
  <2> DEFINE first == {u \in ids : u <= m}
  <2>2. ts \in SUBSET first
    BY <1>1, <2>1
  <2>3. IsFiniteSet(first) /\ Cardinality(first) \in Nat
    BY <2>0, <1>n, FiniteIndices
  <2>4. Cardinality(ts) <= Cardinality(first) /\ Cardinality(ts) \in Nat
    <3> HIDE DEF first
    <3> QED
      BY <2>2, <2>3, <1>2, FS_Subset, FS_CardinalityType
  <2>5. N + Cardinality(first) <= MaxSessions
    BY <1>a
  <2> HIDE DEF first
  <2>6. f \in Surjection(ts, xs)
    BY DEF Surjection
  <2>7. IsFiniteSet(xs) /\ Cardinality(xs) <= Cardinality(ts)
    BY <2>6, <1>2, FS_Surjection
  <2> HIDE DEF xs
  <2>8. Cardinality(xs) \in Nat
    BY <2>7, FS_CardinalityType
  <2>9. IsFiniteSet(live \cup xs) /\
          Cardinality(live \cup xs) = N + Cardinality(xs) - Cardinality(live \cap xs)
    BY <1>0, <2>7, FS_Union DEF N
  <2>10. Cardinality(live \cap xs) \in Nat
    BY <1>0, FS_Intersection, FS_CardinalityType
  <2>11. Cardinality(live \cup xs) <= MaxSessions
    BY <1>0, <1>n, <2>3, <2>4, <2>5, <2>7, <2>8, <2>9, <2>10
  <2> QED
    BY <2>9, <2>11, <1>1 DEF xs, ts
<1> QED
  BY <1>3, <1>4 DEF ts, xs

\* Every handler that adds to a table looks at its limit in the same step.
LEMMA CapsKept ==
  ASSUME Ranges, Caps, Stages, NEW c \in Conns, Step(c)
  PROVE  Caps'
<1>n. MaxSessions \in Nat /\ MaxTargets \in Nat /\ MaxContexts \in Nat /\ MaxIds \in Nat
  BY TargetBoundsAssumption
<1>f. /\ IsFiniteSet(live) /\ Cardinality(live) \in Nat
      /\ IsFiniteSet(contexts) /\ Cardinality(contexts) \in Nat
      /\ IsFiniteSet(LiveTargets) /\ Cardinality(LiveTargets) \in Nat
  <2>1. LiveTargets \in SUBSET (1 .. MaxIds)
    BY DEF LiveTargets, Targets
  <2> QED
    BY <2>1, <1>n, FiniteIndices, FS_CardinalityType DEF Caps
<1>l. live' \in SUBSET live => IsFiniteSet(live') /\ Cardinality(live') <= MaxSessions
  <2>1. ASSUME live' \in SUBSET live
        PROVE  IsFiniteSet(live') /\ Cardinality(live') <= MaxSessions
    <3>1. IsFiniteSet(live') /\ Cardinality(live') <= Cardinality(live) /\ Cardinality(live') \in Nat
      BY <1>f, <2>1, FS_Subset, FS_CardinalityType
    <3> QED
      BY <1>f, <1>n, <3>1 DEF Caps
  <2> QED
    BY <2>1
<1>a. \A x : live' = live \cup {x} /\ ~ SessionsFull => IsFiniteSet(live') /\
        Cardinality(live') <= MaxSessions
  <2> SUFFICES ASSUME NEW x, live' = live \cup {x}, ~ (Cardinality(live) >= MaxSessions)
               PROVE  IsFiniteSet(live') /\ Cardinality(live') <= MaxSessions
    BY DEF SessionsFull
  <2>1. IsFiniteSet(live') /\ (Cardinality(live') = Cardinality(live) \/
          Cardinality(live') = Cardinality(live) + 1)
    BY <1>f, FS_AddElement
  <2> QED
    BY <1>f, <1>n, <2>1
<1>1. IsFiniteSet(live') /\ Cardinality(live') <= MaxSessions
  <2>1. CASE \E cx \in Conns \cup {Default}, t \in Targets : CreateTarget(c, cx, t)
    <3> PICK cx \in Conns \cup {Default}, t \in Targets : CreateTarget(c, cx, t)
      BY <2>1
    <3>1. live' = live \/ (live' = live \cup New(c, t) /\ (entry[c].auto = "off" \/ ~ SessionsFull))
      BY CreateEffect DEF Refused, Creates
    <3>2. entry[c].auto = "off" => New(c, t) = {}
      BY DEF New
    <3>3. entry[c].auto # "off" => New(c, t) = {Root(c, entry[c].auto, t)}
      BY DEF New
    <3> QED
      BY <3>1, <3>2, <3>3, <1>l, <1>a
  <2>2. CASE \E t \in Targets : CloseTarget(c, t)
    BY <2>2, CloseEffect, <1>l DEF RemoveTargets, Refused, Closes
  <2>3. CASE EnableAutoAttach(c)
    <3>1. job[c].ids \in SUBSET Targets
      BY <2>3, EnableEffect DEF Stages
    <3>2. CASE UNCHANGED live
      BY <3>2, <1>l
    <3>3. CASE live' = live \cup {Root(c, job[c].auto, t) : t \in job[c].ids} /\
                 Attachable(job[c].ids) = job[c].ids
      BY <3>1, <3>3, AttachFits
    <3> QED
      BY <3>2, <3>3, <2>3, EnableEffect
  <2>4. CASE \E t \in entry[c].attached, wait \in BOOLEAN : AttachChild(c, t, wait)
    BY <2>4, ChildEffect, <1>l, <1>a DEF Declined, Adopts
  <2>5. CASE AttachMissing(c)
    <3>1. job[c].ids \in SUBSET Targets
      BY <2>5 DEF AttachMissing, Stages
    <3> QED
      <4>1. live' = live \cup {Root(c, entry[c].auto, t) : t \in Attachable(job[c].ids)}
        BY <2>5 DEF AttachMissing
      <4> QED
        BY <4>1, <3>1, AttachFits
  <2>6. CASE live' \in SUBSET live
    BY <2>6, <1>l
  <2> QED
    BY <2>1, <2>2, <2>3, <2>4, <2>5, <2>6 DEF Step, Request, Proceed, Send, Open, Release, Other,
         CreateBrowserContext,
       SetAutoAttach, DisableAutoAttach, DetachChild, SetDiscoverTargets, RunIfWaitingForDebugger,
       Forget, CommitInitialBlank,
       TakeOrphanedPaused, Reconcile, DetachNext, DisposeBrowserContext, RemoveTargets, Prune, registryVars
<1>2. Cardinality(LiveTargets') <= MaxTargets
  <2>l. LiveTargets' \in SUBSET LiveTargets => Cardinality(LiveTargets') <= MaxTargets
    <3>1. ASSUME LiveTargets' \in SUBSET LiveTargets
          PROVE  Cardinality(LiveTargets') <= MaxTargets
      <4>1. IsFiniteSet(LiveTargets') /\ Cardinality(LiveTargets') <= Cardinality(LiveTargets) /\
              Cardinality(LiveTargets') \in Nat
        BY <1>f, <3>1, FS_Subset, FS_CardinalityType
      <4> QED
        BY <1>f, <1>n, <4>1 DEF Caps
    <3> QED
      BY <3>1
  <2>c. \A ts : RemoveTargets(ts) => LiveTargets' \in SUBSET LiveTargets
    BY DEF RemoveTargets, LiveTargets
  <2>1. CASE \E cx \in Conns \cup {Default}, t \in Targets : CreateTarget(c, cx, t)
    <3> PICK cx \in Conns \cup {Default}, t \in Targets : CreateTarget(c, cx, t)
      BY <2>1
    <3>1. CASE Refused(c)
      BY <3>1, <2>l DEF LiveTargets, Refused
    <3>2. CASE Creates(c, cx, t)
      <4>1. LiveTargets' = LiveTargets \cup {t}
        BY <3>2, TargetNamesAssumption DEF LiveTargets, Ranges, Creates
      <4>2. Cardinality(LiveTargets') = Cardinality(LiveTargets) \/
              Cardinality(LiveTargets') = Cardinality(LiveTargets) + 1
        BY <4>1, <1>f, FS_AddElement
      <4>3. ~ Full
        BY <3>2 DEF Creates
      <4> QED
        BY <4>2, <4>3, <1>f, <1>n DEF Full
    <3> QED
      BY <3>1, <3>2, CreateEffect
  <2>2. CASE \E t \in Targets : CloseTarget(c, t)
    <3>1. context' = context => LiveTargets' = LiveTargets
      BY DEF LiveTargets
    <3> QED
      BY <2>2, <3>1, CloseEffect, <2>l, <2>c DEF Refused, Closes
  <2>3. CASE DisposeBrowserContext(c)
    BY <2>3, <2>l, <2>c DEF DisposeBrowserContext
  <2>4. CASE context' = context
    BY <2>4, <2>l DEF LiveTargets
  <2>5. CASE \E t \in entry[c].attached, wait \in BOOLEAN : AttachChild(c, t, wait)
    BY <2>5, <2>4, ChildEffect DEF Declined, Adopts
  <2> QED
    BY <2>1, <2>2, <2>3, <2>4, <2>5 DEF Step, Request, Proceed, Send, Open, Release, Other,
         CreateBrowserContext,
       SetAutoAttach, DisableAutoAttach, DetachChild, SetDiscoverTargets, RunIfWaitingForDebugger,
       Forget, CommitInitialBlank,
       TakeOrphanedPaused, Reconcile, DetachNext, Prune, registryVars, EnableAutoAttach, AttachMissing
<1>3. IsFiniteSet(contexts') /\ Cardinality(contexts') <= MaxContexts
  <2>1. CASE contexts' \in SUBSET contexts
    <3>1. IsFiniteSet(contexts') /\ Cardinality(contexts') <= Cardinality(contexts) /\
            Cardinality(contexts') \in Nat
      BY <1>f, <2>1, FS_Subset, FS_CardinalityType
    <3> QED
      BY <1>f, <1>n, <3>1 DEF Caps
  <2>2. CASE contexts' = contexts \cup {c} /\ ~ (Cardinality(contexts) >= MaxContexts)
    <3>1. IsFiniteSet(contexts') /\ (Cardinality(contexts') = Cardinality(contexts) \/
            Cardinality(contexts') = Cardinality(contexts) + 1)
      BY <1>f, <2>2, FS_AddElement
    <3> QED
      BY <1>f, <1>n, <2>2, <3>1
  <2>3. CASE CreateBrowserContext(c)
    BY <2>3, <2>1, <2>2 DEF CreateBrowserContext
  <2>4. CASE \E cx \in Conns \cup {Default}, t \in Targets : CreateTarget(c, cx, t)
    BY <2>4, <2>1, CreateEffect
  <2>5. CASE \E t \in entry[c].attached, wait \in BOOLEAN : AttachChild(c, t, wait)
    BY <2>5, <2>1, ChildEffect DEF Declined, Adopts
  <2>6. CASE \E t \in Targets : CloseTarget(c, t)
    BY <2>6, <2>1, CloseEffect DEF Refused, Closes
  <2> QED
    BY <2>1, <2>3, <2>4, <2>5, <2>6 DEF Step, Request, Proceed, Send, Open, Release, Other,
       SetAutoAttach, DisableAutoAttach, DetachChild, SetDiscoverTargets, RunIfWaitingForDebugger,
       Forget, CommitInitialBlank,
       TakeOrphanedPaused, Reconcile, DetachNext, DisposeBrowserContext, Prune, registryVars,
       EnableAutoAttach, AttachMissing
<1> QED
  BY <1>1, <1>2, <1>3 DEF Caps

-----------------------------------------------------------------------------
(* What a task is about to do *)

\* An id nothing names is new to every table.
LEMMA Fresh ==
  ASSUME NEW t, t \notin NamedTargets
  PROVE  /\ t \notin LiveTargets /\ t \notin documents
         /\ \A s \in live \cup paused : TargetOf(s) # t
         /\ \A d \in Conns : pc[d] # "detach" => t \notin job[d].ids
<1>1. \A s \in live \cup paused : TargetOf(s) \in NamedTargets
  BY DEF NamedTargets
<1>2. \A d \in Conns : pc[d] # "detach" => job[d].ids \subseteq NamedTargets
  <2> TAKE d \in Conns
  <2> HAVE pc[d] # "detach"
  <2> DEFINE U == {IF pc[x] = "detach" THEN {} ELSE job[x].ids : x \in Conns}
  <2>1. job[d].ids \in U
    <3>1. (IF pc[d] = "detach" THEN {} ELSE job[d].ids) = job[d].ids
      OBVIOUS
    <3> QED
      BY <3>1
  <2>2. UNION U \subseteq NamedTargets
    BY DEF NamedTargets
  <2> HIDE DEF U
  <2> QED
    BY <2>1, <2>2
<1>3. LiveTargets \subseteq NamedTargets /\ documents \subseteq NamedTargets
  BY DEF NamedTargets
<1> QED
  BY <1>1, <1>2, <1>3

\* Only Target.createTarget makes a target, with an id that is new.
Adds(c) == \E cx \in Conns \cup {Default}, t \in Targets :
             Creates(c, cx, t) /\ t \notin NamedTargets /\ LiveTargets' = LiveTargets \cup {t}
             /\ UNCHANGED <<contexts, documents>> /\ pc[c] = "idle"

LEMMA LiveMoves ==
  ASSUME Ranges, NEW c \in Conns, Step(c)
  PROVE  LiveTargets' \subseteq LiveTargets \/ Adds(c)
<1>u. context' = context => LiveTargets' = LiveTargets
  BY DEF LiveTargets
<1>1. CASE \E cx \in Conns \cup {Default}, t \in Targets : CreateTarget(c, cx, t)
  <2> PICK cx \in Conns \cup {Default}, t \in Targets : CreateTarget(c, cx, t)
    BY <1>1
  <2>1. CASE Refused(c)
    BY <2>1, <1>u DEF Refused
  <2>2. CASE Creates(c, cx, t)
    <3>1. LiveTargets' = LiveTargets \cup {t}
      BY <2>2, TargetNamesAssumption DEF LiveTargets, Ranges, Creates
    <3>2. t \notin NamedTargets /\ UNCHANGED <<contexts, documents>> /\ pc[c] = "idle"
      BY CreateEffect DEF Serves
    <3> QED
      BY <2>2, <3>1, <3>2 DEF Adds
  <2> QED
    BY <2>1, <2>2, CreateEffect
<1>2. CASE \E t \in Targets : CloseTarget(c, t)
  <2> PICK t \in Targets : CloseTarget(c, t)
    BY <1>2
  <2>1. CASE Refused(c)
    BY <2>1, <1>u DEF Refused
  <2>2. CASE Closes(c, t)
    BY <2>2 DEF Closes, RemoveTargets, LiveTargets
  <2> QED
    BY <2>1, <2>2, CloseEffect
<1>3. CASE DisposeBrowserContext(c)
  BY <1>3 DEF DisposeBrowserContext, RemoveTargets, LiveTargets
<1>4. CASE context' = context
  BY <1>4, <1>u
<1>5. CASE \E t \in entry[c].attached, wait \in BOOLEAN : AttachChild(c, t, wait)
  BY <1>5, <1>u, ChildEffect
<1> QED
  BY <1>1, <1>2, <1>3, <1>4, <1>5 DEF Step, Request, Proceed, Send, Open, Release, Other,
       CreateBrowserContext,
       SetAutoAttach, DisableAutoAttach, DetachChild, SetDiscoverTargets, RunIfWaitingForDebugger,
       Forget, CommitInitialBlank,
       TakeOrphanedPaused, Reconcile, DetachNext, Prune, registryVars, EnableAutoAttach, AttachMissing

\* What Stages says of one connection.
StageOf(c) ==
  /\ pc[c] = "detach" => \A s \in job[c].ids : s \in Sessions /\ s[1] = c
  /\ pc[c] # "detach" => job[c].ids \subseteq Targets
  /\ pc[c] = "enable" => job[c].auto # "off" /\ entry[c].auto \in {"off", job[c].auto}
  /\ pc[c] = "attach" => entry[c].auto # "off"
  /\ pc[c] = "commit" => job[c].next # "idle"
  /\ pc[c] = "forget" => job[c].ids \cap LiveTargets = {}
  /\ Over(c) \/ pc[c] \in {"detach", "dispose"} => entry[c] = NewEntry

\* The task that steps arrives where Stages allows; what it is to forget is gone.
LEMMA StageKept ==
  ASSUME Ranges, Stages, Records, NEW c \in Conns, Step(c)
  PROVE  StageOf(c)'
<1>t. /\ pc \in [Conns -> PCs] /\ job \in [Conns -> Jobs] /\ entry \in [Conns -> Entries]
      /\ job[c] \in Jobs /\ entry[c] \in Entries /\ Sound(entry[c])
  BY DEF Ranges, Records, Sound
<1>c. StageOf(c)
  BY DEF Stages, StageOf
<1>s. ASSUME pc'[c] \in {"idle", "ended", "reconcile", "send"},
               job'[c].ids \subseteq Targets PROVE StageOf(c)'
  BY <1>s DEF StageOf, Over
<1>k. ASSUME pc'[c] = "commit", job'[c].ids \subseteq Targets, job'[c].next \in {"ended",
               "reconcile"} PROVE StageOf(c)'
  BY <1>k DEF StageOf, Over
<1>h. ASSUME NEW next, NEW ids, NEW early, NEW events, NEW failed, Handled(c, next, ids, early,
               events, failed)
      PROVE  pc'[c] = next /\ job'[c].ids = ids /\ job'[c].next = "ended"
  BY <1>h, <1>t DEF Handled, NoJob
<1>g. ASSUME NEW events, NEW failed, Handled(c, "ended", {}, <<>>, events, failed) PROVE StageOf(c)'
  <2>1. pc'[c] = "ended" /\ job'[c].ids = {}
    BY <1>g, <1>h
  <2> QED
    BY <2>1, <1>s
<1>f. Fail(c) => StageOf(c)'
  BY <1>g DEF Fail
<1>e. \A events : Succeed(c, events) => StageOf(c)'
  BY <1>g DEF Succeed
<1>1. CASE \E cx \in Conns \cup {Default}, t \in Targets : CreateTarget(c, cx, t)
  <2> PICK cx \in Conns \cup {Default}, t \in Targets : CreateTarget(c, cx, t)
    BY <1>1
  <2>1. CASE Refused(c)
    BY <2>1, <1>f DEF Refused
  <2>2. CASE Creates(c, cx, t)
    <3>1. pc'[c] \in {"commit", "ended"} /\ job'[c].ids = {t} /\ job'[c].next = "ended"
      BY <2>2, <1>h DEF Creates
    <3> QED
      BY <3>1, <1>s, <1>k
  <2> QED
    BY <2>1, <2>2, CreateEffect
<1>2. CASE \E t \in Targets : CloseTarget(c, t)
  <2> PICK t \in Targets : CloseTarget(c, t)
    BY <1>2
  <2>1. CASE Refused(c)
    BY <2>1, <1>f DEF Refused
  <2>2. CASE Closes(c, t)
    <3>1. pc'[c] = "forget" /\ job'[c].ids = {t}
      BY <2>2, <1>h DEF Closes
    <3>2. t \notin LiveTargets'
      BY <2>2 DEF Closes, RemoveTargets, LiveTargets
    <3> QED
      BY <3>1, <3>2 DEF StageOf, Over
  <2> QED
    BY <2>1, <2>2, CloseEffect
<1>3. CASE EnableAutoAttach(c)
  BY <1>3, <1>f, <1>e, EnableEffect
<1>4. CASE \E t \in entry[c].attached, wait \in BOOLEAN : AttachChild(c, t, wait)
  BY <1>4, <1>f, <1>e, ChildEffect DEF Declined, Adopts
<1>5. CASE \E t \in entry[c].attached : DetachChild(c, t)
  BY <1>5, <1>f, <1>e, UnchildEffect
<1>6. CASE DisableAutoAttach(c) \/ CreateBrowserContext(c) \/
             \E discover \in Filters : SetDiscoverTargets(c, discover)
  BY <1>6, <1>f, <1>e DEF DisableAutoAttach, CreateBrowserContext, SetDiscoverTargets
<1>7. CASE \E failed \in BOOLEAN : Other(c, failed)
  BY <1>7, <1>g DEF Other
<1>8. CASE \E s \in told[c].sessions : RunIfWaitingForDebugger(c, s)
  <2> PICK s \in told[c].sessions : RunIfWaitingForDebugger(c, s)
    BY <1>8
  <2>1. s \in live => {TargetOf(s)} \subseteq Targets
    BY DEF Ranges, Sessions, TargetOf
  <2>2. CASE s \notin live \/ s \notin paused
    BY <2>2, <1>f, <1>e DEF RunIfWaitingForDebugger
  <2>3. CASE s \in live /\ s \in paused
    <3>1. Handled(c, "commit", {TargetOf(s)}, <<>>, <<>>, FALSE)
      BY <2>3 DEF RunIfWaitingForDebugger
    <3> QED
      <4>1. pc'[c] = "commit" /\ job'[c].ids = {TargetOf(s)} /\ job'[c].next = "ended"
        BY <3>1, <1>h
      <4> QED
        BY <2>1, <2>3, <4>1, <1>k
  <2> QED
    BY <2>2, <2>3
<1>9. CASE Open(c)
  BY <1>9, <1>c, <1>t, <1>s DEF Open, StageOf
<1>10. CASE Send(c)
  BY <1>10, <1>t, <1>s DEF Send, NoJob
<1>11. CASE Prune(c)
  <2>1. pc'[c] = "closed" /\ job'[c].ids = {} /\ entry' = entry /\ pc[c] = "prune"
    BY <1>11, <1>t DEF Prune, NoJob
  <2> QED
    BY <2>1, <1>c DEF StageOf, Over
<1>12. CASE \E auto \in {"pages", "tabs"}, wait \in BOOLEAN : SetAutoAttach(c, auto, wait)
  <2> PICK auto \in {"pages", "tabs"}, wait \in BOOLEAN : SetAutoAttach(c, auto, wait)
    BY <1>12
  <2> DEFINE e == Swept(c, entry[c])
             ids == Missing(c, e, auto)
  <2>1. ids \subseteq Targets
    BY DEF Missing, LiveTargets, Visible
  <2>2. e.auto = entry[c].auto
    BY <1>t, SweptSound
  <2> HIDE DEF e, ids
  <2>3. CASE entry[c].auto \notin {"off", auto}
    BY <2>3, <1>f DEF SetAutoAttach
  <2>4. CASE entry[c].auto \in {"off", auto}
    <3>1. /\ entry' = [entry EXCEPT ![c] = e]
          /\ pc' = [pc EXCEPT ![c] = "enable"]
          /\ job' = [job EXCEPT ![c] = [NoJob EXCEPT !.ids = ids, !.auto = auto, !.wait = wait]]
      BY <2>4 DEF SetAutoAttach, e, ids
    <3>2. entry'[c] = e /\ pc'[c] = "enable" /\ job'[c].ids = ids /\ job'[c].auto = auto
      BY <3>1, <1>t DEF NoJob
    <3> QED
      BY <2>1, <2>2, <2>4, <3>2 DEF StageOf, Over
  <2> QED
    BY <2>3, <2>4
<1>13. CASE Release(c)
  <2>1. \A s \in Returned(c) : s \in Sessions /\ s[1] = c
    <3>1. entry[c].attached \subseteq Targets /\ entry[c].children \subseteq Targets
      BY <1>t DEF Entries
    <3> QED
      BY <3>1, Names DEF Returned, SessionsOf
  <2>2. /\ pc'[c] = IF Returned(c) = {} THEN "dispose" ELSE "detach"
        /\ job'[c].ids = Returned(c) /\ entry'[c] = NewEntry
    BY <1>13, <1>t DEF Release, NoJob
  <2> QED
    BY <2>1, <2>2 DEF StageOf, Over
<1>14. CASE Forget(c)
  BY <1>14, <1>t, <1>s DEF Forget
<1>15. CASE \E t \in job[c].ids : CommitInitialBlank(c, t)
  <2>1. /\ entry' = entry /\ pc[c] = "commit" /\ pc'[c] \in {job[c].next, "commit"}
        /\ job'[c].ids \subseteq job[c].ids /\ job'[c].next = job[c].next
    BY <1>15, <1>t DEF CommitInitialBlank, Jobs
  <2>2. job[c].next \in {"ended", "reconcile", "prune"}
    BY <2>1, <1>c, <1>t DEF StageOf, Jobs
  <2> QED
    BY <2>1, <2>2, <1>c DEF StageOf, Over
<1>16. CASE \E s \in job[c].ids : DetachNext(c, s)
  <2> PICK s \in job[c].ids : DetachNext(c, s)
    BY <1>16
  <2>1. /\ entry' = entry /\ pc[c] = "detach" /\ pc'[c] = IF job[c].ids = {s} THEN "dispose" ELSE "detach"
        /\ job'[c].ids = job[c].ids \ {s}
    BY <1>t DEF DetachNext, Jobs
  <2> QED
    BY <2>1, <1>c DEF StageOf, Over
<1>17. CASE DisposeBrowserContext(c)
  <2>1. pc[c] = "dispose" /\ pc'[c] = "orphans" /\ UNCHANGED <<entry, job>>
    BY <1>17, <1>t DEF DisposeBrowserContext
  <2> QED
    BY <2>1, <1>c DEF StageOf, Over
<1>18. ASSUME NEW at, NEW next \in {"reconcile", "prune"}, TakeOrphanedPaused(c, at, next)
       PROVE  /\ job'[c].ids \subseteq Targets /\ job'[c].next = next /\ entry' = entry
              /\ pc[c] = at /\ pc'[c] \in {next, "commit"}
  <2> DEFINE ids == {TargetOf(s) : s \in Orphaned}
  <2>1. ids \in SUBSET Targets
    BY DEF Ranges, Sessions, TargetOf, Orphaned
  <2>2. /\ pc' = [pc EXCEPT ![c] = IF Orphaned = {} THEN next ELSE "commit"]
        /\ job' = [job EXCEPT ![c] = [job[c] EXCEPT !.ids = ids, !.next = next]]
        /\ entry' = entry /\ pc[c] = at
    BY <1>18, <1>t DEF TakeOrphanedPaused
  <2> HIDE DEF ids
  <2> QED
    BY <2>1, <2>2, <1>t DEF Jobs
<1>19. CASE TakeOrphanedPaused(c, "ended", "reconcile")
  BY <1>19, <1>18, <1>s, <1>k
<1>20. CASE TakeOrphanedPaused(c, "orphans", "prune")
  <2>1. /\ job'[c].ids \subseteq Targets /\ job'[c].next = "prune" /\ entry' = entry
        /\ pc[c] = "orphans" /\ pc'[c] \in {"prune", "commit"}
    BY <1>20, <1>18
  <2> QED
    BY <2>1, <1>c DEF StageOf, Over
<1>21. CASE Reconcile(c)
  <2> DEFINE e == Swept(c, entry[c])
             missing == IF job[c].failed \/ e.auto = "off" THEN {} ELSE Missing(c, e, e.auto)
  <2>1. missing \subseteq Targets
    BY DEF Missing, LiveTargets, Visible
  <2>2. /\ pc' = [pc EXCEPT ![c] = IF missing = {} THEN "send" ELSE "attach"]
        /\ job' = [job EXCEPT ![c] = [NoJob EXCEPT !.ids = missing]]
        /\ entry' = [entry EXCEPT ![c] = [e EXCEPT !.gone = {}, !.discovered = Now(c, e)]]
    BY <1>21 DEF Reconcile
  <2>3. missing # {} => e.auto # "off"
    OBVIOUS
  <2>4. e \in Entries
    BY <1>t, SweptSound
  <2> HIDE DEF missing, e
  <2>5. entry'[c].auto = e.auto
    BY <2>2, <2>4, <1>t DEF Entries
  <2>6. job'[c].ids = missing /\ pc'[c] = IF missing = {} THEN "send" ELSE "attach"
    BY <2>2, <1>t DEF NoJob
  <2> QED
    BY <2>1, <2>3, <2>5, <2>6 DEF StageOf, Over
<1>22. CASE AttachMissing(c)
  BY <1>22, <1>t, <1>s DEF AttachMissing, NoJob
<1> QED
  BY <1>1, <1>2, <1>3, <1>4, <1>5, <1>6, <1>7, <1>8, <1>9, <1>10, <1>11, <1>12, <1>13, <1>14,
       <1>15, <1>16, <1>17,
     <1>19, <1>20, <1>21, <1>22 DEF Step, Request, Proceed

\* And so does every other one: a target that is gone does not come back with its id
\* while somebody is still to forget it.
LEMMA StagesKept ==
  ASSUME Ranges, Stages, Early, Records, NEW c \in Conns, Step(c)
  PROVE  Stages'
<1>1. \A d \in Conns : StageOf(d)'
  <2> TAKE d \in Conns
  <2>1. CASE d = c
    BY <2>1, StageKept
  <2>2. CASE d # c
    <3>1. pc'[d] = pc[d] /\ job'[d] = job[d] /\ entry'[d] = entry[d]
      BY <2>2, Frame
    <3>2. StageOf(d)
      BY DEF Stages, StageOf
    <3>3. pc[d] = "forget" => job[d].ids \cap LiveTargets' = {}
      <4>1. CASE LiveTargets' \subseteq LiveTargets
        BY <4>1, <3>2 DEF StageOf
      <4>2. CASE Adds(c)
        BY <4>2, <3>2, Fresh DEF StageOf, Adds
      <4> QED
        BY <4>1, <4>2, LiveMoves
    <3> QED
      BY <3>1, <3>2, <3>3 DEF StageOf, Over
  <2> QED
    BY <2>1, <2>2
<1> QED
  BY <1>1 DEF Stages, StageOf

-----------------------------------------------------------------------------
(* Every session has its owner *)

\* A step gives its own connection sessions of targets there are, takes some of its
\* sessions away, or removes targets with all that is attached to them.
Grows(c) == \E xs \in SUBSET Sessions :
              /\ live' = live \cup xs
              /\ \A s \in xs : s[1] = c /\ TargetOf(s) \in LiveTargets'
              /\ LiveTargets \subseteq LiveTargets'

Shrinks(c) == \E xs : /\ live' = live \ xs
                      /\ \A s \in xs : s[1] = c
                      /\ LiveTargets' = LiveTargets

LEMMA LiveEffect ==
  ASSUME Ranges, Caps, Stages, Held, NEW c \in Conns, Step(c)
  PROVE  Grows(c) \/ Shrinks(c) \/ \E ts : RemoveTargets(ts)
<1>t. pc \in [Conns -> PCs] /\ job \in [Conns -> Jobs] /\ entry \in [Conns -> Entries] /\
        entry[c] \in Entries
  BY DEF Ranges
<1>a. entry[c].attached \subseteq Targets /\ entry[c].children \subseteq Targets
  BY <1>t DEF Entries
<1>u. context' = context => LiveTargets' = LiveTargets
  BY DEF LiveTargets
<1>g. ASSUME NEW xs \in SUBSET Sessions, live' = live \cup xs, \A s \in xs : s[1] = c,
             \A s \in xs : TargetOf(s) \in LiveTargets', LiveTargets \subseteq LiveTargets'
      PROVE  Grows(c)
  BY <1>g DEF Grows
<1>k. ASSUME NEW xs, live' = live \ xs, \A s \in xs : s[1] = c, LiveTargets' = LiveTargets
      PROVE  Shrinks(c)
  BY <1>k DEF Shrinks
<1>s. ASSUME live' = live, LiveTargets' = LiveTargets PROVE Shrinks(c)
  <2> DEFINE Z == {x \in live : FALSE}
  <2>1. live' = live \ Z /\ \A s \in Z : s[1] = c
    BY <1>s
  <2> HIDE DEF Z
  <2> QED
    BY <1>s, <2>1, <1>k
<1>r. context' = context /\ live' = live => Shrinks(c)
  BY <1>s, <1>u
<1>1. CASE \E cx \in Conns \cup {Default}, t \in Targets : CreateTarget(c, cx, t)
  <2> PICK cx \in Conns \cup {Default}, t \in Targets : CreateTarget(c, cx, t)
    BY <1>1
  <2>1. CASE Refused(c)
    BY <2>1, <1>r DEF Refused
  <2>2. CASE Creates(c, cx, t)
    <3>1. LiveTargets' = LiveTargets \cup {t}
      BY <2>2, TargetNamesAssumption DEF LiveTargets, Ranges, Creates
    <3>2. New(c, t) \subseteq Sessions /\ \A s \in New(c, t) : s[1] = c /\ TargetOf(s) = t
      BY Names DEF New
    <3>3. live' = live \cup New(c, t)
      BY <2>2 DEF Creates
    <3> QED
      BY <3>1, <3>2, <3>3, <1>g
  <2> QED
    BY <2>1, <2>2, CreateEffect
<1>2. CASE \E t \in Targets : CloseTarget(c, t)
  <2> PICK t \in Targets : CloseTarget(c, t)
    BY <1>2
  <2>1. CASE Refused(c)
    BY <2>1, <1>r DEF Refused
  <2>2. CASE Closes(c, t)
    BY <2>2 DEF Closes
  <2> QED
    BY <2>1, <2>2, CloseEffect
<1>3. CASE EnableAutoAttach(c)
  <2> DEFINE xs == {Root(c, job[c].auto, t) : t \in job[c].ids}
  <2>0. LiveTargets' = LiveTargets
    BY <1>3, EnableEffect, <1>u
  <2>1. job[c].ids \in SUBSET Targets
    BY <1>3, EnableEffect DEF Stages
  <2>2. CASE UNCHANGED live
    BY <2>2, <2>0, <1>s
  <2>3. CASE live' = live \cup xs /\ Attachable(job[c].ids) = job[c].ids
    <3>1. job[c].ids \subseteq LiveTargets
      <4>1. Attachable(job[c].ids) \subseteq LiveTargets
        BY <2>1, AttachFits
      <4> QED
        BY <2>3, <4>1
    <3>2. xs \subseteq Sessions /\ \A s \in xs : s[1] = c /\ TargetOf(s) \in LiveTargets
      BY <2>1, <3>1, Names
    <3> HIDE DEF xs
    <3> QED
      BY <2>0, <2>3, <3>2, <1>g
  <2> QED
    BY <2>2, <2>3, <1>3, EnableEffect
<1>4. CASE \E t \in entry[c].attached, wait \in BOOLEAN : AttachChild(c, t, wait)
  <2> PICK t \in entry[c].attached, wait \in BOOLEAN : AttachChild(c, t, wait)
    BY <1>4
  <2>0. LiveTargets' = LiveTargets
    BY ChildEffect, <1>u
  <2>1. CASE Declined(c)
    BY <2>0, <2>1, <1>s DEF Declined
  <2>2. CASE Adopts(c, t)
    <3>1. Child(c, t) \in Sessions /\ Child(c, t)[1] = c /\ TargetOf(Child(c, t)) = t
      BY <1>a, Names
    <3>2. t \in LiveTargets'
      <4>1. TabOf(c, t) \in live /\ TargetOf(TabOf(c, t)) = t
        BY <1>a, <2>2, Names DEF Adopts
      <4> QED
        BY <2>0, <4>1 DEF Held
    <3> DEFINE Z == {Child(c, t)}
    <3>3. live' = live \cup Z
      BY <2>2 DEF Adopts
    <3>4. Z \in SUBSET Sessions /\ (\A s \in Z : s[1] = c) /\ \A s \in Z : TargetOf(s) \in LiveTargets'
      BY <3>1, <3>2
    <3>5. LiveTargets \subseteq LiveTargets'
      BY <2>0
    <3> HIDE DEF Z
    <3> QED
      BY <3>3, <3>4, <3>5, <1>g
  <2> QED
    BY <2>1, <2>2, ChildEffect
<1>5. CASE \E t \in entry[c].attached : DetachChild(c, t)
  <2> PICK t \in entry[c].attached : DetachChild(c, t)
    BY <1>5
  <2>1. Child(c, t)[1] = c
    BY DEF Child
  <2>2. LiveTargets' = LiveTargets /\ (live' = live \/ live' = live \ {Child(c, t)})
    BY UnchildEffect, <1>u
  <2> QED
    BY <2>1, <2>2, <1>s, <1>k
<1>6. CASE DisableAutoAttach(c)
  <2>1. \A s \in SessionsOf(c, entry[c]) : s[1] = c
    BY DEF SessionsOf, Root, Child
  <2>2. LiveTargets' = LiveTargets /\ live' = live \ SessionsOf(c, entry[c])
    BY <1>6, <1>u DEF DisableAutoAttach
  <2> QED
    BY <2>1, <2>2, <1>k
<1>7. CASE AttachMissing(c)
  <2> DEFINE ts == Attachable(job[c].ids)
             xs == {Root(c, entry[c].auto, t) : t \in ts}
  <2>0. LiveTargets' = LiveTargets /\ live' = live \cup xs
    BY <1>7, <1>u DEF AttachMissing
  <2>1. job[c].ids \in SUBSET Targets
    BY <1>7 DEF Stages, AttachMissing
  <2>2. ts \subseteq LiveTargets /\ ts \subseteq Targets
    BY <2>1, AttachFits
  <2> HIDE DEF ts
  <2>3. xs \subseteq Sessions /\ \A s \in xs : s[1] = c /\ TargetOf(s) \in LiveTargets
    BY <2>2, Names
  <2> HIDE DEF xs
  <2> QED
    BY <2>0, <2>3, <1>g
<1>8. CASE \E s \in job[c].ids : DetachNext(c, s)
  <2> PICK s \in job[c].ids : DetachNext(c, s)
    BY <1>8
  <2>1. s[1] = c
    BY DEF DetachNext, Stages
  <2> DEFINE Z == {s}
  <2>2. LiveTargets' = LiveTargets /\ live' = live \ Z
    BY <1>u DEF DetachNext
  <2>3. \A r \in Z : r[1] = c
    BY <2>1
  <2> HIDE DEF Z
  <2> QED
    BY <2>2, <2>3, <1>k
<1>9. CASE DisposeBrowserContext(c)
  BY <1>9 DEF DisposeBrowserContext
<1>10. CASE context' = context /\ live' = live
  BY <1>10, <1>r
<1> QED
  BY <1>1, <1>2, <1>3, <1>4, <1>5, <1>6, <1>7, <1>8, <1>9, <1>10 DEF Step, Request, Proceed, Send,
       Open, Release, Other,
     CreateBrowserContext, SetAutoAttach, SetDiscoverTargets, RunIfWaitingForDebugger, Forget,
     CommitInitialBlank,
     TakeOrphanedPaused, Reconcile, Prune, registryVars

\* The sessions of a connection, and what Held and Tabs say of them.
Mine(c) == {s \in live : s[1] = c}

OwnHeld(c) == \A s \in Mine(c) : s \in Holds(c)
OwnTabs(c) == pc[c] # "detach" => \A t \in Targets : Child(c, t) \in live => TabOf(c, t) \in live
Own(c) == OwnHeld(c) /\ OwnTabs(c)

\* The sessions a record of that shape names.
NamedBy(c, e, s) ==
  \E t \in e.attached : s = Root(c, e.auto, t) \/ (t \in e.children /\ s = Child(c, t))

\* The sessions of a record are its roots' and its children's.
LEMMA InRecord ==
  ASSUME NEW c, NEW e, e.children \subseteq e.attached, NEW s
  PROVE  s \in SessionsOf(c, e) <=> NamedBy(c, e, s)
BY DEF SessionsOf, NamedBy

\* Which names of sessions are the same.
LEMMA Different ==
  ASSUME NEW c, NEW t, NEW u, NEW auto
  PROVE  /\ Child(c, t) # TabOf(c, u) /\ Child(c, t) # Root(c, auto, u)
         /\ (Child(c, t) = Child(c, u)) => t = u
         /\ (Root(c, auto, t) = Root(c, auto, u)) => t = u
         /\ (TabOf(c, t) = Root(c, auto, u)) => t = u /\ Root(c, auto, t) = TabOf(c, t)
         /\ auto = "tabs" => Root(c, auto, t) = TabOf(c, t)
BY DEF Child, TabOf, Root

\* A connection's own step keeps its record and its sessions together: while it is
\* open, while the record goes to the release, and while the release gives back.
LEMMA OwnKept ==
  ASSUME Ranges, Stages, Records, NEW c \in Conns, Own(c), Step(c)
  PROVE  Own(c)'
<1>t. /\ pc \in [Conns -> PCs] /\ job \in [Conns -> Jobs] /\ entry \in [Conns -> Entries]
      /\ job[c] \in Jobs /\ entry[c] \in Entries /\ Sound(entry[c])
      /\ entry[c].attached \subseteq Targets /\ entry[c].children \subseteq entry[c].attached
  BY DEF Ranges, Records, Sound, Entries
<1>c. StageOf(c)
  BY DEF Stages, StageOf
<1>m. pc[c] # "detach" => \A s \in live : s[1] = c => NamedBy(c, entry[c], s)
  BY <1>t, InRecord DEF Own, OwnHeld, Holds, Mine
<1>x. \A t \in Targets : Child(c, t)[1] = c /\ TabOf(c, t)[1] = c
  BY Names
\* What is to be shown of a connection that is not giving its sessions back.
<1>o. ASSUME pc'[c] # "detach", Sound(entry'[c]),
             \A s \in live' : s[1] = c => NamedBy(c, entry'[c], s),
             \A t \in Targets : Child(c, t) \in live' => TabOf(c, t) \in live'
      PROVE  Own(c)'
  <2>1. \A s \in live' : s[1] = c => s \in SessionsOf(c, entry'[c])
    BY <1>o, InRecord DEF Sound
  <2> QED
    BY <1>o, <2>1 DEF Own, OwnHeld, OwnTabs, Holds, Mine
\* The record names what it named before, and nothing is added to the table.
<1>k. ASSUME pc[c] # "detach", pc'[c] # "detach", live' = live, entry'[c] \in Entries,
             entry'[c].auto = entry[c].auto, entry'[c].attached = entry[c].attached,
             entry'[c].children = entry[c].children
      PROVE  Own(c)'
  <2>1. Sound(entry'[c])
    BY <1>k, <1>t DEF Sound
  <2>2. \A s \in live' : s[1] = c => NamedBy(c, entry'[c], s)
    BY <1>k, <1>m DEF NamedBy
  <2>3. \A t \in Targets : Child(c, t) \in live' => TabOf(c, t) \in live'
    BY <1>k DEF Own, OwnTabs
  <2> QED
    BY <1>k, <1>o, <2>1, <2>2, <2>3
<1>u. ASSUME pc[c] # "detach", pc'[c] # "detach", UNCHANGED <<live, entry>> PROVE Own(c)'
  BY <1>u, <1>k, <1>t
<1>h. ASSUME NEW next, NEW ids, NEW early, NEW events, NEW failed, Handled(c, next, ids, early,
               events, failed)
      PROVE  pc'[c] = next
  BY <1>h, <1>t DEF Handled
<1>f. Fail(c) => pc'[c] = "ended"
  BY <1>h DEF Fail
<1>s. \A events : Succeed(c, events) => pc'[c] = "ended"
  BY <1>h DEF Succeed
<1>i. \A request : Serves(c, request) => pc[c] # "detach"
  BY DEF Serves
\* The targets of a set leave the table and the record.
<1>r. ASSUME NEW ts, pc[c] # "detach", pc'[c] # "detach", RemoveTargets(ts), entry'[c] \in Entries,
             entry'[c].auto = entry[c].auto,
             \/ entry'[c].attached = entry[c].attached /\ entry'[c].children = entry[c].children
             \/ entry'[c].attached = entry[c].attached \ ts /\ entry'[c].children = entry[c].children \ ts
      PROVE  Own(c)'
  <2>1. Sound(entry'[c])
    BY <1>r, <1>t DEF Sound
  <2>2. \A s \in live' : s[1] = c => NamedBy(c, entry'[c], s)
    <3> SUFFICES ASSUME NEW s \in live', s[1] = c PROVE NamedBy(c, entry'[c], s)
      OBVIOUS
    <3>1. s \in live /\ TargetOf(s) \notin ts
      BY <1>r DEF RemoveTargets
    <3>2. PICK t \in entry[c].attached : s = Root(c, entry[c].auto, t) \/ (t \in entry[c].children /\
            s = Child(c, t))
      BY <1>m, <1>r, <3>1 DEF NamedBy
    <3>3. TargetOf(s) = t
      BY <1>t, <3>2, Names
    <3> QED
      BY <1>r, <3>1, <3>2, <3>3 DEF NamedBy
  <2>3. \A t \in Targets : Child(c, t) \in live' => TabOf(c, t) \in live'
    <3> SUFFICES ASSUME NEW t \in Targets, Child(c, t) \in live' PROVE TabOf(c, t) \in live'
      OBVIOUS
    <3>1. Child(c, t) \in live /\ t \notin ts
      BY <1>r, Names DEF RemoveTargets
    <3>2. TabOf(c, t) \in live /\ TargetOf(TabOf(c, t)) = t
      BY <1>r, <3>1, Names DEF Own, OwnTabs
    <3> QED
      BY <1>r, <3>1, <3>2 DEF RemoveTargets
  <2> QED
    BY <1>r, <1>o, <2>1, <2>2, <2>3
<1>1. CASE \E cx \in Conns \cup {Default}, t \in Targets : CreateTarget(c, cx, t)
  <2> PICK cx \in Conns \cup {Default}, t \in Targets : CreateTarget(c, cx, t)
    BY <1>1
  <2>1. CASE Refused(c)
    BY <2>1, <1>u, <1>f, <1>i, CreateEffect DEF Refused
  <2>2. CASE Creates(c, cx, t)
    <3>1. pc[c] # "detach" /\ pc'[c] \in {"commit", "ended"}
      <4>1. pc[c] # "detach"
        BY CreateEffect, <1>i
      <4>2. pc'[c] = IF Stop(c, t) = {} THEN "commit" ELSE "ended"
        BY <2>2, <1>h DEF Creates
      <4> QED
        BY <4>1, <4>2
    <3>2. live' = live \cup New(c, t) /\ entry'[c] = Added(c, t)
      BY <2>2, <1>t DEF Creates
    <3>3. /\ Added(c, t).auto = entry[c].auto /\ Added(c, t).children = entry[c].children
          /\ Added(c, t).attached = IF New(c, t) = {} THEN entry[c].attached ELSE entry[c].attached \cup {t}
      BY <1>t DEF Added, Entries
    <3>4. Sound(Added(c, t))
      BY <1>t, <3>3 DEF Sound, New
    <3>5. \A s \in New(c, t) : s = Root(c, entry[c].auto, t) /\ t \in Added(c, t).attached
      BY <3>3 DEF New
    <3>6. \A s \in live' : s[1] = c => NamedBy(c, Added(c, t), s)
      <4> SUFFICES ASSUME NEW s \in live', s[1] = c PROVE NamedBy(c, Added(c, t), s)
        OBVIOUS
      <4>1. CASE s \in New(c, t)
        BY <4>1, <3>3, <3>5 DEF NamedBy
      <4>2. CASE s \in live
        BY <4>2, <3>1, <3>3, <1>m DEF NamedBy
      <4> QED
        BY <3>2, <4>1, <4>2
    <3>7. \A u \in Targets : Child(c, u) \in live' => TabOf(c, u) \in live'
      <4>1. \A u : Child(c, u) # Root(c, entry[c].auto, t)
        BY Different
      <4>2. \A u : Child(c, u) \notin New(c, t)
        BY <3>5, <4>1
      <4> QED
        BY <3>1, <3>2, <4>2 DEF Own, OwnTabs
    <3> QED
      BY <3>1, <3>2, <3>4, <3>6, <3>7, <1>o
  <2> QED
    BY <2>1, <2>2, CreateEffect
<1>2. CASE \E t \in Targets : CloseTarget(c, t)
  <2> PICK t \in Targets : CloseTarget(c, t)
    BY <1>2
  <2>0. pc[c] # "detach"
    BY CloseEffect, <1>i
  <2>1. CASE Refused(c)
    BY <2>0, <2>1, <1>u, <1>f DEF Refused
  <2>2. CASE Closes(c, t)
    <3>1. pc'[c] = "forget"
      BY <2>2, <1>h DEF Closes
    <3>2. PICK known : entry' = [entry EXCEPT ![c].attached = @ \ {t}, ![c].children = @ \ {t},
            ![c].discovered = @ \ known]
      BY <2>2 DEF Closes
    <3>3. /\ entry'[c] \in Entries /\ entry'[c].auto = entry[c].auto
          /\ entry'[c].attached = entry[c].attached \ {t} /\ entry'[c].children = entry[c].children \ {t}
      BY <3>2, <1>t DEF Entries
    <3>4. RemoveTargets({t})
      BY <2>2 DEF Closes
    <3> QED
      BY <2>0, <3>1, <3>3, <3>4, <1>r
  <2> QED
    BY <2>1, <2>2, CloseEffect
<1>3. CASE EnableAutoAttach(c)
  <2>0. pc[c] = "enable" /\ pc'[c] = "ended" /\ job[c].auto # "off" /\
          entry[c].auto \in {"off", job[c].auto}
        /\ job[c].ids \subseteq Targets /\ job[c].auto \in Kinds /\ job[c].wait \in BOOLEAN
    BY <1>3, <1>c, <1>t, <1>f, <1>s, EnableEffect DEF StageOf, Jobs
  <2> DEFINE xs == {Root(c, job[c].auto, t) : t \in job[c].ids}
             e == [entry[c] EXCEPT !.auto = job[c].auto, !.wait = job[c].wait,
               !.attached = @ \cup job[c].ids]
  <2>1. CASE UNCHANGED <<live, entry>>
    BY <2>0, <2>1, <1>u
  <2>2. CASE live' = live \cup xs /\
               entry' = [entry EXCEPT ![c].auto = job[c].auto, ![c].wait = job[c].wait,
                                        ![c].attached = @ \cup job[c].ids]
    <3>1. entry'[c] = e
      BY <2>2, <1>t
    <3>2. /\ e.auto = job[c].auto /\ e.children = entry[c].children
          /\ e.attached = entry[c].attached \cup job[c].ids
      BY <1>t DEF Entries
    <3>3. Sound(e)
      BY <1>t, <2>0, <3>2 DEF Sound
    <3>4. \A s \in live' : s[1] = c => NamedBy(c, e, s)
      <4> SUFFICES ASSUME NEW s \in live', s[1] = c PROVE NamedBy(c, e, s)
        OBVIOUS
      <4>1. CASE s \in xs
        BY <4>1, <3>2 DEF NamedBy
      <4>2. CASE s \in live
        <5>1. PICK t \in entry[c].attached : s = Root(c, entry[c].auto, t) \/
                (t \in entry[c].children /\ s = Child(c, t))
          BY <1>m, <2>0, <4>2 DEF NamedBy
        <5>2. entry[c].auto = job[c].auto
          BY <5>1, <2>0, <1>t DEF Sound
        <5> QED
          BY <5>1, <5>2, <3>2 DEF NamedBy
      <4> QED
        BY <2>2, <4>1, <4>2
    <3>5. \A u \in Targets : Child(c, u) \in live' => TabOf(c, u) \in live'
      <4>1. \A u, t : Child(c, u) # Root(c, job[c].auto, t)
        BY Different
      <4>2. \A u : Child(c, u) \notin xs
        BY <4>1
      <4> HIDE DEF xs
      <4> QED
        BY <2>0, <2>2, <4>2 DEF Own, OwnTabs
    <3> HIDE DEF e
    <3> QED
      BY <2>0, <3>1, <3>3, <3>4, <3>5, <1>o
  <2> QED
    BY <1>3, <2>1, <2>2, EnableEffect
<1>4. CASE \E t \in entry[c].attached, wait \in BOOLEAN : AttachChild(c, t, wait)
  <2> PICK t \in entry[c].attached, wait \in BOOLEAN : AttachChild(c, t, wait)
    BY <1>4
  <2>0. pc[c] # "detach"
    BY ChildEffect, <1>i
  <2>1. CASE Declined(c)
    BY <2>0, <2>1, <1>u, <1>f, <1>s DEF Declined
  <2>2. CASE Adopts(c, t)
    <3>1. pc'[c] = "ended"
      BY <2>2, <1>s DEF Adopts
    <3>2. live' = live \cup {Child(c, t)} /\ TabOf(c, t) \in live /\ entry'[c] = WithChild(c, t)
      BY <2>2, <1>t DEF Adopts
    <3>3. /\ WithChild(c, t).auto = entry[c].auto /\ WithChild(c, t).attached = entry[c].attached
          /\ WithChild(c, t).children = entry[c].children \cup {t}
      BY <1>t DEF WithChild, Entries
    <3>4. Sound(WithChild(c, t))
      BY <1>t, <3>3 DEF Sound
    <3>5. \A s \in live' : s[1] = c => NamedBy(c, WithChild(c, t), s)
      BY <2>0, <3>2, <3>3, <1>m DEF NamedBy
    <3>6. \A u \in Targets : Child(c, u) \in live' => TabOf(c, u) \in live'
      BY <2>0, <3>2, Different DEF Own, OwnTabs
    <3> QED
      BY <3>1, <3>2, <3>4, <3>5, <3>6, <1>o
  <2> QED
    BY <2>1, <2>2, ChildEffect
<1>5. CASE \E t \in entry[c].attached : DetachChild(c, t)
  <2> PICK t \in entry[c].attached : DetachChild(c, t)
    BY <1>5
  <2>0. pc[c] # "detach" /\ pc'[c] = "ended"
    BY UnchildEffect, <1>i, <1>f, <1>s
  <2> DEFINE e == [entry[c] EXCEPT !.children = @ \ {t}]
  <2>1. CASE UNCHANGED <<live, entry>>
    BY <2>0, <2>1, <1>u
  <2>2. CASE live' = live \ {Child(c, t)} /\ entry' = [entry EXCEPT ![c].children = @ \ {t}]
    <3>1. entry'[c] = e
      BY <2>2, <1>t
    <3>2. e.auto = entry[c].auto /\ e.attached = entry[c].attached /\ e.children = entry[c].children \ {t}
      BY <1>t DEF Entries
    <3>3. Sound(e)
      BY <1>t, <3>2 DEF Sound
    <3>4. \A s \in live' : s[1] = c => NamedBy(c, e, s)
      BY <2>0, <2>2, <3>2, <1>m DEF NamedBy
    <3>5. \A u \in Targets : Child(c, u) \in live' => TabOf(c, u) \in live'
      BY <2>0, <2>2, Different DEF Own, OwnTabs
    <3> HIDE DEF e
    <3> QED
      BY <2>0, <3>1, <3>3, <3>4, <3>5, <1>o
  <2> QED
    BY <2>1, <2>2, UnchildEffect
<1>6. CASE DisableAutoAttach(c)
  <2>1. pc[c] # "detach" /\ pc'[c] = "ended" /\ live' = live \ SessionsOf(c, entry[c])
    BY <1>6, <1>i, <1>s DEF DisableAutoAttach
  <2>2. \A s \in live' : s[1] # c
    BY <2>1, <1>m, <1>t, InRecord
  <2>3. entry'[c].children = {} /\ entry'[c].attached = {}
    BY <1>6, <1>t DEF DisableAutoAttach, Entries
  <2> QED
    BY <2>1, <2>2, <2>3, <1>o, <1>x DEF Sound
<1>7. CASE \E discover \in Filters : SetDiscoverTargets(c, discover)
  <2> PICK discover \in Filters : SetDiscoverTargets(c, discover)
    BY <1>7
  <2>0. pc[c] # "detach" /\ pc'[c] = "ended" /\ live' = live
    BY <1>i, <1>s DEF SetDiscoverTargets, registryVars
  <2> DEFINE d == [entry[c] EXCEPT !.discover = discover]
             n == Now(c, d)
  <2>1. entry'[c] = [d EXCEPT !.discovered = n]
    BY <1>t DEF SetDiscoverTargets
  <2>2. Writes(c)
    BY StepWrites
  <2>3. entry'[c] \in Entries
    BY <2>2, <1>t DEF Writes
  <2> HIDE DEF n
  <2>4. entry'[c].auto = entry[c].auto /\ entry'[c].attached = entry[c].attached /\
          entry'[c].children = entry[c].children
    BY <2>1, <1>t DEF Entries
  <2> QED
    BY <2>0, <2>3, <2>4, <1>k
<1>8. CASE (\E auto \in {"pages", "tabs"}, wait \in BOOLEAN : SetAutoAttach(c, auto, wait)) \/ Reconcile(c)
  <2>1. Writes(c)
    BY StepWrites
  <2>2. entry'[c] \in Entries /\ Sound(entry'[c])
    BY <2>1, <1>t DEF Writes
  <2> DEFINE e == Swept(c, entry[c])
  <2>3. /\ e \in Entries /\ Sound(e) /\ e.auto = entry[c].auto
        /\ e.attached = {t \in entry[c].attached : Root(c, entry[c].auto, t) \in live}
        /\ e.children = {t \in entry[c].children : Root(c, entry[c].auto, t) \in live}
    BY <1>t, SweptSound
  <2> HIDE DEF e
  <2>4. pc[c] # "detach" /\ pc'[c] # "detach" /\ live' = live
    <3>1. CASE \E auto \in {"pages", "tabs"}, wait \in BOOLEAN : SetAutoAttach(c, auto, wait)
      BY <3>1, <1>i, <1>f, <1>t DEF SetAutoAttach, registryVars
    <3>2. CASE Reconcile(c)
      BY <3>2, <1>t DEF Reconcile, registryVars
    <3> QED
      BY <1>8, <3>1, <3>2
  <2>5. entry' = entry \/ entry' = [entry EXCEPT ![c] = e] \/
          \E n : entry' = [entry EXCEPT ![c] = [e EXCEPT !.gone = {}, !.discovered = n]]
    <3>1. CASE \E auto \in {"pages", "tabs"}, wait \in BOOLEAN : SetAutoAttach(c, auto, wait)
      BY <3>1 DEF SetAutoAttach, e
    <3>2. CASE Reconcile(c)
      BY <3>2 DEF Reconcile, e
    <3> QED
      BY <1>8, <3>1, <3>2
  <2>6. CASE entry' = entry
    BY <2>4, <2>6, <1>u
  <2>7. CASE entry'[c].auto = e.auto /\ entry'[c].attached = e.attached /\ entry'[c].children = e.children
    <3>1. \A s \in live' : s[1] = c => NamedBy(c, entry'[c], s)
      <4> SUFFICES ASSUME NEW s \in live', s[1] = c PROVE NamedBy(c, entry'[c], s)
        OBVIOUS
      <4>1. s \in live
        BY <2>4
      <4>2. PICK t \in entry[c].attached : s = Root(c, entry[c].auto, t) \/
              (t \in entry[c].children /\ s = Child(c, t))
        BY <1>m, <2>4, <4>1 DEF NamedBy
      <4>3. Root(c, entry[c].auto, t) \in live
        <5>1. CASE s = Root(c, entry[c].auto, t)
          BY <4>1, <5>1
        <5>2. CASE s = Child(c, t)
          <6>1. TabOf(c, t) \in live
            BY <1>t, <2>4, <4>1, <4>2, <5>2 DEF Own, OwnTabs
          <6>2. NamedBy(c, entry[c], TabOf(c, t))
            BY <6>1, <1>m, <2>4, <1>x, <1>t
          <6>3. PICK u \in entry[c].attached : TabOf(c, t) = Root(c, entry[c].auto, u)
            BY <6>2, Different DEF NamedBy
          <6>4. Root(c, entry[c].auto, t) = TabOf(c, t)
            BY <6>3, Different
          <6> QED
            BY <6>1, <6>4
        <5> QED
          BY <4>2, <5>1, <5>2
      <4> QED
        BY <2>3, <2>7, <4>2, <4>3 DEF NamedBy
    <3>2. \A u \in Targets : Child(c, u) \in live' => TabOf(c, u) \in live'
      BY <2>4 DEF Own, OwnTabs
    <3> QED
      BY <2>2, <2>4, <3>1, <3>2, <1>o
  <2>8. CASE entry' = [entry EXCEPT ![c] = e] \/
               \E n : entry' = [entry EXCEPT ![c] = [e EXCEPT !.gone = {}, !.discovered = n]]
    BY <2>8, <2>3, <2>7, <1>t DEF Entries
  <2> QED
    BY <2>5, <2>6, <2>8
<1>9. CASE AttachMissing(c)
  <2> DEFINE ts == Attachable(job[c].ids)
             e == [entry[c] EXCEPT !.attached = @ \cup ts]
             xs == {Root(c, entry[c].auto, t) : t \in ts}
  <2>1. pc[c] = "attach" /\ pc'[c] = "send" /\ live' = live \cup xs /\ entry'[c] = e
    BY <1>9, <1>t DEF AttachMissing
  <2>2. entry[c].auto # "off"
    BY <2>1, <1>c DEF StageOf
  <2> HIDE DEF ts
  <2>3. e.auto = entry[c].auto /\ e.children = entry[c].children /\ e.attached = entry[c].attached \cup ts
    BY <1>t DEF Entries
  <2> HIDE DEF e
  <2>4. Sound(e)
    BY <2>2, <2>3, <1>t DEF Sound
  <2>5. \A s \in live' : s[1] = c => NamedBy(c, e, s)
    BY <2>1, <2>3, <1>m DEF NamedBy
  <2>6. \A u \in Targets : Child(c, u) \in live' => TabOf(c, u) \in live'
    BY <2>1, Different DEF Own, OwnTabs
  <2> QED
    BY <2>1, <2>4, <2>5, <2>6, <1>o
<1>10. CASE Release(c)
  <2>1. pc[c] = "idle" /\ live' = live /\ entry'[c] = NewEntry /\ job'[c].ids = SessionsOf(c, entry[c])
        /\ pc'[c] = IF SessionsOf(c, entry[c]) = {} THEN "dispose" ELSE "detach"
    BY <1>10, <1>t DEF Release, Returned, NoJob, registryVars
  <2>2. \A s \in live : s[1] = c => s \in SessionsOf(c, entry[c])
    BY <2>1, <1>m, <1>t, InRecord
  <2>3. CASE SessionsOf(c, entry[c]) = {}
    <3>1. \A s \in live' : s[1] # c
      BY <2>1, <2>2, <2>3
    <3>2. Sound(NewEntry)
      BY DEF Sound, NewEntry
    <3> QED
      BY <2>1, <2>3, <3>1, <3>2, <1>o, <1>x
  <2>4. CASE SessionsOf(c, entry[c]) # {}
    BY <2>1, <2>2, <2>4 DEF Own, OwnHeld, OwnTabs, Holds, Mine
  <2> QED
    BY <2>3, <2>4
<1>11. CASE \E s \in job[c].ids : DetachNext(c, s)
  <2> PICK s \in job[c].ids : DetachNext(c, s)
    BY <1>11
  <2>1. pc[c] = "detach" /\ live' = live \ {s} /\ entry'[c] = entry[c] /\ job'[c].ids = job[c].ids \ {s}
        /\ pc'[c] = IF job[c].ids = {s} THEN "dispose" ELSE "detach"
    BY <1>t DEF DetachNext, Jobs
  <2>2. \A r \in live : r[1] = c => r \in job[c].ids
    BY <2>1 DEF Own, OwnHeld, Holds, Mine
  <2>3. CASE job[c].ids = {s}
    <3>1. \A r \in live' : r[1] # c
      BY <2>1, <2>2, <2>3
    <3> QED
      BY <2>1, <2>3, <3>1, <1>o, <1>x, <1>t
  <2>4. CASE job[c].ids # {s}
    BY <2>1, <2>2, <2>4 DEF Own, OwnHeld, OwnTabs, Holds, Mine
  <2> QED
    BY <2>3, <2>4
<1>12. CASE Open(c)
  <2>1. entry[c] = NewEntry /\ pc[c] = "closed" /\ pc'[c] = "idle" /\ live' = live /\ entry'[c] = NewEntry
    BY <1>12, <1>c, <1>t DEF Open, StageOf, Over, registryVars
  <2> QED
    BY <2>1, <1>k, <1>t
<1>13. CASE DisposeBrowserContext(c)
  <2>1. pc[c] # "detach" /\ pc'[c] # "detach" /\ entry' = entry /\
          RemoveTargets({t \in Targets : context[t] = c})
    BY <1>13, <1>t DEF DisposeBrowserContext
  <2> QED
    BY <2>1, <1>r, <1>t
<1>14. CASE CreateBrowserContext(c) \/ (\E failed \in BOOLEAN : Other(c, failed)) \/
              \E s \in told[c].sessions : RunIfWaitingForDebugger(c, s)
  <2>1. pc[c] # "detach" /\ UNCHANGED <<live, entry>>
    BY <1>14, <1>i DEF CreateBrowserContext, Other, RunIfWaitingForDebugger, registryVars
  <2>2. pc'[c] \in {"ended", "commit"}
    BY <1>14, <1>h, <1>f, <1>s DEF CreateBrowserContext, Other, RunIfWaitingForDebugger
  <2> QED
    BY <2>1, <2>2, <1>u
<1>15. CASE \/ Send(c) \/ Prune(c) \/ Forget(c) \/ \E t \in job[c].ids : CommitInitialBlank(c, t)
  <2>1. pc[c] # "detach" /\ UNCHANGED <<live, entry>>
    BY <1>15 DEF Send, Prune, Forget, CommitInitialBlank, registryVars
  <2>2. pc'[c] # "detach"
    BY <1>15, <1>t DEF Send, Prune, Forget, CommitInitialBlank, Jobs
  <2> QED
    BY <2>1, <2>2, <1>u
<1>16. CASE TakeOrphanedPaused(c, "ended", "reconcile") \/ TakeOrphanedPaused(c, "orphans", "prune")
  <2>1. pc[c] # "detach" /\ UNCHANGED <<live, entry>>
    BY <1>16 DEF TakeOrphanedPaused
  <2>2. pc'[c] # "detach"
    BY <1>16, <1>t DEF TakeOrphanedPaused
  <2> QED
    BY <2>1, <2>2, <1>u
<1> QED
  BY <1>1, <1>2, <1>3, <1>4, <1>5, <1>6, <1>7, <1>8, <1>9, <1>10, <1>11, <1>12, <1>13, <1>14, <1>15, <1>16
     DEF Step, Request, Proceed

\* Nor does another connection's: it takes sessions away, or adds its own.
LEMMA HeldKept ==
  ASSUME Ranges, Caps, Stages, Early, Records, Tabs, Held, NEW c \in Conns, Step(c)
  PROVE  Held' /\ Tabs'
<1>f. \A d \in Conns \ {c} : pc'[d] = pc[d] /\ job'[d] = job[d] /\ entry'[d] = entry[d]
  BY Frame
<1>l. \A s \in live' : /\ TargetOf(s) \in LiveTargets'
                       /\ s \in live \/ s[1] = c
  <2>1. CASE Grows(c)
    BY <2>1 DEF Grows, Held
  <2>2. CASE Shrinks(c)
    BY <2>2 DEF Shrinks, Held
  <2>3. CASE \E ts : RemoveTargets(ts)
    <3> PICK ts : RemoveTargets(ts)
      BY <2>3
    <3>1. \A s \in live' : s \in live /\ TargetOf(s) \notin ts /\ TargetOf(s) \in LiveTargets
      BY DEF RemoveTargets, Held
    <3>2. \A t \in LiveTargets \ ts : t \in LiveTargets'
      BY DEF RemoveTargets, LiveTargets
    <3> QED
      BY <3>1, <3>2
  <2> QED
    BY <2>1, <2>2, <2>3, LiveEffect
<1>r. live' \subseteq Sessions
  BY StepRanges DEF Ranges
<1>o. Own(c)'
  <2>1. Own(c)
    BY DEF Own, OwnHeld, OwnTabs, Mine, Held, Tabs
  <2> QED
    BY <2>1, OwnKept
<1>1. \A s \in live' : s \in Holds(s[1])'
  <2> TAKE s \in live'
  <2>0. s[1] \in Conns
    BY <1>r DEF Sessions
  <2>1. CASE s[1] = c
    <3>1. s \in Holds(c)'
      BY <2>1, <1>o DEF Own, OwnHeld, Mine
    <3> QED
      BY <2>1, <3>1 DEF Holds
  <2>2. CASE s[1] # c
    <3>1. s \in live /\ s \in Holds(s[1])
      BY <2>2, <1>l DEF Held
    <3>2. pc'[s[1]] = pc[s[1]] /\ job'[s[1]] = job[s[1]] /\ entry'[s[1]] = entry[s[1]]
      BY <2>0, <2>2, <1>f
    <3> QED
      BY <3>1, <3>2 DEF Holds
  <2> QED
    BY <2>1, <2>2
<1>2. \A d \in Conns, t \in Targets : pc'[d] # "detach" /\ Child(d, t) \in live' => TabOf(d, t) \in live'
  <2> SUFFICES ASSUME NEW d \in Conns, NEW t \in Targets, pc'[d] # "detach", Child(d, t) \in live'
               PROVE  TabOf(d, t) \in live'
    OBVIOUS
  <2>1. CASE d = c
    BY <2>1, <1>o DEF Own, OwnTabs
  <2>2. CASE d # c
    <3>1. Child(d, t) \in live /\ Child(d, t)[1] = d /\ TabOf(d, t)[1] = d /\
            TargetOf(Child(d, t)) = t /\ TargetOf(TabOf(d, t)) = t
      BY <2>2, <1>l, Names
    <3>2. TabOf(d, t) \in live
      BY <2>2, <1>f, <3>1 DEF Tabs
    <3>3. CASE Grows(c)
      BY <3>2, <3>3 DEF Grows
    <3>4. CASE Shrinks(c)
      BY <2>2, <3>1, <3>2, <3>4 DEF Shrinks
    <3>5. CASE \E ts : RemoveTargets(ts)
      BY <3>1, <3>2, <3>5 DEF RemoveTargets
    <3> QED
      BY <3>3, <3>4, <3>5, LiveEffect
  <2> QED
    BY <2>1, <2>2
<1> QED
  BY <1>l, <1>1, <1>2 DEF Held, Tabs

\* A context goes with its targets, and its connection is over only after that.
LEMMA OwnedKept ==
  ASSUME Ranges, Stages, Early, Records, Owned, NEW c \in Conns, Step(c)
  PROVE  Owned'
<1>t. /\ pc \in [Conns -> PCs] /\ job \in [Conns -> Jobs] /\ job[c] \in Jobs /\ contexts \subseteq Conns
      /\ context \in [Targets -> Conns \cup {Default, None}]
  BY DEF Ranges
<1>f. \A d \in Conns \ {c} : Over(d)' <=> Over(d)
  BY Frame DEF Over
<1>h. ASSUME NEW next \in {"ended", "commit", "forget"}, NEW ids, NEW early, NEW events, NEW failed,
             Handled(c, next, ids, early, events, failed)
      PROVE  ~ Over(c)'
  <2>1. pc'[c] = next /\ job'[c].next = "ended"
    BY <1>h, <1>t DEF Handled, NoJob
  <2> QED
    BY <2>1 DEF Over
<1>g. Fail(c) => ~ Over(c)'
  BY <1>h DEF Fail
<1>s. \A events : Succeed(c, events) => ~ Over(c)'
  BY <1>h DEF Succeed
\* A connection that is not over does not become so but by disposing of its context.
<1>1. Over(c)' => Over(c) \/ DisposeBrowserContext(c)
  <2>1. CASE \E cx \in Conns \cup {Default}, t \in Targets : CreateTarget(c, cx, t)
    <3> PICK cx \in Conns \cup {Default}, t \in Targets : CreateTarget(c, cx, t)
      BY <2>1
    <3>1. CASE Refused(c)
      BY <3>1, <1>g DEF Refused
    <3>2. CASE Creates(c, cx, t)
      BY <3>2, <1>h DEF Creates
    <3> QED
      BY <3>1, <3>2, CreateEffect
  <2>2. CASE \E t \in Targets : CloseTarget(c, t)
    <3> PICK t \in Targets : CloseTarget(c, t)
      BY <2>2
    <3>1. CASE Refused(c)
      BY <3>1, <1>g DEF Refused
    <3>2. CASE Closes(c, t)
      BY <3>2, <1>h DEF Closes
    <3> QED
      BY <3>1, <3>2, CloseEffect
  <2>3. CASE EnableAutoAttach(c)
    BY <2>3, <1>g, <1>s, EnableEffect
  <2>4. CASE \E t \in entry[c].attached, wait \in BOOLEAN : AttachChild(c, t, wait)
    BY <2>4, <1>g, <1>s, ChildEffect DEF Declined, Adopts
  <2>5. CASE \E t \in entry[c].attached : DetachChild(c, t)
    BY <2>5, <1>g, <1>s, UnchildEffect
  <2>6. CASE DisableAutoAttach(c) \/ CreateBrowserContext(c) \/
               \E discover \in Filters : SetDiscoverTargets(c, discover)
    BY <2>6, <1>g, <1>s DEF DisableAutoAttach, CreateBrowserContext, SetDiscoverTargets
  <2>7. CASE (\E failed \in BOOLEAN : Other(c, failed)) \/
               \E s \in told[c].sessions : RunIfWaitingForDebugger(c, s)
    BY <2>7, <1>g, <1>s, <1>h DEF Other, RunIfWaitingForDebugger
  <2>8. CASE pc'[c] \in {"idle", "enable", "ended", "dispose", "detach", "send", "attach"}
    BY <2>8 DEF Over
  <2>9. CASE \E auto \in {"pages", "tabs"}, wait \in BOOLEAN : SetAutoAttach(c, auto, wait)
    BY <2>9, <2>8, <1>g, <1>t DEF SetAutoAttach
  <2>10. CASE Open(c) \/ Send(c) \/ Forget(c) \/ Reconcile(c) \/ AttachMissing(c) \/ Release(c) \/
                \E s \in job[c].ids : DetachNext(c, s)
    BY <2>8, <2>10, <1>t DEF Open, Send, Forget, Reconcile, AttachMissing, Release, DetachNext
  <2>11. CASE \E t \in job[c].ids : CommitInitialBlank(c, t)
    <3>1. pc[c] = "commit" /\ pc'[c] \in {job[c].next, "commit"} /\ job'[c].next = job[c].next
      BY <2>11, <1>t DEF CommitInitialBlank, Jobs
    <3>2. job[c].next \in {"ended", "reconcile", "prune"}
      BY <3>1, <1>t DEF Jobs, Stages
    <3> QED
      BY <3>1, <3>2 DEF Over
  <2>12. CASE TakeOrphanedPaused(c, "ended", "reconcile")
    <3>1. pc'[c] \in {"reconcile", "commit"} /\ job'[c].next = "reconcile"
      <4> DEFINE ids == {TargetOf(s) : s \in Orphaned}
      <4>1. job' = [job EXCEPT ![c] = [job[c] EXCEPT !.ids = ids, !.next = "reconcile"]]
        BY <2>12 DEF TakeOrphanedPaused
      <4> HIDE DEF ids
      <4>2. job'[c].next = "reconcile"
        BY <4>1, <1>t DEF Jobs
      <4> QED
        BY <2>12, <4>2, <1>t DEF TakeOrphanedPaused
    <3> QED
      BY <3>1 DEF Over
  <2>13. CASE TakeOrphanedPaused(c, "orphans", "prune") \/ Prune(c)
    BY <2>13 DEF TakeOrphanedPaused, Prune, Over
  <2> QED
    BY <2>1, <2>2, <2>3, <2>4, <2>5, <2>6, <2>7, <2>9, <2>10, <2>11, <2>12, <2>13 DEF Step, Request, Proceed
<1>2. CASE DisposeBrowserContext(c)
  <2>1. contexts' = contexts \ {c} /\ RemoveTargets({t \in Targets : context[t] = c})
    BY <1>2 DEF DisposeBrowserContext
  <2>2. \A d \in contexts' : ~ Over(d)'
    BY <2>1, <1>f, <1>t DEF Owned
  <2>3. \A t \in LiveTargets' : context'[t] = Default \/ context'[t] \in contexts'
    <3> SUFFICES ASSUME NEW t \in LiveTargets' PROVE context'[t] = Default \/ context'[t] \in contexts'
      OBVIOUS
    <3>1. t \in Targets /\ context'[t] # None
      BY DEF LiveTargets
    <3>2. context'[t] = context[t] /\ context[t] # c /\ t \in LiveTargets
      BY <2>1, <3>1 DEF RemoveTargets, LiveTargets
    <3> QED
      BY <2>1, <3>2 DEF Owned
  <2> QED
    BY <2>2, <2>3 DEF Owned
<1>3. CASE CreateBrowserContext(c)
  <2>1. contexts' \subseteq contexts \cup {c} /\ contexts \subseteq contexts' /\
          context' = context /\ ~ Over(c)'
    BY <1>3, <1>g, <1>s DEF CreateBrowserContext
  <2> QED
    BY <2>1, <1>f, <1>t DEF Owned, LiveTargets
<1>4. CASE ~ DisposeBrowserContext(c) /\ ~ CreateBrowserContext(c)
  <2>1. contexts' = contexts
    <3>1. CASE \E cx \in Conns \cup {Default}, t \in Targets : CreateTarget(c, cx, t)
      BY <3>1, CreateEffect
    <3>2. CASE \E t \in Targets : CloseTarget(c, t)
      BY <3>2, CloseEffect
    <3>3. CASE \E t \in entry[c].attached, wait \in BOOLEAN : AttachChild(c, t, wait)
      BY <3>3, ChildEffect
    <3> QED
      BY <1>4, <3>1, <3>2, <3>3 DEF Step, Request, Proceed, Send, Open, Release, Other,
         SetAutoAttach, DisableAutoAttach, DetachChild, SetDiscoverTargets,
         RunIfWaitingForDebugger, Forget, CommitInitialBlank,
         TakeOrphanedPaused, Reconcile, DetachNext, Prune, registryVars, EnableAutoAttach, AttachMissing
  <2>2. \A d \in contexts' : ~ Over(d)'
    BY <2>1, <1>1, <1>4, <1>f, <1>t DEF Owned
  <2>3. \A t \in LiveTargets' : context'[t] = Default \/ context'[t] \in contexts'
    <3>1. CASE context' = context
      BY <3>1, <2>1 DEF Owned, LiveTargets
    <3>2. CASE \E cx \in Conns \cup {Default}, t \in Targets : CreateTarget(c, cx, t)
      <4> PICK cx \in Conns \cup {Default}, t \in Targets : CreateTarget(c, cx, t)
        BY <3>2
      <4>1. CASE Refused(c)
        BY <4>1, <3>1 DEF Refused
      <4>2. CASE Creates(c, cx, t)
        <5>1. context' = [context EXCEPT ![t] = cx] /\ (cx = Default \/ cx \in contexts)
          BY <4>2 DEF Creates
        <5> QED
          BY <5>1, <2>1, <1>t DEF Owned, LiveTargets
      <4> QED
        BY <4>1, <4>2, CreateEffect
    <3>3. CASE \E t \in Targets : CloseTarget(c, t)
      <4> PICK t \in Targets : CloseTarget(c, t)
        BY <3>3
      <4>1. CASE Refused(c)
        BY <4>1, <3>1 DEF Refused
      <4>2. CASE Closes(c, t)
        <5>1. \A u \in LiveTargets' : u \in LiveTargets /\ context'[u] = context[u]
          BY <4>2 DEF Closes, RemoveTargets, LiveTargets
        <5> QED
          BY <5>1, <2>1 DEF Owned
      <4> QED
        BY <4>1, <4>2, CloseEffect
    <3>4. CASE \E t \in entry[c].attached, wait \in BOOLEAN : AttachChild(c, t, wait)
      BY <3>4, <3>1, ChildEffect
    <3> QED
      BY <1>4, <3>1, <3>2, <3>3, <3>4 DEF Step, Request, Proceed, Send, Open, Release, Other,
         SetAutoAttach, DisableAutoAttach, DetachChild, SetDiscoverTargets,
         RunIfWaitingForDebugger, Forget, CommitInitialBlank,
         TakeOrphanedPaused, Reconcile, DetachNext, Prune, registryVars, EnableAutoAttach, AttachMissing
  <2> QED
    BY <2>2, <2>3 DEF Owned
<1> QED
  BY <1>2, <1>3, <1>4

-----------------------------------------------------------------------------
(* Stops and navigation states *)

\* From which place a step comes.
LEMMA Where ==
  ASSUME NEW c \in Conns, Step(c)
  PROVE  /\ pc[c] = "commit"  => \E t \in job[c].ids : CommitInitialBlank(c, t)
         /\ pc[c] = "forget"  => Forget(c)
         /\ pc[c] = "ended"   => TakeOrphanedPaused(c, "ended", "reconcile")
         /\ pc[c] = "orphans" => TakeOrphanedPaused(c, "orphans", "prune")
         /\ pc[c] = "prune"   => Prune(c)
         /\ pc[c] = "detach"  => \E s \in job[c].ids : DetachNext(c, s)
         /\ pc[c] = "dispose" => DisposeBrowserContext(c)
<1> DEFINE Here == pc[c] \in {"commit", "forget", "ended", "orphans", "prune", "detach", "dispose"}
<1>1. \A cx \in Conns \cup {Default}, t \in Targets : CreateTarget(c, cx, t) => ~ Here
  BY CreateEffect DEF Serves
<1>2. \A t \in Targets : CloseTarget(c, t) => ~ Here
  BY CloseEffect DEF Serves
<1>3. \A t \in entry[c].attached, wait \in BOOLEAN : AttachChild(c, t, wait) => ~ Here
  BY ChildEffect DEF Serves
<1>4. \A t \in entry[c].attached : DetachChild(c, t) => ~ Here
  BY UnchildEffect DEF Serves
<1>5. \A auto \in {"pages", "tabs"}, wait \in BOOLEAN : SetAutoAttach(c, auto, wait) => ~ Here
  BY DEF SetAutoAttach, Serves
<1>6. Request(c) => ~ Here
  BY <1>1, <1>2, <1>3, <1>4, <1>5 DEF Request, Open, Release, Other, CreateBrowserContext,
       DisableAutoAttach,
     SetDiscoverTargets, RunIfWaitingForDebugger, Serves
<1>7. Send(c) \/ EnableAutoAttach(c) \/ Reconcile(c) \/ AttachMissing(c) => ~ Here
  BY DEF Send, EnableAutoAttach, Reconcile, AttachMissing
<1>8. /\ Forget(c) => pc[c] = "forget"
      /\ \A t : CommitInitialBlank(c, t) => pc[c] = "commit"
      /\ \A at, next : TakeOrphanedPaused(c, at, next) => pc[c] = at
      /\ \A s : DetachNext(c, s) => pc[c] = "detach"
      /\ DisposeBrowserContext(c) => pc[c] = "dispose"
      /\ Prune(c) => pc[c] = "prune"
  BY DEF Forget, CommitInitialBlank, TakeOrphanedPaused, DetachNext, DisposeBrowserContext, Prune
<1> QED
  BY <1>6, <1>7, <1>8 DEF Step, Proceed

\* What becomes of the stops in a step.
Drops(c) ==
  \A s \in paused :
    \/ s \in paused'
    \/ TargetOf(s) \notin LiveTargets'
    \/ pc'[c] = "commit" /\ TargetOf(s) \in job'[c].ids

\* A child takes over the stop of its tab.
Swaps(c) ==
  \E t \in Targets :
    /\ TabOf(c, t) \in paused
    /\ paused' = (paused \ {TabOf(c, t)}) \cup {Child(c, t)}
    /\ Child(c, t) \in live'
    /\ LiveTargets' = LiveTargets

\* A step adds the stop of a new target, hands one over, or takes stops away: those of
\* targets that are gone, and those whose targets its task is about to commit.
LEMMA StopEffect ==
  ASSUME Ranges, Stages, Records, NEW c \in Conns, Step(c)
  PROVE  \/ Adds(c)
         \/ Swaps(c)
         \/ paused' \subseteq paused /\ Drops(c)
<1>t. /\ pc \in [Conns -> PCs] /\ job \in [Conns -> Jobs] /\ job[c] \in Jobs
      /\ entry[c].attached \subseteq Targets
  BY DEF Ranges, Entries
<1>u. paused' = paused => paused' \subseteq paused /\ Drops(c)
  BY DEF Drops
<1>r. ASSUME NEW ts, RemoveTargets(ts) PROVE paused' \subseteq paused /\ Drops(c)
  <2>1. \A t \in ts : t \notin LiveTargets'
    BY <1>r DEF RemoveTargets, LiveTargets
  <2> QED
    BY <1>r, <2>1 DEF RemoveTargets, Drops
<1>1. CASE \E cx \in Conns \cup {Default}, t \in Targets : CreateTarget(c, cx, t)
  <2> PICK cx \in Conns \cup {Default}, t \in Targets : CreateTarget(c, cx, t)
    BY <1>1
  <2>1. CASE Refused(c)
    BY <2>1, <1>u DEF Refused
  <2>2. CASE Creates(c, cx, t)
    <3>1. LiveTargets' = LiveTargets \cup {t}
      BY <2>2, TargetNamesAssumption DEF LiveTargets, Ranges, Creates
    <3>2. t \notin NamedTargets /\ UNCHANGED <<contexts, documents>> /\ pc[c] = "idle"
      BY CreateEffect DEF Serves
    <3> QED
      BY <2>2, <3>1, <3>2 DEF Adds
  <2> QED
    BY <2>1, <2>2, CreateEffect
<1>2. CASE \E t \in Targets : CloseTarget(c, t)
  <2> PICK t \in Targets : CloseTarget(c, t)
    BY <1>2
  <2>1. CASE Refused(c)
    BY <2>1, <1>u DEF Refused
  <2>2. CASE Closes(c, t)
    BY <2>2, <1>r DEF Closes
  <2> QED
    BY <2>1, <2>2, CloseEffect
<1>3. CASE \E t \in entry[c].attached, wait \in BOOLEAN : AttachChild(c, t, wait)
  <2> PICK t \in entry[c].attached, wait \in BOOLEAN : AttachChild(c, t, wait)
    BY <1>3
  <2>1. CASE Declined(c)
    BY <2>1, <1>u DEF Declined
  <2>2. CASE Adopts(c, t)
    <3>1. CASE paused' = paused
      BY <3>1, <1>u
    <3>2. CASE TabOf(c, t) \in paused /\ paused' = (paused \ {TabOf(c, t)}) \cup {Child(c, t)}
      <4>1. Child(c, t) \in live' /\ t \in Targets
        BY <2>2, <1>t DEF Adopts
      <4>2. LiveTargets' = LiveTargets
        BY ChildEffect DEF LiveTargets
      <4> QED
        BY <3>2, <4>1, <4>2 DEF Swaps
    <3> QED
      BY <2>2, <3>1, <3>2 DEF Adopts
  <2> QED
    BY <2>1, <2>2, ChildEffect
<1>4. CASE \E s \in told[c].sessions : RunIfWaitingForDebugger(c, s)
  <2> PICK s \in told[c].sessions : RunIfWaitingForDebugger(c, s)
    BY <1>4
  <2>1. CASE s \notin live \/ s \notin paused
    BY <2>1, <1>u DEF RunIfWaitingForDebugger
  <2>2. CASE s \in live /\ s \in paused
    <3>1. paused' = paused \ {s} /\ Handled(c, "commit", {TargetOf(s)}, <<>>, <<>>, FALSE)
      BY <2>2 DEF RunIfWaitingForDebugger
    <3>2. pc'[c] = "commit" /\ job'[c].ids = {TargetOf(s)}
      BY <3>1, <1>t DEF Handled, NoJob
    <3> QED
      BY <3>1, <3>2 DEF Drops
  <2> QED
    BY <2>1, <2>2
<1>5. ASSUME NEW at, NEW next, TakeOrphanedPaused(c, at, next) PROVE paused' \subseteq paused /\ Drops(c)
  <2> DEFINE ids == {TargetOf(s) : s \in Orphaned}
  <2>1. /\ paused' = paused \ Orphaned
        /\ pc'[c] = IF Orphaned = {} THEN next ELSE "commit"
        /\ job' = [job EXCEPT ![c] = [job[c] EXCEPT !.ids = ids, !.next = next]]
    BY <1>5, <1>t DEF TakeOrphanedPaused
  <2>2. \A s \in Orphaned : TargetOf(s) \in ids
    OBVIOUS
  <2> HIDE DEF ids
  <2>3. job'[c].ids = ids
    BY <2>1, <1>t DEF Jobs
  <2> QED
    BY <2>1, <2>2, <2>3 DEF Drops
<1>6. CASE DisposeBrowserContext(c)
  BY <1>6, <1>r DEF DisposeBrowserContext
<1>7. CASE paused' = paused
  BY <1>7, <1>u
<1> QED
  BY <1>1, <1>2, <1>3, <1>4, <1>5, <1>6, <1>7 DEF Step, Request, Proceed, Send, Open, Release,
       Other, CreateBrowserContext,
       SetAutoAttach, DisableAutoAttach, DetachChild, SetDiscoverTargets, Forget, CommitInitialBlank,
       Reconcile, DetachNext, Prune, registryVars, EnableAutoAttach, AttachMissing

\* What becomes of the sessions and the documents.
LEMMA EndEffect ==
  ASSUME Ranges, Stages, NEW c \in Conns, Step(c)
  PROVE  /\ \A s \in live \ live' : s \in paused' => pc'[c] \in {"ended", "detach", "dispose"}
         /\ documents \cap LiveTargets \cap LiveTargets' \subseteq documents'
         /\ documents' \subseteq documents \cup LiveTargets'
<1>t. pc \in [Conns -> PCs] /\ job \in [Conns -> Jobs] /\ job[c] \in Jobs
  BY DEF Ranges
<1>h. \A next, ids, early, events, failed : Handled(c, next, ids, early, events, failed) => pc'[c] = next
  BY <1>t DEF Handled
<1>k. context' = context => LiveTargets' = LiveTargets
  BY DEF LiveTargets
<1>1. CASE \E cx \in Conns \cup {Default}, t \in Targets : CreateTarget(c, cx, t)
  <2> PICK cx \in Conns \cup {Default}, t \in Targets : CreateTarget(c, cx, t)
    BY <1>1
  <2>1. live \subseteq live'
    BY CreateEffect DEF Refused, Creates
  <2> QED
    BY <2>1, CreateEffect
<1>2. CASE \E t \in Targets : CloseTarget(c, t)
  <2> PICK t \in Targets : CloseTarget(c, t)
    BY <1>2
  <2>1. CASE Refused(c)
    BY <2>1, CloseEffect DEF Refused
  <2>2. CASE Closes(c, t)
    BY <2>2, CloseEffect DEF Closes, RemoveTargets
  <2> QED
    BY <2>1, <2>2, CloseEffect
<1>3. CASE \E t \in entry[c].attached, wait \in BOOLEAN : AttachChild(c, t, wait)
  <2> PICK t \in entry[c].attached, wait \in BOOLEAN : AttachChild(c, t, wait)
    BY <1>3
  <2>1. live \subseteq live'
    BY ChildEffect DEF Declined, Adopts
  <2> QED
    BY <2>1, ChildEffect
<1>4. CASE \E t \in entry[c].attached : DetachChild(c, t)
  <2> PICK t \in entry[c].attached : DetachChild(c, t)
    BY <1>4
  <2>1. pc'[c] = "ended"
    BY UnchildEffect, <1>h DEF Fail, Succeed
  <2> QED
    BY <2>1, UnchildEffect
<1>5. CASE DisableAutoAttach(c)
  BY <1>5, <1>h DEF DisableAutoAttach, Succeed
<1>6. CASE EnableAutoAttach(c)
  <2>1. live \subseteq live'
    BY <1>6, EnableEffect
  <2> QED
    BY <1>6, <2>1, EnableEffect
<1>7. CASE \E s \in job[c].ids : DetachNext(c, s)
  BY <1>7, <1>t DEF DetachNext
<1>8. CASE DisposeBrowserContext(c)
  BY <1>8 DEF DisposeBrowserContext, RemoveTargets
<1>9. CASE AttachMissing(c)
  BY <1>9 DEF AttachMissing
<1>10. CASE Forget(c)
  <2>1. documents' = documents \ job[c].ids /\ job[c].ids \cap LiveTargets = {} /\ live' = live /\
          context' = context
    BY <1>10 DEF Forget, Stages, registryVars
  <2> QED
    BY <2>1, <1>k
<1>11. CASE \E t \in job[c].ids : CommitInitialBlank(c, t)
  BY <1>11, <1>k DEF CommitInitialBlank, registryVars
<1>12. CASE Prune(c)
  BY <1>12, <1>k DEF Prune, registryVars
<1>13. CASE UNCHANGED <<live, documents>>
  BY <1>13
<1> QED
  BY <1>1, <1>2, <1>3, <1>4, <1>5, <1>6, <1>7, <1>8, <1>9, <1>10, <1>11, <1>12, <1>13 DEF Step,
       Request, Proceed, Send, Open,
       Release, Other, CreateBrowserContext,
       SetAutoAttach, SetDiscoverTargets, RunIfWaitingForDebugger,
       TakeOrphanedPaused, Reconcile, registryVars

\* A target has one stop: a new one gets its first, and a child takes that of its tab.
LEMMA StopsKept ==
  ASSUME Ranges, Stages, Early, Records, Stops, NEW c \in Conns, Step(c)
  PROVE  Stops'
<1>p. \A s \in paused : TargetOf(s) \in LiveTargets
  BY DEF Stops
<1>q. \A s, r \in paused : TargetOf(r) = TargetOf(s) => r = s
  BY DEF Stops
<1>m. ASSUME \A s \in paused' : TargetOf(s) \in LiveTargets',
             \A s, r \in paused' : TargetOf(r) = TargetOf(s) => r = s
      PROVE  Stops'
  BY <1>m DEF Stops
<1>1. CASE Adds(c)
  <2> PICK cx \in Conns \cup {Default}, t \in Targets :
             Creates(c, cx, t) /\ t \notin NamedTargets /\ LiveTargets' = LiveTargets \cup {t}
    BY <1>1 DEF Adds
  <2>1. paused' = paused \cup Stop(c, t)
    BY DEF Creates
  <2>2. \A s \in Stop(c, t) : s = Root(c, entry[c].auto, t) /\ TargetOf(s) = t
    BY Names DEF Stop, New
  <2>3. \A s \in paused : TargetOf(s) # t
    BY Fresh
  <2>4. \A s \in paused' : TargetOf(s) \in LiveTargets'
    BY <2>1, <2>2, <1>p
  <2>5. \A s, r \in paused' : TargetOf(r) = TargetOf(s) => r = s
    BY <2>1, <2>2, <2>3, <1>q
  <2> QED
    BY <2>4, <2>5, <1>m
<1>2. CASE Swaps(c)
  <2> PICK t \in Targets : /\ TabOf(c, t) \in paused
                           /\ paused' = (paused \ {TabOf(c, t)}) \cup {Child(c, t)}
                           /\ LiveTargets' = LiveTargets
    BY <1>2 DEF Swaps
  <2>1. TargetOf(TabOf(c, t)) = t /\ TargetOf(Child(c, t)) = t
    BY Names
  <2>2. \A s \in paused \ {TabOf(c, t)} : TargetOf(s) # t
    BY <2>1, <1>q
  <2>3. \A s \in paused' : TargetOf(s) \in LiveTargets'
    BY <2>1, <1>p
  <2>4. \A s, r \in paused' : TargetOf(r) = TargetOf(s) => r = s
    BY <2>1, <2>2, <1>q
  <2> QED
    BY <2>3, <2>4, <1>m
<1>3. CASE paused' \subseteq paused /\ Drops(c)
  <2>1. CASE LiveTargets \subseteq LiveTargets'
    BY <2>1, <1>3, <1>p, <1>q, <1>m
  <2>2. CASE \E ts : RemoveTargets(ts)
    <3> PICK ts : RemoveTargets(ts)
      BY <2>2
    <3>1. \A s \in paused' : s \in paused /\ TargetOf(s) \notin ts
      BY DEF RemoveTargets
    <3>2. \A t \in LiveTargets \ ts : t \in LiveTargets'
      BY DEF RemoveTargets, LiveTargets
    <3> QED
      BY <3>1, <3>2, <1>p, <1>q, <1>m
  <2>3. CASE \E t \in Targets : CloseTarget(c, t)
    <3> PICK t \in Targets : CloseTarget(c, t)
      BY <2>3
    <3>1. CASE Refused(c)
      BY <3>1, <2>1 DEF Refused, LiveTargets
    <3> QED
      BY <3>1, <2>2, CloseEffect DEF Closes
  <2>4. CASE DisposeBrowserContext(c)
    BY <2>4, <2>2 DEF DisposeBrowserContext
  <2>5. CASE context' = context
    BY <2>5, <2>1 DEF LiveTargets
  <2>6. CASE \E cx \in Conns \cup {Default}, t \in Targets : CreateTarget(c, cx, t)
    <3> PICK cx \in Conns \cup {Default}, t \in Targets : CreateTarget(c, cx, t)
      BY <2>6
    <3>1. CASE Refused(c)
      BY <3>1, <2>5 DEF Refused
    <3>2. CASE Creates(c, cx, t)
      <4>1. LiveTargets' = LiveTargets \cup {t}
        BY <3>2, TargetNamesAssumption DEF LiveTargets, Ranges, Creates
      <4> QED
        BY <4>1, <2>1
    <3> QED
      BY <3>1, <3>2, CreateEffect
  <2>7. CASE \E t \in entry[c].attached, wait \in BOOLEAN : AttachChild(c, t, wait)
    BY <2>7, <2>5, ChildEffect
  <2> QED
    BY <2>3, <2>4, <2>5, <2>6, <2>7 DEF Step, Request, Proceed, Send, Open, Release, Other,
         CreateBrowserContext,
       SetAutoAttach, DisableAutoAttach, DetachChild, SetDiscoverTargets, RunIfWaitingForDebugger,
       Forget, CommitInitialBlank,
       TakeOrphanedPaused, Reconcile, DetachNext, Prune, registryVars, EnableAutoAttach, AttachMissing
<1> QED
  BY <1>1, <1>2, <1>3, StopEffect

\* Who removes a target is on the way to remove its navigation state, or its release
\* will prune it.
LEMMA OutlivedKept ==
  ASSUME Ranges, Stages, Early, Records, Outlived, NEW c \in Conns, Step(c)
  PROVE  Outlived'
<1>t. pc \in [Conns -> PCs] /\ job \in [Conns -> Jobs] /\ job[c] \in Jobs
  BY DEF Ranges
<1>f. \A d \in Conns \ {c} : pc'[d] = pc[d] /\ job'[d] = job[d]
  BY Frame
<1>e. documents' \subseteq documents \cup LiveTargets'
  BY EndEffect
<1> SUFFICES ASSUME NEW t \in documents', t \notin LiveTargets' PROVE \E d \in Conns : Removes(d, t)'
  BY DEF Outlived
<1>0. t \in documents
  BY <1>e
<1>1. CASE t \in LiveTargets
  <2>1. CASE \E u \in Targets : CloseTarget(c, u)
    <3> PICK u \in Targets : CloseTarget(c, u)
      BY <2>1
    <3>1. CASE Refused(c)
      BY <1>1, <3>1 DEF Refused, LiveTargets
    <3>2. CASE Closes(c, u)
      <4>1. t = u
        BY <1>1, <3>2 DEF Closes, RemoveTargets, LiveTargets
      <4>2. pc'[c] = "forget" /\ job'[c].ids = {u}
        BY <3>2, <1>t DEF Closes, Handled, NoJob
      <4> QED
        BY <4>1, <4>2 DEF Removes
    <3> QED
      BY <3>1, <3>2, CloseEffect
  <2>2. CASE DisposeBrowserContext(c)
    <3>1. pc'[c] = "orphans"
      BY <2>2, <1>t DEF DisposeBrowserContext
    <3> QED
      BY <3>1 DEF Removes
  <2>3. CASE context' = context
    BY <2>3, <1>1 DEF LiveTargets
  <2>4. CASE \E cx \in Conns \cup {Default}, u \in Targets : CreateTarget(c, cx, u)
    <3> PICK cx \in Conns \cup {Default}, u \in Targets : CreateTarget(c, cx, u)
      BY <2>4
    <3>1. CASE Refused(c)
      BY <3>1, <2>3 DEF Refused
    <3>2. CASE Creates(c, cx, u)
      <4>1. LiveTargets' = LiveTargets \cup {u}
        BY <3>2, TargetNamesAssumption DEF LiveTargets, Ranges, Creates
      <4> QED
        BY <4>1, <1>1
    <3> QED
      BY <3>1, <3>2, CreateEffect
  <2>5. CASE \E u \in entry[c].attached, wait \in BOOLEAN : AttachChild(c, u, wait)
    BY <2>5, <2>3, ChildEffect
  <2> QED
    BY <2>1, <2>2, <2>3, <2>4, <2>5 DEF Step, Request, Proceed, Send, Open, Release, Other,
         CreateBrowserContext,
       SetAutoAttach, DisableAutoAttach, DetachChild, SetDiscoverTargets, RunIfWaitingForDebugger,
       Forget, CommitInitialBlank,
       TakeOrphanedPaused, Reconcile, DetachNext, Prune, registryVars, EnableAutoAttach, AttachMissing
<1>2. CASE t \notin LiveTargets
  <2>1. PICK d \in Conns : Removes(d, t)
    BY <1>0, <1>2 DEF Outlived
  <2>2. CASE d # c
    <3>1. pc'[d] = pc[d] /\ job'[d] = job[d]
      BY <2>2, <1>f
    <3>2. Removes(d, t)'
      BY <2>1, <3>1 DEF Removes
    <3> QED
      BY <3>2
  <2>3. CASE d = c
    <3>1. CASE pc[c] = "forget" /\ t \in job[c].ids
      BY <3>1, Where DEF Forget
    <3>2. CASE pc[c] = "orphans"
      <4> DEFINE ids == {TargetOf(s) : s \in Orphaned}
      <4>1. /\ pc'[c] = IF Orphaned = {} THEN "prune" ELSE "commit"
            /\ job' = [job EXCEPT ![c] = [job[c] EXCEPT !.ids = ids, !.next = "prune"]]
        BY <3>2, <1>t, Where DEF TakeOrphanedPaused
      <4> HIDE DEF ids
      <4>2. job'[c].next = "prune"
        BY <4>1, <1>t DEF Jobs
      <4>3. Removes(c, t)'
        BY <4>1, <4>2 DEF Removes
      <4> QED
        BY <4>3
    <3>3. CASE pc[c] = "prune"
      BY <3>3, Where DEF Prune, LiveTargets, registryVars
    <3>4. CASE pc[c] = "commit"
      BY <3>4, Where DEF CommitInitialBlank, LiveTargets, registryVars
    <3> QED
      BY <2>1, <2>3, <3>1, <3>2, <3>3, <3>4 DEF Removes
  <2> QED
    BY <2>2, <2>3
<1> QED
  BY <1>1, <1>2

\* Where a task is about to look for orphaned stops, or will come there.
Ends == {"ended", "detach", "dispose", "orphans"}

\* The step that leaves a stop without its session leaves its own task on the way to
\* take_orphaned_paused, and who takes the stop is on the way to commit the target.
LEMMA WaitsKept ==
  ASSUME Ranges, Caps, Stages, Early, Records, Held, NobodyWaitsForever, NEW c \in Conns, Step(c)
  PROVE  NobodyWaitsForever'
<1>t. pc \in [Conns -> PCs] /\ job \in [Conns -> Jobs] /\ job[c] \in Jobs /\ paused \subseteq Sessions
  BY DEF Ranges
<1>f. \A d \in Conns \ {c} : pc'[d] = pc[d] /\ job'[d] = job[d]
  BY Frame
<1>w. (\A s \in paused \ live : pc[s[1]] \in Ends) /\
      \A t \in LiveTargets \ documents : (\E s \in paused : TargetOf(s) = t) \/
        \E d \in Conns : pc[d] = "commit" /\ t \in job[d].ids
  BY DEF NobodyWaitsForever, Ends
<1>n. \A s \in paused' \ paused : s \in live'
  <2>1. CASE Adds(c)
    BY <2>1 DEF Adds, Creates, Stop
  <2>2. CASE Swaps(c)
    BY <2>2 DEF Swaps
  <2> QED
    BY <2>1, <2>2, StopEffect
<1>1. \A s \in paused' \ live' : pc'[s[1]] \in Ends
  <2> SUFFICES ASSUME NEW s \in paused', s \notin live' PROVE pc'[s[1]] \in Ends
    OBVIOUS
  <2>0. s \in paused /\ s[1] \in Conns
    BY <1>n, <1>t DEF Sessions
  <2>1. CASE s \in live
    <3>1. pc'[c] \in Ends
      BY <2>0, <2>1, EndEffect DEF Ends
    <3>2. s[1] = c
      <4>1. CASE Grows(c)
        BY <2>1, <4>1 DEF Grows
      <4>2. CASE Shrinks(c)
        BY <2>1, <4>2 DEF Shrinks
      <4>3. CASE \E ts : RemoveTargets(ts)
        BY <2>1, <4>3 DEF RemoveTargets
      <4> QED
        BY <4>1, <4>2, <4>3, LiveEffect
    <3> QED
      BY <3>1, <3>2
  <2>2. CASE s \notin live
    <3>1. pc[s[1]] \in Ends
      BY <2>0, <2>2, <1>w
    <3>2. CASE s[1] # c
      BY <2>0, <3>1, <3>2, <1>f
    <3>3. CASE s[1] = c
      <4>1. CASE pc[c] \in {"ended", "orphans"}
        <5>1. paused' = paused \ Orphaned
          BY <4>1, Where DEF TakeOrphanedPaused
        <5> QED
          BY <5>1, <2>0, <2>2 DEF Orphaned
      <4>2. CASE pc[c] = "detach"
        <5>1. pc'[c] \in {"detach", "dispose"}
          BY <4>2, Where, <1>t DEF DetachNext
        <5> QED
          BY <5>1, <3>3 DEF Ends
      <4>3. CASE pc[c] = "dispose"
        <5>1. pc'[c] = "orphans"
          BY <4>3, Where, <1>t DEF DisposeBrowserContext
        <5> QED
          BY <5>1, <3>3 DEF Ends
      <4> QED
        BY <3>1, <3>3, <4>1, <4>2, <4>3 DEF Ends
    <3> QED
      BY <3>2, <3>3
  <2> QED
    BY <2>1, <2>2
<1>2. ASSUME NEW t \in LiveTargets', t \notin documents'
      PROVE  (\E s \in paused' : TargetOf(s) = t) \/ \E d \in Conns : pc'[d] = "commit" /\ t \in job'[d].ids
  <2>1. CASE t \notin LiveTargets
    <3>1. Adds(c)
      BY <1>2, <2>1, LiveMoves
    <3> PICK cx \in Conns \cup {Default}, u \in Targets : Creates(c, cx, u) /\
          LiveTargets' = LiveTargets \cup {u}
      BY <3>1 DEF Adds
    <3>2. t = u
      BY <1>2, <2>1
    <3>3. CASE Stop(c, u) = {}
      <4>1. pc'[c] = "commit" /\ job'[c].ids = {u}
        BY <3>3, <1>t DEF Creates, Handled, NoJob
      <4> QED
        BY <3>2, <4>1
    <3>4. CASE Stop(c, u) # {}
      <4>1. Root(c, entry[c].auto, u) \in Stop(c, u)
        BY <3>4 DEF Stop, New
      <4>2. Root(c, entry[c].auto, u) \in paused'
        BY <4>1 DEF Creates
      <4> QED
        BY <3>2, <4>2, Names
    <3> QED
      BY <3>3, <3>4
  <2>2. CASE t \in LiveTargets
    <3>0. t \notin documents
      BY <1>2, <2>2, EndEffect
    <3>1. CASE \E s \in paused : TargetOf(s) = t
      <4> PICK s \in paused : TargetOf(s) = t
        BY <3>1
      <4>1. CASE Adds(c)
        <5>1. s \in paused'
          BY <4>1 DEF Adds, Creates
        <5> QED
          BY <5>1
      <4>2. CASE Swaps(c)
        <5> PICK u \in Targets : paused' = (paused \ {TabOf(c, u)}) \cup {Child(c, u)}
          BY <4>2 DEF Swaps
        <5>1. CASE s = TabOf(c, u)
          <6>1. TargetOf(Child(c, u)) = t /\ Child(c, u) \in paused'
            BY <5>1, Names
          <6> QED
            BY <6>1
        <5>2. CASE s # TabOf(c, u)
          <6>1. s \in paused'
            BY <5>2
          <6> QED
            BY <6>1
        <5> QED
          BY <5>1, <5>2
      <4>3. CASE Drops(c)
        BY <1>2, <4>3 DEF Drops
      <4> QED
        BY <4>1, <4>2, <4>3, StopEffect
    <3>2. CASE \E d \in Conns : pc[d] = "commit" /\ t \in job[d].ids
      <4> PICK d \in Conns : pc[d] = "commit" /\ t \in job[d].ids
        BY <3>2
      <4>1. CASE d # c
        BY <4>1, <1>f
      <4>2. CASE d = c
        <5>1. PICK u \in job[c].ids : CommitInitialBlank(c, u)
          BY <4>2, Where
        <5>2. documents' = (documents \cup {u}) \cap LiveTargets /\ job'[c].ids = job[c].ids \ {u}
              /\ pc'[c] = IF job[c].ids = {u} THEN job[c].next ELSE "commit"
          BY <5>1, <1>t DEF CommitInitialBlank, Jobs
        <5>3. t # u
          BY <1>2, <2>2, <5>2
        <5>4. pc'[c] = "commit" /\ t \in job'[c].ids
          BY <4>2, <5>2, <5>3
        <5> QED
          BY <5>4
      <4> QED
        BY <4>1, <4>2
    <3> QED
      BY <2>2, <3>0, <3>1, <3>2, <1>w
  <2> QED
    BY <2>1, <2>2
<1> QED
  BY <1>1, <1>2 DEF NobodyWaitsForever, Ends

\* No connection, no target.
LEMMA Initially == Init => IInv
<1> SUFFICES ASSUME Init PROVE IInv
  OBVIOUS
<1>1. LiveTargets = {}
  BY DEF Init, LiveTargets
<1>2. NewEntry \in Entries /\ NoJob \in Jobs /\
        Nothing \in [sessions : SUBSET Sessions, ghosts : SUBSET Sessions, notices : SUBSET Notices]
  BY DEF NewEntry, Entries, Kinds, NoJob, Jobs, Nothing
<1>3. <<>> \in Seq(Events) /\ Len(<<>>) = 0
  OBVIOUS
<1>4. Ranges
  BY <1>2, <1>3 DEF Init, Ranges, PCs
<1>5. Caps
  <2>1. IsFiniteSet({}) /\ Cardinality({}) = 0
    BY FS_EmptySet
  <2> QED
    BY <1>1, <2>1, TargetBoundsAssumption DEF Init, Caps
<1>6. Stages /\ Records
  BY <1>1 DEF Init, Stages, Records, NoJob, NewEntry
<1>7. Early
  <2>1. \A c \in Conns : job[c].early = 0 /\ reply[c] = <<>>
    BY DEF Init, NoJob
  <2>2. \A c \in Conns : job[c].early <= Len(reply[c])
    <3> TAKE c \in Conns
    <3>1. job[c].early = 0 /\ Len(reply[c]) = 0
      BY <2>1, <1>3
    <3> QED
      BY <3>1
  <2> QED
    BY <2>2 DEF Early
<1>8. Tabs /\ Held /\ Owned /\ Stops /\ Outlived /\ NobodyWaitsForever
  BY <1>1 DEF Init, Tabs, Held, Owned, Stops, Outlived, NobodyWaitsForever
<1> QED
  BY <1>4, <1>5, <1>6, <1>7, <1>8 DEF IInv

\* Every part is kept by every step of every connection.
LEMMA StepKept ==
  ASSUME IInv, NEW c \in Conns, Step(c)
  PROVE  IInv'
BY StepRanges, CapsKept, StagesKept, HeldKept, OwnedKept, StopsKept, OutlivedKept, WaitsKept DEF IInv

\* Nothing is said but of the variables.
LEMMA Stutter == IInv /\ UNCHANGED vars => IInv'
<1> SUFFICES ASSUME IInv, UNCHANGED vars PROVE IInv'
  OBVIOUS
<1>u. UNCHANGED <<context, live, paused, contexts, documents, entry, pc, job, reply, told>>
  BY DEF vars, registryVars
<1>l. LiveTargets' = LiveTargets
  BY <1>u DEF LiveTargets
<1>1. Ranges' /\ Caps' /\ Stages' /\ Early' /\ Records' /\ Tabs'
  BY <1>u, <1>l DEF IInv, Ranges, Caps, Stages, Early, Records, Tabs, Over
<1>2. Held' /\ Owned' /\ Stops' /\ Outlived' /\ NobodyWaitsForever'
  BY <1>u, <1>l DEF IInv, Held, Holds, SessionsOf, Owned, Over, Stops, Outlived, Removes, NobodyWaitsForever
<1> QED
  BY <1>1, <1>2 DEF IInv

\* The inductive invariant: the tables, the records and the tasks of any number of
\* connections fit together after every step.
THEOREM Invariance == Spec => []IInv
<1>1. IInv /\ [Next]_vars => IInv'
  BY StepKept, Stutter DEF Next, Step
<1> QED
  BY Initially, <1>1, PTL DEF Spec

\* TypeOK: whatever the clients ask for, and whoever goes away meanwhile, no table
\* grows over its limit (the check of the limit and the entry are under one lock of the
\* registry), and a record's children are among its tabs.
THEOREM TypeCorrect == Spec => []TypeOK
<1>1. IInv => TypeOK
  <2> SUFFICES ASSUME IInv PROVE TypeOK
    OBVIOUS
  <2>1. \A c \in Conns : /\ DOMAIN entry[c] = DOMAIN NewEntry
                         /\ entry[c].attached \subseteq Targets
                         /\ entry[c].auto \in Kinds /\ entry[c].discover \in Kinds
                         /\ entry[c].gone \subseteq Sessions /\ entry[c].discovered \subseteq Notices
    <3> TAKE c \in Conns
    <3>1. entry[c] \in Entries
      BY DEF IInv, Ranges
    <3>2. DOMAIN entry[c] = DOMAIN NewEntry
      BY <3>1 DEF Entries, NewEntry
    <3> QED
      BY <3>1, <3>2 DEF Entries
  <2>2. \A c \in Conns : /\ told[c].sessions \subseteq Sessions /\ told[c].ghosts \subseteq Sessions
                         /\ told[c].notices \subseteq Notices
    BY DEF IInv, Ranges
  <2>3. \A c \in Conns : entry[c].children \subseteq entry[c].attached
    BY DEF IInv, Records
  <2>4. \A c \in Conns : job[c].ids \subseteq (IF pc[c] = "detach" THEN Sessions ELSE Targets)
    BY DEF IInv, Stages
  <2> QED
    BY <2>1, <2>2, <2>3, <2>4 DEF TypeOK, IInv, Ranges, Caps
<1> QED
  BY Invariance, <1>1, PTL

\* NothingLeaks: sessions, contexts, stops and navigation states do not outlive what
\* they are for, in whatever order targets are closed, sessions detached and connections
\* released; what MAX_SESSIONS counts is always somebody's to give back.
THEOREM NothingIsLeaked == Spec => []NothingLeaks
<1>1. IInv => NothingLeaks
  BY DEF IInv, NothingLeaks, Held, Owned, Over, Stops, Outlived
<1> QED
  BY Invariance, <1>1, PTL

\* NobodyWaitsForever: a stop whose session went away, with its connection, its tab or
\* the child that took it over, is found by take_orphaned_paused of a task on its way
\* there, and the target gets its first document.
THEOREM NobodyWaits == Spec => []NobodyWaitsForever
<1>1. IInv => NobodyWaitsForever
  BY DEF IInv
<1> QED
  BY Invariance, <1>1, PTL

-----------------------------------------------------------------------------
(* Where the elements of a list come from *)

\* Of some places, a later one counts more of them up to itself.
LEMMA RankGrows ==
  ASSUME NEW n \in Nat, NEW I \in SUBSET (1 .. n)
  PROVE  /\ \A i \in I : Cardinality({j \in I : j <= i}) \in 1 .. Cardinality(I)
         /\ \A i, l \in I : i < l => Cardinality({j \in I : j <= i}) < Cardinality({j \in I : j <= l})
<1>f. IsFiniteSet(I) /\ Cardinality(I) \in Nat
  BY FiniteIndices
<1>i. \A i \in I : i \in Int
  OBVIOUS
<1>1. \A i \in I : IsFiniteSet({j \in I : j <= i}) /\
                     Cardinality({j \in I : j <= i}) \in 1 .. Cardinality(I)
  <2> SUFFICES ASSUME NEW i \in I
               PROVE  IsFiniteSet({j \in I : j <= i}) /\
                        Cardinality({j \in I : j <= i}) \in 1 .. Cardinality(I)
    OBVIOUS
  <2> DEFINE S == {j \in I : j <= i}
             N == Cardinality(I)
  <2>1. S \in SUBSET I /\ i \in S
    OBVIOUS
  <2>2. IsFiniteSet(S) /\ Cardinality(S) <= N /\ Cardinality(S) \in Nat
    BY <1>f, <2>1, FS_Subset, FS_CardinalityType
  <2>3. Cardinality(S) # 0
    BY <2>1, <2>2, FS_EmptySet
  <2>4. N \in Nat
    BY <1>f
  <2> HIDE DEF S, N
  <2>5. IsFiniteSet(S) /\ Cardinality(S) \in 1 .. N
    BY <2>2, <2>3, <2>4
  <2> QED
    BY <2>5 DEF S, N
<1>2. ASSUME NEW i \in I, NEW l \in I, i < l
      PROVE  Cardinality({j \in I : j <= i}) < Cardinality({j \in I : j <= l})
  <2> DEFINE S == {j \in I : j <= i}
             T == {j \in I : j <= l}
  <2>1. S \in SUBSET T /\ l \in T /\ l \notin S
    <3>1. i \in Int /\ l \in Int /\ \A j \in I : j \in Int
      BY <1>i
    <3>2. \A j \in I : j <= i => j <= l
      BY <3>1, <1>2
    <3>3. ~ (l <= i) /\ l <= l
      BY <3>1, <1>2
    <3> QED
      BY <3>2, <3>3
  <2>2. Cardinality(S) <= Cardinality(T) /\ Cardinality(S) # Cardinality(T)
    BY <1>1, <2>1, FS_Subset
  <2>3. Cardinality(S) \in Nat /\ Cardinality(T) \in Nat
    BY <1>1, FS_CardinalityType
  <2> QED
    BY <2>2, <2>3
<1> QED
  BY <1>1, <1>2

\* Kept lists exactly the elements at the given places, in their order.
LEMMA KeptOrder ==
  ASSUME NEW E, NEW s \in Seq(E), NEW I \in SUBSET (DOMAIN s)
  PROVE  /\ Range(Kept(s, I)) = {s[i] : i \in I}
         /\ \A k, l \in DOMAIN Kept(s, I) : k < l =>
              \E i, j \in I : i < j /\ Kept(s, I)[k] = s[i] /\ Kept(s, I)[l] = s[j]
<1> DEFINE n == Len(s)
           N == Cardinality(I)
           rank(i) == Cardinality({j \in I : j <= i})
           f(k) == CHOOSE i \in I : rank(i) = k
<1>1. n \in Nat /\ I \in SUBSET (1 .. n)
  OBVIOUS
<1>2. \A k \in 1 .. N : \E i \in I : rank(i) = k
  <2> HIDE DEF n
  <2> QED
    BY <1>1, RankOnto
<1>3. \A k \in 1 .. N : f(k) \in I /\ rank(f(k)) = k
  <2> HIDE DEF rank, N
  <2> QED
    BY <1>2
<1>4. \A i \in I : rank(i) \in 1 .. N
  <2> HIDE DEF n
  <2> QED
    BY <1>1, RankGrows
<1>5. \A i, l \in I : i < l => rank(i) < rank(l)
  <2> HIDE DEF n
  <2> QED
    BY <1>1, RankGrows
<1>6. \A i \in I : i \in Int
  BY <1>1
<1>7. N \in Nat
  <2> HIDE DEF n
  <2> QED
    BY <1>1, FiniteIndices
<1>8. Kept(s, I) = [k \in 1 .. N |-> s[f(k)]]
  BY DEF Kept
<1> HIDE DEF n, N, f, rank
<1>9. \A i \in I : f(rank(i)) = i
  <2> SUFFICES ASSUME NEW i \in I PROVE f(rank(i)) = i
    OBVIOUS
  <2>1. f(rank(i)) \in I /\ rank(f(rank(i))) = rank(i) /\ rank(i) \in 1 .. N
    BY <1>3, <1>4
  <2> QED
    BY <2>1, <1>5, <1>6, <1>7
<1>10. \A k, l \in 1 .. N : k < l => f(k) < f(l)
  <2> SUFFICES ASSUME NEW k \in 1 .. N, NEW l \in 1 .. N, k < l PROVE f(k) < f(l)
    OBVIOUS
  <2>1. f(k) \in I /\ f(l) \in I /\ rank(f(k)) = k /\ rank(f(l)) = l
    BY <1>3
  <2> QED
    BY <2>1, <1>5, <1>6, <1>7
<1>11. Range(Kept(s, I)) = {s[i] : i \in I}
  <2>1. Range(Kept(s, I)) = {s[f(k)] : k \in 1 .. N}
    BY <1>8 DEF Range
  <2>2. \A k \in 1 .. N : s[f(k)] \in {s[i] : i \in I}
    BY <1>3
  <2>3. \A i \in I : \E k \in 1 .. N : s[i] = s[f(k)]
    BY <1>4, <1>9
  <2> QED
    BY <2>1, <2>2, <2>3
<1>12. ASSUME NEW k \in DOMAIN Kept(s, I), NEW l \in DOMAIN Kept(s, I), k < l
       PROVE  \E i, j \in I : i < j /\ Kept(s, I)[k] = s[i] /\ Kept(s, I)[l] = s[j]
  <2>1. k \in 1 .. N /\ l \in 1 .. N
    BY <1>8
  <2>2. f(k) \in I /\ f(l) \in I /\ f(k) < f(l)
    BY <2>1, <1>3, <1>10, <1>12
  <2>3. Kept(s, I)[k] = s[f(k)] /\ Kept(s, I)[l] = s[f(l)]
    BY <2>1, <1>8
  <2> QED
    BY <2>2, <2>3
<1> QED
  BY <1>11, <1>12

-----------------------------------------------------------------------------
(* The order of notices *)

\* Two notices of a reply of which the second may not follow the first.
Clash(x, y) ==
  \/ x = y
  \/ x.method = "destroyed" /\ y.method = "detached" /\ TargetOf(y.what) = x.what[2]
  \/ x.method = "destroyed" /\ y.method = "created" /\ x.what = y.what
  \/ x.method = "attached" /\ y.method = "created" /\ TargetOf(x.what) = y.what[2]
  \/ /\ x.method = "detached" /\ y.method = "detached"
     /\ TargetOf(x.what) = TargetOf(y.what) /\ x.what[2] = "tab" /\ y.what[2] = "child"

\* No notice of the reply comes too late.
Fine(r) == \A i, j \in DOMAIN r : i < j => ~ Clash(r[i], r[j])

\* None of the notices ys may not follow one of xs.
Clear(xs, ys) == \A x \in xs, y \in ys : ~ Clash(x, y)

\* What is said in a sequence of two parts, and when it is in order.
LEMMA Joined ==
  ASSUME NEW E, NEW r \in Seq(E), NEW s \in Seq(E)
  PROVE  /\ r \o s \in Seq(E)
         /\ Range(r \o s) = Range(r) \cup Range(s)
         /\ Fine(r \o s) <=> Fine(r) /\ Fine(s) /\ Clear(Range(r), Range(s))
<1> DEFINE m == Len(r)
           n == Len(s)
           w == r \o s
<1>1. /\ m \in Nat /\ n \in Nat /\ w \in Seq(E)
      /\ DOMAIN w = 1 .. m + n /\ DOMAIN r = 1 .. m /\ DOMAIN s = 1 .. n
  OBVIOUS
<1>2. /\ \A i \in 1 .. m : i \in 1 .. m + n /\ w[i] = r[i]
      /\ \A j \in 1 .. n : m + j \in 1 .. m + n /\ w[m + j] = s[j]
  OBVIOUS
<1> HIDE DEF m, n, w
<1>3. \A i \in 1 .. m + n : i \in 1 .. m \/ (i - m \in 1 .. n /\ i = m + (i - m))
  BY <1>1
<1>4. Range(w) = Range(r) \cup Range(s)
  <2>1. \A i \in DOMAIN w : w[i] \in Range(r) \cup Range(s)
    BY <1>1, <1>2, <1>3 DEF Range
  <2>2. \A i \in DOMAIN r : r[i] \in Range(w)
    BY <1>1, <1>2 DEF Range
  <2>3. \A j \in DOMAIN s : s[j] \in Range(w)
    BY <1>1, <1>2 DEF Range
  <2> QED
    BY <2>1, <2>2, <2>3 DEF Range
<1>5. ASSUME Fine(w) PROVE Fine(r) /\ Fine(s) /\ Clear(Range(r), Range(s))
  <2>1. Fine(r)
    BY <1>1, <1>2, <1>5 DEF Fine
  <2>2. Fine(s)
    <3> SUFFICES ASSUME NEW i \in DOMAIN s, NEW j \in DOMAIN s, i < j PROVE ~ Clash(s[i], s[j])
      BY DEF Fine
    <3>1. m + i < m + j /\ m + i \in DOMAIN w /\ m + j \in DOMAIN w /\ w[m + i] = s[i] /\ w[m + j] = s[j]
      BY <1>1, <1>2
    <3> QED
      BY <3>1, <1>5 DEF Fine
  <2>3. ASSUME NEW i \in DOMAIN r, NEW j \in DOMAIN s PROVE ~ Clash(r[i], s[j])
    <3>1. i < m + j /\ i \in DOMAIN w /\ m + j \in DOMAIN w /\ w[i] = r[i] /\ w[m + j] = s[j]
      BY <1>1, <1>2
    <3> QED
      BY <3>1, <1>5 DEF Fine
  <2> QED
    BY <2>1, <2>2, <2>3 DEF Clear, Range
<1>6. ASSUME Fine(r), Fine(s), Clear(Range(r), Range(s)) PROVE Fine(w)
  <2> SUFFICES ASSUME NEW i \in DOMAIN w, NEW j \in DOMAIN w, i < j PROVE ~ Clash(w[i], w[j])
    BY DEF Fine
  <2>1. CASE i \in 1 .. m /\ j \in 1 .. m
    BY <2>1, <1>1, <1>2, <1>6 DEF Fine
  <2>2. CASE i \in 1 .. m /\ j - m \in 1 .. n
    <3>1. w[i] = r[i] /\ w[j] = s[j - m]
      BY <2>2, <1>1, <1>2, <1>3
    <3>2. w[i] \in Range(r) /\ w[j] \in Range(s)
      BY <3>1, <2>2, <1>1 DEF Range
    <3> QED
      BY <3>2, <1>6 DEF Clear
  <2>3. CASE i - m \in 1 .. n /\ j - m \in 1 .. n
    <3>1. w[i] = s[i - m] /\ w[j] = s[j - m] /\ i - m < j - m
      BY <2>3, <1>1, <1>2, <1>3
    <3> QED
      BY <3>1, <2>3, <1>1, <1>6 DEF Fine
  <2>4. i \in 1 .. m \/ i - m \in 1 .. n
    BY <1>1, <1>3
  <2>5. j \in 1 .. m \/ j - m \in 1 .. n
    BY <1>1, <1>3
  <2>6. ~ (i - m \in 1 .. n /\ j \in 1 .. m)
    BY <1>1
  <2> QED
    BY <2>1, <2>2, <2>3, <2>4, <2>5, <2>6
<1> QED
  BY <1>1, <1>4, <1>5, <1>6 DEF w

\* A reply without notices is in order.
LEMMA EmptyFine == Range(<<>>) = {} /\ Fine(<<>>)
BY DEF Range, Fine

\* A sequence is its front and the rest.
LEMMA Cut ==
  ASSUME NEW E, NEW r \in Seq(E), NEW i \in 1 .. Len(r) + 1
  PROVE  /\ SubSeq(r, 1, i - 1) \in Seq(E) /\ SubSeq(r, i, Len(r)) \in Seq(E)
         /\ r = SubSeq(r, 1, i - 1) \o SubSeq(r, i, Len(r))
         /\ \A x : x \in Range(SubSeq(r, 1, i - 1)) <=> \E k \in DOMAIN r : k < i /\ x = r[k]
         /\ \A x : x \in Range(SubSeq(r, i, Len(r))) <=> \E k \in DOMAIN r : i <= k /\ x = r[k]
<1> DEFINE n == Len(r)
           a == SubSeq(r, 1, i - 1)
           b == SubSeq(r, i, Len(r))
<1>1. n \in Nat /\ DOMAIN r = 1 .. n /\ i \in 1 .. n + 1
  OBVIOUS
<1>2. a \in Seq(E) /\ Len(a) = i - 1 /\ DOMAIN a = 1 .. i - 1 /\ \A k \in 1 .. i - 1 : a[k] = r[k]
  OBVIOUS
<1>3. /\ b \in Seq(E) /\ Len(b) = n - i + 1 /\ DOMAIN b = 1 .. n - i + 1
      /\ \A k \in 1 .. n - i + 1 : b[k] = r[i + k - 1]
  OBVIOUS
<1>4. Len(a \o b) = n /\ a \o b \in Seq(E)
  <2> HIDE DEF a, b, n
  <2>1. a \in Seq(E) /\ b \in Seq(E)
    BY <1>2, <1>3
  <2>2. a \o b \in Seq(E) /\ Len(a \o b) = Len(a) + Len(b)
    BY <2>1, ConcatProperties
  <2>3. Len(a) = i - 1 /\ Len(b) = n - i + 1 /\ n \in Nat /\ i \in Int
    BY <1>1, <1>2, <1>3
  <2> QED
    BY <2>2, <2>3
<1>5. \A k \in 1 .. n : (a \o b)[k] = r[k]
  <2> SUFFICES ASSUME NEW k \in 1 .. n PROVE (a \o b)[k] = r[k]
    OBVIOUS
  <2> HIDE DEF a, b, n
  <2>1. CASE k <= i - 1
    BY <2>1, <1>1, <1>2, <1>3
  <2>2. CASE ~ (k <= i - 1)
    <3>1. (a \o b)[k] = b[k - (i - 1)]
      BY <2>2, <1>1, <1>2, <1>3
    <3>2. k - (i - 1) \in 1 .. n - i + 1 /\ i + (k - (i - 1)) - 1 = k
      BY <2>2, <1>1
    <3> QED
      BY <3>1, <3>2, <1>3
  <2> QED
    BY <2>1, <2>2
<1> HIDE DEF a, b
<1>6. r = a \o b
  BY <1>4, <1>5, SeqEqual DEF n
<1>7. \A x : x \in Range(a) <=> \E k \in DOMAIN r : k < i /\ x = r[k]
  <2>1. \A j \in 1 .. i - 1 : j \in DOMAIN r /\ j < i
    BY <1>1
  <2>2. \A j \in DOMAIN r : j < i => j \in 1 .. i - 1
    BY <1>1
  <2> QED
    BY <2>1, <2>2, <1>2 DEF Range
<1>8. \A x : x \in Range(b) <=> \E k \in DOMAIN r : i <= k /\ x = r[k]
  <2>1. \A j \in 1 .. n - i + 1 : i + j - 1 \in DOMAIN r /\ i <= i + j - 1
    BY <1>1
  <2>2. \A j \in DOMAIN r : i <= j => j - i + 1 \in 1 .. n - i + 1 /\ i + (j - i + 1) - 1 = j
    BY <1>1
  <2>3. \A j \in DOMAIN b : \E k \in DOMAIN r : i <= k /\ b[j] = r[k]
    BY <2>1, <1>3
  <2>4. \A l \in DOMAIN r : i <= l => \E j \in DOMAIN b : b[j] = r[l]
    BY <2>2, <1>3
  <2> QED
    BY <2>3, <2>4 DEF Range
<1> QED
  BY <1>2, <1>3, <1>6, <1>7, <1>8 DEF a, b

\* Where FirstOf points: before the first event of those methods, or to the end.
LEMMA FirstFound ==
  ASSUME NEW es \in Seq(Events), NEW ms
  PROVE  /\ FirstOf(es, ms) \in 1 .. Len(es) + 1
         /\ \A j \in DOMAIN es : j < FirstOf(es, ms) => es[j].method \notin ms
         /\ FirstOf(es, ms) \in DOMAIN es => es[FirstOf(es, ms)].method \in ms
<1> DEFINE w == es \o <<Event("end", None)>>
           I == {i \in 1 .. Len(w) : w[i].method \in ms \cup {"end"}}
           n == Len(es)
<1>1. n \in Nat /\ DOMAIN es = 1 .. n /\ Len(w) = n + 1 /\ w[n + 1] = Event("end", None)
      /\ \A i \in 1 .. n : w[i] = es[i]
  OBVIOUS
<1>2. n + 1 \in I
  BY <1>1 DEF Event
<1>3. \A i \in 1 .. n : es[i].method # "end"
  <2> SUFFICES ASSUME NEW i \in 1 .. n PROVE es[i].method # "end"
    OBVIOUS
  <2>1. es[i] \in Events
    OBVIOUS
  <2> QED
    BY <2>1 DEF Events, SessionEvents, NoticeEvents
<1>4. \A i \in 1 .. n : i \in I <=> es[i].method \in ms
  BY <1>1, <1>3
<1>5. \A i \in I : i \in 1 .. n + 1
  BY <1>1
<1>6. FirstOf(es, ms) = Min(I)
  BY <1>2 DEF FirstOf, SelectInSeq
<1> HIDE DEF I, w, n
<1>7. I \in SUBSET Nat /\ I # {}
  BY <1>1, <1>2, <1>5
<1>8. \E k \in I : \A m \in I : k <= m
  BY <1>7, Least
<1>9. Min(I) \in I /\ \A m \in I : Min(I) <= m
  BY <1>8 DEF Min
<1>10. \A j \in 1 .. n : j < Min(I) => j \notin I
  BY <1>1, <1>5, <1>9
<1>11. FirstOf(es, ms) \in 1 .. n + 1
  BY <1>5, <1>6, <1>9
<1> QED
  BY <1>1, <1>4, <1>6, <1>9, <1>10, <1>11 DEF n

\* Putting events in at a place.
LEMMA Spliced ==
  ASSUME NEW es \in Seq(Events), NEW xs \in Seq(Events), NEW i \in 1 .. Len(es) + 1
  PROVE  /\ SpliceAt(es, i, xs) \in Seq(Events)
         /\ Range(SpliceAt(es, i, xs)) = Range(es) \cup Range(xs)
         /\ (/\ Fine(es) /\ Fine(xs)
             /\ \A k \in DOMAIN es, x \in Range(xs) :
                  IF k < i THEN ~ Clash(es[k], x) ELSE ~ Clash(x, es[k]))
            => Fine(SpliceAt(es, i, xs))
<1> DEFINE a == SubSeq(es, 1, i - 1)
           b == SubSeq(es, i, Len(es))
<1>1. a \in Seq(Events) /\ b \in Seq(Events) /\ es = a \o b
      /\ (\A x : x \in Range(a) <=> \E k \in DOMAIN es : k < i /\ x = es[k])
      /\ (\A x : x \in Range(b) <=> \E k \in DOMAIN es : i <= k /\ x = es[k])
  BY Cut
<1>2. SpliceAt(es, i, xs) = (a \o xs) \o b
  BY DEF SpliceAt
<1>i. i \in Int /\ \A k \in DOMAIN es : k \in Int
  OBVIOUS
<1> HIDE DEF a, b
<1>3. a \o xs \in Seq(Events) /\ Range(a \o xs) = Range(a) \cup Range(xs)
      /\ (Fine(a \o xs) <=> Fine(a) /\ Fine(xs) /\ Clear(Range(a), Range(xs)))
  BY <1>1, Joined
<1>4. (a \o xs) \o b \in Seq(Events) /\ Range((a \o xs) \o b) = Range(a \o xs) \cup Range(b)
      /\ (Fine((a \o xs) \o b) <=> Fine(a \o xs) /\ Fine(b) /\ Clear(Range(a \o xs), Range(b)))
  <2> DEFINE w == a \o xs
  <2>1. w \in Seq(Events) /\ b \in Seq(Events)
    BY <1>1, <1>3
  <2> HIDE DEF w
  <2>2. w \o b \in Seq(Events) /\ Range(w \o b) = Range(w) \cup Range(b)
        /\ (Fine(w \o b) <=> Fine(w) /\ Fine(b) /\ Clear(Range(w), Range(b)))
    BY <2>1, Joined
  <2> QED
    BY <2>2 DEF w
<1>5. Range(es) = Range(a) \cup Range(b) /\ (Fine(es) <=> Fine(a) /\ Fine(b) /\ Clear(Range(a), Range(b)))
  BY <1>1, Joined
<1>6. ASSUME Fine(es), Fine(xs),
             \A k \in DOMAIN es, x \in Range(xs) : IF k < i THEN ~ Clash(es[k], x) ELSE ~ Clash(x, es[k])
      PROVE  Fine(SpliceAt(es, i, xs))
  <2>1. Clear(Range(a), Range(xs))
    <3> SUFFICES ASSUME NEW y \in Range(a), NEW x \in Range(xs) PROVE ~ Clash(y, x)
      BY DEF Clear
    <3>1. PICK k \in DOMAIN es : k < i /\ y = es[k]
      BY <1>1
    <3> QED
      BY <3>1, <1>6
  <2>2. Clear(Range(xs), Range(b))
    <3>1. \A k \in DOMAIN es : i <= k => ~ (k < i)
      BY <1>i
    <3> QED
      BY <3>1, <1>1, <1>6 DEF Clear
  <2>3. Clear(Range(a \o xs), Range(b))
    BY <2>2, <1>3, <1>5, <1>6 DEF Clear
  <2> QED
    BY <2>1, <2>3, <1>2, <1>3, <1>4, <1>5, <1>6
<1>7. Range(SpliceAt(es, i, xs)) = Range(es) \cup Range(xs)
  BY <1>2, <1>3, <1>4, <1>5
<1> QED
  BY <1>2, <1>4, <1>6, <1>7

-----------------------------------------------------------------------------
(* What the lists of events say *)

\* Events about elements of a table.
LEMMA ListedEvents ==
  ASSUME NEW E, NEW s \in Seq(E), NEW m, NEW xs,
         \A i, j \in DOMAIN s : i < j => ~ Clash(Event(m, s[i]), Event(m, s[j]))
  PROVE  /\ Range(EventsOf(m, Listed(s, xs))) = {Event(m, x) : x \in xs \cap Range(s)}
         /\ Fine(EventsOf(m, Listed(s, xs)))
<1> DEFINE I == {i \in DOMAIN s : s[i] \in xs}
           k == Kept(s, I)
           r == EventsOf(m, k)
<1>1. I \in SUBSET (DOMAIN s)
  OBVIOUS
<1>2. /\ Range(k) = {s[i] : i \in I}
      /\ \A p, q \in DOMAIN k : p < q => \E i, j \in I : i < j /\ k[p] = s[i] /\ k[q] = s[j]
  <2> HIDE DEF I
  <2> QED
    BY <1>1, KeptOrder
<1>3. Range(k) = xs \cap Range(s)
  <2>1. {s[i] : i \in I} = xs \cap {s[i] : i \in DOMAIN s}
    OBVIOUS
  <2>2. Range(s) = {s[i] : i \in DOMAIN s}
    BY DEF Range
  <2> HIDE DEF I, k
  <2> QED
    BY <1>2, <2>1, <2>2
<1>4. Listed(s, xs) = k
  BY DEF Listed
<1> HIDE DEF k
<1>5. DOMAIN r = DOMAIN k /\ \A p \in DOMAIN k : r[p] = Event(m, k[p])
  BY DEF EventsOf
<1>6. Range(r) = {Event(m, x) : x \in Range(k)}
  BY <1>5 DEF Range
<1>7. Fine(r)
  <2> SUFFICES ASSUME NEW p \in DOMAIN k, NEW q \in DOMAIN k, p < q PROVE ~ Clash(r[p], r[q])
    BY <1>5 DEF Fine
  <2>1. PICK i \in I, j \in I : i < j /\ k[p] = s[i] /\ k[q] = s[j]
    BY <1>2
  <2>2. r[p] = Event(m, s[i]) /\ r[q] = Event(m, s[j])
    BY <2>1, <1>5
  <2> QED
    BY <2>1, <2>2
<1> HIDE DEF r
<1> QED
  BY <1>3, <1>4, <1>6, <1>7 DEF r

\* The sessions of one connection.
Of1(c) == {s \in Sessions : s[1] = c}

\* The table of its sessions has each once, and the child before its tab.
LEMMA SessionTable ==
  ASSUME NEW c \in Conns
  PROVE  /\ SessionsInOrder[c] \in Seq(Sessions)
         /\ Range(SessionsInOrder[c]) = Of1(c)
         /\ \A m, i, j : i \in DOMAIN SessionsInOrder[c] /\ j \in DOMAIN SessionsInOrder[c] /\ i < j =>
              ~ Clash(Event(m, SessionsInOrder[c][i]), Event(m, SessionsInOrder[c][j]))
<1> DEFINE n == 3 * MaxIds
           K == <<"page", "child", "tab">>
           a(i) == ((i - 1) % 3) + 1
           b(i) == ((i - 1) \div 3) + 1
           T == SessionsInOrder[c]
<1>1. n \in Nat /\ MaxIds \in Nat
  BY TargetBoundsAssumption
<1>2. \A i \in 1 .. n : a(i) \in 1 .. 3 /\ b(i) \in 1 .. MaxIds /\ i = 3 * (b(i) - 1) + a(i)
  BY TargetBoundsAssumption
<1>3. \A k \in 1 .. 3, t \in 1 .. MaxIds :
        3 * (t - 1) + k \in 1 .. n /\ a(3 * (t - 1) + k) = k /\ b(3 * (t - 1) + k) = t
  BY TargetBoundsAssumption
<1>4. T = [i \in 1 .. n |-> <<c, K[a(i)], b(i)>>]
  BY DEF SessionsInOrder
<1>5. /\ \A k \in 1 .. 3 : K[k] \in {"page", "tab", "child"}
      /\ \A x \in {"page", "tab", "child"} : \E k \in 1 .. 3 : K[k] = x
      /\ \A k, l \in 1 .. 3 : K[k] = K[l] => k = l
      /\ \A k, l \in 1 .. 3 : K[k] = "tab" /\ K[l] = "child" => l < k
  <2>1. K[1] = "page" /\ K[2] = "child" /\ K[3] = "tab"
    OBVIOUS
  <2> HIDE DEF K
  <2>2. \A k \in 1 .. 3 : k = 1 \/ k = 2 \/ k = 3
    OBVIOUS
  <2> QED
    BY <2>1, <2>2
<1> HIDE DEF n, K, a, b, T
<1>6. T \in [1 .. n -> Sessions]
  BY <1>2, <1>4, <1>5 DEF Sessions, Targets
<1>7. Range(T) = Of1(c)
  <2>1. \A i \in 1 .. n : T[i] \in Of1(c)
    BY <1>4, <1>6 DEF Of1
  <2>2. ASSUME NEW s \in Of1(c) PROVE \E i \in 1 .. n : T[i] = s
    <3>1. PICK k \in 1 .. 3 : K[k] = s[2]
      BY <1>5 DEF Of1, Sessions
    <3>2. s = <<c, K[k], s[3]>> /\ s[3] \in 1 .. MaxIds
      BY <3>1 DEF Of1, Sessions, Targets
    <3>3. T[3 * (s[3] - 1) + k] = <<c, K[k], s[3]>> /\ 3 * (s[3] - 1) + k \in 1 .. n
      BY <3>2, <1>3, <1>4
    <3> QED
      BY <3>2, <3>3
  <2> QED
    BY <2>1, <2>2, <1>4 DEF Range
<1>8. ASSUME NEW i \in 1 .. n, NEW j \in 1 .. n, i < j
      PROVE  /\ T[i] # T[j]
             /\ ~ (TargetOf(T[i]) = TargetOf(T[j]) /\ T[i][2] = "tab" /\ T[j][2] = "child")
  <2>1. T[i] = <<c, K[a(i)], b(i)>> /\ T[j] = <<c, K[a(j)], b(j)>>
    BY <1>4
  <2>2. a(i) \in 1 .. 3 /\ a(j) \in 1 .. 3 /\ b(i) \in Int /\ b(j) \in Int
        /\ i = 3 * (b(i) - 1) + a(i) /\ j = 3 * (b(j) - 1) + a(j)
    BY <1>2
  <2>3. b(i) = b(j) => a(i) < a(j)
    BY <2>2, <1>8
  <2>4. T[i] # T[j]
    BY <2>1, <2>2, <2>3, <1>5
  <2>5. ~ (TargetOf(T[i]) = TargetOf(T[j]) /\ T[i][2] = "tab" /\ T[j][2] = "child")
    <3> SUFFICES ASSUME b(i) = b(j), K[a(i)] = "tab", K[a(j)] = "child" PROVE FALSE
      BY <2>1 DEF TargetOf
    <3>1. a(i) < a(j) /\ a(j) < a(i)
      BY <2>2, <2>3, <1>5
    <3> QED
      BY <3>1, <2>2
  <2> QED
    BY <2>4, <2>5
<1>9. \A m, i, j : i \in DOMAIN T /\ j \in DOMAIN T /\ i < j => ~ Clash(Event(m, T[i]), Event(m, T[j]))
  <2> SUFFICES ASSUME NEW m, NEW i \in 1 .. n, NEW j \in 1 .. n, i < j
               PROVE  ~ Clash(Event(m, T[i]), Event(m, T[j]))
    BY <1>4
  <2> QED
    BY <1>8 DEF Clash, Event
<1>10. T \in Seq(Sessions)
  BY <1>1, <1>6 DEF n
<1> QED
  BY <1>7, <1>9, <1>10 DEF T

\* The ends of some sessions of a connection.
LEMMA DetachList ==
  ASSUME NEW c \in Conns, NEW ss \in SUBSET Of1(c)
  PROVE  /\ DetachEvents(c, ss) \in Seq(Events)
         /\ Range(DetachEvents(c, ss)) = {Event("detached", s) : s \in ss}
         /\ Fine(DetachEvents(c, ss))
<1> DEFINE T == SessionsInOrder[c]
<1>1. T \in Seq(Sessions) /\ Range(T) = Of1(c) /\
        \A i, j \in DOMAIN T : i < j => ~ Clash(Event("detached", T[i]), Event("detached", T[j]))
  BY SessionTable
<1>2. DetachEvents(c, ss) = EventsOf("detached", Listed(T, ss))
  BY DEF DetachEvents
<1> HIDE DEF T
<1>3. Range(EventsOf("detached", Listed(T, ss))) = {Event("detached", x) : x \in ss \cap Range(T)}
      /\ Fine(EventsOf("detached", Listed(T, ss)))
  BY <1>1, ListedEvents
<1>4. ss \cap Range(T) = ss
  BY <1>1
<1>5. DetachEvents(c, ss) \in Seq(Events)
  BY DetachEventsTyped
<1> QED
  BY <1>2, <1>3, <1>4, <1>5

\* Its new session, of a new target.
LEMMA NewList ==
  ASSUME NEW c \in Conns, NEW ss \in SUBSET Of1(c)
  PROVE  LET r == EventsOf("attached", Listed(SessionsInOrder[c], ss))
         IN  /\ r \in Seq(Events)
             /\ Range(r) = {Event("attached", s) : s \in ss}
             /\ Fine(r)
<1> DEFINE T == SessionsInOrder[c]
<1>1. T \in Seq(Sessions) /\ Range(T) = Of1(c) /\
        \A i, j \in DOMAIN T : i < j => ~ Clash(Event("attached", T[i]), Event("attached", T[j]))
  BY SessionTable
<1>5. EventsOf("attached", Listed(T, ss)) \in Seq(Events)
  BY DetachEventsTyped
<1> HIDE DEF T
<1>3. Range(EventsOf("attached", Listed(T, ss))) = {Event("attached", x) : x \in ss \cap Range(T)}
      /\ Fine(EventsOf("attached", Listed(T, ss)))
  BY <1>1, ListedEvents
<1>4. ss \cap Range(T) = ss
  BY <1>1
<1> QED
  BY <1>3, <1>4, <1>5 DEF T

\* The new sessions for listed targets.
LEMMA AttachList ==
  ASSUME NEW c \in Conns, NEW auto, NEW ts \in SUBSET Targets
  PROVE  LET r == AttachEvents(c, auto, Ascending(ts))
         IN  /\ r \in Seq(Events)
             /\ Range(r) = {Event("attached", Root(c, auto, t)) : t \in ts}
             /\ Fine(r)
<1> DEFINE s == [t \in Targets |-> t]
           k == Kept(s, ts)
           r == AttachEvents(c, auto, k)
<1>1. s \in Seq(Targets) /\ DOMAIN s = Targets /\ \A t \in Targets : s[t] = t
  <2>1. s \in [1 .. MaxIds -> Targets]
    BY DEF Targets
  <2> QED
    BY <2>1, TargetBoundsAssumption
<1>2. Ascending(ts) = k
  BY DEF Ascending
<1>3. Range(k) = {s[i] : i \in ts}
      /\ \A p, q \in DOMAIN k : p < q => \E i, j \in ts : i < j /\ k[p] = s[i] /\ k[q] = s[j]
  <2> HIDE DEF s
  <2> QED
    BY <1>1, KeptOrder
<1>4. Range(k) = ts
  <2> HIDE DEF k, s
  <2> QED
    BY <1>1, <1>3
<1>5. \A p, q \in DOMAIN k : p < q => k[p] # k[q]
  <2> SUFFICES ASSUME NEW p \in DOMAIN k, NEW q \in DOMAIN k, p < q PROVE k[p] # k[q]
    OBVIOUS
  <2> HIDE DEF k, s
  <2>1. PICK i \in ts, j \in ts : i < j /\ k[p] = s[i] /\ k[q] = s[j]
    BY <1>3
  <2>2. i \in Int /\ j \in Int /\ s[i] = i /\ s[j] = j
    BY <1>1 DEF Targets
  <2> QED
    BY <2>1, <2>2
<1>6. AttachEvents(c, auto, Ascending(ts)) \in Seq(Events)
  BY AttachEventsTyped
<1> HIDE DEF k, s
<1>7. DOMAIN r = DOMAIN k /\ \A p \in DOMAIN k : r[p] = Event("attached", Root(c, auto, k[p]))
  BY DEF AttachEvents, EventsOf
<1>8. Range(r) = {Event("attached", Root(c, auto, t)) : t \in Range(k)}
  <2> HIDE DEF r
  <2> QED
    BY <1>7 DEF Range
<1>9. Fine(r)
  <2> SUFFICES ASSUME NEW p \in DOMAIN k, NEW q \in DOMAIN k, p < q PROVE ~ Clash(r[p], r[q])
    BY <1>7 DEF Fine
  <2>1. k[p] # k[q] /\ r[p] = Event("attached", Root(c, auto, k[p]))
        /\ r[q] = Event("attached", Root(c, auto, k[q]))
    BY <1>5, <1>7
  <2> HIDE DEF r
  <2> QED
    BY <2>1, Different DEF Clash, Event
<1> QED
  BY <1>2, <1>4, <1>6, <1>8, <1>9

\* The notices of one kind.
LEMMA KindList ==
  ASSUME NEW m \in {"created", "destroyed"}, NEW kind \in {"page", "tab"}, NEW xs
  PROVE  /\ NoticesOf(m, kind, xs) \in Seq(Events)
         /\ Range(NoticesOf(m, kind, xs)) = {Event(m, x) : x \in xs \cap ({kind} \X Targets)}
         /\ Fine(NoticesOf(m, kind, xs))
<1> DEFINE T == NoticesInTurn[kind]
<1>1. T = [t \in Targets |-> <<kind, t>>] /\ Targets = 1 .. MaxIds /\ MaxIds \in Nat
  BY TargetBoundsAssumption DEF NoticesInTurn, Targets
<1> HIDE DEF T
<1>2. T \in Seq(Notices)
  <2>1. T \in [1 .. MaxIds -> Notices]
    BY <1>1 DEF Notices
  <2> QED
    BY <2>1, <1>1
<1>3. Range(T) = {kind} \X Targets
  BY <1>1 DEF Range
<1>4. \A i, j \in DOMAIN T : i < j => ~ Clash(Event(m, T[i]), Event(m, T[j]))
  <2> SUFFICES ASSUME NEW i \in Targets, NEW j \in Targets, i < j
               PROVE  ~ Clash(Event(m, <<kind, i>>), Event(m, <<kind, j>>))
    BY <1>1
  <2>1. <<kind, i>> # <<kind, j>>
    BY <1>1
  <2> QED
    BY <2>1 DEF Clash, Event
<1>5. NoticesOf(m, kind, xs) = EventsOf(m, Listed(T, xs))
  BY DEF NoticesOf, T
<1>6. Range(EventsOf(m, Listed(T, xs))) = {Event(m, x) : x \in xs \cap Range(T)}
      /\ Fine(EventsOf(m, Listed(T, xs)))
  BY <1>2, <1>4, ListedEvents
<1>7. EventsOf(m, Listed(T, xs)) \in Seq(Events)
  BY <1>2, ListedSeq, EventsTyped
<1> QED
  BY <1>3, <1>5, <1>6, <1>7

\* What appears, and what goes.
LEMMA NoticeLists ==
  ASSUME NEW xs \in SUBSET Notices
  PROVE  /\ CreatedEvents(xs) \in Seq(Events) /\ DestroyedEvents(xs) \in Seq(Events)
         /\ Range(CreatedEvents(xs)) = {Event("created", x) : x \in xs}
         /\ Range(DestroyedEvents(xs)) = {Event("destroyed", x) : x \in xs}
         /\ Fine(CreatedEvents(xs)) /\ Fine(DestroyedEvents(xs))
<1> DEFINE part(k) == xs \cap ({k} \X Targets)
<1>1. xs = part("page") \cup part("tab") /\ part("page") \cap part("tab") = {}
  BY DEF Notices
<1>2. ASSUME NEW m \in {"created", "destroyed"}, NEW k \in {"page", "tab"}, NEW l \in {"page", "tab"}, k # l
      PROVE  LET r == NoticesOf(m, k, xs) \o NoticesOf(m, l, xs)
             IN  /\ r \in Seq(Events)
                 /\ Range(r) = {Event(m, x) : x \in xs}
                 /\ Fine(r)
  <2> DEFINE r == NoticesOf(m, k, xs)
             s == NoticesOf(m, l, xs)
  <2>1. r \in Seq(Events) /\ Range(r) = {Event(m, x) : x \in part(k)} /\ Fine(r)
    BY KindList
  <2>2. s \in Seq(Events) /\ Range(s) = {Event(m, x) : x \in part(l)} /\ Fine(s)
    BY KindList
  <2>3. part(k) \cup part(l) = xs /\ part(k) \cap part(l) = {}
    BY <1>1, <1>2
  <2> HIDE DEF r, s, part
  <2>4. Clear(Range(r), Range(s))
    BY <2>1, <2>2, <2>3 DEF Clear, Clash, Event
  <2>5. r \o s \in Seq(Events) /\ Range(r \o s) = Range(r) \cup Range(s) /\ Fine(r \o s)
    <3>1. r \in Seq(Events) /\ s \in Seq(Events) /\ Fine(r) /\ Fine(s)
      BY <2>1, <2>2
    <3> QED
      BY <3>1, <2>4, Joined
  <2>6. Range(r \o s) = {Event(m, x) : x \in xs}
    BY <2>1, <2>2, <2>3, <2>5
  <2> QED
    BY <2>5, <2>6 DEF r, s
<1> QED
  BY <1>2 DEF CreatedEvents, DestroyedEvents

\* The notices of one kind of a reply, by its events.
LEMMA SaidOf ==
  ASSUME NEW r \in Seq(Events), NEW m, NEW x
  PROVE  x \in Of(m, r) <=> Event(m, x) \in Range(r)
<1>1. ASSUME NEW i \in DOMAIN r, r[i].method = m, r[i].what = x PROVE r[i] = Event(m, x)
  <2>1. r[i] \in Events
    OBVIOUS
  <2> QED
    BY <2>1, <1>1 DEF Events, SessionEvents, NoticeEvents, Event
<1>2. x \in Of(m, r) <=> \E i \in DOMAIN r : r[i].method = m /\ r[i].what = x
  BY DEF Of
<1>3. Event(m, x) \in Range(r) <=> \E i \in DOMAIN r : r[i] = Event(m, x)
  BY DEF Range
<1>4. Event(m, x).method = m /\ Event(m, x).what = x
  BY DEF Event
<1> QED
  BY <1>1, <1>2, <1>3, <1>4

\* The notices of a longer reply.
LEMMA SaidMore ==
  ASSUME NEW r \in Seq(Events), NEW s \in Seq(Events), NEW w \in Seq(Events),
         Range(w) = Range(r) \cup Range(s), NEW m
  PROVE  Of(m, w) = Of(m, r) \cup Of(m, s)
<1>1. \A x : x \in Of(m, w) <=> x \in Of(m, r) \cup Of(m, s)
  <2> TAKE x
  <2>1. x \in Of(m, w) <=> Event(m, x) \in Range(w)
    BY SaidOf
  <2>2. x \in Of(m, r) <=> Event(m, x) \in Range(r)
    BY SaidOf
  <2>3. x \in Of(m, s) <=> Event(m, x) \in Range(s)
    BY SaidOf
  <2> QED
    BY <2>1, <2>2, <2>3
<1> QED
  BY <1>1

\* The notices of a list of one method.
LEMMA SaidOne ==
  ASSUME NEW r \in Seq(Events), NEW m, NEW xs, Range(r) = {Event(m, x) : x \in xs}, NEW n
  PROVE  Of(n, r) = IF n = m THEN xs ELSE {}
<1>1. \A x : x \in Of(n, r) <=> (n = m /\ x \in xs)
  <2> TAKE x
  <2>1. x \in Of(n, r) <=> Event(n, x) \in Range(r)
    BY SaidOf
  <2> QED
    BY <2>1 DEF Event
<1> QED
  BY <1>1

\* What the elements of a reply are, by its notices.
LEMMA SaidAll ==
  ASSUME NEW r \in Seq(Events)
  PROVE  /\ \A e \in Range(r) : /\ e \in Events /\ e.what \in Of(e.method, r)
                                /\ e = Event(e.method, e.what)
                                /\ e.method \in {"attached", "detached", "created", "destroyed"}
         /\ Of("attached", r) \subseteq Sessions /\ Of("detached", r) \subseteq Sessions
         /\ Of("created", r) \subseteq Notices /\ Of("destroyed", r) \subseteq Notices
<1>1. \A i \in DOMAIN r : r[i] \in Events
  OBVIOUS
<1>2. \A e \in Events : e = Event(e.method, e.what)
                       /\ e.method \in {"attached", "detached", "created", "destroyed"}
  BY DEF Events, SessionEvents, NoticeEvents, Event
<1>3. \A e \in Events : /\ e.method \in {"attached", "detached"} => e.what \in Sessions
                        /\ e.method \in {"created", "destroyed"} => e.what \in Notices
  <2> HIDE DEF Sessions, Notices
  <2> QED
    BY DEF Events, SessionEvents, NoticeEvents
<1>4. \A m, x : x \in Of(m, r) => \E i \in DOMAIN r : r[i].method = m /\ r[i].what = x
  BY DEF Of
<1>5. \A e \in Range(r) : e \in Events /\ e.what \in Of(e.method, r)
  BY <1>1 DEF Of, Range
<1> HIDE DEF Events, Sessions, Notices
<1>6. \A e \in Range(r) : /\ e \in Events /\ e.what \in Of(e.method, r)
                          /\ e = Event(e.method, e.what)
                          /\ e.method \in {"attached", "detached", "created", "destroyed"}
  BY <1>2, <1>5
<1>7. \A m, x : x \in Of(m, r) => \E e \in Events : e.method = m /\ e.what = x
  BY <1>1, <1>4
<1>8. \A m \in {"attached", "detached"} : Of(m, r) \subseteq Sessions
  <2> SUFFICES ASSUME NEW m \in {"attached", "detached"}, NEW x \in Of(m, r) PROVE x \in Sessions
    OBVIOUS
  <2>1. PICK e \in Events : e.method = m /\ e.what = x
    BY <1>7
  <2>2. e.method \in {"attached", "detached"}
    BY <2>1
  <2> QED
    BY <2>1, <2>2, <1>3
<1>9. \A m \in {"created", "destroyed"} : Of(m, r) \subseteq Notices
  <2> SUFFICES ASSUME NEW m \in {"created", "destroyed"}, NEW x \in Of(m, r) PROVE x \in Notices
    OBVIOUS
  <2>1. PICK e \in Events : e.method = m /\ e.what = x
    BY <1>7
  <2>2. e.method \in {"created", "destroyed"}
    BY <2>1
  <2> QED
    BY <2>1, <2>2, <1>3
<1> QED
  BY <1>6, <1>8, <1>9

\* What somebody makes of a reply who reads it in order is what the sum of its notices
\* gives, but where an end comes before its beginning.
LEMMA InTurn ==
  ASSUME NEW r \in Seq(Events), Fine(r), NEW xs, NEW m, NEW n, m # n, NEW x
  PROVE  x \in Heard(xs, r, m, n) <=>
           \/ x \in (xs \cup Of(m, r)) \ Of(n, r)
           \/ \E i, j \in DOMAIN r : j < i /\ r[i] = Event(m, x) /\ r[j] = Event(n, x)
<1>1. \A l : x \in Of(l, r) <=> \E i \in DOMAIN r : r[i] = Event(l, x)
  BY SaidOf DEF Range
<1>2. \A i \in DOMAIN r : r[i].method = m /\ r[i].what = x <=> r[i] = Event(m, x)
  <2> TAKE i \in DOMAIN r
  <2>1. r[i] \in Events
    OBVIOUS
  <2> QED
    BY <2>1 DEF Events, SessionEvents, NoticeEvents, Event
<1>3. x \in Heard(xs, r, m, n) <=>
        \/ x \in xs /\ x \notin Of(n, r)
        \/ \E i \in DOMAIN r : /\ r[i] = Event(m, x)
                               /\ ~ \E j \in DOMAIN r : i < j /\ r[j] = Event(n, x)
  <2>1. x \in Heard(xs, r, m, n) <=>
          \/ x \in xs /\ ~ Said(n, x, r, DOMAIN r)
          \/ \E i \in DOMAIN r : /\ r[i].method = m /\ r[i].what = x
                                 /\ ~ Said(n, r[i].what, r, Behind(i, r))
    BY DEF Heard
  <2>2. Said(n, x, r, DOMAIN r) <=> x \in Of(n, r)
    BY <1>1 DEF Said
  <2>3. \A i \in DOMAIN r : Said(n, x, r, Behind(i, r)) <=>
                             \E j \in DOMAIN r : i < j /\ r[j] = Event(n, x)
    BY DEF Said, Behind
  <2> QED
    BY <1>2, <2>1, <2>2, <2>3
<1>4. \A i, j \in DOMAIN r : i \in Int /\ j \in Int
  OBVIOUS
<1>5. \A i, j \in DOMAIN r : i < j => r[i] # r[j]
  BY DEF Fine, Clash
<1>6. Event(m, x) # Event(n, x)
  BY DEF Event
<1>7. ASSUME NEW i \in DOMAIN r, NEW j \in DOMAIN r, j < i, r[i] = Event(m, x), r[j] = Event(n, x)
      PROVE  ~ \E k \in DOMAIN r : i < k /\ r[k] = Event(n, x)
  <2> SUFFICES ASSUME NEW k \in DOMAIN r, i < k, r[k] = Event(n, x) PROVE FALSE
    OBVIOUS
  <2>1. j < k
    BY <1>4, <1>7
  <2> QED
    BY <1>5, <1>7, <2>1
<1>8. ASSUME NEW i \in DOMAIN r, NEW j \in DOMAIN r, r[i] = Event(m, x), r[j] = Event(n, x)
      PROVE  i < j \/ j < i
  BY <1>4, <1>6, <1>8
<1> HIDE DEF Events
<1> QED
  BY <1>1, <1>3, <1>7, <1>8

\* In a fine reply the notices of targets come in their order, ...
LEMMA HeardNotices ==
  ASSUME NEW r \in Seq(Events), Fine(r), NEW xs
  PROVE  Heard(xs, r, "created", "destroyed") = (xs \cup Of("created", r)) \ Of("destroyed", r)
<1>1. ASSUME NEW x, NEW i \in DOMAIN r, NEW j \in DOMAIN r, j < i,
             r[i] = Event("created", x), r[j] = Event("destroyed", x)
      PROVE  FALSE
  BY <1>1 DEF Fine, Clash, Event
<1> QED
  BY <1>1, InTurn

\* ... and a client is left with those sessions more that are crossed.
LEMMA HeardSessions ==
  ASSUME NEW r \in Seq(Events), Fine(r), NEW xs
  PROVE  /\ Heard(xs, r, "attached", "detached")
              = ((xs \cup Of("attached", r)) \ Of("detached", r)) \cup Crossed(r)
         /\ Crossed(r) \subseteq Of("attached", r) \cap Of("detached", r)
<1>1. \A x : x \in Crossed(r) <=>
             \E i, j \in DOMAIN r : j < i /\ r[i] = Event("attached", x) /\ r[j] = Event("detached", x)
  <2> TAKE x
  <2>1. \A i \in DOMAIN r : r[i].method = "attached" /\ r[i].what = x <=> r[i] = Event("attached", x)
    <3> TAKE i \in DOMAIN r
    <3>1. r[i] \in Events
      OBVIOUS
    <3> QED
      BY <3>1 DEF Events, SessionEvents, NoticeEvents, Event
  <2>2. x \in Crossed(r) <=>
          \E i \in DOMAIN r : /\ r[i].method = "attached" /\ r[i].what = x
                             /\ Said("detached", r[i].what, r, Before(i, r))
    BY DEF Crossed
  <2>3. \A i \in DOMAIN r : Said("detached", x, r, Before(i, r)) <=>
                             \E j \in DOMAIN r : j < i /\ r[j] = Event("detached", x)
    BY DEF Said, Before
  <2> HIDE DEF Events
  <2> QED
    BY <2>1, <2>2, <2>3
<1>2. \A x : x \in Heard(xs, r, "attached", "detached") <=>
             x \in (xs \cup Of("attached", r)) \ Of("detached", r) \/ x \in Crossed(r)
  BY <1>1, InTurn
<1>3. \A x, l : x \in Of(l, r) <=> \E i \in DOMAIN r : r[i] = Event(l, x)
  BY SaidOf DEF Range
<1> HIDE DEF Events
<1> QED
  BY <1>1, <1>2, <1>3

-----------------------------------------------------------------------------
(* The events of a reconciliation among those of the handler *)

\* Leaving events out does not disturb the order of the others.
LEMMA KeptFine ==
  ASSUME NEW r \in Seq(Events), Fine(r), NEW I \in SUBSET (DOMAIN r)
  PROVE  /\ Kept(r, I) \in Seq(Events) /\ Fine(Kept(r, I))
         /\ \A x : x \in Range(Kept(r, I)) <=> \E i \in I : x = r[i]
<1> DEFINE k == Kept(r, I)
<1>1. k \in Seq(Events)
  BY KeptSeq
<1>2. Range(k) = {r[i] : i \in I}
      /\ \A p, q \in DOMAIN k : p < q => \E i, j \in I : i < j /\ k[p] = r[i] /\ k[q] = r[j]
  BY KeptOrder
<1> HIDE DEF k
<1>3. Fine(k)
  <2> SUFFICES ASSUME NEW p \in DOMAIN k, NEW q \in DOMAIN k, p < q PROVE ~ Clash(k[p], k[q])
    BY DEF Fine
  <2>1. PICK i \in I, j \in I : i < j /\ k[p] = r[i] /\ k[q] = r[j]
    BY <1>2
  <2> QED
    BY <2>1 DEF Fine
<1> QED
  BY <1>1, <1>2, <1>3 DEF k

\* Which kinds of notices can clash.
LEMMA Harmless ==
  ASSUME NEW x, NEW y, x.method # y.method, Clash(x, y)
  PROVE  \/ x.method = "destroyed" /\ y.method \in {"detached", "created"}
         \/ x.method = "attached" /\ y.method = "created"
BY DEF Clash

\* A handler's events that are all about new sessions, or none of them.
Sorted(h) ==
  /\ (\A i \in DOMAIN h : h[i].method = "attached") \/ (\A i \in DOMAIN h : h[i].method # "attached")
  /\ \A i, j \in DOMAIN h : i < j /\ h[i].method = "destroyed" => h[j].method # "detached"

\* The ends of sessions go before what has been destroyed, and new targets before
\* the sessions for them.
LEMMA Inserted ==
  ASSUME NEW h \in Seq(Events), NEW ds \in Seq(Events), NEW ns \in Seq(Events),
         Fine(h), Fine(ds), Fine(ns), Sorted(h),
         \A y \in Range(ds) : y.method = "detached",
         \A y \in Range(ns) : y.method \in {"created", "destroyed"},
         \A x \in Range(h), y \in Range(ds) : x.method # "destroyed" => ~ Clash(x, y),
         \A x \in Range(h), y \in Range(ns) : x.method # "attached" => ~ Clash(x, y)
  PROVE  LET r == InsertAutoEvents(h, ds \o ns)
         IN  /\ r \in Seq(Events)
             /\ Range(r) = Range(h) \cup (Range(ds) \cup Range(ns))
             /\ Fine(r)
<1> DEFINE auto     == ds \o ns
           I        == {i \in DOMAIN auto : auto[i].method = "detached"}
           J        == {i \in DOMAIN auto : auto[i].method # "detached"}
           detached == Kept(auto, I)
           others   == Kept(auto, J)
           p        == FirstOf(h, {"destroyed", "attached"})
           first    == SpliceAt(h, p, detached)
           split    == FirstOf(others, {"attached"})
           q        == FirstOf(first, {"attached"})
<1>1. auto \in Seq(Events) /\ Range(auto) = Range(ds) \cup Range(ns) /\ Fine(auto)
  <2>1. Clear(Range(ds), Range(ns))
    <3> SUFFICES ASSUME NEW x \in Range(ds), NEW y \in Range(ns), Clash(x, y) PROVE FALSE
      BY DEF Clear
    <3>1. x.method = "detached" /\ y.method \in {"created", "destroyed"}
      OBVIOUS
    <3> QED
      BY <3>1, Harmless
  <2> QED
    BY <2>1, Joined
<1>2. InsertAutoEvents(h, auto) =
        SpliceAt(first, q, SubSeq(others, 1, split - 1)) \o SubSeq(others, split, Len(others))
  BY DEF InsertAutoEvents
<1>3. I \in SUBSET (DOMAIN auto) /\ J \in SUBSET (DOMAIN auto)
      /\ (\A i \in DOMAIN auto : i \in I <=> auto[i].method = "detached")
      /\ (\A i \in DOMAIN auto : i \in J <=> auto[i].method # "detached")
      /\ \A x : x \in Range(auto) <=> \E i \in DOMAIN auto : x = auto[i]
  BY DEF Range
<1> HIDE DEF auto, I, J
<1>4. detached \in Seq(Events) /\ Fine(detached)
      /\ \A x : x \in Range(detached) <=> \E i \in I : x = auto[i]
  BY <1>1, <1>3, KeptFine
<1>5. others \in Seq(Events) /\ Fine(others)
      /\ \A x : x \in Range(others) <=> \E i \in J : x = auto[i]
  BY <1>1, <1>3, KeptFine
<1> HIDE DEF detached, others
<1>6. Range(detached) = Range(ds)
  <2>1. \A x : x \in Range(detached) <=> x \in Range(auto) /\ x.method = "detached"
    BY <1>3, <1>4
  <2> QED
    BY <2>1, <1>1
<1>7. Range(others) = Range(ns)
  <2>1. \A x : x \in Range(others) <=> x \in Range(auto) /\ x.method # "detached"
    BY <1>3, <1>5
  <2> QED
    BY <2>1, <1>1
<1>8. split = Len(others) + 1
  <2>1. split \in 1 .. Len(others) + 1 /\ (split \in DOMAIN others => others[split].method \in {"attached"})
    BY <1>5, FirstFound
  <2> HIDE DEF split
  <2>2. split \notin DOMAIN others
    <3> SUFFICES ASSUME split \in DOMAIN others PROVE FALSE
      OBVIOUS
    <3>1. others[split] \in Range(others)
      BY DEF Range
    <3> QED
      BY <3>1, <2>1, <1>7
  <2>3. DOMAIN others = 1 .. Len(others) /\ Len(others) \in Nat
    BY <1>5
  <2> QED
    BY <2>1, <2>2, <2>3
<1>9. SubSeq(others, 1, split - 1) = others /\ SubSeq(others, split, Len(others)) = <<>>
  <2>1. Len(others) \in Nat
    BY <1>5
  <2> HIDE DEF split
  <2>2. split - 1 = Len(others) /\ split \in Int /\ Len(others) < split
    BY <2>1, <1>8
  <2> QED
    BY <2>1, <2>2, <1>5, SubSeqFull, SubSeqEmpty
<1>10. p \in 1 .. Len(h) + 1
       /\ (\A j \in DOMAIN h : j < p => h[j].method \notin {"destroyed", "attached"})
       /\ (p \in DOMAIN h => h[p].method \in {"destroyed", "attached"})
  BY FirstFound
<1> HIDE DEF p, split
<1>11. \A k \in DOMAIN h : h[k] \in Range(h)
  BY DEF Range
<1>12. \A k \in DOMAIN h : k < p \/ h[k].method # "detached"
  <2> SUFFICES ASSUME NEW k \in DOMAIN h, ~ (k < p) PROVE h[k].method # "detached"
    OBVIOUS
  <2>1. p \in DOMAIN h /\ (p = k \/ p < k)
    <3>1. DOMAIN h = 1 .. Len(h) /\ Len(h) \in Nat
      OBVIOUS
    <3> QED
      BY <3>1, <1>10
  <2>2. CASE h[p].method = "destroyed"
    BY <2>1, <2>2 DEF Sorted
  <2>3. CASE h[p].method = "attached"
    BY <2>1, <2>3 DEF Sorted
  <2> QED
    BY <2>1, <2>2, <2>3, <1>10
<1>13. first \in Seq(Events) /\ Range(first) = Range(h) \cup Range(ds) /\ Fine(first)
  <2>1. \A k \in DOMAIN h, x \in Range(detached) :
          IF k < p THEN ~ Clash(h[k], x) ELSE ~ Clash(x, h[k])
    <3> SUFFICES ASSUME NEW k \in DOMAIN h, NEW x \in Range(detached)
                 PROVE  IF k < p THEN ~ Clash(h[k], x) ELSE ~ Clash(x, h[k])
      OBVIOUS
    <3>1. x \in Range(ds) /\ x.method = "detached" /\ h[k] \in Range(h)
      BY <1>6, <1>11
    <3>2. CASE k < p
      BY <3>1, <3>2, <1>10
    <3>3. CASE ~ (k < p)
      BY <3>1, <3>3, <1>12, Harmless
    <3> QED
      BY <3>2, <3>3
  <2>2. detached \in Seq(Events) /\ Fine(detached) /\ p \in 1 .. Len(h) + 1
    BY <1>4, <1>10
  <2>3. /\ SpliceAt(h, p, detached) \in Seq(Events)
        /\ Range(SpliceAt(h, p, detached)) = Range(h) \cup Range(detached)
        /\ Fine(SpliceAt(h, p, detached))
    BY <2>1, <2>2, Spliced
  <2> QED
    BY <2>3, <1>6
<1>14. \A k \in DOMAIN first : first[k] \in Range(first)
  BY DEF Range
<1>15. q \in 1 .. Len(first) + 1
       /\ (\A j \in DOMAIN first : j < q => first[j].method \notin {"attached"})
       /\ (q \in DOMAIN first => first[q].method \in {"attached"})
  <2> HIDE DEF first
  <2> QED
    BY <1>13, FirstFound
<1>16. \A k \in DOMAIN first : k < q \/ first[k].method # "detached"
  <2>1. CASE \A i \in DOMAIN h : h[i].method # "attached"
    <3>1. \A x \in Range(first) : x.method # "attached"
      <4>1. \A x \in Range(h) : x.method # "attached"
        BY <2>1 DEF Range
      <4> HIDE DEF first
      <4> QED
        BY <4>1, <1>13
    <3> HIDE DEF first, q
    <3>2. q \notin DOMAIN first
      BY <3>1, <1>14, <1>15
    <3>3. DOMAIN first = 1 .. Len(first) /\ Len(first) \in Nat
      BY <1>13
    <3> QED
      BY <3>2, <3>3, <1>15
  <2>2. CASE (\A i \in DOMAIN h : h[i].method = "attached") /\ DOMAIN h # {}
    <3>1. DOMAIN h = 1 .. Len(h) /\ Len(h) \in Nat
      OBVIOUS
    <3>2. p = 1
      <4>1. 1 \in DOMAIN h /\ h[1].method = "attached"
        BY <2>2, <3>1
      <4>2. ~ (1 < p)
        BY <4>1, <1>10
      <4> QED
        BY <4>2, <1>10
    <3>3. first = detached \o h
      <4>1. first = (SubSeq(h, 1, 0) \o detached) \o SubSeq(h, 1, Len(h))
        BY <3>2 DEF SpliceAt
      <4>2. SubSeq(h, 1, 0) = <<>> /\ SubSeq(h, 1, Len(h)) = h
        BY SubSeqFull, SubSeqEmpty
      <4>3. <<>> \o detached = detached
        BY <1>4, ConcatEmptySeq
      <4> HIDE DEF first
      <4> QED
        BY <4>1, <4>2, <4>3
    <3> HIDE DEF first, q
    <3>4. ASSUME NEW k \in DOMAIN first, first[k].method = "detached", ~ (k < q) PROVE FALSE
      <4>1. DOMAIN first = 1 .. Len(first) /\ Len(first) \in Nat /\ Len(first) = Len(detached) + Len(h)
            /\ Len(detached) \in Nat /\ DOMAIN detached = 1 .. Len(detached)
        BY <1>4, <1>13, <3>3
      <4>2. q \in DOMAIN first /\ first[q].method = "attached"
        BY <4>1, <3>4, <1>15
      <4>3. \A j \in 1 .. Len(first) :
              first[j] = IF j <= Len(detached) THEN detached[j] ELSE h[j - Len(detached)]
        BY <3>3, <4>1, <1>4, ConcatProperties
      <4>4. \A j \in DOMAIN detached : detached[j].method = "detached"
        BY <1>6 DEF Range
      <4>5. ~ (q <= Len(detached))
        <5> SUFFICES ASSUME q <= Len(detached) PROVE FALSE
          OBVIOUS
        <5>1. q \in DOMAIN detached /\ first[q] = detached[q]
          BY <4>1, <4>2, <4>3, <1>15
        <5> QED
          BY <5>1, <4>2, <4>4
      <4>6. ~ (k <= Len(detached)) /\ k - Len(detached) \in DOMAIN h /\ first[k] = h[k - Len(detached)]
        BY <4>1, <4>2, <4>3, <4>5, <3>1, <3>4
      <4> QED
        BY <4>6, <2>2, <3>4
    <3> QED
      BY <3>4
  <2>3. CASE DOMAIN h = {}
    BY <2>1, <2>3
  <2> QED
    BY <2>1, <2>2, <2>3 DEF Sorted
<1> HIDE DEF first
<1>17. /\ SpliceAt(first, q, others) \in Seq(Events)
       /\ Range(SpliceAt(first, q, others)) = Range(first) \cup Range(others)
       /\ Fine(SpliceAt(first, q, others))
  <2>1. ASSUME NEW k \in DOMAIN first, NEW x \in Range(others)
        PROVE  IF k < q THEN ~ Clash(first[k], x) ELSE ~ Clash(x, first[k])
    <3>1. x \in Range(ns) /\ x.method \in {"created", "destroyed"}
      BY <1>7
    <3>2. first[k] \in Range(ds) \/ first[k] \in Range(h)
      BY <1>13, <1>14
    <3>3. CASE k < q
      <4>1. first[k].method # "attached"
        BY <3>3, <1>15
      <4>2. CASE first[k] \in Range(h)
        BY <4>1, <4>2, <3>1, <3>3
      <4>3. CASE first[k] \in Range(ds)
        <5>1. first[k].method = "detached"
          BY <4>3
        <5> QED
          BY <5>1, <3>1, <3>3, Harmless
      <4> QED
        BY <3>2, <4>2, <4>3
    <3>4. CASE ~ (k < q)
      <4>1. first[k] \in Range(h) /\ first[k].method # "detached"
        BY <3>2, <3>4, <1>16
      <4>2. DOMAIN first = 1 .. Len(first) /\ Len(first) \in Nat
        BY <1>13
      <4>3. q \in DOMAIN first
        BY <4>2, <3>4, <1>15
      <4>4. \E i \in DOMAIN h : h[i].method = "attached"
        <5>1. first[q].method = "attached" /\ first[q] \in Range(ds) \cup Range(h)
          BY <4>3, <1>13, <1>14, <1>15
        <5> QED
          BY <5>1 DEF Range
      <4>5. first[k].method = "attached"
        BY <4>1, <4>4 DEF Sorted, Range
      <4> QED
        BY <4>5, <3>1, <3>4, Harmless
    <3> QED
      BY <3>3, <3>4
  <2>2. \A k \in DOMAIN first, x \in Range(others) :
          IF k < q THEN ~ Clash(first[k], x) ELSE ~ Clash(x, first[k])
    BY <2>1
  <2> HIDE DEF q
  <2> QED
    BY <2>2, <1>5, <1>13, <1>15, Spliced
<1>18. InsertAutoEvents(h, auto) = SpliceAt(first, q, others)
  <2>1. InsertAutoEvents(h, auto) = SpliceAt(first, q, others) \o <<>>
    BY <1>2, <1>9
  <2> HIDE DEF q
  <2> QED
    BY <2>1, <1>17, ConcatEmptySeq
<1> QED
  BY <1>6, <1>7, <1>13, <1>17, <1>18 DEF auto

-----------------------------------------------------------------------------
(* The books of a connection *)

\* The connection's record is not there yet, or has gone.
Away(c) == Over(c) \/ pc[c] \in {"detach", "dispose"}

\* Its next request, or the rest of its request to attach, comes first.
Awaits(c) == pc[c] \in {"idle", "enable"}

\* A handler is done, and the reconciliation is still to come.
Answered(c) ==
  \/ pc[c] \in {"forget", "ended", "reconcile"}
  \/ pc[c] = "commit" /\ job[c].next # "prune"

\* A reply is on its way.
Busy(c) == Answered(c) \/ pc[c] \in {"attach", "send"}

\* The client believes what the record says, and in ghosts.
Believed(c, b, e) ==
  /\ Sure(b) = SessionsOf(c, e) \cup e.gone
  /\ b.notices = e.discovered
  /\ e.discovered = Counted(e, e.discovered)

\* It will, when it has read the reply, and can follow the reply.
Balanced(c, b, r, e) ==
  /\ (Sure(b) \cup Of("attached", r)) \ Of("detached", r) = SessionsOf(c, e) \cup e.gone
  /\ Of("attached", r) \cap Sure(b) = {}
  /\ Of("detached", r) \subseteq Sure(b) \cup Of("attached", r)
  /\ Counted(e, (b.notices \cup Of("created", r)) \ Of("destroyed", r)) = e.discovered
  /\ Of("created", r) \cap Counted(e, b.notices) = {}
  /\ Of("destroyed", r) \subseteq b.notices \cup Of("created", r)
  /\ Fine(r)

\* The reconciliation can put its events into the reply.
Ready(r, early, e) ==
  /\ early \in {0, Len(r)}
  /\ early = 0 => Sorted(r)
  /\ early # 0 => \A i \in DOMAIN r : r[i].method \in {"created", "attached"}
  /\ \A s \in Of("detached", r) : s[2] = "tab" =>
       TargetOf(s) \notin e.attached /\ \A g \in e.gone : TargetOf(g) # TargetOf(s)
  /\ early # 0 => \A s \in Of("attached", r) :
       Counted(e, {"page", "tab"} \X {TargetOf(s)}) \subseteq e.discovered

\* What holds of a connection's record, its reply and its client.
BooksOf(c) ==
  /\ Away(c)     => told[c] = Nothing
  /\ Awaits(c)   => Believed(c, told[c], entry[c])
  /\ Busy(c)     => Balanced(c, told[c], reply[c], entry[c])
  /\ Answered(c) => Ready(reply[c], job[c].early, entry[c])
  /\ pc[c] \in {"enable", "attach"} => job[c].ids \cap entry[c].attached = {}
  /\ ~ Answered(c) /\ pc[c] # "enable" => entry[c].gone = {}

\* The first half of what the order and the sum of the notices rest on.
Books == \A c \in Conns : BooksOf(c)

\* What the record and the reply say of targets that there are.
CurrentOf(c) ==
  /\ \A s \in SessionsOf(c, entry[c]) : TargetOf(s) \in LiveTargets => s \in live
  /\ \A s \in entry[c].gone : /\ s[1] = c
                              /\ TargetOf(s) \notin LiveTargets /\ TargetOf(s) \notin entry[c].attached
  /\ \A x \in entry[c].discovered : x[2] \in LiveTargets => x[2] \in Visible(c)
  /\ Answered(c) => \A x \in Of("destroyed", reply[c]) : x[2] \notin LiveTargets
  /\ Busy(c) => \A s \in Of("detached", reply[c]) :
       s[2] = "child" \/ TargetOf(s) \notin LiveTargets \/ entry[c].auto = "off"

\* The second half.
Current == \A c \in Conns : CurrentOf(c)

\* The notices that discovery is to tell of.
Wanted(e) ==
  CASE e.discover = "off"   -> {}
    [] e.discover = "pages" -> {"page"} \X Targets
    [] e.discover = "tabs"  -> Notices

\* Both counts are of the notices that discovery is to tell of.
LEMMA CountedWanted ==
  ASSUME NEW e, e.discover \in Kinds
  PROVE  /\ \A xs \in SUBSET Notices : Counted(e, xs) = xs \cap Wanted(e)
         /\ \A c : Now(c, e) = {x \in Wanted(e) : x[2] \in Visible(c)}
         /\ Wanted(e) \in SUBSET Notices
<1>1. CASE e.discover = "off"
  BY <1>1 DEF Counted, Wanted, Now
<1>2. CASE e.discover = "pages"
  <2>1. \A xs \in SUBSET Notices : Counted(e, xs) = xs \cap Wanted(e)
    BY <1>2 DEF Counted, Wanted, Notices
  <2>2. \A c : Now(c, e) = {x \in Wanted(e) : x[2] \in Visible(c)}
    BY <1>2 DEF Now, Wanted, Visible, LiveTargets
  <2> QED
    BY <1>2, <2>1, <2>2 DEF Wanted, Notices
<1>3. CASE e.discover = "tabs"
  <2>1. \A xs \in SUBSET Notices : Counted(e, xs) = xs \cap Wanted(e)
    BY <1>3 DEF Counted, Wanted, Notices
  <2>2. \A c : Now(c, e) = {x \in Wanted(e) : x[2] \in Visible(c)}
    BY <1>3 DEF Now, Wanted, Visible, LiveTargets, Notices
  <2> QED
    BY <1>3, <2>1, <2>2 DEF Wanted, Notices
<1> QED
  BY <1>1, <1>2, <1>3 DEF Kinds

\* The sessions of a record are of its connection.
LEMMA RecordSessions ==
  ASSUME NEW c \in Conns, NEW e, e.attached \subseteq Targets, e.children \subseteq e.attached
  PROVE  SessionsOf(c, e) \in SUBSET Of1(c) /\ \A s \in SessionsOf(c, e) : TargetOf(s) \in e.attached
BY Names, InRecord DEF NamedBy, Of1

\* An empty reply.
LEMMA EmptyReply ==
  /\ <<>> \in Seq(Events) /\ Len(<<>>) = 0 /\ DOMAIN <<>> = {}
  /\ \A m : Of(m, <<>>) = {}
BY DEF Of

\* A reply with nothing in it leaves a client's belief right.
LEMMA QuietBooks ==
  ASSUME NEW c, NEW b, NEW e, Believed(c, b, e)
  PROVE  Balanced(c, b, <<>>, e) /\ Ready(<<>>, 0, e)
<1>1. \A m : Of(m, <<>>) = {}
  BY EmptyReply
<1>2. Len(<<>>) = 0 /\ DOMAIN <<>> = {} /\ Fine(<<>>)
  BY EmptyReply, EmptyFine
<1>3. Sorted(<<>>)
  BY <1>2 DEF Sorted
<1> QED
  BY <1>1, <1>2, <1>3 DEF Believed, Balanced, Ready

\* What the reconciliation of discovery says.
LEMMA DiffList ==
  ASSUME NEW c \in Conns, NEW e \in Entries
  PROVE  LET known == e.discovered \cap Wanted(e)
             now == Now(c, e)
             r == DiffEvents(c, e)
         IN  /\ r \in Seq(Events) /\ Fine(r) /\ known \in SUBSET Notices /\ now \in SUBSET Notices
             /\ Range(r) = {Event("destroyed", x) : x \in known \ now}
                             \cup {Event("created", x) : x \in now \ known}
             /\ Of("destroyed", r) = known \ now /\ Of("created", r) = now \ known
             /\ Of("attached", r) = {} /\ Of("detached", r) = {}
<1> DEFINE known == Counted(e, e.discovered)
           now == Now(c, e)
           d == DestroyedEvents(known \ now)
           a == CreatedEvents(now \ known)
           r == d \o a
<1>1. e.discover \in Kinds /\ e.discovered \in SUBSET Notices
  BY DEF Entries
<1>2. known = e.discovered \cap Wanted(e) /\ known \in SUBSET Notices /\ now \in SUBSET Notices
  BY <1>1, CountedWanted
<1>3. DiffEvents(c, e) = r
  BY DEF DiffEvents
<1> HIDE DEF known, now
<1>4. /\ d \in Seq(Events) /\ Range(d) = {Event("destroyed", x) : x \in known \ now} /\ Fine(d)
      /\ a \in Seq(Events) /\ Range(a) = {Event("created", x) : x \in now \ known} /\ Fine(a)
  BY <1>2, NoticeLists
<1> HIDE DEF d, a
<1>5. Clear(Range(d), Range(a))
  BY <1>4 DEF Clear, Clash, Event
<1>6. d \in Seq(Events) /\ a \in Seq(Events) /\ Fine(d) /\ Fine(a)
  BY <1>4
<1>7. r \in Seq(Events) /\ Range(r) = Range(d) \cup Range(a) /\ Fine(r)
  BY <1>5, <1>6, Joined
<1> HIDE DEF r
<1>8. \A n : Of(n, r) = Of(n, d) \cup Of(n, a)
  BY <1>6, <1>7, SaidMore
<1>9. \A n : Of(n, d) = IF n = "destroyed" THEN known \ now ELSE {}
  BY <1>4, SaidOne
<1>10. \A n : Of(n, a) = IF n = "created" THEN now \ known ELSE {}
  BY <1>4, SaidOne
<1>11. /\ Of("destroyed", r) = known \ now /\ Of("created", r) = now \ known
       /\ Of("attached", r) = {} /\ Of("detached", r) = {}
  BY <1>8, <1>9, <1>10
<1> QED
  BY <1>2, <1>3, <1>4, <1>7, <1>11 DEF now

\* Records that discover the same count the same.
LEMMA SameDiscover ==
  ASSUME NEW e, NEW f, f.discover = e.discover
  PROVE  Wanted(f) = Wanted(e) /\ \A xs : Counted(f, xs) = Counted(e, xs)
BY DEF Wanted, Counted

\* The ends that a step's reply tells of.
Says(c, ss, xs) == Of("detached", reply'[c]) \subseteq ss /\ Of("destroyed", reply'[c]) \subseteq xs

\* What a handler has to get right.
LEMMA HandledBooks ==
  ASSUME Ranges, NEW c \in Conns, NEW next \in {"ended", "commit", "forget"}, NEW ids, NEW early,
         NEW events, NEW failed, Handled(c, next, ids, early, events, failed), told' = told,
         NEW r, NEW i, early \o events = r, Len(early) = i,
         Balanced(c, told[c], r, entry'[c]), Ready(r, i, entry'[c])
  PROVE  BooksOf(c)' /\ reply'[c] = r
<1>1. /\ pc'[c] = next /\ job'[c].next = "ended" /\ job'[c].early = i /\ reply'[c] = r
  BY DEF Ranges, Handled, NoJob
<1>2. ~ Away(c)' /\ ~ Awaits(c)' /\ Answered(c)' /\ pc'[c] \notin {"enable", "attach"}
  BY <1>1 DEF Away, Over, Awaits, Answered
<1> HIDE DEF Balanced, Ready, Away, Awaits, Answered
<1> QED
  BY <1>1, <1>2 DEF BooksOf

\* The same, for a handler all of whose events follow its answer.
LEMMA AnswerBooks ==
  ASSUME Ranges, NEW c \in Conns, NEW next \in {"ended", "commit", "forget"}, NEW ids, NEW failed,
         NEW r \in Seq(Events), Handled(c, next, ids, <<>>, r, failed), told' = told,
         NEW f, entry'[c] = f, Balanced(c, told[c], r, f), Ready(r, 0, f)
  PROVE  BooksOf(c)' /\ reply'[c] = r
<1>1. <<>> \o r = r /\ Len(<<>>) = 0
  BY ConcatEmptySeq
<1>2. Balanced(c, told[c], r, entry'[c]) /\ Ready(r, 0, entry'[c])
  OBVIOUS
<1> QED
  BY <1>1, <1>2, HandledBooks

\* A handler that says nothing and leaves the record alone.
LEMMA QuietAnswer ==
  ASSUME Ranges, NEW c \in Conns, Awaits(c), BooksOf(c),
         NEW next \in {"ended", "commit"}, NEW ids, NEW failed,
         Handled(c, next, ids, <<>>, <<>>, failed), told' = told, entry' = entry
  PROVE  BooksOf(c)' /\ reply'[c] = <<>> /\ Says(c, {}, {})
<1>1. Balanced(c, told[c], <<>>, entry[c]) /\ Ready(<<>>, 0, entry[c])
  BY QuietBooks DEF BooksOf
<1>2. <<>> \o <<>> = <<>> /\ Len(<<>>) = 0
  OBVIOUS
<1>3. BooksOf(c)' /\ reply'[c] = <<>>
  BY <1>1, <1>2, HandledBooks
<1> QED
  BY <1>3, EmptyReply DEF Says

\* What the books say of a connection that is waited for.
LEMMA IdleBooks ==
  ASSUME Ranges, Stages, Records, NEW c \in Conns, pc[c] = "idle", BooksOf(c)
  PROVE  /\ entry[c] \in Entries /\ Sound(entry[c]) /\ entry[c].gone = {}
         /\ Sure(told[c]) = SessionsOf(c, entry[c]) /\ told[c].notices = entry[c].discovered
         /\ Counted(entry[c], entry[c].discovered) = entry[c].discovered
         /\ SessionsOf(c, entry[c]) \in SUBSET Of1(c)
         /\ \A s \in SessionsOf(c, entry[c]) : TargetOf(s) \in entry[c].attached
         /\ Believed(c, told[c], entry[c])
<1>1. entry[c] \in Entries /\ Sound(entry[c])
  BY DEF Ranges, Records, Sound
<1>2. Awaits(c) /\ ~ Answered(c)
  BY DEF Awaits, Answered
<1>3. entry[c].gone = {} /\ Believed(c, told[c], entry[c])
  BY <1>2 DEF BooksOf
<1>4. /\ SessionsOf(c, entry[c]) \in SUBSET Of1(c)
      /\ \A s \in SessionsOf(c, entry[c]) : TargetOf(s) \in entry[c].attached
  BY <1>1, RecordSessions DEF Entries, Sound
<1> QED
  BY <1>1, <1>3, <1>4 DEF Believed

\* Enabling auto-attach: what is attached was not, and none of it is gone.
LEMMA EnableBooks ==
  ASSUME Ranges, Stages, Records, NEW c \in Conns, EnableAutoAttach(c), BooksOf(c), CurrentOf(c)
  PROVE  BooksOf(c)' /\ Says(c, {}, {})
<1> DEFINE e == entry[c]
           j == job[c]
           new == {Root(c, j.auto, t) : t \in j.ids}
           f == [e EXCEPT !.auto = j.auto, !.wait = j.wait, !.attached = @ \cup j.ids]
           r == AttachEvents(c, j.auto, Ascending(j.ids))
<1>t. /\ pc[c] = "enable" /\ told' = told /\ e \in Entries /\ j.ids \in SUBSET Targets
      /\ e.children \subseteq e.attached /\ (e.auto = "off" => e.attached = {})
      /\ e.auto \in {"off", j.auto}
  BY EnableEffect DEF Ranges, Stages, Records
<1>b. Believed(c, told[c], e) /\ j.ids \cap e.attached = {} /\ Awaits(c)
  BY <1>t DEF BooksOf, Awaits
<1>1. CASE Fail(c) /\ UNCHANGED <<live, entry>>
  BY <1>1, <1>t, <1>b, QuietAnswer DEF Fail, Says
<1>2. CASE /\ Attachable(j.ids) = j.ids
           /\ entry' = [entry EXCEPT ![c].auto = j.auto, ![c].wait = j.wait, ![c].attached = @ \cup j.ids]
           /\ Succeed(c, r)
  <2>1. entry'[c] = f
    BY <1>2, <1>t DEF Ranges
  <2>2. f.auto = j.auto /\ f.attached = e.attached \cup j.ids /\ f.children = e.children /\ f.gone = e.gone
        /\ f.discover = e.discover /\ f.discovered = e.discovered
    BY <1>t DEF Entries
  <2> HIDE DEF f
  <2>3. j.ids \subseteq LiveTargets
    <3> SUFFICES ASSUME NEW t \in j.ids PROVE t \in LiveTargets
      OBVIOUS
    <3>1. t \in Attachable(j.ids) /\ t <= t
      BY <1>2, <1>t DEF Targets
    <3> QED
      BY <3>1 DEF Attachable
  <2>4. r \in Seq(Events) /\ Range(r) = {Event("attached", s) : s \in new} /\ Fine(r)
    <3>1. r \in Seq(Events) /\ Range(r) = {Event("attached", Root(c, j.auto, t)) : t \in j.ids} /\ Fine(r)
      BY <1>t, AttachList
    <3> QED
      BY <3>1
  <2> HIDE DEF r, new
  <2>5. \A n : Of(n, r) = IF n = "attached" THEN new ELSE {}
    BY <2>4, SaidOne
  <2>6. SessionsOf(c, f) = SessionsOf(c, e) \cup new
    BY <2>2, <1>t DEF SessionsOf, new
  <2>7. new \cap (SessionsOf(c, e) \cup e.gone) = {}
    <3> SUFFICES ASSUME NEW t \in j.ids, Root(c, j.auto, t) \in SessionsOf(c, e) \cup e.gone PROVE FALSE
      BY DEF new
    <3>1. TargetOf(Root(c, j.auto, t)) = t
      BY DEF TargetOf, Root
    <3>2. \A s \in SessionsOf(c, e) : TargetOf(s) \in e.attached
      BY <1>t, RecordSessions DEF Entries
    <3>3. \A s \in e.gone : TargetOf(s) \notin LiveTargets
      BY DEF CurrentOf
    <3> QED
      BY <3>1, <3>2, <3>3, <2>3, <1>b
  <2>8. \A xs : Counted(f, xs) = Counted(e, xs)
    BY <2>2, SameDiscover
  <2>9. Balanced(c, told[c], r, f)
    BY <2>2, <2>4, <2>5, <2>6, <2>7, <2>8, <1>b DEF Balanced, Believed
  <2>10. Ready(r, 0, f)
    <3>1. \A i \in DOMAIN r : r[i].method = "attached"
      BY <2>4 DEF Range, Event
    <3>2. Sorted(r)
      BY <3>1 DEF Sorted
    <3> QED
      BY <3>2, <2>5 DEF Ready
  <2>11. Succeed(c, r)
    BY <1>2 DEF r
  <2>12. BooksOf(c)' /\ reply'[c] = r
    BY <2>11, <1>t, <2>1, <2>9, <2>10, <2>4, AnswerBooks DEF Succeed
  <2> QED
    BY <2>5, <2>12 DEF Says
<1> QED
  BY <1>1, <1>2, EnableEffect

\* Ending auto-attach ends every session of the record.
LEMMA DisableBooks ==
  ASSUME Ranges, Stages, Records, NEW c \in Conns, DisableAutoAttach(c), BooksOf(c)
  PROVE  BooksOf(c)' /\ Says(c, SessionsOf(c, entry[c]), {})
<1> DEFINE e == entry[c]
           ss == SessionsOf(c, e)
           f == [e EXCEPT !.auto = "off", !.wait = FALSE, !.attached = {}, !.children = {}, !.gone = {}]
           r == DetachEvents(c, e.gone) \o DetachEvents(c, ss)
<1>t. pc[c] = "idle" /\ told' = told /\ Succeed(c, r) /\ entry' = [entry EXCEPT ![c] = f]
  BY DEF DisableAutoAttach, Serves
<1>b. /\ e \in Entries /\ e.gone = {} /\ Sure(told[c]) = ss /\ told[c].notices = e.discovered
      /\ Counted(e, e.discovered) = e.discovered /\ ss \in SUBSET Of1(c)
  BY <1>t, IdleBooks
<1>1. entry'[c] = f
  BY <1>t DEF Ranges
<1>2. /\ f.attached = {} /\ f.children = {} /\ f.gone = {}
      /\ f.discover = e.discover /\ f.discovered = e.discovered
  BY <1>b DEF Entries
<1> HIDE DEF f, ss
<1>3. r \in Seq(Events) /\ Range(r) = {Event("detached", s) : s \in ss} /\ Fine(r)
  <2> DEFINE a == DetachEvents(c, {})
             d == DetachEvents(c, ss)
  <2>1. a \in Seq(Events) /\ Range(a) = {Event("detached", s) : s \in {}} /\ Fine(a)
    BY DetachList
  <2>2. d \in Seq(Events) /\ Range(d) = {Event("detached", s) : s \in ss} /\ Fine(d)
    BY <1>b, DetachList
  <2>3. r = a \o d
    BY <1>b
  <2> HIDE DEF a, d, r
  <2>4. Range(a) = {}
    BY <2>1
  <2>5. Clear(Range(a), Range(d))
    BY <2>4 DEF Clear
  <2>6. a \in Seq(Events) /\ d \in Seq(Events) /\ Fine(a) /\ Fine(d)
    BY <2>1, <2>2
  <2>7. a \o d \in Seq(Events) /\ Range(a \o d) = Range(a) \cup Range(d) /\ Fine(a \o d)
    BY <2>5, <2>6, Joined
  <2> QED
    BY <2>2, <2>3, <2>4, <2>7
<1> HIDE DEF r
<1>4. \A n : Of(n, r) = IF n = "detached" THEN ss ELSE {}
  BY <1>3, SaidOne
<1>5. SessionsOf(c, f) = {}
  BY <1>2 DEF SessionsOf
<1>6. \A xs : Counted(f, xs) = Counted(e, xs)
  BY <1>2, SameDiscover
<1>7. Balanced(c, told[c], r, f)
  BY <1>2, <1>3, <1>4, <1>5, <1>6, <1>b DEF Balanced
<1>8. Ready(r, 0, f)
  <2>1. \A i \in DOMAIN r : r[i].method = "detached"
    BY <1>3 DEF Range, Event
  <2>2. Sorted(r)
    BY <2>1 DEF Sorted
  <2> QED
    BY <2>2, <1>2, <1>4 DEF Ready
<1>10. BooksOf(c)' /\ reply'[c] = r
  BY <1>t, <1>1, <1>7, <1>8, <1>3, AnswerBooks DEF Succeed
<1> QED
  BY <1>4, <1>10 DEF Says, ss

\* A tab's child is attached once.
LEMMA AttachChildBooks ==
  ASSUME Ranges, Stages, Records, NEW c \in Conns, BooksOf(c),
         NEW t \in entry[c].attached, NEW wait \in BOOLEAN, AttachChild(c, t, wait)
  PROVE  BooksOf(c)' /\ Says(c, {}, {})
<1> DEFINE e == entry[c]
           f == WithChild(c, t)
           x == Event("attached", Child(c, t))
           r == <<x>>
<1>t. pc[c] = "idle" /\ told' = told
  BY ChildEffect DEF Serves
<1>b. /\ e \in Entries /\ e.gone = {} /\ Sure(told[c]) = SessionsOf(c, e)
      /\ told[c].notices = e.discovered /\ Counted(e, e.discovered) = e.discovered
      /\ e.children \subseteq e.attached /\ e.attached \subseteq Targets
  BY <1>t, IdleBooks DEF Sound, Entries
<1>1. CASE Declined(c)
  BY <1>1, <1>t, QuietAnswer DEF Declined, Fail, Succeed, Awaits, Says
<1>2. CASE Adopts(c, t)
  <2>1. entry'[c] = f
    BY <1>2 DEF Ranges, Adopts
  <2>2. /\ f.attached = e.attached /\ f.auto = e.auto /\ f.children = e.children \cup {t} /\ f.gone = {}
        /\ f.discover = e.discover /\ f.discovered = e.discovered
    BY <1>b DEF Entries, WithChild
  <2> HIDE DEF f
  <2>3. x \in Events
    BY <1>b, Names DEF Event, Events, SessionEvents
  <2>4. r \in Seq(Events) /\ Range(r) = {Event("attached", s) : s \in {Child(c, t)}} /\ Fine(r)
        /\ \A i \in DOMAIN r : r[i].method = "attached"
    <3> HIDE DEF x
    <3>1. r \in Seq(Events) /\ DOMAIN r = {1} /\ r[1] = x
      BY <2>3
    <3> HIDE DEF r
    <3>2. Range(r) = {x} /\ Fine(r)
      BY <3>1 DEF Range, Fine
    <3> QED
      BY <3>1, <3>2 DEF x, Event
  <2> HIDE DEF r
  <2>5. \A n : Of(n, r) = IF n = "attached" THEN {Child(c, t)} ELSE {}
    BY <2>4, SaidOne
  <2>6. SessionsOf(c, f) = SessionsOf(c, e) \cup {Child(c, t)}
    BY <2>2 DEF SessionsOf
  <2>7. Child(c, t) \notin SessionsOf(c, e)
    <3>1. t \notin e.children
      BY <1>2 DEF Adopts
    <3> QED
      BY <3>1, <1>b, InRecord, Different DEF NamedBy
  <2>8. \A xs : Counted(f, xs) = Counted(e, xs)
    BY <2>2, SameDiscover
  <2>9. Balanced(c, told[c], r, f)
    BY <2>2, <2>4, <2>5, <2>6, <2>7, <2>8, <1>b DEF Balanced
  <2>10. Ready(r, 0, f)
    BY <2>4, <2>5 DEF Ready, Sorted
  <2>11. Succeed(c, r)
    BY <1>2 DEF Adopts, r
  <2>12. BooksOf(c)' /\ reply'[c] = r
    BY <2>11, <1>t, <2>1, <2>9, <2>10, <2>4, AnswerBooks DEF Succeed
  <2> QED
    BY <2>5, <2>12 DEF Says
<1> QED
  BY <1>1, <1>2, ChildEffect

\* A tab's child is detached if there is one.
LEMMA DetachChildBooks ==
  ASSUME Ranges, Stages, Records, NEW c \in Conns, BooksOf(c),
         NEW t \in entry[c].attached, DetachChild(c, t)
  PROVE  BooksOf(c)' /\ Says(c, {Child(c, t)}, {})
<1> DEFINE e == entry[c]
           f == [e EXCEPT !.children = @ \ {t}]
           ss == {Child(c, t)} \cap SessionsOf(c, e)
           r == DetachEvents(c, ss)
<1>t. pc[c] = "idle" /\ told' = told
      /\ \/ Fail(c) /\ UNCHANGED entry
         \/ entry' = [entry EXCEPT ![c].children = @ \ {t}] /\ Succeed(c, r)
  BY DEF DetachChild, Serves
<1>b. /\ e \in Entries /\ e.gone = {} /\ Sure(told[c]) = SessionsOf(c, e)
      /\ told[c].notices = e.discovered /\ Counted(e, e.discovered) = e.discovered
      /\ e.children \subseteq e.attached /\ SessionsOf(c, e) \in SUBSET Of1(c)
  BY <1>t, IdleBooks DEF Sound
<1>1. CASE Fail(c) /\ UNCHANGED entry
  BY <1>1, <1>t, QuietAnswer DEF Fail, Awaits, Says
<1>2. CASE entry' = [entry EXCEPT ![c].children = @ \ {t}] /\ Succeed(c, r)
  <2>1. entry'[c] = f
    BY <1>2 DEF Ranges
  <2>2. /\ f.attached = e.attached /\ f.auto = e.auto /\ f.children = e.children \ {t} /\ f.gone = {}
        /\ f.discover = e.discover /\ f.discovered = e.discovered
    BY <1>b DEF Entries
  <2> HIDE DEF f
  <2>3. ss \in SUBSET Of1(c)
    BY <1>b
  <2>4. SessionsOf(c, f) = SessionsOf(c, e) \ ss
    <3>1. \A s : s \in SessionsOf(c, f) <=> NamedBy(c, f, s)
      BY <1>b, <2>2, InRecord
    <3>2. \A s : s \in SessionsOf(c, e) <=> NamedBy(c, e, s)
      BY <1>b, InRecord
    <3>3. \A s : NamedBy(c, f, s) <=> NamedBy(c, e, s) /\ s # Child(c, t)
      BY <2>2, Different DEF NamedBy
    <3> QED
      BY <3>1, <3>2, <3>3
  <2> HIDE DEF ss
  <2>5. r \in Seq(Events) /\ Range(r) = {Event("detached", s) : s \in ss} /\ Fine(r)
    BY <2>3, DetachList
  <2> HIDE DEF r
  <2>6. \A n : Of(n, r) = IF n = "detached" THEN ss ELSE {}
    BY <2>5, SaidOne
  <2>7. \A xs : Counted(f, xs) = Counted(e, xs)
    BY <2>2, SameDiscover
  <2>8. Balanced(c, told[c], r, f)
    <3>1. ss \subseteq SessionsOf(c, e)
      BY DEF ss
    <3> QED
      BY <3>1, <2>2, <2>4, <2>5, <2>6, <2>7, <1>b DEF Balanced
  <2>9. Ready(r, 0, f)
    <3>1. \A i \in DOMAIN r : r[i].method = "detached"
      BY <2>5 DEF Range, Event
    <3>2. \A s \in ss : s[2] # "tab"
      BY DEF ss, Child
    <3> QED
      BY <3>1, <3>2, <2>6 DEF Ready, Sorted
  <2>11. BooksOf(c)' /\ reply'[c] = r
    BY <1>2, <1>t, <2>1, <2>8, <2>9, <2>5, AnswerBooks DEF Succeed
  <2> QED
    BY <2>6, <2>11 DEF Says, ss
<1> QED
  BY <1>t, <1>1, <1>2

\* Changing what discovery tells of.
LEMMA DiscoverBooks ==
  ASSUME Ranges, Stages, Records, NEW c \in Conns, BooksOf(c),
         NEW discover \in Filters, SetDiscoverTargets(c, discover)
  PROVE  BooksOf(c)' /\ Says(c, {}, {x \in entry[c].discovered : x[2] \notin Visible(c)})
<1> DEFINE o == entry[c]
           e == [o EXCEPT !.discover = discover]
           f == [e EXCEPT !.discovered = Now(c, e)]
           r == DiffEvents(c, e)
<1>t. pc[c] = "idle" /\ told' = told /\ entry' = [entry EXCEPT ![c] = f] /\ Succeed(c, r)
  BY DEF SetDiscoverTargets, Serves, registryVars
<1>b. /\ o \in Entries /\ o.gone = {} /\ Sure(told[c]) = SessionsOf(c, o)
      /\ told[c].notices = o.discovered
  BY <1>t, IdleBooks
<1>1. entry'[c] = f
  BY <1>t DEF Ranges
<1>2. /\ e \in Entries /\ e.discovered = o.discovered /\ e.discover = discover
  BY <1>b, FiltersAssumption DEF Entries
<1>3. /\ f.attached = o.attached /\ f.auto = o.auto /\ f.children = o.children /\ f.gone = {}
      /\ f.discover = e.discover /\ f.discovered = Now(c, e)
  BY <1>b DEF Entries
<1> HIDE DEF e, f
<1> DEFINE known == e.discovered \cap Wanted(e)
           now == Now(c, e)
<1>4. /\ r \in Seq(Events) /\ Fine(r)
      /\ Range(r) = {Event("destroyed", x) : x \in known \ now} \cup {Event("created", x) : x \in now \ known}
      /\ Of("destroyed", r) = known \ now /\ Of("created", r) = now \ known
      /\ Of("attached", r) = {} /\ Of("detached", r) = {}
  BY <1>2, DiffList
<1>5. /\ \A xs \in SUBSET Notices : Counted(f, xs) = xs \cap Wanted(e)
      /\ now \subseteq Wanted(e) /\ Wanted(e) \in SUBSET Notices /\ e.discovered \in SUBSET Notices
  BY <1>2, <1>3, CountedWanted, SameDiscover DEF Entries
<1> HIDE DEF r, known, now
<1>6. SessionsOf(c, f) = SessionsOf(c, o)
  BY <1>3 DEF SessionsOf
<1>7. Balanced(c, told[c], r, f)
  <2>1. now \in SUBSET Notices /\ known \in SUBSET Notices
    BY <1>5 DEF known
  <2>2. Counted(f, (e.discovered \cup (now \ known)) \ (known \ now)) = now
    <3> DEFINE xs == (e.discovered \cup (now \ known)) \ (known \ now)
    <3>1. xs \in SUBSET Notices
      BY <2>1, <1>5
    <3>2. xs \cap Wanted(e) = now
      BY <1>5 DEF known
    <3> HIDE DEF xs
    <3>3. Counted(f, xs) = now
      BY <3>1, <3>2, <1>5
    <3> QED
      BY <3>3 DEF xs
  <2>3. Counted(f, e.discovered) = known
    BY <1>5 DEF known
  <2>4. known \subseteq e.discovered
    BY DEF known
  <2> QED
    BY <2>2, <2>3, <2>4, <1>2, <1>3, <1>4, <1>6, <1>b DEF Balanced, now
<1>8. Ready(r, 0, f)
  <2>1. \A i \in DOMAIN r : r[i].method \in {"created", "destroyed"}
    BY <1>4 DEF Range, Event
  <2> QED
    BY <2>1, <1>4 DEF Ready, Sorted
<1>10. BooksOf(c)' /\ reply'[c] = r
  BY <1>t, <1>1, <1>7, <1>8, <1>4, AnswerBooks DEF Succeed, r
<1>11. \A x \in known \ now : x \in entry[c].discovered /\ x[2] \notin Visible(c)
  BY <1>2, CountedWanted DEF known, now, Entries
<1> QED
  BY <1>4, <1>10, <1>11 DEF Says

\* A target's name is not that of any target in a record or a reply.
LEMMA Unnamed ==
  ASSUME NEW t, t \notin NamedTargets, NEW c \in Conns
  PROVE  /\ t \notin entry[c].attached
         /\ \A s \in entry[c].gone : TargetOf(s) # t
         /\ \A x \in entry[c].discovered : x[2] # t
         /\ \A i \in DOMAIN reply[c] : Last(reply[c][i].what) # t
<1> DEFINE A(d) == entry[d].attached \cup {TargetOf(s) : s \in entry[d].gone \cup told[d].sessions}
                     \cup {x[2] : x \in entry[d].discovered \cup told[d].notices}
           B(d) == {Last(reply[d][i].what) : i \in DOMAIN reply[d]}
<1>1. UNION {A(d) : d \in Conns} \subseteq NamedTargets /\ UNION {B(d) : d \in Conns} \subseteq NamedTargets
  BY DEF NamedTargets
<1>2. A(c) \subseteq UNION {A(d) : d \in Conns} /\ B(c) \subseteq UNION {B(d) : d \in Conns}
  <2> HIDE DEF A, B
  <2> QED
    OBVIOUS
<1>3. t \notin A(c) /\ t \notin B(c)
  BY <1>1, <1>2
<1> QED
  BY <1>3

\* A new target is told of, where that is wanted, before its session is.
LEMMA CreateBooks ==
  ASSUME Ranges, Stages, Records, NEW c \in Conns, BooksOf(c),
         NEW cx \in Conns \cup {Default}, NEW t \in Targets, CreateTarget(c, cx, t)
  PROVE  BooksOf(c)' /\ Says(c, {}, {})
<1> DEFINE e == entry[c]
           f == Added(c, t)
           both == {"page", "tab"} \X {t}
           known == Counted(e, both)
           new == New(c, t)
           r1 == CreatedEvents(known)
           r2 == EventsOf("attached", Listed(SessionsInOrder[c], new))
           r == r1 \o r2
<1>t. pc[c] = "idle" /\ told' = told /\ t \notin NamedTargets
  BY CreateEffect DEF Serves
<1>b. /\ e \in Entries /\ e.gone = {} /\ Sure(told[c]) = SessionsOf(c, e)
      /\ told[c].notices = e.discovered /\ Counted(e, e.discovered) = e.discovered
      /\ \A s \in SessionsOf(c, e) : TargetOf(s) \in e.attached
      /\ e.children \subseteq e.attached /\ (e.auto = "off" => e.attached = {})
      /\ e.discovered \in SUBSET Notices /\ e.discover \in Kinds
  BY <1>t, IdleBooks DEF Sound, Entries
<1>1. CASE Refused(c)
  BY <1>1, <1>t, QuietAnswer DEF Refused, Fail, Awaits, Says
<1>2. CASE Creates(c, cx, t)
  <2>1. entry'[c] = f
    BY <1>2 DEF Ranges, Creates
  <2>2. /\ f.attached = (IF new = {} THEN e.attached ELSE e.attached \cup {t})
        /\ f.auto = e.auto /\ f.children = e.children /\ f.gone = {}
        /\ f.discover = e.discover /\ f.discovered = e.discovered \cup known
    BY <1>b DEF Entries, Added
  <2> HIDE DEF f
  <2>3. t \notin e.attached /\ \A x \in e.discovered : x[2] # t
    BY <1>t, Unnamed
  <2>4. both \in SUBSET Notices
    BY DEF Notices
  <2>5. /\ known = both \cap Wanted(e) /\ known \in SUBSET Notices /\ \A x \in known : x[2] = t
        /\ \A xs \in SUBSET Notices : Counted(e, xs) = xs \cap Wanted(e)
    BY <1>b, <2>4, CountedWanted
  <2>6. new \in SUBSET Of1(c) /\ (\A s \in new : TargetOf(s) = t)
        /\ new = IF e.auto = "off" THEN {} ELSE {Root(c, e.auto, t)}
    BY Names DEF New, Of1
  <2> HIDE DEF both, known, new
  <2>7. r1 \in Seq(Events) /\ Range(r1) = {Event("created", x) : x \in known} /\ Fine(r1)
    BY <2>5, NoticeLists
  <2>8. r2 \in Seq(Events) /\ Range(r2) = {Event("attached", s) : s \in new} /\ Fine(r2)
    BY <2>6, NewList
  <2> HIDE DEF r1, r2
  <2>9. r1 \in Seq(Events) /\ r2 \in Seq(Events) /\ Fine(r1) /\ Fine(r2)
    BY <2>7, <2>8
  <2>10. Clear(Range(r1), Range(r2))
    BY <2>7, <2>8 DEF Clear, Clash, Event
  <2>11. r \in Seq(Events) /\ Range(r) = Range(r1) \cup Range(r2) /\ Fine(r)
    BY <2>9, <2>10, Joined
  <2> HIDE DEF r
  <2>12. \A n : Of(n, r) = Of(n, r1) \cup Of(n, r2)
    BY <2>9, <2>11, SaidMore
  <2>13. \A n : Of(n, r1) = IF n = "created" THEN known ELSE {}
    BY <2>7, SaidOne
  <2>14. \A n : Of(n, r2) = IF n = "attached" THEN new ELSE {}
    BY <2>8, SaidOne
  <2>15. /\ Of("created", r) = known /\ Of("attached", r) = new
        /\ Of("detached", r) = {} /\ Of("destroyed", r) = {}
    BY <2>12, <2>13, <2>14
  <2>16. SessionsOf(c, f) = SessionsOf(c, e) \cup new
    BY <2>2, <2>6, <1>b DEF SessionsOf
  <2>17. new \cap SessionsOf(c, e) = {}
    BY <2>3, <2>6, <1>b
  <2>18. \A xs : Counted(f, xs) = Counted(e, xs)
    BY <2>2, SameDiscover
  <2>19. Balanced(c, told[c], r, f)
    <3>1. Counted(f, (e.discovered \cup known) \ {}) = e.discovered \cup known
      <4> DEFINE xs == (e.discovered \cup known) \ {}
      <4>1. xs \in SUBSET Notices
        BY <1>b, <2>5
      <4>2. xs \cap Wanted(e) = xs /\ xs = e.discovered \cup known
        BY <1>b, <2>5
      <4> HIDE DEF xs
      <4> QED
        BY <4>1, <4>2, <2>5, <2>18 DEF xs
    <3>2. known \cap Counted(f, e.discovered) = {}
      BY <1>b, <2>3, <2>5, <2>18
    <3> QED
      BY <3>1, <3>2, <2>2, <2>11, <2>15, <2>16, <2>17, <1>b DEF Balanced
  <2>20. Ready(r, Len(r), f)
    <3>1. \A i \in DOMAIN r : r[i].method \in {"created", "attached"}
      <4>1. \A i \in DOMAIN r : r[i] \in Range(r)
        BY DEF Range
      <4>2. \A x \in Range(r) : x.method \in {"created", "attached"}
        BY <2>7, <2>8, <2>11 DEF Event
      <4> QED
        BY <4>1, <4>2
    <3>2. Len(r) = 0 => Sorted(r)
      <4>1. DOMAIN r = 1 .. Len(r)
        BY <2>11
      <4> QED
        BY <4>1 DEF Sorted
    <3>3. \A s \in Of("attached", r) : Counted(f, {"page", "tab"} \X {TargetOf(s)}) \subseteq f.discovered
      <4> SUFFICES ASSUME NEW s \in new
                   PROVE  Counted(f, {"page", "tab"} \X {TargetOf(s)}) \subseteq f.discovered
        BY <2>15
      <4>1. {"page", "tab"} \X {TargetOf(s)} = both
        BY <2>6 DEF both
      <4>2. Counted(f, both) = known
        BY <2>4, <2>5, <2>18
      <4> QED
        BY <4>1, <4>2, <2>2
    <3> QED
      BY <3>1, <3>2, <3>3, <2>15 DEF Ready
  <2>21. r \o <<>> = r /\ Len(r) = Len(r)
    BY <2>11, ConcatEmptySeq
  <2>22. \E next \in {"ended", "commit"} : \E ids : Handled(c, next, ids, r, <<>>, FALSE)
    BY <1>2 DEF Creates, r, r1, r2, known, both, new
  <2>23. BooksOf(c)' /\ reply'[c] = r
    BY <1>t, <2>1, <2>19, <2>20, <2>21, <2>22, HandledBooks
  <2> QED
    BY <2>15, <2>23 DEF Says
<1> QED
  BY <1>1, <1>2, CreateEffect

\* Closing a target ends the connection's own sessions for it, and then the target.
LEMMA CloseBooks ==
  ASSUME Ranges, Stages, Records, NEW c \in Conns, BooksOf(c), NEW t \in Targets, CloseTarget(c, t)
  PROVE  BooksOf(c)' /\ Says(c, {s \in Sessions : TargetOf(s) = t}, {x \in Notices : x[2] = t})
<1> DEFINE e == entry[c]
           own == {s \in SessionsOf(c, e) : TargetOf(s) = t}
           known == {x \in e.discovered : x[2] = t}
           f == [e EXCEPT !.attached = @ \ {t}, !.children = @ \ {t}, !.discovered = @ \ known]
           r1 == DetachEvents(c, own)
           r2 == DestroyedEvents(known)
           r == r1 \o r2
<1>t. /\ pc[c] = "idle" /\ told' = told
      /\ \/ Fail(c) /\ UNCHANGED entry
         \/ /\ entry' = [entry EXCEPT ![c].attached = @ \ {t}, ![c].children = @ \ {t},
                                      ![c].discovered = @ \ known]
            /\ Handled(c, "forget", {t}, <<>>, r, FALSE)
  BY DEF CloseTarget, Serves
<1>b. /\ e \in Entries /\ e.gone = {} /\ Sure(told[c]) = SessionsOf(c, e)
      /\ told[c].notices = e.discovered /\ Counted(e, e.discovered) = e.discovered
      /\ SessionsOf(c, e) \in SUBSET Of1(c)
      /\ e.children \subseteq e.attached
      /\ e.discovered \in SUBSET Notices /\ e.discover \in Kinds
  BY <1>t, IdleBooks DEF Sound, Entries
<1>1. CASE Fail(c) /\ UNCHANGED entry
  BY <1>1, <1>t, QuietAnswer DEF Fail, Awaits, Says
<1>2. CASE /\ entry' = [entry EXCEPT ![c].attached = @ \ {t}, ![c].children = @ \ {t},
                                     ![c].discovered = @ \ known]
           /\ Handled(c, "forget", {t}, <<>>, r, FALSE)
  <2>1. entry'[c] = f
    BY <1>2 DEF Ranges
  <2>2. /\ f.attached = e.attached \ {t} /\ f.auto = e.auto /\ f.children = e.children \ {t} /\ f.gone = {}
        /\ f.discover = e.discover /\ f.discovered = e.discovered \ known
    BY <1>b DEF Entries
  <2> HIDE DEF f
  <2>3. own \in SUBSET Of1(c) /\ own \subseteq SessionsOf(c, e) /\ \A s \in own : TargetOf(s) = t
    BY <1>b
  <2>4. SessionsOf(c, f) = SessionsOf(c, e) \ own
    <3>1. \A s : s \in SessionsOf(c, f) <=> NamedBy(c, f, s)
      <4>1. f.children \subseteq f.attached
        BY <1>b, <2>2
      <4> QED
        BY <4>1, InRecord
    <3>2. \A s : s \in SessionsOf(c, e) <=> NamedBy(c, e, s)
      BY <1>b, InRecord
    <3>3. \A u : TargetOf(Root(c, e.auto, u)) = u /\ TargetOf(Child(c, u)) = u
      BY DEF TargetOf, Root, Child
    <3>4. \A s : NamedBy(c, f, s) <=> NamedBy(c, e, s) /\ TargetOf(s) # t
      BY <2>2, <3>3 DEF NamedBy
    <3> QED
      BY <3>1, <3>2, <3>4
  <2>5. known \in SUBSET Notices /\ known \subseteq e.discovered
    BY <1>b
  <2> HIDE DEF own, known
  <2>6. r1 \in Seq(Events) /\ Range(r1) = {Event("detached", s) : s \in own} /\ Fine(r1)
    BY <2>3, DetachList
  <2>7. r2 \in Seq(Events) /\ Range(r2) = {Event("destroyed", x) : x \in known} /\ Fine(r2)
    BY <2>5, NoticeLists
  <2> HIDE DEF r1, r2
  <2>8. r1 \in Seq(Events) /\ r2 \in Seq(Events) /\ Fine(r1) /\ Fine(r2)
    BY <2>6, <2>7
  <2>9. Clear(Range(r1), Range(r2))
    BY <2>6, <2>7 DEF Clear, Clash, Event
  <2>10. r \in Seq(Events) /\ Range(r) = Range(r1) \cup Range(r2) /\ Fine(r)
    BY <2>8, <2>9, Joined
  <2>11. \A n : Of(n, r) = Of(n, r1) \cup Of(n, r2)
    <3> HIDE DEF r
    <3> QED
      BY <2>8, <2>10, SaidMore
  <2>12. \A n : Of(n, r1) = IF n = "detached" THEN own ELSE {}
    BY <2>6, SaidOne
  <2>13. \A n : Of(n, r2) = IF n = "destroyed" THEN known ELSE {}
    BY <2>7, SaidOne
  <2>14. /\ Of("created", r) = {} /\ Of("attached", r) = {}
        /\ Of("detached", r) = own /\ Of("destroyed", r) = known
    BY <2>11, <2>12, <2>13
  <2>15. \A xs \in SUBSET Notices : Counted(f, xs) = xs \cap Wanted(e)
    BY <2>2, <1>b, SameDiscover, CountedWanted
  <2>16. e.discovered \subseteq Wanted(e)
    BY <1>b, CountedWanted
  <2>17. Ready(r, 0, f)
    <3>1. \A i \in DOMAIN r : r[i].method \in {"detached", "destroyed"}
      BY <2>6, <2>7, <2>10 DEF Range, Event
    <3>2. \A i, j \in DOMAIN r : i < j /\ r[i].method = "destroyed" => r[j].method # "detached"
      <4>1. Len(r1) \in Nat /\ Len(r2) \in Nat /\ DOMAIN r = 1 .. Len(r1) + Len(r2)
            /\ \A i \in 1 .. Len(r1) + Len(r2) : r[i] = IF i <= Len(r1) THEN r1[i] ELSE r2[i - Len(r1)]
        <5>1. Len(r1) \in Nat /\ Len(r2) \in Nat /\ Len(r) = Len(r1) + Len(r2)
              /\ \A i \in 1 .. Len(r1) + Len(r2) : r[i] = IF i <= Len(r1) THEN r1[i] ELSE r2[i - Len(r1)]
          BY <2>8, ConcatProperties, LenProperties
        <5>2. DOMAIN r = 1 .. Len(r)
          BY <2>10, LenProperties
        <5> QED
          BY <5>1, <5>2
      <4>2. DOMAIN r1 = 1 .. Len(r1) /\ DOMAIN r2 = 1 .. Len(r2)
        BY <2>8
      <4>3. \A i \in DOMAIN r1 : r1[i].method = "detached"
        BY <2>6 DEF Range, Event
      <4>4. \A i \in DOMAIN r2 : r2[i].method = "destroyed"
        BY <2>7 DEF Range, Event
      <4> HIDE DEF r
      <4>5. \A i \in DOMAIN r : IF i <= Len(r1) THEN r[i].method = "detached" ELSE r[i].method = "destroyed"
        <5> SUFFICES ASSUME NEW i \in DOMAIN r
                     PROVE  IF i <= Len(r1) THEN r[i].method = "detached" ELSE r[i].method = "destroyed"
          OBVIOUS
        <5>1. CASE i <= Len(r1)
          BY <5>1, <4>1, <4>2, <4>3
        <5>2. CASE ~ (i <= Len(r1))
          <6>1. i \in 1 .. Len(r1) + Len(r2)
            BY <4>1
          <6>2. i - Len(r1) \in DOMAIN r2 /\ r[i] = r2[i - Len(r1)]
            BY <6>1, <5>2, <4>1, <4>2
          <6> QED
            BY <6>2, <5>2, <4>4
        <5> QED
          BY <5>1, <5>2
      <4> QED
        BY <4>1, <4>5
    <3> QED
      BY <3>1, <3>2, <2>2, <2>3, <2>14 DEF Ready, Sorted
  <2> HIDE DEF r
  <2>18. Balanced(c, told[c], r, f)
    <3>1. Counted(f, (e.discovered \cup {}) \ known) = e.discovered \ known
      <4> DEFINE xs == (e.discovered \cup {}) \ known
      <4>1. xs \in SUBSET Notices /\ xs \cap Wanted(e) = xs /\ xs = e.discovered \ known
        BY <1>b, <2>16
      <4> HIDE DEF xs
      <4> QED
        BY <4>1, <2>15 DEF xs
    <3> QED
      BY <3>1, <2>2, <2>3, <2>4, <2>5, <2>10, <2>14, <1>b DEF Balanced
  <2>20. BooksOf(c)' /\ reply'[c] = r
    BY <1>2, <1>t, <2>1, <2>17, <2>18, <2>10, AnswerBooks
  <2>21. \A x \in known : x[2] = t
    BY DEF known
  <2> QED
    BY <2>3, <2>5, <2>14, <2>20, <2>21 DEF Says, Of1
<1> QED
  BY <1>t, <1>1, <1>2

\* What a sweep takes out of a record waits to be reported.
LEMMA SweptSessions ==
  ASSUME NEW c \in Conns, NEW e \in Entries, Sound(e)
  PROVE  LET f == Swept(c, e)
             lost == {t \in e.attached : Root(c, e.auto, t) \notin live}
         IN  /\ f.discovered = e.discovered
             /\ f.gone = e.gone \cup {s \in SessionsOf(c, e) : TargetOf(s) \in lost}
             /\ SessionsOf(c, f) = {s \in SessionsOf(c, e) : TargetOf(s) \notin lost}
             /\ SessionsOf(c, f) \cup f.gone = SessionsOf(c, e) \cup e.gone
<1> DEFINE f == Swept(c, e)
           lost == {t \in e.attached : Root(c, e.auto, t) \notin live}
           g == {s \in SessionsOf(c, e) : TargetOf(s) \in lost}
<1>1. f = [e EXCEPT !.attached = @ \ lost, !.children = @ \ lost, !.gone = @ \cup g]
  BY DEF Swept
<1>2. f.discovered = e.discovered /\ f.gone = e.gone \cup g
  <2> HIDE DEF f, g, lost
  <2> QED
    BY <1>1 DEF Entries
<1>3. f.auto = e.auto /\ f.attached = e.attached \ lost /\ f.children = {t \in e.children : t \notin lost}
      /\ f.children \subseteq f.attached /\ e.children \subseteq e.attached
  <2> HIDE DEF f, g, lost
  <2> QED
    BY <1>1 DEF Entries, Sound
<1> HIDE DEF f, lost
<1>4. \A s : s \in SessionsOf(c, f) <=> s \in SessionsOf(c, e) /\ TargetOf(s) \notin lost
  <2> TAKE s
  <2>1. s \in SessionsOf(c, f) <=> NamedBy(c, f, s)
    BY <1>3, InRecord
  <2>2. s \in SessionsOf(c, e) <=> NamedBy(c, e, s)
    BY <1>3, InRecord
  <2>3. \A u : TargetOf(Root(c, e.auto, u)) = u /\ TargetOf(Child(c, u)) = u
    BY DEF TargetOf, Root, Child
  <2>4. NamedBy(c, f, s) <=> NamedBy(c, e, s) /\ TargetOf(s) \notin lost
    BY <1>3, <2>3 DEF NamedBy
  <2> QED
    BY <2>1, <2>2, <2>4
<1>5. SessionsOf(c, f) = {s \in SessionsOf(c, e) : TargetOf(s) \notin lost}
  BY <1>4
<1>6. SessionsOf(c, f) \cup f.gone = SessionsOf(c, e) \cup e.gone
  BY <1>2, <1>5
<1> QED
  BY <1>2, <1>5, <1>6 DEF f, lost

\* Listing the targets to attach to: what is gone is still counted.
LEMMA ListBooks ==
  ASSUME Ranges, Stages, Records, NEW c \in Conns, BooksOf(c),
         NEW auto \in {"pages", "tabs"}, NEW wait \in BOOLEAN, SetAutoAttach(c, auto, wait)
  PROVE  BooksOf(c)'
<1> DEFINE o == entry[c]
           e == Swept(c, o)
<1>t. /\ pc[c] = "idle" /\ told' = told
      /\ \/ Fail(c) /\ UNCHANGED entry
         \/ /\ entry' = [entry EXCEPT ![c] = e]
            /\ pc' = [pc EXCEPT ![c] = "enable"]
            /\ job' = [job EXCEPT ![c] = [NoJob EXCEPT !.ids = Missing(c, e, auto),
                                                       !.auto = auto, !.wait = wait]]
  BY DEF SetAutoAttach, Serves
<1>b. /\ o \in Entries /\ Sound(o) /\ o.gone = {} /\ Believed(c, told[c], o)
  BY <1>t, IdleBooks
<1>1. CASE Fail(c) /\ UNCHANGED entry
  BY <1>1, <1>t, QuietAnswer DEF Fail, Awaits
<1>2. CASE /\ entry' = [entry EXCEPT ![c] = e]
           /\ pc' = [pc EXCEPT ![c] = "enable"]
           /\ job' = [job EXCEPT ![c] = [NoJob EXCEPT !.ids = Missing(c, e, auto),
                                                      !.auto = auto, !.wait = wait]]
  <2>1. /\ e.discovered = o.discovered /\ SessionsOf(c, e) \cup e.gone = SessionsOf(c, o) \cup o.gone
        /\ e.discover = o.discover
    BY <1>b, SweptSessions, SweptSound
  <2> HIDE DEF e
  <2>2. entry'[c] = e /\ pc'[c] = "enable" /\ job'[c].ids = Missing(c, e, auto) /\ told'[c] = told[c]
    BY <1>2, <1>t DEF Ranges, NoJob
  <2>3. Believed(c, told[c], e)
    BY <2>1, <1>b, SameDiscover DEF Believed
  <2>4. job'[c].ids \cap e.attached = {}
    BY <2>2 DEF Missing
  <2>5. ~ Away(c)' /\ Awaits(c)' /\ ~ Busy(c)' /\ ~ Answered(c)'
    BY <2>2 DEF Away, Over, Awaits, Busy, Answered
  <2> HIDE DEF Away, Awaits, Busy, Answered, Believed
  <2> QED
    BY <2>2, <2>3, <2>4, <2>5 DEF BooksOf
<1> QED
  BY <1>t, <1>1, <1>2

\* A step on the way to the reconciliation, or after the record has gone.
LEMMA PassBooks ==
  ASSUME NEW c \in Conns, BooksOf(c), UNCHANGED <<entry, reply, told>>,
         Away(c)' => Away(c), ~ Awaits(c)', Busy(c)' => Answered(c)', Answered(c)' <=> Answered(c),
         pc[c] # "enable", pc'[c] \notin {"enable", "attach"}, Answered(c)' => job'[c].early = job[c].early
  PROVE  BooksOf(c)'
<1> HIDE DEF Away, Awaits, Busy, Answered, Balanced, Ready, Believed
<1>1. Answered(c) => Busy(c)
  BY DEF Busy
<1>2. Balanced(c, told[c], reply[c], entry[c]) = Balanced(c, told[c], reply[c], entry[c])'
      /\ Ready(reply[c], job[c].early, entry[c])' = Ready(reply[c], job'[c].early, entry[c])
  BY DEF Balanced, Ready, SessionsOf
<1> QED
  BY <1>1, <1>2 DEF BooksOf

\* The steps that leave the records alone.
LEMMA PlainBooks ==
  ASSUME Ranges, Stages, Records, NEW c \in Conns, BooksOf(c),
         \/ \E failed \in BOOLEAN : Other(c, failed)
         \/ CreateBrowserContext(c)
         \/ \E s \in told[c].sessions : RunIfWaitingForDebugger(c, s)
         \/ Open(c) \/ Release(c) \/ Forget(c)
         \/ \E t \in job[c].ids : CommitInitialBlank(c, t)
         \/ TakeOrphanedPaused(c, "ended", "reconcile") \/ TakeOrphanedPaused(c, "orphans", "prune")
         \/ \E s \in job[c].ids : DetachNext(c, s)
         \/ DisposeBrowserContext(c) \/ Prune(c)
  PROVE  BooksOf(c)'
<1>t. pc \in [Conns -> PCs] /\ job \in [Conns -> Jobs] /\ entry \in [Conns -> Entries]
      /\ told \in [Conns -> [sessions : SUBSET Sessions, ghosts : SUBSET Sessions, notices : SUBSET Notices]]
  BY DEF Ranges
<1>q. ASSUME pc[c] = "idle", NEW next \in {"ended", "commit"}, NEW ids, NEW failed,
             Handled(c, next, ids, <<>>, <<>>, failed), told' = told, entry' = entry
      PROVE  BooksOf(c)'
  BY <1>q, QuietAnswer DEF Awaits
<1>1. CASE \E failed \in BOOLEAN : Other(c, failed)
  BY <1>1, <1>q DEF Other, Serves
<1>2. CASE CreateBrowserContext(c)
  BY <1>2, <1>q DEF CreateBrowserContext, Serves, Fail, Succeed
<1>3. CASE \E s \in told[c].sessions : RunIfWaitingForDebugger(c, s)
  BY <1>3, <1>q DEF RunIfWaitingForDebugger, Serves, Fail, Succeed
<1>4. CASE Open(c)
  <2>1. pc[c] = "closed" /\ pc'[c] = "idle" /\ entry'[c] = NewEntry /\ told' = told
    BY <1>4, <1>t DEF Open
  <2>2. told[c] = Nothing
    BY <2>1 DEF BooksOf, Away, Over
  <2>3. Believed(c, told[c], NewEntry)
    BY <2>2 DEF Believed, Sure, Nothing, NewEntry, SessionsOf, Counted
  <2>4. ~ Away(c)' /\ ~ Busy(c)' /\ ~ Answered(c)'
    BY <2>1 DEF Away, Over, Busy, Answered
  <2> HIDE DEF Away, Busy, Answered, Believed
  <2> QED
    BY <2>1, <2>3, <2>4 DEF BooksOf, NewEntry
<1>5. CASE Release(c)
  <2>1. pc'[c] \in {"dispose", "detach"} /\ entry'[c] = NewEntry /\ told'[c] = Nothing
    BY <1>5, <1>t DEF Release
  <2>2. ~ Awaits(c)' /\ ~ Busy(c)' /\ ~ Answered(c)'
    BY <2>1 DEF Awaits, Busy, Answered
  <2> HIDE DEF Awaits, Busy, Answered
  <2> QED
    BY <2>1, <2>2 DEF BooksOf, NewEntry
<1>6. CASE Forget(c)
  <2>1. pc[c] = "forget" /\ pc'[c] = "ended" /\ job'[c].early = job[c].early
        /\ UNCHANGED <<entry, reply, told>>
    BY <1>6, <1>t DEF Forget, Jobs
  <2>2. Away(c)' => Away(c)
    BY <2>1 DEF Away, Over
  <2>3. ~ Awaits(c)' /\ Answered(c)' /\ Answered(c)
    BY <2>1 DEF Awaits, Answered
  <2> QED
    BY <2>1, <2>2, <2>3, PassBooks
<1>7. CASE \E t \in job[c].ids : CommitInitialBlank(c, t)
  <2>1. /\ pc[c] = "commit" /\ pc'[c] \in {"commit", job[c].next}
        /\ job'[c].early = job[c].early /\ job'[c].next = job[c].next
        /\ UNCHANGED <<entry, reply, told>> /\ job[c].next \in {"ended", "reconcile", "prune"}
    BY <1>7, <1>t DEF CommitInitialBlank, Jobs, Stages
  <2>2. Away(c)' => Away(c)
    BY <2>1 DEF Away, Over
  <2>3. ~ Awaits(c)' /\ (Answered(c)' <=> Answered(c)) /\ (Busy(c)' => Answered(c)')
    BY <2>1 DEF Awaits, Answered, Busy
  <2> QED
    BY <2>1, <2>2, <2>3, PassBooks
<1>8. CASE TakeOrphanedPaused(c, "ended", "reconcile")
  <2>1. /\ pc[c] = "ended" /\ pc'[c] \in {"reconcile", "commit"} /\ job'[c].next = "reconcile"
        /\ job'[c].early = job[c].early /\ UNCHANGED <<entry, reply, told>>
    BY <1>8, <1>t DEF TakeOrphanedPaused, Jobs
  <2>2. Away(c)' => Away(c)
    BY <2>1 DEF Away, Over
  <2>3. ~ Awaits(c)' /\ Answered(c)' /\ Answered(c)
    BY <2>1 DEF Awaits, Answered
  <2> QED
    BY <2>1, <2>2, <2>3, PassBooks
<1>9. CASE TakeOrphanedPaused(c, "orphans", "prune")
  <2>1. /\ pc[c] = "orphans" /\ pc'[c] \in {"prune", "commit"} /\ job'[c].next = "prune"
        /\ UNCHANGED <<entry, reply, told>>
    BY <1>9, <1>t DEF TakeOrphanedPaused, Jobs
  <2>2. Away(c)
    BY <2>1 DEF Away, Over
  <2>3. ~ Awaits(c)' /\ ~ Answered(c)' /\ ~ Answered(c) /\ ~ Busy(c)'
    BY <2>1 DEF Awaits, Answered, Busy
  <2> QED
    BY <2>1, <2>2, <2>3, PassBooks
<1>10. CASE (\E s \in job[c].ids : DetachNext(c, s)) \/ DisposeBrowserContext(c) \/ Prune(c)
  <2>1. /\ pc[c] \in {"detach", "dispose", "prune"}
        /\ pc'[c] \in {"detach", "dispose", "orphans", "closed"}
        /\ UNCHANGED <<entry, reply, told>>
    BY <1>10, <1>t DEF DetachNext, DisposeBrowserContext, Prune
  <2>2. Away(c)
    BY <2>1 DEF Away, Over
  <2>3. ~ Awaits(c)' /\ ~ Answered(c)' /\ ~ Answered(c) /\ ~ Busy(c)'
    BY <2>1 DEF Awaits, Answered, Busy
  <2> QED
    BY <2>1, <2>2, <2>3, PassBooks
<1> QED
  BY <1>1, <1>2, <1>3, <1>4, <1>5, <1>6, <1>7, <1>8, <1>9, <1>10

\* The frames go out: the client believes what the record says.
LEMMA SendBooks ==
  ASSUME Ranges, NEW c \in Conns, BooksOf(c), Send(c)
  PROVE  BooksOf(c)'
<1> DEFINE e == entry[c]
           r == reply[c]
           ss == (Sure(told[c]) \cup Of("attached", r)) \ Of("detached", r)
           ns == (told[c].notices \cup Of("created", r)) \ Of("destroyed", r)
           b == told'[c]
<1>1. /\ pc[c] = "send" /\ pc'[c] = "idle" /\ entry' = entry
      /\ b.sessions = Heard(told[c].sessions, r, "attached", "detached")
      /\ b.ghosts = (told[c].ghosts \ Of("attached", r)) \cup Crossed(r)
      /\ b.notices = Counted(e, Heard(told[c].notices, r, "created", "destroyed"))
  BY DEF Send, Ranges
<1>2. ~ Away(c)' /\ ~ Busy(c)' /\ ~ Answered(c)' /\ Busy(c) /\ ~ Answered(c)
  BY <1>1 DEF Away, Over, Busy, Answered
<1>3. Balanced(c, told[c], r, e) /\ e.gone = {}
  BY <1>1, <1>2 DEF BooksOf
<1>4. e.discover \in Kinds /\ e.discovered \in SUBSET Notices
  BY DEF Ranges, Entries
<1>5. ns \in SUBSET Notices
  BY SaidAll DEF Ranges
<1> HIDE DEF e, r
<1>6. Counted(e, Counted(e, ns)) = Counted(e, ns)
  <2> DEFINE xs == ns \cap Wanted(e)
  <2>1. Counted(e, ns) = xs /\ xs \in SUBSET Notices /\ xs \cap Wanted(e) = xs
    BY <1>4, <1>5, CountedWanted
  <2> HIDE DEF xs, ns
  <2>2. Counted(e, xs) = xs
    BY <2>1, <1>4, CountedWanted
  <2> QED
    BY <2>1, <2>2
<1>7. ss = SessionsOf(c, e) \cup e.gone /\ Counted(e, ns) = e.discovered
  BY <1>3 DEF Balanced
<1>9. r \in Seq(Events) /\ Fine(r)
  BY <1>3 DEF Ranges, Balanced, r
<1>10. b.notices = Counted(e, ns)
  BY <1>1, <1>9, HeardNotices
<1>11. Sure(b) = ss
  BY <1>1, <1>9, HeardSessions DEF Sure
<1> HIDE DEF ss, ns
<1>8. Believed(c, b, e)
  BY <1>6, <1>7, <1>10, <1>11 DEF Believed
<1> HIDE DEF b, Away, Busy, Answered, Believed
<1> QED
  BY <1>1, <1>2, <1>3, <1>8 DEF BooksOf, e, b

\* The targets there is room for are there.
LEMMA Attached ==
  ASSUME NEW ids \in SUBSET Targets
  PROVE  Attachable(ids) \in SUBSET ids /\ Attachable(ids) \subseteq LiveTargets
<1> SUFFICES ASSUME NEW t \in Attachable(ids) PROVE t \in ids /\ t \in LiveTargets
  OBVIOUS
<1>1. t \in ids
  BY DEF Attachable
<1>2. t <= t
  BY <1>1 DEF Targets
<1> QED
  BY <1>1, <1>2 DEF Attachable

\* Attaching to what is missing: to nothing that is attached, or was reported gone.
LEMMA MissingBooks ==
  ASSUME Ranges, Stages, Records, NEW c \in Conns, BooksOf(c), CurrentOf(c), AttachMissing(c)
  PROVE  BooksOf(c)' /\ Of("detached", reply'[c]) = Of("detached", reply[c])
<1> DEFINE e == entry[c]
           b == told[c]
           r == reply[c]
           ts == Attachable(job[c].ids)
           new == {Root(c, e.auto, t) : t \in ts}
           f == [e EXCEPT !.attached = @ \cup ts]
           a == AttachEvents(c, e.auto, Ascending(ts))
           w == r \o a
<1>1. /\ pc[c] = "attach" /\ pc'[c] = "send" /\ told' = told
      /\ entry' = [entry EXCEPT ![c].attached = @ \cup ts] /\ reply'[c] = w
  BY DEF AttachMissing, Ranges
<1>2. Busy(c) /\ ~ Answered(c) /\ ~ Away(c)' /\ ~ Awaits(c)' /\ ~ Answered(c)'
  BY <1>1 DEF Away, Over, Awaits, Busy, Answered
<1>3. /\ e \in Entries /\ r \in Seq(Events) /\ e.children \subseteq e.attached /\ e.attached \subseteq Targets
      /\ job[c].ids \in SUBSET Targets /\ e.auto # "off"
  BY <1>1 DEF Ranges, Entries, Stages, Records
<1>4. Balanced(c, b, r, e) /\ e.gone = {} /\ job[c].ids \cap e.attached = {}
  BY <1>1, <1>2 DEF BooksOf
<1>5. ts \in SUBSET Targets /\ ts \subseteq LiveTargets /\ ts \cap e.attached = {}
  BY <1>3, <1>4, Attached
<1>6. entry'[c] = f
  BY <1>1 DEF Ranges
<1>7. /\ f.attached = e.attached \cup ts /\ f.auto = e.auto /\ f.children = e.children /\ f.gone = {}
      /\ f.discover = e.discover /\ f.discovered = e.discovered
  BY <1>3, <1>4 DEF Entries
<1>8. \A s \in new : TargetOf(s) \in ts /\ s[2] # "child" /\ s \in Sessions
  BY <1>5, Names DEF Root
<1>9. \A s \in Of("detached", r) : s[2] = "child" \/ TargetOf(s) \notin LiveTargets
  BY <1>2, <1>3 DEF CurrentOf
<1>10. a \in Seq(Events) /\ Range(a) = {Event("attached", s) : s \in new} /\ Fine(a)
  <2>1. a \in Seq(Events) /\ Range(a) = {Event("attached", Root(c, e.auto, t)) : t \in ts} /\ Fine(a)
    BY <1>5, AttachList
  <2> QED
    BY <2>1
<1>11. \A s \in SessionsOf(c, e) : TargetOf(s) \in e.attached
  BY <1>3, RecordSessions
<1>12. SessionsOf(c, f) = SessionsOf(c, e) \cup new
  BY <1>7 DEF SessionsOf
<1> HIDE DEF a, f, new, ts, e, r, b
<1>13. new \cap Of("detached", r) = {} /\ new \cap SessionsOf(c, e) = {}
  BY <1>5, <1>8, <1>9, <1>11
<1>14. new \cap Sure(b) = {} /\ new \cap Of("attached", r) = {}
  BY <1>4, <1>13 DEF Balanced
<1>15. Clear(Range(r), Range(a))
  <2> SUFFICES ASSUME NEW x \in Range(r), NEW s \in new, Clash(x, Event("attached", s)) PROVE FALSE
    BY <1>10 DEF Clear
  <2>1. x = Event("attached", s)
    BY DEF Clash, Event
  <2>2. s \in Of("attached", r)
    BY <2>1, <1>3, SaidOf
  <2> QED
    BY <2>2, <1>14
<1>16. r \in Seq(Events) /\ a \in Seq(Events) /\ Fine(r) /\ Fine(a)
  BY <1>3, <1>4, <1>10 DEF Balanced
<1>17. w \in Seq(Events) /\ Range(w) = Range(r) \cup Range(a) /\ Fine(w)
  BY <1>15, <1>16, Joined
<1> HIDE DEF w
<1>18. \A n : Of(n, w) = Of(n, r) \cup Of(n, a)
  BY <1>16, <1>17, SaidMore
<1>19. \A n : Of(n, a) = IF n = "attached" THEN new ELSE {}
  BY <1>10, SaidOne
<1>20. /\ Of("attached", w) = Of("attached", r) \cup new /\ Of("detached", w) = Of("detached", r)
       /\ Of("created", w) = Of("created", r) /\ Of("destroyed", w) = Of("destroyed", r)
  BY <1>18, <1>19
<1>21. \A xs : Counted(f, xs) = Counted(e, xs)
  BY <1>7, SameDiscover
<1>22. Balanced(c, b, w, f)
  <2>1. /\ (Sure(b) \cup Of("attached", r)) \ Of("detached", r) = SessionsOf(c, e)
        /\ Of("attached", r) \cap Sure(b) = {}
        /\ Of("detached", r) \subseteq Sure(b) \cup Of("attached", r)
    BY <1>4 DEF Balanced
  <2>2. /\ (Sure(b) \cup Of("attached", w)) \ Of("detached", w) = SessionsOf(c, f) \cup f.gone
        /\ Of("attached", w) \cap Sure(b) = {}
        /\ Of("detached", w) \subseteq Sure(b) \cup Of("attached", w)
    BY <2>1, <1>7, <1>12, <1>13, <1>14, <1>20
  <2> QED
    BY <2>2, <1>4, <1>7, <1>17, <1>20, <1>21 DEF Balanced
<1>23. pc'[c] # "enable" /\ pc'[c] # "attach" /\ told'[c] = b
  BY <1>1 DEF b
<1>24. Of("detached", reply'[c]) = Of("detached", reply[c])
  BY <1>1, <1>20 DEF r
<1> HIDE DEF Balanced, Away, Awaits, Answered, Busy
<1>25. BooksOf(c)'
  BY <1>1, <1>2, <1>6, <1>7, <1>22, <1>23 DEF BooksOf
<1> QED
  BY <1>24, <1>25

\* The parts of a reply and of a reconciliation fit together.
Placeable(h, ds, ns) ==
  /\ h \in Seq(Events) /\ ds \in Seq(Events) /\ ns \in Seq(Events)
  /\ Fine(h) /\ Fine(ds) /\ Fine(ns) /\ Sorted(h)
  /\ \A y \in Range(ds) : y.method = "detached"
  /\ \A y \in Range(ns) : y.method \in {"created", "destroyed"}
  /\ \A x \in Range(h), y \in Range(ds) : x.method # "destroyed" => ~ Clash(x, y)
  /\ \A x \in Range(h), y \in Range(ns) : x.method # "attached" => ~ Clash(x, y)

\* The same as Inserted, in one word.
LEMMA Placed ==
  ASSUME NEW h, NEW ds, NEW ns, Placeable(h, ds, ns)
  PROVE  LET r == InsertAutoEvents(h, ds \o ns)
         IN  /\ r \in Seq(Events)
             /\ Range(r) = Range(h) \cup (Range(ds) \cup Range(ns))
             /\ Fine(r)
<1>1. /\ h \in Seq(Events) /\ ds \in Seq(Events) /\ ns \in Seq(Events)
      /\ Fine(h) /\ Fine(ds) /\ Fine(ns) /\ Sorted(h)
  BY DEF Placeable
<1>2. \A y \in Range(ds) : y.method = "detached"
  BY DEF Placeable
<1>3. \A y \in Range(ns) : y.method \in {"created", "destroyed"}
  BY DEF Placeable
<1>4. \A x \in Range(h), y \in Range(ds) : x.method # "destroyed" => ~ Clash(x, y)
  BY DEF Placeable
<1>5. \A x \in Range(h), y \in Range(ns) : x.method # "attached" => ~ Clash(x, y)
  BY DEF Placeable
<1> QED
  BY ONLY <1>1, <1>2, <1>3, <1>4, <1>5, Inserted

\* What is in a connection's books when it reconciles: nothing the reply already says
\* is said again, and nothing it says of what is gone is about what is there.
Due(c, r, i, g, known, now, ns) ==
  /\ ns \in Seq(Events) /\ Fine(ns)
  /\ Range(ns) = {Event("destroyed", x) : x \in known \ now}
                     \cup {Event("created", x) : x \in now \ known}
  /\ g \in SUBSET Of1(c) /\ known \in SUBSET Notices /\ now \in SUBSET Notices
  /\ g \cap Of("detached", r) = {}
  /\ \A s \in Of("detached", r) : s[2] = "tab" => \A u \in g : TargetOf(u) # TargetOf(s)
  /\ (now \ known) \cap Of("created", r) = {}
  /\ (known \ now) \cap Of("destroyed", r) = {}
  /\ (now \ known) \cap Of("destroyed", r) = {}
  /\ i # 0 => \A s \in Of("attached", r), x \in now \ known : TargetOf(s) # x[2]

\* The events of a reconciliation have their places in the reply.
LEMMA ReconcileList ==
  ASSUME NEW c \in Conns, NEW r \in Seq(Events), NEW i, NEW e, Fine(r), Ready(r, i, e),
         NEW g, NEW known, NEW now, NEW ns, Due(c, r, i, g, known, now, ns)
  PROVE  LET w == SubSeq(r, 1, i)
                    \o InsertAutoEvents(SubSeq(r, i + 1, Len(r)), DetachEvents(c, g) \o ns)
         IN  /\ w \in Seq(Events) /\ Fine(w)
             /\ Range(w) = Range(r) \cup (Range(DetachEvents(c, g)) \cup Range(ns))
<1> DEFINE ds == DetachEvents(c, g)
           w == SubSeq(r, 1, i) \o InsertAutoEvents(SubSeq(r, i + 1, Len(r)), ds \o ns)
<1>n. /\ ns \in Seq(Events) /\ Fine(ns)
      /\ Range(ns) = {Event("destroyed", x) : x \in known \ now}
                         \cup {Event("created", x) : x \in now \ known}
  BY DEF Due
<1>1. ds \in Seq(Events) /\ Range(ds) = {Event("detached", s) : s \in g} /\ Fine(ds)
  BY DetachList DEF Due
<1>2. Len(r) \in Nat /\ i \in {0, Len(r)}
  BY DEF Ready
<1>3. \A x \in Range(r) : x.what \in Of(x.method, r) /\ x = Event(x.method, x.what)
  BY SaidAll
<1>4. \A y \in Range(ds) : y.method = "detached" /\ y.what \in g
  BY <1>1 DEF Event
<1>5. \A y \in Range(ns) : (y.method = "created" /\ y.what \in now \ known)
                             \/ (y.method = "destroyed" /\ y.what \in known \ now)
  BY <1>n DEF Event
<1> HIDE DEF ds
<1>6. CASE i = 0
  <2>1. SubSeq(r, 1, i) = <<>> /\ SubSeq(r, i + 1, Len(r)) = r
    BY <1>6, <1>2, SubSeqFull, SubSeqEmpty
  <2>2. \A x \in Range(r), y \in Range(ds) : x.method # "destroyed" => ~ Clash(x, y)
    <3> SUFFICES ASSUME NEW x \in Range(r), NEW y \in Range(ds), x.method # "destroyed", Clash(x, y)
                 PROVE  FALSE
      OBVIOUS
    <3>1. y.method = "detached" /\ y.what \in g
      BY <1>4
    <3>2. x.method = "detached" /\ x.what \in Of("detached", r)
      BY <3>1, <1>3 DEF Clash
    <3>3. CASE x = y
      BY <3>1, <3>2, <3>3 DEF Due
    <3>4. CASE x.what[2] = "tab" /\ TargetOf(x.what) = TargetOf(y.what)
      BY <3>1, <3>2, <3>4 DEF Due
    <3> QED
      BY <3>1, <3>2, <3>3, <3>4 DEF Clash
  <2>3. \A x \in Range(r), y \in Range(ns) : x.method # "attached" => ~ Clash(x, y)
    <3> SUFFICES ASSUME NEW x \in Range(r), NEW y \in Range(ns), x.method # "attached", Clash(x, y)
                 PROVE  FALSE
      OBVIOUS
    <3>1. x.what \in Of(x.method, r)
      BY <1>3
    <3>2. CASE y.method = "created" /\ y.what \in now \ known
      BY <3>1, <3>2 DEF Clash, Due
    <3>3. CASE y.method = "destroyed" /\ y.what \in known \ now
      BY <3>1, <3>3 DEF Clash, Due
    <3> QED
      BY <3>2, <3>3, <1>5
  <2>4. Sorted(r)
    BY <1>6 DEF Ready
  <2>5. LET s == InsertAutoEvents(r, ds \o ns)
        IN  s \in Seq(Events) /\ Range(s) = Range(r) \cup (Range(ds) \cup Range(ns)) /\ Fine(s)
    <3>1. \A y \in Range(ds) : y.method = "detached"
      BY <1>4
    <3>2. \A y \in Range(ns) : y.method \in {"created", "destroyed"}
      BY <1>5
    <3>3. /\ r \in Seq(Events) /\ ds \in Seq(Events) /\ ns \in Seq(Events)
          /\ Fine(r) /\ Fine(ds) /\ Fine(ns)
      BY <1>n, <1>1
    <3>4. Placeable(r, ds, ns)
      BY <2>2, <2>3, <2>4, <3>1, <3>2, <3>3 DEF Placeable
    <3> QED
      BY <3>4, Placed
  <2>6. w = InsertAutoEvents(r, ds \o ns)
    <3>1. w = <<>> \o InsertAutoEvents(r, ds \o ns)
      BY <2>1
    <3> QED
      BY <3>1, <2>5, ConcatEmptySeq
  <2> HIDE DEF w
  <2>7. w \in Seq(Events) /\ Fine(w) /\ Range(w) = Range(r) \cup (Range(ds) \cup Range(ns))
    BY <2>5, <2>6
  <2> QED
    BY <2>7, <1>1 DEF w, ds
<1>7. CASE i = Len(r) /\ i # 0
  <2>1. SubSeq(r, 1, i) = r /\ SubSeq(r, i + 1, Len(r)) = <<>>
    BY <1>7, <1>2, SubSeqFull, SubSeqEmpty
  <2>2. <<>> \in Seq(Events) /\ Range(<<>>) = {} /\ Fine(<<>>) /\ Sorted(<<>>)
    BY EmptyFine DEF Sorted
  <2> DEFINE s == InsertAutoEvents(<<>>, ds \o ns)
  <2>3. s \in Seq(Events) /\ Range(s) = Range(ds) \cup Range(ns) /\ Fine(s)
    <3> DEFINE h == <<>>
    <3>1. h \in Seq(Events) /\ Range(h) = {} /\ Fine(h) /\ Sorted(h)
      BY <2>2
    <3>2. \A y \in Range(ds) : y.method = "detached"
      BY <1>4
    <3>3. \A y \in Range(ns) : y.method \in {"created", "destroyed"}
      BY <1>5
    <3> HIDE DEF h
    <3>6. /\ h \in Seq(Events) /\ ds \in Seq(Events) /\ ns \in Seq(Events)
          /\ Fine(h) /\ Fine(ds) /\ Fine(ns) /\ Sorted(h)
      BY <3>1, <1>n, <1>1
    <3>7. /\ \A x \in Range(h), y \in Range(ds) : x.method # "destroyed" => ~ Clash(x, y)
          /\ \A x \in Range(h), y \in Range(ns) : x.method # "attached" => ~ Clash(x, y)
      BY <3>1
    <3>4. LET v == InsertAutoEvents(h, ds \o ns)
          IN  v \in Seq(Events) /\ Range(v) = Range(h) \cup (Range(ds) \cup Range(ns)) /\ Fine(v)
      <4>1. Placeable(h, ds, ns)
        BY <3>2, <3>3, <3>6, <3>7 DEF Placeable
      <4> QED
        BY <4>1, Placed
    <3>5. InsertAutoEvents(h, ds \o ns) = s
      BY DEF h
    <3> QED
      BY <3>1, <3>4, <3>5
  <2> HIDE DEF s
  <2>4. \A x \in Range(r) : x.method \in {"created", "attached"}
    BY <1>7 DEF Ready, Range
  <2>5. Clear(Range(r), Range(s))
    <3> SUFFICES ASSUME NEW x \in Range(r), NEW y \in Range(s), Clash(x, y) PROVE FALSE
      BY DEF Clear
    <3>1. x.what \in Of(x.method, r) /\ x.method \in {"created", "attached"}
      BY <1>3, <2>4
    <3>2. CASE y \in Range(ds)
      BY <3>1, <3>2, <1>4 DEF Clash
    <3>3. CASE y \in Range(ns)
      <4>1. y.method = "created" /\ y.what \in now \ known
        BY <3>1, <3>3, <1>5 DEF Clash
      <4>2. CASE x = y
        BY <3>1, <4>1, <4>2 DEF Due
      <4>3. CASE x.method = "attached" /\ TargetOf(x.what) = y.what[2]
        BY <3>1, <4>1, <4>3, <1>7 DEF Due
      <4> QED
        BY <3>1, <4>1, <4>2, <4>3 DEF Clash
    <3> QED
      BY <3>2, <3>3, <2>3
  <2>6. r \o s \in Seq(Events) /\ Range(r \o s) = Range(r) \cup Range(s) /\ Fine(r \o s)
    <3>1. r \in Seq(Events) /\ s \in Seq(Events) /\ Fine(r) /\ Fine(s)
      BY <2>3
    <3> QED
      BY <3>1, <2>5, Joined
  <2>7. w = r \o s
    BY <2>1 DEF s
  <2> HIDE DEF w
  <2>8. w \in Seq(Events) /\ Fine(w) /\ Range(w) = Range(r) \cup (Range(ds) \cup Range(ns))
    BY <2>3, <2>6, <2>7
  <2> QED
    BY <2>8, <1>1 DEF w, ds
<1> QED
  BY <1>2, <1>6, <1>7

\* The reconciliation: what is gone is reported, and discovery is brought up to date.
LEMMA ReconcileBooks ==
  ASSUME Ranges, Stages, Records, NEW c \in Conns, BooksOf(c), CurrentOf(c), Reconcile(c)
  PROVE  BooksOf(c)' /\ Of("detached", reply'[c]) = Of("detached", reply[c]) \cup Swept(c, entry[c]).gone
<1> DEFINE o == entry[c]
           e == Swept(c, o)
           b == told[c]
           r == reply[c]
           i == job[c].early
           W == Wanted(o)
           lost == {t \in o.attached : Root(c, o.auto, t) \notin live}
           g == e.gone
           known == o.discovered \cap W
           now == Now(c, o)
           ns == DiffEvents(c, o)
           w == SubSeq(r, 1, i)
                  \o InsertAutoEvents(SubSeq(r, i + 1, Len(r)), DetachEvents(c, g) \o ns)
           f == [e EXCEPT !.gone = {}, !.discovered = Now(c, e)]
<1>1. /\ pc[c] = "reconcile" /\ told' = told /\ entry' = [entry EXCEPT ![c] = f]
      /\ reply' = [reply EXCEPT ![c] = w] /\ pc'[c] \in {"send", "attach"}
      /\ pc'[c] = "attach" => job'[c].ids = Missing(c, e, e.auto)
  BY DEF Reconcile, Ranges, NoJob
<1>2. Busy(c) /\ Answered(c) /\ ~ Away(c)' /\ ~ Awaits(c)' /\ ~ Answered(c)'
  BY <1>1 DEF Away, Over, Awaits, Busy, Answered
<1>3. /\ o \in Entries /\ Sound(o) /\ r \in Seq(Events) /\ o.discover \in Kinds
      /\ o.discovered \in SUBSET Notices /\ o.attached \subseteq Targets /\ o.gone \subseteq Sessions
      /\ b.notices \in SUBSET Notices
  BY DEF Ranges, Entries, Records, Sound
<1>4. Balanced(c, b, r, o) /\ Ready(r, i, o)
  BY <1>2 DEF BooksOf
<1>5. /\ e \in Entries /\ e.auto = o.auto /\ e.discover = o.discover
      /\ e.attached = o.attached \ lost /\ e.discovered = o.discovered
      /\ g = o.gone \cup {s \in SessionsOf(c, o) : TargetOf(s) \in lost}
      /\ SessionsOf(c, e) = {s \in SessionsOf(c, o) : TargetOf(s) \notin lost}
      /\ SessionsOf(c, e) \cup g = SessionsOf(c, o) \cup o.gone
  BY <1>3, SweptSound, SweptSessions
<1>6. /\ \A s \in SessionsOf(c, o) : TargetOf(s) \in o.attached
      /\ SessionsOf(c, o) \in SUBSET Of1(c)
  BY <1>3, RecordSessions DEF Sound
<1>7. /\ \A s \in o.gone : s[1] = c /\ TargetOf(s) \notin o.attached
      /\ \A x \in Of("destroyed", r) : x[2] \notin LiveTargets
  BY <1>2 DEF CurrentOf
<1>8. /\ entry'[c] = f /\ reply'[c] = w /\ told'[c] = b
      /\ f.auto = e.auto /\ f.attached = e.attached /\ f.children = e.children /\ f.gone = {}
      /\ f.discover = o.discover /\ f.discovered = now
  <2>1. Now(c, e) = now
    BY <1>5 DEF Now
  <2> HIDE DEF now, w, e
  <2> QED
    BY <1>1, <1>5, <2>1 DEF Ranges, Entries
<1>9. /\ \A xs \in SUBSET Notices : Counted(o, xs) = xs \cap W
      /\ \A x : x \in now <=> x \in W /\ x[2] \in Visible(c)
      /\ W \in SUBSET Notices
  BY <1>3, CountedWanted
<1>10. \A x \in now : x[2] \in LiveTargets
  BY <1>9 DEF Visible
<1>11. /\ ns \in Seq(Events) /\ Fine(ns) /\ known \in SUBSET Notices /\ now \in SUBSET Notices
       /\ Range(ns) = {Event("destroyed", x) : x \in known \ now}
                        \cup {Event("created", x) : x \in now \ known}
       /\ Of("destroyed", ns) = known \ now /\ Of("created", ns) = now \ known
       /\ Of("attached", ns) = {} /\ Of("detached", ns) = {}
  BY <1>3, DiffList
<1>12. Of("created", r) \subseteq Notices
  BY <1>3, SaidAll
<1> DEFINE xs == (b.notices \cup Of("created", r)) \ Of("destroyed", r)
<1>13. xs \in SUBSET Notices /\ xs \cap W = o.discovered /\ known = o.discovered
  <2>1. xs \in SUBSET Notices /\ Counted(o, xs) = o.discovered
    BY <1>3, <1>4, <1>12 DEF Balanced
  <2> HIDE DEF xs, W
  <2>2. Counted(o, xs) = xs \cap W
    BY <2>1, <1>9
  <2> QED
    BY <2>1, <2>2
<1>14. /\ (Sure(b) \cup Of("attached", r)) \ Of("detached", r) = SessionsOf(c, o) \cup o.gone
       /\ Of("attached", r) \cap Sure(b) = {}
       /\ Of("detached", r) \subseteq Sure(b) \cup Of("attached", r)
       /\ Of("created", r) \cap (b.notices \cap W) = {}
       /\ Of("destroyed", r) \subseteq b.notices \cup Of("created", r)
       /\ Fine(r)
  BY <1>3, <1>4, <1>9 DEF Balanced
<1> HIDE DEF e, g, ns, f, now, W, w, lost
<1>15. g \in SUBSET Of1(c) /\ g \subseteq SessionsOf(c, o) \cup o.gone
  BY <1>3, <1>5, <1>6, <1>7 DEF Of1
<1>16. Due(c, r, i, g, known, now, ns)
  <2>1. g \cap Of("detached", r) = {}
    BY <1>14, <1>15
  <2>2. \A s \in Of("detached", r) : s[2] = "tab" => \A u \in g : TargetOf(u) # TargetOf(s)
    BY <1>4, <1>6, <1>15 DEF Ready
  <2>3. now \cap Of("destroyed", r) = {}
    BY <1>7, <1>10
  <2>4. (now \ known) \cap Of("created", r) = {}
    BY <2>3, <1>9, <1>13
  <2>5. known \cap Of("destroyed", r) = {}
    BY <1>13
  <2>6. ASSUME i # 0, NEW s \in Of("attached", r), NEW x \in now \ known, TargetOf(s) = x[2] PROVE FALSE
    <3> DEFINE both == {"page", "tab"} \X {TargetOf(s)}
    <3>1. x \in W /\ x \in Notices
      BY <1>9, <1>11
    <3>2. x \in both /\ both \in SUBSET Notices
      BY <3>1, <2>6 DEF Notices
    <3>3. Counted(o, both) \subseteq o.discovered
      BY <2>6, <1>4 DEF Ready
    <3> HIDE DEF both
    <3>4. Counted(o, both) = both \cap W
      BY <3>2, <1>9
    <3> QED
      BY <3>1, <3>2, <3>3, <3>4, <2>6, <1>13
  <2>7. i # 0 => \A s \in Of("attached", r), x \in now \ known : TargetOf(s) # x[2]
    BY <2>6
  <2> HIDE DEF known
  <2> QED
    BY <2>1, <2>2, <2>3, <2>4, <2>5, <2>7, <1>11, <1>15 DEF Due
<1>17. w \in Seq(Events) /\ Fine(w) /\ Range(w) = Range(r) \cup (Range(DetachEvents(c, g)) \cup Range(ns))
  <2> HIDE DEF known, xs
  <2>1. /\ r \in Seq(Events) /\ Fine(r) /\ Ready(r, i, o)
        /\ Due(c, r, i, g, known, now, ns)
    BY <1>3, <1>4, <1>14, <1>16
  <2> QED
    <3> HIDE DEF r, i, o
    <3> QED
      BY <2>1, ReconcileList DEF w
<1>18. /\ Of("attached", w) = Of("attached", r) /\ Of("detached", w) = Of("detached", r) \cup g
       /\ Of("created", w) = Of("created", r) \cup (now \ known)
       /\ Of("destroyed", w) = Of("destroyed", r) \cup (known \ now)
  <2> DEFINE d == DetachEvents(c, g)
             a == d \o ns
  <2>1. d \in Seq(Events) /\ Range(d) = {Event("detached", s) : s \in g}
    BY <1>15, DetachList
  <2> HIDE DEF d
  <2>2. \A n : Of(n, d) = IF n = "detached" THEN g ELSE {}
    BY <2>1, SaidOne
  <2>3. a \in Seq(Events) /\ Range(a) = Range(d) \cup Range(ns)
    BY <2>1, <1>11, Joined
  <2> HIDE DEF a, known
  <2>4. \A n : Of(n, a) = Of(n, d) \cup Of(n, ns)
    BY <2>1, <2>3, <1>11, SaidMore
  <2>5. Range(w) = Range(r) \cup Range(a)
    BY <2>3, <1>17 DEF d
  <2>6. \A n : Of(n, w) = Of(n, r) \cup Of(n, a)
    <3>1. r \in Seq(Events) /\ a \in Seq(Events) /\ w \in Seq(Events)
      BY <2>3, <1>3, <1>17
    <3> HIDE DEF r
    <3> QED
      BY <3>1, <2>5, SaidMore
  <2>7. \A n : Of(n, w) = Of(n, r) \cup ((IF n = "detached" THEN g ELSE {}) \cup Of(n, ns))
    BY <2>2, <2>4, <2>6
  <2> HIDE DEF r
  <2>8. Of("attached", w) = Of("attached", r) /\ Of("detached", w) = Of("detached", r) \cup g
    BY <2>7, <1>11
  <2>9. /\ Of("created", w) = Of("created", r) \cup (now \ known)
        /\ Of("destroyed", w) = Of("destroyed", r) \cup (known \ now)
    BY <2>7, <1>11
  <2> QED
    BY <2>8, <2>9
<1>19. SessionsOf(c, f) = SessionsOf(c, e)
  BY <1>8 DEF SessionsOf
<1>20. SessionsOf(c, e) \cap g = {}
  BY <1>5, <1>6, <1>7
<1>21. \A ys \in SUBSET Notices : Counted(f, ys) = ys \cap W
  BY <1>8, <1>9, SameDiscover
<1>22. Balanced(c, b, w, f)
  <2>1. (Sure(b) \cup Of("attached", w)) \ Of("detached", w) = SessionsOf(c, f) \cup f.gone
    BY <1>5, <1>8, <1>14, <1>18, <1>19, <1>20
  <2>2. /\ Of("attached", w) \cap Sure(b) = {}
        /\ Of("detached", w) \subseteq Sure(b) \cup Of("attached", w)
    BY <1>14, <1>15, <1>18
  <2> DEFINE ys == (b.notices \cup Of("created", w)) \ Of("destroyed", w)
  <2>3. ys \in SUBSET Notices /\ ys \cap W = now
    <3>1. now \cap Of("destroyed", r) = {}
      BY <1>7, <1>10
    <3>2. ys \in SUBSET Notices
      BY <1>3, <1>11, <1>12, <1>18
    <3>3. \A x : x \in ys \cap W <=> x \in now
      BY <3>1, <1>9, <1>13, <1>18
    <3> QED
      BY <3>2, <3>3
  <2>4. Counted(f, ys) = f.discovered
    <3> HIDE DEF ys
    <3> QED
      BY <2>3, <1>8, <1>21
  <2>5. Of("created", w) \cap Counted(f, b.notices) = {}
    <3>1. Counted(f, b.notices) = b.notices \cap W
      BY <1>3, <1>21
    <3>2. now \cap Of("destroyed", r) = {}
      BY <1>7, <1>10
    <3> QED
      BY <3>1, <3>2, <1>13, <1>14, <1>18
  <2>6. Of("destroyed", w) \subseteq b.notices \cup Of("created", w)
    BY <1>13, <1>14, <1>18
  <2> QED
    BY <2>1, <2>2, <2>4, <2>5, <2>6, <1>17 DEF Balanced
<1>23. pc'[c] = "attach" => job'[c].ids \cap f.attached = {}
  BY <1>1, <1>8 DEF Missing
<1>24. pc'[c] # "enable"
  BY <1>1
<1>25. Of("detached", reply'[c]) = Of("detached", reply[c]) \cup Swept(c, entry[c]).gone
  BY <1>8, <1>18 DEF g, e
<1> HIDE DEF Balanced, Away, Awaits, Answered, Busy, b
<1>26. BooksOf(c)'
  BY <1>2, <1>8, <1>22, <1>23, <1>24 DEF BooksOf
<1> QED
  BY <1>25, <1>26

\* A step tells only its own client anything.
LEMMA TellsOne ==
  ASSUME Ranges, NEW c \in Conns, Step(c), NEW d \in Conns \ {c}
  PROVE  told'[d] = told[d]
<1>1. CASE Send(c)
  <2>1. \E b : told' = [told EXCEPT ![c] = b]
    BY <1>1 DEF Send
  <2> QED
    BY <2>1 DEF Ranges
<1>2. CASE Release(c)
  BY <1>2 DEF Release, Ranges
<1>3. CASE UNCHANGED told
  BY <1>3
<1>4. CASE \E cx \in Conns \cup {Default}, t \in Targets : CreateTarget(c, cx, t)
  BY <1>4, CreateEffect
<1>5. CASE \E t \in Targets : CloseTarget(c, t)
  BY <1>5, CloseEffect
<1>6. CASE \E t \in entry[c].attached, wait \in BOOLEAN : AttachChild(c, t, wait)
  BY <1>6, ChildEffect
<1>7. CASE \E t \in entry[c].attached : DetachChild(c, t)
  BY <1>7, UnchildEffect
<1> QED
  BY <1>1, <1>2, <1>3, <1>4, <1>5, <1>6, <1>7 DEF Step, Request, Proceed, Open, Other, CreateBrowserContext,
       SetAutoAttach, DisableAutoAttach, SetDiscoverTargets, RunIfWaitingForDebugger, EnableAutoAttach,
       Forget, CommitInitialBlank, TakeOrphanedPaused, Reconcile, AttachMissing, DetachNext,
       DisposeBrowserContext, Prune

\* A client's ghosts are sessions it believes in.
Haunted == \A c \in Conns : told[c].ghosts \subseteq told[c].sessions

\* What a reply tells the end of, and the beginning of before it or not at all, is no ghost.
LEMMA HauntedKept ==
  ASSUME Ranges, Books, Haunted, NEW c \in Conns, Step(c)
  PROVE  Haunted'
<1>1. \A d \in Conns \ {c} : told'[d] = told[d]
  BY TellsOne
<1> SUFFICES told'[c].ghosts \subseteq told'[c].sessions
  BY <1>1 DEF Haunted
<1>2. CASE Send(c)
  <2> DEFINE r == reply[c]
  <2>1. /\ told'[c].sessions = Heard(told[c].sessions, r, "attached", "detached")
        /\ told'[c].ghosts = (told[c].ghosts \ Of("attached", r)) \cup Crossed(r)
    BY <1>2 DEF Send, Ranges
  <2>2. Busy(c)
    BY <1>2 DEF Send, Busy
  <2>3. Balanced(c, told[c], r, entry[c])
    BY <2>2 DEF Books, BooksOf
  <2>4. r \in Seq(Events) /\ Fine(r) /\ Of("detached", r) \subseteq Sure(told[c]) \cup Of("attached", r)
    BY <2>3 DEF Ranges, Balanced
  <2> HIDE DEF r
  <2>5. told'[c].sessions = ((told[c].sessions \cup Of("attached", r)) \ Of("detached", r)) \cup Crossed(r)
    BY <2>1, <2>4, HeardSessions
  <2> QED
    BY <2>1, <2>4, <2>5 DEF Haunted, Sure
<1>3. CASE Release(c)
  BY <1>3 DEF Release, Ranges, Nothing
<1>4. CASE UNCHANGED told
  BY <1>4 DEF Haunted
<1>5. CASE \E cx \in Conns \cup {Default}, t \in Targets : CreateTarget(c, cx, t)
  BY <1>4, <1>5, CreateEffect
<1>6. CASE \E t \in Targets : CloseTarget(c, t)
  BY <1>4, <1>6, CloseEffect
<1>7. CASE \E t \in entry[c].attached, wait \in BOOLEAN : AttachChild(c, t, wait)
  BY <1>4, <1>7, ChildEffect
<1>8. CASE \E t \in entry[c].attached : DetachChild(c, t)
  BY <1>4, <1>8, UnchildEffect
<1> QED
  BY <1>2, <1>3, <1>4, <1>5, <1>6, <1>7, <1>8
     DEF Step, Request, Proceed, Open, Other, CreateBrowserContext,
       SetAutoAttach, DisableAutoAttach, SetDiscoverTargets, RunIfWaitingForDebugger, EnableAutoAttach,
       Forget, CommitInitialBlank, TakeOrphanedPaused, Reconcile, AttachMissing, DetachNext,
       DisposeBrowserContext, Prune

\* A connection's own step keeps its books.
LEMMA OwnBooks ==
  ASSUME Ranges, Stages, Records, NEW c \in Conns, BooksOf(c), CurrentOf(c), Step(c)
  PROVE  BooksOf(c)'
<1>1. CASE \/ Send(c) \/ EnableAutoAttach(c) \/ DisableAutoAttach(c) \/ Reconcile(c) \/ AttachMissing(c)
  BY <1>1, SendBooks, EnableBooks, DisableBooks, ReconcileBooks, MissingBooks
<1>2. CASE \E auto \in {"pages", "tabs"}, wait \in BOOLEAN : SetAutoAttach(c, auto, wait)
  BY <1>2, ListBooks
<1>3. CASE \E t \in entry[c].attached, wait \in BOOLEAN : AttachChild(c, t, wait)
  BY <1>3, AttachChildBooks
<1>4. CASE \E t \in entry[c].attached : DetachChild(c, t)
  BY <1>4, DetachChildBooks
<1>5. CASE \E discover \in Filters : SetDiscoverTargets(c, discover)
  BY <1>5, DiscoverBooks
<1>6. CASE \E cx \in Conns \cup {Default}, t \in Targets : CreateTarget(c, cx, t)
  BY <1>6, CreateBooks
<1>7. CASE \E t \in Targets : CloseTarget(c, t)
  BY <1>7, CloseBooks
<1>8. CASE \/ \E failed \in BOOLEAN : Other(c, failed)
           \/ CreateBrowserContext(c)
           \/ \E s \in told[c].sessions : RunIfWaitingForDebugger(c, s)
           \/ Open(c) \/ Release(c) \/ Forget(c)
           \/ \E t \in job[c].ids : CommitInitialBlank(c, t)
           \/ TakeOrphanedPaused(c, "ended", "reconcile") \/ TakeOrphanedPaused(c, "orphans", "prune")
           \/ \E s \in job[c].ids : DetachNext(c, s)
           \/ DisposeBrowserContext(c) \/ Prune(c)
  BY <1>8, PlainBooks
<1>9. Step(c)
  OBVIOUS
<1> QED
  BY <1>1, <1>2, <1>3, <1>4, <1>5, <1>6, <1>7, <1>8, <1>9 DEF Step, Request, Proceed

\* A step leaves the books of the others alone.
LEMMA BooksKept ==
  ASSUME Ranges, Stages, Early, Records, Books, Current, NEW c \in Conns, Step(c)
  PROVE  Books'
<1> SUFFICES ASSUME NEW d \in Conns PROVE BooksOf(d)'
  BY DEF Books
<1>1. CASE d = c
  BY <1>1, OwnBooks DEF Books, Current
<1>2. CASE d # c
  <2>1. /\ pc'[d] = pc[d] /\ job'[d] = job[d] /\ entry'[d] = entry[d] /\ reply'[d] = reply[d]
        /\ told'[d] = told[d]
    BY <1>2, Frame, TellsOne
  <2>2. BooksOf(d)
    BY DEF Books
  <2>3. (Away(d)' <=> Away(d)) /\ (Awaits(d)' <=> Awaits(d)) /\ (Answered(d)' <=> Answered(d))
        /\ (Busy(d)' <=> Busy(d))
    BY <2>1 DEF Away, Over, Awaits, Answered, Busy
  <2> HIDE DEF Away, Awaits, Answered, Busy, Believed, Balanced, Ready
  <2> QED
    BY <2>1, <2>2, <2>3 DEF BooksOf
<1> QED
  BY <1>1, <1>2

-----------------------------------------------------------------------------
(* The records keep up with the tables *)

\* A target has its context for good, and contexts go with their targets.
LEMMA ContextsKept ==
  ASSUME Ranges, NEW c \in Conns, Step(c)
  PROVE  /\ \A u \in LiveTargets : u \in LiveTargets' => context'[u] = context[u]
         /\ \A d \in contexts : d \in contexts' \/ \A u \in LiveTargets' : context'[u] # d
<1>t. context \in [Targets -> Conns \cup {Default, None}]
  BY DEF Ranges
<1>r. ASSUME NEW ts, RemoveTargets(ts)
      PROVE  \A u \in Targets : context'[u] = IF u \in ts THEN None ELSE context[u]
  BY <1>r, <1>t DEF RemoveTargets
<1>1. CASE \E cx \in Conns \cup {Default}, t \in Targets : CreateTarget(c, cx, t)
  <2> PICK cx \in Conns \cup {Default}, t \in Targets : CreateTarget(c, cx, t)
    BY <1>1
  <2>1. contexts' = contexts /\ t \notin LiveTargets /\ (Refused(c) \/ Creates(c, cx, t))
    BY CreateEffect, Fresh
  <2>2. context' = context \/ context' = [context EXCEPT ![t] = cx]
    BY <2>1 DEF Refused, Creates
  <2>3. \A u \in LiveTargets : context'[u] = context[u]
    BY <2>1, <2>2, <1>t DEF LiveTargets
  <2> QED
    BY <2>1, <2>3
<1>2. CASE \E t \in Targets : CloseTarget(c, t)
  <2> PICK t \in Targets : CloseTarget(c, t)
    BY <1>2
  <2>1. contexts' = contexts
    BY CloseEffect
  <2>2. context' = context \/ RemoveTargets({t})
    BY CloseEffect DEF Refused, Closes
  <2>3. \A u \in LiveTargets : u \in LiveTargets' => context'[u] = context[u]
    BY <2>2, <1>r DEF LiveTargets
  <2> QED
    BY <2>1, <2>3
<1>3. CASE DisposeBrowserContext(c)
  <2> DEFINE ts == {t \in Targets : context[t] = c}
  <2>1. contexts' = contexts \ {c} /\ RemoveTargets(ts)
    BY <1>3 DEF DisposeBrowserContext
  <2>2. \A u \in Targets : context'[u] = IF u \in ts THEN None ELSE context[u]
    BY <2>1, <1>r
  <2>3. \A u \in LiveTargets : u \in LiveTargets' => context'[u] = context[u]
    BY <2>2 DEF LiveTargets
  <2>4. \A u \in LiveTargets' : context'[u] # c
    BY <2>2, TargetNamesAssumption DEF LiveTargets
  <2> QED
    BY <2>1, <2>3, <2>4
<1>4. CASE context' = context /\ contexts \subseteq contexts'
  BY <1>4
<1>5. CASE CreateBrowserContext(c)
  BY <1>5, <1>4 DEF CreateBrowserContext, Fail, Handled
<1>6. CASE \E t \in entry[c].attached, wait \in BOOLEAN : AttachChild(c, t, wait)
  BY <1>6, <1>4, ChildEffect
<1> QED
  BY <1>1, <1>2, <1>3, <1>4, <1>5, <1>6 DEF Step, Request, Proceed, Send, Open, Release, Other,
       SetAutoAttach, DisableAutoAttach, DetachChild, SetDiscoverTargets, RunIfWaitingForDebugger,
       Forget, CommitInitialBlank, TakeOrphanedPaused, Reconcile, DetachNext, Prune, registryVars,
       EnableAutoAttach, AttachMissing

\* A target that is gone does not come back under its id while anything names it, and
\* nobody loses sight of one that is there.
LEMMA Back ==
  ASSUME Ranges, NEW c \in Conns, Step(c), NEW d \in Conns
  PROVE  /\ \A u \in entry[d].attached : u \in LiveTargets' => u \in LiveTargets
         /\ \A s \in entry[d].gone : TargetOf(s) \in LiveTargets' => TargetOf(s) \in LiveTargets
         /\ \A x \in entry[d].discovered : x[2] \in LiveTargets' => x[2] \in LiveTargets
         /\ \A s \in Of("detached", reply[d]) : TargetOf(s) \in LiveTargets' => TargetOf(s) \in LiveTargets
         /\ \A x \in Of("destroyed", reply[d]) : x[2] \in LiveTargets' => x[2] \in LiveTargets
         /\ \A u \in Visible(d) : u \in LiveTargets' => u \in Visible(d)'
<1>1. \A u \in LiveTargets' : u \in LiveTargets \/ u \notin NamedTargets
  BY LiveMoves DEF Adds
<1>2. reply[d] \in Seq(Events)
  BY DEF Ranges
<1>3. \A m, x : x \in Of(m, reply[d]) => \E i \in DOMAIN reply[d] : reply[d][i].what = x
  BY DEF Of
<1>4. \A s \in Of("detached", reply[d]) : Last(s) = TargetOf(s)
  <2> SUFFICES ASSUME NEW s \in Of("detached", reply[d]) PROVE Last(s) = TargetOf(s)
    OBVIOUS
  <2>1. s \in Sessions
    BY <1>2, SaidAll
  <2>2. \E x \in Conns, k \in {"page", "tab", "child"}, u \in Targets : s = <<x, k, u>>
    BY <2>1 DEF Sessions
  <2> QED
    BY <2>2 DEF TargetOf, Last
<1>5. \A x \in Of("destroyed", reply[d]) : Last(x) = x[2]
  <2> SUFFICES ASSUME NEW x \in Of("destroyed", reply[d]) PROVE Last(x) = x[2]
    OBVIOUS
  <2>1. x \in Notices
    BY <1>2, SaidAll
  <2>2. \E k \in {"page", "tab"}, u \in Targets : x = <<k, u>>
    BY <2>1 DEF Notices
  <2> QED
    BY <2>2 DEF Last
<1>6. ASSUME NEW u, u \in LiveTargets', u \notin LiveTargets
      PROVE  /\ u \notin entry[d].attached
             /\ \A s \in entry[d].gone : TargetOf(s) # u
             /\ \A x \in entry[d].discovered : x[2] # u
             /\ \A s \in Of("detached", reply[d]) : TargetOf(s) # u
             /\ \A x \in Of("destroyed", reply[d]) : x[2] # u
  <2>1. u \notin NamedTargets
    BY <1>1, <1>6
  <2>2. /\ u \notin entry[d].attached
        /\ \A s \in entry[d].gone : TargetOf(s) # u
        /\ \A x \in entry[d].discovered : x[2] # u
        /\ \A i \in DOMAIN reply[d] : Last(reply[d][i].what) # u
    BY <2>1, Unnamed
  <2>3. \A m, x : x \in Of(m, reply[d]) => Last(x) # u
    BY <2>2, <1>3
  <2> QED
    BY <2>2, <2>3, <1>4, <1>5
<1>7. \A u \in Visible(d) : u \in LiveTargets' => u \in Visible(d)'
  <2> SUFFICES ASSUME NEW u \in Visible(d), u \in LiveTargets' PROVE u \in Visible(d)'
    OBVIOUS
  <2>1. u \in LiveTargets /\ (context[u] = Default \/ (d \in contexts /\ context[u] = d))
    BY DEF Visible, Permitted
  <2>2. context'[u] = context[u]
    BY <2>1, ContextsKept
  <2>3. d \in contexts /\ context[u] = d => d \in contexts'
    BY <2>2, ContextsKept
  <2> QED
    BY <2>1, <2>2, <2>3 DEF Visible, Permitted
<1> QED
  BY <1>6, <1>7

\* A record that says the same of its connection is still right of it.
LEMMA SameCurrent ==
  ASSUME Ranges, NEW c \in Conns, Step(c), NEW d \in Conns, CurrentOf(d), entry'[d] = entry[d],
         \/ reply'[d] = <<>>
         \/ reply'[d] = reply[d] /\ (Answered(d)' => Answered(d)) /\ (Busy(d)' => Busy(d)),
         \A s \in SessionsOf(d, entry[d]) : s \in live /\ TargetOf(s) \in LiveTargets' => s \in live',
         entry[d].children \subseteq entry[d].attached
  PROVE  CurrentOf(d)'
<1> DEFINE e == entry[d]
           r == reply[d]
<1>1. \A s \in SessionsOf(d, e) : TargetOf(s) \in e.attached
  <2>1. \A s \in SessionsOf(d, e) : NamedBy(d, e, s)
    BY InRecord
  <2> QED
    BY <2>1 DEF NamedBy, TargetOf, Root, Child
<1>2. SessionsOf(d, entry'[d]) = SessionsOf(d, e)
  OBVIOUS
<1>3. \A s \in SessionsOf(d, e) : TargetOf(s) \in LiveTargets' => s \in live'
  BY <1>1, Back DEF CurrentOf
<1>4. \A s \in e.gone : /\ s[1] = d
                        /\ TargetOf(s) \notin LiveTargets' /\ TargetOf(s) \notin e.attached
  BY Back DEF CurrentOf
<1>5. \A x \in e.discovered : x[2] \in LiveTargets' => x[2] \in Visible(d)'
  BY Back DEF CurrentOf
<1>6. Answered(d)' => \A x \in Of("destroyed", reply'[d]) : x[2] \notin LiveTargets'
  BY Back, EmptyReply DEF CurrentOf
<1>7. Busy(d)' => \A s \in Of("detached", reply'[d]) :
                    s[2] = "child" \/ TargetOf(s) \notin LiveTargets' \/ e.auto = "off"
  BY Back, EmptyReply DEF CurrentOf
<1> HIDE DEF Answered, Busy
<1> QED
  BY <1>2, <1>3, <1>4, <1>5, <1>6, <1>7 DEF CurrentOf

\* No step of another connection makes a record wrong.
LEMMA OthersCurrent ==
  ASSUME Ranges, Caps, Stages, Early, Records, Held, NEW c \in Conns, Step(c),
         NEW d \in Conns \ {c}, CurrentOf(d)
  PROVE  CurrentOf(d)'
<1>1. pc'[d] = pc[d] /\ job'[d] = job[d] /\ entry'[d] = entry[d] /\ reply'[d] = reply[d]
  BY Frame
<1>2. (Answered(d)' => Answered(d)) /\ (Busy(d)' => Busy(d))
  BY <1>1 DEF Answered, Busy
<1>3. entry[d].children \subseteq entry[d].attached /\ entry[d].attached \subseteq Targets
  BY DEF Records, Ranges, Entries
<1>4. \A s \in SessionsOf(d, entry[d]) : s[1] = d
  BY <1>3, RecordSessions DEF Of1
<1>5. \A s \in live : s[1] = d /\ TargetOf(s) \in LiveTargets' => s \in live'
  <2>1. CASE Grows(c)
    BY <2>1 DEF Grows
  <2>2. CASE Shrinks(c)
    BY <2>2 DEF Shrinks
  <2>3. CASE \E ts : RemoveTargets(ts)
    <3> PICK ts : RemoveTargets(ts)
      BY <2>3
    <3>1. \A u \in LiveTargets' : u \notin ts
      BY DEF RemoveTargets, LiveTargets
    <3> QED
      BY <3>1 DEF RemoveTargets
  <2> QED
    BY <2>1, <2>2, <2>3, LiveEffect
<1> QED
  BY <1>1, <1>2, <1>3, <1>4, <1>5, SameCurrent

\* A handler that says nothing leaves the record right.
LEMMA QuietCurrent ==
  ASSUME Ranges, Records, NEW c \in Conns, Step(c), CurrentOf(c), entry' = entry, live' = live,
         reply'[c] = <<>>
  PROVE  CurrentOf(c)'
<1>1. entry[c].children \subseteq entry[c].attached /\ entry'[c] = entry[c]
  BY DEF Records
<1> QED
  BY <1>1, SameCurrent

\* The steps that leave the records alone, or take them away.
LEMMA PlainCurrent ==
  ASSUME Ranges, Stages, Records, NEW c \in Conns, Step(c), CurrentOf(c),
         \/ \E failed \in BOOLEAN : Other(c, failed)
         \/ CreateBrowserContext(c)
         \/ \E s \in told[c].sessions : RunIfWaitingForDebugger(c, s)
         \/ Open(c) \/ Release(c) \/ Forget(c) \/ Send(c)
         \/ \E t \in job[c].ids : CommitInitialBlank(c, t)
         \/ TakeOrphanedPaused(c, "ended", "reconcile") \/ TakeOrphanedPaused(c, "orphans", "prune")
         \/ \E s \in job[c].ids : DetachNext(c, s)
         \/ DisposeBrowserContext(c) \/ Prune(c)
  PROVE  CurrentOf(c)'
<1>t. pc \in [Conns -> PCs] /\ job \in [Conns -> Jobs] /\ entry \in [Conns -> Entries]
      /\ reply \in [Conns -> Seq(Events)]
  BY DEF Ranges
<1>q. ASSUME NEW next, NEW ids, NEW failed, Handled(c, next, ids, <<>>, <<>>, failed),
             entry' = entry, live' = live
      PROVE  CurrentOf(c)'
  <2>1. reply'[c] = <<>> \o <<>> /\ <<>> \o <<>> = <<>>
    BY <1>q, <1>t DEF Handled
  <2>2. reply'[c] = <<>>
    BY <2>1
  <2> QED
    BY <2>2, <1>q, QuietCurrent
<1>e. entry[c].children \subseteq entry[c].attached
  BY DEF Records
<1>s. ASSUME entry' = entry, live' = live, reply' = reply, Answered(c)' => Answered(c), Busy(c)' => Busy(c)
      PROVE  CurrentOf(c)'
  BY <1>s, <1>e, SameCurrent
<1>n. ASSUME entry[c] = NewEntry, entry'[c] = NewEntry, ~ Answered(c)', ~ Busy(c)', reply' = reply
      PROVE  CurrentOf(c)'
  <2>1. SessionsOf(c, NewEntry) = {}
    BY DEF SessionsOf, NewEntry
  <2> QED
    BY <2>1, <1>n, <1>e, SameCurrent
<1>1. CASE \E failed \in BOOLEAN : Other(c, failed)
  BY <1>1, <1>q DEF Other, registryVars
<1>2. CASE CreateBrowserContext(c)
  BY <1>2, <1>q DEF CreateBrowserContext, Fail, Succeed
<1>3. CASE \E s \in told[c].sessions : RunIfWaitingForDebugger(c, s)
  BY <1>3, <1>q DEF RunIfWaitingForDebugger, Fail, Succeed
<1>4. CASE Open(c)
  <2>1. pc[c] = "closed" /\ pc'[c] = "idle" /\ entry'[c] = NewEntry /\ reply' = reply
    BY <1>4, <1>t DEF Open
  <2>2. entry[c] = NewEntry /\ ~ Answered(c)' /\ ~ Busy(c)'
    BY <2>1 DEF Stages, Over, Answered, Busy
  <2> QED
    BY <2>1, <2>2, <1>n
<1>5. CASE Release(c)
  <2>1. pc'[c] \in {"dispose", "detach"} /\ entry'[c] = NewEntry
    BY <1>5, <1>t DEF Release
  <2>2. ~ Answered(c)' /\ ~ Busy(c)'
    BY <2>1 DEF Answered, Busy
  <2>3. SessionsOf(c, NewEntry) = {} /\ NewEntry.gone = {} /\ NewEntry.discovered = {}
    BY DEF SessionsOf, NewEntry
  <2> HIDE DEF Answered, Busy, NewEntry
  <2> QED
    BY <2>1, <2>2, <2>3 DEF CurrentOf
<1>6. CASE Forget(c)
  BY <1>6, <1>t, <1>s DEF Forget, registryVars, Answered, Busy
<1>7. CASE \E t \in job[c].ids : CommitInitialBlank(c, t)
  <2>1. /\ pc[c] = "commit" /\ pc'[c] \in {"commit", job[c].next} /\ job'[c].next = job[c].next
        /\ UNCHANGED <<entry, reply, live>> /\ job[c].next \in {"ended", "reconcile", "prune"}
    BY <1>7, <1>t DEF CommitInitialBlank, Jobs, Stages, registryVars
  <2>2. (Answered(c)' => Answered(c)) /\ (Busy(c)' => Busy(c))
    BY <2>1 DEF Answered, Busy
  <2> QED
    BY <2>1, <2>2, <1>s
<1>8. CASE TakeOrphanedPaused(c, "ended", "reconcile")
  BY <1>8, <1>t, <1>s DEF TakeOrphanedPaused, Answered, Busy
<1>9. CASE TakeOrphanedPaused(c, "orphans", "prune") \/ (\E s \in job[c].ids : DetachNext(c, s))
           \/ DisposeBrowserContext(c) \/ Prune(c)
  <2>1. /\ pc[c] \in {"orphans", "detach", "dispose", "prune"} /\ UNCHANGED <<entry, reply>>
        /\ \/ pc'[c] \in {"detach", "dispose", "orphans", "prune", "closed"}
           \/ pc'[c] = "commit" /\ job'[c].next = "prune"
    BY <1>9, <1>t DEF DetachNext, DisposeBrowserContext, Prune, TakeOrphanedPaused, Jobs
  <2>2. entry[c] = NewEntry /\ ~ Answered(c)' /\ ~ Busy(c)'
    BY <2>1 DEF Stages, Over, Answered, Busy
  <2> QED
    BY <2>1, <2>2, <1>n
<1>10. CASE Send(c)
  BY <1>10, <1>t, QuietCurrent DEF Send, registryVars
<1> QED
  BY <1>1, <1>2, <1>3, <1>4, <1>5, <1>6, <1>7, <1>8, <1>9, <1>10

\* What a record has to keep up with.
LEMMA CurrentWhen ==
  ASSUME NEW c \in Conns, NEW f, entry'[c] = f,
         \A s \in SessionsOf(c, f) : TargetOf(s) \in LiveTargets' => s \in live',
         \A s \in f.gone : s[1] = c /\ TargetOf(s) \notin LiveTargets' /\ TargetOf(s) \notin f.attached,
         \A x \in f.discovered : x[2] \in LiveTargets' => x[2] \in Visible(c)',
         \A x \in Of("destroyed", reply'[c]) : x[2] \notin LiveTargets',
         \A s \in Of("detached", reply'[c]) :
           s[2] = "child" \/ TargetOf(s) \notin LiveTargets' \/ f.auto = "off"
  PROVE  CurrentOf(c)'
BY DEF CurrentOf

\* Sessions of targets that are there are in the table of sessions.
LEMMA EnableCurrent ==
  ASSUME Ranges, Stages, Records, NEW c \in Conns, Step(c), EnableAutoAttach(c), BooksOf(c), CurrentOf(c)
  PROVE  CurrentOf(c)'
<1> DEFINE e == entry[c]
           j == job[c]
           new == {Root(c, j.auto, t) : t \in j.ids}
           f == [e EXCEPT !.auto = j.auto, !.wait = j.wait, !.attached = @ \cup j.ids]
<1>1. /\ pc[c] = "enable" /\ e \in Entries /\ j.ids \in SUBSET Targets
      /\ e.children \subseteq e.attached /\ (e.auto = "off" => e.attached = {})
      /\ e.auto \in {"off", j.auto} /\ context' = context /\ contexts' = contexts
  BY EnableEffect DEF Ranges, Stages, Records
<1>2. LiveTargets' = LiveTargets /\ Visible(c)' = Visible(c)
  BY <1>1 DEF LiveTargets, Visible, Permitted
<1>3. Says(c, {}, {})
  BY EnableBooks
<1>4. CASE Fail(c) /\ UNCHANGED <<live, entry>>
  <2>1. Awaits(c)
    BY <1>1 DEF Awaits
  <2>2. reply'[c] = <<>>
    BY <1>1, <1>4, <2>1, EnableEffect, QuietAnswer DEF Fail
  <2> QED
    BY <1>4, <2>2, QuietCurrent
<1>5. CASE /\ Attachable(j.ids) = j.ids
           /\ live' = live \cup new
           /\ entry' = [entry EXCEPT ![c].auto = j.auto, ![c].wait = j.wait, ![c].attached = @ \cup j.ids]
  <2>1. entry'[c] = f
    BY <1>5, <1>1 DEF Ranges
  <2>2. f.auto = j.auto /\ f.attached = e.attached \cup j.ids /\ f.children = e.children /\ f.gone = e.gone
        /\ f.discovered = e.discovered
    BY <1>1 DEF Entries
  <2>3. SessionsOf(c, f) = SessionsOf(c, e) \cup new
    BY <2>2, <1>1 DEF SessionsOf
  <2> HIDE DEF f, new
  <2>4. j.ids \subseteq LiveTargets
    BY <1>1, <1>5, Attached
  <2>5. \A s \in SessionsOf(c, f) : TargetOf(s) \in LiveTargets' => s \in live'
    BY <2>3, <1>2, <1>5 DEF CurrentOf
  <2>6. \A s \in f.gone : s[1] = c /\ TargetOf(s) \notin LiveTargets' /\ TargetOf(s) \notin f.attached
    BY <2>2, <2>4, <1>2 DEF CurrentOf
  <2>7. \A x \in f.discovered : x[2] \in LiveTargets' => x[2] \in Visible(c)'
    BY <2>2, <1>2 DEF CurrentOf
  <2>8. Of("destroyed", reply'[c]) = {} /\ Of("detached", reply'[c]) = {}
    BY <1>3 DEF Says
  <2> QED
    BY <2>1, <2>5, <2>6, <2>7, <2>8, CurrentWhen
<1> QED
  BY <1>4, <1>5, EnableEffect DEF new

\* Of what auto-attach was off for, nothing has to be kept up with.
LEMMA DisableCurrent ==
  ASSUME Ranges, Stages, Records, NEW c \in Conns, Step(c), DisableAutoAttach(c), BooksOf(c), CurrentOf(c)
  PROVE  CurrentOf(c)'
<1> DEFINE e == entry[c]
           f == [e EXCEPT !.auto = "off", !.wait = FALSE, !.attached = {}, !.children = {}, !.gone = {}]
<1>1. entry' = [entry EXCEPT ![c] = f] /\ context' = context /\ contexts' = contexts
  BY DEF DisableAutoAttach
<1>2. LiveTargets' = LiveTargets /\ Visible(c)' = Visible(c)
  BY <1>1 DEF LiveTargets, Visible, Permitted
<1>3. Of("destroyed", reply'[c]) = {}
  BY DisableBooks DEF Says
<1>4. e \in Entries /\ entry'[c] = f
  BY <1>1 DEF Ranges
<1>5. f.auto = "off" /\ f.attached = {} /\ f.children = {} /\ f.gone = {} /\ f.discovered = e.discovered
  BY <1>4 DEF Entries
<1> HIDE DEF f
<1>6. SessionsOf(c, f) = {}
  BY <1>5 DEF SessionsOf
<1>7. \A x \in f.discovered : x[2] \in LiveTargets' => x[2] \in Visible(c)'
  BY <1>2, <1>5 DEF CurrentOf
<1> QED
  BY <1>3, <1>4, <1>5, <1>6, <1>7, CurrentWhen

\* A tab's child comes, if it comes, with its session.
LEMMA AttachChildCurrent ==
  ASSUME Ranges, Stages, Records, NEW c \in Conns, Step(c), BooksOf(c), CurrentOf(c),
         NEW t \in entry[c].attached, NEW wait \in BOOLEAN, AttachChild(c, t, wait)
  PROVE  CurrentOf(c)'
<1> DEFINE e == entry[c]
           f == WithChild(c, t)
<1>1. /\ pc[c] = "idle" /\ context' = context /\ contexts' = contexts /\ told' = told
      /\ (Declined(c) \/ Adopts(c, t))
  BY ChildEffect DEF Serves
<1>2. LiveTargets' = LiveTargets /\ Visible(c)' = Visible(c)
  BY <1>1 DEF LiveTargets, Visible, Permitted
<1>3. Says(c, {}, {})
  BY AttachChildBooks
<1>4. e \in Entries /\ e.gone = {}
  BY <1>1, IdleBooks
<1>5. CASE Declined(c)
  <2>1. Awaits(c)
    BY <1>1 DEF Awaits
  <2>2. entry' = entry /\ live' = live /\ \E failed : Handled(c, "ended", {}, <<>>, <<>>, failed)
    BY <1>5 DEF Declined, Fail, Succeed
  <2>3. reply'[c] = <<>>
    BY <1>1, <2>1, <2>2, QuietAnswer
  <2> QED
    BY <2>2, <2>3, QuietCurrent
<1>6. CASE Adopts(c, t)
  <2>1. entry'[c] = f /\ live' = live \cup {Child(c, t)}
    BY <1>6 DEF Ranges, Adopts
  <2>2. /\ f.attached = e.attached /\ f.auto = e.auto /\ f.children = e.children \cup {t} /\ f.gone = {}
        /\ f.discovered = e.discovered
    BY <1>4 DEF Entries, WithChild
  <2> HIDE DEF f
  <2>3. SessionsOf(c, f) = SessionsOf(c, e) \cup {Child(c, t)}
    BY <2>2 DEF SessionsOf
  <2>4. \A s \in SessionsOf(c, f) : TargetOf(s) \in LiveTargets' => s \in live'
    BY <2>1, <2>3, <1>2 DEF CurrentOf
  <2>5. \A x \in f.discovered : x[2] \in LiveTargets' => x[2] \in Visible(c)'
    BY <2>2, <1>2 DEF CurrentOf
  <2>6. Of("destroyed", reply'[c]) = {} /\ Of("detached", reply'[c]) = {}
    BY <1>3 DEF Says
  <2> QED
    BY <2>1, <2>2, <2>4, <2>5, <2>6, CurrentWhen
<1> QED
  BY <1>1, <1>5, <1>6

\* A tab's child goes with its session.
LEMMA DetachChildCurrent ==
  ASSUME Ranges, Stages, Records, NEW c \in Conns, Step(c), BooksOf(c), CurrentOf(c),
         NEW t \in entry[c].attached, DetachChild(c, t)
  PROVE  CurrentOf(c)'
<1> DEFINE e == entry[c]
           f == [e EXCEPT !.children = @ \ {t}]
<1>1. /\ pc[c] = "idle" /\ context' = context /\ contexts' = contexts /\ told' = told
      /\ \/ Fail(c) /\ UNCHANGED <<live, entry>>
         \/ live' = live \ {Child(c, t)} /\ entry' = [entry EXCEPT ![c].children = @ \ {t}]
  BY DEF DetachChild, Serves
<1>2. LiveTargets' = LiveTargets /\ Visible(c)' = Visible(c)
  BY <1>1 DEF LiveTargets, Visible, Permitted
<1>3. Says(c, {Child(c, t)}, {})
  BY DetachChildBooks
<1>4. e \in Entries /\ e.gone = {} /\ e.children \subseteq e.attached
  BY <1>1, IdleBooks DEF Sound
<1>5. CASE Fail(c) /\ UNCHANGED <<live, entry>>
  <2>1. Awaits(c)
    BY <1>1 DEF Awaits
  <2>2. reply'[c] = <<>>
    BY <1>1, <1>5, <2>1, QuietAnswer DEF Fail
  <2> QED
    BY <1>5, <2>2, QuietCurrent
<1>6. CASE live' = live \ {Child(c, t)} /\ entry' = [entry EXCEPT ![c].children = @ \ {t}]
  <2>1. entry'[c] = f
    BY <1>6 DEF Ranges
  <2>2. /\ f.attached = e.attached /\ f.auto = e.auto /\ f.children = e.children \ {t} /\ f.gone = {}
        /\ f.discovered = e.discovered
    BY <1>4 DEF Entries
  <2> HIDE DEF f
  <2>3. \A s \in SessionsOf(c, f) : s \in SessionsOf(c, e) /\ s # Child(c, t)
    <3>1. \A s : s \in SessionsOf(c, f) <=> NamedBy(c, f, s)
      BY <1>4, <2>2, InRecord
    <3>2. \A s : s \in SessionsOf(c, e) <=> NamedBy(c, e, s)
      BY <1>4, InRecord
    <3>3. \A s : NamedBy(c, f, s) => NamedBy(c, e, s) /\ s # Child(c, t)
      BY <2>2, Different DEF NamedBy
    <3> QED
      BY <3>1, <3>2, <3>3
  <2>4. \A s \in SessionsOf(c, f) : TargetOf(s) \in LiveTargets' => s \in live'
    BY <2>3, <1>2, <1>6 DEF CurrentOf
  <2>5. \A x \in f.discovered : x[2] \in LiveTargets' => x[2] \in Visible(c)'
    BY <2>2, <1>2 DEF CurrentOf
  <2>6. Of("destroyed", reply'[c]) = {} /\ \A s \in Of("detached", reply'[c]) : s[2] = "child"
    BY <1>3 DEF Says, Child
  <2> QED
    BY <2>1, <2>2, <2>4, <2>5, <2>6, CurrentWhen
<1> QED
  BY <1>1, <1>5, <1>6

\* Discovery tells of what there is to be seen.
LEMMA DiscoverCurrent ==
  ASSUME Ranges, Stages, Records, NEW c \in Conns, Step(c), BooksOf(c), CurrentOf(c),
         NEW discover \in Filters, SetDiscoverTargets(c, discover)
  PROVE  CurrentOf(c)'
<1> DEFINE o == entry[c]
           e == [o EXCEPT !.discover = discover]
           f == [e EXCEPT !.discovered = Now(c, e)]
<1>1. /\ pc[c] = "idle" /\ context' = context /\ contexts' = contexts /\ live' = live
      /\ entry' = [entry EXCEPT ![c] = f]
  BY DEF SetDiscoverTargets, Serves, registryVars
<1>2. LiveTargets' = LiveTargets /\ Visible(c)' = Visible(c)
  BY <1>1 DEF LiveTargets, Visible, Permitted
<1>3. Says(c, {}, {x \in entry[c].discovered : x[2] \notin Visible(c)})
  BY DiscoverBooks
<1>4. o \in Entries /\ o.gone = {} /\ entry'[c] = f
  BY <1>1, IdleBooks DEF Ranges
<1>5. e \in Entries
  BY <1>4, FiltersAssumption DEF Entries
<1>6. /\ f.attached = o.attached /\ f.auto = o.auto /\ f.children = o.children /\ f.gone = {}
      /\ f.discovered = Now(c, e)
  BY <1>4 DEF Entries
<1>7. \A x \in Now(c, e) : x[2] \in Visible(c)
  BY <1>5, CountedWanted DEF Entries
<1> HIDE DEF e, f
<1>8. SessionsOf(c, f) = SessionsOf(c, o)
  BY <1>6 DEF SessionsOf
<1>9. \A s \in SessionsOf(c, f) : TargetOf(s) \in LiveTargets' => s \in live'
  BY <1>1, <1>2, <1>8 DEF CurrentOf
<1>10. \A x \in f.discovered : x[2] \in LiveTargets' => x[2] \in Visible(c)'
  BY <1>2, <1>6, <1>7
<1>11. \A x \in Of("destroyed", reply'[c]) : x[2] \notin LiveTargets'
  BY <1>2, <1>3 DEF Says, CurrentOf
<1>12. Of("detached", reply'[c]) = {}
  BY <1>3 DEF Says
<1> QED
  BY <1>4, <1>6, <1>9, <1>10, <1>11, <1>12, CurrentWhen

\* A new target is its creator's to see, and its session is in the table.
LEMMA CreateCurrent ==
  ASSUME Ranges, Stages, Records, NEW c \in Conns, Step(c), BooksOf(c), CurrentOf(c),
         NEW cx \in Conns \cup {Default}, NEW t \in Targets, CreateTarget(c, cx, t)
  PROVE  CurrentOf(c)'
<1> DEFINE e == entry[c]
           f == Added(c, t)
           both == {"page", "tab"} \X {t}
           known == Counted(e, both)
           new == New(c, t)
<1>1. /\ pc[c] = "idle" /\ told' = told /\ contexts' = contexts /\ t \notin NamedTargets
      /\ (Refused(c) \/ Creates(c, cx, t))
  BY CreateEffect DEF Serves
<1>2. Says(c, {}, {})
  BY CreateBooks
<1>3. e \in Entries /\ e.gone = {} /\ e.children \subseteq e.attached /\ e.discover \in Kinds
      /\ (e.auto = "off" => e.attached = {})
  BY <1>1, IdleBooks DEF Sound, Entries
<1>4. CASE Refused(c)
  <2>1. Awaits(c)
    BY <1>1 DEF Awaits
  <2>2. reply'[c] = <<>>
    BY <1>1, <1>4, <2>1, QuietAnswer DEF Refused, Fail
  <2> QED
    BY <1>4, <2>2, QuietCurrent DEF Refused
<1>5. CASE Creates(c, cx, t)
  <2>1. entry'[c] = f /\ live' = live \cup new
    BY <1>5 DEF Ranges, Creates
  <2>2. /\ f.attached = (IF new = {} THEN e.attached ELSE e.attached \cup {t})
        /\ f.auto = e.auto /\ f.children = e.children /\ f.gone = {}
        /\ f.discovered = e.discovered \cup known
    BY <1>3 DEF Entries, Added
  <2> HIDE DEF f
  <2>3. new = IF e.auto = "off" THEN {} ELSE {Root(c, e.auto, t)}
    BY DEF New
  <2>4. \A x \in known : x[2] = t
    <3>1. both \in SUBSET Notices
      BY DEF Notices
    <3>2. known = both \cap Wanted(e)
      BY <3>1, <1>3, CountedWanted
    <3> QED
      BY <3>2
  <2> HIDE DEF known, new
  <2>5. t \in Visible(c)'
    <3>1. context' = [context EXCEPT ![t] = cx] /\ (cx = Default \/ (cx = c /\ c \in contexts))
      BY <1>5 DEF Creates
    <3>2. context'[t] = cx
      BY <3>1 DEF Ranges
    <3> QED
      BY <3>1, <3>2, <1>1, TargetNamesAssumption DEF Visible, Permitted, LiveTargets
  <2>6. SessionsOf(c, f) = SessionsOf(c, e) \cup new
    BY <2>2, <2>3, <1>3 DEF SessionsOf
  <2>7. \A s \in SessionsOf(c, e) : TargetOf(s) \in LiveTargets' => s \in live
    <3>1. \A s \in SessionsOf(c, e) : TargetOf(s) \in e.attached
      BY <1>3, RecordSessions DEF Entries
    <3> QED
      BY <3>1, Back DEF CurrentOf
  <2>8. \A s \in SessionsOf(c, f) : TargetOf(s) \in LiveTargets' => s \in live'
    BY <2>1, <2>6, <2>7
  <2>9. \A x \in f.discovered : x[2] \in LiveTargets' => x[2] \in Visible(c)'
    <3>1. \A x \in e.discovered : x[2] \in LiveTargets' => x[2] \in Visible(c)'
      BY Back DEF CurrentOf
    <3> QED
      BY <3>1, <2>2, <2>4, <2>5
  <2>10. Of("destroyed", reply'[c]) = {} /\ Of("detached", reply'[c]) = {}
    BY <1>2 DEF Says
  <2> QED
    BY <2>1, <2>2, <2>8, <2>9, <2>10, CurrentWhen
<1> QED
  BY <1>1, <1>4, <1>5

\* What is closed is gone from the record too.
LEMMA CloseCurrent ==
  ASSUME Ranges, Stages, Records, NEW c \in Conns, Step(c), BooksOf(c), CurrentOf(c),
         NEW t \in Targets, CloseTarget(c, t)
  PROVE  CurrentOf(c)'
<1> DEFINE e == entry[c]
           known == {x \in e.discovered : x[2] = t}
           f == [e EXCEPT !.attached = @ \ {t}, !.children = @ \ {t}, !.discovered = @ \ known]
<1>1. /\ pc[c] = "idle" /\ told' = told
      /\ \/ Refused(c)
         \/ /\ RemoveTargets({t})
            /\ entry' = [entry EXCEPT ![c].attached = @ \ {t}, ![c].children = @ \ {t},
                                      ![c].discovered = @ \ known]
  BY DEF CloseTarget, Serves, Refused
<1>2. Says(c, {s \in Sessions : TargetOf(s) = t}, {x \in Notices : x[2] = t})
  BY CloseBooks
<1>3. e \in Entries /\ e.gone = {} /\ e.children \subseteq e.attached
  BY <1>1, IdleBooks DEF Sound, Entries
<1>4. CASE Refused(c)
  <2>1. Awaits(c)
    BY <1>1 DEF Awaits
  <2>2. reply'[c] = <<>>
    BY <1>1, <1>4, <2>1, QuietAnswer DEF Refused, Fail
  <2> QED
    BY <1>4, <2>2, QuietCurrent DEF Refused
<1>5. CASE /\ RemoveTargets({t})
           /\ entry' = [entry EXCEPT ![c].attached = @ \ {t}, ![c].children = @ \ {t},
                                     ![c].discovered = @ \ known]
  <2>1. entry'[c] = f /\ t \notin LiveTargets'
    BY <1>5 DEF Ranges, RemoveTargets, LiveTargets
  <2>2. /\ f.attached = e.attached \ {t} /\ f.auto = e.auto /\ f.children = e.children \ {t} /\ f.gone = {}
        /\ f.discovered \subseteq e.discovered
    BY <1>3 DEF Entries
  <2> HIDE DEF f
  <2>3. \A s \in SessionsOf(c, f) : s \in SessionsOf(c, e) /\ TargetOf(s) # t
        /\ TargetOf(s) \in e.attached
    <3>1. \A s : s \in SessionsOf(c, f) <=> NamedBy(c, f, s)
      <4>1. f.children \subseteq f.attached
        BY <1>3, <2>2
      <4> QED
        BY <4>1, InRecord
    <3>2. \A s : s \in SessionsOf(c, e) <=> NamedBy(c, e, s)
      BY <1>3, InRecord
    <3>3. \A u : TargetOf(Root(c, e.auto, u)) = u /\ TargetOf(Child(c, u)) = u
      BY DEF TargetOf, Root, Child
    <3>4. \A s : NamedBy(c, f, s) => NamedBy(c, e, s) /\ TargetOf(s) # t /\ TargetOf(s) \in e.attached
      BY <2>2, <3>3 DEF NamedBy
    <3> QED
      BY <3>1, <3>2, <3>4
  <2>4. \A s \in SessionsOf(c, f) : TargetOf(s) \in LiveTargets' => s \in live'
    <3>1. \A s \in live : TargetOf(s) # t => s \in live'
      BY <1>5 DEF RemoveTargets
    <3> QED
      BY <3>1, <2>3, Back DEF CurrentOf
  <2>5. \A x \in f.discovered : x[2] \in LiveTargets' => x[2] \in Visible(c)'
    BY <2>2, Back DEF CurrentOf
  <2>6. /\ \A x \in Of("destroyed", reply'[c]) : x[2] \notin LiveTargets'
        /\ \A s \in Of("detached", reply'[c]) : TargetOf(s) \notin LiveTargets'
    BY <1>2, <2>1 DEF Says
  <2> QED
    BY <2>1, <2>2, <2>4, <2>5, <2>6, CurrentWhen
<1> QED
  BY <1>1, <1>4, <1>5

\* A sweep leaves in the record the sessions that are there, and finds nothing gone
\* whose target is.
LEMMA SweepCurrent ==
  ASSUME Ranges, Records, NEW c \in Conns, CurrentOf(c)
  PROVE  LET f == Swept(c, entry[c])
         IN  /\ \A s \in SessionsOf(c, f) : TargetOf(s) \in LiveTargets => s \in live
             /\ \A s \in f.gone : s[1] = c /\ TargetOf(s) \notin LiveTargets /\ TargetOf(s) \notin f.attached
<1> DEFINE o == entry[c]
           f == Swept(c, o)
           lost == {t \in o.attached : Root(c, o.auto, t) \notin live}
<1>1. o \in Entries /\ Sound(o) /\ o.attached \subseteq Targets /\ o.children \subseteq o.attached
  BY DEF Ranges, Records, Sound, Entries
<1>2. /\ f.gone = o.gone \cup {s \in SessionsOf(c, o) : TargetOf(s) \in lost}
      /\ SessionsOf(c, f) = {s \in SessionsOf(c, o) : TargetOf(s) \notin lost}
      /\ f.attached = {t \in o.attached : Root(c, o.auto, t) \in live}
  BY <1>1, SweptSessions, SweptSound
<1>3. \A s \in SessionsOf(c, o) : s[1] = c
  BY <1>1, RecordSessions DEF Of1
<1>4. \A t \in lost : t \notin LiveTargets
  <2> SUFFICES ASSUME NEW t \in lost PROVE t \notin LiveTargets
    OBVIOUS
  <2>1. Root(c, o.auto, t) \in SessionsOf(c, o) /\ TargetOf(Root(c, o.auto, t)) = t
    BY <1>1, Names DEF SessionsOf
  <2> QED
    BY <2>1 DEF CurrentOf
<1> HIDE DEF f
<1>5. \A s \in SessionsOf(c, f) : TargetOf(s) \in LiveTargets => s \in live
  BY <1>2 DEF CurrentOf
<1>6. \A s \in f.gone : s[1] = c /\ TargetOf(s) \notin LiveTargets
  BY <1>2, <1>3, <1>4 DEF CurrentOf
<1>7. \A s \in f.gone : TargetOf(s) \notin f.attached
  BY <1>2 DEF CurrentOf
<1> QED
  BY <1>5, <1>6, <1>7 DEF f

\* Listing the targets to attach to.
LEMMA ListCurrent ==
  ASSUME Ranges, Stages, Records, NEW c \in Conns, Step(c), BooksOf(c), CurrentOf(c),
         NEW auto \in {"pages", "tabs"}, NEW wait \in BOOLEAN, SetAutoAttach(c, auto, wait)
  PROVE  CurrentOf(c)'
<1> DEFINE f == Swept(c, entry[c])
<1>1. /\ pc[c] = "idle" /\ UNCHANGED <<context, live, contexts, told>>
      /\ \/ Fail(c) /\ UNCHANGED entry
         \/ entry' = [entry EXCEPT ![c] = f] /\ pc' = [pc EXCEPT ![c] = "enable"]
  BY DEF SetAutoAttach, Serves, registryVars
<1>2. LiveTargets' = LiveTargets /\ Visible(c)' = Visible(c)
  BY <1>1 DEF LiveTargets, Visible, Permitted
<1>3. CASE Fail(c) /\ UNCHANGED entry
  <2>1. Awaits(c)
    BY <1>1 DEF Awaits
  <2>2. reply'[c] = <<>>
    BY <1>1, <1>3, <2>1, QuietAnswer DEF Fail
  <2> QED
    BY <1>1, <1>3, <2>2, QuietCurrent
<1>4. CASE entry' = [entry EXCEPT ![c] = f] /\ pc' = [pc EXCEPT ![c] = "enable"]
  <2>1. entry'[c] = f /\ ~ Answered(c)' /\ ~ Busy(c)'
    BY <1>4 DEF Ranges, Answered, Busy
  <2>2. /\ \A s \in SessionsOf(c, f) : TargetOf(s) \in LiveTargets => s \in live
        /\ \A s \in f.gone : s[1] = c /\ TargetOf(s) \notin LiveTargets /\ TargetOf(s) \notin f.attached
    BY SweepCurrent
  <2>3. f.discovered = entry[c].discovered
    BY SweptSessions DEF Ranges, Records, Sound
  <2> HIDE DEF f, Answered, Busy
  <2>4. \A x \in f.discovered : x[2] \in LiveTargets => x[2] \in Visible(c)
    BY <2>3 DEF CurrentOf
  <2> QED
    BY <1>1, <1>2, <2>1, <2>2, <2>4 DEF CurrentOf
<1> QED
  BY <1>1, <1>3, <1>4

\* The reconciliation brings the record up to date.
LEMMA ReconcileCurrent ==
  ASSUME Ranges, Stages, Records, NEW c \in Conns, Step(c), BooksOf(c), CurrentOf(c), Reconcile(c)
  PROVE  CurrentOf(c)'
<1> DEFINE e == Swept(c, entry[c])
           f == [e EXCEPT !.gone = {}, !.discovered = Now(c, e)]
<1>1. /\ pc[c] = "reconcile" /\ UNCHANGED <<context, live, contexts>> /\ pc'[c] \in {"send", "attach"}
      /\ entry' = [entry EXCEPT ![c] = f]
  BY DEF Reconcile, registryVars, Ranges
<1>2. LiveTargets' = LiveTargets /\ Visible(c)' = Visible(c)
  BY <1>1 DEF LiveTargets, Visible, Permitted
<1>3. Busy(c) /\ ~ Answered(c)'
  BY <1>1 DEF Busy, Answered
<1>4. /\ \A s \in SessionsOf(c, e) : TargetOf(s) \in LiveTargets => s \in live
      /\ \A s \in e.gone : TargetOf(s) \notin LiveTargets
  BY SweepCurrent
<1>5. e \in Entries /\ e.auto = entry[c].auto
  BY SweptSound DEF Ranges, Records, Sound
<1>6. Of("detached", reply'[c]) = Of("detached", reply[c]) \cup e.gone
  BY ReconcileBooks
<1> HIDE DEF e
<1>7. /\ entry'[c] = f /\ f.auto = e.auto /\ f.attached = e.attached /\ f.children = e.children
      /\ f.gone = {} /\ f.discovered = Now(c, e)
  BY <1>1, <1>5 DEF Ranges, Entries
<1> HIDE DEF f
<1>8. SessionsOf(c, f) = SessionsOf(c, e)
  BY <1>7 DEF SessionsOf
<1>9. \A x \in f.discovered : x[2] \in Visible(c)
  BY <1>5, <1>7, CountedWanted DEF Entries
<1>10. \A s \in Of("detached", reply'[c]) :
         s[2] = "child" \/ TargetOf(s) \notin LiveTargets \/ f.auto = "off"
  BY <1>3, <1>4, <1>5, <1>6, <1>7 DEF CurrentOf
<1> HIDE DEF Answered, Busy
<1> QED
  BY <1>1, <1>2, <1>3, <1>4, <1>7, <1>8, <1>9, <1>10 DEF CurrentOf

\* Attaching to what is missing.
LEMMA MissingCurrent ==
  ASSUME Ranges, Stages, Records, NEW c \in Conns, Step(c), BooksOf(c), CurrentOf(c), AttachMissing(c)
  PROVE  CurrentOf(c)'
<1> DEFINE e == entry[c]
           ts == Attachable(job[c].ids)
           new == {Root(c, e.auto, t) : t \in ts}
           f == [e EXCEPT !.attached = @ \cup ts]
<1>1. /\ pc[c] = "attach" /\ UNCHANGED <<context, contexts>> /\ pc'[c] = "send"
      /\ live' = live \cup new /\ entry' = [entry EXCEPT ![c].attached = @ \cup ts]
  BY DEF AttachMissing, Ranges
<1>2. LiveTargets' = LiveTargets /\ Visible(c)' = Visible(c)
  BY <1>1 DEF LiveTargets, Visible, Permitted
<1>3. Busy(c) /\ ~ Answered(c) /\ ~ Answered(c)'
  BY <1>1 DEF Busy, Answered
<1>4. e.gone = {}
  BY <1>1, <1>3 DEF BooksOf
<1>5. Of("detached", reply'[c]) = Of("detached", reply[c])
  BY MissingBooks
<1>6. /\ entry'[c] = f /\ f.auto = e.auto /\ f.attached = e.attached \cup ts /\ f.children = e.children
      /\ f.gone = {} /\ f.discovered = e.discovered
  BY <1>1, <1>4 DEF Ranges, Entries
<1>7. SessionsOf(c, f) = SessionsOf(c, e) \cup new
  BY <1>6 DEF SessionsOf
<1> HIDE DEF f, ts, new
<1>8. \A s \in SessionsOf(c, f) : TargetOf(s) \in LiveTargets => s \in live'
  BY <1>1, <1>7 DEF CurrentOf
<1>9. \A x \in f.discovered : x[2] \in LiveTargets => x[2] \in Visible(c)
  BY <1>6 DEF CurrentOf
<1>10. \A s \in Of("detached", reply'[c]) :
         s[2] = "child" \/ TargetOf(s) \notin LiveTargets \/ f.auto = "off"
  BY <1>3, <1>5, <1>6 DEF CurrentOf
<1> HIDE DEF Answered, Busy
<1> QED
  BY <1>2, <1>3, <1>6, <1>8, <1>9, <1>10 DEF CurrentOf

\* A connection's own step keeps its record right.
LEMMA OwnCurrent ==
  ASSUME Ranges, Stages, Records, NEW c \in Conns, BooksOf(c), CurrentOf(c), Step(c)
  PROVE  CurrentOf(c)'
<1>1. CASE \/ EnableAutoAttach(c) \/ DisableAutoAttach(c) \/ Reconcile(c) \/ AttachMissing(c)
  BY <1>1, EnableCurrent, DisableCurrent, ReconcileCurrent, MissingCurrent
<1>2. CASE \E auto \in {"pages", "tabs"}, wait \in BOOLEAN : SetAutoAttach(c, auto, wait)
  BY <1>2, ListCurrent
<1>3. CASE \E t \in entry[c].attached, wait \in BOOLEAN : AttachChild(c, t, wait)
  BY <1>3, AttachChildCurrent
<1>4. CASE \E t \in entry[c].attached : DetachChild(c, t)
  BY <1>4, DetachChildCurrent
<1>5. CASE \E discover \in Filters : SetDiscoverTargets(c, discover)
  BY <1>5, DiscoverCurrent
<1>6. CASE \E cx \in Conns \cup {Default}, t \in Targets : CreateTarget(c, cx, t)
  BY <1>6, CreateCurrent
<1>7. CASE \E t \in Targets : CloseTarget(c, t)
  BY <1>7, CloseCurrent
<1>8. CASE \/ \E failed \in BOOLEAN : Other(c, failed)
           \/ CreateBrowserContext(c)
           \/ \E s \in told[c].sessions : RunIfWaitingForDebugger(c, s)
           \/ Open(c) \/ Release(c) \/ Forget(c) \/ Send(c)
           \/ \E t \in job[c].ids : CommitInitialBlank(c, t)
           \/ TakeOrphanedPaused(c, "ended", "reconcile") \/ TakeOrphanedPaused(c, "orphans", "prune")
           \/ \E s \in job[c].ids : DetachNext(c, s)
           \/ DisposeBrowserContext(c) \/ Prune(c)
  BY <1>8, PlainCurrent
<1>9. Step(c)
  OBVIOUS
<1> QED
  BY <1>1, <1>2, <1>3, <1>4, <1>5, <1>6, <1>7, <1>8, <1>9 DEF Step, Request, Proceed

\* The books, with what the first invariant says of the tables, are kept by every step.
LEMMA NoticesKept ==
  ASSUME IInv, Books, Current, NEW c \in Conns, Step(c)
  PROVE  Books' /\ Current' /\ (Haunted => Haunted')
<1>1. Ranges /\ Caps /\ Stages /\ Early /\ Records /\ Held
  BY DEF IInv
<1>2. Books'
  BY <1>1, BooksKept
<1>3. ASSUME NEW d \in Conns PROVE CurrentOf(d)'
  <2>1. CASE d = c
    BY <2>1, <1>1, OwnCurrent DEF Books, Current
  <2>2. CASE d # c
    BY <2>2, <1>1, OthersCurrent DEF Current
  <2> QED
    BY <2>1, <2>2
<1> QED
  BY <1>1, <1>2, <1>3, HauntedKept DEF Current

-----------------------------------------------------------------------------
(* Every client is told what changes *)

\* Nobody has been told of anything.
LEMMA NothingTold == Init => Books /\ Current /\ Haunted
<1>0. Init => Haunted
  BY DEF Init, Nothing, Haunted
<1> SUFFICES ASSUME Init, NEW c \in Conns PROVE BooksOf(c) /\ CurrentOf(c)
  BY <1>0 DEF Books, Current
<1>1. pc[c] = "closed" /\ entry[c] = NewEntry /\ told[c] = Nothing
  BY DEF Init
<1>2. ~ Awaits(c) /\ ~ Busy(c) /\ ~ Answered(c)
  BY <1>1 DEF Awaits, Busy, Answered
<1>3. NewEntry.gone = {} /\ NewEntry.discovered = {} /\ SessionsOf(c, NewEntry) = {}
  BY DEF NewEntry, SessionsOf
<1> HIDE DEF Awaits, Busy, Answered, NewEntry
<1> QED
  BY <1>1, <1>2, <1>3 DEF BooksOf, CurrentOf

\* The books are about the variables alone.
LEMMA BooksStutter ==
  /\ Books /\ Current /\ UNCHANGED vars => Books' /\ Current'
  /\ Haunted /\ UNCHANGED vars => Haunted'
<1>0. Haunted /\ UNCHANGED vars => Haunted'
  BY DEF vars, Haunted
<1> SUFFICES ASSUME Books, Current, UNCHANGED vars, NEW c \in Conns PROVE BooksOf(c)' /\ CurrentOf(c)'
  BY <1>0 DEF Books, Current
<1>u. UNCHANGED <<context, live, paused, contexts, documents, entry, pc, job, reply, told>>
  BY DEF vars, registryVars
<1>1. /\ Away(c)' = Away(c) /\ Awaits(c)' = Awaits(c) /\ Busy(c)' = Busy(c) /\ Answered(c)' = Answered(c)
      /\ LiveTargets' = LiveTargets /\ Visible(c)' = Visible(c)
  BY <1>u DEF Away, Over, Awaits, Busy, Answered, LiveTargets, Visible, Permitted
<1>2. BooksOf(c) /\ CurrentOf(c)
  BY DEF Books, Current
<1> HIDE DEF Away, Awaits, Busy, Answered, LiveTargets, Visible
<1>3. BooksOf(c)'
  BY <1>u, <1>1, <1>2 DEF BooksOf, Believed, Balanced, Sure, Ready, SessionsOf
<1>4. CurrentOf(c)'
  BY <1>u, <1>1, <1>2 DEF CurrentOf, SessionsOf
<1> QED
  BY <1>3, <1>4

\* What every client has been told and is about to be told is what its record says, and
\* what its record says of targets that are there is what the tables say; its ghosts are
\* all that it believes in beside.
THEOREM NoticesInvariance == Spec => [](Books /\ Current /\ Haunted)
<1>1. IInv /\ Books /\ Current /\ Haunted /\ [Next]_vars => Books' /\ Current' /\ Haunted'
  BY NoticesKept, BooksStutter DEF Next, Step
<1> QED
  BY NothingTold, Invariance, <1>1, PTL DEF Spec

\* In a fine reply two notices of which one may not come second are in the other order.
LEMMA InOrder ==
  ASSUME NEW r \in Seq(Events), Fine(r), NEW i \in DOMAIN r, NEW j \in DOMAIN r,
         r[i] # r[j], Clash(r[j], r[i])
  PROVE  i < j
<1>1. i \in Int /\ j \in Int
  OBVIOUS
<1>2. ~ (j < i)
  BY DEF Fine
<1>3. i # j
  OBVIOUS
<1> QED
  BY <1>1, <1>2, <1>3

\* NoticesAgree: whatever connections and releases do side by side, a client that reads its
\* replies in order and may send its next request believes in exactly the sessions and
\* targets that its record names, and in its ghosts: sessions that are over, whose end came
\* before their beginning in one reply.  The reply that is about to go out says nothing
\* twice, ends nothing that was not announced, but for such a session, and has its other
\* notices in the order that insert_auto_events promises.
THEOREM NoticesStayInStep == Spec => []NoticesAgree
<1>1. IInv /\ Books /\ Current /\ Haunted => NoticesAgree
  <2> SUFFICES ASSUME IInv, Books, Haunted PROVE NoticesAgree
    OBVIOUS
  <2>1. ASSUME NEW c \in Conns, pc[c] = "idle"
        PROVE  /\ Sure(told[c]) = SessionsOf(c, entry[c]) \cup entry[c].gone
               /\ told[c].ghosts \subseteq told[c].sessions
               /\ told[c].notices = entry[c].discovered
    BY <2>1 DEF Books, BooksOf, Awaits, Believed, Haunted
  <2>2. ASSUME NEW c \in Conns, pc[c] = "send"
        PROVE  reply[c] \in Seq(Events) /\ Fine(reply[c]) /\ Balanced(c, told[c], reply[c], entry[c])
    BY <2>2 DEF IInv, Ranges, Books, BooksOf, Busy, Balanced
  <2>3. ASSUME NEW c \in Conns, pc[c] = "send", NEW i \in DOMAIN reply[c], NEW j \in DOMAIN reply[c],
               reply[c][i] = reply[c][j]
        PROVE  i = j
    <3>1. i \in Int /\ j \in Int
      BY <2>3, <2>2
    <3>2. ~ (i < j) /\ ~ (j < i)
      BY <2>3, <2>2 DEF Fine, Clash
    <3> QED
      BY <3>1, <3>2
  <2>7. ASSUME NEW c \in Conns, pc[c] = "send", NEW i \in DOMAIN reply[c], reply[c][i].method = "detached"
        PROVE  LET r == reply[c]
                   x == r[i].what
               IN  x \in Sure(told[c]) \/ Said("attached", x, r, Before(i, r)) \/ x \in Crossed(r)
    <3> DEFINE r == reply[c]
               x == r[i].what
    <3>1. r \in Seq(Events) /\ Of("detached", r) \subseteq Sure(told[c]) \cup Of("attached", r)
      BY <2>7, <2>2 DEF Balanced
    <3>2. x \in Of("detached", r) /\ r[i] = Event("detached", x)
      <4>1. r[i] \in Events
        BY <3>1
      <4> QED
        BY <2>7, <4>1 DEF Of, Events, SessionEvents, NoticeEvents, Event
    <3> SUFFICES ASSUME x \in Of("attached", r) PROVE Said("attached", x, r, Before(i, r)) \/ x \in Crossed(r)
      BY <3>1, <3>2
    <3>3. PICK k \in DOMAIN r : r[k] = Event("attached", x) /\ r[k].method = "attached" /\ r[k].what = x
      BY <3>1, SaidOf DEF Range, Event
    <3>4. k < i \/ i < k
      BY <3>1, <3>2, <3>3 DEF Event
    <3> HIDE DEF r, x
    <3>5. CASE k < i
      BY <3>3, <3>5 DEF Said, Before
    <3>6. CASE i < k
      <4>1. i \in DOMAIN r
        BY DEF r
      <4>2. Said("detached", r[k].what, r, Before(k, r))
        BY <3>2, <3>3, <3>6, <4>1 DEF Said, Before
      <4> QED
        BY <3>3, <4>2 DEF Crossed
    <3> QED
      BY <3>4, <3>5, <3>6
  <2>8. ASSUME NEW c \in Conns, pc[c] = "send", NEW i \in DOMAIN reply[c], reply[c][i].method = "destroyed"
        PROVE  LET r == reply[c]
                   x == r[i].what
               IN  x \in told[c].notices \/ Said("created", x, r, Before(i, r))
    <3> DEFINE r == reply[c]
               x == r[i].what
    <3>1. /\ r \in Seq(Events) /\ Fine(r)
          /\ Of("destroyed", r) \subseteq told[c].notices \cup Of("created", r)
      BY <2>8, <2>2 DEF Balanced
    <3>2. x \in Of("destroyed", r) /\ r[i] = Event("destroyed", x)
      <4>1. r[i] \in Events
        BY <3>1
      <4> QED
        BY <2>8, <4>1 DEF Of, Events, SessionEvents, NoticeEvents, Event
    <3> SUFFICES ASSUME x \in Of("created", r) PROVE Said("created", x, r, Before(i, r))
      BY <3>1, <3>2
    <3>3. PICK k \in DOMAIN r : r[k] = Event("created", x)
      BY <3>1, SaidOf DEF Range
    <3>4. r[i] # r[k] /\ Clash(r[i], r[k])
      BY <3>2, <3>3 DEF Clash, Event
    <3>5. k < i
      BY <3>1, <3>4, InOrder
    <3> HIDE DEF r, x
    <3> QED
      BY <3>3, <3>5 DEF Said, Before
  <2>9. ASSUME NEW c \in Conns, pc[c] = "send"
        PROVE  Crossed(reply[c]) \cap (SessionsOf(c, entry[c]) \cup entry[c].gone) = {}
    <3>1. Crossed(reply[c]) \subseteq Of("detached", reply[c])
      BY <2>9, <2>2, HeardSessions
    <3> QED
      BY <3>1, <2>9, <2>2 DEF Balanced
  <2>10. ASSUME NEW c \in Conns, pc[c] = "send"
         PROVE  /\ Of("attached", reply[c]) \cap Sure(told[c]) = {}
                /\ Of("created", reply[c]) \cap Counted(entry[c], told[c].notices) = {}
    BY <2>10, <2>2 DEF Balanced
  <2>4. ClientsInformed
    BY <2>1, <2>3, <2>7, <2>8, <2>9, <2>10 DEF ClientsInformed
  <2>5. ASSUME NEW c \in Conns, pc[c] = "send", NEW i \in DOMAIN reply[c], NEW j \in DOMAIN reply[c],
               Clash(reply[c][j], reply[c][i]), reply[c][i] # reply[c][j]
        PROVE  i < j
    BY <2>5, <2>2, InOrder
  <2>6. NoticesInOrder
    BY <2>5 DEF NoticesInOrder, Precedes, Clash
  <2> QED
    BY <2>4, <2>6 DEF NoticesAgree
<1> QED
  BY Invariance, NoticesInvariance, <1>1, PTL

=============================================================================
