-------------------------- MODULE PageNavigateProofs --------------------------
(***************************************************************************)
(* Theorems about PageNavigate, for any targets, any calls, finitely or    *)
(* infinitely many, and any largest generation.                            *)
(***************************************************************************)
EXTENDS PageNavigate, FiniteSetTheorems, TLAPS

USE DEF navVars, regVars, pubVars, callVars

InFlight == {c \in Calls : Browser(c) /\ pc[c] \notin {"idle", "done", "dropped"}}

\* What a call has by the time it has come so far.
Stages ==
  \A c \in Calls :
    /\ pc[c] \in {"idle", "begin"} => began[c] = 0
    /\ pc[c] \in {"clear", "fetch", "run"} => began[c] # 0 /\ committed[c] = 0
    /\ pc[c] = "reply" => committed[c] # 0
    /\ pc[c] = "publish" /\ Browser(c) => committed[c] # 0
    /\ pc[c] = "leave" => Browser(c)
    /\ pc[c] = "dropped" => ~ Browser(c)
    /\ committed[c] # 0 => began[c] # 0

\* Only calls without a session navigate Shared.  While its target exists, a
\* call works on the target's state, and not on one of its own.
Where ==
  \A c \in Calls :
    /\ nav[c] = Shared <=> Browser(c)
    /\ place[c] \in alive => nav[c] = place[c]
    /\ nav[c] \in Targets => place[c] = nav[c]

\* The generations of two calls on one state are apart: each has those from
\* its begin to its commit.
Numbers ==
  /\ \A c \in Calls :
       /\ began[c] <= generation[nav[c]] /\ committed[c] <= generation[nav[c]]
       /\ committed[c] # 0 => began[c] <= committed[c]
  /\ \A c, d \in Calls :
       c # d /\ nav[c] = nav[d] /\ began[c] # 0 /\ began[d] # 0
       => Awaited(c) < began[d] \/ Awaited(d) < began[c]

\* A page is on record as long as the generation is that of its commit.
OnRecord ==
  /\ \A c \in Calls :
       committed[c] # 0 /\ generation[nav[c]] = committed[c] => latest[nav[c]] = c
  /\ \A n \in Navs \ {Shared} : latest[n] # NoCall =>
       /\ nav[latest[n]] = n
       /\ committed[latest[n]] # 0 /\ committed[latest[n]] = generation[n]
  /\ latest[Shared] # NoCall => committed[latest[Shared]] # 0

\* Commits have numbers of their own.
Sequence ==
  /\ pubSeq <= seq /\ shownSeq <= seq
  /\ \A c \in Calls : commitSeq[c] <= seq /\ (commitSeq[c] = 0 <=> committed[c] = 0)
  /\ \A c, d \in Calls : commitSeq[c] = commitSeq[d] => c = d \/ commitSeq[c] = 0

\* BrowserFlight: browser_in_flight counts right.
Flight == IsFiniteSet(InFlight) /\ FlightAccounted

\* What was put off is the newest commit.
PutOff ==
  pending # NoCall =>
    /\ ~ Browser(pending) /\ committed[pending] # 0
    /\ commitSeq[pending] = pubSeq

\* A target's page on show is what was last mirrored.  It is gone as soon as a
\* browser navigation has begun, and none comes before that one leaves.
Mirrors ==
  /\ mirrored.gen <= generation[Shared]
  /\ latest[Shared] # NoCall /\ ~ Browser(latest[Shared]) =>
       mirrored = [call |-> latest[Shared], gen |-> generation[Shared]]
  /\ \A d \in Calls : Browser(d) /\ began[d] # 0 /\ pc[d] \notin {"leave", "done"} =>
       /\ mirrored.gen < began[d]
       /\ latest[Shared] = NoCall \/ Browser(latest[Shared])

\* A browser call whose commit is on show and not published yet.
Ahead(d) == Browser(d) /\ pc[d] \in {"settle", "publish"} /\ commitSeq[d] > pubSeq

\* Only such a call shows something newer than what was published.
Shown == shownSeq <= pubSeq \/ \E d \in Calls : Ahead(d) /\ commitSeq[d] = shownSeq

\* The newest published commit is on show, unless it was put off, or a browser
\* navigation has begun or is ahead.
Newest ==
  \A c \in Calls :
    commitSeq[c] = pubSeq /\ pubSeq > 0 /\ place[c] \in alive /\ generation[nav[c]] = committed[c]
    => \/ pending = c
       \/ latest[Shared] \in {c, NoCall}
       \/ \E d \in Calls : latest[Shared] = d /\ Ahead(d)

\* The failed navigation of a target counts as long as it is the last one.
LastFailed(c) ==
  /\ pc[c] = "done" /\ place[c] \in alive
  /\ committed[c] = 0 /\ IsCurrent(nav[c], began[c])

\* FailedPageIsWithdrawn, also while browser navigations are under way.
Withdrawn ==
  ~ parallel => \A c \in Calls :
    LastFailed(c) /\ latest[Shared] # NoCall => place[latest[Shared]] # place[c]

Basics == TypeOK /\ Stages /\ Where /\ Numbers /\ OnRecord /\ Sequence /\ Flight
Publication == PutOff /\ Mirrors /\ Shown /\ Newest
IInv == /\ Basics /\ Publication /\ OnlyBrowserSupersedes
        /\ UrlFollowsNavigation /\ Withdrawn

-----------------------------------------------------------------------------
(* What the steps are made of.                                             *)

\* A call goes on and leaves everything else alone, but for the lock it may
\* take or give back and the events it may send.
Pass(c) ==
  \/ Refuse(c) \/ FetchFails(c) \/ Fetched(c) \/ CommitSuperseded(c)
  \/ SettleNothing(c) \/ Settle(c) \/ PublishOvertaken(c) \/ PublishGone(c)
  \/ BrowserFails(c) \/ BrowserSettle(c) \/ Reply(c) \/ Abandon(c)

passVars == <<navVars, regVars, seq, pubSeq, mirrored, flight, pending, place, nav, kind,
              began, committed, commitSeq, shownSeq>>

LEMMA Constants ==
  /\ MaxGen \in Nat /\ NoCall \notin Calls /\ Shared \in Navs
  /\ \A t \in Targets : t \in Navs /\ t # Shared /\ t \notin Calls
  /\ \A c \in Calls : c \in Navs /\ c # Shared
BY NoPageAssumption, MaxGenAssumption, NavsAssumption DEF Calls, NoCall

LEMMA Passing ==
  ASSUME TypeOK, NEW c \in Calls, Pass(c)
  PROVE  /\ UNCHANGED passVars
         /\ \A d \in Calls \ {c} : pc'[d] = pc[d]
         /\ <<pc[c], pc'[c]>> \in
              {<<"begin", "settle">>, <<"fetch", "settle">>, <<"fetch", "run">>,
               <<"run", "settle">>, <<"clear", "settle">>, <<"settle", "done">>,
               <<"settle", "publish">>, <<"publish", "done">>, <<"settle", "leave">>,
               <<"reply", "leave">>, <<"reply", "done">>, <<"fetch", "leave">>,
               <<"run", "leave">>, <<"fetch", "dropped">>, <<"run", "dropped">>}
         /\ pc[c] = "settle" /\ pc'[c] = "done" =>
              ~ Browser(c) /\ (place[c] \notin alive \/ (committed[c] = 0 /\ ~ Failed(c)))
         /\ pc[c] = "publish" =>
              /\ ~ Browser(c)
              /\ \/ generation[nav[c]] # IF committed[c] # 0 THEN committed[c] ELSE began[c]
                 \/ place[c] \notin alive /\ committed[c] # 0
         /\ pc[c] = "settle" /\ pc'[c] = "publish" /\ Browser(c) => committed[c] # 0
         /\ pc[c] = "settle" /\ pc'[c] = "leave" => Browser(c) /\ committed[c] = 0
         /\ pc[c] \in {"reply", "fetch", "run"} /\ pc'[c] = "leave" => Browser(c)
         /\ pc'[c] \in {"done", "dropped"} => ~ Browser(c)
<1>1. UNCHANGED passVars
  BY DEF Pass, passVars, Refuse, FetchFails, Fetched, CommitSuperseded, SettleNothing, Settle,
     PublishOvertaken, PublishGone, BrowserFails, BrowserSettle, Reply, Abandon, Withdraw
<1>2. PICK l : pc' = [pc EXCEPT ![c] = l]
  BY DEF Pass, Goto, Refuse, FetchFails, Fetched, CommitSuperseded, SettleNothing, Settle,
     PublishOvertaken, PublishGone, BrowserFails, BrowserSettle, Reply, Abandon, Withdraw
<1>3. pc'[c] = l /\ \A d \in Calls \ {c} : pc'[d] = pc[d]
  BY <1>2 DEF TypeOK
<1>4. CASE Refuse(c) \/ FetchFails(c) \/ Fetched(c) \/ CommitSuperseded(c)
  BY <1>1, <1>3, <1>4 DEF TypeOK, Goto, Refuse, FetchFails, Fetched, CommitSuperseded
<1>5. CASE SettleNothing(c) \/ Settle(c)
  BY <1>1, <1>3, <1>5 DEF TypeOK, Goto, SettleNothing, Settle
<1>6. CASE PublishOvertaken(c) \/ PublishGone(c)
  BY <1>1, <1>3, <1>6 DEF TypeOK, Goto, PublishOvertaken, PublishGone, Withdraw
<1>7. CASE BrowserFails(c) \/ BrowserSettle(c)
  BY <1>1, <1>3, <1>7 DEF TypeOK, Goto, BrowserFails, BrowserSettle
<1>8. CASE Reply(c) \/ Abandon(c)
  BY <1>1, <1>3, <1>8 DEF TypeOK, Goto, Reply, Abandon
<1> QED BY <1>4, <1>5, <1>6, <1>7, <1>8 DEF Pass

\* The steps of a behaviour, as the proofs below go through them.
LEMMA Steps ==
  ASSUME Next
  PROVE  \/ \E c \in Calls : Enter(c) \/ Begin(c) \/ Pass(c) \/ Commit(c) \/ PublishPage(c)
                             \/ PublishFailure(c) \/ BrowserPublish(c) \/ Leave(c)
         \/ \E t \in Targets : CloseTarget(t)
         \/ UNCHANGED vars
BY DEF Next, CallStep, Pass, Finished

\* With no browser navigation under way, or only one that leaves, each has
\* ended as far as its generation goes.
LEMMA NobodyFlies ==
  ASSUME IInv, flight = 0 \/ (flight = 1 /\ \E c \in Calls : pc[c] = "leave")
  PROVE  \A d \in Calls : Browser(d) /\ began[d] # 0 => pc[d] \in {"leave", "done"}
<1>1. IsFiniteSet(InFlight) /\ flight = Cardinality(InFlight)
  BY DEF IInv, Basics, Flight, FlightAccounted, InFlight
<1>2. \A d \in Calls : Browser(d) /\ began[d] # 0 => d \in InFlight \/ pc[d] = "done"
  BY DEF IInv, Basics, Stages, InFlight
<1>3. CASE flight = 0
  BY <1>1, <1>2, <1>3, FS_EmptySet
<1>4. CASE flight = 1 /\ \E c \in Calls : pc[c] = "leave"
  <2>1. PICK c \in Calls : pc[c] = "leave"
    BY <1>4
  <2>2. c \in InFlight
    BY <2>1 DEF IInv, Basics, Stages, InFlight
  <2>3. PICK x : InFlight = {x}
    BY <1>1, <1>4, FS_Singleton
  <2> QED BY <1>2, <2>1, <2>2, <2>3
<1> QED BY <1>3, <1>4

\* Who leaves was counted.
LEMMA Leaving ==
  ASSUME IInv, NEW c \in Calls, pc[c] = "leave"
  PROVE  flight \in Nat \ {0}
<1>1. IsFiniteSet(InFlight) /\ flight = Cardinality(InFlight)
  BY DEF IInv, Basics, Flight, FlightAccounted, InFlight
<1>2. c \in InFlight
  BY DEF IInv, Basics, Stages, InFlight
<1> QED BY <1>1, <1>2, FS_EmptySet, FS_CardinalityType

\* BrowserPublish need not look at what is on show: since the call's begin it is
\* no mirror.
LEMMA NotOnShared ==
  ASSUME IInv, NEW c \in Calls, BrowserPublish(c)
  PROVE  ~ OnShared /\ UNCHANGED navVars
<1>1. Browser(c) /\ pc[c] = "publish" /\ began[c] # 0 /\ nav[c] = Shared
  BY DEF BrowserPublish, IInv, Basics, Stages, Where
<1>2. mirrored.gen < began[c] /\ began[c] <= generation[Shared]
  BY <1>1 DEF IInv, Publication, Mirrors, Basics, Numbers
<1>3. mirrored.gen \in Nat /\ began[c] \in Nat /\ generation[Shared] \in Nat
  BY Constants DEF IInv, Basics, TypeOK, NavTypeOK
<1>4. generation[Shared] # mirrored.gen
  BY <1>2, <1>3
<1> QED BY <1>4 DEF OnShared, BrowserPublish

-----------------------------------------------------------------------------
(* Types and stages.                                                       *)

LEMMA InitHolds == Init => IInv
<1> SUFFICES ASSUME Init PROVE IInv
  OBVIOUS
<1> USE Constants
<1>1. TypeOK
  BY DEF Init, NavInit, TypeOK, NavTypeOK, NoMirror, Calls, NoCall
<1>2. Flight
  <2>1. InFlight = {}
    BY DEF Init, InFlight
  <2>2. {c \in Calls : Browser(c) /\ pc[c] \notin {"idle", "done", "dropped"}} = {}
    BY DEF Init
  <2> QED BY <2>1, <2>2, FS_EmptySet DEF Flight, FlightAccounted, Init
<1>3. Stages /\ Where /\ Numbers /\ OnRecord /\ Sequence
  BY DEF Init, NavInit, Stages, Where, Numbers, OnRecord, Sequence, Browser, Calls, NoCall
<1>4. Publication
  BY DEF Publication, PutOff, Mirrors, Shown, Newest, Init, NavInit, NoMirror, NoCall
<1>5. OnlyBrowserSupersedes /\ UrlFollowsNavigation /\ Withdrawn
  BY DEF OnlyBrowserSupersedes, UrlFollowsNavigation, Withdrawn, LastFailed, Init, NavInit,
     NoCall
<1> QED BY <1>1, <1>2, <1>3, <1>4, <1>5 DEF IInv, Basics

LEMMA TypesKept == ASSUME IInv, [Next]_vars PROVE TypeOK'
<1> USE Constants
<1>0. TypeOK
  BY DEF IInv, Basics
<1>1. ASSUME NEW c \in Calls, Enter(c) PROVE TypeOK'
  <2>1. nav'[c] \in Navs /\ place' \in [Calls -> Targets \cup {Shared}] /\ nav' \in [Calls -> Navs]
    BY <1>0, <1>1 DEF Enter, EnterTarget, EnterBrowser, TypeOK
  <2>2. flight' \in Nat /\ UNCHANGED <<publisher, pubSeq, mirrored, pending>>
    BY <1>0, <1>1 DEF Enter, EnterTarget, EnterBrowser, TypeOK
  <2>3. /\ pc' \in [Calls -> {"idle", "begin", "clear", "fetch", "run", "settle",
                              "publish", "reply", "leave", "done", "dropped"}]
        /\ kind' \in [Calls -> {"refused", "blank", "page"}]
    BY <1>0, <1>1 DEF Enter, Goto, TypeOK
  <2>4. UNCHANGED <<navVars, regVars, seq, began, committed, commitSeq, navigated, told, shownSeq>>
    BY <1>0, <1>1 DEF Enter
  <2> QED BY <1>0, <2>1, <2>2, <2>3, <2>4 DEF TypeOK, NavTypeOK
<1>2. ASSUME NEW c \in Calls, Begin(c) PROVE TypeOK'
  BY <1>0, <1>2 DEF Begin, BeginNavigation, Goto, TypeOK, NavTypeOK, Calls, NoCall
<1>3. ASSUME NEW c \in Calls, Pass(c) PROVE TypeOK'
  <2>1. pc' \in [Calls -> {"idle", "begin", "clear", "fetch", "run", "settle",
                           "publish", "reply", "leave", "done", "dropped"}]
    BY <1>0, <1>3 DEF Pass, Goto, Refuse, FetchFails, Fetched, CommitSuperseded, SettleNothing,
       Settle, PublishOvertaken, PublishGone, BrowserFails, BrowserSettle, Reply, Abandon,
       Withdraw, TypeOK
  <2>2. publisher' \in Calls \cup {NoCall} /\ navigated' \subseteq Calls /\ told' \subseteq Calls
    BY <1>0, <1>3 DEF Pass, Refuse, FetchFails, Fetched, CommitSuperseded, SettleNothing,
       Settle, PublishOvertaken, PublishGone, BrowserFails, BrowserSettle, Reply, Abandon,
       Withdraw, TypeOK
  <2> QED BY <1>0, <1>3, <2>1, <2>2, Passing DEF TypeOK, NavTypeOK, passVars
<1>4. ASSUME NEW c \in Calls, Commit(c) PROVE TypeOK'
  BY <1>0, <1>4 DEF Commit, CommitNavigation, ClearNavigation, Goto, TypeOK, NavTypeOK, Calls, NoCall
<1>5. ASSUME NEW c \in Calls, Mirror(c)
      PROVE  /\ NavTypeOK' /\ shownSeq' \in Nat
             /\ mirrored' \in [call : Calls \cup {NoCall}, gen : 0 .. MaxGen]
  BY <1>0, <1>5 DEF Mirror, TypeOK, NavTypeOK, Calls
<1>6. ASSUME NEW c \in Calls, PublishPage(c) PROVE TypeOK'
  <2>1. /\ NavTypeOK' /\ shownSeq' \in Nat /\ pubSeq' \in Nat /\ pending' \in Calls \cup {NoCall}
        /\ mirrored' \in [call : Calls \cup {NoCall}, gen : 0 .. MaxGen]
    BY <1>0, <1>5, <1>6 DEF PublishPage, ShowOrPutOff, TypeOK, NavTypeOK
  <2> QED BY <1>0, <1>6, <2>1 DEF PublishPage, Goto, TypeOK
<1>7. ASSUME NEW c \in Calls, PublishFailure(c) PROVE TypeOK'
  <2>1. /\ NavTypeOK' /\ pending' \in Calls \cup {NoCall}
        /\ mirrored' \in [call : Calls \cup {NoCall}, gen : 0 .. MaxGen]
    BY <1>0, <1>7 DEF PublishFailure, Retract, BeginNavigation, NoMirror, TypeOK, NavTypeOK, NoCall, Calls
  <2> QED BY <1>0, <1>7, <2>1 DEF PublishFailure, Goto, TypeOK
<1>8. ASSUME NEW c \in Calls, BrowserPublish(c) PROVE TypeOK'
  <2>1. /\ NavTypeOK' /\ pending' \in Calls \cup {NoCall} /\ pubSeq' \in Nat
        /\ mirrored' \in [call : Calls \cup {NoCall}, gen : 0 .. MaxGen]
    BY <1>0, <1>8, NotOnShared DEF BrowserPublish, NoMirror, TypeOK, NavTypeOK, NoCall, Calls
  <2> QED BY <1>0, <1>8, <2>1 DEF BrowserPublish, Goto, TypeOK
<1>9. ASSUME NEW t \in Targets, CloseTarget(t) PROVE TypeOK'
  BY <1>0, <1>9 DEF CloseTarget, TypeOK, NavTypeOK
<1>10. ASSUME NEW c \in Calls, Leave(c) PROVE TypeOK'
  <2>1. flight' \in Nat
    BY <1>10, Leaving DEF Leave
  <2>2. /\ NavTypeOK' /\ shownSeq' \in Nat /\ pending' \in Calls \cup {NoCall}
        /\ mirrored' \in [call : Calls \cup {NoCall}, gen : 0 .. MaxGen]
    <3>1. pending = NoCall \/ pending \in Calls
      BY <1>0 DEF TypeOK
    <3> QED BY <1>0, <1>5, <1>10, <3>1 DEF Leave, TypeOK, NavTypeOK
  <2> QED BY <1>0, <1>10, <2>1, <2>2 DEF Leave, Goto, TypeOK
<1>11. CASE UNCHANGED vars
  BY <1>0, <1>11 DEF vars, TypeOK, NavTypeOK
<1> QED BY <1>1, <1>2, <1>3, <1>4, <1>6, <1>7, <1>8, <1>9, <1>10, <1>11, Steps

\* Stages and states of the calls.
LEMMA StagesKept == ASSUME IInv, [Next]_vars PROVE Stages'
<1> USE DEF Stages
<1>0. TypeOK /\ Stages /\ Where
  BY DEF IInv, Basics
<1>1. ASSUME NEW c \in Calls, Enter(c) PROVE Stages'
  BY <1>0, <1>1 DEF Enter, Goto, EnterTarget, EnterBrowser, TypeOK, Browser
<1>2. ASSUME NEW c \in Calls, Begin(c) PROVE Stages'
  BY <1>0, <1>2, Constants DEF Begin, Goto, TypeOK, Browser, NavTypeOK, BeginNavigation
<1>3. ASSUME NEW c \in Calls, Pass(c) PROVE Stages'
  BY <1>0, <1>3, Passing DEF passVars, Browser
<1>4. ASSUME NEW c \in Calls, Commit(c) PROVE Stages'
  BY <1>0, <1>4, Constants DEF Commit, CommitNavigation, ClearNavigation, Goto, TypeOK, Browser,
     NavTypeOK, IsCurrent
<1>5. ASSUME NEW c \in Calls, PublishPage(c) \/ BrowserPublish(c) PROVE Stages'
  BY <1>0, <1>5 DEF PublishPage, BrowserPublish, Goto, TypeOK, Browser
<1>6. ASSUME NEW c \in Calls, PublishFailure(c) \/ Leave(c) PROVE Stages'
  BY <1>0, <1>6 DEF PublishFailure, Leave, Goto, TypeOK, Browser
<1>7. ASSUME NEW t \in Targets, CloseTarget(t) PROVE Stages'
  BY <1>0, <1>7 DEF CloseTarget, Browser
<1>8. CASE UNCHANGED vars
  BY <1>0, <1>8 DEF vars, Browser
<1> QED BY <1>1, <1>2, <1>3, <1>4, <1>5, <1>6, <1>7, <1>8, Steps

LEMMA WhereKept == ASSUME IInv, [Next]_vars PROVE Where'
<1> USE DEF Where
<1>0. TypeOK /\ Where
  BY DEF IInv, Basics
<1>1. ASSUME NEW c \in Calls, Enter(c) PROVE Where'
  BY <1>0, <1>1, Constants DEF Enter, EnterTarget, EnterBrowser, TypeOK, Browser
<1>2. ASSUME UNCHANGED <<place, nav, alive>> PROVE Where'
  BY <1>0, <1>2 DEF Browser
<1>3. ASSUME NEW c \in Calls,
             Begin(c) \/ Commit(c) \/ PublishPage(c) \/ PublishFailure(c) \/ BrowserPublish(c)
               \/ Leave(c)
      PROVE Where'
  BY <1>2, <1>3 DEF Begin, Commit, PublishPage, PublishFailure, BrowserPublish, Leave
<1>4. ASSUME NEW c \in Calls, Pass(c) PROVE Where'
  BY <1>0, <1>2, <1>4, Passing DEF passVars
<1>5. ASSUME NEW t \in Targets, CloseTarget(t) PROVE Where'
  BY <1>0, <1>5 DEF CloseTarget, Browser
<1>6. CASE UNCHANGED vars
  BY <1>2, <1>6 DEF vars
<1> QED BY <1>1, <1>3, <1>4, <1>5, <1>6, Steps

-----------------------------------------------------------------------------
(* Generations, pages on record, numbers of commits.                       *)

\* Apart from the calls' own begins and commits, only the shared state moves,
\* and it moves on.
Others(c) == PublishPage(c) \/ PublishFailure(c) \/ BrowserPublish(c) \/ Leave(c)

LEMMA SharedMoves ==
  ASSUME IInv, NEW c \in Calls, Others(c)
  PROVE  /\ UNCHANGED <<place, nav, kind, began, committed, commitSeq, seq, parallel, alive>>
         /\ \A n \in Navs \ {Shared} : generation'[n] = generation[n] /\ latest'[n] = latest[n]
         /\ \/ UNCHANGED navVars
            \/ generation'[Shared] = generation[Shared] + 1
<1>0. TypeOK /\ pending \in Calls \cup {NoCall}
  BY DEF IInv, Basics, TypeOK
<1>1. UNCHANGED <<place, nav, kind, began, committed, commitSeq, seq, parallel, alive>>
  BY DEF Others, PublishPage, PublishFailure, BrowserPublish, Leave
<1>2. CASE PublishPage(c)
  BY <1>0, <1>1, <1>2, Constants DEF PublishPage, ShowOrPutOff, Mirror, TypeOK, NavTypeOK
<1>3. CASE PublishFailure(c)
  BY <1>0, <1>1, <1>3, Constants DEF PublishFailure, Retract, BeginNavigation, TypeOK, NavTypeOK
<1>4. CASE BrowserPublish(c)
  BY <1>0, <1>1, <1>4, NotOnShared
<1>5. CASE Leave(c)
  BY <1>0, <1>1, <1>5, Constants DEF Leave, Mirror, TypeOK, NavTypeOK
<1> QED BY <1>2, <1>3, <1>4, <1>5 DEF Others

LEMMA NumbersKept == ASSUME IInv, [Next]_vars PROVE Numbers'
<1>0. TypeOK /\ Numbers /\ Stages
  BY DEF IInv, Basics
<1> USE Constants DEF Numbers, Awaited
<1>1. ASSUME NEW c \in Calls, Enter(c) PROVE Numbers'
  <2>1. /\ UNCHANGED <<generation, began, committed>>
        /\ \A d \in Calls \ {c} : nav'[d] = nav[d]
        /\ began[c] = 0 /\ committed[c] = 0 /\ nav'[c] \in Navs
    BY <1>0, <1>1 DEF Enter, EnterTarget, EnterBrowser, TypeOK, Stages
  <2> QED BY <1>0, <2>1 DEF TypeOK, NavTypeOK
<1>2. ASSUME NEW c \in Calls, Begin(c) PROVE Numbers'
  <2>1. /\ UNCHANGED <<committed, nav>>
        /\ \A d \in Calls \ {c} : began'[d] = began[d]
        /\ \A n \in Navs \ {nav[c]} : generation'[n] = generation[n]
        /\ generation'[nav[c]] = generation[nav[c]] + 1
        /\ began'[c] = generation'[nav[c]]
        /\ committed[c] = 0
    BY <1>0, <1>2 DEF Begin, BeginNavigation, TypeOK, NavTypeOK, Stages
  <2> QED BY <1>0, <2>1 DEF TypeOK, NavTypeOK
<1>3. ASSUME UNCHANGED <<generation, began, committed, nav>> PROVE Numbers'
  BY <1>0, <1>3
<1>4. ASSUME NEW c \in Calls, Commit(c) PROVE Numbers'
  <2>1. /\ UNCHANGED <<began, nav>>
        /\ \A d \in Calls \ {c} : committed'[d] = committed[d]
        /\ \A n \in Navs \ {nav[c]} : generation'[n] = generation[n]
        /\ generation'[nav[c]] \in {generation[nav[c]], generation[nav[c]] + 1}
        /\ committed'[c] = generation'[nav[c]]
        /\ committed[c] = 0 /\ began[c] = generation[nav[c]] /\ began[c] # 0
    BY <1>0, <1>4 DEF Commit, CommitNavigation, ClearNavigation, TypeOK, NavTypeOK, Stages,
       IsCurrent
  <2>2. ASSUME NEW d \in Calls
        PROVE  /\ began'[d] <= generation'[nav'[d]] /\ committed'[d] <= generation'[nav'[d]]
               /\ committed'[d] # 0 => began'[d] <= committed'[d]
    BY <1>0, <2>1 DEF TypeOK, NavTypeOK
  <2>3. ASSUME NEW d \in Calls, d # c, nav[d] = nav[c], began[d] # 0
        PROVE  Awaited(d)' < began'[c]
    BY <1>0, <2>1, <2>3 DEF TypeOK, NavTypeOK
  <2>4. ASSUME NEW d \in Calls, NEW e \in Calls, d # e, nav'[d] = nav'[e],
               began'[d] # 0, began'[e] # 0
        PROVE  Awaited(d)' < began'[e] \/ Awaited(e)' < began'[d]
    BY <1>0, <2>1, <2>3, <2>4
  <2> QED BY <2>2, <2>4
<1>5. ASSUME NEW c \in Calls, Others(c) PROVE Numbers'
  BY <1>0, <1>5, SharedMoves DEF TypeOK, NavTypeOK
<1>6. ASSUME NEW c \in Calls, Pass(c) PROVE Numbers'
  BY <1>0, <1>3, <1>6, Passing DEF passVars
<1>7. CASE UNCHANGED vars \/ \E t \in Targets : CloseTarget(t)
  BY <1>3, <1>7 DEF vars, CloseTarget
<1> QED BY <1>1, <1>2, <1>4, <1>5, <1>6, <1>7, Steps DEF Others

LEMMA OnRecordKept == ASSUME IInv, [Next]_vars PROVE OnRecord'
<1>0. TypeOK /\ Numbers /\ Stages /\ OnRecord /\ Where
  BY DEF IInv, Basics
<1>t. /\ latest \in [Navs -> Calls \cup {NoCall}] /\ generation \in [Navs -> Nat]
      /\ nav \in [Calls -> Navs] /\ committed \in [Calls -> Nat] /\ began \in [Calls -> Nat]
  BY <1>0, Constants DEF TypeOK, NavTypeOK, Calls, NoCall
<1> USE Constants
<1>1. ASSUME NEW c \in Calls, Enter(c) PROVE OnRecord'
  <2>1. /\ UNCHANGED <<generation, latest, committed>>
        /\ \A d \in Calls \ {c} : nav'[d] = nav[d]
        /\ committed[c] = 0
    BY <1>0, <1>1 DEF Enter, EnterTarget, EnterBrowser, TypeOK, Stages
  <2> QED BY <1>0, <1>t, <2>1 DEF OnRecord
<1>2. ASSUME NEW c \in Calls, Begin(c) PROVE OnRecord'
  <2>1. /\ UNCHANGED <<committed, nav>>
        /\ \A n \in Navs \ {nav[c]} : generation'[n] = generation[n] /\ latest'[n] = latest[n]
        /\ generation'[nav[c]] = generation[nav[c]] + 1
        /\ latest'[nav[c]] = NoCall
    BY <1>t, <1>2 DEF Begin, BeginNavigation, NoCall
  <2>2. \A d \in Calls : committed[d] <= generation[nav[d]]
    BY <1>0 DEF Numbers
  <2> QED BY <1>0, <1>t, <2>1, <2>2 DEF OnRecord
<1>3. ASSUME UNCHANGED <<generation, latest, committed, nav>> PROVE OnRecord'
  BY <1>0, <1>3 DEF OnRecord
<1>4. ASSUME NEW c \in Calls, Commit(c) PROVE OnRecord'
  <2>1. /\ UNCHANGED <<began, nav>>
        /\ \A d \in Calls \ {c} : committed'[d] = committed[d]
        /\ \A n \in Navs \ {nav[c]} : generation'[n] = generation[n] /\ latest'[n] = latest[n]
        /\ generation'[nav[c]] \in {generation[nav[c]], generation[nav[c]] + 1}
        /\ latest'[nav[c]] = c
        /\ committed'[c] = generation'[nav[c]]
        /\ committed[c] = 0 /\ began[c] = generation[nav[c]] /\ began[c] # 0
    BY <1>0, <1>t, <1>4 DEF Commit, CommitNavigation, ClearNavigation, Stages, IsCurrent
  <2>2. ASSUME NEW d \in Calls, d # c, nav[d] = nav[c], committed[d] # 0
        PROVE  committed[d] < generation'[nav[c]]
    BY <1>0, <1>t, <2>1, <2>2 DEF Numbers, Awaited, Stages
  <2>3. \A d \in Calls : committed'[d] # 0 /\ generation'[nav'[d]] = committed'[d] => latest'[nav'[d]] = d
    BY <1>0, <1>t, <2>1, <2>2 DEF OnRecord
  <2>4. \A n \in Navs \ {Shared} : latest'[n] # NoCall =>
          /\ nav'[latest'[n]] = n
          /\ committed'[latest'[n]] # 0 /\ committed'[latest'[n]] = generation'[n]
    <3> TAKE n \in Navs \ {Shared}
    <3>1. CASE n = nav[c]
      BY <1>t, <2>1, <3>1
    <3>2. CASE n # nav[c]
      BY <1>0, <1>t, <2>1, <3>2 DEF OnRecord
    <3> QED BY <3>1, <3>2
  <2>5. latest'[Shared] # NoCall => committed'[latest'[Shared]] # 0
    BY <1>0, <1>t, <2>1 DEF OnRecord
  <2> QED BY <2>3, <2>4, <2>5 DEF OnRecord
<1>5. ASSUME NEW c \in Calls, Others(c) PROVE OnRecord'
  <2>1. latest'[Shared] # NoCall => committed'[latest'[Shared]] # 0
    <3>1. CASE PublishPage(c)
      BY <1>0, <1>t, <3>1 DEF PublishPage, ShowOrPutOff, Mirror, OnRecord
    <3>2. CASE PublishFailure(c)
      BY <1>0, <1>t, <3>2 DEF PublishFailure, Retract, BeginNavigation, OnRecord, NoCall
    <3>3. CASE BrowserPublish(c)
      BY <1>0, <3>3, NotOnShared, SharedMoves DEF Others, OnRecord
    <3>4. CASE Leave(c)
      <4>1. pending \in Calls => committed[pending] # 0
        BY DEF IInv, Publication, PutOff
      <4>2. pending \in Calls \cup {NoCall}
        BY <1>0 DEF TypeOK
      <4> QED BY <1>0, <1>t, <3>4, <4>1, <4>2 DEF Leave, Mirror, OnRecord
    <3> QED BY <1>5, <3>1, <3>2, <3>3, <3>4 DEF Others
  <2>2. \A d \in Calls : committed[d] <= generation[nav[d]]
    BY <1>0 DEF Numbers
  <2>3. ASSUME NEW d \in Calls, committed'[d] # 0, generation'[nav'[d]] = committed'[d]
        PROVE  latest'[nav'[d]] = d
    <3>1. /\ UNCHANGED <<nav, committed>>
          /\ UNCHANGED navVars \/ generation'[Shared] = generation[Shared] + 1
          /\ \A n \in Navs \ {Shared} : generation'[n] = generation[n] /\ latest'[n] = latest[n]
      BY <1>5, SharedMoves
    <3>2. committed[d] <= generation[nav[d]] /\ nav[d] \in Navs
      BY <1>t, <2>2
    <3> QED BY <1>0, <1>t, <2>3, <3>1, <3>2 DEF OnRecord
  <2>4. \A n \in Navs \ {Shared} : latest'[n] # NoCall =>
          /\ nav'[latest'[n]] = n
          /\ committed'[latest'[n]] # 0 /\ committed'[latest'[n]] = generation'[n]
    BY <1>0, <1>5, SharedMoves DEF OnRecord
  <2> QED BY <2>1, <2>3, <2>4 DEF OnRecord
<1>6. ASSUME NEW c \in Calls, Pass(c) PROVE OnRecord'
  BY <1>0, <1>3, <1>6, Passing DEF passVars
<1>7. CASE UNCHANGED vars \/ \E t \in Targets : CloseTarget(t)
  BY <1>3, <1>7 DEF vars, CloseTarget
<1> QED BY <1>1, <1>2, <1>4, <1>5, <1>6, <1>7, Steps DEF Others

-----------------------------------------------------------------------------
(* What each step does, call by call.                                      *)

LEMMA Typed ==
  ASSUME TypeOK
  PROVE  /\ latest \in [Navs -> Calls \cup {NoCall}] /\ generation \in [Navs -> Nat]
         /\ nav \in [Calls -> Navs] /\ place \in [Calls -> Targets \cup {Shared}]
         /\ committed \in [Calls -> Nat] /\ began \in [Calls -> Nat]
         /\ commitSeq \in [Calls -> Nat] /\ seq \in Nat /\ pubSeq \in Nat /\ shownSeq \in Nat
         /\ flight \in Nat /\ pending \in Calls \cup {NoCall} /\ mirrored.gen \in Nat
         /\ url \in [Targets -> Calls \cup {NoCall}]
BY Constants DEF TypeOK, NavTypeOK, Calls, NoCall

LEMMA Entering ==
  ASSUME IInv, NEW c \in Calls, Enter(c)
  PROVE  /\ UNCHANGED <<navVars, regVars, seq, publisher, pubSeq, mirrored, pending, began,
                        committed, commitSeq, navigated, told, shownSeq>>
         /\ \A d \in Calls \ {c} : pc'[d] = pc[d] /\ place'[d] = place[d] /\ nav'[d] = nav[d]
         /\ pc[c] = "idle" /\ pc'[c] = "begin"
         /\ began[c] = 0 /\ committed[c] = 0 /\ commitSeq[c] = 0
         /\ \/ flight' = flight /\ place'[c] # Shared
            \/ flight' = flight + 1 /\ place'[c] = Shared
<1>0. TypeOK /\ Stages /\ Sequence
  BY DEF IInv, Basics
<1>1. /\ UNCHANGED <<navVars, regVars, seq, publisher, pubSeq, mirrored, pending, began,
                     committed, commitSeq, navigated, told, shownSeq>>
      /\ \A d \in Calls \ {c} : pc'[d] = pc[d] /\ place'[d] = place[d] /\ nav'[d] = nav[d]
      /\ pc[c] = "idle" /\ pc'[c] = "begin"
      /\ \/ flight' = flight /\ place'[c] # Shared
         \/ flight' = flight + 1 /\ place'[c] = Shared
  BY <1>0, Constants DEF Enter, EnterTarget, EnterBrowser, Goto, TypeOK
<1>2. began[c] = 0 /\ committed[c] = 0 /\ commitSeq[c] = 0
  BY <1>0, <1>1 DEF Stages, Sequence
<1> QED BY <1>1, <1>2

LEMMA Beginning ==
  ASSUME IInv, NEW c \in Calls, Begin(c)
  PROVE  /\ UNCHANGED <<regVars, seq, pubVars, place, nav, kind, committed, commitSeq,
                        navigated, told, shownSeq>>
         /\ \A d \in Calls \ {c} : pc'[d] = pc[d] /\ began'[d] = began[d]
         /\ \A n \in Navs \ {nav[c]} : generation'[n] = generation[n] /\ latest'[n] = latest[n]
         /\ generation'[nav[c]] = generation[nav[c]] + 1
         /\ latest'[nav[c]] = NoCall
         /\ pc[c] = "begin" /\ pc'[c] \in {"clear", "fetch", "settle"}
         /\ began[c] = 0 /\ committed[c] = 0 /\ commitSeq[c] = 0
         /\ began'[c] = generation[nav[c]] + 1
<1>0. TypeOK /\ Stages /\ Sequence
  BY DEF IInv, Basics
<1>1. /\ UNCHANGED <<regVars, seq, pubVars, place, nav, kind, committed, commitSeq,
                     navigated, told, shownSeq>>
      /\ pc[c] = "begin"
      /\ \A d \in Calls \ {c} : pc'[d] = pc[d] /\ began'[d] = began[d]
      /\ pc'[c] \in {"clear", "fetch", "settle"}
      /\ began'[c] = generation[nav[c]] + 1
  BY <1>0 DEF Begin, Goto, TypeOK
<1>2. /\ \A n \in Navs \ {nav[c]} : generation'[n] = generation[n] /\ latest'[n] = latest[n]
      /\ generation'[nav[c]] = generation[nav[c]] + 1
      /\ latest'[nav[c]] = NoCall
  BY <1>0, Typed DEF Begin, BeginNavigation, NoCall
<1>3. began[c] = 0 /\ committed[c] = 0 /\ commitSeq[c] = 0
  BY <1>0, <1>1 DEF Stages, Sequence
<1> QED BY <1>1, <1>2, <1>3

LEMMA Committing ==
  ASSUME IInv, NEW c \in Calls, Commit(c)
  PROVE  /\ UNCHANGED <<regVars, pubVars, place, nav, kind, began, navigated, told>>
         /\ \A d \in Calls \ {c} : /\ pc'[d] = pc[d] /\ committed'[d] = committed[d]
                                   /\ commitSeq'[d] = commitSeq[d]
         /\ \A n \in Navs \ {nav[c]} : generation'[n] = generation[n] /\ latest'[n] = latest[n]
         /\ generation'[nav[c]] \in {generation[nav[c]], generation[nav[c]] + 1}
         /\ latest'[nav[c]] = c
         /\ committed'[c] = generation'[nav[c]] /\ committed'[c] # 0
         /\ seq' = seq + 1 /\ commitSeq'[c] = seq + 1
         /\ shownSeq' = IF nav[c] = Shared THEN seq + 1 ELSE shownSeq
         /\ pc[c] \in {"run", "clear"} /\ pc'[c] = "settle"
         /\ committed[c] = 0 /\ commitSeq[c] = 0
         /\ began[c] = generation[nav[c]] /\ began[c] # 0
<1>0. TypeOK /\ Stages /\ Sequence
  BY DEF IInv, Basics
<1>1. /\ UNCHANGED <<regVars, pubVars, place, nav, kind, began, navigated, told>>
      /\ \A d \in Calls \ {c} : /\ pc'[d] = pc[d] /\ committed'[d] = committed[d]
                                /\ commitSeq'[d] = commitSeq[d]
      /\ committed'[c] = generation'[nav[c]]
      /\ seq' = seq + 1 /\ commitSeq'[c] = seq + 1
      /\ shownSeq' = IF nav[c] = Shared THEN seq + 1 ELSE shownSeq
      /\ pc[c] \in {"run", "clear"} /\ pc'[c] = "settle"
      /\ began[c] = generation[nav[c]] /\ began[c] # 0
  BY <1>0 DEF Commit, Goto, TypeOK, IsCurrent
<1>2. /\ \A n \in Navs \ {nav[c]} : generation'[n] = generation[n] /\ latest'[n] = latest[n]
      /\ generation'[nav[c]] \in {generation[nav[c]], generation[nav[c]] + 1}
      /\ latest'[nav[c]] = c
  BY <1>0, Typed DEF Commit, CommitNavigation, ClearNavigation
<1>3. committed[c] = 0 /\ commitSeq[c] = 0
  BY <1>0, <1>1 DEF Stages, Sequence
<1>4. committed'[c] # 0
  BY <1>0, <1>1, <1>2, Typed
<1> QED BY <1>1, <1>2, <1>3, <1>4

\* A mirror shows the call's page; no browser navigation is under way that
\* could be ended by it.
LEMMA Mirroring ==
  ASSUME TypeOK, NEW c \in Calls, Mirror(c)
  PROVE  /\ \A n \in Navs \ {Shared} : generation'[n] = generation[n] /\ latest'[n] = latest[n]
         /\ generation'[Shared] = generation[Shared] + 1
         /\ latest'[Shared] = c
         /\ mirrored' = [call |-> c, gen |-> generation'[Shared]]
         /\ mirrored'.gen = generation[Shared] + 1
         /\ shownSeq' = commitSeq[c]
BY Typed, Constants DEF Mirror

\* The three ways of going on in the publishing of a target's page.
LEMMA Publishing ==
  ASSUME IInv, NEW c \in Calls, PublishPage(c)
  PROVE  /\ UNCHANGED <<parallel, alive, seq, flight, place, nav, kind, began, committed,
                        commitSeq, told>>
         /\ \A d \in Calls \ {c} : pc'[d] = pc[d]
         /\ \A t \in Targets \ {place[c]} : url'[t] = url[t]
         /\ url'[place[c]] = c
         /\ pc[c] = "publish" /\ pc'[c] = "reply"
         /\ ~ Browser(c) /\ place[c] \in alive /\ nav[c] = place[c]
         /\ committed[c] # 0 /\ generation[nav[c]] = committed[c]
         /\ \/ /\ commitSeq[c] <= pubSeq
               /\ UNCHANGED <<navVars, pubSeq, mirrored, pending, shownSeq>>
            \/ /\ commitSeq[c] > pubSeq /\ pubSeq' = commitSeq[c] /\ flight # 0
               /\ pending' = c /\ UNCHANGED <<navVars, mirrored, shownSeq>>
            \/ /\ commitSeq[c] > pubSeq /\ pubSeq' = commitSeq[c] /\ flight = 0
               /\ Mirror(c) /\ UNCHANGED pending
<1>0. TypeOK /\ Where
  BY DEF IInv, Basics
<1>1. place[c] \in Targets /\ nav[c] = place[c]
  BY <1>0, Typed DEF PublishPage, Browser, Where
<1>2. /\ UNCHANGED <<parallel, alive, seq, flight, place, nav, kind, began, committed,
                     commitSeq, told>>
      /\ \A d \in Calls \ {c} : pc'[d] = pc[d]
      /\ \A t \in Targets \ {place[c]} : url'[t] = url[t]
      /\ url'[place[c]] = c
      /\ pc[c] = "publish" /\ pc'[c] = "reply"
      /\ ~ Browser(c) /\ place[c] \in alive
      /\ committed[c] # 0 /\ generation[nav[c]] = committed[c]
  BY <1>0, <1>1 DEF PublishPage, Goto, TypeOK
<1>3. ShowOrPutOff(c)
  BY DEF PublishPage
<1> QED BY <1>1, <1>2, <1>3 DEF ShowOrPutOff

LEMMA Failing ==
  ASSUME IInv, NEW c \in Calls, PublishFailure(c)
  PROVE  /\ UNCHANGED <<parallel, alive, seq, pubSeq, flight, place, nav, kind, began, committed,
                        commitSeq, navigated, told, shownSeq>>
         /\ \A d \in Calls \ {c} : pc'[d] = pc[d]
         /\ \A t \in Targets \ {place[c]} : url'[t] = url[t]
         /\ place[c] \in alive => url'[place[c]] = c
         /\ pc[c] = "publish" /\ pc'[c] = "done"
         /\ ~ Browser(c) /\ place[c] \in Targets
         /\ committed[c] = 0 /\ began[c] # 0 /\ generation[nav[c]] = began[c]
         /\ pending' = IF pending # NoCall /\ place[pending] = place[c] THEN NoCall ELSE pending
         /\ \A n \in Navs \ {Shared} : generation'[n] = generation[n] /\ latest'[n] = latest[n]
         /\ \/ /\ OnShared /\ place[mirrored.call] = place[c] /\ flight = 0
               /\ generation'[Shared] = generation[Shared] + 1 /\ latest'[Shared] = NoCall
               /\ mirrored' = NoMirror
            \/ /\ ~ (OnShared /\ place[mirrored.call] = place[c] /\ flight = 0)
               /\ UNCHANGED <<navVars, mirrored>>
<1>0. TypeOK
  BY DEF IInv, Basics
<1>1. place[c] \in Targets
  BY <1>0, Typed DEF PublishFailure, Browser
<1>2. /\ UNCHANGED <<parallel, alive, seq, pubSeq, flight, place, nav, kind, began, committed,
                     commitSeq, navigated, told, shownSeq>>
      /\ \A d \in Calls \ {c} : pc'[d] = pc[d]
      /\ pc[c] = "publish" /\ pc'[c] = "done"
      /\ ~ Browser(c)
      /\ committed[c] = 0 /\ began[c] # 0 /\ generation[nav[c]] = began[c]
  BY <1>0 DEF PublishFailure, Failed, IsCurrent, Goto, TypeOK
<1>3. /\ \A t \in Targets \ {place[c]} : url'[t] = url[t]
      /\ place[c] \in alive => url'[place[c]] = c
  BY <1>0, <1>1, Typed DEF PublishFailure
<1>4. /\ pending' = IF pending # NoCall /\ place[pending] = place[c] THEN NoCall ELSE pending
      /\ \A n \in Navs \ {Shared} : generation'[n] = generation[n] /\ latest'[n] = latest[n]
      /\ \/ /\ OnShared /\ place[mirrored.call] = place[c] /\ flight = 0
            /\ generation'[Shared] = generation[Shared] + 1 /\ latest'[Shared] = NoCall
            /\ mirrored' = NoMirror
         \/ /\ ~ (OnShared /\ place[mirrored.call] = place[c] /\ flight = 0)
            /\ UNCHANGED <<navVars, mirrored>>
  BY <1>0, Typed, Constants DEF PublishFailure, Retract, BeginNavigation, NoCall
<1> QED BY <1>1, <1>2, <1>3, <1>4

LEMMA BrowserPublishing ==
  ASSUME IInv, NEW c \in Calls, BrowserPublish(c)
  PROVE  /\ UNCHANGED <<navVars, regVars, seq, flight, place, nav, kind, began, committed,
                        commitSeq, navigated, told, shownSeq>>
         /\ \A d \in Calls \ {c} : pc'[d] = pc[d]
         /\ pc[c] = "publish" /\ pc'[c] = "reply"
         /\ Browser(c) /\ nav[c] = Shared /\ committed[c] # 0 /\ began[c] # 0
         /\ pubSeq' = IF commitSeq[c] > pubSeq THEN commitSeq[c] ELSE pubSeq
         /\ pending' = IF commitSeq[c] > pubSeq THEN NoCall ELSE pending
         /\ mirrored' = IF commitSeq[c] > pubSeq THEN NoMirror ELSE mirrored
<1>0. TypeOK /\ Where /\ Stages
  BY DEF IInv, Basics
<1>1. UNCHANGED navVars
  BY NotOnShared
<1>2. /\ UNCHANGED <<regVars, seq, flight, place, nav, kind, began, committed,
                     commitSeq, navigated, told, shownSeq>>
      /\ \A d \in Calls \ {c} : pc'[d] = pc[d]
      /\ pc[c] = "publish" /\ pc'[c] = "reply"
      /\ Browser(c)
      /\ pubSeq' = IF commitSeq[c] > pubSeq THEN commitSeq[c] ELSE pubSeq
      /\ pending' = IF commitSeq[c] > pubSeq THEN NoCall ELSE pending
      /\ mirrored' = IF commitSeq[c] > pubSeq THEN NoMirror ELSE mirrored
  BY <1>0 DEF BrowserPublish, Goto, TypeOK
<1>3. nav[c] = Shared /\ committed[c] # 0 /\ began[c] # 0
  BY <1>0, <1>2 DEF Where, Stages
<1> QED BY <1>1, <1>2, <1>3

LEMMA LeavingDoes ==
  ASSUME IInv, NEW c \in Calls, Leave(c)
  PROVE  /\ UNCHANGED <<regVars, seq, publisher, pubSeq, place, nav, kind, began,
                        committed, commitSeq, navigated, told>>
         /\ \A d \in Calls \ {c} : pc'[d] = pc[d]
         /\ pc[c] = "leave" /\ pc'[c] = "done" /\ Browser(c)
         /\ flight \in Nat \ {0} /\ flight' = flight - 1
         /\ \/ UNCHANGED <<navVars, mirrored, shownSeq, pending>> /\ (flight # 1 \/ pending = NoCall)
            \/ /\ UNCHANGED <<navVars, mirrored, shownSeq>> /\ pending' = NoCall
               /\ pending \in Calls /\ flight = 1
               /\ ~ (place[pending] \in alive /\ generation[nav[pending]] = committed[pending])
            \/ /\ flight = 1 /\ pending' = NoCall
               /\ pending \in Calls /\ Mirror(pending)
               /\ place[pending] \in alive /\ generation[nav[pending]] = committed[pending]
<1>0. TypeOK /\ Stages
  BY DEF IInv, Basics
<1>1. /\ UNCHANGED <<regVars, seq, publisher, pubSeq, place, nav, kind, began,
                     committed, commitSeq, navigated, told>>
      /\ \A d \in Calls \ {c} : pc'[d] = pc[d]
      /\ pc[c] = "leave" /\ pc'[c] = "done"
      /\ flight' = flight - 1
  BY <1>0 DEF Leave, Goto, TypeOK
<1>2. flight \in Nat \ {0} /\ Browser(c)
  BY <1>0, <1>1, Leaving DEF Stages
<1>3. \/ UNCHANGED <<navVars, mirrored, shownSeq, pending>> /\ (flight # 1 \/ pending = NoCall)
      \/ /\ UNCHANGED <<navVars, mirrored, shownSeq>> /\ pending' = NoCall
         /\ pending \in Calls /\ flight = 1
         /\ ~ (place[pending] \in alive /\ generation[nav[pending]] = committed[pending])
      \/ /\ flight = 1 /\ pending' = NoCall
         /\ pending \in Calls /\ Mirror(pending)
         /\ place[pending] \in alive /\ generation[nav[pending]] = committed[pending]
  BY <1>0, Typed DEF Leave
<1> QED BY <1>1, <1>2, <1>3

LEMMA SequenceKept == ASSUME IInv, [Next]_vars PROVE Sequence'
<1>0. TypeOK /\ Sequence
  BY DEF IInv, Basics
<1> USE DEF Sequence
<1>1. ASSUME UNCHANGED <<seq, committed, commitSeq>>, pubSeq' <= seq, shownSeq' <= seq
      PROVE  Sequence'
  BY <1>0, <1>1
<1>2. ASSUME NEW c \in Calls, Enter(c) PROVE Sequence'
  BY <1>0, <1>1, <1>2, Entering
<1>3. ASSUME NEW c \in Calls, Begin(c) PROVE Sequence'
  BY <1>0, <1>1, <1>3, Beginning
<1>4. ASSUME NEW c \in Calls, Commit(c) PROVE Sequence'
  <2>1. /\ seq' = seq + 1 /\ commitSeq'[c] = seq + 1 /\ pubSeq' = pubSeq
        /\ shownSeq' \in {seq + 1, shownSeq}
        /\ committed'[c] # 0
        /\ \A d \in Calls \ {c} : committed'[d] = committed[d] /\ commitSeq'[d] = commitSeq[d]
    BY <1>4, Committing
  <2> QED BY <1>0, <2>1, Typed
<1>5. ASSUME NEW c \in Calls, Pass(c) PROVE Sequence'
  BY <1>0, <1>1, <1>5, Passing DEF passVars
<1>6. ASSUME NEW c \in Calls, PublishPage(c) PROVE Sequence'
  BY <1>0, <1>1, <1>6, Publishing, Mirroring
<1>7. ASSUME NEW c \in Calls, PublishFailure(c) PROVE Sequence'
  BY <1>0, <1>1, <1>7, Failing
<1>8. ASSUME NEW c \in Calls, BrowserPublish(c) PROVE Sequence'
  BY <1>0, <1>1, <1>8, BrowserPublishing
<1>9. ASSUME NEW c \in Calls, Leave(c) PROVE Sequence'
  BY <1>0, <1>1, <1>9, LeavingDoes, Mirroring
<1>10. CASE UNCHANGED vars \/ \E t \in Targets : CloseTarget(t)
  BY <1>0, <1>1, <1>10 DEF vars, CloseTarget
<1> QED BY <1>2, <1>3, <1>4, <1>5, <1>6, <1>7, <1>8, <1>9, <1>10, Steps

\* Only a call that enters or leaves is counted anew; what is put off waits
\* for one that was counted.
LEMMA FlightKept == ASSUME IInv, [Next]_vars PROVE Flight'
<1>0. /\ TypeOK /\ IsFiniteSet(InFlight) /\ flight = Cardinality(InFlight) /\ flight \in Nat
      /\ pending # NoCall => flight > 0
  BY DEF IInv, Basics, Flight, FlightAccounted, InFlight, TypeOK
<1>1. ASSUME IsFiniteSet(InFlight'), flight' = Cardinality(InFlight'),
             pending' # NoCall => flight' > 0
      PROVE  Flight'
  BY <1>1 DEF Flight, FlightAccounted, InFlight
<1>2. ASSUME InFlight' = InFlight, flight' = flight, pending' \in {pending, NoCall} \/ flight # 0
      PROVE  Flight'
  BY <1>0, <1>1, <1>2
<1>3. ASSUME NEW c \in Calls, Enter(c) PROVE Flight'
  <2>1. CASE place'[c] = Shared
    <3>1. InFlight' = InFlight \cup {c} /\ c \notin InFlight
      BY <1>3, <2>1, Entering DEF InFlight, Browser
    <3>2. flight' = flight + 1 /\ pending' = pending
      BY <1>3, <2>1, Entering
    <3> QED BY <1>0, <1>1, <3>1, <3>2, FS_AddElement
  <2>2. CASE place'[c] # Shared
    <3>1. InFlight' = InFlight
      BY <1>3, <2>2, Entering DEF InFlight, Browser
    <3> QED BY <1>2, <1>3, <2>2, <3>1, Entering
  <2> QED BY <2>1, <2>2
<1>4. ASSUME NEW c \in Calls, Begin(c) PROVE Flight'
  <2>1. InFlight' = InFlight
    BY <1>4, Beginning DEF InFlight, Browser
  <2> QED BY <1>2, <1>4, <2>1, Beginning
<1>5. ASSUME NEW c \in Calls, Commit(c) PROVE Flight'
  <2>1. InFlight' = InFlight
    BY <1>5, Committing DEF InFlight, Browser
  <2> QED BY <1>2, <1>5, <2>1, Committing
<1>6. ASSUME NEW c \in Calls, Pass(c) PROVE Flight'
  <2>1. InFlight' = InFlight
    BY <1>0, <1>6, Passing DEF InFlight, Browser, passVars
  <2> QED BY <1>0, <1>2, <1>6, <2>1, Passing DEF passVars
<1>7. ASSUME NEW c \in Calls, PublishPage(c) PROVE Flight'
  <2>1. InFlight' = InFlight
    BY <1>7, Publishing DEF InFlight, Browser
  <2> QED BY <1>2, <1>7, <2>1, Publishing
<1>8. ASSUME NEW c \in Calls, PublishFailure(c) PROVE Flight'
  <2>1. InFlight' = InFlight
    BY <1>8, Failing DEF InFlight, Browser
  <2> QED BY <1>2, <1>8, <2>1, Failing
<1>9. ASSUME NEW c \in Calls, BrowserPublish(c) PROVE Flight'
  <2>1. InFlight' = InFlight
    BY <1>9, BrowserPublishing DEF InFlight, Browser
  <2> QED BY <1>2, <1>9, <2>1, BrowserPublishing
<1>10. ASSUME NEW c \in Calls, Leave(c) PROVE Flight'
  <2>1. InFlight' = InFlight \ {c} /\ c \in InFlight
    BY <1>10, LeavingDoes DEF InFlight, Browser
  <2>2. flight' = flight - 1 /\ (pending' = NoCall \/ (pending' = pending /\ (flight # 1 \/ pending = NoCall)))
    BY <1>10, LeavingDoes
  <2> QED BY <1>0, <1>1, <2>1, <2>2, FS_RemoveElement
<1>11. CASE UNCHANGED vars \/ \E t \in Targets : CloseTarget(t)
  <2>1. InFlight' = InFlight
    BY <1>11 DEF vars, CloseTarget, InFlight, Browser
  <2> QED BY <1>2, <1>11, <2>1 DEF vars, CloseTarget
<1> QED BY <1>3, <1>4, <1>5, <1>6, <1>7, <1>8, <1>9, <1>10, <1>11, Steps

-----------------------------------------------------------------------------
(* What the shared state shows.                                            *)

\* With no browser navigation under way nothing is put off.
LEMMA NothingPutOff == ASSUME IInv, flight = 0 PROVE pending = NoCall
BY DEF IInv, Basics, Flight, FlightAccounted

LEMMA PutOffKept == ASSUME IInv, [Next]_vars PROVE PutOff'
<1>0. PutOff /\ pending \in Calls \cup {NoCall}
  BY DEF IInv, Basics, Publication, TypeOK
<1>1. ASSUME pending' \in {pending, NoCall}, pending' # NoCall,
             UNCHANGED pubSeq, place'[pending] = place[pending],
             committed'[pending] = committed[pending], commitSeq'[pending] = commitSeq[pending]
      PROVE  PutOff'
  BY <1>0, <1>1 DEF PutOff, Browser
<1>2. ASSUME pending' = NoCall PROVE PutOff'
  BY <1>2 DEF PutOff
<1>3. ASSUME NEW c \in Calls, Enter(c) PROVE PutOff'
  <2>1. pending # c /\ pending' = pending
    BY <1>0, <1>3, Entering, Constants DEF PutOff
  <2> QED BY <1>0, <1>1, <1>2, <1>3, <2>1, Entering
<1>4. ASSUME NEW c \in Calls, Begin(c) PROVE PutOff'
  BY <1>0, <1>1, <1>2, <1>4, Beginning
<1>5. ASSUME NEW c \in Calls, Commit(c) PROVE PutOff'
  <2>1. pending # c /\ pending' = pending
    BY <1>0, <1>5, Committing, Constants DEF PutOff
  <2> QED BY <1>0, <1>1, <1>2, <1>5, <2>1, Committing
<1>6. ASSUME NEW c \in Calls, Pass(c) PROVE PutOff'
  BY <1>0, <1>1, <1>2, <1>6, Passing DEF passVars, IInv, Basics
<1>7. ASSUME NEW c \in Calls, PublishPage(c) PROVE PutOff'
  <2>1. UNCHANGED <<place, committed, commitSeq>>
    BY <1>7, Publishing
  <2>2. CASE UNCHANGED <<pubSeq, pending>>
    BY <1>0, <1>1, <1>2, <2>1, <2>2
  <2>3. CASE pending' = c
    <3>1. ~ Browser(c) /\ committed[c] # 0 /\ (pending = c \/ pubSeq' = commitSeq[c])
      BY <1>7, <2>3, Publishing, Constants, NothingPutOff
    <3>2. pubSeq' = commitSeq[c]
      BY <1>0, <1>7, <2>3, <3>1, Publishing, Constants DEF PutOff
    <3> QED BY <2>1, <2>3, <3>1, <3>2 DEF PutOff, Browser
  <2>4. CASE flight = 0 /\ UNCHANGED pending
    BY <1>2, <2>4, NothingPutOff
  <2> QED BY <1>7, <2>2, <2>3, <2>4, Publishing
<1>8. ASSUME NEW c \in Calls, PublishFailure(c) PROVE PutOff'
  BY <1>0, <1>1, <1>2, <1>8, Failing
<1>9. ASSUME NEW c \in Calls, BrowserPublish(c) PROVE PutOff'
  BY <1>0, <1>1, <1>2, <1>9, BrowserPublishing
<1>10. ASSUME NEW c \in Calls, Leave(c) PROVE PutOff'
  BY <1>0, <1>1, <1>2, <1>10, LeavingDoes
<1>11. CASE UNCHANGED vars \/ \E t \in Targets : CloseTarget(t)
  BY <1>0, <1>1, <1>2, <1>11 DEF vars, CloseTarget
<1> QED BY <1>3, <1>4, <1>5, <1>6, <1>7, <1>8, <1>9, <1>10, <1>11, Steps

\* A mirror takes its own generation, and a browser navigation begins after
\* every mirror there is; the next comes when none is under way.
LEMMA MirrorsKept == ASSUME IInv, [Next]_vars PROVE Mirrors'
<1>0. TypeOK /\ Mirrors /\ Where /\ OnRecord /\ Stages /\ NoMirror.gen = 0
  BY DEF IInv, Basics, Publication, NoMirror
<1>t. /\ mirrored.gen \in Nat /\ generation[Shared] \in Nat
      /\ latest[Shared] \in Calls \cup {NoCall} /\ \A d \in Calls : began[d] \in Nat
  BY <1>0, Typed, Constants
<1> USE Constants
<1>1. ASSUME UNCHANGED <<navVars, mirrored, began, place>>,
             \A d \in Calls : pc[d] \in {"leave", "done"} => pc'[d] \in {"leave", "done"}
      PROVE  Mirrors'
  BY <1>0, <1>1 DEF Mirrors, Browser
<1>2. ASSUME NEW c \in Calls, Enter(c) PROVE Mirrors'
  <2>1. latest[Shared] # c
    BY <1>0, <1>2, Entering DEF OnRecord
  <2>2. latest[Shared] # NoCall => place'[latest[Shared]] = place[latest[Shared]]
    BY <1>2, <1>t, <2>1, Entering
  <2> QED BY <1>0, <1>2, <2>1, <2>2, Entering DEF Mirrors, Browser
<1>3. ASSUME NEW c \in Calls, Begin(c) PROVE Mirrors'
  <2>1. CASE nav[c] = Shared
    <3>1. /\ latest'[Shared] = NoCall /\ generation'[Shared] = generation[Shared] + 1
          /\ began'[c] = generation[Shared] + 1 /\ UNCHANGED <<mirrored, place>>
          /\ \A d \in Calls \ {c} : pc'[d] = pc[d] /\ began'[d] = began[d]
      BY <1>3, <2>1, Beginning
    <3> QED BY <1>0, <1>t, <3>1 DEF Mirrors, Browser
  <2>2. CASE nav[c] # Shared
    <3>1. /\ latest'[Shared] = latest[Shared] /\ generation'[Shared] = generation[Shared]
          /\ UNCHANGED <<mirrored, place>> /\ ~ Browser(c)
          /\ \A d \in Calls \ {c} : pc'[d] = pc[d] /\ began'[d] = began[d]
      BY <1>0, <1>3, <2>2, Beginning DEF Where
    <3> QED BY <1>0, <1>t, <3>1 DEF Mirrors, Browser
  <2> QED BY <2>1, <2>2
<1>4. ASSUME NEW c \in Calls, Commit(c) PROVE Mirrors'
  <2>1. /\ UNCHANGED <<mirrored, place, began>> /\ pc[c] \notin {"leave", "done"}
        /\ \A d \in Calls \ {c} : pc'[d] = pc[d]
    BY <1>4, Committing
  <2>2. CASE nav[c] = Shared
    <3>1. /\ latest'[Shared] = c /\ Browser(c)
          /\ generation'[Shared] \in {generation[Shared], generation[Shared] + 1}
      BY <1>0, <1>4, <2>2, Committing DEF Where
    <3> QED BY <1>0, <1>t, <2>1, <3>1 DEF Mirrors, Browser
  <2>3. CASE nav[c] # Shared
    <3>1. latest'[Shared] = latest[Shared] /\ generation'[Shared] = generation[Shared]
      BY <1>4, <2>3, Committing
    <3> QED BY <1>0, <1>t, <2>1, <3>1 DEF Mirrors, Browser
  <2> QED BY <2>2, <2>3
<1>5. ASSUME NEW c \in Calls, Pass(c) PROVE Mirrors'
  <2>1. pc[c] \notin {"leave", "done"}
    BY <1>0, <1>5, Passing
  <2> QED BY <1>0, <1>1, <1>5, <2>1, Passing DEF passVars
\* A mirror, when no browser navigation is under way.
<1>6. ASSUME NEW d \in Calls, Mirror(d), UNCHANGED <<place, began>>, ~ Browser(d),
             \A e \in Calls : Browser(e) /\ began[e] # 0 => pc'[e] \in {"leave", "done"}
      PROVE  Mirrors'
  <2>1. /\ latest'[Shared] = d /\ generation'[Shared] = generation[Shared] + 1
        /\ mirrored' = [call |-> d, gen |-> generation'[Shared]]
        /\ mirrored'.gen = generation'[Shared]
    BY <1>0, <1>6, Mirroring
  <2> QED BY <1>6, <1>t, <2>1 DEF Mirrors, Browser
<1>7. ASSUME NEW c \in Calls, PublishPage(c) PROVE Mirrors'
  <2>1. CASE UNCHANGED <<navVars, mirrored>>
    BY <1>1, <1>7, <2>1, Publishing
  <2>2. CASE flight = 0 /\ Mirror(c)
    <3>1. \A e \in Calls : Browser(e) /\ began[e] # 0 => pc'[e] \in {"leave", "done"}
      BY <1>7, <2>2, NobodyFlies, Publishing
    <3> QED BY <1>6, <1>7, <2>2, <3>1, Publishing
  <2> QED BY <1>7, <2>1, <2>2, Publishing
<1>8. ASSUME NEW c \in Calls, PublishFailure(c) PROVE Mirrors'
  <2>1. CASE UNCHANGED <<navVars, mirrored>>
    BY <1>1, <1>8, <2>1, Failing
  <2>2. CASE /\ generation'[Shared] = generation[Shared] + 1 /\ latest'[Shared] = NoCall
             /\ mirrored' = NoMirror
    <3>1. UNCHANGED <<place, began>>
      BY <1>8, Failing
    <3> QED BY <1>0, <1>t, <2>2, <3>1 DEF Mirrors, Browser
  <2> QED BY <1>8, <2>1, <2>2, Failing
<1>9. ASSUME NEW c \in Calls, BrowserPublish(c) PROVE Mirrors'
  <2>1. /\ UNCHANGED <<navVars, place, began>> /\ \A d \in Calls \ {c} : pc'[d] = pc[d]
        /\ pc[c] = "publish" /\ Browser(c) /\ began[c] # 0
        /\ mirrored' \in {mirrored, NoMirror}
    BY <1>9, BrowserPublishing
  <2>2. latest[Shared] = NoCall \/ Browser(latest[Shared])
    BY <1>0, <2>1 DEF Mirrors
  <2> QED BY <1>0, <1>t, <2>1, <2>2 DEF Mirrors, Browser
<1>10. ASSUME NEW c \in Calls, Leave(c) PROVE Mirrors'
  <2>1. /\ UNCHANGED <<place, began>> /\ \A d \in Calls \ {c} : pc'[d] = pc[d]
        /\ pc[c] = "leave" /\ pc'[c] = "done"
    BY <1>10, LeavingDoes
  <2>2. CASE UNCHANGED <<navVars, mirrored>>
    BY <1>1, <2>1, <2>2
  <2>3. CASE flight = 1 /\ pending \in Calls /\ Mirror(pending)
    <3>1. \A e \in Calls : Browser(e) /\ began[e] # 0 => pc'[e] \in {"leave", "done"}
      BY <2>1, <2>3, NobodyFlies
    <3>2. ~ Browser(pending)
      BY <2>3 DEF IInv, Publication, PutOff
    <3> QED BY <1>6, <2>1, <2>3, <3>1, <3>2
  <2> QED BY <1>10, <2>2, <2>3, LeavingDoes
<1>11. CASE UNCHANGED vars \/ \E t \in Targets : CloseTarget(t)
  BY <1>1, <1>11 DEF vars, CloseTarget
<1> QED BY <1>2, <1>3, <1>4, <1>5, <1>7, <1>8, <1>9, <1>10, <1>11, Steps

\* Two calls never wait for, or have, the same generation of one state.
LEMMA Apart ==
  ASSUME IInv, NEW c \in Calls, NEW d \in Calls, c # d, nav[c] = nav[d],
         began[c] # 0, began[d] # 0
  PROVE  Awaited(c) # Awaited(d)
<1>1. Awaited(c) < began[d] \/ Awaited(d) < began[c]
  BY DEF IInv, Basics, Numbers
<1>2. began[c] <= Awaited(c) /\ began[d] <= Awaited(d)
  BY Typed DEF IInv, Basics, Numbers, Awaited
<1> QED BY <1>1, <1>2, Typed DEF IInv, Basics, Awaited

\* Generations grow, and so does the number of the newest commit published.
LEMMA Grows ==
  ASSUME IInv, [Next]_vars
  PROVE  /\ \A n \in Navs : generation[n] \in Nat /\ generation'[n] \in Nat /\ generation'[n] >= generation[n]
         /\ pubSeq \in Nat /\ pubSeq' \in Nat /\ pubSeq' >= pubSeq
<1>0. TypeOK /\ TypeOK'
  BY TypesKept DEF IInv, Basics
<1>t. /\ \A n \in Navs : generation[n] \in Nat /\ generation'[n] \in Nat
      /\ pubSeq \in Nat /\ pubSeq' \in Nat
  BY <1>0, Constants DEF TypeOK, NavTypeOK
<1> SUFFICES /\ \A n \in Navs : generation'[n] >= generation[n]
             /\ pubSeq' >= pubSeq
  BY <1>t
<1>1. ASSUME NEW c \in Calls, Enter(c) \/ Pass(c)
      PROVE  UNCHANGED <<generation, pubSeq>>
  BY <1>0, <1>1, Entering, Passing DEF passVars
<1>2. ASSUME NEW c \in Calls, Begin(c) \/ Commit(c)
      PROVE  pubSeq' = pubSeq /\ \A n \in Navs : generation'[n] >= generation[n]
  BY <1>t, <1>2, Beginning, Committing
<1>3. ASSUME NEW c \in Calls, Others(c)
      PROVE  \A n \in Navs : generation'[n] >= generation[n]
  BY <1>t, <1>3, SharedMoves, Constants
<1>4. ASSUME NEW c \in Calls, Others(c)
      PROVE  pubSeq' >= pubSeq
  BY <1>t, <1>4, Publishing, Failing, BrowserPublishing, LeavingDoes DEF Others
<1>5. CASE UNCHANGED vars \/ \E t \in Targets : CloseTarget(t)
  BY <1>t, <1>5 DEF vars, CloseTarget
<1> QED BY <1>t, <1>1, <1>2, <1>3, <1>4, <1>5, Steps DEF Others

\* A browser call is ahead until its commit has been published.
LEMMA AheadStays ==
  ASSUME IInv, [Next]_vars, NEW d \in Calls, Ahead(d)
  PROVE  commitSeq'[d] = commitSeq[d] /\ (Ahead(d)' \/ commitSeq[d] <= pubSeq')
<1>0. TypeOK /\ Sequence /\ Stages /\ pubSeq \in Nat /\ commitSeq[d] \in Nat /\ pubSeq' \in Nat
  BY Typed, Grows DEF IInv, Basics
<1>1. Browser(d) /\ pc[d] \in {"settle", "publish"} /\ commitSeq[d] > pubSeq
  BY DEF Ahead
<1>2. committed[d] # 0
  BY <1>0, <1>1 DEF Sequence
<1> DEFINE Stays == /\ commitSeq'[d] = commitSeq[d]
                    /\ \/ place'[d] = place[d] /\ pc'[d] \in {"settle", "publish"}
                       \/ commitSeq[d] <= pubSeq'
<1>3. SUFFICES Stays
  BY <1>0, <1>1 DEF Ahead, Browser
<1>4. ASSUME NEW c \in Calls, Enter(c) \/ Begin(c) \/ Commit(c) PROVE Stays
  BY <1>1, <1>4, Entering, Beginning, Committing
<1>5. ASSUME NEW c \in Calls, Pass(c) PROVE Stays
  <2>1. commitSeq' = commitSeq /\ place' = place
    BY <1>0, <1>5, Passing DEF passVars
  <2>2. CASE c = d
    BY <1>0, <1>1, <1>2, <1>5, <2>1, <2>2, Passing
  <2>3. CASE c # d
    BY <1>0, <1>1, <1>5, <2>1, <2>3, Passing
  <2> QED BY <2>2, <2>3
<1>6. ASSUME NEW c \in Calls, PublishPage(c) \/ PublishFailure(c) PROVE Stays
  BY <1>1, <1>6, Publishing, Failing
<1>7. ASSUME NEW c \in Calls, BrowserPublish(c) PROVE Stays
  BY <1>0, <1>1, <1>7, BrowserPublishing
<1>8. ASSUME NEW c \in Calls, Leave(c) PROVE Stays
  BY <1>1, <1>8, LeavingDoes
<1>9. CASE UNCHANGED vars \/ \E t \in Targets : CloseTarget(t)
  BY <1>1, <1>9 DEF vars, CloseTarget
<1> QED BY <1>4, <1>5, <1>6, <1>7, <1>8, <1>9, Steps

LEMMA ShownKept == ASSUME IInv, [Next]_vars PROVE Shown'
<1>0. /\ TypeOK /\ Shown /\ Sequence /\ Where
      /\ shownSeq \in Nat /\ \A d \in Calls : commitSeq[d] \in Nat
  BY Typed DEF IInv, Basics, Publication
<1>1. CASE shownSeq' = shownSeq
  <2>1. CASE shownSeq <= pubSeq
    BY <1>0, <1>1, <2>1, Grows DEF Shown
  <2>2. ASSUME NEW d \in Calls, Ahead(d), commitSeq[d] = shownSeq PROVE Shown'
    BY <1>1, <2>2, AheadStays DEF Shown
  <2> QED BY <1>0, <2>1, <2>2 DEF Shown
<1>2. ASSUME NEW c \in Calls, Commit(c), shownSeq' # shownSeq PROVE Shown'
  <2>1. /\ nav[c] = Shared /\ shownSeq' = seq + 1 /\ commitSeq'[c] = seq + 1 /\ pubSeq' = pubSeq
        /\ pc'[c] = "settle" /\ place' = place
    BY <1>2, Committing
  <2>2. Browser(c) /\ seq + 1 > pubSeq
    BY <1>0, <2>1, Typed DEF Where, Sequence
  <2> QED BY <2>1, <2>2 DEF Shown, Ahead, Browser
<1>3. ASSUME NEW c \in Calls, PublishPage(c), shownSeq' # shownSeq PROVE Shown'
  <2>1. pubSeq' = commitSeq[c] /\ shownSeq' = commitSeq[c]
    BY <1>0, <1>3, Publishing, Mirroring
  <2> QED BY <1>0, <2>1 DEF Shown
<1>4. ASSUME NEW c \in Calls, Leave(c), shownSeq' # shownSeq PROVE Shown'
  <2>1. pubSeq' = pubSeq /\ pending \in Calls /\ shownSeq' = commitSeq[pending]
    BY <1>0, <1>4, LeavingDoes, Mirroring
  <2>2. commitSeq[pending] = pubSeq
    BY <2>1, Constants DEF IInv, Publication, PutOff
  <2> QED BY <1>0, <2>1, <2>2 DEF Shown
<1>5. ASSUME NEW c \in Calls,
             Enter(c) \/ Begin(c) \/ Pass(c) \/ PublishFailure(c) \/ BrowserPublish(c)
      PROVE  shownSeq' = shownSeq
  BY <1>0, <1>5, Entering, Beginning, Passing, Failing, BrowserPublishing DEF passVars
<1>6. CASE UNCHANGED vars \/ \E t \in Targets : CloseTarget(t)
  BY <1>1, <1>6 DEF vars, CloseTarget
<1> QED BY <1>1, <1>2, <1>3, <1>4, <1>5, <1>6, Steps

\* The commit that was published last and whose target still has it.
NewestCurrent(c) ==
  commitSeq[c] = pubSeq /\ pubSeq > 0 /\ place[c] \in alive /\ generation[nav[c]] = committed[c]

LEMMA NewestKept == ASSUME IInv, [Next]_vars PROVE Newest'
<1>0. /\ TypeOK /\ Newest /\ Sequence /\ Where /\ Numbers /\ Stages
      /\ pubSeq \in Nat /\ \A d \in Calls : commitSeq[d] \in Nat /\ committed[d] \in Nat /\ nav[d] \in Navs
      /\ alive \subseteq Targets
  BY Typed DEF IInv, Basics, Publication, TypeOK
<1> USE Constants
<1> SUFFICES ASSUME NEW c \in Calls, NewestCurrent(c)',
                    latest'[Shared] \notin {c, NoCall}, pending' # c
             PROVE  \E d \in Calls : latest'[Shared] = d /\ Ahead(d)'
  BY DEF Newest, NewestCurrent
<1> DEFINE OnShow == \E d \in Calls : latest'[Shared] = d /\ Ahead(d)'
\* Where nothing new is shown or published, it was the newest before.
<1>1. ASSUME pubSeq' = pubSeq, latest'[Shared] = latest[Shared],
             alive' \subseteq alive, place'[c] = place[c], nav'[c] = nav[c],
             committed'[c] = committed[c], commitSeq'[c] = commitSeq[c], pending # c
      PROVE  OnShow
  <2>1. generation[nav[c]] = committed[c]
    BY <1>0, <1>1, Grows DEF NewestCurrent, Numbers
  <2>2. PICK d \in Calls : latest[Shared] = d /\ Ahead(d)
    BY <1>0, <1>1, <2>1 DEF Newest, NewestCurrent
  <2> QED BY <1>0, <1>1, <2>2, AheadStays DEF Ahead
<1>2. ASSUME NEW e \in Calls, Enter(e) PROVE OnShow
  <2>1. c # e
    BY <1>0, <1>2, Entering DEF NewestCurrent
  <2> QED BY <1>1, <1>2, <2>1, Entering
<1>3. ASSUME NEW e \in Calls, Begin(e) PROVE OnShow
  BY <1>1, <1>3, Beginning
<1>4. ASSUME NEW e \in Calls, Commit(e) PROVE OnShow
  <2>1. CASE nav[e] = Shared
    <3>1. latest'[Shared] = e /\ pc'[e] = "settle" /\ commitSeq'[e] = seq + 1 /\ UNCHANGED <<place, pubSeq>>
      BY <1>4, <2>1, Committing
    <3>2. Browser(e) /\ seq + 1 > pubSeq
      BY <1>0, <2>1, Typed DEF Where, Sequence
    <3> QED BY <3>1, <3>2 DEF Ahead, Browser
  <2>2. CASE nav[e] # Shared
    <3>1. c # e
      BY <1>0, <1>4, Committing, Typed DEF NewestCurrent, Sequence
    <3> QED BY <1>1, <1>4, <2>2, <3>1, Committing
  <2> QED BY <2>1, <2>2
<1>5. ASSUME NEW e \in Calls, Pass(e) PROVE OnShow
  BY <1>0, <1>1, <1>5, Passing DEF passVars
<1>6. ASSUME NEW e \in Calls, PublishPage(e) PROVE OnShow
  <2>1. CASE UNCHANGED <<navVars, pubSeq, pending>>
    BY <1>1, <1>6, <2>1, Publishing
  <2>2. CASE commitSeq[e] > pubSeq /\ pubSeq' = commitSeq[e]
    <3>1. commitSeq[c] = commitSeq[e] /\ commitSeq[c] # 0
      BY <1>0, <1>6, <2>2, Publishing DEF NewestCurrent
    <3>2. c = e
      BY <1>0, <3>1 DEF Sequence
    <3>3. pending' = c \/ Mirror(c)
      BY <1>6, <3>2, <2>2, <1>0, Publishing
    <3> QED BY <1>0, <3>3, Mirroring
  <2> QED BY <1>6, <2>1, <2>2, Publishing
<1>7. ASSUME NEW e \in Calls, PublishFailure(e) PROVE OnShow
  <2>1. UNCHANGED <<navVars, pubSeq, alive, place, nav, committed, commitSeq, began>>
    BY <1>7, Failing DEF NewestCurrent
  <2>2. pending # c
    <3>1. SUFFICES ASSUME pending = c PROVE FALSE
      OBVIOUS
    <3>2. place[c] = place[e] /\ place[c] \in alive /\ generation[nav[c]] = committed[c]
      BY <1>7, <2>1, <3>1, Failing DEF NewestCurrent
    <3>3. nav[c] = nav[e]
      BY <1>0, <3>2 DEF Where
    <3>4. committed[c] # 0 /\ committed[e] = 0 /\ began[e] # 0 /\ generation[nav[e]] = began[e]
      BY <1>7, <3>1, Failing DEF IInv, Publication, PutOff
    <3> QED BY <1>0, <3>2, <3>3, <3>4, Apart DEF Awaited, Stages
  <2> QED BY <1>1, <2>1, <2>2
<1>8. ASSUME NEW e \in Calls, BrowserPublish(e) PROVE OnShow
  <2>1. CASE commitSeq[e] > pubSeq
    <3>1. commitSeq[c] = commitSeq[e] /\ commitSeq[c] # 0 /\ place[c] \in alive
      BY <1>0, <1>8, <2>1, BrowserPublishing DEF NewestCurrent
    <3>2. c = e
      BY <1>0, <3>1 DEF Sequence
    <3> QED BY <1>0, <1>8, <3>1, <3>2, BrowserPublishing DEF Browser
  <2>2. CASE ~ (commitSeq[e] > pubSeq)
    BY <1>1, <1>8, <2>2, BrowserPublishing
  <2> QED BY <2>1, <2>2
<1>9. ASSUME NEW e \in Calls, Leave(e) PROVE OnShow
  <2>1. UNCHANGED <<pubSeq, alive, place, nav, committed, commitSeq>>
    BY <1>9, LeavingDoes
  <2>2. CASE UNCHANGED <<navVars, pending>>
    BY <1>1, <2>1, <2>2
  <2>3. CASE UNCHANGED navVars /\ pending \in Calls
             /\ ~ (place[pending] \in alive /\ generation[nav[pending]] = committed[pending])
    BY <1>1, <2>1, <2>3 DEF NewestCurrent
  <2>4. CASE Mirror(pending) /\ pending \in Calls
    <3>1. commitSeq[pending] = pubSeq /\ commitSeq[c] = pubSeq /\ pubSeq # 0
      BY <1>0, <2>1, <2>4 DEF NewestCurrent, IInv, Publication, PutOff
    <3>2. pending = c
      BY <1>0, <2>4, <3>1 DEF Sequence
    <3> QED BY <1>0, <2>4, <3>2, Mirroring
  <2> QED BY <1>9, <2>2, <2>3, <2>4, LeavingDoes
<1>10. CASE UNCHANGED vars \/ \E t \in Targets : CloseTarget(t)
  BY <1>1, <1>10 DEF vars, CloseTarget
<1> QED BY <1>2, <1>3, <1>4, <1>5, <1>6, <1>7, <1>8, <1>9, <1>10, Steps

-----------------------------------------------------------------------------
(* What clients see.                                                       *)

LEMMA SupersededKept == ASSUME IInv, [Next]_vars PROVE OnlyBrowserSupersedes'
<1>0. TypeOK /\ OnlyBrowserSupersedes /\ Where /\ Stages /\ Numbers
  BY DEF IInv, Basics
<1>t. /\ generation[Shared] \in Nat
      /\ \A d \in Calls : began[d] \in Nat /\ committed[d] \in Nat
  BY <1>0, Typed, Constants
<1> DEFINE Flying(d) == Browser(d) /\ began[d] # 0 /\ pc[d] \notin {"leave", "done"}
           InPlace(d) == \/ generation[Shared] = Awaited(d)
                         \/ \E e \in Calls \ {d} : Browser(e) /\ began[e] > Awaited(d)
<1> USE DEF OnlyBrowserSupersedes
<1>1. ASSUME generation'[Shared] = generation[Shared], UNCHANGED <<began, committed, place>>,
             \A d \in Calls : pc[d] \in {"leave", "done"} => pc'[d] \in {"leave", "done"}
      PROVE  OnlyBrowserSupersedes'
  BY <1>0, <1>1 DEF Browser, Awaited
<1>2. ASSUME NEW c \in Calls, Enter(c) PROVE OnlyBrowserSupersedes'
  <2>1. /\ UNCHANGED <<generation, began, committed>> /\ began[c] = 0
        /\ \A d \in Calls \ {c} : pc'[d] = pc[d] /\ place'[d] = place[d]
    BY <1>2, Entering
  <2>2. ASSUME NEW d \in Calls, Flying(d)' PROVE InPlace(d)'
    <3>1. d # c /\ Flying(d)
      BY <2>1, <2>2 DEF Browser
    <3>2. InPlace(d)
      BY <1>0, <3>1
    <3>3. \A e \in Calls \ {d} : Browser(e) /\ began[e] > Awaited(d) => e # c
      BY <1>t, <2>1 DEF Awaited
    <3> QED BY <2>1, <3>2, <3>3 DEF Browser, Awaited
  <2> QED BY <2>2
<1>3. ASSUME NEW c \in Calls, Begin(c) PROVE OnlyBrowserSupersedes'
  <2>1. /\ UNCHANGED <<committed, place>> /\ committed[c] = 0 /\ began[c] = 0
        /\ \A d \in Calls \ {c} : pc'[d] = pc[d] /\ began'[d] = began[d]
        /\ began'[c] = generation[nav[c]] + 1 /\ generation'[nav[c]] = generation[nav[c]] + 1
        /\ nav[c] # Shared => generation'[Shared] = generation[Shared]
    BY <1>3, Beginning, Constants
  <2>2. nav[c] = Shared <=> Browser(c)
    BY <1>0 DEF Where
  <2>3. ASSUME NEW d \in Calls, Flying(d)' PROVE InPlace(d)'
    <3>1. CASE d = c
      BY <2>1, <2>2, <2>3, <3>1 DEF Browser, Awaited
    <3>2. CASE d # c
      <4>1. InPlace(d) /\ Awaited(d)' = Awaited(d)
        BY <1>0, <2>1, <2>3, <3>2 DEF Browser, Awaited
      <4>2. \A e \in Calls \ {d} : Browser(e) /\ began[e] > Awaited(d) => e # c
        BY <1>t, <2>1 DEF Awaited
      <4>3. CASE Browser(c) /\ generation[Shared] = Awaited(d)
        BY <1>t, <2>1, <2>2, <3>2, <4>1, <4>3 DEF Browser
      <4>4. CASE ~ Browser(c) /\ generation[Shared] = Awaited(d)
        BY <2>1, <2>2, <4>1, <4>4
      <4>5. CASE \E e \in Calls \ {d} : Browser(e) /\ began[e] > Awaited(d)
        BY <2>1, <4>1, <4>2, <4>5 DEF Browser
      <4> QED BY <4>1, <4>3, <4>4, <4>5
    <3> QED BY <3>1, <3>2
  <2> QED BY <2>3
<1>4. ASSUME NEW c \in Calls, Commit(c) PROVE OnlyBrowserSupersedes'
  <2>1. /\ UNCHANGED <<began, place>> /\ pc[c] \notin {"leave", "done"}
        /\ \A d \in Calls \ {c} : pc'[d] = pc[d] /\ committed'[d] = committed[d]
        /\ committed'[c] # 0 /\ committed'[c] = generation'[nav[c]] /\ committed[c] = 0
        /\ began[c] = generation[nav[c]] /\ began[c] # 0
        /\ nav[c] # Shared => generation'[Shared] = generation[Shared]
    BY <1>4, Committing, Constants
  <2>2. nav[c] = Shared <=> Browser(c)
    BY <1>0 DEF Where
  <2>3. ASSUME NEW d \in Calls, Flying(d)' PROVE InPlace(d)'
    <3>1. CASE d = c
      BY <2>1, <2>2, <2>3, <3>1 DEF Browser, Awaited
    <3>2. CASE d # c
      <4>1. InPlace(d) /\ Awaited(d)' = Awaited(d) /\ Browser(d) /\ began[d] # 0
        BY <1>0, <2>1, <2>3, <3>2 DEF Browser, Awaited
      <4>2. nav[d] = Shared
        BY <1>0, <4>1 DEF Where
      <4>3. CASE Browser(c)
        <5>1. generation[Shared] # Awaited(d)
          BY <2>1, <2>2, <3>2, <4>1, <4>2, <4>3, Apart DEF Awaited
        <5> QED BY <2>1, <4>1, <5>1 DEF Browser
      <4>4. CASE ~ Browser(c)
        BY <2>1, <2>2, <4>1, <4>4 DEF Browser
      <4> QED BY <4>3, <4>4
    <3> QED BY <3>1, <3>2
  <2> QED BY <2>3
<1>5. ASSUME NEW c \in Calls, Pass(c) PROVE OnlyBrowserSupersedes'
  <2>1. pc[c] \notin {"leave", "done"}
    BY <1>0, <1>5, Passing
  <2> QED BY <1>0, <1>1, <1>5, <2>1, Passing DEF passVars
\* With none under way there is nothing to supersede.
<1>6. ASSUME \A d \in Calls : Browser(d) /\ began[d] # 0 => pc'[d] \in {"leave", "done"},
             UNCHANGED <<place, began>>
      PROVE  OnlyBrowserSupersedes'
  BY <1>6 DEF Browser
<1>7. ASSUME NEW c \in Calls, PublishPage(c) \/ PublishFailure(c) PROVE OnlyBrowserSupersedes'
  <2>1. /\ UNCHANGED <<place, began, committed>> /\ \A d \in Calls \ {c} : pc'[d] = pc[d]
        /\ pc[c] = "publish" /\ ~ Browser(c)
        /\ generation' = generation \/ flight = 0
    BY <1>7, Publishing, Failing
  <2>2. CASE flight = 0
    BY <1>6, <2>1, <2>2, NobodyFlies
  <2> QED BY <1>1, <2>1, <2>2
<1>8. ASSUME NEW c \in Calls, BrowserPublish(c) PROVE OnlyBrowserSupersedes'
  BY <1>1, <1>8, BrowserPublishing
<1>9. ASSUME NEW c \in Calls, Leave(c) PROVE OnlyBrowserSupersedes'
  <2>1. /\ UNCHANGED <<place, began, committed>> /\ \A d \in Calls \ {c} : pc'[d] = pc[d]
        /\ pc[c] = "leave" /\ pc'[c] = "done"
        /\ generation' = generation \/ flight = 1
    BY <1>9, LeavingDoes
  <2>2. CASE flight = 1
    BY <1>6, <2>1, <2>2, NobodyFlies
  <2> QED BY <1>1, <2>1, <2>2
<1>10. CASE UNCHANGED vars \/ \E t \in Targets : CloseTarget(t)
  BY <1>1, <1>10 DEF vars, CloseTarget
<1> QED BY <1>2, <1>3, <1>4, <1>5, <1>7, <1>8, <1>9, <1>10, Steps

\* A call that has committed the page on record published it before it was
\* done, and so did one whose failure is the last word.
LEMMA UrlKept == ASSUME IInv, [Next]_vars PROVE UrlFollowsNavigation'
<1>0. /\ TypeOK /\ UrlFollowsNavigation /\ Where /\ Stages /\ Numbers /\ OnRecord
      /\ alive \subseteq Targets
  BY DEF IInv, Basics, TypeOK
<1>t. /\ \A n \in Navs : generation[n] \in Nat
      /\ \A d \in Calls : began[d] \in Nat /\ committed[d] \in Nat /\ nav[d] \in Navs
  BY <1>0, Typed
<1> USE Constants
<1> DEFINE Page(t, c) == latest[t] = c /\ pc[c] \notin {"settle", "publish"} => url[t] = c
           Tried(t, c) == /\ nav[c] = t /\ pc[c] = "done"
                          /\ committed[c] = 0 /\ IsCurrent(t, began[c])
                          => url[t] = c
\* Whose page is on record, and who failed last.
<1>1. ASSUME NEW t \in alive, NEW c \in Calls, latest[t] = c
      PROVE  /\ nav[c] = t /\ place[c] = t /\ t # Shared /\ ~ Browser(c)
             /\ committed[c] # 0 /\ committed[c] = generation[t] /\ began[c] # 0
  BY <1>0, <1>1 DEF OnRecord, Where, Stages
<1>2. ASSUME NEW e \in Calls,
             \A d \in Calls \ {e} : pc'[d] = pc[d] /\ nav'[d] = nav[d] /\ committed'[d] = committed[d]
                                    /\ began'[d] = began[d],
             \A t \in alive : latest'[t] \in {latest[t], NoCall, e},
             NEW t \in alive, url'[t] = url[t], alive' \subseteq alive,
             NEW c \in Calls \ {e}
      PROVE  Page(t, c)' /\ Tried(t, c)'
  <2>1. Page(t, c) /\ Tried(t, c)
    BY <1>0 DEF UrlFollowsNavigation
  <2>2. Page(t, c)'
    BY <1>2, <2>1
  <2>3. began[c] = generation'[t] /\ nav[c] = t => began[c] = generation[t]
    BY <1>0, <1>t, Grows DEF Numbers
  <2>4. Tried(t, c)'
    BY <1>0, <1>2, <2>1, <2>3 DEF IsCurrent
  <2> QED BY <2>2, <2>4
<1>3. ASSUME NEW e \in Calls,
             \A d \in Calls \ {e} : pc'[d] = pc[d] /\ nav'[d] = nav[d] /\ committed'[d] = committed[d]
                                    /\ began'[d] = began[d],
             \A t \in alive : latest'[t] \in {latest[t], NoCall, e},
             url' = url, alive' \subseteq alive,
             \A t \in alive : Page(t, e)' /\ Tried(t, e)'
      PROVE  UrlFollowsNavigation'
  <2> SUFFICES ASSUME NEW t \in alive', NEW c \in Calls PROVE Page(t, c)' /\ Tried(t, c)'
    BY DEF UrlFollowsNavigation
  <2>1. t \in alive /\ url'[t] = url[t]
    BY <1>3
  <2>2. CASE c = e
    BY <1>3, <2>1, <2>2
  <2>3. CASE c # e
    BY <1>2, <1>3, <2>1, <2>3
  <2> QED BY <2>2, <2>3
<1>4. ASSUME NEW e \in Calls, Enter(e) PROVE UrlFollowsNavigation'
  <2>1. \A t \in alive : latest[t] # e
    BY <1>1, <1>4, Entering
  <2> QED BY <1>3, <1>4, <2>1, Entering
<1>5. ASSUME NEW e \in Calls, Begin(e) PROVE UrlFollowsNavigation'
  <2>1. \A t \in alive : latest[t] # e
    BY <1>1, <1>5, Beginning
  <2>2. \A t \in alive : latest'[t] \in {latest[t], NoCall}
    BY <1>0, <1>5, Beginning
  <2> QED BY <1>3, <1>5, <2>1, <2>2, Beginning
<1>6. ASSUME NEW e \in Calls, Commit(e) PROVE UrlFollowsNavigation'
  <2>1. \A t \in alive : latest'[t] \in {latest[t], e}
    BY <1>0, <1>6, Committing
  <2> QED BY <1>3, <1>6, <2>1, Committing
<1>7. ASSUME NEW e \in Calls, Pass(e) PROVE UrlFollowsNavigation'
  <2>1. /\ UNCHANGED <<navVars, regVars, place, nav, began, committed>>
        /\ \A d \in Calls \ {e} : pc'[d] = pc[d]
    BY <1>0, <1>7, Passing DEF passVars
  <2>2. ASSUME NEW t \in alive PROVE Page(t, e)'
    <3> SUFFICES ASSUME latest[t] = e, pc'[e] \notin {"settle", "publish"} PROVE url[t] = e
      BY <2>1
    <3>1. /\ place[e] \in alive /\ nav[e] = t /\ ~ Browser(e)
          /\ committed[e] # 0 /\ committed[e] = generation[nav[e]]
      BY <1>1, <2>2
    <3>2. pc[e] \notin {"settle", "publish"}
      BY <1>0, <1>7, <3>1, Passing
    <3> QED BY <1>0, <3>2 DEF UrlFollowsNavigation
  <2>3. ASSUME NEW t \in alive PROVE Tried(t, e)'
    <3> SUFFICES ASSUME nav[e] = t, pc'[e] = "done", committed[e] = 0, IsCurrent(t, began[e])
                 PROVE  FALSE
      BY <2>1 DEF IsCurrent
    <3>1. place[e] \in alive
      BY <1>0 DEF Where
    <3>2. pc[e] \in {"settle", "publish"}
      BY <1>0, <1>7, Passing DEF Stages
    <3>3. CASE pc[e] = "settle"
      BY <1>0, <1>7, <3>1, <3>3, Passing DEF Failed
    <3>4. CASE pc[e] = "publish"
      BY <1>0, <1>7, <3>1, <3>4, Passing DEF IsCurrent
    <3> QED BY <3>2, <3>3, <3>4
  <2> QED BY <1>3, <2>1, <2>2, <2>3
<1>8. ASSUME NEW e \in Calls, PublishPage(e) \/ PublishFailure(e) PROVE UrlFollowsNavigation'
  <2>1. /\ UNCHANGED <<alive, place, nav, began, committed>>
        /\ \A d \in Calls \ {e} : pc'[d] = pc[d]
        /\ \A t \in Targets \ {place[e]} : url'[t] = url[t]
        /\ place[e] \in alive => url'[place[e]] = e
        /\ generation[nav[e]] = Awaited(e) /\ ~ Browser(e) /\ began[e] # 0
    BY <1>0, <1>8, Publishing, Failing DEF Awaited, Stages
  <2>2. \A t \in alive : latest'[t] = latest[t] /\ generation'[t] = generation[t]
    BY <1>0, <1>8, SharedMoves DEF Others
  <2> SUFFICES ASSUME NEW t \in alive, NEW c \in Calls PROVE Page(t, c)' /\ Tried(t, c)'
    BY <2>1 DEF UrlFollowsNavigation
  <2>3. CASE t = place[e]
    <3>1. nav[e] = t /\ url'[t] = e
      BY <1>0, <2>1, <2>3 DEF Where
    <3>2. latest[t] = c => c = e
      <4> SUFFICES ASSUME latest[t] = c, c # e PROVE FALSE
        OBVIOUS
      <4>1. nav[c] = t /\ Awaited(c) = generation[t] /\ began[c] # 0
        BY <1>1 DEF Awaited
      <4> QED BY <2>1, <3>1, <4>1, Apart
    <3>3. nav[c] = t /\ committed[c] = 0 /\ IsCurrent(t, began[c]) => c = e
      <4> SUFFICES ASSUME nav[c] = t, committed[c] = 0, IsCurrent(t, began[c]), c # e PROVE FALSE
        OBVIOUS
      <4> QED BY <2>1, <3>1, Apart DEF Awaited, IsCurrent
    <3> QED BY <2>1, <2>2, <3>1, <3>2, <3>3 DEF IsCurrent
  <2>4. CASE t # place[e]
    <3>1. nav[e] # t /\ url'[t] = url[t]
      BY <1>0, <2>1, <2>4 DEF Where
    <3>2. latest[t] # e
      BY <1>1, <3>1
    <3>3. CASE c = e
      BY <2>1, <2>2, <3>1, <3>2, <3>3
    <3>4. CASE c # e
      BY <1>2, <2>1, <2>2, <3>1, <3>4
    <3> QED BY <3>3, <3>4
  <2> QED BY <2>3, <2>4
<1>9. ASSUME NEW e \in Calls, BrowserPublish(e) \/ Leave(e) PROVE UrlFollowsNavigation'
  <2>1. /\ UNCHANGED <<regVars, nav, began, committed>> /\ Browser(e)
        /\ \A d \in Calls \ {e} : pc'[d] = pc[d]
    BY <1>9, BrowserPublishing, LeavingDoes
  <2>2. \A t \in alive : latest'[t] = latest[t]
    BY <1>0, <1>9, SharedMoves DEF Others
  <2>3. \A t \in alive : latest[t] # e /\ nav[e] # t
    BY <1>0, <1>1, <2>1 DEF Where
  <2> QED BY <1>3, <2>1, <2>2, <2>3
<1>10. CASE UNCHANGED vars \/ \E t \in Targets : CloseTarget(t)
  BY <1>0, <1>10 DEF UrlFollowsNavigation, IsCurrent, vars, CloseTarget
<1> QED BY <1>4, <1>5, <1>6, <1>7, <1>8, <1>9, <1>10, Steps

\* On one thread, every browser call that has entered has begun by the time a
\* failure is published: what was on show is gone, or the failure clears it.
LEMMA WithdrawnKept == ASSUME IInv, [Next]_vars PROVE Withdrawn'
<1>0. /\ TypeOK /\ Withdrawn /\ Where /\ Stages /\ Numbers /\ OnRecord
      /\ alive \subseteq Targets
  BY DEF IInv, Basics, TypeOK
<1>t. /\ \A n \in Navs : generation[n] \in Nat
      /\ \A d \in Calls : began[d] \in Nat /\ committed[d] \in Nat /\ nav[d] \in Navs
      /\ latest[Shared] \in Calls \cup {NoCall}
  BY <1>0, Typed, Constants
<1> USE Constants
<1> SUFFICES ASSUME ~ parallel', NEW c \in Calls, LastFailed(c)', latest'[Shared] # NoCall
             PROVE  place'[latest'[Shared]] # place'[c]
  BY DEF Withdrawn
<1> DEFINE Goal == place'[latest'[Shared]] # place'[c]
<1>p. ~ parallel /\ alive' \subseteq alive
  <2>1. ASSUME NEW e \in Calls, Enter(e) \/ Begin(e) \/ Commit(e) PROVE UNCHANGED <<parallel, alive>>
    BY <2>1, Entering, Beginning, Committing
  <2>2. ASSUME NEW e \in Calls, Pass(e) \/ Others(e) PROVE UNCHANGED <<parallel, alive>>
    BY <1>0, <2>2, Passing, SharedMoves DEF passVars
  <2>3. CASE UNCHANGED vars \/ \E t \in Targets : CloseTarget(t)
    BY <2>3 DEF vars, CloseTarget
  <2> QED BY <2>1, <2>2, <2>3, Steps DEF Others
\* It failed before, and what is on show was on show.
<1>1. ASSUME pc'[c] = pc[c], place'[c] = place[c], nav'[c] = nav[c], committed'[c] = committed[c],
             began'[c] = began[c]
      PROVE  LastFailed(c)
  <2>1. began[c] = generation[nav[c]]
    BY <1>0, <1>t, <1>1, Grows DEF LastFailed, IsCurrent, Numbers
  <2> QED BY <1>p, <1>1, <2>1 DEF LastFailed, IsCurrent
<1>2. ASSUME LastFailed(c), latest'[Shared] = latest[Shared], place'[c] = place[c],
             place'[latest[Shared]] = place[latest[Shared]]
      PROVE  Goal
  BY <1>0, <1>p, <1>2 DEF Withdrawn
\* No page of a later commit is shown in the place of a call that failed last.
<1>3. ASSUME NEW d \in Calls, LastFailed(c), place[d] \in alive,
             generation[nav[d]] = committed[d], committed[d] # 0
      PROVE  place[d] # place[c]
  <2> SUFFICES ASSUME place[d] = place[c] PROVE FALSE
    OBVIOUS
  <2>1. nav[d] = nav[c] /\ d # c /\ began[c] # 0 /\ began[d] # 0
    BY <1>0, <1>3 DEF LastFailed, IsCurrent, Where, Stages
  <2> QED BY <1>3, <2>1, Apart DEF LastFailed, IsCurrent, Awaited
<1>4. ASSUME NEW e \in Calls, Enter(e) PROVE Goal
  <2>1. c # e /\ latest[Shared] # e /\ latest'[Shared] = latest[Shared]
    BY <1>0, <1>4, Entering DEF LastFailed, OnRecord
  <2>2. place'[latest[Shared]] = place[latest[Shared]]
    BY <1>t, <1>4, <2>1, Entering
  <2> QED BY <1>1, <1>2, <1>4, <2>1, <2>2, Entering
<1>5. ASSUME NEW e \in Calls, Begin(e) PROVE Goal
  <2>1. c # e /\ latest'[Shared] = latest[Shared]
    BY <1>5, Beginning DEF LastFailed
  <2> QED BY <1>1, <1>2, <1>5, <2>1, Beginning
<1>6. ASSUME NEW e \in Calls, Commit(e) PROVE Goal
  <2>1. CASE nav[e] = Shared
    <3>1. latest'[Shared] = e /\ place'[e] = Shared /\ place'[c] \in alive
      BY <1>0, <1>p, <1>6, <2>1, Committing DEF LastFailed, Where, Browser
    <3> QED BY <1>0, <3>1
  <2>2. CASE nav[e] # Shared
    <3>1. c # e /\ latest'[Shared] = latest[Shared]
      BY <1>6, <2>2, Committing DEF LastFailed
    <3> QED BY <1>1, <1>2, <1>6, <3>1, Committing
  <2> QED BY <2>1, <2>2
<1>7. ASSUME NEW e \in Calls, Pass(e) PROVE Goal
  <2>1. UNCHANGED <<navVars, regVars, place, nav, began, committed>>
    BY <1>0, <1>7, Passing DEF passVars
  <2>2. c # e
    <3> SUFFICES ASSUME c = e PROVE FALSE
      OBVIOUS
    <3>1. /\ pc'[e] = "done" /\ place[e] \in alive /\ committed[e] = 0
          /\ IsCurrent(nav[e], began[e])
      BY <1>p, <2>1 DEF LastFailed, IsCurrent
    <3>2. pc[e] \in {"settle", "publish"}
      BY <1>0, <1>7, <3>1, Passing DEF Stages
    <3>3. CASE pc[e] = "settle"
      BY <1>0, <1>7, <3>1, <3>3, Passing DEF Failed
    <3>4. CASE pc[e] = "publish"
      BY <1>0, <1>7, <3>1, <3>4, Passing DEF IsCurrent
    <3> QED BY <3>2, <3>3, <3>4
  <2>3. pc'[c] = pc[c]
    BY <1>0, <1>7, <2>2, Passing
  <2> QED BY <1>1, <1>2, <2>1, <2>3
<1>8. ASSUME NEW e \in Calls, PublishPage(e) PROVE Goal
  <2>1. LastFailed(c) /\ place' = place
    BY <1>1, <1>8, Publishing DEF LastFailed
  <2>2. CASE UNCHANGED navVars
    BY <1>2, <2>1, <2>2
  <2>3. CASE Mirror(e)
    <3>1. latest'[Shared] = e
      BY <1>0, <2>3, Mirroring
    <3> QED BY <1>3, <1>8, <2>1, <3>1, Publishing
  <2> QED BY <1>8, <2>2, <2>3, Publishing
<1>9. ASSUME NEW e \in Calls, PublishFailure(e) PROVE Goal
  <2>1. /\ UNCHANGED <<navVars, alive, place, nav, committed, began>>
        /\ ~ (OnShared /\ place[mirrored.call] = place[e] /\ flight = 0)
        /\ ~ Browser(e) /\ \A d \in Calls \ {e} : pc'[d] = pc[d]
    BY <1>9, Failing
  <2>2. CASE c # e
    BY <1>1, <1>2, <2>1, <2>2
  <2>3. CASE c = e
    <3> SUFFICES ASSUME place[latest[Shared]] = place[e] PROVE FALSE
      BY <2>1, <2>3
    <3>1. latest[Shared] \in Calls /\ ~ Browser(latest[Shared])
      BY <1>t, <2>1 DEF Browser
    <3>2. mirrored = [call |-> latest[Shared], gen |-> generation[Shared]]
      BY <2>1, <3>1 DEF IInv, Publication, Mirrors
    <3>3. OnShared /\ place[mirrored.call] = place[e]
      BY <3>1, <3>2 DEF OnShared, NoMirror
    <3>4. PICK d \in Calls : d \in InFlight
      <4>1. IsFiniteSet(InFlight) /\ Cardinality(InFlight) # 0
        BY <2>1, <3>3 DEF IInv, Basics, Flight, FlightAccounted, InFlight
      <4>2. InFlight # {}
        BY <4>1, FS_EmptySet
      <4> QED BY <4>2 DEF InFlight
    <3>5. Browser(d) /\ pc[d] \in {"fetch", "run"}
      BY <1>p, <1>9, <2>1, <3>4 DEF PublishFailure, Turn, AtAwait, InFlight
    <3>6. began[d] # 0
      BY <1>0, <3>5 DEF Stages
    <3> QED BY <2>1, <3>1, <3>5, <3>6 DEF IInv, Publication, Mirrors
  <2> QED BY <2>2, <2>3
<1>10. ASSUME NEW e \in Calls, BrowserPublish(e) PROVE Goal
  BY <1>1, <1>2, <1>10, BrowserPublishing DEF LastFailed
<1>11. ASSUME NEW e \in Calls, Leave(e) PROVE Goal
  <2>1. /\ UNCHANGED <<place, nav, committed, began>> /\ Browser(e) /\ place'[c] \in alive
        /\ \A d \in Calls \ {e} : pc'[d] = pc[d]
    BY <1>p, <1>11, LeavingDoes DEF LastFailed
  <2>2. LastFailed(c)
    BY <1>0, <1>1, <2>1 DEF Browser
  <2>3. CASE UNCHANGED navVars
    BY <1>2, <2>1, <2>2, <2>3
  <2>4. CASE /\ pending \in Calls /\ Mirror(pending)
             /\ place[pending] \in alive /\ generation[nav[pending]] = committed[pending]
    <3>1. latest'[Shared] = pending /\ committed[pending] # 0
      BY <1>0, <2>4, Mirroring DEF IInv, Publication, PutOff
    <3> QED BY <1>3, <2>1, <2>2, <2>4, <3>1
  <2> QED BY <1>11, <2>3, <2>4, LeavingDoes
<1>12. CASE UNCHANGED vars \/ \E t \in Targets : CloseTarget(t)
  BY <1>1, <1>2, <1>12 DEF vars, CloseTarget
<1> QED BY <1>4, <1>5, <1>6, <1>7, <1>8, <1>9, <1>10, <1>11, <1>12, Steps

-----------------------------------------------------------------------------
(* The theorems.                                                           *)

LEMMA Inductive == Spec => []IInv
<1>1. Init => IInv
  BY InitHolds
<1>2. IInv /\ [Next]_vars => IInv'
  BY TypesKept, StagesKept, WhereKept, NumbersKept, OnRecordKept, SequenceKept, FlightKept,
     PutOffKept, MirrorsKept, ShownKept, NewestKept, SupersededKept, UrlKept, WithdrawnKept
     DEF IInv, Basics, Publication
<1> QED BY <1>1, <1>2, PTL DEF Spec

\* Every variable of page.rs's handler stays in its range; in particular
\* browser_in_flight never goes below zero.
THEOREM TypeCorrect == Spec => []TypeOK
<1>1. IInv => TypeOK
  BY DEF IInv, Basics
<1> QED BY <1>1, Inductive, PTL

\* Navigate publishes what it does: for a target that exists, the target list
\* has the URL of the page on record as soon as its call has published, and of
\* the last attempt if that failed, whatever calls overlap and targets close.
THEOREM ListMatchesDocument == Spec => []UrlFollowsNavigation
<1>1. IInv => UrlFollowsNavigation
  BY DEF IInv
<1> QED BY <1>1, Inductive, PTL

\* BrowserFlight counts right however calls end, failures and dropped futures
\* included; with no browser navigation under way nothing waits to be mirrored,
\* and the newest commit published is on show as long as its target has it.
THEOREM SettledSharedIsNewest == Spec => []SharedSettles
<1>1. ASSUME IInv PROVE SharedSettles
  <2>1. FlightAccounted
    BY <1>1 DEF IInv, Basics, Flight
  <2>2. SharedIsNewest
    <3> SUFFICES ASSUME NEW c \in Calls, flight = 0, commitSeq[c] = pubSeq, pubSeq > 0,
                        place[c] \in alive, generation[nav[c]] = committed[c],
                        latest[Shared] # NoCall, latest[Shared] # c
                 PROVE  FALSE
      BY DEF SharedIsNewest
    <3>1. pending # c
      BY <1>1, NothingPutOff, Constants
    <3>2. PICK d \in Calls : Ahead(d)
      BY <1>1, <3>1 DEF IInv, Publication, Newest
    <3>3. pc[d] \in {"settle", "publish"} /\ Browser(d) /\ began[d] # 0
      <4>1. commitSeq[d] # 0
        BY <1>1, <3>2, Typed DEF Ahead, IInv, Basics
      <4> QED BY <1>1, <3>2, <4>1 DEF Ahead, IInv, Basics, Sequence, Stages
    <3> QED BY <1>1, <3>3, NobodyFlies
  <2> QED BY <2>1, <2>2 DEF SharedSettles
<1> QED BY <1>1, Inductive, PTL

\* retract_mirror, on one thread: once a target's navigation has failed and no
\* browser navigation is under way, none of its pages is on show.
THEOREM FailureWithdrawsPage == Spec => []FailedPageIsWithdrawn
<1>1. IInv => FailedPageIsWithdrawn
  BY DEF IInv, Withdrawn, LastFailed, FailedPageIsWithdrawn
<1> QED BY <1>1, Inductive, PTL

\* What the shared state shows only gets newer, and no mirror ends a browser
\* navigation before its events are out.
THEOREM SharedForward == Spec => SharedMovesForward
<1>1. ASSUME IInv, [Next]_vars PROVE [shownSeq' >= shownSeq]_vars
  <2>0. TypeOK /\ Sequence /\ Stages /\ shownSeq \in Nat
    BY <1>1, Typed DEF IInv, Basics
  <2>1. ASSUME \A d \in Calls : Browser(d) /\ began[d] # 0 => pc[d] \in {"leave", "done"}
        PROVE  shownSeq <= pubSeq
    <3> SUFFICES ASSUME NEW d \in Calls, Ahead(d) PROVE FALSE
      BY <1>1 DEF IInv, Publication, Shown
    <3>1. commitSeq[d] # 0 /\ Browser(d) /\ pc[d] \in {"settle", "publish"}
      BY <2>0, Typed DEF Ahead
    <3>2. began[d] # 0
      BY <2>0, <3>1 DEF Sequence, Stages
    <3> QED BY <2>1, <3>1, <3>2
  <2>2. ASSUME NEW c \in Calls, Commit(c) PROVE shownSeq' >= shownSeq
    BY <1>1, <2>0, <2>2, Committing, Typed DEF Sequence
  <2>3. ASSUME NEW c \in Calls, PublishPage(c) PROVE shownSeq' >= shownSeq
    <3>1. CASE UNCHANGED shownSeq
      BY <2>0, <3>1
    <3>2. CASE commitSeq[c] > pubSeq /\ flight = 0 /\ Mirror(c)
      <4>1. shownSeq <= pubSeq /\ shownSeq' = commitSeq[c]
        BY <1>1, <2>0, <2>1, <3>2, NobodyFlies, Mirroring
      <4> QED BY <2>0, <3>2, <4>1, Typed
    <3> QED BY <1>1, <2>3, <3>1, <3>2, Publishing
  <2>4. ASSUME NEW c \in Calls, Leave(c) PROVE shownSeq' >= shownSeq
    <3>1. CASE UNCHANGED shownSeq
      BY <2>0, <3>1
    <3>2. CASE flight = 1 /\ pending \in Calls /\ Mirror(pending)
      <4>1. shownSeq <= pubSeq
        BY <1>1, <2>1, <2>4, <3>2, LeavingDoes, NobodyFlies
      <4>2. commitSeq[pending] = pubSeq /\ shownSeq' = commitSeq[pending]
        BY <1>1, <2>0, <3>2, Constants, Mirroring DEF IInv, Publication, PutOff
      <4> QED BY <2>0, <4>1, <4>2, Typed
    <3> QED BY <1>1, <2>4, <3>1, <3>2, LeavingDoes
  <2>5. ASSUME NEW c \in Calls,
               Enter(c) \/ Begin(c) \/ Pass(c) \/ PublishFailure(c) \/ BrowserPublish(c)
        PROVE  shownSeq' >= shownSeq
    BY <1>1, <2>0, <2>5, Entering, Beginning, Passing, Failing, BrowserPublishing DEF passVars
  <2>6. CASE UNCHANGED vars \/ \E t \in Targets : CloseTarget(t)
    BY <2>0, <2>6 DEF vars, CloseTarget
  <2> QED BY <1>1, <2>2, <2>3, <2>4, <2>5, <2>6, Steps
<1>2. IInv => OnlyBrowserSupersedes
  BY DEF IInv
<1> QED BY <1>1, <1>2, Inductive, PTL DEF Spec, SharedMovesForward, SharedNeverRewinds

\* push_navigation_events is right when it sends: the page a client is told of
\* is the document at that moment, and for a target the list has its URL.
THEOREM EventsRight == Spec => EventsMatchState
<1> DEFINE Told == \A c \in told' \ told :
                      /\ latest[nav[c]] = c
                      /\ ~ Browser(c) => place[c] \in alive /\ url[place[c]] = c
<1>1. ASSUME IInv, [Next]_vars PROVE [Told]_vars
  <2>0. TypeOK
    BY <1>1 DEF IInv, Basics
  <2>1. ASSUME NEW c \in Calls, Reply(c), NEW d \in told' \ told
        PROVE  /\ latest[nav[d]] = d
               /\ ~ Browser(d) => place[d] \in alive /\ url[place[d]] = d
    <3>1. /\ d = c /\ pc[c] = "reply" /\ generation[nav[c]] = committed[c]
          /\ place[c] \in alive \cup {Shared}
      BY <2>1 DEF Reply, InForce
    <3>2. latest[nav[c]] = c
      BY <1>1, <3>1 DEF IInv, Basics, Stages, OnRecord
    <3>3. ~ Browser(c) => place[c] \in alive /\ nav[c] = place[c]
      BY <1>1, <3>1 DEF Browser, IInv, Basics, Where
    <3> QED BY <1>1, <3>1, <3>2, <3>3 DEF IInv, UrlFollowsNavigation
  <2>2. ASSUME NEW c \in Calls, Pass(c), ~ Reply(c) PROVE told' = told
    BY <2>2 DEF Pass, Refuse, FetchFails, Fetched, CommitSuperseded, SettleNothing, Settle,
       PublishOvertaken, PublishGone, BrowserFails, BrowserSettle, Abandon
  <2>3. ASSUME NEW c \in Calls, Enter(c) \/ Begin(c) \/ Commit(c) PROVE told' = told
    BY <1>1, <2>3, Entering, Beginning, Committing
  <2>4. ASSUME NEW c \in Calls, Others(c) PROVE told' = told
    BY <1>1, <2>4, Publishing, Failing, BrowserPublishing, LeavingDoes DEF Others
  <2>5. CASE UNCHANGED vars \/ \E t \in Targets : CloseTarget(t)
    BY <2>5 DEF vars, CloseTarget
  <2> QED BY <1>1, <2>1, <2>2, <2>3, <2>4, <2>5, Steps DEF Others
<1> QED BY <1>1, Inductive, PTL DEF Spec, EventsMatchState

=============================================================================
