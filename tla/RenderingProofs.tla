--------------------------- MODULE RenderingProofs ---------------------------
(***************************************************************************)
(* Proofs about Rendering and, first, about RenderHost alone: its theorems *)
(* speak of HostSpec, in which the host is called in any way at all.       *)
(*                                                                         *)
(* RenderHost, for any URLs and any settings of the breaker: HostProcess   *)
(* and the host never take different pages for the loaded one (HostInv,    *)
(* for which nothing is needed of the breaker), and no host is started for *)
(* the cooldown after too many failures within the window (PauseInv, which *)
(* says what the failures the breaker remembers have to do with all those  *)
(* there were).                                                            *)
(*                                                                         *)
(* Rendering implements RenderContract: whatever crashes, times out or     *)
(* navigates meanwhile, a call draws a page that was on record during the  *)
(* call and that may be loaded, or draws nothing.  Its invariant is        *)
(* HostInv, NavInv for the generations that the gate compares, and CallInv *)
(* for what a call under way stands for; with the types and PauseInv it    *)
(* also gives the type invariant and the pauses between restarts.          *)
(***************************************************************************)
EXTENDS Rendering, WellFoundedInduction, TLAPS

-----------------------------------------------------------------------------
(* RenderHost alone *)

Record == [url : Urls, nav : BOOLEAN, host : BOOLEAN]
View   == [url : Urls, allowed : BOOLEAN]

\* The types of what the two sides know of the page and of the call.
PageTypes ==
  /\ loaded \in Record \cup {NoUrl}
  /\ shown \in View \cup {NoUrl}
  /\ op \in [do : {"load", "draw"}, url : Urls] \cup {NoOp}
  /\ hp # "idle" => op # NoOp

HostInv == PageTypes /\ RecordMatchesHost

\* A call only makes the record older.
LEMMA CallKeeps ==
  ASSUME HostInv, NEW do \in {"load", "draw"}, NEW url \in Urls, Call(do, url)
  PROVE  HostInv'
<1>1. op' \in [do : {"load", "draw"}, url : Urls] /\ op' # NoOp
  BY NoUrlAssumption DEF Call, NoOp
<1>2. loaded' \in Record \cup {NoUrl} /\ (loaded' # NoUrl => loaded # NoUrl /\ loaded'.url = loaded.url)
  BY DEF Call, HostInv, PageTypes, Record
<1> QED
  BY <1>1, <1>2 DEF HostInv, PageTypes, RecordMatchesHost, Call, childVars

\* Losing the host, or the record of the page, leaves nothing to compare.
LEMMA ForgetKeeps ==
  ASSUME HostInv, loaded' \in {loaded, NoUrl}, shown' \in {shown, NoUrl},
         op' \in {op, NoOp}, op' = NoOp => hp' = "idle"
  PROVE  HostInv'
BY DEF HostInv, PageTypes, RecordMatchesHost

\* Nothing HostProcess does in a call takes the two apart.
LEMMA StepKeeps ==
  ASSUME HostInv, HostStep
  PROVE  HostInv'
<1>1. CASE EnsureRunning
  <2>1. op' = op /\ (hp' # "idle" => hp # "idle") /\ hp = "ensure"
    BY <1>1 DEF EnsureRunning
  <2>2. UNCHANGED <<loaded, shown>> \/ (loaded' = NoUrl /\ shown' = NoUrl)
    BY <1>1 DEF EnsureRunning, Discard, NoChild, childVars
  <2> QED
    BY <2>1, <2>2 DEF HostInv, PageTypes, RecordMatchesHost
<1>2. CASE Check \/ Spawn \/ SpawnFails \/ NotSent
  BY <1>2, ForgetKeeps DEF Check, Spawn, SpawnFails, NotSent, Return, childVars, HostInv, PageTypes
<1>3. CASE Hello
  <2>1. loaded' \in Record \cup {NoUrl} /\ (loaded' # NoUrl => loaded # NoUrl /\ loaded'.url = loaded.url)
    BY <1>3 DEF Hello, HostInv, PageTypes, Record
  <2> QED
    BY <1>3, <2>1 DEF Hello, HostInv, PageTypes, RecordMatchesHost, childVars
<1>4. CASE HelloFails \/ ExchangeFails
  BY <1>4 DEF HelloFails, ExchangeFails, Discard, NoChild, Return, HostInv, PageTypes, RecordMatchesHost
<1>5. CASE Loads
  <2>1. PICK allowed \in BOOLEAN :
          /\ shown' = [url |-> op.url, allowed |-> allowed]
          /\ loaded' = NoUrl \/ loaded' = [url |-> op.url, nav |-> TRUE, host |-> TRUE]
          /\ (op' = NoOp /\ hp' = "idle") \/ op' = op
    BY <1>5 DEF Loads, Return
  <2>2. op \in [do : {"load", "draw"}, url : Urls] /\ op # NoOp
    <3>1. hp = "load"
      BY <1>5 DEF Loads
    <3> QED
      BY <3>1 DEF HostInv, PageTypes
  <2>3. loaded' \in Record \cup {NoUrl} /\ shown' \in View
    <3>1. op.url \in Urls
      BY <2>2
    <3>2. [url |-> op.url, nav |-> TRUE, host |-> TRUE] \in Record
      BY <3>1 DEF Record
    <3>3. [url |-> op.url, allowed |-> allowed] \in View
      BY <3>1 DEF View
    <3> QED
      BY <2>1, <3>2, <3>3
  <2>4. RecordMatchesHost'
    BY <2>1 DEF RecordMatchesHost
  <2> QED
    BY <2>1, <2>2, <2>3, <2>4 DEF HostInv, PageTypes
<1>6. CASE LoadFails \/ Draws \/ DrawFails
  BY <1>6 DEF LoadFails, Draws, DrawFails, Return, childVars, HostInv, PageTypes, RecordMatchesHost
<1> QED
  BY <1>1, <1>2, <1>3, <1>4, <1>5, <1>6 DEF HostStep

\* Nor does anything beside it.
LEMMA BesideKeeps ==
  ASSUME HostInv, Shutdown \/ HostDies \/ Tick \/ Stabilise \/ UNCHANGED hostVars
  PROVE  HostInv'
BY DEF HostInv, PageTypes, RecordMatchesHost, Shutdown, HostDies, Tick, Stabilise,
       NoChild, childVars, hostVars

\* What HostProcess believes to be loaded is what the host shows, for any
\* URLs and any settings of the breaker (load_inner, discard, exchange).
THEOREM RecordAlwaysMatches == HostSpec => []RecordMatchesHost
<1>1. HostInit => HostInv
  BY DEF HostInit, HostInv, PageTypes, RecordMatchesHost
<1>2. HostInv /\ [HostNext]_hostVars => HostInv'
  BY CallKeeps, StepKeeps, BesideKeeps DEF HostNext
<1>3. HostInv => RecordMatchesHost
  BY DEF HostInv
<1> QED
  BY <1>1, <1>2, <1>3, PTL DEF HostSpec

-----------------------------------------------------------------------------
(* The pauses                                                              *)

\* A set of numbers with an element has a least one.
LEMMA Earliest ==
  ASSUME NEW T \in SUBSET Nat, T # {}
  PROVE  \E x \in T : \A y \in T : x <= y
<1>1. PICK x \in T : \A y \in T : ~ (<<y, x>> \in OpToRel(<, Nat))
  BY NatLessThanWellFounded, WFMin
<1>2. \A y \in T : ~ (y < x)
  BY <1>1 DEF OpToRel
<1> QED BY <1>2

\* What the breaker and the history of failures are, and when there is no host yet.
PauseTypes ==
  /\ BreakerTypeOK
  /\ history \in Seq(Nat) /\ Len(history) <= Threshold
  /\ hp \in {"check", "spawn"} => ~ running

\* The newest failure comes first.
Ordered ==
  \A i, j \in 1 .. Len(history) : i <= j => history[i] <= history[j]

\* While the breaker is open, and until somebody finds the cooldown over, no host
\* runs or is being started.
WhileOpen ==
  openFor >= 0 => /\ failures = <<>> /\ ~ halfOpen /\ ~ running
                  /\ hp \in {"idle", "ensure", "check"}
                  /\ Len(history) > 0 /\ history[1] + openFor >= Cooldown

\* After the cooldown every failure has left the window.
HalfOpen == halfOpen => \A i \in 1 .. Len(history) : history[i] >= Window

\* A closed breaker remembers every failure within the window: the newest one is its
\* last, and so on.
Counted ==
  openFor > 0 \/ \A i \in 1 .. Len(history) : history[i] < Window =>
    Len(failures) >= i /\ failures[Len(failures) + 1 - i] = history[i]

\* So that Threshold failures within the window have opened it.
Paused ==
  Len(history) = Threshold /\ history[Threshold] - history[1] < Window =>
    openFor > 0 \/ history[1] >= Cooldown

PauseInv == PauseTypes /\ Ordered /\ WhileOpen /\ HalfOpen /\ Counted /\ Paused

\* What is dropped in front is older than the window.
LEMMA WhatIsKept ==
  ASSUME BreakerTypeOK
  PROVE  LET all == Append(failures, 0)
         IN  \E front \in 1 .. Len(all) :
               /\ WithFailure = SubSeq(all, front, Len(all))
               /\ \A j \in 1 .. front - 1 : all[j] > Window
<1> DEFINE all == Append(failures, 0)
           Kept(i) == all[i] <= Window /\ \A j \in 1 .. i - 1 : all[j] > Window
<1>1. failures \in Seq(Int) /\ Window \in Nat
  BY BreakerAssumption DEF BreakerTypeOK
<1>2. Len(all) = Len(failures) + 1 /\ all[Len(all)] = 0 /\ DOMAIN all = 1 .. Len(all) /\ Len(all) \in Nat
      /\ \A i \in 1 .. Len(all) : all[i] \in Int
  BY <1>1
<1> HIDE DEF all
<1>3. PICK first \in {i \in 1 .. Len(all) : all[i] <= Window} :
        \A y \in {i \in 1 .. Len(all) : all[i] <= Window} : first <= y
  <2>1. Len(all) \in {i \in 1 .. Len(all) : all[i] <= Window}
    BY <1>1, <1>2
  <2>2. {i \in 1 .. Len(all) : all[i] <= Window} \in SUBSET Nat
    OBVIOUS
  <2> QED
    BY <2>1, <2>2, Earliest
<1>4. Kept(first) /\ first \in DOMAIN all
  BY <1>1, <1>2, <1>3
<1>5. Kept(CHOOSE i \in DOMAIN all : Kept(i)) /\ (CHOOSE i \in DOMAIN all : Kept(i)) \in DOMAIN all
  BY <1>4
<1>6. WithFailure = SubSeq(all, CHOOSE i \in DOMAIN all : Kept(i), Len(all))
  BY DEF WithFailure, all
<1> QED
  BY <1>2, <1>5, <1>6 DEF all

\* The history after one more failure.
LEMMA Remembered ==
  ASSUME PauseTypes, Failure
  PROVE  LET m == IF Len(history) < Threshold THEN Len(history) + 1 ELSE Threshold
         IN  /\ history' \in Seq(Nat) /\ Len(history') = m /\ m >= 1
             /\ history'[1] = 0
             /\ \A i \in 2 .. m : i - 1 \in 1 .. Len(history) /\ history'[i] = history[i - 1]
<1> DEFINE m == IF Len(history) < Threshold THEN Len(history) + 1 ELSE Threshold
           long == <<0>> \o history
<1>1. history \in Seq(Nat) /\ Len(history) \in Nat /\ Len(history) <= Threshold /\ Threshold \in Nat /\ Threshold > 0
  BY BreakerAssumption DEF PauseTypes
<1>2. /\ long \in Seq(Nat) /\ Len(long) = Len(history) + 1
      /\ long[1] = 0 /\ \A i \in 2 .. Len(long) : long[i] = history[i - 1]
  BY <1>1
<1> HIDE DEF long
<1>3. m \in 1 .. Len(long)
  BY <1>1, <1>2
<1> HIDE DEF m
<1>4. /\ SubSeq(long, 1, m) \in Seq(Nat) /\ Len(SubSeq(long, 1, m)) = m
      /\ \A i \in 1 .. m : SubSeq(long, 1, m)[i] = long[i]
  BY <1>2, <1>3
<1>5. history' = SubSeq(long, 1, m)
  BY DEF Failure, long, m
<1>6. \A i \in 2 .. m : i - 1 \in 1 .. Len(history)
  BY <1>1, <1>2, <1>3
<1> QED
  BY <1>2, <1>3, <1>4, <1>5, <1>6 DEF m

\* A failure is counted only by a process that is not kept from starting a host, and
\* one too many within the window makes it pause.
LEMMA FailureKeeps ==
  ASSUME PauseInv, Failure, openFor < 0, ~ running', hp' \in {"idle", "check"}
  PROVE  PauseInv'
<1> DEFINE all == Append(failures, 0)
<1>1. /\ failures \in Seq(0 .. Window + 1) /\ Len(failures) < Threshold /\ Len(failures) \in Nat
      /\ openFor \in Int /\ openFor \in NotOpen .. Cooldown /\ halfOpen \in BOOLEAN
      /\ history \in Seq(Nat) /\ Len(history) <= Threshold /\ Len(history) \in Nat
  BY BreakerAssumption DEF PauseInv, PauseTypes, BreakerTypeOK, NotOpen
<1>2. Window \in Nat /\ Threshold \in Nat /\ Cooldown \in Nat /\ Threshold > 0 /\ Window > 0
      /\ Cooldown > 0 /\ Window <= Cooldown
  BY BreakerAssumption, CooldownAssumption
<1> DEFINE m == IF Len(history) < Threshold THEN Len(history) + 1 ELSE Threshold
<1>3. /\ m \in Int /\ m >= 1 /\ m <= Threshold
      /\ history' \in Seq(Nat) /\ Len(history') = m
      /\ history'[1] = 0
      /\ \A i \in 2 .. m : i - 1 \in 1 .. Len(history) /\ history'[i] = history[i - 1]
  <2>1. Threshold \in Int /\ Len(history) \in Int /\ (Len(history) < Threshold => Len(history) + 1 <= Threshold)
    BY <1>1, <1>2
  <2>2. /\ history' \in Seq(Nat) /\ Len(history') = m /\ m >= 1
        /\ history'[1] = 0
        /\ \A i \in 2 .. m : i - 1 \in 1 .. Len(history) /\ history'[i] = history[i - 1]
    BY Remembered DEF PauseInv
  <2> QED
    BY <2>1, <2>2
<1> HIDE DEF m
<1>4. Ordered'
  <2>1. \A i \in 1 .. m : history'[i] \in Nat
    BY <1>3
  <2> SUFFICES ASSUME NEW i \in 1 .. m, NEW j \in 1 .. m, i <= j
               PROVE  history'[i] <= history'[j]
    BY <1>3 DEF Ordered
  <2>2. CASE i = 1
    BY <2>1, <2>2, <1>3
  <2>3. CASE i # 1
    <3>1. i \in 2 .. m /\ j \in 2 .. m /\ i - 1 <= j - 1
      BY <2>3, <1>3
    <3> QED
      BY <3>1, <1>3 DEF PauseInv, Ordered
  <2> QED
    BY <2>2, <2>3
<1>5. CASE Trip
  <2>1. failures' = <<>> /\ openFor' = Cooldown /\ halfOpen' = FALSE
    BY <1>5 DEF Trip
  <2>2. PauseTypes'
    <3>1. failures' \in Seq(0 .. Window + 1) /\ Len(failures') = 0
      BY <2>1
    <3>2. openFor' \in NotOpen .. Cooldown
      BY <1>2, <2>1 DEF NotOpen
    <3>3. halfOpen' \in BOOLEAN
      BY <2>1
    <3> QED
      BY <1>2, <1>3, <3>1, <3>2, <3>3 DEF PauseTypes, BreakerTypeOK
  <2>3. WhileOpen' /\ HalfOpen' /\ Counted' /\ Paused'
    BY <1>2, <1>3, <2>1 DEF WhileOpen, HalfOpen, Counted, Paused
  <2> QED
    BY <1>4, <2>2, <2>3 DEF PauseInv
<1>6. CASE /\ ~ halfOpen /\ ~ (Len(WithFailure) >= Threshold)
           /\ failures' = WithFailure /\ UNCHANGED <<openFor, halfOpen>>
  <2>1. PICK front \in 1 .. Len(all) :
          WithFailure = SubSeq(all, front, Len(all)) /\ \A j \in 1 .. front - 1 : all[j] > Window
    BY WhatIsKept DEF PauseInv, PauseTypes
  <2>2. /\ all \in Seq(0 .. Window + 1) /\ Len(all) = Len(failures) + 1
        /\ all[Len(all)] = 0 /\ \A j \in 1 .. Len(failures) : all[j] = failures[j]
    <3>1. 0 \in 0 .. Window + 1
      BY <1>2
    <3> QED
      BY <1>1, <3>1
  <2> HIDE DEF all
  <2>3. /\ SubSeq(all, front, Len(all)) \in Seq(0 .. Window + 1)
        /\ Len(SubSeq(all, front, Len(all))) = Len(all) - front + 1
        /\ \A j \in 1 .. Len(all) - front + 1 : SubSeq(all, front, Len(all))[j] = all[front + j - 1]
    <3>1. Len(all) \in Nat /\ front \in Int /\ 1 <= front /\ front <= Len(all)
      BY <1>1, <2>1, <2>2
    <3> DEFINE S == 0 .. Window + 1
    <3>2. all \in Seq(S)
      BY <2>2
    <3> HIDE DEF S
    <3>3. /\ SubSeq(all, front, Len(all)) \in Seq(S)
          /\ Len(SubSeq(all, front, Len(all))) = Len(all) - front + 1
          /\ \A j \in 1 .. Len(all) - front + 1 : SubSeq(all, front, Len(all))[j] = all[front + j - 1]
      BY <3>1, <3>2
    <3> QED
      BY <3>3 DEF S
  <2>4. /\ failures' \in Seq(0 .. Window + 1) /\ Len(failures') = Len(all) - front + 1
        /\ Len(failures') < Threshold
        /\ \A j \in 1 .. Len(failures') : failures'[j] = all[front + j - 1]
    <3>1. failures' = SubSeq(all, front, Len(all)) /\ ~ (Len(failures') >= Threshold)
      BY <1>6, <2>1
    <3>2. /\ failures' \in Seq(0 .. Window + 1) /\ Len(failures') = Len(all) - front + 1
          /\ \A j \in 1 .. Len(failures') : failures'[j] = all[front + j - 1]
      BY <2>3, <3>1
    <3>3. Len(failures') < Threshold
      <4>1. Len(all) \in Int /\ front \in Int /\ Threshold \in Int
        BY <1>1, <1>2, <2>1, <2>2
      <4>2. Len(failures') \in Int
        BY <3>2, <4>1
      <4> QED
        BY <3>1, <4>1, <4>2
    <3> QED
      BY <3>2, <3>3
  <2>5. PauseTypes'
    BY <1>1, <1>2, <1>3, <1>6, <2>4 DEF PauseTypes, BreakerTypeOK
  <2>6. WhileOpen' /\ HalfOpen'
    BY <1>1, <1>6 DEF WhileOpen, HalfOpen
  <2>7. ASSUME NEW i \in 1 .. m, history'[i] < Window
        PROVE  Len(failures') >= i /\ failures'[Len(failures') + 1 - i] = history'[i]
    <3>1. i <= Len(all) /\ all[Len(all) + 1 - i] = history'[i]
      <4>1. CASE i = 1
        BY <1>1, <1>3, <2>2, <4>1
      <4>2. CASE i # 1
        <5>1. i \in 2 .. m /\ i - 1 \in 1 .. Len(history) /\ history'[i] = history[i - 1]
          BY <4>2, <1>3
        <5>2. Len(failures) >= i - 1 /\ failures[Len(failures) + 1 - (i - 1)] = history[i - 1]
          BY <1>1, <5>1, <2>7 DEF PauseInv, Counted
        <5>3. /\ Len(failures) + 1 - (i - 1) = Len(all) + 1 - i
              /\ Len(all) + 1 - i \in 1 .. Len(failures)
          BY <5>1, <5>2, <2>2, <1>1
        <5>4. all[Len(all) + 1 - i] = failures[Len(all) + 1 - i]
          BY <5>3, <2>2
        <5>5. i <= Len(all)
          BY <5>1, <5>2, <2>2, <1>1
        <5> QED
          BY <5>1, <5>2, <5>3, <5>4, <5>5
      <4> QED
        BY <4>1, <4>2
    <3> DEFINE k == Len(all) + 1 - i
    <3>2. k \in 1 .. Len(all) /\ k \in Int /\ Len(all) \in Int /\ front \in Int
      BY <1>1, <2>1, <2>2, <3>1
    <3>3. k >= front
      <4>1. SUFFICES ASSUME ~ (k >= front) PROVE FALSE
        OBVIOUS
      <4>2. k \in 1 .. front - 1
        BY <3>2, <4>1
      <4>3. all[k] > Window
        BY <2>1, <4>2
      <4>4. all[k] < Window
        BY <2>7, <3>1
      <4>5. all[k] \in 0 .. Window + 1
        <5> DEFINE S == 0 .. Window + 1
        <5>1. all \in Seq(S)
          BY <2>2
        <5> HIDE DEF S
        <5>2. all[k] \in S
          BY <3>2, <5>1
        <5> QED
          BY <5>2 DEF S
      <4> QED
        BY <1>2, <4>3, <4>4, <4>5
    <3>4. /\ Len(failures') + 1 - i = k - front + 1 /\ k - front + 1 \in 1 .. Len(failures')
          /\ front + (k - front + 1) - 1 = k /\ Len(failures') >= i
      BY <2>1, <2>4, <3>2, <3>3
    <3>5. failures'[k - front + 1] = all[front + (k - front + 1) - 1]
      BY <2>4, <3>4
    <3> QED
      BY <3>1, <3>4, <3>5
  <2>8. Counted'
    BY <1>3, <2>7 DEF Counted
  <2>9. Paused'
    <3>1. SUFFICES ASSUME m = Threshold, history'[Threshold] - history'[1] < Window
                   PROVE  FALSE
      BY <1>3 DEF Paused
    <3>2. history'[m] < Window /\ m \in 1 .. m
      BY <1>2, <1>3, <3>1
    <3> QED
      BY <1>2, <2>4, <2>7, <3>1, <3>2
  <2> QED
    BY <1>4, <2>5, <2>6, <2>8, <2>9 DEF PauseInv
<1> QED
  BY <1>5, <1>6 DEF Failure, RecordFailure

\* What is unsaid of the numbers in the invariant.
LEMMA PauseNumbers ==
  ASSUME PauseInv
  PROVE  /\ failures \in Seq(0 .. Window + 1) /\ Len(failures) \in Nat /\ Len(failures) < Threshold
         /\ openFor \in Int /\ openFor \in NotOpen .. Cooldown /\ halfOpen \in BOOLEAN
         /\ history \in Seq(Nat) /\ Len(history) <= Threshold /\ Len(history) \in Nat
         /\ Window \in Nat /\ Threshold \in Nat /\ Cooldown \in Nat
         /\ Threshold > 0 /\ Window > 0 /\ Cooldown > 0 /\ Window <= Cooldown
BY BreakerAssumption, CooldownAssumption DEF PauseInv, PauseTypes, BreakerTypeOK, NotOpen

\* Steps that leave the breaker alone, and start no host while it is open.
LEMMA QuietKeeps ==
  ASSUME PauseInv, UNCHANGED breakerVars, UNCHANGED history,
         hp' \in {"check", "spawn"} => ~ running',
         openFor >= 0 => ~ running' /\ hp' \in {"idle", "ensure", "check"}
  PROVE  PauseInv'
<1> USE DEF breakerVars
<1>1. PauseTypes'
  BY DEF PauseInv, PauseTypes, BreakerTypeOK
<1>2. Ordered' /\ WhileOpen' /\ HalfOpen' /\ Counted' /\ Paused'
  BY DEF PauseInv, Ordered, WhileOpen, HalfOpen, Counted, Paused
<1> QED
  BY <1>1, <1>2 DEF PauseInv

\* A success clears the record only when everything in it is older than the window.
LEMMA SuccessKeeps ==
  ASSUME PauseInv, RecordSuccess, UNCHANGED <<running, history>>,
         hp \in {"load", "draw"}, hp' \in {"idle", "load", "draw"}
  PROVE  PauseInv'
<1>1. ~ (openFor >= 0)
  BY DEF PauseInv, WhileOpen
<1>2. CASE halfOpen /\ failures' = <<>> /\ halfOpen' = FALSE /\ UNCHANGED openFor
  <2>1. failures' \in Seq(0 .. Window + 1) /\ Len(failures') = 0
    BY <1>2
  <2>2. PauseTypes'
    <3>1. BreakerTypeOK'
      BY <1>2, <2>1, PauseNumbers DEF BreakerTypeOK
    <3> QED
      BY <3>1 DEF PauseInv, PauseTypes
  <2>3. WhileOpen' /\ Ordered' /\ HalfOpen' /\ Paused'
    BY <1>1, <1>2 DEF PauseInv, WhileOpen, Ordered, HalfOpen, Paused
  <2>4. Counted'
    <3>1. \A i \in 1 .. Len(history) : ~ (history[i] < Window)
      BY <1>2, PauseNumbers DEF PauseInv, HalfOpen
    <3> QED
      BY <3>1 DEF Counted
  <2> QED
    BY <2>2, <2>3, <2>4 DEF PauseInv
<1>3. CASE UNCHANGED breakerVars
  BY <1>1, <1>3, QuietKeeps
<1> QED
  BY <1>2, <1>3 DEF RecordSuccess

\* Once the cooldown is over every failure before it has left the window.
LEMMA PassKeeps ==
  ASSUME PauseInv, Pass, UNCHANGED <<running, history>>, hp = "check", hp' = "spawn"
  PROVE  PauseInv'
<1>1. /\ openFor' = NotOpen /\ failures' = failures /\ ~ (openFor > 0)
      /\ halfOpen' = (halfOpen \/ openFor = 0)
  BY DEF Pass, Refuses
<1>2. PauseTypes'
  <2>1. openFor' \in NotOpen .. Cooldown
    BY <1>1, PauseNumbers DEF NotOpen
  <2>2. halfOpen' \in BOOLEAN
    BY <1>1, PauseNumbers
  <2>3. BreakerTypeOK'
    BY <1>1, <2>1, <2>2, PauseNumbers DEF BreakerTypeOK
  <2> QED
    BY <2>3 DEF PauseInv, PauseTypes
<1>3. WhileOpen' /\ Ordered'
  BY <1>1 DEF PauseInv, WhileOpen, Ordered, NotOpen
<1>4. HalfOpen'
  <2>1. ASSUME openFor = 0, NEW i \in 1 .. Len(history)
        PROVE  history[i] >= Window
    <3>1. history[1] >= Cooldown /\ history[1] <= history[i] /\ history[1] \in Nat /\ history[i] \in Nat
      <4>1. history[1] + openFor >= Cooldown
        BY <2>1, PauseNumbers DEF PauseInv, WhileOpen
      <4>2. 1 \in 1 .. Len(history) /\ 1 <= i
        <5>1. Len(history) \in Nat
          BY PauseNumbers
        <5> QED
          BY <5>1
      <4>3. history[1] \in Nat /\ history[i] \in Nat
        <5>1. history \in Seq(Nat)
          BY PauseNumbers
        <5> QED
          BY <4>2, <5>1
      <4>4. history[1] >= Cooldown
        <5>1. Cooldown \in Nat
          BY BreakerAssumption
        <5> QED
          BY <2>1, <4>1, <4>3, <5>1
      <4>5. history[1] <= history[i]
        BY <4>2 DEF PauseInv, Ordered
      <4> QED
        BY <4>3, <4>4, <4>5
    <3>2. Window \in Nat /\ Cooldown \in Nat /\ Window <= Cooldown
      BY BreakerAssumption, CooldownAssumption
    <3> QED
      BY <3>1, <3>2
  <2> QED
    BY <1>1, <2>1 DEF PauseInv, HalfOpen
<1>5. Counted' /\ Paused'
  BY <1>1 DEF PauseInv, Counted, Paused
<1> QED
  BY <1>2, <1>3, <1>4, <1>5 DEF PauseInv

\* Two ages that come closer do so because the older one is counted no further.
LEMMA CappedAges ==
  ASSUME NEW a \in Nat, NEW b \in Nat, NEW w \in Nat, NEW c \in Nat, ~ (b - a < w),
         (IF b < w + c THEN b + 1 ELSE b) - (IF a < w + c THEN a + 1 ELSE a) < w
  PROVE  (IF a < w + c THEN a + 1 ELSE a) >= c
<1>1. CASE b < w + c
  BY <1>1
<1>2. CASE ~ (b < w + c)
  BY <1>2
<1> QED
  BY <1>1, <1>2

\* Time makes all of it older.
LEMMA TickKeeps ==
  ASSUME PauseInv, Tick
  PROVE  PauseInv'
<1> DEFINE Older(h) == IF h < Window + Cooldown THEN h + 1 ELSE h
<1>1. UNCHANGED <<running, hp, halfOpen>>
  BY DEF Tick, Age
<1>2. /\ failures' \in Seq(0 .. Window + 1) /\ Len(failures') = Len(failures)
      /\ \A k \in 1 .. Len(failures) : failures[k] < Window => failures'[k] = failures[k] + 1
  <2> DEFINE S == 0 .. Window + 1
             n == Len(failures)
             F == [i \in 1 .. n |-> IF failures[i] > Window THEN failures[i] ELSE failures[i] + 1]
  <2>1. failures \in [1 .. n -> S] /\ DOMAIN failures = 1 .. n /\ n \in Nat
    BY PauseNumbers
  <2>2. failures' = F
    BY <2>1 DEF Tick, Age
  <2>3. \A i \in 1 .. n : F[i] \in S
    BY <2>1, PauseNumbers
  <2>4. F \in Seq(S) /\ Len(F) = n
    <3> HIDE DEF S
    <3>1. F \in [1 .. n -> S]
      BY <2>3
    <3> HIDE DEF F, n
    <3> QED
      BY <2>1, <3>1
  <2> QED
    BY <2>1, <2>2, <2>3, <2>4, PauseNumbers
<1>3. /\ openFor' \in Int /\ openFor' \in NotOpen .. Cooldown
      /\ openFor' = IF openFor > 0 THEN openFor - 1 ELSE openFor
  BY PauseNumbers DEF Tick, Age, NotOpen
<1>4. /\ history' \in Seq(Nat) /\ Len(history') = Len(history)
      /\ \A i \in 1 .. Len(history) : history[i] \in Nat /\ history'[i] = Older(history[i])
  <2> DEFINE n == Len(history)
             F == [i \in 1 .. n |-> IF history[i] < Window + Cooldown THEN history[i] + 1 ELSE history[i]]
  <2>1. history \in [1 .. n -> Nat] /\ DOMAIN history = 1 .. n /\ n \in Nat
    BY PauseNumbers
  <2>2. history' = F
    BY <2>1 DEF Tick
  <2>3. F \in [1 .. n -> Nat] /\ \A i \in 1 .. n : F[i] = Older(history[i])
    BY <2>1, PauseNumbers
  <2>4. F \in Seq(Nat) /\ Len(F) = n
    <3> HIDE DEF F, n
    <3> QED
      BY <2>1, <2>3
  <2> QED
    BY <2>1, <2>2, <2>3, <2>4
<1>5. PauseTypes'
  <2>1. BreakerTypeOK'
    BY <1>1, <1>2, <1>3, PauseNumbers DEF BreakerTypeOK
  <2> QED
    BY <1>1, <1>4, <2>1, PauseNumbers DEF PauseInv, PauseTypes
<1> HIDE DEF Older
<1>5a. /\ Window \in Nat /\ Cooldown \in Nat /\ Window <= Cooldown
      /\ openFor \in Int /\ Threshold \in Nat /\ Threshold > 0 /\ Len(history) \in Nat /\ Len(failures) \in Nat
  BY PauseNumbers
<1>6. Ordered'
  <2> SUFFICES ASSUME NEW i \in 1 .. Len(history), NEW j \in 1 .. Len(history), i <= j
               PROVE  history'[i] <= history'[j]
    BY <1>4 DEF Ordered
  <2>1. history[i] <= history[j]
    BY DEF PauseInv, Ordered
  <2>2. /\ history[i] \in Nat /\ history'[i] = Older(history[i])
        /\ history[j] \in Nat /\ history'[j] = Older(history[j])
    BY <1>4
  <2> QED
    BY <1>5a, <2>1, <2>2 DEF Older
<1>7. WhileOpen'
  <2>1. SUFFICES ASSUME openFor' >= 0
                 PROVE  /\ failures' = <<>> /\ ~ halfOpen' /\ ~ running'
                        /\ hp' \in {"idle", "ensure", "check"}
                        /\ Len(history') > 0 /\ history'[1] + openFor' >= Cooldown
    BY DEF WhileOpen
  <2>2. openFor >= 0
    BY <1>3, <2>1, <1>5a
  <2>3. /\ failures = <<>> /\ ~ halfOpen /\ ~ running /\ hp \in {"idle", "ensure", "check"}
        /\ Len(history) > 0 /\ history[1] + openFor >= Cooldown
    BY <2>2 DEF PauseInv, WhileOpen
  <2>4. failures' = <<>>
    BY <1>2, <2>3
  <2>5. history'[1] + openFor' >= Cooldown
    <3>1. 1 \in 1 .. Len(history)
      BY <2>3, <1>5a
    <3>2. history[1] \in Nat /\ history'[1] = Older(history[1])
      BY <1>4, <3>1
    <3> QED
      BY <1>3, <1>5a, <2>2, <2>3, <3>2 DEF Older
  <2> QED
    BY <1>1, <1>4, <2>3, <2>4, <2>5
<1>8. HalfOpen'
  <2> SUFFICES ASSUME halfOpen, NEW i \in 1 .. Len(history)
               PROVE  history'[i] >= Window
    BY <1>1, <1>4 DEF HalfOpen
  <2>1. history[i] >= Window
    BY DEF PauseInv, HalfOpen
  <2>2. history[i] \in Nat /\ history'[i] = Older(history[i])
    BY <1>4
  <2> QED
    BY <1>5a, <2>1, <2>2 DEF Older
<1>9. Counted'
  <2>1. CASE openFor = 1
    <3>1. ASSUME NEW i \in 1 .. Len(history') PROVE history'[i] >= Window
      <4>1. 1 \in 1 .. Len(history') /\ 1 <= i /\ openFor' = 0
        BY <1>3, <1>4, <2>1, <1>5a
      <4>2. history'[1] >= Cooldown
        <5>1. history'[1] + openFor' >= Cooldown
          BY <1>7, <4>1 DEF WhileOpen
        <5> QED
          BY <1>4, <4>1, <5>1
      <4>3. history'[1] <= history'[i]
        BY <1>6, <4>1 DEF Ordered
      <4>4. history'[1] \in Nat /\ history'[i] \in Nat
        BY <1>4, <4>1
      <4> QED
        BY <4>2, <4>3, <4>4, <1>5a
    <3>2. \A i \in 1 .. Len(history') : ~ (history'[i] < Window)
      <4> SUFFICES ASSUME NEW i \in 1 .. Len(history') PROVE ~ (history'[i] < Window)
        OBVIOUS
      <4>1. history'[i] \in Nat /\ history'[i] >= Window
        BY <1>4, <3>1
      <4> QED
        BY <4>1, <1>5a
    <3> QED
      BY <3>2 DEF Counted
  <2>2. CASE openFor > 1
    BY <1>3, <2>2, <1>5a DEF Counted
  <2>3. CASE openFor <= 0
    <3> SUFFICES ASSUME NEW i \in 1 .. Len(history'), history'[i] < Window
                 PROVE  Len(failures') >= i /\ failures'[Len(failures') + 1 - i] = history'[i]
      BY DEF Counted
    <3>1. i \in 1 .. Len(history) /\ history[i] \in Nat /\ history'[i] = Older(history[i])
      BY <1>4
    <3>2. history[i] + 1 < Window /\ history'[i] = history[i] + 1
      BY <1>5a, <3>1 DEF Older
    <3>3. Len(failures) >= i /\ failures[Len(failures) + 1 - i] = history[i]
      BY <2>3, <3>1, <3>2, <1>5a DEF PauseInv, Counted
    <3>4. Len(failures) + 1 - i \in 1 .. Len(failures)
      BY <3>1, <3>3, <1>5a
    <3>5. failures'[Len(failures) + 1 - i] = history[i] + 1
      <4>1. failures[Len(failures) + 1 - i] < Window
        BY <1>5a, <3>1, <3>2, <3>3
      <4>2. failures'[Len(failures) + 1 - i] = failures[Len(failures) + 1 - i] + 1
        BY <1>2, <3>4, <4>1
      <4> QED
        BY <3>3, <4>2
    <3> QED
      BY <1>2, <3>2, <3>3, <3>5
  <2> QED
    BY <2>1, <2>2, <2>3, <1>5a
<1>10. Paused'
  <2> SUFFICES ASSUME Len(history') = Threshold, history'[Threshold] - history'[1] < Window,
                      ~ (openFor' > 0)
               PROVE  history'[1] >= Cooldown
    BY DEF Paused
  <2>1. 1 \in 1 .. Len(history) /\ Threshold \in 1 .. Len(history) /\ Len(history) = Threshold
    BY <1>4, <1>5a
  <2>2. /\ history[1] \in Nat /\ history'[1] = Older(history[1])
        /\ history[Threshold] \in Nat /\ history'[Threshold] = Older(history[Threshold])
    BY <1>4, <2>1
  <2>3. CASE openFor = 1
    <3>1. history'[1] + openFor' >= Cooldown /\ openFor' = 0
      BY <1>3, <1>7, <2>3 DEF WhileOpen
    <3> QED
      BY <1>5a, <2>2, <3>1 DEF Older
  <2>4. CASE openFor # 1
    <3>1. ~ (openFor > 0)
      BY <1>3, <2>4, <1>5a
    <3>2. CASE history[Threshold] - history[1] < Window
      <4>1. history[1] >= Cooldown
        BY <2>1, <3>1, <3>2 DEF PauseInv, Paused
      <4> QED
        BY <1>5a, <2>2, <4>1 DEF Older
    <3>3. CASE ~ (history[Threshold] - history[1] < Window)
      BY <1>5a, <2>2, <3>3, CappedAges DEF Older
    <3> QED
      BY <3>2, <3>3
  <2> QED
    BY <2>3, <2>4
<1> QED
  BY <1>5, <1>6, <1>7, <1>8, <1>9, <1>10 DEF PauseInv

\* A breaker without failures is closed.
LEMMA PauseHolds == HostInit => PauseInv
<1> SUFFICES ASSUME HostInit PROVE PauseInv
  OBVIOUS
<1>1. /\ failures = <<>> /\ openFor = NotOpen /\ halfOpen = FALSE
      /\ history = <<>> /\ hp = "idle" /\ running = FALSE
  BY DEF HostInit, BreakerInit
<1>2. /\ failures \in Seq(0 .. Window + 1) /\ Len(failures) = 0
      /\ history \in Seq(Nat) /\ Len(history) = 0
  BY <1>1
<1>3. Threshold > 0 /\ openFor \in NotOpen .. Cooldown /\ Threshold \in Nat
  BY <1>1, BreakerAssumption DEF NotOpen
<1>4. PauseTypes
  <2>1. halfOpen \in BOOLEAN /\ ~ (hp \in {"check", "spawn"})
    BY <1>1
  <2>2. BreakerTypeOK
    BY <1>2, <1>3, <2>1 DEF BreakerTypeOK
  <2> QED
    BY <1>2, <1>3, <2>1, <2>2 DEF PauseTypes
<1>5. Ordered /\ WhileOpen /\ HalfOpen /\ Counted /\ Paused
  BY <1>1, <1>2, <1>3 DEF Ordered, WhileOpen, HalfOpen, Counted, Paused, NotOpen
<1> QED
  BY <1>4, <1>5 DEF PauseInv

\* A call from above does not reach the breaker.
LEMMA CallPauses ==
  ASSUME PauseInv, UNCHANGED <<breakerVars, history, running>>,
         hp' = hp \/ (hp = "idle" /\ hp' = "ensure")
  PROVE  PauseInv'
BY QuietKeeps DEF PauseInv, PauseTypes, WhileOpen

\* What a call does to the breaker, step by step: an open breaker is met in check
\* only, and a host that runs means it is closed.
LEMMA StepPauses ==
  ASSUME PauseInv, HostStep
  PROVE  PauseInv'
<1>1. openFor \in Int /\ (openFor >= 0 \/ openFor < 0)
  BY PauseNumbers
<1>2. openFor >= 0 => ~ running /\ hp \in {"idle", "ensure", "check"}
  BY DEF PauseInv, WhileOpen
<1>3. hp \in {"check", "spawn"} => ~ running
  BY DEF PauseInv, PauseTypes
<1>4. CASE EnsureRunning
  <2>1. CASE running /\ Ready /\ UNCHANGED <<breakerVars, running, history>>
    <3>1. hp' \in {"load", "draw"}
      BY <2>1 DEF Ready
    <3> QED
      BY <1>2, <2>1, <3>1, QuietKeeps
  <2>2. CASE running /\ Discard /\ hp' = "check"
    BY <1>1, <1>2, <2>2, FailureKeeps DEF Discard
  <2>3. CASE ~ running /\ hp' = "check" /\ UNCHANGED <<breakerVars, running, history>>
    BY <2>3, QuietKeeps
  <2> QED
    BY <1>4, <2>1, <2>2, <2>3 DEF EnsureRunning
<1>5. CASE Check
  <2>1. CASE Refuses /\ Return(Error) /\ UNCHANGED <<breakerVars, running, history>>
    BY <1>3, <1>5, <2>1, QuietKeeps DEF Check, Return
  <2>2. CASE Pass /\ hp' = "spawn" /\ UNCHANGED <<running, history>>
    BY <1>5, <2>2, PassKeeps DEF Check
  <2> QED
    BY <1>5, <2>1, <2>2 DEF Check
<1>6. CASE Spawn
  BY <1>2, <1>6, QuietKeeps DEF Spawn
<1>7. CASE SpawnFails
  <2>1. hp' = "idle" /\ ~ running' /\ openFor < 0
    BY <1>1, <1>2, <1>3, <1>7 DEF SpawnFails, Return
  <2> QED
    BY <1>1, <1>7, <2>1, FailureKeeps, QuietKeeps DEF SpawnFails
<1>8. CASE Hello
  BY <1>2, <1>8, QuietKeeps DEF Hello
<1>9. CASE HelloFails \/ ExchangeFails
  BY <1>1, <1>2, <1>9, FailureKeeps DEF HelloFails, ExchangeFails, Discard, Return
<1>10. CASE NotSent
  BY <1>2, <1>10, QuietKeeps DEF NotSent, Return
<1>11. CASE Loads \/ LoadFails \/ Draws \/ DrawFails
  <2>1. /\ RecordSuccess /\ UNCHANGED <<running, history>>
        /\ hp \in {"load", "draw"} /\ hp' \in {"idle", "load", "draw"}
    BY <1>11 DEF Loads, LoadFails, Draws, DrawFails, Return
  <2> QED
    BY <2>1, SuccessKeeps
<1> QED
  BY <1>4, <1>5, <1>6, <1>7, <1>8, <1>9, <1>10, <1>11 DEF HostStep

\* And what goes on beside it.
LEMMA BesidePauses ==
  ASSUME PauseInv, Shutdown \/ HostDies \/ Tick \/ Stabilise \/ UNCHANGED hostVars
  PROVE  PauseInv'
<1>1. CASE Tick
  BY <1>1, TickKeeps
<1>2. CASE Shutdown
  BY <1>2, QuietKeeps DEF Shutdown
<1>3. CASE HostDies \/ Stabilise \/ UNCHANGED hostVars
  BY <1>3, CallPauses DEF HostDies, Stabilise, hostVars
<1> QED
  BY <1>1, <1>2, <1>3

\* Whoever starts a host has found the breaker closed.
LEMMA StartsAreAllowed ==
  ASSUME PauseInv, hp = "spawn"
  PROVE  ~ /\ Len(history) = Threshold
           /\ history[Threshold] - history[1] < Window
           /\ history[1] < Cooldown
<1>1. ~ (openFor > 0)
  BY PauseNumbers DEF PauseInv, WhileOpen
<1> SUFFICES ASSUME Len(history) = Threshold, history[Threshold] - history[1] < Window,
                    history[1] < Cooldown
             PROVE  FALSE
  OBVIOUS
<1>2. history[1] >= Cooldown
  BY <1>1 DEF PauseInv, Paused
<1>3. history[1] \in Nat
  BY PauseNumbers
<1> QED
  BY <1>2, <1>3, PauseNumbers

\* There is no other way to start one.
LEMMA OnlySpawnStarts ==
  ASSUME HostStep \/ Shutdown \/ HostDies \/ Tick \/ Stabilise, ~ running, running'
  PROVE  hp = "spawn"
BY DEF HostStep, EnsureRunning, Check, Spawn, SpawnFails, Hello, HelloFails, NotSent, ExchangeFails,
       Loads, LoadFails, Draws, DrawFails, Discard, Shutdown, HostDies, Tick, Stabilise

\* RENDER-4: after Threshold counted failures within the window no host is started
\* for the cooldown, however the calls in between ended (CircuitBreaker).
THEOREM HostsPause == HostSpec => RestartsPause
<1>1. PauseInv /\ [HostNext]_hostVars => PauseInv'
  BY CallPauses, StepPauses, BesidePauses DEF HostNext, Call
<1>2. PauseInv /\ [HostNext]_hostVars =>
        [~ running /\ running' =>
           ~ /\ Len(history) = Threshold
             /\ history[Threshold] - history[1] < Window
             /\ history[1] < Cooldown]_hostVars
  <2>1. ASSUME PauseInv, HostNext, ~ running, running' PROVE hp = "spawn"
    <3>1. CASE \E do \in {"load", "draw"}, url \in Urls : Call(do, url)
      BY <2>1, <3>1 DEF Call
    <3> QED
      BY <2>1, <3>1, OnlySpawnStarts DEF HostNext
  <2> QED
    BY <2>1, StartsAreAllowed
<1> QED
  BY <1>1, <1>2, PauseHolds, PTL DEF HostSpec, RestartsPause

-----------------------------------------------------------------------------
(* The types                                                               *)

Replies == [is : {"loaded", "drawn"}, url : Urls, allowed : BOOLEAN] \cup {NoReply, Error, Rejected}

\* The types the invariants above leave open.
Kinds ==
  /\ running \in BOOLEAN /\ alive \in BOOLEAN /\ stable \in BOOLEAN
  /\ hp \in {"idle", "ensure", "check", "spawn", "hello", "load", "draw"}
  /\ engine \in {"none", "up", "failed"}
  /\ reply \in Replies

\* Ages are counted up to this number.
Bounded == \A i \in 1 .. Len(history) : history[i] <= Window + Cooldown

HostTypes == HostInv /\ PauseInv /\ Kinds /\ Bounded

\* This is what HostTypeOK asks for.
LEMMA HostTypesSuffice == HostTypes => HostTypeOK
<1> SUFFICES ASSUME HostTypes PROVE HostTypeOK
  OBVIOUS
<1>1. history \in Seq(0 .. Window + Cooldown)
  <2> DEFINE S == 0 .. Window + Cooldown
             n == Len(history)
  <2>1. history \in [1 .. n -> Nat] /\ n \in Nat
    BY PauseNumbers DEF HostTypes
  <2>2. \A i \in 1 .. n : history[i] \in S
    BY <2>1, PauseNumbers DEF HostTypes, Bounded
  <2> HIDE DEF S, n
  <2>3. history \in [1 .. n -> S]
    BY <2>1, <2>2
  <2>4. history \in Seq(S)
    BY <2>1, <2>3
  <2> QED
    BY <2>4 DEF S
<1>2. Len(history) <= Threshold /\ BreakerTypeOK
  BY DEF HostTypes, PauseInv, PauseTypes
<1> QED
  BY <1>1, <1>2 DEF HostTypes, HostTypeOK, HostInv, PageTypes, Record, View, Kinds, Replies

\* Where a process begins.
LEMMA HostTypesHold == HostInit => HostTypes
<1> SUFFICES ASSUME HostInit PROVE HostTypes
  OBVIOUS
<1>1. HostInv
  BY DEF HostInit, HostInv, PageTypes, RecordMatchesHost
<1>2. Kinds
  BY DEF HostInit, Kinds, Replies
<1>3. Bounded
  BY DEF HostInit, Bounded
<1> QED
  BY <1>1, <1>2, <1>3, PauseHolds DEF HostTypes

\* Only a failure and time change the history.
LEMMA StaysBounded ==
  ASSUME HostTypes, UNCHANGED history \/ Failure \/ Tick
  PROVE  Bounded'
<1> USE DEF HostTypes
<1>1. CASE UNCHANGED history
  BY <1>1 DEF Bounded
<1>2. CASE Failure
  <2> DEFINE m == IF Len(history) < Threshold THEN Len(history) + 1 ELSE Threshold
  <2>1. /\ Len(history') = m /\ m >= 1 /\ history'[1] = 0
        /\ \A i \in 2 .. m : i - 1 \in 1 .. Len(history) /\ history'[i] = history[i - 1]
    BY <1>2, Remembered DEF PauseInv
  <2>2. m \in Int
    BY PauseNumbers
  <2> HIDE DEF m
  <2>3. ASSUME NEW i \in 1 .. m PROVE history'[i] <= Window + Cooldown
    <3>1. CASE i = 1
      BY <2>1, <3>1, PauseNumbers
    <3>2. CASE i # 1
      <4>1. i \in 2 .. m
        BY <2>2, <3>2
      <4> QED
        BY <2>1, <4>1 DEF Bounded
    <3> QED
      BY <3>1, <3>2
  <2> QED
    BY <2>1, <2>3 DEF Bounded
<1>3. CASE Tick
  <2>1. history' = [i \in 1 .. Len(history) |->
                      IF history[i] < Window + Cooldown THEN history[i] + 1 ELSE history[i]]
    BY <1>3, PauseNumbers DEF Tick
  <2>2. Len(history') = Len(history)
    BY <2>1, PauseNumbers
  <2> SUFFICES ASSUME NEW i \in 1 .. Len(history) PROVE history'[i] <= Window + Cooldown
    BY <2>2 DEF Bounded
  <2>3. history[i] \in Nat /\ history[i] <= Window + Cooldown /\ Window \in Nat /\ Cooldown \in Nat
    BY PauseNumbers DEF Bounded
  <2>4. history'[i] = IF history[i] < Window + Cooldown THEN history[i] + 1 ELSE history[i]
    BY <2>1
  <2> QED
    BY <2>3, <2>4
<1> QED
  BY <1>1, <1>2, <1>3

\* A step of a call.
LEMMA StepTypes ==
  ASSUME HostTypes, HostStep
  PROVE  HostTypes'
<1> USE DEF HostTypes
<1>1. HostInv' /\ PauseInv'
  BY StepKeeps, StepPauses
<1>2. Bounded'
  <2>1. UNCHANGED history \/ Failure
    BY DEF HostStep, EnsureRunning, Check, Spawn, SpawnFails, Hello, HelloFails, NotSent, ExchangeFails,
           Loads, LoadFails, Draws, DrawFails, Discard
  <2> QED
    BY <2>1, StaysBounded
<1>3. Kinds'
  <2>1. CASE EnsureRunning
    BY <2>1 DEF Kinds, Replies, EnsureRunning, Ready, Discard, NoChild, childVars
  <2>2. CASE Check
    BY <2>2 DEF Kinds, Replies, Check, Return, childVars
  <2>3. CASE Spawn \/ Hello
    BY <2>3 DEF Kinds, Replies, Spawn, Hello, childVars
  <2>4. CASE SpawnFails \/ NotSent
    BY <2>4 DEF Kinds, Replies, SpawnFails, NotSent, Return, childVars
  <2>5. CASE HelloFails \/ ExchangeFails
    BY <2>5 DEF Kinds, Replies, HelloFails, ExchangeFails, Discard, NoChild, Return
  <2>6. CASE Loads
    <3>1. op.url \in Urls
      <4>1. op \in [do : {"load", "draw"}, url : Urls]
        BY <2>6 DEF Loads, HostInv, PageTypes
      <4> QED
        BY <4>1
    <3>2. PICK allowed \in BOOLEAN :
            \/ hp' = "idle" /\ reply' = [is |-> "loaded", url |-> op.url, allowed |-> allowed]
            \/ hp' = "draw" /\ UNCHANGED reply
            \/ hp' = "idle" /\ reply' = Rejected
      BY <2>6 DEF Loads, Return
    <3>3. [is |-> "loaded", url |-> op.url, allowed |-> allowed] \in Replies
      BY <3>1 DEF Replies
    <3>4. reply' \in Replies /\ hp' \in {"idle", "draw"}
      BY <3>2, <3>3 DEF Kinds, Replies
    <3> QED
      BY <2>6, <3>4 DEF Kinds, Loads
  <2>7. CASE LoadFails \/ DrawFails
    BY <2>7 DEF Kinds, Replies, LoadFails, DrawFails, Return
  <2>8. CASE Draws
    <3>1. shown \in View
      BY <2>8 DEF Draws, HostInv, PageTypes
    <3>2. shown.url \in Urls /\ shown.allowed \in BOOLEAN
      BY <3>1 DEF View
    <3>3. reply' \in Replies /\ hp' = "idle"
      BY <2>8, <3>2 DEF Draws, Return, Replies
    <3> QED
      BY <2>8, <3>3 DEF Kinds, Draws, childVars
  <2> QED
    BY <2>1, <2>2, <2>3, <2>4, <2>5, <2>6, <2>7, <2>8 DEF HostStep
<1> QED
  BY <1>1, <1>2, <1>3

\* A step beside it.
LEMMA BesideTypes ==
  ASSUME HostTypes, Shutdown \/ HostDies \/ Tick \/ Stabilise \/ UNCHANGED hostVars
  PROVE  HostTypes'
<1> USE DEF HostTypes
<1>1. HostInv' /\ PauseInv'
  BY BesideKeeps, BesidePauses
<1>2. Bounded'
  BY StaysBounded DEF Shutdown, HostDies, Stabilise, hostVars
<1>3. Kinds'
  BY DEF Kinds, Replies, Shutdown, HostDies, Tick, Stabilise, NoChild, childVars, hostVars
<1> QED
  BY <1>1, <1>2, <1>3

-----------------------------------------------------------------------------
(* The gate and the calls *)

\* The gate takes a page for loaded only as long as it is the page on record,
\* and a call works on a page that was on record since it began.
NavInv ==
  /\ NavTypeOK
  /\ gate \in Int /\ gate <= Generation
  /\ wantGen \in Int /\ wantGen <= Generation
  /\ undecided => Page = NoPage
  /\ gate = Generation => ~ undecided /\ current \in {Page, NoUrl}
  /\ current \in Urls \cup {NoUrl}
  /\ pc # "idle" => Page \in seen
  /\ pc \in {"load", "loading"} =>
       want \in seen /\ (wantGen = Generation => ~ undecided /\ Page = want)
  /\ pc = "loading" => current = NoUrl /\ want \in Urls
  /\ pc \in {"draw", "drawing"} => current \in seen \cup {NoUrl}
  /\ pc = "drawing" => current # NoUrl

\* A page in the host that is not allowed, and would not be loaded again.
Bad == /\ shown # NoUrl /\ shown.allowed # TRUE
       /\ loaded # NoUrl /\ loaded.nav

\* The host process works for the call that is under way, what it is about to
\* draw is the page of this call, and a page that is not allowed is not drawn.
CallInv ==
  /\ hp # "idle" => pc \in {"loading", "drawing"}
  /\ pc = "loading" /\ hp # "idle" => op.do = "load" /\ (loaded = NoUrl \/ ~ loaded.nav)
  /\ pc = "drawing" /\ hp # "idle" => op.do = "draw" /\ op.url = current
  /\ hp = "draw" => op.do = "draw" /\ (shown # NoUrl => shown.url = op.url /\ shown.allowed = TRUE)
  /\ pc = "drawing" /\ hp = "idle" /\ reply.is = "drawn" => reply.url = current /\ reply.allowed = TRUE
  /\ Bad => current = NoUrl /\ (pc = "loading" => reply.is # "loaded" \/ ~ reply.allowed)

RInv == HostInv /\ NavInv /\ CallInv

-----------------------------------------------------------------------------
\* The shared sequence is the only one.
LEMMA SharedTypes ==
  ASSUME NavTypeOK
  PROVE  /\ generation \in [{Shared} -> 0 .. MaxGen] /\ latest \in [{Shared} -> Pages \cup {NoPage}]
         /\ Generation \in Nat /\ Page \in Pages \cup {NoPage}
BY RenderingAssumption, MaxGenAssumption DEF NavTypeOK, Generation, Page

\* A navigation makes every generation the gate knows of an old one, and what
\* it puts on record has been seen by the call under way.
LEMMA NavigationKeeps ==
  ASSUME NavInv, Begin \/ Commit \/ Clear
  PROVE  NavInv'
<1>1. /\ generation \in [{Shared} -> 0 .. MaxGen] /\ latest \in [{Shared} -> Pages \cup {NoPage}]
      /\ Generation \in Nat
  BY SharedTypes DEF NavInv
<1>2. UNCHANGED <<gate, current, pc, want, wantGen>>
  BY DEF Begin, Commit, Clear, Beside
<1>3. seen' = IF pc = "idle" THEN seen ELSE seen \cup {Page'}
  BY DEF Begin, Commit, Clear, Beside, Witness, Page
<1>4. CASE Begin
  <2>1. Generation' = Generation + 1 /\ Page' = NoPage /\ undecided'
    BY <1>1, <1>4 DEF Begin, BeginNavigation, Generation, Page
  <2>2. NavTypeOK'
    BY <1>1, <1>4, RenderingAssumption, MaxGenAssumption DEF Begin, BeginNavigation, NavTypeOK
  <2> QED
    BY <1>1, <1>2, <1>3, <2>1, <2>2 DEF NavInv
<1>5. CASE Commit
  <2>1. PICK p \in Pages : CommitNavigation(Shared, p)
    BY <1>5 DEF Commit
  <2>2. Generation' = Generation /\ Page' = p /\ undecided /\ ~ undecided'
    BY <1>1, <1>5, <2>1 DEF Commit, CommitNavigation, Generation, Page
  <2>3. NavTypeOK'
    BY <1>1, <2>1, RenderingAssumption DEF CommitNavigation, NavTypeOK
  <2>4. gate # Generation /\ (pc \in {"load", "loading"} => wantGen # Generation)
    BY <2>2 DEF NavInv
  <2> QED
    BY <1>1, <1>2, <1>3, <2>2, <2>3, <2>4 DEF NavInv
<1>6. CASE Clear
  <2>1. PICK p \in Pages \ Urls : ClearNavigation(Shared, p)
    BY <1>6 DEF Clear
  <2>2. Generation' = Generation + 1 /\ Page' = p /\ ~ undecided'
    BY <1>1, <1>6, <2>1 DEF Clear, ClearNavigation, Generation, Page
  <2>3. NavTypeOK'
    BY <1>1, <2>1, RenderingAssumption, MaxGenAssumption DEF ClearNavigation, NavTypeOK
  <2> QED
    BY <1>1, <1>2, <1>3, <2>2, <2>3 DEF NavInv
<1> QED
  BY <1>4, <1>5, <1>6

\* The steps of a call above the host process.
Above == Start \/ Snapshot \/ LoadPage \/ Loaded \/ DrawPage \/ Drawn

\* A call asks for the page of its snapshot only, and the gate records the
\* generation of this snapshot.
LEMMA AboveKeepsNav ==
  ASSUME NavInv, Above
  PROVE  NavInv'
<1>1. NavTypeOK' /\ Generation \in Nat /\ UNCHANGED <<generation, latest, undecided>>
  BY SharedTypes DEF NavInv, Above, Start, Snapshot, LoadPage, Loaded, DrawPage, Drawn, navVars, NavTypeOK
<1>2. Generation' = Generation /\ Page' = Page
  BY <1>1 DEF Generation, Page
<1>3. CASE Start
  BY <1>1, <1>2, <1>3 DEF NavInv, Start
<1>4. CASE Snapshot
  BY <1>1, <1>2, <1>4 DEF NavInv, Snapshot, Answer, NoGen
<1>5. CASE LoadPage
  BY <1>1, <1>2, <1>5 DEF NavInv, LoadPage, Answer, NoGen
<1>6. CASE Loaded
  BY <1>1, <1>2, <1>6 DEF NavInv, Loaded, Answer, NoGen
<1>7. CASE DrawPage
  BY <1>1, <1>2, <1>7 DEF NavInv, DrawPage, Answer, NoGen
<1>8. CASE Drawn
  BY <1>1, <1>2, <1>8 DEF NavInv, Drawn, Answer, NoGen
<1> QED
  BY <1>3, <1>4, <1>5, <1>6, <1>7, <1>8 DEF Above

-----------------------------------------------------------------------------
\* The host process, as seen from a call above.
LEMMA AboveKeepsHost ==
  ASSUME RInv, Above
  PROVE  HostInv'
<1>1. CASE Start \/ Snapshot \/ Loaded \/ Drawn
  BY <1>1, BesideKeeps DEF RInv, Start, Snapshot, Loaded, Drawn
<1>2. CASE LoadPage
  <2>1. CASE Call("load", want) /\ want \in Urls
    BY <2>1, CallKeeps DEF RInv
  <2>2. CASE loaded' = (IF loaded = NoUrl THEN NoUrl ELSE [loaded EXCEPT !.nav = FALSE])
             /\ UNCHANGED <<breakerVars, running, op, hp, reply, childVars, stable, history>>
    <3>1. loaded' \in Record \cup {NoUrl} /\ (loaded' # NoUrl => loaded # NoUrl /\ loaded'.url = loaded.url)
      BY <2>2 DEF RInv, HostInv, PageTypes, Record
    <3> QED
      BY <2>2, <3>1 DEF RInv, HostInv, PageTypes, RecordMatchesHost, childVars
  <2> QED
    BY <1>2, <2>1, <2>2 DEF LoadPage
<1>3. CASE DrawPage
  <2>1. CASE Call("draw", current) /\ current # NoUrl
    BY <2>1, CallKeeps DEF RInv, NavInv
  <2>2. CASE UNCHANGED hostVars
    BY <2>2, BesideKeeps DEF RInv
  <2> QED
    BY <1>3, <2>1, <2>2 DEF DrawPage
<1> QED
  BY <1>1, <1>2, <1>3 DEF Above

\* A call is handed to the process for the page the call is about; what is not
\* allowed is not taken for the current page.
LEMMA AboveKeepsCall ==
  ASSUME RInv, Above
  PROVE  CallInv'
<1>1. CASE Start
  BY <1>1 DEF RInv, CallInv, Bad, Start, hostVars, childVars
<1>2. CASE Snapshot
  BY <1>2 DEF RInv, CallInv, Bad, Snapshot, Answer, hostVars, childVars
<1>3. CASE LoadPage
  <2>1. /\ loaded' = IF loaded # NoUrl THEN [loaded EXCEPT !.nav = FALSE] ELSE loaded
        /\ UNCHANGED <<shown>>
    BY <1>3 DEF LoadPage, Call, childVars
  <2>2. loaded' = NoUrl \/ ~ loaded'.nav
    BY <2>1 DEF RInv, HostInv, PageTypes, Record
  <2>3. hp = "idle" /\ ~ Bad'
    BY <1>3, <2>2 DEF RInv, CallInv, LoadPage, Bad
  <2>4. CASE Call("load", want) /\ pc' = "loading"
    <3>1. hp' = "ensure" /\ op'.do = "load"
      BY <2>4 DEF Call
    <3> QED
      BY <2>2, <2>3, <2>4, <3>1 DEF CallInv
  <2>5. CASE pc' = "idle" /\ hp' = hp
    BY <2>3, <2>5 DEF CallInv
  <2> QED
    BY <1>3, <2>4, <2>5 DEF LoadPage, Answer
<1>4. CASE Loaded
  BY <1>4 DEF RInv, CallInv, Bad, Loaded, Answer, hostVars, childVars, NavInv
<1>5. CASE DrawPage
  <2>1. hp = "idle" /\ current' = current
    BY <1>5 DEF RInv, CallInv, DrawPage
  <2>2. CASE Call("draw", current) /\ current # NoUrl /\ pc' = "drawing"
    <3>1. /\ hp' = "ensure" /\ op'.do = "draw" /\ op'.url = current
          /\ UNCHANGED <<loaded, shown>>
      BY <2>2 DEF Call, childVars
    <3>2. ~ Bad'
      BY <2>2, <3>1 DEF RInv, CallInv, Bad
    <3> QED
      BY <2>1, <2>2, <3>1, <3>2 DEF CallInv
  <2>3. CASE pc' = "idle" /\ UNCHANGED hostVars
    <3>1. hp' = hp /\ Bad' = Bad
      BY <2>3 DEF hostVars, childVars, Bad
    <3> QED
      BY <2>1, <2>3, <3>1 DEF RInv, CallInv
  <2> QED
    BY <1>5, <2>2, <2>3 DEF DrawPage, Answer
<1>6. CASE Drawn
  BY <1>6 DEF RInv, CallInv, Bad, Drawn, Answer, hostVars, childVars
<1> QED
  BY <1>1, <1>2, <1>3, <1>4, <1>5, <1>6 DEF Above

\* So does the process in every step of an exchange.
LEMMA StepKeepsCall ==
  ASSUME RInv, HostStep, UNCHANGED <<current, pc>>
  PROVE  CallInv'
<1> USE DEF RInv
<1>1. CASE EnsureRunning
  <2>1. CASE (running /\ ~ alive) \/ ~ running
    BY <1>1, <2>1 DEF EnsureRunning, Discard, NoChild, CallInv, Bad, childVars
  <2>2. CASE running /\ alive
    <3>1. hp = "ensure" /\ Ready /\ UNCHANGED <<loaded, shown, op, reply>>
      BY <1>1, <2>2 DEF EnsureRunning, childVars
    <3>2. CASE hp' = "load"
      BY <3>1, <3>2 DEF CallInv, Bad
    <3>3. CASE hp' = "draw" /\ op.do # "load" /\ ~ NeedsReload
      <4>1. pc = "drawing" /\ op.do = "draw" /\ loaded # NoUrl /\ loaded.url = op.url /\ loaded.nav
        BY <3>1, <3>3 DEF CallInv, NeedsReload
      <4>2. ~ Bad
        BY <4>1 DEF CallInv, NavInv
      <4>3. shown # NoUrl => shown.url = op.url /\ shown.allowed = TRUE
        BY <4>1, <4>2 DEF HostInv, RecordMatchesHost, Bad
      <4> QED
        BY <3>1, <3>3, <4>1, <4>3 DEF CallInv, Bad
    <3> QED
      BY <3>1, <3>2, <3>3 DEF Ready
  <2> QED
    BY <2>1, <2>2, <1>1 DEF EnsureRunning
<1>2. CASE Check
  BY <1>2 DEF Check, Return, Error, NoReply, CallInv, Bad, childVars
<1>3. CASE Spawn
  BY <1>3 DEF Spawn, CallInv, Bad
<1>4. CASE SpawnFails
  BY <1>4 DEF SpawnFails, Return, Error, NoReply, CallInv, Bad, childVars
<1>5. CASE Hello
  <2>1. loaded' = NoUrl \/ (loaded # NoUrl /\ loaded'.nav = loaded.nav)
    BY <1>5 DEF Hello, HostInv, PageTypes, Record
  <2> QED
    BY <1>5, <2>1 DEF Hello, CallInv, Bad, childVars
<1>6. CASE HelloFails \/ ExchangeFails
  BY <1>6 DEF HelloFails, ExchangeFails, Discard, NoChild, Return, Error, NoReply, CallInv, Bad
<1>7. CASE NotSent
  BY <1>7 DEF NotSent, Return, Error, NoReply, CallInv, Bad, childVars
<1>8. CASE Loads
  <2>1. PICK allowed \in BOOLEAN :
          /\ shown' = [url |-> op.url, allowed |-> allowed]
          /\ op.do = "load" \/ allowed \/ loaded' = NoUrl
          /\ \/ /\ op.do = "load" /\ hp' = "idle"
                /\ reply' = [is |-> "loaded", url |-> op.url, allowed |-> allowed]
             \/ op.do = "draw" /\ allowed /\ hp' = "draw" /\ UNCHANGED <<op, reply>>
             \/ op.do = "draw" /\ ~ allowed /\ hp' = "idle" /\ reply' = Rejected
    BY <1>8 DEF Loads, Return
  <2>2. hp = "load"
    BY <1>8 DEF Loads
  <2>3. CASE op.do = "load"
    <3>1. pc = "loading" /\ current = NoUrl
      BY <2>2, <2>3 DEF CallInv, NavInv
    <3>2. hp' = "idle" /\ reply'.allowed = allowed
      BY <2>1, <2>3
    <3>3. Bad' => ~ allowed
      BY <2>1 DEF Bad
    <3> QED
      BY <3>1, <3>2, <3>3 DEF CallInv
  <2>4. CASE op.do = "draw" /\ allowed
    BY <2>1, <2>2, <2>4 DEF CallInv, Bad
  <2>5. CASE op.do = "draw" /\ ~ allowed
    BY <2>1, <2>2, <2>5 DEF CallInv, Bad, Rejected, NoReply
  <2> QED
    BY <2>1, <2>3, <2>4, <2>5
<1>9. CASE LoadFails
  BY <1>9 DEF LoadFails, Return, Error, NoReply, CallInv, Bad
<1>10. CASE Draws
  BY <1>10 DEF Draws, Return, CallInv, Bad, childVars
<1>11. CASE DrawFails
  BY <1>11 DEF DrawFails, Return, Error, NoReply, CallInv, Bad
<1> QED
  BY <1>1, <1>2, <1>3, <1>4, <1>5, <1>6, <1>7, <1>8, <1>9, <1>10, <1>11 DEF HostStep

-----------------------------------------------------------------------------
\* The three parts are inductive together.
LEMMA RInvInductive ==
  /\ Init => RInv
  /\ RInv /\ [Next]_vars => RInv'
<1>1. Init => RInv
  BY RenderingAssumption, MaxGenAssumption, NoUrlAssumption
  DEF Init, HostInit, NavInit, RInv, HostInv, PageTypes, RecordMatchesHost, NavInv, NavTypeOK,
      CallInv, Bad, Generation, Page, NoGen, NoReply
<1>2. ASSUME RInv, [Next]_vars PROVE RInv'
  <2>1. CASE Begin \/ Commit \/ Clear
    <3>1. UNCHANGED hostVars /\ UNCHANGED <<current, pc>>
      BY <2>1 DEF Begin, Commit, Clear, Beside
    <3> QED
      BY <1>2, <2>1, <3>1, NavigationKeeps, BesideKeeps DEF RInv, CallInv, Bad, hostVars, childVars
  <2>2. CASE Above
    BY <1>2, <2>2, AboveKeepsNav, AboveKeepsHost, AboveKeepsCall DEF RInv
  <2>3. CASE HostStep /\ Below
    BY <1>2, <2>3, StepKeeps, StepKeepsCall
    DEF RInv, NavInv, NavTypeOK, Below, navVars, callVars, Generation, Page
  <2>4. CASE (HostDies \/ Tick \/ Stabilise) /\ Below
    <3>1. HostInv'
      BY <1>2, <2>4, BesideKeeps DEF RInv
    <3>2. NavInv'
      BY <1>2, <2>4 DEF RInv, NavInv, NavTypeOK, Below, navVars, callVars, Generation, Page
    <3>3. CallInv'
      BY <1>2, <2>4 DEF RInv, CallInv, Bad, Below, callVars, HostDies, Tick, Stabilise, NoChild, childVars
    <3> QED
      BY <3>1, <3>2, <3>3 DEF RInv
  <2>5. CASE UNCHANGED vars
    <3>1. HostInv'
      BY <1>2, <2>5, BesideKeeps DEF RInv, vars
    <3>2. NavInv'
      BY <1>2, <2>5 DEF RInv, NavInv, NavTypeOK, vars, navVars, callVars, Generation, Page
    <3>3. CallInv'
      BY <1>2, <2>5 DEF RInv, CallInv, Bad, vars, hostVars, callVars, childVars
    <3> QED
      BY <3>1, <3>2, <3>3 DEF RInv
  <2> QED
    BY <1>2, <2>1, <2>2, <2>3, <2>4, <2>5 DEF Next, CallStep, Above
<1> QED
  BY <1>1, <1>2

\* As long as the gate takes the recorded page for loaded, HostRenderer's
\* current page is this page or none (RenderGate::with_page).
THEOREM GateStaysInAgreement == Spec => []GateAgrees
<1>1. RInv => GateAgrees
  BY DEF RInv, NavInv, GateAgrees
<1> QED
  BY <1>1, RInvInductive, PTL DEF Spec

\* RENDER-3: see RenderContract.
THEOREM RenderingImplementsContract == Spec => ImplementsContract
<1>1. Init => Contract!Init
  BY RenderingAssumption, NoUrlAssumption DEF Init, NavInit, Contract!Init, Page
<1>2. ASSUME RInv, [Next]_vars PROVE [Contract!Next]_(Contract!vars)
  <2> USE <1>2 DEF Contract!Next, Contract!vars
  <2>1. CASE Begin \/ Commit \/ Clear
    <3>1. latest' \in [{Shared} -> Pages \cup {NoPage}] /\ UNCHANGED <<pc, answer>>
      BY <2>1, NavigationKeeps, RenderingAssumption DEF RInv, NavInv, NavTypeOK, Begin, Commit, Clear, Beside
    <3>2. Page' \in Pages \cup {NoPage}
      BY <3>1 DEF Page
    <3>3. seen' = IF pc # "idle" THEN seen \cup {Page'} ELSE seen
      BY <2>1 DEF Begin, Commit, Clear, Beside, Witness, Page
    <3> QED
      BY <3>1, <3>2, <3>3 DEF Contract!Navigate
  <2>2. CASE Start
    BY <2>2 DEF Start, Contract!Begin, navVars, Page
  <2>3. ASSUME UNCHANGED navVars, pc # "idle",
               \/ UNCHANGED <<answer, seen>> /\ pc' # "idle"
               \/ Answer(Error)
        PROVE  [Contract!Next]_(Contract!vars)
    BY <2>3 DEF navVars, Page, Answer, Contract!Answer
  <2>4. CASE Snapshot \/ LoadPage \/ Loaded \/ DrawPage
    BY <2>3, <2>4 DEF Snapshot, LoadPage, Loaded, DrawPage
  <2>5. CASE Drawn
    <3>1. CASE Answer(Error)
      BY <2>3, <2>5, <3>1 DEF Drawn
    <3>2. CASE reply.is = "drawn" /\ Answer([url |-> reply.url, allowed |-> reply.allowed])
      <4>1. reply.url \in seen \cap Urls /\ reply.allowed = TRUE
        BY <2>5, <3>2 DEF Drawn, RInv, NavInv, CallInv
      <4>2. [url |-> reply.url, allowed |-> reply.allowed] \in [url : seen \cap Urls, allowed : {TRUE}]
        BY <4>1
      <4> QED
        BY <2>5, <3>2, <4>2 DEF Drawn, Answer, Contract!Answer, navVars, Page
    <3> QED
      BY <2>5, <3>1, <3>2 DEF Drawn
  <2>6. CASE (HostStep \/ HostDies \/ Tick \/ Stabilise) /\ Below
    BY <2>6 DEF Below, navVars, callVars, Page
  <2>7. CASE UNCHANGED vars
    BY <2>7 DEF vars, navVars, callVars, Page
  <2> QED
    BY <2>1, <2>2, <2>4, <2>5, <2>6, <2>7 DEF Next, CallStep
<1> QED
  BY <1>1, <1>2, RInvInductive, PTL DEF Spec, ImplementsContract, Contract!Spec

-----------------------------------------------------------------------------
(* The types, and the pauses of the process below                          *)

\* The types of the calls that the invariants above leave open.
CallKinds ==
  /\ undecided \in BOOLEAN
  /\ gate >= NoGen /\ wantGen >= NoGen
  /\ pc \in {"idle", "gate", "load", "loading", "draw", "drawing"}
  /\ want \in Pages \cup {NoPage}
  /\ answer \in {NoAnswer, Error} \cup View
  /\ seen \subseteq Pages \cup {NoPage}

Types == RInv /\ HostTypes /\ CallKinds

\* A call handed to the process leaves the types alone.
LEMMA CallTypes ==
  ASSUME HostTypes, NEW do \in {"load", "draw"}, NEW url \in Urls, Call(do, url)
  PROVE  HostTypes'
<1>1. HostInv'
  BY CallKeeps DEF HostTypes
<1>2. PauseInv'
  BY CallPauses DEF HostTypes, Call
<1>3. Kinds' /\ Bounded'
  BY DEF HostTypes, Call, Kinds, Replies, Bounded, childVars
<1> QED
  BY <1>1, <1>2, <1>3 DEF HostTypes

\* The steps above the process either call it or leave it alone.
LEMMA AboveKeepsTypes ==
  ASSUME Types, Above
  PROVE  HostTypes'
<1>1. CASE Start \/ Snapshot \/ Loaded \/ Drawn
  BY <1>1, BesideTypes DEF Types, Start, Snapshot, Loaded, Drawn
<1>2. CASE LoadPage
  <2>1. CASE Call("load", want) /\ want \in Urls
    BY <2>1, CallTypes DEF Types
  <2>2. CASE UNCHANGED <<breakerVars, running, op, hp, reply, childVars, stable, history>>
    <3>1. HostInv'
      BY <1>2, AboveKeepsHost DEF Types, Above
    <3>2. PauseInv'
      BY <2>2, CallPauses DEF Types, HostTypes
    <3>3. Kinds' /\ Bounded'
      BY <2>2 DEF Types, HostTypes, Kinds, Replies, Bounded, childVars
    <3> QED
      BY <3>1, <3>2, <3>3 DEF HostTypes
  <2> QED
    BY <1>2, <2>1, <2>2 DEF LoadPage
<1>3. CASE DrawPage
  <2>1. CASE Call("draw", current) /\ current # NoUrl
    BY <2>1, CallTypes DEF Types, RInv, NavInv
  <2>2. CASE UNCHANGED hostVars
    BY <2>2, BesideTypes DEF Types
  <2> QED
    BY <1>3, <2>1, <2>2 DEF DrawPage
<1> QED
  BY <1>1, <1>2, <1>3 DEF Above

\* What they do to the call.
LEMMA AboveKeepsKinds ==
  ASSUME Types, Above
  PROVE  CallKinds'
<1> USE DEF CallKinds
<1>1. /\ Page \in Pages \cup {NoPage} /\ Generation \in Nat
      /\ gate \in Int /\ wantGen \in Int /\ CallKinds
  BY SharedTypes DEF Types, RInv, NavInv
<1>2. CASE Start
  BY <1>1, <1>2 DEF Start
<1>3. CASE Snapshot
  BY <1>1, <1>3 DEF Snapshot, Answer, NoGen
<1>4. CASE LoadPage
  BY <1>1, <1>4 DEF LoadPage, Answer, NoGen
<1>5. CASE Loaded
  BY <1>1, <1>5 DEF Loaded, Answer, NoGen
<1>6. CASE DrawPage
  BY <1>1, <1>6 DEF DrawPage, Answer, NoGen
<1>7. CASE Drawn
  <2>1. CASE Answer(Error)
    BY <1>1, <1>7, <2>1 DEF Drawn, Answer, NoGen
  <2>2. CASE reply.is = "drawn" /\ Answer([url |-> reply.url, allowed |-> reply.allowed])
    <3>1. reply \in [is : {"loaded", "drawn"}, url : Urls, allowed : BOOLEAN]
      BY <2>2 DEF Types, HostTypes, Kinds, Replies, NoReply, Error, Rejected
    <3>2. [url |-> reply.url, allowed |-> reply.allowed] \in View
      BY <3>1 DEF View
    <3> QED
      BY <1>1, <1>7, <2>2, <3>2 DEF Drawn, Answer, NoGen
  <2> QED
    BY <1>7, <2>1, <2>2 DEF Drawn
<1> QED
  BY <1>2, <1>3, <1>4, <1>5, <1>6, <1>7 DEF Above

\* The types are inductive with the invariants above.
LEMMA TypesInductive ==
  /\ Init => Types
  /\ Types /\ [Next]_vars => Types'
<1>1. ASSUME Init PROVE Types
  <2>1. HostTypes
    BY <1>1, HostTypesHold DEF Init
  <2>2. CallKinds
    <3>1. gate >= NoGen /\ wantGen >= NoGen
      BY <1>1 DEF Init, NoGen
    <3> QED
      BY <1>1, <3>1 DEF Init, CallKinds
  <2> QED
    BY <1>1, <2>1, <2>2, RInvInductive DEF Types
<1>2. ASSUME Types, [Next]_vars PROVE Types'
  <2>1. RInv'
    BY <1>2, RInvInductive DEF Types
  <2>2. CASE Begin \/ Commit \/ Clear
    <3>1. UNCHANGED hostVars
      BY <2>2 DEF Begin, Commit, Clear, Beside
    <3>2. HostTypes'
      BY <1>2, <3>1, BesideTypes DEF Types
    <3>3. Page' \in Pages \cup {NoPage}
      BY <2>1, RenderingAssumption DEF RInv, NavInv, NavTypeOK, Page
    <3>4. /\ undecided' \in BOOLEAN /\ UNCHANGED <<gate, pc, want, wantGen, answer>>
          /\ seen' = IF pc = "idle" THEN seen ELSE seen \cup {Page'}
      BY <2>2 DEF Begin, Commit, Clear, Beside, Witness, Page
    <3>5. CallKinds'
      BY <1>2, <3>3, <3>4 DEF Types, CallKinds
    <3> QED
      BY <2>1, <3>2, <3>5 DEF Types
  <2>3. CASE Above
    BY <1>2, <2>1, <2>3, AboveKeepsTypes, AboveKeepsKinds DEF Types
  <2>4. CASE (HostStep \/ HostDies \/ Tick \/ Stabilise) /\ Below
    <3>1. HostTypes'
      BY <1>2, <2>4, StepTypes, BesideTypes DEF Types
    <3>2. CallKinds'
      BY <1>2, <2>4 DEF Types, CallKinds, Below, callVars
    <3> QED
      BY <2>1, <3>1, <3>2 DEF Types
  <2>5. CASE UNCHANGED vars
    <3>1. HostTypes'
      BY <1>2, <2>5, BesideTypes DEF Types, vars
    <3>2. CallKinds'
      BY <1>2, <2>5 DEF Types, CallKinds, vars, callVars
    <3> QED
      BY <2>1, <3>1, <3>2 DEF Types
  <2> QED
    BY <1>2, <2>2, <2>3, <2>4, <2>5 DEF Next, CallStep, Above
<1> QED
  BY <1>1, <1>2

\* The type invariant, the breaker's and the process's included: fewer failures
\* than the threshold are ever remembered (CircuitBreaker::record_failure).
THEOREM TypeCorrect == Spec => []TypeOK
<1>1. ASSUME Types PROVE TypeOK
  <2>1. HostTypeOK
    BY <1>1, HostTypesSuffice DEF Types
  <2>2. NavTypeOK /\ Generation \in 0 .. MaxGen
    BY <1>1, SharedTypes DEF Types, RInv, NavInv, Generation
  <2>3. gate \in NoGen .. MaxGen /\ wantGen \in NoGen .. MaxGen
    BY <1>1, <2>2, MaxGenAssumption DEF Types, RInv, NavInv, CallKinds, NoGen
  <2> QED
    BY <1>1, <2>1, <2>2, <2>3 DEF Types, CallKinds, RInv, NavInv, TypeOK, View
<1> QED
  BY <1>1, TypesInductive, PTL DEF Spec

\* RENDER-4, with whoever calls and navigates above the process: no host is started
\* for the cooldown after Threshold counted failures within the window.
THEOREM RestartsAreHeldBack == Spec => RestartsPause
<1>1. ASSUME Types, [Next]_vars
      PROVE  [~ running /\ running' =>
                ~ /\ Len(history) = Threshold
                  /\ history[Threshold] - history[1] < Window
                  /\ history[1] < Cooldown]_hostVars
  <2>1. ASSUME ~ running, running' PROVE hp = "spawn"
    <3>1. CASE (HostStep \/ HostDies \/ Tick \/ Stabilise) /\ Below
      BY <2>1, <3>1, OnlySpawnStarts
    <3>2. CASE Begin \/ Commit \/ Clear \/ Above \/ UNCHANGED vars
      BY <2>1, <3>2 DEF Begin, Commit, Clear, Beside, Above, Start, Snapshot, LoadPage, Loaded,
                        DrawPage, Drawn, Call, hostVars, vars
    <3> QED
      BY <1>1, <3>1, <3>2 DEF Next, CallStep, Above
  <2> QED
    BY <1>1, <2>1, StartsAreAllowed DEF Types, HostTypes
<1> QED
  BY <1>1, TypesInductive, PTL DEF Spec, RestartsPause

=============================================================================
