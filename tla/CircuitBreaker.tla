---------------------------- MODULE CircuitBreaker ----------------------------
(***************************************************************************)
(* CircuitBreaker of crates/fandhe-browser-render/src/host_process/        *)
(* breaker.rs: it decides whether a render host may be started, by the     *)
(* counted failures of the hosts before.                                   *)
(*                                                                         *)
(* Instants are kept relative to now: a failure by its age, the end of the *)
(* cooldown by the time left.  RenderHost makes its actions of these       *)
(* operations.                                                             *)
(***************************************************************************)
EXTENDS Integers, Sequences

CONSTANTS
  Window,    \* BREAKER_WINDOW, in ticks of the clock
  Threshold, \* BREAKER_THRESHOLD
  Cooldown   \* BREAKER_COOLDOWN

ASSUME BreakerAssumption == {Window, Threshold, Cooldown} \subseteq Nat \ {0}

\* Both are 60 seconds.  With a shorter cooldown the pause would be over while
\* the failures before it still count.
ASSUME CooldownAssumption == Window <= Cooldown

VARIABLES
  failures, \* ages, the oldest failure first
  openFor,  \* open_until: the ticks left, or NotOpen
  halfOpen

breakerVars == <<failures, openFor, halfOpen>>

NotOpen == -1

BreakerTypeOK ==
  /\ failures \in Seq(0 .. Window + 1) /\ Len(failures) < Threshold
  /\ openFor \in NotOpen .. Cooldown
  /\ halfOpen \in BOOLEAN

BreakerInit ==
  /\ failures = <<>>
  /\ openFor = NotOpen
  /\ halfOpen = FALSE

-----------------------------------------------------------------------------
\* check: no start while the cooldown lasts ...
Refuses == openFor > 0

\* ... and when it is over, the breaker is half open.
Pass ==
  /\ ~ Refuses
  /\ halfOpen' = (halfOpen \/ openFor = 0)
  /\ openFor' = NotOpen
  /\ UNCHANGED failures

Trip ==
  /\ failures' = <<>>
  /\ halfOpen' = FALSE
  /\ openFor' = Cooldown

\* The failures remembered after one more: those in front that the window has
\* left are dropped.
WithFailure ==
  LET all   == Append(failures, 0)
      front == CHOOSE i \in DOMAIN all : all[i] <= Window /\ \A j \in 1 .. i - 1 : all[j] > Window
  IN  SubSeq(all, front, Len(all))

\* Mutant of RecordFailure: one failure too late.
MutRecordFailure ==
  IF halfOpen \/ Len(WithFailure) > Threshold THEN Trip
  ELSE failures' = WithFailure /\ UNCHANGED <<openFor, halfOpen>>

RecordFailure ==
  IF halfOpen \/ Len(WithFailure) >= Threshold THEN Trip
  ELSE failures' = WithFailure /\ UNCHANGED <<openFor, halfOpen>>

\* Mutant of RecordSuccess: every success clears the record.
MutRecordSuccess ==
  /\ failures' = <<>>
  /\ halfOpen' = FALSE
  /\ UNCHANGED openFor

\* Only the success of a half-open breaker clears the record: a host that
\* loads well and dies whenever it draws must not go unnoticed.
RecordSuccess ==
  IF halfOpen THEN failures' = <<>> /\ halfOpen' = FALSE /\ UNCHANGED openFor
  ELSE UNCHANGED breakerVars

\* One tick later.  An age beyond the window is as good as any other.
Age ==
  /\ failures' = [i \in DOMAIN failures |->
                    IF failures[i] > Window THEN failures[i] ELSE failures[i] + 1]
  /\ openFor' = IF openFor > 0 THEN openFor - 1 ELSE openFor
  /\ UNCHANGED halfOpen

=============================================================================
