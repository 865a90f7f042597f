------------------------- MODULE PointPollingProofs -------------------------
(***************************************************************************)
(* Theorems about PointPolling, for any values, tolerances, limits and     *)
(* poll intervals.                                                         *)
(*                                                                         *)
(* That the broker is never behind for long rests on the value to compare  *)
(* with being the one the broker has (Remembered), and on `since' counting *)
(* the polls: between two of them passes at least a poll interval          *)
(* (Counted), which is how the time the broker is behind is bounded by the *)
(* time since the last publication.                                        *)
(***************************************************************************)
EXTENDS PointPolling, TLAPS

(* last_value is what was published last, if anything was. *)
Remembered ==
    /\ lastValue = retained
    /\ since = None => behind = 0

(* The poll interval, as far as it has passed since the last poll. *)
Passed == IF pc = "sleeping" THEN PollInterval - timer ELSE PollInterval

(* Until it stops counting, `since' is at least the time behind and what   *)
(* has passed since.                                                       *)
Counted == since \notin {None, Horizon} => behind + Passed <= since

IInv == TypeOK /\ Remembered /\ Counted /\ NotBehindLong

-----------------------------------------------------------------------------
LEMMA NoneIsNoTime == ASSUME NEW n \in Int PROVE n # None
<1>. QED BY ValueAssumption

LEMMA Times ==
    /\ PollInterval \in Nat \ {0} /\ Horizon \in Nat \ {0}
    /\ \A t \in Limit \cup Interval : t # None => t \in Nat /\ t <= Horizon
<1>. QED BY PolicyAssumption

(* What a poll comes back with is a value, and no raw one. *)
LEMMA NormalizeType == \A raw \in Raw : Normalize(raw) \in Value
<1>. QED BY DEF Raw, Value, Normalize, Is, NaN

(* A value the policy tells from the published one is held back only by a  *)
(* limit or an interval that has not passed yet.                           *)
LEMMA HeldBack ==
    ASSUME TypeOK, Remembered, NEW v \in Value, ~ShouldPublish(v), ~Tells(v)
    PROVE  since # None /\ Wait # None /\ since < Wait
<1>1. since \in 0..Horizon /\ since \in Int
  BY Times DEF TypeOK, ShouldPublish
<1>2. CASE policy.cov = "none"
  <2>1. Wait = policy.interval /\ policy.interval # None /\ ~Elapsed(policy.interval)
    BY <1>2 DEF Wait, ShouldPublish
  <2>2. policy.interval \in Nat
    BY <2>1, Times DEF TypeOK, Policy
  <2>. QED BY <1>1, <2>1, <2>2, NoneIsNoTime DEF Elapsed
<1>3. CASE policy.cov # "none"
  <2>1. Changed(v)
    <3>1. CASE policy.cov = "number" /\ IsNumeric(v) /\ IsNumeric(retained)
      BY <3>1 DEF Tells, Changed, Remembered
    <3>2. CASE ~(policy.cov = "number" /\ IsNumeric(v) /\ IsNumeric(retained))
      BY <3>2 DEF Tells, Changed, Equals, Remembered
    <3>. QED BY <3>1, <3>2
  <2>2. Wait = policy.limit /\ policy.limit # None /\ ~Elapsed(policy.limit)
    BY <1>3, <2>1 DEF Wait, ShouldPublish
  <2>3. policy.limit \in Nat
    BY <2>2, Times DEF TypeOK, Policy
  <2>. QED BY <1>1, <2>2, <2>3, NoneIsNoTime DEF Elapsed
<1>. QED BY <1>2, <1>3

LEMMA InitInv == Init => IInv
<1>. SUFFICES ASSUME Init PROVE IInv
  OBVIOUS
<1>1. TypeOK
  BY DEF Init, TypeOK, Value
<1>. QED BY <1>1 DEF Init, IInv, Remembered, Counted, NotBehindLong

LEMMA TickInv == ASSUME IInv, Tick PROVE IInv'
<1>1. timer \in 0..PollInterval /\ behind \in Nat /\ PollInterval \in Nat \ {0}
  BY Times DEF IInv, TypeOK
<1>2. timer' \in 0..PollInterval /\ PollInterval - timer' <= PollInterval - timer + 1
  BY <1>1 DEF Tick
<1>3. CASE since = None \/ since = Horizon
  <2>1. since' = since
    BY <1>3 DEF Tick
  <2>2. TypeOK'
    BY <1>2, <2>1 DEF IInv, TypeOK, Tick, device
  <2>. QED BY <1>3, <2>1, <2>2
           DEF IInv, Remembered, Counted, NotBehindLong, Wait, Tick
<1>4. CASE since \notin {None, Horizon}
  <2>1. since \in 0..Horizon /\ since' = since + 1 /\ since' \in 0..Horizon
    BY <1>4, Times DEF IInv, TypeOK, Tick
  <2>2. since' # None
    BY <2>1, NoneIsNoTime
  <2>3. TypeOK'
    BY <1>2, <2>1 DEF IInv, TypeOK, Tick, device
  <2>4. behind' + Passed' <= since'
    BY <1>1, <1>2, <1>4, <2>1 DEF IInv, Counted, Passed, Tick
  <2>. QED BY <2>2, <2>3, <2>4
           DEF IInv, Remembered, Counted, NotBehindLong, Wait, Tick
<1>. QED BY <1>3, <1>4

LEMMA DeviceInv == ASSUME IInv, DeviceChanges PROVE IInv'
<1>. QED BY DEF IInv, TypeOK, Remembered, Counted, Passed, NotBehindLong, Wait,
                DeviceChanges, task

(* A poll begins when the sleep is over, so that an interval has passed. *)
LEMMA ReadInv == ASSUME IInv, Wake \/ DeviceAnswers \/ ReadFails PROVE IInv'
<1>1. TypeOK'
  BY NormalizeType DEF IInv, TypeOK, Value, Wake, DeviceAnswers, ReadFails, device
<1>2. Passed' = Passed
  BY Times DEF Passed, Wake, DeviceAnswers, ReadFails
<1>. QED BY <1>1, <1>2 DEF IInv, Remembered, Counted, NotBehindLong, Wait,
                Wake, DeviceAnswers, ReadFails

LEMMA PublishInv == ASSUME IInv, Publish \/ PublishRaises PROVE IInv'
<1>1. TypeOK'
  BY Times DEF IInv, TypeOK, Publish, PublishRaises, SleepAgain, device
<1>2. CASE Publish
  <2>1. behind' = 0 /\ since' = 0 /\ Passed' = 0
    BY <1>2, Times DEF Publish, SleepAgain, Passed
  <2>. QED BY <1>1, <1>2, <2>1, NoneIsNoTime
           DEF IInv, Remembered, Counted, NotBehindLong, Publish
<1>3. CASE PublishRaises
  <2>1. Passed' = Passed
    BY <1>3 DEF PublishRaises, Passed
  <2>. QED BY <1>1, <1>3, <2>1
           DEF IInv, Remembered, Counted, NotBehindLong, Wait, PublishRaises
<1>. QED BY <1>2, <1>3

LEMMA SuppressInv == ASSUME IInv, Suppress PROVE IInv'
<1>1. /\ value \in Value /\ behind \in Nat /\ PollInterval \in Nat \ {0}
      /\ Horizon \in Nat
  BY Times DEF IInv, TypeOK
<1>2. TypeOK'
  BY <1>1, Times DEF IInv, TypeOK, Suppress, SleepAgain, device
<1>3. Passed = PollInterval /\ Passed' = 0
  BY <1>1 DEF Suppress, SleepAgain, Passed
<1>4. since' = since /\ since # None /\ since \in 0..Horizon
  BY DEF IInv, TypeOK, Suppress, ShouldPublish
<1>5. CASE Tells(value)
  <2>1. behind' = 0
    BY <1>5 DEF Suppress
  <2>2. behind' + Passed' <= since'
    BY <1>1, <1>3, <1>4, <2>1
  <2>. QED BY <1>2, <1>4, <2>1, <2>2
           DEF IInv, Remembered, Counted, NotBehindLong, Suppress
<1>6. CASE ~Tells(value)
  <2>1. behind' = behind + PollInterval
    BY <1>6 DEF Suppress
  <2>2. Wait # None /\ since < Wait
    BY <1>1, <1>6, HeldBack DEF IInv, Suppress
  <2>3. Wait \in Nat /\ Wait <= Horizon
    BY <2>2, Times DEF IInv, TypeOK, Policy, Wait
  <2>4. behind' <= since
    BY <1>1, <1>3, <1>4, <2>1, <2>2, <2>3 DEF IInv, Counted
  <2>5. behind' + Passed' <= since' /\ behind' < Wait
    BY <1>1, <1>3, <1>4, <2>1, <2>2, <2>3, <2>4
  <2>6. Wait' = Wait
    BY DEF Wait, Suppress
  <2>. QED BY <1>2, <1>4, <2>2, <2>5, <2>6
           DEF IInv, Remembered, Counted, NotBehindLong, Suppress
<1>. QED BY <1>5, <1>6

LEMMA StepInv == IInv /\ [Next]_vars => IInv'
<1>. SUFFICES ASSUME IInv, [Next]_vars PROVE IInv'
  OBVIOUS
<1>1. CASE UNCHANGED vars
  BY <1>1 DEF vars, device, task, IInv, TypeOK, Remembered, Counted, Passed,
              NotBehindLong, Wait
<1>. QED BY <1>1, TickInv, DeviceInv, ReadInv, PublishInv, SuppressInv
         DEF Next, PollPoint

LEMMA Invariant == Spec => []IInv
<1>. QED BY InitInv, StepInv, PTL DEF Spec

-----------------------------------------------------------------------------
(* The variables keep their types; no raw enumerated value is compared or  *)
(* published.                                                              *)
THEOREM TypeCorrect == Spec => []TypeOK
<1>1. IInv => TypeOK
  BY DEF IInv
<1>. QED BY <1>1, Invariant, PTL

(* The broker is never behind the point for as long as the limit, or the   *)
(* interval, whatever the values do (connection_manager.py:62-79).         *)
THEOREM NeverBehindLong == Spec => []NotBehindLong
<1>1. IInv => NotBehindLong
  BY DEF IInv
<1>. QED BY <1>1, Invariant, PTL
=============================================================================
