---------------------------- MODULE PointPolling ----------------------------
(***************************************************************************)
(* fbf/connection_manager.py: one point's task (_poll_point) and the       *)
(* policy that decides which of its readings are published                 *)
(* (should_publish: his_collect_cov, his_collect_cov_rate_limit,           *)
(* his_collect_interval).                                                  *)
(*                                                                         *)
(* Time is relative: `timer' is what is left of a sleep, and `since' the   *)
(* time since the last publication, which stops counting at Horizon, past  *)
(* every limit.  The loop may be late, and a read takes any time; between  *)
(* its answer and the next sleep nothing is awaited.  A value is a number, *)
(* an IEEE NaN, a text (what normalize_value makes of an enumerated value) *)
(* or none, which stands for a failed read.  The device is modelled from   *)
(* how the task reads it.                                                  *)
(***************************************************************************)
EXTENDS Integers

CONSTANTS
    Number,             \* numbers the point may read
    Enumerated,         \* ordinals it may read, if it is a binary or multistate one
    NaNs,               \* whether it may read a NaN
    Tolerance,          \* numbers his_collect_cov may be
    Limit,              \* values of his_collect_cov_rate_limit, None for absent
    Interval,           \* values of his_collect_interval, None for absent
    PollInterval,       \* poll_interval
    Horizon,            \* bound: where `since' stops counting
    None

ASSUME ValueAssumption ==
    /\ Number \subseteq Int /\ Enumerated \subseteq Nat /\ NaNs \in BOOLEAN
    /\ None \notin Int
ASSUME PolicyAssumption ==
    /\ Tolerance \subseteq Nat
    /\ PollInterval \in Nat \ {0} /\ Horizon \in Nat \ {0}
    /\ \A t \in (Limit \cup Interval) \ {None} : t \in Nat /\ t <= Horizon

VARIABLES
    policy,             \* the point's his_collect_* settings
    present,            \* the device's present-value
    answering,          \* whether the device answers
    pc,                 \* "sleeping", "reading", "read", "crashed"
    timer,              \* time the sleep has left
    value,              \* what the read in progress has come back with
    lastValue,          \* last_value
    since,              \* now - last_published_at, or None
    retained,           \* the value last published
    behind              \* history: time polled since `retained' was the reading

device == <<present, answering>>
task == <<pc, timer, value, lastValue>>
vars == <<policy, device, task, since, retained, behind>>

-----------------------------------------------------------------------------
(* Values *)

Is(kind, n) == [kind |-> kind, of |-> n]
NaN == Is("nan", 0)
NoValue == Is("none", 0)

Raw == {Is("number", n) : n \in Number} \cup {Is("enumerated", n) : n \in Enumerated}
          \cup (IF NaNs THEN {NaN} ELSE {})
Value == {Is("number", n) : n \in Number} \cup {Is("text", n) : n \in Enumerated}
            \cup {NaN, NoValue}

(* normalize_value: an enumerated value becomes its name. *)
Normalize(raw) == IF raw.kind = "enumerated" THEN Is("text", raw.of) ELSE raw

IsNumeric(v) == v.kind \in {"number", "nan"}
(* Python's == and abs(v - w) >= t: both false of a NaN. *)
Equals(v, w) == v = w /\ v # NaN
MovedBy(t, v, w) ==
    /\ v # NaN /\ w # NaN
    /\ (v.of - w.of >= t \/ w.of - v.of >= t)

Policy == [cov : {"none", "marker", "number"}, tolerance : Tolerance,
           limit : Limit, interval : Interval]

TypeOK ==
    /\ policy \in Policy
    /\ present \in Raw /\ answering \in BOOLEAN
    /\ pc \in {"sleeping", "reading", "read", "crashed"}
    /\ timer \in 0..PollInterval
    /\ value \in Value /\ lastValue \in Value /\ retained \in Value
    /\ since \in {None} \cup 0..Horizon
    /\ behind \in Nat

-----------------------------------------------------------------------------
(* should_publish *)

(* A tolerance compares numbers; everything else compares by equality. *)
Changed(v) ==
    IF policy.cov = "number" /\ IsNumeric(v) /\ IsNumeric(lastValue)
    THEN MovedBy(policy.tolerance, v, lastValue)
    ELSE ~Equals(v, lastValue)

Elapsed(t) == t # None /\ since # None /\ since >= t

ShouldPublish(v) ==
    \/ since = None
    \/ policy.cov = "none" /\ (policy.interval = None \/ Elapsed(policy.interval))
    \/ /\ policy.cov # "none"
       /\ Changed(v)
       /\ policy.limit = None \/ Elapsed(policy.limit)

-----------------------------------------------------------------------------
(* Time and the device *)

Tick ==
    /\ pc # "crashed"
    /\ timer' = IF timer > 0 THEN timer - 1 ELSE 0
    /\ since' = IF since = None \/ since = Horizon THEN since ELSE since + 1
    /\ UNCHANGED <<policy, device, pc, value, lastValue, retained, behind>>

(* The point changes, or the device stops or resumes answering. *)
DeviceChanges ==
    /\ present' \in Raw /\ answering' \in BOOLEAN
    /\ UNCHANGED <<policy, task, since, retained, behind>>

-----------------------------------------------------------------------------
(* _poll_point *)

(* The first sleep is of a random part of the interval. *)
Init ==
    /\ policy \in Policy
    /\ present \in Raw /\ answering \in BOOLEAN
    /\ pc = "sleeping" /\ timer \in 0..PollInterval
    /\ value = NoValue /\ lastValue = NoValue /\ since = None
    /\ retained = NoValue /\ behind = 0

(* The sleep is over, and read_property is sent. *)
Wake ==
    /\ pc = "sleeping" /\ timer = 0
    /\ pc' = "reading"
    /\ UNCHANGED <<policy, device, timer, value, lastValue, since, retained, behind>>

(* The device answers; what it answers may be out of date when it arrives. *)
DeviceAnswers ==
    /\ pc = "reading" /\ answering
    /\ value' = Normalize(present)
    /\ pc' = "read"
    /\ UNCHANGED <<policy, device, timer, lastValue, since, retained, behind>>

\* Faulty: a failed read leaves the last value standing.
ReadFailsSilently ==
    /\ pc = "reading" /\ ~answering
    /\ value' = lastValue
    /\ pc' = "read"
    /\ UNCHANGED <<policy, device, timer, lastValue, since, retained, behind>>
(* read_property raises: the value is None. *)
ReadFails ==
    /\ pc = "reading" /\ ~answering
    /\ value' = NoValue
    /\ pc' = "read"
    /\ UNCHANGED <<policy, device, timer, lastValue, since, retained, behind>>

SleepAgain == pc' = "sleeping" /\ timer' = PollInterval

(* What the point's policy takes for the same value as v.  By a tolerance  *)
(* no number differs from a NaN: while numbers are read the broker keeps   *)
(* the NaN it has, and it never gets one in their place.                   *)
Tells(v) ==
    IF policy.cov = "number" /\ IsNumeric(v) /\ IsNumeric(retained)
    THEN v = retained \/ ~MovedBy(policy.tolerance, v, retained)
    ELSE v = retained

\* Faulty: last_value is never set.
PublishForgets ==
    /\ pc = "read" /\ ShouldPublish(value)
    /\ retained' = value /\ since' = 0 /\ behind' = 0
    /\ SleepAgain
    /\ UNCHANGED <<policy, device, value, lastValue>>
(* publish_reading returns, and the value is the one to compare with. *)
Publish ==
    /\ pc = "read" /\ ShouldPublish(value)
    /\ retained' = value /\ lastValue' = value /\ since' = 0 /\ behind' = 0
    /\ SleepAgain
    /\ UNCHANGED <<policy, device, value>>

(* publish_reading raises, and the task ends. *)
PublishRaises ==
    /\ pc = "read" /\ ShouldPublish(value)
    /\ pc' = "crashed"
    /\ UNCHANGED <<policy, device, timer, value, lastValue, since, retained, behind>>

\* Faulty: the limit counts from the last poll.
SuppressAndRestart ==
    /\ pc = "read" /\ ~ShouldPublish(value)
    /\ since' = 0
    /\ behind' = IF Tells(value) THEN 0 ELSE behind + PollInterval
    /\ SleepAgain
    /\ UNCHANGED <<policy, device, value, lastValue, retained>>
(* Nothing is published; last_value and last_published_at stay. *)
Suppress ==
    /\ pc = "read" /\ ~ShouldPublish(value)
    /\ behind' = IF Tells(value) THEN 0 ELSE behind + PollInterval
    /\ SleepAgain
    /\ UNCHANGED <<policy, device, value, lastValue, since, retained>>

PollPoint == Wake \/ DeviceAnswers \/ ReadFails \/ Publish \/ PublishRaises \/ Suppress

Next == Tick \/ DeviceChanges \/ PollPoint

Spec == Init /\ [][Next]_vars

(* Time passes, the loop runs the task, and a read ends, with an answer or *)
(* by its APDU timeout.                                                    *)
FairSpec == Spec /\ WF_vars(Tick) /\ WF_vars(PollPoint)

-----------------------------------------------------------------------------
(* Properties *)

Wait == IF policy.cov = "none" THEN policy.interval ELSE policy.limit

(* The rate limit and the interval hold a reading back, but no longer than *)
(* they say: the polls over which the broker has had something else than   *)
(* the point's reading (by the point's tolerance), one poll interval each, *)
(* span less than the limit.  A slow drift and an outage count like any    *)
(* other change (openapi.yaml:559-575; connection_manager.py:66-79,        *)
(* 289-291).                                                               *)
NotBehindLong == behind > 0 => Wait # None /\ behind < Wait

(* A value the device keeps is what the broker ends up with, as far as the *)
(* policy can tell (see Tells), and so is none, if the device stays silent.*)
Shown(v) == pc = "crashed" \/ (retained = v \/ (since # None /\ Tells(v)))
EventuallyShown ==
    /\ \A raw \in Raw : <>[](present = raw /\ answering) => <>[]Shown(Normalize(raw))
    /\ <>[]~answering => <>[]Shown(NoValue)

(* "a point that never changes doesn't publish a redundant reading every   *)
(* poll forever" (docs/bacnet-discovery-api.md:85-86): with a change-of-   *)
(* value policy, polls that go on reading one value, or go on failing,     *)
(* come to publish nothing, whatever was published, held back by the limit *)
(* or unreadable before.  There are two exceptions, which the code repeats *)
(* at every poll the limit lets through: a NaN, which is no NaN's equal,   *)
(* under the marker policy, and a number under a tolerance of 0            *)
(* (connection_manager.py:73-79).                                          *)
Repeated(v) ==
    \/ policy.cov = "none"
    \/ policy.cov = "marker" /\ v = NaN
    \/ policy.cov = "number" /\ policy.tolerance = 0 /\ v.kind = "number"
Quiet == pc = "read" => ~ShouldPublish(value)
GoesQuiet ==
    /\ \A raw \in Raw :
          <>[](present = raw /\ answering /\ ~Repeated(Normalize(raw))) => <>[]Quiet
    /\ <>[](~answering /\ ~Repeated(NoValue)) => <>[]Quiet
=============================================================================
