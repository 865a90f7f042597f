-------------------------- MODULE ModbusSweepProofs --------------------------
(***************************************************************************)
(* Theorems about ModbusSweep, for any number of hosts, concurrencies and  *)
(* timeouts.                                                               *)
(*                                                                         *)
(* That the sockets are bounded rests on the permits: those taken are the  *)
(* open clients (Permits), and the open clients are those of the probes    *)
(* that are under way (Probing).  What a sweep returns rests on the        *)
(* results of the probes that are done (Heard).                            *)
(***************************************************************************)
EXTENDS ModbusSweep, FiniteSetTheorems, TLAPS

(* Each permit that is not free is one open client's. *)
Permits ==
    /\ IsFiniteSet(open)
    /\ free + Cardinality(open) = concurrency

(* A client is open exactly as long as its probe is under way. *)
Probing ==
    /\ \A h \in Host : h \in open <=> probe[h] \in {"connecting", "reading"}
    /\ outcome # "running" => \A h \in Host : probe[h] = "done"

(* Until the sweep ends, a host that has accepted is being read or has a   *)
(* result, and nobody else has one.                                        *)
Heard ==
    outcome = "running" =>
        \A h \in Host :
            /\ h \in accepted => probe[h] = "reading"
                                   \/ (probe[h] = "done" /\ results[h] # None)
            /\ h \notin accepted => probe[h] # "reading" /\ results[h] = None

IInv == TypeOK /\ Permits /\ Probing /\ Heard /\ FindsAll

-----------------------------------------------------------------------------
LEMMA InitInv == Init => IInv
<1>. SUFFICES ASSUME Init PROVE IInv
  OBVIOUS
<1>1. IsFiniteSet({}) /\ Cardinality({}) = 0
  BY FS_EmptySet
<1>2. concurrency \in Nat
  BY SweepAssumption DEF Init
<1>3. TypeOK
  BY <1>2, SweepAssumption DEF Init, TypeOK, ReadTime
<1>4. Permits
  BY <1>1, <1>2 DEF Init, Permits
<1>. QED BY <1>3, <1>4 DEF Init, IInv, Probing, Heard, FindsAll

LEMMA Times == {0, Timeout, ReadTime} \subseteq 0..ReadTime /\ ReadTime \in Nat
<1>. QED BY SweepAssumption DEF ReadTime

LEMMA Numbers ==
    ASSUME TypeOK, Permits
    PROVE  concurrency \in Nat /\ free \in Nat /\ Cardinality(open) \in Nat
<1>1. concurrency \in Nat
  BY SweepAssumption DEF TypeOK
<1>2. free \in Nat
  <2>1. free \in 0..concurrency
    BY DEF TypeOK
  <2>. QED BY <1>1, <2>1
<1>3. Cardinality(open) \in Nat
  BY FS_CardinalityType DEF Permits
<1>. QED BY <1>1, <1>2, <1>3

(* A client that is made, or closed, takes one permit, or gives it back. *)
LEMMA OneMore ==
    ASSUME TypeOK, Permits, NEW h \in Host, h \notin open, free > 0
    PROVE  /\ IsFiniteSet(open \cup {h})
           /\ (free - 1) + Cardinality(open \cup {h}) = concurrency
           /\ free - 1 \in 0..concurrency
<1>1. IsFiniteSet(open \cup {h}) /\ Cardinality(open \cup {h}) = Cardinality(open) + 1
  BY FS_AddElement DEF Permits
<1>. QED BY <1>1, Numbers DEF Permits

LEMMA OneLess ==
    ASSUME TypeOK, Permits, NEW h \in Host, h \in open
    PROVE  /\ IsFiniteSet(open \ {h})
           /\ (free + 1) + Cardinality(open \ {h}) = concurrency
           /\ free + 1 \in 0..concurrency
<1>1. IsFiniteSet(open \ {h}) /\ Cardinality(open \ {h}) = Cardinality(open) - 1
  BY FS_RemoveElement DEF Permits
<1>2. Cardinality(open \ {h}) \in Nat
  BY <1>1, FS_CardinalityType
<1>. QED BY <1>1, <1>2, Numbers DEF Permits

LEMMA AcquireInv ==
    ASSUME IInv, NEW h \in Host, Acquire(h) PROVE IInv'
<1>1. h \notin open /\ free > 0
  BY DEF IInv, Probing, Acquire, HasPlace
<1>2. TypeOK'
  <2>1. free' \in 0..concurrency'
    BY <1>1, OneMore DEF IInv, Acquire, world
  <2>. QED BY <2>1, Times DEF IInv, TypeOK, Acquire, world
<1>3. Permits'
  BY <1>1, OneMore DEF IInv, Permits, Acquire, world
<1>4. Probing'
  BY DEF IInv, TypeOK, Probing, Acquire, world
<1>5. Heard' /\ FindsAll'
  BY DEF IInv, TypeOK, Heard, FindsAll, Acquire, world
<1>. QED BY <1>2, <1>3, <1>4, <1>5 DEF IInv

LEMMA AcceptInv ==
    ASSUME IInv, NEW h \in Host, Accept(h) PROVE IInv'
<1>1. TypeOK'
  BY Times DEF IInv, TypeOK, Accept, world
<1>2. Permits'
  BY DEF IInv, Permits, Accept, world
<1>3. Probing'
  BY DEF IInv, TypeOK, Probing, Accept, world
<1>4. Heard' /\ FindsAll'
  BY DEF IInv, TypeOK, Heard, FindsAll, Accept, world
<1>. QED BY <1>1, <1>2, <1>3, <1>4 DEF IInv

(* A probe that is under way ends with what fits whether its host has      *)
(* accepted.                                                               *)
LEMMA FinishInv ==
    ASSUME IInv, outcome = "running",
           NEW h \in Host, probe[h] \in {"connecting", "reading"},
           NEW r \in Device \cup {None}, Finish(h, r), r = None <=> h \notin accepted
    PROVE  IInv'
<1>1. h \in open
  BY DEF IInv, Probing
<1>2. TypeOK'
  <2>1. free' \in 0..concurrency'
    BY <1>1, OneLess DEF IInv, Finish, Release, world
  <2>. QED BY <1>1, <2>1, Times DEF IInv, TypeOK, Finish, Release, world
<1>3. Permits'
  BY <1>1, OneLess DEF IInv, Permits, Finish, Release, world
<1>4. Probing'
  BY DEF IInv, TypeOK, Probing, Finish, Release, world
<1>5. Heard' /\ FindsAll'
  BY DEF IInv, TypeOK, Heard, FindsAll, Finish, Release, world
<1>. QED BY <1>2, <1>3, <1>4, <1>5 DEF IInv

LEMMA EndsInv ==
    ASSUME IInv, Return \/ Cancel PROVE IInv'
<1>1. CASE Return
  <2>1. \A h \in Host : probe[h] = "done"
    BY <1>1 DEF Return, In
  <2>2. devices' = accepted
    BY <1>1, <2>1 DEF Return, Found, IInv, TypeOK, Heard
  <2>3. TypeOK'
    BY <1>1, <2>2 DEF IInv, TypeOK, Return
  <2>4. Permits' /\ Probing' /\ Heard' /\ FindsAll'
    BY <1>1, <2>1, <2>2 DEF IInv, Permits, Probing, Heard, FindsAll, Return
  <2>. QED BY <2>3, <2>4 DEF IInv
<1>2. CASE Cancel
  <2>1. IsFiniteSet({}) /\ Cardinality({}) = 0 /\ concurrency \in Nat
    BY FS_EmptySet, SweepAssumption DEF IInv, TypeOK
  <2>2. TypeOK'
    <3>1. free' \in 0..concurrency'
      BY <1>2, <2>1 DEF Cancel, CloseAll
    <3>2. caller' \in {"waiting", "answered", "timed out"}
      BY <1>2 DEF IInv, TypeOK, Cancel
    <3>. QED BY <1>2, <3>1, <3>2, Times DEF IInv, TypeOK, Cancel, CloseAll
  <2>3. Permits'
    BY <1>2, <2>1 DEF IInv, Permits, Cancel, CloseAll
  <2>4. Probing' /\ Heard' /\ FindsAll'
    BY <1>2 DEF IInv, TypeOK, Probing, Heard, FindsAll, Cancel, CloseAll
  <2>. QED BY <2>2, <2>3, <2>4 DEF IInv
<1>. QED BY <1>1, <1>2

LEMMA TimeInv ==
    ASSUME IInv, Tick \/ TimeOut PROVE IInv'
<1>1. CASE Tick
  <2>1. clock' \in 0..Horizon
    <3>1. clock \in 0..Horizon /\ clock < Horizon /\ clock' = clock + 1
      BY <1>1 DEF IInv, TypeOK, Tick
    <3>. QED BY <3>1, SweepAssumption
  <2>2. ASSUME NEW h \in Host
        PROVE  (IF timer[h] = 0 THEN 0 ELSE timer[h] - 1) \in 0..ReadTime
    <3>1. timer[h] \in 0..ReadTime
      BY DEF IInv, TypeOK
    <3>. QED BY <3>1, Times
  <2>3. timer' \in [Host -> 0..ReadTime]
    BY <1>1, <2>2 DEF Tick
  <2>. QED BY <1>1, <2>1, <2>3 DEF IInv, TypeOK, Permits, Probing, Heard, FindsAll, Tick
<1>2. CASE TimeOut
  BY <1>2 DEF IInv, TypeOK, Permits, Probing, Heard, FindsAll, TimeOut
<1>. QED BY <1>1, <1>2

LEMMA StepInv == IInv /\ [Next]_vars => IInv'
<1>. SUFFICES ASSUME IInv, [Next]_vars PROVE IInv'
  OBVIOUS
<1>1. ASSUME NEW h \in Host, Acquire(h) PROVE IInv'
  BY <1>1, AcquireInv
<1>2. ASSUME NEW h \in Host, Accept(h) PROVE IInv'
  BY <1>2, AcceptInv
<1>3. ASSUME NEW h \in Host, Refuse(h) PROVE IInv'
  <2>1. h \notin accepted
    BY <1>3 DEF Refuse, IInv, Heard, Probing, TypeOK
  <2>. QED BY <1>3, <2>1, FinishInv DEF Refuse
<1>4. ASSUME NEW h \in Host, Identify(h) PROVE IInv'
  <2>1. h \in accepted
    BY <1>4 DEF Identify, IInv, Heard
  <2>2. PICK d \in Device : Finish(h, d)
    BY <1>4 DEF Identify
  <2>. QED BY <1>4, <2>1, <2>2, FinishInv, SweepAssumption DEF Identify
<1>5. CASE Return \/ Cancel
  BY <1>5, EndsInv
<1>6. CASE Tick \/ TimeOut
  BY <1>6, TimeInv
<1>7. CASE UNCHANGED vars
  BY <1>7 DEF vars, IInv, TypeOK, Permits, Probing, Heard, FindsAll
<1>. QED BY <1>1, <1>2, <1>3, <1>4, <1>5, <1>6, <1>7 DEF Next, Probe

LEMMA Invariant == Spec => []IInv
<1>. QED BY InitInv, StepInv, PTL DEF Spec

-----------------------------------------------------------------------------
(* The variables keep their types; the semaphore is never overdrawn. *)
THEOREM TypeCorrect == Spec => []TypeOK
<1>1. IInv => TypeOK
  BY DEF IInv
<1>. QED BY <1>1, Invariant, PTL

(* At most `concurrency' clients are open, none of a probe that is over,   *)
(* and none when the sweep is (modbus_discovery.py:38, 59-62).             *)
THEOREM SocketsAreBounded == Spec => []SocketsBounded
<1>1. ASSUME IInv PROVE SocketsBounded
  <2>1. Cardinality(open) <= concurrency
    BY <1>1, Numbers DEF IInv, Permits
  <2>. QED BY <1>1, <2>1 DEF IInv, TypeOK, Probing, SocketsBounded, In
<1>. QED BY <1>1, Invariant, PTL

(* A sweep returns the hosts that have accepted, in spite of the order in  *)
(* which the probes end (modbus_discovery.py:75-76).                       *)
THEOREM SweepFindsAll == Spec => []FindsAll
<1>1. IInv => FindsAll
  BY DEF IInv
<1>. QED BY <1>1, Invariant, PTL

-----------------------------------------------------------------------------
(***************************************************************************)
(* How long a sweep takes.  The probes start in the order of the hosts     *)
(* (InOrder), so when host h is still queued and no place is free, the     *)
(* `concurrency' probes under way are of hosts before it, and one of them  *)
(* is at least a full round ahead: it is what keeps h on time (OnTime).    *)
(***************************************************************************)

InOrder ==
    outcome = "running" =>
        \A g, h \in Host : h < g /\ probe[h] = "queued" => probe[g] = "queued"

(* The tick by which a place is free for host h at the latest. *)
Due(h) == ((h - 1) \div concurrency) * Longest

OnTime ==
    (concurrency > 0 /\ outcome = "running") =>
        \A h \in Host :
            /\ probe[h] = "queued" => clock <= Due(h)
            /\ probe[h] = "connecting" => clock + timer[h] <= Due(h) + Timeout
            /\ probe[h] = "reading" => clock + timer[h] <= Due(h) + Longest

(* A request that waits has a sweep to wait for. *)
Asked == caller = "waiting" => outcome = "running"

TimeInvariant == IInv /\ InOrder /\ OnTime /\ Asked /\ InTime

(* Rounds are counted in natural numbers, host by host. *)
LEMMA NextRound ==
    ASSUME NEW a \in Nat, NEW c \in Nat \ {0}, NEW k \in Nat
    PROVE  /\ (a \div c) * k \in Nat
           /\ ((a + c) \div c) * k = (a \div c) * k + k
<1>1. a \div c \in Nat /\ (a + c) \div c = (a \div c) + 1
  OBVIOUS
<1>2. \A m \in Nat : m * k \in Nat /\ (m + 1) * k = m * k + k
  OBVIOUS
<1>. QED BY <1>1, <1>2

LEMMA LaterRound ==
    ASSUME NEW a \in Nat, NEW b \in Nat, NEW c \in Nat \ {0}, NEW k \in Nat, a <= b
    PROVE  (a \div c) * k <= (b \div c) * k
<1>1. a \div c \in Nat /\ b \div c \in Nat /\ a \div c <= b \div c
  OBVIOUS
<1>2. \A m, n \in Nat : m <= n => m * k <= n * k
  OBVIOUS
<1>. QED BY <1>1, <1>2

LEMMA TimeNumbers ==
    ASSUME TypeOK
    PROVE  /\ concurrency \in Nat /\ clock \in Nat
           /\ Timeout \in Nat \ {0} /\ ReadTime \in Nat /\ Longest \in Nat
           /\ Longest = Timeout + ReadTime
           /\ \A h \in Host : h \in Nat \ {0} /\ h <= NumHosts /\ timer[h] \in Nat
<1>1. concurrency \in Nat
  BY SweepAssumption DEF TypeOK
<1>2. clock \in Nat
  <2>1. clock \in 0..Horizon
    BY DEF TypeOK
  <2>. QED BY <2>1, SweepAssumption
<1>3. ReadTime \in Nat /\ Longest \in Nat /\ Longest = Timeout + ReadTime
  BY SweepAssumption DEF ReadTime, Longest
<1>4. ASSUME NEW h \in Host
      PROVE  h \in Nat \ {0} /\ h <= NumHosts /\ timer[h] \in Nat
  <2>1. timer[h] \in 0..ReadTime
    BY DEF TypeOK
  <2>. QED BY <1>3, <2>1, SweepAssumption DEF Host
<1>. QED BY <1>1, <1>2, <1>3, <1>4, SweepAssumption

(* A host a round ahead is due a round ahead; no host is due so late that  *)
(* its round ends after the last one.                                      *)
LEMMA DueDates ==
    ASSUME TypeOK, concurrency > 0
    PROVE  /\ \A h \in Host : Due(h) \in Nat /\ Due(h) + Longest <= Rounds * Longest
           /\ \A g, h \in Host : g <= h - concurrency => Due(g) + Longest <= Due(h)
<1>1. /\ concurrency \in Nat \ {0} /\ Longest \in Nat /\ NumHosts \in Nat
      /\ \A h \in Host : h \in Nat \ {0} /\ h <= NumHosts
  BY TimeNumbers, SweepAssumption
<1>2. ASSUME NEW h \in Host
      PROVE  Due(h) \in Nat /\ Due(h) + Longest <= Rounds * Longest
  <2>1. h - 1 \in Nat /\ NumHosts - 1 \in Nat /\ h - 1 <= NumHosts - 1
    BY <1>1
  <2>2. /\ ((h - 1) \div concurrency) * Longest \in Nat
        /\ ((h - 1) \div concurrency) * Longest
              <= ((NumHosts - 1) \div concurrency) * Longest
    BY <1>1, <2>1, NextRound, LaterRound
  <2>3. (((NumHosts - 1) + concurrency) \div concurrency) * Longest
           = ((NumHosts - 1) \div concurrency) * Longest + Longest
    BY <1>1, <2>1, NextRound
  <2>4. (NumHosts - 1) + concurrency = NumHosts + concurrency - 1
    BY <1>1
  <2>5. ((NumHosts - 1) \div concurrency) * Longest \in Nat
    BY <1>1, <2>1, NextRound
  <2>. QED BY <1>1, <2>2, <2>3, <2>4, <2>5 DEF Due, Rounds
<1>3. ASSUME NEW g \in Host, NEW h \in Host, g <= h - concurrency
      PROVE  Due(g) + Longest <= Due(h)
  <2>1. g - 1 \in Nat /\ h - 1 \in Nat /\ (g - 1) + concurrency <= h - 1
        /\ (g - 1) + concurrency \in Nat
    BY <1>1, <1>3
  <2>2. (((g - 1) + concurrency) \div concurrency) * Longest
           <= ((h - 1) \div concurrency) * Longest
    BY <1>1, <2>1, LaterRound
  <2>3. (((g - 1) + concurrency) \div concurrency) * Longest
           = ((g - 1) \div concurrency) * Longest + Longest
    BY <1>1, <2>1, NextRound
  <2>. QED BY <2>2, <2>3 DEF Due
<1>. QED BY <1>2, <1>3

(* With no place left, and probes started in order, one of the probes      *)
(* under way is of a host a full round before the first in the queue.      *)
LEMMA ARoundAhead ==
    ASSUME IInv, InOrder, outcome = "running", free = 0, concurrency > 0,
           NEW h \in Host, probe[h] = "queued"
    PROVE  \E g \in open : g <= h - concurrency
<1>1. /\ concurrency \in Nat \ {0} /\ IsFiniteSet(open)
      /\ Cardinality(open) = concurrency
      /\ \A g \in Host : g \in Nat \ {0}
  BY Numbers, TimeNumbers DEF IInv, Permits
<1>2. ASSUME NEW g \in open PROVE g \in Host /\ g < h
  <2>1. g \in Host /\ probe[g] \in {"connecting", "reading"}
    BY DEF IInv, TypeOK, Probing
  <2>2. g # h /\ ~(h < g)
    BY <2>1 DEF InOrder
  <2>. QED BY <1>1, <2>1, <2>2
<1>. SUFFICES ASSUME \A g \in open : ~(g <= h - concurrency)
              PROVE  FALSE
  OBVIOUS
<1>. DEFINE ahead == (h - concurrency + 1)..(h - 1)
<1>3. open \subseteq ahead
  BY <1>1, <1>2
<1>4. IsFiniteSet(ahead) /\ Cardinality(ahead) = concurrency - 1
  <2>1. h - concurrency + 1 \in Int /\ h - 1 \in Int
    BY <1>1
  <2>2. /\ IsFiniteSet(ahead)
        /\ Cardinality(ahead) = IF h - concurrency + 1 > h - 1 THEN 0
                                ELSE (h - 1) - (h - concurrency + 1) + 1
    BY <2>1, FS_Interval
  <2>. QED BY <1>1, <2>2
<1>5. Cardinality(open) <= Cardinality(ahead)
  BY <1>3, <1>4, FS_Subset
<1>. QED BY <1>1, <1>4, <1>5

LEMMA TimeInit == Init => InOrder /\ OnTime /\ Asked /\ InTime
<1>. SUFFICES ASSUME Init PROVE InOrder /\ OnTime /\ Asked /\ InTime
  OBVIOUS
<1>1. TypeOK
  BY InitInv DEF IInv
<1>2. concurrency > 0 => \A h \in Host : 0 <= Due(h) /\ 0 <= Rounds * Longest
  <2>. SUFFICES ASSUME concurrency > 0, NEW h \in Host
                PROVE  0 <= Due(h) /\ 0 <= Rounds * Longest
    OBVIOUS
  <2>1. /\ Due(h) \in Nat /\ Due(h) + Longest <= Rounds * Longest
        /\ Longest \in Nat
    BY <1>1, DueDates, TimeNumbers
  <2>2. Rounds * Longest \in Int
    <3>1. Rounds \in Int
      BY <1>1, TimeNumbers, SweepAssumption DEF Rounds
    <3>. QED BY <2>1, <3>1
  <2>. QED BY <2>1, <2>2
<1>3. 1 \in Host
  BY SweepAssumption DEF Host
<1>. QED BY <1>2, <1>3 DEF Init, InOrder, OnTime, Asked, InTime

LEMMA TickOnTime ==
    ASSUME TimeInvariant, Tick
    PROVE  InOrder' /\ OnTime' /\ Asked' /\ InTime'
<1>0. TypeOK /\ InOrder /\ OnTime /\ Asked /\ InTime /\ IInv
  BY DEF TimeInvariant, IInv
<1>n. /\ concurrency \in Nat /\ clock \in Nat /\ Timeout \in Nat /\ Longest \in Nat
      /\ Timeout <= Longest
      /\ \A h \in Host : timer[h] \in Nat
  BY <1>0, TimeNumbers
<1>t. /\ clock' = clock + 1
      /\ timer' = [h \in Host |-> IF timer[h] = 0 THEN 0 ELSE timer[h] - 1]
      /\ UNCHANGED <<concurrency, caller, probe, outcome>>
      /\ ~Ready
  BY DEF Tick
<1>1. InOrder' /\ Asked'
  BY <1>0, <1>t DEF InOrder, Asked
<1>2. ASSUME concurrency > 0, outcome = "running"
      PROVE  OnTime' /\ clock' <= Rounds * Longest
  <2>0. \A h \in Host : Due(h) \in Nat /\ Due(h) + Longest <= Rounds * Longest
    BY <1>0, <1>2, DueDates
  <2>1. \A h \in Host : probe[h] \in {"connecting", "reading"} =>
            timer[h] > 0 /\ timer'[h] = timer[h] - 1
    BY <1>2, <1>n, <1>t DEF Ready, In
  <2>2. ASSUME NEW h \in Host, probe[h] = "queued"
        PROVE  clock' <= Due(h)
    <3>1. free = 0
      BY <1>0, <1>2, <1>t, <2>2, Numbers DEF Ready, In, HasPlace, IInv
    <3>2. PICK g \in open : g <= h - concurrency
      BY <1>0, <1>2, <2>2, <3>1, ARoundAhead
    <3>3. g \in Host /\ probe[g] \in {"connecting", "reading"}
      BY <1>0 DEF IInv, TypeOK, Probing
    <3>4. Due(g) + Longest <= Due(h) /\ Due(g) \in Nat /\ Due(h) \in Nat
      BY <1>0, <1>2, <3>2, <3>3, DueDates
    <3>5. clock + timer[g] <= Due(g) + Longest
      BY <1>0, <1>2, <1>n, <3>3, <3>4 DEF OnTime
    <3>6. timer[g] \in Nat /\ timer[g] > 0
      BY <1>n, <2>1, <3>3
    <3>. QED BY <1>n, <1>t, <3>4, <3>5, <3>6
  <2>3. ASSUME NEW h \in Host
        PROVE  /\ probe[h] = "queued" => clock' <= Due(h)
               /\ probe[h] = "connecting" => clock' + timer'[h] <= Due(h) + Timeout
               /\ probe[h] = "reading" => clock' + timer'[h] <= Due(h) + Longest
    <3>1. probe[h] \in {"connecting", "reading"} =>
             clock' + timer'[h] = clock + timer[h]
      BY <1>n, <1>t, <2>1
    <3>. QED BY <1>0, <1>2, <2>2, <3>1 DEF OnTime
  <2>4. \A h \in Host : Due(h)' = Due(h)
    BY <1>t DEF Due
  <2>5. OnTime'
    BY <1>t, <2>3, <2>4 DEF OnTime
  <2>6. clock' <= Rounds * Longest
    <3>1. PICK h \in Host : probe[h] # "done"
      BY <1>2, <1>t DEF Ready, In
    <3>2. probe[h] \in {"queued", "connecting", "reading"}
      BY <1>0, <3>1 DEF TypeOK
    <3>3. Due(h) \in Nat /\ Due(h) + Longest <= Rounds * Longest
      BY <2>0
    <3>4. timer'[h] \in Nat /\ clock' \in Nat
      BY <1>n, <1>t
    <3>5. clock' <= Due(h) + Longest
      BY <1>n, <2>3, <3>2, <3>3, <3>4
    <3>6. Rounds * Longest \in Int
      <4>1. Rounds \in Int
        BY <1>2, <1>n, SweepAssumption DEF Rounds
      <4>. QED BY <4>1, <1>n
    <3>. QED BY <1>n, <3>3, <3>4, <3>5, <3>6
  <2>. QED BY <2>5, <2>6
<1>3. OnTime'
  BY <1>2, <1>t DEF OnTime
<1>4. InTime'
  BY <1>0, <1>2, <1>t DEF InTime, Rounds
<1>. QED BY <1>1, <1>3, <1>4

LEMMA TimeStep ==
    ASSUME TimeInvariant, [Next]_vars
    PROVE  InOrder' /\ OnTime' /\ Asked' /\ InTime'
<1>0. TypeOK /\ InOrder /\ OnTime /\ Asked /\ InTime /\ IInv
  BY DEF TimeInvariant, IInv
<1>n. /\ concurrency \in Nat /\ clock \in Nat /\ Timeout \in Nat /\ ReadTime \in Nat
      /\ Longest = Timeout + ReadTime
      /\ \A h \in Host : h \in Nat /\ timer[h] \in Nat
      /\ concurrency > 0 => \A h \in Host : Due(h) \in Nat
  BY <1>0, TimeNumbers, DueDates
<1>d. ASSUME concurrency' = concurrency PROVE \A h \in Host : Due(h)' = Due(h)
  BY <1>d DEF Due
<1>1. ASSUME NEW h \in Host, Acquire(h) PROVE InOrder' /\ OnTime'
  <2>1. /\ outcome = "running" /\ probe[h] = "queued"
        /\ \A g \in Host : probe[g] = "queued" => h <= g
        /\ probe' = [probe EXCEPT ![h] = "connecting"]
        /\ timer' = [timer EXCEPT ![h] = Timeout]
        /\ UNCHANGED <<concurrency, clock, outcome>>
    BY <1>1 DEF Acquire, In, world
  <2>2. InOrder'
    <3>. SUFFICES ASSUME NEW g \in Host, NEW f \in Host, f < g,
                         probe'[f] = "queued"
                  PROVE  probe'[g] = "queued"
      BY DEF InOrder
    <3>1. probe[f] = "queued" /\ h <= f
      BY <1>0, <2>1 DEF TypeOK
    <3>2. g # h /\ probe[g] = "queued"
      BY <1>0, <1>n, <2>1, <3>1 DEF InOrder
    <3>. QED BY <1>0, <2>1, <3>2 DEF TypeOK
  <2>3. concurrency > 0 => clock + Timeout <= Due(h) + Timeout
    BY <1>0, <1>n, <2>1 DEF OnTime
  <2>4. OnTime'
    BY <1>0, <1>d, <2>1, <2>3 DEF OnTime, TypeOK
  <2>. QED BY <2>2, <2>4
<1>2. ASSUME NEW h \in Host, Accept(h) PROVE InOrder' /\ OnTime'
  <2>1. /\ outcome = "running" /\ probe[h] = "connecting"
        /\ probe' = [probe EXCEPT ![h] = "reading"]
        /\ timer' = [timer EXCEPT ![h] = ReadTime]
        /\ UNCHANGED <<concurrency, clock, outcome>>
    BY <1>2 DEF Accept, world
  <2>2. InOrder'
    BY <1>0, <2>1 DEF InOrder, TypeOK
  <2>3. concurrency > 0 => clock + ReadTime <= Due(h) + Longest
    BY <1>0, <1>n, <2>1 DEF OnTime
  <2>4. OnTime'
    BY <1>0, <1>n, <1>d, <2>1, <2>3 DEF OnTime, TypeOK
  <2>. QED BY <2>2, <2>4
<1>3. ASSUME NEW h \in Host, Refuse(h) \/ Identify(h) PROVE InOrder' /\ OnTime'
  <2>1. /\ outcome = "running" /\ probe[h] \in {"connecting", "reading"}
        /\ probe' = [probe EXCEPT ![h] = "done"]
        /\ timer' = [timer EXCEPT ![h] = 0]
        /\ UNCHANGED <<concurrency, clock, outcome>>
    BY <1>3 DEF Refuse, Identify, Finish, world
  <2>2. InOrder'
    BY <1>0, <2>1 DEF InOrder, TypeOK
  <2>3. OnTime'
    BY <1>0, <1>d, <2>1 DEF OnTime, TypeOK
  <2>. QED BY <2>2, <2>3
<1>4. ASSUME NEW h \in Host, Acquire(h) \/ Accept(h) \/ Refuse(h) \/ Identify(h)
      PROVE  Asked' /\ InTime'
  <2>1. UNCHANGED <<concurrency, caller, clock, outcome>>
    BY <1>4 DEF Acquire, Accept, Refuse, Identify, Finish, world
  <2>. QED BY <1>0, <2>1 DEF Asked, InTime, Rounds
<1>5. CASE Return \/ Cancel
  BY <1>0, <1>5 DEF Return, Cancel, InOrder, OnTime, Asked, InTime, Rounds
<1>6. CASE Tick
  BY <1>6, TickOnTime
<1>7. CASE TimeOut
  <2>1. /\ caller = "waiting" /\ clock = CallTimeout /\ caller' = "timed out"
        /\ UNCHANGED <<concurrency, clock, probe, timer, outcome>>
    BY <1>7 DEF TimeOut
  <2>2. InOrder' /\ OnTime' /\ Asked'
    BY <1>0, <1>d, <2>1 DEF InOrder, OnTime, Asked
  <2>3. concurrency > 0 => CallTimeout <= Rounds * Longest
    BY <1>0, <2>1 DEF Asked, InTime
  <2>4. concurrency = 0 \/ concurrency > 0
    BY <1>n
  <2>5. concurrency > 0 => Rounds * Longest \in Int
    <3>. SUFFICES ASSUME concurrency > 0 PROVE Rounds * Longest \in Int
      OBVIOUS
    <3>1. Rounds \in Int
      BY <1>n, SweepAssumption DEF Rounds
    <3>. QED BY <1>n, <3>1
  <2>6. InTime'
    <3>1. (Rounds * Longest)' = Rounds * Longest
      BY <2>1 DEF Rounds
    <3>2. CallTimeout \in Int
      BY SweepAssumption
    <3>. QED BY <1>0, <2>1, <2>3, <2>4, <2>5, <3>1, <3>2 DEF InTime
  <2>. QED BY <2>2, <2>6
<1>8. CASE UNCHANGED vars
  BY <1>0, <1>8 DEF vars, InOrder, OnTime, Due, Asked, InTime, Rounds
<1>. QED BY <1>1, <1>2, <1>3, <1>4, <1>5, <1>6, <1>7, <1>8 DEF Next, Probe

(* A sweep takes no longer than its hosts in full rounds, each as long as  *)
(* the slowest probe; a request times out only if that is longer than      *)
(* CALL_TIMEOUT, or no probe may run at all (modbus_discovery.py:38,       *)
(* 75-76).                                                                 *)
THEOREM SweepsInTime == Spec => []InTime
<1>1. Init => TimeInvariant
  BY InitInv, TimeInit DEF TimeInvariant
<1>2. TimeInvariant /\ [Next]_vars => TimeInvariant'
  BY StepInv, TimeStep DEF TimeInvariant
<1>3. TimeInvariant => InTime
  BY DEF TimeInvariant
<1>. QED BY <1>1, <1>2, <1>3, PTL DEF Spec
=============================================================================
