---------------------------- MODULE ModbusSweep ----------------------------
(***************************************************************************)
(* fbf/modbus_discovery.py: a sweep of a subnet by one probe per host, as  *)
(* many at once as a semaphore lets through, and the request that waits    *)
(* for it no longer than CALL_TIMEOUT (fbf/api.py).                        *)
(*                                                                         *)
(* Everything runs on the asyncio loop, which is taken to be in time: what *)
(* can go on does so before the clock ticks.  A connect() ends within      *)
(* Timeout ticks, and a read, which is sent again once (retries=1), within *)
(* twice that.  pymodbus is modelled from how the probe uses it.           *)
(***************************************************************************)
EXTENDS Integers, FiniteSets

CONSTANTS
    NumHosts,           \* hosts of the cidr
    Concurrencies,      \* what a request may ask for as concurrency
    Timeout,            \* timeout of a connect() and of each attempt to read
    CallTimeout,        \* CALL_TIMEOUT
    Horizon,            \* bound: the last tick
    None

(* A host that does not tell who it is is found all the same. *)
Device == {"named", "anonymous"}

ASSUME SweepAssumption ==
    /\ None \notin Device
    /\ NumHosts \in Nat \ {0}
    /\ Concurrencies \subseteq Nat
    /\ Timeout \in Nat \ {0} /\ CallTimeout \in Nat /\ Horizon \in Nat

Host == 1..NumHosts
ReadTime == 2 * Timeout

VARIABLES
    concurrency,        \* the request's
    free,               \* the semaphore's value
    probe,              \* per host "queued", "connecting", "reading" or "done"
    timer,              \* time its connect() or read has left
    results,            \* what gather has for it: None or a device
    open,               \* hosts with an open client
    outcome,            \* the sweep: "running", "returned", "cancelled"
    devices,            \* what it returned
    caller,             \* the request: "waiting", "answered", "timed out"
    clock,
    accepted            \* history: hosts whose connect() came back true

world == <<concurrency, caller, clock>>
vars == <<concurrency, free, probe, timer, results, open, outcome, devices,
          caller, clock, accepted>>

TypeOK ==
    /\ concurrency \in Concurrencies
    /\ free \in 0..concurrency
    /\ probe \in [Host -> {"queued", "connecting", "reading", "done"}]
    /\ timer \in [Host -> 0..ReadTime]
    /\ results \in [Host -> Device \cup {None}]
    /\ open \subseteq Host /\ accepted \subseteq Host
    /\ outcome \in {"running", "returned", "cancelled"}
    /\ devices \subseteq Host
    /\ caller \in {"waiting", "answered", "timed out"}
    /\ clock \in 0..Horizon

Init ==
    /\ concurrency \in Concurrencies /\ free = concurrency
    /\ probe = [h \in Host |-> "queued"] /\ timer = [h \in Host |-> 0]
    /\ results = [h \in Host |-> None]
    /\ open = {} /\ accepted = {} /\ outcome = "running" /\ devices = {}
    /\ caller = "waiting" /\ clock = 0

In(state) == {h \in Host : probe[h] = state}

-----------------------------------------------------------------------------
(* bounded and _probe_one *)

HasPlace == free > 0

(* The semaphore's waiters are served first come first served; the probe   *)
(* then makes its client and calls connect().                              *)
Acquire(h) ==
    /\ outcome = "running"
    /\ probe[h] = "queued" /\ HasPlace
    /\ \A g \in In("queued") : h <= g
    /\ free' = free - 1
    /\ open' = open \cup {h}
    /\ probe' = [probe EXCEPT ![h] = "connecting"]
    /\ timer' = [timer EXCEPT ![h] = Timeout]
    /\ UNCHANGED <<world, results, outcome, devices, accepted>>

Accept(h) ==
    /\ outcome = "running" /\ probe[h] = "connecting"
    /\ accepted' = accepted \cup {h}
    /\ probe' = [probe EXCEPT ![h] = "reading"]
    /\ timer' = [timer EXCEPT ![h] = ReadTime]
    /\ UNCHANGED <<world, free, results, open, outcome, devices>>

\* Faulty: close() and the release only after a connect() that came back true.
ReleaseConnected(h) ==
    IF probe[h] = "reading" THEN open' = open \ {h} /\ free' = free + 1
                            ELSE UNCHANGED <<open, free>>
(* finally: client.close(), and the place is the next one's. *)
Release(h) == open' = open \ {h} /\ free' = free + 1

Finish(h, result) ==
    /\ results' = [results EXCEPT ![h] = result]
    /\ probe' = [probe EXCEPT ![h] = "done"]
    /\ timer' = [timer EXCEPT ![h] = 0]
    /\ Release(h)
    /\ UNCHANGED <<world, outcome, devices, accepted>>

(* connect() returns False or raises: None. *)
Refuse(h) == outcome = "running" /\ probe[h] = "connecting" /\ Finish(h, None)

(* The identification is read, or is an error, or raises. *)
Identify(h) ==
    /\ outcome = "running" /\ probe[h] = "reading"
    /\ \E d \in Device : Finish(h, d)

-----------------------------------------------------------------------------
(* sweep *)

Found(h) == results[h] # None

(* gather has an answer of every probe; those that are None are left out. *)
Return ==
    /\ outcome = "running" /\ In("done") = Host
    /\ outcome' = "returned"
    /\ devices' = {h \in Host : Found(h)}
    /\ caller' = IF caller = "waiting" THEN "answered" ELSE caller
    /\ UNCHANGED <<concurrency, clock, free, probe, timer, results, open, accepted>>

\* Faulty: leaves the clients open.
CancelProbes == UNCHANGED <<open, free>>
(* Each probe's finally closes its client. *)
CloseAll == open' = {} /\ free' = concurrency

(* The loop ends and cancels the sweep: gather passes it on to the probes, *)
(* and a request that waits gets an error.                                 *)
Cancel ==
    /\ outcome = "running"
    /\ outcome' = "cancelled"
    /\ probe' = [h \in Host |-> "done"] /\ timer' = [h \in Host |-> 0]
    /\ CloseAll
    /\ caller' = IF caller = "waiting" THEN "answered" ELSE caller
    /\ UNCHANGED <<concurrency, clock, results, devices, accepted>>

-----------------------------------------------------------------------------
(* Time, and the request *)

Ready ==
    /\ outcome = "running"
    /\ \/ In("queued") # {} /\ HasPlace
       \/ In("done") = Host
       \/ \E h \in In("connecting") \cup In("reading") : timer[h] = 0

Tick ==
    /\ ~Ready /\ clock < Horizon
    /\ caller = "waiting" => clock < CallTimeout
    /\ clock' = clock + 1
    /\ timer' = [h \in Host |-> IF timer[h] = 0 THEN 0 ELSE timer[h] - 1]
    /\ UNCHANGED <<concurrency, caller, free, probe, results, open, outcome,
                   devices, accepted>>

(* The wait is over, and the request is answered with an error; the sweep  *)
(* goes on.                                                                *)
TimeOut ==
    /\ caller = "waiting" /\ clock = CallTimeout /\ ~Ready
    /\ caller' = "timed out"
    /\ UNCHANGED <<concurrency, clock, free, probe, timer, results, open,
                   outcome, devices, accepted>>

Probe == \E h \in Host : Acquire(h) \/ Accept(h) \/ Refuse(h) \/ Identify(h)

Next == Probe \/ Return \/ Cancel \/ Tick \/ TimeOut

Spec == Init /\ [][Next]_vars

(* The loop runs, each connect() and read ends, and time passes. *)
FairSpec ==
    /\ Spec
    /\ \A h \in Host : WF_vars(Acquire(h)) /\ WF_vars(Accept(h) \/ Refuse(h) \/ Identify(h))
    /\ WF_vars(Return) /\ WF_vars(Tick) /\ WF_vars(TimeOut)

-----------------------------------------------------------------------------
(* Properties *)

(* "bounded to `concurrency` simultaneous attempts"                        *)
(* (modbus_discovery.py:60-61): never more sockets than that, none that    *)
(* outlives its probe, and none left when the sweep has returned or was    *)
(* cancelled.                                                              *)
SocketsBounded ==
    /\ Cardinality(open) <= concurrency
    /\ open \cap In("done") = {}
    /\ outcome # "running" => open = {}

(* What a sweep returns is every host that has accepted the connection and *)
(* no other, whatever the identification gives (modbus_discovery.py:8,     *)
(* 45-46).                                                                 *)
FindsAll == outcome = "returned" => devices = accepted

Rounds == (NumHosts + concurrency - 1) \div concurrency
Longest == Timeout + ReadTime

(* A sweep takes at most as long as its hosts in full rounds of            *)
(* `concurrency', each as long as the slowest probe may be; so a request   *)
(* times out only when that is longer than CALL_TIMEOUT, or its            *)
(* concurrency is 0.                                                       *)
InTime ==
    /\ (concurrency > 0 /\ outcome = "running") => clock <= Rounds * Longest
    /\ caller = "timed out" => concurrency = 0 \/ Rounds * Longest >= CallTimeout

(* Every sweep ends, but one without a place for any probe, and every      *)
(* request is answered.                                                    *)
SweepEnds ==
    /\ concurrency > 0 ~> outcome # "running"
    /\ <>(caller # "waiting")
=============================================================================
