-------------------------- MODULE ReadingDelivery --------------------------
(***************************************************************************)
(* What mqtt_sink promises the code that calls publish_reading, with no    *)
(* threads, no spool file and no MQTT client: a reading the sink has taken *)
(* stays pending until the broker has it, and the only other way out of    *)
(* pending is to be counted as lost.  Delivery is at least once.           *)
(*                                                                         *)
(* MqttSink!Delivery is the refinement mapping; `lost' there is filled at  *)
(* exactly three places: the cap of the spool, a torn line of it and a     *)
(* crash that takes the MQTT client's in-memory queue along.               *)
(***************************************************************************)
CONSTANT Reading        \* everything that may be handed to the sink

VARIABLES
    pending,            \* taken, and still somewhere the sink can send it from
    delivered,          \* the broker has it
    lost                \* given up

vars == <<pending, delivered, lost>>

Init ==
    /\ pending = {}
    /\ delivered = {}
    /\ lost = {}

(* The sink takes a reading it never had. *)
Take(r) ==
    /\ r \notin pending \cup delivered \cup lost
    /\ pending' = pending \cup {r}
    /\ UNCHANGED <<delivered, lost>>

(* The sink takes a reading and loses it, or another, in the same step. *)
TakeAndLose(r, S) ==
    /\ r \notin pending \cup delivered \cup lost
    /\ S \subseteq pending \cup {r}
    /\ pending' = (pending \cup {r}) \ S
    /\ lost' = lost \cup (S \ delivered)
    /\ UNCHANGED delivered

(* The broker receives a pending reading, possibly not for the first time; *)
(* without an acknowledgement it stays pending and is sent again.          *)
Deliver(r) ==
    /\ r \in pending
    /\ delivered' = delivered \cup {r}
    /\ pending' \in {pending, pending \ {r}}
    /\ UNCHANGED lost

(* Pending readings are dropped: no harm for those the broker has, and a   *)
(* recorded loss for the others.                                           *)
Forget(S) ==
    /\ S \subseteq pending
    /\ pending' = pending \ S
    /\ lost' = lost \cup (S \ delivered)
    /\ UNCHANGED delivered

Next ==
    \/ \E r \in Reading : Take(r) \/ Deliver(r)
    \/ \E r \in Reading : \E S \in SUBSET (pending \cup {r}) : TakeAndLose(r, S)
    \/ \E S \in SUBSET pending : Forget(S)

Spec == Init /\ [][Next]_vars
=============================================================================
