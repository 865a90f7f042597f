--------------------------- MODULE HistoryPipeline ---------------------------
(***************************************************************************)
(* Readings on their way into Haxall's history: fbf's sink, as far as it   *)
(* promises anything (ReadingDelivery, which MqttSink implements), the     *)
(* broker, and the Haxall MQTT bridge.                                     *)
(*                                                                         *)
(* The sink delivers at least once and in any order.  Readings that are    *)
(* no numbers come from it, too; other senders on a topic are not bound to *)
(* its envelope.                                                           *)
(***************************************************************************)
EXTENDS HaxallMqttBridge

CONSTANTS
    Reading,            \* what may be handed to the sink
    OtherKind           \* kinds of message other senders may publish

ASSUME ReadingAssumption ==
    /\ \A r \in Reading : r.topic \in Topic /\ r.kind \in Kind \cap {"number", "zero", "other"}
    /\ OtherKind \subseteq Kind

VARIABLES pending, delivered, lost

feed == <<pending, delivered, lost>>
vars == <<bridgeVars, feed>>

Feed == INSTANCE ReadingDelivery

PipelineInit == Init /\ Feed!Init

SinkTakes == UNCHANGED bridgeVars /\ \E r \in Reading : Feed!Take(r)
SinkLoses == UNCHANGED bridgeVars /\ \E S \in SUBSET pending : S # {} /\ Feed!Forget(S)
SinkDelivers == \E r \in Reading : Feed!Deliver(r) /\ BrokerReceives(r.topic, r.kind)
OtherPublishes ==
    /\ \E topic \in Topic, kind \in OtherKind : BrokerReceives(topic, kind)
    /\ UNCHANGED feed

Next ==
    \/ SinkTakes
    \/ SinkLoses
    \/ SinkDelivers
    \/ OtherPublishes
    \/ (BridgeNext /\ UNCHANGED feed)

Spec == PipelineInit /\ [][Next]_vars
FairSpec == Spec /\ BridgeFairness

-----------------------------------------------------------------------------
(* Properties *)

(* A point's history follows the arrivals at the broker; an entry is out   *)
(* of order only if the bridge had given its hisWrite up, and Haxall did   *)
(* it later than the next ones.  Late or not, a message stands in the      *)
(* history twice only when the bridge was started again in between, and    *)
(* got it once more as the retained one.                                   *)
HistoryInArrivalOrder ==
    \A i, j \in DOMAIN his :
        (i < j /\ his[i].message.topic = his[j].message.topic) =>
            /\ his[i].message.at <= his[j].message.at \/ his[j] \in failed
            /\ his[i].message.at = his[j].message.at => his[i].start # his[j].start

Recorded(n) == \E i \in DOMAIN his : his[i].message.at = n
(* The start under way has had an error with it. *)
Raised(n) == \E entry \in failed : entry.message.at = n /\ entry.start = starts

(* While the bridge listens, every number that comes to the broker on a    *)
(* mapped topic is recorded, unless its hisWrite raises, the link breaks,  *)
(* the process ends, or the link broke earlier on: see Reconnect.          *)
ListenedIsRecorded ==
    \A topic \in Topic, n \in 1..MaxArrivals :
        (/\ pc = "listening" /\ linked /\ ~relinked /\ topicMap[topic] # None
         /\ arrivals = n /\ retained[topic].at = n
         /\ retained[topic].kind \in {"number", "zero"})
            ~> (Recorded(n) \/ Raised(n) \/ ~linked \/ relinked)

(* And it starts with what the broker has had of each mapped topic before. *)
StartsWithRetained ==
    \A topic \in Topic, n \in 1..MaxArrivals :
        (/\ pc = "connecting" /\ topicMap[topic] # None /\ retained[topic].at = n
         /\ retained[topic].kind \in {"number", "zero"})
            ~> (Recorded(n) \/ Raised(n) \/ pc = "down" \/ losses = MaxLinkLosses
                \/ retained[topic].at # n)
=============================================================================
