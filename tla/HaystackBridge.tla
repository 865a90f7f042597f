--------------------------- MODULE HaystackBridge ---------------------------
(***************************************************************************)
(* fbf/haystack_bridge.py in its read mode: a process that polls the       *)
(* tagged points of Haxall and publishes their values, and in its first    *)
(* cycle also the tags of points and equips.  A point is published under   *)
(* the slug of its display name.                                           *)
(*                                                                         *)
(* The rows of a poll are those of one moment, in an order that is         *)
(* Haxall's; publishing them takes time.  What publish_reading does with a *)
(* reading is MqttSink's: here it returns, and the reading is the topic's  *)
(* retained one, or it raises.                                             *)
(***************************************************************************)
EXTENDS Folio

CONSTANT MaxBridgeStarts    \* bound: starts of the bridge

VARIABLES
    phase,              \* "down", "points", "rows", "equips", "equipRows"
    cycle,              \* the reads of this cycle still to come
    unpublished,        \* rows of the read in progress still to come, by id
    tagsSent,           \* tags_sent
    (* the retained messages below topic_prefix, per label *)
    shown,              \* value, 0 for null, or Unseen
    tags,               \* markers and equipRef published as tags, or NoTags
    equipTags,          \* equips whose tags are there
    (* history *)
    errors,             \* rows this process has had an error with
    bridgeStarts

CONSTANTS Unseen, NoTags

ASSUME PollerAssumption == Unseen \notin Nat /\ MaxBridgeStarts \in Nat

place == <<phase, cycle, unpublished, tagsSent>>
topics == <<shown, tags, equipTags>>
pollerVars == <<place, topics, errors, bridgeStarts>>

\* Faulty: the equips are read before the points.
EquipsFirst == <<"equips", "points">>
(* The reads of the first cycle. *)
FirstCycle == <<"points", "equips">>

BridgeOK ==
    /\ phase \in {"down", "points", "rows", "equips", "equipRows"}
    /\ \E ids \in SUBSET DOMAIN recs : unpublished \in [ids -> Rec]
    /\ tagsSent \in BOOLEAN
    /\ shown \in [Dis -> Value \cup {0, Unseen}]
    /\ tags \in [Dis -> [marked : BOOLEAN, ref : Nat] \cup {NoTags}]
    /\ equipTags \subseteq DOMAIN recs
    /\ errors \subseteq DOMAIN recs
    /\ bridgeStarts \in 0..MaxBridgeStarts

(* The grid of a readAll: the records of these ids. *)
Rows(ids) == [id \in ids |-> recs[id]]

BridgeInit ==
    /\ phase = "down" /\ cycle = <<>> /\ unpublished = Rows({}) /\ tagsSent = FALSE
    /\ shown = [d \in Dis |-> Unseen] /\ tags = [d \in Dis |-> NoTags] /\ equipTags = {}
    /\ errors = {} /\ bridgeStarts = 0

StartPolling ==
    /\ phase = "down" /\ bridgeStarts < MaxBridgeStarts
    /\ phase' = Head(FirstCycle) /\ cycle' = Tail(FirstCycle)
    /\ bridgeStarts' = bridgeStarts + 1
    /\ UNCHANGED <<unpublished, tagsSent, topics, errors>>

(* The process ends. *)
PollingEnds ==
    /\ phase' = "down" /\ cycle' = <<>> /\ unpublished' = Rows({})
    /\ tagsSent' = FALSE /\ errors' = {}
    /\ UNCHANGED <<topics, bridgeStarts>>

(* It is killed, or eval_axon raises, which nothing around it catches. *)
Dies ==
    /\ phase # "down"
    /\ PollingEnds

(* A read is through: the next one of the cycle, or tags_sent and, after a *)
(* sleep, the next cycle.                                                  *)
ReadThrough ==
    /\ unpublished' = Rows({})
    /\ IF cycle = <<>>
       THEN phase' = "points" /\ tagsSent' = TRUE /\ UNCHANGED cycle
       ELSE phase' = Head(cycle) /\ cycle' = Tail(cycle) /\ UNCHANGED tagsSent

(* The `for' over the rows comes to the row of this id, and to the next.   *)
RowDone(id) == unpublished' = [i \in DOMAIN unpublished \ {id} |-> unpublished[i]]

-----------------------------------------------------------------------------
(* read_once *)

(* point and (equipRef or writable) *)
Bridged(rec) == rec.what = "point" /\ (rec.ref # 0 \/ rec.writable)

ReadPoints ==
    /\ phase = "points"
    /\ unpublished' = Rows({id \in DOMAIN recs : Bridged(recs[id])})
    /\ phase' = "rows"
    /\ UNCHANGED <<cycle, tagsSent, topics, errors, bridgeStarts>>

Label(id) == unpublished[id].dis
AtRow(id) == phase = "rows" /\ id \in DOMAIN unpublished /\ Label(id) # NoDis

(* extract_tags leaves the live state out. *)
ExtractTags(rec) == [marked |-> rec.marked, ref |-> rec.ref]

\* Faulty: publishes values, too, in the first cycle only.
PublishRowOnce(id) ==
    /\ AtRow(id)
    /\ shown' = IF tagsSent THEN shown
                ELSE [shown EXCEPT ![Label(id)] = unpublished[id].curVal]
    /\ tags' = IF tagsSent THEN tags
               ELSE [tags EXCEPT ![Label(id)] = ExtractTags(unpublished[id])]
    /\ RowDone(id)
    /\ UNCHANGED <<phase, cycle, tagsSent, equipTags, errors, bridgeStarts>>
(* publish_reading of the value, and in the first cycle of the tags. *)
PublishRow(id) ==
    /\ AtRow(id)
    /\ shown' = [shown EXCEPT ![Label(id)] = unpublished[id].curVal]
    /\ tags' = IF tagsSent THEN tags
               ELSE [tags EXCEPT ![Label(id)] = ExtractTags(unpublished[id])]
    /\ RowDone(id)
    /\ UNCHANGED <<phase, cycle, tagsSent, equipTags, errors, bridgeStarts>>

(* One of the two raises: an error is counted, and it goes on. *)
PublishRowRaises(id) ==
    /\ AtRow(id)
    /\ shown' \in {shown, [shown EXCEPT ![Label(id)] = unpublished[id].curVal]}
    /\ tagsSent => shown' = shown
    /\ errors' = errors \cup {id}
    /\ RowDone(id)
    /\ UNCHANGED <<phase, cycle, tagsSent, tags, equipTags, bridgeStarts>>

(* slug(row["dis"]) is outside the try: a point without dis ends it all. *)
SlugRaises ==
    /\ phase = "rows"
    /\ \E id \in DOMAIN unpublished : Label(id) = NoDis
    /\ PollingEnds

RowsDone ==
    /\ phase = "rows" /\ DOMAIN unpublished = {}
    /\ ReadThrough
    /\ UNCHANGED <<topics, errors, bridgeStarts>>

-----------------------------------------------------------------------------
(* publish_equip_tags *)

EquipOrSite(rec) == rec.what \in {"equip", "site"}

ReadEquips ==
    /\ phase = "equips"
    /\ unpublished' = Rows({id \in DOMAIN recs : EquipOrSite(recs[id])})
    /\ phase' = "equipRows"
    /\ UNCHANGED <<cycle, tagsSent, topics, errors, bridgeStarts>>

PublishEquip(id) ==
    /\ phase = "equipRows" /\ id \in DOMAIN unpublished
    /\ \/ equipTags' = equipTags \cup {id} /\ UNCHANGED errors
       \/ errors' = errors \cup {id} /\ UNCHANGED equipTags
    /\ RowDone(id)
    /\ UNCHANGED <<phase, cycle, tagsSent, shown, tags, bridgeStarts>>

EquipsDone ==
    /\ phase = "equipRows" /\ DOMAIN unpublished = {}
    /\ ReadThrough
    /\ UNCHANGED <<topics, errors, bridgeStarts>>

-----------------------------------------------------------------------------
ReadMode ==
    \/ ReadPoints
    \/ \E id \in DOMAIN unpublished :
          PublishRow(id) \/ PublishRowRaises(id) \/ PublishEquip(id)
    \/ SlugRaises
    \/ RowsDone
    \/ ReadEquips
    \/ EquipsDone

PollerNext == StartPolling \/ Dies \/ ReadMode
=============================================================================
