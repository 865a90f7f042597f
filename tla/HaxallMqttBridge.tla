-------------------------- MODULE HaxallMqttBridge --------------------------
(***************************************************************************)
(* fbf/haxall_mqtt_bridge.py: a process that reads Haxall's fbfPoint       *)
(* records once, subscribes to their topics once, and turns each message   *)
(* into one hisWrite, with the time of the write.                          *)
(*                                                                         *)
(* One thread does all of it: loop_forever calls on_message, and with it   *)
(* hisWrite, for one message after the other.  The session is a clean one: *)
(* the broker forgets its subscriptions with the connection, and           *)
(* subscriptions are of QoS 0.  A subscription brings the topic's retained *)
(* message first.  The broker, paho, Haxall and Timberdoodle are modelled  *)
(* from how the bridge uses them.                                          *)
(***************************************************************************)
EXTENDS Integers, Sequences

CONSTANTS
    Topic,              \* topics of readings
    Ref,                \* Haxall's points
    Grids,              \* what readAll(fbfPoint) may return: sequences of rows
    Kind,               \* kinds of message that may come, see Usable
    MaxArrivals,        \* bound: messages the broker receives
    MaxLinkLosses,      \* bound: connections lost
    MaxStarts,          \* bound: starts of the bridge
    None

ASSUME GridAssumption ==
    /\ None \notin Topic \cup Ref
    /\ \A grid \in Grids : grid \in Seq([ref : Ref, fbfCur : Topic \cup {None}])
ASSUME KindAssumption == Kind \subseteq {"number", "zero", "other", "garbled", "list"}
ASSUME BoundAssumption ==
    MaxArrivals \in Nat /\ MaxLinkLosses \in Nat /\ MaxStarts \in Nat

VARIABLES
    (* the bridge *)
    pc,                 \* "down", "tagging", "connecting", "subscribing", "listening"
    rows,               \* what it has read
    topicMap,           \* topic_map: the ref of a topic, or None
    next,               \* index of the row it comes to next
    (* the broker and the connection *)
    linked,             \* the bridge is connected
    subscribed,         \* topics of its session
    inbox,              \* messages on the way to on_message
    retained,           \* last message of each topic, or NoMessage
    arrivals,           \* messages the broker has received
    (* Haxall *)
    grid,               \* Haxall's fbfPoint records
    his,                \* what hisWrite has recorded
    abandoned,          \* hisWrites it may still do that no one waits for
    (* history and bounds *)
    failed,             \* entries whose hisWrite raised, or was cut off by a kill
    relinked,           \* the bridge has reconnected since it was started
    losses, starts

bridge == <<pc, rows, topicMap, next>>
broker == <<linked, subscribed, inbox, retained, arrivals>>
haxall == <<grid, his, abandoned>>
history == <<failed, relinked, losses, starts>>
bridgeVars == <<bridge, broker, haxall, history>>

(* A message, by its place among the arrivals. *)
Message == [topic : Topic, at : 1..MaxArrivals, kind : Kind]
NoMessage == [topic |-> None, at |-> 0, kind |-> "none"]
Entry == [ref : Ref, message : Message, start : 1..MaxStarts]

TypeOK ==
    /\ pc \in {"down", "tagging", "connecting", "subscribing", "listening"}
    /\ rows \in Grids \cup {<<>>} /\ grid \in Grids
    /\ topicMap \in [Topic -> Ref \cup {None}]
    /\ next \in Nat \ {0}
    /\ linked \in BOOLEAN /\ relinked \in BOOLEAN
    /\ subscribed \subseteq Topic
    /\ inbox \in Seq(Message)
    /\ retained \in [Topic -> Message \cup {NoMessage}]
    /\ arrivals \in 0..MaxArrivals
    /\ his \in Seq(Entry)
    /\ abandoned \subseteq failed /\ failed \subseteq Entry
    /\ losses \in 0..MaxLinkLosses /\ starts \in 0..MaxStarts

-----------------------------------------------------------------------------
(* The topic map *)

Mapped(r, t) == r.fbfCur = t

(* build_topic_map: a row without fbfCur is left out, and of several rows  *)
(* with one topic the last is kept.                                        *)
BuildTopicMap(read) ==
    [t \in Topic |->
        IF \E i \in DOMAIN read : Mapped(read[i], t)
        THEN LET last == CHOOSE i \in DOMAIN read :
                            /\ Mapped(read[i], t)
                            /\ \A j \in DOMAIN read : Mapped(read[j], t) => j <= i
             IN  read[last].ref
        ELSE None]

Topics(map) == {t \in Topic : map[t] # None}

(* The keys of topic_map are in the order of their insertion: that of      *)
(* their first row.                                                        *)
FirstRow(i) ==
    /\ rows[i].fbfCur # None
    /\ \A j \in 1..(i - 1) : ~Mapped(rows[j], rows[i].fbfCur)

-----------------------------------------------------------------------------
(* The process: main *)

Init ==
    /\ pc = "down" /\ rows = <<>> /\ topicMap = [t \in Topic |-> None] /\ next = 1
    /\ linked = FALSE /\ subscribed = {} /\ inbox = <<>>
    /\ retained = [t \in Topic |-> NoMessage] /\ arrivals = 0
    /\ grid \in Grids /\ his = <<>> /\ abandoned = {}
    /\ failed = {} /\ relinked = FALSE /\ losses = 0 /\ starts = 0

(* connect and readAll(fbfPoint) succeed, and there is a topic. *)
Start ==
    /\ pc = "down" /\ starts < MaxStarts
    /\ Topics(BuildTopicMap(grid)) # {}
    /\ rows' = grid /\ topicMap' = BuildTopicMap(grid)
    /\ pc' = "tagging" /\ next' = 1
    /\ starts' = starts + 1 /\ relinked' = FALSE
    /\ UNCHANGED <<broker, haxall, failed, losses>>

(* The process ends: by an exception, or killed. *)
Ends ==
    /\ pc' = "down" /\ linked' = FALSE /\ subscribed' = {} /\ inbox' = <<>>
    /\ UNCHANGED <<rows, topicMap, next, retained, arrivals>>

(* push_tags, a row: Timberdoodle gets the tags, or the request fails and  *)
(* is reported; nothing in here depends on it.                             *)
PushTags ==
    /\ pc = "tagging" /\ next <= Len(rows)
    /\ next' = next + 1
    /\ UNCHANGED <<pc, rows, topicMap, broker, haxall, history>>

TagsPushed ==
    /\ pc = "tagging" /\ next > Len(rows)
    /\ pc' = "connecting"
    /\ UNCHANGED <<rows, topicMap, next, broker, haxall, history>>

(* client.connect. *)
Connect ==
    /\ pc = "connecting"
    /\ linked' = TRUE
    /\ pc' = "subscribing" /\ next' = 1
    /\ UNCHANGED <<rows, topicMap, subscribed, inbox, retained, arrivals, haxall,
                   history>>
ConnectRaises ==
    /\ pc = "connecting"
    /\ Ends
    /\ UNCHANGED <<haxall, history>>

(* client.subscribe, for each key; without a connection it does nothing.   *)
(* A row that is not the first of its topic has brought no key.            *)
Subscribe ==
    /\ pc = "subscribing" /\ next <= Len(rows)
    /\ IF FirstRow(next) /\ linked
       THEN LET t == rows[next].fbfCur IN
            /\ subscribed' = subscribed \cup {t}
            /\ inbox' = IF retained[t] = NoMessage THEN inbox
                                                   ELSE Append(inbox, retained[t])
       ELSE UNCHANGED <<subscribed, inbox>>
    /\ next' = next + 1
    /\ UNCHANGED <<pc, rows, topicMap, linked, retained, arrivals, haxall, history>>

\* Faulty: leaves the last row out.
LoopForeverEarly ==
    /\ pc = "subscribing" /\ next >= Len(rows)
    /\ pc' = "listening"
    /\ UNCHANGED <<rows, topicMap, next, broker, haxall, history>>
LoopForever ==
    /\ pc = "subscribing" /\ next > Len(rows)
    /\ pc' = "listening"
    /\ UNCHANGED <<rows, topicMap, next, broker, haxall, history>>

-----------------------------------------------------------------------------
(* on_message *)

Consume == inbox' = Tail(inbox)

\* Faulty: takes zero for no value.
NonZero(m) == m.kind = "number"
(* A JSON object whose value is a number and not a bool. *)
Usable(m) == m.kind \in {"number", "zero"}

(* The message on_message turns into a hisWrite, and what that records. *)
Writing ==
    /\ pc = "listening" /\ inbox # <<>>
    /\ Usable(Head(inbox)) /\ topicMap[Head(inbox).topic] # None
Written == [ref |-> topicMap[Head(inbox).topic], message |-> Head(inbox), start |-> starts]

(* The bridge no longer waits for the hisWrite, which Haxall may never do, *)
(* or do at any time from now on (HisWriteLands).                          *)
GiveUp ==
    /\ Writing
    /\ abandoned' \in {abandoned, abandoned \cup {Written}}
    /\ failed' = failed \cup {Written}

Kill ==
    /\ pc # "down"
    /\ Ends
    /\ GiveUp \/ UNCHANGED <<abandoned, failed>>
    /\ UNCHANGED <<grid, his, relinked, losses, starts>>

(* No ref, no JSON, or no number. *)
Skip ==
    /\ pc = "listening" /\ inbox # <<>>
    /\ topicMap[Head(inbox).topic] = None
          \/ (~Usable(Head(inbox)) /\ Head(inbox).kind # "list")
    /\ Consume
    /\ UNCHANGED <<bridge, linked, subscribed, retained, arrivals, haxall, history>>

\* Faulty: leaves the message to another thread, and goes on to the next.
HisWriteLater ==
    /\ pc = "listening" /\ inbox # <<>>
    /\ \E i \in DOMAIN inbox :
          /\ Usable(inbox[i]) /\ topicMap[inbox[i].topic] # None
          /\ inbox' = SubSeq(inbox, 1, i - 1) \o SubSeq(inbox, i + 1, Len(inbox))
          /\ his' = Append(his, [ref |-> topicMap[inbox[i].topic],
                                 message |-> inbox[i], start |-> starts])
    /\ UNCHANGED <<bridge, linked, subscribed, retained, arrivals, grid, abandoned, history>>
(* hisWrite at the time of the write, whatever the reading's own ts is. *)
HisWrite ==
    /\ Writing
    /\ Consume
    /\ his' = Append(his, Written)
    /\ UNCHANGED <<bridge, linked, subscribed, retained, arrivals, grid, abandoned, history>>

(* eval_axon raises, be it that Haxall has refused the write or that its   *)
(* answer did not come within 15 s: the exception is printed, and nothing  *)
(* repeated.                                                               *)
HisWriteRaises ==
    /\ GiveUp
    /\ Consume
    /\ UNCHANGED <<bridge, linked, subscribed, retained, arrivals, grid, his, relinked,
                   losses, starts>>

(* JSON that is no object has no get: the AttributeError ends loop_forever. *)
OnMessageRaises ==
    /\ pc = "listening" /\ inbox # <<>>
    /\ Head(inbox).kind = "list" /\ topicMap[Head(inbox).topic] # None
    /\ Ends
    /\ UNCHANGED <<haxall, history>>

-----------------------------------------------------------------------------
(* The broker, the link and Haxall *)

(* A message comes to the broker, which retains it and forwards it. *)
BrokerReceives(t, kind) ==
    /\ arrivals < MaxArrivals
    /\ arrivals' = arrivals + 1
    /\ LET m == [topic |-> t, at |-> arrivals + 1, kind |-> kind] IN
          /\ retained' = [retained EXCEPT ![t] = m]
          /\ inbox' = IF t \in subscribed THEN Append(inbox, m) ELSE inbox
    /\ UNCHANGED <<bridge, linked, subscribed, haxall, history>>

LinkLost ==
    /\ linked /\ losses < MaxLinkLosses
    /\ linked' = FALSE /\ subscribed' = {} /\ inbox' = <<>>
    /\ losses' = losses + 1
    /\ UNCHANGED <<bridge, retained, arrivals, haxall, failed, relinked, starts>>

(* loop_forever reconnects; main's subscriptions are not repeated. *)
Reconnect ==
    /\ pc = "listening" /\ ~linked
    /\ linked' = TRUE /\ relinked' = TRUE
    /\ UNCHANGED <<bridge, subscribed, inbox, retained, arrivals, haxall, failed,
                   losses, starts>>

(* Someone edits the fbfPoint records. *)
GridChanges ==
    /\ grid' \in Grids /\ grid' # grid
    /\ UNCHANGED <<bridge, broker, his, abandoned, history>>

(* Haxall does a hisWrite the bridge had given up, be it before or after   *)
(* those of the messages that came next.                                   *)
HisWriteLands ==
    /\ \E entry \in abandoned : his' = Append(his, entry) /\ abandoned' = abandoned \ {entry}
    /\ UNCHANGED <<bridge, broker, grid, history>>

-----------------------------------------------------------------------------
OnMessage == Skip \/ HisWrite \/ HisWriteRaises \/ OnMessageRaises

Main ==
    \/ Start
    \/ PushTags
    \/ TagsPushed
    \/ Connect
    \/ ConnectRaises
    \/ Subscribe
    \/ LoopForever

BridgeNext ==
    Main \/ OnMessage \/ Kill \/ LinkLost \/ Reconnect \/ GridChanges \/ HisWriteLands

(* The thread runs: each request of it ends, with an answer or at its      *)
(* timeout.  Nobody is obliged to restart the process.                     *)
BridgeFairness ==
    /\ WF_bridgeVars(PushTags \/ TagsPushed \/ Connect \/ ConnectRaises
                       \/ Subscribe \/ LoopForever)
    /\ WF_bridgeVars(OnMessage)
    /\ WF_bridgeVars(Reconnect)
=============================================================================
