---------------------------- MODULE HaxallProofs ----------------------------
(***************************************************************************)
(* Theorems about the two ways between fbf and Haxall: HistoryPipeline,    *)
(* for any topics, points, grids and readings, and HaxallReadback, for any *)
(* plan of the script.                                                     *)
(*                                                                         *)
(* That a history follows the arrivals rests on three orders: the inbox is *)
(* in the order of the arrivals (InboxInOrder), what is recorded, or may   *)
(* still be by a hisWrite that was given up, is before what is in the      *)
(* inbox (RecordedBefore), and what a subscription brings is the last      *)
(* arrival of its topic (RetainsLast) and comes once a start (Sessions).   *)
(* What was given up is not in the history already (Apart).  That a        *)
(* listening bridge misses nothing rests on what it    *)
(* has subscribed so far (SessionInv).                                     *)
(*                                                                         *)
(* What the script promises rests on what every record in Haxall, in the   *)
(* script's hands and among its lost commits is like (WellMade), on the    *)
(* order of the plan (PlanOrdered), and on what its steps so far have      *)
(* brought about (Earlier), which no later step undoes (Grows).  The       *)
(* bridge adds that it has read such records, and in which order (Cycle).  *)
(***************************************************************************)
EXTENDS HaxallReadback, HistoryPipeline, FiniteSetTheorems, SequenceTheorems,
        WellFoundedInduction, TLAPS

InboxInOrder ==
    \A i, j \in DOMAIN inbox :
        (i < j /\ inbox[i].topic = inbox[j].topic) => inbox[i].at < inbox[j].at

(* The entries recorded, or given up and perhaps still to be.              *)
Had == {his[i] : i \in DOMAIN his} \cup abandoned

(* They are no later than what is still to come; a message that comes      *)
(* again they have from an earlier start.                                  *)
RecordedBefore ==
    \A e \in Had, j \in DOMAIN inbox :
        e.message.topic = inbox[j].topic =>
            /\ e.message.at <= inbox[j].at
            /\ e.message.at = inbox[j].at => e.start < starts

(* The broker retains the last arrival of each topic. *)
RetainsLast ==
    /\ \A t \in Topic :
          /\ retained[t] # NoMessage => retained[t].topic = t
          /\ retained[t].at <= arrivals
    /\ \A j \in DOMAIN inbox : inbox[j].at <= retained[inbox[j].topic].at
    /\ \A e \in Had : e.message.at <= retained[e.message.topic].at

SomeRowBefore(t) == \E k \in 1..(next - 1) : rows[k].fbfCur = t

(* A start subscribes each topic once, after everything that earlier       *)
(* starts have recorded.                                                   *)
Sessions ==
    /\ pc # "down" => starts > 0
    /\ \A e \in Had :
          /\ e.start <= starts
          /\ pc \in {"tagging", "connecting", "subscribing"} => e.start < starts
    /\ pc \in {"down", "tagging", "connecting"} => inbox = <<>> /\ subscribed = {}
    /\ pc = "subscribing" =>
          /\ \A t \in subscribed : SomeRowBefore(t)
          /\ \A j \in DOMAIN inbox : SomeRowBefore(inbox[j].topic)

(* A start gives a message up once, and has not recorded it.               *)
Same(e, f) ==
    /\ e.message.topic = f.message.topic /\ e.message.at = f.message.at
    /\ e.start = f.start
Apart ==
    /\ \A i \in DOMAIN his, f \in abandoned : ~Same(his[i], f)
    /\ \A e, f \in abandoned : Same(e, f) => e = f

HistoryInv ==
    TypeOK /\ InboxInOrder /\ RecordedBefore /\ RetainsLast /\ Sessions /\ Apart
           /\ HistoryInArrivalOrder

-----------------------------------------------------------------------------
(* The topic map *)

LessThan == {ss \in Nat \X Nat : ss[1] < ss[2]}

LEMMA NoDescent == IsWellFoundedOn(LessThan, Nat)
  BY NatLessThanWellFounded DEF OpToRel, LessThan

(* Of the rows with a topic there is a last one. *)
LEMMA LastExists ==
    ASSUME NEW n \in Nat, NEW S \in SUBSET (1..n), S # {}
    PROVE  \E m \in S : \A k \in S : k <= m
<1>. DEFINE T == {k \in Nat : k <= n /\ n - k \in S}
<1>1. T \subseteq Nat /\ T # {}
  <2>1. PICK m \in S : m \in 1..n
    OBVIOUS
  <2>2. n - m \in Nat /\ n - m <= n /\ n - (n - m) = m
    BY <2>1
  <2>. QED BY <2>1, <2>2
<1>2. \E x \in T : \A y \in T : <<y, x>> \notin LessThan
  <2>. HIDE DEF T
  <2>. QED BY NoDescent, <1>1, WFMin
<1>3. PICK k \in T : \A y \in T : ~(y < k)
  BY <1>2 DEF LessThan
<1>4. ASSUME NEW m \in S PROVE m <= n - k
  <2>1. n - m \in T
    BY <1>4
  <2>. QED BY <1>3, <2>1
<1>. QED BY <1>3, <1>4

LEMMA TopicMapType ==
    ASSUME NEW g \in Grids
    PROVE  BuildTopicMap(g) \in [Topic -> Ref \cup {None}]
<1>1. g \in Seq([ref : Ref, fbfCur : Topic \cup {None}])
  BY GridAssumption
<1>2. ASSUME NEW t \in Topic, \E i \in DOMAIN g : Mapped(g[i], t)
      PROVE  g[CHOOSE i \in DOMAIN g :
                 /\ Mapped(g[i], t)
                 /\ \A j \in DOMAIN g : Mapped(g[j], t) => j <= i].ref \in Ref
  <2>. DEFINE S == {i \in DOMAIN g : Mapped(g[i], t)}
  <2>1. Len(g) \in Nat /\ DOMAIN g = 1..Len(g)
    BY <1>1
  <2>2. S \in SUBSET (1..Len(g)) /\ S # {}
    BY <1>2, <2>1
  <2>3. \E m \in S : \A k \in S : k <= m
    <3>. HIDE DEF S
    <3>. QED BY <2>1, <2>2, LastExists
  <2>4. \E i \in DOMAIN g :
           /\ Mapped(g[i], t)
           /\ \A j \in DOMAIN g : Mapped(g[j], t) => j <= i
    BY <2>3
  <2>. DEFINE last == CHOOSE i \in DOMAIN g :
                         /\ Mapped(g[i], t)
                         /\ \A j \in DOMAIN g : Mapped(g[j], t) => j <= i
  <2>5. last \in DOMAIN g
    BY <2>4
  <2>6. g[last].ref \in Ref
    <3>. HIDE DEF last
    <3>1. g[last] \in [ref : Ref, fbfCur : Topic \cup {None}]
      BY <1>1, <2>1, <2>5, ElementOfSeq
    <3>. QED BY <3>1
  <2>. QED BY <2>6
<1>. QED BY <1>2 DEF BuildTopicMap

-----------------------------------------------------------------------------
(* Queues *)

LEMMA AfterAppend ==
    ASSUME NEW S, NEW s \in Seq(S), NEW e \in S
    PROVE  /\ Append(s, e) \in Seq(S)
           /\ DOMAIN s = 1..Len(s) /\ Len(s) \in Nat
           /\ DOMAIN Append(s, e) = 1..(Len(s) + 1)
           /\ \A i \in 1..Len(s) : Append(s, e)[i] = s[i]
           /\ Append(s, e)[Len(s) + 1] = e
  OBVIOUS

LEMMA AfterTail ==
    ASSUME NEW S, NEW s \in Seq(S), s # <<>>
    PROVE  /\ Tail(s) \in Seq(S) /\ Head(s) \in S /\ Head(s) = s[1]
           /\ DOMAIN s = 1..Len(s) /\ Len(s) \in Nat \ {0}
           /\ DOMAIN Tail(s) = 1..(Len(s) - 1)
           /\ \A i \in 1..(Len(s) - 1) : Tail(s)[i] = s[i + 1]
<1>1. Len(s) \in Nat \ {0} /\ DOMAIN s = 1..Len(s)
  BY EmptySeq
<1>2. /\ Head(s) \in S /\ Tail(s) \in Seq(S) /\ Len(Tail(s)) = Len(s) - 1
      /\ \A i \in 1..Len(Tail(s)) : Tail(s)[i] = s[i + 1]
  BY HeadTailProperties
<1>3. DOMAIN Tail(s) = 1..Len(Tail(s))
  BY <1>2, LenProperties
<1>. QED BY <1>1, <1>2, <1>3

-----------------------------------------------------------------------------
LEMMA NotAMessage == NoMessage \notin Message
  BY GridAssumption DEF NoMessage, Message

LEMMA MessageFields ==
    ASSUME NEW m \in Message
    PROVE  m.topic \in Topic /\ m.at \in Nat /\ m.at > 0
  BY BoundAssumption DEF Message

LEMMA HistoryInit == PipelineInit => HistoryInv
<1>. SUFFICES ASSUME PipelineInit PROVE HistoryInv
  OBVIOUS
<1>1. Init
  BY DEF PipelineInit
<1>2. <<>> \in Seq(Message) /\ <<>> \in Seq(Entry) /\ DOMAIN <<>> = {}
  OBVIOUS
<1>3. TypeOK
  <2>1. /\ topicMap \in [Topic -> Ref \cup {None}]
        /\ retained \in [Topic -> Message \cup {NoMessage}]
    BY <1>1 DEF Init
  <2>2. /\ arrivals \in 0..MaxArrivals /\ losses \in 0..MaxLinkLosses
        /\ starts \in 0..MaxStarts
    BY <1>1, BoundAssumption DEF Init
  <2>3. inbox \in Seq(Message) /\ his \in Seq(Entry) /\ next \in Nat \ {0}
    BY <1>1, <1>2 DEF Init
  <2>. QED BY <1>1, <2>1, <2>2, <2>3 DEF Init, TypeOK
<1>. QED
  BY <1>1, <1>2, <1>3, BoundAssumption DEF Init, HistoryInv, InboxInOrder,
     RecordedBefore, RetainsLast, Sessions, Apart, Had, HistoryInArrivalOrder, NoMessage

(* The entries are typed. *)
LEMMA HadTypes ==
    ASSUME TypeOK
    PROVE  /\ Had \subseteq Entry /\ starts \in Nat
           /\ \A e \in Had : /\ e.message \in Message /\ e.message.topic \in Topic
                           /\ e.message.at \in Nat /\ e.start \in Nat
<1>1. Had \subseteq Entry
  BY DEF TypeOK, Had
<1>2. \A e \in Entry : e.message \in Message /\ e.start \in 1..MaxStarts
  BY DEF Entry
<1>. QED BY <1>1, <1>2, MessageFields, BoundAssumption DEF TypeOK

(* A step that touches neither messages nor history. *)
LEMMA QuietStep ==
    ASSUME HistoryInv, TypeOK',
           UNCHANGED <<subscribed, inbox, retained, arrivals, his, abandoned, failed, starts>>,
           \/ UNCHANGED <<pc, rows, next>>
           \/ pc = "tagging" /\ pc' \in {"tagging", "connecting"}
           \/ pc = "connecting" /\ pc' = "subscribing"
           \/ pc = "subscribing" /\ pc' = "listening"
           \/ pc = "subscribing" /\ pc' = "subscribing" /\ rows' = rows
                 /\ next' = next + 1
    PROVE  HistoryInv'
<1>h. Had' = Had
  BY DEF Had
<1>1. /\ InboxInOrder' /\ RecordedBefore' /\ RetainsLast' /\ Apart'
      /\ HistoryInArrivalOrder'
  BY <1>h DEF HistoryInv, InboxInOrder, RecordedBefore, RetainsLast, Apart,
     HistoryInArrivalOrder
<1>2. Sessions'
  <2>1. CASE UNCHANGED <<pc, rows, next>>
    BY <1>h, <2>1 DEF HistoryInv, Sessions, SomeRowBefore
  <2>2. CASE pc = "tagging" /\ pc' \in {"tagging", "connecting"}
    BY <1>h, <2>2 DEF HistoryInv, Sessions
  <2>3. CASE pc = "connecting" /\ pc' = "subscribing"
    BY <1>h, <2>3 DEF HistoryInv, Sessions
  <2>4. CASE pc = "subscribing" /\ pc' = "listening"
    BY <1>h, <2>4 DEF HistoryInv, Sessions
  <2>5. CASE pc = "subscribing" /\ pc' = "subscribing" /\ rows' = rows
                /\ next' = next + 1
    <3>1. \A t : SomeRowBefore(t) => SomeRowBefore(t)'
      BY <2>5 DEF HistoryInv, TypeOK, SomeRowBefore
    <3>. QED BY <1>h, <2>5, <3>1 DEF HistoryInv, Sessions
  <2>. QED BY <2>1, <2>2, <2>3, <2>4, <2>5
<1>. QED BY <1>1, <1>2 DEF HistoryInv

(* The session ends, and the broker forgets what it had for it. *)
LEMMA SessionEnds ==
    ASSUME HistoryInv, TypeOK',
           UNCHANGED <<retained, arrivals, his, abandoned, failed, starts, rows, next>>,
           inbox' = <<>>, subscribed' = {}, pc' \in {pc, "down"}
    PROVE  HistoryInv'
<1>1. DOMAIN inbox' = {} /\ Had' = Had
  BY DEF Had
<1>2. /\ InboxInOrder' /\ RecordedBefore' /\ RetainsLast' /\ Apart'
      /\ HistoryInArrivalOrder'
  BY <1>1 DEF HistoryInv, InboxInOrder, RecordedBefore, RetainsLast, Apart,
     HistoryInArrivalOrder
<1>3. Sessions'
  BY <1>1 DEF HistoryInv, Sessions
<1>. QED BY <1>2, <1>3 DEF HistoryInv

LEMMA StartInv ==
    ASSUME HistoryInv, TypeOK', Start
    PROVE  HistoryInv'
<1>1. /\ pc = "down" /\ pc' = "tagging" /\ starts' = starts + 1
      /\ UNCHANGED <<subscribed, inbox, retained, arrivals, his, abandoned, failed>>
      /\ Had' = Had
  BY DEF Start, broker, haxall, Had
<1>2. inbox = <<>> /\ subscribed = {} /\ DOMAIN inbox = {}
  BY <1>1 DEF HistoryInv, Sessions
<1>3. /\ InboxInOrder' /\ RecordedBefore' /\ RetainsLast' /\ Apart'
      /\ HistoryInArrivalOrder'
  BY <1>1, <1>2 DEF HistoryInv, InboxInOrder, RecordedBefore, RetainsLast, Apart,
     HistoryInArrivalOrder
<1>4. starts \in Nat /\ \A e \in Had : e.start \in Nat
  BY HadTypes DEF HistoryInv
<1>5. Sessions'
  BY <1>1, <1>2, <1>4 DEF HistoryInv, Sessions
<1>. QED BY <1>3, <1>5 DEF HistoryInv

(* A message goes to the end of the inbox: it is later than all of its     *)
(* topic there, and no earlier than all that is recorded.                  *)
LEMMA Forwarded ==
    ASSUME HistoryInv, NEW m \in Message, inbox' = Append(inbox, m),
           UNCHANGED <<his, abandoned, failed, starts>>,
           \A j \in DOMAIN inbox : inbox[j].topic = m.topic => inbox[j].at < m.at,
           \A e \in Had : e.message.topic = m.topic =>
               /\ e.message.at <= m.at
               /\ e.message.at = m.at => e.start < starts
    PROVE  InboxInOrder' /\ RecordedBefore' /\ Apart' /\ HistoryInArrivalOrder'
<1>1. /\ DOMAIN inbox = 1..Len(inbox) /\ Len(inbox) \in Nat
      /\ DOMAIN inbox' = 1..(Len(inbox) + 1)
      /\ \A i \in 1..Len(inbox) : inbox'[i] = inbox[i]
      /\ inbox'[Len(inbox) + 1] = m
  BY AfterAppend DEF HistoryInv, TypeOK
<1>2. InboxInOrder'
  <2>. SUFFICES ASSUME NEW i \in 1..(Len(inbox) + 1), NEW j \in 1..(Len(inbox) + 1),
                       i < j, inbox'[i].topic = inbox'[j].topic
                PROVE  inbox'[i].at < inbox'[j].at
    BY <1>1 DEF InboxInOrder
  <2>1. i \in 1..Len(inbox) /\ (j \in 1..Len(inbox) \/ j = Len(inbox) + 1)
    BY <1>1
  <2>. QED BY <1>1, <2>1 DEF HistoryInv, InboxInOrder
<1>3. RecordedBefore'
  <2>. SUFFICES ASSUME NEW e \in Had, NEW j \in 1..(Len(inbox) + 1),
                       e.message.topic = inbox'[j].topic
                PROVE  /\ e.message.at <= inbox'[j].at
                       /\ e.message.at = inbox'[j].at => e.start < starts
    BY <1>1 DEF RecordedBefore, Had
  <2>1. j \in 1..Len(inbox) \/ j = Len(inbox) + 1
    BY <1>1
  <2>. QED BY <1>1, <2>1 DEF HistoryInv, RecordedBefore
<1>4. Apart' /\ HistoryInArrivalOrder'
  BY DEF HistoryInv, Apart, HistoryInArrivalOrder
<1>. QED BY <1>2, <1>3, <1>4

(* on_message is through with the head of the inbox, or is killed at it:   *)
(* it stands at the end of the history, or may come to, or does not.       *)
LEMMA MessageTaken ==
    ASSUME HistoryInv, TypeOK', inbox # <<>>, pc = "listening",
           \/ inbox' = Tail(inbox) /\ UNCHANGED <<pc, rows, next, subscribed>>
           \/ inbox' = <<>> /\ subscribed' = {} /\ pc' = "down",
           UNCHANGED <<retained, arrivals, starts>>, failed \subseteq failed',
           \/ UNCHANGED <<his, abandoned>>
           \/ Written \in Entry /\ his' = Append(his, Written) /\ abandoned' = abandoned
           \/ his' = his /\ abandoned' = abandoned \cup {Written}
    PROVE  HistoryInv'
<1>. PICK w : w = Written
  OBVIOUS
<1>1. /\ DOMAIN inbox = 1..Len(inbox) /\ Len(inbox) \in Nat \ {0}
      /\ DOMAIN Tail(inbox) = 1..(Len(inbox) - 1)
      /\ \A i \in 1..(Len(inbox) - 1) : Tail(inbox)[i] = inbox[i + 1]
      /\ Head(inbox) = inbox[1] /\ Head(inbox) \in Message
  BY AfterTail DEF HistoryInv, TypeOK
<1>2. /\ \A j \in DOMAIN inbox' : j + 1 \in DOMAIN inbox /\ inbox'[j] = inbox[j + 1]
                                   /\ j \in Nat /\ 1 < j + 1
      /\ 1 \in DOMAIN inbox
      /\ \A j \in DOMAIN inbox : inbox[j] \in Message /\ inbox[j].at \in Nat
  <2>1. DOMAIN <<>> = {}
    OBVIOUS
  <2>2. \A j \in DOMAIN inbox : inbox[j] \in Message
    BY DEF HistoryInv, TypeOK
  <2>. QED BY <1>1, <2>1, <2>2, MessageFields
<1>3. w.message = inbox[1] /\ w.start = starts
  BY <1>1 DEF Written
<1>4. /\ starts \in Nat
      /\ \A e \in Had : e.message.at \in Nat /\ e.start \in Nat
  BY HadTypes DEF HistoryInv
<1>5. \A e \in Had : e.message.topic = inbox[1].topic =>
          /\ e.message.at <= inbox[1].at
          /\ e.message.at = inbox[1].at => e.start < starts
  BY <1>2 DEF HistoryInv, RecordedBefore
<1>6. /\ his \in Seq(Entry) /\ DOMAIN his = 1..Len(his) /\ Len(his) \in Nat
      /\ \A i \in 1..Len(his) : his'[i] = his[i] /\ his[i] \in Had
      /\ \/ his' = his
         \/ DOMAIN his' = 1..(Len(his) + 1) /\ his'[Len(his) + 1] = w /\ abandoned' = abandoned
      /\ abandoned \subseteq Had
  <2>1. his \in Seq(Entry) /\ DOMAIN his = 1..Len(his) /\ Len(his) \in Nat
    BY DEF HistoryInv, TypeOK
  <2>2. abandoned \subseteq Had /\ \A i \in 1..Len(his) : his[i] \in Had
    BY <2>1 DEF Had
  <2>3. CASE his' = his
    BY <2>1, <2>2, <2>3
  <2>4. CASE w \in Entry /\ his' = Append(his, w) /\ abandoned' = abandoned
    <3>1. /\ DOMAIN Append(his, w) = 1..(Len(his) + 1)
          /\ Append(his, w)[Len(his) + 1] = w
          /\ \A i \in 1..Len(his) : Append(his, w)[i] = his[i]
      BY ONLY <2>1, <2>4, AfterAppend
    <3>. QED BY <2>1, <2>2, <2>4, <3>1
  <2>. QED BY <2>3, <2>4
<1>7. Had' \subseteq Had \cup {w}
  <2>1. \A i \in DOMAIN his' : his'[i] \in Had \cup {w}
    BY <1>6
  <2>2. abandoned' \subseteq Had \cup {w}
    BY <1>6
  <2>. QED BY <2>1, <2>2 DEF Had
<1>8. InboxInOrder'
  <2>. SUFFICES ASSUME NEW i \in DOMAIN inbox', NEW j \in DOMAIN inbox',
                       i < j, inbox'[i].topic = inbox'[j].topic
                PROVE  inbox'[i].at < inbox'[j].at
    BY DEF InboxInOrder
  <2>1. i + 1 \in DOMAIN inbox /\ j + 1 \in DOMAIN inbox /\ i + 1 < j + 1
    BY <1>2
  <2>. QED BY <1>2, <2>1 DEF HistoryInv, InboxInOrder
<1>9. RecordedBefore'
  <2>. SUFFICES ASSUME NEW e \in Had', NEW j \in DOMAIN inbox',
                       e.message.topic = inbox'[j].topic
                PROVE  /\ e.message.at <= inbox'[j].at
                       /\ e.message.at = inbox'[j].at => e.start < starts'
    BY DEF RecordedBefore
  <2>1. CASE e \in Had
    BY <1>2, <2>1 DEF HistoryInv, RecordedBefore
  <2>2. CASE e = w
    <3>1. inbox[1].at < inbox[j + 1].at
      BY <1>2, <1>3, <2>2 DEF HistoryInv, InboxInOrder
    <3>. QED BY <1>2, <1>3, <2>2, <3>1
  <2>. QED BY <1>7, <2>1, <2>2
<1>10. RetainsLast'
  <2>1. \A j \in DOMAIN inbox' : inbox'[j].at <= retained'[inbox'[j].topic].at
    BY <1>2 DEF HistoryInv, RetainsLast
  <2>2. \A e \in Had' : e.message.at <= retained'[e.message.topic].at
    BY <1>2, <1>3, <1>7 DEF HistoryInv, RetainsLast
  <2>. QED BY <2>1, <2>2 DEF HistoryInv, RetainsLast
<1>11. Sessions'
  <2>1. \A e \in Had' : e.start <= starts'
    BY <1>3, <1>4, <1>7 DEF HistoryInv, Sessions
  <2>2. pc' = "listening" \/ (pc' = "down" /\ inbox' = <<>> /\ subscribed' = {})
    OBVIOUS
  <2>. QED BY <2>1, <2>2 DEF HistoryInv, Sessions
<1>12. \A e \in Had : ~Same(e, w) /\ ~Same(w, e)
  BY <1>3, <1>4, <1>5 DEF Same
<1>13. Apart'
  <2>1. ASSUME NEW i \in DOMAIN his', NEW f \in abandoned' PROVE ~Same(his'[i], f)
    <3>1. CASE f \in abandoned /\ i \in DOMAIN his /\ his'[i] = his[i]
      BY <3>1 DEF HistoryInv, Apart
    <3>2. CASE his'[i] = w /\ f \in abandoned
      BY <1>6, <1>12, <3>2
    <3>3. CASE f = w /\ his'[i] \in Had
      BY <1>12, <3>3
    <3>. QED BY <1>6, <3>1, <3>2, <3>3
  <2>2. ASSUME NEW e \in abandoned', NEW f \in abandoned', Same(e, f) PROVE e = f
    BY <1>6, <1>12, <2>2 DEF HistoryInv, Apart
  <2>. QED BY <2>1, <2>2 DEF Apart
<1>14. HistoryInArrivalOrder'
  <2>. SUFFICES ASSUME NEW i \in DOMAIN his', NEW j \in DOMAIN his', i < j,
                       his'[i].message.topic = his'[j].message.topic
                PROVE  /\ \/ his'[i].message.at <= his'[j].message.at
                          \/ his'[j] \in failed'
                       /\ his'[i].message.at = his'[j].message.at
                             => his'[i].start # his'[j].start
    BY DEF HistoryInArrivalOrder
  <2>1. i \in 1..Len(his)
    BY <1>6
  <2>2. CASE j \in 1..Len(his)
    BY <1>6, <2>1, <2>2 DEF HistoryInv, HistoryInArrivalOrder
  <2>3. CASE j = Len(his) + 1 /\ his'[j] = w
    BY <1>3, <1>4, <1>5, <1>6, <2>1, <2>3
  <2>. QED BY <1>6, <2>1, <2>2, <2>3
<1>. QED BY <1>8, <1>9, <1>10, <1>11, <1>13, <1>14 DEF HistoryInv

(* What was given up is recorded after all: out of order, perhaps, but not *)
(* a second time.                                                          *)
LEMMA LandsInv ==
    ASSUME HistoryInv, TypeOK', HisWriteLands
    PROVE  HistoryInv'
<1>1. PICK e \in abandoned : his' = Append(his, e) /\ abandoned' = abandoned \ {e}
  BY DEF HisWriteLands
<1>2. UNCHANGED <<pc, rows, next, subscribed, inbox, retained, arrivals, failed, starts>>
  BY DEF HisWriteLands, bridge, broker, history
<1>3. e \in failed /\ e \in Entry /\ his \in Seq(Entry)
  BY <1>1 DEF HistoryInv, TypeOK
<1>4. /\ DOMAIN his = 1..Len(his) /\ Len(his) \in Nat
      /\ DOMAIN his' = 1..(Len(his) + 1) /\ his'[Len(his) + 1] = e
      /\ \A i \in 1..Len(his) : his'[i] = his[i]
  BY <1>1, <1>3, AfterAppend
<1>5. Had' = Had
  <2>1. \A i \in DOMAIN his' : his'[i] \in Had
    BY <1>1, <1>4 DEF Had
  <2>2. \A i \in DOMAIN his : his[i] \in Had'
    BY <1>4 DEF Had
  <2>3. e \in Had'
    BY <1>4 DEF Had
  <2>. QED BY <1>1, <2>1, <2>2, <2>3 DEF Had
<1>6. InboxInOrder' /\ RecordedBefore' /\ RetainsLast' /\ Sessions'
  BY <1>2, <1>5 DEF HistoryInv, InboxInOrder, RecordedBefore, RetainsLast, Sessions,
     SomeRowBefore
<1>7. Apart'
  BY <1>1, <1>4 DEF HistoryInv, Apart
<1>8. HistoryInArrivalOrder'
  <2>. SUFFICES ASSUME NEW i \in DOMAIN his', NEW j \in DOMAIN his', i < j,
                       his'[i].message.topic = his'[j].message.topic
                PROVE  /\ \/ his'[i].message.at <= his'[j].message.at
                          \/ his'[j] \in failed'
                       /\ his'[i].message.at = his'[j].message.at
                             => his'[i].start # his'[j].start
    BY DEF HistoryInArrivalOrder
  <2>1. i \in 1..Len(his)
    BY <1>4
  <2>2. CASE j \in 1..Len(his)
    BY <1>2, <1>4, <2>1, <2>2 DEF HistoryInv, HistoryInArrivalOrder
  <2>3. CASE j = Len(his) + 1
    BY <1>1, <1>2, <1>3, <1>4, <2>1, <2>3 DEF HistoryInv, Apart, Same
  <2>. QED BY <1>4, <2>1, <2>2, <2>3
<1>. QED BY <1>6, <1>7, <1>8 DEF HistoryInv

LEMMA RowTopic ==
    ASSUME TypeOK, next <= Len(rows), rows[next].fbfCur # None
    PROVE  rows[next].fbfCur \in Topic
<1>1. Len(<<>>) = 0
  OBVIOUS
<1>2. rows \in Grids
  BY <1>1 DEF TypeOK
<1>3. rows \in Seq([ref : Ref, fbfCur : Topic \cup {None}])
  BY <1>2, GridAssumption
<1>4. next \in 1..Len(rows)
  BY <1>3 DEF TypeOK
<1>5. rows[next] \in [ref : Ref, fbfCur : Topic \cup {None}]
  BY <1>3, <1>4, ElementOfSeq
<1>. QED BY <1>5

(* A subscription is the first of its topic in the session: nothing of the *)
(* topic is in the inbox, and only earlier starts have recorded any of it. *)
LEMMA SubscribeInv ==
    ASSUME HistoryInv, TypeOK', Subscribe
    PROVE  HistoryInv'
<1>1. /\ pc = "subscribing" /\ pc' = "subscribing" /\ rows' = rows /\ next' = next + 1
      /\ next <= Len(rows) /\ next \in Nat \ {0}
      /\ UNCHANGED <<retained, arrivals, his, abandoned, failed, starts>>
      /\ Had' = Had
  BY DEF Subscribe, haxall, history, HistoryInv, TypeOK, Had
<1>2. CASE ~(FirstRow(next) /\ linked)
  <2>1. UNCHANGED <<subscribed, inbox>>
    BY <1>2 DEF Subscribe
  <2>. QED BY <1>1, <2>1, QuietStep
<1>3. CASE FirstRow(next) /\ linked
  <2>0. rows[next].fbfCur \in Topic
    BY <1>1, <1>3, RowTopic DEF FirstRow, HistoryInv
  <2>. PICK t \in Topic : t = rows[next].fbfCur
    BY <2>0
  <2>1. /\ subscribed' = subscribed \cup {t}
        /\ inbox' = IF retained[t] = NoMessage THEN inbox
                                               ELSE Append(inbox, retained[t])
    BY <1>3 DEF Subscribe
  <2>2. ~SomeRowBefore(t)
    BY <1>1, <1>3 DEF FirstRow, Mapped, SomeRowBefore
  <2>3. /\ \A s : SomeRowBefore(s) => SomeRowBefore(s)'
        /\ SomeRowBefore(t)'
    BY <1>1 DEF SomeRowBefore
  <2>4. CASE retained[t] = NoMessage
    <3>1. inbox' = inbox
      BY <2>1, <2>4
    <3>2. /\ InboxInOrder' /\ RecordedBefore' /\ RetainsLast' /\ Apart'
          /\ HistoryInArrivalOrder'
      BY <1>1, <3>1 DEF HistoryInv, InboxInOrder, RecordedBefore, RetainsLast, Apart,
         HistoryInArrivalOrder
    <3>3. Sessions'
      BY <1>1, <2>1, <2>3, <3>1 DEF HistoryInv, Sessions
    <3>. QED BY <3>2, <3>3 DEF HistoryInv
  <2>5. CASE retained[t] # NoMessage
    <3>1. PICK m \in Message : m = retained[t] /\ m.topic = t /\ inbox' = Append(inbox, m)
      BY <2>1, <2>5 DEF HistoryInv, TypeOK, RetainsLast
    <3>2. \A j \in DOMAIN inbox : inbox[j].topic # t
      BY <1>1, <2>2 DEF HistoryInv, Sessions
    <3>3. \A e \in Had : e.message.topic = t =>
              e.message.at <= m.at /\ e.start < starts
      BY <1>1, <3>1 DEF HistoryInv, RetainsLast, Sessions
    <3>4. /\ DOMAIN inbox = 1..Len(inbox) /\ Len(inbox) \in Nat
          /\ DOMAIN inbox' = 1..(Len(inbox) + 1)
          /\ \A i \in 1..Len(inbox) : inbox'[i] = inbox[i]
          /\ inbox'[Len(inbox) + 1] = m
      BY <3>1, AfterAppend DEF HistoryInv, TypeOK
    <3>5. InboxInOrder' /\ RecordedBefore' /\ Apart' /\ HistoryInArrivalOrder'
      BY <1>1, <3>1, <3>2, <3>3, Forwarded
    <3>6. \A j \in DOMAIN inbox' : inbox'[j] = m \/ (j \in DOMAIN inbox /\ inbox'[j] = inbox[j])
      BY <3>4
    <3>7. RetainsLast'
      <4>1. m.at <= retained[m.topic].at
        BY <3>1, MessageFields
      <4>. QED BY <1>1, <3>6, <4>1 DEF HistoryInv, RetainsLast
    <3>8. Sessions'
      BY <1>1, <2>1, <2>3, <3>1, <3>6 DEF HistoryInv, Sessions
    <3>. QED BY <3>5, <3>7, <3>8 DEF HistoryInv
  <2>. QED BY <2>4, <2>5
<1>. QED BY <1>2, <1>3

(* A message that comes to the broker is later than all before it. *)
LEMMA ReceivesInv ==
    ASSUME HistoryInv, TypeOK', NEW t \in Topic, NEW kind \in Kind,
           BrokerReceives(t, kind)
    PROVE  HistoryInv'
<1>0. arrivals \in Nat /\ [topic |-> t, at |-> arrivals + 1, kind |-> kind] \in Message
  BY BoundAssumption DEF BrokerReceives, Message, HistoryInv, TypeOK
<1>. PICK m \in Message : m = [topic |-> t, at |-> arrivals + 1, kind |-> kind]
  BY <1>0
<1>1. /\ arrivals \in Nat /\ arrivals' = arrivals + 1
      /\ m.topic = t /\ m.at = arrivals + 1
      /\ retained' = [retained EXCEPT ![t] = m]
      /\ inbox' = IF t \in subscribed THEN Append(inbox, m) ELSE inbox
      /\ UNCHANGED <<pc, rows, next, subscribed, his, abandoned, failed, starts>>
      /\ Had' = Had
  BY <1>0 DEF BrokerReceives, bridge, haxall, history, Had
<1>2. /\ \A s \in Topic : retained[s].at \in Nat /\ retained[s].at <= arrivals
      /\ \A j \in DOMAIN inbox : inbox[j] \in Message
      /\ \A e \in Had : e.message \in Message
  <2>1. \A s \in Topic : retained[s].at \in Nat
    BY MessageFields DEF HistoryInv, TypeOK, NoMessage
  <2>2. \A e \in Had : e.message \in Message
    BY HadTypes DEF HistoryInv
  <2>. QED BY <2>1, <2>2 DEF HistoryInv, TypeOK, RetainsLast
<1>3. /\ \A j \in DOMAIN inbox : inbox[j].at < m.at
      /\ \A e \in Had : e.message.at < m.at
  BY <1>1, <1>2, MessageFields DEF HistoryInv, RetainsLast
<1>4. \A s \in Topic : retained'[s] = IF s = t THEN m ELSE retained[s]
  BY <1>1 DEF HistoryInv, TypeOK
<1>5. CASE t \notin subscribed
  <2>1. inbox' = inbox
    BY <1>1, <1>5
  <2>2. /\ InboxInOrder' /\ RecordedBefore' /\ Apart' /\ HistoryInArrivalOrder'
        /\ Sessions'
    BY <1>1, <2>1 DEF HistoryInv, InboxInOrder, RecordedBefore, Sessions, SomeRowBefore,
       Apart, HistoryInArrivalOrder
  <2>3. RetainsLast'
    <3>1. \A s \in Topic : /\ retained'[s] # NoMessage => retained'[s].topic = s
                           /\ retained'[s].at <= arrivals'
      BY <1>1, <1>2, <1>4 DEF HistoryInv, RetainsLast
    <3>2. \A j \in DOMAIN inbox : inbox[j].at <= retained'[inbox[j].topic].at
      BY <1>1, <1>2, <1>3, <1>4, MessageFields DEF HistoryInv, RetainsLast
    <3>3. \A e \in Had : e.message.at <= retained'[e.message.topic].at
      BY <1>1, <1>2, <1>3, <1>4, MessageFields DEF HistoryInv, RetainsLast
    <3>. QED BY <1>1, <2>1, <3>1, <3>2, <3>3 DEF RetainsLast
  <2>. QED BY <2>2, <2>3 DEF HistoryInv
<1>6. CASE t \in subscribed
  <2>1. inbox' = Append(inbox, m)
    BY <1>1, <1>6
  <2>2. /\ DOMAIN inbox = 1..Len(inbox) /\ Len(inbox) \in Nat
        /\ DOMAIN inbox' = 1..(Len(inbox) + 1)
        /\ \A i \in 1..Len(inbox) : inbox'[i] = inbox[i]
        /\ inbox'[Len(inbox) + 1] = m
    BY <1>1, <2>1, AfterAppend DEF HistoryInv, TypeOK
  <2>3. \A j \in DOMAIN inbox' : inbox'[j] = m \/ (j \in DOMAIN inbox /\ inbox'[j] = inbox[j])
    BY <2>2
  <2>4. InboxInOrder' /\ RecordedBefore' /\ Apart' /\ HistoryInArrivalOrder'
    <3>1. \A e \in Had : e.message.at <= m.at /\ e.message.at # m.at
      BY <1>1, <1>2, <1>3, MessageFields
    <3>. QED BY <1>1, <1>3, <2>1, <3>1, Forwarded
  <2>5. RetainsLast'
    <3>1. \A s \in Topic : /\ retained'[s] # NoMessage => retained'[s].topic = s
                           /\ retained'[s].at <= arrivals'
      BY <1>1, <1>2, <1>4 DEF HistoryInv, RetainsLast
    <3>2. m.at <= retained'[m.topic].at
      BY <1>1, <1>4
    <3>3. \A j \in DOMAIN inbox : inbox[j].at <= retained'[inbox[j].topic].at
      BY <1>1, <1>2, <1>3, <1>4, MessageFields DEF HistoryInv, RetainsLast
    <3>4. \A e \in Had : e.message.at <= retained'[e.message.topic].at
      BY <1>1, <1>2, <1>3, <1>4, MessageFields DEF HistoryInv, RetainsLast
    <3>. QED BY <1>1, <2>3, <3>1, <3>2, <3>3, <3>4 DEF RetainsLast
  <2>6. Sessions'
    BY <1>1, <1>6, <2>3 DEF HistoryInv, Sessions, SomeRowBefore
  <2>. QED BY <2>4, <2>5, <2>6 DEF HistoryInv
<1>. QED BY <1>5, <1>6

-----------------------------------------------------------------------------
(* Types *)

LEMMA BridgeTypes ==
    ASSUME TypeOK, pc # "down" => starts > 0, BridgeNext
    PROVE  TypeOK'
<1>1. /\ Len(rows) \in Nat /\ <<>> \in Seq(Message)
      /\ arrivals \in Nat /\ losses \in Nat /\ starts \in Nat
  <2>1. rows \in Seq([ref : Ref, fbfCur : Topic \cup {None}])
    <3>1. <<>> \in Seq([ref : Ref, fbfCur : Topic \cup {None}])
      OBVIOUS
    <3>. QED BY <3>1, GridAssumption DEF TypeOK
  <2>. QED BY <2>1, BoundAssumption DEF TypeOK
<1>2. ASSUME inbox # <<>>
      PROVE  Tail(inbox) \in Seq(Message)
  BY <1>2, AfterTail DEF TypeOK
<1>w. ASSUME Writing, pc # "down" => starts > 0
      PROVE  Written \in Entry
  <2>1. inbox # <<>> /\ pc = "listening" /\ topicMap[Head(inbox).topic] # None
    BY <1>w DEF Writing
  <2>2. Head(inbox) \in Message
    BY <2>1, AfterTail DEF TypeOK
  <2>3. starts \in 1..MaxStarts /\ topicMap[Head(inbox).topic] \in Ref
    BY <1>1, <1>w, <2>1, <2>2, MessageFields, BoundAssumption DEF TypeOK
  <2>. QED BY <2>2, <2>3 DEF Written, Entry
<1>. USE DEF TypeOK, broker, haxall, history, bridge
<1>3. CASE Start
  <2>1. topicMap' \in [Topic -> Ref \cup {None}]
    <3>1. grid \in Grids /\ topicMap' = BuildTopicMap(grid)
      BY <1>3 DEF Start
    <3>. QED BY <3>1, TopicMapType
  <2>2. starts' \in 0..MaxStarts
    BY <1>1, <1>3, BoundAssumption DEF Start
  <2>3. /\ rows' = grid /\ pc' = "tagging" /\ next' = 1 /\ relinked' = FALSE
        /\ UNCHANGED <<broker, haxall, failed, losses>>
    BY <1>3 DEF Start
  <2>4. relinked' \in BOOLEAN
    <3>1. FALSE \in BOOLEAN
      OBVIOUS
    <3>. QED BY ONLY <2>3, <3>1, Zenon
  <2>. QED BY <2>1, <2>2, <2>3, <2>4
<1>4. CASE PushTags \/ TagsPushed \/ Connect \/ LoopForever
  <2>1. next' \in Nat \ {0}
    BY <1>4 DEF PushTags, TagsPushed, Connect, LoopForever
  <2>2. /\ pc' \in {"tagging", "connecting", "subscribing", "listening"}
        /\ linked' \in BOOLEAN
        /\ UNCHANGED <<rows, topicMap, subscribed, inbox, retained, arrivals, grid,
                       his, abandoned, failed, relinked, losses, starts>>
    BY <1>4 DEF PushTags, TagsPushed, Connect, LoopForever
  <2>. QED BY <2>1, <2>2
<1>5. CASE ConnectRaises \/ Kill \/ OnMessageRaises
  <2>1. abandoned' \subseteq failed' /\ failed' \subseteq Entry
    BY <1>5, <1>w DEF ConnectRaises, Kill, OnMessageRaises, GiveUp
  <2>2. /\ Ends
        /\ UNCHANGED <<grid, his, relinked, losses, starts>>
    BY <1>5 DEF ConnectRaises, Kill, OnMessageRaises
  <2>. QED BY <1>1, <2>1, <2>2 DEF Ends
<1>6. CASE Subscribe
  <2>1. /\ UNCHANGED <<pc, rows, topicMap, linked, retained, arrivals, haxall, history>>
        /\ next' = next + 1
    BY <1>6 DEF Subscribe
  <2>2. CASE ~(FirstRow(next) /\ linked)
    BY <1>6, <2>1, <2>2 DEF Subscribe
  <2>3. CASE FirstRow(next) /\ linked
    <3>1. rows[next].fbfCur \in Topic
      BY <1>6, <2>3, RowTopic DEF Subscribe, FirstRow
    <3>2. PICK t \in Topic : t = rows[next].fbfCur
      BY <3>1
    <3>3. retained[t] # NoMessage => Append(inbox, retained[t]) \in Seq(Message)
      BY AfterAppend
    <3>4. /\ subscribed' = subscribed \cup {t}
          /\ inbox' = IF retained[t] = NoMessage THEN inbox
                                                 ELSE Append(inbox, retained[t])
      BY <1>6, <2>3, <3>2 DEF Subscribe
    <3>5. subscribed' \subseteq Topic /\ inbox' \in Seq(Message)
      BY <3>3, <3>4
    <3>6. pc' = "subscribing" /\ next' \in Nat \ {0}
      BY <1>6, <2>1 DEF Subscribe
    <3>. QED BY <2>1, <3>5, <3>6
  <2>. QED BY <2>2, <2>3
<1>7. CASE Skip
  BY <1>2, <1>7 DEF Skip, Consume
<1>8. CASE LinkLost
  <2>1. losses' \in 0..MaxLinkLosses
    BY <1>1, <1>8, BoundAssumption DEF LinkLost
  <2>. QED BY <1>1, <1>8, <2>1 DEF LinkLost
<1>9. CASE Reconnect \/ GridChanges
  BY <1>9 DEF Reconnect, GridChanges
<1>10. CASE HisWrite
  <2>1. Writing /\ inbox # <<>> /\ inbox' = Tail(inbox)
    BY <1>10 DEF HisWrite, Writing, Consume
  <2>2. his' \in Seq(Entry)
    BY <1>10, <1>w, <2>1, AfterAppend DEF HisWrite
  <2>. QED BY <1>2, <1>10, <2>1, <2>2 DEF HisWrite
<1>11. CASE HisWriteRaises
  <2>1. Writing /\ inbox # <<>> /\ inbox' = Tail(inbox)
    BY <1>11 DEF HisWriteRaises, GiveUp, Writing, Consume
  <2>2. abandoned' \subseteq failed' /\ failed' \subseteq Entry
    BY <1>11, <1>w, <2>1 DEF HisWriteRaises, GiveUp
  <2>. QED BY <1>2, <1>11, <2>1, <2>2 DEF HisWriteRaises
<1>12. CASE HisWriteLands
  <2>1. PICK e \in abandoned : his' = Append(his, e) /\ abandoned' = abandoned \ {e}
    BY <1>12 DEF HisWriteLands
  <2>2. his' \in Seq(Entry)
    BY <2>1, AfterAppend
  <2>. QED BY <1>12, <2>1, <2>2 DEF HisWriteLands
<1>. QED
  BY <1>3, <1>4, <1>5, <1>6, <1>7, <1>8, <1>9, <1>10, <1>11, <1>12
  DEF BridgeNext, Main, OnMessage

LEMMA ReceivesTypes ==
    ASSUME TypeOK, NEW t \in Topic, NEW kind \in Kind, BrokerReceives(t, kind)
    PROVE  TypeOK'
<1>. USE DEF TypeOK
<1>1. arrivals \in Nat /\ arrivals' \in 0..MaxArrivals
  BY BoundAssumption DEF BrokerReceives
<1>2. PICK m \in Message : m = [topic |-> t, at |-> arrivals + 1, kind |-> kind]
  BY <1>1, BoundAssumption DEF BrokerReceives, Message
<1>3. /\ retained' = [retained EXCEPT ![t] = m]
      /\ inbox' = IF t \in subscribed THEN Append(inbox, m) ELSE inbox
  BY <1>2 DEF BrokerReceives
<1>4. retained' \in [Topic -> Message \cup {NoMessage}] /\ inbox' \in Seq(Message)
  BY <1>3, AfterAppend
<1>5. UNCHANGED <<pc, rows, topicMap, next, linked, subscribed, grid, his, abandoned,
                  failed, relinked, losses, starts>>
  BY DEF BrokerReceives, bridge, haxall, history
<1>. QED BY <1>1, <1>4, <1>5

-----------------------------------------------------------------------------
LEMMA HistoryStep == HistoryInv /\ [Next]_vars => HistoryInv'
<1>. SUFFICES ASSUME HistoryInv, [Next]_vars PROVE HistoryInv'
  OBVIOUS
<1>. USE DEF broker, haxall, history, bridge
<1>1. CASE UNCHANGED bridgeVars
  <2>1. TypeOK'
    BY <1>1 DEF bridgeVars, HistoryInv, TypeOK
  <2>. QED BY <1>1, <2>1, QuietStep DEF bridgeVars
<1>2. CASE \E t \in Topic, kind \in Kind : BrokerReceives(t, kind)
  BY <1>2, ReceivesTypes, ReceivesInv DEF HistoryInv
<1>3. CASE BridgeNext
  <2>1. TypeOK'
    BY <1>3, BridgeTypes DEF HistoryInv, Sessions
  <2>2. CASE Start
    BY <2>1, <2>2, StartInv
  <2>3. CASE PushTags \/ TagsPushed \/ Connect \/ LoopForever \/ Reconnect \/ GridChanges
    <3>1. UNCHANGED <<subscribed, inbox, retained, arrivals, his, abandoned, failed, starts>>
      BY <2>3 DEF PushTags, TagsPushed, Connect, LoopForever, Reconnect, GridChanges
    <3>2. \/ UNCHANGED <<pc, rows, next>>
          \/ pc = "tagging" /\ pc' \in {"tagging", "connecting"}
          \/ pc = "connecting" /\ pc' = "subscribing"
          \/ pc = "subscribing" /\ pc' = "listening"
      BY <2>3 DEF PushTags, TagsPushed, Connect, LoopForever, Reconnect, GridChanges
    <3>. QED BY <2>1, <3>1, <3>2, QuietStep
  <2>4. CASE ConnectRaises \/ OnMessageRaises \/ LinkLost
    BY <2>1, <2>4, SessionEnds DEF ConnectRaises, OnMessageRaises, LinkLost, Ends
  <2>5. CASE Kill
    <3>1. CASE GiveUp
      BY <2>1, <2>5, <3>1, MessageTaken DEF Kill, Ends, GiveUp, Writing
    <3>2. CASE UNCHANGED <<abandoned, failed>>
      BY <2>1, <2>5, <3>2, SessionEnds DEF Kill, Ends
    <3>. QED BY <2>5, <3>1, <3>2 DEF Kill
  <2>6. CASE Subscribe
    BY <2>1, <2>6, SubscribeInv
  <2>7. CASE HisWrite
    <3>1. Writing /\ pc = "listening" /\ inbox # <<>> /\ his' = Append(his, Written)
      BY <2>7 DEF HisWrite, Writing
    <3>2. Written \in Entry
      <4>1. Len(his) + 1 \in DOMAIN his' /\ his'[Len(his) + 1] = Written
        BY <3>1 DEF HistoryInv, TypeOK
      <4>. QED BY <2>1, <4>1 DEF TypeOK
    <3>. QED BY <2>1, <2>7, <3>1, <3>2, MessageTaken DEF HisWrite, Consume
  <2>8. CASE HisWriteRaises
    BY <2>1, <2>8, MessageTaken DEF HisWriteRaises, GiveUp, Writing, Consume
  <2>9. CASE Skip
    BY <2>1, <2>9, MessageTaken DEF Skip, Consume
  <2>10. CASE HisWriteLands
    BY <2>1, <2>10, LandsInv
  <2>. QED
    BY <1>3, <2>2, <2>3, <2>4, <2>5, <2>6, <2>7, <2>8, <2>9, <2>10
    DEF BridgeNext, Main, OnMessage
<1>4. CASE SinkDelivers
  <2>1. \E r \in Reading : BrokerReceives(r.topic, r.kind)
    BY <1>4 DEF SinkDelivers
  <2>. QED BY <1>2, <2>1, ReadingAssumption
<1>5. CASE OtherPublishes
  BY <1>2, <1>5, ReadingAssumption DEF OtherPublishes
<1>. QED
  BY <1>1, <1>3, <1>4, <1>5 DEF Next, vars, SinkTakes, SinkLoses

(* TypeOK of HaxallMqttBridge, for the whole pipeline.                     *)
THEOREM HistoryTypeCorrect == Spec => []TypeOK
<1>1. HistoryInv => TypeOK
  BY DEF HistoryInv
<1>. QED BY <1>1, HistoryInit, HistoryStep, PTL DEF Spec

(* HistoryInArrivalOrder of HistoryPipeline: on_message and hisWrite, one  *)
(* thread and one message after the other, put no reading into a point's   *)
(* history after a later one, except where a hisWrite that was given up is *)
(* done late; and none, late or not, twice in one start.                   *)
THEOREM HistoryFollowsArrivals == Spec => []HistoryInArrivalOrder
<1>1. HistoryInv => HistoryInArrivalOrder
  BY DEF HistoryInv
<1>. QED BY <1>1, HistoryInit, HistoryStep, PTL DEF Spec

-----------------------------------------------------------------------------
(* What ListenedIsRecorded and StartsWithRetained rest on, apart from the  *)
(* fairness: nothing a listening bridge has been sent is lost on the way.  *)

Held(t) ==
    Usable(retained[t]) =>
        \/ Recorded(retained[t].at) \/ Raised(retained[t].at)
        \/ \E j \in DOMAIN inbox : inbox[j] = retained[t]

(* The last number of each mapped topic is recorded, its hisWrite raised,  *)
(* or it is still to come.                                                 *)
HeldOrRecorded ==
    (pc = "listening" /\ linked /\ ~relinked) => \A t \in Topics(topicMap) : Held(t)

SubscribedSoFar(t) == pc = "listening" \/ (pc = "subscribing" /\ SomeRowBefore(t))

SessionInv ==
    /\ pc # "down" => topicMap = BuildTopicMap(rows)
    /\ pc \in {"tagging", "connecting", "subscribing"} => ~relinked
    /\ pc \in {"down", "tagging", "connecting"} => ~linked
    /\ (linked /\ ~relinked) =>
          \A t \in Topics(topicMap) : SubscribedSoFar(t) => (t \in subscribed /\ Held(t))

LEMMA SubscribeHolds ==
    ASSUME HistoryInv, SessionInv, Subscribe
    PROVE  SessionInv'
<1>1. /\ pc = "subscribing" /\ next \in Nat \ {0} /\ next' = next + 1
      /\ UNCHANGED <<pc, rows, topicMap, linked, relinked, retained, his, failed, starts>>
  BY DEF Subscribe, haxall, history, HistoryInv, TypeOK
<1>2. ASSUME linked, ~relinked, NEW t \in Topics(topicMap), SomeRowBefore(t)'
      PROVE  t \in subscribed' /\ Held(t)'
  <2>1. /\ inbox \in Seq(Message) /\ t \in Topic
        /\ retained[t] \in Message \cup {NoMessage}
    BY <1>2 DEF HistoryInv, TypeOK, Topics
  <2>2. PICK m : m = retained[t]
    OBVIOUS
  <2>3. CASE SomeRowBefore(t)
    <3>1. t \in subscribed /\ Held(t)
      BY <1>1, <1>2, <2>3 DEF SessionInv, SubscribedSoFar
    <3>2. \A j \in DOMAIN inbox : j \in DOMAIN inbox' /\ inbox'[j] = inbox[j]
      <4>1. CASE inbox' = inbox
        BY <4>1
      <4>2. ASSUME NEW e \in Message, inbox' = Append(inbox, e)
            PROVE  \A j \in DOMAIN inbox : j \in DOMAIN inbox' /\ inbox'[j] = inbox[j]
        BY <2>1, <4>2, AfterAppend
      <4>3. inbox' = inbox \/ \E e \in Message : inbox' = Append(inbox, e)
        <5>1. CASE ~(FirstRow(next) /\ linked)
          BY <5>1 DEF Subscribe
        <5>2. CASE FirstRow(next) /\ linked
          <6>1. \/ inbox' = inbox
                \/ /\ inbox' = Append(inbox, retained[rows[next].fbfCur])
                   /\ retained[rows[next].fbfCur] # NoMessage
            BY <5>2 DEF Subscribe
          <6>2. rows[next].fbfCur \in Topic
            BY <5>2, RowTopic DEF Subscribe, FirstRow, HistoryInv
          <6>. QED BY <6>1, <6>2 DEF HistoryInv, TypeOK
        <5>. QED BY <5>1, <5>2
      <4>. QED BY <4>1, <4>2, <4>3
    <3>3. t \in subscribed'
      BY <3>1 DEF Subscribe
    <3>. QED BY <1>1, <3>1, <3>2, <3>3 DEF Held, Recorded, Raised
  <2>4. CASE ~SomeRowBefore(t)
    <3>1. rows[next].fbfCur = t /\ t # None
      BY <1>1, <1>2, <2>1, <2>4, GridAssumption DEF SomeRowBefore
    <3>2. FirstRow(next)
      BY <1>1, <2>4, <3>1 DEF FirstRow, Mapped, SomeRowBefore
    <3>3. /\ t \in subscribed'
          /\ m # NoMessage => inbox' = Append(inbox, m)
      BY <1>2, <2>2, <3>1, <3>2 DEF Subscribe
    <3>4. CASE m = NoMessage
      BY <1>1, <2>2, <3>3, <3>4 DEF Held, Usable, NoMessage
    <3>5. CASE m # NoMessage
      <4>1. Len(inbox) + 1 \in DOMAIN inbox' /\ inbox'[Len(inbox) + 1] = m
        BY <2>1, <2>2, <3>3, <3>5, AfterAppend
      <4>. QED BY <1>1, <2>2, <3>3, <4>1 DEF Held
    <3>. QED BY <3>4, <3>5
  <2>. QED BY <2>3, <2>4
<1>. QED BY <1>1, <1>2 DEF SessionInv, SubscribedSoFar

(* on_message is through with the head of the inbox, which it has skipped, *)
(* recorded or had an error with.                                          *)
LEMMA TakenHolds ==
    ASSUME HistoryInv, SessionInv, Skip \/ HisWrite \/ HisWriteRaises
    PROVE  SessionInv'
<1>1. /\ pc = "listening" /\ inbox # <<>> /\ inbox' = Tail(inbox)
      /\ UNCHANGED <<pc, rows, topicMap, next, linked, relinked, subscribed, retained,
                    starts>>
  BY DEF Skip, HisWrite, HisWriteRaises, GiveUp, Writing, Consume, bridge, history
<1>2. /\ DOMAIN inbox = 1..Len(inbox) /\ Len(inbox) \in Nat \ {0}
      /\ DOMAIN inbox' = 1..(Len(inbox) - 1)
      /\ \A i \in 1..(Len(inbox) - 1) : inbox'[i] = inbox[i + 1]
      /\ Head(inbox) = inbox[1] /\ Head(inbox) \in Message
  BY <1>1, AfterTail DEF HistoryInv, TypeOK
<1>3. PICK m \in Message : m = Head(inbox)
  BY <1>2
<1>4. /\ \A n : Recorded(n) => Recorded(n)'
      /\ \A n : Raised(n) => Raised(n)'
      /\ (Usable(m) /\ topicMap[m.topic] # None) => (Recorded(m.at)' \/ Raised(m.at)')
  <2>1. CASE Skip
    <3>1. his' = his /\ failed' = failed /\ starts' = starts
      BY <2>1 DEF Skip, haxall, history
    <3>2. ~Usable(m) \/ topicMap[m.topic] = None
      BY <1>3, <2>1 DEF Skip
    <3>. QED BY <3>1, <3>2 DEF Recorded, Raised
  <2>2. Written.message = m /\ Written.start = starts
    BY <1>3 DEF Written
  <2>3. CASE HisWrite
    <3>1. his' = Append(his, Written) /\ failed' = failed /\ starts' = starts
      BY <2>3 DEF HisWrite, history
    <3>2. /\ DOMAIN his = 1..Len(his) /\ Len(his) \in Nat
          /\ Len(his) + 1 \in DOMAIN his' /\ his'[Len(his) + 1] = Written
          /\ \A i \in DOMAIN his : i \in DOMAIN his' /\ his'[i] = his[i]
      BY <3>1 DEF HistoryInv, TypeOK
    <3>. QED BY <2>2, <3>1, <3>2 DEF Recorded, Raised
  <2>4. CASE HisWriteRaises
    <3>1. his' = his /\ failed' = failed \cup {Written} /\ starts' = starts
      BY <2>4 DEF HisWriteRaises, GiveUp
    <3>. QED BY <2>2, <3>1 DEF Recorded, Raised
  <2>. QED BY <2>1, <2>3, <2>4
<1>5. ASSUME linked, ~relinked, NEW t \in Topics(topicMap)
      PROVE  t \in subscribed /\ Held(t)'
  <2>1. t \in subscribed /\ Held(t)
    BY <1>1, <1>5 DEF SessionInv, SubscribedSoFar
  <2>2. ASSUME NEW j \in DOMAIN inbox, inbox[j] = retained[t], Usable(retained[t])
        PROVE  \/ Recorded(retained[t].at)' \/ Raised(retained[t].at)'
               \/ \E i \in DOMAIN inbox' : inbox'[i] = retained[t]
    <3>1. CASE j = 1
      <4>1. m = retained[t]
        BY <1>2, <1>3, <2>2, <3>1
      <4>2. topicMap[m.topic] # None
        <5>1. m.topic = t
          BY <1>5, <4>1, NotAMessage DEF HistoryInv, RetainsLast, Topics
        <5>. QED BY <1>5, <5>1 DEF Topics
      <4>3. Recorded(m.at)' \/ Raised(m.at)'
        BY <1>4, <2>2, <4>1, <4>2
      <4>. QED BY <1>1, <4>1, <4>3 DEF Recorded, Raised
    <3>2. CASE j # 1
      <4>1. j - 1 \in DOMAIN inbox' /\ inbox'[j - 1] = inbox[j]
        BY <1>2, <2>2, <3>2
      <4>. QED BY <2>2, <4>1
    <3>. QED BY <3>1, <3>2
  <2>3. /\ Recorded(retained[t].at) => Recorded(retained[t].at)'
        /\ Raised(retained[t].at) => Raised(retained[t].at)'
    BY <1>1, <1>4 DEF Recorded, Raised
  <2>. QED BY <1>1, <1>4, <2>1, <2>2, <2>3 DEF Held, Recorded, Raised
<1>. QED BY <1>1, <1>5 DEF SessionInv, SubscribedSoFar

LEMMA SessionStep == HistoryInv /\ SessionInv /\ [Next]_vars => SessionInv'
<1>. SUFFICES ASSUME HistoryInv, SessionInv, [Next]_vars PROVE SessionInv'
  OBVIOUS
<1>. USE DEF broker, haxall, history, bridge
<1>1. CASE UNCHANGED <<pc, rows, topicMap, next, linked, relinked, subscribed, inbox,
                       retained, his, failed, starts>>
  BY <1>1 DEF SessionInv, SubscribedSoFar, SomeRowBefore, Held, Recorded, Raised
<1>2. ASSUME NEW s \in Topic, NEW kind \in Kind, BrokerReceives(s, kind)
      PROVE  SessionInv'
  <2>1. /\ UNCHANGED <<pc, rows, topicMap, next, linked, relinked, subscribed, his, failed,
                       starts>>
        /\ inbox \in Seq(Message)
    BY <1>2 DEF BrokerReceives, HistoryInv, TypeOK
  <2>2. PICK m \in Message : m = [topic |-> s, at |-> arrivals + 1, kind |-> kind]
    BY <1>2, BoundAssumption DEF BrokerReceives, HistoryInv, TypeOK, Message
  <2>3. /\ retained' = [retained EXCEPT ![s] = m]
        /\ inbox' = IF s \in subscribed THEN Append(inbox, m) ELSE inbox
    BY <1>2, <2>2 DEF BrokerReceives
  <2>4. /\ \A j \in DOMAIN inbox : j \in DOMAIN inbox' /\ inbox'[j] = inbox[j]
        /\ s \in subscribed => \E j \in DOMAIN inbox' : inbox'[j] = m
    <3>1. /\ DOMAIN inbox = 1..Len(inbox) /\ Len(inbox) \in Nat
          /\ DOMAIN Append(inbox, m) = 1..(Len(inbox) + 1)
          /\ \A i \in 1..Len(inbox) : Append(inbox, m)[i] = inbox[i]
          /\ Append(inbox, m)[Len(inbox) + 1] = m
      BY <2>1, AfterAppend
    <3>2. Len(inbox) + 1 \in DOMAIN Append(inbox, m)
      BY <3>1
    <3>. QED BY <2>3, <3>1, <3>2
  <2>5. ASSUME NEW t \in Topics(topicMap), t \in subscribed, Held(t)
        PROVE  Held(t)'
    <3>1. t \in Topic /\ retained'[t] = IF t = s THEN m ELSE retained[t]
      BY <2>3, <2>5 DEF HistoryInv, TypeOK, Topics
    <3>2. CASE t = s
      BY <2>4, <2>5, <3>1, <3>2 DEF Held
    <3>3. CASE t # s
      BY <2>1, <2>4, <2>5, <3>1, <3>3 DEF Held, Recorded, Raised
    <3>. QED BY <3>2, <3>3
  <2>. QED BY <2>1, <2>5 DEF SessionInv, SubscribedSoFar, SomeRowBefore
<1>3. CASE Start
  BY <1>3 DEF Start, SessionInv, BuildTopicMap, Mapped
<1>4. CASE PushTags \/ TagsPushed
  BY <1>4 DEF PushTags, TagsPushed, SessionInv
<1>5. CASE Connect
  <2>1. next' = 1 /\ pc' = "subscribing"
    BY <1>5 DEF Connect
  <2>2. \A t : ~SubscribedSoFar(t)'
    BY <2>1 DEF SubscribedSoFar, SomeRowBefore
  <2>. QED BY <1>5, <2>1, <2>2 DEF Connect, SessionInv
<1>6. CASE Kill \/ ConnectRaises \/ OnMessageRaises
  BY <1>6 DEF Kill, ConnectRaises, OnMessageRaises, Ends, SessionInv
<1>7. CASE Subscribe
  BY <1>7, SubscribeHolds
<1>8. CASE LoopForever
  <2>1. /\ pc = "subscribing" /\ next > Len(rows) /\ pc' = "listening"
        /\ UNCHANGED <<rows, topicMap, next, linked, relinked, subscribed, inbox,
                       retained, his, failed, starts>>
    BY <1>8 DEF LoopForever
  <2>2. ASSUME NEW t \in Topics(topicMap) PROVE SomeRowBefore(t)
    <3>1. topicMap = BuildTopicMap(rows) /\ t \in Topic /\ topicMap[t] # None
      BY <2>1, <2>2 DEF SessionInv, Topics
    <3>2. PICK i \in DOMAIN rows : rows[i].fbfCur = t
      BY <3>1 DEF BuildTopicMap, Mapped
    <3>3. rows \in Seq([ref : Ref, fbfCur : Topic \cup {None}])
      <4>1. <<>> \in Seq([ref : Ref, fbfCur : Topic \cup {None}])
        OBVIOUS
      <4>. QED BY <4>1, GridAssumption DEF HistoryInv, TypeOK
    <3>4. DOMAIN rows = 1..Len(rows) /\ Len(rows) \in Nat
      BY <3>3, LenProperties
    <3>5. i \in 1..(next - 1)
      BY <2>1, <3>4 DEF HistoryInv, TypeOK
    <3>. QED BY <3>2, <3>5 DEF SomeRowBefore
  <2>. QED BY <2>1, <2>2 DEF SessionInv, SubscribedSoFar, Held, Recorded, Raised
<1>9. CASE Skip \/ HisWrite \/ HisWriteRaises
  BY <1>9, TakenHolds
<1>10. CASE LinkLost
  BY <1>10 DEF LinkLost, SessionInv
<1>11. CASE Reconnect
  BY <1>11 DEF Reconnect, SessionInv
<1>12. CASE GridChanges
  BY <1>1, <1>12 DEF GridChanges
<1>13. CASE SinkDelivers \/ OtherPublishes
  BY <1>2, <1>13, ReadingAssumption DEF SinkDelivers, OtherPublishes
<1>14. CASE SinkTakes \/ SinkLoses \/ UNCHANGED vars
  BY <1>1, <1>14 DEF SinkTakes, SinkLoses, vars, bridgeVars
<1>15. CASE HisWriteLands
  <2>1. PICK e \in abandoned : his' = Append(his, e)
    BY <1>15 DEF HisWriteLands
  <2>2. \A i \in DOMAIN his : i \in DOMAIN his' /\ his'[i] = his[i]
    BY <2>1, AfterAppend DEF HistoryInv, TypeOK
  <2>3. \A n : Recorded(n) => Recorded(n)'
    BY <2>2 DEF Recorded
  <2>4. UNCHANGED <<pc, rows, topicMap, next, linked, relinked, subscribed, inbox,
                    retained, failed, starts>>
    BY <1>15 DEF HisWriteLands
  <2>5. \A t \in Topics(topicMap) : Held(t) => Held(t)'
    BY <2>3, <2>4 DEF Held, Recorded, Raised
  <2>. QED BY <2>4, <2>5 DEF SessionInv, SubscribedSoFar, SomeRowBefore
<1>. QED
  BY <1>3, <1>4, <1>5, <1>6, <1>7, <1>8, <1>9, <1>10, <1>11, <1>12, <1>13,
     <1>14, <1>15
     DEF Next, BridgeNext, Main, OnMessage

(* HeldOrRecorded: as long as its first connection lasts, a listening      *)
(* bridge has had each mapped topic's last number or has it before it,     *)
(* be it retained from before the start or forwarded since.                *)
THEOREM ListeningMissesNothing == Spec => []HeldOrRecorded
<1>1. PipelineInit => SessionInv
  BY DEF PipelineInit, Init, SessionInv
<1>2. SessionInv => HeldOrRecorded
  BY DEF SessionInv, SubscribedSoFar, HeldOrRecorded
<1>. QED BY <1>1, <1>2, HistoryInit, HistoryStep, SessionStep, PTL DEF Spec

-----------------------------------------------------------------------------
(* The plan of the provisioning script: what is looked up by name in a     *)
(* step, an earlier one has made.                                          *)

Call == [op : {"libs", "require", "find", "ensure", "tag"}, name : Key, of : Key]

Ensures(calls, name) ==
    \E j \in DOMAIN calls : calls[j].op = "ensure" /\ calls[j].name = name

(* A call may come after these: a point to be tagged has its equip, and a  *)
(* task its point, except for the points made by hand.                     *)
Fits(call, calls) ==
    /\ call \in Call
    /\ call.op = "tag" =>
          /\ call.name.what = "point" /\ call.of.what = "equip"
          /\ Ensures(calls, call.of)
    /\ call.op = "ensure" => call.name.what \in {"point", "task", "site", "equip"}
    /\ (call.op = "ensure" /\ call.name.what = "point") =>
          \/ call.name.dis = Fixture
          \/ \E k \in DOMAIN Own : call.name.dis = Own[k]
    /\ (call.op = "ensure" /\ call.name.what = "task") =>
          /\ call.of = Name("point", call.name.dis)
          /\ \/ \E k \in DOMAIN Fed : Fed[k] = call.name.dis
             \/ Ensures(calls, call.of)

Ordered(calls) ==
    /\ calls \in Seq(Call)
    /\ \A n \in DOMAIN calls : Fits(calls[n], SubSeq(calls, 1, n - 1))

LEMMA OrderedConcat ==
    ASSUME NEW s, Ordered(s), NEW t \in Seq(Call), \A n \in DOMAIN t : Fits(t[n], s)
    PROVE  /\ Ordered(s \o t)
           /\ \A i \in DOMAIN s : \E k \in DOMAIN (s \o t) : (s \o t)[k] = s[i]
           /\ \A i \in DOMAIN t : \E k \in DOMAIN (s \o t) : (s \o t)[k] = t[i]
<1>1. /\ s \in Seq(Call) /\ s \o t \in Seq(Call)
      /\ DOMAIN s = 1..Len(s) /\ Len(s) \in Nat
      /\ DOMAIN t = 1..Len(t) /\ Len(t) \in Nat
      /\ DOMAIN (s \o t) = 1..(Len(s) + Len(t))
      /\ \A i \in 1..Len(s) : (s \o t)[i] = s[i]
      /\ \A i \in 1..Len(t) : (s \o t)[Len(s) + i] = t[i]
  <2>1. s \in Seq(Call)
    BY DEF Ordered
  <2>. QED BY <2>1, ConcatProperties, LenProperties
<1>2. ASSUME NEW n \in DOMAIN (s \o t)
      PROVE  Fits((s \o t)[n], SubSeq(s \o t, 1, n - 1))
  <2>. DEFINE u == SubSeq(s \o t, 1, n - 1)
  <2>1. DOMAIN u = 1..(n - 1) /\ \A i \in 1..(n - 1) : u[i] = (s \o t)[i]
    BY <1>1
  <2>. HIDE DEF u
  <2>2. CASE n \in 1..Len(s)
    <3>. DEFINE v == SubSeq(s, 1, n - 1)
    <3>1. DOMAIN v = 1..(n - 1) /\ \A i \in 1..(n - 1) : v[i] = s[i]
      BY <1>1, <2>2
    <3>2. Fits(s[n], v)
      BY <1>1, <2>2 DEF Ordered
    <3>. HIDE DEF v
    <3>3. \A name : Ensures(v, name) => Ensures(u, name)
      BY <1>1, <2>1, <2>2, <3>1 DEF Ensures
    <3>4. Fits(s[n], u)
      BY <3>2, <3>3 DEF Fits
    <3>. QED BY <1>1, <2>2, <3>4 DEF u
  <2>3. CASE n \in (Len(s) + 1)..(Len(s) + Len(t))
    <3>1. n - Len(s) \in DOMAIN t /\ (s \o t)[n] = t[n - Len(s)]
      BY <1>1, <2>3
    <3>2. \A name : Ensures(s, name) => Ensures(u, name)
      BY <1>1, <2>1, <2>3 DEF Ensures
    <3>3. Fits(t[n - Len(s)], u)
      BY <3>1, <3>2 DEF Fits
    <3>. QED BY <3>1, <3>3 DEF u
  <2>. QED BY <1>1, <2>2, <2>3
<1>3. \A i \in DOMAIN s : \E k \in DOMAIN (s \o t) : (s \o t)[k] = s[i]
  BY <1>1
<1>4. \A i \in DOMAIN t : \E k \in DOMAIN (s \o t) : (s \o t)[k] = t[i]
  <2>. TAKE i \in DOMAIN t
  <2>1. Len(s) + i \in DOMAIN (s \o t) /\ (s \o t)[Len(s) + i] = t[i]
    BY <1>1
  <2>. QED BY <2>1
<1>. QED BY <1>1, <1>2, <1>3, <1>4 DEF Ordered

LEMMA InConcat ==
    ASSUME NEW S, NEW s \in Seq(S), NEW t \in Seq(S)
    PROVE  /\ s \o t \in Seq(S)
           /\ DOMAIN (s \o t) = 1..Len(s \o t) /\ Len(s \o t) \in Nat
           /\ \A i \in DOMAIN (s \o t) :
                 /\ (s \o t)[i] \in S
                 /\ \/ \E k \in DOMAIN s : (s \o t)[i] = s[k]
                    \/ \E k \in DOMAIN t : (s \o t)[i] = t[k]
<1>1. /\ s \o t \in Seq(S) /\ Len(s \o t) = Len(s) + Len(t)
      /\ \A i \in 1..Len(s) : (s \o t)[i] = s[i]
      /\ \A i \in 1..Len(t) : (s \o t)[Len(s) + i] = t[i]
      /\ DOMAIN s = 1..Len(s) /\ Len(s) \in Nat /\ DOMAIN t = 1..Len(t) /\ Len(t) \in Nat
      /\ DOMAIN (s \o t) = 1..Len(s \o t)
  BY ConcatProperties, LenProperties
<1>2. ASSUME NEW i \in DOMAIN (s \o t)
      PROVE  /\ (s \o t)[i] \in S
             /\ \/ \E k \in DOMAIN s : (s \o t)[i] = s[k]
                \/ \E k \in DOMAIN t : (s \o t)[i] = t[k]
  <2>1. (s \o t)[i] \in S
    BY <1>1, <1>2, ElementOfSeq
  <2>2. CASE i \in 1..Len(s)
    BY <1>1, <2>1, <2>2
  <2>3. CASE i \in (Len(s) + 1)..(Len(s) + Len(t))
    <3>1. i - Len(s) \in 1..Len(t) /\ Len(s) + (i - Len(s)) = i
      BY <1>1, <2>3
    <3>2. (s \o t)[i] = t[i - Len(s)]
      BY <1>1, <3>1
    <3>. QED BY <1>1, <2>1, <3>1, <3>2
  <2>. QED BY <1>1, <1>2, <2>2, <2>3
<1>. QED BY <1>1, <1>2

LEMMA PlanNames ==
    /\ Fed \in Seq(Dis) /\ Unfed \in Seq(Dis) /\ Own \in Seq(Dis) /\ Equips \in Seq(Dis)
    /\ Conn \in Dis /\ Site \in Dis /\ Fixture \in Dis
    /\ \A what \in {"conn", "point", "site", "equip", "task"}, d \in Dis :
          /\ Name(what, d) \in Key /\ Name(what, d).what = what /\ Name(what, d).dis = d
    /\ Nobody \in Key
  BY PlanAssumption DEF Name, Nobody, Key

LEMMA PlainCalls ==
    ASSUME NEW op \in {"find", "ensure"}, NEW names \in Seq(Dis),
           op = "ensure" => \A k \in DOMAIN names : \E n \in DOMAIN Own : names[k] = Own[n]
    PROVE  /\ Steps(op, "point", names) \in Seq(Call)
           /\ DOMAIN Steps(op, "point", names) = DOMAIN names
           /\ \A k \in DOMAIN names :
                 /\ Steps(op, "point", names)[k].op = op
                 /\ Steps(op, "point", names)[k].name = Name("point", names[k])
                 /\ \A s : Fits(Steps(op, "point", names)[k], s)
<1>. DEFINE calls == Steps(op, "point", names)
<1>1. /\ DOMAIN names = 1..Len(names) /\ Len(names) \in Nat
      /\ \A k \in DOMAIN names : names[k] \in Dis
  BY LenProperties, ElementOfSeq
<1>2. /\ DOMAIN calls = DOMAIN names
      /\ calls = [k \in DOMAIN names |-> calls[k]]
      /\ \A k \in DOMAIN names :
            calls[k] = [op |-> op, name |-> Name("point", names[k]), of |-> Nobody]
  BY DEF Steps
<1>. HIDE DEF calls
<1>3. ASSUME NEW k \in DOMAIN names
      PROVE  /\ calls[k] \in Call /\ calls[k].op = op
             /\ calls[k].name = Name("point", names[k])
             /\ \A s : Fits(calls[k], s)
  <2>1. /\ Name("point", names[k]) \in Key /\ Nobody \in Key
        /\ Name("point", names[k]).what = "point" /\ Name("point", names[k]).dis = names[k]
    BY <1>1, <1>3, PlanNames
  <2>2. calls[k] \in Call /\ calls[k].op = op /\ calls[k].name = Name("point", names[k])
    BY <1>2, <1>3, <2>1 DEF Call
  <2>3. op = "ensure" => \E n \in DOMAIN Own : names[k] = Own[n]
    BY <1>3
  <2>. QED BY <2>1, <2>2, <2>3 DEF Fits
<1>4. calls \in [1..Len(names) -> Call]
  BY <1>1, <1>2, <1>3
<1>5. calls \in Seq(Call)
  BY <1>1, <1>4, SeqDef
<1>. QED BY <1>2, <1>3, <1>5 DEF calls

LEMMA OneCall ==
    ASSUME NEW call \in Call, NEW s, Fits(call, s)
    PROVE  /\ <<call>> \in Seq(Call) /\ DOMAIN <<call>> = {1} /\ <<call>>[1] = call
           /\ \A n \in DOMAIN <<call>> : Fits(<<call>>[n], s)
<1>1. <<call>> \in Seq(Call) /\ DOMAIN <<call>> = 1..1 /\ <<call>>[1] = call
  OBVIOUS
<1>2. 1..1 = {1}
  OBVIOUS
<1>. QED BY <1>1, <1>2

(* The tasks come after the points made here, which some of them feed. *)
LEMMA TaskCalls ==
    ASSUME NEW s, \A n \in DOMAIN Own : Ensures(s, Name("point", Own[n]))
    PROVE  Tasks \in Seq(Call) /\ \A n \in DOMAIN Tasks : Fits(Tasks[n], s)
<1>. DEFINE names == Fed \o Own
<1>1. /\ names \in Seq(Dis)
      /\ DOMAIN names = 1..Len(names) /\ Len(names) \in Nat
      /\ \A i \in DOMAIN names :
            /\ names[i] \in Dis
            /\ (\E k \in DOMAIN Fed : names[i] = Fed[k])
                  \/ (\E k \in DOMAIN Own : names[i] = Own[k])
  BY PlanNames, InConcat
<1>2. \A i \in DOMAIN names :
         Tasks[i] = [op |-> "ensure", name |-> Name("task", names[i]),
                     of |-> Name("point", names[i])]
  BY DEF Tasks
<1>3. DOMAIN Tasks = DOMAIN names
  BY DEF Tasks
<1>. HIDE DEF names
<1>4. ASSUME NEW i \in DOMAIN names PROVE Tasks[i] \in Call /\ Fits(Tasks[i], s)
  <2>1. PICK d \in Dis : d = names[i]
    BY <1>1, <1>4
  <2>2. /\ Name("task", d) \in Key /\ Name("task", d).what = "task" /\ Name("task", d).dis = d
        /\ Name("point", d) \in Key
    BY PlanNames
  <2>3. Tasks[i] = [op |-> "ensure", name |-> Name("task", d), of |-> Name("point", d)]
    BY <1>2, <1>4, <2>1
  <2>4. (\E k \in DOMAIN Fed : Fed[k] = d) \/ Ensures(s, Name("point", d))
    BY <1>1, <1>4, <2>1
  <2>. QED BY <2>2, <2>3, <2>4 DEF Call, Fits
<1>5. Tasks \in [1..Len(names) -> Call]
  BY <1>1, <1>3, <1>4 DEF Tasks, names
<1>. QED BY <1>1, <1>3, <1>4, <1>5, SeqDef

(* The points are tagged after their equips are there. *)
LEMMA TagCalls ==
    ASSUME NEW s, \A n \in DOMAIN Equips : Ensures(s, Name("equip", Equips[n]))
    PROVE  /\ Tagging \in Seq(Call)
           /\ \A n \in DOMAIN Tagging : Fits(Tagging[n], s) /\ Tagging[n].op = "tag"
<1>. DEFINE names == Unfed \o Fed \o Own
<1>1. /\ names \in Seq(Dis)
      /\ DOMAIN names = 1..Len(names) /\ Len(names) \in Nat
      /\ \A i \in DOMAIN names : names[i] \in Dis
  <2>1. Unfed \o Fed \in Seq(Dis)
    BY PlanNames, InConcat
  <2>. QED BY <2>1, PlanNames, InConcat
<1>2. \A i \in DOMAIN names :
         Tagging[i] = [op |-> "tag", name |-> Name("point", names[i]),
                       of |-> Name("equip", EquipOf[names[i]])]
  BY DEF Tagging
<1>3. DOMAIN Tagging = DOMAIN names
  BY DEF Tagging
<1>4. \A i \in DOMAIN names : \E k \in DOMAIN Equips : EquipOf[names[i]] = Equips[k]
  BY EquipAssumption
<1>. HIDE DEF names
<1>5. ASSUME NEW i \in DOMAIN names
      PROVE  Tagging[i] \in Call /\ Fits(Tagging[i], s) /\ Tagging[i].op = "tag"
  <2>1. PICK k \in DOMAIN Equips : EquipOf[names[i]] = Equips[k]
    BY <1>4, <1>5
  <2>2. Equips[k] \in Dis /\ names[i] \in Dis
    BY <1>1, <1>5, PlanNames, LenProperties, ElementOfSeq
  <2>3. /\ Name("equip", Equips[k]) \in Key /\ Name("equip", Equips[k]).what = "equip"
        /\ Name("point", names[i]) \in Key /\ Name("point", names[i]).what = "point"
    BY <2>2, PlanNames
  <2>4. Tagging[i] = [op |-> "tag", name |-> Name("point", names[i]),
                      of |-> Name("equip", Equips[k])]
    BY <1>2, <1>5, <2>1
  <2>. QED BY <2>3, <2>4 DEF Call, Fits
<1>6. Tagging \in [1..Len(names) -> Call]
  BY <1>1, <1>3, <1>5 DEF Tagging, names
<1>. QED BY <1>1, <1>3, <1>5, <1>6, SeqDef

LEMMA EquipCalls ==
    /\ EquipsOf \in Seq(Call) /\ DOMAIN EquipsOf = DOMAIN Equips
    /\ \A s : \A n \in DOMAIN EquipsOf :
          /\ Fits(EquipsOf[n], s)
          /\ EquipsOf[n].op = "ensure" /\ EquipsOf[n].name = Name("equip", Equips[n])
<1>1. /\ DOMAIN Equips = 1..Len(Equips) /\ Len(Equips) \in Nat
      /\ \A n \in DOMAIN Equips : Equips[n] \in Dis
  BY PlanNames, LenProperties, ElementOfSeq
<1>2. DOMAIN EquipsOf = DOMAIN Equips
  BY DEF EquipsOf
<1>3. ASSUME NEW n \in DOMAIN Equips
      PROVE  /\ EquipsOf[n] \in Call
             /\ EquipsOf[n].op = "ensure" /\ EquipsOf[n].name = Name("equip", Equips[n])
             /\ \A s : Fits(EquipsOf[n], s)
  <2>1. /\ Name("equip", Equips[n]) \in Key /\ Name("equip", Equips[n]).what = "equip"
        /\ Name("site", Site) \in Key
    BY <1>1, PlanNames
  <2>2. EquipsOf[n] = [op |-> "ensure", name |-> Name("equip", Equips[n]),
                       of |-> Name("site", Site)]
    BY DEF EquipsOf
  <2>. QED BY <2>1, <2>2 DEF Call, Fits
<1>4. EquipsOf \in [1..Len(Equips) -> Call]
  BY <1>1, <1>2, <1>3 DEF EquipsOf
<1>. QED BY <1>1, <1>2, <1>3, <1>4, SeqDef

Through(calls, more) ==
    \A i \in DOMAIN calls : \E k \in DOMAIN more : more[k] = calls[i]

LEMMA StaysEnsured ==
    ASSUME NEW s, NEW t, Through(s, t)
    PROVE  \A name : Ensures(s, name) => Ensures(t, name)
  BY DEF Through, Ensures

LEMMA GoesOn ==
    ASSUME NEW s, Ordered(s), NEW t \in Seq(Call), \A n \in DOMAIN t : Fits(t[n], s)
    PROVE  Ordered(s \o t) /\ Through(s, s \o t) /\ Through(t, s \o t)
  BY OrderedConcat DEF Through

(* main, as a whole. *)
LEMMA PlanOrdered ==
    /\ Ordered(Plan)
    /\ \E n \in DOMAIN Plan : Plan[n].op = "libs"
    /\ Through(Tagging, Plan)
<1>1. PICK p0 : p0 = <<Fixed("libs", "conn", Conn), Fixed("require", "conn", Conn)>>
  OBVIOUS
<1>2. Ordered(p0) /\ DOMAIN p0 = 1..2 /\ p0[1].op = "libs"
  <2>1. Name("conn", Conn) \in Key /\ Nobody \in Key
    BY PlanNames
  <2>2. /\ Fixed("libs", "conn", Conn) \in Call /\ Fixed("libs", "conn", Conn).op = "libs"
        /\ Fixed("require", "conn", Conn) \in Call
        /\ Fixed("require", "conn", Conn).op = "require"
    BY <2>1 DEF Fixed, Call
  <2>3. /\ p0 \in Seq(Call) /\ DOMAIN p0 = 1..2
        /\ p0[1] = Fixed("libs", "conn", Conn) /\ p0[2] = Fixed("require", "conn", Conn)
    BY <1>1, <2>2
  <2>4. \A n \in DOMAIN p0 : \A s : Fits(p0[n], s)
    <3>1. \A n \in 1..2 : n = 1 \/ n = 2
      OBVIOUS
    <3>. QED BY <2>2, <2>3, <3>1 DEF Fits
  <2>. QED BY <2>2, <2>3, <2>4 DEF Ordered
<1>3. PICK p1 : p1 = p0 \o Steps("find", "point", Fed)
  OBVIOUS
<1>4. Ordered(p1) /\ Through(p0, p1)
  BY <1>2, <1>3, PlanNames, PlainCalls, GoesOn
<1>5. PICK p2 : p2 = p1 \o Steps("ensure", "point", Own)
  OBVIOUS
<1>6. /\ Ordered(p2) /\ Through(p1, p2)
      /\ \A n \in DOMAIN Own : Ensures(p2, Name("point", Own[n]))
  <2>1. Ordered(p2) /\ Through(p1, p2) /\ Through(Steps("ensure", "point", Own), p2)
    BY <1>4, <1>5, PlanNames, PlainCalls, GoesOn
  <2>2. \A n \in DOMAIN Own : Ensures(Steps("ensure", "point", Own), Name("point", Own[n]))
    <3>1. /\ DOMAIN Steps("ensure", "point", Own) = DOMAIN Own
          /\ \A n \in DOMAIN Own :
                /\ Steps("ensure", "point", Own)[n].op = "ensure"
                /\ Steps("ensure", "point", Own)[n].name = Name("point", Own[n])
      BY PlanNames, PlainCalls
    <3>. QED BY <3>1 DEF Ensures
  <2>. QED BY <2>1, <2>2, StaysEnsured
<1>7. PICK p3 : p3 = p2 \o Tasks
  OBVIOUS
<1>8. Ordered(p3) /\ Through(p2, p3)
  BY <1>6, <1>7, TaskCalls, GoesOn
<1>9. PICK p4 : p4 = p3 \o <<Fixed("ensure", "site", Site)>>
  OBVIOUS
<1>10. Ordered(p4) /\ Through(p3, p4)
  <2>1. Name("site", Site) \in Key /\ Name("site", Site).what = "site" /\ Nobody \in Key
    BY PlanNames
  <2>2. Fixed("ensure", "site", Site) \in Call /\ Fits(Fixed("ensure", "site", Site), p3)
    BY <2>1 DEF Fixed, Call, Fits
  <2>. QED BY <1>8, <1>9, <2>2, OneCall, GoesOn
<1>11. PICK p5 : p5 = p4 \o EquipsOf
  OBVIOUS
<1>12. /\ Ordered(p5) /\ Through(p4, p5)
       /\ \A n \in DOMAIN Equips : Ensures(p5, Name("equip", Equips[n]))
  <2>1. Ordered(p5) /\ Through(p4, p5) /\ Through(EquipsOf, p5)
    BY <1>10, <1>11, EquipCalls, GoesOn
  <2>2. \A n \in DOMAIN Equips : Ensures(EquipsOf, Name("equip", Equips[n]))
    BY EquipCalls DEF Ensures
  <2>. QED BY <2>1, <2>2, StaysEnsured
<1>13. PICK p6 : p6 = p5 \o Steps("find", "point", Unfed)
  OBVIOUS
<1>14. Ordered(p6) /\ Through(p5, p6)
  BY <1>12, <1>13, PlanNames, PlainCalls, GoesOn
<1>15. \A n \in DOMAIN Equips : Ensures(p6, Name("equip", Equips[n]))
  BY <1>12, <1>14, StaysEnsured
<1>16. PICK p7 : p7 = p6 \o Tagging
  OBVIOUS
<1>17. Ordered(p7) /\ Through(p6, p7) /\ Through(Tagging, p7)
  BY <1>14, <1>15, <1>16, TagCalls, GoesOn
<1>18. Plan = p7 \o <<Fixed("ensure", "point", Fixture)>>
  BY <1>1, <1>3, <1>5, <1>7, <1>9, <1>11, <1>13, <1>16 DEF Plan
<1>19. Ordered(Plan) /\ Through(p7, Plan)
  <2>1. /\ Name("point", Fixture) \in Key /\ Nobody \in Key
        /\ Name("point", Fixture).what = "point" /\ Name("point", Fixture).dis = Fixture
    BY PlanNames
  <2>2. Fixed("ensure", "point", Fixture) \in Call /\ Fits(Fixed("ensure", "point", Fixture), p7)
    BY <2>1 DEF Fixed, Call, Fits
  <2>. QED BY <1>17, <1>18, <2>2, OneCall, GoesOn
<1>20. \A s, t, u : (Through(s, t) /\ Through(t, u)) => Through(s, u)
  BY DEF Through
<1>21. Through(p0, Plan) /\ Through(Tagging, Plan)
  BY <1>4, <1>6, <1>8, <1>10, <1>12, <1>14, <1>17, <1>19, <1>20
<1>22. \E n \in DOMAIN Plan : Plan[n].op = "libs"
  BY <1>2, <1>21 DEF Through
<1>. QED BY <1>19, <1>21, <1>22

-----------------------------------------------------------------------------
(* Haxall's records *)

(* A record as the script makes and changes it: nothing but the fixture is *)
(* writable, a point's equipRef comes with the markers, and a task feeds a *)
(* point of its name or, of those made by hand, none.                      *)
WellMade(rec) ==
    /\ rec.ref \in 0..Len(recs)
    /\ rec.writable => rec.dis \in {Fixture, NoDis}
    /\ (rec.what = "point" /\ rec.ref # 0) =>
          rec.marked /\ recs[rec.ref].what = "equip"
    /\ rec.what = "task" =>
          \/ rec.ref \in Matching("point", rec.dis)
          \/ rec.ref = 0 /\ \E k \in DOMAIN Fed : Fed[k] = rec.dis

Records == FolioOK /\ \A i \in DOMAIN recs : WellMade(recs[i])

(* What a step leaves of a record. *)
Kept(i) ==
    /\ recs'[i].what = recs[i].what /\ recs'[i].dis = recs[i].dis
    /\ recs[i].marked => recs'[i].marked
    /\ recs[i].ref # 0 => recs'[i].ref # 0

Grows ==
    /\ DOMAIN recs \subseteq DOMAIN recs' /\ Len(recs) <= Len(recs')
    /\ \A i \in DOMAIN recs : Kept(i)

LEMMA RecordAt ==
    ASSUME FolioOK
    PROVE  /\ DOMAIN recs = 1..Len(recs) /\ Len(recs) \in Nat
           /\ \A i \in DOMAIN recs : recs[i] \in Rec /\ recs[i].ref \in 0..Len(recs)
           /\ \A i : i \in 0..Len(recs) => (i = 0 \/ i \in DOMAIN recs)
<1>1. recs \in Seq(Rec) /\ \A i \in DOMAIN recs : recs[i].ref \in 0..Len(recs)
  BY DEF FolioOK
<1>2. DOMAIN recs = 1..Len(recs) /\ Len(recs) \in Nat
  BY <1>1, LenProperties
<1>3. \A i \in DOMAIN recs : recs[i] \in Rec
  BY <1>1, <1>2, ElementOfSeq
<1>4. \A i : i \in 0..Len(recs) => (i = 0 \/ i \in DOMAIN recs)
  BY <1>2
<1>. QED BY <1>1, <1>2, <1>3, <1>4

LEMMA StillMatching ==
    ASSUME Grows, NEW what, NEW d, NEW i, i \in Matching(what, d)
    PROVE  (i \in Matching(what, d))'
  BY DEF Grows, Kept, Matching

LEMMA StillWellMade ==
    ASSUME FolioOK, Grows, FolioOK', NEW rec, WellMade(rec)
    PROVE  WellMade(rec)'
<1>1. rec.ref \in 0..Len(recs')
  <2>1. Len(recs) \in Nat /\ Len(recs') \in Nat /\ Len(recs) <= Len(recs')
    BY RecordAt, LenProperties DEF FolioOK, Grows
  <2>. QED BY <2>1 DEF WellMade
<1>2. rec.ref # 0 => (rec.ref \in DOMAIN recs /\ recs'[rec.ref].what = recs[rec.ref].what)
  BY RecordAt DEF WellMade, Grows, Kept
<1>3. \A d : rec.ref \in Matching("point", d) => (rec.ref \in Matching("point", d))'
  BY StillMatching
<1>. QED BY <1>1, <1>2, <1>3 DEF WellMade

LEMMA NothingChanged ==
    ASSUME Records, recs' = recs
    PROVE  Records' /\ Grows
<1>1. Records'
  BY DEF Records, FolioOK, WellMade, Matching
<1>2. Grows
  BY RecordAt DEF Records, Grows, Kept
<1>. QED BY <1>1, <1>2

LEMMA RecordAdded ==
    ASSUME Records, NEW rec \in Rec, WellMade(rec), Add(rec)
    PROVE  /\ Records' /\ Grows
           /\ DOMAIN recs' = 1..(Len(recs) + 1) /\ recs'[Len(recs) + 1] = rec
           /\ \A i \in 1..Len(recs) : recs'[i] = recs[i]
<1>1. /\ recs' \in Seq(Rec) /\ DOMAIN recs' = 1..(Len(recs) + 1)
      /\ Len(recs') = Len(recs) + 1
      /\ Len(recs) \in Nat /\ DOMAIN recs = 1..Len(recs)
      /\ \A i \in 1..Len(recs) : recs'[i] = recs[i]
      /\ recs'[Len(recs) + 1] = rec
  <2>1. recs \in Seq(Rec) /\ recs' = Append(recs, rec)
    BY DEF Records, FolioOK, Add
  <2>. QED BY <2>1, AfterAppend
<1>2. Grows
  BY <1>1 DEF Grows, Kept
<1>3. FolioOK'
  <2>1. rec.ref \in 0..Len(recs)
    BY DEF WellMade
  <2>2. \A i \in DOMAIN recs' : recs'[i].ref \in 0..Len(recs')
    <3>. TAKE i \in DOMAIN recs'
    <3>1. CASE i \in 1..Len(recs)
      <4>1. recs[i].ref \in 0..Len(recs)
        BY <1>1, <3>1 DEF Records, FolioOK
      <4>. QED BY <1>1, <3>1, <4>1
    <3>2. CASE i = Len(recs) + 1
      BY <1>1, <2>1, <3>2
    <3>. QED BY <1>1, <3>1, <3>2
  <2>. QED BY <1>1, <2>2 DEF FolioOK
<1>4. ASSUME NEW i \in DOMAIN recs' PROVE WellMade(recs[i])'
  <2>1. PICK q : q = recs'[i]
    OBVIOUS
  <2>2. WellMade(q)
    <3>1. CASE i \in 1..Len(recs)
      BY <1>1, <2>1, <3>1 DEF Records
    <3>2. CASE i = Len(recs) + 1
      BY <1>1, <2>1, <3>2
    <3>. QED BY <1>1, <1>4, <3>1, <3>2
  <2>3. WellMade(q)'
    BY <1>2, <1>3, <2>2, StillWellMade DEF Records
  <2>. QED BY <2>1, <2>3 DEF WellMade
<1>. QED BY <1>1, <1>2, <1>3, <1>4 DEF Records

(* One record is changed, and neither its name nor what it refers to in    *)
(* a way that matters to the others.                                       *)
LEMMA RecordChanged ==
    ASSUME Records, NEW n \in DOMAIN recs, NEW new \in Rec,
           recs' = [recs EXCEPT ![n] = new],
           new.what = recs[n].what, new.dis = recs[n].dis,
           recs[n].marked => new.marked, recs[n].ref # 0 => new.ref # 0,
           WellMade(new)
    PROVE  /\ Records' /\ Grows /\ DOMAIN recs' = DOMAIN recs
           /\ \A i \in DOMAIN recs :
                 recs'[i].what = recs[i].what /\ recs'[i].dis = recs[i].dis
<1>1. /\ DOMAIN recs = 1..Len(recs) /\ Len(recs) \in Nat
      /\ \A i \in DOMAIN recs : recs[i] \in Rec /\ WellMade(recs[i])
  BY RecordAt DEF Records
<1>2. recs' \in Seq(Rec) /\ Len(recs') = Len(recs) /\ DOMAIN recs' = DOMAIN recs
  BY <1>1, ExceptSeq DEF Records, FolioOK
<1>3. \A i \in DOMAIN recs : recs'[i] = IF i = n THEN new ELSE recs[i]
  BY <1>1
<1>4. Grows
  BY <1>1, <1>2, <1>3 DEF Grows, Kept
<1>5. \A i \in DOMAIN recs' : recs'[i].ref \in 0..Len(recs')
  BY <1>1, <1>2, <1>3 DEF WellMade
<1>6. FolioOK'
  BY <1>2, <1>5 DEF FolioOK
<1>7. ASSUME NEW i \in DOMAIN recs' PROVE WellMade(recs[i])'
  <2>1. PICK q : q = recs'[i]
    OBVIOUS
  <2>2. WellMade(q)
    BY <1>1, <1>2, <1>3, <1>7, <2>1
  <2>3. WellMade(q)'
    BY <1>4, <1>6, <2>2, StillWellMade DEF Records
  <2>. QED BY <2>1, <2>3 DEF WellMade
<1>. QED BY <1>2, <1>3, <1>4, <1>6, <1>7 DEF Records

LEMMA ValueCommitted ==
    ASSUME Records, TaskRuns
    PROVE  /\ Records' /\ Grows /\ DOMAIN recs' = DOMAIN recs
           /\ \A i \in DOMAIN recs :
                 recs'[i].what = recs[i].what /\ recs'[i].dis = recs[i].dis
<1>1. PICK i \in DOMAIN recs, v \in Value :
          recs[i].ref # 0 /\ recs' = [recs EXCEPT ![recs[i].ref].curVal = v]
  BY DEF TaskRuns
<1>2. PICK n \in DOMAIN recs : n = recs[i].ref
  BY <1>1, RecordAt DEF Records
<1>3. PICK new : new = [recs[n] EXCEPT !.curVal = v]
  OBVIOUS
<1>4. recs[n] \in Rec /\ WellMade(recs[n])
  BY RecordAt DEF Records
<1>5. /\ new \in Rec /\ new.what = recs[n].what /\ new.dis = recs[n].dis
      /\ new.writable = recs[n].writable /\ new.marked = recs[n].marked
      /\ new.ref = recs[n].ref
  BY <1>3, <1>4 DEF Rec
<1>6. WellMade(new)
  BY <1>4, <1>5 DEF WellMade
<1>7. recs' = [recs EXCEPT ![n] = new]
  BY <1>1, <1>2, <1>3
<1>. QED BY <1>5, <1>6, <1>7, RecordChanged

(* One commit brings a point both the markers and the equipRef. *)
LEMMA PointTagged ==
    ASSUME Records, NEW n \in DOMAIN recs, recs[n].what = "point",
           NEW q \in DOMAIN recs, recs[q].what = "equip",
           missing \in [marked : BOOLEAN, ref : BOOLEAN],
           missing.marked \/ recs[n].marked, missing.ref \/ recs[n].ref # 0,
           recs' = [recs EXCEPT ![n].marked = @ \/ missing.marked,
                                ![n].ref = IF missing.ref THEN q ELSE @]
    PROVE  /\ Records' /\ Grows /\ DOMAIN recs' = DOMAIN recs
           /\ \A i \in DOMAIN recs :
                 recs'[i].what = recs[i].what /\ recs'[i].dis = recs[i].dis
           /\ recs'[n].ref # 0
<1>1. /\ recs[n] \in Rec /\ WellMade(recs[n])
      /\ DOMAIN recs = 1..Len(recs) /\ Len(recs) \in Nat
  BY RecordAt DEF Records
<1>2. PICK e : e = IF missing.ref THEN q ELSE recs[n].ref
  OBVIOUS
<1>3. e \in DOMAIN recs /\ e # 0 /\ e \in Nat /\ recs[e].what = "equip"
  BY <1>1, <1>2, RecordAt DEF WellMade, Records
<1>4. PICK new : new = [recs[n] EXCEPT !.marked = TRUE, !.ref = e]
  OBVIOUS
<1>5. /\ new \in Rec /\ new.what = recs[n].what /\ new.dis = recs[n].dis
      /\ new.writable = recs[n].writable /\ new.marked = TRUE
      /\ new.ref = e
  BY <1>1, <1>3, <1>4 DEF Rec
<1>6. WellMade(new)
  BY <1>1, <1>3, <1>5 DEF WellMade
<1>7. recs' = [recs EXCEPT ![n] = new]
  <2>1. recs[n].marked \in BOOLEAN /\ missing.marked \in BOOLEAN
    BY <1>1 DEF Rec
  <2>2. (recs[n].marked \/ missing.marked) = TRUE
    BY <2>1, Zenon
  <2>3. recs' = [recs EXCEPT ![n] = [recs[n] EXCEPT !.marked = @ \/ missing.marked,
                                     !.ref = IF missing.ref THEN q ELSE @]]
    OBVIOUS
  <2>. QED BY <1>2, <1>4, <2>2, <2>3
<1>. QED BY <1>3, <1>5, <1>6, <1>7, RecordChanged

LEMMA NamesKept ==
    ASSUME NoDuplicates, landed' = landed, DOMAIN recs' = DOMAIN recs,
           \A i \in DOMAIN recs :
               recs'[i].what = recs[i].what /\ recs'[i].dis = recs[i].dis
    PROVE  /\ NoDuplicates'
           /\ \A what, d : Matching(what, d)' = Matching(what, d)
  BY DEF NoDuplicates, Matching

LEMMA NewName ==
    ASSUME NoDuplicates, landed' = landed, Records, NEW rec \in Rec, WellMade(rec), Add(rec),
           landed = 0 => Matching(rec.what, rec.dis) = {}
    PROVE  /\ NoDuplicates'
           /\ \A what, d : (rec.what # what \/ rec.dis # d) =>
                  Matching(what, d)' = Matching(what, d)
<1>1. /\ DOMAIN recs' = 1..(Len(recs) + 1) /\ recs'[Len(recs) + 1] = rec
      /\ \A i \in 1..Len(recs) : recs'[i] = recs[i]
      /\ DOMAIN recs = 1..Len(recs) /\ Len(recs) \in Nat
  BY RecordAdded, RecordAt DEF Records
<1>2. \A i \in DOMAIN recs' : i \in 1..Len(recs) \/ i = Len(recs) + 1
  BY <1>1
<1>3. NoDuplicates'
  BY <1>1, <1>2 DEF NoDuplicates, Matching
<1>4. \A what, d : (rec.what # what \/ rec.dis # d) =>
          Matching(what, d)' = Matching(what, d)
  BY <1>1, <1>2 DEF Matching
<1>. QED BY <1>3, <1>4

-----------------------------------------------------------------------------
(* The script: what it has found, what it is about to commit, and what the *)
(* steps behind it have brought about.                                     *)

RefsFound == \A k \in Key : refs[k] # 0 => refs[k] \in Matching(k.what, k.dis)

Placed ==
    /\ step = 0 => at = "find"
    /\ (step # 0 /\ at # "find") =>
          \/ /\ Current.op = "ensure"
             /\ (at = "commit" /\ landed = 0) => Here = {}
          \/ /\ Current.op = "tag" /\ at = "commit" /\ Target # 0
             /\ missing.marked \/ recs[Target].marked
             /\ missing.ref \/ recs[Target].ref # 0

Provided(call) ==
    /\ call.op = "libs" => libs = NumLibs
    /\ call.op = "ensure" => Matching(call.name.what, call.name.dis) # {}
    /\ call.op = "tag" => \E i \in Matching("point", call.name.dis) : recs[i].ref # 0

Earlier ==
    \A n \in 1..(step - 1) :
        Provided(Plan[n]) /\ (Plan[n].op = "ensure" => refs[Plan[n].name] # 0)

Complete == done => \A n \in DOMAIN Plan : Provided(Plan[n])

Walk ==
    /\ step \in 0..Len(Plan) /\ at \in {"find", "commit", "reread"}
    /\ refs \in [Key -> 0..Len(recs)]
    /\ missing \in [marked : BOOLEAN, ref : BOOLEAN] /\ done \in BOOLEAN
    /\ RefsFound /\ Placed /\ Earlier /\ Complete

Commits ==
    /\ libs \in 0..NumLibs /\ runs \in 0..MaxRuns /\ landed \in 0..MaxLate
    /\ late \subseteq Rec /\ IsFiniteSet(late) /\ Cardinality(late) + landed <= MaxLate
    /\ \A rec \in late : WellMade(rec)

ScriptInv == Records /\ Walk /\ Commits /\ NoDuplicates

(* A step that takes the script nowhere, or to the next place: what has    *)
(* been provided and found remains.                                        *)
LibsStay == libs = NumLibs => libs' = NumLibs

LEMMA StillProvided ==
    ASSUME Grows, LibsStay, NEW call, Provided(call)
    PROVE  Provided(call)'
<1>1. (call.op = "libs" => libs = NumLibs)'
  BY DEF Provided, LibsStay
<1>2. (call.op = "ensure" => Matching(call.name.what, call.name.dis) # {})'
  BY StillMatching DEF Provided
<1>3. (call.op = "tag" => \E i \in Matching("point", call.name.dis) : recs[i].ref # 0)'
  <2>. SUFFICES ASSUME call.op = "tag"
                PROVE  \E i \in Matching("point", call.name.dis)' : recs'[i].ref # 0
    OBVIOUS
  <2>1. PICK i \in Matching("point", call.name.dis) : recs[i].ref # 0
    BY DEF Provided
  <2>2. i \in Matching("point", call.name.dis)'
    BY <2>1, StillMatching
  <2>3. recs'[i].ref # 0
    BY <2>1 DEF Matching, Grows, Kept
  <2>. QED BY <2>2, <2>3
<1>. QED BY <1>1, <1>2, <1>3 DEF Provided

LEMMA PlanCalls ==
    /\ Len(Plan) \in Nat /\ DOMAIN Plan = 1..Len(Plan)
    /\ \A n \in DOMAIN Plan :
          /\ Plan[n] \in Call /\ Plan[n].name \in Key /\ Plan[n].of \in Key
          /\ Plan[n].op = "tag" =>
                /\ Plan[n].name.what = "point" /\ Plan[n].of.what = "equip"
                /\ \E j \in 1..(n - 1) : Plan[j].op = "ensure" /\ Plan[j].name = Plan[n].of
          /\ Plan[n].op = "ensure" => Plan[n].name.what \in {"point", "task", "site", "equip"}
          /\ (Plan[n].op = "ensure" /\ Plan[n].name.what = "point") =>
                \/ Plan[n].name.dis = Fixture
                \/ \E k \in DOMAIN Own : Plan[n].name.dis = Own[k]
          /\ (Plan[n].op = "ensure" /\ Plan[n].name.what = "task") =>
                /\ Plan[n].of = Name("point", Plan[n].name.dis)
                /\ \/ \E k \in DOMAIN Fed : Fed[k] = Plan[n].name.dis
                   \/ \E j \in 1..(n - 1) :
                         Plan[j].op = "ensure" /\ Plan[j].name = Plan[n].of
<1>1. /\ Plan \in Seq(Call) /\ Len(Plan) \in Nat /\ DOMAIN Plan = 1..Len(Plan)
      /\ \A n \in DOMAIN Plan : Plan[n] \in Call /\ Fits(Plan[n], SubSeq(Plan, 1, n - 1))
  <2>1. Plan \in Seq(Call)
    BY PlanOrdered DEF Ordered
  <2>2. Len(Plan) \in Nat /\ DOMAIN Plan = 1..Len(Plan)
    BY <2>1, LenProperties
  <2>. QED BY <2>1, <2>2, PlanOrdered, ElementOfSeq DEF Ordered
<1>2. ASSUME NEW n \in DOMAIN Plan, NEW name, Ensures(SubSeq(Plan, 1, n - 1), name)
      PROVE  \E j \in 1..(n - 1) : Plan[j].op = "ensure" /\ Plan[j].name = name
  <2>1. PICK p : p = Plan
    OBVIOUS
  <2>2. p \in Seq(Call) /\ n \in 1..Len(p)
    BY <1>1, <1>2, <2>1
  <2>3. /\ DOMAIN SubSeq(p, 1, n - 1) = 1..(n - 1)
        /\ \A i \in 1..(n - 1) : SubSeq(p, 1, n - 1)[i] = p[i]
    BY <2>2
  <2>. QED BY <1>2, <2>1, <2>3 DEF Ensures
<1>3. ASSUME NEW n \in DOMAIN Plan
      PROVE  Plan[n].name \in Key /\ Plan[n].of \in Key
  BY <1>1, <1>3 DEF Call
<1>. QED BY <1>1, <1>2, <1>3 DEF Fits

LEMMA RefsStillFound ==
    ASSUME Records, Records', Grows, NEW r \in [Key -> 0..Len(recs)],
           \A k \in Key : r[k] # 0 => r[k] \in Matching(k.what, k.dis)
    PROVE  /\ r \in [Key -> 0..Len(recs')]
           /\ \A k \in Key : r[k] # 0 => (r[k] \in Matching(k.what, k.dis))'
<1>1. Len(recs) \in Nat /\ Len(recs') \in Nat /\ Len(recs) <= Len(recs')
  BY RecordAt, LenProperties DEF Records, FolioOK, Grows
<1>2. ASSUME NEW k \in Key, r[k] # 0
      PROVE  (r[k] \in Matching(k.what, k.dis))'
  <2>1. PICK i : i = r[k]
    OBVIOUS
  <2>2. i \in Matching(k.what, k.dis)
    BY <1>2, <2>1
  <2>3. (i \in Matching(k.what, k.dis))'
    BY <2>2, StillMatching
  <2>. QED BY <2>1, <2>3
<1>. QED BY <1>1, <1>2

LEMMA WalkKeeps ==
    ASSUME Records, Walk, Records', Grows, LibsStay, UNCHANGED <<step, refs, done>>,
           at' \in {"find", "commit", "reread"},
           missing' \in [marked : BOOLEAN, ref : BOOLEAN], Placed'
    PROVE  Walk'
<1>1. refs' \in [Key -> 0..Len(recs')] /\ RefsFound'
  BY RefsStillFound DEF Walk, RefsFound
<1>2. Earlier'
  <2>1. \A n \in 1..(step - 1) : Provided(Plan[n])'
    BY StillProvided DEF Walk, Earlier
  <2>. QED BY <2>1 DEF Walk, Earlier
<1>3. Complete'
  <2>1. done => \A n \in DOMAIN Plan : Provided(Plan[n])'
    BY StillProvided DEF Walk, Complete
  <2>. QED BY <2>1 DEF Complete
<1>. QED BY <1>1, <1>2, <1>3 DEF Walk

LEMMA WalkStays ==
    ASSUME Records, Walk, Records', Grows, LibsStay, UNCHANGED <<script, done>>,
           \A what, d :
               (step # 0 /\ what = Current.name.what /\ d = Current.name.dis
                  /\ Current.op = "ensure" /\ landed' = 0) =>
                   landed = 0 /\ Matching(what, d)' = Matching(what, d)
    PROVE  Walk'
<1>1. UNCHANGED <<step, at, refs, missing, done>>
  BY DEF script
<1>2. step # 0 => /\ step \in DOMAIN Plan /\ Current.name \in Key
                  /\ Target \in 0..Len(recs)
  BY PlanCalls DEF Walk, Current, Target
<1>3. Placed'
  <2>1. Current' = Current /\ Target' = Target
    BY <1>1 DEF Current, Target
  <2>2. ASSUME step # 0, Target # 0
        PROVE  /\ recs[Target].marked => recs'[Target].marked
               /\ recs[Target].ref # 0 => recs'[Target].ref # 0
    BY <1>2, <2>2, RecordAt DEF Records, Grows, Kept
  <2>3. (step # 0 /\ Current.op = "ensure" /\ landed' = 0) =>
            landed = 0 /\ Here' = Here
    BY <1>1, <2>1 DEF Here
  <2>. QED BY <1>1, <2>1, <2>2, <2>3 DEF Walk, Placed
<1>. QED BY <1>1, <1>3, WalkKeeps DEF Walk

LEMMA WalkRaises ==
    ASSUME Records, Walk, Records', Grows, LibsStay, Raise
    PROVE  Walk'
<1>1. step' = 0 /\ at' = "find" /\ refs' = NoRefs /\ missing' = NothingMissing /\ done' = done
  BY DEF Raise
<1>2. /\ Len(Plan) \in Nat /\ Len(recs') \in Nat
      /\ \A k \in Key : NoRefs[k] = 0
      /\ NoRefs \in [Key -> 0..Len(recs')]
      /\ NothingMissing \in [marked : BOOLEAN, ref : BOOLEAN]
  BY PlanCalls, LenProperties DEF Records, FolioOK, NoRefs, NothingMissing
<1>3. RefsFound' /\ Placed' /\ Earlier'
  BY <1>1, <1>2 DEF RefsFound, Placed, Earlier
<1>4. Complete'
  <2>1. done => \A n \in DOMAIN Plan : Provided(Plan[n])'
    BY StillProvided DEF Walk, Complete
  <2>. QED BY <1>1, <2>1 DEF Complete
<1>. QED BY <1>1, <1>2, <1>3, <1>4 DEF Walk

(* The step has returned, and has brought about what it is there for. *)
LEMMA WalkReturns ==
    ASSUME Records, Walk, Records', Grows, LibsStay, step # 0,
           NEW r \in [Key -> 0..Len(recs)], Return(r),
           \A k \in Key : /\ r[k] # 0 => r[k] \in Matching(k.what, k.dis)
                          /\ refs[k] # 0 => r[k] # 0,
           NEW call, call = Current, Provided(call)',
           call.op = "ensure" => r[call.name] # 0
    PROVE  Walk'
<1>1. /\ step' = IF step = Len(Plan) THEN 0 ELSE step + 1
      /\ refs' = IF step = Len(Plan) THEN NoRefs ELSE r
      /\ at' = "find" /\ missing' = NothingMissing
  BY DEF Return
<1>0. done' = (done \/ step = Len(Plan))
  BY DEF Return
<1>2. /\ Len(Plan) \in Nat /\ Len(recs') \in Nat /\ DOMAIN Plan = 1..Len(Plan)
      /\ step \in 1..Len(Plan)
      /\ \A n \in DOMAIN Plan : Plan[n].name \in Key
      /\ \A k \in Key : NoRefs[k] = 0
      /\ NoRefs \in [Key -> 0..Len(recs')]
      /\ NothingMissing \in [marked : BOOLEAN, ref : BOOLEAN]
  BY PlanCalls, LenProperties DEF Records, FolioOK, NoRefs, NothingMissing, Walk
<1>3. /\ r \in [Key -> 0..Len(recs')]
      /\ \A k \in Key : r[k] # 0 => (r[k] \in Matching(k.what, k.dis))'
  BY RefsStillFound
<1>4. \A n \in 1..step :
          /\ Provided(Plan[n])'
          /\ Plan[n].op = "ensure" => r[Plan[n].name] # 0
  <2>. TAKE n \in 1..step
  <2>1. CASE n \in 1..(step - 1)
    <3>1. Provided(Plan[n]) /\ (Plan[n].op = "ensure" => refs[Plan[n].name] # 0)
      BY <2>1 DEF Walk, Earlier
    <3>2. n \in DOMAIN Plan
      BY <1>2, <2>1
    <3>. QED BY <1>2, <3>1, <3>2, StillProvided
  <2>2. CASE n = step
    <3>1. Plan[n] = call
      BY <2>2 DEF Current
    <3>. QED BY <3>1
  <2>. QED BY <1>2, <2>1, <2>2
<1>5. done' \in BOOLEAN
  BY <1>0, Zenon DEF Walk
<1>6. Complete'
  <2>1. CASE step = Len(Plan)
    BY <1>2, <1>4, <2>1 DEF Complete
  <2>2. CASE step # Len(Plan) /\ done
    <3>1. \A n \in DOMAIN Plan : Provided(Plan[n])'
      BY <2>2, StillProvided DEF Walk, Complete
    <3>. QED BY <3>1 DEF Complete
  <2>. QED BY <1>0, <2>1, <2>2 DEF Complete
<1>7. CASE step = Len(Plan)
  <2>1. step' = 0 /\ refs' = NoRefs
    BY <1>1, <1>7
  <2>2. RefsFound'
    BY <1>2, <2>1 DEF RefsFound
  <2>3. Placed'
    BY <1>1, <2>1 DEF Placed
  <2>4. Earlier'
    BY <2>1 DEF Earlier
  <2>. QED BY <1>1, <1>2, <1>5, <1>6, <2>1, <2>2, <2>3, <2>4 DEF Walk
<1>8. CASE step # Len(Plan)
  <2>1. step' = step + 1 /\ refs' = r
    BY <1>1, <1>8
  <2>2. step' \in 1..Len(Plan) /\ step' - 1 = step
    <3>1. \A n \in Nat : \A k \in 1..n : k # n => (k + 1 \in 1..n /\ k + 1 - 1 = k)
      OBVIOUS
    <3>2. Len(Plan) \in Nat /\ step \in 1..Len(Plan) /\ step # Len(Plan)
      BY <1>2, <1>8
    <3>. QED BY ONLY <2>1, <3>1, <3>2
  <2>3. RefsFound'
    BY <1>3, <2>1 DEF RefsFound
  <2>4. Placed'
    BY <1>1, <2>2 DEF Placed
  <2>5. Earlier'
    BY <1>4, <2>1, <2>2 DEF Earlier
  <2>6. step' \in 0..Len(Plan)
    BY <1>2, <2>2
  <2>. QED BY <1>1, <1>2, <1>3, <1>5, <1>6, <2>1, <2>3, <2>4, <2>5, <2>6 DEF Walk
<1>. QED BY <1>7, <1>8

LEMMA CommitsStay ==
    ASSUME Records, Commits, Records', Grows, UNCHANGED <<late, landed>>,
           libs' \in 0..NumLibs, runs' \in 0..MaxRuns
    PROVE  Commits'
<1>1. \A rec \in late : WellMade(rec)'
  BY StillWellMade DEF Commits, Records
<1>. QED BY <1>1 DEF Commits

(* What a step makes is well made: the equip or the point it is for has    *)
(* been found before, or it is a task of a point made by hand.             *)
LEMMA MadeWell ==
    ASSUME Records, Walk, step # 0, Current.op = "ensure"
    PROVE  /\ Made \in Rec /\ WellMade(Made)
           /\ Made.what = Current.name.what /\ Made.dis = Current.name.dis
<1>1. PICK n \in DOMAIN Plan : n = step
  BY PlanCalls DEF Walk
<1>2. PICK call \in Call : call = Plan[n]
  BY PlanCalls
<1>3. PICK r : r = IF call.name.what \in {"task", "equip"} THEN refs[call.of] ELSE 0
  OBVIOUS
<1>4. call.op = "ensure" /\ call.name \in Key /\ call.of \in Key /\ Current = call
  BY <1>1, <1>2, PlanCalls DEF Current
<1>5. PICK w \in BOOLEAN : w = (call.name = Name("point", Fixture))
  OBVIOUS
<1>6. Made = [what |-> call.name.what, dis |-> call.name.dis, writable |-> w,
              marked |-> FALSE, ref |-> r, curVal |-> 0]
  <2>1. Made = [NewRec(call.name.what, call.name.dis, 0) EXCEPT
                   !.ref = IF call.op = "ensure" /\ call.name.what \in {"task", "equip"}
                           THEN refs[call.of] ELSE 0,
                   !.writable = (call.name = Name("point", Fixture))]
    BY <1>4, Zenon DEF Made
  <2>2. (IF call.op = "ensure" /\ call.name.what \in {"task", "equip"}
         THEN refs[call.of] ELSE 0) = r
    BY <1>3, <1>4
  <2>3. Made = [NewRec(call.name.what, call.name.dis, 0) EXCEPT !.ref = r, !.writable = w]
    BY <1>5, <2>1, <2>2, Zenon
  <2>. QED BY <2>3 DEF NewRec
<1>7. r \in 0..Len(recs) /\ r \in Nat /\ Len(recs) \in Nat
  BY <1>3, <1>4, RecordAt DEF Walk, Records
<1>8. call.name.what \in {"conn", "point", "site", "equip", "task"} /\ call.name.dis \in Dis
  BY <1>4 DEF Key
<1>9. w => call.name.dis = Fixture
  <2>1. w => call.name = Name("point", Fixture)
    BY <1>5, Zenon
  <2>2. Name("point", Fixture).dis = Fixture
    BY PlanNames
  <2>. QED BY <2>1, <2>2
<1>10. Made \in Rec
  BY <1>6, <1>7, <1>8 DEF Rec
<1>11. WellMade(Made)
  <2>1. PICK made : made = Made
    OBVIOUS
  <2>2. made.writable => made.dis \in {Fixture, NoDis}
    <3>1. made.writable = w /\ made.dis = call.name.dis
      BY <1>6, <2>1
    <3>. QED BY <1>9, <3>1
  <2>3. made.what = call.name.what /\ made.dis = call.name.dis /\ made.ref = r
    BY <1>6, <2>1
  <2>4. made.what = "point" => made.ref = 0
    BY <1>3, <2>3
  <2>5. ASSUME made.what = "task"
        PROVE  \/ made.ref \in Matching("point", made.dis)
               \/ made.ref = 0 /\ \E k \in DOMAIN Fed : Fed[k] = made.dis
    <3>1. r = refs[call.of] /\ call.of = Name("point", call.name.dis)
      BY <1>1, <1>2, <1>3, <1>4, <2>3, <2>5, PlanCalls
    <3>2. CASE r # 0
      <4>1. r \in Matching(call.of.what, call.of.dis)
        BY <1>4, <3>1, <3>2 DEF Walk, RefsFound
      <4>. QED BY <2>3, <3>1, <4>1 DEF Name
    <3>3. CASE r = 0
      <4>1. ~\E k \in 1..(n - 1) : Plan[k].op = "ensure" /\ Plan[k].name = call.of
        BY <1>1, <3>1, <3>3 DEF Walk, Earlier
      <4>. QED BY <1>1, <1>2, <1>4, <2>3, <2>5, <3>3, <4>1, PlanCalls
    <3>. QED BY <3>2, <3>3
  <2>6. WellMade(made)
    BY <1>7, <2>2, <2>3, <2>4, <2>5 DEF WellMade
  <2>. QED BY <2>1, <2>6
<1>. QED BY <1>4, <1>6, <1>10, <1>11

-----------------------------------------------------------------------------
(* The steps of the script, and of those who write beside it *)

LEMMA OthersWrite ==
    ASSUME ScriptInv,
           \/ UNCHANGED provisionVars
           \/ Ingest
           \/ CommitLands
           \/ ByHand
    PROVE  ScriptInv' /\ Grows
<1>1. /\ UNCHANGED <<libs, script, runs, done>>
      /\ LibsStay /\ libs' \in 0..NumLibs /\ runs' \in 0..MaxRuns
      /\ Records /\ Walk /\ Commits /\ NoDuplicates
  BY DEF provisionVars, Ingest, CommitLands, ByHand, LibsStay, ScriptInv, Commits
<1>2. CASE UNCHANGED provisionVars
  <2>1. recs' = recs /\ landed' = landed /\ late' = late
    BY <1>2 DEF provisionVars
  <2>2. Records' /\ Grows
    BY <1>1, <2>1, NothingChanged
  <2>3. NoDuplicates' /\ \A what, d : Matching(what, d)' = Matching(what, d)
    BY <1>1, <2>1, NamesKept
  <2>4. Walk'
    BY <1>1, <2>1, <2>2, <2>3, WalkStays
  <2>5. Commits'
    BY <1>1, <2>1, <2>2, CommitsStay
  <2>. QED BY <2>2, <2>3, <2>4, <2>5 DEF ScriptInv
<1>3. CASE Ingest
  <2>1. TaskRuns /\ landed' = landed /\ late' = late
    BY <1>3 DEF Ingest
  <2>2. /\ Records' /\ Grows /\ DOMAIN recs' = DOMAIN recs
        /\ \A i \in DOMAIN recs :
              recs'[i].what = recs[i].what /\ recs'[i].dis = recs[i].dis
    BY <1>1, <2>1, ValueCommitted
  <2>3. NoDuplicates' /\ \A what, d : Matching(what, d)' = Matching(what, d)
    BY <1>1, <2>1, <2>2, NamesKept
  <2>4. Walk'
    BY <1>1, <2>1, <2>2, <2>3, WalkStays
  <2>5. Commits'
    BY <1>1, <2>1, <2>2, CommitsStay
  <2>. QED BY <2>2, <2>3, <2>4, <2>5 DEF ScriptInv
<1>4. CASE CommitLands
  <2>1. PICK rec \in late : Add(rec) /\ late' = late \ {rec}
    BY <1>4 DEF CommitLands
  <2>2. landed' = landed + 1 /\ landed \in Nat /\ landed' # 0
    BY <1>1, <1>4, PlanAssumption DEF CommitLands, Commits
  <2>3. rec \in Rec /\ WellMade(rec)
    BY <1>1, <2>1 DEF Commits
  <2>4. Records' /\ Grows
    BY <1>1, <2>1, <2>3, RecordAdded
  <2>5. NoDuplicates'
    BY <2>2 DEF NoDuplicates
  <2>6. Walk'
    BY <1>1, <2>2, <2>4, WalkStays
  <2>7. Commits'
    <3>1. IsFiniteSet(late') /\ Cardinality(late') = Cardinality(late) - 1
      BY <1>1, <2>1, FS_RemoveElement DEF Commits
    <3>2. Cardinality(late) \in Nat /\ Cardinality(late') \in Nat
      BY <1>1, <3>1, FS_CardinalityType DEF Commits
    <3>3. landed' \in 0..MaxLate /\ Cardinality(late') + landed' <= MaxLate
      BY <1>1, <2>2, <3>1, <3>2, PlanAssumption DEF Commits
    <3>4. \A q \in late : WellMade(q)'
      BY <1>1, <2>4, StillWellMade DEF Commits, Records
    <3>. QED BY <1>1, <2>1, <3>1, <3>3, <3>4 DEF Commits
  <2>. QED BY <2>4, <2>5, <2>6, <2>7 DEF ScriptInv
<1>5. CASE ByHand
  <2>1. /\ landed' = landed /\ late' = late
        /\ \E what \in {"conn", "point"}, d \in Dis :
              /\ Matching(what, d) = {} /\ Add(NewRec(what, d, 0))
              /\ what = "point" => (d # Fixture /\ \A k \in DOMAIN Own : d # Own[k])
    <3>1. landed' = landed /\ late' = late
      BY <1>5 DEF ByHand
    <3>2. ASSUME NEW i \in DOMAIN (Fed \o Unfed)
          PROVE  /\ (Fed \o Unfed)[i] \in Dis
                 /\ (Fed \o Unfed)[i] # Fixture
                 /\ \A k \in DOMAIN Own : (Fed \o Unfed)[i] # Own[k]
      BY <3>2, HandAssumption, PlanNames, InConcat
    <3>3. CASE Matching("conn", Conn) = {} /\ Add(NewRec("conn", Conn, 0))
      BY <3>1, <3>3, PlanNames
    <3>4. ASSUME NEW i \in DOMAIN (Fed \o Unfed),
                 Matching("point", (Fed \o Unfed)[i]) = {},
                 Add(NewRec("point", (Fed \o Unfed)[i], 0))
          PROVE  \E what \in {"conn", "point"}, d \in Dis :
                    /\ Matching(what, d) = {} /\ Add(NewRec(what, d, 0))
                    /\ what = "point" => (d # Fixture /\ \A k \in DOMAIN Own : d # Own[k])
      <4>1. PICK d \in Dis : d = (Fed \o Unfed)[i]
        BY <3>2, <3>4
      <4>. QED BY <3>2, <3>4, <4>1
    <3>. QED BY <1>5, <3>1, <3>3, <3>4 DEF ByHand
  <2>2. PICK what \in {"conn", "point"}, d \in Dis :
              /\ Matching(what, d) = {} /\ Add(NewRec(what, d, 0))
              /\ what = "point" => (d # Fixture /\ \A k \in DOMAIN Own : d # Own[k])
    BY <2>1
  <2>3. PICK rec : rec = NewRec(what, d, 0)
    OBVIOUS
  <2>4. rec \in Rec /\ rec.what = what /\ rec.dis = d /\ WellMade(rec)
    <3>1. Len(recs) \in Nat
      BY <1>1, RecordAt DEF Records
    <3>. QED BY <2>3, <3>1 DEF NewRec, Rec, WellMade
  <2>5. Records' /\ Grows
    BY <1>1, <2>2, <2>3, <2>4, RecordAdded
  <2>6. /\ NoDuplicates'
        /\ \A w, e : (what # w \/ d # e) => Matching(w, e)' = Matching(w, e)
    BY <1>1, <2>1, <2>2, <2>3, <2>4, NewName
  <2>7. (step # 0 /\ Current.op = "ensure") =>
            (what # Current.name.what \/ d # Current.name.dis)
    <3>1. step # 0 => step \in DOMAIN Plan
      BY <1>1, PlanCalls DEF Walk
    <3>. QED BY <2>2, <3>1, PlanCalls DEF Current
  <2>8. landed' = 0 => landed = 0
    BY <2>1
  <2>9. Walk'
    BY <1>1, <2>5, <2>6, <2>7, <2>8, WalkStays
  <2>10. Commits'
    BY <1>1, <2>1, <2>5, CommitsStay
  <2>. QED BY <2>5, <2>6, <2>9, <2>10 DEF ScriptInv
<1>. QED BY <1>2, <1>3, <1>4, <1>5

LEMMA OnlyReads ==
    ASSUME ScriptInv, UNCHANGED <<recs, late, landed>>,
           libs' \in 0..NumLibs, runs' \in 0..MaxRuns
    PROVE  /\ Records' /\ Grows /\ NoDuplicates' /\ Commits'
           /\ \A what, d : Matching(what, d)' = Matching(what, d)
<1>1. Records /\ Commits /\ NoDuplicates
  BY DEF ScriptInv
<1>2. Records' /\ Grows
  BY <1>1, NothingChanged
<1>3. NoDuplicates' /\ \A what, d : Matching(what, d)' = Matching(what, d)
  BY <1>1, NamesKept
<1>4. Commits'
  BY <1>1, <1>2, CommitsStay
<1>. QED BY <1>2, <1>3, <1>4

LEMMA RunInv ==
    ASSUME ScriptInv, Run
    PROVE  ScriptInv' /\ Grows
<1>1. /\ step' = 1 /\ UNCHANGED <<recs, libs, at, refs, missing, late, done, landed>>
      /\ at = "find" /\ runs' \in 0..MaxRuns /\ libs' \in 0..NumLibs
  <2>1. at = "find"
    BY DEF Run, ScriptInv, Walk, Placed
  <2>2. runs \in 0..MaxRuns /\ runs < MaxRuns /\ runs' = runs + 1 /\ MaxRuns \in Nat
    BY PlanAssumption DEF Run, ScriptInv, Commits
  <2>. QED BY <2>1, <2>2 DEF Run, ScriptInv, Commits
<1>2. /\ Records' /\ Grows /\ NoDuplicates' /\ Commits'
      /\ \A what, d : Matching(what, d)' = Matching(what, d)
  BY <1>1, OnlyReads
<1>3. 1 \in 0..Len(Plan)
  BY PlanCalls, PlanOrdered
<1>4. RefsFound'
  BY <1>1, <1>2 DEF ScriptInv, Walk, RefsFound
<1>5. Placed' /\ Earlier'
  BY <1>1 DEF Placed, Earlier
<1>6. Complete'
  <2>1. LibsStay
    BY <1>1 DEF LibsStay
  <2>2. done => \A n \in DOMAIN Plan : Provided(Plan[n])'
    BY <1>2, <2>1, StillProvided DEF ScriptInv, Walk, Complete
  <2>. QED BY <1>1, <2>2 DEF Complete
<1>7. Walk'
  BY <1>1, <1>3, <1>4, <1>5, <1>6 DEF ScriptInv, Walk
<1>. QED BY <1>2, <1>7 DEF ScriptInv

(* What the step at hand is called with. *)
LEMMA AtHand ==
    ASSUME ScriptInv, step # 0
    PROVE  /\ step \in DOMAIN Plan /\ Current \in Call
           /\ Current.name \in Key /\ Current.of \in Key
           /\ \A k \in Key : refs[k] \in 0..Len(recs)
           /\ \A k \in Key : refs[k] # 0 => refs[k] \in Matching(k.what, k.dis)
           /\ Current.op = "tag" =>
                 /\ Current.name.what = "point" /\ Current.of.what = "equip"
                 /\ refs[Current.of] # 0
<1>1. step \in DOMAIN Plan
  BY PlanCalls DEF ScriptInv, Walk
<1>2. /\ \A k \in Key : refs[k] \in 0..Len(recs)
      /\ \A k \in Key : refs[k] # 0 => refs[k] \in Matching(k.what, k.dis)
  BY DEF ScriptInv, Walk, RefsFound
<1>3. \A j \in 1..(step - 1) : Plan[j].op = "ensure" => refs[Plan[j].name] # 0
  BY DEF ScriptInv, Walk, Earlier
<1>. QED BY <1>1, <1>2, <1>3, PlanCalls DEF Current

LEMMA LibsInv ==
    ASSUME ScriptInv, LibAdd \/ LibsLoaded
    PROVE  ScriptInv' /\ Grows
<1>1. /\ UNCHANGED <<recs, late, landed, runs>> /\ step # 0 /\ Current.op = "libs"
      /\ libs' \in 0..NumLibs /\ runs' \in 0..MaxRuns /\ LibsStay
  <2>1. libs \in 0..NumLibs /\ runs \in 0..MaxRuns /\ NumLibs \in Nat
    BY PlanAssumption DEF ScriptInv, Commits
  <2>. QED BY <2>1 DEF LibAdd, LibsLoaded, Running, LibsStay
<1>2. /\ Records' /\ Grows /\ NoDuplicates' /\ Commits'
      /\ \A what, d : Matching(what, d)' = Matching(what, d)
  BY <1>1, OnlyReads
<1>3. Records /\ Walk
  BY DEF ScriptInv
<1>4. CASE LibAdd
  <2>1. CASE UNCHANGED <<script, done>>
    BY <1>1, <1>2, <1>3, <2>1, WalkStays DEF ScriptInv
  <2>2. CASE Raise
    BY <1>1, <1>2, <1>3, <2>2, WalkRaises DEF ScriptInv
  <2>. QED BY <1>4, <2>1, <2>2 DEF LibAdd
<1>5. CASE LibsLoaded
  <2>1. Return(refs) /\ libs' = NumLibs
    BY <1>5 DEF LibsLoaded
  <2>2. PICK r : r = refs
    OBVIOUS
  <2>3. PICK call : call = Current
    OBVIOUS
  <2>4. Provided(call)' /\ call.op # "ensure"
    BY <1>1, <2>1, <2>3 DEF Provided
  <2>5. /\ r \in [Key -> 0..Len(recs)] /\ Return(r)
        /\ \A k \in Key : /\ r[k] # 0 => r[k] \in Matching(k.what, k.dis)
                          /\ refs[k] # 0 => r[k] # 0
    BY <1>3, <2>1, <2>2 DEF Walk, RefsFound
  <2>6. Walk'
    BY <1>1, <1>2, <1>3, <2>3, <2>4, <2>5, WalkReturns
  <2>. QED BY <1>2, <2>6 DEF ScriptInv
<1>. QED BY <1>4, <1>5

LEMMA FindRefInv ==
    ASSUME ScriptInv, FindRef
    PROVE  ScriptInv' /\ Grows
<1>1. PICK i \in Here : Return([refs EXCEPT ![Current.name] = i])
  BY DEF FindRef
<1>2. /\ UNCHANGED <<recs, libs, late, runs, landed>> /\ step # 0
      /\ libs' \in 0..NumLibs /\ runs' \in 0..MaxRuns /\ LibsStay
      /\ Current.op \in {"require", "find", "ensure"}
  BY DEF FindRef, ScriptInv, Commits, LibsStay
<1>3. /\ Records' /\ Grows /\ NoDuplicates' /\ Commits'
      /\ \A what, d : Matching(what, d)' = Matching(what, d)
  BY <1>2, OnlyReads
<1>4. Records /\ Walk
  BY DEF ScriptInv
<1>5. PICK call : call = Current
  OBVIOUS
<1>6. PICK r : r = [refs EXCEPT ![call.name] = i]
  OBVIOUS
<1>7. call.name \in Key /\ i \in Matching(call.name.what, call.name.dis)
  BY <1>2, <1>5, AtHand DEF Here
<1>8. i \in DOMAIN recs /\ i \in 0..Len(recs) /\ i # 0
  BY <1>4, <1>7, RecordAt DEF Matching, Records
<1>9. /\ r \in [Key -> 0..Len(recs)] /\ Return(r) /\ r[call.name] # 0
      /\ \A k \in Key : /\ r[k] # 0 => r[k] \in Matching(k.what, k.dis)
                        /\ refs[k] # 0 => r[k] # 0
  BY <1>1, <1>4, <1>5, <1>6, <1>7, <1>8 DEF Walk, RefsFound
<1>10. Provided(call)'
  BY <1>2, <1>3, <1>5, <1>7 DEF Provided
<1>11. Walk'
  BY <1>2, <1>3, <1>4, <1>5, <1>9, <1>10, WalkReturns
<1>. QED BY <1>3, <1>11 DEF ScriptInv

LEMMA FindNoneInv ==
    ASSUME ScriptInv, FindNone \/ EvalRaises
    PROVE  ScriptInv' /\ Grows
<1>1. /\ UNCHANGED <<recs, libs, late, runs, landed>> /\ step # 0
      /\ libs' \in 0..NumLibs /\ runs' \in 0..MaxRuns /\ LibsStay
  BY DEF FindNone, EvalRaises, ScriptInv, Commits, LibsStay
<1>2. /\ Records' /\ Grows /\ NoDuplicates' /\ Commits'
      /\ \A what, d : Matching(what, d)' = Matching(what, d)
  BY <1>1, OnlyReads
<1>3. Records /\ Walk
  BY DEF ScriptInv
<1>4. CASE Raise
  BY <1>1, <1>2, <1>3, <1>4, WalkRaises DEF ScriptInv
<1>5. CASE Current.op = "find" /\ Return(refs)
  <2>1. PICK r : r = refs
    OBVIOUS
  <2>2. PICK call : call = Current
    OBVIOUS
  <2>3. Provided(call)' /\ call.op # "ensure"
    BY <1>5, <2>2 DEF Provided
  <2>4. /\ r \in [Key -> 0..Len(recs)] /\ Return(r)
        /\ \A k \in Key : /\ r[k] # 0 => r[k] \in Matching(k.what, k.dis)
                          /\ refs[k] # 0 => r[k] # 0
    BY <1>3, <1>5, <2>1 DEF Walk, RefsFound
  <2>5. Walk'
    BY <1>1, <1>2, <1>3, <2>2, <2>3, <2>4, WalkReturns
  <2>. QED BY <1>2, <2>5 DEF ScriptInv
<1>6. CASE /\ Current.op = "ensure" /\ at' = "commit" /\ Here = {}
           /\ UNCHANGED <<step, refs, missing, done>>
  <2>1. Current' = Current
    BY <1>6 DEF Current
  <2>2. Here' = {}
    BY <1>2, <1>6, <2>1 DEF Here
  <2>3. Placed'
    BY <1>1, <1>6, <2>1, <2>2 DEF Placed
  <2>4. Walk'
    BY <1>1, <1>2, <1>3, <1>6, <2>3, WalkKeeps DEF Walk
  <2>. QED BY <1>2, <2>4 DEF ScriptInv
<1>. QED BY <1>4, <1>5, <1>6 DEF FindNone, EvalRaises

(* Between the look and the commit nobody else has made it, except a       *)
(* commit that was given up and comes late.                                *)
LEMMA CommitInv ==
    ASSUME ScriptInv, Commit \/ CommitRaises
    PROVE  ScriptInv' /\ Grows
<1>1. /\ UNCHANGED <<libs, runs, landed>> /\ step # 0
      /\ libs' \in 0..NumLibs /\ runs' \in 0..MaxRuns /\ LibsStay
      /\ Current.op = "ensure" /\ at = "commit"
  BY DEF Commit, CommitRaises, Running, ScriptInv, Commits, LibsStay
<1>2. Records /\ Walk /\ Commits /\ NoDuplicates
  BY DEF ScriptInv
<1>3. PICK rec : rec = Made
  OBVIOUS
<1>4. /\ rec \in Rec /\ WellMade(rec)
      /\ landed = 0 => Matching(rec.what, rec.dis) = {}
  BY <1>1, <1>2, <1>3, MadeWell DEF Walk, Placed, Here
<1>5. ASSUME Add(rec), late' = late
      PROVE  Records' /\ Grows /\ NoDuplicates' /\ Commits'
  <2>1. Records' /\ Grows
    BY <1>2, <1>4, <1>5, RecordAdded
  <2>2. NoDuplicates'
    BY <1>1, <1>2, <1>4, <1>5, NewName
  <2>3. Commits'
    BY <1>1, <1>2, <1>5, <2>1, CommitsStay
  <2>. QED BY <2>1, <2>2, <2>3
<1>6. CASE Commit
  <2>1. /\ Add(rec) /\ late' = late
        /\ at' = "reread" /\ UNCHANGED <<step, refs, missing, done>>
    BY <1>3, <1>6 DEF Commit
  <2>2. Current' = Current
    BY <2>1 DEF Current
  <2>3. Placed'
    BY <1>1, <2>1, <2>2 DEF Placed
  <2>4. Walk'
    BY <1>1, <1>2, <1>5, <2>1, <2>3, WalkKeeps DEF Walk
  <2>. QED BY <1>5, <2>1, <2>4 DEF ScriptInv
<1>7. CASE CommitRaises
  <2>1. Raise
    BY <1>7 DEF CommitRaises
  <2>2. CASE Add(rec) /\ late' = late
    <3>1. Walk'
      BY <1>1, <1>2, <1>5, <2>1, <2>2, WalkRaises
    <3>. QED BY <1>5, <2>2, <3>1 DEF ScriptInv
  <2>3. CASE /\ Cardinality(late) + landed < MaxLate
             /\ late' = late \cup {rec} /\ recs' = recs
    <3>1. Records' /\ Grows
      BY <1>2, <2>3, NothingChanged
    <3>2. NoDuplicates'
      BY <1>1, <1>2, <2>3, NamesKept
    <3>3. Walk'
      BY <1>1, <1>2, <2>1, <3>1, WalkRaises
    <3>4. Commits'
      <4>1. /\ IsFiniteSet(late') /\ Cardinality(late) \in Nat
            /\ \/ Cardinality(late') = Cardinality(late) + 1
               \/ Cardinality(late') = Cardinality(late)
        BY <1>2, <2>3, FS_AddElement, FS_CardinalityType DEF Commits
      <4>2. Cardinality(late') + landed' <= MaxLate
        BY <1>1, <1>2, <2>3, <4>1, PlanAssumption DEF Commits
      <4>3. \A q \in late \cup {rec} : WellMade(q)'
        BY <1>2, <1>4, <3>1, StillWellMade DEF Commits, Records
      <4>. QED BY <1>1, <1>2, <1>4, <2>3, <4>1, <4>2, <4>3 DEF Commits
    <3>. QED BY <3>1, <3>2, <3>3, <3>4 DEF ScriptInv
  <2>. QED BY <1>3, <1>7, <2>2, <2>3 DEF CommitRaises
<1>. QED BY <1>6, <1>7

LEMMA ReadPointInv ==
    ASSUME ScriptInv, ReadPoint
    PROVE  ScriptInv' /\ Grows
<1>1. /\ UNCHANGED <<recs, libs, late, runs, landed>> /\ step # 0
      /\ libs' \in 0..NumLibs /\ runs' \in 0..MaxRuns /\ LibsStay
      /\ Current.op = "tag" /\ Target # 0
  BY DEF ReadPoint, Running, ScriptInv, Commits, LibsStay
<1>2. /\ Records' /\ Grows /\ NoDuplicates' /\ Commits'
      /\ \A what, d : Matching(what, d)' = Matching(what, d)
  BY <1>1, OnlyReads
<1>3. Records /\ Walk
  BY DEF ScriptInv
<1>4. Target \in Matching("point", Current.name.dis) /\ Target \in DOMAIN recs
  BY <1>1, AtHand DEF Target, Matching
<1>5. CASE recs[Target].ref # 0 /\ Return(refs)
  <2>1. PICK r : r = refs
    OBVIOUS
  <2>2. PICK call : call = Current
    OBVIOUS
  <2>3. PICK n : n = Target
    OBVIOUS
  <2>4. n \in Matching("point", call.name.dis) /\ recs'[n].ref # 0
    BY <1>1, <1>4, <1>5, <2>2, <2>3
  <2>5. Provided(call)' /\ call.op # "ensure"
    BY <1>1, <1>2, <2>2, <2>4 DEF Provided
  <2>6. /\ r \in [Key -> 0..Len(recs)] /\ Return(r)
        /\ \A k \in Key : /\ r[k] # 0 => r[k] \in Matching(k.what, k.dis)
                          /\ refs[k] # 0 => r[k] # 0
    BY <1>3, <1>5, <2>1 DEF Walk, RefsFound
  <2>7. Walk'
    BY <1>1, <1>2, <1>3, <2>2, <2>5, <2>6, WalkReturns
  <2>. QED BY <1>2, <2>7 DEF ScriptInv
<1>6. CASE /\ missing' = [marked |-> ~recs[Target].marked, ref |-> recs[Target].ref = 0]
           /\ at' = "commit" /\ UNCHANGED <<step, refs, done>>
  <2>1. Current' = Current /\ Target' = Target
    BY <1>6 DEF Current, Target
  <2>2. missing' \in [marked : BOOLEAN, ref : BOOLEAN]
    <3>1. (~recs[Target].marked) \in BOOLEAN /\ (recs[Target].ref = 0) \in BOOLEAN
      OBVIOUS
    <3>. QED BY <1>6, <3>1
  <2>3. /\ missing'.marked \/ recs[Target].marked
        /\ missing'.ref \/ recs[Target].ref # 0
    <3>1. missing'.marked = ~recs[Target].marked /\ missing'.ref = (recs[Target].ref = 0)
      BY <1>6
    <3>. QED BY <3>1
  <2>4. Placed'
    BY <1>1, <1>6, <2>1, <2>3 DEF Placed
  <2>5. Walk'
    BY <1>1, <1>2, <1>3, <1>6, <2>2, <2>4, WalkKeeps
  <2>. QED BY <1>2, <2>5 DEF ScriptInv
<1>. QED BY <1>5, <1>6 DEF ReadPoint

LEMMA TagInv ==
    ASSUME ScriptInv, TagPoint \/ TagRaises
    PROVE  ScriptInv' /\ Grows
<1>1. /\ UNCHANGED <<libs, late, runs, landed>> /\ step # 0
      /\ libs' \in 0..NumLibs /\ runs' \in 0..MaxRuns /\ LibsStay
      /\ Current.op = "tag" /\ at = "commit" /\ Tag
  BY DEF TagPoint, TagRaises, Running, ScriptInv, Commits, LibsStay
<1>2. Records /\ Walk /\ Commits /\ NoDuplicates
  BY DEF ScriptInv
<1>3. PICK n : n = Target
  OBVIOUS
<1>4. PICK q : q = refs[Current.of]
  OBVIOUS
<1>5. /\ n # 0
      /\ missing.marked \/ recs[n].marked
      /\ missing.ref \/ recs[n].ref # 0
      /\ missing \in [marked : BOOLEAN, ref : BOOLEAN]
  BY <1>1, <1>2, <1>3 DEF Walk, Placed
<1>6. /\ n \in Matching("point", Current.name.dis) /\ n \in DOMAIN recs
      /\ recs[n].what = "point"
  BY <1>1, <1>3, <1>5, AtHand DEF Target, Matching
<1>7. q \in DOMAIN recs /\ recs[q].what = "equip"
  BY <1>1, <1>4, AtHand DEF Matching
<1>8. recs' = [recs EXCEPT ![n].marked = @ \/ missing.marked,
                           ![n].ref = IF missing.ref THEN q ELSE @]
  BY <1>1, <1>3, <1>4 DEF Tag
<1>9. /\ Records' /\ Grows /\ DOMAIN recs' = DOMAIN recs
      /\ \A i \in DOMAIN recs :
            recs'[i].what = recs[i].what /\ recs'[i].dis = recs[i].dis
      /\ recs'[n].ref # 0
  BY <1>2, <1>5, <1>6, <1>7, <1>8, PointTagged
<1>10. NoDuplicates' /\ \A what, d : Matching(what, d)' = Matching(what, d)
  BY <1>1, <1>2, <1>9, NamesKept
<1>11. Commits'
  BY <1>1, <1>2, <1>9, CommitsStay
<1>12. CASE Raise
  BY <1>1, <1>2, <1>9, <1>10, <1>11, <1>12, WalkRaises DEF ScriptInv
<1>13. CASE Return(refs)
  <2>1. PICK r : r = refs
    OBVIOUS
  <2>2. PICK call : call = Current
    OBVIOUS
  <2>3. Provided(call)' /\ call.op # "ensure"
    BY <1>1, <1>6, <1>9, <1>10, <2>2 DEF Provided
  <2>4. /\ r \in [Key -> 0..Len(recs)] /\ Return(r)
        /\ \A k \in Key : /\ r[k] # 0 => r[k] \in Matching(k.what, k.dis)
                          /\ refs[k] # 0 => r[k] # 0
    BY <1>2, <1>13, <2>1 DEF Walk, RefsFound
  <2>5. Walk'
    BY <1>1, <1>2, <1>9, <2>2, <2>3, <2>4, WalkReturns
  <2>. QED BY <1>9, <1>10, <1>11, <2>5 DEF ScriptInv
<1>. QED BY <1>12, <1>13 DEF TagPoint, TagRaises

LEMMA ScriptStep ==
    ASSUME ScriptInv, [ReadbackNext]_readbackVars
    PROVE  ScriptInv' /\ Grows
<1>1. CASE UNCHANGED provisionVars \/ Ingest \/ CommitLands \/ ByHand
  BY <1>1, OthersWrite
<1>2. CASE Provision
  BY <1>2, RunInv, FindNoneInv, LibsInv, FindRefInv, CommitInv, ReadPointInv, TagInv
     DEF Provision
<1>. QED BY <1>1, <1>2 DEF ReadbackNext, readbackVars, ProvisionNext

LEMMA ScriptInit == ReadbackInit => ScriptInv
<1>. SUFFICES ASSUME ReadbackInit PROVE ScriptInv
  OBVIOUS
<1>1. /\ recs \in {<<>>, <<[NewRec("point", NoDis, 0) EXCEPT !.writable = TRUE]>>}
      /\ ProvisionInit
  BY DEF ReadbackInit
<1>2. PICK w \in BOOLEAN : w = TRUE
  OBVIOUS
<1>3. PICK rec : rec = [NewRec("point", NoDis, 0) EXCEPT !.writable = w]
  OBVIOUS
<1>4. rec = [what |-> "point", dis |-> NoDis, writable |-> w, marked |-> FALSE,
             ref |-> 0, curVal |-> 0]
  BY <1>3 DEF NewRec
<1>5. [NewRec("point", NoDis, 0) EXCEPT !.writable = TRUE] = rec
  BY <1>3, <1>2, Zenon
<1>6. rec \in Rec
  BY <1>4 DEF Rec
<1>7. Records
  <2>1. CASE recs = <<>>
    <3>1. <<>> \in Seq(Rec) /\ DOMAIN <<>> = {}
      OBVIOUS
    <3>. QED BY <2>1, <3>1 DEF Records, FolioOK
  <2>2. CASE recs = <<rec>>
    <3>1. recs \in Seq(Rec) /\ DOMAIN recs = {1} /\ recs[1] = rec /\ Len(recs) = 1
      BY <1>6, <2>2
    <3>2. \A i \in DOMAIN recs : recs[i].ref \in 0..Len(recs)
      BY <1>4, <3>1
    <3>3. \A i \in DOMAIN recs : WellMade(recs[i])
      BY <1>4, <3>1 DEF WellMade
    <3>. QED BY <3>1, <3>2, <3>3 DEF Records, FolioOK
  <2>. QED BY <1>1, <1>5, <2>1, <2>2
<1>8. Walk
  <2>1. /\ step = 0 /\ at = "find" /\ refs = NoRefs /\ missing = NothingMissing
        /\ done = FALSE
    BY <1>1 DEF ProvisionInit
  <2>2. /\ \A k \in Key : NoRefs[k] = 0
        /\ Len(recs) \in Nat /\ Len(Plan) \in Nat
        /\ NoRefs \in [Key -> 0..Len(recs)]
        /\ NothingMissing \in [marked : BOOLEAN, ref : BOOLEAN]
    BY <1>7, PlanCalls, RecordAt DEF NoRefs, NothingMissing, Records
  <2>3. RefsFound /\ Placed /\ Earlier /\ Complete
    BY <2>1, <2>2 DEF RefsFound, Placed, Earlier, Complete
  <2>4. done \in BOOLEAN
    BY <2>1, Zenon
  <2>. QED BY <2>1, <2>2, <2>3, <2>4 DEF Walk
<1>9. Commits
  BY <1>1, PlanAssumption, FS_EmptySet DEF ProvisionInit, Commits
<1>10. NoDuplicates
  <2>1. \A i, j \in DOMAIN recs : i = j
    <3>1. DOMAIN <<>> = {} /\ DOMAIN <<rec>> = {1}
      OBVIOUS
    <3>. QED BY <1>1, <1>5, <3>1
  <2>. QED BY <2>1 DEF NoDuplicates
<1>. QED BY <1>7, <1>8, <1>9, <1>10 DEF ScriptInv

LEMMA ScriptAlways == ReadbackSpec => []ScriptInv
  BY ScriptInit, ScriptStep, PTL DEF ReadbackSpec

(* NoDuplicates of HaxallReadback ("Safe to rerun - every step             *)
(* checks-before-commit", provision_haxall.py:6), for any plan, any number *)
(* of runs and whatever fails.                                             *)
THEOREM ScriptMakesNothingTwice == ReadbackSpec => []NoDuplicates
<1>1. ScriptInv => NoDuplicates
  BY DEF ScriptInv
<1>. QED BY <1>1, ScriptAlways, PTL

(* DoneMeansProvisioned of HaxallReadback ("done."): what a run that has   *)
(* come to its end leaves behind is there and whole, and stays so.         *)
THEOREM ScriptDoneIsProvisioned == ReadbackSpec => []DoneMeansProvisioned
<1>1. ScriptInv => DoneMeansProvisioned
  <2>. SUFFICES ASSUME ScriptInv, done
                PROVE  /\ libs = NumLibs
                       /\ \A what \in {"point", "task", "site", "equip"} :
                             \A d \in Planned(what) : Matching(what, d) # {}
                       /\ \A k \in DOMAIN Tagging :
                             \E i \in Matching("point", Tagging[k].name.dis) : Tagged(recs[i])
                       /\ \A i \in DOMAIN recs :
                             recs[i].what = "task" =>
                                 \/ recs[i].ref \in Matching("point", recs[i].dis)
                                 \/ recs[i].ref = 0 /\ \E k \in DOMAIN Fed : Fed[k] = recs[i].dis
    BY DEF DoneMeansProvisioned
  <2>1. \A n \in DOMAIN Plan : Provided(Plan[n])
    BY DEF ScriptInv, Walk, Complete
  <2>2. libs = NumLibs
    BY <2>1, PlanOrdered DEF Provided
  <2>3. ASSUME NEW what, NEW d \in Planned(what) PROVE Matching(what, d) # {}
    <3>1. PICK n \in DOMAIN Plan : /\ Plan[n].op = "ensure" /\ Plan[n].name.what = what
                                   /\ Plan[n].name.dis = d
      BY <2>3 DEF Planned
    <3>. QED BY <2>1, <3>1 DEF Provided
  <2>4. ASSUME NEW k \in DOMAIN Tagging
        PROVE  \E i \in Matching("point", Tagging[k].name.dis) : Tagged(recs[i])
    <3>1. PICK n \in DOMAIN Plan : Plan[n] = Tagging[k]
      BY PlanOrdered DEF Through
    <3>2. Plan[n].op = "tag"
      BY <3>1 DEF Tagging
    <3>3. PICK i \in Matching("point", Tagging[k].name.dis) : recs[i].ref # 0
      BY <2>1, <3>1, <3>2 DEF Provided
    <3>4. i \in DOMAIN recs /\ recs[i].what = "point" /\ WellMade(recs[i])
      BY <3>3 DEF Matching, ScriptInv, Records
    <3>. QED BY <3>3, <3>4 DEF WellMade, Tagged
  <2>5. \A i \in DOMAIN recs : WellMade(recs[i])
    BY DEF ScriptInv, Records
  <2>. QED BY <2>2, <2>3, <2>4, <2>5 DEF WellMade
<1>. QED BY <1>1, ScriptAlways, PTL

-----------------------------------------------------------------------------
(* The bridge: what it has read is as the script makes it, and the equips  *)
(* are read after the points whose tags refer to them.                     *)

Cycle ==
    /\ phase = "down" => ~tagsSent /\ cycle = <<>>
    /\ phase \in {"points", "rows"} => cycle = IF tagsSent THEN <<>> ELSE <<"equips">>
    /\ phase \in {"equips", "equipRows"} => ~tagsSent /\ cycle = <<>>

RowsRead ==
    \A id \in DOMAIN unpublished :
        WellMade(unpublished[id]) /\ (phase = "rows" => Bridged(unpublished[id]))

TagsResolve ==
    \A d \in Dis :
        (tags[d] # NoTags /\ tags[d].ref # 0) =>
            /\ tags[d].ref \in DOMAIN recs /\ recs[tags[d].ref].what = "equip"
            /\ phase = "equipRows" =>
                  tags[d].ref \in DOMAIN unpublished \cup equipTags \cup errors

PollerInv ==
    BridgeOK /\ Cycle /\ RowsRead /\ TagsResolve /\ BridgedTagsWhole /\ EquipRefResolves

LEMMA PollerInit == ReadbackInit => PollerInv
<1>. SUFFICES ASSUME ReadbackInit PROVE PollerInv
  OBVIOUS
<1>1. BridgeInit
  BY DEF ReadbackInit
<1>2. \E ids \in SUBSET DOMAIN recs : unpublished \in [ids -> Rec]
  <2>1. unpublished \in [{} -> Rec]
    BY <1>1 DEF BridgeInit, Rows
  <2>. QED BY <2>1
<1>3. BridgeOK
  <2>1. tagsSent \in BOOLEAN
    BY <1>1, Zenon DEF BridgeInit
  <2>2. bridgeStarts \in 0..MaxBridgeStarts
    BY <1>1, PollerAssumption DEF BridgeInit
  <2>. QED BY <1>1, <1>2, <2>1, <2>2 DEF BridgeInit, BridgeOK
<1>. QED
  BY <1>1, <1>3 DEF BridgeInit, PollerInv, Cycle, RowsRead, TagsResolve,
     BridgedTagsWhole, EquipRefResolves, Rows

(* While the others go on, what the bridge has read and published remains  *)
(* true of the records.                                                    *)
LEMMA PollerKeeps ==
    ASSUME PollerInv, Records, Records', Grows, UNCHANGED pollerVars
    PROVE  PollerInv'
<1>1. UNCHANGED <<phase, cycle, unpublished, tagsSent, shown, tags, equipTags, errors,
                  bridgeStarts>>
  BY DEF pollerVars, place, topics
<1>2. DOMAIN recs \subseteq DOMAIN recs'
  BY DEF Grows
<1>3. BridgeOK'
  <2>1. \E ids \in SUBSET DOMAIN recs' : unpublished' \in [ids -> Rec]
    BY <1>1, <1>2 DEF PollerInv, BridgeOK
  <2>. QED BY <1>1, <1>2, <2>1 DEF PollerInv, BridgeOK
<1>4. RowsRead'
  <2>. SUFFICES ASSUME NEW id \in DOMAIN unpublished
                PROVE  /\ WellMade(unpublished[id])'
                       /\ phase = "rows" => Bridged(unpublished[id])
    BY <1>1 DEF RowsRead, Bridged
  <2>1. PICK rec : rec = unpublished[id]
    OBVIOUS
  <2>2. WellMade(rec)'
    BY <2>1, StillWellMade DEF PollerInv, RowsRead, Records
  <2>3. WellMade(unpublished[id])'
    BY <1>1, <2>1, <2>2 DEF WellMade
  <2>. QED BY <2>3 DEF PollerInv, RowsRead
<1>5. TagsResolve'
  BY <1>1, <1>2 DEF PollerInv, TagsResolve, Grows, Kept
<1>6. Cycle' /\ BridgedTagsWhole' /\ EquipRefResolves'
  BY <1>1 DEF PollerInv, Cycle, BridgedTagsWhole, EquipRefResolves
<1>. QED BY <1>3, <1>4, <1>5, <1>6 DEF PollerInv

LEMMA PollingEndsInv ==
    ASSUME PollerInv, recs' = recs, PollingEnds
    PROVE  PollerInv'
<1>1. /\ phase' = "down" /\ cycle' = <<>> /\ DOMAIN unpublished' = {}
      /\ unpublished' \in [{} -> Rec] /\ errors' = {}
      /\ UNCHANGED <<shown, tags, equipTags, bridgeStarts>>
  BY DEF PollingEnds, topics, Rows
<1>2. tagsSent' = FALSE
  BY DEF PollingEnds
<1>3. BridgeOK'
  <2>1. tagsSent' \in BOOLEAN
    BY <1>2, Zenon
  <2>2. \E ids \in SUBSET DOMAIN recs' : unpublished' \in [ids -> Rec]
    BY <1>1
  <2>. QED BY <1>1, <2>1, <2>2 DEF PollerInv, BridgeOK
<1>4. Cycle' /\ RowsRead'
  BY <1>1, <1>2 DEF Cycle, RowsRead
<1>5. TagsResolve' /\ BridgedTagsWhole' /\ EquipRefResolves'
  BY <1>1, <1>2 DEF PollerInv, TagsResolve, BridgedTagsWhole, EquipRefResolves
<1>. QED BY <1>3, <1>4, <1>5 DEF PollerInv

LEMMA ReadsInv ==
    ASSUME PollerInv, Records, recs' = recs,
           StartPolling \/ ReadPoints \/ ReadEquips
    PROVE  PollerInv'
<1>1. /\ \E ids \in SUBSET DOMAIN recs' : unpublished' \in [ids -> Rec]
      /\ RowsRead'
  <2>1. CASE StartPolling
    <3>1. unpublished' = unpublished /\ phase' # "rows"
      BY <2>1 DEF StartPolling, FirstCycle
    <3>. QED BY <3>1 DEF PollerInv, BridgeOK, RowsRead, WellMade, Matching
  <2>2. ASSUME NEW S \in SUBSET DOMAIN recs, unpublished' = Rows(S),
               phase' = "rows" => \A id \in S : Bridged(recs[id])
        PROVE  (\E ids \in SUBSET DOMAIN recs' : unpublished' \in [ids -> Rec]) /\ RowsRead'
    <3>1. \A id \in S : recs[id] \in Rec /\ WellMade(recs[id])
      BY RecordAt DEF Records
    <3>2. DOMAIN unpublished' = S /\ \A id \in S : unpublished'[id] = recs[id]
      BY <2>2 DEF Rows
    <3>3. unpublished' \in [S -> Rec]
      BY <2>2, <3>1 DEF Rows
    <3>4. RowsRead'
      BY <2>2, <3>1, <3>2 DEF RowsRead, WellMade, Matching, Bridged
    <3>. QED BY <3>3, <3>4
  <2>3. CASE ReadPoints
    BY <2>2, <2>3 DEF ReadPoints
  <2>4. CASE ReadEquips
    BY <2>2, <2>4 DEF ReadEquips
  <2>. QED BY <2>1, <2>3, <2>4
<1>2. UNCHANGED <<tagsSent, shown, tags, equipTags, errors>>
  BY DEF StartPolling, ReadPoints, ReadEquips, topics
<1>3. BridgeOK'
  <2>1. bridgeStarts' \in 0..MaxBridgeStarts
    BY PollerAssumption DEF StartPolling, ReadPoints, ReadEquips, PollerInv, BridgeOK
  <2>2. phase' \in {"points", "rows", "equipRows"}
    BY DEF StartPolling, ReadPoints, ReadEquips, FirstCycle
  <2>. QED BY <1>1, <1>2, <2>1, <2>2 DEF PollerInv, BridgeOK
<1>4. Cycle'
  <2>1. CASE StartPolling
    <3>1. Head(<<"points", "equips">>) = "points" /\ Tail(<<"points", "equips">>) = <<"equips">>
      OBVIOUS
    <3>. QED BY <1>2, <2>1, <3>1 DEF StartPolling, FirstCycle, PollerInv, Cycle
  <2>2. CASE ReadPoints \/ ReadEquips
    BY <1>2, <2>2 DEF ReadPoints, ReadEquips, PollerInv, Cycle
  <2>. QED BY <2>1, <2>2
<1>5. TagsResolve'
  <2>1. CASE StartPolling \/ ReadPoints
    <3>1. phase' # "equipRows"
      BY <2>1 DEF StartPolling, ReadPoints, FirstCycle
    <3>. QED BY <1>2, <3>1 DEF PollerInv, TagsResolve
  <2>2. CASE ReadEquips
    <3>1. \A id \in DOMAIN recs : recs[id].what = "equip" => id \in DOMAIN unpublished'
      BY <2>2 DEF ReadEquips, Rows, EquipOrSite
    <3>. QED BY <1>2, <3>1 DEF PollerInv, TagsResolve
  <2>. QED BY <2>1, <2>2
<1>6. BridgedTagsWhole' /\ EquipRefResolves'
  BY <1>2 DEF PollerInv, BridgedTagsWhole, EquipRefResolves
<1>. QED BY <1>1, <1>3, <1>4, <1>5, <1>6 DEF PollerInv

LEMMA RowDoneKeeps ==
    ASSUME PollerInv, recs' = recs, NEW id \in DOMAIN unpublished, RowDone(id),
           phase' = phase
    PROVE  /\ \E ids \in SUBSET DOMAIN recs' : unpublished' \in [ids -> Rec]
           /\ DOMAIN unpublished' = DOMAIN unpublished \ {id}
           /\ RowsRead'
           /\ id \in DOMAIN recs /\ unpublished[id] \in Rec
<1>1. PICK ids \in SUBSET DOMAIN recs : unpublished \in [ids -> Rec]
  BY DEF PollerInv, BridgeOK
<1>2. /\ DOMAIN unpublished' = DOMAIN unpublished \ {id}
      /\ \A i \in DOMAIN unpublished \ {id} : unpublished'[i] = unpublished[i]
      /\ unpublished' \in [ids \ {id} -> Rec]
  BY <1>1 DEF RowDone
<1>3. RowsRead'
  BY <1>2 DEF PollerInv, RowsRead, WellMade, Matching, Bridged
<1>. QED BY <1>1, <1>2, <1>3

LEMMA PublishInv ==
    ASSUME PollerInv, Records, recs' = recs, NEW id \in DOMAIN unpublished,
           PublishRow(id) \/ PublishRowRaises(id)
    PROVE  PollerInv'
<1>1. /\ phase = "rows" /\ RowDone(id)
      /\ UNCHANGED <<phase, cycle, tagsSent, equipTags, bridgeStarts>>
      /\ errors' \in {errors, errors \cup {id}}
      /\ unpublished[id].dis # NoDis
  BY DEF PublishRow, PublishRowRaises, AtRow, Label
<1>2. /\ \E ids \in SUBSET DOMAIN recs' : unpublished' \in [ids -> Rec]
      /\ RowsRead' /\ id \in DOMAIN recs
  BY <1>1, RowDoneKeeps
<1>3. PICK rec \in Rec : rec = unpublished[id]
  BY <1>1, RowDoneKeeps
<1>4. /\ rec.dis \in Dis /\ WellMade(rec) /\ Bridged(rec)
      /\ rec.marked \in BOOLEAN /\ rec.ref \in Nat /\ rec.curVal \in Value \cup {0}
  BY <1>1, <1>3 DEF PollerInv, RowsRead, Rec
<1>5. PICK sent : sent = [marked |-> rec.marked, ref |-> rec.ref]
  OBVIOUS
<1>6. /\ sent \in [marked : BOOLEAN, ref : Nat]
      /\ sent.marked = rec.marked /\ sent.ref = rec.ref
  BY <1>4, <1>5
<1>7. \/ tags' = tags
      \/ ~tagsSent /\ tags' = [tags EXCEPT ![rec.dis] = sent]
  BY <1>3, <1>5 DEF PublishRow, PublishRowRaises, Label, ExtractTags
<1>8. /\ tags' \in [Dis -> [marked : BOOLEAN, ref : Nat] \cup {NoTags}]
      /\ \A d \in Dis : tags'[d] = tags[d]
            \/ (~tagsSent /\ d = rec.dis /\ tags'[d] = sent)
  BY <1>4, <1>6, <1>7 DEF PollerInv, BridgeOK
<1>9. shown' \in [Dis -> Value \cup {0, Unseen}]
  BY <1>3, <1>4 DEF PublishRow, PublishRowRaises, Label, PollerInv, BridgeOK
<1>10. BridgeOK'
  BY <1>1, <1>2, <1>8, <1>9 DEF PollerInv, BridgeOK
<1>11. Cycle'
  BY <1>1 DEF PollerInv, Cycle
<1>12. TagsResolve'
  <2>1. rec.ref # 0 => rec.ref \in DOMAIN recs /\ recs[rec.ref].what = "equip"
    BY <1>4, RecordAt DEF WellMade, Bridged, Records
  <2>. QED BY <1>1, <1>6, <1>8, <2>1 DEF PollerInv, TagsResolve
<1>13. BridgedTagsWhole'
  <2>1. rec.dis # Fixture => (rec.marked /\ rec.ref # 0)
    BY <1>1, <1>3, <1>4 DEF WellMade, Bridged
  <2>. QED BY <1>6, <1>8, <2>1 DEF PollerInv, BridgedTagsWhole
<1>14. EquipRefResolves'
  BY <1>1, <1>8 DEF PollerInv, EquipRefResolves
<1>. QED BY <1>2, <1>10, <1>11, <1>12, <1>13, <1>14 DEF PollerInv

LEMMA PublishEquipInv ==
    ASSUME PollerInv, recs' = recs, NEW id \in DOMAIN unpublished, PublishEquip(id)
    PROVE  PollerInv'
<1>1. /\ phase = "equipRows" /\ RowDone(id)
      /\ UNCHANGED <<phase, cycle, tagsSent, shown, tags, bridgeStarts>>
      /\ equipTags \subseteq equipTags' /\ errors \subseteq errors'
      /\ equipTags' \cup errors' = equipTags \cup errors \cup {id}
  BY DEF PublishEquip
<1>2. /\ \E ids \in SUBSET DOMAIN recs' : unpublished' \in [ids -> Rec]
      /\ DOMAIN unpublished' = DOMAIN unpublished \ {id}
      /\ RowsRead' /\ id \in DOMAIN recs
  BY <1>1, RowDoneKeeps
<1>3. BridgeOK'
  BY <1>1, <1>2 DEF PollerInv, BridgeOK
<1>4. TagsResolve'
  BY <1>1, <1>2 DEF PollerInv, TagsResolve
<1>5. Cycle' /\ BridgedTagsWhole' /\ EquipRefResolves'
  BY <1>1 DEF PollerInv, Cycle, BridgedTagsWhole, EquipRefResolves
<1>. QED BY <1>2, <1>3, <1>4, <1>5 DEF PollerInv

(* The first cycle is through when all the equips are, and each tag that   *)
(* is out refers to one of them.                                           *)
LEMMA ThroughInv ==
    ASSUME PollerInv, recs' = recs, RowsDone \/ EquipsDone
    PROVE  PollerInv'
<1>1. /\ ReadThrough /\ DOMAIN unpublished = {} /\ DOMAIN unpublished' = {}
      /\ unpublished' \in [{} -> Rec]
      /\ UNCHANGED <<shown, tags, equipTags, errors, bridgeStarts>>
      /\ phase \in {"rows", "equipRows"}
  BY DEF RowsDone, EquipsDone, ReadThrough, Rows, topics
<1>2. Head(<<"equips">>) = "equips" /\ Tail(<<"equips">>) = <<>> /\ <<"equips">> # <<>>
  OBVIOUS
<1>3. \/ phase' = "points" /\ tagsSent' /\ cycle = <<>> /\ cycle' = <<>>
      \/ /\ phase' = "equips" /\ phase = "rows" /\ cycle' = <<>>
         /\ ~tagsSent /\ tagsSent' = tagsSent
  <2>1. CASE cycle = <<>>
    BY <1>1, <2>1 DEF ReadThrough
  <2>2. CASE cycle # <<>>
    <3>1. phase = "rows" /\ ~tagsSent /\ cycle = <<"equips">>
      BY <1>1, <2>2 DEF PollerInv, Cycle
    <3>. QED BY <1>1, <1>2, <2>2, <3>1 DEF ReadThrough
  <2>. QED BY <2>1, <2>2
<1>4. tagsSent' \in BOOLEAN
  <2>1. tagsSent' = TRUE \/ tagsSent' = tagsSent
    BY <1>1 DEF ReadThrough
  <2>2. tagsSent \in BOOLEAN
    BY DEF PollerInv, BridgeOK
  <2>. QED BY <2>1, <2>2, Zenon
<1>5. BridgeOK'
  <2>1. \E ids \in SUBSET DOMAIN recs' : unpublished' \in [ids -> Rec]
    BY <1>1
  <2>2. phase' \in {"points", "equips"}
    BY <1>3
  <2>. QED BY <1>1, <1>4, <2>1, <2>2 DEF PollerInv, BridgeOK
<1>6. Cycle'
  BY <1>3 DEF Cycle
<1>7. RowsRead'
  BY <1>1 DEF RowsRead
<1>8. TagsResolve' /\ BridgedTagsWhole'
  BY <1>1, <1>3 DEF PollerInv, TagsResolve, BridgedTagsWhole
<1>9. EquipRefResolves'
  <2>1. CASE tagsSent' /\ phase = "rows"
    <3>1. tagsSent
      BY <1>2, <1>3, <2>1 DEF PollerInv, Cycle
    <3>. QED BY <1>1, <3>1 DEF PollerInv, EquipRefResolves
  <2>2. CASE phase = "equipRows"
    BY <1>1, <2>2 DEF PollerInv, TagsResolve, EquipRefResolves
  <2>. QED BY <1>1, <2>1, <2>2 DEF EquipRefResolves
<1>. QED BY <1>5, <1>6, <1>7, <1>8, <1>9 DEF PollerInv

LEMMA PollerStep ==
    ASSUME ScriptInv, PollerInv, [ReadbackNext]_readbackVars
    PROVE  PollerInv'
<1>1. Records /\ Records' /\ Grows
  BY ScriptStep DEF ScriptInv
<1>2. CASE UNCHANGED pollerVars
  BY <1>1, <1>2, PollerKeeps
<1>3. CASE PollerNext /\ UNCHANGED provisionVars
  <2>1. recs' = recs
    BY <1>3 DEF provisionVars
  <2>2. CASE StartPolling \/ ReadPoints \/ ReadEquips
    BY <1>1, <2>1, <2>2, ReadsInv
  <2>3. CASE Dies \/ SlugRaises
    BY <2>1, <2>3, PollingEndsInv DEF Dies, SlugRaises
  <2>4. CASE RowsDone \/ EquipsDone
    BY <2>1, <2>4, ThroughInv
  <2>5. CASE \E id \in DOMAIN unpublished :
                PublishRow(id) \/ PublishRowRaises(id) \/ PublishEquip(id)
    BY <1>1, <2>1, <2>5, PublishInv, PublishEquipInv
  <2>. QED BY <1>3, <2>2, <2>3, <2>4, <2>5 DEF PollerNext, ReadMode
<1>. QED BY <1>2, <1>3 DEF ReadbackNext, readbackVars, Ingest

LEMMA PollerAlways == ReadbackSpec => []PollerInv
  BY ScriptAlways, PollerInit, PollerStep, PTL DEF ReadbackSpec

(* Types of records, script and bridge. *)
THEOREM ReadbackTypeCorrect == ReadbackSpec => []ReadbackOK
<1>1. ScriptInv /\ PollerInv => ReadbackOK
  BY DEF ScriptInv, PollerInv, Records, Walk, Commits, ReadbackOK, ProvisionOK
<1>. QED BY <1>1, ScriptAlways, PollerAlways, PTL

(* BridgedTagsWhole of HaxallReadback: the bridge sends a point's tags     *)
(* once, and never an equipRef without the markers.                        *)
THEOREM TagsAreWhole == ReadbackSpec => []BridgedTagsWhole
<1>1. PollerInv => BridgedTagsWhole
  BY DEF PollerInv
<1>. QED BY <1>1, PollerAlways, PTL

(* EquipRefResolves of HaxallReadback: reading the equips after the points *)
(* (haystack_bridge.py:128-129) is what makes every equipRef published     *)
(* refer to an equip that is.                                              *)
THEOREM TagsFindTheirEquip == ReadbackSpec => []EquipRefResolves
<1>1. PollerInv => EquipRefResolves
  BY DEF PollerInv
<1>. QED BY <1>1, PollerAlways, PTL
=============================================================================
