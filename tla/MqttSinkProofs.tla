--------------------------- MODULE MqttSinkProofs ---------------------------
(***************************************************************************)
(* Theorems about MqttSink, for any points, cap and bounds.                *)
(*                                                                         *)
(* IInv is inductive; NoSilentLoss alone is not: FlushRemove empties the   *)
(* file, which loses nothing only because what was replayed is all of the  *)
(* file (FlushCovers), and that holds only because the lock is the network *)
(* thread's all the while (TypeOK).                                        *)
(***************************************************************************)
EXTENDS MqttSink, SequenceTheorems, TLAPS

IInv == TypeOK /\ FlushCovers /\ NoSilentLoss /\ SpoolBounded

-----------------------------------------------------------------------------
(* Elements of a sequence *)

(* Appending to a queue or to the spool adds one element. *)
LEMMA ElementsAppend ==
    ASSUME NEW S, NEW s \in Seq(S), NEW e \in S
    PROVE  Elements(Append(s, e)) = Elements(s) \cup {e}
<1>1. /\ DOMAIN s = 1..Len(s)
      /\ DOMAIN Append(s, e) = 1..(Len(s) + 1)
      /\ Len(s) \in Nat
  OBVIOUS
<1>2. \A i \in 1..Len(s) : Append(s, e)[i] = s[i]
  OBVIOUS
<1>3. Append(s, e)[Len(s) + 1] = e
  OBVIOUS
<1>4. Elements(Append(s, e)) \subseteq Elements(s) \cup {e}
  <2>. SUFFICES ASSUME NEW i \in 1..(Len(s) + 1)
                PROVE  Append(s, e)[i] \in Elements(s) \cup {e}
    BY <1>1 DEF Elements
  <2>1. CASE i \in 1..Len(s)
    BY <2>1, <1>1, <1>2 DEF Elements
  <2>2. CASE i = Len(s) + 1
    BY <2>2, <1>3
  <2>. QED BY <2>1, <2>2, <1>1
<1>5. Elements(s) \subseteq Elements(Append(s, e))
  <2>. SUFFICES ASSUME NEW i \in 1..Len(s)
                PROVE  s[i] \in Elements(Append(s, e))
    BY <1>1 DEF Elements
  <2>1. i \in DOMAIN Append(s, e)
    BY <1>1
  <2>. QED BY <2>1, <1>2 DEF Elements
<1>6. e \in Elements(Append(s, e))
  <2>1. Len(s) + 1 \in DOMAIN Append(s, e)
    BY <1>1
  <2>. QED BY <2>1, <1>3 DEF Elements
<1>. QED BY <1>4, <1>5, <1>6

(* Sending the head of the queue leaves the other elements in it. *)
LEMMA ElementsHeadTail ==
    ASSUME NEW S, NEW s \in Seq(S), s # <<>>
    PROVE  /\ Head(s) \in S
           /\ Tail(s) \in Seq(S)
           /\ Elements(s) = {Head(s)} \cup Elements(Tail(s))
<1>1. /\ Head(s) \in S
      /\ Tail(s) \in Seq(S)
      /\ Len(Tail(s)) = Len(s) - 1
      /\ \A i \in 1..Len(Tail(s)) : Tail(s)[i] = s[i + 1]
  BY HeadTailProperties
<1>2. Len(s) \in Nat \ {0} /\ DOMAIN s = 1..Len(s) /\ Head(s) = s[1]
  BY EmptySeq
<1>3. DOMAIN Tail(s) = 1..(Len(s) - 1)
  BY <1>1, LenProperties
<1>4. Elements(s) \subseteq {Head(s)} \cup Elements(Tail(s))
  <2>. SUFFICES ASSUME NEW i \in 1..Len(s), i # 1
                PROVE  s[i] \in Elements(Tail(s))
    BY <1>2 DEF Elements
  <2>1. i - 1 \in 1..(Len(s) - 1)
    BY <1>2
  <2>2. Tail(s)[i - 1] = s[i]
    BY <2>1, <1>1, <1>2
  <2>. QED BY <2>1, <2>2, <1>3 DEF Elements
<1>5. Elements(Tail(s)) \subseteq Elements(s)
  <2>. SUFFICES ASSUME NEW i \in 1..(Len(s) - 1)
                PROVE  Tail(s)[i] \in Elements(s)
    BY <1>3 DEF Elements
  <2>1. i + 1 \in 1..Len(s)
    BY <1>2
  <2>. QED BY <2>1, <1>1, <1>2 DEF Elements
<1>6. Head(s) \in Elements(s)
  BY <1>2 DEF Elements
<1>. QED BY <1>1, <1>4, <1>5, <1>6

(* An empty file has no records. *)
LEMMA ElementsEmpty == Elements(<<>>) = {}
  BY DEF Elements

-----------------------------------------------------------------------------
(* The operations on the file *)

File == [records : Seq(Reading), tail : {"clean", "partial", "whole"}]

(* What a write leaves is a file again, whatever part of the line got      *)
(* there; all readings in it were there before, or are the one written.    *)
LEMMA WrittenFile ==
    ASSUME spool \in File, NEW r \in Reading,
           NEW how \in {"line", "whole", "partial", "none"}
    PROVE  /\ Written(r, how) \in File
           /\ Elements(Written(r, how).records) \subseteq Records \cup {r}
<1>1. spool.records \in Seq(Reading)
  BY DEF File
<1>2. Intact \in Seq(Reading) /\ Elements(Intact) \subseteq Records
  <2>1. CASE spool.tail = "whole"
    <3>1. Intact = SubSeq(spool.records, 1, Len(spool.records) - 1)
      BY <2>1 DEF Intact
    <3>2. Len(spool.records) \in Nat
      BY <1>1
    <3>3. \A i \in 1..(Len(spool.records) - 1) : spool.records[i] \in Reading
      BY <1>1, <3>2
    <3>4. /\ Intact \in Seq(Reading)
          /\ Len(Intact) = IF 1 <= Len(spool.records) - 1
                           THEN Len(spool.records) - 1 ELSE 0
          /\ \A i \in 1..(Len(spool.records) - 1) : Intact[i] = spool.records[i]
      BY <3>1, <3>2, <3>3, SubSeqProperties
    <3>5. \A i \in DOMAIN Intact :
             i \in DOMAIN spool.records /\ Intact[i] = spool.records[i]
      BY <3>4, <3>2, <1>1
    <3>. QED BY <3>4, <3>5 DEF Elements, Records
  <2>2. CASE spool.tail # "whole"
    BY <2>2, <1>1 DEF Intact, Records
  <2>. QED BY <2>1, <2>2
<1>3. /\ Append(Intact, r) \in Seq(Reading)
      /\ Elements(Append(Intact, r)) = Elements(Intact) \cup {r}
  BY <1>2, ElementsAppend
<1>4. CASE how = "line"
  <2>1. Written(r, how) =
           [records |-> IF spool.tail = "clean" THEN Append(Intact, r) ELSE Intact,
            tail |-> "clean"]
    BY <1>4 DEF Written
  <2>. QED BY <2>1, <1>2, <1>3 DEF File
<1>5. CASE how = "whole"
  <2>1. Written(r, how) =
           IF spool.tail = "clean"
           THEN [records |-> Append(Intact, r), tail |-> "whole"]
           ELSE [records |-> Intact, tail |-> "partial"]
    BY <1>5 DEF Written
  <2>. QED BY <2>1, <1>2, <1>3 DEF File
<1>6. CASE how = "partial"
  <2>1. Written(r, how) = [records |-> Intact, tail |-> "partial"]
    BY <1>6 DEF Written
  <2>. QED BY <2>1, <1>2 DEF File
<1>7. CASE how = "none"
  <2>1. Written(r, how) = spool
    BY <1>7 DEF Written
  <2>. QED BY <2>1 DEF Records
<1>. QED BY <1>4, <1>5, <1>6, <1>7

(* The cap keeps some of the records. *)
LEMMA NewestRecords ==
    ASSUME NEW s \in Seq(Reading), Len(s) > MaxSpoolRows
    PROVE  /\ Newest(s) \in Seq(Reading)
           /\ Len(Newest(s)) = MaxSpoolRows
           /\ Elements(Newest(s)) \subseteq Elements(s)
<1>. DEFINE low == Len(s) - MaxSpoolRows + 1
<1>1. MaxSpoolRows \in Nat \ {0} /\ Len(s) \in Nat
  BY BoundAssumption
<1>2. low \in 1..Len(s) /\ Len(s) - low + 1 = MaxSpoolRows
  BY <1>1
<1>3. \A i \in low..Len(s) : s[i] \in Reading
  BY <1>1, <1>2
<1>4. /\ Newest(s) \in Seq(Reading)
      /\ Len(Newest(s)) = Len(s) - low + 1
      /\ \A i \in 1..(Len(s) - low + 1) : Newest(s)[i] = s[low + i - 1]
  BY <1>1, <1>2, <1>3, SubSeqProperties DEF Newest
<1>5. DOMAIN Newest(s) = 1..MaxSpoolRows
  BY <1>4, <1>2
<1>6. ASSUME NEW i \in 1..MaxSpoolRows
      PROVE  low + i - 1 \in DOMAIN s
  BY <1>1, <1>2
<1>7. Elements(Newest(s)) \subseteq Elements(s)
  BY <1>4, <1>5, <1>6, <1>2 DEF Elements
<1>. QED BY <1>2, <1>4, <1>7

-----------------------------------------------------------------------------
(* Type correctness *)

(* A reading in hand is a reading. *)
LEMMA HandIsReading ==
    ASSUME TypeOK, loopPc # "idle"
    PROVE  hand \in Reading
  BY DEF TypeOK

(* Every reading is something. *)
LEMMA ReadingIsSomething == Nothing \notin Reading
<1>1. \A r \in Reading : r.ts # 0
  BY BoundAssumption DEF Reading
<1>2. Nothing.ts = 0
  BY DEF Nothing
<1>. QED BY <1>1, <1>2

LEMMA TypeOKInit == Init => TypeOK
<1>. SUFFICES ASSUME Init PROVE TypeOK
  OBVIOUS
<1>1. <<>> \in Seq(Reading) /\ Len(<<>>) = 0
  OBVIOUS
<1>2. spool \in File
  BY <1>1 DEF Init, EmptyFile, File
<1>3. retained \in [Point -> 0..MaxReadings]
  BY BoundAssumption DEF Init
<1>4. next \in 1..(Len(replay) + 1) /\ replay \in Seq(Reading)
  BY <1>1 DEF Init
<1>5. clock \in 0..MaxReadings /\ disconnects \in 0..MaxDisconnects
      /\ crashes \in 0..MaxCrashes
  BY BoundAssumption DEF Init
<1>. QED BY <1>1, <1>2, <1>3, <1>4, <1>5 DEF Init, TypeOK, File

LEMMA TypeOKStep == TypeOK /\ [Next]_vars => TypeOK'
<1>. SUFFICES ASSUME TypeOK, [Next]_vars PROVE TypeOK'
  OBVIOUS
<1>. USE DEF loopVars, netVars, history, counters
<1>a. spool \in File
  BY DEF TypeOK, File
<1>1. ASSUME NEW p \in Point, PublishReading(p) PROVE TypeOK'
  <2>1. [point |-> p, ts |-> clock + 1] \in Reading /\ clock + 1 \in 0..MaxReadings
    BY <1>1, BoundAssumption DEF PublishReading, TypeOK, Reading
  <2>. QED BY <1>1, <2>1, ReadingIsSomething DEF PublishReading, TypeOK
<1>2. CASE Send
  <2>1. hand \in Reading
    BY <1>2, HandIsReading DEF Send
  <2>2. Append(queue, hand) \in Seq(Reading)
    BY <2>1 DEF TypeOK
  <2>. QED BY <1>2, <2>1, <2>2 DEF Send, PublishReturns, TypeOK
<1>3. CASE SendRaises
  BY <1>3 DEF SendRaises, PublishReturns, TypeOK
<1>4. CASE AppendLine
  <2>1. hand \in Reading
    BY <1>4, HandIsReading DEF AppendLine
  <2>2. spool' \in File
    BY <1>4, <1>a, <2>1, WrittenFile DEF AppendLine
  <2>3. Records \subseteq Reading
    BY <1>a DEF File, Records, Elements
  <2>4. lost' \subseteq Reading
    BY <1>4, <2>1, <2>3 DEF AppendLine, GiveUp, TypeOK
  <2>. QED BY <1>4, <2>1, <2>2, <2>4 DEF AppendLine, Acquire, TypeOK, File
<1>5. CASE AppendRaises
  <2>1. hand \in Reading
    BY <1>5, HandIsReading DEF AppendRaises
  <2>2. PICK how \in {"whole", "partial", "none"} :
            /\ spool' = Written(hand, how)
            /\ taken' = taken \cup (Records' \ Records)
            /\ untrimmed' \in {untrimmed, untrimmed + 1}
    BY <1>5 DEF AppendRaises
  <2>3. spool' \in File
    BY <1>a, <2>1, <2>2, WrittenFile
  <2>4. Records \subseteq Reading /\ Records' \subseteq Reading
    BY <1>a, <2>3 DEF File, Records, Elements
  <2>5. lost' \subseteq Reading
    BY <1>5, <2>4 DEF AppendRaises, GiveUp, TypeOK
  <2>. QED BY <1>5, <2>2, <2>3, <2>4, <2>5
           DEF AppendRaises, PublishReturns, TypeOK, File
<1>6. CASE Trim
  <2>1. spool' \in File
    <3>1. CASE OverCap
      <4>1. Newest(spool.records) \in Seq(Reading)
        BY <1>a, <3>1, NewestRecords DEF OverCap, File
      <4>. QED BY <1>6, <3>1, <4>1 DEF Trim, File
    <3>2. CASE ~OverCap
      BY <1>6, <3>2, <1>a DEF Trim
    <3>. QED BY <3>1, <3>2
  <2>2. Records \subseteq Reading
    BY <1>a DEF File, Records, Elements
  <2>3. lost' \subseteq Reading
    BY <1>6, <2>2 DEF Trim, GiveUp, TypeOK
  <2>. QED BY <1>6, <2>1, <2>3 DEF Trim, Release, PublishReturns, TypeOK, File
<1>6a. CASE TrimRaises
  BY <1>6a DEF TrimRaises, Release, PublishReturns, TypeOK
<1>7. CASE Connect
  BY <1>7 DEF Connect, TypeOK
<1>8. CASE FlushStart
  <2>1. spool.records \in Seq(Reading) /\ 1 \in 1..(Len(spool.records) + 1)
    BY <1>a DEF File
  <2>. QED BY <1>8, <2>1 DEF FlushStart, Acquire, TypeOK
<1>9. CASE FlushNothing
  BY <1>9 DEF FlushNothing, TypeOK
<1>10. CASE FlushPublish
  <2>1. next \in 1..Len(replay) /\ replay \in Seq(Reading) /\ Len(replay) \in Nat
    BY <1>10 DEF FlushPublish, ReplayDone, TypeOK
  <2>2. replay[next] \in Reading
    BY <2>1
  <2>3. Append(queue, replay[next]) \in Seq(Reading)
    BY <2>2 DEF TypeOK
  <2>4. next + 1 \in 1..(Len(replay) + 1)
    BY <2>1
  <2>. QED BY <1>10, <2>3, <2>4 DEF FlushPublish, TypeOK
<1>11. CASE FlushDisconnected
  BY <1>11 DEF FlushDisconnected, FlushReturns, Release, TypeOK
<1>12. CASE FlushRaises
  BY <1>12 DEF FlushRaises, Release, TypeOK
<1>13. CASE FlushRemove
  <2>1. EmptyFile \in File
    BY DEF EmptyFile, File
  <2>. QED BY <1>13, <2>1 DEF FlushRemove, FlushReturns, Release, TypeOK, File
<1>13a. CASE FlushFileRaises
  BY <1>13a DEF FlushFileRaises, Release, TypeOK
<1>14. ASSUME queue # <<>>, BrokerReceives(Head(queue))
       PROVE  /\ received' \subseteq Reading
              /\ retained' \in [Point -> 0..MaxReadings]
              /\ Tail(queue) \in Seq(Reading)
              /\ UNCHANGED <<taken, lost>>
  <2>1. Head(queue) \in Reading /\ Tail(queue) \in Seq(Reading)
    BY <1>14, ElementsHeadTail DEF TypeOK
  <2>2. Head(queue).ts \in 0..MaxReadings
    BY <2>1, BoundAssumption DEF Reading
  <2>. QED BY <1>14, <2>1, <2>2 DEF BrokerReceives, TypeOK
<1>15. CASE Deliver
  BY <1>14, <1>15 DEF Deliver, TypeOK
<1>16. ASSUME LinkLost
       PROVE  connected' = FALSE /\ disconnects' \in 0..MaxDisconnects
              /\ UNCHANGED <<untrimmed, crashes>>
  BY <1>16, BoundAssumption DEF LinkLost, TypeOK
<1>17. CASE DeliverUnacked
  BY <1>14, <1>16, <1>17 DEF DeliverUnacked, TypeOK
<1>18. CASE Disconnect
  BY <1>16, <1>18 DEF Disconnect, TypeOK
<1>19. CASE Crash
  <2>1. PICK how \in {"none", "whole", "partial"} :
            /\ how # "none" => loopPc = "spool"
            /\ spool' = Written(hand, how)
            /\ taken' = taken \cup (Records' \ Records)
            /\ untrimmed' \in {untrimmed, untrimmed + 1}
    BY <1>19 DEF Crash
  <2>2. spool' \in File
    <3>1. CASE how = "none"
      <4>1. Written(hand, how) = spool
        BY <3>1 DEF Written
      <4>. QED BY <4>1, <2>1, <1>a
    <3>2. CASE how # "none"
      <4>1. hand \in Reading
        BY <3>2, <2>1, HandIsReading
      <4>. QED BY <4>1, <2>1, <1>a, WrittenFile
    <3>. QED BY <3>1, <3>2
  <2>3. /\ Records \subseteq Reading /\ Records' \subseteq Reading
        /\ Elements(queue) \subseteq Reading
    BY <1>a, <2>2 DEF File, Records, Elements, TypeOK
  <2>4. lost' \subseteq Reading /\ taken' \subseteq Reading
    BY <1>19, <2>1, <2>3 DEF Crash, GiveUp, Pending, TypeOK
  <2>5. crashes' \in 0..MaxCrashes
    BY <1>19, BoundAssumption DEF Crash, TypeOK
  <2>6. <<>> \in Seq(Reading) /\ 1 \in 1..(Len(<<>>) + 1)
    OBVIOUS
  <2>7. untrimmed' \in Nat
    BY <2>1 DEF TypeOK
  <2>. QED BY <1>19, <2>2, <2>4, <2>5, <2>6, <2>7 DEF Crash, ProcessStart, TypeOK, File
<1>20. CASE UNCHANGED vars
  BY <1>20 DEF vars, TypeOK
<1>. QED
  BY <1>1, <1>2, <1>3, <1>4, <1>5, <1>6, <1>6a, <1>7, <1>8, <1>9, <1>10, <1>11,
     <1>12, <1>13, <1>13a, <1>15, <1>17, <1>18, <1>19, <1>20
     DEF Next, LoopThread, NetworkThread, Flush

(* The variables keep their types, and the spool lock is held by a thread  *)
(* exactly while it is inside _spool_append or _flush_spool.               *)
THEOREM TypeCorrect == Spec => []TypeOK
<1>. QED BY TypeOKInit, TypeOKStep, PTL DEF Spec

-----------------------------------------------------------------------------
(* The bound of the spool *)

(* What a write adds: a line, with or without its newline, at most one     *)
(* record; less than that, none.                                           *)
LEMMA WrittenLength ==
    ASSUME spool \in File, NEW r \in Reading,
           NEW how \in {"line", "whole", "partial", "none"}
    PROVE  Len(Written(r, how).records) <=
              Len(spool.records) + (IF how \in {"line", "whole"} THEN 1 ELSE 0)
<1>1. spool.records \in Seq(Reading) /\ Len(spool.records) \in Nat
  BY DEF File
<1>2. Intact \in Seq(Reading) /\ Len(Intact) \in Nat /\ Len(Intact) <= Len(spool.records)
  <2>1. CASE spool.tail = "whole"
    <3>1. Intact = SubSeq(spool.records, 1, Len(spool.records) - 1)
      BY <2>1 DEF Intact
    <3>2. \A i \in 1..(Len(spool.records) - 1) : spool.records[i] \in Reading
      BY <1>1
    <3>3. /\ Intact \in Seq(Reading)
          /\ Len(Intact) = IF 1 <= Len(spool.records) - 1
                           THEN Len(spool.records) - 1 ELSE 0
      BY <3>1, <3>2, <1>1, SubSeqProperties
    <3>. QED BY <3>3, <1>1
  <2>2. CASE spool.tail # "whole"
    BY <2>2, <1>1 DEF Intact
  <2>. QED BY <2>1, <2>2
<1>3. Len(Append(Intact, r)) = Len(Intact) + 1
  BY <1>2
<1>4. CASE how \in {"line", "whole"}
  <2>1. Written(r, how).records \in {Append(Intact, r), Intact}
    BY <1>4 DEF Written
  <2>. QED BY <2>1, <1>1, <1>2, <1>3, <1>4
<1>5. CASE how \in {"partial", "none"}
  <2>1. Written(r, how).records \in {Intact, spool.records}
    BY <1>5 DEF Written
  <2>2. how \notin {"line", "whole"}
    BY <1>5
  <2>3. Len(Written(r, how).records) <= Len(spool.records)
    BY <2>1, <1>1, <1>2
  <2>. QED BY <2>2, <2>3, <1>1
<1>. QED BY <1>4, <1>5

-----------------------------------------------------------------------------
(* The inductive invariant *)

LEMMA IInvInit == Init => IInv
<1>. SUFFICES ASSUME Init PROVE FlushCovers /\ NoSilentLoss /\ SpoolBounded
  BY TypeOKInit DEF IInv
<1>1. Len(spool.records) = 0
  BY DEF Init, EmptyFile
<1>. QED BY <1>1, BoundAssumption DEF Init, FlushCovers, NoSilentLoss, SpoolBounded

(* No action but those of the flush itself disturbs FlushCovers: an append *)
(* needs the lock, and what leaves the queue goes to the broker.           *)
LEMMA FlushCoversStep == IInv /\ [Next]_vars => FlushCovers'
<1>. SUFFICES ASSUME IInv, [Next]_vars, netPc' = "flush"
              PROVE  /\ replay' = spool'.records
                     /\ \A i \in 1..(next' - 1) :
                           replay'[i] \in Elements(queue') \cup received'
  BY DEF FlushCovers
<1>. USE DEF loopVars, netVars, history, counters
<1>t. TypeOK /\ FlushCovers
  BY DEF IInv
<1>1. CASE FlushStart
  <2>1. 1..(next' - 1) = {}
    BY <1>1 DEF FlushStart
  <2>. QED BY <1>1, <2>1 DEF FlushStart
<1>2. CASE FlushPublish
  <2>1. /\ next \in 1..Len(replay) /\ replay \in Seq(Reading)
        /\ replay[next] \in Reading /\ queue \in Seq(Reading)
    BY <1>2, <1>t DEF FlushPublish, ReplayDone, TypeOK
  <2>2. Elements(queue') = Elements(queue) \cup {replay[next]}
    BY <1>2, <2>1, ElementsAppend DEF FlushPublish
  <2>3. \A i \in 1..(next' - 1) : i \in 1..(next - 1) \/ i = next
    BY <1>2, <2>1 DEF FlushPublish
  <2>. QED BY <1>2, <1>t, <2>2, <2>3 DEF FlushPublish, FlushCovers
<1>3. ASSUME UNCHANGED <<netPc, replay, next, spool>>,
             Elements(queue) \cup received \subseteq Elements(queue') \cup received'
      PROVE  /\ replay' = spool'.records
             /\ \A i \in 1..(next' - 1) :
                   replay'[i] \in Elements(queue') \cup received'
  BY <1>3, <1>t DEF FlushCovers
<1>4. ASSUME NEW p \in Point, PublishReading(p)
      PROVE  UNCHANGED <<netPc, replay, next, spool, queue, received>>
  BY <1>4 DEF PublishReading
<1>5. CASE Send
  <2>1. Elements(queue') = Elements(queue) \cup {hand}
    BY <1>5, <1>t, HandIsReading, ElementsAppend DEF Send, TypeOK
  <2>. QED BY <1>3, <1>5, <2>1 DEF Send
<1>6. CASE SendRaises
  BY <1>3, <1>6 DEF SendRaises
<1>7. netPc = "flush" => lock = "net"
  BY <1>t DEF TypeOK
<1>8. ~AppendLine /\ ~AppendRaises /\ ~Trim /\ ~TrimRaises
  BY <1>7, <1>t DEF AppendLine, AppendRaises, Trim, TrimRaises, Acquire, TypeOK
<1>9. ~Connect /\ ~FlushNothing /\ ~FlushDisconnected /\ ~FlushRaises /\ ~FlushRemove
      /\ ~FlushFileRaises
  BY DEF Connect, FlushNothing, FlushDisconnected, FlushRaises, FlushRemove,
     FlushFileRaises, FlushReturns
<1>10. ~Deliver /\ ~DeliverUnacked /\ ~Crash
  BY DEF Deliver, DeliverUnacked, Crash, ProcessStart
<1>11. CASE Disconnect
  BY <1>3, <1>11 DEF Disconnect
<1>12. CASE UNCHANGED vars
  BY <1>3, <1>12 DEF vars
<1>. QED
  BY <1>1, <1>2, <1>3, <1>4, <1>5, <1>6, <1>8, <1>9, <1>10, <1>11, <1>12
     DEF Next, LoopThread, NetworkThread, Flush

(* What a step takes out of the spool or the queue is with the broker or   *)
(* lost; and what it takes in is in one of them.                           *)
LEMMA NoSilentLossStep == IInv /\ [Next]_vars => NoSilentLoss'
<1>. SUFFICES ASSUME IInv, [Next]_vars PROVE NoSilentLoss'
  OBVIOUS
<1>. USE DEF loopVars, netVars, history, counters
<1>t. TypeOK /\ FlushCovers /\ NoSilentLoss
  BY DEF IInv
<1>s. ASSUME UNCHANGED <<taken, received, lost, spool, queue>> PROVE NoSilentLoss'
  BY <1>s, <1>t DEF NoSilentLoss, Pending, Records
<1>g. ASSUME NEW S, UNCHANGED <<received, queue>>, GiveUp(S),
             Records \subseteq S, taken' \subseteq taken \cup Records' \cup S
      PROVE  NoSilentLoss'
  BY <1>g, <1>t DEF NoSilentLoss, GiveUp, Pending
<1>1. ASSUME NEW p \in Point, PublishReading(p) PROVE NoSilentLoss'
  BY <1>1, <1>s DEF PublishReading
<1>2. CASE Send
  <2>1. Elements(queue') = Elements(queue) \cup {hand}
    BY <1>2, <1>t, HandIsReading, ElementsAppend DEF Send, TypeOK
  <2>. QED BY <1>2, <2>1, <1>t DEF Send, NoSilentLoss, Pending, Records
<1>3. CASE AppendLine
  BY <1>3, <1>g DEF AppendLine
<1>4. CASE AppendRaises
  BY <1>4, <1>g DEF AppendRaises
<1>5. CASE Trim
  BY <1>5, <1>g DEF Trim
<1>6. CASE FlushPublish
  <2>1. /\ replay[next] \in Reading /\ queue \in Seq(Reading)
    BY <1>6, <1>t DEF FlushPublish, ReplayDone, TypeOK
  <2>2. Elements(queue) \subseteq Elements(queue')
    BY <1>6, <2>1, ElementsAppend DEF FlushPublish
  <2>. QED BY <1>6, <2>2, <1>t DEF FlushPublish, NoSilentLoss, Pending, Records
<1>7. CASE FlushRemove
  <2>1. replay = spool.records /\ next = Len(replay) + 1 /\ replay \in Seq(Reading)
    BY <1>7, <1>t DEF FlushRemove, ReplayDone, FlushCovers, TypeOK
  <2>2. \A i \in DOMAIN replay : replay[i] \in Elements(queue) \cup received
    BY <1>7, <1>t, <2>1 DEF FlushRemove, FlushCovers
  <2>3. Records \subseteq Elements(queue) \cup received
    BY <2>1, <2>2 DEF Records, Elements
  <2>. QED BY <1>7, <2>3, <1>t DEF FlushRemove, NoSilentLoss, Pending
<1>8. ASSUME queue # <<>>, BrokerReceives(Head(queue))
      PROVE  /\ Elements(queue) = {Head(queue)} \cup Elements(Tail(queue))
             /\ received' = received \cup {Head(queue)}
             /\ UNCHANGED <<taken, lost>>
  BY <1>8, <1>t, ElementsHeadTail DEF BrokerReceives, TypeOK
<1>9. CASE Deliver
  BY <1>8, <1>9, <1>t DEF Deliver, NoSilentLoss, Pending, Records
<1>10. CASE DeliverUnacked
  BY <1>8, <1>10, <1>t DEF DeliverUnacked, NoSilentLoss, Pending, Records
<1>11. CASE Crash
  <2>1. taken' \subseteq taken \cup Records'
    BY <1>11 DEF Crash
  <2>2. lost' = lost \cup (Pending \ (received \cup Pending'))
    BY <1>11 DEF Crash, GiveUp
  <2>3. received' = received
    BY <1>11 DEF Crash
  <2>. QED BY <2>1, <2>2, <2>3, <1>t DEF NoSilentLoss, Pending
<1>12. CASE SendRaises \/ Connect \/ FlushStart \/ FlushNothing
            \/ FlushDisconnected \/ FlushRaises \/ FlushFileRaises \/ TrimRaises
            \/ Disconnect \/ UNCHANGED vars
  BY <1>12, <1>s DEF SendRaises, Connect, FlushStart, FlushNothing,
     FlushDisconnected, FlushRaises, FlushFileRaises, TrimRaises, Disconnect, vars
<1>. QED
  BY <1>1, <1>2, <1>3, <1>4, <1>5, <1>6, <1>7, <1>9, <1>10, <1>11, <1>12
     DEF Next, LoopThread, NetworkThread, Flush

(* An append makes room for one row under the lock; a trim that fails or   *)
(* is never reached makes it room for good; one that goes through restores *)
(* the cap.                                                                *)
LEMMA SpoolBoundedStep == IInv /\ [Next]_vars => SpoolBounded'
<1>. SUFFICES ASSUME IInv, [Next]_vars PROVE SpoolBounded'
  OBVIOUS
<1>. USE DEF loopVars, netVars, history, counters
<1>a. spool \in File /\ spool' \in File
  <2>1. TypeOK /\ TypeOK'
    BY TypeOKStep DEF IInv
  <2>. QED BY <2>1 DEF TypeOK, File
<1>t. /\ TypeOK /\ SpoolBounded
      /\ MaxSpoolRows \in Nat /\ untrimmed \in Nat
      /\ Len(spool.records) \in Nat /\ Len(spool'.records) \in Nat
  BY <1>a, BoundAssumption DEF IInv, TypeOK, File
<1>s. ASSUME UNCHANGED <<spool, untrimmed>>, lock = "loop" => lock' = "loop"
      PROVE  SpoolBounded'
  BY <1>s, <1>t DEF SpoolBounded
<1>b. lock = "free" => Len(spool.records) <= MaxSpoolRows + untrimmed
  BY <1>t DEF SpoolBounded
(* The lock is free, and a write adds a row at most where it is counted.   *)
<1>w. ASSUME lock = "free", loopPc = "spool",
             NEW how \in {"whole", "partial", "none"}, spool' = Written(hand, how),
             untrimmed' = IF how = "whole" THEN untrimmed + 1 ELSE untrimmed
      PROVE  SpoolBounded'
  <2>1. hand \in Reading
    BY <1>w, <1>t, HandIsReading
  <2>2. Len(spool'.records) <=
           Len(spool.records) + (IF how \in {"line", "whole"} THEN 1 ELSE 0)
    BY <2>1, <1>a, <1>w, WrittenLength
  <2>b. Len(spool.records) <= MaxSpoolRows + untrimmed
    BY <1>b, <1>w
  <2>3. Len(spool'.records) <= MaxSpoolRows + untrimmed'
    <3>1. CASE how = "whole"
      <4>1. Len(spool'.records) <= Len(spool.records) + 1 /\ untrimmed' = untrimmed + 1
        BY <2>2, <3>1, <1>w
      <4>. QED BY <4>1, <2>b, <1>t
    <3>2. CASE how # "whole"
      <4>1. how \notin {"line", "whole"}
        BY <3>2
      <4>2. Len(spool'.records) <= Len(spool.records) /\ untrimmed' = untrimmed
        BY <2>2, <3>2, <4>1, <1>t, <1>w
      <4>. QED BY <4>2, <2>b, <1>t
    <3>. QED BY <3>1, <3>2
  <2>4. untrimmed' \in Nat
    BY <1>t, <1>w
  <2>. QED BY <2>3, <2>4, <1>t DEF SpoolBounded
<1>1. ASSUME NEW p \in Point, PublishReading(p) PROVE SpoolBounded'
  BY <1>1, <1>s DEF PublishReading
<1>2. CASE AppendLine
  <2>1. hand \in Reading /\ lock = "free" /\ lock' = "loop"
    BY <1>2, <1>t, HandIsReading DEF AppendLine, Acquire
  <2>2. Len(spool'.records) <= Len(spool.records) + 1
    BY <1>2, <1>a, <2>1, WrittenLength DEF AppendLine
  <2>3. untrimmed' = untrimmed
    BY <1>2 DEF AppendLine
  <2>. QED BY <2>1, <2>2, <2>3, <1>b, <1>t DEF SpoolBounded
<1>3. CASE AppendRaises
  <2>1. PICK how \in {"whole", "partial", "none"} :
            /\ spool' = Written(hand, how)
            /\ untrimmed' = IF how = "whole" THEN untrimmed + 1 ELSE untrimmed
    BY <1>3 DEF AppendRaises
  <2>. QED BY <1>3, <2>1, <1>w DEF AppendRaises
<1>4. CASE Trim
  <2>1. Len(spool'.records) <= MaxSpoolRows
    <3>1. CASE OverCap
      BY <1>4, <3>1, <1>a, <1>t, NewestRecords DEF Trim, OverCap, File
    <3>2. CASE ~OverCap
      BY <1>4, <3>2, <1>t DEF Trim, OverCap
    <3>. QED BY <3>1, <3>2
  <2>2. untrimmed' = 0
    BY <1>4 DEF Trim
  <2>. QED BY <2>1, <2>2, <1>t DEF SpoolBounded
<1>5. CASE TrimRaises
  <2>1. spool' = spool /\ untrimmed' = untrimmed + 1
    BY <1>5 DEF TrimRaises
  <2>. QED BY <2>1, <1>t DEF SpoolBounded
<1>6. CASE FlushStart
  BY <1>6, <1>s DEF FlushStart, Acquire
<1>7. CASE FlushDisconnected \/ FlushRaises \/ FlushFileRaises
  BY <1>7, <1>s DEF FlushDisconnected, FlushRaises, FlushFileRaises, FlushReturns,
     Release
<1>8. CASE FlushRemove
  <2>1. Len(spool'.records) = 0 /\ untrimmed' = 0
    BY <1>8 DEF FlushRemove, EmptyFile
  <2>. QED BY <2>1, <1>t DEF SpoolBounded
<1>9. CASE Crash
  <2>1. lock' = "free"
    BY <1>9 DEF Crash, ProcessStart
  <2>2. PICK how \in {"none", "whole", "partial"} :
           /\ how # "none" => loopPc = "spool" /\ lock = "free"
           /\ spool' = Written(hand, how)
           /\ untrimmed' = IF how = "whole" \/ loopPc = "trim"
                           THEN untrimmed + 1 ELSE untrimmed
    BY <1>9 DEF Crash
  <2>3. CASE how = "none"
    <3>1. spool' = spool
      BY <2>2, <2>3 DEF Written
    <3>2. lock = "loop" => loopPc = "trim"
      BY <1>t DEF TypeOK
    <3>. QED BY <2>1, <2>2, <2>3, <3>1, <3>2, <1>t DEF SpoolBounded
  <2>4. CASE how # "none"
    <3>1. /\ lock = "free" /\ loopPc = "spool"
          /\ untrimmed' = IF how = "whole" THEN untrimmed + 1 ELSE untrimmed
      BY <2>2, <2>4
    <3>. QED BY <2>2, <3>1, <1>w
  <2>. QED BY <2>3, <2>4
<1>10. CASE Send \/ SendRaises \/ Connect \/ FlushNothing \/ FlushPublish
           \/ Deliver \/ DeliverUnacked \/ Disconnect \/ UNCHANGED vars
  BY <1>10, <1>s DEF Send, SendRaises, Connect, FlushNothing, FlushPublish,
     Deliver, DeliverUnacked, Disconnect, LinkLost, vars
<1>. QED
  BY <1>1, <1>2, <1>3, <1>4, <1>5, <1>6, <1>7, <1>8, <1>9, <1>10
     DEF Next, LoopThread, NetworkThread, Flush

LEMMA IInvStep == IInv /\ [Next]_vars => IInv'
  BY TypeOKStep, FlushCoversStep, NoSilentLossStep, SpoolBoundedStep DEF IInv

LEMMA Invariant == Spec => []IInv
  BY IInvInit, IInvStep, PTL DEF Spec

(* What a flush replays is exactly what the file holds, so that removing   *)
(* the file removes nothing that is neither queued nor delivered.          *)
THEOREM FlushCoversFile == Spec => []FlushCovers
<1>1. IInv => FlushCovers
  BY DEF IInv
<1>. QED BY <1>1, Invariant, PTL

(* A reading the sink has taken is with the broker, pending, or lost for   *)
(* one of the three known causes.                                          *)
THEOREM NothingLostSilently == Spec => []NoSilentLoss
<1>1. IInv => NoSilentLoss
  BY DEF IInv
<1>. QED BY <1>1, Invariant, PTL

(* The spool outgrows its cap only by the rows of appends whose own trim   *)
(* failed or was never reached since the last that went through, and the   *)
(* one being added.                                                        *)
THEOREM SpoolNeverOutgrows == Spec => []SpoolBounded
<1>1. IInv => SpoolBounded
  BY DEF IInv
<1>. QED BY <1>1, Invariant, PTL

-----------------------------------------------------------------------------
(***************************************************************************)
(* MqttSink implements ReadingDelivery: threads, locks, file, queue and    *)
(* flush together only ever take a reading, deliver it, or give it up.     *)
(* Besides IInv this takes Fresh: the reading publish_reading is about to  *)
(* queue or spool is newer than all there are, so that taking it is a step *)
(* the abstract specification allows.                                      *)
(***************************************************************************)
Known == Pending \cup received \cup lost

Fresh ==
    /\ \A r \in Known : r.ts <= clock
    /\ loopPc \in {"send", "spool"} =>
          hand.ts = clock /\ \A r \in Known : r.ts < clock

DInv == IInv /\ Fresh

-----------------------------------------------------------------------------
(* What GiveUp leaves known is what was known, and what the step took.     *)
LEMMA KnownAfterGiveUp ==
    ASSUME NEW S, GiveUp(S), received' = received
    PROVE  Known' \subseteq Known \cup Pending' \cup S
  BY DEF Known, GiveUp

(* Pending readings are readings, and so are the known ones. *)
LEMMA KnownAreReadings ==
    ASSUME TypeOK
    PROVE  Known \subseteq Reading /\ Pending \subseteq Reading
  BY DEF TypeOK, Known, Pending, Records, Elements

(* A step that takes no reading leaves what is not known unknown. *)
LEMMA FreshIfNothingTaken ==
    ASSUME Fresh, Known' \subseteq Known, clock' = clock,
           (hand' = hand /\ loopPc' = loopPc) \/ loopPc' \in {"idle", "trim"}
    PROVE  Fresh'
  BY DEF Fresh

LEMMA FreshStep == DInv /\ [Next]_vars => Fresh'
<1>. SUFFICES ASSUME DInv, [Next]_vars PROVE Fresh'
  OBVIOUS
<1>. USE DEF loopVars, netVars, history, counters
<1>t. TypeOK /\ FlushCovers /\ Fresh
  BY DEF DInv, IInv
<1>a. spool \in File
  BY <1>t DEF TypeOK, File
<1>h. loopPc \in {"send", "spool"} => hand \in Reading /\ hand.ts = clock
  BY <1>t, HandIsReading DEF Fresh
(* The step takes the reading in hand, and the method returns. *)
<1>k. ASSUME loopPc \in {"send", "spool"}, Known' \subseteq Known \cup {hand},
             clock' = clock, loopPc' \in {"idle", "trim"}
      PROVE  Fresh'
  <2>1. \A r \in Known' : r.ts <= clock'
    <3>. SUFFICES ASSUME NEW r \in Known' PROVE r.ts <= clock
      BY <1>k
    <3>1. CASE r \in Known
      BY <3>1, <1>t DEF Fresh
    <3>2. CASE r = hand
      <4>1. clock \in Int /\ hand.ts = clock
        BY <1>k, <1>h, <1>t DEF TypeOK
      <4>. QED BY <3>2, <4>1
    <3>. QED BY <3>1, <3>2, <1>k
  <2>. QED BY <2>1, <1>k DEF Fresh
<1>1. ASSUME NEW p \in Point, PublishReading(p) PROVE Fresh'
  <2>1. Known' = Known
    BY <1>1 DEF PublishReading, Known, Pending, Records
  <2>2. clock \in Int /\ clock' = clock + 1 /\ hand'.ts = clock + 1
    BY <1>1, <1>t DEF PublishReading, TypeOK
  <2>3. \A r \in Known : r.ts \in Int /\ r.ts <= clock
    BY <1>t, KnownAreReadings DEF Fresh, Reading
  <2>. QED BY <2>1, <2>2, <2>3 DEF Fresh
<1>2. CASE Send
  <2>1. Elements(queue') = Elements(queue) \cup {hand}
    BY <1>2, <1>t, HandIsReading, ElementsAppend DEF Send, TypeOK
  <2>2. Known' \subseteq Known \cup {hand}
    BY <1>2, <2>1 DEF Send, Known, Pending, Records
  <2>. QED BY <1>2, <1>k, <2>2 DEF Send, PublishReturns
<1>3. CASE AppendLine
  <2>1. hand \in Reading
    BY <1>3, <1>h DEF AppendLine
  <2>2. Records' \subseteq Records \cup {hand}
    BY <1>3, <1>a, <2>1, WrittenFile DEF AppendLine, Records
  <2>3. Known' \subseteq Known \cup Pending' \cup (Records \cup {hand})
    BY <1>3, KnownAfterGiveUp DEF AppendLine
  <2>4. Known' \subseteq Known \cup {hand}
    BY <1>3, <2>2, <2>3 DEF AppendLine, Known, Pending
  <2>. QED BY <1>3, <1>k, <2>4 DEF AppendLine
<1>4. CASE AppendRaises
  <2>1. hand \in Reading
    BY <1>4, <1>h DEF AppendRaises
  <2>2. Records' \subseteq Records \cup {hand}
    BY <1>4, <1>a, <2>1, WrittenFile DEF AppendRaises, Records
  <2>3. Known' \subseteq Known \cup Pending' \cup Records
    BY <1>4, KnownAfterGiveUp DEF AppendRaises
  <2>4. Known' \subseteq Known \cup {hand}
    BY <1>4, <2>2, <2>3 DEF AppendRaises, Known, Pending
  <2>. QED BY <1>4, <1>k, <2>4 DEF AppendRaises, PublishReturns
<1>5. CASE Trim
  <2>1. Records' \subseteq Records
    BY <1>5, <1>a, NewestRecords DEF Trim, OverCap, Records, File
  <2>2. Known' \subseteq Known \cup Pending' \cup Records
    BY <1>5, KnownAfterGiveUp DEF Trim
  <2>3. Known' \subseteq Known
    BY <1>5, <2>1, <2>2 DEF Trim, Known, Pending
  <2>. QED BY <1>5, <2>3, <1>t, FreshIfNothingTaken DEF Trim, PublishReturns
<1>6. CASE FlushPublish
  <2>1. /\ next \in DOMAIN replay /\ replay[next] \in Reading
        /\ queue \in Seq(Reading) /\ replay = spool.records
    BY <1>6, <1>t DEF FlushPublish, ReplayDone, TypeOK, FlushCovers
  <2>2. Elements(queue') = Elements(queue) \cup {replay[next]}
    BY <1>6, <2>1, ElementsAppend DEF FlushPublish
  <2>3. replay[next] \in Records
    BY <2>1 DEF Records, Elements
  <2>4. Known' \subseteq Known
    BY <1>6, <2>2, <2>3 DEF FlushPublish, Known, Pending, Records
  <2>. QED BY <1>6, <2>4, <1>t, FreshIfNothingTaken DEF FlushPublish
<1>7. CASE FlushRemove
  <2>1. Records' = {}
    BY <1>7, ElementsEmpty DEF FlushRemove, Records, EmptyFile
  <2>2. Known' \subseteq Known
    BY <1>7, <2>1 DEF FlushRemove, Known, Pending
  <2>. QED BY <1>7, <2>2, <1>t, FreshIfNothingTaken DEF FlushRemove
<1>8. ASSUME queue # <<>>, BrokerReceives(Head(queue)), UNCHANGED spool,
             queue' = queue \/ queue' = Tail(queue)
      PROVE  Known' \subseteq Known
  <2>1. Elements(queue) = {Head(queue)} \cup Elements(Tail(queue))
    BY <1>8, <1>t, ElementsHeadTail DEF TypeOK
  <2>2. Elements(queue') \subseteq Elements(queue)
    BY <1>8, <2>1
  <2>. QED BY <1>8, <2>1, <2>2 DEF BrokerReceives, Known, Pending, Records
<1>9. CASE Deliver
  BY <1>8, <1>9, <1>t, FreshIfNothingTaken DEF Deliver
<1>10. CASE DeliverUnacked
  BY <1>8, <1>10, <1>t, FreshIfNothingTaken DEF DeliverUnacked
<1>11. CASE Crash
  <2>1. PICK how \in {"none", "whole", "partial"} :
            /\ how # "none" => loopPc = "spool"
            /\ spool' = Written(hand, how)
    BY <1>11 DEF Crash
  <2>2. /\ clock' = clock /\ loopPc' = "idle" /\ queue' = <<>>
        /\ received' = received /\ GiveUp(Pending)
    BY <1>11 DEF Crash, ProcessStart
  <2>3. Known' \subseteq Known \cup Pending' \cup Pending
    BY <2>2, KnownAfterGiveUp
  <2>4. Pending' = Records'
    BY <2>2, ElementsEmpty DEF Pending
  <2>5. CASE how = "none"
    <3>1. Records' = Records
      BY <2>1, <2>5 DEF Written, Records
    <3>2. Known' \subseteq Known
      BY <2>3, <2>4, <3>1 DEF Known, Pending
    <3>. QED BY <2>2, <3>2, <1>t, FreshIfNothingTaken
  <2>6. CASE how # "none"
    <3>1. Records' \subseteq Records \cup {hand}
      BY <2>1, <2>6, <1>a, <1>h, WrittenFile DEF Records
    <3>2. Known' \subseteq Known \cup {hand}
      BY <2>3, <2>4, <3>1 DEF Known, Pending
    <3>. QED BY <2>1, <2>2, <2>6, <3>2, <1>k
  <2>. QED BY <2>5, <2>6
<1>12. ASSUME UNCHANGED <<clock, queue, spool, received, lost>>,
              (hand' = hand /\ loopPc' = loopPc) \/ loopPc' \in {"idle", "trim"}
       PROVE  Fresh'
  <2>1. Known' = Known
    BY <1>12 DEF Known, Pending, Records
  <2>. QED BY <2>1, <1>12, <1>t, FreshIfNothingTaken
<1>13. CASE SendRaises \/ TrimRaises
  BY <1>12, <1>13 DEF SendRaises, TrimRaises, PublishReturns
<1>14. CASE Connect \/ FlushStart \/ FlushNothing \/ FlushDisconnected
            \/ FlushRaises \/ FlushFileRaises \/ Disconnect \/ UNCHANGED vars
  BY <1>12, <1>14 DEF Connect, FlushStart, FlushNothing, FlushDisconnected,
     FlushRaises, FlushFileRaises, Disconnect, vars
<1>. QED
  BY <1>1, <1>2, <1>3, <1>4, <1>5, <1>6, <1>7, <1>9, <1>10, <1>11, <1>13, <1>14
     DEF Next, LoopThread, NetworkThread, Flush

LEMMA DeliveryInvariant == Spec => []DInv
<1>1. Init => DInv
  <2>. SUFFICES ASSUME Init PROVE Fresh
    BY IInvInit DEF DInv
  <2>1. Known = {}
    BY ElementsEmpty DEF Init, EmptyFile, Known, Pending, Records
  <2>. QED BY <2>1 DEF Init, Fresh
<1>2. DInv /\ [Next]_vars => DInv'
  BY FreshStep, IInvStep DEF DInv
<1>. QED BY <1>1, <1>2, PTL DEF Spec

-----------------------------------------------------------------------------
(* Every step is one of ReadingDelivery's, or none *)

(* A step that only gives up readings it had pending forgets them.         *)
LEMMA GivingUpForgets ==
    ASSUME Pending' \subseteq Pending, received' = received,
           lost' = lost \cup ((Pending \ Pending') \ received)
    PROVE  Delivery!Next
<1>. DEFINE S == Pending \ Pending'
<1>1. S \in SUBSET Pending /\ Pending' = Pending \ S
  OBVIOUS
<1>2. Delivery!Forget(S)
  BY <1>1 DEF Delivery!Forget
<1>. QED BY <1>1, <1>2 DEF Delivery!Next

(* A step that takes the reading in hand, and may give up others or it.    *)
LEMMA TakingAndGivingUp ==
    ASSUME hand \in Reading, hand \notin Known,
           Pending' \subseteq Pending \cup {hand}, received' = received,
           lost' = lost \cup (((Pending \cup {hand}) \ Pending') \ received)
    PROVE  Delivery!Next
<1>. DEFINE S == (Pending \cup {hand}) \ Pending'
<1>1. S \in SUBSET (Pending \cup {hand}) /\ Pending' = (Pending \cup {hand}) \ S
  OBVIOUS
<1>2. Delivery!TakeAndLose(hand, S)
  BY <1>1 DEF Delivery!TakeAndLose, Known
<1>. QED BY <1>1, <1>2 DEF Delivery!Next

(* What the broker receives was pending, and may stay so. *)
LEMMA BrokerDelivers ==
    ASSUME TypeOK, queue # <<>>, BrokerReceives(Head(queue)), UNCHANGED spool,
           queue' = queue \/ queue' = Tail(queue)
    PROVE  Delivery!Next
<1>. DEFINE r == Head(queue)
<1>1. r \in Reading /\ Elements(queue) = {r} \cup Elements(Tail(queue))
  BY ElementsHeadTail DEF TypeOK
<1>2. Pending' = Pending \/ Pending' = Pending \ {r}
  BY <1>1 DEF Pending, Records
<1>3. r \in Pending
  BY <1>1 DEF Pending
<1>4. Delivery!Deliver(r)
  BY <1>2, <1>3 DEF Delivery!Deliver, BrokerReceives
<1>. QED BY <1>1, <1>4 DEF Delivery!Next

LEMMA DeliveryInit == Init => Delivery!Init
<1>. SUFFICES ASSUME Init PROVE Pending = {}
  BY DEF Init, Delivery!Init
<1>. QED BY ElementsEmpty DEF Init, EmptyFile, Pending, Records

LEMMA DeliveryStep == DInv /\ [Next]_vars => [Delivery!Next]_(Delivery!vars)
<1>. SUFFICES ASSUME DInv, [Next]_vars
              PROVE  Delivery!Next \/ UNCHANGED <<Pending, received, lost>>
  BY DEF Delivery!vars
<1>. USE DEF loopVars, netVars, history, counters
<1>t. TypeOK /\ FlushCovers /\ Fresh
  BY DEF DInv, IInv
<1>a. spool \in File
  BY <1>t DEF TypeOK, File
<1>h. loopPc \in {"send", "spool"} => hand \in Reading /\ hand \notin Known
  <2>. SUFFICES ASSUME loopPc \in {"send", "spool"}
                PROVE  hand \in Reading /\ hand \notin Known
    OBVIOUS
  <2>1. hand \in Reading /\ hand.ts = clock /\ clock \in Int
    BY <1>t, HandIsReading DEF Fresh, TypeOK
  <2>2. \A r \in Known : r.ts < clock
    BY <1>t DEF Fresh
  <2>. QED BY <2>1, <2>2
<1>1. ASSUME NEW p \in Point, PublishReading(p)
      PROVE  UNCHANGED <<Pending, received, lost>>
  BY <1>1 DEF PublishReading, Pending, Records
<1>2. CASE Send
  <2>1. hand \in Reading /\ hand \notin Known
    BY <1>2, <1>h DEF Send
  <2>2. Elements(queue') = Elements(queue) \cup {hand}
    BY <1>2, <1>t, <2>1, ElementsAppend DEF Send, TypeOK
  <2>3. Pending' = Pending \cup {hand} /\ UNCHANGED <<received, lost>>
    BY <1>2, <2>2 DEF Send, Pending, Records
  <2>. QED BY <2>1, <2>3, TakingAndGivingUp
<1>3. CASE AppendLine
  <2>1. hand \in Reading /\ hand \notin Known
    BY <1>3, <1>h DEF AppendLine
  <2>2. Records' \subseteq Records \cup {hand}
    BY <1>3, <1>a, <2>1, WrittenFile DEF AppendLine, Records
  <2>3. UNCHANGED <<queue, received>>
    BY <1>3 DEF AppendLine
  <2>4. lost' = lost \cup ((Records \cup {hand}) \ (received \cup Pending'))
    BY <1>3, <2>3 DEF AppendLine, GiveUp
  <2>5. Elements(queue) \subseteq Pending'
    BY <2>3 DEF Pending
  <2>6. /\ Pending' \subseteq Pending \cup {hand}
        /\ lost' = lost \cup (((Pending \cup {hand}) \ Pending') \ received)
    BY <2>2, <2>3, <2>4, <2>5 DEF Pending
  <2>. QED BY <2>1, <2>3, <2>6, TakingAndGivingUp
<1>4. CASE AppendRaises
  <2>1. hand \in Reading /\ hand \notin Known
    BY <1>4, <1>h DEF AppendRaises
  <2>2. Records' \subseteq Records \cup {hand}
    BY <1>4, <1>a, <2>1, WrittenFile DEF AppendRaises, Records
  <2>3. UNCHANGED <<queue, received>>
    BY <1>4 DEF AppendRaises
  <2>4. lost' = lost \cup (Records \ (received \cup Pending'))
    BY <1>4, <2>3 DEF AppendRaises, GiveUp
  <2>5. Elements(queue) \subseteq Pending'
    BY <2>3 DEF Pending
  <2>6. CASE hand \in Records'
    <3>1. /\ Pending' \subseteq Pending \cup {hand}
          /\ lost' = lost \cup (((Pending \cup {hand}) \ Pending') \ received)
      BY <2>2, <2>3, <2>4, <2>5, <2>6 DEF Pending
    <3>. QED BY <2>1, <2>3, <3>1, TakingAndGivingUp
  <2>7. CASE hand \notin Records'
    <3>1. /\ Pending' \subseteq Pending
          /\ lost' = lost \cup ((Pending \ Pending') \ received)
      BY <2>2, <2>3, <2>4, <2>5, <2>7 DEF Pending
    <3>. QED BY <2>3, <3>1, GivingUpForgets
  <2>. QED BY <2>6, <2>7
<1>5. CASE Trim
  <2>1. Records' \subseteq Records
    BY <1>5, <1>a, NewestRecords DEF Trim, OverCap, Records, File
  <2>2. UNCHANGED <<queue, received>>
    BY <1>5 DEF Trim
  <2>3. lost' = lost \cup (Records \ (received \cup Pending'))
    BY <1>5, <2>2 DEF Trim, GiveUp
  <2>4. /\ Pending' \subseteq Pending
        /\ lost' = lost \cup ((Pending \ Pending') \ received)
    BY <2>1, <2>2, <2>3 DEF Pending
  <2>. QED BY <2>2, <2>4, GivingUpForgets
(* The record is in the file until the flush is done: nothing new pending. *)
<1>6. CASE FlushPublish
  <2>1. /\ next \in DOMAIN replay /\ replay[next] \in Reading
        /\ queue \in Seq(Reading) /\ replay = spool.records
    BY <1>6, <1>t DEF FlushPublish, ReplayDone, TypeOK, FlushCovers
  <2>2. Elements(queue') = Elements(queue) \cup {replay[next]}
    BY <1>6, <2>1, ElementsAppend DEF FlushPublish
  <2>3. replay[next] \in Records
    BY <2>1 DEF Records, Elements
  <2>. QED BY <1>6, <2>2, <2>3 DEF FlushPublish, Pending, Records
(* Only what the broker has, and the queue has not, stops being pending.   *)
<1>7. CASE FlushRemove
  <2>1. replay = spool.records /\ next = Len(replay) + 1 /\ replay \in Seq(Reading)
    BY <1>7, <1>t DEF FlushRemove, ReplayDone, FlushCovers, TypeOK
  <2>2. \A i \in DOMAIN replay : replay[i] \in Elements(queue) \cup received
    BY <1>7, <1>t, <2>1 DEF FlushRemove, FlushCovers
  <2>3. Records \subseteq Elements(queue) \cup received
    BY <2>1, <2>2 DEF Records, Elements
  <2>4. Pending' = Elements(queue) /\ UNCHANGED <<received, lost>>
    BY <1>7, ElementsEmpty DEF FlushRemove, Pending, Records, EmptyFile
  <2>5. /\ Pending' \subseteq Pending
        /\ lost' = lost \cup ((Pending \ Pending') \ received)
    BY <2>3, <2>4 DEF Pending
  <2>. QED BY <2>4, <2>5, GivingUpForgets
<1>8. CASE Deliver
  BY <1>8, <1>t, BrokerDelivers DEF Deliver
<1>9. CASE DeliverUnacked
  BY <1>9, <1>t, BrokerDelivers DEF DeliverUnacked
<1>10. CASE Crash
  <2>1. PICK how \in {"none", "whole", "partial"} :
            /\ how # "none" => loopPc = "spool"
            /\ spool' = Written(hand, how)
    BY <1>10 DEF Crash
  <2>2. /\ queue' = <<>> /\ received' = received
        /\ lost' = lost \cup (Pending \ (received \cup Pending'))
    BY <1>10 DEF Crash, ProcessStart, GiveUp
  <2>3. Pending' = Records'
    BY <2>2, ElementsEmpty DEF Pending
  <2>4. CASE Records' \subseteq Records
    <3>1. /\ Pending' \subseteq Pending
          /\ lost' = lost \cup ((Pending \ Pending') \ received)
      BY <2>2, <2>3, <2>4 DEF Pending
    <3>. QED BY <2>2, <3>1, GivingUpForgets
  <2>5. CASE ~(Records' \subseteq Records)
    <3>1. how # "none"
      BY <2>1, <2>5 DEF Written, Records
    <3>2. hand \in Reading /\ hand \notin Known
      BY <2>1, <3>1, <1>h
    <3>3. Records' \subseteq Records \cup {hand}
      BY <2>1, <3>2, <1>a, WrittenFile DEF Records
    <3>4. /\ Pending' \subseteq Pending \cup {hand}
          /\ lost' = lost \cup (((Pending \cup {hand}) \ Pending') \ received)
      BY <2>2, <2>3, <2>5, <3>3 DEF Pending
    <3>. QED BY <2>2, <3>2, <3>4, TakingAndGivingUp
  <2>. QED BY <2>4, <2>5
<1>11. CASE SendRaises \/ Connect \/ FlushStart \/ FlushNothing
            \/ FlushDisconnected \/ FlushRaises \/ FlushFileRaises \/ TrimRaises
            \/ Disconnect \/ UNCHANGED vars
  BY <1>11 DEF SendRaises, Connect, FlushStart, FlushNothing,
     FlushDisconnected, FlushRaises, FlushFileRaises, TrimRaises, Disconnect,
     vars, Pending, Records
<1>. QED
  BY <1>1, <1>2, <1>3, <1>4, <1>5, <1>6, <1>7, <1>8, <1>9, <1>10, <1>11
     DEF Next, LoopThread, NetworkThread, Flush

(* The sink keeps the promise of ReadingDelivery: a reading it has taken   *)
(* stays pending until the broker has it or the loss of it is recorded,    *)
(* through every interleaving of the two threads, outage and kill.         *)
THEOREM SinkImplementsDelivery == Spec => DeliverySpec
<1>. QED
  BY DeliveryInit, DeliveryStep, DeliveryInvariant, PTL
     DEF Spec, DeliverySpec, Delivery!Spec

-----------------------------------------------------------------------------
(* The spool is in the order the readings were taken in, which is why its  *)
(* last rows are its newest.                                               *)

Sorted(s) == \A i, j \in DOMAIN s : i < j => s[i].ts < s[j].ts

LEMMA SortedAppend ==
    ASSUME NEW s \in Seq(Reading), NEW r \in Reading, Sorted(s),
           \A e \in Elements(s) : e.ts < r.ts
    PROVE  Sorted(Append(s, r))
<1>1. /\ Len(s) \in Nat /\ DOMAIN s = 1..Len(s)
      /\ DOMAIN Append(s, r) = 1..(Len(s) + 1)
      /\ \A i \in 1..Len(s) : Append(s, r)[i] = s[i]
      /\ Append(s, r)[Len(s) + 1] = r
  OBVIOUS
<1>2. \A i \in 1..Len(s) : s[i].ts < r.ts
  BY <1>1 DEF Elements
<1>3. ASSUME NEW i \in 1..(Len(s) + 1), NEW j \in 1..(Len(s) + 1), i < j
      PROVE  Append(s, r)[i].ts < Append(s, r)[j].ts
  <2>1. i \in 1..Len(s) /\ (j \in 1..Len(s) \/ j = Len(s) + 1)
    BY <1>1, <1>3
  <2>. QED BY <1>1, <1>2, <1>3, <2>1 DEF Sorted
<1>. QED BY <1>1, <1>3 DEF Sorted

(* So is every part of it. *)
LEMMA SortedPart ==
    ASSUME NEW s \in Seq(Reading), Sorted(s),
           NEW m \in Nat \ {0}, NEW n \in Nat, n <= Len(s)
    PROVE  Sorted(SubSeq(s, m, n))
<1>1. Len(s) \in Nat /\ DOMAIN s = 1..Len(s)
  OBVIOUS
<1>2. \A i \in m..n : s[i] \in Reading
  BY <1>1
<1>3. /\ SubSeq(s, m, n) \in Seq(Reading)
      /\ Len(SubSeq(s, m, n)) = IF m <= n THEN n - m + 1 ELSE 0
      /\ \A i \in 1..(n - m + 1) : SubSeq(s, m, n)[i] = s[m + i - 1]
  BY <1>2, SubSeqProperties
<1>4. DOMAIN SubSeq(s, m, n) = 1..(IF m <= n THEN n - m + 1 ELSE 0)
  BY <1>3
<1>5. ASSUME NEW i \in DOMAIN SubSeq(s, m, n)
      PROVE  i \in 1..(n - m + 1) /\ m + i - 1 \in DOMAIN s
  BY <1>1, <1>4
<1>6. ASSUME NEW i \in DOMAIN SubSeq(s, m, n), NEW j \in DOMAIN SubSeq(s, m, n), i < j
      PROVE  SubSeq(s, m, n)[i].ts < SubSeq(s, m, n)[j].ts
  <2>1. /\ i \in 1..(n - m + 1) /\ m + i - 1 \in DOMAIN s
        /\ j \in 1..(n - m + 1) /\ m + j - 1 \in DOMAIN s
    BY <1>5
  <2>2. m + i - 1 < m + j - 1
    BY <1>6, <2>1
  <2>. QED BY <1>3, <2>1, <2>2 DEF Sorted
<1>. QED BY <1>6 DEF Sorted

(* However much of a line a write leaves in the file. *)
LEMMA WrittenSorted ==
    ASSUME spool \in File, Sorted(spool.records), NEW r \in Reading,
           NEW how \in {"line", "whole", "partial", "none"},
           \A e \in Records : e.ts < r.ts
    PROVE  Sorted(Written(r, how).records)
<1>1. spool.records \in Seq(Reading) /\ Len(spool.records) \in Nat
  BY DEF File
<1>2. Intact \in Seq(Reading) /\ Elements(Intact) \subseteq Records /\ Sorted(Intact)
  <2>1. CASE spool.tail = "whole" /\ spool.records # <<>>
    <3>1. Len(spool.records) - 1 \in Nat
      BY <1>1, <2>1, EmptySeq
    <3>2. Intact = SubSeq(spool.records, 1, Len(spool.records) - 1)
      BY <2>1 DEF Intact
    <3>3. \A i \in 1..(Len(spool.records) - 1) : spool.records[i] \in Reading
      BY <1>1
    <3>4. /\ Intact \in Seq(Reading)
          /\ Len(Intact) = IF 1 <= Len(spool.records) - 1
                           THEN Len(spool.records) - 1 ELSE 0
          /\ \A i \in 1..(Len(spool.records) - 1) : Intact[i] = spool.records[i]
      BY <3>1, <3>2, <3>3, SubSeqProperties
    <3>5. \A i \in DOMAIN Intact :
             i \in DOMAIN spool.records /\ Intact[i] = spool.records[i]
      BY <3>4, <1>1
    <3>6. Sorted(Intact)
      BY <1>1, <3>1, <3>2, SortedPart
    <3>. QED BY <3>4, <3>5, <3>6 DEF Elements, Records
  <2>2. CASE spool.tail = "whole" /\ spool.records = <<>>
    <3>1. SubSeq(<<>>, 1, -1) = <<>>
      OBVIOUS
    <3>2. Intact = <<>>
      BY <2>2, <3>1 DEF Intact
    <3>. QED BY <3>2, ElementsEmpty DEF Sorted
  <2>3. CASE spool.tail # "whole"
    BY <2>3, <1>1 DEF Intact, Records
  <2>. QED BY <2>1, <2>2, <2>3
<1>3. Sorted(Append(Intact, r))
  BY <1>2, SortedAppend
<1>4. Written(r, how).records \in {Append(Intact, r), Intact, spool.records}
  BY DEF Written
<1>. QED BY <1>2, <1>3, <1>4

OrderInv == DInv /\ Sorted(spool.records)

LEMMA SortedStep == OrderInv /\ [Next]_vars => Sorted(spool.records)'
<1>. SUFFICES ASSUME OrderInv, [Next]_vars PROVE Sorted(spool'.records)
  OBVIOUS
<1>. USE DEF loopVars, netVars, history, counters
<1>t. TypeOK /\ Fresh /\ Sorted(spool.records)
  BY DEF OrderInv, DInv, IInv
<1>a. spool \in File
  BY <1>t DEF TypeOK, File
<1>h. loopPc = "spool" => hand \in Reading /\ \A e \in Records : e.ts < hand.ts
  BY <1>t, HandIsReading DEF Fresh, Known, Pending
<1>1. CASE AppendLine
  BY <1>1, <1>t, <1>a, <1>h, WrittenSorted DEF AppendLine
<1>2. CASE AppendRaises
  <2>1. PICK how \in {"whole", "partial", "none"} : spool' = Written(hand, how)
    BY <1>2 DEF AppendRaises
  <2>. QED BY <1>2, <2>1, <1>t, <1>a, <1>h, WrittenSorted DEF AppendRaises
<1>3. CASE Trim
  <2>1. CASE OverCap
    <3>1. /\ spool.records \in Seq(Reading) /\ Len(spool.records) \in Nat
          /\ Len(spool.records) - MaxSpoolRows + 1 \in Nat \ {0}
      BY <1>a, <2>1, BoundAssumption DEF File, OverCap
    <3>2. Sorted(Newest(spool.records))
      BY <3>1, <1>t, SortedPart DEF Newest
    <3>. QED BY <1>3, <2>1, <3>2 DEF Trim
  <2>2. CASE ~OverCap
    BY <1>3, <2>2, <1>t DEF Trim
  <2>. QED BY <2>1, <2>2
<1>4. CASE FlushRemove
  BY <1>4 DEF FlushRemove, EmptyFile, Sorted
<1>5. CASE Crash
  <2>1. PICK how \in {"none", "whole", "partial"} :
            /\ how # "none" => loopPc = "spool"
            /\ spool' = Written(hand, how)
    BY <1>5 DEF Crash
  <2>2. CASE how = "none"
    BY <2>1, <2>2, <1>t DEF Written
  <2>3. CASE how # "none"
    BY <2>1, <2>3, <1>t, <1>a, <1>h, WrittenSorted
  <2>. QED BY <2>2, <2>3
<1>6. ASSUME NEW p \in Point, PublishReading(p) PROVE UNCHANGED spool
  BY <1>6 DEF PublishReading
<1>7. CASE Send \/ SendRaises \/ Connect \/ FlushStart \/ FlushNothing \/ FlushPublish
           \/ FlushDisconnected \/ FlushRaises \/ FlushFileRaises \/ TrimRaises
           \/ Deliver \/ DeliverUnacked \/ Disconnect \/ UNCHANGED vars
  BY <1>7, <1>t DEF Send, SendRaises, Connect, FlushStart, FlushNothing, FlushPublish,
     FlushDisconnected, FlushRaises, FlushFileRaises, TrimRaises, Deliver,
     DeliverUnacked, Disconnect, vars
<1>. QED
  BY <1>1, <1>2, <1>3, <1>4, <1>5, <1>6, <1>7, <1>t
     DEF Next, LoopThread, NetworkThread, Flush

LEMMA OrderInvariant == Spec => []OrderInv
<1>1. Init => Sorted(spool.records)
  BY DEF Init, EmptyFile, Sorted
<1>2. Sorted(spool.records) /\ DInv /\ [Next]_vars => Sorted(spool.records)'
  BY SortedStep DEF OrderInv
<1>3. DInv /\ Sorted(spool.records) => OrderInv
  BY DEF OrderInv
<1>. QED BY <1>1, <1>2, <1>3, DeliveryInvariant, PTL DEF Spec

(* Of the rows of an ordered file the cap leaves the newest. *)
LEMMA NewestAreNewer ==
    ASSUME NEW s \in Seq(Reading), Sorted(s), Len(s) > MaxSpoolRows,
           NEW old \in Elements(s) \ Elements(Newest(s)),
           NEW kept \in Elements(Newest(s))
    PROVE  old.ts < kept.ts
<1>. DEFINE low == Len(s) - MaxSpoolRows + 1
<1>1. /\ MaxSpoolRows \in Nat \ {0} /\ Len(s) \in Nat /\ DOMAIN s = 1..Len(s)
      /\ low \in 1..Len(s)
  BY BoundAssumption
<1>2. \A i \in low..Len(s) : s[i] \in Reading
  BY <1>1
<1>3. /\ Newest(s) \in Seq(Reading)
      /\ Len(Newest(s)) = Len(s) - low + 1
      /\ \A i \in 1..(Len(s) - low + 1) : Newest(s)[i] = s[low + i - 1]
  BY <1>1, <1>2, SubSeqProperties DEF Newest
<1>4. DOMAIN Newest(s) = 1..(Len(s) - low + 1)
  BY <1>3
<1>5. PICK k \in 1..(Len(s) - low + 1) : kept = s[low + k - 1]
  BY <1>3, <1>4 DEF Elements
<1>6. PICK i \in 1..Len(s) : old = s[i]
  BY <1>1 DEF Elements
<1>7. i < low
  <2>1. SUFFICES ASSUME i >= low PROVE FALSE
    BY <1>1
  <2>2. i - low + 1 \in 1..(Len(s) - low + 1) /\ low + (i - low + 1) - 1 = i
    BY <1>1, <2>1
  <2>3. Newest(s)[i - low + 1] = old
    BY <1>3, <1>6, <2>2
  <2>. QED BY <1>4, <2>2, <2>3 DEF Elements
<1>8. low + k - 1 \in 1..Len(s) /\ i < low + k - 1
  BY <1>1, <1>7
<1>. QED BY <1>1, <1>5, <1>6, <1>8 DEF Sorted

(* An append past the cap costs the oldest readings of the spool: what a   *)
(* trim drops is older than all it keeps (mqtt_sink.py:68-71).             *)
THEOREM CapEvictsOldest == Spec => EvictsOldest
<1>1. ASSUME OrderInv, [Next]_vars, loopPc = "trim", loopPc' = "idle",
             NEW old \in Records \ Records', NEW kept \in Records'
      PROVE  old.ts < kept.ts
  <2>t. TypeOK /\ spool \in File /\ Sorted(spool.records)
    BY <1>1 DEF OrderInv, DInv, IInv, TypeOK, File
  <2>1. spool' # spool
    BY DEF Records
  <2>2. lock = "loop" /\ netPc # "flush"
    BY <1>1, <2>t DEF TypeOK
  <2>3. ~Crash
    <3>1. Crash => spool' = spool
      BY <1>1 DEF Crash, Written
    <3>. QED BY <2>1, <3>1
  <2>4. Trim
    BY <1>1, <2>1, <2>2, <2>3 DEF Next, LoopThread, NetworkThread, Flush,
       PublishReading, Send, SendRaises, AppendLine, AppendRaises, Connect,
       FlushStart, FlushNothing, FlushPublish, FlushDisconnected, FlushRaises,
       FlushRemove, FlushFileRaises, TrimRaises, Deliver, DeliverUnacked,
       Disconnect, vars
  <2>5. OverCap /\ spool'.records = Newest(spool.records)
    BY <2>1, <2>4 DEF Trim
  <2>6. spool.records \in Seq(Reading) /\ Len(spool.records) > MaxSpoolRows
    BY <2>t, <2>5 DEF File, OverCap
  <2>. QED BY <2>t, <2>5, <2>6, NewestAreNewer DEF Records
<1>2. OrderInv /\ [Next]_vars =>
         [loopPc = "trim" /\ loopPc' = "idle" =>
             \A old \in Records \ Records' : \A kept \in Records' :
                 old.ts < kept.ts]_vars
  BY <1>1
<1>. QED BY <1>2, OrderInvariant, PTL DEF Spec, EvictsOldest
=============================================================================
