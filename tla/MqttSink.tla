------------------------------ MODULE MqttSink ------------------------------
(***************************************************************************)
(* fbf/mqtt_sink.py: publish_reading and the spool that carries readings   *)
(* over an outage.                                                         *)
(*                                                                         *)
(* Two threads share the spool file under _spool_lock.  The asyncio loop   *)
(* thread calls publish_reading: it looks at is_connected() first and only *)
(* then sends or spools.  paho's network thread calls _flush_spool from    *)
(* on_connect.  client.publish only puts a message into paho's in-memory   *)
(* queue; the network thread sends from it in order, keeps what has not    *)
(* been acknowledged over a reconnect, and loses all of it with the        *)
(* process.  paho and the broker are modelled from how mqtt_sink uses them.*)
(*                                                                         *)
(* A line of the file no reader can parse has one effect only, and only    *)
(* while it is the unterminated last one: the next line is glued to it.    *)
(* So the file is the sequence of its readable records and the state of    *)
(* its tail.                                                               *)
(***************************************************************************)
EXTENDS Integers, Sequences, FiniteSets

CONSTANTS
    Point,              \* topics readings are published on
    Wildcard,           \* those whose label has a + or #: paho refuses them
    MaxSpoolRows,       \* MAX_SPOOL_ROWS
    TornWrites,         \* whether a kill may stop a write half-way
    WriteErrors,        \* whether file operations may fail with an OSError
    MaxReadings,        \* bound: readings ever published
    MaxDisconnects,     \* bound: connections lost
    MaxCrashes          \* bound: hard kills of the process

ASSUME PointAssumption == Wildcard \subseteq Point
ASSUME BoundAssumption ==
    /\ MaxSpoolRows \in Nat \ {0}
    /\ MaxReadings \in Nat
    /\ MaxDisconnects \in Nat
    /\ MaxCrashes \in Nat
    /\ TornWrites \in BOOLEAN /\ WriteErrors \in BOOLEAN

VARIABLES
    (* the asyncio loop thread, inside publish_reading *)
    loopPc,             \* "idle", "send", "spool", "trim"
    hand,               \* the reading it is publishing
    clock,              \* time.time(): the ts of the latest reading
    (* paho's network thread *)
    netPc,              \* "idle", "on_connect", "flush", or "dead"
    replay,             \* _flush_spool's `records'
    next,               \* index of the record it publishes next
    (* shared by the threads *)
    connected,          \* client.is_connected()
    queue,              \* paho's queue of outgoing messages
    lock,               \* who holds _spool_lock
    spool,              \* the spool file
    (* the broker *)
    retained,           \* ts of the retained message of each point, 0 for none
    (* history, and the counters of the bounds *)
    taken,              \* readings that have got into the spool or the queue
    received,           \* readings the broker has had
    lost,               \* readings given up by the cap, a torn line or a crash
    untrimmed,          \* rows added since the last trim or removal that went
                        \* through, by appends whose own trim did not
    disconnects, crashes

loopVars == <<loopPc, hand, clock>>
netVars  == <<netPc, replay, next>>
history  == <<taken, received, lost>>
counters == <<untrimmed, disconnects, crashes>>
vars == <<loopVars, netVars, connected, queue, lock, spool, retained,
          history, counters>>

Reading == [point : Point, ts : 1..MaxReadings]
Nothing == [point |-> "none", ts |-> 0]
Elements(s) == {s[i] : i \in DOMAIN s}
Records == Elements(spool.records)

EmptyFile == [records |-> <<>>, tail |-> "clean"]

(* The types, with the lock in the hands of the thread that is inside.      *)
TypeOK ==
    /\ loopPc \in {"idle", "send", "spool", "trim"}
    /\ hand \in Reading \cup {Nothing}
    /\ loopPc = "idle" <=> hand = Nothing
    /\ clock \in 0..MaxReadings
    /\ netPc \in {"idle", "on_connect", "flush", "dead"}
    /\ replay \in Seq(Reading)
    /\ next \in 1..(Len(replay) + 1)
    /\ connected \in BOOLEAN
    /\ queue \in Seq(Reading)
    /\ lock \in {"free", "loop", "net"}
    /\ lock = "loop" <=> loopPc = "trim"
    /\ lock = "net" <=> netPc = "flush"
    /\ spool \in [records : Seq(Reading), tail : {"clean", "partial", "whole"}]
    /\ retained \in [Point -> 0..MaxReadings]
    /\ taken \subseteq Reading
    /\ received \subseteq Reading
    /\ lost \subseteq Reading
    /\ untrimmed \in Nat
    /\ disconnects \in 0..MaxDisconnects
    /\ crashes \in 0..MaxCrashes

(* What a starting process finds: it has called client.connect and         *)
(* loop_start, and the broker's CONNACK has not arrived yet.               *)
ProcessStart ==
    /\ loopPc' = "idle" /\ hand' = Nothing
    /\ netPc' = "idle" /\ replay' = <<>> /\ next' = 1
    /\ connected' = FALSE /\ queue' = <<>> /\ lock' = "free"

Init ==
    /\ loopPc = "idle" /\ hand = Nothing /\ clock = 0
    /\ netPc = "idle" /\ replay = <<>> /\ next = 1
    /\ connected = FALSE /\ queue = <<>> /\ lock = "free"
    /\ spool = EmptyFile
    /\ retained = [p \in Point |-> 0]
    /\ taken = {} /\ received = {} /\ lost = {}
    /\ untrimmed = 0 /\ disconnects = 0 /\ crashes = 0

-----------------------------------------------------------------------------
(* The spool file *)

(* Records no one will read again once something is written after the      *)
(* tail: a last record that is whole but has no newline shares its line    *)
(* with what follows.                                                      *)
Intact == IF spool.tail = "whole"
          THEN SubSeq(spool.records, 1, Len(spool.records) - 1)
          ELSE spool.records

(* The file after `f.write(json.dumps(record) + "\n")', when all of the    *)
(* line, all but its newline, a part of it or none of it got there.        *)
Written(r, how) ==
    CASE how = "line" ->
           [records |-> IF spool.tail = "clean" THEN Append(Intact, r) ELSE Intact,
            tail |-> "clean"]
      [] how = "whole" ->
           IF spool.tail = "clean"
           THEN [records |-> Append(Intact, r), tail |-> "whole"]
           ELSE [records |-> Intact, tail |-> "partial"]
      [] how = "partial" -> [records |-> Intact, tail |-> "partial"]
      [] OTHER -> spool

\* Faulty: keeps the oldest instead.
Oldest(records) == SubSeq(records, 1, MaxSpoolRows)
(* The last MAX_SPOOL_ROWS records, which the cap keeps. *)
Newest(records) ==
    SubSeq(records, Len(records) - MaxSpoolRows + 1, Len(records))

\* Faulty: lets one row more than the cap stay.
OverCapLate == Len(spool.records) > MaxSpoolRows + 1
OverCap == Len(spool.records) > MaxSpoolRows

(* with _spool_lock: *)
Acquire(thread) == lock = "free" /\ lock' = thread
Release(thread) == lock = thread /\ lock' = "free"

Pending == Records \cup Elements(queue)

(* The readings of S that are nowhere any more are lost, unless the broker *)
(* has them.                                                               *)
GiveUp(S) == lost' = lost \cup (S \ (received \cup Pending'))

-----------------------------------------------------------------------------
(* The loop thread: publish_reading *)

(* publish_reading takes the time and asks is_connected(); what it does    *)
(* next rests on this answer, which may be out of date by then.            *)
PublishReading(p) ==
    /\ loopPc = "idle"
    /\ clock < MaxReadings
    /\ clock' = clock + 1
    /\ hand' = [point |-> p, ts |-> clock + 1]
    /\ loopPc' = IF connected THEN "send" ELSE "spool"
    /\ UNCHANGED <<netVars, connected, queue, lock, spool, retained,
                   history, counters>>

PublishReturns == loopPc' = "idle" /\ hand' = Nothing

(* _publish: queued at once, whatever the connection is like by now. *)
Send ==
    /\ loopPc = "send"
    /\ hand.point \notin Wildcard
    /\ queue' = Append(queue, hand)
    /\ taken' = taken \cup {hand}
    /\ PublishReturns
    /\ UNCHANGED <<clock, netVars, connected, lock, spool, retained,
                   received, lost, counters>>

(* client.publish raises ValueError, which is the caller's to handle. *)
SendRaises ==
    /\ loopPc = "send"
    /\ hand.point \in Wildcard
    /\ PublishReturns
    /\ UNCHANGED <<clock, netVars, connected, queue, lock, spool, retained,
                   history, counters>>

(* _spool_append, up to the newline. *)
AppendLine ==
    /\ loopPc = "spool"
    /\ Acquire("loop")
    /\ spool' = Written(hand, "line")
    /\ taken' = taken \cup {hand}
    /\ loopPc' = "trim"
    /\ UNCHANGED <<hand, clock, netVars, connected, queue, retained,
                   received, counters>>
    /\ GiveUp(Records \cup {hand})

(* A write error: the OSError leaves the `with' block and publish_reading. *)
AppendRaises ==
    /\ WriteErrors
    /\ loopPc = "spool"
    /\ lock = "free"
    /\ \E how \in {"whole", "partial", "none"} :
          /\ spool' = Written(hand, how)
          /\ taken' = taken \cup (Records' \ Records)
          /\ untrimmed' = IF how = "whole" THEN untrimmed + 1 ELSE untrimmed
    /\ PublishReturns
    /\ UNCHANGED <<clock, netVars, connected, queue, lock, retained,
                   received, disconnects, crashes>>
    /\ GiveUp(Records)

(* The rest of _spool_append, still under the lock. *)
Trim ==
    /\ loopPc = "trim"
    /\ spool' = IF OverCap
                THEN [records |-> Newest(spool.records), tail |-> "clean"]
                ELSE spool
    /\ untrimmed' = 0
    /\ Release("loop")
    /\ PublishReturns
    /\ UNCHANGED <<clock, netVars, connected, queue, retained, taken,
                   received, disconnects, crashes>>
    /\ GiveUp(Records)

(* Reading the file back fails, or writing the shorter one does, of which  *)
(* os.replace comes last: the OSError leaves publish_reading, and the new  *)
(* row stays.                                                              *)
TrimRaises ==
    /\ WriteErrors
    /\ loopPc = "trim"
    /\ untrimmed' = untrimmed + 1
    /\ Release("loop")
    /\ PublishReturns
    /\ UNCHANGED <<clock, netVars, connected, queue, spool, retained,
                   history, disconnects, crashes>>

-----------------------------------------------------------------------------
(* paho's network thread *)

(* CONNACK: is_connected() is true from here on; on_connect comes next. *)
Connect ==
    /\ netPc = "idle"
    /\ ~connected
    /\ connected' = TRUE
    /\ netPc' = "on_connect"
    /\ UNCHANGED <<loopVars, replay, next, queue, lock, spool, retained,
                   history, counters>>

(* _flush_spool takes the lock and reads the file. *)
FlushStart ==
    /\ netPc = "on_connect"
    /\ spool.records # <<>>
    /\ Acquire("net")
    /\ replay' = spool.records
    /\ next' = 1
    /\ netPc' = "flush"
    /\ UNCHANGED <<loopVars, connected, queue, spool, retained, history, counters>>

(* `if not records: return'.  A file of nothing but garbage stays. *)
FlushNothing ==
    /\ netPc = "on_connect"
    /\ spool.records = <<>>
    /\ lock = "free"
    /\ netPc' = "idle"
    /\ UNCHANGED <<loopVars, replay, next, connected, queue, lock, spool,
                   retained, history, counters>>

\* Faulty: leaves the last record out.
ReplayDoneEarly == next >= Len(replay)
(* The `for' over the records is through. *)
ReplayDone == next > Len(replay)

\* Faulty: an early return that forgets the lock.
FlushReturnsLocked == netPc' = "idle" /\ UNCHANGED lock
FlushReturns == Release("net") /\ netPc' = "idle"

(* Each turn of the `for' asks is_connected() and publishes the record. *)
FlushPublish ==
    /\ netPc = "flush"
    /\ ~ReplayDone
    /\ connected
    /\ replay[next].point \notin Wildcard
    /\ queue' = Append(queue, replay[next])
    /\ next' = next + 1
    /\ UNCHANGED <<loopVars, netPc, replay, connected, lock, spool, retained,
                   history, counters>>

(* The connection went away in mid-flush: the file keeps every record,     *)
(* those just queued included.                                             *)
FlushDisconnected ==
    /\ netPc = "flush"
    /\ ~ReplayDone
    /\ ~connected
    /\ FlushReturns
    /\ UNCHANGED <<loopVars, replay, next, connected, queue, spool, retained,
                   history, counters>>

(* A spooled record paho refuses: the ValueError leaves _flush_spool (the  *)
(* lock is released) and on_connect, and ends the network thread.          *)
(* Nothing tells is_connected().                                           *)
FlushRaises ==
    /\ netPc = "flush"
    /\ ~ReplayDone
    /\ connected
    /\ replay[next].point \in Wildcard
    /\ Release("net")
    /\ netPc' = "dead"
    /\ UNCHANGED <<loopVars, replay, next, connected, queue, spool, retained,
                   history, counters>>

(* Every record is in paho's queue: os.remove(path). *)
FlushRemove ==
    /\ netPc = "flush"
    /\ ReplayDone
    /\ spool' = EmptyFile
    /\ untrimmed' = 0
    /\ FlushReturns
    /\ UNCHANGED <<loopVars, replay, next, connected, queue, retained,
                   history, disconnects, crashes>>

(* Reading the file fails, or removing it when every record is queued: the *)
(* OSError ends the network thread as FlushRaises's error does.            *)
FlushFileRaises ==
    /\ WriteErrors
    /\ \/ netPc = "on_connect" /\ lock = "free" /\ UNCHANGED lock
       \/ netPc = "flush" /\ ReplayDone /\ Release("net")
    /\ netPc' = "dead"
    /\ UNCHANGED <<loopVars, replay, next, connected, queue, spool, retained,
                   history, counters>>

(* The network thread sends the head of the queue, the broker retains it,  *)
(* and the PUBACK comes back.                                              *)
BrokerReceives(r) ==
    /\ received' = received \cup {r}
    /\ retained' = [retained EXCEPT ![r.point] = r.ts]
    /\ UNCHANGED <<taken, lost>>

Deliver ==
    /\ connected
    /\ netPc = "idle"
    /\ queue # <<>>
    /\ BrokerReceives(Head(queue))
    /\ queue' = Tail(queue)
    /\ UNCHANGED <<loopVars, netVars, connected, lock, spool, counters>>

LinkLost ==
    /\ disconnects < MaxDisconnects
    /\ connected' = FALSE
    /\ disconnects' = disconnects + 1
    /\ UNCHANGED <<untrimmed, crashes>>

(* The link breaks before the PUBACK: paho sends the message again. *)
DeliverUnacked ==
    /\ connected
    /\ netPc = "idle"
    /\ queue # <<>>
    /\ BrokerReceives(Head(queue))
    /\ LinkLost
    /\ UNCHANGED <<loopVars, netVars, queue, lock, spool>>

Disconnect ==
    /\ connected
    /\ netPc # "dead"
    /\ LinkLost
    /\ UNCHANGED <<loopVars, netVars, queue, lock, spool, retained, history>>

-----------------------------------------------------------------------------
(* A hard kill and the restart.  The file survives, with whatever part of  *)
(* a line being appended reached it; the queue does not.                   *)
Crash ==
    /\ crashes < MaxCrashes
    /\ crashes' = crashes + 1
    /\ \E how \in {"none", "whole", "partial"} :
          /\ how # "none" => TornWrites /\ loopPc = "spool" /\ lock = "free"
          /\ spool' = Written(hand, how)
          /\ taken' = taken \cup (Records' \ Records)
          /\ untrimmed' = IF how = "whole" \/ loopPc = "trim"
                          THEN untrimmed + 1 ELSE untrimmed
    /\ ProcessStart
    /\ UNCHANGED <<clock, retained, received, disconnects>>
    /\ GiveUp(Pending)

-----------------------------------------------------------------------------
LoopThread ==
    \/ Send
    \/ SendRaises
    \/ AppendLine
    \/ AppendRaises
    \/ Trim
    \/ TrimRaises

Flush ==
    \/ FlushStart
    \/ FlushNothing
    \/ FlushPublish
    \/ FlushDisconnected
    \/ FlushRaises
    \/ FlushRemove
    \/ FlushFileRaises

NetworkThread ==
    \/ Connect
    \/ Flush
    \/ Deliver

Next ==
    \/ \E p \in Point : PublishReading(p)
    \/ LoopThread
    \/ NetworkThread
    \/ DeliverUnacked
    \/ Disconnect
    \/ Crash

Spec == Init /\ [][Next]_vars

(* The operating system runs both threads, a connection that stays up      *)
(* sends what is queued, and paho reconnects.  Nothing obliges the         *)
(* program to publish, the link to break or the process to die.            *)
FairSpec ==
    /\ Spec
    /\ WF_vars(Send \/ SendRaises \/ AppendLine \/ Trim)
    /\ WF_vars(Connect)
    /\ WF_vars(Flush)
    /\ WF_vars(Deliver)

-----------------------------------------------------------------------------
(* Properties *)

(* Every reading the sink has taken is with the broker, or can still be    *)
(* sent, or was given up for one of the three known causes: neither a      *)
(* flush that removes the file (mqtt_sink.py:85) nor the two threads'      *)
(* interleaving loses one on its own.                                      *)
NoSilentLoss == taken \subseteq received \cup Pending \cup lost

(* While a flush is under way the file holds exactly what it replays       *)
(* (the lock keeps appends out), and what it has passed is in the queue or *)
(* with the broker: this is what makes the final os.remove safe.           *)
FlushCovers ==
    netPc = "flush" =>
        /\ replay = spool.records
        /\ \A i \in 1..(next - 1) :
              replay[i] \in Elements(queue) \cup received

(* A trim that goes through brings the spool back to MAX_SPOOL_ROWS        *)
(* whatever was left above the cap before it: only appends whose own trim  *)
(* failed (mqtt_sink.py:69-71 raises after the row is in the file), or was *)
(* never reached by a failed write or a kill, since the last one that went *)
(* through take it further, each by one row, besides the row being added.  *)
SpoolBounded ==
    Len(spool.records) <=
        MaxSpoolRows + untrimmed + (IF lock = "loop" THEN 1 ELSE 0)

(* An append past the cap costs the oldest reading of the spool, never a   *)
(* newer one: what Trim drops is older than what it keeps.                 *)
EvictsOldest ==
    [][loopPc = "trim" /\ loopPc' = "idle" =>
          \A old \in Records \ Records' : \A kept \in Records' :
              old.ts < kept.ts]_vars

(* The abstract specification of the sink. *)
Delivery == INSTANCE ReadingDelivery WITH
    pending <- Pending, delivered <- received
DeliverySpec == Delivery!Spec

(* A flush that holds the lock never blocks publish_reading, and with it   *)
(* the asyncio loop and every poll task, for good.                         *)
PublishReturnsEventually == loopPc # "idle" ~> loopPc = "idle"

(* What is spooled when a connection comes up reaches the broker, unless   *)
(* that connection is lost again (or the process dies, and it with it),    *)
(* the cap evicts it before the flush has the lock, or a record paho       *)
(* refuses or a file operation that fails ends the network thread.         *)
SpoolReplayed ==
    \A r \in Reading :
        (netPc = "on_connect" /\ connected /\ r \in Records)
            ~> (r \in received \cup lost \/ ~connected \/ netPc = "dead")

-----------------------------------------------------------------------------
(* What the repository says of the sink, and the code does not do *)

Quiet == connected /\ netPc = "idle" /\ loopPc = "idle"

(* docs/adding-a-new-source.md:13-14: "a fresh subscriber immediately gets *)
(* the last known value per point".  With nothing left to send, the        *)
(* retained message of a point is the latest reading taken for it.         *)
RetainedIsLatest ==
    Quiet /\ Pending = {} /\ lost = {} =>
        \A r \in taken : r.ts <= retained[r.point]
=============================================================================
