--------------------------- MODULE ApiServerProofs ---------------------------
(***************************************************************************)
(* Theorems about ApiServer, for any workers, commands and bounds.         *)
(*                                                                         *)
(* That a command does not vanish needs TypeOK: while on_command waits,    *)
(* its command is the first one the broker holds, so that the one its      *)
(* acknowledgement removes is the one it has just answered.  That scans    *)
(* overlap only after a timeout needs that every scan on_command did not   *)
(* give up is the one it waits for, and that this one is the newest        *)
(* (OneWaitedFor).                                                         *)
(***************************************************************************)
EXTENDS ApiServer, TLAPS

(* Of the scans that still run, on_command waits for the newest, or gave   *)
(* them all up.                                                            *)
OneWaitedFor ==
    /\ \A n \in running \cap scans : n \in givenUp \/ n = call[Network]
    /\ call[Network] # 0 => \A n \in scans : n <= call[Network]

IInv ==
    TypeOK /\ AnsweredOrHeld /\ OnlyCommandsAnswered /\ OneWaitedFor
        /\ ScansOverlapOnlyAfterTimeout

-----------------------------------------------------------------------------
(* Sequences *)

(* What is left of a queue when its first element is taken. *)
LEMMA TailElements ==
    ASSUME NEW S, NEW s \in Seq(S), s # <<>>
    PROVE  /\ Tail(s) \in Seq(S)
           /\ Head(s) \in S
           /\ Elements(s) = {Head(s)} \cup Elements(Tail(s))
           /\ Len(Tail(s)) = Len(s) - 1
           /\ \A i \in DOMAIN Tail(s) : i + 1 \in DOMAIN s /\ Tail(s)[i] = s[i + 1]
<1>1. /\ Tail(s) \in Seq(S) /\ Head(s) = s[1] /\ Len(s) \in Nat \ {0}
      /\ Len(Tail(s)) = Len(s) - 1
      /\ \A i \in 1..Len(Tail(s)) : Tail(s)[i] = s[i + 1]
  OBVIOUS
<1>2. DOMAIN s = 1..Len(s) /\ DOMAIN Tail(s) = 1..(Len(s) - 1)
  BY <1>1
<1>3. ASSUME NEW x \in Elements(s) PROVE x \in {Head(s)} \cup Elements(Tail(s))
  <2>1. PICK i \in 1..Len(s) : x = s[i]
    BY <1>2, <1>3 DEF Elements
  <2>2. CASE i = 1
    BY <1>1, <2>1, <2>2
  <2>3. CASE i # 1
    <3>1. i - 1 \in 1..(Len(s) - 1) /\ Tail(s)[i - 1] = s[i]
      BY <1>1, <1>2, <2>1, <2>3
    <3>. QED BY <1>2, <2>1, <3>1 DEF Elements
  <2>. QED BY <2>2, <2>3
<1>4. ASSUME NEW x \in {Head(s)} \cup Elements(Tail(s)) PROVE x \in Elements(s)
  BY <1>1, <1>2, <1>4 DEF Elements
<1>. QED BY <1>1, <1>2, <1>3, <1>4

(* What a queue holds when an element is put at its end. *)
LEMMA AppendElements ==
    ASSUME NEW S, NEW s \in Seq(S), NEW x \in S
    PROVE  /\ Append(s, x) \in Seq(S)
           /\ Append(s, x) # <<>>
           /\ s # <<>> => Head(Append(s, x)) = Head(s)
           /\ Elements(Append(s, x)) = Elements(s) \cup {x}
           /\ DOMAIN Append(s, x) = DOMAIN s \cup {Len(s) + 1}
           /\ \A i \in DOMAIN s : i # Len(s) + 1 /\ Append(s, x)[i] = s[i]
           /\ Append(s, x)[Len(s) + 1] = x
<1>1. /\ Append(s, x) \in Seq(S) /\ Len(s) \in Nat
      /\ Len(Append(s, x)) = Len(s) + 1
      /\ DOMAIN s = 1..Len(s) /\ DOMAIN Append(s, x) = 1..(Len(s) + 1)
      /\ \A i \in 1..Len(s) : Append(s, x)[i] = s[i]
      /\ Append(s, x)[Len(s) + 1] = x
  OBVIOUS
<1>2. Elements(Append(s, x)) = Elements(s) \cup {x}
  BY <1>1 DEF Elements
<1>3. s # <<>> => 1 \in 1..Len(s)
  BY <1>1
<1>4. s # <<>> => Head(Append(s, x)) = Head(s)
  BY <1>1, <1>3
<1>. QED BY <1>1, <1>2, <1>4

LEMMA Disjoint ==
    /\ Action \subseteq Command /\ Command \subseteq Message
    /\ Result \in Message /\ Result \notin Command
    /\ None \notin Message
    /\ Network \in Caller
    /\ \A w \in Worker : w \in Caller /\ w # Network
    /\ \A m \in Malformed \cup NotObject \cup {Result} : m \notin Action
  BY ApiAssumption DEF Command, Message, Caller

-----------------------------------------------------------------------------
LEMMA IInvInit == Init => IInv
<1>. SUFFICES ASSUME Init PROVE IInv
  OBVIOUS
<1>1. Elements(<<>>) = {}
  BY DEF Elements
<1>2. TypeOK
  <2>1. /\ 1 \in 1..MaxStarts /\ 0 \in 0..MaxConnects /\ 0 \in 0..MaxCalls
        /\ {} \subseteq 1..0
    BY ApiAssumption
  <2>2. <<>> \in Seq(Command) /\ <<>> \in Seq(Message)
    OBVIOUS
  <2>. QED BY <2>1, <2>2, Disjoint DEF Init, TypeOK
<1>3. AnsweredOrHeld
  BY Disjoint DEF Init, AnsweredOrHeld
<1>4. OnlyCommandsAnswered
  BY <1>1 DEF Init, OnlyCommandsAnswered
<1>5. OneWaitedFor /\ ScansOverlapOnlyAfterTimeout
  BY Disjoint DEF Init, OneWaitedFor, ScansOverlapOnlyAfterTimeout
<1>. QED BY <1>2, <1>3, <1>4, <1>5 DEF IInv
-----------------------------------------------------------------------------
(* The types *)

LEMMA TypeOKStep == TypeOK /\ [Next]_vars => TypeOK'
<1>. SUFFICES ASSUME TypeOK, [Next]_vars PROVE TypeOK'
  OBVIOUS
<1>t. /\ held \in Seq(Message) /\ outbox \in Seq(Command)
      /\ calls \in Nat /\ connects \in Nat /\ starts \in Nat
  BY ApiAssumption DEF TypeOK
<1>1. CASE Connect \/ Restored \/ StartFails \/ Interrupt
  BY <1>1 DEF Connect, Restored, StartFails, Interrupt, TypeOK, threads, broker, history, overlaps
<1>2. CASE Stop \/ Restart
  <2>1. ProcessEnds /\ network' = "off" /\ phase' \in {"stopped", "connecting"}
        /\ starts' \in 1..MaxStarts
    BY <1>2, <1>t, ApiAssumption DEF Stop, Restart, TypeOK
  <2>2. Elements(outbox) \subseteq Command
    BY <1>t DEF Elements
  <2>3. <<>> \in Seq(Command) /\ {} \subseteq 1..calls /\ 0 \in 0..MaxCalls
    BY ApiAssumption
  <2>. QED BY <2>1, <2>2, <2>3, Disjoint DEF ProcessEnds, TypeOK, broker, overlaps
<1>3. ASSUME NEW n \in running, CoroutineDone(n) PROVE TypeOK'
  BY <1>3 DEF CoroutineDone, TypeOK, server, broker, history, overlaps
<1>4. ASSUME NEW w \in Worker, Request(w) PROVE TypeOK'
  <2>1. calls' = calls + 1 /\ calls' \in 0..MaxCalls /\ running' \subseteq 1..calls'
    BY <1>4, <1>t, ApiAssumption DEF Request, Submit, TypeOK
  <2>2. call' \in [Caller -> 0..MaxCalls] /\ call'[Network] = call[Network]
    BY <1>4, <2>1, Disjoint DEF Request, Submit, TypeOK
  <2>. QED BY <1>4, <2>1, <2>2 DEF Request, TypeOK, server, broker, history, overlaps
<1>5. ASSUME NEW w \in Worker, Respond(w) PROVE TypeOK'
  <2>1. call' \in [Caller -> 0..MaxCalls] /\ call'[Network] = call[Network]
    BY <1>5, Disjoint, ApiAssumption DEF Respond, TypeOK
  <2>. QED BY <1>5, <2>1 DEF Respond, TypeOK, server, broker, history, overlaps
<1>6. CASE Connack
  BY <1>6, <1>t, ApiAssumption DEF Connack, Reading, TypeOK, threads, history, overlaps
<1>7. CASE LinkLost
  BY <1>7 DEF LinkLost, TypeOK, threads, broker, history, overlaps
<1>8. ASSUME NEW m \in Message, Drop(m) PROVE TypeOK'
  <2>1. Tail(held) \in Seq(Message) /\ handling = None
    BY <1>8, <1>t, TailElements DEF Drop, Delivered, Reading
  <2>. QED BY <1>8, <2>1 DEF Drop, TypeOK, server, threads, overlaps
<1>9. ASSUME NEW m \in Message, OnMalformed(m) PROVE TypeOK'
  <2>1. Tail(held) \in Seq(Message) /\ handling = None
    BY <1>9, <1>t, TailElements DEF OnMalformed, Delivered, Reading
  <2>. QED BY <1>9, <2>1 DEF OnMalformed, Ignore, TypeOK, server, threads, history, overlaps
<1>10. ASSUME NEW m \in Message, OnNotObject(m) PROVE TypeOK'
  BY <1>10 DEF OnNotObject, Delivered, Reading, TypeOK, threads, broker, history, overlaps
<1>11. ASSUME NEW m \in Message, OnCommand(m) PROVE TypeOK'
  <2>1. calls' = calls + 1 /\ calls' \in 1..MaxCalls /\ running' \subseteq 1..calls'
    BY <1>11, <1>t, ApiAssumption DEF OnCommand, Submit, TypeOK
  <2>2. call' \in [Caller -> 0..MaxCalls] /\ call'[Network] # 0
    BY <1>11, <2>1, Disjoint DEF OnCommand, Submit, TypeOK
  <2>3. executed' \subseteq Command
    BY <1>11, Disjoint DEF OnCommand, TypeOK
  <2>4. m # None /\ m = Head(held) /\ held # <<>> /\ network = "alive"
    BY <1>11, Disjoint DEF OnCommand, Delivered, Reading
  <2>. QED BY <1>11, <2>1, <2>2, <2>3, <2>4
          DEF OnCommand, NotYetAcknowledged, TypeOK, server
<1>12. CASE OnCommandReturns
  <2>1. handling \in Action /\ held # <<>>
    BY <1>12 DEF OnCommandReturns, Returns, TypeOK
  <2>2. held' \in Seq(Message)
    BY <1>12, <1>t, <2>1, TailElements DEF OnCommandReturns, Acknowledge
  <2>3. outbox' \in Seq(Command)
    BY <1>12, <1>t, <2>1, AppendElements, Disjoint DEF OnCommandReturns, Outcome
  <2>4. call' \in [Caller -> 0..MaxCalls] /\ call'[Network] = 0
    BY <1>12, Disjoint, ApiAssumption DEF OnCommandReturns, TypeOK
  <2>. QED BY <1>12, <2>2, <2>3, <2>4 DEF OnCommandReturns, TypeOK, server, history, overlaps
<1>13. CASE SendResult
  <2>1. Tail(outbox) \in Seq(Command) /\ Head(outbox) \in Command
    BY <1>13, <1>t, TailElements DEF SendResult
  <2>2. Append(held, Result) \in Seq(Message) /\ handling = None
    BY <1>13, <1>t, AppendElements, Disjoint DEF SendResult, Reading
  <2>. QED BY <1>13, <2>1, <2>2 DEF SendResult, TypeOK, server, threads, overlaps
<1>14. CASE NetworkEnds
  BY <1>14 DEF NetworkEnds, Reading, TypeOK, threads, broker, history, overlaps
<1>15. ASSUME NEW c \in Command, Send(c) PROVE TypeOK'
  <2>1. held' \in Seq(Message)
        /\ (held # <<>> => held' # <<>> /\ Head(held') = Head(held))
    BY <1>15, <1>t, AppendElements, Disjoint DEF Send
  <2>. QED BY <1>15, <2>1 DEF Send, TypeOK, server, threads, overlaps
<1>16. CASE UNCHANGED vars
  BY <1>16 DEF vars, server, threads, broker, history, TypeOK, overlaps
<1>. QED
  BY <1>1, <1>2, <1>3, <1>4, <1>5, <1>6, <1>7, <1>8, <1>9, <1>10, <1>11, <1>12,
     <1>13, <1>14, <1>15, <1>16
  DEF Next, Main, NetworkThread, Receive
-----------------------------------------------------------------------------
(* The commands *)

(* Steps that neither move a message nor lose or make a connection. *)
Idle == UNCHANGED <<connected, handling, outbox, broker, history, connects>>

LEMMA IdleSteps ==
    /\ Connect \/ Restored \/ StartFails \/ Interrupt \/ NetworkEnds => Idle
    /\ \A n \in running : CoroutineDone(n) => Idle
    /\ \A w \in Worker : Request(w) \/ Respond(w) => Idle
    /\ \A m \in Message : OnNotObject(m) => Idle
    /\ UNCHANGED vars => Idle
  BY DEF Idle, Connect, Restored, StartFails, Interrupt, NetworkEnds, CoroutineDone,
         Request, Respond, OnNotObject, vars, server, threads, broker, history

(* A step is idle, or one of the steps that matter to the commands. *)
LEMMA StepCases ==
    [Next]_vars =>
        \/ Idle
        \/ ProcessEnds
        \/ Connack
        \/ LinkLost
        \/ \E m \in Message : Drop(m) \/ OnMalformed(m) \/ OnCommand(m)
        \/ OnCommandReturns
        \/ SendResult
        \/ \E c \in Command : Send(c)
  BY IdleSteps DEF Next, Main, NetworkThread, Receive, Stop, Restart

LEMMA OnlyCommandsStep ==
    TypeOK /\ OnlyCommandsAnswered /\ [Next]_vars => OnlyCommandsAnswered'
<1>. SUFFICES ASSUME TypeOK, OnlyCommandsAnswered, [Next]_vars
              PROVE  OnlyCommandsAnswered'
  OBVIOUS
<1>t. outbox \in Seq(Command)
  BY DEF TypeOK
<1>1. CASE Idle \/ Connack \/ LinkLost
  BY <1>1 DEF Idle, Connack, LinkLost, threads, history, OnlyCommandsAnswered, Elements
<1>2. CASE ProcessEnds
  BY <1>2 DEF ProcessEnds, OnlyCommandsAnswered, Elements
<1>3. ASSUME NEW m \in Message, Drop(m) \/ OnMalformed(m) \/ OnCommand(m)
      PROVE  OnlyCommandsAnswered'
  BY <1>3 DEF Drop, OnMalformed, Ignore, OnCommand, history, OnlyCommandsAnswered, Elements
<1>4. CASE OnCommandReturns
  <2>1. handling \in Action
    BY <1>4 DEF OnCommandReturns, Returns, TypeOK
  <2>2. Elements(outbox)' = Elements(outbox) \cup {handling}
    BY <1>4, <1>t, <2>1, AppendElements, Disjoint DEF OnCommandReturns, Outcome, Elements
  <2>. QED BY <1>4, <2>1, <2>2 DEF OnCommandReturns, history, OnlyCommandsAnswered
<1>5. CASE SendResult
  <2>1. Elements(outbox) = {Head(outbox)} \cup Elements(Tail(outbox))
    BY <1>5, <1>t, TailElements DEF SendResult
  <2>2. Elements(outbox)' = Elements(Tail(outbox))
    BY <1>5 DEF SendResult, Elements
  <2>. QED BY <1>5, <2>1, <2>2 DEF SendResult, OnlyCommandsAnswered
<1>6. ASSUME NEW c \in Command, Send(c) PROVE OnlyCommandsAnswered'
  BY <1>6 DEF Send, OnlyCommandsAnswered, Elements
<1>. QED BY <1>1, <1>2, <1>3, <1>4, <1>5, <1>6, StepCases

LEMMA AnsweredOrHeldStep ==
    TypeOK /\ AnsweredOrHeld /\ [Next]_vars => AnsweredOrHeld'
<1>. DEFINE Accounted(c) ==
        c \in Elements(held) \cup Elements(outbox) \cup published
                \cup forgotten \cup dropped
<1>. SUFFICES ASSUME TypeOK, AnsweredOrHeld, [Next]_vars,
                     NEW c \in Action, c \in executed'
              PROVE  Accounted(c)'
  BY DEF AnsweredOrHeld
<1>t. held \in Seq(Message) /\ outbox \in Seq(Command)
  BY DEF TypeOK
<1>s. c \in Command /\ (c \in executed => Accounted(c))
  BY Disjoint DEF AnsweredOrHeld
<1>1. CASE Idle \/ Connack \/ LinkLost
  BY <1>1, <1>s DEF Idle, Connack, LinkLost, threads, broker, history, Elements
<1>2. CASE ProcessEnds
  BY <1>2, <1>s DEF ProcessEnds, broker, Elements
<1>3. ASSUME NEW m \in Message, Drop(m) \/ OnMalformed(m) PROVE Accounted(c)'
  <2>1. held # <<>> /\ m = Head(held) /\ held' = Tail(held)
    BY <1>3 DEF Drop, OnMalformed, Delivered
  <2>a. Elements(held) = {m} \cup Elements(Tail(held))
    BY <1>t, <2>1, TailElements
  <2>2. Elements(held) = {m} \cup Elements(held)'
    BY <2>a, <2>1 DEF Elements
  <2>3. m = c => Drop(m)
    BY <1>3, Disjoint DEF OnMalformed
  <2>. QED BY <1>3, <1>s, <2>2, <2>3 DEF Drop, OnMalformed, Ignore, history, Elements
<1>4. ASSUME NEW m \in Message, OnCommand(m) PROVE Accounted(c)'
  <2>1. held # <<>> /\ m = Head(held) /\ held' = held
    BY <1>4 DEF OnCommand, Delivered, NotYetAcknowledged
  <2>2. m \in Elements(held)
    BY <1>t, <2>1, TailElements
  <2>3. m # c => c \in executed
    BY <1>4 DEF OnCommand
  <2>. QED BY <1>4, <1>s, <2>1, <2>2, <2>3 DEF OnCommand, Elements
<1>5. CASE OnCommandReturns
  <2>1. handling \in Action /\ held # <<>> /\ Head(held) = handling
    BY <1>5 DEF OnCommandReturns, Returns, TypeOK
  <2>2. Elements(outbox)' = Elements(outbox) \cup {handling}
    BY <1>5, <1>t, <2>1, AppendElements, Disjoint DEF OnCommandReturns, Outcome, Elements
  <2>a. Elements(held) = {handling} \cup Elements(Tail(held))
    BY <1>t, <2>1, TailElements
  <2>3. Elements(held) \subseteq {handling} \cup Elements(held)'
    BY <1>5, <2>a DEF OnCommandReturns, Acknowledge, Elements
  <2>. QED BY <1>5, <1>s, <2>2, <2>3 DEF OnCommandReturns, history
<1>6. CASE SendResult
  <2>a. Elements(outbox) = {Head(outbox)} \cup Elements(Tail(outbox))
    BY <1>6, <1>t, TailElements DEF SendResult
  <2>1. Elements(outbox) = {Head(outbox)} \cup Elements(outbox)'
    BY <1>6, <2>a DEF SendResult, Elements
  <2>2. Elements(held) \subseteq Elements(held)'
    BY <1>6, <1>t, AppendElements, Disjoint DEF SendResult, Elements
  <2>. QED BY <1>6, <1>s, <2>1, <2>2 DEF SendResult
<1>7. ASSUME NEW d \in Command, Send(d) PROVE Accounted(c)'
  <2>1. Elements(held) \subseteq Elements(held)'
    BY <1>7, <1>t, AppendElements, Disjoint DEF Send, Elements
  <2>. QED BY <1>7, <1>s, <2>1 DEF Send, Elements
<1>. QED BY <1>1, <1>2, <1>3, <1>4, <1>5, <1>6, <1>7, StepCases
-----------------------------------------------------------------------------
(* Overlapping scans *)

LEMMA OverlapStep ==
    TypeOK /\ OneWaitedFor /\ ScansOverlapOnlyAfterTimeout /\ [Next]_vars
        => OneWaitedFor' /\ ScansOverlapOnlyAfterTimeout'
<1>. SUFFICES ASSUME TypeOK, OneWaitedFor, ScansOverlapOnlyAfterTimeout, [Next]_vars
              PROVE  OneWaitedFor' /\ ScansOverlapOnlyAfterTimeout'
  OBVIOUS
<1>t. /\ calls \in Nat /\ running \subseteq 1..calls /\ scans \subseteq 1..calls
      /\ call \in [Caller -> 0..MaxCalls] /\ MaxCalls \in Nat
      /\ \A n \in 1..calls : n \in Nat /\ n < calls + 1
  BY ApiAssumption DEF TypeOK
<1>. DEFINE Keeps ==
        /\ scans' = scans /\ givenUp' = givenUp
        /\ call'[Network] = call[Network]
        /\ running' \cap scans \subseteq running
<1>1. CASE Keeps
  BY <1>1 DEF OneWaitedFor, ScansOverlapOnlyAfterTimeout
<1>2. CASE ProcessEnds
  BY <1>2, Disjoint DEF ProcessEnds, OneWaitedFor, ScansOverlapOnlyAfterTimeout
<1>3. ASSUME NEW m \in Message, OnCommand(m)
      PROVE  OneWaitedFor' /\ ScansOverlapOnlyAfterTimeout'
  <2>1. call[Network] = 0
    BY <1>3 DEF OnCommand, Delivered, Reading, TypeOK
  <2>2. /\ running' = running \cup {calls + 1} /\ scans' = scans \cup {calls + 1}
        /\ givenUp' = givenUp /\ call'[Network] = calls + 1
    BY <1>3, <1>t, Disjoint DEF OnCommand, Submit
  <2>3. \A n \in running \cap scans : n \in givenUp
    BY <1>t, <2>1 DEF OneWaitedFor
  <2>. QED BY <1>t, <2>2, <2>3 DEF OneWaitedFor, ScansOverlapOnlyAfterTimeout
<1>4. CASE OnCommandReturns
  <2>1. /\ running' = running /\ scans' = scans
        /\ givenUp' = givenUp \cup ({call[Network]} \cap running)
        /\ call'[Network] = 0
    BY <1>4, <1>t, Disjoint DEF OnCommandReturns
  <2>. QED BY <1>t, <2>1 DEF OneWaitedFor, ScansOverlapOnlyAfterTimeout
<1>5. \A w \in Worker : Request(w) => Keeps
  BY <1>t, Disjoint DEF Request, Submit, overlaps
<1>6. \A w \in Worker : Respond(w) => Keeps
  BY <1>t, Disjoint DEF Respond, overlaps
<1>7. Connect \/ Restored \/ StartFails \/ Interrupt \/ Connack \/ LinkLost
          \/ SendResult \/ NetworkEnds \/ UNCHANGED vars => Keeps
  BY DEF Connect, Restored, StartFails, Interrupt, Connack, LinkLost, SendResult,
         NetworkEnds, vars, threads, overlaps
<1>8. /\ \A n \in running : CoroutineDone(n) => Keeps
      /\ \A m \in Message : Drop(m) \/ OnMalformed(m) \/ OnNotObject(m) => Keeps
      /\ \A c \in Command : Send(c) => Keeps
  BY DEF CoroutineDone, Drop, OnMalformed, OnNotObject, Send, threads, overlaps
<1>. HIDE DEF Keeps
<1>. QED
  BY <1>1, <1>2, <1>3, <1>4, <1>5, <1>6, <1>7, <1>8
  DEF Next, Main, NetworkThread, Receive, Stop, Restart

LEMMA Invariant == Spec => []IInv
<1>1. IInv /\ [Next]_vars => IInv'
  BY TypeOKStep, OnlyCommandsStep, AnsweredOrHeldStep, OverlapStep DEF IInv
<1>. QED BY IInvInit, <1>1, PTL DEF Spec

-----------------------------------------------------------------------------
(* Theorems *)

(* The variables keep their types, and while on_command waits for the loop *)
(* its command is the first one the broker holds.                          *)
THEOREM TypeCorrect == Spec => []TypeOK
<1>1. IInv => TypeOK
  BY DEF IInv
<1>. QED BY <1>1, Invariant, PTL

(* A command that was executed is held, or its result is on its way, with  *)
(* the broker, or lost with the process, or a later start dropped it.      *)
THEOREM CommandsDoNotVanish == Spec => []AnsweredOrHeld
<1>1. IInv => AnsweredOrHeld
  BY DEF IInv
<1>. QED BY <1>1, Invariant, PTL

(* Only commands have results: the client never answers its own results.   *)
THEOREM ResultsAreOfCommands == Spec => []OnlyCommandsAnswered
<1>1. IInv => OnlyCommandsAnswered
  BY DEF IInv
<1>. QED BY <1>1, Invariant, PTL

(* Two scans of commands run at once only after on_command gave up the     *)
(* older one.                                                              *)
THEOREM OverlapsAreGivenUp == Spec => []ScansOverlapOnlyAfterTimeout
<1>1. IInv => ScansOverlapOnlyAfterTimeout
  BY DEF IInv
<1>. QED BY <1>1, Invariant, PTL
=============================================================================
