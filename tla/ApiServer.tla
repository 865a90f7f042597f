------------------------------ MODULE ApiServer ------------------------------
(***************************************************************************)
(* fbf/api.py: the process around the managers.  Three kinds of thread:    *)
(*                                                                         *)
(*   - the asyncio loop thread runs async_main: connect, restore, serve,   *)
(*     and on an interrupt stop the HTTP server and join the MQTT thread;  *)
(*   - the HTTP workers, one per request, and                              *)
(*   - paho's network thread, whose on_command takes the commands the      *)
(*     broker holds in this client's persistent session                    *)
(*                                                                         *)
(* both of which hand a coroutine to the loop and wait for it for at most  *)
(* CALL_TIMEOUT (_run).  A timeout leaves the coroutine running.  paho     *)
(* acknowledges a command when on_command has returned; the result is      *)
(* published under the topic the client subscribes to, and comes back.     *)
(* This is the process with a --site-id; without one there are no          *)
(* commands.                                                               *)
(***************************************************************************)
EXTENDS Integers, Sequences, FiniteSets

CONSTANTS
    Worker,             \* HTTP worker threads
    Network,            \* paho's network thread
    Action,             \* commands that name an action
    Malformed,          \* commands that are not JSON or name no known action
    NotObject,          \* commands that are JSON, but not an object
    Result,             \* the outcome of a command, as the client gets it back
    None,
    MaxCalls,           \* bound: coroutines ever handed to the loop
    MaxConnects,        \* bound: CONNACKs ever received
    MaxStarts           \* bound: starts of the process

ASSUME ApiAssumption ==
    /\ Network \notin Worker
    /\ Action \cap Malformed = {}
    /\ NotObject \cap (Action \cup Malformed) = {}
    /\ Result \notin Action \cup Malformed \cup NotObject
    /\ None \notin Action \cup Malformed \cup NotObject \cup {Result}
    /\ MaxCalls \in Nat /\ MaxConnects \in Nat /\ MaxStarts \in Nat \ {0}

VARIABLES
    phase,              \* how far async_main has got
    network,            \* the network thread: "off", "alive", "dead" of an exception, "ended"
    connected,          \* its connection
    handling,           \* the command on_command is at, or None
    call,               \* the coroutine each thread waits for, or 0
    running,            \* coroutines the loop has not finished
    calls,              \* coroutines ever handed to the loop
    outbox,             \* paho's queue of results
    (* the broker *)
    session,            \* whether it has a session with the subscription
    held,               \* messages of the session that are not acknowledged
    (* history, and the counters of the bounds *)
    scans,              \* the coroutines that on_command handed over
    givenUp,            \* those still running when its call timed out
    sent,               \* commands ever sent
    executed,           \* commands ever handed to the loop
    published,          \* commands whose result the broker has had
    forgotten,          \* commands whose result was lost with the process
    dropped,            \* commands acknowledged with no one there to take them
    connects, starts

server == <<phase, network, connected>>
threads == <<handling, call, running, calls>>
broker == <<session, held>>
history == <<sent, executed, published, forgotten, dropped>>
overlaps == <<scans, givenUp>>
vars == <<server, threads, outbox, broker, history, overlaps, connects, starts>>

Command == Action \cup Malformed \cup NotObject
Message == Command \cup {Result}
Caller == Worker \cup {Network}
Elements(s) == {s[i] : i \in DOMAIN s}

(* The types; on_command is at the first message of the session exactly if *)
(* the network thread waits for the loop.                                  *)
TypeOK ==
    /\ phase \in {"connecting", "restoring", "serving", "joining", "stopped", "failed"}
    /\ network \in {"off", "alive", "dead", "ended"}
    /\ connected \in BOOLEAN
    /\ handling \in Action \cup {None}
    /\ call \in [Caller -> 0..MaxCalls]
    /\ handling # None <=> call[Network] # 0
    /\ handling # None => network = "alive" /\ held # <<>> /\ Head(held) = handling
    /\ running \subseteq 1..calls
    /\ calls \in 0..MaxCalls
    /\ outbox \in Seq(Command)
    /\ session \in BOOLEAN
    /\ held \in Seq(Message)
    /\ sent \subseteq Command
    /\ executed \subseteq Command
    /\ published \subseteq Command
    /\ forgotten \subseteq Command
    /\ dropped \subseteq Command
    /\ scans \subseteq 1..calls
    /\ givenUp \subseteq 1..calls
    /\ connects \in 0..MaxConnects
    /\ starts \in 1..MaxStarts

Init ==
    /\ phase = "connecting" /\ network = "off" /\ connected = FALSE
    /\ handling = None
    /\ call = [t \in Caller |-> 0]
    /\ running = {} /\ calls = 0
    /\ outbox = <<>>
    /\ session = FALSE /\ held = <<>>
    /\ sent = {} /\ published = {} /\ forgotten = {} /\ dropped = {}
    /\ executed = {} /\ scans = {} /\ givenUp = {}
    /\ connects = 0 /\ starts = 1

-----------------------------------------------------------------------------
(* async_main *)

(* mqtt_sink.connect: the network thread starts. *)
Connect ==
    /\ phase = "connecting"
    /\ phase' = "restoring"
    /\ network' = "alive"
    /\ UNCHANGED <<connected, threads, outbox, broker, history, overlaps, connects, starts>>

(* manager.start and modbus_manager.start, which awaits one connect after  *)
(* the other; then message_callback_add and the HTTP server.               *)
Restored ==
    /\ phase = "restoring"
    /\ phase' = "serving"
    /\ UNCHANGED <<network, connected, threads, outbox, broker, history,
                   overlaps, connects, starts>>

(* The broker is out of reach, or a restored connection's connect() raises: *)
(* async_main is over, and the network thread is as it was.                *)
StartFails ==
    /\ phase \in {"connecting", "restoring"}
    /\ phase' = "failed"
    /\ UNCHANGED <<network, connected, threads, outbox, broker, history,
                   overlaps, connects, starts>>

(* An interrupt ends the wait for ever: server.shutdown(), the managers'   *)
(* close() and loop_stop(), which awaits nothing: the loop is blocked.     *)
Interrupt ==
    /\ phase = "serving"
    /\ phase' = "joining"
    /\ UNCHANGED <<network, connected, threads, outbox, broker, history,
                   overlaps, connects, starts>>

(* What the end of the process does to its memory. *)
ProcessEnds ==
    /\ handling' = None
    /\ call' = [t \in Caller |-> 0]
    /\ running' = {}
    /\ outbox' = <<>>
    /\ forgotten' = forgotten \cup Elements(outbox)
    /\ connected' = FALSE
    /\ UNCHANGED <<calls, broker, sent, executed, published, dropped, overlaps, connects>>

(* loop_stop() has joined the network thread, and async_main returns. *)
Stop ==
    /\ phase = "joining"
    /\ network \in {"dead", "ended"}
    /\ phase' = "stopped"
    /\ network' = "off"
    /\ ProcessEnds
    /\ UNCHANGED starts

(* A kill at any time, or the end the process came to, and a new start. *)
Restart ==
    /\ starts < MaxStarts
    /\ starts' = starts + 1
    /\ phase' = "connecting"
    /\ network' = "off"
    /\ ProcessEnds

(* Coroutines run while the loop is not blocked. *)
LoopFree == phase = "serving"

(* A coroutine returns or raises: the thread that waits for it has its     *)
(* outcome either way.                                                     *)
CoroutineDone(n) ==
    /\ LoopFree
    /\ n \in running
    /\ running' = running \ {n}
    /\ UNCHANGED <<server, handling, call, calls, outbox, broker, history,
                   overlaps, connects, starts>>

-----------------------------------------------------------------------------
(* _run *)

Submit(t) ==
    /\ calls < MaxCalls
    /\ calls' = calls + 1
    /\ running' = running \cup {calls + 1}
    /\ call' = [call EXCEPT ![t] = calls + 1]

\* Faulty: .result() without a timeout.
ReturnsDone(t) == call[t] # 0 /\ call[t] \notin running
(* result(timeout=CALL_TIMEOUT): the coroutine has come to an end, or the  *)
(* time is up, which never waits for the coroutine.                        *)
Returns(t) == call[t] # 0

(* An HTTP handler.  A worker that was accepted before server.shutdown()   *)
(* may still come to its call.                                             *)
Request(w) ==
    /\ phase \in {"serving", "joining"}
    /\ call[w] = 0
    /\ Submit(w)
    /\ UNCHANGED <<server, handling, outbox, broker, history, overlaps, connects, starts>>

(* The response: 2xx, or 4xx and 500 for an exception, or 504. *)
Respond(w) ==
    /\ Returns(w)
    /\ call' = [call EXCEPT ![w] = 0]
    /\ UNCHANGED <<server, handling, running, calls, outbox, broker, history,
                   overlaps, connects, starts>>

-----------------------------------------------------------------------------
(* The network thread *)

Reading == network = "alive" /\ handling = None

(* CONNACK: on_connect flushes the spool and subscribes to the commands.   *)
(* The broker begins again with the first message that is not acknowledged. *)
Connack ==
    /\ Reading /\ ~connected
    /\ connects < MaxConnects
    /\ connects' = connects + 1
    /\ connected' = TRUE
    /\ session' = TRUE
    /\ UNCHANGED <<phase, network, threads, outbox, held, history, overlaps, starts>>

LinkLost ==
    /\ connected
    /\ connected' = FALSE
    /\ UNCHANGED <<phase, network, threads, outbox, broker, history, overlaps, connects, starts>>

Delivered(m) == Reading /\ connected /\ held # <<>> /\ m = Head(held)

(* message_callback_add comes after the managers are restored. *)
CallbackRegistered == phase \in {"serving", "joining"}

(* A message with no callback to take it is acknowledged all the same. *)
Drop(m) ==
    /\ Delivered(m)
    /\ ~CallbackRegistered
    /\ held' = Tail(held)
    /\ dropped' = dropped \cup ({m} \cap Command)
    /\ UNCHANGED <<server, threads, outbox, session, sent, executed, published,
                   forgotten, overlaps, connects, starts>>

(* `return', after the print. *)
Ignore(m) == UNCHANGED outbox

(* The except clause for what is not JSON or names no action: the client's *)
(* own results are among it.                                               *)
OnMalformed(m) ==
    /\ Delivered(m)
    /\ CallbackRegistered
    /\ m \in Malformed \cup {Result}
    /\ held' = Tail(held)
    /\ Ignore(m)
    /\ UNCHANGED <<server, threads, session, history, overlaps, connects, starts>>

(* payload["action"] of a list or a number raises TypeError, which no one  *)
(* catches: the thread is gone, and the message not acknowledged.          *)
OnNotObject(m) ==
    /\ Delivered(m)
    /\ CallbackRegistered
    /\ m \in NotObject
    /\ network' = "dead"
    /\ UNCHANGED <<phase, connected, threads, outbox, broker, history, overlaps, connects, starts>>

(* paho's PUBACK waits for the callback. *)
NotYetAcknowledged == UNCHANGED held

\* Faulty: the scan is only started, and the command answered at once.
OnCommandStarts(m) ==
    /\ Delivered(m)
    /\ CallbackRegistered
    /\ m \in Action
    /\ calls < MaxCalls
    /\ calls' = calls + 1
    /\ running' = running \cup {calls + 1}
    /\ scans' = scans \cup {calls + 1}
    /\ executed' = executed \cup {m}
    /\ outbox' = Append(outbox, m)
    /\ held' = Tail(held)
    /\ UNCHANGED <<server, handling, call, session, sent, published, forgotten,
                   dropped, givenUp, connects, starts>>
(* on_command, up to _run. *)
OnCommand(m) ==
    /\ Delivered(m)
    /\ CallbackRegistered
    /\ m \in Action
    /\ handling' = m
    /\ Submit(Network)
    /\ scans' = scans \cup {calls + 1}
    /\ executed' = executed \cup {m}
    /\ NotYetAcknowledged
    /\ UNCHANGED <<server, outbox, session, sent, published, forgotten, dropped,
                   givenUp, connects, starts>>

\* Faulty: nothing is published for a call that timed out.
OutcomeIfDone ==
    outbox' = IF call[Network] \in running THEN outbox ELSE Append(outbox, handling)
(* client.publish, of the result or of the error. *)
Outcome == outbox' = Append(outbox, handling)

(* PUBACK; without a connection the broker never hears of it. *)
Acknowledge == held' = IF connected THEN Tail(held) ELSE held

OnCommandReturns ==
    /\ Returns(Network)
    /\ Outcome
    /\ Acknowledge
    /\ handling' = None
    /\ call' = [call EXCEPT ![Network] = 0]
    /\ givenUp' = givenUp \cup ({call[Network]} \cap running)
    /\ UNCHANGED <<server, running, calls, session, history, scans, connects, starts>>

(* The thread sends a result; the broker returns it to the subscription. *)
SendResult ==
    /\ Reading /\ connected
    /\ outbox # <<>>
    /\ outbox' = Tail(outbox)
    /\ published' = published \cup {Head(outbox)}
    /\ held' = Append(held, Result)
    /\ UNCHANGED <<server, threads, session, sent, executed, forgotten, dropped,
                   overlaps, connects, starts>>

(* loop_stop() lets the thread send what it has, and no more. *)
NetworkEnds ==
    /\ phase = "joining"
    /\ Reading
    /\ connected => outbox = <<>>
    /\ network' = "ended"
    /\ UNCHANGED <<phase, connected, threads, outbox, broker, history, overlaps, connects, starts>>

(* A command is sent; without a session the broker keeps it for no one. *)
Send(c) ==
    /\ c \notin sent
    /\ sent' = sent \cup {c}
    /\ held' = IF session THEN Append(held, c) ELSE held
    /\ UNCHANGED <<server, threads, outbox, session, executed, published,
                   forgotten, dropped, overlaps, connects, starts>>

-----------------------------------------------------------------------------
Receive == \E m \in Message : Drop(m) \/ OnMalformed(m) \/ OnNotObject(m) \/ OnCommand(m)

NetworkThread == Connack \/ Receive \/ OnCommandReturns \/ SendResult \/ NetworkEnds

Main == Connect \/ Restored \/ StartFails \/ Interrupt \/ Stop

Next ==
    \/ Main
    \/ Restart
    \/ \E n \in running : CoroutineDone(n)
    \/ \E w \in Worker : Request(w) \/ Respond(w)
    \/ NetworkThread
    \/ LinkLost
    \/ \E c \in Command : Send(c)

Spec == Init /\ [][Next]_vars

(* The threads run, and their timeouts come.  That a coroutine ever ends   *)
(* is not assumed: a device may never answer.                              *)
FairSpec ==
    /\ Spec
    /\ WF_vars(NetworkThread)
    /\ WF_vars(Stop)

-----------------------------------------------------------------------------
(* Properties *)

(* A command that was executed is still held by the broker, or its result  *)
(* is on its way or there, or went down with the process, or the next      *)
(* start dropped it: wherever a link is lost, a call times out or the      *)
(* process is killed, it does not vanish otherwise (api.py:395-399; paho   *)
(* acknowledges after the callback).                                       *)
AnsweredOrHeld ==
    \A c \in Action :
        c \in executed =>
            c \in Elements(held) \cup Elements(outbox) \cup published
                    \cup forgotten \cup dropped

(* api.py:374-375: "one command processes at a time, which is fine for     *)
(* scans you don't want overlapping".  The timeout leaves a scan running   *)
(* while the next command starts its own, and that is the only way they    *)
(* overlap: of the scans that run at once, only the newest was not given   *)
(* up by on_command, across redeliveries, HTTP calls, kills and starts.    *)
ScansOverlapOnlyAfterTimeout ==
    \A m, n \in running \cap scans : m < n => m \in givenUp

(* Only commands have results.  The client reads its own results on        *)
(* cmd/.../#; answering one of them would never end (api.py:390-393).      *)
OnlyCommandsAnswered ==
    Elements(outbox) \cup published \cup forgotten \subseteq Action

(* The loop thread joins the network thread, which may be waiting for the  *)
(* loop: the shutdown comes to an end all the same (api.py:478-488).       *)
ShutdownCompletes == phase = "joining" ~> phase # "joining"

(* While the process serves and its network thread lives, every command    *)
(* the broker holds gets a result (docs/command-channel.md:53-54).         *)
CommandsAnswered ==
    \A c \in Action :
        (phase = "serving" /\ c \in Elements(held))
            ~> \/ c \in Elements(outbox) \cup published \cup forgotten
               \/ phase # "serving"
               \/ network = "dead"
               \/ ~connected /\ connects = MaxConnects
               \/ calls = MaxCalls
=============================================================================
