----------------------- MODULE ModbusConnectionManager -----------------------
(***************************************************************************)
(* fbf/modbus_connection_manager.py: the Modbus connections, each with a   *)
(* TCP client and a poll task.                                             *)
(*                                                                         *)
(* Where the BACnet manager never awaits in its methods, this one awaits   *)
(* client.connect() in the middle of create_connection and of start(),     *)
(* between saving the record and registering the client and the poll task. *)
(* Other requests for the connection run meanwhile: it is listed already.  *)
(* start() runs before api.py serves any request.  close() runs when its   *)
(* server takes no new ones, but the loop is not through then: it goes on  *)
(* with coroutines that HTTP workers have handed it and with connect()s    *)
(* that return, asyncio.run cancels all tasks there are, and the loop      *)
(* still runs what it is given until they have ended.                      *)
(*                                                                         *)
(* The other statements of a method are atomic for the loop, though not    *)
(* for a hard kill or an exception: `pc' is where the loop is among them.  *)
(***************************************************************************)
EXTENDS Integers, FiniteSets

CONSTANTS
    Id,                 \* uuids new_connection_id may return
    Credential,         \* credentials, None among them
    Absent,             \* no record under this id
    Unknown,            \* what a caller knows of a request that did not succeed
    NoId,               \* no connection is being worked on
    DiskErrors,         \* whether connection_store.save may raise
    ConnectErrors,      \* whether client.connect may raise (and not just fail)
    PollErrors,         \* whether a poll task may raise (mqtt_sink, labels)
    MaxStarts           \* bound: restarts of the process

ASSUME ModbusAssumption ==
    /\ Credential # {}
    /\ Absent \notin Credential
    /\ Unknown \notin Credential \cup {Absent}
    /\ NoId \notin Id
    /\ MaxStarts \in Nat
    /\ DiskErrors \in BOOLEAN
    /\ ConnectErrors \in BOOLEAN
    /\ PollErrors \in BOOLEAN

VARIABLES
    connections,        \* self.connections: the credential in each record
    stateFile,          \* the same, as persisted
    tasks,              \* ids with an entry in self.tasks
    clients,            \* ids with an entry in self.clients
    poll,               \* the poll task of each connection
    client,             \* the AsyncModbusTcpClient made for each connection
    phase,              \* of the process: "start" (or "failed" in it), "serve",
                        \* "closed", "cancelled" (asyncio.run's doing), "down"
    restoring,          \* ids start() has still to come to
    pc, cur,            \* the method the loop is inside of, and its connection
    used,               \* ids drawn so far
    overtaken,          \* ids another request ran for during their create
    missed,             \* ids whose client was not registered yet at close()
    acked,              \* what the last answer to a caller says is persisted
    starts

store == <<connections, stateFile>>
registered == <<tasks, clients>>
objects == <<poll, client>>
process == <<phase, restoring, starts>>
method == <<pc, cur>>
history == <<used, overtaken, missed, acked>>
vars == <<store, registered, objects, process, method, history>>

Record == Credential \cup {Absent}
Live(id) == connections[id] # Absent

(* The coroutines of requests run, also those handed over before close()   *)
(* and run after it.                                                       *)
Serving == phase \in {"serve", "closed", "cancelled"}

(* The types; requests are served only once start() is through.            *)
TypeOK ==
    /\ connections \in [Id -> Record]
    /\ stateFile \in [Id -> Record]
    /\ tasks \subseteq Id
    /\ clients \subseteq Id
    /\ poll \in [Id -> {"none", "run", "cancel", "done", "crashed"}]
    /\ client \in [Id -> {"none", "opening", "open", "closed"}]
    /\ phase \in {"start", "failed", "serve", "closed", "cancelled", "down"}
    /\ restoring \subseteq Id
    /\ Serving => restoring = {}
    /\ pc \in {"idle", "create_save", "delete_save", "set_save"}
    /\ cur \in Id \cup {NoId}
    /\ used \subseteq Id
    /\ overtaken \subseteq Id
    /\ missed \subseteq Id
    /\ acked \in [Id -> Record \cup {Unknown}]
    /\ starts \in 0..MaxStarts

Init ==
    /\ connections = [id \in Id |-> Absent]
    /\ stateFile = [id \in Id |-> Absent]
    /\ tasks = {} /\ clients = {}
    /\ poll = [id \in Id |-> "none"]
    /\ client = [id \in Id |-> "none"]
    /\ phase = "serve" /\ restoring = {}
    /\ pc = "idle" /\ cur = NoId
    /\ used = {} /\ overtaken = {} /\ missed = {}
    /\ acked = [id \in Id |-> Absent]
    /\ starts = 0

-----------------------------------------------------------------------------
(* Requests *)

Enter(at, id) == Serving /\ pc = "idle" /\ pc' = at /\ cur' = id
Leave == pc' = "idle" /\ cur' = NoId
Answer(id, what) == acked' = [acked EXCEPT ![id] = what]

(* A request for a connection whose create awaits client.connect().  Of    *)
(* the two answers the caller will get, that of the later request counts.  *)
Overtake(id) ==
    overtaken' = IF client[id] = "opening" THEN overtaken \cup {id} ELSE overtaken

(* create_connection: the record goes into self.connections first. *)
CreateConnection(id, credential) ==
    /\ id \notin used
    /\ Enter("create_save", id)
    /\ connections' = [connections EXCEPT ![id] = credential]
    /\ used' = used \cup {id}
    /\ Answer(id, Unknown)
    /\ UNCHANGED <<stateFile, registered, objects, process, overtaken, missed>>

\* Faulty: what was persisted before the request.
PersistedBefore == stateFile
(* list(self.connections.values()) *)
Persisted == connections

(* _save, and _start_poll_task up to the await of client.connect(). *)
CreateSave ==
    /\ pc = "create_save"
    /\ Leave
    /\ stateFile' = Persisted
    /\ client' = [client EXCEPT ![cur] = "opening"]
    /\ missed' = IF phase = "serve" THEN missed ELSE missed \cup {cur}
    /\ UNCHANGED <<connections, registered, poll, process, used, overtaken, acked>>

(* _save raises: the method ends, what it did before stays done. *)
SaveRaises ==
    /\ DiskErrors
    /\ pc # "idle"
    /\ Leave
    /\ UNCHANGED <<store, registered, objects, process, history>>

(* client.close(), for those of ids that have a client registered. *)
CloseClients(ids) ==
    client' = [id \in Id |->
        IF id \in ids \cap clients THEN "closed" ELSE client[id]]

\* Faulty: forgets the tasks without cancelling them.
CancelNone(ids) == UNCHANGED poll
(* task.cancel(), for those of ids that have a task registered. *)
CancelPolls(ids) ==
    poll' = [id \in Id |->
        IF id \in ids \cap tasks /\ poll[id] = "run" THEN "cancel" ELSE poll[id]]

\* Faulty: the entries stay.
UnregisterNone(ids) == UNCHANGED registered
Unregister(ids) == tasks' = tasks \ ids /\ clients' = clients \ ids

(* delete_connection of an id there is; any other answers False. *)
DeleteConnection(id) ==
    /\ Live(id)
    /\ Enter("delete_save", id)
    /\ CancelPolls({id})
    /\ CloseClients({id})
    /\ Unregister({id})
    /\ connections' = [connections EXCEPT ![id] = Absent]
    /\ Overtake(id)
    /\ Answer(id, Unknown)
    /\ UNCHANGED <<stateFile, process, used, missed>>

(* set_credential of an id there is; any other answers None. *)
SetCredential(id, credential) ==
    /\ Live(id)
    /\ Enter("set_save", id)
    /\ connections' = [connections EXCEPT ![id] = credential]
    /\ Overtake(id)
    /\ Answer(id, Unknown)
    /\ UNCHANGED <<stateFile, registered, objects, process, used, missed>>

(* The _save both end with. *)
SaveReturns ==
    /\ pc \in {"delete_save", "set_save"}
    /\ Leave
    /\ stateFile' = Persisted
    /\ Answer(cur, connections[cur])
    /\ UNCHANGED <<connections, registered, objects, process, used, overtaken, missed>>

-----------------------------------------------------------------------------
(* After the await of client.connect() *)

(* connect() is back, with a connection or without: the client reconnects. *)
(* _start_poll_task goes on with the record it was called with, in         *)
(* self.connections or not.                                                *)
Connected(id) ==
    /\ pc = "idle"
    /\ (phase = "start" \/ Serving)
    /\ client[id] = "opening"
    /\ client' = [client EXCEPT ![id] = "open"]
    /\ poll' = [poll EXCEPT ![id] = "run"]
    /\ tasks' = tasks \cup {id}
    /\ clients' = clients \cup {id}
    /\ IF id \in overtaken \/ phase = "start"
       THEN UNCHANGED acked
       ELSE Answer(id, connections[id])
    /\ UNCHANGED <<store, process, method, used, overtaken, missed>>

(* connect() raises.  create_connection ends with the record persisted and *)
(* nothing polling it; start() ends api.py before it serves anything.      *)
ConnectRaises(id) ==
    /\ ConnectErrors
    /\ pc = "idle"
    /\ (phase = "start" \/ Serving)
    /\ client[id] = "opening"
    /\ client' = [client EXCEPT ![id] = "none"]
    /\ phase' = IF phase = "start" THEN "failed" ELSE phase
    /\ UNCHANGED <<store, registered, poll, restoring, starts, method, history>>

-----------------------------------------------------------------------------
(* Poll tasks *)

(* publish_reading raises in _poll_loop; only a log line tells. *)
PollRaises(id) ==
    /\ PollErrors
    /\ pc = "idle"
    /\ (phase = "start" \/ Serving)
    /\ poll[id] = "run"
    /\ poll' = [poll EXCEPT ![id] = "crashed"]
    /\ UNCHANGED <<store, registered, client, process, method, history>>

PollCancelled(id) ==
    /\ pc = "idle"
    /\ Serving
    /\ poll[id] = "cancel"
    /\ poll' = [poll EXCEPT ![id] = "done"]
    /\ UNCHANGED <<store, registered, client, process, method, history>>

-----------------------------------------------------------------------------
(* The process *)

(* close(), in async_main's finally. *)
Close ==
    /\ phase = "serve"
    /\ pc = "idle"
    /\ phase' = "closed"
    /\ CancelPolls(Id)
    /\ CloseClients(Id)
    /\ Unregister(Id)
    /\ missed' = {id \in Id : client[id] = "opening"}
    /\ UNCHANGED <<store, restoring, starts, method, used, overtaken, acked>>

(* async_main has returned: asyncio.run cancels every task there is, poll  *)
(* tasks as well as the creates that await connect(), which end there.     *)
AllCancelled ==
    /\ phase = "closed"
    /\ pc = "idle"
    /\ phase' = "cancelled"
    /\ poll' = [id \in Id |-> IF poll[id] = "run" THEN "cancel" ELSE poll[id]]
    /\ client' = [id \in Id |-> IF client[id] = "opening" THEN "none" ELSE client[id]]
    /\ UNCHANGED <<store, registered, restoring, starts, method, history>>

(* The cancelled tasks have ended, and asyncio.run closes the loop. *)
LoopEnds ==
    /\ phase = "cancelled"
    /\ pc = "idle"
    /\ \A id \in Id : poll[id] # "cancel"
    /\ phase' = "down"
    /\ UNCHANGED <<store, registered, objects, restoring, starts, method, history>>

(* The process ends, by a hard kill wherever it is or for good reason, and *)
(* is started again: start() loads the state file.                         *)
Restart ==
    /\ starts < MaxStarts
    /\ starts' = starts + 1
    /\ connections' = [id \in Id |-> Absent]
    /\ tasks' = {} /\ clients' = {}
    /\ poll' = [id \in Id |-> "none"]
    /\ client' = [id \in Id |-> "none"]
    /\ phase' = "start"
    /\ restoring' = {id \in Id : stateFile[id] # Absent}
    /\ Leave
    /\ overtaken' = {} /\ missed' = {}
    /\ UNCHANGED <<stateFile, used, acked>>

(* start() takes one record after the other: its next one only when        *)
(* connect() has returned for the last.                                    *)
Restore(id) ==
    /\ phase = "start"
    /\ id \in restoring
    /\ \A other \in Id : client[other] # "opening"
    /\ restoring' = restoring \ {id}
    /\ connections' = [connections EXCEPT ![id] = stateFile[id]]
    /\ client' = [client EXCEPT ![id] = "opening"]
    /\ UNCHANGED <<stateFile, registered, poll, phase, starts, method, history>>

\* Faulty: start() does not await _start_poll_task.
AllCalled == TRUE
AllRestored == restoring = {} /\ \A id \in Id : client[id] # "opening"
Started ==
    /\ phase = "start"
    /\ AllRestored
    /\ phase' = "serve"
    /\ UNCHANGED <<store, registered, objects, restoring, starts, method, history>>

-----------------------------------------------------------------------------
Request ==
    \E id \in Id :
        \/ \E credential \in Credential :
              CreateConnection(id, credential) \/ SetCredential(id, credential)
        \/ DeleteConnection(id)

Method == CreateSave \/ SaveReturns

Task(id) == Connected(id) \/ PollCancelled(id)

Startup == Started \/ \E id \in Id : Restore(id)

Shutdown == Close \/ AllCancelled \/ LoopEnds

Next ==
    \/ Request
    \/ Method
    \/ SaveRaises
    \/ \E id \in Id : Task(id) \/ ConnectRaises(id) \/ PollRaises(id)
    \/ Startup
    \/ Shutdown
    \/ Restart

Spec == Init /\ [][Next]_vars

(* The loop finishes its methods and runs what is scheduled (see           *)
(* ConnectionManager), and connect() returns: pymodbus gives it a timeout. *)
FairSpec ==
    /\ Spec
    /\ WF_vars(Method)
    /\ WF_vars(Startup)
    /\ \A id \in Id : SF_vars(Task(id))

-----------------------------------------------------------------------------
(* Properties *)

(* What the last answer for a connection said is what a restart restores,  *)
(* whatever requests overlapped, failed or were killed since.              *)
AckedDurable ==
    \A id \in Id : acked[id] # Unknown => stateFile[id] = acked[id]

(* delete_connection and close() find a poll task and its client together  *)
(* or not at all, and a task nobody has cancelled is registered and has a  *)
(* client that is still open (modbus_connection_manager.py:78-83, 117-123).*)
TaskAndClient ==
    /\ tasks = clients
    /\ \A id \in Id :
          /\ poll[id] = "run" => id \in tasks /\ client[id] = "open"
          /\ client[id] = "open" => id \in clients

(* A connection is polled that is no more only if it was deleted while its *)
(* create awaited client.connect().                                        *)
OrphansOnlyOvertaken ==
    \A id \in tasks : Live(id) \/ id \in overtaken

(* From close() to the end of the loop, whatever still runs on it, a client *)
(* is open, or a connection polled, only if it was no registered one that  *)
(* close() went over: its connect() was awaited at the time, or its create *)
(* came later still.  Those are the clients the docstring (108-115) means  *)
(* to leave none of, since an open one can stall asyncio's shutdown.       *)
CloseReachesRegistered ==
    phase \in {"closed", "cancelled", "down"} =>
        \A id \in Id : client[id] = "open" \/ poll[id] = "run" => id \in missed

(* start() comes to an end, and with every persisted connection polled:    *)
(* unlike create_connection it cannot be overtaken.                        *)
RestoreCompletes ==
    \A id \in Id :
        (phase = "start" /\ stateFile[id] # Absent)
            ~> (id \in tasks \/ phase = "failed")

-----------------------------------------------------------------------------
(* What the repository says of the connections, and the code does not do *)

(* openapi.yaml:304 of delete: "Cancels the poll task and removes it from  *)
(* persisted state"; tests/test_modbus_connection_manager.py:58: "deletion *)
(* actually stopped the poll task, not just the bookkeeping".              *)
PolledIsListed == \A id \in tasks : Live(id)
=============================================================================
