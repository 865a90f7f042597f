-------------------------- MODULE ConnectionManager --------------------------
(***************************************************************************)
(* fbf/connection_manager.py: the BACnet connections, their poll tasks and *)
(* the state file they are restored from.                                  *)
(*                                                                         *)
(* Every method runs on the asyncio loop thread and awaits nothing but     *)
(* the network, so create, delete and set_credential are atomic for the    *)
(* other tasks; but a hard kill can fall between any two of their          *)
(* statements, and a statement that raises leaves the ones before it done. *)
(* `pc' is where the loop is in such a method: while it is not "idle" no   *)
(* task of the loop takes a step.                                          *)
(*                                                                         *)
(* A connection has one poll task, which gathers one task per point.       *)
(* Task.cancel() only marks a task: it ends at its own next step.          *)
(* asyncio is modelled from how the module uses it: cancelling a task that *)
(* awaits a pending gather cancels the gathered tasks; when one of them    *)
(* raises, the gather ends with its exception and the others run on; and   *)
(* cancelling a finished task does nothing.                                *)
(***************************************************************************)
EXTENDS Integers, FiniteSets

CONSTANTS
    Id,                 \* uuids new_connection_id may return
    Point,              \* the points of a connection
    Credential,         \* credentials, None among them
    Absent,             \* no record under this id
    Unknown,            \* what a caller knows of a request that did not succeed
    NoId,               \* no connection is being worked on
    DiskErrors,         \* whether connection_store.save may raise
    TagErrors,          \* whether publishing tags may raise (mqtt_sink, labels)
    PointErrors,        \* whether a point task may raise (mqtt_sink, labels)
    MaxKills            \* bound: hard kills of the process

ASSUME ConnectionAssumption ==
    /\ Point # {}
    /\ Credential # {}
    /\ Absent \notin Credential
    /\ Unknown \notin Credential \cup {Absent}
    /\ NoId \notin Id
    /\ MaxKills \in Nat
    /\ DiskErrors \in BOOLEAN
    /\ TagErrors \in BOOLEAN
    /\ PointErrors \in BOOLEAN

VARIABLES
    connections,        \* self.connections: the credential in each record
    stateFile,          \* the same, as persisted
    tasks,              \* ids with an entry in self.tasks
    poll,               \* the poll task of each connection
    point,              \* the task of each of its points
    pc, cur,            \* the method the loop is inside of, and its connection
    used,               \* ids drawn so far
    tagged,             \* ids whose tags the sink has been given
    created,            \* ids create_connection has returned
    acked,              \* what the last answer to a caller says is persisted
    kills

store == <<connections, stateFile>>
running == <<tasks, poll, point>>
method == <<pc, cur>>
history == <<used, tagged, created, acked>>
vars == <<store, running, method, history, kills>>

Record == Credential \cup {Absent}
Live(id) == connections[id] # Absent

(* A poll task is new until its first step; it then awaits the gather; the *)
(* gather may fail before the task resumes; a cancelled task ends at its   *)
(* next step; and it ends cancelled ("done") or by an exception            *)
(* ("crashed").  "none": this process has not created it.                  *)
PollState == {"none", "new", "gather", "failing",
              "cancel_new", "cancel_gather", "cancel_failing",
              "done", "crashed"}
PointState == {"none", "run", "cancel", "done"}
NoPoints == [p \in Point |-> "none"]

(* The types, with the points a poll task can have at each stage: none     *)
(* before its first step, and only cancelled ones under a cancelled gather.*)
TypeOK ==
    /\ connections \in [Id -> Record]
    /\ stateFile \in [Id -> Record]
    /\ tasks \subseteq Id
    /\ poll \in [Id -> PollState]
    /\ point \in [Id -> [Point -> PointState]]
    /\ pc \in {"idle", "create_save", "create_tag", "create_start",
               "delete_save", "set_save"}
    /\ cur \in Id \cup {NoId}
    /\ pc = "idle" <=> cur = NoId
    /\ used \subseteq Id
    /\ tagged \subseteq Id
    /\ created \subseteq Id
    /\ acked \in [Id -> Record \cup {Unknown}]
    /\ kills \in 0..MaxKills
    /\ \A id \in Id :
          /\ poll[id] \in {"none", "new", "cancel_new"} => point[id] = NoPoints
          /\ poll[id] = "cancel_gather" => \A p \in Point : point[id][p] # "run"

Init ==
    /\ connections = [id \in Id |-> Absent]
    /\ stateFile = [id \in Id |-> Absent]
    /\ tasks = {}
    /\ poll = [id \in Id |-> "none"]
    /\ point = [id \in Id |-> NoPoints]
    /\ pc = "idle" /\ cur = NoId
    /\ used = {} /\ tagged = {} /\ created = {}
    /\ acked = [id \in Id |-> Absent]
    /\ kills = 0

-----------------------------------------------------------------------------
(* The methods *)

Enter(at, id) == pc = "idle" /\ pc' = at /\ cur' = id
Continue(from, to) == pc = from /\ pc' = to /\ UNCHANGED cur
Leave == pc' = "idle" /\ cur' = NoId
Answer(id, what) == acked' = [acked EXCEPT ![id] = what]

(* create_connection: the record goes into self.connections first. *)
CreateConnection(id, credential) ==
    /\ id \notin used
    /\ Enter("create_save", id)
    /\ connections' = [connections EXCEPT ![id] = credential]
    /\ used' = used \cup {id}
    /\ Answer(id, Unknown)
    /\ UNCHANGED <<stateFile, running, tagged, created, kills>>

\* Faulty: persists only the record at hand.
PersistedAlone == [id \in Id |-> IF id = cur THEN connections[id] ELSE Absent]
(* list(self.connections.values()) *)
Persisted == connections

(* _save replaces the whole file at once ... *)
CreateSave ==
    /\ Continue("create_save", "create_tag")
    /\ stateFile' = Persisted
    /\ UNCHANGED <<connections, running, history, kills>>

(* ... or raises and leaves it as it was; the method ends there, with      *)
(* what it did to self.connections and self.tasks still done.              *)
SaveRaises ==
    /\ DiskErrors
    /\ pc \in {"create_save", "delete_save", "set_save"}
    /\ Leave
    /\ UNCHANGED <<store, running, history, kills>>

(* _tag_points and _publish_equip_membership hand the tags to mqtt_sink. *)
CreateTag ==
    /\ Continue("create_tag", "create_start")
    /\ tagged' = tagged \cup {cur}
    /\ UNCHANGED <<store, running, used, created, acked, kills>>

\* Faulty: goes on to the poll task without the tags.
PollUntagged == pc' = "create_start" /\ UNCHANGED cur
(* The record stays, persisted, without a poll task. *)
LeaveUntagged == Leave

(* A point without a label, a label paho refuses, a spool that cannot be   *)
(* written.                                                                *)
CreateTagRaises ==
    /\ TagErrors
    /\ pc = "create_tag"
    /\ LeaveUntagged
    /\ UNCHANGED <<store, running, history, kills>>

(* _start_poll_task *)
CreateStart ==
    /\ pc = "create_start"
    /\ Leave
    /\ tasks' = tasks \cup {cur}
    /\ poll' = [poll EXCEPT ![cur] = "new"]
    /\ created' = created \cup {cur}
    /\ Answer(cur, connections[cur])
    /\ UNCHANGED <<store, point, used, tagged, kills>>

\* Faulty: takes the gather not to pass a cancellation on.
CancelPointsLater(id) == UNCHANGED point
(* Cancelling a pending gather cancels every point task not done yet. *)
CancelPoints(id) ==
    point' = [point EXCEPT ![id] =
                 [p \in Point |-> IF @[p] = "run" THEN "cancel" ELSE @[p]]]

(* task.cancel() *)
CancelPoll(id) ==
    /\ poll' = [poll EXCEPT ![id] =
          CASE @ = "new"     -> "cancel_new"
            [] @ = "gather"  -> "cancel_gather"
            [] @ = "failing" -> "cancel_failing"
            [] OTHER         -> @]
    /\ IF poll[id] = "gather" THEN CancelPoints(id) ELSE UNCHANGED point

\* Faulty: keeps the cancelled task.
UnregisterNot(id) == UNCHANGED tasks
(* self.tasks.pop(connection_id, None) *)
Unregister(id) == tasks' = tasks \ {id}

(* delete_connection of an id there is; any other answers False. *)
DeleteConnection(id) ==
    /\ Live(id)
    /\ Enter("delete_save", id)
    /\ Unregister(id)
    /\ IF id \in tasks THEN CancelPoll(id) ELSE UNCHANGED <<poll, point>>
    /\ connections' = [connections EXCEPT ![id] = Absent]
    /\ Answer(id, Unknown)
    /\ UNCHANGED <<stateFile, used, tagged, created, kills>>

(* set_credential of an id there is; any other answers None. *)
SetCredential(id, credential) ==
    /\ Live(id)
    /\ Enter("set_save", id)
    /\ connections' = [connections EXCEPT ![id] = credential]
    /\ Answer(id, Unknown)
    /\ UNCHANGED <<stateFile, running, used, tagged, created, kills>>

(* The _save both end with. *)
SaveReturns ==
    /\ pc \in {"delete_save", "set_save"}
    /\ Leave
    /\ stateFile' = Persisted
    /\ Answer(cur, connections[cur])
    /\ UNCHANGED <<connections, running, used, tagged, created, kills>>

-----------------------------------------------------------------------------
(* The tasks *)

(* The first step of _poll_loop: a task per point, and the gather. *)
PollStart(id) ==
    /\ pc = "idle"
    /\ poll[id] = "new"
    /\ poll' = [poll EXCEPT ![id] = "gather"]
    /\ point' = [point EXCEPT ![id] = [p \in Point |-> "run"]]
    /\ UNCHANGED <<store, tasks, method, history, kills>>

(* publish_reading raises in _poll_point: the exception ends the gather,   *)
(* if it is the first one, and not the other points.                       *)
PointRaises(id, p) ==
    /\ PointErrors
    /\ pc = "idle"
    /\ point[id][p] = "run"
    /\ point' = [point EXCEPT ![id][p] = "done"]
    /\ poll' = [poll EXCEPT ![id] = IF @ = "gather" THEN "failing" ELSE @]
    /\ UNCHANGED <<store, tasks, method, history, kills>>

PointCancelled(id, p) ==
    /\ pc = "idle"
    /\ point[id][p] = "cancel"
    /\ point' = [point EXCEPT ![id][p] = "done"]
    /\ UNCHANGED <<store, tasks, poll, method, history, kills>>

(* The gather's exception ends the poll task; the crash logger prints it,  *)
(* and its entry stays in self.tasks.                                      *)
PollCrashes(id) ==
    /\ pc = "idle"
    /\ poll[id] = "failing"
    /\ poll' = [poll EXCEPT ![id] = "crashed"]
    /\ UNCHANGED <<store, tasks, point, method, history, kills>>

PollEnds(id) == poll' = [poll EXCEPT ![id] = "done"]

(* A poll task cancelled before its first step never runs. *)
PollNeverStarts(id) ==
    /\ pc = "idle"
    /\ poll[id] = "cancel_new"
    /\ PollEnds(id)
    /\ UNCHANGED <<store, tasks, point, method, history, kills>>

(* The cancelled gather is over once each of its tasks is; the `except'    *)
(* finds nothing left to cancel.                                           *)
PollCancelled(id) ==
    /\ pc = "idle"
    /\ poll[id] = "cancel_gather"
    /\ \A p \in Point : point[id][p] = "done"
    /\ PollEnds(id)
    /\ UNCHANGED <<store, tasks, point, method, history, kills>>

(* Cancelled when the gather had failed already: the CancelledError takes  *)
(* the place of the exception, and the `except' cancels the points.        *)
PollCancelledFailing(id) ==
    /\ pc = "idle"
    /\ poll[id] = "cancel_failing"
    /\ PollEnds(id)
    /\ CancelPoints(id)
    /\ UNCHANGED <<store, tasks, method, history, kills>>

-----------------------------------------------------------------------------
(* A hard kill, wherever the loop is, and the restart: start() restores    *)
(* the persisted records and gives each a poll task, but no tags.          *)
KillAndRestart ==
    /\ kills < MaxKills
    /\ kills' = kills + 1
    /\ connections' = stateFile
    /\ tasks' = {id \in Id : stateFile[id] # Absent}
    /\ poll' = [id \in Id |-> IF stateFile[id] # Absent THEN "new" ELSE "none"]
    /\ point' = [id \in Id |-> NoPoints]
    /\ Leave
    /\ UNCHANGED <<stateFile, history>>

-----------------------------------------------------------------------------
Request ==
    \E id \in Id :
        \/ \E credential \in Credential :
              CreateConnection(id, credential) \/ SetCredential(id, credential)
        \/ DeleteConnection(id)

Method ==
    \/ CreateSave
    \/ CreateTag
    \/ CreateStart
    \/ SaveReturns

Raise == SaveRaises \/ CreateTagRaises

Task(id) ==
    \/ PollStart(id)
    \/ PollCrashes(id)
    \/ PollNeverStarts(id)
    \/ PollCancelled(id)
    \/ PollCancelledFailing(id)
    \/ \E p \in Point : PointCancelled(id, p)

Next ==
    \/ Request
    \/ Method
    \/ Raise
    \/ \E id \in Id : Task(id) \/ \E p \in Point : PointRaises(id, p)
    \/ KillAndRestart

Spec == Init /\ [][Next]_vars

(* The loop finishes the method it is in.  Its ready queue is first in,    *)
(* first out, so a task that can run does, however many requests keep      *)
(* arriving (strong fairness: a method in progress disables the tasks).    *)
(* Callers, errors and kills owe nothing.                                  *)
FairSpec ==
    /\ Spec
    /\ WF_vars(Method)
    /\ \A id \in Id : SF_vars(Task(id))

-----------------------------------------------------------------------------
(* Properties *)

(* What the last successful answer for a connection said is what a restart *)
(* restores, whatever was killed, failed or done to other connections      *)
(* since: every _save writes the whole dictionary (connection_manager.py:  *)
(* 208), those of requests that failed half-way included.                  *)
AckedDurable ==
    \A id \in Id : acked[id] # Unknown => stateFile[id] = acked[id]

(* The two dictionaries agree: a registered task has a record, and a poll  *)
(* task that nobody has cancelled is registered, so that delete_connection *)
(* can always reach it (connection_manager.py:177-184, 213).               *)
TasksHaveRecords ==
    \A id \in Id :
        /\ id \in tasks => Live(id)
        /\ poll[id] \in {"new", "gather", "failing"} => id \in tasks

(* A point that goes on polling for a connection that is no more is only   *)
(* ever one whose poll task had failed before the delete (or is about to   *)
(* be told): the cancellation reaches the points of every other one.       *)
OrphansOnlyOfFailed ==
    \A id \in Id : \A p \in Point :
        ~Live(id) /\ point[id][p] = "run"
            => poll[id] \in {"cancel_failing", "crashed"}

(* Polling starts for a connection that was never tagged in one way only:  *)
(* start() restores it although create_connection never returned it (its   *)
(* save or its tags raised, and it was persisted by then or by the save of *)
(* another request; or a kill came first).  A method never does, and one   *)
(* that was returned has its tags for good, so that "a later fbf.api       *)
(* restart doesn't need to republish" them (connection_manager.py:162-164).*)
UntaggedOnlyRestored ==
    [][\A id \in tasks' \ tasks :
          id \in tagged' \/ (kills' # kills /\ id \notin created)]_vars

Stopped(id) ==
    /\ poll[id] \in {"none", "done", "crashed"}
    /\ \A p \in Point : point[id][p] \in {"none", "done"}

(* Deleting a connection ends its poll task and the tasks of its points,   *)
(* also when it falls between the failure of the gather and the poll       *)
(* task's next step, unless the poll task had crashed by then.             *)
DeleteStopsUnlessCrashed ==
    \A id \in Id :
        ~Live(id) ~> (Stopped(id) \/ Live(id) \/ poll[id] = "crashed")

-----------------------------------------------------------------------------
(* What the repository says of the connections, and the code does not do *)

(* tests/test_connection_manager.py:72, "deletion actually stopped the     *)
(* poll task, not just the bookkeeping", and connection_manager.py:239-241,*)
(* delete "must explicitly cancel the per-point sub-tasks too".            *)
DeleteStops ==
    \A id \in Id : ~Live(id) ~> (Stopped(id) \/ Live(id))
=============================================================================
