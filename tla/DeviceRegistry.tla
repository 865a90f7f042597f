--------------------------- MODULE DeviceRegistry ---------------------------
(***************************************************************************)
(* fbf/device_registry.py: the devices the periodic scans have found, what *)
(* people say of them, and the checks for factory-default logins.          *)
(*                                                                         *)
(* All of it runs on the asyncio loop thread.  A method awaits nothing     *)
(* between reading the records and saving them, so each is one step for    *)
(* the other tasks; a kill in the middle of one leaves what a kill before  *)
(* it leaves, because the save at its end is what a restart can see.  But  *)
(* a default-credential check runs in a worker thread for up to half a     *)
(* minute (asyncio.to_thread): scans, requests, other checks of the same   *)
(* device, the password change it is about and the end of the process all  *)
(* fall between its question and its answer.  A caller that stops waiting  *)
(* (HTTP 504) does not stop the check.                                     *)
(*                                                                         *)
(* The connections are those of the two managers and change under the      *)
(* registry's feet.                                                        *)
(***************************************************************************)
EXTENDS Integers, FiniteSets

CONSTANTS
    Id,                 \* uuids new_connection_id may return
    Device,             \* keys: instance and address, or host and port
    Scan,               \* the periodic scan tasks: one of BACnet, one per CIDR
    ModbusScan,         \* those of Modbus, whose CIDRs may overlap
    Credential,         \* credentials a person may set; None is not one
    None,               \* no credential
    Absent,             \* no record under this id
    Unknown,            \* what a caller knows of a request that did not succeed
    MaxConnections,     \* bound: connections ever created
    MaxChecks,          \* bound: times checks are started
    MaxDiskErrors,      \* bound: calls of connection_store.save that raise
    MaxKills            \* bound: hard kills of the process

ASSUME RegistryAssumption ==
    /\ ModbusScan \subseteq Scan
    /\ None \notin Credential
    /\ Absent \notin Device
    /\ Unknown \notin Credential \cup {None}
    /\ MaxConnections \in Nat
    /\ MaxChecks \in Nat
    /\ MaxDiskErrors \in Nat
    /\ MaxKills \in Nat

VARIABLES
    records,            \* self.records
    stateFile,          \* the same, as persisted
    modbus,             \* the Modbus devices; the others are BACnet
    connections,        \* the device of each connection the managers have
    created,            \* connections created so far
    scanning,           \* the periodic scan tasks still alive
    checks,             \* default-credential checks under way
    started,            \* times checks were started: orders them
    used,               \* ids drawn so far
    acked,              \* credential the last answer for a device confirmed
    dismissed,          \* devices confirmed "ignored", with no connection since
    autoChecks,         \* automatic checks each device has had
    told,               \* found by a scan, and no connection or status set since
    diskErrors, kills

store == <<records, stateFile>>
world == <<modbus, connections, created>>
tasks == <<scanning, checks, started>>
history == <<used, acked, dismissed, autoChecks, told>>
bounds == <<diskErrors, kills>>
vars == <<store, world, tasks, history, bounds>>

ConnectionId == 1..MaxConnections
NoConnection == 0
(* set_status takes any string; one openapi.yaml:393 does not list is      *)
(* treated like "ignored" by everything here.                              *)
Status == {"pending", "provisioned", "ignored"}

(* `checked' is the check whose answer default_credential_flag holds, 0    *)
(* for none: the answer itself makes no difference to the registry.        *)
DeviceRecord ==
    [device : Device, status : Status, connection : ConnectionId \cup {NoConnection},
     credential : Credential \cup {None}, checked : 0..MaxChecks]

ASSUME AbsentAssumption == Absent \notin DeviceRecord

Check == [id : Id, number : 1..MaxChecks, answered : BOOLEAN]

(* The types; a check is of the record of a Modbus device. *)
TypeOK ==
    /\ records \in [Id -> DeviceRecord \cup {Absent}]
    /\ stateFile \in [Id -> DeviceRecord \cup {Absent}]
    /\ modbus \subseteq Device
    /\ connections \in [ConnectionId -> Device \cup {Absent}]
    /\ created \in 0..MaxConnections
    /\ scanning \subseteq Scan
    /\ checks \subseteq Check
    /\ \A c \in checks :
          records[c.id] # Absent /\ records[c.id].device \in modbus
    /\ started \in 0..MaxChecks
    /\ used \subseteq Id
    /\ acked \in [Id -> Credential \cup {None, Unknown}]
    /\ dismissed \subseteq Id
    /\ autoChecks \in [Device -> 0..MaxChecks]
    /\ told \subseteq Device
    /\ diskErrors \in 0..MaxDiskErrors
    /\ kills \in 0..MaxKills

Init ==
    /\ records = [id \in Id |-> Absent]
    /\ stateFile = [id \in Id |-> Absent]
    /\ modbus \in SUBSET Device
    /\ connections = [c \in ConnectionId |-> Absent]
    /\ created = 0
    /\ scanning = Scan
    /\ checks = {} /\ started = 0
    /\ used = {}
    /\ acked = [id \in Id |-> None]
    /\ dismissed = {}
    /\ autoChecks = [d \in Device |-> 0]
    /\ told = {}
    /\ diskErrors = 0 /\ kills = 0

Live(id) == records[id] # Absent

-----------------------------------------------------------------------------
(* Reconciliation of a scan *)

\* Faulty: takes a device a person has dismissed for a new one.
FindUndismissed(d) ==
    {id \in Id : Live(id) /\ records[id].device = d /\ records[id].status # "ignored"}
(* _find, which returns the first: UniqueDevices says there is one at most. *)
Find(d) == {id \in Id : Live(id) /\ records[id].device = d}

\* Faulty: of several connections to a device, takes the oldest.
EldestOf(ids) == CHOOSE c \in ids : \A other \in ids : c <= other
(* connection_by_key is filled in the order of creation: the latest wins. *)
LatestOf(ids) == CHOOSE c \in ids : \A other \in ids : other <= c

ConnectionsOf(d) == {c \in ConnectionId : connections[c] = d}
Connection(d) ==
    IF ConnectionsOf(d) = {} THEN NoConnection ELSE LatestOf(ConnectionsOf(d))

NewRecord(d) ==
    [device |-> d,
     status |-> IF Connection(d) # NoConnection THEN "provisioned" ELSE "pending",
     connection |-> Connection(d),
     credential |-> None, checked |-> 0]

\* Faulty: the record of a device found again is made anew.
RescannedAsNew(r) == NewRecord(r.device)
\* Faulty: a device without a connection is pending, dismissed or not.
RescannedAnew(r) ==
    [r EXCEPT !.status = IF Connection(r.device) # NoConnection
                         THEN "provisioned" ELSE "pending",
              !.connection = Connection(r.device)]
(* What a rescan makes of the record of a device it found again. *)
Rescanned(r) ==
    IF Connection(r.device) # NoConnection \/ r.status = "provisioned"
    THEN [r EXCEPT !.status = IF Connection(r.device) # NoConnection
                              THEN "provisioned" ELSE "pending",
                   !.connection = Connection(r.device)]
    ELSE r

(* The records after a scan found the devices in found, the new ones of    *)
(* which get the ids newId gives them.                                     *)
Reconciled(found, new, newId) ==
    [id \in Id |->
        CASE \E d \in new : newId[d] = id ->
               NewRecord(CHOOSE d \in new : newId[d] = id)
          [] Live(id) /\ id \in UNION {Find(d) : d \in found} ->
               Rescanned(records[id])
          [] OTHER -> records[id]]

Save == stateFile' = records' /\ UNCHANGED diskErrors
(* connection_store.save leaves the old file as it was when it raises. *)
SaveRaises ==
    /\ diskErrors < MaxDiskErrors
    /\ diskErrors' = diskErrors + 1
    /\ UNCHANGED stateFile

\* Faulty: every pending device, on every pass.
AllPending(found, new) ==
    {d \in found \cap modbus : Connection(d) = NoConnection}
(* new_pending_hosts *)
NewPending(found, new) ==
    {d \in new \cap modbus : Connection(d) = NoConnection}

IdOf(d) == CHOOSE id \in Id : records'[id] # Absent /\ records'[id].device = d

(* The create_task loop at the end of reconcile_modbus. *)
StartDefaultChecks(devices) ==
    IF devices = {} THEN UNCHANGED <<checks, started, autoChecks>>
    ELSE /\ started < MaxChecks
         /\ started' = started + 1
         /\ checks' = checks \cup
               {[id |-> IdOf(d), number |-> started + 1, answered |-> FALSE] :
                   d \in devices}
         /\ autoChecks' = [d \in Device |->
               IF d \in devices THEN autoChecks[d] + 1 ELSE autoChecks[d]]

(* A turn of run_periodic_*_scan.  The scan finds any of the devices of    *)
(* its protocol that it can reach; the connections are those of the moment *)
(* it reconciles.  A save that raises comes before the checks, and ends    *)
(* the periodic scan for good.                                             *)
Rescan(s, found) ==
    LET new == {d \in found : Find(d) = {}} IN
    /\ s \in scanning
    /\ found \subseteq (IF s \in ModbusScan THEN modbus ELSE Device \ modbus)
    /\ \E newId \in [new -> Id \ used] :
          /\ \A d, e \in new : newId[d] = newId[e] => d = e
          /\ records' = Reconciled(found, new, newId)
          /\ used' = used \cup {newId[d] : d \in new}
    /\ \/ Save /\ StartDefaultChecks(NewPending(found, new)) /\ UNCHANGED scanning
       \/ /\ SaveRaises
          /\ scanning' = scanning \ {s}
          /\ UNCHANGED <<checks, started, autoChecks>>
    /\ dismissed' = {id \in dismissed :
                        \/ records[id].device \notin found
                        \/ Connection(records[id].device) = NoConnection}
    /\ told' = told \cup found
    /\ UNCHANGED <<world, acked, kills>>

(* Who-Is or the sweep raises: so does the periodic scan. *)
ScanRaises(s) ==
    /\ s \in scanning
    /\ scanning' = scanning \ {s}
    /\ UNCHANGED <<store, world, checks, started, history, bounds>>

-----------------------------------------------------------------------------
(* Requests *)

(* set_status of a device there is, whatever its connections are. *)
SetStatus(id, status) ==
    /\ Live(id)
    /\ records' = [records EXCEPT ![id].status = status]
    /\ \/ /\ Save
          /\ dismissed' = IF status = "ignored" THEN dismissed \cup {id}
                                                ELSE dismissed \ {id}
       \/ SaveRaises /\ dismissed' = dismissed \ {id}
    /\ told' = told \ {records[id].device}
    /\ UNCHANGED <<world, tasks, used, acked, autoChecks, kills>>

SetCredential(id, credential) ==
    /\ Live(id)
    /\ records' = [records EXCEPT ![id].credential = credential]
    /\ \/ Save /\ acked' = [acked EXCEPT ![id] = credential]
       \/ SaveRaises /\ acked' = [acked EXCEPT ![id] = Unknown]
    /\ UNCHANGED <<world, tasks, used, dismissed, autoChecks, told, kills>>

(* `record["protocol"] != "modbus"' returns the record as it is. *)
CanBeChecked(id) == records[id].device \in modbus

(* recheck_credentials, up to the await of the worker thread. *)
Recheck(id) ==
    /\ Live(id)
    /\ CanBeChecked(id)
    /\ started < MaxChecks
    /\ started' = started + 1
    /\ checks' = checks \cup
          {[id |-> id, number |-> started + 1, answered |-> FALSE]}
    /\ UNCHANGED <<store, world, scanning, history, bounds>>

-----------------------------------------------------------------------------
(* The checks *)

(* default_credential_check.check, in a worker thread, comes to an end:    *)
(* with the default login that got in, or with None when none did or the   *)
(* device could not be reached.                                            *)
Probe(c) ==
    /\ c \in checks
    /\ ~c.answered
    /\ checks' = (checks \ {c}) \cup {[c EXCEPT !.answered = TRUE]}
    /\ UNCHANGED <<store, world, scanning, started, history, bounds>>

\* Faulty: keeps the first answer there is, as if a recheck were a retry.
CheckedIfNever(c) ==
    IF records[c.id].checked = 0
    THEN [records EXCEPT ![c.id].checked = c.number] ELSE records
Checked(c) == [records EXCEPT ![c.id].checked = c.number]

(* _run_default_check and recheck_credentials after their await.  A save   *)
(* that raises has the record changed already.                             *)
CheckDone(c) ==
    /\ c \in checks
    /\ c.answered
    /\ checks' = checks \ {c}
    /\ records' = Checked(c)
    /\ Save \/ SaveRaises
    /\ UNCHANGED <<world, scanning, started, history, kills>>

-----------------------------------------------------------------------------
(* The world *)

(* A connection is created or deleted by one of the managers. *)
ConnectionCreated(d) ==
    /\ created < MaxConnections
    /\ created' = created + 1
    /\ connections' = [connections EXCEPT ![created + 1] = d]
    /\ told' = told \ {d}
    /\ UNCHANGED <<store, modbus, tasks, used, acked, dismissed, autoChecks, bounds>>

ConnectionDeleted(c) ==
    /\ connections[c] # Absent
    /\ connections' = [connections EXCEPT ![c] = Absent]
    /\ told' = told \ {connections[c]}
    /\ UNCHANGED <<store, modbus, created, tasks, used, acked, dismissed,
                   autoChecks, bounds>>

(* A hard kill and the restart: start() loads the file, the periodic scans *)
(* begin again, and the checks under way are gone.                         *)
KillAndRestart ==
    /\ kills < MaxKills
    /\ kills' = kills + 1
    /\ records' = stateFile
    /\ scanning' = Scan
    /\ checks' = {}
    /\ told' = IF records = stateFile THEN told ELSE {}
    /\ UNCHANGED <<stateFile, world, started, used, acked, dismissed,
                   autoChecks, diskErrors>>

-----------------------------------------------------------------------------
Request ==
    \E id \in Id :
        \/ \E status \in Status : SetStatus(id, status)
        \/ \E credential \in Credential : SetCredential(id, credential)
        \/ Recheck(id)

Checking == \E c \in checks : Probe(c) \/ CheckDone(c)

World ==
    \/ \E d \in Device : ConnectionCreated(d)
    \/ \E c \in ConnectionId : ConnectionDeleted(c)

Next ==
    \/ \E s \in Scan : ScanRaises(s) \/ \E found \in SUBSET Device : Rescan(s, found)
    \/ Request
    \/ Checking
    \/ World
    \/ KillAndRestart

Spec == Init /\ [][Next]_vars

(* A worker thread comes to an end, every request in it having a timeout,  *)
(* and the loop takes its result.  Scans and people owe nothing.           *)
FairSpec == Spec /\ WF_vars(Checking)

-----------------------------------------------------------------------------
(* Properties *)

(* A device has one record, in memory and on disk: overlapping CIDRs, a    *)
(* restart after a failed save and a device in any status are found again  *)
(* under the key they were stored under (device_registry.py:195-204).      *)
UniqueDevices ==
    \A file \in {records, stateFile} : \A id, other \in Id :
        file[id] # Absent /\ file[other] # Absent
            /\ file[id].device = file[other].device => id = other

(* The credential last confirmed for a device is what a restart loads:     *)
(* rescans, checks and failed requests for it in between keep it.          *)
CredentialDurable ==
    \A id \in Id :
        acked[id] # Unknown =>
            \/ acked[id] = None /\ stateFile[id] = Absent
            \/ stateFile[id] # Absent /\ stateFile[id].credential = acked[id]

(* openapi.yaml:358, "ignored (a human dismissed it - survives rescans)":  *)
(* it does, and restarts, until somebody sets another status or a scan     *)
(* finds the device with a connection.                                     *)
DismissedStaysIgnored ==
    \A id \in dismissed :
        stateFile[id] # Absent /\ stateFile[id].status = "ignored"

(* device_registry.py:178-181: the automatic check runs for a device "seen *)
(* as pending for the first time - not re-run on every periodic pass".     *)
(* Not even a kill or a failed save makes the device first again: a check  *)
(* is started only when the device is on disk.                             *)
CheckedOnce == \A d \in Device : autoChecks[d] <= 1

(* Once a scan has found a device, and until its connections or its status *)
(* change again, its record is provisioned exactly if it has a connection, *)
(* by the latest one: whatever a person had set before, and whatever       *)
(* checks, other scans and restarts fall in between                        *)
(* (device_registry.py:121-127, 166-172).                                  *)
RecordTellsConnection ==
    \A d \in told : \E id \in Find(d) :
        IF ConnectionsOf(d) = {}
        THEN records[id].status # "provisioned"
        ELSE /\ records[id].status = "provisioned"
             /\ records[id].connection \in ConnectionsOf(d)
             /\ \A c \in ConnectionsOf(d) : c <= records[id].connection

(* The answer of each check that was started, or that of one started after *)
(* it, reaches the record, unless the process dies: no scan, request or    *)
(* earlier answer makes _run_default_check or recheck_credentials drop it, *)
(* so that after a password change it is a recheck's own answer that shows *)
(* (device_registry.py:68-79), if only until an older check ends.          *)
CheckReachesRecord ==
    \A id \in Id : \A n \in 1..MaxChecks : \A k \in 0..MaxKills :
        (kills = k /\ \E c \in checks : c.id = id /\ c.number = n)
            ~> (kills > k \/ (Live(id) /\ records[id].checked >= n))
=============================================================================
