------------------------- MODULE DeviceRegistryProofs -------------------------
(***************************************************************************)
(* Theorems about DeviceRegistry, for any devices, scans, requests, checks *)
(* and failures.                                                           *)
(*                                                                         *)
(* What is promised of the file has to hold of memory too, because a       *)
(* failed save leaves the two apart and the next one writes memory         *)
(* (Remembered, DismissedKept), and a device is automatically checked once *)
(* because the check starts only when the file has the device, from where  *)
(* nothing removes it (CheckedAreStored).  A new record gets an id that no *)
(* record ever had (Drawn).                                                *)
(***************************************************************************)
EXTENDS DeviceRegistry, WellFoundedInduction, TLAPS

Files == {records, stateFile}

(* The ids of records are drawn, and connections are created in order. *)
Drawn ==
    /\ \A file \in Files : \A id \in Id : file[id] # Absent => id \in used
    /\ \A c \in ConnectionId : c > created => connections[c] = Absent

Remembered ==
    \A file \in Files : \A id \in Id :
        acked[id] # Unknown =>
            IF file[id] = Absent THEN acked[id] = None
                                 ELSE file[id].credential = acked[id]

DismissedKept ==
    \A file \in Files : \A id \in dismissed :
        file[id] # Absent /\ file[id].status = "ignored"

CheckedAreStored ==
    \A file \in Files : \A d \in Device :
        autoChecks[d] > 0 => \E id \in Id : file[id] # Absent /\ file[id].device = d

IInv ==
    /\ TypeOK /\ Drawn /\ UniqueDevices
    /\ Remembered /\ DismissedKept
    /\ CheckedOnce /\ CheckedAreStored /\ RecordTellsConnection

-----------------------------------------------------------------------------
(* The latest connection *)

LessThan == {ss \in Nat \X Nat : ss[1] < ss[2]}

LEMMA NoDescent == IsWellFoundedOn(LessThan, Nat)
  BY NatLessThanWellFounded DEF OpToRel, LessThan

(* A set of connections that is not empty has a latest one. *)
LEMMA LatestExists ==
  ASSUME NEW n \in Nat, NEW S \in SUBSET (1..n), S # {}
  PROVE  \E c \in S : \A d \in S : d <= c
<1>. DEFINE T == {k \in Nat : k <= n /\ n - k \in S}
<1>1. T \subseteq Nat /\ T # {}
  <2>1. PICK c \in S : c \in 1..n
    OBVIOUS
  <2>2. n - c \in Nat /\ n - c <= n /\ n - (n - c) = c
    BY <2>1
  <2>. QED BY <2>1, <2>2
<1>2. \E x \in T : \A y \in T : <<y, x>> \notin LessThan
  <2>. HIDE DEF T
  <2>. QED BY NoDescent, <1>1, WFMin
<1>3. PICK k \in T : \A y \in T : ~(y < k)
  BY <1>2 DEF LessThan
<1>4. ASSUME NEW d \in S PROVE d <= n - k
  <2>1. n - d \in T
    BY <1>4
  <2>. QED BY <1>3, <2>1
<1>. QED BY <1>3, <1>4

LEMMA ConnectionIsLatest ==
  ASSUME TypeOK, NEW d \in Device
  PROVE  IF ConnectionsOf(d) = {} THEN Connection(d) = NoConnection
         ELSE /\ Connection(d) \in ConnectionsOf(d)
              /\ \A c \in ConnectionsOf(d) : c <= Connection(d)
<1>1. ConnectionsOf(d) \in SUBSET (1..MaxConnections) /\ MaxConnections \in Nat
  BY RegistryAssumption DEF ConnectionsOf, ConnectionId
<1>2. ConnectionsOf(d) # {} =>
        \E c \in ConnectionsOf(d) : \A other \in ConnectionsOf(d) : other <= c
  BY <1>1, LatestExists
<1>. QED BY <1>2 DEF Connection, LatestOf

(* A device has a connection number exactly if it has a connection. *)
LEMMA ConnectionTells ==
  ASSUME TypeOK, NEW d \in Device
  PROVE  /\ Connection(d) \in ConnectionId \cup {NoConnection}
         /\ Connection(d) = NoConnection <=> ConnectionsOf(d) = {}
<1>1. ConnectionsOf(d) \subseteq ConnectionId /\ NoConnection \notin ConnectionId
  BY RegistryAssumption DEF ConnectionsOf, ConnectionId, NoConnection
<1>. QED BY <1>1, ConnectionIsLatest

-----------------------------------------------------------------------------
(* What a scan makes of the records *)

LEMMA NewRecordIs ==
  ASSUME TypeOK, NEW d \in Device
  PROVE  /\ NewRecord(d) \in DeviceRecord
         /\ NewRecord(d).device = d
         /\ NewRecord(d).credential = None
         /\ NewRecord(d).connection = Connection(d)
         /\ NewRecord(d).status =
                IF Connection(d) # NoConnection THEN "provisioned" ELSE "pending"
  BY ConnectionTells, RegistryAssumption DEF NewRecord, DeviceRecord, Status

LEMMA RescannedIs ==
  ASSUME TypeOK, NEW r \in DeviceRecord
  PROVE  /\ Rescanned(r) \in DeviceRecord
         /\ Rescanned(r).device = r.device
         /\ Rescanned(r).credential = r.credential
         /\ IF Connection(r.device) # NoConnection
            THEN /\ Rescanned(r).status = "provisioned"
                 /\ Rescanned(r).connection = Connection(r.device)
            ELSE /\ Rescanned(r).status # "provisioned"
                 /\ r.status # "provisioned" => Rescanned(r) = r
  BY ConnectionTells DEF Rescanned, DeviceRecord, Status

(* New devices get records under new ids, devices found again are updated, *)
(* and no other record is touched.                                         *)
ScanMakes(R, found, new, newId) ==
    /\ R \in [Id -> DeviceRecord \cup {Absent}]
    /\ \A d \in new : newId[d] \in Id /\ ~Live(newId[d]) /\ R[newId[d]] = NewRecord(d)
    /\ \A id \in Id : Live(id) =>
           R[id] = IF records[id].device \in found
                   THEN Rescanned(records[id]) ELSE records[id]
    /\ \A id \in Id : ~Live(id) => R[id] = Absent \/ \E d \in new : newId[d] = id

LEMMA ReconciledIs ==
  ASSUME TypeOK, Drawn, NEW found \in SUBSET Device,
         NEW new \in SUBSET found, \A d \in new : Find(d) = {},
         NEW newId \in [new -> Id \ used],
         \A d, e \in new : newId[d] = newId[e] => d = e
  PROVE  ScanMakes(Reconciled(found, new, newId), found, new, newId)
<1>. DEFINE R == Reconciled(found, new, newId)
<1>1. \A d \in new : newId[d] \in Id /\ ~Live(newId[d])
  BY DEF Drawn, Live, Files
<1>2. ASSUME NEW d \in new PROVE R[newId[d]] = NewRecord(d)
  <2>1. (CHOOSE e \in new : newId[e] = newId[d]) = d
    OBVIOUS
  <2>. QED BY <1>1, <2>1 DEF Reconciled
<1>3. ASSUME NEW id \in Id, Live(id)
      PROVE  R[id] = IF records[id].device \in found
                     THEN Rescanned(records[id]) ELSE records[id]
  <2>1. ~ \E d \in new : newId[d] = id
    BY <1>1, <1>3
  <2>2. id \in UNION {Find(d) : d \in found} <=> records[id].device \in found
    BY <1>3 DEF Find
  <2>. QED BY <1>3, <2>1, <2>2 DEF Reconciled
<1>4. ASSUME NEW id \in Id, ~Live(id), ~ \E d \in new : newId[d] = id
      PROVE  R[id] = Absent
  BY <1>4 DEF Reconciled, Live
<1>5. R \in [Id -> DeviceRecord \cup {Absent}]
  <2>1. R = [id \in Id |-> R[id]]
    BY DEF Reconciled
  <2>2. ASSUME NEW id \in Id PROVE R[id] \in DeviceRecord \cup {Absent}
    <3>1. CASE Live(id)
      BY <1>3, <3>1, RescannedIs DEF TypeOK, Live
    <3>2. CASE \E d \in new : newId[d] = id
      BY <1>2, <3>2, NewRecordIs
    <3>3. CASE ~Live(id) /\ ~ \E d \in new : newId[d] = id
      BY <1>4, <3>3
    <3>. QED BY <3>1, <3>2, <3>3
  <2>. HIDE DEF R
  <2>. QED BY <2>1, <2>2
<1>. HIDE DEF R
<1>6. QED BY <1>1, <1>2, <1>3, <1>4, <1>5 DEF R, ScanMakes

-----------------------------------------------------------------------------
(* The inductive invariant *)

LEMMA Apart ==
    /\ None \notin Credential /\ Unknown # None /\ Unknown \notin Credential
    /\ Absent \notin Device /\ Absent \notin DeviceRecord
  BY RegistryAssumption, AbsentAssumption

LEMMA InitInv == Init => IInv
<1>. SUFFICES ASSUME Init PROVE IInv
  OBVIOUS
<1>1. TypeOK
  BY RegistryAssumption DEF Init, TypeOK
<1>. QED
  BY <1>1 DEF Init, IInv, Drawn, Files, UniqueDevices, Remembered, DismissedKept,
              CheckedOnce, CheckedAreStored, RecordTellsConnection

(* The checks a scan starts are of Modbus devices that are new. *)
LEMMA ChecksStarted ==
  ASSUME TypeOK, NEW devices \in SUBSET modbus, StartDefaultChecks(devices),
         \A d \in devices : \E id \in Id : records'[id] # Absent /\ records'[id].device = d
  PROVE  /\ checks' \subseteq Check /\ started' \in 0..MaxChecks
         /\ \A c \in checks' :
                \/ c \in checks
                \/ records'[c.id] # Absent /\ records'[c.id].device \in modbus
         /\ \A d \in Device : d \notin devices => autoChecks'[d] = autoChecks[d]
         /\ \A d \in devices : autoChecks'[d] = autoChecks[d] + 1 /\ started < MaxChecks
         /\ DOMAIN autoChecks' = Device
<1>1. CASE devices = {}
  BY <1>1 DEF StartDefaultChecks, TypeOK
<1>2. CASE devices # {}
  <2>1. \A d \in devices : /\ IdOf(d) \in Id
                           /\ records'[IdOf(d)] # Absent /\ records'[IdOf(d)].device = d
    BY DEF IdOf
  <2>2. started + 1 \in 1..MaxChecks
    BY <1>2, RegistryAssumption DEF StartDefaultChecks, TypeOK
  <2>3. \A d \in devices :
          [id |-> IdOf(d), number |-> started + 1, answered |-> FALSE] \in Check
    BY <2>1, <2>2 DEF Check
  <2>4. /\ started' = started + 1 /\ started < MaxChecks
        /\ checks' = checks \cup
              {[id |-> IdOf(d), number |-> started + 1, answered |-> FALSE] : d \in devices}
        /\ autoChecks' = [d \in Device |->
              IF d \in devices THEN autoChecks[d] + 1 ELSE autoChecks[d]]
    BY <1>2 DEF StartDefaultChecks
  <2>5. devices \subseteq Device
    BY DEF TypeOK
  <2>. HIDE DEF StartDefaultChecks, IdOf
  <2>. QED BY <2>1, <2>2, <2>3, <2>4, <2>5 DEF TypeOK
<1>. QED BY <1>1, <1>2

LEMMA RescanStep ==
  ASSUME IInv, NEW s \in Scan, NEW found \in SUBSET Device, Rescan(s, found)
  PROVE  IInv'
<1>. USE DEF store, world, tasks, history, bounds
<1>t. /\ TypeOK /\ Drawn /\ UniqueDevices /\ Remembered /\ DismissedKept
      /\ CheckedOnce /\ CheckedAreStored /\ RecordTellsConnection
  BY DEF IInv
<1>. DEFINE new == {d \in found : Find(d) = {}}
            devices == NewPending(found, new)
<1>1. PICK newId \in [new -> Id \ used] :
        /\ \A d, e \in new : newId[d] = newId[e] => d = e
        /\ records' = Reconciled(found, new, newId)
        /\ used' = used \cup {newId[d] : d \in new}
  BY DEF Rescan
<1>2. /\ UNCHANGED <<modbus, connections, created, acked, kills>>
      /\ \/ Save /\ StartDefaultChecks(devices) /\ UNCHANGED scanning
         \/ /\ SaveRaises /\ scanning' = scanning \ {s}
            /\ UNCHANGED <<checks, started, autoChecks>>
      /\ dismissed' = {id \in dismissed :
                          \/ records[id].device \notin found
                          \/ Connection(records[id].device) = NoConnection}
      /\ told' = told \cup found
  BY DEF Rescan
<1>n. new \in SUBSET found /\ \A d \in new : Find(d) = {}
  OBVIOUS
<1>. HIDE DEF new, devices
<1>3. /\ records' \in [Id -> DeviceRecord \cup {Absent}]
      /\ \A d \in new : newId[d] \in Id /\ ~Live(newId[d])
                        /\ records'[newId[d]] = NewRecord(d)
      /\ \A id \in Id : Live(id) =>
             records'[id] = IF records[id].device \in found
                            THEN Rescanned(records[id]) ELSE records[id]
      /\ \A id \in Id : ~Live(id) =>
             records'[id] = Absent \/ \E d \in new : newId[d] = id
  <2>1. ScanMakes(Reconciled(found, new, newId), found, new, newId)
    BY <1>1, <1>n, <1>t, ReconciledIs
  <2>. QED BY <1>1, <2>1 DEF ScanMakes
<1>4. \A d \in new : d \in found /\ d \in Device /\ Find(d) = {}
  BY DEF new
<1>5. devices \subseteq new \cap modbus
  BY DEF devices, NewPending
(* The records of before are records still, of the same devices. *)
<1>6. ASSUME NEW id \in Id, Live(id)
      PROVE  /\ records'[id] # Absent
             /\ records'[id].device = records[id].device
             /\ records'[id].credential = records[id].credential
  BY <1>3, <1>6, <1>t, RescannedIs, Apart DEF TypeOK, Live
<1>7. ASSUME NEW d \in new
      PROVE  /\ records'[newId[d]] # Absent
             /\ records'[newId[d]].device = d
             /\ records'[newId[d]].credential = None
  BY <1>3, <1>4, <1>t, NewRecordIs, Apart
<1>8. ASSUME NEW id \in Id, records'[id] # Absent
      PROVE  Live(id) \/ \E d \in new : newId[d] = id
  BY <1>3, <1>8
<1>9. stateFile' = records' \/ stateFile' = stateFile
  BY <1>2 DEF Save, SaveRaises
<1>10. diskErrors' \in 0..MaxDiskErrors
  BY <1>2, <1>t, RegistryAssumption DEF Save, SaveRaises, TypeOK
<1>11. StartDefaultChecks(devices) =>
         \A d \in devices : \E id \in Id : records'[id] # Absent /\ records'[id].device = d
  BY <1>3, <1>5, <1>7
<1>12. \A d \in devices : autoChecks[d] = 0
  <2>1. SUFFICES ASSUME NEW d \in devices, autoChecks[d] > 0 PROVE FALSE
    BY <1>4, <1>5, <1>t DEF TypeOK
  <2>2. PICK id \in Id : records[id] # Absent /\ records[id].device = d
    BY <2>1, <1>4, <1>5, <1>t DEF CheckedAreStored, Files
  <2>. QED BY <2>2, <1>4, <1>5 DEF Find, Live
<1>13. /\ checks' \subseteq Check /\ started' \in 0..MaxChecks
       /\ \A c \in checks' : records'[c.id] # Absent /\ records'[c.id].device \in modbus
       /\ autoChecks' \in [Device -> 0..MaxChecks]
  <2>1. \A c \in checks : records'[c.id] # Absent /\ records'[c.id].device \in modbus
    BY <1>6, <1>t DEF TypeOK, Check, Live
  <2>2. CASE UNCHANGED <<checks, started, autoChecks>>
    BY <2>1, <2>2, <1>t DEF TypeOK
  <2>3. CASE StartDefaultChecks(devices)
    <3>1. devices \subseteq modbus
      BY <1>5
    <3>2. autoChecks' = [d \in Device |-> autoChecks'[d]]
      BY <2>3, <1>t DEF StartDefaultChecks, TypeOK
    <3>3. \A d \in Device : autoChecks'[d] \in 0..MaxChecks
      BY <2>3, <3>1, <1>11, <1>12, <1>t, ChecksStarted, RegistryAssumption DEF TypeOK
    <3>4. autoChecks' \in [Device -> 0..MaxChecks]
      BY <3>2, <3>3
    <3>. QED BY <2>1, <2>3, <3>1, <3>4, <1>11, <1>t, ChecksStarted
  <2>. QED BY <2>2, <2>3, <1>2
<1>14. TypeOK'
  BY <1>1, <1>2, <1>3, <1>9, <1>10, <1>13, <1>t DEF TypeOK
<1>15. Drawn'
  BY <1>1, <1>2, <1>8, <1>9, <1>t DEF Drawn, Files, Live
<1>16. UniqueDevices'
  <2>1. ASSUME NEW id \in Id, NEW other \in Id,
               records'[id] # Absent, records'[other] # Absent,
               records'[id].device = records'[other].device
        PROVE  id = other
    <3>1. CASE Live(id) /\ Live(other)
      BY <2>1, <3>1, <1>6, <1>t DEF UniqueDevices, Live
    <3>2. ASSUME NEW a \in Id, NEW b \in Id, Live(a), NEW d \in new, newId[d] = b,
                 records'[a].device = records'[b].device
          PROVE  FALSE
      BY <3>2, <1>4, <1>6, <1>7 DEF Find
    <3>3. CASE ~Live(id) /\ ~Live(other)
      BY <2>1, <3>3, <1>1, <1>7, <1>8
    <3>. QED BY <2>1, <3>1, <3>2, <3>3, <1>8
  <2>. QED BY <2>1, <1>9, <1>t DEF UniqueDevices
<1>17. Remembered'
  <2>1. ASSUME NEW id \in Id, acked[id] # Unknown
        PROVE  IF records'[id] = Absent THEN acked[id] = None
               ELSE records'[id].credential = acked[id]
    <3>1. CASE Live(id)
      BY <2>1, <3>1, <1>6, <1>t DEF Remembered, Files, Live
    <3>2. CASE ~Live(id)
      BY <2>1, <3>2, <1>7, <1>8, <1>t DEF Remembered, Files, Live
    <3>. QED BY <3>1, <3>2
  <2>. QED BY <2>1, <1>2, <1>9, <1>t DEF Remembered, Files
<1>18. DismissedKept'
  <2>1. ASSUME NEW id \in dismissed'
        PROVE  records'[id] # Absent /\ records'[id].status = "ignored"
    <3>1. /\ id \in Id /\ Live(id) /\ records[id].status = "ignored"
          /\ records[id] \in DeviceRecord
      BY <2>1, <1>2, <1>t DEF DismissedKept, Files, Live, TypeOK
    <3>2. CASE records[id].device \in found
      <4>1. Connection(records[id].device) = NoConnection
        BY <2>1, <3>2, <1>2
      <4>2. Rescanned(records[id]) = records[id]
        BY <3>1, <4>1, <1>t, RescannedIs
      <4>. QED BY <3>1, <3>2, <4>2, <1>3 DEF Live
    <3>3. CASE records[id].device \notin found
      BY <3>1, <3>3, <1>3 DEF Live
    <3>. QED BY <3>2, <3>3
  <2>. QED BY <2>1, <1>2, <1>9, <1>t DEF DismissedKept, Files
<1>19. CheckedOnce'
  <2>1. CASE UNCHANGED autoChecks
    BY <2>1, <1>t DEF CheckedOnce
  <2>2. CASE StartDefaultChecks(devices)
    BY <2>2, <1>5, <1>11, <1>12, <1>t, ChecksStarted DEF CheckedOnce
  <2>. QED BY <2>1, <2>2, <1>2
<1>20. CheckedAreStored'
  <2>1. ASSUME NEW d \in Device, autoChecks[d] > 0
        PROVE  \E id \in Id : records'[id] # Absent /\ records'[id].device = d
    BY <2>1, <1>6, <1>t DEF CheckedAreStored, Files, Live
  <2>2. CASE UNCHANGED autoChecks
    BY <2>1, <2>2, <1>9, <1>t DEF CheckedAreStored, Files
  <2>3. CASE stateFile' = records' /\ StartDefaultChecks(devices)
    <3>1. \A d \in Device : d \notin devices => autoChecks'[d] = autoChecks[d]
      BY <2>3, <1>5, <1>11, <1>t, ChecksStarted
    <3>2. \A d \in devices : \E id \in Id : records'[id] # Absent /\ records'[id].device = d
      BY <2>3, <1>11
    <3>. QED BY <2>1, <2>3, <3>1, <3>2 DEF CheckedAreStored, Files
  <2>. QED BY <2>2, <2>3, <1>2 DEF Save
<1>21. RecordTellsConnection'
  <2>. DEFINE Tells(d, id) ==
         IF ConnectionsOf(d) = {}
         THEN records'[id].status # "provisioned"
         ELSE /\ records'[id].status = "provisioned"
              /\ records'[id].connection \in ConnectionsOf(d)
              /\ \A c \in ConnectionsOf(d) : c <= records'[id].connection
  <2>1. \A d \in Device : ConnectionsOf(d)' = ConnectionsOf(d)
    BY <1>2 DEF ConnectionsOf
  <2>2. ASSUME NEW d \in new PROVE Tells(d, newId[d])
    BY <2>2, <1>3, <1>4, <1>t, NewRecordIs, ConnectionIsLatest, ConnectionTells
  <2>3. ASSUME NEW id \in Id, Live(id), NEW d \in found, records[id].device = d
        PROVE  Tells(d, id)
    BY <2>3, <1>3, <1>t, RescannedIs, ConnectionIsLatest, ConnectionTells DEF TypeOK, Live
  <2>4. ASSUME NEW d \in told, d \notin found
        PROVE  \E id \in Id : Live(id) /\ records[id].device = d /\ Tells(d, id)
    BY <2>4, <1>3, <1>t DEF RecordTellsConnection, Find
  <2>5. ASSUME NEW d \in found, d \notin new
        PROVE  \E id \in Id : Live(id) /\ records[id].device = d
    BY <2>5 DEF new, Find
  <2>6. ASSUME NEW d \in told'
        PROVE  \E id \in Id : records'[id] # Absent /\ records'[id].device = d /\ Tells(d, id)
    <3>1. CASE d \in new
      BY <3>1, <2>2, <1>3, <1>7
    <3>2. CASE d \in found /\ d \notin new
      <4>1. PICK id \in Id : Live(id) /\ records[id].device = d
        BY <3>2, <2>5
      <4>2. Tells(d, id)
        BY <3>2, <4>1, <2>3
      <4>. QED BY <4>1, <4>2, <1>6
    <3>3. CASE d \notin found
      BY <3>3, <2>4, <2>6, <1>2, <1>6
    <3>. QED BY <3>1, <3>2, <3>3, <1>4
  <2>. QED
    BY <2>1, <2>6, <1>14 DEF RecordTellsConnection, Find, Live, TypeOK
<1>. QED BY <1>14, <1>15, <1>16, <1>17, <1>18, <1>19, <1>20, <1>21 DEF IInv

(* A step that changes the record of one device to r, which is still that  *)
(* device's, and saves or fails to: what it has to keep of the record.     *)
RecordChanged(i, r) ==
    /\ i \in Id /\ Live(i)
    /\ r \in DeviceRecord /\ r.device = records[i].device
    /\ records' = [records EXCEPT ![i] = r]
    /\ stateFile' = records' \/ stateFile' = stateFile
    /\ diskErrors' \in 0..MaxDiskErrors
    /\ UNCHANGED <<world, scanning, started, used, autoChecks, kills>>

CredentialKept(i, r) ==
    /\ acked' \in [Id -> Credential \cup {None, Unknown}]
    /\ \A id \in Id : id # i => acked'[id] = acked[id]
    /\ acked'[i] # Unknown =>
          /\ acked'[i] = r.credential
          /\ stateFile' = records' \/ acked'[i] = acked[i]

StatusKept(i, r) ==
    /\ dismissed' \subseteq Id
    /\ \A id \in dismissed' : id # i => id \in dismissed
    /\ i \in dismissed' =>
          /\ r.status = "ignored"
          /\ stateFile' = records' \/ i \in dismissed
    /\ told' \subseteq told
    /\ r.device \in told' =>
          r.status = records[i].status /\ r.connection = records[i].connection

LEMMA RecordStep ==
  ASSUME IInv, NEW i, NEW r,
         RecordChanged(i, r), CredentialKept(i, r), StatusKept(i, r), checks' \subseteq checks
  PROVE  IInv'
<1>. USE DEF world
<1>t. /\ TypeOK /\ Drawn /\ UniqueDevices /\ Remembered /\ DismissedKept
      /\ CheckedOnce /\ CheckedAreStored /\ RecordTellsConnection
  BY DEF IInv
<1>c. checks' \subseteq checks
  OBVIOUS
<1>f. stateFile' = records' \/ stateFile' = stateFile
  BY DEF RecordChanged
<1>u. UNCHANGED <<modbus, connections, created, scanning, started, used, autoChecks, kills>>
  BY DEF RecordChanged
<1>1. /\ i \in Id /\ records[i] # Absent /\ records'[i] = r /\ r # Absent
      /\ r.device = records[i].device
      /\ \A id \in Id : id # i => records'[id] = records[id]
      /\ records' \in [Id -> DeviceRecord \cup {Absent}]
  BY <1>t, Apart DEF RecordChanged, Live, TypeOK
<1>2. \A id \in Id : records'[id] # Absent <=> records[id] # Absent
  BY <1>1
<1>3. \A id \in Id : records[id] # Absent => records'[id].device = records[id].device
  BY <1>1
<1>5. TypeOK'
  <2>1. /\ diskErrors' \in 0..MaxDiskErrors /\ dismissed' \subseteq Id /\ told' \subseteq told
        /\ acked' \in [Id -> Credential \cup {None, Unknown}]
    BY DEF RecordChanged, CredentialKept, StatusKept
  <2>2. \A c \in checks' : records'[c.id] # Absent /\ records'[c.id].device \in modbus
    BY <1>c, <1>2, <1>3, <1>t DEF TypeOK, Check
  <2>. QED BY <2>1, <2>2, <1>1, <1>c, <1>f, <1>u, <1>t DEF TypeOK
<1>6. Drawn' /\ UniqueDevices'
  <2>1. /\ \A id \in Id : records'[id] # Absent => id \in used
        /\ \A id, other \in Id :
              records'[id] # Absent /\ records'[other] # Absent
                  /\ records'[id].device = records'[other].device => id = other
    BY <1>2, <1>3, <1>t DEF Drawn, Files, UniqueDevices
  <2>. QED BY <2>1, <1>f, <1>u, <1>t DEF Drawn, Files, UniqueDevices
<1>7. Remembered'
  <2>1. \A id \in Id : acked'[id] # Unknown =>
          /\ IF records'[id] = Absent THEN acked'[id] = None
                                      ELSE records'[id].credential = acked'[id]
          /\ stateFile' = records' \/ acked'[id] = acked[id]
    BY <1>1, <1>t DEF CredentialKept, Remembered, Files
  <2>. QED BY <2>1, <1>f, <1>t DEF Remembered, Files
<1>8. DismissedKept'
  <2>1. \A id \in dismissed' :
          /\ records'[id] # Absent /\ records'[id].status = "ignored"
          /\ stateFile' = records' \/ id \in dismissed
    BY <1>1, <1>t DEF StatusKept, DismissedKept, Files
  <2>. QED BY <2>1, <1>f, <1>t DEF DismissedKept, Files
<1>9. CheckedOnce' /\ CheckedAreStored'
  <2>1. \A d \in Device : autoChecks[d] > 0 =>
          \E id \in Id : records'[id] # Absent /\ records'[id].device = d
    BY <1>2, <1>3, <1>t DEF CheckedAreStored, Files
  <2>. QED BY <2>1, <1>f, <1>u, <1>t DEF CheckedOnce, CheckedAreStored, Files
<1>10. RecordTellsConnection'
  <2>1. ASSUME NEW d \in told'
        PROVE  \E id \in Id :
                  /\ records'[id] # Absent /\ records'[id].device = d
                  /\ IF ConnectionsOf(d) = {}
                     THEN records'[id].status # "provisioned"
                     ELSE /\ records'[id].status = "provisioned"
                          /\ records'[id].connection \in ConnectionsOf(d)
                          /\ \A c \in ConnectionsOf(d) : c <= records'[id].connection
    <3>1. PICK id \in Find(d) :
             IF ConnectionsOf(d) = {}
             THEN records[id].status # "provisioned"
             ELSE /\ records[id].status = "provisioned"
                  /\ records[id].connection \in ConnectionsOf(d)
                  /\ \A c \in ConnectionsOf(d) : c <= records[id].connection
      BY <2>1, <1>t DEF StatusKept, RecordTellsConnection
    <3>2. id \in Id /\ records[id] # Absent /\ records[id].device = d
      BY DEF Find, Live
    <3>3. /\ records'[id].status = records[id].status
          /\ records'[id].connection = records[id].connection
      BY <2>1, <3>2, <1>1 DEF StatusKept
    <3>. QED BY <3>1, <3>2, <3>3, <1>2, <1>3
  <2>. QED BY <2>1, <1>u DEF RecordTellsConnection, Find, Live, ConnectionsOf
<1>. QED BY <1>5, <1>6, <1>7, <1>8, <1>9, <1>10 DEF IInv

LEMMA RequestStep ==
  ASSUME IInv, Request
  PROVE  IInv'
<1>. USE DEF store, world, tasks, history, bounds
<1>t. TypeOK /\ Remembered /\ DismissedKept /\ IInv
  BY DEF IInv
<1>1. ASSUME NEW id \in Id, NEW status \in Status, SetStatus(id, status) PROVE IInv'
  <2>. DEFINE r == [records[id] EXCEPT !.status = status]
  <2>1. Live(id) /\ records[id] \in DeviceRecord
    BY <1>1, <1>t DEF SetStatus, Live, TypeOK
  <2>2. /\ r \in DeviceRecord /\ r.device = records[id].device
        /\ r.credential = records[id].credential /\ r.status = status
        /\ records' = [records EXCEPT ![id] = r]
    BY <1>1, <2>1 DEF SetStatus, DeviceRecord
  <2>3. acked[id] # Unknown => acked[id] = r.credential
    BY <2>1, <2>2, <1>t DEF Remembered, Files, Live
  <2>4. /\ stateFile' = records' \/ (stateFile' = stateFile /\ id \notin dismissed')
        /\ diskErrors' \in 0..MaxDiskErrors
        /\ dismissed' \subseteq Id
        /\ \A other \in dismissed' : other # id => other \in dismissed
        /\ id \in dismissed' => status = "ignored"
    BY <1>1, <1>t, RegistryAssumption DEF SetStatus, Save, SaveRaises, TypeOK
  <2>5. told' \subseteq told /\ r.device \notin told'
    BY <1>1, <2>2 DEF SetStatus
  <2>6. UNCHANGED <<world, scanning, started, used, autoChecks, kills, acked, checks>>
    BY <1>1 DEF SetStatus
  <2>. HIDE DEF r
  <2>c. RecordChanged(id, r) /\ CredentialKept(id, r) /\ StatusKept(id, r)
    BY <2>1, <2>2, <2>3, <2>4, <2>5, <2>6, <1>t DEF RecordChanged, CredentialKept, StatusKept, TypeOK
  <2>. QED BY <2>c, <2>4, <2>5, <2>6, <1>t, RecordStep
<1>2. ASSUME NEW id \in Id, NEW credential \in Credential, SetCredential(id, credential)
      PROVE  IInv'
  <2>. DEFINE r == [records[id] EXCEPT !.credential = credential]
  <2>1. Live(id) /\ records[id] \in DeviceRecord
    BY <1>2, <1>t DEF SetCredential, Live, TypeOK
  <2>2. /\ r \in DeviceRecord /\ r.device = records[id].device
        /\ r.status = records[id].status /\ r.connection = records[id].connection
        /\ r.credential = credential
        /\ records' = [records EXCEPT ![id] = r]
    BY <1>2, <2>1 DEF SetCredential, DeviceRecord
  <2>3. /\ stateFile' = records' \/ (stateFile' = stateFile /\ acked'[id] = Unknown)
        /\ diskErrors' \in 0..MaxDiskErrors
        /\ acked' \in [Id -> Credential \cup {None, Unknown}]
        /\ \A other \in Id : other # id => acked'[other] = acked[other]
        /\ acked'[id] # Unknown => acked'[id] = credential
    BY <1>2, <1>t, RegistryAssumption DEF SetCredential, Save, SaveRaises, TypeOK
  <2>4. id \in dismissed => r.status = "ignored"
    BY <2>2, <1>t DEF DismissedKept, Files
  <2>5. UNCHANGED <<world, scanning, started, used, autoChecks, kills, dismissed, told, checks>>
    BY <1>2 DEF SetCredential
  <2>. HIDE DEF r
  <2>c. RecordChanged(id, r) /\ CredentialKept(id, r) /\ StatusKept(id, r)
    BY <2>1, <2>2, <2>3, <2>4, <2>5, <1>t DEF RecordChanged, CredentialKept, StatusKept, TypeOK
  <2>. QED BY <2>c, <2>4, <2>5, <1>t, RecordStep
<1>3. ASSUME NEW id \in Id, Recheck(id) PROVE IInv'
  <2>. DEFINE check == [id |-> id, number |-> started + 1, answered |-> FALSE]
  <2>1. check \in Check /\ check.id = id
    BY <1>3, <1>t, RegistryAssumption DEF Recheck, TypeOK, Check
  <2>2. TypeOK'
    <3>1. started' \in 0..MaxChecks /\ checks' = checks \cup {check}
      BY <1>3, <1>t, RegistryAssumption DEF Recheck, TypeOK
    <3>2. records[id] # Absent /\ records[id].device \in modbus
      BY <1>3 DEF Recheck, CanBeChecked, Live
    <3>. HIDE DEF check
    <3>. QED BY <1>3, <2>1, <3>1, <3>2, <1>t DEF Recheck, TypeOK
  <2>. QED
    BY <1>3, <2>2, <1>t
       DEF Recheck, IInv, Drawn, Files, UniqueDevices, Remembered, DismissedKept,
           CheckedOnce, CheckedAreStored, RecordTellsConnection, Find, Live, ConnectionsOf
<1>. QED BY <1>1, <1>2, <1>3 DEF Request

LEMMA CheckStep ==
  ASSUME IInv, NEW c \in checks, Probe(c) \/ CheckDone(c)
  PROVE  IInv'
<1>. USE DEF store, world, tasks, history, bounds
<1>t. TypeOK /\ Remembered /\ DismissedKept /\ IInv
  BY DEF IInv
<1>1. c \in Check /\ c.id \in Id
  BY <1>t DEF TypeOK, Check
<1>2. CASE Probe(c)
  <2>1. [c EXCEPT !.answered = TRUE] \in Check /\ [c EXCEPT !.answered = TRUE].id = c.id
    BY <1>1 DEF Check
  <2>2. TypeOK'
    BY <1>2, <2>1, <1>t DEF Probe, TypeOK
  <2>. QED
    BY <1>2, <2>2, <1>t
       DEF Probe, IInv, Drawn, Files, UniqueDevices, Remembered, DismissedKept,
           CheckedOnce, CheckedAreStored, RecordTellsConnection, Find, Live, ConnectionsOf
<1>3. CASE CheckDone(c)
  <2>. DEFINE i == c.id
              r == [records[i] EXCEPT !.checked = c.number]
  <2>1. Live(i) /\ records[i] \in DeviceRecord
    BY <1>1, <1>t DEF Live, TypeOK
  <2>2. /\ r \in DeviceRecord /\ r.device = records[i].device
        /\ r.status = records[i].status /\ r.connection = records[i].connection
        /\ r.credential = records[i].credential
    BY <1>1, <2>1, RegistryAssumption DEF DeviceRecord, Check
  <2>3. records' = [records EXCEPT ![i] = r]
    BY <1>3 DEF CheckDone, Checked
  <2>4. /\ stateFile' = records' \/ stateFile' = stateFile
        /\ diskErrors' \in 0..MaxDiskErrors
    BY <1>3, <1>t, RegistryAssumption DEF CheckDone, Save, SaveRaises, TypeOK
  <2>5. /\ acked[i] # Unknown => acked[i] = r.credential
        /\ i \in dismissed => r.status = "ignored"
    BY <2>1, <2>2, <1>1, <1>t DEF Remembered, DismissedKept, Files, Live
  <2>6. /\ UNCHANGED <<world, scanning, started, used, autoChecks, kills, acked, dismissed, told>>
        /\ checks' \subseteq checks
    BY <1>3 DEF CheckDone
  <2>. HIDE DEF i, r
  <2>7. i \in Id
    BY <1>1 DEF i
  <2>c. RecordChanged(i, r) /\ CredentialKept(i, r) /\ StatusKept(i, r)
    BY <2>1, <2>2, <2>3, <2>4, <2>5, <2>6, <2>7, <1>t
       DEF RecordChanged, CredentialKept, StatusKept, TypeOK
  <2>. QED BY <2>c, <2>6, <1>t, RecordStep
<1>. QED BY <1>2, <1>3

(* The connections of other devices are what they were. *)
LEMMA WorldStep ==
  ASSUME IInv, World
  PROVE  IInv'
<1>. USE DEF store, world, tasks, history, bounds
<1>t. TypeOK /\ Drawn /\ RecordTellsConnection /\ IInv
  BY DEF IInv
<1>. DEFINE Moved ==
      /\ UNCHANGED <<store, modbus, tasks, used, acked, dismissed, autoChecks, bounds>>
      /\ connections' \in [ConnectionId -> Device \cup {Absent}]
      /\ created' \in 0..MaxConnections
      /\ \A c \in ConnectionId : c > created' => connections'[c] = Absent
      /\ told' \subseteq told
      /\ \A d \in told' : ConnectionsOf(d)' = ConnectionsOf(d)
<1>1. Moved
  <2>1. ASSUME NEW d \in Device, ConnectionCreated(d)
        PROVE  Moved
    <3>1. created + 1 \in ConnectionId /\ connections[created + 1] = Absent
      BY <2>1, <1>t, RegistryAssumption DEF ConnectionCreated, ConnectionId, TypeOK, Drawn
    <3>2. \A c \in ConnectionId : c # created + 1 => connections'[c] = connections[c]
      BY <2>1, <1>t DEF ConnectionCreated, TypeOK
    <3>3. connections'[created + 1] = d
      BY <2>1, <3>1, <1>t DEF ConnectionCreated, TypeOK
    <3>. QED
      BY <2>1, <3>1, <3>2, <3>3, <1>t, Apart, RegistryAssumption
         DEF ConnectionCreated, ConnectionsOf, ConnectionId, TypeOK, Drawn
  <2>2. ASSUME NEW c \in ConnectionId, ConnectionDeleted(c)
        PROVE  Moved
    BY <2>2, <1>t, Apart DEF ConnectionDeleted, ConnectionsOf, ConnectionId, TypeOK, Drawn
  <2>. QED BY <2>1, <2>2 DEF World
<1>2. TypeOK'
  BY <1>1, <1>t DEF TypeOK
<1>3. Drawn'
  BY <1>1, <1>t DEF Drawn, Files
<1>4. RecordTellsConnection'
  BY <1>1, <1>t DEF RecordTellsConnection, Find, Live
<1>. QED
  BY <1>1, <1>2, <1>3, <1>4
     DEF IInv, UniqueDevices, Remembered, DismissedKept, Files, CheckedOnce,
         CheckedAreStored

LEMMA RestartStep == IInv /\ KillAndRestart => IInv'
<1>. SUFFICES ASSUME IInv, KillAndRestart PROVE IInv'
  OBVIOUS
<1>. USE DEF store, world, tasks, history, bounds
<1>t. /\ TypeOK /\ Drawn /\ UniqueDevices /\ Remembered /\ DismissedKept
      /\ CheckedOnce /\ CheckedAreStored /\ RecordTellsConnection
  BY DEF IInv
<1>1. TypeOK'
  BY <1>t, RegistryAssumption DEF KillAndRestart, TypeOK
<1>2. Drawn' /\ UniqueDevices' /\ Remembered' /\ DismissedKept'
  BY <1>t DEF KillAndRestart, Drawn, UniqueDevices, Remembered, DismissedKept, Files
<1>3. CheckedOnce' /\ CheckedAreStored'
  BY <1>t DEF KillAndRestart, CheckedOnce, CheckedAreStored, Files
<1>4. RecordTellsConnection'
  BY <1>t DEF KillAndRestart, RecordTellsConnection, Find, Live, ConnectionsOf
<1>. QED BY <1>1, <1>2, <1>3, <1>4 DEF IInv

LEMMA Preserved == IInv /\ [Next]_vars => IInv'
<1>. SUFFICES ASSUME IInv, [Next]_vars PROVE IInv'
  OBVIOUS
<1>1. CASE \E s \in Scan : \E found \in SUBSET Device : Rescan(s, found)
  BY <1>1, RescanStep
<1>2. ASSUME NEW s \in Scan, ScanRaises(s) PROVE IInv'
  <2>. USE DEF store, world, tasks, history, bounds
  <2>1. TypeOK'
    BY <1>2 DEF ScanRaises, IInv, TypeOK
  <2>. QED
    BY <1>2, <2>1
       DEF ScanRaises, IInv, Drawn, Files, UniqueDevices, Remembered, DismissedKept,
           CheckedOnce, CheckedAreStored, RecordTellsConnection, Find, Live, ConnectionsOf
<1>3. CASE Request
  BY <1>3, RequestStep
<1>4. CASE Checking
  BY <1>4, CheckStep DEF Checking
<1>5. CASE World
  BY <1>5, WorldStep
<1>6. CASE KillAndRestart
  BY <1>6, RestartStep
<1>7. CASE UNCHANGED vars
  BY <1>7 DEF vars, store, world, tasks, history, bounds, IInv, TypeOK, Drawn, Files,
              UniqueDevices, Remembered, DismissedKept, CheckedOnce, CheckedAreStored,
              RecordTellsConnection, Find, Live, ConnectionsOf
<1>. QED BY <1>1, <1>2, <1>3, <1>4, <1>5, <1>6, <1>7 DEF Next

-----------------------------------------------------------------------------
(* Theorems *)

LEMMA Invariant == Spec => []IInv
  BY InitInv, Preserved, PTL DEF Spec

(* The variables keep their types, and a check under way is of a device    *)
(* whose record is there to take the answer (device_registry.py:187-189).  *)
THEOREM TypeCorrect == Spec => []TypeOK
<1>1. IInv => TypeOK
  BY DEF IInv
<1>. QED BY <1>1, Invariant, PTL

(* However scans overlap, fail and are restarted, a device has one record  *)
(* (device_registry.py:195-204).                                           *)
THEOREM DevicesAreUnique == Spec => []UniqueDevices
<1>1. IInv => UniqueDevices
  BY DEF IInv
<1>. QED BY <1>1, Invariant, PTL

(* The credential last confirmed for a device is what a restart loads      *)
(* (device_registry.py:59-65).                                             *)
THEOREM CredentialsAreDurable == Spec => []CredentialDurable
<1>1. IInv => CredentialDurable
  BY DEF IInv, Remembered, Files, CredentialDurable
<1>. QED BY <1>1, Invariant, PTL

(* A dismissed device stays dismissed over rescans, checks and restarts    *)
(* (device_registry.py:121-127).                                           *)
THEOREM DismissalsLast == Spec => []DismissedStaysIgnored
<1>1. IInv => DismissedStaysIgnored
  BY DEF IInv, DismissedKept, Files, DismissedStaysIgnored
<1>. QED BY <1>1, Invariant, PTL

(* A device is automatically checked once at most                          *)
(* (device_registry.py:178-183).                                           *)
THEOREM ChecksAreNotRepeated == Spec => []CheckedOnce
<1>1. IInv => CheckedOnce
  BY DEF IInv
<1>. QED BY <1>1, Invariant, PTL

(* The record of a device a scan has found tells its latest connection     *)
(* (device_registry.py:121-127, 166-172).                                  *)
THEOREM RecordsTellConnections == Spec => []RecordTellsConnection
<1>1. IInv => RecordTellsConnection
  BY DEF IInv
<1>. QED BY <1>1, Invariant, PTL
=============================================================================
