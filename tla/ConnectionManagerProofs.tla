----------------------- MODULE ConnectionManagerProofs -----------------------
(***************************************************************************)
(* Theorems about ConnectionManager, for any connections, points,          *)
(* credentials and number of kills.                                        *)
(*                                                                         *)
(* None of the invariants is inductive alone.  An answer is durable only   *)
(* because what it says is also in self.connections, which any later _save *)
(* writes out (Agreed, Saved); a poll task starts without points only      *)
(* because its id was never used before (Unused, Creating); and a delete   *)
(* leaves no point running because a task that is not failing is both      *)
(* registered and able to pass its cancellation on (Quiet).                *)
(***************************************************************************)
EXTENDS ConnectionManager, TLAPS

(* The last answer is what is in memory as well as what is persisted. *)
Agreed ==
    \A id \in Id :
        acked[id] # Unknown =>
            connections[id] = acked[id] /\ stateFile[id] = acked[id]

(* Between the save of create_connection and its answer. *)
Saved == pc \in {"create_tag", "create_start"} => connections = stateFile

(* An id never drawn has left no trace. *)
Unused ==
    \A id \in Id \ used :
        connections[id] = Absent /\ stateFile[id] = Absent /\ poll[id] = "none"

(* A connection being created has a record and no poll task yet. *)
Creating ==
    pc \in {"create_save", "create_tag", "create_start"} =>
        Live(cur) /\ poll[cur] = "none"

(* A poll task in one of these states has no point that polls. *)
Quiet ==
    \A id \in Id : \A p \in Point :
        poll[id] \in {"none", "new", "cancel_new", "cancel_gather", "done"}
            => point[id][p] # "run"

IInv == TypeOK /\ TasksHaveRecords /\ Agreed /\ Saved /\ Unused /\ Creating /\ Quiet

-----------------------------------------------------------------------------
(* A record is not the absence of one, and NoId is no id. *)
LEMMA Distinct ==
    /\ \A credential \in Credential : credential # Absent /\ credential \in Record
    /\ \A id \in Id : id # NoId
    /\ Absent \in Record /\ Unknown \notin Record
    /\ NoPoints \in [Point -> PointState]
    /\ \A p \in Point : NoPoints[p] = "none"
  BY ConnectionAssumption DEF Record, NoPoints, PointState

(* Cancelling the points of one connection leaves every other as it is,    *)
(* and none of its own running.                                            *)
LEMMA PointsCancelled ==
    ASSUME TypeOK, NEW id \in Id, CancelPoints(id)
    PROVE  /\ point' \in [Id -> [Point -> PointState]]
           /\ \A other \in Id \ {id} : point'[other] = point[other]
           /\ \A p \in Point : point'[id][p] # "run"
           /\ point[id] = NoPoints => point'[id] = NoPoints
<1>. DEFINE cancelled == [p \in Point |-> IF point[id][p] = "run" THEN "cancel"
                                          ELSE point[id][p]]
<1>1. /\ point \in [Id -> [Point -> PointState]]
      /\ point' = [point EXCEPT ![id] = cancelled]
  BY DEF TypeOK, CancelPoints
<1>2. cancelled \in [Point -> PointState]
  BY <1>1 DEF PointState
<1>3. point[id] = NoPoints => cancelled = NoPoints
  BY DEF NoPoints
<1>4. \A p \in Point : cancelled[p] # "run"
  OBVIOUS
<1>. HIDE DEF cancelled
<1>. QED BY <1>1, <1>2, <1>3, <1>4

(* What task.cancel() does to a poll task and its points. *)
LEMMA PollCancellation ==
    ASSUME TypeOK, Quiet, NEW id \in Id, CancelPoll(id)
    PROVE  /\ poll' \in [Id -> PollState]
           /\ point' \in [Id -> [Point -> PointState]]
           /\ \A other \in Id \ {id} :
                 poll'[other] = poll[other] /\ point'[other] = point[other]
           /\ poll'[id] \notin {"new", "gather", "failing"}
           /\ poll'[id] = "none" => poll[id] = "none"
           /\ poll'[id] = "cancel_new" => poll[id] \in {"new", "cancel_new"}
           /\ poll'[id] = "cancel_gather" => poll[id] \in {"gather", "cancel_gather"}
           /\ point[id] = NoPoints => point'[id] = NoPoints
           /\ \A p \in Point :
                 poll'[id] \in {"none", "new", "cancel_new", "cancel_gather", "done"}
                    => point'[id][p] # "run"
<1>1. poll \in [Id -> PollState] /\ point \in [Id -> [Point -> PointState]]
  BY DEF TypeOK
<1>2. /\ poll' \in [Id -> PollState]
      /\ \A other \in Id \ {id} : poll'[other] = poll[other]
      /\ poll'[id] = CASE poll[id] = "new"     -> "cancel_new"
                       [] poll[id] = "gather"  -> "cancel_gather"
                       [] poll[id] = "failing" -> "cancel_failing"
                       [] OTHER                -> poll[id]
  <2>. DEFINE to == CASE poll[id] = "new"     -> "cancel_new"
                      [] poll[id] = "gather"  -> "cancel_gather"
                      [] poll[id] = "failing" -> "cancel_failing"
                      [] OTHER                -> poll[id]
  <2>1. to \in PollState
    BY <1>1 DEF PollState
  <2>2. poll' = [poll EXCEPT ![id] = to]
    BY DEF CancelPoll
  <2>. HIDE DEF to
  <2>3. poll'[id] = to /\ poll' \in [Id -> PollState]
        /\ \A other \in Id \ {id} : poll'[other] = poll[other]
    BY <2>1, <2>2, <1>1
  <2>. QED BY <2>3 DEF to
<1>3. CASE poll[id] = "gather"
  <2>1. poll'[id] = "cancel_gather"
    BY <1>2, <1>3
  <2>2. CancelPoints(id)
    BY <1>3 DEF CancelPoll
  <2>. QED BY <1>2, <1>3, <2>1, <2>2, PointsCancelled
<1>4. CASE poll[id] # "gather"
  <2>1. UNCHANGED point
    BY <1>4 DEF CancelPoll
  <2>. QED BY <1>1, <1>2, <1>4, <2>1 DEF Quiet
<1>. QED BY <1>3, <1>4

-----------------------------------------------------------------------------
(* The inductive invariant *)

LEMMA IInvInit == Init => IInv
<1>. SUFFICES ASSUME Init PROVE IInv
  OBVIOUS
<1>1. TypeOK
  BY Distinct, ConnectionAssumption DEF Init, TypeOK, PollState, Record
<1>2. Quiet
  BY Distinct DEF Init, Quiet
<1>. QED
  BY <1>1, <1>2
     DEF Init, IInv, TasksHaveRecords, Agreed, Saved, Unused, Creating

LEMMA TypeOKStep == IInv /\ [Next]_vars => TypeOK'
<1>. SUFFICES ASSUME IInv, [Next]_vars PROVE TypeOK'
  OBVIOUS
<1>. USE DEF store, running, method, history
<1>t. TypeOK /\ Quiet
  BY DEF IInv
<1>1. ASSUME NEW id \in Id, NEW credential \in Credential,
             CreateConnection(id, credential)
      PROVE  TypeOK'
  BY <1>1, <1>t, Distinct DEF CreateConnection, Enter, Answer, TypeOK
<1>2. ASSUME NEW id \in Id, NEW credential \in Credential,
             SetCredential(id, credential)
      PROVE  TypeOK'
  BY <1>2, <1>t, Distinct DEF SetCredential, Enter, Answer, TypeOK
<1>3. ASSUME NEW id \in Id, DeleteConnection(id) PROVE TypeOK'
  <2>1. /\ connections' \in [Id -> Record] /\ acked' \in [Id -> Record \cup {Unknown}]
        /\ tasks' \subseteq Id
        /\ pc' = "delete_save" /\ cur' = id
        /\ UNCHANGED <<stateFile, used, tagged, created, kills>>
    BY <1>3, <1>t, Distinct DEF DeleteConnection, Enter, Answer, Unregister, TypeOK
  <2>2. /\ poll' \in [Id -> PollState] /\ point' \in [Id -> [Point -> PointState]]
        /\ \A i \in Id :
              /\ poll'[i] \in {"none", "new", "cancel_new"} => point'[i] = NoPoints
              /\ poll'[i] = "cancel_gather" => \A p \in Point : point'[i][p] # "run"
    <3>1. CASE id \in tasks
      <4>1. CancelPoll(id)
        BY <1>3, <3>1 DEF DeleteConnection
      <4>2. ASSUME NEW i \in Id \ {id}
            PROVE  poll'[i] = poll[i] /\ point'[i] = point[i]
        BY <4>1, <1>t, PollCancellation
      <4>3. /\ poll'[id] \in {"none", "new", "cancel_new"} => point'[id] = NoPoints
            /\ poll'[id] = "cancel_gather" => \A p \in Point : point'[id][p] # "run"
        BY <4>1, <1>t, PollCancellation DEF TypeOK
      <4>4. poll' \in [Id -> PollState] /\ point' \in [Id -> [Point -> PointState]]
        BY <4>1, <1>t, PollCancellation
      <4>. QED BY <4>2, <4>3, <4>4, <1>t DEF TypeOK
    <3>2. CASE id \notin tasks
      BY <1>3, <3>2, <1>t DEF DeleteConnection, TypeOK
    <3>. QED BY <3>1, <3>2
  <2>. QED BY <2>1, <2>2, <1>t, Distinct DEF TypeOK
<1>4. CASE CreateSave
  BY <1>4, <1>t DEF CreateSave, Continue, Persisted, TypeOK
<1>5. CASE CreateTag
  BY <1>5, <1>t, Distinct DEF CreateTag, Continue, TypeOK
<1>6. CASE CreateStart
  <2>1. cur \in Id /\ poll[cur] = "none" /\ point[cur] = NoPoints
    BY <1>6, <1>t, Distinct DEF CreateStart, IInv, Creating, TypeOK
  <2>2. /\ poll' = [poll EXCEPT ![cur] = "new"] /\ poll' \in [Id -> PollState]
        /\ point' = point
    BY <1>6, <1>t DEF CreateStart, TypeOK, PollState
  <2>. QED BY <1>6, <1>t, <2>1, <2>2, Distinct DEF CreateStart, Leave, Answer, TypeOK
<1>7. CASE SaveReturns
  BY <1>7, <1>t, Distinct DEF SaveReturns, Leave, Answer, Persisted, TypeOK
<1>8. CASE SaveRaises \/ CreateTagRaises
  BY <1>8, <1>t DEF SaveRaises, CreateTagRaises, LeaveUntagged, Leave, TypeOK
<1>9. ASSUME NEW id \in Id, PollStart(id) PROVE TypeOK'
  <2>1. point' \in [Id -> [Point -> PointState]]
    BY <1>9, <1>t DEF PollStart, TypeOK, PointState
  <2>2. poll' \in [Id -> PollState]
    BY <1>9, <1>t DEF PollStart, TypeOK, PollState
  <2>. QED BY <1>9, <1>t, <2>1, <2>2 DEF PollStart, TypeOK
<1>10. ASSUME NEW id \in Id, NEW p \in Point, PointRaises(id, p) PROVE TypeOK'
  <2>1. point' \in [Id -> [Point -> PointState]]
    BY <1>10, <1>t DEF PointRaises, TypeOK, PointState
  <2>2. poll' \in [Id -> PollState]
    BY <1>10, <1>t DEF PointRaises, TypeOK, PollState
  <2>3. poll[id] \notin {"none", "new", "cancel_new", "cancel_gather", "done"}
    BY <1>10, <1>t DEF PointRaises, Quiet
  <2>4. poll'[id] \notin {"none", "new", "cancel_new", "cancel_gather"}
    BY <1>10, <2>3, <1>t DEF PointRaises, TypeOK
  <2>. QED BY <1>10, <1>t, <2>1, <2>2, <2>4 DEF PointRaises, TypeOK
<1>11. ASSUME NEW id \in Id, NEW p \in Point, PointCancelled(id, p) PROVE TypeOK'
  <2>1. point' \in [Id -> [Point -> PointState]]
    BY <1>11, <1>t DEF PointCancelled, TypeOK, PointState
  <2>2. poll[id] \notin {"none", "new", "cancel_new"}
    BY <1>11, <1>t, Distinct DEF PointCancelled, TypeOK
  <2>. QED BY <1>11, <1>t, <2>1, <2>2 DEF PointCancelled, TypeOK
<1>12. ASSUME NEW id \in Id, PollCrashes(id) PROVE TypeOK'
  BY <1>12, <1>t DEF PollCrashes, TypeOK, PollState
<1>13. ASSUME NEW id \in Id, PollNeverStarts(id) PROVE TypeOK'
  BY <1>13, <1>t DEF PollNeverStarts, PollEnds, TypeOK, PollState
<1>14. ASSUME NEW id \in Id, PollCancelled(id) PROVE TypeOK'
  BY <1>14, <1>t DEF PollCancelled, PollEnds, TypeOK, PollState
<1>15. ASSUME NEW id \in Id, PollCancelledFailing(id) PROVE TypeOK'
  <2>1. CancelPoints(id) /\ poll' \in [Id -> PollState] /\ poll'[id] = "done"
        /\ \A other \in Id \ {id} : poll'[other] = poll[other]
    BY <1>15, <1>t DEF PollCancelledFailing, PollEnds, TypeOK, PollState
  <2>2. UNCHANGED <<connections, stateFile, tasks, pc, cur, used, tagged, created, acked,
                    kills>>
    BY <1>15 DEF PollCancelledFailing
  <2>. QED BY <2>1, <2>2, <1>t, PointsCancelled DEF TypeOK
<1>16. CASE KillAndRestart
  BY <1>16, <1>t, Distinct, ConnectionAssumption
     DEF KillAndRestart, Leave, TypeOK, PollState
<1>17. CASE UNCHANGED vars
  BY <1>17, <1>t DEF vars, TypeOK
<1>. QED
  BY <1>1, <1>2, <1>3, <1>4, <1>5, <1>6, <1>7, <1>8, <1>9, <1>10, <1>11, <1>12,
     <1>13, <1>14, <1>15, <1>16, <1>17
     DEF Next, Request, Method, Raise, Task

(* Every save writes what is in memory, so what was answered for the       *)
(* connections it is not about stays as it was answered.                   *)
LEMMA DurableStep == IInv /\ [Next]_vars => Agreed' /\ Saved'
<1>. SUFFICES ASSUME IInv, [Next]_vars PROVE Agreed' /\ Saved'
  OBVIOUS
<1>. USE DEF store, running, method, history
<1>t. TypeOK /\ Agreed /\ Saved
  BY DEF IInv
<1>s. ASSUME UNCHANGED <<connections, stateFile, acked>>,
             pc' = pc \/ pc' = "idle"
      PROVE  Agreed' /\ Saved'
  BY <1>s, <1>t DEF Agreed, Saved
<1>r. ASSUME NEW id \in Id, NEW record \in Record, acked' = [acked EXCEPT ![id] = Unknown],
             connections' = [connections EXCEPT ![id] = record], stateFile' = stateFile,
             pc' \in {"create_save", "delete_save", "set_save"}
      PROVE  Agreed' /\ Saved'
  BY <1>r, <1>t DEF Agreed, Saved, TypeOK
<1>1. ASSUME NEW id \in Id, NEW credential \in Credential,
             CreateConnection(id, credential) \/ SetCredential(id, credential)
      PROVE  Agreed' /\ Saved'
  BY <1>1, <1>r DEF CreateConnection, SetCredential, Enter, Answer, Record
<1>2. ASSUME NEW id \in Id, DeleteConnection(id) PROVE Agreed' /\ Saved'
  BY <1>2, <1>r DEF DeleteConnection, Enter, Answer, Record
<1>3. CASE CreateSave
  BY <1>3, <1>t DEF CreateSave, Continue, Persisted, Agreed, Saved
<1>4. CASE CreateTag
  BY <1>4, <1>t DEF CreateTag, Continue, Agreed, Saved
<1>5. CASE CreateStart
  BY <1>5, <1>t DEF CreateStart, Leave, Answer, Agreed, Saved, TypeOK
<1>6. CASE SaveReturns
  BY <1>6, <1>t DEF SaveReturns, Leave, Answer, Persisted, Agreed, Saved, TypeOK
<1>7. CASE SaveRaises \/ CreateTagRaises
  BY <1>7, <1>s DEF SaveRaises, CreateTagRaises, LeaveUntagged, Leave
<1>8. ASSUME NEW id \in Id, Task(id) \/ \E p \in Point : PointRaises(id, p)
      PROVE  Agreed' /\ Saved'
  <2>1. UNCHANGED <<connections, stateFile, acked, pc>>
    BY <1>8 DEF Task, PollStart, PollCrashes, PollNeverStarts, PollCancelled,
       PollCancelledFailing, PointCancelled, PointRaises
  <2>. QED BY <2>1, <1>s
<1>9. CASE KillAndRestart
  BY <1>9, <1>t DEF KillAndRestart, Leave, Agreed, Saved
<1>10. CASE UNCHANGED vars
  BY <1>10, <1>s DEF vars
<1>. QED
  BY <1>1, <1>2, <1>3, <1>4, <1>5, <1>6, <1>7, <1>8, <1>9, <1>10
     DEF Next, Request, Method, Raise

(* The records, the registered tasks and the poll tasks stay together.     *)
LEMMA RegisteredStep ==
    IInv /\ [Next]_vars => TasksHaveRecords' /\ Unused' /\ Creating'
<1>. SUFFICES ASSUME IInv, [Next]_vars
              PROVE  TasksHaveRecords' /\ Unused' /\ Creating'
  OBVIOUS
<1>. USE DEF store, running, method, history
<1>t. TypeOK /\ Quiet /\ TasksHaveRecords /\ Unused /\ Creating
  BY DEF IInv
<1>1. ASSUME NEW id \in Id, NEW credential \in Credential,
             CreateConnection(id, credential)
      PROVE  TasksHaveRecords' /\ Unused' /\ Creating'
  BY <1>1, <1>t, Distinct
     DEF CreateConnection, Enter, TasksHaveRecords, Unused, Creating, Live, TypeOK
<1>2. ASSUME NEW id \in Id, NEW credential \in Credential,
             SetCredential(id, credential)
      PROVE  TasksHaveRecords' /\ Unused' /\ Creating'
  BY <1>2, <1>t, Distinct
     DEF SetCredential, Enter, TasksHaveRecords, Unused, Creating, Live, TypeOK
<1>3. ASSUME NEW id \in Id, DeleteConnection(id)
      PROVE  TasksHaveRecords' /\ Unused' /\ Creating'
  <2>1. /\ connections' = [connections EXCEPT ![id] = Absent]
        /\ tasks' = tasks \ {id} /\ Live(id) /\ pc' = "delete_save"
        /\ UNCHANGED <<stateFile, used>>
    BY <1>3 DEF DeleteConnection, Unregister, Enter
  <2>2. /\ \A other \in Id \ {id} : poll'[other] = poll[other]
        /\ poll'[id] \notin {"new", "gather", "failing"}
        /\ poll[id] = "none" => poll'[id] = "none"
    <3>1. CASE id \in tasks
      <4>1. CancelPoll(id)
        BY <1>3, <3>1 DEF DeleteConnection
      <4>2. poll[id] = "none" => poll'[id] = "none"
        BY <4>1, <1>t DEF CancelPoll, TypeOK
      <4>. QED BY <4>1, <4>2, <1>t, PollCancellation
    <3>2. CASE id \notin tasks
      BY <1>3, <3>2, <1>t DEF DeleteConnection, TasksHaveRecords
    <3>. QED BY <3>1, <3>2
  <2>. QED BY <2>1, <2>2, <1>t
           DEF TasksHaveRecords, Unused, Creating, Live, TypeOK
<1>4. CASE CreateSave
  BY <1>4, <1>t, Distinct
     DEF CreateSave, Continue, Persisted, TasksHaveRecords, Unused, Creating, Live, TypeOK
<1>5. CASE CreateTag
  BY <1>5, <1>t
     DEF CreateTag, Continue, TasksHaveRecords, Unused, Creating, Live
<1>6. CASE CreateStart
  <2>1. cur \in Id /\ Live(cur) /\ cur \in used
    BY <1>6, <1>t, Distinct DEF CreateStart, Creating, Unused, Live, TypeOK
  <2>. QED BY <1>6, <2>1, <1>t
           DEF CreateStart, Leave, TasksHaveRecords, Unused, Creating, Live, TypeOK
<1>7. CASE SaveReturns
  BY <1>7, <1>t
     DEF SaveReturns, Leave, Persisted, TasksHaveRecords, Unused, Creating, Live
<1>8. CASE SaveRaises \/ CreateTagRaises
  BY <1>8, <1>t
     DEF SaveRaises, CreateTagRaises, LeaveUntagged, Leave, TasksHaveRecords, Unused, Creating, Live
<1>9. ASSUME NEW id \in Id, Task(id) \/ \E p \in Point : PointRaises(id, p)
      PROVE  TasksHaveRecords' /\ Unused' /\ Creating'
  <2>1. UNCHANGED <<connections, stateFile, tasks, used, pc, cur>> /\ pc = "idle"
    BY <1>9 DEF Task, PollStart, PollCrashes, PollNeverStarts, PollCancelled,
       PollCancelledFailing, PointCancelled, PointRaises
  <2>2. /\ \A other \in Id \ {id} : poll'[other] = poll[other]
        /\ poll'[id] \in {"new", "gather", "failing"}
              => poll[id] \in {"new", "gather", "failing"}
        /\ poll[id] = "none" => poll'[id] = "none"
    BY <1>9, <1>t DEF Task, PollStart, PollCrashes, PollNeverStarts, PollCancelled,
       PollCancelledFailing, PointCancelled, PointRaises, PollEnds, TypeOK
  <2>. QED BY <2>1, <2>2, <1>t DEF TasksHaveRecords, Unused, Creating, Live
<1>10. CASE KillAndRestart
  BY <1>10, <1>t, Distinct
     DEF KillAndRestart, Leave, TasksHaveRecords, Unused, Creating, Live, TypeOK
<1>11. CASE UNCHANGED vars
  BY <1>11, <1>t DEF vars, TasksHaveRecords, Unused, Creating, Live
<1>. QED
  BY <1>1, <1>2, <1>3, <1>4, <1>5, <1>6, <1>7, <1>8, <1>9, <1>10, <1>11
     DEF Next, Request, Method, Raise

(* A poll task runs points only between its first step and the moment it   *)
(* is cancelled, and beyond only when its gather fails first.              *)
LEMMA QuietStep == IInv /\ [Next]_vars => Quiet'
<1>. SUFFICES ASSUME IInv, [Next]_vars PROVE Quiet'
  OBVIOUS
<1>. USE DEF store, running, method, history
<1>t. TypeOK /\ Quiet /\ Creating
  BY DEF IInv
<1>s. ASSUME UNCHANGED <<poll, point>> PROVE Quiet'
  BY <1>s, <1>t DEF Quiet
<1>1. ASSUME NEW id \in Id, DeleteConnection(id) PROVE Quiet'
  <2>1. CASE id \in tasks
    <3>1. CancelPoll(id)
      BY <1>1, <2>1 DEF DeleteConnection
    <3>. QED BY <3>1, <1>t, PollCancellation DEF Quiet
  <2>2. CASE id \notin tasks
    BY <1>1, <2>2, <1>s DEF DeleteConnection
  <2>. QED BY <2>1, <2>2
<1>2. CASE CreateStart
  <2>1. cur \in Id /\ poll[cur] = "none"
    BY <1>2, <1>t, Distinct DEF CreateStart, Creating, TypeOK
  <2>2. \A p \in Point : point[cur][p] # "run"
    BY <2>1, <1>t DEF Quiet
  <2>. QED BY <1>2, <2>1, <2>2, <1>t DEF CreateStart, Quiet, TypeOK
<1>3. ASSUME NEW id \in Id, PollStart(id) PROVE Quiet'
  BY <1>3, <1>t DEF PollStart, Quiet, TypeOK
<1>4. ASSUME NEW id \in Id, NEW p \in Point, PointRaises(id, p) PROVE Quiet'
  <2>1. poll'[id] \notin {"none", "new", "cancel_new", "cancel_gather", "done"}
    BY <1>4, <1>t DEF PointRaises, Quiet, TypeOK
  <2>. QED BY <1>4, <2>1, <1>t DEF PointRaises, Quiet, TypeOK
<1>5. ASSUME NEW id \in Id, NEW p \in Point, PointCancelled(id, p) PROVE Quiet'
  BY <1>5, <1>t DEF PointCancelled, Quiet, TypeOK
<1>6. ASSUME NEW id \in Id, PollCrashes(id) PROVE Quiet'
  BY <1>6, <1>t DEF PollCrashes, Quiet, TypeOK
<1>7. ASSUME NEW id \in Id, PollNeverStarts(id) PROVE Quiet'
  BY <1>7, <1>t, Distinct DEF PollNeverStarts, PollEnds, Quiet, TypeOK
<1>8. ASSUME NEW id \in Id, PollCancelled(id) PROVE Quiet'
  BY <1>8, <1>t DEF PollCancelled, PollEnds, Quiet, TypeOK
<1>9. ASSUME NEW id \in Id, PollCancelledFailing(id) PROVE Quiet'
  <2>1. CancelPoints(id) /\ \A other \in Id \ {id} : poll'[other] = poll[other]
    BY <1>9, <1>t DEF PollCancelledFailing, PollEnds, TypeOK
  <2>. QED BY <2>1, <1>t, PointsCancelled DEF Quiet
<1>10. CASE KillAndRestart
  BY <1>10, Distinct DEF KillAndRestart, Quiet
<1>11. ASSUME NEW id \in Id, NEW credential \in Credential,
              CreateConnection(id, credential) \/ SetCredential(id, credential)
       PROVE  Quiet'
  BY <1>11, <1>s DEF CreateConnection, SetCredential
<1>12. CASE CreateSave \/ CreateTag \/ SaveReturns \/ SaveRaises
            \/ CreateTagRaises \/ UNCHANGED vars
  BY <1>12, <1>s
     DEF CreateSave, CreateTag, SaveReturns, SaveRaises, CreateTagRaises,
         LeaveUntagged, vars
<1>. QED
  BY <1>1, <1>2, <1>3, <1>4, <1>5, <1>6, <1>7, <1>8, <1>9, <1>10, <1>11, <1>12
     DEF Next, Request, Method, Raise, Task

LEMMA Invariant == Spec => []IInv
<1>1. IInv /\ [Next]_vars => IInv'
  BY TypeOKStep, DurableStep, RegisteredStep, QuietStep DEF IInv
<1>. QED BY IInvInit, <1>1, PTL DEF Spec

-----------------------------------------------------------------------------
(* Theorems *)

(* The variables keep their types, a poll task has no points before its    *)
(* first step and no running ones under a cancelled gather.                *)
THEOREM TypeCorrect == Spec => []TypeOK
<1>1. IInv => TypeOK
  BY DEF IInv
<1>. QED BY <1>1, Invariant, PTL

(* What the manager answered for a connection is what a restart restores,  *)
(* through kills, failed saves and requests for other connections.         *)
THEOREM AnswersAreDurable == Spec => []AckedDurable
<1>1. IInv => AckedDurable
  BY DEF IInv, Agreed, AckedDurable
<1>. QED BY <1>1, Invariant, PTL

(* A poll task nobody has cancelled can always be reached by a delete.     *)
THEOREM TasksAreReachable == Spec => []TasksHaveRecords
<1>1. IInv => TasksHaveRecords
  BY DEF IInv
<1>. QED BY <1>1, Invariant, PTL

(* Only a poll task that failed before its connection was deleted leaves   *)
(* points polling behind.                                                  *)
THEOREM OrphansAreOfFailed == Spec => []OrphansOnlyOfFailed
<1>1. IInv => OrphansOnlyOfFailed
  <2>. SUFFICES ASSUME IInv, NEW id \in Id, NEW p \in Point,
                       ~Live(id), point[id][p] = "run"
                PROVE  poll[id] \in {"cancel_failing", "crashed"}
    BY DEF OrphansOnlyOfFailed
  <2>1. poll[id] \in PollState
    BY DEF IInv, TypeOK
  <2>2. poll[id] \notin {"new", "gather", "failing"}
    BY DEF IInv, TasksHaveRecords
  <2>3. poll[id] \notin {"none", "new", "cancel_new", "cancel_gather", "done"}
    BY DEF IInv, Quiet
  <2>. QED BY <2>1, <2>2, <2>3 DEF PollState
<1>. QED BY <1>1, Invariant, PTL

(* A connection that was never tagged is only ever polled because start()  *)
(* restored it, and only if its create_connection never returned: what was *)
(* returned had been tagged first, and stays so.                           *)
THEOREM UntaggedAreRestored == Spec => UntaggedOnlyRestored
<1>. DEFINE Tagging ==
        /\ created \subseteq tagged
        /\ pc = "create_start" => cur \in tagged
        Starts ==
        \A id \in tasks' \ tasks :
            id \in tagged' \/ (kills' # kills /\ id \notin created)
<1>1. Init => Tagging
  BY DEF Init
<1>2. IInv /\ Tagging /\ [Next]_vars => Tagging' /\ [Starts]_vars
  <2>. SUFFICES ASSUME IInv, Tagging, [Next]_vars
                PROVE  Tagging' /\ (Starts \/ UNCHANGED vars)
    OBVIOUS
  <2>t. kills \in Nat
    BY ConnectionAssumption DEF IInv, TypeOK
  <2>1. CASE KillAndRestart
    BY <2>1, <2>t DEF KillAndRestart, Leave, history
  <2>2. ASSUME NEW id \in Id, NEW credential \in Credential,
               CreateConnection(id, credential) \/ SetCredential(id, credential)
        PROVE  Tagging' /\ Starts
    BY <2>2 DEF CreateConnection, SetCredential, Enter, running
  <2>3. CASE CreateStart
    BY <2>3 DEF CreateStart, Leave
  <2>4. CASE CreateSave \/ CreateTag \/ SaveReturns
    BY <2>4 DEF CreateSave, CreateTag, SaveReturns, Continue, Leave, running, history
  <2>5. CASE Raise
    BY <2>5 DEF Raise, SaveRaises, CreateTagRaises, LeaveUntagged, Leave, running, history
  <2>6. ASSUME NEW id \in Id, Task(id) \/ \E p \in Point : PointRaises(id, p)
        PROVE  Tagging' /\ Starts
    BY <2>6 DEF Task, PollStart, PollCrashes, PollNeverStarts, PollCancelled,
                PollCancelledFailing, PointCancelled, PointRaises, method, history
  <2>7. ASSUME NEW id \in Id, DeleteConnection(id) PROVE Tagging' /\ Starts
    BY <2>7 DEF DeleteConnection, Unregister, Enter
  <2>8. CASE UNCHANGED vars
    BY <2>8 DEF vars, method, history
  <2>. QED BY <2>1, <2>2, <2>3, <2>4, <2>5, <2>6, <2>7, <2>8 DEF Next, Request, Method
<1>3. [Starts]_vars => [\A id \in tasks' \ tasks :
          id \in tagged' \/ (kills' # kills /\ id \notin created)]_vars
  OBVIOUS
<1>. QED BY <1>1, <1>2, <1>3, Invariant, PTL DEF Spec, UntaggedOnlyRestored
=============================================================================
