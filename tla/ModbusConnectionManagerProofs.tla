-------------------- MODULE ModbusConnectionManagerProofs --------------------
(***************************************************************************)
(* Theorems about ModbusConnectionManager, for any connections,            *)
(* credentials and number of restarts.                                     *)
(*                                                                         *)
(* The await of connect() is what makes them hard: what its create knew    *)
(* still holds afterwards only for a connection no other request was for   *)
(* (Opening).  An answer is durable because memory, which every save       *)
(* writes, agrees with it (Agreed), and memory is the file again when      *)
(* start() is through (Restored).  Task and client stay together because   *)
(* an id is created once (Unused, Creating).  What close() does not reach  *)
(* was awaiting its connect() when it ran, or was created later (Missed).  *)
(***************************************************************************)
EXTENDS ModbusConnectionManager, TLAPS

(* A method that has been entered belongs to a request being served. *)
Working == pc # "idle" => Serving /\ cur \in Id

(* The last answer is persisted, and in memory while requests are served. *)
Agreed ==
    \A id \in Id :
        acked[id] # Unknown =>
            /\ stateFile[id] = acked[id]
            /\ Serving => connections[id] = acked[id]

(* start() has still to come to a connection, or it is as it was persisted. *)
Restored ==
    phase = "start" =>
        \A id \in Id :
            IF id \in restoring
            THEN /\ stateFile[id] # Absent
                 /\ poll[id] = "none" /\ client[id] = "none" /\ id \notin tasks
            ELSE connections[id] = stateFile[id]

(* A connection whose connect() is awaited is listed and persisted, unless *)
(* a request for it has come in between.                                   *)
Opening ==
    \A id \in Id :
        client[id] = "opening" /\ id \notin overtaken =>
            /\ Live(id)
            /\ Serving => stateFile[id] = connections[id]

(* An id never drawn has left no trace. *)
NoTrace(id) == poll[id] = "none" /\ client[id] = "none" /\ id \notin tasks
Unused ==
    \A id \in Id \ used : NoTrace(id) /\ connections[id] = Absent /\ stateFile[id] = Absent

Creating == pc = "create_save" => NoTrace(cur) /\ Live(cur)

(* After close(), what is connecting, connected or polled was missed by it. *)
Missed ==
    phase \in {"closed", "cancelled", "down"} =>
        \A id \in Id :
            client[id] \in {"opening", "open"} \/ poll[id] = "run" => id \in missed

IInv ==
    /\ TypeOK /\ Working
    /\ Agreed /\ Restored /\ Opening /\ Unused /\ Creating
    /\ TaskAndClient /\ OrphansOnlyOvertaken /\ Missed

-----------------------------------------------------------------------------
LEMMA Distinct ==
    /\ \A credential \in Credential : credential # Absent /\ credential \in Record
    /\ \A id \in Id : id # NoId
    /\ Absent \in Record /\ Unknown \notin Record
  BY ModbusAssumption DEF Record

LEMMA InitInv == Init => IInv
<1>. SUFFICES ASSUME Init PROVE IInv
  OBVIOUS
<1>1. TypeOK
  BY Distinct, ModbusAssumption DEF Init, TypeOK, Record
<1>. QED
  BY <1>1 DEF Init, IInv, Working, Agreed, Restored, Opening, Unused, NoTrace, Creating,
              TaskAndClient, OrphansOnlyOvertaken, Missed

LEMMA TypeStep == IInv /\ [Next]_vars => TypeOK' /\ Working'
<1>. SUFFICES ASSUME IInv, [Next]_vars PROVE TypeOK' /\ Working'
  OBVIOUS
<1>. USE DEF store, registered, objects, process, method, history, Serving
<1>t. TypeOK /\ Working
  BY DEF IInv
<1>1. ASSUME NEW id \in Id, NEW credential \in Credential,
             CreateConnection(id, credential) \/ SetCredential(id, credential)
      PROVE  TypeOK' /\ Working'
  BY <1>1, <1>t, Distinct
     DEF CreateConnection, SetCredential, Enter, Overtake, Answer, TypeOK, Working
<1>2. ASSUME NEW id \in Id, DeleteConnection(id) PROVE TypeOK' /\ Working'
  <2>1. /\ poll' \in [Id -> {"none", "run", "cancel", "done", "crashed"}]
        /\ client' \in [Id -> {"none", "opening", "open", "closed"}]
    BY <1>2, <1>t DEF DeleteConnection, CancelPolls, CloseClients, TypeOK
  <2>. QED
    BY <1>2, <2>1, <1>t, Distinct
       DEF DeleteConnection, Enter, Unregister, Overtake, Answer, TypeOK, Working
<1>3. CASE CreateSave
  BY <1>3, <1>t DEF CreateSave, Leave, Persisted, TypeOK, Working
<1>4. CASE SaveReturns
  BY <1>4, <1>t DEF SaveReturns, Leave, Answer, Persisted, TypeOK, Working
<1>5. CASE SaveRaises
  BY <1>5, <1>t DEF SaveRaises, Leave, TypeOK, Working
<1>6. ASSUME NEW id \in Id, Connected(id) PROVE TypeOK' /\ Working'
  <2>1. acked' \in [Id -> Record \cup {Unknown}]
    BY <1>6, <1>t DEF Connected, Answer, TypeOK
  <2>. QED BY <1>6, <2>1, <1>t DEF Connected, TypeOK, Working
<1>7. ASSUME NEW id \in Id, ConnectRaises(id) PROVE TypeOK' /\ Working'
  BY <1>7, <1>t DEF ConnectRaises, TypeOK, Working
<1>8. ASSUME NEW id \in Id, PollRaises(id) \/ PollCancelled(id) PROVE TypeOK' /\ Working'
  BY <1>8, <1>t DEF PollRaises, PollCancelled, TypeOK, Working
<1>9. CASE Close
  <2>1. /\ poll' \in [Id -> {"none", "run", "cancel", "done", "crashed"}]
        /\ client' \in [Id -> {"none", "opening", "open", "closed"}]
    BY <1>9, <1>t DEF Close, CancelPolls, CloseClients, TypeOK
  <2>. QED BY <1>9, <2>1, <1>t DEF Close, Unregister, TypeOK, Working
<1>9a. CASE AllCancelled \/ LoopEnds
  BY <1>9a, <1>t DEF AllCancelled, LoopEnds, TypeOK, Working
<1>10. CASE Restart
  BY <1>10, <1>t, Distinct, ModbusAssumption DEF Restart, Leave, TypeOK, Working
<1>11. ASSUME NEW id \in Id, Restore(id) PROVE TypeOK' /\ Working'
  BY <1>11, <1>t DEF Restore, TypeOK, Working
<1>12. CASE Started
  BY <1>12, <1>t DEF Started, AllRestored, TypeOK, Working
<1>13. CASE UNCHANGED vars
  BY <1>13, <1>t DEF vars, TypeOK, Working
<1>. QED
  BY <1>1, <1>2, <1>3, <1>4, <1>5, <1>6, <1>7, <1>8, <1>9, <1>9a, <1>10, <1>11, <1>12,
     <1>13
     DEF Next, Request, Method, Task, Startup, Shutdown

(* Memory, file and answers. *)
LEMMA DurableStep == IInv /\ [Next]_vars => Agreed' /\ Restored' /\ Opening'
<1>. SUFFICES ASSUME IInv, [Next]_vars PROVE Agreed' /\ Restored' /\ Opening'
  OBVIOUS
<1>. USE DEF store, registered, objects, process, method, history, Serving
<1>t. TypeOK /\ Working /\ Agreed /\ Restored /\ Opening /\ Unused /\ Creating
  BY DEF IInv
<1>1. ASSUME NEW id \in Id, NEW credential \in Credential, CreateConnection(id, credential)
      PROVE  Agreed' /\ Restored' /\ Opening'
  BY <1>1, <1>t DEF CreateConnection, Enter, Answer, TypeOK, Agreed, Restored, Opening,
                    Unused, NoTrace, Live
<1>2. ASSUME NEW id \in Id, NEW credential \in Credential, SetCredential(id, credential)
      PROVE  Agreed' /\ Restored' /\ Opening'
  BY <1>2, <1>t DEF SetCredential, Enter, Overtake, Answer, TypeOK, Agreed, Restored,
                    Opening, Live
<1>3. ASSUME NEW id \in Id, DeleteConnection(id) PROVE Agreed' /\ Restored' /\ Opening'
  <2>1. \A other \in Id : client'[other] = "opening" => client[other] = "opening"
    BY <1>3, <1>t DEF DeleteConnection, CloseClients, TypeOK
  <2>. QED
    BY <1>3, <2>1, <1>t DEF DeleteConnection, Enter, Overtake, Answer, TypeOK, Agreed,
                            Restored, Opening, Live
<1>4. CASE CreateSave
  BY <1>4, <1>t DEF CreateSave, Leave, Persisted, TypeOK, Working, Agreed, Restored,
                    Opening, Creating, Live
<1>5. CASE SaveReturns
  BY <1>5, <1>t DEF SaveReturns, Leave, Answer, Persisted, TypeOK, Working, Agreed,
                    Restored, Opening, Live
<1>6. CASE SaveRaises
  BY <1>6, <1>t DEF SaveRaises, Leave, Agreed, Restored, Opening, Live
<1>7. ASSUME NEW id \in Id, Connected(id) PROVE Agreed' /\ Restored' /\ Opening'
  <2>1. Agreed'
    <3>1. CASE id \in overtaken \/ phase = "start"
      BY <1>7, <3>1, <1>t DEF Connected, Agreed
    <3>2. CASE ~(id \in overtaken \/ phase = "start")
      BY <1>7, <3>2, <1>t DEF Connected, Answer, TypeOK, Agreed, Opening
    <3>. QED BY <3>1, <3>2
  <2>2. Restored' /\ Opening'
    BY <1>7, <1>t DEF Connected, TypeOK, Restored, Opening, Live
  <2>. QED BY <2>1, <2>2
<1>8. ASSUME NEW id \in Id, ConnectRaises(id) PROVE Agreed' /\ Restored' /\ Opening'
  BY <1>8, <1>t DEF ConnectRaises, TypeOK, Agreed, Restored, Opening, Live
<1>9. ASSUME NEW id \in Id, PollRaises(id) \/ PollCancelled(id)
      PROVE  Agreed' /\ Restored' /\ Opening'
  BY <1>9, <1>t DEF PollRaises, PollCancelled, TypeOK, Agreed, Restored, Opening, Live
<1>10. CASE Close
  <2>1. \A id \in Id : client'[id] = "opening" => client[id] = "opening"
    BY <1>10, <1>t DEF Close, CloseClients, TypeOK
  <2>. QED BY <1>10, <2>1, <1>t DEF Close, Agreed, Restored, Opening, Live
<1>10a. CASE AllCancelled \/ LoopEnds
  BY <1>10a, <1>t DEF AllCancelled, LoopEnds, TypeOK, Agreed, Restored, Opening, Live
<1>11. CASE Restart
  BY <1>11, <1>t DEF Restart, Leave, TypeOK, Agreed, Restored, Opening
<1>12. ASSUME NEW id \in Id, Restore(id) PROVE Agreed' /\ Restored' /\ Opening'
  BY <1>12, <1>t DEF Restore, TypeOK, Agreed, Restored, Opening, Live
<1>13. CASE Started
  BY <1>13, <1>t DEF Started, AllRestored, TypeOK, Agreed, Restored, Opening
<1>14. CASE UNCHANGED vars
  BY <1>14, <1>t DEF vars, Agreed, Restored, Opening, Live
<1>. QED
  BY <1>1, <1>2, <1>3, <1>4, <1>5, <1>6, <1>7, <1>8, <1>9, <1>10, <1>10a, <1>11, <1>12,
     <1>13, <1>14
     DEF Next, Request, Method, Task, Startup, Shutdown

(* Ids, tasks and clients. *)
LEMMA RegisteredStep ==
    IInv /\ [Next]_vars => /\ Unused' /\ Creating' /\ TaskAndClient'
                           /\ OrphansOnlyOvertaken' /\ Missed'
<1>. DEFINE Kept == /\ Unused /\ Creating /\ TaskAndClient
                    /\ OrphansOnlyOvertaken /\ Missed
<1>. SUFFICES ASSUME IInv, [Next]_vars PROVE Kept'
  OBVIOUS
<1>. USE DEF store, registered, objects, process, method, history, Serving
<1>t. /\ TypeOK /\ Working /\ Restored /\ Opening /\ Unused /\ Creating /\ TaskAndClient
      /\ OrphansOnlyOvertaken /\ Missed
  BY DEF IInv
<1>. USE DEF Unused, NoTrace, Creating, TaskAndClient, OrphansOnlyOvertaken,
             Missed, Live
<1>1. ASSUME NEW id \in Id, NEW credential \in Credential, CreateConnection(id, credential)
      PROVE  Kept'
  BY <1>1, <1>t, Distinct DEF CreateConnection, Enter, TypeOK
<1>2. ASSUME NEW id \in Id, NEW credential \in Credential, SetCredential(id, credential)
      PROVE  Kept'
  BY <1>2, <1>t, Distinct DEF SetCredential, Enter, Overtake, TypeOK
<1>3. ASSUME NEW id \in Id, DeleteConnection(id) PROVE Kept'
  BY <1>3, <1>t DEF DeleteConnection, Enter, CancelPolls, CloseClients, Unregister,
                    Overtake, TypeOK
<1>4. CASE CreateSave
  BY <1>4, <1>t DEF CreateSave, Leave, Persisted, TypeOK, Working
<1>5. CASE SaveReturns
  BY <1>5, <1>t DEF SaveReturns, Leave, Persisted, TypeOK, Working
<1>6. CASE SaveRaises
  BY <1>6, <1>t DEF SaveRaises, Leave
<1>7. ASSUME NEW id \in Id, Connected(id) PROVE Kept'
  BY <1>7, <1>t DEF Connected, TypeOK, Opening
<1>8. ASSUME NEW id \in Id, ConnectRaises(id) PROVE Kept'
  BY <1>8, <1>t DEF ConnectRaises, TypeOK
<1>9. ASSUME NEW id \in Id, PollRaises(id) \/ PollCancelled(id) PROVE Kept'
  BY <1>9, <1>t DEF PollRaises, PollCancelled, TypeOK
<1>10. CASE Close
  BY <1>10, <1>t DEF Close, CancelPolls, CloseClients, Unregister, TypeOK
<1>10a. CASE AllCancelled \/ LoopEnds
  BY <1>10a, <1>t DEF AllCancelled, LoopEnds, TypeOK
<1>11. CASE Restart
  BY <1>11, <1>t DEF Restart, Leave, TypeOK
<1>12. ASSUME NEW id \in Id, Restore(id) PROVE Kept'
  BY <1>12, <1>t DEF Restore, TypeOK, Restored, Working
<1>13. CASE Started
  BY <1>13, <1>t DEF Started
<1>14. CASE UNCHANGED vars
  BY <1>14, <1>t DEF vars
<1>. QED
  BY <1>1, <1>2, <1>3, <1>4, <1>5, <1>6, <1>7, <1>8, <1>9, <1>10, <1>10a, <1>11, <1>12,
     <1>13, <1>14
     DEF Next, Request, Method, Task, Startup, Shutdown

LEMMA Invariant == Spec => []IInv
<1>1. IInv /\ [Next]_vars => IInv'
  BY TypeStep, DurableStep, RegisteredStep DEF IInv
<1>. QED BY <1>1, InitInv, PTL DEF Spec

-----------------------------------------------------------------------------
(* The variables keep their types, and requests are served only once       *)
(* start() is through.                                                     *)
THEOREM TypeCorrect == Spec => []TypeOK
<1>1. IInv => TypeOK
  BY DEF IInv
<1>. QED BY <1>1, Invariant, PTL

(* What was answered for a connection is what a restart restores, however  *)
(* requests overlap at the await (modbus_connection_manager.py:43-105).    *)
THEOREM AnswersAreDurable == Spec => []AckedDurable
<1>1. IInv => AckedDurable
  BY DEF IInv, Agreed, AckedDurable
<1>. QED BY <1>1, Invariant, PTL

(* Task and client are registered and given up together                    *)
(* (modbus_connection_manager.py:78-83, 117-134).                          *)
THEOREM TasksHaveClients == Spec => []TaskAndClient
<1>1. IInv => TaskAndClient
  BY DEF IInv
<1>. QED BY <1>1, Invariant, PTL

(* Only a delete during the create's await leaves a connection polled that *)
(* is no more (modbus_connection_manager.py:130).                          *)
THEOREM OrphansAreOvertaken == Spec => []OrphansOnlyOvertaken
<1>1. IInv => OrphansOnlyOvertaken
  BY DEF IInv
<1>. QED BY <1>1, Invariant, PTL

(* From close() to the end of the loop, an open client or a polled         *)
(* connection is one that was not registered yet when close() ran          *)
(* (modbus_connection_manager.py:107-123, 128-134).                        *)
THEOREM CloseMissesOnlyUnregistered == Spec => []CloseReachesRegistered
<1>1. IInv => CloseReachesRegistered
  BY DEF IInv, Missed, CloseReachesRegistered
<1>. QED BY <1>1, Invariant, PTL
=============================================================================
