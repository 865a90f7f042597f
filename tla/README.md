# A TLA+ development of FBF

FBF reads building devices (BACnet, Modbus, Haystack) and publishes what it
reads over MQTT. `fbf.api` is the long-running process: it discovers devices,
keeps connections to them, polls their points and takes requests over HTTP and
commands over MQTT. This directory models its core, checks the model with TLC
on small instances and proves the main safety properties with TLAPS for every
instance. Source lines are given as `file:line`, in `src/src/fbf/` unless a
path says otherwise.

## The system

The API server is one process with four kinds of thread:

| thread | runs | shares |
| --- | --- | --- |
| asyncio loop | the three registries below, every poll task and scan | everything but the spool lock belongs to it |
| HTTP workers | `api.py` handlers; each hands a coroutine to the loop and waits (`_run`) | nothing, except `GET /devices` (api.py:299) |
| paho's network thread | `on_connect` (spool flush), `on_command` | the spool file, under `_spool_lock`; the outgoing queue |
| worker threads | `default_credential_check.check` | nothing; the loop takes the answer |

| component | state | operations | hard because | correct when |
| --- | --- | --- | --- | --- |
| MQTT sink (`mqtt_sink.py`) | spool file, paho's queue, lock | `publish_reading`, flush on connect | two threads, link loss, kill in mid-write, a cap | no reading is lost silently; the cap costs the oldest; the loop is never blocked for good |
| BACnet connections (`connection_manager.py`) | records, state file, poll and point tasks | start, create, delete, set_credential | cancellation against failure, half-done requests, kills | answers are durable; a delete stops what it deletes; tasks and records agree |
| Modbus connections (`modbus_connection_manager.py`) | the same, and clients | the same, and close | `connect()` is awaited in the middle of create and start | the same; clients and tasks are kept together |
| Device registry (`device_registry.py`) | records, state file, scan tasks, checks | reconcile, set_status, set_credential, recheck | a check lasts half a minute in a thread; scans may die | one record per device; what people said of it is kept; it tells the device's connection |
| API server (`api.py`) | phase of `async_main`, waiting calls, the command being handled | serve, `on_command`, shut down | calls that never return, redelivery, a join that waits for a waiter | no command vanishes or goes unanswered, scans overlap only after a timeout, the shutdown ends |
| Connection store (`connection_store.py`) | a file and a temporary file | load, save | kill in mid-save | the file is always a whole old or new one |
| Point polling (`_poll_point`, `should_publish`) | last value and time of publication per point | read, decide, publish, sleep | NaN, failed reads, slow drift, limits that span polls | nothing is held back longer than the limit, what lasts is shown, and then no longer published |
| Modbus discovery (`modbus_discovery.py`) | semaphore, open clients, probes | sweep | bounded concurrency, timeouts, cancellation | never more sockets than asked for, none left; finds every host that answers; ends |
| BACnet discovery (`discovery.py`) | none kept | Who-Is, learn | the network | finds what answers |
| Haxall MQTT bridge (`haxall_mqtt_bridge.py`) | topic map, subscriptions | tag, subscribe, `on_message` to `hisWrite` | clean session, retained messages, one thread for all | history follows the arrivals; what is heard is recorded |
| Haxall provisioning (`provision_haxall.py`, `haxall_client.py`) | none kept; Haxall's records | `ensure_*` in sequence | lost answers, late commits, reruns | rerunning is safe; "done." means done |
| Haystack bridge (`haystack_bridge.py`) | tags_sent | read cycles, write | runs beside the provisioning; errors per row | values follow Haxall; tags are whole and resolve |
| Pure helpers (`bacnet_tagger.py`, `bacnet_values.py`, `credentials.py`) | none | tag, normalise, encrypt, redact | ties, subtyping | most specific rule wins |
| Static bridges, mocks, tracing | none kept | | | |

They interact by calls on the loop (API server to managers and registry),
through the managers' records (a scan reads `connections`, DeviceRegistry
writes its own), through files (each manager's state file, the spool), and
through MQTT (the sink to the broker, the broker to `on_command` and to the
Haxall MQTT bridge). The bridges and the provisioning script are processes of
their own; they meet the rest, and each other, only in the broker's messages
and in Haxall's records.

## Modules

| module | what it is |
| --- | --- |
| `ReadingDelivery` | what the sink promises: a reading is pending, then delivered or given up, and never comes back |
| `MqttSink` | the sink, implementing `ReadingDelivery` |
| `MqttSinkProofs` | its theorems: invariants, the order of the spool, the refinement |
| `ConnectionManager`, `ConnectionManagerProofs` | BACnet connections, and theorems |
| `ModbusConnectionManager`, `ModbusConnectionManagerProofs` | Modbus connections, and theorems |
| `DeviceRegistry`, `DeviceRegistryProofs` | discovered devices and their checks, and theorems |
| `PointPolling`, `PointPollingProofs` | a point's task and the publish policy, and theorems |
| `ModbusSweep`, `ModbusSweepProofs` | a sweep, its sockets and its time, and theorems |
| `ApiServer`, `ApiServerProofs` | the process, its threads and the command channel, and theorems |
| `HaxallMqttBridge` | the bridge from readings to Haxall's history, with broker and link |
| `HistoryPipeline`, `MCHistory` | that bridge fed by a sink of which only `ReadingDelivery` is known; its instance for TLC |
| `Folio` | Haxall's records, as the two next modules use them |
| `ProvisionHaxall` | the provisioning script |
| `HaystackBridge` | the Haystack bridge's read mode |
| `HaxallReadback`, `MCReadback` | script, ingestion tasks and bridge on one Haxall; its instance for TLC |
| `HaxallProofs` | theorems about HistoryPipeline and HaxallReadback |

Each module's parameters are CONSTANTS with a named ASSUME, so that the same
module is instantiated by a `.cfg` for TLC and reasoned about by its proofs. Definitions
marked `Faulty` are plausible mistakes in the code; replacing the definition
below them by one of them makes the named property fail, which shows that the
property depends on that code.

### MqttSink

`publish_reading` on the loop thread is `PublishReading` (the question
`is_connected()`), then `Send` or `AppendLine` and `Trim`; the flush on the
network thread is `FlushStart`, a `FlushPublish` per record and `FlushRemove`,
with its early returns and its exceptions. Any file operation may fail:
the append (`AppendRaises`), the trim after it, which then leaves its row
above the cap (`TrimRaises`), the flush's read and its removal
(`FlushFileRaises`). `untrimmed` counts the rows added since a trim last went
through. The threads meet in `connected`, `queue`, `lock` and `spool`. A file is its readable records and the state of its last
line, because a torn line can only spoil its successor. `Crash` forgets the queue and may
tear the line being written. The broker keeps the last message per topic.

### ConnectionManager

A method has a step per save, tag publication and task start (`pc`), so that a
save or a tag that raises, or a kill, ends it between any two. No other task
runs inside a method, since nothing in it awaits. The poll task and the point
tasks have asyncio's states: not started, waiting for the gather, gather failed and not yet
told, cancelled in each of these, done, crashed. A cancelled gather cancels
its points; a failed one does not. `created` remembers which connections a
create has returned.

### ModbusConnectionManager

As above, but create and start await `client.connect()`: other requests, polls
and `close()` run in between. `overtaken` remembers which creates were deleted meanwhile.
The process does not end with `close()`: connects return and coroutines that
HTTP workers have queued begin (phase `closed`), asyncio.run cancels all
tasks, among them creates that await `connect()` (AllCancelled), more
coroutines may begin (`cancelled`), and the loop ends when the cancelled tasks have
(LoopEnds). `missed` remembers whose client was still connecting at `close()`
or was made after it.

### DeviceRegistry

Each method is one step (none awaits before its save). A check is a record
with its number, in a thread until `Probe` and answered until `CheckDone`.
The managers' connections change at any time.

### ApiServer

`phase` is how far `async_main` has got. A thread that waits in `_run` holds
the number of its coroutine in `call`; the coroutine may end or not, and
the wait may end at any moment (the timeout). `scans` are the coroutines
commands have started, `givenUp` those of them whose wait has timed out. In phase `joining` the
loop is blocked: `finally` (api.py:480-488) has no await that suspends. The
broker's session is a sequence whose head is delivered first and removed when
acknowledged; results come back through the subscription.

### PointPolling

One point's task: asleep (`timer`), reading, or with a value (`pc`). Between a
value and the next sleep the code awaits nothing, so Publish and Suppress are
single steps. `since` is `now - last_published_at`; it stops counting
at `Horizon`, which no limit exceeds, so nothing depends on the bound. Time may pass at any point, since
the loop may be late and a read may take long. Enumerated values are
texts after `normalize_value`; a NaN is a number that equals nothing and is no
distance from anything. `behind`, a history variable, counts the poll
intervals since the broker's value last told the point's reading.

### ModbusSweep

A probe per host: queued at the semaphore, connecting, reading, done. Here time
matters in the other direction: what is ready runs before the clock ticks, so that the
bound InTime states is one for a loop in time. The request that waits
(`caller`) gives up at `CallTimeout` and the sweep goes on.

### HaxallMqttBridge and HistoryPipeline

`main` is tagging, connecting, subscribing topic by topic, listening;
`on_message` is one of four steps on the first message of `inbox`. A hisWrite
whose answer does not come within 15 s, or whose process is killed, is given
up; Haxall may never do it, or do it at any later time (`abandoned`, HisWriteLands),
also after those of the next messages. Messages
that arrive while `main` subscribes wait, since paho's loop is not running
yet. The session is clean: a lost link forgets the subscriptions, and
Reconnect does not repeat them. The broker retains the last message per topic
and sends it first to a new subscription. HistoryPipeline puts the *abstract*
sink before it: readings come at least once, and in any order, as `MqttSink`
is proved to deliver them.

### Folio, ProvisionHaxall, HaystackBridge and HaxallReadback

Haxall's database is a sequence of records that grows and never shrinks.
The script's `main` is the sequence of its calls (`Plan`); each `ensure_*`
is find, commit, find again, and every eval may be refused or lose its answer,
in which case the commit may also be done later (`late`). The bridge is
the reads of a cycle (`phase`, `cycle`) and the rows of the one in progress
(`unpublished`). A display name stands for its
slug, so two names with one slug are one name here. The two and the ingestion
tasks (TaskRuns) interleave eval by eval. The instance has one point of the
four, made by hand and fed by a task the script makes: what `Fan Status` is; the
write-demo fixture is the point the script makes itself.

## Runs

| run | instance | shows |
| --- | --- | --- |
| `sink` | 2 points (one that paho refuses), 3 readings, cap 1, 1 lost link, 1 kill, failing file operations, torn writes | NoSilentLoss, SpoolBounded, EvictsOldest, the refinement DeliverySpec, PublishReturnsEventually, SpoolReplayed |
| `bacnet` | 2 ids, 2 points, 2 credentials, any failure, 1 kill | AckedDurable, TasksHaveRecords, OrphansOnlyOfFailed, UntaggedOnlyRestored, DeleteStopsUnlessCrashed |
| `modbus` | 2 ids, failures, a close and what runs after it, 2 restarts, by kill or not | AckedDurable, OrphansOnlyOvertaken, CloseReachesRegistered, RestoreCompletes |
| `registry` | 1 device of either protocol, 2 ids, 2 scans, 2 connections, 2 checks, 1 failed save, 1 kill | UniqueDevices, CredentialDurable, DismissedStaysIgnored, CheckedOnce, RecordTellsConnection, CheckReachesRecord |
| `api` | 2 commands, 1 that is no object, 1 worker, 2 calls, 2 connections, 2 starts | AnsweredOrHeld, ScansOverlapOnlyAfterTimeout, ShutdownCompletes, CommandsAnswered |
| `polling` | 3 numbers, 2 enumerated values, NaN; no policy, marker, tolerance 0 or 2; limit and interval absent or 3; a poll interval of 2 | NotBehindLong, EventuallyShown, GoesQuiet |
| `sweep` | 4 hosts, concurrency 0 to 3, a timeout of 2, CALL_TIMEOUT 13 | SocketsBounded, InTime, SweepEnds |
| `history` | 2 topics, 2 points, 2 layouts of the records, 2 messages (number, zero, text, list), hisWrites that fail or land late, 1 lost link, 2 starts | HistoryInArrivalOrder, ListenedIsRecorded, StartsWithRetained |
| `readback` | the script's plan with 1 tagged point, 1 equip and the fixture; 2 runs, 1 late commit (of an equip), 1 start of the bridge, a nameless writable point or none | NoDuplicates, DoneMeansProvisioned, BridgedTagsWhole, EquipRefResolves, ReadbackFollows |

Why these bounds are enough to be interesting: three readings over a cap of one
make the cap evict one that is older than another, and a trim that fails
leave rows for the next one to cut; two ids let a failed request be persisted by the
save of another connection, and a delete overtake a create; two points let one
fail and the other be left behind; two connections to a device have an elder
and a later one; two calls let a command time out with its coroutine running
while the next one starts; one kill falls at every step. For polling, a limit that is no multiple of the
poll interval makes a change wait over a poll that falls short of it, a
tolerance of 2 over {0, 1, 2} lets a drift stay below it in each
step and reach it in two. Four hosts at concurrency 3 need two rounds, and
CALL_TIMEOUT 13 lies between two rounds (12) and four (24): some requests time out
and some do not. Two runs of the script make every failure of the first one
precede a rerun; one late commit is enough to arrive after the rerun has
looked (`landed`), and it is an equip's, because what a duplicate does to the others is the same. Symmetry is not
used, since most runs check liveness.

Deadlock is not checked: with the bounds used up and nothing to do,
every one of these systems rests.

### Where the code differs from what the repository says

| run | property | what happens |
| --- | --- | --- |
| `sink_stale_retained` | RetainedIsLatest | the flush publishes older readings after a newer direct one; the broker retains the older |
| `bacnet_orphan_points` | DeleteStops | after one point task raised, a delete no longer reaches the others |
| `modbus_orphan_poll` | PolledIsListed | a create overtaken by its delete starts polling all the same |

Others that the models contain as steps, and no run repeats.

In the API server's process: `is_connected()` (mqtt_sink.py:145) is read
outside the lock, so that a reading spooled after a reconnect's flush waits
for the next outage (141-143); one spooled label with `+` or `#` ends the
network thread in `on_connect` (84); a kill in mid-append also spoils the next
record (46-48, 67); a trim that fails raises out of publish_reading and leaves
its row above the cap (69-71), which SpoolBounded counts. A create that fails
at the tags stays listed and persisted, unpolled (connection_manager.py:130,
openapi.yaml:154); a create that was not returned, because its save or its tags
failed or a kill came first, may have been persisted, and is then polled
untagged after the next start (129-130, UntaggedOnlyRestored). A NaN that was
published first stays for a numeric tolerance, and no NaN ever replaces a
number (73); by the marker policy a NaN is published at every poll the limit
lets through, against docs/bacnet-discovery-api.md:85-86, and so is a number
under a tolerance of 0 (both are named in GoesQuiet's Repeated).
A client still connecting is missed by `close()`, and one made after it is
closed by nobody (modbus_connection_manager.py:108-123, named by `missed`). A late automatic check overwrites a
newer recheck (device_registry.py:75-78, 186-192). Commands held over a
restart arrive before their callback is registered, and are dropped
(api.py:437-453, docs/command-channel.md:63-65); a command that is JSON but
not an object ends the network thread (388, 396); scans overlap after a
timeout, against 374-375, and only then (ScansOverlapOnlyAfterTimeout). A sweep with a concurrency of 0 never ends, and one that
takes longer than CALL_TIMEOUT is answered with an error and goes on
(modbus_discovery.py:69).

Around Haxall: the MQTT bridge hears nothing after a reconnect
(haxall_mqtt_bridge.py:110; "continuously, in real time", 6-7), JSON that is
no object ends it (73), and a hisWrite given up at its timeout may be done
after the next message's and put the history out of order (78, haxall_client.py:42). A task made while its point was missing reads @None
for ever (provision_haxall.py:136, 168), and a commit done after the next run has
looked makes a duplicate. tags_sent is set despite errors
(haystack_bridge.py:152); a point without dis ends the bridge (106); and the
order of the two reads does matter when points are tagged meanwhile, which
128-129 denies: points first, as the code has it, is the order that works.

## Fairness

- `MqttSink`: each thread takes its next step (its file operations end), paho
  reconnects and sends. Publishing, losing the link and dying are free.
- `ConnectionManager`, `ModbusConnectionManager`: the loop runs a ready task
  (strong fairness where a method in progress keeps a task waiting: asyncio's
  ready queue is first in, first out). A `connect()` ends, because pymodbus
  gives it a timeout. Requests, failures and what closes the process are free.
- `DeviceRegistry`: a check ends, as each of its requests has a timeout
  (default_credential_check.py:62), and the loop takes its answer.
- `ApiServer`: the network thread runs and its `result(timeout=...)` returns, and the
  shutdown goes on. HTTP workers are free. That a coroutine
  ends is not assumed.
- `PointPolling`: time passes, the loop runs the task, and a read ends
  (bacpypes3 gives up by itself). What the device does is free.
- `ModbusSweep`: probes proceed, as connect() and each read have a timeout
  (modbus_discovery.py:33), and time passes. A cancellation is free.
- `HistoryPipeline`: the bridge's thread runs, its requests end
  (haxall_client.py:42, haxall_mqtt_bridge.py:55), and loop_forever
  reconnects. Nobody has to restart the process.
- `HaxallReadback`: the bridge's thread runs. The script, the tasks and the
  people are free.

## Proofs

All are `Spec => []Inv`, an action property (UntaggedOnlyRestored, EvictsOldest) or a
refinement, for any constants that satisfy the ASSUMEs (points, ids, bounds of
any size). Two of these say more than what sort of thing a constant is, both of
the script's plan: each point it tags belongs to an equip it makes
(EquipAssumption; provision_haxall.py:191-199), and no point is made both by
hand and by the script (HandAssumption; 163 and 195 against 164-165 and 202, after
docs/haxall-mqtt-integration.md).

| module | theorem | establishes |
| --- | --- | --- |
| `MqttSinkProofs` | TypeCorrect, FlushCoversFile, NothingLostSilently, SpoolNeverOutgrows, CapEvictsOldest, SinkImplementsDelivery | TypeOK, FlushCovers, NoSilentLoss, SpoolBounded, EvictsOldest, DeliverySpec |
| `ConnectionManagerProofs` | TypeCorrect, AnswersAreDurable, TasksAreReachable, OrphansAreOfFailed, UntaggedAreRestored | TypeOK, AckedDurable, TasksHaveRecords, OrphansOnlyOfFailed, UntaggedOnlyRestored |
| `ModbusConnectionManagerProofs` | TypeCorrect, AnswersAreDurable, TasksHaveClients, OrphansAreOvertaken, CloseMissesOnlyUnregistered | TypeOK, AckedDurable, TaskAndClient, OrphansOnlyOvertaken, CloseReachesRegistered |
| `DeviceRegistryProofs` | TypeCorrect, DevicesAreUnique, CredentialsAreDurable, DismissalsLast, ChecksAreNotRepeated, RecordsTellConnections | TypeOK, UniqueDevices, CredentialDurable, DismissedStaysIgnored, CheckedOnce, RecordTellsConnection |
| `PointPollingProofs` | TypeCorrect, NeverBehindLong | TypeOK, NotBehindLong |
| `ModbusSweepProofs` | TypeCorrect, SocketsAreBounded, SweepFindsAll, SweepsInTime | TypeOK, SocketsBounded, FindsAll, InTime |
| `ApiServerProofs` | TypeCorrect, CommandsDoNotVanish, ResultsAreOfCommands, OverlapsAreGivenUp | TypeOK, AnsweredOrHeld, OnlyCommandsAnswered, ScansOverlapOnlyAfterTimeout |
| `HaxallProofs` (history) | HistoryTypeCorrect, HistoryFollowsArrivals, ListeningMissesNothing | TypeOK, HistoryInArrivalOrder, HeldOrRecorded |
| `HaxallProofs` (readback) | ReadbackTypeCorrect, ScriptMakesNothingTwice, ScriptDoneIsProvisioned, TagsAreWhole, TagsFindTheirEquip | ReadbackOK, NoDuplicates, DoneMeansProvisioned, BridgedTagsWhole, EquipRefResolves |

The arguments:

- **Sink.** NoSilentLoss is not inductive: when the file is removed its
  readings must be elsewhere. FlushCovers says that they are in the queue or
  with the broker, and it holds because the lock, in whose hands TypeOK puts
  each thread, keeps the file as it was when it was read. The four together
  are inductive. SpoolBounded is, too: a trim that goes through cuts all that
  failed ones have left, so what stands above the cap is what came since. For the refinement a reading also has to be fresh when it
  is taken: its time stamp is above every earlier one (Fresh). From that
  follows, too, that the spool is in the order of the readings (Sorted), through torn lines
  and trims, so that its first ones, which the cap drops, are the oldest.
- **Connections.** An answer is durable only because what it says is also in
  memory, which every later save writes (Agreed, Saved); a task has no points
  when it starts because its id is new (Unused, Creating); a delete leaves
  nothing running because an uncancelled task is registered and passes its
  cancellation on (Quiet). Polling begins in two steps of the model only: the
  last of a create, whose tags were published before it, and a restart's; and
  what a create has returned was tagged by then.
- **Server.** While `on_command` waits, its command is the first the broker
  holds, so that what the acknowledgement removes is what has just been
  answered. That scans overlap only after a timeout follows from what the
  network thread waits for: of the scans that run, it waits for the newest or
  has given up all of them (OneWaitedFor), so every one it starts finds only
  such as it has given up.

- **Modbus connections.** As for BACnet, an answer is durable because memory
  and file both have it (Agreed); but here a save may come in the middle of
  another request's create, so that one also needs that a create whose
  `connect()` is awaited, if nothing has overtaken it, is listed and persisted (Opening),
  and that `start()` leaves what it has not come to untouched (Restored).
  After `close()` what is polled or open, and what is still connecting and may
  be open later, was missed by it (Missed).
- **Registry.** UniqueDevices says it of memory and file, since either is what
  the next scan or a restart goes by, and new records get ids no record
  has had (Drawn). What a person has said is kept in both (Remembered,
  DismissedKept). A device is checked automatically at most once because the
  check starts after the save, so its record is in the file, and no record is
  ever removed (CheckedAreStored). That there is a latest connection at all is
  the well-foundedness of the naturals.
- **Polling.** NotBehindLong needs to relate `behind`, which counts polls, to
  `since`, which counts time: what has been polled in vain and the part of the sleep
  that is over fit into the time since the last publication (Counted). A slow
  drift is no exception, because last_value stays what was published
  (Remembered), and not what was read last.
- **Sweep.** Each permit that is not free is one open client's (Permits), and
  a client is open as long as its probe is under way (Probing). Its time
  follows from the order in which the hosts get their places (InOrder): host
  h waits only while `concurrency` hosts before it are under way, one of
  which started a full round ahead of it; so each host is on time (OnTime),
  and the last one ends with the last round.
- **History.** Three orders make one: the inbox is in the order of the
  arrivals (InboxInOrder), what is recorded, or given up and perhaps still to
  land (Had), comes before what is in the inbox (RecordedBefore), and what a subscription brings is the last arrival of its
  topic (RetainsLast), once a start (Sessions: the topic map has each topic
  once). What lands late is exempt from the order, though not from being there
  once a start: what is given up and what is recorded stay apart (Apart). The safety half of the two liveness properties, HeldOrRecorded, says
  that nothing is lost between broker and Haxall while the first link lasts; it
  holds because main subscribes every topic of its map before it listens
  (SessionInv). That what is held is also recorded in the end takes fairness and stays
  with TLC.
- **Provisioning.** NoDuplicates alone is not inductive: that the name about to be committed
  is not there (Placed) must survive whatever else is written in between. DoneMeansProvisioned
  needs, for each step behind the script, that what it provides is there
  (Earlier) and that no step of anybody undoes it (Grows); that a tag finds its equip, and a
  task its point, is the order of the plan (PlanOrdered), proved by putting
  the plan together piece by piece.
- **Readback.** A point with an equipRef has its markers at every moment, since one commit
  adds both (WellMade, which the record in the script's hands and the lost
  commits satisfy too). Hence the rows the bridge has read are whole, however old they
  are when they are published. The equip they refer to was made before the
  point was tagged and is never removed, so the read of the equips that comes after finds
  it (Cycle, TagsResolve).

Only model-checked are the liveness properties, which are out of the prover's
reach: PublishReturnsEventually, SpoolReplayed, DeleteStopsUnlessCrashed,
RestoreCompletes, CheckReachesRecord, ShutdownCompletes, CommandsAnswered,
EventuallyShown, GoesQuiet, SweepEnds, ListenedIsRecorded,
StartsWithRetained, ReadbackFollows. Every invariant and every action property
of a run is proved.

Proved and in no run of their own: the type invariants (they
are parts of the inductive invariants), FlushCovers, TaskAndClient,
OnlyCommandsAnswered, FindsAll, HeldOrRecorded.

## Not modelled

- The Haystack bridge's write mode (haystack_bridge.py:158-170): a script of
  four calls without a state. That the next read cycle of the other mode shows what
  it has published again, from curVal and not from writeVal, would need both.
- Conversions: `to_jsonable`, `bacnet_tagger` (a table of words), the routes'
  decoding and status codes, payload texts.
- BACnet discovery's own protocol, encryption of credentials, the static
  bridges (one loop around the sink), mocks and tracing.
- `connection_store.save` is one step that happens or raises; its temporary
  file and rename are taken to be atomic, as the rename is.
- `False` as his_collect_cov, which means "any change" to the code, and a
  poll_interval of 0.

PROJECT.json gives the reason per component and, under `hazards`, what that
leaves open.

## Plan

In this order, the most important first:

1. ApiServer with DeviceRegistry: readers from HTTP threads (api.py:299).
2. `ConnectionStore`: temporary file, rename and kill, implementing the
   one-step save the managers use.
3. The safety halves of further liveness properties, as HeldOrRecorded is
   one: what is spooled is replayed by the flush in progress (SpoolReplayed), an
   ended check's answer is on its way to a record (CheckReachesRecord), the row of
   a stable value is read again (ReadbackFollows).
4. The write mode of the Haystack bridge; `BacnetTagger`.
5. ConnectionManager with MqttSink (durability of tags).
