# BuranBrew: specifications, model checking and proofs

BuranBrew keeps a fermenter at its temperature: a sensor tag (nRF54L15, Matter
over Thread) reports the ambient temperature and what a Tilt hydrometer
broadcasts; a host program reads it, computes a thermal effort and switches two
Matter smart plugs, a heater and a cooler; telemetry goes through Redis streams
into TimescaleDB and Grafana.

This directory holds TLA+ modules for the parts with state that is hard to test,
the TLC configurations that check them on small instances, and theorems checked
by TLAPS. `PROJECT.json` lists components, runs, mutants (small changes of a
definition that a property must notice), the source lines of every definition,
findings, hazards and theorems.

## 1. Inventory

| Component | Source (below `src/`) | State | Operations | Talks to |
|---|---|---|---|---|
| Actuator | `host/models/control.py` 107-293 | effort and its age, window start, believed action, last direction, idle since | `initialize`, `set_effort`, `plan`, `tick`, `force_idle`, `_switch` | plugs, through chip-tool processes |
| Control loop | `host/models/control.py` 296-476, `run.py` | next sensor update, filters | `run`, `_control_update`, `_read_gravity` | actuator, PI controller, chip-tool, telemetry |
| PI controller, filters | `host/models/control.py` 25-88, 316-320 | integral, time of last update | `update`, `_ema` | called by the loop |
| Configuration | `host/models/utils.py` 30-187, `config.yaml`, `host.env` | constants | `load`, `validate` | everything on the host |
| chip-tool adapter | `host/models/utils.py` 190-231 | none | `_run`, `_read`, `set_plug` | Matter devices, with a timeout |
| Telemetry producer | `host/models/utils.py` 234-324 | none | `sensor`, `control`, `state` | Redis, best effort |
| Archiver | `host/telemetry/consumer/main.go` | cursor; pending entries live in Redis | `step`, `insert`, `main` | Redis consumer group, TimescaleDB |
| Redis, TimescaleDB | `telemetry/scripts/redis-run.sh`, `sql/schema.sql` | streams, group, tables | external | archiver, Grafana |
| BLE observer | `amnin_sensors/src/ble_observer/observer.c` | gate, sample, scan state, timer | public API, three work handlers, receive callback | Bluetooth stack, work queue |
| Sensor application | `amnin_sensors/src/app_task.cpp` | how far the start came, published attributes | start, gate policy, periodic report | observer, Matter stack |
| Tilt decoding, ambient | `tilt.h`, `sensors/ambient.c` | whether the sensor was ready | conversions | observer, application |
| Matter data model | `default_zap/zap-generated/` | attribute storage, registered clusters (both in the SDK) | tables; start and end of each cluster, attribute access, commands | application, clients such as chip-tool |
| Commissioning | `host/scripts/commission-*.sh` | a deadline | phases of a script | plug with a fail-safe timer |
| Orchestration | `telemetry/process-compose.yaml`, `scripts/*.sh` | process states | start order, restarts | the telemetry processes |
| Alerts, dashboards | `grafana/` | none | SQL predicates | TimescaleDB |
| Simulator | `telemetry/scripts/simulate.sh` | generator state | emits, tests predicates | Redis, TimescaleDB |
| Deployment, flashing | `host/scripts/*`, `flake.nix` | none | installation commands | |

What makes each part correct, and what makes that hard:

* **Actuator and loop.** Never both plugs on; a HEAT/COOL reversal passes through
  IDLE; no output without a fresh effort; plugs off at the end. Hard because the
  program only *believes* it knows the plugs: a command is a process with a 30 s
  timeout that may fail after it has taken effect, a switch is two of them, the
  clock is read once before them, and an interrupt may come in between. The
  process may be killed and started again with the plugs in any state.
* **Archiver.** At least once delivery made exactly once by a unique key: no
  entry forgotten, none twice, pending before new. Hard because every call may
  take effect and still fail, the process may die between any two of them,
  Redis may come back with an older state, and the key has a date in it that is
  worked out anew for every insert.
* **Observer and application.** Scans end, the gate is respected, published
  values are recent. Hard because four threads meet (Matter, Bluetooth receive,
  work queue, timers) and handlers block in the middle; because the gate follows
  events that are handled after the state has changed; and because the start may
  fail, and the tag reboot, between any two steps.
* **Readings and data model.** What a client reads is what was measured, and only
  who may change something can. Hard because numbers are rounded, clamped and cut
  to 16 bits on both sides of zero, because one bit pattern means null, and because
  the generated tables refer to each other by index, count and sum of sizes: one
  that is out of step moves what is behind it.
* **PI controller.** No windup, no jump after readings have failed, an effort that
  follows the error. Hard because anti-windup, limit and cap of the time step act
  on each other over many updates.
* **Commissioning, orchestration, alerts, configuration.** Timing
  against a fail-safe timer; start order with failures; one predicate written
  twice; one setting with two precedences. Not modelled yet (section 8).

## 2. Modules

| Module | Models | Extends |
|---|---|---|
| `PlugInterlock` | abstract: what the two plugs may do, seen from outside | |
| `Actuator` | the actuator, its plugs and its process | |
| `ControlLoop` | `ControlLoop.run` driving the actuator | `Actuator` |
| `MCControlLoop` | constants for TLC | `ControlLoop` |
| `ActuatorProofs` | type invariant, interlock, beliefs, pulses; the actuator implements `PlugInterlock` | `Actuator`, TLAPS |
| `ControlLoopProofs` | the loop's steps are actuator steps; the theorems carried over; stale outputs, shutdown | `ControlLoop`, `ActuatorProofs` |
| `PIController` | the controller and its two filters | |
| `PIControllerProofs` | its limits, no windup, no large jump, order of efforts | `PIController`, TLAPS |
| `Archiver` | the consumer with Redis, database, clock and producer | |
| `MCArchiver` | symmetry of the clock for TLC | `Archiver` |
| `ArchiverProofs` | nothing forgotten, no second row, pending first | `Archiver`, TLAPS |
| `Observer` | the BLE observer with work queue, timer and radio | |
| `SensorApp` | the application's start, its Matter thread and the Matter stack around the observer | `Observer` |
| `ObserverProofs` | the observer's invariant under any calls | `Observer`, TLAPS |
| `SensorAppProofs` | gate, bursts and age of what is published | `SensorApp`, `ObserverProofs` |
| `Readings` | the conversions from sensor to host, 16-bit storage, null | |
| `DataModel` | the generated tables and the SDK's look-ups in them | |
| `MatterServer` | the server cluster by cluster, what the application and clients do to it | `DataModel`, `Readings` |
| `DataModelProofs` | the tables fit each other: indices, counts, offsets, privileges | `DataModel`, TLAPS |
| `MatterServerProofs` | accuracy of the conversions over their whole range; the server's invariant and every property of its run | `MatterServer`, `DataModelProofs` |

Operators marked `\* mutant` are small mistakes a change of the code could make;
no specification uses them. Each stands before the definition it would replace.

### 2.1 Actuator

Timestamps become ages (now minus timestamp) that stop counting at `MaxAge`, which
also stands for `None`: for every comparison of the code "never" and "longer ago
than any threshold" have the same result (`AgeAssumption` keeps the bound beyond
all thresholds). Effort is counted in seconds of the window.

A call of `_switch` is two chip-tool commands. `sw` is the call in progress: who
called, the action asked for, which command is awaited, how the first one ended
and how long ago the caller read the clock (`lag`). A command takes `d` seconds,
and its plug changes `since` seconds before its end. It ends `ok`, `lost` (not
done, reported failed), `unacked` (done, reported failed), or in an exception
`_switch` does not catch or a kill (`Abandon`). `SwitchProceeds`, `SwitchFails`
and `SwitchSucceeds` are the three ways on: the second command; `return False`,
after which the caller changes nothing; `return True` together with the caller's
assignments, which include the stale `now`. `Wanted` is `plan()` with all its
early returns: no command or stale, deadband, minimum pulse, duty, lockout.

### 2.2 ControlLoop

`pc` walks through `run()` and `_control_update`; `back` is where a switch
returns to. The decision whether an update is due is taken before the tick, as in
the code. `Interrupt` leads from every point of the `try` into `Finally`,
`SwitchAbandoned` from inside a command; an exception in `initialize` or in
`force_idle` ends the run. `Down` and `RestartLoop` are a restart after any time.
The effort is a free choice (`Efforts`); what the controller makes of the readings is
`PIController`.
Telemetry calls are left out: the emitter catches every exception; its socket
timeouts (0.25 s) are below the model's unit of time.

### 2.3 PIController

Fixed-point numbers: `Full` is the effort 1.0, gains and temperatures are integers,
`ki_per_hour` is counted per second. `Update` is one whole `update` behind the two
filters, `ReadFails` an iteration whose readings failed: only the time since the last
update goes on. `started` stands for `_last_update` and the filters not being `None`;
they leave `None` together. Rounding is left out except for the filters, which round
down to a unit of temperature.

### 2.4 Archiver

Entries are `<<stream, id>>`; an entry is good, good without the producer's date,
malformed, or refused by the database. A row is an entry's id with the date that `ts`
gives it: the producer's, else the one in the id, else `now`. As the unique key is both,
an entry whose date changed between two inserts would have two rows; `rows` can hold them,
`ClockMoves` lets the clock go anywhere, and `DatedIds` says whether ids hold a date, as those do
that Redis makes. Without it and with an undated entry `OneRowEach` is false.

`redis[s]` is the stream with the group's last-delivered id and its pending entries; `disk`
is what a fall-back restores. `ReadOk`, `InsertOk`, `AckOk`
are the calls that work, `ReadFails`, `InsertFails`, `AckFails` those that fail
before or after taking effect. `Stop` may come anywhere. A trimmed entry that is
still pending is replayed without fields and so acknowledged as malformed.

### 2.5 Observer and SensorApp

Three threads change the observer: callers of its API, the receive callback, and
the work queue. A work handler is interrupted where it blocks, in
`bt_le_scan_start` and `bt_le_scan_stop`; `wq` says in which, and `RadioOn`,
`RadioOff` are the moments the calls take effect. An error of a start is a return
without `RadioOn`; of a stop, a return without `RadioOff`.
`queue` keeps the order of submission and each work at most once, as Zephyr does.

`SensorApp` adds the Matter thread, which handles what was posted in order:
policy events (`ApplyGate`), the periodic report (`Report`) and the callback's work
(`ReportTilt`). The Matter stack around it is external: it starts and stops
advertising and commissions, and posts the event afterwards. `waiting` bounds how
late each thread may be; `Post` lets no policy event come to a thread that is late.

`boot` is the main thread in `AppTask::Init`: every step may fail, and then `main`
returns while the other threads go on. The server may advertise before the first
gate is scheduled. `Reboot` may come at any time and loses everything but the fabric
table. `LastFabricRemoved` posts nothing the policy handles; what ends the open gate is
what the SDK does next (`AfterRemoval`: it reboots or it advertises, by configuration),
and `removed` says that this is still to come. `gravity` is what EP3 has after `PublishTilt`:
null, the gravity of the published sample, or an earlier one, because `Set` refuses 0xFFFF and
its result is not looked at (`nullGravity`). `failed` after a step of the start means
that `observer_enable` has not been called, or is not called any more.

### 2.6 Readings, DataModel and MatterServer

`Readings` has the conversions as operators: `tilt.h` (Fahrenheit to hundredths of a
degree, with the clamp), `ambient.c` (the two halves of a sensor value), the SDK's
`Set`, which refuses what 16 bits or the pattern of null cannot hold, the two unsigned
bytes of the storage, and what `ChipTool._read` makes of the answer (null is a read that
fails).

`DataModel` writes the generated tables down with clusters named instead of numbered,
in the header's order, since attributes, commands and clusters are found by index
from a cluster's entry and endpoints by a count. `Offset` adds sizes up as the SDK
does, with `SumsOf`; `CommandsFrom` reads a list to its end; `Required` searches the three parallel
arrays of `access.h`. Nothing in it is derived: a count that is wrong in the header
would be wrong in the model.

`MatterServer` walks through the clusters at the start and at the end
(`InitializeCluster`, `ShutDownCluster`, one cluster a step) and lets the application's two
reports and clients' writes in between go through the tables into `memory`, the SDK's 90
bytes. A code-driven server answers writes and commands of its cluster itself; where
none is registered a write goes to `memory` and a command is `UnsupportedCluster`.
The SDK's own NetworkCommissioning on the root (`OwnInstances`), which no generated table
or switch registers, handles the commands for Thread; `commission-sensor.sh` needs them.
`source` is a history variable: what the value of each endpoint was made from, which for a
gravity that `Set` refused is the sample before. Before the first report an endpoint reads as
the default, zero, not as null.

## 3. Runs that pass

| Run | Checks | Instance |
|---|---|---|
| `acked` | `StaleOutputOff`, `ShutdownLeavesOff`, `FullEffortHeats` | every command acknowledged, as slow as allowed, interrupts between commands |
| `faults` | `Interlock`, `BeliefExcludesOther`, `PlugsInterlocked` | lost and unacknowledged commands, exceptions, kills, restarts, plugs on at start |
| `lost` | `IdleMeansOff`, `PlugsGapped`, `PulsesAskedFor`, `StaleTurnsOff` | lost commands, interrupts between commands |
| `replay` | `PendingFirst`, `GoodArchived` | good and malformed entries, trimming |
| `rollback` | `NothingForgotten`, `OneRowEach` | Redis falls back, reads repeated by the client, a clock that moves, undated entries, no trimming |
| `effort` | `NoWindup`, `ColderHeatsMore`, `NoLargeJump`, `PersistentErrorWins` | readings that jump between four temperatures, updates late and readings that fail |
| `gate` | `GateCloses`, `ScanOwned`, `TimeoutBelongsToBurst`, `CallbackAfterCapture`, `GateFollowsPolicy`, `GateClosesAfterRemoval`, `PublishedIsRecent`, `BurstsEnd`, `BurstsGoOn` | threads late by a tick, scan starts and stops that fail, starts of the tag that fail, reboots, removed fabrics |
| `server` | `ReadingsTrue`, `OthersKeepDefaults`, `ServersReady`, `CommandsServed`, `PrivilegesAligned`, `ShutdownReleases` | readings at every edge of the conversions, clients of every privilege, stop and reboot at any time |

`TypeOK` is checked in `acked`, `replay`, `effort`, `gate` and `server`.

The bounds of `StaleOutputOff` and `PublishedIsRecent` are exact: with one second
or tick less TLC finds a counterexample. In words:

* a plug outlives the staleness timeout by at most six command timeouts and one
  tick, when commands are slow but acknowledged: two to turn it on at the last fresh
  moment, two sensor reads, the tick, and the switch that ends it, where the cooler's OFF is
  the second command and may take effect at its end. `StaleOutputOff` is an action property to
  see the last moment at which the plug is on, in the middle of that command;
* what endpoint 2 has is at most `SAMPLE_MAX_AGE_MS`, one report period and the Matter
  thread's delay old. Endpoint 3 has the same sample's gravity, or an earlier one when that
  is 0xFFFF: such a gravity goes when the fresh samples end, but while samples with
  0xFFFF keep coming its own age has no bound;
* the gap between the plugs that the code guarantees is `reverse_idle_s` minus two
  command timeouts, not `reverse_idle_s`;
* a temperature the host reads is within a hundredth of a degree of the measured one,
  or the largest 16-bit number; a gravity of 0xFFFF is not published and what the
  endpoint had before stays: an earlier gravity, null, or the default;
* an entry has one row although its date is worked out again for each insert.

`rollback` keeps streams untrimmed. With both, an entry that is read as trimmed,
comes back with the fall-back and is then acknowledged is forgotten although it
is in the stream; a stream that trims what is pending has given it up already.

`PendingFirst` is checked without reads that the client library repeats: go-redis
does so unless `MaxRetries` is -1, and then the entries of the answer that was lost
stay pending while new ones are followed. They are replayed after the next error
or restart (`NothingForgotten` holds).

`GateCloses`, `ScanOwned` and `BurstsEnd` except the case that `bt_le_scan_stop` has
failed (`leftOn`): `burst_stop` has then reset its state, later stops return early
and later starts fail, so the radio scans on until the tag restarts. `BurstsGoOn`
excepts it too.

`CallbackAfterCapture` leaves out an advertisement that is delivered before
`bt_le_scan_start` has returned: it is older than the start of its burst, so the
burst ends without its callback. The sample is kept and published by the next report
while it is fresh.

`GateFollowsPolicy` and `GateCloses` speak of the time when every event and work has
been handled. Until then a burst can overlap with advertising, since the gate
closes on an event posted after advertising has started. `GateFollowsPolicy` leaves
out the time from the removal of the last fabric to what the stack does next;
`GateClosesAfterRemoval` says that it ends.

The mutants of `server` change one entry of a table each (a size, an index, a
privilege, a cluster that a generated `switch` does not know): they show that the
properties notice tables that are out of step, not only wrong code.

## 4. Runs that show a disagreement

Each checks one property that a comment of the repository states. They document
what the code does; the quoted lines are in `PROJECT.json`.

| Run | What happens |
|---|---|
| `stuck_on` | an ON that was done but reported failed: IDLE is believed, the plug stays on |
| `slow_reverse` | the wait before a reversal is counted from before slow OFF commands |
| `believed_on` | half a switch to IDLE: HEAT is believed with the heater off, and stays so while HEAT is wanted |
| `refused` | an entry the database refuses is retried for ever and blocks both streams |

The cause of `stuck_on` has a second consequence: after Ctrl-C during an ON command
`force_idle` finds IDLE and does nothing, so that `ShutdownLeavesOff` does not hold
with exceptions in the middle of a command (`raise` in `Faults`). `acked` has
interrupts between commands only.

`ColderHeatsMore` is stated up to one step of the integral because the whole step is
refused at the edge of saturation: there a fermenter a little colder gets a little
less. `NoLargeJump` leaves the first update out, which takes `period_s` without the cap;
`validate` does not compare the two.

`stuck_on` is also why `acked` and `lost` have no `unacked` outcome: with it
`StaleOutputOff` and `IdleMeansOff` are false, while `faults` shows that the interlock
does not depend on it. Restarts are left out of `lost` because a new process knows
nothing of the last direction, so that the gap is not kept across them.

## 5. Bounds

* Control runs: a window of three, minimum pulse two, a period of two, timeouts
  zero or one. Every comparison of `plan()` goes both ways, a switch can outlast a
  tick, a window can end inside a command. `MaxAge` is 12 where a property measures
  ages beyond the thresholds, 4 or 6 elsewhere.
* Efforts `{-2, 0, 1, 3}`: cooling for a part of the window, nothing, heating for less
  than the shortest pulse, full heat.
* Controller: errors of -7 to 5 with two ambient temperatures, steps of one and two
  seconds with a cap of two, and late by one more. The integral reaches its limit on
  one side and saturation stops it on the other, so that each of the two is seen
  to do its work.
* Archiver: two streams with up to two entries each; batches of one or two, so that
  a batch can be interrupted and a replay needs several reads. Three or more
  entries repeat the same situations. The clock has two values, enough for an entry
  to be inserted at two different times.
* Observer and application: a burst of one tick, a report period of three, samples
  fresh for one tick, up to two policy events waiting and each thread late by up to a
  tick, so that bursts, reports and events meet in every order. A timeout
  can then be due while a handler is blocked or late, and several bursts fit into a
  period. Ages stop at 3 (observer) and 6 (published values), beyond every threshold.
* Server: the tables in full. Tilt temperatures 0, 68 and 65535 °F (below zero Celsius,
  exact, clamped), gravities 1050 and 65535 (null's pattern), ambient temperatures
  21.47 °C and -0.509999 °C (rounded on both sides of zero); an advertisement that is
  too short and one of another maker. Values are only copied, so that more of them
  repeat the same cases; all of them are covered by the theorems of `MatterServerProofs`.

Symmetry is used for the clock of `rollback` only, whose values are just compared
for being equal, in a run without liveness. Heater and cooler are not symmetric in `_switch`.

Deadlock checking is off in the control runs, where a program that has ended and
is not restarted stops the system. It is on in all others.

## 6. Fairness

* `ControlLoop!FairSpec`: the loop's thread keeps running (`WF`), because every wait
  is a sleep or a subprocess with a timeout; and a command that can be acknowledged
  again and again is acknowledged some time (`SF` on each of the two commands): a
  plug is not out of reach for ever. Interrupts, crashes and failures are not
  fair.
* `PIController!FairSpec`: the loop goes on and the sensor is not out of reach for
  ever; how long readings fail is not limited.
* `Archiver!FairSpec`: the process is restarted (`restart: on_failure` in
  `process-compose.yaml`), no call lasts for ever, and a call that is tried again
  and again succeeds some time.
* `SensorApp!FairSpec`: main thread, work queue and Matter thread get their turn, time
  goes on, and after the removal of the last fabric the stack reboots or advertises
  (its configuration decides which). Advertisements of the Tilt are not fair: it may
  be silent. Nor are reboots and commissioning.
* `MatterServer` has no liveness: a server may be stopped or rebooted at any time.

## 7. Theorems

All hold for every value of the constants that satisfies the named assumptions of
the modules: what `ControlTuning.validate` enforces, bounds beyond the thresholds,
and the sets of outcomes and faults. `Observer` and `SensorApp` assume only that ages
are counted beyond the thresholds; how late threads are and how many events wait is
free. `Archiver` allows any number of entries and of entries per batch.

1. `TypeCorrect`, `LoopTypeCorrect`: the type invariants. The interesting part is the
   window's age, which stays below the window although commands may take several
   windows.
2. `InterlockHolds`, `BeliefExcludes`: neither is inductive. While a switch is under
   way, one has to know what its first command achieved: the invariant of
   `ActuatorProofs` says that in the second stage of a switch that turns a plug on,
   the other plug is off, because only an acknowledged OFF leads there; and that a
   belief in an action goes with the other plug being off.
3. `IdleIsOff`: under `Acked` (no `unacked` outcome, no abandoned command) IDLE means
   both off.
4. `ImplementsInterlock`: initial states map to initial states; a command maps to
   `TurnOff`, `TurnOn` or a stutter together with the time that passes.
5. `ImplementsGap`: under `OneCleanRun` the plugs keep the gap `reverse_idle_s` minus
   two timeouts. `GapInv` relates the idle age and the last direction to the ages of
   the plugs: the age of the plug that went off is at least the idle age minus two
   timeouts.
6. `LoopDrivesActuator`: `Spec => ActSpec`. The loop restricts the actuator's steps and
   adds variables of its own, so 2, 4 and 5 hold in the loop.
7. `PulsesJustified`, for every outcome of commands: a switch that turns on has been
   justified by an unchanged effort since it began (`JustifiedInv`).
8. `OutputsEnd` and `RunEndsOff`, under `Reliable` (commands are acknowledged, interrupts come
   between them; kills and restarts are allowed, for `RunEndsOff` only restarts). `Limit`
   is the largest age of the effort at each place of `run()` while an output is on, and
   `SwitchLimit` that inside a switch: a tick leaves an output on only with a fresh
   effort, and from one tick to the next the limits add up what is waited for. The bound
   of a step is that of the place it starts from and the part of the command before the
   plug obeys.
9. `ControllerTypeCorrect`, `WindupPrevented`, `JumpsBounded`, `EffortFollowsError`, for
   gains that are not negative (`GainAssumption`; `validate` does not ask for it). `Unwound`
   is the part of the invariant that `NoWindup` needs: what the integral has gained
   towards heating was within `Full` together with the smallest feedforward there can
   be. `EffortFollowsError` splits on which of the two steps is refused; only where it is
   one and not the other does the order of the errors not carry over.
10. `ArchiverTypeCorrect`, `NoSecondRow`, `NothingIsForgotten`, `PendingComesFirst`.
   `NoSecondRow` needs `Datable`: ids are dated or no entry is without the producer's date.
   Then every row has the date of the entry that was made (`DateInv`), which needs that
   the batch is what was made (`BodyInv`), and the insert that comes again has the same key. The
   invariant has a part for each moment at which the consumer can be cut off: what
   is in its batch is what was made, unless it had been trimmed by then (`BatchInv`);
   what is to be acknowledged has its row or can have none (`AckInv`); and a good entry
   that is in the stream has its row, is pending, or comes after the last delivered
   one, in Redis as it is and in what a fall-back restores (`Kept`). `NothingIsForgotten` needs
   `NotBoth`, `PendingComesFirst` needs `Undisturbed`; section 3 says why.
11. `ObsInvariant`: `ScanOwned` alone is not inductive. What is added says which handler
   the work queue is blocked in, what it has set before that, and that a gate that
   was closed during a burst has its stop in the queue (`StopQueued`); a timeout is
   armed or queued exactly while its burst lasts.
12. `AppTypes`, `GateClosesAlways`, `ScanOwnedAlways`, `TimeoutOfItsBurst`,
   `CallbackAlways`: the steps of the application are calls of the observer, so 11 holds
   in it. `PolicyFollowed`: the last event that waits and sets the gate (`LastToSet`)
   sets it to what the policy wants, or nothing waits and it is set; and nothing
   scans before the tag runs. `PublishedRecently`: a report comes within the period
   and is handled within the thread's delay, so a published sample is replaced in time, and
   an earlier gravity is on endpoint 3 only while one is published on endpoint 2.
13. `TiltTempRight`, `AmbientRight`, `HostReadsWhatWasSet`: the accuracy of the readings,
   and that the unsigned storage gives back what the SDK took, for every number.
14. `StorageDisjoint`: the 90 bytes of the SDK are shared out so that no two attributes
   have one in common. `SumsGrow` is about sums of any length, by way of the least
   counterexample (`WFMin` with the order of the naturals, the one form of induction that
   needs no operator as a parameter); the tables give each storing cluster its room
   (`RoomAt`), and a cluster's attributes fill theirs in order (`InOrder`).
15. `ServerInvariant`, inductive, in two parts. `ServerInv` says for each `position` of
   start and end which callbacks have been called and which servers are registered; the
   pools, which `InitializeCluster` compares with the number of instances that there are,
   suffice because the instances of a cluster are on endpoints that the count of its pool
   includes (`Room`). `DataInv` says that the memory differs from the defaults in measured
   values at most: what the application writes has the place of a measured value, and
   what a client may write and the SDK would keep belongs to a cluster that answers writes
   itself (`WritableStored`). The second needs the first: only a server that is up is
   written to, and only there is that cluster's server registered.
16. From it `ServerTypes`, `OthersAlwaysKeepDefaults`, `ServersAlwaysReady`,
   `CommandsAlwaysServed`, `PrivilegesAlwaysAligned`, `ShutdownAlwaysReleases`.
   `CommandsAlwaysServed` splits on whose the server is: one that the generated switches have
   registered, where the list of the table counts, or the SDK's own.
17. `ReadingsAlwaysTrue`: `ReadingInv` adds for each endpoint that what the host would
   make of its two bytes belongs to `source`; a refused gravity leaves both as they were. It holds by 13 where the bytes are written
   and because nobody else writes them (15). Its hypothesis is that the hundredths of
   every ambient temperature fit into 16 bits: `ambient_read_centi_c` casts without a
   look, so that without it the statement is false (a sensor that measures above 327.67 degrees
   would be published as a negative number). The clamp of `tilt.h` makes one for the Tilt
   unnecessary.

The tables of 14 to 17 are constants, so what these theorems have in common is a
calculation with 125 attributes, 20 clusters and their lists, done once in the lemmas of
`DataModelProofs`; the theorems hold for every set of readings, of which the run has a
dozen, and in every state that any number of starts, ends and reboots lead to.
`HistoryAssumption` says that the two marks of the history variable are no readings.

Every invariant and every action property of the passing runs is stated by a theorem,
and so are both refinements. Not proved, only model-checked, are the properties under fairness:
`FullEffortHeats`, `StaleTurnsOff`, `GoodArchived`, `PersistentErrorWins`,
`GateClosesAfterRemoval`, `BurstsEnd` and `BurstsGoOn`. Liveness is out of the prover's reach
and stays with TLC.

## 8. Plan

In this order:

1. `Commissioning`: the script's phases against the plug's fail-safe timer.
2. `Orchestration`: start order, failures and restarts of the telemetry processes,
   with the loss of the consumer group composed with `Archiver`.
3. `Alerts`: the predicate of the rule and of its test over bounded histories.
4. `HostEnv`: which value of a port wins on either side.
5. A lower bound of how long a pulse lasts, for pulses that begin with their window
   and keep their effort; for others nothing is guaranteed (`plan` compares the
   planned time, not the time that is left).
6. A consumer of the archiver that comes back under another name.
7. A composition of `SensorApp` and `ControlLoop`: how old the sample is that an
   effort is based on.

## 9. Not modelled

Of the data model: the constants that count clients of clusters, the privileges of
events, the device types, and the `.zap` and `.matter` files the headers are generated
from. The SDK is modelled from how the application and the generated code use it:
attributes it writes itself while the tag runs (the OTA requestor's progress, for one) are
taken to keep their defaults in its storage.

Commissioning, orchestration, alert rules, the simulator and the loading of
`host.env` (section 8); installation and flashing scripts and dashboards, which have no
state of their own. Two disagreements seen there are not checked by a run: the two
sides of the host let different settings of a port win (a hazard in `PROJECT.json`), and
`simulate.sh` (line 315) tests for ineffective control with a predicate that is not
the alert rule's.

Commands that a plug obeys after chip-tool has been killed: the models let a command
take effect until its own end. The text of log messages and the layout of telemetry
fields. A change of the archiver's consumer name. The time telemetry calls may block.
The dispatch of buttons and LEDs, which is the SDK's.

## 10. Running

    tlc -config MCControlLoop_faults.cfg MCControlLoop
    tlc -config Archiver_replay.cfg Archiver
    tlc -config MCArchiver_rollback.cfg MCArchiver
    tlc -config SensorApp_gate.cfg SensorApp
    tlc -config MatterServer_server.cfg MatterServer
    tlc -config PIController_effort.cfg PIController
    tlapm ActuatorProofs.tla
    tlapm SensorAppProofs.tla
    tlapm MatterServerProofs.tla

`PROJECT.json` names the module and configuration of every run.
