# Verification of the winsens firmware

winsens is the firmware of a battery driven window sensor (nRF52, SoftDevice,
LIS3DH accelerometer, CNY70 reflection sensor). The node sleeps in SYSTEM OFF.
Motion wakes it, it measures for some seconds whether its window is open,
publishes the verdict over Bluetooth Low Energy and sleeps again.

This directory models the parts of the firmware whose behaviour depends on
the interleaving of interrupts, main loop, radio stack and sensor, and checks
them with TLC and TLAPS. There is neither documentation nor a test suite beside
the code; the specifications are written from the code in `src/src` and the
build in `src/projects/winsens`.

## 1. The system

### Contexts

| context | what runs in it |
|---|---|
| main loop | `app_init`, then `task_queue_execute` for ever: tasks posted by interrupts, BLE, peer manager and flash events (dispatch model APPSH), button tasks |
| interrupts | TWI, GPIOTE, SAADC and the app timers, all configured to priority 6 (`sdk_config.h`) |

Interrupt handlers of one priority do not preempt one another: each is one
atomic step. They preempt the main loop anywhere outside a critical region
(`CRITICAL_REGION_IN/OUT`). Falling asleep (`WINSENS_EVT_IDLE`,
`pwr_mgr_callback`, `shutdown`) runs inside the timer interrupt and never
returns.

### Components

| component | state | operations | talks to | what is hard |
|---|---|---|---|---|
| `acc.c` accelerometer driver | command queue, IDLE/WAIT_FOR_DATA, one transmit buffer, thresholds | start-up list, status reads on pin edges, threshold writes, replies in the interrupt | `i2c.c`, `digital_io.c`, task queue, subscribers | two contexts start transfers; replies are decoded by what was sent last; full queue; failed transfer |
| `i2c.c` | initialised | four transfers, event handler, uninit on sleep | nrfx, `pwr_mgr.c` | NACK is swallowed, errors are only logged |
| `digital_io.c` | callback and level per pin | register, edge interrupt, task | GPIOTE, task queue | edges nobody sees, level sampled later than the edge |
| circular buffer, critical region | head, tail, full; nesting depth | push, pop, size; enter, exit | `acc.c`, SoftDevice | pop of a full buffer, wrap, regions inside regions, two contexts |
| task queue | FIFO of tasks | add, execute | everything | full queue |
| `winsens.c`, `app.c` | `g_sensors_enabled`, scan timer | start-up, motion, expiry | `acc.c`, `timer.c`, `pwr_mgr.c` | motion during the start-up, restart against expiry |
| `pwr_mgr.c` | subscriber index, prevent flag | shutdown, wake-up pins | everything that subscribes | reset loses RAM, sensor keeps its registers |
| `ble_peripheral.c` | state, connection handle | connect, advertise, bond, unbond, disconnect | SoftDevice, peer manager | re-entrant state changes, late and dropped events |
| `ble_peripheral_ctrl.c`, `hmi.c` | none | advertise on DISCONNECTED; button presses | `ble_peripheral.c` | called from inside a state change |
| `adc.c` | queued mask, triggered mask, buffer | probe, interrupt, task | nrfx SAADC | requests while busy, samples handed to the right client |
| `distance.c` | power pin, two timers, value | light, probe, sample | `adc.c`, `battery.c` | power and conversion belong together |
| `battery.c` | voltage | periodic probe, sample | `adc.c` | the distance is measured against its last value |
| `window_state.c`, observer | verdict, threshold | sample, threshold write | `distance.c`, BLE | stale verdicts |
| attributes: `ble_peripheral_update`, WRITE, `acc_ctrl.c`, observers | values and flags on both sides | publish, read, write, subscribe | SoftDevice, `acc.c`, `window_state.c` | writes heard late or dropped, one flag for all links |
| `storage.c` | buffers of pending writes | read, write, completion | FDS | completion against pending writes |
| `button.c`, `system.c` | time of the last push, 100 ms counter | sample, tick | `digital_io.c`, `hmi.c` | a push is measured between two samples, which may both miss it |
| nRF51 port: `ws_timer.c`, `ws_system.c`, `ws_digital_input.c`, `ws_task_queue.c` | interrupt counter, system time, timers, status per pin | tick, task, set and cancel a timer, register a pin | SDK 12 scheduler, GPIOTE | everything counts tasks, and the queue has ten places |
| `timer.c`, `subscribers.c`, CLI, log | | | | small sequential helpers |

SoftDevice, peer manager, FDS, nrfx and the app timer are not part of the
repository. They are modelled from the way the code uses them and marked
external in `PROJECT.json`.

### What makes each component correct

* Driver: a reply belongs to the request on the wire; commands reach the
  sensor in order, none twice; the driver neither waits for nothing nor idles
  over queued work; sensor and driver agree on the thresholds.
* Node: once it is up it measures, and its scan timer was started after the last
  motion; it never sleeps unable to wake; a latched interrupt is eventually read.
* Connection: the handle follows the state; a connected central is known; a
  node without link advertises again; unbonding deletes bonds.
* Attributes: what a central reads is what the firmware uses; a subscriber is
  notified.
* Ring buffer: it is a queue of whole commands for both contexts; nothing comes
  between the steps of a critical region.
* Button: the level is known in the end; one push gives one event, that of its
  length.
* nRF51 clock and pins: time and status are behind the interrupts by what waits
  or was refused, and a timer calls once per period.
* Storage: the data of a pending write stay untouched, no buffer leaks, what is
  read is what was written last.
* Sensing: each sample reaches its client; the sensor is lit while converted
  and dark again afterwards; a window at rest is judged right.

## 2. Modules

| module | models | extends / instantiates |
|---|---|---|
| `CommandPipe` | abstract promise of the driver: a FIFO to the sensor | |
| `AccDriver` | `acc.c`, `i2c.c`, the pins of `digital_io.c`, task queue | `CommandPipe` as refinement |
| `AccDriverProofs` | theorems about `AccDriver` and `WakeOnMotion` | `WakeOnMotion`, TLAPS |
| `WakeOnMotion` | `AccDriver` composed with `winsens.c`, `app.c`, `pwr_mgr.c`, SYSTEM OFF and reset | `AccDriver` |
| `BlePeripheral` | `ble_peripheral.c`, `ble_peripheral_ctrl.c`, `hmi.c` | |
| `Attributes` | `BlePeripheral` composed with reads, writes and notifications: `ble_peripheral_update`, `handle_write_char`, `acc_ctrl.c`, the observers | `BlePeripheral` |
| `BlePeripheralProofs` | theorems about `BlePeripheral` | `BlePeripheral`, TLAPS |
| `AttributesProofs` | theorems about `Attributes` | `Attributes`, `BlePeripheralProofs` |
| `Pairing` | `BlePeripheral` composed with the button: the pin in `digital_io.c`, `button.c`, `system.c` | `BlePeripheral` |
| `PairingProofs` | the real button refines the abstract one, and what follows | `Pairing`, `BlePeripheralProofs` |
| `ElementQueue` | abstract promise of the ring buffer: a bounded queue | |
| `CircularBuf` | `circular_buf_safe.c`, `critical_region.c`, used by `acc.c` | `ElementQueue` as refinement |
| `CircularBufProofs` | theorems about `CircularBuf` | `CircularBuf`, TLAPS |
| `Nrf51` | `ws_timer.c`, `ws_system.c`, `ws_digital_input.c`, `ws_task_queue.c` | |
| `Nrf51Proofs` | theorems about `Nrf51` | `Nrf51`, TLAPS |
| `ValueStore` | abstract promise of the storage: each write takes place whole or not at all | |
| `Storage` | `storage.c` over FDS and the flash | `ValueStore` as refinement |
| `StorageProofs` | theorems about `Storage` | `Storage`, TLAPS |
| `Sensing` | `adc.c`, `distance.c`, `battery.c`, `window_state.c`, its observer | |
| `SensingProofs` | theorems about `Sensing` | `Sensing`, TLAPS |
| `MC_*` | instances for TLC | |

A definition named `Bug...` is the definition below it with a plausible
mistake. No specification uses one: `PROJECT.json` ("mutants") names for each
property the mistake that violates it.

### AccDriver

State and code: `cmdBuf` is `g_cmd_buf`, `accState` is `g_current_state`,
`txBuf` the command last written to `g_tx_buffer`, `rxBuf` the one bit or level
of `g_rx_buffer` that decides anything. `todo` is the program counter of the
main loop: the pushes and executions its running function still has to do.
`bus` and `wire` are the TWI peripheral; `latched`, `armed`, `ths` the sensor.

* `PushStep`, `ExecStep`, `FssStep`: one critical region, or one assignment,
  of a main loop function each.
* `TwiIsr`: `event_handler` of `i2c.c` and `acc.c` from the reply to the start
  of the next command. `GpioIsr`: `digital_io_input_isr`.
* `Full` + pop: `circular_buf_pop` takes nothing from a full buffer and
  empties it (head equals tail), so the command called is uninitialised.
  The model records that as `undefined` and says nothing of what follows.
  `CircularBuf` shows that behaviour from the bytes.
* A refused push is recorded in the history variable `lost`.

### WakeOnMotion

Every action of `AccDriver` appears with the condition that the node is awake.
`ScanTimeout` is the timer interrupt up to SYSTEM OFF. The RAM of the reset
that will follow is assigned there already, since nothing can look at it before.
`WakeUp` is the reset: the pins are armed against the level they then have.

`boot` is how far `app_init` has come, one stage for each step at which an interrupt
makes a difference: `acc_subscribe`, `g_sensors_enabled = true` (`winsens.c:62`), the two
halves of `timer_start` (`CreateScanTimer`, `StartScanTimer`), and the rest, in which
`window_state_init` enables the distance sensors. `enabled` is `g_sensors_enabled`,
`probing` the `g_enabled` of `distance.c`, `scanTimer` the state of `g_timer`.
`AccEvtHandler` has both branches of `acc_evt_handler`. `timer_start` and
`timer_restart` return early when `app_timer` refuses their first call (`TimerCall`):
to create a timer that runs, to stop one that was never created. `heard` is the history
that such a refusal left the timer older than the motion. `WINSENS_EVT_WORKING` is in no
activity map, so nobody reacts to it.

### BlePeripheral

The handlers are functions on a machine record; a nested `change_state` is a
nested application, so the order of the code (exit, assign, enter, notify) can
be read off the definitions. `ToDisconnected` contains what
`ble_peripheral_ctrl.c` does inside `push_event`. The external part keeps a
queue of raised and undelivered events, so that events lag behind the link.

### CircularBuf

`ring`, `head`, `tail`, `full` are the fields of `circular_buf_t`, `nested` is
`g_nested`, `pc` the step the main loop has reached inside `circular_buf_push` or
`execute_one_cmd`, `held` the command on its stack. `CopyIn` and `CommitIn` part
the `memcpy` from the update of the indices. `IsrPush` and `IsrPop` are the TWI
interrupt, which runs to its end and comes whenever interrupts are not masked.
The lengths of the two `memcpy` are those of the code, the second `memcpy` of a
push that starts with the first bytes again included. `Size` is the code's, with
its wrong value for a ring that has wrapped. `ElementQueue` is what `acc.c` takes
all that for; the map between them is `Contents`.

### Pairing

`pushed` is the pin, `sensed` its level at the last interrupt, `tasks` the tasks
of the pin that wait (they are alike: each names the pin), `status` the level in
`g_pin_callbacks`, `since` the time since the last sampled push. One task of the pin
is `digital_io_input_event_handler` with `digital_input_callback`, `button_callback` and
the change of state of `BlePeripheral` in it. `held`, `told`, `lost`, `slipped`, `late`
are histories for the properties.

### Nrf51

`counter` counts interrupts, `ws_timeCounter` the tasks they posted. `SystemSlot` and
`ClientSlot` are the two entries `WS_TimerCallback` finds in `ws_timers`, with interrupts
between them. `EnablePin`, `EnterPin`, `ReadPin` are the steps of
`WS_DigitalInputRegisterCallback` between which an edge makes a difference.

### Attributes

Every action of `BlePeripheral` this firmware can take appears as `MachineStep`,
`LinkEnds` or `Secured`. `thAttr` and `winAttr` are the SoftDevice's values, `th`
and `window` the firmware's; `cccd` is the descriptor of the link, `notify` the
field `notifications_enabled` of the firmware. A write changes the SoftDevice's
side at once (`WriteThreshold`, `WriteCccd`) and the firmware's when the WRITE
event is worked off (`WriteEvt`), which only CONNECTED does, and only for a value of the
length the clients expect (`value_len`, `acc_ctrl.c:88`, `97`,
`window_state_observer.c:78`): the field `whole` of a write says whether it has it. The
history variable `lost` records what was dropped or restored without an event. The two
thresholds of the accelerometer are handled alike and modelled as one.

### Storage

`buffer` is `g_records_buffer`, `ops` the queue of FDS with the running operation
first. `WriteRecord` and `EndWrite` are the two moments of a write between which a
reset leaves two records; `EndWrite` and `FailWrite` contain the completion
handler. `stable` and `torn` are histories for the properties. `ValueStore` is what
`config.c` takes all that for: for each key the values a read may give (`Values`), the
value asked for (`Asked`), and the key whose old and new version both exist (`Half`).

### Sensing

The two timers, the converter interrupt and one task per sample. `Probe` is
`probe` with `trigger_adc`: a busy converter leaves the request in
`g_ch_mask_queue`. A sample carries the channel it was taken from as a ghost.

## 3. Runs

| run | instance | shows |
|---|---|---|
| `AccDriver_full` | queue of 3 at rest, FIFO levels 0 and 2, one write, one failing transfer | `TypeOK`, `ReplyMatchesRequest`, `NoStrandedCommand`, `WaitsForTransfer`, `PipeSpec`, `ThresholdApplied` |
| `WakeOnMotion_node` | queue of 25 (the real one), start-up list, tasks 2, one write, one failure, any number of lives | `StartUpFits`, `ScanFollowsMotion`, `SleepsArmed`, `ThresholdSurvives`, `InterruptServed` |
| `CircularBuf_ring` | four places of two bytes, two commands | `TypeOK`, `SizeTellsEmpty`, `RegionHolds`, `QueueSpec` |
| `BlePeripheral_api` | all four calls at any time, advertising timeout | `HandleFollowsState`, `NeverRestsDisconnected`, `LinkIsKnown`, `ConnectedHasLink`, `UnbondingDeletes` |
| `BlePeripheral_handle` | ctrl and button only | counterexample, see Findings |
| `Pairing_button` | ctrl and the real button, no advertising timeout (as built), a task queue that may refuse | `LevelIsKnown`, `NeverSilent`, `PushIsMeasured`, `Reconnectable` |
| `Pairing_long` | the same, without a refusal | counterexample, see Findings |
| `Attributes_sync` | the clients of this firmware, two threshold values | `ThresholdsAgree`, `WindowReadable`, `WritesNotOverwritten`, `SubscriberIsNotified` |
| `Storage_keys` | two keys, three values, two buffers, one failure, one reset; a client awaits the end of its write | `HeldUntilCallback`, `NoBufferLeaks`, `ReadsBack`, `StoreSpec` |
| `Storage_buffer` | the same without waiting | counterexample, see Findings |
| `Sensing_chain` | two reflections, two supplies, two thresholds, two tasks | `TypeOK`, `SamplesArriveHome`, `LitInCycle`, `GoesDark`, `Settles` |
| `Nrf51_clock` | queue of 3, intervals 2 and 3, counters modulo 8 | `ClockLag`, `FiresOnce`, `InvertedByLoss` |

A type invariant that says no more than a theorem of section 5 is left to that theorem
(`Storage`, `Nrf51`, `BlePeripheral`).

Bounds and why they are enough:

* `CommandsMax`: 25 where the start-up list matters; 3 is the smallest queue
  that lets a pin task (two reads) meet a third command, so the queue fills
  and is popped full.
* `BacklogMax`, of `WakeOnMotion` only, is the backlog at which the main loop of the
  node takes up new work. The code has no such guard: it is a bound of the run, and a
  larger one exceeds what TLC finishes. With 0 a task or a write begins when the queue is
  empty, interrupts come at any time. The pile-up it cuts off is what `AccDriver_full`
  is for, where the main loop begins a task or a write whenever one waits. The bound
  leaves the start-up alone: no task runs and no client writes before `app_run`, so
  `StartUpFits` loses nothing by it. No theorem rests on it. `FifoLevels` is {0} there, so
  no interrupt adds a read of samples; `StartUpRefusesNothing` has them all.
* `SetsMax`, `FailsMax`: one write at any moment of the life of the node, the
  start-up list included; one failure stops the driver for good, a second cannot
  happen.
* `TasksMax`: 1 to 3 instead of 100; small queues make refusals happen. 3 in
  `Pairing` is a push, its release and the next push unsampled.
* `Capacity` 8, `Width` 2: four places, so that the ring wraps, fills up, and is
  popped full; the two commands share no byte, so that a torn one is neither.
* Durations 1, 2, 3 ticks instead of 1, 15, 25: one of each event, in the same
  order.
* `QueueSize` 3 instead of 10 and `Word` 8 instead of 2^32 in `Nrf51`: refusals, two
  late tasks and a wrap. `Nrf51Proofs` has them for every value.
* `EvtsMax` 4: connect, a security report, the end of the link and a deletion
  can wait together. 3 in `Pairing_button`, where no client unbonds. 2 in
  `Attributes_sync`: two writes, or a write and the event that changes the state before it is worked off.
* `QueueSize` 2 instead of 4 in `Storage`, so that it fills with two keys;
  `WritesMax` 6 records let a third write follow two to one key; one failure and
  one reset at any place.
* `Reflections`, `Supplies`, `Thresholds`: the pair of supplies turns the
  verdict of one reflection; 50 is the first threshold, 256 is one the observer
  takes for window 0.

`CHECK_DEADLOCK FALSE`: `AccDriver` has nothing to do when nothing moves and
its bounds are used up; after a failed start-up transfer a node may sleep for
ever (`WakeOnMotion_node`); a bonding that lost its link is stuck
(`BlePeripheral`, `Pairing` and `Attributes`, see Findings); `Storage` has used up
its bound of writes. `CircularBuf_ring`, `Sensing_chain` and `Nrf51_clock` check
deadlock.

### Fairness

Interrupts are taken, the main loop runs, a started transfer or conversion
ends, the timers tick: hardware and a scheduler that polls for ever. Nothing is
assumed of motion, of the window, the central or the user. The scan timer
fires, or else motion is heard again and again and restarts it. In
`BlePeripheral` delivered events are worked off and the stack ends what it
accepted: a disconnect, a security procedure that was started (it has a
timeout), a deletion. A peer need not answer a security request. `Pairing` assumes
the same and nothing of the button. `CircularBuf` and `Nrf51` state safety only.

### What the models assume

* Driver: the sensor returns the latch of INTx_SRC and clears it by the read;
  gpiote sees a level that differs from the last one it saw. A transfer that
  fails is reported once and forwarded to nobody.
* Node: the 10.1 s of the scan timer outlast the start-up list. `app_timer_create`
  refuses a timer that runs, `app_timer_stop` one that was never created,
  `app_timer_start` leaves a running timer alone, and a stop takes back an expiry whose
  interrupt is still pending. A free fall
  whose edge was missed is served only when the node sleeps, so
  `InterruptServed` allows it to wait while motion goes on.
* BLE: one link, whose handle is always the same. `sd_ble_gap_adv_stop` fails with no
  other error than that nothing advertises, so the early return of
  `unbonding_on_enter` (`ble_peripheral.c:946-950`) is never taken. The peer manager's observer
  runs before the application's, so a link lost during a security procedure is
  reported as UNBONDED and DISCONNECTED in one dispatch (`LINK_LOST`). A link
  that is being closed completes no procedure. Advertising is refused while
  there is a link. The report of a failure can end an unbonding; the history
  variable `spoilt` says so and the two properties that depend on it except
  what follows.
* Ring buffer: `sd_nvic_critical_region_enter` keeps the interrupts of the
  application back, and the exit lets them in unless it is told that the region
  is nested.
* Button and nRF51: an interrupt that is due comes before the main loop goes on;
  a level that came back before the interrupt was served is no edge. Time stands
  still inside a task.
* Attributes: `sd_ble_gatts_hvx` changes the value also when it cannot notify,
  but not with the handle of a link that has ended; it buffers one notification
  (the SoftDevice's default). A write shorter than the attribute changes its first
  bytes, so the SoftDevice has another value and the firmware keeps its own. A
  descriptor restored for a bonded peer raises no WRITE. A reset loses `notify` but leads to an initial state, and a descriptor
  restored after it is `Secured`.
* Storage: FDS copies the header of a record when a write is queued and reads its
  data when the write is executed; it writes the new version before it deletes
  the old; the ended operation still takes its place while its event is handled,
  so the garbage collection asked for there may be refused. Data of a size over
  40 bytes would stop the program in `UTILS_ASSERT` and are not modelled.
* Sensing: the main loop delays a task by less than the 990 ms between two
  cycles (`CycleOver`), and a battery request is over before the next, 3.3 s
  later. Beyond that bound a late task can switch the sensor off before its
  conversion.

## 4. Findings

* `BlePeripheral_handle`: `bonding_evt_handler` drops DISCONNECTED. If the link
  ends in BONDING while the peer has not answered the security request (or had
  ended when BOND was called), no event ever leaves the state: the handle
  stays valid without a connection (its comment says "Handle of the current
  connection."), nothing is advertised, and only a reset helps. On this node
  the next SYSTEM OFF is that reset.
* `Storage_buffer`: the completion of a write gives back every buffer with its
  key. A second write to the key that is still queued loses its buffer ("Store the
  record and free it in the callback"), and a third write may overwrite the data
  before FDS has stored them. A client that awaits each write (`Storage_keys`)
  does not see this; `storage.h` offers it nothing to wait for.
* `Pairing_long`: the comment of `BUTTON_EVENT_LONG` says 1500 ms. If the tasks of
  both edges of a tap run after the release, both sample a released button; the
  push is never seen, and each of the two is measured from the push before it, or
  from the start. A tap long after a push gives LONG or VERY_LONG, twice, and
  `hmi.c` disconnects. `PushIsMeasured` says when the measure is right.
* `InvertedByLoss` says what `ws_digital_input.c` does, and it is not what its
  callers expect: after one refused edge, or one edge between enabling the
  interrupt and reading the first status, the pin is reported inverted for good.
  `digital_io.c` samples the level instead, and `LevelIsKnown` holds of it.
* `ReadsBack` makes an exception for a key that a reset caught between the writing
  of the new record and the deletion of the old one. Nothing in `storage.c` removes
  the second version, and a later read may return either.
* `ThresholdsAgree` and `SubscriberIsNotified` except what a state other than
  CONNECTED dropped, or a client for its length: a central that writes while BONDING
  reads its value back, and the firmware does not use it; one that subscribes then is
  never notified.
* `NeverRestsDisconnected` holds, and thereby two branches of `hmi.c` are dead:
  the button can neither start advertising nor delete bonds.
* `ThresholdApplied` and `WaitsForTransfer` hold only as long as no transfer
  fails: a NACK leaves the driver in WAIT_FOR_DATA until the next reset.
* `Reconnectable` is checked for the clients of this firmware. A client that
  calls unbond on a link that is closing and has no bonds makes the machine
  advertise too early; the stack refuses and nothing tries again.

## 5. Proofs

`AccDriverProofs` (TLAPS; every queue length, bound and set of thresholds
allowed by `DriverAssumption`):

* `Invariance`: `DriverInv` is an invariant of `Spec` and of `AtRestSpec`.
* `TypeCorrect`, `RepliesMatch`, `WaitingIsFounded`, `NothingStranded`: the
  invariants of the run `AccDriver_full`, for every instance.
* `ImplementsPipe`: the refinement of `CommandPipe`.

The argument: `ReplyMatchesRequest` is not inductive. That nobody overwrites
`g_tx_buffer` during a transfer rests on `OneTransfer`: while the bus is not
idle the state is WAIT_FOR_DATA and the buffer holds the command on the wire.
`execute_one_cmd` looks at that state, and `event_handler` runs only when the
transfer is over. `WaitIsFounded` is the converse: WAIT_FOR_DATA has a transfer
or one has failed. `NoStrandedCommand` needs that every list of main loop
steps executes after it pushed (`Executes`), but for the sample reads. The conjunction
with `TypeOK` is `DriverInv`; one lemma per action shows that it is kept.
For the refinement every action either leaves wire-and-queue alone, appends to
it, drops its head, or collapses a pipe that was full.

The same module proves the node (`NodeSpec` of `WakeOnMotion`, under
`DriverAssumption`):

* `NodeInvariance`: `NodeInv`, which contains `DriverInv`, holds in every life.
* `ScanFollows`, `ArmedWhenAsleep`, `ThresholdsSurvive`: the three invariants of
  the run about the timer, the pins and the thresholds.

The argument for the timer: `Scans` says for each stage of the start-up what motion may
have made of `enabled`, `probing` and the timer before it. A refused call is harmless
because of the order of `winsens_init`: before line 62 motion finds the sensors not
enabled, and creates and starts the timer; after it, motion can only restart, which fails
while the timer is unmade, but then line 63 is still to come and starts it later than the
motion. A timer that line 63 cannot create is one that motion has started.

The argument for the pins: a node sleeps when the read of REFERENCE, the last of the start-up
list, has been served. `Arming` says that an interrupt is armed or that its
configuration is on its way before that read: in the pipe, or, as long as the
start-up list is being queued, in what is left of it. A full queue is the exception:
it is popped full, the model says nothing of what follows, and the node is not
taken to sleep. That no interrupt serves a command meanwhile is `Starting`.
`ThresholdSurvives` speaks of the last write in a list; `Agreed` splits it at a
value that what is queued leaves in the sensor, and that what the main loop still has
to queue turns into the driver's, which each step keeps by moving one command from
the one list to the other (`AppendedCommand`, `FirstCommand`).

Three more results:

* `StartUpRefusesNothing`: `StartUpFits`, in every life, for every queue longer than the
  start-up list (19 commands and its execution, `Room`). `ACC_COMMANDS_MAX` is 25. Nothing
  is assumed of the samples the interrupts read meanwhile, or of the motion they report.
  After `app_init` nothing in the code keeps the queue from filling, and nothing is
  claimed: `AccDriver_full` reaches what happens then.
* `ServedInOrder`: within a life commands are served in the order of acceptance, for every
  queue, and only the reset and the collapse of a full buffer drop what it holds.
* `NodeKeepsDriver`: the three invariants of the driver, in all lives.

The argument for the first: `HasRoom` counts what waits together with what the start-up has
still to push (`Claim`) and with one place more. That place is for the TWI interrupt,
which may append a read of samples, but only when a command has been served, and takes the
next one away in the same step: it needs room for a moment and leaves the queue no longer
than it was. A place claimed by the list is taken when its command is pushed
(`ClaimOfRest`), and before the end of `app_init` no other list begins.

`BlePeripheralProofs` (every set of calls, bound of events, with and without an
advertising timeout):

* `HandleInvariance`: `HandleInv` is an invariant of `Spec`.
* `MachineTypeCorrect`, `HandleFollows`, `NeverAtRest`: types, a state that talks
  to the peer has a handle and ADVERTISING has none, and no event or call leaves
  the machine in DISCONNECTED. The last says that the call of
  `ble_peripheral_ctrl.c` from inside the change of state is never refused.
* `LinkIsAlwaysKnown`: `LinkIsKnown`.
* `ConnectedLinks`: `ConnectedHasLink`.
* `UnbondingEnds`: `UnbondingDeletes`, a property of steps.

The argument: `HandleInv` says of the machine record that its state is not
DISCONNECTED and that the handle is invalid exactly in ADVERTISING. Each handler, the
nested changes of state included, maps such a record to such a record, whichever
event it gets; one lemma per handler shows it, and the actions follow. `LinkInv`
adds for `LinkIsKnown` that the stack reports each link once and advertises only without one,
and that in ADVERTISING a link that is up still has its CONNECTED among the events,
with no event after it that would take the machine away again.
`EndInv` adds for the last two what the queue of events says of endings: without a link,
each event of a link is followed by its end; a machine in CONNECTED without a link has
that end before it; and, until a failure ends an unbonding, a deletion runs only in
UNBONDING, and its report is delivered before the next CONNECTED. That an
unbonding ends with the bonds gone then follows step by step.

Two more results hold of a node no client of which asks for UNBOND (`NoUnbond`), as in
this firmware:

* `SilentOnlyInBonding`: `NeverSilent`, the safety core of `Reconnectable`. A node
  without link, advertising and events is in BONDING, the state of the finding.
* `BondsAreKept`: no step deletes a bond.

The argument: `NeverUnbonds` is inductive, because the button asks for UNBOND only in
DISCONNECTED, where the machine does not rest. Then `SilenceInv` says for each state
which waiting event makes it advertise: the end of its link in DISCONNECTING (in CONNECTED
that is `EndInv`), and in ADVERTISING, once the stack has stopped, the link or the timeout
that stopped it. The hypothesis is needed: with UNBOND `NeverSilent` is false, see
Findings.

`AttributesProofs` (every set of threshold values, every bound):

* `ThresholdsInAgreement`, `NotOverwritten`, `WindowIsReadable`, `SubscriberNotified`:
  the four properties of the run, `WindowIsReadable` with `NoUnbond`.

The argument: `ThresholdsAgree` speaks of thresholds without a waiting write. It is
inductive once the last waiting write of a threshold is known to be the value of its
attribute (`LastPending`), and the WRITE events in the queue to be as many as their
contents (`Paired`). `SubscriberNotified` rests on the invariants of `BlePeripheral`:
with all events delivered a link that is up has a handle and a state that hears
writes, and the wish of that link is the one the firmware has heard last.
`WindowReadable` is about `ble_peripheral_update` while the handle outlives its link, the
only time it is refused: `SilenceInv` of `BlePeripheralProofs`, carried through the WRITE
events, says that the end of that link then waits among the events or that the machine is
in BONDING, where it was dropped.

* `ConnectionKept`: the four invariants of the connection alone, under `AttrSpec`.
* `WritesSilenceNothing`: `NeverSilent`, with `NoUnbond`.

`AttrSpec` is no refinement of `Spec`: its queue of events holds WRITE events as well,
which count against the bound of the queue and delay the others. But the invariants of
`BlePeripheralProofs` speak of the events of the link only, a WRITE leaves the machine
alone, and its arrival and departure leave the order of the others (`WriteShifts`,
`WriteDeliveryEnds`, `WriteRaisedEnds`); every other step is one of `BlePeripheral`.

`StorageProofs` (every number of buffers, keys, values, failures and resets):

* `StorageInvariance`, `StorageTypeCorrect`: `StorageInv` and the types.
* `BuffersComeBack`: `NoBufferLeaks`, whether or not clients wait.
* `BuffersAreHeld`: `OneAtATime => HeldUntilCallback`. The premise is needed, see
  `Storage_buffer`.
* `ValuesReadBack`: `OneAtATime => ReadsBack`.
* `ImplementsStore`: with `OneAtATime`, `Storage` refines `ValueStore`.

The argument: the completion frees buffers by key, so `NoBufferLeaks` is not
inductive. `Owned` adds that the pending write which has the place of a reserved
buffer has its key as well: then a completed write that leaves the queue takes along
every buffer it was needed for. `HeldUntilCallback` needs
that no other pending write has the key of the completed one (`OneEach`), which
clients that wait see to. `ReadsBack` rests on both and on `FlashInv`: the running
operation has at most put the new version beside the one it replaces, every waiting
one still finds what it found when it was queued, and ids are not used twice.
For the refinement each action is one of the store or a stutter: a write that is accepted
is `Ask`, `WriteRecord` is `Begin`, `EndWrite` is `Succeed`, `FailWrite` is `Fail`, `Reset`
is `Crash`, and refusals, the mount and the garbage collection change nothing there. The
record that is written carries the value asked for by `HeldUntilCallback`; that the
deletion takes away one key's old version and nothing else is `Ids` and `StillFound`; that
a reset tears the key of the running write only is `OneVersion`.

`CircularBufProofs` (every capacity, element and value of a byte): `RegionIsHeld`,
`TypeCorrect`, `SizeIsZeroWhenEmpty` and `ImplementsQueue`, the four properties of
the run. Whether an exit
unmasks depends on the depth the firmware counts, so `DepthInv` says
how deep each step is; an interrupt comes at depth 0 and leaves depth and mask as
they are. `RingInv` says that the indices stay where elements begin, so that no
`memcpy` wraps inside an element, and that each place from tail to head holds
one; the second `memcpy` of a push that ends at the end of the ring copies nothing.
For the refinement `Elements` says what the queue is without the bytes: the first half
of a push does not change it (it writes where no element is), the second appends, the
second half of a pop takes the first element away or, with a full ring, all of
them; no interrupt falls between the halves, by `DepthInv`.

`SensingProofs` (every set of 8 bit readings and of thresholds, every size of the task
queue): `TypeCorrect`, `ArrivesHome`, `Lit`
(lit while it is converted, for every size). `Home` pairs
`g_ch_triggered` with what the converter was set up for, through every merge of
requests; `Cycle` says that the sensor's cycle is in one place only: its timer, the
queued mask, the converter or a task, and lit in the first three until it is converted.
`LitExactlyInCycle` is `LitInCycle`, the safety core of `GoesDark`, for a queue with room
for two tasks (it has 100): `Once` says for both channels that one asked for again has
left the mask, the converter and the queue, so the tasks have different channels, there
are two at most (`IsrFits`), and none is refused. With one place it is false. The places
stand for those the tasks of other components leave free.

`PairingProofs` (every queue length, all durations):

* `ImplementsButton`: the composition with the real button refines `BlePeripheral`,
  whose button may report anything at any time. A task of the pin is a press of that
  button, or changes nothing the connection knows of. By it every theorem of
  `BlePeripheralProofs` holds of the composition: `HandleFollowsWithButton`,
  `LinksWithButton` (`LinkIsKnown`, `ConnectedHasLink`) and, as built,
  `SilentOnlyInBondingWithButton` (`NeverSilent`) and `BondsAreKeptWithButton`.
* `LevelKnown`: `LevelIsKnown`, from the strengthening that the last sampled level is
  that of the last interrupt unless a task waits or the edge was refused.
* `PushMeasured`: `PushIsMeasured`, a property of steps. `MeasureInv` says, of a push
  whose edges were neither refused nor overtaken and whose tasks waited through no tick:
  while a task waits no tick has passed since its interrupt, and otherwise `since` of the
  firmware equals `held` of the finger.

`Nrf51Proofs` (every queue size, every interval, every width of a counter):
`TypeCorrect`, and `ClockLags`, `TimerFiresOnce`, `StatusIsToggled`, the properties of
its run. Every one counts the tasks of one kind in the queue (`PendingAdd`,
`PendingTake`). `ClockLag` is inductive; that a counter may wrap before or after it is
added is `ModAdd`. `FireInv` adds that while no task is late at most one waits, and
what it will find; `StatusInv` adds what holds before the pin is registered and
between the entry and the first status.

Only model-checked: liveness under fairness (`ThresholdApplied`, `InterruptServed`,
`Reconnectable`, `GoesDark`, `Settles`), which is beyond TLAPS. Of two of them the part
that is safety has a theorem, `NeverSilent` and `LitInCycle`. Every invariant and every
action property of the runs is proved.

## 6. Not modelled, and the plan

Not modelled:

* contents of the samples (`acc_get_data` has no caller), the battery percentage;
* setting up the BLE stack, its whitelist and the requests that are answered with
  a constant;
* `pwr_mgr_prevent` and `pwr_mgr_continue`, which have no caller; the pool of
  timers, created once at the start;
* unregistering a button or a pin: it has no caller but the shutdown;
* `circular_buf_nonsafe.c`, the same bodies without critical regions, unused;
* command line and log: text; SPI, attribute server, simulators: not in the build;
* `ws_adc_adapter.c`, `ws_storage.c` of the nRF51 port: the drivers and project headers
  they are written against are not in the repository, and nothing in it calls them.
  `ws_storage.c` has the design of `storage.c`.

More than half of the lines under `src/projects` are `sdk_config.h`, the SDK's
configuration, of which the models use priorities and dispatch models only.

Left of the plan: the safety part of the other liveness properties as theorems, above all
of `InterruptServed` (a latched interrupt has an edge, a task, a queued read or a sleep
ahead of it), and of `ThresholdApplied`.
