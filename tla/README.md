# Specifications of the ROSbot firmware

TLA+ models of the firmware in this repository (ROSbot and ROSbot XL, STM32F4
under FreeRTOS) and of the parts of its ROS 2 bridge that talk to it, the TLC
configurations that check them on small instances, and theorems about them
checked by TLAPS for every value of the constants. `PROJECT.json` lists the
components, runs, mutants, hazards and theorems, and maps every definition that
models code to its source lines.

## The system

One microcontroller runs a handful of periodic FreeRTOS tasks on one core:

| task | priority | period | shared state it touches |
| --- | --- | --- | --- |
| MotorControl | 5 | 5 ms | `MotorArray` (mutex), joint-state queue, `time_boot_us()` |
| Link | 4 | 5 ms (XL: 1 ms) | `MavlinkNode`, transport, `MotorArray::setVelocities()`, `imu_calibration::g_control`, all queues |
| Imu | 3 | 10 ms | BNO055 over I2C DMA, `g_control`, `persistent_config`, IMU queue |
| Battery, Range | 3 | 100 ms | ADC, VL53L0 sensors, their queues |
| LedIndicator | 2 | 50 ms | `g_control`'s session, battery and fault flags |
| Monitor (debug builds) | 1 | 1 s | debug UART under a mutex |

ROSbot XL adds the Ethernet scheduler, a LED strip, a fan, a power board on a
UART and a shutdown task. Interrupts complete UART transmit DMA and I2C receive
DMA. A single-board computer runs the bridge, which exchanges MAVLink frames with
the Link task over a UART (ROSbot) or UDP (ROSbot XL).

How the parts interact:

- The **bridge** sends heartbeats, wheel setpoints and commands; the **Link
  task** drains them (`MavlinkNode::loop`) and hands each to a subscriber.
- `WheelCmdSubscriber` calls `MotorArray::setVelocities()`, which shares a mutex
  with the **control task**'s `update()` and feeds the command watchdog.
- `ImuCalibrationCommand` posts a save request in `imu_calibration::g_control`;
  the **IMU task** claims it, reads the chip and calls
  `persistent_config::saveImuCalibration()`; the outcome goes back to the host in
  a periodic status message. The **LED task** shows, and expires, sessions.
- Every telemetry message is stamped by `time_boot_us()`, called by several tasks.
- Every message sent goes through `MavlinkNode::sendMessage()` (a mutex) into the
  transport, where a stream buffer, a DMA buffer and an interrupt take over.
- `setup()` runs before the scheduler: it loads the stored configuration, takes
  part in a handshake with the host, may calibrate, and saves.

What makes it hard: tasks that preempt each other between two reads of shared
state or between reading a clock and using it; unsigned 32-bit clocks that wrap;
mutex waits that time out; interrupts that race a writer's check; a flash log that
may lose power at any word; a host that falls silent, comes back or repeats itself.

## Components and what is modelled

| component | correct when | module |
| --- | --- | --- |
| `time_base` | 64-bit time is monotonic across tasks and counter wraps | `TimeBase` |
| `MavlinkSerialTransport`, `sendMessage` | whole frames, once, in order; nothing accepted is stranded | `SerialTx` implements `FrameLink` |
| `MotorArray`, `MotorHiZ`, wheel subscriber | wheels follow one fresh command or stop | `MotorArray` |
| `persistent_config` | the next boot loads the last configuration stored | `PersistentConfig` implements `ConfigStore` |
| `setup()`: `boot_option`, `CommunicationManager`'s handshake, boot calibration | a silent host leaves the namespace that was saved last | `Setup`, over `PersistentConfig` |
| `MavlinkNode` | heartbeats always, telemetry to a live, synchronised peer only | `MavlinkNode` |
| `imu_calibration`, its command and publisher | each request served once, outcome readable, sessions end | `ImuCalibration` |
| bridge node: its services | a call returns, in bounded time, an outcome it may have caused; one that loses no frame is shorter than the motor watchdog | `CalibrationService` |
| bridge node: peer tracking, `TimesyncEstimator` | the peer flag comes to follow the MCU, and the offset its clock where round trips are even | `BridgePeer` |
| `ImuBno055` | a late completion never passes for a fresh read; the chip goes back to fusion mode or the host is told | `ImuBno055` |
| `MavlinkUdpTransport` (receive), `drainRx()`, the frame parser | the node gets the peer's frames in order, and gets them again after a torn one | `LinkReceive` implements `LossyLink` |
| power board, battery hysteresis, `CriticalStateReporter` | parser resynchronises; one report per edge | not modelled |
| PID, encoders, fan, range, EEPROM, LED patterns, boot text | arithmetic or output, mostly unit-tested | not modelled |
| MAVLink dialect, other than its frame parser | generated | not modelled |

## How the models correspond to the code

Conventions common to all modules: one action per piece of code that other
contexts cannot interrupt (a critical section, an interrupt handler, one atomic
load or store of a task that others preempt); guards are the code's conditions; a
variable bears the name of the code's variable it stands for, and the comment at
its declaration says so. Variables that no code variable corresponds to are history
variables, marked as such. Time is a counter that wraps, as `millis()` and
`micros()` do, with `Elapsed` or `SignedDelta` computing differences as the code's
unsigned or signed subtraction does.

Definitions that no behaviour uses (`Untruncated`, `AnyRoom`, `TargetKept`, ...)
are deliberate mistakes: each stands next to the definition it would replace, and
`PROJECT.json` says which property then fails. They show that the property depends
on that line of the code.

**TimeBase** (`lib/time_base`). `ReadMicros` is the call up to its critical
section, `Accumulate` the critical section. `Tick` advances the true time; its
guards say that the function is called more often than every 2^31 us (the header
requires it; the control task calls it every 5 ms) and that a preemption between
the two is shorter than that.

**SerialTx** (`lib/mavlink/transport/mavlink_serial_transport.cpp`). A writer goes
through `TakeMutex`, `CheckSpace`, `SendToStream`, `Arm`, `GiveMutex`; the hardware
through `DmaDone` and `TxCplt`. A byte is identified by its frame and position, so
that `FrameLink` can say that frames arrive whole and in order.

**MotorArray** (`lib/motor`). The control task wakes (`Wake`: the fault latch), takes
the mutex or times out, and updates the motors one by one (`UpdateMotor`), asking
the watchdog anew each time. The link task takes the mutex or times out, writes
the targets one by one, feeds the watchdog and gives the mutex.

**PersistentConfig** (`lib/persistent_config`). A sector is a sequence of slots;
`Newest` and `NextFree` are `scan()`. `Save` is `save()` up to its first flash
operation, `Erase`, `FirstWord`, `LastWord` the flash operations that may fail
or be cut short by `PowerLoss`. `SetupSave` and `RuntimeSave` are its two callers.

**Setup** (`src/rosbot/main.cpp`, `lib/comm_manager`, `lib/boot_option`). Extends
`PersistentConfig` and replaces its `SetupSave` by what leads up to it: `Start` is the
gesture, `load()` and `setNamespaceDefault()`; `HostNames` is one `NS:` line, which may
come at any time of the handshake and more than once; `HandshakeEnds` is `END` or the
timeout; `SaveNow` the boot calibration and `save()`. The flash operations are
`PersistentConfig`'s. A tap only selects another link, hence another host, which the
model does not tell apart.

**MavlinkNode** (`lib/mavlink/mavlink_node.cpp`). `LoopStart` is `loop()` up to
`drainRx()`, `Dispatch` one heartbeat of it, and `Waiting`, `Publish`, `TimeOut` and
`Disconnected` the branches of its switch. Time may pass in between.

**ImuCalibration** (`lib/imu_calibration`, `lib/mavlink/commands`,
`lib/mavlink/publishers`). The link task outranks the others, so its handlers are
single steps; the IMU task and the LED task take a step per atomic operation.

**ImuBno055** (`lib/imu/imu_bno055.cpp`). `SaveBegins` to `ToNdof` are a calibration
save, `Reset` to `Check` one `update()`; the IMU task does one after the other.
`Complete`, `BusError` and `Aborted` are the bus, between any two of those. Time is left
out: a wait may run out whenever it has not been answered, so every lateness is covered.
The contents of `s_buf` are told apart as the block asked for, an earlier one, or one
being overwritten.

**LinkReceive** (`lib/mavlink/transport/mavlink_udp_transport.cpp`,
`mavlink_node.cpp`, `mavlink_helpers.h`). `FromPeer` is `rxCallback()` with a datagram of
the SBC, `Read` one chunk of `drainRx()`, and `Idle`, `Length`, `Flags`, `Body`, `Received`
and `BadCrc` the parser's states, a byte each. The bytes between flags and CRC count as
payload. A byte knows whose it is, its place in the frame and whether it equals a start
byte of MAVLink 2 or 1; where the parser reads a byte for something it is not, every
value is tried.

**BridgePeer** (`bridge_node.cpp`, `timesync_estimator.hpp`). The receive thread takes a
step to store a heartbeat's stamp (`BeatStored`) and one for the flag and the reset
(`BeatDone`); `heartbeatTimer()` takes one to compare (`FindsOld`) and one to clear the
flag (`DeclareLost`). `OneWay`, `TwoWay`, `TooLong` and `Negative` are what `onTimesync()`
makes of a message, `Update` is `TimesyncEstimator::update()`. The times the bridge stores
are kept as ages by the wall clock, which `WallStep` moves in either direction; an age goes
negative when the clock is stepped back. The MCU is up or down (`Restart`, `GoesDown`), and
any message may be lost.

Offsets are told apart by being right or wrong only. The estimator takes the middle of the
round trip (timesync_estimator.hpp:71), so a sample is off by half of what the two legs
differ by, and the bridge cannot see by how much. Each reply is therefore `even`, when that
half is at most some tolerance, or `lopsided`, and the link decides which. A sample is right
within the tolerance, an estimate within `kStepNs` more: what is averaged stays right, and a
wrong estimate is more than `kStepNs` away from a right sample. An even reply gives a right
sample; a lopsided one, one that a restart or a clock step `crossed`, and a one-way sample
may give either. Nothing is assumed of the tolerance but that it is the same throughout.

**CalibrationService** (`bridge/rosbot_mavlink_bridge/src/bridge_node.cpp`). The executor is
one thread: `Call` or `CallWithoutStatus` enters a service callback, `Retry` and `GiveUp`
follow an answer that did not come, `EndOnId`, `EndOnAnswer`, `AwaitOutcome`, `EndOnOutcome`
and `TimeOut` are the ways on and out. `Receive` is the receive thread. The scheduling
inside `rclcpp::spin()` (main.cpp:71) is external: it runs what was ready in one wait before
it waits again, so callbacks of several services may follow each other with no wheel command
in between. The model lets a call begin the moment the last one is over, does not model the
forwarding of wheel commands, and measures by `held` how long one call has held the
executor. The MCU is its command handler and status publisher as seen over the link
(`McuTakesSave`, `McuReports`, ...); `ImuCalibration` has their details. The link keeps
frames in order, delays each by at most `MaxDelay` and may lose any.

## What the runs check

Each run is one question. A property's mutant in `PROJECT.json` shows what change
to the code the run would notice.

| run | question | states |
| --- | --- | --- |
| `time_base` | Is the 64-bit time current and monotonic when callers preempt each other around the counter's wrap? | 234 000 |
| `serial_tx` | Do whole frames reach the wire once, in order, with none stranded, whatever the order of writers, DMA and interrupt? | 16 000 |
| `motor_array` | Do the wheels follow one fresh command, or stop, whatever the two tasks, the mutex timeouts and the drivers do? | 415 000 |
| `setup` | Does the next boot load the last configuration stored, and a silent host leave the namespace alone, over power losses and flash failures at any operation? | 141 000 |
| `mavlink_node` | Are heartbeats on time and telemetry sent to a live, synchronised peer only? | 90 000 |
| `imu_calibration` | Is each accepted request served and its outcome readable, and does every session end? | 131 000 |
| `calibration_service` | Does a call of the bridge tell the truth, end in bounded time, and in less than the motor watchdog if it loses no frame, over a lossy link? | 1 058 000 |
| `imu_bno055` | Is only a fresh, whole block published, is fusion mode restored or the failure told, and do samples resume? | 111 |
| `bridge_peer` | Do the bridge's peer flag and clock offset come to follow an MCU that restarts, over a lossy, slow link and a wall clock that is stepped, the offset where round trips are even in the end? | 335 000 |
| `link_receive` | Does the node get the peer's frames, in order, and get them again after a torn one? | 203 000 |

Two more runs check a sentence of a comment or a document that the code does not
keep. Each ends in the counterexample described under `findings`:

| run | what is said | what happens |
| --- | --- | --- |
| `mavlink_node_silence` | the node disconnects after 3 s without a heartbeat (ARCHITECTURE.md:895) | `loop()` reads `now` before it drains the link: a heartbeat stamped a millisecond later makes `now - last` wrap, and the node disconnects because of it |
| `persistent_config_next_boot` | a save refused at run time is left to the next boot's `save()` (persistent_config.hpp:58) | that `save()` finds nothing changed and makes no room |

### Known deviations without a run

Reading the code for the models showed these as well. No property covers them, or one
only up to them:

- **A session can end when it has just begun.** The LED task reads `millis()`, is
  preempted by the link task's `startSession()`, and then computes `now_ms -
  session_started_ms` (imu_calibration_runtime.cpp:48), which wraps: `stopSession()` ends
  the session. `SessionBounded` says that sessions end, not that they last.
- **"failed" may be told of a save that goes well.** When the acknowledgement and the
  status of a save are lost, the retry starts a second one; a status sent during it has a
  new `save_seq` and the state "saving", which the switch at bridge_node.cpp:685 reports as
  a failure. `SavedIsStored` covers the answer "saved" only.
- **A wall clock stepped back holds up the bridge.** Ages are differences of wall-clock
  times (bridge_node.cpp:191, 207): after a step back by X, no TIMESYNC request is sent and a
  dead peer is not noticed for about X longer, while ARCHITECTURE.md:915-918 speaks of three
  samples. The liveness properties of `BridgePeer` hold, but only after X.
- **A robot may stop during a calibration call.** ROS_API.md:53-55 says of the calibration
  entry points that "the robot keeps driving throughout". A callback that waits holds the
  executor's only thread, which forwards the wheel commands (bridge_node.cpp:603-689). One
  lost acknowledgement makes it wait 500 ms, the motor watchdog's time, and losses can make
  it 4.5 s (`HoldBounded`). Callbacks run back to back add up even without a loss.
  `CleanCallIsShort` covers a single call that loses nothing.
- **Uneven delay shifts the offset, unnoticed.** A steady difference between the legs of a
  round trip shifts the offset by half of it: the RTT filter compares round trips with each
  other, and three samples in a row re-seed from the shifted value. ARCHITECTURE.md:910-911
  speaks of "the symmetric part of the link delay", so this is no contradiction;
  `OffsetFollowsClocks` says "right" only under `LegsEven`.
- **A tap may be missed.** `selectTransport(1)` makes its check only if the millisecond
  does not turn between two readings of `millis()` (communication_manager.cpp:62-64), which
  main.cpp:155-157 counts on.
- **A long namespace is cut.** A line is cut at 31 characters including `NS:`, and what is
  left, 28, is acknowledged all the same.
- **A refused abort.** `HAL_I2C_Master_Abort_IT`'s result is not looked at
  (imu_bno055.cpp:253). The model takes it to succeed when a read is running; a HAL that
  refuses it for memory reads would leave the read running.

### Bounds, and why they are enough

Durations are scaled down but keep the order the code's constants have, for it is
their order that decides which deadline comes first. Wraps are real: the modulus is
small, so every run passes it.

- `time_base`: 3 callers, since an order of results needs two and a third that
  overtakes both; a counter of 8 values, a true time of 13, so that it wraps; at most
  3 between calls and within one (less than the half range 4, as the header requires).
- `serial_tx`: 2 writers of 4 frames of 1 or 3 bytes, a stream of 4 and a DMA buffer of
  2: frames are refused for lack of space, and a frame is longer than a DMA buffer and
  goes out in chunks. Four frames fill, drain and refill the stream.
- `motor_array`: 2 motors, commands 0, 1 and 2, millis() modulo 10. The watchdog (3)
  is longer than the control period (2) and the clearing time (3) longer than a cycle.
  Ages are told apart up to 9, beyond every deadline.
- `setup`: a sector of 4 slots, 2 namespaces besides the empty one, 2 calibrations: it
  fills up, is erased and fills again within one behaviour, and a host can rename a robot.
- `mavlink_node`: heartbeat 3, time synchronisation 4, peer timeout 5, period 2 and
  millis() modulo 17; 2 frames waiting in the receive buffer.
- `imu_calibration`: a session of 4, millis() modulo 9; `MaxSaves` 2: the counter
  stops there, and two saves are what tells "this outcome" from "the previous one".
- `calibration_service`: 2 calls of 3 attempts, as in the code. `AckTimeout` equals
  `Watchdog`, both 500 ms in the code. `save_seq` ranges over 8 values and the run makes at
  most 6 saves, so it does not wrap here; in the code it takes 256 saves within one call.

- `imu_bno055` has no bound: its state is finite.
- `bridge_peer`: in ticks of the fast period, a slow period of 2, 1 fast sample, 2 fast
  requests, a peer timeout of 3, heartbeats every tick, replies that take up to 1 tick, so
  that a slow link makes every fast request stale; each reply even or lopsided; 2 samples in
  a row re-seed, and the wall clock is stepped by 1 either way, any number of times. The RTT
  filter may reject any reply from the first on. Counters stop at the bound the code
  compares them with.
- `link_receive`: a stream of 8, chunks of 3, payloads of up to 2, a signature of 1, 6
  frames of 4 to 6 bytes: every datagram but the first may be cut anywhere, and the 6 frames
  leave room for the longest stretch a false start can swallow and a frame after it.

Deadlock is checked wherever a state without successor would be an error; in
`serial_tx` and `link_receive` it is not, since all frames of the bound may have been sent.

## Fairness

Safety needs none. Liveness assumes weak fairness of the clock and of the tasks: every task
is periodic, the scheduler is preemptive with fixed priorities, and the measured load leaves
idle time, so a task that can run eventually does. In `SerialTx` the writers get it only
while inside `write()`, the DMA and its interrupt always. In `CalibrationService` the
executor, the receive thread and the MCU have it, the link does not: it may lose every
frame. In `ImuBno055` the IMU task and the bus have it: a transfer completes, fails or is
aborted in the end. In `BridgePeer` time, the receive thread's steps and a heartbeat's
arrival have it; the two timers have strong fairness, for they run every period although
other steps may disable them in between; `PeerTracked` and `OffsetFollowsClocks` are
conditional on restarts, steps and losses coming to an end. `OffsetFollowsClocks` also takes
it that the RTT filter does not reject one reply after another for ever (`FilterFollows`)
and, for the offset to be right rather than just a two-way one, that replies are even from
some time on (`LegsEven`): the estimator relies on that and has no means to see it. Nothing
is assumed of the host: it may send anything at any time, or nothing for ever.

## What is proved

The theorems hold for every value of the constants that the named assumptions
(`ASSUME` in the module that declares the constants) allow. Two proof modules cover two
modules each: the link task's (`LinkTaskProofs`) and the IMU task's (`ImuProofs`). There
one of the two has its `Init`, `Next`, `Spec`, `TypeOK` and `vars` under names of its own:
`RxInit`, `RxNext`, ... in `LinkReceive`, `DriverInit`, `DriverNext`, ... in `ImuBno055`.

**`TimeBaseProofs`.** For any set of callers and any time. Assumptions: a positive half
range, and calls that are less than it apart and preempted for less than it.
`TimestampsAreCurrent` and `MonotonicForAll` rest on one arithmetical lemma,
`SignedDeltaIsExact`: the signed difference of two truncated counters is the true difference
while that fits the signed range. The inductive invariant says that the accumulated time is
the true time of the newest reading counted, and how far behind the clock it and every
pending reading may lie (`AccumIsTrueTime`).

**`SerialTxProofs`.** For any writers, buffer sizes and frame lengths. `NeverStranded`
is not inductive: it needs that the DMA is running or its interrupt is pending
exactly when `s_dma_active` is set (`ActiveIffBusy`), that only the writer holding the mutex
is past its space check (`MutexHeld`), that the space it saw is still there
(`SpaceStillThere`), and that the DMA buffer is empty unless a transfer runs
(`BufferDrained`).
`TransportImplementsLink` maps the contents of DMA buffer and stream to the frames in
`FrameLink`'s pipe and shows that every step is a step of it or a stutter.

**`MotorArrayProofs`.** For any number of motors, any speeds, any timing.
`OneCommandAtATime` speaks of wheels between cycles only. The invariant adds what holds
inside the two loops: the motors already visited by `setVelocities()` have the new setpoint
(`TargetsWritten`), those visited by `update()` follow their targets (`GoalsFollow`),
nonzero targets agree while nobody writes them (`TargetsAgree`), and the mutex keeps the
loops apart (`MutexHeld`). `FreshSetpoint` needs `TargetsFresh`: a target that is not zero
was written after the motor's last brake. `StaleCommandStops` and `LatchHolds` rest on a
second invariant, `Ages`, over the first: what the code measures modulo the range of
`millis()` is the true age of the command (`AgeIsTrue`) and no more than the time the fault
pin has been quiet (`QuietIsTrue`), a cycle is short (`CycleIsShort`), and how old the
command behind a motor that moves, or is about to, can be at each point of a cycle, one that
missed the mutex included (`NotStale`). They assume `AgesAssumption`: watchdog, two periods
and a cycle together are less than the wrap of `millis()` (some 510 ms against 49 days in
the code), and than `MaxAge`.

**`CalibrationServiceProofs`.** For any timeouts, attempts, delays and losses. `SavedIsNew`
needs that the MCU's state tells the outcome of the last save it counted
(`StateTellsOutcome`), that every report under way and the last one received are true
(`ReportsTrue`, `LastIsTrue`), and that reports arrive in the order of their `save_seq`
(`ReportsInOrder`). The model counts saves without bound and compares them modulo `SeqRange`
as the bridge does, hence the theorem covers the wrap. `HoldsAreBounded` needs a second
invariant, `Bounds`: how long each wait of a call has lasted, by how many attempts it has
made, and no more saves than commands sent. `CleanCallsAreShort` needs a third, `Prompt`,
which follows the one exchange a call has under way from the command to the outcome. It is
about each call by itself, whatever earlier calls have left under way on the link or in the
MCU; the time an earlier call held the executor is not counted. It holds on a prompt link,
`PromptLink`, its hypothesis: a frame each way takes less than the acknowledgement timeout
(500 ms), a frame each way, a save and a status period (200 ms) together less than the
watchdog (500 ms), and fewer saves than `save_seq` tells apart (256). On a link slower than
that a call may outlast the watchdog, so the theorem cannot do without it;
`MCCalibrationService` assumes it of the run's values.

**`BridgePeerProofs`.** For any periods, counts, delays and steps. `ReseedsInTime` needs
`StepsCounted`: while the offset is wrong, the right samples in a row are no more than the
steps counted, so that the `StepSamples`-th re-seeds. It holds for any choice of which
samples are right, hence needs nothing of the link's symmetry.

**`ImuProofs`, `ImuCalibration`.** For any clock range, session timeout, LED period and
delay; assumed: timeout, period and delay together are less than the wrap of `millis()`, and
than `MaxAge`, where the model stops counting a session's age. `StatusTellsOutcome` needs
that no request is lost between the tasks (`NoneLost`: those accepted are those counted and
those requested or under way) and what the control word holds at each point of
`serviceSave()` (`StateOfSave`). `SessionBounded` needs that the truncated start time is the
true one (`StartIsTrue`), that the LED task's reading is at most its delay old
(`LedClockIsTrue`), and how old a session can be where the LED task is (`AgeBounded`).

**`ImuProofs`, `ImuBno055`.** `OnlyFreshSamples` needs that a read runs only while `update()`
waits for it and has not completed (`ReadIsAwaited`), that `update()` starts its read with
the semaphore drained and the result cleared (`StartsClean`), and hence that the completion
it takes is its own read's, with the block in the buffer (`CompletionIsOurs`).
`SaveHasTheBus` follows from the first: a save may use polled transfers because no read
runs between cycles, at most one is being aborted.

**`LinkTaskProofs`, `MavlinkNode`.** For any periods short of a wrap of `millis()`
(`AgesAssumption`; seconds against 49 days in the code) and a loop shorter than its period.
The invariant says that `loop()`'s local time and the stamps are those of what they stand
for, modulo the wrap (`NowIsTrue`, `BeatIsTrue`, `PeerIsTrue`), that a heartbeat was not yet
due or the loop has not run since (`BeatRecent`), that a connected peer was heard within its
timeout at the last loop (`PeerRecent`), one dispatched before the connection in this very
loop (`JustSeen`), and that a new connection owes a TIMESYNC (`SyncOwed`).

**`LinkTaskProofs`, `LinkReceive`.** For any sizes, payloads and number of frames. The
invariant is about the line, the bytes in chunk and stream that are not parsed yet: each
follows the one before in its frame, or starts a later frame where one ended or was cut, and
up to the first cut no frame is missing (`LineGood`). A parser that reads a frame up to the
next byte is where it thinks it is in that frame (`PlaceIsTrue`), and up to the first cut it
always does (`InStep`): hence `LinkImplemented`, step by step. `CutsAreOvercome` needs to
know how far a parser that reads something else can still be led astray (`ToSwallow`,
`SwallowsLittle`). The case that makes this hard is the one where what it swallowed ended on
the start byte of a frame while it was in MAVLink 1: it then knows that frame's length but
ends a byte early (`ReadingAsV1`), and is idle when the next frame starts (`BackInStep`).

**`SetupProofs`.** For any number of slots, names and calibrations. `Stored` is what a
scan of the whole sector finds; in place of induction over the slots, the invariant keeps
that the sector is filled from the front (`Filled`: the erased slots are those from some `n`
on) and has a newest record or none (`Logged`, `Latest`), and lemmas say what
each flash operation makes of such a sector (`TornLog`, `RecordLog`, `BlankLog`,
`GarbageLog`). To that the invariant adds what `save()` has left to do (`SaveState`), that
only `setup()` rewrites the sector (`SchedulerState`), that the cache is what is stored,
also while a record is appended (`CacheTrue`), and that a save of the IMU task has the cached
namespace (`RuntimeNs`). These parts hold of every step of `PersistentConfig`
(`LogStepHolds`). `SilentBootKeepsNamespace` adds how the boot's stages match where
`save()` is (`StageState`) and whose namespace flash and cache hold (`SettledNs`).
`StoreImplemented` maps each step to one of `ConfigStore`: the last word of a record is the
commit, the erase is the wipe, the first word nothing.

## What is only model-checked, and what is not modelled

Every invariant and action property of the runs, and every refinement of an abstract
specification, is a theorem. What stays with TLC is liveness under fairness, out of the
prover's reach: `AcceptedIsSent`, `LivePeerConnected`, `EveryRequestServed`,
`SamplesResume`, `PeerTracked` and `OffsetFollowsClocks`. The two runs that end in a
violation are TLC's as well.

Not modelled, and why:

- **Arithmetic and output**: PID, encoders, ADC conversion, fan curve, LED patterns,
  range sensors, packing of telemetry. They are sequential functions of their inputs, many
  with unit tests.
- **Hardware faults the code does not handle**: DMA transfer errors, a failing UART.
- **Generated and vendored code**: the MAVLink dialect but for its parser, HAL, FreeRTOS,
  lwIP. Mutexes, stream buffers and interrupts are modelled by what the code relies on. The
  dialect alone is more than 110 000 lines of C headers, nine tenths of the repository.
- **`MavlinkUdpTransport::write()`**: one call into lwIP with the scheduler suspended.
- **Power board, battery hysteresis, `CriticalStateReporter`**: each a state machine of one
  task over its own inputs.
- **`enableWatchdog()`, `disableWatchdog()`, `MotorArray::reset()`, `close()`**: nothing
  calls them.
- **An MCU that restarts during a service call**: see the plan.
- What the plan lists as still to come.

## Plan

Written so far, in this order: `TimeBase`, `FrameLink` and `SerialTx`, `MotorArray`,
`ConfigStore` and `PersistentConfig`, `MavlinkNode`, `ImuCalibration`,
`CalibrationService`, `Setup`, `ImuBno055`, `BridgePeer`, `LossyLink` and `LinkReceive`, and
the proof modules. Next:

1. **Compositions**: `BridgePeer` with `MavlinkNode` as its peer, so that each end's view of
   the other is related; `ImuBno055` joined to `ImuCalibration`, which now takes the outcome
   of a capture as an input.
2. **Smaller parts**: the power board's parser; battery hysteresis with
   `CriticalStateReporter`.
3. **Proofs**: the safety properties of those, and what the liveness properties rest on
   that is safety: that a step which must come is enabled, that a measure goes down.
