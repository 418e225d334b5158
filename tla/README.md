# Smart door: a verification development

TLA+ models of the smart door's three programs: the firmware (`src/STM32/applications/`), the face unit
(`src/K230/face_access_control.py`) and the unlocking modes of the mobile application
(`src/lib/providers/device_provider.dart`), model-checked with TLC and proved about with TLAPS. The
modules follow the code statement by statement where its interleavings matter; `PROJECT.json` maps every
definition to the lines it stands for and lists components, runs, mutants, hazards and theorems.

## 1. Inventory

The repository holds three programs and a lot of vendored code.

| Program | Where | What it is |
|---|---|---|
| Firmware | `src/STM32/applications/` | C on RT-Thread, one STM32 core: lock, door arm, gas alarm, lamp, cloud, watchdog |
| Face unit | `src/K230/face_access_control.py` | Python on a K230 board: recognises faces, asks the firmware to unlock over a UART |
| Mobile application | `src/lib/` | Flutter: polls the OneNET cloud over HTTP and sends commands |

RT-Thread, the board's drivers, the OneNET, Paho, cJSON and AT packages, and the Flutter platform
directories are third-party or generated. `src/STM32/board/linker_scripts` and the rest of the board
package hold no logic of this system.

### Components of the firmware

Priorities: a smaller number preempts a larger one; the kernel is strictly preemptive, on one core.

| Component | State | Operations | Talks to | Correct when |
|---|---|---|---|---|
| **Door lock**, `door_lock.c`: door thread (5), key thread (4), timer callback (soft-timer thread, 4) | event bits, `g_door_state`, relay, one-shot auto-close timer | `door_lock_open`, `door_lock_open_no_auto_close`, `door_lock_close`, a key press, a timer expiry | servo (call), MQ2 (`mq2_ignore_after_relay_op`), cloud and face unit (state queries) | the report agrees with the relay; no request lost or replayed; every opening is closed again unless the gas alarm asked for it |
| **Gas alarm**, `Mq2.c`: pin interrupt, polling thread (12); `docker.c`: alarm thread (6) | edge flag, two windows, counts, `alarm_enabled`, buzzer, lamp | edge, poll, `alarm_start`, `alarm_stop` from four threads | door lock (opens it), cloud, face unit, shell | gas raises the alarm; a stopped alarm is silent; an alarm ends only on confirmed normality, and does end |
| **Servo**, `servo.c` | angle and busy flag of each channel | set an angle at once, sweep to an angle, from the door thread and the shell (20) | door lock | the flag is returned, every sweep ends, sweeps do not mix |
| **Lamp**, `onenet_recv.c:35-71`: LED thread (22) | `g_led_state`, a queue of four, the pin | `set_led_status` from the MQTT (10) and UART (8) threads | cloud report | the lamp ends up as reported |
| **K230 link**, `k230_uart.c`: UART thread (8) | parser, device handle, thread handle | feed a byte, dispatch six commands, `k230_start`, `k230_stop` | door lock, lamp, alarm, face unit | only frames that were sent are acted on; the parser recovers after any fault; each request has one effect |
| **OneNET**, `onenet_recv.c:73-313`, `onenet_sample.c` (10) | connection, callback, upload period | connect with 30 retries of 3 s, subscribe, dispatch a property message, upload | everything above | commands are not lost while connected; lamp and lock in the cloud never run backwards and end up true |
| **Monitor**, `main.c` (14) | watchdog | refresh every 5 s, timeout 8 s | all threads (by starving) | refreshed whenever the system is healthy |

### Components of the face unit and the application

| Component | State | Hard parts |
|---|---|---|
| `AccessController` | per-frame counters of success and failure, cool-down, wait for leaving, capture count | counters over frames of different persons; blocking acknowledgement (500 ms) inside the frame loop |
| `K230` side of the UART | sequence number, receive parser | late and repeated acknowledgements, sequence numbers wrapping at 256 |
| Cloud uploader | queue of captures in memory, pictures on the card, attempts | a restart loses the queue, the pictures stay; an answer lost after the cloud has stored the picture; uploads that stop the frame loop |
| `DeviceProvider` | press-and-hold and fire mode with a timer each, requests under way, polled values | timers and fingers against asynchronous HTTP answers in any order |
| Pages, `MqttService`, `OneNetService` | user interface and transport; `MqttService` is never instantiated | none of its own |

### Which behaviours are hard

Preemption between two statements (door thread against key and timer; servo's busy flag; lamp state
and post; alarm thread against its callers), events merged into one batch, a timer expiring while it is
restarted, one-way flags cleared before the decision they are for, counts that outlive what they count,
a faulty serial line, a report whose parts are read at different times, a pipe that merges and tears
messages and whose reader writes to it too, a queue in memory beside files that outlive it, and answers
that arrive late, out of order or never.
`PROJECT.json` "hazards" lists each at its line with the properties that look for it.

## 2. Plan

| # | Module | Models | Status |
|---|---|---|---|
| 1 | `DoorContract`, `DoorLock`, `DoorLockClaims`, `DoorLockProofs` | door lock, its contract, a refuted claim, proofs | done |
| 2 | `GasAlarm`, `GasAlarmProofs` | sensor, polling, alarm | done |
| 3 | `Servo`, `ActuatorProofs` | arm and busy flag, the arm of a locked door | done |
| 4 | `LedControl`, `ActuatorProofs` | lamp | done |
| 5 | `FrameLine`, `K230Frame`, `MCK230Frame`, `K230FrameProofs` | framing and parser, the line of whole frames they implement | done |
| 6 | `FaceUnlock`, `FaceUnlockProofs` | recognition counters, cool-down, unlock request and acknowledgement | done |
| 7 | `StaleMirror`, `OneNetLink`, `OneNetLinkProofs` | connection, callback, commands, replies and uploads over one pipe; the late mirror they implement | done |
| 8 | `AppProvider`, `AppProviderProofs` | press-and-hold and fire mode against HTTP answers | done |
| 9 | `Outbox`, `CaptureQueue`, `CaptureQueueProofs` | captures, the upload queue, lost answers, a restart; the outbox they implement | done |
| 10 | a product of `DoorLock` and `Servo` | the two seconds of a sweep inside the door thread's steps, the shell's hand on the arm meanwhile | next |

How the parts compose: each component is modelled with its whole interface, and what another component
does to it appears as a set of callers (`Calls`, `Remote`, `Callers`, `Threads`) whose calls come at any
time the priorities allow. A product of the models would only restrict these times. The door's promise to
its callers is `DoorContract`, which `DoorLock` implements. `FrameLine` is the line that `FaceUnlock`
speaks over, and `K230Frame` implements it; `StaleMirror` is what the application may rely on when it polls
the cloud, and `OneNetLink` implements it; `Outbox` is what `CaptureQueue` is to the camera. What remains
of the composition is the relay window of the gas sensor (`GasAlarm`'s `mq2_ignore_after_relay_op`, at any time) and the arm (`Servo`'s
door thread, which opens and closes at will).

Dropped from the plan: a model of the remaining serial commands (nothing in the face unit sends them, and
their effects are calls that the models above already receive) and a model of the watchdog (section 6).

## 3. What is modelled

**`DoorLock`.** One variable per shared object: the event set `door_event`, the thread's local batch
`events`, `g_door_state`, `relay`, `door_timer`, plus `servo`, `button` and the program counters. `pc`
names the statement the door thread is about to execute, so that the key thread and the timer, which
preempt it, may act between any two; callers of the API have lower priorities and act only where it is
blocked (`DoorThreadBlocked`). `rt_event_send` hands a set over to a suspended receiver at once, alone,
and accumulates otherwise, as `ipc.c` does. `asked`, `owed` and `causes` are history variables.
*Left out:* failure of `door_lock_init`, `DOOR_EVENT_STOP` (never sent), sweep durations.

**`DoorContract`.** What the rest of the firmware may assume: the bolt is released only for a wanted
request, and requests in `Kept` are eventually answered. `DoorLock!Contract` maps `bolt` to the relay
(or the decision to release it) and `wanted` to the open requests not yet served; `KeepsContract` states
the refinement with `Kept` = key and open calls. The alarm's request cannot be in `Kept`: see
`door_alarm_lost` below.

**`GasAlarm`.** The polling period is the unit of time. `edge_recent` and `relay_recent` are the two
windows of the sensor, `since_trigger` counts the ten seconds between two triggers in polls.
The polling thread is split where another thread can act between two of its effects: the flag, starting
the alarm, opening the door, the read of the pin, stopping, silencing. The alarm thread (priority 6) is
above every caller, so what it does between two delays is one action. `stopping` holds the callers
between the flag and the outputs of `alarm_stop`. `quiet` and `carried` are history variables.
*Left out:* the concentration (ADC and floats; it decides nothing), `alarm_running`, calls before
`alarm_init`.

**`Servo`.** One channel. Every statement of `servo_sweep_ch` that touches the busy flag or the angle is
an action; the sections under `servo_mutex` are single actions. A thread below the door thread runs only
while that one is idle or in a delay. `door` is what the door thread last asked of the arm; the history
variable `meddled` says that the shell moved the arm since the door was opened, or was about to.
*Left out:* durations, the second channel (it shares no state but the mutex), `servo_deinit` (no caller).

**`LedControl`.** Its definitions are named `Led...` because one module proves about it and `Servo`. A caller is named by its priority. The assignment, the read and the post are three
steps, as in `set_led_status`; a full queue drops the command unnoticed. `dropped` and `overtaken` are
history variables. `Settled` is what the lamp will
show when the queue has been worked off.

**`K230Frame`.** The line is a sequence of bytes on which faults drop, change and insert bytes; the
parser is `k230_parser_feed` byte by byte. `Carrier` instantiates `FrameLine` with `sent`, `received` and
the presence of noise. The timeout is modelled by `Silence`: more than 50 ms pass
with an empty line. The checksum is a parameter `Crc`. `pos` is the length of `buf`.
That no payload is longer than the limit is what both senders test before they write. *Left out:* a pause of the sender inside a frame (both senders write a frame in one call) and the
dispatch of frames.

**`FaceUnlock`.** What the camera sees is a variable `view`: a person of the database, a stranger (also a
photograph or a recognition that fails), nobody, or something unclear (a detector error, a crowd).
`NoFace`, `Skipped`, `StillThere`, `Authorized` and `Rejected` are the paths through `process` and
`_update_status`; `gap` counts the frames since the heavy models ran. `_do_unlock` is split at its wait:
`send_face_unlock_req`, then `AckRead`, `OtherRead` or `AckTimeout`, the last two also with
acknowledgements of earlier requests, which `poll` of the main loop may or may not have read in time. The
lock's side is one action, `k230_cmd_dispatch`'s branch for the unlock request: `door_lock_open` never
fails once the firmware runs, so it answers OK. The line carries whole frames, as `K230Frame` justifies,
and loses them while `faulty`. `asked`, `left` and `fresh` are history variables.
*Left out:* neural networks, the feature average, the display; captures are `CaptureQueue`'s.
*Assumed:* a frame is not under way for as long as the sequence numbers need to come round
(`Gone`, `Older`); in the code that is 256 unlocks.

**`OneNetLink`.** The MQTT thread (`paho`), its publish pipe, the upload thread (`upload`) and the
callback. Of what an upload shows, lamp and lock are kept, each as a version that every change increments.
They are sampled in two steps: `SampleLamp` is the copy under the mutex (`onenet_sample.c:63-66`),
`SampleLock` the read at line 71; between them the temperature sensor is read, which sleeps for 20 ms, and
any other thread may act. An upload can therefore pair an old lamp with a new lock, and so can the cloud.
A command (`Serve`) changes the lamp at once or, when it is malformed or about something else, nothing, and
is answered in every case; the lock is changed by the door thread later (`LocalChange`), as it is for the
key and the face unit. A reply says how a command fared, not what the state is, so that it carries no
version. The pipe is modelled as what it holds and how full it is: in the code it has 512 bytes, a reply takes about 105 and an upload about 211, so that
four replies fit and an upload counts as two of them. `ReadPipe` reads everything at once, publishes the
first message and loses the others. A publisher that finds no room writes part of its message (`torn`) or
nothing (`blocked`) and waits; woken, it writes what is left, or another part if replies have come first
(`WritePart`). The end of a torn upload follows as a `rest`, which the next read takes for a message:
`ReadRest` lists what can come of it. A thread of the same priority acts between any two statements that
touch shared state. `Network` changes the quality of the network at any time; on a `prompt` one the MQTT
thread is done before the next upload. *Left out:* keep-alive and quality of service, the measured values,
the JSON. `Mirror` instantiates `StaleMirror` with the versions of the device's fields and of those the
cloud shows. The 30 attempts of `on_recv` matter only on a shortage of memory, because the MQTT thread
connects by itself.

**`AppProvider`.** Per mode: `on` and `ref` (the flag and the timer reference), `live` (timers that run,
referred to or not), and the requests of each kind that the device has not seen (`sent`) or has seen and
not answered (`done`). Dart runs a callback to its next await, so that one action is one callback or one
continuation. Answers come in any order; a request fails before or after it took effect. `overtaken` is a
history variable: the mode ended while its first request was under way. *Left out:* the displayed lock
state, the access log, the polled readings, and `setLightStatus` and `setLockStatus`, which are single
requests without state.

**`CaptureQueue`.** `pc` is the place of the frame loop, which also uploads. `queue` is lost by `Restart`,
`files` and `cloud` are not. `Attempt` separates what the cloud has stored from what it has answered.
Pictures are named after a clock that starts anew with the program, so that a capture may replace one of
an earlier run. Once associated, Wi-Fi is taken to come back by itself. Frames with a crowd or a detector
error change nothing here and are stuttering steps. `count`, `first`, `last`, `quiet` are history
variables. `Uploads` instantiates `Outbox` with `count`, the queue and what the cloud has got in this run.
*Left out:* the picture, HTTP, the status text.

## 4. What is checked

| Run | Bounds | Shows |
|---|---|---|
| `door` | all three API calls, one button; 15196 states | the report is true, requests are conserved, the door locks again, the contract |
| `gas_alarm` | two remote callers, confirmation after 2 polls, no second trigger for 2 polls, 2 cycles; 37760 states | stopped is silent, stops are confirmed, an alarm sounds and ends, recurring gas is heard |
| `servo` | door thread and shell, angles 0..3, open at 2; 3682 states | flag returned, range kept, arm of a locked door closed, sweeps end |
| `led` | two callers, queue of 4; 6698 states | the lamp follows the reported state |
| `k230_frame` | 4 byte values, payload up to 1, 2 frames and 2 faults between silences; 202576 states | buffer never overrun, resynchronisation after every silence, a line of whole frames |
| `face` | one person, 3 recognitions, 2 failures, heavy models every 2nd frame, 3 sequence numbers; 221328 states | an acknowledged unlock happened, unlocks are apart, a person who stays gets in |
| `onenet` | pipe of 4, upload of 2, 3 commands, 2 changes of lamp and lock; 344129 states | lamp and lock in the cloud are late and never fall back, and converge; no command waits for ever |
| `app` | two requests and two timers per mode; 83895 states | a mode that is on is driven, the door locks after a release, fire mode opens |
| `capture` | uploads after 2 frames, 2 attempts, 3 captures, 1 restart; 49140 states | no capture of the run is lost, the uploader is an outbox, no upload while someone is served |
| `door_alarm_lost`, `onenet_deadlock`, `app_release` | | refuted claims, below |

The door lock has no bounds at all: its state is finite. The gas alarm's counters need only pass their
limit, be reset and be compared, for which 2 suffices (the proofs cover every value). Two shell callers
of the servo would add nothing that a preempting door thread does not. The queue of the lamp has its
real length. In `k230_frame` the frames contain the markers as command, sequence and payload bytes, the
longest payload fills the buffer, and two faults are enough to make any length byte out of any other;
what came before a silence is unbounded, because the counts start over with it. The counters of `face`
must be able to pass, to be reset and to be met half way, for which 3, 2 and 2 suffice; three sequence
numbers leave room for acknowledgements of two earlier requests; one person is enough where persons are
not told apart. In `onenet` two changes suffice for a field that is old in the pipe, newer in a
publisher's hands and newest in the device, and for a change of the lamp and one of the lock between the
two steps of a sample. Three commands make three replies, which leave a woken publisher room for a part
only; the pipe can be full of uploads, of an upload and replies, and of part of an upload. Two requests and two timers of a mode let an old answer meet a new
request and an old timer a new one; more would only repeat that. Three captures fill a queue whose head,
middle and end differ, before and after a restart.

Properties that pass, and what would break them:

- `ReportIsTrue`, `TimerOnlyWhenOpen`, `NoStrandedOpen`: the report agrees with the relay in every
  intermediate state; no timer survives into a locked door; no opening but the alarm's goes without one.
- `RequestsConserved`, `UnlockOnlyWhenAsked`: the bits resent after a close are exactly the requests of
  that batch; the lock never opens for a request it has already served.
- `DoorLocksAgain`, `HeldButtonOpens`, `KeepsContract`: liveness of the driver, the last one as a
  refinement.
- `SilentWhenStopped`: `alarm_stop` does not wait for the alarm thread, and yet no beep follows it.
- `ConfirmedQuiet`: `ConfirmCnt` normal polls since the last trigger, unless `carried` (a remote stop cut a
  count short). `AlarmSounds`, `AlarmEnds`: liveness of the alarm. `FluctuatingGasHeard`: the edges that
  the two windows swallow do not silence the sensor for good; gas that keeps coming and going raises the
  alarm, and again after every stop.
- `BusyHasOwner`, `SweepEnds`: the flag does not refuse every later closing, and no fight over the arm
  keeps the door thread in a sweep. `ArmClosed`: a door reported locked has its arm closed, although
  `relay_off` ignores a refused sweep, unless the shell had its hand on the arm.
- `LampFollows`: the lamp ends up as reported unless the queue was full or a call came between the read
  and the post of another.
- `BufferFits`: bounds of the parser. `CarriesFrames`, a refinement of `FrameLine`: exactly-once, in-order
  delivery on a line undisturbed since the last silence, and at every silence nothing is outstanding.
- `AckMeansAsked`: "Master ACK received" is printed only if the lock acted on that very request, however
  late earlier acknowledgements are. `UnlocksApart`: between two unlocks the cool-down passes or nobody is
  seen, and only recognitions after that count. `PersonOpens`: no sequence of losses, late answers or
  resets leaves the unit unable to open the door for a person who stays.
- `MirrorsDevice`, a refinement of `StaleMirror`: no merged, lost, torn or delayed message makes lamp or
  lock in the cloud fall back to an older state or show one that the field never had. It says nothing of the
  pair: lamp and lock are sampled apart, and shown together they may never have been so.
  `CloudConverges`: on a prompt network the cloud ends up with the current pair once the device rests (in
  the model after its last change). `CommandsServed`: the MQTT thread looks at the socket before the pipe,
  so that uploads never hold up a command for ever; with the pipe first, uploads on a slow network could.
  The last two exclude the self-deadlock below.
- `ModeIsDriven`: no late answer or failure leaves a mode on with neither a timer nor a first request.
  `TimersBelong`: the only way to a timer without a mode is the one that `app_release` shows.
  `DoorLocksAfterRelease`, `FireModeOpens`: what the user sees of both.
- `NothingLost`: a capture of the current run is in the cloud, or queued and on the card.
  `ImplementsOutbox`, a refinement of `Outbox`: only the oldest capture is uploaded, and it leaves the queue
  only once the cloud has it, though answers are lost and attempts repeated.
  `UploadsWaitForQuiet`: the frame loop, which stands still during an upload, does so only after enough
  frames without a face. `UploadedInTheEnd`: every queued capture reaches the cloud.

### Claims of the sources that the code does not keep

Each is the one property of a run that TLC refutes.

- `door_alarm_lost` (`AlarmUnlocks`): a close and the alarm's open request wait in one batch; the close
  branch puts back only key and open bits (`door_lock.c:152-156`), the alarm's request is gone, the door
  stays locked while the alarm sounds.
- `onenet_deadlock` (`NoSelfDeadlock`): `onenet_recv.c:174-175` says that leaving the reply to the
  framework avoids a publish inside the MQTT callback. The framework's callback publishes it from the same
  thread (`onenet_mqtt.c:143`); when the pipe is full of uploads, that thread waits for a reader that is
  itself. It needs two publications of the upload thread in the pipe, hence a slow network.
- `app_release` (`NoOrphanTimer`): a release while the first request is under way cancels nothing, because
  the timer does not exist yet; the answer then creates it although the mode is over, and it unlocks the
  door every 1.5 s (`device_provider.dart:165` promises the opposite).

Also seen, without a run of their own, each listed as a hazard at its line:

- The alarm's request finds the door open after an ordinary one and leaves the timer running, which closes
  it (`door_lock.c:185`). A timer that expires just before it is restarted for a new request leaves its
  close bit set, and the door closes right after (`door_lock.c:167-170`). The relay is released before the
  arm has closed (`door_lock.c:87-88`), the header says the reverse (`door_lock.c:13`).
- The flag of a gas edge is cleared before the windows are tested (`Mq2.c:141`): gas that comes once and
  stays is not heard. A count of normal polls outlives a remote stop (`Mq2.c:41`) and shortens the
  confirmation of the next alarm; `ConfirmedQuiet` excludes exactly this.
- The busy flag of the servo is tested and set in two statements (`servo.c:130-134`), so that two sweeps
  may mix. A call of `set_led_status` that preempts another between read and post is overtaken by it
  (`onenet_recv.c:68-69`). After a failed configuration `k230_start` reports success without a receiver
  (`k230_uart.c:344-361`).
- The only handler slot is taken, so that the subscription to `desired/get/reply` is refused
  (`onenet_recv.c:199-201`); of messages read together all but the first are lost (`onenet_sample.c:96`).
- Lamp and lock of one upload are read at least 20 ms apart (`onenet_sample.c:66` and `71`, with the DHT11
  read between them), so that the cloud may show a pair that the device never was in, until the next upload.
- A frame without a face clears the wait for leaving and the feature history, not the count of successes,
  so that recognitions of two persons add up (`face_access_control.py:1362-1366`). `README.md:22` speaks of
  15 consecutive frames; the code requires 10, one in every three frames.
- "[Upload] Failed, will retry later" (`face_access_control.py:1680`) is not true of a picture the card
  cannot read back, which blocks the queue, nor of a restart, which forgets the queue.

### Fairness

Weak fairness of the door, key and timer threads: they have the highest priorities, nothing above them
loops, an armed soft timer expires, and a sweep is a finite number of delays. Weak fairness of the gas
alarm's two threads, of the end of its windows (time passes) and of a caller's silencing (the statements
after the mutex). In `Servo` the shell gets strong fairness: it is disabled whenever the door thread runs,
but that thread blocks after every call and in every step's delay. People, gas, network and the line owe
nothing. `led` and `k230_frame` check safety only and assume no fairness. In `face` both programs' loops
are weakly fair (the frame loop blocks only in the wait, which ends after 500 ms; the lock's UART thread has
priority 8 and nothing above it loops) and the cool-down passes. In `onenet` the three threads are weakly
fair; a blocked publisher is disabled until there is room, and the network may stay down for ever. In
`app` timers fire, every request succeeds or fails in the end, and the device closes its door; the user
owes nothing. That a request ends is an assumption about the platform's sockets, not about the code:
`http.post` (`onenet_service.dart:83`) is called without a timeout. If the first request of fire mode hung
for ever, no timer would be started and `FireModeOpens` would not hold. In `capture` the frame loop goes on, whatever it does, and time passes.

## 5. What is proved

All theorems hold for every value of the constants that their assumptions allow.

- **`DoorLockProofs`** (`CallsAssumption`: the calls are API calls). `IInv` is `TypeOK` with a conjunct
  that says for each place of `pc` what the reported state, relay and timer are there, one that relates
  the history to the event bits and the batch, and one that accounts for a missing timer. None of the
  checked properties is inductive alone: that `LOCKED` implies a released relay after `SetLocked` depends
  on what `pc` was two statements earlier, and `NoStrandedOpen` on why the door thread came to wait.
  `TypeCorrect`, `ReportCorrect`, `TimerCorrect`, `NeverStranded`, `Conserved` and the action property
  `UnlockJustified` follow from it; `Refinement` proves that initial states map to initial states of
  `DoorContract` and every step to a step or a stutter. `ServedSoon` is the safety half of the contract's
  liveness: `StepsToServe` bounds the steps of the door thread before a key press or an open call is served by
  17, every one of them lowers it, and nothing any other thread sends raises it. The worst case is a request
  that just misses a batch, is put back by a closing, and is put back once more by a close that came during
  it; a third time is impossible (`LastClose`, `NoCloseWhileLocked`), because on a locked door the timer is
  off and no caller runs until the next receive.
- **`GasAlarmProofs`** (positive counts; the sensor is not a remote caller). The outputs are on only while
  the alarm is enabled or a caller owes their silencing; the polling thread owes it exactly in its
  silencing step; the count never runs ahead of `quiet`, except between a trigger and the reset that
  follows, and is zero while no alarm is on. From these `StoppedIsSilent` and `StopIsConfirmed`, for any
  number of remote callers, cycles and polls. `BeepBound` is the safety half of `AlarmSounds`: while the alarm
  is on, only delays of the alarm thread count, each ends in a beep or brings it nearer, and there are never
  more than `OffCycles + 2` to come; it rests on `InCycle`, that the counter stays below the limit of the
  loop it counts for. `AlarmEndsSoon` is that of `AlarmEnds`: with a normal pin the alarm is at most
  `2 * ConfirmCnt + 6` steps of the polling thread from its end, whatever edge is still to be polled and
  whoever started it.
- **`ActuatorProofs`**, the arm (the door is one of the threads; the open angle is in range). `IInv` adds to `TypeOK`
  that a sweep in its step phase has not reached its target, so that a step of one degree stays in range,
  and that the busy flag has an owner. `TypeCorrect` and `FlagReturned`, for any number of threads.
  `ClosedWhenLocked`: without a meddling console no other thread is in a sweep, so the flag is free when
  the door closes, and the arm is where the door thread's own copy of the angle says. `SweepBound` is the
  safety half of `SweepEnds`: `StepsLeft` is at most twice the range and three, every step of a sweep lowers
  it and no other thread's step changes it, because a sweep goes by its own copy of the angle.
- **`ActuatorProofs`**, the lamp (priorities are numbers, the queue holds at least one command). `LampFollows`
  speaks of moments without a call under way and is not inductive: `LampInv` adds `PostsAreCurrent`, that
  every caller about to post has read the current state, unless the last call overtook another.
  `LampShowsState` follows for any number of callers and any queue; it rests on what a reception and a post
  do to `Settled` (`SettledReceive`, `SettledAppend`) and not on the priorities.
- **`K230FrameProofs`** (`ByteAssumption`, `FramesAssumption`). `IInv` ties the length of `buf` to the
  parser's state and to the length byte it has stored; `NeverOverflows` follows for every payload limit,
  every checksum and every disturbance of the line. In particular the overflow branch of
  `k230_uart.c:115-119` is unreachable. `Delivery` is the parser's functional correctness: on a line
  without faults since the last silence, every frame sent is received once and in order, for any frames,
  any checksum and any interleaving of writing and reading. `StreamInv` says that there are places on the
  line at which the frames not yet received end one after the other, the first of them partly in the
  buffer; `ParserStep` says what one more byte of a frame does to the parser in each of its states.
  `ProtocolCarriesFrames` is the refinement of `FrameLine`, and what justifies the line of whole frames in
  `FaceUnlock`: under the same invariant a parser step appends exactly the next frame sent, or nothing.
- **`FaceUnlockProofs`** (positive counts). `UnlocksApart` is not inductive: `FreshInv` says that the count
  of successes never runs ahead of the recognitions made since unlocking was allowed again, that it is zero
  while leaving is waited for, and that afterwards the cool-down is over or an empty frame was seen.
  `Apart` follows for any persons, counts and behaviour of the line. `AckInv` says that an acknowledgement
  of the current request is under way only if the lock acted on that one, and that while the unit waits
  only the current request and its acknowledgement bear the expected number; `Acknowledged` follows.
  `RequestSoon` is the safety half of `PersonOpens`: once the cool-down is over, a person who stays has the
  request sent after at most `Required + 1` runs of the heavy models, each `HeavyInterval` frames apart.
- **`AppProviderProofs`** (positive bounds). `FirstsBelong`: unless it was overtaken, a mode has at most one
  first request under way, and then it is on and has no timer. `Driven` and `NoOtherOrphans` follow, for any
  number of requests and timers, in whatever order they are answered. Two action properties are the safety
  half of `DoorLocksAfterRelease`: a mode that is off and stays off sends nothing that unlocks
  (`OffSendsNothing`), and once the door is locked and no unlocking request is under way, only the user's
  finger leads away from there (`LockedUntilTouched`); both exclude modes that ended during their first
  request, the case of `app_release`.
- **`CaptureQueueProofs`** (positive counts). `QuietInv` relates the two ways of counting quiet frames,
  `QueueInv` says that the queue is increasing and newer than what the cloud received, or begins with it,
  and `LossInv` that what is not in the cloud is queued and on the card. `QuietUploads`, `InOrder` and
  `Kept` follow, for any number of captures, attempts and restarts. `QueueIsOutbox` is the refinement of
  `Outbox`: an attempt takes the head out of the queue only in the step that has put it in the cloud.
  `UploadsSoon` is the safety half of `UploadedInTheEnd`; it needs `PicturesInv`, that what is queued is on
  the card, which `NothingLost` alone does not say of a capture the cloud already has.
- **`OneNetLinkProofs`** (`LinkAssumption`). `Order` says for each field by itself (`OrderOf`): what is on
  its way to the cloud is not older than what the cloud has and not newer than the device, and an upload in
  the publisher's hands is not older than the uploads in the pipe; of the lock this is true only after
  `SampleLock`, which is why the two samples are told apart. `InOrder` follows for any size of the pipe and
  of an upload, and `LinkIsMirror`, the refinement of `StaleMirror`: every step that changes what the cloud
  shows replaces each field by a state between the one shown and the device's. `NoLostWakeUp` is the safety
  half of `CommandsServed`: a filled pipe holds a message (`FilledByMessages`), so that whoever waits for
  room waits for a read that is enabled unless the reader itself is the one who waits, which is
  `onenet_deadlock`.

**Only model-checked:** all liveness properties and the liveness half of `KeepsContract`; every safety
property that a run checks is a theorem. Liveness under fairness and `ENABLED` are beyond the prover. Where
a theorem is called the safety half of a liveness property, it shows that nothing another thread does takes
the progress back; that the steps are taken at all is the fairness of section 4, and only TLC combines the
two. Induction over data is out of reach as well; no module uses a recursive operator, and no theorem needs
one.

**Not proved yet:** bounds of this kind for `HeldButtonOpens` (the scanning of the key), `FireModeOpens` and
`CloudConverges`, and the product of the door thread with the arm (row 10 of the plan).

## 6. What is not modelled

- Nearly all lines of the repository are the vendored kernel, drivers and packages, many of them in several
  copies, and the Flutter platform directories. Of the kernel only the semantics the firmware uses is
  modelled, where it is used: events, one-shot soft timers, queues, pipes, priorities; of the Paho and
  OneNET packages the MQTT thread's loop, its pipe and the callback.
- Image processing and neural networks, the concentration of the gas, formatting, logging.
- The monitor and the watchdog. Whether a refresh every five seconds comes within eight is a question of
  durations with three seconds of margin, and a thread that blocks for ever, as in `onenet_deadlock`, leaves
  the processor to the monitor, so that the watchdog does not notice it.
- The serial commands other than the unlock request: nothing in the face unit calls them, and what they
  would do to door, alarm and lamp is in `Calls`, `Remote` and `Callers`. `k230_start` and `k230_stop` run
  once at start-up or from the shell.
- The application's user interface, and its `MqttService`, which is never instantiated.
- Failure to allocate a kernel object at start-up, which stops the component concerned.
