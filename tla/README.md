# Verification of the Autobotz firmware

TLA+ modules for the robots of this repository: what they promise, what TLC
checks on small instances and what TLAPS proves for all of them. All paths
below are relative to the repository (`src/`).

## 1. Inventory

The repository is a collection of ESP32 sketches, most of them successive
versions of two machines: a tracked robot ("esteira") driven from a phone or by
ROS, and a manipulator with stepper motors. About 6300 of its 233,000 lines are
its own; `libraries/` is vendored, and modelled only where a sketch's behaviour
is decided there (WiFiManager's portals, the websocket server's slots).

| Component | State | Operations | Talks to | What is hard | What makes it correct |
|---|---|---|---|---|---|
| Tracked robot firmware: `testes/src/main.cpp`, and the same program for the pin based PWM API in `OTA_FreeRTOS/sketch_may28a` and `Esteira/teleop_weserver_esteira` | `sharedCmd`, `xMutexData`, the copies in `Task_Control`, the outputs | `Task_Control` every 20 ms on core 1; `webSocketEvent` and the OTA callbacks in `Task_WebServer` on core 0 | shared memory under a mutex; websocket; OTA | two cores, mutex timeouts, dropped updates, the wrap of `millis()`, OTA in the middle of an iteration | commands are taken whole; silence and stops switch the motors off in time; the half bridges exclude each other; the LED tells the truth |
| Websocket page: `html_page` in the same files | held buttons, interval timer, `currentDir`, the socket | `cmd`, `enviar`, `onOpen`, `onClose`, `initWebSocket` | websocket messages to `webSocketEvent`; the library's client slots | lost stops, reconnects, half open connections, several fingers and phones, emulated mouse events | repeats only what is held; release stops the robot; gets online again |
| HTTP page: `Esteira/Esteira_controler_twist_teleop` | the same without a socket | one request per command | `/acao` | requests overtake each other; document listeners | the robot stops in time after the last release |
| micro-ROS robot: `Esteira/Esteira_Controler_TWIST_V3`, `testes/Esteira_Controler_TWIST_V2.ino` | three volatile globals | `subscription_callback` on core 0, `Task_Control` on core 1 | shared memory without a mutex | torn reads, evaluation order | the watchdog stops the motors; mixtures do not last |
| Manipulator: `implementacao_manipulador` | `latchAtivo`, `triggerContando`, `triggerHighDesde`; the drivers' velocities | `atualizarLatch` once per `loop`; four velocity callbacks | micro-ROS agent; the supply | sampling, clock wrap, waiting for the agent | the supply goes off in time and never early |
| L298 robot: `Esteira/esteira_ota` (and `Task_Control` of the HTTP robot) | as the tracked robot, with two direction pins and an enabling PWM per motor | as the tracked robot; the web task waits for a network first. Its micro-ROS task is compiled and never created (line 428) | as the tracked robot | reversing goes through states in which old and new pins meet; `onStart` writes the same pins on the other core | a motor turns only as asked; an upload stops it |
| V1 and trials: `testes/Esteira_controler_TWIST_V1.ino`, `Esteira/microros_controle_esteira` and others | outputs only | a callback | micro-ROS | no watchdog | superseded |
| Stepper trials: `TMC2209/` | ramp velocity, two timers | `mudarVelocidade`, `loop` | UART | a step that does not divide the distance; a ramp that blocks the loop; the wrap of `millis()` | the motors stay mirrored, no jump in speed, readings and reversals in time |
| WiFi portal: `OTA_FreeRTOS/Wifi-Esp32` | which portal and which server is up, which routes it has, what was saved | `setup`, `loop`, the save callback | WiFiManager, which it drives without blocking | the network comes and goes between two readings of `WiFi.status()`; requests during a shutdown | no server is used that is not there; there is a portal whenever the network stays away, and the page whenever online |
| MPU dashboard: `MPU6050/MPU com wifi` | three angles and their timers under a mutex; two servers for port 80 | `TaskKalman` on core 0; `loop` and `handleData` on core 1 | mutex; WiFiManager's blocking portal | skipped rounds, a wait without limit, the wrap of `micros()`, who listens on port 80 | angles of one round, the true `dt`, requests answered, the port never shared |
| IMU publisher: `Esteira/teleop_esteira_novo`, `MPU9250_filter/main.cpp` | the two messages | `timer_callback` | micro-ROS | several readings of the clock, its wrap | stamps never ahead, messages in order |
| Filters and calibration: `MPU9250_filter`, `ICM20948V2_Magnetometro`, `MPU6050` | floats | numerical | I2C | numerical | out of TLC's reach |

`PROJECT.json` lists these with their sources and says which are modelled; its
`hazards` name the line where each difficulty bites.

## 2. Modules

| Module | Models | Built on |
|---|---|---|
| `MotorMath` | from a command to wheel speeds and PWM duties | |
| `CommandCell` | abstract: a whole command replaced, stopped or copied in one step | |
| `Robot` | abstract: what whoever commands the robot can count on, its tasks and outputs out of sight | |
| `Esteira` | both tasks of the tracked robot, the mutex, the outputs, OTA, time | `MotorMath`; implements `CommandCell` and `Robot` |
| `EsteiraInv` | the inductive invariant of `Esteira` | `Esteira` |
| `TwistRos` | the firmware V2/V3 without a mutex | |
| `TwistRobot` | the same, with the time since a motion was in force | `TwistRos`; implements `Robot` |
| `Teleop` | websocket pages, their connections and the server's slots | a command and its age, the part of `Robot` it needs |
| `TeleopHttp` | the HTTP page and its requests | `Robot` |
| `Manipulador` | the power latch | |
| `EsteiraL298` | the robot with L298 bridges, pin by pin, and the web task of `esteira_ota` | `MotorMath` |
| `WiFiManager` | the portals of the library, each method a function on the object's record | |
| `PortalLed` | the sketch with a page of its own on WiFiManager's server | `WiFiManager` |
| `MpuDashboard` | `TaskKalman`, `handleData`, the loss of the network and the blocking portal | `WiFiManager` |
| `RampaTMC` | the ramp, the readings and the reversals of `2tmc_stall` | |
| `ImuStamp` | the stamps of the IMU publisher | |
| `MC*` | constants for TLC; the other modules are checked directly | |
| `*_proofs` | theorems and their proofs; `HttpRobot_proofs` holds those of `EsteiraL298` and `TeleopHttp`, `WiFiManager_proofs` those of `MpuDashboard` and `PortalLed` | |

### Correspondence with the code

**Esteira.** One step is one access to something the other core can see. `ctl`
is the program counter of `Task_Control`: `take` (main.cpp:106), `readV`,
`readW`, `readTime` (107-109), `give` (110), `check` (113), `write` (114-160, one
output write per step, in the order of the branch), `delay` (162). `web` is that
of `Task_WebServer`: an event arrives in `loop`, the handler takes the mutex or
gives up (`TakeTimeout`: 5 ms, 10 ms in `onStart`), writes the fields one by one
and gives it back. `onStart` goes on to cut five outputs without the mutex;
`handle()` then stays in the upload until it fails (`OtaError`) or the board
restarts (`OtaEnd`). `P`, `P,<speed>` and unknown directions are all a stop that
is stamped; a lost client and an upload are stops that are not. The speeds are
integers of 0.01 m/s and wheel speeds of 0.0005 m/s, exact for the calibration
factor 0.95; `w` is kept as the rim speed `w * WHEEL_BASE / 2`, the only form in
which the code uses it, and float rounding is left out except at the dead band's
edge. `committed`, the two ages and `moved` are history variables that no guard reads.
`Esteira` stands for both PWM builds: with `OtaReachesPwm` FALSE the `ledcWrite`
calls of `onStart` name no attached output, which is what happens with channels.

**Robot.** `command` is the motion asked for last and `heard` the time since its
stamp; a motion is *in force* while it is no stop and not older than `WATCHDOG`.
The motors may run only if one was in force at most `REACTION` ago (`moved`), and may
stop at any time. From a silence of `FOREVER` on an old motion may count as young
again: `millis()` may have gone round. `Esteira` maps its state to it (`Machine`): the
command is the one in `sharedCmd` as the last critical section wrote it, from the
moment it is complete (`Latest`); `REACTION` is `PERIOD + 2 * EXEC`, and `FOREVER` is
`CLOCK_MOD - EXEC`, since the stamp is compared up to `EXEC` after it was copied.
`SetTime` is `Hear`, a lost client or an upload is `Halt`, an output write is `Drive`,
a tick `Elapse`, a restart `Reboot`, and every other step stutters.

**TwistRos.** As above without the mutex: each access to `target_v`, `target_w`
and `last_cmd_time` is a step; the two operands of the watchdog's subtraction may
be read in either order, since C does not say. `error_loop` blinks the LED for
ever.

**TwistRobot.** `TwistRos` with the history variable `moved` and one assumption about
time: the callback's assignments are at most `STORE` ticks apart. As a `Robot` it hears
a client with every store: `StoreV`, `StoreW` and `StoreTime` are `Hear`, of a mixture
first, and so is `Start`, of a stop. `Heard` counts from the last store, `FOREVER` is
the whole range of the tick count, `REACTION` is `PERIOD + 2 * EXEC`. A tick is
`Elapse`, an output write `Drive`, and everything else stutters.

**Teleop.** `cmd`, `enviar`, `onOpen`, `onClose`, `initWebSocket` are the page's
functions. A short touch may be followed by mouse events that the browser makes
up (no handler calls `preventDefault`). `ws` is the page's end of a connection,
`client` the robot's, and `link` the slot that serves an open socket. Either end may
go without the other. At the page that is `onClose`, which the robot may hear of
(`gone`) or never (still `connected`). At the robot it is `dropped`
(`WebSocketsServer.cpp:618-624`) or a `restart` of the ESP32: the page's socket stays
open, what it sends is lost, and it learns of that when a reset answers what it sent
(`found`). What an old connection still has under way may arrive after a new
connection's messages. The mutex timeout is `textDropped` and the second outcome
of `disconnect`. The slot handling follows
`libraries/WebSockets/src/WebSocketsServer.cpp:440-455` and `609-658`.

**TeleopHttp.** A request sits on a connection until it is handled or lost,
`DELAY` ticks at most, in any order. A direction is sent by the interval only. The
robot is `Robot`: `/acao` is its `Hear`, in one step, and `Follow` is what the motors do
about it. The firmware of this page
(`Esteira_controler_twist_teleop.ino:117-161` and `278-283`) has the sections, the
watchdog and the period of the one `Esteira` models, with other pins behind them, and
only `/acao` writes its command (its micro-ROS task is commented out).

**Manipulador.** The five branches of `atualizarLatch` are five actions that
share `Sample`, which takes the rest of the iteration as time, 1 to `LOOP` ticks.

**EsteiraL298.** `Sample` is one iteration's mutex section, `Check` the watchdog,
`Write` one pin in the order of the branch; `CutOutput` is one pin of `onStart` on
the other core. What the sections do to each other is shown once, in `Esteira`;
here a section is a step and a dropped update none. Time is only whether the
stamps in `sharedCmd` and in the copy are still fresh. `RIM` is the rim speed of a turn
in 160ths of its speed: 160 where the page divides by half the track
(`Esteira_controler_twist_teleop`), 17 where `w` is the speed itself (`esteira_ota`).
`OtaEnd`, here and in `Esteira`, is `setup` run again: `onEnd` only logs.

**WiFiManager.** The object and the radio are one record (`Portals`); a method is a
function from the record before the call to the one after, in the order of the
code, so that what `loop()` does with `connect`, `abort`, the two portals, the
server, the DNS server and the station can be followed. What a call cannot know
(the request that is waiting, whether the network takes the credentials, whether
the time is over) is its argument. `BLOCKING` and `SAVE_ADDS_ROUTES` are the two
settings in which the sketches differ. A null server or DNS server sets `fault`.
The network is there or not as the radio pleases; whether the station is idle
after a shutdown, and so reconnects, is modelled both ways.

**PortalLed.** `place` is where `loop()` is: `process` (wifi.ino:53), `check` (55),
`open` (56), `reopen` (59-63); `LedAssociate` and `LedLose` are the radio, between
any two of them. Names with `Led` here and with `Http` in `TeleopHttp` are the parts of
a specification (`LedInit`, `LedNext`): they let one module extend two specifications
and hold the proofs of both.

**MpuDashboard.** Core 1 is `setup`, `loop` and, within it, `handleData` with its
three reads; core 0 is `TaskKalman` with one step per sensor's measurement and one
for its results. The Kalman library is not in the repository: an angle stands for
how many samples went into it, modulo two, which tells one round from the next.
`dt` is a difference of doubles, not an unsigned one. A blocking portal is left
only by a restart, in both sketches' setting: by the callback, by an exit, or from
its pages.

**RampaTMC.** One VACTUAL is a step, taken when its datagram has gone out, up to
`WRITE` ticks after it was begun (115200 baud); `mudarVelocidade` is called by `setup`
and by `loop` (`caller`), and only `loop` takes the time afterwards. The delays take
`DELAY`, the UART reads of `loop` and its logging up to `LOOP`.

**ImuStamp.** Each reading of `millis()` is a step and time passes between any two
of them. `MPU9250_filter/main.cpp` is the same program.

Definitions marked `Mutant:` are plausible bugs, used to check that each property
can fail; they belong to no specification.

## 3. What TLC checks

| Run | Properties | Shows |
|---|---|---|
| `timing` | `WatchdogStops` `NeverBothBridges` `NoSpuriousTrip` `ActsAsRobot` | time bounds of the tracked robot and its refinement of `Robot`, clock wrapping; reversals while `onStart` cuts the same bridge |
| `motion` | `FollowsSample` `LedTellsTruth` `AtomicCommands` `StopLeadsToRest` `SilenceLeadsToRest` | outputs for every kind of motion; refinement of `CommandCell`; the robot comes to rest |
| `twist` | `WatchdogStops` `MixtureHeals` `TripsExplained` `ActsAsRobot` | what remains true without a mutex, duties and direction pins included; the same `Robot` as with one |
| `teleop` | `RepeatsOnlyWhatIsHeld` `LastWord` `SentIsHeld` `ReleaseStops` `HoldDrives` `OnlineWhileAvailable` | the page with fingers, mouse and connections that either end loses; the dead man's switch, end to end; whose messages a slot carries and which comes last; reconnection |
| `teleop_http` | `StopsAfterRelease` | overtaking requests, from the finger to the motors |
| `latch` | `PowerOffInTime` `NoEarlyPowerOff` | the power latch |
| `l298` | `TurnsAsAsked` `FollowsSample` `UploadLeadsToRest` | pins and duties written one by one, on two cores |
| `portal` | `ServersExist` `NeverDark` `NoStaleSave` `OfflineLeadsToPortal` `OnlineLeadsToPage` | two portals, one server, and a network that comes and goes |
| `dashboard` | `OneRound` `PortFree` `DtIsElapsed` `DataAnswered` | two cores, two servers, a clock that goes round |
| `ramp` | `Mirrored` `Gentle` `NoEarlyReversal` `ReadInTime` | the ramp and the timers it holds up |
| `stamp` | `NeverAhead` `InOrder` | stamps made of two readings |
| `ota_pin` | `UploadFindsMotorsCut` (violated) | `onStart` against `Task_Control` |

`ota_pin` ends in a violation of "SEGURANÇA: Corta os motores físicos no L298N e no
BTS7960" (`OTA_FreeRTOS/sketch_may28a/sketch_may28a.ino:371`): `Task_Control` writes
a duty it computed before the cut, and the upload goes on with that motor driven
until the next iteration. What does hold is `StopLeadsToRest` and, for the L298
robot, `UploadLeadsToRest`.

The properties stop short of some other sentences, which the models show not to
hold in general:

- `WatchdogStops` ends when `millis()` has gone round since the last command:
  after 49.7 days of silence a stale motion counts as fresh again for 500 ms.
- `MixtureHeals` instead of whole twists: in V2/V3 a wheel may follow the v of one
  twist and the w of another for an iteration, volatile or not. It is about the duty
  and both direction pins of each wheel: with saturated duties a mixture may have
  the right duty and the wrong sense.
- `StopsAfterRelease` counts a button as held until `mouseup`. The HTTP page's
  comment says that leaving the button ends the loop too; nothing listens for it.
  And any `touchend`, of a finger on the slider for one, ends the loop of a button
  that is still held.
- `NoEarlyPowerOff` is about samples: a dip between two samples goes unseen. And
  "Se ficar HIGH por 3s contínuos" (`1encoder_init_4tmc_microros.ino:31`) needs
  somebody who samples: while `setup` waits for the agent (line 149), nobody does.
  `PowerOffInTime` is about `loop`.
- With the channel based PWM (`testes/src/main.cpp:384-385`) the same cut passes
  pins where channels are expected and reaches no output. `motion` runs with
  `OtaReachesPwm` FALSE: everything it checks holds without the cut. `timing` runs with
  TRUE: everything it checks holds although the cut may come between any two writes.
- "Sem sinal do ROS!" (`Esteira_Controler_TWIST_V3.ino:105`) may be printed although
  the node is talking, when a twist is stamped between the check's two reads and
  the difference wraps. `TripsExplained` says that there is no other such case.
- "OFFLINE - Reconectando..." (`testes/src/main.cpp:264`) may stay for ever: slots of
  half open connections are not freed without a heartbeat, and five of them lock
  everybody out. `OnlineWhileAvailable` asks for a slot that stays available. And
  "ONLINE" may stay on a page whose connection the robot has ended, for as long as
  no button is held: nothing is sent, and nothing answers.
- "seguirá tentando" (`OTA_FreeRTOS/Wifi-Esp32/OTA.h:31`): a station that is not
  connected is switched off when the configuration portal opens, and comes back
  only when it closes; the same iteration of `loop` that closes it opens the next
  one. `NeverDark` says that a station that does not try has a portal, which is less.
- The web portal and the configuration portal are "mutually exclusive"
  (`WiFiManager.h:771`) only for a sketch that uses one of them; `PortalLed` opens the
  second over the first. `ServersExist` says what remains: one server, no null
  pointer.
- `OnlineLeadsToPage` does not count routes. Every save adds them again, and when
  the station gets online while only the configuration portal is open, every
  iteration does ("SITE REABERTO"), until the portal closes; the heap that takes is
  not modelled.
- `NoStaleSave` is about `connect`, which saves. An exit sets `abort` in the same
  place; it is looked at an iteration later, so that an open portal may rightly
  have it set. And it holds at a price: a save that arrives in the last look at the
  requests during a shutdown is lost. And wrong credentials replace the stored ones
  before they are tried.
- `DtIsElapsed` excepts the first sample after `micros()` has gone round (71.6
  minutes), whose `dt` is negative because `timer` is a double. The time between
  the two readings of `micros()` in one sample is in no `dt`.
- `NoEarlyReversal` is about the reversals after the first, which is 5 s after
  boot: the ramp of `setup` does not set the timer.
- `NeverAhead` and `InOrder` leave a stamp that is torn by a full second one second
  back, and except the wrap of `millis()` (49.7 days).
- `DataAnswered` speaks of the mutex. A short loss of the network ends the
  dashboard until somebody uses the portal, which has no time-out.

### Bounds

- *Time.* Only the order of the constants matters to the code: a timeout longer
  than an iteration, a clock longer than both. `WATCHDOG = 2`, `PERIOD = 1`,
  `EXEC = 1`, clock 7 is the smallest instance in which an iteration may take
  time, the timeout spans a period and the clock goes round with a stamp of
  every age. In `motion` time only has to pass: `WATCHDOG = 1`, `EXEC = 0`, clock 3.
  An age of a full turn of the clock counts as such from then on.
- *Commands.* `motion` has a straight motion, a turn and stop, at 0.01 m/s (both
  wheels in the dead band) and 0.40 m/s (clipped). `timing` has straight on, straight
  back and stop: every reversal of a half bridge under the cut; its time bounds do not
  depend on which motion it is. The other directions are the `l298` run's. The twists of
  `twist` are rest, straight on (at saturated duties) and turning, of which every
  mixture is a motion none of them is, one of them with the right duty and the wrong
  sense on a wheel. `STORE = 1`: a tick may come between any two stores.
- *Teleop.* One page, two directions (two fingers, or a finger and the mouse, on
  different buttons), two slots (an old and a new connection), two messages under
  way. The robot moves until the next tick (`WATCHDOG = 0`): how long it moves on
  is the business of `timing`. Pages meet only in the robot and the slots; one
  page's own old connections, which to the robot are other clients, are enough to
  take both slots (five in the library). What two open pages do to each other is
  left to the theorems, for the three safety properties.
- *TeleopHttp.* Three connections let a direction overtake a stop while the
  interval sends another; they are symmetric. `REACTION` 1 and `FOREVER` 6: the model
  ends before a silence of `FOREVER`, and 6 is more than the longest run-on, so that
  everything the bound is about has happened by then. The bound of
  `StopsAfterRelease` is tight in the instance.
- *Manipulador.* A hold time of 4 ticks with loops of 1 or 2 and a clock of 9.
- *EsteiraL298.* All four directions and rest, at 0.01 m/s (both wheels in the dead
  band) and 1.00 m/s (clipped): every sense of either motor before every other one.
  `RIM` is `esteira_ota`'s; the theorems hold for both.
- *PortalLed.* No bound: the record is finite and the run exhausts it.
- *MpuDashboard.* Three sensors, as in the sketch, any of them missing; a clock of 3,
  so that rounds are skipped across its wrap.
- *RampaTMC.* Target 4 and step 3: the step divides neither the first ramp nor the
  reversal, which steps past the target. Writes and tasks of `loop` of 0 or 1 tick,
  delays of 1: a ramp takes at most `RampTime`, 11 ticks. `LEITURA` 3 is shorter than a
  ramp, `INVERSAO` 12 longer, and the clock of 29 goes round at every place of a ramp.
- *ImuStamp.* Seconds of 4 ticks, callbacks of up to 2, and a clock of 11, no
  multiple of a second, as 2^32 ms is none.

`CHECK_DEADLOCK` is never off: no model stops.

### Fairness

- *Esteira*: weak fairness of both tasks and of time, strong fairness of
  `TakeControl`. FreeRTOS hands the mutex to the waiting `Task_Control`, which has
  the higher priority and its core to itself, while `Task_WebServer` sleeps 2 ms
  in every loop. Nothing is assumed of clients or uploads.
- *Teleop*: time, the browser's timers and its made up events, and the server's
  look at each slot are weakly fair (they run unasked); connecting and taking the
  mutex for a message are strongly fair, as both may fail any number of times but
  not always. A page that goes on sending on a connection the robot has ended loses
  its socket (`found`, weak): TCP answers with a reset or gives up. Nothing is assumed of
  users, of how often connections are lost or the robot restarts, nor that the
  robot ever notices a half open connection.
- *EsteiraL298*: both tasks and the expiry of stamps, weakly. No upload has to end.
- *PortalLed*: `loop` and a station that tries a network with the right credentials
  (weak), and the time-out of a portal (strong: every request restarts the time, but
  nobody clicks for ever). Nothing is assumed of the network's staying, of saves or
  of exits.
- *MpuDashboard*: both cores (weak) and `TakeData` (strong): the mutex is handed to
  the waiting core, and `TaskKalman` sleeps 10 ms before it asks again.
- The other specifications have safety properties only and state no fairness.

### Timing assumption

`EXEC` bounds one iteration of `Task_Control`, its wait for the mutex included:
the server holds the mutex for three assignments. It is at most the watchdog's
time. `STORE` (`TwistRobot` only) bounds the time between two assignments of the
callback of V2/V3, which are next to each other in the code; it too is at most the
watchdog's time. The other properties of `twist` do not need it. Flash writes of an upload stall both cores in reality; an upload that stalls
an iteration for longer than `EXEC` is outside the model.

## 4. What is proved

For every value of the constants that satisfies the modules' assumptions:

- `Esteira_proofs`: `DutyRange` (every duty is 0 or in `MIN_PWM .. MAX_PWM`), `TypeCorrect`, `Invariance`, and from it `BridgesSafe`,
  `WatchdogBound`, `StopBound`, `SampleFollowed`, `LedTruth`, `TripsJustified`
  and the two refinements `CommandsAtomic` (`Spec => Cell!Spec`) and
  `RobotImplemented` (`Spec => Machine!RobotSpec`).
- `Teleop_proofs`: `RepeatsHeld`, `LastWordCounts` and `OnlyHeldIsSent`, for any number
  of pages, buttons and slots and any `INFLIGHT` and `WATCHDOG`.
- `Manipulador_proofs`: `PowerOff` and `NotEarly`, for every hold time, loop
  length and width of the clock.
- `TwistRos_proofs`: `WatchdogBound`, `MixturesHeal` and `TripsHaveReason`, for every
  set of twists, timeout, period and clock, and the refinement `RobotImplemented`
  (`TimedSpec => Machine!RobotSpec`), for stores at most
  `WATCHDOG_TIMEOUT_TICKS` apart. `TimedRefines` (`TimedSpec => Spec`) carries the others
  over to the specification the run checks.
- `HttpRobot_proofs`: of `EsteiraL298`, `SensesAsAsked` and `SampleFollowed`, for every
  set of speeds; of `TeleopHttp`, `ReleaseBound`, for any number of connections and
  buttons and any robot that implements `Robot`; and of `Robot` itself, `RobotPromises`:
  the motors are off in time after a stop and after silence, whoever implements it.
- `WiFiManager_proofs`: `ResponsesOfOneRound`, `PortNeverShared` and `DtRight` of
  `MpuDashboard`, for any number of sensors and width of the clock; and
  `LedServersExist`, `LedNeverDark` and `LedNoStaleSave` of `PortalLed`, for a blocking portal or not, with or without a callback that
  adds routes.
- `RampaTMC_proofs`: `MotorsMirrored`, `GentleSteps` and `ReversalsSpaced`, for every
  target, step, delay, length of a write and clock; `ReadingsInTime` if `millis()` takes longer to go
  round than a ramp and a reading (`Longest < CLOCK_MOD`).
- `ImuStamp_proofs`: `StampsNeverAhead` and `MessagesInOrder`, for every length of a
  second and width of the clock.

Each of these specifications has its type invariant proved too (`TypeCorrect`,
`HttpTypeCorrect`, `LedTypeCorrect`), so that no run checks one.

**The argument of `Esteira_proofs`.** None of the properties is inductive: each
speaks of the places where something can be observed. `EsteiraInv!Inv` says the
same of every program point. `MutexInv` ties the holder to the program counters;
`CopyInv` follows: inside the control task's section the fields copied so far are
the fields of `sharedCmd`. `AgeInv` says that the unsigned subtraction is the real
age until the clock has gone round, `TimerInv` and `FreshInv` how old a copied
stamp can be. `WrittenInv` says which outputs are as the iteration decided, or
cut by `onStart` since, and gives the half bridges and the LED. `WatchdogInv` and
`MovedInv` count what is left of the iteration and the delay, and become the time
bounds. `MotionInv` says that only motions somebody asked for are in the cell.
Each part has a lemma of its own, on the parts before it.

`MovedInv` is about what an iteration holds in its copies while the cell moves on.
When it gives the mutex back, the copied motion is the latest one and its age is the
real one, so that passing the watchdog means that the motion is in force, unless
`millis()` will have gone round by the check; that is what `Forever` leaves out. From
then on `moved` grows no faster than `timer` falls. `StopIsObeyed` thus counts from
the moment a motion was last in force, not only from a stop: a stop that comes when
the watchdog has tripped renews nothing.

**Esteira as a Robot.** `NextLatest` says what each step does to the motion asked for
last: only `SetTime` brings one, only the end of a section without a stamp takes it
away, and giving the mutex back changes nothing. `NextInForce` adds that without a
stamp and without time nothing comes into force. `NextMachine` then maps the steps;
`StopIsObeyed` after the step is the guard of `Drive` and of `Elapse`.

**Teleop.** `HeldInv` is `RepeatsOnlyWhatIsHeld` of directions: it is inductive because
whatever lets go of a button, the made up events included, clears the interval, even
if another button is still held. `LastInv` is `LastWord`. It needs `SlotsAreOwn`, which is
internal to the proof: a page that is served has a connected slot to itself, or
another page would have the last word, and a slot that is free is empty, or what was
under way on an earlier connection would be. Both ends keep it: `SlotGivenUp` is
for the page that leaves its slot (`onClose`, `onLoad`), `ServerEndStep` and `RestartStep` for the
robot that takes it away, `OpenStep` for the slot that is given again. `SentIsHeld` then
follows step by step: `EnviarEffect` says that `enviar` puts one word on one channel,
`CmdEffect` and `HandlerEffect` that a handler sends the direction of a button it has
just found held, and `RepeatStep` takes `HeldInv`. `SentIsHeld` is the safety half of
`ReleaseStops`: once every button is released, what is under way can only shrink. The
instance of `teleop` has one page; that other pages change nothing is what the
theorems add.

**TeleopHttp.** The interval runs only while a button is held; so a motion under
way is no younger than the time since the last release, and a motion that is in force
arrived at most `DELAY` later (`CommandInv`). `MotorsInv` adds the time the motors
follow it: `moved` starts again only while that holds. With `RobotImplemented` this is
one chain from the finger to the outputs: `REACTION` there is `Reaction` here.

**Manipulador.** Unseen HIGH lasts at most the time since the last sample; while
counting, the clock's distance to `triggerHighDesde` is the real age, because a
count ends long before the clock has gone round.

**TwistRos.** `StampInv` says that the tick's distance to the stamp is the real
silence until the clock has gone round; `CheckInv` bounds what the two reads of the
check can differ from it by, and `QuietInv` remembers the longest silence of the
check: with them a difference over the timeout is silence or a wrap caused by a
stamp in between. `WatchdogInv` counts what is left of the iteration for every write
still to be made. For `MixtureHeals`, `SeenInv` says that the velocities an iteration
reads for the wheels are the stored ones if they have not changed since it began, and
`MixInv` that it is then cutting or driving. `Cutting`: it writes the duties before the
direction pins, so that a motor is off before its sense changes. `Driving`: every pin is as
the stored twist asks or still to be written, the duties after the direction pins. When
nothing is left to write, each motor is off or as asked (`Following`), which the next iteration keeps.

**TwistRos as a Robot.** No mutex keeps a motion in force while an iteration reads it,
so the argument is about when each value was read. `ForcedInv`: a stored motion that is
too old was in force until it became so. An iteration that passed the check did so no
longer ago than it has lasted (`PassesRecent`), so that any motion it can still read was
in force since it began (`ReadForced`): if the check saw the old stamp, that motion was
young then; if a store came since, it is young now. `ReadingInv` keeps this for what has
been read, velocity by velocity, and `DriveInv` for the writes: if all four velocities
are 0 the iteration halts the motors as a trip does (`DecideHalts`, `Halting`). Half
a twist needs `StoringInv`: between two stores the stamp is the old one, and might
be from before the ticks went round.

**EsteiraL298.** `WrittenInv`: the pins the iteration has written hold its targets,
unless `onStart` wrote since. `SenseInv`: a direction pin is HIGH only if the
iteration that governs it, this one once it has written the pin and the one before
until then, wanted that sense; `onStart` only lowers pins, so that the other core
cannot break it.

**MpuDashboard.** `MutexInv` ties the holder to the two program counters. `RoundInv`:
the angles of present sensors agree, except that within a round those before `cur`
are one sample ahead; `GotInv`: what `handleData` has read are today's angles. `DtInv`
is the only part about the clock.

**WiFiManager.** `Whole` says of the record that the web server is there for the
portals that are open and for no other, the DNS server for the configuration portal,
and that no null pointer was used. A portal that is being served or shut down is only
`Serving`; a lemma for each operator (`RequestKeeps`, `ConnectKeeps`, `FailureKeeps`,
`RoutesKeep`, `ShutdownCloses`, `ProcessKeeps`, `OpenKeeps`, `OpenWebKeeps`,
`BootKeeps`) says which of the two it keeps or restores, and both sketches' steps
follow from them. For the dashboard `PortalInv` adds which places of `loop` have a
portal. For `PortalLed`, `FreshInv` drops the program counter from `NoStaleSave`, and
`DarkInv` adds to `NeverDark` the place after `startConfigPortal`: the check sends
every station that is not connected there, so that being off without a portal is
confined to `check` and `open`.

**RampaTMC.** `RampInv` says at every place of a ramp which drivers have had `v`, and
that `v` is within a step of the target. `ReversalInv` relates the clock, the time
the loop read and the timer, across the wrap. `BudgetInv` gives each place of a ramp
the ticks it can still take, writes and delays for the speeds that are left, so that
`ReadingInv` (the distance is the real age) holds.

**ImuStamp.** `ReadInv` says what the fields of a stamp were read from, `OpenInv` that
the two readings are at most `SPREAD` apart, `SentInv` and `NextInv` that the last
message is older than the clock and the next reading until the clock goes round.

Only model-checked: liveness (`StopLeadsToRest` and `SilenceLeadsToRest`,
`UploadLeadsToRest`, `ReleaseStops`, `HoldDrives` and `OnlineWhileAvailable`,
`OfflineLeadsToPortal` and `OnlineLeadsToPage`, `DataAnswered`), which is out of the
prover's reach. Every invariant and action property that a passing run checks is a
theorem. `StopIsObeyed` of `Esteira` is proved and not run by itself: it is the guard
that `ActsAsRobot` checks at every output write and every tick.

## 5. Not modelled, and why

- The vendored libraries, but for the portals of WiFiManager and the slots of the
  websocket server. They are 97% of the repository's lines, and most of them are
  drivers, generated message headers and examples no sketch here uses.
- The filters and calibration: floating point, whose correctness is numerical.
- V1 and the first trials (superseded, one task, no state), the traffic light and
  other exercises, the two TMC2209 sketches that only set registers.
- The manipulator's encoder and velocity callbacks: they pass a value through. They
  have no watchdog, and the drivers keep their VACTUAL across a reset of the ESP32
  alone: a hazard that no property can state, as nothing stops them by design.
- Within the modelled parts: logs and their wording, the look of the pages, the
  slider's value, the blink interval of `PortalLed`, the start-up of the web tasks of
  the robots in access point mode, reading and scaling of sensors. `touchcancel`, for
  which the page has no handler: to the model the finger is still down, and the
  page repeats its direction until the next `touchend`, so that `Teleop`'s properties
  hold of what the page was told, as its variable `fingers` says. In `Esteira` a half open
  connection is simply one whose `Disconnected` never comes.

## 6. Plan

Done: the tracked robot with its refinement and proofs, the two remote controls,
V2/V3 with its proofs and as a `Robot`, the power latch, the L298 robot, the WiFi portal, the
dashboard, the ramp and the stamps. Next, in this order:

1. `Robot` as the robot of `Teleop` too, whose `Moving` is `Robot`'s `InForce`: its
   three liveness properties then speak of the motors.
2. `ManipuladorMotores`: velocity commands without a watchdog, next to V1.
3. `Semaforo`: never two greens, and every lamp returns.
