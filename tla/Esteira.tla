------------------------------ MODULE Esteira ------------------------------
(***************************************************************************)
(* The firmware of the tracked robot: Task_Control (core 1) turns the      *)
(* command in sharedCmd into PWM every PERIOD, Task_WebServer (core 0)     *)
(* turns websocket and OTA events into sharedCmd, and xMutexData keeps     *)
(* them apart.  One step is one access to shared state: a field of         *)
(* sharedCmd, the mutex, the clock or an output pin.                       *)
(*                                                                         *)
(* Time is discrete.  Tick is one unit of millis(), whose counter wraps at *)
(* CLOCK_MOD (2^32 ms in the code).  The ages are history variables: they  *)
(* count real elapsed ticks and nothing the firmware does reads them.      *)
(***************************************************************************)
EXTENDS MotorMath

CONSTANTS
    Directions,            \* the direction words clients send, "P" for stop
    Speeds,                \* the speeds clients send, in 0.01 m/s
    CLOCK_MOD,             \* the number of values of millis()
    WATCHDOG_TIMEOUT_MS,
    PERIOD,                \* the vTaskDelay of Task_Control
    EXEC,                  \* the longest an iteration of Task_Control takes,
                           \* its wait for the mutex included
    OtaReachesPwm          \* whether the ledcWrite calls of onStart name the
                           \* attached PWM outputs: by pin (core 3) they do,
                           \* by channel number (core 2) they do not

ASSUME EsteiraAssumption ==
    /\ Speeds \subseteq Int
    /\ CLOCK_MOD \in Nat
    /\ WATCHDOG_TIMEOUT_MS \in Nat
    /\ PERIOD \in Nat \ {0}
    /\ EXEC \in Nat
    /\ EXEC <= WATCHDOG_TIMEOUT_MS
    /\ WATCHDOG_TIMEOUT_MS + PERIOD + 2 * EXEC < CLOCK_MOD
    /\ OtaReachesPwm \in BOOLEAN

VARIABLES
    clock,        \* millis()
    sharedCmd,    \* the RobotCommand both tasks share
    mutex,        \* the holder of xMutexData: "none", "control" or "web"
    out,          \* the level or duty on each output
    ctl,          \* where Task_Control is
    step,         \* the next output write of the iteration, 1..6
    branch,       \* the branch of this iteration: "drive" or "trip"
    timer,        \* ticks left of the delay, or of the iteration's EXEC
    v_local, w_local, time_local,
    web,          \* where Task_WebServer is
    job,          \* what its current critical section writes
    cut,          \* the next output write of onStart, 1..5
    committed,    \* history: sharedCmd as the last critical section left it
    heardAge,     \* history: ticks since last_update was set
    readAge,      \* history: ticks since the stamp in time_local was set
    moved         \* history: ticks since a motion was in force

shared  == <<sharedCmd, mutex, committed>>
locals  == <<v_local, w_local, time_local>>
ages    == <<heardAge, readAge, moved>>
control == <<ctl, step, branch, timer, locals>>
server  == <<web, job, cut>>
vars    == <<clock, out, shared, control, server, ages>>

----------------------------------------------------------------------------
(* Data *)

Pins    == {"LEFT", "RPWM", "LPWM", "IN1", "IN2", "LED"}
PwmPins == {"LEFT", "RPWM", "LPWM"}

Rest == [v |-> 0, w |-> 0]

\* Any direction but these four is a stop: the page sends "P,<speed>".
Motion(dir, speed) ==
    [v |-> IF dir = "F" THEN speed ELSE IF dir = "T" THEN -speed ELSE 0,
     w |-> IF dir = "E" THEN speed ELSE IF dir = "D" THEN -speed ELSE 0]

Motions == {Rest} \cup {Motion(d, s) : d \in Directions, s \in Speeds}

NoJob == [motion |-> Rest, by |-> "text"]

Asked(c) == [v |-> c.v, w |-> c.w]

\* Mutant: the distance between two readings, whichever is larger.
ElapsedUnwrapped(now, last) == Magnitude(now - last)

\* millis() - last in unsigned arithmetic.
Elapsed(now, last) ==
    IF now >= last THEN now - last ELSE now - last + CLOCK_MOD

\* An age beyond CLOCK_MOD is as good as CLOCK_MOD.
Older(age) == IF age < CLOCK_MOD THEN age + 1 ELSE age

\* The longest an output survives the decision it comes from: the rest of its
\* iteration, the delay, and the iteration that decides otherwise.
Reaction == PERIOD + 2 * EXEC

\* The motion asked for last: of a section that only has to give the mutex back,
\* or else the committed one.
Latest == IF web = "give" THEN Asked(sharedCmd) ELSE Asked(committed)

\* From this silence on millis() may have gone round when the watchdog looks.
Forever == CLOCK_MOD - EXEC

\* The motion asked for last is one, and is not too old.
InForce == /\ Latest # Rest
           /\ heardAge <= WATCHDOG_TIMEOUT_MS \/ heardAge >= Forever

Energised == \E p \in PwmPins : out[p] > 0

----------------------------------------------------------------------------
(* What an iteration of Task_Control writes, and in which order *)

\* Mutant: the LED is dark if either speed is zero.
LedLevelEither(v, w) == IF v = 0 \/ w = 0 THEN 0 ELSE 1

LedLevel(v, w) == IF v = 0 /\ w = 0 THEN 0 ELSE 1

DriveTarget(v, w) ==
    LET left  == v_left(v, w)
        right == v_right(v, w)
    IN [LED  |-> LedLevel(v, w),
        IN1  |-> IF left > 0 THEN 1 ELSE 0,
        IN2  |-> IF left < 0 THEN 1 ELSE 0,
        LEFT |-> calculate_pwm_with_deadband(left),
        RPWM |-> IF right > 0 THEN calculate_pwm_with_deadband(right) ELSE 0,
        LPWM |-> IF right < 0 THEN calculate_pwm_with_deadband(right) ELSE 0]

Target == IF branch = "trip"
          THEN [p \in Pins |-> 0]
          ELSE DriveTarget(v_local, w_local)

\* Mutant: the other half bridge is switched on first.
DriveOrderOnFirst(v, w) ==
    IF v_right(v, w) > 0
    THEN <<"LED", "IN1", "IN2", "LEFT", "RPWM", "LPWM">>
    ELSE <<"LED", "IN1", "IN2", "LEFT", "LPWM", "RPWM">>

\* The BTS7960 half bridge that must be off is switched off first.
DriveOrder(v, w) ==
    IF v_right(v, w) > 0
    THEN <<"LED", "IN1", "IN2", "LEFT", "LPWM", "RPWM">>
    ELSE <<"LED", "IN1", "IN2", "LEFT", "RPWM", "LPWM">>

Order == IF branch = "trip"
         THEN <<"LEFT", "RPWM", "LPWM", "IN1", "IN2", "LED">>
         ELSE DriveOrder(v_local, w_local)

CutOrder == <<"LEFT", "RPWM", "LPWM", "IN1", "IN2">>

----------------------------------------------------------------------------
Init == /\ clock = 0
        /\ sharedCmd = [v |-> 0, w |-> 0, last_update |-> 0]
        /\ mutex = "none"
        /\ committed = sharedCmd
        /\ out = [p \in Pins |-> 0]
        /\ ctl = "take" /\ step = 1 /\ branch = "drive" /\ timer = EXEC
        /\ v_local = 0 /\ w_local = 0 /\ time_local = 0
        /\ web = "loop" /\ job = NoJob /\ cut = 1
        /\ heardAge = 0 /\ readAge = 0 /\ moved = Reaction + 1

----------------------------------------------------------------------------
(* Task_Control *)

\* vTaskDelay returns and the loop starts over.
Wake == /\ ctl = "delay" /\ timer = 0
        /\ ctl' = "take" /\ timer' = EXEC
        /\ UNCHANGED <<clock, out, shared, step, branch, locals, server, ages>>

\* Mutant: Task_Control does not wait for a busy mutex.
TakeControlNoWait ==
    /\ ctl = "take"
    /\ IF mutex = "none"
       THEN ctl' = "readV" /\ mutex' = "control"
       ELSE ctl' = "check" /\ mutex' = mutex
    /\ UNCHANGED <<clock, out, sharedCmd, committed, step, branch, timer, locals,
                   server, ages>>

TakeControl == /\ ctl = "take" /\ mutex = "none"
               /\ ctl' = "readV" /\ mutex' = "control"
               /\ UNCHANGED <<clock, out, sharedCmd, committed, step, branch,
                              timer, locals, server, ages>>

ReadV == /\ ctl = "readV"
         /\ ctl' = "readW" /\ v_local' = sharedCmd.v
         /\ UNCHANGED <<clock, out, shared, step, branch, timer, w_local,
                        time_local, server, ages>>

ReadW == /\ ctl = "readW"
         /\ ctl' = "readTime" /\ w_local' = sharedCmd.w
         /\ UNCHANGED <<clock, out, shared, step, branch, timer, v_local,
                        time_local, server, ages>>

ReadTime == /\ ctl = "readTime"
            /\ ctl' = "give" /\ time_local' = sharedCmd.last_update
            /\ readAge' = heardAge
            /\ UNCHANGED <<clock, out, shared, step, branch, timer, v_local,
                           w_local, server, heardAge, moved>>

GiveControl == /\ ctl = "give"
               /\ ctl' = "check" /\ mutex' = "none"
               /\ UNCHANGED <<clock, out, sharedCmd, committed, step, branch,
                              timer, locals, server, ages>>

\* Mutant: the subtraction is signed.
CheckSigned == /\ ctl = "check"
               /\ ctl' = "write"
               /\ branch' = IF clock - time_local > WATCHDOG_TIMEOUT_MS
                            THEN "trip" ELSE "drive"
               /\ UNCHANGED <<clock, out, shared, step, timer, locals, server,
                              ages>>

\* The watchdog: millis() is read here, after the mutex is back.
Check == /\ ctl = "check"
         /\ ctl' = "write"
         /\ branch' = IF Elapsed(clock, time_local) > WATCHDOG_TIMEOUT_MS
                      THEN "trip" ELSE "drive"
         /\ UNCHANGED <<clock, out, shared, step, timer, locals, server, ages>>

WriteOutput == /\ ctl = "write" /\ step <= 6
               /\ out' = [out EXCEPT ![Order[step]] = Target[Order[step]]]
               /\ step' = step + 1
               /\ UNCHANGED <<clock, shared, ctl, branch, timer, locals,
                              server, ages>>

\* Mutant: the last write of an iteration may be left out.
SleepEarly == /\ ctl = "write" /\ step >= 6
              /\ ctl' = "delay" /\ timer' = PERIOD /\ step' = 1
              /\ UNCHANGED <<clock, out, shared, branch, locals, server, ages>>

Sleep == /\ ctl = "write" /\ step = 7
         /\ ctl' = "delay" /\ timer' = PERIOD /\ step' = 1
         /\ UNCHANGED <<clock, out, shared, branch, locals, server, ages>>

Control == \/ Wake \/ TakeControl \/ ReadV \/ ReadW \/ ReadTime
           \/ GiveControl \/ Check \/ WriteOutput \/ Sleep

----------------------------------------------------------------------------
(* Task_WebServer: an event arrives, then the handler runs to its end *)

Event(motion, by) == /\ web = "loop"
                     /\ web' = "take" /\ job' = [motion |-> motion, by |-> by]
                     /\ UNCHANGED <<clock, out, shared, control, cut, ages>>

\* A text message from any client, "<direction>,<speed>" or a bare "P".
Text == \E d \in Directions, s \in Speeds : Event(Motion(d, s), "text")

\* Any client's connection is gone: both speeds to zero, no new stamp.
Disconnected == Event(Rest, "disconnected")

\* An upload begins; handle() stays in it until it ends, so that no other
\* event is served meanwhile.
OtaStart == Event(Rest, "ota")

AfterSection == IF job.by = "ota" THEN "cut" ELSE "loop"

TakeWeb == /\ web = "take" /\ mutex = "none"
           /\ web' = "setV" /\ mutex' = "web"
           /\ UNCHANGED <<clock, out, sharedCmd, committed, control, job, cut,
                          ages>>

\* Mutant: the result of xSemaphoreTake is not looked at.
TakeTimeoutIgnored == /\ web = "take" /\ mutex = "control"
                      /\ web' = "setV"
                      /\ UNCHANGED <<clock, out, shared, control, job, cut, ages>>

\* The 5 ms (10 ms in onStart) wait runs out: the update is dropped.
TakeTimeout == /\ web = "take" /\ mutex = "control"
               /\ web' = AfterSection /\ job' = NoJob
               /\ UNCHANGED <<clock, out, shared, control, cut, ages>>

SetV == /\ web = "setV"
        /\ web' = "setW" /\ sharedCmd' = [sharedCmd EXCEPT !.v = job.motion.v]
        /\ UNCHANGED <<clock, out, mutex, committed, control, job, cut, ages>>

SetW == /\ web = "setW"
        /\ web' = IF job.by = "text" THEN "setTime" ELSE "give"
        /\ sharedCmd' = [sharedCmd EXCEPT !.w = job.motion.w]
        /\ UNCHANGED <<clock, out, mutex, committed, control, job, cut, ages>>

SetTime == /\ web = "setTime"
           /\ web' = "give"
           /\ sharedCmd' = [sharedCmd EXCEPT !.last_update = clock]
           /\ heardAge' = 0
           /\ UNCHANGED <<clock, out, mutex, committed, control, job, cut,
                          readAge>>
           /\ moved' = IF InForce' THEN 0 ELSE moved

\* Mutant: only text messages give the mutex back.
GiveWebForgotten ==
    /\ web = "give"
    /\ web' = AfterSection /\ job' = NoJob
    /\ mutex' = IF job.by = "text" THEN "none" ELSE mutex
    /\ committed' = sharedCmd
    /\ UNCHANGED <<clock, out, sharedCmd, control, cut, ages>>

GiveWeb == /\ web = "give"
           /\ web' = AfterSection /\ job' = NoJob /\ mutex' = "none"
           /\ committed' = sharedCmd
           /\ UNCHANGED <<clock, out, sharedCmd, control, cut, ages>>

\* onStart cuts the motors itself, without the mutex.
CutOutput == /\ web = "cut" /\ cut <= 5
             /\ out' = IF CutOrder[cut] \in PwmPins /\ ~OtaReachesPwm
                       THEN out
                       ELSE [out EXCEPT ![CutOrder[cut]] = 0]
             /\ cut' = cut + 1
             /\ UNCHANGED <<clock, shared, control, web, job, ages>>

CutDone == /\ web = "cut" /\ cut = 6
           /\ web' = "uploading" /\ cut' = 1
           /\ UNCHANGED <<clock, out, shared, control, job, ages>>

\* The upload fails: handle() returns and the loop goes on.
OtaError == /\ web = "uploading"
            /\ web' = "loop"
            /\ UNCHANGED <<clock, out, shared, control, job, cut, ages>>

\* The upload ends well: onEnd only logs, and the ESP32 begins again with setup.
OtaEnd == /\ web = "uploading"
          /\ clock' = 0
          /\ sharedCmd' = [v |-> 0, w |-> 0, last_update |-> 0]
          /\ mutex' = "none"
          /\ committed' = sharedCmd'
          /\ out' = [p \in Pins |-> 0]
          /\ ctl' = "take" /\ step' = 1 /\ branch' = "drive" /\ timer' = EXEC
          /\ v_local' = 0 /\ w_local' = 0 /\ time_local' = 0
          /\ web' = "loop" /\ job' = NoJob /\ cut' = 1
          /\ heardAge' = 0 /\ readAge' = 0 /\ moved' = Reaction + 1

Handler == \/ TakeWeb \/ TakeTimeout \/ SetV \/ SetW \/ SetTime \/ GiveWeb
           \/ CutOutput \/ CutDone

Network == Text \/ Disconnected \/ OtaStart \/ OtaError \/ OtaEnd

----------------------------------------------------------------------------
(* Time: an iteration of Task_Control never outlasts EXEC, and a delay      *)
(* lasts PERIOD.                                                            *)
Tick == /\ timer > 0
        /\ timer' = timer - 1
        /\ clock' = IF clock + 1 < CLOCK_MOD THEN clock + 1 ELSE 0
        /\ heardAge' = Older(heardAge)
        /\ readAge' = Older(readAge)
        /\ UNCHANGED <<out, shared, ctl, step, branch, locals, server>>
        /\ moved' = IF InForce' THEN 0
                    ELSE IF moved <= Reaction THEN moved + 1 ELSE moved

Next == Control \/ Handler \/ Network \/ Tick

Spec == Init /\ [][Next]_vars

(***************************************************************************)
(* Both tasks run.  A task that waits for the mutex gets it in the end:    *)
(* xSemaphoreGive readies the waiting Task_Control, of higher priority and *)
(* alone on its core, while Task_WebServer sleeps 2 ms between events.     *)
(* Nothing is assumed of the clients or of an upload.                      *)
(***************************************************************************)
Fairness == /\ WF_vars(Control)
            /\ SF_vars(TakeControl)
            /\ WF_vars(Handler)
            /\ WF_vars(Tick)

LiveSpec == Spec /\ Fairness

----------------------------------------------------------------------------
(* Properties *)

RobotCommand == [v : Int, w : Int, last_update : 0 .. CLOCK_MOD - 1]

TypeOK ==
    /\ clock \in 0 .. CLOCK_MOD - 1
    /\ sharedCmd \in RobotCommand
    /\ committed \in RobotCommand
    /\ mutex \in {"none", "control", "web"}
    /\ out \in [Pins -> 0 .. PWM_TOP]
    /\ ctl \in {"take", "readV", "readW", "readTime", "give", "check", "write",
                "delay"}
    /\ step \in 1 .. 7
    /\ branch \in {"drive", "trip"}
    /\ timer \in 0 .. PERIOD + EXEC
    /\ v_local \in Int /\ w_local \in Int
    /\ time_local \in 0 .. CLOCK_MOD - 1
    /\ web \in {"loop", "take", "setV", "setW", "setTime", "give", "cut",
                "uploading"}
    /\ job \in [motion : [v : Int, w : Int], by : {"text", "disconnected", "ota"}]
    /\ cut \in 1 .. 6
    /\ heardAge \in 0 .. CLOCK_MOD /\ readAge \in 0 .. CLOCK_MOD
    /\ moved \in 0 .. Reaction + 1

\* The two half bridges of the BTS7960 are never driven at once, whatever
\* write of Task_Control or of onStart comes between whichever others.
NeverBothBridges == ~(out["RPWM"] > 0 /\ out["LPWM"] > 0)

\* The watchdog: with no command heard for WATCHDOG_TIMEOUT_MS and the time to
\* react, every motor is off.  Dropped updates, lost clients and uploads do not
\* delay it.  (Until millis() has gone round since the last command.)
WatchdogStops ==
    Energised /\ heardAge < CLOCK_MOD => heardAge <= WATCHDOG_TIMEOUT_MS + Reaction

\* A stop that reached sharedCmd, from a client, a lost connection or an
\* upload, is obeyed within one period and two executions of Task_Control; and
\* one that comes when the watchdog has tripped does not renew the motion.
StopIsObeyed == Energised => moved <= Reaction

\* To a remote control the two tasks and the outputs are one Robot.
Machine == INSTANCE Robot WITH
    Commands <- Motions,
    Stop     <- Rest,
    WATCHDOG <- WATCHDOG_TIMEOUT_MS,
    REACTION <- Reaction,
    FOREVER  <- Forever,
    command  <- Latest,
    heard    <- IF heardAge < Forever THEN heardAge ELSE Forever,
    driven   <- Energised

ActsAsRobot == Machine!RobotSpec

\* Between iterations a motor runs as the sampled command says, or is off.
FollowsSample ==
    ctl = "delay" => \A p \in PwmPins : out[p] \in {0, Target[p]}

\* Between iterations a dark LED means that no motor is driven.
LedTellsTruth == ctl = "delay" /\ Energised => out["LED"] = 1

\* The watchdog trips only if the command it looks at is really too old:
\* the wrap of millis() and commands arriving meanwhile never trip it.
NoSpuriousTrip ==
    [][Check /\ branch' = "trip" => readAge > WATCHDOG_TIMEOUT_MS]_vars

\* To the two tasks sharedCmd is one cell: every iteration works with one
\* command as some handler left it, never with fields of two.
AsCell(c) == [motion |-> Asked(c), last_update |-> c.last_update]

Cell == INSTANCE CommandCell WITH
    Motions <- Motions,
    Stamps  <- 0 .. CLOCK_MOD - 1,
    cell    <- AsCell(committed),
    copy    <- IF mutex = "control"
               THEN AsCell(committed)
               ELSE AsCell([v |-> v_local, w |-> w_local,
                            last_update |-> time_local])

AtomicCommands == Cell!Spec

\* A stop in sharedCmd stops the motors, unless a new motion replaces it.
StopLeadsToRest ==
    (Asked(committed) = Rest) ~> (~Energised \/ Asked(committed) # Rest)

\* Silence stops the motors even when every other update was dropped.
SilenceLeadsToRest ==
    (heardAge > WATCHDOG_TIMEOUT_MS) ~> (~Energised \/ heardAge = 0)

(* What a comment in the code promises without qualification, and the code
   does not keep. *)

\* "Corta os motores fisicos" at the start of an upload: they are off when
\* the upload goes on, although Task_Control may be half way through an
\* iteration that sampled a motion.
UploadFindsMotorsCut == web = "uploading" => ~Energised

=============================================================================
