------------------------------ MODULE TwistRos ------------------------------
(***************************************************************************)
(* The micro-ROS firmware of the same robot (TWIST V2 and V3): the twist   *)
(* arrives in a callback on core 0 and Task_Control on core 1 applies it.  *)
(* There is no mutex: the three shared variables are volatile globals, and *)
(* one iteration of Task_Control reads target_v and target_w up to three   *)
(* times each.  One step is one access to a shared variable or a pin.      *)
(*                                                                         *)
(* Velocities are integers of 0.01 m/s, and target_w is the rim speed      *)
(* w * WHEEL_BASE / 2, the only form in which the code uses it.            *)
(***************************************************************************)
EXTENDS Integers, Sequences

CONSTANTS
    Twists,                  \* the twists published on cmd_vel
    TICK_MOD,                \* the number of values of the tick count
    WATCHDOG_TIMEOUT_TICKS,
    PERIOD,                  \* the vTaskDelay of Task_Control
    EXEC                     \* the longest an iteration of Task_Control takes

Still == [v |-> 0, w |-> 0]

ASSUME TwistRosAssumption ==
    /\ Twists \subseteq [v : Int, w : Int]
    /\ TICK_MOD \in Nat /\ WATCHDOG_TIMEOUT_TICKS \in Nat
    /\ PERIOD \in Nat \ {0} /\ EXEC \in Nat
    /\ EXEC <= WATCHDOG_TIMEOUT_TICKS
    /\ WATCHDOG_TIMEOUT_TICKS + PERIOD + 2 * EXEC < TICK_MOD

VARIABLES
    tick,           \* xTaskGetTickCount()
    target_v, target_w, last_cmd_time,
    out,            \* the level or duty on each output
    ctl,            \* where Task_Control is
    tickRead,       \* the operands of the watchdog's subtraction, once read
    stampRead,
    seen,           \* the velocities this iteration has read, in order
    writes,         \* the output writes it still has to make
    timer,          \* ticks left of the delay, or of the iteration's EXEC
    ros,            \* where Task_MicroROS is
    msg,            \* the twist its callback is storing
    heardAge,       \* history: ticks since last_cmd_time was set
    settledAge,     \* history: ticks since target_v or target_w was written
    quietAge        \* history: the largest heardAge while this check lasts

inputs  == <<target_v, target_w, last_cmd_time>>
reads   == <<tickRead, stampRead, seen>>
control == <<ctl, reads, writes, timer>>
node    == <<ros, msg>>
ages    == <<heardAge, settledAge, quietAge>>
vars    == <<tick, inputs, out, control, node, ages>>

----------------------------------------------------------------------------
Magnitude(x) == IF x < 0 THEN -x ELSE x

\* Mutant: a speed in the dead band gives the smallest duty.
PwmWithoutDeadband(x) ==
    IF Magnitude(x) >= 2000 THEN 2047 ELSE 480 + (Magnitude(x) * 1567) \div 2000

\* In units of 0.0005 m/s: MAX_SPEED is 1 m/s, the dead band 0.01 m/s.  A
\* float of 0.01 is below the double it is compared with, so it is dead too.
calculate_pwm_with_deadband(x) ==
    IF Magnitude(x) <= 20 THEN 0
    ELSE IF Magnitude(x) >= 2000 THEN 2047
    ELSE 480 + (Magnitude(x) * 1567) \div 2000

LeftSpeed(v, w)  == 20 * (v - w)
RightSpeed(v, w) == 19 * (v + w)

Pins == {"LED", "INA_M1", "INB_M1", "EN_M1", "INA_M2", "INB_M2", "EN_M2"}

Level(condition) == IF condition THEN 1 ELSE 0

Write(pin, value) == [pin |-> pin, value |-> value]

\* Mutant: one motor is forgotten.
TripOne == << Write("EN_M1", 0), Write("INA_M1", 0), Write("INB_M1", 0),
              Write("INA_M2", 0), Write("INB_M2", 0), Write("LED", 0) >>

Trip == << Write("EN_M1", 0), Write("EN_M2", 0), Write("INA_M1", 0),
           Write("INB_M1", 0), Write("INA_M2", 0), Write("INB_M2", 0),
           Write("LED", 0) >>

\* Mutant: a pin that was high for the other sense is not cleared.
DriveAgainstOld(led, left, right) ==
    << Write("LED", led),
       Write("INA_M1", Level(left > 0 \/ out["INA_M1"] = 1)),
       Write("INB_M1", Level(left < 0 \/ out["INB_M1"] = 1)),
       Write("INA_M2", Level(right > 0 \/ out["INA_M2"] = 1)),
       Write("INB_M2", Level(right < 0 \/ out["INB_M2"] = 1)),
       Write("EN_M1", calculate_pwm_with_deadband(left)),
       Write("EN_M2", calculate_pwm_with_deadband(right)) >>

Drive(led, left, right) ==
    << Write("LED", led),
       Write("INA_M1", Level(left > 0)), Write("INB_M1", Level(left < 0)),
       Write("INA_M2", Level(right > 0)), Write("INB_M2", Level(right < 0)),
       Write("EN_M1", calculate_pwm_with_deadband(left)),
       Write("EN_M2", calculate_pwm_with_deadband(right)) >>

\* TickType_t is unsigned.
Difference(now, last) ==
    IF now >= last THEN now - last ELSE now - last + TICK_MOD

Older(age) == IF age < TICK_MOD THEN age + 1 ELSE age

Energised == out["EN_M1"] > 0 \/ out["EN_M2"] > 0

Unread == -1

----------------------------------------------------------------------------
\* setup starts the two tasks; Task_Control sets the stamp once more.
Init == /\ tick = 0
        /\ target_v = 0 /\ target_w = 0 /\ last_cmd_time = 0
        /\ out = [p \in Pins |-> 0]
        /\ ctl = "start" /\ tickRead = Unread /\ stampRead = Unread
        /\ seen = <<>> /\ writes = <<>> /\ timer = EXEC
        /\ ros = "init" /\ msg = Still
        /\ heardAge = 0 /\ settledAge = 0 /\ quietAge = 0

----------------------------------------------------------------------------
(* Task_Control *)

Start == /\ ctl = "start"
         /\ last_cmd_time' = tick /\ heardAge' = 0
         /\ ctl' = "check" /\ quietAge' = 0
         /\ UNCHANGED <<tick, target_v, target_w, out, reads, writes, timer, node,
                        settledAge>>

\* C leaves open which operand of the subtraction is read first.
ReadTick == /\ ctl = "check" /\ tickRead = Unread
            /\ tickRead' = tick
            /\ UNCHANGED <<tick, inputs, out, ctl, stampRead, seen, writes, timer,
                           node, ages>>

ReadStamp == /\ ctl = "check" /\ stampRead = Unread
             /\ stampRead' = last_cmd_time
             /\ UNCHANGED <<tick, inputs, out, ctl, tickRead, seen, writes, timer,
                            node, ages>>

Checked == ctl = "check" /\ tickRead # Unread /\ stampRead # Unread

\* Mutant: the comparison is not strict.
SilentAsLong == Difference(tickRead, stampRead) >= WATCHDOG_TIMEOUT_TICKS

SilentTooLong == Difference(tickRead, stampRead) > WATCHDOG_TIMEOUT_TICKS

Trips == /\ Checked /\ SilentTooLong
         /\ ctl' = "write" /\ writes' = Trip
         /\ tickRead' = Unread /\ stampRead' = Unread /\ quietAge' = 0
         /\ UNCHANGED <<tick, inputs, out, seen, timer, node, heardAge, settledAge>>

Passes == /\ Checked /\ ~SilentTooLong
          /\ ctl' = "read" /\ tickRead' = Unread /\ stampRead' = Unread
          /\ quietAge' = 0
          /\ UNCHANGED <<tick, inputs, out, seen, writes, timer, node, heardAge,
                         settledAge>>

\* The reads of the drive branch in order: v and w for the LED (w only if v
\* is zero), for the left wheel and for the right wheel.
ReadVelocity ==
    /\ ctl = "read" /\ Len(seen) < 6
    /\ seen' = IF Len(seen) % 2 = 0
               THEN IF seen = <<>> /\ target_v # 0
                    THEN <<target_v, Unread>>
                    ELSE Append(seen, target_v)
               ELSE Append(seen, target_w)
    /\ UNCHANGED <<tick, inputs, out, ctl, tickRead, stampRead, writes, timer, node,
                   ages>>

Decide ==
    /\ ctl = "read" /\ Len(seen) = 6
    /\ writes' = Drive(Level(seen[1] # 0 \/ seen[2] # 0),
                       LeftSpeed(seen[3], seen[4]), RightSpeed(seen[5], seen[6]))
    /\ ctl' = "write" /\ seen' = <<>>
    /\ UNCHANGED <<tick, inputs, out, tickRead, stampRead, timer, node, ages>>

WriteOutput ==
    /\ ctl = "write" /\ writes # <<>>
    /\ out' = [out EXCEPT ![Head(writes).pin] = Head(writes).value]
    /\ writes' = Tail(writes)
    /\ UNCHANGED <<tick, inputs, ctl, reads, timer, node, ages>>

Sleep == /\ ctl = "write" /\ writes = <<>>
         /\ ctl' = "delay" /\ timer' = PERIOD
         /\ UNCHANGED <<tick, inputs, out, reads, writes, node, ages>>

Wake == /\ ctl = "delay" /\ timer = 0
        /\ ctl' = "check" /\ timer' = EXEC /\ quietAge' = heardAge
        /\ UNCHANGED <<tick, inputs, out, reads, writes, node, heardAge, settledAge>>

Control == \/ Start \/ ReadTick \/ ReadStamp \/ Trips \/ Passes \/ ReadVelocity
           \/ Decide \/ WriteOutput \/ Sleep \/ Wake

----------------------------------------------------------------------------
(* Task_MicroROS *)

\* The node is set up 2 s after the tasks start, with RCCHECK on every call.
NodeReady == /\ ros = "init" /\ ctl # "start"
             /\ ros' = "spin"
             /\ UNCHANGED <<tick, inputs, out, control, msg, ages>>

NodeFails == /\ ros = "init" /\ ctl # "start"
             /\ ros' = "error"
             /\ UNCHANGED <<tick, inputs, out, control, msg, ages>>

\* error_loop, for ever.
Blink == /\ ros = "error"
         /\ out' = [out EXCEPT !["LED"] = 1 - @]
         /\ UNCHANGED <<tick, inputs, control, node, ages>>

\* subscription_callback, one shared variable at a time.
Receive == /\ ros = "spin"
           /\ msg' \in Twists /\ ros' = "storeV"
           /\ UNCHANGED <<tick, inputs, out, control, ages>>

StoreV == /\ ros = "storeV"
          /\ target_v' = msg.v /\ settledAge' = 0 /\ ros' = "storeW"
          /\ UNCHANGED <<tick, target_w, last_cmd_time, out, control, msg, heardAge,
                         quietAge>>

StoreW == /\ ros = "storeW"
          /\ target_w' = msg.w /\ settledAge' = 0 /\ ros' = "storeTime"
          /\ UNCHANGED <<tick, target_v, last_cmd_time, out, control, msg, heardAge,
                         quietAge>>

StoreTime == /\ ros = "storeTime"
             /\ last_cmd_time' = tick /\ heardAge' = 0
             /\ ros' = "spin" /\ msg' = Still
             /\ UNCHANGED <<tick, target_v, target_w, out, control, settledAge,
                            quietAge>>

MicroROS == \/ NodeReady \/ NodeFails \/ Blink
            \/ Receive \/ StoreV \/ StoreW \/ StoreTime

----------------------------------------------------------------------------
Tick == /\ timer > 0
        /\ timer' = timer - 1
        /\ tick' = IF tick + 1 < TICK_MOD THEN tick + 1 ELSE 0
        /\ heardAge' = Older(heardAge)
        /\ settledAge' = Older(settledAge)
        /\ quietAge' = IF ctl = "check" /\ heardAge' > quietAge
                       THEN heardAge' ELSE quietAge
        /\ UNCHANGED <<inputs, out, ctl, reads, writes, node>>

Next == Control \/ MicroROS \/ Tick

Spec == Init /\ [][Next]_vars

----------------------------------------------------------------------------
(* Properties *)

Reaction == PERIOD + 2 * EXEC

TypeOK ==
    /\ tick \in 0 .. TICK_MOD - 1 /\ last_cmd_time \in 0 .. TICK_MOD - 1
    /\ target_v \in Int /\ target_w \in Int
    /\ out \in [Pins -> 0 .. 2047]
    /\ ctl \in {"start", "check", "read", "write", "delay"}
    /\ tickRead \in Unread .. TICK_MOD - 1 /\ stampRead \in Unread .. TICK_MOD - 1
    /\ seen \in Seq(Int) /\ Len(seen) <= 6
    /\ writes \in Seq([pin : Pins, value : 0 .. 2047])
    /\ timer \in 0 .. PERIOD + EXEC
    /\ ros \in {"init", "error", "spin", "storeV", "storeW", "storeTime"}
    /\ msg \in {Still} \cup Twists
    /\ heardAge \in 0 .. TICK_MOD /\ settledAge \in 0 .. TICK_MOD
    /\ quietAge \in 0 .. TICK_MOD

\* Even without a mutex silence stops the motors in time, because the callback
\* writes the stamp last: a torn read errs on the side of stopping.
WatchdogStops ==
    Energised /\ heardAge < TICK_MOD
        => heardAge <= WATCHDOG_TIMEOUT_TICKS + Reaction

\* A motor is as the drive branch leaves it for a wheel's speed, duty and sense,
\* or it is off.
OffOrAsAsked(ina, inb, en, speed) ==
    \/ out[en] = 0
    \/ /\ out[en] = calculate_pwm_with_deadband(speed)
       /\ out[ina] = Level(speed > 0) /\ out[inb] = Level(speed < 0)

\* A mixture of two twists heals: once the velocities have not been written
\* for a reaction time, each wheel turns with the duty and in the sense they
\* ask for, or it is off.
MixtureHeals ==
    settledAge > Reaction =>
        /\ OffOrAsAsked("INA_M1", "INB_M1", "EN_M1", LeftSpeed(target_v, target_w))
        /\ OffOrAsAsked("INA_M2", "INB_M2", "EN_M2", RightSpeed(target_v, target_w))

\* The watchdog trips while the node is talking in one case only: a twist was
\* stamped during this very check, between its two reads.  The wrap of the tick
\* count and an iteration that is late make it trip at no other time.
TripsExplained ==
    [][Trips => quietAge > WATCHDOG_TIMEOUT_TICKS \/ heardAge <= EXEC]_vars

=============================================================================
