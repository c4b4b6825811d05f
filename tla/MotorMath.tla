----------------------------- MODULE MotorMath -----------------------------
(***************************************************************************)
(* The arithmetic of Task_Control: from a command to the two wheel speeds  *)
(* and from a wheel speed to a PWM duty.  The code computes in float; here *)
(* a command is an integer number of 0.01 m/s and a wheel speed an integer *)
(* number of 0.0005 m/s (CALIB_11 = 0.95 is then 19/20, exactly).          *)
(*                                                                         *)
(* The angular speed w enters the code only as w * WHEEL_BASE / 2, so it   *)
(* is kept as that rim speed, in the unit of v: the page's multiplier      *)
(* 2 / WHEEL_BASE makes it equal to the slider value.                      *)
(***************************************************************************)
EXTENDS Integers

MAX_SPEED == 600      \* 0.3 m/s
DEADBAND  == 20       \* 0.01 m/s
MIN_PWM   == 480
MAX_PWM   == 1605
PWM_TOP   == 2047     \* the largest duty PWM_RES = 11 bits can hold

Magnitude(x) == IF x < 0 THEN -x ELSE x

\* CALIB_01 = CALIB_10 = 0: each wheel depends on its own raw speed only.
v_left(v, w)  == 20 * (v - w)
v_right(v, w) == 19 * (v + w)

Saturated(x) == IF Magnitude(x) > MAX_SPEED THEN MAX_SPEED ELSE Magnitude(x)

\* The float 0.01f lies just below the double 0.01 it is compared with, so a
\* wheel at exactly 0.01 m/s is inside the dead band.  (int) truncates.
calculate_pwm_with_deadband(x) ==
    IF Magnitude(x) <= DEADBAND
    THEN 0
    ELSE MIN_PWM + (Saturated(x) * (MAX_PWM - MIN_PWM)) \div MAX_SPEED

=============================================================================
