------------------------------ MODULE ImuStamp ------------------------------
(***************************************************************************)
(* The IMU publisher of Esteira/teleop_esteira_novo.  A stamp is made of   *)
(* two readings of millis(), one for the seconds and one for the rest, and *)
(* a callback makes three of them: of the imu message, of the time         *)
(* reference, and the reference itself.                                    *)
(***************************************************************************)
EXTENDS Integers

CONSTANTS
    SECOND,         \* ticks of millis() in a second
    CLOCK_MOD,      \* the number of values of millis()
    SPREAD          \* the most ticks a callback takes

ASSUME StampAssumption ==
    /\ SECOND \in Nat \ {0} /\ CLOCK_MOD \in Nat \ {0}
    /\ SPREAD \in Nat /\ SPREAD < SECOND /\ SPREAD < CLOCK_MOD

VARIABLES
    clock,              \* millis()
    at,                 \* "wait" for the timer, or in a callback "sec",
                        \* "nanosec" or "publish"
    stamp,              \* which one is being made
    sec, nanosec,       \* per stamp; nanosec in ticks
    spent,              \* ticks the callback has taken
    readSec, readNano,  \* history: the readings of millis()
    sent, rolled        \* history: the time of the last imu message, and
                        \* whether millis() has gone round since

fields  == <<sec, nanosec>>
history == <<readSec, readNano, sent, rolled>>
vars    == <<clock, at, stamp, fields, spent, history>>

Stamps == {"imu", "header", "time_ref"}

None == [s \in Stamps |-> 0]

Init == /\ clock \in 0 .. CLOCK_MOD - 1
        /\ at = "wait" /\ stamp = "imu" /\ spent = 0
        /\ sec = None /\ nanosec = None /\ readSec = None /\ readNano = None
        /\ sent = 0 /\ rolled = FALSE

----------------------------------------------------------------------------
\* timer_callback begins with the sensor, which takes time only.
timer_callback == /\ at = "wait"
                  /\ at' = "sec" /\ stamp' = "imu" /\ spent' = 0
                  /\ UNCHANGED <<clock, fields, history>>

\* Mutant: the seconds are rounded.
SecRounded == /\ at = "sec"
              /\ at' = "nanosec"
              /\ sec' = [sec EXCEPT ![stamp] =
                            (clock + SECOND \div 2) \div SECOND]
              /\ readSec' = [readSec EXCEPT ![stamp] = clock]
              /\ UNCHANGED <<clock, stamp, nanosec, spent, readNano, sent, rolled>>

\* Mutant: the seconds are read until there are some, and then kept.
SecOnce == /\ at = "sec"
           /\ at' = "nanosec"
           /\ sec' = [sec EXCEPT ![stamp] = IF @ = 0 THEN clock \div SECOND ELSE @]
           /\ readSec' = [readSec EXCEPT ![stamp] = clock]
           /\ UNCHANGED <<clock, stamp, nanosec, spent, readNano, sent, rolled>>

Sec == /\ at = "sec"
       /\ at' = "nanosec"
       /\ sec' = [sec EXCEPT ![stamp] = clock \div SECOND]
       /\ readSec' = [readSec EXCEPT ![stamp] = clock]
       /\ UNCHANGED <<clock, stamp, nanosec, spent, readNano, sent, rolled>>

\* The imu message is published with one stamp, the other one with two.
AfterStamp == IF stamp = "header"
              THEN at' = "sec" /\ stamp' = "time_ref"
              ELSE at' = "publish" /\ UNCHANGED stamp

Nanosec == /\ at = "nanosec"
           /\ AfterStamp
           /\ nanosec' = [nanosec EXCEPT ![stamp] = clock % SECOND]
           /\ readNano' = [readNano EXCEPT ![stamp] = clock]
           /\ UNCHANGED <<clock, sec, spent, readSec, sent, rolled>>

Time(s) == SECOND * sec[s] + nanosec[s]

publishIMU == /\ at = "publish" /\ stamp = "imu"
              /\ at' = "sec" /\ stamp' = "header"
              /\ sent' = Time("imu") /\ rolled' = (clock < readSec["imu"])
              /\ UNCHANGED <<clock, fields, spent, readSec, readNano>>

publishTime == /\ at = "publish" /\ stamp = "time_ref"
               /\ at' = "wait"
               /\ UNCHANGED <<clock, stamp, fields, spent, history>>

Tick == /\ at = "wait" \/ spent < SPREAD
        /\ clock' = (clock + 1) % CLOCK_MOD
        /\ spent' = IF at = "wait" THEN 0 ELSE spent + 1
        /\ rolled' = (rolled \/ clock + 1 = CLOCK_MOD)
        /\ UNCHANGED <<at, stamp, fields, readSec, readNano, sent>>

Next == \/ timer_callback \/ Sec \/ Nanosec \/ publishIMU \/ publishTime \/ Tick

Spec == Init /\ [][Next]_vars

----------------------------------------------------------------------------
TypeOK == /\ clock \in 0 .. CLOCK_MOD - 1 /\ spent \in 0 .. SPREAD
          /\ at \in {"wait", "sec", "nanosec", "publish"} /\ stamp \in Stamps
          /\ sec \in [Stamps -> Nat] /\ nanosec \in [Stamps -> 0 .. SECOND - 1]
          /\ readSec \in [Stamps -> 0 .. CLOCK_MOD - 1]
          /\ readNano \in [Stamps -> 0 .. CLOCK_MOD - 1]
          /\ sent \in Nat /\ rolled \in BOOLEAN

Torn(s) == readSec[s] \div SECOND # readNano[s] \div SECOND

\* A published time is that of the second reading or, if a full second came
\* between the two, one second less: never ahead of the clock, unless millis()
\* went round between them.
NeverAhead ==
    at = "publish" => \A s \in Stamps :
        readSec[s] <= readNano[s] =>
            Time(s) \in {readNano[s], readNano[s] - SECOND}

\* Imu messages go back in time only where a stamp is torn by a full second, or
\* millis() has gone round.
InOrder == at = "publish" /\ stamp = "imu" =>
              sent <= Time("imu") \/ Torn("imu") \/ rolled

=============================================================================
