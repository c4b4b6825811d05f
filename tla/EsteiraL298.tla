---------------------------- MODULE EsteiraL298 ----------------------------
(***************************************************************************)
(* The tracked robot with two L298 bridges: Task_Control as esteira_ota    *)
(* and the HTTP robot have it, and the web task of esteira_ota, which      *)
(* waits for a network first.  A motor has two direction pins and an       *)
(* enabling PWM, written one after the other on core 1, while onStart on   *)
(* core 0 may write them too.                                              *)
(*                                                                         *)
(* The mutex sections are those of Esteira, where they are shown to make   *)
(* sharedCmd a single cell; here a section is one step, and an update that *)
(* is dropped is none.  Time is whether a stamp is still fresh.            *)
(***************************************************************************)
EXTENDS MotorMath, Sequences

CONSTANTS
    Speeds,     \* the speeds clients send, in 0.01 m/s
    RIM         \* how fast the rims turn for an angular speed sent, in 160ths of
                \* it: WHEEL_BASE / 2 is 17/160, and only the HTTP robot multiplies
                \* what is sent by 2 / WHEEL_BASE first

ASSUME L298Assumption == Speeds \subseteq Int /\ RIM \in {17, 160}

VARIABLES
    cell,       \* the motion in sharedCmd
    fresh,      \* whether its stamp is within WATCHDOG_TIMEOUT_MS
    copy, freshLocal,   \* the same of Task_Control's copy
    ctl,        \* Task_Control: "sample", "check" or "write"
    branch, step,       \* "drive" or "trip", and its next write
    out,        \* the levels and duties of the pins
    web,        \* Task_WebServer: "wifi", "loop", "cut" or "uploading"
    cut,        \* the next write of onStart
    before,     \* history: the senses in which the iteration before wanted the
                \* motors to turn
    disturbed   \* history: onStart wrote during this iteration or after it

control == <<copy, ctl, branch, step, before>>
vars    == <<cell, fresh, freshLocal, control, out, web, cut, disturbed>>

Motors == {"M1", "M2"}
Pins   == {"LED", "INA_M1", "INB_M1", "EN_M1", "INA_M2", "INB_M2", "EN_M2"}

Rest == [v |-> 0, w |-> 0]

Motions == {[v |-> s, w |-> 0] : s \in Speeds} \cup {[v |-> -s, w |-> 0] : s \in Speeds}
           \cup {[v |-> 0, w |-> s] : s \in Speeds} \cup {[v |-> 0, w |-> -s] : s \in Speeds}
           \cup {Rest}

\* In 0.0005 m/s, as v_left and v_right of MotorMath, for w as it is sent.
Wheels(c) == [M1 |-> 20 * c.v - (20 * RIM * c.w) \div 160,
              M2 |-> 19 * c.v + (19 * RIM * c.w) \div 160]

\* Mutant: the reversed right motor keeps the pins of the forward one.
DriveTargetForward(c) ==
    LET wheel == Wheels(c) IN
    [LED    |-> IF c = Rest THEN 0 ELSE 1,
     INA_M1 |-> IF wheel["M1"] > 0 THEN 1 ELSE 0,
     INB_M1 |-> IF wheel["M1"] < 0 THEN 1 ELSE 0,
     EN_M1  |-> calculate_pwm_with_deadband(wheel["M1"]),
     INA_M2 |-> IF wheel["M2"] # 0 THEN 1 ELSE 0,
     INB_M2 |-> 0,
     EN_M2  |-> calculate_pwm_with_deadband(wheel["M2"])]

DriveTarget(c) ==
    LET wheel == Wheels(c) IN
    [LED    |-> IF c = Rest THEN 0 ELSE 1,
     INA_M1 |-> IF wheel["M1"] > 0 THEN 1 ELSE 0,
     INB_M1 |-> IF wheel["M1"] < 0 THEN 1 ELSE 0,
     EN_M1  |-> calculate_pwm_with_deadband(wheel["M1"]),
     INA_M2 |-> IF wheel["M2"] > 0 THEN 1 ELSE 0,
     INB_M2 |-> IF wheel["M2"] < 0 THEN 1 ELSE 0,
     EN_M2  |-> calculate_pwm_with_deadband(wheel["M2"])]

DriveOrder == <<"LED", "INA_M1", "INB_M1", "EN_M1", "INA_M2", "INB_M2", "EN_M2">>

TripOrder == <<"EN_M1", "EN_M2", "INA_M1", "INB_M1", "INA_M2", "INB_M2", "LED">>

CutOrder == SubSeq(TripOrder, 1, 6)

AllLow == [p \in Pins |-> 0]

\* The speed asked of each wheel by the iteration, none if the watchdog tripped.
Wanted == IF branch = "trip" THEN [m \in Motors |-> 0] ELSE Wheels(copy)

Sign(x) == IF x > 0 THEN 1 ELSE IF x < 0 THEN -1 ELSE 0

Senses == [m \in Motors |-> Sign(Wanted[m])]

----------------------------------------------------------------------------
Init == /\ cell = Rest /\ fresh = TRUE /\ copy = Rest /\ freshLocal = TRUE
        /\ ctl = "sample" /\ branch = "drive" /\ step = 1 /\ out = AllLow
        /\ web = "wifi" /\ cut = 1
        /\ before = [m \in Motors |-> 0] /\ disturbed = FALSE

(* Task_Control *)

Sample == /\ ctl = "sample"
          /\ copy' = cell /\ freshLocal' = fresh
          /\ ctl' = "check" /\ before' = Senses /\ disturbed' = FALSE
          /\ UNCHANGED <<cell, fresh, branch, step, out, web, cut>>

\* Mutant: the watchdog looks at the fields in sharedCmd, stopped or not.
CheckMoving == /\ ctl = "check"
               /\ branch' = IF freshLocal \/ cell # Rest THEN "drive" ELSE "trip"
               /\ ctl' = "write"
               /\ UNCHANGED <<cell, fresh, copy, freshLocal, step, out, web, cut,
                              before, disturbed>>

Check == /\ ctl = "check"
         /\ branch' = IF freshLocal THEN "drive" ELSE "trip"
         /\ ctl' = "write"
         /\ UNCHANGED <<cell, fresh, copy, freshLocal, step, out, web, cut,
                        before, disturbed>>

\* One write; after the last one, the delay and the next iteration.
Write == /\ ctl = "write"
         /\ LET pin == IF branch = "trip" THEN TripOrder[step] ELSE DriveOrder[step]
            IN out' = [out EXCEPT ![pin] =
                          IF branch = "trip" THEN 0 ELSE DriveTarget(copy)[pin]]
         /\ IF step < 7 THEN step' = step + 1 /\ UNCHANGED ctl
                        ELSE step' = 1 /\ ctl' = "sample"
         /\ UNCHANGED <<cell, fresh, copy, freshLocal, branch, web, cut, before,
                        disturbed>>

Control == Sample \/ Check \/ Write

----------------------------------------------------------------------------
(* Task_WebServer *)

Connected == /\ web = "wifi"
             /\ web' = "loop"
             /\ UNCHANGED <<cell, fresh, freshLocal, control, out, cut, disturbed>>

\* A command that gets the mutex, a stop included.
Text == /\ web = "loop"
        /\ cell' \in Motions /\ fresh' = TRUE
        /\ UNCHANGED <<freshLocal, control, out, web, cut, disturbed>>

Disconnected == /\ web = "loop"
                /\ cell' = Rest
                /\ UNCHANGED <<fresh, freshLocal, control, out, web, cut, disturbed>>

\* onStart, whose stop is lost if it waits 10 ms for the mutex.
OtaStart == /\ web = "loop"
            /\ web' = "cut" /\ cell' \in {Rest, cell}
            /\ UNCHANGED <<fresh, freshLocal, control, out, cut, disturbed>>

CutOutput == /\ web = "cut"
             /\ out' = [out EXCEPT ![CutOrder[cut]] = 0]
             /\ IF cut < 6 THEN cut' = cut + 1 /\ UNCHANGED web
                           ELSE cut' = 1 /\ web' = "uploading"
             /\ disturbed' = TRUE
             /\ UNCHANGED <<cell, fresh, freshLocal, control>>

OtaError == /\ web = "uploading"
            /\ web' = "loop"
            /\ UNCHANGED <<cell, fresh, freshLocal, control, out, cut, disturbed>>

\* The ESP32 begins again with setup, and both tasks anew; onEnd only logs.
OtaEnd == /\ web = "uploading"
          /\ cell' = Rest /\ fresh' = TRUE /\ copy' = Rest /\ freshLocal' = TRUE
          /\ ctl' = "sample" /\ branch' = "drive" /\ step' = 1 /\ out' = AllLow
          /\ web' = "wifi" /\ cut' = 1
          /\ before' = [m \in Motors |-> 0] /\ disturbed' = FALSE

WebServer == \/ Connected \/ Text \/ Disconnected \/ OtaStart \/ CutOutput
             \/ OtaError \/ OtaEnd

\* WATCHDOG_TIMEOUT_MS go by: the copy's stamp is never the younger one.
Expire == /\ freshLocal' = FALSE /\ fresh' \in {fresh, FALSE}
          /\ UNCHANGED <<cell, control, out, web, cut, disturbed>>

Next == Control \/ WebServer \/ Expire

Spec == Init /\ [][Next]_vars

\* Both tasks run, and time passes.
Fairness == WF_vars(Control) /\ WF_vars(CutOutput)
            /\ WF_vars(Expire /\ fresh' = FALSE)

LiveSpec == Spec /\ Fairness

----------------------------------------------------------------------------
TypeOK ==
    /\ cell \in Motions /\ fresh \in BOOLEAN
    /\ copy \in Motions /\ freshLocal \in BOOLEAN
    /\ ctl \in {"sample", "check", "write"} /\ branch \in {"drive", "trip"}
    /\ step \in 1 .. 7 /\ cut \in 1 .. 6
    /\ \A p \in Pins : out[p] \in IF p \in {"EN_M1", "EN_M2"}
                                  THEN 0 .. PWM_TOP ELSE {0, 1}
    /\ web \in {"wifi", "loop", "cut", "uploading"}
    /\ before \in [Motors -> {-1, 0, 1}] /\ disturbed \in BOOLEAN

\* The sense in which an L298 turns its motor: not at all with both pins alike.
Turns(m) ==
    IF m = "M1" THEN IF out["EN_M1"] = 0 THEN 0 ELSE out["INA_M1"] - out["INB_M1"]
                ELSE IF out["EN_M2"] = 0 THEN 0 ELSE out["INA_M2"] - out["INB_M2"]

Driven == \E m \in Motors : Turns(m) # 0

\* While pins and duties change one by one, on two cores, a motor turns only as
\* this iteration's command or the one before asked, or not at all.
TurnsAsAsked ==
    \A m \in Motors :
        \/ Turns(m) \in {0, before[m]}
        \/ ctl # "check" /\ Turns(m) = Senses[m]

\* Between iterations every motor turns as the sampled command asks, unless it
\* is in the dead band or onStart has interfered.
FollowsSample ==
    ctl = "sample" => \A m \in Motors :
        \/ Turns(m) = Senses[m]
        \/ Turns(m) = 0 /\ (disturbed \/ calculate_pwm_with_deadband(Wanted[m]) = 0)

\* An upload stops the motors, whether or not its stop reached sharedCmd and
\* its writes were undone by the other core.
UploadLeadsToRest == (web = "uploading") ~> (~Driven \/ web # "uploading")

=============================================================================
