-------------------------- MODULE HttpRobot_proofs --------------------------
(***************************************************************************)
(* The robot with two L298 bridges and its HTTP remote control.            *)
(*                                                                         *)
(* The bridges' pins and duties are written one by one, while the other    *)
(* core may cut them: for every set of speeds, no motor turns in a sense   *)
(* nobody asked for.  The order of the writes is all there is to it: a direction pin is HIGH  *)
(* only if the iteration that wrote it last wanted that sense, and a trip  *)
(* takes the duty away before it touches the direction.                    *)
(***************************************************************************)
EXTENDS EsteiraL298, TeleopHttp, TLAPS

InA(m) == IF m = "M1" THEN "INA_M1" ELSE "INA_M2"
InB(m) == IF m = "M1" THEN "INB_M1" ELSE "INB_M2"
En(m)  == IF m = "M1" THEN "EN_M1" ELSE "EN_M2"

\* The place of a pin among the writes of the two branches.
DrivePlace(p) == CASE p = "LED" -> 1 [] p = "INA_M1" -> 2 [] p = "INB_M1" -> 3
                   [] p = "EN_M1" -> 4 [] p = "INA_M2" -> 5 [] p = "INB_M2" -> 6
                   [] p = "EN_M2" -> 7

TripPlace(p) == CASE p = "EN_M1" -> 1 [] p = "EN_M2" -> 2 [] p = "INA_M1" -> 3
                  [] p = "INB_M1" -> 4 [] p = "INA_M2" -> 5 [] p = "INB_M2" -> 6
                  [] p = "LED" -> 7

Place(p) == IF branch = "trip" THEN TripPlace(p) ELSE DrivePlace(p)

\* Whether the iteration has written the pin.
Written(p) == ctl = "sample" \/ (ctl = "write" /\ Place(p) < step)

\* The sense the iteration that wrote the pin last wanted of the motor.
Governs(p, m) == IF Written(p) THEN Senses[m] ELSE before[m]

\* What the iteration writes.
Target(p) == IF branch = "trip" THEN 0 ELSE DriveTarget(copy)[p]

----------------------------------------------------------------------------
CommandsType == /\ cell \in Motions /\ copy \in Motions
                /\ fresh \in BOOLEAN /\ freshLocal \in BOOLEAN

PlacesType == /\ ctl \in {"sample", "check", "write"} /\ branch \in {"drive", "trip"}
              /\ step \in 1 .. 7 /\ cut \in 1 .. 6
              /\ web \in {"wifi", "loop", "cut", "uploading"}
              /\ before \in [Motors -> {-1, 0, 1}] /\ disturbed \in BOOLEAN
              /\ ctl # "write" => step = 1

OutType == /\ out \in [Pins -> 0 .. PWM_TOP]
           /\ \A p \in Pins \ {"EN_M1", "EN_M2"} : out[p] \in {0, 1}

Types == CommandsType /\ PlacesType /\ OutType

\* A direction pin is HIGH only for the sense that was wanted.
SenseInv == \A m \in Motors :
                /\ out[InA(m)] = 1 => Governs(InA(m), m) = 1
                /\ out[InB(m)] = 1 => Governs(InB(m), m) = -1

\* What an iteration has written is on the pin, unless onStart cut it since.
WrittenInv == \A p \in Pins : Written(p) => out[p] = Target(p)
                                         \/ (disturbed /\ out[p] = 0)

Inv == Types /\ SenseInv /\ WrittenInv

----------------------------------------------------------------------------
(* The operators *)

\* Every duty fits the PWM's resolution.
LEMMA DutyFits ==
    ASSUME NEW x \in Int
    PROVE  calculate_pwm_with_deadband(x) \in 0 .. PWM_TOP
<1> DEFINE q == (Saturated(x) * (MAX_PWM - MIN_PWM)) \div MAX_SPEED
<1>1. Saturated(x) \in 0 .. MAX_SPEED
      BY DEF Saturated, Magnitude, MAX_SPEED
<1>2. q \in 0 .. (MAX_PWM - MIN_PWM)
      BY <1>1 DEF MAX_SPEED, MAX_PWM, MIN_PWM
<1>3. calculate_pwm_with_deadband(x) \in {0, MIN_PWM + q}
      BY DEF calculate_pwm_with_deadband
<1> HIDE DEF q
<1> QED
    BY <1>2, <1>3 DEF MAX_PWM, MIN_PWM, PWM_TOP

\* A motion asks for two wheel speeds.
LEMMA WheelsType ==
    ASSUME NEW c \in Motions
    PROVE  /\ Wheels(c)["M1"] \in Int /\ Wheels(c)["M2"] \in Int
           /\ Wheels(c) = [m \in Motors |-> Wheels(c)[m]]
<1>1. c.v \in Int /\ c.w \in Int
      BY L298Assumption DEF Motions, Rest
<1>2. RIM = 17 \/ RIM = 160
      BY L298Assumption
<1>3. 20 * RIM * c.w \in Int /\ 19 * RIM * c.w \in Int
      BY <1>1, <1>2
<1>4. (20 * RIM * c.w) \div 160 \in Int /\ (19 * RIM * c.w) \div 160 \in Int
      BY <1>3
<1> QED
    BY <1>1, <1>4 DEF Wheels, Motors

\* The iteration wants a sense of each motor, none if the watchdog trips.
LEMMA SensesType ==
    ASSUME CommandsType, PlacesType, NEW m \in Motors
    PROVE  /\ Wanted[m] \in Int /\ Senses[m] = Sign(Wanted[m])
           /\ Senses[m] \in {-1, 0, 1}
           /\ branch = "trip" => Wanted[m] = 0
           /\ branch # "trip" => Wanted[m] = Wheels(copy)[m]
<1>1. Wanted[m] \in Int
      BY WheelsType DEF CommandsType, Wanted, Motors
<1>2. Senses[m] = Sign(Wanted[m])
      BY DEF Senses
<1> QED
    BY <1>1, <1>2 DEF Sign, Wanted

\* What is written to a pin fits it and the sense that is wanted.
LEMMA TargetType ==
    ASSUME CommandsType, PlacesType
    PROVE  /\ \A p \in Pins : Target(p) \in 0 .. PWM_TOP
           /\ \A p \in Pins \ {"EN_M1", "EN_M2"} : Target(p) \in {0, 1}
           /\ \A m \in Motors :
                 /\ Target(InA(m)) = (IF Senses[m] = 1 THEN 1 ELSE 0)
                 /\ Target(InB(m)) = (IF Senses[m] = -1 THEN 1 ELSE 0)
                 /\ branch # "trip" =>
                       Target(En(m)) = calculate_pwm_with_deadband(Wanted[m])
<1>1. /\ Wheels(copy)["M1"] \in Int /\ Wheels(copy)["M2"] \in Int
      BY WheelsType DEF CommandsType
<1>2. /\ calculate_pwm_with_deadband(Wheels(copy)["M1"]) \in 0 .. PWM_TOP
      /\ calculate_pwm_with_deadband(Wheels(copy)["M2"]) \in 0 .. PWM_TOP
      BY <1>1, DutyFits
<1>3. ASSUME NEW p \in Pins PROVE Target(p) \in 0 .. PWM_TOP
  <2> DEFINE duty(m) == calculate_pwm_with_deadband(Wheels(copy)[m])
  <2>1. 0 \in 0 .. PWM_TOP /\ 1 \in 0 .. PWM_TOP
        BY DEF PWM_TOP
  <2>2. DriveTarget(copy)[p] \in {0, 1, duty("M1"), duty("M2")}
        BY DEF DriveTarget, Pins
  <2> QED
      BY <1>2, <2>1, <2>2 DEF Target
<1>4. \A p \in Pins \ {"EN_M1", "EN_M2"} : Target(p) \in {0, 1}
      BY DEF Target, DriveTarget, Pins
<1>5. ASSUME NEW m \in Motors
      PROVE  /\ Target(InA(m)) = (IF Senses[m] = 1 THEN 1 ELSE 0)
             /\ Target(InB(m)) = (IF Senses[m] = -1 THEN 1 ELSE 0)
             /\ branch # "trip" =>
                   Target(En(m)) = calculate_pwm_with_deadband(Wanted[m])
  <2>1. /\ Wanted[m] \in Int /\ Senses[m] = Sign(Wanted[m])
        /\ branch = "trip" => Wanted[m] = 0
        /\ branch # "trip" => Wanted[m] = Wheels(copy)[m]
        BY SensesType
  <2>2. CASE branch = "trip"
        BY <2>1, <2>2 DEF Target, Sign
  <2>3. CASE branch # "trip"
    <3>1. /\ DriveTarget(copy)[InA(m)] = (IF Wheels(copy)[m] > 0 THEN 1 ELSE 0)
          /\ DriveTarget(copy)[InB(m)] = (IF Wheels(copy)[m] < 0 THEN 1 ELSE 0)
          /\ DriveTarget(copy)[En(m)] = calculate_pwm_with_deadband(Wheels(copy)[m])
          BY DEF DriveTarget, InA, InB, En, Motors
    <3> QED
        BY <2>1, <2>3, <3>1 DEF Target, Sign
  <2> QED
      BY <2>2, <2>3
<1> QED
    BY <1>3, <1>4, <1>5

\* The pin the next write is to.
NextPin == IF branch = "trip" THEN TripOrder[step] ELSE DriveOrder[step]

\* The order of the writes names every pin once.
LEMMA OrderPlaces ==
    ASSUME PlacesType
    PROVE  /\ NextPin \in Pins /\ Place(NextPin) = step
           /\ \A p \in Pins : Place(p) \in 1 .. 7 /\ (Place(p) = step => p = NextPin)
<1>1. step \in {1, 2, 3, 4, 5, 6, 7}
      BY DEF PlacesType
<1>2. CASE branch = "trip"
      BY <1>1, <1>2 DEF NextPin, TripOrder, Place, TripPlace, Pins
<1>3. CASE branch # "trip"
      BY <1>1, <1>3 DEF NextPin, DriveOrder, Place, DrivePlace, Pins
<1> QED
    BY <1>2, <1>3

\* onStart cuts a pin that is not the LED.
LEMMA CutPins == ASSUME PlacesType PROVE CutOrder[cut] \in Pins
<1>1. cut \in {1, 2, 3, 4, 5, 6}
      BY DEF PlacesType
<1>2. TripOrder \in Seq(Pins) /\ Len(TripOrder) = 7
      BY DEF TripOrder, Pins
<1>3. CutOrder[cut] = TripOrder[cut]
      BY <1>1, <1>2 DEF CutOrder
<1> QED
    BY <1>1, <1>3 DEF TripOrder, Pins

\* The programs of the two tasks, without the outputs.
LEMMA ProgramStep == CommandsType /\ PlacesType /\ [Next]_vars
                        => CommandsType' /\ PlacesType'
<1> SUFFICES ASSUME CommandsType, PlacesType, [Next]_vars
             PROVE  CommandsType' /\ PlacesType'
    OBVIOUS
<1> USE DEF CommandsType, PlacesType, control
<1>1. CASE Sample
  <2>1. before' = [m \in Motors |-> Senses[m]]
        BY <1>1 DEF Sample, Senses
  <2>2. \A m \in Motors : Senses[m] \in {-1, 0, 1}
        BY SensesType
  <2> QED
      BY <1>1, <2>1, <2>2 DEF Sample
<1>2. CASE Check
      BY <1>2 DEF Check
<1>3. CASE Write
      BY <1>3 DEF Write
<1>4. CASE Connected \/ Text \/ Disconnected \/ OtaStart \/ CutOutput \/ OtaError
  <2>1. UNCHANGED <<copy, ctl, branch, step, before, freshLocal>>
        BY <1>4 DEF Connected, Text, Disconnected, OtaStart, CutOutput, OtaError
  <2>2. cell' \in Motions
        BY <1>4 DEF Connected, Text, Disconnected, OtaStart, CutOutput, OtaError, Motions
  <2>3. web' \in {"wifi", "loop", "cut", "uploading"} /\ cut' \in 1 .. 6
        BY <1>4 DEF Connected, Text, Disconnected, OtaStart, CutOutput, OtaError
  <2>4. fresh' \in BOOLEAN
        BY <1>4 DEF Connected, Text, Disconnected, OtaStart, CutOutput, OtaError
  <2>5. disturbed' \in BOOLEAN
        BY <1>4 DEF Connected, Text, Disconnected, OtaStart, CutOutput, OtaError
  <2> QED
      BY <2>1, <2>2, <2>3, <2>4, <2>5
<1>5. CASE OtaEnd
  <2>1. before' \in [Motors -> {-1, 0, 1}]
        BY <1>5 DEF OtaEnd
  <2>2. fresh' \in BOOLEAN /\ freshLocal' \in BOOLEAN /\ disturbed' \in BOOLEAN
        BY <1>5 DEF OtaEnd
  <2>3. cell' \in Motions /\ copy' \in Motions
        BY <1>5 DEF OtaEnd, Motions
  <2> QED
      BY <1>5, <2>1, <2>2, <2>3 DEF OtaEnd
<1>6. CASE Expire \/ UNCHANGED vars
      BY <1>6 DEF Expire, vars
<1> QED
    BY <1>1, <1>2, <1>3, <1>4, <1>5, <1>6 DEF Next, Control, WebServer

\* What a write of Task_Control does to the pins and to what counts as written.
LEMMA WriteEffect ==
    ASSUME CommandsType, PlacesType, Write
    PROVE  /\ out' = [out EXCEPT ![NextPin] = Target(NextPin)]
           /\ NextPin \in Pins
           /\ \A p \in Pins : Written(p)' <=> Written(p) \/ p = NextPin
           /\ \A p \in Pins : Target(p)' = Target(p)
           /\ \A m \in Motors : Senses[m]' = Senses[m] /\ before'[m] = before[m]
           /\ disturbed' = disturbed
<1>1. /\ ctl = "write" /\ step \in 1 .. 7
      /\ IF step < 7 THEN step' = step + 1 /\ ctl' = "write"
                     ELSE step' = 1 /\ ctl' = "sample"
      /\ UNCHANGED <<copy, branch, before, disturbed>>
      BY DEF Write, PlacesType
<1>2. out' = [out EXCEPT ![NextPin] = Target(NextPin)]
      BY DEF Write, NextPin, Target
<1>3. /\ NextPin \in Pins /\ Place(NextPin) = step
      /\ \A p \in Pins : Place(p) \in 1 .. 7 /\ (Place(p) = step => p = NextPin)
      BY OrderPlaces
<1>4. ASSUME NEW p \in Pins PROVE Written(p)' <=> Written(p) \/ p = NextPin
  <2>1. Place(p)' = Place(p) /\ Place(p) \in 1 .. 7
        BY <1>1, <1>3 DEF Place
  <2>2. Written(p)' <=> (ctl' = "sample" \/ (ctl' = "write" /\ Place(p) < step'))
        BY <2>1 DEF Written
  <2>3. Written(p) <=> Place(p) < step
        BY <1>1 DEF Written
  <2> QED
      BY <1>1, <1>3, <2>1, <2>2, <2>3
<1>5. \A p \in Pins : Target(p)' = Target(p)
      BY <1>1 DEF Target
<1>6. \A m \in Motors : Senses[m]' = Senses[m]
      BY <1>1 DEF Senses, Wanted
<1> QED
    BY <1>1, <1>2, <1>3, <1>4, <1>5, <1>6

\* The outputs carry levels and duties.
LEMMA OutStep == Types /\ [Next]_vars => OutType'
<1> SUFFICES ASSUME Types, [Next]_vars PROVE OutType'
    OBVIOUS
<1> USE DEF Types, OutType
<1>1. CASE Write
  <2>1. out' = [out EXCEPT ![NextPin] = Target(NextPin)] /\ NextPin \in Pins
        BY <1>1, WriteEffect
  <2>2. /\ Target(NextPin) \in 0 .. PWM_TOP
        /\ NextPin \notin {"EN_M1", "EN_M2"} => Target(NextPin) \in {0, 1}
        BY <2>1, TargetType
  <2> QED
      BY <2>1, <2>2
<1>2. CASE CutOutput
  <2>1. out' = [out EXCEPT ![CutOrder[cut]] = 0] /\ CutOrder[cut] \in Pins
        BY <1>2, CutPins DEF CutOutput
  <2> QED
      BY <2>1 DEF PWM_TOP
<1>3. CASE OtaEnd
      BY <1>3 DEF OtaEnd, AllLow, PWM_TOP
<1>4. CASE UNCHANGED out
      BY <1>4
<1>5. CASE Sample \/ Check \/ Connected \/ Text \/ Disconnected \/ OtaStart \/ OtaError
           \/ Expire \/ UNCHANGED vars
  <2>1. UNCHANGED out
        BY <1>5 DEF Sample, Check, Connected, Text, Disconnected, OtaStart, OtaError,
                    Expire, vars
  <2> QED
      BY <1>4, <2>1
<1> QED
    BY <1>1, <1>2, <1>3, <1>5 DEF Next, Control, WebServer

\* A board that starts is still, which is what it was asked.
LEMMA StillBoard ==
    ASSUME copy = Rest, branch = "drive", out = AllLow, ctl = "sample"
    PROVE  SenseInv /\ WrittenInv
<1>1. SenseInv
      BY DEF SenseInv, AllLow, InA, InB, Motors, Pins
<1>2. Wheels(Rest)["M1"] = 0 /\ Wheels(Rest)["M2"] = 0
  <2>1. 20 * RIM * 0 = 0 /\ 19 * RIM * 0 = 0
        BY L298Assumption
  <2> QED
      BY <2>1 DEF Wheels, Rest
<1>3. calculate_pwm_with_deadband(0) = 0
      BY DEF calculate_pwm_with_deadband, Magnitude, DEADBAND
<1>4. \A p \in Pins : DriveTarget(Rest)[p] = 0
      BY <1>2, <1>3 DEF DriveTarget, Pins
<1>5. WrittenInv
      BY <1>4 DEF WrittenInv, Target, AllLow
<1> QED
    BY <1>1, <1>5

\* Steps that leave the outputs and the iteration alone.
IdleStep == UNCHANGED <<copy, ctl, branch, step, before, out, disturbed>>

\* Each pin is HIGH only for the sense wanted by the iteration that wrote it.
LEMMA SenseStep == Types /\ SenseInv /\ [Next]_vars => SenseInv'
<1> SUFFICES ASSUME Types, SenseInv, [Next]_vars PROVE SenseInv'
    OBVIOUS
<1> USE DEF Types
<1>0. \A m \in Motors : InA(m) \in Pins /\ InB(m) \in Pins
      BY DEF InA, InB, Pins
<1>1. CASE Write
  <2>1. /\ out' = [out EXCEPT ![NextPin] = Target(NextPin)]
        /\ NextPin \in Pins /\ out \in [Pins -> 0 .. PWM_TOP]
        /\ \A p \in Pins : Written(p)' <=> Written(p) \/ p = NextPin
        /\ \A m \in Motors : Senses[m]' = Senses[m] /\ before'[m] = before[m]
        BY <1>1, WriteEffect DEF OutType
  <2> SUFFICES ASSUME NEW m \in Motors
               PROVE  /\ out'[InA(m)] = 1 => Governs(InA(m), m)' = 1
                      /\ out'[InB(m)] = 1 => Governs(InB(m), m)' = -1
      BY DEF SenseInv
  <2>2. /\ Target(InA(m)) = (IF Senses[m] = 1 THEN 1 ELSE 0)
        /\ Target(InB(m)) = (IF Senses[m] = -1 THEN 1 ELSE 0)
        BY TargetType
  <2>3. ASSUME NEW p \in Pins
        PROVE  /\ p = NextPin => out'[p] = Target(p) /\ Governs(p, m)' = Senses[m]
               /\ p # NextPin => out'[p] = out[p] /\ Governs(p, m)' = Governs(p, m)
        BY <2>1 DEF Governs
  <2>4. /\ out[InA(m)] = 1 => Governs(InA(m), m) = 1
        /\ out[InB(m)] = 1 => Governs(InB(m), m) = -1
        BY DEF SenseInv
  <2> QED
      BY <1>0, <2>2, <2>3, <2>4
<1>2. CASE CutOutput
  <2>1. /\ out' = [out EXCEPT ![CutOrder[cut]] = 0] /\ out \in [Pins -> 0 .. PWM_TOP]
        /\ UNCHANGED <<copy, ctl, branch, step, before>>
        BY <1>2 DEF CutOutput, OutType, control
  <2>2. \A p \in Pins : out'[p] = 1 => out[p] = 1
        BY <2>1
  <2>3. \A p \in Pins, m \in Motors : Governs(p, m)' = Governs(p, m)
        BY <2>1 DEF Governs, Written, Place, Senses, Wanted
  <2> QED
      BY <1>0, <2>2, <2>3 DEF SenseInv
<1>3. CASE OtaEnd
  <2>1. copy' = Rest /\ branch' = "drive" /\ out' = AllLow /\ ctl' = "sample"
        BY <1>3 DEF OtaEnd
  <2> QED
      BY <2>1 DEF SenseInv, AllLow, InA, InB, Motors, Pins
<1>4. CASE Sample
  <2>1. /\ ctl = "sample" /\ ctl' = "check" /\ out' = out
        /\ \A m \in Motors : before'[m] = Senses[m]
        BY <1>4 DEF Sample, Senses
  <2>2. \A p \in Pins, m \in Motors : Governs(p, m)' = Governs(p, m)
        BY <2>1 DEF Governs, Written
  <2> QED
      BY <1>0, <2>1, <2>2 DEF SenseInv
<1>5. CASE Check
  <2>1. /\ ctl = "check" /\ ctl' = "write" /\ step = 1 /\ step' = 1
        /\ UNCHANGED <<out, before>>
        BY <1>5 DEF Check, PlacesType
  <2>2. CommandsType' /\ PlacesType'
        BY ProgramStep
  <2>3. \A p \in Pins : ~Written(p)
        BY <2>1 DEF Written
  <2>4. \A p \in Pins : Place(p)' \in 1 .. 7
        BY <2>2 DEF Place, PlacesType, DrivePlace, TripPlace, Pins
  <2>5. \A p \in Pins : ~Written(p)'
        BY <2>1, <2>4 DEF Written
  <2>6. \A p \in Pins, m \in Motors : Governs(p, m)' = Governs(p, m)
        BY <2>1, <2>3, <2>5 DEF Governs
  <2> QED
      BY <1>0, <2>1, <2>6 DEF SenseInv
<1>6. CASE IdleStep
  <2>1. \A p \in Pins, m \in Motors : Governs(p, m)' = Governs(p, m)
        BY <1>6 DEF IdleStep, Governs, Written, Place, Senses, Wanted
  <2> QED
      BY <1>0, <1>6, <2>1 DEF IdleStep, SenseInv
<1>7. CASE Connected \/ Text \/ Disconnected \/ OtaStart \/ OtaError \/ Expire
           \/ UNCHANGED vars
  <2>1. IdleStep
        BY <1>7 DEF Connected, Text, Disconnected, OtaStart, OtaError, Expire, vars,
                    control, IdleStep
  <2> QED
      BY <1>6, <2>1
<1> QED
    BY <1>1, <1>2, <1>3, <1>4, <1>5, <1>7 DEF Next, Control, WebServer

\* What the iteration has written stays, or is cut.
LEMMA WrittenStep == Types /\ WrittenInv /\ [Next]_vars => WrittenInv'
<1> SUFFICES ASSUME Types, WrittenInv, [Next]_vars PROVE WrittenInv'
    OBVIOUS
<1> USE DEF Types
<1>1. CASE Write
  <2>1. /\ out' = [out EXCEPT ![NextPin] = Target(NextPin)]
        /\ NextPin \in Pins /\ out \in [Pins -> 0 .. PWM_TOP]
        /\ \A p \in Pins : Written(p)' <=> Written(p) \/ p = NextPin
        /\ \A p \in Pins : Target(p)' = Target(p)
        /\ disturbed' = disturbed
        BY <1>1, WriteEffect DEF OutType
  <2> SUFFICES ASSUME NEW p \in Pins, Written(p)'
               PROVE  out'[p] = Target(p)' \/ (disturbed' /\ out'[p] = 0)
      BY DEF WrittenInv
  <2>2. CASE p = NextPin
        BY <2>1, <2>2
  <2>3. CASE p # NextPin
        BY <2>1, <2>3 DEF WrittenInv
  <2> QED
      BY <2>2, <2>3
<1>2. CASE CutOutput
  <2>1. /\ out' = [out EXCEPT ![CutOrder[cut]] = 0] /\ out \in [Pins -> 0 .. PWM_TOP]
        /\ disturbed' = TRUE /\ UNCHANGED <<copy, ctl, branch, step, before>>
        BY <1>2 DEF CutOutput, OutType, control
  <2>2. \A p \in Pins : out'[p] = out[p] \/ out'[p] = 0
        BY <2>1
  <2>3. \A p \in Pins : Written(p)' = Written(p) /\ Target(p)' = Target(p)
        BY <2>1 DEF Written, Place, Target
  <2> QED
      BY <2>1, <2>2, <2>3 DEF WrittenInv
<1>3. CASE OtaEnd
  <2>1. (copy = Rest /\ branch = "drive" /\ out = AllLow /\ ctl = "sample")'
        BY <1>3 DEF OtaEnd
  <2>2. (copy = Rest /\ branch = "drive" /\ out = AllLow /\ ctl = "sample") => WrittenInv
        BY StillBoard
  <2>3. ((copy = Rest /\ branch = "drive" /\ out = AllLow /\ ctl = "sample") => WrittenInv)'
        BY StillBoard, PTL
  <2> QED
      BY <2>1, <2>3
<1>4. CASE Sample
      BY <1>4 DEF Sample, WrittenInv, Written
<1>5. CASE Check
  <2>1. ctl' = "write" /\ step' = 1 /\ CommandsType' /\ PlacesType'
        BY <1>5, ProgramStep DEF Check, PlacesType
  <2>2. \A p \in Pins : Place(p)' \in 1 .. 7
        BY <2>1 DEF Place, PlacesType, DrivePlace, TripPlace, Pins
  <2>3. \A p \in Pins : ~Written(p)'
        BY <2>1, <2>2 DEF Written
  <2> QED
      BY <2>3 DEF WrittenInv
<1>6. CASE IdleStep
      BY <1>6 DEF IdleStep, WrittenInv, Written, Place, Target
<1>7. CASE Connected \/ Text \/ Disconnected \/ OtaStart \/ OtaError \/ Expire
           \/ UNCHANGED vars
  <2>1. IdleStep
        BY <1>7 DEF Connected, Text, Disconnected, OtaStart, OtaError, Expire, vars,
                    control, IdleStep
  <2> QED
      BY <1>6, <2>1
<1> QED
    BY <1>1, <1>2, <1>3, <1>4, <1>5, <1>7 DEF Next, Control, WebServer

\* A board that starts satisfies the invariant.
LEMMA Initial == Init => Inv
<1> SUFFICES ASSUME Init PROVE Inv
    OBVIOUS
<1>1. CommandsType
      BY DEF Init, CommandsType, Motions
<1>2. PlacesType
  <2>1. before \in [Motors -> {-1, 0, 1}]
        BY DEF Init
  <2>2. disturbed \in BOOLEAN
        BY DEF Init
  <2> QED
      BY <2>1, <2>2 DEF Init, PlacesType
<1>3. OutType
      BY DEF Init, OutType, AllLow, PWM_TOP
<1>4. SenseInv /\ WrittenInv
      BY StillBoard DEF Init
<1> QED
    BY <1>1, <1>2, <1>3, <1>4 DEF Inv, Types

----------------------------------------------------------------------------
\* Inv holds of every state the robot reaches.
THEOREM Invariance == Spec => []Inv
<1>1. Inv /\ [Next]_vars => Inv'
      BY ProgramStep, OutStep, SenseStep, WrittenStep DEF Inv, Types
<1> QED
    BY Initial, <1>1, PTL DEF Spec

\* Every variable of EsteiraL298 keeps its type, the duties included.
THEOREM TypeCorrect == Spec => []TypeOK
<1>1. Inv => TypeOK
      BY DEF Inv, Types, CommandsType, PlacesType, OutType, TypeOK
<1> QED
    BY Invariance, <1>1, PTL

\* No motor turns in a sense that neither this iteration nor the one before
\* wanted, whatever speeds clients send and wherever onStart interferes.
THEOREM SensesAsAsked == Spec => []TurnsAsAsked
<1>1. Inv => TurnsAsAsked
  <2> SUFFICES ASSUME Inv, NEW m \in Motors
               PROVE  \/ Turns(m) \in {0, before[m]}
                      \/ ctl # "check" /\ Turns(m) = Senses[m]
      BY DEF TurnsAsAsked
  <2>1. Turns(m) = IF out[En(m)] = 0 THEN 0 ELSE out[InA(m)] - out[InB(m)]
        BY DEF Turns, En, InA, InB, Motors
  <2>2. /\ out[InA(m)] \in {0, 1} /\ out[InB(m)] \in {0, 1}
        BY DEF Inv, Types, OutType, InA, InB, Pins
  <2>3. /\ out[InA(m)] = 1 => Governs(InA(m), m) = 1
        /\ out[InB(m)] = 1 => Governs(InB(m), m) = -1
        BY DEF Inv, SenseInv
  <2>4. \/ Turns(m) = 0
        \/ Turns(m) = 1 /\ Governs(InA(m), m) = 1
        \/ Turns(m) = -1 /\ Governs(InB(m), m) = -1
        BY <2>1, <2>2, <2>3
  <2>5. /\ Governs(InA(m), m) = before[m]
              \/ (ctl # "check" /\ Governs(InA(m), m) = Senses[m])
        /\ Governs(InB(m), m) = before[m]
              \/ (ctl # "check" /\ Governs(InB(m), m) = Senses[m])
        BY DEF Governs, Written
  <2> QED
      BY <2>4, <2>5
<1> QED
    BY Invariance, <1>1, PTL

\* Between iterations every motor turns as the sampled command asks, unless
\* onStart cut it or its speed lies in the dead band.
THEOREM SampleFollowed == Spec => []FollowsSample
<1>1. Inv => FollowsSample
  <2> SUFFICES ASSUME Inv, ctl = "sample", NEW m \in Motors
               PROVE  \/ Turns(m) = Senses[m]
                      \/ Turns(m) = 0 /\ (disturbed \/
                            calculate_pwm_with_deadband(Wanted[m]) = 0)
      BY DEF FollowsSample
  <2>0. CommandsType /\ PlacesType
        BY DEF Inv, Types
  <2>1. Turns(m) = IF out[En(m)] = 0 THEN 0 ELSE out[InA(m)] - out[InB(m)]
        BY DEF Turns, En, InA, InB, Motors
  <2>2. InA(m) \in Pins /\ InB(m) \in Pins /\ En(m) \in Pins
        BY DEF InA, InB, En, Pins
  <2>3. \A p \in Pins : out[p] = Target(p) \/ (disturbed /\ out[p] = 0)
        BY DEF Inv, WrittenInv, Written
  <2>4. /\ Target(InA(m)) = (IF Senses[m] = 1 THEN 1 ELSE 0)
        /\ Target(InB(m)) = (IF Senses[m] = -1 THEN 1 ELSE 0)
        /\ branch # "trip" => Target(En(m)) = calculate_pwm_with_deadband(Wanted[m])
        /\ branch = "trip" => Target(En(m)) = 0
        BY <2>0, TargetType DEF Target
  <2>5. /\ Senses[m] \in {-1, 0, 1} /\ Senses[m] = Sign(Wanted[m])
        /\ branch = "trip" => Wanted[m] = 0
        BY <2>0, SensesType
  <2>6. CASE disturbed
        BY <2>1, <2>2, <2>3, <2>4, <2>5, <2>6 DEF Sign
  <2>7. CASE ~disturbed
        BY <2>1, <2>2, <2>3, <2>4, <2>5, <2>7 DEF Sign
  <2> QED
      BY <2>6, <2>7 DEF Inv, Types, PlacesType
<1> QED
    BY Invariance, <1>1, PTL

----------------------------------------------------------------------------
(***************************************************************************)
(* What every Robot promises, be it the firmware with a mutex or V2 and    *)
(* V3 without: `moved` keeps pace with silence that is past the timeout.   *)
(***************************************************************************)

RobotInv == /\ heard \in 0 .. FOREVER /\ moved \in 0 .. REACTION + 1
            /\ WATCHDOG < heard /\ heard < FOREVER =>
                   moved >= heard - WATCHDOG \/ moved = REACTION + 1
            /\ Obeys

LEMMA RobotStep == RobotInv /\ [RobotNext]_robot => RobotInv'
<1> SUFFICES ASSUME RobotInv, [RobotNext]_robot PROVE RobotInv'
    OBVIOUS
<1> USE RobotAssumption DEF RobotInv, Obeys
<1>1. ASSUME NEW m \in Commands, Hear(m) PROVE RobotInv'
      BY <1>1 DEF Hear
<1>2. CASE Halt
      BY <1>2 DEF Halt
<1>3. CASE Drive
      BY <1>3 DEF Drive
<1>4. CASE Elapse
  <2>1. /\ command' = command /\ driven' = driven
        /\ heard' = IF heard < FOREVER THEN heard + 1 ELSE heard
        /\ driven => moved' <= REACTION
        BY <1>4 DEF Elapse
  <2>2. moved' = IF InForce' THEN 0 ELSE IF moved <= REACTION THEN moved + 1 ELSE moved
        BY <1>4 DEF Elapse
  <2>3. WATCHDOG < heard' /\ heard' < FOREVER => ~InForce'
        BY <2>1 DEF InForce
  <2> HIDE DEF InForce
  <2> QED
      BY <2>1, <2>2, <2>3
<1>5. CASE Reboot
      BY <1>5 DEF Reboot, RobotInit
<1>6. CASE UNCHANGED robot
      BY <1>6 DEF robot
<1> QED
    BY <1>1, <1>2, <1>3, <1>4, <1>5, <1>6 DEF RobotNext

\* Silence longer than the timeout and the reaction finds the motors off, and so
\* does a stop after the reaction: whatever firmware implements Robot keeps this.
THEOREM RobotPromises == RobotSpec => [](Obeys /\ RestsInSilence)
<1>1. RobotInit => RobotInv
      BY RobotAssumption DEF RobotInit, RobotInv, Obeys
<1>2. RobotInv => Obeys /\ RestsInSilence
      BY RobotAssumption DEF RobotInv, Obeys, RestsInSilence
<1> QED
    BY <1>1, <1>2, RobotStep, PTL DEF RobotSpec

----------------------------------------------------------------------------
(***************************************************************************)
(* What the remote control promises when the last button is let go, for    *)
(* any number of connections and any delays.                               *)
(*                                                                         *)
(* The bound follows a command back to the button: a moving robot obeys a  *)
(* request that was let go of at most DELAY before it was handled, a       *)
(* request under way was let go of at most its own age ago, and only a     *)
(* running interval, which needs a held button, sends new ones.  The       *)
(* motors follow Robot: as long after a motion was in force as they were   *)
(* let go of after that.                                                   *)
(***************************************************************************)

\* The interval runs only while a button is held.
LoopNeedsHold == timer # None => Held

\* The age is what it says.
LetGoInv == Held => letGo = 0

\* A motion under way was let go of no longer ago than it was sent.
RequestInv == \A c \in Conns : req[c].dir \in Dirs => letGo <= req[c].age

\* The motion in sharedCmd took at most DELAY to arrive.
CommandInv == command \in Dirs => letGo <= DELAY + heard

\* While the motors may still run, the last button was let go of no longer ago
\* than the motion may have been in force, and the time since.
MotorsInv == /\ driven => moved <= REACTION
             /\ moved <= REACTION => letGo <= DELAY + WATCHDOG + moved

HttpInv == /\ HttpTypeOK /\ LoopNeedsHold /\ LetGoInv
           /\ RequestInv /\ CommandInv /\ MotorsInv

----------------------------------------------------------------------------
\* A button's direction is a command, but not the stop.
LEMMA Directions == /\ Dirs \subseteq Commands /\ Stop \in Commands /\ Stop \notin Dirs
                    /\ None \notin Dirs /\ \A m \in Commands : m # Stop => m \in Dirs
BY RobotAssumption, TeleopHttpAssumption DEF Dirs

\* What enviar does to the requests: one idle connection now carries dir.
LEMMA Sending ==
    ASSUME HttpTypeOK, NEW dir \in Commands, enviar(dir),
           dir \in Dirs => letGo = 0, RequestInv
    PROVE  /\ req' \in [Conns -> {Idle} \cup [dir : Commands, age : 0 .. DELAY]]
           /\ \A c \in Conns : req'[c].dir \in Dirs => letGo <= req'[c].age
<1>2. PICK c \in Conns : req' = [req EXCEPT ![c] = [dir |-> dir, age |-> 0]]
  BY DEF enviar
<1>3. [dir |-> dir, age |-> 0] \in [dir : Commands, age : 0 .. DELAY]
  BY TeleopHttpAssumption
<1>4. req' \in [Conns -> {Idle} \cup [dir : Commands, age : 0 .. DELAY]]
  BY <1>2, <1>3 DEF HttpTypeOK
<1>5. ASSUME NEW d \in Conns, req'[d].dir \in Dirs
      PROVE  letGo <= req'[d].age
  <2>1. CASE d = c
    BY <1>2, <1>5, <2>1 DEF HttpTypeOK
  <2>2. CASE d # c
    BY <1>2, <1>5, <2>2 DEF HttpTypeOK, RequestInv
  <2> QED BY <2>1, <2>2
<1> QED BY <1>4, <1>5

\* The steps of the page that may send or change the interval: they leave the
\* robot alone, and the interval ends up cleared or on a held button.
LEMMA PageStep ==
    ASSUME HttpInv, NEW dir \in Commands, cmd(dir),
           fingers' \subseteq Dirs, mouse' \in Dirs \cup {None},
           off' \in BOOLEAN, tap' \in Dirs \cup {None},
           dir \in Dirs => Held', UNCHANGED robot,
           letGo' = IF Held' THEN 0 ELSE letGo
    PROVE  HttpInv'
<1> USE TeleopHttpAssumption, RobotAssumption, Directions DEF HttpInv
<1>1. letGo' \in 0 .. RunOn + 1 /\ letGo' <= letGo
  BY DEF HttpTypeOK, RunOn
<1>2. timer' \in Dirs \cup {None} /\ (timer' # None => Held')
  BY DEF cmd
<1>3. /\ req' \in [Conns -> {Idle} \cup [dir : Commands, age : 0 .. DELAY]]
      /\ \A c \in Conns : req'[c].dir \in Dirs => letGo <= req'[c].age
  <2>1. CASE dir = Stop
    BY <2>1, Sending DEF cmd
  <2>2. CASE dir # Stop
    BY <2>2 DEF cmd, HttpTypeOK, RequestInv
  <2> QED BY <2>1, <2>2
<1>4. HttpTypeOK'
  BY <1>1, <1>2, <1>3 DEF HttpTypeOK, robot, RunOn, Idle
<1>5. RequestInv'
  <2> SUFFICES ASSUME NEW c \in Conns, req'[c].dir \in Dirs
               PROVE  letGo' <= req'[c].age
    BY DEF RequestInv
  <2>1. req'[c] \in {Idle} \cup [dir : Commands, age : 0 .. DELAY]
    BY <1>3
  <2>2. req'[c].age \in Int
    BY <2>1 DEF Idle
  <2> QED BY <1>1, <1>3, <2>2 DEF HttpTypeOK, RunOn
<1>6. CommandInv' /\ MotorsInv'
  BY <1>1 DEF CommandInv, MotorsInv, robot, HttpTypeOK, RunOn
<1>7. LoopNeedsHold' /\ LetGoInv'
  BY <1>2 DEF LoopNeedsHold, LetGoInv
<1> QED BY <1>4, <1>5, <1>6, <1>7

----------------------------------------------------------------------------
\* Every step keeps the invariant.
LEMMA HttpInductive == HttpInv /\ [HttpNext]_httpVars => HttpInv'
<1> SUFFICES ASSUME HttpInv, [HttpNext]_httpVars PROVE HttpInv'
  OBVIOUS
<1> USE TeleopHttpAssumption, RobotAssumption, Directions DEF HttpInv
<1>1. ASSUME NEW d \in Dirs, touchstart(d) PROVE HttpInv'
  <2>1. d \in Commands /\ cmd(d) /\ Held'
    BY <1>1 DEF touchstart, Held
  <2>2. /\ fingers' \subseteq Dirs /\ mouse' \in Dirs \cup {None}
        /\ off' \in BOOLEAN /\ tap' \in Dirs \cup {None}
    BY <1>1 DEF touchstart, HttpTypeOK
  <2> QED BY <1>1, <2>1, <2>2, PageStep DEF touchstart, Holding
<1>2. ASSUME NEW d \in Dirs, touchend(d) PROVE HttpInv'
  <2>1. cmd(Stop) /\ Stop \in Commands /\ Stop \notin Dirs
    BY <1>2 DEF touchend
  <2>2. /\ fingers' \subseteq Dirs /\ mouse' \in Dirs \cup {None}
        /\ off' \in BOOLEAN /\ tap' \in Dirs \cup {None}
    BY <1>2 DEF touchend, HttpTypeOK
  <2> QED BY <1>2, <2>1, <2>2, PageStep DEF touchend, Holding
<1>3. ASSUME NEW d \in Dirs, mousedown(d) PROVE HttpInv'
  <2>1. d \in Commands /\ cmd(d) /\ Held'
    BY <1>3 DEF mousedown, Held
  <2>2. /\ fingers' \subseteq Dirs /\ mouse' \in Dirs \cup {None}
        /\ off' \in BOOLEAN /\ tap' \in Dirs \cup {None}
    BY <1>3 DEF mousedown, HttpTypeOK
  <2> QED BY <1>3, <2>1, <2>2, PageStep DEF mousedown, Holding
<1>4. ASSUME tapDown PROVE HttpInv'
  <2>1. tap \in Dirs /\ cmd(tap) /\ Held'
    BY <1>4 DEF tapDown, Held, HttpTypeOK
  <2>2. /\ fingers' \subseteq Dirs /\ mouse' \in Dirs \cup {None}
        /\ off' \in BOOLEAN /\ tap' \in Dirs \cup {None}
    BY <1>4 DEF tapDown, HttpTypeOK
  <2> QED BY <1>4, <2>1, <2>2, PageStep DEF tapDown, Holding
<1>5. ASSUME mouseup PROVE HttpInv'
  <2>1. cmd(Stop) /\ Stop \in Commands /\ Stop \notin Dirs
    BY <1>5 DEF mouseup
  <2>2. /\ fingers' \subseteq Dirs /\ mouse' \in Dirs \cup {None}
        /\ off' \in BOOLEAN /\ tap' \in Dirs \cup {None}
    BY <1>5 DEF mouseup, HttpTypeOK
  <2> QED BY <1>5, <2>1, <2>2, PageStep DEF mouseup, Holding
<1>6. ASSUME mouseleave PROVE HttpInv'
  BY <1>6 DEF mouseleave, HttpTypeOK, LoopNeedsHold, LetGoInv, RequestInv, CommandInv,
              MotorsInv, Held, robot
<1>7. ASSUME mouseupElsewhere PROVE HttpInv'
  <2>1. letGo' \in 0 .. RunOn + 1 /\ letGo' <= letGo
    BY <1>7 DEF mouseupElsewhere, Holding, HttpTypeOK, RunOn
  <2>2. UNCHANGED <<fingers, tap, req, command, heard, moved, driven>> /\ timer' = None
    BY <1>7 DEF mouseupElsewhere, robot
  <2>3. HttpTypeOK'
    BY <1>7, <2>1, <2>2 DEF mouseupElsewhere, HttpTypeOK, RunOn, Idle
  <2>4. LoopNeedsHold' /\ LetGoInv'
    BY <1>7, <2>2 DEF mouseupElsewhere, Holding, LoopNeedsHold, LetGoInv
  <2>5. ASSUME NEW c \in Conns, req[c].dir \in Dirs
        PROVE  letGo' <= req[c].age
    <3>1. req[c].age \in Int
      BY DEF HttpTypeOK, Idle
    <3> QED BY <2>1, <2>5, <3>1 DEF RequestInv, HttpTypeOK, RunOn
  <2>6. RequestInv' /\ CommandInv' /\ MotorsInv'
    BY <2>1, <2>2, <2>5 DEF RequestInv, CommandInv, MotorsInv, HttpTypeOK, RunOn
  <2> QED BY <2>3, <2>4, <2>6
<1>8. ASSUME touchendElsewhere PROVE HttpInv'
  BY <1>8 DEF touchendElsewhere, input, robot, HttpTypeOK, LoopNeedsHold, LetGoInv,
              RequestInv, CommandInv, MotorsInv, Held
<1>9. ASSUME stop PROVE HttpInv'
  <2>1. letGo' = IF Held' THEN 0 ELSE letGo
    BY <1>9 DEF stop, input, Held, LetGoInv
  <2>2. /\ fingers' \subseteq Dirs /\ mouse' \in Dirs \cup {None}
        /\ off' \in BOOLEAN /\ tap' \in Dirs \cup {None}
    BY <1>9 DEF stop, input, HttpTypeOK
  <2>3. cmd(Stop) /\ Stop \in Commands /\ Stop \notin Dirs /\ UNCHANGED robot
    BY <1>9 DEF stop
  <2> QED BY <2>1, <2>2, <2>3, PageStep
<1>10. ASSUME fire PROVE HttpInv'
  <2>1. timer \in Dirs /\ letGo = 0 /\ enviar(timer)
    BY <1>10 DEF fire, HttpTypeOK, LoopNeedsHold, LetGoInv
  <2>2. /\ req' \in [Conns -> {Idle} \cup [dir : Commands, age : 0 .. DELAY]]
        /\ \A c \in Conns : req'[c].dir \in Dirs => letGo <= req'[c].age
    BY <2>1, Sending
  <2>3. UNCHANGED <<fingers, mouse, off, tap, timer, robot, letGo>>
    BY <1>10 DEF fire, input
  <2>4. HttpTypeOK'
    BY <2>2, <2>3 DEF HttpTypeOK, RunOn, Idle, robot
  <2>5. LoopNeedsHold' /\ LetGoInv' /\ CommandInv' /\ RequestInv' /\ MotorsInv'
    BY <2>2, <2>3 DEF LoopNeedsHold, LetGoInv, CommandInv, RequestInv, MotorsInv, Held, robot
  <2> QED BY <2>4, <2>5
<1>11. ASSUME NEW c \in Conns, acao(c) \/ acaoDropped(c) PROVE HttpInv'
  <2>1. req[c] # Idle /\ req' = [req EXCEPT ![c] = Idle]
    BY <1>11 DEF acao, acaoDropped, Done
  <2>2. UNCHANGED <<fingers, mouse, off, tap, timer, letGo>>
    BY <1>11 DEF acao, acaoDropped, input
  <2>3. req[c] \in [dir : Commands, age : 0 .. DELAY]
    BY <2>1 DEF HttpTypeOK
  <2>4. \/ Hear(req[c].dir)
        \/ UNCHANGED robot
    BY <1>11 DEF acao, acaoDropped
  <2>5. req' \in [Conns -> {Idle} \cup [dir : Commands, age : 0 .. DELAY]]
    BY <2>1 DEF HttpTypeOK
  <2>6. /\ command' \in Commands /\ heard' \in 0 .. FOREVER - 1
        /\ moved' \in 0 .. REACTION + 1 /\ driven' \in BOOLEAN
    BY <2>3, <2>4 DEF HttpTypeOK, Hear, robot
  <2>7. HttpTypeOK'
    BY <2>2, <2>5, <2>6 DEF HttpTypeOK, RunOn, Idle
  <2>8. LoopNeedsHold' /\ LetGoInv'
    BY <2>2 DEF LoopNeedsHold, LetGoInv, Held
  <2>9. RequestInv'
    <3> SUFFICES ASSUME NEW e \in Conns, req'[e].dir \in Dirs
                 PROVE  letGo' <= req'[e].age
      BY DEF RequestInv
    <3>1. e # c
      BY <2>1 DEF Idle, HttpTypeOK
    <3>2. req'[e] = req[e]
      BY <2>1, <3>1 DEF HttpTypeOK
    <3> QED BY <2>2, <3>2 DEF RequestInv
  <2>10. CommandInv'
    <3>1. CASE Hear(req[c].dir)
      <4>1. req[c].dir \in Dirs => letGo <= req[c].age
        BY DEF RequestInv
      <4>2. req[c].age \in 0 .. DELAY
        BY <2>3
      <4> QED BY <2>2, <3>1, <4>1, <4>2 DEF Hear, CommandInv, HttpTypeOK, RunOn
    <3>2. CASE UNCHANGED robot
      BY <2>2, <3>2 DEF CommandInv, robot
    <3> QED BY <2>4, <3>1, <3>2
  <2>11. MotorsInv'
    <3>1. CASE Hear(req[c].dir)
      <4>1. driven' = driven /\ heard' = 0 /\ command' \in Commands
        BY <2>6, <3>1 DEF Hear
      <4>2. CASE InForce'
        <5>1. moved' = 0 /\ command' \in Dirs
          BY <3>1, <4>1, <4>2 DEF Hear, InForce, Dirs
        <5>2. letGo' <= DELAY
          BY <2>7, <2>10, <4>1, <5>1 DEF CommandInv, HttpTypeOK, RunOn
        <5> QED BY <2>2, <4>1, <5>1, <5>2 DEF MotorsInv, HttpTypeOK, RunOn
      <4>3. CASE ~InForce'
        <5>1. moved' = moved
          BY <3>1, <4>3 DEF Hear
        <5> QED BY <2>2, <4>1, <5>1 DEF MotorsInv
      <4> QED BY <4>2, <4>3
    <3>2. CASE UNCHANGED robot
      BY <2>2, <3>2 DEF MotorsInv, robot
    <3> QED BY <2>4, <3>1, <3>2
  <2> QED BY <2>7, <2>8, <2>9, <2>10, <2>11
<1>12. ASSUME Tick PROVE HttpInv'
  <2>1. /\ UNCHANGED <<fingers, mouse, off, tap, timer>>
        /\ heard + 1 < FOREVER /\ Elapse
    BY <1>12 DEF Tick, input
  <2>2. /\ letGo' \in 0 .. RunOn + 1 /\ letGo' <= letGo + 1
        /\ Held => letGo' = 0
    BY <1>12 DEF Tick, HttpTypeOK, RunOn
  <2>3. ASSUME NEW c \in Conns
        PROVE  /\ req'[c] \in {Idle} \cup [dir : Commands, age : 0 .. DELAY]
               /\ req'[c].dir \in Dirs =>
                     req[c].dir \in Dirs /\ req'[c].age = req[c].age + 1
    <3>1. CASE req[c] = Idle
      BY <1>12, <3>1 DEF Tick, Idle
    <3>2. CASE req[c] # Idle
      <4>1. req[c] \in [dir : Commands, age : 0 .. DELAY] /\ req[c].age < DELAY
        BY <1>12, <3>2 DEF Tick, HttpTypeOK
      <4>2. req'[c] = [req[c] EXCEPT !.age = @ + 1]
        BY <1>12, <3>2 DEF Tick
      <4> QED BY <4>1, <4>2
    <3> QED BY <3>1, <3>2
  <2>4. req' = [c \in Conns |-> req'[c]]
    BY <1>12 DEF Tick
  <2>5. /\ UNCHANGED <<command, driven>> /\ heard' = heard + 1
        /\ heard' \in 0 .. FOREVER - 1 /\ moved' \in 0 .. REACTION + 1
    BY <2>1 DEF Elapse, HttpTypeOK
  <2>6. HttpTypeOK'
    BY <2>1, <2>2, <2>3, <2>4, <2>5 DEF HttpTypeOK, RunOn, Idle
  <2>7. LoopNeedsHold' /\ LetGoInv'
    BY <2>1, <2>2 DEF LoopNeedsHold, LetGoInv, Held
  <2>8. RequestInv'
    <3> SUFFICES ASSUME NEW c \in Conns, req'[c].dir \in Dirs
                 PROVE  letGo' <= req'[c].age
      BY DEF RequestInv
    <3>1. letGo <= req[c].age /\ req'[c].age = req[c].age + 1
      BY <2>3 DEF RequestInv
    <3>2. req[c].age \in Int
      BY DEF HttpTypeOK, Idle
    <3> QED BY <2>2, <3>1, <3>2 DEF HttpTypeOK, RunOn
  <2>9. CommandInv'
    BY <2>2, <2>5 DEF CommandInv, HttpTypeOK, RunOn
  <2>10. MotorsInv'
    <3>1. driven' => moved' <= REACTION
      BY <2>1, <2>5 DEF Elapse
    <3>2. CASE InForce'
      <4>1. moved' = 0 /\ command' \in Dirs /\ heard' <= WATCHDOG
        BY <2>1, <2>5, <2>6, <3>2 DEF Elapse, InForce, HttpTypeOK, Dirs
      <4>2. letGo' <= DELAY + WATCHDOG
        BY <2>2, <2>5, <2>9, <4>1 DEF CommandInv, RunOn
      <4> QED BY <3>1, <4>1, <4>2 DEF MotorsInv
    <3>3. CASE ~InForce'
      <4>1. moved' = IF moved <= REACTION THEN moved + 1 ELSE moved
        BY <2>1, <3>3 DEF Elapse
      <4> QED BY <2>2, <3>1, <4>1 DEF MotorsInv, HttpTypeOK, RunOn
    <3> QED BY <3>2, <3>3
  <2> QED BY <2>6, <2>7, <2>8, <2>9, <2>10
<1>13. CASE UNCHANGED httpVars
  BY <1>13 DEF httpVars, input, robot, HttpTypeOK, LoopNeedsHold, LetGoInv, RequestInv,
               CommandInv, MotorsInv, Held
<1>14. ASSUME Follow PROVE HttpInv'
  <2>1. UNCHANGED <<fingers, mouse, off, tap, timer, req, letGo, command, heard, moved>>
    BY <1>14 DEF Follow, Drive, input
  <2>2. driven' \in BOOLEAN /\ (driven' => moved <= REACTION)
    BY <1>14 DEF Follow, Drive
  <2> QED
    BY <2>1, <2>2 DEF HttpTypeOK, LoopNeedsHold, LetGoInv, RequestInv, CommandInv,
                      MotorsInv, Held
<1> QED
  BY <1>1, <1>2, <1>3, <1>4, <1>5, <1>6, <1>7, <1>8, <1>9, <1>10, <1>11, <1>12,
     <1>13, <1>14 DEF HttpNext, Page

\* A page just loaded satisfies it.
LEMMA HttpInitial == HttpInit => HttpInv
<1> SUFFICES ASSUME HttpInit PROVE HttpInv
  OBVIOUS
<1> USE TeleopHttpAssumption, RobotAssumption, Directions DEF HttpInit, RobotInit
<1>1. \A c \in Conns : req[c] = Idle /\ req[c].dir \notin Dirs
  BY DEF Idle
<1>2. HttpTypeOK
  <2>1. req \in [Conns -> {Idle} \cup [dir : Commands, age : 0 .. DELAY]]
    OBVIOUS
  <2>2. /\ heard \in 0 .. FOREVER - 1 /\ letGo \in 0 .. RunOn + 1
        /\ moved \in 0 .. REACTION + 1 /\ driven \in BOOLEAN
    <3>1. 0 \in 0 .. FOREVER - 1 /\ REACTION + 1 \in 0 .. REACTION + 1
          /\ RunOn + 1 \in 0 .. RunOn + 1
      BY DEF RunOn
    <3>2. heard = 0 /\ letGo = RunOn + 1 /\ moved = REACTION + 1 /\ driven = FALSE
      OBVIOUS
    <3> HIDE DEF HttpInit, RobotInit
    <3> QED BY <3>1, <3>2
  <2>3. /\ fingers \subseteq Dirs /\ mouse \in Dirs \cup {None}
        /\ off \in BOOLEAN /\ tap \in Dirs \cup {None}
        /\ timer \in Dirs \cup {None} /\ command \in Commands
    OBVIOUS
  <2> QED BY <2>1, <2>2, <2>3 DEF HttpTypeOK
<1>3. LoopNeedsHold /\ LetGoInv
  BY DEF LoopNeedsHold, LetGoInv, Held
<1>4. RequestInv /\ CommandInv /\ MotorsInv
  BY <1>1 DEF RequestInv, CommandInv, MotorsInv, Dirs
<1> QED BY <1>2, <1>3, <1>4 DEF HttpInv

\* The operator's dead man's switch over HTTP, down to the motors: they run at
\* most a request's delay, the watchdog's time and the robot's reaction after
\* the last button is let go.
THEOREM ReleaseBound == HttpSpec => []StopsAfterRelease
<1>1. HttpSpec => []HttpInv
  BY HttpInitial, HttpInductive, PTL DEF HttpSpec
<1>2. HttpInv => StopsAfterRelease
  BY TeleopHttpAssumption, RobotAssumption
     DEF HttpInv, MotorsInv, StopsAfterRelease, HttpTypeOK, RunOn
<1> QED BY <1>1, <1>2, PTL

\* Types, for every value of the constants.
THEOREM HttpTypeCorrect == HttpSpec => []HttpTypeOK
<1>1. HttpSpec => []HttpInv
  BY HttpInitial, HttpInductive, PTL DEF HttpSpec
<1> QED BY <1>1, PTL DEF HttpInv

=============================================================================
