-------------------------- MODULE TwistRos_proofs --------------------------
(***************************************************************************)
(* What V2 and V3 keep although nothing protects their shared variables,   *)
(* for all twists, timeouts, periods and widths of the tick count: the     *)
(* watchdog stops the motors in time, and mixtures of twists heal.         *)
(***************************************************************************)
EXTENDS TwistRobot, SequenceTheorems, TLAPS

Motors == {"EN_M1", "EN_M2"}

Duties == 0 .. 2047     \* 11 bits

\* A write to the LED is of a level, the others may be of a duty.
Outputs == {x \in [pin : Pins, value : Duties] : x.pin = "LED" => x.value \in {0, 1}}

Ages == 0 .. TICK_MOD

\* What the drive branch writes to a pin of the motors for the wheels' speeds.
WheelPins == Pins \ {"LED"}

WheelValue(p, left, right) ==
    CASE p = "INA_M1" -> Level(left > 0)
      [] p = "INB_M1" -> Level(left < 0)
      [] p = "EN_M1"  -> calculate_pwm_with_deadband(left)
      [] p = "INA_M2" -> Level(right > 0)
      [] p = "INB_M2" -> Level(right < 0)
      [] p = "EN_M2"  -> calculate_pwm_with_deadband(right)

\* What the shared velocities ask for.
Asked(p) == WheelValue(p, LeftSpeed(target_v, target_w), RightSpeed(target_v, target_w))

\* The pins of the motor that a duty drives.
Wheel(e) == IF e = "EN_M1" THEN {"INA_M1", "INB_M1", "EN_M1"}
                           ELSE {"INA_M2", "INB_M2", "EN_M2"}

\* The ticks this iteration has taken, and how long ago at most the one before
\* began to read.
Spent == EXEC - timer

Before == IF ctl = "delay" THEN EXEC + PERIOD - timer ELSE EXEC + PERIOD + EXEC - timer

\* No iteration is longer than EXEC, no delay longer than PERIOD.
TimerInv == IF ctl = "delay" THEN timer <= PERIOD ELSE timer <= EXEC

\* Whether a write to the pin is still to come.
Pending(p) == \E k \in 1 .. Len(writes) : writes[k].pin = p

----------------------------------------------------------------------------
(* The types, part by part: sequences and functions apart from the numbers.
   The LED's level, which error_loop toggles, makes them inductive. *)

NumbersType ==
    /\ tick \in 0 .. TICK_MOD - 1 /\ last_cmd_time \in 0 .. TICK_MOD - 1
    /\ tickRead \in Unread .. TICK_MOD - 1 /\ stampRead \in Unread .. TICK_MOD - 1
    /\ timer \in 0 .. PERIOD + EXEC
    /\ heardAge \in Ages /\ settledAge \in Ages /\ quietAge \in Ages

PlacesType ==
    /\ ctl \in {"start", "check", "read", "write", "delay"}
    /\ ros \in {"init", "error", "spin", "storeV", "storeW", "storeTime"}

VelocitiesType == target_v \in Int /\ target_w \in Int /\ msg \in {Still} \cup Twists

OutType == out \in [Pins -> Duties] /\ out["LED"] \in {0, 1}

SeqType == seen \in Seq(Int) /\ Len(seen) <= 6 /\ writes \in Seq(Outputs)

Types == NumbersType /\ PlacesType /\ VelocitiesType /\ OutType /\ SeqType

----------------------------------------------------------------------------
(* The watchdog *)

\* The subtraction would give the age of the stamp, until the ticks go round.
StampInv == heardAge < TICK_MOD => Difference(tick, last_cmd_time) = heardAge

\* What the check has read is no older than the check, or still the truth.
CheckInv ==
    ctl = "check" =>
        /\ tickRead # Unread => Difference(tick, tickRead) <= Spent
        /\ stampRead # Unread => stampRead = last_cmd_time \/ heardAge <= Spent

\* Unless a twist was stamped during the check, what it has read is no older
\* than the silence that quietAge has seen.
QuietInv ==
    ctl = "check" =>
        \/ heardAge <= Spent
        \/ /\ quietAge >= heardAge
           /\ stampRead # Unread => stampRead = last_cmd_time
           /\ tickRead # Unread => Difference(tickRead, last_cmd_time) <= heardAge

\* The iteration is about to switch every motor off, or has done so.
Halting == /\ \A k \in 1 .. Len(writes) :
                 writes[k].pin \in Motors => writes[k].value = 0
           /\ \A p \in Motors : out[p] = 0 \/ Pending(p)

\* An iteration that drives has heard of a recent command; the motors run on it
\* until the next iteration drives or trips.
WatchdogInv ==
    heardAge < TICK_MOD =>
        /\ ctl = "read" => heardAge <= WATCHDOG_TIMEOUT_TICKS + Spent
        /\ ctl = "write" => heardAge <= WATCHDOG_TIMEOUT_TICKS + Spent \/ Halting
        /\ Energised => heardAge <= WATCHDOG_TIMEOUT_TICKS + Before

----------------------------------------------------------------------------
(* Mixtures *)

\* What has been read since the velocities last changed is what they are.
SeenInv ==
    settledAge > Spent => \A k \in 1 .. Len(seen) :
        k > 2 => seen[k] = IF k % 2 = 1 THEN target_v ELSE target_w

\* The duties go to zero before the senses change, and are the last to be set.
DutiesFirst == \A j, k \in 1 .. Len(writes) :
                   j < k /\ writes[k].pin \in Motors => writes[j].pin \in Motors

DutiesLast == \A j, k \in 1 .. Len(writes) :
                  j < k /\ writes[j].pin \in Motors => writes[k].pin \in Motors

\* The iteration trips, or it drives as the velocities ask.
Cutting == Halting /\ DutiesFirst

Driving == /\ \A k \in 1 .. Len(writes) :
                 writes[k].pin \in WheelPins => writes[k].value = Asked(writes[k].pin)
           /\ \A p \in WheelPins : out[p] = Asked(p) \/ Pending(p)
           /\ DutiesLast

\* Each motor is off, or it turns as the velocities ask.
Following == \A e \in Motors : out[e] = 0 \/ \A p \in Wheel(e) : out[p] = Asked(p)

\* What is about to be written follows the velocities, and what was written since
\* they last changed.
MixInv == /\ ctl = "write" /\ settledAge > Spent => Cutting \/ Driving
          /\ settledAge > Before => Following

\* Sequences are empty outside of the steps that use them.
EmptyInv == /\ ctl # "read" => seen = << >>
            /\ ctl # "write" => writes = << >>
            /\ ctl # "check" => tickRead = Unread /\ stampRead = Unread
            /\ ctl = "start" => \A p \in Motors : out[p] = 0

Inv == /\ Types /\ TimerInv /\ EmptyInv
       /\ StampInv /\ CheckInv /\ QuietInv /\ WatchdogInv
       /\ SeenInv /\ MixInv

----------------------------------------------------------------------------
(* Lemmas about the operators *)

\* Whatever the speed, the duty fits eleven bits.
LEMMA DutyFits ==
    ASSUME NEW x \in Int PROVE calculate_pwm_with_deadband(x) \in Duties
<1> DEFINE m == Magnitude(x)
           q == (m * 1567) \div 2000
<1>1. m \in Nat
      BY DEF Magnitude
<1>2. CASE m < 2000
  <2>1. q \in 0 .. 1567
        BY <1>1, <1>2
  <2> HIDE DEF q, m
  <2>2. (IF m <= 20 THEN 0 ELSE IF m >= 2000 THEN 2047 ELSE 480 + q) \in Duties
        BY <2>1 DEF Duties
  <2> QED
      BY <2>2 DEF calculate_pwm_with_deadband, m, q
<1>3. CASE m >= 2000
      BY <1>1, <1>3 DEF calculate_pwm_with_deadband, Duties
<1> QED
    BY <1>1, <1>2, <1>3

\* A function on an initial interval is a sequence.
LEMMA FunctionIsSeq ==
    ASSUME NEW S, NEW n \in Nat, NEW s \in [1 .. n -> S] PROVE s \in Seq(S)
OBVIOUS

\* One write done, the others remain.
LEMMA HeadAndTail ==
    ASSUME NEW S, NEW s \in Seq(S), s # << >>
    PROVE  /\ Head(s) \in S /\ Head(s) = s[1] /\ 1 \in 1 .. Len(s)
           /\ Tail(s) \in Seq(S) /\ Len(Tail(s)) = Len(s) - 1
           /\ \A k \in 1 .. Len(s) - 1 : Tail(s)[k] = s[k + 1]
           /\ \A k \in 1 .. Len(s) : k = 1 \/ k - 1 \in 1 .. Len(s) - 1
OBVIOUS

\* The trip writes zeros only, first to both motors.
LEMMA TripWrites ==
    /\ Trip \in Seq(Outputs)
    /\ \A k \in 1 .. Len(Trip) : Trip[k].value = 0
    /\ \A p \in Motors : \E k \in 1 .. Len(Trip) : Trip[k].pin = p
    /\ \A j, k \in 1 .. Len(Trip) :
          j < k /\ Trip[k].pin \in Motors => Trip[j].pin \in Motors
<1>1. Len(Trip) = 7
      BY DEF Trip
<1>2. \A p \in Pins : Write(p, 0) \in Outputs
      BY DEF Outputs, Write, Duties
<1>3. Trip \in Seq(Outputs)
      BY <1>2 DEF Trip, Pins
<1>4. \A k \in 1 .. 7 : Trip[k].value = 0
      BY DEF Trip, Write
<1>5. Trip[1].pin = "EN_M1" /\ Trip[2].pin = "EN_M2"
      BY DEF Trip, Write
<1>6. \A k \in 3 .. 7 : Trip[k].pin \notin Motors
      BY DEF Trip, Write, Motors
<1>7. \A j, k \in 1 .. 7 :
          j < k /\ Trip[k].pin \in Motors => Trip[j].pin \in Motors
  <2> SUFFICES ASSUME NEW j \in 1 .. 7, NEW k \in 1 .. 7, j < k, Trip[k].pin \in Motors
               PROVE  Trip[j].pin \in Motors
      OBVIOUS
  <2>1. k \notin 3 .. 7
        BY <1>6
  <2>2. j = 1
        BY <2>1
  <2> QED
      BY <1>5, <2>2 DEF Motors
<1> QED
    BY <1>1, <1>3, <1>4, <1>5, <1>7 DEF Motors

\* ws writes every pin of the motors for the speeds, the duties last.
WritesWheels(ws, left, right) ==
    /\ \A p \in WheelPins : \E k \in 1 .. Len(ws) : ws[k].pin = p
    /\ \A k \in 1 .. Len(ws) :
          ws[k].pin \in WheelPins => ws[k].value = WheelValue(ws[k].pin, left, right)
    /\ \A j, k \in 1 .. Len(ws) :
          j < k /\ ws[j].pin \in Motors => ws[k].pin \in Motors

\* So does an iteration that drives.
LEMMA DriveWrites ==
    ASSUME NEW led \in {0, 1}, NEW left \in Int, NEW right \in Int,
           NEW ws, ws = Drive(led, left, right)
    PROVE  ws \in Seq(Outputs) /\ WritesWheels(ws, left, right)
<1> DEFINE dl == calculate_pwm_with_deadband(left)
           dr == calculate_pwm_with_deadband(right)
<1>1. dl \in Duties /\ dr \in Duties
      BY DutyFits
<1>2. /\ led \in Duties
      /\ Level(left > 0) \in Duties /\ Level(left < 0) \in Duties
      /\ Level(right > 0) \in Duties /\ Level(right < 0) \in Duties
      BY DEF Level, Duties
<1> HIDE DEF dl, dr
<1>3. ws = << Write("LED", led), Write("INA_M1", Level(left > 0)),
              Write("INB_M1", Level(left < 0)), Write("INA_M2", Level(right > 0)),
              Write("INB_M2", Level(right < 0)), Write("EN_M1", dl), Write("EN_M2", dr) >>
      BY DEF Drive, dl, dr
<1>3a. Write("LED", led) \in Outputs
      BY <1>2 DEF Outputs, Write, Pins
<1>4. \A p \in Pins \ {"LED"}, x \in Duties : Write(p, x) \in Outputs
      BY DEF Outputs, Write
<1>6. ws \in Seq(Outputs)
  <2>1. /\ Write("LED", led) \in Outputs
        /\ Write("INA_M1", Level(left > 0)) \in Outputs
        /\ Write("INB_M1", Level(left < 0)) \in Outputs
        /\ Write("INA_M2", Level(right > 0)) \in Outputs
        /\ Write("INB_M2", Level(right < 0)) \in Outputs
        /\ Write("EN_M1", dl) \in Outputs /\ Write("EN_M2", dr) \in Outputs
        BY <1>1, <1>2, <1>3a, <1>4 DEF Pins
  <2> QED
      BY <1>3, <2>1
<1>7. Len(ws) = 7
      BY <1>3
<1>8. /\ ws[1].pin = "LED"
      /\ ws[2].pin = "INA_M1" /\ ws[2].value = Level(left > 0)
      /\ ws[3].pin = "INB_M1" /\ ws[3].value = Level(left < 0)
      /\ ws[4].pin = "INA_M2" /\ ws[4].value = Level(right > 0)
      /\ ws[5].pin = "INB_M2" /\ ws[5].value = Level(right < 0)
      /\ ws[6].pin = "EN_M1" /\ ws[6].value = dl
      /\ ws[7].pin = "EN_M2" /\ ws[7].value = dr
      BY <1>3 DEF Write
<1>9. \A p \in WheelPins : \E k \in 1 .. 7 : ws[k].pin = p
      BY <1>8 DEF WheelPins, Pins
<1>10. /\ WheelValue("INA_M1", left, right) = Level(left > 0)
       /\ WheelValue("INB_M1", left, right) = Level(left < 0)
       /\ WheelValue("INA_M2", left, right) = Level(right > 0)
       /\ WheelValue("INB_M2", left, right) = Level(right < 0)
       /\ WheelValue("EN_M1", left, right) = dl
       /\ WheelValue("EN_M2", left, right) = dr
       BY DEF WheelValue, dl, dr
<1>11. \A k \in 1 .. 7 : ws[k].pin \in WheelPins =>
           ws[k].value = WheelValue(ws[k].pin, left, right)
  <2> SUFFICES ASSUME NEW k \in 1 .. 7, ws[k].pin \in WheelPins
               PROVE  ws[k].value = WheelValue(ws[k].pin, left, right)
      OBVIOUS
  <2>1. k = 2 \/ k = 3 \/ k = 4 \/ k = 5 \/ k = 6 \/ k = 7
        BY <1>8 DEF WheelPins
  <2> QED
      BY <1>8, <1>10, <2>1
<1>12. \A j, k \in 1 .. 7 : j < k /\ ws[j].pin \in Motors => ws[k].pin \in Motors
  <2> SUFFICES ASSUME NEW j \in 1 .. 7, NEW k \in 1 .. 7, j < k, ws[j].pin \in Motors
               PROVE  ws[k].pin \in Motors
      OBVIOUS
  <2>1. j # 1 /\ j # 2 /\ j # 3 /\ j # 4 /\ j # 5
        BY <1>8 DEF Motors
  <2>2. k = 7
        BY <2>1
  <2> QED
      BY <1>8, <2>2 DEF Motors
<1> QED
    BY <1>6, <1>7, <1>9, <1>11, <1>12 DEF WritesWheels

\* The numbers among the constants.
LEMMA Constants ==
    /\ TICK_MOD \in Nat /\ WATCHDOG_TIMEOUT_TICKS \in Nat
    /\ PERIOD \in Nat \ {0} /\ EXEC \in Nat
    /\ EXEC <= WATCHDOG_TIMEOUT_TICKS
    /\ WATCHDOG_TIMEOUT_TICKS + PERIOD + 2 * EXEC < TICK_MOD
BY TwistRosAssumption

\* An age stays an age, and grows by one at most.
LEMMA OlderType ==
    ASSUME NEW age \in Ages
    PROVE  /\ Older(age) \in Ages
           /\ Older(age) \in {age, age + 1} /\ (Older(age) = age => age = TICK_MOD)
BY TwistRosAssumption DEF Older, Ages

\* One tick later the subtraction gives one more, also across the wrap.
LEMMA DifferenceTick ==
    ASSUME NEW now \in 0 .. TICK_MOD - 1, NEW last \in 0 .. TICK_MOD - 1,
           Difference(now, last) + 1 < TICK_MOD
    PROVE  Difference(IF now + 1 < TICK_MOD THEN now + 1 ELSE 0, last)
               = Difference(now, last) + 1
BY TwistRosAssumption DEF Difference

\* If both operands are right up to s ticks, so is the watchdog's verdict.
LEMMA Verdict ==
    ASSUME NEW now \in 0 .. TICK_MOD - 1, NEW read \in 0 .. TICK_MOD - 1,
           NEW last \in 0 .. TICK_MOD - 1, NEW s \in Nat,
           Difference(now, read) <= s,
           Difference(read, last) <= WATCHDOG_TIMEOUT_TICKS
    PROVE  Difference(now, last) <= WATCHDOG_TIMEOUT_TICKS + s
BY TwistRosAssumption DEF Difference

----------------------------------------------------------------------------
(* Type correctness *)

\* The parts are TypeOK.
LEMMA TypesAreTypeOK == Types => TypeOK
<1> SUFFICES ASSUME Types PROVE TypeOK
    OBVIOUS
<1>1. writes \in Seq([pin : Pins, value : 0 .. 2047])
  <2>1. /\ writes \in [1 .. Len(writes) -> Outputs] /\ Len(writes) \in Nat
        BY DEF Types, SeqType
  <2>2. Outputs \subseteq [pin : Pins, value : Duties]
        BY DEF Outputs
  <2>3. writes \in [1 .. Len(writes) -> [pin : Pins, value : Duties]]
        BY <2>1, <2>2
  <2>4. writes \in Seq([pin : Pins, value : Duties])
        BY <2>1, <2>3, FunctionIsSeq
  <2> QED
      BY <2>4 DEF Duties
<1>2. out \in [Pins -> 0 .. 2047]
      BY DEF Types, OutType, Duties
<1>3. seen \in Seq(Int) /\ Len(seen) <= 6
      BY DEF Types, SeqType
<1>4. /\ tick \in 0 .. TICK_MOD - 1 /\ last_cmd_time \in 0 .. TICK_MOD - 1
      /\ tickRead \in Unread .. TICK_MOD - 1 /\ stampRead \in Unread .. TICK_MOD - 1
      /\ timer \in 0 .. PERIOD + EXEC
      BY DEF Types, NumbersType
<1>5. /\ heardAge \in 0 .. TICK_MOD /\ settledAge \in 0 .. TICK_MOD
      /\ quietAge \in 0 .. TICK_MOD
      BY DEF Types, NumbersType, Ages
<1>6. /\ ctl \in {"start", "check", "read", "write", "delay"}
      /\ ros \in {"init", "error", "spin", "storeV", "storeW", "storeTime"}
      BY DEF Types, PlacesType
<1>7. target_v \in Int /\ target_w \in Int /\ msg \in {Still} \cup Twists
      BY DEF Types, VelocitiesType
<1> QED
    BY <1>1, <1>2, <1>3, <1>4, <1>5, <1>6, <1>7, PTL DEF TypeOK

\* A board that starts has the types.
LEMMA InitTypes == Init => Types
<1> SUFFICES ASSUME Init PROVE Types
    OBVIOUS
<1>1. NumbersType
      BY Constants DEF Init, NumbersType, Ages, Unread
<1>2. PlacesType
      BY DEF Init, PlacesType
<1>3. VelocitiesType
      BY DEF Init, VelocitiesType
<1>4. OutType
      BY DEF Init, OutType, Duties, Pins
<1>5. SeqType
      BY DEF Init, SeqType
<1> QED
    BY <1>1, <1>2, <1>3, <1>4, <1>5 DEF Types

\* Clock, timers and ages stay in their ranges.
LEMMA NumbersStep == NumbersType /\ [Next]_vars => NumbersType'
<1> SUFFICES ASSUME NumbersType, [Next]_vars PROVE NumbersType'
    OBVIOUS
<1> USE Constants DEF NumbersType, inputs, reads, control, node, ages
<1>1. CASE Start \/ ReadTick \/ ReadStamp
      BY <1>1 DEF Start, ReadTick, ReadStamp, Ages, Unread
<1>2. CASE Trips \/ Passes
      BY <1>2 DEF Trips, Passes, Ages, Unread
<1>3. CASE ReadVelocity \/ Decide \/ WriteOutput
      BY <1>3 DEF ReadVelocity, Decide, WriteOutput
<1>4. CASE Sleep \/ Wake
      BY <1>4 DEF Sleep, Wake
<1>5. CASE MicroROS
      BY <1>5 DEF MicroROS, NodeReady, NodeFails, Blink, Receive, StoreV, StoreW,
                  StoreTime, Ages
<1>6. CASE Tick
  <2>1. heardAge' \in Ages /\ settledAge' \in Ages
        BY <1>6, OlderType DEF Tick
  <2>2. quietAge' \in Ages
        BY <1>6, <2>1 DEF Tick
  <2> QED
      BY <1>6, <2>1, <2>2 DEF Tick
<1>7. CASE UNCHANGED vars
      BY <1>7 DEF vars
<1> QED
    BY <1>1, <1>2, <1>3, <1>4, <1>5, <1>6, <1>7 DEF Next, Control

\* Both tasks stay within their programs.
LEMMA PlacesStep == PlacesType /\ [Next]_vars => PlacesType'
BY DEF PlacesType, Next, Control, MicroROS, Start, ReadTick, ReadStamp, Trips, Passes,
       ReadVelocity, Decide, WriteOutput, Sleep, Wake, NodeReady, NodeFails, Blink,
       Receive, StoreV, StoreW, StoreTime, Tick, vars, control, node

\* Only the callback writes the velocities, from a published twist.
LEMMA VelocitiesStep == VelocitiesType /\ [Next]_vars => VelocitiesType'
<1> SUFFICES ASSUME VelocitiesType, [Next]_vars PROVE VelocitiesType'
    OBVIOUS
<1>1. CASE StoreV \/ StoreW
  <2>1. msg.v \in Int /\ msg.w \in Int
        BY TwistRosAssumption DEF VelocitiesType, Still
  <2> QED
      BY <1>1, <2>1 DEF StoreV, StoreW, VelocitiesType
<1>2. CASE Receive \/ StoreTime
      BY <1>2 DEF Receive, StoreTime, VelocitiesType, inputs
<1>3. CASE UNCHANGED <<target_v, target_w, msg>>
      BY <1>3 DEF VelocitiesType
<1>4. CASE Control \/ NodeReady \/ NodeFails \/ Blink \/ Tick \/ UNCHANGED vars
  <2>1. UNCHANGED <<target_v, target_w, msg>>
        BY <1>4 DEF Control, Start, ReadTick, ReadStamp, Trips, Passes, ReadVelocity,
             Decide, WriteOutput, Sleep, Wake, NodeReady, NodeFails, Blink, Tick,
             vars, inputs, node
  <2> QED
      BY <1>3, <2>1
<1> QED
    BY <1>1, <1>2, <1>4 DEF Next, MicroROS

\* The sequences hold what was read, and writes that fit the outputs.
LEMMA SeqStep == VelocitiesType /\ SeqType /\ [Next]_vars => SeqType'
<1> SUFFICES ASSUME VelocitiesType, SeqType, [Next]_vars PROVE SeqType'
    OBVIOUS
<1> USE DEF SeqType
<1>1. CASE Trips
      BY <1>1, TripWrites DEF Trips
<1>2. CASE ReadVelocity
      BY <1>2 DEF ReadVelocity, VelocitiesType, Unread
<1>3. CASE Decide
  <2>1. seen[3] \in Int /\ seen[4] \in Int /\ seen[5] \in Int /\ seen[6] \in Int
    <3>1. seen \in Seq(Int) /\ Len(seen) = 6
          BY <1>3 DEF Decide
    <3>2. \A k \in 1 .. 6 : seen[k] \in Int
          BY <3>1, ElementOfSeq
    <3> QED
        BY <3>2
  <2>2. Level(seen[1] # 0 \/ seen[2] # 0) \in {0, 1}
        BY DEF Level
  <2>3. LeftSpeed(seen[3], seen[4]) \in Int /\ RightSpeed(seen[5], seen[6]) \in Int
        BY ONLY <2>1 DEF LeftSpeed, RightSpeed
  <2>4. writes' \in Seq(Outputs)
        BY <1>3, <2>2, <2>3, DriveWrites DEF Decide
  <2>5. seen' = << >>
        BY <1>3 DEF Decide
  <2> QED
      BY <2>4, <2>5
<1>4. CASE WriteOutput
      BY <1>4, HeadAndTail DEF WriteOutput, reads
<1>5. CASE UNCHANGED <<seen, writes>>
      BY <1>5
<1>6. CASE Start \/ ReadTick \/ ReadStamp \/ Passes \/ Sleep \/ Wake \/ MicroROS
           \/ Tick \/ UNCHANGED vars
  <2>1. UNCHANGED <<seen, writes>>
        BY <1>6 DEF Start, ReadTick, ReadStamp, Passes, Sleep, Wake, MicroROS,
             NodeReady, NodeFails, Blink, Receive, StoreV, StoreW, StoreTime, Tick,
             vars, reads, control
  <2> QED
      BY <1>5, <2>1
<1> QED
    BY <1>1, <1>2, <1>3, <1>4, <1>6 DEF Next, Control

\* The outputs carry duties, and the LED, which error_loop toggles, a level.
LEMMA OutStep == SeqType /\ OutType /\ [Next]_vars => OutType'
<1> SUFFICES ASSUME SeqType, OutType, [Next]_vars PROVE OutType'
    OBVIOUS
<1>1. CASE WriteOutput
  <2>1. Head(writes) \in Outputs
        BY <1>1, HeadAndTail DEF WriteOutput, SeqType
  <2>2. /\ Head(writes).pin \in Pins /\ Head(writes).value \in Duties
        /\ Head(writes).pin = "LED" => Head(writes).value \in {0, 1}
        BY <2>1 DEF Outputs
  <2> QED
      BY <1>1, <2>2 DEF WriteOutput, OutType, Pins
<1>2. CASE Blink
  <2>1. out' = [out EXCEPT !["LED"] = 1 - @]
        BY <1>2 DEF Blink
  <2>2. /\ out \in [Pins -> Duties] /\ "LED" \in Pins
        /\ 1 - out["LED"] \in {0, 1} /\ {0, 1} \subseteq Duties
    <3>1. {0, 1} \subseteq Duties
          BY DEF Duties
    <3> QED
        BY <3>1 DEF OutType, Pins
  <2> HIDE DEF Pins, Duties
  <2>3. out' \in [Pins -> Duties] /\ out'["LED"] = 1 - out["LED"]
        BY <2>1, <2>2
  <2> QED
      BY <2>2, <2>3 DEF OutType
<1>3. CASE UNCHANGED out
      BY <1>3 DEF OutType
<1>4. CASE Start \/ ReadTick \/ ReadStamp \/ Trips \/ Passes \/ ReadVelocity \/ Decide
           \/ Sleep \/ Wake
  <2>1. UNCHANGED out
        BY <1>4 DEF Start, ReadTick, ReadStamp, Trips, Passes, ReadVelocity, Decide,
                    Sleep, Wake
  <2> QED
      BY <1>3, <2>1
<1>5. CASE NodeReady \/ NodeFails \/ Receive \/ StoreV \/ StoreW \/ StoreTime \/ Tick
           \/ UNCHANGED vars
  <2>1. UNCHANGED out
        BY <1>5 DEF NodeReady, NodeFails, Receive, StoreV, StoreW, StoreTime, Tick, vars
  <2> QED
      BY <1>3, <2>1
<1> QED
    BY <1>1, <1>2, <1>4, <1>5 DEF Next, Control, MicroROS

\* Every step keeps the types.
LEMMA TypesStep == Types /\ [Next]_vars => Types'
BY NumbersStep, PlacesStep, VelocitiesStep, SeqStep, OutStep DEF Types

----------------------------------------------------------------------------
(* Where both tasks are *)

\* The motors' outputs are written by Task_Control only.
LEMMA WheelsKept ==
    OutType /\ [Next]_vars /\ ~WriteOutput => \A p \in WheelPins : out'[p] = out[p]
<1> SUFFICES ASSUME OutType, [Next]_vars, ~WriteOutput
             PROVE  \A p \in WheelPins : out'[p] = out[p]
    OBVIOUS
<1>1. CASE Blink
      BY <1>1 DEF Blink, OutType, WheelPins
<1>2. CASE Control
      BY <1>2 DEF Control, Start, ReadTick, ReadStamp, Trips, Passes, ReadVelocity,
                  Decide, Sleep, Wake
<1>3. CASE NodeReady \/ NodeFails \/ Receive \/ StoreV \/ StoreW \/ StoreTime \/ Tick
           \/ UNCHANGED vars
      BY <1>3 DEF NodeReady, NodeFails, Receive, StoreV, StoreW, StoreTime, Tick, vars
<1> QED
    BY <1>1, <1>2, <1>3 DEF Next, MicroROS

LEMMA MotorsKept ==
    OutType /\ [Next]_vars /\ ~WriteOutput => \A p \in Motors : out'[p] = out[p]
BY WheelsKept DEF Motors, WheelPins, Pins

\* Every iteration and every delay is given its time.
LEMMA TimerStep == NumbersType /\ TimerInv /\ [Next]_vars => TimerInv'
<1> SUFFICES ASSUME NumbersType, TimerInv, [Next]_vars PROVE TimerInv'
    OBVIOUS
<1> USE Constants DEF NumbersType, TimerInv, control
<1>1. CASE Start \/ ReadTick \/ ReadStamp \/ Trips \/ Passes
      BY <1>1 DEF Start, ReadTick, ReadStamp, Trips, Passes, Checked
<1>5. CASE ReadVelocity \/ Decide \/ WriteOutput \/ Sleep \/ Wake
      BY <1>5 DEF ReadVelocity, Decide, WriteOutput, Sleep, Wake
<1>2. CASE MicroROS
      BY <1>2 DEF MicroROS, NodeReady, NodeFails, Blink, Receive, StoreV, StoreW, StoreTime
<1>3. CASE Tick
      BY <1>3 DEF Tick
<1>4. CASE UNCHANGED vars
      BY <1>4 DEF vars
<1> QED
    BY <1>1, <1>2, <1>3, <1>4, <1>5 DEF Next, Control

\* What an iteration has read or is to write is gone with it.
LEMMA EmptyStep == OutType /\ EmptyInv /\ [Next]_vars => EmptyInv'
<1> SUFFICES ASSUME OutType, EmptyInv, [Next]_vars PROVE EmptyInv'
    OBVIOUS
<1>1. CASE WriteOutput
      BY <1>1 DEF WriteOutput, EmptyInv, reads
<1>2. CASE ~WriteOutput
  <2>1. \A p \in Motors : out'[p] = out[p]
        BY <1>2, MotorsKept
  <2>2. ctl' = "start" => ctl = "start"
        BY DEF Next, Control, MicroROS, Start, ReadTick, ReadStamp, Trips, Passes,
           ReadVelocity, Decide, WriteOutput, Sleep, Wake, NodeReady, NodeFails, Blink,
           Receive, StoreV, StoreW, StoreTime, Tick, vars, control
  <2>3. (ctl' # "read" => seen' = << >>) /\ (ctl' # "write" => writes' = << >>)
    <3>1. CASE Start \/ ReadTick \/ ReadStamp \/ Trips \/ Passes \/ ReadVelocity
               \/ Decide \/ Sleep \/ Wake
          BY <3>1 DEF EmptyInv, Start, ReadTick, ReadStamp, Trips, Passes, Checked,
                      ReadVelocity, Decide, Sleep, Wake, control, reads
    <3>2. CASE MicroROS
          BY <3>2 DEF EmptyInv, MicroROS, NodeReady, NodeFails, Blink, Receive, StoreV,
                      StoreW, StoreTime, control, reads
    <3>3. CASE Tick \/ UNCHANGED vars
          BY <3>3 DEF EmptyInv, Tick, vars, control, reads
    <3> QED
        BY <1>2, <3>1, <3>2, <3>3 DEF Next, Control
  <2>5. ctl' # "check" => tickRead' = Unread /\ stampRead' = Unread
        BY <1>2 DEF EmptyInv, Next, Control, MicroROS, Start, ReadTick, ReadStamp, Trips,
           Passes, ReadVelocity, Decide, Sleep, Wake, NodeReady, NodeFails, Blink,
           Receive, StoreV, StoreW, StoreTime, Tick, vars, control, reads
  <2> QED
      BY <2>1, <2>2, <2>3, <2>5 DEF EmptyInv
<1> QED
    BY <1>1, <1>2

----------------------------------------------------------------------------
(* The watchdog *)

\* The stamp and the ticks move together with the age.
LEMMA StampStep == NumbersType /\ StampInv /\ [Next]_vars => StampInv'
<1> SUFFICES ASSUME NumbersType, StampInv, [Next]_vars PROVE StampInv'
    OBVIOUS
<1> USE Constants DEF NumbersType, StampInv
<1>1. CASE Start \/ StoreTime
      BY <1>1 DEF Start, StoreTime, Difference
<1>2. CASE Tick
  <2> SUFFICES ASSUME heardAge' < TICK_MOD
               PROVE  Difference(tick', last_cmd_time') = heardAge'
      OBVIOUS
  <2>1. heardAge' = heardAge + 1 /\ heardAge \in Nat
        BY <1>2, OlderType DEF Tick, Ages
  <2>2. Difference(tick, last_cmd_time) = heardAge /\ heardAge + 1 < TICK_MOD
        BY <2>1
  <2>3. /\ tick' = IF tick + 1 < TICK_MOD THEN tick + 1 ELSE 0
        /\ last_cmd_time' = last_cmd_time
        BY <1>2 DEF Tick, inputs
  <2> QED
      BY <2>1, <2>2, <2>3, DifferenceTick
<1>3. CASE UNCHANGED <<tick, last_cmd_time, heardAge>>
      BY <1>3 DEF Difference
<1>4. CASE ReadTick \/ ReadStamp \/ Trips \/ Passes \/ ReadVelocity \/ Decide
           \/ WriteOutput \/ Sleep \/ Wake
  <2>1. UNCHANGED <<tick, last_cmd_time, heardAge>>
        BY <1>4 DEF ReadTick, ReadStamp, Trips, Passes, ReadVelocity, Decide,
             WriteOutput, Sleep, Wake, inputs, ages
  <2> QED
      BY <1>3, <2>1
<1>5. CASE NodeReady \/ NodeFails \/ Blink \/ Receive \/ StoreV \/ StoreW
           \/ UNCHANGED vars
  <2>1. UNCHANGED <<tick, last_cmd_time, heardAge>>
        BY <1>5 DEF NodeReady, NodeFails, Blink, Receive, StoreV, StoreW, vars, inputs, ages
  <2> QED
      BY <1>3, <2>1
<1> QED
    BY <1>1, <1>2, <1>4, <1>5 DEF Next, Control, MicroROS

\* While the check lasts, what it has read gets no older than the check.
LEMMA CheckStep ==
    NumbersType /\ TimerInv /\ EmptyInv /\ CheckInv /\ [Next]_vars => CheckInv'
<1> SUFFICES ASSUME NumbersType, TimerInv, EmptyInv, CheckInv, [Next]_vars, ctl' = "check"
             PROVE  CheckInv'
    BY DEF CheckInv
<1> USE Constants DEF NumbersType, TimerInv, CheckInv, Spent
<1>1. CASE Start \/ Wake
      BY <1>1 DEF Start, Wake, EmptyInv, reads
<1>2. CASE ReadTick
      BY <1>2 DEF ReadTick, Difference, Unread, ages, inputs
<1>3. CASE ReadStamp
      BY <1>3 DEF ReadStamp, ages, inputs
<1>4. CASE StoreTime
      BY <1>4 DEF StoreTime, control, reads
<1>5. CASE Tick
  <2>1. /\ ctl = "check" /\ UNCHANGED <<tickRead, stampRead, last_cmd_time>>
        /\ timer \in 1 .. EXEC /\ timer' = timer - 1 /\ heardAge' <= heardAge + 1
        /\ tick' = IF tick + 1 < TICK_MOD THEN tick + 1 ELSE 0
        BY <1>5, OlderType DEF Tick, reads, inputs, Ages
  <2>2. ASSUME tickRead # Unread PROVE Difference(tick', tickRead) <= Spent'
    <3>1. tickRead \in 0 .. TICK_MOD - 1 /\ Difference(tick, tickRead) <= Spent
          BY <2>1, <2>2 DEF Unread
    <3>2. Difference(tick, tickRead) \in Int
          BY <3>1 DEF Difference
    <3>3. Difference(tick, tickRead) + 1 < TICK_MOD
          BY <2>1, <3>1, <3>2
    <3>4. Difference(tick', tickRead) = Difference(tick, tickRead) + 1
          BY <2>1, <3>1, <3>3, DifferenceTick
    <3> QED
        BY <2>1, <3>1, <3>2, <3>4
  <2>3. stampRead # Unread => stampRead = last_cmd_time \/ heardAge' <= Spent'
    <3>1. heardAge \in Nat /\ heardAge' \in Nat
          BY <1>5, OlderType DEF Tick, Ages
    <3> QED
        BY <2>1, <3>1
  <2> QED
      BY <2>1, <2>2, <2>3
<1>6. CASE UNCHANGED <<tick, last_cmd_time, heardAge, tickRead, stampRead, timer, ctl>>
      BY <1>6 DEF Difference
<1>7. CASE NodeReady \/ NodeFails \/ Blink \/ Receive \/ StoreV \/ StoreW
           \/ UNCHANGED vars
  <2>1. UNCHANGED <<tick, last_cmd_time, heardAge, tickRead, stampRead, timer, ctl>>
        BY <1>7 DEF NodeReady, NodeFails, Blink, Receive, StoreV, StoreW, vars, inputs,
             ages, control, reads
  <2> QED
      BY <1>6, <2>1
<1>8. ~(Trips \/ Passes \/ ReadVelocity \/ Decide \/ WriteOutput \/ Sleep)
      BY DEF Trips, Passes, ReadVelocity, Decide, WriteOutput, Sleep
<1> QED
    BY <1>1, <1>2, <1>3, <1>4, <1>5, <1>7, <1>8 DEF Next, Control, MicroROS

\* A check that no twist comes into sees no more silence than there was.
LEMMA QuietStep ==
    NumbersType /\ TimerInv /\ EmptyInv /\ StampInv /\ QuietInv /\ [Next]_vars
        => QuietInv'
<1> SUFFICES ASSUME NumbersType, TimerInv, EmptyInv, StampInv, QuietInv, [Next]_vars,
                    ctl' = "check"
             PROVE  QuietInv'
    BY DEF QuietInv
<1> USE Constants DEF QuietInv, Spent
<1>1. CASE Start
      BY <1>1 DEF Start, NumbersType, TimerInv
<1>2. CASE ReadTick
  <2>1. Difference(tick, last_cmd_time) <= heardAge
        BY DEF NumbersType, StampInv, Ages, Difference
  <2> QED
      BY <1>2, <2>1 DEF ReadTick, inputs, ages
<1>3. CASE ReadStamp
      BY <1>3 DEF ReadStamp, inputs, ages, Difference
<1>4. CASE Wake
      BY <1>4 DEF Wake, inputs, reads, EmptyInv, NumbersType, Ages
<1>5. CASE StoreTime
      BY <1>5 DEF StoreTime, control, NumbersType, TimerInv
<1>6. CASE Tick
  <2>1. timer' = timer - 1 /\ ctl = "check" /\ UNCHANGED <<inputs, reads>>
        BY <1>6 DEF Tick
  <2>2. heardAge' = Older(heardAge) /\ heardAge \in Ages
        BY <1>6 DEF Tick, NumbersType
  <2>3. heardAge <= heardAge' /\ heardAge' <= heardAge + 1 /\ heardAge' \in Int
        BY <2>2 DEF Older, Ages
  <2>4. quietAge >= heardAge => quietAge' >= heardAge'
        BY <1>6, <2>1, <2>3 DEF Tick, NumbersType, Ages
  <2>5. timer \in Int /\ EXEC \in Int
        BY DEF NumbersType
  <2>6. CASE heardAge <= Spent
        BY <2>1, <2>2, <2>3, <2>5, <2>6 DEF Ages
  <2>7. CASE ~(heardAge <= Spent)
    <3>1. Difference(tickRead, last_cmd_time) \in Int
          BY DEF NumbersType, Difference, Unread
    <3>2. Difference(tickRead, last_cmd_time)' = Difference(tickRead, last_cmd_time)
          BY <2>1 DEF inputs, reads, Difference
    <3> QED
        BY <2>1, <2>2, <2>3, <2>4, <2>7, <3>1, <3>2 DEF inputs, reads, Ages
  <2> QED
      BY <2>6, <2>7
<1>7. CASE UNCHANGED <<ctl, timer, heardAge, quietAge, tickRead, stampRead, last_cmd_time>>
      BY <1>7 DEF Difference
<1>8. CASE NodeReady \/ NodeFails \/ Blink \/ Receive \/ StoreV \/ StoreW
           \/ UNCHANGED vars
  <2>1. UNCHANGED <<ctl, timer, heardAge, quietAge, tickRead, stampRead, last_cmd_time>>
        BY <1>8 DEF NodeReady, NodeFails, Blink, Receive, StoreV, StoreW, vars, inputs,
                    control, reads, ages
  <2> QED
      BY <1>7, <2>1
<1>9. CASE Trips \/ Passes \/ ReadVelocity \/ Decide \/ WriteOutput \/ Sleep
      BY <1>9 DEF Trips, Passes, ReadVelocity, Decide, WriteOutput, Sleep
<1> QED
    BY <1>1, <1>2, <1>3, <1>4, <1>5, <1>6, <1>8, <1>9 DEF Next, Control, MicroROS

\* Energised is about the motors.
LEMMA EnergisedMotors == Energised <=> \E p \in Motors : out[p] > 0
BY DEF Energised, Motors

\* A check that passes has read a recent stamp, or one has come since.
LEMMA PassesRecent ==
    NumbersType /\ TimerInv /\ StampInv /\ CheckInv /\ Passes /\ heardAge < TICK_MOD
        => heardAge <= WATCHDOG_TIMEOUT_TICKS + Spent
<1> SUFFICES ASSUME NumbersType, TimerInv, StampInv, CheckInv, Passes, heardAge < TICK_MOD
             PROVE  heardAge <= WATCHDOG_TIMEOUT_TICKS + Spent
    OBVIOUS
<1>1. /\ ctl = "check" /\ tickRead # Unread /\ stampRead # Unread
      /\ Difference(tickRead, stampRead) <= WATCHDOG_TIMEOUT_TICKS
  <2>1. ~(Difference(tickRead, stampRead) > WATCHDOG_TIMEOUT_TICKS)
        BY DEF Passes, SilentTooLong
  <2>2. Difference(tickRead, stampRead) \in Int
        BY Constants DEF Difference, NumbersType, Unread
  <2> QED
      BY <2>1, <2>2, Constants DEF Passes, Checked
<1>2. /\ tickRead \in 0 .. TICK_MOD - 1 /\ stampRead \in 0 .. TICK_MOD - 1
      /\ tick \in 0 .. TICK_MOD - 1 /\ heardAge \in Nat /\ Spent \in Nat
      BY <1>1, Constants DEF NumbersType, Unread, Ages, TimerInv, Spent
<1>3. Difference(tick, tickRead) <= Spent
      BY <1>1 DEF CheckInv
<1>4. Difference(tick, stampRead) <= WATCHDOG_TIMEOUT_TICKS + Spent
      BY <1>1, <1>2, <1>3, Verdict
<1>5. CASE stampRead = last_cmd_time
      BY <1>4, <1>5 DEF StampInv
<1>6. CASE heardAge <= Spent
      BY <1>2, <1>6, Constants
<1> QED
    BY <1>1, <1>5, <1>6 DEF CheckInv

\* A write leaves pending what it does not write.
LEMMA PendingStep ==
    ASSUME SeqType, WriteOutput, NEW p, Pending(p), p # Head(writes).pin
    PROVE  Pending(p)'
<1>1. writes \in Seq(Outputs) /\ writes # << >> /\ writes' = Tail(writes)
      BY DEF SeqType, WriteOutput
<1>2. /\ Head(writes) = writes[1] /\ Len(writes') = Len(writes) - 1
      /\ \A k \in 1 .. Len(writes) - 1 : writes'[k] = writes[k + 1]
      /\ \A k \in 1 .. Len(writes) : k = 1 \/ k - 1 \in 1 .. Len(writes) - 1
      /\ Len(writes) \in Nat
      BY <1>1, HeadAndTail
<1>3. PICK k \in 1 .. Len(writes) : writes[k].pin = p
      BY DEF Pending
<1>4. k - 1 \in 1 .. Len(writes') /\ writes'[k - 1] = writes[k]
      BY <1>2, <1>3
<1> QED
    BY <1>3, <1>4 DEF Pending

\* A write of such an iteration switches off, and brings the others nearer.
LEMMA HaltingStep ==
    SeqType /\ OutType /\ Halting /\ WriteOutput =>
        Halting' /\ (Energised' => Energised)
<1> SUFFICES ASSUME SeqType, OutType, Halting, WriteOutput
             PROVE  Halting' /\ (Energised' => Energised)
    OBVIOUS
<1> DEFINE h == Head(writes)
<1>1. /\ writes \in Seq(Outputs) /\ writes # << >>
      /\ out' = [out EXCEPT ![h.pin] = h.value] /\ writes' = Tail(writes)
      BY DEF SeqType, WriteOutput
<1>2. /\ h = writes[1] /\ 1 \in 1 .. Len(writes) /\ Len(writes') = Len(writes) - 1
      /\ \A k \in 1 .. Len(writes) - 1 : writes'[k] = writes[k + 1]
      /\ \A k \in 1 .. Len(writes) : k = 1 \/ k - 1 \in 1 .. Len(writes) - 1
      /\ Len(writes) \in Nat
      BY <1>1, HeadAndTail
<1>3. h.pin \in Motors => h.value = 0
      BY <1>2 DEF Halting
<1>4. \A p \in Motors : out'[p] = IF p = h.pin THEN 0 ELSE out[p]
      BY <1>1, <1>3 DEF OutType, Motors, Pins
<1>5. \A k \in 1 .. Len(writes') : writes'[k].pin \in Motors => writes'[k].value = 0
      BY <1>2 DEF Halting
<1>6. ASSUME NEW p \in Motors, out'[p] # 0 PROVE Pending(p)'
  <2>1. p # h.pin /\ out[p] # 0
        BY <1>4, <1>6
  <2>2. Pending(p)
        BY <2>1 DEF Halting
  <2> QED
      BY <2>1, <2>2, PendingStep
<1>7. Energised' => Energised
      BY <1>4 DEF Energised, Motors
<1> QED
    BY <1>5, <1>6, <1>7 DEF Halting

\* The bounds on the last command's age, over every step.
LEMMA WatchdogStep ==
    /\ Types /\ TimerInv /\ EmptyInv /\ StampInv /\ CheckInv /\ WatchdogInv
    /\ [Next]_vars
    => WatchdogInv'
<1> SUFFICES ASSUME Types, TimerInv, EmptyInv, StampInv, CheckInv, WatchdogInv, [Next]_vars,
                    heardAge' < TICK_MOD
             PROVE  /\ ctl' = "read" => heardAge' <= WATCHDOG_TIMEOUT_TICKS + Spent'
                    /\ ctl' = "write" => heardAge' <= WATCHDOG_TIMEOUT_TICKS + Spent' \/ Halting'
                    /\ Energised' => heardAge' <= WATCHDOG_TIMEOUT_TICKS + Before'
    BY DEF WatchdogInv
<1>0. /\ heardAge \in Nat /\ timer \in Nat
      /\ ctl # "delay" => timer <= EXEC
      /\ ctl = "delay" => timer <= PERIOD
      BY Constants DEF Types, NumbersType, Ages, TimerInv
<1>w. heardAge < TICK_MOD =>
          /\ ctl = "read" => heardAge <= WATCHDOG_TIMEOUT_TICKS + Spent
          /\ ctl = "write" => heardAge <= WATCHDOG_TIMEOUT_TICKS + Spent \/ Halting
          /\ Energised => heardAge <= WATCHDOG_TIMEOUT_TICKS + Before
      BY DEF WatchdogInv
<1>m. ~WriteOutput => (Energised' <=> Energised)
      BY MotorsKept DEF Types, Energised, Motors
<1> USE Constants DEF Spent, Before
<1>1. CASE Start
  <2>1. ~Energised'
        BY <1>1, <1>m DEF Start, EmptyInv, Energised, Motors, WriteOutput
  <2> QED
      BY <1>1, <2>1 DEF Start
<1>2. CASE Trips
  <2>1. /\ ctl = "check" /\ ctl' = "write" /\ writes' = Trip
        /\ UNCHANGED <<timer, heardAge>> /\ ~WriteOutput
        BY <1>2 DEF Trips, Checked, WriteOutput
  <2>2. Halting'
        BY <2>1, TripWrites DEF Halting, Pending
  <2> QED
      BY <1>w, <1>m, <2>1, <2>2
<1>3. CASE Passes
  <2>1. ctl = "check" /\ ctl' = "read" /\ UNCHANGED <<timer, heardAge>> /\ ~WriteOutput
        BY <1>3 DEF Passes, Checked, ages, WriteOutput
  <2>2. heardAge <= WATCHDOG_TIMEOUT_TICKS + Spent
        BY <1>3, <2>1, PassesRecent DEF Types
  <2> QED
      BY <1>w, <1>m, <2>1, <2>2
<1>4. CASE Decide
  <2>1. ctl = "read" /\ ctl' = "write" /\ UNCHANGED <<timer, heardAge>> /\ ~WriteOutput
        BY <1>4 DEF Decide, ages, WriteOutput
  <2> QED
      BY <1>w, <1>m, <2>1
<1>5. CASE WriteOutput
  <2>1. ctl = "write" /\ ctl' = ctl /\ UNCHANGED <<timer, heardAge>>
        BY <1>5 DEF WriteOutput, ages
  <2>2. CASE Halting
    <3>1. Halting' /\ (Energised' => Energised)
          BY <1>5, <2>2, HaltingStep DEF Types
    <3> QED
        BY <1>w, <2>1, <3>1
  <2>3. CASE heardAge <= WATCHDOG_TIMEOUT_TICKS + Spent
        BY <1>0, <2>1, <2>3
  <2> QED
      BY <1>w, <2>1, <2>2, <2>3
<1>6. CASE Sleep
  <2>1. /\ ctl = "write" /\ ctl' = "delay" /\ timer' = PERIOD /\ writes = << >>
        /\ heardAge' = heardAge /\ ~WriteOutput
        BY <1>6 DEF Sleep, ages, WriteOutput
  <2>2. CASE Halting
    <3>1. ~Energised
      <4>1. \A p \in Motors : ~Pending(p)
            BY <2>1 DEF Pending
      <4>2. \A p \in Motors : out[p] = 0
            BY <2>2, <4>1 DEF Halting
      <4> QED
          BY <4>2 DEF Energised, Motors
    <3> QED
        BY <1>m, <2>1, <3>1
  <2>3. CASE heardAge <= WATCHDOG_TIMEOUT_TICKS + Spent
        BY <1>0, <2>1, <2>3
  <2> QED
      BY <1>w, <2>1, <2>2, <2>3
<1>7. CASE Wake
  <2>1. /\ ctl = "delay" /\ timer = 0 /\ ctl' = "check" /\ timer' = EXEC
        /\ heardAge' = heardAge /\ ~WriteOutput
        BY <1>7 DEF Wake, WriteOutput
  <2> QED
      BY <1>w, <1>m, <2>1
<1>8. CASE StoreTime
  <2>1. heardAge' = 0 /\ UNCHANGED <<ctl, timer>>
        BY <1>8 DEF StoreTime, control
  <2> QED
      BY <1>0, <2>1
<1>t. (UNCHANGED <<out, writes>>) => (Halting' <=> Halting)
      BY DEF Halting, Pending
<1>9. CASE Tick
  <2>1. /\ heardAge' = heardAge + 1 /\ timer' = timer - 1 /\ ctl' = ctl
        /\ UNCHANGED <<out, writes>> /\ (Energised' <=> Energised)
        BY <1>9, OlderType DEF Tick, Ages, Types, NumbersType, Energised
  <2>2. heardAge < TICK_MOD
        BY <1>0, <2>1
  <2> QED
      BY <1>0, <1>w, <1>t, <2>1, <2>2
<1>10. CASE UNCHANGED <<ctl, timer, heardAge, writes>> /\ ~WriteOutput
  <2>1. ctl' = "write" /\ Halting => Halting'
    <3>1. \A p \in Motors : out'[p] = out[p]
          BY <1>10, MotorsKept DEF Types
    <3> QED
        BY <1>10, <3>1 DEF Halting, Pending
  <2> QED
      BY <1>w, <1>m, <1>10, <2>1
<1>11. CASE ReadTick \/ ReadStamp \/ ReadVelocity
  <2>1. UNCHANGED <<ctl, timer, heardAge, writes>> /\ ~WriteOutput
        BY <1>11 DEF ReadTick, ReadStamp, ReadVelocity, WriteOutput, ages
  <2> QED
      BY <1>10, <2>1
<1>12. CASE NodeReady \/ NodeFails \/ Blink \/ Receive \/ StoreV \/ StoreW
            \/ UNCHANGED vars
  <2>1. UNCHANGED <<ctl, timer, heardAge, writes>>
        BY <1>12 DEF NodeReady, NodeFails, Blink, Receive, StoreV, StoreW, vars, control, ages
  <2>2. CASE WriteOutput
        BY <1>5, <2>2
  <2> QED
      BY <1>10, <2>1, <2>2
<1> QED
    BY <1>1, <1>2, <1>3, <1>4, <1>5, <1>6, <1>7, <1>8, <1>9, <1>11, <1>12
    DEF Next, Control, MicroROS

----------------------------------------------------------------------------
(* Mixtures *)

\* Velocities that have not changed since the iteration began are read as they are.
LEMMA SeenStep ==
    Types /\ TimerInv /\ EmptyInv /\ SeenInv /\ [Next]_vars => SeenInv'
<1> SUFFICES ASSUME Types, TimerInv, EmptyInv, SeenInv, [Next]_vars,
                    settledAge' > Spent', NEW k \in 1 .. Len(seen'), k > 2
             PROVE  seen'[k] = IF k % 2 = 1 THEN target_v' ELSE target_w'
    BY DEF SeenInv
<1>0. /\ settledAge \in Nat /\ timer \in Nat /\ (ctl # "delay" => timer <= EXEC)
      /\ target_v \in Int /\ target_w \in Int /\ seen \in Seq(Int) /\ Len(seen) \in Nat
      BY Constants DEF Types, NumbersType, VelocitiesType, SeqType, Ages, TimerInv
<1>1. CASE ReadVelocity
  <2>1. /\ UNCHANGED <<timer, settledAge, target_v, target_w>>
        BY <1>1 DEF ReadVelocity, inputs, ages
  <2>2. CASE seen = << >> /\ target_v # 0
    <3>1. Len(seen') = 2
          BY <1>1, <2>2 DEF ReadVelocity
    <3> QED
        BY <3>1
  <2>3. CASE ~(seen = << >> /\ target_v # 0)
    <3>1. seen' = Append(seen, IF Len(seen) % 2 = 0 THEN target_v ELSE target_w)
          BY <1>1, <2>3 DEF ReadVelocity
    <3>2. (IF Len(seen) % 2 = 0 THEN target_v ELSE target_w) \in Int
          BY <1>0
    <3>3. /\ Len(seen') = Len(seen) + 1
          /\ \A i \in 1 .. Len(seen) : seen'[i] = seen[i]
          /\ seen'[Len(seen) + 1] = IF Len(seen) % 2 = 0 THEN target_v ELSE target_w
          BY <1>0, <3>1, <3>2
    <3>4. CASE k = Len(seen) + 1
      <4>1. k % 2 = 1 <=> Len(seen) % 2 = 0
            BY <1>0, <3>4
      <4> QED
          BY <2>1, <3>3, <3>4, <4>1
    <3>5. CASE k \in 1 .. Len(seen)
          BY <2>1, <3>3, <3>5 DEF SeenInv, Spent
    <3> QED
        BY <1>0, <3>3, <3>4, <3>5
  <2> QED
      BY <2>2, <2>3
<1>2. CASE Tick
  <2>1. /\ UNCHANGED <<seen, target_v, target_w>> /\ timer' = timer - 1
        /\ settledAge' \in {settledAge, settledAge + 1}
        BY <1>2, OlderType DEF Tick, inputs, reads, Types, NumbersType
  <2>2. settledAge > Spent
        BY <1>0, <2>1, Constants DEF Spent
  <2> QED
      BY <2>1, <2>2 DEF SeenInv
<1>3. CASE UNCHANGED <<seen, target_v, target_w, timer, settledAge>>
      BY <1>3 DEF SeenInv, Spent
<1>4. CASE seen' = << >>
      BY <1>4
<1>5. CASE StoreV \/ StoreW
  <2>1. ctl = "read" \/ seen' = << >>
        BY <1>5 DEF StoreV, StoreW, EmptyInv, control, reads
  <2>2. settledAge' = 0 /\ timer' = timer
        BY <1>5 DEF StoreV, StoreW, control
  <2> QED
      BY <1>0, <1>4, <2>1, <2>2, Constants DEF Spent
<1>6. CASE Start \/ ReadTick \/ ReadStamp \/ Trips \/ Passes \/ Decide \/ WriteOutput
           \/ Sleep \/ Wake
  <2>1. seen' = << >>
        BY <1>6 DEF Start, ReadTick, ReadStamp, Trips, Passes, Checked, Decide,
             WriteOutput, Sleep, Wake, EmptyInv, reads
  <2> QED
      BY <1>4, <2>1
<1>7. CASE NodeReady \/ NodeFails \/ Blink \/ Receive \/ StoreTime \/ UNCHANGED vars
  <2>1. UNCHANGED <<seen, target_v, target_w, timer, settledAge>>
        BY <1>7 DEF NodeReady, NodeFails, Blink, Receive, StoreTime, vars, inputs,
             control, reads, ages
  <2> QED
      BY <1>3, <2>1
<1> QED
    BY <1>1, <1>2, <1>5, <1>6, <1>7 DEF Next, Control, MicroROS

\* Decide makes the writes of the velocities it has read for the wheels.
LEMMA DecideWrites ==
    SeqType /\ Decide =>
        WritesWheels(writes', LeftSpeed(seen[3], seen[4]), RightSpeed(seen[5], seen[6]))
<1> SUFFICES ASSUME SeqType, Decide
             PROVE  WritesWheels(writes', LeftSpeed(seen[3], seen[4]),
                                 RightSpeed(seen[5], seen[6]))
    OBVIOUS
<1> DEFINE led == Level(seen[1] # 0 \/ seen[2] # 0)
           left == LeftSpeed(seen[3], seen[4])
           right == RightSpeed(seen[5], seen[6])
<1>1. seen[3] \in Int /\ seen[4] \in Int /\ seen[5] \in Int /\ seen[6] \in Int
  <2>1. seen \in Seq(Int) /\ Len(seen) = 6
        BY DEF SeqType, Decide
  <2>2. \A k \in 1 .. 6 : seen[k] \in Int
        BY <2>1, ElementOfSeq
  <2> QED
      BY <2>2
<1>2. left \in Int /\ right \in Int
      BY ONLY <1>1 DEF LeftSpeed, RightSpeed
<1>3. led \in {0, 1}
      BY DEF Level
<1>4. writes' = Drive(led, left, right)
      BY DEF Decide
<1> HIDE DEF led, left, right
<1>5. WritesWheels(writes', left, right)
      BY ONLY <1>2, <1>3, <1>4, DriveWrites
<1> QED
    BY <1>5 DEF left, right

\* What Decide makes of settled velocities is what they ask for.
LEMMA DecideDrives ==
    Types /\ SeenInv /\ Decide /\ settledAge > Spent => Driving'
<1> SUFFICES ASSUME Types, SeenInv, Decide, settledAge > Spent PROVE Driving'
    OBVIOUS
<1>1. seen \in Seq(Int) /\ Len(seen) = 6
      BY DEF Types, SeqType, Decide
<1>2. seen[3] = target_v /\ seen[4] = target_w /\ seen[5] = target_v /\ seen[6] = target_w
      BY <1>1 DEF SeenInv
<1>3. WritesWheels(writes', LeftSpeed(target_v, target_w), RightSpeed(target_v, target_w))
      BY <1>2, DecideWrites DEF Types
<1>4. target_v' = target_v /\ target_w' = target_w
      BY DEF Decide, inputs
<1> QED
    BY <1>3, <1>4 DEF Driving, DutiesLast, Asked, Pending, WritesWheels

\* What one write does.
LEMMA OneWrite ==
    ASSUME SeqType, OutType, WriteOutput
    PROVE  /\ 1 \in 1 .. Len(writes)
           /\ \A p \in WheelPins :
                 out'[p] = IF p = writes[1].pin THEN writes[1].value ELSE out[p]
           /\ \A k \in 1 .. Len(writes') :
                 k + 1 \in 1 .. Len(writes) /\ writes'[k] = writes[k + 1]
           /\ \A p : Pending(p) => Pending(p)' \/ p = writes[1].pin
<1>1. /\ writes \in Seq(Outputs) /\ writes # << >> /\ writes' = Tail(writes)
      /\ out' = [out EXCEPT ![Head(writes).pin] = Head(writes).value]
      BY DEF SeqType, WriteOutput
<1>2. /\ Head(writes) = writes[1] /\ 1 \in 1 .. Len(writes)
      /\ Len(writes') = Len(writes) - 1
      /\ \A k \in 1 .. Len(writes) - 1 : writes'[k] = writes[k + 1]
      /\ Len(writes) \in Nat
      BY <1>1, HeadAndTail
<1>3. \A p \in WheelPins :
          out'[p] = IF p = writes[1].pin THEN writes[1].value ELSE out[p]
      BY <1>1, <1>2 DEF OutType, WheelPins
<1>4. \A k \in 1 .. Len(writes') : k + 1 \in 1 .. Len(writes) /\ writes'[k] = writes[k + 1]
      BY <1>2
<1>5. \A p : Pending(p) => Pending(p)' \/ p = writes[1].pin
      BY <1>2, PendingStep
<1> QED
    BY <1>2, <1>3, <1>4, <1>5

\* A write of an iteration that trips: no sense changes before the motors are off.
LEMMA CuttingStep ==
    ASSUME SeqType, OutType, WriteOutput, UNCHANGED <<target_v, target_w>>, Cutting
    PROVE  Cutting' /\ (Following => Following')
<1>1. Halting'
      BY HaltingStep DEF Cutting
<1>2. DutiesFirst'
  <2> SUFFICES ASSUME NEW j \in 1 .. Len(writes'), NEW k \in 1 .. Len(writes'), j < k,
                      writes'[k].pin \in Motors
               PROVE  writes'[j].pin \in Motors
      BY DEF DutiesFirst
  <2>1. /\ j + 1 \in 1 .. Len(writes) /\ k + 1 \in 1 .. Len(writes) /\ j + 1 < k + 1
        /\ writes'[j] = writes[j + 1] /\ writes'[k] = writes[k + 1]
        BY OneWrite
  <2> QED
      BY <2>1 DEF Cutting, DutiesFirst
<1>3. CASE writes[1].pin \in Motors
  <2>1. writes[1].value = 0
        BY <1>3, OneWrite DEF Cutting, Halting
  <2>2. ASSUME Following, NEW e \in Motors, out'[e] # 0, NEW p \in Wheel(e)
        PROVE  out'[p] = Asked(p)'
    <3>1. e # writes[1].pin /\ out'[e] = out[e]
          BY <2>1, <2>2, OneWrite DEF Motors, WheelPins, Pins
    <3>2. p # writes[1].pin /\ p \in WheelPins
          BY <1>3, <3>1, <2>2 DEF Motors, Wheel, WheelPins, Pins
    <3>3. out'[p] = out[p] /\ out[p] = Asked(p)
          BY <2>2, <3>1, <3>2, OneWrite DEF Following
    <3> QED
        BY <3>3 DEF Asked
  <2> QED
      BY <1>1, <1>2, <2>2 DEF Cutting, Following
<1>4. CASE writes[1].pin \notin Motors
  <2>1. ASSUME NEW e \in Motors PROVE out'[e] = 0
    <3>1. ~Pending(e)
      <4> SUFFICES ASSUME NEW k \in 1 .. Len(writes), writes[k].pin = e PROVE FALSE
          BY DEF Pending
      <4>1. k = 1 \/ 1 < k
            OBVIOUS
      <4> QED
          BY <1>4, <2>1, <4>1, OneWrite DEF Cutting, DutiesFirst
    <3>2. out[e] = 0 /\ e # writes[1].pin
          BY <1>4, <2>1, <3>1 DEF Cutting, Halting
    <3> QED
        BY <3>2, <2>1, OneWrite DEF Motors, WheelPins, Pins
  <2> QED
      BY <1>1, <1>2, <2>1 DEF Cutting, Following
<1> QED
    BY <1>3, <1>4

\* A write of an iteration that drives: a duty comes after both senses.
LEMMA DrivingStep ==
    ASSUME SeqType, OutType, WriteOutput, UNCHANGED <<target_v, target_w>>, Driving
    PROVE  Driving' /\ (Following => Following')
<1>0. \A p : Asked(p)' = Asked(p)
      BY DEF Asked
<1>1. \A p \in WheelPins : out'[p] = Asked(p)' \/ out'[p] = out[p]
      BY <1>0, OneWrite DEF Driving
<1>2. \A p \in WheelPins : out'[p] = Asked(p)' \/ Pending(p)'
  <2> SUFFICES ASSUME NEW p \in WheelPins PROVE out'[p] = Asked(p)' \/ Pending(p)'
      OBVIOUS
  <2>1. CASE p = writes[1].pin
        BY <1>0, <2>1, OneWrite DEF Driving
  <2>2. CASE p # writes[1].pin
        BY <1>0, <2>2, OneWrite DEF Driving
  <2> QED
      BY <2>1, <2>2
<1>3. \A k \in 1 .. Len(writes') :
          writes'[k].pin \in WheelPins => writes'[k].value = Asked(writes'[k].pin)
      BY OneWrite DEF Driving
<1>4. DutiesLast'
  <2> SUFFICES ASSUME NEW j \in 1 .. Len(writes'), NEW k \in 1 .. Len(writes'), j < k,
                      writes'[j].pin \in Motors
               PROVE  writes'[k].pin \in Motors
      BY DEF DutiesLast
  <2>1. /\ j + 1 \in 1 .. Len(writes) /\ k + 1 \in 1 .. Len(writes) /\ j + 1 < k + 1
        /\ writes'[j] = writes[j + 1] /\ writes'[k] = writes[k + 1]
        BY OneWrite
  <2> QED
      BY <2>1 DEF Driving, DutiesLast
<1>5. Driving'
      BY <1>0, <1>2, <1>3, <1>4 DEF Driving, Asked
<1>6. ASSUME Following, NEW e \in Motors, out'[e] # 0, NEW p \in Wheel(e)
      PROVE  out'[p] = Asked(p)'
  <2>0. e \in WheelPins /\ p \in WheelPins /\ (p \in Motors => p = e)
        BY <1>6 DEF Motors, Wheel, WheelPins, Pins
  <2>1. CASE e # writes[1].pin
    <3>1. out[e] # 0
          BY <1>6, <2>0, <2>1, OneWrite
    <3>2. out[p] = Asked(p)
          BY <1>6, <3>1 DEF Following
    <3> QED
        BY <1>0, <1>1, <2>0, <3>2
  <2>2. CASE e = writes[1].pin
    <3>1. CASE p = e
          BY <1>0, <2>0, <2>2, <3>1, OneWrite DEF Driving
    <3>2. CASE p # e
      <4>1. p \notin Motors
            BY <2>0, <3>2
      <4>2. ~Pending(p)
        <5> SUFFICES ASSUME NEW k \in 1 .. Len(writes), writes[k].pin = p PROVE FALSE
            BY DEF Pending
        <5>1. k # 1 /\ 1 < k
              BY <2>2, <3>2
        <5> QED
            BY <1>6, <2>2, <4>1, <5>1, OneWrite DEF Driving, DutiesLast
      <4> QED
          BY <1>0, <1>1, <2>0, <4>2 DEF Driving
    <3> QED
        BY <3>1, <3>2
  <2> QED
      BY <2>1, <2>2
<1> QED
    BY <1>5, <1>6 DEF Following

\* An iteration with nothing left to write has done what it set out to do.
LEMMA AllWritten ==
    ASSUME writes = << >>, Cutting \/ Driving PROVE Following
<1>1. \A p : ~Pending(p)
      BY DEF Pending
<1>2. \A e \in Motors : Wheel(e) \subseteq WheelPins
      BY DEF Motors, Wheel, WheelPins, Pins
<1> QED
    BY <1>1, <1>2 DEF Cutting, Halting, Driving, Following

\* Pins that were set, or are about to be, ask for what the velocities say.
LEMMA MixStep ==
    Types /\ TimerInv /\ EmptyInv /\ SeenInv /\ MixInv /\ [Next]_vars => MixInv'
<1> SUFFICES ASSUME Types, TimerInv, EmptyInv, SeenInv, MixInv, [Next]_vars PROVE MixInv'
    OBVIOUS
<1>0. /\ settledAge \in Nat /\ timer \in Nat
      /\ ctl # "delay" => timer <= EXEC
      /\ ctl = "delay" => timer <= PERIOD
      BY Constants DEF Types, NumbersType, Ages, TimerInv
<1>a. ctl = "write" /\ settledAge > Spent => Cutting \/ Driving
      BY DEF MixInv
<1>b. settledAge > Before => Following
      BY DEF MixInv
<1>c. ctl # "delay" => Spent <= Before /\ Before \in Nat /\ Spent \in Nat
      BY <1>0, Constants DEF Spent, Before
<1>d. SUFFICES /\ ctl' = "write" /\ settledAge' > Spent' => (Cutting \/ Driving)'
               /\ settledAge' > Before' => Following'
      BY DEF MixInv
<1>k. ~WriteOutput /\ UNCHANGED <<target_v, target_w>> =>
          /\ Following => Following'
          /\ writes' = writes => (Cutting \/ Driving => (Cutting \/ Driving)')
  <2> SUFFICES ASSUME ~WriteOutput, UNCHANGED <<target_v, target_w>>
               PROVE  /\ Following => Following'
                      /\ writes' = writes => (Cutting => Cutting') /\ (Driving => Driving')
      OBVIOUS
  <2>1. \A p \in WheelPins : out'[p] = out[p]
        BY WheelsKept DEF Types
  <2>2. \A p : Asked(p)' = Asked(p)
        BY DEF Asked
  <2>3. /\ \A e \in Motors : e \in WheelPins
        /\ \A e \in Motors : \A p \in Wheel(e) : p \in WheelPins
        BY DEF Motors, Wheel, WheelPins, Pins
  <2>4. Following => Following'
        BY <2>1, <2>2, <2>3 DEF Following
  <2>5. writes' = writes /\ Cutting => Cutting'
        BY <2>1, <2>3 DEF Cutting, Halting, DutiesFirst, Pending
  <2>6. writes' = writes /\ Driving => Driving'
        BY <2>1, <2>2 DEF Driving, DutiesLast, Pending
  <2> QED
      BY <2>4, <2>5, <2>6
<1>1. CASE Trips
  <2>1. /\ ctl = "check" /\ ctl' = "write" /\ writes' = Trip /\ ~WriteOutput
        /\ UNCHANGED <<timer, settledAge, target_v, target_w>>
        BY <1>1 DEF Trips, Checked, WriteOutput, inputs
  <2>2. Cutting'
        BY <2>1, TripWrites DEF Cutting, Halting, DutiesFirst, Pending
  <2>3. Before' = Before
        BY <2>1 DEF Before
  <2> QED
      BY <1>b, <1>k, <2>1, <2>2, <2>3
<1>2. CASE Decide
  <2>1. /\ ctl = "read" /\ ctl' = "write" /\ ~WriteOutput
        /\ UNCHANGED <<timer, settledAge, target_v, target_w>>
        BY <1>2 DEF Decide, WriteOutput, inputs, ages
  <2>2. settledAge > Spent => Driving'
        BY <1>2, DecideDrives
  <2>3. Before' = Before /\ Spent' = Spent
        BY <2>1 DEF Before, Spent
  <2> QED
      BY <1>b, <1>k, <2>1, <2>2, <2>3
<1>3. CASE WriteOutput
  <2>1. ctl = "write" /\ ctl' = ctl /\ UNCHANGED <<timer, settledAge, target_v, target_w>>
        BY <1>3 DEF WriteOutput, inputs, ages
  <2>2. Before' = Before /\ Spent' = Spent
        BY <2>1 DEF Before, Spent
  <2>3. ASSUME settledAge > Spent
        PROVE  (Cutting \/ Driving)' /\ (Following => Following')
        BY <1>3, <1>a, <2>1, <2>3, CuttingStep, DrivingStep DEF Types
  <2>4. settledAge > Before => settledAge > Spent
        BY <1>0, <1>c, <2>1
  <2> QED
      BY <1>b, <2>1, <2>2, <2>3, <2>4
<1>4. CASE Sleep
  <2>1. /\ ctl = "write" /\ ctl' = "delay" /\ timer' = PERIOD /\ writes = << >>
        /\ ~WriteOutput /\ UNCHANGED <<settledAge, target_v, target_w>>
        BY <1>4 DEF Sleep, WriteOutput, inputs, ages
  <2>2. Spent <= Before'
        BY <1>0, <2>1, Constants DEF Spent, Before
  <2>3. settledAge' > Before' => settledAge > Spent
        BY <1>0, <1>c, <2>1, <2>2, Constants DEF Before
  <2>4. Cutting \/ Driving => Following
        BY <2>1, AllWritten
  <2> QED
      BY <1>a, <1>k, <2>1, <2>3, <2>4
<1>5. CASE Wake
  <2>1. /\ ctl = "delay" /\ timer = 0 /\ ctl' = "check" /\ timer' = EXEC
        /\ ~WriteOutput /\ UNCHANGED <<settledAge, target_v, target_w>>
        BY <1>5 DEF Wake, WriteOutput, inputs
  <2>2. Before' = Before
        BY <2>1, Constants DEF Before
  <2> QED
      BY <1>b, <1>k, <2>1, <2>2
<1>6. CASE StoreV \/ StoreW
  <2>1. settledAge' = 0 /\ UNCHANGED <<ctl, timer>>
        BY <1>6 DEF StoreV, StoreW, control
  <2>2. Before' \in Nat /\ (ctl' = "write" => Spent' \in Nat)
        BY <1>0, <2>1, Constants DEF Before, Spent
  <2> QED
      BY <2>1, <2>2
<1>7. CASE Tick
  <2>1. /\ settledAge' \in {settledAge, settledAge + 1} /\ timer' = timer - 1 /\ ctl' = ctl
        /\ ~WriteOutput /\ UNCHANGED <<writes, target_v, target_w>> /\ timer > 0
        BY <1>7, OlderType DEF Tick, WriteOutput, inputs, Types, NumbersType
  <2>2. /\ settledAge' > Before' => settledAge > Before
        /\ settledAge' > Spent' => settledAge > Spent
        BY <1>0, <2>1, Constants DEF Before, Spent
  <2> QED
      BY <1>a, <1>b, <1>k, <2>1, <2>2
<1>8. CASE Start \/ Passes
  <2>1. /\ ctl \in {"start", "check"} /\ ctl' \in {"check", "read"} /\ ~WriteOutput
        /\ UNCHANGED <<timer, settledAge, target_v, target_w>>
        BY <1>8 DEF Start, Passes, Checked, WriteOutput, inputs
  <2>2. Before' = Before
        BY <2>1 DEF Before
  <2> QED
      BY <1>b, <1>k, <2>1, <2>2
<1>9. CASE ~WriteOutput /\ UNCHANGED <<ctl, timer, settledAge, writes, target_v, target_w>>
  <2>1. Before' = Before /\ Spent' = Spent
        BY <1>9 DEF Before, Spent
  <2> QED
      BY <1>a, <1>b, <1>k, <1>9, <2>1
<1>10. CASE ReadTick \/ ReadStamp \/ ReadVelocity
  <2>1. ~WriteOutput /\ UNCHANGED <<ctl, timer, settledAge, writes, target_v, target_w>>
        BY <1>10 DEF ReadTick, ReadStamp, ReadVelocity, WriteOutput, inputs, ages
  <2> QED
      BY <1>9, <2>1
<1>11. CASE NodeReady \/ NodeFails \/ Blink \/ Receive \/ StoreTime \/ UNCHANGED vars
  <2>1. UNCHANGED <<ctl, timer, settledAge, writes, target_v, target_w>>
        BY <1>11 DEF NodeReady, NodeFails, Blink, Receive, StoreTime, vars, inputs,
             control, ages
  <2> QED
      BY <1>3, <1>9, <2>1
<1> QED
    BY <1>1, <1>2, <1>3, <1>4, <1>5, <1>6, <1>7, <1>8, <1>10, <1>11
    DEF Next, Control, MicroROS

----------------------------------------------------------------------------
\* A board that starts satisfies the invariant.
LEMMA Initial == Init => Inv
<1> SUFFICES ASSUME Init PROVE Inv
    OBVIOUS
<1>1. Types
      BY InitTypes
<1>2. TimerInv
      BY Constants DEF Init, TimerInv
<1>3. EmptyInv
      BY DEF Init, EmptyInv, Motors, Pins
<1>4. StampInv
      BY DEF Init, StampInv, Difference
<1>5. CheckInv /\ QuietInv
      BY DEF Init, CheckInv, QuietInv
<1>6. WatchdogInv
      BY DEF Init, WatchdogInv, Energised, Pins
<1>7. SeenInv
      BY DEF Init, SeenInv
<1>8. MixInv
      BY DEF Init, MixInv, Following, Motors, Pins
<1> QED
    BY <1>1, <1>2, <1>3, <1>4, <1>5, <1>6, <1>7, <1>8 DEF Inv

LEMMA NextInv == Inv /\ [Next]_vars => Inv'
BY TypesStep, TimerStep, EmptyStep, StampStep, CheckStep, QuietStep, WatchdogStep,
   SeenStep, MixStep DEF Inv, Types

\* Inv holds of every state the firmware reaches.
THEOREM Invariance == Spec => []Inv
BY Initial, NextInv, PTL DEF Spec

\* The outputs and the shared variables stay in their ranges.
THEOREM TypeCorrect == Spec => []TypeOK
<1>1. Inv => TypeOK
      BY TypesAreTypeOK DEF Inv
<1> QED
    BY Invariance, <1>1, PTL

\* Silence stops the motors of V2 and V3 in time, without a mutex.
THEOREM WatchdogBound == Spec => []WatchdogStops
<1>1. Inv => WatchdogStops
      BY Constants DEF Inv, WatchdogInv, WatchdogStops, Before, Reaction, Types,
         NumbersType, TimerInv, Ages
<1> QED
    BY Invariance, <1>1, PTL

\* A trip that no silence explains comes of a twist stamped in the same check.
THEOREM TripsHaveReason == Spec => TripsExplained
<1>1. Inv /\ [Next]_vars =>
         [Trips => quietAge > WATCHDOG_TIMEOUT_TICKS \/ heardAge <= EXEC]_vars
  <2> SUFFICES ASSUME Inv, Trips, ~(heardAge <= EXEC)
               PROVE  quietAge > WATCHDOG_TIMEOUT_TICKS
      OBVIOUS
  <2> USE Constants
  <2>1. /\ ctl = "check" /\ tickRead # Unread /\ stampRead # Unread
        /\ Difference(tickRead, stampRead) > WATCHDOG_TIMEOUT_TICKS
        BY DEF Trips, Checked, SilentTooLong
  <2>2. heardAge \in Int /\ quietAge \in Int /\ timer \in Nat
        BY DEF Inv, Types, NumbersType, Ages
  <2>3. ~(heardAge <= Spent)
        BY <2>2 DEF Spent
  <2>4. /\ quietAge >= heardAge /\ stampRead = last_cmd_time
        /\ Difference(tickRead, stampRead) <= heardAge
        BY <2>1, <2>3 DEF Inv, QuietInv
  <2>5. Difference(tickRead, stampRead) \in Int
        BY DEF Inv, Types, NumbersType, Difference, Unread
  <2> QED
      BY <2>1, <2>2, <2>4, <2>5
<1> QED
    BY Invariance, <1>1, PTL DEF Spec, TripsExplained

\* The wheels follow the velocities, in duty and sense, or are off one reaction
\* after these last changed.
THEOREM MixturesHeal == Spec => []MixtureHeals
<1>1. Inv => MixtureHeals
  <2> SUFFICES ASSUME Inv, settledAge > Reaction PROVE MixtureHeals
      BY DEF MixtureHeals
  <2>1. Before <= Reaction /\ Before \in Int /\ Reaction \in Int /\ settledAge \in Int
        BY Constants DEF Inv, Types, NumbersType, TimerInv, Ages, Before, Reaction
  <2>2. Following
        BY <2>1 DEF Inv, MixInv
  <2>3. OffOrAsAsked("INA_M1", "INB_M1", "EN_M1", LeftSpeed(target_v, target_w))
    <3>1. out["EN_M1"] = 0 \/ \A p \in {"INA_M1", "INB_M1", "EN_M1"} : out[p] = Asked(p)
          BY <2>2 DEF Following, Motors, Wheel
    <3> QED
        BY <3>1 DEF OffOrAsAsked, Asked, WheelValue
  <2>4. OffOrAsAsked("INA_M2", "INB_M2", "EN_M2", RightSpeed(target_v, target_w))
    <3>1. out["EN_M2"] = 0 \/ \A p \in {"INA_M2", "INB_M2", "EN_M2"} : out[p] = Asked(p)
          BY <2>2 DEF Following, Motors, Wheel
    <3> QED
        BY <3>1 DEF OffOrAsAsked, Asked, WheelValue
  <2> QED
      BY <2>3, <2>4 DEF MixtureHeals
<1> QED
    BY Invariance, <1>1, PTL

----------------------------------------------------------------------------
(* The firmware as a Robot: `moved` follows the motion in the shared variables,
   the motors follow what an iteration has read of it.  The callback may be half
   way through its stores at any of these places. *)

MovedType == moved \in 0 .. Reaction + 1

\* The velocities are of twists, perhaps of two.
MixturesInv == Velocity \in Mixtures

\* Nothing waits for the next store for long.
StoringInv == Storing => settledAge <= STORE

\* A motion that is too old was in force until then.
ForcedInv == Velocity # Still =>
                 IF InForce THEN moved = 0 ELSE moved <= Heard - WATCHDOG_TIMEOUT_TICKS

\* What an iteration has read of a motion was in force since it began.
ReadingInv == \A k \in 1 .. Len(seen) : k > 2 /\ seen[k] # 0 => moved <= Spent

\* So is what it writes, unless it halts; the motors run on it until the next one.
DriveInv == /\ ctl = "write" => moved <= Spent \/ Halting
            /\ Energised => moved <= Before

TimedInv == /\ Inv /\ MovedType /\ MixturesInv /\ StoringInv
            /\ ForcedInv /\ ReadingInv /\ DriveInv

\* The steps with `moved` are steps of the firmware, and moved counts its ticks.
LEMMA TimedSteps ==
    MovedType /\ [Act \/ Pass]_timed =>
        /\ [Next]_vars /\ MovedType'
        /\ moved' <= moved + 1 /\ (~Tick => moved' <= moved)
<1> SUFFICES ASSUME MovedType, [Act \/ Pass]_timed
             PROVE  /\ [Next]_vars /\ MovedType'
                    /\ moved' <= moved + 1 /\ (~Tick => moved' <= moved)
    OBVIOUS
<1>1. Reaction \in Nat
      BY Constants DEF Reaction
<1>2. [Next]_vars
      BY DEF Act, Pass, Next, timed
<1>3. moved' \in {0, moved} \/ (Tick /\ moved <= Reaction /\ moved' = moved + 1)
      BY DEF Act, Pass, timed
<1>4. moved \in 0 .. Reaction + 1
      BY DEF MovedType
<1>5. moved' \in 0 .. Reaction + 1
      BY <1>1, <1>3, <1>4
<1> QED
    BY <1>1, <1>2, <1>3, <1>4, <1>5 DEF MovedType, Reaction

\* Every stored velocity is that of a twist, or still 0.
LEMMA MixturesStep == VelocitiesType /\ MixturesInv /\ [Next]_vars => MixturesInv'
<1> SUFFICES ASSUME VelocitiesType, MixturesInv, [Next]_vars PROVE MixturesInv'
    OBVIOUS
<1> DEFINE Vs == {t.v : t \in Twists \cup {Still}}
           Ws == {t.w : t \in Twists \cup {Still}}
<1>1. target_v \in Vs /\ target_w \in Ws
      BY DEF MixturesInv, Velocity, Mixtures
<1>2. msg.v \in Vs /\ msg.w \in Ws
      BY DEF VelocitiesType
<1>3. target_v' \in {target_v, msg.v} /\ target_w' \in {target_w, msg.w}
      BY DEF Next, Control, MicroROS, Start, ReadTick, ReadStamp, Trips, Passes,
         ReadVelocity, Decide, WriteOutput, Sleep, Wake, NodeReady, NodeFails, Blink,
         Receive, StoreV, StoreW, StoreTime, Tick, vars, inputs
<1>4. target_v' \in Vs /\ target_w' \in Ws
      BY <1>1, <1>2, <1>3
<1> QED
    BY <1>4 DEF MixturesInv, Velocity, Mixtures

\* A step stores, lets time pass, or leaves the motion and its age alone.
LEMMA HeardStep ==
    [Act \/ Pass]_timed =>
        \/ Heard' = 0 /\ out' = out /\ moved' = IF InForce' THEN 0 ELSE moved
        \/ /\ Velocity' = Velocity /\ out' = out /\ Heard' = Older(Heard)
           /\ moved' = IF InForce' THEN 0
                       ELSE IF moved <= Reaction THEN moved + 1 ELSE moved
        \/ /\ Velocity' = Velocity /\ Heard' = Heard
           /\ moved' \in {moved, IF InForce' THEN 0 ELSE moved}
<1> SUFFICES ASSUME [Act \/ Pass]_timed
             PROVE  \/ Heard' = 0 /\ out' = out /\ moved' = IF InForce' THEN 0 ELSE moved
                    \/ /\ Velocity' = Velocity /\ out' = out /\ Heard' = Older(Heard)
                       /\ moved' = IF InForce' THEN 0
                                   ELSE IF moved <= Reaction THEN moved + 1 ELSE moved
                    \/ /\ Velocity' = Velocity /\ Heard' = Heard
                       /\ moved' \in {moved, IF InForce' THEN 0 ELSE moved}
    OBVIOUS
<1> HIDE DEF InForce
<1>1. CASE Pass
  <2>1. /\ UNCHANGED <<target_v, target_w, out, ros>>
        /\ heardAge' = Older(heardAge) /\ settledAge' = Older(settledAge)
        BY <1>1 DEF Pass, Tick, inputs, node
  <2>2. Velocity' = Velocity /\ Heard' = Older(Heard)
        BY <2>1 DEF Velocity, Heard, Storing
  <2> QED
      BY <1>1, <2>1, <2>2 DEF Pass
<1>2. CASE Act /\ (StoreV \/ StoreW \/ StoreTime)
  <2>1. Heard' = 0 /\ out' = out
        BY <1>2 DEF StoreV, StoreW, StoreTime, Heard, Storing
  <2> QED
      BY <1>2, <2>1 DEF Act
<1>3. CASE Act /\ Start
  <2>1. UNCHANGED <<target_v, target_w, out, ros, settledAge>> /\ heardAge' = 0
        BY <1>3 DEF Start, node
  <2>2. Velocity' = Velocity /\ (Heard' = 0 \/ Heard' = Heard)
        BY <2>1 DEF Velocity, Heard, Storing
  <2> QED
      BY <1>3, <2>1, <2>2 DEF Act
<1>4. CASE Act /\ ~(StoreV \/ StoreW \/ StoreTime \/ Start)
  <2>1. UNCHANGED <<target_v, target_w, heardAge, settledAge>> /\ Storing' = Storing
        BY <1>4 DEF Act, Control, MicroROS, ReadTick, ReadStamp, Trips, Passes,
           ReadVelocity, Decide, WriteOutput, Sleep, Wake, NodeReady, NodeFails, Blink,
           Receive, Storing, inputs, node, ages
  <2>2. Velocity' = Velocity /\ Heard' = Heard
        BY <2>1 DEF Velocity, Heard
  <2> QED
      BY <1>4, <2>2 DEF Act
<1>5. CASE UNCHANGED timed
  <2>1. Velocity' = Velocity /\ Heard' = Heard /\ moved' = moved
        BY <1>5 DEF Velocity, Heard, Storing, timed, vars, inputs, node, ages
  <2> QED
      BY <2>1
<1> QED
    BY <1>1, <1>2, <1>3, <1>4, <1>5

\* The age of the last store is an age.
LEMMA HeardType == NumbersType => Heard \in Ages
BY DEF NumbersType, Heard

\* Time does not pass while the next store is due.
LEMMA StoringStep ==
    NumbersType /\ StoringInv /\ [Act \/ Pass]_timed => StoringInv'
<1> SUFFICES ASSUME NumbersType, StoringInv, [Act \/ Pass]_timed, Storing'
             PROVE  settledAge' <= STORE
    BY DEF StoringInv
<1>1. STORE \in Nat /\ settledAge \in Nat
      BY TwistRobotAssumption, Constants DEF NumbersType, Ages
<1>2. CASE Pass
  <2>1. Storing /\ settledAge' = Older(settledAge)
        BY <1>2 DEF Pass, Tick, Storing, node
  <2>2. settledAge < STORE
        BY <1>2, <2>1 DEF Pass
  <2>3. settledAge' \in {settledAge, settledAge + 1}
        BY <2>1, OlderType DEF NumbersType
  <2> QED
      BY <1>1, <2>2, <2>3
<1>3. CASE StoreV \/ StoreW
      BY <1>1, <1>3 DEF StoreV, StoreW
<1>4. CASE ~Pass /\ ~StoreV /\ ~StoreW
  <2>1. Storing /\ settledAge' = settledAge
        BY <1>4 DEF Act, Control, MicroROS, Start, ReadTick, ReadStamp, Trips, Passes,
           ReadVelocity, Decide, WriteOutput, Sleep, Wake, NodeReady, NodeFails, Blink,
           Receive, StoreTime, Storing, node, ages, vars, timed
  <2> QED
      BY <2>1 DEF StoringInv
<1> QED
    BY <1>2, <1>3, <1>4

\* A motion in force stays so until its age is past the timeout, and comes back
\* only with a store, or when nothing is known of its age.
LEMMA ForcedStep ==
    NumbersType /\ MovedType /\ ForcedInv /\ [Act \/ Pass]_timed => ForcedInv'
<1> SUFFICES ASSUME NumbersType, MovedType, ForcedInv, [Act \/ Pass]_timed,
                    Velocity' # Still
             PROVE  IF InForce' THEN moved' = 0
                    ELSE moved' <= Heard' - WATCHDOG_TIMEOUT_TICKS
    BY DEF ForcedInv
<1> DEFINE W == WATCHDOG_TIMEOUT_TICKS
<1>1. /\ W \in Nat /\ TICK_MOD \in Nat /\ W < TICK_MOD
      BY Constants
<1>2. Heard \in 0 .. TICK_MOD /\ moved \in Nat
      BY HeardType, Constants DEF Ages, MovedType, Reaction
<1>3. InForce' <=> Heard' <= W \/ Heard' = TICK_MOD
      BY DEF InForce
<1>4. Velocity # Still =>
          IF Heard <= W \/ Heard = TICK_MOD THEN moved = 0 ELSE moved <= Heard - W
      BY DEF ForcedInv, InForce
<1> HIDE DEF W, InForce
<1>5. CASE Heard' = 0 /\ moved' = IF InForce' THEN 0 ELSE moved
      BY <1>1, <1>3, <1>5
<1>6. CASE /\ Velocity' = Velocity /\ Heard' = Older(Heard)
           /\ moved' = IF InForce' THEN 0
                       ELSE IF moved <= Reaction THEN moved + 1 ELSE moved
  <2>1. Heard' = IF Heard < TICK_MOD THEN Heard + 1 ELSE Heard
        BY <1>6 DEF Older
  <2>2. moved' = 0 \/ (~InForce' /\ moved' \in {moved, moved + 1})
        BY <1>6
  <2>3. InForce' => moved' = 0
        BY <1>6
  <2>4. ASSUME ~InForce' PROVE moved' <= Heard' - W
    <3>1. ~(Heard' <= W) /\ Heard' # TICK_MOD
          BY <1>3, <2>4
    <3>2. Heard < TICK_MOD /\ Heard' = Heard + 1 /\ Heard + 1 > W
          BY <1>1, <1>2, <2>1, <3>1
    <3>3. CASE Heard <= W
      <4>1. moved = 0
            BY <1>4, <1>6, <3>3
      <4> QED
          BY <1>1, <1>2, <2>2, <3>2, <4>1
    <3>4. CASE ~(Heard <= W)
      <4>1. moved <= Heard - W
            BY <1>2, <1>4, <1>6, <3>2, <3>4
      <4> QED
          BY <1>1, <1>2, <2>2, <3>2, <4>1
    <3> QED
        BY <3>3, <3>4
  <2> QED
      BY <2>3, <2>4 DEF W
<1>7. CASE /\ Velocity' = Velocity /\ Heard' = Heard
           /\ moved' \in {moved, IF InForce' THEN 0 ELSE moved}
      BY <1>3, <1>4, <1>7 DEF W
<1> QED
    BY <1>5, <1>6, <1>7, HeardStep DEF W

\* A motion that an iteration can still read was in force since it began.
LEMMA ReadForced ==
    ASSUME Types, TimerInv, WatchdogInv, StoringInv, ForcedInv, MovedType,
           ctl = "read", Velocity # Still
    PROVE  moved <= Spent
<1> DEFINE W == WATCHDOG_TIMEOUT_TICKS
<1>1. /\ W \in Nat /\ STORE \in Nat /\ STORE <= W
      /\ Spent \in Nat /\ moved \in Nat /\ heardAge \in 0 .. TICK_MOD
      /\ settledAge \in 0 .. TICK_MOD
      BY TwistRobotAssumption, Constants
      DEF Types, NumbersType, TimerInv, Ages, MovedType, Spent, Reaction
<1>2. InForce => moved = 0
      BY DEF ForcedInv
<1>3. ~InForce => moved <= Heard - W
      BY DEF ForcedInv
<1>4. CASE Storing
  <2>1. InForce
        BY <1>1, <1>4 DEF InForce, Heard, StoringInv
  <2> QED
      BY <1>1, <1>2, <2>1
<1>5. CASE ~Storing /\ heardAge < TICK_MOD
  <2>1. heardAge <= W + Spent
        BY <1>5 DEF WatchdogInv
  <2>2. Heard = heardAge
        BY <1>5 DEF Heard
  <2> QED
      BY <1>1, <1>2, <1>3, <2>1, <2>2
<1>6. CASE ~Storing /\ heardAge = TICK_MOD
  <2>1. InForce
        BY <1>6 DEF InForce, Heard
  <2> QED
      BY <1>1, <1>2, <2>1
<1> QED
    BY <1>1, <1>4, <1>5, <1>6, Constants

\* The bounds hold of what is read next, and of what has been read before.
LEMMA ReadingStep ==
    /\ Types /\ TimerInv /\ EmptyInv /\ WatchdogInv /\ StoringInv /\ ForcedInv
    /\ MovedType /\ ReadingInv /\ [Act \/ Pass]_timed
    => ReadingInv'
<1> SUFFICES ASSUME Types, TimerInv, EmptyInv, WatchdogInv, StoringInv, ForcedInv,
                    MovedType, ReadingInv, [Act \/ Pass]_timed,
                    NEW k \in 1 .. Len(seen'), k > 2, seen'[k] # 0
             PROVE  moved' <= Spent'
    BY DEF ReadingInv
<1>0. /\ moved \in Nat /\ moved' \in Nat /\ timer \in Nat /\ EXEC \in Nat
      /\ target_v \in Int /\ target_w \in Int /\ seen \in Seq(Int) /\ Len(seen) \in Nat
      BY TimedSteps, Constants DEF Types, NumbersType, VelocitiesType, SeqType, MovedType, Reaction
<1>1. [Next]_vars /\ moved' <= moved + 1 /\ (~Tick => moved' <= moved)
      BY TimedSteps
<1>2. CASE ReadVelocity
  <2>1. timer' = timer /\ ctl = "read" /\ ~Tick
        BY <1>0, <1>2 DEF ReadVelocity, Tick
  <2>2. Velocity # Still => moved <= Spent
        BY <2>1, ReadForced
  <2>3. moved <= Spent
    <3>1. CASE seen = << >> /\ target_v # 0
      <4>1. Len(seen') = 2
            BY <1>2, <3>1 DEF ReadVelocity
      <4> QED
          BY <4>1
    <3>2. CASE ~(seen = << >> /\ target_v # 0)
      <4>1. seen' = Append(seen, IF Len(seen) % 2 = 0 THEN target_v ELSE target_w)
            BY <1>2, <3>2 DEF ReadVelocity
      <4>2. (IF Len(seen) % 2 = 0 THEN target_v ELSE target_w) \in Int
            BY <1>0
      <4>3. /\ Len(seen') = Len(seen) + 1
            /\ \A i \in 1 .. Len(seen) : seen'[i] = seen[i]
            /\ seen'[Len(seen) + 1] \in {target_v, target_w}
            BY <1>0, <4>1, <4>2
      <4>4. CASE k = Len(seen) + 1
        <5>1. target_v # 0 \/ target_w # 0
              BY <4>3, <4>4
        <5>2. Velocity # Still
              BY <5>1 DEF Velocity, Still
        <5> QED
            BY <2>2, <5>2
      <4>5. CASE k \in 1 .. Len(seen)
            BY <4>3, <4>5 DEF ReadingInv
      <4> QED
          BY <1>0, <4>3, <4>4, <4>5
    <3> QED
        BY <3>1, <3>2
  <2>4. Spent' = Spent
        BY <2>1 DEF Spent
  <2> QED
      BY <1>0, <1>1, <2>1, <2>3, <2>4 DEF Spent
<1>3. CASE Tick
  <2>1. seen' = seen /\ timer' = timer - 1
        BY <1>3 DEF Tick, reads
  <2>2. moved <= Spent
        BY <2>1 DEF ReadingInv
  <2> QED
      BY <1>0, <1>1, <2>1, <2>2 DEF Spent
<1>4. CASE seen' = << >>
      BY <1>4
<1>5. CASE Start \/ ReadTick \/ ReadStamp \/ Trips \/ Passes \/ Decide \/ WriteOutput
           \/ Sleep \/ Wake
  <2>1. seen' = << >>
        BY <1>5 DEF Start, ReadTick, ReadStamp, Trips, Passes, Checked, Decide,
             WriteOutput, Sleep, Wake, EmptyInv, reads
  <2> QED
      BY <1>4, <2>1
<1>6. CASE ~Tick /\ (MicroROS \/ UNCHANGED vars)
  <2>1. seen' = seen /\ timer' = timer
        BY <1>6 DEF MicroROS, NodeReady, NodeFails, Blink, Receive, StoreV, StoreW,
             StoreTime, vars, control, reads
  <2>2. moved <= Spent
        BY <2>1 DEF ReadingInv
  <2> QED
      BY <1>0, <1>1, <1>6, <2>1, <2>2 DEF Spent
<1> QED
    BY <1>1, <1>2, <1>3, <1>5, <1>6 DEF Next, Control

\* An iteration that has read no motion is about to halt.
LEMMA DecideHalts ==
    Types /\ Decide /\ (\A k \in 3 .. 6 : seen[k] = 0) => Halting'
<1> SUFFICES ASSUME Types, Decide, \A k \in 3 .. 6 : seen[k] = 0 PROVE Halting'
    OBVIOUS
<1>1. seen[3] = 0 /\ seen[4] = 0 /\ seen[5] = 0 /\ seen[6] = 0
      OBVIOUS
<1>2. WritesWheels(writes', 0, 0)
  <2>1. LeftSpeed(0, 0) = 0 /\ RightSpeed(0, 0) = 0
        BY DEF LeftSpeed, RightSpeed
  <2> QED
      BY <1>1, <2>1, DecideWrites DEF Types
<1>3. calculate_pwm_with_deadband(0) = 0
      BY DEF calculate_pwm_with_deadband, Magnitude
<1> QED
    BY <1>2, <1>3 DEF WritesWheels, WheelValue, WheelPins, Pins, Motors, Halting, Pending

\* An iteration writes the duties of a motion that was in force since it began, or
\* halts; the duties stay until the next one has written its own.
LEMMA DriveStep ==
    /\ Types /\ TimerInv /\ EmptyInv /\ WatchdogInv /\ StoringInv /\ ForcedInv
    /\ MovedType /\ ReadingInv /\ DriveInv /\ [Act \/ Pass]_timed
    => DriveInv'
<1> SUFFICES ASSUME Types, TimerInv, EmptyInv, WatchdogInv, StoringInv, ForcedInv,
                    MovedType, ReadingInv, DriveInv, [Act \/ Pass]_timed
             PROVE  /\ ctl' = "write" => moved' <= Spent' \/ Halting'
                    /\ Energised' => moved' <= Before'
    BY DEF DriveInv
<1>0. /\ moved \in Nat /\ moved' \in Nat /\ timer \in Nat
      /\ ctl # "delay" => timer <= EXEC
      /\ ctl = "delay" => timer <= PERIOD
      BY TimedSteps, Constants DEF Types, NumbersType, TimerInv, MovedType, Reaction
<1>1. [Next]_vars /\ moved' <= moved + 1 /\ (~Tick => moved' <= moved)
      BY TimedSteps
<1>2. /\ ctl = "write" => moved <= Spent \/ Halting
      /\ Energised => moved <= Before
      BY DEF DriveInv
<1>m. ~WriteOutput => (Energised' <=> Energised)
      BY <1>1, MotorsKept DEF Types, Energised, Motors
<1> USE Constants DEF Spent, Before
<1>3. CASE Trips
  <2>1. /\ ctl = "check" /\ ctl' = "write" /\ writes' = Trip /\ timer' = timer
        /\ ~WriteOutput /\ ~Tick
        BY <1>0, <1>3 DEF Trips, Checked, WriteOutput, Tick
  <2>2. Halting'
        BY <2>1, TripWrites DEF Halting, Pending
  <2> QED
      BY <1>0, <1>1, <1>2, <1>m, <2>1, <2>2
<1>4. CASE Decide
  <2>1. /\ ctl = "read" /\ ctl' = "write" /\ timer' = timer /\ Len(seen) = 6
        /\ ~WriteOutput /\ ~Tick
        BY <1>0, <1>4 DEF Decide, WriteOutput, Tick
  <2>2. CASE \A k \in 3 .. 6 : seen[k] = 0
        BY <1>0, <1>1, <1>2, <1>4, <1>m, <2>1, <2>2, DecideHalts
  <2>3. CASE ~(\A k \in 3 .. 6 : seen[k] = 0)
    <3>1. PICK k \in 3 .. 6 : seen[k] # 0
          BY <2>3
    <3>2. moved <= Spent
          BY <2>1, <3>1 DEF ReadingInv
    <3> QED
        BY <1>0, <1>1, <1>2, <1>m, <2>1, <3>2
  <2> QED
      BY <2>2, <2>3
<1>5. CASE WriteOutput
  <2>1. ctl = "write" /\ ctl' = ctl /\ timer' = timer /\ ~Tick
        BY <1>0, <1>5 DEF WriteOutput, Tick
  <2>2. CASE Halting
    <3>1. Halting' /\ (Energised' => Energised)
          BY <1>5, <2>2, HaltingStep DEF Types
    <3> QED
        BY <1>0, <1>1, <1>2, <2>1, <3>1
  <2>3. CASE moved <= Spent
        BY <1>0, <1>1, <2>1, <2>3
  <2> QED
      BY <1>2, <2>1, <2>2, <2>3
<1>6. CASE Sleep
  <2>1. /\ ctl = "write" /\ ctl' = "delay" /\ timer' = PERIOD /\ writes = << >>
        /\ ~WriteOutput /\ ~Tick
    <3>1. /\ ctl = "write" /\ ctl' = "delay" /\ timer' = PERIOD /\ writes = << >>
          BY <1>6 DEF Sleep
    <3> QED
        BY <3>1 DEF WriteOutput, Tick
  <2>2. CASE Halting
    <3>1. \A p \in Motors : ~Pending(p)
          BY <2>1 DEF Pending
    <3>2. \A p \in Motors : out[p] = 0
          BY <2>2, <3>1 DEF Halting
    <3>3. ~Energised
          BY <3>2 DEF Energised, Motors
    <3> QED
        BY <1>m, <2>1, <3>3
  <2>3. CASE moved <= Spent
        BY <1>0, <1>1, <2>1, <2>3
  <2> QED
      BY <1>2, <2>1, <2>2, <2>3
<1>7. CASE Wake
  <2>1. /\ ctl = "delay" /\ timer = 0 /\ ctl' = "check" /\ timer' = EXEC
        /\ ~WriteOutput /\ ~Tick
        BY <1>7 DEF Wake, WriteOutput, Tick
  <2> QED
      BY <1>0, <1>1, <1>2, <1>m, <2>1
<1>t. UNCHANGED <<out, writes>> => (Halting' <=> Halting)
      BY DEF Halting, Pending
<1>8. CASE Tick
  <2>1. /\ timer' = timer - 1 /\ ctl' = ctl /\ UNCHANGED <<out, writes>>
        /\ (Energised' <=> Energised)
        BY <1>8 DEF Tick, Energised
  <2> QED
      BY <1>0, <1>1, <1>2, <1>t, <2>1
<1>9. CASE /\ ctl' = ctl \/ (ctl \in {"start", "check"} /\ ctl' \in {"check", "read"})
           /\ UNCHANGED <<timer, writes>> /\ ~WriteOutput /\ ~Tick
  <2>1. ctl' = "write" /\ Halting => Halting'
    <3>1. \A p \in Motors : out'[p] = out[p]
          BY <1>1, <1>9, MotorsKept DEF Types
    <3> QED
        BY <1>9, <3>1 DEF Halting, Pending
  <2> QED
      BY <1>0, <1>1, <1>2, <1>m, <1>9, <2>1
<1>10. CASE /\ ~WriteOutput /\ ~Tick
            /\ \/ Start \/ ReadTick \/ ReadStamp \/ Passes \/ ReadVelocity
               \/ MicroROS \/ UNCHANGED vars
  <2>1. /\ ctl' = ctl \/ (ctl \in {"start", "check"} /\ ctl' \in {"check", "read"})
        /\ UNCHANGED <<timer, writes>>
        BY <1>10 DEF Start, ReadTick, ReadStamp, Passes, Checked, ReadVelocity, MicroROS,
             NodeReady, NodeFails, Blink, Receive, StoreV, StoreW, StoreTime, vars, control
  <2> QED
      BY <1>9, <1>10, <2>1
<1> QED
    BY <1>1, <1>3, <1>4, <1>5, <1>6, <1>7, <1>8, <1>10 DEF Next, Control

\* A board that starts has driven nothing and heard of no motion.
LEMMA TimedInitial == TimedInit => TimedInv
<1> SUFFICES ASSUME TimedInit PROVE TimedInv
    OBVIOUS
<1>1. Inv
      BY Initial DEF TimedInit
<1>2. /\ target_v = 0 /\ target_w = 0 /\ ros = "init" /\ ctl = "start" /\ seen = << >>
      /\ out = [p \in Pins |-> 0] /\ moved = Reaction + 1
      BY DEF TimedInit, Init
<1>3. Velocity = Still /\ ~Storing /\ ~Energised
      BY <1>2 DEF Velocity, Still, Storing, Energised, Pins
<1>4. MovedType
      BY <1>2, Constants DEF MovedType, Reaction
<1>5. MixturesInv
      BY <1>3 DEF MixturesInv, Mixtures, Still
<1> QED
    BY <1>1, <1>2, <1>3, <1>4, <1>5
    DEF TimedInv, StoringInv, ForcedInv, ReadingInv, DriveInv

LEMMA TimedNextInv == TimedInv /\ [Act \/ Pass]_timed => TimedInv'
<1> SUFFICES ASSUME TimedInv, [Act \/ Pass]_timed PROVE TimedInv'
    OBVIOUS
<1>1. [Next]_vars /\ MovedType'
      BY TimedSteps DEF TimedInv
<1>2. Inv'
      BY <1>1, NextInv DEF TimedInv
<1> QED
    BY <1>1, <1>2, MixturesStep, StoringStep, ForcedStep, ReadingStep, DriveStep
    DEF TimedInv, Inv, Types

\* What is proved of TwistRos holds of TwistRobot: it only watches, and is slower
\* to let time pass.
THEOREM TimedRefines == TimedSpec => Spec
<1>1. [Act \/ Pass]_timed => [Next]_vars
      BY DEF Act, Pass, Next, timed
<1> QED
    BY <1>1, PTL DEF TimedSpec, TimedInit, Spec

\* TimedInv holds of every state, at every place of the two tasks.
THEOREM TimedInvariance == TimedSpec => []TimedInv
BY TimedInitial, TimedNextInv, PTL DEF TimedSpec

\* The motors run only if a motion was in force at most Reaction ago.
LEMMA TimedObeys == TimedInv => (Energised => moved <= Reaction)
BY Constants DEF TimedInv, DriveInv, Inv, Types, NumbersType, TimerInv, MovedType,
                 Before, Reaction

\* Every step of the two tasks is a step of a Robot, or leaves it as it is.
LEMMA NextMachine ==
    TimedInv /\ [Act \/ Pass]_timed =>
        [Machine!RobotNext]_<<Velocity, Heard, moved, Energised>>
<1> SUFFICES ASSUME TimedInv, [Act \/ Pass]_timed
             PROVE  [Machine!RobotNext]_<<Velocity, Heard, moved, Energised>>
    OBVIOUS
<1>1. TimedInv'
      BY TimedNextInv
<1>2. Velocity' \in Mixtures
      BY <1>1 DEF TimedInv, MixturesInv, Mixtures
<1>3. Machine!InForce' <=> InForce'
      BY DEF Machine!InForce, InForce
<1>4. Energised' => moved' <= Reaction
  <2>1. (Energised => moved <= Reaction)'
        BY <1>1, TimedObeys, PTL
  <2> QED
      BY <2>1 DEF Reaction
<1>5. Energised \in BOOLEAN /\ Energised' \in BOOLEAN
      BY DEF Energised
<1>6. out' = out => Energised' = Energised
      BY DEF Energised
<1> HIDE DEF InForce, Machine!InForce
<1>7. CASE Heard' = 0 /\ out' = out /\ moved' = IF InForce' THEN 0 ELSE moved
  <2>1. Machine!Hear(Velocity')
        BY <1>3, <1>6, <1>7 DEF Machine!Hear
  <2> QED
      BY <1>2, <2>1 DEF Machine!RobotNext
<1>8. CASE /\ Velocity' = Velocity /\ out' = out /\ Heard' = Older(Heard)
           /\ moved' = IF InForce' THEN 0
                       ELSE IF moved <= Reaction THEN moved + 1 ELSE moved
  <2>1. Machine!Elapse
        BY <1>3, <1>4, <1>6, <1>8 DEF Machine!Elapse, Older
  <2> QED
      BY <2>1 DEF Machine!RobotNext
<1>9. CASE /\ Velocity' = Velocity /\ Heard' = Heard
           /\ moved' \in {moved, IF InForce' THEN 0 ELSE moved}
  <2>1. InForce' => moved = 0
    <3>1. InForce' <=> InForce
          BY <1>9 DEF InForce
    <3>2. InForce => moved = 0
          BY DEF TimedInv, ForcedInv, InForce
    <3> QED
        BY <3>1, <3>2
  <2>2. moved' = moved
        BY <1>9, <2>1
  <2>3. Machine!Drive
        BY <1>4, <1>5, <1>9, <2>2 DEF Machine!Drive
  <2> QED
      BY <2>3 DEF Machine!RobotNext
<1> QED
    BY <1>7, <1>8, <1>9, HeardStep

\* To whoever publishes twists, three shared variables without a mutex are the same
\* Robot as the firmware with one: the motors run only on a motion, or on a mixture,
\* that was stored and young at most Reaction ago.
THEOREM RobotImplemented == TimedSpec => ActsAsRobot
<1>1. TimedInit => Machine!RobotInit
  <2> SUFFICES ASSUME TimedInit PROVE Machine!RobotInit
      OBVIOUS
  <2>1. /\ target_v = 0 /\ target_w = 0 /\ ros = "init" /\ heardAge = 0
        /\ out = [p \in Pins |-> 0] /\ moved = Reaction + 1
        BY DEF TimedInit, Init
  <2>2. Velocity = Still /\ Heard = 0 /\ Energised = FALSE
        BY <2>1 DEF Velocity, Still, Heard, Storing, Energised, Pins
  <2> QED
      BY <2>1, <2>2 DEF Machine!RobotInit
<1> QED
    BY <1>1, NextMachine, TimedInvariance, PTL
    DEF TimedSpec, ActsAsRobot, Machine!RobotSpec, Machine!robot

=============================================================================
