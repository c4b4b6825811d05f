--------------------------- MODULE Esteira_proofs ---------------------------
(***************************************************************************)
(* Theorems about Esteira, for every timing, every clock width, every set  *)
(* of directions and speeds, and both ways the outputs can be named.       *)
(***************************************************************************)
EXTENDS EsteiraInv, TLAPS

----------------------------------------------------------------------------
(* The arithmetic of Task_Control, for every command *)

\* A motor that is driven at all gets at least the MIN_PWM it needs to move,
\* and never more than MAX_PWM, whatever speed a client asks for.
THEOREM DutyRange ==
    ASSUME NEW x \in Int
    PROVE  calculate_pwm_with_deadband(x) \in {0} \cup MIN_PWM .. MAX_PWM
<1> DEFINE duty == calculate_pwm_with_deadband(x)
           q == (Saturated(x) * (MAX_PWM - MIN_PWM)) \div MAX_SPEED
<1>1. Saturated(x) \in 0 .. MAX_SPEED
  BY DEF Saturated, Magnitude, MAX_SPEED
<1>2. q \in 0 .. (MAX_PWM - MIN_PWM)
  BY <1>1 DEF MAX_SPEED, MAX_PWM, MIN_PWM
<1>3. duty \in {0, MIN_PWM + q}
  BY DEF calculate_pwm_with_deadband
<1> HIDE DEF q, duty
<1>4. duty \in {0} \cup MIN_PWM .. MAX_PWM
  BY <1>2, <1>3 DEF MAX_PWM, MIN_PWM
<1> QED
  BY <1>4 DEF duty

\* Every duty fits the 11 bits of PWM_RES.
COROLLARY DutyFits ==
    ASSUME NEW x \in Int
    PROVE  calculate_pwm_with_deadband(x) \in 0 .. PWM_TOP
<1>1. calculate_pwm_with_deadband(x) \in {0} \cup MIN_PWM .. MAX_PWM
  BY DutyRange
<1>2. 0 <= MIN_PWM /\ MAX_PWM <= PWM_TOP
  BY DEF MAX_PWM, MIN_PWM, PWM_TOP
<1>3. MIN_PWM \in Int /\ MAX_PWM \in Int /\ PWM_TOP \in Nat
  BY DEF MAX_PWM, MIN_PWM, PWM_TOP
<1> QED
  BY <1>1, <1>2, <1>3

\* The two wheel speeds are integers, so that the duty of each is defined.
LEMMA WheelSpeeds ==
    ASSUME NEW v \in Int, NEW w \in Int
    PROVE  v_left(v, w) \in Int /\ v_right(v, w) \in Int
BY DEF v_left, v_right

----------------------------------------------------------------------------
(* The operators the model is built from *)

\* The subtraction of two readings of the clock is an age below its width.
LEMMA ElapsedType ==
    ASSUME NEW now \in 0 .. CLOCK_MOD - 1, NEW last \in 0 .. CLOCK_MOD - 1
    PROVE  Elapsed(now, last) \in 0 .. CLOCK_MOD - 1
BY EsteiraAssumption DEF Elapsed

\* One tick later the subtraction gives one more, also across the wrap.
LEMMA ElapsedTick ==
    ASSUME NEW now \in 0 .. CLOCK_MOD - 1, NEW last \in 0 .. CLOCK_MOD - 1,
           Elapsed(now, last) < CLOCK_MOD - 1
    PROVE  Elapsed(IF now + 1 < CLOCK_MOD THEN now + 1 ELSE 0, last)
               = Elapsed(now, last) + 1
BY EsteiraAssumption DEF Elapsed

\* An age stays an age.
LEMMA OlderType ==
    ASSUME NEW age \in 0 .. CLOCK_MOD
    PROVE  /\ Older(age) \in 0 .. CLOCK_MOD
           /\ age <= Older(age)
           /\ Older(age) <= age + 1
           /\ Older(age) < CLOCK_MOD => Older(age) = age + 1
BY EsteiraAssumption DEF Older

\* What an iteration writes fits the outputs.
LEMMA TargetType ==
    ASSUME v_local \in Int, w_local \in Int
    PROVE  Target \in [Pins -> 0 .. PWM_TOP]
<1> DEFINE left == v_left(v_local, w_local)
           right == v_right(v_local, w_local)
<1>1. left \in Int /\ right \in Int
  BY WheelSpeeds
<1>2. /\ calculate_pwm_with_deadband(left) \in 0 .. PWM_TOP
      /\ calculate_pwm_with_deadband(right) \in 0 .. PWM_TOP
  BY <1>1, DutyFits
<1>3. 0 \in 0 .. PWM_TOP /\ 1 \in 0 .. PWM_TOP
  BY DEF PWM_TOP
<1> HIDE DEF left, right
<1>4. DriveTarget(v_local, w_local) \in [Pins -> 0 .. PWM_TOP]
  BY <1>2, <1>3 DEF DriveTarget, LedLevel, Pins, left, right
<1>5. [p \in Pins |-> 0] \in [Pins -> 0 .. PWM_TOP]
  BY <1>3
<1> QED
  BY <1>4, <1>5 DEF Target

\* Each iteration writes each of the six outputs once.
LEMMA OrderCovers ==
    /\ \A i \in 1 .. 6 : Order[i] \in Pins
    /\ \A p \in Pins : \E i \in 1 .. 6 : Order[i] = p
    /\ \A i, j \in 1 .. 6 : Order[i] = Order[j] => i = j
<1>1. CASE branch = "trip"
  BY <1>1 DEF Order, Pins
<1>2. CASE branch # "trip" /\ v_right(v_local, w_local) > 0
  BY <1>2 DEF Order, DriveOrder, Pins
<1>3. CASE branch # "trip" /\ ~(v_right(v_local, w_local) > 0)
  BY <1>3 DEF Order, DriveOrder, Pins
<1> QED
  BY <1>1, <1>2, <1>3

\* A client asks for integer speeds.
LEMMA MotionType ==
    ASSUME NEW d \in Directions, NEW s \in Speeds
    PROVE  /\ Motion(d, s) \in Motions
           /\ Motion(d, s) \in [v : Int, w : Int]
BY EsteiraAssumption DEF Motion, Motions

----------------------------------------------------------------------------
(* Type correctness *)

\* Type correctness, one action at a time.
LEMMA InitType == Init => TypeOK
<1> SUFFICES ASSUME Init PROVE TypeOK
  OBVIOUS
<1>1. 0 \in 0 .. CLOCK_MOD - 1 /\ 0 \in 0 .. CLOCK_MOD
  BY EsteiraAssumption
<1>2. out \in [Pins -> 0 .. PWM_TOP]
  BY DEF Init, PWM_TOP
<1>3. EXEC \in 0 .. PERIOD + EXEC
  BY EsteiraAssumption
<1>4. /\ sharedCmd \in RobotCommand
      /\ job \in [motion : [v : Int, w : Int], by : {"text", "disconnected", "ota"}]
  BY <1>1 DEF Init, RobotCommand, NoJob, Rest
<1>5. committed \in RobotCommand
  BY <1>4 DEF Init
<1>6. /\ clock \in 0 .. CLOCK_MOD - 1 /\ time_local \in 0 .. CLOCK_MOD - 1
      /\ heardAge \in 0 .. CLOCK_MOD /\ readAge \in 0 .. CLOCK_MOD
      /\ moved \in 0 .. Reaction + 1
      /\ timer \in 0 .. PERIOD + EXEC /\ step \in 1 .. 7 /\ cut \in 1 .. 6
      /\ v_local \in Int /\ w_local \in Int
  BY <1>1, <1>3, EsteiraAssumption DEF Init, Reaction
<1> QED
  BY <1>2, <1>4, <1>5, <1>6 DEF Init, TypeOK

\* Every step keeps the types.
LEMMA NextType == TypeOK /\ [Next]_vars => TypeOK'
<1> SUFFICES ASSUME TypeOK, [Next]_vars PROVE TypeOK'
  OBVIOUS
<1> USE EsteiraAssumption DEF TypeOK, RobotCommand
<1>1. CASE Wake
  BY <1>1 DEF Wake, shared, locals, ages, control, server
<1>2. CASE TakeControl
  BY <1>2 DEF TakeControl, shared, locals, ages, control, server
<1>3. CASE ReadV
  BY <1>3 DEF ReadV, shared, locals, ages, control, server
<1>4. CASE ReadW
  BY <1>4 DEF ReadW, shared, locals, ages, control, server
<1>5. CASE ReadTime
  BY <1>5 DEF ReadTime, shared, locals, ages, control, server
<1>6. CASE GiveControl
  BY <1>6 DEF GiveControl, shared, locals, ages, control, server
<1>7. CASE Check
  BY <1>7 DEF Check, shared, locals, ages, control, server
<1>8. CASE WriteOutput
  <2>1. step \in 1 .. 6
    BY <1>8 DEF WriteOutput
  <2>2. Target[Order[step]] \in 0 .. PWM_TOP
    BY <2>1, TargetType, OrderCovers
  <2>3. out' \in [Pins -> 0 .. PWM_TOP]
    BY <1>8, <2>2 DEF WriteOutput
  <2> QED
    BY <1>8, <2>1, <2>3 DEF WriteOutput, shared, locals, ages, control, server
<1>9. CASE Sleep
  BY <1>9 DEF Sleep, shared, locals, ages, control, server
<1>10. CASE TakeWeb
  BY <1>10 DEF TakeWeb, shared, locals, ages, control, server
<1>11. CASE TakeTimeout
  BY <1>11 DEF TakeTimeout, AfterSection, NoJob, Rest, shared, locals, ages, control, server
<1>12. CASE SetV
  BY <1>12 DEF SetV, shared, locals, ages, control, server
<1>13. CASE SetW
  BY <1>13 DEF SetW, shared, locals, ages, control, server
<1>14. CASE SetTime
  <2>1. moved' \in 0 .. Reaction + 1
    BY <1>14 DEF SetTime, Reaction
  <2> QED
    BY <1>14, <2>1 DEF SetTime, shared, locals, ages, control, server
<1>15. CASE GiveWeb
  BY <1>15 DEF GiveWeb, AfterSection, NoJob, Rest, shared, locals, ages, control, server
<1>16. CASE CutOutput
  <2>1. 0 \in 0 .. PWM_TOP
    BY DEF PWM_TOP
  <2>2. out' \in [Pins -> 0 .. PWM_TOP]
    BY <1>16, <2>1 DEF CutOutput
  <2> QED
    BY <1>16, <2>2 DEF CutOutput, shared, locals, ages, control, server
<1>17. CASE CutDone
  BY <1>17 DEF CutDone, shared, locals, ages, control, server
<1>18. CASE Text
  BY <1>18, MotionType DEF Text, Event, shared, locals, ages, control, server
<1>19. CASE Disconnected
  BY <1>19 DEF Disconnected, Event, Rest, shared, locals, ages, control, server
<1>20. CASE OtaStart
  BY <1>20 DEF OtaStart, Event, Rest, shared, locals, ages, control, server
<1>21. CASE OtaError
  BY <1>21 DEF OtaError, shared, locals, ages, control, server
<1>22. CASE OtaEnd
  <2>1. out' \in [Pins -> 0 .. PWM_TOP]
    BY <1>22 DEF OtaEnd, PWM_TOP
  <2>2. /\ 0 \in 0 .. CLOCK_MOD - 1 /\ 0 \in 0 .. CLOCK_MOD
        /\ EXEC \in 0 .. PERIOD + EXEC
    OBVIOUS
  <2>3. sharedCmd' \in RobotCommand /\ committed' \in RobotCommand
    BY <1>22, <2>2 DEF OtaEnd
  <2>4. job' \in [motion : [v : Int, w : Int], by : {"text", "disconnected", "ota"}]
    BY <1>22 DEF OtaEnd, NoJob, Rest
  <2>5. /\ clock' \in 0 .. CLOCK_MOD - 1 /\ time_local' \in 0 .. CLOCK_MOD - 1
        /\ heardAge' \in 0 .. CLOCK_MOD /\ readAge' \in 0 .. CLOCK_MOD
        /\ moved' \in 0 .. Reaction + 1
        /\ timer' \in 0 .. PERIOD + EXEC /\ step' \in 1 .. 7 /\ cut' \in 1 .. 6
        /\ v_local' \in Int /\ w_local' \in Int
    BY <1>22, <2>2 DEF OtaEnd, Reaction
  <2>6. mutex' = "none" /\ ctl' = "take" /\ web' = "loop" /\ branch' \in {"drive", "trip"}
    BY <1>22 DEF OtaEnd
  <2> QED
    BY <2>1, <2>3, <2>4, <2>5, <2>6
<1>23. CASE Tick
  <2>1. /\ heardAge' \in 0 .. CLOCK_MOD
        /\ readAge' \in 0 .. CLOCK_MOD
        /\ moved' \in 0 .. Reaction + 1
    BY <1>23, OlderType DEF Tick, Reaction
  <2> QED
    BY <1>23, <2>1 DEF Tick, shared, locals, server
<1>24. CASE UNCHANGED vars
  BY <1>24 DEF vars, shared, locals, ages, control, server
<1> QED
  BY <1>1, <1>2, <1>3, <1>4, <1>5, <1>6, <1>7, <1>8, <1>9, <1>10, <1>11, <1>12, <1>13, <1>14, <1>15, <1>16, <1>17, <1>18, <1>19, <1>20, <1>21, <1>22, <1>23, <1>24
     DEF Next, Control, Handler, Network

\* Every variable keeps its type; above all every duty ever written fits the
\* 11 bits of the PWM timers, whatever speed a client asks for.
THEOREM TypeCorrect == Spec => []TypeOK
<1> QED
  BY InitType, NextType, PTL DEF Spec

----------------------------------------------------------------------------
(* One lemma per part of the inductive invariant *)

\* The mutex holds: each task is in its section exactly while it is the holder.
LEMMA NextMutex == TypeOK /\ MutexInv /\ [Next]_vars => MutexInv'
<1> SUFFICES ASSUME TypeOK, MutexInv, [Next]_vars PROVE MutexInv'
  OBVIOUS
<1> USE DEF TypeOK, MutexInv, ControlSection, WebSection
<1>1. CASE Wake
  BY <1>1 DEF Wake, shared, locals, ages, control, server
<1>2. CASE TakeControl
  BY <1>2 DEF TakeControl, shared, locals, ages, control, server
<1>3. CASE ReadV
  BY <1>3 DEF ReadV, shared, locals, ages, control, server
<1>4. CASE ReadW
  BY <1>4 DEF ReadW, shared, locals, ages, control, server
<1>5. CASE ReadTime
  BY <1>5 DEF ReadTime, shared, locals, ages, control, server
<1>6. CASE GiveControl
  BY <1>6 DEF GiveControl, shared, locals, ages, control, server
<1>7. CASE Check
  BY <1>7 DEF Check, shared, locals, ages, control, server
<1>8. CASE WriteOutput
  BY <1>8 DEF WriteOutput, shared, locals, ages, control, server
<1>9. CASE Sleep
  BY <1>9 DEF Sleep, shared, locals, ages, control, server
<1>10. CASE TakeWeb
  BY <1>10 DEF TakeWeb, shared, locals, ages, control, server
<1>11. CASE TakeTimeout
  BY <1>11 DEF TakeTimeout, AfterSection, shared, locals, ages, control, server
<1>12. CASE SetV
  BY <1>12 DEF SetV, shared, locals, ages, control, server
<1>13. CASE SetW
  BY <1>13 DEF SetW, shared, locals, ages, control, server
<1>14. CASE SetTime
  BY <1>14 DEF SetTime, shared, locals, ages, control, server
<1>15. CASE GiveWeb
  BY <1>15 DEF GiveWeb, AfterSection, shared, locals, ages, control, server
<1>16. CASE CutOutput
  BY <1>16 DEF CutOutput, shared, locals, ages, control, server
<1>17. CASE CutDone
  BY <1>17 DEF CutDone, shared, locals, ages, control, server
<1>18. CASE Text
  BY <1>18 DEF Text, Event, shared, locals, ages, control, server
<1>19. CASE Disconnected
  BY <1>19 DEF Disconnected, Event, shared, locals, ages, control, server
<1>20. CASE OtaStart
  BY <1>20 DEF OtaStart, Event, shared, locals, ages, control, server
<1>21. CASE OtaError
  BY <1>21 DEF OtaError, shared, locals, ages, control, server
<1>22. CASE OtaEnd
  BY <1>22 DEF OtaEnd, shared, locals, ages, control, server
<1>23. CASE Tick
  BY <1>23 DEF Tick, shared, locals, ages, control, server
<1>24. CASE UNCHANGED vars
  BY <1>24 DEF vars, shared, locals, ages, control, server
<1> QED
  BY <1>1, <1>2, <1>3, <1>4, <1>5, <1>6, <1>7, <1>8, <1>9, <1>10, <1>11, <1>12,
     <1>13, <1>14, <1>15, <1>16, <1>17, <1>18, <1>19, <1>20, <1>21, <1>22, <1>23, <1>24
     DEF Next, Control, Handler, Network

\* A copied field stays right until the copy is complete.
LEMMA NextCopy == TypeOK /\ MutexInv /\ CopyInv /\ [Next]_vars => CopyInv'
<1> SUFFICES ASSUME TypeOK, MutexInv, CopyInv, [Next]_vars PROVE CopyInv'
  OBVIOUS
<1> USE DEF TypeOK, MutexInv, ControlSection, WebSection, CopyInv
<1>1. CASE Wake
  BY <1>1 DEF Wake, shared, locals, ages, control, server
<1>2. CASE TakeControl
  BY <1>2 DEF TakeControl, shared, locals, ages, control, server
<1>3. CASE ReadV
  BY <1>3 DEF ReadV, shared, locals, ages, control, server
<1>4. CASE ReadW
  BY <1>4 DEF ReadW, shared, locals, ages, control, server
<1>5. CASE ReadTime
  BY <1>5 DEF ReadTime, shared, locals, ages, control, server
<1>6. CASE GiveControl
  BY <1>6 DEF GiveControl, shared, locals, ages, control, server
<1>7. CASE Check
  BY <1>7 DEF Check, shared, locals, ages, control, server
<1>8. CASE WriteOutput
  BY <1>8 DEF WriteOutput, shared, locals, ages, control, server
<1>9. CASE Sleep
  BY <1>9 DEF Sleep, shared, locals, ages, control, server
<1>10. CASE TakeWeb
  BY <1>10 DEF TakeWeb, shared, locals, ages, control, server
<1>11. CASE TakeTimeout
  BY <1>11 DEF TakeTimeout, AfterSection, shared, locals, ages, control, server
<1>12. CASE SetV
  BY <1>12 DEF SetV, shared, locals, ages, control, server
<1>13. CASE SetW
  BY <1>13 DEF SetW, shared, locals, ages, control, server
<1>14. CASE SetTime
  BY <1>14 DEF SetTime, shared, locals, ages, control, server
<1>15. CASE GiveWeb
  BY <1>15 DEF GiveWeb, AfterSection, shared, locals, ages, control, server
<1>16. CASE CutOutput
  BY <1>16 DEF CutOutput, shared, locals, ages, control, server
<1>17. CASE CutDone
  BY <1>17 DEF CutDone, shared, locals, ages, control, server
<1>18. CASE Text
  BY <1>18 DEF Text, Event, shared, locals, ages, control, server
<1>19. CASE Disconnected
  BY <1>19 DEF Disconnected, Event, shared, locals, ages, control, server
<1>20. CASE OtaStart
  BY <1>20 DEF OtaStart, Event, shared, locals, ages, control, server
<1>21. CASE OtaError
  BY <1>21 DEF OtaError, shared, locals, ages, control, server
<1>22. CASE OtaEnd
  BY <1>22 DEF OtaEnd, shared, locals, ages, control, server
<1>23. CASE Tick
  BY <1>23 DEF Tick, shared, locals, ages, control, server
<1>24. CASE UNCHANGED vars
  BY <1>24 DEF vars, shared, locals, ages, control, server
<1> QED
  BY <1>1, <1>2, <1>3, <1>4, <1>5, <1>6, <1>7, <1>8, <1>9, <1>10, <1>11, <1>12,
     <1>13, <1>14, <1>15, <1>16, <1>17, <1>18, <1>19, <1>20, <1>21, <1>22, <1>23, <1>24
     DEF Next, Control, Handler, Network

\* A clock reading is no time ago.
LEMMA ElapsedNow ==
    ASSUME NEW now \in 0 .. CLOCK_MOD - 1
    PROVE  Elapsed(now, now) = 0
BY EsteiraAssumption DEF Elapsed

\* No iteration or delay outlasts its bound.
LEMMA NextTimer == TypeOK /\ TimerInv /\ [Next]_vars => TimerInv'
<1> SUFFICES ASSUME TypeOK, TimerInv, [Next]_vars PROVE TimerInv'
  OBVIOUS
<1> USE EsteiraAssumption DEF TypeOK, TimerInv
<1>1. CASE Wake
  BY <1>1 DEF Wake, shared, locals, ages, control, server
<1>2. CASE TakeControl
  BY <1>2 DEF TakeControl, shared, locals, ages, control, server
<1>3. CASE ReadV
  BY <1>3 DEF ReadV, shared, locals, ages, control, server
<1>4. CASE ReadW
  BY <1>4 DEF ReadW, shared, locals, ages, control, server
<1>5. CASE ReadTime
  BY <1>5 DEF ReadTime, shared, locals, ages, control, server
<1>6. CASE GiveControl
  BY <1>6 DEF GiveControl, shared, locals, ages, control, server
<1>7. CASE Check
  BY <1>7 DEF Check, shared, locals, ages, control, server
<1>8. CASE WriteOutput
  BY <1>8 DEF WriteOutput, shared, locals, ages, control, server
<1>9. CASE Sleep
  BY <1>9 DEF Sleep, shared, locals, ages, control, server
<1>10. CASE TakeWeb
  BY <1>10 DEF TakeWeb, shared, locals, ages, control, server
<1>11. CASE TakeTimeout
  BY <1>11 DEF TakeTimeout, shared, locals, ages, control, server
<1>12. CASE SetV
  BY <1>12 DEF SetV, shared, locals, ages, control, server
<1>13. CASE SetW
  BY <1>13 DEF SetW, shared, locals, ages, control, server
<1>14. CASE SetTime
  BY <1>14 DEF SetTime, shared, locals, ages, control, server
<1>15. CASE GiveWeb
  BY <1>15 DEF GiveWeb, shared, locals, ages, control, server
<1>16. CASE CutOutput
  BY <1>16 DEF CutOutput, shared, locals, ages, control, server
<1>17. CASE CutDone
  BY <1>17 DEF CutDone, shared, locals, ages, control, server
<1>18. CASE Text
  BY <1>18 DEF Text, Event, shared, locals, ages, control, server
<1>19. CASE Disconnected
  BY <1>19 DEF Disconnected, Event, shared, locals, ages, control, server
<1>20. CASE OtaStart
  BY <1>20 DEF OtaStart, Event, shared, locals, ages, control, server
<1>21. CASE OtaError
  BY <1>21 DEF OtaError, shared, locals, ages, control, server
<1>22. CASE OtaEnd
  BY <1>22 DEF OtaEnd, shared, locals, ages, control, server
<1>23. CASE Tick
  BY <1>23 DEF Tick, shared, locals, ages, control, server
<1>24. CASE UNCHANGED vars
  BY <1>24 DEF vars, shared, locals, ages, control, server
<1> QED
  BY <1>1, <1>2, <1>3, <1>4, <1>5, <1>6, <1>7, <1>8, <1>9, <1>10, <1>11, <1>12,
     <1>13, <1>14, <1>15, <1>16, <1>17, <1>18, <1>19, <1>20, <1>21, <1>22, <1>23, <1>24
     DEF Next, Control, Handler, Network

\* Real ages and computed ages stay equal, through every wrap of the clock,
\* until the real age reaches the width of the clock.
LEMMA NextAge == TypeOK /\ AgeInv /\ [Next]_vars => AgeInv'
<1> SUFFICES ASSUME TypeOK, AgeInv, [Next]_vars PROVE AgeInv'
  OBVIOUS
<1> USE DEF TypeOK, AgeInv, RobotCommand
<1>1. CASE Wake
  BY <1>1 DEF Wake, shared, locals, ages, control, server
<1>2. CASE TakeControl
  BY <1>2 DEF TakeControl, shared, locals, ages, control, server
<1>3. CASE ReadV
  BY <1>3 DEF ReadV, shared, locals, ages, control, server
<1>4. CASE ReadW
  BY <1>4 DEF ReadW, shared, locals, ages, control, server
<1>5. CASE ReadTime
  BY <1>5 DEF ReadTime, shared, locals, ages, control, server
<1>6. CASE GiveControl
  BY <1>6 DEF GiveControl, shared, locals, ages, control, server
<1>7. CASE Check
  BY <1>7 DEF Check, shared, locals, ages, control, server
<1>8. CASE WriteOutput
  BY <1>8 DEF WriteOutput, shared, locals, ages, control, server
<1>9. CASE Sleep
  BY <1>9 DEF Sleep, shared, locals, ages, control, server
<1>10. CASE TakeWeb
  BY <1>10 DEF TakeWeb, shared, locals, ages, control, server
<1>11. CASE TakeTimeout
  BY <1>11 DEF TakeTimeout, shared, locals, ages, control, server
<1>12. CASE SetV
  BY <1>12 DEF SetV, shared, locals, ages, control, server
<1>13. CASE SetW
  BY <1>13 DEF SetW, shared, locals, ages, control, server
<1>14. CASE SetTime
  BY <1>14, ElapsedNow DEF SetTime, shared, locals, ages, control, server
<1>15. CASE GiveWeb
  BY <1>15 DEF GiveWeb, shared, locals, ages, control, server
<1>16. CASE CutOutput
  BY <1>16 DEF CutOutput, shared, locals, ages, control, server
<1>17. CASE CutDone
  BY <1>17 DEF CutDone, shared, locals, ages, control, server
<1>18. CASE Text
  BY <1>18 DEF Text, Event, shared, locals, ages, control, server
<1>19. CASE Disconnected
  BY <1>19 DEF Disconnected, Event, shared, locals, ages, control, server
<1>20. CASE OtaStart
  BY <1>20 DEF OtaStart, Event, shared, locals, ages, control, server
<1>21. CASE OtaError
  BY <1>21 DEF OtaError, shared, locals, ages, control, server
<1>22. CASE OtaEnd
  BY <1>22, ElapsedNow, EsteiraAssumption
     DEF OtaEnd, shared, locals, ages, control, server
<1>23. CASE Tick
  <2>1. /\ sharedCmd.last_update \in 0 .. CLOCK_MOD - 1
        /\ time_local \in 0 .. CLOCK_MOD - 1
        /\ CLOCK_MOD \in Nat
    BY EsteiraAssumption
  <2>2. clock' = IF clock + 1 < CLOCK_MOD THEN clock + 1 ELSE 0
    BY <1>23 DEF Tick
  <2>3. ASSUME heardAge' < CLOCK_MOD
        PROVE  Elapsed(clock', sharedCmd'.last_update) = heardAge'
    <3>1. heardAge' = heardAge + 1
      BY <2>3, <1>23, OlderType DEF Tick
    <3>2. Elapsed(clock, sharedCmd.last_update) = heardAge
      BY <2>1, <2>3, <3>1
    <3> QED
      BY <2>1, <2>2, <2>3, <3>1, <3>2, <1>23, ElapsedTick DEF Tick, shared
  <2>4. ASSUME readAge' < CLOCK_MOD
        PROVE  Elapsed(clock', time_local') = readAge'
    <3>1. readAge' = readAge + 1
      BY <2>4, <1>23, OlderType DEF Tick
    <3>2. Elapsed(clock, time_local) = readAge
      BY <2>1, <2>4, <3>1
    <3> QED
      BY <2>1, <2>2, <2>4, <3>1, <3>2, <1>23, ElapsedTick DEF Tick, locals
  <2> QED
    BY <2>3, <2>4
<1>24. CASE UNCHANGED vars
  BY <1>24 DEF vars, shared, locals, ages, control, server
<1> QED
  BY <1>1, <1>2, <1>3, <1>4, <1>5, <1>6, <1>7, <1>8, <1>9, <1>10, <1>11, <1>12,
     <1>13, <1>14, <1>15, <1>16, <1>17, <1>18, <1>19, <1>20, <1>21, <1>22, <1>23, <1>24
     DEF Next, Control, Handler, Network

\* A copied stamp stays fresh until it is checked.
LEMMA NextFresh == TypeOK /\ TimerInv /\ FreshInv /\ [Next]_vars => FreshInv'
<1> SUFFICES ASSUME TypeOK, TimerInv, FreshInv, [Next]_vars PROVE FreshInv'
  OBVIOUS
<1> USE EsteiraAssumption DEF TypeOK, TimerInv, FreshInv
<1>1. CASE Wake
  BY <1>1 DEF Wake, shared, locals, ages, control, server
<1>2. CASE TakeControl
  BY <1>2 DEF TakeControl, shared, locals, ages, control, server
<1>3. CASE ReadV
  BY <1>3 DEF ReadV, shared, locals, ages, control, server
<1>4. CASE ReadW
  BY <1>4 DEF ReadW, shared, locals, ages, control, server
<1>5. CASE ReadTime
  BY <1>5 DEF ReadTime, shared, locals, ages, control, server
<1>6. CASE GiveControl
  BY <1>6 DEF GiveControl, shared, locals, ages, control, server
<1>7. CASE Check
  BY <1>7 DEF Check, shared, locals, ages, control, server
<1>8. CASE WriteOutput
  BY <1>8 DEF WriteOutput, shared, locals, ages, control, server
<1>9. CASE Sleep
  BY <1>9 DEF Sleep, shared, locals, ages, control, server
<1>10. CASE TakeWeb
  BY <1>10 DEF TakeWeb, shared, locals, ages, control, server
<1>11. CASE TakeTimeout
  BY <1>11 DEF TakeTimeout, shared, locals, ages, control, server
<1>12. CASE SetV
  BY <1>12 DEF SetV, shared, locals, ages, control, server
<1>13. CASE SetW
  BY <1>13 DEF SetW, shared, locals, ages, control, server
<1>14. CASE SetTime
  BY <1>14 DEF SetTime, shared, locals, ages, control, server
<1>15. CASE GiveWeb
  BY <1>15 DEF GiveWeb, shared, locals, ages, control, server
<1>16. CASE CutOutput
  BY <1>16 DEF CutOutput, shared, locals, ages, control, server
<1>17. CASE CutDone
  BY <1>17 DEF CutDone, shared, locals, ages, control, server
<1>18. CASE Text
  BY <1>18 DEF Text, Event, shared, locals, ages, control, server
<1>19. CASE Disconnected
  BY <1>19 DEF Disconnected, Event, shared, locals, ages, control, server
<1>20. CASE OtaStart
  BY <1>20 DEF OtaStart, Event, shared, locals, ages, control, server
<1>21. CASE OtaError
  BY <1>21 DEF OtaError, shared, locals, ages, control, server
<1>22. CASE OtaEnd
  BY <1>22 DEF OtaEnd, shared, locals, ages, control, server
<1>23. CASE Tick
  <2>1. /\ heardAge' <= heardAge + 1
        /\ readAge = heardAge => readAge' = heardAge'
    BY <1>23, OlderType DEF Tick
  <2>2. heardAge' \in 0 .. CLOCK_MOD
    BY <1>23, OlderType DEF Tick
  <2> QED
    BY <2>1, <2>2, <1>23 DEF Tick
<1>24. CASE UNCHANGED vars
  BY <1>24 DEF vars, shared, locals, ages, control, server
<1> QED
  BY <1>1, <1>2, <1>3, <1>4, <1>5, <1>6, <1>7, <1>8, <1>9, <1>10, <1>11, <1>12,
     <1>13, <1>14, <1>15, <1>16, <1>17, <1>18, <1>19, <1>20, <1>21, <1>22, <1>23, <1>24
     DEF Next, Control, Handler, Network

\* What an iteration writes depends on its branch and its copies only.
LEMMA SameDecision ==
    UNCHANGED <<branch, v_local, w_local>> => Target' = Target /\ Order' = Order
BY DEF Target, Order, DriveTarget, DriveOrder

\* Writes already made in an iteration stay as decided; onStart may only
\* turn them off, and never touches the LED.
LEMMA NextWritten == TypeOK /\ WrittenInv /\ [Next]_vars => WrittenInv'
<1> SUFFICES ASSUME TypeOK, WrittenInv, [Next]_vars PROVE WrittenInv'
  OBVIOUS
<1> USE DEF TypeOK, WrittenInv
<1>1. CASE Wake
  BY <1>1 DEF Wake, shared, locals, ages, control, server
<1>2. CASE TakeControl
  BY <1>2 DEF TakeControl, shared, locals, ages, control, server
<1>3. CASE ReadV
  BY <1>3 DEF ReadV, shared, locals, ages, control, server
<1>4. CASE ReadW
  BY <1>4 DEF ReadW, shared, locals, ages, control, server
<1>5. CASE ReadTime
  BY <1>5 DEF ReadTime, shared, locals, ages, control, server
<1>6. CASE GiveControl
  BY <1>6 DEF GiveControl, shared, locals, ages, control, server
<1>7. CASE Check
  BY <1>7 DEF Check, shared, locals, ages, control, server
<1>8. CASE WriteOutput
  <2>1. /\ step \in 1 .. 6 /\ step' = step + 1 /\ ctl = "write" /\ ctl' = "write"
        /\ out' = [out EXCEPT ![Order[step]] = Target[Order[step]]]
        /\ UNCHANGED <<branch, v_local, w_local>>
    BY <1>8 DEF WriteOutput, locals
  <2>2. Target' = Target /\ Order' = Order
    BY <2>1, SameDecision
  <2>3. ASSUME NEW i \in 1 .. 6, i < step'
        PROVE  Settled(Order[i])'
    <3>1. CASE i = step
      BY <2>1, <2>2, <3>1, OrderCovers DEF Settled
    <3>2. CASE i < step
      <4>1. Settled(Order[i]) /\ Order[i] # Order[step]
        BY <2>1, <3>2, OrderCovers
      <4> QED
        BY <2>1, <2>2, <4>1, OrderCovers DEF Settled
    <3> QED
      BY <2>1, <2>3, <3>1, <3>2
  <2> QED
    BY <2>1, <2>2, <2>3
<1>9. CASE Sleep
  <2>1. /\ ctl = "write" /\ step = 7 /\ ctl' = "delay" /\ step' = 1
        /\ UNCHANGED <<out, branch, v_local, w_local>>
    BY <1>9 DEF Sleep, locals
  <2>2. Target' = Target
    BY <2>1, SameDecision
  <2>3. \A p \in Pins : Settled(p)
    BY <2>1, OrderCovers
  <2> QED
    BY <2>1, <2>2, <2>3 DEF Settled
<1>10. CASE TakeWeb
  <2>1. UNCHANGED <<out, ctl, step, branch, v_local, w_local>>
    BY <1>10 DEF TakeWeb, control, locals
  <2> QED
    BY <2>1, SameDecision DEF Settled
<1>11. CASE TakeTimeout
  <2>1. UNCHANGED <<out, ctl, step, branch, v_local, w_local>>
    BY <1>11 DEF TakeTimeout, control, locals
  <2> QED
    BY <2>1, SameDecision DEF Settled
<1>12. CASE SetV
  <2>1. UNCHANGED <<out, ctl, step, branch, v_local, w_local>>
    BY <1>12 DEF SetV, control, locals
  <2> QED
    BY <2>1, SameDecision DEF Settled
<1>13. CASE SetW
  <2>1. UNCHANGED <<out, ctl, step, branch, v_local, w_local>>
    BY <1>13 DEF SetW, control, locals
  <2> QED
    BY <2>1, SameDecision DEF Settled
<1>14. CASE SetTime
  <2>1. UNCHANGED <<out, ctl, step, branch, v_local, w_local>>
    BY <1>14 DEF SetTime, control, locals
  <2> QED
    BY <2>1, SameDecision DEF Settled
<1>15. CASE GiveWeb
  <2>1. UNCHANGED <<out, ctl, step, branch, v_local, w_local>>
    BY <1>15 DEF GiveWeb, control, locals
  <2> QED
    BY <2>1, SameDecision DEF Settled
<1>16. CASE CutOutput
  <2>1. UNCHANGED <<ctl, step, branch, v_local, w_local>>
    BY <1>16 DEF CutOutput, control, locals
  <2>2. Target' = Target /\ Order' = Order
    BY <2>1, SameDecision
  <2>3. \A p \in Pins : out'[p] \in {out[p], 0} /\ out'["LED"] = out["LED"]
    BY <1>16 DEF CutOutput, CutOrder, Pins
  <2>4. \A p \in Pins : Settled(p) => Settled(p)'
    BY <2>2, <2>3 DEF Settled
  <2> QED
    BY <2>1, <2>2, <2>4, OrderCovers
<1>17. CASE CutDone
  <2>1. UNCHANGED <<out, ctl, step, branch, v_local, w_local>>
    BY <1>17 DEF CutDone, control, locals
  <2> QED
    BY <2>1, SameDecision DEF Settled
<1>18. CASE Text
  <2>1. UNCHANGED <<out, ctl, step, branch, v_local, w_local>>
    BY <1>18 DEF Text, Event, control, locals
  <2> QED
    BY <2>1, SameDecision DEF Settled
<1>19. CASE Disconnected
  <2>1. UNCHANGED <<out, ctl, step, branch, v_local, w_local>>
    BY <1>19 DEF Disconnected, Event, control, locals
  <2> QED
    BY <2>1, SameDecision DEF Settled
<1>20. CASE OtaStart
  <2>1. UNCHANGED <<out, ctl, step, branch, v_local, w_local>>
    BY <1>20 DEF OtaStart, Event, control, locals
  <2> QED
    BY <2>1, SameDecision DEF Settled
<1>21. CASE OtaError
  <2>1. UNCHANGED <<out, ctl, step, branch, v_local, w_local>>
    BY <1>21 DEF OtaError, control, locals
  <2> QED
    BY <2>1, SameDecision DEF Settled
<1>22. CASE OtaEnd
  BY <1>22 DEF OtaEnd, shared, locals, ages, control, server
<1>23. CASE Tick
  <2>1. UNCHANGED <<out, ctl, step, branch, v_local, w_local>>
    BY <1>23 DEF Tick, control, locals
  <2> QED
    BY <2>1, SameDecision DEF Settled
<1>24. CASE UNCHANGED vars
  <2>1. UNCHANGED <<out, ctl, step, branch, v_local, w_local>>
    BY <1>24 DEF vars, control, locals
  <2> QED
    BY <2>1, SameDecision DEF Settled
<1> QED
  BY <1>1, <1>2, <1>3, <1>4, <1>5, <1>6, <1>7, <1>8, <1>9, <1>10, <1>11, <1>12,
     <1>13, <1>14, <1>15, <1>16, <1>17, <1>18, <1>19, <1>20, <1>21, <1>22, <1>23, <1>24
     DEF Next, Control, Handler, Network

\* A half bridge is driven only after the other one was seen off, and
\* nobody else ever drives one.
LEMMA NextBridges == TypeOK /\ WrittenInv /\ NeverBothBridges /\ [Next]_vars => NeverBothBridges'
<1> SUFFICES ASSUME TypeOK, WrittenInv, NeverBothBridges, [Next]_vars PROVE NeverBothBridges'
  OBVIOUS
<1> USE DEF TypeOK, WrittenInv, NeverBothBridges
<1>1. CASE Wake
  BY <1>1 DEF Wake
<1>2. CASE TakeControl
  BY <1>2 DEF TakeControl
<1>3. CASE ReadV
  BY <1>3 DEF ReadV
<1>4. CASE ReadW
  BY <1>4 DEF ReadW
<1>5. CASE ReadTime
  BY <1>5 DEF ReadTime
<1>6. CASE GiveControl
  BY <1>6 DEF GiveControl
<1>7. CASE Check
  BY <1>7 DEF Check
<1>8. CASE WriteOutput
  <2>1. /\ step \in 1 .. 6 /\ ctl = "write"
        /\ out' = [out EXCEPT ![Order[step]] = Target[Order[step]]]
        /\ v_local \in Int /\ w_local \in Int
    BY <1>8 DEF WriteOutput
  <2> DEFINE right == v_right(v_local, w_local)
  <2>2. right \in Int
    BY <2>1, WheelSpeeds
  <2>3. Target \in [Pins -> 0 .. PWM_TOP] /\ Order[step] \in Pins
    BY <2>1, TargetType, OrderCovers
  <2>4. CASE Target[Order[step]] = 0 \/ Order[step] \notin {"RPWM", "LPWM"}
    BY <2>1, <2>3, <2>4 DEF Pins
  <2>5. CASE Order[step] = "RPWM" /\ Target["RPWM"] # 0
    <3>1. branch # "trip" /\ right > 0 /\ Target["LPWM"] = 0
      BY <2>2, <2>5 DEF Target, DriveTarget, Pins
    <3>2. step = 6 /\ Order[5] = "LPWM"
      BY <2>1, <2>5, <3>1 DEF Order, DriveOrder
    <3>3. out["LPWM"] = 0
      BY <2>1, <3>1, <3>2 DEF Settled
    <3> QED
      BY <2>1, <2>5, <3>3
  <2>6. CASE Order[step] = "LPWM" /\ Target["LPWM"] # 0
    <3>1. branch # "trip" /\ right < 0 /\ Target["RPWM"] = 0
      BY <2>2, <2>6 DEF Target, DriveTarget, Pins
    <3>2. step = 6 /\ Order[5] = "RPWM"
      BY <2>1, <2>2, <2>6, <3>1 DEF Order, DriveOrder
    <3>3. out["RPWM"] = 0
      BY <2>1, <3>1, <3>2 DEF Settled
    <3> QED
      BY <2>1, <2>6, <3>3
  <2> QED
    BY <2>3, <2>4, <2>5, <2>6
<1>9. CASE Sleep
  BY <1>9 DEF Sleep
<1>10. CASE TakeWeb
  BY <1>10 DEF TakeWeb
<1>11. CASE TakeTimeout
  BY <1>11 DEF TakeTimeout
<1>12. CASE SetV
  BY <1>12 DEF SetV
<1>13. CASE SetW
  BY <1>13 DEF SetW
<1>14. CASE SetTime
  BY <1>14 DEF SetTime
<1>15. CASE GiveWeb
  BY <1>15 DEF GiveWeb
<1>16. CASE CutOutput
  BY <1>16 DEF CutOutput, CutOrder, Pins
<1>17. CASE CutDone
  BY <1>17 DEF CutDone
<1>18. CASE Text
  BY <1>18 DEF Text, Event
<1>19. CASE Disconnected
  BY <1>19 DEF Disconnected, Event
<1>20. CASE OtaStart
  BY <1>20 DEF OtaStart, Event
<1>21. CASE OtaError
  BY <1>21 DEF OtaError
<1>22. CASE OtaEnd
  BY <1>22 DEF OtaEnd, Pins
<1>23. CASE Tick
  BY <1>23 DEF Tick
<1>24. CASE UNCHANGED vars
  BY <1>24 DEF vars
<1> QED
  BY <1>1, <1>2, <1>3, <1>4, <1>5, <1>6, <1>7, <1>8, <1>9, <1>10, <1>11, <1>12,
     <1>13, <1>14, <1>15, <1>16, <1>17, <1>18, <1>19, <1>20, <1>21, <1>22, <1>23, <1>24
     DEF Next, Control, Handler, Network

\* From the last time the watchdog was satisfied the outputs survive at most
\* the rest of that iteration, the delay and the next iteration.
LEMMA NextWatchdog == TypeOK /\ AgeInv /\ TimerInv /\ FreshInv /\ WrittenInv /\ WatchdogInv /\ [Next]_vars => WatchdogInv'
<1> SUFFICES ASSUME TypeOK, AgeInv, TimerInv, FreshInv, WrittenInv, WatchdogInv, [Next]_vars PROVE WatchdogInv'
  OBVIOUS
<1> USE EsteiraAssumption DEF TypeOK
<1>1. CASE Wake
  <2>1. /\ UNCHANGED <<out, heardAge>>
        /\ ctl = "delay" /\ timer = 0 /\ ctl' = "take" /\ timer' = EXEC
    BY <1>1 DEF Wake, ages
  <2> QED
    BY <2>1 DEF WatchdogInv, Energised, SinceDrive
<1>2. CASE TakeControl
  <2>1. /\ UNCHANGED <<out, timer, heardAge>>
        /\ ctl \notin {"write", "delay"} /\ ctl' \notin {"write", "delay"}
    BY <1>2 DEF TakeControl, ages
  <2> QED
    BY <2>1 DEF WatchdogInv, Energised, SinceDrive
<1>3. CASE ReadV
  <2>1. /\ UNCHANGED <<out, timer, heardAge>>
        /\ ctl \notin {"write", "delay"} /\ ctl' \notin {"write", "delay"}
    BY <1>3 DEF ReadV, ages
  <2> QED
    BY <2>1 DEF WatchdogInv, Energised, SinceDrive
<1>4. CASE ReadW
  <2>1. /\ UNCHANGED <<out, timer, heardAge>>
        /\ ctl \notin {"write", "delay"} /\ ctl' \notin {"write", "delay"}
    BY <1>4 DEF ReadW, ages
  <2> QED
    BY <2>1 DEF WatchdogInv, Energised, SinceDrive
<1>5. CASE ReadTime
  <2>1. /\ UNCHANGED <<out, timer, heardAge>>
        /\ ctl \notin {"write", "delay"} /\ ctl' \notin {"write", "delay"}
    BY <1>5 DEF ReadTime, ages
  <2> QED
    BY <2>1 DEF WatchdogInv, Energised, SinceDrive
<1>6. CASE GiveControl
  <2>1. /\ UNCHANGED <<out, timer, heardAge>>
        /\ ctl \notin {"write", "delay"} /\ ctl' \notin {"write", "delay"}
    BY <1>6 DEF GiveControl, ages
  <2> QED
    BY <2>1 DEF WatchdogInv, Energised, SinceDrive
<1>7. CASE Check
  <2>1. /\ UNCHANGED <<out, timer, heardAge>>
        /\ ctl = "check" /\ ctl' = "write"
        /\ branch' = IF Elapsed(clock, time_local) > WATCHDOG_TIMEOUT_MS
                     THEN "trip" ELSE "drive"
    BY <1>7 DEF Check, ages
  <2>2. CASE branch' = "trip"
    BY <2>1, <2>2 DEF WatchdogInv, Energised, SinceDrive
  <2>3. CASE branch' = "drive"
    <3>1. Elapsed(clock, time_local) <= WATCHDOG_TIMEOUT_MS
      BY <2>1, <2>3, ElapsedType
    <3>2. ASSUME heardAge < CLOCK_MOD
          PROVE  heardAge <= WATCHDOG_TIMEOUT_MS + (EXEC - timer)
      <4>1. CASE readAge = heardAge
        BY <2>1, <3>1, <3>2, <4>1 DEF AgeInv, TimerInv
      <4>2. CASE heardAge <= EXEC - timer
        BY <4>2
      <4> QED
        BY <2>1, <4>1, <4>2 DEF FreshInv
    <3> QED
      BY <2>1, <2>3, <3>2 DEF WatchdogInv, SinceDrive
  <2> QED
    BY <2>1, <2>2, <2>3
<1>8. CASE WriteOutput
  <2>1. /\ step \in 1 .. 6 /\ ctl = "write" /\ ctl' = "write"
        /\ out' = [out EXCEPT ![Order[step]] = Target[Order[step]]]
        /\ UNCHANGED <<timer, branch, heardAge>>
    BY <1>8 DEF WriteOutput, ages
  <2>2. CASE branch = "drive"
    BY <2>1, <2>2 DEF WatchdogInv, SinceDrive
  <2>3. CASE branch = "trip"
    <3>1. out' = [out EXCEPT ![Order[step]] = 0]
      BY <2>1, <2>3, OrderCovers DEF Target
    <3>2. Energised' => Energised
      BY <3>1 DEF Energised, PwmPins, Pins
    <3> QED
      BY <2>1, <2>3, <3>2 DEF WatchdogInv, SinceDrive
  <2> QED
    BY <2>2, <2>3
<1>9. CASE Sleep
  <2>1. /\ ctl = "write" /\ step = 7 /\ ctl' = "delay" /\ timer' = PERIOD
        /\ UNCHANGED <<out, branch, heardAge>>
    BY <1>9 DEF Sleep, ages
  <2>2. CASE branch = "drive"
    BY <2>1, <2>2 DEF WatchdogInv, SinceDrive
  <2>3. CASE branch = "trip"
    <3>1. \A p \in Pins : out[p] = 0
      BY <2>1, <2>3, OrderCovers DEF WrittenInv, Settled, Target
    <3>2. ~Energised'
      BY <2>1, <3>1 DEF Energised, PwmPins, Pins
    <3> QED
      BY <2>1, <3>2 DEF WatchdogInv
  <2> QED
    BY <2>2, <2>3
<1>10. CASE TakeWeb
  <2>1. UNCHANGED <<out, ctl, timer, branch, heardAge>>
    BY <1>10 DEF TakeWeb, control, ages
  <2> QED
    BY <2>1 DEF WatchdogInv, Energised, SinceDrive
<1>11. CASE TakeTimeout
  <2>1. UNCHANGED <<out, ctl, timer, branch, heardAge>>
    BY <1>11 DEF TakeTimeout, control, ages
  <2> QED
    BY <2>1 DEF WatchdogInv, Energised, SinceDrive
<1>12. CASE SetV
  <2>1. UNCHANGED <<out, ctl, timer, branch, heardAge>>
    BY <1>12 DEF SetV, control, ages
  <2> QED
    BY <2>1 DEF WatchdogInv, Energised, SinceDrive
<1>13. CASE SetW
  <2>1. UNCHANGED <<out, ctl, timer, branch, heardAge>>
    BY <1>13 DEF SetW, control, ages
  <2> QED
    BY <2>1 DEF WatchdogInv, Energised, SinceDrive
<1>14. CASE SetTime
  <2>1. UNCHANGED <<out, ctl, timer, branch>> /\ heardAge' = 0
    BY <1>14 DEF SetTime, control
  <2> QED
    BY <2>1 DEF TimerInv, WatchdogInv, SinceDrive
<1>15. CASE GiveWeb
  <2>1. UNCHANGED <<out, ctl, timer, branch, heardAge>>
    BY <1>15 DEF GiveWeb, control, ages
  <2> QED
    BY <2>1 DEF WatchdogInv, Energised, SinceDrive
<1>16. CASE CutOutput
  <2>1. UNCHANGED <<ctl, timer, branch, heardAge>>
    BY <1>16 DEF CutOutput, control, ages
  <2>2. Energised' => Energised
    BY <1>16 DEF CutOutput, CutOrder, Energised, PwmPins, Pins
  <2> QED
    BY <2>1, <2>2 DEF WatchdogInv, SinceDrive
<1>17. CASE CutDone
  <2>1. UNCHANGED <<out, ctl, timer, branch, heardAge>>
    BY <1>17 DEF CutDone, control, ages
  <2> QED
    BY <2>1 DEF WatchdogInv, Energised, SinceDrive
<1>18. CASE Text
  <2>1. UNCHANGED <<out, ctl, timer, branch, heardAge>>
    BY <1>18 DEF Text, Event, control, ages
  <2> QED
    BY <2>1 DEF WatchdogInv, Energised, SinceDrive
<1>19. CASE Disconnected
  <2>1. UNCHANGED <<out, ctl, timer, branch, heardAge>>
    BY <1>19 DEF Disconnected, Event, control, ages
  <2> QED
    BY <2>1 DEF WatchdogInv, Energised, SinceDrive
<1>20. CASE OtaStart
  <2>1. UNCHANGED <<out, ctl, timer, branch, heardAge>>
    BY <1>20 DEF OtaStart, Event, control, ages
  <2> QED
    BY <2>1 DEF WatchdogInv, Energised, SinceDrive
<1>21. CASE OtaError
  <2>1. UNCHANGED <<out, ctl, timer, branch, heardAge>>
    BY <1>21 DEF OtaError, control, ages
  <2> QED
    BY <2>1 DEF WatchdogInv, Energised, SinceDrive
<1>22. CASE OtaEnd
  <2>1. heardAge' = 0 /\ ctl' = "take" /\ timer' = EXEC
    BY <1>22 DEF OtaEnd
  <2> QED
    BY <2>1 DEF WatchdogInv, SinceDrive
<1>23. CASE Tick
  <2>1. /\ UNCHANGED <<out, ctl, branch>> /\ timer' = timer - 1
        /\ heardAge' \in 0 .. CLOCK_MOD
        /\ heardAge' < CLOCK_MOD => heardAge' = heardAge + 1
    BY <1>23, OlderType DEF Tick
  <2> QED
    BY <2>1 DEF WatchdogInv, Energised, SinceDrive
<1>24. CASE UNCHANGED vars
  <2>1. UNCHANGED <<out, ctl, timer, branch, heardAge>>
    BY <1>24 DEF vars, control, ages
  <2> QED
    BY <2>1 DEF WatchdogInv, Energised, SinceDrive
<1> QED
  BY <1>1, <1>2, <1>3, <1>4, <1>5, <1>6, <1>7, <1>8, <1>9, <1>10, <1>11, <1>12,
     <1>13, <1>14, <1>15, <1>16, <1>17, <1>18, <1>19, <1>20, <1>21, <1>22, <1>23, <1>24
     DEF Next, Control, Handler, Network

\* Neither a trip nor a command at rest drives a motor.
LEMMA StillTarget ==
    branch = "trip" \/ (v_local = 0 /\ w_local = 0)
        => \A p \in PwmPins : Target[p] = 0
<1>1. CASE branch = "trip"
  BY <1>1 DEF Target, Pins, PwmPins
<1>2. CASE branch # "trip" /\ v_local = 0 /\ w_local = 0
  <2>1. v_left(0, 0) = 0 /\ v_right(0, 0) = 0
    BY DEF v_left, v_right
  <2>2. calculate_pwm_with_deadband(0) = 0
    BY DEF calculate_pwm_with_deadband, Magnitude, DEADBAND
  <2> QED
    BY <1>2, <2>1, <2>2 DEF Target, DriveTarget, PwmPins
<1> QED
  BY <1>1, <1>2

\* Rest is a motion.
LEMMA RestMotion == Rest \in Motions
BY DEF Motions

\* What is written is what was asked: no critical section mixes two motions.
LEMMA NextMotion == TypeOK /\ MutexInv /\ CopyInv /\ MotionInv /\ [Next]_vars => MotionInv'
<1> SUFFICES ASSUME TypeOK, MutexInv, CopyInv, MotionInv, [Next]_vars PROVE MotionInv'
  OBVIOUS
<1> USE DEF TypeOK, MutexInv, CopyInv, WebSection, MotionInv, RobotCommand
<1>1. CASE Wake
  BY <1>1 DEF Wake, Asked, shared, locals, ages, control, server
<1>2. CASE TakeControl
  BY <1>2 DEF TakeControl, Asked, shared, locals, ages, control, server
<1>3. CASE ReadV
  BY <1>3 DEF ReadV, Asked, shared, locals, ages, control, server
<1>4. CASE ReadW
  BY <1>4 DEF ReadW, Asked, shared, locals, ages, control, server
<1>5. CASE ReadTime
  BY <1>5 DEF ReadTime, Asked, shared, locals, ages, control, server
<1>6. CASE GiveControl
  BY <1>6 DEF GiveControl, Asked, shared, locals, ages, control, server
<1>7. CASE Check
  BY <1>7 DEF Check, Asked, shared, locals, ages, control, server
<1>8. CASE WriteOutput
  BY <1>8 DEF WriteOutput, Asked, shared, locals, ages, control, server
<1>9. CASE Sleep
  BY <1>9 DEF Sleep, Asked, shared, locals, ages, control, server
<1>10. CASE TakeWeb
  BY <1>10 DEF TakeWeb, Asked, shared, locals, ages, control, server
<1>11. CASE TakeTimeout
  BY <1>11, RestMotion
     DEF TakeTimeout, AfterSection, NoJob, Asked, shared, locals, ages, control, server
<1>12. CASE SetV
  BY <1>12 DEF SetV, Asked, shared, locals, ages, control, server
<1>13. CASE SetW
  BY <1>13 DEF SetW, Asked, shared, locals, ages, control, server
<1>14. CASE SetTime
  BY <1>14 DEF SetTime, Asked, shared, locals, ages, control, server
<1>15. CASE GiveWeb
  BY <1>15, RestMotion
     DEF GiveWeb, AfterSection, NoJob, Asked, shared, locals, ages, control, server
<1>16. CASE CutOutput
  BY <1>16 DEF CutOutput, Asked, shared, locals, ages, control, server
<1>17. CASE CutDone
  BY <1>17 DEF CutDone, Asked, shared, locals, ages, control, server
<1>18. CASE Text
  BY <1>18, MotionType DEF Text, Event, Asked, shared, locals, ages, control, server
<1>19. CASE Disconnected
  BY <1>19, RestMotion
     DEF Disconnected, Event, Asked, shared, locals, ages, control, server
<1>20. CASE OtaStart
  BY <1>20, RestMotion
     DEF OtaStart, Event, Asked, shared, locals, ages, control, server
<1>21. CASE OtaError
  BY <1>21 DEF OtaError, Asked, shared, locals, ages, control, server
<1>22. CASE OtaEnd
  BY <1>22, RestMotion
     DEF OtaEnd, NoJob, Rest, Asked, shared, locals, ages, control, server
<1>23. CASE Tick
  BY <1>23 DEF Tick, Asked, shared, locals, ages, control, server
<1>24. CASE UNCHANGED vars
  BY <1>24 DEF vars, Asked, shared, locals, ages, control, server
<1> QED
  BY <1>1, <1>2, <1>3, <1>4, <1>5, <1>6, <1>7, <1>8, <1>9, <1>10, <1>11, <1>12,
     <1>13, <1>14, <1>15, <1>16, <1>17, <1>18, <1>19, <1>20, <1>21, <1>22, <1>23, <1>24
     DEF Next, Control, Handler, Network

\* What a remote control sees of each step: a command takes its place when it
\* gets its stamp, a stop when both speeds are zero, and nothing else counts.
LEMMA NextLatest ==
    TypeOK /\ MutexInv /\ MotionInv /\ [Next]_vars /\ ~OtaEnd
        => \/ Latest' = Latest /\ ~SetTime
           \/ SetW /\ Latest' = Rest
           \/ SetTime /\ Latest' = job.motion /\ job.motion \in Motions
<1> SUFFICES ASSUME TypeOK, MutexInv, MotionInv, [Next]_vars, ~OtaEnd
             PROVE  \/ Latest' = Latest /\ ~SetTime
                    \/ SetW /\ Latest' = Rest
                    \/ SetTime /\ Latest' = job.motion /\ job.motion \in Motions
  OBVIOUS
<1>1. CASE Control \/ Tick \/ UNCHANGED vars
  <2>1. UNCHANGED <<sharedCmd, committed, web>>
    BY <1>1 DEF Control, Wake, TakeControl, ReadV, ReadW, ReadTime, GiveControl,
                Check, WriteOutput, Sleep, Tick, vars, shared, server
  <2> QED
    BY <2>1 DEF Latest, Asked, SetTime
<1>2. CASE TakeWeb \/ TakeTimeout \/ CutOutput \/ CutDone
  <2>1. UNCHANGED <<sharedCmd, committed>> /\ web # "give" /\ web' # "give" /\ ~SetTime
    BY <1>2 DEF TakeWeb, TakeTimeout, CutOutput, CutDone, AfterSection, SetTime,
                shared, TypeOK
  <2> QED
    BY <2>1 DEF Latest, Asked
<1>3. CASE Network
  <2>1. UNCHANGED <<sharedCmd, committed>> /\ web # "give" /\ web' # "give" /\ ~SetTime
    BY <1>3 DEF Network, Text, Disconnected, OtaStart, OtaError, Event, SetTime,
                shared
  <2> QED
    BY <2>1 DEF Latest, Asked
<1>4. CASE SetV
  BY <1>4 DEF SetV, SetTime, Latest, Asked
<1>5. CASE SetW
  <2>1. CASE job.by = "text"
    BY <1>5, <2>1 DEF SetW, SetTime, Latest, Asked
  <2>2. CASE job.by # "text"
    <3>1. web' = "give" /\ sharedCmd' = [sharedCmd EXCEPT !.w = job.motion.w]
      BY <1>5, <2>2 DEF SetW
    <3>2. sharedCmd.v = job.motion.v /\ job.motion = Rest
      BY <1>5, <2>2 DEF SetW, MotionInv
    <3>3. Asked(sharedCmd') = Rest
      BY <3>1, <3>2 DEF Asked, Rest, TypeOK, RobotCommand
    <3> QED
      BY <1>5, <3>1, <3>3 DEF Latest, Asked
  <2> QED
    BY <2>1, <2>2
<1>6. CASE SetTime
  <2>1. Asked(sharedCmd) = job.motion /\ job.motion \in Motions
    BY <1>6 DEF SetTime, MotionInv
  <2>2. /\ web' = "give"
        /\ sharedCmd' = [sharedCmd EXCEPT !.last_update = clock]
    BY <1>6 DEF SetTime
  <2>3. Asked(sharedCmd') = Asked(sharedCmd)
    BY <2>2 DEF Asked, TypeOK, RobotCommand
  <2> QED
    BY <1>6, <2>1, <2>2, <2>3 DEF Latest, Asked
<1>7. CASE GiveWeb
  <2>1. web = "give" /\ web' # "give" /\ committed' = sharedCmd
    BY <1>7 DEF GiveWeb, AfterSection
  <2> QED
    BY <2>1 DEF Latest, Asked, SetTime
<1> QED
  BY <1>1, <1>2, <1>3, <1>4, <1>5, <1>6, <1>7 DEF Next, Handler

\* Until a command is heard or time passes, no motion comes into force.
LEMMA NextInForce ==
    TypeOK /\ MutexInv /\ MotionInv /\ [Next]_vars /\ ~OtaEnd /\ ~SetTime /\ ~Tick
        => heardAge' = heardAge /\ moved' = moved /\ (InForce' => InForce)
<1> SUFFICES ASSUME TypeOK, MutexInv, MotionInv, [Next]_vars, ~OtaEnd, ~SetTime, ~Tick
             PROVE  heardAge' = heardAge /\ moved' = moved /\ (InForce' => InForce)
  OBVIOUS
<1>1. heardAge' = heardAge /\ moved' = moved
  BY DEF Next, Control, Wake, TakeControl, ReadV, ReadW, ReadTime, GiveControl,
         Check, WriteOutput, Sleep, Handler, TakeWeb, TakeTimeout, SetV, SetW,
         GiveWeb, CutOutput, CutDone, Network, Text, Disconnected, OtaStart,
         OtaError, Event, vars, ages
<1>2. Latest' = Latest \/ Latest' = Rest
  BY NextLatest
<1> QED
  BY <1>1, <1>2 DEF InForce, Forever

\* A motion that is no longer in force is on the outputs at most for the rest
\* of the iteration that copied it, the delay and the next iteration.
LEMMA NextMoved ==
    TypeOK /\ MutexInv /\ CopyInv /\ AgeInv /\ TimerInv /\ WrittenInv /\ MovedInv
        /\ MotionInv /\ [Next]_vars => MovedInv'
<1> SUFFICES ASSUME TypeOK, MutexInv, CopyInv, AgeInv, TimerInv, WrittenInv,
                    MovedInv, MotionInv, [Next]_vars
             PROVE  MovedInv'
  OBVIOUS
<1> USE EsteiraAssumption DEF TypeOK
<1>1. CASE Wake
  <2>1. /\ out' = out /\ heardAge' = heardAge /\ moved' = moved
        /\ ctl = "delay" /\ timer = 0 /\ ctl' = "take" /\ timer' = EXEC
    BY <1>1 DEF Wake, ages
  <2>2. InForce' => InForce
    BY <1>1, NextInForce DEF Wake, OtaEnd, SetTime, Tick, server
  <2> QED
    BY <2>1, <2>2 DEF MovedInv, Energised
<1>2. CASE TakeControl \/ ReadV \/ ReadW
  <2>1. /\ out' = out /\ timer' = timer /\ moved' = moved
        /\ ctl # "delay" /\ ctl' \notin {"give", "check", "write", "delay"}
    BY <1>2 DEF TakeControl, ReadV, ReadW, ages
  <2>2. InForce' => InForce
    BY <1>2, NextInForce
       DEF TakeControl, ReadV, ReadW, OtaEnd, SetTime, Tick, server
  <2> QED
    BY <2>1, <2>2 DEF MovedInv, Energised
<1>3. CASE ReadTime
  <2>1. /\ out' = out /\ timer' = timer /\ heardAge' = heardAge /\ moved' = moved
        /\ ctl = "readTime" /\ ctl' = "give" /\ readAge' = heardAge
    BY <1>3 DEF ReadTime
  <2>2. InForce' => InForce
    BY <1>3, NextInForce DEF ReadTime, OtaEnd, SetTime, Tick, server
  <2> QED
    BY <2>1, <2>2 DEF MovedInv, Energised
<1>4. CASE GiveControl
  <2>1. /\ UNCHANGED <<out, timer, v_local, w_local, heardAge, readAge, moved>>
        /\ ctl = "give" /\ ctl' = "check"
    BY <1>4 DEF GiveControl, locals, ages
  <2>2. InForce' => InForce
    BY <1>4, NextInForce DEF GiveControl, OtaEnd, SetTime, Tick, server
  <2>3. /\ committed = sharedCmd /\ v_local = sharedCmd.v /\ w_local = sharedCmd.w
        /\ web # "give"
    BY <2>1 DEF MutexInv, CopyInv, ControlSection, WebSection
  <2>4. Moving => Latest # Rest
    BY <2>3 DEF Moving, Latest, Asked, Rest
  <2>5. timer <= EXEC
    BY <2>1 DEF TimerInv
  <2>6. ASSUME Moving, \/ readAge <= WATCHDOG_TIMEOUT_MS
                       \/ readAge >= CLOCK_MOD - timer
        PROVE  moved = 0
    BY <2>1, <2>4, <2>5, <2>6 DEF MovedInv, InForce, Forever
  <2> QED
    BY <2>1, <2>2, <2>5, <2>6 DEF MovedInv, Energised, Moving
<1>5. CASE Check
  <2>1. /\ UNCHANGED <<out, timer, v_local, w_local, heardAge, readAge, moved>>
        /\ ctl = "check" /\ ctl' = "write"
        /\ branch' = IF Elapsed(clock, time_local) > WATCHDOG_TIMEOUT_MS
                     THEN "trip" ELSE "drive"
    BY <1>5 DEF Check, locals, ages
  <2>2. InForce' => InForce
    BY <1>5, NextInForce DEF Check, OtaEnd, SetTime, Tick, server
  <2>3. branch' = "drive" => \/ readAge <= WATCHDOG_TIMEOUT_MS
                             \/ readAge >= CLOCK_MOD - timer
    <3>1. branch' = "drive" => Elapsed(clock, time_local) <= WATCHDOG_TIMEOUT_MS
      BY <2>1, ElapsedType
    <3> QED
      BY <3>1 DEF AgeInv
  <2> QED
    BY <2>1, <2>2, <2>3 DEF MovedInv, Energised, Moving
<1>6. CASE WriteOutput
  <2>1. /\ step \in 1 .. 6 /\ ctl = "write" /\ ctl' = "write"
        /\ out' = [out EXCEPT ![Order[step]] = Target[Order[step]]]
        /\ UNCHANGED <<timer, branch, v_local, w_local, moved>>
    BY <1>6 DEF WriteOutput, locals, ages
  <2>2. InForce' => InForce
    BY <1>6, NextInForce DEF WriteOutput, OtaEnd, SetTime, Tick, server
  <2>3. CASE branch = "drive" /\ Moving
    BY <2>1, <2>2, <2>3 DEF MovedInv, Moving, TimerInv
  <2>4. CASE branch = "trip" \/ ~Moving
    <3>1. \A p \in PwmPins : Target[p] = 0
      BY <2>4, StillTarget DEF Moving
    <3>2. Energised' => Energised
      BY <2>1, <3>1 DEF Energised, PwmPins, Pins
    <3> QED
      BY <2>1, <2>2, <2>4, <3>2 DEF MovedInv, Moving
  <2> QED
    BY <2>3, <2>4
<1>7. CASE Sleep
  <2>1. /\ ctl = "write" /\ step = 7 /\ ctl' = "delay" /\ timer' = PERIOD
        /\ UNCHANGED <<out, branch, v_local, w_local, moved>>
    BY <1>7 DEF Sleep, locals, ages
  <2>2. InForce' => InForce
    BY <1>7, NextInForce DEF Sleep, OtaEnd, SetTime, Tick, server
  <2>3. CASE branch = "drive" /\ Moving
    BY <2>1, <2>2, <2>3 DEF MovedInv, Moving, TimerInv
  <2>4. CASE branch = "trip" \/ ~Moving
    <3>1. \A p \in PwmPins : out[p] = 0
      BY <2>1, <2>4, OrderCovers, StillTarget
         DEF WrittenInv, Settled, Moving, PwmPins, Pins
    <3>2. ~Energised'
      BY <2>1, <3>1 DEF Energised, PwmPins, Pins
    <3> QED
      BY <2>1, <2>2, <3>2 DEF MovedInv
  <2> QED
    BY <2>3, <2>4
<1>8. CASE SetTime
  <2>1. /\ UNCHANGED <<out, ctl, timer, branch, v_local, w_local, readAge>>
        /\ moved' = IF InForce' THEN 0 ELSE moved
    BY <1>8 DEF SetTime, control, locals
  <2>2. ctl # "give"
    BY <1>8 DEF SetTime, MutexInv, ControlSection, WebSection
  <2> HIDE DEF InForce
  <2> QED
    BY <2>1, <2>2 DEF MovedInv, Energised, Moving, TimerInv
<1>9. CASE /\ \/ TakeWeb \/ TakeTimeout \/ SetV \/ SetW \/ GiveWeb \/ CutOutput
              \/ CutDone \/ Text \/ Disconnected \/ OtaStart \/ OtaError
              \/ UNCHANGED vars
           /\ ~OtaEnd /\ ~SetTime
  <2>1. UNCHANGED <<ctl, timer, branch, v_local, w_local, heardAge, readAge, moved>>
    BY <1>9 DEF TakeWeb, TakeTimeout, SetV, SetW, GiveWeb, CutOutput, CutDone,
                Text, Disconnected, OtaStart, OtaError, Event, vars, control,
                locals, ages
  <2>2. Energised' => Energised
    <3>1. CASE CutOutput
      BY <3>1 DEF CutOutput, CutOrder, Energised, PwmPins, Pins
    <3>2. CASE ~CutOutput
      <4>1. out' = out
        BY <1>9, <3>2 DEF TakeWeb, TakeTimeout, SetV, SetW, GiveWeb, CutDone,
                          Text, Disconnected, OtaStart, OtaError, Event, vars
      <4> QED
        BY <4>1 DEF Energised
    <3> QED
      BY <3>1, <3>2
  <2>3. InForce' => InForce
    <3>1. Latest' = Latest \/ Latest' = Rest
      BY <1>9, NextLatest
    <3> QED
      BY <1>9, <2>1, <3>1 DEF InForce, Forever
  <2> QED
    BY <2>1, <2>2, <2>3 DEF MovedInv, Moving
<1>10. CASE OtaEnd
  <2>1. /\ ctl' = "take" /\ web' = "loop" /\ out' = [p \in Pins |-> 0]
        /\ committed' = [v |-> 0, w |-> 0, last_update |-> 0]
    BY <1>10 DEF OtaEnd
  <2>2. ~InForce' /\ ~Energised'
    BY <2>1 DEF InForce, Latest, Asked, Rest, Energised, PwmPins, Pins
  <2> QED
    BY <2>1, <2>2 DEF MovedInv
<1>11. CASE Tick
  <2>1. /\ UNCHANGED <<out, ctl, branch, v_local, w_local>>
        /\ timer' = timer - 1 /\ timer' \in Nat
        /\ heardAge' = Older(heardAge) /\ readAge' = Older(readAge)
        /\ InForce' => moved' = 0
        /\ moved' <= moved + 1 /\ (moved' = 0 \/ moved' >= moved)
    BY <1>11 DEF Tick, locals
  <2>2. readAge <= readAge' /\ readAge' <= readAge + 1 /\ readAge' \in Nat
    BY <2>1, OlderType
  <2>3. TimerInv'
    BY <1>11, NextTimer
  <2>4. moved' \in Nat
    BY <1>11 DEF Tick, Reaction
  <2> HIDE DEF InForce
  <2> QED
    BY <2>1, <2>2, <2>3, <2>4 DEF MovedInv, Energised, Moving, TimerInv
<1> QED
  BY <1>1, <1>2, <1>3, <1>4, <1>5, <1>6, <1>7, <1>8, <1>9, <1>10, <1>11
     DEF Next, Control, Handler, Network

----------------------------------------------------------------------------
(* The invariant, and what follows from it *)

\* The parts put together.
LEMMA InitInv == Init => Inv
<1> SUFFICES ASSUME Init PROVE Inv
  OBVIOUS
<1>1. TypeOK
  BY InitType
<1>2. /\ ctl = "take" /\ web = "loop" /\ mutex = "none" /\ step = 1
      /\ timer = EXEC /\ clock = 0 /\ time_local = 0
      /\ sharedCmd = [v |-> 0, w |-> 0, last_update |-> 0]
      /\ committed = sharedCmd /\ job = [motion |-> Rest, by |-> "text"]
      /\ heardAge = 0 /\ readAge = 0 /\ moved = Reaction + 1
  BY DEF Init, NoJob
<1>3. out["RPWM"] = 0 /\ ~Energised
  BY DEF Init, Energised, PwmPins, Pins
<1>4. MutexInv /\ CopyInv
  BY <1>2 DEF MutexInv, CopyInv, ControlSection, WebSection
<1>5. AgeInv
  BY <1>2, EsteiraAssumption, ElapsedNow DEF AgeInv
<1>6. TimerInv /\ FreshInv
  BY <1>2, EsteiraAssumption DEF TimerInv, FreshInv
<1>7. WrittenInv /\ NeverBothBridges
  BY <1>2, <1>3 DEF WrittenInv, NeverBothBridges
<1>8. WatchdogInv
  BY <1>2, <1>3, EsteiraAssumption DEF WatchdogInv
<1>9. MovedInv
  BY <1>2, <1>3 DEF MovedInv, InForce, Latest, Asked, Rest
<1>10. MotionInv
  BY <1>2, RestMotion DEF MotionInv, Asked, Rest
<1> QED
  BY <1>1, <1>4, <1>5, <1>6, <1>7, <1>8, <1>9, <1>10 DEF Inv

\* Every step keeps all the parts.
LEMMA NextInv == Inv /\ [Next]_vars => Inv'
BY NextType, NextMutex, NextCopy, NextAge, NextTimer, NextFresh, NextWritten,
   NextBridges, NextWatchdog, NextMoved, NextMotion
   DEF Inv

\* The invariant holds in every state of the two tasks.
THEOREM Invariance == Spec => []Inv
<1> QED
  BY InitInv, NextInv, PTL DEF Spec

\* However the writes of Task_Control and of onStart interleave, the right
\* motor's two half bridges are never driven together.
THEOREM BridgesSafe == Spec => []NeverBothBridges
<1>1. Inv => NeverBothBridges
  BY DEF Inv
<1> QED
  BY <1>1, Invariance, PTL

\* Silence stops the motors within the watchdog's time and the reaction time,
\* for every period and execution time, although updates are dropped, clients
\* lost and uploads started at any moment.
THEOREM WatchdogBound == Spec => []WatchdogStops
<1>1. Inv => WatchdogStops
  <2> SUFFICES ASSUME Inv, Energised, heardAge < CLOCK_MOD
               PROVE  heardAge <= WATCHDOG_TIMEOUT_MS + Reaction
    BY DEF WatchdogStops
  <2>1. heardAge <= WATCHDOG_TIMEOUT_MS + SinceDrive
    BY DEF Inv, WatchdogInv
  <2>2. SinceDrive <= Reaction
    BY EsteiraAssumption DEF Inv, TypeOK, SinceDrive, Reaction
  <2> QED
    BY <2>1, <2>2, EsteiraAssumption DEF Inv, TypeOK, SinceDrive, Reaction
<1> QED
  BY <1>1, Invariance, PTL

\* What the outputs may lag behind is never more than the reaction time.
LEMMA InvObeys == Inv => StopIsObeyed
BY EsteiraAssumption DEF Inv, TypeOK, MovedInv, StopIsObeyed, Reaction

\* A stop in sharedCmd is obeyed within the reaction time of Task_Control, and
\* one that comes after the watchdog tripped does not renew the motion.
THEOREM StopBound == Spec => []StopIsObeyed
<1> QED
  BY InvObeys, Invariance, PTL

\* Between iterations the motors follow the sampled command, or are off.
THEOREM SampleFollowed == Spec => []FollowsSample
<1>1. Inv => FollowsSample
  BY DEF Inv, WrittenInv, Settled, FollowsSample, PwmPins, Pins
<1> QED
  BY <1>1, Invariance, PTL

\* Between iterations a dark LED means motors at rest.
THEOREM LedTruth == Spec => []LedTellsTruth
<1>1. Inv => LedTellsTruth
  <2> SUFFICES ASSUME Inv, ctl = "delay", NEW p \in PwmPins, out[p] > 0
               PROVE  out["LED"] = 1
    BY DEF LedTellsTruth, Energised
  <2>1. Target[p] # 0 /\ out["LED"] = Target["LED"]
    BY DEF Inv, WrittenInv, Settled, PwmPins, Pins
  <2>2. branch # "trip" /\ ~(v_local = 0 /\ w_local = 0)
    BY <2>1, StillTarget
  <2> QED
    BY <2>1, <2>2 DEF Target, DriveTarget, LedLevel
<1> QED
  BY <1>1, Invariance, PTL

\* The watchdog never trips on a command that is still young.
THEOREM TripsJustified == Spec => NoSpuriousTrip
<1>1. Inv /\ [Next]_vars => [Check /\ branch' = "trip" => readAge > WATCHDOG_TIMEOUT_MS]_vars
  <2> SUFFICES ASSUME Inv, Check, branch' = "trip"
               PROVE  readAge > WATCHDOG_TIMEOUT_MS
    OBVIOUS
  <2>1. Elapsed(clock, time_local) > WATCHDOG_TIMEOUT_MS
    BY DEF Check
  <2>2. readAge \in 0 .. CLOCK_MOD
    BY DEF Inv, TypeOK
  <2>3. readAge < CLOCK_MOD => Elapsed(clock, time_local) = readAge
    BY DEF Inv, AgeInv
  <2> QED
    BY <2>1, <2>2, <2>3, EsteiraAssumption
<1> QED
  BY <1>1, Invariance, PTL DEF Spec, NoSpuriousTrip

----------------------------------------------------------------------------
(* Esteira implements CommandCell *)

CellNow == AsCell(committed)
CopyNow == IF mutex = "control"
           THEN CellNow
           ELSE AsCell([v |-> v_local, w |-> w_local, last_update |-> time_local])

\* The robot starts with a cell at rest.
LEMMA InitCell == Init => Cell!Init
<1> SUFFICES ASSUME Init PROVE Cell!Init
  OBVIOUS
<1>1. /\ CellNow = [motion |-> Rest, last_update |-> 0]
      /\ CopyNow = [motion |-> Rest, last_update |-> 0]
  BY DEF Init, CellNow, CopyNow, AsCell, Asked, Rest
<1>2. 0 \in 0 .. CLOCK_MOD - 1
  BY EsteiraAssumption
<1> QED
  BY <1>1, <1>2, RestMotion
     DEF Cell!Init, Cell!Fresh, Cell!Command, CellNow, CopyNow

\* Only four steps are seen through the mapping: the control task taking the
\* mutex copies the cell, the server giving it replaces the cell, and a restart.
LEMMA NextCell == Inv /\ [Next]_vars => [Cell!Next]_<<CellNow, CopyNow>>
<1> SUFFICES ASSUME Inv, [Next]_vars PROVE [Cell!Next]_<<CellNow, CopyNow>>
  OBVIOUS
<1> USE DEF CellNow, CopyNow
<1>1. CASE Wake
  BY <1>1 DEF Wake, shared, control, locals, AsCell, Asked
<1>2. CASE TakeControl
  <2>1. committed' = committed /\ mutex' = "control"
    BY <1>2 DEF TakeControl
  <2>2. Cell!Sample
    BY <2>1 DEF Cell!Sample, AsCell, Asked
  <2> QED
    BY <2>2 DEF Cell!Next
<1>3. CASE ReadV
  BY <1>3 DEF ReadV, shared, Inv, MutexInv, ControlSection, AsCell, Asked
<1>4. CASE ReadW
  BY <1>4 DEF ReadW, shared, Inv, MutexInv, ControlSection, AsCell, Asked
<1>5. CASE ReadTime
  BY <1>5 DEF ReadTime, shared, Inv, MutexInv, ControlSection, AsCell, Asked
<1>6. CASE GiveControl
  <2>1. committed = sharedCmd /\ mutex = "control"
    BY <1>6 DEF GiveControl, Inv, MutexInv, CopyInv, ControlSection
  <2>2. /\ committed' = committed /\ mutex' = "none"
        /\ v_local' = committed.v /\ w_local' = committed.w
        /\ time_local' = committed.last_update
    BY <1>6, <2>1 DEF GiveControl, locals, Inv, CopyInv
  <2> QED
    BY <2>1, <2>2 DEF AsCell, Asked
<1>7. CASE Check
  BY <1>7 DEF Check, shared, control, locals, AsCell, Asked
<1>8. CASE WriteOutput
  BY <1>8 DEF WriteOutput, shared, control, locals, AsCell, Asked
<1>9. CASE Sleep
  BY <1>9 DEF Sleep, shared, control, locals, AsCell, Asked
<1>10. CASE TakeWeb
  BY <1>10 DEF TakeWeb, control, locals, AsCell, Asked
<1>11. CASE TakeTimeout
  BY <1>11 DEF TakeTimeout, shared, control, locals, AsCell, Asked
<1>12. CASE SetV
  BY <1>12 DEF SetV, control, locals, AsCell, Asked
<1>13. CASE SetW
  BY <1>13 DEF SetW, control, locals, AsCell, Asked
<1>14. CASE SetTime
  BY <1>14 DEF SetTime, control, locals, AsCell, Asked
<1>15. CASE GiveWeb
  <2>1. /\ committed' = sharedCmd /\ mutex = "web" /\ mutex' = "none"
        /\ UNCHANGED <<v_local, w_local, time_local>>
    BY <1>15 DEF GiveWeb, control, locals, Inv, MutexInv, WebSection
  <2>2. Asked(sharedCmd) \in Motions /\ sharedCmd.last_update \in 0 .. CLOCK_MOD - 1
    BY <1>15 DEF GiveWeb, Inv, MotionInv, TypeOK, RobotCommand
  <2>3. Cell!Publish
    BY <2>1, <2>2 DEF Cell!Publish, Cell!Command, AsCell
  <2> QED
    BY <2>3 DEF Cell!Next
<1>16. CASE CutOutput
  BY <1>16 DEF CutOutput, shared, control, locals, AsCell, Asked
<1>17. CASE CutDone
  BY <1>17 DEF CutDone, shared, control, locals, AsCell, Asked
<1>18. CASE Text
  BY <1>18 DEF Text, Event, shared, control, locals, AsCell, Asked
<1>19. CASE Disconnected
  BY <1>19 DEF Disconnected, Event, shared, control, locals, AsCell, Asked
<1>20. CASE OtaStart
  BY <1>20 DEF OtaStart, Event, shared, control, locals, AsCell, Asked
<1>21. CASE OtaError
  BY <1>21 DEF OtaError, shared, control, locals, AsCell, Asked
<1>22. CASE OtaEnd
  <2>1. /\ AsCell(committed)' = [motion |-> Rest, last_update |-> 0]
        /\ CopyNow' = [motion |-> Rest, last_update |-> 0]
    BY <1>22 DEF OtaEnd, AsCell, Asked, Rest
  <2>2. 0 \in 0 .. CLOCK_MOD - 1
    BY EsteiraAssumption
  <2>3. Cell!Restart
    BY <2>1, <2>2, RestMotion DEF Cell!Restart, Cell!Fresh, Cell!Command
  <2> QED
    BY <2>3 DEF Cell!Next
<1>23. CASE Tick
  BY <1>23 DEF Tick, shared, control, locals, AsCell, Asked
<1>24. CASE UNCHANGED vars
  BY <1>24 DEF vars, shared, control, locals, AsCell, Asked
<1> QED
  BY <1>1, <1>2, <1>3, <1>4, <1>5, <1>6, <1>7, <1>8, <1>9, <1>10, <1>11, <1>12,
     <1>13, <1>14, <1>15, <1>16, <1>17, <1>18, <1>19, <1>20, <1>21, <1>22, <1>23, <1>24
     DEF Next, Control, Handler, Network

\* With field-by-field reads and writes, a mutex and timeouts that drop
\* updates, the tasks still exchange whole commands: Task_Control only ever
\* works with one that some handler finished writing.
THEOREM CommandsAtomic == Spec => AtomicCommands
<1> QED
  BY InitCell, NextCell, Invariance, PTL
     DEF Spec, AtomicCommands, Cell!Spec, CellNow, CopyNow

----------------------------------------------------------------------------
(* Esteira implements Robot *)

Heard     == IF heardAge < Forever THEN heardAge ELSE Forever
RobotView == <<Latest, Heard, moved, Energised>>

\* The timing of the firmware is one that Robot allows: a command is too old
\* long before the counter of millis() has gone round.
LEMMA MachineConstants == /\ Rest \in Motions
                          /\ WATCHDOG_TIMEOUT_MS \in Nat /\ Reaction \in Nat
                          /\ Forever \in Nat /\ WATCHDOG_TIMEOUT_MS < Forever
BY EsteiraAssumption, RestMotion DEF Reaction, Forever

\* The robot starts at rest.
LEMMA InitMachine == Init => Machine!RobotInit
<1> SUFFICES ASSUME Init PROVE Machine!RobotInit
  OBVIOUS
<1>1. /\ web = "loop" /\ committed = [v |-> 0, w |-> 0, last_update |-> 0]
      /\ heardAge = 0 /\ moved = Reaction + 1 /\ out = [p \in Pins |-> 0]
  BY DEF Init
<1>2. Latest = Rest
  BY <1>1 DEF Latest, Asked, Rest
<1>3. Energised = FALSE
  BY <1>1 DEF Energised, PwmPins, Pins
<1>4. Heard = 0
  BY <1>1, MachineConstants DEF Heard
<1> QED
  BY <1>1, <1>2, <1>3, <1>4 DEF Machine!RobotInit, Heard

\* A stamp in sharedCmd is a command heard, a stop without one is a halt, an
\* output written moves the motors, and the rest is not seen.
LEMMA NextMachine == Inv /\ [Next]_vars => [Machine!RobotNext]_RobotView
<1> SUFFICES ASSUME Inv, [Next]_vars PROVE [Machine!RobotNext]_RobotView
  OBVIOUS
<1>1. Inv'
  BY NextInv
<1>2. Machine!InForce' <=> InForce'
  <2>1. heardAge' \in Nat
    BY <1>1 DEF Inv, TypeOK
  <2> QED
    BY <2>1, MachineConstants DEF Machine!InForce, InForce
<1>3. Energised' => moved' <= Reaction
  <2>1. StopIsObeyed'
    BY <1>1, InvObeys, PTL
  <2> QED
    BY <2>1 DEF StopIsObeyed
<1>4. Energised \in BOOLEAN /\ Energised' \in BOOLEAN
  BY DEF Energised
<1>5. CASE OtaEnd
  <2>1. /\ web' = "loop" /\ committed' = [v |-> 0, w |-> 0, last_update |-> 0]
        /\ heardAge' = 0 /\ moved' = Reaction + 1 /\ out' = [p \in Pins |-> 0]
    BY <1>5 DEF OtaEnd
  <2>2. Latest' = Rest
    BY <2>1 DEF Latest, Asked, Rest
  <2>3. Energised' = FALSE
    BY <2>1 DEF Energised, PwmPins, Pins
  <2>4. Heard' = 0
    BY <2>1, MachineConstants DEF Heard
  <2>5. Machine!Reboot
    BY <2>1, <2>2, <2>3, <2>4 DEF Machine!Reboot, Machine!RobotInit, Heard
  <2> QED
    BY <2>5 DEF Machine!RobotNext
<1>6. CASE SetTime
  <2>1. Latest' = job.motion /\ job.motion \in Motions
    <3>1. ~OtaEnd /\ ~SetW
      BY <1>6 DEF SetTime, OtaEnd, SetW
    <3> QED
      BY <1>6, <3>1, NextLatest DEF Inv
  <2>2. /\ out' = out /\ heardAge' = 0
        /\ moved' = IF InForce' THEN 0 ELSE moved
    BY <1>6 DEF SetTime
  <2>3. Energised' = Energised
    BY <2>2 DEF Energised
  <2>4. Heard' = 0
    BY <2>2, MachineConstants DEF Heard
  <2> HIDE DEF InForce
  <2>5. Machine!Hear(job.motion)
    BY <1>2, <2>1, <2>2, <2>3, <2>4 DEF Machine!Hear, Heard
  <2> QED
    BY <2>1, <2>5 DEF Machine!RobotNext
<1>7. CASE Tick
  <2>1. Latest' = Latest
    <3>1. ~OtaEnd /\ ~SetW /\ ~SetTime
      BY <1>7 DEF Tick, OtaEnd, SetW, SetTime, server
    <3> QED
      BY <3>1, NextLatest DEF Inv
  <2>2. /\ out' = out /\ heardAge' = Older(heardAge)
        /\ moved' = IF InForce' THEN 0
                    ELSE IF moved <= Reaction THEN moved + 1 ELSE moved
    BY <1>7 DEF Tick
  <2>3. Energised' = Energised
    BY <2>2 DEF Energised
  <2>4. Heard' = IF Heard < Forever THEN Heard + 1 ELSE Heard
    <3>1. heardAge \in Nat /\ heardAge' \in Nat
      BY <1>1 DEF Inv, TypeOK
    <3>2. Forever <= CLOCK_MOD
      BY EsteiraAssumption DEF Forever
    <3> QED
      BY <2>2, <3>1, <3>2, EsteiraAssumption, MachineConstants DEF Older, Heard
  <2>5. Machine!Elapse
    BY <1>2, <1>3, <2>1, <2>2, <2>3, <2>4 DEF Machine!Elapse, Heard
  <2> QED
    BY <2>5 DEF Machine!RobotNext
<1>8. ASSUME ~OtaEnd, ~SetTime, ~Tick PROVE [Machine!RobotNext]_RobotView
  <2>1. moved' = moved /\ Heard' = Heard
    BY <1>8, NextInForce DEF Inv, Heard, Forever
  <2>2. CASE WriteOutput \/ CutOutput
    <3>1. Latest' = Latest
      <4>1. ~SetW
        BY <2>2 DEF WriteOutput, CutOutput, SetW, server
      <4> QED
        BY <1>8, <4>1, NextLatest DEF Inv
    <3>2. Machine!Drive
      BY <1>3, <1>4, <2>1, <3>1 DEF Machine!Drive, Heard
    <3> QED
      BY <3>2 DEF Machine!RobotNext
  <2>3. CASE ~WriteOutput /\ ~CutOutput
    <3>1. out' = out
      BY <1>8, <2>3
         DEF Next, Control, Wake, TakeControl, ReadV, ReadW, ReadTime,
             GiveControl, Check, Sleep, Handler, TakeWeb, TakeTimeout, SetV, SetW,
             GiveWeb, CutDone, Network, Text, Disconnected, OtaStart, OtaError,
             Event, vars
    <3>2. Energised' = Energised
      BY <3>1 DEF Energised
    <3>3. CASE Latest' = Latest
      BY <2>1, <3>2, <3>3 DEF RobotView
    <3>4. CASE Latest' = Rest
      <4>1. Machine!Halt
        BY <2>1, <3>2, <3>4 DEF Machine!Halt, Heard
      <4> QED
        BY <4>1 DEF Machine!RobotNext
    <3> QED
      BY <1>8, <3>3, <3>4, NextLatest DEF Inv
  <2> QED
    BY <2>2, <2>3
<1> QED
  BY <1>5, <1>6, <1>7, <1>8

\* To whoever commands it, the two tasks, their mutex, the dropped updates and
\* the output writes one by one are a robot whose motors run only on a motion
\* that was in force, and young, at most Reaction ago.
THEOREM RobotImplemented == Spec => ActsAsRobot
<1> QED
  BY InitMachine, NextMachine, Invariance, PTL
     DEF Spec, ActsAsRobot, Machine!RobotSpec, Machine!robot, RobotView, Heard

=============================================================================
