---------------------------- MODULE TwistRobot ----------------------------
(***************************************************************************)
(* The micro-ROS firmware as a Robot.  To whoever publishes twists, three  *)
(* volatile variables without a mutex, written one by one, promise what    *)
(* sharedCmd with its mutex does: every store of the callback counts as    *)
(* hearing a client, and a mixture of two twists as a motion of its own.   *)
(***************************************************************************)
EXTENDS TwistRos

CONSTANT STORE    \* the longest the callback takes from one store to the next

ASSUME TwistRobotAssumption == STORE \in Nat /\ STORE <= WATCHDOG_TIMEOUT_TICKS

VARIABLE moved    \* history: ticks since a motion was in force

timed == <<vars, moved>>

\* The motion in the shared variables, be it a mixture.
Velocity == [v |-> target_v, w |-> target_w]

Mixtures == [v : {t.v : t \in Twists \cup {Still}},
             w : {t.w : t \in Twists \cup {Still}}]

Storing == ros \in {"storeW", "storeTime"}

\* Ticks since the callback's last store.
Heard == IF Storing THEN settledAge ELSE heardAge

InForce == /\ Velocity # Still
           /\ Heard <= WATCHDOG_TIMEOUT_TICKS \/ Heard = TICK_MOD

TimedInit == Init /\ moved = Reaction + 1

Act == /\ Control \/ MicroROS
       /\ moved' = IF InForce' THEN 0 ELSE moved

\* The callback's assignments follow each other: time does not wait for them.
Pass == /\ Storing => settledAge < STORE
        /\ Tick
        /\ moved' = IF InForce' THEN 0
                    ELSE IF moved <= Reaction THEN moved + 1 ELSE moved

TimedSpec == TimedInit /\ [][Act \/ Pass]_timed

----------------------------------------------------------------------------
(* Properties *)

\* Without a mutex too: the motors run only if at most Reaction ago the stored
\* velocities were no stop and the callback was not silent for too long.  Torn
\* reads, torn stores and stores between the two reads of the check included.
Machine == INSTANCE Robot WITH
    Commands <- Mixtures,
    Stop     <- Still,
    WATCHDOG <- WATCHDOG_TIMEOUT_TICKS,
    REACTION <- Reaction,
    FOREVER  <- TICK_MOD,
    command  <- Velocity,
    heard    <- Heard,
    driven   <- Energised

ActsAsRobot == Machine!RobotSpec

=============================================================================
