------------------------------- MODULE Robot -------------------------------
(***************************************************************************)
(* What the robot promises to whoever commands it, with its tasks, its     *)
(* mutex and its outputs out of sight: its motors run only if, at most     *)
(* REACTION ago, a motion was in force and was not too old.  A stop, and   *)
(* silence longer than WATCHDOG, end that, in whatever order they come.    *)
(*                                                                         *)
(* Once silence has lasted FOREVER, millis() may have gone round, and an   *)
(* old motion counts as young again.                                       *)
(***************************************************************************)
EXTENDS Integers

CONSTANTS Commands,   \* the motions a client can ask for
          Stop,       \* the one that is none
          WATCHDOG,   \* the silence after which a motion is too old
          REACTION,   \* the time the motors take to follow
          FOREVER     \* the silence after which nothing is known of its age

ASSUME RobotAssumption == /\ Stop \in Commands
                          /\ WATCHDOG \in Nat /\ REACTION \in Nat
                          /\ FOREVER \in Nat /\ WATCHDOG < FOREVER

VARIABLES command,    \* the motion that was asked for last
          heard,      \* ticks since a client was heard
          moved,      \* ticks since a motion was in force, up to REACTION + 1
          driven      \* whether a motor is driven

robot == <<command, heard, moved, driven>>

InForce == command # Stop /\ (heard <= WATCHDOG \/ heard = FOREVER)

RobotInit == command = Stop /\ heard = 0 /\ moved = REACTION + 1 /\ driven = FALSE

\* A client is heard.
Hear(m) == /\ command' = m /\ heard' = 0
           /\ moved' = IF InForce' THEN 0 ELSE moved
           /\ UNCHANGED driven

\* A client is lost, or an upload begins: nobody was heard.
Halt == /\ command' = Stop
        /\ UNCHANGED <<heard, moved, driven>>

\* Motors may stop at any time.
Drive == /\ driven' \in BOOLEAN
         /\ driven' => moved <= REACTION
         /\ UNCHANGED <<command, heard, moved>>

\* Time passes only if the motors have followed.
Elapse == /\ UNCHANGED <<command, driven>>
          /\ heard' = IF heard < FOREVER THEN heard + 1 ELSE heard
          /\ moved' = IF InForce' THEN 0
                      ELSE IF moved <= REACTION THEN moved + 1 ELSE moved
          /\ driven => moved' <= REACTION

Reboot == RobotInit'

RobotNext == (\E m \in Commands : Hear(m)) \/ Halt \/ Drive \/ Elapse \/ Reboot

RobotSpec == RobotInit /\ [][RobotNext]_robot

----------------------------------------------------------------------------
(* What follows for whoever commands it *)

\* The motors run on for REACTION at most.
Obeys == driven => moved <= REACTION

\* So silence stops them, whatever was asked for before.
RestsInSilence == driven /\ heard < FOREVER => heard <= WATCHDOG + REACTION

=============================================================================
