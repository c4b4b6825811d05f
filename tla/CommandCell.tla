---------------------------- MODULE CommandCell ----------------------------
(***************************************************************************)
(* What xMutexData promises for sharedCmd: a single cell holding a whole   *)
(* RobotCommand.  A writer replaces the command, or stops the robot while  *)
(* leaving the watchdog stamp alone; the reader takes a whole copy.  No    *)
(* operation is ever seen half done, so only motions somebody asked for    *)
(* are ever followed.                                                      *)
(***************************************************************************)
CONSTANTS Motions,    \* the motions, v and w together, a client can ask for
          Rest,       \* the motion of a robot at rest
          Stamps      \* the values of last_update

VARIABLES cell,       \* the command the robot should follow
          copy        \* the copy the control task works with

Command == [motion : Motions, last_update : Stamps]

Fresh == {c \in Command : c.motion = Rest}

Init == /\ cell \in Fresh
        /\ copy = cell

\* A text message: a new motion, stamped with its arrival.
Publish == /\ cell' \in Command
           /\ UNCHANGED copy

\* A lost client, or the start of an update: stop, and keep the stamp.
Halt == /\ cell' = [cell EXCEPT !.motion = Rest]
        /\ UNCHANGED copy

\* One iteration of the control task.
Sample == /\ copy' = cell
          /\ UNCHANGED cell

\* The ESP32 restarts at the end of an update.
Restart == /\ cell' \in Fresh
           /\ copy' = cell'

Next == Publish \/ Halt \/ Sample \/ Restart

Spec == Init /\ [][Next]_<<cell, copy>>

=============================================================================
