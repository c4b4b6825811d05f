----------------------------- MODULE EsteiraInv -----------------------------
(***************************************************************************)
(* The inductive invariant of Esteira.  Each part says of every control    *)
(* point what one of the properties only says where it can be observed.    *)
(***************************************************************************)
EXTENDS Esteira

ControlSection == {"readV", "readW", "readTime", "give"}
WebSection     == {"setV", "setW", "setTime", "give"}

\* Who is inside a critical section holds the mutex.
MutexInv ==
    /\ mutex = "control" <=> ctl \in ControlSection
    /\ mutex = "web" <=> web \in WebSection

\* Outside the server's critical section sharedCmd is what it was left as, and
\* inside the control task's the fields copied so far are still its fields.
CopyInv ==
    /\ mutex # "web" => committed = sharedCmd
    /\ ctl \in {"readW", "readTime", "give"} => v_local = sharedCmd.v
    /\ ctl \in {"readTime", "give"} => w_local = sharedCmd.w
    /\ ctl = "give" => time_local = sharedCmd.last_update

\* The subtraction of the watchdog computes the real age, up to the wrap.
AgeInv ==
    /\ heardAge < CLOCK_MOD => Elapsed(clock, sharedCmd.last_update) = heardAge
    /\ readAge < CLOCK_MOD => Elapsed(clock, time_local) = readAge

TimerInv == timer <= (IF ctl = "delay" THEN PERIOD ELSE EXEC)

\* A copied stamp is the latest one, or a later one came in this iteration.
FreshInv ==
    ctl \in {"give", "check"} => readAge = heardAge \/ heardAge <= EXEC - timer

\* The outputs written so far are as decided, unless onStart cut them since;
\* onStart leaves the LED alone.
Settled(p) == /\ out[p] \in {0, Target[p]}
              /\ p = "LED" => out[p] = Target[p]

WrittenInv ==
    /\ ctl = "write" => \A i \in 1 .. 6 : i < step => Settled(Order[i])
    /\ ctl = "delay" => \A p \in Pins : Settled(p)
    /\ ctl # "write" => step = 1

\* The most ticks since the watchdog was last satisfied, if its outputs last.
SinceDrive ==
    IF ctl = "write" /\ branch = "drive" THEN EXEC - timer
    ELSE IF ctl = "delay" THEN EXEC + PERIOD - timer
    ELSE 2 * EXEC + PERIOD - timer

WatchdogInv ==
    heardAge < CLOCK_MOD /\ (Energised \/ (ctl = "write" /\ branch = "drive"))
        => heardAge <= WATCHDOG_TIMEOUT_MS + SinceDrive

Moving == v_local # 0 \/ w_local # 0

\* The motion an iteration works with was in force when it was copied; the
\* stamp may have gone round since.
MovedInv ==
    /\ InForce => moved = 0
    /\ ctl = "give" => readAge = heardAge
    /\ ctl = "check" /\ Moving
          /\ (readAge <= WATCHDOG_TIMEOUT_MS \/ readAge >= CLOCK_MOD - timer)
       => moved <= EXEC - timer
    /\ ctl = "write" /\ branch = "drive" /\ Moving => moved <= EXEC - timer
    /\ Energised => moved <= (IF ctl = "delay"
                             THEN EXEC + PERIOD - timer
                             ELSE 2 * EXEC + PERIOD - timer)

\* What the server writes is a motion somebody asked for, or a stop.
MotionInv ==
    /\ Asked(committed) \in Motions
    /\ job.motion \in Motions
    /\ job.by # "text" => job.motion = Rest
    /\ web = "setW" => sharedCmd.v = job.motion.v
    /\ web \in {"setTime", "give"} => Asked(sharedCmd) = job.motion
    /\ web = "setTime" => job.by = "text"
    /\ job.by # "text" => sharedCmd.last_update = committed.last_update

Inv == /\ TypeOK
       /\ MutexInv
       /\ CopyInv
       /\ AgeInv
       /\ TimerInv
       /\ FreshInv
       /\ WrittenInv
       /\ NeverBothBridges
       /\ WatchdogInv
       /\ MovedInv
       /\ MotionInv

=============================================================================
