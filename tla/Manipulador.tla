---------------------------- MODULE Manipulador ----------------------------
(***************************************************************************)
(* The manipulator's power latch: GPIO21 keeps the supply on from the      *)
(* moment the ESP32 starts, and a trigger on GPIO6 held HIGH for           *)
(* LATCH_HOLD_TIME_MS switches it off.  atualizarLatch samples the trigger *)
(* once per loop; setup runs first and waits for the micro-ROS agent.      *)
(*                                                                         *)
(* The rest of the loop, which publishes the encoder and passes velocities *)
(* on to the motor drivers, takes time here and does nothing else.         *)
(***************************************************************************)
EXTENDS Integers

CONSTANTS
    CLOCK_MOD,              \* the number of values of millis()
    LATCH_HOLD_TIME_MS,
    LOOP                    \* the longest an iteration of loop takes

ASSUME ManipuladorAssumption ==
    /\ CLOCK_MOD \in Nat /\ LATCH_HOLD_TIME_MS \in Nat \ {0}
    /\ LOOP \in Nat \ {0}
    /\ LATCH_HOLD_TIME_MS + LOOP < CLOCK_MOD

VARIABLES
    clock,                  \* millis()
    trigger,                \* the level of LATCH_TRIGGER_PIN
    latch,                  \* the level of LATCH_PIN
    latchAtivo, triggerContando, triggerHighDesde,
    at,                     \* "setup" or "loop"
    timer,                  \* ticks until the loop samples the trigger again
    highAge,                \* history: ticks the trigger has been HIGH while
                            \* the loop runs
    sampledAge              \* history: ticks since the first of the HIGH
                            \* samples in a row, or 0

state == <<latch, latchAtivo, triggerContando, triggerHighDesde>>
ages  == <<highAge, sampledAge>>
vars  == <<clock, trigger, state, at, timer, ages>>

Levels == {"LOW", "HIGH"}

Longest == LATCH_HOLD_TIME_MS + 2 * LOOP

Older(age) == IF age < Longest THEN age + 1 ELSE age

Elapsed(now, last) ==
    IF now >= last THEN now - last ELSE now - last + CLOCK_MOD

----------------------------------------------------------------------------
Init == /\ clock = 0 /\ trigger \in Levels
        /\ latch = "HIGH" /\ latchAtivo = TRUE
        /\ triggerContando = FALSE /\ triggerHighDesde = 0
        /\ at = "setup" /\ timer = 0
        /\ highAge = 0 /\ sampledAge = 0

\* rclc_support_init succeeds at last; it is tried every 500 ms until then.
AgentAccepts == /\ at = "setup"
                /\ at' = "loop"
                /\ UNCHANGED <<clock, trigger, state, timer, ages>>

----------------------------------------------------------------------------
(* atualizarLatch, and the time the rest of the iteration takes *)

Sample == /\ at = "loop" /\ timer = 0
          /\ timer' \in 1 .. LOOP
          /\ UNCHANGED <<clock, trigger, at, highAge>>

AlreadyOff == /\ Sample /\ ~latchAtivo
              /\ UNCHANGED <<state, sampledAge>>

\* Mutant: the count starts over at every HIGH sample.
StartAlways == /\ Sample /\ latchAtivo /\ trigger = "HIGH"
               /\ triggerContando' = TRUE /\ triggerHighDesde' = clock
               /\ sampledAge' = IF triggerContando THEN sampledAge ELSE 0
               /\ UNCHANGED <<latch, latchAtivo>>

StartCounting == /\ Sample /\ latchAtivo /\ trigger = "HIGH" /\ ~triggerContando
                 /\ triggerContando' = TRUE /\ triggerHighDesde' = clock
                 /\ sampledAge' = 0
                 /\ UNCHANGED <<latch, latchAtivo>>

LongEnough == Elapsed(clock, triggerHighDesde) >= LATCH_HOLD_TIME_MS

KeepCounting == /\ Sample /\ latchAtivo /\ trigger = "HIGH" /\ triggerContando
                /\ ~LongEnough
                /\ UNCHANGED <<state, sampledAge>>

SwitchOff == /\ Sample /\ latchAtivo /\ trigger = "HIGH" /\ triggerContando
             /\ LongEnough
             /\ latch' = "LOW" /\ latchAtivo' = FALSE /\ triggerContando' = FALSE
             /\ UNCHANGED <<triggerHighDesde, sampledAge>>

\* Mutant: a LOW sample does not end the count.
LowIgnored == /\ Sample /\ latchAtivo /\ trigger = "LOW"
              /\ sampledAge' = 0
              /\ UNCHANGED state

StopCounting == /\ Sample /\ latchAtivo /\ trigger = "LOW"
                /\ triggerContando' = FALSE /\ sampledAge' = 0
                /\ UNCHANGED <<latch, latchAtivo, triggerHighDesde>>

atualizarLatch == \/ AlreadyOff \/ StartCounting \/ KeepCounting
                  \/ SwitchOff \/ StopCounting

----------------------------------------------------------------------------
(* The world outside *)

Toggle == /\ trigger' = (IF trigger = "LOW" THEN "HIGH" ELSE "LOW") /\ highAge' = 0
          /\ UNCHANGED <<clock, state, at, timer, sampledAge>>

\* With the latch off the board loses its supply; someone starts it again.
PowerUp == /\ latch = "LOW"
           /\ clock' = 0 /\ latch' = "HIGH" /\ latchAtivo' = TRUE
           /\ triggerContando' = FALSE /\ triggerHighDesde' = 0
           /\ at' = "setup" /\ timer' = 0 /\ highAge' = 0 /\ sampledAge' = 0
           /\ UNCHANGED trigger

Tick == /\ at = "setup" \/ timer > 0
        /\ clock' = IF clock + 1 < CLOCK_MOD THEN clock + 1 ELSE 0
        /\ timer' = IF timer > 0 THEN timer - 1 ELSE 0
        /\ highAge' = IF at = "loop" /\ trigger = "HIGH" THEN Older(highAge) ELSE 0
        /\ sampledAge' = IF triggerContando THEN Older(sampledAge) ELSE sampledAge
        /\ UNCHANGED <<trigger, state, at>>

Next == AgentAccepts \/ atualizarLatch \/ Toggle \/ PowerUp \/ Tick

Spec == Init /\ [][Next]_vars

----------------------------------------------------------------------------
(* Properties *)

TypeOK ==
    /\ clock \in 0 .. CLOCK_MOD - 1 /\ triggerHighDesde \in 0 .. CLOCK_MOD - 1
    /\ trigger \in Levels /\ latch \in Levels
    /\ latchAtivo \in BOOLEAN /\ triggerContando \in BOOLEAN
    /\ at \in {"setup", "loop"} /\ timer \in 0 .. LOOP
    /\ highAge \in 0 .. Longest /\ sampledAge \in 0 .. Longest

\* While the loop runs, a trigger held HIGH has switched the latch off at the
\* latest one sample after it was seen for LATCH_HOLD_TIME_MS, also while
\* millis() goes round.
PowerOffInTime ==
    latch = "HIGH" => highAge < Longest

\* The latch is switched off only after HIGH samples in a row that span
\* LATCH_HOLD_TIME_MS.
NoEarlyPowerOff ==
    [][latch = "HIGH" /\ latch' = "LOW" => sampledAge >= LATCH_HOLD_TIME_MS]_vars

=============================================================================
