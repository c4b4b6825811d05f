------------------------- MODULE Manipulador_proofs -------------------------
(***************************************************************************)
(* The power latch switches off in time and never early, for every hold    *)
(* time, every length of the loop and every width of millis().             *)
(*                                                                         *)
(* Between two samples the trigger can be HIGH unseen for at most LOOP;    *)
(* once counting, the clock's distance to triggerHighDesde is the real     *)
(* age of the count, because a count never lasts until millis() is round.  *)
(***************************************************************************)
EXTENDS Manipulador, TLAPS

\* latchAtivo says what the pin is, and only an active latch counts.
LatchInv == /\ latchAtivo => latch = "HIGH"
            /\ ~latchAtivo => latch = "LOW"
            /\ triggerContando => latchAtivo

\* HIGH not yet seen lasts no longer than the time since the last sample.
UnseenInv == latch = "HIGH" /\ ~triggerContando => highAge <= LOOP - timer

\* What is HIGH while counting was HIGH at most one LOOP before the count.
SeenInv == triggerContando => highAge <= LOOP + sampledAge

\* A count that goes on was too short at the last sample, ...
CountInv ==
    triggerContando => sampledAge < LATCH_HOLD_TIME_MS + LOOP - timer

\* ... and its age is what the clock shows.
ClockInv == triggerContando => Elapsed(clock, triggerHighDesde) = sampledAge

\* A LOW trigger has no age, nor has any before the loop runs.
LowInv == /\ trigger = "LOW" => highAge = 0
          /\ at = "setup" => ~triggerContando /\ highAge = 0 /\ timer = 0 /\ latchAtivo

\* The parts of TypeOK, apart because provers want Booleans and numbers apart.
Flags == latchAtivo \in BOOLEAN /\ triggerContando \in BOOLEAN

Numbers == /\ clock \in 0 .. CLOCK_MOD - 1 /\ triggerHighDesde \in 0 .. CLOCK_MOD - 1
           /\ trigger \in Levels /\ latch \in Levels
           /\ at \in {"setup", "loop"} /\ timer \in 0 .. LOOP
           /\ highAge \in 0 .. Longest /\ sampledAge \in 0 .. Longest

Ages == UnseenInv /\ SeenInv /\ CountInv /\ ClockInv /\ LowInv

Inv == Flags /\ Numbers /\ LatchInv /\ Ages

----------------------------------------------------------------------------
\* A tick of the clock is a tick of every distance, until it has gone round.
LEMMA ElapsedTick ==
    ASSUME NEW now \in 0 .. CLOCK_MOD - 1, NEW last \in 0 .. CLOCK_MOD - 1,
           Elapsed(now, last) + 1 < CLOCK_MOD
    PROVE  Elapsed(IF now + 1 < CLOCK_MOD THEN now + 1 ELSE 0, last)
               = Elapsed(now, last) + 1
BY ManipuladorAssumption DEF Elapsed

\* A count too short at a sample leaves room for the rest of an iteration.
LEMMA Room ==
    ASSUME NEW age \in Nat, age < LATCH_HOLD_TIME_MS, NEW left \in 1 .. LOOP
    PROVE  age < LATCH_HOLD_TIME_MS + LOOP - left
BY ManipuladorAssumption

\* The time left never exceeds an iteration.
LEMMA TimeLeft == ASSUME NEW left \in 1 .. LOOP PROVE 0 <= LOOP - left
BY ManipuladorAssumption

\* A board that starts satisfies the invariant.
LEMMA Initial == Init => Inv
<1> SUFFICES ASSUME Init PROVE Inv
  OBVIOUS
<1>1. Flags /\ latchAtivo /\ ~triggerContando
  BY DEF Init, Flags
<1>2. /\ clock = 0 /\ trigger \in Levels /\ latch = "HIGH" /\ triggerHighDesde = 0
      /\ at = "setup" /\ timer = 0 /\ highAge = 0 /\ sampledAge = 0
  BY DEF Init
<1> QED BY <1>1, <1>2, ManipuladorAssumption
        DEF Inv, Ages, Numbers, LatchInv, UnseenInv, SeenInv, CountInv, ClockInv,
            LowInv, Longest, Levels

\* Every step keeps it.
LEMMA Inductive == Inv /\ [Next]_vars => Inv'
<1> SUFFICES ASSUME Inv, [Next]_vars PROVE Inv'
  OBVIOUS
<1> USE ManipuladorAssumption DEF Inv, Numbers, Ages, Longest, Levels
<1>1. CASE AgentAccepts
  <2>1. Flags'
    BY <1>1 DEF AgentAccepts, state, ages, Flags
  <2>2. (latchAtivo' <=> latchAtivo) /\ (triggerContando' <=> triggerContando)
    BY <1>1 DEF AgentAccepts, state, ages
  <2>3. UNCHANGED <<clock, trigger, latch, triggerHighDesde, timer, highAge, sampledAge>>
        /\ at' = "loop"
    BY <1>1 DEF AgentAccepts, state, ages
  <2>7. LatchInv'
    BY <2>2, <2>3 DEF LatchInv
  <2>8. Numbers'
    BY <2>2, <2>3
  <2>9. UnseenInv'
    BY <2>2, <2>3 DEF LatchInv, UnseenInv, LowInv
  <2>10. SeenInv' /\ CountInv'
    BY <2>2, <2>3 DEF LatchInv, UnseenInv, SeenInv, CountInv
  <2>11. ClockInv'
    BY <2>2, <2>3 DEF ClockInv, Elapsed
  <2>12. LowInv'
    BY <2>2, <2>3 DEF LowInv
  <2> QED BY <2>1, <2>7, <2>8, <2>9, <2>10, <2>11, <2>12
<1>2. CASE AlreadyOff
  <2>1. Flags'
    BY <1>2 DEF AlreadyOff, Sample, state, Flags
  <2>2. (latchAtivo' <=> latchAtivo) /\ (triggerContando' <=> triggerContando) /\ ~latchAtivo
    BY <1>2 DEF AlreadyOff, Sample, state
  <2>3. UNCHANGED <<clock, trigger, latch, triggerHighDesde, at, highAge, sampledAge>>
        /\ at = "loop" /\ timer = 0 /\ timer' \in 1 .. LOOP
    BY <1>2 DEF AlreadyOff, Sample, state
  <2>7. LatchInv'
    BY <2>2, <2>3 DEF LatchInv
  <2>8. Numbers'
    BY <2>2, <2>3
  <2>9. UnseenInv'
    BY <2>2, <2>3 DEF LatchInv, UnseenInv, LowInv
  <2>10. SeenInv' /\ CountInv'
    BY <2>2, <2>3 DEF LatchInv, UnseenInv, SeenInv, CountInv
  <2>11. ClockInv'
    BY <2>2, <2>3 DEF ClockInv, Elapsed
  <2>12. LowInv'
    BY <2>2, <2>3 DEF LowInv
  <2> QED BY <2>1, <2>7, <2>8, <2>9, <2>10, <2>11, <2>12
<1>3. CASE StartCounting
  <2>1. Flags'
    BY <1>3 DEF StartCounting, Sample, Flags
  <2>2. (latchAtivo' <=> latchAtivo) /\ latchAtivo /\ ~triggerContando /\ triggerContando'
    BY <1>3 DEF StartCounting, Sample
  <2>3. UNCHANGED <<clock, trigger, latch, at, highAge>> /\ triggerHighDesde' = clock
        /\ sampledAge' = 0 /\ trigger = "HIGH" /\ at = "loop" /\ timer = 0 /\ timer' \in 1 .. LOOP
    BY <1>3 DEF StartCounting, Sample
  <2>4. Elapsed(clock', triggerHighDesde') = 0
    BY <2>3 DEF Elapsed
  <2>7. LatchInv'
    BY <2>2, <2>3, <2>4 DEF LatchInv
  <2>8. Numbers'
    BY <2>2, <2>3, <2>4
  <2>9. UnseenInv'
    BY <2>2, <2>3, <2>4 DEF LatchInv, UnseenInv, LowInv
  <2>5. highAge <= LOOP
    <3>1. latch = "HIGH" /\ ~triggerContando
      BY <2>2 DEF LatchInv
    <3>2. highAge <= LOOP - timer
      BY <3>1 DEF UnseenInv
    <3> QED BY <2>3, <3>2
  <2>10. SeenInv' /\ CountInv'
    <3>1. highAge' <= LOOP + sampledAge'
      BY <2>3, <2>5
    <3>2. sampledAge' < LATCH_HOLD_TIME_MS + LOOP - timer'
      <4>1. sampledAge' \in Nat /\ sampledAge' < LATCH_HOLD_TIME_MS /\ timer' \in 1 .. LOOP
        BY <2>3
      <4> QED BY ONLY <4>1, Room
    <3>3. SeenInv'
      BY ONLY <3>1, Zenon DEF SeenInv
    <3>4. CountInv'
      BY ONLY <3>2, Zenon DEF CountInv
    <3> QED BY ONLY <3>3, <3>4
  <2>11. ClockInv'
    BY <2>2, <2>3, <2>4 DEF ClockInv, Elapsed
  <2>12. LowInv'
    BY <2>2, <2>3, <2>4 DEF LowInv
  <2> QED BY <2>1, <2>7, <2>8, <2>9, <2>10, <2>11, <2>12
<1>4. CASE KeepCounting
  <2>1. Flags'
    BY <1>4 DEF KeepCounting, Sample, state, Flags
  <2>2. (latchAtivo' <=> latchAtivo) /\ (triggerContando' <=> triggerContando) /\ triggerContando
    BY <1>4 DEF KeepCounting, Sample, state
  <2>3. UNCHANGED <<clock, trigger, latch, triggerHighDesde, at, highAge, sampledAge>>
        /\ at = "loop" /\ timer = 0 /\ timer' \in 1 .. LOOP
    BY <1>4 DEF KeepCounting, Sample, state
  <2>4. sampledAge < LATCH_HOLD_TIME_MS
    BY <1>4 DEF KeepCounting, LongEnough, ClockInv
  <2>7. LatchInv'
    BY <2>2, <2>3, <2>4 DEF LatchInv
  <2>8. Numbers'
    BY <2>2, <2>3, <2>4
  <2>9. UnseenInv'
    BY <2>2, <2>3, <2>4 DEF LatchInv, UnseenInv, LowInv
  <2>10. SeenInv' /\ CountInv'
    <3>1. highAge' <= LOOP + sampledAge'
      BY <2>2, <2>3 DEF SeenInv
    <3>2. sampledAge' < LATCH_HOLD_TIME_MS + LOOP - timer'
      <4>1. sampledAge' \in Nat /\ sampledAge' < LATCH_HOLD_TIME_MS /\ timer' \in 1 .. LOOP
        BY <2>3, <2>4
      <4> QED BY ONLY <4>1, Room
    <3>3. SeenInv'
      BY ONLY <3>1, Zenon DEF SeenInv
    <3>4. CountInv'
      BY ONLY <3>2, Zenon DEF CountInv
    <3> QED BY ONLY <3>3, <3>4
  <2>11. ClockInv'
    BY <2>2, <2>3, <2>4 DEF ClockInv, Elapsed
  <2>12. LowInv'
    BY <2>2, <2>3, <2>4 DEF LowInv
  <2> QED BY <2>1, <2>7, <2>8, <2>9, <2>10, <2>11, <2>12
<1>5. CASE SwitchOff
  <2>1. Flags'
    BY <1>5 DEF SwitchOff, Sample, Flags
  <2>2. ~latchAtivo' /\ ~triggerContando'
    BY <1>5 DEF SwitchOff, Sample
  <2>3. UNCHANGED <<clock, trigger, triggerHighDesde, at, highAge, sampledAge>>
        /\ latch' = "LOW" /\ at = "loop" /\ timer = 0 /\ timer' \in 1 .. LOOP
    BY <1>5 DEF SwitchOff, Sample
  <2>7. LatchInv'
    BY <2>2, <2>3 DEF LatchInv
  <2>8. Numbers'
    BY <2>2, <2>3
  <2>9. UnseenInv'
    BY <2>2, <2>3 DEF LatchInv, UnseenInv, LowInv
  <2>10. SeenInv' /\ CountInv'
    BY <2>2, <2>3 DEF LatchInv, UnseenInv, SeenInv, CountInv
  <2>11. ClockInv'
    BY <2>2, <2>3 DEF ClockInv, Elapsed
  <2>12. LowInv'
    BY <2>2, <2>3 DEF LowInv
  <2> QED BY <2>1, <2>7, <2>8, <2>9, <2>10, <2>11, <2>12
<1>6. CASE StopCounting
  <2>1. Flags'
    BY <1>6 DEF StopCounting, Sample, Flags
  <2>2. (latchAtivo' <=> latchAtivo) /\ latchAtivo /\ ~triggerContando'
    BY <1>6 DEF StopCounting, Sample
  <2>3. UNCHANGED <<clock, trigger, latch, triggerHighDesde, at, highAge>>
        /\ sampledAge' = 0 /\ trigger = "LOW" /\ at = "loop" /\ timer = 0 /\ timer' \in 1 .. LOOP
    BY <1>6 DEF StopCounting, Sample
  <2>7. LatchInv'
    BY <2>2, <2>3 DEF LatchInv
  <2>8. Numbers'
    BY <2>2, <2>3
  <2>9. UnseenInv'
    <3>1. highAge' <= LOOP - timer'
      <4>1. highAge' = 0
        BY <2>3 DEF LowInv
      <4>2. timer' \in 1 .. LOOP
        BY <2>3
      <4>3. 0 <= LOOP - timer'
        BY ONLY <4>2, TimeLeft
      <4> QED BY ONLY <4>1, <4>3, Zenon
    <3> QED BY ONLY <3>1, Zenon DEF UnseenInv
  <2>10. SeenInv' /\ CountInv'
    BY <2>2, <2>3 DEF LatchInv, UnseenInv, SeenInv, CountInv
  <2>11. ClockInv'
    BY <2>2, <2>3 DEF ClockInv, Elapsed
  <2>12. LowInv'
    BY <2>2, <2>3 DEF LowInv
  <2> QED BY <2>1, <2>7, <2>8, <2>9, <2>10, <2>11, <2>12
<1>7. CASE Toggle
  <2>1. Flags'
    BY <1>7 DEF Toggle, state, Flags
  <2>2. (latchAtivo' <=> latchAtivo) /\ (triggerContando' <=> triggerContando)
    BY <1>7 DEF Toggle, state
  <2>3. UNCHANGED <<clock, latch, triggerHighDesde, at, timer, sampledAge>>
        /\ trigger' \in Levels /\ highAge' = 0
    BY <1>7 DEF Toggle, state
  <2>7. LatchInv'
    BY <2>2, <2>3 DEF LatchInv
  <2>8. Numbers'
    BY <2>2, <2>3
  <2>9. UnseenInv'
    BY <2>2, <2>3 DEF LatchInv, UnseenInv, LowInv
  <2>10. SeenInv' /\ CountInv'
    BY <2>2, <2>3 DEF LatchInv, UnseenInv, SeenInv, CountInv
  <2>11. ClockInv'
    BY <2>2, <2>3 DEF ClockInv, Elapsed
  <2>12. LowInv'
    BY <2>2, <2>3 DEF LowInv
  <2> QED BY <2>1, <2>7, <2>8, <2>9, <2>10, <2>11, <2>12
<1>8. CASE PowerUp
  <2>1. Flags'
    BY <1>8 DEF PowerUp, Flags
  <2>2. latchAtivo' /\ ~triggerContando'
    BY <1>8 DEF PowerUp
  <2>3. /\ clock' = 0 /\ latch' = "HIGH" /\ triggerHighDesde' = 0 /\ at' = "setup"
        /\ timer' = 0 /\ highAge' = 0 /\ sampledAge' = 0 /\ trigger' = trigger
    BY <1>8 DEF PowerUp
  <2>7. LatchInv'
    BY <2>2, <2>3 DEF LatchInv
  <2>8. Numbers'
    BY <2>2, <2>3
  <2>9. UnseenInv'
    BY <2>2, <2>3 DEF LatchInv, UnseenInv, LowInv
  <2>10. SeenInv' /\ CountInv'
    BY <2>2, <2>3 DEF LatchInv, UnseenInv, SeenInv, CountInv
  <2>11. ClockInv'
    BY <2>2, <2>3 DEF ClockInv, Elapsed
  <2>12. LowInv'
    BY <2>2, <2>3 DEF LowInv
  <2> QED BY <2>1, <2>7, <2>8, <2>9, <2>10, <2>11, <2>12
<1>9. CASE Tick
  <2>1. Flags'
    BY <1>9 DEF Tick, state, Flags
  <2>2. (latchAtivo' <=> latchAtivo) /\ (triggerContando' <=> triggerContando)
    BY <1>9 DEF Tick, state
  <2>3. UNCHANGED <<trigger, latch, triggerHighDesde, at>>
    BY <1>9 DEF Tick, state
  <2>4. clock' = IF clock + 1 < CLOCK_MOD THEN clock + 1 ELSE 0
    BY <1>9 DEF Tick
  <2>5. /\ timer' \in 0 .. LOOP /\ (timer > 0 => timer' = timer - 1)
        /\ timer = 0 => timer' = 0 /\ at = "setup"
    BY <1>9 DEF Tick
  <2>6. /\ highAge' \in 0 .. Longest /\ highAge' <= highAge + 1
        /\ trigger = "LOW" \/ at = "setup" => highAge' = 0
    BY <1>9 DEF Tick, Older
  <2>7. sampledAge' \in 0 .. Longest
    BY <1>9 DEF Tick, Older
  <2>8. triggerContando => timer > 0 /\ sampledAge + 1 < Longest
    BY <2>5 DEF CountInv, LowInv
  <2>9. triggerContando => sampledAge' = sampledAge + 1
    BY <1>9, <2>8 DEF Tick, Older
  <2>10. ClockInv'
    <3> SUFFICES ASSUME triggerContando
                 PROVE  Elapsed(clock', triggerHighDesde') = sampledAge'
      BY <2>2 DEF ClockInv
    <3>1. Elapsed(clock, triggerHighDesde) + 1 < CLOCK_MOD
      BY <2>8 DEF ClockInv, CountInv
    <3> QED BY <2>3, <2>4, <2>9, <3>1, ElapsedTick DEF ClockInv
  <2>11. Numbers'
    BY <2>3, <2>4, <2>5, <2>6, <2>7
  <2>12. UnseenInv' /\ SeenInv' /\ CountInv'
    <3>1. ASSUME latch = "HIGH", ~triggerContando
          PROVE  highAge' <= LOOP - timer'
      <4>1. highAge <= LOOP - timer
        BY <3>1 DEF UnseenInv
      <4>2. CASE timer = 0
        <5>1. highAge' = 0 /\ timer' = 0
          BY <2>5, <2>6, <4>2
        <5> QED BY <5>1
      <4>3. CASE timer > 0
        BY <2>5, <2>6, <4>1, <4>3
      <4> QED BY <4>2, <4>3
    <3>2. ASSUME triggerContando
          PROVE  /\ highAge' <= LOOP + sampledAge'
                 /\ sampledAge' < LATCH_HOLD_TIME_MS + LOOP - timer'
      <4>1. /\ highAge <= LOOP + sampledAge
            /\ sampledAge < LATCH_HOLD_TIME_MS + LOOP - timer
        BY <3>2 DEF SeenInv, CountInv
      <4>2. timer' = timer - 1 /\ sampledAge' = sampledAge + 1
        BY <2>5, <2>8, <2>9, <3>2
      <4> QED BY <2>6, <4>1, <4>2
    <3> QED BY <2>2, <2>3, <3>1, <3>2 DEF UnseenInv, SeenInv, CountInv
  <2>13. LatchInv'
    BY <2>2, <2>3 DEF LatchInv
  <2>14. LowInv'
    BY <2>2, <2>3, <2>5, <2>6 DEF LowInv
  <2> QED BY <2>1, <2>10, <2>11, <2>12, <2>13, <2>14
<1>10. CASE UNCHANGED vars
  BY <1>10 DEF vars, state, ages, Flags, LatchInv, UnseenInv, SeenInv, CountInv,
               ClockInv, LowInv, Elapsed
<1> QED
  BY <1>1, <1>2, <1>3, <1>4, <1>5, <1>6, <1>7, <1>8, <1>9, <1>10
     DEF Next, atualizarLatch

\* It holds in every state.
LEMMA Invariance == Spec => []Inv
BY Initial, Inductive, PTL DEF Spec

\* Every variable keeps its type, the clock and the ages included.
THEOREM TypeCorrect == Spec => []TypeOK
<1>1. Inv => TypeOK
  BY DEF Inv, Flags, Numbers, TypeOK
<1> QED BY <1>1, Invariance, PTL

\* A trigger held HIGH while the loop runs switches the latch off in time.
THEOREM PowerOff == Spec => []PowerOffInTime
<1>1. Inv => PowerOffInTime
  <2> SUFFICES ASSUME Inv, latch = "HIGH"
               PROVE  highAge < Longest
    BY DEF PowerOffInTime
  <2> USE ManipuladorAssumption DEF Inv, Numbers, Ages, Longest
  <2>1. CASE triggerContando
    BY <2>1 DEF SeenInv, CountInv
  <2>2. CASE ~triggerContando
    BY <2>2 DEF UnseenInv
  <2> QED BY <2>1, <2>2
<1> QED BY <1>1, Invariance, PTL

\* The latch goes off only after HIGH samples that span the hold time.
THEOREM NotEarly == Spec => NoEarlyPowerOff
<1>1. Inv /\ [Next]_vars => [latch = "HIGH" /\ latch' = "LOW" => sampledAge >= LATCH_HOLD_TIME_MS]_vars
  <2> SUFFICES ASSUME Inv, Next, latch = "HIGH", latch' = "LOW"
               PROVE  sampledAge >= LATCH_HOLD_TIME_MS
    OBVIOUS
  <2>1. SwitchOff
    BY DEF Next, atualizarLatch, AgentAccepts, AlreadyOff, StartCounting,
           KeepCounting, StopCounting, Toggle, PowerUp, Tick, state
  <2> QED BY <2>1 DEF SwitchOff, LongEnough, Inv, Ages, ClockInv
<1> QED BY <1>1, Invariance, PTL DEF Spec, NoEarlyPowerOff

=============================================================================
