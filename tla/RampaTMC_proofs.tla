-------------------------- MODULE RampaTMC_proofs --------------------------
(***************************************************************************)
(* For every target speed, step, period and clock: the types, the mirrored *)
(* motors, the bounded changes of speed, the spacing of the reversals, and *)
(* how late the stall values are read at most.                             *)
(***************************************************************************)
EXTENDS RampaTMC, TLAPS

\* Where the ramp is: v runs from velocidade_atual towards novo_alvo, and the
\* drivers follow it one after the other.
RampInv ==
    /\ at \in {"driver0", "driver1", "delay"} =>
          /\ v \in Speeds
          /\ Up => v <= novo_alvo
          /\ ~Up => v >= novo_alvo
    /\ at = "driver0" => driver1 = -driver0 /\ Magnitude(v - driver0) <= passo_aceleracao
    /\ at = "driver1" => driver0 = v /\ Magnitude(v + driver1) <= passo_aceleracao
    /\ at = "delay"   => driver0 = v /\ driver1 = -v
    /\ at = "last0"   => /\ driver1 = -driver0
                         /\ Magnitude(novo_alvo - driver0) <= passo_aceleracao
    /\ at = "last1"   => /\ driver0 = novo_alvo /\ velocidade_atual = novo_alvo
                         /\ Magnitude(driver0 + driver1) <= passo_aceleracao
    /\ at \in {"leitura", "inversao"} =>
          driver0 = velocidade_atual /\ driver1 = -driver0

\* The clock's distance to timer_inversao never exceeds the real one.
ReversalInv ==
    /\ sinceRamp >= INVERSAO \/ Elapsed(clock, timer_inversao) <= sinceRamp
    /\ at = "inversao" => \/ sinceRamp >= INVERSAO
                          \/ Elapsed(tempo_atual, timer_inversao) <= sinceRamp

Inv == TypeOK /\ RampInv /\ ReversalInv

\* mudarVelocidade and loop() keep the types and the ramp.
LEMMA RampStep == Inv /\ [Next]_vars => (TypeOK /\ RampInv)'
<1> SUFFICES ASSUME Inv, [Next]_vars PROVE (TypeOK /\ RampInv)'
    OBVIOUS
<1> USE RampaAssumption DEF Inv, TypeOK, RampInv, Speeds, Magnitude, Up, vars, ramp,
        rest, times, ages
<1>1. CASE Driver0
      BY <1>1 DEF Driver0
<1>2. CASE Driver1
      BY <1>2 DEF Driver1
<1>3. CASE NextSpeed
      BY <1>3 DEF NextSpeed
<1>4. CASE Last0
      BY <1>4 DEF Last0
<1>5. CASE Last1
      BY <1>5 DEF Last1
<1>6. CASE Leitura
      BY <1>6 DEF Leitura
<1>7. CASE Reverse
      BY <1>7 DEF Reverse
<1>8. CASE Continue
      BY <1>8 DEF Continue
<1>9. CASE Tick
      BY <1>9 DEF Tick, Older, Longest, RampTime
<1>10. CASE UNCHANGED vars
      BY <1>10
<1> QED
    BY <1>1, <1>2, <1>3, <1>4, <1>5, <1>6, <1>7, <1>8, <1>9, <1>10 DEF Next

\* A tick of the clock adds one to every distance, or makes it zero.
LEMMA ElapsedTick ==
    ASSUME NEW now \in 0 .. CLOCK_MOD - 1, NEW last \in 0 .. CLOCK_MOD - 1
    PROVE  Elapsed((now + 1) % CLOCK_MOD, last) \in {0, Elapsed(now, last) + 1}
<1>1. (now + 1) % CLOCK_MOD = IF now + 1 < CLOCK_MOD THEN now + 1 ELSE 0
      BY RampaAssumption
<1> QED
    BY <1>1, RampaAssumption DEF Elapsed

\* An age is counted up to a bound that exceeds INVERSAO.
LEMMA LongestNat == Longest \in Nat
<1>1. (2 * velocidade_alvo) \div passo_aceleracao \in Nat
      BY RampaAssumption
<1>2. ASSUME NEW n \in Nat, NEW d \in Nat PROVE (n + 1) * d \in Nat
      OBVIOUS
<1>3. DELAY + 2 * WRITE \in Nat /\ 2 * WRITE \in Nat
      BY RampaAssumption
<1>4. RampTime \in Nat
      BY <1>1, <1>2, <1>3 DEF RampTime
<1> QED
    BY <1>4, RampaAssumption DEF Longest

\* A distance no longer than a short age stays so over one tick.
LEMMA OlderTick ==
    ASSUME NEW age \in Nat, NEW e \in Int, NEW e2 \in {0, e + 1},
           age >= INVERSAO \/ e <= age
    PROVE  Older(age) >= INVERSAO \/ e2 <= Older(age)
BY LongestNat, RampaAssumption DEF Older

\* Time and the end of a ramp keep the clock's view of the reversal.
LEMMA ReversalStep == Inv /\ [Next]_vars => ReversalInv'
<1> SUFFICES ASSUME Inv, [Next]_vars PROVE ReversalInv'
    OBVIOUS
<1> USE RampaAssumption DEF Inv, TypeOK, ReversalInv, vars, ramp, rest, times, ages
<1>1. CASE Driver0 \/ Driver1 \/ NextSpeed \/ Last0
      BY <1>1 DEF Driver0, Driver1, NextSpeed, Last0
<1>2. CASE Last1
      BY <1>2 DEF Last1, Elapsed
<1>3. CASE Leitura
      BY <1>3 DEF Leitura
<1>4. CASE Reverse
      BY <1>4 DEF Reverse
<1>5. CASE Continue
      BY <1>5 DEF Continue
<1>6. CASE Tick
  <2>1. sinceRamp' = Older(sinceRamp) /\ clock' = (clock + 1) % CLOCK_MOD
        /\ UNCHANGED <<timer_inversao, tempo_atual, at>>
        BY <1>6 DEF Tick
  <2>2. Elapsed(clock', timer_inversao') \in {0, Elapsed(clock, timer_inversao) + 1}
        BY <2>1, ElapsedTick
  <2>3. Elapsed(clock, timer_inversao) \in Int /\ Elapsed(tempo_atual, timer_inversao) \in Int
        BY DEF Elapsed
  <2>4. sinceRamp' >= INVERSAO \/ Elapsed(clock', timer_inversao') <= sinceRamp'
        BY <2>1, <2>2, <2>3, OlderTick
  <2>5. Older(sinceRamp) >= sinceRamp
        BY DEF Older
  <2>6. at' = "inversao" => \/ sinceRamp' >= INVERSAO
                            \/ Elapsed(tempo_atual', timer_inversao') <= sinceRamp'
        BY <2>1, <2>3, <2>5, LongestNat DEF Older
  <2> QED
      BY <2>4, <2>6
<1>7. CASE UNCHANGED vars
      BY <1>7
<1> QED
    BY <1>1, <1>2, <1>3, <1>4, <1>5, <1>6, <1>7 DEF Next

\* Two speeds that add up to zero are opposite.
LEMMA Opposite ==
    ASSUME NEW x \in Int, NEW y \in Int, x + y = 0 PROVE y = -x
OBVIOUS

\* A board that starts satisfies the invariant.
LEMMA Initial == Init => Inv
<1> SUFFICES ASSUME Init PROVE Inv
    OBVIOUS
<1> USE RampaAssumption DEF Init
<1>1. TypeOK
      BY DEF TypeOK, Speeds
<1>2. v \in Speeds /\ v <= novo_alvo /\ (~Up => v >= novo_alvo)
      BY DEF Speeds, Up
<1>3. driver1 = -driver0 /\ Magnitude(v - driver0) <= passo_aceleracao
  <2>1. /\ driver0 \in Int /\ driver0 = 0
        /\ driver1 \in Int /\ driver1 = 0 /\ v \in Int /\ v = 0
        OBVIOUS
  <2>2. driver1 = -driver0
    <3>1. driver0 + driver1 = 0
          BY ONLY <2>1
    <3> QED
        BY ONLY <2>1, <3>1, Opposite
  <2>3. v - driver0 = 0
        BY ONLY <2>1
  <2>4. Magnitude(v - driver0) = 0
        BY ONLY <2>3 DEF Magnitude
  <2> QED
      BY ONLY <2>2, <2>4, RampaAssumption
<1>4. RampInv
      BY <1>2, <1>3 DEF RampInv
<1>5. ReversalInv
      BY DEF ReversalInv, Elapsed
<1> QED
    BY <1>1, <1>4, <1>5 DEF Inv

\* Inv holds of every state the sketch reaches.
THEOREM Invariance == Spec => []Inv
<1>1. Inv /\ [Next]_vars => Inv'
      BY RampStep, ReversalStep DEF Inv
<1> QED
    BY Initial, <1>1, PTL DEF Spec

\* The drivers are only ever told speeds up to the target, though v goes past
\* it: mudarVelocidade's last step is to the target itself.
THEOREM TypeCorrect == Spec => []TypeOK
<1>1. Inv => TypeOK
      BY DEF Inv
<1> QED
    BY Invariance, <1>1, PTL

\* The two motors mirror each other, within a step of the ramp during it.
THEOREM MotorsMirrored == Spec => []Mirrored
<1>1. Inv => Mirrored
      BY RampaAssumption DEF Inv, TypeOK, RampInv, Mirrored, Magnitude, Speeds
<1> QED
    BY Invariance, <1>1, PTL

\* No VACTUAL differs from the one before by more than passo_aceleracao.
THEOREM GentleSteps == Spec => Gentle
<1>1. ASSUME Inv, [Next]_vars
      PROVE  [/\ Magnitude(driver0' - driver0) <= passo_aceleracao
              /\ Magnitude(driver1' - driver1) <= passo_aceleracao]_vars
  <2> USE RampaAssumption DEF Inv, TypeOK, RampInv, Speeds, Magnitude
  <2>1. CASE Driver0
        BY <1>1, <2>1 DEF Driver0
  <2>2. CASE Driver1
        BY <1>1, <2>2 DEF Driver1
  <2>3. CASE Last0
        BY <1>1, <2>3 DEF Last0
  <2>4. CASE Last1
        BY <1>1, <2>4 DEF Last1
  <2>5. CASE NextSpeed \/ Leitura \/ Reverse \/ Continue \/ Tick
        BY <1>1, <2>5 DEF NextSpeed, Leitura, Reverse, Continue, Tick
  <2>6. CASE UNCHANGED vars
        BY <2>6
  <2> QED
      BY <1>1, <2>1, <2>2, <2>3, <2>4, <2>5, <2>6 DEF Next
<1> QED
    BY Invariance, <1>1, PTL DEF Spec, Gentle

\* A reversal never begins sooner than INVERSAO after the last ramp, over any
\* number of turns of millis().
THEOREM ReversalsSpaced == Spec => NoEarlyReversal
<1>1. ASSUME Inv, [Next]_vars
      PROVE  [Reverse => sinceRamp >= INVERSAO]_vars
      BY <1>1, RampaAssumption DEF Inv, TypeOK, ReversalInv, Reverse, Due, Elapsed
<1> QED
    BY Invariance, <1>1, PTL DEF Spec, NoEarlyReversal

----------------------------------------------------------------------------
(* The stall values: a ramp takes RampTime at most *)

\* How far the ramp has to go, and that at most k delays follow this one.
Distance == IF Up THEN novo_alvo - v ELSE v - novo_alvo

Within(k) == k \in Nat /\ Distance < (k + 1) * passo_aceleracao

\* The time since the last reading when a ramp ends, at the latest.
RampEnd == LEITURA + LOOP + RampTime

\* The most a ramp takes after a delay that k delays follow.
Left(k) == k * (DELAY + 2 * WRITE) + 2 * WRITE

\* What is left of the ramp and of the tasks still fits.
BudgetInv ==
    /\ at = "driver0" =>
          \E k \in Nat :
             Within(k) /\ sinceRead + timer + WRITE + DELAY + Left(k) <= RampEnd
    /\ at = "driver1" =>
          \E k \in Nat : Within(k) /\ sinceRead + timer + DELAY + Left(k) <= RampEnd
    /\ at = "delay" =>
          \E k \in Nat : Within(k) /\ sinceRead + timer + Left(k) <= RampEnd
    /\ at = "last0" => sinceRead + timer + WRITE <= RampEnd
    /\ at = "last1" => sinceRead + timer <= RampEnd
    /\ at = "leitura" => sinceRead + timer <= RampEnd + LOOP
    /\ at = "inversao" => sinceRead + timer <= LEITURA + LOOP

\* The clock shows the time since the last reading.
ReadingInv == Elapsed(clock, timer_leitura) = sinceRead

\* The largest number of delays of a ramp, from one speed to the opposite one.
Steps == (2 * velocidade_alvo) \div passo_aceleracao

\* One delay more is one speed more: two VACTUALs and the delay.
LEMMA LeftGrows ==
    ASSUME NEW k \in Nat
    PROVE  /\ Left(k) \in Nat /\ Left(k) >= 2 * WRITE
           /\ Left(k + 1) = Left(k) + DELAY + 2 * WRITE
<1> DEFINE step == DELAY + 2 * WRITE
<1>1. step \in Nat /\ 2 * WRITE \in Nat
      BY RampaAssumption
<1>2. ASSUME NEW d \in Nat PROVE k * d \in Nat /\ (k + 1) * d = k * d + d
      OBVIOUS
<1>3. k * step \in Nat /\ (k + 1) * step = k * step + step
      BY <1>1, <1>2
<1> HIDE DEF step
<1>4. Left(k) = k * step + 2 * WRITE /\ Left(k + 1) = (k + 1) * step + 2 * WRITE
      BY DEF Left, step
<1>5. Left(k) \in Nat /\ Left(k) >= 2 * WRITE /\ Left(k + 1) = Left(k) + step
      BY <1>1, <1>3, <1>4, RampaAssumption
<1> QED
    BY <1>5, RampaAssumption DEF step

\* It is the largest multiple of the step that fits.
LEMMA StepsFit ==
    /\ Steps \in Nat
    /\ 2 * velocidade_alvo < (Steps + 1) * passo_aceleracao
    /\ RampTime = Left(Steps) + DELAY + 2 * WRITE
    /\ RampTime \in Nat /\ RampEnd \in Nat
    /\ Longest = RampEnd + 2 * LOOP
<1>1. /\ Steps \in Nat
      /\ 2 * velocidade_alvo < (Steps + 1) * passo_aceleracao
      BY RampaAssumption DEF Steps
<1>2. RampTime = Left(Steps + 1)
      BY DEF RampTime, Steps, Left
<1>3. RampTime = Left(Steps) + DELAY + 2 * WRITE /\ Left(Steps) \in Nat
      BY <1>1, <1>2, LeftGrows
<1>4. RampTime \in Nat
      BY <1>3, RampaAssumption
<1> QED
    BY <1>1, <1>3, <1>4, RampaAssumption DEF RampEnd, Longest

\* One more step of the ramp is one delay less.
LEMMA RampGoesOn ==
    ASSUME NEW d \in Int, NEW k \in Nat, d < (k + 1) * passo_aceleracao,
           d - passo_aceleracao >= 0
    PROVE  /\ k - 1 \in Nat
           /\ d - passo_aceleracao < ((k - 1) + 1) * passo_aceleracao
<1>1. passo_aceleracao \in Nat
      BY RampaAssumption
<1>2. (k + 1) * passo_aceleracao = k * passo_aceleracao + passo_aceleracao
      BY <1>1
<1>3. k * passo_aceleracao \in Int
      BY <1>1
<1>4. k # 0
      BY <1>1, <1>2
<1> QED
    BY <1>1, <1>2, <1>3, <1>4

\* A tick of the clock, as long as it has not gone round since the reading.
LEMMA ElapsedOneMore ==
    ASSUME NEW now \in 0 .. CLOCK_MOD - 1, NEW last \in 0 .. CLOCK_MOD - 1,
           Elapsed(now, last) + 1 < CLOCK_MOD
    PROVE  Elapsed((now + 1) % CLOCK_MOD, last) = Elapsed(now, last) + 1
<1>1. (now + 1) % CLOCK_MOD = IF now + 1 < CLOCK_MOD THEN now + 1 ELSE 0
      BY RampaAssumption
<1> QED
    BY <1>1, RampaAssumption DEF Elapsed

ReadInv == BudgetInv /\ ReadingInv

\* While there is time left, the last reading is less than Longest ago.
LEMMA TimeLeft ==
    ASSUME TypeOK, BudgetInv
    PROVE  sinceRead + timer <= Longest - LOOP
<1>a. /\ sinceRead \in Nat /\ timer \in Nat /\ DELAY \in Nat /\ WRITE \in Nat
      /\ LOOP \in Nat /\ LEITURA \in Nat /\ RampTime \in Nat
      /\ RampEnd = LEITURA + LOOP + RampTime /\ Longest = RampEnd + 2 * LOOP
      BY StepsFit, RampaAssumption DEF TypeOK, RampEnd
<1>1. CASE at \in {"driver0", "driver1", "delay"}
  <2>1. PICK k \in Nat : sinceRead + timer + Left(k) <= RampEnd
        BY <1>1, <1>a, LeftGrows DEF BudgetInv
  <2>2. Left(k) \in Nat
        BY LeftGrows
  <2> QED
      BY <1>a, <2>1, <2>2
<1>2. CASE at \in {"last0", "last1"}
      BY <1>a, <1>2 DEF BudgetInv
<1>3. CASE at \in {"leitura", "inversao"}
      BY <1>a, <1>3 DEF BudgetInv
<1> QED
    BY <1>1, <1>2, <1>3 DEF TypeOK

\* A task that begins takes LOOP at most.
LEMMA TaskFits ==
    ASSUME NEW age \in Nat, NEW task \in 0 .. LOOP, NEW most \in Nat, age <= most
    PROVE  age + task <= most + LOOP
BY RampaAssumption

\* A VACTUAL that begins takes WRITE at most.
LEMMA WriteFits ==
    ASSUME NEW age \in Nat, NEW write \in 0 .. WRITE, NEW left \in Nat,
           NEW most \in Nat
    PROVE  /\ age + 0 + WRITE <= most => age + write <= most
           /\ left >= 2 * WRITE /\ age + 0 + left <= most => age + write + WRITE <= most
BY RampaAssumption

\* Two speeds are at most twice the target speed apart.
LEMMA FarthestApart ==
    ASSUME NEW from \in Speeds, NEW to \in Speeds
    PROVE  /\ (IF from < to THEN to - from ELSE from - to) \in Int
           /\ (IF from < to THEN to - from ELSE from - to) <= 2 * velocidade_alvo
BY RampaAssumption DEF Speeds

\* The budget of the ramp and of the tasks is kept.
LEMMA BudgetStep ==
    Inv /\ ReadInv /\ Longest < CLOCK_MOD /\ [Next]_vars => BudgetInv'
<1> SUFFICES ASSUME Inv, TypeOK, RampInv, BudgetInv, ReadingInv, [Next]_vars
             PROVE  BudgetInv'
    BY DEF Inv, ReadInv
<1>a. RampTime \in Nat /\ RampEnd \in Nat
      BY StepsFit
<1> USE RampaAssumption, <1>a
<1>b. sinceRead \in Nat /\ timer \in Nat /\ DELAY \in Nat /\ WRITE \in Nat
      BY DEF TypeOK
<1>1. CASE Driver0
  <2>1. /\ at = "driver0" /\ timer = 0 /\ at' = "driver1" /\ timer' \in 0 .. WRITE
        /\ UNCHANGED <<sinceRead, velocidade_atual, novo_alvo, v>>
        BY <1>1 DEF Driver0, ramp, ages
  <2>2. PICK k \in Nat :
           Within(k) /\ sinceRead + timer + WRITE + DELAY + Left(k) <= RampEnd
        BY <2>1 DEF BudgetInv
  <2>3. Within(k)'
        BY <2>1, <2>2 DEF Within, Distance, Up
  <2>4. sinceRead' + timer' + DELAY + Left(k) <= RampEnd
        BY <1>b, <2>1, <2>2, LeftGrows
  <2>5. Left(k)' = Left(k) /\ RampEnd' = RampEnd
        BY DEF Left, RampEnd, RampTime
  <2> QED
      BY <2>1, <2>3, <2>4, <2>5 DEF BudgetInv
<1>2. CASE Driver1
  <2>1. /\ at = "driver1" /\ timer = 0 /\ at' = "delay" /\ timer' = DELAY
        /\ UNCHANGED <<sinceRead, velocidade_atual, novo_alvo, v>>
        BY <1>2 DEF Driver1, ramp, ages
  <2>2. PICK k \in Nat : Within(k) /\ sinceRead + timer + DELAY + Left(k) <= RampEnd
        BY <2>1 DEF BudgetInv
  <2>3. Within(k)'
        BY <2>1, <2>2 DEF Within, Distance, Up
  <2>4. sinceRead' + timer' + Left(k) <= RampEnd
        BY <1>b, <2>1, <2>2, LeftGrows
  <2>5. Left(k)' = Left(k) /\ RampEnd' = RampEnd
        BY DEF Left, RampEnd, RampTime
  <2> QED
      BY <2>1, <2>3, <2>4, <2>5 DEF BudgetInv
<1>3. CASE NextSpeed
  <2>1. /\ at = "delay" /\ timer = 0 /\ at' \in {"driver0", "last0"}
        /\ timer' \in 0 .. WRITE
        /\ UNCHANGED <<sinceRead, velocidade_atual, novo_alvo>>
        /\ v' = IF Up THEN v + passo_aceleracao ELSE v - passo_aceleracao
        /\ at' = "driver0" => (Up /\ v' <= novo_alvo) \/ (~Up /\ v' >= novo_alvo)
        BY <1>3 DEF NextSpeed, ages
  <2>2. PICK k \in Nat : Within(k) /\ sinceRead + timer + Left(k) <= RampEnd
        BY <2>1 DEF BudgetInv
  <2>3. Up' = Up /\ Distance \in Int /\ Distance' = Distance - passo_aceleracao
        BY <2>1 DEF TypeOK, Speeds, Up, Distance
  <2>4. CASE at' = "last0"
    <3>1. Left(k) \in Nat /\ Left(k) >= 2 * WRITE
          BY LeftGrows
    <3>2. sinceRead + timer' + WRITE <= RampEnd
          BY <1>b, <2>1, <2>2, <3>1, WriteFits
    <3> QED
        BY <2>1, <2>4, <3>2 DEF BudgetInv
  <2>5. CASE at' = "driver0"
    <3>1. Distance' >= 0
          BY <2>1, <2>3, <2>5 DEF TypeOK, Speeds, Up, Distance
    <3>2. /\ k - 1 \in Nat
          /\ Distance - passo_aceleracao < ((k - 1) + 1) * passo_aceleracao
          BY <2>2, <2>3, <3>1, RampGoesOn DEF Within
    <3>3. Within(k - 1)'
          BY <2>3, <3>2 DEF Within
    <3>4. PICK j \in Nat : j = k - 1
          BY <3>2
    <3>5. Left(j) \in Nat /\ Left(k) = Left(j) + DELAY + 2 * WRITE
      <4>1. k = j + 1
            BY <3>4
      <4> QED
          BY <4>1, LeftGrows
    <3>6. sinceRead' + timer' + WRITE + DELAY + Left(j) <= RampEnd
          BY <1>b, <2>1, <2>2, <3>5
    <3>7. Left(j)' = Left(j) /\ RampEnd' = RampEnd
          BY DEF Left, RampEnd, RampTime
    <3> QED
        BY <2>5, <3>3, <3>4, <3>6, <3>7 DEF BudgetInv
  <2> QED
      BY <2>1, <2>4, <2>5
<1>4. CASE Last0
  <2>1. /\ at = "last0" /\ timer = 0 /\ at' = "last1" /\ timer' \in 0 .. WRITE
        /\ sinceRead' = sinceRead
        BY <1>4 DEF Last0, ages
  <2>2. sinceRead + 0 + WRITE <= RampEnd
        BY <2>1 DEF BudgetInv
  <2>3. sinceRead' + timer' <= RampEnd
        BY <1>b, <2>1, <2>2, WriteFits
  <2> QED
      BY <2>1, <2>3 DEF BudgetInv
<1>5. CASE Last1
  <2>1. /\ at' = "leitura" /\ timer' \in 0 .. LOOP
        /\ sinceRead' = sinceRead /\ sinceRead <= RampEnd /\ sinceRead \in Nat
        BY <1>5, <1>b DEF Last1, BudgetInv
  <2>2. sinceRead' + timer' <= RampEnd + LOOP
        BY <2>1, TaskFits
  <2> QED
      BY <2>1, <2>2 DEF BudgetInv
<1>6. CASE Leitura
  <2>1. /\ at = "leitura" /\ timer = 0 /\ at' = "inversao" /\ timer' \in 0 .. LOOP
        /\ sinceRead' = IF sinceRead >= LEITURA THEN 0 ELSE sinceRead
        BY <1>6 DEF Leitura, ReadingInv
  <2>2. sinceRead' \in Nat /\ sinceRead' <= LEITURA
        BY <2>1 DEF TypeOK
  <2>3. sinceRead' + timer' <= LEITURA + LOOP
        BY <2>1, <2>2, TaskFits
  <2> QED
      BY <2>1, <2>3 DEF BudgetInv
<1>7. CASE Reverse
  <2>1. /\ at' = "driver0" /\ timer' \in 0 .. WRITE /\ sinceRead' = sinceRead
        /\ sinceRead <= LEITURA + LOOP
        BY <1>7 DEF Reverse, ages, BudgetInv, TypeOK
  <2>2. /\ v' = velocidade_atual /\ velocidade_atual' = velocidade_atual
        /\ novo_alvo' \in Speeds
        BY <1>7 DEF Reverse, TypeOK, Speeds
  <2>3. Distance' \in Int /\ Distance' <= 2 * velocidade_alvo
    <3>1. velocidade_atual \in Speeds
          BY DEF TypeOK
    <3>2. Distance' = IF velocidade_atual < novo_alvo' THEN novo_alvo' - velocidade_atual
                      ELSE velocidade_atual - novo_alvo'
          BY <2>2 DEF Distance, Up
    <3> QED
        BY <2>2, <3>1, <3>2, FarthestApart
  <2>4. (Steps + 1) * passo_aceleracao \in Int
        BY StepsFit
  <2>5. Within(Steps)'
        BY <2>3, <2>4, StepsFit DEF Within
  <2>6. sinceRead' + timer' + WRITE + DELAY + Left(Steps) <= RampEnd
        BY <1>b, <2>1, StepsFit, LeftGrows DEF RampEnd
  <2>7. Left(Steps)' = Left(Steps) /\ RampEnd' = RampEnd
        BY DEF Left, RampEnd, RampTime, Steps
  <2> QED
      BY <2>1, <2>5, <2>6, <2>7, StepsFit DEF BudgetInv
<1>8. CASE Continue
  <2>1. /\ at' = "leitura" /\ timer' \in 0 .. LOOP
        /\ sinceRead' = sinceRead /\ sinceRead <= LEITURA + LOOP /\ sinceRead \in Nat
        BY <1>8 DEF Continue, ages, BudgetInv, TypeOK
  <2>2. sinceRead <= RampEnd
        BY <2>1 DEF RampEnd
  <2>3. sinceRead' + timer' <= RampEnd + LOOP
        BY <2>1, <2>2, TaskFits
  <2> QED
      BY <2>1, <2>3 DEF BudgetInv
<1>9. CASE Tick
  <2>1. /\ timer > 0 /\ timer' = timer - 1 /\ sinceRead' = Older(sinceRead)
        /\ UNCHANGED <<at, velocidade_atual, novo_alvo, v>>
        BY <1>9 DEF Tick, ramp
  <2>2. sinceRead' <= sinceRead + 1 /\ sinceRead' \in Int /\ sinceRead \in Int
        BY <2>1, LongestNat DEF Older, TypeOK
  <2>3. sinceRead' + timer' <= sinceRead + timer
        BY <2>1, <2>2 DEF TypeOK
  <2>4. /\ \A k \in Nat : Within(k)' <=> Within(k)
        /\ \A k \in Nat : Left(k)' = Left(k)
        /\ RampEnd' = RampEnd
        BY <2>1 DEF Within, Distance, Up, Left, RampEnd, RampTime
  <2>5. ASSUME NEW k \in Nat
        PROVE  /\ sinceRead + timer + WRITE + DELAY + Left(k) <= RampEnd
                    => sinceRead' + timer' + WRITE + DELAY + Left(k) <= RampEnd
               /\ sinceRead + timer + DELAY + Left(k) <= RampEnd
                    => sinceRead' + timer' + DELAY + Left(k) <= RampEnd
               /\ sinceRead + timer + Left(k) <= RampEnd
                    => sinceRead' + timer' + Left(k) <= RampEnd
        BY <1>b, <2>1, <2>2, <2>3, LeftGrows
  <2>6. /\ sinceRead + timer + WRITE <= RampEnd => sinceRead' + timer' + WRITE <= RampEnd
        /\ sinceRead + timer <= RampEnd => sinceRead' + timer' <= RampEnd
        /\ sinceRead + timer <= RampEnd + LOOP => sinceRead' + timer' <= RampEnd + LOOP
        /\ sinceRead + timer <= LEITURA + LOOP => sinceRead' + timer' <= LEITURA + LOOP
        BY <1>b, <2>1, <2>2, <2>3
  <2> QED
      BY <2>1, <2>4, <2>5, <2>6 DEF BudgetInv
<1>10. CASE UNCHANGED vars
  <2>1. UNCHANGED <<at, timer, sinceRead, velocidade_atual, novo_alvo, v>>
        BY <1>10 DEF vars, ramp, ages
  <2>2. \A k \in Nat : Within(k)' <=> Within(k)
        BY <2>1 DEF Within, Distance, Up
  <2> QED
      BY <2>1, <2>2 DEF BudgetInv
<1> QED
    BY <1>1, <1>2, <1>3, <1>4, <1>5, <1>6, <1>7, <1>8, <1>9, <1>10 DEF Next

\* The clock goes on by one tick as the age does: it has no time to go round.
LEMMA ReadingStep ==
    TypeOK /\ ReadInv /\ Longest < CLOCK_MOD /\ [Next]_vars => ReadingInv'
<1> SUFFICES ASSUME TypeOK, BudgetInv, ReadingInv, Longest < CLOCK_MOD, [Next]_vars
             PROVE  ReadingInv'
    BY DEF ReadInv
<1> USE RampaAssumption
<1>1. CASE Tick
  <2>1. /\ timer > 0 /\ clock' = (clock + 1) % CLOCK_MOD
        /\ sinceRead' = Older(sinceRead) /\ timer_leitura' = timer_leitura
        BY <1>1 DEF Tick, times
  <2>2. sinceRead + timer <= Longest - LOOP /\ Longest \in Int
        BY TimeLeft, LongestNat
  <2>3. sinceRead + 1 <= Longest
        BY <2>1, <2>2 DEF TypeOK
  <2>4. sinceRead' = sinceRead + 1
        BY <2>1, <2>2, <2>3 DEF Older, TypeOK
  <2>5. Elapsed((clock + 1) % CLOCK_MOD, timer_leitura)
            = Elapsed(clock, timer_leitura) + 1
        BY <2>2, <2>3, ElapsedOneMore DEF ReadingInv, TypeOK
  <2> QED
      BY <2>1, <2>4, <2>5 DEF ReadingInv, Elapsed
<1>2. CASE Leitura
      BY <1>2 DEF Leitura, ReadingInv, Elapsed, TypeOK
<1>3. CASE UNCHANGED <<clock, timer_leitura, sinceRead>>
      BY <1>3 DEF ReadingInv, Elapsed
<1>4. \/ Tick \/ Leitura \/ UNCHANGED <<clock, timer_leitura, sinceRead>>
      BY DEF Next, Driver0, Driver1, NextSpeed, Last0, Last1, Reverse, Continue,
             vars, times, ages
<1> QED
    BY <1>1, <1>2, <1>3, <1>4

\* The first ramp has all its speeds before it.
LEMMA ReadInitial == Init => ReadInv
<1> SUFFICES ASSUME Init PROVE ReadInv
    OBVIOUS
<1> USE RampaAssumption, StepsFit DEF Init
<1>1. ReadingInv
      BY DEF ReadingInv, Elapsed
<1>2. Distance \in Int /\ Distance <= 2 * velocidade_alvo
      BY DEF Distance, Up
<1>3. (Steps + 1) * passo_aceleracao \in Int
      OBVIOUS
<1>4. Within(Steps)
      BY <1>2, <1>3 DEF Within
<1>5. sinceRead + timer + WRITE + DELAY + Left(Steps) <= RampEnd
      BY LeftGrows DEF RampEnd
<1> QED
    BY <1>1, <1>4, <1>5 DEF ReadInv, BudgetInv

\* The stall values are read at the latest one ramp after they were due, if
\* millis() does not go round in that time.
THEOREM ReadingsInTime == ASSUME Longest < CLOCK_MOD PROVE Spec => []ReadInTime
<1>1. Init => ReadInv
      BY ReadInitial
<1>2. Inv /\ ReadInv /\ [Next]_vars => ReadInv'
      BY BudgetStep, ReadingStep DEF ReadInv, Inv
<1>3. Inv /\ ReadInv => ReadInTime
      BY TimeLeft, LongestNat, RampaAssumption DEF Inv, ReadInv, ReadInTime, TypeOK
<1> QED
    BY <1>1, <1>2, <1>3, Invariance, PTL DEF Spec

=============================================================================
