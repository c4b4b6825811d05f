------------------------------ MODULE RampaTMC ------------------------------
(***************************************************************************)
(* TMC2209/2tmc_stall: two mirrored stepper drivers that are ramped from   *)
(* one speed to the opposite one.  The ramp blocks the loop that reads the *)
(* stall values and times the reversals.  Each VACTUAL is a step, taken    *)
(* when its datagram has gone out on the serial line.                      *)
(***************************************************************************)
EXTENDS Integers

CONSTANTS
    velocidade_alvo, passo_aceleracao,
    DELAY, LEITURA, INVERSAO,   \* the sketch's 2, 100 and 5000 ms
    WRITE,                      \* the longest a VACTUAL takes
    LOOP,                       \* the longest a task of loop() takes
    CLOCK_MOD                   \* the number of values of millis()

ASSUME RampaAssumption ==
    /\ velocidade_alvo \in Nat /\ passo_aceleracao \in Nat \ {0}
    /\ DELAY \in Nat /\ LEITURA \in Nat /\ INVERSAO \in Nat
    /\ WRITE \in Nat /\ LOOP \in Nat
    /\ CLOCK_MOD \in Nat \ {0}

VARIABLES
    driver0, driver1,       \* what the drivers were last told
    velocidade_atual, novo_alvo, v,
    caller,                 \* of mudarVelocidade: "setup" or "loop"
    at,                     \* in a ramp, the VACTUAL on its way ("driver0",
                            \* "driver1", "last0", "last1") or "delay"; in
                            \* loop(), "leitura" or "inversao"
    direcao_atual,
    tempo_atual, timer_leitura, timer_inversao,
    clock,                  \* millis()
    timer,                  \* ticks until the program goes on
    sinceRead, sinceRamp    \* history: ticks since the last reading, and since
                            \* the end of the last ramp of loop()

ramp  == <<velocidade_atual, novo_alvo, v>>
times == <<tempo_atual, timer_leitura, timer_inversao>>
ages  == <<sinceRead, sinceRamp>>
rest  == <<caller, direcao_atual>>
vars  == <<driver0, driver1, ramp, at, rest, times, clock, timer, ages>>

\* The ticks a ramp takes at most: two VACTUALs and a delay for every speed it
\* goes through, and two VACTUALs for the target.  What ages are counted up to.
RampTime == ((2 * velocidade_alvo) \div passo_aceleracao + 1) * (DELAY + 2 * WRITE)
                + 2 * WRITE
Longest  == LEITURA + RampTime + 3 * LOOP
Older(age) == IF age < Longest + INVERSAO THEN age + 1 ELSE age

Elapsed(now, last) ==
    IF now >= last THEN now - last ELSE now - last + CLOCK_MOD

Init == /\ driver0 = 0 /\ driver1 = 0
        /\ velocidade_atual = 0 /\ novo_alvo = velocidade_alvo /\ v = 0
        /\ at = "driver0" /\ caller = "setup" /\ direcao_atual = 1
        /\ tempo_atual = 0 /\ timer_leitura = 0 /\ timer_inversao = 0
        /\ clock = 0 /\ timer \in 0 .. WRITE /\ sinceRead = 0 /\ sinceRamp = 0

----------------------------------------------------------------------------
(* mudarVelocidade *)

Driver0 == /\ at = "driver0" /\ timer = 0
           /\ driver0' = v /\ at' = "driver1" /\ timer' \in 0 .. WRITE
           /\ UNCHANGED <<driver1, ramp, rest, times, clock, ages>>

Driver1 == /\ at = "driver1" /\ timer = 0
           /\ driver1' = -v /\ at' = "delay" /\ timer' = DELAY
           /\ UNCHANGED <<driver0, ramp, rest, times, clock, ages>>

Up == velocidade_atual < novo_alvo

NextSpeed ==
    /\ at = "delay" /\ timer = 0
    /\ v' = IF Up THEN v + passo_aceleracao ELSE v - passo_aceleracao
    /\ at' = IF (Up /\ v' <= novo_alvo) \/ (~Up /\ v' >= novo_alvo)
             THEN "driver0" ELSE "last0"
    /\ timer' \in 0 .. WRITE
    /\ UNCHANGED <<driver0, driver1, velocidade_atual, novo_alvo, rest,
                   times, clock, ages>>

Last0 == /\ at = "last0" /\ timer = 0
         /\ driver0' = novo_alvo /\ velocidade_atual' = novo_alvo
         /\ at' = "last1" /\ timer' \in 0 .. WRITE
         /\ UNCHANGED <<driver1, novo_alvo, v, rest, times, clock, ages>>

\* Mutant: the second driver keeps the ramp's last full step.
Last1Silent ==
    /\ at = "last1" /\ timer = 0
    /\ at' = "leitura" /\ timer' \in 0 .. LOOP
    /\ IF caller = "loop"
       THEN timer_inversao' = clock /\ sinceRamp' = 0
       ELSE UNCHANGED <<timer_inversao, sinceRamp>>
    /\ UNCHANGED <<driver0, driver1, ramp, rest, tempo_atual, timer_leitura,
                   clock, sinceRead>>

\* Mutant: the time of the reversal is the one the iteration began with.
Last1Early ==
    /\ at = "last1" /\ timer = 0
    /\ driver1' = -velocidade_atual
    /\ at' = "leitura" /\ timer' \in 0 .. LOOP
    /\ IF caller = "loop"
       THEN timer_inversao' = tempo_atual /\ sinceRamp' = 0
       ELSE UNCHANGED <<timer_inversao, sinceRamp>>
    /\ UNCHANGED <<driver0, ramp, rest, tempo_atual, timer_leitura, clock,
                   sinceRead>>

\* Back in loop(), the time of the reversal is taken; back in setup(), not.
Last1 ==
    /\ at = "last1" /\ timer = 0
    /\ driver1' = -velocidade_atual
    /\ at' = "leitura" /\ timer' \in 0 .. LOOP
    /\ IF caller = "loop"
       THEN timer_inversao' = clock /\ sinceRamp' = 0
       ELSE UNCHANGED <<timer_inversao, sinceRamp>>
    /\ UNCHANGED <<driver0, ramp, rest, tempo_atual, timer_leitura, clock,
                   sinceRead>>

(* loop() *)

\* Mutant: the subtraction is signed.
LeituraSigned ==
    /\ at = "leitura" /\ timer = 0
    /\ at' = "inversao" /\ timer' \in 0 .. LOOP
    /\ tempo_atual' = clock
    /\ IF clock - timer_leitura >= LEITURA
       THEN timer_leitura' = clock /\ sinceRead' = 0
       ELSE UNCHANGED <<timer_leitura, sinceRead>>
    /\ UNCHANGED <<driver0, driver1, ramp, rest, timer_inversao, clock, sinceRamp>>

\* tempo_atual = millis(), and the stall values if they are due.
Leitura ==
    /\ at = "leitura" /\ timer = 0
    /\ at' = "inversao" /\ timer' \in 0 .. LOOP
    /\ tempo_atual' = clock
    /\ IF Elapsed(clock, timer_leitura) >= LEITURA
       THEN timer_leitura' = clock /\ sinceRead' = 0
       ELSE UNCHANGED <<timer_leitura, sinceRead>>
    /\ UNCHANGED <<driver0, driver1, ramp, rest, timer_inversao, clock, sinceRamp>>

Due == Elapsed(tempo_atual, timer_inversao) >= INVERSAO

\* Mutant: the ramp starts at rest.
ReverseFromRest ==
    /\ at = "inversao" /\ timer = 0 /\ Due
    /\ direcao_atual' = -direcao_atual /\ caller' = "loop"
    /\ novo_alvo' = velocidade_alvo * direcao_atual' /\ v' = 0
    /\ at' = "driver0" /\ timer' \in 0 .. WRITE
    /\ UNCHANGED <<driver0, driver1, velocidade_atual, times, clock, ages>>

Reverse ==
    /\ at = "inversao" /\ timer = 0 /\ Due
    /\ direcao_atual' = -direcao_atual /\ caller' = "loop"
    /\ novo_alvo' = velocidade_alvo * direcao_atual' /\ v' = velocidade_atual
    /\ at' = "driver0" /\ timer' \in 0 .. WRITE
    /\ UNCHANGED <<driver0, driver1, velocidade_atual, times, clock, ages>>

Continue ==
    /\ at = "inversao" /\ timer = 0 /\ ~Due
    /\ at' = "leitura" /\ timer' \in 0 .. LOOP
    /\ UNCHANGED <<driver0, driver1, ramp, rest, times, clock, ages>>

Tick ==
    /\ timer > 0
    /\ timer' = timer - 1 /\ clock' = (clock + 1) % CLOCK_MOD
    /\ sinceRead' = Older(sinceRead) /\ sinceRamp' = Older(sinceRamp)
    /\ UNCHANGED <<driver0, driver1, ramp, at, rest, times>>

Next == \/ Driver0 \/ Driver1 \/ NextSpeed \/ Last0 \/ Last1
        \/ Leitura \/ Reverse \/ Continue \/ Tick

Spec == Init /\ [][Next]_vars

----------------------------------------------------------------------------
Speeds == -velocidade_alvo .. velocidade_alvo

Magnitude(x) == IF x < 0 THEN -x ELSE x

TypeOK ==
    /\ driver0 \in Speeds /\ driver1 \in Speeds
    /\ velocidade_atual \in Speeds /\ novo_alvo \in Speeds
    /\ v \in Int
    /\ at \in {"driver0", "driver1", "delay", "last0", "last1",
               "leitura", "inversao"}
    /\ caller \in {"setup", "loop"} /\ direcao_atual \in {-1, 1}
    /\ tempo_atual \in 0 .. CLOCK_MOD - 1 /\ timer_leitura \in 0 .. CLOCK_MOD - 1
    /\ timer_inversao \in 0 .. CLOCK_MOD - 1 /\ clock \in 0 .. CLOCK_MOD - 1
    /\ timer \in Nat /\ sinceRead \in Nat /\ sinceRamp \in Nat

\* The mirrored motors never differ by more than one step of the ramp, and in
\* loop() not at all, also when the step does not divide the distance.
Mirrored == /\ Magnitude(driver0 + driver1) <= passo_aceleracao
            /\ at \in {"leitura", "inversao"} => driver0 + driver1 = 0

\* No driver's speed ever changes by more than one step of the ramp at once,
\* the last, shorter step and the reversal of the direction included.
Gentle == [][/\ Magnitude(driver0' - driver0) <= passo_aceleracao
             /\ Magnitude(driver1' - driver1) <= passo_aceleracao]_vars

\* A reversal begins INVERSAO or more after the last one ended, however long
\* the ramp took and whenever millis() goes round.
NoEarlyReversal == [][Reverse => sinceRamp >= INVERSAO]_vars

\* The stall values are read at the latest one ramp after they were due, the
\* time of every VACTUAL included.
ReadInTime == sinceRead <= Longest

=============================================================================
