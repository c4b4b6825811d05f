-------------------------- MODULE ImuStamp_proofs --------------------------
(***************************************************************************)
(* For every length of the second, width of millis() and duration of the   *)
(* callback: a stamp is never ahead of the clock, and the imu messages are *)
(* in order but where a stamp is torn.                                     *)
(*                                                                         *)
(* A callback is shorter than a turn of millis(); so the clock itself says *)
(* whether it went round between the two readings of a stamp.              *)
(***************************************************************************)
EXTENDS ImuStamp, TLAPS

\* The ticks from the value a of millis() to the value b.
Span(a, b) == IF a <= b THEN b - a ELSE b - a + CLOCK_MOD

\* The fields are what was read, and a finished stamp was read within a callback.
ReadInv ==
    \A s \in Stamps :
        /\ sec[s] = readSec[s] \div SECOND
        /\ nanosec[s] = readNano[s] % SECOND
        /\ \/ at = "nanosec" /\ s = stamp
           \/ (readSec[s] <= readNano[s] => readNano[s] - readSec[s] <= SPREAD)

\* The stamp being made is no older than the callback, and its two readings are
\* in order if the clock has not gone round since.
OpenInv ==
    /\ at \in {"nanosec", "publish"} => Span(readSec[stamp], clock) <= spent
    /\ at = "publish" /\ readSec[stamp] <= clock =>
          readSec[stamp] <= readNano[stamp] /\ readNano[stamp] <= clock

\* Until millis() goes round, the last message is older than the clock, ...
SentInv == ~rolled => sent <= clock

\* ... and than the message about to be sent.
NextInv == at = "publish" /\ stamp = "imu" /\ ~rolled => sent <= readNano["imu"]

Inv == TypeOK /\ ReadInv /\ OpenInv /\ SentInv /\ NextInv

----------------------------------------------------------------------------
\* A number of ticks is its full seconds and the rest.
LEMMA Split ==
    ASSUME NEW a \in Nat, NEW s \in Nat \ {0}
    PROVE  a = s * (a \div s) + (a % s) /\ a % s \in 0 .. s - 1 /\ a \div s \in Nat
BY SMTT(20)

\* Of two times less than a second apart, the full seconds agree or are one apart.
LEMMA SameOrNext ==
    ASSUME NEW s \in Nat \ {0}, NEW p \in Int, NEW q \in Int,
           NEW r \in 0 .. s - 1, NEW u \in 0 .. s - 1,
           s * p + r <= s * q + u, s * q + u - (s * p + r) < s
    PROVE  s * p = s * q \/ s * p = s * q - s
<1>1. s * (q - p) = s * q - s * p
      BY SMTT(20)
<1>2. CASE q - p >= 2
  <2>1. s * (q - p) >= s * 2
        BY ONLY <1>2, s \in Nat \ {0}, p \in Int, q \in Int, SMTT(20)
  <2> QED
      BY ONLY <1>1, <2>1, s * q + u - (s * p + r) < s, s \in Nat \ {0},
              p \in Int, q \in Int, r \in 0 .. s - 1, u \in 0 .. s - 1, SMTT(20)
<1>3. CASE q - p <= -1
  <2>1. s * (q - p) <= s * (-1)
        BY ONLY <1>3, s \in Nat \ {0}, p \in Int, q \in Int, SMTT(20)
  <2> QED
      BY ONLY <1>1, <2>1, s * p + r <= s * q + u, s \in Nat \ {0},
              p \in Int, q \in Int, r \in 0 .. s - 1, u \in 0 .. s - 1, SMTT(20)
<1>4. CASE q = p \/ q = p + 1
      BY ONLY <1>4, s \in Nat \ {0}, p \in Int, q \in Int, SMTT(20)
<1> QED
    BY <1>2, <1>3, <1>4

\* Seconds of one reading with the rest of a later one, less than a second apart.
LEMMA TornOrNot ==
    ASSUME NEW s \in Nat \ {0}, NEW a \in Nat, NEW b \in Nat, a <= b, b - a < s
    PROVE  s * (a \div s) + (b % s) \in {b, b - s}
<1> DEFINE p == a \div s
           q == b \div s
           r == a % s
           u == b % s
<1>1. /\ a = s * p + r /\ p \in Int /\ r \in 0 .. s - 1
      /\ b = s * q + u /\ q \in Int /\ u \in 0 .. s - 1
      BY Split
<1> HIDE DEF p, q, r, u
<1>2. s * p = s * q \/ s * p = s * q - s
      BY <1>1, SameOrNext
<1>3. s * p + u \in {b, b - s}
      BY ONLY <1>1, <1>2, s \in Nat \ {0}, b \in Nat, SMTT(20)
<1> QED
    BY <1>3 DEF p, u

\* millis() goes on by one, or round.
LEMMA ClockTick ==
    ASSUME NEW c \in 0 .. CLOCK_MOD - 1
    PROVE  (c + 1) % CLOCK_MOD = IF c + 1 < CLOCK_MOD THEN c + 1 ELSE 0
BY StampAssumption

----------------------------------------------------------------------------
\* A board that starts satisfies the invariant.
LEMMA Initial == Init => Inv
<1> SUFFICES ASSUME Init PROVE Inv
    OBVIOUS
<1> USE StampAssumption DEF Init, None
<1>1. TypeOK
  <2>1. rolled \in BOOLEAN /\ at = "wait" /\ stamp = "imu"
        OBVIOUS
  <2>2. /\ clock \in 0 .. CLOCK_MOD - 1 /\ spent \in 0 .. SPREAD /\ sent \in Nat
        /\ 0 \in 0 .. SECOND - 1 /\ 0 \in 0 .. CLOCK_MOD - 1
        OBVIOUS
  <2> QED
      BY <2>1, <2>2 DEF TypeOK, Stamps
<1>2. 0 \div SECOND = 0 /\ 0 % SECOND = 0
      BY SMTT(20)
<1>3. ReadInv
      BY <1>2 DEF ReadInv
<1>4. OpenInv
      BY DEF OpenInv
<1>5. SentInv
      BY DEF SentInv
<1>6. NextInv
      BY DEF NextInv
<1> QED
    BY <1>1, <1>3, <1>4, <1>5, <1>6 DEF Inv

\* Every step keeps the types.
LEMMA TypeStep == TypeOK /\ ReadInv /\ [Next]_vars => TypeOK'
<1> SUFFICES ASSUME TypeOK, ReadInv, [Next]_vars PROVE TypeOK'
    OBVIOUS
<1> USE StampAssumption DEF TypeOK, Stamps
<1>1. CASE timer_callback
      BY <1>1 DEF timer_callback, fields, history
<1>2. CASE Sec
  <2>1. clock \in Nat /\ SECOND \in Nat \ {0}
        OBVIOUS
  <2>2. clock \div SECOND \in Nat
        BY ONLY <2>1, Split
  <2> QED
      BY <1>2, <2>2 DEF Sec
<1>3. CASE Nanosec
  <2>1. clock % SECOND \in 0 .. SECOND - 1
        BY Split
  <2>2. nanosec' \in [Stamps -> 0 .. SECOND - 1] /\ readNano' \in [Stamps -> 0 .. CLOCK_MOD - 1]
        BY <1>3, <2>1 DEF Nanosec
  <2>3. at' \in {"sec", "publish"} /\ stamp' \in Stamps
        BY <1>3 DEF Nanosec, AfterStamp
  <2> QED
      BY <1>3, <2>2, <2>3 DEF Nanosec
<1>4. CASE publishIMU
  <2>1. ASSUME NEW x \in Nat, NEW y \in 0 .. SECOND - 1 PROVE SECOND * x + y \in Nat
        BY <2>1
  <2>2. sec["imu"] \in Nat /\ nanosec["imu"] \in 0 .. SECOND - 1
        OBVIOUS
  <2>3. sent' \in Nat
        BY <1>4, <2>1, <2>2 DEF publishIMU, Time
  <2>4. rolled' \in BOOLEAN
        BY <1>4 DEF publishIMU
  <2> QED
      BY <1>4, <2>3, <2>4 DEF publishIMU, fields
<1>5. CASE publishTime
      BY <1>5 DEF publishTime, fields, history
<1>6. CASE Tick
  <2>1. clock' \in 0 .. CLOCK_MOD - 1
        BY <1>6, ClockTick DEF Tick
  <2>2. spent' \in 0 .. SPREAD
        BY <1>6 DEF Tick
  <2>3. rolled' \in BOOLEAN
        BY <1>6 DEF Tick
  <2> QED
      BY <1>6, <2>1, <2>2, <2>3 DEF Tick, fields
<1>7. CASE UNCHANGED vars
      BY <1>7 DEF vars, fields, history
<1> QED
    BY <1>1, <1>2, <1>3, <1>4, <1>5, <1>6, <1>7 DEF Next

\* A stamp reads the clock, and nothing else touches what it has read.
LEMMA ReadStep == Inv /\ [Next]_vars => ReadInv'
<1> SUFFICES ASSUME TypeOK, ReadInv, OpenInv, [Next]_vars PROVE ReadInv'
    BY DEF Inv
<1> USE StampAssumption DEF TypeOK, Stamps
<1>1. CASE timer_callback
      BY <1>1 DEF timer_callback, fields, history, ReadInv
<1>2. CASE Sec
      BY <1>2 DEF Sec, ReadInv
<1>3. CASE Nanosec
  <2>1. readSec[stamp] <= clock => clock - readSec[stamp] <= SPREAD
        BY <1>3 DEF Nanosec, OpenInv, Span
  <2> QED
      BY <1>3, <2>1 DEF Nanosec, ReadInv
<1>4. CASE publishIMU
      BY <1>4 DEF publishIMU, fields, ReadInv
<1>5. CASE publishTime
      BY <1>5 DEF publishTime, fields, history, ReadInv
<1>6. CASE Tick
      BY <1>6 DEF Tick, fields, ReadInv
<1>7. CASE UNCHANGED vars
      BY <1>7 DEF vars, fields, history, ReadInv
<1> QED
    BY <1>1, <1>2, <1>3, <1>4, <1>5, <1>6, <1>7 DEF Next

\* A tick adds one to a span that is shorter than a turn.
LEMMA SpanTick ==
    ASSUME NEW a \in 0 .. CLOCK_MOD - 1, NEW c \in 0 .. CLOCK_MOD - 1,
           NEW t \in 0 .. SPREAD - 1, Span(a, c) <= t,
           NEW d, d = IF c + 1 < CLOCK_MOD THEN c + 1 ELSE 0
    PROVE  Span(a, d) <= t + 1 /\ (a <= d => a <= c /\ c <= d)
BY StampAssumption DEF Span

\* The callback's time bounds the span of the stamp being made.
LEMMA OpenStep == Inv /\ [Next]_vars => OpenInv'
<1> SUFFICES ASSUME TypeOK, OpenInv, [Next]_vars PROVE OpenInv'
    BY DEF Inv
<1> USE StampAssumption DEF TypeOK, Stamps
<1>1. CASE timer_callback
      BY <1>1 DEF timer_callback, OpenInv
<1>2. CASE Sec
      BY <1>2 DEF Sec, OpenInv, Span
<1>3. CASE Nanosec
  <2>1. CASE stamp = "header"
        BY <1>3, <2>1 DEF Nanosec, AfterStamp, OpenInv
  <2>2. CASE stamp # "header"
        BY <1>3, <2>2 DEF Nanosec, AfterStamp, OpenInv, Span
  <2> QED
      BY <2>1, <2>2
<1>4. CASE publishIMU
      BY <1>4 DEF publishIMU, OpenInv
<1>5. CASE publishTime
      BY <1>5 DEF publishTime, OpenInv
<1>6. CASE Tick
  <2>1. CASE at = "wait"
        BY <1>6, <2>1 DEF Tick, OpenInv
  <2>2. CASE at # "wait"
    <3>1. /\ spent < SPREAD /\ spent' = spent + 1 /\ clock' = (clock + 1) % CLOCK_MOD
          /\ at' = at /\ stamp' = stamp /\ readSec' = readSec /\ readNano' = readNano
          BY <1>6, <2>2 DEF Tick
    <3>2. clock' = IF clock + 1 < CLOCK_MOD THEN clock + 1 ELSE 0
          BY <3>1, ClockTick
    <3>3. Span(readSec[stamp], clock) <= spent =>
              /\ Span(readSec[stamp], clock') <= spent + 1
              /\ readSec[stamp] <= clock' => readSec[stamp] <= clock /\ clock <= clock'
      <4>1. readSec[stamp] \in 0 .. CLOCK_MOD - 1 /\ spent \in 0 .. SPREAD - 1
            BY <3>1
      <4> QED
          BY <3>2, <4>1, SpanTick
    <3>4. readNano[stamp] \in Int /\ clock' \in Int
          BY <3>2
    <3> QED
        BY <3>1, <3>3, <3>4 DEF OpenInv
  <2> QED
      BY <2>1, <2>2
<1>7. CASE UNCHANGED vars
      BY <1>7 DEF vars, fields, history, OpenInv
<1> QED
    BY <1>1, <1>2, <1>3, <1>4, <1>5, <1>6, <1>7 DEF Next

\* A published time of the last imu message is not ahead of its second reading.
LEMMA PublishedTime ==
    ASSUME Inv, at = "publish", NEW s \in Stamps, readSec[s] <= readNano[s]
    PROVE  Time(s) \in {readNano[s], readNano[s] - SECOND}
<1>1. /\ readSec[s] \in Nat /\ readNano[s] \in Nat /\ SECOND \in Nat \ {0}
      /\ sec[s] = readSec[s] \div SECOND /\ nanosec[s] = readNano[s] % SECOND
      BY StampAssumption DEF Inv, TypeOK, ReadInv
<1>2. readNano[s] - readSec[s] < SECOND
      BY <1>1, StampAssumption DEF Inv, TypeOK, ReadInv
<1>3. SECOND * (readSec[s] \div SECOND) + (readNano[s] % SECOND)
          \in {readNano[s], readNano[s] - SECOND}
      BY <1>1, <1>2, TornOrNot
<1> QED
    BY <1>1, <1>3 DEF Time

\* An untorn time is that of its second reading.
LEMMA WholeTime ==
    ASSUME Inv, NEW s \in Stamps, ~Torn(s) PROVE Time(s) = readNano[s]
<1>1. /\ readSec[s] \in Nat /\ readNano[s] \in Nat /\ SECOND \in Nat \ {0}
      /\ sec[s] = readSec[s] \div SECOND /\ nanosec[s] = readNano[s] % SECOND
      BY StampAssumption DEF Inv, TypeOK, ReadInv
<1>2. sec[s] = readNano[s] \div SECOND
      BY <1>1 DEF Torn
<1>3. readNano[s] = SECOND * (readNano[s] \div SECOND) + (readNano[s] % SECOND)
      BY ONLY <1>1, Split
<1> QED
    BY <1>1, <1>2, <1>3 DEF Time

\* What was sent stays behind the clock and the next message.
LEMMA SentStep == Inv /\ [Next]_vars => SentInv' /\ NextInv'
<1> SUFFICES ASSUME Inv, [Next]_vars, ~rolled' PROVE SentInv' /\ NextInv'
    BY DEF SentInv, NextInv
<1>1. CASE timer_callback \/ Sec \/ publishTime
  <2>1. UNCHANGED <<clock, sent>> /\ ~rolled /\ at' # "publish"
        BY <1>1 DEF timer_callback, Sec, publishTime, fields, history
  <2> QED
      BY <2>1 DEF Inv, SentInv, NextInv
<1>2. CASE Nanosec
  <2>1. ~rolled /\ UNCHANGED <<clock, sent>>
        BY <1>2 DEF Nanosec
  <2>2. sent <= clock
        BY <2>1 DEF Inv, SentInv
  <2>3. stamp = "imu" => readNano'["imu"] = clock
        BY <1>2 DEF Nanosec, Inv, TypeOK, Stamps
  <2>4. at' = "publish" => stamp' = stamp
        BY <1>2 DEF Nanosec, AfterStamp
  <2> QED
      BY <2>1, <2>2, <2>3, <2>4 DEF SentInv, NextInv
<1>3. CASE publishIMU
  <2>1. /\ at = "publish" /\ stamp = "imu" /\ at' = "sec"
        /\ sent' = Time("imu") /\ clock' = clock /\ rolled' = (clock < readSec["imu"])
        BY <1>3 DEF publishIMU
  <2>2. /\ clock \in Int /\ readSec["imu"] \in Int /\ readNano["imu"] \in Int
        /\ SECOND \in Nat
        BY StampAssumption DEF Inv, TypeOK, Stamps
  <2>3. ~(clock < readSec["imu"])
        BY <2>1
  <2>4. readSec["imu"] <= readNano["imu"] /\ readNano["imu"] <= clock
        BY <2>1, <2>2, <2>3 DEF Inv, OpenInv
  <2>5. Time("imu") \in {readNano["imu"], readNano["imu"] - SECOND}
        BY <2>1, <2>4, PublishedTime DEF Stamps
  <2>6. Time("imu") <= clock
        BY <2>2, <2>4, <2>5
  <2> QED
      BY <2>1, <2>6 DEF SentInv, NextInv
<1>4. CASE Tick
  <2>1. /\ ~rolled /\ clock + 1 # CLOCK_MOD
        /\ clock' = (clock + 1) % CLOCK_MOD /\ UNCHANGED <<at, stamp, readNano, sent>>
        BY <1>4 DEF Tick
  <2>2. /\ clock \in 0 .. CLOCK_MOD - 1 /\ sent \in Nat
        BY DEF Inv, TypeOK
  <2>3. clock' = clock + 1
        BY <2>1, <2>2, ClockTick, StampAssumption
  <2>4. sent <= clock
        BY <2>1 DEF Inv, SentInv
  <2>5. sent' <= clock'
        BY <2>1, <2>2, <2>3, <2>4
  <2> QED
      BY <2>1, <2>5 DEF Inv, SentInv, NextInv
<1>5. CASE UNCHANGED vars
      BY <1>5 DEF vars, fields, history, Inv, SentInv, NextInv
<1> QED
    BY <1>1, <1>2, <1>3, <1>4, <1>5 DEF Next

\* Inv holds of every state the publisher reaches.
THEOREM Invariance == Spec => []Inv
<1>1. Inv /\ [Next]_vars => Inv'
      BY TypeStep, ReadStep, OpenStep, SentStep DEF Inv
<1> QED
    BY Initial, <1>1, PTL DEF Spec

\* The fields of a message stay within their ranges: nanosec below a second.
THEOREM TypeCorrect == Spec => []TypeOK
<1>1. Inv => TypeOK
      BY DEF Inv
<1> QED
    BY Invariance, <1>1, PTL

\* publishTime's two readings of millis() never make a time ahead of the clock.
THEOREM StampsNeverAhead == Spec => []NeverAhead
<1>1. Inv => NeverAhead
      BY PublishedTime DEF NeverAhead
<1> QED
    BY Invariance, <1>1, PTL

\* Imu messages are in order but where a stamp is torn or millis() went round.
THEOREM MessagesInOrder == Spec => []InOrder
<1>1. Inv => InOrder
  <2> SUFFICES ASSUME Inv, at = "publish", stamp = "imu", ~Torn("imu"), ~rolled
               PROVE  sent <= Time("imu")
      BY DEF InOrder
  <2>1. Time("imu") = readNano["imu"]
        BY WholeTime DEF Stamps
  <2> QED
      BY <2>1 DEF Inv, NextInv
<1> QED
    BY Invariance, <1>1, PTL

=============================================================================
