-------------------------- MODULE TimerScheduleProofs -------------------------
(***************************************************************************)
(* The timer keeps the intervals, for every configuration in which no sum  *)
(* overflows; one of the theorems also needs that the longest interval is  *)
(* a multiple of the others.                                               *)
(***************************************************************************)
EXTENDS TimerSchedule, UtilProofs

\* Division with remainder: a number is the quotient times the divisor and the
\* remainder, and there is no other remainder.
LEMMA Division ==
  ASSUME NEW r \in Nat \ {0}, NEW a \in Int
  PROVE  /\ a \div r \in Int
         /\ a = (a \div r) * r + (a % r)
         /\ a % r \in 0 .. r - 1
BY Z3

LEMMA Remainder ==
  ASSUME NEW r \in Nat \ {0}, NEW q \in Int, NEW m \in 0 .. r - 1
  PROVE  (q * r + m) % r = m
BY Z3

LEMMA Small ==
  ASSUME NEW r \in Nat \ {0}, NEW a \in 0 .. r - 1
  PROVE  a % r = a
BY Z3

LEMMA Regroup ==
  ASSUME NEW q \in Int, NEW j \in Int, NEW k \in Int, NEW i \in Int, NEW s \in Int
  PROVE  q * (j * k) + (i * k + s) = (q * j + i) * k + s
BY Z3

\* Adding to a remainder or to the number gives the same remainder.
LEMMA ModAdd ==
  ASSUME NEW r \in Nat \ {0}, NEW a \in Nat, NEW t \in Nat
  PROVE  ((a % r) + t) % r = (a + t) % r
<1> DEFINE q == a \div r
           n == (a % r) + t
           p == n \div r
<1>1. a = q * r + (a % r) /\ q \in Int /\ a % r \in 0 .. r - 1
  BY Division
<1>2. n \in Int
  BY <1>1
<1>3. n = p * r + (n % r) /\ p \in Int /\ n % r \in 0 .. r - 1
  BY <1>2, Division
<1>4. a + t = (q + p) * r + (n % r)
  <2> HIDE DEF p, q
  <2>1. a + t = q * r + n
    BY <1>1
  <2>2. (q + p) * r = q * r + p * r
    BY <1>1, <1>3
  <2> QED
    BY <1>1, <1>3, <2>1, <2>2
<1>5. ((q + p) * r + (n % r)) % r = n % r
  <2> HIDE DEF p, q, n
  <2>1. q + p \in Int
    BY <1>1, <1>3
  <2> QED
    BY <1>3, <2>1, Remainder
<1> QED
  BY <1>4, <1>5

\* A remainder modulo a multiple of k has the same remainder modulo k.
LEMMA ModMod ==
  ASSUME NEW r \in Nat \ {0}, NEW k \in Nat \ {0}, NEW a \in Nat, r % k = 0
  PROVE  (a % r) % k = a % k
<1> DEFINE q == a \div r
           m == a % r
           j == r \div k
           i == m \div k
<1>1. a = q * r + m /\ q \in Int /\ m \in 0 .. r - 1
  BY Division
<1>2. r = j * k /\ j \in Int
  BY Division
<1>3. m = i * k + (m % k) /\ i \in Int /\ m % k \in 0 .. k - 1
  BY <1>1, Division
<1>4. q * (j * k) + (i * k + (m % k)) = (q * j + i) * k + (m % k)
  <2> HIDE DEF q, j, i, m
  <2> QED
    BY <1>1, <1>2, <1>3, Regroup
<1>5. a = (q * j + i) * k + (m % k)
  <2> HIDE DEF q, j, i, m
  <2> QED
    BY <1>1, <1>2, <1>3, <1>4
<1>6. ((q * j + i) * k + (m % k)) % k = m % k
  <2> HIDE DEF q, i, j, m
  <2>1. q * j + i \in Int
    BY <1>1, <1>2, <1>3
  <2> QED
    BY <1>3, <2>1, Remainder
<1> QED
  BY <1>5, <1>6

-------------------------------------------------------------------------------
(* The numbers of the timer.                                               *)

\* The tick is the greatest common divisor of all intervals: what divides it are the
\* numbers that divide every interval.
LEMMA TickIsCommon ==
  /\ compute_tick \in Nat
  /\ Divisors(compute_tick) = {d \in Nat : \A b \in Blocks : d \in Divisors(interval[b])}
BY ConfigAssumption, GcdOfAll DEF compute_tick, Blocks

\* The counter wraps at a positive number that no interval exceeds.
LEMMA LongestInterval ==
  /\ compute_reset_value \in Nat \ {0}
  /\ \A b \in Blocks : interval[b] <= compute_reset_value
BY ConfigAssumption, GreatestOfAll DEF compute_reset_value, Blocks

-------------------------------------------------------------------------------
\* After the first event the counter is the elapsed time modulo the longest
\* interval.
TimeIsElapsed ==
  \/ FirstEvent /\ elapsed = 0 /\ ~alarm
  \/ timer.time = elapsed % compute_reset_value /\ (alarm => elapsed > 0)

\* All events are a whole number of ticks after the first.
OnTick == compute_tick \in Divisors(elapsed)

IInv == TypeOK /\ TimeIsElapsed /\ OnTick

LEMMA InitIInv == Init => IInv
<1> SUFFICES ASSUME Init PROVE IInv
  OBVIOUS
<1> USE LongestInterval, TickIsCommon DEF Init, TimerInit, timer_new
<1>1. timer.time = compute_reset_value /\ timer.reset_value = compute_reset_value
  OBVIOUS
<1>2. TypeOK
  <2>1. compute_reset_value \in 0 .. compute_reset_value
    OBVIOUS
  <2> QED
    BY <2>1 DEF TypeOK
<1>3. TimeIsElapsed
  BY <1>1 DEF TimeIsElapsed, FirstEvent
<1>4. OnTick
  BY AllDivideZero DEF OnTick
<1> QED
  BY <1>2, <1>3, <1>4 DEF IInv

\* trigger_event() keeps the counter in step with the clock: no sum wraps.
LEMMA TriggerIInv ==
  ASSUME IInv, trigger_event PROVE IInv'
<1> DEFINE r == compute_reset_value
           t == compute_tick
<1>1. /\ r \in Nat \ {0} /\ t \in Nat /\ UIntMax \in Nat /\ r + t <= UIntMax
      /\ timer.time \in 0 .. r /\ timer.tick = t /\ timer.reset_value = r
      /\ elapsed \in Nat
  BY TimerAssumption, LongestInterval, TickIsCommon DEF IInv, TypeOK
<1> HIDE DEF r, t
<1>2. timer' = [timer EXCEPT !.time = (timer.time + t) % r]
  <2>1. (timer.time + t) % (UIntMax + 1) = timer.time + t
    <3>1. timer.time + t \in 0 .. UIntMax
      BY <1>1
    <3>2. UIntMax + 1 \in Nat \ {0} /\ timer.time + t \in 0 .. (UIntMax + 1) - 1
      BY <1>1, <3>1
    <3> QED
      BY <3>2, Small
  <2> QED
    BY <1>1, <2>1 DEF trigger_event, timer_arm
<1>3. (timer.time + t) % r \in 0 .. r - 1
  <2>1. timer.time + t \in Int
    BY <1>1
  <2> QED
    BY <1>1, <2>1, Division
<1>4. /\ timer'.time = (timer.time + t) % r
      /\ elapsed' = elapsed + t
      /\ alarm' = (t > 0)
  BY <1>1, <1>2 DEF trigger_event, timer_arm, IInv, TypeOK
<1>5. TypeOK'
  BY <1>1, <1>2, <1>3, <1>4 DEF IInv, TypeOK, r, t
<1>6. (timer.time + t) % r = (elapsed + t) % r
  <2>1. CASE FirstEvent /\ elapsed = 0
    <3>1. t % r \in 0 .. r - 1 /\ t \div r \in Int /\ t = (t \div r) * r + (t % r)
      BY <1>1, Division
    <3>2. r + t = ((t \div r) + 1) * r + (t % r)
      <4> DEFINE q == t \div r
      <4>1. (q + 1) * r = q * r + r
        <5> HIDE DEF q
        <5> QED
          BY <1>1, <3>1 DEF q
      <4> QED
        BY <1>1, <3>1, <4>1
    <3>3. (((t \div r) + 1) * r + (t % r)) % r = t % r
      <4>1. (t \div r) + 1 \in Int
        BY <3>1
      <4> QED
        BY <1>1, <3>1, <4>1, Remainder
    <3> QED
      BY <1>1, <2>1, <3>2, <3>3 DEF FirstEvent
  <2>2. CASE timer.time = elapsed % r
    <3>1. ((elapsed % r) + t) % r = (elapsed + t) % r
      BY <1>1, ModAdd
    <3> QED
      BY <2>2, <3>1
  <2>3. (FirstEvent /\ elapsed = 0) \/ timer.time = elapsed % r
    BY DEF IInv, TimeIsElapsed, r
  <2> QED
    BY <2>1, <2>2, <2>3
<1>7. alarm' => elapsed' > 0
  <2>1. alarm' => t > 0
    BY <1>4, Zenon
  <2> QED
    BY <1>1, <1>4, <2>1
<1>8. OnTick'
  <2>1. PICK q \in Int : elapsed = q * t
    BY DEF IInv, OnTick, Divisors, t
  <2>2. elapsed + t = (q + 1) * t
    BY <1>1, <2>1, Z3
  <2>3. q + 1 \in Int
    OBVIOUS
  <2> QED
    BY <1>1, <1>4, <2>2, <2>3 DEF OnTick, Divisors, t
<1> QED
  BY <1>4, <1>5, <1>6, <1>7, <1>8 DEF IInv, TimeIsElapsed, r

LEMMA TimerInvariant == Spec => []IInv
<1>1. IInv /\ [Next]_scheduleVars => IInv'
  <2> SUFFICES ASSUME IInv, [Next]_scheduleVars PROVE IInv'
    OBVIOUS
  <2>1. CASE trigger_event
    BY <2>1, TriggerIInv
  <2>2. CASE UNCHANGED scheduleVars
    BY <2>2 DEF scheduleVars, IInv, TypeOK, TimeIsElapsed, FirstEvent, OnTick
  <2> QED
    BY <2>1, <2>2 DEF Next, Quiet
<1> QED
  BY <1>1, InitIInv, PTL DEF Spec

\* The timer and the clock always have their types; the counter stays within
\* the longest interval.
THEOREM TimerTypeCorrect == Spec => []TypeOK
BY TimerInvariant, PTL DEF IInv

\* What the program does whatever the intervals are: within each round of the
\* counter, which lasts as long as the longest interval, an event finds a block
\* due exactly when a whole number of its intervals has passed since the counter
\* was last 0.
OnIntervalOfRound ==
  FirstEvent \/ alarm =>
    \A b \in Blocks :
      timer_must_run_block(b) <=>
        \/ elapsed = 0
        \/ interval[b] > 0 /\ (elapsed % compute_reset_value) % interval[b] = 0

\* Every event finds blocks due by the time since the last wrap of the counter,
\* for all intervals: the condition Regular is only there for the wrap.
THEOREM ScheduleOfRound == Spec => []OnIntervalOfRound
<1>1. IInv => OnIntervalOfRound
  <2> SUFFICES ASSUME IInv, FirstEvent \/ alarm, NEW b \in Blocks
               PROVE  timer_must_run_block(b) <=>
                        \/ elapsed = 0
                        \/ /\ interval[b] > 0
                           /\ (elapsed % compute_reset_value) % interval[b] = 0
    BY DEF OnIntervalOfRound
  <2>1. /\ compute_reset_value \in Nat \ {0} /\ elapsed \in Nat
        /\ timer.reset_value = compute_reset_value
        /\ interval[b] \in Nat
    BY LongestInterval, ConfigAssumption DEF IInv, TypeOK
  <2>2. CASE elapsed = 0
    BY <2>1, <2>2 DEF IInv, TimeIsElapsed, FirstEvent, timer_must_run_block
  <2>3. CASE elapsed > 0
    <3>1. timer.time = elapsed % compute_reset_value
      BY <2>3 DEF IInv, TimeIsElapsed
    <3>2. timer.time # timer.reset_value
      BY <2>1, <3>1, Division
    <3> QED
      BY <2>3, <3>1, <3>2 DEF timer_must_run_block
  <2> QED
    BY <2>1, <2>2, <2>3
<1> QED
  BY <1>1, TimerInvariant, PTL

\* Events find blocks due exactly when their interval says so, if the longest
\* interval is a multiple of theirs.
THEOREM Schedule == Spec => []ScheduleExact
<1>1. IInv /\ OnIntervalOfRound => ScheduleExact
  <2> SUFFICES ASSUME IInv, OnIntervalOfRound, Regular, FirstEvent \/ alarm,
                      NEW b \in Blocks
               PROVE  timer_must_run_block(b) <=>
                        (elapsed = 0 \/ (interval[b] > 0 /\ elapsed % interval[b] = 0))
    BY DEF ScheduleExact, OnInterval
  <2>1. compute_reset_value \in Nat \ {0} /\ elapsed \in Nat /\ interval[b] \in Nat
    BY LongestInterval, ConfigAssumption DEF IInv, TypeOK
  <2>2. ASSUME interval[b] > 0
        PROVE  (elapsed % compute_reset_value) % interval[b] = elapsed % interval[b]
    <3>1. compute_reset_value % interval[b] = 0
      BY <2>2, Zenon DEF Regular
    <3>2. interval[b] \in Nat \ {0}
      BY <2>1, <2>2
    <3> QED
      BY <2>1, <3>1, <3>2, ModMod, Zenon
  <2> QED
    BY <2>2 DEF OnIntervalOfRound
<1> QED
  BY <1>1, TimerInvariant, ScheduleOfRound, PTL

\* Of two multiples of a number the greater is greater by that number at least.
LEMMA NextMultiple ==
  ASSUME NEW t \in Nat, NEW m \in Int, NEW n \in Int, m * t < n * t
  PROVE  m * t + t <= n * t
<1>1. m < n
  <2>1. ASSUME n <= m PROVE n * t <= m * t
    <3>1. (m - n) * t >= 0
      BY <2>1, Z3
    <3>2. (m - n) * t = m * t - n * t
      BY Z3
    <3> QED
      BY <3>1, <3>2
  <2> QED
    BY <2>1
<1>2. (n - m - 1) * t >= 0
  <2>1. n - m - 1 \in Nat
    BY <1>1
  <2> QED
    BY <2>1, Z3
<1>3. (n - m - 1) * t = n * t - m * t - t
  BY Z3
<1> QED
  BY <1>2, <1>3

\* The tick divides every interval, so that every multiple of an interval is a whole
\* number of ticks after the first event.
LEMMA EventComesInTime ==
  ASSUME IInv, trigger_event, NEW b \in Blocks, interval[b] > 0
  PROVE  alarm' /\ elapsed' <= elapsed + interval[b] - (elapsed % interval[b])
<1> DEFINE t == compute_tick
           i == interval[b]
           r == elapsed % i
           w == elapsed \div i
<1>1. t \in Nat /\ i \in Nat \ {0} /\ elapsed \in Nat
  BY TickIsCommon, ConfigAssumption DEF IInv, TypeOK
<1>2. PICK p \in Int : i = p * t
  <2>1. t \in Divisors(t)
    <3>1. t = 1 * t
      BY <1>1
    <3> QED
      BY <1>1, <3>1 DEF Divisors
  <2>2. t \in Divisors(i)
    BY <2>1, TickIsCommon
  <2> QED
    BY <2>2 DEF Divisors
<1>3. PICK q \in Int : elapsed = q * t
  BY DEF IInv, OnTick, Divisors
<1>4. t > 0
  <2>1. t # 0
    BY <1>1, <1>2, Z3
  <2> QED
    BY <1>1, <2>1
<1>5. r \in 0 .. i - 1 /\ w \in Int /\ elapsed = w * i + r
  <2> HIDE DEF i, t
  <2>1. elapsed \in Int
    BY <1>1
  <2> QED
    BY <1>1, <2>1, Division
<1> HIDE DEF r, w
<1>6. elapsed + i - r = (w * p + p) * t
  <2>1. elapsed + i - r = w * i + i
    BY <1>1, <1>5
  <2>2. w * (p * t) + p * t = (w * p + p) * t
    BY <1>1, <1>5, Z3
  <2> HIDE DEF i, t
  <2> QED
    BY <1>2, <2>1, <2>2
<1>7. elapsed < elapsed + i - r
  BY <1>1, <1>5
<1>8. q * t + t <= (w * p + p) * t
  <2>1. w * p + p \in Int
    BY <1>5
  <2>2. q * t < (w * p + p) * t
    <3> HIDE DEF i, t
    <3> QED
      BY <1>3, <1>6, <1>7
  <2> HIDE DEF t
  <2> QED
    BY <1>1, <2>1, <2>2, NextMultiple
<1>9. elapsed' = elapsed + t /\ alarm' = (t > 0)
  BY DEF trigger_event, timer_arm, IInv, TypeOK
<1>10. alarm'
  BY <1>4, <1>9
<1>11. elapsed' <= elapsed + i - r
  <2> HIDE DEF i, t
  <2> QED
    BY <1>3, <1>6, <1>8, <1>9
<1> QED
  BY <1>10, <1>11 DEF r

\* No event comes later than the time at which a block is due next, for all intervals
\* whatsoever: compute_tick() returns a divisor of each.
THEOREM EventsInTime == Spec => NoneSkipped
<1>1. ASSUME IInv, [Next]_scheduleVars
      PROVE  [\A b \in Blocks :
                interval[b] > 0 =>
                  alarm' /\ elapsed' <= elapsed + interval[b] - (elapsed % interval[b])
             ]_scheduleVars
  <2>1. CASE trigger_event
    BY <1>1, <2>1, EventComesInTime
  <2>2. CASE UNCHANGED scheduleVars
    BY <2>2
  <2> QED
    BY <1>1, <2>1, <2>2 DEF Next, Quiet
<1> QED
  BY <1>1, TimerInvariant, PTL DEF Spec, NoneSkipped
===============================================================================
