-------------------------------- MODULE Timer ---------------------------------
(***************************************************************************)
(* The timer (timer.c): one alarm(2) that goes off every tick seconds, and *)
(* a counter of seconds from which it is told which blocks are due.        *)
(***************************************************************************)
EXTENDS Config, FiniteSetsExt, Util

CONSTANT UIntMax  \* the largest unsigned int

VARIABLES
  timer,  \* the timer structure: time, tick and reset_value
  alarm   \* whether an alarm(2) is scheduled

timerVars == <<timer, alarm>>

\* Mutant of compute_tick: the shortest interval that is not 0.
compute_tick_shortest ==
  Min({interval[b] : b \in {c \in Blocks : interval[c] > 0}})

\* The greatest common divisor of all intervals; 0 when all of them are 0.
compute_tick ==
  LET tick[n \in 0 .. BLOCK_COUNT] ==
        IF n = 0 THEN 0 ELSE gcd[<<interval[n - 1], tick[n - 1]>>]
  IN  tick[BLOCK_COUNT]

\* The longest interval, at least 1.
compute_reset_value == Max({1} \cup {interval[b] : b \in Blocks})

timer_new == [time |-> compute_reset_value,
              tick |-> compute_tick,
              reset_value |-> compute_reset_value]

\* What the sums of timer.c need to stay below 2^32: the start value is the
\* largest value that time ever has.
ASSUME TimerAssumption ==
  /\ UIntMax \in Nat
  /\ compute_reset_value + compute_tick <= UIntMax

TimerInit == timer = timer_new /\ alarm = FALSE

\* Mutant of timer_arm: time is wrapped as the comment of timer_arm() says.
timer_arm_above_zero ==
  /\ alarm' = (timer.tick > 0)
  /\ timer' = [timer EXCEPT !.time =
                 1 + ((@ + timer.tick - 1) % timer.reset_value)]

\* Mutant of timer_arm: time is not wrapped.
timer_arm_unwrapped ==
  /\ alarm' = (timer.tick > 0)
  /\ timer' = [timer EXCEPT !.time = @ + timer.tick]

\* alarm(0) cancels instead of scheduling.
timer_arm ==
  /\ alarm' = (timer.tick > 0)
  /\ timer' = [timer EXCEPT !.time =
                 ((@ + timer.tick) % (UIntMax + 1)) % timer.reset_value]

\* What execute_blocks() asks on a timer event.
timer_must_run_block(b) ==
  \/ timer.time = timer.reset_value
  \/ interval[b] > 0 /\ timer.time % interval[b] = 0
===============================================================================
