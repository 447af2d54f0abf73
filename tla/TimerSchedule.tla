----------------------------- MODULE TimerSchedule ----------------------------
(***************************************************************************)
(* The seconds at which the timer makes blocks run, when every alarm is    *)
(* handled at once: the sequence of trigger_event() calls, with a clock.   *)
(***************************************************************************)
EXTENDS Timer

CONSTANT MaxElapsed  \* bound: how many seconds a behaviour lasts

VARIABLE elapsed  \* history: seconds from the first event to the coming one

scheduleVars == <<timer, alarm, elapsed>>

Init ==
  /\ TimerInit
  /\ elapsed = 0

\* Only before the first event: timer_arm() leaves time below reset_value.
FirstEvent == timer.time = timer.reset_value

\* trigger_event(): the due blocks are executed and the timer is armed; tick
\* seconds later the alarm goes off and causes the next call.
trigger_event ==
  /\ elapsed <= MaxElapsed
  /\ FirstEvent \/ alarm
  /\ timer_arm
  /\ elapsed' = elapsed + timer.tick

\* There is no further event: all intervals are 0, or the bound is reached.
Quiet ==
  /\ elapsed > MaxElapsed \/ ~(FirstEvent \/ alarm)
  /\ UNCHANGED scheduleVars

Next == trigger_event \/ Quiet

Spec == Init /\ [][Next]_scheduleVars

-------------------------------------------------------------------------------
\* The longest interval is a multiple of all others.  This is so for the
\* intervals of config.h; nothing in the program checks it.
Regular ==
  \A b \in Blocks : interval[b] > 0 => compute_reset_value % interval[b] = 0

\* "Time in seconds, after which you want the block to update" (README,
\* interval): an event finds a block due exactly when a whole number of its
\* intervals has passed; the first event finds all due.  In particular a block
\* with interval 0 is never due again.
OnInterval ==
  FirstEvent \/ alarm =>
    \A b \in Blocks :
      timer_must_run_block(b) <=>
        (elapsed = 0 \/ (interval[b] > 0 /\ elapsed % interval[b] = 0))

\* OnInterval, where the program can keep it.
ScheduleExact == Regular => OnInterval

\* No due time is passed over: the coming event is never later than the next multiple
\* of any interval, and while there is an interval there is a coming event.
NoneSkipped ==
  [][\A b \in Blocks :
       interval[b] > 0 =>
         alarm' /\ elapsed' <= elapsed + interval[b] - (elapsed % interval[b])]_scheduleVars

TypeOK ==
  /\ timer \in [time : 0 .. compute_reset_value,
                tick : {compute_tick}, reset_value : {compute_reset_value}]
  /\ alarm \in BOOLEAN
  /\ elapsed \in Nat
===============================================================================
