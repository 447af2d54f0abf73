-------------------------------- MODULE MCTimer -------------------------------
(* The intervals of config.h.                                            *)
EXTENDS TimerSchedule, Sequences

ConfigIntervals ==
  <<3, 1800, 0, 10, 5, 3600, 14400, 5, 5, 14400, 300, 300, 60, 0, 0, 0, 30>>

ConfigInterval == [b \in Blocks |-> ConfigIntervals[b + 1]]

MCSignal == [b \in Blocks |-> 0]
===============================================================================
