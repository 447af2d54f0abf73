------------------------------- MODULE MCBlock --------------------------------
(* Two blocks, configured alike; Block does not look at interval or signal. *)
EXTENDS Block, TLC

MCInterval == [b \in Blocks |-> 1]
MCSignal == [b \in Blocks |-> 0]

AllFaults == {"fork", "command", "kill", "sigchld_ignored"}

PidSymmetry == Permutations(Pids)
===============================================================================
