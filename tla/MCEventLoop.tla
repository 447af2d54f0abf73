----------------------------- MODULE MCEventLoop ------------------------------
(* Blocks with a signal each: MCInterval has the first untimed, the second *)
(* timed, MCTimed all of them timed.                                       *)
EXTENDS EventLoop, TLC

MCInterval == [b \in Blocks |-> b]
MCTimed == [b \in Blocks |-> b + 1]
MCSignal == [b \in Blocks |-> b + 1]

OneBlock == {35}
RefreshAndBlock == {10, 35}
Terminations == {2, 10, 15, 35}

OuterFaults == {"startup", "fork", "command", "poll", "read", "x11", "close"}
CommandFaults == {"fork", "command"}
NoFaults == {}
Kill == {"kill"}

PidSymmetry == Permutations(Pids)

\* All variables but since: it is a history variable, which no guard of the event
\* loop and of block.c reads, and no property of the runs with this view
\* compares it with anything.  States that differ in since alone have the same steps.
AllButHistory ==
  <<loopVars, timerVars, pending, source, fork_pid, pipe, output, child, updating,
    buffer, sigchld_ignored>>
===============================================================================
