------------------------------ MODULE AsyncBlock ------------------------------
(***************************************************************************)
(* What asynchronous blocks promise, without processes and pipes: a run of *)
(* a block starts when none is in progress and ends at some later time;    *)
(* when it ends the block's output becomes something its source reported   *)
(* between the start and the end of that run, or stays what it was.        *)
(***************************************************************************)
EXTENDS Config

CONSTANT MaxVersion  \* bound: how often the source of a block may change

VARIABLES
  source,   \* version of what each block reports
  since,    \* the source's version when the block's last run started
  running,  \* the blocks with a run in progress
  output    \* the version each block shows, -1 for nothing

vars == <<source, since, running, output>>

TypeOK ==
  /\ source \in [Blocks -> 0 .. MaxVersion]
  /\ since \in [Blocks -> 0 .. MaxVersion]
  /\ running \in SUBSET Blocks
  /\ output \in [Blocks -> -1 .. MaxVersion]

Init ==
  /\ source = [b \in Blocks |-> 0]
  /\ since = [b \in Blocks |-> 0]
  /\ running = {}
  /\ output = [b \in Blocks |-> -1]

Start(b) ==
  /\ b \notin running
  /\ running' = running \cup {b}
  /\ since' = [since EXCEPT ![b] = source[b]]
  /\ UNCHANGED <<source, output>>

Succeed(b) ==
  /\ b \in running
  /\ running' = running \ {b}
  /\ \E v \in since[b] .. source[b] : output' = [output EXCEPT ![b] = v]
  /\ UNCHANGED <<source, since>>

Fail(b) ==
  /\ b \in running
  /\ running' = running \ {b}
  /\ UNCHANGED <<source, since, output>>

Change(b) ==
  /\ source[b] < MaxVersion
  /\ source' = [source EXCEPT ![b] = @ + 1]
  /\ UNCHANGED <<since, running, output>>

Next == \E b \in Blocks : Start(b) \/ Succeed(b) \/ Fail(b) \/ Change(b)

Spec == Init /\ [][Next]_vars

-------------------------------------------------------------------------------
\* What a block shows has been reported by its source, and before the run in
\* progress was started.
Reported ==
  \A b \in Blocks : /\ output[b] <= source[b]
                    /\ since[b] <= source[b]
                    /\ b \in running => output[b] <= since[b]

\* A block never goes back to showing something older than what it showed.
NeverGoesBack == [][\A b \in Blocks : output[b] <= output'[b]]_vars
===============================================================================
