----------------------------- MODULE BarFunction ------------------------------
(***************************************************************************)
(* What the commands of the blocks (bar-functions/) have in common: each   *)
(* is started by the bar, goes through steps in which it reads or changes  *)
(* something outside, and ends with one line.  The bar is BlockSlot; the   *)
(* user clicks on the block at any time.                                   *)
(***************************************************************************)
EXTENDS BlockSlot, Integers

CONSTANTS Faults,    \* what may go wrong, or be done by others, in a run
          MaxEvents  \* bound: how often the block is clicked and things change

ASSUME BarFunctionAssumption ==
  /\ Buttons \subseteq 1 .. 5
  /\ MaxEvents \in Nat
  /\ Failure # Nothing

VARIABLES
  at,     \* the next step of the command, "idle" when there is none
  events  \* history: how often the block was clicked and things changed

barVars == <<slotVars, at, events>>

FunctionTypeOK(Texts, Steps) ==
  /\ SlotTypeOK(Texts)
  /\ at \in Steps \cup {"idle", "begin"}
  /\ events \in 0 .. MaxEvents

\* The steps of the command.

Running(step) == running /\ ~finished /\ at = step

Goes(step) ==
  /\ at' = step
  /\ UNCHANGED <<slotVars, events>>

Ends(text) ==
  /\ at' = "idle"
  /\ Finish(text)
  /\ UNCHANGED <<requests, running, button, shown, events>>

\* It signals its own block.
Signals ==
  /\ Request(NoButton)
  /\ UNCHANGED <<running, button, finished, printed, shown, events>>

\* The steps of the bar and of the user.

Serves ==
  /\ Serve
  /\ at' = "begin"
  /\ UNCHANGED events

TimedRuns ==
  /\ TimedRun
  /\ at' = "begin"
  /\ UNCHANGED events

Drops == DropBusy /\ UNCHANGED <<at, events>>

Collects == Collect /\ UNCHANGED <<at, events>>

Happens ==
  /\ events < MaxEvents
  /\ events' = events + 1

\* SIGUSR1 makes the bar run all blocks.
Refreshes ==
  /\ Happens
  /\ TimedRun
  /\ at' = "begin"

Clicks(used) ==
  /\ Happens
  /\ \E btn \in used : SlotRequest(btn)
  /\ UNCHANGED at
===============================================================================
