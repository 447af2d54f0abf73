-------------------------------- MODULE Config --------------------------------
(***************************************************************************)
(* The compile-time configuration of dwmblocks (config.h, main.h): how     *)
(* many blocks the bar has and, for each of them, the update interval and  *)
(* the update signal of its X(icon, command, interval, signal) line.  Icon *)
(* and command are text; a block is known here by its index.               *)
(***************************************************************************)
EXTENDS Integers

CONSTANTS BLOCK_COUNT,  \* number of X(...) lines
          interval,     \* interval[b]: seconds between updates, 0 for "never"
          signal        \* signal[b]: offset from SIGRTMIN, 0 for "no signal"

Blocks == 0 .. BLOCK_COUNT - 1

\* Not the index of a block.
NoBlock == -1

ASSUME ConfigAssumption ==
  /\ BLOCK_COUNT \in Nat \ {0}
  /\ interval \in [Blocks -> Nat]
  /\ signal \in [Blocks -> Nat]
===============================================================================
