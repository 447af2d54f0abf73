------------------------------- MODULE Watcher --------------------------------
(***************************************************************************)
(* The watcher (watcher.c): the descriptors that poll() looks at, one per  *)
(* block and one for the signals, and the array of active blocks that it   *)
(* hands to the event loop.  The length of that array is not counted but   *)
(* computed from what poll() returned, which counts the signals, too.      *)
(***************************************************************************)
EXTENDS Config, Sequences, FiniteSets

VARIABLES
  active_blocks,      \* watcher->active_blocks, as far as it has been written
  active_block_count  \* watcher->active_block_count

watcherVars == <<active_blocks, active_block_count>>

\* watcher->fds: the pipes of the blocks in their order, then the signals.
SIGNAL_FD == BLOCK_COUNT
FdIndices == 0 .. SIGNAL_FD

WatcherTypeOK ==
  /\ active_blocks \in Seq(Blocks)
  /\ Len(active_blocks) <= BLOCK_COUNT
  /\ active_block_count \in 0 .. BLOCK_COUNT

\* What an earlier round has left in the array is never used.
NothingActive == <<>>

WatcherInit ==
  /\ active_blocks = NothingActive
  /\ active_block_count = 0

got_signal(readable) == SIGNAL_FD \in readable

\* The readable pipes in the order of the blocks: the place of a block in the
\* array is the number of readable pipes up to its own.
ScanPipes(readable) ==
  LET active == readable \ {SIGNAL_FD}
      Place(b) == Cardinality({c \in active : c <= b})
  IN  [n \in 1 .. Cardinality(active) |-> CHOOSE b \in active : Place(b) = n]

\* Mutant of watcher_poll: the descriptor of the signals counts as a block.
watcher_poll_all(readable) ==
  /\ readable # {}
  /\ active_blocks' = ScanPipes(readable)
  /\ active_block_count' = Cardinality(readable)

\* watcher_poll() without a timeout, with the set of readable descriptors.  The
\* array ends at the number of events at the latest, which all pipes fit in.
watcher_poll(readable) ==
  /\ readable # {}
  /\ active_blocks' = ScanPipes(readable)
  /\ active_block_count' =
       Cardinality(readable) - (IF got_signal(readable) THEN 1 ELSE 0)

WatcherReset ==
  /\ active_blocks' = NothingActive
  /\ active_block_count' = 0
===============================================================================
