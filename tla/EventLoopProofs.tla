--------------------------- MODULE EventLoopProofs ----------------------------
(***************************************************************************)
(* Proofs about EventLoop, for every number of blocks, intervals and       *)
(* signals, every number of processes and pending signals and every        *)
(* combination of faults.  What the loop relies on in block.c comes from   *)
(* BlockProofs.                                                            *)
(***************************************************************************)
EXTENDS EventLoop, BlockProofs, UtilProofs

\* A signal is being handled from its dispatch to the end of its handler.
Handling ==
  /\ pc = "dispatch" => info \in Handled
  /\ pc = "timer" => info = TIMER_SIGNAL
  /\ pc = "refresh" => info = REFRESH_SIGNAL
  /\ pc \notin {"dispatch", "timer", "refresh"} => info = NoSignal
  /\ pc = "signal" => SignalsPending # {}

\* The loop variable starts at 0 wherever it is used.
CursorAtRest == ~Executing /\ pc # "update" => cursor = 0

\* The array of active blocks is as long as its separate length says, holds no
\* block twice, and is empty between the rounds.
ActiveBlocks ==
  /\ Len(active_blocks) = active_block_count
  /\ \A i, k \in 1 .. active_block_count : i # k => active_blocks[i] # active_blocks[k]
  /\ pc \notin {"signal", "dispatch", "timer", "refresh", "update"}
       => active_block_count = 0
  /\ pc = "update" => cursor <= active_block_count

\* block_update() is only ever in progress for the active block at the cursor.
UpdatingActive ==
  updating # NoBlock => Updating /\ updating = NextActive

\* The active blocks that have not been updated yet in this round.
ToUpdate ==
  (IF pc = "update" THEN cursor + (IF updating = NoBlock THEN 1 ELSE 2) ELSE 1)
    .. active_block_count

PipesWaiting == \A i \in ToUpdate : pipe[active_blocks[i]] # <<>>

\* The X root window has the outputs of the last status, unless the write of
\* that status failed, which ends the program.
RootIsCurrent ==
  pc \notin {"cleanup", "exited"} =>
    root = IF \A b \in Blocks : current[b] = Empty THEN Unset ELSE current

\* The outputs differ from the last status only while a round brings them up to
\* date, and then they are newer.
OutputIsNewer ==
  /\ pc \in {"start", "kickstart", "poll", "signal", "dispatch", "timer", "refresh"}
       => output = current
  /\ \A b \in Blocks : current[b] <= output[b]

LoopInv ==
  /\ LoopTypeOK
  /\ IInv
  /\ Async!Reported
  /\ Handling
  /\ CursorAtRest
  /\ ActiveBlocks
  /\ UpdatingActive
  /\ PipesWaiting
  /\ RootIsCurrent
  /\ OutputIsNewer

-------------------------------------------------------------------------------
(* Numbers, minima and the array of active blocks.                         *)

\* A nonempty set of natural numbers has a least element, and Min chooses it.
LEMMA MinOfNat ==
  ASSUME NEW S, S \subseteq Nat, S # {}
  PROVE  Min(S) \in S /\ \A n \in S : Min(S) <= n
<1> DEFINE R == OpToRel(<, Nat)
<1>1. IsWellFoundedOn(R, Nat)
  BY NatLessThanWellFounded
<1>2. PICK m \in S : \A n \in S : ~(<<n, m>> \in R)
  <2> HIDE DEF R
  <2> QED
    BY <1>1, WFMin
<1>3. \A n \in S : ~(n < m)
  BY <1>2 DEF OpToRel
<1>4. \A n \in S : m <= n
  BY <1>3
<1> QED
  BY <1>4 DEF Min

LEMMA ModRange ==
  ASSUME NEW a \in Nat, NEW r \in Nat \ {0}
  PROVE  a % r \in 0 .. r - 1
BY Z3

\* What watcher_poll() writes into the array of active blocks: every readable
\* pipe once, and nothing else.
LEMMA ScanPipesActive ==
  ASSUME NEW readable \in SUBSET FdIndices
  PROVE  LET active == readable \ {SIGNAL_FD}
             scan == ScanPipes(readable)
         IN  /\ Cardinality(active) \in 0 .. BLOCK_COUNT
             /\ scan \in Seq(active)
             /\ Len(scan) = Cardinality(active)
             /\ \A i, k \in 1 .. Len(scan) : i # k => scan[i] # scan[k]
<1> DEFINE active == readable \ {SIGNAL_FD}
           Place(b) == Cardinality({c \in active : c <= b})
           N == Cardinality(active)
           place == [b \in active |-> Place(b)]
           scan == ScanPipes(readable)
<1> HIDE DEF active
<1>1. active \in SUBSET Blocks /\ \A b \in active : b \in Int
  BY Constants DEF FdIndices, SIGNAL_FD, Blocks, active
<1>2. IsFiniteSet(Blocks) /\ Cardinality(Blocks) = BLOCK_COUNT
  BY Constants, FS_Interval DEF Blocks
<1>3. IsFiniteSet(active) /\ N \in Nat /\ N <= BLOCK_COUNT
  BY <1>1, <1>2, FS_Subset, FS_CardinalityType
<1>4. \A b \in active : Place(b) \in 1 .. N
  <2> SUFFICES ASSUME NEW b \in active PROVE Place(b) \in 1 .. N
    OBVIOUS
  <2> DEFINE below == {c \in active : c <= b}
  <2>1. below \in SUBSET active /\ b \in below
    BY <1>1
  <2>2. IsFiniteSet(below) /\ Cardinality(below) <= N /\ Cardinality(below) \in Nat
    BY <1>3, <2>1, FS_Subset, FS_CardinalityType
  <2>3. Cardinality(below) # 0
    BY <2>1, <2>2, FS_EmptySet
  <2> HIDE DEF below
  <2> QED
    BY <1>3, <2>2, <2>3 DEF below
<1>5. \A b, c \in active : b < c => Place(b) # Place(c)
  <2> SUFFICES ASSUME NEW b \in active, NEW c \in active, b < c
               PROVE  Place(b) # Place(c)
    OBVIOUS
  <2> DEFINE toB == {a \in active : a <= b}
             toC == {a \in active : a <= c}
  <2>1. toB \in SUBSET toC /\ c \in toC /\ c \notin toB
    BY <1>1
  <2>2. toC \in SUBSET active
    OBVIOUS
  <2>3. IsFiniteSet(toC)
    BY <1>3, <2>2, FS_Subset
  <2>4. Cardinality(toC) # Cardinality(toB)
    BY <2>1, <2>3, FS_Subset
  <2> QED
    BY <2>4
<1>6. place \in Injection(active, 1 .. N)
  <2>1. place \in [active -> 1 .. N]
    BY <1>4
  <2>2. \A b, c \in active : place[b] = place[c] => b = c
    <3> HIDE DEF Place
    <3> QED
      BY <1>1, <1>5
  <2> HIDE DEF place, Place, N
  <2> QED
    BY <2>1, <2>2 DEF Injection, IsInjective
<1>7. IsFiniteSet(1 .. N) /\ Cardinality(1 .. N) = N
  BY <1>3, FS_Interval
<1>8. \A n \in 1 .. N : \E b \in active : Place(b) = n
  <2>1. place \in Surjection(active, 1 .. N)
    <3> HIDE DEF place
    <3> QED
      BY <1>6, <1>7, FS_Injection
  <2> QED
    BY <2>1 DEF Surjection
<1>9. scan = [n \in 1 .. N |-> CHOOSE b \in active : Place(b) = n]
  BY DEF ScanPipes, active
<1>10. \A n \in 1 .. N : scan[n] \in active /\ Place(scan[n]) = n
  <2> HIDE DEF Place, scan
  <2> QED
    BY <1>8, <1>9
<1>11. scan \in Seq(active) /\ Len(scan) = N
  <2>1. scan \in [1 .. N -> active]
    <3> HIDE DEF Place
    <3> QED
      BY <1>9, <1>10
  <2> HIDE DEF scan, N
  <2> QED
    BY <1>3, <2>1
<1>12. \A i, k \in 1 .. Len(scan) : i # k => scan[i] # scan[k]
  <2> HIDE DEF Place, scan
  <2> QED
    BY <1>10, <1>11
<1> QED
  <2> HIDE DEF Place, scan
  <2>1. N \in 0 .. BLOCK_COUNT
    BY <1>3, Constants
  <2> QED
    BY <1>11, <1>12, <2>1 DEF active, scan

-------------------------------------------------------------------------------
\* The types of the constants, from the assumptions of all modules.
LEMMA LoopConstants ==
  /\ BLOCK_COUNT \in Nat \ {0}
  /\ Handled \subseteq Nat \ {0}
  /\ {SIGINT, REFRESH_SIGNAL, TIMER_SIGNAL, SIGTERM} \subseteq Handled
  /\ NoSignal \notin Handled
  /\ EnvSignals \subseteq Handled
  /\ SigQueueLimit \in Nat \ {0}
  /\ Unset \notin [Blocks -> Texts]
BY ConfigAssumption, EventLoopAssumption
   DEF Handled, SIGINT, REFRESH_SIGNAL, TIMER_SIGNAL, SIGTERM, SIGRTMIN, NoSignal, Blocks

\* A signal that is pending is one, and how often it is, is a number.
LEMMA PendingTypes ==
  ASSUME LoopTypeOK
  PROVE  /\ \A s \in Handled : pending[s] \in Nat /\ pending[s] <= SigQueueLimit
         /\ \A s \in SignalsPending : s \in Handled /\ pending[s] \in 1 .. SigQueueLimit
<1>1. pending \in [Handled -> 0 .. SigQueueLimit]
  BY Zenon DEF LoopTypeOK
<1>2. SigQueueLimit \in Nat
  BY LoopConstants
<1>3. \A s \in Handled : pending[s] \in Nat /\ pending[s] <= SigQueueLimit
  BY <1>1, <1>2
<1> QED
  BY <1>2, <1>3 DEF SignalsPending

\* A signal that is raised is pending afterwards, and no other is lost.
LEMMA RaisedPending ==
  ASSUME NEW s \in Handled, pending \in [Handled -> 0 .. SigQueueLimit]
  PROVE  /\ Raised(s) \in [Handled -> 0 .. SigQueueLimit]
         /\ Raised(s)[s] > 0
         /\ \A t \in Handled : pending[t] <= Raised(s)[t]
         /\ \A t \in Handled \ {s} : Raised(s)[t] = pending[t]
         /\ s < SIGRTMIN => Raised(s)[s] = 1 \/ pending[s] > 1
BY LoopConstants DEF Raised, SIGRTMIN

\* timer_arm() keeps the counter within the longest interval.
LEMMA TimerNumbers ==
  compute_tick \in Nat /\ compute_reset_value \in Nat \ {0} /\ UIntMax \in Nat
<1>1. compute_tick \in Nat
  BY ConfigAssumption, GcdOfAll DEF compute_tick, Blocks
<1>2. compute_reset_value \in Nat \ {0}
  BY ConfigAssumption, GreatestOfAll DEF compute_reset_value, Blocks
<1> QED
  BY <1>1, <1>2, TimerAssumption

LEMMA TimerArmTypes ==
  ASSUME LoopTypeOK, timer_arm
  PROVE  /\ timer' \in [time : 0 .. compute_reset_value,
                       tick : {compute_tick}, reset_value : {compute_reset_value}]
         /\ alarm' = (compute_tick > 0)
<1> DEFINE r == compute_reset_value
           t == compute_tick
           sum == (timer.time + t) % (UIntMax + 1)
<1>1. /\ r \in Nat \ {0} /\ t \in Nat /\ UIntMax \in Nat
      /\ timer \in [time : 0 .. r, tick : {t}, reset_value : {r}]
  BY TimerNumbers DEF LoopTypeOK
<1> HIDE DEF r, t
<1>2. timer' = [timer EXCEPT !.time = sum % r]
  BY <1>1 DEF timer_arm
<1>3. sum \in Nat
  BY <1>1, ModRange
<1>4. sum % r \in 0 .. r - 1
  BY <1>1, <1>3, ModRange
<1>5. timer' \in [time : 0 .. r, tick : {t}, reset_value : {r}]
  <2> HIDE DEF sum
  <2> QED
    BY <1>1, <1>2, <1>4
<1>6. alarm' = (t > 0)
  BY <1>1 DEF timer_arm
<1> QED
  BY <1>5, <1>6 DEF r, t
-------------------------------------------------------------------------------
(* Every step keeps the invariant.                                         *)

\* What the event loop updates is a block.
LEMMA NextActiveBlock ==
  ASSUME LoopInv, Updating PROVE NextActive \in Blocks
BY DEF LoopInv, LoopTypeOK, WatcherTypeOK, ActiveBlocks, Updating, NextActive

LEMMA RequestedBlock ==
  ASSUME Requested # {} PROVE Min(Requested) \in Blocks
BY MinOfNat, Constants DEF Requested, Blocks

\* Every step of the program leaves the blocks alone or is one operation of
\* block.c on one of them, and no two of these overlap.
LEMMA NextUsesBlocks ==
  ASSUME LoopInv, [Next]_vars PROVE [BlockNext]_blockVars
<1>1. ASSUME NEW b \in Blocks, block_execute(b) \/ ForkFails(b)
      PROVE  [BlockNext]_blockVars
  BY <1>1 DEF block_execute, ForkFails, BlockNext
<1>2. CASE ExecuteBlock \/ ExecuteFails
  <2>1. cursor \in Blocks
    BY <1>2, Constants DEF LoopInv, LoopTypeOK, ExecuteBlock, ExecuteFails, Blocks
  <2> QED
    BY <1>1, <1>2, <2>1 DEF ExecuteBlock, ExecuteFails
<1>3. CASE DispatchBlock
  BY <1>1, <1>3, RequestedBlock DEF DispatchBlock
<1>4. CASE UpdateRead \/ UpdateEnds
  BY <1>4, NextActiveBlock DEF UpdateRead, UpdateEnds, BlockNext
<1>5. CASE \E p \in Pids : ChildStep(Child(p))
  BY <1>5 DEF ChildStep, BlockNext
<1>6. CASE SourceChanges
  BY <1>6 DEF SourceChanges, BlockNext
<1>7. CASE UNCHANGED blockVars
  BY <1>7
<1> QED
  BY <1>2, <1>3, <1>4, <1>5, <1>6, <1>7
     DEF Next, Program, Startup, StartupFails, SkipBlock, BlocksExecuted, Poll,
         PollFails, ReadSignal, ReadSignalFails, DispatchExecution, DispatchTermination,
         UpdateReadFails, UpdatesDone, StatusSame, StatusChanges, StatusWriteFails,
         Cleanup, AlarmExpires, Raise, RaiseAtStart, Gone, vars

\* So the invariant of block.c holds in the whole program, and outputs only get
\* newer.
LEMMA NextKeepsBlocks ==
  ASSUME LoopInv, [Next]_vars
  PROVE  /\ IInv'
         /\ Async!Reported'
         /\ \A b \in Blocks : output[b] <= output'[b]
<1>1. IInv' /\ [Async!Next]_(Async!vars)
  BY NextUsesBlocks, NextIInv, NextRefines DEF LoopInv
<1>2. Async!TypeOK
  BY Constants DEF LoopInv, IInv, TypeOK, Async!TypeOK, Async!Blocks, Blocks, Texts, Empty
<1> QED
  BY <1>1, <1>2, ReportedStep DEF LoopInv

LEMMA StartupInv ==
  ASSUME LoopInv, IInv', Async!Reported', Startup PROVE LoopInv'
<1> USE LoopConstants DEF LoopInv, Startup, blockVars, timerVars, watcherVars
<1>1. LoopTypeOK'
  BY DEF LoopTypeOK, IInv, Places, WatcherTypeOK, Executing, Updating, WatcherReset, NothingActive, NextRound
<1>2. Handling' /\ CursorAtRest' /\ RootIsCurrent' /\ OutputIsNewer'
  BY DEF Handling, CursorAtRest, RootIsCurrent, OutputIsNewer, LoopTypeOK, Executing, SignalsPending, NextRound, Updating
<1>3. ActiveBlocks' /\ UpdatingActive' /\ PipesWaiting'
  BY DEF ActiveBlocks, UpdatingActive, PipesWaiting, ToUpdate, Updating, NextActive, CursorAtRest, Executing, LoopTypeOK,
         WatcherReset, NothingActive, NextRound
<1> QED
  BY <1>1, <1>2, <1>3

LEMMA StartupFailsInv ==
  ASSUME LoopInv, IInv', Async!Reported', StartupFails PROVE LoopInv'
<1> USE LoopConstants DEF LoopInv, StartupFails, blockVars, timerVars, watcherVars
<1>1. LoopTypeOK'
  BY DEF LoopTypeOK, IInv, Places, WatcherTypeOK, Executing, Updating, WatcherReset, NothingActive, NextRound
<1>2. Handling' /\ CursorAtRest' /\ RootIsCurrent' /\ OutputIsNewer'
  BY DEF Handling, CursorAtRest, RootIsCurrent, OutputIsNewer, LoopTypeOK, Executing, SignalsPending, NextRound, Updating
<1>3. ActiveBlocks' /\ UpdatingActive' /\ PipesWaiting'
  BY DEF ActiveBlocks, UpdatingActive, PipesWaiting, ToUpdate, Updating, NextActive, CursorAtRest, Executing, LoopTypeOK,
         WatcherReset, NothingActive, NextRound
<1> QED
  BY <1>1, <1>2, <1>3

LEMMA SkipBlockInv ==
  ASSUME LoopInv, IInv', Async!Reported', SkipBlock PROVE LoopInv'
<1> USE LoopConstants DEF LoopInv, SkipBlock, blockVars, timerVars, watcherVars
<1>1. LoopTypeOK'
  BY DEF LoopTypeOK, IInv, Places, WatcherTypeOK, Executing, Updating, WatcherReset, NothingActive, NextRound
<1>2. Handling' /\ CursorAtRest' /\ RootIsCurrent' /\ OutputIsNewer'
  BY DEF Handling, CursorAtRest, RootIsCurrent, OutputIsNewer, LoopTypeOK, Executing, SignalsPending, NextRound, Updating
<1>3. ActiveBlocks' /\ UpdatingActive' /\ PipesWaiting'
  BY DEF ActiveBlocks, UpdatingActive, PipesWaiting, ToUpdate, Updating, NextActive, CursorAtRest, Executing, LoopTypeOK,
         WatcherReset, NothingActive, NextRound
<1> QED
  BY <1>1, <1>2, <1>3

LEMMA PollFailsInv ==
  ASSUME LoopInv, IInv', Async!Reported', PollFails PROVE LoopInv'
<1> USE LoopConstants DEF LoopInv, PollFails, blockVars, timerVars, watcherVars
<1>1. LoopTypeOK'
  BY DEF LoopTypeOK, IInv, Places, WatcherTypeOK, Executing, Updating, WatcherReset, NothingActive, NextRound
<1>2. Handling' /\ CursorAtRest' /\ RootIsCurrent' /\ OutputIsNewer'
  BY DEF Handling, CursorAtRest, RootIsCurrent, OutputIsNewer, LoopTypeOK, Executing, SignalsPending, NextRound, Updating
<1>3. ActiveBlocks' /\ UpdatingActive' /\ PipesWaiting'
  BY DEF ActiveBlocks, UpdatingActive, PipesWaiting, ToUpdate, Updating, NextActive, CursorAtRest, Executing, LoopTypeOK,
         WatcherReset, NothingActive, NextRound
<1> QED
  BY <1>1, <1>2, <1>3

LEMMA ReadSignalFailsInv ==
  ASSUME LoopInv, IInv', Async!Reported', ReadSignalFails PROVE LoopInv'
<1> USE LoopConstants DEF LoopInv, ReadSignalFails, blockVars, timerVars, watcherVars
<1>1. LoopTypeOK'
  BY DEF LoopTypeOK, IInv, Places, WatcherTypeOK, Executing, Updating, WatcherReset, NothingActive, NextRound
<1>2. Handling' /\ CursorAtRest' /\ RootIsCurrent' /\ OutputIsNewer'
  BY DEF Handling, CursorAtRest, RootIsCurrent, OutputIsNewer, LoopTypeOK, Executing, SignalsPending, NextRound, Updating
<1>3. ActiveBlocks' /\ UpdatingActive' /\ PipesWaiting'
  BY DEF ActiveBlocks, UpdatingActive, PipesWaiting, ToUpdate, Updating, NextActive, CursorAtRest, Executing, LoopTypeOK,
         WatcherReset, NothingActive, NextRound
<1> QED
  BY <1>1, <1>2, <1>3

LEMMA DispatchExecutionInv ==
  ASSUME LoopInv, IInv', Async!Reported', DispatchExecution PROVE LoopInv'
<1> USE LoopConstants DEF LoopInv, DispatchExecution, blockVars, timerVars, watcherVars
<1>1. LoopTypeOK'
  BY DEF LoopTypeOK, IInv, Places, WatcherTypeOK, Executing, Updating, WatcherReset, NothingActive, NextRound
<1>2. Handling' /\ CursorAtRest' /\ RootIsCurrent' /\ OutputIsNewer'
  BY DEF Handling, CursorAtRest, RootIsCurrent, OutputIsNewer, LoopTypeOK, Executing, SignalsPending, NextRound, Updating
<1>3. ActiveBlocks' /\ UpdatingActive' /\ PipesWaiting'
  BY DEF ActiveBlocks, UpdatingActive, PipesWaiting, ToUpdate, Updating, NextActive, CursorAtRest, Executing, LoopTypeOK,
         WatcherReset, NothingActive, NextRound
<1> QED
  BY <1>1, <1>2, <1>3

LEMMA DispatchTerminationInv ==
  ASSUME LoopInv, IInv', Async!Reported', DispatchTermination PROVE LoopInv'
<1> USE LoopConstants DEF LoopInv, DispatchTermination, blockVars, timerVars, watcherVars
<1>1. LoopTypeOK'
  BY DEF LoopTypeOK, IInv, Places, WatcherTypeOK, Executing, Updating, WatcherReset, NothingActive, NextRound
<1>2. Handling' /\ CursorAtRest' /\ RootIsCurrent' /\ OutputIsNewer'
  BY DEF Handling, CursorAtRest, RootIsCurrent, OutputIsNewer, LoopTypeOK, Executing, SignalsPending, NextRound, Updating
<1>3. ActiveBlocks' /\ UpdatingActive' /\ PipesWaiting'
  BY DEF ActiveBlocks, UpdatingActive, PipesWaiting, ToUpdate, Updating, NextActive, CursorAtRest, Executing, LoopTypeOK,
         WatcherReset, NothingActive, NextRound
<1> QED
  BY <1>1, <1>2, <1>3

LEMMA StatusSameInv ==
  ASSUME LoopInv, IInv', Async!Reported', StatusSame PROVE LoopInv'
<1> USE LoopConstants DEF LoopInv, StatusSame, blockVars, timerVars, watcherVars
<1>1. LoopTypeOK'
  BY DEF LoopTypeOK, IInv, Places, WatcherTypeOK, Executing, Updating, WatcherReset, NothingActive, NextRound
<1>2. Handling' /\ CursorAtRest' /\ RootIsCurrent' /\ OutputIsNewer'
  BY DEF Handling, CursorAtRest, RootIsCurrent, OutputIsNewer, LoopTypeOK, Executing, SignalsPending, NextRound, Updating
<1>3. ActiveBlocks' /\ UpdatingActive' /\ PipesWaiting'
  BY DEF ActiveBlocks, UpdatingActive, PipesWaiting, ToUpdate, Updating, NextActive, CursorAtRest, Executing, LoopTypeOK,
         WatcherReset, NothingActive, NextRound
<1> QED
  BY <1>1, <1>2, <1>3

LEMMA CleanupInv ==
  ASSUME LoopInv, IInv', Async!Reported', Cleanup PROVE LoopInv'
<1> USE LoopConstants DEF LoopInv, Cleanup, blockVars, timerVars, watcherVars
<1>1. LoopTypeOK'
  BY DEF LoopTypeOK, IInv, Places, WatcherTypeOK, Executing, Updating, WatcherReset, NothingActive, NextRound
<1>2. Handling' /\ CursorAtRest' /\ RootIsCurrent' /\ OutputIsNewer'
  BY DEF Handling, CursorAtRest, RootIsCurrent, OutputIsNewer, LoopTypeOK, Executing, SignalsPending, NextRound, Updating
<1>3. ActiveBlocks' /\ UpdatingActive' /\ PipesWaiting'
  BY DEF ActiveBlocks, UpdatingActive, PipesWaiting, ToUpdate, Updating, NextActive, CursorAtRest, Executing, LoopTypeOK,
         WatcherReset, NothingActive, NextRound
<1> QED
  BY <1>1, <1>2, <1>3

LEMMA UpdateReadFailsInv ==
  ASSUME LoopInv, IInv', Async!Reported', UpdateReadFails PROVE LoopInv'
<1> USE LoopConstants DEF LoopInv, UpdateReadFails, blockVars, timerVars, watcherVars
<1>1. LoopTypeOK'
  BY DEF LoopTypeOK, IInv, Places, WatcherTypeOK, Executing, Updating, WatcherReset, NothingActive, NextRound
<1>2. Handling' /\ CursorAtRest' /\ RootIsCurrent' /\ OutputIsNewer'
  BY DEF Handling, CursorAtRest, RootIsCurrent, OutputIsNewer, LoopTypeOK, Executing, SignalsPending, NextRound, Updating
<1>3. ActiveBlocks' /\ UpdatingActive'
  BY DEF ActiveBlocks, UpdatingActive, PipesWaiting, ToUpdate, Updating, NextActive, CursorAtRest, Executing, LoopTypeOK,
         WatcherReset, NothingActive, NextRound
<1>4. PipesWaiting'
  <2>1. ToUpdate' \subseteq ToUpdate
    BY DEF ToUpdate, Updating, LoopTypeOK, WatcherTypeOK
  <2> QED
    BY <2>1 DEF PipesWaiting
<1> QED
  BY <1>1, <1>2, <1>3, <1>4

LEMMA UpdatesDoneInv ==
  ASSUME LoopInv, IInv', Async!Reported', UpdatesDone PROVE LoopInv'
<1> USE LoopConstants DEF LoopInv, UpdatesDone, blockVars, timerVars, watcherVars
<1>1. LoopTypeOK'
  BY DEF LoopTypeOK, IInv, Places, WatcherTypeOK, Executing, Updating, WatcherReset, NothingActive, NextRound
<1>2. Handling' /\ CursorAtRest' /\ RootIsCurrent' /\ OutputIsNewer'
  BY DEF Handling, CursorAtRest, RootIsCurrent, OutputIsNewer, LoopTypeOK, Executing, SignalsPending, NextRound, Updating
<1>3. ActiveBlocks' /\ UpdatingActive' /\ PipesWaiting'
  BY DEF ActiveBlocks, UpdatingActive, PipesWaiting, ToUpdate, Updating, NextActive, CursorAtRest, Executing, LoopTypeOK,
         WatcherReset, NothingActive, NextRound
<1> QED
  BY <1>1, <1>2, <1>3

LEMMA ExecuteBlockInv ==
  ASSUME LoopInv, IInv', Async!Reported', ExecuteBlock PROVE LoopInv'
<1> USE LoopConstants DEF LoopInv, ExecuteBlock, blockVars, timerVars, watcherVars
<1>1. LoopTypeOK'
  BY DEF LoopTypeOK, IInv, Places, WatcherTypeOK, Executing
<1>2. Handling' /\ CursorAtRest' /\ RootIsCurrent' /\ OutputIsNewer'
  BY DEF Handling, CursorAtRest, RootIsCurrent, OutputIsNewer, LoopTypeOK, Executing, SignalsPending, NextRound, Updating, block_execute, Fork, ForkAs
<1>3. ActiveBlocks' /\ UpdatingActive' /\ PipesWaiting'
  BY DEF ActiveBlocks, UpdatingActive, PipesWaiting, ToUpdate, Updating, NextActive, CursorAtRest, Executing, LoopTypeOK, block_execute, Fork, ForkAs
<1> QED
  BY <1>1, <1>2, <1>3

LEMMA ExecuteFailsInv ==
  ASSUME LoopInv, IInv', Async!Reported', ExecuteFails PROVE LoopInv'
<1> USE LoopConstants DEF LoopInv, ExecuteFails, blockVars, timerVars, watcherVars
<1>1. LoopTypeOK'
  <2>1. CASE pc = "kickstart"
    BY <2>1 DEF LoopTypeOK, IInv, Places, WatcherTypeOK, ForkFails
  <2>2. CASE pc # "kickstart"
    <3>1. is_alive' \in BOOLEAN
      BY <2>2, Zenon
    <3> QED
      BY <2>2, <3>1 DEF LoopTypeOK, IInv, Places, WatcherTypeOK, ForkFails
  <2> QED
    BY <2>1, <2>2
<1>2. Handling' /\ CursorAtRest' /\ RootIsCurrent' /\ OutputIsNewer'
  BY DEF Handling, CursorAtRest, RootIsCurrent, OutputIsNewer, LoopTypeOK, Executing, SignalsPending, NextRound, Updating, ForkFails
<1>3. ActiveBlocks' /\ UpdatingActive' /\ PipesWaiting'
  BY DEF ActiveBlocks, UpdatingActive, PipesWaiting, ToUpdate, Updating, NextActive, CursorAtRest, Executing, LoopTypeOK, ForkFails
<1> QED
  BY <1>1, <1>2, <1>3

LEMMA BlocksExecutedInv ==
  ASSUME LoopInv, IInv', Async!Reported', BlocksExecuted PROVE LoopInv'
<1> USE LoopConstants DEF LoopInv, BlocksExecuted, blockVars, timerVars, watcherVars
<1>1. LoopTypeOK'
  <2>1. /\ timer' \in [time : 0 .. compute_reset_value,
                       tick : {compute_tick}, reset_value : {compute_reset_value}]
        /\ alarm' \in BOOLEAN
    <3>1. CASE timer_arm
      BY <3>1, TimerArmTypes
    <3>2. CASE UNCHANGED timerVars
      BY <3>2 DEF LoopTypeOK
    <3> QED
      BY <3>1, <3>2
  <2> QED
    BY <2>1 DEF LoopTypeOK, IInv, Places, WatcherTypeOK
<1>2. Handling' /\ CursorAtRest' /\ RootIsCurrent' /\ OutputIsNewer'
  BY DEF Handling, CursorAtRest, RootIsCurrent, OutputIsNewer, LoopTypeOK, Executing, SignalsPending, NextRound, Updating
<1>3. ActiveBlocks' /\ UpdatingActive' /\ PipesWaiting'
  BY DEF ActiveBlocks, UpdatingActive, PipesWaiting, ToUpdate, Updating, NextActive, CursorAtRest, Executing, LoopTypeOK
<1> QED
  BY <1>1, <1>2, <1>3

LEMMA ReadSignalInv ==
  ASSUME LoopInv, IInv', Async!Reported', ReadSignal PROVE LoopInv'
<1> USE LoopConstants DEF LoopInv, ReadSignal, blockVars, timerVars, watcherVars
<1>0. Min(SignalsPending) \in SignalsPending
  BY MinOfNat DEF Handling, SignalsPending
<1>1. LoopTypeOK'
  <2>1. info' \in SignalsPending
    BY <1>0
  <2>2. info' \in Handled /\ pending[info'] \in 1 .. SigQueueLimit
    BY <2>1, PendingTypes, Zenon
  <2>3. pending' \in [Handled -> 0 .. SigQueueLimit]
    BY <2>2 DEF LoopTypeOK
  <2> QED
    BY <2>2, <2>3 DEF LoopTypeOK, IInv, Places, WatcherTypeOK
<1>2. Handling' /\ CursorAtRest' /\ RootIsCurrent' /\ OutputIsNewer'
  BY <1>0 DEF Handling, CursorAtRest, RootIsCurrent, OutputIsNewer, LoopTypeOK, Executing, SignalsPending, NextRound, Updating
<1>3. ActiveBlocks' /\ UpdatingActive' /\ PipesWaiting'
  BY <1>0 DEF ActiveBlocks, UpdatingActive, PipesWaiting, ToUpdate, Updating, NextActive, CursorAtRest, Executing, LoopTypeOK
<1> QED
  BY <1>1, <1>2, <1>3

LEMMA DispatchBlockInv ==
  ASSUME LoopInv, IInv', Async!Reported', DispatchBlock PROVE LoopInv'
<1> USE LoopConstants DEF LoopInv, DispatchBlock, blockVars, timerVars, watcherVars
<1>1. LoopTypeOK'
  BY DEF LoopTypeOK, IInv, Places, WatcherTypeOK
<1>2. Handling' /\ CursorAtRest' /\ RootIsCurrent' /\ OutputIsNewer'
  BY DEF Handling, CursorAtRest, RootIsCurrent, OutputIsNewer, LoopTypeOK, Executing, SignalsPending, NextRound, Updating, block_execute, Fork, ForkAs, ForkFails, LoopTypeOK
<1>3. ActiveBlocks' /\ UpdatingActive' /\ PipesWaiting'
  BY DEF ActiveBlocks, UpdatingActive, PipesWaiting, ToUpdate, Updating, NextActive, CursorAtRest, Executing, LoopTypeOK, block_execute, Fork, ForkAs, ForkFails
<1> QED
  BY <1>1, <1>2, <1>3

LEMMA StatusChangesInv ==
  ASSUME LoopInv, IInv', Async!Reported', StatusChanges PROVE LoopInv'
<1> USE LoopConstants DEF LoopInv, StatusChanges, blockVars, timerVars, watcherVars
<1>1. LoopTypeOK'
  BY DEF LoopTypeOK, IInv, Places, WatcherTypeOK, TypeOK, NextRound
<1>0. \E b \in Blocks : output[b] # Empty
  BY Constants DEF OutputIsNewer, LoopTypeOK, TypeOK, Empty, Texts
<1>2. Handling' /\ CursorAtRest' /\ RootIsCurrent' /\ OutputIsNewer'
  <2>1. Handling' /\ CursorAtRest'
    BY DEF Handling, CursorAtRest, Executing, NextRound
  <2>2. RootIsCurrent'
    BY <1>0 DEF RootIsCurrent
  <2>3. OutputIsNewer'
    <3>1. \A b \in Blocks : output[b] \in Int
      BY Constants DEF LoopTypeOK, TypeOK, Texts, Empty
    <3> QED
      BY <3>1 DEF OutputIsNewer
  <2> QED
    BY <2>1, <2>2, <2>3
<1>3. ActiveBlocks' /\ UpdatingActive' /\ PipesWaiting'
  BY DEF ActiveBlocks, UpdatingActive, PipesWaiting, ToUpdate, Updating, NextActive, CursorAtRest, Executing, LoopTypeOK, NextRound
<1> QED
  BY <1>1, <1>2, <1>3

LEMMA StatusWriteFailsInv ==
  ASSUME LoopInv, IInv', Async!Reported', StatusWriteFails PROVE LoopInv'
<1> USE LoopConstants DEF LoopInv, StatusWriteFails, blockVars, timerVars, watcherVars
<1>1. LoopTypeOK'
  BY DEF LoopTypeOK, IInv, Places, WatcherTypeOK, TypeOK
<1>2. Handling' /\ CursorAtRest' /\ RootIsCurrent' /\ OutputIsNewer'
  <2>1. Handling' /\ CursorAtRest' /\ RootIsCurrent'
    BY DEF Handling, CursorAtRest, Executing, RootIsCurrent
  <2>2. OutputIsNewer'
    <3>1. \A b \in Blocks : output[b] \in Int
      BY Constants DEF LoopTypeOK, TypeOK, Texts, Empty
    <3> QED
      BY <3>1 DEF OutputIsNewer
  <2> QED
    BY <2>1, <2>2
<1>3. ActiveBlocks' /\ UpdatingActive' /\ PipesWaiting'
  BY DEF ActiveBlocks, UpdatingActive, PipesWaiting, ToUpdate, Updating, NextActive, CursorAtRest, Executing, LoopTypeOK
<1> QED
  BY <1>1, <1>2, <1>3

LEMMA RaisedSignals ==
  ASSUME LoopTypeOK, NEW s \in Handled, pending' = Raised(s)
  PROVE  /\ pending' \in [Handled -> 0 .. SigQueueLimit]
         /\ SignalsPending \subseteq SignalsPending'
<1>1. /\ pending \in [Handled -> 0 .. SigQueueLimit]
      /\ pending' \in [Handled -> 0 .. SigQueueLimit]
      /\ \A t \in Handled : pending[t] <= pending'[t]
  BY RaisedPending DEF LoopTypeOK
<1>2. SigQueueLimit \in Nat
  BY LoopConstants
<1>3. \A t \in Handled : pending[t] \in Nat /\ pending'[t] \in Nat
  BY <1>1, <1>2
<1> QED
  BY <1>1, <1>3 DEF SignalsPending

LEMMA AlarmExpiresInv ==
  ASSUME LoopInv, IInv', Async!Reported', AlarmExpires PROVE LoopInv'
<1> USE LoopConstants DEF LoopInv, AlarmExpires, loopVars, blockVars, timerVars, watcherVars
<1>0. pending' \in [Handled -> 0 .. SigQueueLimit] /\ SignalsPending \subseteq SignalsPending'
  BY RaisedSignals
<1>1. LoopTypeOK'
  BY <1>0 DEF LoopTypeOK, IInv, Places, WatcherTypeOK
<1>2. Handling' /\ CursorAtRest' /\ RootIsCurrent' /\ OutputIsNewer'
  <2>1. pc = "signal" => SignalsPending' # {}
    BY <1>0 DEF Handling
  <2> QED
    BY <2>1 DEF Handling, CursorAtRest, RootIsCurrent, OutputIsNewer, Executing
<1>3. ActiveBlocks' /\ UpdatingActive' /\ PipesWaiting'
  BY <1>0 DEF ActiveBlocks, UpdatingActive, PipesWaiting, ToUpdate, Updating, NextActive, CursorAtRest, Executing, LoopTypeOK
<1> QED
  BY <1>1, <1>2, <1>3

LEMMA RaiseInv ==
  ASSUME LoopInv, IInv', Async!Reported', NEW s \in EnvSignals, Raise(s) PROVE LoopInv'
<1> USE LoopConstants DEF LoopInv, Raise, loopVars, blockVars, timerVars, watcherVars
<1>0. pending' \in [Handled -> 0 .. SigQueueLimit] /\ SignalsPending \subseteq SignalsPending'
  BY RaisedSignals
<1>1. LoopTypeOK'
  BY <1>0 DEF LoopTypeOK, IInv, Places, WatcherTypeOK
<1>2. Handling' /\ CursorAtRest' /\ RootIsCurrent' /\ OutputIsNewer'
  <2>1. pc = "signal" => SignalsPending' # {}
    BY <1>0 DEF Handling
  <2> QED
    BY <2>1 DEF Handling, CursorAtRest, RootIsCurrent, OutputIsNewer, Executing
<1>3. ActiveBlocks' /\ UpdatingActive' /\ PipesWaiting'
  BY <1>0 DEF ActiveBlocks, UpdatingActive, PipesWaiting, ToUpdate, Updating, NextActive, CursorAtRest, Executing, LoopTypeOK
<1> QED
  BY <1>1, <1>2, <1>3

LEMMA RaiseAtStartInv ==
  ASSUME LoopInv, IInv', Async!Reported', NEW s \in EnvSignals, RaiseAtStart(s) PROVE LoopInv'
<1> USE LoopConstants DEF LoopInv, RaiseAtStart, blockVars, timerVars, watcherVars
<1>1. LoopTypeOK'
  BY DEF LoopTypeOK, IInv, Places, WatcherTypeOK
<1>2. Handling' /\ CursorAtRest' /\ RootIsCurrent' /\ OutputIsNewer'
  BY DEF Handling, CursorAtRest, RootIsCurrent, OutputIsNewer, LoopTypeOK, Executing, SignalsPending, NextRound, Updating
<1>3. ActiveBlocks' /\ UpdatingActive' /\ PipesWaiting'
  BY DEF ActiveBlocks, UpdatingActive, PipesWaiting, ToUpdate, Updating, NextActive, CursorAtRest, Executing, LoopTypeOK
<1> QED
  BY <1>1, <1>2, <1>3

LEMMA SourceChangesInv ==
  ASSUME LoopInv, IInv', Async!Reported', SourceChanges PROVE LoopInv'
<1> USE LoopConstants DEF LoopInv, SourceChanges, blockVars, timerVars, watcherVars
<1>1. LoopTypeOK'
  BY DEF LoopTypeOK, IInv, Places, WatcherTypeOK, loopVars
<1>2. Handling' /\ CursorAtRest' /\ RootIsCurrent' /\ OutputIsNewer'
  BY DEF Handling, CursorAtRest, RootIsCurrent, OutputIsNewer, LoopTypeOK, Executing, SignalsPending, NextRound, Updating, loopVars, Change
<1>3. ActiveBlocks' /\ UpdatingActive' /\ PipesWaiting'
  BY DEF ActiveBlocks, UpdatingActive, PipesWaiting, ToUpdate, Updating, NextActive, CursorAtRest, Executing, LoopTypeOK, loopVars, Change
<1> QED
  BY <1>1, <1>2, <1>3

\* A signal descriptor that is readable is not counted as a block.
LEMMA PollInv ==
  ASSUME LoopInv, IInv', Async!Reported', Poll PROVE LoopInv'
<1> USE LoopConstants DEF LoopInv, Poll, blockVars, timerVars
<1> DEFINE active == Readable \ {SIGNAL_FD}
<1>1. Readable \in SUBSET FdIndices
  BY DEF Readable
<1>2. /\ active \subseteq Blocks
      /\ \A b \in active : pipe[b] # <<>>
      /\ got_signal(Readable) => SignalsPending # {}
  BY Constants DEF Readable, FdIndices, SIGNAL_FD, Blocks, got_signal
<1>3. /\ active_block_count' \in 0 .. BLOCK_COUNT
      /\ active_blocks' \in Seq(active)
      /\ Len(active_blocks') = active_block_count'
      /\ \A i, k \in 1 .. active_block_count' : i # k => active_blocks'[i] # active_blocks'[k]
  <2>1. active_block_count' = Cardinality(active)
    <3>1. IsFiniteSet(Readable) /\ Cardinality(Readable) \in Int
      <4>1. IsFiniteSet(FdIndices)
        BY FS_Interval DEF FdIndices, SIGNAL_FD
      <4> QED
        BY <1>1, <4>1, FS_Subset, FS_CardinalityType
    <3>2. Cardinality(active) =
            IF SIGNAL_FD \in Readable THEN Cardinality(Readable) - 1 ELSE Cardinality(Readable)
      BY <3>1, FS_RemoveElement
    <3> QED
      BY <3>1, <3>2 DEF watcher_poll, got_signal
  <2> QED
    BY <1>1, <2>1, ScanPipesActive DEF watcher_poll
<1>4. \A i \in 1 .. active_block_count' : active_blocks'[i] \in active
  BY <1>3
<1> HIDE DEF active
<1>5. LoopTypeOK'
  BY <1>2, <1>3, <1>4 DEF LoopTypeOK, IInv, Places, WatcherTypeOK
<1>6. Handling' /\ CursorAtRest' /\ RootIsCurrent' /\ OutputIsNewer'
  <2>1. pc' = "signal" => SignalsPending' # {}
    BY <1>2 DEF SignalsPending
  <2> QED
    BY <2>1 DEF Handling, CursorAtRest, RootIsCurrent, OutputIsNewer, Executing
<1>7. ActiveBlocks' /\ UpdatingActive'
  BY <1>3 DEF ActiveBlocks, UpdatingActive, CursorAtRest, Executing, Updating
<1>8. PipesWaiting'
  <2>1. ToUpdate' \subseteq 1 .. active_block_count'
    BY <1>3 DEF ToUpdate, CursorAtRest, Executing
  <2> QED
    BY <1>2, <1>4, <2>1 DEF PipesWaiting
<1> QED
  BY <1>5, <1>6, <1>7, <1>8

\* The pipe that is read is that of the block at the cursor, and no later active
\* block is the same.
LEMMA UpdateReadInv ==
  ASSUME LoopInv, IInv', Async!Reported', UpdateRead PROVE LoopInv'
<1> USE LoopConstants DEF LoopInv, UpdateRead, Read, loopVars, timerVars, watcherVars
<1>1. LoopTypeOK'
  BY DEF LoopTypeOK, IInv, WatcherTypeOK
<1>2. Handling' /\ CursorAtRest' /\ RootIsCurrent' /\ OutputIsNewer'
  BY DEF Handling, CursorAtRest, RootIsCurrent, OutputIsNewer, Executing, SignalsPending
<1>3. ActiveBlocks' /\ UpdatingActive'
  BY DEF ActiveBlocks, UpdatingActive, Updating, NextActive
<1>4. PipesWaiting'
  <2>1. /\ NextActive \in Blocks /\ NextActive # NoBlock
        /\ cursor \in Nat /\ active_block_count \in Nat /\ cursor < active_block_count
    BY NextActiveBlock, Constants DEF LoopTypeOK, WatcherTypeOK, Updating
  <2>2. ToUpdate' = cursor + 2 .. active_block_count
    BY <2>1 DEF ToUpdate, Updating
  <2>3. \A i \in ToUpdate' :
          /\ i \in ToUpdate /\ active_blocks[i] \in Blocks
          /\ active_blocks[i] # NextActive
    <3> SUFFICES ASSUME NEW i \in cursor + 2 .. active_block_count
                 PROVE  /\ i \in ToUpdate /\ active_blocks[i] \in Blocks
                        /\ active_blocks[i] # active_blocks[cursor + 1]
      BY <2>2 DEF NextActive
    <3>1. i \in 1 .. active_block_count /\ cursor + 1 \in 1 .. active_block_count /\ i # cursor + 1
      BY <2>1
    <3> QED
      BY <2>1, <3>1 DEF ToUpdate, ActiveBlocks, LoopTypeOK, WatcherTypeOK, Updating
  <2> QED
    BY <2>3 DEF PipesWaiting, IInv, TypeOK
<1> QED
  BY <1>1, <1>2, <1>3, <1>4

LEMMA UpdateEndsInv ==
  ASSUME LoopInv, IInv', Async!Reported', UpdateEnds,
         \A b \in Blocks : output[b] <= output'[b]
  PROVE  LoopInv'
<1> USE LoopConstants DEF LoopInv, UpdateEnds, timerVars, watcherVars
<1>0. /\ updating = NextActive /\ updating # NoBlock /\ updating' = NoBlock
      /\ UNCHANGED pipe
  BY NextActiveBlock, Constants DEF Reap, Collects, WaitFails
<1>1. LoopTypeOK'
  BY DEF LoopTypeOK, IInv, WatcherTypeOK, Updating
<1>2. Handling' /\ CursorAtRest' /\ RootIsCurrent' /\ OutputIsNewer'
  <2>1. Texts \subseteq Int
    BY Constants DEF Texts, Empty
  <2>2. \A b \in Blocks : current[b] \in Int /\ output[b] \in Int /\ output'[b] \in Int
    BY <2>1 DEF LoopTypeOK, IInv, TypeOK
  <2> QED
    BY <2>2 DEF Handling, CursorAtRest, RootIsCurrent, OutputIsNewer, Executing,
                SignalsPending, Updating
<1>3. ActiveBlocks' /\ UpdatingActive'
  <2>1. UpdatingActive'
    BY <1>0, Zenon DEF UpdatingActive
  <2>2. /\ pc = "update" /\ pc' = "update"
        /\ UNCHANGED <<active_blocks, active_block_count>>
        /\ cursor' = cursor + 1 /\ cursor < active_block_count
    BY <1>0 DEF Updating
  <2>3. cursor \in Nat /\ active_block_count \in Nat
    BY DEF LoopTypeOK, WatcherTypeOK
  <2> QED
    BY <2>1, <2>2, <2>3 DEF ActiveBlocks
<1>4. PipesWaiting'
  <2>1. ToUpdate' = ToUpdate
    BY <1>0 DEF ToUpdate, Updating, LoopTypeOK
  <2> QED
    BY <1>0, <2>1 DEF PipesWaiting
<1> QED
  BY <1>1, <1>2, <1>3, <1>4

\* A child only ever adds to a pipe.
LEMMA ChildStepInv ==
  ASSUME LoopInv, IInv', Async!Reported', NEW p \in Pids, ChildStep(Child(p))
  PROVE  LoopInv'
<1> USE LoopConstants DEF LoopInv, ChildStep, loopVars, timerVars, watcherVars
<1>0. /\ UNCHANGED <<output, updating>>
      /\ \A b \in Blocks : pipe[b] # <<>> => pipe'[b] # <<>>
  <2>1. CASE ChildRuns(p) \/ ChildExits(p) \/ ChildKilled(p)
    BY <2>1 DEF ChildRuns, ChildExits, ChildKilled, Exits
  <2>2. CASE ChildWrites(p) \/ ChildFails(p)
    <3>1. /\ UNCHANGED <<output, updating>>
          /\ \E text \in Texts :
               pipe' = [pipe EXCEPT ![child[p].block] = Append(@, text)]
      BY <2>2, Constants DEF ChildWrites, ChildFails, Writes, IInv, TypeOK, Children
    <3>2. pipe \in [Blocks -> Seq(Texts)]
      BY DEF IInv, TypeOK
    <3>3. PICK text \in Texts : pipe' = [pipe EXCEPT ![child[p].block] = Append(@, text)]
      BY <3>1, Zenon
    <3>4. ASSUME NEW b \in Blocks, pipe[b] # <<>> PROVE pipe'[b] # <<>>
      <4>1. pipe'[b] = pipe[b] \/ pipe'[b] = Append(pipe[b], text)
        BY <3>2, <3>3, Zenon
      <4>2. pipe[b] \in Seq(Texts)
        BY <3>2, Zenon
      <4> HIDE DEF LoopInv, ChildStep
      <4> QED
        BY <3>4, <4>1, <4>2
    <3> QED
      BY <3>1, <3>4, Zenon
  <2> QED
    BY <2>1, <2>2 DEF Child
<1>1. LoopTypeOK'
  BY DEF LoopTypeOK, IInv, WatcherTypeOK
<1>2. Handling' /\ CursorAtRest' /\ RootIsCurrent' /\ OutputIsNewer'
  BY <1>0 DEF Handling, CursorAtRest, RootIsCurrent, OutputIsNewer, Executing, SignalsPending
<1>3. ActiveBlocks' /\ UpdatingActive'
  BY <1>0 DEF ActiveBlocks, UpdatingActive, Updating, NextActive
<1>4. PipesWaiting'
  <2>1. ToUpdate' = ToUpdate /\ UNCHANGED active_blocks
    BY <1>0 DEF ToUpdate
  <2>2. \A i \in ToUpdate : active_blocks[i] \in Blocks
    BY DEF ToUpdate, LoopTypeOK, WatcherTypeOK, ActiveBlocks
  <2> QED
    BY <1>0, <2>1, <2>2 DEF PipesWaiting
<1> QED
  BY <1>1, <1>2, <1>3, <1>4

LEMMA StutterInv ==
  ASSUME LoopInv, IInv', Async!Reported', UNCHANGED vars PROVE LoopInv'
BY DEF LoopInv, LoopTypeOK, IInv, WatcherTypeOK, Handling, CursorAtRest, RootIsCurrent,
       OutputIsNewer, ActiveBlocks, UpdatingActive, PipesWaiting, ToUpdate, Updating,
       NextActive, Executing, SignalsPending, vars, loopVars, blockVars, timerVars, watcherVars

\* The invariant is inductive.
LEMMA LoopInvStep ==
  ASSUME LoopInv, [Next]_vars PROVE LoopInv'
<1> USE NextKeepsBlocks
<1>1. CASE Startup \/ StartupFails
  BY <1>1, StartupInv, StartupFailsInv
<1>2. CASE SkipBlock \/ ExecuteBlock \/ ExecuteFails \/ BlocksExecuted
  BY <1>2, SkipBlockInv, ExecuteBlockInv, ExecuteFailsInv, BlocksExecutedInv
<1>3. CASE Poll \/ PollFails
  BY <1>3, PollInv, PollFailsInv
<1>4. CASE ReadSignal \/ ReadSignalFails
  BY <1>4, ReadSignalInv, ReadSignalFailsInv
<1>5. CASE DispatchExecution \/ DispatchTermination \/ DispatchBlock
  BY <1>5, DispatchExecutionInv, DispatchTerminationInv, DispatchBlockInv
<1>6. CASE UpdateRead \/ UpdateReadFails \/ UpdateEnds \/ UpdatesDone
  BY <1>6, UpdateReadInv, UpdateReadFailsInv, UpdateEndsInv, UpdatesDoneInv
<1>7. CASE StatusSame \/ StatusChanges \/ StatusWriteFails \/ Cleanup
  BY <1>7, StatusSameInv, StatusChangesInv, StatusWriteFailsInv, CleanupInv
<1>8. CASE AlarmExpires \/ SourceChanges
  BY <1>8, AlarmExpiresInv, SourceChangesInv
<1>9. CASE \E s \in EnvSignals : Raise(s) \/ RaiseAtStart(s)
  BY <1>9, RaiseInv, RaiseAtStartInv
<1>10. CASE \E p \in Pids : ChildStep(Child(p))
  BY <1>10, ChildStepInv
<1>11. CASE UNCHANGED vars
  BY <1>11, StutterInv
<1> QED
  BY <1>1, <1>2, <1>3, <1>4, <1>5, <1>6, <1>7, <1>8, <1>9, <1>10, <1>11
     DEF Next, Program, Gone

LEMMA LoopInvInit == Init => LoopInv
<1> SUFFICES ASSUME Init PROVE LoopInv
  OBVIOUS
<1> USE LoopConstants, Constants DEF Init
<1>1. IInv
  BY InitIInv
<1>2. Async!Reported
  BY DEF BlockInit, Async!Reported, Busy, Empty, Async!Blocks, Blocks
<1>3. timer \in [time : 0 .. compute_reset_value,
                 tick : {compute_tick}, reset_value : {compute_reset_value}] /\ alarm \in BOOLEAN
  <2> USE TimerNumbers DEF TimerInit, timer_new
  <2>1. compute_reset_value \in 0 .. compute_reset_value
    OBVIOUS
  <2> QED
    BY <2>1
<1>4. LoopTypeOK
  BY <1>1, <1>3 DEF LoopTypeOK, IInv, Places, WatcherTypeOK, WatcherInit, NothingActive
<1>5. Handling /\ CursorAtRest /\ RootIsCurrent /\ OutputIsNewer
  BY DEF Handling, CursorAtRest, RootIsCurrent, OutputIsNewer, BlockInit, Empty
<1>6. ActiveBlocks /\ UpdatingActive /\ PipesWaiting
  BY DEF ActiveBlocks, UpdatingActive, PipesWaiting, ToUpdate, WatcherInit, NothingActive, BlockInit
<1> QED
  BY <1>1, <1>2, <1>4, <1>5, <1>6 DEF LoopInv

LEMMA LoopInvariant == Spec => []LoopInv
BY LoopInvInit, LoopInvStep, PTL DEF Spec

-------------------------------------------------------------------------------
(* What follows from it.                                                   *)

\* The variables of the whole program always have their types.
THEOREM LoopTypeCorrect == Spec => []LoopTypeOK
BY LoopInvariant, PTL DEF LoopInv

\* The event loop is a proper user of block.c.
THEOREM ProperUse == Spec => BlocksUsedProperly
<1>1. Init => BlockInit
  BY DEF Init
<1> QED
  BY <1>1, NextUsesBlocks, LoopInvariant, PTL DEF Spec, BlocksUsedProperly, BlockSpec

\* In the whole program, too, no two children of a block exist, the waitpid() of an
\* update is short, and a line goes with its own exit status.
THEOREM ProgramKeepsBlocks ==
  Spec => [](OneChildPerBlock /\ WaitsForOwnExit /\ OneLinePerRun /\ StatusMatchesText)
<1>1. IInv => OneChildPerBlock /\ WaitsForOwnExit /\ OneLinePerRun /\ StatusMatchesText
  BY DEF IInv, ChildKnown, OneChildPerBlock
<1> QED
  BY <1>1, LoopInvariant, PTL DEF LoopInv

\* The updates of a round only read pipes that have a line, each once.
THEOREM ReadsHaveData == Spec => []NeverReadsEmptyPipe
<1>1. LoopInv => NeverReadsEmptyPipe
  <2> SUFFICES ASSUME LoopInv, pc = "update",
                      NEW i \in cursor + (IF updating = NoBlock THEN 1 ELSE 2)
                                  .. active_block_count
               PROVE  /\ i <= Len(active_blocks)
                      /\ pipe[active_blocks[i]] # <<>>
                      /\ \A k \in 1 .. i - 1 : active_blocks[k] # active_blocks[i]
    BY DEF NeverReadsEmptyPipe
  <2>1. i \in ToUpdate /\ i \in 1 .. active_block_count /\ active_block_count \in Nat
    BY DEF ToUpdate, LoopInv, LoopTypeOK, WatcherTypeOK
  <2> QED
    BY <2>1 DEF LoopInv, ActiveBlocks, PipesWaiting
<1> QED
  BY <1>1, LoopInvariant, PTL

\* The program goes to sleep with the bar up to date.
THEOREM UpToDate == Spec => []BarUpToDate
<1>1. LoopInv => BarUpToDate
  BY DEF LoopInv, RootIsCurrent, OutputIsNewer, BarUpToDate
<1> QED
  BY <1>1, LoopInvariant, PTL

\* What the bar shows of a block never gets older.
THEOREM BarOrder == Spec => BarNeverGoesBack
<1>1. LoopInv /\ [Next]_vars
        => [root # Unset => \A b \in Blocks : root[b] <= root'[b]]_root
  <2> SUFFICES ASSUME LoopInv, [Next]_vars, root' # root, root # Unset
               PROVE  \A b \in Blocks : root[b] <= root'[b]
    OBVIOUS
  <2>1. StatusChanges
    BY DEF Next, Program, Startup, StartupFails, SkipBlock, ExecuteBlock, ExecuteFails,
           BlocksExecuted, Poll, PollFails, ReadSignal, ReadSignalFails,
           DispatchExecution, DispatchTermination, DispatchBlock, UpdateRead,
           UpdateReadFails, UpdateEnds, UpdatesDone, StatusSame, StatusWriteFails,
           Cleanup, AlarmExpires, Raise, RaiseAtStart, ChildStep, SourceChanges, Gone,
           vars, loopVars
  <2> QED
    BY <2>1 DEF StatusChanges, LoopInv, RootIsCurrent, OutputIsNewer
<1> QED
  BY <1>1, LoopInvariant, PTL DEF Spec, BarNeverGoesBack

-------------------------------------------------------------------------------
(* The timer.                                                              *)

\* Whoever sends SIGALRM besides alarm(), the timer goes on.
TimerKept ==
  InLoop /\ is_alive /\ compute_tick > 0 =>
    alarm \/ pending[TIMER_SIGNAL] > 0 \/ info = TIMER_SIGNAL

\* Nothing times the program until it has armed its first alarm.
BeforeTimer ==
  pc \in {"start", "kickstart"} => ~alarm /\ pending[TIMER_SIGNAL] = 0

\* Both hold after a step if they did before.  The timer has one token only as long
\* as nobody else sends SIGALRM.
KeepsTimer ==
  /\ TimerKept => TimerKept'
  /\ TIMER_SIGNAL \notin EnvSignals /\ BeforeTimer /\ TimerNeverLost
       => BeforeTimer' /\ TimerNeverLost'

LEMMA TimerPending ==
  ASSUME LoopTypeOK
  PROVE  TIMER_SIGNAL \in Handled /\ pending[TIMER_SIGNAL] \in Nat
<1>1. TIMER_SIGNAL \in Handled
  BY LoopConstants
<1>2. pending \in [Handled -> 0 .. SigQueueLimit]
  BY DEF LoopTypeOK
<1> QED
  BY <1>1, <1>2, LoopConstants

\* A step that leaves the alarm, the signals and the flag alone, and does not come
\* into the loop from outside.
LEMMA SameTimer ==
  ASSUME UNCHANGED <<alarm, pending, info>>,
         InLoop' /\ is_alive' => InLoop /\ is_alive,
         pc' \in {"start", "kickstart"} => pc \in {"start", "kickstart"}
  PROVE  KeepsTimer
BY DEF KeepsTimer, TimerKept, TimerNeverLost, BeforeTimer

\* After a step out of the loop, or into the last round, no timer is needed.
LEMMA NoTimer ==
  ASSUME ~(InLoop' /\ is_alive'), pc' \notin {"start", "kickstart"}
  PROVE  KeepsTimer
BY DEF KeepsTimer, TimerKept, TimerNeverLost, BeforeTimer

\* timer_arm() makes a token where there is none: before the first round, and
\* when the only one is the signal being handled.
LEMMA ArmsTimer == ASSUME LoopInv, BlocksExecuted PROVE KeepsTimer
<1>1. pending[TIMER_SIGNAL] \in Nat /\ UNCHANGED pending /\ pc' \notin {"start", "kickstart"}
  BY TimerPending DEF LoopInv, BlocksExecuted
<1>2. CASE pc = "refresh"
  BY <1>1, <1>2, LoopConstants
     DEF BlocksExecuted, LoopInv, Handling, KeepsTimer, TimerKept, TimerNeverLost,
         BeforeTimer, InLoop, timerVars, TIMER_SIGNAL, REFRESH_SIGNAL, NoSignal
<1>3. CASE pc # "refresh"
  <2>1. compute_tick > 0 => alarm'
    BY <1>3, TimerArmTypes DEF BlocksExecuted, LoopInv
  <2>2. info' = NoSignal /\ info' # TIMER_SIGNAL
    BY LoopConstants DEF BlocksExecuted
  <2>3. BeforeTimer /\ TimerNeverLost /\ is_alive' /\ compute_tick > 0
          => pending[TIMER_SIGNAL] = 0
    BY <1>1, <1>3 DEF BlocksExecuted, Executing, LoopInv, Handling, BeforeTimer, TimerNeverLost, InLoop
  <2>4. TimerKept'
    BY <2>1 DEF TimerKept
  <2>5. BeforeTimer /\ TimerNeverLost => TimerNeverLost'
    BY <1>1, <2>1, <2>2, <2>3 DEF TimerNeverLost
  <2> QED
    BY <1>1, <2>4, <2>5 DEF KeepsTimer, BeforeTimer
<1> QED
  BY <1>2, <1>3

LEMMA ReadsTimer == ASSUME LoopInv, ReadSignal PROVE KeepsTimer
<1>1. /\ pending[TIMER_SIGNAL] \in Nat /\ TIMER_SIGNAL \in Handled
      /\ pending \in [Handled -> 0 .. SigQueueLimit]
      /\ info # TIMER_SIGNAL
  BY TimerPending, LoopConstants DEF LoopInv, LoopTypeOK, ReadSignal, Handling
<1>2. CASE info' = TIMER_SIGNAL
  <2>1. pending'[TIMER_SIGNAL] = pending[TIMER_SIGNAL] - 1
    BY <1>1, <1>2 DEF ReadSignal
  <2> QED
    BY <1>1, <1>2, <2>1
       DEF ReadSignal, KeepsTimer, TimerKept, TimerNeverLost, BeforeTimer, InLoop, timerVars
<1>3. CASE info' # TIMER_SIGNAL
  <2>1. pending'[TIMER_SIGNAL] = pending[TIMER_SIGNAL]
    BY <1>1, <1>3 DEF ReadSignal
  <2> QED
    BY <1>1, <1>3, <2>1
       DEF ReadSignal, KeepsTimer, TimerKept, TimerNeverLost, BeforeTimer, InLoop, timerVars
<1> QED
  BY <1>2, <1>3

\* A signal of a block is not that of the timer.
LEMMA BlockSignalTimer == ASSUME LoopInv, DispatchBlock PROVE KeepsTimer
<1>1. info # TIMER_SIGNAL /\ info' # TIMER_SIGNAL
  BY ConfigAssumption, LoopConstants
     DEF DispatchBlock, Requested, SIGRTMIN, TIMER_SIGNAL, NoSignal
<1> QED
  BY <1>1 DEF DispatchBlock, KeepsTimer, TimerKept, TimerNeverLost, BeforeTimer, InLoop, timerVars

\* The alarm becomes a pending signal.
LEMMA AlarmTimer == ASSUME LoopInv, AlarmExpires PROVE KeepsTimer
<1>1. /\ pending[TIMER_SIGNAL] \in Nat
      /\ pending'[TIMER_SIGNAL] \in Nat \ {0}
      /\ pending'[TIMER_SIGNAL] = 1 \/ pending[TIMER_SIGNAL] > 1
  <2>1. TIMER_SIGNAL \in Handled /\ TIMER_SIGNAL < SIGRTMIN
    BY TimerPending DEF LoopInv, TIMER_SIGNAL, SIGRTMIN
  <2>2. pending \in [Handled -> 0 .. SigQueueLimit]
    BY DEF LoopInv, LoopTypeOK
  <2> QED
    BY <2>1, <2>2, RaisedPending, TimerPending, LoopConstants DEF LoopInv, AlarmExpires
<1> QED
  BY <1>1 DEF AlarmExpires, loopVars, KeepsTimer, TimerKept, TimerNeverLost, BeforeTimer, InLoop

LEMMA RaiseTimer == ASSUME LoopInv, NEW s \in EnvSignals, Raise(s) PROVE KeepsTimer
<1>1. s \in Handled /\ pending \in [Handled -> 0 .. SigQueueLimit] /\ TIMER_SIGNAL \in Handled
  BY LoopConstants DEF LoopInv, LoopTypeOK
<1>2. /\ pending[TIMER_SIGNAL] \in Nat /\ pending'[TIMER_SIGNAL] \in Nat
      /\ pending[TIMER_SIGNAL] <= pending'[TIMER_SIGNAL]
      /\ s # TIMER_SIGNAL => pending'[TIMER_SIGNAL] = pending[TIMER_SIGNAL]
  BY <1>1, RaisedPending, LoopConstants DEF Raise
<1> QED
  BY <1>2 DEF Raise, loopVars, timerVars, KeepsTimer, TimerKept, TimerNeverLost, BeforeTimer, InLoop

LEMMA TimerStep == ASSUME LoopInv, [Next]_vars PROVE KeepsTimer
<1>1. CASE StartupFails \/ PollFails \/ StatusWriteFails \/ Cleanup
           \/ \E s \in EnvSignals : RaiseAtStart(s)
  BY <1>1, NoTimer DEF StartupFails, PollFails, StatusWriteFails, Cleanup, RaiseAtStart, InLoop
<1>2. CASE ReadSignalFails \/ DispatchTermination
  BY <1>2, NoTimer DEF ReadSignalFails, DispatchTermination
<1>3. CASE ExecuteFails
  BY <1>3, NoTimer DEF ExecuteFails, InLoop
<1>4. CASE Startup \/ SkipBlock \/ ExecuteBlock \/ Poll \/ DispatchExecution
  BY <1>4, SameTimer DEF Startup, SkipBlock, ExecuteBlock, Poll, DispatchExecution, InLoop, timerVars
<1>5. CASE UpdateRead \/ UpdateReadFails \/ UpdateEnds \/ UpdatesDone \/ StatusSame \/ StatusChanges
  BY <1>5, SameTimer DEF UpdateRead, UpdateReadFails, UpdateEnds, UpdatesDone, StatusSame, StatusChanges,
                         InLoop, NextRound, Updating, timerVars, loopVars
<1>6. CASE SourceChanges \/ UNCHANGED vars \/ \E p \in Pids : ChildStep(Child(p))
  BY <1>6, SameTimer DEF SourceChanges, ChildStep, InLoop, timerVars, loopVars, vars
<1> QED
  BY <1>1, <1>2, <1>3, <1>4, <1>5, <1>6, ArmsTimer, ReadsTimer, BlockSignalTimer, AlarmTimer, RaiseTimer
     DEF Next, Program, Gone

\* As long as the program is to go on, and whoever sends it whatever signal, the
\* next update in time is on its way.
THEOREM TimerGoesOn == Spec => []TimerKept
<1>1. Init => TimerKept
  BY DEF Init, TimerKept, InLoop
<1>2. LoopInv /\ TimerKept /\ [Next]_vars => TimerKept'
  BY TimerStep DEF KeepsTimer
<1> QED
  BY <1>1, <1>2, LoopInvariant, PTL DEF Spec

\* Unless somebody else sends SIGALRM, it is so exactly once.
THEOREM TimerToken ==
  ASSUME TIMER_SIGNAL \notin EnvSignals PROVE Spec => []TimerNeverLost
<1>1. Init => BeforeTimer /\ TimerNeverLost
  BY LoopConstants DEF Init, BeforeTimer, TimerInit, TimerNeverLost, InLoop
<1>2. LoopInv /\ BeforeTimer /\ TimerNeverLost /\ [Next]_vars => (BeforeTimer /\ TimerNeverLost)'
  BY TimerStep DEF KeepsTimer
<1> QED
  BY <1>1, <1>2, LoopInvariant, PTL DEF Spec

-------------------------------------------------------------------------------
(***************************************************************************)
(* The event loop implements BlockSlot for its first block, for every      *)
(* number of blocks and all signals, as long as no child is killed and     *)
(* SIGCHLD is not ignored: either makes a run end that has not finished as *)
(* BlockSlot knows it.                                                     *)
(***************************************************************************)

\* The state of the slot: the number of requests that wait or are being handled,
\* and what the command of the run in progress has printed.
SlotSignal == SIGRTMIN + signal[0]

SlotRequests ==
  IF signal[0] = 0 THEN 0 ELSE pending[SlotSignal] + (IF info = SlotSignal THEN 1 ELSE 0)

SlotPrinted ==
  IF ~Finished(0) THEN Empty
  ELSE IF RunOf(0).status = 0 THEN RunOf(0).text ELSE Failed

SlotStep == UNCHANGED Slot(0)!slotVars \/ Slot(0)!SlotNext(Texts)

Clicks(n) == [i \in 1 .. n |-> NoButtonInLoop]

LEMMA NoClicks == Clicks(0) = <<>>
BY DEF Clicks

LEMMA MoreClicks == ASSUME NEW n \in Nat PROVE Append(Clicks(n), NoButtonInLoop) = Clicks(n + 1)
BY DEF Clicks

LEMMA FewerClicks ==
  ASSUME NEW n \in Nat \ {0}
  PROVE  Clicks(n) # <<>> /\ Head(Clicks(n)) = NoButtonInLoop /\ Tail(Clicks(n)) = Clicks(n - 1)
BY DEF Clicks

LEMMA FirstBlock ==
  /\ 0 \in Blocks
  /\ signal[0] \in Nat
  /\ signal[0] > 0 => SlotSignal \in Handled
  /\ SlotSignal \notin {SIGINT, REFRESH_SIGNAL, TIMER_SIGNAL, SIGTERM, NoSignal}
  /\ Failed # Empty /\ Failed \notin Texts
BY ConfigAssumption, BlockAssumption
   DEF Blocks, Handled, SlotSignal, SIGINT, REFRESH_SIGNAL, TIMER_SIGNAL, SIGTERM, SIGRTMIN,
       NoSignal, Failed, Empty, Texts

LEMMA SlotStart == Init => Slot(0)!SlotInit
<1> SUFFICES ASSUME Init PROVE Slot(0)!SlotInit
  OBVIOUS
<1>1. SlotRequests = 0
  BY FirstBlock DEF Init, SlotRequests
<1>2. output[0] = Empty /\ ~Busy(0)
  BY FirstBlock DEF Init, BlockInit, Busy
<1> QED
  BY <1>1, <1>2, NoClicks
     DEF Slot!SlotInit, Finished, Slot!NoButton, NoButtonInLoop, Clicks, SlotRequests, SlotSignal

LEMMA SlotStutters ==
  ASSUME UNCHANGED <<SlotRequests, fork_pid[0], Finished(0), SlotPrinted, output[0]>>
  PROVE  SlotStep
BY DEF SlotStep, Slot!slotVars, SlotRequests, SlotSignal, SlotPrinted, Finished, Busy, NoButtonInLoop

\* The actions of the slot, in these terms.
LEMMA SlotServes ==
  ASSUME SlotRequests \in Nat \ {0}, SlotRequests' = SlotRequests - 1,
         ~Busy(0), Busy(0)', ~Finished(0)', UNCHANGED output[0]
  PROVE  SlotStep
<1>1. Slot(0)!Serve
  BY FewerClicks
     DEF Slot!Serve, Slot!StartWith, Slot!NoButton, NoButtonInLoop, Clicks, SlotRequests,
         SlotSignal, Finished
<1> QED
  BY <1>1 DEF SlotStep, Slot!SlotNext

LEMMA SlotDrops ==
  ASSUME SlotRequests \in Nat \ {0}, SlotRequests' = SlotRequests - 1,
         UNCHANGED <<fork_pid[0], Finished(0), SlotPrinted, output[0]>>
  PROVE  SlotStep
<1>1. Slot(0)!Drop
  BY FewerClicks
     DEF Slot!Drop, NoButtonInLoop, Clicks, SlotRequests, SlotSignal, SlotPrinted, Finished, Busy
<1> QED
  BY <1>1 DEF SlotStep, Slot!SlotNext

LEMMA SlotRuns ==
  ASSUME UNCHANGED SlotRequests, ~Busy(0), Busy(0)', ~Finished(0)', UNCHANGED output[0]
  PROVE  SlotStep
<1>1. Slot(0)!TimedRun
  BY DEF Slot!TimedRun, Slot!StartWith, Slot!NoButton, NoButtonInLoop, SlotRequests,
         SlotSignal, Finished
<1> QED
  BY <1>1 DEF SlotStep, Slot!SlotNext

LEMMA SlotRequested ==
  ASSUME SlotRequests \in Nat, SlotRequests' = SlotRequests + 1,
         UNCHANGED <<fork_pid[0], Finished(0), SlotPrinted, output[0]>>
  PROVE  SlotStep
<1>1. Slot(0)!SlotRequest(NoButtonInLoop)
  BY MoreClicks
     DEF Slot!SlotRequest, Slot!Request, NoButtonInLoop, Clicks, SlotRequests, SlotSignal,
         SlotPrinted, Finished, Busy
<1> QED
  BY <1>1 DEF SlotStep, Slot!SlotNext, Slot!NoButton, NoButtonInLoop

LEMMA SlotFinishes ==
  ASSUME UNCHANGED <<SlotRequests, fork_pid[0], output[0]>>,
         Busy(0), ~Finished(0), Finished(0)', SlotPrinted' \in Texts \cup {Failed}
  PROVE  SlotStep
<1>1. Slot(0)!SlotFinish(SlotPrinted')
  BY DEF Slot!SlotFinish, Slot!Finish, NoButtonInLoop, SlotRequests, SlotSignal,
         SlotPrinted, Finished, Busy
<1> QED
  BY <1>1 DEF SlotStep, Slot!SlotNext

LEMMA SlotCollects ==
  ASSUME UNCHANGED SlotRequests, Busy(0), Finished(0), ~Busy(0)',
         output'[0] = IF SlotPrinted = Failed THEN output[0] ELSE SlotPrinted
  PROVE  SlotStep
<1>1. Slot(0)!Collect
  BY DEF Slot!Collect, Slot!NoButton, NoButtonInLoop, SlotRequests, SlotSignal,
         SlotPrinted, Finished
<1> QED
  BY <1>1 DEF SlotStep, Slot!SlotNext

-------------------------------------------------------------------------------
(* The steps of the program are steps of the slot or stutter.              *)

LEMMA SlotRequestsType ==
  ASSUME LoopInv
  PROVE  SlotRequests \in Nat /\ (signal[0] > 0 => pending[SlotSignal] \in Nat)
<1>1. signal[0] \in Nat /\ (signal[0] > 0 => SlotSignal \in Handled)
  BY FirstBlock
<1>2. \A s \in Handled : pending[s] \in Nat
  BY PendingTypes DEF LoopInv
<1>3. signal[0] > 0 => pending[SlotSignal] \in Nat
  BY <1>1, <1>2
<1>4. SlotRequests \in Nat
  BY <1>1, <1>3 DEF SlotRequests
<1> QED
  BY <1>3, <1>4

\* The signals of the program's own are not that of the block.
LEMMA SameRequests ==
  ASSUME UNCHANGED pending,
         UNCHANGED info \/ (info # SlotSignal /\ info' # SlotSignal)
  PROVE  UNCHANGED SlotRequests
BY DEF SlotRequests

\* A step that leaves the processes and outputs of all blocks alone.
LEMMA ControlSlot ==
  ASSUME UNCHANGED <<fork_pid, child, output, SlotRequests>> PROVE SlotStep
BY SlotStutters DEF Finished, SlotPrinted, Busy, RunOf

\* The child of the first block, while there is one.
LEMMA OwnChild ==
  ASSUME LoopInv, ~sigchld_ignored, Busy(0)
  PROVE  /\ fork_pid[0] \in Pids
         /\ child[fork_pid[0]].phase # "free" /\ child[fork_pid[0]].block = 0
BY FirstBlock DEF LoopInv, IInv, TypeOK, KnownChild, Busy

\* A fork for the first block starts a run that has not finished, a fork for
\* another one takes another process.
LEMMA ForkOwn ==
  ASSUME LoopInv, Fork(0)
  PROVE  ~Busy(0) /\ Busy(0)' /\ ~Finished(0)' /\ UNCHANGED output[0]
<1> PICK p \in FreePids : ForkAs(0, p)
  BY DEF Fork
<1>1. /\ fork_pid \in [Blocks -> Pids \cup {NoPid}] /\ child \in [Pids -> Children]
      /\ p \in Pids /\ NoPid \notin Pids /\ 0 \in Blocks
  BY Constants, FirstBlock DEF LoopInv, IInv, TypeOK, FreePids
<1>2. fork_pid'[0] = p /\ child'[p].phase = "running" /\ UNCHANGED output
  BY <1>1 DEF ForkAs
<1> QED
  BY <1>1, <1>2 DEF Fork, Busy, Finished, RunOf

LEMMA ForkOther ==
  ASSUME LoopInv, ~sigchld_ignored, NEW b \in Blocks \ {0}, Fork(b)
  PROVE  UNCHANGED <<fork_pid[0], Finished(0), SlotPrinted, output[0]>>
<1> PICK p \in FreePids : ForkAs(b, p)
  BY DEF Fork
<1>1. fork_pid'[0] = fork_pid[0] /\ UNCHANGED output
  BY FirstBlock DEF ForkAs, LoopInv, IInv, TypeOK
<1>2. Busy(0) => child'[fork_pid[0]] = child[fork_pid[0]]
  BY OwnChild DEF ForkAs, FreePids, LoopInv, IInv, TypeOK
<1> QED
  BY <1>1, <1>2 DEF Busy, Finished, RunOf, SlotPrinted

LEMMA ExecuteBlockSlot ==
  ASSUME LoopInv, ~sigchld_ignored, ExecuteBlock PROVE SlotStep
<1>1. UNCHANGED SlotRequests
  BY SameRequests DEF ExecuteBlock
<1>2. cursor \in Blocks
  BY Constants DEF LoopInv, LoopTypeOK, ExecuteBlock, Blocks
<1>3. CASE UNCHANGED blockVars
  BY <1>1, <1>3, ControlSlot DEF blockVars
<1>4. CASE Fork(cursor) /\ cursor = 0
  BY <1>1, <1>4, ForkOwn, SlotRuns
<1>5. CASE Fork(cursor) /\ cursor # 0
  BY <1>1, <1>2, <1>5, ForkOther, SlotStutters
<1> QED
  BY <1>3, <1>4, <1>5 DEF ExecuteBlock, block_execute

\* The signal of the first block is for no block before it.
LEMMA FirstRequested ==
  ASSUME LoopInv, DispatchBlock
  PROVE  /\ Min(Requested) \in Blocks
         /\ Min(Requested) = 0 => info = SlotSignal /\ signal[0] > 0
         /\ info = SlotSignal => Min(Requested) = 0
<1>1. Requested \subseteq Nat /\ Requested # {}
  BY Constants DEF Requested, Blocks, DispatchBlock
<1>2. Min(Requested) \in Requested /\ \A b \in Requested : Min(Requested) <= b
  BY <1>1, MinOfNat
<1>3. info \in Handled
  BY DEF LoopInv, Handling, DispatchBlock
<1>4. info = SIGRTMIN + signal[0] => signal[0] > 0
  BY <1>3, FirstBlock, ConfigAssumption
     DEF Handled, SIGRTMIN, SIGINT, REFRESH_SIGNAL, TIMER_SIGNAL, SIGTERM
<1>5. Min(Requested) \in Nat /\ Min(Requested) \in Blocks
  BY <1>1, <1>2 DEF Requested
<1> QED
  BY <1>2, <1>4, <1>5, FirstBlock DEF Requested, SlotSignal

LEMMA DispatchBlockSlot ==
  ASSUME LoopInv, ~sigchld_ignored, DispatchBlock PROVE SlotStep
<1> DEFINE b == Min(Requested)
<1>1. b \in Blocks /\ (b = 0 => info = SlotSignal /\ signal[0] > 0) /\ (info = SlotSignal => b = 0)
  BY FirstRequested
<1>2. block_execute(b) \/ ForkFails(b)
  BY DEF DispatchBlock
<1>3. info' = NoSignal /\ UNCHANGED pending
  BY DEF DispatchBlock
<1> HIDE DEF b
<1>4. b = 0 => SlotRequests \in Nat \ {0} /\ SlotRequests' = SlotRequests - 1
  <2>1. signal[0] > 0 => pending[SlotSignal] \in Nat
    BY SlotRequestsType
  <2> QED
    BY <1>1, <1>3, <2>1, FirstBlock DEF SlotRequests
<1>5. b # 0 => UNCHANGED SlotRequests
  BY <1>1, <1>3, SameRequests, FirstBlock
<1>6. CASE UNCHANGED blockVars
  <2>1. UNCHANGED <<fork_pid[0], Finished(0), SlotPrinted, output[0]>>
    BY <1>6 DEF blockVars, Busy, Finished, RunOf, SlotPrinted
  <2> QED
    BY <1>4, <1>5, <2>1, SlotDrops, SlotStutters
<1>7. CASE Fork(b) /\ b = 0
  BY <1>4, <1>7, ForkOwn, SlotServes
<1>8. CASE Fork(b) /\ b # 0
  BY <1>1, <1>5, <1>8, ForkOther, SlotStutters
<1> QED
  BY <1>2, <1>6, <1>7, <1>8 DEF block_execute, ForkFails

\* The signals other than the first block's change nothing for it, and its own is
\* a request unless the queue is full.
LEMMA RaisedSlot ==
  ASSUME LoopInv, NEW s \in Handled, pending' = Raised(s),
         UNCHANGED <<info, fork_pid, child, output>>
  PROVE  SlotStep
<1>1. pending \in [Handled -> 0 .. SigQueueLimit] /\ \A t \in Handled : pending[t] \in Nat
  BY LoopConstants DEF LoopInv, LoopTypeOK
<1>2. \A t \in Handled : pending'[t] = pending[t] \/ (t = s /\ pending'[t] = pending[t] + 1)
  BY <1>1 DEF Raised
<1>3. signal[0] > 0 => SlotSignal \in Handled
  BY FirstBlock
<1>4. UNCHANGED <<fork_pid[0], Finished(0), SlotPrinted, output[0]>>
  BY DEF Finished, SlotPrinted, Busy, RunOf
<1>5. CASE signal[0] > 0 /\ pending'[SlotSignal] = pending[SlotSignal] + 1
  <2>1. SlotRequests' = SlotRequests + 1
    BY <1>1, <1>3, <1>5 DEF SlotRequests
  <2> QED
    BY <1>4, <2>1, SlotRequestsType, SlotRequested
<1>6. CASE ~(signal[0] > 0 /\ pending'[SlotSignal] = pending[SlotSignal] + 1)
  <2>1. UNCHANGED SlotRequests
    <3>1. CASE signal[0] = 0
      BY <3>1 DEF SlotRequests
    <3>2. CASE signal[0] > 0
      BY <1>2, <1>3, <1>6, <3>2 DEF SlotRequests
    <3> QED
      BY <3>1, <3>2, FirstBlock
  <2> QED
    BY <1>4, <2>1, SlotStutters
<1> QED
  BY <1>5, <1>6

\* The signal that is read becomes the one being handled.
LEMMA ReadSignalSlot == ASSUME LoopInv, ReadSignal PROVE SlotStep
<1>1. /\ pending \in [Handled -> 0 .. SigQueueLimit] /\ \A t \in Handled : pending[t] \in Nat
      /\ info = NoSignal /\ SignalsPending # {} /\ SignalsPending \subseteq Nat
  <2>1. pending \in [Handled -> 0 .. SigQueueLimit] /\ \A t \in Handled : pending[t] \in Nat
    BY LoopConstants DEF LoopInv, LoopTypeOK
  <2>2. info = NoSignal /\ SignalsPending # {}
    BY DEF LoopInv, Handling, ReadSignal
  <2> QED
    BY <2>1, <2>2, LoopConstants DEF SignalsPending
<1>2. info' \in SignalsPending
  BY <1>1, MinOfNat DEF ReadSignal
<1>3. info' \in Handled
  BY <1>2 DEF SignalsPending
<1>4. pending' = [pending EXCEPT ![info'] = @ - 1]
  BY DEF ReadSignal
<1>5. signal[0] > 0 => SlotSignal \in Handled
  BY FirstBlock
<1>6. SlotSignal # NoSignal /\ signal[0] \in Nat
  BY FirstBlock
<1>7. UNCHANGED SlotRequests
  <2>1. CASE signal[0] = 0
    BY <2>1 DEF SlotRequests
  <2>2. CASE signal[0] > 0 /\ info' = SlotSignal
    <3>1. pending'[SlotSignal] = pending[SlotSignal] - 1 /\ pending[SlotSignal] \in Nat
      BY <1>1, <1>4, <1>5, <2>2
    <3> QED
      BY <1>1, <1>6, <2>2, <3>1 DEF SlotRequests
  <2>3. CASE signal[0] > 0 /\ info' # SlotSignal
    <3>1. pending'[SlotSignal] = pending[SlotSignal]
      BY <1>1, <1>4, <1>5, <2>3
    <3> QED
      BY <1>1, <1>6, <2>3, <3>1 DEF SlotRequests
  <2> QED
    BY <1>6, <2>1, <2>2, <2>3
<1> QED
  BY <1>7, ControlSlot DEF ReadSignal, blockVars

\* The end of a run: of the first block's, or of another one with another child.
LEMMA ReapSlot ==
  ASSUME LoopInv, ~sigchld_ignored, NEW b \in Blocks, Reap(b), UNCHANGED SlotRequests
  PROVE  SlotStep
<1> PICK p \in WaitTargets(b) :
      /\ child[p].phase = "zombie"
      /\ Collects(b, p, IF child[p].status = 0 THEN buffer ELSE output[b])
  BY DEF Reap
<1>1. p \in Pids /\ updating = b /\ fork_pid[b] = p /\ child[p].block = b
  BY CollectedIsOwn DEF LoopInv, Reap, WaitTargets
<1>2. TypeOK /\ NoPid \notin Pids /\ NoBlock \notin Blocks /\ 0 \in Blocks
  BY Constants, FirstBlock DEF LoopInv, IInv
<1>3. CASE b = 0
  <2>1. Busy(0) /\ Finished(0) /\ ~Busy(0)'
    BY <1>1, <1>2, <1>3 DEF Collects, Busy, Finished, RunOf, TypeOK
  <2>2. SlotPrinted = IF child[p].status = 0 THEN child[p].text ELSE Failed
    BY <1>1, <1>3, <2>1 DEF SlotPrinted, RunOf
  <2>3. child[p].status = 0 => buffer = child[p].text
    BY <1>1, <1>2 DEF LoopInv, IInv, StatusMatchesText
  <2>4. child[p].text # Failed
    BY <1>1, <1>2, FirstBlock DEF TypeOK, Children
  <2>5. output'[0] = IF child[p].status = 0 THEN buffer ELSE output[0]
    BY <1>2, <1>3 DEF Collects, TypeOK
  <2>6. output'[0] = IF SlotPrinted = Failed THEN output[0] ELSE SlotPrinted
    BY <2>2, <2>3, <2>4, <2>5
  <2> QED
    BY <2>1, <2>6, SlotCollects
<1>4. CASE b # 0
  <2>1. UNCHANGED <<fork_pid[0], output[0]>>
    BY <1>2, <1>4 DEF Collects, TypeOK
  <2>2. Busy(0) => UNCHANGED child[fork_pid[0]]
    BY <1>1, <1>2, <1>4, OwnChild DEF Collects, TypeOK
  <2>3. UNCHANGED <<Finished(0), SlotPrinted>>
    BY <2>1, <2>2 DEF Finished, SlotPrinted, RunOf, Busy
  <2> QED
    BY <2>1, <2>3, SlotStutters
<1> QED
  BY <1>3, <1>4

\* A child that writes its line, or fails, finishes the run.
LEMMA ChildSlot ==
  ASSUME LoopInv, ~sigchld_ignored, "kill" \notin Faults, NEW p \in Pids, Child(p),
         UNCHANGED SlotRequests
  PROVE  SlotStep
<1>1. UNCHANGED <<fork_pid, output>> /\ \A q \in Pids : q # p => UNCHANGED child[q]
  BY DEF Child, ChildRuns, ChildWrites, ChildFails, ChildExits, ChildKilled, Writes, Exits,
         LoopInv, IInv, TypeOK
<1>2. CASE ~Busy(0) \/ fork_pid[0] # p
  <2>1. Busy(0) => UNCHANGED child[fork_pid[0]]
    BY <1>1, <1>2, OwnChild
  <2> QED
    BY <1>1, <2>1, SlotStutters DEF Finished, SlotPrinted, RunOf, Busy
<1>3. CASE Busy(0) /\ fork_pid[0] = p
  <2>1. child[p] \in Children /\ child \in [Pids -> Children]
    BY DEF LoopInv, IInv, TypeOK
  <2>2. CASE ChildRuns(p)
    <3>1. child[p].phase = "running" /\ child'[p].phase = "ran"
      BY <2>1, <2>2 DEF ChildRuns, Children
    <3> QED
      BY <1>1, <1>3, <3>1, SlotStutters DEF Finished, SlotPrinted, RunOf, Busy
  <2>3. CASE ChildWrites(p) \/ ChildFails(p)
    <3>1. /\ child[p].phase \in {"running", "ran"} /\ child'[p].phase = "wrote"
          /\ child'[p].text \in Texts
      BY <2>1, <2>3 DEF ChildWrites, ChildFails, Writes, Children
    <3> QED
      BY <1>1, <1>3, <3>1, SlotFinishes DEF Finished, SlotPrinted, RunOf, Busy
  <2>4. CASE ChildExits(p)
    <3>1. /\ child[p].phase = "wrote" /\ child'[p].phase = "zombie"
          /\ child'[p].status = child[p].status /\ child'[p].text = child[p].text
      BY <2>1, <2>4 DEF ChildExits, Exits, Children
    <3> QED
      BY <1>1, <1>3, <3>1, SlotStutters DEF Finished, SlotPrinted, RunOf, Busy
  <2>5. ~ChildKilled(p)
    BY DEF ChildKilled
  <2> QED
    BY <2>2, <2>3, <2>4, <2>5 DEF Child
<1> QED
  BY <1>2, <1>3

-------------------------------------------------------------------------------
LEMMA NextSlot ==
  ASSUME LoopInv, ~sigchld_ignored, "kill" \notin Faults, [Next]_vars
  PROVE  SlotStep
<1>1. CASE \/ Startup \/ StartupFails \/ SkipBlock \/ Poll \/ PollFails \/ ReadSignalFails
           \/ DispatchExecution \/ UpdateReadFails \/ UpdatesDone
           \/ StatusSame \/ StatusChanges \/ StatusWriteFails \/ Cleanup
           \/ \E s \in EnvSignals : RaiseAtStart(s)
  BY <1>1, SameRequests, ControlSlot
     DEF Startup, StartupFails, SkipBlock, Poll, PollFails, ReadSignalFails,
         DispatchExecution, UpdateReadFails, UpdatesDone, StatusSame, StatusChanges,
         StatusWriteFails, Cleanup, RaiseAtStart, blockVars
<1>2. CASE ExecuteFails \/ BlocksExecuted
  <2>1. info # SlotSignal /\ info' # SlotSignal
    BY <1>2, FirstBlock DEF ExecuteFails, BlocksExecuted, Executing, LoopInv, Handling
  <2> QED
    BY <1>2, <2>1, SameRequests, ControlSlot DEF ExecuteFails, ForkFails, BlocksExecuted, blockVars
<1>3. CASE DispatchTermination
  BY <1>3, SameRequests, ControlSlot, FirstBlock DEF DispatchTermination, blockVars
<1>4. CASE UpdateRead \/ SourceChanges
  BY <1>4, SameRequests, ControlSlot DEF UpdateRead, Read, SourceChanges, Change, loopVars
<1>5. CASE UpdateEnds
  <2>1. UNCHANGED SlotRequests
    BY <1>5, SameRequests DEF UpdateEnds
  <2>2. NextActive \in Blocks
    BY <1>5, NextActiveBlock DEF UpdateEnds
  <2> QED
    BY <1>5, <2>1, <2>2, ReapSlot, ControlSlot DEF UpdateEnds, WaitFails
<1>6. CASE AlarmExpires
  <2>1. TIMER_SIGNAL \in Handled
    BY LoopConstants
  <2> QED
    BY <1>6, <2>1, RaisedSlot DEF AlarmExpires, loopVars, blockVars
<1>7. ASSUME NEW s \in EnvSignals, Raise(s) PROVE SlotStep
  BY <1>7, LoopConstants, RaisedSlot DEF Raise, loopVars, blockVars
<1>8. ASSUME NEW p \in Pids, ChildStep(Child(p)) PROVE SlotStep
  BY <1>8, SameRequests, ChildSlot DEF ChildStep, loopVars
<1>9. CASE UNCHANGED vars
  BY <1>9, SameRequests, ControlSlot DEF vars, loopVars, blockVars
<1> QED
  BY <1>1, <1>2, <1>3, <1>4, <1>5, <1>6, <1>7, <1>8, <1>9,
     ExecuteBlockSlot, DispatchBlockSlot, ReadSignalSlot
     DEF Next, Program, Gone

\* A request starts a run of the block or is dropped, and only the line of a run
\* that has not failed becomes what the bar shows.
THEOREM SlotRefined ==
  ASSUME "kill" \notin Faults, "sigchld_ignored" \notin Faults
  PROVE  Spec => SlotImplemented
<1>1. Init => ~sigchld_ignored
  BY DEF Init, BlockInit
<1>2. LoopInv /\ ~sigchld_ignored /\ [Next]_vars => ~sigchld_ignored'
  <2>1. ASSUME [BlockNext]_blockVars PROVE sigchld_ignored' = sigchld_ignored
    BY <2>1 DEF BlockNext, Fork, ForkAs, Read, Reap, Collects, WaitFails, Change, Child,
                ChildRuns, ChildWrites, ChildFails, ChildExits, ChildKilled, Writes, Exits,
                blockVars
  <2> QED
    BY <2>1, NextUsesBlocks
<1>3. LoopInv /\ ~sigchld_ignored /\ [Next]_vars
        => [UNCHANGED Slot(0)!slotVars \/ Slot(0)!SlotNext(Texts)]_<<blockVars, info, pending>>
  BY NextSlot DEF SlotStep
<1>4. Init => Slot(0)!SlotInit
  BY SlotStart
<1> QED
  BY <1>1, <1>2, <1>3, <1>4, LoopInvariant, PTL DEF Spec, SlotImplemented
===============================================================================
