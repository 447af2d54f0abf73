------------------------------ MODULE EventLoop -------------------------------
(***************************************************************************)
(* The whole program (main.c) with the signal handler, the watcher, the    *)
(* status and the X root window: it starts, runs every block once and then *)
(* serves one signal and all readable pipes per round of its event loop.   *)
(* Blocks and their children are those of Block, the timer is Timer.       *)
(***************************************************************************)
EXTENDS Block, Timer, Watcher, Cli

CONSTANTS EnvSignals,     \* signals that others send to the program
          SigQueueLimit,  \* how many instances of a realtime signal may queue
          Unset           \* the root window name before the program wrote one

VARIABLES
  pc,         \* where the program is
  info,       \* the signal being handled, NoSignal for none
  cursor,     \* the loop variable of execute_blocks(), and of the updates
  is_alive,   \* the variable of event_loop()
  exit_code,  \* the exit status of the program, once it ends
  current,    \* status->current: the outputs it was put together from
  root,       \* the name of the X root window, or in debug mode the last line
              \* printed: what the user sees
  pending     \* pending[s]: instances of signal s waiting to be read

loopVars == <<pc, info, cursor, is_alive, exit_code, current, root, watcherVars>>

vars == <<loopVars, blockVars, timerVars, pending>>

SIGINT == 2
REFRESH_SIGNAL == 10  \* SIGUSR1
TIMER_SIGNAL == 14    \* SIGALRM
SIGTERM == 15
SIGRTMIN == 34
SIGRTMAX == 64
NoSignal == 0

\* The signals of the signal file descriptor.
Handled ==
  {SIGINT, REFRESH_SIGNAL, TIMER_SIGNAL, SIGTERM} \cup
  {SIGRTMIN + signal[b] : b \in {c \in Blocks : signal[c] > 0}}

\* sigaddset() takes the signals of all blocks.
SignalsSupported == \A s \in Handled : s <= SIGRTMAX

ASSUME EventLoopAssumption ==
  /\ EnvSignals \subseteq Handled
  /\ SigQueueLimit \in Nat \ {0}
  /\ Unset \notin [Blocks -> Texts]

\* The places of the program: before the signals are blocked, the first
\* execution of all blocks, the poll, the read of the signal, its handler by
\* kind, the updates, the status, the exit path, and the two ways to be gone.
Places == {"start", "kickstart", "poll", "signal", "dispatch", "timer",
           "refresh", "update", "status", "cleanup", "exited", "killed"}

Stopped == pc \in {"exited", "killed"}

LoopTypeOK ==
  /\ pc \in Places
  /\ info \in Handled \cup {NoSignal}
  /\ cursor \in 0 .. BLOCK_COUNT
  /\ is_alive \in BOOLEAN
  /\ exit_code \in {0, 1}
  /\ current \in [Blocks -> Texts]
  /\ root \in [Blocks -> Texts] \cup {Unset}
  /\ pending \in [Handled -> 0 .. SigQueueLimit]
  /\ timer \in [time : 0 .. compute_reset_value,
                tick : {compute_tick}, reset_value : {compute_reset_value}]
  /\ alarm \in BOOLEAN
  /\ WatcherTypeOK
  /\ TypeOK

Init ==
  /\ BlockInit
  /\ TimerInit
  /\ pc = "start"
  /\ info = NoSignal
  /\ cursor = 0
  /\ WatcherInit
  /\ is_alive = TRUE
  /\ exit_code = 0
  /\ current = [b \in Blocks |-> Empty]
  /\ root = Unset
  /\ pending = [s \in Handled |-> 0]

-------------------------------------------------------------------------------
(* main() up to the event loop.                                            *)

\* The X connection, the pipes and the signal file descriptor are there and
\* the signals are blocked.
Startup ==
  /\ pc = "start"
  /\ cli_accepted
  /\ SignalsSupported
  /\ pc' = "kickstart"
  /\ UNCHANGED <<info, cursor, watcherVars, is_alive, exit_code, current, root,
                 blockVars, timerVars, pending>>

\* A wrong option, no X server, no pipe, no file descriptor, or a signal that does
\* not exist.
StartupFails ==
  /\ pc = "start"
  /\ "startup" \in Faults \/ ~SignalsSupported \/ ~cli_accepted
  /\ pc' = "exited"
  /\ exit_code' = 1
  /\ UNCHANGED <<info, cursor, watcherVars, is_alive, current, root,
                 blockVars, timerVars, pending>>

-------------------------------------------------------------------------------
(* execute_blocks(), one block per step: for all blocks that are due, on a *)
(* timer event and as the kickstart, or for all, on a refresh.             *)

Executing == pc \in {"kickstart", "timer", "refresh"}

\* Mutant of MustRun: a refresh asks the timer, too.
MustRunByTimer(b) == timer_must_run_block(b)

MustRun(b) == pc = "refresh" \/ timer_must_run_block(b)

SkipBlock ==
  /\ Executing
  /\ cursor < BLOCK_COUNT
  /\ ~MustRun(cursor)
  /\ cursor' = cursor + 1
  /\ UNCHANGED <<pc, info, watcherVars, is_alive, exit_code, current, root,
                 blockVars, timerVars, pending>>

ExecuteBlock ==
  /\ Executing
  /\ cursor < BLOCK_COUNT
  /\ MustRun(cursor)
  /\ block_execute(cursor)
  /\ cursor' = cursor + 1
  /\ UNCHANGED <<pc, info, watcherVars, is_alive, exit_code, current, root,
                 timerVars, pending>>

\* The rest of the blocks is not executed and the timer is not armed.  The
\* kickstart ends event_loop() with an error, a handler lets the round go on
\* and be the last one.
ExecuteFails ==
  /\ Executing
  /\ cursor < BLOCK_COUNT
  /\ MustRun(cursor)
  /\ ForkFails(cursor)
  /\ cursor' = 0
  /\ info' = NoSignal
  /\ IF pc = "kickstart"
       THEN pc' = "cleanup" /\ exit_code' = 1 /\ UNCHANGED is_alive
       ELSE pc' = "update" /\ is_alive' = FALSE /\ UNCHANGED exit_code
  /\ UNCHANGED <<watcherVars, current, root, timerVars, pending>>

\* Mutant of BlocksExecuted: only the kickstart arms the timer.
BlocksExecutedUnarmed ==
  /\ Executing
  /\ cursor = BLOCK_COUNT
  /\ cursor' = 0
  /\ info' = NoSignal
  /\ pc' = IF pc = "kickstart" THEN "poll" ELSE "update"
  /\ IF pc = "kickstart" THEN timer_arm ELSE UNCHANGED timerVars
  /\ UNCHANGED <<watcherVars, is_alive, exit_code, current, root, blockVars, pending>>

\* trigger_event() goes on to arm the timer, refresh_callback() does not.
BlocksExecuted ==
  /\ Executing
  /\ cursor = BLOCK_COUNT
  /\ cursor' = 0
  /\ info' = NoSignal
  /\ pc' = IF pc = "kickstart" THEN "poll" ELSE "update"
  /\ IF pc = "refresh" THEN UNCHANGED timerVars ELSE timer_arm
  /\ UNCHANGED <<watcherVars, is_alive, exit_code, current, root, blockVars, pending>>

-------------------------------------------------------------------------------
(* watcher_poll().                                                         *)

SignalsPending == {s \in Handled : pending[s] > 0}

\* The descriptors of the watcher that have POLLIN.
Readable ==
  {i \in FdIndices : IF i = SIGNAL_FD THEN SignalsPending # {} ELSE pipe[i] # <<>>}

Poll ==
  /\ pc = "poll"
  /\ watcher_poll(Readable)
  /\ pc' = IF got_signal(Readable) THEN "signal" ELSE "update"
  /\ UNCHANGED <<info, cursor, is_alive, exit_code, current, root,
                 blockVars, timerVars, pending>>

PollFails ==
  /\ pc = "poll"
  /\ "poll" \in Faults
  /\ pc' = "cleanup"
  /\ exit_code' = 1
  /\ UNCHANGED <<info, cursor, watcherVars, is_alive, current, root,
                 blockVars, timerVars, pending>>

-------------------------------------------------------------------------------
(* signal_handler_process(): one signal per round, the lowest number first. *)

ReadSignal ==
  /\ pc = "signal"
  /\ info' = Min(SignalsPending)
  /\ pending' = [pending EXCEPT ![info'] = @ - 1]
  /\ pc' = "dispatch"
  /\ UNCHANGED <<cursor, watcherVars, is_alive, exit_code, current, root,
                 blockVars, timerVars>>

\* The read fails: the round goes on and is the last one.
ReadSignalFails ==
  /\ pc = "signal"
  /\ "read" \in Faults
  /\ is_alive' = FALSE
  /\ pc' = "update"
  /\ UNCHANGED <<info, cursor, watcherVars, exit_code, current, root,
                 blockVars, timerVars, pending>>

\* trigger_event() or refresh_callback().
DispatchExecution ==
  /\ pc = "dispatch"
  /\ info \in {TIMER_SIGNAL, REFRESH_SIGNAL}
  /\ pc' = IF info = TIMER_SIGNAL THEN "timer" ELSE "refresh"
  /\ UNCHANGED <<info, cursor, watcherVars, is_alive, exit_code, current, root,
                 blockVars, timerVars, pending>>

\* Mutant of DispatchTermination: it is handled as the signals of blocks are.
DispatchTerminationIgnored ==
  /\ pc = "dispatch"
  /\ info \in {SIGTERM, SIGINT}
  /\ info' = NoSignal
  /\ pc' = "update"
  /\ UNCHANGED <<cursor, watcherVars, is_alive, exit_code, current, root,
                 blockVars, timerVars, pending>>

DispatchTermination ==
  /\ pc = "dispatch"
  /\ info \in {SIGTERM, SIGINT}
  /\ is_alive' = FALSE
  /\ info' = NoSignal
  /\ pc' = "update"
  /\ UNCHANGED <<cursor, watcherVars, exit_code, current, root,
                 blockVars, timerVars, pending>>

\* The blocks with the signal being handled; the first of them is executed.
Requested == {b \in Blocks : info = SIGRTMIN + signal[b]}

\* Whether block_execute() succeeded is not looked at.
DispatchBlock ==
  /\ pc = "dispatch"
  /\ Requested # {}
  /\ block_execute(Min(Requested)) \/ ForkFails(Min(Requested))
  /\ info' = NoSignal
  /\ pc' = "update"
  /\ UNCHANGED <<cursor, watcherVars, is_alive, exit_code, current, root,
                 timerVars, pending>>

-------------------------------------------------------------------------------
(* The rest of a round: block_update() for the readable pipes in order,    *)
(* then the status, then the next round or the end.                        *)

Updating == pc = "update" /\ cursor < active_block_count

NextActive == active_blocks[cursor + 1]

UpdateRead ==
  /\ Updating
  /\ Read(NextActive)
  /\ UNCHANGED <<loopVars, timerVars, pending>>

\* The read of the pipe fails, and the result of block_update() is ignored.
UpdateReadFails ==
  /\ Updating
  /\ "read" \in Faults
  /\ updating = NoBlock
  /\ cursor' = cursor + 1
  /\ UNCHANGED <<pc, info, watcherVars, is_alive, exit_code, current, root,
                 blockVars, timerVars, pending>>

\* Mutant of UpdateEnds: block_update() does not wait for the child.
UpdateEndsUnwaited ==
  /\ Updating
  /\ ReapNoHang(NextActive)
  /\ cursor' = cursor + 1
  /\ UNCHANGED <<pc, info, watcherVars, is_alive, exit_code, current, root,
                 timerVars, pending>>

\* waitpid() returns, with the child or with an error.
UpdateEnds ==
  /\ Updating
  /\ Reap(NextActive) \/ WaitFails(NextActive)
  /\ cursor' = cursor + 1
  /\ UNCHANGED <<pc, info, watcherVars, is_alive, exit_code, current, root,
                 timerVars, pending>>

UpdatesDone ==
  /\ pc = "update"
  /\ cursor = active_block_count
  /\ cursor' = 0
  /\ WatcherReset
  /\ pc' = "status"
  /\ UNCHANGED <<info, is_alive, exit_code, current, root,
                 blockVars, timerVars, pending>>

NextRound == IF is_alive THEN "poll" ELSE "cleanup"

StatusSame ==
  /\ pc = "status"
  /\ output = current
  /\ pc' = NextRound
  /\ UNCHANGED <<info, cursor, watcherVars, is_alive, exit_code, current, root,
                 blockVars, timerVars, pending>>

\* Mutant of StatusChanges: status->previous is written.
StatusChangesPrevious ==
  /\ pc = "status"
  /\ output # current
  /\ current' = output
  /\ root' = current
  /\ pc' = NextRound
  /\ UNCHANGED <<info, cursor, watcherVars, is_alive, exit_code,
                 blockVars, timerVars, pending>>

StatusChanges ==
  /\ pc = "status"
  /\ output # current
  /\ current' = output
  /\ root' = output
  /\ pc' = NextRound
  /\ UNCHANGED <<info, cursor, watcherVars, is_alive, exit_code,
                 blockVars, timerVars, pending>>

\* The X server refuses or is gone: event_loop() returns an error.
StatusWriteFails ==
  /\ pc = "status"
  /\ "x11" \in Faults
  /\ ~is_debug_mode
  /\ output # current
  /\ current' = output
  /\ exit_code' = 1
  /\ pc' = "cleanup"
  /\ UNCHANGED <<info, cursor, watcherVars, is_alive, root,
                 blockVars, timerVars, pending>>

\* The exit path of main(), where closing a descriptor may fail.  Children that
\* still run are left alone.
Cleanup ==
  /\ pc = "cleanup"
  /\ pc' = "exited"
  /\ alarm' = FALSE
  /\ exit_code' \in IF "close" \in Faults THEN {exit_code, 1} ELSE {exit_code}
  /\ UNCHANGED <<info, cursor, watcherVars, is_alive, current, root,
                 blockVars, timer, pending>>

Program ==
  \/ Startup \/ StartupFails
  \/ SkipBlock \/ ExecuteBlock \/ ExecuteFails \/ BlocksExecuted
  \/ Poll \/ PollFails
  \/ ReadSignal \/ ReadSignalFails
  \/ DispatchExecution \/ DispatchTermination \/ DispatchBlock
  \/ UpdateRead \/ UpdateReadFails \/ UpdateEnds \/ UpdatesDone
  \/ StatusSame \/ StatusChanges \/ StatusWriteFails
  \/ Cleanup

-------------------------------------------------------------------------------
(* The environment.                                                        *)

\* Signals 1 to 31 do not queue, realtime signals do up to a limit.
Raised(s) ==
  [pending EXCEPT ![s] =
     IF @ < (IF s < SIGRTMIN THEN 1 ELSE SigQueueLimit) THEN @ + 1 ELSE @]

AlarmExpires ==
  /\ alarm
  /\ alarm' = FALSE
  /\ pending' = Raised(TIMER_SIGNAL)
  /\ UNCHANGED <<loopVars, blockVars, timer>>

Raise(s) ==
  /\ ~Stopped
  /\ pc # "start"
  /\ pending' = Raised(s)
  /\ UNCHANGED <<loopVars, blockVars, timerVars>>

\* Until signal_handler_init() has blocked them, the signals have their default
\* action, which is to terminate the process.
RaiseAtStart(s) ==
  /\ pc = "start"
  /\ pc' = "killed"
  /\ UNCHANGED <<info, cursor, watcherVars, is_alive, exit_code, current, root,
                 blockVars, timerVars, pending>>

ChildStep(A) == ~Stopped /\ A /\ UNCHANGED <<loopVars, timerVars, pending>>

SourceChanges ==
  /\ ~Stopped
  /\ \E b \in Blocks : Change(b)
  /\ UNCHANGED <<loopVars, timerVars, pending>>

\* The program is gone and nothing of it moves any more.
Gone == Stopped /\ UNCHANGED vars

Next ==
  \/ Program
  \/ AlarmExpires
  \/ \E s \in EnvSignals : Raise(s) \/ RaiseAtStart(s)
  \/ \E p \in Pids : ChildStep(Child(p))
  \/ SourceChanges
  \/ Gone

\* The kernel runs the program while it is not blocked, alarms expire, and
\* commands end by themselves.  Nobody has to send a signal, change anything,
\* or kill a child.
CommandEnds(p) == ChildRuns(p) \/ ChildWrites(p) \/ ChildFails(p) \/ ChildExits(p)

Fairness ==
  /\ WF_vars(Program)
  /\ WF_vars(AlarmExpires)
  /\ \A p \in Pids : WF_vars(ChildStep(CommandEnds(p)))

Spec == Init /\ [][Next]_vars

FairSpec == Spec /\ Fairness

-------------------------------------------------------------------------------
(* Safety.                                                                 *)

\* The blocks are used as block.c wants: every step of the program leaves them
\* alone or is one of their operations, and no two of these overlap.
BlocksUsedProperly == BlockSpec

InLoop == pc \in {"poll", "signal", "dispatch", "timer", "refresh", "update", "status"}

\* For its first block the whole program is what BlockSlot says of one: a request
\* starts a run or is dropped, and the line of a run that did not fail, no
\* other, becomes the output when the run is collected.  (No button is used.)
Failed == -2

RunOf(b) == child[fork_pid[b]]

Finished(b) == Busy(b) /\ RunOf(b).phase \in {"wrote", "zombie"}

NoButtonInLoop == 0

Slot(b) == INSTANCE BlockSlot WITH
  Buttons <- {}, Nothing <- Empty, Failure <- Failed, button <- NoButtonInLoop,
  requests <-
    [n \in 1 .. (IF signal[b] = 0 THEN 0
                 ELSE pending[SIGRTMIN + signal[b]]
                        + (IF info = SIGRTMIN + signal[b] THEN 1 ELSE 0))
       |-> NoButtonInLoop],
  running <- Busy(b),
  finished <- Finished(b),
  printed <- IF ~Finished(b) THEN Empty
             ELSE IF RunOf(b).status = 0 THEN RunOf(b).text ELSE Failed,
  shown <- output[b]

SlotImplemented ==
  /\ Slot(0)!SlotInit
  /\ [][UNCHANGED Slot(0)!slotVars \/ Slot(0)!SlotNext(Texts)]_<<blockVars, info, pending>>

\* The timer lives on one token: while the program is to go on, either an alarm
\* is scheduled, or it has gone off and is waiting to be read, or it is being
\* handled.  Without it the bar would never be updated in time again; with two
\* the seconds would be counted twice.
TimerNeverLost ==
  InLoop /\ is_alive /\ compute_tick > 0 =>
    (IF alarm THEN 1 ELSE 0)
      + pending[TIMER_SIGNAL]
      + (IF info = TIMER_SIGNAL THEN 1 ELSE 0) = 1

\* Whenever the program goes to sleep the root window shows the outputs of all
\* blocks, however many were updated in the round; it keeps its old name until
\* there is one.
BarUpToDate ==
  pc = "poll" =>
    root = IF \A b \in Blocks : output[b] = Empty THEN Unset ELSE output

\* block_update() is called for pipes that have something to read, each once: its
\* read() has no timeout, and on an empty pipe it would stop the whole bar until
\* the block's command prints again, although the array of active blocks and
\* its length come from two different sources, and a signal is handled between
\* the poll and the updates.
NeverReadsEmptyPipe ==
  pc = "update" =>
    \A i \in cursor + (IF updating = NoBlock THEN 1 ELSE 2) .. active_block_count :
      /\ i <= Len(active_blocks)
      /\ pipe[active_blocks[i]] # <<>>
      /\ \A k \in 1 .. i - 1 : active_blocks[k] # active_blocks[i]

\* Once the root window has shown something of a block it never shows
\* something older of it.
BarNeverGoesBack ==
  [][root # Unset => \A b \in Blocks : root[b] <= root'[b]]_root

-------------------------------------------------------------------------------
(* Liveness.                                                               *)

\* Signals are read for ever, and from some time on each is one with a lower
\* number than s: it arrived before the read, and is read first.
HeldUp(s) == []<>(pc = "dispatch") /\ <>[](pc = "dispatch" => info < s)

\* SIGINT and SIGTERM stop the program, unless signals with lower numbers come so
\* fast that each round reads one of those: refreshes without an end or alarms
\* back to back hold up SIGTERM, and nothing holds up SIGINT, which is the lowest.
TerminationHonoured ==
  \A s \in {SIGINT, SIGTERM} : (pending[s] > 0 ~> Stopped) \/ HeldUp(s)

\* A run that was started is collected, so that the block can run again.
NoRunStuck ==
  \A b \in Blocks : Busy(b) ~> (~Busy(b) \/ Stopped)

Shows(b, v) == root # Unset /\ root[b] >= v

\* Whatever changes in what a block with an interval reports gets shown, without
\* any signal.
TimedBlockCatchesUp ==
  \A b \in Blocks : \A v \in 1 .. MaxVersion :
    interval[b] > 0 /\ source[b] = v ~> Shows(b, v) \/ Stopped

\* The blocks that the signal being handled is for.
Asked ==
  CASE info = REFRESH_SIGNAL -> Blocks
    [] Requested # {} -> {Min(Requested)}
    [] OTHER -> {}

\* A block that is idle when the program turns to a signal for it, its own or
\* the refresh, gets to show a change that it had to report at that time.
IdleRequestHonoured ==
  \A b \in Blocks : \A v \in 1 .. MaxVersion :
    pc = "dispatch" /\ b \in Asked /\ ~Busy(b) /\ source[b] = v
      ~> Shows(b, v) \/ Stopped

\* "a superior choice is to give your block a signal through which you can
\* indicate it to update on relevant event" (README, Signalling changes): what
\* there is to report while the signal waits to be read gets shown.
SignalledChangeShown ==
  \A b \in Blocks : \A v \in 0 .. MaxVersion :
    signal[b] > 0 /\ source[b] = v /\ pending[SIGRTMIN + signal[b]] > 0
      ~> Shows(b, v) \/ Stopped

\* "Collect exit-status of the subprocess to avoid zombification" (the comment
\* in block_update()): a child that has exited is collected.
ZombiesCollected ==
  \A p \in Pids : child[p].phase = "zombie" ~> child[p].phase # "zombie" \/ Stopped
===============================================================================
