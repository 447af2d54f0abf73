# dwmblocks-async: TLA+ models, checks and proofs

This directory is a verification development for dwmblocks-async, the status bar
of a window manager. It holds TLA+ modules translated from the C sources, the TLC
configurations that check them on small instances, and theorems about them
that TLAPS checks for every value of their constants.

`PROJECT.json` lists the components, the runs, the mutants of each property, the
lines of code every definition stands for, the hazards and the theorems.

## The system

The bar is a row of *blocks*. A block is a line `X(icon, command, interval, signal)`
of `config.h`: the command is run every `interval` seconds (0: never by the
timer) and whenever the program gets the signal `SIGRTMIN + signal` (0: no
signal). What the command prints is put between delimiters into the name of the X
root window. The commands run *asynchronously*: each in a child process of
its own that reports through a pipe, so that a slow one does not hold up the bar.
There is one thread. All concurrency is between that thread, the
children, the kernel's timer and whoever sends signals.

| component | state it keeps | operations | what makes it correct |
|---|---|---|---|
| block (`block.c`) | per block: `pipe`, `fork_pid`, `output` | `block_execute` forks a child unless one is there; the child runs the command, writes one line, exits; `block_update` reads, waits, stores | one child per block, a line and an exit status of the same run, outputs never go back, the bar never waits for a command |
| timer (`timer.c`) | `time`, `tick`, `reset_value`, one `alarm(2)` | `timer_new`, `timer_arm`, `timer_must_run_block` | every block is due at the multiples of its interval; the alarm is never lost nor doubled |
| signal handler (`signal-handler.c`) | a `signalfd`, the blocked signals | `init` (block them), `process` (read one, dispatch it) | a signal is not lost before it is read, the terminating ones are honoured |
| watcher (`watcher.c`) | `fds`, `got_signal`, `active_blocks` | `watcher_init`, `watcher_poll` | the array and the count agree with what `poll` reported |
| event loop (`main.c`) | the place in the round, `is_alive` | kickstart, then per round: one signal, all readable blocks, the status | when it sleeps the root window shows all outputs; errors end it |
| status, X11 (`status.c`, `x11.c`) | `current`, `previous`, the root window | `status_update`, `status_write` | the text of the bar is what the outputs say, and fits its buffer |
| util (`util.c`) | none | `gcd`, `truncate_utf8_string` | gcd of the intervals; characters are not cut in two |
| command line (`cli.c`) | a flag | `cli_init` | - |
| bar functions (`bar-functions/`) | files in the runtime directory, settings of other programs | one program per block; clicks arrive as `BLOCK_BUTTON` | what a block shows agrees with what a click has just done |
| services (`services/`) | long-running watchers under systemd | signal the bar when a device changes | every change gets shown |

How they interact: `main.c` calls all others. The timer's alarm arrives as
`SIGALRM` through the signal handler, which calls back `trigger_event` (execute the
due blocks, arm the timer) and `refresh_callback` (execute all). Services and
bar functions send `SIGRTMIN + n` with `pkill`. Children share nothing with the
program but a pipe each.

What is hard here: children, alarm and signals interleave freely; a request
that meets a busy block; the blocking `waitpid`; children that fail or
die; errors in the middle of a round; the wrap of the timer; standard
signals that merge while realtime ones queue.

## Modules

| module | models | extends or instantiates |
|---|---|---|
| `Config` | the `X(icon, command, interval, signal)` lines of `config.h` | - |
| `AsyncBlock` | no code: the abstract promise of an asynchronous block | `Config` |
| `Block` | `block.c`: parent and children | `Config`; `AsyncBlock` as `Async` |
| `BlockProofs` | theorems about `Block` | `Block`, `TLAPS` |
| `Util` | `util.c` | - |
| `UtilProofs` | what the functions of `Util` compute; induction and recursion over sets of numbers | `Util`, `TLAPS` |
| `Timer` | `timer.c` | `Config`, `Util` |
| `TimerSchedule` | the sequence of timer events, with a clock | `Timer` |
| `TimerScheduleProofs` | theorems about `TimerSchedule` | `TimerSchedule`, `UtilProofs` |
| `Watcher` | `watcher.c`: the descriptors, the array of active blocks and its length | `Config` |
| `Cli` | `cli.c` | - |
| `EventLoop` | `main.c`, `signal-handler.c`, when `status.c` and `x11.c` write | `Block`, `Timer`, `Watcher`, `Cli`; `BlockSlot` as `Slot` |
| `EventLoopProofs` | theorems about `EventLoop`, and that it implements `BlockSlot` | `EventLoop`, `BlockProofs`, `UtilProofs` |
| `Status` | what `status.c` writes, from `util.c`'s truncation to the click | `Util` |
| `StatusProofs` | theorems about `Status` | `Status`, `UtilProofs` |
| `BlockSlot` | one block as its command sees it, with the bar abstracted | - |
| `BarFunction` | what all commands of blocks have in common: a run, its steps, its line | `BlockSlot` |
| `BarCommand` | the command of a block as `config.h` and the installation choose it | `BarFunction` |
| `Audio` | the sound as two of the commands see it through `pamixer` | `BarCommand` |
| `DoNotDisturb`, `Backlight`, `Spotify`, `Cpu`, `Memory`, `Countdown`, `Bluetooth`, `Pulse`, `Network`, `Vpn` | one command each, in C and as the script of the same name where there are both | `BarCommand`; `Network` also `Wireless`; `Bluetooth` and `Pulse` extend `Audio` |
| `BarFunctions` | a block with any of these commands | the ten |
| `BarFunctionProofs` | lemmas on the steps of any command, whatever its texts and steps | `BarFunction`, `TLAPS` |
| `BarFunctionsProofs` | theorems about the ten commands | `BarFunctions`, `BarFunctionProofs` |
| `KdeConnect` | `dwm_kdeconnect.c`, as a command and as the `--watch` service | `BarFunction` |
| `KdeConnectProofs` | theorems about `KdeConnect` | `KdeConnect`, `BarFunctionProofs` |
| `Wireless` | how the two network programs measure and draw a wireless signal | - |
| `Networkd` | `dwm_systemd_networkd.c` against `dwm_systemd_networkd.sh`, in one state | `Wireless` |
| `MCBlock`, `MCTimer`, `MCEventLoop`, `MCStatus`, `MCBarFunctions` | values of the constants for TLC | the module they are named after |

Definitions whose comment starts with "Mutant of" are changed forms of the definition
they name, the way a plausible bug would change it. No specification uses them; they
show that each property notices something.

### Block and AsyncBlock

`fork_pid`, `output` and `pipe` are the fields of the `block` structure (the pipe as
the messages in it). `child` is the process table, `updating` and `buffer` are the
place and the local variable of the `block_update()` in progress. `block_execute()` is
`block_execute(b)` (`Fork`, or nothing for a busy block) or `ForkFails(b)`; the branch
of the child is split into what others can see of it: `ChildRuns` (the command
looks at what it reports), `ChildWrites` or `ChildFails` (the one line, or the lone
NUL), `ChildExits`; `ChildKilled` is from outside. `block_update()` is split where it
blocks: `Read`, then `Reap` or `WaitFails`. `sigchld_ignored` is the inherited
disposition of `SIGCHLD`, which `exec()` keeps and nothing in the program resets.

The text that a command prints is abstracted to its age: `source[b]` counts the
changes of what block `b` reports, and a run prints the version that it saw. That
is what tells a bar that is up to date from one that is not; `Empty` is older than all.

`AsyncBlock` knows nothing of processes: a run starts when there is none, and ends
with an output that the source reported *during that run*, or with the old one.
`Block` implements it with `running <- {b : fork_pid[b] # -1}`; this is checked in run
`block` and proved.

### Timer and TimerSchedule

`timer` is the structure, `alarm` says whether an `alarm(2)` is scheduled. `timer_arm`
has the addition and the two wraps (of `unsigned int` and of `reset_value`), and
`timer_must_run_block` the test as the code writes it, first event included. `Util!gcd`
is `gcd()`. `TimerSchedule` calls `trigger_event()` at every alarm and counts the seconds.

### EventLoop

`pc` is the place in `main()` and `event_loop()`. In order: `Startup`/`StartupFails`
(`cli_init()` included),
`execute_blocks()` as the kickstart (`SkipBlock`, `ExecuteBlock`, `ExecuteFails` per
block, then `BlocksExecuted`, which arms the timer unless the cause is a
refresh), and the rounds: `Poll` (the readable descriptors are fixed *here*, and used
later in the round), `ReadSignal` (the pending signal with the lowest number),
`Dispatch...`, `UpdateRead` and `UpdateEnds` for each active block, `UpdatesDone`,
`StatusSame`/`StatusChanges`/`StatusWriteFails`, `Cleanup`. Each has its failure. `is_alive`
is the variable of that name: an error in a handler or a terminating signal
lets the round go on and makes it the last one.

`Poll` calls `watcher_poll` of `Watcher`, which fills `active_blocks` by scanning the
descriptors and sets `active_block_count` to what `poll()` returned, less one for
the signals. The loop over the active blocks goes by that count and reads the array, so
that a wrong count is a read of a pipe that nothing is in, which would block
the bar for ever: `NeverReadsEmptyPipe`. `Options` of `Cli` are the letters of the command line; with `d`
the status is printed and the X server cannot fail.

`pending` is the kernel's queue: signals below `SIGRTMIN` merge, realtime ones queue up
to `SigQueueLimit`. Before `signal_handler_init()` has blocked the signals they terminate
the program (`RaiseAtStart`). The children move between any two steps of the
program, and while it is blocked in `waitpid()`.

`root` is the name of the root window, as the outputs that it was put together from;
the text itself is the matter of `Status`.

### Status

A text is a sequence of tokens (marker, icon, output, delimiter) with their lengths.
`BlockUpdated` is the truncation of a line by `truncate_utf8_string()`, a line being a
sequence of UTF-8 bytes of which only the number of leading one bits matters;
`UpdateBegins`, `AppendBlock`, `SkipBlock`, `UpdateEnds` are the loop of `status_update()`.
Two outputs of one block with the same length count as the same. `layout` has the three
settings of `config.h`, chosen in the initial state, so that one run covers all of them.
`Clicked` is the external part: which signal the window manager's statuscmd raises.

### BlockSlot, and that the event loop implements it

`BlockSlot` is the bar as seen from one block: a queue of requests, each with a button
or none, a run in progress, what it has printed, what is shown. It serves the queue
and the pipe in any order; a request read during a run is dropped.

All models of commands stand on it, so it is not taken on trust: `SlotSpec` is the slot
with an arbitrary command, and run `loop` checks `SlotImplemented`, that the first
block of `EventLoop` is one (`EventLoopProofs` proves it), with `requests` the pending signals of the block, `running`
its `fork_pid`, `finished` and `printed` what is in its pipe, `shown` its output. The
button is not part of that (a signal's value is not in `EventLoop`): it is 0 throughout.

### BarFunction, BarCommand and the commands

A command has a place (`at`), starts when the bar reads a request or its timer is due
(`Serves`, `TimedRuns`), and ends with one line (`Ends`). `events` counts clicks and
changes of the outside, for the bound. `BarCommand` adds the choice of `config.h`: `command`
and `program` (C or shell; some exist as a script only) are fixed in the initial
state, in which the kickstart has just started the run. `BarFunctions` is the disjunction
of all; each step belongs to one command and leaves the variables of the others alone.
What makes the bar run a block that no timer runs, other than clicks and its own command,
is `OthersAsk`: `SIGUSR1` runs all blocks (`Refreshes`), and anybody may send the block its signal, without a button.

| module | a step is | around it |
|---|---|---|
| `DoNotDisturb` | an access to dunst, to the file with the end time, or to the bar | others pause dunst; bus and file fail |
| `Backlight` | a command of the script | the background `sleep 2; rm; kill` of each click, in seconds |
| `Spotify` | a call of D-Bus (C) or of `playerctl` | players that open, close and play |
| `Cpu` | an access to `/proc/stat` or the snapshot file | CPU time, the block of another bar with the same file, terminals |
| `Memory` | the look at `/proc/meminfo`, at the battery, the click | both change |
| `Countdown` | the look for files, `pkill`, `unlink` | countdowns that start, write every second and end |
| `Bluetooth` | a call of `bluetoothctl` or `pamixer` | devices, the sound, and the watcher, which matches its own `pkill` and is started again by systemd |
| `Network` | the cable, the interface, the network, its signal, the internet, one after the other | the network changes between any two; the peer is prompt, late, silent, refuses, or is unreachable |
| `Pulse` | a call of `pamixer` | the default sink, its volume and mute, changed by others who signal the block or not |
| `Vpn` | the look at the interface, at the processes, the `kill` | openvpn starts, connects, ends |
| `KdeConnect` | a D-Bus call, or the failure to get to the bus at all (`BusFails`) | phones and the daemon come and go; a call while nobody owns the name starts it; the watcher is a process with a queue of messages |

Where the C program and the script do the same they share the action; where they differ
the guard says which (`Shell`). A terminal window that a click opens and that the run waits for
is the step `window`: it may stay open for ever. In `KdeConnect` that is the application that button 2 opens, which keeps the
output of a run that prints no line.

### Networkd

The two programs are functions from the same state of the network to what they print;
the state changes arbitrarily. Icons are tuples that are equal exactly if the strings are.
`Wireless` has what `Network` and `Networkd` share.

## Runs

| run | what it asks | what it shows |
|---|---|---|
| `block` | 2 blocks, 3 processes, 2 changes, all faults, called in any order | one child per block, `waitpid()` never waits for a command, a line and an exit status are of one run, refinement of `AsyncBlock`, outputs never go back |
| `timer` | the 17 blocks of `config.h` for 30000 s | every block is due exactly at the multiples of its interval (`ScheduleExact`), and no multiple passes without an event (`NoneSkipped`) |
| `loop` | the whole program, 2 blocks, timer, refresh and a block signal, all failures of the program's own calls | exactly one timer token; a sleeping bar shows all outputs; nothing shown goes back; no read of an empty pipe; `block.c` is used as it wants; the first block is a `BlockSlot` |
| `live` | the same without failures and in debug mode, as liveness | a timed block catches up without any signal for it; a signal, the refresh or the block's own, that finds its block idle gets to show what there is to report |
| `stop` | one timed block, endless streams of `SIGINT`, `SIGUSR1`, `SIGALRM`, `SIGTERM` and its signal, failing forks and commands | `SIGINT` and `SIGTERM` end the program, unless signals with lower numbers never cease; no failing command leaves its block busy |
| `status` | 3 blocks, all lines, all 8 layouts | whole characters up to the limit; the joined outputs and nothing else; the buffer suffices apart from icons and markers; clicks reach their block |
| `functions` | a block with each of the ten commands, C and shell, clicks, refreshes, others' signals, failures and changes between any two steps | `FileOnlyWhilePaused`: no end time is left behind. `BacklightSettles`: at rest the flag has gone and the icon is right, and the percentage has gone if only clicks had the block run. `LoadIsReal`: a load is that of an interval of the machine. `CancelledIsGone`: a cancelled countdown does not come back. `PulseSettles`: after the last click the block shows the volume that the clicks have led to. `ComesToRest`: no command starts itself for ever. `ViewShown`: the block gets to show what there is to see |
| `kde` | two phones, daemon and watcher that stop, runs without a bus, all buttons | one warning per discharge (`WarnedOnce`); a phone that is low while the warning is armed is warned of (`LowWarned`), and a phone that is charged within reach arms it (`ChargeRearms`); the daemon is started in a race only; the bar gets to show what there is to see |
| `request_dropped` | **violation** of `SignalledChangeShown` | see Findings |
| `zombie` | **violation** of `ZombiesCollected` | see Findings |
| `dnd_shown` | **violation** of `StatusShown` (`MCBarFunctions` with the C do-not-disturb command only) | see Findings |
| `networkd` | **violation** of `IdenticalOutput` | see Findings |

### Bounds, and why they are enough

- `BLOCK_COUNT = 2`: blocks interact in pairs (a `waitpid()` for another's child,
  the order of updates, the rest of `execute_blocks()` after an error). The theorems
  are for any number. `stop` has one block: what it asks concerns
  one block's stream and the signals with lower numbers. `status` has 3, so that a block without output can
  be between two with one.
- `Pids`: 3 in `block`, more than there can be live children, so that a process id
  is free or reused; 2 in the others, enough for all blocks to run.
- `MaxVersion`: 2 in `block`, so that a third version can be newer than one that is
  not the first; 1 elsewhere: "before" and "after" the change is all that matters.
- `SigQueueLimit = 1`: a second pending instance of a block's signal finds the block in one
  of the states that the first one may find it in. It is a limit on what the kernel queues
  (`RLIMIT_SIGPENDING` is larger), not on how often signals are raised: that is unbounded.
- `UIntMax = 65535` in place of 2^32 - 1, because TLC's integers have 32 bits. The
  assumption `reset_value + tick <= UIntMax` holds for the longest interval of
  `config.h`, 14400, either way; the proof is for every `UIntMax`.
- `MaxElapsed = 30000`: two wraps of the counter.
- `EnvSignals`: refresh and one block's signal in `loop` and `live`; the others differ only in the block. The signal
  in `live` is that of the block that no timer runs. `stop` has one signal of each kind that the program distinguishes, and
  its block is timed, so that the timer raises `SIGALRM` as well.
- `Faults`: all that a run does not leave out on purpose. `live` leaves all out, because
  after an error the program ends, and a killed child is never noticed (Findings). `loop` leaves
  out killing and the ignored `SIGCHLD`, which concern the block alone and are in `block`. `stop`
  leaves out what would end the program at once.
- `MAX_BLOCK_OUTPUT_LENGTH = 1` and `Bytes = {0, 1, 4}` (one-byte characters, continuation
  bytes, starts of four-byte characters) in `status`: a buffer of 4 bytes and its
  null, in which the limit, the end of the buffer and the end of the line meet in all ways.
- `VIEW AllButHistory` in `loop` and `live`: states that differ only in when runs were started (`since`) count as one. No guard of
  `Block` or `EventLoop` reads `since`, and the properties of `loop` do not compare it with anything and those of `live` do not name it, so that states that count as one
  have the same steps and the same liveness (without the view `live` passes as well, but takes longer); it is there for the
  refinement of `AsyncBlock`, which run `block` checks with `since` in the state.
- `Options`: none, and `d` in `live`. A wrong option is one of the ways of `StartupFails`.
- `MaxEvents`: clicks and changes of the outside together, units of CPU time included; 3 in
  `functions` and `kde`: one before, during and after a run, or three during one run, such as
  two clicks whose background processes overlap and a third in between. 1 in `dnd_shown`, which
  needs one click.
- `Uses`: for each command the buttons that mean something, and one that does not where
  the program has a default branch of its own.
- `Levels = {30, 50, 95}`: the thresholds, and the last step before 100 %. `Available`: the amounts of
  memory on both sides of the two thresholds and of 1 GiB. `Countdowns`, `Devices`, `Installed`: two
  of each, so that there is another one. `NetStates`: nine states in which each branch of either
  program is taken: cable, no network, both kinds of driver, the home networks, every kind of peer.
- `Volumes = {5, 65}`: one click from silence and from the next icon; the volumes that clicks lead to lie between.
- KDE Connect: charges 40, 52, 55 and 80 are one in each range of the thresholds, below
  both, between 50 and 55, above all, and the threshold itself that rearms the warning. All three buttons mean something, and
  a signal without a button is among the requests.

### Fairness

The kernel runs the program whenever it is not blocked (`WF(Program)`), a scheduled
alarm goes off, and a command ends by itself, in whichever way (`WF` of its steps,
`ChildKilled` excluded). No signal, change, click or kill ever has to happen, and
no fairness is strong. For the slot: the command goes on (`CommandRuns`), what it left in the
background goes on (`BackgroundRuns`: the sleeping processes of the backlight, and systemd
starting the bluetooth watcher), every round reads a signal and serves the readable
pipes (`BarServes`, `BarCollects`), and blocks with an interval are run by the timer while
they are idle (`BarTimes`); that the timer does so is `TimedBlockCatchesUp` of run `live`.
Nobody has to click, to close a window, to start a player or to change anything; nothing is
assumed of the daemon, phones or dunst. That the outside stops changing in the end comes
from `MaxEvents`; `ViewShown` says that what is there then gets shown.

That commands end is an assumption about configuration: a command that hangs keeps
its own block busy for ever. It does not hold up the others, by `WaitsForOwnExit`.

## What is proved

All with TLAPS, for every value of the constants that satisfies the named assumptions:

- `ConfigAssumption` (at least one block, intervals and signals are naturals), `BlockAssumption` (-1 is no
  process id), `TimerAssumption` (the sums of `timer.c` do not overflow), `EventLoopAssumption` (the
  outside sends signals that the program handles, the queue holds at least one instance of a signal, the mark
  of a root window that is not yet written is no status), `StatusAssumption` (the
  lengths are naturals, the signals at most 30);
- for the commands `BarFunctionAssumption` and `BarFunctionsAssumption` (the mark of a failed run is none of the
  texts that are compared with one; buttons are 1 to 5) and those of `Audio`, `Backlight`, `Memory`, `Network`,
  `Countdown`, `Spotify` and `KdeConnect` (percentages lie between 0 and 100, no more memory is available than
  there is, the outside has at least one state).

None of the properties is inductive as it stands; each paragraph names what has to be added and why.
Every strengthening was checked by TLC on the run of its module before it was proved. All theorems are
about the specifications without fairness; those with it imply them.

**Block** (`BlockProofs`): `TypeCorrect`, `OneChild`, `WaitIsShort`, `OneLine`,
`StatusOfLine`, `BlockRefinesAsync`, `NeverOlder`: all that run `block` checks, for any number
of blocks and processes and any combination of faults. That no two children run one block needs that a block *knows* each child of its
(`ChildKnown`): `fork_pid` is set as long as the child is in the table. That a pipe holds one
line at most needs that nothing is in the pipe, or being read, before the child has
written (`NothingToRead`), and that the pipe is empty while a block is updated
(`UpdatingBusy`). That `waitpid()` finds a child that is past its command needs
`KnownChild`, and that status and text agree needs the agreement while the line is still in
the pipe (`LineIsText`). For the refinement, the text of a run lies between the version at its
start and the present one (`TextInRun`, `SinceSource`). With `SIGCHLD` ignored the kernel
discards children; `NoZombies` says that there is then nothing for `waitpid()` to find, and
`KnownChild`, `WaitsForOwnExit`, `LineIsText` and `StatusMatchesText` are about the other case. `IInv` is the conjunction.
`BlockRefinesAsync` maps each step to a step of `AsyncBlock` or to a stutter; `NeverOlder` is
proved in the abstract specification, from its invariant `Reported`, and carried over.

**Util** (`UtilProofs`): what recursive definitions compute for every input. The library states induction for an operator, which the
provers cannot instantiate; `SetInduction` states it for a *set* that contains 0 and the successors of its members, and follows from
the well-foundedness of the order. `IterationExists` gives recursive functions their values. `GcdIsGreatest`: the divisors of `gcd()` are exactly the
common divisors of its arguments (`CommonDivisors` is Euclid's step); `GcdOfAll` carries this over to the accumulation over all blocks, which is
`compute_tick`. `GreatestOfAll` is the same for `compute_reset_value`. `TruncateIsPasses`: `truncate_utf8_string()` returns the index
after as many passes of its loop as characters are allowed. The other modules cite these instead of recursive definitions.

**TimerSchedule** (`TimerScheduleProofs`): `TimerTypeCorrect`, `ScheduleOfRound`, `Schedule` and `EventsInTime`.
The invariant is `TimeIsElapsed`: after the first event `time` is the elapsed time modulo the
longest interval. Its step is a lemma on remainders (`ModAdd`). From it follows `ScheduleOfRound`, for all intervals
whatsoever: blocks are due by the time since the last wrap of the counter. `Schedule` is the law that run
`timer` checks, for all intervals that divide the longest one (`Regular`), and at all times;
reducing modulo a multiple first changes nothing (`ModMod`). Both speak of the events that there are. That every multiple of
an interval *is* one, regular or not, is `EventsInTime` (`NoneSkipped`): the elapsed time is always a multiple of `tick`
(`OnTick`), `tick` divides every interval (`TickIsCommon`), and so the next multiple of an interval is a multiple of `tick`
that is still to come, hence no earlier than the coming event (`EventComesInTime`). `tick` is positive as soon as there is an
interval, so that the alarm is always set.

**EventLoop** (`EventLoopProofs`): all safety that run `loop` checks, for any number of blocks, any configuration of
signals and intervals, any failures and any queue of signals.

- `ProperUse`: every step of the loop is a step of `Block` or none. With it `IInv` of `BlockProofs` becomes a part of the
  invariant `LoopInv` and its properties hold in the program (`ProgramKeepsBlocks`). What it takes is that an update in progress is
  always that of the active block at the cursor (`UpdatingActive`).
- `ReadsHaveData`: a pipe that `poll()` found readable is so when it is read. The readable pipes are fixed at the
  beginning of the round and read at its end; in between children only ever add to them, and each is read once,
  since the array holds no block twice and its length agrees with the separate count (`ActiveBlocks`, from the lemma
  `ScanPipesActive` about `watcher_poll()`; `PipesWaiting`, `ToUpdate`).
- `UpToDate` and `BarOrder`: the root window has the outputs of the last status (`RootIsCurrent`) and the outputs are the last
  status or newer, equal to it outside of the updates of a round (`OutputIsNewer`).
- `TimerGoesOn`: as long as the program is to go on, an alarm is scheduled, `SIGALRM` is pending or it is being handled, whoever sends which
  signals. `TimerToken` (`TimerNeverLost`): it is exactly one of these *if nobody but the timer sends `SIGALRM`*. The hypothesis is
  needed: a `SIGALRM` from outside makes a second token while an alarm is scheduled, and the next call of `alarm()`
  takes one of them away.

**BlockSlot** (`EventLoopProofs`): `SlotRefined`, that the loop with its first block implements the slot in which the commands are
modelled. A signal of the block that is raised is a request, also while it is being handled (`SlotRequests`); the loop over
the blocks finds the first one first. The theorem assumes that nobody kills children and `SIGCHLD` is not ignored: a killed child is a run that never ends for the
bar (Findings, 2), which the slot does not have, and with `SIGCHLD` ignored no output is ever accepted.

**Status** (`StatusProofs`): all four properties that run `status` checks, for any number of blocks, any limit, lines, signals, icons and
delimiters.

- `OutputsAreWhole` (`OutputIsWhole`): after `n` passes the index of the truncation is the end of the first `n` characters, or there
  is nothing more to be had (`Reached`, kept by a pass: `PassReaches`): the line has ended, the buffer has, or the next character has been cut by the end of what
  `fgets()` has read. In each case the result is the greatest beginning of whole characters within the limit (`TruncatedIsWhole`). It uses of a line
  that it is UTF-8 but for a last character that the buffer cuts (`LinesAreUtf8`).
- `BarShowsJoined` (`BarIsJoined`): within a round the text is that of the blocks that the loop has looked at (`JoinedSoFar`), put together one
  by one; at its end these are all. That the loop asks whether *the text so far* is empty and the definition whether *an earlier block* has an output
  is the same since no segment is empty. The root window keeps the text of the last round while a new one is put
  together (`JoinInv`).
- `TextFits` (`FitsBuffer`): a text of the first blocks takes at most one output for each and one delimiter between two, and the one in front if there is one
  (`RoundFits`), a whole text also the one at the end (`RestFits`); `STATUS_LENGTH` is just that (`RoomIsBuffer`). The length of two texts is the sum of
  their lengths (`LengthOfJoin`).
- `ClicksReachTheirBlock` (`ClickReachesBlock`): the texts that are put together, compared and shown are
  well marked (`WellMarked`): an icon or output of a block with a signal comes after the marker of that block with no other marker
  between. It survives putting one text behind another (`JoinIsMarked`), and the segment of a block has it
  (`SegmentIsMarked`); that the last marker is then the right one is `OwnMarkerIsLast`.

**BarFunctions** (`BarFunctionsProofs`): the properties of the single commands. `BarInv` is
the conjunction of the types, of `AtRest` (a run that has ended is at no step) and of one part for each command; it is shown by one lemma per command,
`XNext`, since each step belongs to one command (`NextIsOfOne`) and leaves the others alone (`TypesStay`, `OthersStay`). A step is
one of a run (`CommandStep`), one of the outside (`OutsideStep`) or one of the bar and the user (`BarGoesOn`); what holds for all commands of these is in
`BarFunctionProofs`.

- `CommandTypesCorrect`: each command prints one of its texts from one of its steps; it includes that the percentages of memory, load,
  volume and signal lie between 0 and 100 and every one has an icon.
- `EndFileGoes` (`FileOnlyWhilePaused`): an end time without a pause is about to be removed by a run that has read, or has yet to read, that
  dunst holds none (`DndInv`).
- `BacklightComesRight` (`BacklightSettles`): a flag always has a process that is to remove it, or a run that is about to start one (`FlagWatched`). The hard part is `PercentageGoes`: each display of the percentage, and
  each signal that leads to one, has a process that *still sleeps*, since time stands still while the bar is busy; so the signal of
  the process comes later than the display, and cannot be dropped because of it. `LineIsRight` and `BarIsRight` say that what is printed, or shown, is the view of the present
  brightness unless a request or a process is still to come. That holds while only clicks that change the brightness, and their processes, have the block run (`~plain`). A refresh or somebody's
  signal starts a run that no process follows, and which may have the last signal dropped: then the flag still goes and the icon is right (`IconIsRight`, `OthersRun`), but
  the percentage may stay, and the property says just that.
- `CpuLoadIsReal` (`LoadIsReal`): each snapshot, in the file or in a program, is of *one* time (`CpuInv`), never of two. The load is then a quotient of cardinalities of
  sets of times in an interval (`IdleInInterval`, `BusyOrIdle`, `SnapshotsTellLoad`), and so between 0 and 100.
- `CountdownCancelled` (`CancelledIsGone`): while there is one countdown at a time its file is the only one, and its process has ended before
  the file is removed (`CountdownInv`). `PulseComesRight` (`PulseSettles`): what has been asked of `pamixer`
  in a run is still so when it is printed, unless others have changed the sound (`PulseInv`).

**KdeConnect** (`KdeConnectProofs`): `KdeTypeCorrect`, and `ActivatesNone` (`ActivatesInRaceOnly`), for any number of phones: from the check to the end of
a run the daemon is there unless it stopped in this run (`DaemonChecked`), which needs that the place of the command tells what it has found (`CommandState`).
`OneWarning` (`WarnedOnce`) assumes at most one phone with a battery and a flag file that can be written. Both are needed, and TLC finds the counterexamples: the flag is one file for all phones, and without it
nothing is disarmed. The invariant is that the charge in the run is that of the phone (`ChargeIsCurrent`) and a phone that was warned of is below the threshold
that rearms the warning, which is disarmed or about to be (`WarnedIsLow`).

### Only model-checked

- Every liveness property: `TimedBlockCatchesUp`, `IdleRequestHonoured`, `TerminationHonoured`, `NoRunStuck`, `ComesToRest`, `ViewShown`,
  `LowWarned` and `ChargeRearms`. Liveness under fairness and `ENABLED` are out of the prover's reach.
- `IdenticalOutput`, `SignalledChangeShown`, `ZombiesCollected` and `StatusShown`, which do not hold (Findings).

## Findings

1. `request_dropped`: a block signal that arrives while the block's run is in progress, or finished
   and not yet collected, is dropped (`block.c:56`). The run may have looked at its source
   before the change, which is then not shown until the next cause; with interval 0 that
   may be never. README.md:144 recommends such signals over intervals. `TimedBlockCatchesUp` and
   `IdleRequestHonoured` say what does hold.
2. `zombie`: a child that is killed before its `write()` is never noticed, since nothing makes the
   pipe readable (the parent itself holds the writing end): a zombie, and a block that never runs again. The comment at
   `block.c:127` speaks of avoiding zombies.
3. `dnd_shown`: the C do-not-disturb command signals the bar from inside its own run
   (`dwm_do_not_disturb.c:106`) and prints nothing: the request is dropped, and the
   icon that the header of the file promises does not appear. The script has the same signal,
   and displays after button 3.
4. `networkd`: README.md:178 promises identical output of C and shell programs; the C program takes
   the level in `/proc/net/wireless`, in dBm, for a percentage.

Observations that no run reports, for the reader of the code:

- With intervals that do not divide the longest one, blocks are *not* run at their
  multiples: with 2 and 3 the counter wraps after 3 seconds, and the 2-second block runs at 2, 3,
  5, 6, 8, ... `Regular` is the condition, and `config.h` satisfies it; `ScheduleOfRound` is what holds without it.
- The comment at `timer.c:56` says that `time` is wrapped to [1, reset_value]; the code wraps
  to [0, reset_value - 1]. The schedule is the same except for the blocks with interval 0:
  they would be run at each wrap if the comment were right (`timer_arm_above_zero`).
- Of the pending signals the one with the lowest number is read, one in each round, and `SIGUSR1` (10) and `SIGALRM` (14) are
  below `SIGTERM` (15): a stream of these that never ceases holds up `SIGTERM`. `TerminationHonoured` excepts that
  (`HeldUp`), and nothing else: block signals hold up neither, and nothing holds up `SIGINT`.
- `STATUS_LENGTH` (`status.h:14`) counts no icons, and one byte for the markers of all clickable
  blocks together; `FitsBuffer` is stated apart from these. They matter only if all outputs
  are at their maximum together.
- README.md:120 calls a block without a signal unclickable; a click on it raises the signal of the
  clickable block before it. `ClickReachesBlock` is about blocks with a signal.
- The comment at `watcher.c:48` speaks of interrupted calls; after one the unsigned counter would
  be 65535. All signals are blocked, so `poll()` is not interrupted.
- The flag of the low-battery warning is one file for all phones: with two phones with a
  battery, one may rearm the warning for the other, and `WarnedOnce` fails with
  `HasBattery = {1, 2}`: phone 1 is warned of, phone 2 is read as charged, phone 1 is warned of again. The daemon can be started in a race only (`ActivatesInRaceOnly`).
- Backlight: the percentage is shown for two seconds after a click (`dwm_backlight:5`), but the
  process of an earlier click removes the flag of a later one: of two clicks within two seconds the second
  shows it for less. At 100 % nothing is printed, the run lasts until its background process ends, and clicks
  are dropped for two seconds. A flag left by a bar that was ended stays until the next click,
  and a button without a meaning, a refresh or another one's signal can make the percentage stay (`plain` in `BacklightSettles`).
- KDE Connect: the application that button 2 opens keeps the output of the run (`spawn()`, line 60). If the run prints
  nothing, the phone being charged, the block serves no request until the application is closed.
- KDE Connect: the header (lines 5-7) promises a link-off icon whenever the link is not usable, "so a broken link is
  always visible". A run that does not get to the session bus (line 369, `BusFails`) ends without printing anything, and the block
  is empty until the next run, as it is for a phone that is charged.
- "Warn once per discharge cycle" (`dwm_kdeconnect.c:198`): `WarnedOnce` says *at most* once. The flag of a warning is only removed
  by a run that reads a high charge; if the phone is charged while it is out of reach, or between two runs, and then low
  again, the second discharge is not warned of. What holds is that a phone is warned of when it is low while the warning is
  armed (`LowWarned`), and that charging it within reach arms the warning (`ChargeRearms`).
- The bluetooth watcher ends itself with the signal it sends, since `pkill` matches its own name;
  so does any other `pkill` for dwmblocks. The comment at `dwmblocks-bluetooth:2-3` and README.md:85-86
  speak of a change that is shown at once: one in the three seconds until systemd has started
  it again is shown by the timer (`ViewShown`).
- What `bluetoothctl disconnect` prints is taken for the line of the run of the bluetooth block; the script is then
  ended by `SIGPIPE` when it prints its own.
- Spotify: the C program and the script ask the players in a different order, and a click shows the state
  before it until the next run.
- A refused connection counts as internet for the one network program and not for the other, and so does an answer
  later than 200 ms.
- CPU: button 1 keeps the block busy until the terminal is closed. Two bars share one snapshot
  file; `LoadIsReal` holds all the same, over a shorter interval.
- Countdown: a click removes the first file only, while all countdowns are killed; the others'
  files are shown until the next clicks. The script's `read ... || exit` shows nothing of a file
  without a final newline.
- VPN: after button 3 the run shows the lock although the interface has gone, until the timer; with `sudo openvpn` there are
  two processes, and their two ids in one argument end neither.
- Volume: buttons 4 and 5 on the bluetooth block turn the volume of the default sink, be it the speaker; the volume block,
  which has interval 0, then shows the old one.
- In `dwm_systemd_networkd.sh:109` the last name of the list of home networks is
  not followed by the separator that its pattern asks for.

## What is not modelled

- An interrupted `poll()`: all signals are blocked. The narrowing of `ssi_int` to the 8 bits of
  a button, which hold what the statuscmd patch sends.
- The value of `BLOCK_BUTTON` on the way through signal handler and child in `EventLoop`; `BlockSlot`
  has it.
- The characters of a text, other than the lengths that `Status` has; what notifications and
  details say; artist and title (a song); the end time of do-not-disturb; the names and the battery of a bluetooth device.
- The countdown program itself, dunst, KDE Connect, the players, the sound server, openvpn, systemd: external, as
  the commands use them.
- The other shell blocks: they call one or two tools, print a line and keep no state; a click on one that `config.h` uses
  shows details or opens a window, and changes nothing that the block shows.

## Plan

Done, in this order: `Config`, `Block` with `AsyncBlock`, `Timer`, `EventLoop`, the proofs about
`Block` and `TimerSchedule`, `Status`, `BlockSlot` with do-not-disturb and KDE Connect, `Networkd`; `Watcher`
and `Cli` in `EventLoop`, `EventLoop` as an implementation of `BlockSlot`, and the commands
of the bar in `BarFunctions`. The model is complete but for what the last section lists.

Every safety invariant and every action property of a passing run is stated by a theorem, the two refinements included;
of the properties of the passing runs only liveness is left to TLC.
