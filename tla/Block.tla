-------------------------------- MODULE Block ---------------------------------
(***************************************************************************)
(* One bar with its blocks and the child processes that run their commands *)
(* (block.c).  The parent forks a child per run of a block; the child runs *)
(* the command, writes one line to the block's pipe and exits; the parent  *)
(* reads the pipe, collects the child and stores the line as the output.   *)
(*                                                                         *)
(* What a command prints depends on something outside the program (a       *)
(* volume, a battery, a rate).  Its content does not matter, only how old  *)
(* it is: source[b] counts the changes of what block b reports, and the    *)
(* text a run prints is the version it saw.                                *)
(***************************************************************************)
EXTENDS Config, Sequences

CONSTANTS Pids,        \* process ids the system can hand out at one time
          NoPid,       \* the -1 in block->fork_pid
          MaxVersion,  \* bound: how often the source of a block may change
          Faults       \* what may go wrong in a run of the model

ASSUME BlockAssumption ==
  /\ NoPid \notin Pids
  /\ MaxVersion \in Nat

VARIABLES
  source,    \* version of what each block's command reports
  since,     \* history: the source's version when the last run was forked
  fork_pid,  \* block->fork_pid
  pipe,      \* block->pipe, the messages written and not yet read
  output,    \* block->output
  child,     \* the process table: the children not yet collected
  updating,  \* the block whose block_update() is between read and waitpid
  buffer,    \* the local buffer of that block_update()
  sigchld_ignored  \* SIGCHLD was ignored in the process that started the program
                   \* and exec() keeps that: the kernel discards children when
                   \* they exit, and waitpid() and pclose() find none

blockVars == <<source, since, fork_pid, pipe, output, child, updating, buffer,
               sigchld_ignored>>

\* The empty string: nothing shown for the block.  A child that fails writes
\* the terminating NUL alone, which is this text.
Empty == -1

Texts == {Empty} \cup (0 .. MaxVersion)

\* The stages of a child: its process id is not in use, the command has been
\* started, has seen what it reports, its line has been written, it has exited.
Phases == {"free", "running", "ran", "wrote", "zombie"}

Children == [phase : Phases, block : Blocks \cup {NoBlock},
             text : Texts, status : {0, 1}]

NoChild == [phase |-> "free", block |-> NoBlock, text |-> Empty, status |-> 0]

Alive(p) == child[p].phase \in {"running", "ran", "wrote"}

TypeOK ==
  /\ source \in [Blocks -> 0 .. MaxVersion]
  /\ since \in [Blocks -> 0 .. MaxVersion]
  /\ fork_pid \in [Blocks -> Pids \cup {NoPid}]
  /\ pipe \in [Blocks -> Seq(Texts)]
  /\ output \in [Blocks -> Texts]
  /\ child \in [Pids -> Children]
  /\ updating \in Blocks \cup {NoBlock}
  /\ buffer \in Texts
  /\ sigchld_ignored \in BOOLEAN

BlockInit ==
  /\ source = [b \in Blocks |-> 0]
  /\ since = [b \in Blocks |-> 0]
  /\ fork_pid = [b \in Blocks |-> NoPid]
  /\ pipe = [b \in Blocks |-> <<>>]
  /\ output = [b \in Blocks |-> Empty]
  /\ child = [p \in Pids |-> NoChild]
  /\ updating = NoBlock
  /\ buffer = Empty
  /\ sigchld_ignored \in BOOLEAN
  /\ sigchld_ignored => "sigchld_ignored" \in Faults

-------------------------------------------------------------------------------
(* The parent: block_execute().                                            *)

Busy(b) == fork_pid[b] # NoPid

FreePids == {p \in Pids : child[p].phase = "free"}

ForkAs(b, p) ==
  /\ fork_pid' = [fork_pid EXCEPT ![b] = p]
  /\ child' = [child EXCEPT ![p] =
                 [phase |-> "running", block |-> b, text |-> Empty, status |-> 0]]
  /\ since' = [since EXCEPT ![b] = source[b]]
  /\ UNCHANGED <<source, pipe, output, updating, buffer, sigchld_ignored>>

\* Mutant of Fork: the fork_pid check is gone.
ForkUnguarded(b) ==
  /\ updating = NoBlock
  /\ \E p \in FreePids : ForkAs(b, p)

Fork(b) ==
  /\ updating = NoBlock
  /\ ~Busy(b)
  /\ \E p \in FreePids : ForkAs(b, p)

\* fork() returns -1: fork_pid stays -1 and block_execute() returns 1.
ForkFails(b) ==
  /\ updating = NoBlock
  /\ ~Busy(b)
  /\ "fork" \in Faults \/ FreePids = {}
  /\ UNCHANGED blockVars

\* block_execute() returning 0.
block_execute(b) ==
  \/ Busy(b) /\ UNCHANGED blockVars
  \/ Fork(b)

-------------------------------------------------------------------------------
(* The child: the branch of block_execute() that fork() returns 0 in.      *)

\* The command looks at what it reports, at some time after popen() and before
\* its line is complete.
ChildRuns(p) ==
  /\ child[p].phase = "running"
  /\ child' = [child EXCEPT ![p].phase = "ran",
                            ![p].text = source[child[p].block]]
  /\ UNCHANGED <<source, since, fork_pid, pipe, output, updating, buffer,
                 sigchld_ignored>>

Writes(p, text, status) ==
  /\ child' = [child EXCEPT ![p].phase = "wrote", ![p].status = status]
  /\ pipe' = [pipe EXCEPT ![child[p].block] = Append(@, text)]
  /\ UNCHANGED <<source, since, fork_pid, output, updating, buffer,
                 sigchld_ignored>>

\* pclose() returned 0: the (truncated) line goes to the pipe.
ChildWrites(p) ==
  /\ child[p].phase = "ran"
  /\ ~sigchld_ignored
  /\ Writes(p, child[p].text, 0)

\* Mutant of ChildFails: the exit() after the lone NUL is missing.
ChildFailsAndGoesOn(p) ==
  /\ child[p].phase = "running"
  /\ "command" \in Faults \/ sigchld_ignored
  /\ child' = [child EXCEPT ![p].phase = "ran"]
  /\ pipe' = [pipe EXCEPT ![child[p].block] = Append(@, Empty)]
  /\ UNCHANGED <<source, since, fork_pid, output, updating, buffer,
                 sigchld_ignored>>

\* Mutant of ChildFails: the child exits with EXIT_SUCCESS.
ChildFailsUnnoticed(p) ==
  /\ child[p].phase \in {"running", "ran"}
  /\ "command" \in Faults \/ sigchld_ignored
  /\ Writes(p, Empty, 0)

\* Mutant of ChildFails: the child exits without writing anything.
ChildFailsSilently(p) ==
  /\ child[p].phase \in {"running", "ran"}
  /\ "command" \in Faults \/ sigchld_ignored
  /\ child' = [child EXCEPT ![p].phase = "wrote", ![p].status = 1]
  /\ UNCHANGED <<source, since, fork_pid, pipe, output, updating, buffer,
                 sigchld_ignored>>

\* close(), setenv() or popen() failed, or pclose() reported a failure: a lone
\* NUL is written so that the parent notices, and the child exits with 1.
ChildFails(p) ==
  /\ child[p].phase \in {"running", "ran"}
  /\ "command" \in Faults \/ sigchld_ignored
  /\ Writes(p, Empty, 1)

Exits(p, status) ==
  /\ child' = [child EXCEPT ![p] =
                 IF sigchld_ignored THEN NoChild
                 ELSE [@ EXCEPT !.phase = "zombie", !.status = status]]
  /\ UNCHANGED <<source, since, fork_pid, pipe, output, updating, buffer,
                 sigchld_ignored>>

ChildExits(p) == child[p].phase = "wrote" /\ Exits(p, child[p].status)

\* The child is killed from outside (out of memory, an administrator): it
\* writes nothing more.
ChildKilled(p) == "kill" \in Faults /\ Alive(p) /\ Exits(p, 1)

Child(p) ==
  \/ ChildRuns(p)
  \/ ChildWrites(p)
  \/ ChildFails(p)
  \/ ChildExits(p)
  \/ ChildKilled(p)

-------------------------------------------------------------------------------
(* The parent: block_update(), split where it blocks in waitpid().         *)

\* read() into the local buffer.  The caller has seen POLLIN.  A message is no
\* longer than the buffer, so one read empties a pipe that holds one message.
Read(b) ==
  /\ updating = NoBlock
  /\ pipe[b] # <<>>
  /\ updating' = b
  /\ buffer' = Head(pipe[b])
  /\ pipe' = [pipe EXCEPT ![b] = <<>>]
  /\ UNCHANGED <<source, since, fork_pid, output, child, sigchld_ignored>>

\* The children waitpid(block->fork_pid) may collect: with -1, any child.
WaitTargets(b) ==
  {p \in Pids : child[p].phase # "free" /\ fork_pid[b] \in {p, NoPid}}

\* Mutant of Collects: fork_pid becomes 0 instead of -1.
CollectsToZero(b, p, text) ==
  /\ child' = [child EXCEPT ![p] = NoChild]
  /\ fork_pid' = [fork_pid EXCEPT ![b] = 0]
  /\ output' = [output EXCEPT ![b] = text]
  /\ updating' = NoBlock
  /\ buffer' = Empty
  /\ UNCHANGED <<source, since, pipe, sigchld_ignored>>

Collects(b, p, text) ==
  /\ child' = [child EXCEPT ![p] = NoChild]
  /\ fork_pid' = [fork_pid EXCEPT ![b] = NoPid]
  /\ output' = [output EXCEPT ![b] = text]
  /\ updating' = NoBlock
  /\ buffer' = Empty
  /\ UNCHANGED <<source, since, pipe, sigchld_ignored>>

\* Mutant of Reap: waitpid() with WNOHANG, the run counts as over although the
\* child has not exited yet.
ReapNoHang(b) ==
  /\ updating = b
  /\ fork_pid' = [fork_pid EXCEPT ![b] = NoPid]
  /\ output' = [output EXCEPT ![b] = buffer]
  /\ updating' = NoBlock
  /\ buffer' = Empty
  /\ UNCHANGED <<source, since, pipe, child, sigchld_ignored>>

\* Mutant of Reap: the exit status is not looked at.
ReapAnyStatus(b) ==
  /\ updating = b
  /\ \E p \in WaitTargets(b) :
       /\ child[p].phase = "zombie"
       /\ Collects(b, p, buffer)

\* waitpid() returns the child: the run is over, and its text becomes the
\* output if it succeeded.
Reap(b) ==
  /\ updating = b
  /\ \E p \in WaitTargets(b) :
       /\ child[p].phase = "zombie"
       /\ Collects(b, p, IF child[p].status = 0 THEN buffer ELSE output[b])

\* waitpid() returns -1, there is no such child: block_update() gives up and
\* fork_pid keeps its value.
WaitFails(b) ==
  /\ updating = b
  /\ WaitTargets(b) = {}
  /\ updating' = NoBlock
  /\ buffer' = Empty
  /\ UNCHANGED <<source, since, fork_pid, pipe, output, child, sigchld_ignored>>

-------------------------------------------------------------------------------
(* The environment, and the specification of the component: its caller is  *)
(* one thread that may call it on any block at any time.                   *)

Change(b) ==
  /\ source[b] < MaxVersion
  /\ source' = [source EXCEPT ![b] = @ + 1]
  /\ UNCHANGED <<since, fork_pid, pipe, output, child, updating, buffer,
                 sigchld_ignored>>

BlockNext ==
  \/ \E b \in Blocks : Fork(b) \/ Read(b) \/ Reap(b) \/ WaitFails(b) \/ Change(b)
  \/ \E p \in Pids : Child(p)

BlockSpec == BlockInit /\ [][BlockNext]_blockVars

-------------------------------------------------------------------------------
(* Safety.                                                                 *)

\* "Ensure only one child process exists per block at an instance" (the
\* comment in block_execute()): no two processes of the table, running or
\* waiting to be collected, run the same block.
OneChildPerBlock ==
  \A p, q \in Pids :
    child[p].phase # "free" /\ child[q].phase # "free" /\ p # q
      => child[p].block # child[q].block

\* The waitpid() of block_update() blocks the whole program.  It waits for the
\* block's own child, never for that of another block (which -1 would allow),
\* and never for a command: that child has written its line or is dead, so only
\* its exit() is waited for.
WaitsForOwnExit ==
  ~sigchld_ignored /\ updating # NoBlock =>
    /\ Busy(updating)
    /\ child[fork_pid[updating]].block = updating
    /\ child[fork_pid[updating]].phase \in {"wrote", "zombie"}

\* A line in a pipe belongs to the one run in progress: a pipe never holds two
\* lines, and none is left behind when the block is free to run again.  What a
\* read() returns is therefore never a leftover of an earlier run.
OneLinePerRun ==
  \A b \in Blocks : /\ Len(pipe[b]) <= 1
                    /\ ~Busy(b) => pipe[b] = <<>>

\* The exit status and the line that block_update() combines come from the same
\* run: when the child it waits for succeeded, the buffer holds that child's text.
StatusMatchesText ==
  ~sigchld_ignored /\ updating # NoBlock =>
    (child[fork_pid[updating]].status = 0
       => buffer = child[fork_pid[updating]].text)

\* Whatever the processes do, block.c implements AsyncBlock: runs that start and
\* end, and outputs that their sources reported during the last run.
Async == INSTANCE AsyncBlock WITH running <- {b \in Blocks : Busy(b)}

AsyncBlockSpec == Async!Spec

\* No update of a block replaces its output by an older one, and a failed run
\* does not clear it.
OutputNeverGoesBack == Async!NeverGoesBack
===============================================================================
