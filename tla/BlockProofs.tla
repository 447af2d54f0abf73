----------------------------- MODULE BlockProofs ------------------------------
(***************************************************************************)
(* Proofs about Block, for every number of blocks and process ids, every   *)
(* bound on the versions and every combination of faults.                  *)
(***************************************************************************)
EXTENDS Block, TLAPS

\* Every child in the process table belongs to a block that knows it.
ChildKnown ==
  \A p \in Pids : child[p].phase # "free" =>
    child[p].block \in Blocks /\ fork_pid[child[p].block] = p

\* A busy block has a child in the process table, unless the kernel drops them.
KnownChild ==
  ~sigchld_ignored => \A b \in Blocks : Busy(b) =>
    child[fork_pid[b]].phase # "free" /\ child[fork_pid[b]].block = b

NoZombies == sigchld_ignored => \A p \in Pids : child[p].phase # "zombie"

\* As long as a child has not written there is nothing to read for its block,
\* and nobody is reading.
NothingToRead ==
  \A p \in Pids : child[p].phase \in {"running", "ran"} =>
    pipe[child[p].block] = <<>> /\ updating # child[p].block

\* While a block is updated its pipe has been read and its run is not over.
UpdatingBusy == updating # NoBlock => Busy(updating) /\ pipe[updating] = <<>>

\* What a child with exit status 0 has written is its text.
LineIsText ==
  ~sigchld_ignored => \A b \in Blocks :
    pipe[b] # <<>> /\ child[fork_pid[b]].status = 0
      => Head(pipe[b]) = child[fork_pid[b]].text

\* The text of a run that has not failed is something that the source reported
\* while the run was going on.
HasText(p) ==
  \/ child[p].phase = "ran"
  \/ child[p].phase \in {"wrote", "zombie"} /\ child[p].status = 0

TextInRun ==
  \A p \in Pids : HasText(p) =>
    child[p].text \in since[child[p].block] .. source[child[p].block]

SinceSource == \A b \in Blocks : since[b] <= source[b]

IInv ==
  /\ TypeOK
  /\ ChildKnown
  /\ KnownChild
  /\ NoZombies
  /\ OneLinePerRun
  /\ NothingToRead
  /\ UpdatingBusy
  /\ WaitsForOwnExit
  /\ LineIsText
  /\ StatusMatchesText
  /\ SinceSource
  /\ TextInRun

-------------------------------------------------------------------------------
\* The types of the constants, from the assumptions of Config and Block.
LEMMA Constants ==
  /\ BLOCK_COUNT \in Nat \ {0}
  /\ NoBlock \notin Blocks
  /\ NoPid \notin Pids
  /\ MaxVersion \in Nat
  /\ Empty \in Texts
  /\ 0 .. MaxVersion \subseteq Texts
BY ConfigAssumption, BlockAssumption DEF Blocks, NoBlock, Empty, Texts

\* The invariant holds initially: there are no runs.
LEMMA InitIInv == BlockInit => IInv
<1> SUFFICES ASSUME BlockInit PROVE IInv
  OBVIOUS
<1> USE Constants DEF BlockInit
<1>1. TypeOK
  BY DEF TypeOK, Children, Phases, NoChild
<1>2. ChildKnown /\ NoZombies /\ NothingToRead /\ TextInRun
  BY DEF ChildKnown, NoZombies, NothingToRead, TextInRun, HasText, NoChild
<1>3. KnownChild /\ OneLinePerRun /\ LineIsText
  BY DEF KnownChild, OneLinePerRun, LineIsText, Busy
<1>4. UpdatingBusy /\ WaitsForOwnExit /\ StatusMatchesText
  BY DEF UpdatingBusy, WaitsForOwnExit, StatusMatchesText
<1>5. SinceSource
  BY DEF SinceSource
<1> QED
  BY <1>1, <1>2, <1>3, <1>4, <1>5 DEF IInv

\* block_execute() forks only for a block that is not busy, and no child of the
\* table belongs to that block.
LEMMA ForkIInv ==
  ASSUME IInv, NEW b \in Blocks, Fork(b) PROVE IInv'
<1> PICK p \in FreePids : ForkAs(b, p)
  BY DEF Fork
<1> USE Constants DEF IInv, Fork, ForkAs, FreePids
<1>1. TypeOK'
  BY DEF TypeOK, Children, Phases
<1>2. ChildKnown'
  BY DEF ChildKnown, TypeOK, Busy
<1>3. KnownChild'
  BY DEF KnownChild, TypeOK, Busy
<1>4. OneLinePerRun'
  BY DEF OneLinePerRun, Busy
<1>5. /\ child'[p].phase = "running" /\ child'[p].block = b
      /\ \A q \in Pids : q # p => child'[q] = child[q]
  BY DEF TypeOK
<1>6. NothingToRead'
  BY <1>5 DEF NothingToRead, OneLinePerRun, TypeOK
<1>7. LineIsText'
  <2> SUFFICES ASSUME ~sigchld_ignored, NEW c \in Blocks, pipe[c] # <<>>,
                      child'[fork_pid'[c]].status = 0
               PROVE  Head(pipe[c]) = child'[fork_pid'[c]].text
    BY DEF LineIsText
  <2>1. Busy(c) /\ c # b
    BY DEF OneLinePerRun
  <2>2. fork_pid'[c] = fork_pid[c] /\ fork_pid[c] # p /\ fork_pid[c] \in Pids
    BY <2>1 DEF TypeOK, KnownChild, Busy
  <2> QED
    BY <1>5, <2>2 DEF LineIsText
<1>8. TextInRun'
  <2>1. \A q \in Pids : q # p /\ child[q].phase # "free" => child[q].block # b
    BY DEF ChildKnown, Busy
  <2> QED
    BY <1>5, <2>1 DEF TextInRun, HasText, TypeOK
<1>9. SinceSource'
  BY DEF SinceSource, TypeOK
<1>10. NoZombies'
  BY DEF NoZombies
<1>11. UpdatingBusy' /\ WaitsForOwnExit' /\ StatusMatchesText'
  BY DEF UpdatingBusy, WaitsForOwnExit, StatusMatchesText
<1> QED
  BY <1>1, <1>2, <1>3, <1>4, <1>6, <1>7, <1>8, <1>9, <1>10, <1>11

\* A command looks at its source: the text becomes the version of now.
LEMMA ChildRunsIInv ==
  ASSUME IInv, NEW p \in Pids, ChildRuns(p) PROVE IInv'
<1> USE Constants DEF IInv, ChildRuns
<1>1. child[p].block \in Blocks
  BY DEF ChildKnown
<1>2. TypeOK'
  <2>1. [child[p] EXCEPT !.phase = "ran", !.text = source[child[p].block]] \in Children
    BY <1>1 DEF TypeOK, Children, Phases
  <2> QED
    BY <2>1 DEF TypeOK
<1>3. ChildKnown' /\ NothingToRead'
  BY DEF ChildKnown, NothingToRead, TypeOK
<1>4. KnownChild'
  BY DEF KnownChild, TypeOK, Busy
<1>11. WaitsForOwnExit'
  BY DEF WaitsForOwnExit, TypeOK, Busy
<1>5. NoZombies'
  BY DEF NoZombies, TypeOK
<1>6. OneLinePerRun' /\ UpdatingBusy'
  BY DEF OneLinePerRun, UpdatingBusy, Busy
<1>7. LineIsText'
  BY DEF LineIsText, TypeOK, KnownChild, OneLinePerRun, NothingToRead, Busy
<1>8. StatusMatchesText'
  BY DEF StatusMatchesText, TypeOK, KnownChild, NothingToRead, UpdatingBusy, Busy
<1>9. SinceSource'
  BY DEF SinceSource
<1>10. TextInRun'
  <2>1. child'[p].block = child[p].block /\ child'[p].text = source[child[p].block]
    BY DEF TypeOK, Children
  <2>2. \A q \in Pids : q # p => child'[q] = child[q]
    BY DEF TypeOK
  <2>3. since[child[p].block] <= source[child[p].block]
    BY <1>1 DEF SinceSource
  <2>4. source[child[p].block] \in since[child[p].block] .. source[child[p].block]
    BY <1>1, <2>3 DEF TypeOK
  <2> QED
    BY <2>1, <2>2, <2>4 DEF TextInRun, HasText
<1> QED
  BY <1>2, <1>3, <1>4, <1>5, <1>6, <1>7, <1>8, <1>9, <1>10, <1>11

\* A child writes its line, and it is its text if its exit status will be 0.
LEMMA WritesIInv ==
  ASSUME IInv, NEW p \in Pids, child[p].phase \in {"running", "ran"},
         NEW text \in Texts, NEW status \in {0, 1},
         status = 0 => child[p].phase = "ran" /\ text = child[p].text,
         Writes(p, text, status)
  PROVE  IInv'
<1> USE Constants DEF IInv, Writes
<1>1. /\ child[p] \in Children /\ child[p].block \in Blocks
      /\ fork_pid[child[p].block] = p
      /\ pipe[child[p].block] = <<>>
  BY DEF ChildKnown, TypeOK, NothingToRead
<1>2. /\ child'[p].phase = "wrote" /\ child'[p].status = status
      /\ child'[p].text = child[p].text /\ child'[p].block = child[p].block
      /\ \A q \in Pids : q # p => child'[q] = child[q]
  BY <1>1 DEF TypeOK, Children
<1>3. /\ pipe'[child[p].block] = <<text>>
      /\ \A c \in Blocks : c # child[p].block => pipe'[c] = pipe[c]
  BY <1>1 DEF TypeOK
<1>4. TypeOK'
  <2>1. [child[p] EXCEPT !.phase = "wrote", !.status = status] \in Children
    BY <1>1 DEF Children, Phases
  <2>2. Append(pipe[child[p].block], text) \in Seq(Texts)
    BY <1>1 DEF TypeOK
  <2> QED
    BY <2>1, <2>2 DEF TypeOK
<1>5. ChildKnown' /\ NoZombies'
  BY DEF ChildKnown, NoZombies, TypeOK
<1>6. KnownChild' /\ WaitsForOwnExit'
  BY DEF KnownChild, WaitsForOwnExit, TypeOK, Busy
<1>7. OneLinePerRun'
  BY <1>1, <1>3 DEF OneLinePerRun, Busy
<1>8. NothingToRead'
  <2> SUFFICES ASSUME NEW q \in Pids, child'[q].phase \in {"running", "ran"}
               PROVE  pipe'[child'[q].block] = <<>> /\ updating # child'[q].block
    BY DEF NothingToRead
  <2>1. q # p /\ child'[q] = child[q]
    BY <1>2
  <2>2. child[q].block \in Blocks /\ child[q].block # child[p].block
    BY <1>1, <2>1 DEF ChildKnown
  <2> QED
    BY <1>3, <2>1, <2>2 DEF NothingToRead
<1>9. UpdatingBusy'
  BY DEF UpdatingBusy, NothingToRead, Busy
<1>10. LineIsText'
  <2> SUFFICES ASSUME ~sigchld_ignored, NEW c \in Blocks, pipe'[c] # <<>>,
                      child'[fork_pid[c]].status = 0
               PROVE  Head(pipe'[c]) = child'[fork_pid[c]].text
    BY DEF LineIsText
  <2>1. CASE c = child[p].block
    BY <2>1, <1>1, <1>2, <1>3
  <2>2. CASE c # child[p].block
    <3>1. Busy(c) /\ fork_pid[c] \in Pids /\ fork_pid[c] # p
      BY <1>3, <2>2 DEF OneLinePerRun, KnownChild, Busy, TypeOK
    <3>2. pipe'[c] = pipe[c] /\ child'[fork_pid[c]] = child[fork_pid[c]]
      BY <1>2, <1>3, <2>2, <3>1
    <3>3. ~sigchld_ignored /\ pipe[c] # <<>> /\ child[fork_pid[c]].status = 0
      BY <3>2
    <3>4. Head(pipe[c]) = child[fork_pid[c]].text
      BY <3>3, Zenon DEF LineIsText
    <3> QED
      BY <3>2, <3>4, Zenon
  <2> QED
    BY <2>1, <2>2
<1>11. StatusMatchesText'
  BY DEF StatusMatchesText, TypeOK, KnownChild, NothingToRead, UpdatingBusy, Busy
<1>12. SinceSource'
  BY DEF SinceSource
<1>13. TextInRun'
  <2> SUFFICES ASSUME NEW q \in Pids, HasText(q)'
               PROVE  child'[q].text \in since'[child'[q].block] .. source'[child'[q].block]
    BY DEF TextInRun
  <2>1. HasText(q)
    BY <1>1, <1>2 DEF HasText
  <2>2. child'[q].text = child[q].text /\ child'[q].block = child[q].block
    BY <1>2, Zenon
  <2> QED
    BY <2>1, <2>2 DEF TextInRun
<1> QED
  BY <1>4, <1>5, <1>6, <1>7, <1>8, <1>9, <1>10, <1>11, <1>12, <1>13

\* A child ends: with the status that belongs to its line, or otherwise not
\* with 0.
LEMMA ExitsIInv ==
  ASSUME IInv, NEW p \in Pids, Alive(p), NEW status \in {0, 1},
         status = 0 => child[p].phase = "wrote" /\ child[p].status = 0,
         Exits(p, status)
  PROVE  IInv'
<1> USE Constants DEF IInv, Alive, Exits
<1>1. TypeOK'
  <2>1. NoChild \in Children
    BY DEF Children, Phases, NoChild
  <2>2. [child[p] EXCEPT !.phase = "zombie", !.status = status] \in Children
    BY DEF TypeOK, Children, Phases
  <2> QED
    BY <2>1, <2>2 DEF TypeOK
<1>2. ChildKnown' /\ NoZombies' /\ NothingToRead' /\ TextInRun'
  BY DEF ChildKnown, NoZombies, NothingToRead, TextInRun, HasText, NoChild
<1>3. KnownChild' /\ WaitsForOwnExit'
  BY DEF KnownChild, WaitsForOwnExit, Busy
<1>4. OneLinePerRun' /\ UpdatingBusy'
  BY DEF OneLinePerRun, UpdatingBusy, Busy
<1>5. LineIsText' /\ StatusMatchesText'
  BY DEF LineIsText, StatusMatchesText
<1>6. SinceSource'
  BY DEF SinceSource
<1> QED
  BY <1>1, <1>2, <1>3, <1>4, <1>5, <1>6

\* block_update() finds a line: the child that wrote it is past its command.
LEMMA ReadIInv ==
  ASSUME IInv, NEW b \in Blocks, Read(b) PROVE IInv'
<1> USE Constants DEF IInv, Read
<1>1. TypeOK'
  BY DEF TypeOK
<1>2. ChildKnown' /\ NoZombies' /\ NothingToRead'
  BY DEF ChildKnown, NoZombies, NothingToRead
<1>3. KnownChild' /\ OneLinePerRun'
  BY DEF KnownChild, OneLinePerRun, Busy
<1>4. UpdatingBusy'
  BY DEF UpdatingBusy, TypeOK, OneLinePerRun, Busy
<1>5. WaitsForOwnExit'
  BY DEF WaitsForOwnExit, TypeOK, Children, Phases, ChildKnown, KnownChild,
         OneLinePerRun, NothingToRead, Busy
<1>6. LineIsText' /\ StatusMatchesText'
  BY DEF LineIsText, StatusMatchesText
<1>7. SinceSource' /\ TextInRun'
  BY DEF SinceSource, TextInRun, HasText
<1> QED
  BY <1>1, <1>2, <1>3, <1>4, <1>5, <1>6, <1>7

\* waitpid() has returned a child: it is the child of the block.
LEMMA CollectedIsOwn ==
  ASSUME IInv, NEW b \in Blocks, updating = b, NEW p \in WaitTargets(b),
         child[p].phase = "zombie"
  PROVE  ~sigchld_ignored /\ fork_pid[b] = p /\ child[p].block = b
BY Constants DEF IInv, NoZombies, UpdatingBusy, Busy, WaitTargets, KnownChild

\* The run of a block is over, whatever the output is now.
LEMMA CollectsIInv ==
  ASSUME IInv, NEW b \in Blocks, updating = b, NEW p \in WaitTargets(b),
         child[p].phase = "zombie",
         NEW text \in Texts, Collects(b, p, text)
  PROVE  IInv'
<1> USE Constants DEF IInv, Collects
<1>1. p \in Pids /\ ~sigchld_ignored /\ fork_pid[b] = p /\ child[p].block = b
  BY CollectedIsOwn DEF WaitTargets
<1>2. TypeOK'
  BY <1>1 DEF TypeOK, Children, Phases, NoChild
<1>3. ChildKnown' /\ NothingToRead'
  BY <1>1 DEF ChildKnown, NothingToRead, TypeOK, NoChild
<1>4. \A c \in Blocks : Busy(c)' =>
        /\ c # b /\ Busy(c) /\ fork_pid'[c] = fork_pid[c]
        /\ fork_pid[c] \in Pids \ {p} /\ child'[fork_pid[c]] = child[fork_pid[c]]
  BY <1>1 DEF TypeOK, KnownChild, Busy
<1>5. KnownChild'
  BY <1>4 DEF KnownChild
<1>6. NoZombies'
  BY <1>1 DEF NoZombies
<1>7. OneLinePerRun'
  BY DEF OneLinePerRun, UpdatingBusy, Busy
<1>8. LineIsText'
  <2>1. \A c \in Blocks : pipe[c] # <<>> => Busy(c)'
    BY <1>7 DEF OneLinePerRun
  <2> QED
    BY <1>4, <2>1 DEF LineIsText
<1>9. UpdatingBusy' /\ WaitsForOwnExit' /\ StatusMatchesText'
  BY DEF UpdatingBusy, WaitsForOwnExit, StatusMatchesText
<1>10. SinceSource' /\ TextInRun'
  BY <1>1 DEF SinceSource, TextInRun, HasText, NoChild
<1> QED
  BY <1>2, <1>3, <1>5, <1>6, <1>7, <1>8, <1>9, <1>10

LEMMA WaitFailsIInv ==
  ASSUME IInv, NEW b \in Blocks, WaitFails(b) PROVE IInv'
<1> USE Constants DEF IInv, WaitFails
<1>1. TypeOK'
  BY DEF TypeOK
<1>2. ChildKnown' /\ NothingToRead' /\ NoZombies'
  BY DEF ChildKnown, NothingToRead, NoZombies
<1>3. KnownChild' /\ OneLinePerRun'
  BY DEF KnownChild, OneLinePerRun, Busy
<1>4. UpdatingBusy' /\ WaitsForOwnExit' /\ StatusMatchesText' /\ LineIsText'
  BY DEF UpdatingBusy, WaitsForOwnExit, StatusMatchesText, LineIsText
<1>5. SinceSource' /\ TextInRun'
  BY DEF SinceSource, TextInRun, HasText
<1> QED
  BY <1>1, <1>2, <1>3, <1>4, <1>5

LEMMA ChangeIInv ==
  ASSUME IInv, NEW b \in Blocks, Change(b) PROVE IInv'
<1> USE Constants DEF IInv, Change
<1>1. TypeOK'
  BY DEF TypeOK
<1>2. ChildKnown' /\ NothingToRead' /\ NoZombies'
  BY DEF ChildKnown, NothingToRead, NoZombies
<1>3. KnownChild' /\ OneLinePerRun' /\ UpdatingBusy' /\ WaitsForOwnExit'
  BY DEF KnownChild, OneLinePerRun, UpdatingBusy, WaitsForOwnExit, Busy
<1>4. LineIsText' /\ StatusMatchesText'
  BY DEF LineIsText, StatusMatchesText
<1>5. SinceSource'
  BY DEF SinceSource, TypeOK
<1>6. TextInRun'
  <2> SUFFICES ASSUME NEW p \in Pids, HasText(p)
               PROVE  child[p].text \in since[child[p].block] .. source'[child[p].block]
    BY DEF TextInRun, HasText
  <2>1. child[p].block \in Blocks /\ child[p].text \in since[child[p].block] .. source[child[p].block]
    BY DEF ChildKnown, TextInRun, HasText
  <2>2. /\ source[child[p].block] \in Int /\ source'[child[p].block] \in Int
        /\ source[child[p].block] <= source'[child[p].block]
        /\ since[child[p].block] \in Int
    BY <2>1 DEF TypeOK
  <2> QED
    BY <2>1, <2>2
<1> QED
  BY <1>1, <1>2, <1>3, <1>4, <1>5, <1>6

LEMMA ChildIInv ==
  ASSUME IInv, NEW p \in Pids, Child(p) PROVE IInv'
<1>1. CASE ChildRuns(p)
  BY <1>1, ChildRunsIInv
<1>2. CASE ChildWrites(p)
  <2>1. child[p].phase = "ran" /\ child[p].text \in Texts
    BY <1>2 DEF ChildWrites, IInv, TypeOK, Children
  <2> QED
    BY <1>2, <2>1, WritesIInv DEF ChildWrites
<1>3. CASE ChildFails(p)
  BY <1>3, Constants, WritesIInv DEF ChildFails
<1>4. CASE ChildExits(p)
  <2>1. Alive(p) /\ child[p].status \in {0, 1}
    BY <1>4 DEF ChildExits, Alive, IInv, TypeOK, Children
  <2> QED
    BY <1>4, <2>1, ExitsIInv DEF ChildExits
<1>5. CASE ChildKilled(p)
  BY <1>5, ExitsIInv DEF ChildKilled
<1> QED
  BY <1>1, <1>2, <1>3, <1>4, <1>5 DEF Child

LEMMA ReapIInv ==
  ASSUME IInv, NEW b \in Blocks, Reap(b) PROVE IInv'
<1> PICK p \in WaitTargets(b) :
      /\ child[p].phase = "zombie"
      /\ Collects(b, p, IF child[p].status = 0 THEN buffer ELSE output[b])
  BY DEF Reap
<1>1. buffer \in Texts /\ output[b] \in Texts
  BY DEF IInv, TypeOK
<1> QED
  BY <1>1, CollectsIInv DEF Reap

\* The invariant is inductive.
LEMMA NextIInv ==
  ASSUME IInv, [BlockNext]_blockVars PROVE IInv'
<1>1. ASSUME NEW b \in Blocks, Fork(b) PROVE IInv'
  BY <1>1, ForkIInv
<1>2. ASSUME NEW b \in Blocks, Read(b) PROVE IInv'
  BY <1>2, ReadIInv
<1>3. ASSUME NEW b \in Blocks, Reap(b) PROVE IInv'
  BY <1>3, ReapIInv
<1>4. ASSUME NEW b \in Blocks, WaitFails(b) PROVE IInv'
  BY <1>4, WaitFailsIInv
<1>5. ASSUME NEW b \in Blocks, Change(b) PROVE IInv'
  BY <1>5, ChangeIInv
<1>6. ASSUME NEW p \in Pids, Child(p) PROVE IInv'
  BY <1>6, ChildIInv
<1>7. CASE UNCHANGED blockVars
  BY <1>7 DEF blockVars, IInv, TypeOK, ChildKnown, KnownChild, NoZombies, OneLinePerRun,
              NothingToRead, UpdatingBusy, WaitsForOwnExit, LineIsText,
              StatusMatchesText, SinceSource, TextInRun, HasText, Busy
<1> QED
  BY <1>1, <1>2, <1>3, <1>4, <1>5, <1>6, <1>7 DEF BlockNext

LEMMA BlockInvariant == BlockSpec => []IInv
BY InitIInv, NextIInv, PTL DEF BlockSpec

\* The variables of block.c and of its children always have their types.
THEOREM TypeCorrect == BlockSpec => []TypeOK
BY BlockInvariant, PTL DEF IInv

\* At no time are there two children of one block (the fork_pid check of
\* block_execute()).
THEOREM OneChild == BlockSpec => []OneChildPerBlock
<1>1. IInv => OneChildPerBlock
  BY DEF IInv, ChildKnown, OneChildPerBlock
<1> QED
  BY <1>1, BlockInvariant, PTL

\* The waitpid() of block_update() only ever waits for the block's own child, and
\* for nothing but its exit.
THEOREM WaitIsShort == BlockSpec => []WaitsForOwnExit
BY BlockInvariant, PTL DEF IInv

\* A pipe holds at most the line of the run in progress.
THEOREM OneLine == BlockSpec => []OneLinePerRun
BY BlockInvariant, PTL DEF IInv

\* The line that block_update() has read and the exit status that it gets are of
\* the same run.
THEOREM StatusOfLine == BlockSpec => []StatusMatchesText
BY BlockInvariant, PTL DEF IInv

-------------------------------------------------------------------------------
(* block.c implements AsyncBlock.                                          *)

\* The end of a run, as AsyncBlock sees it.
LEMMA ReapRefines ==
  ASSUME IInv, NEW b \in Blocks, Reap(b) PROVE Async!Succeed(b) \/ Async!Fail(b)
<1> PICK p \in WaitTargets(b) :
      /\ child[p].phase = "zombie"
      /\ Collects(b, p, IF child[p].status = 0 THEN buffer ELSE output[b])
  BY DEF Reap
<1>1. /\ updating = b /\ p \in Pids
      /\ ~sigchld_ignored /\ fork_pid[b] = p /\ child[p].block = b
  BY CollectedIsOwn DEF Reap, WaitTargets
<1>2. /\ Busy(b)
      /\ {c \in Blocks : Busy(c)'} = {c \in Blocks : Busy(c)} \ {b}
      /\ UNCHANGED <<source, since>>
  BY <1>1, Constants DEF Collects, IInv, TypeOK, Busy
<1>3. CASE child[p].status = 0
  <2>1. buffer \in since[b] .. source[b]
    BY <1>1, <1>3, Constants DEF IInv, StatusMatchesText, TextInRun, HasText
  <2>2. output' = [output EXCEPT ![b] = buffer]
    BY <1>3 DEF Collects
  <2> QED
    BY <1>2, <2>1, <2>2 DEF Async!Succeed
<1>4. CASE child[p].status # 0
  <2>1. output' = output
    BY <1>4 DEF Collects, IInv, TypeOK
  <2> QED
    BY <1>2, <2>1 DEF Async!Fail
<1> QED
  BY <1>3, <1>4

LEMMA NextRefines ==
  ASSUME IInv, [BlockNext]_blockVars PROVE [Async!Next]_(Async!vars)
<1>1. ASSUME NEW b \in Blocks, Fork(b) PROVE Async!Start(b)
  BY <1>1, Constants DEF Fork, ForkAs, FreePids, Busy, Async!Start, IInv, TypeOK
<1>2. ASSUME NEW b \in Blocks, Change(b) PROVE Async!Change(b)
  BY <1>2 DEF Change, Async!Change, Busy
<1>3. ASSUME NEW b \in Blocks, Read(b) \/ WaitFails(b) PROVE UNCHANGED Async!vars
  BY <1>3 DEF Read, WaitFails, Async!vars, Busy
<1>4. ASSUME NEW p \in Pids, Child(p) PROVE UNCHANGED Async!vars
  BY <1>4 DEF Child, ChildRuns, ChildWrites, ChildFails, ChildExits, ChildKilled,
              Writes, Exits, Async!vars, Busy
<1>5. CASE UNCHANGED blockVars
  BY <1>5 DEF blockVars, Async!vars, Busy
<1> QED
  BY <1>1, <1>2, <1>3, <1>4, <1>5, ReapRefines DEF BlockNext, Async!Next, Async!Blocks, Blocks

\* Whatever the processes, pipes and exit statuses do, a caller of block.c sees
\* runs that start and end, and outputs that their sources reported meanwhile.
THEOREM BlockRefinesAsync == BlockSpec => AsyncBlockSpec
<1>1. BlockInit => Async!Init
  BY DEF BlockInit, Async!Init, Busy, Empty, Async!Blocks, Blocks
<1>2. IInv /\ [BlockNext]_blockVars => [Async!Next]_(Async!vars)
  BY NextRefines
<1> QED
  BY <1>1, <1>2, BlockInvariant, PTL DEF BlockSpec, AsyncBlockSpec, Async!Spec

\* The order of the versions, as an invariant of AsyncBlock.
LEMMA ReportedStep ==
  ASSUME Async!TypeOK, Async!Reported, [Async!Next]_(Async!vars)
  PROVE  /\ Async!Reported'
         /\ \A b \in Blocks : output[b] <= output'[b]
<1>0. \A c \in Blocks : source[c] \in Int /\ since[c] \in Int /\ output[c] \in Int
  BY DEF Async!TypeOK, Async!Blocks, Blocks
<1> DEFINE running == {b \in Blocks : Busy(b)}
<1>00. \A c \in Blocks : /\ output[c] <= source[c]
                         /\ since[c] <= source[c]
                         /\ c \in running => output[c] <= since[c]
  BY Zenon DEF Async!Reported, Async!Blocks, Blocks
<1>1. ASSUME NEW b \in Blocks, Async!Start(b)
      PROVE  Async!Reported' /\ \A c \in Blocks : output[c] <= output'[c]
  <2>1. /\ source' = source /\ output' = output
        /\ running' = running \cup {b}
        /\ since'[b] = source[b]
        /\ \A c \in Blocks : c # b => since'[c] = since[c]
    BY <1>1 DEF Async!Start, Async!TypeOK, Async!Blocks, Blocks
  <2>2. \A c \in Blocks : /\ output'[c] <= source'[c]
                          /\ since'[c] <= source'[c]
                          /\ c \in running' => output'[c] <= since'[c]
    <3> HIDE DEF running
    <3> QED
      BY <1>0, <1>00, <2>1
  <2> QED
    BY <1>0, <2>1, <2>2 DEF Async!Reported, Async!Blocks, Blocks
<1>2. ASSUME NEW b \in Blocks, Async!Succeed(b)
      PROVE  Async!Reported' /\ \A c \in Blocks : output[c] <= output'[c]
  <2>1. PICK v \in since[b] .. source[b] : output' = [output EXCEPT ![b] = v]
    BY <1>2, Zenon DEF Async!Succeed
  <2>2. /\ source' = source /\ since' = since
        /\ running' = running \ {b} /\ b \in running
        /\ output'[b] = v
        /\ \A c \in Blocks : c # b => output'[c] = output[c]
    BY <1>2, <2>1 DEF Async!Succeed, Async!TypeOK, Async!Blocks, Blocks
  <2>3. \A c \in Blocks : /\ output'[c] <= source'[c]
                          /\ since'[c] <= source'[c]
                          /\ c \in running' => output'[c] <= since'[c]
                          /\ output[c] <= output'[c]
    <3> HIDE DEF running
    <3> QED
      BY <1>0, <1>00, <2>2
  <2> QED
    BY <2>3 DEF Async!Reported, Async!Blocks, Blocks
<1> USE DEF Async!TypeOK, Async!Reported, Async!Blocks, Blocks
<1>3. ASSUME NEW b \in Blocks, Async!Fail(b)
      PROVE  Async!Reported' /\ \A c \in Blocks : output[c] <= output'[c]
  BY <1>3 DEF Async!Fail
<1>4. ASSUME NEW b \in Blocks, Async!Change(b)
      PROVE  Async!Reported' /\ \A c \in Blocks : output[c] <= output'[c]
  BY <1>4 DEF Async!Change
<1>5. CASE UNCHANGED Async!vars
  BY <1>5 DEF Async!vars
<1> QED
  BY <1>1, <1>2, <1>3, <1>4, <1>5 DEF Async!Next

\* The types of Block are those of AsyncBlock.
LEMMA AsyncTypes == IInv => Async!TypeOK
<1> SUFFICES ASSUME IInv PROVE Async!TypeOK
  OBVIOUS
<1>1. Texts \subseteq -1 .. MaxVersion
  BY Constants DEF Texts, Empty
<1>2. /\ source \in [Blocks -> 0 .. MaxVersion]
      /\ since \in [Blocks -> 0 .. MaxVersion]
      /\ output \in [Blocks -> Texts]
  BY Zenon DEF IInv, TypeOK
<1>3. output \in [Blocks -> -1 .. MaxVersion]
  BY <1>1, <1>2
<1> QED
  BY <1>2, <1>3 DEF Async!TypeOK, Async!Blocks, Blocks

LEMMA OutputsReported == BlockSpec => [](IInv /\ Async!Reported)
<1>1. IInv => Async!TypeOK
  BY AsyncTypes
<1>2. BlockInit => Async!Reported
  BY DEF BlockInit, Async!Reported, Busy, Empty, Async!Blocks, Blocks
<1>3. IInv /\ Async!Reported /\ [BlockNext]_blockVars => Async!Reported'
  BY <1>1, NextRefines, ReportedStep
<1> QED
  BY <1>2, <1>3, BlockInvariant, PTL DEF BlockSpec

\* The output of a block never gets older, for all interleavings of the children
\* and of block_update().
THEOREM NeverOlder == BlockSpec => OutputNeverGoesBack
<1>1. IInv => Async!TypeOK
  BY AsyncTypes
<1>2. IInv /\ Async!Reported /\ [BlockNext]_blockVars
        => [\A b \in Blocks : output[b] <= output'[b]]_(Async!vars)
  BY <1>1, NextRefines, ReportedStep
<1> QED
  BY <1>2, OutputsReported, PTL DEF BlockSpec, OutputNeverGoesBack, Async!NeverGoesBack, Async!Blocks, Blocks

===============================================================================
