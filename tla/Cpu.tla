--------------------------------- MODULE Cpu ----------------------------------
(***************************************************************************)
(* The CPU block: its command (dwm_cpu.c, and the shell script of the same *)
(* name) shows the load since its last run, if it is high.  That is the    *)
(* difference of two snapshots of the kernel's counters, of which the      *)
(* earlier one is in a file in /tmp.  The block of another bar uses the    *)
(* same file at the same time.                                             *)
(***************************************************************************)
EXTENDS BarCommand, FiniteSets

VARIABLES
  ticks,        \* what the processor did in each unit of time since the boot:
                \* 1 for busy, 0 for idle
  stat_file,    \* the content of the file: a snapshot, or NoSnapshot when there is
                \* no file or an empty one
  stat,         \* the snapshot that the command has read from /proc/stat
  previous,     \* the one that it has read from the file
  other_at,     \* the next step of the command of the other bar
  other         \* the snapshot that it is about to save

cpuVars == <<ticks, stat_file, stat, previous, other_at, other>>

Snapshots == [total : Nat, idle : Nat]

\* The zeros that the program starts from.
NoSnapshot == [total |-> 0, idle |-> 0]

CpuSteps == {"window", "previous", "truncate", "save", "print"}

CpuTexts == 0 .. 100

CpuTypeOK ==
  /\ ticks \in Seq({0, 1})
  /\ other_at \in {"idle", "truncate", "save"}
  /\ {stat_file, stat, previous, other} \subseteq Snapshots

CpuInit ==
  /\ ticks = <<>>
  /\ stat_file = NoSnapshot
  /\ stat = NoSnapshot
  /\ previous = NoSnapshot
  /\ other_at = "idle"
  /\ other = NoSnapshot

\* /proc/stat
Now == [total |-> Len(ticks),
        idle |-> Cardinality({t \in DOMAIN ticks : ticks[t] = 0})]

-------------------------------------------------------------------------------
(* The command.                                                            *)

\* The terminal with btop is started in the background, and keeps the standard
\* output of the command: the run lasts until it is closed.
OpenTop ==
  /\ Running("begin")
  /\ button = 1
  /\ Goes("window")
  /\ UNCHANGED cpuVars

TopCloses ==
  /\ WindowOpen
  /\ Ends(Nothing)
  /\ UNCHANGED cpuVars

NotifyTop ==
  /\ Running("begin")
  /\ button = 3
  /\ Ends(Nothing)
  /\ UNCHANGED cpuVars

ReadStat ==
  /\ Running("begin")
  /\ button \notin {1, 3}
  /\ stat' = Now
  /\ Goes("previous")
  /\ UNCHANGED <<ticks, stat_file, previous, other_at, other>>

ReadPrevious ==
  /\ Running("previous")
  /\ previous' = stat_file
  /\ Goes("truncate")
  /\ UNCHANGED <<ticks, stat_file, stat, other_at, other>>

\* fopen() with "w" empties the file.
TruncateFile ==
  /\ Running("truncate")
  /\ stat_file' = NoSnapshot
  /\ Goes("save")
  /\ UNCHANGED <<ticks, stat, previous, other_at, other>>

\* The file is somebody else's.
TruncateFails ==
  /\ "file" \in Faults
  /\ Running("truncate")
  /\ Goes("print")
  /\ UNCHANGED cpuVars

\* Mutant of SaveStat: the idle time of the earlier snapshot is saved again.
SaveStatStale ==
  /\ Running("save")
  /\ stat_file' = [stat EXCEPT !.idle = previous.idle]
  /\ Goes("print")
  /\ UNCHANGED <<ticks, stat, previous, other_at, other>>

\* One line, in one write() when the file is closed.
SaveStat ==
  /\ Running("save")
  /\ stat_file' = stat
  /\ Goes("print")
  /\ UNCHANGED <<ticks, stat, previous, other_at, other>>

CpuThreshold(discharging) == IF discharging THEN 20 ELSE 70

\* The battery may be plugged in or out at any time.
PrintLoad ==
  /\ Running("print")
  /\ LET d_total == stat.total - previous.total
         d_idle == stat.idle - previous.idle
         cpu_pct == ((d_total - d_idle) * 100) \div d_total
     IN  \E discharging \in BOOLEAN :
           Ends(IF d_total > 0 /\ cpu_pct >= CpuThreshold(discharging)
                  THEN cpu_pct ELSE Nothing)
  /\ previous' = NoSnapshot
  /\ UNCHANGED <<ticks, stat_file, stat, other_at, other>>

CpuCommand ==
  \/ OpenTop \/ NotifyTop
  \/ ReadStat \/ ReadPrevious \/ TruncateFile \/ TruncateFails \/ SaveStat
  \/ PrintLoad

-------------------------------------------------------------------------------
(* The processor and the other bar.                                        *)

TimePasses ==
  /\ Happens
  /\ \E busy \in {0, 1} : ticks' = Append(ticks, busy)
  /\ UNCHANGED <<slotVars, at, stat_file, stat, previous, other_at, other>>

OtherReads ==
  /\ "others" \in Faults
  /\ other_at = "idle"
  /\ other_at' = "truncate"
  /\ other' = Now
  /\ UNCHANGED <<barVars, ticks, stat_file, stat, previous>>

OtherTruncates ==
  /\ other_at = "truncate"
  /\ other_at' = "save"
  /\ stat_file' = NoSnapshot
  /\ UNCHANGED <<barVars, ticks, stat, previous, other>>

OtherSaves ==
  /\ other_at = "save"
  /\ other_at' = "idle"
  /\ stat_file' = other
  /\ other' = NoSnapshot
  /\ UNCHANGED <<barVars, ticks, stat, previous>>

CpuEnvironment ==
  TimePasses \/ OtherReads \/ OtherTruncates \/ OtherSaves

-------------------------------------------------------------------------------
(* Properties.                                                             *)

\* The load of the processor from one time to another, in percent.
Load(from, to) ==
  (100 * Cardinality({t \in from + 1 .. to : ticks[t] = 1})) \div (to - from)

\* The percentage is always the load of a real interval, the one that ends when
\* the run looked at the counters: whatever the block of another bar has done to
\* the file in between, no run takes the total of one snapshot and the idle time
\* of another, or a snapshot later than its own.
LoadIsReal ==
  command = "dwm_cpu" /\ finished /\ printed # Nothing =>
    \E from \in 0 .. stat.total - 1 : printed = Load(from, stat.total)
===============================================================================
