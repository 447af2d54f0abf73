------------------------------ MODULE Countdown -------------------------------
(***************************************************************************)
(* The countdown block: its command (dwm_countdown.c, and the shell script *)
(* of the same name) shows the file that a countdown writes every second;  *)
(* button 1 cancels: it ends the countdowns and removes the file.          *)
(*                                                                         *)
(* A countdown is a process of another project.  It is modelled by what    *)
(* the command expects of it: it writes a file of its own in /tmp, removes *)
(* it at its end, and signals the block, which has interval 0.             *)
(***************************************************************************)
EXTENDS BarCommand, FiniteSets

CONSTANT Countdowns  \* the names that the files of countdowns may have

ASSUME CountdownAssumption == Countdowns \subseteq Nat

VARIABLES
  counting,   \* the countdowns whose process runs
  count_file, \* the files: count_file[c] is "absent", "empty" or "written"
  path,       \* the files that glob() has found, of which the first is used
  several     \* history: a countdown started while another was there, or while
              \* the command was dealing with one

countdownVars == <<counting, count_file, path, several>>

CountdownSteps == {"matched", "unlink", "notify"}

CountdownTexts == Countdowns

Existing == {c \in Countdowns : count_file[c] # "absent"}

CountdownTypeOK ==
  /\ counting \subseteq Countdowns
  /\ count_file \in [Countdowns -> {"absent", "empty", "written"}]
  /\ path \subseteq Countdowns
  /\ several \in BOOLEAN

CountdownInit ==
  /\ counting = {}
  /\ count_file = [c \in Countdowns |-> "absent"]
  /\ path = {}
  /\ several = FALSE

-------------------------------------------------------------------------------
(* The command.                                                            *)

NoMatch ==
  /\ Running("begin")
  /\ Existing = {}
  /\ Ends(Nothing)
  /\ UNCHANGED countdownVars

\* glob() returns the names in their order.
Match ==
  /\ Running("begin")
  /\ Existing # {}
  /\ path' = Existing
  /\ Goes("matched")
  /\ UNCHANGED <<counting, count_file, several>>

First == CHOOSE c \in path : \A d \in path : c <= d

\* killall countdown
KillAll ==
  /\ Running("matched")
  /\ button = 1
  /\ counting' = {}
  /\ Goes("unlink")
  /\ UNCHANGED <<count_file, path, several>>

\* Mutant of Unlink: the list of the names has been freed, nothing is removed.
UnlinkFreed ==
  /\ Running("unlink")
  /\ Goes("notify")
  /\ UNCHANGED countdownVars

Unlink ==
  /\ Running("unlink")
  /\ count_file' = [count_file EXCEPT ![First] = "absent"]
  /\ Goes("notify")
  /\ UNCHANGED <<counting, path, several>>

\* "Cancelled"; nothing is printed.
NotifyCancelled ==
  /\ Running("notify")
  /\ Ends(Nothing)
  /\ path' = {}
  /\ UNCHANGED <<counting, count_file, several>>

\* A file that has gone by now, or that is empty, is not shown.
ReadCountdown ==
  /\ Running("matched")
  /\ button # 1
  /\ Ends(IF count_file[First] = "written" THEN First ELSE Nothing)
  /\ path' = {}
  /\ UNCHANGED <<counting, count_file, several>>

CountdownCommand ==
  NoMatch \/ Match \/ KillAll \/ Unlink \/ NotifyCancelled \/ ReadCountdown

-------------------------------------------------------------------------------
(* The countdowns.                                                         *)

CountdownStarts(c) ==
  /\ Happens
  /\ count_file[c] = "absent"
  /\ counting' = counting \cup {c}
  /\ count_file' = [count_file EXCEPT ![c] = "written"]
  /\ several' = (several \/ Existing # {} \/ path # {})
  /\ SlotRequest(NoButton)
  /\ UNCHANGED <<at, path>>

\* Every second: it empties its file and writes it, and makes one if it is gone.
CountdownRewrites(c) ==
  /\ c \in counting
  /\ \E content \in {"empty", "written"} :
       count_file' = [count_file EXCEPT ![c] = content]
  /\ UNCHANGED <<barVars, counting, path, several>>

CountdownEnds(c) ==
  /\ c \in counting
  /\ counting' = counting \ {c}
  /\ count_file' = [count_file EXCEPT ![c] = "absent"]
  /\ Signals
  /\ UNCHANGED <<at, path, several>>

CountdownEnvironment ==
  \E c \in Countdowns :
    CountdownStarts(c) \/ CountdownRewrites(c) \/ CountdownEnds(c)

-------------------------------------------------------------------------------
(* Properties.                                                             *)

\* A cancelled countdown leaves no file behind, which the block would show for
\* ever: the process, which writes the file every second, is ended before the
\* file is removed.  (All countdowns are ended and one file is removed, so that
\* this is so only while there is one at a time.)
CancelledIsGone ==
  command = "dwm_countdown" /\ ~several /\ ~running => Existing \subseteq counting
===============================================================================
