----------------------------- MODULE DoNotDisturb -----------------------------
(***************************************************************************)
(* The do-not-disturb block: its command (dwm_do_not_disturb.c, and the    *)
(* shell script of the same name) shows whether dunst holds back           *)
(* notifications and, from a file, until when.  Button 1 toggles, button 3 *)
(* holds them back for an hour.  The block has interval 0: it is run at    *)
(* its signal only, which the command raises itself after a click.         *)
(***************************************************************************)
EXTENDS BarCommand

VARIABLES
  paused,    \* dunst's property
  end_file,  \* whether the file with the end time exists
  got,       \* the local variable that get_paused() returned to
  obeyed     \* history: dunst answered and did what it was told, and nobody
             \* else told it anything

dndVars == <<paused, end_file, got, obeyed>>

\* A click goes from "begin" through "toggle" and "unlink" or through "write" to
\* "signal", the display through "file".
DndSteps == {"toggle", "unlink", "write", "signal", "display", "file"}

DndTexts == {"icon", "icon and time"}

DndTypeOK ==
  /\ paused \in BOOLEAN
  /\ end_file \in BOOLEAN
  /\ got \in {0, 1}
  /\ obeyed \in BOOLEAN

DndInit ==
  /\ paused = FALSE
  /\ end_file = FALSE
  /\ got = 0
  /\ obeyed = TRUE

-------------------------------------------------------------------------------
(* The command, one access to dunst, the file or the bar per step.         *)

\* dunst is told to hold back notifications or not; nobody looks whether it did.
Tells(value) ==
  /\ paused' \in {value} \cup (IF "bus" \in Faults THEN {paused} ELSE {})
  /\ obeyed' = (obeyed /\ paused' = value)

\* Without a click, or after one, the script displays; the C program does so
\* without a click only.
Displays ==
  \/ Running("display")
  \/ Running("begin") /\ (button = NoButton \/ (Shell /\ button \notin {1, 3}))

\* The session bus or dunst cannot be reached: the C program ends, the script
\* has nothing to display.
BusFails ==
  /\ "bus" \in Faults
  /\ IF Shell THEN Displays ELSE Running("begin")
  /\ Ends(Nothing)
  /\ UNCHANGED dndVars

\* Mutant of GetForClick: the check for a failure, -1, is gone.
GetForClickUnchecked ==
  /\ ~Shell
  /\ Running("begin")
  /\ button = 1
  /\ got' \in {IF paused THEN 1 ELSE 0, -1}
  /\ Goes("toggle")
  /\ UNCHANGED <<paused, end_file, obeyed>>

\* C: get_paused() of a click with button 1.
GetForClick ==
  /\ ~Shell
  /\ Running("begin")
  /\ button = 1
  /\ got' = IF paused THEN 1 ELSE 0
  /\ Goes("toggle")
  /\ UNCHANGED <<paused, end_file, obeyed>>

\* C: set_paused() with the opposite of what was read.  Its result is not
\* looked at.
SetForClick ==
  /\ ~Shell
  /\ Running("toggle")
  /\ Tells(got = 0)
  /\ Goes(IF got # 0 THEN "unlink" ELSE "signal")
  /\ UNCHANGED <<end_file, got>>

\* Shell: dunst toggles by itself.
ToggleForClick ==
  /\ Shell
  /\ Running("begin")
  /\ button = 1
  /\ Tells(~paused)
  /\ Goes("toggle")
  /\ UNCHANGED <<end_file, got>>

\* Shell: "If turning off DND, remove any timer file"; no answer counts as on.
AskAfterToggle ==
  /\ Shell
  /\ Running("toggle")
  /\ \E answer \in {paused} \cup (IF "bus" \in Faults THEN {TRUE} ELSE {}) :
       /\ Goes(IF answer THEN "signal" ELSE "unlink")
       /\ obeyed' = (obeyed /\ answer = paused)
  /\ UNCHANGED <<paused, end_file, got>>

\* Mutant of RemoveFile: the file is kept.
KeepFile ==
  /\ Running("unlink")
  /\ Goes("signal")
  /\ UNCHANGED dndVars

RemoveFile ==
  /\ Running("unlink")
  /\ end_file' = FALSE
  /\ Goes("signal")
  /\ UNCHANGED <<paused, got, obeyed>>

PauseForHour ==
  /\ Running("begin")
  /\ button = 3
  /\ Tells(TRUE)
  /\ Goes("write")
  /\ UNCHANGED <<end_file, got>>

WriteFile ==
  /\ Running("write")
  /\ end_file' \in {TRUE} \cup (IF "file" \in Faults THEN {end_file} ELSE {})
  /\ Goes("signal")
  /\ UNCHANGED <<paused, got, obeyed>>

\* pkill -RTMIN+14 dwmblocks, from within the run.  The C program ends there; the
\* script does so after button 1.
SignalAndEnd ==
  /\ Running("signal")
  /\ ~Shell \/ button = 1
  /\ Request(NoButton)
  /\ at' = "idle"
  /\ Finish(Nothing)
  /\ UNCHANGED <<running, button, shown, events, dndVars>>

\* After button 3 the script goes on to the display.
SignalAndDisplay ==
  /\ Running("signal")
  /\ Shell
  /\ button = 3
  /\ Signals
  /\ at' = "display"
  /\ UNCHANGED dndVars

\* C: no other button has a meaning, and nothing is displayed then.
OtherButton ==
  /\ ~Shell
  /\ Running("begin")
  /\ button \notin {NoButton, 1, 3}
  /\ Ends(Nothing)
  /\ UNCHANGED dndVars

\* Mutant of GetForDisplay: the display path raises the signal, too.
GetForDisplaySignals ==
  /\ Displays
  /\ at' = "idle"
  /\ Finish(IF paused THEN "icon" ELSE Nothing)
  /\ Request(NoButton)
  /\ UNCHANGED <<running, button, shown, events, dndVars>>

GetForDisplay ==
  /\ Displays
  /\ IF paused THEN Goes("file") ELSE Ends(Nothing)
  /\ UNCHANGED dndVars

ReadFile ==
  /\ Running("file")
  /\ Ends(IF end_file THEN "icon and time" ELSE "icon")
  /\ UNCHANGED dndVars

DndCommand ==
  \/ BusFails
  \/ GetForClick \/ SetForClick
  \/ ToggleForClick \/ AskAfterToggle
  \/ RemoveFile
  \/ PauseForHour \/ WriteFile
  \/ SignalAndEnd \/ SignalAndDisplay \/ OtherButton
  \/ GetForDisplay \/ ReadFile

\* Somebody else's dunstctl, a key binding for example.
OthersPause ==
  /\ "others" \in Faults
  /\ paused' = ~paused
  /\ obeyed' = FALSE
  /\ UNCHANGED <<barVars, end_file, got>>

-------------------------------------------------------------------------------
(* Properties.                                                             *)

\* Between runs the file with the end time exists only while notifications are
\* held back: as long as dunst obeys and nobody else tells it anything, no
\* sequence of clicks leaves an end time behind for a later pause that has none,
\* although the command does two things to the state and looks at neither.
FileOnlyWhilePaused == obeyed /\ ~running /\ end_file => paused

\* "Displays DND status icon (with optional timer end-time) in dwmblocks" (the
\* header of dwm_do_not_disturb.c): while notifications are held back the bar
\* gets to show it, whoever had them held back by a click.
StatusShown == paused ~> shown # Nothing \/ ~paused
===============================================================================
