------------------------------ MODULE Backlight -------------------------------
(***************************************************************************)
(* The backlight block (dwm_backlight): shows an icon for the brightness,  *)
(* and for two seconds after a click that changes it the percentage, too:  *)
(* the click leaves a flag file, and a background process that sleeps,     *)
(* removes the file and signals the bar.  The block has interval 0.        *)
(*                                                                         *)
(* Time passes in seconds (Tick), and only while the bar has nothing to do *)
(* for the block: a run takes far less than a second, unless it waits for  *)
(* its background process.                                                 *)
(***************************************************************************)
EXTENDS BarCommand, SequencesExt

CONSTANT Levels  \* the brightness, in percent, that the bar may start with

ASSUME BacklightAssumption == Levels # {} /\ Levels \subseteq 0 .. 100

VARIABLES
  bright,     \* the brightness in percent
  show_flag,  \* whether the flag file exists
  sleepers,   \* the background processes, the oldest first: the seconds that
              \* each has still to sleep, or Removed
  own,        \* whether the last of them belongs to the run in progress
  plain       \* history: the block was run, or asked to, for no change: with a
              \* button without a meaning, by a refresh or by somebody's signal

backlightVars == <<bright, show_flag, sleepers, own, plain>>

\* It has removed the file and has not raised the signal yet.
Removed == -1

\* "sleep 2"
Delay == 2

BacklightSteps == {"touch", "spawn", "signal", "brightness", "percentage", "eof"}

\* "if [ "$BRIGHT" -eq 100 ]" and the following.
Icon(b) == CASE b <= 30 -> "low"
             [] b \in 31 .. 50 -> "medium"
             [] b \in 51 .. 99 -> "high"

IconOnly(b) == <<Icon(b), -1>>
IconAndPercentage(b) == <<Icon(b), b>>

BacklightTexts == {"low", "medium", "high"} \X (-1 .. 99)

BacklightTypeOK ==
  /\ bright \in 0 .. 100
  /\ show_flag \in BOOLEAN
  /\ sleepers \in Seq(Removed .. Delay)
  /\ own \in BOOLEAN
  /\ own => sleepers # <<>>
  /\ plain \in BOOLEAN

BacklightInit ==
  /\ bright \in Outside("dwm_backlight", Levels)
  /\ show_flag = FALSE
  /\ sleepers = <<>>
  /\ own = FALSE
  /\ plain = FALSE

-------------------------------------------------------------------------------
(* The script.                                                             *)

\* brightnessctl set 50%, +5%, 5%-
Changed(btn) ==
  CASE btn = 1 -> 50
    [] btn = 4 -> IF bright > 95 THEN 100 ELSE bright + 5
    [] btn = 5 -> IF bright < 5 THEN 0 ELSE bright - 5

SetBrightness ==
  /\ Running("begin")
  /\ button \in {1, 4, 5}
  /\ bright' = Changed(button)
  /\ Goes("touch")
  /\ UNCHANGED <<show_flag, sleepers, own, plain>>

TouchFlag ==
  /\ Running("touch")
  /\ show_flag' = TRUE
  /\ Goes("spawn")
  /\ UNCHANGED <<bright, sleepers, own, plain>>

\* Mutant of SpawnSleeper: a process that is still there is taken to do.
SpawnSleeperOnce ==
  /\ Running("spawn")
  /\ sleepers' = IF sleepers = <<>> THEN <<Delay>> ELSE sleepers
  /\ own' = (sleepers = <<>>)
  /\ Goes("signal")
  /\ UNCHANGED <<bright, show_flag, plain>>

\* ( sleep 2 && rm && kill ) &
SpawnSleeper ==
  /\ Running("spawn")
  /\ sleepers' = Append(sleepers, Delay)
  /\ own' = TRUE
  /\ Goes("signal")
  /\ UNCHANGED <<bright, show_flag, plain>>

SignalBacklight ==
  /\ Running("signal")
  /\ Signals
  /\ at' = "brightness"
  /\ UNCHANGED backlightVars

NoChange ==
  /\ Running("begin")
  /\ button \notin {1, 4, 5}
  /\ plain' = (plain \/ button # NoButton)
  /\ Goes("brightness")
  /\ UNCHANGED <<bright, show_flag, sleepers, own>>

\* At 100 percent nothing is printed: fgets() in the child of the bar then waits
\* for the end of the output, which the background process has inherited.
ReadBrightness ==
  /\ Running("brightness")
  /\ Goes(IF bright = 100 THEN "eof" ELSE "percentage")
  /\ UNCHANGED backlightVars

EndOfOutput ==
  /\ Running("eof")
  /\ ~own
  /\ Ends(Nothing)
  /\ UNCHANGED backlightVars

\* A line ends the run although the background process goes on.
PrintBrightness ==
  /\ Running("percentage")
  /\ Ends(IF show_flag THEN IconAndPercentage(bright) ELSE IconOnly(bright))
  /\ own' = FALSE
  /\ UNCHANGED <<bright, show_flag, sleepers, plain>>

BacklightCommand ==
  \/ SetBrightness \/ TouchFlag \/ SpawnSleeper \/ SignalBacklight \/ NoChange
  \/ ReadBrightness \/ EndOfOutput \/ PrintBrightness

-------------------------------------------------------------------------------
(* The background processes.                                               *)

RemoveFlag(i) ==
  /\ sleepers[i] = 0
  /\ sleepers' = [sleepers EXCEPT ![i] = Removed]
  /\ show_flag' = FALSE
  /\ UNCHANGED <<barVars, bright, own, plain>>

SignalRemoved(i) ==
  /\ sleepers[i] = Removed
  /\ sleepers' = RemoveAt(sleepers, i)
  /\ own' = (own /\ i # Len(sleepers))
  /\ Signals
  /\ UNCHANGED <<at, bright, show_flag, plain>>

Sleeper == \E i \in DOMAIN sleepers : RemoveFlag(i) \/ SignalRemoved(i)

\* A second passes.
Tick ==
  /\ sleepers # <<>>
  /\ \A i \in DOMAIN sleepers : sleepers[i] > 0
  /\ requests = <<>>
  /\ ~running \/ Running("eof")
  /\ sleepers' = [i \in DOMAIN sleepers |-> sleepers[i] - 1]
  /\ UNCHANGED <<barVars, bright, show_flag, own, plain>>

-------------------------------------------------------------------------------
(* Properties.                                                             *)

BacklightView == IF bright = 100 THEN Nothing ELSE IconOnly(bright)

BacklightViews ==
  IF bright = 100 THEN {Nothing} ELSE {IconOnly(bright), IconAndPercentage(bright)}

\* When nothing is left to do, the bar shows the icon of the brightness that the
\* clicks have led to, and the flag has gone: each click starts a process that
\* removes the flag of all of them, and most of the signals that are raised meet
\* the block busy and are dropped.  The percentage has gone again, too, if all
\* runs were those of the clicks and of their processes.  (A button without a
\* meaning, a refresh of the bar or somebody else's signal for the block starts a
\* run that leaves no process behind; when that run reads the flag just before
\* the end of the two seconds, it makes the bar drop the last signal, and the
\* percentage stays until the next run.)
BacklightSettles ==
  /\ command = "dwm_backlight"
  /\ ~running /\ requests = <<>> /\ sleepers = <<>>
  => ~show_flag /\ shown \in IF plain THEN BacklightViews ELSE {BacklightView}
===============================================================================
