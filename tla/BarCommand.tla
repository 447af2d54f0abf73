------------------------------ MODULE BarCommand ------------------------------
(***************************************************************************)
(* The command of the block as config.h and the installation choose it:    *)
(* one of the bar functions, as the C program or as the shell script that  *)
(* has the same name (Makefile).                                           *)
(***************************************************************************)
EXTENDS BarFunction

VARIABLES
  command,  \* the name in config.h
  program   \* "C" or "sh"

choiceVars == <<command, program>>

\* The commands that there are in C and as a script, and as a script only.
Replaced == {"dwm_do_not_disturb", "dwm_spotify", "dwm_cpu", "dwm_memory",
             "dwm_countdown", "dwm_systemd_networkd"}
ScriptOnly == {"dwm_backlight", "dwm_bluetooth", "dwm_pulse", "dwm_vpn"}

\* Those with an interval other than 0.
Timed == {"dwm_spotify", "dwm_cpu", "dwm_memory", "dwm_bluetooth",
          "dwm_systemd_networkd", "dwm_vpn"}

Shell == program = "sh"

ChoiceTypeOK ==
  /\ command \in Replaced \cup ScriptOnly
  /\ program \in {"C", "sh"}

\* The kickstart of the bar has just started the command.
ChoiceInit(Commands, Programs) ==
  /\ command \in Commands
  /\ program \in IF command \in Replaced THEN Programs ELSE {"sh"}
  /\ requests = <<>>
  /\ running = TRUE
  /\ button = NoButton
  /\ finished = FALSE
  /\ printed = Nothing
  /\ shown = Nothing
  /\ at = "begin"
  /\ events = 0

\* What is outside starts in any of these states, for the command that uses it.
Outside(name, states) ==
  IF command = name THEN states ELSE {CHOOSE s \in states : TRUE}

\* A terminal window that the command has opened and waits for, or that has
\* inherited its standard output, keeps the run from ending until it is closed,
\* which nobody has to do.
WindowOpen == Running("window")
===============================================================================
