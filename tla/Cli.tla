---------------------------------- MODULE Cli ----------------------------------
(***************************************************************************)
(* The command line (cli.c): getopt() takes the options one by one.        *)
(***************************************************************************)
CONSTANT Options  \* the option letters that the program is started with

ASSUME CliAssumption == Options \subseteq STRING

\* The status is printed and the X root window left alone.
is_debug_mode == "d" \in Options

\* Anything else leaves errno set: the usage is printed and main() returns 1.
cli_accepted == Options \subseteq {"d"}
===============================================================================
