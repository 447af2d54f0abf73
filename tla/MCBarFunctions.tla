---------------------------- MODULE MCBarFunctions ----------------------------
(* The commands of the bar, each with the buttons that mean something on its *)
(* block, and one that does not.                                             *)
EXTENDS BarFunctions

MCUses ==
  [c \in Commands |->
     CASE c = "dwm_do_not_disturb" -> {1, 2, 3}
       [] c = "dwm_backlight" -> {1, 2, 4, 5}
       [] c = "dwm_spotify" -> {1, 2, 3, 5}
       [] c = "dwm_cpu" -> {1, 3}
       [] c = "dwm_memory" -> {1, 3}
       [] c = "dwm_countdown" -> {1}
       [] c = "dwm_bluetooth" -> {1, 3, 4}
       [] c = "dwm_pulse" -> {1, 3, 5}
       [] c = "dwm_systemd_networkd" -> {1, 3}
       [] c = "dwm_vpn" -> {1, 3}]

AllCommands == Replaced \cup ScriptOnly
JustDnd == {"dwm_do_not_disturb"}

\* 2 GiB, and the sizes at the thresholds and at 1 GiB.
TwoGiB == 2097152
MCAvailable ==
  {TwoGiB - used : used \in {0, 629145, 650118, 1048575, 1048576, 1593836}}

\* A cable, no network, and wireless networks with all drivers and peers.
Cable(peer) ==
  [wired |-> TRUE, up |-> FALSE, driver |-> "wext", network |-> "none",
   dbm |-> -60, told |-> TRUE, peer |-> peer]
Air(driver, network, dbm, told, peer) ==
  [wired |-> FALSE, up |-> TRUE, driver |-> driver, network |-> network,
   dbm |-> dbm, told |-> told, peer |-> peer]
MCNetStates ==
  {Cable("prompt"), Cable("refuses"),
   Air("wext", "none", -60, TRUE, "unreachable"),
   [Air("wext", "none", -60, TRUE, "unreachable") EXCEPT !.up = FALSE],
   Air("wext", "home", -60, TRUE, "prompt"),
   Air("wext", "last home", -60, FALSE, "prompt"),
   Air("nl80211", "other", -75, TRUE, "late"),
   Air("nl80211", "other", -75, FALSE, "refuses"),
   Air("nl80211", "home", -95, TRUE, "silent")}
===============================================================================
