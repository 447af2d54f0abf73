------------------------------- MODULE Wireless -------------------------------
(***************************************************************************)
(* What the two commands of the network block, dwm_systemd_networkd.c and  *)
(* the shell script, make of a state of the network: a record that tells   *)
(* whether a cable is plugged in (wired) and the wireless interface is up, *)
(* its driver ("wext" answers the old ioctl and /proc, "nl80211" only iw), *)
(* the network that it is connected to ("none", "home", "last home", the   *)
(* last of the script's list, or another), its signal in dB above 1 mW,    *)
(* and whether iw is told of it.                                           *)
(***************************************************************************)
EXTENDS Integers

Off == <<"off">>
Wired(internet) == IF internet THEN <<>> ELSE <<"wired", "no internet">>

\* The same thresholds in all four tables: wifi_noinet(), wifi_ok() and the
\* two of the script.
Bars(strength) ==
  CASE strength >= 80 -> 4
    [] strength <= 20 -> 0
    [] strength \in 21 .. 40 -> 1
    [] strength \in 41 .. 60 -> 2
    [] OTHER -> 3

Wifi(strength, internet) == <<"wifi", Bars(strength), internet>>

Abs(n) == IF n < 0 THEN -n ELSE n

\* get_wifi_signal(): the level in /proc/net/wireless without its sign, or -1.
get_wifi_signal(n) == IF n.driver = "wext" THEN Abs(n.dbm) ELSE -1

dbm_to_quality(dbm) ==
  IF dbm >= -50 THEN 100 ELSE IF dbm <= -100 THEN 0 ELSE 2 * (dbm + 100)

is_home_network(network) == network \in {"home", "last home"}

\* The C program.  Without a signal in its answer, iw counts as -100 dBm.
CIcon(n, internet) ==
  LET used_iw == n.driver # "wext"
      level == get_wifi_signal(n)
      strength == IF level >= 0 THEN level
                  ELSE IF used_iw THEN dbm_to_quality(IF n.told THEN n.dbm ELSE -100)
                  ELSE 0
  IN  CASE n.wired -> Wired(internet)
        [] ~n.wired /\ (~n.up \/ n.network = "none") -> Off
        [] OTHER -> IF internet /\ is_home_network(n.network) THEN <<>>
                    ELSE Wifi(strength, internet)

Clamp(n) == IF n > 100 THEN 100 ELSE IF n < 0 THEN 0 ELSE n

\* The script.  The last name of its list is not followed by the space that its
\* pattern asks for.
ShIcon(n, internet) ==
  LET strength == IF n.told THEN Clamp((n.dbm + 100) * 2)
                  ELSE IF n.driver = "wext" THEN Abs(n.dbm)
                  ELSE 50
  IN  CASE n.wired -> Wired(internet)
        [] ~n.wired /\ (~n.up \/ n.network = "none") -> Off
        [] OTHER -> IF internet /\ n.network = "home" THEN <<>>
                    ELSE Wifi(strength, internet)
===============================================================================
