------------------------------- MODULE Networkd -------------------------------
(***************************************************************************)
(* The network block: what its two commands, dwm_systemd_networkd.c and    *)
(* the shell script, show for the same state of the network.               *)
(***************************************************************************)
EXTENDS Wireless

CONSTANTS
  Drivers,   \* "wext": answers the old ioctl and /proc; "nl80211": only iw
  Levels,    \* signal strengths, in dB below 1 mW
  Networks,  \* names: "home", "last home" (the last in the script), "other"
  Told       \* whether iw knows the signal of the network

VARIABLES
  net,      \* the state of the network
  c_icon,   \* what the C program has printed for it
  sh_icon   \* what the script has printed

vars == <<net, c_icon, sh_icon>>

Dbm == {-level : level \in Levels}

States ==
  [wired : BOOLEAN, up : BOOLEAN, driver : Drivers, network : Networks \cup {"none"},
   dbm : Dbm, told : Told, internet : BOOLEAN]

\* The bar starts before there is a network.
Init ==
  /\ net \in {n \in States : ~n.wired /\ ~n.up /\ ~n.internet}
  /\ c_icon = CIcon(net, net.internet)
  /\ sh_icon = ShIcon(net, net.internet)

Runs ==
  /\ c_icon' = CIcon(net', net'.internet)
  /\ sh_icon' = ShIcon(net', net'.internet)

\* The commands are run again after the signal has changed, or anything else.
SignalChanges ==
  /\ \E dbm \in Dbm : net' = [net EXCEPT !.dbm = dbm]
  /\ Runs

NetworkChanges ==
  /\ \E new \in States : net' = [new EXCEPT !.dbm = net.dbm]
  /\ Runs

Next == SignalChanges \/ NetworkChanges

Spec == Init /\ [][Next]_vars

-------------------------------------------------------------------------------
(* Properties.                                                             *)

\* "They produce identical output to their shell counterparts" (README,
\* Compiling C bar functions).
IdenticalOutput == c_icon = sh_icon
===============================================================================
