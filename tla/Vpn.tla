---------------------------------- MODULE Vpn ----------------------------------
(***************************************************************************)
(* The VPN block (dwm_vpn): a lock while there is the interface tun0; and  *)
(* button 3 ends openvpn, which takes the interface down.                  *)
(***************************************************************************)
EXTENDS BarCommand

VARIABLES
  tun0,    \* whether there is the interface
  openvpn  \* how many processes ps shows for it, sudo's included

vpnVars == <<tun0, openvpn>>

VpnSteps == {"ps", "kill", "print"}

VpnTexts == {"lock"}

VpnTypeOK ==
  /\ tun0 \in BOOLEAN
  /\ openvpn \in 0 .. 2

VpnInit ==
  /\ tun0 = FALSE
  /\ openvpn = 0

-------------------------------------------------------------------------------
(* The script.                                                             *)

NoTunnel ==
  /\ Running("begin")
  /\ ~tun0
  /\ Ends(Nothing)
  /\ UNCHANGED vpnVars

\* Button 1 shows the details.
ClickVpn ==
  /\ Running("begin")
  /\ tun0
  /\ Goes(IF button = 3 THEN "ps" ELSE "print")
  /\ UNCHANGED vpnVars

\* Without a process there is nothing to kill, and the ids of two processes are
\* not the id of one.
FindOpenvpn ==
  /\ Running("ps")
  /\ Goes(IF openvpn = 1 THEN "kill" ELSE "print")
  /\ UNCHANGED vpnVars

\* openvpn takes the interface down.  The process may no longer be the one that
\* was found, or sudo asks in vain for a password.
KillOpenvpn ==
  /\ Running("kill")
  /\ \/ openvpn = 1 /\ openvpn' = 0 /\ tun0' = FALSE
     \/ UNCHANGED vpnVars
  /\ Goes("print")

\* The interface is not looked at again.
PrintLock ==
  /\ Running("print")
  /\ Ends("lock")
  /\ UNCHANGED vpnVars

VpnCommand == NoTunnel \/ ClickVpn \/ FindOpenvpn \/ KillOpenvpn \/ PrintLock

\* openvpn is started, by sudo or as a service, and takes a while to connect; it
\* ends.
VpnChanges ==
  /\ Happens
  /\ \/ openvpn = 0 /\ openvpn' \in {1, 2} /\ tun0' = FALSE
     \/ openvpn > 0 /\ ~tun0 /\ tun0' = TRUE /\ UNCHANGED openvpn
     \/ openvpn > 0 /\ openvpn' = 0 /\ tun0' = FALSE
  /\ UNCHANGED <<slotVars, at>>

-------------------------------------------------------------------------------

VpnView == IF tun0 THEN "lock" ELSE Nothing
===============================================================================
