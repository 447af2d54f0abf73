------------------------------- MODULE Network --------------------------------
(***************************************************************************)
(* The network block: its command (dwm_systemd_networkd.c, and the shell   *)
(* script of the same name) looks at the cable, the wireless interface,    *)
(* its network and its signal, one after the other, and at last for an     *)
(* answer from the internet, while all of that may change.  The C program  *)
(* opens a connection for that and waits 200 ms, the script sends a ping   *)
(* and waits two seconds.                                                  *)
(***************************************************************************)
EXTENDS BarCommand, Wireless

CONSTANT NetStates  \* the states of the network, as in Wireless; and peer: what
                    \* the other side does

\* It answers at once or after a second, it refuses connections, the packets are
\* lost, or there is no way to it.
Peers == {"prompt", "late", "refuses", "silent", "unreachable"}

ASSUME NetworkAssumption ==
  /\ NetStates # {}
  /\ \A n \in NetStates :
       /\ n.wired \in BOOLEAN /\ n.up \in BOOLEAN /\ n.told \in BOOLEAN
       /\ n.driver \in {"wext", "nl80211"}
       /\ n.network \in STRING
       /\ n.dbm \in -120 .. -1
       /\ n.peer \in Peers

VARIABLES
  net,       \* the state of the network
  found,     \* what the command has found: "none", "wired" or a network
  strength,  \* its signal, -1 when it is not known
  internet   \* whether the other side has answered

networkVars == <<net, found, strength, internet>>

NetworkSteps == {"window", "wired", "state", "ssid", "iw", "level", "connect",
                 "poll", "print"}

Printed(icon) == IF icon = <<>> THEN Nothing ELSE icon

NetworkTexts ==
  {Off, Wired(FALSE)} \cup {Wifi(s, i) : s \in {0, 30, 50, 70, 100}, i \in BOOLEAN}

NetworkTypeOK ==
  /\ net \in NetStates
  /\ found \in {"none", "wired"} \cup {n.network : n \in NetStates}
  /\ strength \in -1 .. 120
  /\ internet \in BOOLEAN

NothingFound ==
  /\ found' = "none"
  /\ strength' = -1
  /\ internet' = FALSE

NetworkInit ==
  /\ net \in Outside("dwm_systemd_networkd", NetStates)
  /\ found = "none"
  /\ strength = -1
  /\ internet = FALSE

-------------------------------------------------------------------------------
(* The command.                                                            *)

\* Button 1 opens a terminal, which the command waits for; button 3 shows the
\* details.
ClickNetwork ==
  /\ Running("begin")
  /\ Goes(IF button = 1 THEN "window" ELSE "wired")
  /\ UNCHANGED networkVars

IwctlCloses ==
  /\ WindowOpen
  /\ Goes("wired")
  /\ UNCHANGED networkVars

CheckWired ==
  /\ Running("wired")
  /\ found' = IF net.wired THEN "wired" ELSE "none"
  /\ Goes(IF net.wired THEN "connect" ELSE "state")
  /\ UNCHANGED <<net, strength, internet>>

WirelessDown ==
  /\ Running("state")
  /\ ~net.up
  /\ Ends(Off)
  /\ UNCHANGED networkVars

WirelessUp ==
  /\ Running("state")
  /\ net.up
  /\ Goes(IF Shell THEN "iw" ELSE "ssid")
  /\ UNCHANGED networkVars

\* C: the ioctl.  If it fails iw is asked.
GetSsid ==
  /\ Running("ssid")
  /\ IF net.driver = "wext" /\ net.network # "none"
       THEN found' = net.network /\ Goes("level")
       ELSE Goes("iw") /\ UNCHANGED found
  /\ UNCHANGED <<net, strength, internet>>

NotConnected ==
  /\ Running("iw")
  /\ net.network = "none"
  /\ Ends(Off)
  /\ UNCHANGED networkVars

\* One answer of iw, with the name and the signal.
AskIw ==
  /\ Running("iw")
  /\ net.network # "none"
  /\ found' = net.network
  /\ strength' = IF Shell THEN (IF net.told THEN Clamp((net.dbm + 100) * 2) ELSE -1)
                 ELSE dbm_to_quality(IF net.told THEN net.dbm ELSE -100)
  /\ Goes(IF Shell /\ net.told THEN "connect" ELSE "level")
  /\ UNCHANGED <<net, internet>>

\* /proc/net/wireless: to the C program it matters more than the answer of iw.
ReadLevel ==
  /\ Running("level")
  /\ strength' = IF net.driver = "wext" THEN get_wifi_signal(net)
                 ELSE IF strength >= 0 THEN strength
                 ELSE IF Shell THEN 50 ELSE 0
  /\ Goes("connect")
  /\ UNCHANGED <<net, found, internet>>

\* C: connect() of a socket that does not block.
Connect ==
  /\ ~Shell
  /\ Running("connect")
  /\ Goes(IF net.peer = "unreachable" THEN "print" ELSE "poll")
  /\ UNCHANGED networkVars

\* Mutant of Connected: whatever the socket is writable for counts as an answer.
ConnectedOrRefused ==
  /\ Running("poll")
  /\ internet' = (net.peer \in {"prompt", "refuses"})
  /\ Goes("print")
  /\ UNCHANGED <<net, found, strength>>

\* C: poll() returns with the connection, with its error, or after 200 ms.
Connected ==
  /\ Running("poll")
  /\ internet' = (net.peer = "prompt")
  /\ Goes("print")
  /\ UNCHANGED <<net, found, strength>>

\* Shell: a host that refuses connections answers a ping.
Ping ==
  /\ Shell
  /\ Running("connect")
  /\ internet' = (net.peer \in {"prompt", "late", "refuses"})
  /\ Goes("print")
  /\ UNCHANGED <<net, found, strength>>

Hidden == IF Shell THEN found = "home" ELSE is_home_network(found)

PrintNetwork ==
  /\ Running("print")
  /\ Ends(CASE found = "wired" -> Printed(Wired(internet))
            [] found # "wired" /\ internet /\ Hidden -> Nothing
            [] OTHER -> Wifi(strength, internet))
  /\ NothingFound
  /\ UNCHANGED net

NetworkCommand ==
  \/ ClickNetwork
  \/ CheckWired \/ WirelessDown \/ WirelessUp
  \/ GetSsid \/ NotConnected \/ AskIw \/ ReadLevel
  \/ Connect \/ Connected \/ Ping
  \/ PrintNetwork

\* A cable is plugged in or out, the interface goes up or down, another network
\* is in reach, the internet is gone.
NetChanges ==
  /\ Happens
  /\ net' \in NetStates \ {net}
  /\ UNCHANGED <<slotVars, at, found, strength, internet>>

-------------------------------------------------------------------------------

\* What there is to see: what the command makes of the network as it is.
NetworkView ==
  IF Shell THEN Printed(ShIcon(net, net.peer \in {"prompt", "late", "refuses"}))
  ELSE Printed(CIcon(net, net.peer = "prompt"))
===============================================================================
