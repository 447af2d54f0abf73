----------------------------- MODULE BarFunctions -----------------------------
(***************************************************************************)
(* A block of the bar with one of the commands of bar-functions/, chosen   *)
(* in the initial state as config.h chooses it.                            *)
(***************************************************************************)
EXTENDS DoNotDisturb, Backlight, Spotify, Cpu, Memory, Countdown, Bluetooth,
        Pulse, Network, Vpn

CONSTANTS Commands,  \* the commands that the block may have
          Programs,  \* "C", "sh": the programs that may be installed
          Uses       \* Uses[c]: the buttons that are used on the block of command c

ASSUME BarFunctionsAssumption ==
  /\ Commands \subseteq Replaced \cup ScriptOnly
  /\ Programs \subseteq {"C", "sh"}
  /\ Uses \in [Commands -> SUBSET Buttons]
  /\ Failure \notin BacklightTexts \cup PulseTexts

worldVars == <<dndVars, backlightVars, spotifyVars, cpuVars, memoryVars,
               countdownVars, bluetoothVars, pulseVars, networkVars, vpnVars>>

vars == <<barVars, choiceVars, worldVars>>

\* The texts and the steps of each command.
Vocabulary ==
  CASE command = "dwm_do_not_disturb" -> FunctionTypeOK(DndTexts, DndSteps)
    [] command = "dwm_backlight" -> FunctionTypeOK(BacklightTexts, BacklightSteps)
    [] command = "dwm_spotify" -> FunctionTypeOK(SpotifyTexts, SpotifySteps)
    [] command = "dwm_cpu" -> FunctionTypeOK(CpuTexts, CpuSteps)
    [] command = "dwm_memory" -> FunctionTypeOK(MemoryTexts, MemorySteps)
    [] command = "dwm_countdown" -> FunctionTypeOK(CountdownTexts, CountdownSteps)
    [] command = "dwm_bluetooth" -> FunctionTypeOK(BluetoothTexts, BluetoothSteps)
    [] command = "dwm_pulse" -> FunctionTypeOK(PulseTexts, PulseSteps)
    [] command = "dwm_systemd_networkd" -> FunctionTypeOK(NetworkTexts, NetworkSteps)
    [] command = "dwm_vpn" -> FunctionTypeOK(VpnTexts, VpnSteps)

TypeOK ==
  /\ ChoiceTypeOK
  /\ Vocabulary
  /\ DndTypeOK
  /\ BacklightTypeOK
  /\ SpotifyTypeOK
  /\ CpuTypeOK
  /\ MemoryTypeOK
  /\ CountdownTypeOK
  /\ AudioTypeOK
  /\ BluetoothTypeOK
  /\ PulseTypeOK
  /\ NetworkTypeOK
  /\ VpnTypeOK

Init ==
  /\ ChoiceInit(Commands, Programs)
  /\ DndInit
  /\ BacklightInit
  /\ SpotifyInit
  /\ CpuInit
  /\ MemoryInit
  /\ CountdownInit
  /\ AudioInit
  /\ BluetoothInit
  /\ PulseInit
  /\ NetworkInit
  /\ VpnInit

-------------------------------------------------------------------------------
(* The command, what goes on around it, and the bar.                       *)

\* A step that belongs to one command leaves alone what the others use.
OfDnd(A) ==
  /\ command = "dwm_do_not_disturb"
  /\ A
  /\ UNCHANGED <<choiceVars, backlightVars, spotifyVars, cpuVars, memoryVars,
                 countdownVars, bluetoothVars, pulseVars, networkVars, vpnVars>>

OfBacklight(A) ==
  /\ command = "dwm_backlight"
  /\ A
  /\ UNCHANGED <<choiceVars, dndVars, spotifyVars, cpuVars, memoryVars,
                 countdownVars, bluetoothVars, pulseVars, networkVars, vpnVars>>

OfSpotify(A) ==
  /\ command = "dwm_spotify"
  /\ A
  /\ UNCHANGED <<choiceVars, dndVars, backlightVars, cpuVars, memoryVars,
                 countdownVars, bluetoothVars, pulseVars, networkVars, vpnVars>>

OfCpu(A) ==
  /\ command = "dwm_cpu"
  /\ A
  /\ UNCHANGED <<choiceVars, dndVars, backlightVars, spotifyVars, memoryVars,
                 countdownVars, bluetoothVars, pulseVars, networkVars, vpnVars>>

OfMemory(A) ==
  /\ command = "dwm_memory"
  /\ A
  /\ UNCHANGED <<choiceVars, dndVars, backlightVars, spotifyVars, cpuVars,
                 countdownVars, bluetoothVars, pulseVars, networkVars, vpnVars>>

OfCountdown(A) ==
  /\ command = "dwm_countdown"
  /\ A
  /\ UNCHANGED <<choiceVars, dndVars, backlightVars, spotifyVars, cpuVars,
                 memoryVars, bluetoothVars, pulseVars, networkVars, vpnVars>>

OfBluetooth(A) ==
  /\ command = "dwm_bluetooth"
  /\ A
  /\ UNCHANGED <<choiceVars, dndVars, backlightVars, spotifyVars, cpuVars,
                 memoryVars, countdownVars, unseen, networkVars, vpnVars>>

OfPulse(A) ==
  /\ command = "dwm_pulse"
  /\ A
  /\ UNCHANGED <<choiceVars, dndVars, backlightVars, spotifyVars, cpuVars,
                 memoryVars, countdownVars, listed, watcherVars, networkVars,
                 vpnVars>>

OfNetwork(A) ==
  /\ command = "dwm_systemd_networkd"
  /\ A
  /\ UNCHANGED <<choiceVars, dndVars, backlightVars, spotifyVars, cpuVars,
                 memoryVars, countdownVars, bluetoothVars, pulseVars, vpnVars>>

OfVpn(A) ==
  /\ command = "dwm_vpn"
  /\ A
  /\ UNCHANGED <<choiceVars, dndVars, backlightVars, spotifyVars, cpuVars,
                 memoryVars, countdownVars, bluetoothVars, pulseVars,
                 networkVars>>

CommandRuns ==
  \/ OfDnd(DndCommand)
  \/ OfBacklight(BacklightCommand)
  \/ OfSpotify(SpotifyCommand)
  \/ OfCpu(CpuCommand)
  \/ OfMemory(MemoryCommand)
  \/ OfCountdown(CountdownCommand)
  \/ OfBluetooth(BluetoothCommand)
  \/ OfPulse(PulseCommand)
  \/ OfNetwork(NetworkCommand)
  \/ OfVpn(VpnCommand)

\* What was left in the background.
BackgroundRuns ==
  \/ OfBacklight(Sleeper \/ Tick)
  \/ OfBluetooth(WatcherStarts)

Environment ==
  \/ OfDnd(OthersPause)
  \/ OfSpotify(PlayerChanges \/ PlayerCloses)
  \/ OfCpu(CpuEnvironment \/ TopCloses)
  \/ OfMemory(MemoryChanges \/ MemoryTopCloses)
  \/ OfCountdown(CountdownEnvironment)
  \/ OfBluetooth(WatcherPokes \/ OthersPoke \/ BluetoothctlCloses)
  \/ OfBluetooth(DeviceChanges \/ DeviceSoundChanges)
  \/ OfPulse(PulseChanges \/ PavucontrolCloses)
  \/ OfNetwork(NetChanges \/ IwctlCloses)
  \/ OfVpn(VpnChanges)

BarServes == (Serves \/ Drops) /\ UNCHANGED <<choiceVars, worldVars>>

BarTimes == command \in Timed /\ TimedRuns /\ UNCHANGED <<choiceVars, worldVars>>

BarCollects == Collects /\ UNCHANGED <<choiceVars, worldVars>>

UserClicks == Clicks(Uses[command]) /\ UNCHANGED <<choiceVars, worldVars>>

\* Somebody refreshes the bar or sends the block its signal, which then carries
\* no button.  (For a block with an interval a refresh is a run like the others.)
OthersAsk ==
  /\ \/ command \notin Timed /\ Refreshes
     \/ Clicks({NoButton})
  /\ plain' = (plain \/ command = "dwm_backlight")
  /\ UNCHANGED <<choiceVars, dndVars, bright, show_flag, sleepers, own, spotifyVars,
                 cpuVars, memoryVars, countdownVars, bluetoothVars, pulseVars,
                 networkVars, vpnVars>>

Next ==
  \/ CommandRuns \/ BackgroundRuns \/ Environment
  \/ BarServes \/ BarTimes \/ BarCollects
  \/ UserClicks \/ OthersAsk

\* The command and what it left in the background go on, every round of the bar
\* reads a signal and serves the pipes, and blocks with an interval are run.
\* Nobody has to click, to refresh, to close a window or to change anything.
Fairness ==
  /\ WF_vars(CommandRuns) /\ WF_vars(BackgroundRuns)
  /\ WF_vars(BarServes) /\ WF_vars(BarTimes) /\ WF_vars(BarCollects)

Spec == Init /\ [][Next]_vars /\ Fairness

-------------------------------------------------------------------------------
(* Properties.                                                             *)

\* A block without an interval comes to rest after the last click: the signals
\* that its own command and its background processes raise, and that start it
\* again, do not go on for ever.  (A window may stay open.)
ComesToRest ==
  <>[](command \in Timed \/ WindowOpen \/ (~running /\ requests = <<>>))

View == CASE command = "dwm_spotify" -> SpotifyView
          [] command = "dwm_memory" -> MemoryView
          [] command = "dwm_bluetooth" -> BluetoothView
          [] command = "dwm_systemd_networkd" -> NetworkView
          [] command = "dwm_vpn" -> VpnView
          [] OTHER -> Nothing

\* The block gets to show what there is to see, although its command looks at it
\* before it acts on a click, is started for one of several changes, and loses
\* the signals of its watcher when that has ended itself.  A window that the
\* user leaves open can keep it from that.
ViewShown ==
  []<>(command \in {"dwm_spotify", "dwm_memory", "dwm_bluetooth",
                    "dwm_systemd_networkd", "dwm_vpn"}
         => shown = View \/ WindowOpen)
===============================================================================
