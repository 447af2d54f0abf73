------------------------------- MODULE Bluetooth ------------------------------
(***************************************************************************)
(* The bluetooth block: its command (dwm_bluetooth) shows the connected    *)
(* devices and the volume of the one that the sound goes to, and its       *)
(* watcher (dwmblocks-bluetooth, a service) signals the bar when one is    *)
(* connected or disconnected.                                              *)
(*                                                                         *)
(* pkill signals every process whose name contains "dwmblocks", and the    *)
(* name of the watcher does: it ends itself with the signal it sends, and  *)
(* systemd starts it again three seconds later.                            *)
(***************************************************************************)
EXTENDS Audio

VARIABLES
  listed,     \* what `bluetoothctl devices Connected` returned
  listening,  \* whether the watcher is running
  lines       \* the lines that its while loop has still to read

watcherVars == <<listening, lines>>
bluetoothVars == <<audioVars, listed, watcherVars>>

BluetoothSteps ==
  {"window", "disconnect", "devices", "sink", "volume", "mute", "print"}

\* No device is the default sink.
NoSound == <<"none", -1>>

\* What `bluetoothctl disconnect` reports.
Report == <<{"report"}, NoSound>>

BluetoothTexts ==
  (((SUBSET Devices) \ {{}}) \X (Sounds \cup {NoSound})) \cup {Report}

BluetoothTypeOK ==
  /\ listed \subseteq Devices
  /\ listening \in BOOLEAN
  /\ lines \in Nat

BluetoothInit ==
  /\ listed = {}
  /\ listening \in Outside("dwm_bluetooth", BOOLEAN)
  /\ lines = 0

\* "Connected" has changed: dbus-monitor and grep pass a line on.
Line == IF listening THEN lines + 1 ELSE 0

-------------------------------------------------------------------------------
(* The command.                                                            *)

\* Button 1 opens a terminal and waits for it, button 3 disconnects, 4 and 5 turn
\* the volume of the default sink, whichever that is.
ClickBluetooth ==
  /\ Running("begin")
  /\ Turn(button)
  /\ Goes(CASE button = 1 -> "window"
            [] button = 3 -> "disconnect"
            [] OTHER -> "devices")
  /\ UNCHANGED <<connected, sink, muted, volume_flag, heard, heard_muted,
                 listed, watcherVars>>

BluetoothctlCloses ==
  /\ WindowOpen
  /\ Goes("devices")
  /\ UNCHANGED bluetoothVars

\* A device that goes takes its sink with it; to one that comes the sound may
\* switch.
Disconnects(d) ==
  /\ connected' = connected \ {d}
  /\ sink' = IF sink = d THEN "speaker" ELSE sink
  /\ lines' = Line

Connects(d) ==
  /\ connected' = connected \cup {d}
  /\ sink' \in {sink, d}
  /\ lines' = Line

\* bluetoothctl disconnect: it takes the current device, and reports on the
\* standard output of the command.
Disconnect ==
  /\ Running("disconnect")
  /\ \/ connected = {} /\ UNCHANGED <<connected, sink, lines>>
     \/ \E d \in connected : Disconnects(d)
  /\ Goes("devices")
  /\ UNCHANGED <<volume, muted, volume_flag, heard, heard_muted, listed, listening>>

ListDevices ==
  /\ Running("devices")
  /\ listed' = connected
  /\ Goes(IF connected = {} THEN "print" ELSE "sink")
  /\ UNCHANGED <<audioVars, watcherVars>>

\* The volume is asked for if the sink is one of the devices.
FindSink ==
  /\ Running("sink")
  /\ Goes(IF sink \in listed THEN "volume" ELSE "print")
  /\ UNCHANGED bluetoothVars

DeviceVolume == GetVolume /\ UNCHANGED <<listed, watcherVars>>

\* The answer is empty, and nothing of the sound is shown.
NoDeviceVolume ==
  /\ Running("volume")
  /\ sink = "none"
  /\ Goes("print")
  /\ UNCHANGED bluetoothVars

DeviceMute == GetMute /\ UNCHANGED <<listed, watcherVars>>

\* What `bluetoothctl info` tells of a device is there whether it is connected or
\* not.
PrintDevices ==
  /\ Running("print")
  /\ button # 3
  /\ Ends(IF listed = {} THEN Nothing
          ELSE <<listed, IF heard = -1 THEN NoSound ELSE Sound(heard, heard_muted)>>)
  /\ listed' = {}
  /\ NothingHeard
  /\ UNCHANGED <<connected, soundVars, watcherVars>>

\* The bar has taken the report for the line of the run, and closes the pipe: a
\* script that prints after that is ended by SIGPIPE, and has failed.
PrintAfterReport ==
  /\ Running("print")
  /\ button = 3
  /\ \E text \in {Report, Failure} : Ends(text)
  /\ listed' = {}
  /\ NothingHeard
  /\ UNCHANGED <<connected, soundVars, watcherVars>>

BluetoothCommand ==
  \/ ClickBluetooth \/ Disconnect \/ ListDevices
  \/ FindSink \/ DeviceVolume \/ NoDeviceVolume \/ DeviceMute
  \/ PrintDevices \/ PrintAfterReport

-------------------------------------------------------------------------------
(* The watcher and the devices.                                            *)

\* The bar gets the signal, and so do the two shells of the watcher, which ends;
\* the lines that it has not read are gone.
WatcherPokes ==
  /\ listening
  /\ lines > 0
  /\ Signals
  /\ listening' = FALSE
  /\ lines' = 0
  /\ UNCHANGED <<at, audioVars, listed>>

\* Anybody's `pkill -RTMIN+n dwmblocks` ends the watcher, too.
OthersPoke ==
  /\ "others" \in Faults
  /\ Happens
  /\ listening
  /\ listening' = FALSE
  /\ lines' = 0
  /\ UNCHANGED <<slotVars, at, audioVars, listed>>

\* Restart=always
WatcherStarts ==
  /\ ~listening
  /\ listening' = TRUE
  /\ UNCHANGED <<barVars, audioVars, listed, lines>>

DeviceChanges ==
  /\ Happens
  /\ \/ \E d \in connected : Disconnects(d)
     \/ \E d \in Devices \ connected : Connects(d)
  /\ UNCHANGED <<slotVars, at, volume, muted, volume_flag, heard, heard_muted,
                 listed, listening>>

DeviceSoundChanges ==
  /\ Happens
  /\ SoundChanges
  /\ UNCHANGED <<slotVars, at, connected, heard, heard_muted, listed, watcherVars>>

-------------------------------------------------------------------------------

\* What there is to see.
BluetoothView ==
  IF connected = {} THEN Nothing
  ELSE <<connected, IF sink \in connected THEN Sound(volume, muted) ELSE NoSound>>
===============================================================================
