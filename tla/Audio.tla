--------------------------------- MODULE Audio ---------------------------------
(***************************************************************************)
(* The sound as the volume block and the bluetooth block see it through    *)
(* pamixer: the default sink, which may be a bluetooth device, its volume, *)
(* and whether it is muted; and what the two scripts have in common.       *)
(***************************************************************************)
EXTENDS BarCommand

CONSTANTS Devices,  \* the bluetooth devices that are paired
          Volumes   \* the volumes that others set, in percent

ASSUME AudioAssumption ==
  /\ Devices # {}
  /\ Volumes # {} /\ Volumes \subseteq 0 .. 100

VARIABLES
  connected,   \* the devices that are connected
  sink,        \* the default sink: the speaker, a device, or none, which
               \* stands for the dummy and null sinks, too
  volume,      \* its volume in percent
  muted,       \* whether it is muted
  volume_flag, \* whether the flag file for the percentage exists
  heard,       \* the volume that the run has asked for, -1 when it has not
  heard_muted  \* and whether it was muted

soundVars == <<sink, volume, muted, volume_flag>>
audioVars == <<connected, soundVars, heard, heard_muted>>

Sinks == {"none", "speaker"} \cup connected

Sound(vol, mute) ==
  <<CASE mute \/ vol = 0 -> "off"
      [] ~mute /\ vol \in 1 .. 33 -> "low"
      [] ~mute /\ vol \in 34 .. 66 -> "medium"
      [] ~mute /\ vol \in 67 .. 100 -> "high",
    IF volume_flag THEN vol ELSE -1>>

Sounds == {"off", "low", "medium", "high"} \X (-1 .. 100)

AudioTypeOK ==
  /\ connected \subseteq Devices
  /\ sink \in Sinks
  /\ volume \in 0 .. 100
  /\ muted \in BOOLEAN
  /\ volume_flag \in BOOLEAN
  /\ heard \in -1 .. 100
  /\ heard_muted \in BOOLEAN

AudioInit ==
  /\ connected \in IF command = "dwm_bluetooth" THEN {{}, Devices} ELSE {Devices}
  /\ sink = "speaker"
  /\ volume \in Outside("dwm_pulse", Volumes)
  /\ muted = FALSE
  /\ volume_flag = FALSE
  /\ heard = -1
  /\ heard_muted = FALSE

\* pamixer -i 5 and -d 5: without a sink they fail.
Turn(btn) ==
  volume' = IF sink = "none" THEN volume
            ELSE CASE btn = 4 -> IF volume > 95 THEN 100 ELSE volume + 5
                   [] btn = 5 -> IF volume < 5 THEN 0 ELSE volume - 5
                   [] btn \notin {4, 5} -> volume

GetVolume ==
  /\ Running("volume")
  /\ sink # "none"
  /\ heard' = volume
  /\ Goes("mute")
  /\ UNCHANGED <<connected, soundVars, heard_muted>>

\* Mutant of GetMute: nobody asks.
NotMuted ==
  /\ Running("mute")
  /\ heard_muted' = FALSE
  /\ Goes("print")
  /\ UNCHANGED <<connected, soundVars, heard>>

\* Without a sink the answer is empty.
GetMute ==
  /\ Running("mute")
  /\ heard_muted' = (muted /\ sink # "none")
  /\ Goes("print")
  /\ UNCHANGED <<connected, soundVars, heard>>

NothingHeard ==
  /\ heard' = -1
  /\ heard_muted' = FALSE

\* Others choose another sink, which has a volume of its own, turn the volume,
\* which is then to be shown for a while, or mute it.
SoundChanges ==
  \/ /\ sink' \in Sinks \ {sink}
     /\ volume' \in Volumes
     /\ UNCHANGED <<muted, volume_flag>>
  \/ /\ volume' \in Volumes \ {volume}
     /\ volume_flag' = TRUE
     /\ UNCHANGED <<sink, muted>>
  \/ /\ volume_flag
     /\ volume_flag' = FALSE
     /\ UNCHANGED <<sink, volume, muted>>
  \/ /\ muted' = ~muted
     /\ UNCHANGED <<sink, volume, volume_flag>>
===============================================================================
