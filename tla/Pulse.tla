--------------------------------- MODULE Pulse ---------------------------------
(***************************************************************************)
(* The volume block (dwm_pulse): shows the volume of the default sink,     *)
(* unless that is a bluetooth device, whose volume is in the bluetooth     *)
(* block.  A click mutes or turns the volume.  The block has interval 0.   *)
(***************************************************************************)
EXTENDS Audio

VARIABLE unseen  \* history: others have changed the sound since a run has last
                 \* begun to look at it

pulseVars == <<audioVars, unseen>>

PulseSteps == {"window", "sink", "volume", "mute", "print"}

PulseTexts == Sounds

PulseTypeOK == unseen \in BOOLEAN

PulseInit == unseen = FALSE

-------------------------------------------------------------------------------
(* The script.                                                             *)

ClickPulse ==
  /\ Running("begin")
  /\ muted' = IF button = 1 /\ sink # "none" THEN ~muted ELSE muted
  /\ Turn(button)
  /\ Goes(IF button = 3 THEN "window" ELSE "sink")
  /\ UNCHANGED <<connected, sink, volume_flag, heard, heard_muted, unseen>>

\* The window of pavucontrol, which the script waits for.
PavucontrolCloses ==
  /\ WindowOpen
  /\ Goes("sink")
  /\ UNCHANGED pulseVars

GetDefaultSink ==
  /\ Running("sink")
  /\ unseen' = FALSE
  /\ IF sink = "speaker" THEN Goes("volume") ELSE Ends(Nothing)
  /\ UNCHANGED audioVars

PulseVolume == GetVolume /\ UNCHANGED unseen

\* The sink has gone by now.
NoVolume ==
  /\ Running("volume")
  /\ sink = "none"
  /\ Ends(Nothing)
  /\ UNCHANGED pulseVars

PulseMute == GetMute /\ UNCHANGED unseen

PrintVolume ==
  /\ Running("print")
  /\ Ends(Sound(heard, heard_muted))
  /\ NothingHeard
  /\ UNCHANGED <<connected, soundVars, unseen>>

PulseCommand ==
  \/ ClickPulse
  \/ GetDefaultSink \/ PulseVolume \/ NoVolume \/ PulseMute
  \/ PrintVolume

\* Who changes the sound may signal the block, or not.
PulseChanges ==
  /\ Happens
  /\ SoundChanges
  /\ unseen' = TRUE
  /\ \/ UNCHANGED slotVars
     \/ SlotRequest(NoButton)
  /\ UNCHANGED <<at, connected, heard, heard_muted>>

-------------------------------------------------------------------------------
(* Properties.                                                             *)

PulseView == IF sink = "speaker" THEN Sound(volume, muted) ELSE Nothing

\* When nothing is left to do, the block shows what the clicks have led to, unless
\* others have changed the sound since the last run began to look at it: it is
\* looked at after the click, and a click that is dropped changes nothing.
PulseSettles ==
  command = "dwm_pulse" /\ ~running /\ requests = <<>> /\ ~unseen
  => shown = PulseView
===============================================================================
