--------------------------- MODULE BarFunctionsProofs --------------------------
(***************************************************************************)
(* Proofs about the commands of the bar, for every set of them, of buttons *)
(* and of faults, and whatever there is outside.                           *)
(***************************************************************************)
EXTENDS BarFunctions, BarFunctionProofs, FiniteSetTheorems

\* For each command X there are lemmas that its own steps are steps of a command
\* (XCommandStep), that those around it are steps outside, that both keep the types,
\* and that all steps keep what is claimed of it (XInvStep).

-------------------------------------------------------------------------------
(* What holds of each command while it runs.                               *)

\* The end time of a pause that dunst no longer holds is about to be removed, by
\* a run that has read, or has yet to read, that dunst does not hold it.
DndInv ==
  /\ command # "dwm_do_not_disturb" => ~end_file
  /\ command = "dwm_do_not_disturb" /\ obeyed =>
       /\ Running("unlink") \/ (Shell /\ Running("toggle")) \/ ~end_file \/ paused
       /\ Running("toggle") /\ ~Shell => (got = 0 <=> ~paused)
       /\ Running("write") => paused

\* A process that sleeps, and has time left to do so.
Young == \E i \in DOMAIN sleepers : sleepers[i] > 0

\* The run may go on to display with the flag.
Displaying ==
  \/ Running("begin") /\ button = NoButton
  \/ Running("signal") \/ Running("brightness") \/ Running("percentage")

\* The flag has a process that is to remove it, or is about to get one.
FlagWatched ==
  show_flag => Running("spawn") \/ \E i \in DOMAIN sleepers : sleepers[i] >= 0

\* A display of the percentage, and every signal that leads to one, has a process
\* that still sleeps: time stands still while the bar is busy, so that its signal
\* comes later and finds the block at rest, or in a run with a later process.
PercentageGoes ==
  show_flag /\ ~Young /\ ~Running("spawn") =>
    /\ \A i \in DOMAIN sleepers : sleepers[i] # Removed
    /\ \A i \in DOMAIN requests : requests[i] # NoButton
    /\ ~Displaying

\* What has been printed, and what is shown, has the right icon,
IconIsRight ==
  /\ running /\ finished => printed \in BacklightViews
  /\ ~running => shown \in BacklightViews

\* and has no percentage unless something is still to come.
LineIsRight == running /\ finished => printed = BacklightView \/ Young

BarIsRight == ~running => shown = BacklightView \/ requests # <<>> \/ sleepers # <<>>

BacklightInv ==
  command = "dwm_backlight" =>
    /\ Running("percentage") => bright # 100
    /\ Running("eof") => bright = 100
    /\ FlagWatched /\ IconIsRight
    /\ ~plain => PercentageGoes /\ LineIsRight /\ BarIsRight

\* The player that has answered is one of those that were asked.
SpotifyInv ==
  command = "dwm_spotify" /\ (Running("click") \/ Running("window") \/ Running("print"))
    => asked < 3

\* The counters at some time since the boot.
At(time) ==
  [total |-> time, idle |-> Cardinality({t \in 1 .. time : ticks[t] = 0})]

IsSnapshot(s) == s.total \in 0 .. Len(ticks) /\ s = At(s.total)

\* No snapshot, in the file or in a program, is of two times.
CpuInv ==
  command = "dwm_cpu" =>
    /\ IsSnapshot(stat_file)
    /\ IsSnapshot(stat)
    /\ IsSnapshot(previous)
    /\ IsSnapshot(other)
    /\ LoadIsReal

MemoryInv ==
  command = "dwm_memory" /\ Running("battery")
    => \E free \in Available : used_kb = MemTotal - free

\* While there is one countdown at a time, its file is the only one, the command
\* knows of no other, and the process has ended before the file is removed.
CountdownInv ==
  command = "dwm_countdown" =>
    /\ Running("matched") \/ Running("unlink") \/ Running("notify") <=> path # {}
    /\ ~several =>
         /\ \A c, d \in Existing \cup path : c = d
         /\ counting \subseteq Existing
         /\ Running("unlink") => counting = {}
         /\ Existing \subseteq counting \/ Running("unlink")

\* What has been asked for is still so unless others have changed the sound.
PulseInv ==
  command = "dwm_pulse" =>
    /\ Running("mute") \/ Running("print") => heard >= 0
    /\ ~unseen =>
         /\ Running("volume") \/ Running("mute") \/ Running("print") => sink = "speaker"
         /\ Running("mute") \/ Running("print") => heard = volume
         /\ Running("print") => heard_muted = muted
         /\ running /\ finished => printed = PulseView
         /\ ~running => shown = PulseView

BarInv ==
  /\ command \in Commands
  /\ TypeOK
  /\ AtRest
  /\ DndInv
  /\ BacklightInv
  /\ SpotifyInv
  /\ CpuInv
  /\ MemoryInv
  /\ CountdownInv
  /\ PulseInv

-------------------------------------------------------------------------------
(* Do not disturb.                                                         *)

DndTypes == FunctionTypeOK(DndTexts, DndSteps) /\ DndTypeOK

DndStep == CommandStep(DndTexts, DndSteps) /\ DndTypeOK'

LEMMA DndCommandStep ==
  ASSUME DndTypes, DndCommand
  PROVE  DndStep
<1> USE GoesIsStep, EndsIsStep DEF DndTypes, DndStep, DndTypeOK, DndSteps, DndTexts, Running
<1>1. CASE BusFails \/ OtherButton
  BY <1>1 DEF BusFails, OtherButton, Displays, dndVars
<1>2. CASE GetForClick
  BY <1>2 DEF GetForClick
<1>3. ASSUME NEW value \in BOOLEAN, Tells(value)
      PROVE  paused' \in BOOLEAN /\ obeyed' \in BOOLEAN
  BY <1>3 DEF Tells
<1>4. CASE SetForClick
  BY <1>3, <1>4 DEF SetForClick
<1>5. CASE ToggleForClick
  BY <1>3, <1>5 DEF ToggleForClick
<1>6. CASE AskAfterToggle
  BY <1>6 DEF AskAfterToggle
<1>7. CASE RemoveFile
  BY <1>7 DEF RemoveFile
<1>8. CASE PauseForHour
  BY <1>3, <1>8 DEF PauseForHour
<1>9. CASE WriteFile
  BY <1>9 DEF WriteFile
<1>10. CASE SignalAndEnd
  BY <1>10 DEF SignalAndEnd, CommandStep, FunctionTypeOK, dndVars
<1>11. CASE SignalAndDisplay
  BY <1>11, SignalsIsStep DEF SignalAndDisplay, dndVars
<1>12. CASE GetForDisplay \/ ReadFile
  BY <1>12 DEF GetForDisplay, ReadFile, Displays, dndVars
<1> QED
  BY <1>1, <1>2, <1>4, <1>5, <1>6, <1>7, <1>8, <1>9, <1>10, <1>11, <1>12 DEF DndCommand

LEMMA OthersPauseStep ==
  ASSUME DndTypes, OthersPause
  PROVE  OutsideStep /\ DndTypeOK'
<1>1. OutsideStep
  BY OutsideIsStep DEF OthersPause, DndTypes, FunctionTypeOK, barVars
<1>2. DndTypeOK'
  BY DEF OthersPause, DndTypes, DndTypeOK
<1> QED
  BY <1>1, <1>2

\* What a run makes of dunst and the file.
LEMMA DndInvStep ==
  ASSUME DndTypes, DndInv, command = "dwm_do_not_disturb", UNCHANGED choiceVars,
         \/ DndCommand \/ OthersPause
         \/ (OutsideStep \/ BarStep \/ UNCHANGED barVars) /\ UNCHANGED dndVars
  PROVE  DndInv'
<1> USE DEF DndInv, Running, Shell, choiceVars
<1>1. CASE BusFails \/ OtherButton \/ GetForDisplay \/ ReadFile
  <2>1. UNCHANGED dndVars /\ ~Running("unlink")' /\ ~Running("toggle")' /\ ~Running("write")'
    BY <1>1 DEF BusFails, OtherButton, GetForDisplay, ReadFile, Displays, Goes, Ends, Finish
  <2>2. ~Running("unlink") /\ ~Running("toggle")
    BY <1>1 DEF BusFails, OtherButton, GetForDisplay, ReadFile, Displays
  <2> QED
    BY <2>1, <2>2 DEF dndVars
<1>2. CASE GetForClick
  <2>1. got' = (IF paused THEN 1 ELSE 0) /\ UNCHANGED <<paused, end_file, obeyed>>
    BY <1>2 DEF GetForClick
  <2>2. at = "begin" /\ at' = "toggle"
    BY <1>2 DEF GetForClick, Goes
  <2>3. (got' = 0) <=> ~paused'
    <3>1. CASE paused
      BY <2>1, <3>1
    <3>2. CASE ~paused
      BY <2>1, <3>2
    <3> QED
      BY <3>1, <3>2
  <2> QED
    BY <1>2, <2>1, <2>2, <2>3
<1>3. ASSUME NEW value \in BOOLEAN, Tells(value), obeyed'
      PROVE  obeyed /\ paused' = value
  BY <1>3 DEF Tells
<1>4. CASE SetForClick
  <2>1. /\ at = "toggle" /\ ~Shell /\ UNCHANGED end_file
        /\ obeyed' => obeyed /\ paused' = (got = 0)
        /\ at' = IF got # 0 THEN "unlink" ELSE "signal"
        /\ UNCHANGED <<running, finished>>
    BY <1>3, <1>4 DEF SetForClick, Goes, slotVars
  <2>2. obeyed' /\ got = 0 => paused'
    BY <2>1
  <2>3. CASE got = 0
    BY <2>1, <2>2, <2>3
  <2>4. CASE got # 0
    BY <1>4, <2>1, <2>4 DEF SetForClick
  <2> QED
    BY <2>3, <2>4
<1>5. CASE ToggleForClick
  BY <1>3, <1>5 DEF ToggleForClick, Goes, slotVars
<1>6. CASE AskAfterToggle
  <2>1. PICK said \in BOOLEAN :
          /\ Goes(IF said THEN "signal" ELSE "unlink")
          /\ obeyed' = (obeyed /\ said = paused)
    BY <1>6 DEF AskAfterToggle, DndTypes, DndTypeOK
  <2>2. obeyed' => obeyed /\ said = paused
    BY <2>1
  <2> QED
    BY <1>6, <2>1, <2>2 DEF AskAfterToggle, Goes, slotVars
<1>7. CASE RemoveFile
  BY <1>7 DEF RemoveFile, Goes, slotVars
<1>8. CASE PauseForHour
  BY <1>3, <1>8 DEF PauseForHour, Goes, slotVars
<1>9. CASE WriteFile
  BY <1>9 DEF WriteFile, Goes, slotVars
<1>10. CASE SignalAndEnd
  BY <1>10 DEF SignalAndEnd, dndVars
<1>11. CASE SignalAndDisplay
  BY <1>11 DEF SignalAndDisplay, dndVars
<1>12. CASE OthersPause
  BY <1>12 DEF OthersPause
<1>13. CASE (OutsideStep \/ BarStep \/ UNCHANGED barVars) /\ UNCHANGED dndVars
  <2>1. \A step \in {"unlink", "toggle", "write"} : Running(step)' <=> Running(step)
    BY <1>13, RunningStays
  <2> QED
    BY <1>13, <2>1 DEF dndVars
<1> QED
  BY <1>1, <1>2, <1>4, <1>5, <1>6, <1>7, <1>8, <1>9, <1>10, <1>11, <1>12, <1>13
     DEF DndCommand

-------------------------------------------------------------------------------
(* The VPN.                                                                *)

VpnTypes == FunctionTypeOK(VpnTexts, VpnSteps) /\ VpnTypeOK

LEMMA VpnCommandStep ==
  ASSUME VpnTypes, VpnCommand
  PROVE  CommandStep(VpnTexts, VpnSteps) /\ VpnTypeOK'
<1> USE GoesIsStep, EndsIsStep DEF VpnTypes, VpnTypeOK, VpnSteps, VpnTexts, Running
<1>1. CASE NoTunnel \/ PrintLock
  BY <1>1 DEF NoTunnel, PrintLock, vpnVars
<1>2. CASE ClickVpn \/ FindOpenvpn
  BY <1>2 DEF ClickVpn, FindOpenvpn, vpnVars
<1>3. CASE KillOpenvpn
  <2>1. Goes("print")
    BY <1>3 DEF KillOpenvpn
  <2>2. CASE openvpn' = 0 /\ tun0' = FALSE
    <3>1. openvpn' \in 0 .. 2
      BY <2>2
    <3>2. tun0' \in BOOLEAN
      BY <2>2
    <3> QED
      BY <1>3, <2>1, <3>1, <3>2 DEF KillOpenvpn
  <2>3. CASE UNCHANGED vpnVars
    BY <1>3, <2>1, <2>3 DEF KillOpenvpn, vpnVars
  <2> QED
    BY <1>3, <2>2, <2>3 DEF KillOpenvpn
<1> QED
  BY <1>1, <1>2, <1>3 DEF VpnCommand

LEMMA VpnChangesStep ==
  ASSUME VpnTypes, VpnChanges
  PROVE  OutsideStep /\ VpnTypeOK'
<1>1. OutsideStep
  BY OutsideIsStep DEF VpnChanges, VpnTypes, FunctionTypeOK
<1>2. tun0' \in BOOLEAN
  BY DEF VpnChanges
<1>3. openvpn' \in 0 .. 2
  BY DEF VpnChanges, VpnTypes, VpnTypeOK
<1> QED
  BY <1>1, <1>2, <1>3 DEF VpnTypeOK

-------------------------------------------------------------------------------
(* The memory.                                                             *)

MemoryTypes == FunctionTypeOK(MemoryTexts, MemorySteps) /\ MemoryTypeOK

LEMMA UsedMemory ==
  ASSUME NEW free \in Available
  PROVE  MemTotal - free \in 0 .. MemTotal
<1>1. free \in 0 .. MemTotal
  BY MemoryAssumption
<1> QED
  BY <1>1, MemoryAssumption

LEMMA MemoryCommandStep ==
  ASSUME MemoryTypes, MemoryInv, command = "dwm_memory", MemoryCommand
  PROVE  CommandStep(MemoryTexts, MemorySteps) /\ MemoryTypeOK'
<1> USE GoesIsStep, EndsIsStep DEF MemoryTypes, MemoryTypeOK, MemorySteps, Running
<1>1. CASE OpenMemoryTop
  BY <1>1 DEF OpenMemoryTop, memoryVars
<1>2. CASE ReadMeminfo
  <2>1. used_kb' \in 0 .. MemTotal
    BY <1>2, UsedMemory DEF ReadMeminfo
  <2> QED
    BY <1>2, <2>1 DEF ReadMeminfo
<1>3. CASE PrintMemory
  <2>1. Amount(used_kb) \in MemoryTexts
    BY <1>3 DEF PrintMemory, MemoryInv, MemoryTexts
  <2> QED
    BY <1>3, <2>1 DEF PrintMemory, memoryVars
<1> QED
  BY <1>1, <1>2, <1>3 DEF MemoryCommand

LEMMA MemoryTopClosesStep ==
  ASSUME MemoryTypes, MemoryTopCloses
  PROVE  CommandStep(MemoryTexts, MemorySteps) /\ MemoryTypeOK'
BY GoesIsStep DEF MemoryTypes, MemoryTypeOK, MemorySteps, Running, MemoryTopCloses,
                  WindowOpen, memoryVars

LEMMA MemoryChangesStep ==
  ASSUME MemoryTypes, MemoryChanges
  PROVE  OutsideStep /\ MemoryTypeOK'
<1>1. OutsideStep
  BY OutsideIsStep DEF MemoryChanges, MemoryTypes, FunctionTypeOK
<1>2. MemoryTypeOK'
  BY DEF MemoryChanges, MemoryTypes, MemoryTypeOK
<1> QED
  BY <1>1, <1>2

LEMMA MemoryInvStep ==
  ASSUME MemoryTypes, MemoryInv, command = "dwm_memory",
         \/ MemoryCommand \/ MemoryTopCloses \/ MemoryChanges
         \/ (OutsideStep \/ BarStep \/ UNCHANGED barVars) /\ UNCHANGED memoryVars
  PROVE  MemoryInv'
<1> USE DEF MemoryInv, Running
<1>1. CASE MemoryCommand
  BY <1>1 DEF MemoryCommand, OpenMemoryTop, ReadMeminfo, PrintMemory, Goes, Ends,
              MemoryTypes, MemoryTypeOK
<1>2. CASE MemoryTopCloses \/ MemoryChanges
  BY <1>2 DEF MemoryTopCloses, MemoryChanges, WindowOpen, Goes, memoryVars, slotVars
<1>3. CASE (OutsideStep \/ BarStep \/ UNCHANGED barVars) /\ UNCHANGED memoryVars
  <2>1. Running("battery")' => Running("battery")
    BY <1>3, RunningStays
  <2> QED
    BY <1>3, <2>1 DEF memoryVars
<1> QED
  BY <1>1, <1>2, <1>3

-------------------------------------------------------------------------------
(* The players.                                                            *)

SpotifyTypes == FunctionTypeOK(SpotifyTexts, SpotifySteps) /\ SpotifyTypeOK

LEMMA PlayersInOrder ==
  /\ Len(Order) = 3
  /\ \A n \in 0 .. 2 : Order[n + 1] \in Players
BY DEF Order, Players

LEMMA SpotifyCommandStep ==
  ASSUME SpotifyTypes, SpotifyInv, command = "dwm_spotify", SpotifyCommand
  PROVE  CommandStep(SpotifyTexts, SpotifySteps) /\ SpotifyTypeOK'
<1> USE GoesIsStep, EndsIsStep DEF SpotifyTypes, SpotifySteps, Running
<1>1. CASE NoUserBus
  <2>1. events' \in 0 .. MaxEvents
    BY <1>1, HappensKeepsBound DEF NoUserBus, FunctionTypeOK
  <2> QED
    BY <1>1, <2>1 DEF NoUserBus, CommandStep, SpotifyTypeOK, spotifyVars
<1>2. CASE OpenUserBus \/ OpenPlayer \/ NoMethod
  BY <1>2 DEF OpenUserBus, OpenPlayer, NoMethod, SpotifyTypeOK, spotifyVars
<1>3. CASE GetAll
  <2> DEFINE p == Order[asked + 1]
  <2>1. asked \in 0 .. 2
    BY <1>3, PlayersInOrder DEF GetAll, SpotifyTypeOK
  <2>2. p \in Players
    BY <2>1, PlayersInOrder
  <2>3. \/ answer' = player[p] /\ Goes("click") /\ UNCHANGED asked
        \/ asked' = asked + 1 /\ Goes("ask") /\ UNCHANGED answer
    BY <1>3 DEF GetAll
  <2>4. CommandStep(SpotifyTexts, SpotifySteps)
    BY <1>3, <2>3 DEF GetAll
  <2>5. player[p] \in States \cup {NoAnswer}
    BY <2>2 DEF SpotifyTypeOK, NoAnswer
  <2>6. SpotifyTypeOK'
    <3> HIDE DEF p
    <3> QED
      BY <1>3, <2>1, <2>3, <2>5 DEF GetAll, SpotifyTypeOK
  <2> QED
    BY <2>4, <2>6
<1>4. CASE NoPlayer
  <2>1. CommandStep(SpotifyTexts, SpotifySteps)
    BY <1>4 DEF NoPlayer
  <2> QED
    BY <1>4, <2>1 DEF NoPlayer, SpotifyTypeOK
<1>5. CASE CallMethod
  <2>1. ASSUME NEW s \in States \cup {Absent}
        PROVE  Told(s) \in States \cup {Absent}
    <3>1. CASE s = Absent
      BY <3>1 DEF Told
    <3>2. CASE s \in States
      <4>1. OtherSong(s.song) \in Songs
        BY <3>2 DEF States, Songs, OtherSong
      <4>2. (IF s.status = "Playing" THEN "Paused" ELSE "Playing") \in Statuses
        BY DEF Statuses
      <4> QED
        BY <3>2, <4>1, <4>2 DEF Told, States
    <3> QED
      BY <2>1, <3>1, <3>2
  <2>2. player \in [Players -> States \cup {Absent}]
    BY DEF SpotifyTypeOK
  <2>3. player' \in [Players -> States \cup {Absent}]
    BY <1>5, <2>1, <2>2 DEF CallMethod
  <2> QED
    BY <1>5, <2>3 DEF CallMethod, SpotifyTypeOK
<1>6. CASE PrintSong
  <2>1. Dest \in Players
    BY <1>6, PlayersInOrder DEF PrintSong, SpotifyInv, SpotifyTypeOK, Dest
  <2>2. answer.song \in Songs
    BY DEF SpotifyTypeOK, NoAnswer, Absent, States, Songs
  <2>3. <<answer.status = "Playing", Dest, answer.song>> \in SpotifyTexts
    BY <2>1, <2>2 DEF SpotifyTexts
  <2>4. CommandStep(SpotifyTexts, SpotifySteps)
    BY <1>6, <2>3 DEF PrintSong
  <2> QED
    BY <1>6, <2>4 DEF PrintSong, SpotifyTypeOK
<1> QED
  BY <1>1, <1>2, <1>3, <1>4, <1>5, <1>6 DEF SpotifyCommand

LEMMA PlayerClosesStep ==
  ASSUME SpotifyTypes, PlayerCloses
  PROVE  CommandStep(SpotifyTexts, SpotifySteps) /\ SpotifyTypeOK'
BY GoesIsStep DEF SpotifyTypes, SpotifyTypeOK, SpotifySteps, Running, PlayerCloses,
                  WindowOpen, spotifyVars

LEMMA PlayerChangesStep ==
  ASSUME SpotifyTypes, PlayerChanges
  PROVE  OutsideStep /\ SpotifyTypeOK'
<1>1. OutsideStep
  BY OutsideIsStep DEF PlayerChanges, SpotifyTypes, FunctionTypeOK
<1>2. SpotifyTypeOK'
  BY SpotifyAssumption DEF PlayerChanges, SpotifyTypes, SpotifyTypeOK
<1> QED
  BY <1>1, <1>2

LEMMA SpotifyInvStep ==
  ASSUME SpotifyTypes, SpotifyInv, command = "dwm_spotify", UNCHANGED choiceVars,
         \/ SpotifyCommand \/ PlayerCloses \/ PlayerChanges
         \/ (OutsideStep \/ BarStep \/ UNCHANGED barVars) /\ UNCHANGED spotifyVars
  PROVE  SpotifyInv'
<1> USE DEF SpotifyInv, Running
<1>1. CASE NoUserBus \/ OpenUserBus \/ NoPlayer \/ PrintSong
  BY <1>1 DEF NoUserBus, OpenUserBus, NoPlayer, PrintSong, Goes, Ends
<1>2. CASE GetAll
  BY <1>2, PlayersInOrder DEF GetAll, Goes
<1>3. CASE CallMethod \/ OpenPlayer \/ NoMethod \/ PlayerCloses \/ PlayerChanges
  BY <1>3 DEF CallMethod, OpenPlayer, NoMethod, PlayerCloses, PlayerChanges, Goes,
              WindowOpen, spotifyVars, slotVars
<1>4. CASE (OutsideStep \/ BarStep \/ UNCHANGED barVars) /\ UNCHANGED spotifyVars
  <2>1. \A step \in {"click", "window", "print"} : Running(step)' => Running(step)
    BY <1>4, RunningStays
  <2> QED
    BY <1>4, <2>1 DEF spotifyVars
<1> QED
  BY <1>1, <1>2, <1>3, <1>4 DEF SpotifyCommand

-------------------------------------------------------------------------------
(* The countdown.                                                          *)

CountdownTypes == FunctionTypeOK(CountdownTexts, CountdownSteps) /\ CountdownTypeOK

LEMMA FirstOfPath ==
  ASSUME CountdownTypeOK, path # {}
  PROVE  First \in path /\ First \in Countdowns
<1>1. path \subseteq Nat
  BY CountdownAssumption DEF CountdownTypeOK
<1> QED
  BY <1>1, LeastOfSome DEF First, CountdownTypeOK

LEMMA CountdownCommandStep ==
  ASSUME CountdownTypes, CountdownInv, command = "dwm_countdown", CountdownCommand
  PROVE  CommandStep(CountdownTexts, CountdownSteps) /\ CountdownTypeOK'
<1> USE GoesIsStep, EndsIsStep
    DEF CountdownTypes, CountdownTypeOK, CountdownSteps, Running
<1>1. CASE NoMatch \/ NotifyCancelled
  BY <1>1 DEF NoMatch, NotifyCancelled, countdownVars
<1>2. CASE Match
  BY <1>2 DEF Match, Existing
<1>3. CASE KillAll
  BY <1>3 DEF KillAll
<1>4. CASE Unlink
  BY <1>4 DEF Unlink
<1>5. CASE ReadCountdown
  <2>1. First \in CountdownTexts
    BY <1>5, FirstOfPath DEF ReadCountdown, CountdownInv, CountdownTexts
  <2>2. CommandStep(CountdownTexts, CountdownSteps)
    BY <1>5, <2>1 DEF ReadCountdown
  <2> QED
    BY <1>5, <2>2 DEF ReadCountdown
<1> QED
  BY <1>1, <1>2, <1>3, <1>4, <1>5 DEF CountdownCommand

LEMMA CountdownEnvironmentStep ==
  ASSUME CountdownTypes, CountdownEnvironment
  PROVE  OutsideStep /\ CountdownTypeOK'
<1> PICK c \in Countdowns :
      CountdownStarts(c) \/ CountdownRewrites(c) \/ CountdownEnds(c)
  BY DEF CountdownEnvironment
<1>1. OutsideStep
  BY OutsideIsStep
     DEF CountdownStarts, CountdownRewrites, CountdownEnds, CountdownTypes,
         FunctionTypeOK, barVars
<1>2. ASSUME NEW content \in {"absent", "empty", "written"}
      PROVE  [count_file EXCEPT ![c] = content]
               \in [Countdowns -> {"absent", "empty", "written"}]
  BY <1>2 DEF CountdownTypes, CountdownTypeOK
<1>3. count_file' \in [Countdowns -> {"absent", "empty", "written"}]
  BY <1>2 DEF CountdownStarts, CountdownRewrites, CountdownEnds
<1>4. several' \in BOOLEAN /\ UNCHANGED path
  BY DEF CountdownStarts, CountdownRewrites, CountdownEnds, CountdownTypes,
         CountdownTypeOK
<1>5. counting' \subseteq Countdowns
  BY DEF CountdownStarts, CountdownRewrites, CountdownEnds, CountdownTypes,
         CountdownTypeOK
<1> QED
  BY <1>1, <1>3, <1>4, <1>5 DEF CountdownTypes, CountdownTypeOK

LEMMA CountdownInvStep ==
  ASSUME CountdownTypes, CountdownInv, command = "dwm_countdown", UNCHANGED choiceVars,
         AtRest,
         \/ CountdownCommand \/ CountdownEnvironment
         \/ (OutsideStep \/ BarStep \/ UNCHANGED barVars) /\ UNCHANGED countdownVars
  PROVE  CountdownInv'
<1> USE DEF CountdownInv, Running, choiceVars
<1>1. CASE NoMatch
  BY <1>1 DEF NoMatch, Ends, Finish, Existing, countdownVars
<1>2. CASE Match
  BY <1>2 DEF Match, Goes, slotVars, Existing
<1>3. CASE KillAll
  BY <1>3 DEF KillAll, Goes, slotVars, Existing
<1>4. CASE Unlink
  <2>1. First \in path
    BY <1>4, FirstOfPath DEF Unlink, CountdownTypes
  <2>2. Existing' = Existing \ {First}
    BY <1>4 DEF Unlink, Existing, CountdownTypes, CountdownTypeOK
  <2>3. UNCHANGED <<counting, path, several>> /\ at = "unlink" /\ running /\ ~finished
    BY <1>4 DEF Unlink
  <2>4. at' = "notify" /\ UNCHANGED <<running, finished>>
    BY <1>4 DEF Unlink, Goes, slotVars
  <2>5. ~several => Existing' = {}
    BY <2>1, <2>2
  <2> QED
    BY <2>3, <2>4, <2>5
<1>5. CASE NotifyCancelled \/ ReadCountdown
  BY <1>5 DEF NotifyCancelled, ReadCountdown, Ends, Finish, Existing
<1>6. ASSUME NEW c \in Countdowns, CountdownStarts(c)
      PROVE  CountdownInv'
  <2>1. /\ counting' = counting \cup {c}
        /\ Existing' = Existing \cup {c}
        /\ several' = (several \/ Existing # {} \/ path # {})
        /\ UNCHANGED <<running, finished, at, path>>
    BY <1>6 DEF CountdownStarts, SlotRequest, Existing, CountdownTypes, CountdownTypeOK
  <2>2. ~several' => ~several /\ Existing = {} /\ path = {}
    BY <2>1
  <2> QED
    BY <2>1, <2>2
<1>7. ASSUME NEW c \in Countdowns, CountdownRewrites(c)
      PROVE  CountdownInv'
  <2>1. /\ c \in counting
        /\ Existing' = Existing \cup {c}
        /\ UNCHANGED <<running, finished, at, counting, path, several>>
    BY <1>7 DEF CountdownRewrites, barVars, slotVars, Existing, CountdownTypes,
                CountdownTypeOK
  <2> QED
    BY <2>1
<1>8. ASSUME NEW c \in Countdowns, CountdownEnds(c)
      PROVE  CountdownInv'
  <2>1. /\ counting' = counting \ {c}
        /\ Existing' = Existing \ {c}
        /\ UNCHANGED <<running, finished, at, path, several>>
    BY <1>8 DEF CountdownEnds, Signals, Existing, CountdownTypes, CountdownTypeOK
  <2> QED
    BY <2>1
<1>9. CASE (OutsideStep \/ BarStep \/ UNCHANGED barVars) /\ UNCHANGED countdownVars
  <2>1. \A step \in {"matched", "unlink", "notify"} : Running(step)' <=> Running(step)
    BY <1>9, RunningStays
  <2>2. Existing' = Existing
    BY <1>9 DEF Existing, countdownVars
  <2> QED
    BY <1>9, <2>1, <2>2 DEF countdownVars
<1> QED
  BY <1>1, <1>2, <1>3, <1>4, <1>5, <1>6, <1>7, <1>8, <1>9
     DEF CountdownCommand, CountdownEnvironment

-------------------------------------------------------------------------------
(* The backlight.                                                          *)

BacklightTypes == FunctionTypeOK(BacklightTexts, BacklightSteps) /\ BacklightTypeOK

\* The second of two sequences put together, at its places in the whole.
LEMMA SecondPart ==
  ASSUME NEW S, NEW a \in Seq(S), NEW b \in Seq(S),
         NEW j \in Len(a) + 1 .. Len(a) + Len(b)
  PROVE  (a \o b)[j] = b[j - Len(a)]
OBVIOUS

\* A process that ends leaves its place to the next one.
LEMMA RemoveAtPlaces ==
  ASSUME NEW S, NEW s \in Seq(S), NEW i \in DOMAIN s
  PROVE  /\ RemoveAt(s, i) \in Seq(S)
         /\ Len(RemoveAt(s, i)) = Len(s) - 1
         /\ \A j \in 1 .. i - 1 : RemoveAt(s, i)[j] = s[j]
         /\ \A j \in i .. Len(s) - 1 : RemoveAt(s, i)[j] = s[j + 1]
<1> DEFINE a == SubSeq(s, 1, i - 1)
           b == SubSeq(s, i + 1, Len(s))
<1>1. i \in 1 .. Len(s) /\ Len(s) \in Nat
  OBVIOUS
<1>2. /\ a \in Seq(S)
      /\ Len(a) = i - 1
      /\ \A j \in 1 .. i - 1 : a[j] = s[j]
  BY <1>1
<1>3. /\ b \in Seq(S)
      /\ Len(b) = Len(s) - i
      /\ \A j \in 1 .. Len(s) - i : b[j] = s[i + j]
  BY <1>1
<1>4. RemoveAt(s, i) = a \o b
  BY DEF RemoveAt
<1> HIDE DEF a, b
<1>5. a \o b \in Seq(S)
  BY <1>2, <1>3
<1>6. Len(a \o b) = Len(s) - 1
  BY <1>1, <1>2, <1>3
<1>7. ASSUME NEW j \in 1 .. i - 1 PROVE (a \o b)[j] = s[j]
  <2>1. (a \o b)[j] = a[j]
    <3>1. j \in 1 .. Len(a)
      BY <1>2, <1>7
    <3> QED
      BY <1>2, <1>3, <3>1
  <2> QED
    BY <1>2, <1>7, <2>1, Zenon
<1>8. ASSUME NEW j \in i .. Len(s) - 1 PROVE (a \o b)[j] = s[j + 1]
  <2>1. j \in Len(a) + 1 .. Len(a) + Len(b)
    BY <1>1, <1>2, <1>3, <1>8
  <2>2. (a \o b)[j] = b[j - Len(a)]
    BY <1>2, <1>3, <2>1, SecondPart
  <2>3. j - Len(a) \in 1 .. Len(s) - i /\ i + (j - Len(a)) = j + 1
    BY <1>1, <1>2, <1>8
  <2>4. b[j - Len(a)] = s[i + (j - Len(a))]
    BY <1>3, <2>3, Zenon
  <2> QED
    BY <2>2, <2>3, <2>4, Zenon
<1> QED
  BY <1>4, <1>5, <1>6, <1>7, <1>8, Zenon

\* Every other process is still there, and nothing has come.
LEMMA RemoveAtKeeps ==
  ASSUME NEW S, NEW s \in Seq(S), NEW i \in DOMAIN s
  PROVE  /\ \A j \in DOMAIN s \ {i} : \E k \in DOMAIN RemoveAt(s, i) : RemoveAt(s, i)[k] = s[j]
         /\ \A k \in DOMAIN RemoveAt(s, i) : \E j \in DOMAIN s : RemoveAt(s, i)[k] = s[j]
<1> DEFINE r == RemoveAt(s, i)
<1>1. /\ r \in Seq(S)
      /\ Len(r) = Len(s) - 1
      /\ \A j \in 1 .. i - 1 : r[j] = s[j]
      /\ \A j \in i .. Len(s) - 1 : r[j] = s[j + 1]
  BY RemoveAtPlaces
<1> HIDE DEF r
<1>2. DOMAIN r = 1 .. Len(s) - 1 /\ DOMAIN s = 1 .. Len(s) /\ Len(s) \in Nat
  BY <1>1
<1>3. ASSUME NEW j \in DOMAIN s \ {i} PROVE \E k \in DOMAIN r : r[k] = s[j]
  <2>1. CASE j < i
    BY <1>1, <1>2, <2>1
  <2>2. CASE j > i
    <3>1. j - 1 \in i .. Len(s) - 1 /\ (j - 1) + 1 = j
      BY <1>2, <2>2
    <3>2. r[j - 1] = s[j] /\ j - 1 \in DOMAIN r
      BY <1>1, <1>2, <3>1
    <3> QED
      BY <3>2
  <2> QED
    BY <1>2, <2>1, <2>2
<1>4. ASSUME NEW k \in DOMAIN r PROVE \E j \in DOMAIN s : r[k] = s[j]
  <2>1. CASE k < i
    BY <1>1, <1>2, <2>1
  <2>2. CASE k >= i
    <3>1. k + 1 \in DOMAIN s /\ r[k] = s[k + 1]
      BY <1>1, <1>2, <2>2
    <3> QED
      BY <3>1
  <2> QED
    BY <1>2, <2>1, <2>2
<1> QED
  BY <1>3, <1>4 DEF r


LEMMA BacklightIcons ==
  ASSUME NEW b \in 0 .. 99
  PROVE  /\ IconOnly(b) \in BacklightTexts
         /\ IconAndPercentage(b) \in BacklightTexts
<1>1. Icon(b) \in {"low", "medium", "high"}
  <2>1. CASE b <= 30
    BY <2>1 DEF Icon
  <2>2. CASE b \in 31 .. 50
    BY <2>2 DEF Icon
  <2>3. CASE b \in 51 .. 99
    BY <2>3 DEF Icon
  <2> QED
    BY <2>1, <2>2, <2>3
<1>2. b \in -1 .. 99 /\ -1 \in -1 .. 99
  OBVIOUS
<1> QED
  BY <1>1, <1>2 DEF IconOnly, IconAndPercentage, BacklightTexts

\* The view of the brightness is a line that the command may print.
LEMMA ViewIsText ==
  ASSUME BacklightTypeOK
  PROVE  BacklightView \in BacklightTexts \cup {Nothing} /\ BacklightView # Failure
<1>1. BacklightView \in BacklightTexts \cup {Nothing}
  <2>1. CASE bright = 100
    BY <2>1 DEF BacklightView
  <2>2. CASE bright # 100
    <3>1. bright \in 0 .. 99
      BY <2>2 DEF BacklightTypeOK
    <3> QED
      BY <2>2, <3>1, BacklightIcons DEF BacklightView
  <2> QED
    BY <2>1, <2>2
<1> QED
  BY <1>1, BarFunctionAssumption, BarFunctionsAssumption

\* So is the brightness with the percentage.
LEMMA ViewsAreText ==
  ASSUME BacklightTypeOK
  PROVE  Failure \notin BacklightViews
<1>1. CASE bright = 100
  BY <1>1, BarFunctionAssumption DEF BacklightViews
<1>2. CASE bright # 100
  <2>1. bright \in 0 .. 99
    BY <1>2 DEF BacklightTypeOK
  <2>2. BacklightViews \subseteq BacklightTexts
    BY <1>2, <2>1, BacklightIcons DEF BacklightViews
  <2> QED
    BY <2>2, BarFunctionsAssumption
<1> QED
  BY <1>1, <1>2

LEMMA SleepersTypes ==
  ASSUME BacklightTypeOK
  PROVE  /\ sleepers \in Seq(-1 .. 2)
         /\ \A i \in DOMAIN sleepers : sleepers[i] \in -1 .. 2
BY DEF BacklightTypeOK, Removed, Delay

LEMMA BacklightCommandStep ==
  ASSUME BacklightTypes, BacklightInv, command = "dwm_backlight", BacklightCommand
  PROVE  CommandStep(BacklightTexts, BacklightSteps) /\ BacklightTypeOK'
<1> USE GoesIsStep, EndsIsStep, SignalsIsStep
    DEF BacklightTypes, BacklightSteps, Running
<1>1. CASE SetBrightness
  <2>1. bright' \in 0 .. 100
    <3>1. bright' = Changed(button) /\ button \in {1, 4, 5} /\ bright \in 0 .. 100
      BY <1>1 DEF SetBrightness, BacklightTypeOK
    <3>2. CASE button = 1
      BY <3>1, <3>2 DEF Changed
    <3>3. CASE button = 4
      BY <3>1, <3>3 DEF Changed
    <3>4. CASE button = 5
      BY <3>1, <3>4 DEF Changed
    <3> QED
      BY <3>1, <3>2, <3>3, <3>4
  <2> QED
    BY <1>1, <2>1 DEF SetBrightness, BacklightTypeOK
<1>2. CASE TouchFlag
  BY <1>2 DEF TouchFlag, BacklightTypeOK
<1>3. CASE SpawnSleeper
  <2>1. sleepers' \in Seq(Removed .. Delay) /\ sleepers' # <<>>
    BY <1>3 DEF SpawnSleeper, BacklightTypeOK, Removed, Delay
  <2> QED
    BY <1>3, <2>1 DEF SpawnSleeper, BacklightTypeOK
<1>4. CASE SignalBacklight
  BY <1>4 DEF SignalBacklight, BacklightTypeOK, backlightVars
<1>5. CASE NoChange
  BY <1>5 DEF NoChange, BacklightTypeOK
<1>6. CASE ReadBrightness
  BY <1>6 DEF ReadBrightness, BacklightTypeOK, backlightVars
<1>8. CASE EndOfOutput
  BY <1>8 DEF EndOfOutput, BacklightTypeOK, backlightVars
<1>7. CASE PrintBrightness
  <2>1. bright \in 0 .. 99
    BY <1>7 DEF PrintBrightness, BacklightInv, BacklightTypeOK
  <2>2. CommandStep(BacklightTexts, BacklightSteps)
    BY <1>7, <2>1, BacklightIcons DEF PrintBrightness
  <2> QED
    BY <1>7, <2>2 DEF PrintBrightness, BacklightTypeOK
<1> QED
  BY <1>1, <1>2, <1>3, <1>4, <1>5, <1>6, <1>7, <1>8 DEF BacklightCommand

LEMMA SleepersStep ==
  ASSUME BacklightTypes, Sleeper \/ Tick
  PROVE  (OutsideStep \/ UNCHANGED barVars) /\ BacklightTypeOK'
<1>t. events \in 0 .. MaxEvents
  BY DEF BacklightTypes, FunctionTypeOK
<1>1. ASSUME NEW i \in DOMAIN sleepers, RemoveFlag(i)
      PROVE  UNCHANGED barVars /\ BacklightTypeOK'
  <2>1. sleepers' \in Seq(Removed .. Delay) /\ Len(sleepers') = Len(sleepers)
    BY <1>1 DEF RemoveFlag, BacklightTypes, BacklightTypeOK, Removed, Delay
  <2>2. sleepers' # <<>>
    BY <1>1, <2>1 DEF BacklightTypes, BacklightTypeOK
  <2> QED
    BY <1>1, <2>1, <2>2 DEF RemoveFlag, BacklightTypes, BacklightTypeOK
<1>2. ASSUME NEW i \in DOMAIN sleepers, SignalRemoved(i)
      PROVE  OutsideStep /\ BacklightTypeOK'
  <2>1. OutsideStep
    BY <1>2, <1>t, OutsideIsStep DEF SignalRemoved
  <2>2. sleepers' \in Seq(Removed .. Delay) /\ Len(sleepers') = Len(sleepers) - 1
    BY <1>2, RemoveAtPlaces DEF SignalRemoved, BacklightTypes, BacklightTypeOK
  <2>3. own' => sleepers' # <<>>
    <3>1. own' => own /\ i # Len(sleepers)
      BY <1>2 DEF SignalRemoved
    <3>2. i # Len(sleepers) => Len(sleepers) > 1
      BY DEF BacklightTypes, BacklightTypeOK
    <3> QED
      BY <2>2, <3>1, <3>2
  <2>4. own' \in BOOLEAN
    BY <1>2 DEF SignalRemoved
  <2> QED
    BY <1>2, <2>1, <2>2, <2>3, <2>4 DEF SignalRemoved, BacklightTypes, BacklightTypeOK
<1>3. CASE Tick
  <2>1. /\ sleepers' = [i \in 1 .. Len(sleepers) |-> sleepers[i] - 1]
        /\ \A i \in 1 .. Len(sleepers) : sleepers[i] \in 1 .. 2
    BY <1>3, SleepersTypes DEF Tick, BacklightTypes
  <2>2. sleepers' \in Seq(-1 .. 2) /\ Len(sleepers') = Len(sleepers)
    BY <2>1, SleepersTypes DEF BacklightTypes
  <2>3. sleepers' # <<>>
    BY <1>3, <2>2 DEF Tick
  <2> QED
    BY <1>3, <2>2, <2>3 DEF Tick, BacklightTypes, BacklightTypeOK, Removed, Delay
<1> QED
  BY <1>1, <1>2, <1>3 DEF Sleeper


\* The process of a click is young.
LEMMA SpawnedIsYoung ==
  ASSUME BacklightTypeOK, sleepers' = Append(sleepers, Delay)
  PROVE  Young' /\ \E i \in DOMAIN sleepers' : sleepers'[i] >= 0
<1>1. /\ Len(sleepers) + 1 \in DOMAIN sleepers'
      /\ sleepers'[Len(sleepers) + 1] = 2
  BY DEF BacklightTypeOK, Delay
<1> QED
  BY <1>1 DEF Young

\* Signals come at the end of the queue and are taken from its head.
LEMMA RequestAdded ==
  ASSUME requests \in Seq(Buttons \cup {NoButton}), NEW btn, Request(btn),
         NEW i \in DOMAIN requests'
  PROVE  requests'[i] = btn \/ \E j \in DOMAIN requests : requests'[i] = requests[j]
BY DEF Request

LEMMA RequestTaken ==
  ASSUME requests \in Seq(Buttons \cup {NoButton}), requests # <<>>,
         requests' = Tail(requests)
  PROVE  /\ \E j \in DOMAIN requests : Head(requests) = requests[j]
         /\ \A i \in DOMAIN requests' :
              \E j \in DOMAIN requests : requests'[i] = requests[j]
<1>1. 1 \in DOMAIN requests /\ Head(requests) = requests[1]
  OBVIOUS
<1>2. ASSUME NEW i \in DOMAIN requests'
      PROVE  i + 1 \in DOMAIN requests /\ requests'[i] = requests[i + 1]
  BY <1>2
<1> QED
  BY <1>1, <1>2

\* The claims about the backlight, for the steps of a run,
LEMMA BacklightRunInv ==
  ASSUME BacklightTypes, BacklightInv, command = "dwm_backlight", UNCHANGED choiceVars,
         BacklightCommand
  PROVE  BacklightInv'
<1> USE DEF Running, choiceVars
<1>p. plain => plain'
  BY DEF BacklightCommand, SetBrightness, TouchFlag, SpawnSleeper, SignalBacklight,
         NoChange, ReadBrightness, EndOfOutput, PrintBrightness, backlightVars
<1>s. ASSUME BacklightCommand
      PROVE  running /\ ~finished /\ running'
  BY <1>s DEF BacklightCommand, SetBrightness, TouchFlag, SpawnSleeper, SignalBacklight,
         NoChange, ReadBrightness, EndOfOutput, PrintBrightness, Goes, Ends, Signals, slotVars
<1> USE DEF FlagWatched, IconIsRight, PercentageGoes, LineIsRight, BarIsRight, Displaying,
            Young
<1>1. CASE SetBrightness
  BY <1>1 DEF BacklightInv, SetBrightness, Goes, slotVars
<1>2. CASE TouchFlag
  BY <1>2 DEF BacklightInv, TouchFlag, Goes, slotVars
<1>3. CASE SpawnSleeper
  BY <1>3, SpawnedIsYoung DEF BacklightInv, SpawnSleeper, Goes, slotVars, BacklightTypes
<1>4. CASE SignalBacklight
  BY <1>4 DEF BacklightInv, SignalBacklight, Signals, backlightVars
<1>5. CASE NoChange
  <2>1. ~plain' => button = NoButton
    BY <1>5 DEF NoChange
  <2> QED
    BY <1>5, <1>p, <2>1 DEF BacklightInv, NoChange, Goes, slotVars
<1>6. CASE ReadBrightness
  BY <1>6 DEF BacklightInv, ReadBrightness, Goes, slotVars, backlightVars
<1>7. CASE EndOfOutput
  <2>1. BacklightView' = printed' /\ printed' \in BacklightViews'
    BY <1>7 DEF BacklightInv, EndOfOutput, Ends, Finish, BacklightView, BacklightViews,
                backlightVars
  <2> QED
    BY <1>7, <2>1 DEF BacklightInv, EndOfOutput, Ends, Finish, backlightVars
<1>8. CASE PrintBrightness
  <2>1. /\ ~plain /\ show_flag => Young
        /\ ~show_flag => printed' = BacklightView'
    BY <1>8 DEF BacklightInv, PrintBrightness, Ends, Finish, BacklightView
  <2>2. /\ bright # 100 /\ bright' = bright
        /\ printed' = IF show_flag THEN IconAndPercentage(bright) ELSE IconOnly(bright)
    BY <1>8 DEF BacklightInv, PrintBrightness, Ends, Finish
  <2>3. BacklightViews' = {IconOnly(bright), IconAndPercentage(bright)}
    BY <2>2 DEF BacklightViews, IconOnly, IconAndPercentage, Icon
  <2>4. printed' \in BacklightViews'
    BY <2>2, <2>3
  <2> QED
    BY <1>8, <2>1, <2>4 DEF BacklightInv, PrintBrightness, Ends, Finish
<1> QED
  BY <1>1, <1>2, <1>3, <1>4, <1>5, <1>6, <1>7, <1>8 DEF BacklightCommand


\* for those of the processes that sleep and of the clock,
LEMMA BacklightSleepersInv ==
  ASSUME BacklightTypes, BacklightInv, command = "dwm_backlight", UNCHANGED choiceVars,
         AtRest, Sleeper \/ Tick
  PROVE  BacklightInv'
<1> USE DEF BacklightInv, Running, choiceVars
<1>s. /\ \A i \in DOMAIN sleepers : sleepers[i] \in Int
      /\ sleepers \in Seq(-1 .. 2)
  BY SleepersTypes DEF BacklightTypes
<1>1. ASSUME NEW i \in DOMAIN sleepers, RemoveFlag(i)
      PROVE  BacklightInv'
  <2>1. /\ sleepers[i] = 0
        /\ sleepers' = [sleepers EXCEPT ![i] = Removed]
        /\ ~show_flag'
        /\ UNCHANGED <<requests, running, finished, printed, shown, at, button, bright, plain>>
    BY <1>1 DEF RemoveFlag, barVars, slotVars
  <2>2. DOMAIN sleepers' = DOMAIN sleepers /\ \A j \in DOMAIN sleepers \ {i} : sleepers'[j] = sleepers[j]
    BY <1>s, <2>1
  <2>3. Young => Young'
    BY <2>1, <2>2 DEF Young
  <2>4. sleepers # <<>> => sleepers' # <<>>
    BY <1>s, <2>1, <2>2
  <2>5. BacklightView' = BacklightView /\ IconIsRight'
    BY <2>1 DEF BacklightView, BacklightViews, IconIsRight
  <2>6. FlagWatched' /\ PercentageGoes'
    BY <2>1 DEF FlagWatched, PercentageGoes
  <2>7. ~plain => LineIsRight'
    BY <2>1, <2>3, <2>5 DEF LineIsRight
  <2>8. ~plain => BarIsRight'
    BY <2>1, <2>4, <2>5 DEF BarIsRight
  <2> QED
    BY <2>1, <2>5, <2>6, <2>7, <2>8
<1>2. ASSUME NEW i \in DOMAIN sleepers, SignalRemoved(i)
      PROVE  BacklightInv'
  <2>1. /\ sleepers[i] = -1
        /\ sleepers' = RemoveAt(sleepers, i)
        /\ requests' = Append(requests, NoButton)
        /\ UNCHANGED <<running, finished, printed, shown, at, button, bright, plain, show_flag>>
    BY <1>2 DEF SignalRemoved, Signals, Request, Removed
  <2>2. \A j \in DOMAIN sleepers \ {i} : \E k \in DOMAIN sleepers' : sleepers'[k] = sleepers[j]
    BY <1>s, <2>1, RemoveAtKeeps
  <2>3. Young => Young'
    BY <2>1, <2>2 DEF Young
  <2>4. (\E j \in DOMAIN sleepers : sleepers[j] >= 0)
          => \E k \in DOMAIN sleepers' : sleepers'[k] >= 0
    BY <2>1, <2>2
  <2>5. BacklightView' = BacklightView /\ IconIsRight'
    BY <2>1 DEF BacklightView, BacklightViews, IconIsRight
  <2>6. requests' # <<>>
    BY <2>1 DEF BacklightTypes, FunctionTypeOK, SlotTypeOK
  <2>7. FlagWatched'
    BY <2>1, <2>4 DEF FlagWatched
  <2>8. ~plain => PercentageGoes'
    BY <2>1, <2>3 DEF PercentageGoes, Removed
  <2>9. ~plain => LineIsRight' /\ BarIsRight'
    BY <2>1, <2>3, <2>5, <2>6 DEF LineIsRight, BarIsRight
  <2> QED
    BY <2>1, <2>5, <2>7, <2>8, <2>9
<1>3. CASE Tick
  <2>1. /\ sleepers' = [i \in DOMAIN sleepers |-> sleepers[i] - 1]
        /\ sleepers # <<>>
        /\ \A i \in DOMAIN sleepers : sleepers[i] > 0
        /\ requests = <<>>
        /\ ~running \/ (running /\ ~finished /\ at = "eof")
        /\ UNCHANGED <<requests, running, finished, printed, shown, at, button, bright,
                       plain, show_flag>>
    BY <1>3 DEF Tick, barVars, slotVars
  <2>2. DOMAIN sleepers' = DOMAIN sleepers /\ \A i \in DOMAIN sleepers : sleepers'[i] >= 0
    BY <1>s, <2>1
  <2>3. 1 \in DOMAIN sleepers /\ sleepers' # <<>>
    BY <1>s, <2>1, <2>2
  <2>4. FlagWatched'
    BY <2>2, <2>3 DEF FlagWatched
  <2>5. \A i \in DOMAIN sleepers' : sleepers'[i] # Removed
    BY <2>2 DEF Removed
  <2>6. PercentageGoes'
    BY <2>1, <2>5 DEF PercentageGoes, Displaying
  <2>7. LineIsRight' /\ BarIsRight'
    BY <2>1, <2>3 DEF LineIsRight, BarIsRight, AtRest
  <2>8. IconIsRight'
    BY <2>1 DEF BacklightViews, IconIsRight
  <2> QED
    BY <2>1, <2>4, <2>6, <2>7, <2>8
<1> QED
  BY <1>1, <1>2, <1>3 DEF Sleeper

\* and for those of the bar and of the user.
LEMMA BacklightBarInv ==
  ASSUME BacklightTypes, BacklightInv, command = "dwm_backlight", UNCHANGED choiceVars,
         command \in Commands, AtRest, UNCHANGED backlightVars,
         \/ Serves \/ Drops \/ Collects
         \/ Clicks(Uses[command])
         \/ UNCHANGED barVars
  PROVE  BacklightInv'
<1> USE DEF BacklightInv, Running, choiceVars
<1>r. requests \in Seq(Buttons \cup {NoButton})
  BY DEF BacklightTypes, FunctionTypeOK, SlotTypeOK
<1>v. /\ BacklightView' = BacklightView /\ Young' = Young
      /\ UNCHANGED <<sleepers, show_flag, plain, bright, BacklightViews>>
  BY DEF BacklightView, BacklightViews, Young, backlightVars
<1>1. CASE Serves
  <2>1. /\ requests # <<>> /\ ~running /\ ~finished /\ running' /\ ~finished'
        /\ at' = "begin"
        /\ button' = Head(requests)
        /\ requests' = Tail(requests)
    BY <1>1 DEF Serves, Serve, StartWith, AtRest
  <2>2. ~plain => PercentageGoes'
    <3>1. (\A i \in DOMAIN requests : requests[i] # NoButton)
            => button' # NoButton /\ \A i \in DOMAIN requests' : requests'[i] # NoButton
      BY <1>r, <2>1, RequestTaken
    <3> QED
      BY <1>v, <2>1, <3>1 DEF PercentageGoes, Displaying
  <2> QED
    BY <1>v, <2>1, <2>2 DEF FlagWatched, IconIsRight, LineIsRight, BarIsRight
<1>2. CASE Drops
  <2>1. /\ requests # <<>> /\ running
        /\ requests' = Tail(requests)
        /\ UNCHANGED <<running, finished, printed, shown, at, button>>
    BY <1>2 DEF Drops, DropBusy, Drop
  <2>2. ~plain => PercentageGoes'
    <3>1. (\A i \in DOMAIN requests : requests[i] # NoButton)
            => \A i \in DOMAIN requests' : requests'[i] # NoButton
      BY <1>r, <2>1, RequestTaken
    <3> QED
      BY <1>v, <2>1, <3>1 DEF PercentageGoes, Displaying
  <2> QED
    BY <1>v, <2>1, <2>2 DEF FlagWatched, IconIsRight, LineIsRight, BarIsRight
<1>3. CASE Collects
  <2>1. /\ running /\ finished /\ ~running' /\ ~finished'
        /\ shown' = (IF printed = Failure THEN shown ELSE printed)
        /\ UNCHANGED <<requests, at>>
    BY <1>3 DEF Collects, Collect
  <2>2. BacklightView # Failure /\ Failure \notin BacklightViews
    BY ViewIsText, ViewsAreText DEF BacklightTypes
  <2>3. ~plain => BarIsRight'
    <3>1. CASE printed = BacklightView
      BY <1>v, <2>1, <2>2, <3>1 DEF BarIsRight
    <3>2. CASE Young
      <4>1. sleepers # <<>>
        BY <3>2, SleepersTypes DEF Young, BacklightTypes
      <4> QED
        BY <1>v, <4>1 DEF BarIsRight
    <3> QED
      BY <1>v, <2>1, <3>1, <3>2 DEF LineIsRight
  <2> QED
    BY <1>v, <2>1, <2>2, <2>3 DEF FlagWatched, IconIsRight, PercentageGoes, LineIsRight,
                                  Displaying
<1>4. CASE Clicks(Uses[command])
  <2>1. PICK btn \in Uses[command] : SlotRequest(btn)
    BY <1>4 DEF Clicks
  <2>2. btn # NoButton
    BY <2>1, BarFunctionAssumption, BarFunctionsAssumption DEF NoButton
  <2>3. Request(btn) /\ UNCHANGED <<running, finished, printed, shown, at, button>>
    BY <1>4, <2>1 DEF Clicks, SlotRequest
  <2>4. requests' # <<>>
    BY <1>r, <2>3 DEF Request
  <2>5. ~plain => PercentageGoes'
    <3>1. (\A i \in DOMAIN requests : requests[i] # NoButton)
            => \A i \in DOMAIN requests' : requests'[i] # NoButton
      BY <1>r, <2>2, <2>3, RequestAdded
    <3> QED
      BY <1>v, <2>3, <3>1 DEF PercentageGoes, Displaying
  <2> QED
    BY <1>v, <2>3, <2>4, <2>5 DEF FlagWatched, IconIsRight, LineIsRight, BarIsRight
<1>5. CASE UNCHANGED barVars
  BY <1>5, <1>v DEF barVars, slotVars, FlagWatched, IconIsRight, PercentageGoes,
                    LineIsRight, BarIsRight, Displaying
<1> QED
  BY <1>1, <1>2, <1>3, <1>4, <1>5

\* Whoever else asks for a run takes no more than the promise that the percentage
\* goes.
OthersRun ==
  /\ Refreshes \/ Clicks({NoButton})
  /\ plain' = TRUE
  /\ UNCHANGED <<bright, show_flag, sleepers, own>>

LEMMA BacklightOthersInv ==
  ASSUME BacklightTypes, BacklightInv, command = "dwm_backlight", UNCHANGED choiceVars,
         AtRest, OthersRun
  PROVE  BacklightInv' /\ (OutsideStep \/ BarStep) /\ BacklightTypeOK'
<1>1. BacklightTypeOK'
  BY DEF BacklightTypes, BacklightTypeOK, OthersRun
<1>2. OutsideStep \/ BarStep
  BY OutsideIsStep DEF OthersRun, Clicks, BarStep, BacklightTypes, FunctionTypeOK
<1>3. /\ UNCHANGED <<finished, printed, shown, bright, show_flag, sleepers>>
      /\ \/ ~running /\ ~finished /\ at' = "begin" /\ running'
         \/ UNCHANGED <<running, at>>
  BY DEF OthersRun, Refreshes, TimedRun, StartWith, Clicks, SlotRequest, AtRest
<1>4. ~Running("spawn") => ~Running("spawn")'
  BY <1>3 DEF Running
<1>5. FlagWatched' /\ IconIsRight'
  BY <1>3 DEF BacklightInv, FlagWatched, IconIsRight, BacklightViews, AtRest, Running
<1> QED
  BY <1>1, <1>2, <1>3, <1>5 DEF BacklightInv, OthersRun, Running

-------------------------------------------------------------------------------
(* The sound.                                                              *)

\* All volumes have an icon.
LEMMA SoundIsText ==
  ASSUME NEW vol \in 0 .. 100, NEW mute \in BOOLEAN
  PROVE  Sound(vol, mute) \in Sounds
<1> DEFINE icon == CASE mute \/ vol = 0 -> "off"
                     [] ~mute /\ vol \in 1 .. 33 -> "low"
                     [] ~mute /\ vol \in 34 .. 66 -> "medium"
                     [] ~mute /\ vol \in 67 .. 100 -> "high"
<1>1. icon \in {"off", "low", "medium", "high"}
  <2>1. CASE mute \/ vol = 0
    BY <2>1
  <2>2. CASE ~mute /\ vol \in 1 .. 33
    BY <2>2
  <2>3. CASE ~mute /\ vol \in 34 .. 66
    BY <2>3
  <2>4. CASE ~mute /\ vol \in 67 .. 100
    BY <2>4
  <2> QED
    BY <2>1, <2>2, <2>3, <2>4
<1> DEFINE percentage == IF volume_flag THEN vol ELSE -1
<1>2. percentage \in -1 .. 100
  OBVIOUS
<1>3. Sound(vol, mute) = <<icon, percentage>>
  BY DEF Sound
<1> HIDE DEF icon, percentage
<1> QED
  BY <1>1, <1>2, <1>3 DEF Sounds

\* pamixer keeps the volume between 0 and 100.
LEMMA TurnKeepsRange ==
  ASSUME AudioTypeOK, NEW btn, Turn(btn)
  PROVE  volume' \in 0 .. 100
<1>1. volume \in 0 .. 100
  BY DEF AudioTypeOK
<1>2. CASE sink = "none"
  BY <1>1, <1>2 DEF Turn
<1>3. CASE sink # "none" /\ btn = 4
  BY <1>1, <1>3 DEF Turn
<1>4. CASE sink # "none" /\ btn = 5
  BY <1>1, <1>4 DEF Turn
<1>5. CASE sink # "none" /\ btn \notin {4, 5}
  BY <1>1, <1>5 DEF Turn
<1> QED
  BY <1>2, <1>3, <1>4, <1>5

\* What the two scripts have in common.
LEMMA AudioSteps ==
  ASSUME AudioTypeOK,
         \/ GetVolume \/ GetMute
         \/ NothingHeard /\ UNCHANGED <<connected, soundVars>>
         \/ SoundChanges /\ UNCHANGED <<connected, heard, heard_muted>>
  PROVE  AudioTypeOK'
<1>1. CASE GetVolume
  BY <1>1 DEF GetVolume, AudioTypeOK, Sinks, soundVars
<1>2. CASE GetMute
  BY <1>2 DEF GetMute, AudioTypeOK, Sinks, soundVars
<1>3. CASE NothingHeard /\ UNCHANGED <<connected, soundVars>>
  <2>1. heard' \in -1 .. 100
    BY <1>3 DEF NothingHeard
  <2>2. heard_muted' \in BOOLEAN
    BY <1>3, Zenon DEF NothingHeard
  <2> QED
    BY <1>3, <2>1, <2>2 DEF AudioTypeOK, Sinks, soundVars
<1>4. CASE SoundChanges /\ UNCHANGED <<connected, heard, heard_muted>>
  <2>1. volume' \in 0 .. 100
    BY <1>4, AudioAssumption DEF SoundChanges, AudioTypeOK
  <2>2. muted' \in BOOLEAN /\ volume_flag' \in BOOLEAN
    BY <1>4 DEF SoundChanges, AudioTypeOK
  <2> QED
    BY <1>4, <2>1, <2>2 DEF SoundChanges, AudioTypeOK, Sinks
<1> QED
  BY <1>1, <1>2, <1>3, <1>4

-------------------------------------------------------------------------------
(* The volume block.                                                       *)

PulseTypes == FunctionTypeOK(PulseTexts, PulseSteps) /\ AudioTypeOK /\ PulseTypeOK

LEMMA PulseCommandStep ==
  ASSUME PulseTypes, PulseInv, command = "dwm_pulse", PulseCommand
  PROVE  CommandStep(PulseTexts, PulseSteps) /\ AudioTypeOK' /\ PulseTypeOK'
<1> USE GoesIsStep, EndsIsStep DEF PulseTypes, PulseSteps, Running
<1>1. CASE ClickPulse
  <2>1. volume' \in 0 .. 100
    BY <1>1, TurnKeepsRange DEF ClickPulse
  <2>2. muted' \in BOOLEAN
    BY <1>1 DEF ClickPulse, AudioTypeOK
  <2>3. AudioTypeOK' /\ PulseTypeOK'
    BY <1>1, <2>1, <2>2 DEF ClickPulse, AudioTypeOK, PulseTypeOK, Sinks
  <2> QED
    BY <1>1, <2>3 DEF ClickPulse
<1>2. CASE GetDefaultSink
  <2>1. AudioTypeOK' /\ PulseTypeOK'
    BY <1>2 DEF GetDefaultSink, AudioTypeOK, PulseTypeOK, Sinks, audioVars, soundVars
  <2> QED
    BY <1>2, <2>1 DEF GetDefaultSink
<1>3. CASE PulseVolume
  <2>1. AudioTypeOK' /\ PulseTypeOK'
    BY <1>3, AudioSteps DEF PulseVolume, PulseTypeOK
  <2> QED
    BY <1>3, <2>1 DEF PulseVolume, GetVolume
<1>4. CASE NoVolume
  <2>1. AudioTypeOK' /\ PulseTypeOK'
    BY <1>4 DEF NoVolume, AudioTypeOK, PulseTypeOK, Sinks, pulseVars, audioVars, soundVars
  <2> QED
    BY <1>4, <2>1 DEF NoVolume
<1>5. CASE PulseMute
  <2>1. AudioTypeOK' /\ PulseTypeOK'
    BY <1>5, AudioSteps DEF PulseMute, PulseTypeOK
  <2> QED
    BY <1>5, <2>1 DEF PulseMute, GetMute
<1>6. CASE PrintVolume
  <2>1. AudioTypeOK' /\ PulseTypeOK'
    BY <1>6, AudioSteps DEF PrintVolume, PulseTypeOK
  <2>2. heard \in 0 .. 100 /\ heard_muted \in BOOLEAN
    BY <1>6 DEF PrintVolume, PulseInv, AudioTypeOK
  <2>3. Sound(heard, heard_muted) \in PulseTexts
    BY <2>2, SoundIsText DEF PulseTexts
  <2> QED
    BY <1>6, <2>1, <2>3 DEF PrintVolume
<1> QED
  BY <1>1, <1>2, <1>3, <1>4, <1>5, <1>6 DEF PulseCommand

LEMMA PavucontrolClosesStep ==
  ASSUME PulseTypes, PavucontrolCloses
  PROVE  CommandStep(PulseTexts, PulseSteps) /\ AudioTypeOK' /\ PulseTypeOK'
<1>1. AudioTypeOK' /\ PulseTypeOK'
  BY DEF PavucontrolCloses, PulseTypes, AudioTypeOK, PulseTypeOK, Sinks, pulseVars, audioVars,
         soundVars
<1> QED
  BY <1>1, GoesIsStep DEF PavucontrolCloses, PulseTypes, PulseSteps, WindowOpen, Running

LEMMA PulseChangesStep ==
  ASSUME PulseTypes, PulseChanges
  PROVE  OutsideStep /\ AudioTypeOK' /\ PulseTypeOK'
<1>1. AudioTypeOK' /\ PulseTypeOK'
  BY AudioSteps DEF PulseChanges, PulseTypes, PulseTypeOK
<1>2. OutsideStep
  BY OutsideIsStep DEF PulseChanges, PulseTypes, FunctionTypeOK, slotVars
<1> QED
  BY <1>1, <1>2

LEMMA PulseInvStep ==
  ASSUME PulseTypes, PulseInv, AtRest, command = "dwm_pulse", UNCHANGED choiceVars,
         \/ PulseCommand \/ PavucontrolCloses \/ PulseChanges
         \/ (OutsideStep \/ Serves \/ Refreshes \/ Drops \/ Collects \/ UNCHANGED barVars)
            /\ UNCHANGED pulseVars
  PROVE  PulseInv'
<1> USE DEF PulseInv, Running, choiceVars
<1>1. CASE ClickPulse
  BY <1>1 DEF ClickPulse, Goes, slotVars
<1>2. CASE PavucontrolCloses
  BY <1>2 DEF PavucontrolCloses, WindowOpen, Goes, slotVars
<1>3. CASE GetDefaultSink
  <2>1. CASE sink = "speaker"
    BY <1>3, <2>1 DEF GetDefaultSink, Goes, slotVars, audioVars, soundVars
  <2>2. CASE sink # "speaker"
    BY <1>3, <2>2 DEF GetDefaultSink, Ends, Finish, PulseView, audioVars, soundVars
  <2> QED
    BY <2>1, <2>2
<1>4. CASE PulseVolume
  BY <1>4 DEF PulseVolume, GetVolume, PulseTypes, AudioTypeOK, Goes, slotVars, soundVars
<1>5. CASE NoVolume
  BY <1>5 DEF NoVolume, Ends, Finish, PulseView, pulseVars, audioVars, soundVars
<1>6. CASE PulseMute
  <2>1. /\ at = "mute" /\ at' = "print"
        /\ UNCHANGED <<unseen, connected, sink, volume, heard, running, finished, shown>>
        /\ running /\ ~finished
    BY <1>6 DEF PulseMute, GetMute, Goes, slotVars, soundVars
  <2>2. sink = "speaker" => heard_muted' = muted'
    BY <1>6 DEF PulseMute, GetMute, soundVars, PulseTypes, AudioTypeOK
  <2> QED
    BY <2>1, <2>2
<1>7. CASE PrintVolume
  <2>1. ~unseen => sink = "speaker" /\ heard = volume /\ heard_muted = muted
    BY <1>7 DEF PrintVolume
  <2>2. printed' = Sound(heard, heard_muted)
    BY <1>7 DEF PrintVolume, Ends, Finish
  <2>3. PulseView' = (IF sink = "speaker" THEN Sound(volume, muted) ELSE Nothing)
    BY <1>7 DEF PrintVolume, PulseView, Sound, soundVars
  <2>4. ~unseen => printed' = PulseView'
    BY <2>1, <2>2, <2>3
  <2> QED
    BY <1>7, <2>4 DEF PrintVolume, Ends, Finish
<1>8. CASE PulseChanges
  BY <1>8 DEF PulseChanges, SlotRequest, slotVars
<1>9. ASSUME UNCHANGED pulseVars
      PROVE  PulseView' = PulseView
  BY <1>9 DEF PulseView, Sound, pulseVars, audioVars, soundVars
<1>10. CASE (OutsideStep \/ Drops \/ UNCHANGED barVars) /\ UNCHANGED pulseVars
  BY <1>9, <1>10 DEF OutsideStep, Drops, DropBusy, Drop, barVars, slotVars, pulseVars, audioVars,
                     soundVars
<1>11. CASE (Serves \/ Refreshes) /\ UNCHANGED pulseVars
  BY <1>9, <1>11 DEF Serves, Serve, Refreshes, TimedRun, StartWith, AtRest, pulseVars, audioVars,
                     soundVars
<1>12. CASE Collects /\ UNCHANGED pulseVars
  <2>1. PulseView # Failure
    <3>1. CASE sink = "speaker"
      <4>1. Sound(volume, muted) \in PulseTexts
        BY SoundIsText DEF PulseTypes, AudioTypeOK, PulseTexts
      <4> QED
        BY <3>1, <4>1, BarFunctionsAssumption DEF PulseView
    <3>2. CASE sink # "speaker"
      BY <3>2, BarFunctionAssumption DEF PulseView
    <3> QED
      BY <3>1, <3>2
  <2> QED
    BY <1>9, <1>12, <2>1 DEF Collects, Collect, AtRest, pulseVars, audioVars, soundVars
<1> QED
  BY <1>1, <1>2, <1>3, <1>4, <1>5, <1>6, <1>7, <1>8, <1>10, <1>11, <1>12 DEF PulseCommand

-------------------------------------------------------------------------------
(* Bluetooth.                                                              *)

BluetoothTypes ==
  FunctionTypeOK(BluetoothTexts, BluetoothSteps) /\ AudioTypeOK /\ BluetoothTypeOK

LEMMA DevicesAreText ==
  ASSUME AudioTypeOK, BluetoothTypeOK, listed # {}
  PROVE  <<listed, IF heard = -1 THEN NoSound ELSE Sound(heard, heard_muted)>>
           \in BluetoothTexts
<1> DEFINE sound == IF heard = -1 THEN NoSound ELSE Sound(heard, heard_muted)
<1>1. sound \in Sounds \cup {NoSound}
  <2>1. CASE heard = -1
    BY <2>1
  <2>2. CASE heard # -1
    <3>1. heard \in 0 .. 100 /\ heard_muted \in BOOLEAN
      BY <2>2 DEF AudioTypeOK
    <3> QED
      BY <2>2, <3>1, SoundIsText
  <2> QED
    BY <2>1, <2>2
<1> HIDE DEF sound
<1>2. listed \in (SUBSET Devices) \ {{}}
  BY DEF BluetoothTypeOK
<1>3. <<listed, sound>> \in ((SUBSET Devices) \ {{}}) \X (Sounds \cup {NoSound})
  BY <1>1, <1>2
<1>4. <<listed, sound>> \in BluetoothTexts
  BY <1>3 DEF BluetoothTexts
<1> QED
  BY <1>4 DEF sound

LEMMA LineIsNat ==
  ASSUME BluetoothTypeOK
  PROVE  Line \in Nat
BY DEF Line, BluetoothTypeOK

\* A device that goes or comes leaves the default sink one that there is.
LEMMA DevicesKeepTypes ==
  ASSUME AudioTypeOK, BluetoothTypeOK, NEW d \in Devices,
         Disconnects(d) \/ Connects(d),
         UNCHANGED <<volume, muted, volume_flag, heard, heard_muted, listed, listening>>
  PROVE  AudioTypeOK' /\ BluetoothTypeOK'
<1>1. CASE Disconnects(d)
  BY <1>1, LineIsNat DEF Disconnects, AudioTypeOK, BluetoothTypeOK, Sinks
<1>2. CASE Connects(d)
  BY <1>2, LineIsNat DEF Connects, AudioTypeOK, BluetoothTypeOK, Sinks
<1> QED
  BY <1>1, <1>2

LEMMA BluetoothCommandStep ==
  ASSUME BluetoothTypes, BluetoothCommand
  PROVE  CommandStep(BluetoothTexts, BluetoothSteps) /\ AudioTypeOK' /\ BluetoothTypeOK'
<1> USE GoesIsStep, EndsIsStep DEF BluetoothTypes, BluetoothSteps, Running
<1>u. ASSUME UNCHANGED audioVars
      PROVE  AudioTypeOK'
  BY <1>u DEF AudioTypeOK, Sinks, audioVars, soundVars
<1>1. CASE ClickBluetooth
  <2>1. volume' \in 0 .. 100
    BY <1>1, TurnKeepsRange DEF ClickBluetooth
  <2>2. AudioTypeOK' /\ BluetoothTypeOK'
    BY <1>1, <2>1 DEF ClickBluetooth, AudioTypeOK, BluetoothTypeOK, Sinks, watcherVars
  <2>3. PICK step \in BluetoothSteps : Goes(step)
    BY <1>1 DEF ClickBluetooth
  <2> QED
    BY <1>1, <2>2, <2>3 DEF ClickBluetooth
<1>2. CASE Disconnect
  <2>1. AudioTypeOK' /\ BluetoothTypeOK'
    <3>1. CASE connected = {} /\ UNCHANGED <<connected, sink, lines>>
      BY <1>2, <3>1 DEF Disconnect, AudioTypeOK, BluetoothTypeOK, Sinks
    <3>2. CASE \E d \in connected : Disconnects(d)
      BY <1>2, <3>2, DevicesKeepTypes DEF Disconnect, AudioTypeOK
    <3> QED
      BY <1>2, <3>1, <3>2 DEF Disconnect
  <2> QED
    BY <1>2, <2>1 DEF Disconnect
<1>3. CASE ListDevices
  <2>1. BluetoothTypeOK'
    BY <1>3 DEF ListDevices, AudioTypeOK, BluetoothTypeOK, watcherVars
  <2> QED
    BY <1>3, <1>u, <2>1 DEF ListDevices
<1>4. CASE FindSink \/ NoDeviceVolume
  <2>1. AudioTypeOK' /\ BluetoothTypeOK'
    BY <1>4, <1>u DEF FindSink, NoDeviceVolume, BluetoothTypeOK, bluetoothVars, watcherVars
  <2> QED
    BY <1>4, <2>1 DEF FindSink, NoDeviceVolume
<1>5. CASE DeviceVolume \/ DeviceMute
  <2>1. AudioTypeOK' /\ BluetoothTypeOK'
    BY <1>5, AudioSteps DEF DeviceVolume, DeviceMute, BluetoothTypeOK, watcherVars
  <2> QED
    BY <1>5, <2>1 DEF DeviceVolume, DeviceMute, GetVolume, GetMute
<1>6. CASE PrintDevices \/ PrintAfterReport
  <2>1. AudioTypeOK'
    BY <1>6, AudioSteps DEF PrintDevices, PrintAfterReport
  <2>2. BluetoothTypeOK'
    BY <1>6 DEF PrintDevices, PrintAfterReport, BluetoothTypeOK, watcherVars
  <2>3. PICK text \in BluetoothTexts \cup {Nothing, Failure} : Ends(text)
    <3>1. CASE PrintDevices
      BY <3>1, DevicesAreText DEF PrintDevices
    <3>2. CASE PrintAfterReport
      BY <3>2 DEF PrintAfterReport, BluetoothTexts
    <3> QED
      BY <1>6, <3>1, <3>2
  <2> QED
    BY <1>6, <2>1, <2>2, <2>3 DEF PrintDevices, PrintAfterReport
<1> QED
  BY <1>1, <1>2, <1>3, <1>4, <1>5, <1>6 DEF BluetoothCommand

LEMMA BluetoothctlClosesStep ==
  ASSUME BluetoothTypes, BluetoothctlCloses
  PROVE  CommandStep(BluetoothTexts, BluetoothSteps) /\ AudioTypeOK' /\ BluetoothTypeOK'
<1>1. AudioTypeOK' /\ BluetoothTypeOK'
  BY DEF BluetoothctlCloses, BluetoothTypes, AudioTypeOK, BluetoothTypeOK, Sinks, bluetoothVars,
         watcherVars, audioVars, soundVars
<1> QED
  BY <1>1, GoesIsStep DEF BluetoothctlCloses, BluetoothTypes, BluetoothSteps, WindowOpen, Running

\* The watcher and the devices.
LEMMA DevicesStep ==
  ASSUME BluetoothTypes,
         \/ WatcherPokes \/ OthersPoke \/ WatcherStarts
         \/ DeviceChanges \/ DeviceSoundChanges
  PROVE  OutsideStep /\ AudioTypeOK' /\ BluetoothTypeOK'
<1>t. events \in 0 .. MaxEvents
  BY DEF BluetoothTypes, FunctionTypeOK
<1> USE OutsideIsStep DEF BluetoothTypes
<1>u. ASSUME UNCHANGED audioVars
      PROVE  AudioTypeOK'
  BY <1>u DEF AudioTypeOK, Sinks, audioVars, soundVars
<1>1. CASE WatcherPokes \/ OthersPoke
  <2>1. BluetoothTypeOK'
    <3>1. listed' \subseteq Devices /\ lines' \in Nat
      BY <1>1 DEF WatcherPokes, OthersPoke, BluetoothTypeOK
    <3>2. listening' \in BOOLEAN
      BY <1>1, Zenon DEF WatcherPokes, OthersPoke
    <3> QED
      BY <3>1, <3>2 DEF BluetoothTypeOK
  <2> QED
    BY <1>t, <1>1, <1>u, <2>1 DEF WatcherPokes, OthersPoke
<1>2. CASE WatcherStarts
  <2>1. BluetoothTypeOK'
    BY <1>2 DEF WatcherStarts, BluetoothTypeOK
  <2> QED
    BY <1>t, <1>2, <1>u, <2>1 DEF WatcherStarts, barVars
<1>3. CASE DeviceChanges
  <2>1. AudioTypeOK' /\ BluetoothTypeOK'
    BY <1>3, DevicesKeepTypes DEF DeviceChanges, AudioTypeOK
  <2> QED
    BY <1>t, <1>3, <2>1 DEF DeviceChanges
<1>4. CASE DeviceSoundChanges
  <2>1. AudioTypeOK' /\ BluetoothTypeOK'
    BY <1>4, AudioSteps DEF DeviceSoundChanges, BluetoothTypeOK, watcherVars
  <2> QED
    BY <1>t, <1>4, <2>1 DEF DeviceSoundChanges
<1> QED
  BY <1>1, <1>2, <1>3, <1>4

-------------------------------------------------------------------------------
(* The network.                                                            *)

NetworkTypes == FunctionTypeOK(NetworkTexts, NetworkSteps) /\ NetworkTypeOK

\* Every strength has the icon of one of five.
LEMMA BarsOfClass ==
  ASSUME NEW class \in -1 .. 120
  PROVE  \E s \in {0, 30, 50, 70, 100} : Bars(class) = Bars(s)
<1>0. Bars(0) = 0 /\ Bars(30) = 1 /\ Bars(50) = 2 /\ Bars(70) = 3 /\ Bars(100) = 4
  BY DEF Bars
<1>1. CASE class >= 80
  BY <1>0, <1>1 DEF Bars
<1>2. CASE class <= 20
  BY <1>0, <1>2 DEF Bars
<1>3. CASE class \in 21 .. 40
  BY <1>0, <1>3 DEF Bars
<1>4. CASE class \in 41 .. 60
  BY <1>0, <1>4 DEF Bars
<1>5. CASE class \in 61 .. 79
  BY <1>0, <1>5 DEF Bars
<1> QED
  BY <1>1, <1>2, <1>3, <1>4, <1>5

LEMMA NetworkIcons ==
  ASSUME NetworkTypeOK
  PROVE  /\ Off \in NetworkTexts
         /\ Printed(Wired(internet)) \in NetworkTexts \cup {Nothing}
         /\ Wifi(strength, internet) \in NetworkTexts
<1>1. Off \in NetworkTexts
  BY DEF NetworkTexts
<1>2. Printed(Wired(internet)) \in NetworkTexts \cup {Nothing}
  <2>1. CASE internet
    BY <2>1 DEF Printed, Wired
  <2>2. CASE ~internet
    <3>1. Wired(internet) = Wired(FALSE)
      BY <2>2 DEF Wired
    <3> QED
      BY <3>1 DEF Printed, NetworkTexts
  <2> QED
    BY <2>1, <2>2
<1>3. Wifi(strength, internet) \in NetworkTexts
  <2>1. PICK s \in {0, 30, 50, 70, 100} : Bars(strength) = Bars(s)
    BY BarsOfClass DEF NetworkTypeOK
  <2>2. Wifi(strength, internet) = Wifi(s, internet) /\ internet \in BOOLEAN
    BY <2>1 DEF Wifi, NetworkTypeOK
  <2> QED
    <3>1. \E t \in {0, 30, 50, 70, 100}, i \in BOOLEAN : Wifi(strength, internet) = Wifi(t, i)
      BY <2>2, Zenon
    <3>2. Wifi(strength, internet) \in {Wifi(t, i) : t \in {0, 30, 50, 70, 100}, i \in BOOLEAN}
      BY <3>1, SMT
    <3> QED
      <4> DEFINE wifi == {Wifi(t, i) : t \in {0, 30, 50, 70, 100}, i \in BOOLEAN}
                 icon == Wifi(strength, internet)
      <4>1. NetworkTexts = {Off, Wired(FALSE)} \cup wifi
        BY DEF NetworkTexts
      <4>2. icon \in wifi
        BY <3>2
      <4> HIDE DEF wifi, icon
      <4>3. icon \in NetworkTexts
        BY <4>1, <4>2
      <4> QED
        BY <4>3 DEF icon
<1> QED
  BY <1>1, <1>2, <1>3

\* What the three ways to measure the signal lead to.
LEMMA SignalInRange ==
  ASSUME NetworkTypeOK
  PROVE  /\ Clamp((net.dbm + 100) * 2) \in 0 .. 100
         /\ dbm_to_quality(IF net.told THEN net.dbm ELSE -100) \in 0 .. 100
         /\ get_wifi_signal(net) \in -1 .. 120
<1>1. net.dbm \in -120 .. -1
  BY NetworkAssumption DEF NetworkTypeOK
<1>2. Clamp((net.dbm + 100) * 2) \in 0 .. 100
  BY <1>1 DEF Clamp
<1>3. dbm_to_quality(IF net.told THEN net.dbm ELSE -100) \in 0 .. 100
  <2>1. dbm_to_quality(net.dbm) \in 0 .. 100 /\ dbm_to_quality(-100) \in 0 .. 100
    BY <1>1 DEF dbm_to_quality
  <2> QED
    BY <2>1
<1>4. get_wifi_signal(net) \in -1 .. 120
  BY <1>1 DEF get_wifi_signal, Abs
<1> QED
  BY <1>2, <1>3, <1>4

LEMMA NetworkCommandStep ==
  ASSUME NetworkTypes, NetworkCommand
  PROVE  CommandStep(NetworkTexts, NetworkSteps) /\ NetworkTypeOK'
<1> USE GoesIsStep, EndsIsStep DEF NetworkTypes, NetworkSteps, Running
<1>u. ASSUME UNCHANGED networkVars
      PROVE  NetworkTypeOK'
  BY <1>u DEF NetworkTypeOK, networkVars
<1>1. CASE ClickNetwork \/ WirelessUp \/ Connect
  BY <1>1, <1>u DEF ClickNetwork, WirelessUp, Connect
<1>2. CASE WirelessDown \/ NotConnected
  BY <1>2, <1>u, NetworkIcons DEF WirelessDown, NotConnected
<1>3. CASE CheckWired
  BY <1>3 DEF CheckWired, NetworkTypeOK
<1>4. CASE GetSsid
  BY <1>4 DEF GetSsid, NetworkTypeOK
<1>5. CASE AskIw
  <2>1. strength' \in -1 .. 120
    BY <1>5, SignalInRange DEF AskIw
  <2> QED
    BY <1>5, <2>1 DEF AskIw, NetworkTypeOK
<1>6. CASE ReadLevel
  <2>1. strength' \in -1 .. 120
    BY <1>6, SignalInRange DEF ReadLevel, NetworkTypeOK
  <2> QED
    BY <1>6, <2>1 DEF ReadLevel, NetworkTypeOK
<1>7. CASE Connected \/ Ping
  <2>1. internet' \in BOOLEAN
    <3>1. CASE Connected
      BY <3>1, Zenon DEF Connected
    <3>2. CASE Ping
      <4> DEFINE answers == {"prompt", "late", "refuses"}
      <4>1. internet' = (net.peer \in answers)
        BY <3>2 DEF Ping
      <4> HIDE DEF answers
      <4>2. CASE net.peer \in answers
        BY <4>1, <4>2
      <4>3. CASE ~(net.peer \in answers)
        BY <4>1, <4>3
      <4> QED
        BY <4>2, <4>3
    <3> QED
      BY <1>7, <3>1, <3>2
  <2> QED
    BY <1>7, <2>1 DEF Connected, Ping, NetworkTypeOK
<1>8. CASE PrintNetwork
  <2>1. PICK text \in NetworkTexts \cup {Nothing} : Ends(text)
    BY <1>8, NetworkIcons DEF PrintNetwork
  <2>2. NetworkTypeOK'
    <3>1. internet' \in BOOLEAN
      BY <1>8, Zenon DEF PrintNetwork, NothingFound
    <3> QED
      BY <1>8, <3>1 DEF PrintNetwork, NothingFound, NetworkTypeOK
  <2> QED
    BY <1>8, <2>1, <2>2 DEF PrintNetwork
<1> QED
  BY <1>1, <1>2, <1>3, <1>4, <1>5, <1>6, <1>7, <1>8 DEF NetworkCommand

LEMMA NetworkOutsideStep ==
  ASSUME NetworkTypes
  PROVE  /\ IwctlCloses => CommandStep(NetworkTexts, NetworkSteps) /\ NetworkTypeOK'
         /\ NetChanges => OutsideStep /\ NetworkTypeOK'
<1>1. ASSUME IwctlCloses
      PROVE  CommandStep(NetworkTexts, NetworkSteps) /\ NetworkTypeOK'
  BY <1>1, GoesIsStep DEF IwctlCloses, NetworkTypes, NetworkTypeOK, NetworkSteps, networkVars,
                          WindowOpen, Running
<1>2. ASSUME NetChanges
      PROVE  OutsideStep /\ NetworkTypeOK'
  <2>1. OutsideStep
    BY <1>2, OutsideIsStep DEF NetChanges, NetworkTypes, FunctionTypeOK
  <2> QED
    BY <1>2, <2>1 DEF NetChanges, NetworkTypes, NetworkTypeOK
<1> QED
  BY <1>1, <1>2

-------------------------------------------------------------------------------
(* The processor.                                                          *)

\* The times up to one, from one to another, at which the processor did what.
Times(from, to, busy) == {t \in from + 1 .. to : ticks[t] = busy}

LEMMA TimesAreFinite ==
  ASSUME NEW from \in Nat, NEW to \in Nat, NEW busy
  PROVE  /\ IsFiniteSet(Times(from, to, busy))
         /\ Cardinality(Times(from, to, busy)) \in Nat
<1>1. IsFiniteSet(from + 1 .. to)
  BY FS_Interval
<1>2. Times(from, to, busy) \subseteq from + 1 .. to
  BY DEF Times
<1>3. IsFiniteSet(Times(from, to, busy))
  BY <1>1, <1>2, FS_Subset
<1> QED
  BY <1>3, FS_CardinalityType

\* What the processor has done in an interval is the difference of what it has
\* done since the boot.
LEMMA IdleInInterval ==
  ASSUME NEW from \in Nat, NEW to \in Nat, from <= to, NEW busy
  PROVE  Cardinality(Times(0, to, busy))
           = Cardinality(Times(0, from, busy)) + Cardinality(Times(from, to, busy))
<1> DEFINE A == Times(0, from, busy)
           B == Times(from, to, busy)
<1>1. IsFiniteSet(A) /\ IsFiniteSet(B)
  BY TimesAreFinite
<1>2. A \cap B = {}
  BY DEF Times
<1>3. A \cup B = Times(0, to, busy)
  BY DEF Times
<1>4. Cardinality(A \cup B) = Cardinality(A) + Cardinality(B) - Cardinality(A \cap B)
  <2> HIDE DEF A, B
  <2> QED
    BY <1>1, FS_Union
<1>5. Cardinality({}) = 0
  BY FS_EmptySet
<1>6. Cardinality(A) \in Nat /\ Cardinality(B) \in Nat
  BY TimesAreFinite
<1>7. Cardinality(A \cup B) = Cardinality(A) + Cardinality(B)
  <2> HIDE DEF A, B
  <2>1. Cardinality(A \cap B) = 0
    BY <1>2, <1>5, Zenon
  <2> QED
    BY <1>4, <1>6, <2>1
<1> QED
  BY <1>3, <1>7, Zenon

\* In each unit of time it was either busy or idle.
LEMMA BusyOrIdle ==
  ASSUME ticks \in Seq({0, 1}), NEW from \in Nat, NEW to \in Nat,
         from <= to, to <= Len(ticks)
  PROVE  Cardinality(Times(from, to, 0)) + Cardinality(Times(from, to, 1)) = to - from
<1> DEFINE A == Times(from, to, 0)
           B == Times(from, to, 1)
<1>1. IsFiniteSet(A) /\ IsFiniteSet(B)
  BY TimesAreFinite
<1>2. A \cap B = {}
  BY DEF Times
<1>3. A \cup B = from + 1 .. to
  <2>1. \A t \in from + 1 .. to : ticks[t] \in {0, 1}
    OBVIOUS
  <2> QED
    BY <2>1 DEF Times
<1>4. Cardinality(A \cup B) = Cardinality(A) + Cardinality(B) - Cardinality(A \cap B)
  <2> HIDE DEF A, B
  <2> QED
    BY <1>1, FS_Union
<1>5. Cardinality({}) = 0
  BY FS_EmptySet
<1>6. Cardinality(from + 1 .. to) = to - from
  <2>1. from + 1 \in Int /\ to \in Int
    OBVIOUS
  <2>2. Cardinality(from + 1 .. to) = IF from + 1 > to THEN 0 ELSE to - (from + 1) + 1
    BY <2>1, FS_Interval
  <2> QED
    BY <2>2
<1>7. Cardinality(A) \in Nat /\ Cardinality(B) \in Nat
  BY TimesAreFinite
<1>8. Cardinality(A) + Cardinality(B) = to - from
  <2> HIDE DEF A, B
  <2>1. Cardinality(A \cap B) = 0
    BY <1>2, <1>5, Zenon
  <2>2. Cardinality(A \cup B) = to - from
    BY <1>3, <1>6, Zenon
  <2> QED
    BY <1>4, <1>7, <2>1, <2>2
<1> QED
  BY <1>8, Zenon

LEMMA AtIsTimes ==
  ASSUME NEW time \in Nat
  PROVE  At(time) = [total |-> time, idle |-> Cardinality(Times(0, time, 0))]
BY DEF At, Times

\* What a snapshot holds are the counters of a time up to now.
LEMMA SnapshotTypes ==
  ASSUME ticks \in Seq({0, 1}), NEW s, IsSnapshot(s)
  PROVE  s \in Snapshots /\ s.total <= Len(ticks)
<1>1. s.total \in Nat /\ s.total <= Len(ticks)
  BY DEF IsSnapshot
<1>2. Cardinality(Times(0, s.total, 0)) \in Nat
  BY <1>1, TimesAreFinite
<1> QED
  BY <1>1, <1>2, AtIsTimes DEF IsSnapshot, Snapshots

\* What the kernel tells is a snapshot, and so are the zeros of an empty file.
LEMMA NowIsSnapshot ==
  ASSUME ticks \in Seq({0, 1})
  PROVE  IsSnapshot(Now) /\ IsSnapshot(NoSnapshot)
<1>1. Len(ticks) \in Nat /\ DOMAIN ticks = 1 .. Len(ticks)
  OBVIOUS
<1>2. Now = At(Len(ticks))
  BY <1>1 DEF Now, At
<1>3. NoSnapshot = At(0)
  <2>1. {t \in 1 .. 0 : ticks[t] = 0} = {}
    OBVIOUS
  <2> QED
    BY <2>1, FS_EmptySet DEF NoSnapshot, At
<1>4. At(Len(ticks)).total = Len(ticks) /\ At(0).total = 0
  BY DEF At
<1> QED
  BY <1>1, <1>2, <1>3, <1>4 DEF IsSnapshot

\* A percentage is one.
LEMMA PercentInRange ==
  ASSUME NEW all \in Nat, NEW some \in 0 .. all, all > 0
  PROVE  (100 * some) \div all \in 0 .. 100
<1> DEFINE q == (100 * some) \div all
<1>1. q \in Int /\ all * q <= 100 * some /\ 100 * some < all * q + all
  OBVIOUS
<1> HIDE DEF q
<1>2. q >= 0
  <2>1. ASSUME q < 0 PROVE FALSE
    <3>1. all * (q + 1) <= 0
      BY <1>1, <2>1
    <3> QED
      BY <1>1, <3>1
  <2> QED
    BY <1>1, <2>1
<1>3. q <= 100
  <2>1. ASSUME q > 100 PROVE FALSE
    <3>1. all * q >= all * 101
      BY <1>1, <2>1
    <3> QED
      BY <1>1, <3>1
  <2> QED
    BY <1>1, <2>1
<1> QED
  BY <1>1, <1>2, <1>3 DEF q

\* What a run computes of two snapshots is the load between them.
LEMMA SnapshotsTellLoad ==
  ASSUME ticks \in Seq({0, 1}), NEW s, NEW p, IsSnapshot(s), IsSnapshot(p),
         s.total - p.total > 0
  PROVE  LET d_total == s.total - p.total
             d_idle == s.idle - p.idle
             cpu_pct == ((d_total - d_idle) * 100) \div d_total
         IN  /\ cpu_pct = Load(p.total, s.total)
             /\ cpu_pct \in 0 .. 100
             /\ p.total \in 0 .. s.total - 1
<1> DEFINE from == p.total
           to == s.total
           busy == Cardinality(Times(from, to, 1))
<1>1. /\ from \in Nat /\ to \in Nat /\ from < to /\ to <= Len(ticks)
      /\ p.idle = Cardinality(Times(0, from, 0))
      /\ s.idle = Cardinality(Times(0, to, 0))
  BY AtIsTimes, SnapshotTypes DEF IsSnapshot, Snapshots
<1>2. s.idle - p.idle = Cardinality(Times(from, to, 0))
  <2>1. Cardinality(Times(0, from, 0)) \in Nat /\ Cardinality(Times(from, to, 0)) \in Nat
    BY <1>1, TimesAreFinite
  <2>2. from <= to
    BY <1>1
  <2> QED
    BY <1>1, <2>1, <2>2, IdleInInterval
<1>3. (to - from) - (s.idle - p.idle) = busy /\ busy \in 0 .. to - from
  <2>1. busy \in Nat /\ Cardinality(Times(from, to, 0)) \in Nat
    BY <1>1, TimesAreFinite
  <2>2. Cardinality(Times(from, to, 0)) + busy = to - from
    BY <1>1, BusyOrIdle
  <2> HIDE DEF busy, from, to
  <2> QED
    BY <1>1, <1>2, <2>1, <2>2
<1>4. Load(from, to) = (100 * busy) \div (to - from)
  BY DEF Load, Times
<1>5. (100 * busy) \div (to - from) \in 0 .. 100
  <2>1. to - from \in Nat /\ to - from > 0
    BY <1>1
  <2> QED
    BY <1>3, <2>1, PercentInRange
<1>6. busy * 100 = 100 * busy
  BY <1>3
<1>7. (((to - from) - (s.idle - p.idle)) * 100) \div (to - from) = Load(from, to)
  BY <1>3, <1>4, <1>6, Zenon
<1>8. from \in 0 .. to - 1
  BY <1>1
<1> QED
  BY <1>4, <1>5, <1>7, <1>8, Zenon

CpuTypes == FunctionTypeOK(CpuTexts, CpuSteps) /\ CpuTypeOK

LEMMA CpuCommandStep ==
  ASSUME CpuTypes, CpuInv, command = "dwm_cpu", CpuCommand
  PROVE  CommandStep(CpuTexts, CpuSteps) /\ CpuTypeOK'
<1> USE GoesIsStep, EndsIsStep DEF CpuTypes, CpuSteps, Running
<1>t. ticks \in Seq({0, 1})
  BY DEF CpuTypeOK
<1>n. Now \in Snapshots /\ NoSnapshot \in Snapshots
  BY <1>t, NowIsSnapshot, SnapshotTypes
<1>u. ASSUME UNCHANGED cpuVars
      PROVE  CpuTypeOK'
  BY <1>u DEF CpuTypeOK, cpuVars
<1>1. CASE OpenTop \/ TruncateFails
  BY <1>1, <1>u DEF OpenTop, TruncateFails
<1>2. CASE NotifyTop
  BY <1>2, <1>u DEF NotifyTop
<1>3. CASE ReadStat
  BY <1>n, <1>3 DEF ReadStat, CpuTypeOK
<1>4. CASE ReadPrevious \/ TruncateFile \/ SaveStat
  BY <1>n, <1>4 DEF ReadPrevious, TruncateFile, SaveStat, CpuTypeOK
<1>5. CASE PrintLoad
  <2> DEFINE d_total == stat.total - previous.total
             d_idle == stat.idle - previous.idle
             cpu_pct == ((d_total - d_idle) * 100) \div d_total
  <2>1. PICK discharging \in BOOLEAN :
          Ends(IF d_total > 0 /\ cpu_pct >= CpuThreshold(discharging) THEN cpu_pct ELSE Nothing)
    BY <1>5 DEF PrintLoad
  <2>2. d_total > 0 => cpu_pct \in CpuTexts
    BY <1>t, SnapshotsTellLoad DEF CpuInv, CpuTexts
  <2>3. running /\ ~finished
    BY <1>5 DEF PrintLoad
  <2>4. CommandStep(CpuTexts, CpuSteps)
    <3> HIDE DEF d_total, cpu_pct
    <3> QED
      BY <2>1, <2>2, <2>3
  <2>5. CpuTypeOK'
    BY <1>n, <1>5 DEF PrintLoad, CpuTypeOK
  <2> QED
    BY <2>4, <2>5
<1> QED
  BY <1>1, <1>2, <1>3, <1>4, <1>5 DEF CpuCommand

LEMMA TopClosesStep ==
  ASSUME CpuTypes, TopCloses
  PROVE  CommandStep(CpuTexts, CpuSteps) /\ CpuTypeOK'
<1>1. CpuTypeOK'
  BY DEF TopCloses, CpuTypes, CpuTypeOK, cpuVars
<1> QED
  BY <1>1, EndsIsStep DEF TopCloses, CpuTypes, WindowOpen, Running

LEMMA CpuEnvironmentStep ==
  ASSUME CpuTypes, CpuEnvironment
  PROVE  OutsideStep /\ CpuTypeOK'
<1>t. ticks \in Seq({0, 1}) /\ events \in 0 .. MaxEvents
  BY DEF CpuTypes, CpuTypeOK, FunctionTypeOK
<1>n. Now \in Snapshots /\ NoSnapshot \in Snapshots
  BY <1>t, NowIsSnapshot, SnapshotTypes
<1> USE OutsideIsStep DEF CpuTypes
<1>1. CASE TimePasses
  <2>1. ticks' \in Seq({0, 1})
    BY <1>t, <1>1 DEF TimePasses
  <2> QED
    BY <1>t, <1>1, <2>1 DEF TimePasses, CpuTypeOK
<1>2. CASE OtherReads \/ OtherTruncates \/ OtherSaves
  <2>1. CpuTypeOK'
    BY <1>n, <1>2 DEF OtherReads, OtherTruncates, OtherSaves, CpuTypeOK
  <2> QED
    BY <1>t, <1>2, <2>1 DEF OtherReads, OtherTruncates, OtherSaves, barVars
<1> QED
  BY <1>1, <1>2 DEF CpuEnvironment

\* What the counters were at a time, and the load up to it, stay so.
LEMMA PastStays ==
  ASSUME ticks \in Seq({0, 1}),
         UNCHANGED ticks \/ \E busy \in {0, 1} : ticks' = Append(ticks, busy),
         NEW time \in 0 .. Len(ticks)
  PROVE  /\ [total |-> time, idle |-> Cardinality({t \in 1 .. time : ticks'[t] = 0})] = At(time)
         /\ Len(ticks') \in Nat /\ Len(ticks) <= Len(ticks')
         /\ \A from \in Nat : Load(from, time)' = Load(from, time)
<1>1. /\ Len(ticks) \in Nat /\ Len(ticks') \in Nat /\ Len(ticks) <= Len(ticks')
      /\ \A t \in 1 .. Len(ticks) : ticks'[t] = ticks[t]
  <2>1. CASE UNCHANGED ticks
    BY <2>1
  <2>2. ASSUME NEW busy \in {0, 1}, ticks' = Append(ticks, busy)
        PROVE  <1>1!1
    <3>1. Len(ticks') = Len(ticks) + 1 /\ Len(ticks) \in Nat
      BY <2>2
    <3>2. \A t \in 1 .. Len(ticks) : ticks'[t] = ticks[t]
      BY <2>2
    <3> QED
      BY <3>1, <3>2
  <2> QED
    BY <2>1, <2>2
<1>2. {t \in 1 .. time : ticks'[t] = 0} = {t \in 1 .. time : ticks[t] = 0}
  BY <1>1
<1>3. ASSUME NEW from \in Nat
      PROVE  {t \in from + 1 .. time : ticks'[t] = 1} = {t \in from + 1 .. time : ticks[t] = 1}
  BY <1>1
<1> QED
  BY <1>1, <1>2, <1>3 DEF At, Load

\* A snapshot stays one while time passes.
LEMMA SnapshotStays ==
  ASSUME ticks \in Seq({0, 1}),
         UNCHANGED ticks \/ \E busy \in {0, 1} : ticks' = Append(ticks, busy),
         NEW s, IsSnapshot(s)
  PROVE  s.total \in 0 .. Len(ticks') /\ s = [total |-> s.total,
           idle |-> Cardinality({t \in 1 .. s.total : ticks'[t] = 0})]
<1>1. s.total \in 0 .. Len(ticks) /\ s = At(s.total)
  BY DEF IsSnapshot
<1>2. s.total \in 0 .. Len(ticks')
  BY <1>1, PastStays
<1>3. [total |-> s.total, idle |-> Cardinality({t \in 1 .. s.total : ticks'[t] = 0})]
        = At(s.total)
  BY <1>1, PastStays
<1> QED
  BY <1>1, <1>2, <1>3

LEMMA CpuInvStep ==
  ASSUME CpuTypes, CpuInv, AtRest, command = "dwm_cpu", UNCHANGED choiceVars,
         \/ CpuCommand \/ TopCloses \/ CpuEnvironment
         \/ (OutsideStep \/ BarStep \/ UNCHANGED barVars) /\ UNCHANGED cpuVars
  PROVE  CpuInv'
<1>t. ticks \in Seq({0, 1})
  BY DEF CpuTypes, CpuTypeOK
<1>i. IsSnapshot(stat_file) /\ IsSnapshot(stat) /\ IsSnapshot(previous) /\ IsSnapshot(other)
  BY DEF CpuInv
<1>n. IsSnapshot(Now) /\ IsSnapshot(NoSnapshot)
  BY <1>t, NowIsSnapshot
<1>s. UNCHANGED ticks \/ \E busy \in {0, 1} : ticks' = Append(ticks, busy)
  BY DEF CpuCommand, OpenTop, NotifyTop, ReadStat, ReadPrevious, TruncateFile, TruncateFails,
         SaveStat, PrintLoad, TopCloses, CpuEnvironment, TimePasses, OtherReads, OtherTruncates,
         OtherSaves, cpuVars
<1>v. \A v \in {stat_file', stat', previous', other'} : IsSnapshot(v)
  BY <1>i, <1>n
     DEF CpuCommand, OpenTop, NotifyTop, ReadStat, ReadPrevious, TruncateFile, TruncateFails,
         SaveStat, PrintLoad, TopCloses, CpuEnvironment, TimePasses, OtherReads, OtherTruncates,
         OtherSaves, cpuVars
<1>1. /\ IsSnapshot(stat_file)' /\ IsSnapshot(stat)'
      /\ IsSnapshot(previous)' /\ IsSnapshot(other)'
  BY <1>t, <1>s, <1>v, SnapshotStays DEF IsSnapshot, At
<1>2. LoadIsReal'
  <2>1. CASE PrintLoad
    <3> DEFINE d_total == stat.total - previous.total
               d_idle == stat.idle - previous.idle
               cpu_pct == ((d_total - d_idle) * 100) \div d_total
    <3>1. PICK discharging \in BOOLEAN :
            Ends(IF d_total > 0 /\ cpu_pct >= CpuThreshold(discharging) THEN cpu_pct ELSE Nothing)
      BY <2>1 DEF PrintLoad
    <3>2. d_total > 0 =>
            cpu_pct = Load(previous.total, stat.total) /\ previous.total \in 0 .. stat.total - 1
      BY <1>t, <1>i, SnapshotsTellLoad
    <3>3. ticks' = ticks /\ stat' = stat
      BY <2>1 DEF PrintLoad
    <3>4. printed' # Nothing => d_total > 0 /\ printed' = cpu_pct
      <4> HIDE DEF d_total, cpu_pct
      <4> QED
        BY <3>1 DEF Ends, Finish
    <3>5. printed' # Nothing => \E from \in 0 .. stat.total - 1 : printed' = Load(from, stat.total)
      <4> HIDE DEF d_total, cpu_pct
      <4> QED
        BY <3>2, <3>4
    <3> QED
      BY <3>3, <3>5 DEF LoadIsReal, Load
  <2>2. CASE finished' /\ UNCHANGED <<finished, printed, stat>>
    <3>1. stat.total \in 0 .. Len(ticks)
      BY <1>i DEF IsSnapshot
    <3>2. \A from \in Nat : Load(from, stat.total)' = Load(from, stat.total)
      BY <1>t, <1>s, <2>2, <3>1, PastStays DEF Load
    <3>3. printed # Nothing => \E from \in 0 .. stat.total - 1 : printed = Load(from, stat.total)
      BY <2>2 DEF CpuInv, LoadIsReal
    <3> QED
      BY <2>2, <3>2, <3>3 DEF LoadIsReal
  <2>3. CASE ~finished' \/ printed' = Nothing
    BY <2>3 DEF LoadIsReal
  <2>4. PrintLoad \/ UNCHANGED <<finished, printed, stat>> \/ ~finished' \/ printed' = Nothing
    <3>1. CASE CpuCommand
      BY <3>1 DEF CpuCommand, OpenTop, NotifyTop, ReadStat, ReadPrevious, TruncateFile,
                  TruncateFails, SaveStat, Running, Goes, Ends, Finish, slotVars
    <3>2. CASE TopCloses
      BY <3>2 DEF TopCloses, Ends, Finish
    <3>3. CASE CpuEnvironment
      BY <3>3 DEF CpuEnvironment, TimePasses, OtherReads, OtherTruncates, OtherSaves, slotVars,
                  barVars
    <3>4. CASE (OutsideStep \/ BarStep \/ UNCHANGED barVars) /\ UNCHANGED cpuVars
      BY <3>4 DEF OutsideStep, BarStep, Serves, Serve, TimedRuns, Refreshes, TimedRun, StartWith, Drops,
                  DropBusy, Drop, Collects, Collect, barVars, slotVars, cpuVars
    <3> QED
      BY <3>1, <3>2, <3>3, <3>4
  <2> QED
    BY <2>1, <2>2, <2>3, <2>4
<1> QED
  BY <1>1, <1>2 DEF CpuInv

-------------------------------------------------------------------------------
(* All together: each step belongs to one command, or to the bar.          *)

\* The bar and the user take a step, or nothing happens.
BarGoesOn ==
  /\ \/ Serves \/ Drops \/ Collects
     \/ command \in Timed /\ TimedRuns
     \/ command # "dwm_backlight" /\ (Refreshes \/ Clicks({NoButton}))
     \/ Clicks(Uses[command])
     \/ UNCHANGED barVars
  /\ UNCHANGED <<choiceVars, worldVars>>

LEMMA BarGoesOnStep ==
  ASSUME command \in Commands, events \in 0 .. MaxEvents, BarGoesOn
  PROVE  /\ OutsideStep \/ BarStep \/ UNCHANGED barVars
         /\ \/ command \in Timed
            \/ OutsideStep \/ Serves \/ Refreshes \/ Drops \/ Collects \/ UNCHANGED barVars
<1>1. ASSUME NEW used \in SUBSET (Buttons \cup {NoButton}), Clicks(used)
      PROVE  OutsideStep
  BY <1>1, OutsideIsStep DEF Clicks
<1>2. Uses[command] \in SUBSET (Buttons \cup {NoButton})
  BY BarFunctionsAssumption
<1> QED
  BY <1>1, <1>2 DEF BarGoesOn, BarStep

LEMMA NextIsOfOne ==
  ASSUME command \in Commands, BacklightTypeOK, [Next]_vars
  PROVE  \/ BarGoesOn
         \/ OfBacklight(OthersRun)
         \/ OfDnd(DndCommand \/ OthersPause)
         \/ OfBacklight(BacklightCommand \/ Sleeper \/ Tick)
         \/ OfSpotify(SpotifyCommand \/ PlayerChanges \/ PlayerCloses)
         \/ OfCpu(CpuCommand \/ CpuEnvironment \/ TopCloses)
         \/ OfMemory(MemoryCommand \/ MemoryChanges \/ MemoryTopCloses)
         \/ OfCountdown(CountdownCommand \/ CountdownEnvironment)
         \/ OfBluetooth(BluetoothCommand \/ BluetoothctlCloses \/ WatcherPokes \/ OthersPoke
                    \/ WatcherStarts \/ DeviceChanges \/ DeviceSoundChanges)
         \/ OfPulse(PulseCommand \/ PulseChanges \/ PavucontrolCloses)
         \/ OfNetwork(NetworkCommand \/ NetChanges \/ IwctlCloses)
         \/ OfVpn(VpnCommand \/ VpnChanges)
<1>1. CASE UserClicks
  BY <1>1 DEF UserClicks, BarGoesOn
<1>6. CASE OthersAsk
  <2>1. CASE command = "dwm_backlight"
    BY <1>6, <2>1 DEF OthersAsk, OfBacklight, OthersRun
  <2>2. CASE command # "dwm_backlight"
    <3>1. UNCHANGED plain
      BY <1>6, <2>2 DEF OthersAsk, BacklightTypeOK
    <3> QED
      BY <1>6, <2>2, <3>1 DEF OthersAsk, BarGoesOn, worldVars, backlightVars
  <2> QED
    BY <2>1, <2>2
<1>2. CASE BarServes \/ BarTimes \/ BarCollects \/ UNCHANGED vars
  BY <1>2 DEF BarServes, BarTimes, BarCollects, BarGoesOn, vars
<1>3. CASE CommandRuns
  BY <1>3 DEF CommandRuns, OfDnd, OfBacklight, OfSpotify, OfCpu, OfMemory, OfCountdown, OfBluetooth,
              OfPulse, OfNetwork, OfVpn
<1>4. CASE BackgroundRuns
  BY <1>4 DEF BackgroundRuns, OfBacklight, OfBluetooth
<1>5. CASE Environment
  BY <1>5 DEF Environment, OfDnd, OfSpotify, OfCpu, OfMemory, OfCountdown, OfBluetooth,
              OfPulse, OfNetwork, OfVpn
<1> QED
  BY <1>1, <1>2, <1>3, <1>4, <1>5, <1>6 DEF Next

\* What a command does not use keeps its types, and what is claimed of a command
\* is not claimed of another.
LEMMA TypesStay ==
  /\ DndTypeOK /\ UNCHANGED dndVars => DndTypeOK'
  /\ BacklightTypeOK /\ UNCHANGED backlightVars => BacklightTypeOK'
  /\ SpotifyTypeOK /\ UNCHANGED spotifyVars => SpotifyTypeOK'
  /\ CpuTypeOK /\ UNCHANGED cpuVars => CpuTypeOK'
  /\ MemoryTypeOK /\ UNCHANGED memoryVars => MemoryTypeOK'
  /\ CountdownTypeOK /\ UNCHANGED countdownVars => CountdownTypeOK'
  /\ AudioTypeOK /\ UNCHANGED audioVars => AudioTypeOK'
  /\ BluetoothTypeOK /\ UNCHANGED <<listed, watcherVars>> => BluetoothTypeOK'
  /\ PulseTypeOK /\ UNCHANGED unseen => PulseTypeOK'
  /\ NetworkTypeOK /\ UNCHANGED networkVars => NetworkTypeOK'
  /\ VpnTypeOK /\ UNCHANGED vpnVars => VpnTypeOK'
  /\ ChoiceTypeOK /\ UNCHANGED choiceVars => ChoiceTypeOK'
<1>1. DndTypeOK /\ UNCHANGED dndVars => DndTypeOK'
  BY DEF DndTypeOK, dndVars
<1>2. BacklightTypeOK /\ UNCHANGED backlightVars => BacklightTypeOK'
  BY DEF BacklightTypeOK, backlightVars
<1>3. SpotifyTypeOK /\ UNCHANGED spotifyVars => SpotifyTypeOK'
  BY DEF SpotifyTypeOK, spotifyVars
<1>4. CpuTypeOK /\ UNCHANGED cpuVars => CpuTypeOK'
  BY DEF CpuTypeOK, cpuVars
<1>5. MemoryTypeOK /\ UNCHANGED memoryVars => MemoryTypeOK'
  BY DEF MemoryTypeOK, memoryVars
<1>6. CountdownTypeOK /\ UNCHANGED countdownVars => CountdownTypeOK'
  BY DEF CountdownTypeOK, countdownVars
<1>7. AudioTypeOK /\ UNCHANGED audioVars => AudioTypeOK'
  BY DEF AudioTypeOK, Sinks, audioVars, soundVars
<1>8. BluetoothTypeOK /\ UNCHANGED <<listed, watcherVars>> => BluetoothTypeOK'
  BY DEF BluetoothTypeOK, watcherVars
<1>9. PulseTypeOK /\ UNCHANGED unseen => PulseTypeOK'
  BY DEF PulseTypeOK
<1>10. NetworkTypeOK /\ UNCHANGED networkVars => NetworkTypeOK'
  BY DEF NetworkTypeOK, networkVars
<1>11. VpnTypeOK /\ UNCHANGED vpnVars => VpnTypeOK'
  BY DEF VpnTypeOK, vpnVars
<1>12. ChoiceTypeOK /\ UNCHANGED choiceVars => ChoiceTypeOK'
  BY DEF ChoiceTypeOK, choiceVars
<1> QED
  BY <1>1, <1>2, <1>3, <1>4, <1>5, <1>6, <1>7, <1>8, <1>9, <1>10, <1>11, <1>12

LEMMA OthersStay ==
  ASSUME UNCHANGED choiceVars
  PROVE  /\ command # "dwm_do_not_disturb" /\ DndInv /\ UNCHANGED dndVars => DndInv'
         /\ command # "dwm_backlight" => BacklightInv'
         /\ command # "dwm_spotify" => SpotifyInv'
         /\ command # "dwm_cpu" => CpuInv'
         /\ command # "dwm_memory" => MemoryInv'
         /\ command # "dwm_countdown" => CountdownInv'
         /\ command # "dwm_pulse" => PulseInv'
<1> USE DEF choiceVars
<1>1. command # "dwm_do_not_disturb" /\ DndInv /\ UNCHANGED dndVars => DndInv'
  BY DEF DndInv, dndVars
<1>2. command # "dwm_backlight" => BacklightInv'
  BY DEF BacklightInv
<1>3. command # "dwm_spotify" => SpotifyInv'
  BY DEF SpotifyInv
<1>4. command # "dwm_cpu" => CpuInv'
  BY DEF CpuInv
<1>5. command # "dwm_memory" => MemoryInv'
  BY DEF MemoryInv
<1>6. command # "dwm_countdown" => CountdownInv'
  BY DEF CountdownInv
<1>7. command # "dwm_pulse" => PulseInv'
  BY DEF PulseInv
<1> QED
  BY <1>1, <1>2, <1>3, <1>4, <1>5, <1>6, <1>7

\* One command after the other: its own steps, those around it, those of the bar.
LEMMA DndNext ==
  ASSUME BarInv, command = "dwm_do_not_disturb", [Next]_vars
  PROVE  BarInv'
<1>1. DndTypes /\ DndInv /\ AtRest /\ events \in 0 .. MaxEvents
      /\ command \in Commands /\ BacklightTypeOK
  BY DEF BarInv, TypeOK, Vocabulary, DndTypes, FunctionTypeOK
<1>2. /\ UNCHANGED <<choiceVars, backlightVars, spotifyVars, cpuVars, memoryVars,
                   countdownVars, bluetoothVars, pulseVars, networkVars, vpnVars>>
      /\ \/ DndCommand \/ OthersPause
         \/ BarGoesOn /\ UNCHANGED dndVars
  BY <1>1, NextIsOfOne DEF BarGoesOn, worldVars, pulseVars, bluetoothVars, OfDnd, OfBacklight, OfSpotify, OfCpu, OfMemory,
     OfCountdown, OfBluetooth, OfPulse, OfNetwork, OfVpn
<1>3. /\ CommandStep(DndTexts, DndSteps) \/ OutsideStep \/ BarStep \/ UNCHANGED barVars
      /\ DndTypeOK'
  <2>1. CASE DndCommand \/ OthersPause
    BY <1>1, <2>1, DndCommandStep, OthersPauseStep DEF DndStep
  <2>2. CASE BarGoesOn /\ UNCHANGED dndVars
    BY <1>1, <2>2, BarGoesOnStep, TypesStay DEF DndTypes
  <2> QED
    BY <1>2, <2>1, <2>2
<1>4. FunctionTypeOK(DndTexts, DndSteps)' /\ AtRest'
  BY <1>1, <1>3, StepKeepsTypes, StepKeepsRest, StutterKeepsTypes DEF DndTypes
<1>5. DndInv'
  BY <1>1, <1>2, BarGoesOnStep, DndInvStep
<1>6. /\ BacklightTypeOK' /\ SpotifyTypeOK' /\ CpuTypeOK' /\ MemoryTypeOK'
      /\ CountdownTypeOK' /\ AudioTypeOK' /\ BluetoothTypeOK' /\ PulseTypeOK'
      /\ NetworkTypeOK' /\ VpnTypeOK' /\ ChoiceTypeOK'
  BY <1>2, TypesStay DEF BarInv, TypeOK, bluetoothVars, pulseVars
<1>7. /\ BacklightInv' /\ SpotifyInv' /\ CpuInv' /\ MemoryInv' /\ CountdownInv'
      /\ PulseInv'
  BY <1>2, OthersStay DEF BarInv
<1>8. command' = command
  BY <1>2 DEF choiceVars
<1> QED
  BY <1>3, <1>4, <1>5, <1>6, <1>7, <1>8 DEF BarInv, TypeOK, Vocabulary

LEMMA BacklightNext ==
  ASSUME BarInv, command = "dwm_backlight", [Next]_vars
  PROVE  BarInv'
<1>1. BacklightTypes /\ BacklightInv /\ AtRest /\ events \in 0 .. MaxEvents
      /\ command \in Commands /\ BacklightTypeOK
  BY DEF BarInv, TypeOK, Vocabulary, BacklightTypes, FunctionTypeOK
<1>2. /\ UNCHANGED <<choiceVars, dndVars, spotifyVars, cpuVars, memoryVars,
                   countdownVars, bluetoothVars, pulseVars, networkVars, vpnVars>>
      /\ \/ BacklightCommand \/ Sleeper \/ Tick \/ OthersRun
         \/ BarGoesOn /\ UNCHANGED backlightVars
  BY <1>1, NextIsOfOne DEF BarGoesOn, worldVars, pulseVars, bluetoothVars, OfDnd, OfBacklight, OfSpotify, OfCpu, OfMemory,
     OfCountdown, OfBluetooth, OfPulse, OfNetwork, OfVpn
<1>3. /\ CommandStep(BacklightTexts, BacklightSteps) \/ OutsideStep \/ BarStep \/ UNCHANGED barVars
      /\ BacklightTypeOK'
  <2>1. CASE BacklightCommand \/ Sleeper \/ Tick
    BY <1>1, <2>1, BacklightCommandStep, SleepersStep
  <2>2. CASE BarGoesOn /\ UNCHANGED backlightVars
    BY <1>1, <2>2, BarGoesOnStep, TypesStay DEF BacklightTypes
  <2>3. CASE OthersRun
    BY <1>1, <1>2, <2>3, BacklightOthersInv
  <2> QED
    BY <1>2, <2>1, <2>2, <2>3
<1>4. FunctionTypeOK(BacklightTexts, BacklightSteps)' /\ AtRest'
  BY <1>1, <1>3, StepKeepsTypes, StepKeepsRest, StutterKeepsTypes DEF BacklightTypes
<1>5. BacklightInv'
  <2>1. CASE BacklightCommand
    BY <1>1, <1>2, <2>1, BacklightRunInv
  <2>2. CASE Sleeper \/ Tick
    BY <1>1, <1>2, <2>2, BacklightSleepersInv
  <2>3. CASE BarGoesOn /\ UNCHANGED backlightVars
    BY <1>1, <1>2, <2>3, BacklightBarInv DEF BarGoesOn, Timed
  <2>4. CASE OthersRun
    BY <1>1, <1>2, <2>4, BacklightOthersInv
  <2> QED
    BY <1>2, <2>1, <2>2, <2>3, <2>4
<1>6. /\ DndTypeOK' /\ SpotifyTypeOK' /\ CpuTypeOK' /\ MemoryTypeOK'
      /\ CountdownTypeOK' /\ AudioTypeOK' /\ BluetoothTypeOK' /\ PulseTypeOK'
      /\ NetworkTypeOK' /\ VpnTypeOK' /\ ChoiceTypeOK'
  BY <1>2, TypesStay DEF BarInv, TypeOK, bluetoothVars, pulseVars
<1>7. /\ DndInv' /\ SpotifyInv' /\ CpuInv' /\ MemoryInv' /\ CountdownInv'
      /\ PulseInv'
  BY <1>2, OthersStay DEF BarInv
<1>8. command' = command
  BY <1>2 DEF choiceVars
<1> QED
  BY <1>3, <1>4, <1>5, <1>6, <1>7, <1>8 DEF BarInv, TypeOK, Vocabulary

LEMMA SpotifyNext ==
  ASSUME BarInv, command = "dwm_spotify", [Next]_vars
  PROVE  BarInv'
<1>1. SpotifyTypes /\ SpotifyInv /\ AtRest /\ events \in 0 .. MaxEvents
      /\ command \in Commands /\ BacklightTypeOK
  BY DEF BarInv, TypeOK, Vocabulary, SpotifyTypes, FunctionTypeOK
<1>2. /\ UNCHANGED <<choiceVars, dndVars, backlightVars, cpuVars, memoryVars,
                   countdownVars, bluetoothVars, pulseVars, networkVars, vpnVars>>
      /\ \/ SpotifyCommand \/ PlayerChanges \/ PlayerCloses
         \/ BarGoesOn /\ UNCHANGED spotifyVars
  BY <1>1, NextIsOfOne DEF BarGoesOn, worldVars, pulseVars, bluetoothVars, OfDnd, OfBacklight, OfSpotify, OfCpu, OfMemory,
     OfCountdown, OfBluetooth, OfPulse, OfNetwork, OfVpn
<1>3. /\ CommandStep(SpotifyTexts, SpotifySteps) \/ OutsideStep \/ BarStep \/ UNCHANGED barVars
      /\ SpotifyTypeOK'
  <2>1. CASE SpotifyCommand \/ PlayerChanges \/ PlayerCloses
    BY <1>1, <2>1, SpotifyCommandStep, PlayerChangesStep, PlayerClosesStep
  <2>2. CASE BarGoesOn /\ UNCHANGED spotifyVars
    BY <1>1, <2>2, BarGoesOnStep, TypesStay DEF SpotifyTypes
  <2> QED
    BY <1>2, <2>1, <2>2
<1>4. FunctionTypeOK(SpotifyTexts, SpotifySteps)' /\ AtRest'
  BY <1>1, <1>3, StepKeepsTypes, StepKeepsRest, StutterKeepsTypes DEF SpotifyTypes
<1>5. SpotifyInv'
  BY <1>1, <1>2, BarGoesOnStep, SpotifyInvStep
<1>6. /\ DndTypeOK' /\ BacklightTypeOK' /\ CpuTypeOK' /\ MemoryTypeOK'
      /\ CountdownTypeOK' /\ AudioTypeOK' /\ BluetoothTypeOK' /\ PulseTypeOK'
      /\ NetworkTypeOK' /\ VpnTypeOK' /\ ChoiceTypeOK'
  BY <1>2, TypesStay DEF BarInv, TypeOK, bluetoothVars, pulseVars
<1>7. /\ DndInv' /\ BacklightInv' /\ CpuInv' /\ MemoryInv' /\ CountdownInv'
      /\ PulseInv'
  BY <1>2, OthersStay DEF BarInv
<1>8. command' = command
  BY <1>2 DEF choiceVars
<1> QED
  BY <1>3, <1>4, <1>5, <1>6, <1>7, <1>8 DEF BarInv, TypeOK, Vocabulary

LEMMA CpuNext ==
  ASSUME BarInv, command = "dwm_cpu", [Next]_vars
  PROVE  BarInv'
<1>1. CpuTypes /\ CpuInv /\ AtRest /\ events \in 0 .. MaxEvents
      /\ command \in Commands /\ BacklightTypeOK
  BY DEF BarInv, TypeOK, Vocabulary, CpuTypes, FunctionTypeOK
<1>2. /\ UNCHANGED <<choiceVars, dndVars, backlightVars, spotifyVars, memoryVars,
                   countdownVars, bluetoothVars, pulseVars, networkVars, vpnVars>>
      /\ \/ CpuCommand \/ CpuEnvironment \/ TopCloses
         \/ BarGoesOn /\ UNCHANGED cpuVars
  BY <1>1, NextIsOfOne DEF BarGoesOn, worldVars, pulseVars, bluetoothVars, OfDnd, OfBacklight, OfSpotify, OfCpu, OfMemory,
     OfCountdown, OfBluetooth, OfPulse, OfNetwork, OfVpn
<1>3. /\ CommandStep(CpuTexts, CpuSteps) \/ OutsideStep \/ BarStep \/ UNCHANGED barVars
      /\ CpuTypeOK'
  <2>1. CASE CpuCommand \/ CpuEnvironment \/ TopCloses
    BY <1>1, <2>1, CpuCommandStep, CpuEnvironmentStep, TopClosesStep
  <2>2. CASE BarGoesOn /\ UNCHANGED cpuVars
    BY <1>1, <2>2, BarGoesOnStep, TypesStay DEF CpuTypes
  <2> QED
    BY <1>2, <2>1, <2>2
<1>4. FunctionTypeOK(CpuTexts, CpuSteps)' /\ AtRest'
  BY <1>1, <1>3, StepKeepsTypes, StepKeepsRest, StutterKeepsTypes DEF CpuTypes
<1>5. CpuInv'
  BY <1>1, <1>2, BarGoesOnStep, CpuInvStep
<1>6. /\ DndTypeOK' /\ BacklightTypeOK' /\ SpotifyTypeOK' /\ MemoryTypeOK'
      /\ CountdownTypeOK' /\ AudioTypeOK' /\ BluetoothTypeOK' /\ PulseTypeOK'
      /\ NetworkTypeOK' /\ VpnTypeOK' /\ ChoiceTypeOK'
  BY <1>2, TypesStay DEF BarInv, TypeOK, bluetoothVars, pulseVars
<1>7. /\ DndInv' /\ BacklightInv' /\ SpotifyInv' /\ MemoryInv' /\ CountdownInv'
      /\ PulseInv'
  BY <1>2, OthersStay DEF BarInv
<1>8. command' = command
  BY <1>2 DEF choiceVars
<1> QED
  BY <1>3, <1>4, <1>5, <1>6, <1>7, <1>8 DEF BarInv, TypeOK, Vocabulary

LEMMA MemoryNext ==
  ASSUME BarInv, command = "dwm_memory", [Next]_vars
  PROVE  BarInv'
<1>1. MemoryTypes /\ MemoryInv /\ AtRest /\ events \in 0 .. MaxEvents
      /\ command \in Commands /\ BacklightTypeOK
  BY DEF BarInv, TypeOK, Vocabulary, MemoryTypes, FunctionTypeOK
<1>2. /\ UNCHANGED <<choiceVars, dndVars, backlightVars, spotifyVars, cpuVars,
                   countdownVars, bluetoothVars, pulseVars, networkVars, vpnVars>>
      /\ \/ MemoryCommand \/ MemoryChanges \/ MemoryTopCloses
         \/ BarGoesOn /\ UNCHANGED memoryVars
  BY <1>1, NextIsOfOne DEF BarGoesOn, worldVars, pulseVars, bluetoothVars, OfDnd, OfBacklight, OfSpotify, OfCpu, OfMemory,
     OfCountdown, OfBluetooth, OfPulse, OfNetwork, OfVpn
<1>3. /\ CommandStep(MemoryTexts, MemorySteps) \/ OutsideStep \/ BarStep \/ UNCHANGED barVars
      /\ MemoryTypeOK'
  <2>1. CASE MemoryCommand \/ MemoryChanges \/ MemoryTopCloses
    BY <1>1, <2>1, MemoryCommandStep, MemoryChangesStep, MemoryTopClosesStep
  <2>2. CASE BarGoesOn /\ UNCHANGED memoryVars
    BY <1>1, <2>2, BarGoesOnStep, TypesStay DEF MemoryTypes
  <2> QED
    BY <1>2, <2>1, <2>2
<1>4. FunctionTypeOK(MemoryTexts, MemorySteps)' /\ AtRest'
  BY <1>1, <1>3, StepKeepsTypes, StepKeepsRest, StutterKeepsTypes DEF MemoryTypes
<1>5. MemoryInv'
  BY <1>1, <1>2, BarGoesOnStep, MemoryInvStep
<1>6. /\ DndTypeOK' /\ BacklightTypeOK' /\ SpotifyTypeOK' /\ CpuTypeOK'
      /\ CountdownTypeOK' /\ AudioTypeOK' /\ BluetoothTypeOK' /\ PulseTypeOK'
      /\ NetworkTypeOK' /\ VpnTypeOK' /\ ChoiceTypeOK'
  BY <1>2, TypesStay DEF BarInv, TypeOK, bluetoothVars, pulseVars
<1>7. /\ DndInv' /\ BacklightInv' /\ SpotifyInv' /\ CpuInv' /\ CountdownInv'
      /\ PulseInv'
  BY <1>2, OthersStay DEF BarInv
<1>8. command' = command
  BY <1>2 DEF choiceVars
<1> QED
  BY <1>3, <1>4, <1>5, <1>6, <1>7, <1>8 DEF BarInv, TypeOK, Vocabulary

LEMMA CountdownNext ==
  ASSUME BarInv, command = "dwm_countdown", [Next]_vars
  PROVE  BarInv'
<1>1. CountdownTypes /\ CountdownInv /\ AtRest /\ events \in 0 .. MaxEvents
      /\ command \in Commands /\ BacklightTypeOK
  BY DEF BarInv, TypeOK, Vocabulary, CountdownTypes, FunctionTypeOK
<1>2. /\ UNCHANGED <<choiceVars, dndVars, backlightVars, spotifyVars, cpuVars,
                   memoryVars, bluetoothVars, pulseVars, networkVars, vpnVars>>
      /\ \/ CountdownCommand \/ CountdownEnvironment
         \/ BarGoesOn /\ UNCHANGED countdownVars
  BY <1>1, NextIsOfOne DEF BarGoesOn, worldVars, pulseVars, bluetoothVars, OfDnd, OfBacklight, OfSpotify, OfCpu, OfMemory,
     OfCountdown, OfBluetooth, OfPulse, OfNetwork, OfVpn
<1>3. /\ CommandStep(CountdownTexts, CountdownSteps) \/ OutsideStep \/ BarStep \/ UNCHANGED barVars
      /\ CountdownTypeOK'
  <2>1. CASE CountdownCommand \/ CountdownEnvironment
    BY <1>1, <2>1, CountdownCommandStep, CountdownEnvironmentStep
  <2>2. CASE BarGoesOn /\ UNCHANGED countdownVars
    BY <1>1, <2>2, BarGoesOnStep, TypesStay DEF CountdownTypes
  <2> QED
    BY <1>2, <2>1, <2>2
<1>4. FunctionTypeOK(CountdownTexts, CountdownSteps)' /\ AtRest'
  BY <1>1, <1>3, StepKeepsTypes, StepKeepsRest, StutterKeepsTypes DEF CountdownTypes
<1>5. CountdownInv'
  BY <1>1, <1>2, BarGoesOnStep, CountdownInvStep
<1>6. /\ DndTypeOK' /\ BacklightTypeOK' /\ SpotifyTypeOK' /\ CpuTypeOK'
      /\ MemoryTypeOK' /\ AudioTypeOK' /\ BluetoothTypeOK' /\ PulseTypeOK'
      /\ NetworkTypeOK' /\ VpnTypeOK' /\ ChoiceTypeOK'
  BY <1>2, TypesStay DEF BarInv, TypeOK, bluetoothVars, pulseVars
<1>7. /\ DndInv' /\ BacklightInv' /\ SpotifyInv' /\ CpuInv' /\ MemoryInv'
      /\ PulseInv'
  BY <1>2, OthersStay DEF BarInv
<1>8. command' = command
  BY <1>2 DEF choiceVars
<1> QED
  BY <1>3, <1>4, <1>5, <1>6, <1>7, <1>8 DEF BarInv, TypeOK, Vocabulary

LEMMA BluetoothNext ==
  ASSUME BarInv, command = "dwm_bluetooth", [Next]_vars
  PROVE  BarInv'
<1>1. BluetoothTypes /\ AtRest /\ events \in 0 .. MaxEvents
      /\ command \in Commands /\ BacklightTypeOK
  BY DEF BarInv, TypeOK, Vocabulary, BluetoothTypes, FunctionTypeOK
<1>2. /\ UNCHANGED <<choiceVars, dndVars, backlightVars, spotifyVars, cpuVars,
                   memoryVars, countdownVars, unseen, networkVars, vpnVars>>
      /\ \/ BluetoothCommand \/ BluetoothctlCloses \/ WatcherPokes \/ OthersPoke
         \/ WatcherStarts \/ DeviceChanges \/ DeviceSoundChanges
         \/ BarGoesOn /\ UNCHANGED bluetoothVars
  BY <1>1, NextIsOfOne DEF BarGoesOn, worldVars, pulseVars, bluetoothVars, OfDnd, OfBacklight, OfSpotify, OfCpu, OfMemory,
     OfCountdown, OfBluetooth, OfPulse, OfNetwork, OfVpn
<1>3. /\ CommandStep(BluetoothTexts, BluetoothSteps) \/ OutsideStep \/ BarStep \/ UNCHANGED barVars
      /\ AudioTypeOK'
      /\ BluetoothTypeOK'
  <2>1. CASE BluetoothCommand \/ BluetoothctlCloses \/ WatcherPokes \/ OthersPoke
             \/ WatcherStarts \/ DeviceChanges \/ DeviceSoundChanges
    BY <1>1, <2>1, BluetoothCommandStep, BluetoothctlClosesStep, DevicesStep
  <2>2. CASE BarGoesOn /\ UNCHANGED bluetoothVars
    BY <1>1, <2>2, BarGoesOnStep, TypesStay DEF BluetoothTypes, bluetoothVars
  <2> QED
    BY <1>2, <2>1, <2>2
<1>4. FunctionTypeOK(BluetoothTexts, BluetoothSteps)' /\ AtRest'
  BY <1>1, <1>3, StepKeepsTypes, StepKeepsRest, StutterKeepsTypes DEF BluetoothTypes
<1>6. /\ DndTypeOK' /\ BacklightTypeOK' /\ SpotifyTypeOK' /\ CpuTypeOK'
      /\ MemoryTypeOK' /\ CountdownTypeOK' /\ PulseTypeOK' /\ NetworkTypeOK'
      /\ VpnTypeOK' /\ ChoiceTypeOK'
  BY <1>2, TypesStay DEF BarInv, TypeOK, bluetoothVars, pulseVars
<1>7. /\ DndInv' /\ BacklightInv' /\ SpotifyInv' /\ CpuInv' /\ MemoryInv'
      /\ CountdownInv' /\ PulseInv'
  BY <1>2, OthersStay DEF BarInv
<1>8. command' = command
  BY <1>2 DEF choiceVars
<1> QED
  BY <1>3, <1>4, <1>6, <1>7, <1>8 DEF BarInv, TypeOK, Vocabulary

LEMMA PulseNext ==
  ASSUME BarInv, command = "dwm_pulse", [Next]_vars
  PROVE  BarInv'
<1>1. PulseTypes /\ PulseInv /\ AtRest /\ events \in 0 .. MaxEvents
      /\ command \in Commands /\ BacklightTypeOK
  BY DEF BarInv, TypeOK, Vocabulary, PulseTypes, FunctionTypeOK
<1>2. /\ UNCHANGED <<choiceVars, dndVars, backlightVars, spotifyVars, cpuVars,
                   memoryVars, countdownVars, listed, watcherVars, networkVars, vpnVars>>
      /\ \/ PulseCommand \/ PulseChanges \/ PavucontrolCloses
         \/ BarGoesOn /\ UNCHANGED pulseVars
  BY <1>1, NextIsOfOne DEF BarGoesOn, worldVars, pulseVars, bluetoothVars, OfDnd, OfBacklight, OfSpotify, OfCpu, OfMemory,
     OfCountdown, OfBluetooth, OfPulse, OfNetwork, OfVpn
<1>3. /\ CommandStep(PulseTexts, PulseSteps) \/ OutsideStep \/ BarStep \/ UNCHANGED barVars
      /\ AudioTypeOK'
      /\ PulseTypeOK'
  <2>1. CASE PulseCommand \/ PulseChanges \/ PavucontrolCloses
    BY <1>1, <2>1, PulseCommandStep, PulseChangesStep, PavucontrolClosesStep
  <2>2. CASE BarGoesOn /\ UNCHANGED pulseVars
    BY <1>1, <2>2, BarGoesOnStep, TypesStay DEF PulseTypes, pulseVars
  <2> QED
    BY <1>2, <2>1, <2>2
<1>4. FunctionTypeOK(PulseTexts, PulseSteps)' /\ AtRest'
  BY <1>1, <1>3, StepKeepsTypes, StepKeepsRest, StutterKeepsTypes DEF PulseTypes
<1>5. PulseInv'
  BY <1>1, <1>2, BarGoesOnStep, PulseInvStep DEF Timed
<1>6. /\ DndTypeOK' /\ BacklightTypeOK' /\ SpotifyTypeOK' /\ CpuTypeOK'
      /\ MemoryTypeOK' /\ CountdownTypeOK' /\ BluetoothTypeOK'
      /\ NetworkTypeOK' /\ VpnTypeOK' /\ ChoiceTypeOK'
  BY <1>2, TypesStay DEF BarInv, TypeOK, bluetoothVars, pulseVars
<1>7. /\ DndInv' /\ BacklightInv' /\ SpotifyInv' /\ CpuInv' /\ MemoryInv'
      /\ CountdownInv'
  BY <1>2, OthersStay DEF BarInv
<1>8. command' = command
  BY <1>2 DEF choiceVars
<1> QED
  BY <1>3, <1>4, <1>5, <1>6, <1>7, <1>8 DEF BarInv, TypeOK, Vocabulary

LEMMA NetworkNext ==
  ASSUME BarInv, command = "dwm_systemd_networkd", [Next]_vars
  PROVE  BarInv'
<1>1. NetworkTypes /\ AtRest /\ events \in 0 .. MaxEvents
      /\ command \in Commands /\ BacklightTypeOK
  BY DEF BarInv, TypeOK, Vocabulary, NetworkTypes, FunctionTypeOK
<1>2. /\ UNCHANGED <<choiceVars, dndVars, backlightVars, spotifyVars, cpuVars,
                   memoryVars, countdownVars, bluetoothVars, pulseVars, vpnVars>>
      /\ \/ NetworkCommand \/ NetChanges \/ IwctlCloses
         \/ BarGoesOn /\ UNCHANGED networkVars
  BY <1>1, NextIsOfOne DEF BarGoesOn, worldVars, pulseVars, bluetoothVars, OfDnd, OfBacklight, OfSpotify, OfCpu, OfMemory,
     OfCountdown, OfBluetooth, OfPulse, OfNetwork, OfVpn
<1>3. /\ CommandStep(NetworkTexts, NetworkSteps) \/ OutsideStep \/ BarStep \/ UNCHANGED barVars
      /\ NetworkTypeOK'
  <2>1. CASE NetworkCommand \/ NetChanges \/ IwctlCloses
    BY <1>1, <2>1, NetworkCommandStep, NetworkOutsideStep
  <2>2. CASE BarGoesOn /\ UNCHANGED networkVars
    BY <1>1, <2>2, BarGoesOnStep, TypesStay DEF NetworkTypes
  <2> QED
    BY <1>2, <2>1, <2>2
<1>4. FunctionTypeOK(NetworkTexts, NetworkSteps)' /\ AtRest'
  BY <1>1, <1>3, StepKeepsTypes, StepKeepsRest, StutterKeepsTypes DEF NetworkTypes
<1>6. /\ DndTypeOK' /\ BacklightTypeOK' /\ SpotifyTypeOK' /\ CpuTypeOK'
      /\ MemoryTypeOK' /\ CountdownTypeOK' /\ AudioTypeOK' /\ BluetoothTypeOK'
      /\ PulseTypeOK' /\ VpnTypeOK' /\ ChoiceTypeOK'
  BY <1>2, TypesStay DEF BarInv, TypeOK, bluetoothVars, pulseVars
<1>7. /\ DndInv' /\ BacklightInv' /\ SpotifyInv' /\ CpuInv' /\ MemoryInv'
      /\ CountdownInv' /\ PulseInv'
  BY <1>2, OthersStay DEF BarInv
<1>8. command' = command
  BY <1>2 DEF choiceVars
<1> QED
  BY <1>3, <1>4, <1>6, <1>7, <1>8 DEF BarInv, TypeOK, Vocabulary

LEMMA VpnNext ==
  ASSUME BarInv, command = "dwm_vpn", [Next]_vars
  PROVE  BarInv'
<1>1. VpnTypes /\ AtRest /\ events \in 0 .. MaxEvents
      /\ command \in Commands /\ BacklightTypeOK
  BY DEF BarInv, TypeOK, Vocabulary, VpnTypes, FunctionTypeOK
<1>2. /\ UNCHANGED <<choiceVars, dndVars, backlightVars, spotifyVars, cpuVars,
                   memoryVars, countdownVars, bluetoothVars, pulseVars, networkVars>>
      /\ \/ VpnCommand \/ VpnChanges
         \/ BarGoesOn /\ UNCHANGED vpnVars
  BY <1>1, NextIsOfOne DEF BarGoesOn, worldVars, pulseVars, bluetoothVars, OfDnd, OfBacklight, OfSpotify, OfCpu, OfMemory,
     OfCountdown, OfBluetooth, OfPulse, OfNetwork, OfVpn
<1>3. /\ CommandStep(VpnTexts, VpnSteps) \/ OutsideStep \/ BarStep \/ UNCHANGED barVars
      /\ VpnTypeOK'
  <2>1. CASE VpnCommand \/ VpnChanges
    BY <1>1, <2>1, VpnCommandStep, VpnChangesStep
  <2>2. CASE BarGoesOn /\ UNCHANGED vpnVars
    BY <1>1, <2>2, BarGoesOnStep, TypesStay DEF VpnTypes
  <2> QED
    BY <1>2, <2>1, <2>2
<1>4. FunctionTypeOK(VpnTexts, VpnSteps)' /\ AtRest'
  BY <1>1, <1>3, StepKeepsTypes, StepKeepsRest, StutterKeepsTypes DEF VpnTypes
<1>6. /\ DndTypeOK' /\ BacklightTypeOK' /\ SpotifyTypeOK' /\ CpuTypeOK'
      /\ MemoryTypeOK' /\ CountdownTypeOK' /\ AudioTypeOK' /\ BluetoothTypeOK'
      /\ PulseTypeOK' /\ NetworkTypeOK' /\ ChoiceTypeOK'
  BY <1>2, TypesStay DEF BarInv, TypeOK, bluetoothVars, pulseVars
<1>7. /\ DndInv' /\ BacklightInv' /\ SpotifyInv' /\ CpuInv' /\ MemoryInv'
      /\ CountdownInv' /\ PulseInv'
  BY <1>2, OthersStay DEF BarInv
<1>8. command' = command
  BY <1>2 DEF choiceVars
<1> QED
  BY <1>3, <1>4, <1>6, <1>7, <1>8 DEF BarInv, TypeOK, Vocabulary


LEMMA NextKeepsInv ==
  ASSUME BarInv, [Next]_vars
  PROVE  BarInv'
<1>1. command \in Replaced \cup ScriptOnly
  BY BarFunctionsAssumption DEF BarInv
<1> QED
  BY <1>1, DndNext, BacklightNext, SpotifyNext, CpuNext, MemoryNext, CountdownNext,
     BluetoothNext, PulseNext, NetworkNext, VpnNext
     DEF Replaced, ScriptOnly

-------------------------------------------------------------------------------
(* The start.                                                              *)

\* What is outside at the start is one of the states it may be in.
LEMMA OutsideIsOne ==
  ASSUME NEW name, NEW states, states # {}, NEW s \in Outside(name, states)
  PROVE  s \in states
BY DEF Outside

LEMMA StartTypes ==
  ASSUME Init
  PROVE  TypeOK /\ command \in Commands
<1>c. command \in Commands /\ command \in Replaced \cup ScriptOnly
  BY BarFunctionsAssumption DEF Init, ChoiceInit
<1>p. program \in {"C", "sh"}
  BY BarFunctionsAssumption DEF Init, ChoiceInit
<1>1. ASSUME NEW Texts, NEW Steps
      PROVE  FunctionTypeOK(Texts, Steps)
  <2>1. /\ requests = <<>> /\ running = TRUE /\ button = NoButton /\ finished = FALSE
        /\ printed = Nothing /\ shown = Nothing /\ at = "begin" /\ events = 0
    BY DEF Init, ChoiceInit
  <2>2. SlotTypeOK(Texts)
    <3>1. running \in BOOLEAN /\ finished \in BOOLEAN
      BY <2>1, Zenon
    <3>2. requests \in Seq(Buttons \cup {NoButton})
      BY <2>1
    <3>3. /\ button \in Buttons \cup {NoButton}
          /\ printed \in Texts \cup {Nothing, Failure}
          /\ shown \in Texts \cup {Nothing}
      BY <2>1, Zenon
    <3> QED
      BY <3>1, <3>2, <3>3, Zenon DEF SlotTypeOK
  <2>3. events \in 0 .. MaxEvents
    BY <2>1, BarFunctionAssumption
  <2> QED
    BY <2>1, <2>2, <2>3 DEF FunctionTypeOK
<1>2. Vocabulary
  BY <1>1, <1>c DEF Vocabulary, Replaced, ScriptOnly
<1>3. DndTypeOK /\ VpnTypeOK /\ PulseTypeOK
  <2>1. DndTypeOK
    BY DEF Init, DndInit, DndTypeOK
  <2>2. tun0 \in BOOLEAN /\ openvpn = 0 /\ unseen \in BOOLEAN
    BY Zenon DEF Init, VpnInit, PulseInit
  <2> QED
    BY <2>1, <2>2 DEF VpnTypeOK, PulseTypeOK
<1>4. BacklightTypeOK
  <2>1. bright \in Levels
    BY BacklightAssumption, OutsideIsOne DEF Init, BacklightInit
  <2> QED
    <3>1. bright \in 0 .. 100
      BY <2>1, BacklightAssumption
    <3>2. show_flag \in BOOLEAN /\ own \in BOOLEAN /\ plain \in BOOLEAN
      BY Zenon DEF Init, BacklightInit
    <3>3. sleepers = <<>> /\ ~own
      BY DEF Init, BacklightInit
    <3> QED
      BY <3>1, <3>2, <3>3 DEF BacklightTypeOK
<1>5. SpotifyTypeOK
  BY DEF Init, SpotifyInit, SpotifyTypeOK, NoAnswer
<1>6. CpuTypeOK
  BY DEF Init, CpuInit, CpuTypeOK, Snapshots, NoSnapshot
<1>7. MemoryTypeOK
  <2>1. avail \in Available
    BY MemoryAssumption, OutsideIsOne DEF Init, MemoryInit
  <2>2. on_battery \in BOOLEAN
    BY OutsideIsOne DEF Init, MemoryInit
  <2> QED
    BY <2>1, <2>2, MemoryAssumption DEF Init, MemoryInit, MemoryTypeOK
<1>8. CountdownTypeOK
  BY DEF Init, CountdownInit, CountdownTypeOK
<1>9. AudioTypeOK
  <2>1. volume \in Volumes
    BY AudioAssumption, OutsideIsOne DEF Init, AudioInit
  <2>2. heard \in -1 .. 100 /\ sink \in Sinks /\ connected \subseteq Devices
    BY DEF Init, AudioInit, Sinks
  <2> QED
    BY <2>1, <2>2, AudioAssumption DEF Init, AudioInit, AudioTypeOK
<1>10. BluetoothTypeOK
  <2>1. listening \in BOOLEAN
    BY OutsideIsOne DEF Init, BluetoothInit
  <2> QED
    BY <2>1 DEF Init, BluetoothInit, BluetoothTypeOK
<1>11. NetworkTypeOK
  <2>1. net \in NetStates
    BY NetworkAssumption, OutsideIsOne DEF Init, NetworkInit
  <2> QED
    <3>1. found = "none" /\ strength = -1
      BY DEF Init, NetworkInit
    <3>2. internet \in BOOLEAN
      BY Zenon DEF Init, NetworkInit
    <3> QED
      BY <2>1, <3>1, <3>2 DEF NetworkTypeOK
<1> QED
  BY <1>c, <1>p, <1>2, <1>3, <1>4, <1>5, <1>6, <1>7, <1>8, <1>9, <1>10, <1>11
     DEF TypeOK, ChoiceTypeOK

LEMMA StartInv ==
  ASSUME Init
  PROVE  BarInv
<1>1. /\ at = "begin" /\ running /\ ~finished /\ command \in Commands
      /\ requests = <<>> /\ printed = Nothing
  BY DEF Init, ChoiceInit
<1>2. AtRest
  BY <1>1 DEF AtRest
<1>3. DndInv
  BY <1>1 DEF Init, DndInit, DndInv, Running
<1>4. BacklightInv
  BY <1>1 DEF Init, BacklightInit, BacklightInv, FlagWatched, IconIsRight, PercentageGoes, LineIsRight,
              BarIsRight, Running
<1>5. SpotifyInv /\ MemoryInv
  BY <1>1 DEF SpotifyInv, MemoryInv, Running
<1>6. CpuInv
  <2>1. stat_file = NoSnapshot /\ stat = NoSnapshot /\ previous = NoSnapshot /\ other = NoSnapshot
    BY DEF Init, CpuInit
  <2>2. IsSnapshot(NoSnapshot)
    BY NowIsSnapshot DEF Init, CpuInit
  <2> QED
    BY <1>1, <2>1, <2>2 DEF CpuInv, LoadIsReal
<1>7. CountdownInv
  BY <1>1 DEF Init, CountdownInit, CountdownInv, Existing, Running
<1>8. PulseInv
  BY <1>1 DEF PulseInv, Running
<1> QED
  BY <1>1, <1>2, <1>3, <1>4, <1>5, <1>6, <1>7, <1>8, StartTypes DEF BarInv

-------------------------------------------------------------------------------
(* The theorems.                                                           *)

\* The invariant of all commands: the types, and what the runs, the files and
\* the processes that they leave behind have to do with each other.
THEOREM BarInvariant == Spec => []BarInv
<1>1. Init => BarInv
  BY StartInv
<1>2. BarInv /\ [Next]_vars => BarInv'
  BY NextKeepsInv
<1> QED
  BY <1>1, <1>2, PTL DEF Spec

\* Whatever a command prints is one of its texts, it is at one of its own steps,
\* and what it reads and changes outside stays what it can be.
THEOREM CommandTypesCorrect == Spec => []TypeOK
<1>1. BarInv => TypeOK
  BY DEF BarInv
<1> QED
  BY <1>1, BarInvariant, PTL

\* dwm_do_not_disturb: between runs the file with the end time of a pause exists
\* only during a pause, as long as dunst obeys, whatever is clicked in which order.
THEOREM EndFileGoes == Spec => []FileOnlyWhilePaused
<1>1. BarInv => FileOnlyWhilePaused
  BY DEF BarInv, DndInv, FileOnlyWhilePaused, AtRest, Running
<1> QED
  BY <1>1, BarInvariant, PTL

\* dwm_backlight: at rest, when no process sleeps any more, the flag has gone and the
\* icon is that of the brightness, however many clicks there were, whoever else had
\* the block run, and whichever of the signals were dropped; and the percentage has
\* gone, if nobody but the clicks and their processes had it run.
THEOREM BacklightComesRight == Spec => []BacklightSettles
<1>1. BarInv => BacklightSettles
  BY DEF BarInv, TypeOK, BacklightTypeOK, BacklightInv, BacklightSettles, FlagWatched,
         IconIsRight, BarIsRight, Running
<1> QED
  BY <1>1, BarInvariant, PTL

\* dwm_cpu: the percentage is the load of a real interval, the one that ends when
\* the run looked, whatever another bar does to the file of the snapshots.
THEOREM CpuLoadIsReal == Spec => []LoadIsReal
<1>1. BarInv => LoadIsReal
  BY DEF BarInv, CpuInv, LoadIsReal
<1> QED
  BY <1>1, BarInvariant, PTL

\* dwm_countdown: between runs there is no file of a countdown whose process has
\* ended, as long as there is one countdown at a time.
THEOREM CountdownCancelled == Spec => []CancelledIsGone
<1>1. BarInv => CancelledIsGone
  BY DEF BarInv, CountdownInv, CancelledIsGone, Running
<1> QED
  BY <1>1, BarInvariant, PTL

\* dwm_pulse: at rest the block shows the sound as it is, unless others have changed
\* it since the last run looked at it.
THEOREM PulseComesRight == Spec => []PulseSettles
<1>1. BarInv => PulseSettles
  BY DEF BarInv, PulseInv, PulseSettles
<1> QED
  BY <1>1, BarInvariant, PTL
===============================================================================
