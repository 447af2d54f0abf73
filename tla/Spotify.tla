------------------------------- MODULE Spotify --------------------------------
(***************************************************************************)
(* The Spotify block: its command (dwm_spotify.c, and the shell script of  *)
(* the same name) asks the players for their properties, one after the     *)
(* other, shows those of the first that answers, and does to that player   *)
(* what the click asks for.  Between two calls players come, go and play.  *)
(***************************************************************************)
EXTENDS BarCommand

CONSTANT Installed  \* the players that may run

Players == {"spotify_player", "spotify", "spotifyd"}

ASSUME SpotifyAssumption == Installed \subseteq Players

VARIABLES
  player,  \* the state of each player
  asked,   \* how many players have been asked, without an answer
  answer   \* what the last GetAll returned

spotifyVars == <<player, asked, answer>>

\* Two songs are enough to tell the next or previous one from this one.
Songs == {0, 1}
OtherSong(song) == 1 - song

\* "": the player answers without a PlaybackStatus.
Statuses == {"Playing", "Paused", ""}

States == [status : Statuses, song : Songs]

\* The player is not on the bus.
Absent == [status |-> "absent", song |-> 0]

NoAnswer == Absent

SpotifySteps == {"ask", "click", "window", "print"}

\* The icon, one for playing and one for the rest, and the song of a player.
SpotifyTexts == BOOLEAN \X Players \X Songs

SpotifyTypeOK ==
  /\ player \in [Players -> States \cup {Absent}]
  /\ asked \in 0 .. 3
  /\ answer \in States \cup {NoAnswer}

SpotifyInit ==
  /\ player = [p \in Players |-> Absent]
  /\ asked = 0
  /\ answer = NoAnswer

\* The array players of the C program, and the list of the script.
Order == IF Shell THEN <<"spotify", "spotifyd", "spotify_player">>
         ELSE <<"spotify_player", "spotify", "spotifyd">>

\* get_all() takes an answer without a status for none, the script takes any.
Answers(p) == player[p] # Absent /\ (Shell \/ player[p].status # "")

-------------------------------------------------------------------------------
(* The command.                                                            *)

\* C: sd_bus_open_user() fails, now and then.
NoUserBus ==
  /\ ~Shell
  /\ "bus" \in Faults
  /\ Running("begin")
  /\ Happens
  /\ at' = "idle"
  /\ Finish(Nothing)
  /\ UNCHANGED <<requests, running, button, shown, spotifyVars>>

OpenUserBus ==
  /\ Running("begin")
  /\ Goes("ask")
  /\ UNCHANGED spotifyVars

GetAll ==
  /\ Running("ask")
  /\ asked < Len(Order)
  /\ LET p == Order[asked + 1]
     IN  IF Answers(p)
           THEN answer' = player[p] /\ Goes("click") /\ UNCHANGED asked
           ELSE asked' = asked + 1 /\ Goes("ask") /\ UNCHANGED answer
  /\ UNCHANGED player

NoPlayer ==
  /\ Running("ask")
  /\ asked = Len(Order)
  /\ Ends(Nothing)
  /\ asked' = 0
  /\ UNCHANGED <<player, answer>>

Dest == Order[asked + 1]

\* What PlayPause, Next and Previous make of a player; one that has gone does not
\* hear it.
Told(s) ==
  IF s = Absent THEN Absent
  ELSE IF button = 1
    THEN [s EXCEPT !.status = IF s.status = "Playing" THEN "Paused" ELSE "Playing"]
    ELSE [s EXCEPT !.song = OtherSong(s.song)]

CallMethod ==
  /\ Running("click")
  /\ button \in {1, 3, 4, 5}
  /\ player' = [player EXCEPT ![Dest] = Told(@)]
  /\ Goes("print")
  /\ UNCHANGED <<asked, answer>>

\* The terminal with spotify_player, which the command waits for.
OpenPlayer ==
  /\ Running("click")
  /\ button = 2
  /\ Goes("window")
  /\ UNCHANGED spotifyVars

PlayerCloses ==
  /\ WindowOpen
  /\ Goes("print")
  /\ UNCHANGED spotifyVars

NoMethod ==
  /\ Running("click")
  /\ button = NoButton
  /\ Goes("print")
  /\ UNCHANGED spotifyVars

\* What was fetched before the click is printed.
PrintSong ==
  /\ Running("print")
  /\ Ends(<<answer.status = "Playing", Dest, answer.song>>)
  /\ asked' = 0
  /\ answer' = NoAnswer
  /\ UNCHANGED player

SpotifyCommand ==
  \/ NoUserBus \/ OpenUserBus
  \/ GetAll \/ NoPlayer
  \/ CallMethod \/ OpenPlayer \/ NoMethod
  \/ PrintSong

-------------------------------------------------------------------------------
(* The players: they start, stop, play and go on to another song.          *)

PlayerChanges ==
  /\ Happens
  /\ \E p \in Installed : \E new \in States \cup {Absent} :
       /\ new # player[p]
       /\ player' = [player EXCEPT ![p] = new]
  /\ UNCHANGED <<slotVars, at, asked, answer>>

-------------------------------------------------------------------------------

\* What there is to see: the first player that has something to say.
SpotifyView ==
  IF \A p \in Players : ~Answers(p) THEN Nothing
  ELSE LET first == CHOOSE i \in 1 .. 3 :
                      Answers(Order[i]) /\ \A j \in 1 .. i - 1 : ~Answers(Order[j])
           p == Order[first]
       IN  <<player[p].status = "Playing", p, player[p].song>>
===============================================================================
