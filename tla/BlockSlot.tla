------------------------------ MODULE BlockSlot -------------------------------
(***************************************************************************)
(* One block of the bar as the command behind it sees it: requests for it  *)
(* queue as realtime signals, each with a mouse button or none; one that   *)
(* is read while no run is in progress starts the command, and one that is *)
(* read during a run is dropped; the first line of a run is shown when the *)
(* program collects it.                                                    *)
(*                                                                         *)
(* The queue and the pipe are served in any order: in one round of the     *)
(* event loop a signal comes before the pipes, but it is the pending one   *)
(* with the lowest number, and the block's own may have to wait.  That the *)
(* event loop implements SlotSpec is checked there.                        *)
(***************************************************************************)
EXTENDS Naturals, Sequences

CONSTANTS Buttons,  \* the mouse buttons that are used on the block
          Nothing,  \* the text of a run that printed no line
          Failure   \* in place of a text: the command failed

VARIABLES
  requests,  \* the buttons of the signals not yet read
  running,   \* whether the command has been started and is not collected
  button,    \* BLOCK_BUTTON of the run in progress, NoButton when unset
  finished,  \* whether the command of that run has exited
  printed,   \* what it has printed
  shown      \* what the bar shows for the block

slotVars == <<requests, running, button, finished, printed, shown>>

NoButton == 0

SlotTypeOK(Texts) ==
  /\ requests \in Seq(Buttons \cup {NoButton})
  /\ running \in BOOLEAN
  /\ button \in Buttons \cup {NoButton}
  /\ finished \in BOOLEAN
  /\ printed \in Texts \cup {Nothing, Failure}
  /\ shown \in Texts \cup {Nothing}

SlotInit ==
  /\ requests = <<>>
  /\ running = FALSE
  /\ button = NoButton
  /\ finished = FALSE
  /\ printed = Nothing
  /\ shown = Nothing

\* A signal for the block is raised: a click in the bar, or anyone's pkill.
Request(btn) == requests' = Append(requests, btn)

StartWith(btn) ==
  /\ ~running
  /\ running' = TRUE
  /\ button' = btn
  /\ UNCHANGED <<finished, printed, shown>>

\* The program reads the next request and starts the command.
Serve ==
  /\ requests # <<>>
  /\ StartWith(Head(requests))
  /\ requests' = Tail(requests)

\* The program reads it during a run: block_execute() does nothing.  A request
\* whose fork() fails is gone in the same way.
Drop ==
  /\ requests # <<>>
  /\ requests' = Tail(requests)
  /\ UNCHANGED <<running, button, finished, printed, shown>>

DropBusy == running /\ Drop

\* A timer event that finds the block due, or a refresh of all blocks.
TimedRun == StartWith(NoButton) /\ UNCHANGED requests

\* The command exits; called in its last step.
Finish(text) ==
  /\ finished' = TRUE
  /\ printed' = text

\* The program reads the line, collects the child and updates the bar, unless the
\* child failed.
Collect ==
  /\ running
  /\ finished
  /\ running' = FALSE
  /\ finished' = FALSE
  /\ button' = NoButton
  /\ printed' = Nothing
  /\ shown' = IF printed = Failure THEN shown ELSE printed
  /\ UNCHANGED requests

-------------------------------------------------------------------------------
(* The slot with any command, as a specification.                          *)

SlotRequest(btn) ==
  Request(btn) /\ UNCHANGED <<running, button, finished, printed, shown>>

SlotFinish(text) ==
  /\ running
  /\ ~finished
  /\ Finish(text)
  /\ UNCHANGED <<requests, running, button, shown>>

SlotNext(Texts) ==
  \/ \E btn \in Buttons \cup {NoButton} : SlotRequest(btn)
  \/ Serve \/ Drop \/ TimedRun
  \/ \E text \in Texts \cup {Failure} : SlotFinish(text)
  \/ Collect

SlotSpec(Texts) == SlotInit /\ [][SlotNext(Texts)]_slotVars
===============================================================================
