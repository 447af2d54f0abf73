--------------------------- MODULE BarFunctionProofs --------------------------
(***************************************************************************)
(* Lemmas about what the commands of the blocks have in common: every step *)
(* of BarFunction keeps the types, whatever the texts and the steps of the *)
(* command are.                                                            *)
(***************************************************************************)
EXTENDS BarFunction, WellFoundedInduction, TLAPS

LEMMA SlotStart ==
  ASSUME NEW Texts, NEW Steps, SlotInit, at \in Steps \cup {"idle", "begin"}, events = 0
  PROVE  FunctionTypeOK(Texts, Steps)
<1>1. 0 \in 0 .. MaxEvents
  BY BarFunctionAssumption
<1>2. requests \in Seq(Buttons \cup {NoButton})
  BY DEF SlotInit
<1> QED
  BY <1>1, <1>2 DEF SlotInit, FunctionTypeOK, SlotTypeOK

\* The steps of the command.

LEMMA GoesKeepsTypes ==
  ASSUME NEW Texts, NEW Steps, NEW step \in Steps \cup {"idle", "begin"},
         FunctionTypeOK(Texts, Steps), Goes(step)
  PROVE  FunctionTypeOK(Texts, Steps)'
BY DEF FunctionTypeOK, SlotTypeOK, Goes, slotVars

LEMMA EndsKeepsTypes ==
  ASSUME NEW Texts, NEW Steps, NEW text \in Texts \cup {Nothing, Failure},
         FunctionTypeOK(Texts, Steps), Ends(text)
  PROVE  FunctionTypeOK(Texts, Steps)'
BY DEF FunctionTypeOK, SlotTypeOK, Ends, Finish

LEMMA SignalsKeepsTypes ==
  ASSUME NEW Texts, NEW Steps, FunctionTypeOK(Texts, Steps), Signals,
         at' \in Steps \cup {"idle", "begin"}
  PROVE  FunctionTypeOK(Texts, Steps)'
BY DEF FunctionTypeOK, SlotTypeOK, Signals, Request

\* The steps of the bar and of the user.

\* What happens outside is counted up to the bound.
LEMMA HappensKeepsBound ==
  ASSUME events \in 0 .. MaxEvents, Happens
  PROVE  events' \in 0 .. MaxEvents
BY BarFunctionAssumption DEF Happens

LEMMA BarKeepsTypes ==
  ASSUME NEW Texts, NEW Steps, FunctionTypeOK(Texts, Steps),
         Serves \/ TimedRuns \/ Refreshes \/ Drops \/ Collects
  PROVE  FunctionTypeOK(Texts, Steps)'
<1>1. CASE Serves
  BY <1>1 DEF FunctionTypeOK, SlotTypeOK, Serves, Serve, StartWith
<1>2. CASE TimedRuns
  BY <1>2 DEF FunctionTypeOK, SlotTypeOK, TimedRuns, Refreshes, TimedRun, StartWith
<1>3. CASE Drops
  BY <1>3 DEF FunctionTypeOK, SlotTypeOK, Drops, DropBusy, Drop
<1>4. CASE Collects
  BY <1>4 DEF FunctionTypeOK, SlotTypeOK, Collects, Collect
<1>5. CASE Refreshes
  <2>1. events' \in 0 .. MaxEvents
    BY <1>5, HappensKeepsBound DEF Refreshes, FunctionTypeOK
  <2> QED
    BY <1>5, <2>1 DEF FunctionTypeOK, SlotTypeOK, Refreshes, TimedRun, StartWith
<1> QED
  BY <1>1, <1>2, <1>3, <1>4, <1>5

LEMMA OutsideKeepsTypes ==
  ASSUME NEW Texts, NEW Steps, FunctionTypeOK(Texts, Steps), Happens,
         UNCHANGED <<slotVars, at>>
  PROVE  FunctionTypeOK(Texts, Steps)'
BY HappensKeepsBound DEF FunctionTypeOK, SlotTypeOK, slotVars

LEMMA ClicksKeepsTypes ==
  ASSUME NEW Texts, NEW Steps, NEW used,
         used \subseteq Buttons \cup {NoButton},
         FunctionTypeOK(Texts, Steps), Clicks(used)
  PROVE  FunctionTypeOK(Texts, Steps)'
<1>1. events' \in 0 .. MaxEvents
  BY HappensKeepsBound DEF Clicks, FunctionTypeOK
<1>2. PICK btn \in used : SlotRequest(btn)
  BY DEF Clicks
<1> QED
  BY <1>1, <1>2 DEF FunctionTypeOK, SlotTypeOK, Clicks, SlotRequest, Request

LEMMA StutterKeepsTypes ==
  ASSUME NEW Texts, NEW Steps, FunctionTypeOK(Texts, Steps), UNCHANGED barVars
  PROVE  FunctionTypeOK(Texts, Steps)'
BY DEF FunctionTypeOK, SlotTypeOK, barVars, slotVars

-------------------------------------------------------------------------------
(* The same for whole steps, whatever command it is.                       *)

\* What a step of a command does to the block.
CommandStep(Texts, Steps) ==
  /\ running /\ ~finished
  /\ UNCHANGED <<running, button, shown>>
  /\ events' \in 0 .. MaxEvents
  /\ UNCHANGED requests \/ Request(NoButton)
  /\ \/ at' \in Steps /\ UNCHANGED <<finished, printed>>
     \/ at' = "idle" /\ \E text \in Texts \cup {Nothing, Failure} : Finish(text)

\* What happens outside, clicks included.
OutsideStep ==
  /\ UNCHANGED <<at, running, button, finished, printed, shown>>
  /\ UNCHANGED requests \/ \E btn \in Buttons \cup {NoButton} : Request(btn)
  /\ events' \in 0 .. MaxEvents

BarStep == Serves \/ TimedRuns \/ Refreshes \/ Drops \/ Collects

\* A run that has ended is at no step, and what has ended is a run.
AtRest ==
  /\ ~running \/ finished => at = "idle"
  /\ running \/ ~finished

LEMMA StepKeepsTypes ==
  ASSUME NEW Texts, NEW Steps, FunctionTypeOK(Texts, Steps),
         CommandStep(Texts, Steps) \/ OutsideStep \/ BarStep
  PROVE  FunctionTypeOK(Texts, Steps)'
<1>1. CASE CommandStep(Texts, Steps)
  <2>1. requests' \in Seq(Buttons \cup {NoButton})
    BY <1>1 DEF FunctionTypeOK, SlotTypeOK, CommandStep, Request
  <2>2. /\ at' \in Steps \cup {"idle", "begin"}
        /\ finished' \in BOOLEAN
        /\ printed' \in Texts \cup {Nothing, Failure}
    BY <1>1 DEF FunctionTypeOK, SlotTypeOK, CommandStep, Finish
  <2> QED
    BY <1>1, <2>1, <2>2 DEF FunctionTypeOK, SlotTypeOK, CommandStep
<1>2. CASE OutsideStep
  BY <1>2 DEF FunctionTypeOK, SlotTypeOK, OutsideStep, Request
<1> QED
  BY <1>1, <1>2, BarKeepsTypes DEF BarStep

LEMMA StepKeepsRest ==
  ASSUME NEW Texts, NEW Steps, AtRest,
         CommandStep(Texts, Steps) \/ OutsideStep \/ BarStep \/ UNCHANGED barVars
  PROVE  AtRest'
<1>1. CASE CommandStep(Texts, Steps)
  BY <1>1 DEF AtRest, CommandStep, Finish
<1>2. CASE OutsideStep \/ UNCHANGED barVars
  BY <1>2 DEF AtRest, OutsideStep, barVars, slotVars
<1>3. CASE BarStep
  BY <1>3 DEF AtRest, BarStep, Serves, Serve, TimedRuns, Refreshes, TimedRun, StartWith,
              Drops, DropBusy, Drop, Collects, Collect
<1> QED
  BY <1>1, <1>2, <1>3

\* The operators of BarFunction that make up such steps.

LEMMA GoesIsStep ==
  ASSUME NEW Texts, NEW Steps, NEW step \in Steps, FunctionTypeOK(Texts, Steps),
         running, ~finished, Goes(step)
  PROVE  CommandStep(Texts, Steps)
BY DEF FunctionTypeOK, CommandStep, Goes, slotVars

LEMMA EndsIsStep ==
  ASSUME NEW Texts, NEW Steps, NEW text \in Texts \cup {Nothing, Failure},
         FunctionTypeOK(Texts, Steps), running, ~finished, Ends(text)
  PROVE  CommandStep(Texts, Steps)
BY DEF FunctionTypeOK, CommandStep, Ends

LEMMA SignalsIsStep ==
  ASSUME NEW Texts, NEW Steps, FunctionTypeOK(Texts, Steps), running, ~finished,
         Signals, at' \in Steps
  PROVE  CommandStep(Texts, Steps)
BY DEF FunctionTypeOK, CommandStep, Signals

LEMMA OutsideIsStep ==
  ASSUME events \in 0 .. MaxEvents,
         \/ Happens /\ UNCHANGED slotVars
         \/ Happens /\ \E btn \in Buttons \cup {NoButton} : SlotRequest(btn)
         \/ Signals
         \/ UNCHANGED <<slotVars, events>>,
         UNCHANGED at
  PROVE  OutsideStep
<1>1. CASE Happens /\ UNCHANGED slotVars
  BY <1>1, HappensKeepsBound DEF OutsideStep, slotVars
<1>3. CASE Happens /\ \E btn \in Buttons \cup {NoButton} : SlotRequest(btn)
  BY <1>3, HappensKeepsBound DEF OutsideStep, SlotRequest
<1>2. CASE Signals \/ UNCHANGED <<slotVars, events>>
  BY <1>2 DEF OutsideStep, Signals, slotVars
<1> QED
  BY <1>1, <1>2, <1>3

\* A run goes on, and none is at a step but the first, when it is not its command
\* that takes a step.
LEMMA RunningStays ==
  ASSUME NEW step, step # "begin", OutsideStep \/ BarStep \/ UNCHANGED barVars
  PROVE  Running(step)' <=> Running(step)
BY DEF Running, OutsideStep, BarStep, Serves, Serve, TimedRuns, Refreshes, TimedRun, StartWith,
       Drops, DropBusy, Drop, Collects, Collect, barVars, slotVars

-------------------------------------------------------------------------------
(* Numbers and sequences.                                                  *)

LEMMA LeastOfSome ==
  ASSUME NEW some, some \subseteq Nat, some # {}
  PROVE  \E n \in some : \A m \in some : n <= m
<1> DEFINE R == OpToRel(<, Nat)
<1>1. IsWellFoundedOn(R, Nat)
  BY NatLessThanWellFounded
<1>2. PICK n \in some : \A m \in some : ~(<<m, n>> \in R)
  <2> HIDE DEF R
  <2> QED
    BY <1>1, WFMin
<1>3. \A m \in some : ~(m < n)
  BY <1>2 DEF OpToRel
<1>4. \A m \in some : n <= m
  BY <1>3
<1> QED
  BY <1>4
===============================================================================
