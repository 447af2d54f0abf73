--------------------------- MODULE KdeConnectProofs ---------------------------
(***************************************************************************)
(* Proofs about KdeConnect, for any number of phones, whatever they report *)
(* and whatever fails.                                                     *)
(***************************************************************************)
EXTENDS KdeConnect, BarFunctionProofs

\* The steps between the check that the daemon is there and the click.
Searching == {"devices", "battery", "charge", "charging"}

\* The steps that are only taken when a phone was found.
WithDevice == {"low", "warn", "flag", "print", "window"}

\* The phone that is asked for its charge is one of those still to be asked.
Asking ==
  /\ at \in {"charge", "charging"} => ids # {} /\ Id \in HasBattery
  /\ at \notin {"battery", "charge", "charging"} => ids = {}

\* No step is left when the command has ended.  No phone is found before the end
\* of the search, its charge is known, and what follows the click is done for a
\* phone only.
CommandState ==
  /\ ~running => ~finished /\ ~HaveDevice
  /\ ~running \/ finished => at = "idle"
  /\ HaveDevice => dev.charge >= 0
  /\ running /\ ~finished =>
       /\ at \in {"begin", "details"} \cup Searching => ~HaveDevice
       /\ at \in WithDevice => HaveDevice

\* From the check that the daemon is there to the end of the run the daemon is
\* there, unless it stopped during the run.
DaemonChecked ==
  running /\ ~finished /\ (at \in Searching \cup {"details"} \/ HaveDevice)
    => daemon \/ raced

ActivationInv ==
  /\ TypeOK
  /\ Asking
  /\ CommandState
  /\ DaemonChecked
  /\ ActivatesInRaceOnly

\* What the command has read of a phone's charge is what the phone reports,
\* for no charge changes while it runs, unless it only waits for a window.
ChargeIsCurrent ==
  running /\ ~finished /\ at # "window" =>
    /\ HaveDevice => dev.phone \in HasBattery /\ dev.charge = phone[dev.phone].charge
    /\ at = "charging" => dev.charge \in {-1, phone[Id].charge}

\* A phone that was warned of is below the threshold that rearms the warning,
\* and the warning is disarmed or about to be.
WarnedIsLow ==
  \A p \in Phones :
    warned[p] > 0 =>
      /\ p \in HasBattery
      /\ phone[p].charge < THRESHOLD_REARM
      /\ flag \/ (Running("flag") /\ warned[p] = 1)

LowAtWarn ==
  Running("warn") => ~flag /\ dev.charge < THRESHOLD_LOW

WarnInv ==
  /\ ActivationInv
  /\ ChargeIsCurrent
  /\ WarnedIsLow
  /\ LowAtWarn
  /\ WarnedOnce

-------------------------------------------------------------------------------
(* The phone that comes first.                                             *)

LEMMA FirstOfSome ==
  ASSUME NEW some, some \subseteq Phones, some # {}
  PROVE  First(some) \in some
<1>1. some \subseteq Nat
  BY KdeConnectAssumption DEF Phones
<1> QED
  BY <1>1, LeastOfSome DEF First

LEMMA ChargesAreIntegers ==
  ASSUME NEW n \in Charges \cup {-1}
  PROVE  n \in Int
<1>1. Charges \subseteq -1 .. 100
  BY KdeConnectAssumption
<1>2. CASE n \in Charges
  <2>1. n \in -1 .. 100
    BY <1>1, <1>2
  <2> QED
    BY <2>1
<1>3. CASE n = -1
  BY <1>3
<1> QED
  BY <1>2, <1>3

\* The phone that is asked is a phone; none of its data has another type.
LEMMA PhoneTypes ==
  ASSUME TypeOK
  PROVE  /\ ids # {} => Id \in Phones
         /\ \A p \in Phones :
              /\ phone[p].charge \in Charges \cup {-1}
              /\ phone[p].charging \in BOOLEAN
              /\ phone[p].reachable \in BOOLEAN
              /\ p \in HasBattery => phone[p].charge \in Charges
         /\ dev.charge \in Charges \cup {-1}
         /\ dev.charge \in Int
         /\ dev.charging \in BOOLEAN
         /\ dev.phone \in Phones \cup {None}
<1>1. ids # {} => Id \in Phones
  BY FirstOfSome DEF TypeOK, Id
<1>2. ASSUME NEW p \in Phones
      PROVE  /\ phone[p].charge \in Charges \cup {-1}
             /\ phone[p].charging \in BOOLEAN
             /\ phone[p].reachable \in BOOLEAN
             /\ p \in HasBattery => phone[p].charge \in Charges
  <2>1. phone[p] \in States(p)
    BY <1>2 DEF TypeOK
  <2>2. CASE p \in HasBattery
    BY <2>1, <2>2 DEF States
  <2>3. CASE p \notin HasBattery
    BY <2>1, <2>3 DEF States
  <2> QED
    BY <2>2, <2>3
<1>3. /\ dev.charge \in Charges \cup {-1}
      /\ dev.charging \in BOOLEAN
      /\ dev.phone \in Phones \cup {None}
  BY DEF TypeOK
<1>4. dev.charge \in Int
  BY <1>3, ChargesAreIntegers
<1> QED
  BY <1>1, <1>2, <1>3, <1>4

-------------------------------------------------------------------------------
(* Types.                                                                  *)

\* The part of the type invariant that is this block's own.
OwnTypeOK ==
  /\ daemon \in BOOLEAN
  /\ DOMAIN phone = Phones
  /\ \A p \in Phones : phone[p] \in States(p)
  /\ flag \in BOOLEAN
  /\ ids \subseteq Phones
  /\ dev \in [phone : Phones \cup {None}, charge : Charges \cup {-1},
              charging : BOOLEAN]
  /\ watching \in BOOLEAN
  /\ news \in Nat
  /\ activated \in BOOLEAN
  /\ raced \in BOOLEAN
  /\ warned \in [Phones -> Nat]

LEMMA TypeInit ==
  ASSUME Init PROVE TypeOK
<1>1. FunctionTypeOK(Texts, Steps)
  BY SlotStart DEF Init
<1>2. PICK first \in [HasBattery -> Charges] :
        phone = [p \in Phones |->
                   [reachable |-> FALSE, charging |-> FALSE,
                    charge |-> IF p \in HasBattery THEN first[p] ELSE -1]]
  BY DEF Init
<1>3. ASSUME NEW p \in Phones PROVE phone[p] \in States(p)
  BY <1>2, <1>3 DEF States
<1>4. watching \in BOOLEAN
  BY DEF Init
<1>5. DOMAIN phone = Phones /\ warned \in [Phones -> Nat]
  BY <1>2 DEF Init
<1> QED
  BY <1>1, <1>3, <1>4, <1>5 DEF Init, TypeOK, NoDevice

\* A call of the daemon changes the types of nothing.
LEMMA CallsKeepTypes ==
  ASSUME TypeOK, Calls \/ CallsNobody
  PROVE  /\ daemon' \in BOOLEAN
         /\ news' \in Nat
         /\ activated' \in BOOLEAN
         /\ UNCHANGED <<phone, watching, raced>>
<1>1. CASE Calls
  <2>1. news' \in Nat
    BY <1>1 DEF TypeOK, Calls, News
  <2> QED
    BY <1>1, <2>1 DEF TypeOK, Calls
<1>2. CASE CallsNobody
  BY <1>2 DEF TypeOK, CallsNobody
<1> QED
  BY <1>1, <1>2

\* What a step of the command does to the types.
CommandStepTypes ==
  /\ Calls \/ CallsNobody
  /\ \/ \E step \in Steps : Goes(step)
     \/ \E text \in Texts : Ends(text)
  /\ ids' \subseteq Phones
  /\ dev' \in [phone : Phones \cup {None}, charge : Charges \cup {-1},
               charging : BOOLEAN]
  /\ flag' \in BOOLEAN
  /\ warned' \in [Phones -> Nat]

LEMMA CountedUp ==
  ASSUME NEW S, NEW f \in [S -> Nat], NEW x
  PROVE  [f EXCEPT ![x] = @ + 1] \in [S -> Nat]
<1>1. ASSUME x \in S PROVE f[x] + 1 \in Nat
  BY <1>1
<1>2. CASE x \in S
  BY <1>1, <1>2, Zenon
<1>3. CASE x \notin S
  BY <1>3, Zenon
<1> QED
  BY <1>2, <1>3

LEMMA CommandTypes ==
  ASSUME TypeOK, Asking, CommandState, Command
  PROVE  CommandStepTypes
<1> USE DEF TypeOK, CommandStepTypes
<1>1. CASE AskOwner
  BY <1>1 DEF AskOwner, Steps
<1>2. CASE GetDevices
  BY <1>2 DEF GetDevices, Reachable, Steps
<1>3. CASE NoneFound
  BY <1>3 DEF NoneFound, Steps
<1>4. CASE AskBattery
  BY <1>4 DEF AskBattery, Steps
<1>5. CASE AskCharge
  <2>1. Id \in Phones
    BY <1>5, PhoneTypes DEF AskCharge, Running, Asking
  <2>2. dev' = [NoDevice EXCEPT !.charge = IF phone[Id].reachable
                                             THEN phone[Id].charge ELSE -1]
    BY <1>5 DEF AskCharge
  <2>3. dev' \in [phone : Phones \cup {None}, charge : Charges \cup {-1},
                  charging : BOOLEAN]
    BY <2>1, <2>2, PhoneTypes DEF NoDevice
  <2> QED
    BY <1>5, <2>3 DEF AskCharge, Steps
<1>6. CASE AskCharging
  <2>1. Id \in Phones
    BY <1>6, PhoneTypes DEF AskCharging, Running, Asking
  <2>2. dev' = [dev EXCEPT !.charging = phone[Id].reachable /\ phone[Id].charging,
                           !.phone = IF dev.charge < 0 THEN None ELSE Id]
    BY <1>6 DEF AskCharging
  <2>3. (phone[Id].reachable /\ phone[Id].charging) \in BOOLEAN
    OBVIOUS
  <2>4. dev' \in [phone : Phones \cup {None}, charge : Charges \cup {-1},
                  charging : BOOLEAN]
    BY <2>1, <2>2, <2>3
  <2> QED
    BY <1>6, <2>4 DEF AskCharging, Steps
<1>7. ASSUME AfterClick
      PROVE  \/ \E step \in Steps : Goes(step)
             \/ \E text \in Texts : Ends(text)
  BY <1>7 DEF AfterClick, Steps, Texts
<1>8. CASE ClickAsksNothing \/ ClickAsksPhone \/ ClickAsksDevices
  BY <1>7, <1>8 DEF ClickAsksNothing, ClickAsksPhone, ClickAsksDevices
<1>9. CASE ClickAsksOwner
  BY <1>9 DEF ClickAsksOwner, Steps
<1>10. CASE CheckLow
  BY <1>10 DEF CheckLow, Steps
<1>11. CASE Warn
  <2>1. warned \in [Phones -> Nat]
    OBVIOUS
  <2>2. warned' \in [Phones -> Nat]
    BY <1>11, <2>1, CountedUp DEF Warn
  <2> QED
    BY <1>11, <2>2 DEF Warn, Steps
<1>12. CASE WriteFlag
  BY <1>12 DEF WriteFlag, Steps
<1>13. CASE PrintReading
  <2>1. HaveDevice
    BY <1>13 DEF PrintReading, Running, CommandState, WithDevice
  <2>2. dev.charge \in Charges
    BY <2>1, PhoneTypes DEF CommandState
  <2>3. Reading(dev.charge, dev.charging) \in Texts
    BY <2>2, PhoneTypes DEF Reading, Texts
  <2>4. Nothing \in Texts /\ "window" \in Steps
    BY DEF Texts, Steps
  <2>5. \/ \E step \in Steps : Goes(step)
        \/ \E text \in Texts : Ends(text)
    BY <1>13, <2>3, <2>4 DEF PrintReading
  <2> QED
    BY <1>13, <2>5 DEF PrintReading
<1> QED
  BY <1>1, <1>2, <1>3, <1>4, <1>5, <1>6, <1>8, <1>9, <1>10, <1>11, <1>12, <1>13
     DEF Command

LEMMA TypeStep ==
  ASSUME TypeOK, Asking, CommandState, [Next]_vars
  PROVE  TypeOK'
<1> SUFFICES FunctionTypeOK(Texts, Steps)' /\ OwnTypeOK'
  BY DEF TypeOK, OwnTypeOK
<1>t. FunctionTypeOK(Texts, Steps) /\ OwnTypeOK
  BY DEF TypeOK, OwnTypeOK
<1>s. UNCHANGED <<commandVars, worldVars>> => OwnTypeOK'
  BY <1>t DEF OwnTypeOK, commandVars, worldVars
<1>1. CASE Command
  <2>1. CommandStepTypes
    BY <1>1, CommandTypes
  <2>2. OwnTypeOK'
    BY <1>t, <2>1, CallsKeepTypes DEF CommandStepTypes, OwnTypeOK
  <2>3. FunctionTypeOK(Texts, Steps)'
    BY <1>t, <2>1, GoesKeepsTypes, EndsKeepsTypes DEF CommandStepTypes
  <2> QED
    BY <2>2, <2>3
<1>2. CASE Starts \/ Misses
  BY <1>2, <1>t, <1>s, BarKeepsTypes DEF Starts, Misses
<1>3. CASE Shows
  BY <1>3, <1>t, BarKeepsTypes DEF Shows, OwnTypeOK, NoDevice, worldVars
<1>4. CASE Pokes
  <2>1. FunctionTypeOK(Texts, Steps)'
    BY <1>4, <1>t, SignalsKeepsTypes DEF Pokes, FunctionTypeOK
  <2>2. news' \in Nat
    BY <1>4, <1>t DEF Pokes, OwnTypeOK
  <2> QED
    BY <1>4, <1>t, <2>1, <2>2 DEF Pokes, OwnTypeOK, commandVars
<1>5. CASE WatcherEnds
  BY <1>5, <1>t, OutsideKeepsTypes DEF WatcherEnds, OwnTypeOK, commandVars
<1>6. CASE WatcherRestarts
  BY <1>6, <1>t, StutterKeepsTypes DEF WatcherRestarts, OwnTypeOK, commandVars
<1>7. ASSUME NEW p \in Phones, PhoneChanges(p)
      PROVE  FunctionTypeOK(Texts, Steps)' /\ OwnTypeOK'
  <2>1. FunctionTypeOK(Texts, Steps)'
    BY <1>7, <1>t, OutsideKeepsTypes DEF PhoneChanges
  <2>2. PICK new \in States(p) :
          /\ phone' = [phone EXCEPT ![p] = new]
          /\ warned' = [warned EXCEPT ![p] =
                          IF new.charge >= THRESHOLD_REARM THEN 0 ELSE @]
          /\ news' = IF phone[p].reachable \/ new.reachable THEN News ELSE news
    BY <1>7 DEF PhoneChanges
  <2>3. DOMAIN phone' = Phones /\ \A q \in Phones : phone'[q] \in States(q)
    BY <1>t, <2>2 DEF OwnTypeOK
  <2>4. warned' \in [Phones -> Nat] /\ news' \in Nat
    BY <1>t, <2>2 DEF OwnTypeOK, News
  <2> QED
    BY <1>7, <1>t, <2>1, <2>3, <2>4 DEF PhoneChanges, OwnTypeOK, commandVars
<1>8. CASE DaemonStarts
  <2>1. news' \in Nat
    BY <1>8, <1>t DEF DaemonStarts, OwnTypeOK, News
  <2> QED
    BY <1>8, <1>t, <2>1, OutsideKeepsTypes DEF DaemonStarts, OwnTypeOK, commandVars
<1>9. CASE DaemonStops
  <2>1. news' \in Nat
    BY <1>9, <1>t DEF DaemonStops, OwnTypeOK, News
  <2>2. phone' = [p \in Phones |-> [phone[p] EXCEPT !.reachable = FALSE]]
    BY <1>9 DEF DaemonStops
  <2>3. ASSUME NEW p \in Phones PROVE phone'[p] \in States(p)
    BY <1>t, <2>2, <2>3 DEF OwnTypeOK, States
  <2>4. raced' \in BOOLEAN
    BY <1>9 DEF DaemonStops
  <2> QED
    BY <1>9, <1>t, <2>1, <2>2, <2>3, <2>4, OutsideKeepsTypes
       DEF DaemonStops, OwnTypeOK, commandVars
<1>10. CASE Click
  BY <1>10, <1>t, <1>s, ClicksKeepsTypes DEF Click
<1>11. CASE UNCHANGED vars
  BY <1>11, <1>t, <1>s, StutterKeepsTypes DEF vars
<1>12. CASE BusFails
  <2>1. events' \in 0 .. MaxEvents
    BY <1>12, <1>t, HappensKeepsBound DEF BusFails, FunctionTypeOK
  <2>2. FunctionTypeOK(Texts, Steps)'
    BY <1>12, <1>t, <2>1 DEF BusFails, FunctionTypeOK, SlotTypeOK, Finish
  <2> QED
    BY <1>12, <1>s, <2>2 DEF BusFails
<1>13. CASE AppCloses
  BY <1>13, <1>t, <1>s, EndsKeepsTypes DEF AppCloses
<1> QED
  BY <1>1, <1>2, <1>3, <1>4, <1>5, <1>6, <1>7, <1>8, <1>9, <1>10, <1>11, <1>12,
     <1>13 DEF Next

-------------------------------------------------------------------------------
(* A daemon that is started in a race only.                                *)

\* The parts of the invariant that the steps of the command have to keep.
LEMMA CommandKeepsChecked ==
  ASSUME ActivationInv, Command
  PROVE  Asking' /\ CommandState' /\ DaemonChecked' /\ ActivatesInRaceOnly'
<1> USE DEF ActivationInv
<1>t. ids # {} => Id \in Phones
  BY PhoneTypes
<1>n. dev.charge \in Int
  BY PhoneTypes
<1>c. ASSUME Calls, daemon \/ raced
      PROVE  daemon' /\ ActivatesInRaceOnly' /\ raced' = raced
  BY <1>c DEF Calls, ActivatesInRaceOnly
<1>d. ASSUME CallsNobody
      PROVE  UNCHANGED <<daemon, raced>> /\ ActivatesInRaceOnly'
  BY <1>d DEF CallsNobody, ActivatesInRaceOnly
<1> USE DEF Running, Searching, WithDevice, Goes, slotVars, Ends, Finish
<1>1. CASE AskOwner
  BY <1>1, <1>d
     DEF AskOwner, Asking, CommandState, DaemonChecked, HaveDevice
<1>2. CASE GetDevices
  BY <1>2, <1>c
     DEF GetDevices, Asking, CommandState, DaemonChecked, HaveDevice
<1>3. CASE NoneFound
  BY <1>3, <1>d
     DEF NoneFound, Asking, CommandState, DaemonChecked, HaveDevice
<1>4. CASE AskBattery
  BY <1>4, <1>c
     DEF AskBattery, Asking, CommandState, DaemonChecked, HaveDevice, Id
<1>5. CASE AskCharge
  BY <1>5, <1>c
     DEF AskCharge, Asking, CommandState, DaemonChecked, HaveDevice, NoDevice, Id
<1>6. CASE AskCharging
  <2>1. daemon \/ raced
    BY <1>6 DEF AskCharging, DaemonChecked
  <2>2. daemon' /\ ActivatesInRaceOnly'
    BY <1>6, <1>c, <2>1 DEF AskCharging
  <2>3. /\ dev'.charge = dev.charge
        /\ dev'.phone = IF dev.charge < 0 THEN None ELSE Id
    BY <1>6 DEF AskCharging, TypeOK
  <2>4. CommandState'
    <3>1. CASE dev.charge < 0
      BY <1>6, <2>3, <3>1 DEF AskCharging, CommandState, HaveDevice
    <3>2. CASE dev.charge >= 0
      <4>1. ~(dev.charge < 0)
        BY <1>n, <3>2
      <4>2. Goes("click")
        BY <1>6, <4>1 DEF AskCharging
      <4>3. at' = "click" /\ running' /\ ~finished'
        BY <1>6, <4>2 DEF AskCharging
      <4> QED
        BY <2>3, <3>2, <4>3 DEF CommandState
    <3> QED
      BY <1>n, <3>1, <3>2
  <2>5. Asking'
    BY <1>6 DEF AskCharging, Asking
  <2> QED
    BY <2>2, <2>4, <2>5 DEF DaemonChecked
<1>7. ASSUME AfterClick
      PROVE  /\ at' = (IF HaveDevice THEN "low" ELSE "idle")
             /\ running' = running
             /\ HaveDevice => finished' = finished
             /\ ~HaveDevice => finished'
  BY <1>7 DEF AfterClick
<1>8. CASE ClickAsksNothing
  BY <1>8, <1>7, <1>d
     DEF ClickAsksNothing, Asking, CommandState, DaemonChecked, HaveDevice
<1>9. CASE ClickAsksPhone
  BY <1>9, <1>7, <1>c
     DEF ClickAsksPhone, Asking, CommandState, DaemonChecked, HaveDevice
<1>10. CASE ClickAsksOwner
  BY <1>10, <1>d
     DEF ClickAsksOwner, Asking, CommandState, DaemonChecked, HaveDevice
<1>11. CASE ClickAsksDevices
  BY <1>11, <1>7, <1>c
     DEF ClickAsksDevices, Asking, CommandState, DaemonChecked, HaveDevice
<1>12. CASE CheckLow
  BY <1>12, <1>d
     DEF CheckLow, Asking, CommandState, DaemonChecked, HaveDevice
<1>13. CASE Warn
  BY <1>13, <1>c
     DEF Warn, Asking, CommandState, DaemonChecked, HaveDevice
<1>14. CASE WriteFlag
  BY <1>14, <1>d
     DEF WriteFlag, Asking, CommandState, DaemonChecked, HaveDevice
<1>15. CASE PrintReading
  <2>1. /\ Running("print")
        /\ UNCHANGED <<running, ids, dev, daemon, raced>>
        /\ ActivatesInRaceOnly'
    BY <1>15, <1>d DEF PrintReading
  <2>2. \/ at' = "idle" /\ finished'
        \/ at' = "window" /\ ~finished'
    BY <1>15 DEF PrintReading
  <2> QED
    BY <2>1, <2>2 DEF Asking, CommandState, DaemonChecked, HaveDevice, Id
<1> QED
  BY <1>1, <1>2, <1>3, <1>4, <1>5, <1>6, <1>8, <1>9, <1>10, <1>11, <1>12, <1>13,
     <1>14, <1>15 DEF Command

LEMMA ActivationStep ==
  ASSUME ActivationInv, [Next]_vars
  PROVE  ActivationInv'
<1> USE DEF ActivationInv
<1>t. TypeOK'
  BY TypeStep
<1> SUFFICES Asking' /\ CommandState' /\ DaemonChecked' /\ ActivatesInRaceOnly'
  BY <1>t
<1> USE DEF Asking, CommandState, DaemonChecked, ActivatesInRaceOnly, HaveDevice,
            Searching, WithDevice, Id
<1>1. CASE Command
  BY <1>1, CommandKeepsChecked
<1>2. CASE Starts
  <2>1. ~running /\ running' /\ at' = "begin" /\ UNCHANGED <<commandVars, worldVars, finished>>
    BY <1>2 DEF Starts, Serves, Serve, TimedRuns, TimedRun, StartWith
  <2> QED
    BY <2>1 DEF commandVars, worldVars
<1>9. CASE Misses
  BY <1>9 DEF Misses, Drops, DropBusy, Drop, commandVars, worldVars
<1>3. CASE Shows
  BY <1>3 DEF Shows, Collects, Collect, NoDevice, worldVars
<1>4. CASE Pokes \/ WatcherEnds \/ WatcherRestarts
  BY <1>4 DEF Pokes, WatcherEnds, WatcherRestarts, Signals, barVars, slotVars,
              commandVars
<1>5. CASE \E p \in Phones : PhoneChanges(p)
  BY <1>5 DEF PhoneChanges, slotVars, commandVars
<1>6. CASE DaemonStarts
  BY <1>6 DEF DaemonStarts, slotVars, commandVars
<1>10. CASE DaemonStops
  <2>1. raced' = (raced \/ (running /\ ~finished))
    BY <1>10 DEF DaemonStops
  <2>2. DaemonChecked' /\ ActivatesInRaceOnly'
    BY <1>10, <2>1 DEF DaemonStops, slotVars, commandVars
  <2> QED
    BY <1>10, <2>2 DEF DaemonStops, slotVars, commandVars
<1>7. CASE Click
  BY <1>7 DEF Click, Clicks, SlotRequest, commandVars, worldVars
<1>8. CASE UNCHANGED vars
  BY <1>8 DEF vars, barVars, slotVars, commandVars, worldVars
<1>11. CASE BusFails \/ AppCloses
  BY <1>11 DEF BusFails, AppCloses, WindowOpen, Running, Ends, Finish, commandVars,
               worldVars
<1> QED
  BY <1>1, <1>2, <1>3, <1>4, <1>5, <1>6, <1>7, <1>8, <1>9, <1>10, <1>11 DEF Next

LEMMA ActivationInit ==
  ASSUME Init PROVE ActivationInv
<1>1. TypeOK
  BY TypeInit
<1> QED
  BY <1>1 DEF Init, SlotInit, ActivationInv, Asking, CommandState, DaemonChecked,
              ActivatesInRaceOnly, HaveDevice, NoDevice, Searching, WithDevice

\* Where the command is tells what it has found: while it looks for a phone or asks
\* one, the daemon was there when it began, and whoever starts it now has lost a race.
THEOREM ActivationInvariant == Spec => []ActivationInv
<1>1. Init => ActivationInv
  BY ActivationInit
<1>2. ActivationInv /\ [Next]_vars => ActivationInv'
  BY ActivationStep
<1> QED
  BY <1>1, <1>2, PTL DEF Spec

\* The variables keep their types: what is asked for is asked of a phone that
\* there is, and what is shown is a reading that a phone has given.
THEOREM KdeTypeCorrect == Spec => []TypeOK
<1>1. ActivationInv => TypeOK
  BY DEF ActivationInv
<1> QED
  BY <1>1, ActivationInvariant, PTL

\* However many phones there are, whatever the button and whatever comes and
\* goes between two calls, the command starts the daemon only when the daemon
\* stopped after daemon_running() in the same run.
THEOREM ActivatesNone == Spec => []ActivatesInRaceOnly
<1>1. ActivationInv => ActivatesInRaceOnly
  BY DEF ActivationInv
<1> QED
  BY <1>1, ActivationInvariant, PTL

-------------------------------------------------------------------------------
(* One warning per discharge cycle.                                        *)

LEMMA ThresholdsRise ==
  ASSUME NEW n \in Int
  PROVE  /\ n < THRESHOLD_LOW => n < THRESHOLD_REARM
         /\ n >= THRESHOLD_REARM <=> ~(n < THRESHOLD_REARM)
BY DEF THRESHOLD_LOW, THRESHOLD_REARM

\* The search ends with what the phone reports.
LEMMA ChargeStep ==
  ASSUME WarnInv, [Next]_vars
  PROVE  ChargeIsCurrent'
<1> USE DEF WarnInv, ActivationInv, ChargeIsCurrent, Running, Goes, slotVars
<1>1. CASE AskOwner
  BY <1>1 DEF AskOwner, CallsNobody, HaveDevice, Id
<1>2. CASE GetDevices
  BY <1>2 DEF GetDevices, Calls, HaveDevice, Id
<1>3. CASE NoneFound
  BY <1>3 DEF NoneFound, CallsNobody, HaveDevice, Id
<1>4. CASE AskBattery
  BY <1>4 DEF AskBattery, Calls, HaveDevice, Id
<1>5. CASE AskCharge
  <2>1. /\ dev'.charge \in {-1, phone[Id].charge}
        /\ ~HaveDevice'
    BY <1>5 DEF AskCharge, NoDevice, HaveDevice
  <2> QED
    BY <1>5, <2>1 DEF AskCharge, Calls, HaveDevice, Id
<1>6. CASE AskCharging
  <2>1. /\ dev'.charge = dev.charge
        /\ dev'.phone = IF dev.charge < 0 THEN None ELSE Id
    BY <1>6 DEF AskCharging, TypeOK
  <2>2. Id \in HasBattery /\ dev.charge \in {-1, phone[Id].charge}
    BY <1>6 DEF AskCharging, Asking
  <2>3. HaveDevice' => dev.charge = phone[Id].charge
    BY <2>1, <2>2, PhoneTypes DEF HaveDevice
  <2>4. at' # "charging" /\ UNCHANGED phone
    BY <1>6 DEF AskCharging, Calls
  <2> QED
    BY <2>1, <2>2, <2>3, <2>4 DEF HaveDevice
<1>7. CASE \/ ClickAsksNothing \/ ClickAsksPhone \/ ClickAsksOwner \/ ClickAsksDevices
           \/ CheckLow \/ Warn \/ WriteFlag \/ PrintReading
  <2>1. UNCHANGED dev
    BY <1>7 DEF ClickAsksNothing, ClickAsksPhone, ClickAsksOwner, ClickAsksDevices,
                CheckLow, Warn, WriteFlag, PrintReading
  <2>2. UNCHANGED phone
    BY <1>7 DEF ClickAsksNothing, ClickAsksPhone, ClickAsksOwner, ClickAsksDevices,
                CheckLow, Warn, WriteFlag, PrintReading, Calls, CallsNobody
  <2>3. running /\ ~finished /\ at # "window" /\ at' # "charging"
    BY <1>7 DEF ClickAsksNothing, ClickAsksPhone, ClickAsksOwner, ClickAsksDevices,
                CheckLow, Warn, WriteFlag, PrintReading, AfterClick, Ends
  <2> QED
    BY <2>1, <2>2, <2>3 DEF HaveDevice
<1>8. CASE Starts
  <2>1. ~running /\ at' = "begin" /\ UNCHANGED dev
    BY <1>8 DEF Starts, Serves, Serve, TimedRuns, TimedRun, StartWith, commandVars
  <2> QED
    BY <2>1 DEF HaveDevice, CommandState
<1>9. CASE Misses
  BY <1>9 DEF Misses, Drops, DropBusy, Drop, commandVars, worldVars, HaveDevice, Id
<1>10. CASE Shows
  BY <1>10 DEF Shows, Collects, Collect
<1>11. CASE Pokes \/ WatcherEnds \/ WatcherRestarts \/ DaemonStarts
  BY <1>11 DEF Pokes, WatcherEnds, WatcherRestarts, DaemonStarts, Signals, barVars,
               commandVars, HaveDevice, Id
<1>12. ASSUME NEW p \in Phones, PhoneChanges(p) PROVE ChargeIsCurrent'
  <2>1. \A q \in Phones :
          running /\ ~finished /\ at # "window" => phone'[q].charge = phone[q].charge
    BY <1>12 DEF PhoneChanges, WindowOpen, TypeOK
  <2>2. running /\ ~finished /\ HaveDevice => dev.phone \in Phones
    BY PhoneTypes DEF HaveDevice
  <2>3. at = "charging" => Id \in Phones
    BY PhoneTypes DEF Asking
  <2>4. UNCHANGED <<running, finished, at, dev, ids>>
    BY <1>12 DEF PhoneChanges, commandVars
  <2>5. Id' = Id
    BY <2>4 DEF Id
  <2> QED
    BY <2>1, <2>2, <2>3, <2>4, <2>5 DEF HaveDevice
<1>13. CASE DaemonStops
  <2>1. \A q \in Phones : phone'[q].charge = phone[q].charge
    BY <1>13 DEF DaemonStops, TypeOK, States
  <2>2. running /\ ~finished /\ HaveDevice => dev.phone \in Phones
    BY PhoneTypes DEF HaveDevice
  <2>3. at = "charging" => Id \in Phones
    BY PhoneTypes DEF Asking
  <2>4. UNCHANGED <<running, finished, at, dev, ids>>
    BY <1>13 DEF DaemonStops, commandVars
  <2>5. Id' = Id
    BY <2>4 DEF Id
  <2> QED
    BY <2>1, <2>2, <2>3, <2>4, <2>5 DEF HaveDevice
<1>14. CASE Click
  BY <1>14 DEF Click, Clicks, SlotRequest, commandVars, worldVars, HaveDevice, Id
<1>15. CASE UNCHANGED vars
  BY <1>15 DEF vars, barVars, commandVars, worldVars, HaveDevice, Id
<1>16. CASE BusFails \/ AppCloses
  BY <1>16 DEF BusFails, AppCloses, Ends, Finish
<1> QED
  BY <1>1, <1>2, <1>3, <1>4, <1>5, <1>6, <1>7, <1>8, <1>9, <1>10, <1>11, <1>12,
     <1>13, <1>14, <1>15, <1>16 DEF Next, Command

\* The flag and the warnings together, with one phone that has a battery and a
\* file that can be written.
LEMMA WarnStep ==
  ASSUME WarnInv, [Next]_vars, \A p, q \in HasBattery : p = q, "file" \notin Faults
  PROVE  WarnedIsLow' /\ LowAtWarn' /\ WarnedOnce'
<1> USE DEF WarnInv, ActivationInv
<1>h. ASSUME NEW p \in Phones
      PROVE  /\ warned[p] \in Nat /\ warned[p] <= 1
             /\ phone[p].charge \in Int
  <2>1. phone[p].charge \in Charges \cup {-1}
    BY PhoneTypes
  <2>2. phone[p].charge \in Int
    BY <2>1, ChargesAreIntegers
  <2> QED
    BY <2>2 DEF TypeOK, WarnedOnce
<1>d. Running("low") \/ Running("warn") \/ Running("flag")
        => /\ dev.phone \in HasBattery
           /\ dev.phone \in Phones
           /\ dev.charge = phone[dev.phone].charge
           /\ \A p \in Phones : warned[p] > 0 => p = dev.phone
  <2>1. HasBattery \subseteq Phones
    BY KdeConnectAssumption
  <2> QED
    BY <2>1 DEF Running, CommandState, WithDevice, ChargeIsCurrent, WarnedIsLow
<1>k. ASSUME UNCHANGED <<warned, flag>>,
             \A p \in Phones : phone'[p].charge = phone[p].charge,
             Running("flag") => Running("flag")',
             Running("warn")' => Running("warn") /\ UNCHANGED dev
      PROVE  WarnedIsLow' /\ LowAtWarn' /\ WarnedOnce'
  BY <1>k DEF WarnedIsLow, LowAtWarn, WarnedOnce
<1>1. CASE \/ AskOwner \/ GetDevices \/ NoneFound
           \/ AskBattery \/ AskCharge \/ AskCharging
           \/ ClickAsksNothing \/ ClickAsksPhone \/ ClickAsksOwner \/ ClickAsksDevices
           \/ PrintReading
  <2> USE DEF AskOwner, GetDevices, NoneFound, AskBattery, AskCharge, AskCharging,
              ClickAsksNothing, ClickAsksPhone, ClickAsksOwner, ClickAsksDevices,
              PrintReading
  <2>1. UNCHANGED <<warned, flag>>
    BY <1>1
  <2>2. UNCHANGED phone
    BY <1>1 DEF Calls, CallsNobody
  <2>3. at # "flag" /\ at' # "warn"
    BY <1>1 DEF Running, Goes, Ends, AfterClick
  <2> QED
    BY <1>k, <2>1, <2>2, <2>3 DEF Running
<1>2. CASE CheckLow
  <2>1. /\ Running("low")
        /\ UNCHANGED <<warned, phone, dev, running, finished>>
    BY <1>2 DEF CheckLow, CallsNobody, Goes, slotVars
  <2>2. dev.charge \in Int
    BY PhoneTypes
  <2>3. CASE ~flag /\ ~dev.charging /\ dev.charge < THRESHOLD_LOW
    BY <1>2, <2>1, <2>3 DEF CheckLow, Goes, Running, WarnedIsLow, LowAtWarn, WarnedOnce
  <2>4. CASE ~(~flag /\ ~dev.charging /\ dev.charge < THRESHOLD_LOW)
    <3>1. at' = "print" /\ flag' = (flag /\ dev.charge < THRESHOLD_REARM)
      BY <1>2, <2>4 DEF CheckLow, Goes
    <3>2. ASSUME NEW p \in Phones, warned[p] > 0
          PROVE  flag'
      <4>1. dev.charge < THRESHOLD_REARM /\ flag
        BY <1>d, <2>1, <3>2 DEF WarnedIsLow, Running
      <4> QED
        BY <3>1, <4>1
    <3> QED
      BY <2>1, <3>1, <3>2 DEF WarnedIsLow, LowAtWarn, WarnedOnce, Running
  <2> QED
    BY <2>3, <2>4
<1>3. CASE Warn
  <2>1. /\ Running("warn")
        /\ UNCHANGED <<phone, dev, flag>>
        /\ warned' = [warned EXCEPT ![dev.phone] = @ + 1]
        /\ Running("flag")'
    BY <1>3 DEF Warn, Calls, Goes, slotVars, Running
  <2>2. \A p \in Phones : warned[p] = 0
    BY <1>h, <2>1 DEF LowAtWarn, WarnedIsLow, Running
  <2>3. phone[dev.phone].charge < THRESHOLD_REARM
    BY <1>d, <2>1, PhoneTypes, ThresholdsRise DEF LowAtWarn
  <2>4. \A p \in Phones : warned'[p] = IF p = dev.phone THEN 1 ELSE 0
    BY <1>d, <2>1, <2>2 DEF TypeOK
  <2>5. \A p \in Phones : warned'[p] > 0 => p = dev.phone /\ warned'[p] = 1
    BY <2>4
  <2>6. WarnedIsLow'
    BY <1>d, <2>1, <2>3, <2>5 DEF WarnedIsLow
  <2>7. WarnedOnce'
    BY <2>4 DEF WarnedOnce
  <2> QED
    BY <2>1, <2>6, <2>7 DEF LowAtWarn, Running
<1>4. CASE WriteFlag
  <2>1. flag' /\ at' = "print" /\ UNCHANGED <<phone, warned>>
    BY <1>4 DEF WriteFlag, Goes, CallsNobody
  <2> QED
    BY <2>1 DEF WarnedIsLow, LowAtWarn, WarnedOnce, Running
<1>5. CASE Starts
  <2>1. ~running /\ at' = "begin" /\ UNCHANGED <<warned, flag, phone>>
    BY <1>5 DEF Starts, Serves, Serve, TimedRuns, TimedRun, StartWith, worldVars
  <2> QED
    BY <1>k, <2>1 DEF Running
<1>6. CASE Shows
  <2>1. finished /\ ~running' /\ UNCHANGED <<warned, flag, phone>>
    BY <1>6 DEF Shows, Collects, Collect, worldVars
  <2> QED
    BY <1>k, <2>1 DEF Running
<1>7. CASE \/ Misses \/ Pokes \/ WatcherEnds \/ WatcherRestarts \/ DaemonStarts
           \/ DaemonStops \/ Click \/ UNCHANGED vars
  <2>1. UNCHANGED <<warned, flag, dev, at, running, finished>>
    BY <1>7 DEF Misses, Drops, DropBusy, Drop, Pokes, Signals, WatcherEnds,
                WatcherRestarts, DaemonStarts, DaemonStops, Click, Clicks,
                SlotRequest, vars, barVars, slotVars, commandVars, worldVars
  <2>2. CASE DaemonStops
    <3>1. \A p \in Phones : phone'[p].charge = phone[p].charge
      BY <2>2 DEF DaemonStops, TypeOK, States
    <3> QED
      BY <1>k, <2>1, <3>1 DEF Running
  <2>3. CASE ~DaemonStops
    <3>1. UNCHANGED phone
      BY <1>7, <2>3 DEF Misses, Pokes, WatcherEnds, WatcherRestarts, DaemonStarts,
                        Click, vars, worldVars
    <3> QED
      BY <1>k, <2>1, <3>1 DEF Running
  <2> QED
    BY <2>2, <2>3
<1>8. ASSUME NEW p \in Phones, PhoneChanges(p)
      PROVE  WarnedIsLow' /\ LowAtWarn' /\ WarnedOnce'
  <2>1. PICK new \in States(p) :
          /\ phone' = [phone EXCEPT ![p] = new]
          /\ warned' = [warned EXCEPT ![p] =
                          IF new.charge >= THRESHOLD_REARM THEN 0 ELSE @]
    BY <1>8 DEF PhoneChanges
  <2>2. UNCHANGED <<flag, dev, at, running, finished>>
    BY <1>8 DEF PhoneChanges, slotVars, commandVars
  <2>3. /\ phone'[p] = new
        /\ warned'[p] = IF new.charge >= THRESHOLD_REARM THEN 0 ELSE warned[p]
        /\ \A q \in Phones \ {p} : phone'[q] = phone[q] /\ warned'[q] = warned[q]
    BY <1>8, <2>1 DEF TypeOK
  <2>4. new.charge \in Int
    <3>1. TypeOK'
      BY TypeStep
    <3>2. phone'[p] \in States(p)
      BY <3>1 DEF TypeOK
    <3>3. new.charge \in Charges \cup {-1}
      BY <2>3, <3>2 DEF States
    <3> QED
      BY <3>3, ChargesAreIntegers
  <2>5. warned'[p] > 0 => warned'[p] = warned[p] /\ phone'[p].charge < THRESHOLD_REARM
    BY <2>3, <2>4, ThresholdsRise
  <2>6. \A q \in Phones : warned'[q] > 0 =>
          warned'[q] = warned[q] /\ phone'[q].charge < THRESHOLD_REARM
    BY <2>3, <2>5 DEF WarnedIsLow
  <2>7. WarnedIsLow'
    BY <2>2, <2>6 DEF WarnedIsLow, Running
  <2>8. WarnedOnce'
    BY <1>h, <2>3 DEF WarnedOnce
  <2> QED
    BY <2>2, <2>7, <2>8 DEF LowAtWarn, Running
<1>9. CASE BusFails \/ AppCloses
  <2>1. at \in {"begin", "window"} /\ finished' /\ UNCHANGED <<warned, flag, phone>>
    BY <1>9 DEF BusFails, AppCloses, WindowOpen, Running, Ends, Finish, worldVars
  <2> QED
    BY <1>k, <2>1 DEF Running
<1> QED
  BY <1>1, <1>2, <1>3, <1>4, <1>5, <1>6, <1>7, <1>8, <1>9 DEF Next, Command

LEMMA WarnInit ==
  ASSUME Init PROVE WarnInv
<1>1. ActivationInv
  BY ActivationInit
<1>2. WarnedIsLow /\ WarnedOnce
  BY DEF Init, WarnedIsLow, WarnedOnce
<1> QED
  BY <1>1, <1>2 DEF WarnInv, Init, SlotInit, ChargeIsCurrent, LowAtWarn, Running

\* With one phone that has a battery, and a file that can be written, there is no
\* second warning for it before it was charged to the threshold that rearms the
\* warning, whatever the runs, the phone and the daemon do in between.
THEOREM OneWarning ==
  ASSUME \A p, q \in HasBattery : p = q, "file" \notin Faults
  PROVE  Spec => []WarnedOnce
<1>1. Init => WarnInv
  BY WarnInit
<1>2. WarnInv /\ [Next]_vars => WarnInv'
  <2> SUFFICES ASSUME WarnInv, [Next]_vars PROVE WarnInv'
    OBVIOUS
  <2>1. ActivationInv'
    BY ActivationStep DEF WarnInv
  <2>2. ChargeIsCurrent'
    BY ChargeStep
  <2>3. WarnedIsLow' /\ LowAtWarn' /\ WarnedOnce'
    BY WarnStep
  <2> QED
    BY <2>1, <2>2, <2>3 DEF WarnInv
<1>3. WarnInv => WarnedOnce
  BY DEF WarnInv
<1> QED
  BY <1>1, <1>2, <1>3, PTL DEF Spec
===============================================================================
