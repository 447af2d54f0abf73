------------------------------ MODULE KdeConnect ------------------------------
(***************************************************************************)
(* The phone battery block: its command (dwm_kdeconnect.c) asks the KDE    *)
(* Connect daemon for the first reachable phone with a battery, shows its  *)
(* charge and warns when it gets low; the watcher (the same program with   *)
(* --watch, a service) raises the block's signal when something changes.   *)
(* Every call of the daemon is a step of its own, between which phones and *)
(* the daemon come and go.                                                 *)
(***************************************************************************)
EXTENDS BarFunction, FiniteSets

CONSTANTS
  Count,       \* how many phones are paired
  HasBattery,  \* the phones that report a battery
  Charges      \* the charges a phone may report, -1 when it does not know

Phones == 1 .. Count

\* Not a phone.
None == 0

ASSUME KdeConnectAssumption ==
  /\ Count \in Nat
  /\ HasBattery \subseteq Phones
  /\ Charges \subseteq -1 .. 100
  \* The daemon may stop, the flag cannot be written, the watcher may be down, a
  \* run may not get to the bus.
  /\ Faults \subseteq {"stop", "file", "watcher", "bus"}

THRESHOLD_HIDE == 70
THRESHOLD_LOW == 50
THRESHOLD_REARM == 55

VARIABLES
  daemon,     \* whether the daemon owns its bus name
  phone,      \* what the phones are like
  flag,       \* whether the file that disarms the warning exists
  ids,        \* the phones that device_ids() returned and are still to be asked,
              \* in the order of their numbers
  dev,        \* the local dev of main(): the phone found, its charge, charging
  watching,   \* whether the watcher is running
  news,       \* the bus messages the watcher has not yet taken
  activated,  \* history: a call of the command started the daemon
  raced,      \* history: the daemon stopped while the command was running
  warned      \* history: the phones warned of since they were last charged

commandVars == <<ids, dev>>

worldVars ==
  <<daemon, phone, flag, watching, news, activated, raced, warned>>

vars == <<barVars, commandVars, worldVars>>

\* The steps of the command in their order.
Steps == {"begin", "devices", "battery", "charge", "charging",
          "click", "details", "low", "warn", "flag", "print", "window"}

\* What a phone may be like; nothing is known of the charge without a battery.
States(p) ==
  [reachable : BOOLEAN,
   charge : IF p \in HasBattery THEN Charges ELSE {-1},
   charging : IF p \in HasBattery THEN BOOLEAN ELSE {FALSE}]

NoDevice == [phone |-> None, charge |-> -1, charging |-> FALSE]

\* A link-off icon, the icon with the charge, and with a plus while charging.
Off == <<"off">>
Reading(charge, charging) == <<charge, charging>>
Texts == {Nothing, Off} \cup (Charges \X BOOLEAN)

TypeOK ==
  /\ FunctionTypeOK(Texts, Steps)
  /\ daemon \in BOOLEAN
  /\ DOMAIN phone = Phones
  /\ \A p \in Phones : phone[p] \in States(p)
  /\ flag \in BOOLEAN
  /\ ids \subseteq Phones
  /\ dev \in [phone : Phones \cup {None}, charge : Charges \cup {-1},
              charging : BOOLEAN]
  /\ watching \in BOOLEAN
  /\ news \in Nat
  /\ activated \in BOOLEAN
  /\ raced \in BOOLEAN
  /\ warned \in [Phones -> Nat]

Init ==
  /\ SlotInit
  /\ daemon \in BOOLEAN
  /\ \E first \in [HasBattery -> Charges] :
       phone = [p \in Phones |->
                  [reachable |-> FALSE, charging |-> FALSE,
                   charge |-> IF p \in HasBattery THEN first[p] ELSE -1]]
  /\ flag = FALSE
  /\ at = "idle"
  /\ ids = {}
  /\ dev = NoDevice
  /\ watching \in {TRUE, "watcher" \notin Faults}
  /\ news = 0
  /\ events = 0
  /\ activated = FALSE
  /\ raced = FALSE
  /\ warned = [p \in Phones |-> 0]

-------------------------------------------------------------------------------
(* The command.                                                            *)

News == IF watching THEN news + 1 ELSE news

\* A call of the daemon.  Its name is activatable: when nobody owns it the call
\* starts the daemon, which has found no phone yet.
Calls ==
  /\ daemon' = TRUE
  /\ activated' = (activated \/ ~daemon)
  /\ news' = IF daemon THEN news ELSE News
  /\ UNCHANGED <<phone, watching, raced>>

CallsNobody ==
  UNCHANGED <<daemon, activated, raced, news, phone, watching>>

\* sd_bus_open_user() fails: the click is not looked at, and nothing is printed, not
\* even the link-off icon.
BusFails ==
  /\ "bus" \in Faults
  /\ Running("begin")
  /\ Happens
  /\ at' = "idle"
  /\ Finish(Nothing)
  /\ UNCHANGED <<requests, running, button, shown, commandVars, worldVars>>

\* Mutant of AskOwner: the daemon is asked right away.
AskNobody ==
  /\ Running("begin")
  /\ Goes("devices")
  /\ CallsNobody
  /\ UNCHANGED <<ids, dev, flag, warned>>

\* daemon_running() asks the bus, not the daemon.
AskOwner ==
  /\ Running("begin")
  /\ Goes(IF daemon THEN "devices" ELSE "click")
  /\ CallsNobody
  /\ UNCHANGED <<ids, dev, flag, warned>>

Reachable == {p \in Phones : phone[p].reachable}

\* Mutant of GetDevices: phones that are not paired are asked for, too.
GetDevicesUnpaired ==
  /\ Running("devices")
  /\ Calls
  /\ ids' = 1 .. Count + 1
  /\ Goes("battery")
  /\ UNCHANGED <<dev, flag, warned>>

\* device_ids(): the reachable paired phones.
GetDevices ==
  /\ Running("devices")
  /\ Calls
  /\ ids' = Reachable
  /\ Goes("battery")
  /\ UNCHANGED <<dev, flag, warned>>

\* Of some phones, the one that comes first in the daemon's order.
First(some) == CHOOSE p \in some : \A q \in some : p <= q

\* The next one.
Id == First(ids)

\* find_device() has found none.
NoneFound ==
  /\ Running("battery")
  /\ ids = {}
  /\ Goes("click")
  /\ CallsNobody
  /\ UNCHANGED <<ids, dev, flag, warned>>

\* Mutant of AskBattery: a phone without a battery ends the search.
AskBatteryOnce ==
  /\ Running("battery")
  /\ ids # {}
  /\ Calls
  /\ IF phone[Id].reachable /\ Id \in HasBattery
       THEN Goes("charge") /\ UNCHANGED ids
       ELSE Goes("battery") /\ ids' = {}
  /\ UNCHANGED <<dev, flag, warned>>

\* The next phone: hasBattery is false, or the phone is gone by now.
AskBattery ==
  /\ Running("battery")
  /\ ids # {}
  /\ Calls
  /\ IF phone[Id].reachable /\ Id \in HasBattery
       THEN Goes("charge") /\ UNCHANGED ids
       ELSE Goes("battery") /\ ids' = ids \ {Id}
  /\ UNCHANGED <<dev, flag, warned>>

AskCharge ==
  /\ Running("charge")
  /\ Calls
  /\ dev' = [NoDevice EXCEPT !.charge = IF phone[Id].reachable
                                          THEN phone[Id].charge ELSE -1]
  /\ Goes("charging")
  /\ UNCHANGED <<ids, flag, warned>>

\* A phone whose charge could not be read, or is not known, is passed over.
AskCharging ==
  /\ Running("charging")
  /\ Calls
  /\ dev' = [dev EXCEPT !.charging = phone[Id].reachable /\ phone[Id].charging,
                        !.phone = IF dev.charge < 0 THEN None ELSE Id]
  /\ IF dev.charge < 0
       THEN Goes("battery") /\ ids' = ids \ {Id}
       ELSE Goes("click") /\ ids' = {}
  /\ UNCHANGED <<flag, warned>>

HaveDevice == dev.phone # None

\* What follows the click: without a phone the link-off icon, and the end.
AfterClick == IF HaveDevice THEN Goes("low") ELSE Ends(Off)

\* handle_click() with nothing to ask the daemon for: no click, the button that
\* opens KDE Connect's own window, ringing when there is no phone, the details
\* when there is no daemon.
ClickAsksNothing ==
  /\ Running("click")
  /\ \/ button \notin {1, 3}
     \/ button = 3 /\ ~HaveDevice
     \/ button = 1 /\ ~HaveDevice /\ ~daemon
  /\ AfterClick
  /\ CallsNobody
  /\ UNCHANGED <<ids, dev, flag, warned>>

\* ring(), and the details of a phone.
ClickAsksPhone ==
  /\ Running("click")
  /\ button \in {1, 3}
  /\ HaveDevice
  /\ AfterClick
  /\ Calls
  /\ UNCHANGED <<ids, dev, flag, warned>>

\* The details without a phone: daemon_running(), and then the daemon's list.
ClickAsksOwner ==
  /\ Running("click")
  /\ button = 1
  /\ ~HaveDevice
  /\ daemon
  /\ Goes("details")
  /\ CallsNobody
  /\ UNCHANGED <<ids, dev, flag, warned>>

ClickAsksDevices ==
  /\ Running("details")
  /\ AfterClick
  /\ Calls
  /\ UNCHANGED <<ids, dev, flag, warned>>

\* Mutant of CheckLow: the warning is rearmed at the threshold that it has.
CheckLowRearm ==
  /\ Running("low")
  /\ IF ~flag /\ ~dev.charging /\ dev.charge < THRESHOLD_LOW
       THEN Goes("warn") /\ UNCHANGED flag
       ELSE Goes("print") /\ flag' = (flag /\ dev.charge < THRESHOLD_LOW)
  /\ CallsNobody
  /\ UNCHANGED <<ids, dev, warned>>

\* Mutant of CheckLow: a phone that is charging disarms the warning.
CheckLowCharging ==
  /\ Running("low")
  /\ IF ~flag /\ ~dev.charging /\ dev.charge < THRESHOLD_LOW
       THEN Goes("warn") /\ UNCHANGED flag
       ELSE Goes("print") /\ flag' = (dev.charge < THRESHOLD_REARM)
  /\ CallsNobody
  /\ UNCHANGED <<ids, dev, warned>>

\* Mutant of CheckLow: the warning is not rearmed while the phone is charging.
CheckLowLater ==
  /\ Running("low")
  /\ IF ~flag /\ ~dev.charging /\ dev.charge < THRESHOLD_LOW
       THEN Goes("warn") /\ UNCHANGED flag
       ELSE /\ Goes("print")
            /\ flag' = (flag /\ (dev.charging \/ dev.charge < THRESHOLD_REARM))
  /\ CallsNobody
  /\ UNCHANGED <<ids, dev, warned>>

\* check_low(): the file disarms the warning; a charge that is high enough
\* removes the file.
CheckLow ==
  /\ Running("low")
  /\ IF ~flag /\ ~dev.charging /\ dev.charge < THRESHOLD_LOW
       THEN Goes("warn") /\ UNCHANGED flag
       ELSE Goes("print") /\ flag' = (flag /\ dev.charge < THRESHOLD_REARM)
  /\ CallsNobody
  /\ UNCHANGED <<ids, dev, warned>>

\* The daemon is asked for the phone's name and the warning is shown.
Warn ==
  /\ Running("warn")
  /\ Calls
  /\ warned' = [warned EXCEPT ![dev.phone] = @ + 1]
  /\ Goes("flag")
  /\ UNCHANGED <<ids, dev, flag>>

\* fopen() creates the file, or fails and is not heard of.
WriteFlag ==
  /\ Running("flag")
  /\ flag' \in {TRUE} \cup (IF "file" \in Faults THEN {flag} ELSE {})
  /\ Goes("print")
  /\ CallsNobody
  /\ UNCHANGED <<ids, dev, warned>>

\* KDE Connect's own window, which button 2 has opened, has inherited the standard
\* output: a run that prints no line ends for the bar when the window is closed.
PrintReading ==
  /\ Running("print")
  /\ \/ /\ dev.charge < THRESHOLD_HIDE
        /\ Ends(Reading(dev.charge, dev.charging))
     \/ dev.charge >= THRESHOLD_HIDE /\ button # 2 /\ Ends(Nothing)
     \/ dev.charge >= THRESHOLD_HIDE /\ button = 2 /\ Goes("window")
  /\ CallsNobody
  /\ UNCHANGED <<ids, dev, flag, warned>>

Command ==
  \/ AskOwner \/ GetDevices \/ NoneFound
  \/ AskBattery \/ AskCharge \/ AskCharging
  \/ ClickAsksNothing \/ ClickAsksPhone \/ ClickAsksOwner \/ ClickAsksDevices
  \/ CheckLow \/ Warn \/ WriteFlag \/ PrintReading

-------------------------------------------------------------------------------
(* The bar; this block has an interval, too.                               *)

Starts == (Serves \/ TimedRuns) /\ UNCHANGED <<commandVars, worldVars>>

Misses == Drops /\ UNCHANGED <<commandVars, worldVars>>

\* The next run has fresh variables.
Shows ==
  /\ Collects
  /\ ids' = {}
  /\ dev' = NoDevice
  /\ UNCHANGED worldVars

-------------------------------------------------------------------------------
(* The watcher: watch() with on_change(), under systemd.                   *)

\* A message arrives: pkill -RTMIN+17 dwmblocks.
Pokes ==
  /\ watching
  /\ news > 0
  /\ news' = news - 1
  /\ Signals
  /\ UNCHANGED <<at, commandVars, daemon, phone, flag, watching, activated, raced,
                 warned>>

\* It loses the bus and ends, with the messages it had not taken; the restart
\* comes three seconds later and does not raise the signal.
WatcherEnds ==
  /\ "watcher" \in Faults
  /\ watching
  /\ Happens
  /\ watching' = FALSE
  /\ news' = 0
  /\ UNCHANGED <<slotVars, at, commandVars, daemon, phone, flag, activated, raced,
                 warned>>

WatcherRestarts ==
  /\ ~watching
  /\ watching' = TRUE
  /\ UNCHANGED <<barVars, commandVars, daemon, phone, flag, news, activated, raced,
                 warned>>

-------------------------------------------------------------------------------
(* Phones, the daemon and the user.                                        *)

\* The user closes KDE Connect's window.
WindowOpen == Running("window")

AppCloses ==
  /\ WindowOpen
  /\ Ends(Nothing)
  /\ UNCHANGED <<commandVars, worldVars>>

\* A phone comes, goes, is used, charged, plugged in or out.  The daemon tells
\* of it unless the phone is out of reach all the time.  A run that waits for no
\* window is short: no charge changes while it lasts, but all the rest may.
PhoneChanges(p) ==
  /\ Happens
  /\ \E new \in States(p) :
       /\ new # phone[p]
       /\ running /\ ~finished /\ ~WindowOpen => new.charge = phone[p].charge
       /\ new.reachable => daemon
       /\ phone' = [phone EXCEPT ![p] = new]
       /\ warned' = [warned EXCEPT ![p] =
                       IF new.charge >= THRESHOLD_REARM THEN 0 ELSE @]
       /\ news' = IF phone[p].reachable \/ new.reachable THEN News ELSE news
  /\ UNCHANGED <<slotVars, at, commandVars, daemon, flag, watching, activated, raced>>

DaemonStarts ==
  /\ ~daemon
  /\ Happens
  /\ daemon' = TRUE
  /\ news' = News
  /\ UNCHANGED <<slotVars, at, commandVars, phone, flag, watching, activated, raced,
                 warned>>

DaemonStops ==
  /\ "stop" \in Faults
  /\ daemon
  /\ Happens
  /\ daemon' = FALSE
  /\ phone' = [p \in Phones |-> [phone[p] EXCEPT !.reachable = FALSE]]
  /\ news' = News
  /\ raced' = (raced \/ (running /\ ~finished))
  /\ UNCHANGED <<slotVars, at, commandVars, flag, watching, activated, warned>>

\* Anyone may send the block its signal without a button.
Click == Clicks(Buttons \cup {NoButton}) /\ UNCHANGED <<commandVars, worldVars>>

Next ==
  \/ Command
  \/ Starts \/ Misses \/ Shows
  \/ Pokes \/ WatcherEnds \/ WatcherRestarts
  \/ \E p \in Phones : PhoneChanges(p)
  \/ DaemonStarts \/ DaemonStops
  \/ BusFails \/ Click \/ AppCloses

\* The command goes on and the bar runs it at its interval; nothing is assumed
\* of the watcher, the daemon, the phones or the user.
Fairness ==
  /\ WF_vars(Command)
  /\ WF_vars(Starts) /\ WF_vars(Starts \/ Misses) /\ WF_vars(Shows)

Spec == Init /\ [][Next]_vars

FairSpec == Spec /\ Fairness

-------------------------------------------------------------------------------
(* Properties.                                                             *)

\* "Warn once per discharge cycle" (the comment at check_low()): no second
\* warning for a phone that was not charged above the threshold in between.
WarnedOnce == \A p \in Phones : warned[p] <= 1

\* "Never activates kdeconnectd: the bus name is D-Bus activatable, so ownership
\* is checked first" (the header of dwm_kdeconnect.c): no call starts the daemon,
\* whatever the buttons, unless it stopped after the check in a run.
ActivatesInRaceOnly == activated => raced

Usable(p) == phone[p].reachable /\ p \in HasBattery /\ phone[p].charge >= 0

\* What there is to see.
View ==
  IF \A p \in Phones : ~Usable(p) THEN Off
  ELSE LET p == First({q \in Phones : Usable(q)})
       IN  IF phone[p].charge >= THRESHOLD_HIDE THEN Nothing
           ELSE Reading(phone[p].charge, phone[p].charging)

\* The block gets to show what there is to see, whatever changed during its runs,
\* whether the watcher was there or not, and although a run that did not get to
\* the bus has printed nothing.  A window that the user leaves open can keep it
\* from that.
ViewShown == []<>(shown = View \/ WindowOpen)

Low(p) == Usable(p) /\ ~phone[p].charging /\ phone[p].charge < THRESHOLD_LOW

\* A phone that is low while the warning is armed is warned of, unless a window is
\* left open.  (The flag of an earlier discharge may have disarmed it for good, if
\* the phone was charged while no run saw it: see ChargeRearms.)
LowWarned ==
  \A p \in HasBattery :
    Low(p) /\ ~flag ~> warned[p] > 0 \/ ~Low(p) \/ WindowOpen

\* A phone that is charged enough and that the block reads.
Charged(p) ==
  /\ Usable(p)
  /\ \A q \in Phones : Usable(q) => p <= q
  /\ phone[p].charge >= THRESHOLD_REARM

\* A phone that is charged and within reach for long enough rearms the warning,
\* whether it is still being charged or not: the next discharge is warned of.
ChargeRearms ==
  \A p \in HasBattery : Charged(p) ~> ~flag \/ ~Charged(p) \/ WindowOpen
===============================================================================
