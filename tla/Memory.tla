-------------------------------- MODULE Memory --------------------------------
(***************************************************************************)
(* The memory block: its command (dwm_memory.c, and the shell script of    *)
(* the same name) shows how much memory is used, in G or in M, if that is  *)
(* more than a threshold, which is lower when the computer runs on its     *)
(* battery.                                                                *)
(***************************************************************************)
EXTENDS BarCommand

CONSTANTS MemTotal,   \* in KiB, as in /proc/meminfo
          Available   \* the values that MemAvailable takes

ASSUME MemoryAssumption ==
  /\ MemTotal \in Nat \ {0}
  /\ Available # {}
  /\ Available \subseteq 0 .. MemTotal

VARIABLES
  avail,       \* MemAvailable
  on_battery,  \* whether the battery is being discharged
  used_kb    \* the local variable of main()

memoryVars == <<avail, on_battery, used_kb>>

MemorySteps == {"window", "meminfo", "battery"}

\* 1 GiB in KiB.
GiB == 1048576

Amount(kib) == IF kib >= GiB THEN <<"G", kib \div GiB>> ELSE <<"M", kib \div 1024>>

MemoryTexts == {Amount(MemTotal - free) : free \in Available}

MemoryTypeOK ==
  /\ avail \in Available
  /\ on_battery \in BOOLEAN
  /\ used_kb \in 0 .. MemTotal

MemoryInit ==
  /\ avail \in Outside("dwm_memory", Available)
  /\ on_battery \in Outside("dwm_memory", BOOLEAN)
  /\ used_kb = 0

-------------------------------------------------------------------------------
(* The command.                                                            *)

\* The terminal with btop, which the command waits for, and no other button
\* keeps it from going on.
OpenMemoryTop ==
  /\ Running("begin")
  /\ Goes(IF button = 1 THEN "window" ELSE "meminfo")
  /\ UNCHANGED memoryVars

MemoryTopCloses ==
  /\ WindowOpen
  /\ Goes("meminfo")
  /\ UNCHANGED memoryVars

ReadMeminfo ==
  /\ Running("meminfo")
  /\ used_kb' = MemTotal - avail
  /\ Goes("battery")
  /\ UNCHANGED <<avail, on_battery>>

Percent == (used_kb * 100) \div MemTotal

\* read_battery_status(), and the line.
PrintMemory ==
  /\ Running("battery")
  /\ Ends(IF Percent <= (IF on_battery THEN 30 ELSE 75) THEN Nothing
          ELSE Amount(used_kb))
  /\ UNCHANGED memoryVars

MemoryCommand == OpenMemoryTop \/ ReadMeminfo \/ PrintMemory

\* Programs use memory and free it, the battery is plugged in or out.
MemoryChanges ==
  /\ Happens
  /\ \/ avail' \in Available \ {avail} /\ UNCHANGED on_battery
     \/ on_battery' = ~on_battery /\ UNCHANGED avail
  /\ UNCHANGED <<slotVars, at, used_kb>>

-------------------------------------------------------------------------------

\* What there is to see: the amount, if it is at least 31 percent of the total on
\* the battery, or 76 percent otherwise.
MemoryView ==
  IF 100 * (MemTotal - avail) >= (IF on_battery THEN 31 ELSE 76) * MemTotal
    THEN Amount(MemTotal - avail) ELSE Nothing
===============================================================================
