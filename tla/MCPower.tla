------------------------------ MODULE MCPower -------------------------------
(* Values of the constants of Power for model checking. *)
EXTENDS Power

(* What was left over from before a reset of the processor: the SHP8808 in *)
(* reverse mode, the BQ25756 charging. A register reset turns both         *)
(* converters on.                                                          *)
MCBoot == [c \in Chip |-> IF c = "shp" THEN {{"OTG", "CHARGE_LIMITS"}} ELSE {{"EN_CHG"}}]
MCPor  == [c \in Chip |-> IF c = "shp" THEN {"CHARGE_LIMITS"} ELSE {"EN_CHG"}]

(* One content each, neither chip in reverse mode. *)
OneBoot == [c \in Chip |-> IF c = "shp" THEN {{}} ELSE {{"EN_CHG"}}]

(* Neither chip charges before the search, as a reset of the processor     *)
(* alone finds them when nothing was commanded.                            *)
OffBoot == [c \in Chip |-> IF c = "shp" THEN {{"DCDC_OFF"}} ELSE {{}}]

(* web.h and power.c: WEB_THREAD_PRIORITY 8, POWER_THREAD_PRIORITY 11. *)
MCPrio == [t \in Thread |-> IF t = "web" THEN 8 ELSE 11]

On(name)  == <<name, TRUE>>

(* Commands that move the converter, that share a register with the kick, *)
(* and that start from the snapshot.                                      *)
CommandMenu ==
  [c \in Chip |-> IF c = "shp" THEN {On("charge"), On("reset"), On("charge_cfg")}
                  ELSE {On("charge"), On("watchdog")}]

(* One command that drives a chip; the other chip is only asked for its state. *)
ServiceMenu == [c \in Chip |-> IF c = "shp" THEN {On("charge")} ELSE {}]

SmallMenu == [c \in Chip |-> {On("charge"), On("watchdog"), On("clear_latch")}]
==============================================================================
