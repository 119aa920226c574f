-------------------------------- MODULE Codec --------------------------------
(* Numbers and register codes.  A configuration command names some settings *)
(* of a group in millivolts and milliamperes; the settings it does not name *)
(* are taken from the snapshot, that is from what the last refresh decoded  *)
(* out of the registers, and the whole group is encoded and written again.  *)
(* So a setting nobody named goes from code to number and back to code, and *)
(* stays what it was only if the two conversions agree: they are in         *)
(* different files, with different roundings, masks and limits.  Power      *)
(* takes that agreement for granted; here it is what is checked.            *)
(*                                                                          *)
(* A code is the value of the register's own bits, without their position;  *)
(* every command is one step (power_lock is held, the bus works: Power has  *)
(* the interleavings and the failures).                                     *)
EXTENDS Integers, FiniteSets, Functions

CONSTANTS BqInSense,    (* shunts in milliohms, 0 = unset: input side       *)
          BqBatSense,   (* and battery side of the BQ25756                  *)
          ShpInSense,   (* and of the SHP8808                               *)
          ShpBatSense,
          PowerOn,      (* field -> code after power-on or reset            *)
          Codes,        (* field -> codes a field may be found with         *)
          Named,        (* sets of fields a request may name                *)
          Numbers,      (* field -> numbers a request may give              *)
          MaxCommands   (* bound: commands in a behaviour                   *)

ASSUME SenseAssumption ==
  BqInSense \in Nat /\ BqBatSense \in Nat /\ ShpInSense \in Nat /\ ShpBatSense \in Nat
ASSUME MaxAssumption == MaxCommands \in Nat

VARIABLES reg,          (* field -> code in the chip                        *)
          snap,         (* field -> number of the last refresh              *)
          last,         (* the last command: its request and its answer     *)
          commands      (* commands so far                                  *)

vars == <<reg, snap, last, commands>>

Refused == -1
None == << >>

BqCharge   == {"bq_fb_mv", "bq_ichg_ma", "bq_iac_ma", "vac_mv", "bq_ipre_ma", "bq_iterm_ma"}
BqReverse  == {"rev_vac_mv", "rev_iac_ma"}
ShpCharge  == {"shp_fb_mv", "shp_ichg_ma", "shp_iac_ma", "vindpm_mv", "shp_ipre_ma", "shp_iterm_ma"}
ShpReverse == {"vbus_mv", "ibus_ma"}

Groups == {BqCharge, BqReverse, ShpCharge, ShpReverse}
Chips  == {BqCharge \union BqReverse, ShpCharge \union ShpReverse}
Fields == UNION Groups

(* Number of codes the bits of a field can hold.                            *)
Width(f) ==
  CASE f \in {"bq_fb_mv", "shp_fb_mv"} -> 32
    [] f \in {"vac_mv", "rev_vac_mv"} -> 4096
    [] f \in {"vindpm_mv", "vbus_mv"} -> 2048
    [] f \in {"bq_ichg_ma", "bq_iac_ma", "bq_ipre_ma", "bq_iterm_ma", "rev_iac_ma"} -> 1024
    [] f = "shp_ichg_ma" -> 256
    [] f \in {"shp_ipre_ma", "shp_iac_ma", "ibus_ma"} -> 128
    [] f = "shp_iterm_ma" -> 64

ASSUME CodesAssumption ==
  /\ PowerOn \in [Fields -> Nat]
  /\ \A f \in Fields : /\ Codes[f] \union {PowerOn[f]} \subseteq 0..(Width(f) - 1)
                        /\ Numbers[f] \subseteq Nat

-----------------------------------------------------------------------------
(* Codes to numbers: what a refresh puts into the snapshot.                 *)

(* current_from_reg: the charger counts 250 uV of drop over the shunt.      *)
BqMilliamps(code, sense) == (code * 250) \div (IF sense = 0 THEN 5 ELSE sense)

ShpBatMilliamps(code, offset) ==
  (code * 500 + offset * 5) \div (IF ShpBatSense = 0 THEN 5 ELSE ShpBatSense)

ShpInMilliamps(code) == (code * 750 + 4750) \div (IF ShpInSense = 0 THEN 2 ELSE ShpInSense)

(* Mutant: the range bit is not looked at.                                  *)
OtgMillivoltsLow(code) == 540 + code * 20

(* shp_otg_mv: bit 10 selects the range above 21 V and its wider step.      *)
OtgMillivolts(code) ==
  IF code >= 1024 THEN 21050 + (code % 1024) * 50 ELSE 540 + code * 20

Decode(f, code) ==
  CASE f \in {"bq_fb_mv", "shp_fb_mv"} -> 1504 + 2 * code
    [] f \in {"vac_mv", "rev_vac_mv"} -> 20 * code
    [] f = "vindpm_mv" -> 100 + code
    [] f = "vbus_mv" -> OtgMillivolts(code)
    [] f \in {"bq_iac_ma", "rev_iac_ma"} -> BqMilliamps(code, BqInSense)
    [] f \in {"bq_ichg_ma", "bq_ipre_ma", "bq_iterm_ma"} -> BqMilliamps(code, BqBatSense)
    [] f = "shp_ichg_ma" -> ShpBatMilliamps(code, 1000)
    [] f \in {"shp_ipre_ma", "shp_iterm_ma"} -> ShpBatMilliamps(code, 400)
    [] f \in {"shp_iac_ma", "ibus_ma"} -> ShpInMilliamps(code)

Decoded(r) == [f \in Fields |-> Decode(f, r[f])]

-----------------------------------------------------------------------------
(* Numbers to codes: the drivers' checks and roundings.                     *)

(* Mutant: the quotient is rounded down.                                    *)
BqCurrentDown(ma, sense, min, max) ==
  LET shunt == IF sense = 0 THEN 5 ELSE sense
      code  == (ma * shunt) \div 250
  IN  IF shunt > 100 \/ ma > 100000 \/ code \notin min..max THEN Refused ELSE code

BqCurrent(ma, sense, min, max) ==
  LET shunt == IF sense = 0 THEN 5 ELSE sense
      code  == (ma * shunt + 125) \div 250
  IN  IF shunt > 100 \/ ma > 100000 \/ code \notin min..max THEN Refused ELSE code

BqVoltage(mv, min, max) ==
  IF mv >= min /\ mv <= max /\ mv % 20 = 0 THEN mv \div 20 ELSE Refused

FbVoltage(mv) ==
  IF mv \in 1504..1566 /\ (mv - 1504) % 2 = 0 THEN (mv - 1504) \div 2 ELSE Refused

(* ref is the shunt for which the chip's offset and step are given.         *)
ShpCurrent(ma, sense, ref, offset, step, maxCode, maxMa) ==
  LET shunt == IF sense = 0 THEN ref ELSE sense
      code  == (ma * shunt - offset * ref + (step * ref) \div 2) \div (step * ref)
  IN  IF \/ shunt > 100 \/ ma > 100000
         \/ ma * shunt < offset * ref
         \/ ma > (maxMa * ref) \div shunt
         \/ code > maxCode
      THEN Refused ELSE code

OtgVoltage(mv) ==
  LET low == (mv - 540) \div 20   high == (mv - 21050) \div 50
  IN  IF mv >= 5000 /\ mv <= 21000
      THEN IF (mv - 540) % 20 # 0 \/ low > 1023 THEN Refused ELSE low
      ELSE IF mv >= 21050 /\ mv <= 48000
      THEN IF (mv - 21050) % 50 # 0 \/ high > 1023 THEN Refused ELSE 1024 + high
      ELSE Refused

Vindpm(mv) == IF mv \in 100..1123 THEN mv - 100 ELSE Refused

Encode(f, n) ==
  CASE f \in {"bq_fb_mv", "shp_fb_mv"} -> FbVoltage(n)
    [] f = "vac_mv" -> BqVoltage(n, 4200, 65000)
    [] f = "rev_vac_mv" -> BqVoltage(n, 3300, 65000)
    [] f = "vindpm_mv" -> Vindpm(n)
    [] f = "vbus_mv" -> OtgVoltage(n)
    [] f = "bq_ichg_ma" -> BqCurrent(n, BqBatSense, 8, 400)
    [] f \in {"bq_iac_ma", "rev_iac_ma"} -> BqCurrent(n, BqInSense, 8, 400)
    [] f \in {"bq_ipre_ma", "bq_iterm_ma"} -> BqCurrent(n, BqBatSense, 5, 200)
    [] f = "shp_ichg_ma" -> ShpCurrent(n, ShpBatSense, 5, 1000, 100, 190, 20000)
    [] f = "shp_ipre_ma" -> ShpCurrent(n, ShpBatSense, 5, 400, 100, 96, 10000)
    [] f = "shp_iterm_ma" -> ShpCurrent(n, ShpBatSense, 5, 400, 100, 63, 6700)
    [] f \in {"shp_iac_ma", "ibus_ma"}
         -> ShpCurrent(n, ShpInSense, 2, 2375, 375, 127, 50000)

-----------------------------------------------------------------------------
(* The numbers of a request are what json_u32 makes of its digits, that is, *)
(* already modulo 2^32; the two voltages of 16 bits are then cut before the *)
(* driver sees them.                                                        *)
Narrowed(f, n) == IF f \in {"bq_fb_mv", "shp_fb_mv", "vindpm_mv"} THEN n % 65536 ELSE n

Init ==
  /\ \E f \in Fields : \E c \in Codes[f] : reg = [PowerOn EXCEPT ![f] = c]
  /\ snap = Decoded(reg)
  /\ last = [request |-> None, group |-> {}, ok |-> FALSE]
  /\ commands = 0

(* Mutant: the settings that are not named come from a fresh configuration. *)
ConfigFresh(group, request) ==
  [f \in group |-> IF f \in DOMAIN request THEN Narrowed(f, request[f])
                   ELSE Decode(f, PowerOn[f])]

(* cfg = snap.charge, then one field for each number of the request.        *)
Config(group, request) ==
  [f \in group |-> IF f \in DOMAIN request THEN Narrowed(f, request[f]) ELSE snap[f]]

(* charge_cfg and reverse_cfg: all codes are computed before the first      *)
(* write, and the registers are read back after the last.                   *)
Configure(group, request) ==
  LET config == Config(group, request)
      code   == [f \in group |-> Encode(f, config[f])]
      ok     == Refused \notin Range(code)
  IN  /\ reg' = IF ok THEN [f \in Fields |-> IF f \in group THEN code[f] ELSE reg[f]] ELSE reg
      /\ snap' = IF ok THEN Decoded(reg') ELSE snap
      /\ last' = [request |-> request, group |-> group, ok |-> ok]

(* The reset command of a chip: its registers at their power-on codes, then *)
(* a refresh.                                                               *)
Reset(chip) ==
  /\ reg' = [f \in Fields |-> IF f \in chip THEN PowerOn[f] ELSE reg[f]]
  /\ snap' = Decoded(reg')
  /\ last' = [request |-> None, group |-> {}, ok |-> TRUE]

(* A request gives each field it names one of the numbers.                  *)
Requests(named) ==
  {r \in [named -> UNION {Numbers[f] : f \in named}] : \A f \in named : r[f] \in Numbers[f]}

Command ==
  \/ \E group \in Groups : \E named \in Named \intersect SUBSET group :
       \E request \in Requests(named) : Configure(group, request)
  \/ \E chip \in Chips : Reset(chip)

Next ==
  /\ commands < MaxCommands
  /\ commands' = commands + 1
  /\ Command

Spec == Init /\ [][Next]_vars

-----------------------------------------------------------------------------
(* Every code fits the bits of its field: a driver that writes a code never *)
(* spills into the neighbouring bits of the register, nor loses the top of  *)
(* one.                                                                     *)
Fits == \A f \in Fields : reg[f] \in 0..(Width(f) - 1)

(* A configuration command leaves the settings it does not name as they     *)
(* were, in the chip and not only in the numbers shown, whatever code each  *)
(* was found with: reading and writing back loses nothing (power.c,         *)
(* charge_cfg and reverse_cfg start from the snapshot).                     *)
UnnamedKept ==
  [][last'.request # None => \A f \in Fields \ DOMAIN last'.request : reg'[f] = reg[f]]_vars

(* What the driver has once accepted it accepts again: after a successful   *)
(* command every setting of its group, as the snapshot shows it, encodes to *)
(* the code in the register, so that the next command of the group is       *)
(* refused only for what it names itself.                                   *)
Settled ==
  last.ok => \A f \in last.group : Encode(f, snap[f]) = reg[f]

Distance(a, b) == IF a > b THEN a - b ELSE b - a

(* An accepted number that fits the setting's type is what the chip then    *)
(* holds, as near as its steps allow: neither neighbouring code stands for  *)
(* a number nearer to the one asked for, up to the milliampere the decoding *)
(* cuts off.                                                                *)
Nearest ==
  last.ok => \A f \in DOMAIN last.request :
    LET n == last.request[f]
    IN  n = Narrowed(f, n) =>
          \A c \in {reg[f] - 1, reg[f] + 1} \intersect 0..(Width(f) - 1) :
            Distance(Decode(f, reg[f]), n) <= Distance(Decode(f, c), n) + 1
==============================================================================
