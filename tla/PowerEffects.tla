---------------------------- MODULE PowerEffects -----------------------------
(***************************************************************************)
(* What the driver programs of Power have done when they are over, for     *)
(* every menu of commands, every content of the chips at power-on and      *)
(* every number of failed transfers; and, where no transfer fails, how     *)
(* much of what the chips hold the snapshots tell.                         *)
(*                                                                         *)
(* A program is executed access by access, so the invariants speak of the  *)
(* accesses that are left: a bit is on its way to a value when an access   *)
(* that has to succeed will give it that value and none after it touches   *)
(* it.                                                                     *)
(***************************************************************************)
EXTENDS PowerProofs

USE DEF Thread, Chip

-----------------------------------------------------------------------------
(* Bits on their way *)

(* The access cannot change bit b of chip c. *)
KeepsBit(c, op, b) ==
  /\ "REG_RST" \notin op.val
  /\ b \notin op.val
  /\ b \notin BitsOf(c, op.reg) \/ (op.kind # "write" /\ b \notin op.mask)

(* The access gives bit b of chip c the value v (1 or 0), or ends the      *)
(* program.                                                                *)
SetsBit(c, op, b, v) ==
  /\ op.must
  /\ op.kind \in {"write", "update"}
  /\ "REG_RST" \notin op.val
  /\ b \in BitsOf(c, op.reg)
  /\ v = 1 <=> b \in op.val
  /\ op.kind = "update" => b \in op.mask

Keeps(c, p, b) == \A i \in 1..Len(p) : KeepsBit(c, p[i], b)

Will(c, p, b, v) ==
  \E i \in 1..Len(p) :
    SetsBit(c, p[i], b, v) /\ \A j \in (i + 1)..Len(p) : KeepsBit(c, p[j], b)

(* With p left to do, bit b ends with value v, or the program fails. *)
OnWay(c, p, b, v, bits) ==
  Will(c, p, b, v) \/ ((v = 1 <=> b \in bits) /\ Keeps(c, p, b))

(* Programs of one access. *)
LEMMA OneAccess ==
  ASSUME NEW c, NEW a \in Op, NEW b, NEW v
  PROVE  /\ SetsBit(c, a, b, v) => Will(c, <<a>>, b, v)
         /\ KeepsBit(c, a, b) => Keeps(c, <<a>>, b)
  BY DEF Will, Keeps

(* A program keeps a bit when its parts do. *)
LEMMA KeepsBoth ==
  ASSUME NEW c, NEW p \in Program, NEW q \in Program, NEW b,
         Keeps(c, p, b), Keeps(c, q, b)
  PROVE  Keeps(c, p \o q, b)
  BY DEF Keeps, Program

(* What the second part will do, the whole will do. *)
LEMMA WillLater ==
  ASSUME NEW c, NEW p \in Program, NEW q \in Program, NEW b, NEW v, Will(c, q, b, v)
  PROVE  Will(c, p \o q, b, v)
<1> PICK i \in 1..Len(q) :
      SetsBit(c, q[i], b, v) /\ \A j \in (i + 1)..Len(q) : KeepsBit(c, q[j], b)
  BY DEF Will
<1>1. /\ Len(p \o q) = Len(p) + Len(q) /\ Len(p) \in Nat /\ Len(q) \in Nat
      /\ \A j \in 1..Len(q) : (p \o q)[Len(p) + j] = q[j]
  BY DEF Program
<1>2. SetsBit(c, (p \o q)[Len(p) + i], b, v)
  BY <1>1
<1>3. ASSUME NEW j \in (Len(p) + i + 1)..Len(p \o q)
      PROVE  KeepsBit(c, (p \o q)[j], b)
  <2>1. j - Len(p) \in (i + 1)..Len(q) /\ j - Len(p) \in 1..Len(q)
    BY <1>1
  <2>2. (p \o q)[Len(p) + (j - Len(p))] = q[j - Len(p)]
    BY <1>1, <2>1
  <2> QED
    BY <1>1, <2>1, <2>2
<1>4. Len(p) + i \in 1..Len(p \o q)
  BY <1>1
<1> QED
  BY <1>2, <1>3, <1>4 DEF Will

(* What the first part will do, the whole will do if the rest keeps it. *)
LEMMA WillBefore ==
  ASSUME NEW c, NEW p \in Program, NEW q \in Program, NEW b, NEW v,
         Will(c, p, b, v), Keeps(c, q, b)
  PROVE  Will(c, p \o q, b, v)
<1> PICK i \in 1..Len(p) :
      SetsBit(c, p[i], b, v) /\ \A j \in (i + 1)..Len(p) : KeepsBit(c, p[j], b)
  BY DEF Will
<1>1. /\ Len(p \o q) = Len(p) + Len(q) /\ Len(p) \in Nat /\ Len(q) \in Nat
      /\ \A j \in 1..Len(p) : (p \o q)[j] = p[j]
      /\ \A j \in 1..Len(q) : (p \o q)[Len(p) + j] = q[j]
  BY DEF Program
<1>2. SetsBit(c, (p \o q)[i], b, v)
  BY <1>1
<1>3. ASSUME NEW j \in (i + 1)..Len(p \o q)
      PROVE  KeepsBit(c, (p \o q)[j], b)
  <2>1. CASE j <= Len(p)
    BY <1>1, <2>1
  <2>2. CASE j > Len(p)
    <3>1. j - Len(p) \in 1..Len(q)
      BY <1>1, <2>2
    <3>2. (p \o q)[Len(p) + (j - Len(p))] = q[j - Len(p)]
      BY <1>1, <3>1
    <3> QED
      BY <1>1, <3>1, <3>2 DEF Keeps
  <2> QED
    BY <1>1, <2>1, <2>2
<1>4. i \in 1..Len(p \o q)
  BY <1>1
<1> QED
  BY <1>2, <1>3, <1>4 DEF Will

(* The first access of a program, and the rest of it. *)
LEMMA HeadAndRest ==
  ASSUME NEW c, NEW p \in Program, p # <<>>, NEW b, NEW v
  PROVE  /\ Keeps(c, p, b) => KeepsBit(c, Head(p), b) /\ Keeps(c, Tail(p), b)
         /\ Will(c, p, b, v) => \/ Will(c, Tail(p), b, v)
                                \/ SetsBit(c, Head(p), b, v) /\ Keeps(c, Tail(p), b)
<1>1. /\ Len(p) \in Nat \ {0} /\ Len(Tail(p)) = Len(p) - 1
      /\ Head(p) = p[1] /\ \A i \in 1..Len(Tail(p)) : Tail(p)[i] = p[i + 1]
  BY DEF Program
<1>2. Keeps(c, p, b) => KeepsBit(c, Head(p), b) /\ Keeps(c, Tail(p), b)
  BY <1>1 DEF Keeps
<1>3. ASSUME Will(c, p, b, v)
      PROVE  \/ Will(c, Tail(p), b, v)
             \/ SetsBit(c, Head(p), b, v) /\ Keeps(c, Tail(p), b)
  <2> PICK i \in 1..Len(p) :
        SetsBit(c, p[i], b, v) /\ \A j \in (i + 1)..Len(p) : KeepsBit(c, p[j], b)
    BY <1>3 DEF Will
  <2>1. CASE i = 1
    BY <1>1, <2>1 DEF Keeps
  <2>2. CASE i # 1
    <3>1. i - 1 \in 1..Len(Tail(p)) /\ Tail(p)[i - 1] = p[i]
      BY <1>1, <2>2
    <3>2. \A j \in (i - 1 + 1)..Len(Tail(p)) : KeepsBit(c, Tail(p)[j], b)
      BY <1>1
    <3> QED
      BY <3>1, <3>2 DEF Will
  <2> QED
    BY <2>1, <2>2
<1> QED
  BY <1>2, <1>3

(* Nothing is left to do: the bit has its value. *)
LEMMA Arrived == \A c, b, v, bits : OnWay(c, <<>>, b, v, bits) => (v = 1 <=> b \in bits)
  BY DEF OnWay, Will

-----------------------------------------------------------------------------
(* What the programs of power.c do                                         *)

(* The bit that keeps the converter from feeding the battery, and its      *)
(* value: DCDC_OFF of the SHP8808, EN_CHG of the BQ25756.                  *)
Off(c, b, v) ==
  \/ c = "shp" /\ b = "DCDC_OFF" /\ v = 1
  \/ c = "bq" /\ b = "EN_CHG" /\ v = 0

(* The values of the bits that a command promises; a chip that was never   *)
(* sent one is to be off.                                                  *)
Aim(c, cmd, b, v) ==
  \/ cmd = <<"charge", TRUE>> /\ c = "shp" /\ b \in {"DCDC_OFF", "OTG"} /\ v = 0
  \/ cmd = <<"charge", TRUE>> /\ c = "bq" /\ b = "EN_CHG" /\ v = 1
  \/ cmd \in {<<"charge", FALSE>>, <<"reset", TRUE>>, Never} /\ Off(c, b, v)
  \/ cmd = <<"hiz", TRUE>> /\ c = "shp" /\ b = "DCDC_OFF" /\ v = 1
  \/ cmd = <<"hiz", TRUE>> /\ c = "bq" /\ b = "HIZ" /\ v = 1
  \/ cmd = <<"reverse", TRUE>> /\ b = ReverseBit(c) /\ v = 1
  \/ cmd = <<"reverse", FALSE>> /\ b = ReverseBit(c) /\ v = 0

Met(c, cmd, bits) ==
  \A b \in Bit, v \in {0, 1} : Aim(c, cmd, b, v) => (v = 1 <=> b \in bits)

(* They are enough for what Power promises. *)
LEMMA MetHolds ==
  ASSUME NEW c \in Chip, NEW cmd, NEW bits, Met(c, cmd, bits)
  PROVE  Holds(c, cmd, bits)
<1>1. ASSUME NEW b \in {"DCDC_OFF", "OTG", "EN_CHG", "HIZ", "REVERSE"}
      PROVE  /\ Aim(c, cmd, b, 1) => b \in bits
             /\ Aim(c, cmd, b, 0) => b \notin bits
  <2>1. b \in Bit /\ 0 \in {0, 1} /\ 1 \in {0, 1}
    BY DEF Bit
  <2> QED
    BY <2>1 DEF Met
<1>2. CASE cmd = <<"charge", TRUE>>
  <2>1. CASE c = "shp"
    <3>1. Aim(c, cmd, "DCDC_OFF", 0) /\ Aim(c, cmd, "OTG", 0)
      BY <1>2, <2>1 DEF Aim
    <3> QED
      BY <1>1, <1>2, <2>1, <3>1 DEF Holds, Charging
  <2>2. CASE c = "bq"
    <3>1. Aim(c, cmd, "EN_CHG", 1)
      BY <1>2, <2>2 DEF Aim
    <3> QED
      BY <1>1, <1>2, <2>2, <3>1 DEF Holds
  <2> QED
    BY <2>1, <2>2
<1>3. CASE cmd \in {<<"charge", FALSE>>, <<"reset", TRUE>>}
  <2>1. ~Charging(c, bits)
    <3>1. CASE c = "shp"
      <4>1. Aim(c, cmd, "DCDC_OFF", 1)
        BY <1>3, <3>1 DEF Aim, Off
      <4> QED
        BY <1>1, <3>1, <4>1 DEF Charging
    <3>2. CASE c = "bq"
      <4>1. Aim(c, cmd, "EN_CHG", 0)
        BY <1>3, <3>2 DEF Aim, Off
      <4> QED
        BY <1>1, <3>2, <4>1 DEF Charging
    <3> QED
      BY <3>1, <3>2
  <2>2. CASE cmd = <<"charge", FALSE>>
    BY <2>1, <2>2 DEF Holds
  <2>3. CASE cmd = <<"reset", TRUE>>
    BY <2>1, <2>3 DEF Holds
  <2> QED
    BY <1>3, <2>2, <2>3
<1>4. CASE cmd = <<"hiz", TRUE>>
  <2>1. CASE c = "shp"
    <3>1. Aim(c, cmd, "DCDC_OFF", 1)
      BY <1>4, <2>1 DEF Aim
    <3> QED
      BY <1>1, <1>4, <2>1, <3>1 DEF Holds, Charging
  <2>2. CASE c = "bq"
    <3>1. Aim(c, cmd, "HIZ", 1)
      BY <1>4, <2>2 DEF Aim
    <3> QED
      BY <1>1, <1>4, <2>2, <3>1 DEF Holds, Charging
  <2> QED
    BY <2>1, <2>2
<1>5. CASE cmd \in {<<"reverse", TRUE>>, <<"reverse", FALSE>>}
  <2>1. ReverseBit(c) \in {"OTG", "REVERSE"}
    BY DEF ReverseBit
  <2>2. CASE cmd = <<"reverse", TRUE>>
    <3>1. Aim(c, cmd, ReverseBit(c), 1)
      BY <2>2 DEF Aim
    <3> QED
      BY <1>1, <2>1, <2>2, <3>1 DEF Holds
  <2>3. CASE cmd = <<"reverse", FALSE>>
    <3>1. Aim(c, cmd, ReverseBit(c), 0)
      BY <2>3 DEF Aim
    <3> QED
      BY <1>1, <2>1, <2>3, <3>1 DEF Holds
  <2> QED
    BY <1>5, <2>2, <2>3
<1>6. CASE cmd \notin {<<"charge", TRUE>>, <<"charge", FALSE>>, <<"reset", TRUE>>, <<"hiz", TRUE>>,
                       <<"reverse", TRUE>>, <<"reverse", FALSE>>}
  BY <1>6 DEF Holds
<1> QED
  BY <1>2, <1>3, <1>4, <1>5, <1>6

(* Where the bits are. *)
LEMMA Places ==
  /\ "DCDC_OFF" \in BitsOf("shp", "CHARGE_OPTION0")
  /\ "OTG" \in BitsOf("shp", "CHARGE_OPTION4")
  /\ "EN_CHG" \in BitsOf("bq", "CHARGER_CONTROL")
  /\ "HIZ" \in BitsOf("bq", "CHARGER_CONTROL")
  /\ "REVERSE" \in BitsOf("bq", "POWER_CONTROL")
<1>1. ShpBits("CHARGE_OPTION0") = {"DCDC_OFF", "THRESHOLDS", "REG_RST"}
  BY DEF ShpBits, ShpLimits
<1>2. ShpBits("CHARGE_OPTION4") = {"OTG", "OTG_FB_PIN", "PFM"}
  BY DEF ShpBits, ShpLimits
<1>3. BqBits("CHARGER_CONTROL") = {"EN_CHG", "HIZ", "CE_OFF", "VRECHG"}
  BY DEF BqBits, BqLimits
<1>4. BqBits("POWER_CONTROL") = {"REVERSE", "PFM", "REG_RST"}
  BY DEF BqBits, BqLimits
<1> QED
  BY <1>1, <1>2, <1>3, <1>4 DEF BitsOf

(* A setter of one bit gives it its value. *)
LEMMA SetBitSets ==
  ASSUME NEW c, NEW r, NEW b \in BitsOf(c, r), b # "REG_RST"
  PROVE  /\ SetsBit(c, SetBit(r, b, TRUE), b, 1)
         /\ SetsBit(c, SetBit(r, b, FALSE), b, 0)
  BY DEF SetsBit, SetBit, Update, Access

(* It leaves the other bits alone. *)
LEMMA SetBitKeeps ==
  ASSUME NEW c, NEW r, NEW b, NEW d, b # d, b # "REG_RST", NEW on
  PROVE  KeepsBit(c, SetBit(r, b, on), d)
  BY DEF KeepsBit, SetBit, Update, Access

(* The initialisation of the SHP8808 ends with its converter off. *)
LEMMA ShpInitOff == Will("shp", ShpChipInit, "DCDC_OFF", 1)
<1> DEFINE off == SetBit("CHARGE_OPTION0", "DCDC_OFF", TRUE)
           adc == Write("ADC_CONTROL", {})
           two == <<SetBit("JEITA_CONTROL1", "TS_OFF", TRUE),
                    SetBit("JEITA_CONTROL0", "JEITA", FALSE)>>
           mppt == <<SetBit("MPPT_CONTROL0", "MPPT", FALSE)>>
           probe == <<Read("CHARGE_OPTION0"), Read("STATUS0")>>
           first == ShpConfigurePins({}) \o two \o ShpSetHiz(FALSE)
                      \o ShpSetReverse(FALSE) \o mppt
<1>1. off \in Op /\ adc \in Op /\ probe \in Program /\ two \in Program /\ mppt \in Program
  BY SetBitOp, WriteOp, ReadOp, Short DEF Bit, Register
<1>2. SetsBit("shp", off, "DCDC_OFF", 1)
  BY Places, SetBitSets
<1>3. ShpSetCharge(FALSE) = <<off>>
  BY DEF ShpSetCharge, ShpSetDcdc
<1>4. KeepsBit("shp", adc, "DCDC_OFF")
  BY DEF KeepsBit, Write, Access, BitsOf, ShpBits, ShpLimits
<1>5. ShpSoftwareHost = first \o <<off>> /\ ShpChipInit = probe \o ShpSoftwareHost \o <<adc>>
  BY <1>3 DEF ShpSoftwareHost, ShpChipInit
<1>6. first \in Program
  BY <1>1, Short, ShpPins, ShpSetters
<1> HIDE DEF off, adc, two, mppt, probe, first
<1>7. Will("shp", <<off>>, "DCDC_OFF", 1) /\ Keeps("shp", <<adc>>, "DCDC_OFF")
  BY <1>1, <1>2, <1>4, OneAccess
<1>8. <<off>> \in Program /\ <<adc>> \in Program /\ ShpSoftwareHost \in Program
  BY <1>1, <1>5, <1>6, Short
<1>9. Will("shp", probe \o ShpSoftwareHost, "DCDC_OFF", 1)
  BY <1>1, <1>5, <1>6, <1>7, <1>8, WillLater
<1> QED
  BY <1>1, <1>5, <1>7, <1>8, <1>9, Short, WillBefore

(* That of the BQ25756 with charging disabled. *)
LEMMA BqInitOff == Will("bq", BqChipInit, "EN_CHG", 0)
<1> DEFINE off == SetBit("CHARGER_CONTROL", "EN_CHG", FALSE)
           adc == Update("ADC_CONTROL", {}, {})
           rest == <<Write("MASK1", {}), Write("ADC_CHANNEL_CONTROL", {}), adc, adc>>
           first == BqSetWatchdog(FALSE) \o BqConfigurePins({"PG_OFF", "STAT_OFF", "CE_OFF"})
                      \o <<SetBit("TS_CHARGE_BEHAVIOR", "TS", FALSE)>> \o BqSetHiz(FALSE)
                      \o BqSetReverse(FALSE) \o <<SetBit("MPPT_CONTROL", "MPPT", FALSE)>>
<1>1. /\ off \in Op /\ <<Read("PART_INFO")>> \in Program /\ rest \in Program
      /\ <<SetBit("TS_CHARGE_BEHAVIOR", "TS", FALSE)>> \in Program
      /\ <<SetBit("MPPT_CONTROL", "MPPT", FALSE)>> \in Program
  BY SetBitOp, WriteOp, ReadOp, UpdateOp, Short DEF Bit, Register
<1>2. SetsBit("bq", off, "EN_CHG", 0)
  BY Places, SetBitSets
<1>3. Keeps("bq", rest, "EN_CHG")
  <2>1. KeepsBit("bq", adc, "EN_CHG")
    BY DEF KeepsBit, Update, Access
  <2>2. KeepsBit("bq", Write("MASK1", {}), "EN_CHG")
    BY DEF KeepsBit, Write, Access, BitsOf, BqBits, BqLimits
  <2>3. KeepsBit("bq", Write("ADC_CHANNEL_CONTROL", {}), "EN_CHG")
    BY DEF KeepsBit, Write, Access, BitsOf, BqBits, BqLimits
  <2> HIDE DEF adc
  <2> QED
    BY <2>1, <2>2, <2>3 DEF Keeps
<1>4. first \in Program
  BY <1>1, Short, BqPins, BqSetters
<1>5. BqSoftwareHost = first \o <<off>> /\ BqChipInit = <<Read("PART_INFO")>> \o BqSoftwareHost \o rest
  BY DEF BqSoftwareHost, BqChipInit, BqSetCharge
<1> HIDE DEF off, rest, first
<1>6. <<off>> \in Program /\ Will("bq", <<off>>, "EN_CHG", 0)
  BY <1>1, <1>2, OneAccess, Short
<1>7. Will("bq", BqSoftwareHost, "EN_CHG", 0) /\ BqSoftwareHost \in Program
  BY <1>4, <1>5, <1>6, WillLater, Short
<1>8. Will("bq", <<Read("PART_INFO")>> \o BqSoftwareHost, "EN_CHG", 0)
  BY <1>1, <1>7, WillLater
<1> QED
  BY <1>1, <1>3, <1>5, <1>7, <1>8, Short, WillBefore

(* A chip that is initialised is left with its converter off. *)
LEMMA InitTurnsOff ==
  \A c \in Chip : \A b, v : Aim(c, Never, b, v) => Will(c, ChipInit(c), b, v)
<1>1. \A c \in Chip : \A b, v : Off(c, b, v) => Will(c, ChipInit(c), b, v)
  BY ShpInitOff, BqInitOff DEF ChipInit, Off
<1>2. \A c, b, v : Aim(c, Never, b, v) => Off(c, b, v)
  BY DEF Aim, Never
<1> QED
  BY <1>1, <1>2

(* Two accesses in a row. *)
LEMMA TwoAccesses ==
  ASSUME NEW c, NEW p \in Op, NEW q \in Op, NEW b, NEW v
  PROVE  /\ SetsBit(c, q, b, v) => Will(c, <<p, q>>, b, v)
         /\ SetsBit(c, p, b, v) /\ KeepsBit(c, q, b) => Will(c, <<p, q>>, b, v)
<1>1. Len(<<p, q>>) = 2 /\ <<p, q>>[1] = p /\ <<p, q>>[2] = q
  OBVIOUS
<1>2. 1 \in 1..2 /\ 2 \in 1..2 /\ (2 + 1)..2 = {} /\ (1 + 1)..2 = {2}
  OBVIOUS
<1> QED
  BY <1>1, <1>2 DEF Will

(* Every command sends the bits it promises on their way. *)
LEMMA ShpCommandAims ==
  ASSUME NEW name, NEW on, NEW bits, NEW b, NEW v,
         <<name, on>> # Never, Aim("shp", <<name, on>>, b, v)
  PROVE  Will("shp", ShpCommand(name, on, bits), b, v)
<1> DEFINE Dcdc(x) == SetBit("CHARGE_OPTION0", "DCDC_OFF", x)
           Otg(x)  == SetBit("CHARGE_OPTION4", "OTG", x)
<1>1. /\ Dcdc(TRUE) \in Op /\ Dcdc(FALSE) \in Op
      /\ Otg(TRUE) \in Op /\ Otg(FALSE) \in Op
  BY SetBitOp DEF Bit, Register
<1>3. /\ SetsBit("shp", Dcdc(TRUE), "DCDC_OFF", 1) /\ SetsBit("shp", Dcdc(FALSE), "DCDC_OFF", 0)
      /\ SetsBit("shp", Otg(TRUE), "OTG", 1) /\ SetsBit("shp", Otg(FALSE), "OTG", 0)
      /\ KeepsBit("shp", Dcdc(TRUE), "OTG") /\ KeepsBit("shp", Dcdc(FALSE), "OTG")
      /\ KeepsBit("shp", Otg(TRUE), "DCDC_OFF") /\ KeepsBit("shp", Otg(FALSE), "DCDC_OFF")
  BY Places, SetBitSets, SetBitKeeps
<1>4. /\ ShpSetCharge(TRUE) = <<Otg(FALSE), Dcdc(FALSE)>>
      /\ ShpSetCharge(FALSE) = <<Dcdc(TRUE)>>
      /\ ShpSetHiz(TRUE) = <<Dcdc(TRUE)>>
      /\ ShpSetReverse(TRUE) = <<Dcdc(FALSE), Otg(TRUE)>>
      /\ ShpSetReverse(FALSE) = <<Otg(FALSE)>>
  BY DEF ShpSetCharge, ShpSetHiz, ShpSetReverse, ShpSetDcdc
<1> HIDE DEF Dcdc, Otg
<1>5. CASE <<name, on>> = <<"charge", TRUE>>
  <2>1. (b = "DCDC_OFF" \/ b = "OTG") /\ v = 0
    BY <1>5 DEF Aim
  <2>2. Will("shp", <<Otg(FALSE), Dcdc(FALSE)>>, b, v)
    BY <1>1, <1>3, <2>1, TwoAccesses
  <2> QED
    BY <1>4, <1>5, <2>2 DEF ShpCommand
<1>6. CASE <<name, on>> \in {<<"charge", FALSE>>, <<"hiz", TRUE>>}
  <2>1. b = "DCDC_OFF" /\ v = 1
    BY <1>6 DEF Aim, Off
  <2>2. Will("shp", <<Dcdc(TRUE)>>, b, v)
    BY <1>1, <1>3, <2>1, OneAccess
  <2> QED
    BY <1>4, <1>6, <2>2 DEF ShpCommand
<1>7. CASE <<name, on>> = <<"reverse", TRUE>>
  <2>1. b = "OTG" /\ v = 1
    BY <1>7 DEF Aim, ReverseBit
  <2>2. Will("shp", <<Dcdc(FALSE), Otg(TRUE)>>, b, v)
    BY <1>1, <1>3, <2>1, TwoAccesses
  <2> QED
    BY <1>4, <1>7, <2>2 DEF ShpCommand
<1>8. CASE <<name, on>> = <<"reverse", FALSE>>
  <2>1. b = "OTG" /\ v = 0
    BY <1>8 DEF Aim, ReverseBit
  <2>2. Will("shp", <<Otg(FALSE)>>, b, v)
    BY <1>1, <1>3, <2>1, OneAccess
  <2> QED
    BY <1>4, <1>8, <2>2 DEF ShpCommand
<1>9. CASE <<name, on>> = <<"reset", TRUE>>
  <2>1. b = "DCDC_OFF" /\ v = 1
    BY <1>9 DEF Aim, Off
  <2>2. <<SetBit("CHARGE_OPTION0", "REG_RST", TRUE)>> \in Program
    BY SetBitOp, Short DEF Bit, Register
  <2>3. Will("shp", <<SetBit("CHARGE_OPTION0", "REG_RST", TRUE)>> \o ShpChipInit, b, v)
    BY <2>1, <2>2, ShpInit, ShpInitOff, WillLater
  <2> QED
    BY <1>9, <2>3 DEF ShpCommand
<1> QED
  BY <1>5, <1>6, <1>7, <1>8, <1>9 DEF Aim

(* The same for the BQ25756. *)
LEMMA BqCommandAims ==
  ASSUME NEW name, NEW on, NEW bits, NEW b, NEW v,
         <<name, on>> # Never, Aim("bq", <<name, on>>, b, v)
  PROVE  Will("bq", BqCommand(name, on, bits), b, v)
<1>1. \A r : \A d \in BitsOf("bq", r) : d # "REG_RST" =>
        /\ SetsBit("bq", SetBit(r, d, TRUE), d, 1)
        /\ SetsBit("bq", SetBit(r, d, FALSE), d, 0)
  BY SetBitSets
<1>2. \A x : /\ SetBit("CHARGER_CONTROL", "EN_CHG", x) \in Op
             /\ SetBit("CHARGER_CONTROL", "HIZ", x) \in Op
             /\ SetBit("POWER_CONTROL", "REVERSE", x) \in Op
  BY SetBitOp DEF Bit, Register
<1>3. CASE <<name, on>> = <<"charge", TRUE>>
  <2>1. b = "EN_CHG" /\ v = 1
    BY <1>3 DEF Aim
  <2>2. Will("bq", <<SetBit("CHARGER_CONTROL", "EN_CHG", TRUE)>>, b, v)
    BY <1>1, <1>2, <2>1, Places, OneAccess
  <2> QED
    BY <1>3, <2>2 DEF BqCommand, BqSetCharge
<1>7. CASE <<name, on>> = <<"charge", FALSE>>
  <2>1. b = "EN_CHG" /\ v = 0
    BY <1>7 DEF Aim, Off
  <2>2. Will("bq", <<SetBit("CHARGER_CONTROL", "EN_CHG", FALSE)>>, b, v)
    BY <1>1, <1>2, <2>1, Places, OneAccess
  <2> QED
    BY <1>7, <2>2 DEF BqCommand, BqSetCharge
<1>4. CASE <<name, on>> = <<"hiz", TRUE>>
  <2>1. b = "HIZ" /\ v = 1
    BY <1>4 DEF Aim
  <2>2. Will("bq", <<SetBit("CHARGER_CONTROL", "HIZ", TRUE)>>, b, v)
    BY <1>1, <1>2, <2>1, Places, OneAccess
  <2> QED
    BY <1>4, <2>2 DEF BqCommand, BqSetHiz
<1>5. CASE <<name, on>> = <<"reverse", TRUE>>
  <2>1. b = "REVERSE" /\ v = 1
    BY <1>5 DEF Aim, ReverseBit
  <2>2. Will("bq", <<SetBit("POWER_CONTROL", "REVERSE", TRUE)>>, b, v)
    BY <1>1, <1>2, <2>1, Places, OneAccess
  <2> QED
    BY <1>5, <2>2 DEF BqCommand, BqSetReverse
<1>8. CASE <<name, on>> = <<"reverse", FALSE>>
  <2>1. b = "REVERSE" /\ v = 0
    BY <1>8 DEF Aim, ReverseBit
  <2>2. Will("bq", <<SetBit("POWER_CONTROL", "REVERSE", FALSE)>>, b, v)
    BY <1>1, <1>2, <2>1, Places, OneAccess
  <2> QED
    BY <1>8, <2>2 DEF BqCommand, BqSetReverse
<1>6. CASE <<name, on>> = <<"reset", TRUE>>
  <2>1. b = "EN_CHG" /\ v = 0
    BY <1>6 DEF Aim, Off
  <2>2. <<SetBit("POWER_CONTROL", "REG_RST", TRUE)>> \in Program
    BY SetBitOp, Short DEF Bit, Register
  <2>3. Will("bq", <<SetBit("POWER_CONTROL", "REG_RST", TRUE)>> \o BqChipInit, b, v)
    BY <2>1, <2>2, BqInit, BqInitOff, WillLater
  <2> QED
    BY <1>6, <2>3 DEF BqCommand
<1> QED
  BY <1>3, <1>4, <1>5, <1>6, <1>7, <1>8 DEF Aim, Off

(* Both chips. *)
LEMMA CommandAims ==
  ASSUME NEW c \in Chip, NEW name, NEW on, NEW bits, NEW b, NEW v,
         <<name, on>> # Never, Aim(c, <<name, on>>, b, v)
  PROVE  Will(c, Command(c, name, on, bits), b, v)
<1>1. CASE c = "shp"
  BY <1>1, ShpCommandAims DEF Command
<1>2. CASE c = "bq"
  BY <1>2, BqCommandAims DEF Command
<1> QED
  BY <1>1, <1>2

-----------------------------------------------------------------------------
(* The inductive invariant                                                 *)

(* What command cmd promises is on its way, with p left to do. *)
Way(c, cmd, p, bits) ==
  \A b \in Bit, v \in {0, 1} : Aim(c, cmd, b, v) => OnWay(c, p, b, v, bits)

(* The initialisation of a chip is turning it off, and the chip is off when *)
(* it is about to be published.                                             *)
SearchAims ==
  /\ pc["power"] = "publish_lock" => run["power"].ok
  /\ pc["power"] \in {"init", "publish_lock"} /\ run["power"].ok =>
       Way(run["power"].chip, Never, run["power"].prog, reg[run["power"].chip])

(* A command that has not failed is doing what it promises; until it is     *)
(* done, the chip has promised nothing.                                     *)
CommandsAim ==
  pc["web"] = "exec" =>
    /\ last[run["web"].chip] = Unacked
    /\ run["web"].ok =>
         Way(run["web"].chip, req.cmd, run["web"].prog, reg[run["web"].chip])

(* What a present chip has promised holds. *)
PromisesMet ==
  \A c \in Chip : /\ last[c] # Never => present[c]
                  /\ present[c] => Met(c, last[c], reg[c])

Aims == SearchAims /\ CommandsAim /\ PromisesMet

(* A chip that is off does not feed the battery. *)
LEMMA MetOff ==
  ASSUME NEW c \in Chip, NEW bits, Met(c, Never, bits)
  PROVE  ~Charging(c, bits)
<1>1. "DCDC_OFF" \in Bit /\ "EN_CHG" \in Bit
  BY DEF Bit
<1>2. CASE c = "shp"
  <2>1. Aim(c, Never, "DCDC_OFF", 1)
    BY <1>2 DEF Aim, Off
  <2> QED
    BY <1>1, <1>2, <2>1 DEF Met, Charging
<1>3. CASE c = "bq"
  <2>1. Aim(c, Never, "EN_CHG", 0)
    BY <1>3 DEF Aim, Off
  <2> QED
    BY <1>1, <1>3, <2>1 DEF Met, Charging
<1> QED
  BY <1>2, <1>3

(* A command that is being executed promises nothing yet. *)
LEMMA NoAims ==
  ASSUME NEW c
  PROVE  \A bits : Met(c, Unacked, bits)
  BY DEF Met, Aim, Off, Unacked, Never

(* A program that is over has done what was on its way. *)
LEMMA WayEnds ==
  ASSUME NEW c, NEW cmd, NEW bits, Way(c, cmd, <<>>, bits)
  PROVE  Met(c, cmd, bits)
  BY Arrived DEF Way, Met

-----------------------------------------------------------------------------
(* Steps on the bus *)

(* A step that does not end the program with an error does the access, or  *)
(* an access that nobody needs was dropped.                                *)
LEMMA BusOutcome ==
  ASSUME Inv, NEW t \in Thread, Bus(t), run'[t].ok
  PROVE  /\ run[t].ok
         /\ \/ run'[t].prog = run[t].prog /\ reg' = reg
            \/ /\ run'[t].prog = Tail(run[t].prog)
               /\ \/ BusWrite(t)
                  \/ /\ reg' = reg
                     /\ ~(NextOp(t).must /\ NextOp(t).kind \in {"write", "update"})
<1> USE DEF chips
<1>0. run \in [Thread -> RunState] /\ run[t] \in RunState /\ InProgram(t)
  BY SkipKickShape, BeginShape, TransferShape, FailShape DEF Bus, BusShape, Inv, TypeOK
<1>1. /\ Advance(t).ok = run[t].ok /\ Advance(t).prog = Tail(run[t].prog)
      /\ AfterError(t).ok => /\ ~NextOp(t).must
                             /\ AfterError(t).prog = Tail(run[t].prog)
                             /\ run[t].ok
  BY <1>0 DEF Advance, AfterError, RunState
<1>2. CASE SkipKick(t)
  BY <1>0, <1>1, <1>2 DEF SkipKick, KickIdle
<1>3. CASE BeginTransfer(t)
  BY <1>0, <1>1, <1>3 DEF BeginTransfer
<1>4. CASE Transfer(t)
  <2>1. CASE /\ NextOp(t).kind \in {"read", "poll"}
             /\ run' = [run EXCEPT ![t] = Advance(t)] /\ reg' = reg
    BY <1>0, <1>1, <2>1
  <2>2. CASE /\ run' = [run EXCEPT ![t].rmw = TRUE,
                                   ![t].cur = Held(run[t].chip, NextOp(t).reg)]
             /\ reg' = reg
    BY <1>0, <2>2 DEF RunState
  <2>3. CASE Writes(t) /\ StoreOp(t) /\ run' = [run EXCEPT ![t] = Advance(t)]
    BY <1>0, <1>1, <2>3 DEF BusWrite
  <2> QED
    BY <1>4, <2>1, <2>2, <2>3 DEF Transfer
<1>5. CASE FailTransfer(t)
  BY <1>0, <1>1, <1>5 DEF FailTransfer, BusWrite
<1> QED
  BY <1>2, <1>3, <1>4, <1>5 DEF Bus

(* What a write leaves in the chip it is made to, and in the other chip. *)
LEMMA AccessMade ==
  ASSUME Inv, RmwFresh, NEW t \in Thread, BusWrite(t)
  PROVE  LET c == run[t].chip  op == NextOp(t)
         IN  /\ \A d \in Chip : d # c => reg'[d] = reg[d]
             /\ "REG_RST" \notin op.val =>
                  reg'[c] = IF op.kind = "write"
                            THEN (reg[c] \ BitsOf(c, op.reg)) \cup op.val
                            ELSE (reg[c] \ (BitsOf(c, op.reg) \cap op.mask)) \cup op.val
<1> DEFINE c == run[t].chip
           op == NextOp(t)
<1>1. reg \in [Chip -> SUBSET Setting] /\ c \in Chip
  BY DEF Inv, TypeOK, RunState
<1>2. reg' = [reg EXCEPT ![c] = Stored(c, op.reg, Merge(op, run[t].cur))]
  BY DEF BusWrite, StoreOp
<1>3. ASSUME op.kind = "write", "REG_RST" \notin op.val
      PROVE  reg'[c] = (reg[c] \ BitsOf(c, op.reg)) \cup op.val
  BY <1>1, <1>2, <1>3 DEF Stored, Merge
<1>4. ASSUME op.kind # "write", "REG_RST" \notin op.val
      PROVE  reg'[c] = (reg[c] \ (BitsOf(c, op.reg) \cap op.mask)) \cup op.val
  <2>1. run[t].cur = reg[c] \cap BitsOf(c, op.reg)
    BY <1>4 DEF BusWrite, Writes, RmwFresh, Held
  <2>2. "REG_RST" \notin (run[t].cur \ op.mask) \cup op.val
    BY <1>1, <1>4, <2>1 DEF Setting
  <2>3. reg'[c] = (reg[c] \ BitsOf(c, op.reg)) \cup ((run[t].cur \ op.mask) \cup op.val)
    BY <1>1, <1>2, <1>4, <2>2 DEF Stored, Merge
  <2> HIDE DEF c, op
  <2> QED
    BY <2>1, <2>3
<1> QED
  BY <1>1, <1>2, <1>3, <1>4

(* A bit on its way stays on it, unless the program ends with an error. *)
LEMMA OnWayStep ==
  ASSUME Inv, RmwFresh, NEW t \in Thread, Bus(t), run'[t].ok, NEW b, NEW v,
         OnWay(run[t].chip, run[t].prog, b, v, reg[run[t].chip])
  PROVE  OnWay(run[t].chip, run'[t].prog, b, v, reg'[run[t].chip])
<1> DEFINE c == run[t].chip
           op == NextOp(t)
           p == run[t].prog
<1>1. CASE run'[t].prog = p /\ reg' = reg
  BY <1>1
<1>2. CASE run'[t].prog = Tail(p)
  <2>1. p \in Program /\ p # <<>> /\ op = Head(p)
    BY SkipKickShape, BeginShape, TransferShape, FailShape
       DEF Bus, BusShape, Inv, TypeOK, RunState, InProgram, NextOp
  <2>2. KeepsBit(c, op, b) => (b \in reg'[c] <=> b \in reg[c])
    <3>1. CASE BusWrite(t)
      BY <3>1, AccessMade DEF KeepsBit
    <3>2. CASE reg' = reg
      BY <3>2
    <3> QED
      BY <3>1, <3>2, OnBus
  <2>3. SetsBit(c, op, b, v) => (v = 1 <=> b \in reg'[c])
    <3>1. CASE BusWrite(t)
      BY <3>1, AccessMade DEF SetsBit
    <3>2. CASE ~(op.must /\ op.kind \in {"write", "update"})
      BY <3>2 DEF SetsBit
    <3>3. p # Tail(p)
      <4>1. Len(p) \in Nat /\ Len(Tail(p)) = Len(p) - 1
        BY <2>1 DEF Program
      <4>2. Len(Tail(p)) # Len(p)
        BY <4>1
      <4> QED
        BY <4>2
    <3> QED
      BY <1>2, <3>1, <3>2, <3>3, BusOutcome
  <2>4. CASE Will(c, p, b, v)
    BY <1>2, <2>1, <2>3, <2>4, HeadAndRest DEF OnWay
  <2>5. CASE (v = 1 <=> b \in reg[c]) /\ Keeps(c, p, b)
    BY <1>2, <2>1, <2>2, <2>5, HeadAndRest DEF OnWay
  <2> HIDE DEF c, op, p
  <2> QED
    BY <2>4, <2>5 DEF OnWay, c, p
<1> QED
  BY <1>1, <1>2, BusOutcome

(* All the bits of a promise. *)
LEMMA WayStep ==
  ASSUME Inv, RmwFresh, NEW t \in Thread, Bus(t), run'[t].ok, NEW cmd,
         Way(run[t].chip, cmd, run[t].prog, reg[run[t].chip])
  PROVE  Way(run[t].chip, cmd, run'[t].prog, reg'[run[t].chip])
  BY OnWayStep DEF Way

(* A step on the bus leaves the chips alone that the thread does not drive. *)
LEMMA OtherChip ==
  ASSUME Inv, RmwFresh, NEW t \in Thread, Bus(t), NEW d \in Chip, d # run[t].chip
  PROVE  reg'[d] = reg[d]
  BY OnBus, AccessMade

(* The invariant on the bus. *)
LEMMA AimsOnBus ==
  ASSUME Inv, RmwFresh, Aims, [Next]_vars, NEW t \in Thread, Bus(t)
  PROVE  Aims'
<1>1. BusShape(t)
  BY SkipKickShape, BeginShape, TransferShape, FailShape DEF Bus
<1>2. /\ UNCHANGED <<present, owner, pc, req, last>> /\ InProgram(t)
      /\ run'[t].chip = run[t].chip
      /\ \A u \in Thread : u # t => run'[u] = run[u]
  BY <1>1 DEF BusShape
<1>3. run[t].chip \in Chip /\ run["power"].chip \in Chip /\ run["web"].chip \in Chip
  BY DEF Inv, TypeOK, RunState
<1>4. SearchAims'
  <2>1. CASE t = "power"
    <3>1. pc["power"] # "publish_lock"
      BY <1>2, <2>1 DEF Inv, Execution
    <3>2. ASSUME pc["power"] = "init", run'["power"].ok
          PROVE  Way(run["power"].chip, Never, run'["power"].prog, reg'[run["power"].chip])
      BY <2>1, <3>2, BusOutcome, WayStep DEF Aims, SearchAims
    <3> QED
      BY <1>2, <2>1, <3>1, <3>2 DEF SearchAims
  <2>2. CASE t = "web"
    <3>1. present[run["web"].chip]
      BY <1>2, <2>2 DEF Inv, LockDiscipline, Guarded
    <3>2. pc["power"] \in {"init", "publish_lock"} => ~present[run["power"].chip]
      BY <1>3 DEF Inv, SearchOrder
    <3>3. pc["power"] \in {"init", "publish_lock"} =>
            reg'[run["power"].chip] = reg[run["power"].chip]
      BY <1>3, <2>2, <3>1, <3>2, OtherChip
    <3>4. run'["power"] = run["power"]
      BY <1>2, <2>2
    <3> QED
      BY <1>2, <3>3, <3>4 DEF Aims, SearchAims
  <2> QED
    BY <2>1, <2>2
<1>5. CommandsAim'
  <2>1. CASE t = "web"
    <3>1. ASSUME pc["web"] = "exec", run'["web"].ok
          PROVE  Way(run["web"].chip, req.cmd, run'["web"].prog, reg'[run["web"].chip])
      BY <2>1, <3>1, BusOutcome, WayStep DEF Aims, CommandsAim
    <3> QED
      BY <1>2, <2>1, <3>1 DEF Aims, CommandsAim
  <2>2. CASE t = "power"
    <3>1. pc["web"] = "exec" => owner = "web" /\ present[run["web"].chip]
      BY DEF Inv, LockDiscipline, HolderOwns, Execution
    <3>2. pc["web"] = "exec" => run["web"].chip # run["power"].chip
      BY <1>2, <2>2, <3>1 DEF Inv, LockDiscipline, Guarded
    <3>3. pc["web"] = "exec" => reg'[run["web"].chip] = reg[run["web"].chip]
      BY <1>3, <2>2, <3>2, OtherChip
    <3>4. run'["web"] = run["web"]
      BY <1>2, <2>2
    <3> QED
      BY <1>2, <3>3, <3>4 DEF Aims, CommandsAim
  <2> QED
    BY <2>1, <2>2
<1>6. PromisesMet'
  <2>1. ASSUME NEW c \in Chip, present[c]
        PROVE  Met(c, last[c], reg'[c])
    <3>1. CASE reg'[c] = reg[c]
      BY <2>1, <3>1 DEF Aims, PromisesMet
    <3>2. CASE reg'[c] # reg[c]
      BY <2>1, <3>2, WritesByCommand, NoAims DEF Aims, CommandsAim
    <3> QED
      BY <3>1, <3>2
  <2> QED
    BY <1>2, <2>1 DEF Aims, PromisesMet
<1> QED
  BY <1>4, <1>5, <1>6 DEF Aims

-----------------------------------------------------------------------------
(* Steps off the bus *)

(* What holds of the search holds as long as it rests. *)
LEMMA SearchRests ==
  ASSUME Aims, reg' = reg, run'["power"] = run["power"], pc'["power"] = pc["power"]
  PROVE  SearchAims'
  BY DEF Aims, SearchAims

(* Outside the initialisation of a chip it says nothing. *)
LEMMA SearchOver ==
  ASSUME pc'["power"] \notin {"init", "publish_lock"}
  PROVE  SearchAims'
  BY DEF SearchAims

(* At the begin of the initialisation the chip is being turned off. *)
LEMMA SearchBegins ==
  ASSUME NEW c \in Chip, pc'["power"] = "init", run'["power"] = Start(c, ChipInit(c))
  PROVE  SearchAims'
<1>1. run'["power"].chip = c /\ run'["power"].prog = ChipInit(c)
  BY DEF Start, Idle
<1>2. Way(c, Never, ChipInit(c), reg'[c])
  BY InitTurnsOff DEF Way, OnWay
<1> QED
  BY <1>1, <1>2 DEF SearchAims

(* As long as web rests. *)
LEMMA CommandRests ==
  ASSUME Aims, reg' = reg, last' = last, req' = req, run'["web"] = run["web"],
         pc'["web"] = pc["web"]
  PROVE  CommandsAim'
  BY DEF Aims, CommandsAim

(* What was promised holds as long as no chip and no promise changes. *)
LEMMA PromisesKept ==
  ASSUME Aims, reg' = reg, last' = last, present' = present
  PROVE  PromisesMet'
  BY DEF Aims, PromisesMet

(* The next step of the search. *)
LEMMA AfterChipAims ==
  ASSUME Inv, NEW c \in Chip, AfterChip(c)
  PROVE  SearchAims' /\ pc'["web"] = pc["web"] /\ run'["web"] = run["web"]
<1>1. pc \in [Thread -> PowerPC \cup WebPC] /\ run \in [Thread -> RunState]
  BY DEF Inv, TypeOK
<1>2. CASE c = "shp"
  BY <1>1, <1>2, SearchBegins DEF AfterChip
<1>3. CASE c # "shp"
  BY <1>1, <1>3, SearchOver DEF AfterChip
<1> QED
  BY <1>2, <1>3

(* The steps of the power thread. *)
LEMMA AimsPower ==
  ASSUME Inv, Aims, PowerStep, ~Bus("power"), reg' = reg
  PROVE  Aims'
<1> USE DEF chips, lock, client
<1>0. /\ pc \in [Thread -> PowerPC \cup WebPC] /\ run \in [Thread -> RunState]
      /\ run["power"].chip \in Chip
  BY DEF Inv, TypeOK, RunState
<1>1. CASE TakeLock("power")
  BY <1>1, SearchRests, CommandRests, PromisesKept DEF TakeLock, Aims
<1>2. CASE OpenBus
  <2>1. SearchAims'
    BY <1>0, <1>2, SearchBegins, SearchOver DEF OpenBus
  <2>2. pc'["web"] = pc["web"] /\ run'["web"] = run["web"]
    BY <1>0, <1>2 DEF OpenBus
  <2> QED
    BY <1>2, <2>1, <2>2, CommandRests, PromisesKept DEF OpenBus, Aims
<1>3. CASE InitDone
  <2>1. CASE run["power"].ok
    <3>1. SearchAims'
      BY <1>0, <1>3, <2>1 DEF InitDone, Aims, SearchAims
    <3> QED
      BY <1>0, <1>3, <2>1, <3>1, CommandRests, PromisesKept DEF InitDone, Aims
  <2>2. CASE ~run["power"].ok
    BY <1>0, <1>3, <2>2, AfterChipAims, CommandRests, PromisesKept DEF InitDone, Aims
  <2> QED
    BY <2>1, <2>2
<1>4. CASE Publish
  <2> DEFINE c == run["power"].chip
  <2>1. pc'["power"] = "publish" /\ pc'["web"] = pc["web"] /\ run'["web"] = run["web"]
    BY <1>0, <1>4 DEF Publish
  <2>2. ~present[c] /\ last[c] = Never
    BY <1>0, <1>4 DEF Publish, Inv, SearchOrder, Aims, PromisesMet
  <2>3. run["power"].prog = <<>>
    BY <1>4 DEF Publish, Inv, Execution, InProgram
  <2>4. Way(c, Never, <<>>, reg[c])
    BY <1>4, <2>3 DEF Publish, Aims, SearchAims
  <2>5. Met(c, last[c], reg[c])
    BY <2>2, <2>4, WayEnds
  <2>6. present' = [present EXCEPT ![c] = TRUE] /\ last' = last /\ req' = req
    BY <1>4 DEF Publish
  <2>7. PromisesMet'
    BY <2>5, <2>6 DEF Aims, PromisesMet, Inv, TypeOK
  <2> QED
    BY <2>1, <2>6, <2>7, SearchOver, CommandRests DEF Aims
<1>5. CASE PublishDone
  BY <1>0, <1>5, AfterChipAims, CommandRests, PromisesKept DEF PublishDone, Aims
<1>6. CASE NapOver
  BY <1>0, <1>6, SearchBegins, CommandRests, PromisesKept DEF NapOver, Aims
<1>7. CASE SampleStart \/ SleepOver
  <2>1. pc'["power"] \in {"sample", "sample_lock"} /\ pc'["web"] = pc["web"]
        /\ run'["web"] = run["web"] /\ UNCHANGED <<present, last, req>>
    BY <1>0, <1>7 DEF SampleStart, SleepOver
  <2> QED
    BY <2>1, SearchOver, CommandRests, PromisesKept DEF Aims
<1>8. CASE SampleNext
  <2>1. pc'["power"] \in {"sample", "sleep"} /\ pc'["web"] = pc["web"]
        /\ run'["web"] = run["web"] /\ UNCHANGED <<present, last, req>>
    BY <1>0, <1>8 DEF SampleNext
  <2> QED
    BY <2>1, SearchOver, CommandRests, PromisesKept DEF Aims
<1> QED
  BY <1>1, <1>2, <1>3, <1>4, <1>5, <1>6, <1>7, <1>8 DEF PowerStep

(* Where web executes no command, nothing is said of it. *)
LEMMA NoCommand ==
  ASSUME Inv, Aims, reg' = reg, last' = last, present' = present,
         run'["power"] = run["power"], pc'["power"] = pc["power"], pc'["web"] # "exec"
  PROVE  Aims'
  BY SearchRests, PromisesKept DEF Aims, CommandsAim

(* The steps of the web thread and of the clients. *)
LEMMA AimsWeb ==
  ASSUME Inv, Aims, WebStep \/ Client \/ LockTimeout, ~Bus("web"), reg' = reg
  PROVE  Aims'
<1> USE DEF chips, lock, client
<1>0. pc \in [Thread -> PowerPC \cup WebPC] /\ run \in [Thread -> RunState]
  BY DEF Inv, TypeOK
<1>1. CASE TakeLock("web")
  BY <1>1, SearchRests, CommandRests, PromisesKept DEF TakeLock, Aims
<1>2. CASE Client \/ LockTimeout \/ Reply
  <2>1. CASE Client
    BY <1>0, <2>1, NoCommand DEF Client, Request
  <2>2. CASE LockTimeout
    BY <1>0, <2>2, NoCommand DEF LockTimeout, Answer
  <2>3. CASE Reply
    BY <1>0, <2>3, NoCommand DEF Reply
  <2> QED
    BY <1>2, <2>1, <2>2, <2>3
<1>3. CASE CopySnapshot \/ CopyReturn \/ CommandAbsent
  <2>1. CASE CopySnapshot
    BY <1>0, <2>1, NoCommand DEF CopySnapshot
  <2>2. CASE CopyReturn
    BY <1>0, <2>2, NoCommand DEF CopyReturn, Answer
  <2>3. CASE CommandAbsent
    BY <1>0, <2>3, NoCommand DEF CommandAbsent, Answer
  <2> QED
    BY <1>3, <2>1, <2>2, <2>3
<1>4. CASE CommandStart
  <2> DEFINE c == req.chip
             p == Command(c, req.cmd[1], req.cmd[2], snap[c])
  <2>1. c \in Chip /\ req.cmd = <<req.cmd[1], req.cmd[2]>> /\ req.cmd # Never
    <3>1. c \in Chip /\ req.cmd \in Commands
      BY <1>4 DEF CommandStart, Inv, TypeOK
    <3>2. PICK d \in Chip : req.cmd \in Menu[d]
      BY <3>1 DEF Commands
    <3>3. req.cmd \in STRING \X BOOLEAN
      BY <3>2, PowerAssumption
    <3>4. req.cmd # Never
      BY <3>2, MenuAssumption
    <3> QED
      BY <3>1, <3>3, <3>4
  <2>2. Way(c, req.cmd, p, reg[c])
    BY <2>1, CommandAims DEF Way, OnWay
  <2>3. /\ pc'["web"] = "exec" /\ pc'["power"] = pc["power"] /\ run'["power"] = run["power"]
        /\ run'["web"].chip = c /\ run'["web"].prog = p /\ req'.cmd = req.cmd
        /\ present[c] /\ present' = present /\ last' = [last EXCEPT ![c] = Unacked]
    BY <1>0, <1>4 DEF CommandStart, Start, Idle, Inv, TypeOK
  <2>4. last \in [Chip -> Commands \cup {Never, Unacked}]
    BY DEF Inv, TypeOK
  <2> HIDE DEF p, c
  <2>5. CommandsAim'
    BY <2>1, <2>2, <2>3, <2>4 DEF CommandsAim
  <2>6. PromisesMet'
    BY <2>1, <2>3, <2>4, NoAims DEF Aims, PromisesMet
  <2> QED
    BY <2>3, <2>5, <2>6, SearchRests DEF Aims
<1>5. CASE CommandDone
  <2> DEFINE c == run["web"].chip
  <2>1. pc'["web"] # "exec" /\ pc'["power"] = pc["power"] /\ run'["power"] = run["power"]
        /\ present' = present
    BY <1>0, <1>5 DEF CommandDone, Answer
  <2>2. CASE ~run["web"].ok
    BY <1>5, <2>1, <2>2, NoCommand DEF CommandDone
  <2>3. CASE run["web"].ok
    <3>1. c \in Chip /\ present[c] /\ run["web"].prog = <<>> /\ last' = [last EXCEPT ![c] = req.cmd]
      BY <1>5, <2>3 DEF CommandDone, Inv, TypeOK, RunState, Execution, InProgram
    <3>2. Met(c, req.cmd, reg[c])
      BY <1>5, <2>3, <3>1, WayEnds DEF CommandDone, Aims, CommandsAim
    <3>3. PromisesMet'
      BY <2>1, <3>1, <3>2 DEF Aims, PromisesMet, Inv, TypeOK
    <3> QED
      BY <2>1, <3>3, SearchRests DEF Aims, CommandsAim
  <2> QED
    BY <2>2, <2>3
<1>6. CASE CommandRefreshed
  BY <1>0, <1>6, NoCommand DEF CommandRefreshed, Answer
<1> QED
  BY <1>1, <1>2, <1>3, <1>4, <1>5, <1>6 DEF WebStep

(* Aims is inductive relative to Inv and RmwFresh. *)
LEMMA AimsNext == Inv /\ RmwFresh /\ Aims /\ [Next]_vars => Aims'
<1> SUFFICES ASSUME Inv, RmwFresh, Aims, [Next]_vars PROVE Aims'
  OBVIOUS
<1>1. CASE Bus("power") \/ Bus("web")
  BY <1>1, AimsOnBus
<1>2. CASE ~Bus("power") /\ ~Bus("web")
  <2>1. reg' = reg
    BY <1>2, OffBus
  <2>2. CASE UNCHANGED vars
    BY <2>2, SearchRests, CommandRests, PromisesKept DEF vars, Aims
  <2> QED
    BY <1>2, <2>1, <2>2, AimsPower, AimsWeb DEF Next
<1> QED
  BY <1>1, <1>2

(* At first nothing has been promised, and no chip is present. *)
LEMMA InitAims == Init => Aims
  BY DEF Init, Aims, SearchAims, CommandsAim, PromisesMet

(* The whole inductive invariant. *)
Effects == Inv /\ RmwFresh /\ Aims

LEMMA EffectsHold == Spec => []Effects
<1>1. Init => Effects
  BY InitInv, InitRmw, InitAims DEF Effects
<1>2. Effects /\ [Next]_vars => Effects'
  BY NextInv, RmwNext, AimsNext DEF Effects
<1> QED
  BY <1>1, <1>2, PTL DEF Spec

(* A chip that was published and never commanded does not charge, whatever *)
(* it held at power-on, whichever transfers failed and however often the   *)
(* search began anew.                                                      *)
THEOREM PublishedNotCharging == Spec => []PublishedOff
<1>1. Effects => PublishedOff
  <2> SUFFICES ASSUME Effects, NEW c \in Chip, present[c], last[c] = Never
               PROVE  ~Charging(c, reg[c])
    BY DEF PublishedOff
  <2>1. Met(c, Never, reg[c])
    BY DEF Effects, Aims, PromisesMet
  <2> QED
    BY <2>1, MetOff
<1> QED
  BY <1>1, EffectsHold, PTL

(* What a command answered 0 promises holds until the next command to the  *)
(* chip is executed: the setters reach the bits they name although they    *)
(* read, merge and write whole registers, and nothing undoes them.         *)
THEOREM AcknowledgedHolds == Spec => []AckedHolds
<1>1. Effects => AckedHolds
  <2> SUFFICES ASSUME Effects, NEW c \in Chip PROVE Holds(c, last[c], reg[c])
    BY DEF AckedHolds
  <2>1. CASE present[c]
    BY <2>1, MetHolds DEF Effects, Aims, PromisesMet
  <2>2. CASE ~present[c]
    <3>1. last[c] = Never
      BY <2>2 DEF Effects, Aims, PromisesMet
    <3> QED
      BY <3>1 DEF Holds, Never
  <2> QED
    BY <2>1, <2>2
<1> QED
  BY <1>1, EffectsHold, PTL
-----------------------------------------------------------------------------
(* The answer to a GET *)

(* What was copied out stays true until the call returns; a call that      *)
(* copied nothing has nothing to show.                                     *)
GetsServed ==
  /\ pc["web"] = "return" => req.cmd = Get /\ (view.present <=> present[req.chip])
  /\ pc["web"] \in {"idle", "lock", "exec", "refresh"} => view = NoView
  /\ ReplyConsistent

(* As long as web waits for the processor, power does not run. *)
LEMMA WebFirst ==
  ASSUME Inv, pc["web"] \in {"return", "exec", "refresh", "ok"}
  PROVE  ~CanRun("power")
<1>1. Runnable("web")
  BY DEF Runnable, Inv, LockDiscipline, WaitersPlaced, LockPC
<1>2. Urgency("power") = Prio["power"] /\ Urgency("web") = Prio["web"]
  BY DEF Urgency, Inherits
<1>3. Prio["power"] \in Nat /\ Prio["web"] \in Nat
  BY PowerAssumption
<1> QED
  BY <1>1, <1>2, <1>3, PrioAssumption DEF CanRun

(* Steps of which the call sees nothing. *)
LEMMA GetRests ==
  ASSUME GetsServed, pc'["web"] = pc["web"], req' = req, view' = view,
         pc["web"] # "return" \/ present' = present
  PROVE  GetsServed'
  BY DEF GetsServed, ReplyConsistent

(* The invariant on the bus and in the power thread. *)
LEMMA GetPower ==
  ASSUME Inv, GetsServed, Bus("web") \/ PowerStep \/ UNCHANGED vars
  PROVE  GetsServed'
<1> USE DEF chips, lock, client
<1>0. pc \in [Thread -> PowerPC \cup WebPC]
  BY DEF Inv, TypeOK
<1>1. ASSUME NEW t \in Thread, Bus(t)
      PROVE  GetsServed'
  <2>1. BusShape(t)
    BY <1>1, SkipKickShape, BeginShape, TransferShape, FailShape DEF Bus
  <2> QED
    BY <2>1, GetRests DEF BusShape
<1>2. CASE Publish
  <2>1. pc["web"] # "return" /\ pc'["web"] = pc["web"] /\ req' = req /\ view' = view
    BY <1>0, <1>2, WebFirst DEF Publish
  <2> QED
    BY <2>1, GetRests
<1>3. CASE TakeLock("power") \/ OpenBus \/ NapOver \/ SampleStart \/ SampleNext \/ SleepOver
  <2>1. UNCHANGED <<present, req, view>> /\ pc'["web"] = pc["web"]
    BY <1>0, <1>3 DEF TakeLock, OpenBus, NapOver, SampleStart, SampleNext, SleepOver
  <2> QED
    BY <2>1, GetRests
<1>4. CASE InitDone \/ PublishDone
  <2>1. UNCHANGED <<present, req, view>> /\ pc'["web"] = pc["web"]
    BY <1>0, <1>4 DEF InitDone, PublishDone, AfterChip
  <2> QED
    BY <2>1, GetRests
<1>5. CASE UNCHANGED vars
  BY <1>5, GetRests DEF vars
<1> QED
  BY <1>1, <1>2, <1>3, <1>4, <1>5 DEF PowerStep

(* In the calls of the web thread. *)
LEMMA GetWeb ==
  ASSUME Inv, GetsServed, WebStep \/ Client \/ LockTimeout, ~Bus("web")
  PROVE  GetsServed'
<1> USE DEF chips, lock, client
<1>0. /\ pc \in [Thread -> PowerPC \cup WebPC] /\ present \in [Chip -> BOOLEAN]
      /\ NoView.present = FALSE
  BY DEF Inv, TypeOK, NoView
<1>1. CASE TakeLock("web")
  BY <1>1, GetRests DEF TakeLock
<1>2. CASE Client
  <2>1. pc["web"] = "idle" /\ pc'["web"] \in {"lock", "fail"} /\ view' = view
    BY <1>0, <1>2 DEF Client, Request
  <2> QED
    BY <1>0, <2>1 DEF GetsServed, ReplyConsistent
<1>3. CASE Reply
  <2>1. pc'["web"] = "idle" /\ view' = NoView
    BY <1>0, <1>3 DEF Reply
  <2> QED
    BY <2>1 DEF GetsServed, ReplyConsistent
<1>4. CASE CopySnapshot
  <2>1. /\ pc'["web"] = "return" /\ req.cmd = Get /\ req' = req /\ present' = present
        /\ view'.present = present[req.chip]
    BY <1>0, <1>4 DEF CopySnapshot
  <2> QED
    BY <2>1 DEF GetsServed, ReplyConsistent
<1>5. CASE CopyReturn
  <2>1. /\ pc["web"] = "return" /\ view' = view
        /\ pc'["web"] = IF present[req.chip] THEN "ok" ELSE "fail"
    BY <1>0, <1>5 DEF CopyReturn, Answer
  <2> QED
    BY <2>1 DEF GetsServed, ReplyConsistent
<1>6. CASE CommandStart \/ CommandDone \/ CommandAbsent \/ CommandRefreshed
  <2>1. /\ pc["web"] \in {"lock", "exec", "refresh"} /\ req'.cmd # Get /\ view' = view
        /\ pc'["web"] \in {"exec", "refresh", "ok", "fail"}
    BY <1>0, <1>6 DEF CommandStart, CommandDone, CommandAbsent, CommandRefreshed, Answer,
       Inv, TypeOK, Execution
  <2> QED
    BY <2>1 DEF GetsServed, ReplyConsistent
<1>7. CASE LockTimeout
  <2>1. pc["web"] = "lock" /\ pc'["web"] = "fail" /\ view' = view
    BY <1>0, <1>7 DEF LockTimeout, Answer, Inv, TypeOK, LockDiscipline, WaitersPlaced,
       LockPC, WebPC
  <2> QED
    BY <1>0, <2>1 DEF GetsServed, ReplyConsistent
<1> QED
  BY <1>1, <1>2, <1>3, <1>4, <1>5, <1>6, <1>7 DEF WebStep

LEMMA InitGets == Init => GetsServed
  BY DEF Init, GetsServed, ReplyConsistent

LEMMA GetsNext == Inv /\ GetsServed /\ [Next]_vars => GetsServed'
  BY GetPower, GetWeb DEF Next, WebStep

(* copy_snapshot returns 0 exactly when what it copied out is a present    *)
(* chip, although it reads snap.present again after it has put the mutex:  *)
(* this rests on the priorities of the two threads.                        *)
THEOREM RepliesConsistent == Spec => []ReplyConsistent
<1>1. Init => Inv /\ GetsServed
  BY InitInv, InitGets
<1>2. Inv /\ GetsServed /\ [Next]_vars => (Inv /\ GetsServed)'
  BY NextInv, GetsNext
<1>3. GetsServed => ReplyConsistent
  BY DEF GetsServed
<1> QED
  BY <1>1, <1>2, <1>3, PTL DEF Spec

-----------------------------------------------------------------------------
(* The service the clients see *)

(* The stages of a request. *)
LEMMA Stages ==
  /\ pc["web"] \in {"lock", "return"} => StageNow = "asked"
  /\ pc["web"] = "exec" => StageNow = "working"
  /\ pc["web"] = "refresh" => StageNow = "done"
  /\ pc["web"] \in {"idle", "ok", "fail"} => StageNow = pc["web"]
  BY DEF StageNow

(* At first there is nothing to see. *)
LEMMA InitService == Init => Service!ServiceInit
<1> SUFFICES ASSUME Init PROVE Service!ServiceInit
  OBVIOUS
<1>1. Visible = {} /\ Settings = [c \in Chip |-> {}] /\ Promised = [c \in Chip |-> {}]
  BY DEF Init, Visible, Settings, Promised
<1>2. CallNow = Service!NoCall
  BY Stages DEF Init, CallNow, NoReq, Get, Service!NoCall
<1> QED
  BY <1>1, <1>2 DEF Service!ServiceInit

(* Nothing to see when only chips change that are not published. *)
LEMMA NothingToSee ==
  ASSUME UNCHANGED <<present, last, req>>, pc'["web"] = pc["web"],
         \A c \in Chip : present[c] => reg'[c] = reg[c]
  PROVE  UNCHANGED Service!svars
<1>1. StageNow' = StageNow
  BY DEF StageNow
<1>2. CallNow' = CallNow
  BY <1>1 DEF CallNow
<1>3. Visible' = Visible /\ Settings' = Settings /\ Promised' = Promised
  BY DEF Visible, Settings, Promised
<1> QED
  BY <1>2, <1>3 DEF Service!svars

(* Where only the request moves on. *)
LEMMA RequestMoves ==
  ASSUME UNCHANGED <<present, reg, req>>, pc["web"] # "idle", pc'["web"] # "idle"
  PROVE  /\ CallNow' = [CallNow EXCEPT !.stage = StageNow']
         /\ Visible' = Visible /\ Settings' = Settings
         /\ last' = last => Promised' = Promised
  BY DEF CallNow, Visible, Settings, Promised

(* The bus is not seen, except that a command changes the chip it is for.  *)
LEMMA BusService ==
  ASSUME Effects, [Next]_vars, NEW t \in Thread, Bus(t)
  PROVE  [Service!ServiceNext]_Service!svars
<1>1. BusShape(t)
  BY SkipKickShape, BeginShape, TransferShape, FailShape DEF Bus, Effects
<1>2. UNCHANGED <<present, last, req, pc>>
  BY <1>1 DEF BusShape
<1>3. CASE \A c \in Chip : present[c] => reg'[c] = reg[c]
  BY <1>2, <1>3, NothingToSee
<1>4. ASSUME NEW c \in Chip, present[c], reg'[c] # reg[c]
      PROVE  Service!Work
  <2>1. pc["web"] = "exec" /\ run["web"].chip = c
    BY <1>4, WritesByCommand DEF Effects
  <2>2. c = req.chip
    BY <2>1 DEF Effects, Inv, Execution
  <2>3. \A d \in Chip : d # c /\ present[d] => reg'[d] = reg[d]
    BY <2>1, WritesByCommand DEF Effects
  <2>4. reg' \in [Chip -> SUBSET Setting]
    BY NextInv DEF Effects, Inv, TypeOK
  <2>5. Settings' = [Settings EXCEPT ![c] = reg'[c]]
    BY <1>2, <1>4, <2>3 DEF Settings
  <2>6. StageNow = "working" /\ CallNow.chip = c
    BY <2>1, <2>2, Stages DEF CallNow
  <2>7. StageNow' = StageNow
    BY <1>2 DEF StageNow
  <2>8. CallNow' = CallNow /\ Visible' = Visible /\ Promised' = Promised
    BY <1>2, <2>7 DEF CallNow, Visible, Promised
  <2>9. CallNow.stage = "working"
    BY <2>6 DEF CallNow
  <2> QED
    <3>1. Settings' \in [Chip -> SUBSET Setting]
      BY <2>4 DEF Settings
    <3>2. \A d \in Chip \ {c} : Settings'[d] = Settings[d]
      BY <2>5 DEF Settings
    <3> QED
      BY <3>1, <3>2, <2>6, <2>8, <2>9 DEF Service!Work, Service!Sets
<1> QED
  BY <1>3, <1>4 DEF Service!ServiceNext

(* The power thread is seen only when it publishes a chip: not charging.   *)
LEMMA PowerService ==
  ASSUME Effects, PowerStep, ~Bus("power"), reg' = reg
  PROVE  [Service!ServiceNext]_Service!svars
<1> USE DEF chips, lock, client
<1>0. pc \in [Thread -> PowerPC \cup WebPC]
  BY DEF Effects, Inv, TypeOK
<1>1. CASE Publish
  <2> DEFINE c == run["power"].chip
  <2>1. c \in Chip /\ ~present[c] /\ reg[c] \in SUBSET Setting /\ present \in [Chip -> BOOLEAN]
    BY <1>1 DEF Publish, Effects, Inv, TypeOK, RunState, SearchOrder
  <2>2. present' = [present EXCEPT ![c] = TRUE] /\ last' = last /\ req' = req
        /\ pc'["web"] = pc["web"] /\ reg' = reg
    BY <1>0, <1>1 DEF Publish
  <2>3. run["power"].prog = <<>>
    BY <1>1 DEF Publish, Effects, Inv, Execution, InProgram
  <2>4. Met(c, Never, reg[c])
    BY <1>1, <2>3, WayEnds DEF Publish, Effects, Aims, SearchAims
  <2>5. ~Charging(c, reg[c])
    BY <2>1, <2>4, MetOff
  <2>6. StageNow' = StageNow
    BY <2>2 DEF StageNow
  <2> HIDE DEF c
  <2>7. CallNow' = CallNow /\ Promised' = Promised
    BY <2>2, <2>6 DEF CallNow, Promised
  <2>8. Visible' = Visible \cup {c} /\ c \notin Visible
    BY <2>1, <2>2 DEF Visible
  <2>9. Settings' = [Settings EXCEPT ![c] = reg[c]]
    BY <2>1, <2>2 DEF Settings
  <2>10. Service!Appear(c)
    <3>1. Settings' \in [Chip -> SUBSET Setting]
      BY <2>1, <2>9, NextInv DEF Effects, Inv, TypeOK, Settings
    <3>2. /\ Settings'[c] = reg[c]
          /\ \A d \in Chip \ {c} : Settings'[d] = Settings[d]
      BY <2>1, <2>9 DEF Settings
    <3> QED
      BY <3>1, <3>2, <2>5, <2>7, <2>8 DEF Service!Appear, Service!Sets
  <2> QED
    BY <2>1, <2>10 DEF Service!ServiceNext
<1>2. CASE TakeLock("power") \/ OpenBus \/ NapOver \/ SampleStart \/ SampleNext \/ SleepOver
  <2>1. UNCHANGED <<present, last, req>> /\ pc'["web"] = pc["web"]
    BY <1>0, <1>2 DEF TakeLock, OpenBus, NapOver, SampleStart, SampleNext, SleepOver
  <2> QED
    BY <2>1, NothingToSee
<1>3. CASE InitDone \/ PublishDone
  <2>1. UNCHANGED <<present, last, req>> /\ pc'["web"] = pc["web"]
    BY <1>0, <1>3 DEF InitDone, PublishDone, AfterChip
  <2> QED
    BY <2>1, NothingToSee
<1> QED
  BY <1>1, <1>2, <1>3 DEF PowerStep

(* A client asks, and gets its answer. *)
LEMMA ClientService ==
  ASSUME Effects, Client \/ Reply
  PROVE  [Service!ServiceNext]_Service!svars
<1> USE DEF chips, lock, client
<1>0. pc \in [Thread -> PowerPC \cup WebPC]
  BY DEF Effects, Inv, TypeOK
<1>1. CASE Client
  <2> PICK c \in Chip : \E cmd \in Menu[c] \cup {Get} : Request(c, cmd)
    BY <1>1 DEF Client
  <2>1. PICK cmd \in Menu[c] \cup {Get} : Request(c, cmd)
    OBVIOUS
  <2>2. cmd \in Commands \cup {Get}
    BY DEF Commands
  <2>3. pc["web"] = "idle" /\ pc'["web"] \in {"lock", "fail"} /\ req'.chip = c /\ req'.cmd = cmd
        /\ UNCHANGED <<present, reg, last>>
    BY <1>0, <2>1 DEF Request, NoReq
  <2>4. CallNow.stage = "idle" /\ StageNow' \in {"asked", "fail"}
    BY <2>3, Stages DEF CallNow, StageNow
  <2>5. CallNow' = [stage |-> StageNow', chip |-> c, cmd |-> cmd]
    BY <2>3 DEF CallNow
  <2>6. Visible' = Visible /\ Settings' = Settings /\ Promised' = Promised
    BY <2>3 DEF Visible, Settings, Promised
  <2>7. Service!Ask(c, cmd)
    BY <2>4, <2>5, <2>6 DEF Service!Ask
  <2> QED
    BY <2>2, <2>7 DEF Service!ServiceNext
<1>2. CASE Reply
  <2>1. pc["web"] \in {"ok", "fail"} /\ pc'["web"] = "idle" /\ req' = NoReq
        /\ UNCHANGED <<present, reg, last>>
    BY <1>0, <1>2 DEF Reply
  <2>2. CallNow.stage \in {"ok", "fail"}
    BY <2>1, Stages DEF CallNow
  <2>3. CallNow' = Service!NoCall
    BY <2>1, Stages DEF CallNow, StageNow, NoReq, Service!NoCall
  <2>4. Visible' = Visible /\ Settings' = Settings /\ Promised' = Promised
    BY <2>1 DEF Visible, Settings, Promised
  <2> QED
    BY <2>2, <2>3, <2>4 DEF Service!Return, Service!ServiceNext
<1> QED
  BY <1>1, <1>2

(* A request that is refused. *)
LEMMA RefuseService ==
  ASSUME UNCHANGED <<present, reg, req, last>>, pc["web"] \in {"lock", "return", "exec"},
         pc'["web"] = "fail"
  PROVE  [Service!ServiceNext]_Service!svars
<1>1. CallNow.stage \in {"asked", "working"} /\ StageNow' = "fail"
  BY Stages DEF CallNow, StageNow
<1> QED
  BY <1>1, RequestMoves DEF Service!Refuse, Service!To, Service!ServiceNext

(* The steps of a GET. *)
LEMMA GetService ==
  ASSUME Effects, GetsServed, TakeLock("web") \/ CopySnapshot \/ CopyReturn \/ CommandAbsent \/ LockTimeout
  PROVE  [Service!ServiceNext]_Service!svars
<1> USE DEF chips, lock, client
<1>0. pc \in [Thread -> PowerPC \cup WebPC] /\ req.chip \in Chip
  BY DEF Effects, Inv, TypeOK
<1>1. CASE TakeLock("web")
  BY <1>1, NothingToSee DEF TakeLock
<1>2. CASE CopySnapshot
  <2>1. pc["web"] = "lock" /\ pc'["web"] = "return" /\ UNCHANGED <<present, reg, req, last>>
    BY <1>0, <1>2 DEF CopySnapshot
  <2>2. StageNow' = StageNow
    BY <2>1, Stages DEF StageNow
  <2>3. CallNow' = CallNow
    BY <2>1, <2>2 DEF CallNow
  <2> QED
    BY <2>1, <2>3, RequestMoves DEF Service!svars
<1>3. CASE CopyReturn
  <2>1. pc["web"] = "return" /\ UNCHANGED <<present, reg, req, last>>
        /\ pc'["web"] = IF present[req.chip] THEN "ok" ELSE "fail"
    BY <1>0, <1>3 DEF CopyReturn, Answer
  <2>2. CASE present[req.chip]
    <3>1. CallNow.stage = "asked" /\ StageNow' = "ok" /\ CallNow.chip \in Visible /\ CallNow.cmd = Get
      BY <1>0, <2>1, <2>2, Stages DEF CallNow, StageNow, Visible, GetsServed
    <3> QED
      BY <2>1, <2>2, <3>1, RequestMoves DEF Service!Snapshot, Service!To, Service!ServiceNext
  <2>3. CASE ~present[req.chip]
    BY <2>1, <2>3, RefuseService
  <2> QED
    BY <2>2, <2>3
<1>4. CASE CommandAbsent \/ LockTimeout
  <2>1. pc["web"] = "lock" /\ pc'["web"] = "fail" /\ UNCHANGED <<present, reg, req, last>>
    BY <1>0, <1>4 DEF CommandAbsent, LockTimeout, Answer, Effects, Inv, TypeOK, LockDiscipline,
       WaitersPlaced, LockPC, WebPC
  <2> QED
    BY <2>1, RefuseService
<1> QED
  BY <1>1, <1>2, <1>3, <1>4

(* The steps of a command. *)
LEMMA CommandService ==
  ASSUME Effects, CommandStart \/ CommandDone \/ CommandRefreshed
  PROVE  [Service!ServiceNext]_Service!svars
<1> USE DEF chips, lock, client
<1>0. pc \in [Thread -> PowerPC \cup WebPC] /\ req.chip \in Chip
      /\ last \in [Chip -> Commands \cup {Never, Unacked}]
      /\ req \in [chip : Chip, cmd : Commands \cup {Get}, before : SUBSET Setting]
  BY DEF Effects, Inv, TypeOK
<1>1. CASE CommandStart
  <2> DEFINE c == req.chip
  <2>1. /\ pc["web"] = "lock" /\ pc'["web"] = "exec" /\ UNCHANGED <<present, reg>>
        /\ req'.chip = c /\ req'.cmd = req.cmd /\ req.cmd # Get /\ present[c]
        /\ last' = [last EXCEPT ![c] = Unacked]
    BY <1>0, <1>1 DEF CommandStart
  <2>2. CallNow.stage = "asked" /\ CallNow.cmd # Get /\ CallNow.chip = c /\ c \in Visible
    BY <1>0, <2>1, Stages DEF CallNow, Visible
  <2>3. CallNow' = [CallNow EXCEPT !.stage = "working"]
    BY <2>1 DEF CallNow, StageNow
  <2>4. Promised' = [Promised EXCEPT ![c] = {}]
    BY <1>0, <2>1 DEF Promised
  <2>5. Visible' = Visible /\ Settings' = Settings
    BY <2>1 DEF Visible, Settings
  <2> HIDE DEF c
  <2> QED
    BY <2>2, <2>3, <2>4, <2>5 DEF Service!Begin, Service!To, Service!ServiceNext
<1>2. CASE CommandDone
  <2> DEFINE c == run["web"].chip
  <2>0. c = req.chip /\ c \in Chip /\ present[c] /\ req.cmd # Get /\ pc["web"] = "exec"
        /\ UNCHANGED <<present, reg, req>>
    BY <1>0, <1>2 DEF CommandDone, Effects, Inv, Execution
  <2>1. CASE run["web"].ok
    <3>1. /\ pc'["web"] = "refresh" /\ last' = [last EXCEPT ![c] = req.cmd]
          /\ run["web"].prog = <<>>
      BY <1>0, <1>2, <2>1 DEF CommandDone, InProgram
    <3>2. Holds(c, req.cmd, reg[c])
      BY <2>0, <2>1, <3>1, WayEnds, MetHolds DEF Effects, Aims, CommandsAim
    <3>3. CallNow.stage = "working" /\ StageNow' = "done"
      BY <2>0, <3>1, Stages DEF CallNow, StageNow
    <3>4. CallNow.chip = c /\ CallNow.cmd = req.cmd /\ Settings[c] = reg[c]
      BY <2>0 DEF CallNow, Settings
    <3>5. req.cmd \notin {Never, Unacked}
      <4>1. PICK d \in Chip : req.cmd \in Menu[d]
        BY <1>0, <2>0 DEF Commands
      <4> QED
        BY <4>1, MenuAssumption
    <3>6. Promised' = [Promised EXCEPT ![c] = {req.cmd}]
      BY <1>0, <2>0, <3>1, <3>5 DEF Promised
    <3> HIDE DEF c
    <3> QED
      BY <2>0, <3>1, <3>2, <3>3, <3>4, <3>6, RequestMoves
         DEF Service!Commit, Service!To, Service!ServiceNext
  <2>2. CASE ~run["web"].ok
    <3>1. pc'["web"] = "fail" /\ last' = last
      BY <1>0, <1>2, <2>2 DEF CommandDone, Answer
    <3> QED
      BY <2>0, <3>1, RefuseService
  <2> QED
    BY <2>1, <2>2
<1>3. CASE CommandRefreshed
  <2>1. pc["web"] = "refresh" /\ pc'["web"] = "ok" /\ UNCHANGED <<present, reg, req, last>>
    BY <1>0, <1>3 DEF CommandRefreshed, Answer
  <2>2. CallNow.stage = "done" /\ StageNow' = "ok"
    BY <2>1, Stages DEF CallNow, StageNow
  <2> QED
    BY <2>1, <2>2, RequestMoves DEF Service!Succeed, Service!To, Service!ServiceNext
<1> QED
  BY <1>1, <1>2, <1>3

(* Every step of the two threads is a step of the service, or unseen.      *)
LEMMA NextService ==
  Effects /\ GetsServed /\ [Next]_vars => [Service!ServiceNext]_Service!svars
<1> SUFFICES ASSUME Effects, GetsServed, [Next]_vars
             PROVE  [Service!ServiceNext]_Service!svars
  OBVIOUS
<1>1. CASE Bus("power") \/ Bus("web")
  BY <1>1, BusService
<1>2. CASE UNCHANGED vars
  BY <1>2, NothingToSee DEF vars
<1>3. CASE PowerStep /\ ~Bus("power") /\ ~Bus("web")
  BY <1>3, OffBus, PowerService DEF Effects
<1>4. CASE WebStep /\ ~Bus("power") /\ ~Bus("web")
  BY <1>4, GetService, CommandService, ClientService DEF WebStep
<1> QED
  BY <1>1, <1>2, <1>3, <1>4, ClientService, GetService DEF Next

(* The two threads, the bus and the lock implement the service the clients *)
(* see, whichever transfers fail: a chip appears at once and not charging, *)
(* nothing but the command being served changes it, and a command is       *)
(* answered with success only when what it promises is in the chip.        *)
THEOREM ServiceImplemented == Spec => Implements
<1>1. Init => Service!ServiceInit /\ Effects /\ GetsServed
  BY InitService, InitInv, InitRmw, InitAims, InitGets DEF Effects
<1>2. Effects /\ GetsServed /\ [Next]_vars => (Effects /\ GetsServed)'
  BY NextInv, RmwNext, AimsNext, GetsNext DEF Effects
<1> QED
  BY <1>1, <1>2, NextService, PTL DEF Spec, Implements, Service!ServiceSpec
-----------------------------------------------------------------------------
(* Commands that fail *)

(* A program is left as soon as it has failed, and while nothing was made  *)
(* to fail, a command that has, or will have, failed has changed nothing:  *)
(* its first access found the bus busy, and so does every other one, for   *)
(* the thread on the wire does not run before web has returned.            *)
Untouched ==
  /\ \A t \in Thread : InProgram(t) => run[t].ok
  /\ pc["web"] = "exec" /\ faults = 0
       /\ (~run["web"].ok \/ bus = "power" \/ req.chip \notin Fitted) =>
       reg[req.chip] = req.before

(* An invalid command accesses no register. *)
LEMMA InvalidDoesNothing ==
  \A c \in Chip : \A on, bits : Command(c, "invalid", on, bits) = <<>>
  BY DEF Command, ShpCommand, BqCommand

(* On the bus a program goes on only without an error. *)
LEMMA BusGoesOn ==
  ASSUME Inv, NEW t \in Thread, Bus(t), run[t].ok, run'[t].prog # <<>>
  PROVE  run'[t].ok
<1> USE DEF chips
<1>0. run \in [Thread -> RunState] /\ run[t] \in RunState /\ InProgram(t)
  BY SkipKickShape, BeginShape, TransferShape, FailShape DEF Bus, BusShape, Inv, TypeOK
<1>1. /\ Advance(t).ok = run[t].ok
      /\ AfterError(t).ok \/ AfterError(t).prog = <<>>
  BY <1>0 DEF Advance, AfterError, RunState
<1>2. CASE SkipKick(t) \/ BeginTransfer(t) \/ FailTransfer(t)
  BY <1>0, <1>1, <1>2 DEF SkipKick, BeginTransfer, FailTransfer
<1>3. CASE Transfer(t)
  <2>1. CASE run' = [run EXCEPT ![t] = Advance(t)]
    BY <1>0, <1>1, <2>1
  <2>2. CASE run' = [run EXCEPT ![t].rmw = TRUE,
                                ![t].cur = Held(run[t].chip, NextOp(t).reg)]
    BY <1>0, <2>2 DEF RunState
  <2> QED
    BY <1>3, <2>1, <2>2 DEF Transfer
<1> QED
  BY <1>2, <1>3 DEF Bus

(* What web does on the bus while it executes a command. *)
LEMMA WebUntouched ==
  ASSUME Inv, Untouched, Bus("web"), pc["web"] = "exec", faults' = 0,
         ~run'["web"].ok \/ bus' = "power" \/ req.chip \notin Fitted
  PROVE  reg'[req.chip] = req.before
<1> USE DEF chips
<1> DEFINE c == req.chip
<1>0. /\ InProgram("web") /\ run["web"].ok /\ run["web"].chip = c
      /\ run \in [Thread -> RunState] /\ run["web"] \in RunState /\ faults \in Nat
      /\ bus \in Thread \cup {NoThread} /\ NoThread \notin Thread
  BY SkipKickShape, BeginShape, TransferShape, FailShape, PowerAssumption, SMTT(30)
     DEF Bus, BusShape, Inv, TypeOK, Execution, Untouched
<1>1. Advance("web").ok
  BY <1>0 DEF Advance, RunState
<1>2. CASE SkipKick("web")
  BY <1>0, <1>1, <1>2 DEF SkipKick, Untouched
<1>3. CASE BeginTransfer("web")
  <2>1. CASE bus = NoThread
    BY <1>0, <1>3, <2>1 DEF BeginTransfer, Untouched
  <2>2. CASE bus # NoThread
    BY <1>0, <1>3, <2>2 DEF BeginTransfer, Untouched
  <2> QED
    BY <2>1, <2>2
<1>4. CASE Transfer("web")
  <2>1. bus' = NoThread /\ c \in Fitted
    BY <1>0, <1>4 DEF Transfer
  <2>2. run'["web"].ok
    <3>1. CASE run' = [run EXCEPT !["web"] = Advance("web")]
      BY <1>0, <1>1, <3>1
    <3>2. CASE run' = [run EXCEPT !["web"].rmw = TRUE,
                                  !["web"].cur = Held(run["web"].chip, NextOp("web").reg)]
      BY <1>0, <3>2 DEF RunState
    <3> QED
      BY <1>4, <3>1, <3>2 DEF Transfer
  <2> QED
    BY <1>0, <2>1, <2>2
<1>5. CASE FailTransfer("web")
  <2>1. c \notin Fitted
    BY <1>0, <1>5 DEF FailTransfer
  <2> QED
    BY <1>0, <1>5, <2>1 DEF FailTransfer, Untouched
<1> QED
  BY <1>2, <1>3, <1>4, <1>5 DEF Bus

(* The invariant on the bus. *)
LEMMA UntouchedOnBus ==
  ASSUME Inv, Untouched, NEW t \in Thread, Bus(t)
  PROVE  Untouched'
<1>1. BusShape(t)
  BY SkipKickShape, BeginShape, TransferShape, FailShape DEF Bus
<1>2. \A u \in Thread : InProgram(u)' => run'[u].ok
  <2> SUFFICES ASSUME NEW u \in Thread, run'[u].prog # <<>> PROVE run'[u].ok
    BY DEF InProgram
  <2>1. CASE u = t
    BY <1>1, <2>1, BusGoesOn DEF BusShape, Untouched
  <2>2. CASE u # t
    BY <1>1, <2>2 DEF BusShape, Untouched, InProgram
  <2> QED
    BY <2>1, <2>2
<1>3. ASSUME pc["web"] = "exec", faults' = 0,
             ~run'["web"].ok \/ bus' = "power" \/ req.chip \notin Fitted
      PROVE  reg'[req.chip] = req.before
  <2>1. t = "web"
    BY <1>3, WebFirst DEF Bus, SkipKick, BeginTransfer, Transfer, FailTransfer
  <2> QED
    BY <1>3, <2>1, WebUntouched
<1> QED
  BY <1>1, <1>2, <1>3 DEF BusShape, Untouched

(* Off the bus programs begin without an error, and no command runs on. *)
LEMMA UntouchedOffBus ==
  ASSUME Inv, Untouched, reg' = reg, UNCHANGED <<bus, faults>>,
         \A u \in Thread : run'[u] = run[u] \/ run'[u].prog = <<>> \/ run'[u].ok,
         pc'["web"] = "exec" => pc["web"] = "exec" /\ run'["web"] = run["web"] /\ req' = req
  PROVE  Untouched'
  BY DEF Untouched, InProgram

(* A program begun, or none. *)
LEMMA Begun ==
  ASSUME Inv, NEW t \in Thread, NEW c, NEW p,
         run' = [run EXCEPT ![t] = Start(c, p)] \/ run' = [run EXCEPT ![t] = Idle(c)]
  PROVE  /\ \A u \in Thread : run'[u] = run[u] \/ run'[u].prog = <<>> \/ run'[u].ok
         /\ \A u \in Thread : u # t => run'[u] = run[u]
  BY DEF Inv, TypeOK, Start, Idle

(* The steps of the power thread. *)
LEMMA UntouchedPower ==
  ASSUME Inv, Untouched, PowerStep, ~Bus("power"), reg' = reg
  PROVE  Untouched'
<1> USE DEF chips, lock, client
<1>0. pc \in [Thread -> PowerPC \cup WebPC]
  BY DEF Inv, TypeOK
<1>1. CASE TakeLock("power") \/ SleepOver
  BY <1>0, <1>1, UntouchedOffBus DEF TakeLock, SleepOver
<1>2. CASE OpenBus
  BY <1>0, <1>2, Begun, UntouchedOffBus DEF OpenBus
<1>3. ASSUME NEW c, AfterChip(c), UNCHANGED <<bus, faults, req>>
      PROVE  Untouched'
  <2>1. CASE c = "shp"
    BY <1>0, <1>3, <2>1, Begun, UntouchedOffBus DEF AfterChip
  <2>2. CASE c # "shp"
    BY <1>0, <1>3, <2>2, Begun, UntouchedOffBus DEF AfterChip
  <2> QED
    BY <2>1, <2>2
<1>4. CASE InitDone
  <2>1. CASE run["power"].ok
    BY <1>0, <1>4, <2>1, UntouchedOffBus DEF InitDone
  <2>2. CASE ~run["power"].ok
    BY <1>3, <1>4, <2>2 DEF InitDone
  <2> QED
    BY <2>1, <2>2
<1>5. CASE Publish
  BY <1>0, <1>5, Begun, UntouchedOffBus DEF Publish
<1>6. CASE PublishDone
  BY <1>3, <1>6 DEF PublishDone
<1>7. CASE NapOver
  BY <1>0, <1>7, Begun, UntouchedOffBus DEF NapOver
<1>8. CASE SampleStart
  BY <1>0, <1>8, Begun, UntouchedOffBus DEF SampleStart
<1>9. CASE SampleNext
  BY <1>0, <1>9, Begun, UntouchedOffBus DEF SampleNext
<1> QED
  BY <1>1, <1>2, <1>4, <1>5, <1>6, <1>7, <1>8, <1>9 DEF PowerStep

(* The steps of the web thread and of the clients. *)
LEMMA UntouchedWeb ==
  ASSUME Inv, Untouched, WebStep \/ Client \/ LockTimeout, ~Bus("web"), reg' = reg
  PROVE  Untouched'
<1> USE DEF chips, lock, client
<1>0. pc \in [Thread -> PowerPC \cup WebPC] /\ run \in [Thread -> RunState]
  BY DEF Inv, TypeOK
<1>1. CASE TakeLock("web")
  BY <1>1, UntouchedOffBus DEF TakeLock
<1>2. CASE Client \/ LockTimeout \/ Reply \/ CopySnapshot \/ CopyReturn \/ CommandAbsent
  <2>1. pc'["web"] # "exec" /\ run' = run /\ UNCHANGED <<bus, faults>>
    BY <1>0, <1>2 DEF Client, Request, LockTimeout, Reply, CopySnapshot, CopyReturn,
       CommandAbsent, Answer
  <2> QED
    BY <2>1, UntouchedOffBus
<1>3. CASE CommandStart
  <2> DEFINE c == req.chip
             p == Command(c, req.cmd[1], req.cmd[2], snap[c])
             r == [Start(c, p) EXCEPT !.ok = (req.cmd[1] # "invalid")]
  <2>1. run' = [run EXCEPT !["web"] = r] /\ req' = [req EXCEPT !.before = reg[c]]
    BY <1>3 DEF CommandStart
  <2>2. r.ok \/ r.prog = <<>>
    <3>1. r.prog = p /\ r.ok = (req.cmd[1] # "invalid")
      BY DEF Start, Idle
    <3>2. req.cmd[1] = "invalid" => p = <<>>
      BY InvalidDoesNothing DEF Inv, TypeOK
    <3> QED
      BY <3>1, <3>2
  <2>3. c \in Chip /\ req'.chip = c /\ req'.before = reg[c]
    BY <2>1 DEF Inv, TypeOK
  <2> HIDE DEF c, p, r
  <2>4. \A u \in Thread : InProgram(u)' => run'[u].ok
    BY <1>0, <2>1, <2>2 DEF Untouched, InProgram
  <2> QED
    BY <2>3, <2>4 DEF Untouched
<1>4. CASE CommandDone \/ CommandRefreshed
  <2>1. pc'["web"] # "exec" /\ UNCHANGED <<bus, faults>>
    BY <1>0, <1>4 DEF CommandDone, CommandRefreshed, Answer
  <2>2. \A u \in Thread : run'[u] = run[u] \/ run'[u].prog = <<>> \/ run'[u].ok
    BY <1>4, Begun DEF CommandDone, CommandRefreshed
  <2> QED
    BY <2>1, <2>2, UntouchedOffBus
<1> QED
  BY <1>1, <1>2, <1>3, <1>4 DEF WebStep

(* Untouched is inductive relative to Inv. *)
LEMMA UntouchedNext == Inv /\ Untouched /\ [Next]_vars => Untouched'
<1> SUFFICES ASSUME Inv, Untouched, [Next]_vars PROVE Untouched'
  OBVIOUS
<1>1. CASE Bus("power") \/ Bus("web")
  BY <1>1, UntouchedOnBus
<1>2. CASE ~Bus("power") /\ ~Bus("web")
  <2>1. reg' = reg
    BY <1>2, OffBus
  <2>2. CASE UNCHANGED vars
    BY <2>1, <2>2, UntouchedOffBus DEF vars
  <2> QED
    BY <1>2, <2>1, <2>2, UntouchedPower, UntouchedWeb DEF Next
<1> QED
  BY <1>1, <1>2

LEMMA InitUntouched == Init => Untouched
  BY NothingRuns DEF Init, Untouched, InProgram

(* Without failed transfers a command that fails changed nothing, also     *)
(* when the search of the other chip has the bus.                          *)
THEOREM FailureHasNoEffect == Spec => []FailedNoEffect
<1>1. Init => Inv /\ Untouched
  BY InitInv, InitUntouched
<1>2. Inv /\ Untouched /\ [Next]_vars => (Inv /\ Untouched)'
  BY NextInv, UntouchedNext
<1>3. Untouched => FailedNoEffect
  BY DEF Untouched, FailedNoEffect
<1> QED
  BY <1>1, <1>2, <1>3, PTL DEF Spec

-----------------------------------------------------------------------------
(* What the commands write.                                                *)
(*                                                                         *)
(* From here on: the snapshots are accurate, and a configuration command,  *)
(* which writes its whole group from the snapshot, changes only what it    *)
(* names, as long as no transfer fails.                                    *)

(* The accesses that touch only bits chip c has.                           *)
ProperOps(c) == {op \in Op : op.val \subseteq BitsOf(c, op.reg)}

(* The accesses a command may make on chip c, when its snapshot is bits:   *)
(* outside what the command is about they write what the snapshot holds.   *)
NamedOps(c, name, bits) ==
  {op \in ProperOps(c) :
     /\ op.kind \in {"read", "write", "update"}
     /\ op.kind # "write" => op.val \subseteq op.mask
     /\ name # "reset" =>
          /\ "REG_RST" \notin op.val
          /\ \A b \in BitsOf(c, op.reg) \ Footprint(c, name) :
               op.kind = "write" \/ b \in op.mask => (b \in op.val <=> b \in bits)}

(* Programs of accesses of one kind are built from short ones. *)
LEMMA SeqOf ==
  ASSUME NEW S
  PROVE  /\ <<>> \in Seq(S)
         /\ \A a \in S : <<a>> \in Seq(S)
         /\ \A a, b \in S : <<a, b>> \in Seq(S)
         /\ \A a, b, c \in S : <<a, b, c>> \in Seq(S)
         /\ \A a, b, c, d \in S : <<a, b, c, d>> \in Seq(S)
         /\ \A p, q \in Seq(S) : p \o q \in Seq(S)
  OBVIOUS

(* A read writes nothing. *)
LEMMA NamedRead ==
  ASSUME NEW c, NEW name, NEW bits, NEW r \in Register
  PROVE  Read(r) \in NamedOps(c, name, bits)
  BY ReadOp DEF Read, Access, NamedOps, ProperOps

(* A write whose unnamed bits come from the snapshot. *)
LEMMA NamedWrite ==
  ASSUME NEW c, NEW name, NEW bits, NEW r \in Register, NEW v,
         v \subseteq BitsOf(c, r),
         name # "reset" =>
           /\ "REG_RST" \notin v
           /\ \A b \in BitsOf(c, r) \ Footprint(c, name) : b \in v <=> b \in bits
  PROVE  Write(r, v) \in NamedOps(c, name, bits)
<1>1. Write(r, v) \in Op
  BY WriteOp, BitsOfBit
<1> QED
  BY <1>1 DEF Write, Access, NamedOps, ProperOps

(* An update8 whose unnamed bits come from the snapshot. *)
LEMMA NamedUpdate ==
  ASSUME NEW c, NEW name, NEW bits, NEW r \in Register, NEW m, NEW v,
         m \subseteq BitsOf(c, r),
         name # "reset" =>
           /\ "REG_RST" \notin m
           /\ \A b \in m \ Footprint(c, name) : b \in v <=> b \in bits
  PROVE  Update(r, m, v) \in NamedOps(c, name, bits)
<1>1. Update(r, m, v) \in Op
  BY UpdateOp, BitsOfBit
<1> QED
  BY <1>1 DEF Update, Access, NamedOps, ProperOps

(* A one-bit setter of a bit the command is about. *)
LEMMA NamedSetBit ==
  ASSUME NEW c, NEW name, NEW bits, NEW r \in Register, NEW b \in BitsOf(c, r), NEW on,
         name # "reset" => b # "REG_RST" /\ b \in Footprint(c, name)
  PROVE  SetBit(r, b, on) \in NamedOps(c, name, bits)
  BY NamedUpdate DEF SetBit

(* A field put over the snapshot leaves the other fields. *)
LEMMA WithOthers ==
  \A bits, b, on : \A d : d # b => (d \in With(bits, b, on) <=> d \in bits)
  BY DEF With

(* Where the bits of the SHP8808 are that its commands write. *)
LEMMA ShpPlaces ==
  /\ BitsOf("shp", "CHARGE_OPTION0") = {"DCDC_OFF", "THRESHOLDS", "REG_RST"}
  /\ BitsOf("shp", "CHARGE_OPTION1") = {"IBUS_PIN", "IBAT_PIN", "CFG_ENABLES"}
  /\ BitsOf("shp", "CHARGE_OPTION3") = {"TIMERS"}
  /\ BitsOf("shp", "CHARGE_OPTION4") = {"OTG", "OTG_FB_PIN", "PFM"}
  /\ BitsOf("shp", "MPPT_CONTROL0") = {"MPPT", "MPPT_CFG"}
  /\ BitsOf("shp", "JEITA_CONTROL0") = {"JEITA"}
  /\ BitsOf("shp", "JEITA_CONTROL1") = {"TS_OFF"}
  /\ BitsOf("shp", "CHARGE_CURRENT") = {"CHARGE_CURRENT"}
  /\ BitsOf("shp", "CHARGE_LIMITS") = {"CHARGE_LIMITS"}
  /\ BitsOf("shp", "OTG_VOLTAGE") = {"OTG_VOLTAGE"}
  /\ BitsOf("shp", "OTG_CURRENT") = {"OTG_CURRENT"}
  /\ {"CHARGE_OPTION0", "CHARGE_OPTION1", "CHARGE_OPTION3", "CHARGE_OPTION4",
      "MPPT_CONTROL0", "JEITA_CONTROL0", "JEITA_CONTROL1", "CHARGE_CURRENT",
      "CHARGE_LIMITS", "OTG_VOLTAGE", "OTG_CURRENT", "STATUS0",
      "ADC_CONTROL"} \subseteq Register
  BY DEF BitsOf, ShpBits, ShpLimits, Register

(* Where those of the BQ25756 are. *)
LEMMA BqPlaces ==
  /\ BitsOf("bq", "CHARGER_CONTROL") = {"EN_CHG", "HIZ", "CE_OFF", "VRECHG"}
  /\ BitsOf("bq", "POWER_CONTROL") = {"REVERSE", "PFM", "REG_RST"}
  /\ BitsOf("bq", "TIMER_CONTROL") = {"WATCHDOG", "TIMERS"}
  /\ BitsOf("bq", "PRECHARGE_CONTROL") = {"CFG_ENABLES", "VBAT_LOWV"}
  /\ BitsOf("bq", "PIN_CONTROL") = {"ICHG_PIN", "ILIM_PIN", "PG_OFF", "STAT_OFF"}
  /\ BitsOf("bq", "TS_CHARGE_BEHAVIOR") = {"TS", "JEITA"}
  /\ BitsOf("bq", "MPPT_CONTROL") = {"MPPT", "MPPT_CFG"}
  /\ BitsOf("bq", "CHARGE_VOLTAGE") = {"CHARGE_VOLTAGE"}
  /\ BitsOf("bq", "CHARGE_LIMITS") = {"CHARGE_LIMITS"}
  /\ BitsOf("bq", "REVERSE_VOLTAGE") = {"REVERSE_VOLTAGE"}
  /\ BitsOf("bq", "REVERSE_LIMITS") = {"REVERSE_LIMITS"}
  /\ BitsOf("bq", "GATE_DRIVE") = {"GATE_DRIVE"}
  /\ {"CHARGER_CONTROL", "POWER_CONTROL", "TIMER_CONTROL", "PRECHARGE_CONTROL",
      "PIN_CONTROL", "TS_CHARGE_BEHAVIOR", "MPPT_CONTROL", "CHARGE_VOLTAGE",
      "CHARGE_LIMITS", "REVERSE_VOLTAGE", "REVERSE_LIMITS", "GATE_DRIVE",
      "PART_INFO", "MASK1", "ADC_CHANNEL_CONTROL", "ADC_CONTROL"} \subseteq Register
  BY DEF BitsOf, BqBits, BqLimits, Register

(* The bits each command is about. *)
LEMMA Footprints ==
  /\ \A c : Footprint(c, "charge") = {"DCDC_OFF", "OTG", "EN_CHG"}
  /\ \A c : Footprint(c, "hiz") = {"DCDC_OFF", "HIZ"}
  /\ \A c : Footprint(c, "reverse") = {"DCDC_OFF", "OTG", "REVERSE"}
  /\ Footprint("shp", "charge_cfg") = {"CHARGE_CURRENT", "IBUS_PIN", "IBAT_PIN"}
  /\ Footprint("bq", "charge_cfg") = {"CHARGE_VOLTAGE"}
  /\ \A c : Footprint(c, "reverse_cfg") = {"OTG_VOLTAGE", "REVERSE_VOLTAGE"}
  /\ \A c : Footprint(c, "pins") = {"IBUS_PIN", "ICHG_PIN"}
  /\ \A c : Footprint(c, "gate") = {"GATE_DRIVE"}
  /\ \A c : Footprint(c, "watchdog") = {"WATCHDOG"}
  /\ \A c : Footprint(c, "mppt") = {"MPPT"}
  /\ \A c : Footprint(c, "mppt_cfg") = {"MPPT_CFG"}
  /\ \A c : Footprint(c, "pfm") = {"PFM"}
  /\ \A c : Footprint(c, "ts") = {"TS", "TS_OFF"}
  /\ \A c : Footprint(c, "jeita") = {"JEITA"}
  /\ \A c : Footprint(c, "thresholds") = {"THRESHOLDS", "VRECHG"}
  /\ \A c : Footprint(c, "timers") = {"TIMERS"}
  /\ \A c : Footprint(c, "vbat_lowv") = {"VBAT_LOWV"}
  BY DEF Footprint

(* shp_chip_init keeps to the bits of the SHP8808. *)
LEMMA ShpInitNamed ==
  ASSUME NEW bits
  PROVE  ShpChipInit \in Seq(NamedOps("shp", "reset", bits))
<1> DEFINE S == NamedOps("shp", "reset", bits)
<1>1. \A x : /\ SetBit("CHARGE_OPTION0", "DCDC_OFF", x) \in S
             /\ SetBit("CHARGE_OPTION4", "OTG", x) \in S
             /\ SetBit("JEITA_CONTROL1", "TS_OFF", x) \in S
             /\ SetBit("JEITA_CONTROL0", "JEITA", x) \in S
             /\ SetBit("MPPT_CONTROL0", "MPPT", x) \in S
  BY NamedSetBit, ShpPlaces
<1>2. /\ Update("CHARGE_OPTION1", {"IBUS_PIN", "IBAT_PIN"}, {}) \in S
      /\ Update("CHARGE_OPTION4", {"OTG_FB_PIN"}, {}) \in S
  BY NamedUpdate, ShpPlaces
<1>3. Read("CHARGE_OPTION0") \in S /\ Read("STATUS0") \in S /\ Write("ADC_CONTROL", {}) \in S
  BY NamedRead, NamedWrite, ShpPlaces
<1> HIDE DEF S
<1>4. ShpConfigurePins({}) \in Seq(S)
  BY <1>2, SeqOf DEF ShpConfigurePins
<1>5. ShpSetHiz(FALSE) \in Seq(S) /\ ShpSetReverse(FALSE) \in Seq(S) /\ ShpSetCharge(FALSE) \in Seq(S)
  BY <1>1, SeqOf DEF ShpSetHiz, ShpSetReverse, ShpSetCharge, ShpSetDcdc
<1>6. ShpSoftwareHost \in Seq(S)
  BY <1>1, <1>4, <1>5, SeqOf DEF ShpSoftwareHost
<1>7. ShpChipInit \in Seq(S)
  BY <1>3, <1>6, SeqOf DEF ShpChipInit
<1> QED
  BY <1>7 DEF S

(* bq_chip_init keeps to the bits of the BQ25756. *)
LEMMA BqInitNamed ==
  ASSUME NEW bits
  PROVE  BqChipInit \in Seq(NamedOps("bq", "reset", bits))
<1> DEFINE S == NamedOps("bq", "reset", bits)
<1>1. \A x : /\ SetBit("TIMER_CONTROL", "WATCHDOG", x) \in S
             /\ SetBit("TS_CHARGE_BEHAVIOR", "TS", x) \in S
             /\ SetBit("CHARGER_CONTROL", "HIZ", x) \in S
             /\ SetBit("POWER_CONTROL", "REVERSE", x) \in S
             /\ SetBit("MPPT_CONTROL", "MPPT", x) \in S
             /\ SetBit("CHARGER_CONTROL", "EN_CHG", x) \in S
  BY NamedSetBit, BqPlaces
<1>2. \A v : /\ Write("PIN_CONTROL", v \cap BqBits("PIN_CONTROL")) \in S
             /\ Update("CHARGER_CONTROL", {"CE_OFF"}, v) \in S
  BY NamedWrite, NamedUpdate, BqPlaces DEF BitsOf
<1>3. /\ Read("PART_INFO") \in S /\ Write("MASK1", {}) \in S
      /\ Write("ADC_CHANNEL_CONTROL", {}) \in S /\ Update("ADC_CONTROL", {}, {}) \in S
  BY NamedRead, NamedWrite, NamedUpdate, BqPlaces
<1> HIDE DEF S
<1>4. BqConfigurePins({"PG_OFF", "STAT_OFF", "CE_OFF"}) \in Seq(S)
  BY <1>2, SeqOf DEF BqConfigurePins
<1>5. /\ BqSetWatchdog(FALSE) \in Seq(S) /\ BqSetHiz(FALSE) \in Seq(S)
      /\ BqSetReverse(FALSE) \in Seq(S) /\ BqSetCharge(FALSE) \in Seq(S)
  BY <1>1, SeqOf DEF BqSetWatchdog, BqSetHiz, BqSetReverse, BqSetCharge
<1>6. BqSoftwareHost \in Seq(S)
  BY <1>1, <1>4, <1>5, SeqOf DEF BqSoftwareHost
<1>7. BqChipInit \in Seq(S)
  BY <1>3, <1>6, SeqOf DEF BqChipInit
<1> QED
  BY <1>7 DEF S

(* The commands of the SHP8808 write, outside of what they are about, only *)
(* what the snapshot holds.                                                *)
LEMMA ShpNamed ==
  ASSUME NEW name, NEW on, NEW bits
  PROVE  ShpCommand(name, on, bits) \in Seq(NamedOps("shp", name, bits))
<1> DEFINE S == NamedOps("shp", name, bits)
<1> USE ShpPlaces, Footprints
<1>1. CASE name \in {"charge", "hiz", "reverse"}
  <2>1. \A x : SetBit("CHARGE_OPTION0", "DCDC_OFF", x) \in S
    BY <1>1, NamedSetBit
  <2>2. name # "hiz" => \A x : SetBit("CHARGE_OPTION4", "OTG", x) \in S
    BY <1>1, NamedSetBit
  <2> HIDE DEF S
  <2>3. name = "charge" => ShpSetCharge(on) \in Seq(S)
    BY <2>1, <2>2, SeqOf DEF ShpSetCharge, ShpSetDcdc
  <2>4. name = "hiz" => ShpSetHiz(on) \in Seq(S)
    BY <2>1, SeqOf DEF ShpSetHiz, ShpSetDcdc
  <2>5. name = "reverse" => ShpSetReverse(on) \in Seq(S)
    BY <2>1, <2>2, SeqOf DEF ShpSetReverse, ShpSetDcdc
  <2>6. ShpCommand(name, on, bits) \in Seq(S)
    BY <1>1, <2>3, <2>4, <2>5 DEF ShpCommand
  <2> QED
    BY <2>6 DEF S
<1>2. CASE name \in {"mppt", "mppt_cfg", "pfm", "ts", "jeita", "thresholds", "timers"}
  <2>1. \A x : /\ name = "mppt" => SetBit("MPPT_CONTROL0", "MPPT", x) \in S
               /\ name = "mppt_cfg" => SetBit("MPPT_CONTROL0", "MPPT_CFG", x) \in S
               /\ name = "pfm" => SetBit("CHARGE_OPTION4", "PFM", x) \in S
               /\ name = "ts" => SetBit("JEITA_CONTROL1", "TS_OFF", x) \in S
               /\ name = "jeita" => SetBit("JEITA_CONTROL0", "JEITA", x) \in S
               /\ name = "thresholds" => SetBit("CHARGE_OPTION0", "THRESHOLDS", x) \in S
               /\ name = "timers" => SetBit("CHARGE_OPTION3", "TIMERS", x) \in S
    BY NamedSetBit
  <2> HIDE DEF S
  <2>2. ShpCommand(name, on, bits) \in Seq(S)
    BY <1>2, <2>1, SeqOf DEF ShpCommand
  <2> QED
    BY <2>2 DEF S
<1>3. CASE name = "charge_cfg"
  <2> DEFINE cfg == With(bits, "CHARGE_CURRENT", on)
  <2>1. /\ Write("CHARGE_CURRENT", cfg \cap {"CHARGE_CURRENT"}) \in S
        /\ Write("CHARGE_LIMITS", cfg \cap {"CHARGE_LIMITS"}) \in S
    BY <1>3, NamedWrite, WithOthers
  <2>2. /\ Update("CHARGE_OPTION1", {"CFG_ENABLES"}, cfg) \in S
        /\ Update("CHARGE_OPTION1", {"IBUS_PIN", "IBAT_PIN"}, {}) \in S
    BY <1>3, NamedUpdate, WithOthers
  <2> HIDE DEF S, cfg
  <2>3. ShpConfigureCharging(cfg) \in Seq(S)
    BY <2>1, <2>2, SeqOf DEF ShpConfigureCharging
  <2> QED
    BY <1>3, <2>3 DEF ShpCommand, cfg, S
<1>4. CASE name = "reverse_cfg"
  <2> DEFINE cfg == With(bits, "OTG_VOLTAGE", on)
  <2>1. /\ Write("OTG_VOLTAGE", cfg \cap {"OTG_VOLTAGE"}) \in S
        /\ Write("OTG_CURRENT", cfg \cap {"OTG_CURRENT"}) \in S
    BY <1>4, NamedWrite, WithOthers
  <2>2. Update("CHARGE_OPTION4", {"OTG_FB_PIN"}, cfg) \in S
    BY <1>4, NamedUpdate, WithOthers
  <2> HIDE DEF S, cfg
  <2>3. ShpConfigureReverse(cfg) \in Seq(S)
    BY <2>1, <2>2, SeqOf DEF ShpConfigureReverse
  <2> QED
    BY <1>4, <2>3 DEF ShpCommand, cfg, S
<1>5. CASE name = "pins"
  <2> DEFINE cfg == With(bits, "IBUS_PIN", on)
  <2>1. /\ Update("CHARGE_OPTION1", {"IBUS_PIN", "IBAT_PIN"}, cfg) \in S
        /\ Update("CHARGE_OPTION4", {"OTG_FB_PIN"}, cfg) \in S
    BY <1>5, NamedUpdate, WithOthers
  <2> HIDE DEF S, cfg
  <2>2. ShpConfigurePins(cfg) \in Seq(S)
    BY <2>1, SeqOf DEF ShpConfigurePins
  <2> QED
    BY <1>5, <2>2 DEF ShpCommand, cfg, S
<1>6. CASE name = "reset"
  <2>1. SetBit("CHARGE_OPTION0", "REG_RST", TRUE) \in S
    BY <1>6, NamedSetBit
  <2>2. ShpChipInit \in Seq(S)
    BY <1>6, ShpInitNamed
  <2> HIDE DEF S
  <2>3. ShpCommand(name, on, bits) \in Seq(S)
    BY <1>6, <2>1, <2>2, SeqOf DEF ShpCommand
  <2> QED
    BY <2>3 DEF S
<1>7. CASE name \notin {"charge", "hiz", "reverse", "mppt", "mppt_cfg", "pfm", "ts", "jeita",
                        "thresholds", "timers", "charge_cfg", "reverse_cfg", "pins", "reset"}
  BY <1>7, SeqOf DEF ShpCommand
<1> QED
  BY <1>1, <1>2, <1>3, <1>4, <1>5, <1>6, <1>7

(* The same for the BQ25756. *)
LEMMA BqNamed ==
  ASSUME NEW name, NEW on, NEW bits
  PROVE  BqCommand(name, on, bits) \in Seq(NamedOps("bq", name, bits))
<1> DEFINE S == NamedOps("bq", name, bits)
<1> USE BqPlaces, Footprints
<1>1. CASE name \in {"charge", "hiz", "reverse", "watchdog"}
  <2>1. /\ name = "charge" => SetBit("CHARGER_CONTROL", "EN_CHG", on) \in S
        /\ name = "hiz" => SetBit("CHARGER_CONTROL", "HIZ", on) \in S
        /\ name = "reverse" => SetBit("POWER_CONTROL", "REVERSE", on) \in S
        /\ name = "watchdog" => SetBit("TIMER_CONTROL", "WATCHDOG", on) \in S
    BY NamedSetBit
  <2> HIDE DEF S
  <2>2. BqCommand(name, on, bits) \in Seq(S)
    BY <1>1, <2>1, SeqOf DEF BqCommand, BqSetCharge, BqSetHiz, BqSetReverse, BqSetWatchdog
  <2> QED
    BY <2>2 DEF S
<1>2. CASE name \in {"mppt", "mppt_cfg", "pfm", "ts", "jeita", "thresholds", "timers", "vbat_lowv"}
  <2>1. /\ name = "mppt" => SetBit("MPPT_CONTROL", "MPPT", on) \in S
        /\ name = "mppt_cfg" => SetBit("MPPT_CONTROL", "MPPT_CFG", on) \in S
        /\ name = "pfm" => SetBit("POWER_CONTROL", "PFM", on) \in S
        /\ name = "ts" => SetBit("TS_CHARGE_BEHAVIOR", "TS", on) \in S
        /\ name = "jeita" => SetBit("TS_CHARGE_BEHAVIOR", "JEITA", on) \in S
        /\ name = "thresholds" => SetBit("CHARGER_CONTROL", "VRECHG", on) \in S
        /\ name = "timers" => SetBit("TIMER_CONTROL", "TIMERS", on) \in S
        /\ name = "vbat_lowv" => SetBit("PRECHARGE_CONTROL", "VBAT_LOWV", on) \in S
    BY NamedSetBit
  <2> HIDE DEF S
  <2>2. BqCommand(name, on, bits) \in Seq(S)
    BY <1>2, <2>1, SeqOf, ZenonT(60) DEF BqCommand
  <2> QED
    BY <2>2 DEF S
<1>3. CASE name \in {"mppt_sweep", "kick"}
  <2>1. Update("MPPT_CONTROL", {}, {}) \in S /\ Update("CHARGER_CONTROL", {}, {}) \in S
    BY NamedUpdate
  <2> HIDE DEF S
  <2>2. BqCommand(name, on, bits) \in Seq(S)
    BY <1>3, <2>1, SeqOf DEF BqCommand
  <2> QED
    BY <2>2 DEF S
<1>4. CASE name = "charge_cfg"
  <2> DEFINE cfg == With(bits, "CHARGE_VOLTAGE", on)
  <2>1. /\ Write("CHARGE_VOLTAGE", cfg \cap {"CHARGE_VOLTAGE"}) \in S
        /\ Write("CHARGE_LIMITS", cfg \cap {"CHARGE_LIMITS"}) \in S
    BY <1>4, NamedWrite, WithOthers
  <2>2. Update("PRECHARGE_CONTROL", {"CFG_ENABLES"}, cfg) \in S
    BY <1>4, NamedUpdate, WithOthers
  <2> HIDE DEF S, cfg
  <2>3. BqConfigureCharging(cfg) \in Seq(S)
    BY <2>1, <2>2, SeqOf DEF BqConfigureCharging
  <2> QED
    BY <1>4, <2>3 DEF BqCommand, cfg, S
<1>5. CASE name = "reverse_cfg"
  <2> DEFINE cfg == With(bits, "REVERSE_VOLTAGE", on)
  <2>1. /\ Write("REVERSE_VOLTAGE", cfg \cap {"REVERSE_VOLTAGE"}) \in S
        /\ Update("REVERSE_LIMITS", {"REVERSE_LIMITS"}, cfg) \in S
    BY <1>5, NamedWrite, NamedUpdate, WithOthers
  <2> HIDE DEF S, cfg
  <2>2. BqConfigureReverse(cfg) \in Seq(S)
    BY <2>1, SeqOf DEF BqConfigureReverse
  <2> QED
    BY <1>5, <2>2 DEF BqCommand, cfg, S
<1>6. CASE name = "gate"
  <2> DEFINE cfg == With(bits, "GATE_DRIVE", on)
  <2>1. Write("GATE_DRIVE", cfg \cap {"GATE_DRIVE"}) \in S
    BY <1>6, NamedWrite
  <2> HIDE DEF S, cfg
  <2>2. BqConfigureGate(cfg) \in Seq(S)
    BY <2>1, SeqOf DEF BqConfigureGate
  <2> QED
    BY <1>6, <2>2 DEF BqCommand, cfg, S
<1>7. CASE name = "pins"
  <2> DEFINE cfg == With(bits, "ICHG_PIN", on)
  <2>1. Write("PIN_CONTROL", cfg \cap BqBits("PIN_CONTROL")) \in S
    <3>1. BqBits("PIN_CONTROL") = {"ICHG_PIN", "ILIM_PIN", "PG_OFF", "STAT_OFF"}
      BY DEF BitsOf
    <3> QED
      BY <1>7, <3>1, NamedWrite, WithOthers
  <2>2. Update("CHARGER_CONTROL", {"CE_OFF"}, cfg) \in S
    BY <1>7, NamedUpdate, WithOthers
  <2> HIDE DEF S, cfg
  <2>3. BqConfigurePins(cfg) \in Seq(S)
    BY <2>1, <2>2, SeqOf DEF BqConfigurePins
  <2> QED
    BY <1>7, <2>3 DEF BqCommand, cfg, S
<1>8. CASE name = "reset"
  <2>1. SetBit("POWER_CONTROL", "REG_RST", TRUE) \in S
    BY <1>8, NamedSetBit
  <2>2. BqChipInit \in Seq(S)
    BY <1>8, BqInitNamed
  <2> HIDE DEF S
  <2>3. BqCommand(name, on, bits) \in Seq(S)
    BY <1>8, <2>1, <2>2, SeqOf DEF BqCommand
  <2> QED
    BY <2>3 DEF S
<1>9. CASE name \notin {"charge", "hiz", "reverse", "watchdog", "mppt", "mppt_cfg", "pfm", "ts",
                        "jeita", "thresholds", "timers", "vbat_lowv", "mppt_sweep", "kick",
                        "charge_cfg", "reverse_cfg", "gate", "pins", "reset"}
  BY <1>9, SeqOf DEF BqCommand
<1> QED
  BY <1>1, <1>2, <1>3, <1>4, <1>5, <1>6, <1>7, <1>8, <1>9

(* Every command; and every program keeps to the bits of its chip. *)
LEMMA CommandNamed ==
  ASSUME NEW c \in Chip, NEW name, NEW on, NEW bits
  PROVE  Command(c, name, on, bits) \in Seq(NamedOps(c, name, bits))
  BY ShpNamed, BqNamed DEF Command

LEMMA ProgramsProper ==
  ASSUME NEW c \in Chip
  PROVE  /\ ChipInit(c) \in Seq(ProperOps(c))
         /\ Refresh(c) \in Seq(ProperOps(c))
         /\ \A name, on, bits : Command(c, name, on, bits) \in Seq(ProperOps(c))
<1>1. \A name, bits : NamedOps(c, name, bits) \subseteq ProperOps(c)
  BY DEF NamedOps
<1>2. QuietOps \subseteq ProperOps(c)
  BY DEF QuietOps, ProperOps
<1>3. ChipInit(c) \in Seq(NamedOps(c, "reset", {}))
  BY ShpInitNamed, BqInitNamed DEF ChipInit
<1>4. \A S, T : S \subseteq T => Seq(S) \subseteq Seq(T)
  BY SeqMonotonic
<1> QED
  BY <1>1, <1>2, <1>3, <1>4, CommandNamed, Programs

-----------------------------------------------------------------------------
(* The invariants *)

(* Registers, snapshots and programs speak of bits the chip has, and only  *)
(* an update8 or a kick has a value in hand.                               *)
Owned ==
  /\ \A c \in Chip : reg[c] \subseteq SettingsOf(c) /\ snap[c] \subseteq SettingsOf(c)
  /\ \A t \in Thread : run[t].prog \in Seq(ProperOps(run[t].chip))
  /\ \A t \in Thread : InProgram(t) /\ run[t].rmw => NextOp(t).kind \in {"update", "kick"}

(* Only a chip that answers is published: its initialisation does not get  *)
(* beyond the first access otherwise.                                      *)
Answers ==
  /\ \A c \in Chip : present[c] => c \in Fitted
  /\ LET c == run["power"].chip
     IN  /\ pc["power"] = "publish_lock" => c \in Fitted
         /\ pc["power"] = "init" /\ run["power"].ok /\ c \notin Fitted =>
              run["power"].prog = ChipInit(c)

(* Program p will poll a register with bit b. *)
WillPoll(c, p, b) ==
  \E i \in 1..Len(p) : p[i].kind = "poll" /\ b \in BitsOf(c, p[i].reg)

(* Every bit in which the snapshot of the chip differs is still to be read *)
(* by thread t, and nothing is in its way.                                 *)
Renewed(t, c) ==
  /\ pc[t] \in {"publish", "refresh"} /\ run[t].chip = c
  /\ bus \in {NoThread, t}
  /\ \A b \in Bit : (b \in snap[c] <=> b \in reg[c]) \/ WillPoll(c, run[t].prog, b)

(* The snapshot of a present chip is accurate but while a command runs or  *)
(* a refresh is under way.                                                 *)
Current ==
  \A c \in Chip : present[c] =>
    \/ snap[c] = reg[c]
    \/ pc["web"] = "exec" /\ req.chip = c
    \/ \E t \in Thread : Renewed(t, c)

(* A command that runs keeps to the snapshot it began with.                *)
Named ==
  pc["web"] = "exec" =>
    LET c == req.chip  name == req.cmd[1]
    IN  /\ snap[c] = req.before
        /\ run["web"].prog \in Seq(NamedOps(c, name, req.before))
        /\ name # "reset" =>
             \A b \in Bit \ Footprint(c, name) : b \in reg[c] <=> b \in req.before

Accurate == faults = 0 => Current /\ Named

Snapshots == Inv /\ RmwFresh /\ Untouched /\ Owned /\ Answers /\ Accurate

-----------------------------------------------------------------------------
(* Only bits the chip has *)

(* The settings of a chip are those of its registers; also a reset leaves  *)
(* no others.                                                              *)
LEMMA BitsAreSettings ==
  \A c : \A r \in Register : \A b \in BitsOf(c, r) : b \in Setting => b \in SettingsOf(c)
  BY DEF SettingsOf

LEMMA ResetSettings == \A c \in Chip : \A b \in Por[c] : b \in SettingsOf(c)
<1>1. \A c \in Chip : (UNION Boot[c]) \cup Por[c] \subseteq SettingsOf(c)
  BY PowerAssumption
<1> QED
  BY <1>1

(* A thread that begins a program of chip c, or none. *)
LEMMA BegunProper ==
  ASSUME Inv, NEW t \in Thread, NEW c \in Chip, NEW p \in Seq(ProperOps(c)),
         \/ run' = [run EXCEPT ![t] = Start(c, p)]
         \/ run' = [run EXCEPT ![t] = Idle(c)]
         \/ \E ok : run' = [run EXCEPT ![t] = [Start(c, p) EXCEPT !.ok = ok]]
  PROVE  \A u \in Thread : run'[u] = run[u] \/ run'[u].prog \in Seq(ProperOps(run'[u].chip))
<1>1. run'[t].chip = c /\ run'[t].prog \in {p, <<>>}
  <2>1. ASSUME NEW r, run' = [run EXCEPT ![t] = r], r.chip = c, r.prog \in {p, <<>>}
        PROVE  run'[t].chip = c /\ run'[t].prog \in {p, <<>>}
    BY <2>1 DEF Inv, TypeOK
  <2>2. /\ Start(c, p).chip = c /\ Start(c, p).prog = p
        /\ Idle(c).chip = c /\ Idle(c).prog = <<>>
        /\ \A ok : /\ [Start(c, p) EXCEPT !.ok = ok].chip = c
                   /\ [Start(c, p) EXCEPT !.ok = ok].prog = p
    BY DEF Start, Idle
  <2> QED
    BY <2>1, <2>2
<1>2. run'[t].prog \in Seq(ProperOps(c))
  BY <1>1, EmptySeq
<1> QED
  BY <1>1, <1>2 DEF Inv, TypeOK

(* Off the bus snapshots and bus stay, and a program that begins is one of *)
(* its chip.                                                               *)
LEMMA BeginsProper ==
  ASSUME Inv, [Next]_vars, ~Bus("power"), ~Bus("web")
  PROVE  /\ snap' = snap /\ bus' = bus /\ faults' = faults
         /\ \A u \in Thread : run'[u] = run[u] \/ run'[u].prog \in Seq(ProperOps(run'[u].chip))
<1> USE DEF chips, lock, client
<1> DEFINE Kept == snap' = snap /\ bus' = bus /\ faults' = faults
           Proper == \A u \in Thread :
                       run'[u] = run[u] \/ run'[u].prog \in Seq(ProperOps(run'[u].chip))
<1> SUFFICES Kept /\ Proper
  OBVIOUS
<1>0. \A S : <<>> \in Seq(S)
  OBVIOUS
<1>1. \A t \in Thread, c \in Chip : \A p \in Seq(ProperOps(c)) :
        \/ run' = [run EXCEPT ![t] = Start(c, p)]
        \/ run' = [run EXCEPT ![t] = Idle(c)]
        \/ \E ok : run' = [run EXCEPT ![t] = [Start(c, p) EXCEPT !.ok = ok]]
        => Proper
  BY BegunProper
<1>2. \A c \in Chip : /\ ChipInit(c) \in Seq(ProperOps(c))
                      /\ Refresh(c) \in Seq(ProperOps(c))
                      /\ \A name, on, bits : Command(c, name, on, bits) \in Seq(ProperOps(c))
  BY ProgramsProper
<1>3. \A t \in Thread, c \in Chip : run' = [run EXCEPT ![t] = Idle(c)] => Proper
  BY <1>0, <1>1
<1>4. run["power"].chip \in Chip /\ run["web"].chip \in Chip /\ req.chip \in Chip
  BY DEF Inv, TypeOK, RunState
<1>5. run' = run => Proper
  OBVIOUS
<1> HIDE DEF Proper
<1>6. ASSUME NEW c \in Chip, AfterChip(c)
      PROVE  Proper
  <2>1. CASE c = "shp"
    <3>1. run' = [run EXCEPT !["power"] = Start("bq", ChipInit("bq"))]
      BY <1>6, <2>1 DEF AfterChip
    <3> QED
      BY <1>1, <1>2, <3>1
  <2>2. CASE c # "shp"
    <3>1. run' = [run EXCEPT !["power"] = Idle(c)]
      BY <1>6, <2>2 DEF AfterChip
    <3> QED
      BY <1>3, <3>1
  <2> QED
    BY <2>1, <2>2
<1>7. CASE UNCHANGED vars \/ Client \/ LockTimeout \/ TakeLock("power") \/ TakeLock("web")
  BY <1>5, <1>7 DEF vars, Client, Request, LockTimeout, TakeLock
<1>8. CASE PowerStep /\ ~TakeLock("power")
  <2>1. CASE OpenBus
    <3>1. run' = run \/ run' = [run EXCEPT !["power"] = Start("shp", ChipInit("shp"))]
      BY <2>1 DEF OpenBus
    <3> QED
      BY <1>1, <1>2, <1>5, <2>1, <3>1 DEF OpenBus
  <2>2. CASE NapOver
    <3>1. run' = [run EXCEPT !["power"] = Start("shp", ChipInit("shp"))]
      BY <2>2 DEF NapOver
    <3> QED
      BY <1>1, <1>2, <2>2, <3>1 DEF NapOver
  <2>3. CASE InitDone \/ PublishDone \/ SleepOver
    <3>1. run' = run \/ AfterChip(run["power"].chip)
      BY <2>3 DEF InitDone, PublishDone, SleepOver
    <3> QED
      BY <1>4, <1>5, <1>6, <2>3, <3>1 DEF InitDone, PublishDone, SleepOver
  <2>4. CASE Publish
    <3>1. run' = [run EXCEPT !["power"] = Start(run["power"].chip, Refresh(run["power"].chip))]
      BY <2>4 DEF Publish
    <3> QED
      BY <1>1, <1>2, <1>4, <2>4, <3>1 DEF Publish
  <2>5. CASE SampleStart
    <3>1. \/ \E c \in Chip : run' = [run EXCEPT !["power"] = Start(c, Refresh(c))]
          \/ run' = [run EXCEPT !["power"] = Idle("bq")]
      BY <2>5 DEF SampleStart
    <3> QED
      BY <1>1, <1>2, <1>3, <2>5, <3>1 DEF SampleStart
  <2>6. CASE SampleNext
    <3>1. \/ run' = [run EXCEPT !["power"] = Start("bq", Refresh("bq"))]
          \/ run' = [run EXCEPT !["power"] = Idle("bq")]
      BY <2>6 DEF SampleNext
    <3> QED
      BY <1>1, <1>2, <1>3, <2>6, <3>1 DEF SampleNext
  <2> QED
    BY <1>8, <2>1, <2>2, <2>3, <2>4, <2>5, <2>6 DEF PowerStep
<1>9. CASE WebStep /\ ~TakeLock("web")
  <2>1. CASE CopySnapshot \/ CopyReturn \/ CommandAbsent \/ Reply
    BY <1>5, <2>1 DEF CopySnapshot, CopyReturn, CommandAbsent, Reply
  <2>2. CASE CommandStart
    <3> DEFINE p == Command(req.chip, req.cmd[1], req.cmd[2], snap[req.chip])
    <3>1. \E ok : run' = [run EXCEPT !["web"] = [Start(req.chip, p) EXCEPT !.ok = ok]]
      BY <2>2 DEF CommandStart
    <3>2. p \in Seq(ProperOps(req.chip))
      BY <1>2, <1>4
    <3> HIDE DEF p
    <3> QED
      BY <1>1, <1>4, <2>2, <3>1, <3>2 DEF CommandStart
  <2>3. CASE CommandDone
    <3>1. \/ run' = [run EXCEPT !["web"] = Start(run["web"].chip, Refresh(run["web"].chip))]
          \/ run' = [run EXCEPT !["web"] = Idle(run["web"].chip)]
      BY <2>3 DEF CommandDone
    <3> QED
      BY <1>1, <1>2, <1>3, <1>4, <2>3, <3>1 DEF CommandDone
  <2>4. CASE CommandRefreshed
    BY <1>3, <1>4, <2>4 DEF CommandRefreshed
  <2> QED
    BY <1>9, <2>1, <2>2, <2>3, <2>4 DEF WebStep
<1> QED
  BY <1>7, <1>8, <1>9 DEF Next

(* On the bus only a poll changes a snapshot, that of its chip. *)
LEMMA SnapOnBus ==
  ASSUME Inv, NEW t \in Thread, Bus(t)
  PROVE  LET c == run[t].chip
         IN  \/ snap' = snap
             \/ /\ NextOp(t).kind = "poll" /\ reg' = reg /\ faults' = faults
                /\ bus = t /\ bus' = NoThread
                /\ run'[t].prog = Tail(run[t].prog)
                /\ snap' = [snap EXCEPT ![c] = (@ \ BitsOf(c, NextOp(t).reg))
                                                 \cup (reg[c] \cap BitsOf(c, NextOp(t).reg))]
<1> USE DEF chips
<1>1. CASE SkipKick(t) \/ BeginTransfer(t) \/ FailTransfer(t)
  BY <1>1 DEF SkipKick, BeginTransfer, FailTransfer
<1>2. CASE Transfer(t)
  <2>1. run[t] \in RunState /\ run \in [Thread -> RunState]
    BY DEF Inv, TypeOK
  <2>2. Advance(t).prog = Tail(run[t].prog)
    BY <2>1 DEF Advance, RunState
  <2>3. CASE /\ NextOp(t).kind = "poll" /\ reg' = reg
             /\ snap' = [snap EXCEPT ![run[t].chip] =
                           (@ \ BitsOf(run[t].chip, NextOp(t).reg))
                             \cup Held(run[t].chip, NextOp(t).reg)]
             /\ run' = [run EXCEPT ![t] = Advance(t)]
    BY <1>2, <2>1, <2>2, <2>3 DEF Transfer, Held
  <2> QED
    BY <1>2, <2>3 DEF Transfer
<1> QED
  BY <1>1, <1>2 DEF Bus

(* A write leaves bits the chip has. *)
LEMMA StoreOwned ==
  ASSUME Inv, RmwFresh, Owned, NEW t \in Thread, BusWrite(t)
  PROVE  \A c \in Chip : reg'[c] \subseteq SettingsOf(c)
<1> DEFINE c == run[t].chip
           op == NextOp(t)
           v == Merge(op, run[t].cur)
<1>0. reg \in [Chip -> SUBSET Setting] /\ c \in Chip
  BY DEF Inv, TypeOK, RunState
<1>1. op \in ProperOps(c) /\ op.reg \in Register
  <2>1. run[t].prog \in Seq(ProperOps(c)) /\ run[t].prog # <<>>
    BY DEF BusWrite, InProgram, Owned
  <2>2. op \in ProperOps(c)
    BY <2>1, HeadTailProperties DEF NextOp
  <2> QED
    BY <2>2 DEF ProperOps, Op
<1>2. v \subseteq BitsOf(c, op.reg)
  <2>1. op.kind # "write" => run[t].cur = reg[c] \cap BitsOf(c, op.reg)
    BY DEF BusWrite, Writes, RmwFresh, Held
  <2> HIDE DEF c, op
  <2> QED
    BY <1>1, <2>1 DEF Merge, ProperOps
<1>3. Stored(c, op.reg, v) \subseteq SettingsOf(c)
  <2>1. CASE "REG_RST" \in v
    <3>1. Por[c] \subseteq SettingsOf(c)
      BY <1>0, ResetSettings
    <3> QED
      BY <2>1, <3>1 DEF Stored
  <2>2. CASE "REG_RST" \notin v
    <3>1. v \subseteq Setting
      BY <1>2, <2>2, BitsOfBit DEF Setting
    <3>2. v \subseteq SettingsOf(c)
      BY <1>1, <1>2, <3>1, BitsAreSettings
    <3>3. reg[c] \subseteq SettingsOf(c)
      BY <1>0 DEF Owned
    <3> QED
      BY <2>2, <3>2, <3>3 DEF Stored
  <2> QED
    BY <2>1, <2>2
<1>4. reg' = [reg EXCEPT ![c] = Stored(c, op.reg, v)]
  BY DEF BusWrite, StoreOp
<1> HIDE DEF c, v, op
<1> QED
  BY <1>0, <1>3, <1>4 DEF Owned

(* A value comes into the hand of an update8 or a kick. *)
LEMMA HandOnBus ==
  ASSUME Inv, Owned, NEW t \in Thread, Bus(t), run'[t].rmw, run'[t].prog # <<>>
  PROVE  Head(run'[t].prog).kind \in {"update", "kick"}
<1> USE DEF chips
<1>0. run \in [Thread -> RunState] /\ run[t] \in RunState /\ InProgram(t)
  BY SkipKickShape, BeginShape, TransferShape, FailShape DEF Bus, BusShape, Inv, TypeOK
<1>1. CASE run'[t] = run[t]
  BY <1>0, <1>1 DEF Owned, NextOp
<1>2. CASE run' = [run EXCEPT ![t] = Advance(t)] \/ run' = [run EXCEPT ![t] = AfterError(t)]
  BY <1>0, <1>2, AdvanceInHand
<1>3. CASE /\ NextOp(t).kind \in {"update", "kick"}
           /\ run' = [run EXCEPT ![t].rmw = TRUE, ![t].cur = Held(run[t].chip, NextOp(t).reg)]
  <2>1. run'[t].prog = run[t].prog
    BY <1>0, <1>3 DEF RunState
  <2> QED
    BY <1>3, <2>1 DEF NextOp
<1> QED
  BY <1>0, <1>1, <1>2, <1>3 DEF Bus, SkipKick, BeginTransfer, Transfer, FailTransfer

(* The invariant. *)
LEMMA OwnedNext == Inv /\ RmwFresh /\ Owned /\ [Next]_vars => Owned'
<1> SUFFICES ASSUME Inv, RmwFresh, Owned, [Next]_vars PROVE Owned'
  OBVIOUS
<1>1. ASSUME NEW t \in Thread, Bus(t)
      PROVE  Owned'
  <2>1. BusShape(t)
    BY <1>1, SkipKickShape, BeginShape, TransferShape, FailShape DEF Bus
  <2>2. \A c \in Chip : reg'[c] \subseteq SettingsOf(c)
    <3>1. CASE reg' = reg
      BY <3>1 DEF Owned
    <3> QED
      BY <1>1, <3>1, OnBus, StoreOwned
  <2>3. \A c \in Chip : snap'[c] \subseteq SettingsOf(c)
    <3>1. CASE snap' = snap
      BY <3>1 DEF Owned
    <3>2. CASE \E r : snap' = [snap EXCEPT ![run[t].chip] =
                                 (@ \ BitsOf(run[t].chip, r))
                                   \cup (reg[run[t].chip] \cap BitsOf(run[t].chip, r))]
      BY <3>2 DEF Owned, Inv, TypeOK, RunState
    <3> QED
      BY <1>1, <3>1, <3>2, SnapOnBus
  <2>4. \A u \in Thread : run'[u].prog \in Seq(ProperOps(run'[u].chip))
    <3>1. Tail(run[t].prog) \in Seq(ProperOps(run[t].chip))
      BY <2>1, HeadTailProperties DEF Owned, BusShape, InProgram
    <3> QED
      BY <2>1, <3>1, EmptySeq DEF BusShape, Owned
  <2>5. \A u \in Thread : InProgram(u)' /\ run'[u].rmw => NextOp(u)'.kind \in {"update", "kick"}
    <3> SUFFICES ASSUME NEW u \in Thread, run'[u].prog # <<>>, run'[u].rmw
                 PROVE  Head(run'[u].prog).kind \in {"update", "kick"}
      BY DEF InProgram, NextOp
    <3>1. CASE u = t
      BY <1>1, <3>1, HandOnBus
    <3>2. CASE u # t
      BY <2>1, <3>2 DEF BusShape, Owned, InProgram, NextOp
    <3> QED
      BY <3>1, <3>2
  <2> QED
    BY <2>2, <2>3, <2>4, <2>5 DEF Owned
<1>2. CASE ~Bus("power") /\ ~Bus("web")
  <2>1. /\ reg' = reg /\ snap' = snap
        /\ \A u \in Thread : run'[u] = run[u] \/ ~run'[u].rmw
        /\ \A u \in Thread : run'[u] = run[u] \/ run'[u].prog \in Seq(ProperOps(run'[u].chip))
    BY <1>2, OffBus, BeginsProper
  <2> QED
    BY <2>1 DEF Owned, InProgram, NextOp
<1> QED
  BY <1>1, <1>2

LEMMA InitOwned == Init => Owned
<1> SUFFICES ASSUME Init PROVE Owned
  OBVIOUS
<1>1. \A c \in Chip : \A bits \in Boot[c] : \A b \in bits : b \in SettingsOf(c)
  <2>1. \A c \in Chip : (UNION Boot[c]) \cup Por[c] \subseteq SettingsOf(c)
    BY PowerAssumption
  <2> QED
    BY <2>1
<1>2. \A c \in Chip : reg[c] \in Boot[c] /\ snap[c] = {}
  BY DEF Init
<1>3. \A t \in Thread : run[t].prog = <<>>
  BY NothingRuns DEF Init
<1> QED
  BY <1>1, <1>2, <1>3, EmptySeq DEF Owned, InProgram

-----------------------------------------------------------------------------
(* Only chips that answer *)

(* The software-host sequences are programs. *)
LEMMA HostPrograms ==
  /\ ShpSoftwareHost \in Program /\ BqSoftwareHost \in Program
  /\ <<Write("ADC_CONTROL", {})>> \in Program
  /\ <<Write("MASK1", {}), Write("ADC_CHANNEL_CONTROL", {}),
       Update("ADC_CONTROL", {}, {}), Update("ADC_CONTROL", {}, {})>> \in Program
<1>1. /\ SetBit("JEITA_CONTROL1", "TS_OFF", TRUE) \in Op
      /\ SetBit("JEITA_CONTROL0", "JEITA", FALSE) \in Op
      /\ SetBit("MPPT_CONTROL0", "MPPT", FALSE) \in Op
      /\ SetBit("TS_CHARGE_BEHAVIOR", "TS", FALSE) \in Op
      /\ SetBit("MPPT_CONTROL", "MPPT", FALSE) \in Op
  BY SetBitOp DEF Bit, Register
<1>2. ShpSoftwareHost \in Program
  BY <1>1, Short, ShpPins, ShpSetters DEF ShpSoftwareHost
<1>3. BqSoftwareHost \in Program
  BY <1>1, Short, BqPins, BqSetters DEF BqSoftwareHost
<1>4. /\ Write("ADC_CONTROL", {}) \in Op /\ Write("MASK1", {}) \in Op
      /\ Write("ADC_CHANNEL_CONTROL", {}) \in Op /\ Update("ADC_CONTROL", {}, {}) \in Op
  BY WriteOp, UpdateOp DEF Register
<1> QED
  BY <1>2, <1>3, <1>4, Short

(* An initialisation starts with a read that has to succeed. *)
LEMMA FirstAccess ==
  \A c \in Chip : /\ ChipInit(c) # <<>>
                  /\ Head(ChipInit(c)).kind = "read" /\ Head(ChipInit(c)).must
<1> DEFINE shp == <<Read("CHARGE_OPTION0"), Read("STATUS0")>>
           bq == <<Read("PART_INFO")>>
           adc == <<Write("MASK1", {}), Write("ADC_CHANNEL_CONTROL", {}),
                    Update("ADC_CONTROL", {}, {}), Update("ADC_CONTROL", {}, {})>>
<1>1. \A p, q \in Seq(Op) : p # <<>> => /\ p \o q # <<>> /\ p \o q \in Seq(Op)
                                        /\ Head(p \o q) = Head(p)
  OBVIOUS
<1>2. \A r : Read(r).kind = "read" /\ Read(r).must
  BY DEF Read, Access
<1>3. shp \in Seq(Op) /\ bq \in Seq(Op)
  BY ReadOp DEF Register
<1>4. /\ shp # <<>> /\ Head(shp) = Read("CHARGE_OPTION0")
      /\ bq # <<>> /\ Head(bq) = Read("PART_INFO")
  OBVIOUS
<1>5. /\ ShpSoftwareHost \in Seq(Op) /\ <<Write("ADC_CONTROL", {})>> \in Seq(Op)
      /\ BqSoftwareHost \in Seq(Op) /\ adc \in Seq(Op)
  BY HostPrograms DEF Program
<1>6. /\ ChipInit("shp") = (shp \o ShpSoftwareHost) \o <<Write("ADC_CONTROL", {})>>
      /\ ChipInit("bq") = (bq \o BqSoftwareHost) \o adc
  BY DEF ChipInit, ShpChipInit, BqChipInit
<1> HIDE DEF shp, bq, adc
<1>7. /\ shp \o ShpSoftwareHost # <<>> /\ shp \o ShpSoftwareHost \in Seq(Op)
      /\ Head(shp \o ShpSoftwareHost) = Head(shp)
  BY <1>1, <1>3, <1>4, <1>5
<1>8. ChipInit("shp") # <<>> /\ Head(ChipInit("shp")) = Read("CHARGE_OPTION0")
  BY <1>1, <1>4, <1>5, <1>6, <1>7
<1>9. /\ bq \o BqSoftwareHost # <<>> /\ bq \o BqSoftwareHost \in Seq(Op)
      /\ Head(bq \o BqSoftwareHost) = Head(bq)
  BY <1>1, <1>3, <1>4, <1>5
<1>10. ChipInit("bq") # <<>> /\ Head(ChipInit("bq")) = Read("PART_INFO")
  BY <1>1, <1>4, <1>5, <1>6, <1>9
<1> QED
  BY <1>2, <1>8, <1>10

(* A chip that does not answer fails at the first access of its            *)
(* initialisation.                                                         *)
LEMMA AnswersOnBus ==
  ASSUME Inv, Answers, NEW t \in Thread, Bus(t)
  PROVE  Answers'
<1> USE DEF chips
<1> DEFINE c == run["power"].chip
<1>1. BusShape(t)
  BY SkipKickShape, BeginShape, TransferShape, FailShape DEF Bus
<1>2. ASSUME t = "power", pc["power"] = "init", run'["power"].ok, c \notin Fitted
      PROVE  run'["power"].prog = ChipInit(c)
  <2>0. /\ run["power"] \in RunState /\ run \in [Thread -> RunState] /\ c \in Chip
        /\ InProgram("power")
    BY <1>1, <1>2 DEF Inv, TypeOK, RunState, BusShape
  <2>1. run["power"].ok
    BY <1>2, BusOutcome
  <2>2. run["power"].prog = ChipInit(c)
    BY <1>2, <2>1 DEF Answers
  <2>3. NextOp("power").kind = "read" /\ NextOp("power").must
    BY <2>0, <2>2, FirstAccess DEF NextOp
  <2>4. ~AfterError("power").ok
    BY <2>0, <2>3 DEF AfterError, RunState
  <2>5. ~SkipKick("power") /\ ~Transfer("power")
    BY <1>2, <2>3 DEF SkipKick, KickIdle, Transfer
  <2>6. ~FailTransfer("power")
    BY <1>2, <2>0, <2>4 DEF FailTransfer
  <2>7. BeginTransfer("power")
    BY <1>2, <2>5, <2>6 DEF Bus
  <2>8. run' = run
    BY <1>2, <2>0, <2>4, <2>7 DEF BeginTransfer
  <2> QED
    BY <2>2, <2>8
<1> QED
  BY <1>1, <1>2 DEF Answers, BusShape

(* The invariant. *)
LEMMA AnswersNext == Inv /\ Answers /\ [Next]_vars => Answers'
<1> SUFFICES ASSUME Inv, Answers, [Next]_vars PROVE Answers'
  OBVIOUS
<1> USE DEF chips, lock, client
<1>0. /\ pc \in [Thread -> PowerPC \cup WebPC] /\ run \in [Thread -> RunState]
      /\ present \in [Chip -> BOOLEAN] /\ run["power"].chip \in Chip
  BY DEF Inv, TypeOK, RunState
<1>1. ASSUME present' = present, run'["power"] = run["power"], pc'["power"] = pc["power"]
      PROVE  Answers'
  BY <1>1 DEF Answers
<1>2. ASSUME present' = present, pc'["power"] \notin {"init", "publish_lock"}
      PROVE  Answers'
  BY <1>2 DEF Answers
<1>3. ASSUME NEW c \in Chip, present' = present,
             run' = [run EXCEPT !["power"] = Start(c, ChipInit(c))], pc'["power"] = "init"
      PROVE  Answers'
  <2>1. run'["power"].chip = c /\ run'["power"].prog = ChipInit(c)
    BY <1>0, <1>3 DEF Start, Idle
  <2> QED
    BY <1>3, <2>1 DEF Answers
<1>4. ASSUME NEW c, AfterChip(c), present' = present
      PROVE  Answers'
  <2>1. CASE c = "shp"
    BY <1>0, <1>3, <1>4, <2>1 DEF AfterChip
  <2>2. CASE c # "shp"
    <3>1. pc'["power"] \in {"sample_lock", "nap"}
      BY <1>0, <1>4, <2>2 DEF AfterChip
    <3> QED
      BY <1>2, <1>4, <3>1
  <2> QED
    BY <2>1, <2>2
<1>5. CASE UNCHANGED vars \/ Client \/ LockTimeout \/ TakeLock("power") \/ TakeLock("web")
  BY <1>0, <1>1, <1>5 DEF vars, Client, Request, LockTimeout, TakeLock, Answer
<1>6. CASE Bus("power") \/ Bus("web")
  BY <1>6, AnswersOnBus
<1>7. CASE OpenBus \/ NapOver
  BY <1>0, <1>2, <1>3, <1>7 DEF OpenBus, NapOver
<1>8. CASE InitDone
  <2>1. CASE run["power"].ok
    <3>1. run["power"].chip \in Fitted
      BY <1>0, <1>8, <2>1, FirstAccess DEF InitDone, InProgram, Answers
    <3>2. run' = run /\ present' = present /\ pc'["power"] = "publish_lock"
      BY <1>0, <1>8, <2>1 DEF InitDone
    <3> QED
      BY <3>1, <3>2 DEF Answers
  <2>2. CASE ~run["power"].ok
    BY <1>4, <1>8, <2>2 DEF InitDone
  <2> QED
    BY <2>1, <2>2
<1>9. CASE Publish
  <2>1. /\ present' = [present EXCEPT ![run["power"].chip] = TRUE]
        /\ pc'["power"] = "publish" /\ run["power"].chip \in Fitted
    BY <1>0, <1>9 DEF Publish, Answers
  <2> QED
    BY <1>0, <2>1 DEF Answers
<1>10. CASE PublishDone
  BY <1>4, <1>10 DEF PublishDone
<1>11. CASE SampleStart \/ SampleNext \/ SleepOver
  <2>1. present' = present /\ pc'["power"] \notin {"init", "publish_lock"}
    BY <1>0, <1>11 DEF SampleStart, SampleNext, SleepOver
  <2> QED
    BY <1>2, <2>1
<1>12. CASE CopySnapshot \/ CopyReturn \/ CommandAbsent \/ CommandStart \/ CommandDone
            \/ CommandRefreshed \/ Reply
  <2>1. present' = present /\ run'["power"] = run["power"] /\ pc'["power"] = pc["power"]
    BY <1>0, <1>12 DEF CopySnapshot, CopyReturn, CommandAbsent, CommandStart, CommandDone,
       CommandRefreshed, Reply, Answer
  <2> QED
    BY <1>1, <2>1
<1> QED
  BY <1>5, <1>6, <1>7, <1>8, <1>9, <1>10, <1>11, <1>12 DEF Next, PowerStep, WebStep

LEMMA InitAnswers == Init => Answers
  BY DEF Init, Answers

-----------------------------------------------------------------------------
(* Accurate snapshots *)

(* The elements of a concatenation. *)
LEMMA Later ==
  ASSUME NEW S, NEW T, NEW p \in Seq(S), NEW q \in Seq(T), NEW i \in 1..Len(q)
  PROVE  /\ Len(p) + i \in 1..Len(p \o q) /\ (p \o q)[Len(p) + i] = q[i]
         /\ p \o q \in Seq(S \cup T)
<1>1. p \in Seq(S \cup T) /\ q \in Seq(S \cup T)
  OBVIOUS
<1>2. Len(p) \in Nat /\ Len(q) \in Nat
  OBVIOUS
<1>3. Len(p \o q) = Len(p) + Len(q) /\ p \o q \in Seq(S \cup T)
  BY <1>1, ConcatProperties
<1>4. (p \o q)[Len(p) + i] = q[i]
  BY <1>1, <1>2
<1> QED
  BY <1>2, <1>3, <1>4

LEMMA Earlier ==
  ASSUME NEW S, NEW T, NEW p \in Seq(S), NEW q \in Seq(T), NEW i \in 1..Len(p)
  PROVE  i \in 1..Len(p \o q) /\ (p \o q)[i] = p[i]
<1>1. p \in Seq(S \cup T) /\ q \in Seq(S \cup T)
  OBVIOUS
<1>2. Len(p) \in Nat /\ Len(q) \in Nat
  OBVIOUS
<1>3. Len(p \o q) = Len(p) + Len(q)
  BY <1>1, ConcatProperties
<1> QED
  BY <1>1, <1>2, <1>3

(* A refresh polls every register that holds a setting. *)
LEMMA RefreshPolls ==
  ASSUME NEW c \in Chip, NEW b \in SettingsOf(c)
  PROVE  WillPoll(c, Refresh(c), b)
<1>1. PICK r \in Register : b \in BitsOf(c, r)
  BY DEF SettingsOf
<1>2. CASE c = "shp"
  <2>1. r \in {"CHARGE_OPTION0", "CHARGE_OPTION1", "CHARGE_OPTION3", "CHARGE_OPTION4",
               "MPPT_CONTROL0", "JEITA_CONTROL0", "JEITA_CONTROL1", "CHARGE_CURRENT",
               "CHARGE_LIMITS", "OTG_VOLTAGE", "OTG_CURRENT"}
    BY <1>1, <1>2 DEF BitsOf, ShpBits, ShpLimits
  <2>2. \E i \in 1..Len(ShpFields) : ShpFields[i] = r
    BY <2>1 DEF ShpFields
  <2>3. PICK i \in 1..Len(ShpFields) : ShpFields[i] = r
    BY <2>2
  <2>4. Polls(ShpFields)[i] = Poll(r) /\ Len(Polls(ShpFields)) = Len(ShpFields)
    BY <2>3 DEF Polls, ShpFields
  <2>5. PICK j \in 1..Len(ShpRefresh) : ShpRefresh[j] = Poll(r)
    <3> DEFINE a == <<Access("update", "STATUS1", {}, {}, FALSE),
                      TryRead("ADC_CONTROL"), Read("STATUS_AND_ADC")>>
               q == Polls(ShpFields)
    <3>1. ShpRefresh = a \o q
      BY DEF ShpRefresh
    <3>2. a \in Seq({a[1], a[2], a[3]})
      OBVIOUS
    <3>3. q \in Seq({q[k] : k \in 1..Len(ShpFields)})
      BY DEF Polls, ShpFields
    <3>4. i \in 1..Len(q) /\ q[i] = Poll(r)
      BY <2>3, <2>4
    <3> HIDE DEF a, q
    <3>5. Len(a) + i \in 1..Len(a \o q) /\ (a \o q)[Len(a) + i] = Poll(r)
      BY <3>2, <3>3, <3>4, Later
    <3> QED
      BY <3>1, <3>5
  <2>6. Poll(r).kind = "poll" /\ Poll(r).reg = r
    BY DEF Poll, Access
  <2> QED
    BY <1>1, <1>2, <2>5, <2>6 DEF WillPoll, Refresh
<1>3. CASE c = "bq"
  <2>1. r \in {"CHARGER_CONTROL", "POWER_CONTROL", "MPPT_CONTROL", "TS_CHARGE_BEHAVIOR",
               "TIMER_CONTROL", "PRECHARGE_CONTROL", "PIN_CONTROL", "CHARGE_VOLTAGE",
               "CHARGE_LIMITS", "REVERSE_VOLTAGE", "REVERSE_LIMITS", "GATE_DRIVE"}
    BY <1>1, <1>3 DEF BitsOf, BqBits, BqLimits
  <2>2. \E i \in 1..Len(BqFields) : BqFields[i] = r
    BY <2>1 DEF BqFields
  <2>3. PICK i \in 1..Len(BqFields) : BqFields[i] = r
    BY <2>2
  <2>4. Polls(BqFields)[i] = Poll(r) /\ Len(Polls(BqFields)) = Len(BqFields)
    BY <2>3 DEF Polls, BqFields
  <2>5. PICK j \in 1..Len(BqRefresh) : BqRefresh[j] = Poll(r)
    <3> DEFINE a == <<TryRead("FLAG1"), Read("STATUS_AND_ADC")>>
               q == Polls(BqFields)
               z == <<Access("kick", "CHARGER_CONTROL", {}, {}, FALSE)>>
    <3>1. BqRefresh = (a \o q) \o z
      BY DEF BqRefresh
    <3>2. /\ a \in Seq({a[1], a[2]}) /\ q \in Seq({q[k] : k \in 1..Len(BqFields)})
          /\ z \in Seq({z[1]})
      BY DEF Polls, BqFields
    <3>3. i \in 1..Len(q) /\ q[i] = Poll(r)
      BY <2>3, <2>4
    <3> HIDE DEF a, q, z
    <3>4. Len(a) + i \in 1..Len(a \o q) /\ (a \o q)[Len(a) + i] = Poll(r)
      BY <3>2, <3>3, Later
    <3>5. a \o q \in Seq({a[1], a[2]} \cup {q[k] : k \in 1..Len(BqFields)})
      BY <3>2, Later
    <3>6. /\ Len(a) + i \in 1..Len((a \o q) \o z)
          /\ ((a \o q) \o z)[Len(a) + i] = Poll(r)
      BY <3>2, <3>4, <3>5, Earlier
    <3> QED
      BY <3>1, <3>6
  <2>6. Poll(r).kind = "poll" /\ Poll(r).reg = r
    BY DEF Poll, Access
  <2> QED
    BY <1>1, <1>3, <2>5, <2>6 DEF WillPoll, Refresh
<1> QED
  BY <1>2, <1>3

(* What is polled later is polled now or by the rest of the program. *)
LEMMA PollRest ==
  ASSUME NEW c, NEW p \in Program, p # <<>>, NEW b, WillPoll(c, p, b)
  PROVE  \/ Head(p).kind = "poll" /\ b \in BitsOf(c, Head(p).reg)
         \/ WillPoll(c, Tail(p), b)
<1>1. PICK i \in 1..Len(p) : p[i].kind = "poll" /\ b \in BitsOf(c, p[i].reg)
  BY DEF WillPoll
<1>2. CASE i = 1
  BY <1>1, <1>2
<1>3. CASE i # 1
  <2>1. i - 1 \in 1..Len(Tail(p)) /\ Tail(p)[i - 1] = p[i]
    BY <1>3 DEF Program
  <2> QED
    BY <1>1, <2>1 DEF WillPoll
<1> QED
  BY <1>2, <1>3

(* An access to a chip that answers, without a failure of the wire. *)
LEMMA CleanBus ==
  ASSUME Inv, Owned, NEW t \in Thread, Bus(t), run[t].chip \in Fitted, faults' = 0
  PROVE  /\ faults = 0
         /\ \/ /\ snap' = snap /\ reg' = reg /\ run'[t].prog = run[t].prog
               /\ bus \in {NoThread, t} /\ bus' \in {NoThread, t}
            \/ snap' = snap /\ reg' = reg /\ bus \notin {NoThread, t} /\ bus' = bus
            \/ /\ snap' = snap /\ (reg' = reg \/ BusWrite(t))
               /\ run'[t].prog = Tail(run[t].prog)
               /\ NextOp(t).kind # "poll" /\ bus' \in {NoThread, bus}
            \/ /\ NextOp(t).kind = "poll" /\ reg' = reg /\ bus' = NoThread
               /\ run'[t].prog = Tail(run[t].prog)
               /\ snap' = [snap EXCEPT ![run[t].chip] =
                             (@ \ BitsOf(run[t].chip, NextOp(t).reg))
                               \cup (reg[run[t].chip] \cap BitsOf(run[t].chip, NextOp(t).reg))]
<1> USE DEF chips
<1>0. /\ run[t] \in RunState /\ run \in [Thread -> RunState] /\ InProgram(t)
      /\ faults \in Nat /\ NoThread \notin Thread
  BY SkipKickShape, BeginShape, TransferShape, FailShape, PowerAssumption
     DEF Bus, BusShape, Inv, TypeOK
<1>1. Advance(t).prog = Tail(run[t].prog)
  BY <1>0 DEF Advance, RunState
<1>2. CASE SkipKick(t)
  BY <1>0, <1>1, <1>2 DEF SkipKick, KickIdle
<1>3. CASE BeginTransfer(t)
  <2>1. CASE bus = NoThread
    BY <1>3, <2>1 DEF BeginTransfer
  <2>2. CASE bus # NoThread
    BY <1>3, <2>2 DEF BeginTransfer
  <2> QED
    BY <2>1, <2>2
<1>4. CASE Transfer(t)
  <2>0. faults' = faults /\ bus = t /\ bus' = NoThread
    BY <1>4 DEF Transfer
  <2>1. CASE /\ NextOp(t).kind = "read" /\ run' = [run EXCEPT ![t] = Advance(t)]
             /\ UNCHANGED <<reg, snap>>
    BY <1>0, <1>1, <2>0, <2>1
  <2>2. CASE NextOp(t).kind = "poll" /\ snap' # snap
    BY <1>4, <2>0, <2>2, SnapOnBus
  <2>3. CASE /\ NextOp(t).kind = "poll" /\ reg' = reg
             /\ snap' = [snap EXCEPT ![run[t].chip] =
                           (@ \ BitsOf(run[t].chip, NextOp(t).reg))
                             \cup Held(run[t].chip, NextOp(t).reg)]
             /\ run' = [run EXCEPT ![t] = Advance(t)]
    BY <1>0, <1>1, <2>0, <2>3 DEF Held
  <2>4. CASE /\ run' = [run EXCEPT ![t].rmw = TRUE,
                                   ![t].cur = Held(run[t].chip, NextOp(t).reg)]
             /\ UNCHANGED <<reg, snap>>
    <3>1. run'[t].prog = run[t].prog
      BY <1>0, <2>4 DEF RunState
    <3> QED
      BY <2>0, <2>4, <3>1
  <2>5. CASE /\ Writes(t) /\ StoreOp(t) /\ run' = [run EXCEPT ![t] = Advance(t)]
             /\ snap' = snap
    <3>1. NextOp(t).kind # "poll"
      BY <1>0, <2>5 DEF Writes, Owned
    <3>2. BusWrite(t)
      BY <1>0, <2>5 DEF BusWrite
    <3> QED
      BY <1>0, <1>1, <2>0, <2>5, <3>1, <3>2
  <2> QED
    BY <1>4, <2>1, <2>3, <2>4, <2>5 DEF Transfer
<1>5. CASE FailTransfer(t)
  BY <1>0, <1>5 DEF FailTransfer
<1> QED
  BY <1>2, <1>3, <1>4, <1>5 DEF Bus

(* Refreshing, nobody else is in the way. *)
LEMMA RenewedOnBus ==
  ASSUME Inv, RmwFresh, Owned, NEW t \in Thread, Bus(t), faults' = 0,
         run[t].chip \in Fitted, run[t].prog \in Seq(QuietOps),
         Renewed(t, run[t].chip)
  PROVE  Renewed(t, run[t].chip)'
<1> DEFINE c == run[t].chip
           r == NextOp(t).reg
<1>0. /\ BusShape(t) /\ c \in Chip /\ snap \in [Chip -> SUBSET Setting]
      /\ run[t].prog \in Program /\ run[t].prog # <<>>
  BY SkipKickShape, BeginShape, TransferShape, FailShape, SMTT(30)
     DEF Bus, BusShape, Inv, TypeOK, RunState, InProgram
<1>1. pc'[t] \in {"publish", "refresh"} /\ run'[t].chip = c
  BY <1>0 DEF Renewed, BusShape
<1>2. bus' \in {NoThread, t}
  BY <1>0 DEF Renewed, BusShape
<1>3. BusWrite(t) => reg' = reg
  BY QuietWrite
<1>4. \A b \in Bit : (b \in snap'[c] <=> b \in reg'[c]) \/ WillPoll(c, run'[t].prog, b)
  <2> SUFFICES ASSUME NEW b \in Bit, ~WillPoll(c, run'[t].prog, b)
               PROVE  b \in snap'[c] <=> b \in reg'[c]
    OBVIOUS
  <2>1. (b \in snap[c] <=> b \in reg[c]) \/ WillPoll(c, run[t].prog, b)
    BY DEF Renewed
  <2>2. WillPoll(c, run[t].prog, b) =>
          \/ NextOp(t).kind = "poll" /\ b \in BitsOf(c, r)
          \/ WillPoll(c, Tail(run[t].prog), b)
    BY <1>0, PollRest DEF NextOp
  <2>3. CASE snap' = snap /\ reg' = reg /\ run'[t].prog = run[t].prog
    BY <2>1, <2>3
  <2>4. CASE /\ snap' = snap /\ reg' = reg /\ NextOp(t).kind # "poll"
             /\ run'[t].prog = Tail(run[t].prog)
    BY <2>1, <2>2, <2>4
  <2>5. CASE /\ reg' = reg /\ run'[t].prog = Tail(run[t].prog)
             /\ snap' = [snap EXCEPT ![c] = (@ \ BitsOf(c, r)) \cup (reg[c] \cap BitsOf(c, r))]
    <3>1. snap'[c] = (snap[c] \ BitsOf(c, r)) \cup (reg[c] \cap BitsOf(c, r))
      BY <1>0, <2>5
    <3> QED
      BY <2>1, <2>2, <2>5, <3>1
  <2>6. bus \in {NoThread, t}
    BY DEF Renewed
  <2> QED
    BY <1>3, <2>3, <2>4, <2>5, <2>6, CleanBus
<1> QED
  BY <1>1, <1>2, <1>4 DEF Renewed

(* An accurate snapshot stays so under a quiet program. *)
LEMMA AccurateOnBus ==
  ASSUME Inv, RmwFresh, Owned, NEW t \in Thread, Bus(t), faults' = 0,
         run[t].chip \in Fitted, run[t].prog \in Seq(QuietOps),
         snap[run[t].chip] = reg[run[t].chip]
  PROVE  snap'[run[t].chip] = reg'[run[t].chip]
<1> DEFINE c == run[t].chip
           r == NextOp(t).reg
<1>0. c \in Chip /\ snap \in [Chip -> SUBSET Setting]
  BY DEF Inv, TypeOK, RunState
<1>1. BusWrite(t) => reg' = reg
  BY QuietWrite
<1>2. CASE snap' = snap /\ reg' = reg
  BY <1>2
<1>3. CASE /\ reg' = reg
           /\ snap' = [snap EXCEPT ![c] = (@ \ BitsOf(c, r)) \cup (reg[c] \cap BitsOf(c, r))]
  <2>1. snap'[c] = (snap[c] \ BitsOf(c, r)) \cup (reg[c] \cap BitsOf(c, r))
    BY <1>0, <1>3
  <2> QED
    BY <1>3, <2>1
<1> QED
  BY <1>1, <1>2, <1>3, CleanBus

(* A command that runs writes what it names, and the rest as it was.       *)
LEMMA NamedOnBus ==
  ASSUME Inv, RmwFresh, Owned, Named, Bus("web"), pc["web"] = "exec", faults' = 0,
         req.chip \in Fitted
  PROVE  Named'
<1> DEFINE c == req.chip
           name == req.cmd[1]
           op == NextOp("web")
           Spared == Bit \ Footprint(c, name)
<1>0. /\ BusShape("web") /\ c \in Chip /\ run["web"].chip = c
      /\ reg \in [Chip -> SUBSET Setting]
      /\ run["web"].prog # <<>>
  BY SkipKickShape, BeginShape, TransferShape, FailShape
     DEF Bus, BusShape, Inv, TypeOK, Execution, InProgram
<1>1. /\ snap[c] = req.before
      /\ run["web"].prog \in Seq(NamedOps(c, name, req.before))
      /\ name # "reset" => \A b \in Spared : b \in reg[c] <=> b \in req.before
  BY DEF Named
<1>2. op \in NamedOps(c, name, req.before)
  BY <1>0, <1>1, HeadTailProperties DEF NextOp
<1>3. op.kind # "poll"
  BY <1>2 DEF NamedOps
<1>4. run'["web"].prog \in Seq(NamedOps(c, name, req.before))
  <2>1. Tail(run["web"].prog) \in Seq(NamedOps(c, name, req.before))
    BY <1>0, <1>1, HeadTailProperties
  <2> QED
    BY <1>0, <1>1, <2>1, EmptySeq DEF BusShape
<1>5. snap' = snap
  BY <1>3, SnapOnBus
<1>6. ASSUME name # "reset"
      PROVE  \A b \in Spared : b \in reg'[c] <=> b \in req.before
  <2>1. CASE reg' = reg
    BY <1>1, <1>6, <2>1
  <2>2. CASE BusWrite("web")
    <3>1. /\ op.val \subseteq BitsOf(c, op.reg) /\ "REG_RST" \notin op.val
          /\ op.kind # "write" => op.val \subseteq op.mask
          /\ \A b \in BitsOf(c, op.reg) : b \notin Footprint(c, name) =>
               (op.kind = "write" \/ b \in op.mask => (b \in op.val <=> b \in req.before))
      BY <1>2, <1>6 DEF NamedOps, ProperOps
    <3>2. reg'[c] = IF op.kind = "write"
                    THEN (reg[c] \ BitsOf(c, op.reg)) \cup op.val
                    ELSE (reg[c] \ (BitsOf(c, op.reg) \cap op.mask)) \cup op.val
      BY <1>0, <2>2, <3>1, AccessMade
    <3>3. \A b \in Spared : b \in reg[c] <=> b \in req.before
      BY <1>1, <1>6
    <3>4. \A b \in Spared : b \notin Footprint(c, name)
      OBVIOUS
    <3> HIDE DEF c, name, op, Spared
    <3>5. CASE op.kind = "write"
      BY <3>1, <3>2, <3>3, <3>4, <3>5
    <3>6. CASE op.kind # "write"
      BY <3>1, <3>2, <3>3, <3>4, <3>6
    <3> QED
      BY <3>5, <3>6
  <2> QED
    BY <2>1, <2>2, OnBus
<1>7. req' = req
  BY <1>0 DEF BusShape
<1> QED
  BY <1>1, <1>4, <1>5, <1>6, <1>7 DEF Named

(* Who owns the lock is alone in the sections it guards. *)
LEMMA OnlyHolder ==
  ASSUME Inv, NEW t \in Thread, owner = t
  PROVE  \A u \in Thread : u # t => pc[u] \notin {"publish", "sample", "exec", "refresh"}
  BY DEF Inv, LockDiscipline, HolderOwns, TypeOK, PowerPC, WebPC

(* The other chip. *)
LEMMA OtherSnap ==
  ASSUME Inv, NEW t \in Thread, Bus(t), NEW d \in Chip, d # run[t].chip
  PROVE  snap'[d] = snap[d]
<1>1. snap \in [Chip -> SUBSET Setting] /\ run[t].chip \in Chip
  BY DEF Inv, TypeOK, RunState
<1> QED
  BY <1>1, SnapOnBus

(* A step on the bus. *)
LEMMA CurrentOnBus ==
  ASSUME Inv, RmwFresh, Owned, Answers, Accurate, NEW t \in Thread, Bus(t), faults' = 0
  PROVE  Current' /\ Named'
<1> DEFINE d == run[t].chip
<1>0. BusShape(t) /\ d \in Chip /\ InProgram(t) /\ faults \in Nat /\ CanRun(t)
  <2>1. BusShape(t)
    BY SkipKickShape, BeginShape, TransferShape, FailShape DEF Bus
  <2>2. CanRun(t)
    BY DEF Bus, SkipKick, BeginTransfer, Transfer, FailTransfer
  <2> QED
    BY <2>1, <2>2, PowerAssumption DEF BusShape, Inv, TypeOK, RunState
<1>1. Current /\ Named
  <2>1. faults = 0
    <3>1. faults' = faults \/ faults' = faults + 1
      BY DEF Bus, SkipKick, BeginTransfer, Transfer, FailTransfer
    <3> QED
      BY <1>0, <3>1
  <2> QED
    BY <2>1 DEF Accurate
<1>2. UNCHANGED <<present, pc, req>>
  BY <1>0 DEF BusShape
<1>3. \A c \in Chip : c # d => reg'[c] = reg[c] /\ snap'[c] = snap[c]
  BY OtherChip, OtherSnap
<1>4. CASE ~present[d]
  <2>1. t = "power" /\ pc["power"] = "init"
    BY <1>0, <1>4 DEF Inv, LockDiscipline, Guarded
  <2>2. pc["web"] \notin {"exec", "refresh"}
    BY <1>0, <2>1, WebFirst
  <2>3. \A c \in Chip : present[c] => snap[c] = reg[c]
    <3>1. \A c \in Chip : ~Renewed("power", c) /\ ~Renewed("web", c)
      BY <2>1, <2>2 DEF Renewed, Inv, TypeOK, WebPC
    <3> QED
      BY <1>1, <2>2, <3>1 DEF Current
  <2> QED
    BY <1>2, <1>3, <1>4, <2>2, <2>3 DEF Current, Named
<1>5. CASE present[d]
  <2>1. owner = t /\ d \in Fitted
    BY <1>0, <1>5 DEF Inv, LockDiscipline, Guarded, Answers
  <2>2. \A u \in Thread : u # t => pc[u] \notin {"publish", "sample", "exec", "refresh"}
    BY <2>1, OnlyHolder
  <2>3. \A c \in Chip : present[c] /\ c # d => snap'[c] = reg'[c]
    <3> SUFFICES ASSUME NEW c \in Chip, present[c], c # d PROVE snap[c] = reg[c]
      BY <1>3
    <3>1. ~(pc["web"] = "exec" /\ req.chip = c)
      BY <2>2 DEF Inv, Execution
    <3>2. \A u \in Thread : ~Renewed(u, c)
      BY <2>2 DEF Renewed
    <3> QED
      BY <1>1, <3>1, <3>2 DEF Current
  <2>4. CASE pc["web"] = "exec"
    <3>1. t = "web" /\ req.chip = d
      BY <2>2, <2>4 DEF Inv, Execution
    <3>2. Named'
      BY <1>1, <2>1, <2>4, <3>1, NamedOnBus
    <3> QED
      BY <1>2, <2>3, <2>4, <3>1, <3>2 DEF Current
  <2>5. CASE pc["web"] # "exec"
    <3>1. run[t].prog \in Seq(QuietOps)
      <4>1. CASE t = "web"
        BY <1>0, <2>5, <4>1 DEF Inv, Execution
      <4>2. CASE t = "power"
        BY <1>0, <2>1, <4>2 DEF Inv, Execution, LockDiscipline, OwnerPlaced
      <4> QED
        BY <4>1, <4>2
    <3>2. snap[d] = reg[d] \/ Renewed(t, d)
      BY <1>0, <1>1, <1>5, <2>2, <2>5 DEF Current, Renewed
    <3>3. snap'[d] = reg'[d] \/ Renewed(t, d)'
      BY <2>1, <3>1, <3>2, RenewedOnBus, AccurateOnBus DEF Renewed
    <3>4. \A c \in Chip : present[c] => snap'[c] = reg'[c] \/ (c = d /\ Renewed(t, d)')
      BY <2>3, <3>3
    <3>5. Renewed(t, d)' => \E u \in Thread : /\ pc'[u] \in {"publish", "refresh"}
                                              /\ run'[u].chip = d
                                              /\ bus' \in {NoThread, u}
                                              /\ \A b \in Bit : \/ b \in snap'[d] <=> b \in reg'[d]
                                                                \/ WillPoll(d, run'[u].prog, b)
      <4>1. run'[t].chip = d
        BY <1>0 DEF BusShape
      <4> QED
        BY <4>1 DEF Renewed
    <3>6. Current'
      <4> HIDE DEF d
      <4> QED
        BY <1>2, <3>4, <3>5 DEF Current, Renewed
    <3> QED
      BY <1>2, <2>5, <3>6 DEF Named
  <2> QED
    BY <2>4, <2>5
<1> QED
  BY <1>4, <1>5

(* Off the bus, steps that move no thread into or out of a section that    *)
(* renews a snapshot or runs a command.                                    *)
LEMMA AccurateRests ==
  ASSUME Inv, Accurate, reg' = reg, snap' = snap, UNCHANGED <<bus, faults>>,
         present' = present,
         \A u \in Thread : pc[u] \in {"publish", "refresh"} =>
                             pc'[u] = pc[u] /\ run'[u] = run[u],
         pc["web"] = "exec" => pc'["web"] = "exec",
         pc'["web"] = "exec" => pc["web"] = "exec" /\ req' = req /\ run'["web"] = run["web"]
  PROVE  Accurate'
<1> SUFFICES ASSUME faults = 0, Current, Named PROVE Current' /\ Named'
  BY DEF Accurate
<1>1. \A u \in Thread, c \in Chip : Renewed(u, c) => Renewed(u, c)'
  BY DEF Renewed
<1>2. Current'
  BY <1>1 DEF Current
<1>3. Named'
  BY DEF Named
<1> QED
  BY <1>2, <1>3

(* A refresh that is over has made its snapshot accurate. *)
LEMMA RenewedEnds ==
  ASSUME Inv, NEW t \in Thread, ~InProgram(t), NEW c \in Chip, Renewed(t, c)
  PROVE  snap[c] = reg[c]
<1>1. \A b : ~WillPoll(c, run[t].prog, b)
  BY DEF InProgram, WillPoll
<1>2. snap[c] \subseteq Bit /\ reg[c] \subseteq Bit
  BY DEF Inv, TypeOK, Setting
<1> QED
  BY <1>1, <1>2 DEF Renewed

(* A refresh that begins will make it accurate, if nothing is in its way.  *)
LEMMA RenewedBegins ==
  ASSUME Inv, Owned, NEW t \in Thread, NEW c \in Chip, reg' = reg, snap' = snap, bus' = bus,
         run' = [run EXCEPT ![t] = Start(c, Refresh(c))],
         pc'[t] \in {"publish", "refresh"}, bus \in {NoThread, t}
  PROVE  Renewed(t, c)'
<1>1. run'[t].chip = c /\ run'[t].prog = Refresh(c)
  BY DEF Inv, TypeOK, Start, Idle
<1>2. \A b \in Bit : (b \in snap[c] <=> b \in reg[c]) \/ WillPoll(c, Refresh(c), b)
  BY RefreshPolls DEF Owned
<1> QED
  BY <1>1, <1>2 DEF Renewed

(* The lock was held for it: nobody else renews or commands. *)
LEMMA CurrentAlone ==
  ASSUME Inv, Current, NEW t \in Thread, owner = t, NEW c \in Chip, present[c]
  PROVE  \/ snap[c] = reg[c]
         \/ t = "web" /\ pc["web"] = "exec" /\ req.chip = c
         \/ Renewed(t, c)
<1>1. \A u \in Thread : u # t => pc[u] \notin {"publish", "sample", "exec", "refresh"}
  BY OnlyHolder
<1>2. \A u \in Thread : u # t => ~Renewed(u, c)
  BY <1>1 DEF Renewed
<1> QED
  BY <1>1, <1>2 DEF Current

(* Publishing a chip, and the end of its first refresh. *)
LEMMA AccuratePublish ==
  ASSUME Inv, Owned, Answers, Accurate, Publish \/ PublishDone, reg' = reg, snap' = snap
  PROVE  Accurate'
<1> USE DEF chips, lock, client
<1>0. /\ pc \in [Thread -> PowerPC \cup WebPC] /\ run \in [Thread -> RunState]
      /\ present \in [Chip -> BOOLEAN] /\ run["power"].chip \in Chip
  BY DEF Inv, TypeOK, RunState
<1>1. /\ faults' = faults /\ bus' = bus /\ req' = req /\ run'["web"] = run["web"]
      /\ pc'["web"] = pc["web"]
  BY <1>0 DEF Publish, PublishDone, AfterChip
<1>2. SUFFICES ASSUME faults = 0, Current, Named PROVE Current' /\ Named'
  BY <1>1 DEF Accurate
<1>3. owner = "power" /\ pc["web"] \notin {"exec", "refresh"}
  BY DEF Publish, PublishDone, Inv, LockDiscipline, HolderOwns
<1>4. Named'
  BY <1>1, <1>3 DEF Named
<1>5. \A c \in Chip : present[c] => snap[c] = reg[c] \/ Renewed("power", c)
  BY <1>2, <1>3, CurrentAlone
<1>6. CASE Publish
  <2>0. PICK d \in Chip : d = run["power"].chip
    BY <1>0
  <2>1. /\ present' = [present EXCEPT ![d] = TRUE]
        /\ run' = [run EXCEPT !["power"] = Start(d, Refresh(d))]
        /\ pc'["power"] = "publish" /\ pc["power"] = "publish_lock"
    BY <1>0, <1>6, <2>0 DEF Publish
  <2>2. bus \in {NoThread, "power"}
    <3>1. ~InProgram("web")
      BY <1>3 DEF Inv, Execution
    <3> QED
      BY <3>1 DEF Inv, Execution, TypeOK
  <2>3. Renewed("power", d)'
    BY <1>0, <1>1, <2>1, <2>2, RenewedBegins
  <2>4. \A c \in Chip : ~Renewed("power", c)
    BY <2>1 DEF Renewed
  <2>5. \A c \in Chip : present'[c] => snap'[c] = reg'[c] \/ c = d
    BY <1>0, <1>5, <2>1, <2>4
  <2>6. \A c \in Chip : present'[c] => snap'[c] = reg'[c] \/ \E u \in Thread : Renewed(u, c)'
    BY <2>3, <2>5
  <2> QED
    BY <1>4, <2>6 DEF Current
<1>7. CASE PublishDone
  <2>1. present' = present /\ ~InProgram("power")
    BY <1>7 DEF PublishDone
  <2>2. \A c \in Chip : present'[c] => snap'[c] = reg'[c]
    BY <1>5, <2>1, RenewedEnds
  <2> QED
    BY <1>4, <2>2 DEF Current
<1> QED
  BY <1>6, <1>7

(* The begin and the end of a command. *)
LEMMA AccurateCommand ==
  ASSUME Inv, Owned, Untouched, Accurate, CommandStart \/ CommandDone \/ CommandRefreshed,
         reg' = reg, snap' = snap
  PROVE  Accurate'
<1> USE DEF chips, lock, client
<1>0. /\ pc \in [Thread -> PowerPC \cup WebPC] /\ run \in [Thread -> RunState]
      /\ req \in [chip : Chip, cmd : Commands \cup {Get}, before : SUBSET Setting]
      /\ reg \in [Chip -> SUBSET Setting] /\ run["web"].chip \in Chip
  BY DEF Inv, TypeOK, RunState
<1>1. /\ faults' = faults /\ bus' = bus /\ present' = present
      /\ owner = "web"
  BY DEF CommandStart, CommandDone, CommandRefreshed, Inv, LockDiscipline, HolderOwns
<1>2. SUFFICES ASSUME faults = 0, Current, Named PROVE Current' /\ Named'
  BY <1>1 DEF Accurate
<1>3. \A c \in Chip : present[c] => \/ snap[c] = reg[c]
                                    \/ pc["web"] = "exec" /\ req.chip = c
                                    \/ Renewed("web", c)
  BY <1>1, <1>2, CurrentAlone
<1>4. CASE CommandStart
  <2> DEFINE c == req.chip
             p == Command(c, req.cmd[1], req.cmd[2], snap[c])
             r == [Start(c, p) EXCEPT !.ok = (req.cmd[1] # "invalid")]
  <2>1. /\ pc["web"] = "lock" /\ pc'["web"] = "exec" /\ present[c] /\ c \in Chip
        /\ run' = [run EXCEPT !["web"] = r] /\ req' = [req EXCEPT !.before = reg[c]]
    BY <1>0, <1>4 DEF CommandStart
  <2>2. \A d \in Chip : present[d] => snap[d] = reg[d]
    BY <1>3, <2>1 DEF Renewed
  <2>3. run'["web"].prog = p
    <3>1. r.prog = p
      BY DEF Start, Idle
    <3> HIDE DEF r
    <3> QED
      BY <1>0, <2>1, <3>1
  <2>4. req'.chip = c /\ req'.cmd = req.cmd /\ req'.before = reg[c]
    BY <1>0, <2>1
  <2>5. p \in Seq(NamedOps(c, req.cmd[1], snap[c]))
    BY <2>1, CommandNamed
  <2> HIDE DEF c, p
  <2>6. Named'
    BY <2>1, <2>2, <2>3, <2>4, <2>5 DEF Named
  <2> QED
    BY <1>1, <2>2, <2>6 DEF Current
<1>5. CASE CommandDone
  <2>0. PICK c \in Chip : c = run["web"].chip
    BY <1>0
  <2>1. /\ pc["web"] = "exec" /\ ~InProgram("web") /\ c = req.chip /\ present[c]
        /\ snap[c] = req.before
    BY <1>2, <1>5, <2>0 DEF CommandDone, Inv, Execution, Named
  <2>2. \A d \in Chip : present[d] /\ d # c => snap[d] = reg[d]
    BY <1>3, <2>1 DEF Renewed
  <2>3. pc'["web"] # "exec"
    BY <1>0, <1>5 DEF CommandDone, Answer
  <2>4. CASE ~run["web"].ok
    <3>1. reg[c] = req.before
      BY <1>2, <2>1, <2>4 DEF Untouched
    <3> QED
      BY <1>1, <2>1, <2>2, <2>3, <3>1 DEF Current, Named
  <2>5. CASE run["web"].ok /\ bus = "power"
    <3>1. reg[c] = req.before
      BY <1>2, <2>1, <2>5 DEF Untouched
    <3> QED
      BY <1>1, <2>1, <2>2, <2>3, <3>1 DEF Current, Named
  <2>6. CASE run["web"].ok /\ bus # "power"
    <3>1. bus = NoThread
      BY <2>1, <2>6 DEF Inv, Execution, TypeOK
    <3>2. /\ run' = [run EXCEPT !["web"] = Start(c, Refresh(c))]
          /\ pc'["web"] = "refresh"
      BY <1>0, <1>5, <2>0, <2>6 DEF CommandDone
    <3>3. Renewed("web", c)'
      BY <1>0, <1>1, <3>1, <3>2, RenewedBegins
    <3>4. \A d \in Chip : present[d] => snap[d] = reg[d] \/ \E u \in Thread : Renewed(u, d)'
      BY <2>2, <3>3
    <3> QED
      BY <1>1, <2>3, <3>4 DEF Current, Named
  <2> QED
    BY <2>4, <2>5, <2>6
<1>6. CASE CommandRefreshed
  <2>1. pc["web"] = "refresh" /\ ~InProgram("web") /\ pc'["web"] = "ok"
    BY <1>0, <1>6 DEF CommandRefreshed, Answer
  <2>2. \A c \in Chip : present[c] => snap[c] = reg[c]
    BY <1>3, <2>1, RenewedEnds
  <2> QED
    BY <1>1, <2>1, <2>2 DEF Current, Named
<1> QED
  BY <1>4, <1>5, <1>6

(* Every step. *)
LEMMA AccurateNext ==
  Inv /\ RmwFresh /\ Untouched /\ Owned /\ Answers /\ Accurate /\ [Next]_vars => Accurate'
<1> SUFFICES ASSUME Inv, RmwFresh, Untouched, Owned, Answers, Accurate, [Next]_vars
             PROVE  Accurate'
  OBVIOUS
<1> USE DEF chips, lock, client
<1>0. pc \in [Thread -> PowerPC \cup WebPC] /\ run \in [Thread -> RunState]
  BY DEF Inv, TypeOK
<1>1. CASE Bus("power") \/ Bus("web")
  BY <1>1, CurrentOnBus DEF Accurate
<1>2. CASE ~Bus("power") /\ ~Bus("web")
  <2>0. reg' = reg /\ snap' = snap /\ UNCHANGED <<bus, faults>>
    BY <1>2, OffBus, BeginsProper
  <2>1. CASE Publish \/ PublishDone
    BY <2>0, <2>1, AccuratePublish
  <2>2. CASE CommandStart \/ CommandDone \/ CommandRefreshed
    BY <2>0, <2>2, AccurateCommand
  <2>3. CASE UNCHANGED vars
    BY <2>0, <2>3, AccurateRests DEF vars
  <2>4. CASE Client \/ LockTimeout \/ TakeLock("power") \/ TakeLock("web")
    BY <1>0, <2>0, <2>4, AccurateRests
       DEF Client, Request, LockTimeout, TakeLock, Answer, Inv, LockDiscipline, WaitersPlaced, LockPC
  <2>5. CASE OpenBus \/ NapOver \/ SampleStart \/ SampleNext \/ SleepOver
    <3>1. /\ present' = present /\ req' = req /\ run'["web"] = run["web"]
          /\ pc'["web"] = pc["web"] /\ pc["power"] \notin {"publish", "refresh"}
      BY <1>0, <2>5 DEF OpenBus, NapOver, SampleStart, SampleNext, SleepOver
    <3> QED
      BY <2>0, <3>1, AccurateRests
  <2>6. CASE InitDone
    <3>1. /\ present' = present /\ req' = req /\ run'["web"] = run["web"]
          /\ pc'["web"] = pc["web"] /\ pc["power"] \notin {"publish", "refresh"}
      BY <1>0, <2>6 DEF InitDone, AfterChip
    <3> QED
      BY <2>0, <3>1, AccurateRests
  <2>7. CASE CopySnapshot \/ CopyReturn \/ CommandAbsent \/ Reply
    <3>1. /\ present' = present /\ run' = run /\ pc'["power"] = pc["power"]
          /\ pc["web"] \notin {"publish", "exec", "refresh"} /\ pc'["web"] # "exec"
      BY <1>0, <2>7 DEF CopySnapshot, CopyReturn, CommandAbsent, Reply, Answer
    <3> QED
      BY <2>0, <3>1, AccurateRests
  <2> QED
    BY <1>2, <2>1, <2>2, <2>3, <2>4, <2>5, <2>6, <2>7 DEF Next, PowerStep, WebStep
<1> QED
  BY <1>1, <1>2

LEMMA InitAccurate == Init => Accurate
  BY DEF Init, Accurate, Current, Named

(* All of it is invariant. *)
LEMMA SnapshotsHold == Spec => []Snapshots
<1>1. Init => Snapshots
  BY InitInv, InitRmw, InitUntouched, InitOwned, InitAnswers, InitAccurate DEF Snapshots
<1>2. Snapshots /\ [Next]_vars => Snapshots'
  BY NextInv, RmwNext, UntouchedNext, OwnedNext, AnswersNext, AccurateNext DEF Snapshots
<1> QED
  BY <1>1, <1>2, PTL DEF Spec

(* Without failed transfers the snapshot of a present chip is what the     *)
(* chip holds whenever nobody owns power_lock: every command is followed   *)
(* by a refresh, or has changed nothing.                                   *)
THEOREM SnapshotsAccurate == Spec => []SnapshotFresh
<1>1. Snapshots => SnapshotFresh
  <2> SUFFICES ASSUME Snapshots, owner = NoThread, faults = 0, NEW c \in Chip, present[c]
               PROVE  snap[c] = reg[c]
    BY DEF SnapshotFresh
  <2>1. \A t \in Thread : pc[t] \notin {"publish", "exec", "refresh"}
    BY PowerAssumption DEF Snapshots, Inv, LockDiscipline, HolderOwns, TypeOK, PowerPC, WebPC
  <2>2. \A t \in Thread : ~Renewed(t, c)
    BY <2>1 DEF Renewed
  <2> QED
    BY <2>1, <2>2 DEF Snapshots, Accurate, Current
<1> QED
  BY <1>1, SnapshotsHold, PTL

(* Without failed transfers a command changes only the settings it names,  *)
(* although a configuration command writes its whole group from the        *)
(* snapshot.                                                               *)
THEOREM CommandsKeepToTheirBits == Spec => []FootprintOnly
<1>1. Snapshots => FootprintOnly
  <2> SUFFICES ASSUME Snapshots, pc["web"] = "exec", faults = 0
               PROVE  (reg[req.chip] \ req.before) \cup (req.before \ reg[req.chip])
                        \subseteq Footprint(req.chip, req.cmd[1])
    BY DEF FootprintOnly
  <2>1. reg[req.chip] \subseteq Bit /\ req.before \subseteq Bit
    BY DEF Snapshots, Inv, TypeOK, Setting
  <2>2. CASE req.cmd[1] = "reset"
    <3>1. Footprint(req.chip, "reset") = Bit
      BY DEF Footprint
    <3> QED
      BY <2>1, <2>2, <3>1
  <2>3. CASE req.cmd[1] # "reset"
    BY <2>1, <2>3 DEF Snapshots, Accurate, Named
  <2> QED
    BY <2>2, <2>3
<1> QED
  BY <1>1, SnapshotsHold, PTL
==============================================================================
