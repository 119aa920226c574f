----------------------------- MODULE ChargerOps -----------------------------
(***************************************************************************)
(* What the two charger drivers write and read on the I2C bus.             *)
(*                                                                         *)
(* A driver call is a PROGRAM: the sequence of register accesses it makes, *)
(* in the order of the source (shp8808.c, bq25756.c).  A register is the   *)
(* set of those of its bits that are 1; a chip is the union of its         *)
(* registers, so register r of chip c is  chip \cap BitsOf(c, r).          *)
(* Multi-bit fields (currents, voltages, timers, thresholds, the watchdog  *)
(* period) are one bit: which of two settings they hold.  Neighbouring     *)
(* limit registers that are always written and read in one run are one     *)
(* register (the *_LIMITS).  Registers that only carry measurements hold   *)
(* no bit.                                                                 *)
(***************************************************************************)
EXTENDS Naturals, Sequences

Chip == {"shp", "bq"}

(* Registers and the bits the firmware gives them. A limit register has a  *)
(* single bit with the register's own name; CHARGE_LIMITS stands for the   *)
(* five other registers of configure_charging, REVERSE_LIMITS for those of *)
(* bq25756_configure_reverse after the voltage, GATE_DRIVE for two.        *)
ShpLimits == {"CHARGE_CURRENT", "CHARGE_LIMITS", "OTG_VOLTAGE", "OTG_CURRENT"}

BqLimits == {"CHARGE_VOLTAGE", "CHARGE_LIMITS", "REVERSE_VOLTAGE",
             "REVERSE_LIMITS", "GATE_DRIVE"}

Register ==
  ShpLimits \cup BqLimits \cup
  {"CHARGE_OPTION0", "CHARGE_OPTION1", "CHARGE_OPTION3", "CHARGE_OPTION4",
   "MPPT_CONTROL0", "JEITA_CONTROL0", "JEITA_CONTROL1", "STATUS0", "STATUS1",
   "CHARGER_CONTROL", "POWER_CONTROL", "TIMER_CONTROL", "PRECHARGE_CONTROL",
   "PIN_CONTROL", "TS_CHARGE_BEHAVIOR", "MPPT_CONTROL", "PART_INFO", "FLAG1",
   "MASK1", "ADC_CHANNEL_CONTROL", "ADC_CONTROL", "STATUS_AND_ADC"}

ShpBits(r) ==
  CASE r = "CHARGE_OPTION0" -> {"DCDC_OFF", "THRESHOLDS", "REG_RST"}
    [] r = "CHARGE_OPTION1" -> {"IBUS_PIN", "IBAT_PIN", "CFG_ENABLES"}
    [] r = "CHARGE_OPTION3" -> {"TIMERS"}
    [] r = "CHARGE_OPTION4" -> {"OTG", "OTG_FB_PIN", "PFM"}
    [] r = "MPPT_CONTROL0"  -> {"MPPT", "MPPT_CFG"}
    [] r = "JEITA_CONTROL0" -> {"JEITA"}
    [] r = "JEITA_CONTROL1" -> {"TS_OFF"}
    [] r \in ShpLimits      -> {r}
    [] OTHER                -> {}

BqBits(r) ==
  CASE r = "CHARGER_CONTROL"    -> {"EN_CHG", "HIZ", "CE_OFF", "VRECHG"}
    [] r = "POWER_CONTROL"      -> {"REVERSE", "PFM", "REG_RST"}
    [] r = "TIMER_CONTROL"      -> {"WATCHDOG", "TIMERS"}
    [] r = "PRECHARGE_CONTROL"  -> {"CFG_ENABLES", "VBAT_LOWV"}
    [] r = "PIN_CONTROL"        -> {"ICHG_PIN", "ILIM_PIN", "PG_OFF", "STAT_OFF"}
    [] r = "TS_CHARGE_BEHAVIOR" -> {"TS", "JEITA"}
    [] r = "MPPT_CONTROL"       -> {"MPPT", "MPPT_CFG"}
    [] r \in BqLimits           -> {r}
    [] OTHER                    -> {}

BitsOf(c, r) == IF c = "shp" THEN ShpBits(r) ELSE BqBits(r)

Bit == ShpLimits \cup BqLimits \cup
       {"DCDC_OFF", "THRESHOLDS", "REG_RST", "IBUS_PIN", "IBAT_PIN",
        "CFG_ENABLES", "TIMERS", "OTG", "OTG_FB_PIN", "PFM", "MPPT",
        "MPPT_CFG", "JEITA", "TS_OFF", "EN_CHG", "HIZ", "CE_OFF", "VRECHG",
        "REVERSE", "WATCHDOG", "VBAT_LOWV", "ICHG_PIN", "ILIM_PIN",
        "PG_OFF", "STAT_OFF", "TS"}

(* The bits a chip can hold: the reset bit clears itself.                  *)
Setting == Bit \ {"REG_RST"}

(* The settings chip c has.                                                *)
SettingsOf(c) == (UNION {BitsOf(c, r) : r \in Register}) \cap Setting

(***************************************************************************)
(* Register accesses. "must" says that a failed access ends the program    *)
(* with an error; an access that is not "must" is dropped when it fails.   *)
(*   read    one register read whose value the model has no use for        *)
(*   poll    a read of refresh_locked that is copied into the snapshot     *)
(*   write   write8 / write16: the whole register                          *)
(*   update  update8: read8, merge under the mask, write8                  *)
(*   kick    update8 with a self-clearing bit, only while the snapshot     *)
(*           says the watchdog runs                                        *)
(***************************************************************************)
OpKind == {"read", "poll", "write", "update", "kick"}

Op == [kind : OpKind, reg : Register, mask : SUBSET Bit, val : SUBSET Bit,
       must : BOOLEAN]

Program == Seq(Op)

(* Accesses that change no register: what they write is what they read.    *)
QuietOps == {op \in Op : op.kind # "write" /\ op.mask = {} /\ op.val = {}}

Access(k, r, m, v, must) ==
  [kind |-> k, reg |-> r, mask |-> m, val |-> v, must |-> must]

Read(r)         == Access("read", r, {}, {}, TRUE)
TryRead(r)      == Access("read", r, {}, {}, FALSE)
Poll(r)         == Access("poll", r, {}, {}, FALSE)
Write(r, v)     == Access("write", r, {}, v, TRUE)
Update(r, m, v) == Access("update", r, m, v \cap m, TRUE)

(* The reads of refresh_locked that fill the fields of the snapshot.       *)
Polls(rs) == [i \in 1..Len(rs) |-> Poll(rs[i])]

(* One-bit update8: the form of almost every setter of the two drivers.    *)
SetBit(r, b, on) == Update(r, {b}, IF on THEN {b} ELSE {})

(* Mutant: the bits outside the mask are not kept. *)
MergeNothing(op, cur) == op.val

(* What update8 sends: the bits read, with those under the mask replaced.  *)
Merge(op, cur) == IF op.kind = "write" THEN op.val
                                       ELSE (cur \ op.mask) \cup op.val

(* Mutant: the configuration starts from zero instead of the snapshot. *)
WithoutSnapshot(snap, b, on) == IF on THEN {b} ELSE {}

(* A configuration taken from the snapshot with one field of the request   *)
(* put over it.                                                            *)
With(snap, b, on) == IF on THEN snap \cup {b} ELSE snap \ {b}

-----------------------------------------------------------------------------
(* SHP8808 *)

ShpSetDcdc(on) == SetBit("CHARGE_OPTION0", "DCDC_OFF", ~on)

ShpSetCharge(on) ==
  IF on THEN <<SetBit("CHARGE_OPTION4", "OTG", FALSE), ShpSetDcdc(TRUE)>>
        ELSE <<ShpSetDcdc(FALSE)>>

ShpSetHiz(on) == <<ShpSetDcdc(~on)>>

ShpSetReverse(on) ==
  IF on THEN <<ShpSetDcdc(TRUE), SetBit("CHARGE_OPTION4", "OTG", TRUE)>>
        ELSE <<SetBit("CHARGE_OPTION4", "OTG", FALSE)>>

ShpConfigurePins(cfg) ==
  <<Update("CHARGE_OPTION1", {"IBUS_PIN", "IBAT_PIN"}, cfg),
    Update("CHARGE_OPTION4", {"OTG_FB_PIN"}, cfg)>>

(* Mutant: charging is switched off before HIZ is left. *)
ShpSoftwareHostSwapped ==
  ShpConfigurePins({})
    \o <<SetBit("JEITA_CONTROL1", "TS_OFF", TRUE),
         SetBit("JEITA_CONTROL0", "JEITA", FALSE)>>
    \o ShpSetCharge(FALSE)
    \o ShpSetHiz(FALSE)
    \o ShpSetReverse(FALSE)
    \o <<SetBit("MPPT_CONTROL0", "MPPT", FALSE)>>

ShpSoftwareHost ==
  ShpConfigurePins({})
    \o <<SetBit("JEITA_CONTROL1", "TS_OFF", TRUE),
         SetBit("JEITA_CONTROL0", "JEITA", FALSE)>>
    \o ShpSetHiz(FALSE)
    \o ShpSetReverse(FALSE)
    \o <<SetBit("MPPT_CONTROL0", "MPPT", FALSE)>>
    \o ShpSetCharge(FALSE)

(* probe, software host, continuous ADC *)
ShpChipInit ==
  <<Read("CHARGE_OPTION0"), Read("STATUS0")>>
    \o ShpSoftwareHost
    \o <<Write("ADC_CONTROL", {})>>

ShpConfigureCharging(cfg) ==
  <<Write("CHARGE_CURRENT", cfg \cap {"CHARGE_CURRENT"}),
    Write("CHARGE_LIMITS",  cfg \cap {"CHARGE_LIMITS"}),
    Update("CHARGE_OPTION1", {"CFG_ENABLES"}, cfg),
    Update("CHARGE_OPTION1", {"IBUS_PIN", "IBAT_PIN"}, {})>>

ShpConfigureReverse(cfg) ==
  <<Write("OTG_VOLTAGE", cfg \cap {"OTG_VOLTAGE"}),
    Write("OTG_CURRENT", cfg \cap {"OTG_CURRENT"}),
    Update("CHARGE_OPTION4", {"OTG_FB_PIN"}, cfg)>>

(* One sample of the chip. Clearing the sticky status bits may fail        *)
(* silently; the status block and the seven ADC words (one access here)    *)
(* may not; every field after them keeps its old value when its read       *)
(* fails.                                                                  *)
ShpFields ==
  <<"CHARGE_OPTION0", "CHARGE_OPTION1", "CHARGE_OPTION3", "CHARGE_OPTION4",
    "MPPT_CONTROL0", "JEITA_CONTROL0", "JEITA_CONTROL1", "CHARGE_CURRENT",
    "CHARGE_LIMITS", "OTG_VOLTAGE", "OTG_CURRENT">>

ShpRefresh ==
  <<Access("update", "STATUS1", {}, {}, FALSE),
    TryRead("ADC_CONTROL"), Read("STATUS_AND_ADC")>>
    \o Polls(ShpFields)

(* The driver calls of power_shp_command for the request {cmd, on}; a      *)
(* numeric argument is one of two settings. "pins", "charge_cfg" and       *)
(* "reverse_cfg" change one field of the configuration in the snapshot and *)
(* write the whole configuration.                                          *)
ShpCommand(cmd, on, snap) ==
  CASE cmd = "charge"      -> ShpSetCharge(on)
    [] cmd = "hiz"         -> ShpSetHiz(on)
    [] cmd = "reverse"     -> ShpSetReverse(on)
    [] cmd = "mppt"        -> <<SetBit("MPPT_CONTROL0", "MPPT", on)>>
    [] cmd = "pfm"         -> <<SetBit("CHARGE_OPTION4", "PFM", on)>>
    [] cmd = "ts"          -> <<SetBit("JEITA_CONTROL1", "TS_OFF", ~on)>>
    [] cmd = "jeita"       -> <<SetBit("JEITA_CONTROL0", "JEITA", on)>>
    [] cmd = "reset"       -> <<SetBit("CHARGE_OPTION0", "REG_RST", TRUE)>>
                                \o ShpChipInit
    [] cmd = "thresholds"  -> <<SetBit("CHARGE_OPTION0", "THRESHOLDS", on)>>
    [] cmd = "timers"      -> <<SetBit("CHARGE_OPTION3", "TIMERS", on)>>
    [] cmd = "charge_cfg"  -> ShpConfigureCharging(With(snap, "CHARGE_CURRENT", on))
    [] cmd = "reverse_cfg" -> ShpConfigureReverse(With(snap, "OTG_VOLTAGE", on))
    [] cmd = "mppt_cfg"    -> <<SetBit("MPPT_CONTROL0", "MPPT_CFG", on)>>
    [] cmd = "pins"        -> ShpConfigurePins(With(snap, "IBUS_PIN", on))
    [] OTHER               -> <<>>

-----------------------------------------------------------------------------
(* BQ25756 *)

BqSetCharge(on)  == <<SetBit("CHARGER_CONTROL", "EN_CHG", on)>>
BqSetHiz(on)     == <<SetBit("CHARGER_CONTROL", "HIZ", on)>>
BqSetReverse(on) == <<SetBit("POWER_CONTROL", "REVERSE", on)>>
BqSetWatchdog(on) == <<SetBit("TIMER_CONTROL", "WATCHDOG", on)>>

(* PIN_CONTROL is written whole, the CE pin by update8. *)
BqConfigurePins(cfg) ==
  <<Write("PIN_CONTROL", cfg \cap BqBits("PIN_CONTROL")),
    Update("CHARGER_CONTROL", {"CE_OFF"}, cfg)>>

BqSoftwareHost ==
  BqSetWatchdog(FALSE)
    \o BqConfigurePins({"PG_OFF", "STAT_OFF", "CE_OFF"})
    \o <<SetBit("TS_CHARGE_BEHAVIOR", "TS", FALSE)>>
    \o BqSetHiz(FALSE)
    \o BqSetReverse(FALSE)
    \o <<SetBit("MPPT_CONTROL", "MPPT", FALSE)>>
    \o BqSetCharge(FALSE)

(* probe (a wrong part number ends it like a failed read), software host,  *)
(* interrupt masks, ADC set-up and start                                   *)
BqChipInit ==
  <<Read("PART_INFO")>>
    \o BqSoftwareHost
    \o <<Write("MASK1", {}), Write("ADC_CHANNEL_CONTROL", {}),
         Update("ADC_CONTROL", {}, {}), Update("ADC_CONTROL", {}, {})>>

BqConfigureCharging(cfg) ==
  <<Write("CHARGE_VOLTAGE", cfg \cap {"CHARGE_VOLTAGE"}),
    Write("CHARGE_LIMITS",  cfg \cap {"CHARGE_LIMITS"}),
    Update("PRECHARGE_CONTROL", {"CFG_ENABLES"}, cfg)>>

BqConfigureReverse(cfg) ==
  <<Write("REVERSE_VOLTAGE", cfg \cap {"REVERSE_VOLTAGE"}),
    Update("REVERSE_LIMITS", {"REVERSE_LIMITS"}, cfg)>>

BqConfigureGate(cfg) == <<Write("GATE_DRIVE", cfg \cap {"GATE_DRIVE"})>>

BqFields ==
  <<"CHARGER_CONTROL", "POWER_CONTROL", "MPPT_CONTROL", "TS_CHARGE_BEHAVIOR",
    "TIMER_CONTROL", "PRECHARGE_CONTROL", "PIN_CONTROL", "CHARGE_VOLTAGE",
    "CHARGE_LIMITS", "REVERSE_VOLTAGE", "REVERSE_LIMITS", "GATE_DRIVE">>

(* The sample ends with the kick of the watchdog. *)
BqRefresh ==
  <<TryRead("FLAG1"), Read("STATUS_AND_ADC")>>
    \o Polls(BqFields)
    \o <<Access("kick", "CHARGER_CONTROL", {}, {}, FALSE)>>

(* The driver calls of power_bq_command. "kick" and "mppt_sweep" write     *)
(* self-clearing bits: the register keeps the bits that were read.         *)
BqCommand(cmd, on, snap) ==
  CASE cmd = "charge"      -> BqSetCharge(on)
    [] cmd = "hiz"         -> BqSetHiz(on)
    [] cmd = "reverse"     -> BqSetReverse(on)
    [] cmd = "mppt"        -> <<SetBit("MPPT_CONTROL", "MPPT", on)>>
    [] cmd = "mppt_sweep"  -> <<Update("MPPT_CONTROL", {}, {})>>
    [] cmd = "pfm"         -> <<SetBit("POWER_CONTROL", "PFM", on)>>
    [] cmd = "ts"          -> <<SetBit("TS_CHARGE_BEHAVIOR", "TS", on)>>
    [] cmd = "jeita"       -> <<SetBit("TS_CHARGE_BEHAVIOR", "JEITA", on)>>
    [] cmd = "kick"        -> <<Update("CHARGER_CONTROL", {}, {})>>
    [] cmd = "reset"       -> <<SetBit("POWER_CONTROL", "REG_RST", TRUE)>>
                                \o BqChipInit
    [] cmd = "watchdog"    -> BqSetWatchdog(on)
    [] cmd = "vbat_lowv"   -> <<SetBit("PRECHARGE_CONTROL", "VBAT_LOWV", on)>>
    [] cmd = "thresholds"  -> <<SetBit("CHARGER_CONTROL", "VRECHG", on)>>
    [] cmd = "timers"      -> <<SetBit("TIMER_CONTROL", "TIMERS", on)>>
    [] cmd = "charge_cfg"  -> BqConfigureCharging(With(snap, "CHARGE_VOLTAGE", on))
    [] cmd = "reverse_cfg" -> BqConfigureReverse(With(snap, "REVERSE_VOLTAGE", on))
    [] cmd = "mppt_cfg"    -> <<SetBit("MPPT_CONTROL", "MPPT_CFG", on)>>
    [] cmd = "gate"        -> BqConfigureGate(With(snap, "GATE_DRIVE", on))
    [] cmd = "pins"        -> BqConfigurePins(With(snap, "ICHG_PIN", on))
    [] OTHER               -> <<>>

-----------------------------------------------------------------------------
(* Both chips *)

ChipInit(c) == IF c = "shp" THEN ShpChipInit ELSE BqChipInit
Refresh(c)  == IF c = "shp" THEN ShpRefresh ELSE BqRefresh

Command(c, cmd, on, snap) ==
  IF c = "shp" THEN ShpCommand(cmd, on, snap) ELSE BqCommand(cmd, on, snap)

(* The converter feeds the battery. The SHP8808 has no charge bit: it      *)
(* charges whenever its converter runs and OTG is off.                     *)
Charging(c, bits) ==
  IF c = "shp" THEN "DCDC_OFF" \notin bits /\ "OTG" \notin bits
               ELSE "EN_CHG" \in bits /\ "HIZ" \notin bits
==============================================================================
