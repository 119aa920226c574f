----------------------------- MODULE PowerProofs -----------------------------
(***************************************************************************)
(* Proofs about Power, for every set of fitted chips, every content of     *)
(* the chips at power-on, every menu of commands, every number of failed   *)
(* transfers and every pair of priorities.                                 *)
(***************************************************************************)
EXTENDS Power, SequenceTheorems, TLAPS

-----------------------------------------------------------------------------
(* The drivers: every driver call is a program, a sequence of well-formed  *)
(* accesses.                                                               *)

(* The registers hold named bits only. *)
LEMMA BitsOfBit == \A c, r : BitsOf(c, r) \subseteq Bit
  BY DEF BitsOf, ShpBits, BqBits, ShpLimits, BqLimits, Bit

(* Every constructor of an access yields one. *)
LEMMA ReadOp == \A r \in Register : Read(r) \in Op /\ TryRead(r) \in Op /\ Poll(r) \in Op
  BY DEF Read, TryRead, Poll, Access, Op, OpKind

(* A write of named bits is an access. *)
LEMMA WriteOp == \A r \in Register : \A v : v \subseteq Bit => Write(r, v) \in Op
  BY DEF Write, Access, Op, OpKind

(* An update8 under a mask of named bits is an access, whatever the value. *)
LEMMA UpdateOp == \A r \in Register : \A m, v : m \subseteq Bit => Update(r, m, v) \in Op
  BY DEF Update, Access, Op, OpKind

(* A one-bit setter is an access. *)
LEMMA SetBitOp == \A r \in Register, b \in Bit : \A on : SetBit(r, b, on) \in Op
  BY UpdateOp DEF SetBit

(* The accesses that clear sticky status and kick the watchdog. *)
LEMMA QuietOp ==
  \A k \in {"update", "kick"}, r \in Register : Access(k, r, {}, {}, FALSE) \in Op
  BY DEF Access, Op, OpKind

(* Programs are built from short ones. *)
LEMMA Short ==
  /\ \A a \in Op : <<a>> \in Program
  /\ \A a, b \in Op : <<a, b>> \in Program
  /\ \A a, b, c \in Op : <<a, b, c>> \in Program
  /\ \A a, b, c, d \in Op : <<a, b, c, d>> \in Program
  /\ \A p, q \in Program : p \o q \in Program
  BY DEF Program

(* configure_pins of the SHP8808 is a program. *)
LEMMA ShpPins == ASSUME NEW cfg PROVE ShpConfigurePins(cfg) \in Program
<1>1. Update("CHARGE_OPTION1", {"IBUS_PIN", "IBAT_PIN"}, cfg) \in Op
  BY UpdateOp DEF Bit, Register
<1>2. Update("CHARGE_OPTION4", {"OTG_FB_PIN"}, cfg) \in Op
  BY UpdateOp DEF Bit, Register
<1> QED
  BY <1>1, <1>2, Short DEF ShpConfigurePins

(* So are the on/off setters of its converter. *)
LEMMA ShpSetters ==
  ASSUME NEW on
  PROVE  /\ ShpSetCharge(on) \in Program
         /\ ShpSetHiz(on) \in Program
         /\ ShpSetReverse(on) \in Program
<1>1. \A x : ShpSetDcdc(x) \in Op
  BY SetBitOp DEF ShpSetDcdc, Bit, Register
<1>2. \A x : SetBit("CHARGE_OPTION4", "OTG", x) \in Op
  BY SetBitOp DEF Bit, Register
<1> QED
  BY <1>1, <1>2, Short DEF ShpSetCharge, ShpSetHiz, ShpSetReverse

(* So is shp_chip_init. *)
LEMMA ShpInit == ShpChipInit \in Program
<1>1. SetBit("JEITA_CONTROL1", "TS_OFF", TRUE) \in Op
  BY SetBitOp DEF Bit, Register
<1>2. SetBit("JEITA_CONTROL0", "JEITA", FALSE) \in Op
  BY SetBitOp DEF Bit, Register
<1>3. SetBit("MPPT_CONTROL0", "MPPT", FALSE) \in Op
  BY SetBitOp DEF Bit, Register
<1>4. Read("CHARGE_OPTION0") \in Op /\ Read("STATUS0") \in Op /\ Write("ADC_CONTROL", {}) \in Op
  BY ReadOp, WriteOp DEF Register
<1> QED
  BY <1>1, <1>2, <1>3, <1>4, Short, ShpPins, ShpSetters DEF ShpSoftwareHost, ShpChipInit

(* A refresh changes no register: it writes back what it has read. *)
LEMMA QuietAccess ==
  \A r \in Register : /\ Read(r) \in QuietOps /\ TryRead(r) \in QuietOps
                      /\ Poll(r) \in QuietOps
                      /\ Access("update", r, {}, {}, FALSE) \in QuietOps
                      /\ Access("kick", r, {}, {}, FALSE) \in QuietOps
  BY DEF Read, TryRead, Poll, Access, Op, OpKind, QuietOps

(* Quiet programs are built from short ones. *)
LEMMA QuietShort ==
  /\ \A a \in QuietOps : <<a>> \in Seq(QuietOps)
  /\ \A a, b \in QuietOps : <<a, b>> \in Seq(QuietOps)
  /\ \A a, b, c \in QuietOps : <<a, b, c>> \in Seq(QuietOps)
  /\ \A p, q \in Seq(QuietOps) : p \o q \in Seq(QuietOps)
  OBVIOUS

(* Reading fields into the snapshot is quiet. *)
LEMMA QuietPolls ==
  ASSUME NEW rs \in Seq(Register)
  PROVE  Polls(rs) \in Seq(QuietOps)
<1>1. \A i \in 1..Len(rs) : rs[i] \in Register
  OBVIOUS
<1>2. Polls(rs) \in [1..Len(rs) -> QuietOps]
  BY <1>1, QuietAccess DEF Polls
<1>3. Len(rs) \in Nat
  OBVIOUS
<1> QED
  BY <1>2, <1>3, SeqDef

(* shp_refresh_locked is quiet. *)
LEMMA ShpRefreshing == ShpRefresh \in Seq(QuietOps)
<1>1. ShpFields \in Seq(Register)
  BY DEF ShpFields, Register, ShpLimits
<1>2. /\ Access("update", "STATUS1", {}, {}, FALSE) \in QuietOps
      /\ TryRead("ADC_CONTROL") \in QuietOps
      /\ Read("STATUS_AND_ADC") \in QuietOps
  BY QuietAccess DEF Register
<1>3. Polls(ShpFields) \in Seq(QuietOps)
  BY <1>1, QuietPolls
<1> QED
  BY <1>2, <1>3, QuietShort DEF ShpRefresh

(* refresh_locked is quiet, its watchdog kick included. *)
LEMMA BqRefreshing == BqRefresh \in Seq(QuietOps)
<1>1. BqFields \in Seq(Register)
  BY DEF BqFields, Register, BqLimits
<1>2. /\ Access("kick", "CHARGER_CONTROL", {}, {}, FALSE) \in QuietOps
      /\ TryRead("FLAG1") \in QuietOps
      /\ Read("STATUS_AND_ADC") \in QuietOps
  BY QuietAccess DEF Register
<1>3. Polls(BqFields) \in Seq(QuietOps)
  BY <1>1, QuietPolls
<1> QED
  BY <1>2, <1>3, QuietShort DEF BqRefresh

(* The commands of the SHP8808. *)
LEMMA ShpCommands ==
  ASSUME NEW cmd, NEW on, NEW bits \in SUBSET Bit
  PROVE  ShpCommand(cmd, on, bits) \in Program
<1>1. \A x : /\ SetBit("MPPT_CONTROL0", "MPPT", x) \in Op
             /\ SetBit("CHARGE_OPTION4", "PFM", x) \in Op
             /\ SetBit("JEITA_CONTROL1", "TS_OFF", x) \in Op
             /\ SetBit("JEITA_CONTROL0", "JEITA", x) \in Op
             /\ SetBit("CHARGE_OPTION0", "REG_RST", x) \in Op
             /\ SetBit("CHARGE_OPTION0", "THRESHOLDS", x) \in Op
             /\ SetBit("CHARGE_OPTION3", "TIMERS", x) \in Op
             /\ SetBit("MPPT_CONTROL0", "MPPT_CFG", x) \in Op
  BY SetBitOp DEF Bit, Register
<1>2. \A cfg : ShpConfigureCharging(cfg) \in Program
  <2> SUFFICES ASSUME NEW cfg PROVE ShpConfigureCharging(cfg) \in Program
    OBVIOUS
  <2>1. /\ Write("CHARGE_CURRENT", cfg \cap {"CHARGE_CURRENT"}) \in Op
        /\ Write("CHARGE_LIMITS",  cfg \cap {"CHARGE_LIMITS"}) \in Op
    BY WriteOp DEF Bit, Register, ShpLimits
  <2>2. /\ Update("CHARGE_OPTION1", {"CFG_ENABLES"}, cfg) \in Op
        /\ Update("CHARGE_OPTION1", {"IBUS_PIN", "IBAT_PIN"}, {}) \in Op
    BY UpdateOp DEF Bit, Register
  <2> QED
    BY <2>1, <2>2, Short DEF ShpConfigureCharging
<1>3. \A cfg : ShpConfigureReverse(cfg) \in Program
  <2> SUFFICES ASSUME NEW cfg PROVE ShpConfigureReverse(cfg) \in Program
    OBVIOUS
  <2>1. /\ Write("OTG_VOLTAGE", cfg \cap {"OTG_VOLTAGE"}) \in Op
        /\ Write("OTG_CURRENT", cfg \cap {"OTG_CURRENT"}) \in Op
    BY WriteOp DEF Bit, Register, ShpLimits
  <2>2. Update("CHARGE_OPTION4", {"OTG_FB_PIN"}, cfg) \in Op
    BY UpdateOp DEF Bit, Register
  <2> QED
    BY <2>1, <2>2, Short DEF ShpConfigureReverse
<1>4. <<>> \in Program
  BY DEF Program
<1> QED
  BY <1>1, <1>2, <1>3, <1>4, Short, ShpPins, ShpSetters, ShpInit DEF ShpCommand

(* The BQ25756. *)
LEMMA BqPins == ASSUME NEW cfg PROVE BqConfigurePins(cfg) \in Program
<1>1. Write("PIN_CONTROL", cfg \cap BqBits("PIN_CONTROL")) \in Op
  BY WriteOp DEF BqBits, BqLimits, Bit, Register
<1>2. Update("CHARGER_CONTROL", {"CE_OFF"}, cfg) \in Op
  BY UpdateOp DEF Bit, Register
<1> QED
  BY <1>1, <1>2, Short DEF BqConfigurePins

(* The on/off setters of the BQ25756 are programs. *)
LEMMA BqSetters ==
  ASSUME NEW on
  PROVE  /\ BqSetCharge(on) \in Program
         /\ BqSetHiz(on) \in Program
         /\ BqSetReverse(on) \in Program
         /\ BqSetWatchdog(on) \in Program
<1>1. /\ SetBit("CHARGER_CONTROL", "EN_CHG", on) \in Op
      /\ SetBit("CHARGER_CONTROL", "HIZ", on) \in Op
      /\ SetBit("POWER_CONTROL", "REVERSE", on) \in Op
      /\ SetBit("TIMER_CONTROL", "WATCHDOG", on) \in Op
  BY SetBitOp DEF Bit, Register
<1> QED
  BY <1>1, Short DEF BqSetCharge, BqSetHiz, BqSetReverse, BqSetWatchdog

(* So is bq_chip_init. *)
LEMMA BqInit == BqChipInit \in Program
<1>1. SetBit("TS_CHARGE_BEHAVIOR", "TS", FALSE) \in Op
  BY SetBitOp DEF Bit, Register
<1>2. SetBit("MPPT_CONTROL", "MPPT", FALSE) \in Op
  BY SetBitOp DEF Bit, Register
<1>3. /\ Read("PART_INFO") \in Op
      /\ Write("MASK1", {}) \in Op
      /\ Write("ADC_CHANNEL_CONTROL", {}) \in Op
      /\ Update("ADC_CONTROL", {}, {}) \in Op
  BY ReadOp, WriteOp, UpdateOp DEF Register
<1>4. BqSoftwareHost \in Program
  BY <1>1, <1>2, Short, BqPins, BqSetters DEF BqSoftwareHost
<1> QED
  BY <1>3, <1>4, Short DEF BqChipInit

(* The commands of the BQ25756. *)
LEMMA BqCommands ==
  ASSUME NEW cmd, NEW on, NEW bits \in SUBSET Bit
  PROVE  BqCommand(cmd, on, bits) \in Program
<1>1. \A x : /\ SetBit("MPPT_CONTROL", "MPPT", x) \in Op
             /\ SetBit("MPPT_CONTROL", "MPPT_CFG", x) \in Op
             /\ SetBit("POWER_CONTROL", "PFM", x) \in Op
             /\ SetBit("POWER_CONTROL", "REG_RST", x) \in Op
             /\ SetBit("TS_CHARGE_BEHAVIOR", "TS", x) \in Op
             /\ SetBit("TS_CHARGE_BEHAVIOR", "JEITA", x) \in Op
             /\ SetBit("PRECHARGE_CONTROL", "VBAT_LOWV", x) \in Op
             /\ SetBit("CHARGER_CONTROL", "VRECHG", x) \in Op
             /\ SetBit("TIMER_CONTROL", "TIMERS", x) \in Op
  BY SetBitOp DEF Bit, Register
<1>2. /\ Update("MPPT_CONTROL", {}, {}) \in Op
      /\ Update("CHARGER_CONTROL", {}, {}) \in Op
  BY UpdateOp DEF Register
<1>3. \A cfg : /\ BqConfigureCharging(cfg) \in Program
               /\ BqConfigureReverse(cfg) \in Program
               /\ BqConfigureGate(cfg) \in Program
  <2> SUFFICES ASSUME NEW cfg
               PROVE  /\ BqConfigureCharging(cfg) \in Program
                      /\ BqConfigureReverse(cfg) \in Program
                      /\ BqConfigureGate(cfg) \in Program
    OBVIOUS
  <2>1. /\ Write("CHARGE_VOLTAGE", cfg \cap {"CHARGE_VOLTAGE"}) \in Op
        /\ Write("CHARGE_LIMITS",  cfg \cap {"CHARGE_LIMITS"}) \in Op
        /\ Write("REVERSE_VOLTAGE", cfg \cap {"REVERSE_VOLTAGE"}) \in Op
        /\ Write("GATE_DRIVE", cfg \cap {"GATE_DRIVE"}) \in Op
    BY WriteOp DEF Bit, Register, ShpLimits, BqLimits
  <2>2. /\ Update("PRECHARGE_CONTROL", {"CFG_ENABLES"}, cfg) \in Op
        /\ Update("REVERSE_LIMITS", {"REVERSE_LIMITS"}, cfg) \in Op
    BY UpdateOp DEF Bit, Register, BqLimits
  <2> QED
    BY <2>1, <2>2, Short DEF BqConfigureCharging, BqConfigureReverse, BqConfigureGate
<1>4. <<>> \in Program
  BY DEF Program
<1> QED
  BY <1>1, <1>2, <1>3, <1>4, Short, BqPins, BqSetters, BqInit DEF BqCommand

-----------------------------------------------------------------------------
(* Both chips: whatever the power module starts is a program, and a        *)
(* refresh never writes anything but what it has just read.                *)
THEOREM Programs ==
  ASSUME NEW c \in Chip
  PROVE  /\ ChipInit(c) \in Program
         /\ Refresh(c) \in Program
         /\ Refresh(c) \in Seq(QuietOps)
         /\ \A cmd, on : \A bits \in SUBSET Bit : Command(c, cmd, on, bits) \in Program
<1>1. ChipInit(c) \in Program
  BY ShpInit, BqInit DEF ChipInit
<1>2. Refresh(c) \in Seq(QuietOps)
  BY ShpRefreshing, BqRefreshing DEF Refresh
<1>3. Refresh(c) \in Program
  BY <1>2, SeqMonotonic DEF Program, QuietOps
<1>4. \A cmd, on : \A bits \in SUBSET Bit : Command(c, cmd, on, bits) \in Program
  BY ShpCommands, BqCommands DEF Command
<1> QED
  BY <1>1, <1>2, <1>3, <1>4

-----------------------------------------------------------------------------
(* The power module *)

USE DEF Thread, Chip

-----------------------------------------------------------------------------
(* Type correctness *)

(* A thread that starts a program, or is idle, is in a proper state. *)
LEMMA FreshRun ==
  \A c \in Chip, p \in Program : Start(c, p) \in RunState /\ Idle(c) \in RunState
  BY EmptySeq DEF Start, Idle, RunState, Program

(* An idle thread is inside no program. *)
LEMMA NothingRuns == \A c : Idle(c).prog = <<>>
  BY DEF Idle

(* The variables start with their types. *)
LEMMA InitTypes == Init => TypeOK
<1> SUFFICES ASSUME Init PROVE TypeOK
  OBVIOUS
<1>1. reg \in [Chip -> SUBSET Setting]
  BY PowerAssumption DEF Init
<1>2. run \in [Thread -> RunState]
  BY FreshRun, EmptySeq DEF Init, Program
<1>3. pc \in [Thread -> PowerPC \cup WebPC] /\ pc["power"] \in PowerPC /\ pc["web"] \in WebPC
  BY DEF Init, PowerPC, WebPC
<1>4. req \in [chip : Chip, cmd : Commands \cup {Get}, before : SUBSET Setting]
  BY DEF Init, NoReq
<1>5. view \in [present : BOOLEAN, bits : SUBSET Setting]
  BY DEF Init, NoView
<1>6. faults \in 0..MaxFaults
  BY PowerAssumption DEF Init
<1>7. /\ snap \in [Chip -> SUBSET Setting]
      /\ present \in [Chip -> BOOLEAN]
      /\ ready \in BOOLEAN
      /\ owner \in Thread \cup {NoThread}
      /\ waiting \subseteq Thread
      /\ bus \in Thread \cup {NoThread}
      /\ last \in [Chip -> Commands \cup {Never, Unacked}]
  BY DEF Init
<1> QED
  BY <1>1, <1>2, <1>3, <1>4, <1>5, <1>6, <1>7 DEF TypeOK

(* A thread inside a program is at a well-formed access; going on with the *)
(* program, or dropping it, gives a program again.                         *)
LEMMA ProgramTypes ==
  ASSUME TypeOK, NEW t \in Thread, InProgram(t)
  PROVE  /\ NextOp(t) \in Op
         /\ Advance(t) \in RunState
         /\ AfterError(t) \in RunState
         /\ run[t].chip \in Chip
<1>1. run[t] \in RunState
  BY DEF TypeOK
<1>2. run[t].prog \in Seq(Op) /\ run[t].prog # <<>>
  BY <1>1 DEF RunState, Program, InProgram
<1>3. Head(run[t].prog) \in Op /\ Tail(run[t].prog) \in Seq(Op)
  BY <1>2, HeadTailProperties
<1>4. Advance(t) \in RunState
  BY <1>1, <1>3 DEF Advance, RunState, Program
<1>5. AfterError(t) \in RunState
  BY <1>1, <1>4, EmptySeq DEF AfterError, RunState, Program
<1> QED
  BY <1>1, <1>3, <1>4, <1>5 DEF NextOp, RunState

(* A write leaves settings in every chip. *)
LEMMA StoreTypes ==
  ASSUME TypeOK, NEW t \in Thread, InProgram(t), StoreOp(t)
  PROVE  reg' \in [Chip -> SUBSET Setting]
<1> DEFINE c == run[t].chip
           v == Merge(NextOp(t), run[t].cur)
<1>1. NextOp(t) \in Op /\ c \in Chip /\ run[t].cur \in SUBSET Setting
  BY ProgramTypes DEF TypeOK, RunState
<1>2. v \subseteq Bit
  BY <1>1 DEF Merge, Op, Setting
<1>3. Stored(c, NextOp(t).reg, v) \subseteq Setting
  <2>1. CASE "REG_RST" \in v
    BY <1>1, <2>1, PowerAssumption DEF Stored
  <2>2. CASE "REG_RST" \notin v
    BY <1>1, <1>2, <2>2 DEF Stored, TypeOK, Setting
  <2> QED
    BY <2>1, <2>2
<1> QED
  BY <1>1, <1>3 DEF StoreOp, TypeOK

-----------------------------------------------------------------------------
(* The inductive invariant *)

(* Nothing runs, nothing is owned and no chip is present at first. *)
LEMMA InitInv == Init => Inv
<1> SUFFICES ASSUME Init PROVE Inv
  OBVIOUS
<1>1. \A t \in Thread : ~InProgram(t)
  BY NothingRuns DEF Init, InProgram
<1>2. LockDiscipline
  BY <1>1, PowerAssumption DEF Init, LockDiscipline, OwnerPlaced, WaitersPlaced, HolderOwns, Guarded
<1>3. SearchOrder
  BY DEF Init, SearchOrder
<1>4. Execution
  BY <1>1 DEF Init, Execution
<1> QED
  BY <1>2, <1>3, <1>4, InitTypes DEF Inv

(* tx_mutex_get, with or without suspension. *)
LEMMA TakeLockInv == ASSUME Inv, NEW t \in Thread, TakeLock(t) PROVE Inv'
<1> USE DEF Inv, TakeLock, chips, client, InProgram
<1>1. TypeOK'
  BY ZenonT(60) DEF TypeOK
<1>2. LockDiscipline'
  <2>1. t \notin waiting /\ pc[t] \in LockPC
    BY DEF CanRun, Runnable
  <2>2. /\ pc[t] = "lock" => t = "web"
        /\ pc[t] \in {"publish_lock", "sample_lock"} => t = "power"
    BY DEF TypeOK, PowerPC, WebPC
  <2>3. OwnerPlaced'
    BY <2>1, <2>2 DEF LockDiscipline, OwnerPlaced, LockPC
  <2>4. WaitersPlaced'
    BY <2>1 DEF LockDiscipline, WaitersPlaced
  <2>5. HolderOwns'
    BY PowerAssumption DEF LockDiscipline, HolderOwns
  <2>6. Guarded'
    BY PowerAssumption DEF LockDiscipline, Guarded
  <2> QED
    BY <2>3, <2>4, <2>5, <2>6 DEF LockDiscipline
<1>3. SearchOrder'
  BY DEF SearchOrder
<1>4. Execution'
  BY DEF Execution
<1> QED
  BY <1>1, <1>2, <1>3, <1>4

(* What a step on the bus may do: it goes on with the program of t, or     *)
(* drops it, and moves no thread and no lock.                              *)
BusShape(t) ==
  /\ InProgram(t)
  /\ run' \in [Thread -> RunState]
  /\ \A u \in Thread : u # t => run'[u] = run[u]
  /\ run'[t].chip = run[t].chip
  /\ run'[t].prog \in {run[t].prog, Tail(run[t].prog), <<>>}
  /\ bus' \in {NoThread, bus, t}
  /\ bus' = t => run'[t].prog = run[t].prog
  /\ UNCHANGED <<present, ready, owner, waiting, pc, req, view, last>>

(* What going on with a program, or dropping it, changes. *)
LEMMA AdvanceShape ==
  ASSUME Inv, NEW t \in Thread, InProgram(t),
         \/ run' = [run EXCEPT ![t] = Advance(t)]
         \/ run' = [run EXCEPT ![t] = AfterError(t)]
  PROVE  /\ run' \in [Thread -> RunState]
         /\ \A u \in Thread : u # t => run'[u] = run[u]
         /\ run'[t].chip = run[t].chip
         /\ run'[t].prog \in {run[t].prog, Tail(run[t].prog), <<>>}
<1>1. run \in [Thread -> RunState]
  BY DEF Inv, TypeOK
<1>2. Advance(t) \in RunState /\ AfterError(t) \in RunState
  BY ProgramTypes DEF Inv
<1>3. /\ Advance(t).chip = run[t].chip /\ Advance(t).prog = Tail(run[t].prog)
      /\ AfterError(t).chip = run[t].chip
      /\ AfterError(t).prog \in {Tail(run[t].prog), <<>>}
  BY <1>1 DEF Advance, AfterError, RunState
<1> QED
  BY <1>1, <1>2, <1>3

(* A kick that is not due. *)
LEMMA SkipKickShape == ASSUME Inv, NEW t \in Thread, SkipKick(t) PROVE BusShape(t)
  BY AdvanceShape DEF SkipKick, BusShape, chips, lock, client

(* The begin of a transfer, or HAL_BUSY. *)
LEMMA BeginShape == ASSUME Inv, NEW t \in Thread, BeginTransfer(t) PROVE BusShape(t)
<1>1. CASE bus = NoThread
  BY <1>1 DEF BeginTransfer, BusShape, chips, lock, client, Inv, TypeOK
<1>2. CASE bus # NoThread
  BY <1>2, AdvanceShape DEF BeginTransfer, BusShape, chips, lock, client
<1> QED
  BY <1>1, <1>2

(* A transfer that succeeds. *)
LEMMA TransferShape == ASSUME Inv, NEW t \in Thread, Transfer(t) PROVE BusShape(t)
<1>1. InProgram(t)
  BY PowerAssumption DEF Inv, Execution, Transfer
<1>2. run[t] \in RunState /\ run \in [Thread -> RunState]
  BY DEF Inv, TypeOK
<1>3. \A c, r : Held(c, r) = reg[c] \cap BitsOf(c, r)
  BY DEF Held
<1>4. CASE run' = [run EXCEPT ![t] = Advance(t)]
  BY <1>1, <1>4, AdvanceShape, PowerAssumption DEF Transfer, BusShape, lock, client
<1>5. CASE run' = [run EXCEPT ![t].rmw = TRUE,
                              ![t].cur = Held(run[t].chip, NextOp(t).reg)]
  <2>1. Held(run[t].chip, NextOp(t).reg) \in SUBSET Setting
    BY <1>2, <1>3 DEF Inv, TypeOK, RunState
  <2>2. run' \in [Thread -> RunState]
    BY <1>2, <1>5, <2>1 DEF RunState
  <2> QED
    BY <1>1, <1>2, <1>5, <2>2, PowerAssumption DEF Transfer, BusShape, lock, client, RunState
<1> QED
  BY <1>4, <1>5 DEF Transfer

(* A transfer that fails. *)
LEMMA FailShape == ASSUME Inv, NEW t \in Thread, FailTransfer(t) PROVE BusShape(t)
<1>1. InProgram(t)
  BY PowerAssumption DEF Inv, Execution, FailTransfer
<1> QED
  BY <1>1, AdvanceShape, PowerAssumption DEF FailTransfer, BusShape, lock, client

(* The registers, the snapshots and the fault count keep their types. *)
LEMMA BusTypes ==
  ASSUME Inv, NEW t \in Thread, Bus(t)
  PROVE  /\ reg' \in [Chip -> SUBSET Setting]
         /\ snap' \in [Chip -> SUBSET Setting]
         /\ faults' \in 0..MaxFaults
<1>1. CASE SkipKick(t) \/ BeginTransfer(t)
  BY <1>1 DEF SkipKick, BeginTransfer, chips, Inv, TypeOK
<1>2. CASE Transfer(t)
  <2>1. InProgram(t)
    BY <1>2, TransferShape DEF BusShape
  <2>2. reg' = reg \/ StoreOp(t)
    BY <1>2 DEF Transfer
  <2>3. reg' \in [Chip -> SUBSET Setting]
    BY <2>1, <2>2, StoreTypes DEF Inv, TypeOK
  <2>4. snap' \in [Chip -> SUBSET Setting]
    BY <1>2 DEF Transfer, Held, Inv, TypeOK
  <2> QED
    BY <1>2, <2>3, <2>4 DEF Transfer, Inv, TypeOK
<1>3. CASE FailTransfer(t)
  <2>1. InProgram(t)
    BY <1>3, FailShape DEF BusShape
  <2>2. reg' = reg \/ StoreOp(t)
    BY <1>3 DEF FailTransfer
  <2>3. reg' \in [Chip -> SUBSET Setting]
    BY <2>1, <2>2, StoreTypes DEF Inv, TypeOK
  <2>4. snap' \in [Chip -> SUBSET Setting]
    BY <1>3 DEF FailTransfer, Inv, TypeOK
  <2>5. faults' \in 0..MaxFaults
    BY <1>3, PowerAssumption DEF FailTransfer, Inv, TypeOK
  <2> QED
    BY <2>3, <2>4, <2>5
<1> QED
  BY <1>1, <1>2, <1>3 DEF Bus

(* A step on the bus. *)
LEMMA BusInv == ASSUME Inv, NEW t \in Thread, Bus(t) PROVE Inv'
<1>1. BusShape(t)
  BY SkipKickShape, BeginShape, TransferShape, FailShape DEF Bus
<1>2. TypeOK'
  BY <1>1, BusTypes DEF BusShape, Inv, TypeOK
<1>3. \A u \in Thread : /\ InProgram(u)' => InProgram(u)
                        /\ run'[u].chip = run[u].chip
  BY <1>1 DEF BusShape, InProgram
<1>4. LockDiscipline'
  <2>1. OwnerPlaced' /\ WaitersPlaced' /\ HolderOwns'
    BY <1>1 DEF BusShape, Inv, LockDiscipline, OwnerPlaced, WaitersPlaced, HolderOwns
  <2>2. Guarded'
    BY <1>1, <1>3 DEF BusShape, Inv, LockDiscipline, Guarded
  <2> QED
    BY <2>1, <2>2 DEF LockDiscipline
<1>5. SearchOrder'
  BY <1>1, <1>3 DEF BusShape, Inv, SearchOrder
<1>6. Execution'
  <2>1. \A u \in Thread : run[u].prog \in Seq(QuietOps) => run'[u].prog \in Seq(QuietOps)
    <3> SUFFICES ASSUME run[t].prog \in Seq(QuietOps)
                 PROVE  run'[t].prog \in Seq(QuietOps)
      BY <1>1 DEF BusShape
    <3>1. Tail(run[t].prog) \in Seq(QuietOps)
      BY <1>1, HeadTailProperties DEF BusShape, InProgram
    <3> QED
      BY <1>1, <3>1, EmptySeq DEF BusShape
  <2>2. bus' # NoThread => run'[bus'].prog # <<>>
    <3>1. CASE bus' = t
      BY <1>1, <3>1 DEF BusShape, InProgram
    <3>2. CASE bus' = bus /\ bus # t
      BY <1>1, <3>2, PowerAssumption DEF BusShape, InProgram, Inv, Execution, TypeOK
    <3> QED
      BY <1>1, <3>1, <3>2 DEF BusShape
  <2>3. /\ InProgram("power")' => pc'["power"] \in {"init", "publish", "sample"}
        /\ InProgram("web")' => pc'["web"] \in {"exec", "refresh"}
        /\ pc'["web"] \in {"exec", "refresh"} => present'[run'["web"].chip]
    BY <1>1, <1>3 DEF BusShape, Inv, Execution
  <2> QED
    BY <1>1, <1>3, <2>1, <2>2, <2>3 DEF BusShape, Inv, Execution, InProgram
<1> QED
  BY <1>2, <1>4, <1>5, <1>6 DEF Inv

-----------------------------------------------------------------------------
(* The power thread *)

(* tx_mutex_put by the owner t. *)
LEMMA PutLockShape ==
  ASSUME Inv, NEW t \in Thread, owner = t, PutLock
  PROVE  /\ owner' \in Thread \cup {NoThread}
         /\ waiting' \subseteq waiting
         /\ owner' # t
         /\ owner' \notin waiting'
         /\ owner' # NoThread => owner' \in waiting
<1>1. waiting \subseteq Thread /\ \A u \in waiting : u # t
  BY DEF Inv, TypeOK, LockDiscipline, WaitersPlaced
<1>2. CASE waiting = {}
  BY <1>2, PowerAssumption DEF PutLock
<1>3. CASE waiting # {}
  <2> PICK u \in waiting : owner' = u /\ waiting' = waiting \ {u}
    BY <1>3 DEF PutLock
  <2> QED
    BY <1>1
<1> QED
  BY <1>2, <1>3

(* A lock handed over keeps the discipline if t has left the section and   *)
(* is not in the middle of a program.                                      *)
LEMMA PutLockDiscipline ==
  ASSUME Inv, NEW t \in Thread, owner = t, PutLock,
         pc' \in [Thread -> PowerPC \cup WebPC],
         \A u \in Thread : u # t => pc'[u] = pc[u] /\ run'[u] = run[u],
         pc'[t] \notin {"publish", "sample", "exec", "refresh"},
         present' = present,
         InProgram(t)' => t = "power" /\ pc'[t] = "init" /\ ~present[run'[t].chip]
  PROVE  LockDiscipline'
<1>1. /\ owner' \in Thread \cup {NoThread}
      /\ waiting' \subseteq waiting
      /\ owner' # t
      /\ owner' \notin waiting'
      /\ owner' # NoThread => owner' \in waiting
  BY PutLockShape
<1>2. \A u \in Thread : u # t => u \notin waiting \/ pc[u] \in LockPC
  BY DEF Inv, LockDiscipline, WaitersPlaced
<1>3. t \notin waiting
  BY DEF Inv, LockDiscipline, WaitersPlaced
<1>4. OwnerPlaced'
  <2>1. \A u \in Thread : owner' = u => pc'[u] = pc[u] /\ pc[u] \in LockPC
    BY <1>1, <1>2, PowerAssumption
  <2>2. pc["power"] # "lock" /\ pc["web"] \notin {"publish_lock", "sample_lock"}
    BY DEF Inv, TypeOK, PowerPC, WebPC
  <2> QED
    BY <2>1, <2>2 DEF OwnerPlaced, LockPC
<1>5. WaitersPlaced'
  <2> SUFFICES ASSUME NEW u \in waiting' PROVE owner' # u /\ pc'[u] \in LockPC
    BY DEF WaitersPlaced
  <2>1. u \in waiting /\ owner' # u
    BY <1>1
  <2>2. u \in Thread /\ u # t
    BY <1>3, <2>1 DEF Inv, TypeOK
  <2>3. pc[u] \in LockPC
    BY <2>1 DEF Inv, LockDiscipline, WaitersPlaced
  <2>4. pc'[u] = pc[u]
    BY <2>2
  <2> QED
    BY <2>1, <2>3, <2>4
<1>6. HolderOwns'
  BY <1>1 DEF HolderOwns, Inv, LockDiscipline, OwnerPlaced
<1>7. Guarded'
  BY <1>1 DEF Guarded, InProgram, Inv, LockDiscipline
<1> QED
  BY <1>4, <1>5, <1>6, <1>7 DEF LockDiscipline

(* board_i2c_open, and the begin of the search. *)
LEMMA OpenBusInv == ASSUME Inv, OpenBus PROVE Inv'
<1> USE DEF chips, lock, client
<1>1. ChipInit("shp") \in Program
  BY Programs
<1>2. Start("shp", ChipInit("shp")) \in RunState
  BY <1>1, FreshRun
<1>3. Start("shp", ChipInit("shp")).chip = "shp"
  BY DEF Start, Idle
<1>4. TypeOK'
  <2>1. /\ pc' \in [Thread -> PowerPC \cup WebPC]
        /\ pc'["power"] \in PowerPC /\ pc'["web"] \in WebPC
    BY DEF OpenBus, Inv, TypeOK, PowerPC
  <2>2. run' \in [Thread -> RunState]
    BY <1>2 DEF OpenBus, Inv, TypeOK
  <2> QED
    BY <2>1, <2>2 DEF OpenBus, Inv, TypeOK
<1>5. LockDiscipline'
  <2>1. owner # "power" /\ "power" \notin waiting /\ bus # "power"
    BY PowerAssumption DEF OpenBus, Inv, LockDiscipline, OwnerPlaced, WaitersPlaced, LockPC, Execution, InProgram
  <2>2. OwnerPlaced' /\ WaitersPlaced' /\ HolderOwns'
    BY <2>1 DEF OpenBus, Inv, TypeOK, LockDiscipline, OwnerPlaced, WaitersPlaced, HolderOwns, LockPC
  <2>3. Guarded'
    BY <1>3, <2>1 DEF OpenBus, Inv, TypeOK, LockDiscipline, Guarded, SearchOrder, InProgram
  <2> QED
    BY <2>2, <2>3 DEF LockDiscipline
<1>6. SearchOrder'
  BY <1>3 DEF OpenBus, Inv, TypeOK, SearchOrder
<1>7. Execution'
  BY <1>3 DEF OpenBus, Inv, TypeOK, Execution, InProgram
<1> QED
  BY <1>4, <1>5, <1>6, <1>7 DEF Inv

(* A move of thread t to another place, with another program. *)
LEMMA MoveTypes ==
  ASSUME Inv, NEW t \in Thread, NEW place, NEW r \in RunState,
         place \in IF t = "power" THEN PowerPC ELSE WebPC,
         pc' = [pc EXCEPT ![t] = place],
         run' = [run EXCEPT ![t] = r]
  PROVE  /\ pc' \in [Thread -> PowerPC \cup WebPC]
         /\ pc'["power"] \in PowerPC /\ pc'["web"] \in WebPC
         /\ run' \in [Thread -> RunState]
         /\ pc'[t] = place /\ run'[t] = r
         /\ \A u \in Thread : u # t => pc'[u] = pc[u] /\ run'[u] = run[u]
  BY DEF Inv, TypeOK

(* The programs that the power module starts, and no program. *)
LEMMA StartShape ==
  ASSUME NEW c \in Chip
  PROVE  /\ Start(c, ChipInit(c)) \in RunState /\ Start(c, ChipInit(c)).chip = c
         /\ Start(c, Refresh(c)) \in RunState /\ Start(c, Refresh(c)).chip = c
         /\ Start(c, Refresh(c)).prog \in Seq(QuietOps)
         /\ Idle(c) \in RunState /\ Idle(c).chip = c /\ Idle(c).prog = <<>>
         /\ ChipInit(c) \in Program
<1>1. ChipInit(c) \in Program /\ Refresh(c) \in Program /\ Refresh(c) \in Seq(QuietOps)
  BY Programs
<1>2. <<>> \in Program
  BY EmptySeq DEF Program
<1> QED
  BY <1>1, <1>2, FreshRun DEF Start, Idle

(* Where AfterChip leads. *)
LEMMA AfterChipShape ==
  ASSUME Inv, NEW c \in Chip, AfterChip(c), c = "shp" => ~present["bq"]
  PROVE  \E place \in {"init", "sample_lock", "nap"}, r \in RunState :
           /\ pc' = [pc EXCEPT !["power"] = place]
           /\ run' = [run EXCEPT !["power"] = r]
           /\ place = "init" => r.chip = "bq" /\ ~present["bq"]
           /\ place # "init" => r.prog = <<>>
           /\ place = "nap" => \A d \in Chip : ~present[d]
<1>1. CASE c = "shp"
  BY <1>1, StartShape DEF AfterChip
<1>2. CASE c # "shp" /\ \E d \in Chip : present[d]
  BY <1>2, StartShape DEF AfterChip
<1>3. CASE c # "shp" /\ ~\E d \in Chip : present[d]
  BY <1>3, StartShape DEF AfterChip
<1> QED
  BY <1>1, <1>2, <1>3

(* chip_init has returned. *)
LEMMA InitDoneInv == ASSUME Inv, InitDone PROVE Inv'
<1> USE DEF chips, lock, client
<1> DEFINE c == run["power"].chip
<1>0. c \in Chip /\ run["power"].prog = <<>> /\ pc["power"] = "init" /\ bus # "power"
  BY PowerAssumption DEF InitDone, InProgram, Inv, TypeOK, RunState, Execution
<1>1. /\ UNCHANGED <<reg, snap, present, ready, owner, waiting, bus, req, view, faults, last>>
      /\ ~present["bq"] /\ (c = "shp" => \A d \in Chip : ~present[d])
      /\ owner # "power" /\ "power" \notin waiting
  BY <1>0 DEF InitDone, Inv, SearchOrder, LockDiscipline, OwnerPlaced, WaitersPlaced, LockPC
<1>2. \E place \in {"init", "sample_lock", "nap", "publish_lock"}, r \in RunState :
           /\ pc' = [pc EXCEPT !["power"] = place]
           /\ run' = [run EXCEPT !["power"] = r]
           /\ place = "init" => r.chip = "bq"
           /\ place # "init" => r.prog = <<>>
           /\ place = "publish_lock" => r.chip = c
           /\ place = "nap" => \A d \in Chip : ~present[d]
  <2>1. CASE run["power"].ok
    <3>1. run' = [run EXCEPT !["power"] = run["power"]] /\ run["power"] \in RunState
      BY <2>1 DEF InitDone, Inv, TypeOK
    <3> QED
      BY <1>0, <2>1, <3>1 DEF InitDone
  <2>2. CASE ~run["power"].ok
    <3>1. AfterChip(c)
      BY <2>2 DEF InitDone
    <3> QED
      BY <1>0, <1>1, <3>1, AfterChipShape
  <2> QED
    BY <2>1, <2>2
<1>3. PICK place \in {"init", "sample_lock", "nap", "publish_lock"}, r \in RunState :
           /\ pc' = [pc EXCEPT !["power"] = place]
           /\ run' = [run EXCEPT !["power"] = r]
           /\ place = "init" => r.chip = "bq"
           /\ place # "init" => r.prog = <<>>
           /\ place = "publish_lock" => r.chip = c
           /\ place = "nap" => \A d \in Chip : ~present[d]
  BY <1>2
<1>4. /\ pc' \in [Thread -> PowerPC \cup WebPC]
      /\ pc'["power"] \in PowerPC /\ pc'["web"] \in WebPC
      /\ run' \in [Thread -> RunState]
      /\ pc'["power"] = place /\ run'["power"] = r
      /\ pc'["web"] = pc["web"] /\ run'["web"] = run["web"]
  BY <1>3, MoveTypes DEF PowerPC
<1>5. TypeOK'
  BY <1>1, <1>4 DEF Inv, TypeOK
<1>6. LockDiscipline'
  <2>1. OwnerPlaced' /\ WaitersPlaced' /\ HolderOwns'
    BY <1>1, <1>4, PowerAssumption DEF Inv, TypeOK, LockDiscipline, OwnerPlaced, WaitersPlaced, HolderOwns
  <2>2. Guarded'
    BY <1>1, <1>3, <1>4 DEF Inv, LockDiscipline, Guarded, InProgram
  <2> QED
    BY <2>1, <2>2 DEF LockDiscipline
<1>7. SearchOrder'
  BY <1>0, <1>1, <1>3, <1>4 DEF SearchOrder
<1>8. Execution'
  BY <1>0, <1>1, <1>3, <1>4, PowerAssumption DEF Inv, TypeOK, Execution, InProgram
<1> QED
  BY <1>5, <1>6, <1>7, <1>8 DEF Inv

(* A chip is published. *)
LEMMA PublishInv == ASSUME Inv, Publish PROVE Inv'
<1> USE DEF chips, lock, client
<1> DEFINE c == run["power"].chip
           r == Start(c, Refresh(c))
<1>0. c \in Chip /\ run["power"].prog = <<>> /\ bus # "power" /\ ~present["bq"] /\ ~present[c]
  BY PowerAssumption DEF Publish, InProgram, Inv, TypeOK, RunState, Execution, SearchOrder
<1>1. r \in RunState /\ r.chip = c /\ r.prog \in Seq(QuietOps)
  BY <1>0, StartShape
<1> HIDE DEF r
<1>2. /\ pc' = [pc EXCEPT !["power"] = "publish"]
      /\ run' = [run EXCEPT !["power"] = r]
      /\ present' = [present EXCEPT ![c] = TRUE]
      /\ UNCHANGED <<reg, snap, ready, owner, waiting, bus, req, view, faults, last>>
      /\ owner = "power" /\ "power" \notin waiting
  BY DEF Publish, r, Inv, LockDiscipline, WaitersPlaced
<1>3. /\ pc' \in [Thread -> PowerPC \cup WebPC]
      /\ pc'["power"] \in PowerPC /\ pc'["web"] \in WebPC
      /\ run' \in [Thread -> RunState]
      /\ pc'["power"] = "publish" /\ run'["power"] = r
      /\ pc'["web"] = pc["web"] /\ run'["web"] = run["web"]
  BY <1>1, <1>2, MoveTypes DEF PowerPC
<1>4. /\ present' \in [Chip -> BOOLEAN]
      /\ \A d \in Chip : present[d] => present'[d]
      /\ present'[c] /\ (c = "shp" => ~present'["bq"])
  BY <1>0, <1>2 DEF Inv, TypeOK
<1>5. TypeOK'
  BY <1>2, <1>3, <1>4 DEF Inv, TypeOK
<1>6. LockDiscipline'
  <2>1. OwnerPlaced' /\ WaitersPlaced' /\ HolderOwns'
    BY <1>2, <1>3 DEF Inv, LockDiscipline, OwnerPlaced, WaitersPlaced, HolderOwns, TypeOK
  <2>2. Guarded'
    BY <1>1, <1>2, <1>3, <1>4, PowerAssumption DEF Inv, LockDiscipline, Guarded, InProgram, TypeOK, RunState
  <2> QED
    BY <2>1, <2>2 DEF LockDiscipline
<1>7. SearchOrder'
  BY <1>1, <1>3, <1>4 DEF SearchOrder
<1>8. Execution'
  BY <1>0, <1>1, <1>2, <1>3, <1>4, PowerAssumption DEF Inv, TypeOK, RunState, Execution, InProgram
<1> QED
  BY <1>5, <1>6, <1>7, <1>8 DEF Inv

(* The first refresh of a published chip is over. *)
LEMMA PublishDoneInv == ASSUME Inv, PublishDone PROVE Inv'
<1> USE DEF chips, lock, client
<1> DEFINE c == run["power"].chip
<1>0. /\ c \in Chip /\ pc["power"] = "publish" /\ bus # "power" /\ owner = "power"
      /\ c = "shp" => ~present["bq"]
  BY PowerAssumption DEF PublishDone, InProgram, Inv, TypeOK, RunState, Execution,
     SearchOrder, LockDiscipline, HolderOwns
<1>1. /\ UNCHANGED <<reg, snap, present, ready, bus, req, view, faults, last>>
      /\ PutLock /\ AfterChip(c)
  BY DEF PublishDone
<1>2. PICK place \in {"init", "sample_lock", "nap"}, r \in RunState :
           /\ pc' = [pc EXCEPT !["power"] = place]
           /\ run' = [run EXCEPT !["power"] = r]
           /\ place = "init" => r.chip = "bq" /\ ~present["bq"]
           /\ place # "init" => r.prog = <<>>
           /\ place = "nap" => \A d \in Chip : ~present[d]
  BY <1>0, <1>1, AfterChipShape
<1>3. /\ pc' \in [Thread -> PowerPC \cup WebPC]
      /\ pc'["power"] \in PowerPC /\ pc'["web"] \in WebPC
      /\ run' \in [Thread -> RunState]
      /\ pc'["power"] = place /\ run'["power"] = r
      /\ pc'["web"] = pc["web"] /\ run'["web"] = run["web"]
  BY <1>2, MoveTypes DEF PowerPC
<1>4. owner' \in Thread \cup {NoThread} /\ waiting' \subseteq Thread
  BY <1>0, <1>1, PutLockShape DEF Inv, TypeOK
<1>5. TypeOK'
  BY <1>1, <1>3, <1>4 DEF Inv, TypeOK
<1>6. LockDiscipline'
  BY <1>0, <1>1, <1>2, <1>3, PutLockDiscipline DEF InProgram
<1>7. SearchOrder'
  BY <1>1, <1>2, <1>3 DEF SearchOrder
<1>8. Execution'
  BY <1>0, <1>1, <1>2, <1>3, PowerAssumption DEF Inv, TypeOK, Execution, InProgram
<1> QED
  BY <1>5, <1>6, <1>7, <1>8 DEF Inv

(* The search begins again. *)
LEMMA NapOverInv == ASSUME Inv, NapOver PROVE Inv'
<1> USE DEF chips, lock, client
<1> DEFINE r == Start("shp", ChipInit("shp"))
<1>0. /\ pc["power"] = "nap" /\ owner # "power" /\ "power" \notin waiting /\ bus # "power"
      /\ \A d \in Chip : ~present[d]
  BY PowerAssumption DEF NapOver, InProgram, Inv, Execution, SearchOrder, LockDiscipline,
     OwnerPlaced, WaitersPlaced, LockPC
<1>1. r \in RunState /\ r.chip = "shp"
  BY StartShape
<1> HIDE DEF r
<1>2. /\ pc' = [pc EXCEPT !["power"] = "init"]
      /\ run' = [run EXCEPT !["power"] = r]
      /\ UNCHANGED <<reg, snap, present, ready, owner, waiting, bus, req, view, faults, last>>
  BY DEF NapOver, r
<1>3. /\ pc' \in [Thread -> PowerPC \cup WebPC]
      /\ pc'["power"] \in PowerPC /\ pc'["web"] \in WebPC
      /\ run' \in [Thread -> RunState]
      /\ pc'["power"] = "init" /\ run'["power"] = r
      /\ pc'["web"] = pc["web"] /\ run'["web"] = run["web"]
  BY <1>1, <1>2, MoveTypes DEF PowerPC
<1>4. TypeOK'
  BY <1>2, <1>3 DEF Inv, TypeOK
<1>5. LockDiscipline'
  <2>1. OwnerPlaced' /\ WaitersPlaced' /\ HolderOwns'
    BY <1>0, <1>2, <1>3 DEF Inv, LockDiscipline, OwnerPlaced, WaitersPlaced, HolderOwns, TypeOK
  <2>2. Guarded'
    BY <1>0, <1>1, <1>2, <1>3 DEF Inv, LockDiscipline, Guarded, InProgram
  <2> QED
    BY <2>1, <2>2 DEF LockDiscipline
<1>6. SearchOrder'
  BY <1>0, <1>1, <1>2, <1>3 DEF SearchOrder
<1>7. Execution'
  BY <1>0, <1>1, <1>2, <1>3, PowerAssumption DEF Inv, TypeOK, Execution, InProgram
<1> QED
  BY <1>4, <1>5, <1>6, <1>7 DEF Inv

(* Starting the round, going on to the second chip. *)
LEMMA SamplingInv ==
  ASSUME Inv, NEW r \in RunState,
         owner = "power", pc["power"] \in {"sample_lock", "sample"}, ~InProgram("power"),
         r.prog \in Seq(QuietOps), r.prog # <<>> => present[r.chip],
         pc' = [pc EXCEPT !["power"] = "sample"],
         run' = [run EXCEPT !["power"] = r],
         UNCHANGED <<reg, snap, present, ready, owner, waiting, bus, req, view, faults, last>>
  PROVE  Inv'
<1>1. "power" \notin waiting /\ bus # "power"
  BY PowerAssumption DEF Inv, LockDiscipline, WaitersPlaced, Execution
<1>2. /\ pc' \in [Thread -> PowerPC \cup WebPC]
      /\ pc'["power"] \in PowerPC /\ pc'["web"] \in WebPC
      /\ run' \in [Thread -> RunState]
      /\ pc'["power"] = "sample" /\ run'["power"] = r
      /\ pc'["web"] = pc["web"] /\ run'["web"] = run["web"]
  BY MoveTypes DEF PowerPC
<1>3. TypeOK'
  BY <1>2 DEF Inv, TypeOK
<1>4. LockDiscipline'
  <2>1. OwnerPlaced' /\ WaitersPlaced' /\ HolderOwns'
    BY <1>1, <1>2 DEF Inv, LockDiscipline, OwnerPlaced, WaitersPlaced, HolderOwns, TypeOK
  <2>2. Guarded'
    BY <1>2 DEF Inv, LockDiscipline, Guarded, InProgram
  <2> QED
    BY <2>1, <2>2 DEF LockDiscipline
<1>5. SearchOrder'
  BY <1>2 DEF SearchOrder
<1>6. Execution'
  BY <1>1, <1>2, PowerAssumption DEF Inv, TypeOK, Execution, InProgram
<1> QED
  BY <1>3, <1>4, <1>5, <1>6 DEF Inv

(* A sampling round begins. *)
LEMMA SampleStartInv == ASSUME Inv, SampleStart PROVE Inv'
<1> USE DEF chips, lock, client
<1> DEFINE r == IF present["shp"] THEN Start("shp", Refresh("shp"))
                ELSE IF present["bq"] THEN Start("bq", Refresh("bq"))
                ELSE Idle("bq")
<1>1. /\ r \in RunState /\ r.prog \in Seq(QuietOps)
      /\ r.prog # <<>> => present[r.chip]
  <2>1. Idle("bq").prog \in Seq(QuietOps)
    BY StartShape, EmptySeq
  <2> QED
    BY <2>1, StartShape
<1> HIDE DEF r
<1>2. /\ ~InProgram("power")
      /\ run' = [run EXCEPT !["power"] = r]
      /\ pc["power"] = "sample_lock"
  BY DEF SampleStart, Inv, Execution, r
<1> QED
  BY <1>1, <1>2, SamplingInv DEF SampleStart

(* A sampling round goes on to the BQ25756, or ends. *)
LEMMA SampleNextInv == ASSUME Inv, SampleNext PROVE Inv'
<1> USE DEF chips, lock, client
<1>0. owner = "power" /\ pc["power"] = "sample" /\ ~InProgram("power") /\ bus # "power"
  BY PowerAssumption DEF SampleNext, Inv, LockDiscipline, HolderOwns, Execution
<1>1. CASE run["power"].chip = "shp" /\ present["bq"]
  <2> DEFINE r == Start("bq", Refresh("bq"))
  <2>1. r \in RunState /\ r.prog \in Seq(QuietOps) /\ r.chip = "bq"
    BY StartShape
  <2> HIDE DEF r
  <2>2. run' = [run EXCEPT !["power"] = r]
    BY <1>1 DEF SampleNext, r
  <2>3. pc' = [pc EXCEPT !["power"] = "sample"]
    BY <1>0, <1>1 DEF SampleNext, Inv, TypeOK
  <2> QED
    BY <1>0, <1>1, <2>1, <2>2, <2>3, SamplingInv DEF SampleNext
<1>2. CASE ~(run["power"].chip = "shp" /\ present["bq"])
  <2> DEFINE r == Idle("bq")
  <2>1. r \in RunState /\ r.prog = <<>>
    BY StartShape
  <2> HIDE DEF r
  <2>2. /\ pc' = [pc EXCEPT !["power"] = "sleep"]
        /\ run' = [run EXCEPT !["power"] = r]
        /\ PutLock
        /\ UNCHANGED <<reg, snap, present, ready, bus, req, view, faults, last>>
    BY <1>2 DEF SampleNext, r
  <2>3. /\ pc' \in [Thread -> PowerPC \cup WebPC]
        /\ pc'["power"] \in PowerPC /\ pc'["web"] \in WebPC
        /\ run' \in [Thread -> RunState]
        /\ pc'["power"] = "sleep" /\ run'["power"] = r
        /\ pc'["web"] = pc["web"] /\ run'["web"] = run["web"]
    BY <2>1, <2>2, MoveTypes DEF PowerPC
  <2>4. owner' \in Thread \cup {NoThread} /\ waiting' \subseteq Thread
    BY <1>0, <2>2, PutLockShape DEF Inv, TypeOK
  <2>5. TypeOK'
    BY <2>2, <2>3, <2>4 DEF Inv, TypeOK
  <2>6. LockDiscipline'
    BY <1>0, <2>1, <2>2, <2>3, PutLockDiscipline DEF InProgram
  <2>7. SearchOrder'
    BY <2>3 DEF SearchOrder
  <2>8. Execution'
    BY <1>0, <2>1, <2>2, <2>3, PowerAssumption DEF Inv, TypeOK, Execution, InProgram
  <2> QED
    BY <2>5, <2>6, <2>7, <2>8 DEF Inv
<1> QED
  BY <1>1, <1>2

(* The sampling period is over. *)
LEMMA SleepOverInv == ASSUME Inv, SleepOver PROVE Inv'
<1> USE DEF chips, lock, client
<1>0. /\ pc["power"] = "sleep" /\ owner # "power" /\ "power" \notin waiting
      /\ ~InProgram("power") /\ bus # "power"
  BY PowerAssumption DEF SleepOver, Inv, Execution, LockDiscipline, OwnerPlaced,
     WaitersPlaced, LockPC
<1>1. /\ pc' \in [Thread -> PowerPC \cup WebPC]
      /\ pc'["power"] = "sample_lock" /\ pc'["web"] = pc["web"]
  BY DEF SleepOver, Inv, TypeOK, PowerPC
<1>2. TypeOK'
  BY <1>1 DEF SleepOver, Inv, TypeOK, PowerPC
<1>3. LockDiscipline'
  <2>1. OwnerPlaced' /\ WaitersPlaced' /\ HolderOwns'
    BY <1>0, <1>1 DEF SleepOver, Inv, LockDiscipline, OwnerPlaced, WaitersPlaced, HolderOwns, TypeOK
  <2>2. Guarded'
    BY <1>0, <1>1 DEF SleepOver, Inv, LockDiscipline, Guarded, InProgram
  <2> QED
    BY <2>1, <2>2 DEF LockDiscipline
<1>4. SearchOrder'
  BY <1>1 DEF SearchOrder
<1>5. Execution'
  BY <1>0, <1>1, PowerAssumption DEF SleepOver, Inv, TypeOK, Execution, InProgram
<1> QED
  BY <1>2, <1>3, <1>4, <1>5 DEF Inv

-----------------------------------------------------------------------------
(* The web thread *)

(* A move of the web thread that leaves the chips and the bus alone.       *)
LEMMA WebInv ==
  ASSUME Inv, NEW place \in WebPC, NEW r \in RunState,
         pc' = [pc EXCEPT !["web"] = place],
         run' = [run EXCEPT !["web"] = r],
         UNCHANGED <<reg, snap, present, ready, bus, faults>>,
         req' \in [chip : Chip, cmd : Commands \cup {Get}, before : SUBSET Setting],
         view' \in [present : BOOLEAN, bits : SUBSET Setting],
         last' \in [Chip -> Commands \cup {Never, Unacked}],
         owner' \in Thread \cup {NoThread}, waiting' \subseteq Thread,
         LockDiscipline',
         bus # "web",
         r.prog # <<>> => place \in {"exec", "refresh"},
         place \in {"exec", "refresh"} =>
           present[r.chip] /\ r.chip = req'.chip /\ req'.cmd # Get,
         place = "refresh" => r.prog \in Seq(QuietOps)
  PROVE  Inv'
<1>1. /\ pc' \in [Thread -> PowerPC \cup WebPC]
      /\ pc'["power"] \in PowerPC /\ pc'["web"] \in WebPC
      /\ run' \in [Thread -> RunState]
      /\ pc'["web"] = place /\ run'["web"] = r
      /\ pc'["power"] = pc["power"] /\ run'["power"] = run["power"]
  BY MoveTypes
<1>2. TypeOK'
  BY <1>1 DEF Inv, TypeOK
<1>3. SearchOrder'
  BY <1>1 DEF Inv, SearchOrder
<1>4. Execution'
  BY <1>1, PowerAssumption DEF Inv, TypeOK, Execution, InProgram
<1> QED
  BY <1>2, <1>3, <1>4 DEF Inv

(* The same with the lock left alone, and with the program left alone.     *)
LEMMA WebKeepsLock ==
  ASSUME Inv, NEW place \in WebPC, NEW r \in RunState,
         pc' = [pc EXCEPT !["web"] = place],
         run' = [run EXCEPT !["web"] = r],
         UNCHANGED <<present, owner, waiting>>,
         "web" \notin waiting,
         owner = "web" <=> place \in {"exec", "refresh"},
         r.prog # <<>> => place \in {"exec", "refresh"} /\ present[r.chip]
  PROVE  LockDiscipline'
<1>1. /\ pc'["web"] = place /\ run'["web"] = r
      /\ pc'["power"] = pc["power"] /\ run'["power"] = run["power"]
  BY MoveTypes
<1>2. OwnerPlaced' /\ WaitersPlaced' /\ HolderOwns'
  BY <1>1 DEF Inv, LockDiscipline, OwnerPlaced, WaitersPlaced, HolderOwns, TypeOK
<1>3. Guarded'
  BY <1>1 DEF Inv, LockDiscipline, Guarded, InProgram
<1> QED
  BY <1>2, <1>3 DEF LockDiscipline

(* Outside its commands the web thread executes nothing. *)
LEMMA WebQuiet ==
  ASSUME Inv, pc["web"] \notin {"exec", "refresh"} \/ ~InProgram("web")
  PROVE  /\ run["web"] \in RunState /\ run["web"].prog = <<>> /\ bus # "web"
         /\ run = [run EXCEPT !["web"] = run["web"]]
         /\ pc["web"] # "lock" => "web" \notin waiting
         /\ pc["web"] \notin {"lock", "exec", "refresh"} => owner # "web"
         /\ owner = "web" => "web" \notin waiting
<1>1. /\ run["web"] \in RunState /\ run["web"].prog = <<>> /\ bus # "web"
      /\ run = [run EXCEPT !["web"] = run["web"]]
  BY PowerAssumption DEF Inv, TypeOK, Execution, InProgram
<1>2. "web" \in waiting => owner # "web" /\ pc["web"] = "lock"
  BY DEF Inv, TypeOK, WebPC, LockDiscipline, WaitersPlaced, LockPC
<1>3. owner = "web" => pc["web"] \in {"lock", "exec", "refresh"}
  BY DEF Inv, LockDiscipline, OwnerPlaced
<1> QED
  BY <1>1, <1>2, <1>3

(* A request arrives. *)
LEMMA RequestInv ==
  ASSUME Inv, NEW c \in Chip, NEW cmd \in Menu[c] \cup {Get}, Request(c, cmd)
  PROVE  Inv'
<1> USE DEF chips, lock, client
<1> DEFINE place == IF ready THEN "lock" ELSE "fail"
<1>1. place \in WebPC /\ place \notin {"exec", "refresh"}
  BY DEF WebPC
<1>2. /\ pc["web"] = "idle"
      /\ pc' = [pc EXCEPT !["web"] = place]
      /\ req' = [NoReq EXCEPT !.chip = c, !.cmd = cmd]
      /\ UNCHANGED <<reg, snap, present, ready, owner, waiting, bus, run, view, faults, last>>
  BY DEF Request
<1>3. req' \in [chip : Chip, cmd : Commands \cup {Get}, before : SUBSET Setting]
  <2>1. cmd \in Commands \cup {Get}
    BY DEF Commands
  <2> QED
    BY <1>2, <2>1 DEF NoReq
<1> HIDE DEF place
<1>4. LockDiscipline'
  BY <1>1, <1>2, WebQuiet, WebKeepsLock
<1> QED
  BY <1>1, <1>2, <1>3, <1>4, WebQuiet, WebInv DEF Inv, TypeOK

(* A request is answered. *)
LEMMA ReplyInv == ASSUME Inv, Reply PROVE Inv'
<1> USE DEF chips, lock, client
<1>1. "idle" \in WebPC
  BY DEF WebPC
<1>2. /\ pc["web"] \in {"ok", "fail"}
      /\ pc' = [pc EXCEPT !["web"] = "idle"]
      /\ req' = NoReq /\ view' = NoView
      /\ UNCHANGED <<reg, snap, present, ready, owner, waiting, bus, run, faults, last>>
  BY DEF Reply
<1>3. /\ req' \in [chip : Chip, cmd : Commands \cup {Get}, before : SUBSET Setting]
      /\ view' \in [present : BOOLEAN, bits : SUBSET Setting]
  BY <1>2 DEF NoReq, NoView
<1>4. LockDiscipline'
  BY <1>1, <1>2, WebQuiet, WebKeepsLock
<1> QED
  BY <1>1, <1>2, <1>3, <1>4, WebQuiet, WebInv DEF Inv, TypeOK

(* tx_mutex_get gives up. *)
LEMMA LockTimeoutInv == ASSUME Inv, LockTimeout PROVE Inv'
<1> USE DEF chips, lock, client
<1>1. "fail" \in WebPC
  BY DEF WebPC
<1>2. /\ "web" \in waiting /\ waiting' = waiting \ {"web"}
      /\ pc' = [pc EXCEPT !["web"] = "fail"]
      /\ UNCHANGED <<reg, snap, present, ready, owner, bus, run, req, view, faults, last>>
  BY DEF LockTimeout, Answer
<1>3. pc["web"] = "lock" /\ owner # "web"
  BY <1>2 DEF Inv, TypeOK, WebPC, LockDiscipline, WaitersPlaced, LockPC
<1>4. pc'["power"] = pc["power"] /\ pc'["web"] = "fail"
  BY <1>2 DEF Inv, TypeOK
<1>5. LockDiscipline'
  BY <1>2, <1>3, <1>4 DEF Inv, LockDiscipline, OwnerPlaced, WaitersPlaced, HolderOwns,
     Guarded, InProgram, TypeOK
<1> QED
  BY <1>1, <1>2, <1>3, <1>5, WebQuiet, WebInv DEF Inv, TypeOK

(* The owner web gives the lock back at the end of a call, its program     *)
(* over.                                                                   *)
LEMMA WebPutsLock ==
  ASSUME Inv, owner = "web", ~InProgram("web"), PutLock,
         NEW place \in {"return", "ok", "fail"}, NEW r \in RunState, r.prog = <<>>,
         pc' = [pc EXCEPT !["web"] = place],
         run' = [run EXCEPT !["web"] = r],
         UNCHANGED <<reg, snap, present, ready, bus, req, faults>>,
         view' \in [present : BOOLEAN, bits : SUBSET Setting],
         last' \in [Chip -> Commands \cup {Never, Unacked}]
  PROVE  Inv'
<1>1. place \in WebPC
  BY DEF WebPC
<1>2. /\ pc' \in [Thread -> PowerPC \cup WebPC]
      /\ pc'["web"] = place /\ run'["web"] = r
      /\ \A u \in Thread : u # "web" => pc'[u] = pc[u] /\ run'[u] = run[u]
  BY <1>1, MoveTypes
<1>3. LockDiscipline'
  BY <1>2, PutLockDiscipline DEF InProgram
<1>4. owner' \in Thread \cup {NoThread} /\ waiting' \subseteq Thread
  BY PutLockShape DEF Inv, TypeOK
<1> QED
  BY <1>1, <1>3, <1>4, WebQuiet, WebInv DEF Inv, TypeOK

(* The snapshot is copied and the lock put. *)
LEMMA CopySnapshotInv == ASSUME Inv, CopySnapshot PROVE Inv'
<1> USE DEF chips, lock, client
<1>1. ~InProgram("web") /\ pc["web"] = "lock"
  BY DEF CopySnapshot, Inv, Execution
<1>2. view' \in [present : BOOLEAN, bits : SUBSET Setting]
  BY DEF CopySnapshot, Inv, TypeOK
<1>3. run' = [run EXCEPT !["web"] = run["web"]]
  BY <1>1, WebQuiet DEF CopySnapshot
<1> QED
  BY <1>1, <1>2, <1>3, WebQuiet, WebPutsLock DEF CopySnapshot, Inv, TypeOK

(* The flag is read after the lock was put. *)
LEMMA CopyReturnInv == ASSUME Inv, CopyReturn PROVE Inv'
<1> USE DEF chips, lock, client
<1> DEFINE place == IF present[req.chip] THEN "ok" ELSE "fail"
<1>1. place \in WebPC /\ place \notin {"exec", "refresh"}
  BY DEF WebPC
<1>2. /\ pc["web"] = "return"
      /\ pc' = [pc EXCEPT !["web"] = place]
      /\ UNCHANGED <<reg, snap, present, ready, owner, waiting, bus, run, req, view, faults, last>>
  BY DEF CopyReturn, Answer
<1> HIDE DEF place
<1>3. LockDiscipline'
  BY <1>1, <1>2, WebQuiet, WebKeepsLock
<1> QED
  BY <1>1, <1>2, <1>3, WebQuiet, WebInv DEF Inv, TypeOK

(* A command for an absent chip. *)
LEMMA CommandAbsentInv == ASSUME Inv, CommandAbsent PROVE Inv'
<1> USE DEF chips, lock, client
<1>1. ~InProgram("web") /\ pc["web"] = "lock"
  BY DEF CommandAbsent, Inv, Execution
<1>2. run' = [run EXCEPT !["web"] = run["web"]]
  BY <1>1, WebQuiet DEF CommandAbsent
<1> QED
  BY <1>1, <1>2, WebQuiet, WebPutsLock DEF CommandAbsent, Answer, Inv, TypeOK

(* A command for a present chip begins. *)
LEMMA CommandStartInv == ASSUME Inv, CommandStart PROVE Inv'
<1> USE DEF chips, lock, client
<1> DEFINE c == req.chip
           p == Command(c, req.cmd[1], req.cmd[2], snap[c])
           r == [Start(c, p) EXCEPT !.ok = (req.cmd[1] # "invalid")]
<1>1. c \in Chip /\ snap[c] \in SUBSET Bit /\ reg[c] \in SUBSET Setting
  BY DEF Inv, TypeOK, Setting
<1>2. p \in Program
  BY <1>1, Programs
<1>3. r \in RunState /\ r.chip = c
  <2>1. Start(c, p) \in RunState /\ Start(c, p).chip = c
    BY <1>1, <1>2, FreshRun DEF Start, Idle
  <2> QED
    BY <2>1 DEF RunState
<1>4. /\ pc["web"] = "lock" /\ owner = "web" /\ present[c] /\ req.cmd # Get
      /\ run' = [run EXCEPT !["web"] = r]
      /\ pc' = [pc EXCEPT !["web"] = "exec"]
      /\ req' = [req EXCEPT !.before = reg[c]]
      /\ last' = [last EXCEPT ![c] = Unacked]
      /\ UNCHANGED <<reg, snap, present, ready, owner, waiting, bus, view, faults>>
  BY DEF CommandStart
<1> HIDE DEF p, r
<1>5. /\ req' \in [chip : Chip, cmd : Commands \cup {Get}, before : SUBSET Setting]
      /\ last' \in [Chip -> Commands \cup {Never, Unacked}]
      /\ req'.chip = c /\ req'.cmd = req.cmd
  BY <1>1, <1>4 DEF Inv, TypeOK
<1>6. "exec" \in WebPC
  BY DEF WebPC
<1>7. "web" \notin waiting /\ bus # "web"
  BY <1>4, WebQuiet
<1>8. LockDiscipline'
  BY <1>3, <1>4, <1>6, <1>7, WebKeepsLock
<1> QED
  BY <1>3, <1>4, <1>5, <1>6, <1>7, <1>8, WebInv DEF Inv, TypeOK

(* The driver calls of a command are over. *)
LEMMA CommandDoneInv == ASSUME Inv, CommandDone PROVE Inv'
<1> USE DEF chips, lock, client
<1> DEFINE c == run["web"].chip
           r == IF run["web"].ok THEN Start(c, Refresh(c)) ELSE Idle(c)
<1>0. /\ c \in Chip /\ pc["web"] = "exec" /\ ~InProgram("web")
      /\ owner = "web" /\ present[c] /\ c = req.chip /\ req.cmd # Get
  BY DEF CommandDone, Inv, TypeOK, RunState, LockDiscipline, HolderOwns, Execution
<1>1. /\ r \in RunState /\ r.chip = c
      /\ run["web"].ok => r.prog \in Seq(QuietOps)
      /\ ~run["web"].ok => r.prog = <<>>
  BY <1>0, StartShape
<1>2. /\ run' = [run EXCEPT !["web"] = r]
      /\ UNCHANGED <<reg, snap, present, ready, bus, req, view, faults>>
      /\ run["web"].ok => /\ pc' = [pc EXCEPT !["web"] = "refresh"]
                          /\ last' = [last EXCEPT ![c] = req.cmd]
                          /\ UNCHANGED <<owner, waiting>>
      /\ ~run["web"].ok => /\ pc' = [pc EXCEPT !["web"] = "fail"]
                           /\ PutLock
                           /\ UNCHANGED last
  BY DEF CommandDone, Answer
<1> HIDE DEF r
<1>3. CASE run["web"].ok
  <2>1. "refresh" \in WebPC
    BY DEF WebPC
  <2>2. last' \in [Chip -> Commands \cup {Never, Unacked}]
    <3>1. req.cmd \in Commands
      BY <1>0 DEF Inv, TypeOK, Execution
    <3> QED
      BY <1>0, <1>2, <1>3, <3>1 DEF Inv, TypeOK
  <2>3. LockDiscipline'
    BY <1>0, <1>1, <1>2, <1>3, <2>1, WebQuiet, WebKeepsLock
  <2> QED
    BY <1>0, <1>1, <1>2, <1>3, <2>1, <2>2, <2>3, WebQuiet, WebInv, ZenonT(60) DEF Inv, TypeOK
<1>4. CASE ~run["web"].ok
  BY <1>0, <1>1, <1>2, <1>4, WebPutsLock, ZenonT(60) DEF Inv, TypeOK
<1> QED
  BY <1>3, <1>4

(* The refresh after a command is over. *)
LEMMA CommandRefreshedInv == ASSUME Inv, CommandRefreshed PROVE Inv'
<1> USE DEF chips, lock, client
<1> DEFINE c == run["web"].chip
           r == Idle(c)
<1>0. c \in Chip /\ owner = "web" /\ ~InProgram("web")
  BY DEF CommandRefreshed, Inv, TypeOK, RunState, LockDiscipline, HolderOwns
<1>1. r \in RunState /\ r.prog = <<>>
  BY <1>0, StartShape
<1>2. /\ run' = [run EXCEPT !["web"] = r]
      /\ pc' = [pc EXCEPT !["web"] = "ok"]
      /\ PutLock
      /\ UNCHANGED <<reg, snap, present, ready, bus, req, view, faults, last>>
  BY DEF CommandRefreshed, Answer
<1> HIDE DEF r
<1> QED
  BY <1>0, <1>1, <1>2, WebPutsLock DEF Inv, TypeOK

-----------------------------------------------------------------------------
(* The theorems *)

(* The steps of the power thread. *)
LEMMA PowerStepInv == ASSUME Inv, PowerStep PROVE Inv'
<1>1. CASE TakeLock("power")
  BY <1>1, TakeLockInv
<1>2. CASE Bus("power")
  BY <1>2, BusInv
<1>3. CASE OpenBus \/ InitDone \/ Publish \/ PublishDone \/ NapOver
  BY <1>3, OpenBusInv, InitDoneInv, PublishInv, PublishDoneInv, NapOverInv
<1>4. CASE SampleStart \/ SampleNext \/ SleepOver
  BY <1>4, SampleStartInv, SampleNextInv, SleepOverInv
<1> QED
  BY <1>1, <1>2, <1>3, <1>4 DEF PowerStep

(* The steps of the web thread. *)
LEMMA WebStepInv == ASSUME Inv, WebStep PROVE Inv'
<1>1. CASE TakeLock("web")
  BY <1>1, TakeLockInv
<1>2. CASE Bus("web")
  BY <1>2, BusInv
<1>3. CASE CopySnapshot \/ CopyReturn \/ Reply
  BY <1>3, CopySnapshotInv, CopyReturnInv, ReplyInv
<1>4. CASE CommandAbsent \/ CommandStart \/ CommandDone \/ CommandRefreshed
  BY <1>4, CommandAbsentInv, CommandStartInv, CommandDoneInv, CommandRefreshedInv
<1> QED
  BY <1>1, <1>2, <1>3, <1>4 DEF WebStep

(* A step that changes nothing. *)
LEMMA StutterInv == ASSUME Inv, UNCHANGED vars PROVE Inv'
  BY DEF vars, Inv, TypeOK, LockDiscipline, OwnerPlaced, WaitersPlaced, HolderOwns,
     Guarded, SearchOrder, Execution, InProgram

(* Inv is inductive. *)
LEMMA NextInv == Inv /\ [Next]_vars => Inv'
<1> SUFFICES ASSUME Inv, [Next]_vars PROVE Inv'
  OBVIOUS
<1>1. CASE Client
  <2> PICK c \in Chip : \E cmd \in Menu[c] \cup {Get} : Request(c, cmd)
    BY <1>1 DEF Client
  <2> PICK cmd \in Menu[c] \cup {Get} : Request(c, cmd)
    OBVIOUS
  <2> QED
    BY RequestInv
<1>2. CASE LockTimeout
  BY <1>2, LockTimeoutInv
<1> QED
  BY <1>1, <1>2, PowerStepInv, WebStepInv, StutterInv DEF Next

(* In every reachable state the variables have their types (the driver     *)
(* programs are well-formed whatever the menus of commands, and no         *)
(* register holds the reset bit), power_lock is used as it should be, the  *)
(* search keeps its order, and programs run only where the code runs them. *)
THEOREM Inductive == Spec => []Inv
  BY InitInv, NextInv, PTL DEF Spec

(* power_lock is owned exactly where power.c holds it, on every path       *)
(* through the early returns, timeouts and failures; and whoever drives a  *)
(* published chip owns it.                                                 *)
THEOREM LockSafe == Spec => []LockDiscipline
<1>1. Inv => LockDiscipline
  BY DEF Inv
<1> QED
  BY <1>1, Inductive, PTL

(* The two threads never drive the same chip at a time.                    *)
LEMMA InvExclusive == Inv => DeviceExclusive
<1> SUFFICES ASSUME Inv, NEW c \in Chip, \A t \in Thread : InProgram(t) /\ run[t].chip = c
             PROVE  FALSE
  BY DEF DeviceExclusive
<1>1. owner = "web" /\ present[c]
  BY DEF Inv, LockDiscipline, Guarded
<1>2. owner = "power" \/ ~present[c]
  BY DEF Inv, LockDiscipline, Guarded
<1> QED
  BY <1>1, <1>2

(* One chip is never driven by two threads at a time, although the search  *)
(* initialises chips without power_lock.                                   *)
THEOREM Exclusive == Spec => []DeviceExclusive
  BY InvExclusive, Inductive, PTL

(* The order of the search holds whatever fails: a chip is initialised     *)
(* only while it is not published, and the search ends only with a chip.   *)
THEOREM SearchOrdered == Spec => []SearchOrder
<1>1. Inv => SearchOrder
  BY DEF Inv
<1> QED
  BY <1>1, Inductive, PTL

-----------------------------------------------------------------------------
(* No lost update *)

(* What a thread has read stays what the register holds as long as nobody  *)
(* writes and the program is left alone, ended or begun anew.              *)
LEMMA RmwKept ==
  ASSUME RmwFresh, reg' = reg,
         \A t \in Thread : \/ run'[t] = run[t]
                           \/ ~run'[t].rmw
                           \/ run'[t].prog = <<>>
  PROVE  RmwFresh'
  BY DEF RmwFresh, InProgram, Held, NextOp

(* Going on with a program, dropping or starting one, nothing is in hand.  *)
LEMMA NothingInHand ==
  ASSUME Inv, NEW t \in Thread, NEW r,
         run' = [run EXCEPT ![t] = r], ~r.rmw
  PROVE  \A u \in Thread : run'[u] = run[u] \/ ~run'[u].rmw
  BY DEF Inv, TypeOK

(* After an access nothing is in hand. *)
LEMMA AdvanceInHand ==
  ASSUME Inv, NEW t \in Thread
  PROVE  ~Advance(t).rmw /\ ~AfterError(t).rmw
<1>1. run[t] \in RunState
  BY DEF Inv, TypeOK
<1> QED
  BY <1>1 DEF Advance, AfterError, RunState

(* At the begin of a program nothing is in hand. *)
LEMMA StartInHand ==
  \A c, p, b : ~Start(c, p).rmw /\ ~Idle(c).rmw /\ ~[Start(c, p) EXCEPT !.ok = b].rmw
  BY DEF Start, Idle

(* Nor after the next step of the search. *)
LEMMA AfterChipRmw ==
  ASSUME Inv, NEW c, AfterChip(c)
  PROVE  \A u \in Thread : run'[u] = run[u] \/ ~run'[u].rmw
<1>1. CASE c = "shp"
  BY <1>1, NothingInHand, StartInHand DEF AfterChip
<1>2. CASE c # "shp"
  BY <1>2, NothingInHand, StartInHand DEF AfterChip
<1> QED
  BY <1>1, <1>2

(* Off the bus no register changes and no thread gets a value in hand. *)
LEMMA OffBus ==
  ASSUME Inv, [Next]_vars, ~Bus("power"), ~Bus("web")
  PROVE  /\ reg' = reg
         /\ \A u \in Thread : run'[u] = run[u] \/ ~run'[u].rmw
<1> USE DEF chips, lock, client
<1> DEFINE Kept == reg' = reg /\ \A u \in Thread : run'[u] = run[u] \/ ~run'[u].rmw
<1>1. CASE UNCHANGED vars \/ Client \/ LockTimeout \/ TakeLock("power") \/ TakeLock("web")
  BY <1>1 DEF vars, Client, Request, LockTimeout, TakeLock
<1>2. CASE OpenBus \/ Publish \/ NapOver \/ SampleStart \/ SleepOver
  <2>1. CASE OpenBus
    BY <2>1, NothingInHand, StartInHand DEF OpenBus
  <2>2. CASE Publish
    BY <2>2, NothingInHand, StartInHand DEF Publish
  <2>3. CASE NapOver
    BY <2>3, NothingInHand, StartInHand DEF NapOver
  <2>4. CASE SampleStart
    BY <2>4, NothingInHand, StartInHand DEF SampleStart
  <2>5. CASE SleepOver
    BY <2>5 DEF SleepOver
  <2> QED
    BY <1>2, <2>1, <2>2, <2>3, <2>4, <2>5
<1>3. CASE InitDone \/ PublishDone \/ SampleNext
  <2>1. CASE InitDone
    BY <2>1, AfterChipRmw DEF InitDone
  <2>2. CASE PublishDone
    BY <2>2, AfterChipRmw DEF PublishDone
  <2>3. CASE SampleNext
    BY <2>3, NothingInHand, StartInHand DEF SampleNext
  <2> QED
    BY <1>3, <2>1, <2>2, <2>3
<1>4. CASE CopySnapshot \/ CopyReturn \/ CommandAbsent \/ Reply
  BY <1>4 DEF CopySnapshot, CopyReturn, CommandAbsent, Reply
<1>5. CASE CommandStart
  BY <1>5, NothingInHand, StartInHand DEF CommandStart
<1>6. CASE CommandDone \/ CommandRefreshed
  BY <1>6, NothingInHand, StartInHand DEF CommandDone, CommandRefreshed
<1> QED
  BY <1>1, <1>2, <1>3, <1>4, <1>5, <1>6 DEF Next, PowerStep, WebStep

(* On the bus a thread changes only the chip it drives, with the value it  *)
(* has in hand.                                                            *)
BusWrite(t) == InProgram(t) /\ Writes(t) /\ StoreOp(t)

(* What a step on the bus does to the registers and to the value in hand. *)
LEMMA OnBus ==
  ASSUME Inv, NEW t \in Thread, Bus(t)
  PROVE  /\ reg' = reg \/ BusWrite(t)
         /\ \/ ~run'[t].rmw
            \/ /\ reg' = reg /\ run'[t].prog = run[t].prog /\ run'[t].chip = run[t].chip
               /\ run'[t].cur = Held(run[t].chip, NextOp(t).reg)
            \/ reg' = reg /\ run'[t] = run[t]
<1> USE DEF chips
<1>0. run \in [Thread -> RunState] /\ run[t] \in RunState /\ InProgram(t)
  BY SkipKickShape, BeginShape, TransferShape, FailShape DEF Bus, BusShape, Inv, TypeOK
<1>1. CASE SkipKick(t) \/ BeginTransfer(t)
  BY <1>0, <1>1, AdvanceInHand DEF SkipKick, BeginTransfer
<1>2. CASE Transfer(t)
  <2>1. CASE run' = [run EXCEPT ![t] = Advance(t)]
    BY <1>0, <1>2, <2>1, AdvanceInHand DEF Transfer, BusWrite
  <2>2. CASE /\ run' = [run EXCEPT ![t].rmw = TRUE,
                                   ![t].cur = Held(run[t].chip, NextOp(t).reg)]
             /\ reg' = reg
    <3>1. /\ run'[t].prog = run[t].prog /\ run'[t].chip = run[t].chip
          /\ run'[t].cur = Held(run[t].chip, NextOp(t).reg)
      BY <1>0, <2>2 DEF RunState
    <3> QED
      BY <2>2, <3>1
  <2> QED
    BY <1>2, <2>1, <2>2 DEF Transfer
<1>3. CASE FailTransfer(t)
  BY <1>0, <1>3, AdvanceInHand DEF FailTransfer, BusWrite
<1> QED
  BY <1>1, <1>2, <1>3 DEF Bus

(* A step on the bus: the other thread drives the other chip. *)
LEMMA RmwOnBus == ASSUME Inv, RmwFresh, NEW t \in Thread, Bus(t) PROVE RmwFresh'
<1>1. BusShape(t)
  BY SkipKickShape, BeginShape, TransferShape, FailShape DEF Bus
<1>2. SUFFICES ASSUME NEW u \in Thread, run'[u].prog # <<>>, run'[u].rmw
               PROVE  run'[u].cur = reg'[run'[u].chip]
                                      \cap BitsOf(run'[u].chip, Head(run'[u].prog).reg)
  BY DEF RmwFresh, InProgram, Held, NextOp
<1>3. CASE u # t
  <2>1. run'[u] = run[u] /\ InProgram(u) /\ InProgram(t)
    BY <1>1, <1>2, <1>3 DEF BusShape, InProgram
  <2>2. run[u].chip # run[t].chip
    BY <1>3, <2>1, InvExclusive DEF DeviceExclusive, Inv, TypeOK, RunState
  <2>3. reg'[run[u].chip] = reg[run[u].chip]
    <3>1. reg \in [Chip -> SUBSET Setting] /\ run[u].chip \in Chip
      BY DEF Inv, TypeOK, RunState
    <3>2. CASE StoreOp(t)
      BY <2>2, <3>1, <3>2 DEF StoreOp
    <3> QED
      BY <3>2, OnBus DEF BusWrite
  <2> QED
    BY <1>2, <2>1, <2>3 DEF RmwFresh, Held, NextOp
<1>4. CASE u = t
  BY <1>1, <1>2, <1>4, OnBus DEF RmwFresh, InProgram, Held, NextOp, BusShape
<1> QED
  BY <1>3, <1>4

(* RmwFresh is inductive relative to Inv. *)
LEMMA RmwNext == Inv /\ RmwFresh /\ [Next]_vars => RmwFresh'
<1> SUFFICES ASSUME Inv, RmwFresh, [Next]_vars PROVE RmwFresh'
  OBVIOUS
<1>1. CASE Bus("power") \/ Bus("web")
  BY <1>1, RmwOnBus
<1>2. CASE ~Bus("power") /\ ~Bus("web")
  BY <1>2, OffBus, RmwKept
<1> QED
  BY <1>1, <1>2

(* Nothing is in hand at first. *)
LEMMA InitRmw == Init => RmwFresh
  BY NothingRuns DEF Init, RmwFresh, InProgram

(* Between the read and the write of an update8 the register keeps the     *)
(* value that was read: the write puts back no bit another thread changed. *)
THEOREM NoLostUpdate == Spec => []RmwFresh
<1>1. Init => Inv /\ RmwFresh
  BY InitInv, InitRmw
<1>2. Inv /\ RmwFresh /\ [Next]_vars => (Inv /\ RmwFresh)'
  BY NextInv, RmwNext
<1> QED
  BY <1>1, <1>2, PTL DEF Spec

-----------------------------------------------------------------------------
(* Who writes a published chip *)

(* A quiet access writes back the register as it was read. *)
LEMMA QuietWrite ==
  ASSUME Inv, RmwFresh, NEW t \in Thread, BusWrite(t), run[t].prog \in Seq(QuietOps)
  PROVE  reg' = reg
<1> DEFINE c == run[t].chip
           op == NextOp(t)
<1>1. op \in QuietOps
  BY HeadTailProperties DEF BusWrite, InProgram, NextOp
<1>2. run[t].cur = reg[c] \cap BitsOf(c, op.reg)
  BY <1>1 DEF BusWrite, Writes, QuietOps, RmwFresh, Held
<1>3. Merge(op, run[t].cur) = run[t].cur
  BY <1>1 DEF Merge, QuietOps
<1>4. reg \in [Chip -> SUBSET Setting] /\ c \in Chip
  BY DEF Inv, TypeOK, RunState
<1>5. "REG_RST" \notin run[t].cur
  BY <1>2, <1>4 DEF Setting
<1>6. Stored(c, op.reg, run[t].cur) = reg[c]
  BY <1>2, <1>5 DEF Stored
<1> QED
  BY <1>3, <1>4, <1>6 DEF BusWrite, StoreOp

(* A published chip only changes while web, owning power_lock, executes a  *)
(* command for it.                                                         *)
LEMMA WritesByCommand ==
  ASSUME Inv, RmwFresh, [Next]_vars, NEW c \in Chip, present[c], reg'[c] # reg[c]
  PROVE  pc["web"] = "exec" /\ run["web"].chip = c /\ owner = "web"
<1>1. PICK t \in Thread : Bus(t)
  BY OffBus
<1>2. BusWrite(t)
  BY <1>1, OnBus
<1>3. run[t].chip = c
  BY <1>2 DEF BusWrite, StoreOp, Inv, TypeOK
<1>4. run[t].prog \notin Seq(QuietOps)
  BY <1>2, QuietWrite
<1>5. owner = t
  BY <1>2, <1>3 DEF BusWrite, Inv, LockDiscipline, Guarded
<1>6. t = "web"
  BY <1>2, <1>4, <1>5 DEF BusWrite, Inv, Execution, LockDiscipline, OwnerPlaced
<1> QED
  BY <1>2, <1>3, <1>4, <1>5, <1>6 DEF BusWrite, Inv, Execution

(* Sampling, publishing and the watchdog kick never change a register of a *)
(* present chip; a failed transfer in the middle of them does not either.  *)
THEOREM QuietSampling == Spec => OnlyCommandsWrite
<1>1. Init => Inv /\ RmwFresh
  BY InitInv, InitRmw
<1>2. Inv /\ RmwFresh /\ [Next]_vars => (Inv /\ RmwFresh)'
  BY NextInv, RmwNext
<1>3. Inv /\ RmwFresh /\ [Next]_vars =>
        [\A c \in Chip : present[c] /\ reg'[c] # reg[c] =>
           pc["web"] = "exec" /\ run["web"].chip = c /\ owner = "web"]_vars
  BY WritesByCommand
<1> QED
  BY <1>1, <1>2, <1>3, PTL DEF Spec, OnlyCommandsWrite
==============================================================================
