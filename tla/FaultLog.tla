------------------------------ MODULE FaultLog -------------------------------
(***************************************************************************)
(* The fault latches and the fault log of one charger: refresh_locked and  *)
(* log_event (BQ25756), shp_refresh_locked and shp_log_event (SHP8808) and *)
(* the command "clear_latch", all in src/modules/power/power.c.            *)
(*                                                                         *)
(* A fault is a pair <<kind, bit>>: the register it is reported in and its *)
(* bit. One refresh reads the flags, then (SHP8808) clears the sticky      *)
(* ones, then reads the status and the ADC, one step per bus transaction:  *)
(* the chip may raise a fault between any two. Refreshes and clear_latch   *)
(* exclude each other by power_lock (module Power).                        *)
(***************************************************************************)
EXTENDS Naturals, Sequences, Functions

CONSTANTS
  Fault,      \* Fault[c]: the faults <<kind, bit>> of charger c not masked out
  ReadClear,  \* ReadClear[c]: those that the chip clears when they are read
  LogMax,     \* POWER_FAULT_LOG_MAX
  MaxErrors   \* bound on failed transactions

Charger == {"bq", "shp"}

ASSUME FaultLogAssumption ==
  /\ Fault \in [Charger -> SUBSET ((0..3) \X (0..7))]
  /\ \A c \in Charger : ReadClear[c] \subseteq Fault[c]
  /\ LogMax \in Nat \ {0}
  /\ MaxErrors \in Nat

VARIABLES
  charger,  \* the charger this is the log of
  chip,     \* the faults the chip reports
  latch,    \* the latch_* bytes of the snapshot
  log,      \* snap.log[0 .. log_count - 1]; an event is the set of its faults
  pc,       \* the next transaction of the refresh, or "idle"
  flags,    \* what read_and_clear_flags has read
  errors,   \* failed transactions so far
  history,  \* history: every event logged since the last clear_latch
  seen      \* history: every fault that a read meant for the latches returned since

vars == <<charger, chip, latch, log, pc, flags, errors, history, seen>>

(* The BQ25756 reports flags in kinds 1 to 3 and the fault status as kind  *)
(* 0; the SHP8808 has no separate flags, its kinds are STATUS0 to STATUS2. *)
FlagKinds   == IF charger = "bq" THEN <<1, 2, 3>> ELSE <<0, 1, 2>>
StatusKinds == IF charger = "bq" THEN <<0>> ELSE <<>>

OfKinds(F, kinds) == {f \in F : f[1] \in Range(kinds)}

Init ==
  /\ charger \in Charger
  /\ chip \in SUBSET Fault[charger]
  /\ latch = {}
  /\ log = <<>>
  /\ pc = "idle"
  /\ flags = {}
  /\ errors = 0
  /\ history = <<>>
  /\ seen = {}

-----------------------------------------------------------------------------
(* Mutant: the oldest event stays when the log is full. *)
PutEventKeepOldest(l, e) == IF e = {} \/ Len(l) = LogMax THEN l ELSE Append(l, e)

(* log_event: no bit, no event; a full log loses its oldest event. *)
PutEvent(l, e) ==
  IF e = {} THEN l
  ELSE IF Len(l) < LogMax THEN Append(l, e) ELSE Append(Tail(l), e)

Note(h, e) == IF e = {} THEN h ELSE Append(h, e)

(* What log_event is given for each kind: its rising bits. *)
Rises(F, kinds) ==
  [i \in 1..3 |-> IF i \in DOMAIN kinds THEN OfKinds(F \ latch, <<kinds[i]>>) ELSE {}]

Log(e) ==
  /\ log' = PutEvent(PutEvent(PutEvent(log, e[1]), e[2]), e[3])
  /\ history' = Note(Note(Note(history, e[1]), e[2]), e[3])

(* Mutant: the latch is assigned. *)
LatchAssigned(F, kinds) ==
  /\ latch' = F
  /\ Log(Rises(F, kinds))

(* rise = bits & ~latch; latch |= bits; log_event(kind, rise) per kind. *)
Latch(F, kinds) ==
  /\ latch' = latch \cup F
  /\ Log(Rises(F, kinds))

Keep == UNCHANGED <<latch, log, history>>

(* A transaction that reads the faults F, and one that fails; a failed one *)
(* may have reached the chip, which then clears what was read.             *)
Reads(F) == chip' = chip \ (F \cap ReadClear[charger])

Fails(F) == /\ errors < MaxErrors
            /\ errors' = errors + 1
            /\ \/ UNCHANGED chip
               \/ Reads(F)

-----------------------------------------------------------------------------
(* The chip *)

Raise(f) ==
  /\ f \notin chip
  /\ chip' = chip \cup {f}
  /\ UNCHANGED <<charger, latch, log, pc, flags, errors, history, seen>>

(* Only a fault that reading does not clear can go away by itself. *)
Fall(f) ==
  /\ f \in chip \ ReadClear[charger]
  /\ chip' = chip \ {f}
  /\ UNCHANGED <<charger, latch, log, pc, flags, errors, history, seen>>

(* read_and_clear_flags, first transaction: on the BQ25756 the only one. *)
ReadFlags ==
  LET F == OfKinds(chip, FlagKinds)
  IN
  /\ pc = "idle"
  /\ \/ /\ Reads(F)
        /\ \/ /\ charger = "bq"
              /\ Latch(F, FlagKinds)
              /\ pc' = "status"
              /\ UNCHANGED flags
           \/ /\ charger = "shp"
              /\ flags' = F
              /\ pc' = "clear"
              /\ Keep
        /\ UNCHANGED errors
        /\ seen' = seen \cup F
     \/ /\ Fails(F)
        /\ pc' = "status"
        /\ Keep /\ UNCHANGED <<flags, seen>>
  /\ UNCHANGED charger

(* The SHP8808 driver then clears the sticky bits of STATUS1 with update8, *)
(* whose read clears them too; if that fails the flags are not used.       *)
ClearSticky ==
  LET sticky == OfKinds(chip, <<1>>) \cap ReadClear[charger]
  IN
  /\ pc = "clear"
  /\ \/ /\ Reads(sticky)
        /\ Latch(flags, FlagKinds)
        /\ UNCHANGED errors
     \/ /\ Fails(sticky)
        /\ Keep
  /\ pc' = "status"
  /\ flags' = {}
  /\ UNCHANGED <<charger, seen>>

(* Mutant: the fault status is shown but not latched. *)
ReadStatusUnlatched ==
  /\ pc = "status"
  /\ pc' = "idle"
  /\ Reads(IF charger = "bq" THEN {} ELSE chip)
  /\ Keep /\ UNCHANGED <<charger, flags, errors, seen>>

(* read_status, then adc_read. The BQ25756 latches the fault status only   *)
(* after both have succeeded; the SHP8808 does not latch it.               *)
ReadStatus ==
  LET F == IF charger = "bq" THEN OfKinds(chip, StatusKinds) ELSE chip
  IN
  /\ pc = "status"
  /\ pc' = "idle"
  /\ \/ /\ Reads(F)
        /\ IF charger = "bq" THEN Latch(F, StatusKinds) /\ seen' = seen \cup F
                             ELSE Keep /\ UNCHANGED seen
        /\ UNCHANGED errors
     \/ /\ Fails(F)
        /\ Keep /\ UNCHANGED seen
  /\ UNCHANGED <<charger, flags>>

ClearLatch ==
  /\ pc = "idle"
  /\ latch' = {}
  /\ log' = <<>>
  /\ history' = <<>>
  /\ seen' = {}
  /\ UNCHANGED <<charger, chip, pc, flags, errors>>

Next ==
  \/ \E f \in Fault[charger] : Raise(f) \/ Fall(f)
  \/ ReadFlags \/ ClearSticky \/ ReadStatus
  \/ ClearLatch

Spec == Init /\ [][Next]_vars

(* The sampling loop of the power thread keeps refreshing. *)
FairSpec == Spec /\ WF_vars(ReadFlags \/ ClearSticky \/ ReadStatus)

-----------------------------------------------------------------------------
(* The type of every variable; the log never exceeds its array, and no     *)
(* event is empty.                                                         *)
TypeOK ==
  /\ charger \in Charger
  /\ chip \subseteq Fault[charger] /\ latch \subseteq Fault[charger]
  /\ flags \subseteq Fault[charger] /\ seen \subseteq Fault[charger]
  /\ log \in Seq((SUBSET Fault[charger]) \ {{}}) /\ Len(log) <= LogMax
  /\ pc \in {"idle", "clear", "status"}
  /\ errors \in 0..MaxErrors

(* The log is exactly the most recent events, oldest first: shifting the   *)
(* array when it is full loses the oldest event and nothing else.          *)
LogIsRecent ==
  log = IF Len(history) <= LogMax THEN history
        ELSE SubSeq(history, Len(history) - LogMax + 1, Len(history))

(* Between two clear_latch commands a fault is logged once, however often  *)
(* the chip reports it.                                                    *)
LoggedOnce ==
  \A i, j \in DOMAIN history : i # j => history[i] \cap history[j] = {}

(* The latches are the union of all logged events: a fault is latched iff  *)
(* an event has announced it.                                              *)
LatchIsLogged == latch = UNION Range(history)

(* What the readers of the log rely on.                                    *)
LogSound == TypeOK /\ LogIsRecent /\ LoggedOnce /\ LatchIsLogged

(* If no transaction fails, every fault that was read to be latched is     *)
(* latched when the refresh is over, and stays so until clear_latch. (The  *)
(* last read of the SHP8808 is not meant for the latches: a sticky fault   *)
(* raised after the first one is cleared unlatched.)                       *)
NothingLost == errors = 0 /\ pc = "idle" => seen \subseteq latch

(* A fault that lasts is latched in the end, whichever transactions fail   *)
(* before, clear_latch or not.                                             *)
LastingFaultLatched ==
  \A c \in Charger : \A f \in Fault[c] \ ReadClear[c] :
    charger = c /\ f \in chip ~> f \in latch \/ f \notin chip
==============================================================================
