------------------------------- MODULE Power --------------------------------
(***************************************************************************)
(* The power module (src/modules/power/power.c): the sampling thread       *)
(* "power", which looks for the two charger chips and then samples them,   *)
(* and the HTTP thread "web", which reads the snapshots and sends          *)
(* commands.  Both talk to the chips over one I2C bus with polling         *)
(* transfers; power_lock guards the snapshots and every use of a chip that *)
(* is already present.  A chip is initialised WITHOUT the lock, before it  *)
(* is published as present.                                                *)
(*                                                                         *)
(* Every bus transfer is two steps, so that a thread can be preempted in   *)
(* the middle of one; the other thread then finds the bus busy and its     *)
(* transfer fails at once (HAL_BUSY).                                      *)
(***************************************************************************)
EXTENDS ChargerOps, Naturals

CONSTANTS
  Fitted,     \* the chips that answer on the bus
  Boot,       \* Boot[c]: what chip c may hold when the firmware starts
  Por,        \* Por[c]: what a register reset leaves in chip c
  Menu,       \* Menu[c]: the commands <<name, on>> that clients send to chip c
  MaxFaults,  \* bound on failed transfers to a fitted chip
  Prio,       \* thread priorities, a smaller number runs first
  NoThread

Thread == {"power", "web"}

ASSUME PowerAssumption ==
  /\ Fitted \subseteq Chip
  /\ Boot \in [Chip -> SUBSET SUBSET Setting]
  /\ Por \in [Chip -> SUBSET Setting]
  /\ \A c \in Chip : (UNION Boot[c]) \cup Por[c] \subseteq SettingsOf(c)
  /\ Menu \in [Chip -> SUBSET (STRING \X BOOLEAN)]
  /\ MaxFaults \in Nat
  /\ Prio \in [Thread -> Nat]
  /\ NoThread \notin Thread

(* WEB_THREAD_PRIORITY is 8, POWER_THREAD_PRIORITY is 11.                  *)
ASSUME PrioAssumption == Prio["web"] < Prio["power"]

VARIABLES
  reg,      \* reg[c]: the bits that are 1 in chip c
  snap,     \* snap[c]: the configuration bits in the chip's snapshot
  present,  \* present[c]: snap.present / shp_snap.present
  ready,    \* power_ready
  owner,    \* the owner of power_lock
  waiting,  \* threads suspended on power_lock
  bus,      \* the thread whose transfer is on the wire
  pc,       \* where each thread is
  run,      \* the driver program each thread is executing
  req,      \* the request the web thread is serving
  view,     \* what the GET being served copied out (zeroed at first)
  faults,   \* failed transfers so far
  last      \* history: last[c] is the last command sent to chip c, once it
            \* has succeeded

vars == <<reg, snap, present, ready, owner, waiting, bus, pc, run, req,
          view, faults, last>>

chips   == <<reg, snap, present, ready>>
lock    == <<owner, waiting>>
client  == <<req, view>>

Get     == <<"get", FALSE>>
Never   == <<"never", FALSE>>      \* no command was ever sent
Unacked == <<"unacked", FALSE>>    \* the last one is running, or failed

(* The three are no commands that a client can send.                       *)
ASSUME MenuAssumption ==
  \A c \in Chip : Menu[c] \cap {Get, Never, Unacked} = {}

NoReq   == [chip |-> "shp", cmd |-> Get, before |-> {}]
NoView  == [present |-> FALSE, bits |-> {}]

PowerPC == {"open", "dead", "init", "publish_lock", "publish", "nap",
            "sample_lock", "sample", "sleep"}
WebPC   == {"idle", "lock", "exec", "refresh", "return", "ok", "fail"}

Commands == UNION {Menu[c] : c \in Chip}

(* No program is running.                                                  *)
Idle(c) == [chip |-> c, prog |-> <<>>, rmw |-> FALSE, cur |-> {}, ok |-> TRUE]
Start(c, p) == [Idle(c) EXCEPT !.prog = p]

Init ==
  /\ \E s \in Boot["shp"], b \in Boot["bq"] :
       reg = [c \in Chip |-> IF c = "shp" THEN s ELSE b]
  /\ snap = [c \in Chip |-> {}]
  /\ present = [c \in Chip |-> FALSE]
  /\ ready = FALSE
  /\ owner = NoThread
  /\ waiting = {}
  /\ bus = NoThread
  /\ pc = [t \in Thread |-> IF t = "power" THEN "open" ELSE "idle"]
  /\ run = [t \in Thread |-> Idle("shp")]
  /\ req = NoReq
  /\ view = NoView
  /\ faults = 0
  /\ last = [c \in Chip |-> Never]

-----------------------------------------------------------------------------
(* Scheduling: ThreadX runs the most urgent thread that is not suspended.  *)
Runnable(t) ==
  /\ t \notin waiting
  /\ pc[t] \notin {"dead", "nap", "sleep", "idle"}

(* power_lock inherits priorities: while web waits, its owner is as urgent *)
(* as web (which nothing shows, for web waits) and stays so after web has  *)
(* given up, until the mutex is put.                                       *)
Inherits(t) == t = "power" /\ owner = t /\ pc["web"] = "fail"

Urgency(t) ==
  IF Inherits(t) /\ Prio["web"] < Prio[t] THEN Prio["web"] ELSE Prio[t]

(* Mutant: the priorities are ignored. *)
CanRunAny(t) == Runnable(t)

CanRun(t) ==
  /\ Runnable(t)
  /\ \A u \in Thread : Runnable(u) => Urgency(t) <= Urgency(u)

(* power_lock: tx_mutex_get suspends the caller when the mutex is owned;   *)
(* tx_mutex_put hands the mutex to the suspended thread, if there is one.  *)
LockPC == {"publish_lock", "sample_lock", "lock"}

TakeLock(t) ==
  /\ CanRun(t)
  /\ pc[t] \in LockPC
  /\ owner # t
  /\ IF owner = NoThread
     THEN owner' = t /\ UNCHANGED waiting
     ELSE waiting' = waiting \cup {t} /\ UNCHANGED owner
  /\ UNCHANGED <<chips, bus, pc, run, client, faults, last>>

(* Mutant: the mutex is released but the suspended thread is not resumed. *)
PutLockNoWake == owner' = NoThread /\ UNCHANGED waiting

PutLock ==
  IF waiting = {} THEN owner' = NoThread /\ UNCHANGED waiting
  ELSE \E t \in waiting : owner' = t /\ waiting' = waiting \ {t}

-----------------------------------------------------------------------------
(* Running a driver program, one bus transfer at a time.                   *)
InProgram(t) == run[t].prog # <<>>
NextOp(t)    == Head(run[t].prog)

(* update8 (and the kick) writes only after its read succeeded.            *)
Writes(t) == NextOp(t).kind = "write" \/ run[t].rmw

Advance(t) == [run[t] EXCEPT !.prog = Tail(@), !.rmw = FALSE, !.cur = {}]

(* Mutant: the error of an access is ignored. *)
AfterErrorIgnored(t) == Advance(t)

(* The program after its next access failed.                               *)
AfterError(t) ==
  IF NextOp(t).must
  THEN [run[t] EXCEPT !.prog = <<>>, !.rmw = FALSE, !.cur = {}, !.ok = FALSE]
  ELSE Advance(t)

Held(c, r) == reg[c] \cap BitsOf(c, r)

(* Chip c after its register r is written with v; setting the reset bit    *)
(* puts every register back to its default.                                *)
Stored(c, r, v) ==
  IF "REG_RST" \in v THEN Por[c] ELSE (reg[c] \ BitsOf(c, r)) \cup v

StoreOp(t) ==
  LET c == run[t].chip
  IN  reg' = [reg EXCEPT ![c] = Stored(c, NextOp(t).reg,
                                       Merge(NextOp(t), run[t].cur))]

(* kick_watchdog is called only when the snapshot says the watchdog runs.  *)
KickIdle(t) == /\ NextOp(t).kind = "kick"
               /\ "WATCHDOG" \notin snap[run[t].chip]

SkipKick(t) ==
  /\ CanRun(t)
  /\ InProgram(t)
  /\ bus # t
  /\ KickIdle(t)
  /\ run' = [run EXCEPT ![t] = Advance(t)]
  /\ UNCHANGED <<chips, lock, bus, pc, client, faults, last>>

BeginTransfer(t) ==
  /\ CanRun(t)
  /\ InProgram(t)
  /\ bus # t
  /\ ~KickIdle(t)
  /\ IF bus = NoThread
     THEN bus' = t /\ UNCHANGED run
     ELSE run' = [run EXCEPT ![t] = AfterError(t)] /\ UNCHANGED bus
  /\ UNCHANGED <<chips, lock, pc, client, faults, last>>

(* The transfer succeeds. *)
Transfer(t) ==
  LET c == run[t].chip  op == NextOp(t)
  IN
  /\ CanRun(t)
  /\ bus = t
  /\ c \in Fitted
  /\ bus' = NoThread
  /\ \/ /\ op.kind = "read"
        /\ run' = [run EXCEPT ![t] = Advance(t)]
        /\ UNCHANGED <<reg, snap>>
     \/ /\ op.kind = "poll"
        /\ snap' = [snap EXCEPT ![c] = (@ \ BitsOf(c, op.reg)) \cup Held(c, op.reg)]
        /\ run' = [run EXCEPT ![t] = Advance(t)]
        /\ UNCHANGED reg
     \/ /\ op.kind \in {"update", "kick"} /\ ~run[t].rmw
        /\ run' = [run EXCEPT ![t].rmw = TRUE, ![t].cur = Held(c, op.reg)]
        /\ UNCHANGED <<reg, snap>>
     \/ /\ Writes(t)
        /\ StoreOp(t)
        /\ run' = [run EXCEPT ![t] = Advance(t)]
        /\ UNCHANGED snap
  /\ UNCHANGED <<present, ready, lock, pc, client, faults, last>>

(* The transfer fails: no such chip, a timeout or a bus error. A failed    *)
(* write may nevertheless have reached the chip.                           *)
FailTransfer(t) ==
  /\ CanRun(t)
  /\ bus = t
  /\ bus' = NoThread
  /\ run' = [run EXCEPT ![t] = AfterError(t)]
  /\ IF run[t].chip \in Fitted
     THEN /\ faults < MaxFaults
          /\ faults' = faults + 1
          /\ \/ UNCHANGED reg
             \/ Writes(t) /\ StoreOp(t)
     ELSE UNCHANGED <<faults, reg>>
  /\ UNCHANGED <<snap, present, ready, lock, pc, client, last>>

-----------------------------------------------------------------------------
(* power_thread_entry *)

OpenBus ==
  /\ pc["power"] = "open" /\ CanRun("power")
  /\ \/ /\ ready' = TRUE
        /\ pc' = [pc EXCEPT !["power"] = "init"]
        /\ run' = [run EXCEPT !["power"] = Start("shp", ChipInit("shp"))]
     \/ /\ pc' = [pc EXCEPT !["power"] = "dead"]
        /\ UNCHANGED <<ready, run>>
  /\ UNCHANGED <<reg, snap, present, lock, bus, client, faults, last>>

(* Mutant: the search is not repeated. *)
AfterChipOnce(c) ==
  IF c = "shp"
  THEN /\ pc' = [pc EXCEPT !["power"] = "init"]
       /\ run' = [run EXCEPT !["power"] = Start("bq", ChipInit("bq"))]
  ELSE /\ pc' = [pc EXCEPT !["power"] = "sample_lock"]
       /\ run' = [run EXCEPT !["power"] = Idle(c)]

(* After chip c of the search: the SHP8808 is followed by the BQ25756, the *)
(* BQ25756 by the sampling loop if either chip was found, else by a second *)
(* of sleep.                                                               *)
AfterChip(c) ==
  IF c = "shp"
  THEN /\ pc' = [pc EXCEPT !["power"] = "init"]
       /\ run' = [run EXCEPT !["power"] = Start("bq", ChipInit("bq"))]
  ELSE /\ pc' = [pc EXCEPT !["power"] =
                   IF \E d \in Chip : present[d] THEN "sample_lock" ELSE "nap"]
       /\ run' = [run EXCEPT !["power"] = Idle(c)]

InitDone ==
  /\ pc["power"] = "init" /\ CanRun("power") /\ ~InProgram("power")
  /\ IF run["power"].ok
     THEN pc' = [pc EXCEPT !["power"] = "publish_lock"] /\ UNCHANGED run
     ELSE AfterChip(run["power"].chip)
  /\ UNCHANGED <<chips, lock, bus, client, faults, last>>

Publish ==
  LET c == run["power"].chip
  IN
  /\ pc["power"] = "publish_lock" /\ CanRun("power") /\ owner = "power"
  /\ present' = [present EXCEPT ![c] = TRUE]
  /\ pc' = [pc EXCEPT !["power"] = "publish"]
  /\ run' = [run EXCEPT !["power"] = Start(c, Refresh(c))]
  /\ UNCHANGED <<reg, snap, ready, lock, bus, client, faults, last>>

PublishDone ==
  /\ pc["power"] = "publish" /\ CanRun("power") /\ ~InProgram("power")
  /\ PutLock
  /\ AfterChip(run["power"].chip)
  /\ UNCHANGED <<chips, bus, client, faults, last>>

(* tx_thread_sleep(1000) is over: search again. *)
NapOver ==
  /\ pc["power"] = "nap"
  /\ pc' = [pc EXCEPT !["power"] = "init"]
  /\ run' = [run EXCEPT !["power"] = Start("shp", ChipInit("shp"))]
  /\ UNCHANGED <<chips, lock, bus, client, faults, last>>

(* Mutant: the chips are sampled without the lock. *)
SampleStartUnlocked ==
  /\ pc["power"] = "sample_lock" /\ CanRun("power")
  /\ pc' = [pc EXCEPT !["power"] = "sample"]
  /\ run' = [run EXCEPT !["power"] =
               IF present["shp"] THEN Start("shp", Refresh("shp"))
                                 ELSE Start("bq", Refresh("bq"))]
  /\ UNCHANGED <<chips, lock, bus, client, faults, last>>

(* With the lock held, the present chips are refreshed, SHP8808 first.     *)
SampleStart ==
  /\ pc["power"] = "sample_lock" /\ CanRun("power") /\ owner = "power"
  /\ pc' = [pc EXCEPT !["power"] = "sample"]
  /\ run' = [run EXCEPT !["power"] =
               IF present["shp"] THEN Start("shp", Refresh("shp"))
               ELSE IF present["bq"] THEN Start("bq", Refresh("bq"))
               ELSE Idle("bq")]
  /\ UNCHANGED <<chips, lock, bus, client, faults, last>>

SampleNext ==
  /\ pc["power"] = "sample" /\ CanRun("power") /\ ~InProgram("power")
  /\ IF run["power"].chip = "shp" /\ present["bq"]
     THEN /\ run' = [run EXCEPT !["power"] = Start("bq", Refresh("bq"))]
          /\ UNCHANGED <<pc, lock>>
     ELSE /\ PutLock
          /\ pc' = [pc EXCEPT !["power"] = "sleep"]
          /\ run' = [run EXCEPT !["power"] = Idle("bq")]
  /\ UNCHANGED <<chips, bus, client, faults, last>>

(* tx_thread_sleep(POWER_SAMPLE_PERIOD_MS) is over. *)
SleepOver ==
  /\ pc["power"] = "sleep"
  /\ pc' = [pc EXCEPT !["power"] = "sample_lock"]
  /\ UNCHANGED <<chips, lock, bus, run, client, faults, last>>

-----------------------------------------------------------------------------
(* power_*_copy_snapshot and power_*_command, called by the web thread.    *)

(* A client asks for the snapshot of a chip or sends it a command; without *)
(* an open bus the call fails at once.                                     *)
Request(c, cmd) ==
  /\ pc["web"] = "idle"
  /\ req' = [NoReq EXCEPT !.chip = c, !.cmd = cmd]
  /\ pc' = [pc EXCEPT !["web"] = IF ready THEN "lock" ELSE "fail"]
  /\ UNCHANGED <<chips, lock, bus, run, view, faults, last>>

(* The call returns 0 ("ok") or -1 ("fail") and the web thread replies.    *)
Answer(r) == pc' = [pc EXCEPT !["web"] = r]

Reply ==
  /\ pc["web"] \in {"ok", "fail"} /\ CanRun("web")
  /\ pc' = [pc EXCEPT !["web"] = "idle"]
  /\ req' = NoReq
  /\ view' = NoView
  /\ UNCHANGED <<chips, lock, bus, run, faults, last>>

(* tx_mutex_get gives up after 200 (GET) or 500 (command) ticks. *)
LockTimeout ==
  /\ "web" \in waiting
  /\ waiting' = waiting \ {"web"}
  /\ Answer("fail")
  /\ UNCHANGED <<chips, owner, bus, run, req, view, faults, last>>

(* *out = snap under the lock ... *)
CopySnapshot ==
  /\ pc["web"] = "lock" /\ CanRun("web") /\ owner = "web" /\ req.cmd = Get
  /\ view' = [present |-> present[req.chip], bits |-> snap[req.chip]]
  /\ PutLock
  /\ pc' = [pc EXCEPT !["web"] = "return"]
  /\ UNCHANGED <<chips, bus, run, req, faults, last>>

(* ... and the return value from snap.present, after the lock is put.      *)
CopyReturn ==
  /\ pc["web"] = "return" /\ CanRun("web")
  /\ Answer(IF present[req.chip] THEN "ok" ELSE "fail")
  /\ UNCHANGED <<chips, lock, bus, run, req, view, faults, last>>

(* Mutant: the early return forgets the mutex. *)
CommandAbsentKeepsLock ==
  /\ pc["web"] = "lock" /\ CanRun("web") /\ owner = "web" /\ req.cmd # Get
  /\ ~present[req.chip]
  /\ Answer("fail")
  /\ UNCHANGED <<chips, lock, bus, run, req, view, faults, last>>

CommandAbsent ==
  /\ pc["web"] = "lock" /\ CanRun("web") /\ owner = "web" /\ req.cmd # Get
  /\ ~present[req.chip]
  /\ PutLock
  /\ Answer("fail")
  /\ UNCHANGED <<chips, bus, run, req, view, faults, last>>

(* Mutant: a command does not ask whether the chip is present. *)
CommandStartUnchecked ==
  LET c == req.chip  name == req.cmd[1]
  IN
  /\ pc["web"] = "lock" /\ CanRun("web") /\ owner = "web" /\ req.cmd # Get
  /\ req' = [req EXCEPT !.before = reg[c]]
  /\ run' = [run EXCEPT !["web"] = Start(c, Command(c, name, req.cmd[2], snap[c]))]
  /\ pc' = [pc EXCEPT !["web"] = "exec"]
  /\ last' = [last EXCEPT ![c] = Unacked]
  /\ UNCHANGED <<chips, lock, bus, view, faults>>

(* "clear_latch" makes no driver call and succeeds; "invalid" stands for   *)
(* an unknown command, a missing field or a value the driver refuses, all  *)
(* of which fail before the first access.                                  *)
CommandStart ==
  LET c == req.chip  name == req.cmd[1]
  IN
  /\ pc["web"] = "lock" /\ CanRun("web") /\ owner = "web" /\ req.cmd # Get
  /\ present[c]
  /\ req' = [req EXCEPT !.before = reg[c]]
  /\ run' = [run EXCEPT !["web"] =
               [Start(c, Command(c, name, req.cmd[2], snap[c]))
                  EXCEPT !.ok = (name # "invalid")]]
  /\ pc' = [pc EXCEPT !["web"] = "exec"]
  /\ last' = [last EXCEPT ![c] = Unacked]
  /\ UNCHANGED <<chips, lock, bus, view, faults>>

(* Mutant: the snapshot is not refreshed after a command. *)
CommandDoneStale ==
  /\ pc["web"] = "exec" /\ CanRun("web") /\ ~InProgram("web")
  /\ PutLock
  /\ Answer(IF run["web"].ok THEN "ok" ELSE "fail")
  /\ run' = [run EXCEPT !["web"] = Idle(run["web"].chip)]
  /\ last' = IF run["web"].ok THEN [last EXCEPT ![run["web"].chip] = req.cmd] ELSE last
  /\ UNCHANGED <<chips, bus, req, view, faults>>

(* After a successful command the snapshot is refreshed; the result of the *)
(* refresh is ignored.                                                     *)
CommandDone ==
  LET c == run["web"].chip
  IN
  /\ pc["web"] = "exec" /\ CanRun("web") /\ ~InProgram("web")
  /\ IF run["web"].ok
     THEN /\ run' = [run EXCEPT !["web"] = Start(c, Refresh(c))]
          /\ pc' = [pc EXCEPT !["web"] = "refresh"]
          /\ last' = [last EXCEPT ![c] = req.cmd]
          /\ UNCHANGED lock
     ELSE /\ PutLock
          /\ Answer("fail")
          /\ run' = [run EXCEPT !["web"] = Idle(c)]
          /\ UNCHANGED last
  /\ UNCHANGED <<chips, bus, req, view, faults>>

CommandRefreshed ==
  /\ pc["web"] = "refresh" /\ CanRun("web") /\ ~InProgram("web")
  /\ PutLock
  /\ Answer("ok")
  /\ run' = [run EXCEPT !["web"] = Idle(run["web"].chip)]
  /\ UNCHANGED <<chips, bus, req, view, faults, last>>

-----------------------------------------------------------------------------
Bus(t) == SkipKick(t) \/ BeginTransfer(t) \/ Transfer(t) \/ FailTransfer(t)

PowerStep ==
  \/ TakeLock("power") \/ Bus("power")
  \/ OpenBus \/ InitDone \/ Publish \/ PublishDone \/ NapOver
  \/ SampleStart \/ SampleNext \/ SleepOver

WebStep ==
  \/ TakeLock("web") \/ Bus("web")
  \/ CopySnapshot \/ CopyReturn
  \/ CommandAbsent \/ CommandStart \/ CommandDone \/ CommandRefreshed \/ Reply

Client == \E c \in Chip : \E cmd \in Menu[c] \cup {Get} : Request(c, cmd)

Next == PowerStep \/ WebStep \/ Client \/ LockTimeout

Spec == Init /\ [][Next]_vars

(***************************************************************************)
(* Fairness. The web thread is the more urgent one and never sleeps while  *)
(* it serves a request: weak fairness. The power thread runs whenever web  *)
(* waits, and between two requests web waits for the network; it is thus   *)
(* enabled again and again but not continuously: strong fairness. Nothing  *)
(* obliges a client to ask, or a lock wait to time out.                    *)
(***************************************************************************)
FairSpec == Spec /\ SF_vars(PowerStep) /\ WF_vars(WebStep)

-----------------------------------------------------------------------------
(* Properties *)

(* A thread's program: the accesses left, and the value an update8 has     *)
(* read and not yet written.                                               *)
RunState == [chip : Chip, prog : Program, rmw : BOOLEAN,
             cur : SUBSET Setting, ok : BOOLEAN]

(* The type of every variable. *)
TypeOK ==
  /\ reg \in [Chip -> SUBSET Setting]
  /\ snap \in [Chip -> SUBSET Setting]
  /\ present \in [Chip -> BOOLEAN]
  /\ ready \in BOOLEAN
  /\ owner \in Thread \cup {NoThread}
  /\ waiting \subseteq Thread
  /\ bus \in Thread \cup {NoThread}
  /\ pc \in [Thread -> PowerPC \cup WebPC]
  /\ pc["power"] \in PowerPC /\ pc["web"] \in WebPC
  /\ run \in [Thread -> RunState]
  /\ req \in [chip : Chip, cmd : Commands \cup {Get}, before : SUBSET Setting]
  /\ view \in [present : BOOLEAN, bits : SUBSET Setting]
  /\ faults \in 0..MaxFaults
  /\ last \in [Chip -> Commands \cup {Never, Unacked}]

(* The discipline of power_lock: its owner is where the mutex is held, a   *)
(* thread that waits for it is in tx_mutex_get, and whoever drives a chip  *)
(* either owns the lock or is the search, with a chip it has not published.*)
OwnerPlaced ==
  /\ owner = "power" => pc["power"] \in {"publish_lock", "publish", "sample_lock", "sample"}
  /\ owner = "web" => pc["web"] \in {"lock", "exec", "refresh"}

WaitersPlaced == \A t \in waiting : owner # t /\ pc[t] \in LockPC

HolderOwns ==
  /\ pc["power"] \in {"publish", "sample"} => owner = "power"
  /\ pc["web"] \in {"exec", "refresh"} => owner = "web"

Guarded ==
  \A t \in Thread : InProgram(t) =>
    \/ owner = t /\ present[run[t].chip]
    \/ t = "power" /\ pc[t] = "init" /\ ~present[run[t].chip]

LockDiscipline == OwnerPlaced /\ WaitersPlaced /\ HolderOwns /\ Guarded

(* Where the search stands: a chip is initialised only before it is        *)
(* published, and the search is not left before a chip is found.           *)
SearchOrder ==
  LET c == run["power"].chip
  IN
  /\ pc["power"] \in {"open", "nap"} => \A d \in Chip : ~present[d]
  /\ pc["power"] = "init" => IF c = "shp" THEN \A d \in Chip : ~present[d]
                                          ELSE ~present["bq"]
  /\ pc["power"] = "publish_lock" => ~present[c] /\ ~present["bq"]
  /\ pc["power"] = "publish" => present[c] /\ (c = "shp" => ~present["bq"])

(* Who executes what: programs run only at the places that execute them,   *)
(* the web thread only drives the published chip its request names, a      *)
(* refresh is quiet, and the thread on the wire is inside a program.       *)
Execution ==
  /\ InProgram("power") => pc["power"] \in {"init", "publish", "sample"}
  /\ InProgram("web") => pc["web"] \in {"exec", "refresh"}
  /\ pc["web"] \in {"exec", "refresh"} =>
       present[run["web"].chip] /\ run["web"].chip = req.chip /\ req.cmd # Get
  /\ pc["power"] \in {"publish", "sample"} => run["power"].prog \in Seq(QuietOps)
  /\ pc["web"] = "refresh" => run["web"].prog \in Seq(QuietOps)
  /\ bus # NoThread => InProgram(bus)

(* The inductive invariant: none of the four follows from the others, and  *)
(* every step needs all of them.                                           *)
Inv == TypeOK /\ LockDiscipline /\ SearchOrder /\ Execution

(* One chip is never driven by two threads at a time, although the search  *)
(* initialises chips without power_lock: until a chip is present the web   *)
(* thread refuses its commands, and from then on the lock separates them.  *)
DeviceExclusive ==
  \A c \in Chip : ~\A t \in Thread : InProgram(t) /\ run[t].chip = c

(* No lost update: between the read and the write of an update8 (the       *)
(* setters, the clearing of sticky status and the watchdog kick, which     *)
(* shares its register with EN_CHG and HIZ) the register keeps the value   *)
(* that was read, so that the write restores no bit another thread has     *)
(* changed.                                                                *)
RmwFresh ==
  \A t \in Thread :
    InProgram(t) /\ run[t].rmw => run[t].cur = Held(run[t].chip, NextOp(t).reg)

(* Charging is off by default: a chip that was published and never         *)
(* commanded does not feed the battery, whatever it held at power-on,      *)
(* whichever transfers fail, and although the initialisation of the        *)
(* SHP8808 itself turns its converter on before it turns it off.           *)
PublishedOff ==
  \A c \in Chip : present[c] /\ last[c] = Never => ~Charging(c, reg[c])

ReverseBit(c) == IF c = "shp" THEN "OTG" ELSE "REVERSE"

(* What an acknowledged command promises about the chip it was sent to.    *)
Holds(c, cmd, bits) ==
  CASE cmd = <<"charge", TRUE>>   -> IF c = "shp" THEN Charging(c, bits)
                                                  ELSE "EN_CHG" \in bits
    [] cmd \in {<<"charge", FALSE>>, <<"reset", TRUE>>} -> ~Charging(c, bits)
    [] cmd = <<"hiz", TRUE>>      -> ~Charging(c, bits)
    [] cmd = <<"reverse", TRUE>>  -> ReverseBit(c) \in bits
    [] cmd = <<"reverse", FALSE>> -> ReverseBit(c) \notin bits
    [] OTHER                      -> TRUE

(* A command answered 0 stays in force until the next command to the chip: *)
(* neither sampling, nor the watchdog kick, nor a command to the other     *)
(* chip undoes it, whichever of their transfers fail.                      *)
AckedHolds == \A c \in Chip : Holds(c, last[c], reg[c])

(* Once a chip is present only the call of a command writes it: sampling,  *)
(* publishing and the watchdog kick never change a register.               *)
OnlyCommandsWrite ==
  [][\A c \in Chip : present[c] /\ reg'[c] # reg[c] =>
        pc["web"] = "exec" /\ run["web"].chip = c /\ owner = "web"]_vars

(* Without failed transfers, the snapshot of a present chip is the chip's  *)
(* configuration whenever nobody holds power_lock. The commands that merge *)
(* a request into the snapshot depend on it.                               *)
SnapshotFresh ==
  \A c \in Chip : owner = NoThread /\ faults = 0 /\ present[c] => snap[c] = reg[c]

(* copy_snapshot returns 0 exactly when what it copied out is a present    *)
(* chip: snap.present is read again after the mutex is put, and only the   *)
(* priority of the web thread keeps the search from publishing in between. *)
ReplyConsistent ==
  pc["web"] \in {"ok", "fail"} /\ req.cmd = Get =>
    (pc["web"] = "ok" <=> view.present)

(* Without failed transfers a command that fails (refused, or its first    *)
(* access found the bus busy with the search of the other chip) changed    *)
(* nothing.                                                                *)
FailedNoEffect ==
  pc["web"] = "exec" /\ ~InProgram("web") /\ ~run["web"].ok /\ faults = 0 =>
    reg[req.chip] = req.before

(* The bits a command is about. "charge_cfg" of the SHP8808 also takes the *)
(* current limits away from the pins.                                      *)
Footprint(c, name) ==
  CASE name = "charge"      -> {"DCDC_OFF", "OTG", "EN_CHG"}
    [] name = "hiz"         -> {"DCDC_OFF", "HIZ"}
    [] name = "reverse"     -> {"DCDC_OFF", "OTG", "REVERSE"}
    [] name = "charge_cfg"  -> IF c = "shp" THEN {"CHARGE_CURRENT", "IBUS_PIN", "IBAT_PIN"}
                                            ELSE {"CHARGE_VOLTAGE"}
    [] name = "reverse_cfg" -> {"OTG_VOLTAGE", "REVERSE_VOLTAGE"}
    [] name = "pins"        -> {"IBUS_PIN", "ICHG_PIN"}
    [] name = "gate"        -> {"GATE_DRIVE"}
    [] name = "watchdog"    -> {"WATCHDOG"}
    [] name = "mppt"        -> {"MPPT"}
    [] name = "mppt_cfg"    -> {"MPPT_CFG"}
    [] name = "pfm"         -> {"PFM"}
    [] name = "ts"          -> {"TS", "TS_OFF"}
    [] name = "jeita"       -> {"JEITA"}
    [] name = "thresholds"  -> {"THRESHOLDS", "VRECHG"}
    [] name = "timers"      -> {"TIMERS"}
    [] name = "vbat_lowv"   -> {"VBAT_LOWV"}
    [] name = "reset"       -> Bit
    [] OTHER                -> {}

(* Without failed transfers a command changes only the settings it names,  *)
(* although a configuration command writes every setting of its group from *)
(* the snapshot.                                                           *)
FootprintOnly ==
  pc["web"] = "exec" /\ ~InProgram("web") /\ faults = 0 =>
    LET now == reg[req.chip]
    IN  (now \ req.before) \cup (req.before \ now)
          \subseteq Footprint(req.chip, req.cmd[1])

(* CHANGELOG 0.1.3, "charging off by default": once the search is over, a  *)
(* chip that was never commanded does not charge.                          *)
ChargeDefaultOff ==
  pc["power"] \in {"sample_lock", "sample", "sleep"} =>
    \A c \in Chip : last[c] = Never => ~Charging(c, reg[c])

(* With a chip on the bus and finitely many failed transfers the search    *)
(* ends with a chip present.                                               *)
SearchEnds == ready /\ Fitted # {} ~> \E c \in Chip : present[c]

(* Every request is answered.                                              *)
RequestAnswered == pc["web"] # "idle" ~> pc["web"] = "idle"

(* With a chip present, sampling goes on for ever: the power thread gets   *)
(* power_lock and finishes its round again and again.                      *)
SamplingRecurs ==
  (\E c \in Chip : present[c]) ~> []<>(pc["power"] = "sleep")

-----------------------------------------------------------------------------
(* What the clients see of all this: the chips that are published, what    *)
(* these hold and have promised, and how far the request being served is.  *)
Visible == {c \in Chip : present[c]}

Settings == [c \in Chip |-> IF present[c] THEN reg[c] ELSE {}]

Promised == [c \in Chip |-> {last[c]} \ {Never, Unacked}]

StageNow ==
  CASE pc["web"] \in {"lock", "return"} -> "asked"
    [] pc["web"] = "exec"              -> "working"
    [] pc["web"] = "refresh"           -> "done"
    [] OTHER                           -> pc["web"]

CallNow ==
  [stage |-> StageNow,
   chip  |-> IF pc["web"] = "idle" THEN "none" ELSE req.chip,
   cmd   |-> req.cmd]

Service ==
  INSTANCE PowerService WITH
    Bits <- Setting,
    Requests <- Commands,
    Feeds   <- Charging,
    Effect  <- Holds,
    visible <- Visible,
    setting <- Settings,
    promise <- Promised,
    call    <- CallNow

(* The two threads, the bus and the lock implement the service the clients *)
(* see: a chip becomes usable at once and only when it is not charging,    *)
(* nothing but the command being served changes it, and a success is only  *)
(* returned after the effect is in the chip.                               *)
Implements == Service!ServiceSpec
==============================================================================
