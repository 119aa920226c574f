---------------------------- MODULE PowerService -----------------------------
(***************************************************************************)
(* What the power module promises to the HTTP clients, without the bus,    *)
(* the lock, the sampling thread and the registers' addresses: a chip      *)
(* appears with its converter not feeding the battery; from then on only a *)
(* command that is being served changes it; and a command that is answered *)
(* with success has had its effect.                                        *)
(***************************************************************************)
CONSTANTS
  Chip,
  Bits,            \* the settings a chip can hold
  Requests,        \* the commands a client can send
  Get,             \* the request for a snapshot
  Feeds(_, _),     \* Feeds(c, b): chip c feeds the battery with settings b
  Effect(_, _, _)  \* Effect(c, cmd, b): b is what command cmd promises

VARIABLES
  visible,   \* the chips the clients can use
  setting,   \* setting[c]: what chip c holds, {} until it is visible
  call,      \* the request being served and how far it is
  promise    \* promise[c]: the commands to c that are in force

svars == <<visible, setting, call, promise>>

Stage == {"asked", "working", "done", "ok", "fail"}

NoCall == [stage |-> "idle", chip |-> "none", cmd |-> Get]

ServiceInit ==
  /\ visible = {}
  /\ setting = [c \in Chip |-> {}]
  /\ call = NoCall
  /\ promise = [c \in Chip |-> {}]

(* Chip c, and no other, gets new settings. *)
Sets(c) ==
  /\ setting' \in [Chip -> SUBSET Bits]
  /\ \A d \in Chip \ {c} : setting'[d] = setting[d]

(* A chip is found: it does not charge.                                    *)
Appear(c) ==
  /\ c \notin visible
  /\ visible' = visible \cup {c}
  /\ Sets(c) /\ ~Feeds(c, setting'[c])
  /\ UNCHANGED <<call, promise>>

Ask(c, cmd) ==
  /\ call.stage = "idle"
  /\ \E s \in {"asked", "fail"} : call' = [stage |-> s, chip |-> c, cmd |-> cmd]
  /\ UNCHANGED <<visible, setting, promise>>

(* The request moves to stage s. *)
To(s) == call' = [call EXCEPT !.stage = s]

(* Snapshots are only given of visible chips. *)
Snapshot ==
  /\ call.stage = "asked" /\ call.cmd = Get /\ call.chip \in visible
  /\ To("ok")
  /\ UNCHANGED <<visible, setting, promise>>

(* A command is obeyed by a visible chip; the one before it is void.       *)
Begin ==
  /\ call.stage = "asked" /\ call.cmd # Get /\ call.chip \in visible
  /\ To("working")
  /\ promise' = [promise EXCEPT ![call.chip] = {}]
  /\ UNCHANGED <<visible, setting>>

Work ==
  /\ call.stage = "working"
  /\ Sets(call.chip)
  /\ UNCHANGED <<visible, call, promise>>

Commit ==
  /\ call.stage = "working"
  /\ Effect(call.chip, call.cmd, setting[call.chip])
  /\ To("done")
  /\ promise' = [promise EXCEPT ![call.chip] = {call.cmd}]
  /\ UNCHANGED <<visible, setting>>

Succeed ==
  /\ call.stage = "done"
  /\ To("ok")
  /\ UNCHANGED <<visible, setting, promise>>

Refuse ==
  /\ call.stage \in {"asked", "working"}
  /\ To("fail")
  /\ UNCHANGED <<visible, setting, promise>>

Return ==
  /\ call.stage \in {"ok", "fail"}
  /\ call' = NoCall
  /\ UNCHANGED <<visible, setting, promise>>

ServiceNext ==
  \/ \E c \in Chip : Appear(c)
  \/ \E c \in Chip, cmd \in Requests \cup {Get} : Ask(c, cmd)
  \/ Snapshot \/ Begin \/ Work \/ Commit \/ Succeed \/ Refuse \/ Return

ServiceSpec == ServiceInit /\ [][ServiceNext]_svars

(***************************************************************************)
(* What follows from the service alone.                                    *)
(***************************************************************************)
ServiceTypeOK ==
  /\ visible \subseteq Chip
  /\ setting \in [Chip -> SUBSET Bits]
  /\ call \in {NoCall} \cup [stage : Stage, chip : Chip, cmd : Requests \cup {Get}]
  /\ promise \in [Chip -> SUBSET Requests]

(* A command that was answered with success is in force until the next one *)
(* to the chip: nobody else touches the chip.                              *)
InForce ==
  \A c \in Chip : \A cmd \in promise[c] : Effect(c, cmd, setting[c])
==============================================================================
