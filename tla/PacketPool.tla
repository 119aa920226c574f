----------------------------- MODULE PacketPool ------------------------------
(***************************************************************************)
(* What a shared pool of packets promises its users, whatever the marks    *)
(* and queues that keep it: a packet leaves the pool only when nobody uses *)
(* it, and it comes back exactly when its last user gives it up. A packet  *)
(* has one user, except that TCP and the driver share one: TCP keeps it    *)
(* until it is acknowledged, the driver until it is transmitted, and       *)
(* either may finish first.                                                *)
(***************************************************************************)
CONSTANT Packet

Role == {"rx", "stack", "app", "tcp", "driver"}

VARIABLES
  free,  \* the packets of the pool
  uses   \* uses[r]: the packets that role r uses

poolVars == <<free, uses>>

Init == free = Packet /\ uses = [r \in Role |-> {}]

Users(p) == {r \in Role : p \in uses[r]}

(* A role takes a packet: the receive ring, the stack, a thread, or the    *)
(* driver with a packet built for it.                                      *)
Allocate(p, r) ==
  /\ p \in free /\ r # "tcp"
  /\ free' = free \ {p}
  /\ uses' = [uses EXCEPT ![r] = @ \cup {p}]

(* The only user hands the packet to another one: a frame to the stack and *)
(* the application, data to TCP, a packet given up to a waiting thread.    *)
Pass(p, r, s) ==
  /\ Users(p) = {r}
  /\ uses' = [uses EXCEPT ![r] = @ \ {p}, ![s] = @ \cup {p}]
  /\ UNCHANGED free

(* An application's packet is kept by TCP and transmitted by the driver.   *)
Send(p) ==
  /\ Users(p) = {"app"}
  /\ uses' = [uses EXCEPT !["app"] = @ \ {p}, !["tcp"] = @ \cup {p}, !["driver"] = @ \cup {p}]
  /\ UNCHANGED free

(* A packet TCP still keeps is transmitted again.                          *)
Resend(p) ==
  /\ Users(p) = {"tcp"}
  /\ uses' = [uses EXCEPT !["driver"] = @ \cup {p}]
  /\ UNCHANGED free

(* A user gives the packet up; the last one returns it to the pool.        *)
Drop(p, r) ==
  /\ r \in Users(p)
  /\ uses' = [uses EXCEPT ![r] = @ \ {p}]
  /\ free' = IF Users(p) = {r} THEN free \cup {p} ELSE free

(* Most steps of those who use the pool move no packet.                    *)
Next ==
  \/ UNCHANGED poolVars
  \/ \E p \in Packet :
       \/ Send(p) \/ Resend(p)
       \/ \E r \in Role : Allocate(p, r)
       \/ \E r \in Users(p) : Drop(p, r) \/ \E s \in Role : Pass(p, r, s)

Spec == Init /\ [][Next]_poolVars

-----------------------------------------------------------------------------
(* A packet is in the pool exactly when nobody uses it, and only TCP and   *)
(* the driver ever share one.                                              *)
PoolInv ==
  /\ free \subseteq Packet /\ uses \in [Role -> SUBSET Packet]
  /\ \A p \in Packet :
       /\ p \in free <=> Users(p) = {}
       /\ Users(p) = {"tcp", "driver"} \/ \A r, s \in Users(p) : r = s
=============================================================================
