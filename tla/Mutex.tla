------------------------------- MODULE Mutex ---------------------------------
(***************************************************************************)
(* The mutexes of ThreadX with priority inheritance, as the firmware uses  *)
(* them: power_lock, console_lock and the heap's lock inherit, the mutex   *)
(* of the IP instance does not.  The power thread prints while it holds    *)
(* power_lock, so that mutexes are nested, always in the same order; the   *)
(* web thread waits for power_lock with a timeout.                         *)
(*                                                                         *)
(* tx_mutex_get and tx_mutex_put disable interrupts or preemption from     *)
(* beginning to end, and timeouts are processed by a thread: each call is  *)
(* one step.                                                               *)
(***************************************************************************)
EXTENDS Naturals, Sequences, FiniteSets, SequencesExt

CONSTANTS
  Thread,
  NoThread,
  Lock,      \* the mutexes
  Inherit,   \* those created with TX_INHERIT
  Rank,      \* mutexes are taken in the order of their ranks
  User,      \* User[t]: tx_thread_user_priority, a smaller number is more urgent
  NoPrio,    \* TX_MAX_PRIORITIES
  MaxCount   \* bound on taking one's own mutex again

ASSUME MutexAssumption ==
  /\ NoThread \notin Thread
  /\ Inherit \subseteq Lock
  /\ Rank \in [Lock -> Nat]
  /\ NoPrio \in Nat
  /\ User \in [Thread -> 0..NoPrio - 1]
  /\ MaxCount \in Nat \ {0}
  /\ Lock \cap {"ready", "asleep"} = {}

VARIABLES
  owner,    \* tx_mutex_owner
  count,    \* tx_mutex_ownership_count
  queue,    \* tx_mutex_suspension_list
  highest,  \* tx_mutex_highest_priority_waiting
  prio,     \* tx_thread_priority
  state,    \* "ready", "asleep", or the mutex the thread is suspended on
  timed     \* the suspended thread waits with a timeout

vars == <<owner, count, queue, highest, prio, state, timed>>

Init ==
  /\ owner = [m \in Lock |-> NoThread]
  /\ count = [m \in Lock |-> 0]
  /\ queue = [m \in Lock |-> <<>>]
  /\ highest = [m \in Lock |-> NoPrio]
  /\ prio = User
  /\ state = [t \in Thread |-> "ready"]
  /\ timed = [t \in Thread |-> FALSE]

-----------------------------------------------------------------------------
Lower(a, b) == IF a < b THEN a ELSE b

Owned(t) == {m \in Lock : owner[m] = t}

(* The scheduler runs one of the most urgent threads that are ready.       *)
CanRun(t) ==
  /\ state[t] = "ready"
  /\ \A u \in Thread : state[u] = "ready" => prio[t] <= prio[u]

(* _tx_mutex_get *)

(* Mutant: mutexes are nested in any order. *)
MayTakeAny(t, m) == TRUE

MayTake(t, m) == \A k \in Owned(t) : Rank[k] < Rank[m]

GetFree(t, m) ==
  /\ CanRun(t) /\ owner[m] = NoThread
  /\ MayTake(t, m)
  /\ owner' = [owner EXCEPT ![m] = t]
  /\ count' = [count EXCEPT ![m] = 1]
  /\ highest' = IF m \in Inherit THEN [highest EXCEPT ![m] = NoPrio] ELSE highest
  /\ UNCHANGED <<queue, prio, state, timed>>

GetAgain(t, m) ==
  /\ CanRun(t) /\ owner[m] = t
  /\ count[m] < MaxCount
  /\ count' = [count EXCEPT ![m] = @ + 1]
  /\ UNCHANGED <<owner, queue, highest, prio, state, timed>>

(* Mutant: the owner keeps its priority. *)
RaiseNever(m, p) == UNCHANGED <<highest, prio>>

(* The owner of an inheriting mutex becomes as urgent as the thread that   *)
(* starts to wait, but not the owners of the mutexes it waits for itself.  *)
Raise(m, p) ==
  IF m \in Inherit
  THEN /\ highest' = [highest EXCEPT ![m] = Lower(@, p)]
       /\ prio' = [prio EXCEPT ![owner[m]] = Lower(@, p)]
  ELSE UNCHANGED <<highest, prio>>

GetWait(t, m, limit) ==
  /\ CanRun(t) /\ owner[m] \notin {NoThread, t}
  /\ MayTake(t, m)
  /\ queue' = [queue EXCEPT ![m] = Append(@, t)]
  /\ state' = [state EXCEPT ![t] = m]
  /\ timed' = [timed EXCEPT ![t] = limit]
  /\ Raise(m, prio[t])
  /\ UNCHANGED <<owner, count>>

-----------------------------------------------------------------------------
(* _tx_mutex_put *)

PutAgain(t, m) ==
  /\ CanRun(t) /\ owner[m] = t /\ count[m] > 1
  /\ count' = [count EXCEPT ![m] = @ - 1]
  /\ UNCHANGED <<owner, queue, highest, prio, state, timed>>

(* The priority a thread goes back to when it puts m: its own, or that of  *)
(* a thread that waits for another of its mutexes.                         *)
PriorityLeft(t, m) ==
  LET others == {k \in Owned(t) \ {m} : k \in Inherit}
  IN  CHOOSE p \in {User[t]} \cup {highest[k] : k \in others} :
        /\ p <= User[t]
        /\ \A k \in others : p <= highest[k]

(* Mutant: a priority is only restored when a thread waits for the mutex. *)
RestoredToWaiters(t, m) ==
  IF m \in Inherit /\ queue[m] # <<>>
  THEN [prio EXCEPT ![t] = PriorityLeft(t, m)] ELSE prio

Restored(t, m) ==
  IF m \in Inherit THEN [prio EXCEPT ![t] = PriorityLeft(t, m)] ELSE prio

(* Mutant: the list stays in the order of arrival. *)
PrioritizedNot(q) == q

(* The place of the first of the most urgent threads of list q.            *)
Foremost(q) ==
  CHOOSE i \in DOMAIN q : \A j \in DOMAIN q :
    prio[q[i]] <= prio[q[j]] /\ (prio[q[i]] = prio[q[j]] => i <= j)

(* _tx_mutex_prioritize moves it to the front.                             *)
Prioritized(q) ==
  LET k == Foremost(q)
  IN  [i \in DOMAIN q |-> IF i = 1 THEN q[k] ELSE IF i <= k THEN q[i - 1] ELSE q[i]]

InOrder(m, q) == IF m \in Inherit THEN Prioritized(q) ELSE q

PutFree(t, m) ==
  /\ CanRun(t) /\ owner[m] = t /\ count[m] = 1
  /\ queue[m] = <<>>
  /\ owner' = [owner EXCEPT ![m] = NoThread]
  /\ count' = [count EXCEPT ![m] = 0]
  /\ highest' = IF m \in Inherit THEN [highest EXCEPT ![m] = NoPrio] ELSE highest
  /\ prio' = Restored(t, m)
  /\ UNCHANGED <<queue, state, timed>>

(* The mutex is handed to the thread at the front, which is resumed.       *)
PutHand(t, m) ==
  LET q == InOrder(m, queue[m])
      w == Head(q)
      left == InOrder(m, Tail(q))
  IN
  /\ CanRun(t) /\ owner[m] = t /\ count[m] = 1
  /\ queue[m] # <<>>
  /\ owner' = [owner EXCEPT ![m] = w]
  /\ queue' = [queue EXCEPT ![m] = left]
  /\ state' = [state EXCEPT ![w] = "ready"]
  /\ timed' = [timed EXCEPT ![w] = FALSE]
  /\ highest' = IF m \in Inherit
                THEN [highest EXCEPT ![m] = IF left = <<>> THEN NoPrio
                                                           ELSE prio[Head(left)]]
                ELSE highest
  /\ prio' = Restored(t, m)
  /\ UNCHANGED count

(* _tx_mutex_cleanup, when the wait of t has lasted too long: the thread   *)
(* leaves the list; what its wait did to the owner stays.                  *)
Timeout(t) ==
  LET m == state[t]
  IN
  /\ m \in Lock /\ timed[t]
  /\ \E i \in DOMAIN queue[m] :
       queue[m][i] = t /\ queue' = [queue EXCEPT ![m] = RemoveAt(@, i)]
  /\ state' = [state EXCEPT ![t] = "ready"]
  /\ timed' = [timed EXCEPT ![t] = FALSE]
  /\ UNCHANGED <<owner, count, highest, prio>>

(* Threads sleep, or wait for the network, only without a mutex. The one   *)
(* exception is left out: at start-up the IP thread sleeps 50 ticks in the *)
(* driver (board_eth.c:47) while it owns nx_ip_protection; that sleep ends *)
(* by itself.                                                              *)
Sleep(t) ==
  /\ CanRun(t) /\ Owned(t) = {}
  /\ state' = [state EXCEPT ![t] = "asleep"]
  /\ UNCHANGED <<owner, count, queue, highest, prio, timed>>

Wake(t) ==
  /\ state[t] = "asleep"
  /\ state' = [state EXCEPT ![t] = "ready"]
  /\ UNCHANGED <<owner, count, queue, highest, prio, timed>>

-----------------------------------------------------------------------------
Get(t, m) == GetFree(t, m) \/ GetAgain(t, m) \/ \E limit \in BOOLEAN : GetWait(t, m, limit)
Put(t, m) == PutAgain(t, m) \/ PutFree(t, m) \/ PutHand(t, m)

Next ==
  \E t \in Thread :
    \/ \E m \in Lock : Get(t, m) \/ Put(t, m)
    \/ Timeout(t) \/ Sleep(t) \/ Wake(t)

Spec == Init /\ [][Next]_vars

-----------------------------------------------------------------------------
(* Properties *)

Waiting(m) == ToSet(queue[m])

(* The type of every variable, and who is where: a thread is in the list   *)
(* of the mutex it is suspended on and of no other, once, and only owned   *)
(* mutexes are waited for.                                                 *)
TypeOK ==
  /\ owner \in [Lock -> Thread \cup {NoThread}]
  /\ count \in [Lock -> 0..MaxCount]
  /\ queue \in [Lock -> Seq(Thread)]
  /\ highest \in [Lock -> 0..NoPrio]
  /\ prio \in [Thread -> 0..NoPrio - 1]
  /\ state \in [Thread -> {"ready", "asleep"} \cup Lock]
  /\ timed \in [Thread -> BOOLEAN]
  /\ \A m \in Lock :
       /\ Waiting(m) = {t \in Thread : state[t] = m}
       /\ IsInjective(queue[m])
       /\ count[m] = 0 <=> owner[m] = NoThread
       /\ owner[m] = NoThread => queue[m] = <<>>
       /\ owner[m] \notin Waiting(m)

(* No priority inversion: the owner of an inheriting mutex is at least as  *)
(* urgent as every thread that waits for it was created to be, however     *)
(* many mutexes it holds and in which order their waiters come, give up    *)
(* and are served.                                                         *)
NotOutranked ==
  \A m \in Inherit : \A w \in Waiting(m) : prio[owner[m]] <= User[w]

(* An inherited priority does not outlive the last mutex: whoever holds    *)
(* none is as urgent as it was created, although a waiter that gives up    *)
(* leaves the owner's priority where it is.                                *)
PriorityRestored ==
  \A t \in Thread :
    /\ prio[t] <= User[t]
    /\ Owned(t) \cap Inherit = {} => prio[t] = User[t]

(* The owner of an inheriting mutex is as urgent as the mutex records, and *)
(* the record covers the priorities its waiters were created with: what    *)
(* they inherit while they wait may go away again.                         *)
Recorded ==
  \A m \in Inherit :
    /\ owner[m] # NoThread => prio[owner[m]] <= highest[m]
    /\ \A w \in Waiting(m) : highest[m] <= User[w]

(* The inductive invariant.                                                *)
Inv == TypeOK /\ Recorded /\ PriorityRestored

(* A mutex is handed to the most urgent of its waiters, counting what they *)
(* have inherited while they waited.                                       *)
HandedToMostUrgent ==
  [][\A m \in Inherit :
        owner[m] # NoThread /\ owner'[m] \notin {owner[m], NoThread} =>
          \A w \in Waiting(m) : prio[owner'[m]] <= prio[w]]_vars

(* The nesting never locks everyone out: while threads wait, one of those  *)
(* they wait for can go on.                                                *)
SomeoneGoesOn ==
  (\E t \in Thread : state[t] \in Lock) =>
    \E m \in Lock : queue[m] # <<>> /\ state[owner[m]] = "ready"
==============================================================================
