----------------------------- MODULE MutexProofs -----------------------------
(***************************************************************************)
(* Proofs about Mutex, for every set of threads and of mutexes, whichever  *)
(* of them inherit, every assignment of priorities and every order in      *)
(* which the mutexes are nested.                                           *)
(***************************************************************************)
EXTENDS Mutex, SequenceTheorems, FiniteSetTheorems, TLAPS

-----------------------------------------------------------------------------
(* Least elements *)

(* A set of natural numbers that is not empty has a least element: the     *)
(* finite intervals 0..x are well-founded under inclusion.                 *)
LEMMA Least ==
  ASSUME NEW S \in SUBSET Nat, S # {}
  PROVE  \E x \in S : \A y \in S : x <= y
<1> DEFINE T == {0..x : x \in S}
<1>1. T \subseteq FiniteSubsetsOf(Nat)
  <2>1. \A x \in S : IsFiniteSet(0..x) /\ 0..x \subseteq Nat
    BY FS_Interval
  <2> QED
    BY <2>1 DEF FiniteSubsetsOf
<1>2. T # {}
  OBVIOUS
<1>3. PICK t \in T : \A u \in T : ~(<<u, t>> \in StrictSubsetOrdering(Nat))
  <2> HIDE DEF T
  <2> QED
    BY <1>1, <1>2, FS_StrictSubsetOrderingWellFounded, WFMin
<1>4. PICK x \in S : t = 0..x
  OBVIOUS
<1>5. \A y \in S : ~(y < x)
  <2> SUFFICES ASSUME NEW y \in S, y < x PROVE FALSE
    OBVIOUS
  <2>1. 0..y \subseteq 0..x /\ 0..y # 0..x
    BY x \in 0..x, x \notin 0..y
  <2>2. <<0..y, 0..x>> \in StrictSubsetOrdering(Nat)
    BY <2>1 DEF StrictSubsetOrdering
  <2> QED
    BY <1>3, <1>4, <2>2
<1> QED
  BY <1>5

-----------------------------------------------------------------------------
(* The lists *)

(* The place Foremost looks for exists: among the most urgent threads of   *)
(* the list the one that came first.                                       *)
LEMMA ForemostExists ==
  ASSUME NEW q \in Seq(Thread), q # <<>>, prio \in [Thread -> Nat]
  PROVE  /\ Foremost(q) \in 1..Len(q)
         /\ \A j \in 1..Len(q) : prio[q[Foremost(q)]] <= prio[q[j]]
<1>1. DOMAIN q = 1..Len(q) /\ Len(q) \in Nat \ {0}
  BY EmptySeq, LenProperties
<1>2. \A j \in 1..Len(q) : prio[q[j]] \in Nat
  BY ElementOfSeq
<1> DEFINE P == {prio[q[j]] : j \in 1..Len(q)}
<1>3. PICK p \in P : \A r \in P : p <= r
  <2>1. P \in SUBSET Nat
    BY <1>2
  <2>2. prio[q[1]] \in P
    BY <1>1
  <2> HIDE DEF P
  <2> QED
    BY <2>1, <2>2, Least
<1> DEFINE J == {j \in 1..Len(q) : prio[q[j]] = p}
<1>4. PICK i \in J : \A j \in J : i <= j
  <2>1. J \in SUBSET Nat
    OBVIOUS
  <2>2. J # {}
    OBVIOUS
  <2> HIDE DEF J
  <2> QED
    BY <2>1, <2>2, Least
<1>5. \A j \in DOMAIN q : prio[q[i]] <= prio[q[j]] /\ (prio[q[i]] = prio[q[j]] => i <= j)
  BY <1>1, <1>3, <1>4
<1>6. i \in DOMAIN q
  BY <1>1
<1> HIDE DEF P, J
<1> QED
  BY <1>1, <1>5, <1>6 DEF Foremost

(* _tx_mutex_prioritize only changes the order of the list.                *)
LEMMA PrioritizedList ==
  ASSUME NEW q \in Seq(Thread), IsInjective(q), prio \in [Thread -> Nat]
  PROVE  /\ Prioritized(q) \in Seq(Thread)
         /\ Len(Prioritized(q)) = Len(q)
         /\ ToSet(Prioritized(q)) = ToSet(q)
         /\ IsInjective(Prioritized(q))
         /\ q # <<>> => \A w \in ToSet(q) : prio[Prioritized(q)[1]] <= prio[w]
<1> DEFINE r == Prioritized(q)
           k == Foremost(q)
           n == Len(q)
<1>1. DOMAIN q = 1..n /\ n \in Nat /\ \A i \in 1..n : q[i] \in Thread
  BY LenProperties, ElementOfSeq
<1>2. r = [i \in 1..n |-> IF i = 1 THEN q[k] ELSE IF i <= k THEN q[i - 1] ELSE q[i]]
  BY <1>1 DEF Prioritized
<1>3. n # 0 => k \in 1..n /\ \A j \in 1..n : prio[q[k]] <= prio[q[j]]
  BY ForemostExists, EmptySeq
<1> HIDE DEF k
<1>4. r \in [1..n -> Thread]
  BY <1>1, <1>2, <1>3
<1> HIDE DEF r
<1>5. r \in Seq(Thread)
  <2>1. \A S, f : \A m \in Nat : f \in [1..m -> S] => f \in Seq(S)
    <3> SUFFICES ASSUME NEW S, NEW m \in Nat, NEW f \in [1..m -> S] PROVE f \in Seq(S)
      OBVIOUS
    <3> DEFINE X == {[1..j -> S] : j \in Nat}
    <3>1. [1..m -> S] \in X
      OBVIOUS
    <3>2. f \in UNION X
      BY <3>1
    <3> QED
      BY <3>2, SeqDef
  <2> QED
    BY <1>1, <1>4, <2>1
<1>6. Len(r) = n /\ DOMAIN r = 1..n
  <2>1. DOMAIN r = 1..Len(r) /\ Len(r) \in Nat
    BY <1>5, LenProperties
  <2>2. DOMAIN r = 1..n
    BY <1>4
  <2> QED
    <3> HIDE DEF n
    <3>1. n \in Nat /\ 1..n = 1..Len(r)
      BY <1>1, <2>1, <2>2
    <3>2. \A a, b \in Nat : 1..a = 1..b => a = b
      <4> SUFFICES ASSUME NEW a \in Nat, NEW b \in Nat, 1..a = 1..b, a < b PROVE FALSE
        OBVIOUS
      <4> QED
        BY b \in 1..b
    <3>3. Len(r) = n
      BY <2>1, <3>1, <3>2
    <3> QED
      BY <2>2, <3>3
<1>7. \A i, j \in 1..n : r[i] = r[j] => i = j
  <2>1. \A i, j \in 1..n : q[i] = q[j] => i = j
    BY <1>1 DEF IsInjective
  <2> TAKE i, j \in 1..n
  <2>2. r[i] = IF i = 1 THEN q[k] ELSE IF i <= k THEN q[i - 1] ELSE q[i]
    BY <1>2
  <2>3. r[j] = IF j = 1 THEN q[k] ELSE IF j <= k THEN q[j - 1] ELSE q[j]
    BY <1>2
  <2> HIDE DEF n
  <2> QED
    BY <1>1, <1>3, <2>1, <2>2, <2>3
<1>8. \A i \in 1..n : r[i] \in ToSet(q)
  <2>1. \A j \in 1..n : q[j] \in ToSet(q)
    BY <1>1 DEF ToSet
  <2> TAKE i \in 1..n
  <2>2. r[i] = IF i = 1 THEN q[k] ELSE IF i <= k THEN q[i - 1] ELSE q[i]
    BY <1>2
  <2> HIDE DEF n
  <2> QED
    BY <1>1, <1>3, <2>1, <2>2
<1>9. \A i \in 1..n : \E j \in 1..n : r[j] = q[i]
  <2> TAKE i \in 1..n
  <2>1. CASE i = k
    BY <1>1, <1>2, <2>1
  <2>2. CASE i < k
    BY <1>1, <1>2, <1>3, <2>2, i + 1 \in 1..n
  <2>3. CASE i > k
    BY <1>1, <1>2, <1>3, <2>3
  <2> QED
    BY <1>1, <1>3, <2>1, <2>2, <2>3
<1>10. ToSet(r) = ToSet(q)
  BY <1>1, <1>6, <1>8, <1>9 DEF ToSet
<1>11. q # <<>> => \A w \in ToSet(q) : prio[r[1]] <= prio[w]
  BY <1>1, <1>2, <1>3, EmptySeq DEF ToSet
<1>12. IsInjective(r)
  BY <1>6, <1>7 DEF IsInjective
<1> QED
  BY <1>5, <1>6, <1>10, <1>11, <1>12 DEF r, n

(* A thread that is not in the list yet is added at its end. *)
LEMMA AppendList ==
  ASSUME NEW q \in Seq(Thread), IsInjective(q), NEW t \in Thread, t \notin ToSet(q)
  PROVE  /\ Append(q, t) \in Seq(Thread) /\ Append(q, t) # <<>>
         /\ ToSet(Append(q, t)) = ToSet(q) \cup {t}
         /\ IsInjective(Append(q, t))
<1> DEFINE r == Append(q, t)
           n == Len(q)
<1>1. /\ n \in Nat /\ DOMAIN q = 1..n
      /\ r \in Seq(Thread) /\ r # <<>> /\ Len(r) = n + 1
      /\ \A i \in 1..n : r[i] = q[i]
      /\ r[n + 1] = t
  BY LenProperties, AppendProperties
<1>2. DOMAIN r = 1..n + 1
  BY <1>1, LenProperties
<1>3. \A i \in 1..n + 1 : i = n + 1 \/ i \in 1..n
  BY <1>1
<1>4. 1..n \subseteq 1..n + 1 /\ n + 1 \in 1..n + 1
  BY <1>1
<1> HIDE DEF r, n
<1>5. ToSet(r) = ToSet(q) \cup {t}
  BY <1>1, <1>2, <1>3, <1>4 DEF ToSet
<1>6. IsInjective(r)
  <2>1. \A i \in 1..n : r[i] # t
    BY <1>1 DEF ToSet
  <2> QED
    BY <1>1, <1>2, <1>3, <2>1 DEF IsInjective
<1> QED
  BY <1>1, <1>5, <1>6 DEF r

(* The thread at place i leaves the list. *)
LEMMA RemoveFromList ==
  ASSUME NEW q \in Seq(Thread), IsInjective(q), NEW i \in 1..Len(q)
  PROVE  /\ RemoveAt(q, i) \in Seq(Thread)
         /\ ToSet(RemoveAt(q, i)) = ToSet(q) \ {q[i]}
         /\ IsInjective(RemoveAt(q, i))
<1> DEFINE a == SubSeq(q, 1, i - 1)
           b == SubSeq(q, i + 1, Len(q))
           n == Len(q)
           r == RemoveAt(q, i)
<1>1. n \in Nat \ {0} /\ DOMAIN q = 1..n /\ i \in Nat
  BY LenProperties
<1>2. /\ a \in Seq(Thread) /\ Len(a) = i - 1
      /\ \A j \in 1..i - 1 : a[j] = q[j]
  <2>1. \A j \in 1..i - 1 : q[j] \in Thread
    BY <1>1, ElementOfSeq
  <2>2. /\ a \in Seq(Thread) /\ Len(a) = IF 1 <= i - 1 THEN (i - 1) - 1 + 1 ELSE 0
        /\ \A j \in 1..(i - 1) - 1 + 1 : a[j] = q[1 + j - 1]
    BY <1>1, <2>1, SubSeqProperties
  <2> HIDE DEF a
  <2>3. (i - 1) - 1 + 1 = i - 1 /\ \A j \in 1..i - 1 : 1 + j - 1 = j
    BY <1>1
  <2>4. Len(a) = i - 1
    BY <1>1, <2>2
  <2> QED
    BY <2>2, <2>3, <2>4
<1>3. /\ b \in Seq(Thread) /\ Len(b) = n - i
      /\ \A j \in 1..n - i : b[j] = q[i + j]
  <2>1. \A j \in i + 1..n : q[j] \in Thread
    BY <1>1, ElementOfSeq
  <2>2. /\ b \in Seq(Thread) /\ Len(b) = IF i + 1 <= n THEN n - (i + 1) + 1 ELSE 0
        /\ \A j \in 1..n - (i + 1) + 1 : b[j] = q[i + 1 + j - 1]
    BY <1>1, <2>1, SubSeqProperties
  <2> HIDE DEF b, n
  <2>3. n - (i + 1) + 1 = n - i /\ \A j \in 1..n - i : i + 1 + j - 1 = i + j
    BY <1>1
  <2>4. i <= n
    BY <1>1 DEF n
  <2>5. Len(b) = n - i
    BY <1>1, <2>2, <2>4
  <2> QED
    BY <2>2, <2>3, <2>5
<1>4. r = a \o b
  BY DEF RemoveAt
<1>5. /\ r \in Seq(Thread) /\ Len(r) = n - 1
      /\ \A j \in 1..n - 1 : r[j] = IF j <= i - 1 THEN a[j] ELSE b[j - (i - 1)]
  <2> HIDE DEF a, b, n, r
  <2>1. /\ r \in Seq(Thread) /\ Len(r) = Len(a) + Len(b)
        /\ \A j \in 1..Len(a) + Len(b) : r[j] = IF j <= Len(a) THEN a[j] ELSE b[j - Len(a)]
    BY <1>2, <1>3, <1>4, ConcatProperties
  <2> QED
    BY <1>1, <1>2, <1>3, <2>1 DEF n
<1>6. DOMAIN r = 1..n - 1
  BY <1>5, LenProperties
<1> HIDE DEF a, b, n, r
<1>7. \A j \in 1..n - 1 : r[j] = IF j < i THEN q[j] ELSE q[j + 1]
  <2> TAKE j \in 1..n - 1
  <2>1. CASE j < i
    BY <1>1, <1>2, <1>5, <2>1
  <2>2. CASE ~(j < i)
    BY <1>1, <1>3, <1>5, <2>2 DEF n
  <2> QED
    BY <2>1, <2>2
<1>8. i \in 1..n
  BY DEF n
<1>9. \A j, k \in 1..n : q[j] = q[k] => j = k
  BY <1>1 DEF IsInjective
<1>10. IsInjective(r)
  <2> SUFFICES ASSUME NEW j \in 1..n - 1, NEW k \in 1..n - 1, r[j] = r[k] PROVE j = k
    BY <1>6 DEF IsInjective
  <2> QED
    BY <1>1, <1>7, <1>8, <1>9
<1>11. ToSet(r) = ToSet(q) \ {q[i]}
  <2>1. \A j \in 1..n - 1 : \E k \in 1..n : k # i /\ r[j] = q[k]
    <3> TAKE j \in 1..n - 1
    <3>1. CASE j < i
      BY <1>1, <1>7, <3>1, j \in 1..n
    <3>2. CASE ~(j < i)
      BY <1>1, <1>7, <3>2, j + 1 \in 1..n
    <3> QED
      BY <3>1, <3>2
  <2>2. \A k \in 1..n : k # i => \E j \in 1..n - 1 : r[j] = q[k]
    <3> TAKE k \in 1..n
    <3> HAVE k # i
    <3>1. CASE k < i
      BY <1>1, <1>7, <1>8, <3>1, k \in 1..n - 1
    <3>2. CASE k > i
      <4>1. k - 1 \in 1..n - 1 /\ (k - 1) + 1 = k /\ ~(k - 1 < i)
        BY <1>1, <3>2
      <4>2. r[k - 1] = q[k]
        BY <1>7, <4>1
      <4> QED
        BY <4>1, <4>2
    <3> QED
      BY <1>1, <3>1, <3>2
  <2>3. ToSet(r) \subseteq ToSet(q) \ {q[i]}
    BY <1>1, <1>6, <1>8, <1>9, <2>1 DEF ToSet
  <2>4. ToSet(q) \ {q[i]} \subseteq ToSet(r)
    BY <1>1, <1>6, <2>2 DEF ToSet
  <2> QED
    BY <2>3, <2>4
<1> QED
  BY <1>5, <1>10, <1>11 DEF r

(* The thread at the front leaves the list. *)
LEMMA TailOfList ==
  ASSUME NEW q \in Seq(Thread), IsInjective(q), q # <<>>
  PROVE  /\ Head(q) = q[1] /\ Head(q) \in ToSet(q) /\ Head(q) \in Thread
         /\ Tail(q) \in Seq(Thread)
         /\ ToSet(Tail(q)) = ToSet(q) \ {Head(q)}
         /\ IsInjective(Tail(q))
<1> DEFINE n == Len(q)
           r == Tail(q)
<1>1. n \in Nat \ {0} /\ DOMAIN q = 1..n
  BY EmptySeq, LenProperties
<1>2. /\ Head(q) \in Thread /\ r \in Seq(Thread) /\ Len(r) = n - 1
      /\ \A i \in 1..n - 1 : r[i] = q[i + 1]
  BY HeadTailProperties
<1>3. Head(q) = q[1]
  OBVIOUS
<1>4. DOMAIN r = 1..n - 1
  BY <1>2, LenProperties
<1> HIDE DEF n, r
<1>5. \A i, j \in 1..n : q[i] = q[j] => i = j
  BY <1>1 DEF IsInjective
<1>6. IsInjective(r)
  <2> SUFFICES ASSUME NEW i \in 1..n - 1, NEW j \in 1..n - 1, r[i] = r[j] PROVE i = j
    BY <1>4 DEF IsInjective
  <2> QED
    BY <1>1, <1>2, <1>5, i + 1 \in 1..n, j + 1 \in 1..n
<1>7. ToSet(r) = ToSet(q) \ {Head(q)}
  <2>1. \A i \in 1..n - 1 : \E k \in 1..n : k # 1 /\ r[i] = q[k]
    BY <1>1, <1>2
  <2>2. \A k \in 1..n : k # 1 => \E i \in 1..n - 1 : r[i] = q[k]
    <3> TAKE k \in 1..n
    <3> HAVE k # 1
    <3>1. k - 1 \in 1..n - 1 /\ (k - 1) + 1 = k
      BY <1>1
    <3>2. r[k - 1] = q[k]
      BY <1>2, <3>1
    <3> QED
      BY <3>1, <3>2
  <2>3. 1 \in 1..n
    BY <1>1
  <2>4. ToSet(r) \subseteq ToSet(q) \ {Head(q)}
    BY <1>1, <1>3, <1>4, <1>5, <2>1, <2>3 DEF ToSet
  <2>5. ToSet(q) \ {Head(q)} \subseteq ToSet(r)
    BY <1>1, <1>3, <1>4, <2>2 DEF ToSet
  <2> QED
    BY <2>4, <2>5
<1>8. Head(q) \in ToSet(q)
  BY <1>1, <1>3 DEF ToSet
<1> QED
  BY <1>2, <1>3, <1>6, <1>7, <1>8 DEF r

-----------------------------------------------------------------------------
(* Priorities *)

(* The priority a thread goes back to is its own or that of a waiter, and  *)
(* at least as urgent as each waiter of a mutex it keeps.                  *)
LEMMA PriorityLeftBounds ==
  ASSUME NEW t \in Thread, NEW m \in Lock, highest \in [Lock -> 0..NoPrio]
  PROVE  /\ PriorityLeft(t, m) \in 0..NoPrio - 1
         /\ PriorityLeft(t, m) <= User[t]
         /\ \A k \in (Owned(t) \ {m}) \cap Inherit : PriorityLeft(t, m) <= highest[k]
         /\ (Owned(t) \ {m}) \cap Inherit = {} => PriorityLeft(t, m) = User[t]
<1> DEFINE others == {k \in Owned(t) \ {m} : k \in Inherit}
           S == {User[t]} \cup {highest[k] : k \in others}
           Good(p) == p <= User[t] /\ \A k \in others : p <= highest[k]
<1>1. User[t] \in 0..NoPrio - 1 /\ NoPrio \in Nat
  BY MutexAssumption
<1>2. \A k \in others : highest[k] \in 0..NoPrio
  BY DEF Owned
<1>3. S \in SUBSET Nat /\ S # {}
  BY <1>1, <1>2
<1>4. \E p \in S : Good(p)
  <2>1. PICK p \in S : \A q \in S : p <= q
    <3> HIDE DEF S
    <3> QED
      BY <1>3, Least
  <2>2. User[t] \in S /\ \A k \in others : highest[k] \in S
    OBVIOUS
  <2> HIDE DEF S
  <2>3. Good(p)
    BY <2>1, <2>2
  <2> QED
    BY <2>3
<1>5. PriorityLeft(t, m) = CHOOSE p \in S : Good(p)
  BY DEF PriorityLeft
<1>6. PriorityLeft(t, m) \in S /\ Good(PriorityLeft(t, m))
  <2> HIDE DEF S, Good
  <2> QED
    BY <1>4, <1>5
<1>7. others = (Owned(t) \ {m}) \cap Inherit
  OBVIOUS
<1>8. others = {} => S = {User[t]}
  OBVIOUS
<1> HIDE DEF others
<1>9. PriorityLeft(t, m) \in Nat
  BY <1>3, <1>6
<1> QED
  BY <1>1, <1>6, <1>7, <1>8, <1>9

-----------------------------------------------------------------------------
(* The inductive invariant *)

(* The conjuncts of TypeOK that say who is where. *)
Placed(m) ==
  /\ Waiting(m) = {t \in Thread : state[t] = m}
  /\ IsInjective(queue[m])
  /\ count[m] = 0 <=> owner[m] = NoThread
  /\ owner[m] = NoThread => queue[m] = <<>>
  /\ owner[m] \notin Waiting(m)

(* Everything is free at first. *)
LEMMA InitInv == Init => Inv
<1> SUFFICES ASSUME Init PROVE Inv
  OBVIOUS
<1>1. \A m \in Lock : queue[m] = <<>> /\ Waiting(m) = {} /\ IsInjective(queue[m])
  BY DEF Init, Waiting, ToSet, IsInjective
<1>2. /\ owner \in [Lock -> Thread \cup {NoThread}]
      /\ count \in [Lock -> 0..MaxCount]
      /\ highest \in [Lock -> 0..NoPrio]
      /\ prio \in [Thread -> 0..NoPrio - 1]
      /\ state \in [Thread -> {"ready", "asleep"} \cup Lock]
      /\ timed \in [Thread -> BOOLEAN]
  BY MutexAssumption DEF Init
<1>3. queue \in [Lock -> Seq(Thread)]
  BY EmptySeq DEF Init
<1>4. \A m \in Lock : Placed(m)
  BY <1>1, MutexAssumption DEF Init, Placed
<1>5. TypeOK
  BY <1>2, <1>3, <1>4 DEF TypeOK, Placed
<1>6. Recorded
  BY <1>1, MutexAssumption DEF Init, Recorded
<1>7. PriorityRestored
  BY MutexAssumption DEF Init, PriorityRestored
<1> QED
  BY <1>5, <1>6, <1>7 DEF Inv

(* A thread that can run waits for nothing. *)
LEMMA RunnerWaitsNot ==
  ASSUME TypeOK, NEW t \in Thread, CanRun(t)
  PROVE  \A m \in Lock : t \notin Waiting(m)
  BY MutexAssumption DEF TypeOK, CanRun

(* Who waits is a thread. *)
LEMMA WaitersAreThreads ==
  ASSUME TypeOK PROVE \A m \in Lock : Waiting(m) \subseteq Thread
  BY DEF TypeOK

(* TypeOK, put together from its parts after a step. *)
LEMMA TypesNext ==
  ASSUME /\ owner' \in [Lock -> Thread \cup {NoThread}]
         /\ count' \in [Lock -> 0..MaxCount]
         /\ queue' \in [Lock -> Seq(Thread)]
         /\ highest' \in [Lock -> 0..NoPrio]
         /\ prio' \in [Thread -> 0..NoPrio - 1]
         /\ state' \in [Thread -> {"ready", "asleep"} \cup Lock]
         /\ timed' \in [Thread -> BOOLEAN],
         \A m \in Lock : Placed(m)'
  PROVE  TypeOK'
  BY DEF TypeOK, Placed

(* A free mutex is taken. *)
LEMMA GetFreeInv ==
  ASSUME Inv, NEW t \in Thread, NEW m \in Lock, GetFree(t, m) PROVE Inv'
<1> USE DEF GetFree
<1>1. t # NoThread /\ NoPrio \in Nat /\ 1 \in 0..MaxCount /\ Inherit \subseteq Lock
  BY MutexAssumption
<1>2. queue[m] = <<>> /\ Waiting(m) = {}
  BY DEF Inv, TypeOK, Waiting, ToSet
<1>3. /\ owner' \in [Lock -> Thread \cup {NoThread}]
      /\ count' \in [Lock -> 0..MaxCount]
      /\ highest' \in [Lock -> 0..NoPrio]
      /\ \A k \in Lock : Waiting(k)' = Waiting(k)
      /\ \A k \in Lock : k # m => owner'[k] = owner[k] /\ highest'[k] = highest[k]
      /\ owner'[m] = t /\ (m \in Inherit => highest'[m] = NoPrio)
  BY <1>1 DEF Inv, TypeOK, Waiting
<1>4. \A k \in Lock : Placed(k)'
  <2> TAKE k \in Lock
  <2>1. CASE k = m
    BY <1>1, <1>2, <1>3, <2>1 DEF Inv, TypeOK, Placed, Waiting
  <2>2. CASE k # m
    BY <1>3, <2>2 DEF Inv, TypeOK, Placed, Waiting
  <2> QED
    BY <2>1, <2>2
<1>5. TypeOK'
  BY <1>3, <1>4, TypesNext DEF Inv, TypeOK
<1>6. Recorded'
  <2> SUFFICES ASSUME NEW k \in Inherit
               PROVE  /\ owner'[k] # NoThread => prio'[owner'[k]] <= highest'[k]
                      /\ \A w \in Waiting(k)' : highest'[k] <= User[w]
    BY DEF Recorded
  <2>1. CASE k = m
    BY <1>1, <1>2, <1>3, <2>1 DEF Inv, TypeOK
  <2>2. CASE k # m
    BY <1>1, <1>3, <2>2 DEF Inv, Recorded
  <2> QED
    BY <2>1, <2>2
<1>7. PriorityRestored'
  <2>1. \A u \in Thread : Owned(u) \subseteq Owned(u)'
    <3>1. owner[m] = NoThread /\ NoThread \notin Thread
      BY MutexAssumption
    <3> QED
      BY <1>3, <3>1 DEF Owned
  <2> QED
    BY <2>1 DEF Inv, PriorityRestored
<1> QED
  BY <1>5, <1>6, <1>7 DEF Inv

(* Only the count of one's own mutex changes. *)
LEMMA CountInv ==
  ASSUME Inv, NEW t \in Thread, NEW m \in Lock, GetAgain(t, m) \/ PutAgain(t, m)
  PROVE  Inv'
<1>1. /\ UNCHANGED <<owner, queue, highest, prio, state, timed>>
      /\ owner[m] = t /\ t # NoThread
      /\ count' = [count EXCEPT ![m] = count'[m]]
      /\ count'[m] \in 1..MaxCount
  BY MutexAssumption, SMTT(30) DEF GetAgain, PutAgain, Inv, TypeOK
<1>2. \A k \in Lock : Placed(k)'
  <2> TAKE k \in Lock
  <2>1. count'[k] = 0 <=> count[k] = 0
    BY <1>1 DEF Inv, TypeOK
  <2> QED
    BY <1>1, <2>1 DEF Inv, TypeOK, Placed, Waiting
<1>3. count' \in [Lock -> 0..MaxCount]
  <2>1. count \in [Lock -> 0..MaxCount] /\ count'[m] \in 0..MaxCount
    BY <1>1, MutexAssumption DEF Inv, TypeOK
  <2> QED
    BY <1>1, <2>1
<1>4. TypeOK'
  BY <1>1, <1>2, <1>3, TypesNext DEF Inv, TypeOK
<1> QED
  BY <1>1, <1>4 DEF Inv, Recorded, PriorityRestored, Waiting, Owned

(* The owner becomes at least as urgent as the thread that starts to wait. *)
LEMMA GetWaitInv ==
  ASSUME Inv, NEW t \in Thread, NEW m \in Lock, NEW limit \in BOOLEAN,
         GetWait(t, m, limit)
  PROVE  Inv'
<1> USE DEF GetWait
<1> DEFINE o == owner[m]
<1>1. o \in Thread /\ o # t /\ Inherit \subseteq Lock /\ NoPrio \in Nat
  BY MutexAssumption DEF Inv, TypeOK
<1>2. \A k \in Lock : t \notin Waiting(k) /\ Waiting(k) \subseteq Thread
  BY RunnerWaitsNot, WaitersAreThreads DEF Inv
<1>3. queue[m] \in Seq(Thread) /\ IsInjective(queue[m])
  BY DEF Inv, TypeOK
<1>4. /\ Append(queue[m], t) \in Seq(Thread) /\ Append(queue[m], t) # <<>>
      /\ ToSet(Append(queue[m], t)) = Waiting(m) \cup {t}
      /\ IsInjective(Append(queue[m], t))
  BY <1>2, <1>3, AppendList DEF Waiting
<1>5. /\ queue' \in [Lock -> Seq(Thread)]
      /\ Waiting(m)' = Waiting(m) \cup {t} /\ IsInjective(queue'[m]) /\ queue'[m] # <<>>
      /\ \A k \in Lock : k # m => Waiting(k)' = Waiting(k) /\ queue'[k] = queue[k]
  BY <1>4 DEF Inv, TypeOK, Waiting
<1>6. /\ state' \in [Thread -> {"ready", "asleep"} \cup Lock]
      /\ timed' \in [Thread -> BOOLEAN]
      /\ state'[t] = m /\ \A u \in Thread : u # t => state'[u] = state[u]
  BY DEF Inv, TypeOK
<1>7. /\ highest' \in [Lock -> 0..NoPrio] /\ prio' \in [Thread -> 0..NoPrio - 1]
      /\ \A k \in Lock : highest'[k] <= highest[k] /\ (k # m => highest'[k] = highest[k])
      /\ \A u \in Thread : prio'[u] <= prio[u] /\ (u # o => prio'[u] = prio[u])
      /\ m \in Inherit => highest'[m] <= prio[t]
      /\ m \in Inherit => (prio[o] <= highest[m] => prio'[o] <= highest'[m])
      /\ m \notin Inherit => prio' = prio
  <2>1. /\ highest \in [Lock -> 0..NoPrio] /\ prio \in [Thread -> 0..NoPrio - 1]
        /\ prio[t] \in 0..NoPrio - 1 /\ prio[o] \in 0..NoPrio - 1 /\ highest[m] \in 0..NoPrio
    BY <1>1 DEF Inv, TypeOK
  <2> HIDE DEF o
  <2>2. CASE m \in Inherit
    <3>1. /\ highest' = [highest EXCEPT ![m] = Lower(highest[m], prio[t])]
          /\ prio' = [prio EXCEPT ![o] = Lower(prio[o], prio[t])]
      BY <2>2 DEF Raise, o
    <3>2. /\ Lower(highest[m], prio[t]) \in 0..NoPrio
          /\ Lower(highest[m], prio[t]) <= highest[m] /\ Lower(highest[m], prio[t]) <= prio[t]
          /\ Lower(prio[o], prio[t]) \in 0..NoPrio - 1
          /\ Lower(prio[o], prio[t]) <= prio[o]
          /\ prio[o] <= highest[m] => Lower(prio[o], prio[t]) <= Lower(highest[m], prio[t])
      BY <1>1, <2>1 DEF Lower
    <3> QED
      BY <1>1, <2>1, <2>2, <3>1, <3>2
  <2>3. CASE m \notin Inherit
    BY <1>1, <2>1, <2>3 DEF Raise
  <2> QED
    BY <2>2, <2>3
<1> HIDE DEF o
<1>8. \A k \in Lock : Placed(k)'
  <2> TAKE k \in Lock
  <2>1. CASE k = m
    BY <1>1, <1>5, <1>6, <2>1 DEF Inv, TypeOK, Placed, Waiting, o
  <2>2. CASE k # m
    BY <1>2, <1>5, <1>6, <2>2 DEF Inv, TypeOK, Placed
  <2> QED
    BY <2>1, <2>2
<1>9. TypeOK'
  BY <1>5, <1>6, <1>7, <1>8, TypesNext DEF Inv, TypeOK
<1>10. Recorded'
  <2> SUFFICES ASSUME NEW k \in Inherit
               PROVE  /\ owner'[k] # NoThread => prio'[owner'[k]] <= highest'[k]
                      /\ \A w \in Waiting(k)' : highest'[k] <= User[w]
    BY DEF Recorded
  <2>0. /\ owner[k] \in Thread \cup {NoThread} /\ highest[k] \in 0..NoPrio
        /\ highest'[k] \in 0..NoPrio /\ k \in Lock
        /\ User \in [Thread -> 0..NoPrio - 1]
    BY <1>1, <1>7, MutexAssumption DEF Inv, TypeOK
  <2>1. CASE k = m
    <3>1. prio'[o] <= highest'[m]
      BY <1>1, <1>7, <2>1 DEF Inv, Recorded, o
    <3>2. highest'[m] <= User[t]
      <4>1. prio[t] <= User[t] /\ prio[t] \in 0..NoPrio - 1
        BY DEF Inv, PriorityRestored, TypeOK
      <4> QED
        BY <1>1, <1>7, <2>0, <2>1, <4>1
    <3>3. \A w \in Waiting(m) : highest'[m] <= User[w]
      BY <1>1, <1>2, <1>7, <2>0, <2>1 DEF Inv, Recorded
    <3> QED
      BY <1>5, <2>1, <3>1, <3>2, <3>3 DEF o
  <2>2. CASE k # m
    <3>1. owner[k] # NoThread => prio'[owner[k]] <= highest[k]
      <4> SUFFICES ASSUME owner[k] # NoThread PROVE prio'[owner[k]] <= highest[k]
        OBVIOUS
      <4>1. /\ prio[owner[k]] \in 0..NoPrio - 1 /\ prio'[owner[k]] \in 0..NoPrio - 1
            /\ prio'[owner[k]] <= prio[owner[k]] /\ prio[owner[k]] <= highest[k]
        BY <1>7, <2>0 DEF Inv, Recorded, TypeOK
      <4> QED
        BY <1>1, <2>0, <4>1
    <3> QED
      BY <1>5, <1>7, <2>0, <2>2, <3>1 DEF Inv, Recorded
  <2> QED
    BY <2>1, <2>2
<1>11. PriorityRestored'
  <2>1. \A u \in Thread : Owned(u)' = Owned(u)
    BY DEF Owned
  <2>2. \A u \in Thread : prio'[u] <= User[u]
    <3> TAKE u \in Thread
    <3>1. /\ prio[u] <= User[u] /\ prio[u] \in 0..NoPrio - 1 /\ prio'[u] \in 0..NoPrio - 1
          /\ User[u] \in 0..NoPrio - 1
      BY <1>7, MutexAssumption DEF Inv, PriorityRestored, TypeOK
    <3> QED
      BY <1>1, <1>7, <3>1
  <2>3. \A u \in Thread : Owned(u) \cap Inherit = {} => prio'[u] = prio[u]
    <3>1. m \in Inherit => m \in Owned(o) \cap Inherit
      BY DEF Owned, o
    <3> QED
      BY <1>7, <3>1
  <2> QED
    BY <2>1, <2>2, <2>3 DEF Inv, PriorityRestored
<1> QED
  BY <1>9, <1>10, <1>11 DEF Inv

(* What putting m does to the priorities: only those of the thread that    *)
(* puts change, and it stays as urgent as the mutexes it keeps record.     *)
LEMMA RestoredShape ==
  ASSUME Inv, NEW t \in Thread, NEW m \in Lock, owner[m] = t, prio' = Restored(t, m)
  PROVE  /\ prio' \in [Thread -> 0..NoPrio - 1]
         /\ \A u \in Thread : u # t => prio'[u] = prio[u]
         /\ prio'[t] <= User[t]
         /\ \A k \in (Owned(t) \ {m}) \cap Inherit : prio'[t] <= highest[k]
         /\ (Owned(t) \ {m}) \cap Inherit = {} => prio'[t] = User[t]
<1>1. /\ prio \in [Thread -> 0..NoPrio - 1] /\ highest \in [Lock -> 0..NoPrio]
  BY DEF Inv, TypeOK
<1>2. CASE m \in Inherit
  <2>1. prio' = [prio EXCEPT ![t] = PriorityLeft(t, m)]
    BY <1>2 DEF Restored
  <2>2. /\ prio' \in [Thread -> 0..NoPrio - 1] /\ prio'[t] = PriorityLeft(t, m)
        /\ \A u \in Thread : u # t => prio'[u] = prio[u]
    BY <1>1, <2>1, PriorityLeftBounds
  <2> QED
    BY <1>1, <2>2, PriorityLeftBounds
<1>3. CASE m \notin Inherit
  <2>1. prio' = prio
    BY <1>3 DEF Restored
  <2>2. \A k \in Owned(t) \cap Inherit : prio[t] <= highest[k]
    BY MutexAssumption DEF Inv, Recorded, Owned
  <2>3. (Owned(t) \ {m}) \cap Inherit = Owned(t) \cap Inherit
    BY <1>3
  <2> QED
    BY <1>1, <2>1, <2>2, <2>3 DEF Inv, PriorityRestored
<1> QED
  BY <1>2, <1>3

(* Nobody waits for the mutex that is put. *)
LEMMA PutFreeInv ==
  ASSUME Inv, NEW t \in Thread, NEW m \in Lock, PutFree(t, m) PROVE Inv'
<1> USE DEF PutFree
<1>1. /\ t # NoThread /\ NoPrio \in Nat /\ 0 \in 0..MaxCount /\ Inherit \subseteq Lock
      /\ NoThread \notin Thread
  BY MutexAssumption
<1>2. Waiting(m) = {} /\ \A k \in Lock : Waiting(k)' = Waiting(k)
  BY DEF Waiting, ToSet
<1>3. /\ owner' \in [Lock -> Thread \cup {NoThread}]
      /\ count' \in [Lock -> 0..MaxCount]
      /\ highest' \in [Lock -> 0..NoPrio]
      /\ \A k \in Lock : k # m => /\ owner'[k] = owner[k] /\ highest'[k] = highest[k]
                                  /\ count'[k] = count[k]
      /\ owner'[m] = NoThread /\ count'[m] = 0 /\ (m \in Inherit => highest'[m] = NoPrio)
  BY <1>1 DEF Inv, TypeOK
<1>4. /\ prio' \in [Thread -> 0..NoPrio - 1]
      /\ \A u \in Thread : u # t => prio'[u] = prio[u]
      /\ prio'[t] <= User[t]
      /\ \A k \in (Owned(t) \ {m}) \cap Inherit : prio'[t] <= highest[k]
      /\ (Owned(t) \ {m}) \cap Inherit = {} => prio'[t] = User[t]
  BY RestoredShape
<1>5. \A k \in Lock : Placed(k)'
  <2> TAKE k \in Lock
  <2>1. CASE k = m
    BY <1>1, <1>2, <1>3, <2>1 DEF Inv, TypeOK, Placed
  <2>2. CASE k # m
    BY <1>2, <1>3, <2>2 DEF Inv, TypeOK, Placed
  <2> QED
    BY <2>1, <2>2
<1>6. TypeOK'
  BY <1>3, <1>4, <1>5, TypesNext DEF Inv, TypeOK
<1>7. Recorded'
  <2> SUFFICES ASSUME NEW k \in Inherit
               PROVE  /\ owner'[k] # NoThread => prio'[owner'[k]] <= highest'[k]
                      /\ \A w \in Waiting(k)' : highest'[k] <= User[w]
    BY DEF Recorded
  <2>1. CASE k = m
    BY <1>2, <1>3, <2>1
  <2>2. CASE k # m /\ owner[k] = t
    BY <1>1, <1>2, <1>3, <1>4, <2>2 DEF Inv, Recorded, Owned
  <2>3. CASE k # m /\ owner[k] # t
    BY <1>1, <1>2, <1>3, <1>4, <2>3 DEF Inv, Recorded, TypeOK
  <2> QED
    BY <2>1, <2>2, <2>3
<1>8. PriorityRestored'
  <2>1. Owned(t)' = Owned(t) \ {m} /\ \A u \in Thread : u # t => Owned(u)' = Owned(u)
    BY <1>1, <1>3 DEF Owned
  <2> QED
    BY <1>4, <2>1 DEF Inv, PriorityRestored
<1> QED
  BY <1>6, <1>7, <1>8 DEF Inv

(* What handing over m does to its list: w, the thread at the front of the *)
(* list in its order, leaves it, and nobody is more urgent than w.         *)
LEMMA HandedList ==
  ASSUME Inv, NEW t \in Thread, NEW m \in Lock, PutHand(t, m)
  PROVE  \E w \in Waiting(m), left \in Seq(Thread) :
           /\ owner' = [owner EXCEPT ![m] = w]
           /\ queue' = [queue EXCEPT ![m] = left]
           /\ state' = [state EXCEPT ![w] = "ready"]
           /\ timed' = [timed EXCEPT ![w] = FALSE]
           /\ highest' = IF m \in Inherit
                         THEN [highest EXCEPT ![m] = IF left = <<>> THEN NoPrio
                                                                    ELSE prio[left[1]]]
                         ELSE highest
           /\ ToSet(left) = Waiting(m) \ {w} /\ IsInjective(left)
           /\ m \in Inherit =>
                /\ \A u \in Waiting(m) : prio[w] <= prio[u]
                /\ left # <<>> => /\ left[1] \in ToSet(left)
                                  /\ \A u \in ToSet(left) : prio[left[1]] <= prio[u]
<1> DEFINE q == InOrder(m, queue[m])
           w == Head(q)
           left == InOrder(m, Tail(q))
<1>1. /\ queue[m] \in Seq(Thread) /\ IsInjective(queue[m]) /\ queue[m] # <<>>
      /\ prio \in [Thread -> Nat] /\ ToSet(queue[m]) = Waiting(m)
  BY MutexAssumption DEF Inv, TypeOK, PutHand, Waiting
<1>2. \A l \in Seq(Thread) : IsInjective(l) =>
         /\ InOrder(m, l) \in Seq(Thread) /\ Len(InOrder(m, l)) = Len(l)
         /\ ToSet(InOrder(m, l)) = ToSet(l) /\ IsInjective(InOrder(m, l))
         /\ m \in Inherit /\ l # <<>> => \A u \in ToSet(l) : prio[InOrder(m, l)[1]] <= prio[u]
  BY <1>1, PrioritizedList DEF InOrder
<1>3. /\ q \in Seq(Thread) /\ Len(q) = Len(queue[m]) /\ ToSet(q) = Waiting(m) /\ IsInjective(q)
      /\ m \in Inherit => \A u \in Waiting(m) : prio[q[1]] <= prio[u]
  BY <1>1, <1>2
<1>4. q # <<>>
  BY <1>1, <1>3, EmptySeq
<1>5. /\ w = q[1] /\ w \in ToSet(q)
      /\ Tail(q) \in Seq(Thread) /\ ToSet(Tail(q)) = ToSet(q) \ {w} /\ IsInjective(Tail(q))
  <2> HIDE DEF q
  <2> QED
    BY <1>3, <1>4, TailOfList
<1>6. /\ left \in Seq(Thread) /\ Len(left) = Len(Tail(q))
      /\ ToSet(left) = Waiting(m) \ {w} /\ IsInjective(left)
      /\ m \in Inherit /\ Tail(q) # <<>> => \A u \in ToSet(left) : prio[left[1]] <= prio[u]
  <2> HIDE DEF q
  <2> QED
    BY <1>2, <1>3, <1>5
<1>7. left # <<>> => Head(left) = left[1] /\ left[1] \in ToSet(left) /\ Tail(q) # <<>>
  <2> HIDE DEF q, left
  <2> QED
    BY <1>5, <1>6, EmptySeq, TailOfList
<1>8. /\ owner' = [owner EXCEPT ![m] = w]
      /\ queue' = [queue EXCEPT ![m] = left]
      /\ state' = [state EXCEPT ![w] = "ready"]
      /\ timed' = [timed EXCEPT ![w] = FALSE]
      /\ highest' = IF m \in Inherit
                    THEN [highest EXCEPT ![m] = IF left = <<>> THEN NoPrio
                                                               ELSE prio[Head(left)]]
                    ELSE highest
  BY DEF PutHand
<1> HIDE DEF q, w, left
<1> QED
  BY <1>3, <1>5, <1>6, <1>7, <1>8

(* The mutex is handed to the thread at the front. *)
LEMMA PutHandInv ==
  ASSUME Inv, NEW t \in Thread, NEW m \in Lock, PutHand(t, m) PROVE Inv'
<1>1. PICK w \in Waiting(m), left \in Seq(Thread) :
           /\ owner' = [owner EXCEPT ![m] = w]
           /\ queue' = [queue EXCEPT ![m] = left]
           /\ state' = [state EXCEPT ![w] = "ready"]
           /\ timed' = [timed EXCEPT ![w] = FALSE]
           /\ highest' = IF m \in Inherit
                         THEN [highest EXCEPT ![m] = IF left = <<>> THEN NoPrio
                                                                    ELSE prio[left[1]]]
                         ELSE highest
           /\ ToSet(left) = Waiting(m) \ {w} /\ IsInjective(left)
           /\ m \in Inherit =>
                /\ \A u \in Waiting(m) : prio[w] <= prio[u]
                /\ left # <<>> => /\ left[1] \in ToSet(left)
                                  /\ \A u \in ToSet(left) : prio[left[1]] <= prio[u]
  BY HandedList
<1>2. /\ owner[m] = t /\ count[m] = 1 /\ count' = count /\ prio' = Restored(t, m)
      /\ t # NoThread /\ Inherit \subseteq Lock /\ NoPrio \in Nat /\ NoThread \notin Thread
  BY MutexAssumption DEF PutHand
<1>3. /\ \A k \in Lock : Waiting(k) \subseteq Thread /\ t \notin Waiting(k)
      /\ w \in Thread /\ w # t /\ state[w] = m
      /\ \A k \in Lock : k # m => w \notin Waiting(k)
  BY <1>1, RunnerWaitsNot, WaitersAreThreads, SMTT(30) DEF Inv, TypeOK, PutHand
<1>4. /\ prio' \in [Thread -> 0..NoPrio - 1]
      /\ \A u \in Thread : u # t => prio'[u] = prio[u]
      /\ prio'[t] <= User[t]
      /\ \A k \in (Owned(t) \ {m}) \cap Inherit : prio'[t] <= highest[k]
      /\ (Owned(t) \ {m}) \cap Inherit = {} => prio'[t] = User[t]
  BY <1>2, RestoredShape
<1>5. /\ owner' \in [Lock -> Thread \cup {NoThread}] /\ owner'[m] = w
      /\ queue' \in [Lock -> Seq(Thread)] /\ queue'[m] = left
      /\ state' \in [Thread -> {"ready", "asleep"} \cup Lock] /\ state'[w] = "ready"
      /\ timed' \in [Thread -> BOOLEAN]
      /\ \A u \in Thread : u # w => state'[u] = state[u]
      /\ \A k \in Lock : k # m => owner'[k] = owner[k] /\ queue'[k] = queue[k]
  BY <1>1, <1>3 DEF Inv, TypeOK
<1>6. Waiting(m)' = Waiting(m) \ {w} /\ \A k \in Lock : k # m => Waiting(k)' = Waiting(k)
  BY <1>1, <1>5 DEF Waiting
<1>7. /\ highest' \in [Lock -> 0..NoPrio]
      /\ \A k \in Lock : k # m => highest'[k] = highest[k]
      /\ m \in Inherit => highest'[m] = IF left = <<>> THEN NoPrio ELSE prio[left[1]]
  <2>1. highest \in [Lock -> 0..NoPrio] /\ NoPrio \in 0..NoPrio
    BY <1>2 DEF Inv, TypeOK
  <2>2. m \in Inherit /\ left # <<>> => prio[left[1]] \in 0..NoPrio
    BY <1>1, <1>2, <1>3 DEF Inv, TypeOK
  <2> QED
    BY <1>1, <2>1, <2>2
<1>8. \A k \in Lock : Placed(k)'
  <2> TAKE k \in Lock
  <2>1. CASE k = m
    <3>1. Waiting(m)' = {u \in Thread : state'[u] = m}
      <4>1. Waiting(m) = {u \in Thread : state[u] = m} /\ m # "ready"
        BY MutexAssumption DEF Inv, TypeOK
      <4> QED
        BY <1>3, <1>5, <1>6, <4>1
    <3>2. count'[m] = 1 /\ owner'[m] # NoThread /\ owner'[m] \notin Waiting(m)'
      BY <1>2, <1>3, <1>5, <1>6
    <3> QED
      BY <1>1, <1>5, <2>1, <3>1, <3>2 DEF Placed
  <2>2. CASE k # m
    <3>1. Waiting(k)' = {u \in Thread : state'[u] = k}
      BY <1>3, <1>5, <1>6, <2>2, MutexAssumption, SMTT(30) DEF Inv, TypeOK
    <3> QED
      BY <1>2, <1>5, <1>6, <2>2, <3>1 DEF Placed, Inv, TypeOK
  <2> QED
    BY <2>1, <2>2
<1>9. TypeOK'
  BY <1>2, <1>4, <1>5, <1>7, <1>8, TypesNext DEF Inv, TypeOK
<1>10. Recorded'
  <2> SUFFICES ASSUME NEW k \in Inherit
               PROVE  /\ owner'[k] # NoThread => prio'[owner'[k]] <= highest'[k]
                      /\ \A u \in Waiting(k)' : highest'[k] <= User[u]
    BY DEF Recorded
  <2>1. CASE k = m /\ left = <<>>
    <3>1. Waiting(m)' = {}
      BY <1>5, <2>1 DEF Waiting, ToSet
    <3>2. prio'[w] \in 0..NoPrio - 1 /\ highest'[m] = NoPrio
      BY <1>3, <1>4, <1>7, <2>1
    <3> QED
      BY <1>2, <1>5, <2>1, <3>1, <3>2
  <2>2. CASE k = m /\ left # <<>>
    <3>1. prio'[w] <= highest'[m]
      BY <1>1, <1>3, <1>4, <1>7, <2>2
    <3>2. \A u \in Waiting(m)' : highest'[m] <= User[u]
      <4> TAKE u \in Waiting(m)'
      <4>1. u \in Thread /\ u \in ToSet(left) /\ left[1] \in Thread
        BY <1>1, <1>3, <1>6, <2>2
      <4>2. prio[left[1]] <= prio[u] /\ prio[u] <= User[u]
        BY <1>1, <2>2, <4>1 DEF Inv, PriorityRestored
      <4>3. /\ prio[left[1]] \in 0..NoPrio - 1 /\ prio[u] \in 0..NoPrio - 1
            /\ User[u] \in 0..NoPrio - 1
        BY <4>1, MutexAssumption DEF Inv, TypeOK
      <4> QED
        BY <1>2, <1>7, <2>2, <4>2, <4>3
    <3> QED
      BY <1>5, <2>2, <3>1, <3>2
  <2>3. CASE k # m /\ owner[k] = t
    BY <1>2, <1>4, <1>5, <1>6, <1>7, <2>3, ZenonT(60) DEF Inv, Recorded, Owned
  <2>4. CASE k # m /\ owner[k] # t
    BY <1>2, <1>4, <1>5, <1>6, <1>7, <2>4, SMTT(30) DEF Inv, Recorded, TypeOK
  <2> QED
    BY <2>1, <2>2, <2>3, <2>4
<1>11. PriorityRestored'
  <2>1. Owned(t)' = Owned(t) \ {m} /\ \A u \in Thread : u # t => Owned(u) \subseteq Owned(u)'
    BY <1>2, <1>3, <1>5 DEF Owned
  <2> QED
    BY <1>4, <2>1 DEF Inv, PriorityRestored
<1> QED
  BY <1>9, <1>10, <1>11 DEF Inv

(* A wait that has lasted too long: what it did to the owner stays. *)
LEMMA TimeoutInv ==
  ASSUME Inv, NEW t \in Thread, Timeout(t) PROVE Inv'
<1>0. PICK m \in Lock : m = state[t]
  BY DEF Timeout
<1>1. /\ m \in Lock /\ m # "ready"
      /\ UNCHANGED <<owner, count, highest, prio>>
      /\ Waiting(m) = {u \in Thread : state[u] = m}
  BY <1>0, MutexAssumption DEF Timeout, Inv, TypeOK
<1>2. PICK i \in DOMAIN queue[m] :
        queue[m][i] = t /\ queue' = [queue EXCEPT ![m] = RemoveAt(queue[m], i)]
  BY <1>0 DEF Timeout
<1>3. queue[m] \in Seq(Thread) /\ IsInjective(queue[m]) /\ i \in 1..Len(queue[m])
  BY <1>1, <1>2, LenProperties DEF Inv, TypeOK
<1>4. /\ RemoveAt(queue[m], i) \in Seq(Thread)
      /\ ToSet(RemoveAt(queue[m], i)) = Waiting(m) \ {t}
      /\ IsInjective(RemoveAt(queue[m], i))
  BY <1>2, <1>3, RemoveFromList DEF Waiting
<1>5. /\ state' = [state EXCEPT ![t] = "ready"] /\ timed' = [timed EXCEPT ![t] = FALSE]
  BY DEF Timeout
<1>6. /\ queue' \in [Lock -> Seq(Thread)]
      /\ Waiting(m)' = Waiting(m) \ {t} /\ IsInjective(queue'[m])
      /\ \A k \in Lock : k # m => Waiting(k)' = Waiting(k) /\ queue'[k] = queue[k]
      /\ state' \in [Thread -> {"ready", "asleep"} \cup Lock] /\ timed' \in [Thread -> BOOLEAN]
      /\ state'[t] = "ready" /\ \A u \in Thread : u # t => state'[u] = state[u]
  <2>1. /\ queue \in [Lock -> Seq(Thread)]
        /\ state \in [Thread -> {"ready", "asleep"} \cup Lock] /\ timed \in [Thread -> BOOLEAN]
    BY DEF Inv, TypeOK
  <2>2. /\ queue' \in [Lock -> Seq(Thread)] /\ queue'[m] = RemoveAt(queue[m], i)
        /\ \A k \in Lock : k # m => queue'[k] = queue[k]
    BY <1>1, <1>2, <1>4, <2>1
  <2>3. Waiting(m)' = Waiting(m) \ {t} /\ IsInjective(queue'[m])
    BY <1>4, <2>2 DEF Waiting
  <2>4. \A k \in Lock : k # m => Waiting(k)' = Waiting(k)
    BY <2>2 DEF Waiting
  <2> QED
    BY <1>5, <2>1, <2>2, <2>3, <2>4
<1>7. \A k \in Lock : Placed(k)'
  <2> TAKE k \in Lock
  <2>1. CASE k = m
    <3>1. Waiting(m)' = {u \in Thread : state'[u] = m}
      BY <1>1, <1>6
    <3>2. t \in Waiting(m)
      BY <1>0, <1>1
    <3>3. queue[m] # <<>>
      BY <3>2 DEF Waiting, ToSet
    <3>4. owner[m] # NoThread
      BY <1>1, <3>3 DEF Inv, TypeOK
    <3>5. /\ IsInjective(queue[m])' /\ owner'[m] = owner[m] /\ count'[m] = count[m]
          /\ count[m] # 0 /\ owner[m] \notin Waiting(m)
      BY <1>1, <1>6, <3>4 DEF Inv, TypeOK
    <3> QED
      BY <1>6, <2>1, <3>1, <3>4, <3>5 DEF Placed
  <2>2. CASE k # m
    <3>1. /\ k # "ready" /\ Waiting(k) = {u \in Thread : state[u] = k}
          /\ state[t] # k
      BY <1>0, <1>1, <2>2, MutexAssumption DEF Inv, TypeOK
    <3>2. Waiting(k)' = {u \in Thread : state'[u] = k}
      BY <1>6, <2>2, <3>1
    <3> QED
      BY <1>1, <1>6, <2>2, <3>2 DEF Placed, Inv, TypeOK
  <2> QED
    BY <2>1, <2>2
<1>8. TypeOK'
  BY <1>1, <1>6, <1>7, TypesNext DEF Inv, TypeOK
<1>9. Recorded'
  <2>1. \A k \in Lock : Waiting(k)' \subseteq Waiting(k)
    <3> TAKE k \in Lock
    <3>1. CASE k = m
      BY <1>6, <3>1
    <3>2. CASE k # m
      BY <1>6, <3>2
    <3> QED
      BY <3>1, <3>2
  <2> QED
    BY <1>1, <2>1, MutexAssumption DEF Inv, Recorded
<1>10. PriorityRestored'
  BY <1>1 DEF Inv, PriorityRestored, Owned
<1> QED
  BY <1>8, <1>9, <1>10 DEF Inv

(* Sleeping and waking move no mutex. *)
LEMMA SleepInv ==
  ASSUME Inv, NEW t \in Thread, Sleep(t) \/ Wake(t) PROVE Inv'
<1>1. /\ UNCHANGED <<owner, count, queue, highest, prio, timed>>
      /\ state[t] \in {"ready", "asleep"}
      /\ \E p \in {"ready", "asleep"} : state' = [state EXCEPT ![t] = p]
  BY DEF Sleep, Wake, CanRun
<1>2. /\ state' \in [Thread -> {"ready", "asleep"} \cup Lock]
      /\ state'[t] \in {"ready", "asleep"}
      /\ \A u \in Thread : u # t => state'[u] = state[u]
  BY <1>1 DEF Inv, TypeOK
<1>3. \A k \in Lock : Placed(k)'
  <2> TAKE k \in Lock
  <2>1. k \notin {"ready", "asleep"} /\ Waiting(k) = {u \in Thread : state[u] = k}
    BY MutexAssumption DEF Inv, TypeOK
  <2>2. Waiting(k)' = Waiting(k)
    BY <1>1 DEF Waiting
  <2>3. Waiting(k)' = {u \in Thread : state'[u] = k}
    BY <1>1, <1>2, <2>1, <2>2
  <2> QED
    BY <1>1, <2>2, <2>3 DEF Inv, TypeOK, Placed
<1>4. TypeOK'
  BY <1>1, <1>2, <1>3, TypesNext DEF Inv, TypeOK
<1> QED
  BY <1>1, <1>4 DEF Inv, Recorded, PriorityRestored, Waiting, Owned

(* Inv is inductive. *)
LEMMA NextInv == Inv /\ [Next]_vars => Inv'
<1> SUFFICES ASSUME Inv, [Next]_vars PROVE Inv'
  OBVIOUS
<1>1. ASSUME NEW t \in Thread, NEW m \in Lock, Get(t, m) PROVE Inv'
  BY <1>1, GetFreeInv, CountInv, GetWaitInv DEF Get
<1>2. ASSUME NEW t \in Thread, NEW m \in Lock, Put(t, m) PROVE Inv'
  BY <1>2, CountInv, PutFreeInv, PutHandInv DEF Put
<1>3. ASSUME NEW t \in Thread, Timeout(t) \/ Sleep(t) \/ Wake(t) PROVE Inv'
  BY <1>3, TimeoutInv, SleepInv
<1>4. CASE UNCHANGED vars
  BY <1>4 DEF vars, Inv, TypeOK, Recorded, PriorityRestored, Waiting, Owned
<1> QED
  BY <1>1, <1>2, <1>3, <1>4 DEF Next

-----------------------------------------------------------------------------
(* The theorems *)

(* The variables keep their types, the lists of the mutexes agree with the *)
(* states of the threads, and every inheriting mutex records a priority    *)
(* that its owner has and that covers its waiters, for any number of       *)
(* threads and mutexes.                                                    *)
THEOREM Inductive == Spec => []Inv
  BY InitInv, NextInv, PTL DEF Spec

(* The owner's priority is at most the recorded one, and that covers every *)
(* waiter.                                                                 *)
LEMMA InvOutranks == Inv => NotOutranked
<1> SUFFICES ASSUME Inv, NEW m \in Inherit, NEW w \in Waiting(m)
             PROVE  prio[owner[m]] <= User[w]
  BY DEF NotOutranked
<1>1. m \in Lock /\ w \in Thread /\ NoPrio \in Nat
  BY WaitersAreThreads, MutexAssumption DEF Inv
<1>2. owner[m] \in Thread
  BY <1>1 DEF Inv, TypeOK, Waiting, ToSet
<1>3. prio[owner[m]] <= highest[m] /\ highest[m] <= User[w]
  BY <1>2, MutexAssumption DEF Inv, Recorded
<1>4. /\ prio[owner[m]] \in 0..NoPrio - 1 /\ highest[m] \in 0..NoPrio
      /\ User[w] \in 0..NoPrio - 1
  BY <1>1, <1>2, MutexAssumption DEF Inv, TypeOK
<1> QED
  BY <1>1, <1>3, <1>4

(* The owner of an inheriting mutex is never less urgent than a thread     *)
(* that waits for it was created to be.                                    *)
THEOREM NoInversion == Spec => []NotOutranked
  BY InvOutranks, Inductive, PTL

(* A thread without an inheriting mutex has its own priority.              *)
THEOREM NothingInheritedStays == Spec => []PriorityRestored
<1>1. Inv => PriorityRestored
  BY DEF Inv
<1> QED
  BY <1>1, Inductive, PTL

(* Only handing a mutex over gives it to another owner.                    *)
LEMMA HandsOver ==
  ASSUME Inv, [Next]_vars, NEW m \in Inherit,
         owner[m] # NoThread, owner'[m] \notin {owner[m], NoThread}
  PROVE  \A w \in Waiting(m) : prio[owner'[m]] <= prio[w]
<1>1. Inherit \subseteq Lock /\ owner \in [Lock -> Thread \cup {NoThread}]
  BY MutexAssumption DEF Inv, TypeOK
<1>2. PICK t \in Thread : \E k \in Lock : PutHand(t, k)
  <2>1. ASSUME NEW t \in Thread, NEW k \in Lock, GetFree(t, k) PROVE FALSE
    BY <1>1, <2>1 DEF GetFree
  <2>2. ASSUME NEW t \in Thread, NEW k \in Lock, PutFree(t, k) PROVE FALSE
    BY <1>1, <2>2 DEF PutFree
  <2> QED
    BY <2>1, <2>2 DEF Next, Get, Put, vars, GetAgain, GetWait, PutAgain, Timeout, Sleep, Wake
<1>3. PICK k \in Lock : PutHand(t, k)
  BY <1>2
<1>4. PICK w \in Waiting(k) :
        /\ owner' = [owner EXCEPT ![k] = w]
        /\ k \in Inherit => \A u \in Waiting(k) : prio[w] <= prio[u]
  BY <1>3, HandedList
<1>5. k = m /\ owner'[m] = w
  BY <1>1, <1>4
<1> QED
  BY <1>4, <1>5

(* A mutex is handed to the most urgent of its waiters, for every number   *)
(* of waiters and every order of their arrival.                            *)
THEOREM MostUrgentFirst == Spec => HandedToMostUrgent
<1>1. Inv /\ [Next]_vars =>
        [\A m \in Inherit :
           owner[m] # NoThread /\ owner'[m] \notin {owner[m], NoThread} =>
             \A w \in Waiting(m) : prio[owner'[m]] <= prio[w]]_vars
  BY HandsOver
<1> QED
  BY <1>1, Inductive, PTL DEF Spec, HandedToMostUrgent
==============================================================================
