------------------------------ MODULE EthProofs -------------------------------
(***************************************************************************)
(* Proofs about the Ethernet driver (EthDriver): the rings, the places of  *)
(* the packets, the marks, the notes of the interrupt, and the promise of  *)
(* the packet pool.                                                        *)
(***************************************************************************)
EXTENDS EthDriver, Integers, FiniteSetTheorems, SequenceTheorems, TLAPS

-----------------------------------------------------------------------------
(* Rings of n slots. A window of a ring is a number of slots from one slot *)
(* on, going round after the last; the slot k places after slot i needs no *)
(* division as long as k is at most n.                                     *)
Around(i, k, n) == IF i + k < n THEN i + k ELSE i + k - n

InWindow(i, from, k, n) == (from <= i /\ i < from + k) \/ i + n < from + k

LEMMA AroundType ==
  ASSUME NEW n \in Nat \ {0}, NEW i \in 0..(n - 1), NEW k \in 0..n
  PROVE  Around(i, k, n) \in 0..(n - 1)
  BY DEF Around

(* The division of RingsSound. *)
LEMMA AfterAround ==
  ASSUME NEW n \in Nat \ {0}, NEW i \in 0..(n - 1), NEW k \in 0..n
  PROVE  After(i, k, n) = Around(i, k, n)
  <1>1. \A a \in 0..(n - 1) : a % n = a
    OBVIOUS
  <1>2. \A a \in n..(2 * n - 1) : a % n = a - n
    OBVIOUS
  <1> QED
    BY <1>1, <1>2 DEF After, Around

LEMMA AroundNext ==
  ASSUME NEW n \in Nat \ {0}, NEW i \in 0..(n - 1), NEW k \in 0..(n - 1)
  PROVE  Around(i, k + 1, n) =
           IF Around(i, k, n) = n - 1 THEN 0 ELSE Around(i, k, n) + 1
  BY DEF Around

LEMMA AroundTurns ==
  ASSUME NEW n \in Nat \ {0}, NEW i \in 0..(n - 1), NEW j \in 0..(n - 1),
         NEW a \in 0..n, NEW b \in 0..n, a + b <= n, j = Around(i, a, n)
  PROVE  Around(j, b, n) = Around(i, a + b, n)
  BY DEF Around

LEMMA AroundZero ==
  ASSUME NEW n \in Nat \ {0}, NEW i \in 0..(n - 1)
  PROVE  Around(i, 0, n) = i /\ Around(i, n, n) = i
  BY DEF Around

(* A window grows at its end and shrinks at its beginning. *)
LEMMA WindowGrows ==
  ASSUME NEW n \in Nat \ {0}, NEW from \in 0..(n - 1), NEW k \in 0..(n - 1),
         NEW i \in 0..(n - 1)
  PROVE  InWindow(i, from, k + 1, n) <=>
           InWindow(i, from, k, n) \/ i = Around(from, k, n)
  BY DEF InWindow, Around

LEMMA WindowShrinks ==
  ASSUME NEW n \in Nat \ {0}, NEW from \in 0..(n - 1), NEW k \in 1..n,
         NEW i \in 0..(n - 1)
  PROVE  InWindow(i, Around(from, 1, n), k - 1, n) <=>
           InWindow(i, from, k, n) /\ i # from
  BY DEF InWindow, Around

LEMMA WindowFull ==
  ASSUME NEW n \in Nat \ {0}, NEW from \in 0..(n - 1), NEW i \in 0..(n - 1)
  PROVE  InWindow(i, from, n, n) /\ ~InWindow(i, from, 0, n)
  BY DEF InWindow

LEMMA WindowFirst ==
  ASSUME NEW n \in Nat \ {0}, NEW from \in 0..(n - 1), NEW k \in 1..n
  PROVE  InWindow(from, from, k, n)
  BY DEF InWindow

LEMMA WindowInside ==
  ASSUME NEW n \in Nat \ {0}, NEW from \in 0..(n - 1), NEW f \in 0..n, NEW c \in 0..n,
         f + c <= n, NEW i \in 0..(n - 1), InWindow(i, Around(from, f, n), c, n)
  PROVE  InWindow(i, from, f + c, n)
  BY DEF InWindow, Around

LEMMA WindowIndex ==
  ASSUME NEW n \in Nat \ {0}, NEW from \in 0..(n - 1), NEW c \in 0..n,
         NEW k \in 0..(n - 1)
  PROVE  InWindow(Around(from, k, n), from, c, n) <=> k < c
  BY DEF InWindow, Around

(* A window of k slots has k slots. *)
LEMMA WindowCount ==
  ASSUME NEW n \in Nat \ {0}, NEW from \in 0..(n - 1), NEW c \in 0..n
  PROVE  Cardinality({i \in 0..(n - 1) : InWindow(i, from, c, n)}) = c
  <1> DEFINE W == {i \in 0..(n - 1) : InWindow(i, from, c, n)}
             f == [k \in 0..(c - 1) |-> Around(from, k, n)]
  <1>1. f \in [0..(c - 1) -> W]
    <2> SUFFICES ASSUME NEW k \in 0..(c - 1) PROVE Around(from, k, n) \in W
      OBVIOUS
    <2> QED
      BY WindowIndex, AroundType
  <1>2. \A j, k \in 0..(c - 1) : f[j] = f[k] => j = k
    BY DEF Around
  <1>3. ASSUME NEW i \in W PROVE \E k \in 0..(c - 1) : f[k] = i
    <2> DEFINE k == IF from <= i THEN i - from ELSE i - from + n
    <2>1. k \in 0..(c - 1) /\ Around(from, k, n) = i
      BY DEF InWindow, Around
    <2> QED
      BY <2>1
  <1>4. f \in Bijection(0..(c - 1), W)
    <2> HIDE DEF f, W
    <2> QED
      BY <1>1, <1>2, <1>3, Zenon DEF Bijection, Injection, Surjection, IsInjective
  <1>5. IsFiniteSet(0..(c - 1)) /\ Cardinality(0..(c - 1)) = c
    BY FS_Interval
  <1> HIDE DEF f, W
  <1> QED
    BY <1>4, <1>5, FS_Bijection DEF W, ExistsBijection

-----------------------------------------------------------------------------
(* The inductive invariant.                                                *)

PoolType ==
  [free : SUBSET Packet, tag : [Packet -> {"free", "allocated", "enqueued"}],
   done : [Packet -> BOOLEAN], waits : BOOLEAN, given : PacketOrNull]

(* The receive ring, from the build index on: bcnt descriptors without a   *)
(* buffer, f filled ones, c ones the DMA owns.                             *)
RxRing(f, c) ==
  /\ rx.bcnt + f + c = RxCount
  /\ rx.idx = Around(rx.bidx, rx.bcnt, RxCount)
  /\ rx.dma = Around(rx.idx, f, RxCount)
  /\ rx.bidx = Around(rx.dma, c, RxCount)
  /\ \A i \in RxSlot : rx.buf[i] = NoPacket <=> InWindow(i, rx.bidx, rx.bcnt, RxCount)
  /\ \A i \in RxSlot : rx.own[i] <=> InWindow(i, rx.dma, c, RxCount)

(* Until the descriptors are built the receive ring is empty. *)
RxEmpty ==
  /\ rx.bcnt = 0 /\ rx.idx = 0 /\ rx.bidx = 0 /\ rx.dma = 0
  /\ \A i \in RxSlot : rx.buf[i] = NoPacket /\ ~rx.own[i]

RxSound ==
  IF eth = "down" /\ ip.pc # "build"
  THEN RxEmpty ELSE \E f, c \in 0..RxCount : RxRing(f, c)

(* The transmit ring, from the release index on: f packets that have been  *)
(* sent, c packets the DMA owns.                                           *)
TxRing(f, c) ==
  /\ tx.used = f + c
  /\ tx.dma = Around(tx.rel, f, TxCount)
  /\ tx.cur = Around(tx.rel, tx.used, TxCount)
  /\ \A i \in TxSlot : tx.pkt[i] # NoPacket <=> InWindow(i, tx.rel, tx.used, TxCount)
  /\ \A i \in TxSlot : tx.own[i] <=> InWindow(i, tx.dma, c, TxCount)

TxSound == \E f, c \in 0..TxCount : TxRing(f, c)

(* The interrupt's notes are on their way: to the IP thread's events, or   *)
(* among those it has picked up and not begun to serve.                    *)
Told ==
  deferred # {} =>
    \/ "driver" \in events
    \/ "driver" \in ip.got /\ ip.pc \notin {"deferred", "read", "build"}

(* As long as the link is down nothing has happened.                       *)
Idle ==
  /\ ip.pc = "enable" => eth = "down"
  /\ eth = "down" =>
       /\ ip.pc \in {"enable", "loop", "build"}
       /\ ip.frame = NoPacket /\ ip.work = {} /\ ip.got \subseteq {"timer"}
       /\ events = {} /\ irq = {} /\ deferred = {}
       /\ rxq = <<>> /\ sentq = <<>> /\ ~conn /\ ~snd.armed /\ web.pc = "listen"

(* A packet was asked for and has not been picked up.                      *)
Asked(q) == q.waits \/ q.given # NoPacket

(* Which packets the threads hold where they are.                          *)
Hands ==
  /\ web.hand # NoPacket <=> web.pc \in {"send", "pool_seg", "send_seg", "trim", "queue"}
  /\ web.seg # NoPacket <=> web.pc = "send_seg"
  /\ Asked(pool) <=> web.pc \in {"pool", "pool_seg"}
  /\ ~(pool.waits /\ pool.given # NoPacket)
  /\ web.pc \in {"pool_seg", "send_seg"} => Len(sentq) < QueueMax
  /\ ip.frame # NoPacket => ip.pc \in {"frame", "reset", "resend", "build"}
  /\ ip.pc = "frame" => ip.frame # NoPacket

(* Where a packet is.                                                      *)
Place == {"pool", "rx", "frame", "rxq", "sock", "hand", "seg", "given", "sent"}

(* A pool q agrees with the places w and with the packets TCP keeps (kept) *)
(* and the driver holds (ring): of one packet, and of all.                 *)
BooksOf(q, w, kept, ring, p) ==
  /\ q.tag[p] = "free" <=> p \in q.free
  /\ q.tag[p] = "enqueued" <=> p \in kept
  /\ q.done[p] <=> p \in kept /\ p \notin ring
  /\ p \in q.free => w[p] = "pool"
  /\ p = q.given => w[p] = "given"
  /\ p \in kept \cup ring => w[p] = "sent"

Books(q, w, kept, ring) == \A p \in Packet : BooksOf(q, w, kept, ring, p)

Elems(s)    == {s[i] : i \in DOMAIN s}
Distinct(s) == \A i, j \in DOMAIN s : s[i] = s[j] => i = j

(* The places outside the pool, TCP and the driver. *)
Elsewhere(w) ==
  /\ \A i \in RxSlot : rx.buf[i] # NoPacket => w[rx.buf[i]] = "rx"
  /\ ip.frame # NoPacket => w[ip.frame] = "frame"
  /\ \A p \in Elems(rxq) : w[p] = "rxq"
  /\ \A p \in sock : w[p] = "sock"
  /\ web.hand # NoPacket => w[web.hand] = "hand"
  /\ web.seg # NoPacket => w[web.seg] = "seg"

(* No packet is in a ring or a queue twice.                                *)
RxOnce == \A i, j \in RxSlot : rx.buf[i] = rx.buf[j] /\ rx.buf[i] # NoPacket => i = j
TxOnce == \A i, j \in TxSlot : tx.pkt[i] = tx.pkt[j] /\ tx.pkt[i] # NoPacket => i = j
Once   == RxOnce /\ TxOnce /\ Distinct(rxq) /\ Distinct(sentq)

Placed(w) == Books(pool, w, Queued, InRing) /\ Elsewhere(w)

Packets == Once /\ \E w \in [Packet -> Place] : Placed(w)

Sound == TypeOK /\ RxSound /\ TxSound /\ Told /\ Idle /\ Hands /\ Packets

-----------------------------------------------------------------------------
(* Sequences of packets as queues.                                         *)
LEMMA TailElems ==
  ASSUME NEW s \in Seq(Packet), s # <<>>, Distinct(s)
  PROVE  /\ Tail(s) \in Seq(Packet) /\ Len(Tail(s)) = Len(s) - 1 /\ Len(s) >= 1
         /\ Head(s) \in Packet /\ Head(s) \in Elems(s)
         /\ Distinct(Tail(s))
         /\ Elems(Tail(s)) = Elems(s) \ {Head(s)}
  <1>1. /\ Tail(s) \in Seq(Packet) /\ Len(Tail(s)) = Len(s) - 1 /\ Head(s) \in Packet
        /\ \A i \in 1..Len(Tail(s)) : Tail(s)[i] = s[i + 1]
    BY HeadTailProperties
  <1>2. Len(s) \in Nat /\ Len(s) >= 1 /\ DOMAIN s = 1..Len(s) /\ Head(s) = s[1]
        /\ DOMAIN Tail(s) = 1..(Len(s) - 1)
    BY <1>1, EmptySeq
  <1>3. \A i \in 1..(Len(s) - 1) : Tail(s)[i] = s[i + 1] /\ i + 1 \in DOMAIN s
    BY <1>1, <1>2
  <1>4. Distinct(Tail(s))
    <2> SUFFICES ASSUME NEW i \in 1..(Len(s) - 1), NEW j \in 1..(Len(s) - 1),
                        s[i + 1] = s[j + 1]
                 PROVE  i = j
      BY <1>2, <1>3 DEF Distinct
    <2>1. i + 1 = j + 1
      BY <1>3 DEF Distinct
    <2> QED
      BY <2>1
  <1>5. ASSUME NEW x \in Elems(Tail(s)) PROVE x \in Elems(s) \ {Head(s)}
    <2>1. PICK i \in 1..(Len(s) - 1) : x = s[i + 1]
      BY <1>2, <1>3, <1>5 DEF Elems
    <2>2. i + 1 # 1 /\ 1 \in DOMAIN s /\ i + 1 \in DOMAIN s
      BY <1>2, <1>3
    <2>3. s[i + 1] # s[1]
      BY <2>2 DEF Distinct
    <2> QED
      BY <1>2, <2>1, <2>2, <2>3 DEF Elems
  <1>6. ASSUME NEW x \in Elems(s) \ {Head(s)} PROVE x \in Elems(Tail(s))
    <2>1. PICK i \in DOMAIN s : x = s[i]
      BY <1>6 DEF Elems
    <2>2. i - 1 \in 1..(Len(s) - 1) /\ (i - 1) + 1 = i
      BY <1>2, <1>6, <2>1
    <2>3. Tail(s)[i - 1] = x
      BY <1>3, <2>1, <2>2
    <2> QED
      BY <1>2, <2>2, <2>3 DEF Elems
  <1>7. Head(s) \in Elems(s)
    BY <1>2 DEF Elems
  <1> QED
    BY <1>1, <1>2, <1>4, <1>5, <1>6, <1>7

LEMMA AppendElems ==
  ASSUME NEW s \in Seq(Packet), NEW p \in Packet, p \notin Elems(s), Distinct(s)
  PROVE  /\ Append(s, p) \in Seq(Packet) /\ Len(Append(s, p)) = Len(s) + 1
         /\ Distinct(Append(s, p))
         /\ Elems(Append(s, p)) = Elems(s) \cup {p}
  <1>1. /\ Append(s, p) \in Seq(Packet) /\ Len(Append(s, p)) = Len(s) + 1
        /\ \A i \in 1..Len(s) : Append(s, p)[i] = s[i]
        /\ Append(s, p)[Len(s) + 1] = p
    BY AppendProperties
  <1>2. Len(s) \in Nat /\ DOMAIN s = 1..Len(s) /\ DOMAIN Append(s, p) = 1..(Len(s) + 1)
    BY <1>1
  <1>3. \A i \in 1..(Len(s) + 1) : i \in 1..Len(s) \/ i = Len(s) + 1
    BY <1>2
  <1>4. Distinct(Append(s, p))
    BY <1>1, <1>2, <1>3 DEF Distinct, Elems
  <1>5. \A x : x \in Elems(Append(s, p)) <=> x \in Elems(s) \/ x = p
    <2>1. ASSUME NEW x \in Elems(Append(s, p)) PROVE x \in Elems(s) \/ x = p
      BY <1>1, <1>2, <1>3 DEF Elems
    <2>2. ASSUME NEW x \in Elems(s) PROVE x \in Elems(Append(s, p))
      <3>1. PICK i \in 1..Len(s) : x = s[i]
        BY <1>2 DEF Elems
      <3>2. i \in 1..(Len(s) + 1) /\ Append(s, p)[i] = x
        BY <1>1, <1>2, <3>1
      <3> QED
        BY <1>2, <3>2 DEF Elems
    <2>3. p \in Elems(Append(s, p))
      <3>1. Len(s) + 1 \in 1..(Len(s) + 1)
        BY <1>2
      <3> QED
        BY <1>1, <1>2, <3>1 DEF Elems
    <2> QED
      BY <2>1, <2>2, <2>3
  <1> QED
    BY <1>1, <1>4, <1>5

-----------------------------------------------------------------------------
(* The pool operations. What they ask of the books and leave in them.      *)
Asks(q, r) ==
  /\ Asked(r) <=> Asked(q)
  /\ ~(r.waits /\ r.given # NoPacket)

(* The books of pool r after packet p of pool q went somewhere else. *)
Rebooked(q, r, w, kept, ring, p) ==
  /\ r \in PoolType /\ Asks(q, r)
  /\ \E v \in [Packet -> Place] :
       /\ \A x \in Packet : x # p => v[x] = w[x]
       /\ Books(r, v, kept, ring)

LEMMA AllocatedBooks ==
  ASSUME NEW q \in PoolType, NEW w \in [Packet -> Place], NEW kept, NEW ring,
         Books(q, w, kept, ring), NEW p \in q.free, NEW l \in Place
  PROVE  /\ Allocated(q, p) \in PoolType
         /\ Allocated(q, p).waits = q.waits /\ Allocated(q, p).given = q.given
         /\ Allocated(q, p).free = q.free \ {p}
         /\ [w EXCEPT ![p] = l] \in [Packet -> Place]
         /\ Books(Allocated(q, p), [w EXCEPT ![p] = l], kept, ring)
         /\ l = "sent" => Books(Allocated(q, p), [w EXCEPT ![p] = l], kept, ring \cup {p})
  <1> DEFINE r == Allocated(q, p)
             v == [w EXCEPT ![p] = l]
  <1>1. /\ r.free = q.free \ {p} /\ r.tag = [q.tag EXCEPT ![p] = "allocated"]
        /\ r.done = [q.done EXCEPT ![p] = FALSE] /\ r.waits = q.waits /\ r.given = q.given
        /\ r \in PoolType
    BY DEF Allocated, PoolType
  <1>2. p \in Packet /\ v \in [Packet -> Place] /\ v[p] = l
        /\ \A x \in Packet : x # p => v[x] = w[x]
    BY DEF PoolType
  <1>3. p \notin kept /\ p \notin ring /\ p # q.given
    BY <1>2 DEF Books, BooksOf
  <1>4. ASSUME NEW x \in Packet, x # p
        PROVE  BooksOf(r, v, kept, ring, x) /\ BooksOf(r, v, kept, ring \cup {p}, x)
    <2>1. r.tag[x] = q.tag[x] /\ r.done[x] = q.done[x] /\ (x \in r.free <=> x \in q.free)
      BY <1>1, <1>4 DEF PoolType
    <2>2. BooksOf(q, w, kept, ring, x)
      BY DEF Books
    <2> HIDE DEF r, v
    <2> QED
      BY <1>1, <1>2, <1>4, <2>1, <2>2 DEF BooksOf
  <1>5. r.tag[p] = "allocated" /\ ~r.done[p]
    BY <1>1, <1>2 DEF PoolType
  <1>6. BooksOf(r, v, kept, ring, p) /\ (l = "sent" => BooksOf(r, v, kept, ring \cup {p}, p))
    <2> HIDE DEF r, v
    <2> QED
      BY <1>1, <1>2, <1>3, <1>5 DEF BooksOf
  <1>7. Books(r, v, kept, ring) /\ (l = "sent" => Books(r, v, kept, ring \cup {p}))
    <2> HIDE DEF r, v
    <2> QED
      BY <1>4, <1>6 DEF Books
  <1> QED
    BY <1>1, <1>2, <1>7

LEMMA ReleasedBooks ==
  ASSUME NEW q \in PoolType, NEW w \in [Packet -> Place], NEW kept, NEW ring,
         NEW p \in Packet, \A x \in Packet \ {p} : BooksOf(q, w, kept, ring, x),
         p \notin kept, p \notin ring, q.tag[p] = "allocated", p \notin q.free,
         p # q.given, ~(q.waits /\ q.given # NoPacket)
  PROVE  Rebooked(q, Released(q, p), w, kept, ring, p)
  <1> DEFINE r == Released(q, p)
  <1>0. p # NoPacket
    BY EthAssumption
  <1>1. CASE q.waits
    <2> DEFINE v == [w EXCEPT ![p] = "given"]
    <2>1. r = [q EXCEPT !.waits = FALSE, !.given = p, !.done[p] = FALSE]
      BY <1>1 DEF Released
    <2>2. /\ r.free = q.free /\ r.tag = q.tag /\ r.done = [q.done EXCEPT ![p] = FALSE]
          /\ r.waits = FALSE /\ r.given = p
      BY <2>1 DEF PoolType
    <2>6. r \in PoolType
      <3>1. r = [free |-> q.free, tag |-> q.tag, done |-> [q.done EXCEPT ![p] = FALSE],
                 waits |-> FALSE, given |-> p]
        BY <2>1 DEF PoolType
      <3>2. [q.done EXCEPT ![p] = FALSE] \in [Packet -> BOOLEAN]
        BY DEF PoolType
      <3> HIDE DEF r
      <3> QED
        BY <3>1, <3>2 DEF PoolType, PacketOrNull
    <2>3. v \in [Packet -> Place] /\ v[p] = "given"
          /\ \A x \in Packet : x # p => v[x] = w[x]
      BY DEF Place
    <2>4. ASSUME NEW x \in Packet PROVE BooksOf(r, v, kept, ring, x)
      <3>1. x # p => r.done[x] = q.done[x] /\ BooksOf(q, w, kept, ring, x)
        BY <2>2 DEF PoolType
      <3>2. x = p => ~r.done[x]
        BY <2>2 DEF PoolType
      <3> HIDE DEF r, v
      <3> QED
        BY <1>1, <2>2, <2>3, <3>1, <3>2 DEF BooksOf
    <2>5. Asks(q, r)
      BY <1>0, <1>1, <2>2 DEF Asks, Asked
    <2> HIDE DEF r, v
    <2> QED
      BY <2>2, <2>3, <2>4, <2>5, <2>6 DEF Rebooked, Books, r
  <1>2. CASE ~q.waits
    <2> DEFINE v == [w EXCEPT ![p] = "pool"]
    <2>1. r = [q EXCEPT !.free = @ \cup {p}, !.tag[p] = "free", !.done[p] = FALSE]
      BY <1>2 DEF Released
    <2>2. /\ r.free = q.free \cup {p} /\ r.tag = [q.tag EXCEPT ![p] = "free"]
          /\ r.done = [q.done EXCEPT ![p] = FALSE]
          /\ r.waits = q.waits /\ r.given = q.given
      BY <2>1 DEF PoolType
    <2>6. r \in PoolType
      <3>1. r = [free |-> q.free \cup {p}, tag |-> [q.tag EXCEPT ![p] = "free"],
                 done |-> [q.done EXCEPT ![p] = FALSE], waits |-> q.waits, given |-> q.given]
        BY <2>1 DEF PoolType
      <3>2. /\ [q.done EXCEPT ![p] = FALSE] \in [Packet -> BOOLEAN]
            /\ [q.tag EXCEPT ![p] = "free"] \in [Packet -> {"free", "allocated", "enqueued"}]
        BY DEF PoolType
      <3> HIDE DEF r
      <3> QED
        BY <3>1, <3>2 DEF PoolType
    <2>3. v \in [Packet -> Place] /\ v[p] = "pool"
          /\ \A x \in Packet : x # p => v[x] = w[x]
      BY DEF Place
    <2>4. ASSUME NEW x \in Packet PROVE BooksOf(r, v, kept, ring, x)
      <3>1. x # p => /\ r.done[x] = q.done[x] /\ r.tag[x] = q.tag[x]
                     /\ BooksOf(q, w, kept, ring, x)
        BY <2>2 DEF PoolType
      <3>2. x = p => ~r.done[x] /\ r.tag[x] = "free"
        BY <2>2 DEF PoolType
      <3> HIDE DEF r, v
      <3> QED
        BY <2>2, <2>3, <3>1, <3>2 DEF BooksOf
    <2>5. Asks(q, r)
      BY <2>2 DEF Asks, Asked
    <2> HIDE DEF r, v
    <2> QED
      BY <2>2, <2>3, <2>4, <2>5, <2>6 DEF Rebooked, Books, r
  <1> QED
    BY <1>1, <1>2

(* The driver gives packet p up. *)
LEMMA TransmitReleasedBooks ==
  ASSUME NEW q \in PoolType, NEW w \in [Packet -> Place], NEW kept, NEW ring,
         NEW p \in Packet, p \notin ring, Books(q, w, kept, ring \cup {p}),
         ~(q.waits /\ q.given # NoPacket)
  PROVE  Rebooked(q, TransmitReleased(q, p), w, kept, ring, p)
  <1>1. BooksOf(q, w, kept, ring \cup {p}, p)
    BY DEF Books
  <1>2. p \notin q.free /\ p # q.given /\ (q.tag[p] = "enqueued" <=> p \in kept)
        /\ q.tag[p] # "free" /\ w[p] = "sent"
    BY <1>1 DEF BooksOf
  <1>3. \A x \in Packet \ {p} : BooksOf(q, w, kept, ring, x)
    <2> SUFFICES ASSUME NEW x \in Packet \ {p} PROVE BooksOf(q, w, kept, ring, x)
      OBVIOUS
    <2>1. BooksOf(q, w, kept, ring \cup {p}, x)
      BY DEF Books
    <2> QED
      BY <2>1 DEF BooksOf
  <1>4. CASE q.tag[p] = "enqueued"
    <2> DEFINE r == [q EXCEPT !.done[p] = TRUE]
    <2>1. TransmitReleased(q, p) = r
      BY <1>4 DEF TransmitReleased
    <2>2. /\ r.free = q.free /\ r.tag = q.tag /\ r.done = [q.done EXCEPT ![p] = TRUE]
          /\ r.waits = q.waits /\ r.given = q.given /\ r \in PoolType
      BY DEF PoolType
    <2>3. r.done[p] /\ \A x \in Packet : x # p => r.done[x] = q.done[x]
      BY <2>2 DEF PoolType
    <2> HIDE DEF r
    <2>4. BooksOf(r, w, kept, ring, p)
      BY <1>2, <1>4, <2>2, <2>3 DEF BooksOf
    <2>5. \A x \in Packet : x # p => BooksOf(r, w, kept, ring, x)
      BY <1>3, <2>2, <2>3 DEF BooksOf
    <2>6. Asks(q, r)
      BY <2>2 DEF Asks, Asked
    <2> QED
      BY <2>1, <2>2, <2>4, <2>5, <2>6 DEF Rebooked, Books
  <1>5. CASE q.tag[p] # "enqueued"
    <2>1. q.tag[p] = "allocated" /\ TransmitReleased(q, p) = Released(q, p)
      BY <1>2, <1>5 DEF TransmitReleased, PoolType
    <2> QED
      BY <1>2, <1>3, <1>5, <2>1, ReleasedBooks
  <1> QED
    BY <1>4, <1>5

(* TCP gives packet p up. *)
LEMMA DequeuedBooks ==
  ASSUME NEW q \in PoolType, NEW w \in [Packet -> Place], NEW kept, NEW ring,
         NEW p \in Packet, p \in kept, Books(q, w, kept, ring),
         ~(q.waits /\ q.given # NoPacket)
  PROVE  Rebooked(q, Dequeued(q, p), w, kept \ {p}, ring, p)
  <1> DEFINE r == [q EXCEPT !.tag[p] = "allocated"]
  <1>1. /\ r.free = q.free /\ r.tag = [q.tag EXCEPT ![p] = "allocated"] /\ r.done = q.done
        /\ r.waits = q.waits /\ r.given = q.given /\ r \in PoolType
    BY DEF PoolType
  <1>2. r.tag[p] = "allocated" /\ \A x \in Packet : x # p => r.tag[x] = q.tag[x]
    BY <1>1 DEF PoolType
  <1>3. Dequeued(q, p) = IF q.done[p] THEN Released(r, p) ELSE r
    BY DEF Dequeued
  <1> HIDE DEF r
  <1>4. BooksOf(q, w, kept, ring, p)
    BY DEF Books
  <1>5. p \notin q.free /\ p # q.given /\ (q.done[p] <=> p \notin ring) /\ w[p] = "sent"
    BY <1>4 DEF BooksOf
  <1>6. \A x \in Packet \ {p} : BooksOf(r, w, kept \ {p}, ring, x)
    <2> SUFFICES ASSUME NEW x \in Packet \ {p} PROVE BooksOf(r, w, kept \ {p}, ring, x)
      OBVIOUS
    <2>1. BooksOf(q, w, kept, ring, x)
      BY DEF Books
    <2> QED
      BY <1>1, <1>2, <2>1 DEF BooksOf
  <1>7. Asks(q, r)
    BY <1>1 DEF Asks, Asked
  <1>8. CASE q.done[p]
    <2>1. Rebooked(r, Released(r, p), w, kept \ {p}, ring, p)
      BY <1>1, <1>2, <1>5, <1>6, <1>8, ReleasedBooks
    <2> QED
      BY <1>3, <1>7, <1>8, <2>1 DEF Rebooked, Asks
  <1>9. CASE ~q.done[p]
    <2>1. BooksOf(r, w, kept \ {p}, ring, p)
      BY <1>1, <1>2, <1>5, <1>9 DEF BooksOf
    <2>2. Books(r, w, kept \ {p}, ring)
      BY <1>6, <2>1 DEF Books
    <2> QED
      BY <1>1, <1>3, <1>7, <1>9, <2>2 DEF Rebooked
  <1> QED
    BY <1>8, <1>9

-----------------------------------------------------------------------------
(* What the types say of the places.                                       *)
Members ==
  /\ pool \in PoolType
  /\ \A i \in RxSlot : rx.buf[i] # NoPacket => rx.buf[i] \in Packet
  /\ ip.frame # NoPacket => ip.frame \in Packet
  /\ web.hand # NoPacket => web.hand \in Packet
  /\ web.seg # NoPacket => web.seg \in Packet
  /\ Elems(rxq) \subseteq Packet /\ sock \subseteq Packet
  /\ Queued = Elems(sentq) /\ Queued \subseteq Packet
  /\ InRing \subseteq Packet

LEMMA MembersHold ==
  ASSUME TypeOK PROVE Members
  <1>1. pool \in PoolType
    BY DEF TypeOK, PoolType
  <1>2. \A i \in RxSlot : rx.buf[i] # NoPacket => rx.buf[i] \in Packet
    BY DEF TypeOK, PacketOrNull
  <1>3. /\ ip.frame # NoPacket => ip.frame \in Packet
        /\ web.hand # NoPacket => web.hand \in Packet
        /\ web.seg # NoPacket => web.seg \in Packet
        /\ sock \subseteq Packet
    BY DEF TypeOK, PacketOrNull
  <1>4. Elems(rxq) \subseteq Packet /\ Elems(sentq) \subseteq Packet
    BY ElementOfSeq DEF TypeOK, Elems
  <1>5. InRing \subseteq Packet
    BY DEF TypeOK, InRing, PacketOrNull
  <1> QED
    BY <1>1, <1>2, <1>3, <1>4, <1>5 DEF Members, Queued, Elems

(* A packet gets into the transmit ring or goes back.                      *)
LEMMA RingPut ==
  ASSUME TypeOK, TxOnce, NEW p \in Packet, p \notin InRing, tx.pkt[tx.cur] = NoPacket,
         tx' = [tx EXCEPT !.pkt[tx.cur] = p, !.own[tx.cur] = TRUE,
                          !.cur = NextTx(@), !.used = @ + 1]
  PROVE  TxOnce' /\ InRing' = InRing \cup {p}
  <1>1. tx.cur \in TxSlot /\ tx.pkt \in [TxSlot -> PacketOrNull]
    BY DEF TypeOK
  <1>2. tx'.pkt = [tx.pkt EXCEPT ![tx.cur] = p]
    BY DEF TypeOK
  <1>3. tx'.pkt[tx.cur] = p /\ \A i \in TxSlot : i # tx.cur => tx'.pkt[i] = tx.pkt[i]
    BY <1>1, <1>2
  <1>4. \A i \in TxSlot : tx.pkt[i] # NoPacket => tx.pkt[i] # p
    BY DEF InRing
  <1>5. TxOnce'
    BY <1>1, <1>3, <1>4 DEF TxOnce
  <1>6. InRing' = InRing \cup {p}
    <2>1. ASSUME NEW x \in InRing' PROVE x \in InRing \cup {p}
      <3>1. PICK i \in TxSlot : x = tx'.pkt[i] /\ x # NoPacket
        BY <2>1 DEF InRing
      <3> QED
        BY <1>3, <3>1 DEF InRing
    <2>2. ASSUME NEW x \in InRing PROVE x \in InRing'
      <3>1. PICK i \in TxSlot : x = tx.pkt[i] /\ x # NoPacket
        BY <2>2 DEF InRing
      <3>2. i # tx.cur
        BY <3>1
      <3> QED
        BY <1>3, <3>1, <3>2 DEF InRing
    <2>3. p \in InRing'
      BY <1>1, <1>3, EthAssumption DEF InRing
    <2> QED
      BY <2>1, <2>2, <2>3
  <1> QED
    BY <1>5, <1>6

LEMMA RingTake ==
  ASSUME TypeOK, TxOnce, NEW j \in TxSlot, tx.pkt[j] # NoPacket,
         tx'.pkt = [tx.pkt EXCEPT ![j] = NoPacket]
  PROVE  TxOnce' /\ InRing' = InRing \ {tx.pkt[j]}
  <1>1. tx.pkt \in [TxSlot -> PacketOrNull]
    BY DEF TypeOK
  <1>2. tx'.pkt[j] = NoPacket /\ \A i \in TxSlot : i # j => tx'.pkt[i] = tx.pkt[i]
    BY <1>1
  <1>3. TxOnce'
    BY <1>2 DEF TxOnce
  <1>4. ASSUME NEW x \in InRing' PROVE x \in InRing \ {tx.pkt[j]}
    <2>1. PICK i \in TxSlot : x = tx'.pkt[i] /\ x # NoPacket
      BY <1>4 DEF InRing
    <2>2. i # j /\ x = tx.pkt[i]
      BY <1>2, <2>1
    <2>3. tx.pkt[i] # tx.pkt[j]
      BY <2>1, <2>2 DEF TxOnce
    <2> QED
      BY <2>1, <2>2, <2>3 DEF InRing
  <1>5. ASSUME NEW x \in InRing \ {tx.pkt[j]} PROVE x \in InRing'
    <2>1. PICK i \in TxSlot : x = tx.pkt[i] /\ x # NoPacket
      BY <1>5 DEF InRing
    <2>2. i # j
      BY <1>5, <2>1
    <2> QED
      BY <1>2, <2>1, <2>2 DEF InRing
  <1> QED
    BY <1>3, <1>4, <1>5

LEMMA RingSame ==
  ASSUME tx'.pkt = tx.pkt PROVE InRing' = InRing /\ (TxOnce => TxOnce')
  BY DEF InRing, TxOnce

LEMMA SendBooks ==
  ASSUME TypeOK, TxOnce, NEW q \in PoolType, NEW w \in [Packet -> Place], NEW kept,
         NEW p \in Packet, p \notin InRing, Books(q, w, kept, InRing \cup {p}),
         ~(q.waits /\ q.given # NoPacket), PacketSend(q, p)
  PROVE  TxOnce' /\ Rebooked(q, pool', w, kept, InRing', p)
  <1>1. CASE TxReady
    <2>1. TxOnce' /\ InRing' = InRing \cup {p}
      BY <1>1, RingPut DEF PacketSend, TxReady
    <2>2. pool' = q
      BY <1>1 DEF PacketSend
    <2>3. Asks(q, q)
      BY DEF Asks
    <2> QED
      BY <2>1, <2>2, <2>3 DEF Rebooked
  <1>2. CASE ~TxReady
    <2>1. pool' = TransmitReleased(q, p) /\ tx' = tx
      BY <1>2 DEF PacketSend
    <2>2. InRing' = InRing /\ TxOnce'
      BY <2>1, RingSame
    <2> QED
      BY <2>1, <2>2, TransmitReleasedBooks
  <1> QED
    BY <1>1, <1>2

(* A packet outside the pool, TCP and the driver goes elsewhere.           *)
Loose(w, p) == w[p] \notin {"pool", "given", "sent"}

LEMMA LooseBooks ==
  ASSUME NEW w \in [Packet -> Place], NEW q, NEW kept, NEW ring,
         Books(q, w, kept, ring), NEW p \in Packet, Loose(w, p), NEW l \in Place
  PROVE  /\ p \notin q.free /\ p # q.given /\ p \notin kept /\ p \notin ring
         /\ q.tag[p] # "free" /\ q.tag[p] # "enqueued" /\ ~q.done[p]
         /\ [w EXCEPT ![p] = l] \in [Packet -> Place]
         /\ Books(q, [w EXCEPT ![p] = l], kept, ring)
  <1>1. BooksOf(q, w, kept, ring, p)
    BY DEF Books
  <1>2. /\ p \notin q.free /\ p # q.given /\ p \notin kept /\ p \notin ring
        /\ q.tag[p] # "free" /\ q.tag[p] # "enqueued" /\ ~q.done[p]
    BY <1>1 DEF BooksOf, Loose
  <1> DEFINE v == [w EXCEPT ![p] = l]
  <1>3. v \in [Packet -> Place] /\ v[p] = l /\ \A x \in Packet : x # p => v[x] = w[x]
    OBVIOUS
  <1> HIDE DEF v
  <1>4. BooksOf(q, v, kept, ring, p)
    BY <1>1, <1>2 DEF BooksOf
  <1>5. ASSUME NEW x \in Packet, x # p PROVE BooksOf(q, v, kept, ring, x)
    <2>1. BooksOf(q, w, kept, ring, x)
      BY DEF Books
    <2> QED
      BY <1>3, <1>5, <2>1 DEF BooksOf
  <1>6. Books(q, v, kept, ring)
    BY <1>4, <1>5 DEF Books
  <1> QED
    BY <1>2, <1>3, <1>6 DEF v

LEMMA GivenUp ==
  ASSUME TypeOK, Hands, NEW w \in [Packet -> Place], Placed(w),
         NEW p \in Packet, Loose(w, p)
  PROVE  Rebooked(pool, Released(pool, p), w, Queued, InRing, p)
  <1>1. pool \in PoolType
    BY DEF TypeOK, PoolType
  <1>2. /\ p \notin pool.free /\ p # pool.given /\ p \notin Queued /\ p \notin InRing
        /\ pool.tag[p] # "free" /\ pool.tag[p] # "enqueued"
    <2>1. Books(pool, w, Queued, InRing) /\ "pool" \in Place
      BY DEF Placed, Place
    <2> QED
      BY <2>1, LooseBooks
  <1>3. pool.tag[p] = "allocated"
    BY <1>1, <1>2 DEF PoolType
  <1>4. \A x \in Packet \ {p} : BooksOf(pool, w, Queued, InRing, x)
    BY DEF Placed, Books
  <1>5. ~(pool.waits /\ pool.given # NoPacket)
    BY DEF Hands
  <1> QED
    BY <1>1, <1>2, <1>3, <1>4, <1>5, ReleasedBooks

(* How a step restores the books. *)
LEMMA Settle ==
  ASSUME NEW q, NEW w \in [Packet -> Place], NEW p \in Packet,
         Rebooked(q, pool', w, Queued', InRing', p), Once',
         \A v \in [Packet -> Place] :
           (\A x \in Packet : x # p => v[x] = w[x]) => Elsewhere(v)'
  PROVE  Packets'
  <1>1. PICK v \in [Packet -> Place] :
          (\A x \in Packet : x # p => v[x] = w[x]) /\ Books(pool', v, Queued', InRing')
    BY DEF Rebooked
  <1>2. Placed(v)'
    BY <1>1 DEF Placed
  <1> QED
    BY <1>2 DEF Packets

-----------------------------------------------------------------------------
(* Every step keeps the packets in their places.                           *)

(* What all steps below start from. *)
Before == TypeOK /\ Hands /\ Once

LEMMA PacketsStay ==
  ASSUME Packets, UNCHANGED <<pool, rxq, sentq, sock>>,
         rx'.buf = rx.buf, tx'.pkt = tx.pkt, ip'.frame = ip.frame,
         web'.hand = web.hand, web'.seg = web.seg
  PROVE  Packets'
  <1>1. PICK w \in [Packet -> Place] : Placed(w)
    BY DEF Packets
  <1>2. Once'
    BY DEF Packets, Once, RxOnce, TxOnce
  <1>3. Books(pool, w, Queued, InRing)'
    BY <1>1 DEF Placed, Books, BooksOf, Queued, InRing
  <1>4. Elsewhere(w)'
    BY <1>1 DEF Placed, Elsewhere
  <1> QED
    BY <1>2, <1>3, <1>4 DEF Packets, Placed

(* A packet that is elsewhere is given up. *)
LEMMA PacketGivenUp ==
  ASSUME Before, NEW w \in [Packet -> Place], Placed(w), NEW p \in Packet, Loose(w, p),
         pool' = Released(pool, p), UNCHANGED <<rx, tx, rxq, sentq>>,
         sock' \subseteq sock, p \notin sock',
         ip'.frame \in {ip.frame, NoPacket}, ip'.frame # p,
         web'.hand \in {web.hand, NoPacket}, web'.hand # p,
         web'.seg \in {web.seg, NoPacket}, web'.seg # p,
         w[p] \in {"sock", "frame", "hand", "seg"}
  PROVE  Packets' /\ Asks(pool, pool')
  <1>1. Rebooked(pool, pool', w, Queued, InRing, p)
    BY GivenUp DEF Before
  <1>2. Queued' = Queued /\ InRing' = InRing /\ Once'
    BY DEF Queued, InRing, Before, Once, RxOnce, TxOnce
  <1>3. ASSUME NEW v \in [Packet -> Place], \A x \in Packet : x # p => v[x] = w[x]
        PROVE  Elsewhere(v)'
    <2>1. Members
      BY MembersHold DEF Before
    <2>2. Elsewhere(w)
      BY DEF Placed
    <2> QED
      BY <1>3, <2>1, <2>2 DEF Members, Elsewhere, Elems
  <1> QED
    BY <1>1, <1>2, <1>3, Settle DEF Rebooked

(* TCP gives up the oldest packet it keeps. *)
LEMMA PacketDequeued ==
  ASSUME Before, NEW w \in [Packet -> Place], Placed(w), sentq # <<>>,
         pool' = Dequeued(pool, Head(sentq)), sentq' = Tail(sentq),
         UNCHANGED <<rx, tx, rxq, sock>>,
         ip'.frame = ip.frame, web'.hand = web.hand, web'.seg = web.seg
  PROVE  Packets' /\ Asks(pool, pool')
  <1> DEFINE p == Head(sentq)
  <1>1. Members
    BY MembersHold DEF Before
  <1>2. sentq \in Seq(Packet) /\ Distinct(sentq)
    BY DEF Before, TypeOK, Once
  <1>3. /\ p \in Packet /\ p \in Queued /\ Queued' = Queued \ {p} /\ Distinct(sentq')
    BY <1>1, <1>2, TailElems DEF Members, Queued, Elems
  <1>4. InRing' = InRing /\ Once'
    BY <1>3 DEF InRing, Before, Once, RxOnce, TxOnce
  <1>5. Rebooked(pool, pool', w, Queued', InRing', p)
    BY <1>1, <1>3, <1>4, DequeuedBooks DEF Members, Placed, Before, Hands
  <1>6. w[p] = "sent"
    BY <1>3 DEF Placed, Books, BooksOf
  <1> HIDE DEF p
  <1>7. ASSUME NEW v \in [Packet -> Place], \A x \in Packet : x # p => v[x] = w[x]
        PROVE  Elsewhere(v)'
    <2>1. Elsewhere(w)
      BY DEF Placed
    <2> QED
      BY <1>1, <1>6, <1>7, <2>1 DEF Members, Elsewhere, Elems
  <1> QED
    BY <1>3, <1>4, <1>5, <1>7, Settle DEF Rebooked

(* A packet of the pool goes to the driver at once. *)
LEMMA PacketBuilt ==
  ASSUME Before, NEW w \in [Packet -> Place], Placed(w),
         NEW p \in pool.free, PacketSend(Allocated(pool, p), p),
         UNCHANGED <<rx, rxq, sentq, sock>>,
         ip'.frame = ip.frame, web'.hand = web.hand, web'.seg = web.seg
  PROVE  Packets' /\ Asks(pool, pool')
  <1> DEFINE q == Allocated(pool, p)
             u == [w EXCEPT ![p] = "sent"]
  <1>1. Members
    BY MembersHold DEF Before
  <1>2. p \in Packet /\ w[p] = "pool" /\ p \notin InRing
    BY <1>1 DEF Members, PoolType, Placed, Books, BooksOf
  <1>3. /\ q \in PoolType /\ q.waits = pool.waits /\ q.given = pool.given
        /\ u \in [Packet -> Place] /\ Books(q, u, Queued, InRing \cup {p})
    <2>1. pool \in PoolType /\ Books(pool, w, Queued, InRing) /\ "sent" \in Place
      BY <1>1 DEF Members, Placed, Place
    <2> QED
      BY <2>1, AllocatedBooks
  <1> HIDE DEF q
  <1>4. TxOnce' /\ Rebooked(q, pool', u, Queued, InRing', p)
    BY <1>2, <1>3, SendBooks DEF Before, Once, Hands, q
  <1>5. Once' /\ Queued' = Queued
    BY <1>4 DEF Before, Once, RxOnce, Queued
  <1>6. \A x \in Packet : x # p => u[x] = w[x]
    OBVIOUS
  <1> HIDE DEF u
  <1>7. ASSUME NEW v \in [Packet -> Place], \A x \in Packet : x # p => v[x] = u[x]
        PROVE  Elsewhere(v)'
    <2>1. Elsewhere(w) /\ \A x \in Packet : x # p => v[x] = w[x]
      BY <1>6, <1>7 DEF Placed
    <2> QED
      BY <1>1, <1>2, <2>1 DEF Members, Elsewhere, Elems
  <1> QED
    <2>1. Packets'
      <3>1. Rebooked(q, pool', u, Queued', InRing', p)
        BY <1>4, <1>5
      <3> QED
        BY <1>2, <1>3, <1>5, <1>7, <3>1, Settle
    <2>2. Asks(q, pool')
      BY <1>4 DEF Rebooked
    <2> QED
      BY <1>3, <2>1, <2>2 DEF Asks, Asked

(* A packet outside the pool, TCP and the driver, or one of the pool, goes *)
(* elsewhere; the other packets stay where they are.                       *)
OnlyMoves(w, u, p) == \A x \in Packet : x # p => u[x] = w[x]

LEMMA Moved ==
  ASSUME NEW w \in [Packet -> Place], NEW p \in Packet, NEW l \in Place
  PROVE  \E u \in [Packet -> Place] : u[p] = l /\ OnlyMoves(w, u, p)
  <1> DEFINE u == [w EXCEPT ![p] = l]
  <1>1. u \in [Packet -> Place] /\ u[p] = l /\ OnlyMoves(w, u, p)
    BY DEF OnlyMoves
  <1> QED
    BY <1>1

LEMMA PacketPasses ==
  ASSUME Before, NEW w \in [Packet -> Place], Placed(w), NEW p \in Packet, Loose(w, p),
         NEW u \in [Packet -> Place], OnlyMoves(w, u, p), Elsewhere(u)', Once',
         UNCHANGED <<pool, tx, sentq>>
  PROVE  Packets' /\ Asks(pool, pool')
  <1>1. Queued' = Queued /\ InRing' = InRing
    BY DEF Queued, InRing
  <1>2. u = [w EXCEPT ![p] = u[p]] /\ u[p] \in Place
    BY DEF OnlyMoves
  <1>3. Books(pool, u, Queued, InRing)
    BY <1>2, LooseBooks DEF Placed
  <1>4. Placed(u)'
    BY <1>1, <1>3 DEF Placed
  <1> QED
    BY <1>4 DEF Packets, Asks, Asked, Before, Hands

LEMMA PacketTaken ==
  ASSUME Before, NEW w \in [Packet -> Place], Placed(w), NEW p \in Packet, p \in pool.free,
         NEW u \in [Packet -> Place], OnlyMoves(w, u, p), Elsewhere(u)', Once',
         pool' = Allocated(pool, p), UNCHANGED <<tx, sentq>>
  PROVE  Packets' /\ Asks(pool, pool') /\ pool' \in PoolType
  <1>1. Queued' = Queued /\ InRing' = InRing
    BY DEF Queued, InRing
  <1>2. u = [w EXCEPT ![p] = u[p]] /\ u[p] \in Place
    BY DEF OnlyMoves
  <1>3. pool \in PoolType /\ Books(pool, w, Queued, InRing)
    BY MembersHold DEF Before, Members, Placed
  <1>4. /\ Books(Allocated(pool, p), u, Queued, InRing)
        /\ pool' \in PoolType /\ pool'.waits = pool.waits /\ pool'.given = pool.given
    <2>1. /\ Allocated(pool, p) \in PoolType
          /\ Allocated(pool, p).waits = pool.waits /\ Allocated(pool, p).given = pool.given
          /\ Books(Allocated(pool, p), [w EXCEPT ![p] = u[p]], Queued, InRing)
      BY <1>2, <1>3, AllocatedBooks
    <2> QED
      BY <1>2, <2>1
  <1>5. Placed(u)'
    BY <1>1, <1>4 DEF Placed
  <1> QED
    BY <1>4, <1>5 DEF Packets, Asks, Asked, Before, Hands

LEMMA ResumedKeeps ==
  ASSUME TypeOK, Resumed
  PROVE  /\ web'.hand = web.hand /\ web'.seg = web.seg
         /\ web'.pc = web.pc \/ (web.pc = "queue" /\ web'.pc = "send")
         /\ web' \in [pc : WebPC, hand : PacketOrNull, seg : PacketOrNull]
  BY DEF TypeOK, Resumed, WebPC

(* The steps of the hardware, the timer and the parts of the driver and of *)
(* TCP that move no packet.                                                *)
LEMMA QuietSteps ==
  ASSUME Sound,
         \/ Dma \/ EthIrq \/ Enable \/ Wake \/ ResetByPeer \/ Timer
         \/ FastRetransmit \/ PickUp \/ Deferred \/ BuildEnd \/ WebSuspend \/ WebClosed
  PROVE  Packets' /\ Asks(pool, pool')
  <1> USE DEF hw, tcp
  <1>0. /\ Packets /\ TypeOK /\ Hands
        /\ ip \in [pc : IpPC, got : SUBSET {"receive", "timer", "driver"},
                   work : SUBSET {"rx", "tx"}, frame : PacketOrNull, pos : 1..(QueueMax + 1)]
        /\ web \in [pc : WebPC, hand : PacketOrNull, seg : PacketOrNull]
    BY DEF Sound, TypeOK
  <1>1. UNCHANGED pool => Asks(pool, pool')
    BY <1>0 DEF Asks, Asked, Hands
  <1>2. CASE Dma
    <2>1. rx'.buf = rx.buf /\ tx'.pkt = tx.pkt /\ UNCHANGED <<pool, rxq, sentq, sock, ip, web>>
      BY <1>0, <1>2 DEF Dma, DmaReceive, DmaSend, DmaFatal, TypeOK
    <2> QED
      BY <1>0, <1>1, <2>1, PacketsStay
  <1>3. CASE EthIrq
    BY <1>0, <1>1, <1>3, PacketsStay DEF EthIrq, Interrupt
  <1>4. CASE Wake \/ ResetByPeer \/ Timer \/ FastRetransmit \/ PickUp \/ Deferred \/ BuildEnd
    <2>1. ip'.frame = ip.frame /\ UNCHANGED <<pool, rx, tx, rxq, sentq, sock, web>>
      BY <1>0, <1>4 DEF Wake, ResetByPeer, Timer, FastRetransmit, Retransmit, PickUp,
                        Deferred, BuildEnd, Go, Served
    <2> QED
      BY <1>0, <1>1, <2>1, PacketsStay
  <1>5. CASE Enable
    <2>1. ip'.frame = ip.frame /\ rx'.buf = rx.buf
      BY <1>0, <1>5 DEF Enable, Go, TypeOK
    <2>2. UNCHANGED <<pool, tx, rxq, sentq, sock, web>>
      BY <1>5 DEF Enable
    <2> QED
      BY <1>0, <1>1, <2>1, <2>2, PacketsStay
  <1>6. CASE WebSuspend \/ WebClosed
    <2>1. web'.hand = web.hand /\ web'.seg = web.seg /\ UNCHANGED <<pool, rx, tx, rxq, sentq, sock, ip>>
      BY <1>0, <1>6 DEF WebSuspend, WebClosed, WebGo
    <2> QED
      BY <1>0, <1>1, <2>1, PacketsStay
  <1> QED
    BY <1>2, <1>3, <1>4, <1>5, <1>6

(* The steps of the stack and of the web thread that give a packet up.     *)
LEMMA ReleaseSteps ==
  ASSUME Sound, Discard \/ ResendEnd \/ ResetEnd \/ WebRead \/ WebSendFails \/ WebTrim
  PROVE  Packets' /\ Asks(pool, pool')
  <1> USE DEF hw, tcp
  <1>0. /\ Packets /\ TypeOK /\ Hands /\ Before /\ Members
        /\ ip \in [pc : IpPC, got : SUBSET {"receive", "timer", "driver"},
                   work : SUBSET {"rx", "tx"}, frame : PacketOrNull, pos : 1..(QueueMax + 1)]
        /\ web \in [pc : WebPC, hand : PacketOrNull, seg : PacketOrNull]
        /\ NoPacket \notin Packet
    BY MembersHold, EthAssumption DEF Sound, TypeOK, Before, Packets
  <1>1. PICK w \in [Packet -> Place] : Placed(w)
    BY <1>0 DEF Packets
  <1>2. /\ ip.frame # NoPacket => w[ip.frame] = "frame" /\ Loose(w, ip.frame) /\ ip.frame \in Packet
        /\ web.hand # NoPacket => w[web.hand] = "hand" /\ Loose(w, web.hand) /\ web.hand \in Packet
        /\ web.seg # NoPacket => w[web.seg] = "seg" /\ Loose(w, web.seg) /\ web.seg \in Packet
        /\ \A p \in sock : w[p] = "sock" /\ Loose(w, p) /\ p \in Packet
    BY <1>0, <1>1 DEF Placed, Elsewhere, Loose, Members
  <1>3. CASE Discard
    <2>1. /\ ip.frame # NoPacket /\ pool' = Released(pool, ip.frame) /\ ip'.frame = NoPacket
          /\ UNCHANGED <<rx, tx, rxq, sentq, sock>>
      BY <1>0, <1>3 DEF Discard, Hands
    <2>2. web'.hand = web.hand /\ web'.seg = web.seg
      BY <1>0, <1>3, ResumedKeeps DEF Discard
    <2> QED
      BY <1>0, <1>1, <1>2, <2>1, <2>2, PacketGivenUp
  <1>4. CASE ResendEnd \/ ResetEnd
    <2>1. /\ pool' = ReleasedFrame /\ ip'.frame = NoPacket
          /\ UNCHANGED <<rx, tx, rxq, sentq, sock>>
      BY <1>0, <1>4 DEF ResendEnd, ResetEnd
    <2>2. web'.hand = web.hand /\ web'.seg = web.seg
      BY <1>0, <1>4, ResumedKeeps DEF ResendEnd, ResetEnd
    <2>3. CASE ip.frame = NoPacket
      <3>1. pool' = pool
        BY <2>1, <2>3 DEF ReleasedFrame
      <3>2. Asks(pool, pool')
        BY <1>0, <3>1 DEF Asks, Asked, Hands
      <3> QED
        BY <1>0, <2>1, <2>2, <2>3, <3>1, <3>2, PacketsStay
    <2>4. CASE ip.frame # NoPacket
      <3>1. pool' = Released(pool, ip.frame)
        BY <2>1, <2>4 DEF ReleasedFrame
      <3> QED
        BY <1>0, <1>1, <1>2, <2>1, <2>2, <2>4, <3>1, PacketGivenUp
    <2> QED
      BY <2>3, <2>4
  <1>5. CASE WebRead
    <2>1. PICK p \in sock : sock' = sock \ {p} /\ pool' = Released(pool, p)
      BY <1>5 DEF WebRead
    <2>2. UNCHANGED <<rx, tx, rxq, sentq, ip, web>>
      BY <1>5 DEF WebRead
    <2>3. p # ip.frame /\ p # web.hand /\ p # web.seg
      BY <1>0, <1>2
    <2> QED
      BY <1>0, <1>1, <1>2, <2>1, <2>2, <2>3, PacketGivenUp
  <1>6. CASE WebSendFails
    <2>1. UNCHANGED <<rx, tx, rxq, sentq, sock, ip>>
      BY <1>6 DEF WebSendFails
    <2>2. CASE web.pc = "send"
      <3>1. web.hand # NoPacket /\ web.seg = NoPacket
        BY <1>0, <2>2 DEF Hands
      <3>2. pool' = Released(pool, web.hand) /\ web'.hand = NoPacket /\ web'.seg = web.seg
        BY <1>0, <1>6, <2>2 DEF WebSendFails
      <3>3. web.hand \notin sock
        BY <1>2, <3>1
      <3> QED
        BY <1>0, <1>1, <1>2, <2>1, <3>1, <3>2, <3>3, PacketGivenUp
    <2>3. CASE web.pc = "send_seg"
      <3>1. web.hand # NoPacket /\ web.seg # NoPacket
        BY <1>0, <2>3 DEF Hands
      <3>2. pool' = Released(pool, web.seg) /\ web'.seg = NoPacket /\ web'.hand = web.hand
        BY <1>0, <1>6, <2>3 DEF WebSendFails
      <3>3. web.seg \notin sock
        BY <1>2, <3>1
      <3> QED
        BY <1>0, <1>1, <1>2, <2>1, <3>1, <3>2, <3>3, PacketGivenUp
    <2> QED
      BY <1>6, <2>2, <2>3 DEF WebSendFails
  <1>7. CASE WebTrim
    <2>1. /\ pool' = Released(pool, web.hand) /\ web'.hand = NoPacket /\ web'.seg = web.seg
          /\ UNCHANGED <<rx, tx, rxq, sentq, sock, ip>>
      BY <1>0, <1>7 DEF WebTrim
    <2>2. web.hand # NoPacket /\ web.seg = NoPacket
      BY <1>0, <1>7 DEF Hands, WebTrim
    <2>3. web.hand \notin sock
      BY <1>2, <2>2
    <2> QED
      BY <1>0, <1>1, <1>2, <2>1, <2>2, <2>3, PacketGivenUp
  <1> QED
    BY <1>3, <1>4, <1>5, <1>6, <1>7

(* The steps that take packets from TCP's queue. *)
LEMMA DequeueSteps ==
  ASSUME Sound, Acked \/ ResetFlush \/ WebFlush
  PROVE  Packets' /\ Asks(pool, pool')
  <1> USE DEF hw, tcp
  <1>0. /\ Packets /\ TypeOK /\ Hands /\ Before /\ Members /\ NoPacket \notin Packet
        /\ web \in [pc : WebPC, hand : PacketOrNull, seg : PacketOrNull]
    BY MembersHold, EthAssumption DEF Sound, Before, Packets, TypeOK
  <1>1. PICK w \in [Packet -> Place] : Placed(w)
    BY <1>0 DEF Packets
  <1>2. CASE Acked \/ ResetFlush
    <2>1. /\ sentq # <<>> /\ pool' = Dequeued(pool, Head(sentq)) /\ sentq' = Tail(sentq)
          /\ UNCHANGED <<rx, tx, rxq, sock, ip, web>>
      BY <1>2 DEF Acked, ResetFlush
    <2> QED
      BY <1>0, <1>1, <2>1, PacketDequeued
  <1>3. CASE WebFlush
    <2>1. UNCHANGED <<rx, tx, rxq, ip>>
      BY <1>3 DEF WebFlush
    <2>2. CASE sentq # <<>>
      <3>1. /\ pool' = Dequeued(pool, Head(sentq)) /\ sentq' = Tail(sentq)
            /\ UNCHANGED <<sock, web>>
        BY <1>3, <2>2 DEF WebFlush
      <3> QED
        BY <1>0, <1>1, <2>1, <2>2, <3>1, PacketDequeued
    <2>3. CASE sentq = <<>> /\ sock # {}
      <3>1. PICK p \in sock : sock' = sock \ {p} /\ pool' = Released(pool, p)
        BY <1>3, <2>3 DEF WebFlush
      <3>2. UNCHANGED <<sentq, web>>
        BY <1>3, <2>3 DEF WebFlush
      <3>3. w[p] = "sock" /\ Loose(w, p) /\ p \in Packet
        BY <1>0, <1>1 DEF Placed, Elsewhere, Loose, Members
      <3>4. p # ip.frame /\ p # web.hand /\ p # web.seg
        BY <1>0, <1>1, <3>3 DEF Placed, Elsewhere
      <3> QED
        BY <1>0, <1>1, <2>1, <3>1, <3>2, <3>3, <3>4, PacketGivenUp
    <2>4. CASE sentq = <<>> /\ sock = {}
      <3>1. UNCHANGED <<pool, sentq, sock>> /\ web'.hand = web.hand /\ web'.seg = web.seg
        BY <1>0, <1>3, <2>4 DEF WebFlush, WebGo
      <3>2. Asks(pool, pool')
        BY <1>0, <3>1 DEF Asks, Asked, Hands
      <3> QED
        BY <1>0, <2>1, <3>1, <3>2, PacketsStay
    <2> QED
      BY <2>2, <2>3, <2>4
  <1> QED
    BY <1>2, <1>3

(* The steps that take a frame from the ring, from a queue or to the       *)
(* socket, and the building of a descriptor.                               *)
LEMMA MoveSteps ==
  ASSUME Sound, TakeFrame \/ Deliver \/ Read \/ Build \/ Queue
  PROVE  Packets' /\ Asks(pool, pool')
  <1> USE DEF hw, tcp
  <1>0. /\ Packets /\ TypeOK /\ Hands /\ Before /\ Members /\ NoPacket \notin Packet
        /\ ip \in [pc : IpPC, got : SUBSET {"receive", "timer", "driver"},
                   work : SUBSET {"rx", "tx"}, frame : PacketOrNull, pos : 1..(QueueMax + 1)]
        /\ web \in [pc : WebPC, hand : PacketOrNull, seg : PacketOrNull]
        /\ rxq \in Seq(Packet) /\ Distinct(rxq) /\ RxOnce /\ TxOnce /\ Distinct(sentq)
    BY MembersHold, EthAssumption DEF Sound, TypeOK, Before, Packets, Once
  <1>a. Before
    BY <1>0
  <1>1. PICK w \in [Packet -> Place] : Placed(w)
    BY <1>0 DEF Packets
  <1>2. Elsewhere(w)
    BY <1>1 DEF Placed
  <1>3. ip.frame # NoPacket => w[ip.frame] = "frame" /\ Loose(w, ip.frame) /\ ip.frame \in Packet
    BY <1>0, <1>2 DEF Elsewhere, Loose, Members
  <1>4. UNCHANGED pool => Asks(pool, pool')
    BY <1>0 DEF Asks, Asked, Hands
  <1>5. CASE TakeFrame
    <2>1. UNCHANGED <<pool, rx, tx, sentq, sock, web>>
      BY <1>5 DEF TakeFrame
    <2>2. CASE rxq = <<>>
      <3>1. rxq' = rxq /\ ip'.frame = ip.frame
        BY <1>0, <1>5, <2>2 DEF TakeFrame, Served
      <3> QED
        BY <1>0, <1>4, <2>1, <3>1, PacketsStay
    <2>3. CASE rxq # <<>>
      <3> DEFINE p == Head(rxq)
      <3>1. rxq' = Tail(rxq) /\ ip'.frame = p
        BY <1>0, <1>5, <2>3 DEF TakeFrame
      <3>2. /\ p \in Packet /\ p \in Elems(rxq)
            /\ Distinct(rxq') /\ Elems(rxq') = Elems(rxq) \ {p}
        BY <1>0, <2>3, <3>1, TailElems
      <3> HIDE DEF p
      <3>3. w[p] = "rxq" /\ Loose(w, p)
        BY <1>2, <3>2 DEF Elsewhere, Loose
      <3>4. Once'
        BY <1>0, <2>1, <3>2 DEF Once, RxOnce, TxOnce
      <3>5. PICK v \in [Packet -> Place] : v[p] = "frame" /\ OnlyMoves(w, v, p)
        BY <3>2, Moved DEF Place
      <3>6. Elsewhere(v)'
        BY <1>0, <1>2, <2>1, <3>1, <3>2, <3>3, <3>5 DEF OnlyMoves, Elsewhere, Members
      <3> QED
        BY <1>a, <1>1, <2>1, <3>2, <3>3, <3>4, <3>5, <3>6, PacketPasses
    <2> QED
      BY <2>2, <2>3
  <1>6. CASE Deliver
    <2>1. /\ ip.frame # NoPacket /\ sock' = sock \cup {ip.frame} /\ ip'.frame = NoPacket
          /\ UNCHANGED <<pool, rx, tx, rxq, sentq>>
      BY <1>0, <1>6 DEF Deliver, Hands
    <2>2. web'.hand = web.hand /\ web'.seg = web.seg
      BY <1>0, <1>6, ResumedKeeps DEF Deliver
    <2>3. Once'
      BY <1>0, <2>1 DEF Once, RxOnce, TxOnce
    <2> DEFINE p == ip.frame
    <2>4. p \in Packet /\ Loose(w, p) /\ w[p] = "frame"
      BY <1>3, <2>1
    <2>5. PICK v \in [Packet -> Place] : v[p] = "sock" /\ OnlyMoves(w, v, p)
      BY <2>4, Moved DEF Place
    <2>6. Elsewhere(v)'
      <3> HIDE DEF p
      <3> QED
        BY <1>0, <1>2, <2>1, <2>2, <2>4, <2>5 DEF OnlyMoves, Elsewhere, Members, Elems, p
    <2> QED
      BY <1>a, <1>1, <2>1, <2>3, <2>4, <2>5, <2>6, PacketPasses
  <1>7. CASE Read
    <2>0. UNCHANGED <<pool, tx, rxq, sentq, sock, web>> /\ ip.frame = NoPacket
      BY <1>0, <1>7 DEF Read, Hands
    <2>1. CASE ~(eth = "up" /\ Filled)
      <3>1. rx' = rx /\ ip'.frame = ip.frame
        BY <1>0, <1>7, <2>1 DEF Read, Go, Served
      <3> QED
        BY <1>0, <1>4, <2>0, <3>1, PacketsStay
    <2>2. CASE eth = "up" /\ Filled
      <3> DEFINE p == rx.buf[rx.idx]
      <3>1. /\ rx'.buf = [rx.buf EXCEPT ![rx.idx] = NoPacket] /\ ip'.frame = p
            /\ rx.idx \in RxSlot /\ rx.buf \in [RxSlot -> PacketOrNull]
        <4>1. /\ ip' = [ip EXCEPT !.pc = "build", !.frame = p]
              /\ rx' = [rx EXCEPT !.buf[rx.idx] = NoPacket, !.idx = NextRx(@), !.bcnt = @ + 1]
          BY <1>7, <2>2 DEF Read
        <4>2. ip'.frame = p
          BY <1>0, <4>1 DEF TypeOK
        <4> QED
          BY <1>0, <4>1, <4>2 DEF TypeOK
      <3>2. rx'.buf[rx.idx] = NoPacket /\ \A i \in RxSlot : i # rx.idx => rx'.buf[i] = rx.buf[i]
        BY <3>1
      <3>3. Once'
        BY <1>0, <2>0, <3>1, <3>2 DEF Once, RxOnce, TxOnce
      <3>4. CASE p = NoPacket
        <4>1. rx'.buf = rx.buf
          BY <3>1, <3>4
        <4> QED
          BY <1>0, <1>4, <2>0, <3>1, <3>4, <4>1, PacketsStay
      <3>5. CASE p # NoPacket
        <4>1. p \in Packet /\ w[p] = "rx" /\ Loose(w, p)
          BY <1>0, <1>2, <3>1, <3>5 DEF Members, Elsewhere, Loose
        <4>2. \A i \in RxSlot : rx'.buf[i] # NoPacket => rx'.buf[i] # p /\ rx'.buf[i] = rx.buf[i]
          BY <1>0, <3>1, <3>2, <3>5 DEF RxOnce
        <4>3. PICK v \in [Packet -> Place] : v[p] = "frame" /\ OnlyMoves(w, v, p)
          BY <4>1, Moved DEF Place
        <4>4. Elsewhere(v)'
          <5> HIDE DEF p
          <5> QED
            BY <1>0, <1>2, <2>0, <3>1, <4>1, <4>2, <4>3 DEF OnlyMoves, Elsewhere, Members
        <4> QED
          BY <1>a, <1>1, <2>0, <3>3, <4>1, <4>3, <4>4, PacketPasses
      <3> QED
        BY <3>4, <3>5
    <2> QED
      BY <2>1, <2>2
  <1>8. CASE Build
    <2>1. PICK p \in pool.free :
            /\ pool' = Allocated(pool, p)
            /\ rx' = [rx EXCEPT !.buf[rx.bidx] = p, !.own[rx.bidx] = TRUE,
                                !.bidx = NextRx(@), !.bcnt = @ - 1]
      BY <1>8 DEF Build
    <2>2. UNCHANGED <<tx, rxq, sentq, sock, ip, web>>
      BY <1>8 DEF Build
    <2>3. p \in Packet /\ w[p] = "pool"
      BY <1>0, <1>1 DEF Members, PoolType, Placed, Books, BooksOf
    <2>4. /\ rx'.buf = [rx.buf EXCEPT ![rx.bidx] = p] /\ rx.bidx \in RxSlot
          /\ rx.buf \in [RxSlot -> PacketOrNull]
      BY <1>0, <2>1 DEF TypeOK
    <2>5. rx'.buf[rx.bidx] = p /\ \A i \in RxSlot : i # rx.bidx => rx'.buf[i] = rx.buf[i]
      BY <2>4
    <2>6. \A i \in RxSlot : rx.buf[i] # NoPacket => rx.buf[i] # p
      BY <1>0, <1>2, <2>3 DEF Elsewhere, Members
    <2>7. Once'
      BY <1>0, <2>2, <2>4, <2>5, <2>6 DEF Once, RxOnce, TxOnce
    <2>8. PICK v \in [Packet -> Place] : v[p] = "rx" /\ OnlyMoves(w, v, p)
      BY <2>3, Moved DEF Place
    <2>9. Elsewhere(v)'
      BY <1>0, <1>2, <2>2, <2>3, <2>4, <2>5, <2>6, <2>8 DEF OnlyMoves, Elsewhere, Members
    <2> QED
      BY <1>a, <1>1, <2>1, <2>2, <2>3, <2>7, <2>8, <2>9, PacketTaken
  <1>9. CASE Queue
    <2>1. /\ ip.frame # NoPacket /\ ip'.frame = NoPacket
          /\ UNCHANGED <<rx, tx, sentq, sock, web>>
      BY <1>0, <1>9 DEF Queue
    <2> DEFINE p == ip.frame
    <2>2. p \in Packet /\ w[p] = "frame" /\ Loose(w, p)
      BY <1>3, <2>1
    <2>3. CASE pool' = Released(pool, p) /\ rxq' = rxq
      <3>1. p \notin sock /\ web.hand # p /\ web.seg # p
        BY <1>0, <1>2, <2>2 DEF Elsewhere
      <3> QED
        BY <1>0, <1>1, <2>1, <2>2, <2>3, <3>1, PacketGivenUp
    <2>4. CASE rxq' = Append(rxq, p) /\ pool' = pool
      <3>1. p \notin Elems(rxq)
        BY <1>2, <2>2 DEF Elsewhere
      <3>2. Distinct(rxq') /\ Elems(rxq') = Elems(rxq) \cup {p}
        BY <1>0, <2>2, <2>4, <3>1, AppendElems
      <3>3. Once'
        BY <1>0, <2>1, <3>2 DEF Once, RxOnce, TxOnce
      <3>4. PICK v \in [Packet -> Place] : v[p] = "rxq" /\ OnlyMoves(w, v, p)
        BY <2>2, Moved DEF Place
      <3>5. Elsewhere(v)'
        <4> HIDE DEF p
        <4> QED
          BY <1>0, <1>2, <2>1, <2>2, <3>2, <3>4 DEF OnlyMoves, Elsewhere, Members
      <3> QED
        BY <1>a, <1>1, <2>1, <2>2, <2>4, <3>3, <3>4, <3>5, PacketPasses
    <2> QED
      BY <1>9, <2>3, <2>4 DEF Queue
  <1> QED
    BY <1>5, <1>6, <1>7, <1>8, <1>9

(* The web thread asks the pool for a packet. *)
LEMMA WebAllocates ==
  ASSUME Sound, NEW ready \in {"send", "send_seg"}, NEW suspended \in {"pool", "pool_seg"},
         NEW field \in {"hand", "seg"}, AllocateWaiting(ready, suspended, field),
         web.hand = NoPacket \/ field = "seg", web.seg = NoPacket, ~Asked(pool),
         UNCHANGED <<rx, tx, rxq, sentq, sock, ip>>
  PROVE  /\ Packets'
         /\ ~(pool'.waits /\ pool'.given # NoPacket)
         /\ \/ /\ ~Asked(pool') /\ web'.pc = ready
               /\ IF field = "hand" THEN web'.hand # NoPacket /\ web'.seg = web.seg
                                    ELSE web'.seg # NoPacket /\ web'.hand = web.hand
            \/ /\ Asked(pool') /\ web'.pc = suspended
               /\ web'.hand = web.hand /\ web'.seg = web.seg
         /\ pool' \in PoolType
         /\ web' \in [pc : WebPC, hand : PacketOrNull, seg : PacketOrNull]
  <1>0. /\ Packets /\ TypeOK /\ Hands /\ Before /\ Members /\ NoPacket \notin Packet
        /\ web \in [pc : WebPC, hand : PacketOrNull, seg : PacketOrNull]
        /\ pool \in PoolType
    BY MembersHold, EthAssumption DEF Sound, TypeOK, Before, Packets, Members
  <1>a. Before
    BY <1>0
  <1>1. PICK w \in [Packet -> Place] : Placed(w)
    BY <1>0 DEF Packets
  <1>2. CASE pool.free # {}
    <2>1. PICK p \in pool.free :
            /\ pool' = Allocated(pool, p)
            /\ web' = IF field = "hand" THEN [web EXCEPT !.pc = ready, !.hand = p]
                                        ELSE [web EXCEPT !.pc = ready, !.seg = p]
      BY <1>2 DEF AllocateWaiting
    <2>2. p \in Packet /\ w[p] = "pool"
      BY <1>0, <1>1 DEF PoolType, Placed, Books, BooksOf
    <2>3. Once'
      BY <1>0 DEF Before, Once, RxOnce, TxOnce
    <2>4. /\ web'.pc = ready
          /\ field = "hand" => web'.hand = p /\ web'.seg = web.seg
          /\ field # "hand" => web'.seg = p /\ web'.hand = web.hand
          /\ web' \in [pc : WebPC, hand : PacketOrNull, seg : PacketOrNull]
      BY <1>0, <2>1, <2>2 DEF WebPC, PacketOrNull
    <2>5. PICK v \in [Packet -> Place] : v[p] = field /\ OnlyMoves(w, v, p)
      BY <2>2, Moved DEF Place
    <2>6. Elsewhere(v)'
      BY <1>0, <1>1, <2>2, <2>4, <2>5 DEF OnlyMoves, Placed, Elsewhere, Members, Elems
    <2>7. Packets' /\ Asks(pool, pool') /\ pool' \in PoolType
      BY <1>a, <1>1, <2>1, <2>2, <2>3, <2>5, <2>6, PacketTaken
    <2> QED
      BY <1>0, <2>2, <2>4, <2>7 DEF Asks
  <1>3. CASE pool.free = {}
    <2>1. pool' = [pool EXCEPT !.waits = TRUE] /\ web' = [web EXCEPT !.pc = suspended]
      BY <1>3 DEF AllocateWaiting, WebGo
    <2>2. /\ pool'.free = pool.free /\ pool'.tag = pool.tag /\ pool'.done = pool.done
          /\ pool'.given = pool.given /\ pool'.waits = TRUE /\ pool' \in PoolType
      BY <1>0, <2>1 DEF PoolType
    <2>3. /\ web'.hand = web.hand /\ web'.seg = web.seg /\ web'.pc = suspended
          /\ web' \in [pc : WebPC, hand : PacketOrNull, seg : PacketOrNull]
      BY <1>0, <2>1 DEF WebPC
    <2>4. Once'
      BY <1>0 DEF Before, Once, RxOnce, TxOnce
    <2>5. Books(pool, w, Queued, InRing)' /\ Elsewhere(w)'
      BY <1>1, <2>2, <2>3 DEF Placed, Books, BooksOf, Queued, InRing, Elsewhere
    <2> QED
      BY <1>1, <2>2, <2>3, <2>4, <2>5 DEF Packets, Placed, Asked
  <1> QED
    BY <1>2, <1>3

(* It picks up the packet it was given. *)
LEMMA GivenStep ==
  ASSUME Sound, WebGiven
  PROVE  Packets' /\ ~Asked(pool')
  <1> USE DEF hw, tcp
  <1>0. /\ Packets /\ TypeOK /\ Hands /\ Before /\ Members /\ NoPacket \notin Packet
        /\ web \in [pc : WebPC, hand : PacketOrNull, seg : PacketOrNull]
        /\ pool \in PoolType
    BY MembersHold, EthAssumption DEF Sound, TypeOK, Before, Packets, Members
  <1>1. PICK w \in [Packet -> Place] : Placed(w)
    BY <1>0 DEF Packets
  <1> DEFINE p == pool.given
             l == IF web.pc = "pool" THEN "hand" ELSE "seg"
             u == [w EXCEPT ![p] = l]
  <1>2. p # NoPacket /\ p \in Packet /\ ~pool.waits /\ web.seg = NoPacket
        /\ (web.pc = "pool" => web.hand = NoPacket)
    BY <1>0 DEF WebGiven, Hands, Asked, PoolType, PacketOrNull
  <1>3. /\ pool'.free = pool.free /\ pool'.tag = pool.tag /\ pool'.done = pool.done
        /\ pool'.given = NoPacket /\ pool'.waits = pool.waits
        /\ UNCHANGED <<rx, tx, rxq, sentq, sock, ip>>
    BY <1>0 DEF WebGiven, PoolType
  <1>4. /\ web.pc = "pool" => web'.hand = p /\ web'.seg = web.seg
        /\ web.pc # "pool" => web'.seg = p /\ web'.hand = web.hand
    BY <1>0 DEF WebGiven
  <1>5. w[p] = "given" /\ BooksOf(pool, w, Queued, InRing, p)
    BY <1>1, <1>2 DEF Placed, Books, BooksOf
  <1>6. u \in [Packet -> Place] /\ u[p] = l /\ \A x \in Packet : x # p => u[x] = w[x]
    BY <1>2 DEF Place
  <1>7. Once' /\ Queued' = Queued /\ InRing' = InRing
    BY <1>0, <1>3 DEF Before, Once, RxOnce, TxOnce, Queued, InRing
  <1>8. ASSUME NEW x \in Packet PROVE BooksOf(pool', u, Queued, InRing, x)
    <2>1. BooksOf(pool, w, Queued, InRing, x)
      BY <1>1 DEF Placed, Books
    <2> HIDE DEF u
    <2> QED
      BY <1>0, <1>2, <1>3, <1>5, <1>6, <2>1 DEF BooksOf
  <1>9. PICK v \in [Packet -> Place] : v = u
    BY <1>6
  <1>10. Elsewhere(v)'
    <2>1. Elsewhere(w)
      BY <1>1 DEF Placed
    <2>2. v[p] = l /\ \A x \in Packet : x # p => v[x] = w[x]
      BY <1>6, <1>9
    <2> HIDE DEF u, p
    <2>3. CASE web.pc = "pool"
      BY <1>0, <1>2, <1>3, <1>4, <1>5, <2>1, <2>2, <2>3 DEF Elsewhere, Members, Elems
    <2>4. CASE web.pc # "pool"
      BY <1>0, <1>2, <1>3, <1>4, <1>5, <2>1, <2>2, <2>4 DEF Elsewhere, Members, Elems
    <2> QED
      BY <2>3, <2>4
  <1>11. Packets'
    <2> HIDE DEF u
    <2>1. Books(pool', v, Queued', InRing')
      BY <1>7, <1>8, <1>9 DEF Books
    <2> QED
      BY <1>7, <1>10, <2>1 DEF Packets, Placed
  <1> QED
    BY <1>2, <1>3, <1>11 DEF Asked

(* A packet is kept by TCP and handed to the driver. *)
LEMMA PacketEnqueued ==
  ASSUME Before, NEW w \in [Packet -> Place], Placed(w), NEW p \in Packet, Loose(w, p),
         sentq' = Append(sentq, p),
         PacketSend([pool EXCEPT !.tag[p] = "enqueued"], p),
         UNCHANGED <<rx, rxq, sock, ip>>,
         web'.hand \in {web.hand, NoPacket}, web'.hand # p,
         web'.seg \in {web.seg, NoPacket}, web'.seg # p,
         w[p] \in {"hand", "seg"}
  PROVE  Packets' /\ Asks(pool, pool')
  <1> DEFINE q == [pool EXCEPT !.tag[p] = "enqueued"]
  <1>1. Members /\ pool \in PoolType /\ Books(pool, w, Queued, InRing)
    BY MembersHold DEF Before, Members, Placed
  <1>2. /\ q.free = pool.free /\ q.tag = [pool.tag EXCEPT ![p] = "enqueued"]
        /\ q.done = pool.done /\ q.waits = pool.waits /\ q.given = pool.given
        /\ q \in PoolType
    BY <1>1 DEF PoolType
  <1>3. q.tag[p] = "enqueued" /\ \A x \in Packet : x # p => q.tag[x] = pool.tag[x]
    BY <1>1, <1>2 DEF PoolType
  <1> HIDE DEF q
  <1>4. PICK u \in [Packet -> Place] : u[p] = "sent" /\ OnlyMoves(w, u, p)
    BY Moved DEF Place
  <1>5. /\ p \notin pool.free /\ p # pool.given /\ p \notin Queued /\ p \notin InRing
        /\ ~pool.done[p]
    <2>1. "pool" \in Place
      BY DEF Place
    <2> QED
      BY <1>1, <2>1, LooseBooks
  <1>6. Books(q, u, Queued \cup {p}, InRing \cup {p})
    <2>1. BooksOf(q, u, Queued \cup {p}, InRing \cup {p}, p)
      BY <1>2, <1>3, <1>4, <1>5 DEF BooksOf
    <2>2. ASSUME NEW x \in Packet, x # p
          PROVE  BooksOf(q, u, Queued \cup {p}, InRing \cup {p}, x)
      <3>1. BooksOf(pool, w, Queued, InRing, x)
        BY <1>1 DEF Books
      <3>2. u[x] = w[x] /\ q.tag[x] = pool.tag[x]
        BY <1>3, <1>4, <2>2 DEF OnlyMoves
      <3> QED
        BY <1>2, <2>2, <3>1, <3>2 DEF BooksOf
    <2> QED
      BY <2>1, <2>2 DEF Books
  <1>7. ~(q.waits /\ q.given # NoPacket)
    BY <1>2 DEF Before, Hands
  <1>8. TxOnce' /\ Rebooked(q, pool', u, Queued \cup {p}, InRing', p)
    <2>1. PacketSend(q, p)
      BY DEF q
    <2> QED
      BY <1>2, <1>5, <1>6, <1>7, <2>1, SendBooks DEF Before, Once
  <1>9. Queued' = Queued \cup {p} /\ Once'
    <2>1. sentq \in Seq(Packet) /\ Distinct(sentq) /\ p \notin Elems(sentq)
      BY <1>1, <1>5 DEF Before, TypeOK, Once, Members
    <2>2. Distinct(sentq') /\ Elems(sentq') = Elems(sentq) \cup {p}
      BY <2>1, AppendElems
    <2> QED
      BY <1>8, <2>2 DEF Queued, Elems, Before, Once, RxOnce
  <1>10. ASSUME NEW v \in [Packet -> Place], \A x \in Packet : x # p => v[x] = u[x]
         PROVE  Elsewhere(v)'
    <2>1. Elsewhere(w) /\ \A x \in Packet : x # p => v[x] = w[x]
      BY <1>4, <1>10 DEF Placed, OnlyMoves
    <2> QED
      BY <1>1, <2>1 DEF Members, Elsewhere, Elems
  <1>11. Rebooked(q, pool', u, Queued', InRing', p)
    BY <1>8, <1>9
  <1>12. Packets'
    BY <1>9, <1>10, <1>11, Settle
  <1>13. Asks(pool, pool')
    BY <1>2, <1>11 DEF Rebooked, Asks, Asked
  <1> QED
    BY <1>12, <1>13

LEMMA SendSteps ==
  ASSUME Sound, Reply \/ Probe \/ WebClose \/ WebSend \/ WebSendSeg
  PROVE  Packets' /\ Asks(pool, pool')
  <1> USE DEF hw, tcp
  <1>0. /\ Packets /\ TypeOK /\ Hands /\ Members /\ NoPacket \notin Packet
        /\ ip \in [pc : IpPC, got : SUBSET {"receive", "timer", "driver"},
                   work : SUBSET {"rx", "tx"}, frame : PacketOrNull, pos : 1..(QueueMax + 1)]
        /\ web \in [pc : WebPC, hand : PacketOrNull, seg : PacketOrNull]
    BY MembersHold, EthAssumption DEF Sound, TypeOK
  <1>a. Before
    BY DEF Sound, Before, Packets
  <1>1. PICK w \in [Packet -> Place] : Placed(w)
    BY <1>0 DEF Packets
  <1>2. /\ web.hand # NoPacket => w[web.hand] = "hand" /\ Loose(w, web.hand) /\ web.hand \in Packet
        /\ web.seg # NoPacket => w[web.seg] = "seg" /\ Loose(w, web.seg) /\ web.seg \in Packet
    BY <1>0, <1>1 DEF Placed, Elsewhere, Loose, Members
  <1>3. UNCHANGED pool => Asks(pool, pool')
    BY <1>0 DEF Asks, Asked, Hands
  <1>4. CASE Reply \/ Probe \/ WebClose
    <2>1. UNCHANGED <<rx, rxq, sentq, sock>>
      BY <1>4 DEF Reply, Probe, WebClose
    <2>2. ip'.frame = ip.frame /\ web'.hand = web.hand /\ web'.seg = web.seg
      BY <1>0, <1>4 DEF Reply, Probe, WebClose, Go, WebGo
    <2>3. CASE UNCHANGED <<pool, tx>>
      BY <1>0, <1>3, <2>1, <2>2, <2>3, PacketsStay
    <2>4. CASE \E p \in pool.free : PacketSend(Allocated(pool, p), p)
      BY <1>a, <1>1, <2>1, <2>2, <2>4, PacketBuilt
    <2> QED
      BY <1>4, <2>3, <2>4 DEF Reply, Probe, WebClose
  <1>5. CASE WebSend
    <2>1. /\ sentq' = Append(sentq, web.hand) /\ UNCHANGED <<rx, rxq, sock, ip>>
          /\ PacketSend([pool EXCEPT !.tag[web.hand] = "enqueued"], web.hand)
      BY <1>5 DEF WebSend, Enqueue
    <2>2. /\ web.hand # NoPacket /\ web.seg = NoPacket
          /\ web'.hand = NoPacket /\ web'.seg = web.seg
      BY <1>0, <1>5 DEF WebSend, Hands
    <2> QED
      BY <1>a, <1>1, <1>2, <2>1, <2>2, PacketEnqueued
  <1>6. CASE WebSendSeg
    <2>1. /\ sentq' = Append(sentq, web.seg) /\ UNCHANGED <<rx, rxq, sock, ip>>
          /\ PacketSend([pool EXCEPT !.tag[web.seg] = "enqueued"], web.seg)
      BY <1>6 DEF WebSendSeg, Enqueue
    <2>2. /\ web.seg # NoPacket /\ web.hand # NoPacket
          /\ web'.seg = NoPacket /\ web'.hand = web.hand
      BY <1>0, <1>6 DEF WebSendSeg, Hands
    <2>3. web.hand # web.seg
      BY <1>2, <2>2
    <2> QED
      BY <1>a, <1>1, <1>2, <2>1, <2>2, <2>3, PacketEnqueued
  <1> QED
    BY <1>4, <1>5, <1>6

(* A packet of TCP's queue is sent again; a packet that was sent is taken  *)
(* off the ring.                                                           *)
LEMMA RingSteps ==
  ASSUME Sound, Resend \/ TxFree
  PROVE  Packets' /\ Asks(pool, pool')
  <1> USE DEF hw, tcp
  <1>0. /\ Members /\ NoPacket \notin Packet /\ pool \in PoolType
        /\ ip \in [pc : IpPC, got : SUBSET {"receive", "timer", "driver"},
                   work : SUBSET {"rx", "tx"}, frame : PacketOrNull, pos : 1..(QueueMax + 1)]
    BY MembersHold, EthAssumption DEF Sound, TypeOK, Members
  <1>a. Before
    BY DEF Sound, Before, Packets
  <1>1. PICK w \in [Packet -> Place] : Placed(w)
    BY DEF Sound, Packets
  <1>2. Books(pool, w, Queued, InRing) /\ Elsewhere(w)
    BY <1>1 DEF Placed
  <1>3. ~(pool.waits /\ pool.given # NoPacket)
    BY <1>a DEF Before, Hands
  <1>4. CASE Resend
    <2> DEFINE p == sentq[ip.pos]
               q == [pool EXCEPT !.done[p] = FALSE]
    <2>1. /\ pool.done[p] /\ PacketSend(q, p) /\ ip'.frame = ip.frame
          /\ UNCHANGED <<rx, rxq, sentq, sock, web>>
      BY <1>0, <1>4 DEF Resend
    <2>2. p \in Packet /\ p \in Queued
      <3>1. ip.pos \in DOMAIN sentq
        BY <1>0, <1>4, <1>a DEF Resend, Before, TypeOK
      <3> QED
        BY <1>0, <3>1 DEF Members, Elems
    <2>3. p \notin InRing /\ w[p] = "sent"
      BY <1>2, <2>1, <2>2 DEF Books, BooksOf
    <2>4. /\ q.free = pool.free /\ q.tag = pool.tag /\ q.done = [pool.done EXCEPT ![p] = FALSE]
          /\ q.waits = pool.waits /\ q.given = pool.given /\ q \in PoolType
      BY <1>0 DEF PoolType
    <2>5. ~q.done[p] /\ \A x \in Packet : x # p => q.done[x] = pool.done[x]
      BY <1>0, <2>2, <2>4 DEF PoolType
    <2> HIDE DEF p, q
    <2>6. Books(q, w, Queued, InRing \cup {p})
      <3> SUFFICES ASSUME NEW x \in Packet PROVE BooksOf(q, w, Queued, InRing \cup {p}, x)
        BY DEF Books
      <3>1. BooksOf(pool, w, Queued, InRing, x)
        BY <1>2 DEF Books
      <3> QED
        BY <2>2, <2>3, <2>4, <2>5, <3>1 DEF BooksOf
    <2>7. TxOnce' /\ Rebooked(q, pool', w, Queued, InRing', p)
      BY <1>3, <1>a, <2>1, <2>2, <2>3, <2>4, <2>6, SendBooks DEF Before, Once
    <2>8. Queued' = Queued /\ Once'
      BY <1>a, <2>1, <2>7 DEF Queued, Before, Once, RxOnce
    <2>9. ASSUME NEW v \in [Packet -> Place], \A x \in Packet : x # p => v[x] = w[x]
          PROVE  Elsewhere(v)'
      BY <1>0, <1>2, <2>1, <2>3, <2>9 DEF Members, Elsewhere, Elems
    <2>10. Rebooked(q, pool', w, Queued', InRing', p)
      BY <2>7, <2>8
    <2>11. Packets'
      BY <2>2, <2>8, <2>9, <2>10, Settle
    <2> QED
      BY <2>4, <2>10, <2>11 DEF Rebooked, Asks, Asked
  <1>5. CASE TxFree
    <2> DEFINE p == tx.pkt[tx.rel]
    <2>1. /\ p # NoPacket /\ pool' = TransmitReleased(pool, p)
          /\ UNCHANGED <<rx, rxq, sentq, sock, ip, web>>
      BY <1>5 DEF TxFree, Transmitted
    <2>2. tx.rel \in TxSlot /\ tx'.pkt = [tx.pkt EXCEPT ![tx.rel] = NoPacket]
      BY <1>5, <1>a DEF TxFree, Before, TypeOK
    <2>3. TxOnce' /\ InRing' = InRing \ {p}
      BY <1>a, <2>1, <2>2, RingTake DEF Before, Once
    <2>4. p \in InRing /\ p \in Packet
      BY <1>0, <2>1, <2>2 DEF InRing, Members
    <2> HIDE DEF p
    <2>5. (InRing \ {p}) \cup {p} = InRing
      BY <2>4
    <2>6. Rebooked(pool, pool', w, Queued, InRing \ {p}, p)
      BY <1>0, <1>2, <1>3, <2>1, <2>4, <2>5, TransmitReleasedBooks
    <2>7. w[p] = "sent"
      BY <1>2, <2>4 DEF Books, BooksOf
    <2>8. Queued' = Queued /\ Once'
      BY <1>a, <2>1, <2>3 DEF Queued, Before, Once, RxOnce
    <2>9. ASSUME NEW v \in [Packet -> Place], \A x \in Packet : x # p => v[x] = w[x]
          PROVE  Elsewhere(v)'
      BY <1>0, <1>2, <2>1, <2>7, <2>9 DEF Members, Elsewhere, Elems
    <2>10. Rebooked(pool, pool', w, Queued', InRing', p)
      BY <2>3, <2>6, <2>8
    <2>11. Packets'
      BY <2>4, <2>8, <2>9, <2>10, Settle
    <2> QED
      BY <2>10, <2>11 DEF Rebooked
  <1> QED
    BY <1>4, <1>5

-----------------------------------------------------------------------------
(* Every step keeps the packets in their places; only steps of the web     *)
(* thread change whether it waits for a packet.                            *)
WebAsks == WebChunk \/ WebSplit \/ WebGiven

LEMMA PacketsNext ==
  ASSUME Sound, Next \/ UNCHANGED vars
  PROVE  Packets' /\ (WebAsks \/ Asks(pool, pool'))
  <1>1. CASE Dma \/ EthIrq
    BY <1>1, QuietSteps
  <1>2. CASE IpThread
    BY <1>2, QuietSteps, ReleaseSteps, DequeueSteps, MoveSteps, SendSteps, RingSteps
       DEF IpThread
  <1>3. CASE WebThread
    <2>1. CASE WebChunk
      <3>1. web.hand = NoPacket /\ web.seg = NoPacket /\ ~Asked(pool)
        BY <2>1 DEF WebChunk, Sound, Hands
      <3>2. UNCHANGED <<rx, tx, ip, rxq, sentq, sock>>
        BY <2>1 DEF WebChunk, tcp
      <3>3. AllocateWaiting("send", "pool", "hand")
        BY <2>1 DEF WebChunk
      <3> QED
        BY <2>1, <3>1, <3>2, <3>3, WebAllocates DEF WebAsks
    <2>2. CASE WebSplit
      <3>1. web.seg = NoPacket /\ ~Asked(pool)
        BY <2>2 DEF WebSplit, Sound, Hands
      <3>2. UNCHANGED <<rx, tx, ip, rxq, sentq, sock>>
        BY <2>2 DEF WebSplit, tcp
      <3>3. AllocateWaiting("send_seg", "pool_seg", "seg")
        BY <2>2 DEF WebSplit
      <3> QED
        BY <2>2, <3>1, <3>2, <3>3, WebAllocates DEF WebAsks
    <2>3. CASE WebGiven
      BY <2>3, GivenStep DEF WebAsks
    <2> QED
      BY <1>3, <2>1, <2>2, <2>3, QuietSteps, ReleaseSteps, DequeueSteps, SendSteps DEF WebThread
  <1>4. CASE UNCHANGED vars
    <2>1. UNCHANGED <<pool, rx, tx, ip, rxq, sentq, sock, web>>
      BY <1>4 DEF vars
    <2>2. Packets'
      BY <2>1, PacketsStay DEF Sound
    <2> QED
      BY <2>1, <2>2 DEF Sound, Hands, Asks, Asked
  <1> QED
    BY <1>1, <1>2, <1>3, <1>4 DEF Next

-----------------------------------------------------------------------------
(* The types of the pool.                                                  *)
LEMMA PoolOperations ==
  ASSUME NEW q \in PoolType, NEW p \in Packet
  PROVE  /\ Released(q, p) \in PoolType /\ TransmitReleased(q, p) \in PoolType
         /\ Dequeued(q, p) \in PoolType /\ Allocated(q, p) \in PoolType
         /\ [q EXCEPT !.tag[p] = "enqueued"] \in PoolType
         /\ [q EXCEPT !.done[p] = FALSE] \in PoolType
         /\ [q EXCEPT !.waits = TRUE] \in PoolType
         /\ [q EXCEPT !.given = NoPacket] \in PoolType
  <1>1. \A r \in PoolType : Released(r, p) \in PoolType
    <2> SUFFICES ASSUME NEW r \in PoolType PROVE Released(r, p) \in PoolType
      OBVIOUS
    <2>1. [r EXCEPT !.waits = FALSE, !.given = p, !.done[p] = FALSE] \in PoolType
      BY DEF PoolType, PacketOrNull
    <2>2. [r EXCEPT !.free = @ \cup {p}, !.tag[p] = "free", !.done[p] = FALSE] \in PoolType
      BY DEF PoolType
    <2> QED
      BY <2>1, <2>2 DEF Released
  <1>2. TransmitReleased(q, p) \in PoolType
    BY <1>1 DEF TransmitReleased, PoolType
  <1>3. [q EXCEPT !.tag[p] = "allocated"] \in PoolType
    BY DEF PoolType
  <1>4. Dequeued(q, p) \in PoolType
    BY <1>1, <1>3 DEF Dequeued
  <1>5. Allocated(q, p) \in PoolType
    BY DEF Allocated, PoolType
  <1> QED
    BY <1>1, <1>2, <1>4, <1>5 DEF PoolType, PacketOrNull

-----------------------------------------------------------------------------
(* The transmit ring.                                                      *)
TxType ==
  [pkt : [TxSlot -> PacketOrNull], own : [TxSlot -> BOOLEAN],
   cur : TxSlot, rel : TxSlot, used : 0..TxCount, dma : TxSlot]

LEMMA TxSlots ==
  /\ TxCount \in Nat \ {0} /\ 0 \in TxSlot /\ TxSlot = 0..(TxCount - 1)
  /\ \A i \in TxSlot : NextTx(i) \in TxSlot /\ NextTx(i) = Around(i, 1, TxCount)
  BY EthAssumption DEF TxSlot, NextTx, Around

LEMMA TxAround ==
  ASSUME NEW i \in TxSlot, NEW a \in 0..TxCount
  PROVE  /\ Around(i, a, TxCount) \in TxSlot /\ Around(i, 0, TxCount) = i
  BY TxSlots, AroundType, AroundZero

LEMMA TxTurning ==
  ASSUME NEW i \in TxSlot, NEW j \in TxSlot, NEW a \in 0..TxCount,
         NEW b \in 0..TxCount, NEW k \in 0..TxCount, k = a + b,
         j = Around(i, a, TxCount)
  PROVE  Around(j, b, TxCount) = Around(i, k, TxCount)
  BY TxSlots, AroundTurns

LEMMA TxWindow ==
  ASSUME NEW i \in TxSlot, NEW from \in TxSlot
  PROVE  /\ \A k \in 1..TxCount : InWindow(from, from, k, TxCount)
         /\ \A f, c \in 0..TxCount :
              f + c <= TxCount /\ InWindow(i, Around(from, f, TxCount), c, TxCount) =>
                InWindow(i, from, f + c, TxCount)
  BY TxSlots, WindowFirst, WindowInside

(* A ring that has room has a free descriptor to offer, and the DMA does   *)
(* not own it.                                                             *)
LEMMA TxRoom ==
  ASSUME tx \in TxType, NEW f \in 0..TxCount, NEW c \in 0..TxCount, TxRing(f, c),
         tx.pkt[tx.cur] = NoPacket
  PROVE  tx.used < TxCount
  <1>1. CASE tx.used = TxCount
    <2>1. InWindow(tx.cur, tx.rel, TxCount, TxCount)
      BY WindowFull, TxSlots DEF TxType
    <2> QED
      BY <1>1, <2>1 DEF TxRing, TxType
  <1> QED
    BY <1>1, TxSlots DEF TxType

(* A packet put into the ring. *)
LEMMA TxPut ==
  ASSUME tx \in TxType, TxSound, TxReady, NEW p \in Packet,
         tx' = [tx EXCEPT !.pkt[tx.cur] = p, !.own[tx.cur] = TRUE,
                          !.cur = NextTx(@), !.used = @ + 1]
  PROVE  tx' \in TxType /\ TxSound'
  <1>1. PICK f \in 0..TxCount : \E c \in 0..TxCount : TxRing(f, c)
    BY DEF TxSound
  <1>2. PICK c \in 0..TxCount : TxRing(f, c)
    BY <1>1
  <1>3. tx.used < TxCount /\ p # NoPacket
    BY <1>2, TxRoom, EthAssumption DEF TxReady
  <1>4. /\ tx.cur \in TxSlot /\ tx.rel \in TxSlot /\ tx.dma \in TxSlot
        /\ tx.used \in 0..TxCount /\ tx.used = f + c
        /\ tx.cur = Around(tx.rel, tx.used, TxCount)
        /\ tx.dma = Around(tx.rel, f, TxCount)
    BY <1>2 DEF TxType, TxRing
  <1>5. /\ tx'.rel = tx.rel /\ tx'.dma = tx.dma /\ tx'.used = tx.used + 1
        /\ tx'.cur = Around(tx.rel, tx.used + 1, TxCount)
        /\ tx'.pkt = [tx.pkt EXCEPT ![tx.cur] = p]
        /\ tx'.own = [tx.own EXCEPT ![tx.cur] = TRUE]
    <2>1. tx.used + 1 \in 0..TxCount /\ 1 \in 0..TxCount
      BY <1>3, <1>4, EthAssumption
    <2>3. /\ tx.cur \in TxSlot /\ tx.rel \in TxSlot /\ tx.used \in 0..TxCount
          /\ tx.cur = Around(tx.rel, tx.used, TxCount)
      BY <1>4
    <2>2. NextTx(tx.cur) = Around(tx.rel, tx.used + 1, TxCount)
      <3>1. NextTx(tx.cur) = Around(tx.cur, 1, TxCount)
        BY <1>4, TxSlots
      <3>2. Around(tx.cur, 1, TxCount) = Around(tx.rel, tx.used + 1, TxCount)
        BY <2>1, <2>3, TxTurning
      <3> QED
        BY <3>1, <3>2
    <2> QED
      BY <2>2 DEF TxType
  <1>6. tx' \in TxType
    <2>1. /\ NextTx(tx.cur) \in TxSlot /\ p \in PacketOrNull
      BY <1>4, TxSlots DEF PacketOrNull
    <2>2. tx.used + 1 \in 0..TxCount
      BY <1>3, <1>4, EthAssumption
    <2> QED
      BY <1>4, <2>1, <2>2 DEF TxType
  <1>7. tx.cur = Around(tx.dma, c, TxCount)
    <2>1. Around(tx.dma, c, TxCount) = Around(tx.rel, tx.used, TxCount)
      BY <1>4, TxTurning
    <2> QED
      BY <1>4, <2>1
  <1>8. c + 1 \in 0..TxCount /\ c \in 0..(TxCount - 1) /\ tx.used \in 0..(TxCount - 1)
    BY <1>3, <1>4, TxSlots
  <1>9. \A i \in TxSlot :
          /\ tx'.pkt[i] # NoPacket <=> InWindow(i, tx.rel, tx.used + 1, TxCount)
          /\ tx'.own[i] <=> InWindow(i, tx.dma, c + 1, TxCount)
    <2> SUFFICES ASSUME NEW i \in TxSlot
                 PROVE  /\ tx'.pkt[i] # NoPacket <=> InWindow(i, tx.rel, tx.used + 1, TxCount)
                        /\ tx'.own[i] <=> InWindow(i, tx.dma, c + 1, TxCount)
      OBVIOUS
    <2>1. /\ InWindow(i, tx.rel, tx.used + 1, TxCount) <=>
               InWindow(i, tx.rel, tx.used, TxCount) \/ i = tx.cur
          /\ InWindow(i, tx.dma, c + 1, TxCount) <=>
               InWindow(i, tx.dma, c, TxCount) \/ i = tx.cur
      BY <1>4, <1>7, <1>8, TxSlots, WindowGrows
    <2>2. /\ tx.pkt[i] # NoPacket <=> InWindow(i, tx.rel, tx.used, TxCount)
          /\ tx.own[i] <=> InWindow(i, tx.dma, c, TxCount)
      BY <1>2 DEF TxRing
    <2>3. /\ tx'.pkt[i] = IF i = tx.cur THEN p ELSE tx.pkt[i]
          /\ tx'.own[i] = IF i = tx.cur THEN TRUE ELSE tx.own[i]
      BY <1>5 DEF TxType
    <2> QED
      BY <1>3, <2>1, <2>2, <2>3
  <1>10. TxRing(f, c + 1)'
    BY <1>4, <1>5, <1>8, <1>9 DEF TxRing
  <1> QED
    BY <1>6, <1>8, <1>10 DEF TxSound

(* The DMA has sent one. *)
LEMMA TxSent ==
  ASSUME tx \in TxType, TxSound, tx.own[tx.dma],
         tx' = [tx EXCEPT !.own[tx.dma] = FALSE, !.dma = NextTx(@)]
  PROVE  tx' \in TxType /\ TxSound'
  <1>1. PICK f \in 0..TxCount : \E c \in 0..TxCount : TxRing(f, c)
    BY DEF TxSound
  <1>2. PICK c \in 0..TxCount : TxRing(f, c)
    BY <1>1
  <1>3. /\ tx.cur \in TxSlot /\ tx.rel \in TxSlot /\ tx.dma \in TxSlot
        /\ tx.used \in 0..TxCount /\ tx.used = f + c
        /\ tx.dma = Around(tx.rel, f, TxCount)
    BY <1>2 DEF TxType, TxRing
  <1>4. c > 0
    <2>1. InWindow(tx.dma, tx.dma, c, TxCount)
      BY <1>2, <1>3 DEF TxRing
    <2> QED
      BY <1>3, <2>1, TxSlots, WindowFull
  <1>5. /\ c - 1 \in 0..TxCount /\ c \in 1..TxCount /\ f + 1 \in 0..TxCount
        /\ f \in 0..(TxCount - 1)
    BY <1>3, <1>4, TxSlots
  <1>6. /\ tx'.rel = tx.rel /\ tx'.used = tx.used /\ tx'.cur = tx.cur /\ tx'.pkt = tx.pkt
        /\ tx'.own = [tx.own EXCEPT ![tx.dma] = FALSE]
        /\ tx'.dma = Around(tx.dma, 1, TxCount)
    BY <1>3, TxSlots DEF TxType
  <1>7. tx' \in TxType
    BY <1>3, TxSlots DEF TxType
  <1>8. tx'.dma = Around(tx.rel, f + 1, TxCount)
    <2>1. 1 \in 0..TxCount
      BY EthAssumption
    <2>2. tx.rel \in TxSlot /\ tx.dma \in TxSlot /\ tx.dma = Around(tx.rel, f, TxCount)
      BY <1>3
    <2>3. Around(tx.dma, 1, TxCount) = Around(tx.rel, f + 1, TxCount)
      BY <1>5, <2>1, <2>2, TxTurning
    <2> QED
      BY <1>6, <2>3
  <1>9. \A i \in TxSlot : tx'.own[i] <=> InWindow(i, tx'.dma, c - 1, TxCount)
    <2> SUFFICES ASSUME NEW i \in TxSlot
                 PROVE  tx'.own[i] <=> InWindow(i, tx'.dma, c - 1, TxCount)
      OBVIOUS
    <2>1. InWindow(i, Around(tx.dma, 1, TxCount), c - 1, TxCount) <=>
            InWindow(i, tx.dma, c, TxCount) /\ i # tx.dma
      BY <1>3, <1>5, TxSlots, WindowShrinks
    <2>2. tx'.own[i] = IF i = tx.dma THEN FALSE ELSE tx.own[i]
      BY <1>6 DEF TxType
    <2>3. tx.own[i] <=> InWindow(i, tx.dma, c, TxCount)
      BY <1>2 DEF TxRing
    <2> QED
      BY <1>6, <2>1, <2>2, <2>3
  <1>10. TxRing(f + 1, c - 1)'
    BY <1>2, <1>3, <1>5, <1>6, <1>8, <1>9 DEF TxRing
  <1> QED
    BY <1>5, <1>7, <1>10 DEF TxSound

(* A packet that has been sent is taken out. *)
LEMMA TxReleased ==
  ASSUME tx \in TxType, TxSound, tx.used > 0, ~tx.own[tx.rel],
         tx' = [tx EXCEPT !.pkt[tx.rel] = NoPacket, !.rel = NextTx(@), !.used = @ - 1]
  PROVE  tx' \in TxType /\ TxSound'
  <1>1. PICK f \in 0..TxCount : \E c \in 0..TxCount : TxRing(f, c)
    BY DEF TxSound
  <1>2. PICK c \in 0..TxCount : TxRing(f, c)
    BY <1>1
  <1>3. /\ tx.cur \in TxSlot /\ tx.rel \in TxSlot /\ tx.dma \in TxSlot
        /\ tx.used \in 0..TxCount /\ tx.used = f + c
        /\ tx.dma = Around(tx.rel, f, TxCount)
        /\ tx.cur = Around(tx.rel, tx.used, TxCount)
    BY <1>2 DEF TxType, TxRing
  <1>4. f > 0
    <2>1. CASE f = 0
      <3>1. tx.dma = tx.rel /\ c > 0
        BY <1>3, <2>1, TxSlots DEF Around
      <3>2. InWindow(tx.rel, tx.dma, c, TxCount)
        BY <1>3, <3>1, TxSlots DEF InWindow
      <3> QED
        BY <1>2, <1>3, <3>2 DEF TxRing
    <2> QED
      BY <2>1
  <1>5. f - 1 \in 0..TxCount /\ tx.used \in 1..TxCount /\ tx.used - 1 = (f - 1) + c
    BY <1>3, <1>4, TxSlots
  <1>6. /\ tx'.dma = tx.dma /\ tx'.cur = tx.cur /\ tx'.own = tx.own
        /\ tx'.pkt = [tx.pkt EXCEPT ![tx.rel] = NoPacket]
        /\ tx'.used = tx.used - 1 /\ tx'.rel = Around(tx.rel, 1, TxCount)
    BY <1>3, TxSlots DEF TxType
  <1>7. tx' \in TxType
    <2>1. NextTx(tx.rel) \in TxSlot /\ NoPacket \in PacketOrNull
      BY <1>3, TxSlots DEF PacketOrNull
    <2>2. tx.used - 1 \in 0..TxCount
      BY <1>5, EthAssumption
    <2> QED
      BY <1>3, <2>1, <2>2 DEF TxType
  <1>8. /\ tx'.dma = Around(tx'.rel, f - 1, TxCount)
        /\ tx'.cur = Around(tx'.rel, tx'.used, TxCount)
    <2>1. /\ 1 \in 0..TxCount /\ tx.used - 1 \in 0..TxCount
          /\ f = 1 + (f - 1) /\ tx.used = 1 + (tx.used - 1)
      BY <1>3, <1>4, <1>5, EthAssumption
    <2> DEFINE j == Around(tx.rel, 1, TxCount)
    <2>2. j \in TxSlot
      BY <1>3, <2>1, TxAround
    <2> HIDE DEF j
    <2>3. j = Around(tx.rel, 1, TxCount) /\ tx.rel \in TxSlot /\ tx.used \in 0..TxCount
      BY <1>3 DEF j
    <2>4. Around(j, f - 1, TxCount) = Around(tx.rel, f, TxCount)
      BY <1>5, <2>1, <2>2, <2>3, TxTurning
    <2>5. Around(j, tx.used - 1, TxCount) = Around(tx.rel, tx.used, TxCount)
      BY <2>1, <2>2, <2>3, TxTurning
    <2> QED
      BY <1>3, <1>6, <2>3, <2>4, <2>5
  <1>9. \A i \in TxSlot : tx'.pkt[i] # NoPacket <=> InWindow(i, tx'.rel, tx'.used, TxCount)
    <2> SUFFICES ASSUME NEW i \in TxSlot
                 PROVE  tx'.pkt[i] # NoPacket <=> InWindow(i, tx'.rel, tx'.used, TxCount)
      OBVIOUS
    <2>1. InWindow(i, Around(tx.rel, 1, TxCount), tx.used - 1, TxCount) <=>
            InWindow(i, tx.rel, tx.used, TxCount) /\ i # tx.rel
      BY <1>3, <1>5, TxSlots, WindowShrinks
    <2>2. tx'.pkt[i] = IF i = tx.rel THEN NoPacket ELSE tx.pkt[i]
      BY <1>6 DEF TxType
    <2>3. tx.pkt[i] # NoPacket <=> InWindow(i, tx.rel, tx.used, TxCount)
      BY <1>2 DEF TxRing
    <2> QED
      BY <1>6, <2>1, <2>2, <2>3
  <1>10. TxRing(f - 1, c)'
    BY <1>2, <1>3, <1>5, <1>6, <1>8, <1>9 DEF TxRing
  <1> QED
    BY <1>5, <1>7, <1>10 DEF TxSound

LEMMA TxStays ==
  ASSUME TxSound, UNCHANGED tx
  PROVE  TxSound'
  BY DEF TxSound, TxRing

LEMMA TxSends ==
  ASSUME tx \in TxType, TxSound, NEW q \in PoolType, NEW p \in Packet, PacketSend(q, p)
  PROVE  tx' \in TxType /\ TxSound' /\ pool' \in PoolType
  BY TxPut, TxStays, PoolOperations DEF PacketSend

-----------------------------------------------------------------------------
(* The receive ring.                                                       *)
RxType ==
  [buf : [RxSlot -> PacketOrNull], own : [RxSlot -> BOOLEAN],
   idx : RxSlot, bidx : RxSlot, bcnt : 0..RxCount, dma : RxSlot]

RxTurns == \E f, c \in 0..RxCount : RxRing(f, c)

LEMMA RxSlots ==
  /\ RxCount \in Nat \ {0} /\ 0 \in RxSlot /\ RxSlot = 0..(RxCount - 1)
  /\ \A i \in RxSlot : NextRx(i) \in RxSlot /\ NextRx(i) = Around(i, 1, RxCount)
  BY EthAssumption DEF RxSlot, NextRx, Around

LEMMA RxAround ==
  ASSUME NEW i \in RxSlot, NEW a \in 0..RxCount
  PROVE  /\ Around(i, a, RxCount) \in RxSlot /\ Around(i, 0, RxCount) = i
  BY RxSlots, AroundType, AroundZero

LEMMA RxTurning ==
  ASSUME NEW i \in RxSlot, NEW j \in RxSlot, NEW a \in 0..RxCount,
         NEW b \in 0..RxCount, NEW k \in 0..RxCount, k = a + b,
         j = Around(i, a, RxCount)
  PROVE  Around(j, b, RxCount) = Around(i, k, RxCount)
  BY RxSlots, AroundTurns

LEMMA RxWindow ==
  ASSUME NEW from \in RxSlot, NEW k \in 1..RxCount
  PROVE  InWindow(from, from, k, RxCount)
  BY RxSlots, WindowFirst

(* All descriptors are to be built. *)
LEMMA RxEnabled ==
  ASSUME rx \in RxType, RxEmpty, rx' = [rx EXCEPT !.bcnt = RxCount]
  PROVE  rx' \in RxType /\ RxTurns'
  <1>1. /\ rx'.idx = 0 /\ rx'.bidx = 0 /\ rx'.dma = 0 /\ rx'.bcnt = RxCount
        /\ rx'.buf = rx.buf /\ rx'.own = rx.own /\ rx' \in RxType
    BY RxSlots DEF RxType, RxEmpty
  <1>2. \A i \in RxSlot : /\ InWindow(i, 0, RxCount, RxCount)
                          /\ ~InWindow(i, 0, 0, RxCount)
    BY WindowFull, RxSlots
  <1>3. Around(0, RxCount, RxCount) = 0 /\ Around(0, 0, RxCount) = 0
    BY RxSlots DEF Around
  <1>4. RxRing(0, 0)'
    BY <1>1, <1>2, <1>3, RxSlots DEF RxRing, RxEmpty
  <1> QED
    BY <1>1, <1>4, RxSlots DEF RxTurns

(* The DMA has filled a descriptor. *)
LEMMA RxFilled ==
  ASSUME rx \in RxType, RxTurns, rx.own[rx.dma],
         rx' = [rx EXCEPT !.own[rx.dma] = FALSE, !.dma = NextRx(@)]
  PROVE  rx' \in RxType /\ RxTurns'
  <1>1. PICK f \in 0..RxCount : \E c \in 0..RxCount : RxRing(f, c)
    BY DEF RxTurns
  <1>2. PICK c \in 0..RxCount : RxRing(f, c)
    BY <1>1
  <1>3. /\ rx.idx \in RxSlot /\ rx.bidx \in RxSlot /\ rx.dma \in RxSlot
        /\ rx.bcnt \in 0..RxCount /\ rx.bcnt + f + c = RxCount
        /\ rx.dma = Around(rx.idx, f, RxCount) /\ rx.bidx = Around(rx.dma, c, RxCount)
        /\ rx.idx = Around(rx.bidx, rx.bcnt, RxCount)
    BY <1>2 DEF RxType, RxRing
  <1>4. c > 0
    <2>1. InWindow(rx.dma, rx.dma, c, RxCount)
      BY <1>2, <1>3 DEF RxRing
    <2> QED
      BY <1>3, <2>1, RxSlots, WindowFull
  <1>5. /\ c - 1 \in 0..RxCount /\ c \in 1..RxCount /\ f + 1 \in 0..RxCount
        /\ f \in 0..(RxCount - 1) /\ rx.bcnt + (f + 1) + (c - 1) = RxCount
        /\ 1 \in 0..RxCount /\ f + 1 <= RxCount /\ 1 + (c - 1) = c /\ 1 + (c - 1) <= RxCount
    BY <1>3, <1>4, EthAssumption
  <1>6. /\ rx'.idx = rx.idx /\ rx'.bidx = rx.bidx /\ rx'.bcnt = rx.bcnt /\ rx'.buf = rx.buf
        /\ rx'.own = [rx.own EXCEPT ![rx.dma] = FALSE]
        /\ rx'.dma = Around(rx.dma, 1, RxCount)
    BY <1>3, RxSlots DEF RxType
  <1>7. rx' \in RxType
    BY <1>3, RxSlots DEF RxType
  <1>8. /\ rx'.dma = Around(rx'.idx, f + 1, RxCount)
        /\ rx'.bidx = Around(rx'.dma, c - 1, RxCount)
    <2> DEFINE j == Around(rx.dma, 1, RxCount)
    <2>1. j \in RxSlot
      BY <1>3, <1>5, RxAround
    <2> HIDE DEF j
    <2>2. /\ rx.idx \in RxSlot /\ rx.dma \in RxSlot /\ rx.dma = Around(rx.idx, f, RxCount)
          /\ j = Around(rx.dma, 1, RxCount)
      BY <1>3 DEF j
    <2>3. 1 \in 0..RxCount /\ f + 1 \in 0..RxCount /\ c - 1 \in 0..RxCount /\ c = 1 + (c - 1)
      BY <1>5
    <2>4. j = Around(rx.idx, f + 1, RxCount)
      BY <2>2, <2>3, RxTurning
    <2>5. Around(j, c - 1, RxCount) = Around(rx.dma, c, RxCount)
      BY <2>1, <2>2, <2>3, RxTurning
    <2> QED
      BY <1>3, <1>6, <2>2, <2>4, <2>5
  <1>9. \A i \in RxSlot : rx'.own[i] <=> InWindow(i, rx'.dma, c - 1, RxCount)
    <2> SUFFICES ASSUME NEW i \in RxSlot
                 PROVE  rx'.own[i] <=> InWindow(i, rx'.dma, c - 1, RxCount)
      OBVIOUS
    <2>1. InWindow(i, Around(rx.dma, 1, RxCount), c - 1, RxCount) <=>
            InWindow(i, rx.dma, c, RxCount) /\ i # rx.dma
      BY <1>3, <1>5, RxSlots, WindowShrinks
    <2>2. rx'.own[i] = IF i = rx.dma THEN FALSE ELSE rx.own[i]
      BY <1>6 DEF RxType
    <2>3. rx.own[i] <=> InWindow(i, rx.dma, c, RxCount)
      BY <1>2 DEF RxRing
    <2> QED
      BY <1>6, <2>1, <2>2, <2>3
  <1>10. RxRing(f + 1, c - 1)'
    BY <1>2, <1>3, <1>5, <1>6, <1>8, <1>9 DEF RxRing
  <1> QED
    BY <1>5, <1>7, <1>10 DEF RxTurns

(* A filled descriptor is read: if the one at the read index is not the    *)
(* DMA's and some descriptor has a buffer, that one has.                   *)
LEMMA RxTaken ==
  ASSUME rx \in RxType, RxTurns, Filled,
         rx' = [rx EXCEPT !.buf[rx.idx] = NoPacket, !.idx = NextRx(@), !.bcnt = @ + 1]
  PROVE  rx' \in RxType /\ RxTurns'
  <1>1. PICK f \in 0..RxCount : \E c \in 0..RxCount : RxRing(f, c)
    BY DEF RxTurns
  <1>2. PICK c \in 0..RxCount : RxRing(f, c)
    BY <1>1
  <1>3. /\ rx.idx \in RxSlot /\ rx.bidx \in RxSlot /\ rx.dma \in RxSlot
        /\ rx.bcnt \in 0..RxCount /\ rx.bcnt + f + c = RxCount /\ rx.bcnt < RxCount
        /\ rx.dma = Around(rx.idx, f, RxCount) /\ rx.bidx = Around(rx.dma, c, RxCount)
        /\ rx.idx = Around(rx.bidx, rx.bcnt, RxCount)
    BY <1>2 DEF RxType, RxRing, Filled
  <1>4. f > 0
    <2>1. CASE f = 0
      <3>1. c \in 1..RxCount
        BY <1>3, <2>1, EthAssumption
      <3>2. rx.dma = rx.idx
        BY <1>3, <2>1, RxAround
      <3>3. InWindow(rx.idx, rx.dma, c, RxCount)
        BY <1>3, <3>1, <3>2, RxWindow
      <3> QED
        BY <1>2, <1>3, <3>3 DEF RxRing, Filled
    <2> QED
      BY <2>1
  <1>5. /\ f - 1 \in 0..RxCount /\ rx.bcnt + 1 \in 0..RxCount /\ rx.bcnt \in 0..(RxCount - 1)
        /\ (rx.bcnt + 1) + (f - 1) + c = RxCount
        /\ 1 \in 0..RxCount /\ rx.bcnt + 1 <= RxCount /\ 1 + (f - 1) = f
        /\ 1 + (f - 1) <= RxCount
    BY <1>3, <1>4, EthAssumption
  <1>6. /\ rx'.dma = rx.dma /\ rx'.bidx = rx.bidx /\ rx'.own = rx.own
        /\ rx'.buf = [rx.buf EXCEPT ![rx.idx] = NoPacket]
        /\ rx'.bcnt = rx.bcnt + 1 /\ rx'.idx = Around(rx.idx, 1, RxCount)
    BY <1>3, RxSlots DEF RxType
  <1>7. rx' \in RxType
    BY <1>3, <1>5, RxSlots DEF RxType, PacketOrNull
  <1>8. /\ rx'.idx = Around(rx'.bidx, rx'.bcnt, RxCount)
        /\ rx'.dma = Around(rx'.idx, f - 1, RxCount)
    <2> DEFINE j == Around(rx.idx, 1, RxCount)
    <2>1. j \in RxSlot
      BY <1>3, <1>5, RxAround
    <2> HIDE DEF j
    <2>2. /\ rx.idx \in RxSlot /\ rx.bidx \in RxSlot /\ j = Around(rx.idx, 1, RxCount)
          /\ rx.idx = Around(rx.bidx, rx.bcnt, RxCount) /\ rx.bcnt \in 0..RxCount
      BY <1>3 DEF j
    <2>3. 1 \in 0..RxCount /\ rx.bcnt + 1 \in 0..RxCount /\ f - 1 \in 0..RxCount
          /\ f = 1 + (f - 1)
      BY <1>5
    <2>4. j = Around(rx.bidx, rx.bcnt + 1, RxCount)
      BY <2>2, <2>3, RxTurning
    <2>5. Around(j, f - 1, RxCount) = Around(rx.idx, f, RxCount)
      BY <2>1, <2>2, <2>3, RxTurning
    <2> QED
      BY <1>3, <1>6, <2>2, <2>4, <2>5
  <1>9. \A i \in RxSlot : rx'.buf[i] = NoPacket <=> InWindow(i, rx'.bidx, rx'.bcnt, RxCount)
    <2> SUFFICES ASSUME NEW i \in RxSlot
                 PROVE  rx'.buf[i] = NoPacket <=> InWindow(i, rx'.bidx, rx'.bcnt, RxCount)
      OBVIOUS
    <2>1. InWindow(i, rx.bidx, rx.bcnt + 1, RxCount) <=>
            InWindow(i, rx.bidx, rx.bcnt, RxCount) \/ i = rx.idx
      BY <1>3, <1>5, RxSlots, WindowGrows
    <2>2. rx'.buf[i] = IF i = rx.idx THEN NoPacket ELSE rx.buf[i]
      BY <1>6 DEF RxType
    <2>3. rx.buf[i] = NoPacket <=> InWindow(i, rx.bidx, rx.bcnt, RxCount)
      BY <1>2 DEF RxRing
    <2> QED
      BY <1>6, <2>1, <2>2, <2>3
  <1>10. RxRing(f - 1, c)'
    BY <1>2, <1>3, <1>5, <1>6, <1>8, <1>9 DEF RxRing
  <1> QED
    BY <1>5, <1>7, <1>10 DEF RxTurns

(* A descriptor is built: the DMA owns one more, after its last. *)
LEMMA RxBuilds ==
  ASSUME rx \in RxType, RxTurns, rx.bcnt > 0, NEW p \in Packet,
         rx' = [rx EXCEPT !.buf[rx.bidx] = p, !.own[rx.bidx] = TRUE,
                          !.bidx = NextRx(@), !.bcnt = @ - 1]
  PROVE  rx' \in RxType /\ RxTurns'
  <1>1. PICK f \in 0..RxCount : \E c \in 0..RxCount : RxRing(f, c)
    BY DEF RxTurns
  <1>2. PICK c \in 0..RxCount : RxRing(f, c)
    BY <1>1
  <1>3. /\ rx.idx \in RxSlot /\ rx.bidx \in RxSlot /\ rx.dma \in RxSlot
        /\ rx.bcnt \in 1..RxCount /\ rx.bcnt + f + c = RxCount /\ p # NoPacket
        /\ rx.dma = Around(rx.idx, f, RxCount) /\ rx.bidx = Around(rx.dma, c, RxCount)
        /\ rx.idx = Around(rx.bidx, rx.bcnt, RxCount)
    <2>1. rx.bcnt \in 0..RxCount
      BY DEF RxType
    <2>2. rx.bcnt \in 1..RxCount
      BY <2>1, EthAssumption
    <2> QED
      BY <1>2, <2>2, EthAssumption DEF RxType, RxRing
  <1>4. /\ c + 1 \in 0..RxCount /\ c \in 0..(RxCount - 1) /\ rx.bcnt - 1 \in 0..RxCount
        /\ (rx.bcnt - 1) + f + (c + 1) = RxCount
        /\ 1 \in 0..RxCount /\ 1 + (rx.bcnt - 1) = rx.bcnt /\ 1 + (rx.bcnt - 1) <= RxCount
        /\ c + 1 <= RxCount
    BY <1>3, EthAssumption
  <1>5. /\ rx'.dma = rx.dma /\ rx'.idx = rx.idx
        /\ rx'.own = [rx.own EXCEPT ![rx.bidx] = TRUE]
        /\ rx'.buf = [rx.buf EXCEPT ![rx.bidx] = p]
        /\ rx'.bcnt = rx.bcnt - 1 /\ rx'.bidx = Around(rx.bidx, 1, RxCount)
    BY <1>3, RxSlots DEF RxType
  <1>6. rx' \in RxType
    BY <1>3, <1>4, RxSlots DEF RxType, PacketOrNull
  <1>7. /\ rx'.idx = Around(rx'.bidx, rx'.bcnt, RxCount)
        /\ rx'.bidx = Around(rx'.dma, c + 1, RxCount)
    <2> DEFINE j == Around(rx.bidx, 1, RxCount)
    <2>1. j \in RxSlot
      BY <1>3, <1>4, RxAround
    <2> HIDE DEF j
    <2>2. /\ rx.bidx \in RxSlot /\ rx.dma \in RxSlot /\ j = Around(rx.bidx, 1, RxCount)
          /\ rx.bidx = Around(rx.dma, c, RxCount)
      BY <1>3 DEF j
    <2>3. 1 \in 0..RxCount /\ c + 1 \in 0..RxCount /\ rx.bcnt - 1 \in 0..RxCount
          /\ rx.bcnt = 1 + (rx.bcnt - 1) /\ rx.bcnt \in 0..RxCount
      BY <1>3, <1>4, EthAssumption
    <2>4. j = Around(rx.dma, c + 1, RxCount)
      BY <2>2, <2>3, RxTurning
    <2>5. Around(j, rx.bcnt - 1, RxCount) = Around(rx.bidx, rx.bcnt, RxCount)
      BY <2>1, <2>2, <2>3, RxTurning
    <2> QED
      BY <1>3, <1>5, <2>2, <2>4, <2>5
  <1>8. \A i \in RxSlot :
          /\ rx'.buf[i] = NoPacket <=> InWindow(i, rx'.bidx, rx'.bcnt, RxCount)
          /\ rx'.own[i] <=> InWindow(i, rx'.dma, c + 1, RxCount)
    <2> SUFFICES ASSUME NEW i \in RxSlot
                 PROVE  /\ rx'.buf[i] = NoPacket <=> InWindow(i, rx'.bidx, rx'.bcnt, RxCount)
                        /\ rx'.own[i] <=> InWindow(i, rx'.dma, c + 1, RxCount)
      OBVIOUS
    <2>1. InWindow(i, Around(rx.bidx, 1, RxCount), rx.bcnt - 1, RxCount) <=>
            InWindow(i, rx.bidx, rx.bcnt, RxCount) /\ i # rx.bidx
      BY <1>3, RxSlots, WindowShrinks
    <2>2. InWindow(i, rx.dma, c + 1, RxCount) <=>
            InWindow(i, rx.dma, c, RxCount) \/ i = rx.bidx
      BY <1>3, <1>4, RxSlots, WindowGrows
    <2>3. /\ rx'.buf[i] = IF i = rx.bidx THEN p ELSE rx.buf[i]
          /\ rx'.own[i] = IF i = rx.bidx THEN TRUE ELSE rx.own[i]
      BY <1>5 DEF RxType
    <2>4. /\ rx.buf[i] = NoPacket <=> InWindow(i, rx.bidx, rx.bcnt, RxCount)
          /\ rx.own[i] <=> InWindow(i, rx.dma, c, RxCount)
      BY <1>2 DEF RxRing
    <2>5. rx'.dma = rx.dma /\ rx'.bcnt = rx.bcnt - 1 /\ rx'.bidx = Around(rx.bidx, 1, RxCount)
      BY <1>5
    <2>6. p # NoPacket
      BY <1>3
    <2>7. rx'.buf[i] = NoPacket <=> InWindow(i, rx'.bidx, rx'.bcnt, RxCount)
      BY <2>1, <2>3, <2>4, <2>5, <2>6
    <2>8. rx'.own[i] <=> InWindow(i, rx'.dma, c + 1, RxCount)
      BY <2>2, <2>3, <2>4, <2>5
    <2> QED
      BY <2>7, <2>8
  <1>9. RxRing(f, c + 1)'
    BY <1>4, <1>5, <1>7, <1>8, <1>2 DEF RxRing
  <1> QED
    BY <1>4, <1>6, <1>9 DEF RxTurns

LEMMA RxStays ==
  ASSUME UNCHANGED rx
  PROVE  (RxTurns => RxTurns') /\ (RxEmpty => RxEmpty')
  BY DEF RxTurns, RxRing, RxEmpty

-----------------------------------------------------------------------------
(* Every step keeps the rings.                                             *)
IpType ==
  [pc : IpPC, got : SUBSET {"receive", "timer", "driver"},
   work : SUBSET {"rx", "tx"}, frame : PacketOrNull, pos : 1..(QueueMax + 1)]

WebType == [pc : WebPC, hand : PacketOrNull, seg : PacketOrNull]

SndType ==
  [open : BOOLEAN, says : BOOLEAN, probe : BOOLEAN,
   failures : 0..MaxRetries, armed : BOOLEAN, retries : 0..MaxRetries]

QueuesType ==
  /\ rxq \in Seq(Packet) /\ sentq \in Seq(Packet) /\ Len(sentq) <= QueueMax
  /\ wire \subseteq Packet /\ sock \subseteq Packet
  /\ conn \in BOOLEAN

FlagsType ==
  /\ eth \in {"down", "up", "error"}
  /\ irq \subseteq Flag /\ deferred \subseteq {"rx", "tx"}
  /\ events \subseteq {"receive", "driver"}

LEMMA Types ==
  TypeOK <=> /\ pool \in PoolType /\ rx \in RxType /\ tx \in TxType
             /\ ip \in IpType /\ web \in WebType /\ snd \in SndType
             /\ QueuesType /\ FlagsType
  BY DEF TypeOK, PoolType, RxType, TxType, IpType, WebType, SndType, QueuesType,
         FlagsType

(* Where the retransmission and the timer leave the IP thread.             *)
LEMMA AfterTimer ==
  ASSUME ip \in IpType, Timer
  PROVE  ip'.pc \in {"loop", "reply", "reset", "resend"} /\ ip'.got = ip.got \ {"timer"}
  <1>1. \/ ip' = [ip EXCEPT !.pc = "loop", !.got = ip.got \ {"timer"}]
        \/ ip' = [ip EXCEPT !.pc = "reset", !.got = ip.got \ {"timer"}]
        \/ ip' = [ip EXCEPT !.pc = "reply", !.got = ip.got \ {"timer"}]
        \/ ip' = [ip EXCEPT !.pc = "resend", !.got = ip.got \ {"timer"}, !.pos = 1]
    BY DEF Timer, Retransmit
  <1> QED
    BY <1>1 DEF IpType

LEMMA AfterFast ==
  ASSUME ip \in IpType, FastRetransmit
  PROVE  ip'.pc = "resend" /\ ip'.got = ip.got
  <1>1. ip' = [ip EXCEPT !.pc = "resend", !.got = ip.got, !.pos = 1]
    BY DEF FastRetransmit, Retransmit
  <1> QED
    BY <1>1 DEF IpType

LEMMA TxNext ==
  ASSUME Sound, Next \/ UNCHANGED vars
  PROVE  tx' \in TxType /\ TxSound'
  <1>0. tx \in TxType /\ TxSound /\ pool \in PoolType /\ Members /\ Hands
    BY Types, MembersHold DEF Sound
  <1> DEFINE Kept == UNCHANGED tx
             Sends == \E q \in PoolType, p \in Packet : PacketSend(q, p)
  <1>1. ASSUME Sends PROVE tx' \in TxType /\ TxSound'
    BY <1>0, <1>1, TxSends
  <1>2. ASSUME Kept PROVE tx' \in TxType /\ TxSound'
    BY <1>0, <1>2, TxStays
  <1>3. \A p \in pool.free : p \in Packet /\ Allocated(pool, p) \in PoolType
    <2>1. \A p \in pool.free : p \in Packet
      BY <1>0 DEF PoolType
    <2> QED
      BY <1>0, <2>1, PoolOperations
  <1>4. CASE Dma
    BY <1>0, <1>2, <1>4, TxSent DEF Dma, DmaReceive, DmaSend, DmaFatal
  <1>5. CASE EthIrq \/ UNCHANGED vars
    BY <1>2, <1>5 DEF EthIrq, Interrupt, vars
  <1>6. CASE Reply \/ Probe
    BY <1>1, <1>2, <1>3, <1>6 DEF Reply, Probe
  <1>7. CASE Resend
    <2>1. sentq[ip.pos] \in Packet
      BY <1>0, <1>7, Types DEF Resend, Sound, QueuesType, IpType
    <2>2. [pool EXCEPT !.done[sentq[ip.pos]] = FALSE] \in PoolType
      BY <1>0, <2>1, PoolOperations
    <2> QED
      BY <1>1, <1>7, <2>1, <2>2 DEF Resend
  <1>8. CASE TxFree
    BY <1>0, <1>8, TxReleased DEF TxFree, Transmitted
  <1>9. CASE WebClose
    BY <1>1, <1>2, <1>3, <1>9 DEF WebClose
  <1>10. CASE WebSend
    <2>1. web.hand \in Packet
      BY <1>0, <1>10 DEF WebSend, Hands, Members
    <2> QED
      BY <1>0, <1>1, <1>10, <2>1, PoolOperations DEF WebSend, Enqueue
  <1>11. CASE WebSendSeg
    <2>1. web.seg \in Packet
      BY <1>0, <1>11 DEF WebSendSeg, Hands, Members
    <2> QED
      BY <1>0, <1>1, <1>11, <2>1, PoolOperations DEF WebSendSeg, Enqueue
  <1>12. CASE \/ Enable \/ Wake \/ TakeFrame \/ Acked \/ Deliver \/ Discard \/ ResetByPeer
              \/ Timer \/ FastRetransmit \/ ResendEnd \/ ResetFlush
              \/ ResetEnd \/ PickUp \/ Deferred \/ Read \/ Build \/ Queue \/ BuildEnd
    BY <1>2, <1>12 DEF Enable, Wake, TakeFrame, Acked, Deliver, Discard, ResetByPeer, Timer,
       FastRetransmit, ResendEnd, ResetFlush, ResetEnd, PickUp, Deferred, Read, Build, Queue,
       BuildEnd
  <1>13. CASE \/ WebRead \/ WebChunk \/ WebGiven \/ WebSendFails \/ WebSuspend \/ WebSplit
              \/ WebTrim \/ WebClosed \/ WebFlush
    BY <1>2, <1>13 DEF WebRead, WebChunk, WebGiven, WebSendFails, WebSuspend, WebSplit,
       WebTrim, WebClosed, WebFlush
  <1> HIDE DEF Kept, Sends
  <1> QED
    BY <1>4, <1>5, <1>6, <1>7, <1>8, <1>9, <1>10, <1>11, <1>12, <1>13
       DEF Next, IpThread, WebThread

LEMMA RxNext ==
  ASSUME Sound, Next \/ UNCHANGED vars
  PROVE  rx' \in RxType /\ RxSound'
  <1>0. /\ rx \in RxType /\ ip \in IpType /\ pool \in PoolType /\ Idle
        /\ RxSound <=> IF eth = "down" /\ ip.pc # "build" THEN RxEmpty ELSE RxTurns
        /\ (eth' = "down" /\ ip'.pc # "build") => (RxEmpty' => RxSound')
        /\ ~(eth' = "down" /\ ip'.pc # "build") => (RxTurns' => RxSound')
        /\ eth \in {"down", "up", "error"} /\ RxSound
    BY Types DEF Sound, RxSound, RxTurns, FlagsType
  <1>1. CASE DmaReceive
    BY <1>0, <1>1, RxFilled DEF DmaReceive
  <1>2. CASE Enable
    <2>1. RxEmpty /\ eth = "down" /\ eth' = "down"
      BY <1>0, <1>2 DEF Enable, Idle, hw
    <2>2. CASE Go("loop") /\ UNCHANGED rx
      BY <1>0, <2>1, <2>2, RxStays DEF Go, IpType
    <2>3. CASE Go("build") /\ rx' = [rx EXCEPT !.bcnt = RxCount]
      BY <1>0, <2>1, <2>3, RxEnabled DEF Go, IpType
    <2> QED
      BY <1>2, <2>2, <2>3 DEF Enable
  <1>3. CASE Read
    <2>1. eth # "down" /\ eth' = eth
      BY <1>0, <1>3 DEF Read, Idle, hw
    <2> QED
      BY <1>0, <1>3, <2>1, RxTaken, RxStays DEF Read
  <1>4. CASE Build
    <2>1. eth' = eth /\ ip' = ip /\ ip.pc = "build"
      BY <1>4 DEF Build, hw
    <2>2. PICK p \in pool.free :
            rx' = [rx EXCEPT !.buf[rx.bidx] = p, !.own[rx.bidx] = TRUE,
                             !.bidx = NextRx(@), !.bcnt = @ - 1]
      BY <1>4 DEF Build
    <2>3. p \in Packet /\ rx.bcnt > 0
      BY <1>0, <1>4 DEF PoolType, Build
    <2> QED
      BY <1>0, <2>1, <2>2, <2>3, RxBuilds
  <1>5. ASSUME UNCHANGED rx,
               (eth' = "down" /\ ip'.pc # "build") <=> (eth = "down" /\ ip.pc # "build")
        PROVE  rx' \in RxType /\ RxSound'
    BY <1>0, <1>5, RxStays
  <1>6. CASE DmaSend \/ DmaFatal \/ EthIrq \/ UNCHANGED vars
    <2>1. UNCHANGED <<rx, ip>>
      BY <1>6 DEF DmaSend, DmaFatal, EthIrq, Interrupt, vars
    <2>2. eth' = eth \/ (eth = "up" /\ eth' = "error")
      BY <1>6 DEF DmaSend, DmaFatal, EthIrq, Interrupt, vars, hw
    <2> QED
      BY <1>5, <2>1, <2>2
  <1>7. CASE BuildEnd
    <2>1. UNCHANGED rx /\ eth' # "down" /\ ip.pc = "build"
      BY <1>0, <1>7 DEF BuildEnd
    <2> QED
      BY <1>0, <2>1, RxStays
  <1>8. CASE \/ Wake \/ TakeFrame \/ Acked \/ Deliver \/ Discard \/ ResetByPeer \/ Reply
             \/ Timer \/ FastRetransmit \/ Resend \/ Probe \/ ResendEnd \/ ResetFlush
             \/ ResetEnd \/ PickUp \/ TxFree \/ Deferred \/ Queue
    <2>1. UNCHANGED <<rx, eth>>
      BY <1>8 DEF Wake, TakeFrame, Acked, Deliver, Discard, ResetByPeer, Reply, Timer,
         FastRetransmit, Resend, Probe, ResendEnd, ResetFlush, ResetEnd, PickUp, TxFree, Deferred,
         Queue, hw
    <2>2. eth = "down" => (ip'.pc # "build" <=> ip.pc # "build")
      BY <1>0, <1>8 DEF Idle, Wake, Waiting, Serving, Served, Go, IpType, TakeFrame, Acked,
         Deliver, Discard, ResetByPeer, Reply, Timer, FastRetransmit, Retransmit, Resend, Probe,
         ResendEnd, ResetFlush, ResetEnd, PickUp, TxFree, Deferred, Queue
    <2> QED
      BY <1>5, <2>1, <2>2
  <1>9. CASE WebThread
    <2>1. UNCHANGED <<rx, eth, ip>>
      BY <1>9 DEF WebThread, WebRead, WebChunk, WebGiven, WebSendFails, WebSuspend, WebSplit,
         WebSend, WebSendSeg, Enqueue, WebTrim, WebClose, WebClosed, WebFlush, hw
    <2> QED
      BY <1>5, <2>1
  <1> QED
    BY <1>1, <1>2, <1>3, <1>4, <1>6, <1>7, <1>8, <1>9 DEF Next, Dma, IpThread

-----------------------------------------------------------------------------
(* Every step keeps the types.                                             *)
LEMMA PoolNext ==
  ASSUME Sound, Next \/ UNCHANGED vars
  PROVE  pool' \in PoolType
  <1>0. /\ tx \in TxType /\ TxSound /\ pool \in PoolType /\ Members /\ Hands
        /\ ip \in IpType /\ QueuesType
    BY Types, MembersHold DEF Sound
  <1>1. \A q \in PoolType, p \in Packet : PacketSend(q, p) => pool' \in PoolType
    BY <1>0, TxSends
  <1>2. \A p \in pool.free : p \in Packet
    BY <1>0 DEF PoolType
  <1>3. sentq # <<>> => Head(sentq) \in Packet
    BY <1>0, HeadTailProperties DEF QueuesType
  <1>4. ip.frame \in PacketOrNull /\ web.hand \in PacketOrNull /\ web.seg \in PacketOrNull
    BY Types DEF Sound, IpType, WebType
  <1>5. CASE Reply \/ Probe \/ WebClose
    BY <1>0, <1>1, <1>2, <1>5, PoolOperations DEF Reply, Probe, WebClose
  <1>6. CASE Acked \/ ResetFlush
    BY <1>0, <1>3, <1>6, PoolOperations DEF Acked, ResetFlush
  <1>7. CASE Discard \/ ResendEnd \/ ResetEnd \/ Queue
    <2>1. ip.frame # NoPacket => Released(pool, ip.frame) \in PoolType
      BY <1>0, <1>4, PoolOperations DEF PacketOrNull
    <2> QED
      BY <1>0, <1>7, <2>1 DEF Discard, ResendEnd, ResetEnd, ReleasedFrame, Queue, Hands
  <1>8. CASE Resend
    <2>1. sentq[ip.pos] \in Packet
      BY <1>0, <1>8 DEF Resend, QueuesType, IpType
    <2> QED
      BY <1>0, <1>1, <1>8, <2>1, PoolOperations DEF Resend
  <1>9. CASE TxFree
    <2>1. tx.pkt[tx.rel] \in Packet
      BY <1>0, <1>9 DEF TxFree, Transmitted, TxType, PacketOrNull
    <2> QED
      BY <1>0, <1>9, <2>1, PoolOperations DEF TxFree
  <1>10. CASE Build
    <2>1. PICK p \in pool.free : pool' = Allocated(pool, p)
      BY <1>10 DEF Build
    <2> QED
      BY <1>0, <1>2, <2>1, PoolOperations
  <1>11. CASE WebRead
    BY <1>0, <1>11, PoolOperations DEF WebRead, Members
  <1>12. CASE WebChunk \/ WebSplit
    <2>1. pool.free # {} => \A p \in pool.free : Allocated(pool, p) \in PoolType
      BY <1>0, <1>2, PoolOperations
    <2>2. [pool EXCEPT !.waits = TRUE] \in PoolType
      BY <1>0 DEF PoolType
    <2> QED
      BY <1>12, <2>1, <2>2 DEF WebChunk, WebSplit, AllocateWaiting
  <1>13. CASE WebGiven
    BY <1>0, <1>13 DEF WebGiven, PoolType, PacketOrNull
  <1>14. CASE WebSendFails \/ WebTrim
    <2>1. web.hand # NoPacket => Released(pool, web.hand) \in PoolType
      BY <1>0, <1>4, PoolOperations DEF PacketOrNull
    <2>2. web.seg # NoPacket => Released(pool, web.seg) \in PoolType
      BY <1>0, <1>4, PoolOperations DEF PacketOrNull
    <2> QED
      BY <1>0, <1>14, <2>1, <2>2 DEF WebSendFails, WebTrim, Hands
  <1>15. CASE WebSend
    <2>1. web.hand \in Packet
      BY <1>0, <1>15 DEF WebSend, Hands, Members
    <2> QED
      BY <1>0, <1>1, <1>15, <2>1, PoolOperations DEF WebSend, Enqueue
  <1>16. CASE WebSendSeg
    <2>1. web.seg \in Packet
      BY <1>0, <1>16 DEF WebSendSeg, Hands, Members
    <2> QED
      BY <1>0, <1>1, <1>16, <2>1, PoolOperations DEF WebSendSeg, Enqueue
  <1>17. CASE WebFlush
    <2>1. \A p \in sock : Released(pool, p) \in PoolType
      BY <1>0, PoolOperations DEF Members
    <2>2. sentq # <<>> => Dequeued(pool, Head(sentq)) \in PoolType
      BY <1>0, <1>3, PoolOperations
    <2> QED
      BY <1>0, <1>17, <2>1, <2>2 DEF WebFlush
  <1>18. CASE \/ Dma \/ EthIrq \/ Enable \/ Wake \/ TakeFrame \/ Deliver \/ ResetByPeer
              \/ Timer \/ FastRetransmit \/ PickUp \/ Deferred \/ Read \/ BuildEnd
              \/ WebSuspend \/ WebClosed \/ UNCHANGED vars
    BY <1>0, <1>18 DEF Dma, DmaReceive, DmaSend, DmaFatal, EthIrq, Interrupt, Enable, Wake,
       TakeFrame, Deliver, ResetByPeer, Timer, FastRetransmit, PickUp, Deferred, Read,
       BuildEnd, WebSuspend, WebClosed, vars
  <1> QED
    BY <1>5, <1>6, <1>7, <1>8, <1>9, <1>10, <1>11, <1>12, <1>13, <1>14, <1>15, <1>16, <1>17,
       <1>18 DEF Next, IpThread, WebThread

LEMMA IpNext ==
  ASSUME Sound, Next \/ UNCHANGED vars
  PROVE  ip' \in IpType
  <1>0. /\ ip \in IpType /\ rx \in RxType /\ QueuesType /\ FlagsType
        /\ 1 \in 1..(QueueMax + 1) /\ NoPacket \in PacketOrNull
    BY Types, EthAssumption DEF Sound, PacketOrNull
  <1> DEFINE IsPC(pc) == pc \in IpPC
  <1>a. /\ IsPC("loop") /\ IsPC("frame") /\ IsPC("reply") /\ IsPC("reset")
        /\ IsPC("resend") /\ IsPC("deferred") /\ IsPC("read") /\ IsPC("build")
    BY DEF IpPC
  <1>b. \A e : Served(e) => ip' \in IpType
    <2> SUFFICES ASSUME NEW e, Served(e) PROVE ip' \in IpType
      OBVIOUS
    <2>1. ip.got \ {e} \in SUBSET {"receive", "timer", "driver"}
      BY <1>0 DEF IpType
    <2> QED
      BY <1>0, <1>a, <2>1 DEF Served, IpType
  <1>c. \A pc : IsPC(pc) /\ Go(pc) => ip' \in IpType
    BY <1>0 DEF Go, IpType
  <1>1. CASE TakeFrame
    <2>1. rxq # <<>> => Head(rxq) \in PacketOrNull
      BY <1>0, HeadTailProperties DEF QueuesType, PacketOrNull
    <2>2. CASE rxq # <<>>
      <3>1. ip' = [ip EXCEPT !.pc = "frame", !.frame = Head(rxq)]
        BY <1>1, <2>2 DEF TakeFrame
      <3> QED
        BY <1>0, <1>a, <2>1, <2>2, <3>1 DEF IpType
    <2> QED
      BY <1>1, <1>b, <2>2 DEF TakeFrame
  <1>2. CASE Read
    <2>1. rx.buf[rx.idx] \in PacketOrNull
      BY <1>0 DEF RxType
    <2>2. [ip EXCEPT !.pc = "build", !.frame = rx.buf[rx.idx]] \in IpType
      BY <1>0, <1>a, <2>1 DEF IpType
    <2> QED
      BY <1>2, <1>a, <1>b, <1>c, <2>2 DEF Read
  <1>3. CASE Resend
    <2>1. ip.pos + 1 \in 1..(QueueMax + 1)
      BY <1>0, <1>3, EthAssumption DEF Resend, QueuesType, IpType
    <2> QED
      BY <1>0, <1>3, <2>1 DEF Resend, IpType
  <1>10. CASE Probe
    <2>1. 2 \in 1..(QueueMax + 1)
      BY EthAssumption
    <2> QED
      BY <1>0, <1>10, <2>1 DEF Probe, IpType
  <1>4. CASE Wake \/ PickUp
    <2>1. /\ [ip EXCEPT !.pc = "deferred", !.work = deferred] \in IpType
          /\ \A tick \in Ticks : [ip EXCEPT !.got = events \cup tick] \in IpType
      BY <1>0, <1>a DEF IpType, FlagsType, Ticks
    <2> QED
      BY <1>4, <2>1 DEF Wake, PickUp
  <1>5. CASE Timer \/ FastRetransmit
    <2>1. /\ [ip EXCEPT !.pc = "reset", !.got = @ \ {"timer"}] \in IpType
          /\ [ip EXCEPT !.pc = "resend", !.got = ip.got \ {"timer"}, !.pos = 1] \in IpType
          /\ [ip EXCEPT !.pc = "resend", !.got = ip.got, !.pos = 1] \in IpType
          /\ [ip EXCEPT !.pc = "reply", !.got = @ \ {"timer"}] \in IpType
          /\ [ip EXCEPT !.pc = "loop", !.got = @ \ {"timer"}] \in IpType
      BY <1>0, <1>a DEF IpType
    <2> QED
      BY <1>5, <2>1 DEF Timer, FastRetransmit, Retransmit
  <1>6. CASE ResendEnd \/ ResetEnd \/ Deliver \/ Discard \/ Queue
    <2>1. /\ [ip EXCEPT !.pc = "loop", !.frame = NoPacket, !.pos = 1] \in IpType
          /\ [ip EXCEPT !.pc = "loop", !.frame = NoPacket] \in IpType
          /\ [ip EXCEPT !.pc = "reply", !.frame = NoPacket] \in IpType
          /\ [ip EXCEPT !.pc = "read", !.frame = NoPacket] \in IpType
      BY <1>0, <1>a DEF IpType
    <2> QED
      BY <1>6, <2>1 DEF ResendEnd, ResetEnd, Deliver, Discard, Queue
  <1>8. CASE Enable \/ ResetByPeer \/ Reply \/ BuildEnd
    BY <1>8, <1>a, <1>b, <1>c DEF Enable, ResetByPeer, Reply, BuildEnd
  <1>9. CASE Deferred
    <2>1. /\ [ip EXCEPT !.work = {}, !.pc = "read", !.got = @] \in IpType
          /\ [ip EXCEPT !.work = {}, !.pc = "loop", !.got = @ \ {"driver"}] \in IpType
      BY <1>0, <1>a DEF IpType
    <2> QED
      BY <1>9, <2>1 DEF Deferred
  <1>7. CASE \/ Dma \/ EthIrq \/ Acked \/ ResetFlush \/ TxFree \/ Build
             \/ WebThread \/ UNCHANGED vars
    BY <1>0, <1>7 DEF Dma, DmaReceive, DmaSend, DmaFatal, EthIrq, Interrupt, Acked,
       ResetFlush, TxFree, Build, WebThread, WebRead, WebChunk, WebGiven, WebSendFails,
       WebSuspend, WebSplit, WebSend, WebSendSeg, Enqueue, WebTrim, WebClose, WebClosed,
       WebFlush, vars
  <1> QED
    BY <1>1, <1>2, <1>3, <1>4, <1>5, <1>6, <1>7, <1>8, <1>9, <1>10 DEF Next, IpThread

LEMMA SndNext ==
  ASSUME Sound, Next \/ UNCHANGED vars
  PROVE  snd' \in SndType
  <1>0. snd \in SndType /\ MaxRetries \in Nat \ {0}
    BY Types, EthAssumption DEF Sound
  <1>c. snd.says \in BOOLEAN /\ snd.failures \in 0..MaxRetries /\ snd.retries \in 0..MaxRetries
    BY <1>0 DEF SndType
  <1>d. 0 \in 0..MaxRetries /\ 1 \in 0..MaxRetries
    BY <1>0
  <1>e. (~snd.says) \in BOOLEAN /\ (~snd.open) \in BOOLEAN
    OBVIOUS
  <1>a. /\ snd.says \in BOOLEAN /\ (~snd.says) \in BOOLEAN /\ (~snd.open) \in BOOLEAN
        /\ 0 \in 0..MaxRetries /\ 1 \in 0..MaxRetries
        /\ snd.failures \in 0..MaxRetries /\ snd.retries \in 0..MaxRetries
    BY <1>c, <1>d, <1>e
  <1>1. Cleaned \in SndType
    BY <1>0 DEF Cleaned, SndType
  <1>2. ASSUME Heard PROVE snd' \in SndType
    <2>1. PICK f \in {snd.failures, 0} : snd' = [snd EXCEPT !.open = snd.says, !.failures = f]
      BY <1>2 DEF Heard
    <2>2. f \in 0..MaxRetries
      BY <1>a
    <2> QED
      BY <1>0, <1>a, <2>1, <2>2 DEF SndType
  <1>3. Retried \in 0..MaxRetries
    BY <1>0 DEF Retried, SndType
  <1>b. ASSUME NEW got, Retransmit(got),
               ~snd.open /\ sentq = <<>> => snd.failures < MaxRetries
        PROVE  snd' \in SndType
    <2> DEFINE f == IF snd.open THEN 0 ELSE IF sentq # <<>> THEN 1 ELSE snd.failures + 1
    <2>1. f \in 0..MaxRetries
      BY <1>0, <1>a, <1>b
    <2>2. snd' = [snd EXCEPT !.armed = TRUE, !.retries = Retried, !.probe = ~snd.open,
                             !.failures = f]
      BY <1>b DEF Retransmit
    <2> HIDE DEF f
    <2> QED
      BY <1>0, <1>3, <1>a, <2>1, <2>2 DEF SndType
  <1>4. CASE Timer
    <2>1. Overdue => (~snd.open /\ sentq = <<>> => snd.failures < MaxRetries)
      BY <1>0, <1>a DEF Overdue, TimedOut
    <2>2. [snd EXCEPT !.retries = Retried] \in SndType
      BY <1>0, <1>3 DEF SndType
    <2> QED
      BY <1>0, <1>1, <1>b, <1>4, <2>1, <2>2 DEF Timer
  <1>5. CASE FastRetransmit
    BY <1>b, <1>5 DEF FastRetransmit
  <1>6. CASE ResetByPeer \/ WebClosed
    BY <1>1, <1>6 DEF ResetByPeer, WebClosed
  <1>7. CASE Deliver \/ Discard \/ ResendEnd
    BY <1>0, <1>1, <1>2, <1>7 DEF Deliver, Discard, ResendEnd
  <1>8. CASE TakeFrame
    <2>1. [snd EXCEPT !.says = ~snd.says] \in SndType
      BY <1>0, <1>a DEF SndType
    <2> QED
      BY <1>0, <1>8, <2>1 DEF TakeFrame
  <1>12. CASE Acked
    <2> DEFINE again == Len(sentq) > 1 \/ web.pc = "closing"
               a == again \/ (snd.armed /\ ~snd.says)
               n == IF again \/ snd.says THEN 0 ELSE snd.retries
    <2>1. a \in BOOLEAN /\ n \in 0..MaxRetries
      BY <1>a
    <2>2. snd' = [snd EXCEPT !.open = snd.says, !.armed = a, !.retries = n]
      BY <1>12 DEF Acked
    <2> HIDE DEF a, n
    <2> QED
      BY <1>0, <1>a, <2>1, <2>2 DEF SndType
  <1>13. CASE WebSuspend
    <2> DEFINE f == IF snd.probe THEN snd.failures ELSE 0
    <2>1. f \in 0..MaxRetries
      BY <1>a
    <2>2. snd' = [snd EXCEPT !.probe = TRUE, !.failures = f]
      BY <1>13 DEF WebSuspend
    <2> HIDE DEF f
    <2> QED
      BY <1>0, <2>1, <2>2 DEF SndType
  <1>14. CASE WebClose
    <2>1. [snd EXCEPT !.armed = TRUE, !.retries = 0] \in SndType
      BY <1>0, <1>a DEF SndType
    <2> QED
      BY <1>0, <1>14, <2>1 DEF WebClose
  <1>9. CASE WebSend \/ WebSendSeg
    <2> DEFINE a == snd.armed \/ sentq = <<>>
               n == IF sentq = <<>> THEN 0 ELSE snd.retries
    <2>1. a \in BOOLEAN /\ n \in 0..MaxRetries
      BY <1>a
    <2>2. snd' = [snd EXCEPT !.probe = FALSE, !.failures = 0, !.armed = a, !.retries = n]
      BY <1>9 DEF WebSend, WebSendSeg, Enqueue
    <2> HIDE DEF a, n
    <2> QED
      BY <1>0, <1>a, <2>1, <2>2 DEF SndType
  <1>10. CASE \/ Dma \/ EthIrq \/ Enable \/ Wake \/ Reply \/ Resend \/ Probe \/ ResetFlush
              \/ ResetEnd \/ PickUp \/ TxFree \/ Deferred \/ Read \/ Build \/ Queue
              \/ BuildEnd \/ UNCHANGED vars
    BY <1>0, <1>10 DEF Dma, DmaReceive, DmaSend, DmaFatal, EthIrq, Interrupt, Enable, Wake,
       Reply, Resend, Probe, ResetFlush, ResetEnd, PickUp, TxFree, Deferred, Read, Build,
       Queue, BuildEnd, vars, tcp
  <1>11. CASE \/ WebRead \/ WebChunk \/ WebGiven \/ WebSendFails \/ WebSplit \/ WebTrim
              \/ WebFlush
    BY <1>0, <1>11 DEF WebRead, WebChunk, WebGiven, WebSendFails, WebSplit, WebTrim, WebFlush,
       tcp
  <1> QED
    BY <1>4, <1>5, <1>6, <1>7, <1>8, <1>9, <1>10, <1>11, <1>12, <1>13, <1>14
       DEF Next, IpThread, WebThread

LEMMA QueuesNext ==
  ASSUME Sound, Next \/ UNCHANGED vars
  PROVE  QueuesType'
  <1>0. /\ QueuesType /\ tx \in TxType /\ ip \in IpType /\ Members /\ Hands
    BY Types, MembersHold DEF Sound
  <1>1. CASE DmaSend
    <2>1. wire' \subseteq Packet
      BY <1>0, <1>1 DEF DmaSend, Members, Queued, QueuesType
    <2> QED
      BY <1>0, <1>1, <2>1 DEF DmaSend, QueuesType
  <1>2. CASE TakeFrame
    <2>1. rxq # <<>> => Tail(rxq) \in Seq(Packet)
      BY <1>0, HeadTailProperties DEF QueuesType
    <2> QED
      BY <1>0, <1>2, <2>1 DEF TakeFrame, QueuesType, tcp
  <1>3. CASE Acked \/ ResetFlush \/ WebFlush
    <2>1. sentq # <<>> => Tail(sentq) \in Seq(Packet) /\ Len(Tail(sentq)) <= QueueMax
      BY <1>0, HeadTailProperties, EthAssumption DEF QueuesType
    <2>2. sentq' \in Seq(Packet) /\ Len(sentq') <= QueueMax
      BY <1>0, <1>3, <2>1 DEF Acked, ResetFlush, WebFlush, QueuesType
    <2>3. wire' \subseteq wire /\ sock' \subseteq sock /\ UNCHANGED <<rxq, conn>>
      BY <1>3 DEF Acked, ResetFlush, WebFlush
    <2> QED
      BY <1>0, <2>2, <2>3 DEF QueuesType
  <1>4. CASE Deliver
    <2>1. ip.frame \in Packet
      BY <1>0, <1>4 DEF Deliver, Hands, Members
    <2> QED
      BY <1>0, <1>4, <2>1 DEF Deliver, QueuesType
  <1>5. CASE Queue
    <2>1. Append(rxq, ip.frame) \in Seq(Packet)
      BY <1>0, <1>5, AppendProperties DEF Queue, Members, QueuesType
    <2> QED
      BY <1>0, <1>5, <2>1 DEF Queue, QueuesType, tcp
  <1>6. CASE WebSend
    <2>1. Append(sentq, web.hand) \in Seq(Packet) /\ Len(Append(sentq, web.hand)) = Len(sentq) + 1
      BY <1>0, <1>6, AppendProperties DEF WebSend, Hands, Members, QueuesType
    <2> QED
      BY <1>0, <1>6, <2>1, EthAssumption DEF WebSend, Enqueue, QueuesType
  <1>7. CASE WebSendSeg
    <2>1. Append(sentq, web.seg) \in Seq(Packet) /\ Len(Append(sentq, web.seg)) = Len(sentq) + 1
      BY <1>0, <1>7, AppendProperties DEF WebSendSeg, Hands, Members, QueuesType
    <2>2. Len(sentq) < QueueMax
      BY <1>0, <1>7 DEF WebSendSeg, Hands
    <2> QED
      BY <1>0, <1>7, <2>1, <2>2, EthAssumption DEF WebSendSeg, Enqueue, QueuesType
  <1>8. CASE Timer \/ FastRetransmit
    <2>1. UNCHANGED <<rxq, sentq, wire, sock>> /\ (conn' = conn \/ conn' = FALSE)
      BY <1>8 DEF Timer, FastRetransmit
    <2> QED
      BY <1>0, <2>1 DEF QueuesType
  <1>9. CASE WebRead \/ Discard \/ ResetByPeer \/ WebClosed
    BY <1>0, <1>9 DEF WebRead, Discard, ResetByPeer, WebClosed, QueuesType
  <1>10. CASE \/ DmaReceive \/ DmaFatal \/ EthIrq \/ Enable \/ Wake \/ Reply \/ Resend
              \/ Probe \/ ResendEnd \/ ResetEnd \/ PickUp \/ TxFree \/ Deferred \/ Read \/ Build
              \/ BuildEnd \/ UNCHANGED vars
    BY <1>0, <1>10 DEF DmaReceive, DmaFatal, EthIrq, Interrupt, Enable, Wake, Reply, Resend,
       Probe, ResendEnd, ResetEnd, PickUp, TxFree, Deferred, Read, Build, BuildEnd, vars, tcp,
       QueuesType
  <1>11. CASE \/ WebChunk \/ WebGiven \/ WebSendFails \/ WebSuspend \/ WebSplit \/ WebTrim
              \/ WebClose
    BY <1>0, <1>11 DEF WebChunk, WebGiven, WebSendFails, WebSuspend, WebSplit, WebTrim, WebClose,
       tcp, QueuesType
  <1> QED
    BY <1>1, <1>2, <1>3, <1>4, <1>5, <1>6, <1>7, <1>8, <1>9, <1>10, <1>11
       DEF Next, Dma, IpThread, WebThread

LEMMA FlagsNext ==
  ASSUME Sound, Next \/ UNCHANGED vars
  PROVE  FlagsType'
  <1>0. FlagsType
    BY Types DEF Sound
  <1>1. CASE Dma
    <2>1. irq \cup {"rx"} \subseteq Flag /\ irq \cup {"tx"} \subseteq Flag
          /\ irq \cup {"fatal"} \subseteq Flag
      BY <1>0 DEF FlagsType, Flag
    <2> QED
      BY <1>0, <1>1, <2>1 DEF Dma, DmaReceive, DmaSend, DmaFatal, FlagsType
  <1>5. CASE UNCHANGED vars
    BY <1>0, <1>5 DEF hw, vars, FlagsType
  <1>4. CASE EthIrq
    <2>1. irq \ {"fatal"} \subseteq {"rx", "tx"}
      BY <1>0 DEF FlagsType, Flag
    <2> QED
      BY <1>0, <1>4, <2>1 DEF EthIrq, Interrupt, FlagsType
  <1>2. CASE IpThread
    BY <1>0, <1>2 DEF IpThread, Enable, Wake, TakeFrame, Acked, Deliver, Discard, ResetByPeer,
       Reply, Timer, FastRetransmit, Resend, Probe, ResendEnd, ResetFlush, ResetEnd, PickUp, TxFree,
       Deferred, Read, Build, Queue, BuildEnd, hw, FlagsType
  <1>3. CASE WebThread
    BY <1>0, <1>3 DEF WebThread, WebRead, WebChunk, WebGiven, WebSendFails, WebSuspend, WebSplit,
       WebSend, WebSendSeg, Enqueue, WebTrim, WebClose, WebClosed, WebFlush, hw, FlagsType
  <1> QED
    BY <1>1, <1>2, <1>3, <1>4, <1>5 DEF Next

-----------------------------------------------------------------------------
(* What the threads hold.                                                  *)
Waits == {"pool", "pool_seg"}

HandsOf ==
  /\ web.hand # NoPacket <=> web.pc \in {"send", "pool_seg", "send_seg", "trim", "queue"}
  /\ web.seg # NoPacket <=> web.pc = "send_seg"
  /\ web.pc \in {"pool_seg", "send_seg"} => Len(sentq) < QueueMax

FrameOf ==
  /\ ip.frame # NoPacket => ip.pc \in {"frame", "reset", "resend", "build"}
  /\ ip.pc = "frame" => ip.frame # NoPacket

LEMMA HandsParts ==
  Hands <=> /\ HandsOf /\ FrameOf /\ (Asked(pool) <=> web.pc \in Waits)
            /\ ~(pool.waits /\ pool.given # NoPacket)
  BY DEF Hands, HandsOf, FrameOf, Waits

(* The steps of the web thread. *)
LEMMA WebSteps ==
  ASSUME Sound, WebThread
  PROVE  web' \in WebType /\ HandsOf' /\ (WebAsks \/ (web'.pc \in Waits <=> web.pc \in Waits))
  <1> USE DEF tcp
  <1>0. /\ web \in WebType /\ pool \in PoolType /\ HandsOf /\ (Asked(pool) <=> web.pc \in Waits)
        /\ Members /\ QueuesType /\ NoPacket \notin Packet /\ QueueMax \in Nat
    BY Types, HandsParts, MembersHold, EthAssumption DEF Sound
  <1>1. CASE WebChunk
    <2>1. web.hand = NoPacket /\ web.seg = NoPacket /\ UNCHANGED sentq
      BY <1>0, <1>1 DEF WebChunk, HandsOf
    <2>2. CASE pool.free # {}
      <3>1. PICK p \in pool.free : web' = [web EXCEPT !.pc = "send", !.hand = p]
        BY <1>1, <2>2, Zenon DEF WebChunk, AllocateWaiting
      <3>2. p \in Packet
        BY <1>0 DEF PoolType
      <3>3. web'.pc = "send" /\ web'.hand = p /\ web'.seg = NoPacket /\ web' \in WebType
        BY <1>0, <2>1, <3>1, <3>2 DEF WebType, WebPC, PacketOrNull
      <3> QED
        BY <1>0, <1>1, <3>2, <3>3 DEF HandsOf, WebAsks
    <2>3. CASE pool.free = {}
      <3>1. web' = [web EXCEPT !.pc = "pool"]
        BY <1>1, <2>3 DEF WebChunk, AllocateWaiting, WebGo
      <3>2. web'.pc = "pool" /\ web'.hand = NoPacket /\ web'.seg = NoPacket /\ web' \in WebType
        BY <1>0, <2>1, <3>1 DEF WebType, WebPC
      <3> QED
        BY <1>0, <1>1, <3>2 DEF HandsOf, WebAsks
    <2> QED
      BY <2>2, <2>3
  <1>2. CASE WebSplit
    <2>1. /\ web.hand # NoPacket /\ web.seg = NoPacket /\ UNCHANGED sentq
          /\ Len(sentq) < QueueMax
      BY <1>0, <1>2 DEF WebSplit, HandsOf
    <2>2. CASE pool.free # {}
      <3>1. PICK p \in pool.free : web' = [web EXCEPT !.pc = "send_seg", !.seg = p]
        BY <1>2, <2>2 DEF WebSplit, AllocateWaiting
      <3>2. p \in Packet
        BY <1>0 DEF PoolType
      <3>3. web'.pc = "send_seg" /\ web'.hand = web.hand /\ web'.seg = p /\ web' \in WebType
        BY <1>0, <2>1, <3>1, <3>2 DEF WebType, WebPC, PacketOrNull
      <3> QED
        BY <1>0, <1>2, <2>1, <3>2, <3>3 DEF HandsOf, WebAsks
    <2>3. CASE pool.free = {}
      <3>1. web' = [web EXCEPT !.pc = "pool_seg"]
        BY <1>2, <2>3 DEF WebSplit, AllocateWaiting, WebGo
      <3>2. /\ web'.pc = "pool_seg" /\ web'.hand = web.hand /\ web'.seg = NoPacket
            /\ web' \in WebType
        BY <1>0, <2>1, <3>1 DEF WebType, WebPC
      <3> QED
        BY <1>0, <1>2, <2>1, <3>2 DEF HandsOf, WebAsks
    <2> QED
      BY <2>2, <2>3
  <1>3. CASE WebGiven
    <2>1. pool.given # NoPacket /\ pool.given \in PacketOrNull /\ UNCHANGED sentq
      BY <1>0, <1>3 DEF WebGiven, Asked, Waits, PoolType
    <2>2. CASE web.pc = "pool"
      <3>1. web' = [web EXCEPT !.pc = "send", !.hand = pool.given]
        BY <1>3, <2>2 DEF WebGiven
      <3>2. web.seg = NoPacket
        BY <1>0, <2>2 DEF HandsOf
      <3>3. /\ web'.pc = "send" /\ web'.hand = pool.given /\ web'.seg = NoPacket
            /\ web' \in WebType
        BY <1>0, <2>1, <3>1, <3>2 DEF WebType, WebPC
      <3> QED
        BY <1>3, <2>1, <3>3 DEF HandsOf, WebAsks
    <2>3. CASE web.pc = "pool_seg"
      <3>1. web' = [web EXCEPT !.pc = "send_seg", !.seg = pool.given]
        BY <1>3, <2>3 DEF WebGiven
      <3>2. web.hand # NoPacket /\ Len(sentq) < QueueMax
        BY <1>0, <2>3 DEF HandsOf
      <3>3. /\ web'.pc = "send_seg" /\ web'.seg = pool.given /\ web'.hand = web.hand
            /\ web' \in WebType
        BY <1>0, <2>1, <3>1 DEF WebType, WebPC
      <3> QED
        BY <1>3, <2>1, <3>2, <3>3 DEF HandsOf, WebAsks
    <2> QED
      BY <1>3, <2>2, <2>3 DEF WebGiven
  <1>4. CASE WebRead
    BY <1>0, <1>4 DEF WebRead, HandsOf
  <1>5. CASE WebSendFails
    <2>1. CASE web.pc = "send"
      <3>1. web' = [web EXCEPT !.pc = "closing", !.hand = NoPacket]
        BY <1>5, <2>1 DEF WebSendFails
      <3>2. /\ web'.pc = "closing" /\ web'.hand = NoPacket /\ web'.seg = web.seg
            /\ web' \in WebType
        BY <1>0, <3>1 DEF WebType, WebPC, PacketOrNull
      <3> QED
        BY <1>0, <2>1, <3>2 DEF HandsOf, Waits
    <2>2. CASE web.pc = "send_seg"
      <3>1. web' = [web EXCEPT !.pc = "send", !.seg = NoPacket]
        BY <1>5, <2>2 DEF WebSendFails
      <3>2. /\ web'.pc = "send" /\ web'.hand = web.hand /\ web'.seg = NoPacket
            /\ web' \in WebType
        BY <1>0, <3>1 DEF WebType, WebPC, PacketOrNull
      <3> QED
        BY <1>0, <2>2, <3>2 DEF HandsOf, Waits
    <2> QED
      BY <1>5, <2>1, <2>2 DEF WebSendFails
  <1>6. CASE WebSuspend
    <2>1. web' = [web EXCEPT !.pc = "queue"] /\ web.pc = "send"
      BY <1>6 DEF WebSuspend, WebGo
    <2>2. /\ web'.pc = "queue" /\ web'.hand = web.hand /\ web'.seg = web.seg
          /\ web' \in WebType
      BY <1>0, <2>1 DEF WebType, WebPC
    <2> QED
      BY <1>0, <2>1, <2>2 DEF HandsOf, Waits
  <1>7. CASE WebSend \/ WebTrim
    <2>1. web' = [web EXCEPT !.pc = "open", !.hand = NoPacket] /\ web.pc \in {"send", "trim"}
      BY <1>7 DEF WebSend, WebTrim
    <2>2. /\ web'.pc = "open" /\ web'.hand = NoPacket /\ web'.seg = web.seg
          /\ web' \in WebType
      BY <1>0, <2>1 DEF WebType, WebPC, PacketOrNull
    <2> QED
      BY <1>0, <2>1, <2>2 DEF HandsOf, Waits
  <1>8. CASE WebSendSeg
    <2>1. PICK pc \in {"send", "trim"} : web' = [web EXCEPT !.pc = pc, !.seg = NoPacket]
      BY <1>8 DEF WebSendSeg
    <2>2. /\ web'.pc = pc /\ web'.hand = web.hand /\ web'.seg = NoPacket
          /\ web' \in WebType
      BY <1>0, <2>1 DEF WebType, WebPC, PacketOrNull
    <2>3. web.pc = "send_seg"
      BY <1>8 DEF WebSendSeg
    <2> QED
      BY <1>0, <2>2, <2>3 DEF HandsOf, Waits
  <1>9. CASE WebClose \/ WebClosed \/ (WebFlush /\ web' # web)
    <2>1. PICK pc \in {"closing", "flush", "listen"} : web' = [web EXCEPT !.pc = pc]
      BY <1>9 DEF WebClose, WebClosed, WebFlush, WebGo
    <2>2. web.pc \in {"open", "closing", "flush"}
      BY <1>9 DEF WebClose, WebClosed, WebFlush
    <2>3. /\ web'.pc = pc /\ web'.hand = web.hand /\ web'.seg = web.seg
          /\ web' \in WebType
      BY <1>0, <2>1 DEF WebType, WebPC
    <2> QED
      BY <1>0, <2>2, <2>3 DEF HandsOf, Waits
  <1>10. CASE WebFlush /\ web' = web
    BY <1>0, <1>10 DEF WebFlush, HandsOf
  <1> QED
    BY <1>1, <1>2, <1>3, <1>4, <1>5, <1>6, <1>7, <1>8, <1>9, <1>10 DEF WebThread

(* The steps of the others. *)
LEMMA OtherSteps ==
  ASSUME Sound, Dma \/ EthIrq \/ IpThread \/ UNCHANGED vars
  PROVE  web' \in WebType /\ HandsOf' /\ (web'.pc \in Waits <=> web.pc \in Waits)
  <1> USE DEF tcp
  <1>0. /\ web \in WebType /\ HandsOf /\ QueuesType /\ QueueMax \in Nat /\ TypeOK
    BY Types, HandsParts, EthAssumption DEF Sound
  <1>1. ASSUME web' = web, sentq' = sentq
        PROVE  web' \in WebType /\ HandsOf' /\ (web'.pc \in Waits <=> web.pc \in Waits)
    BY <1>0, <1>1 DEF HandsOf
  <1>2. CASE Acked \/ ResetFlush
    <2>1. Len(Tail(sentq)) <= Len(sentq) /\ Len(sentq) \in Nat /\ Len(Tail(sentq)) \in Nat
      BY <1>0, <1>2, HeadTailProperties DEF QueuesType, Acked, ResetFlush
    <2>2. web' = web /\ sentq' = Tail(sentq)
      BY <1>2 DEF Acked, ResetFlush
    <2> QED
      BY <1>0, <2>1, <2>2 DEF HandsOf
  <1>3. ASSUME Resumed, sentq' = sentq
        PROVE  web' \in WebType /\ HandsOf' /\ (web'.pc \in Waits <=> web.pc \in Waits)
    <2>1. /\ web'.hand = web.hand /\ web'.seg = web.seg /\ web' \in WebType
          /\ web'.pc = web.pc \/ (web.pc = "queue" /\ web'.pc = "send")
      BY <1>0, <1>3, ResumedKeeps DEF WebType
    <2> QED
      BY <1>0, <1>3, <2>1 DEF HandsOf, Waits
  <1>4. CASE Deliver \/ ResendEnd
    BY <1>1, <1>3, <1>4 DEF Deliver, ResendEnd
  <1>5. CASE Discard
    <2>1. CASE web.pc = "listen" /\ web' = [web EXCEPT !.pc = "open"]
      <3>1. /\ web'.pc = "open" /\ web'.hand = web.hand /\ web'.seg = web.seg
            /\ web' \in WebType /\ sentq' = sentq
        BY <1>0, <1>5, <2>1 DEF Discard, WebType, WebPC
      <3> QED
        BY <1>0, <2>1, <3>1 DEF HandsOf, Waits
    <2> QED
      BY <1>1, <1>3, <1>5, <2>1 DEF Discard
  <1>6. CASE ResetEnd
    <2>1. CASE web.pc = "queue"
      <3>1. /\ web'.pc = "send" /\ web'.hand = web.hand /\ web'.seg = web.seg
            /\ web' \in WebType /\ sentq' = sentq
        BY <1>0, <1>6, <2>1 DEF ResetEnd, WebType, WebPC
      <3> QED
        BY <1>0, <2>1, <3>1 DEF HandsOf, Waits
    <2> QED
      BY <1>1, <1>6, <2>1 DEF ResetEnd
  <1>7. CASE Dma \/ EthIrq \/ UNCHANGED vars
    BY <1>1, <1>7 DEF Dma, DmaReceive, DmaSend, DmaFatal, EthIrq, Interrupt, vars
  <1>8. CASE \/ Enable \/ Wake \/ TakeFrame \/ ResetByPeer \/ Reply \/ Timer
             \/ FastRetransmit \/ Resend \/ Probe \/ PickUp \/ TxFree \/ Deferred \/ Read
             \/ Build \/ Queue \/ BuildEnd
    BY <1>1, <1>8 DEF Enable, Wake, TakeFrame, ResetByPeer, Reply, Timer, FastRetransmit, Resend,
       Probe, PickUp, TxFree, Deferred, Read, Build, Queue, BuildEnd
  <1> QED
    BY <1>2, <1>4, <1>5, <1>6, <1>7, <1>8 DEF IpThread

(* A packet that was asked for and is there has been handed over. *)
LEMMA AsksSteps ==
  ASSUME Sound, WebAsks
  PROVE  /\ Asked(pool') <=> web'.pc \in Waits
         /\ ~(pool'.waits /\ pool'.given # NoPacket)
  <1>0. /\ web \in WebType /\ pool \in PoolType /\ HandsOf /\ (Asked(pool) <=> web.pc \in Waits)
        /\ ~(pool.waits /\ pool.given # NoPacket)
    BY Types, HandsParts DEF Sound
  <1>1. CASE WebChunk
    <2>1. web.hand = NoPacket /\ web.seg = NoPacket /\ ~Asked(pool)
      BY <1>0, <1>1 DEF WebChunk, HandsOf, Waits
    <2>2. UNCHANGED <<rx, tx, ip, rxq, sentq, sock>>
      BY <1>1 DEF WebChunk, tcp
    <2>3. AllocateWaiting("send", "pool", "hand")
      BY <1>1 DEF WebChunk
    <2> QED
      BY <2>1, <2>2, <2>3, WebAllocates DEF Waits
  <1>2. CASE WebSplit
    <2>1. web.seg = NoPacket /\ ~Asked(pool)
      BY <1>0, <1>2 DEF WebSplit, HandsOf, Waits
    <2>2. UNCHANGED <<rx, tx, ip, rxq, sentq, sock>>
      BY <1>2 DEF WebSplit, tcp
    <2>3. AllocateWaiting("send_seg", "pool_seg", "seg")
      BY <1>2 DEF WebSplit
    <2> QED
      BY <2>1, <2>2, <2>3, WebAllocates DEF Waits
  <1>3. CASE WebGiven
    <2>1. ~Asked(pool')
      BY <1>3, GivenStep
    <2>2. web'.pc \in {"send", "send_seg"}
      BY <1>0, <1>3 DEF WebGiven, WebType
    <2> QED
      BY <2>1, <2>2 DEF Asked, Waits
  <1> QED
    BY <1>1, <1>2, <1>3 DEF WebAsks

LEMMA HandsNext ==
  ASSUME Sound, Next \/ UNCHANGED vars
  PROVE  web' \in WebType /\ Hands'
  <1>0. /\ ip \in IpType /\ rx \in RxType /\ FrameOf /\ QueuesType /\ NoPacket \notin Packet
        /\ (Asked(pool) <=> web.pc \in Waits)
    BY Types, HandsParts, EthAssumption DEF Sound
  <1>1. web' \in WebType /\ HandsOf' /\ (WebAsks \/ (web'.pc \in Waits <=> web.pc \in Waits))
    BY WebSteps, OtherSteps DEF Next
  <1>2. Asked(pool)' <=> web'.pc \in Waits
    BY <1>0, <1>1, AsksSteps, PacketsNext DEF Asks, Asked
  <1>3. ~(pool'.waits /\ pool'.given # NoPacket)
    BY AsksSteps, PacketsNext DEF Asks
  <1>4. FrameOf'
    <2>1. CASE TakeFrame
      <3>1. rxq # <<>> => Head(rxq) # NoPacket
        BY <1>0, HeadTailProperties DEF QueuesType
      <3> QED
        BY <1>0, <2>1, <3>1 DEF TakeFrame, Served, Serving, FrameOf, IpType
    <2>2. CASE Enable \/ Wake \/ Timer \/ PickUp \/ Deferred \/ Reply \/ ResetByPeer
      BY <1>0, <2>2 DEF Enable, Wake, Waiting, Timer, PickUp, Deferred, Reply, ResetByPeer, Go,
         Retransmit, Served, Serving, FrameOf, IpType
    <2>3. CASE Deliver \/ Discard \/ FastRetransmit \/ Resend \/ Probe \/ ResendEnd \/ ResetEnd
      BY <1>0, <2>3 DEF Deliver, Discard, FastRetransmit, Retransmit, Resend, Probe, ResendEnd,
         ResetEnd, FrameOf, IpType
    <2>4. CASE Read \/ Queue \/ BuildEnd
      BY <1>0, <2>4 DEF Read, Queue, BuildEnd, Go, Served, FrameOf, IpType
    <2>5. CASE \/ Dma \/ EthIrq \/ Acked \/ ResetFlush \/ TxFree \/ Build
               \/ WebThread \/ UNCHANGED vars
      BY <1>0, <2>5 DEF Dma, DmaReceive, DmaSend, DmaFatal, EthIrq, Interrupt, Acked,
         ResetFlush, TxFree, Build, WebThread, WebRead, WebChunk, WebGiven, WebSendFails,
         WebSuspend, WebSplit, WebSend, WebSendSeg, Enqueue, WebTrim, WebClose, WebClosed,
         WebFlush, vars, FrameOf
    <2> QED
      BY <2>1, <2>2, <2>3, <2>4, <2>5 DEF Next, IpThread
  <1> QED
    BY <1>1, <1>2, <1>3, <1>4 DEF Hands, HandsOf, FrameOf, Waits

-----------------------------------------------------------------------------
(* The notes of the interrupt. The interrupt tells the IP thread only when *)
(* nothing was noted before; what was noted before, and not taken since,   *)
(* it was told of then.                                                    *)
LEMMA ToldNext ==
  ASSUME Sound, Next \/ UNCHANGED vars
  PROVE  Told'
  <1>0. Told /\ ip \in IpType /\ FlagsType
    BY Types DEF Sound
  <1>1. CASE EthIrq
    BY <1>0, <1>1 DEF EthIrq, Interrupt, Told, FlagsType, Flag
  <1>2. CASE Dma \/ UNCHANGED vars
    <2>1. UNCHANGED <<deferred, ip>> /\ ("driver" \in events => "driver" \in events')
      BY <1>2 DEF Dma, DmaReceive, DmaSend, DmaFatal, vars, hw
    <2> QED
      BY <1>0, <2>1 DEF Told
  <1>3. CASE WebThread
    <2>1. UNCHANGED <<deferred, events, ip>>
      BY <1>3 DEF WebThread, WebRead, WebChunk, WebGiven, WebSendFails, WebSuspend, WebSplit,
         WebSend, WebSendSeg, Enqueue, WebTrim, WebClose, WebClosed, WebFlush, hw
    <2> QED
      BY <1>0, <2>1 DEF Told
  <1> DEFINE Serves == {"deferred", "read", "build"}
  <1>a. ASSUME UNCHANGED deferred, "driver" \in events => "driver" \in events',
               "driver" \in ip.got /\ ip.pc \notin Serves
                 => "driver" \in ip'.got /\ ip'.pc \notin Serves
        PROVE  Told'
    BY <1>0, <1>a DEF Told
  <1>4. CASE Wake
    BY <1>0, <1>4 DEF Wake, Ticks, Waiting, Told, IpType, hw
  <1>5. CASE TakeFrame \/ Timer
    <2>1. UNCHANGED <<deferred, events>>
      BY <1>5 DEF TakeFrame, Timer, hw
    <2>2. ASSUME NEW e \in {"receive", "timer"}, NEW s \in {"loop", "frame", "reply", "reset", "resend"},
                 ip'.pc = s, ip'.got = ip.got \/ ip'.got = ip.got \ {e}
          PROVE  Told'
      BY <1>a, <2>1, <2>2
    <2>3. CASE TakeFrame
      BY <1>0, <2>2, <2>3 DEF TakeFrame, Serving, Served, IpType
    <2>4. CASE Timer
      <3>1. ip'.got = ip.got \ {"timer"} /\ ip'.pc \in {"loop", "reply", "reset", "resend"}
        BY <1>0, <2>4, AfterTimer
      <3> QED
        BY <2>2, <3>1
    <2> QED
      BY <1>5, <2>3, <2>4
  <1>6. CASE \/ Deliver \/ Discard \/ FastRetransmit \/ Enable \/ ResetByPeer \/ Reply
             \/ Resend \/ Probe \/ ResendEnd \/ ResetEnd
    <2>1. UNCHANGED <<deferred, events>>
      BY <1>6 DEF Deliver, Discard, FastRetransmit, Enable, ResetByPeer, Reply, Resend, Probe,
         ResendEnd, ResetEnd, hw
    <2>2. ip'.got = ip.got
      BY <1>0, <1>6, AfterFast DEF Deliver, Discard, Enable, ResetByPeer, Reply,
         Resend, Probe, ResendEnd, ResetEnd, Go, IpType
    <2>3. CASE Enable
      <3>1. eth = "down"
        BY <2>3 DEF Enable, Sound, Idle
      <3>2. deferred = {}
        BY <3>1 DEF Sound, Idle
      <3> QED
        BY <2>1, <3>2 DEF Told
    <2>4. CASE \/ Deliver \/ Discard \/ FastRetransmit \/ ResetByPeer \/ Reply
               \/ Resend \/ Probe \/ ResendEnd \/ ResetEnd
      <3>1. ip'.pc \notin Serves
        BY <1>0, <2>4, AfterFast DEF Deliver, Discard, ResetByPeer, Reply,
           Resend, Probe, ResendEnd, ResetEnd, Go, IpType
      <3> QED
        BY <1>a, <2>1, <2>2, <3>1
    <2> QED
      BY <1>6, <2>3, <2>4
  <1>7. CASE Acked \/ ResetFlush \/ TxFree
    <2>1. UNCHANGED <<deferred, events, ip>>
      BY <1>7 DEF Acked, ResetFlush, TxFree, hw
    <2> QED
      BY <1>0, <2>1 DEF Told
  <1>8. CASE Deferred \/ Read \/ Build \/ Queue \/ BuildEnd
    <2>1. ip.pc \in Serves /\ UNCHANGED deferred
      BY <1>8 DEF Deferred, Read, Build, Queue, BuildEnd, hw
    <2>2. "driver" \in events => "driver" \in events'
      BY <1>8 DEF Deferred, Read, Build, Queue, BuildEnd
    <2> QED
      BY <1>0, <2>1, <2>2 DEF Told
  <1>9. CASE PickUp
    BY <1>9 DEF PickUp, Told
  <1> QED
    BY <1>1, <1>2, <1>3, <1>4, <1>5, <1>6, <1>7, <1>8, <1>9 DEF Next, IpThread

LEMMA IdleNext ==
  ASSUME Sound, Next \/ UNCHANGED vars
  PROVE  Idle'
  <1> USE DEF hw, tcp
  <1>0. /\ Idle /\ ip \in IpType /\ FlagsType /\ web \in WebType
        /\ eth = "down" => ~Asked(pool) /\ web.hand = NoPacket /\ web.seg = NoPacket
    <2>1. eth = "down" => web.pc = "listen"
      BY DEF Sound, Idle
    <2> QED
      BY <2>1, Types DEF Sound, Hands
  <1>1. CASE Dma \/ EthIrq
    BY <1>0, <1>1 DEF Dma, DmaReceive, DmaSend, DmaFatal, EthIrq, Interrupt, Idle, FlagsType
  <1>2. CASE UNCHANGED vars
    BY <1>0, <1>2 DEF vars, Idle
  <1>3. CASE WebThread
    <2>1. eth # "down" /\ UNCHANGED <<eth, ip>>
      BY <1>0, <1>3 DEF Idle, WebThread, WebRead, WebChunk, WebGiven, WebSendFails, WebSuspend,
         WebSplit, WebSend, WebSendSeg, Enqueue, WebTrim, WebClose, WebClosed, WebFlush
    <2> QED
      BY <1>0, <2>1 DEF Idle
  <1>4. CASE Enable
    BY <1>0, <1>4 DEF Enable, Go, Idle, IpType
  <1>8. CASE Wake
    BY <1>0, <1>8 DEF Wake, Ticks, Waiting, Idle, IpType
  <1>9. CASE Timer
    <2>1. UNCHANGED <<eth, irq, deferred, events, rxq, sentq, web>>
      BY <1>9 DEF Timer
    <2>2. CASE eth = "down"
      <3>1. ip' = [ip EXCEPT !.pc = "loop", !.got = @ \ {"timer"}] /\ UNCHANGED <<conn, snd>>
        BY <1>0, <1>9, <2>2 DEF Timer, TimedOut, Overdue, Idle
      <3> QED
        BY <1>0, <2>1, <2>2, <3>1 DEF Idle, IpType
    <2>3. CASE eth # "down"
      <3>1. ip'.pc # "enable"
        BY <1>0, <1>9, AfterTimer
      <3> QED
        BY <2>1, <2>3, <3>1 DEF Idle
    <2> QED
      BY <2>2, <2>3
  <1>5. CASE \/ TakeFrame \/ Acked \/ Deliver \/ Discard \/ ResetByPeer \/ Reply
             \/ FastRetransmit \/ Resend \/ Probe \/ ResendEnd \/ ResetFlush \/ ResetEnd \/ PickUp
             \/ TxFree \/ Deferred \/ Read \/ Queue
    <2>1. eth # "down" /\ UNCHANGED eth
      BY <1>0, <1>5 DEF TakeFrame, Acked, Deliver, Discard, ResetByPeer, Reply, FastRetransmit,
         Resend, Probe, ResendEnd, ResetFlush, ResetEnd, PickUp, TxFree, Deferred, Read, Queue,
         Serving, Idle
    <2>2. ip'.pc # "enable"
      BY <1>0, <1>5, AfterFast DEF TakeFrame, Acked, Deliver, Discard, ResetByPeer, Reply,
         Resend, Probe, ResendEnd, ResetFlush, ResetEnd, PickUp, TxFree, Deferred, Read, Queue,
         Serving, Served, Go, IpType
    <2> QED
      BY <2>1, <2>2 DEF Idle
  <1>6. CASE Build
    BY <1>0, <1>6 DEF Build, Idle
  <1>7. CASE BuildEnd
    <2>1. eth' # "down" /\ ip'.pc = "loop"
      BY <1>0, <1>7 DEF BuildEnd, Served, IpType
    <2> QED
      BY <2>1 DEF Idle
  <1> QED
    BY <1>1, <1>2, <1>3, <1>4, <1>5, <1>6, <1>7, <1>8, <1>9 DEF Next, IpThread

-----------------------------------------------------------------------------
LEMMA SoundInit ==
  ASSUME Init
  PROVE  Sound
  <1>0. NoPacket \notin Packet /\ RxCount \in Nat \ {0} /\ TxCount \in Nat \ {0}
    BY EthAssumption
  <1>1. /\ pool.free = Packet /\ pool.tag = [p \in Packet |-> "free"]
        /\ pool.done = [p \in Packet |-> FALSE] /\ pool.waits = FALSE /\ pool.given = NoPacket
        /\ pool \in PoolType
    BY DEF Init, PoolType, PacketOrNull
  <1>2. /\ rx \in RxType /\ RxEmpty
    BY RxSlots DEF Init, RxType, RxEmpty, PacketOrNull
  <1>3. tx \in TxType /\ tx.used = 0 /\ tx.cur = 0 /\ tx.rel = 0 /\ tx.dma = 0
        /\ \A i \in TxSlot : tx.pkt[i] = NoPacket /\ ~tx.own[i]
    BY TxSlots DEF Init, TxType, PacketOrNull
  <1>4. ip \in IpType /\ ip.pc = "enable" /\ ip.got = {} /\ ip.work = {} /\ ip.frame = NoPacket
    BY EthAssumption DEF Init, IpType, IpPC, PacketOrNull
  <1>5. web \in WebType /\ web.pc = "listen" /\ web.hand = NoPacket /\ web.seg = NoPacket
    BY DEF Init, WebType, WebPC, PacketOrNull
  <1>6. QueuesType /\ FlagsType /\ rxq = <<>> /\ sentq = <<>> /\ sock = {}
    <2>1. <<>> \in Seq(Packet) /\ Len(<<>>) = 0
      BY EmptySeq
    <2>2. 0 <= QueueMax
      BY EthAssumption
    <2> QED
      BY <2>1, <2>2 DEF Init, QueuesType, FlagsType
  <1>11. snd \in SndType /\ ~snd.armed
    BY EthAssumption DEF Init, Cleaned, SndType
  <1>7. TypeOK
    BY <1>1, <1>2, <1>3, <1>4, <1>5, <1>6, <1>11, Types
  <1>8. RxSound /\ Told /\ Idle /\ Hands
    BY <1>1, <1>2, <1>4, <1>5, <1>11 DEF Init, RxSound, Told, Idle, Hands, Asked
  <1>9. TxSound
    <2>1. TxRing(0, 0)
      <3>1. \A i \in TxSlot : ~InWindow(i, 0, 0, TxCount)
        BY TxSlots, WindowFull
      <3>2. Around(0, 0, TxCount) = 0
        BY TxSlots DEF Around
      <3> QED
        BY <1>3, <3>1, <3>2 DEF TxRing
    <2> QED
      BY <2>1, TxSlots DEF TxSound
  <1>10. Packets
    <2> DEFINE w == [p \in Packet |-> "pool"]
    <2>1. Queued = {} /\ InRing = {} /\ Elems(rxq) = {}
      BY <1>3, <1>6 DEF Queued, InRing, Elems
    <2>2. w \in [Packet -> Place] /\ \A p \in Packet : w[p] = "pool"
      BY DEF Place
    <2> HIDE DEF w
    <2>3. Books(pool, w, Queued, InRing)
      BY <1>0, <1>1, <2>1, <2>2 DEF Books, BooksOf
    <2>4. Elsewhere(w)
      BY <1>2, <1>4, <1>5, <1>6, <2>1 DEF Elsewhere, RxEmpty
    <2>5. Once
      BY <1>2, <1>3, <1>6 DEF Once, RxOnce, TxOnce, Distinct, RxEmpty
    <2> QED
      BY <2>2, <2>3, <2>4, <2>5 DEF Packets, Placed
  <1> QED
    BY <1>7, <1>8, <1>9, <1>10 DEF Sound

(* The invariant holds of every behaviour, whatever the number of packets  *)
(* and descriptors and the length of the queues.                           *)
THEOREM SoundHolds == Spec => []Sound
  <1>1. Init => Sound
    BY SoundInit
  <1>2. Sound /\ [Next]_vars => Sound'
    <2> SUFFICES ASSUME Sound, Next \/ UNCHANGED vars PROVE Sound'
      OBVIOUS
    <2>1. TypeOK'
      <3>1. /\ pool' \in PoolType /\ rx' \in RxType /\ tx' \in TxType
            /\ ip' \in IpType /\ web' \in WebType /\ snd' \in SndType
            /\ QueuesType' /\ FlagsType'
        BY PoolNext, RxNext, TxNext, IpNext, HandsNext, SndNext, QueuesNext, FlagsNext
      <3>2. (pool \in PoolType /\ rx \in RxType /\ tx \in TxType
             /\ ip \in IpType /\ web \in WebType /\ snd \in SndType
             /\ QueuesType /\ FlagsType => TypeOK)'
        BY Types, PTL
      <3> QED
        BY <3>1, <3>2 DEF PoolType, RxType, TxType, IpType, WebType, SndType, PacketOrNull,
           RxSlot, TxSlot, IpPC, WebPC
    <2> QED
      BY <2>1, RxNext, TxNext, ToldNext, IdleNext, HandsNext, PacketsNext DEF Sound
  <1> QED
    BY <1>1, <1>2, PTL DEF Spec

-----------------------------------------------------------------------------
(* What follows from the invariant.                                        *)

(* Three windows that make up the ring are apart. *)
LEMMA WindowsApart ==
  ASSUME NEW n \in Nat \ {0}, NEW from \in 0..(n - 1), NEW b \in 0..n, NEW f \in 0..n,
         NEW c \in 0..n, b + f + c = n, NEW i \in 0..(n - 1),
         NEW at, at = Around(Around(from, b, n), f, n),
         InWindow(i, from, b, n)
  PROVE  ~InWindow(i, at, c, n)
  BY DEF InWindow, Around

LEMMA OnePlaceHolds ==
  ASSUME Sound
  PROVE  OnePlace
  <1>1. PICK w \in [Packet -> Place] : Placed(w)
    BY DEF Sound, Packets
  <1>2. Members /\ Once /\ Hands /\ NoPacket \notin Packet
    BY MembersHold, EthAssumption DEF Sound, Packets
  <1>3. ~Twice(rxq) /\ ~Twice(sentq)
    BY <1>2 DEF Once, Distinct, Twice
  <1>4. ~Twice(rx.buf) /\ ~Twice(tx.pkt)
    <2>1. DOMAIN rx.buf = RxSlot /\ DOMAIN tx.pkt = TxSlot
      BY Types DEF Sound, RxType, TxType
    <2> QED
      BY <1>2, <2>1 DEF Once, RxOnce, TxOnce, Twice
  <1>5. ip.frame # NoPacket => ip.frame \notin Elems(rxq)
    BY <1>1, <1>2 DEF Placed, Elsewhere
  <1>6. /\ \A p \in sock : p \notin {web.hand, web.seg, pool.given}
        /\ web.hand # NoPacket => web.hand \notin {web.seg, pool.given}
    <2>1. pool.given \in Packet => w[pool.given] = "given"
      BY <1>1 DEF Placed, Books, BooksOf
    <2>2. /\ \A p \in sock : p \in Packet /\ w[p] = "sock"
          /\ web.hand # NoPacket => web.hand \in Packet /\ w[web.hand] = "hand"
          /\ web.seg # NoPacket => web.seg \in Packet /\ w[web.seg] = "seg"
      BY <1>1, <1>2 DEF Placed, Elsewhere, Members
    <2> QED
      BY <1>2, <2>1, <2>2
  <1>7. web.seg # NoPacket => pool.given = NoPacket
    BY <1>2 DEF Hands, Asked
  <1> QED
    BY <1>3, <1>4, <1>5, <1>6, <1>7 DEF OnePlace, Elems

LEMMA RxRingHolds ==
  ASSUME Sound, eth # "down"
  PROVE  /\ rx.idx = After(rx.bidx, rx.bcnt, RxCount)
         /\ \A k \in RxSlot :
              LET i == After(rx.bidx, k, RxCount)
              IN  IF k < rx.bcnt THEN rx.buf[i] = NoPacket /\ ~rx.own[i]
                                 ELSE rx.buf[i] # NoPacket
         /\ \A k \in RxSlot : rx.own[After(rx.dma, k, RxCount)] <=>
                                k < Cardinality({i \in RxSlot : rx.own[i]})
  <1>1. PICK f \in 0..RxCount : \E c \in 0..RxCount : RxRing(f, c)
    BY DEF Sound, RxSound
  <1>2. PICK c \in 0..RxCount : RxRing(f, c)
    BY <1>1
  <1>3. /\ rx.idx \in RxSlot /\ rx.bidx \in RxSlot /\ rx.dma \in RxSlot
        /\ rx.bcnt \in 0..RxCount
    BY Types DEF Sound, RxType
  <1>4. rx.idx = After(rx.bidx, rx.bcnt, RxCount)
    BY <1>2, <1>3, RxSlots, AfterAround DEF RxRing
  <1>5. ASSUME NEW k \in RxSlot
        PROVE  LET i == After(rx.bidx, k, RxCount)
               IN  IF k < rx.bcnt THEN rx.buf[i] = NoPacket /\ ~rx.own[i]
                                  ELSE rx.buf[i] # NoPacket
    <2> DEFINE i == After(rx.bidx, k, RxCount)
    <2>1. k \in 0..RxCount
      BY RxSlots
    <2>2. i = Around(rx.bidx, k, RxCount) /\ i \in RxSlot
      <3>1. After(rx.bidx, k, RxCount) = Around(rx.bidx, k, RxCount)
        BY <1>3, <2>1, RxSlots, AfterAround
      <3> QED
        BY <1>3, <2>1, <3>1, RxAround
    <2>3. InWindow(i, rx.bidx, rx.bcnt, RxCount) <=> k < rx.bcnt
      <3>1. InWindow(Around(rx.bidx, k, RxCount), rx.bidx, rx.bcnt, RxCount) <=> k < rx.bcnt
        BY <1>3, RxSlots, WindowIndex
      <3> QED
        BY <2>2, <3>1
    <2> HIDE DEF i
    <2>4. rx.buf[i] = NoPacket <=> k < rx.bcnt
      BY <1>2, <2>2, <2>3 DEF RxRing
    <2>5. k < rx.bcnt => ~rx.own[i]
      <3>1. rx.dma = Around(Around(rx.bidx, rx.bcnt, RxCount), f, RxCount)
            /\ rx.bcnt + f + c = RxCount
        BY <1>2 DEF RxRing
      <3>2. k < rx.bcnt => ~InWindow(i, rx.dma, c, RxCount)
        BY <1>3, <2>2, <2>3, <3>1, RxSlots, WindowsApart
      <3> QED
        BY <1>2, <2>2, <3>2 DEF RxRing
    <2> QED
      BY <2>4, <2>5 DEF i
  <1>6. Cardinality({i \in RxSlot : rx.own[i]}) = c
    <2>1. {i \in RxSlot : rx.own[i]} = {i \in 0..(RxCount - 1) : InWindow(i, rx.dma, c, RxCount)}
      BY <1>2, RxSlots DEF RxRing
    <2>2. Cardinality({i \in 0..(RxCount - 1) : InWindow(i, rx.dma, c, RxCount)}) = c
      BY <1>3, RxSlots, WindowCount
    <2> QED
      BY <2>1, <2>2
  <1>7. ASSUME NEW k \in RxSlot
        PROVE  rx.own[After(rx.dma, k, RxCount)] <=> k < c
    <2>1. k \in 0..RxCount
      BY RxSlots
    <2>2. /\ After(rx.dma, k, RxCount) = Around(rx.dma, k, RxCount)
          /\ Around(rx.dma, k, RxCount) \in RxSlot
      BY <1>3, <2>1, RxSlots, AfterAround, AroundType
    <2>3. InWindow(Around(rx.dma, k, RxCount), rx.dma, c, RxCount) <=> k < c
      BY <1>3, RxSlots, WindowIndex
    <2> QED
      BY <1>2, <2>2, <2>3 DEF RxRing
  <1> QED
    BY <1>4, <1>5, <1>6, <1>7

LEMMA TxRingHolds ==
  ASSUME Sound
  PROVE  /\ tx.cur = After(tx.rel, tx.used, TxCount)
         /\ \A k \in TxSlot :
              /\ (tx.pkt[After(tx.rel, k, TxCount)] # NoPacket) <=> k < tx.used
              /\ tx.own[After(tx.dma, k, TxCount)] <=>
                   k < Cardinality({i \in TxSlot : tx.own[i]})
         /\ \A i \in TxSlot : tx.own[i] => tx.pkt[i] # NoPacket
  <1>1. PICK f \in 0..TxCount : \E c \in 0..TxCount : TxRing(f, c)
    BY DEF Sound, TxSound
  <1>2. PICK c \in 0..TxCount : TxRing(f, c)
    BY <1>1
  <1>3. /\ tx.cur \in TxSlot /\ tx.rel \in TxSlot /\ tx.dma \in TxSlot
        /\ tx.used \in 0..TxCount
    BY Types DEF Sound, TxType
  <1>4. tx.cur = After(tx.rel, tx.used, TxCount)
    BY <1>2, <1>3, TxSlots, AfterAround DEF TxRing
  <1>5. Cardinality({i \in TxSlot : tx.own[i]}) = c
    <2>1. {i \in TxSlot : tx.own[i]} = {i \in 0..(TxCount - 1) : InWindow(i, tx.dma, c, TxCount)}
      BY <1>2, TxSlots DEF TxRing
    <2>2. Cardinality({i \in 0..(TxCount - 1) : InWindow(i, tx.dma, c, TxCount)}) = c
      BY <1>3, TxSlots, WindowCount
    <2> QED
      BY <2>1, <2>2
  <1>6. ASSUME NEW k \in TxSlot
        PROVE  /\ (tx.pkt[After(tx.rel, k, TxCount)] # NoPacket) <=> k < tx.used
               /\ tx.own[After(tx.dma, k, TxCount)] <=> k < c
    <2>1. k \in 0..TxCount
      BY TxSlots
    <2>2. /\ After(tx.dma, k, TxCount) = Around(tx.dma, k, TxCount)
          /\ Around(tx.dma, k, TxCount) \in TxSlot
          /\ After(tx.rel, k, TxCount) = Around(tx.rel, k, TxCount)
          /\ Around(tx.rel, k, TxCount) \in TxSlot
      BY <1>3, <2>1, TxSlots, AfterAround, AroundType
    <2>3. /\ InWindow(Around(tx.dma, k, TxCount), tx.dma, c, TxCount) <=> k < c
          /\ InWindow(Around(tx.rel, k, TxCount), tx.rel, tx.used, TxCount) <=> k < tx.used
      BY <1>3, TxSlots, WindowIndex
    <2> QED
      BY <1>2, <2>2, <2>3 DEF TxRing
  <1>7. ASSUME NEW i \in TxSlot, tx.own[i]
        PROVE  tx.pkt[i] # NoPacket
    <2>1. InWindow(i, tx.dma, c, TxCount)
      BY <1>2, <1>7 DEF TxRing
    <2>2. tx.used = f + c /\ tx.dma = Around(tx.rel, f, TxCount)
      BY <1>2 DEF TxRing
    <2>3. InWindow(i, tx.rel, tx.used, TxCount)
      <3>1. f + c <= TxCount
        BY <1>3, <2>2, EthAssumption
      <3> QED
        BY <1>3, <2>1, <2>2, <3>1, TxWindow
    <2> QED
      BY <1>2, <2>3 DEF TxRing
  <1> QED
    BY <1>4, <1>5, <1>6, <1>7

(* Packets, rings and queues stay consistent: no packet is in two places,  *)
(* and the driver's indices agree with the DMA's about every descriptor.   *)
THEOREM RingsAndPlaces == Spec => []Inv
  <1>1. Sound => Inv
    <2> SUFFICES ASSUME Sound PROVE Inv
      OBVIOUS
    <2>1. RingsSound
      BY RxRingHolds, TxRingHolds DEF RingsSound
    <2> QED
      BY <2>1, OnePlaceHolds DEF Inv, Sound
  <1> QED
    BY <1>1, SoundHolds, PTL

(* The marks by which a packet is released tell where it is, so TCP and    *)
(* the driver never release a packet the other one still holds.            *)
THEOREM MarksAreTrue == Spec => []MarksTrue
  <1>1. Sound => MarksTrue
    BY DEF Sound, Packets, Placed, Books, BooksOf, MarksTrue
  <1> QED
    BY <1>1, SoundHolds, PTL

(* An interrupt that finds its event noted need not wake the IP thread     *)
(* again: it has been told.                                                *)
THEOREM EventsAreKept == Spec => []NoLostEvent
  <1>1. Sound => NoLostEvent
    BY DEF Sound, Told, NoLostEvent
  <1> QED
    BY <1>1, SoundHolds, PTL

-----------------------------------------------------------------------------
(* The promise of the packet pool, step by step. The packets each role     *)
(* uses; the application's are those a thread or the socket holds and the  *)
(* one handed over.                                                        *)
RxUse    == {rx.buf[i] : i \in RxSlot} \ {NoPacket}
StackUse == ({ip.frame} \cup Elems(rxq)) \ {NoPacket}
Held     == sock \cup ({web.hand, web.seg} \ {NoPacket})
Given    == {pool.given} \ {NoPacket}

Part(r) ==
  IF r = "rx" THEN RxUse ELSE IF r = "stack" THEN StackUse
  ELSE IF r = "app" THEN Held \cup Given ELSE IF r = "tcp" THEN Queued ELSE InRing

LEMMA RecordFunction ==
  ASSUME NEW a, NEW b, NEW c, NEW d, NEW e
  PROVE  [rx |-> a, stack |-> b, app |-> c, tcp |-> d, driver |-> e] =
         [r \in Abstract!Role |->
            IF r = "rx" THEN a ELSE IF r = "stack" THEN b ELSE IF r = "app" THEN c
            ELSE IF r = "tcp" THEN d ELSE e]
  BY DEF Abstract!Role

LEMMA UsesParts ==
  Uses = [r \in Abstract!Role |-> Part(r)]
  <1>1. /\ sock \cup ({web.hand, web.seg, pool.given} \ {NoPacket}) = Held \cup Given
        /\ ({ip.frame} \cup {rxq[i] : i \in DOMAIN rxq}) \ {NoPacket} = StackUse
    BY DEF Held, Given, StackUse, Elems
  <1>2. Uses = [rx |-> RxUse, stack |-> StackUse, app |-> Held \cup Given,
                tcp |-> Queued, driver |-> InRing]
    BY <1>1 DEF Uses, RxUse
  <1> QED
    BY <1>2, RecordFunction, SMTT(30) DEF Part

(* A role, and what a step of the abstract pool does to each of them.      *)
Users(p) == {r \in Abstract!Role : p \in Part(r)}

LEMMA UsersAre ==
  ASSUME NEW p
  PROVE  Users(p) = Abstract!Users(p)
  BY UsesParts DEF Users, Abstract!Users

LEMMA PartsThen ==
  Uses' = [r \in Abstract!Role |-> Part(r)']
  <1>1. /\ sock' \cup ({web'.hand, web'.seg, pool'.given} \ {NoPacket}) = Held' \cup Given'
        /\ ({ip'.frame} \cup {rxq'[i] : i \in DOMAIN rxq'}) \ {NoPacket} = StackUse'
    BY DEF Held, Given, StackUse, Elems
  <1>2. Uses' = [rx |-> RxUse', stack |-> StackUse', app |-> Held' \cup Given',
                 tcp |-> Queued', driver |-> InRing']
    BY <1>1 DEF Uses, RxUse
  <1> QED
    BY <1>2, RecordFunction, SMTT(30) DEF Part

LEMMA StepStays ==
  ASSUME pool'.free = pool.free, \A r \in Abstract!Role : Part(r)' = Part(r)
  PROVE  UNCHANGED Abstract!poolVars
  BY UsesParts, PartsThen DEF Abstract!poolVars

LEMMA StepAllocates ==
  ASSUME NEW p \in Packet, NEW r \in Abstract!Role, p \in pool.free, r # "tcp",
         pool'.free = pool.free \ {p},
         \A s \in Abstract!Role : Part(s)' = IF s = r THEN Part(s) \cup {p} ELSE Part(s)
  PROVE  Abstract!Next
  <1>1. Uses' = [Uses EXCEPT ![r] = @ \cup {p}]
    BY UsesParts, PartsThen
  <1>2. Abstract!Allocate(p, r)
    BY <1>1 DEF Abstract!Allocate
  <1> QED
    BY <1>2 DEF Abstract!Next

LEMMA StepPasses ==
  ASSUME NEW p \in Packet, NEW r \in Abstract!Role, NEW s \in Abstract!Role, r # s,
         Users(p) = {r}, pool'.free = pool.free,
         \A t \in Abstract!Role :
           Part(t)' = IF t = r THEN Part(t) \ {p} ELSE IF t = s THEN Part(t) \cup {p} ELSE Part(t)
  PROVE  Abstract!Next
  <1>1. Uses' = [Uses EXCEPT ![r] = @ \ {p}, ![s] = @ \cup {p}]
    BY UsesParts, PartsThen
  <1>2. Abstract!Users(p) = {r}
    BY UsersAre
  <1>3. Abstract!Pass(p, r, s)
    BY <1>1, <1>2 DEF Abstract!Pass
  <1> QED
    BY <1>2, <1>3 DEF Abstract!Next

LEMMA StepDrops ==
  ASSUME NEW p \in Packet, NEW r \in Abstract!Role, r \in Users(p),
         pool'.free = IF Users(p) = {r} THEN pool.free \cup {p} ELSE pool.free,
         \A t \in Abstract!Role : Part(t)' = IF t = r THEN Part(t) \ {p} ELSE Part(t)
  PROVE  Abstract!Next
  <1>1. Uses' = [Uses EXCEPT ![r] = @ \ {p}]
    BY UsesParts, PartsThen
  <1>2. Abstract!Users(p) = Users(p)
    BY UsersAre
  <1>3. Abstract!Drop(p, r)
    BY <1>1, <1>2 DEF Abstract!Drop
  <1> QED
    BY <1>2, <1>3 DEF Abstract!Next

LEMMA StepSends ==
  ASSUME NEW p \in Packet, Users(p) = {"app"}, pool'.free = pool.free,
         \A t \in Abstract!Role :
           Part(t)' = IF t = "app" THEN Part(t) \ {p}
                      ELSE IF t \in {"tcp", "driver"} THEN Part(t) \cup {p} ELSE Part(t)
  PROVE  Abstract!Next
  <1>1. Uses' = [Uses EXCEPT !["app"] = @ \ {p}, !["tcp"] = @ \cup {p}, !["driver"] = @ \cup {p}]
    BY UsesParts, PartsThen DEF Abstract!Role
  <1>2. Abstract!Users(p) = {"app"}
    BY UsersAre
  <1>3. Abstract!Send(p)
    BY <1>1, <1>2 DEF Abstract!Send
  <1> QED
    BY <1>3 DEF Abstract!Next

LEMMA StepResends ==
  ASSUME NEW p \in Packet, Users(p) = {"tcp"}, pool'.free = pool.free,
         \A t \in Abstract!Role :
           Part(t)' = IF t = "driver" THEN Part(t) \cup {p} ELSE Part(t)
  PROVE  Abstract!Next
  <1>1. Uses' = [Uses EXCEPT !["driver"] = @ \cup {p}]
    BY UsesParts, PartsThen DEF Abstract!Role
  <1>2. Abstract!Users(p) = {"tcp"}
    BY UsersAre
  <1>3. Abstract!Resend(p)
    BY <1>1, <1>2 DEF Abstract!Resend
  <1> QED
    BY <1>3 DEF Abstract!Next

(* The sets of the step, in the terms of Part. *)
LEMMA PartsBy ==
  ASSUME NEW r \in Abstract!Role
  PROVE  /\ r = "rx" => Part(r) = RxUse
         /\ r = "stack" => Part(r) = StackUse
         /\ r = "app" => Part(r) = Held \cup Given
         /\ r = "tcp" => Part(r) = Queued
         /\ r = "driver" => Part(r) = InRing
         /\ r \in {"rx", "stack", "app", "tcp", "driver"}
  BY DEF Part, Abstract!Role

(* Who uses a packet, by its place.                                        *)
Roles(p) ==
  /\ p \in RxUse => Users(p) = {"rx"}
  /\ p \in StackUse => Users(p) = {"stack"}
  /\ p \in Held \cup Given => Users(p) = {"app"}
  /\ p \in Queued => Users(p) = IF p \in InRing THEN {"tcp", "driver"} ELSE {"tcp"}
  /\ p \in InRing \ Queued => Users(p) = {"driver"}
  /\ p \in RxUse \cup StackUse \cup Held \cup Given \cup (InRing \ Queued) =>
       pool.tag[p] = "allocated"
  /\ p \in Held => p \notin Given

LEMMA RolesHold ==
  ASSUME Sound, NEW p \in Packet
  PROVE  Roles(p)
  <1>1. PICK w \in [Packet -> Place] : Placed(w)
    BY DEF Sound, Packets
  <1>2. NoPacket \notin Packet /\ pool \in PoolType
    BY Types, EthAssumption DEF Sound
  <1>3. p \in RxUse => w[p] = "rx"
    BY <1>1 DEF RxUse, Placed, Elsewhere
  <1>4. p \in StackUse => w[p] \in {"frame", "rxq"}
    BY <1>1, <1>2 DEF StackUse, Placed, Elsewhere
  <1>5. p \in Held => w[p] \in {"sock", "hand", "seg"}
    BY <1>1, <1>2 DEF Held, Placed, Elsewhere
  <1>6. BooksOf(pool, w, Queued, InRing, p)
    BY <1>1 DEF Placed, Books
  <1>7. p \in Given => w[p] = "given"
    BY <1>6 DEF Given, BooksOf
  <1>8. p \in Queued \cup InRing => w[p] = "sent"
    BY <1>6 DEF BooksOf
  <1>9. pool.tag[p] # "free" /\ pool.tag[p] # "enqueued" => pool.tag[p] = "allocated"
    BY <1>2 DEF PoolType
  <1>10. /\ pool.tag[p] = "free" => w[p] = "pool"
         /\ pool.tag[p] = "enqueued" => p \in Queued
    BY <1>6 DEF BooksOf
  <1>11. /\ Users(p) \subseteq {"rx", "stack", "app", "tcp", "driver"}
         /\ "rx" \in Users(p) <=> p \in RxUse
         /\ "stack" \in Users(p) <=> p \in StackUse
         /\ "app" \in Users(p) <=> p \in Held \cup Given
         /\ "tcp" \in Users(p) <=> p \in Queued
         /\ "driver" \in Users(p) <=> p \in InRing
    <2>1. Part("rx") = RxUse /\ Part("stack") = StackUse /\ Part("app") = Held \cup Given
      BY DEF Part
    <2>2. Part("tcp") = Queued /\ Part("driver") = InRing
      BY DEF Part
    <2> QED
      BY <2>1, <2>2 DEF Users, Abstract!Role
  <1>12. CASE w[p] = "rx"
    <2>1. /\ p \notin StackUse /\ p \notin Held \cup Given /\ p \notin Queued /\ p \notin InRing
          /\ pool.tag[p] = "allocated"
      BY <1>4, <1>5, <1>7, <1>8, <1>9, <1>10, <1>12
    <2>2. p \in RxUse => Users(p) = {"rx"}
      BY <1>11, <2>1
    <2> QED
      BY <2>1, <2>2 DEF Roles
  <1>13. CASE w[p] \in {"frame", "rxq"}
    <2>1. /\ p \notin RxUse /\ p \notin Held \cup Given /\ p \notin Queued /\ p \notin InRing
          /\ pool.tag[p] = "allocated"
      BY <1>3, <1>5, <1>7, <1>8, <1>9, <1>10, <1>13
    <2>2. p \in StackUse => Users(p) = {"stack"}
      BY <1>11, <2>1
    <2> QED
      BY <2>1, <2>2 DEF Roles
  <1>14. CASE w[p] \in {"sock", "hand", "seg", "given"}
    <2>1. /\ p \notin RxUse /\ p \notin StackUse /\ p \notin Queued /\ p \notin InRing
          /\ pool.tag[p] = "allocated" /\ (p \in Held => p \notin Given)
      BY <1>3, <1>4, <1>5, <1>7, <1>8, <1>9, <1>10, <1>14
    <2>2. p \in Held \cup Given => Users(p) = {"app"}
      BY <1>11, <2>1
    <2> QED
      BY <2>1, <2>2 DEF Roles
  <1>15. CASE w[p] = "sent"
    <2>1. /\ p \notin RxUse /\ p \notin StackUse /\ p \notin Held \cup Given
          /\ (p \notin Queued => pool.tag[p] = "allocated")
      BY <1>3, <1>4, <1>5, <1>7, <1>9, <1>10, <1>15
    <2>2. p \in Queued => Users(p) = IF p \in InRing THEN {"tcp", "driver"} ELSE {"tcp"}
      BY <1>11, <2>1
    <2>3. p \in InRing \ Queued => Users(p) = {"driver"}
      BY <1>11, <2>1
    <2> QED
      BY <2>1, <2>2, <2>3 DEF Roles
  <1>16. CASE w[p] = "pool"
    BY <1>3, <1>4, <1>5, <1>7, <1>8, <1>16 DEF Roles
  <1> QED
    BY <1>12, <1>13, <1>14, <1>15, <1>16 DEF Place

LEMMA PartsByThen ==
  ASSUME NEW r \in Abstract!Role
  PROVE  /\ r = "rx" => Part(r)' = RxUse'
         /\ r = "stack" => Part(r)' = StackUse'
         /\ r = "app" => Part(r)' = Held' \cup Given'
         /\ r = "tcp" => Part(r)' = Queued'
         /\ r = "driver" => Part(r)' = InRing'
         /\ r \in {"rx", "stack", "app", "tcp", "driver"}
  BY DEF Part, Abstract!Role

(* A packet that only role r uses is given up: it returns to the pool, or, *)
(* when the web thread waits for one, goes to it.                          *)
Others(r, p) ==
  /\ RxUse' = IF r = "rx" THEN RxUse \ {p} ELSE RxUse
  /\ StackUse' = IF r = "stack" THEN StackUse \ {p} ELSE StackUse
  /\ Held' = IF r = "app" THEN Held \ {p} ELSE Held
  /\ Queued' = IF r = "tcp" THEN Queued \ {p} ELSE Queued
  /\ InRing' = IF r = "driver" THEN InRing \ {p} ELSE InRing

LEMMA StepReleases ==
  ASSUME NEW p \in Packet, NEW r \in Abstract!Role, Users(p) = {r}, Others(r, p),
         NEW q \in PoolType, q.free = pool.free, q.waits = pool.waits, q.given = pool.given,
         q.tag[p] = "allocated", pool' = Released(q, p),
         ~(pool.waits /\ pool.given # NoPacket),
         r = "app" => ~pool.waits /\ p # pool.given
  PROVE  Abstract!Next
  <1>0. NoPacket \notin Packet
    BY EthAssumption
  <1>1. CASE pool.waits
    <2>1. pool'.free = pool.free /\ pool'.given = p
      BY <1>1 DEF Released, PoolType
    <2>2. Given = {} /\ Given' = {p} /\ r # "app" /\ "app" \in Abstract!Role
      BY <1>0, <1>1, <2>1 DEF Given, Abstract!Role
    <2>3. \A t \in Abstract!Role :
            Part(t)' = IF t = r THEN Part(t) \ {p}
                       ELSE IF t = "app" THEN Part(t) \cup {p} ELSE Part(t)
      BY <2>2, PartsBy, PartsByThen DEF Others
    <2> QED
      BY <2>1, <2>2, <2>3, StepPasses
  <1>2. CASE ~pool.waits
    <2>1. pool'.free = pool.free \cup {p} /\ pool'.given = pool.given
      BY <1>2 DEF Released, PoolType
    <2>2. Given' = Given /\ (r = "app" => p \notin Given)
      BY <2>1 DEF Given
    <2>3. \A t \in Abstract!Role : Part(t)' = IF t = r THEN Part(t) \ {p} ELSE Part(t)
      BY <2>2, PartsBy, PartsByThen DEF Others
    <2> QED
      BY <2>1, <2>3, StepDrops
  <1> QED
    BY <1>1, <1>2

(* TCP gives a packet up: the last user releases it.                       *)
LEMMA StepDequeues ==
  ASSUME Sound, NEW p \in Packet, p \in Queued, pool' = Dequeued(pool, p), Others("tcp", p)
  PROVE  Abstract!Next
  <1> DEFINE q == [pool EXCEPT !.tag[p] = "allocated"]
  <1>0. pool \in PoolType /\ Hands /\ Roles(p) /\ "tcp" \in Abstract!Role
    BY Types, RolesHold DEF Sound, Abstract!Role
  <1>1. /\ q \in PoolType /\ q.free = pool.free /\ q.waits = pool.waits /\ q.given = pool.given
        /\ q.tag[p] = "allocated"
    BY <1>0 DEF PoolType
  <1>2. pool' = IF pool.done[p] THEN Released(q, p) ELSE q
    BY DEF Dequeued
  <1> HIDE DEF q
  <1>3. pool.done[p] <=> p \notin InRing
    BY DEF Sound, Packets, Placed, Books, BooksOf
  <1>4. CASE pool.done[p]
    <2>1. Users(p) = {"tcp"}
      BY <1>0, <1>3, <1>4 DEF Roles
    <2> QED
      BY <1>0, <1>1, <1>2, <1>4, <2>1, StepReleases DEF Hands
  <1>5. CASE ~pool.done[p]
    <2>1. Users(p) = {"tcp", "driver"}
      BY <1>0, <1>3, <1>5 DEF Roles
    <2>2. pool'.free = pool.free /\ Given' = Given
      BY <1>1, <1>2, <1>5 DEF Given
    <2>3. \A t \in Abstract!Role : Part(t)' = IF t = "tcp" THEN Part(t) \ {p} ELSE Part(t)
      BY <2>2, PartsBy, PartsByThen DEF Others
    <2>4. "tcp" \in Users(p) /\ Users(p) # {"tcp"}
      BY <2>1
    <2> QED
      BY <1>0, <2>2, <2>3, <2>4, StepDrops
  <1> QED
    BY <1>4, <1>5

Keeps == Abstract!Next \/ UNCHANGED Abstract!poolVars

LEMMA StepKeeps ==
  ASSUME pool'.free = pool.free, Held' \cup Given' = Held \cup Given,
         UNCHANGED <<RxUse, StackUse, Queued, InRing>>
  PROVE  Keeps
  <1>1. \A t \in Abstract!Role : Part(t)' = Part(t)
    BY PartsBy, PartsByThen
  <1> QED
    BY <1>1, StepStays DEF Keeps

(* What the sets depend on.                                                *)
LEMMA SetsBy ==
  /\ rx'.buf = rx.buf => RxUse' = RxUse
  /\ ip'.frame = ip.frame /\ rxq' = rxq => StackUse' = StackUse
  /\ sock' = sock /\ web'.hand = web.hand /\ web'.seg = web.seg => Held' = Held
  /\ pool'.given = pool.given => Given' = Given
  /\ sentq' = sentq => Queued' = Queued
  /\ tx'.pkt = tx.pkt => InRing' = InRing
  BY DEF RxUse, StackUse, Elems, Held, Given, Queued, InRing

LEMMA QuietKeep ==
  ASSUME Sound,
         \/ Dma \/ EthIrq \/ Enable \/ Wake \/ ResetByPeer \/ Timer
         \/ FastRetransmit \/ PickUp \/ Deferred \/ BuildEnd \/ WebSuspend \/ WebClosed
         \/ UNCHANGED vars
  PROVE  Keeps
  <1> USE DEF hw, tcp
  <1>0. rx \in RxType /\ tx \in TxType /\ ip \in IpType /\ web \in WebType
    BY Types DEF Sound
  <1>1. ASSUME rx'.buf = rx.buf, tx'.pkt = tx.pkt, ip'.frame = ip.frame,
               web'.hand = web.hand, web'.seg = web.seg,
               UNCHANGED <<pool, rxq, sentq, sock>>
        PROVE  Keeps
    BY <1>1, SetsBy, StepKeeps
  <1>2. CASE Dma
    <2>1. rx'.buf = rx.buf /\ tx'.pkt = tx.pkt /\ UNCHANGED <<pool, rxq, sentq, sock, ip, web>>
      BY <1>0, <1>2 DEF Dma, DmaReceive, DmaSend, DmaFatal, RxType, TxType
    <2> QED
      BY <1>1, <2>1
  <1>3. CASE Enable
    <2>1. ip'.frame = ip.frame /\ rx'.buf = rx.buf
      BY <1>0, <1>3 DEF Enable, Go, RxType, IpType
    <2>2. UNCHANGED <<pool, tx, rxq, sentq, sock, web>>
      BY <1>3 DEF Enable
    <2> QED
      BY <1>1, <2>1, <2>2
  <1>4. CASE \/ EthIrq \/ Wake \/ ResetByPeer \/ Timer \/ FastRetransmit \/ PickUp
             \/ Deferred \/ BuildEnd \/ UNCHANGED vars
    <2>1. ip'.frame = ip.frame /\ UNCHANGED <<pool, rx, tx, rxq, sentq, sock, web>>
      BY <1>0, <1>4 DEF EthIrq, Interrupt, Wake, ResetByPeer, Timer, FastRetransmit,
         Retransmit, PickUp, Deferred, BuildEnd, Go, Served, vars, IpType
    <2> QED
      BY <1>1, <2>1
  <1>5. CASE WebSuspend \/ WebClosed
    <2>1. /\ web'.hand = web.hand /\ web'.seg = web.seg
          /\ UNCHANGED <<pool, rx, tx, ip, rxq, sentq, sock>>
      BY <1>0, <1>5 DEF WebSuspend, WebClosed, WebGo, WebType
    <2> QED
      BY <1>1, <2>1
  <1> QED
    BY <1>2, <1>3, <1>4, <1>5

(* A packet a thread of the stack or of the application releases.          *)
LEMMA ReleaseKeeps ==
  ASSUME Sound, NEW p \in Packet, NEW r \in {"stack", "app"}, p \in Part(r), p # pool.given,
         r = "app" => ~pool.waits, pool' = Released(pool, p), Others(r, p)
  PROVE  Keeps
  <1>1. Roles(p) /\ pool \in PoolType /\ Hands /\ r \in Abstract!Role
    BY RolesHold, Types DEF Sound, Abstract!Role
  <1>2. p \in StackUse \cup Held \cup Given /\ (r = "stack" <=> p \in StackUse)
    BY <1>1, PartsBy DEF Roles
  <1>3. Users(p) = {r} /\ pool.tag[p] = "allocated"
    BY <1>1, <1>2, PartsBy DEF Roles
  <1> QED
    BY <1>1, <1>3, StepReleases DEF Keeps, Hands

LEMMA FrameKeeps ==
  ASSUME Sound, ip.frame # NoPacket, ip'.frame = NoPacket, pool' = Released(pool, ip.frame),
         web'.hand = web.hand, web'.seg = web.seg,
         UNCHANGED <<rx, tx, rxq, sentq, sock>>
  PROVE  Keeps
  <1>1. PICK w \in [Packet -> Place] : Placed(w)
    BY DEF Sound, Packets
  <1>2. ip.frame \in Packet /\ Roles(ip.frame)
    BY RolesHold, MembersHold DEF Sound, Members
  <1>3. ip.frame \notin Elems(rxq) /\ ip.frame # pool.given
    BY <1>1, <1>2 DEF Placed, Elsewhere, Books, BooksOf
  <1>4. StackUse' = StackUse \ {ip.frame} /\ ip.frame \in StackUse
    BY <1>2, <1>3 DEF StackUse, Elems
  <1>5. ip.frame \in Part("stack") /\ Others("stack", ip.frame)
    BY <1>4, SetsBy DEF Part, Others
  <1> QED
    BY <1>2, <1>3, <1>5, ReleaseKeeps

LEMMA FramesKeep ==
  ASSUME Sound, \/ Discard \/ ResendEnd \/ ResetEnd
                \/ (Queue /\ pool' = Released(pool, ip.frame) /\ UNCHANGED rxq)
  PROVE  Keeps
  <1> USE DEF hw, tcp
  <1>0. ip \in IpType /\ web \in WebType /\ TypeOK /\ Hands
    BY Types DEF Sound
  <1>1. CASE Discard
    <2>1. web'.hand = web.hand /\ web'.seg = web.seg
      <3>1. CASE Resumed
        BY <1>0, <3>1, ResumedKeeps
      <3>2. CASE web' = [web EXCEPT !.pc = "open"]
        BY <1>0, <3>2 DEF WebType
      <3> QED
        BY <1>1, <3>1, <3>2 DEF Discard
    <2>2. /\ ip.frame # NoPacket /\ ip'.frame = NoPacket /\ pool' = Released(pool, ip.frame)
          /\ UNCHANGED <<rx, tx, rxq, sentq, sock>>
      BY <1>0, <1>1 DEF Discard, IpType, Hands
    <2> QED
      BY <2>1, <2>2, FrameKeeps
  <1>2. CASE ResendEnd \/ ResetEnd
    <2>1. web'.hand = web.hand /\ web'.seg = web.seg
      <3>1. CASE Resumed
        BY <1>0, <3>1, ResumedKeeps
      <3>2. CASE web' = [web EXCEPT !.pc = "send"]
        BY <1>0, <3>2 DEF WebType
      <3> QED
        BY <1>2, <3>1, <3>2 DEF ResendEnd, ResetEnd
    <2>2. ip'.frame = NoPacket /\ UNCHANGED <<rx, tx, rxq, sentq, sock>>
      BY <1>0, <1>2 DEF ResendEnd, ResetEnd, IpType
    <2>3. CASE ip.frame = NoPacket
      <3>1. pool' = pool /\ ip'.frame = ip.frame
        BY <1>2, <2>2, <2>3 DEF ResendEnd, ResetEnd, ReleasedFrame
      <3> QED
        BY <2>1, <2>2, <3>1, SetsBy, StepKeeps
    <2>4. CASE ip.frame # NoPacket
      <3>1. pool' = Released(pool, ip.frame)
        BY <1>2, <2>4 DEF ResendEnd, ResetEnd, ReleasedFrame
      <3> QED
        BY <2>1, <2>2, <2>4, <3>1, FrameKeeps
    <2> QED
      BY <2>3, <2>4
  <1>3. CASE Queue /\ pool' = Released(pool, ip.frame) /\ UNCHANGED rxq
    <2>1. ip.frame # NoPacket /\ ip'.frame = NoPacket /\ UNCHANGED <<rx, tx, sentq, sock, web>>
      BY <1>0, <1>3 DEF Queue, IpType
    <2> QED
      BY <1>3, <2>1, FrameKeeps
  <1> QED
    BY <1>1, <1>2, <1>3

(* The web thread gives a packet up.                                       *)
LEMMA HeldKeeps ==
  ASSUME Sound, NEW p \in Held, ~pool.waits, pool' = Released(pool, p), Held' = Held \ {p},
         UNCHANGED <<rx, tx, ip, rxq, sentq>>
  PROVE  Keeps
  <1>1. p \in Packet
    BY MembersHold DEF Sound, Members, Held
  <1>2. Roles(p) /\ p # NoPacket
    BY <1>1, RolesHold, EthAssumption
  <1>3. p \in Part("app") /\ p # pool.given /\ Others("app", p)
    BY <1>2, SetsBy DEF Part, Roles, Given, Others
  <1> QED
    BY <1>1, <1>3, ReleaseKeeps

LEMMA WebReleases ==
  ASSUME Sound, \/ WebRead \/ WebSendFails \/ WebTrim
                \/ (WebFlush /\ sentq = <<>> /\ sock # {})
  PROVE  Keeps
  <1> USE DEF hw, tcp
  <1>0. /\ web \in WebType /\ Hands /\ NoPacket \notin Packet
        /\ sock \subseteq Packet
    BY Types, EthAssumption DEF Sound, QueuesType
  <1>1. /\ \A p \in sock : p \notin {web.hand, web.seg}
        /\ web.hand # NoPacket => web.hand \notin {web.seg} \cup sock
        /\ web.seg # NoPacket => web.seg \notin {web.hand} \cup sock
    BY OnePlaceHolds DEF OnePlace
  <1>2. ASSUME NEW p \in sock, sock' = sock \ {p}, UNCHANGED web
        PROVE  p \in Held /\ Held' = Held \ {p}
    BY <1>0, <1>1, <1>2 DEF Held
  <1>3. ASSUME web.hand # NoPacket, web'.hand = NoPacket, web'.seg = web.seg, sock' = sock
        PROVE  web.hand \in Held /\ Held' = Held \ {web.hand}
    BY <1>0, <1>1, <1>3 DEF Held
  <1>4. ASSUME web.seg # NoPacket, web'.seg = NoPacket, web'.hand = web.hand, sock' = sock
        PROVE  web.seg \in Held /\ Held' = Held \ {web.seg}
    BY <1>0, <1>1, <1>4 DEF Held
  <1>5. web.pc \notin Waits => ~pool.waits
    BY <1>0 DEF Hands, Asked, Waits
  <1>6. CASE WebRead
    <2>1. PICK p \in sock : sock' = sock \ {p} /\ pool' = Released(pool, p)
      BY <1>6 DEF WebRead
    <2>2. ~pool.waits /\ UNCHANGED <<rx, tx, ip, rxq, sentq, web>>
      BY <1>5, <1>6 DEF WebRead, Waits
    <2> QED
      BY <1>2, <2>1, <2>2, HeldKeeps
  <1>7. CASE WebFlush /\ sentq = <<>> /\ sock # {}
    <2>1. PICK p \in sock : sock' = sock \ {p} /\ pool' = Released(pool, p)
      BY <1>7 DEF WebFlush
    <2>2. ~pool.waits /\ UNCHANGED <<rx, tx, ip, rxq, sentq, web>>
      BY <1>5, <1>7 DEF WebFlush, Waits
    <2> QED
      BY <1>2, <2>1, <2>2, HeldKeeps
  <1>8. CASE WebTrim
    <2>1. /\ web.hand # NoPacket /\ web'.hand = NoPacket /\ web'.seg = web.seg
          /\ pool' = Released(pool, web.hand) /\ ~pool.waits
          /\ UNCHANGED <<rx, tx, ip, rxq, sentq, sock>>
      BY <1>0, <1>5, <1>8 DEF WebTrim, Hands, WebType, Waits
    <2> QED
      BY <1>3, <2>1, HeldKeeps
  <1>9. CASE WebSendFails
    <2>1. ~pool.waits /\ UNCHANGED <<rx, tx, ip, rxq, sentq, sock>>
      BY <1>5, <1>9 DEF WebSendFails, Waits
    <2>2. CASE web.pc = "send"
      <3>1. /\ web.hand # NoPacket /\ web'.hand = NoPacket /\ web'.seg = web.seg
            /\ pool' = Released(pool, web.hand)
        BY <1>0, <1>9, <2>2 DEF WebSendFails, Hands, WebType
      <3> QED
        BY <1>3, <2>1, <3>1, HeldKeeps
    <2>3. CASE web.pc = "send_seg"
      <3>1. /\ web.seg # NoPacket /\ web'.seg = NoPacket /\ web'.hand = web.hand
            /\ pool' = Released(pool, web.seg)
        BY <1>0, <1>9, <2>3 DEF WebSendFails, Hands, WebType
      <3> QED
        BY <1>4, <2>1, <3>1, HeldKeeps
    <2> QED
      BY <1>9, <2>2, <2>3 DEF WebSendFails
  <1> QED
    BY <1>6, <1>7, <1>8, <1>9

(* TCP gives up the head of its queue.                                     *)
LEMMA DequeueKeeps ==
  ASSUME Sound, Acked \/ ResetFlush \/ (WebFlush /\ sentq # <<>>)
  PROVE  Keeps
  <1> USE DEF hw, tcp
  <1>1. /\ sentq # <<>> /\ sentq' = Tail(sentq) /\ pool' = Dequeued(pool, Head(sentq))
        /\ UNCHANGED <<rx, tx, ip, rxq, sock, web>>
    BY DEF Acked, ResetFlush, WebFlush
  <1>2. sentq \in Seq(Packet) /\ Distinct(sentq)
    BY Types DEF Sound, QueuesType, Packets, Once
  <1>3. /\ Head(sentq) \in Packet /\ Head(sentq) \in Elems(sentq)
        /\ Elems(Tail(sentq)) = Elems(sentq) \ {Head(sentq)}
    BY <1>1, <1>2, TailElems
  <1>4. Queued = Elems(sentq) /\ Queued' = Elems(Tail(sentq))
    BY <1>1 DEF Queued, Elems
  <1>5. Others("tcp", Head(sentq))
    BY <1>1, <1>3, <1>4, SetsBy DEF Others
  <1> QED
    BY <1>1, <1>3, <1>4, <1>5, StepDequeues DEF Keeps

(* Frames move through the stack, and descriptors get packets.             *)
LEMMA FrameMoves ==
  ASSUME Sound, TakeFrame \/ Deliver \/ (Queue /\ rxq' = Append(rxq, ip.frame) /\ UNCHANGED pool)
  PROVE  Keeps
  <1> USE DEF hw, tcp
  <1>0. /\ ip \in IpType /\ web \in WebType /\ TypeOK /\ Hands /\ rxq \in Seq(Packet)
        /\ Distinct(rxq) /\ NoPacket \notin Packet
    BY Types, EthAssumption DEF Sound, QueuesType, Packets, Once
  <1>1. CASE TakeFrame
    <2>1. ip.frame = NoPacket /\ UNCHANGED <<pool, rx, tx, sentq, sock, web>>
      BY <1>0, <1>1 DEF TakeFrame, Serving, Hands
    <2>2. StackUse' = StackUse
      <3>1. CASE rxq = <<>>
        <4>1. ip'.frame = ip.frame /\ rxq' = rxq
          BY <1>0, <1>1, <3>1 DEF TakeFrame, Served, IpType
        <4> QED
          BY <4>1, SetsBy
      <3>2. CASE rxq # <<>>
        <4>1. ip'.frame = Head(rxq) /\ rxq' = Tail(rxq)
          BY <1>0, <1>1, <3>2 DEF TakeFrame, IpType
        <4>2. Head(rxq) \in Elems(rxq) /\ Elems(Tail(rxq)) = Elems(rxq) \ {Head(rxq)}
          BY <1>0, <3>2, TailElems
        <4>3. StackUse' = ({Head(rxq)} \cup Elems(Tail(rxq))) \ {NoPacket}
          BY <4>1 DEF StackUse, Elems
        <4> QED
          BY <2>1, <4>2, <4>3 DEF StackUse
      <3> QED
        BY <3>1, <3>2
    <2> QED
      BY <2>1, <2>2, SetsBy, StepKeeps
  <1>2. CASE Deliver
    <2>1. ip.frame # NoPacket /\ ip.frame \in Packet /\ Roles(ip.frame)
      BY <1>0, <1>2, MembersHold, RolesHold DEF Deliver, Hands, Members
    <2>2. /\ ip'.frame = NoPacket /\ sock' = sock \cup {ip.frame}
          /\ UNCHANGED <<pool, rx, tx, rxq, sentq>>
      BY <1>0, <1>2 DEF Deliver, IpType
    <2>3. web'.hand = web.hand /\ web'.seg = web.seg
      BY <1>0, <1>2, ResumedKeeps DEF Deliver
    <2>4. Held' = Held \cup {ip.frame}
      BY <2>2, <2>3 DEF Held
    <2>5. ip.frame \notin Elems(rxq)
      BY OnePlaceHolds, <2>1 DEF OnePlace, Elems
    <2>6. StackUse' = StackUse \ {ip.frame} /\ ip.frame \in StackUse
      BY <1>0, <2>1, <2>2, <2>5 DEF StackUse, Elems
    <2>7. \A t \in Abstract!Role :
            Part(t)' = IF t = "stack" THEN Part(t) \ {ip.frame}
                       ELSE IF t = "app" THEN Part(t) \cup {ip.frame} ELSE Part(t)
      <3>1. UNCHANGED <<RxUse, Queued, InRing, Given>>
        BY <2>2, SetsBy
      <3> QED
        BY <2>4, <2>6, <3>1, PartsBy, PartsByThen
    <2>8. Users(ip.frame) = {"stack"} /\ {"stack", "app"} \subseteq Abstract!Role
      BY <2>1, <2>6 DEF Roles, Abstract!Role
    <2> QED
      BY <2>1, <2>2, <2>7, <2>8, StepPasses DEF Keeps
  <1>3. CASE Queue /\ rxq' = Append(rxq, ip.frame) /\ UNCHANGED pool
    <2>1. /\ ip.frame # NoPacket /\ ip.frame \in Packet /\ ip'.frame = NoPacket
          /\ UNCHANGED <<rx, tx, sentq, sock, web>>
      BY <1>0, <1>3, MembersHold DEF Queue, IpType, Members
    <2>2. ip.frame \notin Elems(rxq)
      BY OnePlaceHolds, <2>1 DEF OnePlace, Elems
    <2>3. Elems(Append(rxq, ip.frame)) = Elems(rxq) \cup {ip.frame}
      BY <1>0, <2>1, <2>2, AppendElems
    <2>4. StackUse' = ({NoPacket} \cup Elems(Append(rxq, ip.frame))) \ {NoPacket}
      BY <1>3, <2>1 DEF StackUse, Elems
    <2>5. StackUse' = StackUse
      BY <2>1, <2>3, <2>4 DEF StackUse
    <2> QED
      BY <1>3, <2>1, <2>5, SetsBy, StepKeeps
  <1> QED
    BY <1>1, <1>2, <1>3

LEMMA ReadKeeps ==
  ASSUME Sound, Read
  PROVE  Keeps
  <1> USE DEF hw, tcp
  <1>0. /\ ip \in IpType /\ rx \in RxType /\ Hands /\ RxOnce
    BY Types DEF Sound, Packets, Once
  <1>1. UNCHANGED <<pool, tx, rxq, sentq, sock, web>>
    BY DEF Read
  <1>2. ip.frame = NoPacket
    BY <1>0 DEF Read, Hands
  <1>3. CASE eth = "up" /\ Filled /\ rx.buf[rx.idx] # NoPacket
    <2> DEFINE p == rx.buf[rx.idx]
    <2>1. p \in Packet /\ p # NoPacket /\ rx.idx \in RxSlot
      BY <1>0, <1>3 DEF RxType, PacketOrNull
    <2>2. ip'.frame = p /\ rx'.buf = [rx.buf EXCEPT ![rx.idx] = NoPacket]
      BY <1>0, <1>3 DEF Read, IpType, RxType
    <2>3. RxUse' = RxUse \ {p} /\ p \in RxUse
      <3>1. \A i \in RxSlot : rx'.buf[i] = IF i = rx.idx THEN NoPacket ELSE rx.buf[i]
        BY <1>0, <2>2 DEF RxType
      <3>2. \A i \in RxSlot : rx.buf[i] = p => i = rx.idx
        BY <2>1 , <1>0 DEF RxOnce
      <3> QED
        BY <2>1, <3>1, <3>2 DEF RxUse
    <2>4. Roles(p)
      BY <2>1, RolesHold
    <2>5. StackUse' = StackUse \cup {p}
      BY <1>1, <1>2, <2>1, <2>2 DEF StackUse, Elems
    <2> HIDE DEF p
    <2>6. \A t \in Abstract!Role :
            Part(t)' = IF t = "rx" THEN Part(t) \ {p}
                       ELSE IF t = "stack" THEN Part(t) \cup {p} ELSE Part(t)
      <3>1. UNCHANGED <<Held, Queued, InRing, Given>>
        BY <1>1, SetsBy
      <3> QED
        BY <2>3, <2>5, <3>1, PartsBy, PartsByThen
    <2>7. Users(p) = {"rx"} /\ {"rx", "stack"} \subseteq Abstract!Role
      BY <2>3, <2>4 DEF Roles, Abstract!Role
    <2> QED
      BY <1>1, <2>1, <2>6, <2>7, StepPasses DEF Keeps
  <1>4. CASE ~(eth = "up" /\ Filled /\ rx.buf[rx.idx] # NoPacket)
    <2>1. ip'.frame = ip.frame /\ rx'.buf = rx.buf
      <3>1. CASE eth = "up" /\ Filled
        <4>1. rx'.buf = [rx.buf EXCEPT ![rx.idx] = NoPacket] /\ rx.buf[rx.idx] = NoPacket
              /\ ip'.frame = rx.buf[rx.idx]
          BY <1>0, <1>4, <3>1 DEF Read, RxType, IpType
        <4> QED
          BY <1>0, <1>2, <4>1 DEF RxType
      <3>2. CASE ~(eth = "up" /\ Filled)
        BY <1>0, <3>2 DEF Read, Go, Served, IpType
      <3> QED
        BY <3>1, <3>2
    <2> QED
      BY <1>1, <2>1, SetsBy, StepKeeps
  <1> QED
    BY <1>3, <1>4

LEMMA BuildKeeps ==
  ASSUME Sound, Build
  PROVE  Keeps
  <1> USE DEF hw, tcp
  <1>0. /\ rx \in RxType /\ pool \in PoolType /\ NoPacket \notin Packet
        /\ ip.pc = "build" /\ rx.bcnt > 0
    BY Types, EthAssumption DEF Sound, Build
  <1>1. PICK p \in pool.free :
          /\ pool' = Allocated(pool, p)
          /\ rx' = [rx EXCEPT !.buf[rx.bidx] = p, !.own[rx.bidx] = TRUE,
                              !.bidx = NextRx(@), !.bcnt = @ - 1]
    BY DEF Build
  <1>2. /\ p \in Packet /\ p # NoPacket /\ rx.bidx \in RxSlot
        /\ pool'.free = pool.free \ {p} /\ pool'.given = pool.given
        /\ rx'.buf = [rx.buf EXCEPT ![rx.bidx] = p]
        /\ UNCHANGED <<tx, ip, rxq, sentq, sock, web>>
    <2>1. p \in Packet /\ p # NoPacket
      BY <1>0 DEF PoolType
    <2>2. pool'.free = pool.free \ {p} /\ pool'.given = pool.given
      BY <1>0, <1>1 DEF Allocated, PoolType
    <2>3. rx.bidx \in RxSlot /\ rx'.buf = [rx.buf EXCEPT ![rx.bidx] = p]
      BY <1>0, <1>1 DEF RxType
    <2>4. UNCHANGED <<tx, ip, rxq, sentq, sock, web>>
      BY DEF Build
    <2> QED
      BY <2>1, <2>2, <2>3, <2>4
  <1>3. rx.buf[rx.bidx] = NoPacket
    <2>1. PICK f \in 0..RxCount : \E c \in 0..RxCount : RxRing(f, c)
      BY <1>0 DEF Sound, RxSound
    <2>2. PICK c \in 0..RxCount : RxRing(f, c)
      BY <2>1
    <2>3. InWindow(rx.bidx, rx.bidx, rx.bcnt, RxCount)
      <3>1. rx.bcnt \in 0..RxCount
        BY <1>0 DEF RxType
      <3>2. rx.bcnt \in 1..RxCount
        BY <1>0, <3>1, EthAssumption
      <3> QED
        BY <1>2, <3>2, RxWindow
    <2> QED
      BY <1>2, <2>2, <2>3 DEF RxRing
  <1>4. RxUse' = RxUse \cup {p}
    <2>1. \A i \in RxSlot : rx'.buf[i] = IF i = rx.bidx THEN p ELSE rx.buf[i]
      BY <1>0, <1>2 DEF RxType
    <2> QED
      BY <1>2, <1>3, <2>1 DEF RxUse
  <1>5. \A t \in Abstract!Role : Part(t)' = IF t = "rx" THEN Part(t) \cup {p} ELSE Part(t)
    <2>1. UNCHANGED <<StackUse, Held, Queued, InRing, Given>>
      BY <1>2, SetsBy
    <2> QED
      BY <1>4, <2>1, PartsBy, PartsByThen
  <1>6. "rx" \in Abstract!Role
    BY DEF Abstract!Role
  <1> QED
    BY <1>1, <1>2, <1>5, <1>6, StepAllocates DEF Keeps

(* The web thread asks for a packet, and picks one up.                     *)
LEMMA AskKeeps ==
  ASSUME Sound, WebChunk \/ WebSplit \/ WebGiven
  PROVE  Keeps
  <1> USE DEF hw, tcp
  <1>0. /\ web \in WebType /\ pool \in PoolType /\ Hands /\ NoPacket \notin Packet
        /\ "app" \in Abstract!Role
    BY Types, EthAssumption DEF Sound, Abstract!Role
  <1>1. UNCHANGED <<rx, tx, ip, rxq, sentq, sock>>
    BY DEF WebChunk, WebSplit, WebGiven
  <1>2. ASSUME NEW p \in pool.free, pool' = Allocated(pool, p), Held' = Held \cup {p}
        PROVE  Keeps
    <2>1. /\ p \in Packet /\ pool'.free = pool.free \ {p} /\ pool'.given = pool.given
      BY <1>0, <1>2 DEF Allocated, PoolType
    <2>2. \A t \in Abstract!Role : Part(t)' = IF t = "app" THEN Part(t) \cup {p} ELSE Part(t)
      <3>1. UNCHANGED <<RxUse, StackUse, Queued, InRing, Given>>
        BY <1>1, <2>1, SetsBy
      <3> QED
        BY <1>2, <3>1, PartsBy, PartsByThen
    <2> QED
      BY <1>0, <2>1, <2>2, StepAllocates DEF Keeps
  <1>3. ASSUME pool' = [pool EXCEPT !.waits = TRUE], web'.hand = web.hand, web'.seg = web.seg
        PROVE  Keeps
    <2>1. pool'.free = pool.free /\ pool'.given = pool.given
      BY <1>0, <1>3 DEF PoolType
    <2> QED
      BY <1>1, <1>3, <2>1, SetsBy, StepKeeps
  <1>4. CASE WebChunk
    <2>1. web.hand = NoPacket
      BY <1>0, <1>4 DEF WebChunk, Hands
    <2>2. CASE pool.free # {}
      <3>1. PICK p \in pool.free :
              pool' = Allocated(pool, p) /\ web' = [web EXCEPT !.pc = "send", !.hand = p]
        BY <1>4, <2>2, Zenon DEF WebChunk, AllocateWaiting
      <3>2. web'.hand = p /\ web'.seg = web.seg /\ p # NoPacket
        BY <1>0, <3>1 DEF WebType, PoolType
      <3>3. Held' = Held \cup {p}
        BY <1>1, <2>1, <3>2 DEF Held
      <3> QED
        BY <1>2, <3>1, <3>3
    <2>3. CASE pool.free = {}
      <3>1. pool' = [pool EXCEPT !.waits = TRUE] /\ web' = [web EXCEPT !.pc = "pool"]
        BY <1>4, <2>3 DEF WebChunk, AllocateWaiting, WebGo
      <3> QED
        BY <1>0, <1>3, <3>1 DEF WebType
    <2> QED
      BY <2>2, <2>3
  <1>5. CASE WebSplit
    <2>1. web.seg = NoPacket
      BY <1>0, <1>5 DEF WebSplit, Hands
    <2>2. CASE pool.free # {}
      <3>1. PICK p \in pool.free :
              pool' = Allocated(pool, p) /\ web' = [web EXCEPT !.pc = "send_seg", !.seg = p]
        BY <1>5, <2>2 DEF WebSplit, AllocateWaiting
      <3>2. web'.seg = p /\ web'.hand = web.hand /\ p # NoPacket
        BY <1>0, <3>1 DEF WebType, PoolType
      <3>3. Held' = Held \cup {p}
        BY <1>1, <2>1, <3>2 DEF Held
      <3> QED
        BY <1>2, <3>1, <3>3
    <2>3. CASE pool.free = {}
      <3>1. pool' = [pool EXCEPT !.waits = TRUE] /\ web' = [web EXCEPT !.pc = "pool_seg"]
        BY <1>5, <2>3 DEF WebSplit, AllocateWaiting, WebGo
      <3> QED
        BY <1>0, <1>3, <3>1 DEF WebType
    <2> QED
      BY <2>2, <2>3
  <1>6. CASE WebGiven
    <2>1. pool'.free = pool.free /\ pool'.given = NoPacket
      BY <1>0, <1>6 DEF WebGiven, PoolType
    <2>2. CASE web.pc = "pool"
      <3>1. web'.hand = pool.given /\ web'.seg = web.seg /\ web.hand = NoPacket
        BY <1>0, <1>6, <2>2 DEF WebGiven, WebType, Hands
      <3>2. Held' \cup Given' = Held \cup Given
        BY <1>1, <2>1, <3>1 DEF Held, Given
      <3> QED
        BY <1>1, <2>1, <3>2, SetsBy, StepKeeps
    <2>3. CASE web.pc = "pool_seg"
      <3>1. web'.seg = pool.given /\ web'.hand = web.hand /\ web.seg = NoPacket
        BY <1>0, <1>6, <2>3 DEF WebGiven, WebType, Hands
      <3>2. Held' \cup Given' = Held \cup Given
        BY <1>1, <2>1, <3>1 DEF Held, Given
      <3> QED
        BY <1>1, <2>1, <3>2, SetsBy, StepKeeps
    <2> QED
      BY <1>6, <2>2, <2>3 DEF WebGiven
  <1> QED
    BY <1>4, <1>5, <1>6

(* A packet is built and handed to the driver, or given up at once.        *)
LEMMA BuiltKeeps ==
  ASSUME Sound, NEW p \in pool.free, PacketSend(Allocated(pool, p), p),
         web'.hand = web.hand, web'.seg = web.seg, ip'.frame = ip.frame,
         UNCHANGED <<rx, rxq, sentq, sock>>
  PROVE  Keeps
  <1> DEFINE q == Allocated(pool, p)
  <1>0. /\ pool \in PoolType /\ tx \in TxType /\ TypeOK /\ TxOnce /\ NoPacket \notin Packet
        /\ p \in Packet /\ Hands
    BY Types, EthAssumption DEF Sound, Packets, Once, PoolType
  <1>1. /\ q \in PoolType /\ q.free = pool.free \ {p} /\ q.given = pool.given
        /\ q.waits = pool.waits /\ q.tag[p] = "allocated"
    BY <1>0 DEF Allocated, PoolType
  <1>2. PacketSend(q, p)
    OBVIOUS
  <1> HIDE DEF q
  <1>3. UNCHANGED <<RxUse, StackUse, Held, Queued>>
    BY SetsBy
  <1>4. CASE TxReady
    <2>1. p \notin InRing
      BY <1>0 DEF Sound, Packets, Placed, Books, BooksOf
    <2>2. InRing' = InRing \cup {p} /\ pool' = q
      BY <1>0, <1>2, <1>4, <2>1, RingPut DEF PacketSend, TxReady
    <2>3. Given' = Given
      BY <1>1, <2>2, SetsBy
    <2>4. \A t \in Abstract!Role : Part(t)' = IF t = "driver" THEN Part(t) \cup {p} ELSE Part(t)
      BY <1>3, <2>2, <2>3, PartsBy, PartsByThen
    <2>5. "driver" \in Abstract!Role
      BY DEF Abstract!Role
    <2> QED
      BY <1>0, <1>1, <2>2, <2>4, <2>5, StepAllocates DEF Keeps
  <1>5. CASE ~TxReady
    <2>1. pool' = Released(q, p) /\ UNCHANGED tx
      BY <1>1, <1>2, <1>5 DEF PacketSend, TransmitReleased
    <2>2. UNCHANGED InRing
      BY <2>1, SetsBy
    <2>3. CASE pool.waits
      <3>1. pool'.free = pool.free \ {p} /\ pool'.given = p
        BY <1>1, <2>1, <2>3 DEF Released, PoolType
      <3>2. Given = {} /\ Given' = {p}
        BY <1>0, <2>3, <3>1 DEF Given, Hands
      <3>3. \A t \in Abstract!Role : Part(t)' = IF t = "app" THEN Part(t) \cup {p} ELSE Part(t)
        BY <1>3, <2>2, <3>2, PartsBy, PartsByThen
      <3>4. "app" \in Abstract!Role
        BY DEF Abstract!Role
      <3> QED
        BY <1>0, <3>1, <3>3, <3>4, StepAllocates DEF Keeps
    <2>4. CASE ~pool.waits
      <3>1. pool'.free = pool.free /\ pool'.given = pool.given
        BY <1>1, <2>1, <2>4 DEF Released, PoolType
      <3> QED
        BY <1>3, <2>2, <3>1, SetsBy, StepKeeps
    <2> QED
      BY <2>3, <2>4
  <1> QED
    BY <1>4, <1>5

LEMMA RepliesKeep ==
  ASSUME Sound, Reply \/ Probe \/ WebClose
  PROVE  Keeps
  <1> USE DEF hw, tcp
  <1>0. ip \in IpType /\ web \in WebType
    BY Types DEF Sound
  <1>1. /\ ip'.frame = ip.frame /\ web'.hand = web.hand /\ web'.seg = web.seg
        /\ UNCHANGED <<rx, rxq, sentq, sock>>
    BY <1>0 DEF Reply, Probe, WebClose, Go, WebGo, IpType, WebType
  <1>2. CASE UNCHANGED <<pool, tx>>
    BY <1>1, <1>2, SetsBy, StepKeeps
  <1>3. CASE \E p \in pool.free : PacketSend(Allocated(pool, p), p)
    BY <1>1, <1>3, BuiltKeeps
  <1> QED
    BY <1>2, <1>3 DEF Reply, Probe, WebClose

(* TCP keeps a packet of the web thread and hands it to the driver.        *)
LEMMA EnqueueKeeps ==
  ASSUME Sound, NEW p \in Held, Held' = Held \ {p}, sentq' = Append(sentq, p),
         PacketSend([pool EXCEPT !.tag[p] = "enqueued"], p),
         UNCHANGED <<rx, ip, rxq>>
  PROVE  Keeps
  <1> DEFINE q == [pool EXCEPT !.tag[p] = "enqueued"]
  <1>0. /\ pool \in PoolType /\ tx \in TxType /\ TypeOK /\ TxOnce /\ NoPacket \notin Packet
        /\ sentq \in Seq(Packet) /\ Distinct(sentq) /\ p \in Packet
    BY Types, EthAssumption, MembersHold
       DEF Sound, Packets, Once, QueuesType, Members, Held
  <1>1. Roles(p) /\ Users(p) = {"app"}
    BY <1>0, RolesHold DEF Roles
  <1>2. p \notin Queued /\ p \notin InRing /\ p \notin Given
    <2>1. "tcp" # "app" /\ "driver" # "app"
      OBVIOUS
    <2>2. p \notin Queued
      BY <1>1, <2>1 DEF Roles
    <2>3. p \notin InRing
      BY <1>1, <2>1, <2>2 DEF Roles
    <2> QED
      BY <1>1, <2>2, <2>3 DEF Roles
  <1>3. /\ q \in PoolType /\ q.free = pool.free /\ q.given = pool.given /\ q.tag[p] = "enqueued"
    BY <1>0 DEF PoolType
  <1>4. PacketSend(q, p)
    OBVIOUS
  <1> HIDE DEF q
  <1>5. Queued' = Queued \cup {p}
    <2>1. Queued = Elems(sentq) /\ Queued' = Elems(Append(sentq, p))
      BY DEF Queued, Elems
    <2> QED
      BY <1>0, <1>2, <2>1, AppendElems
  <1>6. UNCHANGED <<RxUse, StackUse>>
    BY SetsBy
  <1>7. CASE TxReady
    <2>1. InRing' = InRing \cup {p} /\ pool' = q
      BY <1>0, <1>2, <1>4, <1>7, RingPut DEF PacketSend, TxReady
    <2>2. Given' = Given /\ pool'.free = pool.free
      BY <1>3, <2>1, SetsBy
    <2>3. \A t \in Abstract!Role :
            Part(t)' = IF t = "app" THEN Part(t) \ {p}
                       ELSE IF t \in {"tcp", "driver"} THEN Part(t) \cup {p} ELSE Part(t)
      BY <1>2, <1>5, <1>6, <2>1, <2>2, PartsBy, PartsByThen
    <2> QED
      BY <1>0, <1>1, <2>2, <2>3, StepSends DEF Keeps
  <1>8. CASE ~TxReady
    <2>1. pool' = [q EXCEPT !.done[p] = TRUE] /\ UNCHANGED tx
      BY <1>3, <1>4, <1>8 DEF PacketSend, TransmitReleased
    <2>2. pool'.free = pool.free /\ pool'.given = pool.given
      BY <1>3, <2>1 DEF PoolType
    <2>3. InRing' = InRing /\ Given' = Given
      BY <2>1, <2>2, SetsBy
    <2>4. \A t \in Abstract!Role :
            Part(t)' = IF t = "app" THEN Part(t) \ {p}
                       ELSE IF t = "tcp" THEN Part(t) \cup {p} ELSE Part(t)
      BY <1>2, <1>5, <1>6, <2>3, PartsBy, PartsByThen
    <2>5. "app" \in Abstract!Role /\ "tcp" \in Abstract!Role
      BY DEF Abstract!Role
    <2> QED
      BY <1>0, <1>1, <2>2, <2>4, <2>5, StepPasses DEF Keeps
  <1> QED
    BY <1>7, <1>8

LEMMA SendsKeep ==
  ASSUME Sound, WebSend \/ WebSendSeg
  PROVE  Keeps
  <1> USE DEF hw, tcp
  <1>0. /\ web \in WebType /\ Hands /\ NoPacket \notin Packet /\ sock \subseteq Packet
    BY Types, EthAssumption DEF Sound, QueuesType
  <1>1. /\ web.hand # NoPacket => web.hand \notin {web.seg} \cup sock
        /\ web.seg # NoPacket => web.seg \notin {web.hand} \cup sock
    BY OnePlaceHolds DEF OnePlace
  <1>2. CASE WebSend
    <2>1. /\ web.hand # NoPacket /\ web'.hand = NoPacket /\ web'.seg = web.seg
          /\ sentq' = Append(sentq, web.hand)
          /\ PacketSend([pool EXCEPT !.tag[web.hand] = "enqueued"], web.hand)
          /\ UNCHANGED <<rx, ip, rxq, sock>>
      BY <1>0, <1>2 DEF WebSend, Enqueue, Hands, WebType
    <2>2. web.hand \in Held /\ Held' = Held \ {web.hand}
      BY <1>0, <1>1, <2>1 DEF Held
    <2> QED
      BY <2>1, <2>2, EnqueueKeeps
  <1>3. CASE WebSendSeg
    <2>1. /\ web.seg # NoPacket /\ web'.seg = NoPacket /\ web'.hand = web.hand
          /\ sentq' = Append(sentq, web.seg)
          /\ PacketSend([pool EXCEPT !.tag[web.seg] = "enqueued"], web.seg)
          /\ UNCHANGED <<rx, ip, rxq, sock>>
      BY <1>0, <1>3 DEF WebSendSeg, Enqueue, Hands, WebType
    <2>2. web.seg \in Held /\ Held' = Held \ {web.seg}
      BY <1>0, <1>1, <2>1 DEF Held
    <2> QED
      BY <2>1, <2>2, EnqueueKeeps
  <1> QED
    BY <1>2, <1>3

(* A packet of TCP's queue is transmitted again.                           *)
LEMMA ResendKeeps ==
  ASSUME Sound, Resend
  PROVE  Keeps
  <1> USE DEF hw, tcp
  <1> DEFINE p == sentq[ip.pos]
             q == [pool EXCEPT !.done[p] = FALSE]
  <1>0. /\ pool \in PoolType /\ tx \in TxType /\ TypeOK /\ TxOnce /\ ip \in IpType
        /\ QueuesType
    BY Types DEF Sound, Packets, Once
  <1>1. p \in Packet /\ p \in Queued /\ pool.done[p]
    BY <1>0 DEF Resend, QueuesType, IpType, Queued
  <1>2. /\ ip'.frame = ip.frame /\ UNCHANGED <<rx, rxq, sentq, sock, web>> /\ PacketSend(q, p)
    BY <1>0 DEF Resend, IpType
  <1>3. q \in PoolType /\ q.free = pool.free /\ q.given = pool.given /\ q.tag = pool.tag
    BY <1>0, <1>1 DEF PoolType
  <1> HIDE DEF p, q
  <1>4. p \notin InRing /\ pool.tag[p] = "enqueued"
    BY <1>1 DEF Sound, Packets, Placed, Books, BooksOf
  <1>5. Users(p) = {"tcp"}
    BY <1>1, <1>4, RolesHold DEF Roles
  <1>6. UNCHANGED <<RxUse, StackUse, Held, Queued>>
    BY <1>2, SetsBy
  <1>7. CASE TxReady
    <2>1. InRing' = InRing \cup {p} /\ pool' = q
      BY <1>0, <1>1, <1>2, <1>4, <1>7, RingPut DEF PacketSend, TxReady
    <2>2. Given' = Given /\ pool'.free = pool.free
      BY <1>3, <2>1, SetsBy
    <2>3. \A t \in Abstract!Role : Part(t)' = IF t = "driver" THEN Part(t) \cup {p} ELSE Part(t)
      BY <1>6, <2>1, <2>2, PartsBy, PartsByThen
    <2> QED
      BY <1>1, <1>5, <2>2, <2>3, StepResends DEF Keeps
  <1>8. CASE ~TxReady
    <2>1. pool' = [q EXCEPT !.done[p] = TRUE] /\ UNCHANGED tx
      BY <1>2, <1>3, <1>4, <1>8 DEF PacketSend, TransmitReleased
    <2>2. pool'.free = pool.free /\ pool'.given = pool.given
      BY <1>3, <2>1 DEF PoolType
    <2> QED
      BY <1>6, <2>1, <2>2, SetsBy, StepKeeps
  <1> QED
    BY <1>7, <1>8

(* The driver gives up a packet that has been sent.                        *)
LEMMA TxFreeKeeps ==
  ASSUME Sound, TxFree
  PROVE  Keeps
  <1> USE DEF hw, tcp
  <1> DEFINE p == tx.pkt[tx.rel]
  <1>0. /\ pool \in PoolType /\ tx \in TxType /\ TypeOK /\ TxOnce /\ Hands
    BY Types DEF Sound, Packets, Once
  <1>1. p \in Packet /\ p \in InRing /\ p # NoPacket /\ tx.rel \in TxSlot
    BY <1>0 DEF TxFree, Transmitted, TxType, PacketOrNull, InRing
  <1>2. pool' = TransmitReleased(pool, p) /\ UNCHANGED <<rx, ip, rxq, sentq, sock, web>>
    BY DEF TxFree
  <1>3. InRing' = InRing \ {p}
    <2>1. tx'.pkt = [tx.pkt EXCEPT ![tx.rel] = NoPacket]
      BY <1>0 DEF TxFree, TxType
    <2> QED
      BY <1>0, <1>1, <2>1, RingTake
  <1> HIDE DEF p
  <1>4. Roles(p) /\ "driver" \in Abstract!Role
    BY <1>1, RolesHold DEF Abstract!Role
  <1>5. UNCHANGED <<RxUse, StackUse, Held, Queued>>
    BY <1>2, SetsBy
  <1>6. pool.tag[p] = "enqueued" <=> p \in Queued
    BY <1>1 DEF Sound, Packets, Placed, Books, BooksOf
  <1>7. CASE p \in Queued
    <2>1. pool' = [pool EXCEPT !.done[p] = TRUE]
      BY <1>2, <1>6, <1>7 DEF TransmitReleased
    <2>2. pool'.free = pool.free /\ pool'.given = pool.given
      BY <1>0, <2>1 DEF PoolType
    <2>3. Users(p) = {"tcp", "driver"}
      BY <1>1, <1>4, <1>7 DEF Roles
    <2>4. Given' = Given
      BY <2>2, SetsBy
    <2>5. \A t \in Abstract!Role : Part(t)' = IF t = "driver" THEN Part(t) \ {p} ELSE Part(t)
      BY <1>3, <1>5, <2>4, PartsBy, PartsByThen
    <2>6. "driver" \in Users(p) /\ Users(p) # {"driver"}
      BY <2>3
    <2> QED
      BY <1>1, <1>4, <2>2, <2>5, <2>6, StepDrops DEF Keeps
  <1>8. CASE p \notin Queued
    <2>1. Users(p) = {"driver"} /\ pool.tag[p] = "allocated"
      BY <1>1, <1>4, <1>8 DEF Roles
    <2>2. pool' = Released(pool, p)
      BY <1>2, <2>1 DEF TransmitReleased
    <2>3. Others("driver", p)
      BY <1>3, <1>5 DEF Others
    <2> QED
      BY <1>0, <1>1, <1>4, <2>1, <2>2, <2>3, StepReleases DEF Keeps, Hands
  <1> QED
    BY <1>7, <1>8

-----------------------------------------------------------------------------
(* The driver, NetX and the web thread keep the promise of the packet      *)
(* pool: a packet leaves the pool for one user, is handed on by its only   *)
(* user, and returns exactly when its last user gives it up.               *)
THEOREM PoolPromise == Spec => Implements
  <1>1. Init => Abstract!Init
    <2> SUFFICES ASSUME Init PROVE Abstract!Init
      OBVIOUS
    <2>1. pool.free = Packet /\ pool.given = NoPacket
      BY DEF Init
    <2>2. /\ RxUse = {} /\ StackUse = {} /\ Held = {} /\ Given = {} /\ Queued = {} /\ InRing = {}
      BY DEF Init, RxUse, StackUse, Elems, Held, Given, Queued, InRing
    <2>3. \A r \in Abstract!Role : Part(r) = {}
      BY <2>2, PartsBy
    <2>4. Uses = [r \in Abstract!Role |-> {}]
      BY <2>3, UsesParts
    <2> QED
      BY <2>1, <2>4 DEF Abstract!Init
  <1>2. Sound /\ [Next]_vars => [Abstract!Next]_Abstract!poolVars
    <2> SUFFICES ASSUME Sound, Next \/ UNCHANGED vars PROVE Keeps
      BY DEF Keeps
    <2>1. CASE Queue
      BY <2>1, FramesKeep, FrameMoves DEF Queue
    <2>2. CASE WebFlush
      <3>1. CASE sentq = <<>> /\ sock = {}
        <4>1. web' = [web EXCEPT !.pc = "listen"] /\ web \in WebType
          BY <2>2, <3>1, Types DEF WebFlush, WebGo, Sound
        <4>2. web'.hand = web.hand /\ web'.seg = web.seg
          BY <4>1 DEF WebType
        <4>3. UNCHANGED <<pool, rx, tx, ip, rxq, sentq, sock>>
          BY <2>2, <3>1 DEF WebFlush
        <4> QED
          BY <4>2, <4>3, SetsBy, StepKeeps
      <3> QED
        BY <2>2, <3>1, DequeueKeeps, WebReleases
    <2> QED
      BY <2>1, <2>2, QuietKeep, FramesKeep, WebReleases, DequeueKeeps, FrameMoves, ReadKeeps,
         BuildKeeps, AskKeeps, RepliesKeep, SendsKeep, ResendKeeps, TxFreeKeeps
         DEF Next, IpThread, WebThread
  <1> QED
    BY <1>1, <1>2, SoundHolds, PTL DEF Spec, Implements, Abstract!Spec

-----------------------------------------------------------------------------
(* What the promise amounts to. One step of the abstract pool changes the  *)
(* users of one packet.                                                    *)
Lone(U) == U = {"tcp", "driver"} \/ \E r \in Abstract!Role : U \subseteq {r}

Accounted(p) ==
  /\ p \in pool.free <=> Abstract!Users(p) = {}
  /\ Lone(Abstract!Users(p))

LEMMA AccountedNext ==
  ASSUME \A p \in Packet : Accounted(p), pool.free \subseteq Packet,
         Uses \in [Abstract!Role -> SUBSET Packet],
         Abstract!Next \/ UNCHANGED Abstract!poolVars
  PROVE  /\ (\A p \in Packet : Accounted(p))' /\ pool'.free \subseteq Packet
         /\ Uses' \in [Abstract!Role -> SUBSET Packet]
  <1>0. {"tcp", "driver", "app"} \subseteq Abstract!Role
    BY DEF Abstract!Role
  <1> HIDE DEF Abstract!Role
  <1>1. CASE UNCHANGED Abstract!poolVars
    BY <1>1 DEF Abstract!poolVars, Accounted, Abstract!Users
  <1>2. CASE Abstract!Next /\ ~UNCHANGED Abstract!poolVars
    <2>1. PICK p \in Packet :
            \/ Abstract!Send(p) \/ Abstract!Resend(p)
            \/ \E r \in Abstract!Role : Abstract!Allocate(p, r)
            \/ \E r \in Abstract!Users(p) :
                 Abstract!Drop(p, r) \/ \E s \in Abstract!Role : Abstract!Pass(p, r, s)
      BY <1>2 DEF Abstract!Next
    <2>2. ASSUME NEW U, Abstract!Users(p)' = U, Lone(U), pool'.free \subseteq Packet,
                 p \in pool'.free <=> U = {},
                 Uses' \in [Abstract!Role -> SUBSET Packet],
                 \A x \in Packet \ {p} : /\ x \in pool'.free <=> x \in pool.free
                                         /\ Abstract!Users(x)' = Abstract!Users(x)
          PROVE  /\ (\A x \in Packet : Accounted(x))' /\ pool'.free \subseteq Packet
                 /\ Uses' \in [Abstract!Role -> SUBSET Packet]
      BY <2>2 DEF Accounted
    <2>3. Accounted(p) /\ Abstract!Users(p) \subseteq Abstract!Role
      BY DEF Abstract!Users
    <2>4. CASE Abstract!Send(p)
      <3>1. /\ Abstract!Users(p)' = {"tcp", "driver"}
            /\ \A x \in Packet \ {p} : Abstract!Users(x)' = Abstract!Users(x)
            /\ Uses' \in [Abstract!Role -> SUBSET Packet]
        BY <1>0, <2>4 DEF Abstract!Send, Abstract!Users
      <3>2. pool'.free = pool.free /\ p \notin pool.free
        BY <2>3, <2>4 DEF Abstract!Send, Accounted
      <3> QED
        BY <2>2, <3>1, <3>2 DEF Lone
    <2>5. CASE Abstract!Resend(p)
      <3>1. /\ Abstract!Users(p)' = {"tcp", "driver"}
            /\ \A x \in Packet \ {p} : Abstract!Users(x)' = Abstract!Users(x)
            /\ Uses' \in [Abstract!Role -> SUBSET Packet]
        BY <1>0, <2>5 DEF Abstract!Resend, Abstract!Users
      <3>2. pool'.free = pool.free /\ p \notin pool.free
        BY <2>3, <2>5 DEF Abstract!Resend, Accounted
      <3> QED
        BY <2>2, <3>1, <3>2 DEF Lone
    <2>6. ASSUME NEW r \in Abstract!Role, Abstract!Allocate(p, r)
          PROVE  /\ (\A x \in Packet : Accounted(x))' /\ pool'.free \subseteq Packet
                 /\ Uses' \in [Abstract!Role -> SUBSET Packet]
      <3>1. /\ \A x \in Packet \ {p} : Abstract!Users(x)' = Abstract!Users(x)
            /\ Abstract!Users(p)' = Abstract!Users(p) \cup {r}
            /\ Uses' \in [Abstract!Role -> SUBSET Packet]
        BY <2>6 DEF Abstract!Allocate, Abstract!Users
      <3>2. pool'.free = pool.free \ {p} /\ Abstract!Users(p) = {}
        BY <2>3, <2>6 DEF Abstract!Allocate, Accounted
      <3>3. Lone({r}) /\ Abstract!Users(p)' = {r}
        BY <3>1, <3>2 DEF Lone
      <3> QED
        BY <2>2, <3>1, <3>2, <3>3
    <2>7. ASSUME NEW r \in Abstract!Users(p), Abstract!Drop(p, r)
          PROVE  /\ (\A x \in Packet : Accounted(x))' /\ pool'.free \subseteq Packet
                 /\ Uses' \in [Abstract!Role -> SUBSET Packet]
      <3>1. /\ \A x \in Packet \ {p} : Abstract!Users(x)' = Abstract!Users(x)
            /\ Abstract!Users(p)' = Abstract!Users(p) \ {r}
            /\ Uses' \in [Abstract!Role -> SUBSET Packet]
        BY <2>3, <2>7 DEF Abstract!Drop, Abstract!Users
      <3>2. /\ pool'.free = IF Abstract!Users(p) = {r} THEN pool.free \cup {p} ELSE pool.free
            /\ p \notin pool.free
        BY <2>3, <2>7 DEF Abstract!Drop, Accounted
      <3>3. Lone(Abstract!Users(p) \ {r})
        BY <1>0, <2>3 DEF Accounted, Lone
      <3>4. Abstract!Users(p) \ {r} = {} <=> Abstract!Users(p) = {r}
        OBVIOUS
      <3> QED
        BY <2>2, <3>1, <3>2, <3>3, <3>4
    <2>8. ASSUME NEW r \in Abstract!Users(p), NEW s \in Abstract!Role, Abstract!Pass(p, r, s)
          PROVE  /\ (\A x \in Packet : Accounted(x))' /\ pool'.free \subseteq Packet
                 /\ Uses' \in [Abstract!Role -> SUBSET Packet]
      <3>1. /\ \A x \in Packet \ {p} : Abstract!Users(x)' = Abstract!Users(x)
            /\ Abstract!Users(p)' = {s}
            /\ Uses' \in [Abstract!Role -> SUBSET Packet]
        BY <2>3, <2>8 DEF Abstract!Pass, Abstract!Users
      <3>2. pool'.free = pool.free /\ p \notin pool.free
        BY <2>3, <2>8 DEF Abstract!Pass, Accounted
      <3>3. Lone({s})
        BY DEF Lone
      <3> QED
        BY <2>2, <3>1, <3>2, <3>3
    <2> QED
      BY <2>1, <2>4, <2>5, <2>6, <2>7, <2>8
  <1> QED
    BY <1>1, <1>2

(* No packet is lost and none is freed early: a packet is in the pool      *)
(* exactly when neither a ring, nor the stack, nor a thread, nor TCP has   *)
(* it, and only TCP and the driver ever have one together.                 *)
THEOREM NoPacketLeaks == Spec => []Abstract!PoolInv
  <1> DEFINE Balanced == /\ pool.free \subseteq Packet /\ Uses \in [Abstract!Role -> SUBSET Packet]
                       /\ \A p \in Packet : Accounted(p)
  <1>1. Abstract!Init => Balanced
    BY DEF Abstract!Init, Accounted, Lone, Abstract!Users, Abstract!Role
  <1>2. Balanced /\ [Abstract!Next]_Abstract!poolVars => Balanced'
    BY AccountedNext
  <1>3. Balanced => Abstract!PoolInv
    <2> SUFFICES ASSUME Balanced PROVE Abstract!PoolInv
      OBVIOUS
    <2>2. ASSUME NEW p \in Packet
          PROVE  /\ p \in pool.free <=> Abstract!Users(p) = {}
                 /\ \/ Abstract!Users(p) = {"tcp", "driver"}
                    \/ \A r, s \in Abstract!Users(p) : r = s
      <3>1. Accounted(p)
        OBVIOUS
      <3> QED
        BY <3>1 DEF Accounted, Lone
    <2>3. pool.free \subseteq Packet /\ Uses \in [Abstract!Role -> SUBSET Packet]
      OBVIOUS
    <2> HIDE DEF Balanced
    <2> QED
      BY <2>2, <2>3, Zenon DEF Abstract!PoolInv
  <1> HIDE DEF Balanced
  <1>4. Abstract!Spec => []Abstract!PoolInv
    BY <1>1, <1>2, <1>3, PTL DEF Abstract!Spec
  <1> QED
    BY <1>4, PoolPromise, PTL DEF Implements
=============================================================================
