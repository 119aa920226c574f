-------------------------------- MODULE Heap ---------------------------------
(***************************************************************************)
(* The C heap (src/modules/runtime/heap.c) on the byte pool of ThreadX:    *)
(* one region of memory, cut into a chain of blocks, each with a header    *)
(* that links it to the next and says whether it is free.  A request takes *)
(* the first free block that is large enough, joining free neighbours on   *)
(* its way; a release only marks the block.  heap_lock lets one thread at  *)
(* a time into the pool, so that the search, which enables interrupts      *)
(* between two blocks, never sees the pool change hands.                   *)
(*                                                                         *)
(* Addresses and sizes are in words.  A block is named by the address of   *)
(* its header.  Clients are correct: they free what they own, once.        *)
(***************************************************************************)
EXTENDS Naturals, FiniteSets, FiniteSetsExt, Functions

CONSTANTS
  Thread,
  NoThread,
  NoBlock,
  End,        \* the address of the header that closes the chain
  Overhead,   \* words of a block's header: the link and the owner
  Header,     \* words of heap.c's own header
  SplitMin,   \* TX_BYTE_BLOCK_MIN: the least rest that becomes a block
  Sizes       \* what clients ask for

(* tx_byte_pool.h: the least rest has room for a block's header (20 bytes, *)
(* the header 8), and so has the least pool (100 bytes).                   *)
ASSUME HeapAssumption ==
  /\ {End, Overhead, Header, SplitMin} \subseteq Nat \ {0}
  /\ Overhead <= SplitMin /\ Overhead <= End
  /\ Sizes \subseteq Nat \ {0}
  /\ NoThread \notin Thread
  /\ NoBlock \notin 0..End

VARIABLES
  next,    \* the chain: next[b] is the header after block b's
  free,    \* the blocks marked TX_BYTE_BLOCK_FREE
  avail,   \* tx_byte_pool_available
  frags,   \* tx_byte_pool_fragments
  search,  \* tx_byte_pool_search
  size,    \* size[b]: heap_header.size of the blocks handed out
  lock,    \* the owner of heap_lock
  pc,      \* where each thread is
  call,    \* call[t]: the words asked for and the block resized or freed
  walk,    \* the locals of the search: current block, blocks to examine,
           \* whether a free block was met
  held     \* held[t]: the blocks thread t owns

pool == <<next, free, avail, frags, search>>
vars == <<pool, size, lock, pc, call, walk, held>>

Block == DOMAIN next
NoCall == [want |-> 0, old |-> NoBlock]
NoWalk == [cur |-> 0, left |-> 0, met |-> FALSE]

(* tx_byte_pool_create: one free block and the header that closes the      *)
(* chain, which links back to the start and counts as a fragment.          *)
Init ==
  /\ next = [b \in {0, End} |-> IF b = 0 THEN End ELSE 0]
  /\ free = {0}
  /\ avail = End
  /\ frags = 2
  /\ search = 0
  /\ size = [b \in {} |-> 0]
  /\ lock = NoThread
  /\ pc = [t \in Thread |-> "idle"]
  /\ call = [t \in Thread |-> NoCall]
  /\ walk = NoWalk
  /\ held = [t \in Thread |-> {}]

-----------------------------------------------------------------------------
(* The calls. *)

Go(t, l) == pc' = [pc EXCEPT ![t] = l]

Malloc(t, n) ==
  /\ pc[t] = "idle"
  /\ call' = [call EXCEPT ![t] = [want |-> n, old |-> NoBlock]]
  /\ Go(t, "malloc")
  /\ UNCHANGED <<pool, size, lock, walk, held>>

FreeBlock(t, b) ==
  /\ pc[t] = "idle" /\ b \in held[t]
  /\ call' = [call EXCEPT ![t] = [want |-> 0, old |-> b]]
  /\ held' = [held EXCEPT ![t] = @ \ {b}]
  /\ Go(t, "free")
  /\ UNCHANGED <<pool, size, lock, walk>>

(* Mutant: a block is given back by its header's size, grown in place. *)
ReallocInPlace(t, b, n) ==
  /\ pc[t] = "idle" /\ b \in held[t]
  /\ size' = [size EXCEPT ![b] = n]
  /\ UNCHANGED <<pool, lock, pc, call, walk, held>>

(* heap_realloc to no more than the header's size only lowers that size:   *)
(* without the lock, for the block is the caller's.                        *)
Realloc(t, b, n) ==
  /\ pc[t] = "idle" /\ b \in held[t]
  /\ IF n <= size[b]
     THEN size' = [size EXCEPT ![b] = n] /\ UNCHANGED <<pc, call>>
     ELSE /\ call' = [call EXCEPT ![t] = [want |-> n, old |-> b]]
          /\ Go(t, "malloc")
          /\ UNCHANGED size
  /\ UNCHANGED <<pool, lock, walk, held>>

-----------------------------------------------------------------------------
(* heap_alloc and _tx_byte_pool_search *)

Need(t) == Header + call[t].want

(* Not even with every free byte and every header saved. *)
Hopeless(t) == Need(t) >= avail + (frags - 2) * Overhead

ToExamine == frags + 1

(* Mutant: the mutex is not asked for. *)
AllocStartUnlocked(t) ==
  /\ pc[t] = "malloc"
  /\ lock' = t
  /\ walk' = [cur |-> search, left |-> ToExamine, met |-> FALSE]
  /\ Go(t, IF Hopeless(t) THEN "refused" ELSE "search")
  /\ UNCHANGED <<pool, size, call, held>>

AllocStart(t) ==
  /\ pc[t] = "malloc" /\ lock = NoThread
  /\ lock' = t
  /\ walk' = [cur |-> search, left |-> ToExamine, met |-> FALSE]
  /\ Go(t, IF Hopeless(t) THEN "refused" ELSE "search")
  /\ UNCHANGED <<pool, size, call, held>>

Room(b) == next[b] - b - Overhead

(* Mutant: the blocks passed are not counted. *)
OnwardsForEver(t, b, n) ==
  /\ walk' = [walk EXCEPT !.cur = b, !.met = walk.met \/ walk.cur \in free]
  /\ UNCHANGED pc

(* The search goes on at block b after it has passed n blocks.             *)
Onwards(t, b, n) ==
  /\ walk' = [cur  |-> b,
              left |-> IF walk.left > n THEN walk.left - n ELSE 0,
              met  |-> walk.met \/ walk.cur \in free]
  /\ IF walk.left > n THEN UNCHANGED pc ELSE Go(t, "refused")

(* The first free block met becomes the start of the searches to come.     *)
FirstFree == IF walk.met THEN search ELSE walk.cur

PassUsed(t) ==
  /\ pc[t] = "search" /\ walk.cur \notin free
  /\ Onwards(t, next[walk.cur], 1)
  /\ UNCHANGED <<pool, size, lock, call, held>>

(* The free block is too small and followed by a free one: they are joined *)
(* and the block is looked at again.                                       *)
Join(t) ==
  LET c == walk.cur  n == next[c]
  IN
  /\ pc[t] = "search" /\ c \in free /\ Room(c) < Need(t)
  /\ n \in free
  /\ next' = [b \in Block \ {n} |-> IF b = c THEN next[n] ELSE next[b]]
  /\ free' = free \ {n}
  /\ frags' = frags - 1
  /\ search' = IF FirstFree = n THEN c ELSE FirstFree
  /\ Onwards(t, c, 1)
  /\ UNCHANGED <<avail, size, lock, call, held>>

(* Too small and followed by a block in use: both are passed. *)
PassSmall(t) ==
  LET c == walk.cur
  IN
  /\ pc[t] = "search" /\ c \in free /\ Room(c) < Need(t)
  /\ next[c] \notin free
  /\ search' = FirstFree
  /\ Onwards(t, next[next[c]], 2)
  /\ UNCHANGED <<next, free, avail, frags, size, lock, call, held>>

Splits(t) == Room(walk.cur) - Need(t) >= SplitMin

(* The chain with the rest of block c after n words made a block.          *)
Split(c, n) ==
  LET rest == c + n + Overhead
  IN  [b \in Block \cup {rest} |->
         IF b = rest THEN next[c] ELSE IF b = c THEN rest ELSE next[b]]

(* What heap_alloc's caller gets: a block of its own, or for heap_realloc  *)
(* the same with the old contents, the old block being freed next.         *)
Hand(t, b) ==
  /\ held' = [held EXCEPT ![t] = (@ \cup {b}) \ {call[t].old}]
  /\ size' = [d \in DOMAIN size \cup {b} |-> IF d = b THEN call[t].want ELSE size[d]]
  /\ call' = [call EXCEPT ![t].want = 0]
  /\ Go(t, IF call[t].old = NoBlock THEN "idle" ELSE "free")

SearchAfter(c) == IF FirstFree = c THEN next'[c] ELSE FirstFree

Take(t) ==
  LET c == walk.cur
  IN
  /\ pc[t] = "search" /\ c \in free /\ Room(c) >= Need(t)
  /\ IF Splits(t)
     THEN /\ next' = Split(c, Need(t))
          /\ free' = (free \ {c}) \cup {c + Need(t) + Overhead}
          /\ frags' = frags + 1
          /\ avail' = avail - Need(t) - Overhead
     ELSE /\ free' = free \ {c}
          /\ avail' = avail - Room(c) - Overhead
          /\ UNCHANGED <<next, frags>>
  /\ search' = SearchAfter(c)
  /\ Hand(t, c)
  /\ lock' = NoThread
  /\ walk' = NoWalk

(* heap_alloc returns 0; heap_realloc too, and the old block stays.        *)
Refused(t) ==
  /\ pc[t] = "refused"
  /\ lock' = NoThread
  /\ walk' = NoWalk
  /\ call' = [call EXCEPT ![t] = NoCall]
  /\ Go(t, "idle")
  /\ UNCHANGED <<pool, size, held>>

-----------------------------------------------------------------------------
(* heap_free and _tx_byte_release *)

SearchBack(b) == IF b < search THEN b ELSE search

(* Mutant: the words of the header are not given back. *)
GivenBackNet(b) == Room(b)

GivenBack(b) == next[b] - b

Release(t) ==
  LET b == call[t].old
  IN
  /\ pc[t] = "free" /\ lock = NoThread
  /\ free' = free \cup {b}
  /\ avail' = avail + GivenBack(b)
  /\ search' = SearchBack(b)
  /\ size' = Restrict(size, DOMAIN size \ {b})
  /\ call' = [call EXCEPT ![t] = NoCall]
  /\ Go(t, "idle")
  /\ UNCHANGED <<next, frags, lock, walk, held>>

-----------------------------------------------------------------------------
Search(t) == PassUsed(t) \/ Join(t) \/ PassSmall(t) \/ Take(t)

Step(t) == AllocStart(t) \/ Search(t) \/ Refused(t) \/ Release(t)

Client(t) ==
  \/ \E n \in Sizes : Malloc(t, n)
  \/ \E b \in held[t] : FreeBlock(t, b)
  \/ \E b \in held[t], n \in Sizes : Realloc(t, b, n)

Next == \E t \in Thread : Step(t) \/ Client(t)

Spec == Init /\ [][Next]_vars

(* Every thread gets the processor, and of two threads the one that waits  *)
(* for the mutex is handed it: a thread that can go on again and again     *)
(* does. (More threads than two would be served by priority.)              *)
FairSpec == Spec /\ \A t \in Thread : SF_vars(Step(t))

-----------------------------------------------------------------------------
(* Properties *)

PC == {"idle", "malloc", "search", "refused", "free"}

(* The type of every variable. *)
TypeOK ==
  /\ Block \subseteq 0..End /\ {0, End} \subseteq Block
  /\ next \in [Block -> Block]
  /\ free \subseteq Block \ {End}
  /\ avail \in 0..End /\ frags \in Nat
  /\ search \in Block
  /\ DOMAIN size \subseteq Block /\ \A b \in DOMAIN size : size[b] \in Sizes
  /\ lock \in Thread \cup {NoThread}
  /\ pc \in [Thread -> PC]
  /\ call \in [Thread -> [want : Sizes \cup {0}, old : Block \cup {NoBlock}]]
  /\ walk \in [cur : 0..End, left : Nat, met : BOOLEAN]
  /\ held \in [Thread -> SUBSET (Block \ {End})]

(* The blocks tile the memory: whatever is split and joined, the chain     *)
(* visits every block in the order of addresses, leaves no gap, gives      *)
(* every block room for its header, and ends at the closing one.           *)
Tiled ==
  \A b \in Block \ {End} :
    b + Overhead <= next[b] /\ \A d \in Block : d > b => next[b] <= d

(* The two counters of the pool that decide without a search that a        *)
(* request is hopeless, and how long a search goes on, are right.          *)
Counted ==
  /\ frags = Cardinality(Block)
  /\ avail = FoldSet(LAMBDA b, sum : sum + next[b] - b, 0, free)

(* First fit: no free block lies before the one where searches start.      *)
SearchLow == \A b \in free : search <= b

(* The pool's own data are consistent.                                     *)
Inv == TypeOK /\ Tiled /\ Counted /\ SearchLow

(* Every block that is in use belongs to one thread, or to the call that   *)
(* is giving it back, and is as large as that thread may think it is; no   *)
(* block is lost, not even by a realloc that fails.                        *)
Owned ==
  /\ \A t, u \in Thread : t # u => held[t] \cap held[u] = {}
  /\ (UNION {held[t] : t \in Thread})
       \cup {call[t].old : t \in {u \in Thread : pc[u] = "free"}}
       = Block \ (free \cup {End})
  /\ \A t \in Thread : \A b \in held[t] : Room(b) >= Header + size[b]

(* The words that the free blocks from block b on would have if they were  *)
(* joined.                                                                 *)
Joined(b) ==
  Max({e \in Block : \A d \in Block : b <= d /\ d < e => d \in free}) - b - Overhead

(* A request is refused only when no run of free neighbours could hold it: *)
(* although the search starts in the middle of the chain, counts the       *)
(* blocks it passes while it joins them, and gives up early when the       *)
(* counters say so.                                                        *)
RefusedForGood ==
  \A t \in Thread : pc[t] = "refused" => \A b \in free : Joined(b) < Need(t)

(* Every call returns. *)
CallsReturn == \A t \in Thread : pc[t] # "idle" ~> pc[t] = "idle"
==============================================================================
