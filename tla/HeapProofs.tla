----------------------------- MODULE HeapProofs ------------------------------
(***************************************************************************)
(* Proofs about Heap, for every set of threads, every size of the memory,  *)
(* of the headers and of the requests.                                     *)
(***************************************************************************)
EXTENDS Heap, FiniteSetTheorems, WellFoundedInduction, TLAPS

-----------------------------------------------------------------------------
(* Sums over finite sets *)

(* A collection of subsets of a finite set has a minimal one.              *)
LEMMA Minimal ==
  ASSUME NEW S, IsFiniteSet(S), NEW C \in SUBSET (SUBSET S), C # {}
  PROVE  \E s \in C : \A u \in C : ~(u \subseteq s /\ u # s)
<1>1. C \subseteq FiniteSubsetsOf(S)
  BY FS_Subset DEF FiniteSubsetsOf
<1>2. PICK s \in C : \A u \in C : ~(<<u, s>> \in StrictSubsetOrdering(S))
  BY <1>1, FS_StrictSubsetOrderingWellFounded, WFMin
<1> QED
  BY <1>2 DEF StrictSubsetOrdering

(* The words of the blocks of a set, as Counted sums them. *)
Words(N, S) == FoldSet(LAMBDA b, sum : sum + N[b] - b, 0, S)

(* What the fold over the set S is an application of. *)
Fold(N, S, g) ==
  g = [s \in SUBSET S |->
         IF s = {} THEN 0 ELSE LET x == CHOOSE x \in s : TRUE IN g[s \ {x}] + N[x] - x]

LEMMA WordsFold ==
  ASSUME NEW N, NEW S
  PROVE  Words(N, S) = (CHOOSE g : Fold(N, S, g))[S]
BY DEF Words, FoldSet, MapThenFoldSet, Fold

LEMMA FoldAt ==
  ASSUME NEW N, NEW S, NEW g, Fold(N, S, g), NEW s \in SUBSET S
  PROVE  /\ s = {} => g[s] = 0
         /\ s # {} => LET x == CHOOSE x \in s : TRUE
                      IN  x \in s /\ g[s] = g[s \ {x}] + N[x] - x
<1>1. g[s] = IF s = {} THEN 0 ELSE LET x == CHOOSE x \in s : TRUE IN g[s \ {x}] + N[x] - x
  BY DEF Fold
<1> QED
  BY <1>1

LEMMA FoldUnique ==
  ASSUME NEW N, NEW S, IsFiniteSet(S), NEW g, Fold(N, S, g), NEW h, Fold(N, S, h)
  PROVE  g = h
<1> DEFINE C == {s \in SUBSET S : g[s] # h[s]}
<1>1. C = {}
  <2> SUFFICES ASSUME C # {} PROVE FALSE
    OBVIOUS
  <2>1. PICK s \in C : \A u \in C : ~(u \subseteq s /\ u # s)
    <3>1. C \in SUBSET (SUBSET S)
      OBVIOUS
    <3> HIDE DEF C
    <3> QED
      BY <3>1, Minimal
  <2> DEFINE x == CHOOSE x \in s : TRUE
  <2>2. s # {} /\ x \in s /\ g[s] = g[s \ {x}] + N[x] - x /\ h[s] = h[s \ {x}] + N[x] - x
    BY <2>1, FoldAt
  <2> HIDE DEF x
  <2>3. s \ {x} \subseteq s /\ s \ {x} # s /\ s \ {x} \in SUBSET S
    BY <2>2
  <2>4. g[s \ {x}] = h[s \ {x}]
    BY <2>1, <2>3
  <2> QED
    BY <2>1, <2>2, <2>4
<1>2. g = [s \in SUBSET S |-> g[s]] /\ h = [s \in SUBSET S |-> h[s]]
  BY DEF Fold
<1>3. \A s \in SUBSET S : g[s] = h[s]
  BY <1>1
<1> HIDE DEF C
<1> QED
  BY <1>2, <1>3

LEMMA FoldWithin ==
  ASSUME NEW N, NEW S, IsFiniteSet(S), NEW g, Fold(N, S, g), NEW T \in SUBSET S
  PROVE  g[T] = Words(N, T)
<1> DEFINE h == [s \in SUBSET T |-> g[s]]
<1>1. Fold(N, T, h)
  <2>1. \A s \in SUBSET T :
          h[s] = IF s = {} THEN 0 ELSE LET x == CHOOSE x \in s : TRUE IN h[s \ {x}] + N[x] - x
    <3> SUFFICES ASSUME NEW s \in SUBSET T
                 PROVE  h[s] = IF s = {} THEN 0
                               ELSE LET x == CHOOSE x \in s : TRUE IN h[s \ {x}] + N[x] - x
      OBVIOUS
    <3> DEFINE x == CHOOSE x \in s : TRUE
    <3>0. s \in SUBSET S
      OBVIOUS
    <3>1. s = {} => g[s] = 0
      BY <3>0, FoldAt
    <3>2. s # {} => g[s] = g[s \ {x}] + N[x] - x
      <4> HIDE DEF h
      <4> QED
        BY <3>0, FoldAt
    <3> HIDE DEF x
    <3>3. h[s] = g[s] /\ h[s \ {x}] = g[s \ {x}]
      OBVIOUS
    <3>4. h[s] = IF s = {} THEN 0 ELSE h[s \ {x}] + N[x] - x
      BY <3>1, <3>2, <3>3
    <3> HIDE DEF h
    <3> QED
      BY <3>4 DEF x
  <2>2. h = [s \in SUBSET T |-> h[s]]
    OBVIOUS
  <2> HIDE DEF h
  <2> QED
    BY <2>1, <2>2 DEF Fold
<1> DEFINE k == CHOOSE f : Fold(N, T, f)
<1>2. Fold(N, T, k)
  BY <1>1
<1>3. k = h
  <2> HIDE DEF k, h
  <2> QED
    BY <1>1, <1>2, FoldUnique, FS_Subset
<1>4. k[T] = Words(N, T)
  BY WordsFold
<1>5. h[T] = g[T]
  OBVIOUS
<1> HIDE DEF k, h
<1> QED
  BY <1>3, <1>4, <1>5

LEMMA FoldExists ==
  ASSUME NEW N, NEW S, IsFiniteSet(S)
  PROVE  \E g : Fold(N, S, g)
<1> DEFINE C == {T \in SUBSET S : ~\E g : Fold(N, T, g)}
<1>1. C = {}
  <2> SUFFICES ASSUME C # {} PROVE FALSE
    OBVIOUS
  <2>1. PICK T \in C : \A u \in C : ~(u \subseteq T /\ u # T)
    <3>1. C \in SUBSET (SUBSET S)
      OBVIOUS
    <3> HIDE DEF C
    <3> QED
      BY <3>1, Minimal
  <2>2. T \subseteq S /\ IsFiniteSet(T) /\ ~\E g : Fold(N, T, g)
    BY <2>1, FS_Subset
  <2>3. \A U \in SUBSET T : U # T => \E g : Fold(N, U, g)
    BY <2>1, <2>2
  <2> HIDE DEF C
  <2> DEFINE F == [s \in SUBSET T |->
                    IF s = {} THEN 0
                    ELSE LET x == CHOOSE x \in s : TRUE IN Words(N, s \ {x}) + N[x] - x]
  <2>4. \A U \in SUBSET T : U # T => F[U] = Words(N, U)
    <3> SUFFICES ASSUME NEW U \in SUBSET T, U # T PROVE F[U] = Words(N, U)
      OBVIOUS
    <3>1. PICK g : Fold(N, U, g)
      BY <2>3
    <3>2. IsFiniteSet(U)
      BY <2>2, FS_Subset
    <3>3. g[U] = Words(N, U)
      BY <3>1, <3>2, FoldWithin
    <3> DEFINE x == CHOOSE x \in U : TRUE
    <3>4. U = {} => g[U] = 0
      BY <3>1, FoldAt
    <3>5. U # {} => g[U] = g[U \ {x}] + N[x] - x
      BY <3>1, FoldAt
    <3>6. F[U] = IF U = {} THEN 0 ELSE Words(N, U \ {x}) + N[x] - x
      OBVIOUS
    <3> HIDE DEF x, F
    <3>7. g[U \ {x}] = Words(N, U \ {x})
      BY <3>1, <3>2, FoldWithin
    <3> QED
      BY <3>3, <3>4, <3>5, <3>6, <3>7
  <2>5. \A s \in SUBSET T :
          F[s] = IF s = {} THEN 0 ELSE LET x == CHOOSE x \in s : TRUE IN F[s \ {x}] + N[x] - x
    <3> SUFFICES ASSUME NEW s \in SUBSET T
                 PROVE  F[s] = IF s = {} THEN 0
                               ELSE LET x == CHOOSE x \in s : TRUE IN F[s \ {x}] + N[x] - x
      OBVIOUS
    <3> DEFINE x == CHOOSE x \in s : TRUE
    <3>1. F[s] = IF s = {} THEN 0 ELSE Words(N, s \ {x}) + N[x] - x
      OBVIOUS
    <3>2. s # {} => x \in s
      OBVIOUS
    <3> HIDE DEF x, F
    <3>3. s # {} => F[s \ {x}] = Words(N, s \ {x})
      BY <2>4, <3>2
    <3>4. F[s] = IF s = {} THEN 0 ELSE F[s \ {x}] + N[x] - x
      BY <3>1, <3>3
    <3> QED
      BY <3>4 DEF x
  <2>6. F = [s \in SUBSET T |-> F[s]]
    OBVIOUS
  <2> HIDE DEF F
  <2>7. Fold(N, T, F)
    BY <2>5, <2>6 DEF Fold
  <2> QED
    BY <2>2, <2>7
<1> QED
  BY <1>1

(* The numbers a block's words are made of, for every block of a finite    *)
(* set.                                                                    *)
Weighs(N, S) ==
  /\ S \subseteq Nat /\ IsFiniteSet(S)
  /\ \A b \in S : N[b] \in Nat /\ b <= N[b]

LEMMA WordsChosen ==
  ASSUME NEW N, NEW S, IsFiniteSet(S)
  PROVE  /\ S = {} => Words(N, S) = 0
         /\ S # {} => LET x == CHOOSE x \in S : TRUE
                      IN  x \in S /\ Words(N, S) = Words(N, S \ {x}) + N[x] - x
<1>1. PICK g : Fold(N, S, g)
  BY FoldExists
<1> DEFINE x == CHOOSE x \in S : TRUE
<1>2. g[S] = Words(N, S) /\ g[S \ {x}] = Words(N, S \ {x})
  <2> HIDE DEF x
  <2>1. \A T \in SUBSET S : g[T] = Words(N, T)
    BY <1>1, FoldWithin
  <2>2. S \in SUBSET S /\ S \ {x} \in SUBSET S
    OBVIOUS
  <2> QED
    BY <2>1, <2>2
<1>3. S \in SUBSET S
  OBVIOUS
<1>4. S = {} => g[S] = 0
  BY <1>1, <1>3, FoldAt
<1>5. S # {} => x \in S /\ g[S] = g[S \ {x}] + N[x] - x
  <2>1. \A s \in SUBSET S : s # {} => LET y == CHOOSE y \in s : TRUE
                                     IN  y \in s /\ g[s] = g[s \ {y}] + N[y] - y
    BY <1>1, FoldAt
  <2> QED
    BY <1>3, <2>1
<1> HIDE DEF x
<1>6. S # {} => x \in S /\ Words(N, S) = Words(N, S \ {x}) + N[x] - x
  BY <1>2, <1>5
<1> QED
  BY <1>2, <1>4, <1>6 DEF x

LEMMA WordsRest ==
  ASSUME NEW N, NEW S, Weighs(N, S)
  PROVE  /\ Words(N, {}) = 0
         /\ Words(N, S) \in Nat
         /\ \A x \in S : Words(N, S) = Words(N, S \ {x}) + (N[x] - x)
<1>1. Words(N, {}) = 0
  BY FS_EmptySet, WordsChosen
<1> DEFINE Good(T) == /\ Words(N, T) \in Nat
                      /\ \A x \in T : Words(N, T) = Words(N, T \ {x}) + (N[x] - x)
           C == {T \in SUBSET S : ~Good(T)}
<1>2. C = {}
  <2> SUFFICES ASSUME C # {} PROVE FALSE
    OBVIOUS
  <2>1. PICK T \in C : \A u \in C : ~(u \subseteq T /\ u # T)
    <3>1. C \in SUBSET (SUBSET S)
      OBVIOUS
    <3>2. IsFiniteSet(S)
      BY DEF Weighs
    <3> HIDE DEF C, Good
    <3> QED
      BY <3>1, <3>2, Minimal
  <2>2. T \subseteq S /\ IsFiniteSet(T) /\ ~Good(T)
    BY <2>1, FS_Subset DEF Weighs
  <2>3. \A x \in T : Good(T \ {x})
    BY <2>1, <2>2
  <2> HIDE DEF C
  <2> DEFINE y == CHOOSE y \in T : TRUE
  <2>4. T # {}
    <3>1. Good({})
      BY <1>1
    <3> HIDE DEF Good
    <3> QED
      BY <2>2, <3>1
  <2>5. y \in T /\ Words(N, T) = Words(N, T \ {y}) + N[y] - y
    BY <2>2, <2>4, WordsChosen
  <2> HIDE DEF y
  <2>6. \A x \in T : x \in Nat /\ N[x] \in Nat /\ x <= N[x] /\ N[x] - x \in Nat
    BY <2>2 DEF Weighs
  <2>7. Words(N, T \ {y}) \in Nat
    BY <2>3, <2>5
  <2>8. Words(N, T) = Words(N, T \ {y}) + (N[y] - y)
    BY <2>5, <2>6, <2>7
  <2>9. Words(N, T) \in Nat
    BY <2>5, <2>6, <2>7, <2>8
  <2>10. \A x \in T : Words(N, T) = Words(N, T \ {x}) + (N[x] - x)
    <3> SUFFICES ASSUME NEW x \in T, x # y
                 PROVE  Words(N, T) = Words(N, T \ {x}) + (N[x] - x)
      BY <2>8
    <3> DEFINE R == (T \ {x}) \ {y}
    <3>1. R = (T \ {y}) \ {x} /\ x \in T \ {y} /\ y \in T \ {x}
      BY <2>5
    <3>2. Words(N, T \ {y}) = Words(N, R) + (N[x] - x)
      BY <2>3, <2>5, <3>1
    <3>3. Words(N, T \ {x}) = Words(N, R) + (N[y] - y)
      BY <2>3, <2>5, <3>1
    <3>4. Words(N, R) \in Int
      <4>1. R \in SUBSET S /\ R \subseteq T /\ R # T
        BY <2>2
      <4>2. Good(R)
        BY <2>1, <4>1 DEF C
      <4> QED
        BY <4>2
    <3> HIDE DEF R
    <3> QED
      BY <2>5, <2>6, <2>8, <3>2, <3>3, <3>4
  <2> QED
    BY <2>2, <2>9, <2>10
<1>3. Good(S)
  BY <1>2
<1> QED
  BY <1>1, <1>3

(* The sum depends on the blocks of the set only. *)
LEMMA WordsSame ==
  ASSUME NEW N, NEW M, NEW S, Weighs(N, S), \A b \in S : M[b] = N[b]
  PROVE  Words(M, S) = Words(N, S)
<1>1. \A T \in SUBSET S : Weighs(N, T) /\ Weighs(M, T)
  BY FS_Subset DEF Weighs
<1> DEFINE C == {T \in SUBSET S : Words(M, T) # Words(N, T)}
<1>2. C = {}
  <2> SUFFICES ASSUME C # {} PROVE FALSE
    OBVIOUS
  <2>1. PICK T \in C : \A u \in C : ~(u \subseteq T /\ u # T)
    <3>1. C \in SUBSET (SUBSET S)
      OBVIOUS
    <3>2. IsFiniteSet(S)
      BY DEF Weighs
    <3> HIDE DEF C
    <3> QED
      BY <3>1, <3>2, Minimal
  <2>2. Weighs(N, T) /\ Weighs(M, T)
    BY <1>1
  <2>3. T # {}
    BY <2>1, <2>2, WordsRest
  <2>4. PICK x \in T : TRUE
    BY <2>3
  <2>5. Words(M, T \ {x}) = Words(N, T \ {x})
    BY <2>1
  <2>6. M[x] = N[x]
    BY <2>1
  <2>7. Words(M, T) = Words(M, T \ {x}) + (M[x] - x)
    BY <2>2, WordsRest
  <2>8. Words(N, T) = Words(N, T \ {x}) + (N[x] - x)
    BY <2>2, WordsRest
  <2> QED
    BY <2>1, <2>5, <2>6, <2>7, <2>8
<1> QED
  BY <1>2

LEMMA WordsMonotone ==
  ASSUME NEW N, NEW S, Weighs(N, S), NEW T \in SUBSET S
  PROVE  Words(N, T) <= Words(N, S)
<1>1. \A U \in SUBSET S : Weighs(N, U)
  BY FS_Subset DEF Weighs
<1> DEFINE C == {U \in SUBSET S : T \subseteq U /\ ~(Words(N, T) <= Words(N, U))}
<1>2. C = {}
  <2> SUFFICES ASSUME C # {} PROVE FALSE
    OBVIOUS
  <2>1. PICK U \in C : \A u \in C : ~(u \subseteq U /\ u # U)
    <3>1. C \in SUBSET (SUBSET S)
      OBVIOUS
    <3>2. IsFiniteSet(S)
      BY DEF Weighs
    <3> HIDE DEF C
    <3> QED
      BY <3>1, <3>2, Minimal
  <2>2. Weighs(N, U) /\ Weighs(N, T)
    BY <1>1
  <2>3. U # T
    BY <2>1, <2>2, WordsRest
  <2>4. PICK x \in U : x \notin T
    BY <2>1, <2>3
  <2>5. Weighs(N, U \ {x}) /\ Words(N, T) <= Words(N, U \ {x})
    BY <1>1, <2>1, <2>4
  <2>6. Words(N, U) = Words(N, U \ {x}) + (N[x] - x)
    BY <2>2, WordsRest
  <2>7. Words(N, U) \in Nat /\ Words(N, U \ {x}) \in Nat /\ Words(N, T) \in Nat
    BY <2>2, <2>5, WordsRest
  <2>8. x \in Nat /\ N[x] \in Nat /\ x <= N[x]
    BY <2>2 DEF Weighs
  <2>9. Words(N, T) <= Words(N, U)
    BY <2>5, <2>6, <2>7, <2>8
  <2> QED
    BY <2>1, <2>9
<1> QED
  BY <1>2

-----------------------------------------------------------------------------
(* The chain *)

(* The links N lead from each block to the one after it, and from the      *)
(* closing one to the first.                                               *)
Linked(N) ==
  /\ DOMAIN N \subseteq 0..End /\ {0, End} \subseteq DOMAIN N
  /\ N \in [DOMAIN N -> DOMAIN N]
  /\ N[End] = 0
  /\ \A b \in DOMAIN N \ {End} :
       b + Overhead <= N[b] /\ \A d \in DOMAIN N : d > b => N[b] <= d

LEMMA Numbers ==
  /\ End \in Nat \ {0} /\ Overhead \in Nat \ {0} /\ Header \in Nat \ {0} /\ SplitMin \in Nat \ {0}
  /\ Sizes \subseteq Nat /\ Overhead <= SplitMin /\ Overhead <= End
BY HeapAssumption

LEMMA LinkedOrder ==
  ASSUME NEW N, Linked(N)
  PROVE  /\ DOMAIN N \subseteq Nat /\ IsFiniteSet(DOMAIN N)
         /\ \A b \in DOMAIN N : b <= End /\ N[b] \in DOMAIN N
         /\ \A b \in DOMAIN N \ {End} : b < N[b] /\ b + Overhead <= N[b]
         /\ \A b \in DOMAIN N \ {End}, d \in DOMAIN N : b < d => N[b] <= d
         /\ \A b \in DOMAIN N \ {End}, d \in DOMAIN N : d # b => N[d] # N[b]
<1>1. DOMAIN N \subseteq Nat /\ \A b \in DOMAIN N : b <= End /\ N[b] \in DOMAIN N
  BY Numbers DEF Linked
<1>2. IsFiniteSet(DOMAIN N)
  <2>1. IsFiniteSet(0..End)
    BY Numbers, FS_Interval
  <2> QED
    BY <2>1, FS_Subset DEF Linked
<1>3. \A b \in DOMAIN N \ {End} : b < N[b] /\ b + Overhead <= N[b]
  BY <1>1, Numbers DEF Linked
<1>4. \A b \in DOMAIN N \ {End}, d \in DOMAIN N : b < d => N[b] <= d
  BY DEF Linked
<1>5. \A b \in DOMAIN N \ {End}, d \in DOMAIN N : d # b => N[d] # N[b]
  <2> TAKE b \in DOMAIN N \ {End}, d \in DOMAIN N
  <2>1. b \in Nat /\ d \in Nat /\ N[b] \in Nat /\ N[d] \in Nat
    BY <1>1
  <2>2. CASE d = End
    BY <2>1, <2>2, <1>3 DEF Linked
  <2>3. CASE d # End /\ d < b
    <3>1. N[d] <= b /\ b < N[b]
      BY <2>3, <1>3, <1>4
    <3> QED
      BY <2>1, <3>1
  <2>4. CASE d # End /\ b < d
    <3>1. N[b] <= d /\ d < N[d]
      BY <2>4, <1>3, <1>4
    <3> QED
      BY <2>1, <3>1
  <2> QED
    BY <2>1, <2>2, <2>3, <2>4
<1> QED
  BY <1>1, <1>2, <1>3, <1>4, <1>5

LEMMA LinkedWeighs ==
  ASSUME NEW N, Linked(N), NEW S \in SUBSET (DOMAIN N \ {End})
  PROVE  Weighs(N, S)
<1>1. IsFiniteSet(S)
  BY LinkedOrder, FS_Subset
<1>2. S \subseteq Nat /\ \A b \in S : N[b] \in Nat /\ b < N[b]
  BY LinkedOrder
<1>3. \A b \in S : b <= N[b]
  BY <1>2
<1> QED
  BY <1>1, <1>2, <1>3 DEF Weighs

(* The links after block c and its neighbour are joined. *)
Joining(N, c) == [b \in DOMAIN N \ {N[c]} |-> IF b = c THEN N[N[c]] ELSE N[b]]

LEMMA LinkedJoin ==
  ASSUME NEW N, Linked(N), NEW c \in DOMAIN N, c # End, N[c] # End
  PROVE  Linked(Joining(N, c))
<1> DEFINE n == N[c]
           M == Joining(N, c)
           D == DOMAIN N
<1>1. n \in D /\ n # End /\ c \in Nat /\ n \in Nat /\ c < n /\ c + Overhead <= n /\ N[n] \in D
  BY LinkedOrder
<1>2. DOMAIN M = D \ {n} /\ \A b \in D \ {n} : M[b] = IF b = c THEN N[n] ELSE N[b]
  BY DEF Joining
<1>3. N[n] # n /\ \A b \in D : b # c => N[b] # n
  BY <1>1, LinkedOrder
<1> HIDE DEF n, M
<1>4. DOMAIN M \subseteq 0..End /\ {0, End} \subseteq DOMAIN M
  BY <1>1, <1>2 DEF Linked
<1>5. M \in [DOMAIN M -> DOMAIN M]
  <2>1. \A b \in D \ {n} : M[b] \in D \ {n}
    BY <1>1, <1>2, <1>3, LinkedOrder
  <2>2. M = [b \in D \ {n} |-> M[b]]
    BY DEF M, Joining, n
  <2> QED
    BY <1>2, <2>1, <2>2
<1>6. M[End] = 0
  BY <1>1, <1>2, <1>4 DEF Linked
<1>7. \A b \in D \ {n, End} : b + Overhead <= M[b] /\ \A d \in D \ {n} : d > b => M[b] <= d
  <2> SUFFICES ASSUME NEW b \in D \ {n, End}
               PROVE  b + Overhead <= M[b] /\ \A d \in D \ {n} : d > b => M[b] <= d
    OBVIOUS
  <2>1. CASE b # c
    BY <1>2, <2>1, LinkedOrder
  <2>2. CASE b = c
    <3>1. M[b] = N[n]
      BY <1>1, <1>2, <2>2
    <3>2. n < N[n] /\ N[n] \in Nat
      BY <1>1, LinkedOrder
    <3>3. b + Overhead <= M[b]
      BY <1>1, <2>2, <3>1, <3>2, Numbers
    <3>4. \A d \in D \ {n} : d > b => d > n
      <4> SUFFICES ASSUME NEW d \in D \ {n}, d > b PROVE d > n
        OBVIOUS
      <4>1. n <= d /\ d \in Nat
        BY <2>2, LinkedOrder DEF n
      <4> QED
        BY <1>1, <4>1
    <3>5. \A d \in D \ {n} : d > b => N[n] <= d
      <4> SUFFICES ASSUME NEW d \in D \ {n}, d > b PROVE N[n] <= d
        OBVIOUS
      <4>1. n < d
        BY <3>4
      <4> QED
        BY <1>1, <4>1, LinkedOrder
    <3> QED
      BY <3>1, <3>3, <3>5
  <2> QED
    BY <2>1, <2>2
<1>8. Linked(M)
  BY <1>2, <1>4, <1>5, <1>6, <1>7 DEF Linked
<1> QED
  BY <1>8 DEF M

(* The links after a block is made at r in block c. *)
Splitting(N, c, r) ==
  [b \in DOMAIN N \cup {r} |-> IF b = r THEN N[c] ELSE IF b = c THEN r ELSE N[b]]

LEMMA LinkedSplit ==
  ASSUME NEW N, Linked(N), NEW c \in DOMAIN N, c # End, NEW r \in Nat,
         c + Overhead <= r, r + Overhead <= N[c]
  PROVE  /\ Linked(Splitting(N, c, r))
         /\ r \notin DOMAIN N /\ DOMAIN Splitting(N, c, r) = DOMAIN N \cup {r}
         /\ Splitting(N, c, r)[r] = N[c] /\ Splitting(N, c, r)[c] = r
         /\ \A b \in DOMAIN N \ {c} : Splitting(N, c, r)[b] = N[b]
<1> DEFINE M == Splitting(N, c, r)
           D == DOMAIN N
           n == N[c]
<1>1. c \in Nat /\ n \in Nat /\ n \in D /\ c < r /\ r < n /\ n <= End
  <2>1. c \in Nat /\ n \in Nat /\ n \in D /\ n <= End
    BY LinkedOrder
  <2> HIDE DEF n
  <2>2. r + Overhead <= n
    BY DEF n
  <2> QED
    BY <2>1, <2>2, Numbers
<1>2. r \notin D
  <2> SUFFICES ASSUME r \in D PROVE FALSE
    OBVIOUS
  <2>1. n <= r
    BY <1>1, LinkedOrder
  <2> QED
    BY <1>1, <2>1
<1>3. DOMAIN M = D \cup {r}
  BY DEF Splitting
<1>4. M = [b \in D \cup {r} |-> IF b = r THEN n ELSE IF b = c THEN r ELSE N[b]]
  BY <1>1, <1>2 DEF Splitting
<1> HIDE DEF M, n
<1>5. M[r] = n /\ M[c] = r /\ \A b \in D \ {c} : M[b] = N[b]
  BY <1>1, <1>2, <1>4
<1>6. DOMAIN M \subseteq 0..End /\ {0, End} \subseteq DOMAIN M
  BY <1>1, <1>3, Numbers DEF Linked
<1>7. M \in [DOMAIN M -> DOMAIN M]
  BY <1>1, <1>2, <1>3, <1>4, LinkedOrder
<1>8. M[End] = 0
  BY <1>5 DEF Linked
<1>9. \A b \in (D \cup {r}) \ {End} :
        b + Overhead <= M[b] /\ \A d \in D \cup {r} : d > b => M[b] <= d
  <2> SUFFICES ASSUME NEW b \in (D \cup {r}) \ {End}
               PROVE  b + Overhead <= M[b] /\ \A d \in D \cup {r} : d > b => M[b] <= d
    OBVIOUS
  <2>1. CASE b = r
    <3>1. b + Overhead <= M[b]
      BY <1>5, <2>1 DEF n
    <3>2. \A d \in D \cup {r} : d > b => M[b] <= d
      <4> SUFFICES ASSUME NEW d \in D, d > r PROVE n <= d
        BY <1>1, <1>5, <2>1
      <4>1. d \in Nat /\ c < d
        BY <1>1, LinkedOrder
      <4> QED
        BY <4>1, LinkedOrder DEF n
    <3> QED
      BY <3>1, <3>2
  <2>2. CASE b = c
    <3>1. M[b] = r
      BY <1>5, <2>2
    <3>2. \A d \in D \cup {r} : d > c => r <= d
      <4> SUFFICES ASSUME NEW d \in D, d > c PROVE r <= d
        BY <1>1
      <4>1. n <= d /\ d \in Nat
        BY LinkedOrder DEF n
      <4> QED
        BY <1>1, <4>1
    <3> QED
      BY <2>2, <3>1, <3>2
  <2>3. CASE b # r /\ b # c
    <3>1. b \in D /\ M[b] = N[b] /\ b \in Nat /\ N[b] \in Nat
      BY <1>5, <2>3, LinkedOrder
    <3>2. b + Overhead <= M[b] /\ \A d \in D : d > b => M[b] <= d
      BY <3>1, LinkedOrder
    <3>3. r > b => M[b] <= r
      <4> SUFFICES ASSUME r > b PROVE N[b] <= r
        BY <3>1
      <4>1. ~(c < b)
        <5> SUFFICES ASSUME c < b PROVE FALSE
          OBVIOUS
        <5>1. n <= b
          BY <3>1, LinkedOrder DEF n
        <5> QED
          BY <1>1, <3>1, <5>1
      <4>2. b < c
        BY <1>1, <2>3, <3>1, <4>1
      <4>3. N[b] <= c
        BY <3>1, <4>2, LinkedOrder
      <4> QED
        BY <1>1, <3>1, <4>3
    <3> QED
      BY <3>2, <3>3
  <2> QED
    BY <2>1, <2>2, <2>3
<1>10. Linked(M)
  BY <1>3, <1>6, <1>7, <1>8, <1>9 DEF Linked
<1> QED
  BY <1>2, <1>3, <1>5, <1>10 DEF M, n

(* The blocks between two blocks of the chain have all the words between   *)
(* them.                                                                   *)
LEMMA WordsBetween ==
  ASSUME NEW N, Linked(N), NEW b \in DOMAIN N, NEW e \in DOMAIN N, b <= e
  PROVE  Words(N, {d \in DOMAIN N : b <= d /\ d < e}) = e - b
<1> DEFINE D == DOMAIN N
           From(x) == {d \in D : x <= d /\ d < e}
           C == {From(x) : x \in {y \in D : y <= e /\ Words(N, From(y)) # e - y}}
<1>1. C = {}
  <2> SUFFICES ASSUME C # {} PROVE FALSE
    OBVIOUS
  <2>1. PICK s \in C : \A u \in C : ~(u \subseteq s /\ u # s)
    <3>1. C \in SUBSET (SUBSET D)
      OBVIOUS
    <3>2. IsFiniteSet(D)
      BY LinkedOrder
    <3> HIDE DEF C, D
    <3> QED
      BY <3>1, <3>2, Minimal
  <2>2. PICK x \in D : x <= e /\ Words(N, From(x)) # e - x /\ s = From(x)
    BY <2>1
  <2>3. x \in Nat /\ e \in Nat /\ e <= End /\ End \in Nat
    BY LinkedOrder, Numbers
  <2>4. x # e
    <3> SUFFICES ASSUME x = e PROVE FALSE
      OBVIOUS
    <3>1. From(x) = {}
      BY LinkedOrder
    <3>2. Weighs(N, {})
      BY LinkedWeighs
    <3>3. Words(N, {}) = 0
      BY <3>2, WordsRest
    <3> QED
      BY <2>2, <2>3, <3>1, <3>3
  <2>5. x < e /\ x # End
    BY <2>2, <2>3, <2>4
  <2>6. N[x] \in D /\ N[x] \in Nat /\ x < N[x] /\ N[x] <= e
    BY <2>5, LinkedOrder
  <2>7. From(N[x]) = From(x) \ {x} /\ x \in From(x)
    <3>1. x \in From(x)
      BY <2>3, <2>5
    <3>2. \A d \in D : x <= d /\ d < e /\ d # x <=> N[x] <= d /\ d < e
      <4> TAKE d \in D
      <4>1. d \in Nat
        BY LinkedOrder
      <4>2. x < d => N[x] <= d
        BY <2>5, LinkedOrder
      <4> QED
        BY <2>3, <2>6, <4>1, <4>2
    <3> QED
      BY <3>1, <3>2
  <2>8. Weighs(N, From(x))
    <3>1. From(x) \in SUBSET (DOMAIN N \ {End})
      BY <2>3, LinkedOrder
    <3> QED
      BY <3>1, LinkedWeighs
  <2>9. Words(N, From(x)) = Words(N, From(N[x])) + (N[x] - x)
    <3> HIDE DEF From
    <3> QED
      BY <2>7, <2>8, WordsRest
  <2>10. Words(N, From(N[x])) = e - N[x]
    <3> SUFFICES ASSUME Words(N, From(N[x])) # e - N[x] PROVE FALSE
      OBVIOUS
    <3>1. From(N[x]) \in C
      BY <2>6
    <3> HIDE DEF C, From
    <3> QED
      BY <2>1, <2>2, <2>7, <3>1
  <2> HIDE DEF From
  <2> QED
    BY <2>2, <2>3, <2>6, <2>9, <2>10
<1>2. Words(N, From(b)) = e - b
  <2> HIDE DEF From
  <2> QED
    BY <1>1
<1> QED
  BY <1>2

(* So the free blocks have no more words than there are, and at least      *)
(* those of any run of free blocks.                                        *)
LEMMA WordsFree ==
  ASSUME NEW N, Linked(N), NEW F \in SUBSET (DOMAIN N \ {End})
  PROVE  /\ Words(N, F) \in 0..End
         /\ \A b, e \in DOMAIN N :
              b <= e /\ (\A d \in DOMAIN N : b <= d /\ d < e => d \in F) => e - b <= Words(N, F)
<1>1. Weighs(N, F) /\ Words(N, F) \in Nat
  BY LinkedWeighs, WordsRest
<1>2. Words(N, F) <= End
  <2> DEFINE A == {d \in DOMAIN N : 0 <= d /\ d < End}
  <2>1. A = DOMAIN N \ {End}
    BY Numbers, LinkedOrder
  <2>2. Words(N, A) = End - 0
    <3>1. 0 \in DOMAIN N /\ End \in DOMAIN N /\ 0 <= End
      BY Numbers DEF Linked
    <3> QED
      BY <3>1, WordsBetween
  <2>3. Weighs(N, A)
    BY <2>1, LinkedWeighs
  <2> HIDE DEF A
  <2>4. Words(N, F) <= Words(N, A)
    BY <2>1, <2>3, WordsMonotone
  <2> QED
    BY <2>2, <2>4, Numbers
<1>3. ASSUME NEW b \in DOMAIN N, NEW e \in DOMAIN N, b <= e,
             \A d \in DOMAIN N : b <= d /\ d < e => d \in F
      PROVE  e - b <= Words(N, F)
  <2> DEFINE A == {d \in DOMAIN N : b <= d /\ d < e}
  <2>1. A \in SUBSET F
    BY <1>3
  <2>2. Words(N, A) = e - b
    BY <1>3, WordsBetween
  <2> HIDE DEF A
  <2> QED
    BY <1>1, <2>1, <2>2, WordsMonotone
<1> QED
  BY <1>1, <1>2, <1>3, Numbers

-----------------------------------------------------------------------------
(* The inductive invariant *)

(* The links are a chain of the blocks, the closing one of which is not    *)
(* free.                                                                   *)
Chain == Linked(next) /\ free \subseteq Block \ {End} /\ search \in Block

(* Who has heap_lock: the thread that searches or has been refused. *)
Locked ==
  /\ lock \in Thread \cup {NoThread}
  /\ pc \in [Thread -> PC]
  /\ \A t \in Thread : lock = t <=> pc[t] \in {"search", "refused"}

(* What a call is about: the words asked for, and the block it will free   *)
(* or is to free next, which is the thread's own until then.               *)
Called ==
  /\ call \in [Thread -> [want : Sizes \cup {0}, old : 0..End \cup {NoBlock}]]
  /\ \A t \in Thread :
       /\ pc[t] \in {"malloc", "search"} => call[t].want \in Sizes
       /\ pc[t] # "free" => call[t].old \in held[t] \cup {NoBlock}

(* The blocks in use are those with an entry in size. *)
Sized == DOMAIN size = Block \ (free \cup {End}) /\ \A b \in DOMAIN size : size[b] \in Sizes

(* The block a thread is giving back, if any. *)
Leaving(t) == IF pc[t] = "free" THEN {call[t].old} ELSE {}

(* A block in use belongs to one thread, or to the one that gives it back. *)
Shared ==
  /\ held \in [Thread -> SUBSET (DOMAIN size)]
  /\ \A t \in Thread : Leaving(t) \subseteq DOMAIN size /\ Leaving(t) \cap held[t] = {}
  /\ \A t, u \in Thread :
       t # u => (held[t] \cup Leaving(t)) \cap (held[u] \cup Leaving(u)) = {}
  /\ \A b \in DOMAIN size : \E t \in Thread : b \in held[t] \cup Leaving(t)
  /\ \A t \in Thread : \A b \in held[t] : Room(b) >= Header + size[b]

(* The search stands at a block, and as long as it has met no free block   *)
(* there is none before it.                                                *)
Walking ==
  /\ walk \in [cur : 0..End, left : Nat, met : BOOLEAN]
  /\ lock # NoThread => walk.cur \in Block
  /\ lock # NoThread /\ ~walk.met => \A b \in free : walk.cur <= b

(* The two counters. *)
Counts == frags = Cardinality(Block) /\ avail = Words(next, free)

(* Among the blocks B, the run of free blocks F that begins with b is over *)
(* before block e, and holds less than n words.                            *)
Small(B, F, b, e, n) ==
  \E d \in B \ F :
    /\ b < d /\ d < e /\ d - b - Overhead < n
    /\ \A x \in B : b <= x /\ x < d => x \in F

(* The blocks the search has not passed. *)
Ahead == {b \in Block : walk.cur <= b}

(* What the search has found out: either no run of free blocks is large    *)
(* enough, or none of those before its block is, and it will not give up   *)
(* before it has passed the others.                                        *)
Nowhere(t) == \A b \in free : Small(Block, free, b, End + 1, Need(t))
NotBehind(t) ==
  /\ walk.left > Cardinality(Ahead)
  /\ \A b \in free : b < walk.cur => Small(Block, free, b, walk.cur, Need(t))

Found ==
  \A t \in Thread :
    /\ pc[t] = "search" => Nowhere(t) \/ NotBehind(t)
    /\ pc[t] = "refused" => Nowhere(t)

Sound == Chain /\ SearchLow /\ Locked /\ Called /\ Sized /\ Shared /\ Walking /\ Counts /\ Found

LEMMA ChainOrder ==
  ASSUME Chain
  PROVE  /\ Block \subseteq Nat /\ IsFiniteSet(Block) /\ Block \subseteq 0..End /\ {0, End} \subseteq Block
         /\ \A b \in Block : b <= End /\ next[b] \in Block
         /\ \A b \in Block \ {End} : b < next[b] /\ b + Overhead <= next[b]
         /\ \A b \in Block \ {End}, d \in Block : b < d => next[b] <= d
         /\ free \subseteq Block \ {End} /\ search \in Block /\ next[End] = 0
<1>1. Linked(next) /\ Block = DOMAIN next
  BY DEF Chain, Block
<1>2. Block \subseteq 0..End /\ {0, End} \subseteq Block /\ next[End] = 0
  BY <1>1 DEF Linked
<1>3. /\ Block \subseteq Nat /\ IsFiniteSet(Block)
      /\ \A b \in Block : b <= End /\ next[b] \in Block
      /\ \A b \in Block \ {End} : b < next[b] /\ b + Overhead <= next[b]
      /\ \A b \in Block \ {End}, d \in Block : b < d => next[b] <= d
  BY <1>1, LinkedOrder
<1> QED
  BY <1>2, <1>3 DEF Chain

LEMMA NeedType ==
  ASSUME Called, NEW t \in Thread
  PROVE  Need(t) \in Nat /\ Need(t) > 0 /\ call[t].want \in Nat
<1>1. call[t].want \in Nat
  <2>1. call[t] \in [want : Sizes \cup {0}, old : 0..End \cup {NoBlock}]
    BY DEF Called
  <2>2. call[t].want \in Sizes \cup {0}
    BY <2>1
  <2>3. Sizes \cup {0} \subseteq Nat
    BY Numbers
  <2> QED
    BY <2>2, <2>3
<1> QED
  BY <1>1, Numbers DEF Need

LEMMA SmallWider ==
  ASSUME NEW B \in SUBSET Nat, NEW F, NEW b, NEW e \in Nat, NEW f \in Nat, e <= f, NEW n,
         Small(B, F, b, e, n)
  PROVE  Small(B, F, b, f, n)
<1>1. PICK d \in B \ F : /\ b < d /\ d < e /\ d - b - Overhead < n
                         /\ \A x \in B : b <= x /\ x < d => x \in F
  BY DEF Small
<1>2. d < f
  BY <1>1
<1> QED
  BY <1>1, <1>2 DEF Small

LEMMA SmallJoined ==
  ASSUME NEW B, NEW F, NEW b, NEW e, NEW n, NEW c \in F, Small(B, F, b, e, n)
  PROVE  Small(B \ {c}, F \ {c}, b, e, n)
<1>1. PICK d \in B \ F : /\ b < d /\ d < e /\ d - b - Overhead < n
                         /\ \A x \in B : b <= x /\ x < d => x \in F
  BY DEF Small
<1>2. d \in (B \ {c}) \ (F \ {c})
  BY <1>1
<1>3. \A x \in B \ {c} : b <= x /\ x < d => x \in F \ {c}
  BY <1>1
<1> QED
  BY <1>1, <1>2, <1>3 DEF Small

-----------------------------------------------------------------------------
(* The steps that leave the pool alone *)

(* What a step keeps that does not change the pool. *)
LEMMA PoolSame ==
  ASSUME Sound, UNCHANGED pool
  PROVE  /\ Chain' /\ SearchLow' /\ Counts'
         /\ UNCHANGED <<lock, walk>> => Walking'
<1> USE DEF pool
<1>1. Chain'
  BY DEF Sound, Chain, Block
<1>2. SearchLow'
  BY DEF Sound, SearchLow
<1>3. UNCHANGED <<lock, walk>> => Walking'
  BY DEF Sound, Walking, Block
<1>4. Counts'
  BY DEF Sound, Counts, Block
<1> QED
  BY <1>1, <1>2, <1>3, <1>4

(* Nobody else is in the pool while one thread is. *)
LEMMA OneInside ==
  ASSUME Locked, NEW t \in Thread, lock = t \/ lock = NoThread
  PROVE  \A u \in Thread : u # t => pc[u] \notin {"search", "refused"}
BY HeapAssumption DEF Locked

LEMMA FoundSame ==
  ASSUME Found, UNCHANGED <<next, free, walk>>,
         \A t \in Thread : pc'[t] \in {"search", "refused"} =>
                            pc'[t] = pc[t] /\ call'[t].want = call[t].want
  PROVE  Found'
<1> SUFFICES ASSUME NEW t \in Thread, pc'[t] \in {"search", "refused"}
             PROVE  /\ pc'[t] = "search" => Nowhere(t)' \/ NotBehind(t)'
                    /\ pc'[t] = "refused" => Nowhere(t)'
  BY DEF Found
<1>1. pc'[t] = pc[t] /\ Need(t)' = Need(t)
  BY DEF Need
<1>2. Nowhere(t)' = Nowhere(t)
  BY <1>1 DEF Nowhere, Block
<1>3. NotBehind(t)' = NotBehind(t)
  BY <1>1 DEF NotBehind, Ahead, Block
<1> QED
  BY <1>1, <1>2, <1>3 DEF Found

LEMMA MallocSound ==
  ASSUME Sound, NEW t \in Thread, NEW n \in Sizes, Malloc(t, n)
  PROVE  Sound'
<1> USE DEF Malloc, Go, pool
<1>1. Chain' /\ SearchLow' /\ Walking' /\ Counts'
  BY PoolSame
<1>2. Locked'
  BY DEF Sound, Locked, PC
<1>3. Called'
  BY DEF Sound, Called, Locked
<1>4. Sized'
  BY DEF Sound, Sized, Block
<1>5. Shared'
  <2>1. pc[t] = "idle" /\ pc \in [Thread -> PC] /\ call \in [Thread -> [want : Sizes \cup {0}, old : 0..End \cup {NoBlock}]]
    BY DEF Sound, Locked, Called
  <2>2. \A u \in Thread : Leaving(u)' = Leaving(u)
    BY <2>1 DEF Leaving
  <2>3. \A b : Room(b)' = Room(b)
    BY DEF Room
  <2> QED
    BY <2>2, <2>3 DEF Sound, Shared
<1>6. Found'
  <2>1. \A u \in Thread : pc'[u] \in {"search", "refused"} => pc'[u] = pc[u] /\ call'[u].want = call[u].want
    BY DEF Sound, Locked, Called
  <2> QED
    BY <2>1, FoundSame DEF Sound
<1> QED
  BY <1>1, <1>2, <1>3, <1>4, <1>5, <1>6 DEF Sound

LEMMA FreeBlockSound ==
  ASSUME Sound, NEW t \in Thread, NEW b \in held[t], FreeBlock(t, b)
  PROVE  Sound'
<1> USE DEF FreeBlock, Go, pool
<1>0. /\ pc[t] = "idle" /\ pc \in [Thread -> PC]
      /\ call \in [Thread -> [want : Sizes \cup {0}, old : 0..End \cup {NoBlock}]]
      /\ held \in [Thread -> SUBSET (DOMAIN size)] /\ b \in DOMAIN size /\ b \in 0..End
  BY ChainOrder DEF Sound, Locked, Called, Shared, Sized
<1>1. Chain' /\ SearchLow' /\ Walking' /\ Counts'
  BY PoolSame
<1>2. Locked'
  BY <1>0 DEF Sound, Locked, PC
<1>3. Called'
  <2>1. call' \in [Thread -> [want : Sizes \cup {0}, old : 0..End \cup {NoBlock}]]
    BY <1>0
  <2>2. \A u \in Thread : u # t => pc'[u] = pc[u] /\ call'[u] = call[u] /\ held'[u] = held[u]
    BY <1>0
  <2>3. pc'[t] = "free"
    BY <1>0
  <2> QED
    BY <2>1, <2>2, <2>3 DEF Sound, Called
<1>4. Sized'
  BY DEF Sound, Sized, Block
<1>5. Shared'
  <2>1. \A u \in Thread : u # t => Leaving(u)' = Leaving(u) /\ held'[u] = held[u]
    BY <1>0 DEF Leaving
  <2>2. Leaving(t) = {} /\ Leaving(t)' = {b} /\ held'[t] = held[t] \ {b}
    BY <1>0 DEF Leaving
  <2>3. \A x : Room(x)' = Room(x)
    BY DEF Room
  <2>4. held' \in [Thread -> SUBSET (DOMAIN size)]
    BY <1>0
  <2>5. \A u \in Thread : /\ Leaving(u)' \cup held'[u] = Leaving(u) \cup held[u]
                          /\ held'[u] \subseteq held[u]
    BY <2>1, <2>2
  <2>6. \A u \in Thread : Leaving(u)' \subseteq DOMAIN size /\ Leaving(u)' \cap held'[u] = {}
    BY <1>0, <2>1, <2>2 DEF Sound, Shared
  <2> QED
    BY <2>3, <2>4, <2>5, <2>6 DEF Sound, Shared
<1>6. Found'
  <2>1. \A u \in Thread : pc'[u] \in {"search", "refused"} => pc'[u] = pc[u] /\ call'[u].want = call[u].want
    BY <1>0
  <2> QED
    BY <2>1, FoundSame DEF Sound
<1> QED
  BY <1>1, <1>2, <1>3, <1>4, <1>5, <1>6 DEF Sound

LEMMA ReallocSound ==
  ASSUME Sound, NEW t \in Thread, NEW b \in held[t], NEW n \in Sizes, Realloc(t, b, n)
  PROVE  Sound'
<1> USE DEF Realloc, Go, pool
<1>0. /\ pc[t] = "idle" /\ pc \in [Thread -> PC]
      /\ call \in [Thread -> [want : Sizes \cup {0}, old : 0..End \cup {NoBlock}]]
      /\ held \in [Thread -> SUBSET (DOMAIN size)] /\ b \in DOMAIN size /\ b \in 0..End
  BY ChainOrder DEF Sound, Locked, Called, Shared, Sized
<1>1. Chain' /\ SearchLow' /\ Walking' /\ Counts'
  BY PoolSame
<1>2. Locked'
  BY <1>0 DEF Sound, Locked, PC
<1>3. Called'
  <2>1. call' \in [Thread -> [want : Sizes \cup {0}, old : 0..End \cup {NoBlock}]]
    BY <1>0
  <2>2. \A u \in Thread : u # t => pc'[u] = pc[u] /\ call'[u] = call[u]
    BY <1>0
  <2>3. CASE n <= size[b]
    BY <2>3 DEF Sound, Called
  <2>4. CASE ~(n <= size[b])
    <3>1. pc'[t] = "malloc" /\ call'[t] = [want |-> n, old |-> b]
      BY <1>0, <2>4
    <3> QED
      BY <2>1, <2>2, <3>1 DEF Sound, Called
  <2> QED
    BY <2>3, <2>4
<1>4. Sized' /\ DOMAIN size' = DOMAIN size /\ \A x \in DOMAIN size : size'[x] <= size[x] /\ size'[x] \in Nat /\ size[x] \in Nat
  <2>1. \A x \in DOMAIN size : size[x] \in Sizes /\ size[x] \in Nat /\ n \in Nat
    BY Numbers DEF Sound, Sized
  <2>2. \A x \in DOMAIN size : size'[x] \in Sizes /\ size'[x] <= size[x]
    BY <2>1
  <2>3. DOMAIN size' = DOMAIN size
    OBVIOUS
  <2> QED
    BY <2>1, <2>2, <2>3, Numbers DEF Sound, Sized, Block
<1>5. Shared'
  <2>1. \A u \in Thread : Leaving(u)' = Leaving(u)
    BY <1>0 DEF Leaving
  <2>2. \A u \in Thread : \A x \in held[u] : Room(x) \in Int /\ Room(x)' = Room(x) /\ x \in DOMAIN size
    <3>1. Chain
      BY DEF Sound
    <3>2. \A x \in DOMAIN size : x \in Nat /\ next[x] \in Nat
      BY <3>1, ChainOrder DEF Sound, Sized
    <3>3. \A u \in Thread : held[u] \subseteq DOMAIN size
      BY <1>0
    <3> QED
      BY <3>2, <3>3, Numbers DEF Room
  <2>3. \A u \in Thread : \A x \in held'[u] : Room(x)' >= Header + size'[x]
    <3> TAKE u \in Thread
    <3> TAKE x \in held'[u]
    <3>1. x \in held[u] /\ Room(x) >= Header + size[x]
      BY DEF Sound, Shared
    <3> QED
      BY <1>4, <2>2, <3>1, Numbers
  <2> QED
    BY <1>4, <2>1, <2>3 DEF Sound, Shared
<1>6. Found'
  <2>1. \A u \in Thread : pc'[u] \in {"search", "refused"} => pc'[u] = pc[u] /\ call'[u].want = call[u].want
    BY <1>0
  <2> QED
    BY <2>1, FoundSame DEF Sound
<1> QED
  BY <1>1, <1>2, <1>3, <1>4, <1>5, <1>6 DEF Sound

-----------------------------------------------------------------------------
(* A call begins, is refused, or gives a block back *)

(* The run of free blocks that begins with b is over at some block. *)
LEMMA RunEnds ==
  ASSUME Chain, NEW b \in free
  PROVE  \E d \in Block \ free : b < d /\ \A x \in Block : b <= x /\ x < d => x \in free
<1> DEFINE Before(d) == {x \in Block : x < d}
           C == {Before(d) : d \in {e \in Block \ free : b < e}}
<1>1. C # {}
  <2>1. End \in Block \ free /\ b <= End /\ b # End /\ b \in Nat
    BY ChainOrder
  <2>2. b < End
    BY <2>1, Numbers
  <2> QED
    BY <2>1, <2>2
<1>2. PICK s \in C : \A u \in C : ~(u \subseteq s /\ u # s)
  <2>1. C \in SUBSET (SUBSET Block)
    OBVIOUS
  <2>2. IsFiniteSet(Block)
    BY ChainOrder
  <2> HIDE DEF C
  <2> QED
    BY <1>1, <2>1, <2>2, Minimal
<1>3. PICK d \in Block \ free : b < d /\ s = Before(d)
  OBVIOUS
<1>4. \A x \in Block : b <= x /\ x < d => x \in free
  <2> SUFFICES ASSUME NEW x \in Block, b <= x, x < d, x \notin free PROVE FALSE
    OBVIOUS
  <2>1. x \in Nat /\ d \in Nat /\ b \in Nat
    BY ChainOrder
  <2>2. b < x
    BY <2>1
  <2>3. Before(x) \in C
    BY <2>2
  <2>4. Before(x) \subseteq Before(d) /\ x \in Before(d) /\ x \notin Before(x)
    <3>1. \A y \in Block : y \in Nat
      BY ChainOrder
    <3>2. \A y \in Block : y < x => y < d
      BY <2>1, <3>1
    <3>3. x \in Before(d) /\ x \notin Before(x)
      BY <2>1
    <3>4. Before(x) \subseteq Before(d)
      BY <3>2
    <3> QED
      BY <3>3, <3>4
  <2> HIDE DEF C, Before
  <2> QED
    BY <1>2, <1>3, <2>3, <2>4
<1> QED
  BY <1>3, <1>4

LEMMA FragsTwo ==
  ASSUME Chain, Counts
  PROVE  frags \in Nat /\ frags >= 2
<1>1. IsFiniteSet(Block) /\ {0, End} \subseteq Block /\ End # 0
  BY ChainOrder, Numbers
<1>2. Cardinality({0} \cup {End}) = 2
  <2>1. IsFiniteSet({0}) /\ Cardinality({0}) = 1
    BY FS_Singleton
  <2>2. Cardinality({0} \cup {End}) = Cardinality({0}) + 1
    BY <1>1, <2>1, FS_AddElement
  <2> QED
    BY <2>1, <2>2
<1>3. {0} \cup {End} \in SUBSET Block
  BY <1>1
<1>4. Cardinality({0} \cup {End}) <= Cardinality(Block) /\ Cardinality(Block) \in Nat
  BY <1>1, <1>3, FS_Subset, FS_CardinalityType
<1> QED
  BY <1>2, <1>4 DEF Counts

(* The test on the counters is right. *)
LEMMA HopelessNowhere ==
  ASSUME Chain, Counts, Called, NEW t \in Thread, Hopeless(t)
  PROVE  Nowhere(t)
<1> SUFFICES ASSUME NEW b \in free PROVE Small(Block, free, b, End + 1, Need(t))
  BY DEF Nowhere
<1>1. PICK d \in Block \ free : b < d /\ \A x \in Block : b <= x /\ x < d => x \in free
  BY RunEnds
<1>2. b \in Nat /\ d \in Nat /\ d <= End /\ b \in Block
  BY ChainOrder
<1>3. avail \in Nat /\ d - b <= avail
  <2>1. Linked(next) /\ free \in SUBSET (DOMAIN next \ {End})
    BY DEF Chain, Block
  <2>2. Words(next, free) \in Nat
    BY <2>1, WordsFree, Numbers
  <2>3. b <= d /\ b \in DOMAIN next /\ d \in DOMAIN next
    BY <1>1, <1>2 DEF Block
  <2>4. d - b <= Words(next, free)
    BY <1>1, <2>1, <2>3, WordsFree DEF Block
  <2> QED
    BY <2>2, <2>4 DEF Counts
<1>4. avail <= Need(t)
  <2>1. \A k, o \in Nat : k * o \in Nat
    OBVIOUS
  <2>2. frags - 2 \in Nat
    BY FragsTwo
  <2>3. (frags - 2) * Overhead \in Nat
    BY <2>1, <2>2, Numbers
  <2>4. Need(t) >= avail + (frags - 2) * Overhead
    BY DEF Hopeless
  <2> QED
    BY <1>3, <2>3, <2>4, NeedType
<1>5. d - b - Overhead < Need(t) /\ d < End + 1
  BY <1>2, <1>3, <1>4, NeedType, Numbers
<1> QED
  BY <1>1, <1>5 DEF Small

LEMMA AllocStartSound ==
  ASSUME Sound, NEW t \in Thread, AllocStart(t)
  PROVE  Sound'
<1> USE DEF AllocStart, Go, pool
<1>0. /\ pc[t] = "malloc" /\ lock = NoThread /\ pc \in [Thread -> PC]
      /\ Chain /\ Counts /\ Called /\ Locked
      /\ lock' = t /\ walk' = [cur |-> search, left |-> ToExamine, met |-> FALSE]
      /\ pc' = [pc EXCEPT ![t] = IF Hopeless(t) THEN "refused" ELSE "search"]
      /\ UNCHANGED <<next, free, avail, frags, search, size, call, held>>
  BY DEF Sound, Locked
<1>1. Chain' /\ SearchLow' /\ Counts'
  BY PoolSame
<1>2. \A u \in Thread : u # t => pc'[u] = pc[u] /\ pc[u] \notin {"search", "refused"}
  BY <1>0, OneInside
<1>3. pc'[t] = (IF Hopeless(t) THEN "refused" ELSE "search")
  BY <1>0
<1>4. Locked'
  BY <1>0, <1>2, <1>3 DEF Locked, PC
<1>5. Called'
  BY <1>0, <1>2, <1>3 DEF Called
<1>6. Sized'
  BY DEF Sound, Sized, Block
<1>7. Shared'
  <2>1. \A u \in Thread : Leaving(u)' = Leaving(u)
    BY <1>0, <1>2, <1>3 DEF Leaving
  <2>2. \A b : Room(b)' = Room(b)
    BY DEF Room
  <2> QED
    BY <2>1, <2>2 DEF Sound, Shared
<1>8. Walking'
  <2>1. search \in 0..End /\ search \in Block /\ ToExamine \in Nat
    BY <1>0, ChainOrder, FragsTwo DEF ToExamine
  <2>2. \A b \in free : search <= b
    BY DEF Sound, SearchLow
  <2> QED
    BY <1>0, <2>1, <2>2 DEF Walking, Block
<1>9. Found'
  <2>1. Hopeless(t) => Nowhere(t)'
    <3>1. Hopeless(t) => Nowhere(t)
      BY <1>0, HopelessNowhere
    <3> QED
      BY <1>0, <3>1 DEF Nowhere, Block, Need
  <2>2. NotBehind(t)'
    <3>1. walk'.left = frags + 1 /\ walk'.cur = search
      BY <1>0 DEF ToExamine
    <3>2. Ahead' \in SUBSET Block
      BY <1>0 DEF Ahead, Block
    <3>3. Cardinality(Ahead') <= frags /\ Cardinality(Ahead') \in Nat
      BY <1>0, <3>2, ChainOrder, FS_Subset, FS_CardinalityType DEF Counts
    <3>4. walk'.left > Cardinality(Ahead')
      BY <1>0, <3>1, <3>3, FragsTwo
    <3>5. \A b \in free' : ~(b < walk'.cur)
      <4> TAKE b \in free'
      <4>1. b \in Nat /\ search \in Nat
        BY <1>0, ChainOrder
      <4>2. search <= b
        BY DEF Sound, SearchLow
      <4> QED
        BY <3>1, <4>1, <4>2
    <3> QED
      BY <3>4, <3>5 DEF NotBehind
  <2> QED
    BY <1>2, <1>3, <2>1, <2>2 DEF Found
<1> QED
  BY <1>1, <1>4, <1>5, <1>6, <1>7, <1>8, <1>9 DEF Sound

LEMMA RefusedSound ==
  ASSUME Sound, NEW t \in Thread, Refused(t)
  PROVE  Sound'
<1> USE DEF Refused, Go, pool
<1>0. /\ pc[t] = "refused" /\ pc \in [Thread -> PC] /\ Locked /\ Called /\ lock = t
      /\ lock' = NoThread /\ walk' = NoWalk
      /\ call' = [call EXCEPT ![t] = NoCall] /\ pc' = [pc EXCEPT ![t] = "idle"]
      /\ UNCHANGED <<next, free, avail, frags, search, size, held>>
  BY DEF Sound, Locked
<1>1. Chain' /\ SearchLow' /\ Counts'
  BY PoolSame
<1>2. \A u \in Thread : u # t => pc'[u] = pc[u] /\ pc[u] \notin {"search", "refused"}
  BY <1>0, OneInside
<1>3. pc'[t] = "idle"
  BY <1>0
<1>4. Locked'
  <2>1. \A u \in Thread : pc'[u] \notin {"search", "refused"}
    BY <1>2, <1>3
  <2> QED
    BY <1>0, <2>1, HeapAssumption DEF Locked, PC
<1>5. Called'
  <2>1. call' \in [Thread -> [want : Sizes \cup {0}, old : 0..End \cup {NoBlock}]]
    BY <1>0 DEF Called, NoCall
  <2>2. call'[t].old = NoBlock /\ \A u \in Thread : u # t => call'[u] = call[u]
    BY <1>0 DEF Called, NoCall
  <2> QED
    BY <1>0, <1>2, <1>3, <2>1, <2>2 DEF Called
<1>6. Sized'
  BY DEF Sound, Sized, Block
<1>7. Shared'
  <2>1. \A u \in Thread : Leaving(u)' = Leaving(u)
    BY <1>0, <1>2, <1>3 DEF Leaving, Called
  <2>2. \A b : Room(b)' = Room(b)
    BY DEF Room
  <2> QED
    BY <2>1, <2>2 DEF Sound, Shared
<1>8. Walking'
  BY <1>0, Numbers DEF Walking, NoWalk
<1>9. Found'
  BY <1>2, <1>3 DEF Found
<1> QED
  BY <1>1, <1>4, <1>5, <1>6, <1>7, <1>8, <1>9 DEF Sound

LEMMA ReleaseSound ==
  ASSUME Sound, NEW t \in Thread, Release(t)
  PROVE  Sound'
<1> DEFINE b == call[t].old
<1>0. /\ pc[t] = "free" /\ pc \in [Thread -> PC] /\ Locked /\ Called /\ Chain /\ lock = NoThread
      /\ free' = free \cup {b} /\ avail' = avail + GivenBack(b) /\ search' = SearchBack(b)
      /\ size' = Restrict(size, DOMAIN size \ {b})
      /\ call' = [call EXCEPT ![t] = NoCall] /\ pc' = [pc EXCEPT ![t] = "idle"]
      /\ UNCHANGED <<next, frags, lock, walk, held>>
  BY DEF Sound, Locked, Release, Go
<1>1. b \in DOMAIN size /\ b \in Block \ (free \cup {End}) /\ Leaving(t) = {b}
  BY <1>0 DEF Sound, Shared, Sized, Leaving
<1> HIDE DEF b
<1>2. Block' = Block
  BY <1>0 DEF Block
<1>3. b \in Nat /\ next[b] \in Nat /\ b < next[b]
  BY <1>0, <1>1, ChainOrder
<1>4. Chain'
  BY <1>0, <1>1, <1>2 DEF Chain, SearchBack
<1>5. SearchLow'
  <2> SUFFICES ASSUME NEW x \in free' PROVE search' <= x
    BY DEF SearchLow
  <2>1. x \in Nat /\ search \in Nat
    BY <1>0, <1>1, ChainOrder
  <2>2. x # b => search <= x
    BY <1>0 DEF Sound, SearchLow
  <2> QED
    BY <1>0, <1>3, <2>1, <2>2 DEF SearchBack
<1>6. Counts'
  <2>1. Linked(next) /\ free \cup {b} \in SUBSET (DOMAIN next \ {End}) /\ free \in SUBSET (DOMAIN next \ {End})
    BY <1>0, <1>1 DEF Chain, Block
  <2>2. Weighs(next, free \cup {b})
    BY <2>1, LinkedWeighs
  <2>3. (free \cup {b}) \ {b} = free
    BY <1>1
  <2>4. Words(next, free \cup {b}) = Words(next, free) + (next[b] - b)
    BY <2>2, <2>3, WordsRest
  <2> QED
    BY <1>0, <1>2, <2>4 DEF Sound, Counts, GivenBack
<1>7. \A u \in Thread : u # t => pc'[u] = pc[u] /\ call'[u] = call[u]
  BY <1>0
<1>8. pc'[t] = "idle" /\ call'[t] = NoCall
  BY <1>0 DEF Called
<1>9. \A u \in Thread : pc'[u] \notin {"search", "refused"}
  BY <1>0, <1>7, <1>8, OneInside
<1>10. Locked'
  BY <1>0, <1>9, HeapAssumption DEF Locked, PC
<1>11. Called'
  <2>1. call' \in [Thread -> [want : Sizes \cup {0}, old : 0..End \cup {NoBlock}]]
    BY <1>0 DEF Called, NoCall
  <2> QED
    BY <1>0, <1>7, <1>8, <2>1 DEF Called, NoCall
<1>12. DOMAIN size' = DOMAIN size \ {b} /\ \A x \in DOMAIN size' : size'[x] = size[x]
  BY <1>0 DEF Restrict
<1>13. Sized'
  BY <1>0, <1>1, <1>2, <1>12 DEF Sound, Sized
<1>14. Shared'
  <2>1. Leaving(t)' = {} /\ \A u \in Thread : u # t => Leaving(u)' = Leaving(u)
    BY <1>0, <1>7, <1>8 DEF Leaving
  <2>2. \A x : Room(x)' = Room(x)
    BY <1>0 DEF Room
  <2>3. \A u \in Thread : b \notin held[u] /\ (u # t => b \notin Leaving(u))
    BY <1>1 DEF Sound, Shared
  <2>4. held' \in [Thread -> SUBSET (DOMAIN size')]
    BY <1>0, <1>12, <2>3 DEF Sound, Shared
  <2>5. \A u \in Thread : Leaving(u)' \subseteq DOMAIN size' /\ Leaving(u)' \cap held'[u] = {}
    BY <1>0, <1>12, <2>1, <2>3 DEF Sound, Shared
  <2>6. \A u, v \in Thread : u # v => (held'[u] \cup Leaving(u)') \cap (held'[v] \cup Leaving(v)') = {}
    BY <1>0, <2>1 DEF Sound, Shared
  <2>7. \A x \in DOMAIN size' : \E u \in Thread : x \in held'[u] \cup Leaving(u)'
    <3> TAKE x \in DOMAIN size'
    <3>1. PICK u \in Thread : x \in held[u] \cup Leaving(u)
      BY <1>12 DEF Sound, Shared
    <3>2. x # b
      BY <1>12
    <3> QED
      BY <1>0, <1>1, <2>1, <3>1, <3>2
  <2>8. \A u \in Thread : \A x \in held'[u] : Room(x)' >= Header + size'[x]
    BY <1>0, <1>12, <2>2, <2>4 DEF Sound, Shared
  <2> QED
    BY <2>4, <2>5, <2>6, <2>7, <2>8 DEF Shared
<1>15. Walking'
  BY <1>0, HeapAssumption DEF Sound, Walking
<1>16. Found'
  BY <1>9 DEF Found
<1> QED
  BY <1>4, <1>5, <1>6, <1>10, <1>11, <1>13, <1>14, <1>15, <1>16 DEF Sound

-----------------------------------------------------------------------------
(* The search *)

(* What a step of the search keeps that goes on or is refused. *)
LEMMA SearchSame ==
  ASSUME Sound, NEW t \in Thread, pc[t] = "search", NEW b, NEW n, Onwards(t, b, n),
         UNCHANGED <<lock, call, held, size>>
  PROVE  /\ lock = t /\ Locked' /\ Called'
         /\ pc'[t] = IF walk.left > n THEN "search" ELSE "refused"
         /\ \A u \in Thread : u # t => pc'[u] \notin {"search", "refused"}
         /\ \A u \in Thread : Leaving(u)' = Leaving(u)
         /\ walk'.cur = b /\ walk'.left = (IF walk.left > n THEN walk.left - n ELSE 0)
         /\ walk'.met = (walk.met \/ walk.cur \in free)
<1>0. pc \in [Thread -> PC] /\ Locked /\ lock = t
  BY DEF Sound, Locked
<1>1. pc' = IF walk.left > n THEN pc ELSE [pc EXCEPT ![t] = "refused"]
  BY DEF Onwards, Go
<1>2. \A u \in Thread : u # t => pc'[u] = pc[u] /\ pc[u] \notin {"search", "refused"}
  BY <1>0, <1>1, OneInside
<1>3. pc'[t] = IF walk.left > n THEN "search" ELSE "refused"
  BY <1>0, <1>1
<1>4. pc' \in [Thread -> PC]
  BY <1>0, <1>1 DEF PC
<1>5. Locked'
  BY <1>0, <1>2, <1>3, <1>4 DEF Locked
<1>6. Called'
  BY <1>2, <1>3 DEF Sound, Called
<1>7. \A u \in Thread : Leaving(u)' = Leaving(u)
  BY <1>2, <1>3 DEF Leaving
<1>8. /\ walk'.cur = b /\ walk'.left = (IF walk.left > n THEN walk.left - n ELSE 0)
      /\ walk'.met = (walk.met \/ walk.cur \in free)
  BY DEF Onwards
<1> QED
  BY <1>0, <1>2, <1>3, <1>5, <1>6, <1>7, <1>8

(* The search stands at a block; with a thread inside, Found and Walking   *)
(* speak of that thread.                                                   *)
LEMMA SearchAt ==
  ASSUME Sound, NEW t \in Thread, pc[t] = "search"
  PROVE  /\ walk.cur \in Block /\ walk.cur \in Nat /\ walk.left \in Nat /\ walk.met \in BOOLEAN
         /\ ~walk.met => \A b \in free : walk.cur <= b
         /\ Nowhere(t) \/ NotBehind(t)
         /\ IsFiniteSet(Ahead) /\ Cardinality(Ahead) \in Nat
         /\ Chain /\ Called /\ Need(t) \in Nat
<1>1. Chain /\ Called /\ lock = t /\ lock # NoThread
  BY HeapAssumption DEF Sound, Locked
<1>2. walk.cur \in Block /\ walk.cur \in Nat /\ walk.left \in Nat /\ walk.met \in BOOLEAN
  BY <1>1, ChainOrder DEF Sound, Walking
<1>3. ~walk.met => \A b \in free : walk.cur <= b
  BY <1>1 DEF Sound, Walking
<1>4. Nowhere(t) \/ NotBehind(t)
  BY DEF Sound, Found
<1>5. IsFiniteSet(Ahead) /\ Cardinality(Ahead) \in Nat
  <2>1. Ahead \in SUBSET Block
    BY DEF Ahead
  <2> QED
    BY <1>1, <2>1, ChainOrder, FS_Subset, FS_CardinalityType
<1> QED
  BY <1>1, <1>2, <1>3, <1>4, <1>5, NeedType

LEMMA PassUsedSound ==
  ASSUME Sound, NEW t \in Thread, PassUsed(t)
  PROVE  Sound'
<1> DEFINE c == walk.cur
<1>0. /\ pc[t] = "search" /\ c \notin free /\ Onwards(t, next[c], 1)
      /\ UNCHANGED <<next, free, avail, frags, search>> /\ UNCHANGED <<lock, call, held, size>>
      /\ UNCHANGED pool
  BY DEF PassUsed, pool
<1>1. Chain' /\ SearchLow' /\ Counts'
  BY <1>0, PoolSame
<1>2. /\ lock = t /\ Locked' /\ Called'
      /\ pc'[t] = IF walk.left > 1 THEN "search" ELSE "refused"
      /\ \A u \in Thread : u # t => pc'[u] \notin {"search", "refused"}
      /\ \A u \in Thread : Leaving(u)' = Leaving(u)
      /\ walk'.cur = next[c] /\ walk'.left = (IF walk.left > 1 THEN walk.left - 1 ELSE 0)
      /\ walk'.met = (walk.met \/ walk.cur \in free)
  BY <1>0, SearchSame
<1>3. /\ c \in Block /\ c \in Nat /\ walk.left \in Nat /\ walk.met \in BOOLEAN
      /\ ~walk.met => \A b \in free : c <= b
      /\ Nowhere(t) \/ NotBehind(t)
      /\ IsFiniteSet(Ahead) /\ Cardinality(Ahead) \in Nat
      /\ Chain /\ Called /\ Need(t) \in Nat
  BY <1>0, SearchAt
<1>4. \A b \in free : b # c /\ b \in Nat /\ b \in Block /\ b # End /\ b <= End
  BY <1>0, <1>3, ChainOrder
<1>5. Block' = Block /\ next[c] \in Block /\ next[c] \in Nat /\ next[c] \in 0..End
  BY <1>0, <1>3, ChainOrder DEF Block
<1>6. Need(t)' = Need(t) /\ (Nowhere(t) => Nowhere(t)')
  BY <1>0 DEF Need, Nowhere, Block
<1>7. Sized'
  BY <1>0 DEF Sound, Sized, Block
<1>8. Shared'
  <2>1. \A b : Room(b)' = Room(b)
    BY <1>0 DEF Room
  <2> QED
    BY <1>0, <1>2, <2>1 DEF Sound, Shared
<1>9. Walking'
  <2>1. walk' \in [cur : 0..End, left : Nat, met : BOOLEAN]
    BY <1>0, <1>3, <1>5 DEF Onwards
  <2>2. ~walk'.met => \A b \in free : next[c] <= b
    <3> SUFFICES ASSUME ~walk'.met, NEW b \in free PROVE next[c] <= b
      OBVIOUS
    <3>1. c < b
      BY <1>2, <1>3, <1>4
    <3>2. c # End
      BY <1>4, <3>1, Numbers
    <3> QED
      BY <1>3, <1>4, <3>1, <3>2, ChainOrder
  <2> QED
    BY <1>0, <1>2, <1>5, <2>1, <2>2 DEF Walking
<1>10. CASE Nowhere(t)
  <2>1. Found'
    BY <1>2, <1>6, <1>10 DEF Found
  <2> QED
    BY <1>1, <1>2, <1>7, <1>8, <1>9, <2>1 DEF Sound
<1>11. CASE NotBehind(t)
  <2>1. c \in Ahead /\ walk.left > Cardinality(Ahead)
    BY <1>3, <1>11 DEF Ahead, NotBehind
  <2>2. Cardinality(Ahead) >= 1
    <3>1. Ahead # {}
      BY <2>1
    <3>2. Cardinality(Ahead) # 0
      BY <1>3, <3>1, FS_EmptySet
    <3> QED
      BY <1>3, <3>2
  <2>3. walk.left > 1 /\ pc'[t] = "search"
    BY <1>2, <1>3, <2>1, <2>2
  <2>4. CASE c = End
    <3>1. Nowhere(t)
      <4> SUFFICES ASSUME NEW b \in free PROVE Small(Block, free, b, End + 1, Need(t))
        BY DEF Nowhere
      <4>1. b < c
        BY <1>4, <2>4, Numbers
      <4>2. Small(Block, free, b, c, Need(t))
        BY <1>11, <4>1 DEF NotBehind
      <4> QED
        BY <1>3, <2>4, <4>2, Numbers, ChainOrder, SmallWider
    <3> QED
      BY <1>10, <3>1
  <2>5. CASE c # End
    <3>1. c < next[c] /\ \A d \in Block : c < d => next[c] <= d
      BY <1>3, <2>5, ChainOrder
    <3>2. Ahead' = Ahead \ {c}
      <4>1. \A d \in Block : next[c] <= d <=> c <= d /\ d # c
        <5> TAKE d \in Block
        <5>1. d \in Nat
          BY <1>3, ChainOrder
        <5>2. c < d => next[c] <= d
          BY <3>1
        <5> QED
          BY <1>3, <1>5, <3>1, <5>1, <5>2
      <4> QED
        BY <1>2, <1>5, <4>1 DEF Ahead
    <3>3. Cardinality(Ahead') = Cardinality(Ahead) - 1
      BY <1>3, <2>1, <3>2, FS_RemoveElement
    <3>4. walk'.left > Cardinality(Ahead')
      BY <1>2, <1>3, <2>1, <2>3, <3>3
    <3>5. \A b \in free : b < next[c] => Small(Block, free, b, next[c], Need(t))
      <4> SUFFICES ASSUME NEW b \in free, b < next[c] PROVE Small(Block, free, b, next[c], Need(t))
        OBVIOUS
      <4>1. b < c
        <5>1. c < b => next[c] <= b
          BY <1>4, <3>1
        <5> QED
          BY <1>3, <1>4, <1>5, <5>1
      <4>2. Small(Block, free, b, c, Need(t))
        BY <1>11, <4>1 DEF NotBehind
      <4>3. c <= next[c] /\ Block \in SUBSET Nat
        BY <1>3, <1>5, <3>1, ChainOrder
      <4> QED
        BY <1>3, <1>5, <4>2, <4>3, SmallWider
    <3>6. NotBehind(t)'
      BY <1>0, <1>2, <1>5, <1>6, <3>4, <3>5 DEF NotBehind
    <3>7. Found'
      BY <1>2, <2>3, <3>6 DEF Found
    <3> QED
      BY <1>1, <1>2, <1>7, <1>8, <1>9, <3>7 DEF Sound
  <2> QED
    BY <2>4, <2>5
<1> QED
  BY <1>3, <1>10, <1>11

LEMMA PassSmallSound ==
  ASSUME Sound, NEW t \in Thread, PassSmall(t)
  PROVE  Sound'
<1> DEFINE c == walk.cur
           m == next[c]
<1>0. /\ pc[t] = "search" /\ c \in free /\ Room(c) < Need(t) /\ m \notin free
      /\ search' = FirstFree /\ Onwards(t, next[m], 2)
      /\ UNCHANGED <<next, free, avail, frags>> /\ UNCHANGED <<lock, call, held, size>>
  BY DEF PassSmall
<1>2. /\ lock = t /\ Locked' /\ Called'
      /\ pc'[t] = IF walk.left > 2 THEN "search" ELSE "refused"
      /\ \A u \in Thread : u # t => pc'[u] \notin {"search", "refused"}
      /\ \A u \in Thread : Leaving(u)' = Leaving(u)
      /\ walk'.cur = next[m] /\ walk'.left = (IF walk.left > 2 THEN walk.left - 2 ELSE 0)
      /\ walk'.met = (walk.met \/ walk.cur \in free)
  BY <1>0, SearchSame
<1>3. /\ c \in Block /\ c \in Nat /\ walk.left \in Nat /\ walk.met \in BOOLEAN
      /\ ~walk.met => \A b \in free : c <= b
      /\ Nowhere(t) \/ NotBehind(t)
      /\ IsFiniteSet(Ahead) /\ Cardinality(Ahead) \in Nat
      /\ Chain /\ Called /\ Need(t) \in Nat
  BY <1>0, SearchAt
<1>4. \A b \in free : b \in Nat /\ b \in Block /\ b # End /\ b <= End
  BY <1>3, ChainOrder
<1>5. /\ Block' = Block /\ m \in Block /\ m \in Nat /\ next[m] \in Block /\ next[m] \in Nat
      /\ next[m] \in 0..End /\ c < m /\ \A d \in Block : c < d => m <= d
  BY <1>0, <1>3, <1>4, ChainOrder DEF Block
<1>6. Need(t)' = Need(t) /\ (Nowhere(t) => Nowhere(t)')
  BY <1>0 DEF Need, Nowhere, Block
<1>7. Sized'
  BY <1>0 DEF Sound, Sized, Block
<1>8. Shared'
  <2>1. \A b : Room(b)' = Room(b)
    BY <1>0 DEF Room
  <2> QED
    BY <1>0, <1>2, <2>1 DEF Sound, Shared
<1>9. Walking'
  <2>1. walk' \in [cur : 0..End, left : Nat, met : BOOLEAN]
    BY <1>0, <1>3, <1>5 DEF Onwards
  <2> QED
    BY <1>0, <1>2, <1>5, <2>1 DEF Walking
<1>10. FirstFree \in Block /\ \A b \in free : FirstFree <= b
  BY <1>3 DEF FirstFree, Sound, SearchLow, Chain
<1>11. Chain' /\ SearchLow' /\ Counts'
  BY <1>0, <1>3, <1>5, <1>10 DEF Sound, Chain, SearchLow, Counts
<1>12. \A e \in Nat : m < e => Small(Block, free, c, e, Need(t))
  <2> SUFFICES ASSUME NEW e \in Nat, m < e PROVE Small(Block, free, c, e, Need(t))
    OBVIOUS
  <2>1. m - c - Overhead < Need(t)
    BY <1>0 DEF Room
  <2>2. \A x \in Block : c <= x /\ x < m => x \in free
    <3> TAKE x \in Block
    <3>1. x \in Nat /\ (c < x => m <= x)
      BY <1>3, <1>5, ChainOrder
    <3>2. x = c => x \in free
      BY <1>0
    <3> QED
      BY <1>3, <1>5, <3>1, <3>2
  <2> QED
    BY <1>0, <1>5, <2>1, <2>2 DEF Small
<1>13. CASE Nowhere(t)
  <2>1. Found'
    BY <1>2, <1>6, <1>13 DEF Found
  <2> QED
    BY <1>2, <1>7, <1>8, <1>9, <1>11, <2>1 DEF Sound
<1>14. CASE NotBehind(t)
  <2>1. CASE m = End
    <3>1. Nowhere(t)
      <4> SUFFICES ASSUME NEW b \in free PROVE Small(Block, free, b, End + 1, Need(t))
        BY DEF Nowhere
      <4>1. CASE b < c
        <5>1. Small(Block, free, b, c, Need(t))
          BY <1>14, <4>1 DEF NotBehind
        <5> QED
          BY <1>3, <1>5, <2>1, <5>1, Numbers, ChainOrder, SmallWider
      <4>2. CASE b = c
        BY <1>5, <1>12, <2>1, <4>2, Numbers
      <4>3. CASE c < b
        BY <1>4, <1>5, <2>1, <4>3, Numbers
      <4> QED
        BY <1>3, <1>4, <4>1, <4>2, <4>3
    <3> QED
      BY <1>13, <3>1
  <2>2. CASE m # End
    <3>1. m < next[m] /\ \A d \in Block : m < d => next[m] <= d
      BY <1>3, <1>5, <2>2, ChainOrder
    <3>2. c \in Ahead /\ m \in Ahead \ {c} /\ End \in (Ahead \ {c}) \ {m}
      BY <1>0, <1>3, <1>4, <1>5, <2>2, ChainOrder DEF Ahead
    <3>3. Ahead' = (Ahead \ {c}) \ {m}
      <4>1. \A d \in Block : next[m] <= d <=> c <= d /\ d # c /\ d # m
        <5> TAKE d \in Block
        <5>1. d \in Nat
          BY <1>3, ChainOrder
        <5>2. (c < d => m <= d) /\ (m < d => next[m] <= d)
          BY <1>5, <3>1
        <5> QED
          BY <1>3, <1>5, <3>1, <5>1, <5>2
      <4> QED
        BY <1>2, <1>5, <4>1 DEF Ahead
    <3>4. Cardinality(Ahead') = Cardinality(Ahead) - 2 /\ Cardinality(Ahead') >= 1
      <4>1. IsFiniteSet(Ahead \ {c}) /\ Cardinality(Ahead \ {c}) = Cardinality(Ahead) - 1
        BY <1>3, <3>2, FS_RemoveElement
      <4>2. IsFiniteSet(Ahead') /\ Cardinality(Ahead') = Cardinality(Ahead \ {c}) - 1
        BY <3>2, <3>3, <4>1, FS_RemoveElement
      <4>3. Cardinality(Ahead') \in Nat /\ Cardinality(Ahead') # 0
        BY <3>2, <3>3, <4>2, FS_EmptySet, FS_CardinalityType
      <4> QED
        BY <1>3, <4>1, <4>2, <4>3
    <3>5. walk.left > Cardinality(Ahead)
      BY <1>14 DEF NotBehind
    <3>6. pc'[t] = "search" /\ walk'.left > Cardinality(Ahead')
      BY <1>2, <1>3, <3>4, <3>5
    <3>7. \A b \in free : b < next[m] => Small(Block, free, b, next[m], Need(t))
      <4> SUFFICES ASSUME NEW b \in free, b < next[m] PROVE Small(Block, free, b, next[m], Need(t))
        OBVIOUS
      <4>1. CASE b < c
        <5>1. Small(Block, free, b, c, Need(t))
          BY <1>14, <4>1 DEF NotBehind
        <5>2. c <= next[m] /\ Block \in SUBSET Nat
          BY <1>3, <1>5, <3>1, ChainOrder
        <5> QED
          BY <1>3, <1>5, <5>1, <5>2, SmallWider
      <4>2. CASE b = c
        BY <1>5, <1>12, <3>1, <4>2
      <4>3. CASE c < b
        <5>1. m <= b /\ b # m
          BY <1>0, <1>4, <1>5, <4>3
        <5>2. next[m] <= b
          BY <1>4, <1>5, <3>1, <5>1
        <5> QED
          BY <1>4, <1>5, <5>2
      <4> QED
        BY <1>3, <1>4, <4>1, <4>2, <4>3
    <3>8. NotBehind(t)'
      BY <1>0, <1>2, <1>5, <1>6, <3>6, <3>7 DEF NotBehind
    <3>9. Found'
      BY <1>2, <3>6, <3>8 DEF Found
    <3> QED
      BY <1>2, <1>7, <1>8, <1>9, <1>11, <3>9 DEF Sound
  <2> QED
    BY <2>1, <2>2
<1> QED
  BY <1>3, <1>13, <1>14

LEMMA JoinSound ==
  ASSUME Sound, NEW t \in Thread, Join(t)
  PROVE  Sound'
<1> DEFINE c == walk.cur
           m == next[c]
<1>0. /\ pc[t] = "search" /\ c \in free /\ Room(c) < Need(t) /\ m \in free
      /\ next' = [b \in Block \ {m} |-> IF b = c THEN next[m] ELSE next[b]]
      /\ free' = free \ {m} /\ frags' = frags - 1
      /\ search' = IF FirstFree = m THEN c ELSE FirstFree
      /\ Onwards(t, c, 1)
      /\ avail' = avail /\ UNCHANGED <<lock, call, held, size>>
  BY DEF Join
<1>2. /\ lock = t /\ Locked' /\ Called'
      /\ pc'[t] = IF walk.left > 1 THEN "search" ELSE "refused"
      /\ \A u \in Thread : u # t => pc'[u] \notin {"search", "refused"}
      /\ \A u \in Thread : Leaving(u)' = Leaving(u)
      /\ walk'.cur = c /\ walk'.left = (IF walk.left > 1 THEN walk.left - 1 ELSE 0)
      /\ walk'.met = (walk.met \/ walk.cur \in free)
  BY <1>0, SearchSame
<1>3. /\ c \in Block /\ c \in Nat /\ walk.left \in Nat /\ walk.met \in BOOLEAN
      /\ ~walk.met => \A b \in free : c <= b
      /\ Nowhere(t) \/ NotBehind(t)
      /\ IsFiniteSet(Ahead) /\ Cardinality(Ahead) \in Nat
      /\ Chain /\ Called /\ Need(t) \in Nat
  BY <1>0, SearchAt
<1>4. \A b \in free : b \in Nat /\ b \in Block /\ b # End /\ b <= End
  BY <1>3, ChainOrder
<1>5. /\ m \in Block /\ m \in Nat /\ next[m] \in Block /\ next[m] \in Nat /\ m < next[m]
      /\ c < m /\ \A d \in Block : c < d => m <= d
  BY <1>0, <1>3, <1>4, ChainOrder
<1>6. next' = Joining(next, c) /\ Linked(next) /\ Block = DOMAIN next
  BY <1>0, <1>3 DEF Joining, Block, Chain
<1>7. Block' = Block \ {m} /\ Linked(next)'
  <2>1. Linked(Joining(next, c))
    BY <1>0, <1>3, <1>4, <1>6, LinkedJoin
  <2> QED
    BY <1>0, <1>6, <2>1 DEF Block
<1>8. FirstFree \in Block /\ \A b \in free : FirstFree <= b
  BY <1>3 DEF FirstFree, Sound, SearchLow, Chain
<1>9. FirstFree # m /\ search' = FirstFree
  BY <1>0, <1>3, <1>5, <1>8
<1>10. Chain' /\ SearchLow'
  BY <1>0, <1>3, <1>7, <1>8, <1>9 DEF Chain, SearchLow
<1>11. Counts'
  <2>1. Cardinality(Block') = frags - 1
    BY <1>3, <1>5, <1>7, ChainOrder, FS_RemoveElement DEF Sound, Counts
  <2>2. Weighs(next, free) /\ Weighs(next, free \ {m}) /\ Weighs(next, (free \ {m}) \ {c})
    BY <1>3, LinkedWeighs DEF Chain, Block
  <2>3. free \ {m} \in SUBSET (DOMAIN next' \ {End})
    BY <1>4, <1>7 DEF Block
  <2>4. Weighs(next', free \ {m})
    BY <1>7, <2>3, LinkedWeighs
  <2>5. c \in free \ {m} /\ next'[c] = next[m] /\ \A b \in (free \ {m}) \ {c} : next'[b] = next[b]
    BY <1>0, <1>3, <1>4, <1>5
  <2> DEFINE R == (free \ {m}) \ {c}
  <2>6. Words(next, free) = Words(next, free \ {m}) + (next[m] - m)
    BY <1>0, <2>2, WordsRest
  <2>7. Words(next, free \ {m}) = Words(next, R) + (m - c)
    BY <2>2, <2>5, WordsRest
  <2>8. Words(next', free \ {m}) = Words(next', R) + (next[m] - c)
    BY <2>4, <2>5, WordsRest
  <2>9. Words(next', R) = Words(next, R)
    BY <2>2, <2>5, WordsSame
  <2>10. Words(next, R) \in Nat
    BY <2>2, WordsRest
  <2> HIDE DEF R, c, m
  <2>11. Words(next', free \ {m}) = Words(next, free)
    BY <1>3, <1>5, <2>6, <2>7, <2>8, <2>9, <2>10
  <2> QED
    BY <1>0, <2>1, <2>11 DEF Sound, Counts
<1>12. Sized'
  BY <1>0, <1>4, <1>7 DEF Sound, Sized
<1>13. Shared'
  <2>1. \A u \in Thread : \A x \in held[u] : x \in Block /\ x \notin free
    BY DEF Sound, Shared, Sized
  <2>2. \A u \in Thread : \A x \in held[u] : next'[x] = next[x]
    BY <1>0, <2>1
  <2>3. \A u \in Thread : \A x \in held[u] : Room(x)' = Room(x)
    BY <2>2 DEF Room
  <2> QED
    BY <1>0, <1>2, <2>3 DEF Sound, Shared
<1>14. Walking'
  <2>1. c \in 0..End /\ c \in Block'
    BY <1>3, <1>5, <1>7, ChainOrder
  <2>2. walk' \in [cur : 0..End, left : Nat, met : BOOLEAN]
    BY <1>0, <1>3, <2>1 DEF Onwards
  <2> QED
    BY <1>0, <1>2, <2>1, <2>2 DEF Walking
<1>15. Need(t)' = Need(t)
  BY <1>0 DEF Need
<1>16. \A b, e : Small(Block, free, b, e, Need(t)) => Small(Block', free', b, e, Need(t)')
  BY <1>0, <1>7, <1>15, SmallJoined
<1>17. CASE Nowhere(t)
  <2>1. Nowhere(t)'
    BY <1>0, <1>16, <1>17 DEF Nowhere
  <2>2. Found'
    BY <1>2, <2>1 DEF Found
  <2> QED
    BY <1>2, <1>10, <1>11, <1>12, <1>13, <1>14, <2>2 DEF Sound
<1>18. CASE NotBehind(t)
  <2>1. Ahead' = Ahead \ {m} /\ m \in Ahead /\ c \in Ahead'
    BY <1>2, <1>3, <1>5, <1>7 DEF Ahead
  <2>2. Cardinality(Ahead') = Cardinality(Ahead) - 1 /\ Cardinality(Ahead') \in Nat
    BY <1>3, <2>1, FS_RemoveElement, FS_CardinalityType
  <2>3. Cardinality(Ahead') # 0
    BY <1>3, <2>1, FS_RemoveElement, FS_EmptySet
  <2>4. walk.left > Cardinality(Ahead)
    BY <1>18 DEF NotBehind
  <2>5. pc'[t] = "search" /\ walk'.left > Cardinality(Ahead')
    BY <1>2, <1>3, <2>2, <2>3, <2>4
  <2>6. NotBehind(t)'
    BY <1>0, <1>2, <1>16, <1>18, <2>5 DEF NotBehind
  <2>7. Found'
    BY <1>2, <2>5, <2>6 DEF Found
  <2> QED
    BY <1>2, <1>10, <1>11, <1>12, <1>13, <1>14, <2>7 DEF Sound
<1> QED
  BY <1>3, <1>17, <1>18

(* Whether the block found is split or not, it is large enough, and the    *)
(* pool is in order after it.                                              *)
LEMMA TakePool ==
  ASSUME Sound, NEW t \in Thread, Take(t)
  PROVE  /\ Chain' /\ SearchLow' /\ Counts'
         /\ walk.cur \in free /\ walk.cur \in Block'
         /\ Block' \ (free' \cup {End}) = (Block \ (free \cup {End})) \cup {walk.cur}
         /\ next'[walk.cur] - walk.cur - Overhead >= Need(t)
         /\ \A b \in Block \ free : next'[b] = next[b]
<1> DEFINE c == walk.cur
           r == c + Need(t) + Overhead
           n == next[c]
<1>1. /\ pc[t] = "search" /\ c \in free /\ Room(c) >= Need(t)
      /\ IF Splits(t)
         THEN /\ next' = Split(c, Need(t)) /\ free' = (free \ {c}) \cup {r}
              /\ frags' = frags + 1 /\ avail' = avail - Need(t) - Overhead
         ELSE /\ free' = free \ {c} /\ avail' = avail - Room(c) - Overhead
              /\ next' = next /\ frags' = frags
      /\ search' = SearchAfter(c)
  BY DEF Take
<1>2. /\ c \in Block /\ c \in Nat /\ walk.met \in BOOLEAN
      /\ ~walk.met => \A b \in free : c <= b
      /\ Chain /\ Called /\ Need(t) \in Nat
  BY <1>1, SearchAt
<1>3. \A b \in free : b \in Nat /\ b \in Block /\ b # End /\ b <= End
  BY <1>2, ChainOrder
<1>4. n \in Block /\ n \in Nat /\ c < n /\ \A d \in Block : c < d => n <= d
  BY <1>1, <1>2, <1>3, ChainOrder
<1>5. FirstFree \in Block /\ \A b \in free : FirstFree <= b
  BY <1>1, <1>2 DEF FirstFree, Sound, SearchLow, Chain
<1>6. Linked(next) /\ Block = DOMAIN next /\ free \in SUBSET (DOMAIN next \ {End})
  BY <1>2 DEF Chain, Block
<1>7. Weighs(next, free) /\ Weighs(next, free \ {c})
  BY <1>6, LinkedWeighs
<1>8. /\ Words(next, free) = Words(next, free \ {c}) + (n - c)
      /\ Words(next, free \ {c}) \in Nat /\ avail = Words(next, free)
      /\ frags = Cardinality(Block)
  BY <1>1, <1>7, WordsRest DEF Sound, Counts
<1>9. Room(c) = n - c - Overhead
  BY DEF Room
<1>10. \A b \in free \ {c} : FirstFree = c => n <= b
  <2> SUFFICES ASSUME NEW b \in free \ {c}, FirstFree = c PROVE n <= b
    OBVIOUS
  <2>1. c <= b /\ b \in Nat /\ b \in Block
    BY <1>3, <1>5
  <2> QED
    BY <1>2, <1>4, <2>1
<1>11. FirstFree <= c /\ FirstFree \in Nat
  BY <1>1, <1>2, <1>5, ChainOrder
<1>12. CASE ~Splits(t)
  <2>1. free' = free \ {c} /\ avail' = avail - Room(c) - Overhead /\ next' = next /\ frags' = frags /\ Block' = Block
    BY <1>1, <1>12 DEF Block
  <2>2. search' = IF FirstFree = c THEN n ELSE FirstFree
    BY <1>1, <2>1 DEF SearchAfter
  <2>3. Chain'
    BY <1>2, <1>4, <1>5, <2>1, <2>2 DEF Chain
  <2>4. SearchLow'
    BY <1>5, <1>10, <2>1, <2>2 DEF SearchLow
  <2>5. Counts'
    <3>1. avail' = Words(next, free \ {c})
      <4> HIDE DEF n
      <4> QED
        BY <1>2, <1>4, <1>8, <1>9, <2>1, Numbers
    <3> QED
      BY <1>8, <2>1, <3>1 DEF Counts
  <2>6. Block' \ (free' \cup {End}) = (Block \ (free \cup {End})) \cup {c}
    BY <1>1, <1>2, <1>3, <2>1
  <2>7. next'[c] - c - Overhead >= Need(t)
    BY <1>1, <1>9, <2>1
  <2> QED
    BY <1>1, <1>2, <2>1, <2>3, <2>4, <2>5, <2>6, <2>7
<1>13. CASE Splits(t)
  <2>1. /\ free' = (free \ {c}) \cup {r} /\ frags' = frags + 1 /\ avail' = avail - Need(t) - Overhead
        /\ next' = Splitting(next, c, r)
    BY <1>1, <1>13 DEF Split, Splitting, Block
  <2>2. r \in Nat /\ c + Overhead <= r /\ r + Overhead <= n /\ c < r
    <3>1. n - c - Overhead - Need(t) >= SplitMin
      BY <1>9, <1>13 DEF Splits
    <3> HIDE DEF n
    <3>2. Need(t) >= 0
      BY <1>2
    <3> QED
      BY <1>2, <1>4, <3>1, <3>2, Numbers
  <2> HIDE DEF r
  <2>3. /\ Linked(next') /\ r \notin Block /\ Block' = Block \cup {r}
        /\ next'[r] = n /\ next'[c] = r
        /\ \A b \in Block \ {c} : next'[b] = next[b]
    <3>1. c \in DOMAIN next /\ c # End /\ r + Overhead <= next[c]
      BY <1>1, <1>2, <1>3, <1>6, <2>2
    <3> QED
      BY <1>6, <2>1, <2>2, <3>1, LinkedSplit DEF Block
  <2>4. search' = IF FirstFree = c THEN r ELSE FirstFree
    BY <1>1, <2>3 DEF SearchAfter
  <2>5. r # End /\ free' \subseteq Block' \ {End}
    <3>1. r # End
      BY <2>3, <1>2, ChainOrder
    <3> QED
      BY <1>3, <2>1, <2>3, <3>1
  <2>6. Chain'
    BY <1>5, <2>3, <2>4, <2>5 DEF Chain
  <2>7. SearchLow'
    <3> SUFFICES ASSUME NEW b \in free' PROVE search' <= b
      BY DEF SearchLow
    <3>1. CASE b = r
      BY <1>2, <1>11, <2>2, <2>4, <3>1
    <3>2. CASE b # r
      <4>1. b \in free \ {c} /\ b \in Nat /\ FirstFree <= b
        BY <1>3, <1>5, <2>1, <3>2
      <4>2. FirstFree = c => n <= b
        BY <1>10, <4>1
      <4>3. r <= n
        BY <1>4, <2>2, Numbers
      <4> HIDE DEF n
      <4> QED
        BY <1>4, <2>2, <2>4, <4>1, <4>2, <4>3
    <3> QED
      BY <3>1, <3>2
  <2>8. Counts'
    <3>1. Cardinality(Block') = frags + 1
      BY <1>2, <1>8, <2>3, ChainOrder, FS_AddElement
    <3>2. free' \in SUBSET (DOMAIN next' \ {End})
      BY <2>5 DEF Block
    <3>3. Weighs(next', free')
      BY <2>3, <3>2, LinkedWeighs
    <3>4. r \in free' /\ free' \ {r} = free \ {c}
      BY <1>3, <2>1, <2>3
    <3>5. Words(next', free') = Words(next', free \ {c}) + (n - r)
      BY <2>3, <3>3, <3>4, WordsRest
    <3>6. \A b \in free \ {c} : next'[b] = next[b]
      BY <1>3, <2>3
    <3>7. Words(next', free \ {c}) = Words(next, free \ {c})
      BY <1>7, <3>6, WordsSame
    <3> DEFINE w == Words(next, free \ {c})
    <3>8. Words(next', free') = w + (n - r) /\ w \in Nat /\ avail = w + (n - c)
      BY <1>8, <3>5, <3>7
    <3>9. r = c + Need(t) + Overhead
      BY DEF r
    <3> HIDE DEF w, n
    <3>10. avail' = Words(next', free')
      BY <1>2, <1>4, <2>1, <2>2, <3>8, <3>9, Numbers
    <3> QED
      BY <2>1, <3>1, <3>10 DEF Counts
  <2>9. Block' \ (free' \cup {End}) = (Block \ (free \cup {End})) \cup {c}
    BY <1>1, <1>2, <1>3, <2>1, <2>3
  <2>10. next'[c] - c - Overhead >= Need(t)
    BY <1>2, <2>3, Numbers DEF r
  <2> QED
    BY <1>1, <1>2, <2>3, <2>6, <2>7, <2>8, <2>9, <2>10
<1> QED
  BY <1>12, <1>13

LEMMA TakeSound ==
  ASSUME Sound, NEW t \in Thread, Take(t)
  PROVE  Sound'
<1> DEFINE c == walk.cur
           old == call[t].old
<1>1. /\ Chain' /\ SearchLow' /\ Counts'
      /\ c \in free /\ c \in Block'
      /\ Block' \ (free' \cup {End}) = (Block \ (free \cup {End})) \cup {c}
      /\ next'[c] - c - Overhead >= Need(t)
      /\ \A b \in Block \ free : next'[b] = next[b]
  BY TakePool
<1>2. /\ pc[t] = "search"
      /\ held' = [held EXCEPT ![t] = (@ \cup {c}) \ {old}]
      /\ size' = [d \in DOMAIN size \cup {c} |-> IF d = c THEN call[t].want ELSE size[d]]
      /\ call' = [call EXCEPT ![t].want = 0]
      /\ pc' = [pc EXCEPT ![t] = IF old = NoBlock THEN "idle" ELSE "free"]
      /\ lock' = NoThread /\ walk' = NoWalk
  BY DEF Take, Hand, Go
<1>3. /\ c \in Block /\ c \in Nat /\ Chain /\ Called /\ Need(t) \in Nat /\ Locked
  BY <1>2, SearchAt DEF Sound
<1> HIDE DEF c, old
<1>4. /\ pc \in [Thread -> PC] /\ lock = t
      /\ call \in [Thread -> [want : Sizes \cup {0}, old : 0..End \cup {NoBlock}]]
      /\ held \in [Thread -> SUBSET (DOMAIN size)]
      /\ DOMAIN size = Block \ (free \cup {End})
  BY <1>2, <1>3 DEF Locked, Called, Sound, Shared, Sized
<1>5. c \notin DOMAIN size /\ NoBlock \notin DOMAIN size /\ NoBlock # c /\ old \in held[t] \cup {NoBlock} /\ call[t].want \in Sizes
  <2>1. NoBlock \notin Block
    BY <1>3, ChainOrder, HeapAssumption
  <2>2. old \in held[t] \cup {NoBlock} /\ call[t].want \in Sizes
    BY <1>2, <1>3 DEF Called, old
  <2> QED
    BY <1>1, <1>3, <1>4, <2>1, <2>2
<1>6. \A u \in Thread : u # t => pc'[u] = pc[u] /\ call'[u] = call[u] /\ held'[u] = held[u]
  BY <1>2, <1>4
<1>7. /\ pc'[t] = (IF old = NoBlock THEN "idle" ELSE "free")
      /\ call'[t].old = old /\ call'[t].want = 0
      /\ held'[t] = (held[t] \cup {c}) \ {old}
  BY <1>2, <1>4 DEF old
<1>8. \A u \in Thread : pc'[u] \notin {"search", "refused"}
  BY <1>3, <1>4, <1>6, <1>7, OneInside
<1>9. Locked'
  BY <1>2, <1>4, <1>8, HeapAssumption DEF Locked, PC
<1>10. Called'
  <2>1. call' \in [Thread -> [want : Sizes \cup {0}, old : 0..End \cup {NoBlock}]]
    BY <1>2, <1>4
  <2> QED
    BY <1>3, <1>6, <1>7, <2>1 DEF Called
<1>11. DOMAIN size' = DOMAIN size \cup {c} /\ size'[c] = call[t].want /\ \A b \in DOMAIN size : size'[b] = size[b]
  BY <1>2, <1>5
<1>12. Sized'
  BY <1>1, <1>4, <1>5, <1>11 DEF Sound, Sized
<1>13. Shared'
  <2>1. /\ Leaving(t) = {} /\ Leaving(t)' = (IF old = NoBlock THEN {} ELSE {old})
        /\ \A u \in Thread : u # t => Leaving(u)' = Leaving(u)
    BY <1>2, <1>6, <1>7 DEF Leaving
  <2>2. /\ held'[t] \cup Leaving(t)' = held[t] \cup Leaving(t) \cup {c}
        /\ held'[t] \cap Leaving(t)' = {} /\ held'[t] \subseteq held[t] \cup {c}
    BY <1>4, <1>5, <1>7, <2>1
  <2>3. \A u \in Thread : held[u] \cup Leaving(u) \subseteq DOMAIN size
    BY <1>4 DEF Sound, Shared
  <2>4. held' \in [Thread -> SUBSET (DOMAIN size')]
    BY <1>2, <1>4, <1>11
  <2>5. \A u \in Thread : Leaving(u)' \subseteq DOMAIN size' /\ Leaving(u)' \cap held'[u] = {}
    <3> TAKE u \in Thread
    <3>1. CASE u = t
      <4>1. Leaving(t)' \subseteq DOMAIN size \cup {c}
        BY <2>2, <2>3
      <4> QED
        BY <1>11, <2>2, <3>1, <4>1
    <3>2. CASE u # t
      BY <1>6, <1>11, <2>1, <3>2 DEF Sound, Shared
    <3> QED
      BY <3>1, <3>2
  <2>6. \A u, v \in Thread : u # v => (held'[u] \cup Leaving(u)') \cap (held'[v] \cup Leaving(v)') = {}
    <3>1. \A u, v \in Thread : u # v => (held[u] \cup Leaving(u)) \cap (held[v] \cup Leaving(v)) = {}
      BY DEF Sound, Shared
    <3>2. \A u \in Thread : held'[u] \cup Leaving(u)' = IF u = t THEN held[t] \cup Leaving(t) \cup {c} ELSE held[u] \cup Leaving(u)
      BY <1>6, <2>1, <2>2
    <3>3. \A u \in Thread : c \notin held[u] \cup Leaving(u)
      BY <1>5, <2>3
    <3> QED
      BY <3>1, <3>2, <3>3
  <2>7. \A b \in DOMAIN size' : \E u \in Thread : b \in held'[u] \cup Leaving(u)'
    <3> TAKE b \in DOMAIN size'
    <3>1. CASE b = c
      BY <2>2, <3>1
    <3>2. CASE b # c
      <4>1. PICK u \in Thread : b \in held[u] \cup Leaving(u)
        BY <1>11, <3>2 DEF Sound, Shared
      <4> QED
        BY <1>6, <2>1, <2>2, <4>1
    <3> QED
      BY <3>1, <3>2
  <2>8. \A u \in Thread : \A b \in held'[u] : Room(b)' >= Header + size'[b]
    <3> TAKE u \in Thread
    <3> TAKE b \in held'[u]
    <3>1. Room(b)' = next'[b] - b - Overhead
      BY DEF Room
    <3>2. CASE b = c
      <4>1. size'[b] = call[t].want /\ Need(t) = Header + call[t].want
        BY <1>11, <3>2 DEF Need
      <4> QED
        BY <1>1, <3>1, <3>2, <4>1
    <3>3. CASE b # c
      <4>1. b \in held[u] /\ b \in DOMAIN size
        BY <1>4, <1>6, <1>7, <3>3
      <4>2. next'[b] = next[b] /\ size'[b] = size[b] /\ Room(b) >= Header + size[b]
        BY <1>1, <1>4, <1>11, <4>1 DEF Sound, Shared
      <4> QED
        BY <3>1, <4>2 DEF Room
    <3> QED
      BY <3>2, <3>3
  <2> QED
    BY <2>4, <2>5, <2>6, <2>7, <2>8 DEF Shared
<1>14. Walking'
  BY <1>2, Numbers DEF Walking, NoWalk
<1>15. Found'
  BY <1>8 DEF Found
<1> QED
  BY <1>1, <1>9, <1>10, <1>12, <1>13, <1>14, <1>15 DEF Sound

-----------------------------------------------------------------------------
(* The theorems *)

LEMMA InitSound ==
  ASSUME Init
  PROVE  Sound
<1> USE DEF Init
<1>1. Block = {0, End} /\ next[0] = End /\ next[End] = 0 /\ End # 0
  BY Numbers DEF Block
<1>2. Linked(next)
  <2>1. next \in [{0, End} -> {0, End}]
    OBVIOUS
  <2> QED
    BY <1>1, <2>1, Numbers DEF Linked, Block
<1>3. Chain /\ SearchLow
  BY <1>1, <1>2, Numbers DEF Chain, SearchLow
<1>4. Counts
  <2>1. frags = Cardinality(Block)
    <3>1. IsFiniteSet({0}) /\ Cardinality({0}) = 1 /\ Block = {0} \cup {End}
      BY <1>1, FS_Singleton
    <3>2. Cardinality({0} \cup {End}) = Cardinality({0}) + 1
      BY <1>1, <3>1, FS_AddElement
    <3> QED
      BY <3>1, <3>2
  <2>2. Words(next, {0}) = Words(next, {0} \ {0}) + (next[0] - 0) /\ Words(next, {}) = 0
    <3>1. Weighs(next, {0})
      BY <1>1, <1>2, LinkedWeighs DEF Block
    <3> QED
      BY <3>1, WordsRest
  <2>3. {0} \ {0} = {}
    OBVIOUS
  <2>4. Words(next, {0}) = 0 + (End - 0)
    BY <1>1, <2>2, <2>3
  <2>5. Words(next, {0}) = End
    BY <2>4, Numbers
  <2> QED
    BY <2>1, <2>5 DEF Counts
<1>5. Locked
  BY HeapAssumption DEF Locked, PC
<1>6. Called
  BY DEF Called, NoCall
<1>7. Sized
  BY <1>1 DEF Sized
<1>8. Shared
  BY DEF Shared, Leaving
<1>9. Walking
  BY Numbers DEF Walking, NoWalk
<1>10. Found
  BY DEF Found
<1> QED
  BY <1>3, <1>4, <1>5, <1>6, <1>7, <1>8, <1>9, <1>10 DEF Sound

LEMMA NextSound ==
  ASSUME Sound, [Next]_vars
  PROVE  Sound'
<1>1. CASE UNCHANGED vars
  <2> USE DEF vars, pool
  <2>1. Chain' /\ SearchLow' /\ Counts' /\ Walking'
    BY <1>1, PoolSame
  <2>2. Locked' /\ Called'
    BY <1>1 DEF Sound, Locked, Called
  <2>3. Sized'
    BY <1>1 DEF Sound, Sized, Block
  <2>4. Shared'
    BY <1>1 DEF Sound, Shared, Leaving, Room
  <2>5. Found'
    BY <1>1, FoundSame DEF Sound
  <2> QED
    BY <2>1, <2>2, <2>3, <2>4, <2>5 DEF Sound
<1>2. ASSUME NEW t \in Thread, Step(t) \/ Client(t)
      PROVE  Sound'
  BY <1>2, AllocStartSound, PassUsedSound, JoinSound, PassSmallSound, TakeSound, RefusedSound,
     ReleaseSound, MallocSound, FreeBlockSound, ReallocSound
     DEF Step, Search, Client
<1> QED
  BY <1>1, <1>2 DEF Next

(* The inductive invariant holds: in particular the search knows enough at *)
(* every block it stands at.                                               *)
THEOREM Soundness == Spec => []Sound
<1> QED
  BY InitSound, NextSound, PTL DEF Spec

LEMMA SoundInv ==
  ASSUME Sound
  PROVE  Inv
<1>1. Linked(next) /\ Block = DOMAIN next /\ free \in SUBSET (DOMAIN next \ {End}) /\ Chain
  BY DEF Sound, Chain, Block
<1>2. /\ Block \subseteq 0..End /\ {0, End} \subseteq Block
      /\ next \in [Block -> Block] /\ free \subseteq Block \ {End} /\ search \in Block
  BY <1>1 DEF Linked, Chain
<1>3. avail \in 0..End /\ frags \in Nat
  <2>1. avail = Words(next, free)
    BY DEF Sound, Counts
  <2> QED
    BY <1>1, <2>1, WordsFree, FragsTwo DEF Sound
<1>4. DOMAIN size \subseteq Block \ {End} /\ \A b \in DOMAIN size : size[b] \in Sizes
  BY DEF Sound, Sized
<1>5. held \in [Thread -> SUBSET (Block \ {End})]
  BY <1>4 DEF Sound, Shared
<1>6. call \in [Thread -> [want : Sizes \cup {0}, old : Block \cup {NoBlock}]]
  <2>1. call \in [Thread -> [want : Sizes \cup {0}, old : 0..End \cup {NoBlock}]]
    BY DEF Sound, Called
  <2>2. \A t \in Thread : call[t].old \in Block \cup {NoBlock}
    <3> TAKE t \in Thread
    <3>1. CASE pc[t] = "free"
      BY <1>4, <3>1 DEF Sound, Shared, Leaving
    <3>2. CASE pc[t] # "free"
      BY <1>5, <3>2 DEF Sound, Called
    <3> QED
      BY <3>1, <3>2
  <2>3. \A t \in Thread : call[t] \in [want : Sizes \cup {0}, old : Block \cup {NoBlock}]
    <3> TAKE t \in Thread
    <3>1. call[t] \in [want : Sizes \cup {0}, old : 0..End \cup {NoBlock}]
      BY <2>1
    <3> QED
      BY <2>2, <3>1
  <2> QED
    BY <2>1, <2>3
<1>7. TypeOK
  BY <1>2, <1>3, <1>4, <1>5, <1>6 DEF TypeOK, Sound, Locked, Walking
<1>8. Tiled
  BY <1>1 DEF Tiled, Linked
<1>9. Counted
  BY DEF Sound, Counts, Counted, Words
<1> QED
  BY <1>7, <1>8, <1>9 DEF Inv, Sound

(* Through every splitting, joining, handing out and giving back, also     *)
(* between the steps of a search, the blocks tile the memory, the counters *)
(* of _tx_byte_pool_search are right, and searches start no later than the *)
(* first free block.                                                       *)
THEOREM InvHolds == Spec => []Inv
<1> QED
  BY Soundness, SoundInv, PTL

(* Every block in use is one thread's, or is being given back by one, and  *)
(* has room for what heap.c's header says.                                 *)
THEOREM OwnedHolds == Spec => []Owned
<1>1. ASSUME Sound
      PROVE  Owned
  <2>1. DOMAIN size = Block \ (free \cup {End})
    BY <1>1 DEF Sound, Sized
  <2>2. \A t, u \in Thread : t # u => held[t] \cap held[u] = {}
    BY <1>1 DEF Sound, Shared
  <2> DEFINE H == UNION {held[t] : t \in Thread}
             L == {call[t].old : t \in {u \in Thread : pc[u] = "free"}}
  <2>3. H \cup L \subseteq DOMAIN size
    <3>1. H \subseteq DOMAIN size
      BY <1>1 DEF Sound, Shared
    <3>2. L \subseteq DOMAIN size
      BY <1>1 DEF Sound, Shared, Leaving
    <3> QED
      BY <3>1, <3>2
  <2>4. DOMAIN size \subseteq H \cup L
    <3> SUFFICES ASSUME NEW b \in DOMAIN size PROVE b \in H \cup L
      OBVIOUS
    <3>1. PICK t \in Thread : b \in held[t] \cup Leaving(t)
      BY <1>1 DEF Sound, Shared
    <3>2. CASE b \in held[t]
      BY <3>2
    <3>3. CASE b \in Leaving(t)
      BY <3>3 DEF Leaving
    <3> QED
      BY <3>1, <3>2, <3>3
  <2>5. H \cup L = Block \ (free \cup {End})
    BY <2>1, <2>3, <2>4
  <2>6. \A t \in Thread : \A b \in held[t] : Room(b) >= Header + size[b]
    BY <1>1 DEF Sound, Shared
  <2> QED
    BY <2>2, <2>5, <2>6 DEF Owned
<1> QED
  BY <1>1, Soundness, PTL

(* A request is refused for good reason only: wherever the search began,   *)
(* whatever it joined, and whatever it was told by the counters.           *)
THEOREM RefusedForGoodHolds == Spec => []RefusedForGood
<1>1. ASSUME Sound
      PROVE  RefusedForGood
  <2> SUFFICES ASSUME NEW t \in Thread, pc[t] = "refused", NEW b \in free
               PROVE  Joined(b) < Need(t)
    BY DEF RefusedForGood
  <2>1. Small(Block, free, b, End + 1, Need(t))
    BY <1>1 DEF Sound, Found, Nowhere
  <2>2. PICK d \in Block \ free : /\ b < d /\ d - b - Overhead < Need(t)
                                  /\ \A x \in Block : b <= x /\ x < d => x \in free
    BY <2>1 DEF Small
  <2> DEFINE E == {e \in Block : \A x \in Block : b <= x /\ x < e => x \in free}
  <2>3. Block \subseteq Nat /\ b \in Nat /\ d \in Nat
    BY <1>1, ChainOrder DEF Sound
  <2>4. d \in E
    BY <2>2
  <2>5. \A e \in E : e <= d
    <3> SUFFICES ASSUME NEW e \in E, ~(e <= d) PROVE FALSE
      OBVIOUS
    <3>1. e \in Nat /\ d < e /\ b <= d
      BY <2>2, <2>3
    <3> QED
      BY <2>2, <3>1
  <2>6. \A e \in E : e \in Nat
    BY <2>3
  <2>7. Joined(b) = Max(E) - b - Overhead
    BY DEF Joined
  <2> HIDE DEF E
  <2>8. Max(E) \in E /\ \A e \in E : Max(E) >= e
    BY <2>4, <2>5, <2>6 DEF Max
  <2>9. Max(E) = d
    BY <2>4, <2>5, <2>6, <2>8
  <2> QED
    BY <2>2, <2>7, <2>9
<1> QED
  BY <1>1, Soundness, PTL

=============================================================================
