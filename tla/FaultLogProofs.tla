--------------------------- MODULE FaultLogProofs ----------------------------
(* Proofs about FaultLog for every set of faults, either charger and any    *)
(* number of failed transactions.                                           *)
EXTENDS FaultLog, SequenceTheorems, TLAPS

(* What has been read and not yet latched is in the driver's hands, which   *)
(* are empty except between the two transactions of read_and_clear_flags.   *)
Held ==
  /\ errors \in Nat
  /\ pc \in {"idle", "clear", "status"}
  /\ pc # "clear" => flags = {}
  /\ errors = 0 => seen \subseteq latch \cup flags

LEMMA InitInv == Init => Held
BY DEF Init, Held

LEMMA NextInv == Held /\ [Next]_vars => Held'
<1> SUFFICES ASSUME Held, [Next]_vars PROVE Held'
  OBVIOUS
<1> USE DEF Held
<1>1. CASE UNCHANGED vars
  BY <1>1 DEF vars
<1>2. CASE \E f \in Fault[charger] : Raise(f) \/ Fall(f)
  BY <1>2 DEF Raise, Fall
<1>3. CASE ReadFlags
  <2> DEFINE F == OfKinds(chip, FlagKinds)
  <2>1. CASE errors' = errors /\ seen' = seen \cup F /\ latch' = latch \cup F
             /\ pc' = "status" /\ flags' = flags
    BY <1>3, <2>1 DEF ReadFlags
  <2>2. CASE errors' = errors /\ seen' = seen \cup F /\ latch' = latch
             /\ pc' = "clear" /\ flags' = F
    BY <1>3, <2>2 DEF ReadFlags
  <2>3. CASE errors' = errors + 1 /\ pc' = "status" /\ flags' = flags
    BY <1>3, <2>3 DEF ReadFlags
  <2> HIDE DEF F
  <2> QED
    BY <1>3, <2>1, <2>2, <2>3, Zenon DEF ReadFlags, Fails, Latch, Keep, F
<1>4. CASE ClearSticky
  <2>1. pc' = "status" /\ flags' = {} /\ seen' = seen
    BY <1>4 DEF ClearSticky
  <2>2. \/ errors' = errors /\ latch' = latch \cup flags
        \/ errors' = errors + 1
    BY <1>4 DEF ClearSticky, Latch, Fails
  <2> QED
    BY <2>1, <2>2
<1>5. CASE ReadStatus
  <2>1. pc' = "idle" /\ flags' = flags /\ flags = {}
    BY <1>5 DEF ReadStatus
  <2>2. \/ errors' = errors /\ \E F : latch' = latch \cup F /\ seen' = seen \cup F
        \/ errors' = errors /\ latch' = latch /\ seen' = seen
        \/ errors' = errors + 1
    BY <1>5, Zenon DEF ReadStatus, Latch, Fails, Keep
  <2> QED
    BY <2>1, <2>2
<1>6. CASE ClearLatch
  BY <1>6 DEF ClearLatch
<1> QED
  BY <1>1, <1>2, <1>3, <1>4, <1>5, <1>6 DEF Next

(* As long as the bus works, no fault that was read to be latched is lost   *)
(* on the way to the latches, whenever the chip raises or drops faults.     *)
THEOREM NoFaultLost == Spec => []NothingLost
<1>1. Held => NothingLost
  BY DEF Held, NothingLost
<1> QED
  BY <1>1, InitInv, NextInv, PTL DEF Spec

-----------------------------------------------------------------------------
(* The log against everything that was ever logged.                         *)
Recent(h) == IF Len(h) <= LogMax THEN h ELSE SubSeq(h, Len(h) - LogMax + 1, Len(h))

LEMMA RecentIs ==
  ASSUME NEW S, NEW h \in Seq(S)
  PROVE  /\ Recent(h) \in Seq(S)
         /\ Len(Recent(h)) = IF Len(h) <= LogMax THEN Len(h) ELSE LogMax
         /\ \A i \in 1..Len(Recent(h)) : Recent(h)[i] = h[Len(h) - Len(Recent(h)) + i]
<1>1. Len(h) \in Nat /\ LogMax \in Nat \ {0}
  BY LenProperties, FaultLogAssumption
<1>2. CASE Len(h) <= LogMax
  BY <1>1, <1>2 DEF Recent
<1>3. CASE Len(h) > LogMax
  <2> DEFINE m == Len(h) - LogMax + 1
  <2>1. Recent(h) = SubSeq(h, m, Len(h))
    BY <1>1, <1>3 DEF Recent
  <2>2. m \in Int /\ Len(h) \in Int /\ \A i \in m..Len(h) : h[i] \in S
    BY <1>1, <1>3, ElementOfSeq
  <2>3. /\ SubSeq(h, m, Len(h)) \in Seq(S)
        /\ Len(SubSeq(h, m, Len(h))) = Len(h) - m + 1
        /\ \A i \in 1..(Len(h) - m + 1) : SubSeq(h, m, Len(h))[i] = h[m + i - 1]
    <3>1. m <= Len(h)
      BY <1>1
    <3> HIDE DEF m
    <3> QED
      BY <2>2, <3>1, SubSeqProperties
  <2>4. Len(h) - m + 1 = LogMax
    BY <1>1
  <2>5. \A i \in 1..LogMax : m + i - 1 = Len(h) - LogMax + i
    BY <1>1
  <2> HIDE DEF m
  <2> QED
    BY <1>1, <1>3, <2>1, <2>3, <2>4, <2>5
<1> QED
  BY <1>1, <1>2, <1>3

(* Adding an event to the array is adding it to the history.                *)
LEMMA RecentNext ==
  ASSUME NEW S, NEW h \in Seq(S), NEW e \in S, e # {}
  PROVE  PutEvent(Recent(h), e) = Recent(Append(h, e))
<1> DEFINE r == Recent(h)
<1> DEFINE g == Append(h, e)
<1>1. Len(h) \in Nat /\ LogMax \in Nat \ {0}
  BY LenProperties, FaultLogAssumption
<1>2. /\ g \in Seq(S) /\ Len(g) = Len(h) + 1
      /\ \A i \in 1..Len(h) : g[i] = h[i]
      /\ g[Len(h) + 1] = e
  BY AppendProperties
<1>3. CASE Len(h) < LogMax
  <2>1. r = h /\ Recent(g) = g
    <3> HIDE DEF g
    <3> QED
      BY <1>1, <1>2, <1>3 DEF Recent
  <2> QED
    BY <1>3, <2>1 DEF PutEvent
<1>4. CASE Len(h) >= LogMax
  <2>1. /\ r \in Seq(S) /\ Len(r) = LogMax
        /\ \A i \in 1..LogMax : r[i] = h[Len(h) - LogMax + i]
    <3>1. /\ Len(r) = IF Len(h) <= LogMax THEN Len(h) ELSE LogMax
          /\ r \in Seq(S)
          /\ \A i \in 1..Len(r) : r[i] = h[Len(h) - Len(r) + i]
      BY RecentIs
    <3>2. Len(r) = LogMax
      <4> HIDE DEF r
      <4> QED
        BY <1>1, <1>4, <3>1
    <3> QED
      BY <3>1, <3>2
  <2>2. /\ Recent(g) \in Seq(S) /\ Len(Recent(g)) = LogMax
        /\ \A i \in 1..LogMax : Recent(g)[i] = g[Len(h) + 1 - LogMax + i]
    <3>1. /\ Len(Recent(g)) = IF Len(g) <= LogMax THEN Len(g) ELSE LogMax
          /\ Recent(g) \in Seq(S)
          /\ \A i \in 1..Len(Recent(g)) : Recent(g)[i] = g[Len(g) - Len(Recent(g)) + i]
      <4> HIDE DEF g
      <4> QED
        BY <1>2, RecentIs
    <3>2. Len(Recent(g)) = LogMax
      <4> HIDE DEF g
      <4> QED
        BY <1>1, <1>2, <1>4, <3>1
    <3> HIDE DEF g
    <3>3. Len(g) - LogMax = Len(h) + 1 - LogMax
      BY <1>1, <1>2
    <3> QED
      BY <3>1, <3>2, <3>3
  <2> HIDE DEF r, g
  <2>3. r # << >>
    BY <1>1, <2>1, EmptySeq
  <2>4. /\ Tail(r) \in Seq(S) /\ Len(Tail(r)) = LogMax - 1
        /\ \A i \in 1..(LogMax - 1) : Tail(r)[i] = r[i + 1]
    BY <2>1, <2>3, HeadTailProperties
  <2> DEFINE p == Append(Tail(r), e)
  <2>5. /\ p \in Seq(S) /\ Len(p) = LogMax - 1 + 1
        /\ \A i \in 1..(LogMax - 1) : p[i] = Tail(r)[i]
        /\ p[LogMax - 1 + 1] = e
    BY <2>4, AppendProperties
  <2>6. LogMax - 1 + 1 = LogMax
    BY <1>1
  <2>7. PutEvent(r, e) = p
    BY <1>1, <2>1 DEF PutEvent
  <2> HIDE DEF p
  <2>8. ASSUME NEW i \in 1..LogMax
        PROVE  p[i] = Recent(g)[i]
    <3>1. CASE i = LogMax
      <4>1. Len(h) + 1 - LogMax + i = Len(h) + 1
        BY <1>1, <3>1
      <4> QED
        BY <1>2, <2>2, <2>5, <2>6, <3>1, <4>1 DEF g
    <3>2. CASE i # LogMax
      <4>1. i \in 1..(LogMax - 1) /\ i + 1 \in 1..LogMax
        BY <1>1, <3>2
      <4>2. Len(h) + 1 - LogMax + i = Len(h) - LogMax + (i + 1)
        BY <1>1
      <4>3. Len(h) - LogMax + (i + 1) \in 1..Len(h)
        BY <1>1, <1>4, <4>1
      <4>4. p[i] = r[i + 1]
        BY <2>4, <2>5, <4>1
      <4>5. r[i + 1] = h[Len(h) - LogMax + (i + 1)]
        BY <2>1, <4>1
      <4> QED
        BY <1>2, <2>2, <4>2, <4>3, <4>4, <4>5 DEF g
    <3> QED
      BY <3>1, <3>2
  <2>9. p = Recent(g)
    <3>1. Len(p) = Len(Recent(g)) /\ \A i \in 1..Len(p) : p[i] = Recent(g)[i]
      BY <2>2, <2>5, <2>6, <2>8
    <3> QED
      BY <2>2, <2>5, <3>1, SeqEqual, Zenon
  <2> QED
    BY <2>7, <2>9 DEF r, g
<1> QED
  BY <1>1, <1>3, <1>4

-----------------------------------------------------------------------------
(* A log l of a history h of faults in A whose latches are b.               *)
Ledger(l, h, b, A) ==
  /\ h \in Seq((SUBSET A) \ {{}})
  /\ l = Recent(h)
  /\ \A i, j \in DOMAIN h : i # j => h[i] \cap h[j] = {}
  /\ b = UNION Range(h)

LEMMA OneEvent ==
  ASSUME NEW l, NEW h, NEW b, NEW A, Ledger(l, h, b, A),
         NEW e \in SUBSET A, e \cap b = {}
  PROVE  Ledger(PutEvent(l, e), Note(h, e), b \cup e, A)
<1> DEFINE S == (SUBSET A) \ {{}}
<1> DEFINE g == Append(h, e)
<1>1. h \in Seq(S) /\ l = Recent(h) /\ b = UNION Range(h)
  BY DEF Ledger
<1>2. CASE e = {}
  BY <1>2 DEF PutEvent, Note, Ledger
<1>3. CASE e # {}
  <2>1. e \in S
    BY <1>3
  <2>2. Len(h) \in Nat /\ DOMAIN h = 1..Len(h)
    BY <1>1, LenProperties
  <2> HIDE DEF S
  <2>3. /\ g \in Seq(S) /\ Len(g) = Len(h) + 1
        /\ \A i \in 1..Len(h) : g[i] = h[i]
        /\ g[Len(h) + 1] = e
    BY <1>1, <2>1, AppendProperties
  <2>4. DOMAIN g = 1..(Len(h) + 1)
    <3> HIDE DEF g
    <3> QED
      BY <2>3, LenProperties
  <2>5. \A i \in 1..Len(h) : h[i] \subseteq b
    BY <1>1, <2>2 DEF Range
  <2>6. PutEvent(l, e) = Recent(g) /\ Note(h, e) = g
    BY <1>1, <1>3, <2>1, RecentNext DEF Note
  <2> HIDE DEF g
  <2>7. \A i \in 1..Len(g) : i \in 1..Len(h) \/ i = Len(h) + 1
    BY <2>2, <2>3
  <2>8. \A i, j \in DOMAIN g : i # j => g[i] \cap g[j] = {}
    <3> SUFFICES ASSUME NEW i \in DOMAIN g, NEW j \in DOMAIN g, i # j
                 PROVE  g[i] \cap g[j] = {}
      OBVIOUS
    <3>1. CASE i \in 1..Len(h) /\ j \in 1..Len(h)
      BY <2>2, <2>3, <3>1 DEF Ledger
    <3>2. CASE i = Len(h) + 1 /\ j \in 1..Len(h)
      BY <2>3, <2>5, <3>2
    <3>3. CASE j = Len(h) + 1 /\ i \in 1..Len(h)
      BY <2>3, <2>5, <3>3
    <3> QED
      BY <2>3, <2>4, <2>7, <3>1, <3>2, <3>3
  <2>9. UNION Range(g) = b \cup e
    <3>1. Range(g) = Range(h) \cup {e}
      <4>1. ASSUME NEW x \in Range(g) PROVE x \in Range(h) \cup {e}
        BY <2>2, <2>3, <2>4, <2>7 DEF Range
      <4>2. ASSUME NEW x \in Range(h) PROVE x \in Range(g)
        BY <2>2, <2>3, <2>4 DEF Range
      <4>3. e \in Range(g)
        BY <2>2, <2>3, <2>4 DEF Range
      <4> QED
        BY <4>1, <4>2, <4>3
    <3> QED
      BY <1>1, <3>1
  <2> QED
    BY <2>3, <2>6, <2>8, <2>9 DEF Ledger, S
<1> QED
  BY <1>2, <1>3

(* The three log_event calls of a refresh, one per kind.                    *)
LEMMA Kinds ==
  /\ DOMAIN <<1, 2, 3>> = 1..3 /\ DOMAIN <<0, 1, 2>> = 1..3 /\ DOMAIN << 0 >> = 1..1
  /\ Range(<<1, 2, 3>>) = {1, 2, 3} /\ Range(<<0, 1, 2>>) = {0, 1, 2} /\ Range(<< 0 >>) = {0}
  /\ \A k : Range(<<k>>) = {k}
BY DEF Range

LEMMA LatchKeeps ==
  ASSUME NEW A, Ledger(log, history, latch, A), NEW F \in SUBSET A,
         NEW kinds \in {<<1, 2, 3>>, <<0, 1, 2>>, << 0 >>},
         \A f \in F : f[1] \in Range(kinds), Latch(F, kinds)
  PROVE  Ledger(log', history', latch', A)
<1> DEFINE e == Rises(F, kinds)
<1> DEFINE e1 == e[1]
<1> DEFINE e2 == e[2]
<1> DEFINE e3 == e[3]
<1>1. /\ log' = PutEvent(PutEvent(PutEvent(log, e1), e2), e3)
      /\ history' = Note(Note(Note(history, e1), e2), e3)
      /\ latch' = latch \cup F
  BY DEF Latch, Log
<1>2. ASSUME NEW i \in 1..3
      PROVE  e[i] = IF i \in DOMAIN kinds THEN {f \in F \ latch : f[1] = kinds[i]} ELSE {}
  <2>1. e[i] = IF i \in DOMAIN kinds THEN OfKinds(F \ latch, <<kinds[i]>>) ELSE {}
    BY DEF Rises
  <2>2. OfKinds(F \ latch, <<kinds[i]>>) = {f \in F \ latch : f[1] = kinds[i]}
    <3>1. Range(<<kinds[i]>>) = {kinds[i]}
      BY Kinds
    <3> HIDE DEF e
    <3> QED
      BY <3>1 DEF OfKinds
  <2> QED
    BY <2>1, <2>2
<1>3. /\ e1 \subseteq F \ latch /\ e2 \subseteq F \ latch /\ e3 \subseteq F \ latch
      /\ \A i, j \in 1..3 : i # j => e[i] \cap e[j] = {}
      /\ F \ latch \subseteq e1 \cup e2 \cup e3
  <2>1. \A i \in DOMAIN kinds : i \in 1..3
    BY Kinds
  <2>2. \A i, j \in DOMAIN kinds : i # j => kinds[i] # kinds[j]
    BY Kinds
  <2>3. \A f \in F : \E i \in DOMAIN kinds : f[1] = kinds[i]
    BY DEF Range
  <2> HIDE DEF e
  <2>4. e1 \subseteq F \ latch /\ e2 \subseteq F \ latch /\ e3 \subseteq F \ latch
    BY <1>2
  <2>5. \A i, j \in 1..3 : i # j => e[i] \cap e[j] = {}
    BY <1>2, <2>2
  <2>6. F \ latch \subseteq e1 \cup e2 \cup e3
    <3> SUFFICES ASSUME NEW f \in F \ latch PROVE f \in e1 \cup e2 \cup e3
      OBVIOUS
    <3>1. PICK i \in DOMAIN kinds : f[1] = kinds[i]
      BY <2>3
    <3>2. i \in 1..3 /\ f \in e[i]
      BY <1>2, <2>1, <3>1
    <3>3. i = 1 \/ i = 2 \/ i = 3
      BY <3>2
    <3> QED
      BY <3>2, <3>3
  <2> QED
    BY <2>4, <2>5, <2>6
<1>4. e1 \cap e2 = {} /\ e1 \cap e3 = {} /\ e2 \cap e3 = {}
  BY <1>3
<1> HIDE DEF e1, e2, e3
<1>5. /\ e1 \in SUBSET A /\ e1 \cap latch = {}
      /\ e2 \in SUBSET A /\ e2 \cap (latch \cup e1) = {}
      /\ e3 \in SUBSET A /\ e3 \cap (latch \cup e1 \cup e2) = {}
  BY <1>3, <1>4
<1>6. Ledger(PutEvent(log, e1), Note(history, e1), latch \cup e1, A)
  BY <1>5, OneEvent
<1>7. Ledger(PutEvent(PutEvent(log, e1), e2), Note(Note(history, e1), e2), latch \cup e1 \cup e2, A)
  BY <1>5, <1>6, OneEvent
<1>8. Ledger(log', history', latch \cup e1 \cup e2 \cup e3, A)
  BY <1>1, <1>5, <1>7, OneEvent
<1>9. latch' = latch \cup e1 \cup e2 \cup e3
  BY <1>1, <1>3
<1> QED
  BY <1>8, <1>9

-----------------------------------------------------------------------------
(* What keeps the log sound: what waits between the two transactions of     *)
(* read_and_clear_flags is of the kinds that will be logged.                *)
Kept ==
  /\ charger \in Charger
  /\ chip \subseteq Fault[charger] /\ flags \subseteq Fault[charger] /\ seen \subseteq Fault[charger]
  /\ \A f \in flags : f[1] \in Range(FlagKinds)
  /\ pc \in {"idle", "clear", "status"}
  /\ errors \in 0..MaxErrors
  /\ Ledger(log, history, latch, Fault[charger])

LEMMA Latches ==
  ASSUME NEW l, NEW h, NEW b, NEW A, Ledger(l, h, b, A)
  PROVE  /\ b \subseteq A
         /\ l \in Seq((SUBSET A) \ {{}}) /\ Len(l) <= LogMax
<1>1. Range(h) \subseteq (SUBSET A) \ {{}}
  BY RangeOfSeq DEF Ledger
<1>2. b \subseteq A
  BY <1>1 DEF Ledger
<1>3. Len(h) \in Nat /\ LogMax \in Nat
  BY LenProperties, FaultLogAssumption DEF Ledger
<1>4. l \in Seq((SUBSET A) \ {{}}) /\ Len(l) = IF Len(h) <= LogMax THEN Len(h) ELSE LogMax
  BY RecentIs DEF Ledger
<1> QED
  BY <1>2, <1>3, <1>4

LEMMA EmptyLedger ==
  \A A : Ledger(<<>>, <<>>, {}, A)
<1> SUFFICES ASSUME NEW A PROVE Ledger(<<>>, <<>>, {}, A)
  OBVIOUS
<1>1. << >> \in Seq((SUBSET A) \ {{}}) /\ Len(<< >>) = 0 /\ DOMAIN << >> = {}
  BY EmptySeq
<1>2. Recent(<< >>) = << >>
  BY <1>1, FaultLogAssumption DEF Recent
<1> QED
  BY <1>1, <1>2 DEF Ledger, Range

LEMMA InitKept == Init => Kept
<1> SUFFICES ASSUME Init PROVE Kept
  OBVIOUS
<1>1. 0 \in 0..MaxErrors
  BY FaultLogAssumption
<1> QED
  BY <1>1, EmptyLedger DEF Init, Kept

LEMMA FailsKeeps ==
  ASSUME Kept, NEW F, Fails(F)
  PROVE  chip' \subseteq Fault[charger] /\ errors' \in 0..MaxErrors
BY FaultLogAssumption DEF Kept, Fails, Reads

LEMMA NextKept == Kept /\ [Next]_vars => Kept'
<1> SUFFICES ASSUME Kept, [Next]_vars PROVE Kept'
  OBVIOUS
<1> DEFINE A == Fault[charger]
<1>0. /\ charger' = charger
      /\ FlagKinds \in {<<1, 2, 3>>, <<0, 1, 2>>}
      /\ charger = "bq" => StatusKinds = << 0 >>
      /\ FlagKinds' = FlagKinds
  <2>1. charger' = charger
    BY DEF vars, Next, Raise, Fall, ReadFlags, ClearSticky, ReadStatus, ClearLatch
  <2> QED
    BY <2>1 DEF FlagKinds, StatusKinds
<1>1. CASE UNCHANGED vars
  BY <1>1 DEF vars, Kept, FlagKinds
<1>2. CASE \E f \in Fault[charger] : Raise(f) \/ Fall(f)
  <2>1. chip' \subseteq A
    BY <1>2 DEF Raise, Fall, Kept
  <2>2. UNCHANGED <<latch, log, pc, flags, errors, history, seen>>
    BY <1>2 DEF Raise, Fall
  <2> QED
    BY <1>0, <2>1, <2>2 DEF Kept
<1>3. CASE ReadFlags
  <2> DEFINE F == OfKinds(chip, FlagKinds)
  <2>1. F \subseteq A /\ \A f \in F : f[1] \in Range(FlagKinds)
    BY DEF OfKinds, Kept
  <2>2. CASE Reads(F) /\ errors' = errors /\ seen' = seen \cup F /\ Latch(F, FlagKinds)
             /\ pc' = "status" /\ flags' = flags
    <3>1. Ledger(log', history', latch', A)
      <4> HIDE DEF F
      <4> QED
        BY <1>0, <2>1, <2>2, LatchKeeps DEF Kept
    <3>2. chip' \subseteq A
      BY <2>2 DEF Reads, Kept
    <3> HIDE DEF F
    <3> QED
      BY <1>0, <2>1, <2>2, <3>1, <3>2 DEF Kept
  <2>3. CASE Reads(F) /\ errors' = errors /\ seen' = seen \cup F /\ Keep /\ pc' = "clear" /\ flags' = F
    <3>1. chip' \subseteq A
      BY <2>3 DEF Reads, Kept
    <3> HIDE DEF F
    <3> QED
      BY <1>0, <2>1, <2>3, <3>1 DEF Kept, Keep
  <2>4. CASE Fails(F) /\ pc' = "status" /\ Keep /\ flags' = flags /\ seen' = seen
    <3>1. chip' \subseteq A /\ errors' \in 0..MaxErrors
      BY <2>4, FailsKeeps
    <3> HIDE DEF F
    <3> QED
      BY <1>0, <2>4, <3>1 DEF Kept, Keep
  <2> HIDE DEF F
  <2> QED
    BY <1>3, <2>2, <2>3, <2>4, Zenon DEF ReadFlags, F
<1>4. CASE ClearSticky
  <2> DEFINE sticky == OfKinds(chip, <<1>>) \cap ReadClear[charger]
  <2>1. pc' = "status" /\ flags' = {} /\ seen' = seen
    BY <1>4 DEF ClearSticky
  <2>2. CASE Reads(sticky) /\ Latch(flags, FlagKinds) /\ errors' = errors
    <3>1. Ledger(log', history', latch', A)
      BY <1>0, <2>2, LatchKeeps DEF Kept
    <3>2. chip' \subseteq A
      BY <2>2 DEF Reads, Kept
    <3> QED
      BY <1>0, <2>1, <2>2, <3>1, <3>2 DEF Kept
  <2>3. CASE Fails(sticky) /\ Keep
    <3>1. chip' \subseteq A /\ errors' \in 0..MaxErrors
      BY <2>3, FailsKeeps
    <3> QED
      BY <1>0, <2>1, <2>3, <3>1 DEF Kept, Keep
  <2> HIDE DEF sticky
  <2> QED
    BY <1>4, <2>2, <2>3, Zenon DEF ClearSticky, sticky
<1>5. CASE ReadStatus
  <2> DEFINE F == IF charger = "bq" THEN OfKinds(chip, StatusKinds) ELSE chip
  <2>1. pc' = "idle" /\ flags' = flags
    BY <1>5 DEF ReadStatus
  <2>2. F \subseteq A
    BY DEF OfKinds, Kept
  <2>3. CASE Reads(F) /\ errors' = errors
             /\ IF charger = "bq" THEN Latch(F, StatusKinds) /\ seen' = seen \cup F
                                  ELSE Keep /\ UNCHANGED seen
    <3>1. chip' \subseteq A
      BY <2>3 DEF Reads, Kept
    <3>2. CASE charger = "bq"
      <4>1. StatusKinds \in {<<1, 2, 3>>, <<0, 1, 2>>, << 0 >>} /\ \A f \in F : f[1] \in Range(StatusKinds)
        BY <1>0, <3>2 DEF OfKinds
      <4> HIDE DEF F
      <4>2. Ledger(log', history', latch', A)
        BY <2>2, <2>3, <3>2, <4>1, LatchKeeps DEF Kept
      <4> QED
        BY <1>0, <2>1, <2>2, <2>3, <3>1, <3>2, <4>2 DEF Kept
    <3>3. CASE charger # "bq"
      <4> HIDE DEF F
      <4> QED
        BY <1>0, <2>1, <2>3, <3>1, <3>3 DEF Kept, Keep
    <3> QED
      BY <3>2, <3>3
  <2>4. CASE Fails(F) /\ Keep /\ UNCHANGED seen
    <3> HIDE DEF F
    <3>1. chip' \subseteq A /\ errors' \in 0..MaxErrors
      BY <2>4, FailsKeeps
    <3> QED
      BY <1>0, <2>1, <2>4, <3>1 DEF Kept, Keep
  <2> HIDE DEF F
  <2> QED
    BY <1>5, <2>3, <2>4, Zenon DEF ReadStatus, F
<1>6. CASE ClearLatch
  BY <1>0, <1>6, EmptyLedger DEF ClearLatch, Kept
<1> QED
  BY <1>1, <1>2, <1>3, <1>4, <1>5, <1>6 DEF Next

(* The log holds the latest events, each fault is logged once between two   *)
(* clear_latch commands, and the latches are what has been logged, for      *)
(* every size of the log and any number of failed transactions.             *)
THEOREM LogSoundHolds == Spec => []LogSound
<1>1. Kept => LogSound
  <2> SUFFICES ASSUME Kept PROVE LogSound
    OBVIOUS
  <2>1. TypeOK
    BY Latches DEF Kept, TypeOK
  <2>2. LogIsRecent /\ LoggedOnce /\ LatchIsLogged
    BY DEF Kept, Ledger, Recent, LogIsRecent, LoggedOnce, LatchIsLogged
  <2> QED
    BY <2>1, <2>2 DEF LogSound
<1> QED
  BY <1>1, InitKept, NextKept, PTL DEF Spec
==============================================================================
