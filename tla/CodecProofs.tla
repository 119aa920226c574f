----------------------------- MODULE CodecProofs -----------------------------
(* Proofs about Codec, for every value of the shunts, every number a        *)
(* request can give and every code the registers can hold.                  *)
EXTENDS Codec, TLAPS

(* Division rounds down to the whole number of times b goes into a.         *)
LEMMA Division ==
  ASSUME NEW a \in Nat, NEW b \in Nat \ {0}
  PROVE  /\ a \div b \in Nat
         /\ b * (a \div b) <= a
         /\ a < b * (a \div b) + b
BY Z3

LEMMA Quotient ==
  ASSUME NEW a \in Nat, NEW b \in Nat \ {0}, NEW k \in Nat, b * k <= a, a < b * k + b
  PROVE  a \div b = k
BY Z3

(* Half a step added before the division takes back what two divisions      *)
(* rounded down, as long as the shunt is no more than half a step.          *)
LEMMA Rounding ==
  \A step, shunt \in Nat \ {0} : \A base, c, ma \in Nat :
    shunt <= step \div 2 /\ ma = (c * step + base) \div shunt /\ base <= ma * shunt
      => (ma * shunt - base + step \div 2) \div step = c
<1> SUFFICES ASSUME NEW step \in Nat \ {0}, NEW shunt \in Nat \ {0},
                    NEW base \in Nat, NEW c \in Nat, NEW ma \in Nat,
                    shunt <= step \div 2, ma = (c * step + base) \div shunt,
                    base <= ma * shunt
             PROVE  (ma * shunt - base + step \div 2) \div step = c
  OBVIOUS
<1> DEFINE drop == ma * shunt
<1> DEFINE rest == drop - base + step \div 2
<1> DEFINE whole == c * step
<1>1. whole \in Nat /\ drop \in Nat
  BY Z3
<1>2. drop <= whole + base /\ whole + base < drop + shunt
  <2>1. shunt * ma <= whole + base /\ whole + base < shunt * ma + shunt
    BY <1>1, Division
  <2>2. shunt * ma = drop
    BY Z3
  <2> QED
    BY <2>1, <2>2
<1>3. step \div 2 \in Nat /\ 2 * (step \div 2) <= step /\ step < 2 * (step \div 2) + 2
  BY Division
<1>4. rest \in Nat
  <2> HIDE DEF drop
  <2> QED
    BY <1>1, <1>3 DEF drop
<1>5. whole <= rest /\ rest < whole + step
  <2> HIDE DEF drop, whole
  <2> QED
    BY <1>1, <1>2, <1>3
<1>6. whole = step * c
  BY Z3
<1> HIDE DEF rest, whole
<1>7. rest \div step = c
  BY <1>4, <1>5, <1>6, Quotient
<1> QED
  BY <1>7 DEF rest, drop

-----------------------------------------------------------------------------
(* Each conversion takes a code back to itself, or refuses what it stands   *)
(* for.                                                                     *)
LEMMA BqCurrentBack ==
  ASSUME NEW c \in Nat, NEW sense \in Nat, NEW min \in Nat, NEW max \in Nat
  PROVE  BqCurrent(BqMilliamps(c, sense), sense, min, max) \in {c, Refused}
<1> DEFINE shunt == IF sense = 0 THEN 5 ELSE sense
<1> DEFINE ma == (c * 250) \div shunt
<1>1. shunt \in Nat \ {0}
  OBVIOUS
<1>2. BqMilliamps(c, sense) = ma
  BY DEF BqMilliamps
<1>3. CASE shunt > 100
  BY <1>2, <1>3 DEF BqCurrent
<1>4. CASE shunt <= 100
  <2>1. c * 250 + 0 = c * 250 /\ c * 250 \in Nat
    OBVIOUS
  <2> HIDE DEF shunt
  <2>2. ma \in Nat
    BY <1>1, <2>1, Division
  <2>3. 0 <= ma * shunt
    BY <1>1, <2>2
  <2>4. shunt <= 250 \div 2
    BY <1>1, <1>4
  <2>5. ma = (c * 250 + 0) \div shunt
    BY <2>1
  <2>6. (ma * shunt - 0 + 250 \div 2) \div 250 = c
    <3> HIDE DEF ma
    <3> QED
      BY <1>1, <2>2, <2>3, <2>4, <2>5, Rounding
  <2>7. ma * shunt - 0 + 250 \div 2 = ma * shunt + 125
    <3>1. ma * shunt \in Nat
      BY <1>1, <2>2
    <3> QED
      BY <3>1
  <2>8. (ma * shunt + 125) \div 250 = c
    BY <2>6, <2>7
  <2> HIDE DEF ma
  <2> QED
    BY <1>2, <2>8 DEF BqCurrent, shunt
<1> QED
  BY <1>1, <1>3, <1>4

LEMMA ShpBatBack ==
  ASSUME NEW c \in Nat, NEW offset \in Nat,
         NEW maxCode \in Nat, NEW maxMa \in Nat
  PROVE  ShpCurrent(ShpBatMilliamps(c, offset), ShpBatSense, 5, offset, 100, maxCode, maxMa) \in {c, Refused}
<1> DEFINE shunt == IF ShpBatSense = 0 THEN 5 ELSE ShpBatSense
<1> DEFINE ma == ShpBatMilliamps(c, offset)
<1> DEFINE wide == 100 * 5
<1> DEFINE base == offset * 5
<1>1. shunt \in Nat \ {0}
  BY SenseAssumption
<1>2. wide = 500 /\ base \in Nat
  OBVIOUS
<1>3. ma = (c * wide + base) \div shunt
  <2>1. c * 500 + offset * 5 = c * wide + base
    OBVIOUS
  <2> QED
    BY <2>1 DEF ShpBatMilliamps
<1> HIDE DEF ma, base
<1>4. ma \in Nat
  <2>1. c * wide + base \in Nat
    BY <1>2
  <2> HIDE DEF wide, shunt
  <2> QED
    BY <1>1, <1>3, <2>1, Division
<1>5. CASE shunt > 100 \/ ma * shunt < base
  BY <1>5 DEF ShpCurrent, ma, base
<1>6. CASE shunt <= 100 /\ ~(ma * shunt < base)
  <2> HIDE DEF shunt, wide
  <2>1. shunt <= wide \div 2
    BY <1>1, <1>2, <1>6
  <2>2. base <= ma * shunt
    <3>1. ma * shunt \in Nat
      BY <1>1, <1>4, Z3
    <3> QED
      BY <1>2, <1>6, <3>1
  <2>3. wide \in Nat \ {0}
    BY <1>2
  <2>4. (ma * shunt - base + wide \div 2) \div wide = c
    <3>1. base \in Nat
      BY <1>2
    <3> QED
      BY <1>1, <1>3, <1>4, <2>1, <2>2, <2>3, <3>1, Rounding, Zenon
  <2> QED
    BY <2>4 DEF ShpCurrent, shunt, wide, ma, base
<1>7. ma * shunt \in Nat
  BY <1>1, <1>4, Z3
<1> QED
  BY <1>1, <1>2, <1>5, <1>6, <1>7

LEMMA ShpInBack ==
  ASSUME NEW c \in Nat, NEW maxCode \in Nat, NEW maxMa \in Nat
  PROVE  ShpCurrent(ShpInMilliamps(c), ShpInSense, 2, 2375, 375, maxCode, maxMa) \in {c, Refused}
<1> DEFINE shunt == IF ShpInSense = 0 THEN 2 ELSE ShpInSense
<1> DEFINE ma == ShpInMilliamps(c)
<1> DEFINE wide == 375 * 2
<1> DEFINE base == 2375 * 2
<1>1. shunt \in Nat \ {0}
  BY SenseAssumption
<1>2. wide = 750 /\ base \in Nat
  OBVIOUS
<1>3. ma = (c * wide + base) \div shunt
  <2>1. c * 750 + 4750 = c * wide + base
    OBVIOUS
  <2> QED
    BY <2>1 DEF ShpInMilliamps
<1> HIDE DEF ma, base
<1>4. ma \in Nat
  <2>1. c * wide + base \in Nat
    BY <1>2
  <2> HIDE DEF wide, shunt
  <2> QED
    BY <1>1, <1>3, <2>1, Division
<1>5. CASE shunt > 100 \/ ma * shunt < base
  BY <1>5 DEF ShpCurrent, ma, base
<1>6. CASE shunt <= 100 /\ ~(ma * shunt < base)
  <2> HIDE DEF shunt, wide
  <2>1. shunt <= wide \div 2
    BY <1>1, <1>2, <1>6
  <2>2. base <= ma * shunt
    <3>1. ma * shunt \in Nat
      BY <1>1, <1>4, Z3
    <3> QED
      BY <1>2, <1>6, <3>1
  <2>3. wide \in Nat \ {0}
    BY <1>2
  <2>4. (ma * shunt - base + wide \div 2) \div wide = c
    <3>1. base \in Nat
      BY <1>2
    <3> QED
      BY <1>1, <1>3, <1>4, <2>1, <2>2, <2>3, <3>1, Rounding, Zenon
  <2> QED
    BY <2>4 DEF ShpCurrent, shunt, wide, ma, base
<1>7. ma * shunt \in Nat
  BY <1>1, <1>4, Z3
<1> QED
  BY <1>1, <1>2, <1>5, <1>6, <1>7

LEMMA OtgVoltageBack ==
  ASSUME NEW c \in Nat, c < 2048
  PROVE  OtgVoltage(OtgMillivolts(c)) \in {c, Refused}
<1> DEFINE mv == OtgMillivolts(c)
<1>1. CASE c < 1024
  <2>1. mv = 540 + c * 20 /\ mv <= 21000 /\ mv \in Nat
    BY <1>1 DEF OtgMillivolts
  <2>2. (mv - 540) \div 20 = c
    BY <2>1
  <2> HIDE DEF mv
  <2>3. OtgVoltage(mv) \in {(mv - 540) \div 20, Refused}
    BY <2>1 DEF OtgVoltage
  <2> QED
    BY <2>2, <2>3 DEF mv
<1>2. CASE c >= 1024
  <2> DEFINE k == c - 1024
  <2>1. c % 1024 = k /\ k \in Nat
    BY <1>2
  <2>2. mv = 21050 + k * 50 /\ mv >= 21050 /\ mv \in Nat
    BY <1>2, <2>1 DEF OtgMillivolts
  <2> HIDE DEF k
  <2>3. (mv - 21050) \div 50 = k
    BY <2>1, <2>2
  <2> HIDE DEF mv
  <2>4. OtgVoltage(mv) \in {1024 + (mv - 21050) \div 50, Refused}
    BY <2>2 DEF OtgVoltage
  <2>5. 1024 + k = c
    BY DEF k
  <2> QED
    BY <2>3, <2>4, <2>5 DEF mv
<1> QED
  BY <1>1, <1>2

LEMMA VoltagesBack ==
  ASSUME NEW c \in Nat
  PROVE  /\ FbVoltage(1504 + 2 * c) \in {c, Refused}
         /\ Vindpm(100 + c) \in {c, Refused}
         /\ \A min, max \in Nat : BqVoltage(20 * c, min, max) \in {c, Refused}
BY DEF FbVoltage, Vindpm, BqVoltage

(* Reading a field and writing it back gives the same code or is refused.   *)
LEMMA EachBack ==
  ASSUME NEW f \in Fields, NEW c \in 0..(Width(f) - 1)
  PROVE  Encode(f, Decode(f, c)) \in {c, Refused}
<1>1. CASE f \in {"bq_fb_mv", "shp_fb_mv"}
  <2>1. Width(f) = 32
    BY <1>1 DEF Width
  <2>2. Decode(f, c) = 1504 + 2 * c
    BY <1>1 DEF Decode
  <2>3. Encode(f, Decode(f, c)) = FbVoltage(1504 + 2 * c)
    BY <1>1, <2>2 DEF Encode
  <2> QED
    BY <2>1, <2>3, VoltagesBack
<1>2. CASE f = "vac_mv"
  <2>1. Width(f) = 4096
    BY <1>2 DEF Width
  <2>2. Decode(f, c) = 20 * c
    BY <1>2 DEF Decode
  <2>3. Encode(f, Decode(f, c)) = BqVoltage(20 * c, 4200, 65000)
    BY <1>2, <2>2 DEF Encode
  <2> QED
    BY <2>1, <2>3, VoltagesBack
<1>3. CASE f = "rev_vac_mv"
  <2>1. Width(f) = 4096
    BY <1>3 DEF Width
  <2>2. Decode(f, c) = 20 * c
    BY <1>3 DEF Decode
  <2>3. Encode(f, Decode(f, c)) = BqVoltage(20 * c, 3300, 65000)
    BY <1>3, <2>2 DEF Encode
  <2> QED
    BY <2>1, <2>3, VoltagesBack
<1>4. CASE f = "vindpm_mv"
  <2>1. Width(f) = 2048
    BY <1>4 DEF Width
  <2>2. Decode(f, c) = 100 + c
    BY <1>4 DEF Decode
  <2>3. Encode(f, Decode(f, c)) = Vindpm(100 + c)
    BY <1>4, <2>2 DEF Encode
  <2> QED
    BY <2>1, <2>3, VoltagesBack, SMTT(30)
<1>5. CASE f = "vbus_mv"
  <2>1. Width(f) = 2048
    BY <1>5 DEF Width
  <2>2. Decode(f, c) = OtgMillivolts(c)
    BY <1>5 DEF Decode
  <2>3. Encode(f, Decode(f, c)) = OtgVoltage(OtgMillivolts(c))
    BY <1>5, <2>2 DEF Encode
  <2> QED
    <3>1. c \in Nat /\ c < 2048
      BY <2>1
    <3>2. OtgVoltage(OtgMillivolts(c)) \in {c, Refused}
      BY <3>1, OtgVoltageBack
    <3> QED
      BY <2>3, <3>2
<1>6. CASE f \in {"bq_iac_ma", "rev_iac_ma"}
  <2>1. Width(f) = 1024
    BY <1>6 DEF Width
  <2>2. Decode(f, c) = BqMilliamps(c, BqInSense)
    BY <1>6 DEF Decode
  <2>3. Encode(f, Decode(f, c)) = BqCurrent(BqMilliamps(c, BqInSense), BqInSense, 8, 400)
    BY <1>6, <2>2 DEF Encode
  <2> QED
    BY <2>1, <2>3, BqCurrentBack, SenseAssumption
<1>7. CASE f = "bq_ichg_ma"
  <2>1. Width(f) = 1024
    BY <1>7 DEF Width
  <2>2. Decode(f, c) = BqMilliamps(c, BqBatSense)
    BY <1>7 DEF Decode
  <2>3. Encode(f, Decode(f, c)) = BqCurrent(BqMilliamps(c, BqBatSense), BqBatSense, 8, 400)
    BY <1>7, <2>2 DEF Encode
  <2> QED
    BY <2>1, <2>3, BqCurrentBack, SenseAssumption
<1>8. CASE f \in {"bq_ipre_ma", "bq_iterm_ma"}
  <2>1. Width(f) = 1024
    BY <1>8 DEF Width
  <2>2. Decode(f, c) = BqMilliamps(c, BqBatSense)
    BY <1>8 DEF Decode
  <2>3. Encode(f, Decode(f, c)) = BqCurrent(BqMilliamps(c, BqBatSense), BqBatSense, 5, 200)
    BY <1>8, <2>2 DEF Encode
  <2> QED
    BY <2>1, <2>3, BqCurrentBack, SenseAssumption
<1>9. CASE f = "shp_ichg_ma"
  <2>1. Width(f) = 256
    BY <1>9 DEF Width
  <2>2. Decode(f, c) = ShpBatMilliamps(c, 1000)
    BY <1>9 DEF Decode
  <2>3. Encode(f, Decode(f, c)) = ShpCurrent(ShpBatMilliamps(c, 1000), ShpBatSense, 5, 1000, 100, 190, 20000)
    BY <1>9, <2>2 DEF Encode
  <2>4. c \in Nat
    BY <2>1
  <2> QED
    BY <2>3, <2>4, ShpBatBack
<1>10. CASE f = "shp_ipre_ma"
  <2>1. Width(f) = 128
    BY <1>10 DEF Width
  <2>2. Decode(f, c) = ShpBatMilliamps(c, 400)
    BY <1>10 DEF Decode
  <2>3. Encode(f, Decode(f, c)) = ShpCurrent(ShpBatMilliamps(c, 400), ShpBatSense, 5, 400, 100, 96, 10000)
    BY <1>10, <2>2 DEF Encode
  <2>4. c \in Nat
    BY <2>1
  <2> QED
    BY <2>3, <2>4, ShpBatBack
<1>11. CASE f = "shp_iterm_ma"
  <2>1. Width(f) = 64
    BY <1>11 DEF Width
  <2>2. Decode(f, c) = ShpBatMilliamps(c, 400)
    BY <1>11 DEF Decode
  <2>3. Encode(f, Decode(f, c)) = ShpCurrent(ShpBatMilliamps(c, 400), ShpBatSense, 5, 400, 100, 63, 6700)
    BY <1>11, <2>2 DEF Encode
  <2>4. c \in Nat
    BY <2>1
  <2> QED
    BY <2>3, <2>4, ShpBatBack
<1>12. CASE f \in {"shp_iac_ma", "ibus_ma"}
  <2>1. Width(f) = 128
    BY <1>12 DEF Width
  <2>2. Decode(f, c) = ShpInMilliamps(c)
    BY <1>12 DEF Decode
  <2>3. Encode(f, Decode(f, c)) = ShpCurrent(ShpInMilliamps(c), ShpInSense, 2, 2375, 375, 127, 50000)
    BY <1>12, <2>2 DEF Encode
  <2>4. c \in Nat
    BY <2>1
  <2> QED
    BY <2>3, <2>4, ShpInBack
<1> QED
  BY <1>1, <1>2, <1>3, <1>4, <1>5, <1>6, <1>7, <1>8, <1>9, <1>10, <1>11, <1>12
   DEF Fields, Groups, BqCharge, BqReverse, ShpCharge, ShpReverse

-----------------------------------------------------------------------------
(* Each conversion gives a code of its field's bits, or refuses.            *)
Below(code, limit) == code # Refused => code \in Nat /\ code < limit

LEMMA BqFits ==
  ASSUME NEW n \in Nat, NEW sense \in Nat
  PROVE  /\ Below(BqCurrent(n, sense, 8, 400), 1024)
         /\ Below(BqCurrent(n, sense, 5, 200), 1024)
BY DEF BqCurrent, Below

LEMMA ShpFits ==
  ASSUME NEW n \in Nat, NEW sense \in Nat, NEW ref \in {2, 5}, NEW offset \in Nat,
         NEW step \in {100, 375}, NEW maxCode \in Nat, NEW maxMa \in Nat
  PROVE  Below(ShpCurrent(n, sense, ref, offset, step, maxCode, maxMa), maxCode + 1)
<1> DEFINE shunt == IF sense = 0 THEN ref ELSE sense
<1> DEFINE wide == step * ref
<1> DEFINE rest == n * shunt - offset * ref + wide \div 2
<1>1. CASE n * shunt < offset * ref
  BY <1>1 DEF ShpCurrent, Below
<1>2. CASE ~(n * shunt < offset * ref)
  <2>1. n * shunt \in Nat /\ offset * ref \in Nat
    BY Z3
  <2>2. wide \in Nat \ {0}
    OBVIOUS
  <2>3. wide \div 2 \in Nat
    BY <2>2, Division
  <2>4. rest \in Nat
    BY <1>2, <2>1, <2>3
  <2> HIDE DEF rest, wide
  <2>5. rest \div wide \in Nat
    BY <2>2, <2>4, Division
  <2>6. ShpCurrent(n, sense, ref, offset, step, maxCode, maxMa) # Refused
          => /\ ShpCurrent(n, sense, ref, offset, step, maxCode, maxMa) = rest \div wide
             /\ rest \div wide <= maxCode
    BY <2>5 DEF ShpCurrent, rest, wide
  <2> QED
    BY <2>5, <2>6 DEF Below
<1> QED
  BY <1>1, <1>2

LEMMA VoltagesFit ==
  ASSUME NEW n \in Nat
  PROVE  /\ Below(FbVoltage(n), 32)
         /\ Below(Vindpm(n), 2048)
         /\ Below(BqVoltage(n, 4200, 65000), 4096)
         /\ Below(BqVoltage(n, 3300, 65000), 4096)
         /\ Below(OtgVoltage(n), 2048)
<1>1. Below(FbVoltage(n), 32)
  BY DEF FbVoltage, Below
<1>2. Below(Vindpm(n), 2048)
  BY DEF Vindpm, Below
<1>3. Below(BqVoltage(n, 4200, 65000), 4096)
  <2>1. n \div 20 \in Nat /\ 20 * (n \div 20) <= n
    BY Division
  <2>2. BqVoltage(n, 4200, 65000) # Refused
          => n <= 65000 /\ BqVoltage(n, 4200, 65000) = n \div 20
    BY DEF BqVoltage, Refused
  <2> QED
    BY <2>1, <2>2 DEF Below
<1>4. Below(BqVoltage(n, 3300, 65000), 4096)
  <2>1. n \div 20 \in Nat /\ 20 * (n \div 20) <= n
    BY Division
  <2>2. BqVoltage(n, 3300, 65000) # Refused
          => n <= 65000 /\ BqVoltage(n, 3300, 65000) = n \div 20
    BY DEF BqVoltage, Refused
  <2> QED
    BY <2>1, <2>2 DEF Below
<1>5. Below(OtgVoltage(n), 2048)
  BY DEF OtgVoltage, Below
<1> QED
  BY <1>1, <1>2, <1>3, <1>4, <1>5

LEMMA EachFits ==
  ASSUME NEW f \in Fields, NEW n \in Nat
  PROVE  Below(Encode(f, n), Width(f))
<1>1. CASE f \in {"bq_fb_mv", "shp_fb_mv"}
  <2>1. Width(f) = 32
    BY <1>1 DEF Width
  <2>2. Encode(f, n) = FbVoltage(n)
    BY <1>1 DEF Encode
  <2>3. Below(FbVoltage(n), 32)
    BY VoltagesFit
  <2> QED
    BY <2>1, <2>2, <2>3
<1>2. CASE f = "vac_mv"
  <2>1. Width(f) = 4096
    BY <1>2 DEF Width
  <2>2. Encode(f, n) = BqVoltage(n, 4200, 65000)
    BY <1>2 DEF Encode
  <2>3. Below(BqVoltage(n, 4200, 65000), 4096)
    BY VoltagesFit
  <2> QED
    BY <2>1, <2>2, <2>3
<1>3. CASE f = "rev_vac_mv"
  <2>1. Width(f) = 4096
    BY <1>3 DEF Width
  <2>2. Encode(f, n) = BqVoltage(n, 3300, 65000)
    BY <1>3 DEF Encode
  <2>3. Below(BqVoltage(n, 3300, 65000), 4096)
    BY VoltagesFit
  <2> QED
    BY <2>1, <2>2, <2>3
<1>4. CASE f = "vindpm_mv"
  <2>1. Width(f) = 2048
    BY <1>4 DEF Width
  <2>2. Encode(f, n) = Vindpm(n)
    BY <1>4 DEF Encode
  <2>3. Below(Vindpm(n), 2048)
    BY VoltagesFit
  <2> QED
    BY <2>1, <2>2, <2>3
<1>5. CASE f = "vbus_mv"
  <2>1. Width(f) = 2048
    BY <1>5 DEF Width
  <2>2. Encode(f, n) = OtgVoltage(n)
    BY <1>5 DEF Encode
  <2>3. Below(OtgVoltage(n), 2048)
    BY VoltagesFit
  <2> QED
    BY <2>1, <2>2, <2>3
<1>6. CASE f \in {"bq_iac_ma", "rev_iac_ma"}
  <2>1. Width(f) = 1024
    BY <1>6 DEF Width
  <2>2. Encode(f, n) = BqCurrent(n, BqInSense, 8, 400)
    BY <1>6 DEF Encode
  <2>3. Below(BqCurrent(n, BqInSense, 8, 400), 1024)
    BY BqFits, SenseAssumption
  <2> QED
    BY <2>1, <2>2, <2>3
<1>7. CASE f = "bq_ichg_ma"
  <2>1. Width(f) = 1024
    BY <1>7 DEF Width
  <2>2. Encode(f, n) = BqCurrent(n, BqBatSense, 8, 400)
    BY <1>7 DEF Encode
  <2>3. Below(BqCurrent(n, BqBatSense, 8, 400), 1024)
    BY BqFits, SenseAssumption
  <2> QED
    BY <2>1, <2>2, <2>3
<1>8. CASE f \in {"bq_ipre_ma", "bq_iterm_ma"}
  <2>1. Width(f) = 1024
    BY <1>8 DEF Width
  <2>2. Encode(f, n) = BqCurrent(n, BqBatSense, 5, 200)
    BY <1>8 DEF Encode
  <2>3. Below(BqCurrent(n, BqBatSense, 5, 200), 1024)
    BY BqFits, SenseAssumption
  <2> QED
    BY <2>1, <2>2, <2>3
<1>9. CASE f = "shp_ichg_ma"
  <2>1. Width(f) = 256
    BY <1>9 DEF Width
  <2>2. Encode(f, n) = ShpCurrent(n, ShpBatSense, 5, 1000, 100, 190, 20000)
    BY <1>9 DEF Encode
  <2>3. Below(ShpCurrent(n, ShpBatSense, 5, 1000, 100, 190, 20000), 190 + 1)
    BY SenseAssumption, ShpFits, SMTT(30)
  <2> QED
    BY <2>1, <2>2, <2>3 DEF Below
<1>10. CASE f = "shp_ipre_ma"
  <2>1. Width(f) = 128
    BY <1>10 DEF Width
  <2>2. Encode(f, n) = ShpCurrent(n, ShpBatSense, 5, 400, 100, 96, 10000)
    BY <1>10 DEF Encode
  <2>3. Below(ShpCurrent(n, ShpBatSense, 5, 400, 100, 96, 10000), 96 + 1)
    BY SenseAssumption, ShpFits, SMTT(30)
  <2> QED
    BY <2>1, <2>2, <2>3 DEF Below
<1>11. CASE f = "shp_iterm_ma"
  <2>1. Width(f) = 64
    BY <1>11 DEF Width
  <2>2. Encode(f, n) = ShpCurrent(n, ShpBatSense, 5, 400, 100, 63, 6700)
    BY <1>11 DEF Encode
  <2>3. Below(ShpCurrent(n, ShpBatSense, 5, 400, 100, 63, 6700), 63 + 1)
    BY SenseAssumption, ShpFits, SMTT(30)
  <2> QED
    BY <2>1, <2>2, <2>3 DEF Below
<1>12. CASE f \in {"shp_iac_ma", "ibus_ma"}
  <2>1. Width(f) = 128
    BY <1>12 DEF Width
  <2>2. Encode(f, n) = ShpCurrent(n, ShpInSense, 2, 2375, 375, 127, 50000)
    BY <1>12 DEF Encode
  <2>3. Below(ShpCurrent(n, ShpInSense, 2, 2375, 375, 127, 50000), 127 + 1)
    BY SenseAssumption, ShpFits, SMTT(30)
  <2> QED
    BY <2>1, <2>2, <2>3 DEF Below
<1> QED
  BY <1>1, <1>2, <1>3, <1>4, <1>5, <1>6, <1>7, <1>8, <1>9, <1>10, <1>11, <1>12
   DEF Fields, Groups, BqCharge, BqReverse, ShpCharge, ShpReverse

(* What a refresh decodes is a number.                                      *)
LEMMA EachNumber ==
  ASSUME NEW f \in Fields, NEW c \in Nat
  PROVE  Decode(f, c) \in Nat
<1>1. \A sense \in Nat : BqMilliamps(c, sense) \in Nat
  BY Division DEF BqMilliamps
<1>2. \A offset \in Nat : ShpBatMilliamps(c, offset) \in Nat
  BY Division, SenseAssumption DEF ShpBatMilliamps
<1>3. ShpInMilliamps(c) \in Nat
  BY Division, SenseAssumption DEF ShpInMilliamps
<1>4. OtgMillivolts(c) \in Nat
  BY DEF OtgMillivolts
<1>5. CASE f \in {"bq_fb_mv", "shp_fb_mv", "vac_mv", "rev_vac_mv", "vindpm_mv"}
  BY <1>5 DEF Decode
<1>6. CASE f = "vbus_mv"
  BY <1>4, <1>6 DEF Decode
<1>7. CASE f \in {"bq_iac_ma", "rev_iac_ma"}
  BY <1>1, <1>7, SenseAssumption DEF Decode
<1>8. CASE f \in {"bq_ichg_ma", "bq_ipre_ma", "bq_iterm_ma"}
  BY <1>1, <1>8, SenseAssumption DEF Decode
<1>9. CASE f = "shp_ichg_ma"
  BY <1>2, <1>9 DEF Decode
<1>10. CASE f \in {"shp_ipre_ma", "shp_iterm_ma"}
  BY <1>2, <1>10 DEF Decode
<1>11. CASE f \in {"shp_iac_ma", "ibus_ma"}
  BY <1>3, <1>11 DEF Decode
<1> QED
  BY <1>5, <1>6, <1>7, <1>8, <1>9, <1>10, <1>11
   DEF Fields, Groups, BqCharge, BqReverse, ShpCharge, ShpReverse

LEMMA WidthNat ==
  \A f \in Fields : Width(f) \in Nat
BY DEF Width, Fields, Groups, BqCharge, BqReverse, ShpCharge, ShpReverse

-----------------------------------------------------------------------------
(* The codes fit and the snapshot shows them.                               *)
Inv == /\ reg \in [Fields -> Nat]
       /\ Fits
       /\ snap = Decoded(reg)

(* One setting under a configuration command: it keeps its code if the      *)
(* request does not name it, and its code fits.                             *)
LEMMA OneSetting ==
  ASSUME Inv, NEW group \in Groups, NEW named \in SUBSET group, NEW request \in Requests(named),
         NEW f \in group, Encode(f, Config(group, request)[f]) # Refused
  PROVE  /\ Below(Encode(f, Config(group, request)[f]), Width(f))
         /\ f \notin named => Encode(f, Config(group, request)[f]) = reg[f]
<1>1. f \in Fields /\ DOMAIN request = named
  BY DEF Fields, Requests
<1>2. reg[f] \in Nat /\ reg[f] \in 0..(Width(f) - 1) /\ snap[f] = Decode(f, reg[f])
  BY <1>1 DEF Inv, Fits, Decoded
<1>3. CASE f \in named
  <2>1. Config(group, request)[f] = Narrowed(f, request[f])
    BY <1>1, <1>3 DEF Config
  <2>2. request[f] \in Nat
    BY <1>1, <1>3, CodesAssumption DEF Requests
  <2>3. Narrowed(f, request[f]) \in Nat
    BY <2>2 DEF Narrowed
  <2> QED
    BY <1>1, <1>3, <2>1, <2>3, EachFits
<1>4. CASE f \notin named
  <2>1. Config(group, request)[f] = Decode(f, reg[f])
    BY <1>1, <1>2, <1>4 DEF Config
  <2>2. Encode(f, Decode(f, reg[f])) = reg[f]
    BY <1>1, <1>2, <2>1, EachBack
  <2>3. reg[f] < Width(f)
    BY <1>1, <1>2, WidthNat
  <2> QED
    BY <1>2, <2>1, <2>2, <2>3 DEF Below
<1> QED
  BY <1>3, <1>4

LEMMA ConfigureKeeps ==
  ASSUME Inv, NEW group \in Groups, NEW named \in SUBSET group, NEW request \in Requests(named),
         Configure(group, request)
  PROVE  Inv' /\ \A f \in Fields \ DOMAIN request : reg'[f] = reg[f]
<1> DEFINE code == [f \in group |-> Encode(f, Config(group, request)[f])]
<1>1. CASE Refused \in Range(code)
  <2>1. reg' = reg /\ snap' = snap
    BY <1>1 DEF Configure
  <2> QED
    BY <2>1 DEF Inv, Fits, Decoded
<1>2. CASE Refused \notin Range(code)
  <2>1. /\ reg' = [f \in Fields |-> IF f \in group THEN code[f] ELSE reg[f]]
        /\ snap' = Decoded(reg')
    BY <1>2 DEF Configure
  <2>2. \A f \in group : code[f] # Refused
    BY <1>2 DEF Range
  <2>3. DOMAIN request = named
    BY DEF Requests
  <2>4. ASSUME NEW f \in Fields
        PROVE  /\ reg'[f] \in Nat
               /\ reg'[f] < Width(f)
               /\ f \notin named => reg'[f] = reg[f]
    <3>1. CASE f \in group
      <4>1. code[f] = Encode(f, Config(group, request)[f])
        BY <3>1
      <4>2. /\ Below(code[f], Width(f))
            /\ f \notin named => code[f] = reg[f]
        <5> HIDE DEF code
        <5> QED
          BY <2>2, <3>1, <4>1, OneSetting
      <4>3. reg'[f] = code[f]
        BY <2>1, <3>1
      <4> HIDE DEF code
      <4> QED
        BY <2>2, <3>1, <4>2, <4>3 DEF Below
    <3>2. CASE f \notin group
      <4>1. reg'[f] = reg[f]
        BY <2>1, <3>2
      <4>2. reg[f] \in Nat /\ reg[f] < Width(f)
        BY WidthNat DEF Inv, Fits
      <4> QED
        BY <4>1, <4>2
    <3> QED
      BY <3>1, <3>2
  <2>5. reg' \in [Fields -> Nat]
    <3> HIDE DEF code
    <3>1. reg' = [f \in Fields |-> reg'[f]]
      BY <2>1
    <3> QED
      BY <2>4, <3>1
  <2>6. Fits'
    BY <2>4, WidthNat DEF Fits
  <2> QED
    BY <2>1, <2>3, <2>4, <2>5, <2>6 DEF Inv
<1> QED
  BY <1>1, <1>2

LEMMA InitInv ==
  ASSUME Init
  PROVE  Inv
<1>1. PICK f \in Fields : \E c \in Codes[f] : reg = [PowerOn EXCEPT ![f] = c]
  BY DEF Init
<1>2. PICK c \in Codes[f] : reg = [PowerOn EXCEPT ![f] = c]
  BY <1>1
<1>3. \A g \in Fields : PowerOn[g] \in Nat /\ PowerOn[g] \in 0..(Width(g) - 1)
  BY CodesAssumption
<1>4. c \in Nat /\ c \in 0..(Width(f) - 1)
  BY CodesAssumption, WidthNat
<1>5. reg \in [Fields -> Nat]
  BY <1>2, <1>4, CodesAssumption
<1>6. \A g \in Fields : reg[g] = IF g = f THEN c ELSE PowerOn[g]
  BY <1>2, CodesAssumption
<1>7. Fits
  BY <1>3, <1>4, <1>6 DEF Fits
<1> QED
  BY <1>5, <1>7 DEF Inv, Init

LEMMA StepInv ==
  ASSUME Inv, [Next]_vars
  PROVE  Inv' /\ (vars' # vars /\ last'.request # None
                    => \A f \in Fields \ DOMAIN last'.request : reg'[f] = reg[f])
<1>1. CASE UNCHANGED vars
  BY <1>1 DEF vars, Inv, Fits, Decoded
<1>2. ASSUME NEW group \in Groups, NEW named \in SUBSET group, NEW request \in Requests(named),
             Configure(group, request)
      PROVE  Inv' /\ \A f \in Fields \ DOMAIN last'.request : reg'[f] = reg[f]
  <2>1. last'.request = request
    BY <1>2 DEF Configure
  <2> QED
    BY <1>2, <2>1, ConfigureKeeps
<1>3. ASSUME NEW chip \in Chips, Reset(chip)
      PROVE  Inv' /\ last'.request = None
  <2>1. /\ reg' = [f \in Fields |-> IF f \in chip THEN PowerOn[f] ELSE reg[f]]
        /\ snap' = Decoded(reg') /\ last'.request = None
    BY <1>3 DEF Reset
  <2>2. \A f \in Fields : /\ reg'[f] \in Nat
                          /\ reg'[f] \in 0..(Width(f) - 1)
    BY <2>1, CodesAssumption DEF Inv, Fits
  <2>3. reg' \in [Fields -> Nat]
    BY <2>1, <2>2
  <2> QED
    BY <2>1, <2>2, <2>3 DEF Inv, Fits
<1> QED
  BY <1>1, <1>2, <1>3 DEF Next, Command

-----------------------------------------------------------------------------
(* No command writes a code wider than its field, whatever number is asked  *)
(* for.                                                                     *)
THEOREM CodesFit == Spec => []Fits
<1>1. Inv => Fits
  BY DEF Inv
<1> QED
  BY <1>1, InitInv, StepInv, PTL DEF Spec

(* A setting that a command does not name keeps its code, for every shunt   *)
(* and every code it was found with.                                        *)
THEOREM NothingUnnamed == Spec => UnnamedKept
<1>1. Inv /\ [Next]_vars
        => [last'.request # None => \A f \in Fields \ DOMAIN last'.request : reg'[f] = reg[f]]_vars
  BY StepInv
<1> QED
  BY <1>1, InitInv, StepInv, PTL DEF Spec, UnnamedKept
-----------------------------------------------------------------------------
(* What the drivers accept.  A voltage comes back as it was given.          *)
Voltages == {"bq_fb_mv", "shp_fb_mv", "vac_mv", "rev_vac_mv", "vindpm_mv", "vbus_mv"}

LEMMA OtgVoltageExact ==
  ASSUME NEW n \in Nat, OtgVoltage(n) # Refused
  PROVE  OtgMillivolts(OtgVoltage(n)) = n
<1>1. CASE n <= 21000
  <2>1. /\ n >= 5000 /\ (n - 540) % 20 = 0
        /\ OtgVoltage(n) = (n - 540) \div 20 /\ (n - 540) \div 20 <= 1023
    BY <1>1 DEF OtgVoltage
  <2>2. 540 + ((n - 540) \div 20) * 20 = n
    BY <2>1
  <2> QED
    BY <2>1, <2>2 DEF OtgMillivolts
<1>2. CASE n > 21000
  <2> DEFINE k == (n - 21050) \div 50
  <2>1. n >= 21050 /\ (n - 21050) % 50 = 0 /\ OtgVoltage(n) = 1024 + k /\ k <= 1023
    BY <1>2 DEF OtgVoltage
  <2>2. 21050 + k * 50 = n /\ k \in Nat
    BY <2>1
  <2>3. 1024 + k >= 1024 /\ (1024 + k) % 1024 = k
    <3> HIDE DEF k
    <3> QED
      BY <2>1, <2>2
  <2>4. OtgMillivolts(1024 + k) = 21050 + ((1024 + k) % 1024) * 50
    BY <2>3 DEF OtgMillivolts
  <2> HIDE DEF k
  <2> QED
    BY <2>1, <2>2, <2>3, <2>4
<1> QED
  BY <1>1, <1>2

LEMMA VoltageExact ==
  ASSUME NEW f \in Voltages, NEW n \in Nat, Encode(f, n) # Refused
  PROVE  Decode(f, Encode(f, n)) = n
<1>1. CASE f \in {"bq_fb_mv", "shp_fb_mv"}
  <2>1. Encode(f, n) = FbVoltage(n) /\ Decode(f, FbVoltage(n)) = 1504 + 2 * FbVoltage(n)
    BY <1>1 DEF Encode, Decode
  <2>2. FbVoltage(n) # Refused => 1504 + 2 * FbVoltage(n) = n
    BY DEF FbVoltage
  <2> QED
    BY <2>1, <2>2
<1>2. ASSUME f \in {"vac_mv", "rev_vac_mv"}
      PROVE  Decode(f, Encode(f, n)) = n
  <2>1. \E min, max \in Nat : Encode(f, n) = BqVoltage(n, min, max)
    BY <1>2 DEF Encode
  <2>2. PICK min \in Nat, max \in Nat : Encode(f, n) = BqVoltage(n, min, max)
    BY <2>1
  <2>3. BqVoltage(n, min, max) # Refused => 20 * BqVoltage(n, min, max) = n
    BY DEF BqVoltage
  <2>4. Decode(f, Encode(f, n)) = 20 * Encode(f, n)
    BY <1>2 DEF Decode
  <2> QED
    BY <2>2, <2>3, <2>4
<1>3. CASE f = "vindpm_mv"
  <2>1. Encode(f, n) = Vindpm(n) /\ Decode(f, Vindpm(n)) = 100 + Vindpm(n)
    BY <1>3 DEF Encode, Decode
  <2>2. Vindpm(n) # Refused => 100 + Vindpm(n) = n
    BY DEF Vindpm
  <2> QED
    BY <2>1, <2>2
<1>4. CASE f = "vbus_mv"
  <2>1. Encode(f, n) = OtgVoltage(n) /\ Decode(f, OtgVoltage(n)) = OtgMillivolts(OtgVoltage(n))
    BY <1>4 DEF Encode, Decode
  <2> QED
    BY <2>1, OtgVoltageExact
<1> QED
  BY <1>1, <1>2, <1>3, <1>4 DEF Voltages

-----------------------------------------------------------------------------
(* A current does not: the code is the nearest, and decoding rounds down.   *)
LEMMA Times ==
  \A a, b \in Nat : a * b \in Nat /\ a * b = b * a
BY Z3

LEMMA Order ==
  ASSUME NEW s \in Nat \ {0}, NEW a \in Nat, NEW b \in Nat
  PROVE  (s * a < s * b) <=> (a < b)
BY Z3

LEMMA DistanceNat ==
  \A a, b \in Nat : Distance(a, b) \in Nat
BY DEF Distance

(* Rounded down to whole milliamperes a current moves by less than one.     *)
LEMMA Apart ==
  ASSUME NEW s \in Nat \ {0}, NEW n \in Nat, NEW y \in Nat
  PROVE  /\ s * Distance(y \div s, n) < Distance(y, n * s) + s
         /\ Distance(y, n * s) < s * Distance(y \div s, n) + s
<1> DEFINE d == y \div s
<1> DEFINE x == s * n
<1> DEFINE p == s * d
<1>1. d \in Nat /\ p <= y /\ y < p + s
  BY Division
<1>2. x \in Nat /\ x = n * s
  BY Times
<1>3. p \in Nat
  BY <1>1, Times
<1>4. CASE d >= n
  <2>1. s * (d - n) = p - x /\ p >= x
    <3> HIDE DEF d
    <3> QED
      BY <1>1, <1>4, Z3
  <2>2. Distance(d, n) = d - n
    BY <1>1, <1>4 DEF Distance
  <2> HIDE DEF d, p, x
  <2>3. Distance(y, x) = y - x
    BY <1>1, <1>2, <1>3, <2>1 DEF Distance
  <2>4. s * (d - n) < y - x + s /\ y - x < s * (d - n) + s
    <3> DEFINE q == s * (d - n)
    <3> HIDE DEF q
    <3>1. q = p - x
      BY <2>1 DEF q
    <3>2. q < y - x + s /\ y - x < q + s
      BY <1>1, <1>2, <1>3, <3>1
    <3> QED
      BY <3>2 DEF q
  <2>5. s * Distance(d, n) = s * (d - n)
    BY <2>2
  <2> QED
    BY <1>2, <2>3, <2>4, <2>5 DEF d
<1>5. CASE d < n
  <2>1. s * (n - d) = x - p /\ p + s <= x
    <3>1. \A u, v \in Nat : u < v => s * (v - u) = s * v - s * u /\ s * u + s <= s * v
      BY Z3
    <3> HIDE DEF d
    <3> QED
      BY <1>1, <1>5, <3>1
  <2>2. Distance(d, n) = n - d
    BY <1>1, <1>5 DEF Distance
  <2> HIDE DEF d, p, x
  <2>3. Distance(y, x) = x - y
    BY <1>1, <1>2, <1>3, <2>1 DEF Distance
  <2>4. s * (n - d) < x - y + s /\ x - y < s * (n - d) + s
    <3> DEFINE q == s * (n - d)
    <3> HIDE DEF q
    <3>1. q = x - p
      BY <2>1 DEF q
    <3>2. q < x - y + s /\ x - y < q + s
      BY <1>1, <1>2, <1>3, <3>1
    <3> QED
      BY <3>2 DEF q
  <2>5. s * Distance(d, n) = s * (n - d)
    BY <2>2
  <2> QED
    BY <1>2, <2>3, <2>4, <2>5 DEF d
<1> QED
  BY <1>1, <1>4, <1>5

(* The code rounded to the nearest is nearer than either neighbour, up to   *)
(* the milliampere lost in decoding.                                        *)
LEMMA NearestCode ==
  ASSUME NEW half \in Nat \ {0}, NEW s \in Nat \ {0}, NEW base \in Nat,
         NEW n \in Nat, base <= n * s, NEW c \in Nat, NEW k \in Nat,
         c = (n * s - base + half) \div (2 * half), k \in {c - 1, c + 1}
  PROVE  Distance((c * (2 * half) + base) \div s, n)
           <= Distance((k * (2 * half) + base) \div s, n) + 1
<1> DEFINE step == 2 * half
<1> DEFINE x == n * s
<1> DEFINE y == c * step + base
<1> DEFINE z == k * step + base
<1> DEFINE a == Distance(y \div s, n)
<1> DEFINE b == Distance(z \div s, n)
<1>1. x \in Nat /\ y \in Nat /\ z \in Nat /\ step \in Nat \ {0}
  BY Times
<1>2. y <= x + half /\ x < y + half
  <2>1. x - base + half \in Nat
    BY <1>1
  <2> HIDE DEF x, step
  <2>2. step * c <= x - base + half /\ x - base + half < step * c + step
    BY <1>1, <2>1, Division DEF x, step
  <2>3. step * c = c * step /\ c * step \in Nat
    BY <1>1, Times
  <2> QED
    BY <1>1, <2>2, <2>3 DEF step
<1>3. z = y + step \/ z + step = y
  <2>1. \A u, v \in Nat : (u + 1) * v = u * v + v
    BY Z3
  <2>2. CASE k = c + 1
    <3> HIDE DEF step
    <3>1. k * step = c * step + step
      BY <1>1, <2>1, <2>2
    <3> QED
      BY <1>1, <3>1, Times
  <2>3. CASE k = c - 1
    <3>1. c = k + 1
      BY <2>3
    <3> HIDE DEF step
    <3>2. c * step = k * step + step
      BY <1>1, <2>1, <3>1
    <3> QED
      BY <1>1, <3>2, Times
  <2> QED
    BY <2>2, <2>3
<1>4. Distance(y, x) <= Distance(z, x)
  <2> HIDE DEF x, y, z
  <2> QED
    BY <1>1, <1>2, <1>3 DEF Distance
<1>5. y \div s \in Nat /\ z \div s \in Nat
  <2> HIDE DEF y, z
  <2> QED
    BY <1>1, Division
<1>6. a \in Nat /\ b \in Nat
  <2> HIDE DEF y, z
  <2> QED
    BY <1>5, DistanceNat
<1>7. s * a < Distance(y, x) + s /\ Distance(z, x) < s * b + s
  <2> HIDE DEF y, z
  <2> QED
    BY <1>1, Apart
<1>8. s * a < s * (b + 2)
  <2>1. s * (b + 2) = s * b + s + s
    <3> HIDE DEF b
    <3> QED
      BY <1>6, Z3
  <2>2. Distance(y, x) \in Nat /\ Distance(z, x) \in Nat
    <3> HIDE DEF x, y, z
    <3> QED
      BY <1>1, DistanceNat
  <2>3. s * a \in Nat /\ s * b \in Nat
    <3> HIDE DEF a, b
    <3> QED
      BY <1>6, Times
  <2> HIDE DEF a, b, x, y, z
  <2> DEFINE sa == s * a
  <2> DEFINE sb == s * b
  <2> HIDE DEF sa, sb
  <2>4. sa < sb + s + s
    BY <1>4, <1>7, <2>2, <2>3 DEF sa, sb
  <2> QED
    BY <2>1, <2>4 DEF sa, sb
<1>9. a < b + 2
  <2> HIDE DEF a, b
  <2>1. b + 2 \in Nat
    BY <1>6
  <2> QED
    BY <1>6, <1>8, <2>1, Order
<1> HIDE DEF a, b
<1>10. a <= b + 1
  BY <1>6, <1>9
<1> QED
  BY <1>10 DEF a, b, y, z, step

(* A number becomes the nearest of the codes, and the number of a code of   *)
(* the range is in the range again.                                         *)
LEMMA BqNearest ==
  ASSUME NEW n \in Nat, NEW sense \in Nat, NEW min \in Nat, NEW max \in Nat,
         NEW k \in Nat, BqCurrent(n, sense, min, max) # Refused,
         k \in {BqCurrent(n, sense, min, max) - 1, BqCurrent(n, sense, min, max) + 1}
  PROVE  Distance(BqMilliamps(BqCurrent(n, sense, min, max), sense), n)
           <= Distance(BqMilliamps(k, sense), n) + 1
<1> DEFINE shunt == IF sense = 0 THEN 5 ELSE sense
<1> DEFINE c == BqCurrent(n, sense, min, max)
<1>1. shunt \in Nat \ {0}
  OBVIOUS
<1>2. c = (n * shunt + 125) \div 250 /\ c \in Nat
  BY DEF BqCurrent
<1> DEFINE half == 125
<1>3. \A i \in Nat : BqMilliamps(i, sense) = (i * (2 * half) + 0) \div shunt
  <2>1. \A i \in Nat : i * 250 = i * (2 * half) + 0
    OBVIOUS
  <2> QED
    BY <2>1 DEF BqMilliamps
<1>4. n * shunt \in Nat /\ n * shunt - 0 + 125 = n * shunt + 125
  BY <1>1, Times
<1> HIDE DEF shunt, c
<1>5. c = (n * shunt - 0 + half) \div (2 * half) /\ 0 <= n * shunt
  BY <1>2, <1>4
<1>6. k \in {c - 1, c + 1} /\ half \in Nat \ {0}
  BY DEF c
<1> HIDE DEF half
<1>7. Distance((c * (2 * half) + 0) \div shunt, n) <= Distance((k * (2 * half) + 0) \div shunt, n) + 1
  <2>1. 0 \in Nat
    OBVIOUS
  <2> DEFINE base == 0
  <2> HIDE DEF base
  <2>2. base \in Nat /\ base <= n * shunt /\ c = (n * shunt - base + half) \div (2 * half)
    BY <1>5 DEF base
  <2>3. Distance((c * (2 * half) + base) \div shunt, n)
          <= Distance((k * (2 * half) + base) \div shunt, n) + 1
    BY <1>1, <1>2, <1>6, <2>2, NearestCode
  <2> QED
    BY <2>3 DEF base
<1> QED
  BY <1>2, <1>3, <1>7 DEF c

LEMMA ShpNearest ==
  ASSUME NEW n \in Nat, NEW sense \in Nat, NEW ref \in Nat \ {0}, NEW offset \in Nat,
         NEW step \in Nat, NEW half \in Nat \ {0}, step * ref = 2 * half,
         NEW maxCode \in Nat, NEW maxMa \in Nat, NEW c, NEW k \in Nat,
         c = ShpCurrent(n, sense, ref, offset, step, maxCode, maxMa),
         c # Refused, k \in {c - 1, c + 1},
         NEW shunt, shunt = IF sense = 0 THEN ref ELSE sense
  PROVE  Distance((c * (2 * half) + offset * ref) \div shunt, n)
           <= Distance((k * (2 * half) + offset * ref) \div shunt, n) + 1
<1> DEFINE base == offset * ref
<1>1. shunt \in Nat \ {0}
  OBVIOUS
<1>2. base \in Nat /\ n * shunt \in Nat
  BY <1>1, Times
<1>3. c = (n * shunt - base + (2 * half) \div 2) \div (2 * half) /\ ~(n * shunt < base)
  BY DEF ShpCurrent
<1>4. (2 * half) \div 2 = half
  OBVIOUS
<1> HIDE DEF base
<1>5. n * shunt - base + half \in Nat /\ base <= n * shunt
  BY <1>2, <1>3
<1>6. c \in Nat /\ c = (n * shunt - base + half) \div (2 * half)
  <2>1. 2 * half \in Nat \ {0}
    OBVIOUS
  <2> QED
    BY <1>3, <1>4, <1>5, <2>1, Division
<1>7. Distance((c * (2 * half) + base) \div shunt, n) <= Distance((k * (2 * half) + base) \div shunt, n) + 1
  BY <1>1, <1>2, <1>5, <1>6, NearestCode
<1> QED
  BY <1>7 DEF base

(* The fields of the SHP8808's currents.                                    *)
LEMMA ShpBatNearest ==
  ASSUME NEW n \in Nat, NEW offset \in Nat, NEW maxCode \in Nat, NEW maxMa \in Nat,
         NEW c, NEW k \in Nat, k \in {c - 1, c + 1}, c # Refused
  PROVE  c = ShpCurrent(n, ShpBatSense, 5, offset, 100, maxCode, maxMa)
           => Distance(ShpBatMilliamps(c, offset), n) <= Distance(ShpBatMilliamps(k, offset), n) + 1
<1> DEFINE half == 250
<1> DEFINE ref == 5
<1> DEFINE step == 100
<1> DEFINE shunt == IF ShpBatSense = 0 THEN ref ELSE ShpBatSense
<1>1. \A i \in {c, k} : ShpBatMilliamps(i, offset) = (i * (2 * half) + offset * ref) \div shunt
  <2>1. 2 * 250 = 500
    OBVIOUS
  <2> QED
    BY <2>1 DEF ShpBatMilliamps
<1>2. half \in Nat \ {0} /\ ref \in Nat \ {0} /\ step \in Nat /\ step * ref = 2 * half
  OBVIOUS
<1>3. ASSUME c = ShpCurrent(n, ShpBatSense, ref, offset, step, maxCode, maxMa)
      PROVE  Distance((c * (2 * half) + offset * ref) \div shunt, n)
               <= Distance((k * (2 * half) + offset * ref) \div shunt, n) + 1
  <2> HIDE DEF half, ref, step
  <2> QED
    BY <1>2, <1>3, ShpNearest, SenseAssumption
<1> QED
  BY <1>1, <1>3

LEMMA ShpInNearest ==
  ASSUME NEW n \in Nat, NEW maxCode \in Nat, NEW maxMa \in Nat,
         NEW c, NEW k \in Nat, k \in {c - 1, c + 1}, c # Refused
  PROVE  c = ShpCurrent(n, ShpInSense, 2, 2375, 375, maxCode, maxMa)
           => Distance(ShpInMilliamps(c), n) <= Distance(ShpInMilliamps(k), n) + 1
<1> DEFINE half == 375
<1> DEFINE ref == 2
<1> DEFINE offset == 2375
<1> DEFINE step == 375
<1> DEFINE shunt == IF ShpInSense = 0 THEN ref ELSE ShpInSense
<1>1. \A i \in {c, k} : ShpInMilliamps(i) = (i * (2 * half) + offset * ref) \div shunt
  <2>1. 2 * 375 = 750 /\ 2375 * 2 = 4750
    OBVIOUS
  <2> QED
    BY <2>1 DEF ShpInMilliamps
<1>2. /\ half \in Nat \ {0} /\ ref \in Nat \ {0} /\ offset \in Nat /\ step \in Nat
      /\ step * ref = 2 * half
  OBVIOUS
<1>3. ASSUME c = ShpCurrent(n, ShpInSense, ref, offset, step, maxCode, maxMa)
      PROVE  Distance((c * (2 * half) + offset * ref) \div shunt, n)
               <= Distance((k * (2 * half) + offset * ref) \div shunt, n) + 1
  <2> HIDE DEF half, ref, offset, step
  <2> QED
    BY <1>2, <1>3, ShpNearest, SenseAssumption
<1> QED
  BY <1>1, <1>3

LEMMA EachNearest ==
  ASSUME NEW f \in Fields, NEW n \in Nat, NEW c, c = Encode(f, n), c # Refused,
         NEW k \in Nat, k \in {c - 1, c + 1}
  PROVE  Distance(Decode(f, c), n) <= Distance(Decode(f, k), n) + 1
<1>1. CASE f \in Voltages
  <2>1. Decode(f, c) = n
    BY <1>1, VoltageExact
  <2>2. Decode(f, k) \in Nat
    BY EachNumber
  <2>3. Distance(n, n) = 0 /\ Distance(Decode(f, k), n) \in Nat
    BY <2>2, DistanceNat DEF Distance
  <2> QED
    BY <2>1, <2>3
<1>2. CASE f \in {"bq_iac_ma", "rev_iac_ma"}
  <2>1. c = BqCurrent(n, BqInSense, 8, 400)
    BY <1>2 DEF Encode
  <2>2. \A i \in {c, k} : Decode(f, i) = BqMilliamps(i, BqInSense)
    BY <1>2 DEF Decode
  <2> QED
    BY <2>1, <2>2, BqNearest, SenseAssumption
<1>3. CASE f = "bq_ichg_ma"
  <2>1. c = BqCurrent(n, BqBatSense, 8, 400)
    BY <1>3 DEF Encode
  <2>2. \A i \in {c, k} : Decode(f, i) = BqMilliamps(i, BqBatSense)
    BY <1>3 DEF Decode
  <2> QED
    BY <2>1, <2>2, BqNearest, SenseAssumption
<1>4. CASE f \in {"bq_ipre_ma", "bq_iterm_ma"}
  <2>1. c = BqCurrent(n, BqBatSense, 5, 200)
    BY <1>4 DEF Encode
  <2>2. \A i \in {c, k} : Decode(f, i) = BqMilliamps(i, BqBatSense)
    BY <1>4 DEF Decode
  <2> QED
    BY <2>1, <2>2, BqNearest, SenseAssumption
<1>5. CASE f = "shp_ichg_ma"
  <2>1. c = ShpCurrent(n, ShpBatSense, 5, 1000, 100, 190, 20000)
    BY <1>5 DEF Encode
  <2>2. \A i \in {c, k} : Decode(f, i) = ShpBatMilliamps(i, 1000)
    BY <1>5 DEF Decode
  <2> QED
    BY <2>1, <2>2, ShpBatNearest
<1>6. CASE f = "shp_ipre_ma"
  <2>1. c = ShpCurrent(n, ShpBatSense, 5, 400, 100, 96, 10000)
    BY <1>6 DEF Encode
  <2>2. \A i \in {c, k} : Decode(f, i) = ShpBatMilliamps(i, 400)
    BY <1>6 DEF Decode
  <2> QED
    BY <2>1, <2>2, ShpBatNearest
<1>7. CASE f = "shp_iterm_ma"
  <2>1. c = ShpCurrent(n, ShpBatSense, 5, 400, 100, 63, 6700)
    BY <1>7 DEF Encode
  <2>2. \A i \in {c, k} : Decode(f, i) = ShpBatMilliamps(i, 400)
    BY <1>7 DEF Decode
  <2> QED
    BY <2>1, <2>2, ShpBatNearest
<1>8. CASE f \in {"shp_iac_ma", "ibus_ma"}
  <2>1. c = ShpCurrent(n, ShpInSense, 2, 2375, 375, 127, 50000)
    BY <1>8 DEF Encode
  <2>2. \A i \in {c, k} : Decode(f, i) = ShpInMilliamps(i)
    BY <1>8 DEF Decode
  <2> QED
    BY <2>1, <2>2, ShpInNearest
<1> QED
  BY <1>1, <1>2, <1>3, <1>4, <1>5, <1>6, <1>7, <1>8
   DEF Fields, Groups, BqCharge, BqReverse, ShpCharge, ShpReverse, Voltages

-----------------------------------------------------------------------------
(* The numbers shown for what was accepted are accepted again, provided the *)
(* offsets of the SHP8808 are whole numbers of milliamperes on its shunts:  *)
(* the board's 5 and 2 milliohms (board_config.h) divide them.  On a shunt  *)
(* of 7 milliohms code 0 is shown as 714 mA, which the driver refuses.      *)
Divides(s, n) == \E q \in Nat : n = s * q

WholeOffsets ==
  /\ ShpBatSense # 0 => Divides(ShpBatSense, 5000) /\ Divides(ShpBatSense, 2000)
  /\ ShpInSense # 0 => Divides(ShpInSense, 4750)

(* The codes of the BQ25756 run from min to max, 100 A on one milliohm.     *)
LEMMA BqAgain ==
  ASSUME NEW n \in Nat, NEW sense \in Nat, NEW min \in Nat, NEW max \in Nat, max <= 400, NEW c
  PROVE  c = BqCurrent(n, sense, min, max) /\ c # Refused
           => BqCurrent(BqMilliamps(c, sense), sense, min, max) = c
<1> DEFINE shunt == IF sense = 0 THEN 5 ELSE sense
<1> DEFINE ma == BqMilliamps(c, sense)
<1>0. SUFFICES ASSUME c = BqCurrent(n, sense, min, max), c # Refused
               PROVE  BqCurrent(ma, sense, min, max) = c
  OBVIOUS
<1>1. shunt \in Nat \ {0} /\ shunt <= 100 /\ c \in min..max
  BY <1>0 DEF BqCurrent
<1>2. c \in Nat /\ c * 250 \in Nat /\ c * 250 <= 100000
  BY <1>1
<1>3. ma = (c * 250) \div shunt
  BY DEF BqMilliamps
<1> HIDE DEF ma, shunt
<1>4. ma \in Nat /\ shunt * ma <= c * 250 /\ c * 250 < shunt * ma + shunt
  <2> DEFINE y == c * 250
  <2> HIDE DEF y
  <2>1. y \in Nat /\ ma = y \div shunt
    BY <1>2, <1>3 DEF y
  <2>2. ma \in Nat /\ shunt * ma <= y /\ y < shunt * ma + shunt
    BY <1>1, <2>1, Division
  <2> QED
    BY <2>2 DEF y
<1>5. ma <= shunt * ma
  <2>1. \A u \in Nat \ {0} : \A v \in Nat : v <= u * v
    BY Z3
  <2> QED
    BY <1>1, <1>4, <2>1
<1>6. ma <= 100000
  <2> DEFINE p == shunt * ma
  <2> HIDE DEF p
  <2>1. p \in Nat /\ ma <= p /\ p <= c * 250
    BY <1>1, <1>4, <1>5, Times DEF p
  <2> QED
    BY <1>2, <1>4, <2>1
<1>7. (ma * shunt + 125) \div 250 = c
  <2> DEFINE p == ma * shunt
  <2>1. p \in Nat /\ p = shunt * ma
    BY <1>1, <1>4, Times
  <2> HIDE DEF p
  <2>2. 250 * c <= p + 125 /\ p + 125 < 250 * c + 250 /\ p + 125 \in Nat
    BY <1>1, <1>2, <1>4, <2>1
  <2>3. (p + 125) \div 250 = c
    BY <1>2, <2>2, Quotient
  <2> QED
    BY <2>3 DEF p
<1>8. BqCurrent(ma, sense, min, max) = c
  <2>1. (IF sense = 0 THEN 5 ELSE sense) = shunt
    BY DEF shunt
  <2>2. ~(shunt > 100) /\ ~(ma > 100000)
    BY <1>1, <1>4, <1>6
  <2> QED
    BY <1>1, <1>4, <1>7, <2>1, <2>2 DEF BqCurrent
<1> QED
  BY <1>8 DEF ma

LEMMA DivideOrder ==
  ASSUME NEW s \in Nat \ {0}, NEW a \in Nat, NEW b \in Nat, a <= b
  PROVE  a \div s <= b \div s
<1> DEFINE d == a \div s
<1> DEFINE e == b \div s
<1>1. d \in Nat /\ e \in Nat /\ s * d <= a /\ b < s * e + s
  BY Division
<1> HIDE DEF d, e
<1>2. s * (e + 1) = s * e + s
  BY <1>1, Z3
<1>3. s * d < s * (e + 1)
  <2> DEFINE p == s * d
  <2> DEFINE q == s * e
  <2>1. p \in Nat /\ q \in Nat
    BY <1>1, Times
  <2> HIDE DEF p, q
  <2>2. p <= a /\ b < q + s /\ s * (e + 1) = q + s
    BY <1>1, <1>2 DEF p, q
  <2>3. p < q + s
    BY <2>1, <2>2
  <2> QED
    BY <2>2, <2>3 DEF p
<1>4. e + 1 \in Nat
  BY <1>1
<1>5. d < e + 1
  BY <1>1, <1>3, <1>4, Order
<1> QED
  BY <1>1, <1>5 DEF d, e

(* A code no larger than the limit, and the number that is shown for it.    *)
Shown(wide, base, top, c, s, ma) ==
  /\ wide \in Nat \ {0} /\ base \in Nat /\ top \in Nat /\ c \in Nat /\ s \in Nat \ {0}
  /\ s <= wide \div 2 /\ Divides(s, base)
  /\ c * wide + base <= top
  /\ ma = (c * wide + base) \div s

LEMMA ShownAgain ==
  ASSUME NEW wide, NEW base, NEW top, NEW c, NEW s, NEW ma, Shown(wide, base, top, c, s, ma)
  PROVE  /\ ma \in Nat
         /\ ma <= top
         /\ ma <= top \div s
         /\ base <= ma * s
         /\ (ma * s - base + wide \div 2) \div wide = c
<1> DEFINE y == c * wide + base
<1>1. /\ wide \in Nat \ {0} /\ base \in Nat /\ top \in Nat /\ c \in Nat /\ s \in Nat \ {0}
      /\ s <= wide \div 2 /\ Divides(s, base) /\ y <= top /\ ma = y \div s
  BY DEF Shown
<1>2. y \in Nat /\ base <= y
  <2>1. c * wide \in Nat
    BY <1>1, Times
  <2> DEFINE z == c * wide
  <2> HIDE DEF z
  <2>2. y = z + base /\ z \in Nat
    BY <2>1 DEF z
  <2> QED
    BY <1>1, <2>2
<1> HIDE DEF y
<1>3. ma \in Nat /\ s * ma <= y /\ y < s * ma + s
  BY <1>1, <1>2, Division
<1>4. ma * s \in Nat /\ ma * s = s * ma
  BY <1>1, <1>3, Times
<1>5. ma <= top \div s
  BY <1>1, <1>2, DivideOrder
<1>6. ma <= top
  <2>1. \A u \in Nat \ {0} : \A v \in Nat : v <= u * v
    BY Z3
  <2>2. ma <= s * ma
    BY <1>1, <1>3, <2>1
  <2> DEFINE p == s * ma
  <2> HIDE DEF p
  <2>3. ma <= p /\ p <= y /\ p \in Nat
    BY <1>3, <1>4, <2>2 DEF p
  <2> QED
    BY <1>1, <1>2, <1>3, <2>3
<1>7. base <= ma * s
  <2>1. PICK q \in Nat : base = s * q
    BY <1>1 DEF Divides
  <2>2. base \div s <= ma
    BY <1>1, <1>2, DivideOrder
  <2>3. base \div s = q
    BY <1>1, <2>1, Quotient
  <2>4. \A u, v, w \in Nat : u <= v => w * u <= w * v
    BY Z3
  <2>5. s * q <= s * ma
    BY <1>1, <1>3, <2>2, <2>3, <2>4
  <2> QED
    BY <1>4, <2>1, <2>5
<1>8. (ma * s - base + wide \div 2) \div wide = c
  <2>1. ma = (c * wide + base) \div s
    BY <1>1 DEF y
  <2>2. s <= wide \div 2 /\ ma = (c * wide + base) \div s /\ base <= ma * s
          => (ma * s - base + wide \div 2) \div wide = c
    BY <1>1, <1>3, Rounding, ZenonT(30)
  <2> QED
    BY <1>1, <1>7, <2>1, <2>2, Zenon
<1> QED
  BY <1>3, <1>5, <1>6, <1>7, <1>8

(* The drivers take no shunt above 100 milliohms and no current above 100 A.*)
(* The SHP8808's largest code is its largest current, and that is 100 A on  *)
(* one milliohm or less.                                                    *)
Shunt(sense, ref) == IF sense = 0 THEN ref ELSE sense

InRange(sense, ref, offset, step, maxCode, maxMa, c) ==
  /\ sense \in Nat /\ ref \in Nat \ {0} /\ offset \in Nat /\ step \in Nat \ {0}
  /\ maxCode \in Nat /\ maxMa \in Nat /\ c \in Nat /\ c <= maxCode
  /\ Shunt(sense, ref) <= 100 /\ maxMa * ref <= 100000
  /\ Shunt(sense, ref) <= (step * ref) \div 2 /\ Divides(Shunt(sense, ref), offset * ref)
  /\ c * (step * ref) + offset * ref <= maxMa * ref

LEMMA ShpAgain ==
  ASSUME NEW sense, NEW ref, NEW offset, NEW step, NEW maxCode, NEW maxMa, NEW c,
         InRange(sense, ref, offset, step, maxCode, maxMa, c)
  PROVE  ShpCurrent((c * (step * ref) + offset * ref) \div Shunt(sense, ref),
                    sense, ref, offset, step, maxCode, maxMa) = c
<1> DEFINE wide == step * ref
<1> DEFINE base == offset * ref
<1> DEFINE top == maxMa * ref
<1> DEFINE s == Shunt(sense, ref)
<1> DEFINE ma == (c * wide + base) \div s
<1>1. s \in Nat \ {0} /\ c \in Nat /\ c <= maxCode /\ maxCode \in Nat /\ s <= 100 /\ top <= 100000
  BY DEF InRange, Shunt
<1>2. wide \in Nat \ {0} /\ base \in Nat /\ top \in Nat
  <2>1. \A u, v \in Nat \ {0} : u * v \in Nat \ {0}
    BY Z3
  <2> QED
    BY <2>1, Times DEF InRange
<1>3. Shown(wide, base, top, c, s, ma)
  <2>1. s <= wide \div 2 /\ Divides(s, base) /\ c * wide + base <= top
    BY DEF InRange
  <2> HIDE DEF wide, base, top, s
  <2> QED
    BY <1>1, <1>2, <2>1 DEF Shown
<1> HIDE DEF ma
<1>4. /\ ma \in Nat
      /\ ma <= top
      /\ ma <= top \div s
      /\ base <= ma * s
      /\ (ma * s - base + wide \div 2) \div wide = c
  <2> HIDE DEF wide, base, top, s
  <2> QED
    BY <1>3, ShownAgain
<1>5. ~(s > 100) /\ ~(ma > 100000) /\ ~(ma * s < base) /\ ~(ma > top \div s) /\ ~(c > maxCode)
  <2> HIDE DEF wide, base, top, s
  <2>1. ma * s \in Nat /\ top \div s \in Nat
    BY <1>1, <1>2, <1>4, Times, Division
  <2>2. ~(ma * s < base)
    BY <1>2, <1>4, <2>1
  <2>3. ~(ma > top \div s)
    BY <1>4, <2>1
  <2> QED
    BY <1>1, <1>2, <1>4, <2>2, <2>3
<1>6. (IF sense = 0 THEN ref ELSE sense) = s
  BY DEF Shunt
<1> HIDE DEF s
<1>7. ShpCurrent(ma, sense, ref, offset, step, maxCode, maxMa) = c
  BY <1>4, <1>5, <1>6 DEF ShpCurrent
<1> QED
  BY <1>7 DEF ma, s

ShpBatLimits(offset, maxCode, maxMa) ==
  /\ offset \in Nat /\ maxCode \in Nat /\ maxMa \in Nat
  /\ maxCode * 500 + offset * 5 <= maxMa * 5 /\ maxMa * 5 <= 100000
  /\ ShpBatSense # 0 => Divides(ShpBatSense, offset * 5)

LEMMA ShpBatAgain ==
  ASSUME NEW n \in Nat, NEW offset, NEW maxCode, NEW maxMa, ShpBatLimits(offset, maxCode, maxMa),
         NEW c, c = ShpCurrent(n, ShpBatSense, 5, offset, 100, maxCode, maxMa), c # Refused
  PROVE  ShpCurrent(ShpBatMilliamps(c, offset), ShpBatSense, 5, offset, 100, maxCode, maxMa) = c
<1> USE DEF ShpBatLimits
<1>1. Shunt(ShpBatSense, 5) \in Nat \ {0} /\ Shunt(ShpBatSense, 5) <= 100
  BY SenseAssumption DEF ShpCurrent, Shunt
<1>2. c \in Nat /\ c <= maxCode
  <2>1. Below(ShpCurrent(n, ShpBatSense, 5, offset, 100, maxCode, maxMa), maxCode + 1)
    BY SenseAssumption, ShpFits, SMTT(30)
  <2> QED
    BY <2>1 DEF Below
<1>3. Divides(Shunt(ShpBatSense, 5), offset * 5)
  <2>1. offset * 5 = 5 * offset
    OBVIOUS
  <2> QED
    BY <2>1 DEF Divides, Shunt
<1>4. c * (100 * 5) + offset * 5 <= maxMa * 5
  BY <1>2
<1>5. InRange(ShpBatSense, 5, offset, 100, maxCode, maxMa, c)
  BY <1>1, <1>2, <1>3, <1>4, SenseAssumption DEF InRange
<1>6. ShpBatMilliamps(c, offset) = (c * (100 * 5) + offset * 5) \div Shunt(ShpBatSense, 5)
  <2>1. c * (100 * 5) = c * 500
    BY <1>2
  <2> QED
    BY <2>1 DEF ShpBatMilliamps, Shunt
<1> QED
  BY <1>5, <1>6, ShpAgain

LEMMA ShpInAgain ==
  ASSUME NEW n \in Nat, ShpInSense # 0 => Divides(ShpInSense, 4750),
         NEW c, c = ShpCurrent(n, ShpInSense, 2, 2375, 375, 127, 50000), c # Refused
  PROVE  ShpCurrent(ShpInMilliamps(c), ShpInSense, 2, 2375, 375, 127, 50000) = c
<1>1. Shunt(ShpInSense, 2) \in Nat \ {0} /\ Shunt(ShpInSense, 2) <= 100
  BY SenseAssumption DEF ShpCurrent, Shunt
<1>2. c \in Nat /\ c <= 127
  <2>1. Below(ShpCurrent(n, ShpInSense, 2, 2375, 375, 127, 50000), 127 + 1)
    BY SenseAssumption, ShpFits, SMTT(30)
  <2> QED
    BY <2>1 DEF Below
<1>3. Divides(Shunt(ShpInSense, 2), 2375 * 2)
  <2>1. 2375 * 2 = 4750 /\ 2375 * 2 = 2 * 2375
    OBVIOUS
  <2> QED
    BY <2>1 DEF Divides, Shunt
<1>4. c * (375 * 2) + 2375 * 2 <= 50000 * 2
  BY <1>2
<1>5. InRange(ShpInSense, 2, 2375, 375, 127, 50000, c)
  BY <1>1, <1>2, <1>3, <1>4, SenseAssumption DEF InRange
<1>6. ShpInMilliamps(c) = (c * (375 * 2) + 2375 * 2) \div Shunt(ShpInSense, 2)
  <2>1. c * (375 * 2) = c * 750 /\ 2375 * 2 = 4750
    BY <1>2
  <2> QED
    BY <2>1 DEF ShpInMilliamps, Shunt
<1> QED
  BY <1>5, <1>6, ShpAgain

LEMMA EachAgain ==
  ASSUME WholeOffsets, NEW f \in Fields, NEW n \in Nat, NEW c, c = Encode(f, n), c # Refused
  PROVE  Encode(f, Decode(f, c)) = c
<1>1. CASE f \in Voltages
  BY <1>1, VoltageExact
<1>2. CASE f \in {"bq_iac_ma", "rev_iac_ma"}
  <2>1. c = BqCurrent(n, BqInSense, 8, 400)
    BY <1>2 DEF Encode
  <2>2. Encode(f, Decode(f, c)) = BqCurrent(BqMilliamps(c, BqInSense), BqInSense, 8, 400)
    BY <1>2 DEF Encode, Decode
  <2> QED
    BY <2>1, <2>2, BqAgain, SenseAssumption
<1>3. CASE f = "bq_ichg_ma"
  <2>1. c = BqCurrent(n, BqBatSense, 8, 400)
    BY <1>3 DEF Encode
  <2>2. Encode(f, Decode(f, c)) = BqCurrent(BqMilliamps(c, BqBatSense), BqBatSense, 8, 400)
    BY <1>3 DEF Encode, Decode
  <2> QED
    BY <2>1, <2>2, BqAgain, SenseAssumption
<1>4. CASE f \in {"bq_ipre_ma", "bq_iterm_ma"}
  <2>1. c = BqCurrent(n, BqBatSense, 5, 200)
    BY <1>4 DEF Encode
  <2>2. Encode(f, Decode(f, c)) = BqCurrent(BqMilliamps(c, BqBatSense), BqBatSense, 5, 200)
    BY <1>4 DEF Encode, Decode
  <2> QED
    BY <2>1, <2>2, BqAgain, SenseAssumption
<1>5. CASE f = "shp_ichg_ma"
  <2>1. c = ShpCurrent(n, ShpBatSense, 5, 1000, 100, 190, 20000)
    BY <1>5 DEF Encode
  <2>2. Encode(f, Decode(f, c))
          = ShpCurrent(ShpBatMilliamps(c, 1000), ShpBatSense, 5, 1000, 100, 190, 20000)
    BY <1>5 DEF Encode, Decode
  <2>3. ShpBatLimits(1000, 190, 20000)
    BY DEF WholeOffsets, ShpBatLimits
  <2>4. ShpCurrent(ShpBatMilliamps(c, 1000), ShpBatSense, 5, 1000, 100, 190, 20000) = c
    BY <2>1, <2>3, ShpBatAgain
  <2> QED
    BY <2>2, <2>4
<1>6. CASE f = "shp_ipre_ma"
  <2>1. c = ShpCurrent(n, ShpBatSense, 5, 400, 100, 96, 10000)
    BY <1>6 DEF Encode
  <2>2. Encode(f, Decode(f, c))
          = ShpCurrent(ShpBatMilliamps(c, 400), ShpBatSense, 5, 400, 100, 96, 10000)
    BY <1>6 DEF Encode, Decode
  <2>3. ShpBatLimits(400, 96, 10000)
    BY DEF WholeOffsets, ShpBatLimits
  <2>4. ShpCurrent(ShpBatMilliamps(c, 400), ShpBatSense, 5, 400, 100, 96, 10000) = c
    BY <2>1, <2>3, ShpBatAgain
  <2> QED
    BY <2>2, <2>4
<1>7. CASE f = "shp_iterm_ma"
  <2>1. c = ShpCurrent(n, ShpBatSense, 5, 400, 100, 63, 6700)
    BY <1>7 DEF Encode
  <2>2. Encode(f, Decode(f, c))
          = ShpCurrent(ShpBatMilliamps(c, 400), ShpBatSense, 5, 400, 100, 63, 6700)
    BY <1>7 DEF Encode, Decode
  <2>3. ShpBatLimits(400, 63, 6700)
    BY DEF WholeOffsets, ShpBatLimits
  <2>4. ShpCurrent(ShpBatMilliamps(c, 400), ShpBatSense, 5, 400, 100, 63, 6700) = c
    BY <2>1, <2>3, ShpBatAgain
  <2> QED
    BY <2>2, <2>4
<1>8. CASE f \in {"shp_iac_ma", "ibus_ma"}
  <2>1. c = ShpCurrent(n, ShpInSense, 2, 2375, 375, 127, 50000)
    BY <1>8 DEF Encode
  <2>2. Encode(f, Decode(f, c)) = ShpCurrent(ShpInMilliamps(c), ShpInSense, 2, 2375, 375, 127, 50000)
    BY <1>8 DEF Encode, Decode
  <2> QED
    BY <2>1, <2>2, ShpInAgain DEF WholeOffsets
<1> QED
  BY <1>1, <1>2, <1>3, <1>4, <1>5, <1>6, <1>7, <1>8
   DEF Fields, Groups, BqCharge, BqReverse, ShpCharge, ShpReverse, Voltages

-----------------------------------------------------------------------------
(* What the last command wrote: every code of its group came from a number  *)
(* the driver accepted, for a named setting from the one in the request.    *)
Written ==
  last.ok =>
    /\ \A f \in last.group :
         f \in Fields /\ reg[f] # Refused /\ \E n \in Nat : reg[f] = Encode(f, n)
    /\ \A f \in DOMAIN last.request :
         /\ f \in Fields /\ last.request[f] \in Nat
         /\ reg[f] # Refused /\ reg[f] = Encode(f, Narrowed(f, last.request[f]))

LEMMA InitWritten == Init => Written
BY DEF Init, Written

LEMMA StepWritten ==
  ASSUME Inv, Written, [Next]_vars
  PROVE  Written'
<1>1. CASE UNCHANGED vars
  BY <1>1 DEF vars, Written
<1>2. ASSUME NEW group \in Groups, NEW named \in SUBSET group, NEW request \in Requests(named),
             Configure(group, request)
      PROVE  Written'
  <2> DEFINE code == [f \in group |-> Encode(f, Config(group, request)[f])]
  <2>1. last' = [request |-> request, group |-> group, ok |-> Refused \notin Range(code)]
    BY <1>2 DEF Configure
  <2>2. CASE Refused \in Range(code)
    <3>1. ~last'.ok
      BY <2>1, <2>2
    <3> QED
      BY <3>1 DEF Written
  <2>3. CASE Refused \notin Range(code)
    <3>1. reg' = [f \in Fields |-> IF f \in group THEN code[f] ELSE reg[f]]
      BY <1>2, <2>3 DEF Configure
    <3>2. DOMAIN request = named /\ group \subseteq Fields
      BY DEF Requests, Fields
    <3>3. ASSUME NEW f \in group
          PROVE  /\ reg'[f] # Refused
                 /\ reg'[f] = Encode(f, Config(group, request)[f])
      <4>1. code[f] # Refused
        BY <2>3 DEF Range
      <4> QED
        BY <3>1, <3>2, <4>1
    <3>4. ASSUME NEW f \in named
          PROVE  /\ request[f] \in Nat
                 /\ Config(group, request)[f] = Narrowed(f, request[f])
                 /\ Narrowed(f, request[f]) \in Nat
      <4>1. request[f] \in Nat
        BY <3>2, CodesAssumption DEF Requests
      <4> QED
        BY <3>2, <4>1 DEF Config, Narrowed
    <3>5. ASSUME NEW f \in group
          PROVE  Config(group, request)[f] \in Nat
      <4>1. CASE f \in named
        BY <3>4, <4>1
      <4>2. CASE f \notin named
        <5>1. Config(group, request)[f] = Decode(f, reg[f])
          BY <3>2, <4>2 DEF Config, Inv, Decoded
        <5>2. reg[f] \in Nat
          BY <3>2 DEF Inv
        <5> QED
          BY <3>2, <5>1, <5>2, EachNumber
      <4> QED
        BY <4>1, <4>2
    <3> HIDE DEF code
    <3>6. last'.group = group /\ last'.request = request
      BY <2>1
    <3>7. \A f \in group : f \in Fields /\ reg'[f] # Refused /\ \E n \in Nat : reg'[f] = Encode(f, n)
      BY <3>2, <3>3, <3>5
    <3>8. \A f \in DOMAIN request :
            /\ f \in Fields /\ request[f] \in Nat
            /\ reg'[f] # Refused /\ reg'[f] = Encode(f, Narrowed(f, request[f]))
      BY <3>2, <3>3, <3>4
    <3> QED
      BY <3>6, <3>7, <3>8 DEF Written
  <2> QED
    BY <2>2, <2>3
<1>3. ASSUME NEW chip \in Chips, Reset(chip)
      PROVE  Written'
  <2>1. last'.group = {} /\ last'.request = None /\ DOMAIN None = {}
    BY <1>3 DEF Reset, None
  <2> QED
    BY <2>1 DEF Written
<1> QED
  BY <1>1, <1>2, <1>3 DEF Next, Command

(* After a successful command the snapshot's own numbers are accepted and   *)
(* encode to the codes in the registers, for every shunt of the BQ25756 and *)
(* the shunts of the SHP8808 on which its offsets are whole.                *)
THEOREM SettledHolds == ASSUME WholeOffsets PROVE Spec => []Settled
<1>1. Inv /\ Written => Settled
  <2> SUFFICES ASSUME Inv, Written, last.ok, NEW f \in last.group
               PROVE  Encode(f, snap[f]) = reg[f]
    BY DEF Settled
  <2>1. f \in Fields /\ reg[f] # Refused
    BY DEF Written
  <2>2. PICK n \in Nat : reg[f] = Encode(f, n)
    BY DEF Written
  <2>3. snap[f] = Decode(f, reg[f])
    BY <2>1 DEF Inv, Decoded
  <2> QED
    BY <2>1, <2>2, <2>3, EachAgain
<1>2. Inv /\ Written /\ [Next]_vars => Inv' /\ Written'
  BY StepInv, StepWritten
<1> QED
  BY <1>1, <1>2, InitInv, InitWritten, PTL DEF Spec

(* An accepted number becomes the nearest code, for every number and every  *)
(* shunt.                                                                   *)
THEOREM NearestHolds == Spec => []Nearest
<1>1. Inv /\ Written => Nearest
  <2> SUFFICES ASSUME Inv, Written, last.ok, NEW f \in DOMAIN last.request,
                      last.request[f] = Narrowed(f, last.request[f]),
                      NEW c \in {reg[f] - 1, reg[f] + 1} \intersect 0..(Width(f) - 1)
               PROVE  Distance(Decode(f, reg[f]), last.request[f])
                        <= Distance(Decode(f, c), last.request[f]) + 1
    BY DEF Nearest
  <2>1. /\ f \in Fields /\ last.request[f] \in Nat
        /\ reg[f] # Refused /\ reg[f] = Encode(f, last.request[f])
    BY DEF Written
  <2>2. c \in Nat
    BY <2>1, WidthNat
  <2> QED
    BY <2>1, <2>2, EachNearest
<1>2. Inv /\ Written /\ [Next]_vars => Inv' /\ Written'
  BY StepInv, StepWritten
<1> QED
  BY <1>1, <1>2, InitInv, InitWritten, PTL DEF Spec
==============================================================================
