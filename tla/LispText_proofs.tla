------------------------- MODULE LispText_proofs -------------------------
(***************************************************************************)
(* A string keeps its text, a name is one symbol and gensym gives no       *)
(* symbol twice, for all pools and all texts.                              *)
(***************************************************************************)
EXTENDS LispText, SequenceTheorems, WellFoundedInduction, TLAPS

-----------------------------------------------------------------------------
(* Numbers *)

LEMMA Sizes ==
  /\ STR_POOL_SIZE \in Nat /\ FIELD \in Nat \ {0} /\ NAME_POOL_SIZE \in Nat
  /\ MAX_SYMBOLS \in Nat /\ 2 <= MAX_SYMBOLS /\ MaxStrings \in Nat /\ MaxResets \in Nat
  /\ NUL \notin Char /\ Texts \subseteq Seq(Char)
  BY LispTextAssumption

\* Sets of natural numbers have a least element.
LEMMA LeastNat ==
  ASSUME NEW T \in SUBSET Nat, T # {}
  PROVE  \E x \in T : \A y \in T : x <= y
  <1>1. IsWellFoundedOn(OpToRel(<, Nat), Nat)
    BY NatLessThanWellFounded
  <1>2. PICK x \in T : \A y \in T : ~(<<y, x>> \in OpToRel(<, Nat))
    BY <1>1, WFMin
  <1>3. \A y \in T : ~(y < x)
    BY <1>2 DEF OpToRel
  <1>4. ASSUME NEW y \in T PROVE x <= y
    <2>1. x \in Nat /\ y \in Nat /\ ~(y < x)
      BY <1>3
    <2> QED
      BY <2>1
  <1> QED
    BY <1>4

\* A packed word gives back what was packed.
LEMMA DivMod ==
  ASSUME NEW F \in Nat \ {0}, NEW q \in Nat, NEW r \in 0 .. F - 1
  PROVE  /\ ((q * F) + r) \div F = q /\ ((q * F) + r) % F = r
         /\ q < F => (q * F) + r \in 0 .. (F * F) - 1
  <1> DEFINE w == (q * F) + r
  <1>1. ASSUME NEW a \in Nat, NEW b \in Nat, a < b PROVE (a * F) + F <= b * F
    <2>1. b - a - 1 \in Nat /\ b = a + 1 + (b - a - 1)
      BY <1>1
    <2>2. b * F = (a * F) + F + ((b - a - 1) * F)
      BY <2>1
    <2>3. (b - a - 1) * F \in Nat /\ a * F \in Nat
      BY <2>1
    <2> QED
      BY <2>2, <2>3
  <1>2. w \in Nat /\ q * F \in Nat
    OBVIOUS
  <1> HIDE DEF w
  <1>3. w \div F \in Nat /\ w % F \in 0 .. F - 1 /\ w = ((w \div F) * F) + (w % F)
    BY <1>2
  <1> DEFINE d == w \div F
             m == w % F
  <1> HIDE DEF d, m
  <1>4. d \in Nat /\ m \in 0 .. F - 1 /\ (d * F) + m = (q * F) + r /\ d * F \in Nat
    BY <1>3 DEF d, m, w
  <1>5. ~(d < q)
    <2> SUFFICES ASSUME d < q PROVE FALSE
      OBVIOUS
    <2>1. (d * F) + F <= q * F
      BY <1>1, <1>4
    <2> QED
      BY <1>2, <1>4, <2>1
  <1>6. ~(q < d)
    <2> SUFFICES ASSUME q < d PROVE FALSE
      OBVIOUS
    <2>1. (q * F) + F <= d * F
      BY <1>1, <1>4
    <2> QED
      BY <1>2, <1>4, <2>1
  <1>7. d = q
    BY <1>4, <1>5, <1>6
  <1>8. m = r
    BY <1>2, <1>4, <1>7
  <1>9. q < F => w \in 0 .. (F * F) - 1
    <2> SUFFICES ASSUME q < F PROVE w \in 0 .. (F * F) - 1
      OBVIOUS
    <2>1. (q * F) + F <= F * F
      BY <1>1
    <2>2. F * F \in Nat
      OBVIOUS
    <2> QED
      BY <1>2, <2>1, <2>2 DEF w
  <1> QED
    BY <1>7, <1>8, <1>9 DEF d, m, w

-----------------------------------------------------------------------------
(* Recursion over the natural numbers, where a value rests on that of a lesser one *)

IsFrom(n, g, D, base, step, prev) ==
  /\ g \in [0 .. n -> D]
  /\ \A k \in 0 .. n : g[k] = IF k = 0 THEN base ELSE step[k][g[prev[k]]]

LEMMA RecursionAgrees ==
  ASSUME NEW D, NEW base, NEW step, NEW prev \in [Nat -> Nat], \A n \in Nat \ {0} : prev[n] < n,
         NEW m \in Nat, NEW n \in Nat, NEW g, NEW h,
         IsFrom(m, g, D, base, step, prev), IsFrom(n, h, D, base, step, prev),
         NEW k \in Nat, k <= m, k <= n
  PROVE  g[k] = h[k]
  <1> DEFINE T == {x \in Nat : x <= m /\ x <= n /\ g[x] # h[x]}
  <1> SUFFICES ASSUME T # {} PROVE FALSE
    OBVIOUS
  <1>1. PICK x \in T : \A y \in T : x <= y
    <2>1. T \in SUBSET Nat
      OBVIOUS
    <2> HIDE DEF T
    <2> QED
      BY <2>1, LeastNat
  <1>2. x \in Nat /\ x <= m /\ x <= n /\ g[x] # h[x]
    OBVIOUS
  <1>3. x \in 0 .. m /\ x \in 0 .. n
    BY <1>2
  <1>4. x # 0 /\ g[x] = step[x][g[prev[x]]] /\ h[x] = step[x][h[prev[x]]]
    BY <1>2, <1>3 DEF IsFrom
  <1>5. prev[x] \in Nat /\ prev[x] < x
    BY <1>2, <1>4
  <1>6. g[prev[x]] = h[prev[x]]
    <2> SUFFICES ASSUME g[prev[x]] # h[prev[x]] PROVE FALSE
      OBVIOUS
    <2>1. prev[x] \in T
      BY <1>2, <1>5
    <2>2. x <= prev[x]
      BY <1>1, <2>1
    <2> HIDE DEF T
    <2> QED
      BY <1>2, <1>5, <2>2
  <1> QED
    BY <1>2, <1>4, <1>6

LEMMA RecursionNext ==
  ASSUME NEW D, NEW base \in D, NEW step \in [Nat -> [D -> D]],
         NEW prev \in [Nat -> Nat], \A n \in Nat \ {0} : prev[n] < n,
         NEW n \in Nat, NEW f, IsFrom(n, f, D, base, step, prev)
  PROVE  \E g : IsFrom(n + 1, g, D, base, step, prev)
  <1> DEFINE v == step[n + 1][f[prev[n + 1]]]
             g == [k \in 0 .. n + 1 |-> IF k = n + 1 THEN v ELSE f[k]]
  <1>1. prev[n + 1] \in 0 .. n
    <2>1. n + 1 \in Nat \ {0}
      OBVIOUS
    <2>2. prev[n + 1] \in Nat /\ prev[n + 1] < n + 1
      BY <2>1
    <2> QED
      BY <2>2
  <1>2. v \in D
    <2>1. f[prev[n + 1]] \in D
      BY <1>1 DEF IsFrom
    <2>2. step[n + 1] \in [D -> D]
      OBVIOUS
    <2> QED
      BY <2>1, <2>2
  <1> HIDE DEF v
  <1>3. \A k \in 0 .. n + 1 : k \in 0 .. n \/ k = n + 1
    OBVIOUS
  <1>4. g \in [0 .. n + 1 -> D]
    BY <1>2, <1>3 DEF IsFrom
  <1>5. g[n + 1] = v /\ \A k \in 0 .. n : g[k] = f[k]
    OBVIOUS
  <1> HIDE DEF g
  <1>6. ASSUME NEW k \in 0 .. n + 1
        PROVE  g[k] = IF k = 0 THEN base ELSE step[k][g[prev[k]]]
    <2>1. CASE k = n + 1
      <3>1. g[prev[k]] = f[prev[n + 1]] /\ k # 0
        BY <1>1, <1>5, <2>1
      <3> QED
        BY <1>5, <2>1, <3>1 DEF v
    <2>2. CASE k # n + 1
      <3>1. k \in 0 .. n /\ k \in Nat
        BY <1>3, <2>2
      <3>2. k # 0 => prev[k] \in 0 .. n
        <4> SUFFICES ASSUME k # 0 PROVE prev[k] \in 0 .. n
          OBVIOUS
        <4>1. prev[k] \in Nat /\ prev[k] < k /\ k <= n
          BY <3>1
        <4> QED
          BY <3>1, <4>1
      <3>3. g[k] = f[k] /\ (k # 0 => g[prev[k]] = f[prev[k]])
        BY <1>5, <3>1, <3>2
      <3>4. f[k] = IF k = 0 THEN base ELSE step[k][f[prev[k]]]
        BY <3>1 DEF IsFrom
      <3> QED
        BY <3>3, <3>4
    <2> QED
      BY <2>1, <2>2
  <1>7. IsFrom(n + 1, g, D, base, step, prev)
    BY <1>4, <1>6 DEF IsFrom
  <1> QED
    BY <1>7

LEMMA RecursionUpTo ==
  ASSUME NEW D, NEW base \in D, NEW step \in [Nat -> [D -> D]],
         NEW prev \in [Nat -> Nat], \A n \in Nat \ {0} : prev[n] < n, NEW m \in Nat
  PROVE  \E g : IsFrom(m, g, D, base, step, prev)
  <1> DEFINE T == {n \in Nat : ~\E g : IsFrom(n, g, D, base, step, prev)}
  <1>1. 0 \notin T
    <2> DEFINE g == [k \in 0 .. 0 |-> base]
    <2>1. g \in [0 .. 0 -> D] /\ g[0] = base /\ \A k \in 0 .. 0 : k = 0
      OBVIOUS
    <2> HIDE DEF g
    <2>2. IsFrom(0, g, D, base, step, prev)
      BY <2>1 DEF IsFrom
    <2> QED
      BY <2>2
  <1>2. T = {}
    <2> SUFFICES ASSUME T # {} PROVE FALSE
      OBVIOUS
    <2>1. PICK x \in T : \A y \in T : x <= y
      <3>1. T \in SUBSET Nat
        OBVIOUS
      <3> HIDE DEF T
      <3> QED
        BY <3>1, LeastNat
    <2>2. x \in Nat /\ x # 0
      BY <1>1
    <2>3. x - 1 \in Nat /\ x - 1 \notin T
      <3>1. x - 1 \in Nat /\ ~(x <= x - 1)
        BY <2>2
      <3> HIDE DEF T
      <3> QED
        BY <2>1, <3>1
    <2>4. PICK f : IsFrom(x - 1, f, D, base, step, prev)
      BY <2>3
    <2>5. \E g : IsFrom(x - 1 + 1, g, D, base, step, prev)
      BY <2>3, <2>4, RecursionNext
    <2>6. x - 1 + 1 = x
      BY <2>2
    <2>7. \E g : IsFrom(x, g, D, base, step, prev)
      BY <2>5, <2>6
    <2> QED
      BY <2>7
  <1> QED
    BY <1>2

RecursionData(D, base, step, prev) ==
  /\ base \in D /\ step \in [Nat -> [D -> D]]
  /\ prev \in [Nat -> Nat] /\ \A n \in Nat \ {0} : prev[n] < n

Recurses(f, D, base, step, prev) ==
  /\ f \in [Nat -> D]
  /\ \A n \in Nat : f[n] = IF n = 0 THEN base ELSE step[n][f[prev[n]]]

LEMMA Recursion ==
  ASSUME NEW D, NEW base, NEW step, NEW prev, RecursionData(D, base, step, prev)
  PROVE  \E f : Recurses(f, D, base, step, prev)
  <1> DEFINE part == [n \in Nat |-> CHOOSE g : IsFrom(n, g, D, base, step, prev)]
             f == [n \in Nat |-> part[n][n]]
  <1>1. \A n \in Nat : IsFrom(n, part[n], D, base, step, prev)
    <2>1. \A n \in Nat : \E g : IsFrom(n, g, D, base, step, prev)
      BY RecursionUpTo DEF RecursionData
    <2> QED
      BY <2>1
  <1> HIDE DEF part
  <1>2. f \in [Nat -> D]
    <2>1. \A n \in Nat : n \in 0 .. n
      OBVIOUS
    <2> QED
      BY <1>1, <2>1 DEF IsFrom
  <1>3. ASSUME NEW n \in Nat
        PROVE  f[n] = IF n = 0 THEN base ELSE step[n][f[prev[n]]]
    <2>1. n \in 0 .. n /\ f[n] = part[n][n]
      OBVIOUS
    <2>2. f[n] = IF n = 0 THEN base ELSE step[n][part[n][prev[n]]]
      BY <1>1, <2>1 DEF IsFrom
    <2>3. ASSUME n # 0 PROVE part[n][prev[n]] = f[prev[n]]
      <3> DEFINE p == prev[n]
      <3>1. p \in Nat /\ p < n /\ p <= p /\ p <= n
        BY <2>3 DEF RecursionData
      <3>2. f[p] = part[p][p]
        BY <3>1
      <3>3. IsFrom(n, part[n], D, base, step, prev) /\ IsFrom(p, part[p], D, base, step, prev)
        BY <1>1, <3>1
      <3> DEFINE g == part[n]
                 h == part[p]
      <3>4. IsFrom(n, g, D, base, step, prev) /\ IsFrom(p, h, D, base, step, prev)
        BY <3>3
      <3> HIDE DEF p, f, g, h
      <3>5. g[p] = h[p]
        BY <3>1, <3>4, RecursionAgrees DEF RecursionData
      <3> QED
        BY <3>2, <3>5 DEF p, g, h
    <2> QED
      BY <2>2, <2>3
  <1> HIDE DEF f
  <1>4. Recurses(f, D, base, step, prev)
    BY <1>2, <1>3 DEF Recurses
  <1> QED
    BY <1>4

-----------------------------------------------------------------------------
(* Bitwise or *)

IsBitOr(f) ==
  f = [a \in Nat |->
        [b \in Nat |->
           IF a = 0 THEN b
           ELSE (2 * f[a \div 2][b \div 2]) + (IF a % 2 = 1 \/ b % 2 = 1 THEN 1 ELSE 0)]]

LEMMA BitOrExists ==
  IsBitOr(BitOr) /\ BitOr \in [Nat -> [Nat -> Nat]]
  <1> DEFINE D == [Nat -> Nat]
             base == [b \in Nat |-> b]
             Low(a, b) == IF a % 2 = 1 \/ b % 2 = 1 THEN 1 ELSE 0
             step == [a \in Nat |-> [h \in D |->
                        [b \in Nat |-> (2 * h[b \div 2]) + Low(a, b)]]]
             prev == [a \in Nat |-> a \div 2]
  <1>1. base \in D
    OBVIOUS
  <1>2. \A n \in Nat : n \div 2 \in Nat /\ (n # 0 => n \div 2 < n)
    OBVIOUS
  <1>3. prev \in [Nat -> Nat] /\ \A n \in Nat \ {0} : prev[n] < n
    BY <1>2
  <1>4. step \in [Nat -> [D -> D]]
    <2>1. ASSUME NEW a \in Nat, NEW h \in D, NEW b \in Nat
          PROVE  (2 * h[b \div 2]) + Low(a, b) \in Nat
      <3>1. h[b \div 2] \in Nat /\ Low(a, b) \in Nat
        BY <1>2
      <3> QED
        BY <3>1
    <2> HIDE DEF Low
    <2>2. ASSUME NEW a \in Nat, NEW h \in D
          PROVE  [b \in Nat |-> (2 * h[b \div 2]) + Low(a, b)] \in D
      BY <2>1
    <2> HIDE DEF D
    <2> QED
      BY <2>2
  <1>5. PICK f \in [Nat -> D] : \A n \in Nat : f[n] = IF n = 0 THEN base ELSE step[n][f[prev[n]]]
    <2> HIDE DEF D, base, step, prev
    <2>1. RecursionData(D, base, step, prev)
      BY <1>1, <1>3, <1>4 DEF RecursionData
    <2>2. \E f : Recurses(f, D, base, step, prev)
      BY <2>1, Recursion
    <2> QED
      BY <2>2 DEF Recurses
  <1>6. ASSUME NEW n \in Nat
        PROVE  f[n] = [b \in Nat |-> IF n = 0 THEN b ELSE (2 * f[n \div 2][b \div 2]) + Low(n, b)]
    <2>1. CASE n = 0
      BY <1>5, <2>1
    <2>2. CASE n # 0
      <3>1. f[n \div 2] \in D
        BY <1>2, <1>5
      <3>2. step[n][f[n \div 2]] = [b \in Nat |-> (2 * f[n \div 2][b \div 2]) + Low(n, b)]
        <4> HIDE DEF D, Low
        <4> QED
          BY <3>1
      <3>3. f[n] = step[n][f[n \div 2]]
        BY <1>5, <2>2
      <3> HIDE DEF Low, step
      <3> QED
        BY <2>2, <3>2, <3>3
    <2> QED
      BY <2>1, <2>2
  <1>7. f = [n \in Nat |-> f[n]]
    BY <1>5
  <1>8. IsBitOr(f)
    BY <1>6, <1>7 DEF IsBitOr
  <1>9. BitOr = CHOOSE g : IsBitOr(g)
    BY DEF BitOr, IsBitOr
  <1>10. IsBitOr(BitOr)
    BY <1>8, <1>9, Zenon
  <1>11. ASSUME NEW g, IsBitOr(g) PROVE g = f
    <2> DEFINE T == {n \in Nat : g[n] # f[n]}
    <2>1. T = {}
      <3> SUFFICES ASSUME T # {} PROVE FALSE
        OBVIOUS
      <3>1. PICK x \in T : \A y \in T : x <= y
        <4>1. T \in SUBSET Nat
          OBVIOUS
        <4> HIDE DEF T
        <4> QED
          BY <4>1, LeastNat
      <3>2. x \in Nat /\ g[x] # f[x]
        OBVIOUS
      <3>3. g[x] = [b \in Nat |-> IF x = 0 THEN b ELSE (2 * g[x \div 2][b \div 2]) + Low(x, b)]
        BY <1>11, <3>2 DEF IsBitOr
      <3>4. CASE x = 0
        BY <1>6, <3>2, <3>3, <3>4
      <3>5. CASE x # 0
        <4>1. x \div 2 \in Nat /\ x \div 2 < x
          BY <1>2, <3>2, <3>5
        <4>2. x \div 2 \notin T
          <5>1. ~(x <= x \div 2)
            BY <3>2, <4>1
          <5> HIDE DEF T
          <5> QED
            BY <3>1, <5>1
        <4>3. g[x \div 2] = f[x \div 2]
          BY <4>1, <4>2
        <4> HIDE DEF Low
        <4> QED
          BY <1>6, <3>2, <3>3, <4>3
      <3> QED
        BY <3>4, <3>5
    <2>2. g = [n \in Nat |-> g[n]]
      BY <1>11 DEF IsBitOr
    <2> QED
      BY <1>7, <2>1, <2>2
  <1>12. BitOr = f
    BY <1>10, <1>11
  <1> QED
    BY <1>5, <1>10, <1>12

\* It takes nothing away and adds no more than there is.
LEMMA BitOrBounds ==
  ASSUME NEW a \in Nat
  PROVE  /\ \A b \in Nat : BitOr[a][b] \in 0 .. a + b
         /\ BitOr[a][0] = a
  <1> DEFINE T == {x \in Nat : ~(BitOr[x][0] = x /\ \A b \in Nat : BitOr[x][b] \in 0 .. x + b)}
  <1> SUFFICES T = {}
    OBVIOUS
  <1> SUFFICES ASSUME T # {} PROVE FALSE
    OBVIOUS
  <1>1. PICK x \in T : \A y \in T : x <= y
    <2>1. T \in SUBSET Nat
      OBVIOUS
    <2> HIDE DEF T
    <2> QED
      BY <2>1, LeastNat
  <1>2. x \in Nat
    OBVIOUS
  <1>3. \A b \in Nat :
          BitOr[x][b] = IF x = 0 THEN b
                        ELSE (2 * BitOr[x \div 2][b \div 2])
                             + (IF x % 2 = 1 \/ b % 2 = 1 THEN 1 ELSE 0)
    BY <1>2, BitOrExists DEF IsBitOr
  <1>4. CASE x = 0
    <2>1. \A b \in Nat : BitOr[x][b] = b /\ b \in 0 .. 0 + b
      BY <1>3, <1>4
    <2> QED
      BY <1>4, <2>1
  <1>5. CASE x # 0
    <2> DEFINE h == x \div 2
    <2>1. h \in Nat /\ h < x /\ x = (2 * h) + (x % 2) /\ x % 2 \in 0 .. 1
      BY <1>2, <1>5
    <2>2. h \notin T
      <3>1. ~(x <= h)
        BY <1>2, <2>1
      <3> HIDE DEF T
      <3> QED
        BY <1>1, <3>1
    <2>3. BitOr[h][0] = h /\ \A b \in Nat : BitOr[h][b] \in 0 .. h + b
      BY <2>1, <2>2
    <2>4. \A b \in Nat : BitOr[x][b] = (2 * BitOr[h][b \div 2])
                                        + (IF x % 2 = 1 \/ b % 2 = 1 THEN 1 ELSE 0)
      BY <1>3, <1>5
    <2> HIDE DEF h
    <2>5. BitOr[x][0] = x
      <3>1. 0 \div 2 = 0 /\ 0 % 2 = 0
        OBVIOUS
      <3>2. BitOr[x][0] = (2 * h) + (IF x % 2 = 1 THEN 1 ELSE 0)
        BY <2>3, <2>4, <3>1
      <3> QED
        BY <2>1, <3>2
    <2>6. ASSUME NEW b \in Nat PROVE BitOr[x][b] \in 0 .. x + b
      <3> DEFINE c == b \div 2
                 v == BitOr[h][c]
      <3>1. c \in Nat /\ b = (2 * c) + (b % 2) /\ b % 2 \in 0 .. 1
        OBVIOUS
      <3>2. v \in 0 .. h + c
        BY <2>3, <3>1
      <3>3. BitOr[x][b] = (2 * v) + (IF x % 2 = 1 \/ b % 2 = 1 THEN 1 ELSE 0)
        BY <2>4
      <3> HIDE DEF c, v
      <3> QED
        BY <2>1, <3>1, <3>2, <3>3
    <2> QED
      BY <2>5, <2>6
  <1> QED
    BY <1>4, <1>5

-----------------------------------------------------------------------------
(* Decimal numerals *)

LEMMA OneDigit == \A a, b : Len(<<a>>) = 1 /\ (<<a>> = <<b>> => a = b)
  OBVIOUS

LEMMA DigitsDiffer ==
  /\ \A i \in 0 .. 9 : Digit[i + 1] \in Char /\ Digit[i + 1] # NUL
  /\ \A i, j \in 0 .. 9 : Digit[i + 1] = Digit[j + 1] => i = j
  <1>1. \A i \in 0 .. 9 : i + 1 \in DOMAIN Digit
    BY DEF Digit
  <1>2. \A i \in 0 .. 9 : Digit[i + 1] \in ToSet(Digit)
    BY <1>1 DEF ToSet
  <1>3. \A i \in 0 .. 9 : Digit[i + 1] \in Char
    BY <1>2, LispTextAssumption
  <1>4. /\ Digit[1] = "0" /\ Digit[2] = "1" /\ Digit[3] = "2" /\ Digit[4] = "3" /\ Digit[5] = "4"
        /\ Digit[6] = "5" /\ Digit[7] = "6" /\ Digit[8] = "7" /\ Digit[9] = "8" /\ Digit[10] = "9"
    BY DEF Digit
  <1>5. ASSUME NEW i \in 0 .. 9, NEW j \in 0 .. 9, Digit[i + 1] = Digit[j + 1] PROVE i = j
    <2>1. \A k \in 0 .. 9 : k = 0 \/ k = 1 \/ k = 2 \/ k = 3 \/ k = 4 \/ k = 5 \/ k = 6
                            \/ k = 7 \/ k = 8 \/ k = 9
      OBVIOUS
    <2> QED
      BY <1>4, <1>5, <2>1
  <1> QED
    BY <1>3, <1>5, Sizes

IsDecimal(f) ==
  f = [n \in Nat |->
         IF n < 10 THEN <<Digit[n + 1]>> ELSE Append(f[n \div 10], Digit[(n % 10) + 1])]

LEMMA DecimalExists ==
  IsDecimal(Decimal) /\ Decimal \in [Nat -> Seq(Char)]
  <1> DEFINE D == Seq(Char)
             base == <<Digit[1]>>
             step == [n \in Nat |-> [s \in D |->
                        IF n < 10 THEN <<Digit[n + 1]>> ELSE Append(s, Digit[(n % 10) + 1])]]
             prev == [n \in Nat |-> n \div 10]
  <1>1. ASSUME NEW n \in Nat
        PROVE  /\ n < 10 => Digit[n + 1] \in Char
               /\ n % 10 \in 0 .. 9 /\ Digit[(n % 10) + 1] \in Char
               /\ n \div 10 \in Nat /\ (n # 0 => n \div 10 < n)
    <2>1. n % 10 \in 0 .. 9 /\ (n < 10 => n \in 0 .. 9)
      OBVIOUS
    <2>2. n \div 10 \in Nat /\ (n # 0 => n \div 10 < n)
      OBVIOUS
    <2> QED
      BY <2>1, <2>2, DigitsDiffer
  <1>2. base \in D
    <2>1. Digit[1] \in Char
      BY <1>1
    <2> QED
      BY <2>1
  <1>3. prev \in [Nat -> Nat] /\ \A n \in Nat \ {0} : prev[n] < n
    BY <1>1
  <1>4. step \in [Nat -> [D -> D]]
    <2>1. ASSUME NEW n \in Nat, NEW s \in D
          PROVE  (IF n < 10 THEN <<Digit[n + 1]>> ELSE Append(s, Digit[(n % 10) + 1])) \in D
      <3>1. CASE n < 10
        BY <1>1, <3>1
      <3>2. CASE ~(n < 10)
        BY <1>1, <3>2
      <3> QED
        BY <3>1, <3>2
    <2> HIDE DEF D
    <2> QED
      BY <2>1
  <1>5. PICK f \in [Nat -> D] : \A n \in Nat : f[n] = IF n = 0 THEN base ELSE step[n][f[prev[n]]]
    <2> HIDE DEF D, base, step, prev
    <2>1. RecursionData(D, base, step, prev)
      BY <1>2, <1>3, <1>4 DEF RecursionData
    <2>2. \E f : Recurses(f, D, base, step, prev)
      BY <2>1, Recursion
    <2> QED
      BY <2>2 DEF Recurses
  <1>6. ASSUME NEW n \in Nat
        PROVE  f[n] = IF n < 10 THEN <<Digit[n + 1]>>
                      ELSE Append(f[n \div 10], Digit[(n % 10) + 1])
    <2>1. CASE n = 0
      <3>1. 0 < 10 /\ n + 1 = 1
        BY <2>1
      <3> QED
        BY <1>5, <2>1, <3>1
    <2>2. CASE n # 0
      <3>1. f[n \div 10] \in D
        BY <1>1, <1>5
      <3>2. f[n] = step[n][f[n \div 10]]
        BY <1>5, <2>2
      <3> HIDE DEF D
      <3> QED
        BY <3>1, <3>2
    <2> QED
      BY <2>1, <2>2
  <1>7. f = [n \in Nat |-> f[n]]
    BY <1>5
  <1>8. IsDecimal(f)
    BY <1>6, <1>7 DEF IsDecimal
  <1>9. Decimal = CHOOSE g : IsDecimal(g)
    BY DEF Decimal, IsDecimal
  <1>10. IsDecimal(Decimal)
    BY <1>8, <1>9, Zenon
  <1>11. ASSUME NEW g, IsDecimal(g) PROVE g = f
    <2> DEFINE T == {n \in Nat : g[n] # f[n]}
    <2>1. T = {}
      <3> SUFFICES ASSUME T # {} PROVE FALSE
        OBVIOUS
      <3>1. PICK x \in T : \A y \in T : x <= y
        <4>1. T \in SUBSET Nat
          OBVIOUS
        <4> HIDE DEF T
        <4> QED
          BY <4>1, LeastNat
      <3>2. x \in Nat /\ g[x] # f[x]
        OBVIOUS
      <3>3. g[x] = IF x < 10 THEN <<Digit[x + 1]>>
                   ELSE Append(g[x \div 10], Digit[(x % 10) + 1])
        BY <1>11, <3>2 DEF IsDecimal
      <3>4. CASE x < 10
        <4>1. f[x] = <<Digit[x + 1]>>
          BY <1>6, <3>2, <3>4
        <4>2. g[x] = <<Digit[x + 1]>>
          BY <3>3, <3>4
        <4> QED
          BY <3>2, <4>1, <4>2, Zenon
      <3>5. CASE ~(x < 10)
        <4>1. x \div 10 \in Nat /\ x \div 10 < x
          BY <1>1, <3>2, <3>5
        <4>2. x \div 10 \notin T
          <5>1. ~(x <= x \div 10)
            BY <3>2, <4>1
          <5> HIDE DEF T
          <5> QED
            BY <3>1, <5>1
        <4>3. g[x \div 10] = f[x \div 10]
          BY <4>1, <4>2
        <4> QED
          BY <1>6, <3>2, <3>3, <4>3
      <3> QED
        BY <3>4, <3>5
    <2>2. g = [n \in Nat |-> g[n]]
      BY <1>11 DEF IsDecimal
    <2> QED
      BY <1>7, <2>1, <2>2
  <1>12. Decimal = f
    BY <1>10, <1>11
  <1> QED
    BY <1>5, <1>10, <1>12

LEMMA DecimalRule ==
  ASSUME NEW n \in Nat
  PROVE  /\ Decimal[n] \in Seq(Char) /\ Len(Decimal[n]) \in Nat \ {0}
         /\ n < 10 => Decimal[n] = <<Digit[n + 1]>> /\ Len(Decimal[n]) = 1
         /\ ~(n < 10) => /\ n \div 10 \in Nat /\ n % 10 \in 0 .. 9
                         /\ Decimal[n] = Append(Decimal[n \div 10], Digit[(n % 10) + 1])
                         /\ Len(Decimal[n]) = Len(Decimal[n \div 10]) + 1
                         /\ Len(Decimal[n]) > 1
  <1>1. /\ \A k \in Nat : Decimal[k] \in Seq(Char)
        /\ \A k \in Nat : Decimal[k] = IF k < 10 THEN <<Digit[k + 1]>>
                          ELSE Append(Decimal[k \div 10], Digit[(k % 10) + 1])
    BY DecimalExists DEF IsDecimal
  <1>2. \A k \in Nat : k \div 10 \in Nat /\ k % 10 \in 0 .. 9
    OBVIOUS
  <1>3. ASSUME NEW k \in Nat PROVE Len(Decimal[k]) \in Nat \ {0}
    <2>1. CASE k < 10
      <3>1. Decimal[k] = <<Digit[k + 1]>>
        BY <1>1, <2>1
      <3> QED
        BY <3>1, OneDigit
    <2>2. CASE ~(k < 10)
      <3>1. Decimal[k] = Append(Decimal[k \div 10], Digit[(k % 10) + 1])
            /\ Decimal[k \div 10] \in Seq(Char) /\ Digit[(k % 10) + 1] \in Char
        BY <1>1, <1>2, <2>2, DigitsDiffer
      <3>2. Len(Decimal[k]) = Len(Decimal[k \div 10]) + 1
        BY <3>1, AppendProperties
      <3> QED
        BY <3>1, <3>2
    <2> QED
      BY <2>1, <2>2
  <1>4. CASE n < 10
    <2>1. Decimal[n] = <<Digit[n + 1]>>
      BY <1>1, <1>4
    <2>2. Len(Decimal[n]) = 1
      BY <2>1, OneDigit
    <2> QED
      BY <1>1, <1>3, <1>4, <2>1, <2>2
  <1>5. CASE ~(n < 10)
    <2>1. /\ Decimal[n] = Append(Decimal[n \div 10], Digit[(n % 10) + 1])
          /\ Decimal[n \div 10] \in Seq(Char) /\ Digit[(n % 10) + 1] \in Char
      BY <1>1, <1>2, <1>5, DigitsDiffer
    <2>2. Len(Decimal[n]) = Len(Decimal[n \div 10]) + 1
      BY <2>1, AppendProperties
    <2>3. Len(Decimal[n \div 10]) \in Nat \ {0}
      BY <1>2, <1>3
    <2> QED
      BY <1>1, <1>2, <1>3, <1>5, <2>1, <2>2, <2>3
  <1> QED
    BY <1>4, <1>5

\* eval.h: the digits, reversed twice, are a numeral: another number has another.
LEMMA DecimalDiffers ==
  ASSUME NEW m \in Nat, NEW n \in Nat, Decimal[m] = Decimal[n]
  PROVE  m = n
  <1> DEFINE T == {x \in Nat : \E y \in Nat : Decimal[x] = Decimal[y] /\ x # y}
  <1> SUFFICES T = {}
    OBVIOUS
  <1> SUFFICES ASSUME T # {} PROVE FALSE
    OBVIOUS
  <1>1. PICK x \in T : \A z \in T : x <= z
    <2>1. T \in SUBSET Nat
      OBVIOUS
    <2> HIDE DEF T
    <2> QED
      BY <2>1, LeastNat
  <1>2. PICK y \in Nat : Decimal[x] = Decimal[y] /\ x # y
    OBVIOUS
  <1>3. x \in Nat
    OBVIOUS
  <1>4. CASE x < 10
    <2>1. Len(Decimal[x]) = 1 /\ Decimal[x] = <<Digit[x + 1]>>
      BY <1>3, <1>4, DecimalRule
    <2>2. y < 10
      <3> SUFFICES ASSUME ~(y < 10) PROVE FALSE
        OBVIOUS
      <3>1. Len(Decimal[y]) > 1
        BY DecimalRule
      <3> QED
        BY <1>2, <2>1, <3>1
    <2>3. Decimal[y] = <<Digit[y + 1]>>
      BY <2>2, DecimalRule
    <2>4. Digit[x + 1] = Digit[y + 1]
      BY <1>2, <2>1, <2>3, OneDigit
    <2>5. x \in 0 .. 9 /\ y \in 0 .. 9
      BY <1>3, <1>4, <2>2
    <2> QED
      BY <1>2, <2>4, <2>5, DigitsDiffer
  <1>5. CASE ~(x < 10)
    <2>1. /\ x \div 10 \in Nat /\ x % 10 \in 0 .. 9 /\ Len(Decimal[x]) > 1
          /\ Decimal[x] = Append(Decimal[x \div 10], Digit[(x % 10) + 1])
      BY <1>3, <1>5, DecimalRule
    <2>2. ~(y < 10)
      <3> SUFFICES ASSUME y < 10 PROVE FALSE
        OBVIOUS
      <3>1. Len(Decimal[y]) = 1
        BY DecimalRule
      <3> QED
        BY <1>2, <2>1, <3>1
    <2>3. /\ y \div 10 \in Nat /\ y % 10 \in 0 .. 9
          /\ Decimal[y] = Append(Decimal[y \div 10], Digit[(y % 10) + 1])
      BY <2>2, DecimalRule
    <2> DEFINE s == Decimal[x \div 10]
               r == Decimal[y \div 10]
               c == Digit[(x % 10) + 1]
               d == Digit[(y % 10) + 1]
    <2>4. s \in Seq(Char) /\ r \in Seq(Char) /\ c \in Char /\ d \in Char
      BY <2>1, <2>3, DecimalRule, DigitsDiffer
    <2>5. Append(s, c) = Append(r, d)
      BY <1>2, <2>1, <2>3
    <2> HIDE DEF s, r, c, d
    <2>6. s = r /\ c = d
      BY <2>4, <2>5, AppendInjective
    <2>7. x % 10 = y % 10
      BY <2>1, <2>3, <2>6, DigitsDiffer DEF c, d
    <2>8. x \div 10 # y \div 10
      <3>1. x = (10 * (x \div 10)) + (x % 10) /\ y = (10 * (y \div 10)) + (y % 10)
        BY <1>3
      <3> QED
        BY <1>2, <2>7, <3>1
    <2>9. x \div 10 \in T
      BY <2>1, <2>3, <2>6, <2>8 DEF s, r
    <2>10. x \div 10 < x
      BY <1>3, <1>5
    <2> HIDE DEF T
    <2> QED
      BY <1>1, <1>3, <2>1, <2>9, <2>10
  <1> QED
    BY <1>4, <1>5

-----------------------------------------------------------------------------
(* The inductive invariant *)

\* A string's bytes are in the pool, terminated, before anything that is still
\* to be written, and its word says where they are; or the pool is too full for
\* any later string to be representable.
StringOK(s) ==
  LET off  == meant[s].off
      text == meant[s].text
  IN /\ string_data(packed[s]) <= STR_POOL_SIZE
     /\ IF Representable(s)
        THEN /\ packed[s] = (off * FIELD) + Len(text)
             /\ off + Len(text) < str_pool_next
             /\ \A k \in 1 .. Len(text) : str_pool[off + k - 1] = text[k]
             /\ str_pool[off + Len(text)] = NUL
        ELSE FIELD <= str_pool_next

StringsOK == \A s \in DOMAIN packed : StringOK(s)

\* A symbol that gensym gave has the name of a number that was counted.
GivenOK ==
  \A j \in DOMAIN given :
    /\ given[j] \in DOMAIN names
    /\ \E n \in 0 .. gensym_counter - 1 : names[given[j]] = GensymName(n)

TextInv == TypeOK /\ StringsOK /\ NamesAreSymbols /\ GivenOK /\ GensymIsUnique

-----------------------------------------------------------------------------
(* Reading a string *)

LEMMA ElementType ==
  ASSUME NEW S, NEW s \in Seq(S)
  PROVE  /\ Len(s) \in Nat /\ DOMAIN s = 1 .. Len(s)
         /\ \A i \in 1 .. Len(s) : s[i] \in S
  OBVIOUS

LEMMA SeqOfElements ==
  ASSUME NEW S, NEW n \in Nat, NEW f(_), \A k \in 1 .. n : f(k) \in S
  PROVE  /\ [k \in 1 .. n |-> f(k)] \in Seq(S)
         /\ Len([k \in 1 .. n |-> f(k)]) = n
  OBVIOUS

LEMMA StringType ==
  ASSUME TypeOK, NEW s \in DOMAIN packed
  PROVE  /\ packed[s] \in Nat /\ string_len(packed[s]) \in Nat /\ string_data(packed[s]) \in Nat
         /\ s \in DOMAIN meant /\ meant[s].off \in Bytes /\ meant[s].off \in Nat
         /\ meant[s].text \in Seq(Char) /\ Len(meant[s].text) \in Nat
  <1>1. packed \in Seq(0 .. FIELD * FIELD - 1) /\ meant \in Seq([off : Bytes, text : Seq(Char)])
        /\ Len(meant) = Len(packed)
    BY DEF TypeOK
  <1>2. packed[s] \in 0 .. FIELD * FIELD - 1 /\ s \in 1 .. Len(meant) /\ s \in DOMAIN meant
    BY <1>1, ElementType
  <1>3. meant[s] \in [off : Bytes, text : Seq(Char)]
    <2> DEFINE R == [off : Bytes, text : Seq(Char)]
    <2>1. meant \in Seq(R) /\ s \in 1 .. Len(meant)
      BY <1>1, <1>2
    <2> HIDE DEF R
    <2>2. meant[s] \in R
      BY <2>1, ElementType
    <2> QED
      BY <2>2 DEF R
  <1>4. packed[s] \in Nat
    BY <1>2, Sizes
  <1>5. string_len(packed[s]) \in Nat /\ string_data(packed[s]) \in Nat
    BY <1>4, Sizes DEF string_len, string_data
  <1>6. meant[s].off \in Bytes /\ meant[s].text \in Seq(Char)
    BY <1>3
  <1> QED
    BY <1>2, <1>4, <1>5, <1>6, Sizes DEF Bytes

\* The bytes of a representable string, by their distance from its start.
LEMMA StringBytes ==
  ASSUME TypeOK, NEW s \in DOMAIN packed, StringOK(s), Representable(s)
  PROVE  /\ string_len(packed[s]) = Len(meant[s].text)
         /\ string_data(packed[s]) = meant[s].off
         /\ meant[s].off + Len(meant[s].text) \in Bytes
         /\ \A k \in 1 .. Len(meant[s].text) : Byte(meant[s].off + k - 1) = meant[s].text[k]
         /\ Byte(meant[s].off + Len(meant[s].text)) = NUL
  <1> DEFINE off  == meant[s].off
             text == meant[s].text
  <1>1. off \in Nat /\ Len(text) \in Nat /\ off < FIELD /\ Len(text) < FIELD
    BY StringType DEF Representable
  <1>2. /\ packed[s] = (off * FIELD) + Len(text)
        /\ off + Len(text) < str_pool_next
        /\ \A k \in 1 .. Len(text) : str_pool[off + k - 1] = text[k]
        /\ str_pool[off + Len(text)] = NUL
    BY DEF StringOK
  <1>3. str_pool_next \in Nat /\ str_pool_next <= STR_POOL_SIZE
    BY Sizes DEF TypeOK
  <1> HIDE DEF off, text
  <1>4. Len(text) \in 0 .. FIELD - 1
    BY <1>1, Sizes
  <1>5. string_len(packed[s]) = Len(text) /\ string_data(packed[s]) = off
    <2>1. /\ ((off * FIELD) + Len(text)) \div FIELD = off
          /\ ((off * FIELD) + Len(text)) % FIELD = Len(text)
      BY <1>1, <1>4, DivMod, Sizes
    <2> QED
      BY <1>2, <2>1 DEF string_len, string_data
  <1>6. \A k \in 0 .. Len(text) : off + k \in Bytes
    BY <1>1, <1>2, <1>3, Sizes DEF Bytes
  <1>7. off + Len(text) \in Bytes /\ \A k \in 1 .. Len(text) : off + k - 1 \in Bytes
    BY <1>1, <1>2, <1>3, Sizes DEF Bytes
  <1>8. \A k \in 1 .. Len(text) : Byte(off + k - 1) = text[k]
    BY <1>2, <1>7 DEF Byte
  <1>9. Byte(off + Len(text)) = NUL
    BY <1>2, <1>7 DEF Byte
  <1> QED
    BY <1>5, <1>7, <1>8, <1>9 DEF off, text

LEMMA CountedType ==
  ASSUME TypeOK, NEW s \in DOMAIN packed
  PROVE  Counted(packed[s]) \in Seq(Char \cup {NUL})
  <1>1. string_len(packed[s]) \in Nat
    BY StringType
  <1>2. \A p : Byte(p) \in Char \cup {NUL}
    BY DEF Byte, TypeOK
  <1> DEFINE f(k) == Byte(string_data(packed[s]) + k - 1)
  <1>3. \A k \in 1 .. string_len(packed[s]) : f(k) \in Char \cup {NUL}
    BY <1>2
  <1> HIDE DEF f
  <1>4. [k \in 1 .. string_len(packed[s]) |-> f(k)] \in Seq(Char \cup {NUL})
    BY <1>1, <1>3, SeqOfElements
  <1> QED
    BY <1>4 DEF Counted, f

\* string.h: a search for the terminating byte ends in the pool.
LEMMA TerminatedEnds ==
  ASSUME TypeOK, NEW w \in Nat, string_data(w) \in Nat, string_data(w) <= STR_POOL_SIZE
  PROVE  \E e \in string_data(w) .. STR_POOL_SIZE :
           /\ Byte(e) = NUL /\ \A q \in string_data(w) .. e - 1 : Byte(q) # NUL
           /\ Terminated(w) = [k \in 1 .. e - string_data(w) |-> str_pool[string_data(w) + k - 1]]
  <1> DEFINE off == string_data(w)
             Ends(p) == Byte(p) = NUL /\ \A q \in off .. p - 1 : Byte(q) # NUL
             T == {p \in off .. STR_POOL_SIZE : Byte(p) = NUL}
             e == CHOOSE p \in off .. STR_POOL_SIZE : Ends(p)
  <1>1. STR_POOL_SIZE \in T
    <2>1. STR_POOL_SIZE \notin Bytes /\ STR_POOL_SIZE \in off .. STR_POOL_SIZE
      BY Sizes DEF Bytes
    <2> QED
      BY <2>1 DEF Byte
  <1>2. T \in SUBSET Nat
    BY Sizes
  <1>3. PICK x \in T : \A y \in T : x <= y
    <2> HIDE DEF T
    <2> QED
      BY <1>1, <1>2, LeastNat
  <1>4. x \in off .. STR_POOL_SIZE /\ Byte(x) = NUL /\ x \in Nat
    BY <1>2
  <1>5. ASSUME NEW q \in off .. x - 1 PROVE Byte(q) # NUL
    <2>1. q \in off .. STR_POOL_SIZE /\ ~(x <= q)
      BY <1>4, Sizes
    <2> QED
      BY <1>3, <2>1
  <1>6. \E p \in off .. STR_POOL_SIZE : Ends(p)
    BY <1>4, <1>5
  <1>7. e \in off .. STR_POOL_SIZE /\ Ends(e)
    <2> HIDE DEF Ends
    <2> QED
      BY <1>6
  <1>8. Terminated(w) = [k \in 1 .. e - off |-> str_pool[off + k - 1]]
    BY DEF Terminated
  <1> HIDE DEF e
  <1> QED
    BY <1>7, <1>8

LEMMA TerminatedType ==
  ASSUME TypeOK, NEW s \in DOMAIN packed, StringOK(s)
  PROVE  Terminated(packed[s]) \in Seq(Char)
  <1> DEFINE off == string_data(packed[s])
  <1>1. packed[s] \in Nat /\ off \in Nat /\ off <= STR_POOL_SIZE
    BY StringType DEF StringOK
  <1>2. PICK e \in off .. STR_POOL_SIZE :
           /\ Byte(e) = NUL /\ \A q \in off .. e - 1 : Byte(q) # NUL
           /\ Terminated(packed[s]) = [k \in 1 .. e - off |-> str_pool[off + k - 1]]
    BY <1>1, TerminatedEnds
  <1> HIDE DEF off
  <1> DEFINE f(k) == str_pool[off + k - 1]
  <1>3. e \in Nat /\ e - off \in Nat /\ e <= STR_POOL_SIZE
    BY <1>1, Sizes
  <1>4. ASSUME NEW k \in 1 .. e - off PROVE f(k) \in Char
    <2>1. off + k - 1 \in off .. e - 1 /\ off + k - 1 \in Bytes
      BY <1>1, <1>3, Sizes DEF Bytes
    <2>2. str_pool[off + k - 1] \in Char \cup {NUL}
      BY <2>1 DEF TypeOK
    <2>3. Byte(off + k - 1) # NUL
      BY <1>2, <2>1
    <2> QED
      BY <2>1, <2>2, <2>3 DEF Byte
  <1> HIDE DEF f
  <1>5. [k \in 1 .. e - off |-> f(k)] \in Seq(Char)
    BY <1>3, <1>4, SeqOfElements
  <1> QED
    BY <1>2, <1>5 DEF f

\* Both ways of reading a representable string find the text it was to have.
LEMMA StringReads ==
  ASSUME TypeOK, NEW s \in DOMAIN packed, StringOK(s), Representable(s)
  PROVE  Counted(packed[s]) = meant[s].text /\ Terminated(packed[s]) = meant[s].text
  <1> DEFINE off  == meant[s].off
             text == meant[s].text
  <1>1. text \in Seq(Char) /\ off \in Nat /\ Len(text) \in Nat /\ packed[s] \in Nat
    BY StringType
  <1>2. string_data(packed[s]) = off /\ string_len(packed[s]) = Len(text)
    BY StringBytes
  <1>3. /\ off + Len(text) \in Bytes /\ Byte(off + Len(text)) = NUL
        /\ \A k \in 1 .. Len(text) : Byte(off + k - 1) = text[k]
    BY StringBytes
  <1> HIDE DEF off, text
  <1>4. /\ text = [k \in 1 .. Len(text) |-> text[k]]
        /\ \A k \in 1 .. Len(text) : text[k] \in Char /\ text[k] # NUL
    BY <1>1, Sizes
  <1>5. Counted(packed[s]) = text
    <2>1. Counted(packed[s]) = [k \in 1 .. Len(text) |-> Byte(off + k - 1)]
      BY <1>2 DEF Counted
    <2> QED
      BY <1>3, <1>4, <2>1
  <1>6. off <= STR_POOL_SIZE
    BY <1>1, <1>3, Sizes DEF Bytes
  <1>7. PICK e \in off .. STR_POOL_SIZE :
           /\ Byte(e) = NUL /\ \A q \in off .. e - 1 : Byte(q) # NUL
           /\ Terminated(packed[s]) = [k \in 1 .. e - off |-> str_pool[off + k - 1]]
    <2>1. /\ packed[s] \in Nat
          /\ string_data(packed[s]) \in Nat /\ string_data(packed[s]) <= STR_POOL_SIZE
      BY <1>1, <1>2, <1>6
    <2>2. \E e \in string_data(packed[s]) .. STR_POOL_SIZE :
            /\ Byte(e) = NUL /\ \A q \in string_data(packed[s]) .. e - 1 : Byte(q) # NUL
            /\ Terminated(packed[s])
                 = [k \in 1 .. e - string_data(packed[s]) |-> str_pool[string_data(packed[s]) + k - 1]]
      BY <2>1, TerminatedEnds
    <2> QED
      BY <1>2, <2>2
  <1>8. e = off + Len(text)
    <2>1. ~(off + Len(text) < e)
      <3> SUFFICES ASSUME off + Len(text) < e PROVE FALSE
        OBVIOUS
      <3>1. off + Len(text) \in off .. e - 1
        BY <1>1, Sizes
      <3> QED
        BY <1>3, <1>7, <3>1
    <2>2. ~(e < off + Len(text))
      <3> SUFFICES ASSUME e < off + Len(text) PROVE FALSE
        OBVIOUS
      <3> DEFINE k == e - off + 1
      <3>1. k \in 1 .. Len(text) /\ e = off + k - 1
        BY <1>1, Sizes
      <3> HIDE DEF k
      <3>2. Byte(e) = text[k]
        BY <1>3, <3>1
      <3> QED
        BY <1>4, <1>7, <3>1, <3>2
    <2> QED
      BY <1>1, <2>1, <2>2, Sizes
  <1>9. Terminated(packed[s]) = text
    <2>1. e - off = Len(text)
      BY <1>1, <1>8
    <2>2. \A k \in 1 .. Len(text) : off + k - 1 \in Bytes
      BY <1>1, <1>3, Sizes DEF Bytes
    <2>3. \A k \in 1 .. Len(text) : str_pool[off + k - 1] = text[k]
      BY <1>3, <2>2 DEF Byte
    <2> QED
      BY <1>4, <1>7, <2>1, <2>3
  <1> QED
    BY <1>5, <1>9 DEF text

-----------------------------------------------------------------------------
(* Making a string *)

\* string.h: the word fits a fixnum; what it points at is no further than the
\* text's end, and is the text when both fields hold what they should.
LEMMA PackFits ==
  ASSUME NEW off \in Nat, NEW len \in Nat
  PROVE  /\ Pack(off, len) \in 0 .. FIELD * FIELD - 1
         /\ string_data(Pack(off, len)) <= off + len
         /\ off < FIELD /\ len < FIELD => Pack(off, len) = (off * FIELD) + len
  <1> DEFINE over == len \div FIELD
             v == BitOr[off][over]
             q == v % FIELD
             r == len % FIELD
  <1>1. over \in Nat /\ over <= len /\ r \in 0 .. FIELD - 1
    BY Sizes
  <1>2. v \in 0 .. off + over
    BY <1>1, BitOrBounds
  <1>3. q \in 0 .. FIELD - 1 /\ q <= v
    <2> HIDE DEF v
    <2>1. v \in Nat
      BY <1>1, <1>2
    <2> QED
      BY <2>1, Sizes
  <1>4. Pack(off, len) = (q * FIELD) + r
    BY DEF Pack
  <1>5. off < FIELD /\ len < FIELD => q = off /\ r = len
    <2> SUFFICES ASSUME off < FIELD, len < FIELD PROVE q = off /\ r = len
      OBVIOUS
    <2>1. over = 0 /\ r = len
      BY Sizes
    <2>2. v = off
      <3> HIDE DEF over
      <3> QED
        BY <2>1, BitOrBounds
    <2> HIDE DEF v
    <2>3. v % FIELD = off
      BY <2>2, Sizes
    <2> QED
      BY <2>1, <2>3
  <1> HIDE DEF v, over, q, r
  <1>6. /\ ((q * FIELD) + r) \div FIELD = q
        /\ q < FIELD => (q * FIELD) + r \in 0 .. FIELD * FIELD - 1
    BY <1>1, <1>3, DivMod, Sizes
  <1>7. q < FIELD /\ q <= off + len
    BY <1>1, <1>2, <1>3, Sizes
  <1> QED
    BY <1>4, <1>5, <1>6, <1>7 DEF string_data

LEMMA AppendedIs ==
  ASSUME NEW S, NEW q \in Seq(S), NEW e \in S
  PROVE  /\ Append(q, e) \in Seq(S) /\ Len(Append(q, e)) = Len(q) + 1
         /\ DOMAIN Append(q, e) = 1 .. Len(q) + 1
         /\ \A i \in 1 .. Len(q) : Append(q, e)[i] = q[i]
         /\ Append(q, e)[Len(q) + 1] = e
  OBVIOUS

\* A text is copied behind all others, and is the one the program takes it for
\* as long as every string before it is representable.
LEMMA MakeString ==
  ASSUME TypeOK, StringsOK, Room, NEW text \in Seq(Char \cup {NUL}), NEW wish \in Seq(Char),
         (\A s \in DOMAIN packed : Representable(s)) => text = wish,
         make_string(text, wish), UNCHANGED <<symbols, resets>>
  PROVE  TypeOK' /\ StringsOK'
  <1> DEFINE off == str_pool_next
             len == Len(text)
             w == Pack(off, len)
             m == [off |-> off, text |-> wish]
  <1>1. UNCHANGED <<names, name_pool_next, gensym_counter, given, resets>>
    BY DEF symbols, table
  <1>2. off \in Nat /\ off <= STR_POOL_SIZE /\ len \in Nat /\ Len(wish) \in Nat
    BY Sizes DEF TypeOK
  <1>3. CASE PoolFull(len)
    <2>1. mode' = "panic" /\ UNCHANGED <<str_pool, str_pool_next, packed, meant>>
      BY <1>3 DEF make_string, strings
    <2>2. TypeOK'
      BY <1>1, <2>1 DEF TypeOK
    <2>3. StringsOK'
      BY <2>1 DEF StringsOK, StringOK, Representable, string_data
    <2> QED
      BY <2>2, <2>3
  <1>4. CASE ~PoolFull(len)
    <2>1. /\ str_pool' = Written(off, text) /\ str_pool_next' = off + len + 1
          /\ packed' = Append(packed, w) /\ meant' = Append(meant, m) /\ mode' = mode
      BY <1>4 DEF make_string
    <2>2. off + len + 1 <= STR_POOL_SIZE /\ off \in Bytes
      <3>1. ~(off + len + 1 > STR_POOL_SIZE)
        BY <1>4 DEF PoolFull
      <3> HIDE DEF len
      <3> QED
        BY <1>2, <3>1, Sizes DEF Bytes
    <2>3. w \in 0 .. FIELD * FIELD - 1 /\ string_data(w) <= off + len
      BY <1>2, PackFits
    <2>4. packed \in Seq(0 .. FIELD * FIELD - 1) /\ Len(packed) < MaxStrings /\ Len(packed) \in Nat
          /\ Len(meant) = Len(packed) /\ DOMAIN packed = 1 .. Len(packed)
          /\ meant \in Seq([off : Bytes, text : Seq(Char)]) /\ mode = "run"
      BY ElementType DEF TypeOK, Room
    <2>5. m \in [off : Bytes, text : Seq(Char)]
      BY <2>2
    <2> HIDE DEF w, m
    <2>6. /\ packed' \in Seq(0 .. FIELD * FIELD - 1) /\ Len(packed') = Len(packed) + 1
          /\ DOMAIN packed' = 1 .. Len(packed) + 1 /\ packed'[Len(packed) + 1] = w
          /\ \A s \in 1 .. Len(packed) : packed'[s] = packed[s]
      BY <2>1, <2>3, <2>4, AppendedIs
    <2>7. /\ meant' \in Seq([off : Bytes, text : Seq(Char)]) /\ Len(meant') = Len(packed) + 1
          /\ meant'[Len(packed) + 1] = m
          /\ \A s \in 1 .. Len(packed) : meant'[s] = meant[s]
      <3> DEFINE R == [off : Bytes, text : Seq(Char)]
      <3>1. m \in R /\ meant \in Seq(R)
        BY <2>4, <2>5
      <3> HIDE DEF R
      <3>2. meant' \in Seq(R) /\ Len(meant') = Len(meant) + 1
            /\ meant'[Len(meant) + 1] = m
            /\ \A s \in 1 .. Len(meant) : meant'[s] = meant[s]
        BY <2>1, <3>1, AppendedIs
      <3> QED
        BY <2>4, <3>2 DEF R
    <2>8. /\ str_pool' \in [Bytes -> Char \cup {NUL}]
          /\ \A p \in Bytes : p < off => str_pool'[p] = str_pool[p]
          /\ \A k \in 1 .. len : str_pool'[off + k - 1] = text[k]
          /\ str_pool'[off + len] = NUL
      <3>1. str_pool' = [p \in Bytes |-> IF p \in off .. off + len - 1 THEN text[p - off + 1]
                                         ELSE IF p = off + len THEN NUL ELSE str_pool[p]]
        BY <2>1 DEF Written
      <3>2. str_pool \in [Bytes -> Char \cup {NUL}] /\ \A k \in 1 .. len : text[k] \in Char \cup {NUL}
        BY ElementType DEF TypeOK
      <3> HIDE DEF len
      <3>3. \A p \in Bytes : p \in off .. off + len - 1 => p - off + 1 \in 1 .. len
        BY <1>2 DEF Bytes
      <3>4. \A p \in Bytes : (IF p \in off .. off + len - 1 THEN text[p - off + 1]
                              ELSE IF p = off + len THEN NUL ELSE str_pool[p]) \in Char \cup {NUL}
        BY <3>2, <3>3
      <3>5. str_pool' \in [Bytes -> Char \cup {NUL}]
        BY <3>1, <3>4
      <3>6. ASSUME NEW p \in Bytes, p < off PROVE str_pool'[p] = str_pool[p]
        <4>1. p \notin off .. off + len - 1 /\ p # off + len
          BY <1>2, <3>6 DEF Bytes
        <4> QED
          BY <3>1, <4>1
      <3>7. ASSUME NEW k \in 1 .. len PROVE str_pool'[off + k - 1] = text[k]
        <4> DEFINE p == off + k - 1
        <4>1. p \in Bytes /\ p \in off .. off + len - 1 /\ p - off + 1 = k
          BY <1>2, <2>2, Sizes DEF Bytes
        <4> HIDE DEF p
        <4>2. str_pool'[p] = text[k]
          BY <3>1, <4>1
        <4> QED
          BY <4>2 DEF p
      <3>8. str_pool'[off + len] = NUL
        <4>1. off + len \in Bytes /\ off + len \notin off .. off + len - 1
          BY <1>2, <2>2, Sizes DEF Bytes
        <4> QED
          BY <3>1, <4>1
      <3> QED
        BY <3>5, <3>6, <3>7, <3>8
    <2>9. str_pool_next' \in 0 .. STR_POOL_SIZE /\ off < str_pool_next'
      <3> HIDE DEF len
      <3> QED
        BY <1>2, <2>1, <2>2, Sizes
    <2>10. TypeOK'
      <3>1. Len(packed') <= MaxStrings
        BY <2>4, <2>6, Sizes
      <3>2. packed' \in Seq(0 .. FIELD * FIELD - 1) /\ Len(meant') = Len(packed')
        BY <2>6, <2>7
      <3>3. mode' \in {"run", "panic"}
        BY <2>1, <2>4
      <3>4. str_pool' \in [Bytes -> Char \cup {NUL}]
        BY <2>8
      <3> QED
        BY <1>1, <2>7, <2>9, <3>1, <3>2, <3>3, <3>4 DEF TypeOK
    <2>11. ASSUME NEW s \in 1 .. Len(packed) PROVE StringOK(s)'
      <3>1. /\ packed'[s] = packed[s] /\ meant'[s] = meant[s] /\ s \in DOMAIN packed
            /\ Representable(s)' = Representable(s)
        BY <2>4, <2>6, <2>7 DEF Representable
      <3>2. StringOK(s)
        BY <3>1 DEF StringsOK
      <3>3. string_data(packed'[s]) <= STR_POOL_SIZE
        BY <3>1, <3>2 DEF StringOK
      <3>4. CASE ~Representable(s)
        <4>1. FIELD <= str_pool_next
          BY <3>2, <3>4 DEF StringOK
        <4>2. FIELD <= str_pool_next'
          BY <1>2, <2>9, <4>1, Sizes
        <4> QED
          BY <3>1, <3>3, <3>4, <4>2 DEF StringOK, string_data
      <3>5. CASE Representable(s)
        <4> DEFINE o == meant[s].off
                   x == meant[s].text
        <4>1. o \in Nat /\ Len(x) \in Nat
          BY <3>1, StringType
        <4>2. /\ packed[s] = (o * FIELD) + Len(x) /\ o + Len(x) < off
              /\ \A k \in 1 .. Len(x) : str_pool[o + k - 1] = x[k]
              /\ str_pool[o + Len(x)] = NUL
          BY <3>2, <3>5 DEF StringOK
        <4> HIDE DEF o, x
        <4>3. /\ o + Len(x) \in Bytes
              /\ \A k \in 1 .. Len(x) : o + k - 1 \in Bytes /\ o + k - 1 < off
          BY <1>2, <4>1, <4>2, Sizes DEF Bytes
        <4>4. /\ \A k \in 1 .. Len(x) : str_pool'[o + k - 1] = x[k]
              /\ str_pool'[o + Len(x)] = NUL
          BY <2>8, <4>2, <4>3
        <4>5. o + Len(x) < str_pool_next'
          BY <1>2, <2>9, <4>1, <4>2, Sizes
        <4>6. /\ packed'[s] = (meant'[s].off * FIELD) + Len(meant'[s].text)
              /\ meant'[s].off + Len(meant'[s].text) < str_pool_next'
              /\ \A k \in 1 .. Len(meant'[s].text) :
                   str_pool'[meant'[s].off + k - 1] = meant'[s].text[k]
              /\ str_pool'[meant'[s].off + Len(meant'[s].text)] = NUL
          BY <3>1, <4>2, <4>4, <4>5 DEF o, x
        <4> QED
          BY <3>1, <3>3, <3>5, <4>6 DEF StringOK, string_data
      <3> QED
        BY <3>4, <3>5
    <2>12. ASSUME NEW s, s = Len(packed) + 1 PROVE StringOK(s)'
      <3>1. packed'[s] = w /\ meant'[s].off = off /\ meant'[s].text = wish
        BY <2>6, <2>7, <2>12 DEF m
      <3>2. Representable(s)' <=> off < FIELD /\ Len(wish) < FIELD
        BY <3>1 DEF Representable
      <3>3. string_data(packed'[s]) <= STR_POOL_SIZE
        <4>1. string_data(w) \in Nat
          BY <2>3, Sizes DEF string_data
        <4> HIDE DEF len
        <4>2. string_data(w) <= STR_POOL_SIZE
          BY <1>2, <2>2, <2>3, <4>1, Sizes
        <4> QED
          BY <3>1, <4>2
      <3>4. CASE off < FIELD
        <4>1. ASSUME NEW z \in DOMAIN packed PROVE Representable(z)
          <5>1. StringOK(z)
            BY DEF StringsOK
          <5>2. ~(FIELD <= str_pool_next)
            BY <1>2, <3>4, Sizes
          <5> QED
            BY <5>1, <5>2 DEF StringOK
        <4>2. text = wish
          BY <4>1
        <4>3. CASE Len(wish) < FIELD
          <5>1. w = (off * FIELD) + Len(wish)
            BY <1>2, <3>4, <4>2, <4>3, PackFits DEF w
          <5>2. off + Len(wish) < str_pool_next'
            BY <1>2, <2>1, <4>2
          <5>3. /\ \A k \in 1 .. Len(wish) : str_pool'[off + k - 1] = wish[k]
                /\ str_pool'[off + Len(wish)] = NUL
            BY <2>8, <4>2
          <5>4. /\ packed'[s] = (meant'[s].off * FIELD) + Len(meant'[s].text)
                /\ meant'[s].off + Len(meant'[s].text) < str_pool_next'
                /\ \A k \in 1 .. Len(meant'[s].text) :
                     str_pool'[meant'[s].off + k - 1] = meant'[s].text[k]
                /\ str_pool'[meant'[s].off + Len(meant'[s].text)] = NUL
            BY <3>1, <5>1, <5>2, <5>3
          <5> QED
            BY <3>2, <3>3, <3>4, <4>3, <5>4 DEF StringOK, string_data
        <4>4. CASE ~(Len(wish) < FIELD)
          <5>1. FIELD <= str_pool_next'
            BY <1>2, <2>1, <4>2, <4>4, Sizes
          <5> QED
            BY <3>2, <3>3, <4>4, <5>1 DEF StringOK, string_data
        <4> QED
          BY <4>3, <4>4
      <3>5. CASE ~(off < FIELD)
        <4>1. FIELD <= str_pool_next'
          BY <1>2, <2>9, <3>5, Sizes
        <4> QED
          BY <3>2, <3>3, <3>5, <4>1 DEF StringOK, string_data
      <3> QED
        BY <3>4, <3>5
    <2>13. \A s \in DOMAIN packed' : s \in 1 .. Len(packed) \/ s = Len(packed) + 1
      BY <2>4, <2>6
    <2>14. StringsOK'
      BY <2>11, <2>12, <2>13 DEF StringsOK
    <2> QED
      BY <2>10, <2>14
  <1> QED
    BY <1>3, <1>4

-----------------------------------------------------------------------------
(* Strings: each operation *)

LEMMA WiderType == Seq(Char) \subseteq Seq(Char \cup {NUL})
  OBVIOUS

\* A text that is typed or printed.
LEMMA MakeTextOK ==
  ASSUME TypeOK, StringsOK, NEW x \in Texts, MakeText(x)
  PROVE  TypeOK' /\ StringsOK'
  <1>1. x \in Seq(Char) /\ x \in Seq(Char \cup {NUL})
    BY WiderType, Sizes
  <1>2. Room /\ make_string(x, x) /\ UNCHANGED <<symbols, resets>>
    BY DEF MakeText
  <1> QED
    BY <1>1, <1>2, MakeString

\* Both operands keep their text until both are read.
LEMMA AppendOK ==
  ASSUME TypeOK, StringsOK, NEW a \in DOMAIN packed, NEW b \in DOMAIN packed, string_append(a, b)
  PROVE  TypeOK' /\ StringsOK'
  <1> DEFINE text == Counted(packed[a]) \o Counted(packed[b])
             wish == meant[a].text \o meant[b].text
  <1>1. text \in Seq(Char \cup {NUL}) /\ wish \in Seq(Char)
    <2>1. Counted(packed[a]) \in Seq(Char \cup {NUL}) /\ Counted(packed[b]) \in Seq(Char \cup {NUL})
      BY CountedType
    <2>2. meant[a].text \in Seq(Char) /\ meant[b].text \in Seq(Char)
      BY StringType
    <2> QED
      BY <2>1, <2>2, ConcatProperties
  <1>2. (\A s \in DOMAIN packed : Representable(s)) => text = wish
    BY StringReads DEF StringsOK
  <1>3. Room /\ make_string(text, wish) /\ UNCHANGED <<symbols, resets>>
    BY DEF string_append
  <1> HIDE DEF text, wish
  <1> QED
    BY <1>1, <1>2, <1>3, MakeString

\* A part is found where the whole has it.
LEMMA SubstringOK ==
  ASSUME TypeOK, StringsOK, NEW a \in DOMAIN packed,
         NEW end \in 0 .. Len(meant[a].text), NEW start \in 0 .. end, substring(a, start, end)
  PROVE  TypeOK' /\ StringsOK'
  <1> DEFINE f(k) == Byte(string_data(packed[a]) + start + k - 1)
             text == [k \in 1 .. end - start |-> f(k)]
             x == meant[a].text
             wish == SubSeq(x, start + 1, end)
  <1>1. x \in Seq(Char) /\ Len(x) \in Nat
    BY StringType
  <1>2. end \in Nat /\ start \in Nat /\ end - start \in Nat /\ end <= Len(x)
    BY <1>1
  <1>3. text \in Seq(Char \cup {NUL})
    <2>1. \A k \in 1 .. end - start : f(k) \in Char \cup {NUL}
      BY DEF Byte, TypeOK
    <2> HIDE DEF f
    <2> QED
      BY <1>2, <2>1, SeqOfElements
  <1>4. /\ wish \in Seq(Char)
        /\ wish = [k \in 1 .. end - start |-> x[start + k]]
    <2> HIDE DEF x
    <2>1. start + 1 \in 1 .. Len(x) + 1 /\ end \in start .. Len(x)
      BY <1>1, <1>2
    <2>2. wish \in Seq(Char) /\ Len(wish) = end - start
          /\ \A k \in 1 .. end - start : wish[k] = x[start + k]
      BY <1>1, <1>2, <2>1
    <2> HIDE DEF wish
    <2> QED
      BY <1>2, <2>2
  <1>5. ASSUME \A s \in DOMAIN packed : Representable(s) PROVE text = wish
    <2>1. StringOK(a) /\ Representable(a)
      BY <1>5 DEF StringsOK
    <2>2. string_data(packed[a]) = meant[a].off /\ meant[a].off \in Nat
      BY <2>1, StringBytes, StringType
    <2>3. \A k \in 1 .. Len(x) : Byte(meant[a].off + k - 1) = x[k]
      BY <2>1, StringBytes
    <2>4. ASSUME NEW k \in 1 .. end - start PROVE f(k) = x[start + k]
      <3> DEFINE i == start + k
                 o == meant[a].off
      <3>1. i \in 1 .. Len(x) /\ o + start + k - 1 = o + i - 1
        <4> HIDE DEF x, o
        <4> QED
          BY <1>1, <1>2, <2>2 DEF o
      <3> HIDE DEF i
      <3>2. Byte(o + i - 1) = x[i]
        BY <2>3, <3>1
      <3>3. f(k) = Byte(o + start + k - 1)
        BY <2>2
      <3> HIDE DEF o, x, f
      <3>4. f(k) = x[i]
        BY <3>1, <3>2, <3>3
      <3> QED
        BY <3>4 DEF i
    <2> HIDE DEF f, x
    <2> QED
      BY <1>4, <2>4
  <1>6. Room /\ make_string(text, wish) /\ UNCHANGED <<symbols, resets>>
    BY DEF substring
  <1> HIDE DEF text, wish
  <1> QED
    BY <1>3, <1>4, <1>5, <1>6, MakeString

LEMMA NameToStringOK ==
  ASSUME TypeOK, StringsOK, NEW k \in DOMAIN names, symbol_to_string(k)
  PROVE  TypeOK' /\ StringsOK'
  <1>1. names[k] \in Seq(Char)
    BY ElementType DEF TypeOK
  <1>2. names[k] \in Seq(Char \cup {NUL})
    BY <1>1, WiderType
  <1>3. Room /\ make_string(names[k], names[k]) /\ UNCHANGED <<symbols, resets>>
    BY DEF symbol_to_string
  <1> QED
    BY <1>1, <1>2, <1>3, MakeString

\* A string changes no symbol.
LEMMA StringsKeepSymbols ==
  ASSUME NamesAreSymbols, GivenOK, GensymIsUnique, UNCHANGED symbols
  PROVE  NamesAreSymbols' /\ GivenOK' /\ GensymIsUnique'
  BY DEF symbols, table, NamesAreSymbols, GivenOK, GensymIsUnique

-----------------------------------------------------------------------------
(* Symbols: each operation *)

\* symbol.h: interning adds the name at the end when no symbol has it.
LEMMA Intern ==
  ASSUME TypeOK, NamesAreSymbols, mode = "run", NEW name \in Seq(Char), intern(name)
  PROVE  /\ mode' \in {"run", "panic"}
         /\ names' \in Seq(Seq(Char)) /\ Len(names') \in 2 .. MAX_SYMBOLS
         /\ name_pool_next' \in 0 .. NAME_POOL_SIZE
         /\ NamesAreSymbols'
         /\ \A k \in DOMAIN names : k \in DOMAIN names' /\ names'[k] = names[k]
         /\ mode' = "run" => \E k \in DOMAIN names' : names'[k] = name
  <1>1. /\ names \in Seq(Seq(Char)) /\ Len(names) \in 2 .. MAX_SYMBOLS /\ DOMAIN names = 1 .. Len(names)
        /\ name_pool_next \in 0 .. NAME_POOL_SIZE /\ Len(name) \in Nat
    BY DEF TypeOK
  <1>2. CASE Interned(name)
    <2>1. UNCHANGED <<mode, names, name_pool_next>>
      BY <1>2 DEF intern, table
    <2> QED
      BY <1>1, <1>2, <2>1 DEF Interned, NamesAreSymbols
  <1>3. CASE ~Interned(name) /\ mode' = "panic" /\ UNCHANGED table
    <2>1. UNCHANGED <<names, name_pool_next>>
      BY <1>3 DEF table
    <2> QED
      BY <1>1, <1>3, <2>1 DEF NamesAreSymbols
  <1>4. CASE /\ ~Interned(name) /\ Added(name) /\ UNCHANGED mode
             /\ ~(Len(names) >= MAX_SYMBOLS \/ name_pool_next + Len(name) + 1 > NAME_POOL_SIZE)
    <2>1. names' = Append(names, name) /\ name_pool_next' = name_pool_next + Len(name) + 1
      BY <1>4 DEF Added
    <2>2. Len(names) + 1 \in 2 .. MAX_SYMBOLS /\ name_pool_next' \in 0 .. NAME_POOL_SIZE
      BY <1>1, <1>4, <2>1, Sizes
    <2>3. /\ names' \in Seq(Seq(Char)) /\ Len(names') = Len(names) + 1
          /\ DOMAIN names' = 1 .. Len(names) + 1
          /\ \A i \in 1 .. Len(names) : names'[i] = names[i]
          /\ names'[Len(names) + 1] = name
      <3> DEFINE S == Seq(Char)
      <3>1. names \in Seq(S) /\ name \in S
        BY <1>1
      <3> HIDE DEF S
      <3>2. /\ names' \in Seq(S) /\ Len(names') = Len(names) + 1
            /\ DOMAIN names' = 1 .. Len(names) + 1
            /\ \A i \in 1 .. Len(names) : names'[i] = names[i]
            /\ names'[Len(names) + 1] = name
        BY <2>1, <3>1, AppendedIs
      <3> QED
        BY <3>2 DEF S
    <2>4. \A k \in DOMAIN names : names[k] # name
      BY <1>4 DEF Interned
    <2>5. NamesAreSymbols'
      <3>1. ASSUME NEW a \in DOMAIN names', NEW b \in DOMAIN names', names'[a] = names'[b]
            PROVE  a = b
        <4>1. /\ a \in 1 .. Len(names) \/ a = Len(names) + 1
              /\ b \in 1 .. Len(names) \/ b = Len(names) + 1
          BY <1>1, <2>3
        <4>2. CASE a \in 1 .. Len(names) /\ b \in 1 .. Len(names)
          BY <1>1, <2>3, <3>1, <4>2 DEF NamesAreSymbols, IsInjective
        <4>3. CASE a \in 1 .. Len(names) /\ b = Len(names) + 1
          BY <1>1, <2>3, <2>4, <3>1, <4>3
        <4>4. CASE a = Len(names) + 1 /\ b \in 1 .. Len(names)
          BY <1>1, <2>3, <2>4, <3>1, <4>4
        <4> QED
          BY <4>1, <4>2, <4>3, <4>4
      <3> QED
        BY <3>1 DEF NamesAreSymbols, IsInjective
    <2>6. mode' \in {"run", "panic"}
      BY <1>4
    <2>7. \A k \in DOMAIN names : k \in DOMAIN names' /\ names'[k] = names[k]
      BY <1>1, <2>3
    <2>8. Len(names) + 1 \in DOMAIN names' /\ names'[Len(names) + 1] = name
      BY <1>1, <2>3
    <2> QED
      BY <2>2, <2>3, <2>5, <2>6, <2>7, <2>8
  <1>5. \/ Interned(name)
        \/ ~Interned(name) /\ mode' = "panic" /\ UNCHANGED table
        \/ /\ ~Interned(name) /\ Added(name) /\ UNCHANGED mode
           /\ ~(Len(names) >= MAX_SYMBOLS \/ name_pool_next + Len(name) + 1 > NAME_POOL_SIZE)
    BY DEF intern
  <1> QED
    BY <1>2, <1>3, <1>4, <1>5

\* A symbol's name is kept, so what gensym gave keeps its name.
LEMMA GivenStays ==
  ASSUME GivenOK, GensymIsUnique, UNCHANGED <<gensym_counter, given>>,
         \A k \in DOMAIN names : k \in DOMAIN names' /\ names'[k] = names[k]
  PROVE  GivenOK' /\ GensymIsUnique'
  <1>1. GensymIsUnique'
    BY DEF GensymIsUnique
  <1>2. ASSUME NEW j \in DOMAIN given
        PROVE  /\ given[j] \in DOMAIN names'
               /\ \E n \in 0 .. gensym_counter - 1 : names'[given[j]] = GensymName(n)
    BY DEF GivenOK
  <1> QED
    BY <1>1, <1>2 DEF GivenOK

\* A symbol that is read, or made of a string.
LEMMA InternOK ==
  ASSUME TextInv, mode = "run", NEW name \in Seq(Char), intern(name),
         UNCHANGED <<strings, gensym_counter, given, resets>>
  PROVE  TextInv'
  <1>1. TypeOK /\ StringsOK /\ NamesAreSymbols /\ GivenOK /\ GensymIsUnique
    BY DEF TextInv
  <1>2. UNCHANGED <<str_pool, str_pool_next, packed, meant>>
    BY DEF strings
  <1>3. TypeOK'
    BY <1>1, <1>2, Intern DEF TypeOK
  <1>4. StringsOK'
    BY <1>1, <1>2 DEF StringsOK, StringOK, Representable, string_data
  <1>5. NamesAreSymbols' /\ \A k \in DOMAIN names : k \in DOMAIN names' /\ names'[k] = names[k]
    BY <1>1, Intern
  <1>6. GivenOK' /\ GensymIsUnique'
    BY <1>1, <1>5, GivenStays
  <1> QED
    BY <1>3, <1>4, <1>5, <1>6 DEF TextInv

LEMMA GensymNameType ==
  ASSUME NEW n \in Nat
  PROVE  GensymName(n) \in Seq(Char)
  <1>1. "_g" \in Char
    BY LispTextAssumption
  <1>2. <<"_g">> \in Seq(Char)
    BY <1>1
  <1> QED
    BY <1>2, DecimalRule, ConcatProperties DEF GensymName

\* Two counts are two names.
LEMMA GensymNameDiffers ==
  ASSUME NEW m \in Nat, NEW n \in Nat, GensymName(m) = GensymName(n)
  PROVE  m = n
  <1> DEFINE s == Decimal[m]
             r == Decimal[n]
             p == <<"_g">>
  <1>1. s \in Seq(Char) /\ r \in Seq(Char) /\ p \in Seq(Char)
    BY DecimalRule, LispTextAssumption
  <1>2. p \o s = p \o r
    BY DEF GensymName
  <1> HIDE DEF s, r, p
  <1>3. s = r
    BY <1>1, <1>2, ConcatSimplifications
  <1> QED
    BY <1>3, DecimalDiffers DEF s, r

\* eval.h: the counter has moved past every name that gensym gave, so the next
\* symbol has another name, and is another symbol.
LEMMA GensymOK ==
  ASSUME TextInv, gensym
  PROVE  TextInv'
  <1> DEFINE name == GensymName(gensym_counter)
  <1>1. TypeOK /\ StringsOK /\ NamesAreSymbols /\ GivenOK /\ GensymIsUnique
    BY DEF TextInv
  <1>2. /\ mode = "run" /\ intern(name) /\ gensym_counter' = gensym_counter + 1
        /\ given' = (IF mode' = "run" THEN Append(given, Symbol(name)) ELSE given)
        /\ UNCHANGED <<str_pool, str_pool_next, packed, meant, resets>>
    BY DEF gensym, CountAll, strings
  <1>3. gensym_counter \in Nat /\ given \in Seq(Nat) /\ Len(given) \in Nat /\ DOMAIN given = 1 .. Len(given)
    BY <1>1 DEF TypeOK
  <1>4. name \in Seq(Char)
    BY <1>3, GensymNameType
  <1> HIDE DEF name
  <1>5. /\ mode' \in {"run", "panic"}
        /\ names' \in Seq(Seq(Char)) /\ Len(names') \in 2 .. MAX_SYMBOLS
        /\ name_pool_next' \in 0 .. NAME_POOL_SIZE
        /\ NamesAreSymbols'
        /\ \A k \in DOMAIN names : k \in DOMAIN names' /\ names'[k] = names[k]
        /\ mode' = "run" => \E k \in DOMAIN names' : names'[k] = name
    BY <1>1, <1>2, <1>4, Intern
  <1>6. StringsOK'
    BY <1>1, <1>2 DEF StringsOK, StringOK, Representable, string_data
  <1>7. ASSUME NEW j \in DOMAIN given
        PROVE  /\ given[j] \in DOMAIN names'
               /\ \E n \in 0 .. gensym_counter - 1 : names'[given[j]] = GensymName(n)
    BY <1>1, <1>5 DEF GivenOK
  <1>8. \A n \in 0 .. gensym_counter - 1 : n \in 0 .. gensym_counter' - 1
    BY <1>2, <1>3
  <1>9. CASE mode' # "run"
    <2>1. given' = given
      BY <1>2, <1>9
    <2>2. TypeOK'
      <3>1. given' \in Seq(Nat) /\ gensym_counter' \in Nat
        <4>1. gensym_counter' = gensym_counter + 1
          BY <1>2
        <4> QED
          BY <1>3, <2>1, <4>1
      <3>2. UNCHANGED <<str_pool, str_pool_next, packed, meant, resets>>
        BY <1>2
      <3> QED
        BY <1>1, <1>5, <3>1, <3>2 DEF TypeOK
    <2>3. GensymIsUnique'
      BY <1>1, <2>1 DEF GensymIsUnique
    <2>4. GivenOK'
      BY <1>7, <1>8, <2>1 DEF GivenOK
    <2> QED
      BY <1>5, <1>6, <2>2, <2>3, <2>4 DEF TextInv
  <1>10. CASE mode' = "run"
    <2> DEFINE g == Symbol(name)
    <2>1. g \in DOMAIN names' /\ names'[g] = name
      BY <1>5, <1>10 DEF Symbol
    <2>2. g \in Nat
      <3>1. DOMAIN names' = 1 .. Len(names') /\ Len(names') \in Nat
        BY <1>5
      <3> HIDE DEF g
      <3> QED
        BY <2>1, <3>1
    <2>3. given' = Append(given, g)
      BY <1>2, <1>10
    <2> HIDE DEF g
    <2>4. /\ given' \in Seq(Nat) /\ DOMAIN given' = 1 .. Len(given) + 1
          /\ \A j \in 1 .. Len(given) : given'[j] = given[j]
          /\ given'[Len(given) + 1] = g
      BY <1>3, <2>2, <2>3, AppendedIs
    <2>5. \A j \in DOMAIN given' : j \in DOMAIN given \/ j = Len(given) + 1
      BY <1>3, <2>4
    <2>6. TypeOK'
      <3>1. gensym_counter' \in Nat /\ given' \in Seq(Nat)
        <4>1. gensym_counter' = gensym_counter + 1
          BY <1>2
        <4> QED
          BY <1>3, <2>4, <4>1
      <3>2. UNCHANGED <<str_pool, str_pool_next, packed, meant, resets>>
        BY <1>2
      <3> QED
        BY <1>1, <1>5, <3>1, <3>2 DEF TypeOK
    <2>7. GivenOK'
      <3>1. ASSUME NEW j \in DOMAIN given'
            PROVE  /\ given'[j] \in DOMAIN names'
                   /\ \E n \in 0 .. gensym_counter' - 1 : names'[given'[j]] = GensymName(n)
        <4>1. CASE j \in DOMAIN given
          <5>1. given'[j] = given[j]
            BY <1>3, <2>4, <4>1
          <5> QED
            BY <1>7, <1>8, <4>1, <5>1
        <4>2. CASE j = Len(given) + 1
          <5>1. given'[j] = g
            BY <2>4, <4>2
          <5>2. gensym_counter \in 0 .. gensym_counter' - 1
            BY <1>2, <1>3
          <5> QED
            BY <2>1, <5>1, <5>2 DEF name
        <4> QED
          BY <2>5, <4>1, <4>2
      <3> QED
        BY <3>1 DEF GivenOK
    <2>8. ASSUME NEW j \in DOMAIN given PROVE given[j] # g
      <3> SUFFICES ASSUME given[j] = g PROVE FALSE
        OBVIOUS
      <3>1. PICK n \in 0 .. gensym_counter - 1 : names'[given[j]] = GensymName(n)
        BY <1>7
      <3>2. GensymName(n) = GensymName(gensym_counter) /\ n \in Nat /\ n # gensym_counter
        BY <1>3, <2>1, <3>1 DEF name
      <3> QED
        BY <1>3, <3>2, GensymNameDiffers
    <2>9. GensymIsUnique'
      <3>1. ASSUME NEW a \in DOMAIN given', NEW b \in DOMAIN given', given'[a] = given'[b]
            PROVE  a = b
        <4>1. CASE a \in DOMAIN given /\ b \in DOMAIN given
          BY <1>1, <1>3, <2>4, <3>1, <4>1 DEF GensymIsUnique, IsInjective
        <4>2. CASE a \in DOMAIN given /\ b = Len(given) + 1
          BY <1>3, <2>4, <2>8, <3>1, <4>2
        <4>3. CASE a = Len(given) + 1 /\ b \in DOMAIN given
          BY <1>3, <2>4, <2>8, <3>1, <4>3
        <4> QED
          BY <2>5, <4>1, <4>2, <4>3
      <3> QED
        BY <3>1 DEF GensymIsUnique, IsInjective
    <2> QED
      BY <1>5, <1>6, <2>6, <2>7, <2>9 DEF TextInv
  <1> QED
    BY <1>9, <1>10

-----------------------------------------------------------------------------
(* The first state and every step *)

\* The two symbols that are always there.
LEMMA TwoNames ==
  /\ <<nil, t>> \in Seq(Seq(Char)) /\ Len(<<nil, t>>) = 2 /\ IsInjective(<<nil, t>>)
  /\ Len(nil) + Len(t) + 2 \in 0 .. NAME_POOL_SIZE
  <1>1. nil \in Seq(Char) /\ t \in Seq(Char)
    BY LispTextAssumption DEF nil, t
  <1>2. nil # t
    BY OneDigit DEF nil, t
  <1>3. Len(nil) = 1 /\ Len(t) = 1
    BY DEF nil, t
  <1>4. Len(nil) + Len(t) + 2 \in 0 .. NAME_POOL_SIZE
    BY <1>3, LispTextAssumption
  <1> HIDE DEF nil, t
  <1>5. <<nil, t>> \in Seq(Seq(Char)) /\ Len(<<nil, t>>) = 2
    <2> DEFINE S == Seq(Char)
    <2>1. nil \in S /\ t \in S
      BY <1>1
    <2> HIDE DEF S
    <2>2. <<nil, t>> \in Seq(S) /\ Len(<<nil, t>>) = 2
      BY <2>1
    <2> QED
      BY <2>2 DEF S
  <1>6. IsInjective(<<nil, t>>)
    <2>1. DOMAIN <<nil, t>> = {1, 2} /\ <<nil, t>>[1] = nil /\ <<nil, t>>[2] = t
      BY <1>5
    <2> QED
      BY <1>2, <2>1 DEF IsInjective
  <1> QED
    BY <1>4, <1>5, <1>6

LEMMA NothingYet ==
  /\ <<>> \in Seq(0 .. FIELD * FIELD - 1) /\ <<>> \in Seq([off : Bytes, text : Seq(Char)])
  /\ <<>> \in Seq(Nat) /\ Len(<<>>) = 0 /\ DOMAIN <<>> = {} /\ IsInjective(<<>>)
  <1>1. \A S : <<>> \in Seq(S) /\ Len(<<>>) = 0
    OBVIOUS
  <1>2. DOMAIN <<>> = {}
    OBVIOUS
  <1> QED
    BY <1>1, <1>2 DEF IsInjective

LEMMA InitOK == Init => TextInv
  <1> SUFFICES ASSUME Init PROVE TextInv
    OBVIOUS
  <1> USE DEF Init
  <1>1. str_pool \in [Bytes -> Char \cup {NUL}]
    OBVIOUS
  <1>2. TypeOK
    BY <1>1, TwoNames, NothingYet, Sizes DEF TypeOK
  <1>3. StringsOK /\ GivenOK
    BY NothingYet DEF StringsOK, GivenOK
  <1>4. NamesAreSymbols /\ GensymIsUnique
    BY TwoNames, NothingYet DEF NamesAreSymbols, GensymIsUnique
  <1> QED
    BY <1>2, <1>3, <1>4 DEF TextInv

\* A new session keeps only the bytes.
LEMMA ResetOK ==
  ASSUME TextInv, reset_interpreter
  PROVE  TextInv'
  <1> USE DEF reset_interpreter
  <1>1. TypeOK
    BY DEF TextInv
  <1>2. resets' \in 0 .. MaxResets
    BY <1>1, Sizes DEF TypeOK
  <1>3. TypeOK'
    BY <1>1, <1>2, TwoNames, NothingYet, Sizes DEF TypeOK
  <1>4. StringsOK' /\ GivenOK'
    BY NothingYet DEF StringsOK, GivenOK
  <1>5. NamesAreSymbols' /\ GensymIsUnique'
    BY TwoNames, NothingYet DEF NamesAreSymbols, GensymIsUnique
  <1> QED
    BY <1>3, <1>4, <1>5 DEF TextInv

LEMMA NextOK == TextInv /\ [Next]_vars => TextInv'
  <1> SUFFICES ASSUME TextInv, [Next]_vars PROVE TextInv'
    OBVIOUS
  <1>1. TypeOK /\ StringsOK /\ NamesAreSymbols /\ GivenOK /\ GensymIsUnique
    BY DEF TextInv
  <1>2. ASSUME NEW x \in Texts, MakeText(x) PROVE TextInv'
    <2>1. UNCHANGED symbols
      BY <1>2 DEF MakeText
    <2> QED
      BY <1>1, <1>2, <2>1, MakeTextOK, StringsKeepSymbols DEF TextInv
  <1>3. ASSUME NEW x \in Texts, ReadSymbol(x) PROVE TextInv'
    <2>1. mode = "run" /\ intern(x) /\ UNCHANGED <<strings, gensym_counter, given, resets>>
      BY <1>3 DEF ReadSymbol
    <2> QED
      BY <2>1, InternOK, Sizes
  <1>4. ASSUME NEW a \in DOMAIN packed, NEW b \in DOMAIN packed, string_append(a, b) PROVE TextInv'
    <2>1. UNCHANGED symbols
      BY <1>4 DEF string_append
    <2> QED
      BY <1>1, <1>4, <2>1, AppendOK, StringsKeepSymbols DEF TextInv
  <1>5. ASSUME NEW a \in DOMAIN packed, string_to_symbol(a) PROVE TextInv'
    <2>1. /\ mode = "run" /\ intern(Terminated(packed[a]))
          /\ UNCHANGED <<strings, gensym_counter, given, resets>>
      BY <1>5 DEF string_to_symbol
    <2>2. Terminated(packed[a]) \in Seq(Char)
      BY <1>1, TerminatedType DEF StringsOK
    <2> QED
      BY <2>1, <2>2, InternOK
  <1>6. ASSUME NEW a \in DOMAIN packed, NEW end \in 0 .. Len(meant[a].text), NEW start \in 0 .. end,
               substring(a, start, end)
        PROVE  TextInv'
    <2>1. UNCHANGED symbols
      BY <1>6 DEF substring
    <2> QED
      BY <1>1, <1>6, <2>1, SubstringOK, StringsKeepSymbols DEF TextInv
  <1>7. ASSUME NEW k \in DOMAIN names, symbol_to_string(k) PROVE TextInv'
    <2>1. UNCHANGED symbols
      BY <1>7 DEF symbol_to_string
    <2> QED
      BY <1>1, <1>7, <2>1, NameToStringOK, StringsKeepSymbols DEF TextInv
  <1>8. CASE UNCHANGED vars
    <2>1. UNCHANGED <<mode, str_pool, str_pool_next, packed, meant, names, name_pool_next,
                      gensym_counter, given, resets>>
      BY <1>8 DEF vars, strings, symbols, table
    <2>2. TypeOK' /\ NamesAreSymbols' /\ GensymIsUnique' /\ GivenOK'
      BY <1>1, <2>1 DEF TypeOK, NamesAreSymbols, GensymIsUnique, GivenOK
    <2>3. StringsOK'
      BY <1>1, <2>1 DEF StringsOK, StringOK, Representable, string_data
    <2> QED
      BY <2>2, <2>3 DEF TextInv
  <1> QED
    BY <1>2, <1>3, <1>4, <1>5, <1>6, <1>7, <1>8, GensymOK, ResetOK DEF Next

-----------------------------------------------------------------------------
(* The theorems *)

\* string.h, symbol.h and eval.h keep the invariant.
THEOREM TextInvariant == Spec => []TextInv
  BY InitOK, NextOK, PTL DEF Spec

\* symbol.h and string.h: both pools keep their bounds, whatever their sizes, and
\* the symbol table holds each name once.
THEOREM TablesCorrect == Spec => []TablesOK
  <1>1. TextInv => TablesOK
    BY DEF TextInv, TablesOK
  <1> QED
    BY <1>1, TextInvariant, PTL

\* string.h: a string that offset and length can say has the text it was made
\* with, by its length and up to its terminating byte.
THEOREM TextCorrect == Spec => []TextIsKept
  <1>1. TextInv => TextIsKept
    BY StringReads DEF TextInv, StringsOK, TextIsKept
  <1> QED
    BY <1>1, TextInvariant, PTL

\* eval.h: gensym never gives a symbol twice in a session.
THEOREM GensymCorrect == Spec => []GensymIsUnique
  <1>1. TextInv => GensymIsUnique
    BY DEF TextInv
  <1> QED
    BY <1>1, TextInvariant, PTL
=============================================================================
