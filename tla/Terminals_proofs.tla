-------------------------- MODULE Terminals_proofs --------------------------
(***************************************************************************)
(* Theorems about an upload, from the terminal over the line into memory.  *)
(***************************************************************************)
EXTENDS Terminals, SequenceTheorems, WellFoundedInduction, TLAPS

-----------------------------------------------------------------------------
(* Induction, and recursion over a sequence *)

\* Sets of natural numbers have a least element.
LEMMA LeastNat ==
  ASSUME NEW T \in SUBSET Nat, T # {}
  PROVE  \E x \in T : \A y \in T : x <= y
  <1>1. IsWellFoundedOn(OpToRel(<, Nat), Nat)
    BY NatLessThanWellFounded
  <1>2. PICK x \in T : \A y \in T : ~(<<y, x>> \in OpToRel(<, Nat))
    BY <1>1, WFMin
  <1>3. \A y \in T : ~(y < x)
    BY <1>2 DEF OpToRel
  <1>4. ASSUME NEW y \in T PROVE x <= y
    <2>1. x \in Nat /\ y \in Nat /\ ~(y < x)
      BY <1>3
    <2> QED
      BY <2>1
  <1> QED
    BY <1>4

\* What holds of 0, and of n + 1 when of n, holds of every number up to N.
LEMMA UpTo ==
  ASSUME NEW N \in Nat, NEW T, 0 \in T, \A n \in 0 .. N - 1 : n \in T => n + 1 \in T
  PROVE  0 .. N \subseteq T
  <1> DEFINE U == {n \in 0 .. N : n \notin T}
  <1> SUFFICES ASSUME U # {} PROVE FALSE
    OBVIOUS
  <1>1. U \in SUBSET Nat
    OBVIOUS
  <1>2. PICK x \in U : \A y \in U : x <= y
    <2> HIDE DEF U
    <2> QED
      BY <1>1, LeastNat
  <1>3. x \in 0 .. N /\ x \notin T /\ x # 0
    OBVIOUS
  <1>4. x - 1 \in 0 .. N - 1 /\ (x - 1) + 1 = x /\ ~(x <= x - 1)
    BY <1>3
  <1>5. x - 1 \in T
    BY <1>2, <1>4
  <1> QED
    BY <1>3, <1>4, <1>5

\* A function that gives each place what the step makes of the place before.
Steps(f, N, D, base, step) ==
  /\ f \in [0 .. N -> D] /\ f[0] = base
  /\ \A n \in 1 .. N : f[n] = step[n][f[n - 1]]

\* Such a function of the steps there is, for every sequence.
LEMMA StepsExist ==
  ASSUME NEW N \in Nat, NEW D, NEW base \in D, NEW step \in [1 .. N -> [D -> D]]
  PROVE  \E f : Steps(f, N, D, base, step)
  <1> DEFINE Part(f, n) == /\ f \in [0 .. n -> D] /\ f[0] = base
                           /\ \A k \in 1 .. n : f[k] = step[k][f[k - 1]]
             T == {n \in 0 .. N : \E f : Part(f, n)}
  <1>1. 0 \in T
    <2> DEFINE f == [k \in 0 .. 0 |-> base]
    <2>1. f \in [0 .. 0 -> D] /\ f[0] = base /\ \A k \in 1 .. 0 : FALSE
      OBVIOUS
    <2> HIDE DEF f
    <2>2. Part(f, 0)
      BY <2>1
    <2> QED
      BY <2>2
  <1>2. ASSUME NEW n \in 0 .. N - 1, n \in T PROVE n + 1 \in T
    <2>1. PICK f : Part(f, n)
      BY <1>2
    <2> DEFINE v == step[n + 1][f[n]]
               g == [k \in 0 .. n + 1 |-> IF k = n + 1 THEN v ELSE f[k]]
    <2>2. n + 1 \in 1 .. N /\ n \in 0 .. n /\ n + 1 \in 0 .. N
      OBVIOUS
    <2>3. v \in D
      <3>1. f[n] \in D /\ step[n + 1] \in [D -> D]
        BY <2>1, <2>2
      <3> QED
        BY <3>1
    <2> HIDE DEF v
    <2>4. \A k \in 0 .. n + 1 : k \in 0 .. n \/ k = n + 1
      OBVIOUS
    <2>5. g \in [0 .. n + 1 -> D] /\ g[0] = base
      BY <2>1, <2>3, <2>4
    <2>6. g[n + 1] = v /\ \A k \in 0 .. n : g[k] = f[k]
      OBVIOUS
    <2> HIDE DEF g
    <2>7. ASSUME NEW k \in 1 .. n + 1 PROVE g[k] = step[k][g[k - 1]]
      <3>1. CASE k = n + 1
        <4>1. k - 1 = n /\ g[k - 1] = f[n]
          BY <2>2, <2>6, <3>1
        <4> QED
          BY <2>6, <3>1, <4>1 DEF v
      <3>2. CASE k # n + 1
        <4>1. k \in 1 .. n /\ k \in 0 .. n /\ k - 1 \in 0 .. n
          BY <3>2
        <4> QED
          BY <2>1, <2>6, <4>1
      <3> QED
        BY <3>1, <3>2
    <2>8. Part(g, n + 1)
      BY <2>5, <2>7
    <2> QED
      BY <2>2, <2>8
  <1>3. N \in T
    <2> HIDE DEF T
    <2>1. N \in 0 .. N
      OBVIOUS
    <2> QED
      BY <1>1, <1>2, <2>1, UpTo
  <1> QED
    BY <1>3 DEF Steps

-----------------------------------------------------------------------------
(* Digits and numbers *)

\* The sizes are numbers.
LEMMA Sizes ==
  /\ RADIX \in Nat \ {0} /\ ADDR \in Nat \ {0} /\ LINSIZ \in Nat /\ LINSIZ >= 2
  /\ DOMAIN hextab = 1 .. RADIX /\ Hex = {hextab[d] : d \in 1 .. RADIX}
  <1>1. hextab \in Seq(Hex) /\ hextab # <<>>
    BY LoadNGoAssumption
  <1>2. DOMAIN hextab = 1 .. RADIX /\ RADIX \in Nat
    BY <1>1 DEF RADIX
  <1>3. RADIX # 0
    BY <1>1 DEF RADIX
  <1>4. ADDR \in Nat \ {0} /\ LINSIZ \in Nat \ {0, 1}
    BY LoadNGoAssumption
  <1>5. LINSIZ >= 2
    BY <1>4
  <1>6. Hex = {hextab[d] : d \in 1 .. RADIX}
    BY <1>2 DEF Hex, ToSet
  <1> QED
    BY <1>2, <1>3, <1>4, <1>5, <1>6

\* A digit stands for a number below RADIX.
LEMMA DigitValue ==
  ASSUME NEW c \in Hex
  PROVE  hexnum(c) \in 0 .. RADIX - 1
  <1>1. PICK k \in DOMAIN hextab : hextab[k] = c
    BY Sizes
  <1>2. (CHOOSE d \in DOMAIN hextab : hextab[d] = c) \in 1 .. RADIX
    BY <1>1, Sizes
  <1> QED
    BY <1>2, Sizes DEF hexnum

\* A digit is put behind a number.
LEMMA Shifted ==
  ASSUME NEW x \in Nat, NEW y \in Nat
  PROVE  RADIX * x \in Nat /\ RADIX * x + y \in Nat
  <1>1. RADIX \in Nat
    BY Sizes
  <1> QED
    BY <1>1

\* Power is the function it is defined as.
LEMMA PowerSteps ==
  /\ \A n \in 0 .. ADDR : Power[n] \in Nat \ {0}
  /\ Power[0] = 1 /\ \A n \in 1 .. ADDR : Power[n] = RADIX * Power[n - 1]
  <1> DEFINE D == Nat
             step == [n \in 1 .. ADDR |-> [x \in D |-> RADIX * x]]
             Is(p) == p = [n \in 0 .. ADDR |-> IF n = 0 THEN 1 ELSE RADIX * p[n - 1]]
  <1>1. \A x \in Nat : RADIX * x \in Nat /\ (x # 0 => RADIX * x # 0)
    BY Sizes
  <1>2. PICK f : Steps(f, ADDR, D, 1, step)
    <2>1. step \in [1 .. ADDR -> [D -> D]] /\ 1 \in D
      BY <1>1
    <2> HIDE DEF step, D
    <2> QED
      BY <2>1, StepsExist, Sizes
  <1>3. Is(f)
    <2>1. \A n \in 1 .. ADDR : f[n] = RADIX * f[n - 1]
      <3>1. \A n \in 1 .. ADDR : f[n - 1] \in D
        BY <1>2, Sizes DEF Steps
      <3> QED
        BY <1>2, <3>1 DEF Steps
    <2>2. f = [n \in 0 .. ADDR |-> f[n]] /\ f[0] = 1
      BY <1>2 DEF Steps
    <2>3. \A n \in 0 .. ADDR : f[n] = IF n = 0 THEN 1 ELSE RADIX * f[n - 1]
      <3>1. \A n \in 0 .. ADDR : n # 0 => n \in 1 .. ADDR
        BY Sizes
      <3> QED
        BY <2>1, <2>2, <3>1
    <2> QED
      BY <2>2, <2>3
  <1>4. Power = CHOOSE p : Is(p)
    BY DEF Power
  <1>5. Is(Power)
    <2> HIDE DEF Is
    <2> QED
      BY <1>3, <1>4
  <1>6. Power[0] = 1 /\ \A n \in 1 .. ADDR : Power[n] = RADIX * Power[n - 1]
    BY <1>5, Sizes
  <1> DEFINE T == {n \in 0 .. ADDR : Power[n] \in Nat \ {0}}
  <1>7. 0 \in T
    BY <1>6, Sizes
  <1>8. ASSUME NEW n \in 0 .. ADDR - 1, n \in T PROVE n + 1 \in T
    <2>1. n + 1 \in 1 .. ADDR /\ n + 1 \in 0 .. ADDR /\ (n + 1) - 1 = n
      BY Sizes
    <2>2. Power[n + 1] = RADIX * Power[n]
      BY <1>6, <2>1
    <2> QED
      BY <1>1, <1>8, <2>1, <2>2
  <1>9. 0 .. ADDR \subseteq T
    <2> HIDE DEF T
    <2> QED
      BY <1>7, <1>8, UpTo, Sizes
  <1> QED
    BY <1>6, <1>9

\* Value reads its digits one after the other.
ReadsAs(v, digits) ==
  /\ v[0] = 0
  /\ \A n \in 1 .. Len(digits) :
       v[n] = RADIX * v[n - 1] + hexnum(digits[n])

\* A numeral is read digit by digit.
LEMMA ValueSteps ==
  ASSUME NEW digits \in Seq(Hex)
  PROVE  \E v : /\ Value(digits) = v[Len(digits)] /\ ReadsAs(v, digits)
                /\ \A n \in 0 .. Len(digits) : v[n] \in Nat
  <1> DEFINE N == Len(digits)
             D == Nat
             step == [n \in 1 .. N |-> [x \in D |-> RADIX * x + hexnum(digits[n])]]
             Is(v) == v = [n \in 0 .. N |->
                             IF n = 0 THEN 0 ELSE RADIX * v[n - 1] + hexnum(digits[n])]
             value == CHOOSE v : Is(v)
  <1>1. N \in Nat /\ \A n \in 1 .. N : hexnum(digits[n]) \in Nat
    BY DigitValue, Sizes
  <1>2. PICK f : Steps(f, N, D, 0, step)
    <2>1. \A n \in 1 .. N : \A x \in Nat : RADIX * x + hexnum(digits[n]) \in Nat
      BY <1>1, Shifted
    <2>2. step \in [1 .. N -> [D -> D]] /\ 0 \in D
      BY <2>1
    <2> HIDE DEF step, D, N
    <2> QED
      BY <1>1, <2>2, StepsExist
  <1>3. Is(f)
    <2> DEFINE next(n) == IF n = 0 THEN 0 ELSE RADIX * f[n - 1] + hexnum(digits[n])
    <2>1. /\ f \in [0 .. N -> D] /\ f[0] = 0
          /\ \A n \in 1 .. N : f[n] = step[n][f[n - 1]]
      <3> HIDE DEF N, D, step
      <3> QED
        BY <1>2 DEF Steps
    <2>2. \A n \in 1 .. N : n \in 0 .. N /\ n - 1 \in 0 .. N /\ n # 0
      <3> HIDE DEF N
      <3> QED
        BY <1>1
    <2>3. \A n \in 0 .. N : n = 0 \/ n \in 1 .. N
      <3> HIDE DEF N
      <3> QED
        BY <1>1
    <2>4. ASSUME NEW n \in 1 .. N PROVE f[n] = next(n)
      <3>1. f[n - 1] \in D
        <4> HIDE DEF N, D, step, next
        <4> QED
          BY <2>1, <2>2
      <3>2. step[n][f[n - 1]] = RADIX * f[n - 1] + hexnum(digits[n])
        BY <3>1, Zenon
      <3>3. next(n) = RADIX * f[n - 1] + hexnum(digits[n])
        BY <2>2, Zenon
      <3> QED
        BY <2>1, <3>2, <3>3, Zenon
    <2>5. \A n \in 0 .. N : f[n] = next(n)
      <3>1. next(0) = 0
        OBVIOUS
      <3> HIDE DEF N, D, step, next
      <3> QED
        BY <2>1, <2>3, <2>4, <3>1
    <2>6. f = [n \in 0 .. N |-> next(n)]
      <3> HIDE DEF N, D, step, next
      <3> QED
        BY <2>1, <2>5
    <2> QED
      BY <2>6
  <1>4. Value(digits) = value[N]
    BY DEF Value
  <1>5. Is(value)
    <2> HIDE DEF Is
    <2> QED
      BY <1>3
  <1> HIDE DEF value
  <1>6. ReadsAs(value, digits)
    BY <1>1, <1>5 DEF ReadsAs
  <1> DEFINE T == {n \in 0 .. N : value[n] \in Nat}
  <1>7. 0 \in T
    BY <1>1, <1>6 DEF ReadsAs
  <1>8. ASSUME NEW n \in 0 .. N - 1, n \in T PROVE n + 1 \in T
    <2>1. n + 1 \in 1 .. N /\ n + 1 \in 0 .. N /\ (n + 1) - 1 = n
      BY <1>1
    <2>2. value[n + 1] = RADIX * value[n] + hexnum(digits[n + 1])
      BY <1>6, <2>1 DEF ReadsAs
    <2>3. value[n] \in Nat /\ hexnum(digits[n + 1]) \in Nat
      BY <1>1, <1>8, <2>1
    <2>4. value[n + 1] \in Nat
      BY <2>2, <2>3, Shifted
    <2> QED
      BY <2>1, <2>4
  <1>9. 0 .. N \subseteq T
    <2> HIDE DEF T, N
    <2> QED
      BY <1>1, <1>7, <1>8, UpTo
  <1> QED
    BY <1>4, <1>6, <1>9

\* An address has ADDR digits.
LEMMA AddressValue ==
  ASSUME NEW digits \in Seq(Hex), Len(digits) = ADDR
  PROVE  Value(digits) \in Address
  <1>1. PICK v : /\ Value(digits) = v[ADDR] /\ ReadsAs(v, digits)
                 /\ \A n \in 0 .. ADDR : v[n] \in Nat
    BY ValueSteps
  <1> DEFINE T == {n \in 0 .. ADDR : v[n] < Power[n]}
  <1>2. 0 \in T
    BY <1>1, PowerSteps, Sizes DEF ReadsAs
  <1>3. ASSUME NEW n \in 0 .. ADDR - 1, n \in T PROVE n + 1 \in T
    <2>1. n + 1 \in 1 .. ADDR /\ n \in 0 .. ADDR /\ n + 1 \in 0 .. ADDR /\ (n + 1) - 1 = n
      BY Sizes
    <2>2. v[n + 1] = RADIX * v[n] + hexnum(digits[n + 1]) /\ Power[n + 1] = RADIX * Power[n]
      BY <1>1, <2>1, PowerSteps DEF ReadsAs
    <2>3. hexnum(digits[n + 1]) \in 0 .. RADIX - 1
      BY <2>1, DigitValue
    <2> DEFINE x == v[n]
               p == Power[n]
               h == hexnum(digits[n + 1])
    <2>4. x \in Nat /\ p \in Nat /\ x < p /\ h \in 0 .. RADIX - 1
      BY <1>1, <1>3, <2>1, <2>3, PowerSteps
    <2> HIDE DEF x, p, h
    <2>5. RADIX * x + h < RADIX * p
      <3>1. p - x - 1 \in Nat /\ p = x + 1 + (p - x - 1)
        BY <2>4
      <3>2. RADIX * p = RADIX * x + RADIX + RADIX * (p - x - 1)
        BY <2>4, <3>1, Sizes
      <3>3. RADIX * (p - x - 1) \in Nat /\ RADIX * x \in Nat
        BY <2>4, <3>1, Sizes
      <3> QED
        BY <2>4, <3>2, <3>3, Sizes
    <2> QED
      BY <2>1, <2>2, <2>5 DEF x, p, h
  <1>4. 0 .. ADDR \subseteq T
    <2> HIDE DEF T
    <2> QED
      BY <1>2, <1>3, UpTo, Sizes
  <1>5. v[ADDR] \in Nat /\ v[ADDR] < Power[ADDR] /\ Power[ADDR] \in Nat
    BY <1>1, <1>4, PowerSteps, Sizes
  <1> QED
    BY <1>1, <1>5 DEF Address

\* A byte has two.
LEMMA ByteValue ==
  ASSUME NEW digits \in Seq(Hex), Len(digits) = 2
  PROVE  Value(digits) = hexnum(digits[1]) * RADIX + hexnum(digits[2])
  <1>1. PICK v : Value(digits) = v[2] /\ ReadsAs(v, digits) /\ \A n \in 0 .. 2 : v[n] \in Nat
    BY ValueSteps
  <1>2. hexnum(digits[1]) \in Nat /\ hexnum(digits[2]) \in Nat
    <2>1. digits[1] \in Hex /\ digits[2] \in Hex
      <3>1. 1 \in 1 .. Len(digits) /\ 2 \in 1 .. Len(digits)
        OBVIOUS
      <3> QED
        BY <3>1, ElementOfSeq
    <2> QED
      BY <2>1, DigitValue, Sizes
  <1>3. 1 \in 1 .. 2 /\ 2 \in 1 .. 2 /\ 1 - 1 = 0 /\ 2 - 1 = 1
    OBVIOUS
  <1>4. v[1] = RADIX * 0 + hexnum(digits[1]) /\ v[2] = RADIX * v[1] + hexnum(digits[2])
    BY <1>1, <1>3 DEF ReadsAs
  <1>5. v[1] = hexnum(digits[1])
    BY <1>2, <1>4, Sizes
  <1>6. RADIX * hexnum(digits[1]) = hexnum(digits[1]) * RADIX
    BY <1>2, Sizes
  <1> QED
    BY <1>1, <1>4, <1>5, <1>6

\* Two digits make a byte, one with a low nybble of zero too.
LEMMA NybblesFit ==
  ASSUME NEW h \in 0 .. RADIX - 1, NEW l \in 0 .. RADIX - 1
  PROVE  h * RADIX \in Byte /\ h * RADIX + l \in Byte
  <1>1. RADIX - 1 - h \in Nat /\ RADIX = h + 1 + (RADIX - 1 - h)
    BY Sizes
  <1>2. RADIX * RADIX = h * RADIX + RADIX + (RADIX - 1 - h) * RADIX
    BY <1>1, Sizes
  <1>3. h * RADIX \in Nat /\ (RADIX - 1 - h) * RADIX \in Nat
    BY <1>1, Sizes
  <1> QED
    BY <1>2, <1>3, Sizes DEF Byte

\* Quotient and remainder of a number are the only ones that give it.
LEMMA DivMod ==
  ASSUME NEW F \in Nat \ {0}, NEW q \in Nat, NEW r \in 0 .. F - 1
  PROVE  /\ ((q * F) + r) \div F = q /\ ((q * F) + r) % F = r
  <1> DEFINE w == (q * F) + r
  <1>1. ASSUME NEW a \in Nat, NEW b \in Nat, a < b PROVE (a * F) + F <= b * F
    <2>1. b - a - 1 \in Nat /\ b = a + 1 + (b - a - 1)
      BY <1>1
    <2>2. b * F = (a * F) + F + ((b - a - 1) * F)
      BY <2>1
    <2>3. (b - a - 1) * F \in Nat /\ a * F \in Nat
      BY <2>1
    <2> QED
      BY <2>2, <2>3
  <1>2. w \in Nat /\ q * F \in Nat
    OBVIOUS
  <1> HIDE DEF w
  <1>3. w \div F \in Nat /\ w % F \in 0 .. F - 1 /\ w = ((w \div F) * F) + (w % F)
    BY <1>2
  <1> DEFINE d == w \div F
             m == w % F
  <1> HIDE DEF d, m
  <1>4. d \in Nat /\ m \in 0 .. F - 1 /\ (d * F) + m = (q * F) + r /\ d * F \in Nat
    BY <1>3 DEF d, m, w
  <1>5. ~(d < q)
    <2> SUFFICES ASSUME d < q PROVE FALSE
      OBVIOUS
    <2>1. (d * F) + F <= q * F
      BY <1>1, <1>4
    <2> QED
      BY <1>2, <1>4, <2>1
  <1>6. ~(q < d)
    <2> SUFFICES ASSUME q < d PROVE FALSE
      OBVIOUS
    <2>1. (q * F) + F <= d * F
      BY <1>1, <1>4
    <2> QED
      BY <1>2, <1>4, <2>1
  <1>7. d = q
    BY <1>4, <1>5, <1>6
  <1>8. m = r
    BY <1>2, <1>4, <1>7
  <1> QED
    BY <1>7, <1>8 DEF d, m, w

\* Counting on from an address, round the end of memory.
LEMMA NextAddress ==
  ASSUME NEW x \in Nat
  PROVE  x % Power[ADDR] \in Address /\ ((x % Power[ADDR]) + 1) % Power[ADDR] = (x + 1) % Power[ADDR]
  <1> DEFINE P == Power[ADDR]
             q == x \div P
             r == x % P
  <1>1. P \in Nat \ {0}
    BY PowerSteps, Sizes
  <1> HIDE DEF P
  <1>2. q \in Nat /\ r \in 0 .. P - 1 /\ x = P * q + r
    BY <1>1
  <1> HIDE DEF q, r
  <1>3. CASE r + 1 < P
    <2>1. x + 1 = q * P + (r + 1) /\ r + 1 \in 0 .. P - 1
      BY <1>1, <1>2, <1>3
    <2>2. (x + 1) % P = r + 1
      BY <1>1, <1>2, <2>1, DivMod
    <2>3. (r + 1) % P = r + 1
      BY <1>1, <1>2, <1>3
    <2> QED
      BY <1>2, <2>2, <2>3 DEF r, P, Address
  <1>4. CASE r + 1 = P
    <2>1. x + 1 = (q + 1) * P + 0 /\ q + 1 \in Nat /\ 0 \in 0 .. P - 1
      BY <1>1, <1>2, <1>4
    <2>2. (x + 1) % P = 0
      BY <1>1, <2>1, DivMod
    <2>3. (r + 1) % P = 0
      <3>1. r + 1 = 1 * P + 0
        BY <1>1, <1>4
      <3> QED
        BY <1>1, <2>1, <3>1, DivMod
    <2> QED
      BY <1>2, <2>2, <2>3 DEF r, P, Address
  <1> QED
    BY <1>1, <1>2, <1>3, <1>4

-----------------------------------------------------------------------------
(* What a line says *)

\* The tokens are no digits, and differ.
LEMMA Tokens ==
  /\ {NL, CR, Report, Jump, "L", "G", ";"} \cap Hex = {}
  /\ NL # CR /\ NL # "L" /\ NL # "G" /\ NL # ";" /\ NL \in Char
  /\ Report \notin Char /\ Jump \notin Char /\ Report # NL /\ Jump # NL
  <1>1. {"L", "G", ";", NL, CR, Report, Jump} \cap (Hex \cup Other) = {}
    BY LoadNGoAssumption
  <1> QED
    BY <1>1 DEF NL, CR, Report, Jump, Char

CompleteLine == linbuf \in Seq(Char) /\ Len(linbuf) >= 2 /\ Last(linbuf) = NL

\* The numeral is what the line has of digits, to the first other character.
LEMMA NumeralIs ==
  ASSUME CompleteLine
  PROVE  /\ Numeral \in Seq(Hex) /\ Len(Numeral) \in 0 .. Len(linbuf) - 2
         /\ \A k \in 1 .. Len(Numeral) : Numeral[k] = linbuf[k + 1]
         /\ linbuf[Len(Numeral) + 2] \notin Hex
         /\ Len(Operand) = Len(linbuf) - 2 /\ Bad \subseteq 1 .. Len(Operand)
         /\ \A k \in 1 .. Len(Operand) : Operand[k] = linbuf[k + 1]
         /\ Bad = {} <=> Len(Numeral) = Len(Operand)
  <1> DEFINE L == Len(linbuf)
  <1>1. L \in Nat /\ L >= 2 /\ linbuf \in Seq(Char) /\ linbuf[L] = NL
    BY DEF CompleteLine, Last
  <1>0. L = Len(linbuf)
    OBVIOUS
  <1> HIDE DEF L
  <1>2. \A k \in 2 .. L - 1 : linbuf[k] \in Char
    BY <1>0, <1>1, ElementOfSeq
  <1>3. Operand \in Seq(Char) /\ Len(Operand) = L - 2
        /\ \A k \in 1 .. L - 2 : Operand[k] = linbuf[k + 1]
    <2>1. (L - 1) - 2 + 1 = L - 2 /\ (2 <= L - 1 \/ L - 2 = 0) /\ \A k \in Nat : 2 + k - 1 = k + 1
      BY <1>1
    <2>2. /\ Operand \in Seq(Char)
          /\ Len(Operand) = IF 2 <= L - 1 THEN (L - 1) - 2 + 1 ELSE 0
          /\ \A k \in 1 .. (L - 1) - 2 + 1 : Operand[k] = linbuf[2 + k - 1]
      BY <1>0, <1>1, <1>2, SubSeqProperties DEF Operand
    <2>3. Len(Operand) = L - 2
      BY <2>1, <2>2
    <2>4. ASSUME NEW k \in 1 .. L - 2 PROVE Operand[k] = linbuf[k + 1]
      BY <2>1, <2>2
    <2> QED
      BY <2>2, <2>3, <2>4
  <1>4. Bad \subseteq 1 .. L - 2 /\ Bad \in SUBSET Nat
        /\ \A k \in 1 .. L - 2 : k \notin Bad => Operand[k] \in Hex
    <2>1. DOMAIN Operand = 1 .. L - 2
      BY <1>3, LenProperties
    <2> QED
      BY <1>1, <2>1 DEF Bad
  <1>5. CASE Bad = {}
    <2>1. Numeral = Operand
      BY <1>5 DEF Numeral
    <2>2. \A k \in 1 .. L - 2 : Operand[k] \in Hex
      BY <1>4, <1>5
    <2>3. Operand \in Seq(Hex)
      <3>1. Operand = [k \in 1 .. L - 2 |-> Operand[k]]
        BY <1>3, LenProperties
      <3>2. Operand \in [1 .. L - 2 -> Hex]
        BY <2>2, <3>1
      <3> QED
        BY <1>1, <3>2, SeqDef
    <2>4. linbuf[L - 2 + 2] \notin Hex
      <3>1. L - 2 + 2 = L
        BY <1>1
      <3>2. NL \notin Hex
        BY Tokens
      <3> QED
        BY <1>1, <3>1, <3>2
    <2> QED
      BY <1>0, <1>1, <1>3, <1>4, <1>5, <2>1, <2>3, <2>4
  <1>6. CASE Bad # {}
    <2> DEFINE Least(k) == \A j \in Bad : k <= j
               b == CHOOSE k \in Bad : Least(k)
    <2>1. b \in Bad /\ Least(b)
      <3>1. \E k \in Bad : Least(k)
        BY <1>4, <1>6, LeastNat
      <3> HIDE DEF Least
      <3> QED
        BY <3>1
    <2>2. Numeral = SubSeq(Operand, 1, b - 1)
      BY <1>6 DEF Numeral
    <2> HIDE DEF b
    <2>3. b \in 1 .. L - 2 /\ \A k \in 1 .. b - 1 : k \notin Bad /\ k \in 1 .. L - 2
      <3>1. \A k \in 1 .. b - 1 : ~(b <= k)
        BY <1>4, <2>1
      <3> QED
        BY <1>1, <1>4, <2>1, <3>1
    <2>4. \A k \in 1 .. b - 1 : Operand[k] \in Hex
      BY <1>4, <2>3
    <2>5. /\ Numeral \in Seq(Hex)
          /\ Len(Numeral) = IF 1 <= b - 1 THEN (b - 1) - 1 + 1 ELSE 0
          /\ \A k \in 1 .. (b - 1) - 1 + 1 : Numeral[k] = Operand[1 + k - 1]
      BY <2>2, <2>3, <2>4, SubSeqProperties
    <2>6. Len(Numeral) = b - 1 /\ \A k \in 1 .. b - 1 : Numeral[k] = Operand[k]
      BY <2>3, <2>5
    <2>7. linbuf[b + 1] \notin Hex
      <3>1. Operand[b] \notin Hex
        BY <2>1 DEF Bad
      <3> QED
        BY <1>3, <2>3, <3>1
    <2>8. b - 1 + 2 = b + 1 /\ b - 1 # L - 2 /\ b - 1 \in 0 .. L - 2
      BY <1>1, <2>3
    <2> QED
      BY <1>0, <1>1, <1>3, <1>4, <1>6, <2>3, <2>5, <2>6, <2>7, <2>8
  <1> QED
    BY <1>5, <1>6 DEF L

\* The bytes the line gives are those whose digits all are in the numeral.
LEMMA GivenIs ==
  ASSUME CompleteLine, Len(linbuf) < LINSIZ, NEW i \in Nat
  PROVE  i \in Given(linbuf) <=> ADDR + 2 * i + 2 <= Len(Numeral)
  <1> DEFINE N == Len(Numeral)
             L == Len(linbuf)
  <1>1. /\ N \in 0 .. L - 2 /\ L \in Nat /\ L >= 2 /\ ADDR \in Nat /\ LINSIZ \in Nat
        /\ L < LINSIZ /\ DOMAIN linbuf = 1 .. L
    BY NumeralIs, Sizes, LenProperties DEF CompleteLine
  <1>2. linbuf[N + 2] \notin Hex /\ \A k \in 1 .. N : linbuf[k + 1] \in Hex
    <2>1. \A k \in 1 .. N : Numeral[k] \in Hex /\ Numeral[k] = linbuf[k + 1]
      BY NumeralIs, ElementOfSeq
    <2> QED
      BY <2>1, NumeralIs
  <1> HIDE DEF N, L
  <1>3. ASSUME ADDR + 2 * i + 2 <= N PROVE i \in Given(linbuf)
    <2>1. i \in 0 .. LINSIZ
      BY <1>1, <1>3
    <2>2. ASSUME NEW n \in 2 .. ADDR + 2 * i + 3 PROVE n \in DOMAIN linbuf /\ linbuf[n] \in Hex
      <3>1. n - 1 \in 1 .. N /\ (n - 1) + 1 = n /\ n \in 1 .. L
        BY <1>1, <1>3
      <3> QED
        BY <1>1, <1>2, <3>1
    <2> QED
      BY <2>1, <2>2 DEF Given
  <1>4. ASSUME i \in Given(linbuf), ~(ADDR + 2 * i + 2 <= N) PROVE FALSE
    <2>1. N + 2 \in 2 .. ADDR + 2 * i + 3
      BY <1>1, <1>4
    <2> QED
      BY <1>2, <1>4, <2>1 DEF Given
  <1> QED
    BY <1>3, <1>4 DEF N

\* A part of the line within the numeral.
LEMMA PartOfLine ==
  ASSUME CompleteLine, NEW a \in Nat \ {0}, NEW b \in Nat, a <= b, b <= Len(Numeral)
  PROVE  /\ SubSeq(linbuf, a + 1, b + 1) \in Seq(Hex)
         /\ SubSeq(linbuf, a + 1, b + 1) = SubSeq(Numeral, a, b)
         /\ Len(SubSeq(Numeral, a, b)) = b - a + 1
         /\ \A k \in 1 .. b - a + 1 : SubSeq(Numeral, a, b)[k] = Numeral[a + k - 1]
  <1> DEFINE N == Len(Numeral)
             L == Len(linbuf)
             s == SubSeq(linbuf, a + 1, b + 1)
             t == SubSeq(Numeral, a, b)
  <1>1. N \in Nat /\ L \in Nat /\ N <= L - 2 /\ b <= N /\ Numeral \in Seq(Hex)
    BY NumeralIs DEF CompleteLine
  <1>2. \A k \in a .. b : Numeral[k] \in Hex /\ Numeral[k] = linbuf[k + 1]
    BY <1>1, NumeralIs, ElementOfSeq
  <1>0. N = Len(Numeral) /\ L = Len(linbuf)
    OBVIOUS
  <1> HIDE DEF N, L
  <1>3. t \in Seq(Hex) /\ Len(t) = b - a + 1 /\ \A k \in 1 .. b - a + 1 : t[k] = Numeral[a + k - 1]
    <2>1. \A k \in a .. b : Numeral[k] \in Hex
      BY <1>2
    <2> QED
      BY <1>0, <1>1, <2>1, SubSeqProperties
  <1>4. s \in Seq(Hex) /\ Len(s) = b - a + 1 /\ \A k \in 1 .. b - a + 1 : s[k] = linbuf[a + k]
    <2>1. \A k \in a + 1 .. b + 1 : linbuf[k] \in Hex
      <3>1. \A k \in a + 1 .. b + 1 : k - 1 \in a .. b /\ (k - 1) + 1 = k
        OBVIOUS
      <3> QED
        BY <1>2, <3>1
    <2>2. linbuf \in Seq(Char) /\ a + 1 \in Int /\ b + 1 \in Int
      BY DEF CompleteLine
    <2>3. s \in Seq(Hex) /\ Len(s) = (b + 1) - (a + 1) + 1
          /\ \A k \in 1 .. (b + 1) - (a + 1) + 1 : s[k] = linbuf[(a + 1) + k - 1]
      BY <2>1, <2>2, SubSeqProperties
    <2>4. (b + 1) - (a + 1) + 1 = b - a + 1 /\ \A k \in Nat : (a + 1) + k - 1 = a + k
      OBVIOUS
    <2> HIDE DEF s
    <2>5. ASSUME NEW k \in 1 .. b - a + 1 PROVE s[k] = linbuf[a + k]
      <3>1. k \in Nat /\ k \in 1 .. (b + 1) - (a + 1) + 1 /\ (a + 1) + k - 1 = a + k
        OBVIOUS
      <3>2. s[k] = linbuf[(a + 1) + k - 1]
        BY <2>3, <3>1
      <3> QED
        BY <3>1, <3>2
    <2>6. Len(s) = b - a + 1
      BY <2>3, <2>4
    <2> QED
      BY <2>3, <2>5, <2>6
  <1> HIDE DEF s, t
  <1>5. \A k \in 1 .. b - a + 1 : s[k] = t[k]
    <2>1. \A k \in 1 .. b - a + 1 : a + k - 1 \in a .. b /\ (a + k - 1) + 1 = a + k
      OBVIOUS
    <2> QED
      BY <1>2, <1>3, <1>4, <2>1
  <1>6. s = t
    BY <1>3, <1>4, <1>5, SeqEqual
  <1> QED
    BY <1>3, <1>4, <1>6 DEF s, t

Target == Value(SubSeq(Numeral, 1, ADDR))

\* The address of byte i of a load line follows that of the byte before.
LEMMA AddressOfIs ==
  ASSUME CompleteLine, ADDR <= Len(Numeral)
  PROVE  /\ Target \in Address /\ AddressOf(linbuf, 0) = Target
         /\ \A i \in Nat : /\ AddressOf(linbuf, i) \in Address
                           /\ (AddressOf(linbuf, i) + 1) % Power[ADDR] = AddressOf(linbuf, i + 1)
  <1>1. ADDR \in Nat \ {0} /\ 1 \in Nat \ {0} /\ 1 <= ADDR
    BY Sizes
  <1>2. /\ SubSeq(linbuf, 2, ADDR + 1) = SubSeq(Numeral, 1, ADDR)
        /\ SubSeq(Numeral, 1, ADDR) \in Seq(Hex)
        /\ Len(SubSeq(Numeral, 1, ADDR)) = ADDR
    <2>1. 1 + 1 = 2 /\ ADDR - 1 + 1 = ADDR
      BY <1>1
    <2>2. /\ SubSeq(linbuf, 1 + 1, ADDR + 1) = SubSeq(Numeral, 1, ADDR)
          /\ SubSeq(linbuf, 1 + 1, ADDR + 1) \in Seq(Hex)
          /\ Len(SubSeq(Numeral, 1, ADDR)) = ADDR - 1 + 1
      BY <1>1, PartOfLine
    <2> QED
      BY <2>1, <2>2
  <1>3. Target \in Address
    BY <1>1, <1>2, AddressValue DEF Target
  <1>4. \A i : AddressOf(linbuf, i) = (Target + i) % Power[ADDR]
    BY <1>2 DEF AddressOf, Target
  <1>5. Power[ADDR] \in Nat \ {0}
    BY PowerSteps, Sizes
  <1>6. Target \in Nat /\ Target < Power[ADDR]
    BY <1>3, <1>5 DEF Address
  <1>7. AddressOf(linbuf, 0) = Target
    <2>1. (Target + 0) % Power[ADDR] = Target
      BY <1>5, <1>6
    <2> QED
      BY <1>4, <2>1
  <1>8. ASSUME NEW i \in Nat
        PROVE  /\ AddressOf(linbuf, i) \in Address
               /\ (AddressOf(linbuf, i) + 1) % Power[ADDR] = AddressOf(linbuf, i + 1)
    <2>1. Target + i \in Nat /\ (Target + i) + 1 = Target + (i + 1)
      BY <1>6
    <2> QED
      BY <1>4, <2>1, NextAddress
  <1> QED
    BY <1>3, <1>7, <1>8

\* A byte is its two nybbles.
LEMMA ByteOfIs ==
  ASSUME CompleteLine, NEW i \in Nat, ADDR + 2 * i + 2 <= Len(Numeral)
  PROVE  /\ ByteOf(linbuf, i) \in Byte
         /\ ByteOf(linbuf, i) = hexnum(Numeral[ADDR + 2 * i + 1]) * RADIX + hexnum(Numeral[ADDR + 2 * i + 2])
  <1> DEFINE a == ADDR + 2 * i + 1
             b == ADDR + 2 * i + 2
             t == SubSeq(Numeral, a, b)
  <1>1. a \in Nat \ {0} /\ b \in Nat /\ a <= b /\ b <= Len(Numeral) /\ b = a + 1 /\ b - a + 1 = 2
        /\ a + 1 = ADDR + 2 + 2 * i /\ b + 1 = ADDR + 3 + 2 * i
        /\ a + 1 - 1 = a /\ a + 2 - 1 = b
    BY Sizes, NumeralIs
  <1> HIDE DEF a, b
  <1>2. /\ SubSeq(linbuf, a + 1, b + 1) = t /\ t \in Seq(Hex)
        /\ Len(t) = 2 /\ \A k \in 1 .. 2 : t[k] = Numeral[a + k - 1]
    BY <1>1, PartOfLine
  <1>3. t[1] = Numeral[a] /\ t[2] = Numeral[b]
    <2>1. 1 \in 1 .. 2 /\ 2 \in 1 .. 2
      OBVIOUS
    <2> QED
      BY <1>1, <1>2, <2>1
  <1>4. ByteOf(linbuf, i) = Value(t)
    BY <1>1, <1>2 DEF ByteOf
  <1> HIDE DEF t
  <1>5. Value(t) = hexnum(t[1]) * RADIX + hexnum(t[2])
    BY <1>2, ByteValue
  <1>6. hexnum(t[1]) \in 0 .. RADIX - 1 /\ hexnum(t[2]) \in 0 .. RADIX - 1
    <2>1. 1 \in 1 .. 2 /\ 2 \in 1 .. 2
      OBVIOUS
    <2> QED
      BY <1>2, <2>1, ElementOfSeq, DigitValue
  <1>7. Value(t) \in Byte
    BY <1>5, <1>6, NybblesFit
  <1> QED
    BY <1>3, <1>4, <1>5, <1>7 DEF a, b

-----------------------------------------------------------------------------
(* What a load line stores *)

Storing == [mem : [Address -> Nat], half : BOOLEAN, adr : Address]

\* Store, one field at a time.
LEMMA StoreIs ==
  ASSUME NEW s \in Storing, NEW c \in Hex
  PROVE  /\ Store(s, c) \in Storing
         /\ s.half => /\ Store(s, c).mem = [s.mem EXCEPT ![s.adr] = s.mem[s.adr] + hexnum(c)]
                      /\ ~Store(s, c).half /\ Store(s, c).adr = (s.adr + 1) % Power[ADDR]
         /\ ~s.half => /\ Store(s, c).mem = [s.mem EXCEPT ![s.adr] = hexnum(c) * RADIX]
                       /\ Store(s, c).half /\ Store(s, c).adr = s.adr
  <1>1. /\ s.mem \in [Address -> Nat] /\ s.half \in BOOLEAN /\ s.adr \in Address
        /\ s = [mem |-> s.mem, half |-> s.half, adr |-> s.adr]
    BY DEF Storing
  <1>2. hexnum(c) \in Nat /\ hexnum(c) * RADIX \in Nat
    <2>1. hexnum(c) \in 0 .. RADIX - 1 /\ RADIX \in Nat
      BY DigitValue, Sizes
    <2> QED
      BY <2>1
  <1>3. s.mem[s.adr] + hexnum(c) \in Nat
    BY <1>1, <1>2
  <1>4. (s.adr + 1) % Power[ADDR] \in Address
    <2>1. Power[ADDR] \in Nat
      BY PowerSteps, Sizes
    <2>2. s.adr + 1 \in Nat
      BY <1>1, <2>1 DEF Address
    <2> QED
      BY <2>2, NextAddress
  <1> DEFINE lowmem  == [s.mem EXCEPT ![s.adr] = s.mem[s.adr] + hexnum(c)]
             highmem == [s.mem EXCEPT ![s.adr] = hexnum(c) * RADIX]
             next    == (s.adr + 1) % Power[ADDR]
             low     == [mem |-> lowmem, half |-> FALSE, adr |-> next]
             high    == [mem |-> highmem, half |-> TRUE, adr |-> s.adr]
  <1>5. s.half => Store(s, c) = low
    BY <1>1 DEF Store
  <1>6. ~s.half => Store(s, c) = high
    BY <1>1 DEF Store
  <1>7. lowmem \in [Address -> Nat] /\ highmem \in [Address -> Nat] /\ next \in Address
    BY <1>1, <1>2, <1>3, <1>4
  <1> SUFFICES /\ Store(s, c) \in Storing
               /\ s.half => Store(s, c).mem = lowmem /\ ~Store(s, c).half /\ Store(s, c).adr = next
               /\ ~s.half => Store(s, c).mem = highmem /\ Store(s, c).half /\ Store(s, c).adr = s.adr
    OBVIOUS
  <1> HIDE DEF lowmem, highmem, next
  <1>8. low \in Storing /\ high \in Storing
    BY <1>1, <1>7 DEF Storing
  <1>9. /\ low.mem = lowmem /\ ~low.half /\ low.adr = next
        /\ high.mem = highmem /\ high.half /\ high.adr = s.adr
    OBVIOUS
  <1> HIDE DEF low, high
  <1> QED
    BY <1>1, <1>5, <1>6, <1>8, <1>9, Zenon

\* The cell a after m bytes of the line: the last of them that is for it, or
\* what memory held.
Cell(a, v, m) ==
  \/ \E j \in 0 .. m - 1 : /\ a = AddressOf(linbuf, j) /\ v = ByteOf(linbuf, j)
                           /\ \A i \in j + 1 .. m - 1 : a # AddressOf(linbuf, i)
  \/ v = mem[a] /\ \A i \in 0 .. m - 1 : a # AddressOf(linbuf, i)

\* n digits are m bytes, and perhaps a high nybble.
AfterDigits(s, n, m) ==
  /\ s.half \in BOOLEAN /\ n = 2 * m + (IF s.half THEN 1 ELSE 0)
  /\ s.mem \in [Address -> Byte]
  /\ \A a \in Address : ~(s.half /\ a = AddressOf(linbuf, m)) => Cell(a, s.mem[a], m)
  /\ s.half => s.mem[AddressOf(linbuf, m)] = hexnum(linbuf[ADDR + 2 + 2 * m]) * RADIX

\* Each digit of the data is stored as the line says.
LEMMA StoreDigit ==
  ASSUME CompleteLine, mem \in [Address -> Byte], NEW n \in Nat, ADDR + n + 1 <= Len(Numeral),
         NEW s \in Storing, NEW m \in Nat, AfterDigits(s, n, m), s.adr = AddressOf(linbuf, m)
  PROVE  \E k \in Nat : LET t == Store(s, Numeral[ADDR + n + 1])
                        IN AfterDigits(t, n + 1, k) /\ t.adr = AddressOf(linbuf, k)
  <1> DEFINE c == Numeral[ADDR + n + 1]
             t == Store(s, c)
             b == AddressOf(linbuf, m)
  <1>1. c \in Hex /\ c = linbuf[ADDR + n + 2]
    <2>1. ADDR + n + 1 \in 1 .. Len(Numeral) /\ (ADDR + n + 1) + 1 = ADDR + n + 2
      BY Sizes, NumeralIs
    <2> QED
      BY <2>1, NumeralIs, ElementOfSeq
  <1>2. ADDR <= Len(Numeral) /\ b \in Address /\ (b + 1) % Power[ADDR] = AddressOf(linbuf, m + 1)
    <2>1. ADDR <= Len(Numeral)
      BY Sizes, NumeralIs
    <2> QED
      BY <2>1, AddressOfIs
  <1> HIDE DEF c
  <1>3. /\ t \in Storing
        /\ s.half => /\ t.mem = [s.mem EXCEPT ![b] = s.mem[b] + hexnum(c)]
                     /\ ~t.half /\ t.adr = AddressOf(linbuf, m + 1)
        /\ ~s.half => t.mem = [s.mem EXCEPT ![b] = hexnum(c) * RADIX] /\ t.half /\ t.adr = b
    <2>1. s.adr = b
      OBVIOUS
    <2>2. /\ Store(s, c) \in Storing
          /\ s.half => /\ Store(s, c).mem = [s.mem EXCEPT ![s.adr] = s.mem[s.adr] + hexnum(c)]
                       /\ ~Store(s, c).half /\ Store(s, c).adr = (s.adr + 1) % Power[ADDR]
          /\ ~s.half => /\ Store(s, c).mem = [s.mem EXCEPT ![s.adr] = hexnum(c) * RADIX]
                        /\ Store(s, c).half /\ Store(s, c).adr = s.adr
      BY <1>1, StoreIs
    <2> HIDE DEF b
    <2> QED
      BY <1>2, <2>1, <2>2
  <1>4. t.half \in BOOLEAN
    BY <1>3 DEF Storing
  <1> HIDE DEF t, b
  <1>5. /\ s.half \in BOOLEAN /\ n = 2 * m + (IF s.half THEN 1 ELSE 0) /\ s.mem \in [Address -> Byte]
        /\ \A a \in Address : ~(s.half /\ a = b) => Cell(a, s.mem[a], m)
        /\ s.half => s.mem[b] = hexnum(linbuf[ADDR + 2 + 2 * m]) * RADIX
    BY DEF AfterDigits, b
  <1>6. CASE s.half
    <2>1. n = 2 * m + 1 /\ n + 1 = 2 * (m + 1) + 0 /\ m + 1 \in Nat /\ ADDR + 2 * m + 2 <= Len(Numeral)
          /\ ADDR + n + 1 = ADDR + 2 * m + 2 /\ ADDR + 2 + 2 * m = (ADDR + 2 * m + 1) + 1
          /\ ADDR + 2 * m + 1 \in 1 .. Len(Numeral)
      BY <1>5, <1>6, Sizes, NumeralIs
    <2>2. ByteOf(linbuf, m) \in Byte /\ ByteOf(linbuf, m) = s.mem[b] + hexnum(c)
      <3>1. ByteOf(linbuf, m) = hexnum(Numeral[ADDR + 2 * m + 1]) * RADIX + hexnum(c)
        BY <2>1, ByteOfIs DEF c
      <3>2. Numeral[ADDR + 2 * m + 1] = linbuf[ADDR + 2 + 2 * m]
        BY <2>1, NumeralIs
      <3> QED
        BY <1>5, <1>6, <2>1, <3>1, <3>2, ByteOfIs
    <2>3. t.mem = [s.mem EXCEPT ![b] = ByteOf(linbuf, m)] /\ ~t.half /\ t.adr = AddressOf(linbuf, m + 1)
      BY <1>3, <1>6, <2>2
    <2>4. t.mem \in [Address -> Byte]
      BY <1>5, <2>2, <2>3
    <2>5. ASSUME NEW a \in Address PROVE Cell(a, t.mem[a], m + 1)
      <3>1. CASE a = b
        <4>1. t.mem[a] = ByteOf(linbuf, m)
          BY <1>5, <2>3, <3>1
        <4>2. m \in 0 .. (m + 1) - 1 /\ \A i \in m + 1 .. (m + 1) - 1 : FALSE
          OBVIOUS
        <4> QED
          BY <3>1, <4>1, <4>2 DEF Cell, b
      <3>2. CASE a # b
        <4>1. t.mem[a] = s.mem[a] /\ Cell(a, s.mem[a], m)
          BY <1>5, <2>3, <3>2
        <4>2. \A i \in Nat : i <= (m + 1) - 1 => i = m \/ i <= m - 1
          OBVIOUS
        <4>3. CASE \E j \in 0 .. m - 1 : /\ a = AddressOf(linbuf, j) /\ s.mem[a] = ByteOf(linbuf, j)
                                        /\ \A i \in j + 1 .. m - 1 : a # AddressOf(linbuf, i)
          <5>1. PICK j \in 0 .. m - 1 : /\ a = AddressOf(linbuf, j) /\ s.mem[a] = ByteOf(linbuf, j)
                                        /\ \A i \in j + 1 .. m - 1 : a # AddressOf(linbuf, i)
            BY <4>3
          <5>2. j \in 0 .. (m + 1) - 1 /\ \A i \in j + 1 .. (m + 1) - 1 : i = m \/ i \in j + 1 .. m - 1
            OBVIOUS
          <5>3. \A i \in j + 1 .. (m + 1) - 1 : a # AddressOf(linbuf, i)
            BY <3>2, <5>1, <5>2 DEF b
          <5> QED
            BY <4>1, <5>1, <5>2, <5>3 DEF Cell
        <4>4. CASE s.mem[a] = mem[a] /\ \A i \in 0 .. m - 1 : a # AddressOf(linbuf, i)
          <5>1. \A i \in 0 .. (m + 1) - 1 : i = m \/ i \in 0 .. m - 1
            OBVIOUS
          <5>2. \A i \in 0 .. (m + 1) - 1 : a # AddressOf(linbuf, i)
            BY <3>2, <4>4, <5>1 DEF b
          <5> QED
            BY <4>1, <4>4, <5>2 DEF Cell
        <4> QED
          BY <4>1, <4>3, <4>4 DEF Cell
      <3> QED
        BY <3>1, <3>2
    <2>6. AfterDigits(t, n + 1, m + 1)
      BY <1>4, <2>1, <2>3, <2>4, <2>5 DEF AfterDigits
    <2> QED
      BY <2>1, <2>3, <2>6 DEF c, t
  <1>7. CASE ~s.half
    <2>1. n = 2 * m /\ n + 1 = 2 * m + 1 /\ ADDR + n + 2 = ADDR + 2 + 2 * m
      BY <1>5, <1>7, Sizes
    <2>2. t.mem = [s.mem EXCEPT ![b] = hexnum(c) * RADIX] /\ t.half /\ t.adr = b
      BY <1>3, <1>7
    <2>3. hexnum(c) * RADIX \in Byte
      <3>1. hexnum(c) \in 0 .. RADIX - 1
        BY <1>1, DigitValue
      <3> QED
        BY <3>1, NybblesFit
    <2>4. t.mem \in [Address -> Byte] /\ t.mem[b] = hexnum(c) * RADIX
      BY <1>2, <1>5, <2>2, <2>3
    <2>5. ASSUME NEW a \in Address, a # b PROVE Cell(a, t.mem[a], m)
      BY <1>5, <1>7, <2>2, <2>5
    <2>6. c = linbuf[ADDR + 2 + 2 * m]
      BY <1>1, <2>1
    <2>7. AfterDigits(t, n + 1, m)
      BY <1>4, <2>1, <2>2, <2>4, <2>5, <2>6 DEF AfterDigits, b
    <2> QED
      BY <2>2, <2>7 DEF c, t, b
  <1> QED
    BY <1>5, <1>6, <1>7

\* What is stored of a complete line: its bytes in their order, and perhaps a
\* high nybble.
LEMMA StoredIs ==
  ASSUME CompleteLine, mem \in [Address -> Byte], ADDR < Len(Numeral)
  PROVE  \E m \in Nat : AfterDigits(Stored, Len(Numeral) - ADDR, m)
  <1> DEFINE N == Len(Numeral)
             data == SubSeq(Numeral, ADDR + 1, N)
             M == Len(data)
             base == [mem |-> mem, half |-> FALSE, adr |-> Target]
             D == Storing
             step == [n \in 1 .. M |-> [s \in D |-> Store(s, data[n])]]
             Is(f) == f = [n \in 0 .. M |-> IF n = 0 THEN base ELSE Store(f[n - 1], data[n])]
             state == CHOOSE f : Is(f)
  <1>1. N \in Nat /\ ADDR \in Nat /\ ADDR < N /\ N = Len(Numeral)
    BY NumeralIs, Sizes
  <1>2. M = N - ADDR /\ \A n \in 1 .. M : data[n] = Numeral[ADDR + n] /\ data[n] \in Hex
    <2> HIDE DEF N
    <2>1. \A k \in ADDR + 1 .. N : Numeral[k] \in Hex
      BY <1>1, NumeralIs, ElementOfSeq
    <2>2. Numeral \in Seq(Hex) /\ ADDR + 1 \in Int /\ N \in Int /\ ADDR + 1 <= N
      BY <1>1, NumeralIs
    <2>3. /\ data \in Seq(Hex) /\ Len(data) = N - (ADDR + 1) + 1
          /\ \A k \in 1 .. N - (ADDR + 1) + 1 : data[k] = Numeral[(ADDR + 1) + k - 1]
      BY <2>1, <2>2, SubSeqProperties
    <2> HIDE DEF data
    <2>4. M = N - ADDR
      BY <1>1, <2>3
    <2> HIDE DEF M
    <2>5. ASSUME NEW n \in 1 .. M PROVE data[n] = Numeral[ADDR + n] /\ data[n] \in Hex
      <3>1. /\ n \in 1 .. N - (ADDR + 1) + 1 /\ (ADDR + 1) + n - 1 = ADDR + n
            /\ ADDR + n \in ADDR + 1 .. N
        BY <1>1, <2>4
      <3> QED
        BY <2>1, <2>3, <3>1
    <2> QED
      BY <2>4, <2>5
  <1>3. Stored = state[M]
    <2>1. ~(Len(Numeral) <= ADDR)
      BY <1>1
    <2>2. Stored = IF Len(Numeral) <= ADDR THEN [mem |-> mem, half |-> FALSE] ELSE state[M]
      BY DEF Stored, Target
    <2> HIDE DEF state, M
    <2> QED
      BY <2>1, <2>2
  <1> HIDE DEF data
  <1>4. base \in Storing
    <2>1. Target \in Address
      BY <1>1, AddressOfIs
    <2>2. mem \in [Address -> Nat]
      <3>1. Byte \subseteq Nat
        BY DEF Byte
      <3> QED
        BY <3>1
    <2> QED
      BY <2>1, <2>2 DEF Storing
  <1>5. M \in Nat
    BY <1>1, <1>2
  <1> HIDE DEF M, N
  <1>6. \A n \in 1 .. M : \A s \in Storing : Store(s, data[n]) \in Storing
    BY <1>2, StoreIs
  <1> HIDE DEF base
  <1>7. PICK f : Steps(f, M, D, base, step)
    <2>1. step \in [1 .. M -> [D -> D]] /\ base \in D
      BY <1>4, <1>6
    <2> HIDE DEF step, D
    <2> QED
      BY <1>5, <2>1, StepsExist
  <1>8. Is(f)
    <2>1. \A n \in 1 .. M : f[n] = Store(f[n - 1], data[n])
      <3>1. \A n \in 1 .. M : f[n - 1] \in D
        BY <1>5, <1>7 DEF Steps
      <3>2. \A n \in 1 .. M : f[n] = step[n][f[n - 1]]
        BY <1>7 DEF Steps
      <3> QED
        BY <3>1, <3>2
    <2>2. f = [n \in 0 .. M |-> f[n]] /\ f[0] = base
      BY <1>7 DEF Steps
    <2>3. \A n \in 0 .. M : f[n] = IF n = 0 THEN base ELSE Store(f[n - 1], data[n])
      BY <1>5, <2>1, <2>2
    <2> QED
      BY <2>2, <2>3
  <1>9. Is(state)
    <2> HIDE DEF Is
    <2> QED
      BY <1>8
  <1>10. state[0] = base /\ \A n \in 1 .. M : state[n] = Store(state[n - 1], data[n])
    <2> HIDE DEF state
    <2> QED
      BY <1>5, <1>9
  <1> HIDE DEF state, step
  <1> DEFINE Good(s, n) == /\ s \in Storing
                           /\ \E m \in Nat : AfterDigits(s, n, m) /\ s.adr = AddressOf(linbuf, m)
             T == {n \in 0 .. M : Good(state[n], n)}
  <1>11. 0 \in T
    <2>1. base.mem = mem /\ ~base.half /\ base.half \in BOOLEAN /\ base.adr = AddressOf(linbuf, 0)
      BY <1>1, AddressOfIs DEF base
    <2>2. 0 = 2 * 0 + 0 /\ \A i \in 0 .. 0 - 1 : FALSE
      OBVIOUS
    <2>3. \A a \in Address : Cell(a, base.mem[a], 0)
      BY <2>1, <2>2 DEF Cell
    <2>4. AfterDigits(base, 0, 0)
      BY <2>1, <2>2, <2>3 DEF AfterDigits
    <2>5. Good(base, 0)
      BY <1>4, <2>1, <2>4
    <2> HIDE DEF Good
    <2> QED
      BY <1>5, <1>10, <2>5
  <1>12. ASSUME NEW n \in 0 .. M - 1, n \in T PROVE n + 1 \in T
    <2>1. n + 1 \in 1 .. M /\ n + 1 \in 0 .. M /\ (n + 1) - 1 = n /\ n \in Nat
          /\ ADDR + (n + 1) = ADDR + n + 1 /\ ADDR + n + 1 <= Len(Numeral)
      BY <1>1, <1>2, <1>5
    <2>2. state[n + 1] = Store(state[n], Numeral[ADDR + n + 1]) /\ Numeral[ADDR + n + 1] \in Hex
      BY <1>2, <1>10, <2>1
    <2>3. Good(state[n], n)
      BY <1>12
    <2>4. PICK m \in Nat : AfterDigits(state[n], n, m) /\ state[n].adr = AddressOf(linbuf, m)
      BY <2>3
    <2>5. state[n + 1] \in Storing
      <3>1. state[n] \in Storing
        BY <2>3
      <3>2. \A c \in Hex : Store(state[n], c) \in Storing
        BY <3>1, StoreIs
      <3> QED
        BY <2>2, <3>2
    <2>6. \E k \in Nat : /\ AfterDigits(Store(state[n], Numeral[ADDR + n + 1]), n + 1, k)
                         /\ Store(state[n], Numeral[ADDR + n + 1]).adr = AddressOf(linbuf, k)
      BY <2>1, <2>3, <2>4, StoreDigit
    <2>7. Good(state[n + 1], n + 1)
      BY <2>2, <2>5, <2>6
    <2> HIDE DEF Good
    <2> QED
      BY <2>1, <2>7
  <1>13. M \in T
    <2> HIDE DEF T
    <2>1. 0 .. M \subseteq T
      BY <1>5, <1>11, <1>12, UpTo
    <2> QED
      BY <1>5, <2>1
  <1> QED
    BY <1>1, <1>2, <1>3, <1>13

\* Of a short numeral, nothing is.
LEMMA NothingStored ==
  ASSUME Len(Numeral) <= ADDR
  PROVE  Stored = [mem |-> mem, half |-> FALSE]
  BY DEF Stored

\* Memory stays memory.
LEMMA StoredMem ==
  ASSUME CompleteLine, mem \in [Address -> Byte]
  PROVE  Stored.mem \in [Address -> Byte] /\ Stored.half \in BOOLEAN
  <1>1. CASE Len(Numeral) <= ADDR
    <2>1. Stored = [mem |-> mem, half |-> FALSE]
      BY <1>1, NothingStored
    <2>2. Stored.mem = mem /\ Stored.half = FALSE
      BY <2>1
    <2> QED
      BY <2>2
  <1>2. CASE ~(Len(Numeral) <= ADDR)
    <2>1. ADDR < Len(Numeral)
      BY <1>2, NumeralIs, Sizes
    <2> QED
      BY <2>1, StoredIs DEF AfterDigits
  <1> QED
    BY <1>1, <1>2

\* A byte changes to one that the line gives, or to a high nybble.
LEMMA DoloadChanges ==
  ASSUME CompleteLine, Len(linbuf) < LINSIZ, mem \in [Address -> Byte], doload
  PROVE  ChangesAreOfLine
  <1> SUFFICES ASSUME NEW a \in Address, mem'[a] # mem[a]
               PROVE  \E i \in 0 .. LINSIZ :
                        /\ a = AddressOf(linbuf, i)
                        /\ \/ i \in Given(linbuf) /\ mem'[a] = ByteOf(linbuf, i)
                           \/ /\ i \notin Given(linbuf) /\ (i = 0 \/ i - 1 \in Given(linbuf))
                              /\ out' = <<Report, NL>>
                              /\ mem'[a] = hexnum(linbuf[ADDR + 2 + 2 * i]) * RADIX
    BY DEF ChangesAreOfLine
  <1> DEFINE N == Len(Numeral)
  <1>1. mem' = Stored.mem /\ (Stored.half => out' = <<Report, NL>>)
    BY DEF doload, Say
  <1>2. /\ N \in Nat /\ N <= Len(linbuf) - 2 /\ ADDR \in Nat /\ LINSIZ \in Nat /\ Len(linbuf) \in Nat
        /\ N = Len(Numeral) /\ Len(linbuf) < LINSIZ
    BY NumeralIs, Sizes DEF CompleteLine
  <1> HIDE DEF N
  <1>3. ADDR < N
    <2> SUFFICES ASSUME ~(ADDR < N) PROVE FALSE
      OBVIOUS
    <2>1. Stored = [mem |-> mem, half |-> FALSE]
      BY <1>2, NothingStored
    <2> QED
      BY <1>1, <2>1
  <1>4. PICK m \in Nat : AfterDigits(Stored, N - ADDR, m)
    BY <1>2, <1>3, StoredIs
  <1>5. /\ Stored.half \in BOOLEAN /\ N - ADDR = 2 * m + (IF Stored.half THEN 1 ELSE 0)
        /\ ~(Stored.half /\ a = AddressOf(linbuf, m)) => Cell(a, mem'[a], m)
        /\ Stored.half => mem'[AddressOf(linbuf, m)] = hexnum(linbuf[ADDR + 2 + 2 * m]) * RADIX
    BY <1>1, <1>4 DEF AfterDigits
  <1>6. CASE Stored.half /\ a = AddressOf(linbuf, m)
    <2>1. /\ N = ADDR + 2 * m + 1 /\ m \in 0 .. LINSIZ /\ ~(ADDR + 2 * m + 2 <= N)
          /\ m # 0 => m - 1 \in Nat /\ ADDR + 2 * (m - 1) + 2 <= N
      BY <1>2, <1>5, <1>6
    <2>2. m \notin Given(linbuf) /\ (m = 0 \/ m - 1 \in Given(linbuf))
      BY <1>2, <2>1, GivenIs
    <2> QED
      BY <1>1, <1>5, <1>6, <2>1, <2>2
  <1>7. CASE ~(Stored.half /\ a = AddressOf(linbuf, m))
    <2>1. PICK j \in 0 .. m - 1 : a = AddressOf(linbuf, j) /\ mem'[a] = ByteOf(linbuf, j)
      BY <1>5, <1>7 DEF Cell
    <2>2. j \in Nat /\ ADDR + 2 * j + 2 <= N /\ j \in 0 .. LINSIZ
      BY <1>2, <1>5
    <2>3. j \in Given(linbuf)
      BY <1>2, <2>2, GivenIs
    <2> QED
      BY <2>1, <2>2, <2>3
  <1> QED
    BY <1>6, <1>7

-----------------------------------------------------------------------------
(* Parts of a sequence *)

\* The part from place a to place b.
LEMMA PartIs ==
  ASSUME NEW S, NEW q \in Seq(S), NEW a \in 1 .. Len(q) + 1, NEW b \in a - 1 .. Len(q)
  PROVE  /\ SubSeq(q, a, b) \in Seq(S) /\ Len(SubSeq(q, a, b)) = b - a + 1
         /\ \A k \in 1 .. b - a + 1 : SubSeq(q, a, b)[k] = q[a + k - 1]
         /\ \A j \in a .. b : j - a + 1 \in 1 .. b - a + 1 /\ SubSeq(q, a, b)[j - a + 1] = q[j]
  <1>1. Len(q) \in Nat /\ \A k \in a .. b : q[k] \in S
    <2>1. Len(q) \in Nat /\ \A k \in 1 .. Len(q) : q[k] \in S
      BY LenProperties, ElementOfSeq
    <2> QED
      BY <2>1
  <1> DEFINE t == SubSeq(q, a, b)
  <1>2. /\ t \in Seq(S) /\ Len(t) = (IF a <= b THEN b - a + 1 ELSE 0)
        /\ \A k \in 1 .. b - a + 1 : t[k] = q[a + k - 1]
    BY <1>1, SubSeqProperties
  <1> HIDE DEF t
  <1>3. Len(t) = b - a + 1
    BY <1>1, <1>2
  <1>4. ASSUME NEW j \in a .. b PROVE j - a + 1 \in 1 .. b - a + 1 /\ t[j - a + 1] = q[j]
    <2>1. j - a + 1 \in 1 .. b - a + 1 /\ a + (j - a + 1) - 1 = j
      BY <1>1
    <2> QED
      BY <1>2, <2>1
  <1> QED
    BY <1>2, <1>3, <1>4 DEF t

LEMMA PartEmpty ==
  ASSUME NEW S, NEW q \in Seq(S), NEW a \in 1 .. Len(q) + 1, NEW b \in a - 1 .. Len(q)
  PROVE  SubSeq(q, a, b) = <<>> <=> b = a - 1
  <1>1. Len(q) \in Nat
    OBVIOUS
  <1>2. SubSeq(q, a, b) \in Seq(S) /\ Len(SubSeq(q, a, b)) = b - a + 1
    BY PartIs
  <1> HIDE <1>2
  <1>3. SubSeq(q, a, b) = <<>> => b = a - 1
    <2>1. Len(<<>>) = 0
      OBVIOUS
    <2> QED
      BY <1>1, <1>2, <2>1
  <1>4. b = a - 1 => SubSeq(q, a, b) = <<>>
    <2>1. a \in Int /\ a - 1 \in Int /\ a - 1 < a
      BY <1>1
    <2> QED
      BY <2>1, SubSeqEmpty
  <1> QED
    BY <1>3, <1>4

\* A part grows by the character that follows it.
LEMMA PartLonger ==
  ASSUME NEW S, NEW q \in Seq(S), NEW a \in 1 .. Len(q), NEW b \in a - 1 .. Len(q) - 1
  PROVE  Append(SubSeq(q, a, b), q[b + 1]) = SubSeq(q, a, b + 1)
  <1>1. Len(q) \in Nat
    OBVIOUS
  <1>2. b + 1 \in a .. Len(q) /\ (b + 1) - 1 = b /\ a \in 1 .. Len(q) + 1 /\ b \in a - 1 .. Len(q)
        /\ b + 1 \in 1 .. Len(q)
    BY <1>1
  <1>3. SubSeq(q, a, b + 1) = SubSeq(q, a, b) \o <<q[b + 1]>>
    BY <1>2, SubSeqRecursiveSecond
  <1>4. SubSeq(q, a, b) \in Seq(S) /\ q[b + 1] \in S
    BY <1>2, PartIs, ElementOfSeq
  <1> QED
    BY <1>3, <1>4, AppendIsConcat

\* A part begins with its first character and goes on after it.
LEMMA PartShorter ==
  ASSUME NEW S, NEW q \in Seq(S), NEW a \in 1 .. Len(q), NEW b \in a .. Len(q)
  PROVE  /\ SubSeq(q, a, b) # <<>> /\ Head(SubSeq(q, a, b)) = q[a]
         /\ Tail(SubSeq(q, a, b)) = SubSeq(q, a + 1, b)
  <1>1. Len(q) \in Nat
    OBVIOUS
  <1>2. a \in 1 .. Len(q) + 1 /\ b \in a - 1 .. Len(q) /\ b # a - 1
    BY <1>1
  <1>3. SubSeq(q, a, b) # <<>>
    BY <1>2, PartEmpty
  <1> QED
    BY <1>3, HeadTailOfSubSeq

-----------------------------------------------------------------------------
(* The lines of the file *)

LEMMA FileIs ==
  ASSUME file \in Files
  PROVE  file \in Seq(Char) /\ Len(file) \in Nat /\ DOMAIN file = 1 .. Len(file)
  <1>1. file \in Seq(Char)
    BY TerminalsAssumption
  <1> QED
    BY <1>1, LenProperties

\* The line that starts at k ends at e.
EndsAt(k, e) ==
  /\ e \in k .. Len(file)
  /\ e = Len(file) \/ file[e] = NL
  /\ \A j \in k .. e - 1 : file[j] # NL

\* Each line has one end.
LEMMA OneEnd ==
  ASSUME file \in Files, NEW k \in 1 .. Len(file)
  PROVE  /\ \E e : EndsAt(k, e)
         /\ \A e, d : EndsAt(k, e) /\ EndsAt(k, d) => e = d
  <1>1. Len(file) \in Nat
    BY FileIs
  <1> DEFINE T == {e \in k .. Len(file) : e = Len(file) \/ file[e] = NL}
  <1>2. PICK e \in T : \A d \in T : e <= d
    <2>1. T \in SUBSET Nat /\ Len(file) \in T
      BY <1>1
    <2> HIDE DEF T
    <2> QED
      BY <2>1, LeastNat
  <1>3. ASSUME NEW j \in k .. e - 1 PROVE file[j] # NL
    <2>1. j \in k .. Len(file) /\ ~(e <= j)
      BY <1>1, <1>2
    <2>2. j \notin T
      BY <1>2, <2>1
    <2> QED
      BY <2>1, <2>2
  <1>4. EndsAt(k, e)
    BY <1>2, <1>3 DEF EndsAt
  <1>5. ASSUME NEW d, NEW f, EndsAt(k, d), EndsAt(k, f), d < f PROVE FALSE
    <2>1. d \in k .. f - 1 /\ d # Len(file)
      BY <1>1, <1>5 DEF EndsAt
    <2> QED
      BY <1>5, <2>1 DEF EndsAt
  <1>6. ASSUME NEW d, NEW f, EndsAt(k, d), EndsAt(k, f) PROVE d = f
    <2>1. d \in Nat /\ f \in Nat
      BY <1>1, <1>6 DEF EndsAt
    <2>2. ~(d < f) /\ ~(f < d)
      BY <1>5, <1>6
    <2> QED
      BY <2>1, <2>2
  <1> QED
    BY <1>4, <1>6

LEMMA LineIs ==
  ASSUME file \in Files, NEW k \in 1 .. Len(file), NEW e, EndsAt(k, e)
  PROVE  Line(k) = SubSeq(file, k, e)
  <1> DEFINE IsEnd(d) == /\ d = Len(file) \/ file[d] = NL
                         /\ \A j \in k .. d - 1 : file[j] # NL
             end == CHOOSE d \in k .. Len(file) : IsEnd(d)
  <1>1. Line(k) = SubSeq(file, k, end)
    BY DEF Line
  <1>2. e \in k .. Len(file) /\ IsEnd(e)
    BY DEF EndsAt
  <1>3. end \in k .. Len(file) /\ IsEnd(end)
    <2> HIDE DEF IsEnd
    <2> QED
      BY <1>2
  <1>4. EndsAt(k, end)
    <2> HIDE DEF end
    <2> QED
      BY <1>3 DEF EndsAt
  <1> HIDE DEF end
  <1>5. end = e
    BY <1>4, OneEnd
  <1> QED
    BY <1>1, <1>5

\* A start before s lies in a line that ends before s.
LEMMA LineBefore ==
  ASSUME file \in Files, NEW k \in Starts, NEW s \in 1 .. Len(file) + 1, k < s, file[s - 1] = NL
  PROVE  /\ Line(k) \in Seq(Char) /\ Len(Line(k)) \in 1 .. s - k
         /\ \A j \in 1 .. Len(Line(k)) : Line(k)[j] = file[k + j - 1]
  <1>1. Len(file) \in Nat /\ file \in Seq(Char) /\ k \in 1 .. Len(file)
    BY FileIs DEF Starts
  <1>2. PICK e : EndsAt(k, e)
    BY <1>1, OneEnd
  <1>3. e \in k .. Len(file) /\ e <= s - 1
    <2>1. e \in k .. Len(file)
      BY <1>2 DEF EndsAt
    <2>2. ASSUME ~(e <= s - 1) PROVE FALSE
      <3>1. s - 1 \in k .. e - 1
        BY <1>1, <2>1, <2>2
      <3> QED
        BY <1>2, <3>1 DEF EndsAt
    <2> QED
      BY <2>1, <2>2
  <1>4. Line(k) = SubSeq(file, k, e)
    BY <1>1, <1>2, LineIs
  <1>5. k \in 1 .. Len(file) + 1 /\ e \in k - 1 .. Len(file) /\ e - k + 1 \in 1 .. s - k
    BY <1>1, <1>3
  <1>6. /\ Line(k) \in Seq(Char) /\ Len(Line(k)) = e - k + 1
        /\ \A j \in 1 .. e - k + 1 : Line(k)[j] = file[k + j - 1]
    BY <1>1, <1>4, <1>5, PartIs
  <1> QED
    BY <1>5, <1>6

-----------------------------------------------------------------------------
(* The invariant: types, the monitor and the host each by itself *)

Message == Char \cup {Report, Jump}

\* A line is complete when it ends, and not before.
MonitorInv ==
  /\ out \in Seq(Message)
  /\ \A j \in 1 .. Len(linbuf) : linbuf[j] # CR
  /\ mode = "getline" => Len(linbuf) < LINSIZ - 1 /\ \A j \in 1 .. Len(linbuf) : linbuf[j] # NL
  /\ mode = "line" => /\ linbuf # <<>> /\ Ends(linbuf)
                      /\ \A j \in 1 .. Len(linbuf) - 1 : linbuf[j] # NL
  /\ mode = "running" => linbuf = <<>>

\* Nothing of the file is written before the upload; while the echo of a line is
\* awaited nothing of the next line is.
HostInv ==
  /\ host \in {"terminal", "prompt"} /\ verdict # "completed" => pos = 0 /\ got = 0 /\ ~clean
  /\ clean => host # "prompt"
  /\ host \in {"prompt", "upload", "echo", "response"} => verdict = "none"
  /\ host \in {"echo", "response"} => kind = "sync"
  /\ kind # "sync" => got = 0
  /\ verdict = "completed" =>
       host \in {"terminal", "exit"} /\ pos = Len(file) /\ (kind = "sync" => got = pos)
  /\ host = "echo" => got < pos /\ \A j \in got + 1 .. pos - 1 : ~LineEnds(j)
  /\ host = "upload" /\ kind = "sync" => \A j \in got + 1 .. pos : ~LineEnds(j)

Base == TypeOK /\ MonitorInv /\ HostInv

-----------------------------------------------------------------------------
(* The serial line, the monitor *)

\* The line to the board: at most one character more, and that one if no fault came.
LEMMA CarryDown ==
  ASSUME TypeOK, NEW c \in Char, PutCom(c)
  PROVE  /\ toBoard' \in Seq(Char) /\ Len(toBoard') \in Len(toBoard) .. Len(toBoard) + 1
         /\ Len(toBoard') <= BOARDBUF /\ toHost' = toHost
         /\ faults' \in [{"down", "up"} -> 0 .. MaxFaults] /\ faults'.up = faults.up
         /\ faults'.down = 0 => faults.down = 0 /\ toBoard' = Append(toBoard, c)
  <1>1. /\ toBoard \in Seq(Char) /\ Len(toBoard) < BOARDBUF /\ toHost' = toHost
        /\ Carry(toBoard, c, "down") /\ faults \in [{"down", "up"} -> 0 .. MaxFaults]
        /\ Len(toBoard) \in Nat /\ BOARDBUF \in Nat /\ MaxFaults \in Nat
    BY TerminalsAssumption, LenProperties DEF PutCom, TypeOK
  <1>2. /\ toBoard' = toBoard \/ \E d \in Char : toBoard' = Append(toBoard, d)
        /\ \/ faults' = faults /\ toBoard' = Append(toBoard, c)
           \/ faults.down < MaxFaults /\ faults' = [faults EXCEPT !["down"] = @ + 1]
    BY <1>1, TerminalsAssumption DEF Carry
  <1>3. \A d \in Char : Append(toBoard, d) \in Seq(Char) /\ Len(Append(toBoard, d)) = Len(toBoard) + 1
    BY <1>1, AppendProperties
  <1>4. toBoard' \in Seq(Char) /\ Len(toBoard') \in Len(toBoard) .. Len(toBoard) + 1
        /\ Len(toBoard') <= BOARDBUF
    <2>1. CASE toBoard' = toBoard
      BY <1>1, <2>1
    <2>2. CASE \E d \in Char : toBoard' = Append(toBoard, d)
      <3>1. toBoard' \in Seq(Char) /\ Len(toBoard') = Len(toBoard) + 1
        BY <1>3, <2>2
      <3> QED
        BY <1>1, <3>1
    <2> QED
      BY <1>2, <2>1, <2>2
  <1>5. /\ faults' \in [{"down", "up"} -> 0 .. MaxFaults] /\ faults'.up = faults.up
        /\ faults'.down = 0 => faults.down = 0 /\ toBoard' = Append(toBoard, c)
    <2>1. CASE faults' = faults /\ toBoard' = Append(toBoard, c)
      BY <1>1, <2>1
    <2>2. CASE faults.down < MaxFaults /\ faults' = [faults EXCEPT !["down"] = @ + 1]
      BY <1>1, <2>2
    <2> QED
      BY <1>2, <2>1, <2>2
  <1> QED
    BY <1>1, <1>4, <1>5

\* The line to the host, likewise.
LEMMA CarryUp ==
  ASSUME TypeOK, MonitorInv, Putchr
  PROVE  /\ out # <<>> /\ Head(out) \in Message /\ out' = Tail(out) /\ out' \in Seq(Message)
         /\ Len(out') = Len(out) - 1
         /\ toHost' \in Seq(Message) /\ Len(toHost') \in Len(toHost) .. Len(toHost) + 1
         /\ Len(toHost') <= HOSTBUF /\ toBoard' = toBoard
         /\ faults' \in [{"down", "up"} -> 0 .. MaxFaults] /\ faults'.down = faults.down
         /\ faults'.up = 0 => faults.up = 0 /\ toHost' = Append(toHost, Head(out))
  <1>1. /\ out \in Seq(Message) /\ out # <<>> /\ out' = Tail(out) /\ toBoard' = toBoard
        /\ toHost \in Seq(Message) /\ Len(toHost) < HOSTBUF
        /\ Carry(toHost, Head(out), "up") /\ faults \in [{"down", "up"} -> 0 .. MaxFaults]
        /\ Len(toHost) \in Nat /\ HOSTBUF \in Nat /\ MaxFaults \in Nat /\ Noise \subseteq Message
    BY TerminalsAssumption, LenProperties DEF Putchr, TypeOK, MonitorInv, Message
  <1>0. Head(out) \in Message /\ out' \in Seq(Message) /\ Len(out') = Len(out) - 1
    BY <1>1, HeadTailProperties
  <1>2. /\ toHost' = toHost \/ \E d \in Message : toHost' = Append(toHost, d)
        /\ \/ faults' = faults /\ toHost' = Append(toHost, Head(out))
           \/ faults.up < MaxFaults /\ faults' = [faults EXCEPT !["up"] = @ + 1]
    BY <1>0, <1>1 DEF Carry
  <1>3. \A d \in Message :
          Append(toHost, d) \in Seq(Message) /\ Len(Append(toHost, d)) = Len(toHost) + 1
    BY <1>1, AppendProperties
  <1>4. toHost' \in Seq(Message) /\ Len(toHost') \in Len(toHost) .. Len(toHost) + 1
        /\ Len(toHost') <= HOSTBUF
    <2>1. CASE toHost' = toHost
      BY <1>1, <2>1
    <2>2. CASE \E d \in Message : toHost' = Append(toHost, d)
      <3>1. toHost' \in Seq(Message) /\ Len(toHost') = Len(toHost) + 1
        BY <1>3, <2>2
      <3> QED
        BY <1>1, <3>1
    <2> QED
      BY <1>2, <2>1, <2>2
  <1>5. /\ faults' \in [{"down", "up"} -> 0 .. MaxFaults] /\ faults'.down = faults.down
        /\ faults'.up = 0 => faults.up = 0 /\ toHost' = Append(toHost, Head(out))
    <2>1. CASE faults' = faults /\ toHost' = Append(toHost, Head(out))
      BY <1>1, <2>1
    <2>2. CASE faults.up < MaxFaults /\ faults' = [faults EXCEPT !["up"] = @ + 1]
      BY <1>1, <2>2
    <2> QED
      BY <1>2, <2>1, <2>2
  <1> QED
    BY <1>0, <1>1, <1>4, <1>5

\* What the board takes from its buffer.
LEMMA Taken ==
  ASSUME TypeOK, toBoard # <<>>, toBoard' = Tail(toBoard)
  PROVE  /\ Head(toBoard) \in Char /\ toBoard' \in Seq(Char)
         /\ Len(toBoard) \in 1 .. BOARDBUF /\ Len(toBoard') = Len(toBoard) - 1
  <1>1. toBoard \in Seq(Char) /\ Len(toBoard) <= BOARDBUF /\ BOARDBUF \in Nat
    BY TerminalsAssumption DEF TypeOK
  <1>2. Head(toBoard) \in Char /\ toBoard' \in Seq(Char) /\ Len(toBoard') = Len(toBoard) - 1
    BY <1>1, HeadTailProperties
  <1>3. Len(toBoard) \in Nat \ {0}
    BY <1>1, EmptySeq
  <1> QED
    BY <1>1, <1>2, <1>3

\* What the host takes from its buffer.
LEMMA HeardIs ==
  ASSUME TypeOK, Heard
  PROVE  /\ toHost' \in Seq(Message) /\ Len(toHost) \in 1 .. HOSTBUF
         /\ Len(toHost') = Len(toHost) - 1 /\ toHost # <<>> /\ toHost' = Tail(toHost)
         /\ toBoard' = toBoard /\ faults' = faults
  <1>1. /\ toHost \in Seq(Message) /\ Len(toHost) <= HOSTBUF /\ HOSTBUF \in Nat
        /\ toHost # <<>> /\ toHost' = Tail(toHost) /\ toBoard' = toBoard /\ faults' = faults
    BY TerminalsAssumption DEF TypeOK, Heard, Message
  <1>2. toHost' \in Seq(Message) /\ Len(toHost') = Len(toHost) - 1
    BY <1>1, HeadTailProperties
  <1>3. Len(toHost) \in Nat \ {0}
    BY <1>1, EmptySeq
  <1> QED
    BY <1>1, <1>2, <1>3

-----------------------------------------------------------------------------
(* The board's steps keep its own part of the invariant *)

\* getline keeps its character, and completes the line at its end.
LEMMA GetlineIs ==
  ASSUME TypeOK, MonitorInv, NEW c \in Char, Getline(c)
  PROVE  /\ getchr(c) \in Char /\ getchr(c) # CR
         /\ linbuf \in Seq(Char) /\ linbuf' \in Seq(Char) /\ Len(linbuf') = Len(linbuf) + 1
         /\ Len(linbuf') < LINSIZ
         /\ \A j \in 1 .. Len(linbuf) : linbuf'[j] = linbuf[j]
         /\ linbuf'[Len(linbuf) + 1] = getchr(c)
         /\ MonitorInv' /\ MonitorTypeOK'
  <1>1. /\ mode = "getline" /\ out' = <<getchr(c)>> /\ linbuf' = Append(linbuf, getchr(c))
        /\ mode' = (IF Ends(linbuf') THEN "line" ELSE "getline") /\ mem' = mem
    BY DEF Getline
  <1>2. /\ linbuf \in Seq(Char) /\ mem \in [Address -> Byte] /\ Len(linbuf) < LINSIZ - 1
        /\ \A j \in 1 .. Len(linbuf) : linbuf[j] # CR /\ linbuf[j] # NL
        /\ LINSIZ \in Nat /\ Len(linbuf) \in Nat
    BY <1>1, Sizes, LenProperties DEF TypeOK, MonitorTypeOK, MonitorInv
  <1>3. getchr(c) \in Char /\ getchr(c) # CR
    BY Tokens DEF getchr
  <1> HIDE DEF Ends
  <1>4. /\ linbuf' \in Seq(Char) /\ linbuf' # <<>> /\ Len(linbuf') = Len(linbuf) + 1
        /\ \A j \in 1 .. Len(linbuf) : linbuf'[j] = linbuf[j]
        /\ linbuf'[Len(linbuf) + 1] = getchr(c)
    BY <1>1, <1>2, <1>3, AppendProperties
  <1>5. \A j \in 1 .. Len(linbuf') : j \in 1 .. Len(linbuf) \/ j = Len(linbuf) + 1
    BY <1>2, <1>4
  <1>6. Len(linbuf') - 1 = Len(linbuf) /\ Len(linbuf') < LINSIZ
    BY <1>2, <1>4
  <1>7. out' \in Seq(Message)
    BY <1>1, <1>3 DEF Message
  <1>8. \A j \in 1 .. Len(linbuf') : linbuf'[j] # CR
    BY <1>2, <1>3, <1>4, <1>5
  <1>9. CASE Ends(linbuf')
    <2>1. mode' = "line" /\ \A j \in 1 .. Len(linbuf') - 1 : linbuf'[j] # NL
      BY <1>1, <1>2, <1>4, <1>6, <1>9
    <2> QED
      BY <1>1, <1>2, <1>3, <1>4, <1>6, <1>7, <1>8, <1>9, <2>1 DEF MonitorInv, MonitorTypeOK, Ends
  <1>10. CASE ~Ends(linbuf')
    <2>1. mode' = "getline"
      BY <1>1, <1>10
    <2>2. getchr(c) # NL /\ Len(linbuf') # LINSIZ - 1
      BY <1>4, <1>6, <1>10 DEF Ends, Last
    <2>3. \A j \in 1 .. Len(linbuf') : linbuf'[j] # NL
      BY <1>2, <1>4, <1>5, <2>2
    <2>4. Len(linbuf') < LINSIZ - 1
      BY <1>2, <1>4, <1>6, <2>2
    <2> QED
      BY <1>1, <1>2, <1>3, <1>4, <1>6, <1>7, <1>8, <2>1, <2>3, <2>4 DEF MonitorInv, MonitorTypeOK
  <1> QED
    BY <1>9, <1>10

Messages == {<<Report, NL>>, <<Jump, NL>>}

\* The four ways a line is obeyed.
LEMMA ObeyCases ==
  ASSUME Obey
  PROVE  /\ mode = "line" /\ out = <<>> /\ linbuf' = <<>>
         /\ \/ Last(linbuf) # NL /\ mode' = "getline" /\ out' = <<Report, NL>> /\ mem' = mem
            \/ Last(linbuf) = NL /\ linbuf[1] = "L" /\ doload
            \/ Last(linbuf) = NL /\ linbuf[1] = "G" /\ dogo
            \/ /\ Last(linbuf) = NL /\ linbuf[1] = ";"
               /\ mode' = "getline" /\ out' = <<>> /\ mem' = mem
            \/ /\ Last(linbuf) = NL /\ linbuf[1] \notin {"L", "G", ";"}
               /\ mode' = "getline" /\ out' = <<Report, NL>> /\ mem' = mem
  BY DEF Obey, Say

\* A line that ends in a newline and has a command letter has an end besides.
LEMMA CommandLine ==
  ASSUME TypeOK, MonitorInv, mode = "line", Last(linbuf) = NL
  PROVE  /\ linbuf \in Seq(Char) /\ Len(linbuf) \in 1 .. LINSIZ - 1 /\ Len(linbuf) < LINSIZ
         /\ Whole(linbuf)
         /\ linbuf[1] # NL => CompleteLine
  <1>1. /\ linbuf \in Seq(Char) /\ Len(linbuf) < LINSIZ /\ linbuf # <<>>
        /\ \A j \in 1 .. Len(linbuf) : linbuf[j] # CR
    BY DEF TypeOK, MonitorTypeOK, MonitorInv
  <1>2. Len(linbuf) \in Nat \ {0} /\ LINSIZ \in Nat
    BY <1>1, EmptySeq, Sizes
  <1>3. ASSUME linbuf[1] # NL PROVE CompleteLine
    <2>1. Len(linbuf) # 1
      BY <1>3 DEF Last
    <2>2. \A n \in Nat \ {0} : n # 1 => n >= 2
      OBVIOUS
    <2>3. Len(linbuf) >= 2
      BY <1>2, <2>1, <2>2
    <2> QED
      BY <1>1, <2>3 DEF CompleteLine
  <1>4. Whole(linbuf)
    BY <1>1 DEF Whole, Contains
  <1>5. Len(linbuf) \in 1 .. LINSIZ - 1
    BY <1>1, <1>2
  <1> QED
    BY <1>1, <1>3, <1>4, <1>5

\* doload is quiet for a load line, and only for one.
LEMMA LoadSays ==
  ASSUME TypeOK, MonitorInv, mode = "line", Last(linbuf) = NL, linbuf[1] = "L", doload, out = <<>>
  PROVE  /\ mode' = "getline" /\ mem' = Stored.mem
         /\ LoadLine(linbuf) => out' = <<>>
         /\ ~LoadLine(linbuf) => out' = <<Report, NL>>
         /\ LoadLine(linbuf) => \E n \in 1 .. LINSIZ : Len(Numeral) = ADDR + 2 * n /\ ~Stored.half
  <1> DEFINE N == Len(Numeral)
             L == Len(linbuf)
             S == Stored
             Odd == S.half
  <1>1. CompleteLine /\ L \in Nat /\ L >= 2 /\ L < LINSIZ /\ ADDR \in Nat \ {0} /\ LINSIZ \in Nat
    <2>1. CompleteLine
      BY CommandLine, Tokens
    <2>2. L \in 1 .. LINSIZ - 1 /\ L < LINSIZ /\ L >= 2
      BY <2>1, CommandLine DEF CompleteLine
    <2> QED
      BY <2>1, <2>2, Sizes
  <1>2. /\ mode' = "getline" /\ mem' = Stored.mem
        /\ (Bad # {} \/ Len(Operand) < ADDR + 2 \/ Stored.half) => out' = <<Report, NL>>
        /\ ~(Bad # {} \/ Len(Operand) < ADDR + 2 \/ Stored.half) => out' = <<>>
    BY DEF doload, Say
  <1>3. /\ N \in 0 .. L - 2 /\ Len(Operand) = L - 2
        /\ Bad = {} <=> N = L - 2
        /\ \A k \in 1 .. N : linbuf[k + 1] \in Hex
        /\ linbuf[N + 2] \notin Hex
    <2>1. \A k \in 1 .. N : Numeral[k] \in Hex /\ Numeral[k] = linbuf[k + 1]
      BY <1>1, NumeralIs, ElementOfSeq
    <2> QED
      BY <1>1, <2>1, NumeralIs
  <1>4. Digits(linbuf) = Operand /\ DOMAIN Operand = 1 .. L - 2
    <2>1. Operand \in Seq(Char)
      <3>1. linbuf \in Seq(Char)
        BY <1>1 DEF CompleteLine
      <3>2. 2 \in 1 .. Len(linbuf) + 1 /\ Len(linbuf) - 1 \in 2 - 1 .. Len(linbuf)
        BY <1>1
      <3> QED
        BY <3>1, <3>2, PartIs DEF Operand
    <2> QED
      BY <1>3, <2>1, LenProperties DEF Digits, Operand
  <1>5. AllHex(Digits(linbuf)) <=> Bad = {}
    BY <1>4 DEF AllHex, Bad
  <1>6. CASE ADDR < N
    <2>1. PICK m \in Nat : AfterDigits(Stored, N - ADDR, m)
      BY <1>1, <1>6, StoredIs DEF TypeOK, MonitorTypeOK
    <2>2. S.half \in BOOLEAN /\ N - ADDR = 2 * m + (IF S.half THEN 1 ELSE 0)
      BY <2>1 DEF AfterDigits
    <2> HIDE DEF S, N, L
    <2>3. Odd \/ (N = ADDR + 2 * m /\ m \in 1 .. LINSIZ /\ N >= ADDR + 2)
      BY <1>1, <1>3, <1>6, <2>2
    <2>4. Odd => N = ADDR + 2 * m + 1
      BY <1>1, <1>3, <2>2
    <2>5. ASSUME Odd, NEW n \in Nat PROVE N # ADDR + 2 * n
      BY <1>1, <2>4, <2>5
    <2> QED
      <3>1. LoadLine(linbuf) <=> Bad = {} /\ \E n \in 1 .. LINSIZ : L - 2 = ADDR + 2 * n
        BY <1>3, <1>4, <1>5, CommandLine DEF LoadLine
      <3>2. ASSUME Bad = {}, NEW n \in 1 .. LINSIZ, L - 2 = ADDR + 2 * n
            PROVE  ~Odd /\ N = ADDR + 2 * n /\ ~(Len(Operand) < ADDR + 2)
        BY <1>1, <1>3, <2>5, <3>2
      <3>3. ASSUME Bad = {}, ~Odd PROVE LoadLine(linbuf)
        BY <1>3, <2>3, <3>1, <3>3
      <3>4. CASE LoadLine(linbuf)
        BY <1>2, <3>1, <3>2, <3>4 DEF S, N
      <3>5. CASE ~LoadLine(linbuf)
        BY <1>2, <3>3, <3>5 DEF S
      <3> QED
        BY <3>4, <3>5
  <1>7. CASE ~(ADDR < N)
    <2> HIDE DEF N, L
    <2>1. Bad = {} => Len(Operand) < ADDR + 2 /\ \A n \in 1 .. LINSIZ : L - 2 # ADDR + 2 * n
      BY <1>1, <1>3, <1>7
    <2>2. ~LoadLine(linbuf)
      BY <1>3, <1>4, <1>5, <2>1 DEF LoadLine
    <2> QED
      BY <1>2, <2>1, <2>2
  <1> QED
    BY <1>6, <1>7

\* The monitor has something to say exactly of a line that is not quiet.
LEMMA LineSays ==
  ASSUME TypeOK, MonitorInv, Obey, Last(linbuf) = NL
  PROVE  /\ Quietly(linbuf) => out' = <<>> /\ mode' = "getline"
         /\ ~Quietly(linbuf) => out' \in Messages /\ mode' \in {"getline", "running"}
         /\ linbuf[1] # "L" => mem' = mem
         /\ linbuf[1] = "L" => mem' = Stored.mem /\ mode' = "getline"
  <1>1. mode = "line" /\ out = <<>> /\ linbuf' = <<>>
    BY ObeyCases
  <1>2. Whole(linbuf)
    BY <1>1, CommandLine
  <1>3. CASE linbuf[1] = "L"
    <2>1. doload
      BY <1>3, ObeyCases
    <2>2. Quietly(linbuf) <=> LoadLine(linbuf)
      BY <1>3 DEF Quietly
    <2> QED
      BY <1>1, <1>3, <2>1, <2>2, LoadSays DEF Messages
  <1>4. CASE linbuf[1] = "G"
    <2>1. dogo
      BY <1>4, ObeyCases
    <2>2. ~Quietly(linbuf)
      BY <1>4 DEF Quietly, LoadLine
    <2>3. mem' = mem /\ mode' \in {"getline", "running"} /\ out' \in Messages
      BY <2>1 DEF dogo, Say, Messages
    <2> QED
      BY <1>4, <2>2, <2>3
  <1>5. CASE linbuf[1] = ";"
    <2>1. Quietly(linbuf)
      BY <1>2, <1>5 DEF Quietly
    <2>2. mode' = "getline" /\ out' = <<>> /\ mem' = mem
      BY <1>5, ObeyCases
    <2> QED
      BY <1>5, <2>1, <2>2
  <1>6. CASE linbuf[1] \notin {"L", "G", ";"}
    <2>1. ~Quietly(linbuf)
      BY <1>6 DEF Quietly, LoadLine
    <2>2. mode' = "getline" /\ out' = <<Report, NL>> /\ mem' = mem
      BY <1>6, ObeyCases
    <2> QED
      BY <1>6, <2>1, <2>2 DEF Messages
  <1> QED
    BY <1>3, <1>4, <1>5, <1>6

\* Obeying a line leaves the monitor ready, and says nothing or one message.
LEMMA ObeyIs ==
  ASSUME TypeOK, MonitorInv, Obey
  PROVE  /\ mode = "line" /\ out = <<>> /\ linbuf' = <<>> /\ linbuf # <<>>
         /\ mode' \in {"getline", "running"} /\ out' \in Messages \cup {<<>>}
         /\ Last(linbuf) # NL => out' \in Messages /\ mem' = mem
         /\ MonitorInv' /\ MonitorTypeOK'
  <1>1. mode = "line" /\ out = <<>> /\ linbuf' = <<>> /\ linbuf # <<>>
    BY ObeyCases DEF MonitorInv
  <1>2. mem \in [Address -> Byte] /\ LINSIZ \in Nat /\ LINSIZ >= 2
    BY Sizes DEF TypeOK, MonitorTypeOK
  <1>3. /\ mode' \in {"getline", "running"} /\ out' \in Messages \cup {<<>>}
        /\ Last(linbuf) # NL => out' \in Messages /\ mem' = mem
        /\ mem' \in [Address -> Byte]
    <2>1. CASE Last(linbuf) # NL
      BY <1>2, <2>1, ObeyCases DEF Messages
    <2>2. CASE Last(linbuf) = NL
      <3>1. mode' \in {"getline", "running"} /\ out' \in Messages \cup {<<>>}
        BY <2>2, LineSays
      <3>2. linbuf[1] = "L" => Stored.mem \in [Address -> Byte]
        BY <1>1, <1>2, <2>2, CommandLine, StoredMem, Tokens
      <3>3. mem' \in [Address -> Byte]
        BY <1>2, <2>2, <3>2, LineSays
      <3> QED
        BY <2>2, <3>1, <3>3
    <2> QED
      BY <2>1, <2>2
  <1>4. out' \in Seq(Message)
    <2>1. Report \in Message /\ Jump \in Message /\ NL \in Message
      BY Tokens DEF Message
    <2>2. <<Report, NL>> \in Seq(Message) /\ <<Jump, NL>> \in Seq(Message) /\ <<>> \in Seq(Message)
      BY <2>1
    <2> QED
      BY <1>3, <2>2 DEF Messages
  <1>5. linbuf' \in Seq(Char) /\ Len(linbuf') = 0
    BY <1>1
  <1>6. 0 < LINSIZ - 1 /\ 0 < LINSIZ /\ \A j \in 1 .. Len(linbuf') : FALSE
    BY <1>2, <1>5
  <1>7. MonitorInv'
    BY <1>1, <1>3, <1>4, <1>5, <1>6 DEF MonitorInv
  <1>8. MonitorTypeOK'
    BY <1>3, <1>5, <1>6 DEF MonitorTypeOK
  <1> QED
    BY <1>1, <1>3, <1>7, <1>8

-----------------------------------------------------------------------------
(* Every step keeps Base *)

LEMMA HostSame ==
  ASSUME HostInv, UNCHANGED <<kind, file, host, pos, got, verdict, clean>>
  PROVE  HostInv'
  BY DEF HostInv, LineEnds

LEMMA MonitorSame ==
  ASSUME MonitorInv, MonitorTypeOK, UNCHANGED monitor
  PROVE  MonitorInv' /\ MonitorTypeOK'
  BY DEF MonitorInv, MonitorTypeOK, Ends, monitor

LEMMA BaseInit ==
  ASSUME Init
  PROVE  Base
  <1>1. /\ mode = "getline" /\ linbuf = <<>> /\ out = <<>> /\ kind \in {"te", "te-rs", "sync"}
        /\ file \in Files /\ host = "terminal" /\ pos = 0 /\ got = 0 /\ verdict = "none" /\ keys = 0
        /\ clean = FALSE /\ toBoard = <<>> /\ toHost = <<>> /\ faults = [down |-> 0, up |-> 0]
    BY DEF Init, MonitorInit
  <1>2. mem \in [Address -> Byte]
    BY LoadNGoAssumption DEF Init, MonitorInit
  <1>3. /\ LINSIZ \in Nat /\ LINSIZ >= 2 /\ MaxKeys \in Nat /\ MaxFaults \in Nat /\ BOARDBUF \in Nat
        /\ HOSTBUF \in Nat /\ Len(file) \in Nat
    BY <1>1, Sizes, FileIs, TerminalsAssumption
  <1>4. Len(linbuf) = 0 /\ linbuf \in Seq(Char) /\ out \in Seq(Message) /\ toBoard \in Seq(Char)
        /\ toHost \in Seq(Char \cup {Report, Jump}) /\ Len(toBoard) = 0 /\ Len(toHost) = 0
    BY <1>1
  <1>5. 0 < LINSIZ - 1 /\ 0 < LINSIZ /\ 0 \in 0 .. Len(file) /\ 0 \in 0 .. 0 /\ 0 \in 0 .. MaxKeys
        /\ 0 <= BOARDBUF /\ 0 <= HOSTBUF /\ 0 \in 0 .. MaxFaults /\ \A j \in 1 .. 0 : FALSE
    BY <1>3
  <1>6. MonitorInv /\ MonitorTypeOK
    BY <1>1, <1>2, <1>4, <1>5 DEF MonitorInv, MonitorTypeOK
  <1>7. HostInv
    BY <1>1 DEF HostInv
  <1>8. faults \in [{"down", "up"} -> 0 .. MaxFaults]
    BY <1>1, <1>5
  <1>9. TypeOK
    BY <1>1, <1>4, <1>5, <1>6, <1>8 DEF TypeOK
  <1> QED
    BY <1>6, <1>7, <1>9 DEF Base

\* Each step keeps types, and the monitor and the host each by itself.
LEMMA BaseBoard ==
  ASSUME Base, Board
  PROVE  Base'
  <1>1. /\ UNCHANGED <<kind, file, host, pos, got, verdict, keys, clean>>
        /\ TypeOK /\ MonitorInv /\ HostInv
    BY DEF Board, hostvars, Base
  <1>2. HostInv'
    BY <1>1, HostSame
  <1> SUFFICES /\ MonitorInv' /\ MonitorTypeOK'
               /\ toBoard' \in Seq(Char) /\ Len(toBoard') <= BOARDBUF
               /\ toHost' \in Seq(Message) /\ Len(toHost') <= HOSTBUF
               /\ faults' \in [{"down", "up"} -> 0 .. MaxFaults]
    BY <1>1, <1>2 DEF Base, TypeOK, Message
  <1>3. /\ toBoard \in Seq(Char) /\ Len(toBoard) <= BOARDBUF /\ toHost \in Seq(Message)
        /\ Len(toHost) <= HOSTBUF /\ faults \in [{"down", "up"} -> 0 .. MaxFaults] /\ MonitorTypeOK
    BY <1>1 DEF TypeOK, Message
  <1>4. CASE Putchr /\ UNCHANGED <<mode, linbuf, mem>>
    <2>1. MonitorInv' /\ MonitorTypeOK'
      BY <1>1, <1>3, <1>4, CarryUp DEF MonitorInv, MonitorTypeOK, Ends
    <2> QED
      BY <1>1, <1>3, <1>4, <2>1, CarryUp
  <1>5. CASE toBoard # <<>> /\ Getline(Head(toBoard)) /\ Received
    <2>1. toBoard' = Tail(toBoard) /\ toHost' = toHost /\ faults' = faults
      BY <1>5 DEF Received
    <2>2. /\ Head(toBoard) \in Char /\ toBoard' \in Seq(Char) /\ Len(toBoard) \in 1 .. BOARDBUF
          /\ Len(toBoard') = Len(toBoard) - 1 /\ BOARDBUF \in Nat
      BY <1>1, <1>5, <2>1, Taken, TerminalsAssumption
    <2>3. MonitorInv' /\ MonitorTypeOK'
      BY <1>1, <1>5, <2>2, GetlineIs
    <2>4. Len(toBoard') <= BOARDBUF
      BY <2>2
    <2> QED
      BY <1>3, <2>1, <2>2, <2>3, <2>4
  <1>6. CASE Obey /\ UNCHANGED wire
    BY <1>1, <1>3, <1>6, ObeyIs DEF wire
  <1> QED
    BY <1>4, <1>5, <1>6 DEF Board

LEMMA BaseProgram ==
  ASSUME Base, Program
  PROVE  Base'
  <1>1. /\ UNCHANGED <<kind, file, host, pos, got, verdict, keys, clean>>
        /\ TypeOK /\ MonitorInv /\ HostInv
    BY DEF Program, hostvars, Base
  <1>2. HostInv'
    BY <1>1, HostSame
  <1>3. /\ toBoard \in Seq(Char) /\ Len(toBoard) <= BOARDBUF /\ toHost \in Seq(Message)
        /\ Len(toHost) <= HOSTBUF /\ faults \in [{"down", "up"} -> 0 .. MaxFaults] /\ MonitorTypeOK
    BY <1>1 DEF TypeOK, Message
  <1>4. CASE ProgramReturns /\ UNCHANGED wire
    <2>1. /\ mode = "running" /\ mode' = "getline" /\ linbuf' = linbuf /\ out' = out /\ mem' = mem
          /\ linbuf = <<>> /\ linbuf' = <<>>
      BY <1>1, <1>4 DEF ProgramReturns, MonitorInv
    <2>2. Len(linbuf') < LINSIZ - 1 /\ Len(linbuf') < LINSIZ /\ \A j \in 1 .. Len(linbuf') : FALSE
      BY <2>1, Sizes
    <2>3. MonitorInv' /\ MonitorTypeOK'
      BY <1>1, <1>3, <2>1, <2>2 DEF MonitorInv, MonitorTypeOK
    <2> QED
      BY <1>1, <1>2, <1>4, <2>3 DEF Base, TypeOK, wire
  <1>5. CASE toBoard # <<>> /\ ProgramReads /\ Received
    <2>1. toBoard' = Tail(toBoard) /\ toHost' = toHost /\ faults' = faults /\ UNCHANGED monitor
      BY <1>5 DEF Received, ProgramReads
    <2>2. /\ toBoard' \in Seq(Char) /\ Len(toBoard) \in 1 .. BOARDBUF
          /\ Len(toBoard') = Len(toBoard) - 1 /\ BOARDBUF \in Nat
      BY <1>1, <1>5, <2>1, Taken, TerminalsAssumption
    <2>3. MonitorInv' /\ MonitorTypeOK' /\ Len(toBoard') <= BOARDBUF
      BY <1>1, <1>3, <2>1, <2>2, MonitorSame
    <2> QED
      BY <1>1, <1>2, <2>1, <2>2, <2>3 DEF Base, TypeOK
  <1> QED
    BY <1>4, <1>5 DEF Program

LEMMA BaseTerminal ==
  ASSUME Base, \/ Show \/ AskFile \/ Open \/ OpenNone \/ Break \/ Complete \/ Timeout
               \/ ReadResponse \/ \E c \in Typed : Type(c)
  PROVE  Base'
  <1>1. TypeOK /\ MonitorInv /\ HostInv /\ MonitorTypeOK
    BY DEF Base, TypeOK
  <1>2. CASE Show
    <2>1. UNCHANGED <<monitor, kind, file, host, pos, got, verdict, keys, clean>>
      BY <1>2 DEF Show, hostvars
    <2>2. /\ toHost' \in Seq(Message) /\ Len(toHost') <= HOSTBUF
          /\ toBoard' = toBoard /\ faults' = faults
      <3>1. HOSTBUF \in Nat
        BY TerminalsAssumption
      <3>2. Heard
        BY <1>2 DEF Show
      <3>3. /\ toHost' \in Seq(Message) /\ Len(toHost) \in 1 .. HOSTBUF
            /\ Len(toHost') = Len(toHost) - 1 /\ toBoard' = toBoard /\ faults' = faults
        BY <1>1, <3>2, HeardIs
      <3> QED
        BY <3>1, <3>3
    <2>3. MonitorInv' /\ MonitorTypeOK' /\ HostInv'
      BY <1>1, <2>1, MonitorSame, HostSame
    <2> QED
      BY <1>1, <2>1, <2>2, <2>3 DEF Base, TypeOK, Message
  <1>3. CASE \E c \in Typed : Type(c)
    <2>1. PICK c \in Typed : Type(c)
      BY <1>3
    <2>2. /\ UNCHANGED <<monitor, kind, file, host, pos, got, verdict, clean>>
          /\ keys' = keys + 1 /\ keys < MaxKeys /\ PutCom(c) /\ c \in Char
      BY <2>1, TerminalsAssumption DEF Type, hostvars
    <2>3. keys' \in 0 .. MaxKeys
      <3>1. keys \in 0 .. MaxKeys /\ MaxKeys \in Nat
        BY <1>1, TerminalsAssumption DEF TypeOK
      <3> QED
        BY <2>2, <3>1
    <2>4. /\ toBoard' \in Seq(Char) /\ Len(toBoard') <= BOARDBUF /\ toHost' = toHost
          /\ faults' \in [{"down", "up"} -> 0 .. MaxFaults]
      BY <1>1, <2>2, CarryDown
    <2>5. MonitorInv' /\ MonitorTypeOK' /\ HostInv'
      BY <1>1, <2>2, MonitorSame, HostSame
    <2> QED
      BY <1>1, <2>2, <2>3, <2>4, <2>5 DEF Base, TypeOK
  <1>4. CASE ReadResponse
    <2>1. /\ UNCHANGED <<monitor, kind, file, pos, got, keys, clean>> /\ host = "response" /\ Heard
          /\ \/ host' = "exit" /\ verdict' = "failed"
             \/ host' = "response" /\ verdict' = verdict
      BY <1>4 DEF ReadResponse, hostvars, Respond, Fail
    <2>2. /\ toHost' \in Seq(Message) /\ Len(toHost') <= HOSTBUF
          /\ toBoard' = toBoard /\ faults' = faults
      <3>1. HOSTBUF \in Nat
        BY TerminalsAssumption
      <3>3. /\ toHost' \in Seq(Message) /\ Len(toHost) \in 1 .. HOSTBUF
            /\ Len(toHost') = Len(toHost) - 1 /\ toBoard' = toBoard /\ faults' = faults
        BY <1>1, <2>1, HeardIs
      <3> QED
        BY <3>1, <3>3
    <2>3. MonitorInv' /\ MonitorTypeOK'
      BY <1>1, <2>1, MonitorSame
    <2>4. HostInv'
      BY <1>1, <2>1 DEF HostInv, LineEnds
    <2> QED
      BY <1>1, <2>1, <2>2, <2>3, <2>4 DEF Base, TypeOK, Message
  <1>5. CASE AskFile \/ Open \/ OpenNone \/ Break \/ Complete \/ Timeout
    <2>1. UNCHANGED <<monitor, kind, file, pos, got, keys, toBoard, toHost, faults>>
      BY <1>5 DEF AskFile, Open, OpenNone, Break, Complete, Timeout, hostvars, wire
    <2>2. MonitorInv' /\ MonitorTypeOK'
      BY <1>1, <2>1, MonitorSame
    <2> SUFFICES /\ HostInv' /\ verdict' \in {"none", "completed", "failed"} /\ clean' \in BOOLEAN
                 /\ host' \in {"terminal", "prompt", "upload", "echo", "response", "exit"}
      BY <1>1, <2>1, <2>2 DEF Base, TypeOK
    <2>3. verdict \in {"none", "completed", "failed"} /\ clean \in BOOLEAN
      BY <1>1 DEF TypeOK
    <2>4. CASE AskFile
      BY <1>1, <2>3, <2>4 DEF AskFile, hostvars, HostInv, LineEnds
    <2>5. CASE Open
      <3>1. verdict # "completed"
        BY <1>1, <2>5 DEF Open, HostInv
      <3>2. /\ pos = 0 /\ got = 0 /\ host' = "upload" /\ UNCHANGED <<verdict, pos, got, kind, file>>
            /\ clean' = (Idle /\ toHost = <<>>)
        BY <1>1, <2>5, <3>1 DEF Open, HostInv, hostvars
      <3>3. verdict = "none"
        BY <1>1, <2>3, <2>5, <3>1 DEF Open, HostInv
      <3> QED
        BY <1>1, <2>3, <3>2, <3>3 DEF HostInv
    <2>6. CASE OpenNone
      BY <1>1, <2>3, <2>6 DEF OpenNone, hostvars, HostInv, LineEnds
    <2>7. CASE Break
      BY <1>1, <2>3, <2>7 DEF Break, hostvars, HostInv, LineEnds
    <2>8. CASE Complete
      <3>1. /\ host = "upload" /\ pos = Len(file) /\ host' = "terminal" /\ verdict' = "completed"
            /\ UNCHANGED <<kind, file, pos, got, clean>>
        BY <2>8 DEF Complete, hostvars
      <3>2. kind = "sync" => got = pos
        <4> SUFFICES ASSUME kind = "sync", got # pos PROVE FALSE
          OBVIOUS
        <4>1. got \in 0 .. pos /\ pos \in 0 .. Len(file) /\ Len(file) \in Nat
          BY <1>1, FileIs DEF TypeOK
        <4>2. pos \in got + 1 .. pos
          BY <4>1
        <4> QED
          BY <1>1, <3>1, <4>2 DEF HostInv, LineEnds
      <3> QED
        BY <1>1, <2>3, <3>1, <3>2 DEF HostInv
    <2>9. CASE Timeout
      BY <1>1, <2>3, <2>9 DEF Timeout, Fail, hostvars, HostInv, LineEnds
    <2> QED
      BY <1>5, <2>4, <2>5, <2>6, <2>7, <2>8, <2>9
  <1> QED
    BY <1>2, <1>3, <1>4, <1>5

LEMMA BaseWrite ==
  ASSUME Base, Write
  PROVE  Base'
  <1>1. TypeOK /\ MonitorInv /\ HostInv /\ MonitorTypeOK
    BY DEF Base, TypeOK
  <1>2. /\ UNCHANGED <<monitor, kind, file, got, verdict, keys, clean>> /\ host = "upload"
        /\ pos < Len(file) /\ PutCom(file[pos + 1]) /\ pos' = pos + 1
        /\ host' = IF kind = "sync" /\ LineEnds(pos + 1) THEN "echo" ELSE "upload"
    BY DEF Write, hostvars
  <1>3. pos \in 0 .. Len(file) /\ got \in 0 .. pos /\ Len(file) \in Nat /\ file \in Files
    BY <1>1, FileIs DEF TypeOK
  <1>4. file[pos + 1] \in Char
    <2>1. pos + 1 \in 1 .. Len(file)
      BY <1>2, <1>3
    <2> QED
      BY <1>3, <2>1, FileIs, ElementOfSeq
  <1>5. /\ toBoard' \in Seq(Char) /\ Len(toBoard') <= BOARDBUF /\ toHost' = toHost
        /\ faults' \in [{"down", "up"} -> 0 .. MaxFaults]
    BY <1>1, <1>2, <1>4, CarryDown
  <1>6. MonitorInv' /\ MonitorTypeOK'
    BY <1>1, <1>2, MonitorSame
  <1>7. pos' \in 0 .. Len(file') /\ got' \in 0 .. pos' /\ got' < pos'
    BY <1>2, <1>3
  <1>8. HostInv'
    <2>1. verdict' = "none"
      BY <1>1, <1>2 DEF HostInv
    <2>2. kind = "sync" => \A j \in got + 1 .. pos : ~LineEnds(j)
      BY <1>1, <1>2 DEF HostInv
    <2>3. \A j : LineEnds(j)' <=> LineEnds(j)
      BY <1>2 DEF LineEnds
    <2>4. got' = got /\ pos' - 1 = pos
      BY <1>2, <1>3
    <2>5. \A j \in got' + 1 .. pos' : j \in got + 1 .. pos \/ j = pos + 1
      BY <1>2, <1>3
    <2>6. kind # "sync" => got' = 0
      BY <1>1, <1>2 DEF HostInv
    <2> DEFINE Ended == LineEnds(pos + 1)
    <2>7. host' = IF kind = "sync" /\ Ended THEN "echo" ELSE "upload"
      BY <1>2
    <2>8. ~Ended /\ kind = "sync" => \A j \in got' + 1 .. pos' : ~LineEnds(j)'
      BY <2>2, <2>3, <2>5
    <2>9. kind = "sync" => \A j \in got' + 1 .. pos' - 1 : ~LineEnds(j)'
      BY <2>2, <2>3, <2>4
    <2> HIDE DEF Ended
    <2> QED
      BY <1>2, <1>7, <2>1, <2>6, <2>7, <2>8, <2>9 DEF HostInv
  <1> QED
    BY <1>1, <1>2, <1>5, <1>6, <1>7, <1>8 DEF Base, TypeOK

LEMMA BaseAwaitEcho ==
  ASSUME Base, AwaitEcho
  PROVE  Base'
  <1>1. TypeOK /\ MonitorInv /\ HostInv /\ MonitorTypeOK
    BY DEF Base, TypeOK
  <1>2. /\ UNCHANGED <<monitor, kind, file, pos, keys, clean>> /\ host = "echo" /\ Heard
        /\ \/ /\ got' = got + 1 /\ host' = (IF got' = pos THEN "upload" ELSE "echo")
              /\ verdict' = verdict
           \/ host' = "exit" /\ verdict' = "failed" /\ got' = got
           \/ host' = "response" /\ verdict' = verdict /\ got' = got
    BY DEF AwaitEcho, hostvars, Echoed, Accepted, Respond, Fail
  <1>3. /\ pos \in 0 .. Len(file) /\ got \in 0 .. pos /\ Len(file) \in Nat /\ file \in Files
        /\ verdict = "none" /\ got < pos /\ kind = "sync"
        /\ \A j \in got + 1 .. pos - 1 : ~LineEnds(j)
    BY <1>1, <1>2, FileIs DEF TypeOK, HostInv
  <1>4. /\ toHost' \in Seq(Message) /\ Len(toHost') <= HOSTBUF
        /\ toBoard' = toBoard /\ faults' = faults
    <2>1. HOSTBUF \in Nat
      BY TerminalsAssumption
    <2>2. /\ toHost' \in Seq(Message) /\ Len(toHost) \in 1 .. HOSTBUF
          /\ Len(toHost') = Len(toHost) - 1 /\ toBoard' = toBoard /\ faults' = faults
      BY <1>1, <1>2, HeardIs
    <2> QED
      BY <2>1, <2>2
  <1>5. MonitorInv' /\ MonitorTypeOK'
    BY <1>1, <1>2, MonitorSame
  <1>6. HostInv' /\ got' \in 0 .. pos'
        /\ host' \in {"upload", "echo", "exit", "response"} /\ verdict' \in {"none", "failed"}
    <2>1. CASE got' = got + 1 /\ host' = (IF got' = pos THEN "upload" ELSE "echo") /\ verdict' = verdict
      <3>1. got' \in 0 .. pos' /\ (got' = pos \/ got' < pos')
        BY <1>2, <1>3, <2>1
      <3>2. \A j \in got' + 1 .. pos' - 1 : ~LineEnds(j)'
        <4>1. \A j \in got' + 1 .. pos' - 1 : j \in got + 1 .. pos - 1
          BY <1>2, <1>3, <2>1
        <4> QED
          BY <1>2, <1>3, <4>1 DEF LineEnds
      <3>3. got' = pos => \A j \in got' + 1 .. pos' : FALSE
        BY <1>2, <1>3
      <3> QED
        BY <1>1, <1>2, <1>3, <2>1, <3>1, <3>2, <3>3 DEF HostInv
    <2>2. CASE host' = "exit" /\ verdict' = "failed" /\ got' = got
      BY <1>1, <1>2, <1>3, <2>2 DEF HostInv
    <2>3. CASE host' = "response" /\ verdict' = verdict /\ got' = got
      BY <1>1, <1>2, <1>3, <2>3 DEF HostInv
    <2> QED
      BY <1>2, <2>1, <2>2, <2>3
  <1> QED
    BY <1>1, <1>2, <1>4, <1>5, <1>6 DEF Base, TypeOK, Message

LEMMA BaseSame ==
  ASSUME Base, UNCHANGED vars
  PROVE  Base'
  <1>1. /\ TypeOK /\ MonitorInv /\ HostInv /\ MonitorTypeOK
        /\ UNCHANGED <<monitor, kind, file, host, pos, got, verdict, keys, clean>>
        /\ UNCHANGED <<toBoard, toHost, faults>>
    BY DEF Base, TypeOK, vars, hostvars, wire
  <1>2. MonitorInv' /\ MonitorTypeOK' /\ HostInv'
    BY <1>1, MonitorSame, HostSame
  <1> QED
    BY <1>1, <1>2 DEF Base, TypeOK

LEMMA BaseNext ==
  ASSUME Base, [Next]_vars
  PROVE  Base'
  BY BaseBoard, BaseProgram, BaseTerminal, BaseWrite, BaseAwaitEcho, BaseSame DEF Next, Upload

\* te.c, main.rs, loadngo.c: buffers, counters and states stay in their bounds.
THEOREM TypeCorrect == Spec => []TypeOK
  <1>1. Init => Base
    BY BaseInit
  <1>2. Base /\ [Next]_vars => Base'
    BY BaseNext
  <1>3. Base => TypeOK
    BY DEF Base
  <1> QED
    BY <1>1, <1>2, <1>3, PTL DEF Spec

\* Whatever reaches the monitor, memory changes only to what a line says.
THEOREM MemoryHoldsLines == Spec => OnlyLineIsStored
  <1>1. Init => Base
    BY BaseInit
  <1>2. Base /\ [Next]_vars => Base'
    BY BaseNext
  <1>3. Base /\ [Next]_vars => [mem' # mem => ChangesAreOfLine]_vars
    <2> SUFFICES ASSUME Base, Next, mem' # mem PROVE ChangesAreOfLine
      OBVIOUS
    <2>1. TypeOK /\ MonitorInv /\ mem \in [Address -> Byte]
      BY DEF Base, TypeOK, MonitorTypeOK
    <2>2. Obey
      BY DEF Next, Board, Program, Show, AskFile, Open, OpenNone, Break, Upload, Write, Complete,
             AwaitEcho, ReadResponse, Timeout, Type, Getline, ProgramReturns, ProgramReads, monitor
    <2>3. Last(linbuf) = NL
      BY <2>1, <2>2, ObeyIs
    <2>4. linbuf[1] = "L" /\ doload
      BY <2>1, <2>2, <2>3, LineSays, ObeyCases
    <2>5. CompleteLine /\ Len(linbuf) < LINSIZ
      BY <2>1, <2>2, <2>3, <2>4, CommandLine, ObeyCases, Tokens
    <2> QED
      BY <2>1, <2>4, <2>5, DoloadChanges
  <1> QED
    BY <1>1, <1>2, <1>3, PTL DEF Spec, OnlyLineIsStored

-----------------------------------------------------------------------------
(* Where the board is in the file *)

\* Of bytes, those that none after them is put over.
Latest(set) == {b \in set : \A d \in set : d.adr = b.adr => d.at <= b.at}

\* What the lines that start before s say.
ImageBefore(s)  == UNION {BytesOf(Line(k), k) : k \in {j \in Starts : j < s /\ file[j] = "L"}}
StoredBefore(s) == \A b \in Latest(ImageBefore(s)) : mem[b.adr] = b.byte
QuietBefore(s)  == \A k \in Starts : k < s => Quietly(Line(k))

\* The board has obeyed the lines before s and has the characters from s to r.
BoardAt(s, r) ==
  /\ s \in 1 .. Len(file) + 1 /\ r \in s - 1 .. Len(file)
  /\ s = 1 \/ file[s - 1] = NL
  /\ linbuf = SubSeq(file, s, r) /\ \A j \in s .. r - 1 : file[j] # NL
  /\ mode \in {"getline", "line"}
  /\ QuietBefore(s) /\ StoredBefore(s)

\* It has obeyed the last line, and had something to say.
AllObeyed ==
  /\ mode \in {"getline", "running"} /\ linbuf = <<>>
  /\ \A k \in Starts : IsLast(k) \/ Quietly(Line(k))
  /\ IsLoadFile => StoredBefore(Len(file) + 1)

\* What a file says does not depend on anything else.
LEMMA FileSame ==
  ASSUME file' = file
  PROVE  /\ Starts' = Starts /\ IsLoadFile' = IsLoadFile
         /\ \A k : Line(k)' = Line(k) /\ IsLast(k)' = IsLast(k) /\ ImageBefore(k)' = ImageBefore(k)
                   /\ QuietBefore(k)' = QuietBefore(k)
  <1>1. Starts' = Starts
    BY DEF Starts
  <1>2. ASSUME NEW k PROVE Line(k)' = Line(k)
    BY DEF Line
  <1>3. ASSUME NEW k PROVE IsLast(k)' = IsLast(k)
    BY <1>1 DEF IsLast
  <1>4. IsLoadFile' = IsLoadFile
    BY <1>1, <1>2, <1>3 DEF IsLoadFile
  <1>5. ASSUME NEW k PROVE ImageBefore(k)' = ImageBefore(k)
    BY <1>1, <1>2 DEF ImageBefore
  <1>6. ASSUME NEW k PROVE QuietBefore(k)' = QuietBefore(k)
    BY <1>1, <1>2 DEF QuietBefore
  <1> QED
    BY <1>1, <1>2, <1>3, <1>4, <1>5, <1>6

\* Where the board is depends on the file and the monitor only.
LEMMA BoardSame ==
  ASSUME UNCHANGED <<file, mode, linbuf, mem>>
  PROVE  /\ \A s : StoredBefore(s) => StoredBefore(s)'
         /\ \A s, r : BoardAt(s, r) => BoardAt(s, r)'
         /\ AllObeyed => AllObeyed'
  <1>1. ASSUME NEW s, StoredBefore(s) PROVE StoredBefore(s)'
    BY <1>1, FileSame DEF StoredBefore
  <1>2. ASSUME NEW s, NEW r, BoardAt(s, r) PROVE BoardAt(s, r)'
    BY <1>1, <1>2, FileSame DEF BoardAt
  <1>3. ASSUME AllObeyed PROVE AllObeyed'
    BY <1>1, <1>3, FileSame DEF AllObeyed
  <1> QED
    BY <1>1, <1>2, <1>3

\* A byte that a line gives has an address, and a place within the line.
LEMMA GivenIsOf ==
  ASSUME NEW line \in Seq(Char), NEW i \in Given(line)
  PROVE  i \in Nat /\ i < Len(line) /\ AddressOf(line, i) \in Address
  <1>1. /\ i \in Nat /\ Len(line) \in Nat /\ DOMAIN line = 1 .. Len(line) /\ ADDR \in Nat \ {0}
        /\ \A n \in 2 .. ADDR + 2 * i + 3 : n \in DOMAIN line /\ line[n] \in Hex
    BY Sizes, LenProperties DEF Given
  <1>2. i < Len(line)
    <2>1. ADDR + 2 * i + 3 \in 2 .. ADDR + 2 * i + 3
      BY <1>1
    <2>2. ADDR + 2 * i + 3 \in 1 .. Len(line)
      BY <1>1, <2>1
    <2> QED
      BY <1>1, <2>2
  <1>3. SubSeq(line, 2, ADDR + 1) \in Seq(Hex) /\ Len(SubSeq(line, 2, ADDR + 1)) = ADDR
    <2>1. \A n \in 2 .. ADDR + 1 : n \in 2 .. ADDR + 2 * i + 3
      BY <1>1
    <2>2. \A n \in 2 .. ADDR + 1 : line[n] \in Hex
      BY <1>1, <2>1
    <2>3. 2 \in Int /\ ADDR + 1 \in Int /\ 2 <= ADDR + 1 /\ (ADDR + 1) - 2 + 1 = ADDR
      BY <1>1
    <2> QED
      BY <2>2, <2>3, SubSeqProperties
  <1>4. Value(SubSeq(line, 2, ADDR + 1)) + i \in Nat
    <2>1. Value(SubSeq(line, 2, ADDR + 1)) \in Address
      BY <1>3, AddressValue
    <2>2. Power[ADDR] \in Nat
      BY PowerSteps, Sizes
    <2> QED
      BY <1>1, <2>1, <2>2 DEF Address
  <1>5. AddressOf(line, i) \in Address
    BY <1>4, NextAddress DEF AddressOf
  <1> QED
    BY <1>1, <1>2, <1>5

\* The bytes of earlier lines come first.
LEMMA ImageIsBefore ==
  ASSUME file \in Files, NEW s \in 1 .. Len(file) + 1, s = 1 \/ file[s - 1] = NL,
         NEW b \in ImageBefore(s)
  PROVE  b.at \in Nat /\ b.at < s /\ b.adr \in Address
  <1>1. PICK k \in Starts : k < s /\ file[k] = "L" /\ b \in BytesOf(Line(k), k)
    BY DEF ImageBefore
  <1>2. k \in Nat \ {0} /\ s \in Nat /\ Len(file) \in Nat
    BY FileIs DEF Starts
  <1>3. file[s - 1] = NL
    BY <1>1, <1>2
  <1>4. Line(k) \in Seq(Char) /\ Len(Line(k)) \in 1 .. s - k
    BY <1>1, <1>3, LineBefore
  <1>5. PICK i \in Given(Line(k)) :
          b = [at |-> k + i, adr |-> AddressOf(Line(k), i), byte |-> ByteOf(Line(k), i)]
    BY <1>1 DEF BytesOf
  <1>6. i \in Nat /\ i < Len(Line(k)) /\ AddressOf(Line(k), i) \in Address
    BY <1>4, GivenIsOf
  <1>7. b.at = k + i /\ b.adr = AddressOf(Line(k), i)
    BY <1>5
  <1> QED
    BY <1>2, <1>4, <1>6, <1>7

\* The line that starts at s and ends at r is what the board has.
LEMMA LineAtBoard ==
  ASSUME Base, NEW s, NEW r, BoardAt(s, r), mode = "line", r = Len(file) \/ file[r] = NL
  PROVE  s \in Starts /\ Line(s) = linbuf /\ s \in 1 .. Len(file) /\ r \in s .. Len(file)
  <1>1. file \in Files /\ file \in Seq(Char) /\ Len(file) \in Nat /\ linbuf # <<>>
        /\ DOMAIN file = 1 .. Len(file)
    BY FileIs DEF Base, TypeOK, MonitorInv
  <1>2. /\ s \in 1 .. Len(file) + 1 /\ r \in s - 1 .. Len(file)
        /\ s = 1 \/ file[s - 1] = NL
        /\ linbuf = SubSeq(file, s, r) /\ \A j \in s .. r - 1 : file[j] # NL
    BY DEF BoardAt
  <1>3. r # s - 1
    BY <1>1, <1>2, PartEmpty
  <1>4. s \in 1 .. Len(file) /\ r \in s .. Len(file)
    <2>1. s \in 1 .. Len(file) + 1 /\ r \in s - 1 .. Len(file) /\ Len(file) \in Nat
      BY <1>1, <1>2
    <2> QED
      BY <1>3, <2>1
  <1>5. EndsAt(s, r)
    BY <1>2, <1>4 DEF EndsAt
  <1>6. Line(s) = SubSeq(file, s, r)
    BY <1>1, <1>4, <1>5, LineIs
  <1> QED
    BY <1>1, <1>2, <1>4, <1>6 DEF Starts

\* The starts before the next line are those before this one, and this one.
LEMMA NextStart ==
  ASSUME Base, NEW s, NEW r, BoardAt(s, r), r \in s .. Len(file), NEW k \in Starts
  PROVE  k < r + 1 <=> k < s \/ k = s
  <1>1. file \in Files /\ Len(file) \in Nat /\ DOMAIN file = 1 .. Len(file)
    BY FileIs DEF Base, TypeOK
  <1>2. s \in 1 .. Len(file) + 1 /\ r \in s .. Len(file) /\ \A j \in s .. r - 1 : file[j] # NL
    BY DEF BoardAt
  <1>3. k \in 1 .. Len(file) /\ (k = 1 \/ file[k - 1] = NL)
    BY <1>1 DEF Starts
  <1>4. ASSUME s < k, k < r + 1 PROVE FALSE
    <2>1. k - 1 \in s .. r - 1 /\ k # 1
      BY <1>1, <1>2, <1>3, <1>4
    <2> QED
      BY <1>2, <1>3, <2>1
  <1> QED
    BY <1>1, <1>2, <1>3, <1>4

\* What the lines before the next one say.
LEMMA ImageNext ==
  ASSUME Base, NEW s, NEW r, BoardAt(s, r), mode = "line", r = Len(file) \/ file[r] = NL
  PROVE  /\ linbuf[1] = file[s]
         /\ linbuf[1] = "L" => ImageBefore(r + 1) = ImageBefore(s) \cup BytesOf(linbuf, s)
         /\ linbuf[1] # "L" => ImageBefore(r + 1) = ImageBefore(s)
  <1>1. s \in Starts /\ Line(s) = linbuf /\ s \in 1 .. Len(file) /\ r \in s .. Len(file)
        /\ file \in Seq(Char) /\ Len(file) \in Nat
    BY LineAtBoard, FileIs DEF Base, TypeOK
  <1>2. \A k \in Starts : k < r + 1 <=> k < s \/ k = s
    BY <1>1, NextStart
  <1>3. linbuf[1] = file[s]
    <2>1. s \in 1 .. Len(file) + 1 /\ r \in s - 1 .. Len(file) /\ s \in s .. r /\ s - s + 1 = 1
      BY <1>1
    <2>2. linbuf = SubSeq(file, s, r)
      BY DEF BoardAt
    <2>3. SubSeq(file, s, r)[s - s + 1] = file[s]
      BY <1>1, <2>1, PartIs
    <2> QED
      BY <2>1, <2>2, <2>3
  <1>4. ASSUME NEW b
        PROVE  b \in ImageBefore(r + 1)
                 <=> b \in ImageBefore(s) \/ (file[s] = "L" /\ b \in BytesOf(linbuf, s))
    <2>1. b \in ImageBefore(r + 1)
            <=> \E k \in Starts : k < r + 1 /\ file[k] = "L" /\ b \in BytesOf(Line(k), k)
      BY DEF ImageBefore
    <2>2. b \in ImageBefore(s)
            <=> \E k \in Starts : k < s /\ file[k] = "L" /\ b \in BytesOf(Line(k), k)
      BY DEF ImageBefore
    <2> QED
      BY <1>1, <1>2, <2>1, <2>2
  <1> QED
    BY <1>3, <1>4

\* A load line puts each byte where it says, in their order.
LEMMA LoadStores ==
  ASSUME Base, NEW s, NEW r, BoardAt(s, r), Obey, Last(linbuf) = NL, linbuf[1] = "L",
         Quietly(linbuf), r = Len(file) \/ file[r] = NL,
         NEW b \in Latest(ImageBefore(r + 1))
  PROVE  mem'[b.adr] = b.byte
  <1> DEFINE A == ImageBefore(s)
             B == BytesOf(linbuf, s)
  <1>1. mode = "line" /\ out = <<>> /\ TypeOK /\ MonitorInv /\ mem \in [Address -> Byte]
    BY ObeyCases DEF Base, TypeOK, MonitorTypeOK
  <1>2. /\ ImageBefore(r + 1) = A \cup B
        /\ s \in 1 .. Len(file) + 1 /\ s \in Nat /\ (s = 1 \/ file[s - 1] = NL)
    <2>1. s \in 1 .. Len(file) /\ Len(file) \in Nat
      BY <1>1, LineAtBoard, FileIs DEF TypeOK
    <2>2. s \in 1 .. Len(file) + 1 /\ s \in Nat
      BY <2>1
    <2>3. s = 1 \/ file[s - 1] = NL
      BY DEF BoardAt
    <2>4. ImageBefore(r + 1) = A \cup B
      BY <1>1, ImageNext
    <2> QED
      BY <2>2, <2>3, <2>4
  <1>3. CompleteLine /\ Len(linbuf) < LINSIZ /\ linbuf \in Seq(Char)
    BY <1>1, CommandLine, Tokens
  <1>4. PICK n \in 1 .. LINSIZ : Len(Numeral) = ADDR + 2 * n /\ ~Stored.half
    <2>1. doload /\ LoadLine(linbuf)
      BY ObeyCases DEF Quietly
    <2> QED
      BY <1>1, <2>1, LoadSays
  <1>5. mem' = Stored.mem /\ ADDR \in Nat /\ LINSIZ \in Nat /\ ADDR < Len(Numeral) /\ n \in Nat
    BY <1>1, <1>4, LineSays, Sizes
  <1>6. \A a \in Address : Cell(a, mem'[a], n)
    <2>1. PICK m \in Nat : AfterDigits(Stored, Len(Numeral) - ADDR, m)
      BY <1>1, <1>3, <1>5, StoredIs
    <2>2. Len(Numeral) - ADDR = 2 * m + 0
      BY <1>4, <2>1 DEF AfterDigits
    <2>3. m = n
      BY <1>4, <1>5, <2>2
    <2> QED
      BY <1>4, <1>5, <2>1, <2>3 DEF AfterDigits
  <1>7. \A i \in Nat : i \in Given(linbuf) <=> i \in 0 .. n - 1
    <2>1. ASSUME NEW i \in Nat PROVE i \in Given(linbuf) <=> i \in 0 .. n - 1
      <3>1. i \in Given(linbuf) <=> ADDR + 2 * i + 2 <= Len(Numeral)
        BY <1>3, GivenIs
      <3> QED
        BY <1>4, <1>5, <3>1
    <2> QED
      BY <2>1
  <1>8. \A d \in A : d.at \in Nat /\ d.at < s /\ d.adr \in Address
    BY <1>2, ImageIsBefore DEF Base, TypeOK
  <1>9. \A d : d \in A \/ d \in B => (d.adr = b.adr => d.at <= b.at)
    BY <1>2 DEF Latest
  <1>10. b \in A \/ b \in B
    BY <1>2 DEF Latest
  <1>11. \A i \in 0 .. n - 1 : \E d \in B : /\ d.at = s + i /\ d.adr = AddressOf(linbuf, i)
                                          /\ d.byte = ByteOf(linbuf, i)
    <2> SUFFICES ASSUME NEW i \in 0 .. n - 1
                 PROVE  \E d \in B : /\ d.at = s + i /\ d.adr = AddressOf(linbuf, i)
                                     /\ d.byte = ByteOf(linbuf, i)
      OBVIOUS
    <2> DEFINE d == [at |-> s + i, adr |-> AddressOf(linbuf, i), byte |-> ByteOf(linbuf, i)]
    <2>1. i \in Given(linbuf)
      BY <1>5, <1>7
    <2>2. d \in B
      BY <2>1 DEF BytesOf
    <2>3. d.at = s + i /\ d.adr = AddressOf(linbuf, i) /\ d.byte = ByteOf(linbuf, i)
      OBVIOUS
    <2> HIDE DEF d
    <2> QED
      BY <2>2, <2>3
  <1> HIDE DEF A
  <1>12. CASE b \in B
    <2>1. PICK i \in Given(linbuf) :
            b = [at |-> s + i, adr |-> AddressOf(linbuf, i), byte |-> ByteOf(linbuf, i)]
      BY <1>12 DEF BytesOf
    <2>2. b.at = s + i /\ b.adr = AddressOf(linbuf, i) /\ b.byte = ByteOf(linbuf, i)
      BY <2>1
    <2>3. i \in Nat /\ AddressOf(linbuf, i) \in Address /\ i \in 0 .. n - 1
      BY <1>3, <1>7, GivenIsOf
    <2> HIDE DEF B
    <2>4. \A j \in 0 .. n - 1 : AddressOf(linbuf, j) = b.adr => j <= i
      <3> SUFFICES ASSUME NEW j \in 0 .. n - 1, AddressOf(linbuf, j) = b.adr PROVE j <= i
        OBVIOUS
      <3>1. PICK d \in B : d.at = s + j /\ d.adr = AddressOf(linbuf, j)
        BY <1>11
      <3>2. s + j <= s + i
        BY <1>9, <2>2, <3>1
      <3> QED
        BY <1>2, <1>5, <2>3, <3>2
    <2>5. Cell(b.adr, mem'[b.adr], n)
      BY <1>6, <2>2, <2>3
    <2>6. PICK j \in 0 .. n - 1 : /\ b.adr = AddressOf(linbuf, j) /\ mem'[b.adr] = ByteOf(linbuf, j)
                                  /\ \A k \in j + 1 .. n - 1 : b.adr # AddressOf(linbuf, k)
      BY <2>2, <2>3, <2>5 DEF Cell
    <2>7. j = i
      <3>1. j <= i
        BY <2>4, <2>6
      <3>2. ~(j + 1 <= i)
        <4> SUFFICES ASSUME j + 1 <= i PROVE FALSE
          OBVIOUS
        <4>1. i \in j + 1 .. n - 1
          BY <1>5, <2>3
        <4> QED
          BY <2>2, <2>6, <4>1
      <3> QED
        BY <1>5, <2>3, <3>1, <3>2
    <2> QED
      BY <2>2, <2>6, <2>7
  <1>13. CASE b \in A
    <2> HIDE DEF B
    <2>1. b.at \in Nat /\ b.at < s /\ b.adr \in Address
      BY <1>8, <1>13
    <2>2. \A j \in 0 .. n - 1 : b.adr # AddressOf(linbuf, j)
      <3> SUFFICES ASSUME NEW j \in 0 .. n - 1, AddressOf(linbuf, j) = b.adr PROVE FALSE
        OBVIOUS
      <3>1. PICK d \in B : d.at = s + j /\ d.adr = AddressOf(linbuf, j)
        BY <1>11
      <3>2. s + j <= b.at
        BY <1>9, <3>1
      <3> QED
        BY <1>2, <1>5, <2>1, <3>2
    <2>3. Cell(b.adr, mem'[b.adr], n)
      BY <1>6, <2>1
    <2>4. mem'[b.adr] = mem[b.adr]
      BY <2>2, <2>3 DEF Cell
    <2>5. b \in Latest(A)
      BY <1>9, <1>13 DEF Latest
    <2>6. StoredBefore(s)
      BY DEF BoardAt
    <2> QED
      BY <2>4, <2>5, <2>6 DEF StoredBefore, A
  <1> QED
    BY <1>10, <1>12, <1>13

\* When a line has been obeyed, memory holds what all lines up to it say.
LEMMA StoredNext ==
  ASSUME Base, NEW s, NEW r, BoardAt(s, r), Obey, Last(linbuf) = NL, file' = file,
         Quietly(linbuf) \/ linbuf[1] # "L", r = Len(file) \/ file[r] = NL
  PROVE  StoredBefore(r + 1)'
  <1>1. ImageBefore(r + 1)' = ImageBefore(r + 1)
    BY FileSame
  <1> SUFFICES ASSUME NEW b \in Latest(ImageBefore(r + 1)) PROVE mem'[b.adr] = b.byte
    BY <1>1 DEF StoredBefore
  <1>2. CASE linbuf[1] = "L"
    BY <1>2, LoadStores
  <1>3. CASE linbuf[1] # "L"
    <2>1. ImageBefore(r + 1) = ImageBefore(s)
      BY <1>3, ImageNext, ObeyCases
    <2>2. mem' = mem
      BY <1>3, LineSays DEF Base
    <2>3. StoredBefore(s)
      BY DEF BoardAt
    <2> QED
      BY <2>1, <2>2, <2>3 DEF StoredBefore
  <1> QED
    BY <1>2, <1>3

\* What the board has, place by place.
LEMMA AtBoard ==
  ASSUME Base, NEW s, NEW r, BoardAt(s, r)
  PROVE  /\ s \in 1 .. Len(file) + 1 /\ r \in s - 1 .. Len(file) /\ s \in Nat /\ r \in Nat
         /\ Len(file) \in Nat /\ file \in Seq(Char) /\ file \in Files /\ DOMAIN file = 1 .. Len(file)
         /\ Len(linbuf) = r - s + 1 /\ (linbuf = <<>> <=> r = s - 1)
         /\ \A j \in s .. r : j - s + 1 \in 1 .. Len(linbuf) /\ linbuf[j - s + 1] = file[j]
         /\ r \in s .. Len(file) => Last(linbuf) = file[r]
  <1>1. file \in Files /\ file \in Seq(Char) /\ Len(file) \in Nat /\ DOMAIN file = 1 .. Len(file)
    BY FileIs DEF Base, TypeOK
  <1>2. s \in 1 .. Len(file) + 1 /\ r \in s - 1 .. Len(file) /\ linbuf = SubSeq(file, s, r)
    BY DEF BoardAt
  <1>3. /\ Len(linbuf) = r - s + 1 /\ (linbuf = <<>> <=> r = s - 1)
        /\ \A j \in s .. r : j - s + 1 \in 1 .. r - s + 1 /\ linbuf[j - s + 1] = file[j]
    <2> DEFINE t == SubSeq(file, s, r)
    <2>1. /\ Len(t) = r - s + 1
          /\ \A j \in s .. r : j - s + 1 \in 1 .. r - s + 1 /\ t[j - s + 1] = file[j]
      BY <1>1, <1>2, PartIs
    <2>2. t = <<>> <=> r = s - 1
      BY <1>1, <1>2, PartEmpty
    <2> HIDE DEF t
    <2>3. linbuf = t
      BY <1>2 DEF t
    <2> QED
      BY <2>1, <2>2, <2>3
  <1>4. s \in Nat /\ r \in Nat
    <2>1. s \in 1 .. Len(file) + 1 /\ r \in s - 1 .. Len(file)
      BY <1>2
    <2> QED
      BY <1>1, <2>1
  <1>5. ASSUME r \in s .. Len(file) PROVE Last(linbuf) = file[r]
    <2>1. r \in s .. r
      BY <1>4, <1>5
    <2> QED
      BY <1>3, <2>1 DEF Last
  <1> QED
    BY <1>1, <1>2, <1>3, <1>4, <1>5

\* A line that getline has not completed has no newline.
LEMMA NoNewline ==
  ASSUME Base, NEW s, NEW r, BoardAt(s, r), mode = "getline"
  PROVE  \A j \in s .. r : file[j] # NL
  <1>1. \A i \in 1 .. Len(linbuf) : linbuf[i] # NL
    BY DEF Base, MonitorInv
  <1>2. \A j \in s .. r : j - s + 1 \in 1 .. Len(linbuf) /\ linbuf[j - s + 1] = file[j]
    BY AtBoard
  <1> QED
    BY <1>1, <1>2

\* The board's line is the line of the file that starts there.
LEMMA LineHere ==
  ASSUME Base, NEW s, NEW r, BoardAt(s, r), s \in 1 .. Len(file)
  PROVE  s \in Starts /\ \E e : EndsAt(s, e) /\ Line(s) = SubSeq(file, s, e) /\ e \in s .. Len(file)
                                /\ Len(Line(s)) = e - s + 1 /\ Last(Line(s)) = file[e]
                                /\ \A j \in s .. e : j - s + 1 \in 1 .. Len(Line(s))
                                                     /\ Line(s)[j - s + 1] = file[j]
  <1>1. s \in Starts
    BY AtBoard DEF BoardAt, Starts
  <1>2. PICK e : EndsAt(s, e)
    BY AtBoard, OneEnd
  <1>3. Line(s) = SubSeq(file, s, e)
    BY <1>2, AtBoard, LineIs
  <1>4. e \in s .. Len(file) /\ file \in Seq(Char) /\ Len(file) \in Nat /\ s \in Nat
    BY <1>2, AtBoard DEF EndsAt
  <1>5. s \in 1 .. Len(file) + 1 /\ e \in s - 1 .. Len(file) /\ e \in s .. e
    BY <1>4
  <1>6. /\ Len(Line(s)) = e - s + 1
        /\ \A j \in s .. e : j - s + 1 \in 1 .. e - s + 1 /\ Line(s)[j - s + 1] = file[j]
    BY <1>3, <1>4, <1>5, PartIs
  <1>7. Last(Line(s)) = file[e]
    BY <1>5, <1>6 DEF Last
  <1> QED
    BY <1>1, <1>2, <1>3, <1>4, <1>6, <1>7

\* The lines of a load file are whole.
LEMMA LinesWhole ==
  ASSUME IsLoadFile, NEW k \in Starts
  PROVE  Whole(Line(k))
  BY DEF IsLoadFile, Quietly, LoadLine, GoLine

\* The monitor has the whole of a load file's line when it obeys it.
LEMMA LineComplete ==
  ASSUME Base, NEW s, NEW r, BoardAt(s, r), mode = "line", IsLoadFile
  PROVE  Last(linbuf) = NL
  <1> SUFFICES ASSUME Last(linbuf) # NL PROVE FALSE
    OBVIOUS
  <1>1. linbuf # <<>> /\ Len(linbuf) = LINSIZ - 1
    BY DEF Base, MonitorInv, Ends
  <1>2. /\ s \in 1 .. Len(file) /\ r \in s .. Len(file) /\ Len(file) \in Nat /\ r - s + 1 = LINSIZ - 1
        /\ LINSIZ \in Nat /\ s \in Nat /\ r \in Nat
    <2>1. /\ s \in 1 .. Len(file) + 1 /\ r \in s - 1 .. Len(file) /\ Len(file) \in Nat
          /\ r # s - 1 /\ Len(linbuf) = r - s + 1 /\ s \in Nat /\ r \in Nat
      BY <1>1, AtBoard
    <2> QED
      BY <1>1, <2>1, Sizes
  <1>3. PICK e \in s .. Len(file) : /\ EndsAt(s, e) /\ Len(Line(s)) = e - s + 1
                                    /\ Last(Line(s)) = file[e]
    BY <1>2, LineHere
  <1>4. file[e] = NL /\ e - s + 1 < LINSIZ
    BY <1>2, <1>3, LineHere, LinesWhole DEF Whole
  <1>5. e <= r
    BY <1>2, <1>4
  <1>6. e # r
    BY <1>2, <1>4, AtBoard
  <1>7. e \in s .. r - 1
    BY <1>2, <1>5, <1>6
  <1> QED
    BY <1>4, <1>7 DEF BoardAt

\* Nor has such a line a carriage return, which getchr would change.
LEMMA NoReturn ==
  ASSUME Base, NEW s, NEW r, BoardAt(s, r), mode = "getline", IsLoadFile, r < Len(file)
  PROVE  file[r + 1] # CR
  <1>1. /\ s \in 1 .. Len(file) /\ r \in s - 1 .. Len(file) - 1 /\ Len(file) \in Nat
        /\ s \in Nat /\ r \in Nat
    <2>1. /\ s \in 1 .. Len(file) + 1 /\ r \in s - 1 .. Len(file) /\ Len(file) \in Nat
          /\ s \in Nat /\ r \in Nat
      BY AtBoard
    <2> QED
      BY <2>1
  <1>2. PICK e \in s .. Len(file) : /\ EndsAt(s, e) /\ Len(Line(s)) = e - s + 1
                                    /\ \A j \in s .. e : j - s + 1 \in 1 .. Len(Line(s))
                                                         /\ Line(s)[j - s + 1] = file[j]
    BY <1>1, LineHere
  <1>3. \A j \in s .. r : file[j] # NL
    BY NoNewline
  <1>4. r + 1 \in s .. e
    <2> SUFFICES ASSUME ~(r + 1 <= e) PROVE FALSE
      BY <1>1
    <2>1. e \in s .. r /\ e # Len(file)
      BY <1>1
    <2> QED
      BY <1>2, <1>3, <2>1 DEF EndsAt
  <1> QED
    BY <1>1, <1>2, <1>4, LineHere, LinesWhole DEF Whole, Contains

-----------------------------------------------------------------------------
(* The board's steps in the file *)

\* A character as the file has it brings the board one further.
LEMMA GetlineAt ==
  ASSUME Base, NEW s, NEW r, BoardAt(s, r), NEW c \in Char, Getline(c), file' = file,
         r < Len(file), getchr(c) = file[r + 1]
  PROVE  BoardAt(s, r + 1)'
  <1>1. /\ s \in 1 .. Len(file) /\ r \in s - 1 .. Len(file) - 1 /\ Len(file) \in Nat
        /\ s \in Nat /\ r \in Nat /\ file \in Seq(Char)
    <2>1. /\ s \in 1 .. Len(file) + 1 /\ r \in s - 1 .. Len(file) /\ Len(file) \in Nat
          /\ s \in Nat /\ r \in Nat /\ file \in Seq(Char)
      BY AtBoard
    <2> QED
      BY <2>1
  <1>2. /\ mode = "getline" /\ linbuf' = Append(linbuf, getchr(c)) /\ mem' = mem
        /\ mode' \in {"getline", "line"}
    BY DEF Getline
  <1>3. linbuf' = SubSeq(file, s, r + 1)
    BY <1>1, <1>2, PartLonger DEF BoardAt
  <1>4. \A j \in s .. (r + 1) - 1 : file[j] # NL
    <2>1. (r + 1) - 1 = r
      BY <1>1
    <2> QED
      BY <1>2, <2>1, NoNewline
  <1>5. s \in 1 .. Len(file) + 1 /\ r + 1 \in s - 1 .. Len(file)
    BY <1>1
  <1>6. QuietBefore(s)' /\ StoredBefore(s)'
    <2>1. StoredBefore(s) /\ QuietBefore(s)
      BY DEF BoardAt
    <2> QED
      BY <1>2, <2>1, FileSame DEF StoredBefore
  <1> QED
    BY <1>2, <1>3, <1>4, <1>5, <1>6 DEF BoardAt

\* The last line is the only one after which nothing can be.
LEMMA LastStart ==
  ASSUME Base, NEW s, NEW r, BoardAt(s, r), r \in s .. Len(file)
  PROVE  /\ IsLast(s) /\ file[r] = NL => r = Len(file)
         /\ r = Len(file) => \A k \in Starts : k <= s /\ (k < s \/ k = s)
  <1>1. Len(file) \in Nat /\ s \in Nat /\ r \in Nat /\ DOMAIN file = 1 .. Len(file)
        /\ s \in 1 .. Len(file) + 1
    BY AtBoard
  <1>2. ASSUME IsLast(s), file[r] = NL, r # Len(file) PROVE FALSE
    <2>1. r + 1 \in 1 .. Len(file) /\ (r + 1) - 1 = r /\ ~(r + 1 <= s)
      <3>1. r \in s .. Len(file) /\ r # Len(file)
        BY <1>2
      <3>2. Len(file) \in Nat /\ s \in Nat /\ r \in Nat
        BY <1>1
      <3>3. r < Len(file)
        BY <3>1, <3>2
      <3> QED
        BY <3>1, <3>2, <3>3
    <2>2. r + 1 \in Starts
      BY <1>1, <1>2, <2>1 DEF Starts
    <2> QED
      BY <1>2, <2>1, <2>2 DEF IsLast
  <1>3. ASSUME r = Len(file), NEW k \in Starts PROVE k <= s /\ (k < s \/ k = s)
    <2>1. k \in 1 .. Len(file)
      BY <1>1 DEF Starts
    <2>2. k < r + 1
      BY <1>1, <1>3, <2>1
    <2>3. k < s \/ k = s
      BY <2>2, NextStart
    <2> QED
      BY <1>1, <2>1, <2>3
  <1> QED
    BY <1>2, <1>3

\* A line obeyed takes the board to the next one, or there is a message: of a load file,
\* only about the last line.
LEMMA ObeyAt ==
  ASSUME Base, NEW s, NEW r, BoardAt(s, r), Obey, file' = file
  PROVE  \/ out' = <<>> /\ BoardAt(r + 1, r)'
         \/ /\ out' \in Messages
            /\ IsLoadFile => r = Len(file)
            /\ r = Len(file) => AllObeyed'
  <1>1. /\ mode = "line" /\ linbuf # <<>> /\ linbuf' = <<>> /\ mode' \in {"getline", "running"}
        /\ Last(linbuf) # NL => out' \in Messages /\ mem' = mem
    BY ObeyIs DEF Base
  <1>2. /\ s \in 1 .. Len(file) /\ r \in s .. Len(file) /\ Len(file) \in Nat
        /\ s \in Nat /\ r \in Nat /\ file \in Seq(Char) /\ Last(linbuf) = file[r]
    <2>1. /\ s \in 1 .. Len(file) + 1 /\ r \in s - 1 .. Len(file) /\ Len(file) \in Nat /\ r # s - 1
          /\ s \in Nat /\ r \in Nat /\ file \in Seq(Char)
      BY <1>1, AtBoard
    <2>2. s \in 1 .. Len(file) /\ r \in s .. Len(file)
      BY <2>1
    <2> QED
      BY <2>1, <2>2, AtBoard
  <1>3. QuietBefore(s)
    BY DEF BoardAt
  <1>4. ASSUME r = Len(file) PROVE \A k \in Starts : IsLast(k) \/ Quietly(Line(k))
    <2>1. IsLast(s)
      BY <1>2, <1>4, LastStart DEF IsLast
    <2> QED
      BY <1>2, <1>3, <1>4, <2>1, LastStart DEF QuietBefore
  <1>5. CASE Last(linbuf) # NL
    <2>1. ~IsLoadFile
      BY <1>1, <1>5, LineComplete
    <2>2. r = Len(file) => AllObeyed'
      BY <1>1, <1>4, <2>1, FileSame DEF AllObeyed
    <2> QED
      BY <1>1, <1>5, <2>1, <2>2
  <1>6. CASE Last(linbuf) = NL /\ Quietly(linbuf)
    <2>1. out' = <<>> /\ mode' = "getline" /\ file[r] = NL
      BY <1>2, <1>6, LineSays DEF Base
    <2>2. StoredBefore(r + 1)'
      BY <1>6, <2>1, StoredNext
    <2>3. QuietBefore(r + 1)'
      <3>1. Line(s) = linbuf
        BY <1>1, <2>1, LineAtBoard
      <3>2. \A k \in Starts : k < r + 1 => k < s \/ k = s
        BY <1>2, NextStart
      <3>3. QuietBefore(r + 1)
        BY <1>3, <1>6, <3>1, <3>2 DEF QuietBefore
      <3> QED
        BY <3>3, FileSame
    <2>4. /\ r + 1 \in 1 .. Len(file) + 1 /\ r \in (r + 1) - 1 .. Len(file) /\ (r + 1) - 1 = r
          /\ \A j \in r + 1 .. r - 1 : FALSE
      BY <1>2
    <2>5. linbuf' = SubSeq(file, r + 1, r)
      BY <1>1, <1>2, <2>4, PartEmpty
    <2>6. BoardAt(r + 1, r)'
      BY <2>1, <2>2, <2>3, <2>4, <2>5 DEF BoardAt
    <2> QED
      BY <2>1, <2>6
  <1>7. CASE Last(linbuf) = NL /\ ~Quietly(linbuf)
    <2>1. out' \in Messages /\ file[r] = NL
      BY <1>2, <1>7, LineSays DEF Base
    <2>2. Line(s) = linbuf /\ s \in Starts
      BY <1>1, <2>1, LineAtBoard
    <2>3. ASSUME IsLoadFile PROVE IsLast(s) /\ linbuf[1] = "G"
      BY <1>7, <2>2, <2>3 DEF IsLoadFile, GoLine
    <2>4. IsLoadFile => r = Len(file)
      BY <1>2, <2>1, <2>3, LastStart
    <2>5. ASSUME IsLoadFile, r = Len(file) PROVE StoredBefore(Len(file) + 1)'
      <3>1. linbuf[1] # "L"
        BY <2>3, <2>5
      <3>2. StoredBefore(r + 1)'
        BY <1>7, <2>1, <3>1, StoredNext
      <3> QED
        BY <2>5, <3>2
    <2>6. r = Len(file) => AllObeyed'
      <3> SUFFICES ASSUME r = Len(file) PROVE AllObeyed'
        OBVIOUS
      <3>1. IsLoadFile => StoredBefore(Len(file) + 1)'
        BY <2>5
      <3> QED
        BY <1>1, <1>4, <3>1, FileSame DEF AllObeyed
    <2> QED
      BY <2>1, <2>4, <2>6
  <1> QED
    BY <1>5, <1>6, <1>7

-----------------------------------------------------------------------------
(* The steps, each with what it changes *)

HostSide == <<kind, file, host, pos, got, verdict, clean>>
Line3    == <<toBoard, toHost, faults>>

Sends == Putchr /\ UNCHANGED <<mode, linbuf, mem>> /\ UNCHANGED HostSide
Takes ==
  /\ toBoard # <<>> /\ Getline(Head(toBoard)) /\ toBoard' = Tail(toBoard)
  /\ UNCHANGED <<toHost, faults>> /\ UNCHANGED HostSide
Obeys == Obey /\ UNCHANGED Line3 /\ UNCHANGED HostSide
Returns ==
  /\ mode = "running" /\ mode' = "getline" /\ UNCHANGED <<linbuf, out, mem>>
  /\ UNCHANGED Line3 /\ UNCHANGED HostSide
Reads ==
  /\ mode = "running" /\ toBoard # <<>> /\ toBoard' = Tail(toBoard)
  /\ UNCHANGED monitor /\ UNCHANGED <<toHost, faults>> /\ UNCHANGED HostSide
Shows ==
  /\ Heard /\ (kind = "te" \/ host = "terminal")
  /\ UNCHANGED monitor /\ UNCHANGED <<toBoard, faults>> /\ UNCHANGED HostSide
Begins ==
  /\ host' = "upload" /\ clean' = (Idle /\ toHost = <<>>) /\ verdict = "none" /\ pos = 0 /\ got = 0
  /\ UNCHANGED monitor /\ UNCHANGED Line3 /\ UNCHANGED <<kind, file, pos, got, verdict>>
Prepares == ~clean'
Leaves ==
  /\ host' = "exit"
  /\ UNCHANGED monitor /\ UNCHANGED Line3 /\ UNCHANGED <<kind, file, pos, got, verdict, clean>>
Writes ==
  /\ host = "upload" /\ host' \in {"upload", "echo"} /\ verdict = "none" /\ pos < Len(file)
  /\ PutCom(file[pos + 1]) /\ file[pos + 1] \in Char /\ pos' = pos + 1 /\ pos + 1 \in 1 .. Len(file)
  /\ UNCHANGED monitor /\ UNCHANGED <<kind, file, got, verdict, clean>>
Completes ==
  /\ host = "upload" /\ pos = Len(file) /\ host' = "terminal" /\ verdict' = "completed"
  /\ kind = "sync" => got = pos
  /\ UNCHANGED monitor /\ UNCHANGED Line3 /\ UNCHANGED <<kind, file, pos, got, clean>>
Accepts ==
  /\ host = "echo" /\ kind = "sync" /\ verdict = "none" /\ got < pos
  /\ Heard /\ Head(toHost) = file[got + 1] /\ got' = got + 1
  /\ host' \in {"upload", "echo"} /\ (\A j \in got + 1 .. pos - 1 : ~LineEnds(j))
  /\ UNCHANGED monitor /\ UNCHANGED <<toBoard, faults>> /\ UNCHANGED <<kind, file, pos, verdict, clean>>
Responds ==
  /\ host \in {"echo", "response"} /\ kind = "sync" /\ Heard /\ verdict = "none"
  /\ host = "echo" => got < pos /\ Head(toHost) # file[got + 1]
  /\ host' \in {"exit", "response"} /\ verdict' \in {"none", "failed"}
  /\ UNCHANGED monitor /\ UNCHANGED <<toBoard, faults>> /\ UNCHANGED <<kind, file, pos, got, clean>>
Fails ==
  /\ host \in {"echo", "response"} /\ kind = "sync" /\ Quiet /\ host' = "exit" /\ verdict' = "failed"
  /\ host = "echo" => got < pos
  /\ UNCHANGED monitor /\ UNCHANGED Line3 /\ UNCHANGED <<kind, file, pos, got, clean>>
Stays == UNCHANGED monitor /\ UNCHANGED Line3 /\ UNCHANGED HostSide

BoardSteps == Sends \/ Takes \/ Obeys \/ Returns \/ Reads
HostSteps  == \/ Shows \/ Begins \/ Prepares \/ Leaves \/ Writes \/ Completes \/ Accepts
              \/ Responds \/ Fails \/ Stays

\* The steps of the system are these.
LEMMA StepIs ==
  ASSUME Base, [Next]_vars
  PROVE  BoardSteps \/ HostSteps
  <1>1. TypeOK /\ HostInv
    BY DEF Base
  <1>2. CASE Board
    BY <1>2 DEF Board, Received, Sends, Takes, Obeys, BoardSteps, HostSide, hostvars, Line3, wire
  <1>3. CASE Program
    BY <1>3 DEF Program, ProgramReturns, ProgramReads, Received, Returns, Reads, BoardSteps,
                HostSide, hostvars, Line3, wire
  <1>4. CASE Show
    <2>1. Shows
      BY <1>4 DEF Show, Heard, Shows, HostSide, hostvars
    <2> QED
      BY <2>1 DEF HostSteps
  <1>5. CASE AskFile \/ OpenNone \/ \E c \in Typed : Type(c)
    <2>1. Prepares
      BY <1>1, <1>5 DEF AskFile, OpenNone, Type, HostInv, Prepares
    <2> QED
      BY <2>1 DEF HostSteps
  <1>6. CASE Open
    <2>1. Begins
      BY <1>1, <1>6 DEF Open, HostInv, Begins, hostvars, wire, Line3
    <2> QED
      BY <2>1 DEF HostSteps
  <1>7. CASE Break
    <2>1. Leaves
      BY <1>7 DEF Break, Leaves, hostvars, wire, Line3
    <2> QED
      BY <2>1 DEF HostSteps
  <1>8. CASE Write
    <2>1. /\ host = "upload" /\ pos < Len(file) /\ PutCom(file[pos + 1]) /\ pos' = pos + 1
          /\ UNCHANGED monitor /\ UNCHANGED <<kind, file, got, verdict, clean>>
          /\ host' \in {"upload", "echo"}
      BY <1>8 DEF Write, hostvars
    <2>2. verdict = "none" /\ pos \in 0 .. Len(file) /\ file \in Files
      BY <1>1, <2>1 DEF HostInv, TypeOK
    <2>3. pos + 1 \in 1 .. Len(file)
      BY <2>1, <2>2, FileIs
    <2>4. file[pos + 1] \in Char
      BY <2>2, <2>3, FileIs, ElementOfSeq
    <2>5. Writes
      BY <2>1, <2>2, <2>3, <2>4 DEF Writes
    <2> QED
      BY <2>5 DEF HostSteps
  <1>9. CASE Complete
    <2>1. Base' /\ verdict' = "completed" /\ UNCHANGED <<kind, file, pos, got, clean>>
      BY <1>9, BaseTerminal DEF Complete, hostvars
    <2>2. kind = "sync" => got = pos
      BY <2>1 DEF Base, HostInv
    <2>3. Completes
      BY <1>9, <2>2 DEF Complete, Completes, hostvars, wire, Line3
    <2> QED
      BY <2>3 DEF HostSteps
  <1>10. CASE AwaitEcho
    <2>1. /\ UNCHANGED monitor /\ UNCHANGED <<kind, file, pos, clean>> /\ host = "echo" /\ Heard
          /\ Echoed(Head(toHost)) /\ UNCHANGED <<toBoard, faults>>
      BY <1>10 DEF AwaitEcho, hostvars, Heard
    <2>2. verdict = "none" /\ kind = "sync" /\ got < pos /\ \A j \in got + 1 .. pos - 1 : ~LineEnds(j)
      BY <1>1, <2>1 DEF HostInv
    <2>3. CASE Head(toHost) = file[got + 1]
      <3>1. got' = got + 1 /\ host' \in {"upload", "echo"} /\ verdict' = verdict
        BY <2>1, <2>3 DEF Echoed, Accepted
      <3>2. Accepts
        BY <2>1, <2>2, <2>3, <3>1 DEF Accepts
      <3> QED
        BY <3>2 DEF HostSteps
    <2>4. CASE Head(toHost) # file[got + 1]
      <3>1. got' = got /\ host' \in {"exit", "response"} /\ verdict' \in {"none", "failed"}
        BY <2>1, <2>2, <2>4 DEF Echoed, Respond, Fail
      <3>2. Responds
        BY <2>1, <2>2, <2>4, <3>1 DEF Responds
      <3> QED
        BY <3>2 DEF HostSteps
    <2> QED
      BY <2>3, <2>4
  <1>11. CASE ReadResponse
    <2>1. Responds
      BY <1>1, <1>11 DEF ReadResponse, HostInv, Respond, Fail, Responds, Heard, hostvars
    <2> QED
      BY <2>1 DEF HostSteps
  <1>12. CASE Timeout
    <2>1. Fails
      BY <1>1, <1>12 DEF Timeout, HostInv, Fail, Fails, hostvars, wire, Line3
    <2> QED
      BY <2>1 DEF HostSteps
  <1>13. CASE UNCHANGED vars
    <2>1. Stays
      BY <1>13 DEF vars, Stays, HostSide, hostvars, wire, Line3
    <2> QED
      BY <2>1 DEF HostSteps
  <1> QED
    BY <1>2, <1>3, <1>4, <1>5, <1>6, <1>7, <1>8, <1>9, <1>10, <1>11, <1>12, <1>13 DEF Next, Upload

-----------------------------------------------------------------------------
(* What is on its way to the host *)

Pending == toHost \o out

LEMMA PendingIs ==
  ASSUME Base
  PROVE  /\ Pending \in Seq(Message) /\ Len(Pending) = Len(toHost) + Len(out)
         /\ Len(toHost) \in Nat /\ Len(out) \in Nat /\ Len(Pending) \in Nat
         /\ Pending = <<>> <=> toHost = <<>> /\ out = <<>>
  <1>1. toHost \in Seq(Message) /\ out \in Seq(Message)
    BY DEF Base, TypeOK, MonitorInv, Message
  <1>2. Pending \in Seq(Message) /\ Len(Pending) = Len(toHost) + Len(out)
    BY <1>1, ConcatProperties DEF Pending
  <1>3. Pending = <<>> <=> toHost = <<>> /\ out = <<>>
    BY <1>1, ConcatEqualIffEmpty DEF Pending
  <1>4. Len(toHost) \in Nat /\ Len(out) \in Nat /\ Len(Pending) \in Nat
    BY <1>1, <1>2, LenProperties
  <1> QED
    BY <1>1, <1>2, <1>3, <1>4

\* putchr moves a character from the board to the line.
LEMMA PendingSent ==
  ASSUME Base, Putchr
  PROVE  /\ Len(Pending') \in Nat /\ Len(Pending') <= Len(Pending)
         /\ faults'.up = 0 => Pending' = Pending
  <1>1. /\ toHost \in Seq(Message) /\ out \in Seq(Message) /\ out # <<>>
        /\ out' = Tail(out) /\ out' \in Seq(Message) /\ Len(out') = Len(out) - 1
        /\ toHost' \in Seq(Message) /\ Len(toHost') \in Len(toHost) .. Len(toHost) + 1
        /\ faults'.up = 0 => toHost' = Append(toHost, Head(out))
        /\ Head(out) \in Message
    BY CarryUp DEF Base, TypeOK, MonitorInv, Message
  <1>2. Len(Pending') = Len(toHost') + Len(out')
    BY <1>1, ConcatProperties DEF Pending
  <1>3. Len(out) \in Nat \ {0}
    BY <1>1, EmptySeq
  <1>4. Len(Pending') \in Nat /\ Len(Pending') <= Len(Pending)
    BY <1>1, <1>2, <1>3, PendingIs
  <1>5. ASSUME faults'.up = 0 PROVE Pending' = Pending
    <2>1. toHost' = toHost \o <<Head(out)>>
      BY <1>1, <1>5, AppendIsConcat
    <2>2. out = <<Head(out)>> \o Tail(out)
      <3>1. 1 \in 1 .. Len(out) /\ Len(out) \in 1 .. Len(out) /\ 1 + 1 = 2
        BY <1>3
      <3>2. SubSeq(out, 1, Len(out)) = <<out[1]>> \o SubSeq(out, 1 + 1, Len(out))
        BY <1>1, <3>1, SubSeqRecursiveFirst
      <3>3. SubSeq(out, 1, Len(out)) = out /\ Tail(out) = SubSeq(out, 2, Len(out))
        BY <1>1, SubSeqFull, TailIsSubSeq
      <3>4. Head(out) = out[1]
        BY <1>1
      <3> QED
        BY <3>1, <3>2, <3>3, <3>4
    <2>3. <<Head(out)>> \in Seq(Message)
      BY <1>1
    <2>4. (toHost \o <<Head(out)>>) \o Tail(out) = toHost \o (<<Head(out)>> \o Tail(out))
      BY <1>1, <2>3, ConcatAssociative
    <2> QED
      BY <1>1, <2>1, <2>2, <2>4 DEF Pending
  <1> QED
    BY <1>4, <1>5

\* Taking the first of two sequences joined.
LEMMA TailConcat ==
  ASSUME NEW S, NEW q \in Seq(S), NEW m \in Seq(S), q # <<>>
  PROVE  q \o m # <<>> /\ Head(q \o m) = Head(q) /\ (q \o m)[1] = q[1] /\ Tail(q \o m) = Tail(q) \o m
  <1> DEFINE a == Len(q)
             b == Len(m)
             p == q \o m
             t == Tail(q)
             u == Tail(p)
             v == t \o m
  <1>1. a \in Nat \ {0} /\ b \in Nat
    BY EmptySeq
  <1>2. /\ p \in Seq(S) /\ Len(p) = a + b
        /\ \A i \in 1 .. a + b : p[i] = IF i <= a THEN q[i] ELSE m[i - a]
    BY ConcatProperties
  <1>3. t \in Seq(S) /\ Len(t) = a - 1 /\ \A i \in 1 .. a - 1 : t[i] = q[i + 1]
    BY HeadTailProperties
  <1> HIDE DEF a, b, p, t
  <1>4. p # <<>> /\ p[1] = q[1]
    <2>1. 1 \in 1 .. a + b /\ 1 <= a
      BY <1>1
    <2>2. 1 \in 1 .. a + b => p # <<>>
      BY <1>2
    <2> QED
      BY <1>2, <2>1, <2>2
  <1>5. u \in Seq(S) /\ Len(u) = a + b - 1 /\ \A i \in 1 .. a + b - 1 : u[i] = p[i + 1]
    <2>1. u \in Seq(S) /\ Len(u) = Len(p) - 1 /\ \A i \in 1 .. Len(u) : u[i] = p[i + 1]
      BY <1>2, <1>4, HeadTailProperties
    <2>2. Len(p) - 1 = a + b - 1
      BY <1>1, <1>2
    <2> QED
      BY <2>1, <2>2
  <1>6. /\ v \in Seq(S) /\ Len(v) = a - 1 + b
        /\ \A i \in 1 .. a - 1 + b : v[i] = IF i <= a - 1 THEN t[i] ELSE m[i - (a - 1)]
    <2>1. /\ v \in Seq(S) /\ Len(v) = Len(t) + b
          /\ \A i \in 1 .. Len(t) + b : v[i] = IF i <= Len(t) THEN t[i] ELSE m[i - Len(t)]
      BY <1>3, ConcatProperties DEF b
    <2> QED
      BY <1>3, <2>1
  <1> HIDE DEF u, v
  <1>7. ASSUME NEW i \in 1 .. a + b - 1 PROVE u[i] = v[i]
    <2> DEFINE k == i + 1
    <2>1. /\ i \in 1 .. a - 1 + b /\ k \in 1 .. a + b /\ (i <= a - 1 <=> k <= a)
          /\ i - (a - 1) = k - a
      BY <1>1
    <2>2. u[i] = p[k]
      BY <1>5
    <2> HIDE DEF k
    <2>3. CASE k <= a
      <3>1. i \in 1 .. a - 1
        BY <1>1, <2>1, <2>3
      <3>2. t[i] = q[k]
        BY <1>3, <3>1 DEF k
      <3> QED
        BY <1>2, <1>6, <2>1, <2>2, <2>3, <3>2
    <2>4. CASE ~(k <= a)
      <3>1. p[k] = m[k - a]
        BY <1>2, <2>1, <2>4
      <3>2. v[i] = m[i - (a - 1)]
        BY <1>6, <2>1, <2>4
      <3> QED
        BY <2>1, <2>2, <3>1, <3>2
    <2> QED
      BY <2>3, <2>4
  <1>8. a + b - 1 = a - 1 + b
    BY <1>1
  <1>9. u = v
    BY <1>5, <1>6, <1>7, <1>8, SeqEqual
  <1>10. Head(p) = p[1] /\ Head(q) = q[1]
    BY <1>1, <1>2, <1>4 DEF a
  <1> QED
    BY <1>4, <1>9, <1>10 DEF p, t, u, v

\* The host takes the first character that is pending.
LEMMA PendingHeard ==
  ASSUME Base, Heard, out' = out
  PROVE  /\ Pending # <<>> /\ Head(Pending) = Head(toHost) /\ Pending[1] = Head(toHost)
         /\ Pending' = Tail(Pending) /\ Len(Pending') = Len(Pending) - 1
  <1>1. toHost \in Seq(Message) /\ out \in Seq(Message) /\ toHost # <<>> /\ toHost' = Tail(toHost)
    BY HeardIs DEF Base, TypeOK, MonitorInv, Message
  <1>2. /\ Pending # <<>> /\ Head(Pending) = Head(toHost) /\ Pending[1] = toHost[1]
        /\ Tail(Pending) = Tail(toHost) \o out
    BY <1>1, TailConcat DEF Pending
  <1>3. Pending' = Tail(Pending)
    BY <1>1, <1>2 DEF Pending
  <1>4. Len(Tail(Pending)) = Len(Pending) - 1
    BY <1>2, PendingIs, HeadTailProperties
  <1>5. Head(toHost) = toHost[1]
    BY <1>1, EmptySeq
  <1> QED
    BY <1>2, <1>3, <1>4, <1>5

\* What the board says comes last.
LEMMA PendingSaid ==
  ASSUME Base, out = <<>>, toHost' = toHost
  PROVE  Pending = toHost /\ Pending' = Pending \o out'
  <1>1. toHost \in Seq(Message)
    BY DEF Base, TypeOK, Message
  <1>2. Pending = toHost
    BY <1>1, ConcatEmptySeq DEF Pending
  <1> QED
    BY <1>2 DEF Pending

-----------------------------------------------------------------------------
(* When nothing is lost on the way to the board *)

\* The upload is past the board's last line.
Over == AllObeyed /\ pos = Len(file) /\ toBoard = <<>>

\* The characters after r are on their way.
Underway(r) == r \in 0 .. pos /\ toBoard = SubSeq(file, r + 1, pos)

DownInv ==
  clean /\ IsLoadFile /\ faults.down = 0 =>
    \E r \in 0 .. Len(file) :
      Underway(r) /\ (Over \/ \E s \in 1 .. Len(file) + 1 : BoardAt(s, r))

\* What is under way, place by place.
LEMMA UnderwayIs ==
  ASSUME Base, NEW r, Underway(r)
  PROVE  /\ r \in Nat /\ r <= pos /\ r + 1 \in 1 .. Len(file) + 1 /\ Len(toBoard) = pos - r
         /\ (toBoard = <<>> <=> r = pos) /\ (pos = Len(file) /\ toBoard = <<>> => r = Len(file))
         /\ r = Len(file) => pos = Len(file) /\ toBoard = <<>>
         /\ toBoard # <<>> => /\ r < pos /\ r < Len(file) /\ Head(toBoard) = file[r + 1]
                              /\ Tail(toBoard) = SubSeq(file, r + 2, pos)
  <1>1. /\ r \in 0 .. pos /\ toBoard = SubSeq(file, r + 1, pos) /\ pos \in 0 .. Len(file)
        /\ file \in Seq(Char) /\ Len(file) \in Nat
    BY FileIs DEF Underway, Base, TypeOK
  <1>2. r + 1 \in 1 .. Len(file) + 1 /\ pos \in (r + 1) - 1 .. Len(file) /\ pos - (r + 1) + 1 = pos - r
        /\ (r + 1) - 1 = r /\ r \in Nat /\ r <= pos
    BY <1>1
  <1>3. Len(toBoard) = pos - r
    BY <1>1, <1>2, PartIs
  <1>4. toBoard = <<>> <=> r = pos
    BY <1>1, <1>2, PartEmpty
  <1>5. ASSUME toBoard # <<>>
        PROVE  /\ r < pos /\ r < Len(file) /\ Head(toBoard) = file[r + 1]
               /\ Tail(toBoard) = SubSeq(file, r + 2, pos)
    <2>1. r < pos /\ r < Len(file) /\ r + 1 \in 1 .. Len(file) /\ pos \in r + 1 .. Len(file)
          /\ (r + 1) + 1 = r + 2
      BY <1>1, <1>2, <1>4, <1>5
    <2> QED
      BY <1>1, <2>1, PartShorter
  <1>6. r = Len(file) => pos = Len(file) /\ r = pos
    BY <1>1
  <1> QED
    BY <1>2, <1>3, <1>4, <1>5, <1>6

\* The board takes the next character of the file.
LEMMA UnderwayTaken ==
  ASSUME Base, NEW r, Underway(r), toBoard # <<>>, toBoard' = Tail(toBoard), UNCHANGED <<file, pos>>
  PROVE  Underway(r + 1)' /\ r + 1 \in 0 .. Len(file) /\ r + 1 <= pos
  <1>1. r \in Nat /\ r < pos /\ r < Len(file) /\ Tail(toBoard) = SubSeq(file, r + 2, pos)
    BY UnderwayIs
  <1>2. pos \in Nat /\ Len(file) \in Nat
    BY FileIs DEF Base, TypeOK
  <1>3. (r + 1) + 1 = r + 2 /\ r + 1 \in 0 .. pos /\ r + 1 \in 0 .. Len(file) /\ r + 1 <= pos
    BY <1>1, <1>2
  <1> QED
    BY <1>1, <1>3 DEF Underway

\* The host adds the next character of the file.
LEMMA UnderwayWritten ==
  ASSUME Base, NEW r, Underway(r), Writes, faults'.down = 0
  PROVE  Underway(r)' /\ faults.down = 0
  <1>1. toBoard' = Append(toBoard, file[pos + 1]) /\ faults.down = 0
    BY CarryDown DEF Writes, Base
  <1>2. /\ r \in 0 .. pos /\ toBoard = SubSeq(file, r + 1, pos) /\ pos \in 0 .. Len(file)
        /\ file \in Seq(Char) /\ Len(file) \in Nat /\ pos < Len(file) /\ pos' = pos + 1 /\ file' = file
    BY FileIs DEF Underway, Base, TypeOK, Writes
  <1>3. r + 1 \in 1 .. Len(file) /\ pos \in (r + 1) - 1 .. Len(file) - 1 /\ r \in 0 .. pos + 1
    BY <1>2
  <1>4. Append(SubSeq(file, r + 1, pos), file[pos + 1]) = SubSeq(file, r + 1, pos + 1)
    BY <1>2, <1>3, PartLonger
  <1> QED
    BY <1>1, <1>2, <1>3, <1>4 DEF Underway

LEMMA UnderwaySame ==
  ASSUME NEW r, Underway(r), UNCHANGED <<file, pos, toBoard>>
  PROVE  Underway(r)'
  BY DEF Underway

\* Over excludes what a board that reads would do.
LEMMA OverKept ==
  ASSUME Over
  PROVE  /\ Sends => Over'
         /\ Returns => Over'
         /\ ~Takes /\ ~Obeys /\ ~Reads
  <1>1. ~Takes /\ ~Reads
    BY DEF Over, Takes, Reads
  <1>2. ~Obeys
    BY DEF Over, AllObeyed, Obeys, Obey
  <1>3. ASSUME Sends PROVE Over'
    <2>1. UNCHANGED <<file, mode, linbuf, mem, pos, toBoard>>
      BY <1>3 DEF Sends, Putchr, HostSide
    <2> QED
      BY <2>1, BoardSame DEF Over
  <1>4. ASSUME Returns PROVE Over'
    <2>1. UNCHANGED <<file, linbuf, mem, pos, toBoard>> /\ mode' = "getline"
      BY <1>4 DEF Returns, HostSide, Line3
    <2>2. \A s : StoredBefore(s) => StoredBefore(s)'
      BY <2>1, FileSame DEF StoredBefore
    <2>3. AllObeyed'
      BY <2>1, <2>2, FileSame DEF Over, AllObeyed
    <2> QED
      BY <2>1, <2>3 DEF Over
  <1> QED
    BY <1>1, <1>2, <1>3, <1>4

LEMMA DownInit ==
  ASSUME Init
  PROVE  DownInv
  BY DEF Init, DownInv

\* The board follows the file.
LEMMA DownBoard ==
  ASSUME Base, DownInv, BoardSteps
  PROVE  DownInv'
  <1> SUFFICES ASSUME clean', IsLoadFile', faults'.down = 0
               PROVE  \E r \in 0 .. Len(file) :
                        Underway(r)' /\ (Over' \/ \E s \in 1 .. Len(file) + 1 : BoardAt(s, r)')
    <2>1. file' = file
      BY DEF BoardSteps, Sends, Takes, Obeys, Returns, Reads, HostSide
    <2> QED
      BY <2>1 DEF DownInv
  <1>1. UNCHANGED <<kind, file, host, pos, got, verdict, clean>>
    BY DEF BoardSteps, Sends, Takes, Obeys, Returns, Reads, HostSide
  <1>2. faults.down = 0 /\ clean /\ IsLoadFile
    <2>1. Sends => faults'.down = faults.down
      BY CarryUp DEF Sends, Base
    <2>2. Takes \/ Obeys \/ Returns \/ Reads => faults' = faults
      BY DEF Takes, Obeys, Returns, Reads, Line3
    <2> QED
      BY <1>1, <2>1, <2>2, FileSame DEF BoardSteps
  <1>3. PICK r \in 0 .. Len(file) :
          Underway(r) /\ (Over \/ \E s \in 1 .. Len(file) + 1 : BoardAt(s, r))
    BY <1>2 DEF DownInv
  <1>4. CASE Over
    <2>1. (Sends => Over') /\ (Returns => Over') /\ ~Takes /\ ~Obeys /\ ~Reads
      BY <1>4, OverKept
    <2>2. Sends \/ Returns => UNCHANGED toBoard
      BY DEF Sends, Putchr, Returns, Line3
    <2> QED
      BY <1>1, <1>3, <2>1, <2>2, UnderwaySame DEF BoardSteps
  <1>5. ASSUME NEW s \in 1 .. Len(file) + 1, BoardAt(s, r)
        PROVE  \E q \in 0 .. Len(file) :
                 Underway(q)' /\ (Over' \/ \E t \in 1 .. Len(file) + 1 : BoardAt(t, q)')
    <2>1. CASE Sends
      <3>1. UNCHANGED <<file, mode, linbuf, mem, pos, toBoard>>
        BY <2>1 DEF Sends, Putchr, HostSide
      <3> QED
        BY <1>3, <1>5, <3>1, UnderwaySame, BoardSame
    <2>2. CASE Takes
      <3>1. /\ toBoard # <<>> /\ toBoard' = Tail(toBoard) /\ Getline(Head(toBoard))
            /\ Head(toBoard) \in Char /\ mode = "getline"
        BY <2>2, Taken DEF Takes, Base, Getline
      <3>2. r < Len(file) /\ Head(toBoard) = file[r + 1]
        BY <1>3, <3>1, UnderwayIs
      <3>3. file[r + 1] # CR
        BY <1>2, <1>5, <3>1, <3>2, NoReturn
      <3>4. BoardAt(s, r + 1)'
        BY <1>1, <1>5, <3>1, <3>2, <3>3, GetlineAt DEF getchr
      <3>5. Underway(r + 1)' /\ r + 1 \in 0 .. Len(file)
        BY <1>1, <1>3, <3>1, UnderwayTaken
      <3> QED
        BY <3>4, <3>5
    <2>3. CASE Obeys
      <3>1. Obey /\ UNCHANGED <<file, pos, toBoard>>
        BY <2>3 DEF Obeys, Line3, HostSide
      <3>2. Underway(r)'
        BY <1>3, <3>1, UnderwaySame
      <3>3. \/ BoardAt(r + 1, r)'
            \/ r = Len(file) /\ AllObeyed'
        BY <1>2, <1>5, <3>1, ObeyAt
      <3>4. r + 1 \in 1 .. Len(file) + 1
        BY <1>3, UnderwayIs
      <3>5. r = Len(file) => pos = Len(file) /\ toBoard = <<>>
        BY <1>3, UnderwayIs
      <3>6. r = Len(file) /\ AllObeyed' => Over'
        BY <3>1, <3>5 DEF Over
      <3> QED
        BY <1>3, <3>2, <3>3, <3>4, <3>6
    <2>4. CASE Returns \/ Reads
      BY <1>5, <2>4 DEF Returns, Reads, BoardAt
    <2> QED
      BY <2>1, <2>2, <2>3, <2>4 DEF BoardSteps
  <1> QED
    BY <1>3, <1>4, <1>5

\* The board is where the file begins.
LEMMA BeginsAt ==
  ASSUME Base, Begins, clean'
  PROVE  /\ BoardAt(1, 0)' /\ Underway(0)' /\ file' = file /\ Len(file) \in Nat
         /\ pos' = 0 /\ got' = 0 /\ linbuf' = <<>> /\ toBoard' = <<>> /\ out' = <<>> /\ toHost' = <<>>
         /\ SubSeq(file, 1, 0) = <<>>
  <1>1. /\ file' = file /\ UNCHANGED monitor /\ pos = 0 /\ pos' = 0 /\ got = 0 /\ got' = 0
        /\ mode = "getline" /\ linbuf = <<>> /\ toBoard = <<>> /\ toBoard' = <<>>
        /\ linbuf' = <<>> /\ out' = <<>> /\ toHost' = <<>>
    BY DEF Begins, Idle, Line3, monitor
  <1>2. /\ file \in Seq(Char) /\ Len(file) \in Nat /\ 0 \in 0 .. Len(file) /\ 1 \in 1 .. Len(file) + 1
        /\ 0 \in 0 .. 0 /\ 0 \in 1 - 1 .. Len(file) /\ 0 = 1 - 1 /\ 0 + 1 = 1
        /\ \A j \in 1 .. 0 - 1 : FALSE
    BY FileIs DEF Base, TypeOK
  <1>3. SubSeq(file, 1, 0) = <<>>
    BY <1>2, PartEmpty
  <1>4. Underway(0)'
    BY <1>1, <1>2, <1>3 DEF Underway
  <1>5. BoardAt(1, 0)'
    <2>1. \A k \in Starts : ~(k < 1)
      BY <1>2, FileIs DEF Starts, Base, TypeOK
    <2>2. QuietBefore(1)
      BY <2>1 DEF QuietBefore
    <2>3. StoredBefore(1)
      BY <2>1 DEF StoredBefore, ImageBefore, Latest
    <2>4. BoardAt(1, 0)
      BY <1>1, <1>2, <1>3, <2>2, <2>3 DEF BoardAt
    <2>5. UNCHANGED <<file, mode, linbuf, mem>>
      BY <1>1 DEF monitor
    <2> QED
      BY <2>4, <2>5, BoardSame
  <1> QED
    BY <1>1, <1>2, <1>3, <1>4, <1>5

\* The host writes the file.
LEMMA DownHost ==
  ASSUME Base, DownInv, HostSteps
  PROVE  DownInv'
  <1>1. CASE Prepares
    BY <1>1 DEF Prepares, DownInv
  <1>2. CASE Begins
    <2>1. clean' => 0 \in 0 .. Len(file)' /\ 1 \in 1 .. Len(file)' + 1
      BY <1>2, BeginsAt
    <2> QED
      BY <1>2, <2>1, BeginsAt DEF DownInv
  <1>3. CASE Writes
    <2>1. /\ UNCHANGED <<file, mode, linbuf, mem, clean>> /\ pos < Len(file)
      BY <1>3 DEF Writes, monitor
    <2> SUFFICES ASSUME clean', IsLoadFile', faults'.down = 0
                 PROVE  \E r \in 0 .. Len(file) :
                          Underway(r)' /\ (Over' \/ \E s \in 1 .. Len(file) + 1 : BoardAt(s, r)')
      BY <2>1 DEF DownInv
    <2>2. faults.down = 0 /\ clean /\ IsLoadFile
      <3>1. faults.down = 0
        BY <1>3, CarryDown DEF Writes, Base
      <3> QED
        BY <2>1, <3>1, FileSame
    <2>3. PICK r \in 0 .. Len(file) :
            Underway(r) /\ (Over \/ \E s \in 1 .. Len(file) + 1 : BoardAt(s, r))
      BY <2>2 DEF DownInv
    <2>4. ~Over
      <3>1. Len(file) \in Nat /\ pos \in Nat
        BY FileIs DEF Base, TypeOK
      <3> QED
        BY <2>1, <3>1 DEF Over
    <2>5. Underway(r)'
      BY <1>3, <2>3, UnderwayWritten
    <2> QED
      BY <2>1, <2>3, <2>4, <2>5, BoardSame
  <1>4. CASE Shows \/ Leaves \/ Completes \/ Accepts \/ Responds \/ Fails \/ Stays
    <2>1. UNCHANGED <<file, mode, linbuf, mem, clean, pos, toBoard, faults>>
      BY <1>4 DEF Shows, Leaves, Completes, Accepts, Responds, Fails, Stays, monitor, Line3, HostSide
    <2>2. Over => Over'
      BY <2>1, BoardSame DEF Over
    <2> QED
      BY <2>1, <2>2, BoardSame, UnderwaySame, FileSame DEF DownInv
  <1> QED
    BY <1>1, <1>2, <1>3, <1>4 DEF HostSteps

-----------------------------------------------------------------------------
(* When nothing is lost on the way to the host *)

\* The board is in step with the file: what it has of it, up to r, is echoed.
InStep(s, r) ==
  /\ BoardAt(s, r) /\ r \in got .. pos /\ Pending = SubSeq(file, got + 1, r)
  /\ Len(toBoard) <= pos - r
  /\ faults.down = 0 => Underway(r)

\* The upload is past the last line, and the host will be told.
Told == Over /\ \E m \in Messages : Pending = SubSeq(file, got + 1, Len(file)) \o m

\* The echo differs from the file, d characters on.
Differs(d) ==
  /\ d \in 1 .. Len(Pending) /\ got + d <= Len(file) /\ Pending[d] # file[got + d]
  /\ Len(toBoard) <= pos - (got + d - 1)
  /\ IsLoadFile => got + d <= pos /\ faults.down # 0

InSight ==
  \/ \E s \in 1 .. Len(file) + 1 : \E r \in 0 .. Len(file) : InStep(s, r)
  \/ Told
  \/ \E d \in 1 .. Len(Pending) : Differs(d)

UpInv == clean /\ kind # "te" /\ faults.up = 0 /\ host \in {"upload", "echo"} => InSight

LEMMA MessageIs ==
  ASSUME NEW m \in Messages
  PROVE  m \in Seq(Message) /\ Len(m) = 2 /\ m[1] \in {Report, Jump}
  <1>1. NL \in Message /\ Report \in Message /\ Jump \in Message
    BY Tokens DEF Message
  <1>2. CASE m = <<Report, NL>>
    BY <1>1, <1>2
  <1>3. CASE m = <<Jump, NL>>
    BY <1>1, <1>3
  <1> QED
    BY <1>2, <1>3 DEF Messages

\* The places in the file, and what is on the lines.
LEMMA Places ==
  ASSUME Base
  PROVE  /\ file \in Files /\ file \in Seq(Char) /\ Len(file) \in Nat
         /\ pos \in Nat /\ got \in Nat /\ pos <= Len(file) /\ got <= pos
         /\ toBoard \in Seq(Char) /\ Len(toBoard) \in Nat
         /\ got + 1 \in 1 .. Len(file) + 1
         /\ Pending \in Seq(Message) /\ Len(Pending) \in Nat
  <1>1. file \in Files /\ pos \in 0 .. Len(file) /\ got \in 0 .. pos /\ toBoard \in Seq(Char)
    BY DEF Base, TypeOK
  <1>2. file \in Seq(Char) /\ Len(file) \in Nat /\ Len(toBoard) \in Nat
    BY <1>1, FileIs, LenProperties
  <1>3. pos \in Nat /\ got \in Nat /\ pos <= Len(file) /\ got <= pos /\ got + 1 \in 1 .. Len(file) + 1
    BY <1>1, <1>2
  <1> QED
    BY <1>1, <1>2, <1>3, PendingIs

\* What is pending when the echo is in step.
LEMMA InStepIs ==
  ASSUME Base, NEW s, NEW r, InStep(s, r)
  PROVE  /\ r \in Nat /\ got <= r /\ r <= pos /\ r \in (got + 1) - 1 .. Len(file)
         /\ Len(Pending) = r - got /\ (Pending = <<>> <=> r = got)
         /\ SubSeq(file, got + 1, r) \in Seq(Message)
         /\ toBoard # <<>> => r < pos /\ r < Len(file) /\ r + 1 \in 1 .. Len(file)
  <1>1. r \in got .. pos /\ Pending = SubSeq(file, got + 1, r) /\ Len(toBoard) <= pos - r
    BY DEF InStep
  <1>2. r \in Nat /\ got <= r /\ r <= pos /\ r \in (got + 1) - 1 .. Len(file) /\ r - (got + 1) + 1 = r - got
        /\ (r = (got + 1) - 1 <=> r = got)
    BY <1>1, Places
  <1>3. Len(Pending) = r - got /\ (Pending = <<>> <=> r = got)
    BY <1>1, <1>2, Places, PartIs, PartEmpty
  <1>4. toBoard # <<>> => Len(toBoard) > 0
    BY Places, EmptySeq
  <1>5. toBoard # <<>> => r < pos /\ r < Len(file) /\ r + 1 \in 1 .. Len(file)
    BY <1>1, <1>2, <1>4, Places
  <1> QED
    BY <1>1, <1>2, <1>3, <1>5, Places

\* What is added to what is pending leaves what was pending in its place.
LEMMA DiffersStill ==
  ASSUME Base, NEW d, Differs(d), NEW m \in Seq(Message), Pending' = Pending \o m,
         Len(toBoard') \in Nat, Len(toBoard') <= Len(toBoard), UNCHANGED <<file, pos, got>>,
         faults.down # 0 => faults'.down # 0
  PROVE  d \in 1 .. Len(Pending') /\ Differs(d)'
  <1>1. /\ d \in 1 .. Len(Pending) /\ got + d <= Len(file) /\ Pending[d] # file[got + d]
        /\ Len(toBoard) <= pos - (got + d - 1)
        /\ IsLoadFile => got + d <= pos /\ faults.down # 0
    BY DEF Differs
  <1>2. Pending \in Seq(Message) /\ Len(Pending) \in Nat /\ Len(m) \in Nat
        /\ Len(toBoard) \in Nat /\ pos \in Nat /\ got \in Nat
    BY Places, LenProperties
  <1>3. Len(Pending \o m) = Len(Pending) + Len(m)
        /\ \A i \in 1 .. Len(Pending) + Len(m) :
             (Pending \o m)[i] = IF i <= Len(Pending) THEN Pending[i] ELSE m[i - Len(Pending)]
    BY <1>2, ConcatProperties
  <1>4. d \in 1 .. Len(Pending) + Len(m) /\ d <= Len(Pending)
    BY <1>1, <1>2
  <1>5. d \in 1 .. Len(Pending') /\ Pending'[d] = Pending[d]
    BY <1>3, <1>4
  <1>6. Len(toBoard') <= pos - (got + d - 1)
    BY <1>1, <1>2
  <1>7. IsLoadFile' => got + d <= pos /\ faults'.down # 0
    BY <1>1, FileSame
  <1> QED
    BY <1>1, <1>5, <1>6, <1>7 DEF Differs

\* A character more is echoed.
LEMMA InStepTakes ==
  ASSUME Base, NEW s \in 1 .. Len(file) + 1, NEW r \in 0 .. Len(file), InStep(s, r), Takes
  PROVE  InSight'
  <1>1. /\ toBoard # <<>> /\ toBoard' = Tail(toBoard) /\ Getline(Head(toBoard)) /\ Head(toBoard) \in Char
        /\ UNCHANGED <<kind, file, host, pos, got, verdict, clean>> /\ UNCHANGED <<toHost, faults>>
        /\ mode = "getline" /\ out = <<>> /\ out' = <<getchr(Head(toBoard))>>
        /\ Len(toBoard') = Len(toBoard) - 1
    BY Taken DEF Takes, Base, Getline, HostSide
  <1> DEFINE c == getchr(Head(toBoard))
  <1>2. /\ c \in Char /\ c \in Message
    BY <1>1, GetlineIs DEF Base, Message
  <1> HIDE DEF c
  <1>3. out' = <<c>>
    BY <1>1 DEF c
  <1>4. Pending' = Append(Pending, c)
    BY <1>1, <1>2, <1>3, Places, PendingSaid, AppendIsConcat
  <1>5. /\ BoardAt(s, r) /\ r \in got .. pos /\ Pending = SubSeq(file, got + 1, r)
        /\ Len(toBoard) <= pos - r /\ (faults.down = 0 => Underway(r))
    BY DEF InStep
  <1>6. /\ r \in Nat /\ got <= r /\ r < pos /\ r < Len(file) /\ r + 1 \in 1 .. Len(file)
        /\ Len(Pending) = r - got
    BY <1>1, InStepIs
  <1>7. /\ Len(toBoard') <= pos - (r + 1) /\ Len(toBoard') <= pos - r
        /\ r + 1 <= pos /\ r + 1 \in got .. pos /\ r + 1 \in 0 .. Len(file)
    BY <1>1, <1>5, <1>6, Places
  <1>8. CASE c = file[r + 1]
    <2>1. BoardAt(s, r + 1)'
      BY <1>1, <1>5, <1>6, <1>8, GetlineAt DEF c
    <2>2. got + 1 \in 1 .. Len(file) /\ r \in (got + 1) - 1 .. Len(file) - 1
      BY <1>6, Places
    <2>3. Pending' = SubSeq(file, got + 1, r + 1)
      BY <1>4, <1>5, <1>8, <2>2, Places, PartLonger
    <2>4. faults'.down = 0 => Underway(r + 1)'
      BY <1>1, <1>5, UnderwayTaken
    <2>5. InStep(s, r + 1)'
      BY <1>1, <1>7, <2>1, <2>3, <2>4 DEF InStep
    <2> QED
      BY <1>1, <1>7, <2>5 DEF InSight
  <1>9. CASE c # file[r + 1]
    <2>1. ~(IsLoadFile /\ faults.down = 0)
      <3> SUFFICES ASSUME IsLoadFile, Underway(r) PROVE FALSE
        BY <1>5
      <3>1. Head(toBoard) = file[r + 1]
        BY <1>1, UnderwayIs
      <3>2. file[r + 1] # CR
        BY <1>1, <1>5, <1>6, NoReturn
      <3> QED
        BY <1>9, <3>1, <3>2 DEF c, getchr
    <2>0. r - got + 1 \in Nat
      BY <1>6, Places
    <2>10. PICK d \in Nat : d = r - got + 1
      BY <2>0
    <2>2. d = Len(Pending) + 1 /\ got + d = r + 1 /\ got + d - 1 = r /\ d >= 1
      BY <1>6, <2>10, Places
    <2>3. Len(Pending') = Len(Pending) + 1 /\ Pending'[d] = c
      BY <1>2, <1>4, <2>2, Places, AppendProperties
    <2>4. d \in 1 .. Len(Pending')
      BY <2>2, <2>3
    <2>5. Len(toBoard') <= pos - (got + d - 1) /\ got + d <= pos /\ got + d <= Len(file)
      BY <1>6, <1>7, <2>2
    <2>6. Differs(d)'
      BY <1>1, <1>9, <2>1, <2>2, <2>3, <2>4, <2>5, FileSame DEF Differs
    <2> QED
      BY <2>4, <2>6 DEF InSight
  <1> QED
    BY <1>8, <1>9

\* A line is obeyed: quietly, or with a message.
LEMMA InStepObeys ==
  ASSUME Base, NEW s \in 1 .. Len(file) + 1, NEW r \in 0 .. Len(file), InStep(s, r), Obeys
  PROVE  InSight'
  <1>1. /\ Obey /\ out = <<>> /\ UNCHANGED <<kind, file, host, pos, got, verdict, clean>>
        /\ UNCHANGED <<toBoard, toHost, faults>>
    BY DEF Obeys, Obey, Line3, HostSide
  <1>2. /\ BoardAt(s, r) /\ r \in got .. pos /\ Pending = SubSeq(file, got + 1, r)
        /\ Len(toBoard) <= pos - r /\ (faults.down = 0 => Underway(r))
    BY DEF InStep
  <1>3. Pending' = Pending \o out'
    BY <1>1, PendingSaid
  <1>4. /\ r \in Nat /\ got <= r /\ r <= pos /\ Len(Pending) = r - got
    BY InStepIs
  <1>5. CASE out' = <<>> /\ BoardAt(r + 1, r)'
    <2>1. Pending' = Pending
      BY <1>3, <1>5, Places, ConcatEmptySeq
    <2>2. faults'.down = 0 => Underway(r)'
      BY <1>1, <1>2, UnderwaySame
    <2>3. InStep(r + 1, r)'
      BY <1>1, <1>2, <1>5, <2>1, <2>2 DEF InStep
    <2>4. r + 1 \in 1 .. Len(file) + 1
      BY Places
    <2> QED
      BY <1>1, <2>3, <2>4 DEF InSight
  <1>6. CASE r = Len(file) /\ out' \in Messages /\ AllObeyed'
    <2>1. pos = Len(file) /\ Len(toBoard) <= 0
      BY <1>2, <1>4, <1>6, Places
    <2>2. toBoard = <<>>
      BY <2>1, Places, EmptySeq
    <2>3. Over'
      BY <1>1, <1>6, <2>1, <2>2 DEF Over
    <2>4. Told'
      BY <1>1, <1>2, <1>3, <1>6, <2>3 DEF Told
    <2> QED
      BY <2>4 DEF InSight
  <1>7. CASE r # Len(file) /\ out' \in Messages /\ ~IsLoadFile
    <2>0. r - got + 1 \in Nat
      BY <1>4, Places
    <2>10. PICK d \in Nat : d = r - got + 1
      BY <2>0
    <2>1. d = Len(Pending) + 1 /\ got + d = r + 1 /\ got + d - 1 = r /\ d >= 1
      BY <1>4, <2>10, Places
    <2>11. r + 1 \in 1 .. Len(file)
      <3>1. r # Len(file)
        BY <1>7
      <3> QED
        BY <3>1, Places
    <2>2. out' \in Seq(Message) /\ Len(out') = 2 /\ out'[1] \in {Report, Jump}
      BY <1>7, MessageIs
    <2>3. /\ Len(Pending') = Len(Pending) + 2
          /\ \A i \in 1 .. Len(Pending) + 2 :
               Pending'[i] = IF i <= Len(Pending) THEN Pending[i] ELSE out'[i - Len(Pending)]
      <3>1. Len(Pending \o out') = Len(Pending) + Len(out')
            /\ \A i \in 1 .. Len(Pending) + Len(out') :
                 (Pending \o out')[i] = IF i <= Len(Pending) THEN Pending[i] ELSE out'[i - Len(Pending)]
        BY <2>2, Places, ConcatProperties
      <3> QED
        BY <1>3, <2>2, <3>1
    <2>4. d \in 1 .. Len(Pending) + 2 /\ ~(d <= Len(Pending)) /\ d - Len(Pending) = 1
      BY <2>1, Places
    <2>5. Pending'[d] \in {Report, Jump}
      BY <2>2, <2>3, <2>4
    <2>6. file[r + 1] \in Char
      BY <2>11, Places, ElementOfSeq
    <2>7. Pending'[d] # file[got + d]
      BY <2>1, <2>5, <2>6, Tokens
    <2>8. Differs(d)'
      BY <1>1, <1>2, <1>7, <2>1, <2>11, <2>3, <2>4, <2>7, FileSame, Places DEF Differs
    <2> QED
      BY <2>3, <2>4, <2>8 DEF InSight
  <1> QED
    BY <1>1, <1>2, <1>5, <1>6, <1>7, ObeyAt

\* InSight depends on these only.
LEMMA InSightSame ==
  ASSUME Base, InSight, Pending' = Pending, faults'.down = faults.down,
         UNCHANGED <<file, pos, got, toBoard, mode, linbuf, mem>>
  PROVE  InSight'
  <1>1. CASE \E s \in 1 .. Len(file) + 1 : \E r \in 0 .. Len(file) : InStep(s, r)
    <2>1. PICK s \in 1 .. Len(file) + 1, r \in 0 .. Len(file) : InStep(s, r)
      BY <1>1
    <2>2. InStep(s, r)'
      BY <2>1, BoardSame, UnderwaySame DEF InStep
    <2> QED
      BY <2>2 DEF InSight
  <1>2. CASE Told
    <2>1. Over'
      BY <1>2, BoardSame DEF Told, Over
    <2> QED
      BY <1>2, <2>1 DEF Told, InSight
  <1>3. ASSUME NEW d \in 1 .. Len(Pending), Differs(d) PROVE InSight'
    <2>1. Differs(d)'
      BY <1>3, FileSame DEF Differs
    <2> QED
      BY <2>1, <1>3 DEF InSight
  <1> QED
    BY <1>1, <1>2, <1>3 DEF InSight

\* Once the echo differs, it stays so, whatever the board does.
LEMMA DiffersBoard ==
  ASSUME Base, BoardSteps, faults'.up = 0, NEW d \in 1 .. Len(Pending), Differs(d)
  PROVE  InSight'
  <1>1. UNCHANGED <<file, pos, got>>
    BY DEF BoardSteps, Sends, Takes, Obeys, Returns, Reads, HostSide
  <1>2. \E m \in Seq(Message) : Pending' = Pending \o m
    <2>1. <<>> \in Seq(Message) /\ Pending \o <<>> = Pending
      BY Places, ConcatEmptySeq
    <2>2. CASE Sends
      BY <2>1, <2>2, PendingSent DEF Sends
    <2>3. CASE Takes
      <3>1. out = <<>> /\ toHost' = toHost /\ Getline(Head(toBoard)) /\ Head(toBoard) \in Char
            /\ out' = <<getchr(Head(toBoard))>>
        BY <2>3, Taken DEF Takes, Getline, Base
      <3>2. getchr(Head(toBoard)) \in Message
        BY <3>1, GetlineIs DEF Base, Message
      <3>3. out' \in Seq(Message)
        BY <3>1, <3>2
      <3> QED
        BY <3>1, <3>3, PendingSaid
    <2>4. CASE Obeys
      <3>1. out = <<>> /\ toHost' = toHost /\ out' \in Messages \cup {<<>>}
        BY <2>4, ObeyIs DEF Obeys, Obey, Line3, Base
      <3>2. out' \in Seq(Message)
        BY <2>1, <3>1, MessageIs
      <3> QED
        BY <3>1, <3>2, PendingSaid
    <2>5. CASE Returns \/ Reads
      <3>1. UNCHANGED <<toHost, out>>
        BY <2>5 DEF Returns, Reads, Line3, monitor
      <3> QED
        BY <2>1, <3>1 DEF Pending
    <2> QED
      BY <2>2, <2>3, <2>4, <2>5 DEF BoardSteps
  <1>3. Len(toBoard') \in Nat /\ Len(toBoard') <= Len(toBoard)
    <2>1. CASE toBoard # <<>> /\ toBoard' = Tail(toBoard)
      <3>1. Len(toBoard') = Len(toBoard) - 1 /\ Len(toBoard) \in 1 .. BOARDBUF
        BY <2>1, Taken DEF Base
      <3> QED
        BY <3>1, TerminalsAssumption
    <2>2. CASE toBoard' = toBoard
      BY <2>2, Places
    <2> QED
      BY <2>1, <2>2 DEF BoardSteps, Sends, Putchr, Takes, Obeys, Returns, Reads, Line3
  <1>4. faults'.down = faults.down
    BY CarryUp DEF BoardSteps, Sends, Takes, Obeys, Returns, Reads, Line3, Base
  <1>5. PICK m \in Seq(Message) : Pending' = Pending \o m
    BY <1>2
  <1>6. d \in 1 .. Len(Pending') /\ Differs(d)'
    BY <1>1, <1>3, <1>4, <1>5, DiffersStill
  <1> QED
    BY <1>6 DEF InSight

\* What the board does stays in sight of the host.
LEMMA UpBoard ==
  ASSUME Base, UpInv, BoardSteps
  PROVE  UpInv'
  <1>1. UNCHANGED <<kind, file, host, pos, got, verdict, clean>>
    BY DEF BoardSteps, Sends, Takes, Obeys, Returns, Reads, HostSide
  <1> SUFFICES ASSUME clean', kind' # "te", faults'.up = 0, host' \in {"upload", "echo"}
               PROVE  InSight'
    BY DEF UpInv
  <1>2. faults.up = 0
    BY CarryUp DEF BoardSteps, Sends, Takes, Obeys, Returns, Reads, Line3, Base
  <1>3. InSight
    BY <1>1, <1>2 DEF UpInv
  <1>4. CASE Sends
    <2>1. Pending' = Pending /\ faults'.down = faults.down
      BY <1>4, PendingSent, CarryUp DEF Sends, Base
    <2>2. UNCHANGED <<file, pos, got, toBoard, mode, linbuf, mem>>
      BY <1>4 DEF Sends, Putchr, HostSide
    <2> QED
      BY <1>3, <2>1, <2>2, InSightSame
  <1>5. CASE ~Sends
    <2>1. ASSUME NEW s \in 1 .. Len(file) + 1, NEW r \in 0 .. Len(file), InStep(s, r) PROVE InSight'
      <3>1. mode # "running"
        BY <2>1 DEF InStep, BoardAt
      <3>2. Takes \/ Obeys
        BY <1>5, <3>1 DEF BoardSteps, Returns, Reads
      <3> QED
        BY <2>1, <3>2, InStepTakes, InStepObeys
    <2>2. CASE Told
      <3>1. Returns /\ Over'
        BY <1>5, <2>2, OverKept DEF Told, BoardSteps
      <3>2. Pending' = Pending
        BY <3>1 DEF Returns, Pending, Line3
      <3> QED
        BY <1>1, <2>2, <3>1, <3>2 DEF Told, InSight
    <2> QED
      BY <1>3, <2>1, <2>2, DiffersBoard DEF InSight
  <1> QED
    BY <1>4, <1>5

\* The upload begins in step.
LEMMA BeginsInStep ==
  ASSUME Base, Begins, clean'
  PROVE  InSight'
  <1>1. Pending' = <<>>
    BY BeginsAt, ConcatEmptySeq DEF Pending
  <1>2. Len(toBoard') <= 0 - 0 /\ 0 \in 0 .. 0 /\ 0 + 1 = 1
    BY BeginsAt
  <1>3. InStep(1, 0)'
    BY <1>1, <1>2, BeginsAt DEF InStep
  <1>4. 1 \in 1 .. Len(file)' + 1 /\ 0 \in 0 .. Len(file)'
    BY BeginsAt
  <1> QED
    BY <1>3, <1>4 DEF InSight

LEMMA CharsAreMessages ==
  ASSUME NEW q \in Seq(Char)
  PROVE  q \in Seq(Message)
  BY DEF Message

\* A character more is written.
LEMMA InSightWrites ==
  ASSUME Base, InSight, Writes
  PROVE  InSight'
  <1>1. /\ pos < Len(file) /\ pos' = pos + 1 /\ UNCHANGED <<file, mode, linbuf, mem, got>>
        /\ Pending' = Pending
        /\ Len(toBoard') \in Nat /\ Len(toBoard') <= Len(toBoard) + 1
        /\ faults'.down = 0 => faults.down = 0
    <2>1. PutCom(file[pos + 1]) /\ file[pos + 1] \in Char /\ TypeOK /\ UNCHANGED monitor
      BY DEF Writes, Base
    <2>2. /\ toBoard' \in Seq(Char) /\ Len(toBoard') \in Len(toBoard) .. Len(toBoard) + 1
          /\ faults'.down = 0 => faults.down = 0
      BY <2>1, CarryDown
    <2>3. toHost' = toHost /\ out' = out
      BY <2>1 DEF PutCom, monitor
    <2> QED
      BY <2>1, <2>2, <2>3, Places DEF Writes, monitor, Pending
  <1>2. ASSUME NEW s \in 1 .. Len(file) + 1, NEW r \in 0 .. Len(file), InStep(s, r) PROVE InSight'
    <2>1. BoardAt(s, r)'
      BY <1>1, <1>2, BoardSame DEF InStep
    <2>2. faults'.down = 0 => Underway(r)'
      BY <1>1, <1>2, UnderwayWritten DEF InStep
    <2>3. r \in got .. pos + 1 /\ Len(toBoard') <= pos + 1 - r
      <3>1. r \in got .. pos /\ Len(toBoard) <= pos - r /\ r \in Nat
        BY <1>2 DEF InStep
      <3>2. Len(toBoard') <= Len(toBoard) + 1 /\ Len(toBoard') \in Nat
        BY <1>1
      <3>3. Len(toBoard) \in Nat /\ pos \in Nat /\ got \in Nat
        BY Places
      <3> QED
        BY <3>1, <3>2, <3>3
    <2>5. r \in got' .. pos' /\ Len(toBoard') <= pos' - r
      BY <1>1, <2>3, Places
    <2>4. InStep(s, r)'
      BY <1>1, <1>2, <2>1, <2>2, <2>5 DEF InStep
    <2> QED
      BY <1>1, <2>4 DEF InSight
  <1>3. ~Told
    BY <1>1, Places DEF Told, Over
  <1>4. ASSUME NEW d \in 1 .. Len(Pending), Differs(d) PROVE InSight'
    <2>1. Len(toBoard) <= pos - (got + d - 1) /\ (IsLoadFile => got + d <= pos /\ faults.down # 0)
      BY <1>4 DEF Differs
    <2>2. Len(toBoard') <= (pos + 1) - (got + d - 1) /\ (got + d <= pos => got + d <= pos + 1)
      BY <1>1, <2>1, Places
    <2>3. Differs(d)'
      BY <1>1, <1>4, <2>1, <2>2, FileSame DEF Differs
    <2> QED
      BY <1>1, <1>4, <2>3 DEF InSight
  <1> QED
    BY <1>2, <1>3, <1>4 DEF InSight

\* The next character is echoed as it is in the file.
LEMMA InSightAccepts ==
  ASSUME Base, InSight, Accepts
  PROVE  InSight'
  <1>1. /\ got' = got + 1 /\ got < pos /\ Pending # <<>> /\ Pending[1] = file[got + 1]
        /\ Pending' = Tail(Pending) /\ Len(Pending') = Len(Pending) - 1
        /\ UNCHANGED <<file, mode, linbuf, mem, pos, toBoard, faults>>
    BY PendingHeard DEF Accepts, monitor
  <1>2. /\ got + 1 \in 1 .. Len(file) /\ (got + 1) + 1 \in 1 .. Len(file) + 1
        /\ Len(file) \in got + 1 .. Len(file)
    BY <1>1, Places
  <1>3. ASSUME NEW s \in 1 .. Len(file) + 1, NEW r \in 0 .. Len(file), InStep(s, r) PROVE InSight'
    <2>1. r # got /\ r \in got .. pos /\ Pending = SubSeq(file, got + 1, r)
      BY <1>1, <1>3, InStepIs DEF InStep
    <2>2. r \in got + 1 .. pos /\ r \in got + 1 .. Len(file)
      BY <2>1, Places
    <2>3. Pending' = SubSeq(file, (got + 1) + 1, r)
      BY <1>1, <1>2, <2>1, <2>2, Places, PartShorter
    <2>4. BoardAt(s, r)' /\ (faults'.down = 0 => Underway(r)') /\ Len(toBoard') <= pos' - r
      BY <1>1, <1>3, BoardSame, UnderwaySame DEF InStep
    <2>5. InStep(s, r)'
      BY <1>1, <2>2, <2>3, <2>4 DEF InStep
    <2> QED
      BY <1>1, <2>5 DEF InSight
  <1>4. CASE Told
    <2>1. PICK m \in Messages : Pending = SubSeq(file, got + 1, Len(file)) \o m
      BY <1>4 DEF Told
    <2>2. /\ SubSeq(file, got + 1, Len(file)) \in Seq(Message)
          /\ SubSeq(file, got + 1, Len(file)) # <<>>
          /\ Tail(SubSeq(file, got + 1, Len(file))) = SubSeq(file, (got + 1) + 1, Len(file))
      <3>1. SubSeq(file, got + 1, Len(file)) \in Seq(Char)
        BY <1>2, Places, PartIs
      <3>2. SubSeq(file, got + 1, Len(file)) \in Seq(Message)
        BY <3>1, CharsAreMessages
      <3> QED
        BY <1>2, <3>2, Places, PartShorter
    <2>3. Pending' = SubSeq(file, (got + 1) + 1, Len(file)) \o m
      <3>1. \A x \in Seq(Message) : x # <<>> => Tail(x \o m) = Tail(x) \o m
        BY MessageIs, TailConcat
      <3> QED
        BY <1>1, <2>1, <2>2, <3>1
    <2>4. Over'
      BY <1>1, <1>4, BoardSame DEF Told, Over
    <2>5. Told'
      BY <1>1, <2>3, <2>4 DEF Told
    <2> QED
      BY <2>5 DEF InSight
  <1>5. ASSUME NEW d \in 1 .. Len(Pending), Differs(d) PROVE InSight'
    <2>1. /\ Pending[d] # file[got + d] /\ got + d <= Len(file) /\ Len(toBoard) <= pos - (got + d - 1)
          /\ IsLoadFile => got + d <= pos /\ faults.down # 0
      BY <1>5 DEF Differs
    <2>2. d # 1
      BY <1>1, <2>1
    <2>3. d - 1 \in 1 .. Len(Pending) - 1
      BY <2>2, Places
    <2>4. PICK e \in 1 .. Len(Pending) - 1 : e = d - 1
      BY <2>3
    <2>8. e + 1 = d /\ (got + 1) + e = got + d /\ (got + 1) + e - 1 = got + d - 1
      <3>1. d \in Nat /\ got \in Nat /\ e = d - 1
        BY <2>4, Places
      <3> QED
        BY <3>1
    <2>5. \A i \in 1 .. Len(Tail(Pending)) : Tail(Pending)[i] = Pending[i + 1]
      BY <1>1, Places, HeadTailProperties
    <2>6. Pending'[e] = Pending[d] /\ e \in 1 .. Len(Pending')
      BY <1>1, <2>8, <2>5
    <2>7. Differs(e)'
      BY <1>1, <2>1, <2>8, <2>6, FileSame DEF Differs
    <2> QED
      BY <2>6, <2>7 DEF InSight
  <1> QED
    BY <1>3, <1>4, <1>5 DEF InSight

\* So does what the host does.
LEMMA UpHost ==
  ASSUME Base, UpInv, HostSteps
  PROVE  UpInv'
  <1> SUFFICES ASSUME clean', kind' # "te", faults'.up = 0, host' \in {"upload", "echo"}
               PROVE  InSight'
    BY DEF UpInv
  <1>1. ASSUME clean, kind # "te", faults.up = 0, host \in {"upload", "echo"} PROVE InSight
    BY <1>1 DEF UpInv
  <1>2. CASE Begins
    BY <1>2, BeginsInStep
  <1>3. CASE Writes
    <2>1. faults.up = 0
      BY <1>3, CarryDown DEF Writes, Base
    <2>2. InSight
      BY <1>1, <1>3, <2>1 DEF Writes
    <2> QED
      BY <1>3, <2>2, InSightWrites
  <1>4. CASE Accepts
    <2>1. InSight
      BY <1>1, <1>4 DEF Accepts
    <2> QED
      BY <1>4, <2>1, InSightAccepts
  <1>5. CASE Prepares \/ Leaves \/ Completes \/ Responds \/ Fails
    BY <1>5 DEF Prepares, Leaves, Completes, Responds, Fails
  <1>6. CASE Shows
    <2>1. kind' = kind /\ host' = host
      BY <1>6 DEF Shows, HostSide
    <2> QED
      BY <1>6, <2>1 DEF Shows
  <1>7. CASE Stays
    <2>1. InSight /\ UNCHANGED <<file, pos, got, toBoard, toHost, out, faults, mode, linbuf, mem>>
      BY <1>1, <1>7 DEF Stays, HostSide, Line3, monitor
    <2> QED
      BY <2>1, InSightSame DEF Pending
  <1> QED
    BY <1>2, <1>3, <1>4, <1>5, <1>6, <1>7 DEF HostSteps

-----------------------------------------------------------------------------
(* Over an intact line the upload of a load file goes through *)

\* Faults only come to be.
LEMMA FaultsBack ==
  ASSUME Base, BoardSteps \/ HostSteps, ~Prepares
  PROVE  /\ faults'.down = 0 => faults.down = 0
         /\ faults'.up = 0 => faults.up = 0
         /\ file' = file
         /\ Begins \/ clean' = clean
  <1>1. TypeOK /\ MonitorInv
    BY DEF Base
  <1>2. CASE Sends
    BY <1>1, <1>2, CarryUp DEF Sends, HostSide
  <1>3. CASE Writes
    BY <1>1, <1>3, CarryDown DEF Writes
  <1>4. CASE Takes \/ Obeys \/ Returns \/ Reads
    BY <1>4 DEF Takes, Obeys, Returns, Reads, Line3, HostSide
  <1>5. CASE Shows \/ Begins \/ Leaves \/ Completes \/ Accepts \/ Responds \/ Fails \/ Stays
    BY <1>5 DEF Shows, Begins, Leaves, Completes, Accepts, Responds, Fails, Stays, Line3, HostSide
  <1> QED
    BY <1>2, <1>3, <1>4, <1>5 DEF BoardSteps, HostSteps

LEMMA IntactIs ==
  ASSUME Intact
  PROVE  faults.down = 0 /\ faults.up = 0
  BY DEF Intact

\* What comes is the echo.
LEMMA EchoComes ==
  ASSUME Base, InSight, IsLoadFile, faults.down = 0, got < pos
  PROVE  /\ Pending # <<>> => Pending[1] = file[got + 1]
         /\ ~Quiet
  <1>1. got + 1 \in 1 .. Len(file)
    BY Places
  <1>2. ASSUME NEW s \in 1 .. Len(file) + 1, NEW r \in 0 .. Len(file), InStep(s, r)
        PROVE  /\ Pending # <<>> => Pending[1] = file[got + 1]
               /\ ~Quiet
    <2>1. Pending = SubSeq(file, got + 1, r) /\ mode # "running" /\ Underway(r) /\ r \in got .. pos
      BY <1>2 DEF InStep, BoardAt
    <2>2. (Pending = <<>> <=> r = got) /\ r \in Nat
      BY <1>2, InStepIs
    <2>3. ASSUME Pending # <<>> PROVE Pending[1] = file[got + 1]
      <3>1. r \in got + 1 .. Len(file)
        BY <2>1, <2>2, <2>3, Places
      <3>2. got + 1 \in 1 .. Len(file) + 1 /\ r \in (got + 1) - 1 .. Len(file)
            /\ 1 \in 1 .. r - (got + 1) + 1 /\ (got + 1) + 1 - 1 = got + 1
        BY <1>1, <3>1, Places
      <3>3. \A k \in 1 .. r - (got + 1) + 1 : SubSeq(file, got + 1, r)[k] = file[(got + 1) + k - 1]
        BY <3>2, Places, PartIs
      <3> QED
        BY <2>1, <3>2, <3>3
    <2>4. ASSUME Quiet PROVE FALSE
      <3>1. toBoard = <<>> /\ Pending = <<>>
        BY <2>1, <2>4, PendingIs DEF Quiet
      <3>2. r = pos /\ r = got
        BY <2>1, <2>2, <3>1, UnderwayIs
      <3> QED
        BY <3>2, Places
    <2> QED
      BY <2>3, <2>4
  <1>3. ASSUME Told
        PROVE  /\ Pending # <<>> => Pending[1] = file[got + 1]
               /\ ~Quiet
    <2> DEFINE q == SubSeq(file, got + 1, Len(file))
    <2>1. PICK m \in Messages : Pending = q \o m
      BY <1>3 DEF Told
    <2>2. Len(file) \in got + 1 .. Len(file) /\ Len(file) \in (got + 1) - 1 .. Len(file)
          /\ 1 \in 1 .. Len(file) - (got + 1) + 1 /\ (got + 1) + 1 - 1 = got + 1
      BY <1>1, Places
    <2>3. q \in Seq(Char) /\ q # <<>>
      BY <1>1, <2>2, Places, PartIs, PartShorter
    <2>4. q[1] = file[got + 1]
      <3>1. \A k \in 1 .. Len(file) - (got + 1) + 1 : q[k] = file[(got + 1) + k - 1]
        BY <2>2, Places, PartIs
      <3> QED
        BY <2>2, <3>1
    <2> HIDE DEF q
    <2>5. q \in Seq(Message) /\ m \in Seq(Message)
      BY <2>3, CharsAreMessages, MessageIs
    <2>6. Pending # <<>> /\ Pending[1] = q[1]
      BY <2>1, <2>3, <2>5, TailConcat
    <2>7. ~Quiet
      BY <2>6, PendingIs DEF Quiet
    <2> QED
      BY <2>4, <2>6, <2>7
  <1>4. \A d \in 1 .. Len(Pending) : ~Differs(d)
    BY DEF Differs
  <1> QED
    BY <1>2, <1>3, <1>4 DEF InSight

IntactInv == clean /\ IsLoadFile /\ Intact => verdict # "failed" /\ host # "response"

\* Over an intact line no step lets the upload of a load file fail.
LEMMA IntactStep ==
  ASSUME Base, UpInv, IntactInv, BoardSteps \/ HostSteps, Base'
  PROVE  IntactInv'
  <1> SUFFICES ASSUME clean', IsLoadFile', Intact'
               PROVE  verdict' # "failed" /\ host' # "response"
    BY DEF IntactInv
  <1>1. ~Prepares
    BY DEF Prepares
  <1>2. CASE Begins
    BY <1>2 DEF Begins
  <1>3. CASE ~Begins
    <2>1. clean /\ IsLoadFile /\ faults.down = 0 /\ faults.up = 0
      <3>1. faults'.down = 0 /\ faults'.up = 0
        BY DEF Intact
      <3> QED
        BY <1>1, <1>3, <3>1, FaultsBack, FileSame
    <2>2. Intact
      BY <2>1 DEF Base, TypeOK, Intact
    <2>3. verdict # "failed" /\ host # "response"
      BY <2>1, <2>2 DEF IntactInv
    <2>4. ASSUME host = "echo", kind = "sync" PROVE InSight
      BY <2>1, <2>4 DEF UpInv
    <2>5. ~Fails
      BY <2>1, <2>3, <2>4, EchoComes DEF Fails
    <2>6. ~Responds
      <3> SUFFICES ASSUME Responds PROVE FALSE
        OBVIOUS
      <3>1. InSight /\ got < pos /\ Head(toHost) # file[got + 1] /\ Heard /\ out' = out
        BY <2>3, <2>4 DEF Responds, monitor
      <3>2. Pending # <<>> /\ Pending[1] = Head(toHost)
        BY <3>1, PendingHeard
      <3> QED
        BY <2>1, <3>1, <3>2, EchoComes
    <2>7. CASE Sends \/ Takes \/ Obeys \/ Returns \/ Reads \/ Shows \/ Stays
      <3>1. UNCHANGED <<host, verdict>>
        BY <2>7 DEF Sends, Takes, Obeys, Returns, Reads, Shows, Stays, HostSide
      <3> QED
        BY <2>3, <3>1
    <2>8. CASE Leaves \/ Writes \/ Completes \/ Accepts
      BY <2>3, <2>8 DEF Leaves, Writes, Completes, Accepts
    <2> QED
      BY <1>1, <1>3, <2>5, <2>6, <2>7, <2>8 DEF BoardSteps, HostSteps
  <1> QED
    BY <1>2, <1>3

-----------------------------------------------------------------------------
(* When a synchronised upload has completed, the board has the whole file *)

AtEnd == toBoard = <<>> /\ \E s \in 1 .. Len(file) + 1 : BoardAt(s, Len(file))

DoneInv == clean /\ kind = "sync" /\ faults.up = 0 /\ verdict = "completed" => Over \/ AtEnd

\* All has been echoed, so all has been taken.
LEMMA DoneCompletes ==
  ASSUME Base, InSight, Completes, got = pos
  PROVE  Over' \/ AtEnd'
  <1>1. /\ pos = Len(file) /\ got = Len(file) /\ Len(file) \in Nat
        /\ UNCHANGED <<file, mode, linbuf, mem, pos, toBoard>>
    BY Places DEF Completes, monitor, Line3
  <1>2. ASSUME NEW s \in 1 .. Len(file) + 1, NEW r \in 0 .. Len(file), InStep(s, r) PROVE AtEnd'
    <2>1. r = Len(file) /\ BoardAt(s, r) /\ Len(toBoard) <= 0
      BY <1>1, <1>2 DEF InStep
    <2>2. toBoard = <<>>
      BY <2>1, Places, EmptySeq
    <2>3. BoardAt(s, Len(file))
      BY <2>1
    <2>4. AtEnd
      BY <2>2, <2>3 DEF AtEnd
    <2>5. \A t, q : BoardAt(t, q) => BoardAt(t, q)'
      BY <1>1, BoardSame
    <2>6. BoardAt(s, r)'
      BY <2>1, <2>5
    <2>7. BoardAt(s, Len(file))'
      BY <1>1, <2>1, <2>6
    <2> QED
      BY <1>1, <2>2, <2>7 DEF AtEnd
  <1>3. Told => Over'
    BY <1>1, BoardSame DEF Told, Over
  <1>4. \A d \in 1 .. Len(Pending) : ~Differs(d)
    BY <1>1, Places DEF Differs
  <1> QED
    BY <1>2, <1>3, <1>4 DEF InSight

\* What the board does afterwards ends the file.
LEMMA DoneStep ==
  ASSUME Base, UpInv, DoneInv, BoardSteps \/ HostSteps, Base'
  PROVE  DoneInv'
  <1> SUFFICES ASSUME clean', kind' = "sync", faults'.up = 0, verdict' = "completed"
               PROVE  Over' \/ AtEnd'
    BY DEF DoneInv
  <1>1. ~Prepares /\ ~Begins /\ ~Writes /\ ~Accepts /\ ~Responds /\ ~Fails
    BY DEF Prepares, Begins, Writes, Accepts, Responds, Fails
  <1>2. clean /\ faults.up = 0
    BY <1>1, FaultsBack
  <1>3. CASE Completes
    <2>1. kind = "sync" /\ host = "upload" /\ got = pos
      BY <1>3 DEF Completes
    <2>2. InSight
      BY <1>2, <2>1 DEF UpInv
    <2> QED
      BY <1>3, <2>1, <2>2, DoneCompletes
  <1>4. CASE BoardSteps \/ Shows \/ Leaves \/ Stays
    <2>1. UNCHANGED <<kind, file, pos, verdict>>
      BY <1>4 DEF BoardSteps, Sends, Takes, Obeys, Returns, Reads, Shows, Leaves, Stays, HostSide
    <2>2. Over \/ AtEnd
      BY <1>2, <2>1 DEF DoneInv
    <2>3. pos = Len(file) /\ Len(file) \in Nat
      BY <2>1, Places DEF Base, HostInv
    <2>4. CASE UNCHANGED <<mode, linbuf, mem, toBoard>>
      <3>1. Over => Over'
        BY <2>1, <2>4, BoardSame DEF Over
      <3>2. ASSUME NEW s \in 1 .. Len(file) + 1, BoardAt(s, Len(file)) PROVE BoardAt(s, Len(file))'
        <4>1. PICK n \in Nat : n = Len(file)
          BY <2>3
        <4>2. BoardAt(s, n)'
          BY <2>1, <2>4, <3>2, <4>1, BoardSame
        <4> QED
          BY <2>1, <4>1, <4>2
      <3> QED
        BY <2>1, <2>2, <2>4, <3>1, <3>2 DEF AtEnd
    <2>5. CASE Sends \/ Shows \/ Leaves \/ Stays
      BY <2>4, <2>5 DEF Sends, Putchr, Shows, Leaves, Stays, monitor, Line3
    <2>6. ~Takes /\ ~Reads
      BY <2>2 DEF Takes, Reads, Over, AtEnd
    <2>7. CASE Obeys
      <3>1. Obey /\ toBoard' = toBoard
        BY <2>7 DEF Obeys, Line3
      <3>2. AtEnd
        BY <2>2, <2>7, OverKept
      <3>3. PICK s \in 1 .. Len(file) + 1 : BoardAt(s, Len(file))
        BY <3>2 DEF AtEnd
      <3>4. PICK n \in Nat : n = Len(file)
        BY <2>3
      <3>5. BoardAt(n + 1, n)' \/ AllObeyed'
        BY <2>1, <3>1, <3>3, <3>4, ObeyAt
      <3>6. AllObeyed' => Over'
        BY <2>1, <2>3, <3>1, <3>2 DEF Over, AtEnd
      <3>7. BoardAt(n + 1, n)' => AtEnd'
        <4>1. n + 1 \in 1 .. Len(file) + 1 /\ n = Len(file)'
          BY <2>1, <3>4
        <4> QED
          BY <2>1, <3>1, <3>2, <4>1 DEF AtEnd
      <3> QED
        BY <3>5, <3>6, <3>7
    <2>8. CASE Returns
      <3>1. mode = "running"
        BY <2>8 DEF Returns
      <3>2. Over
        BY <2>2, <3>1 DEF AtEnd, BoardAt
      <3> QED
        BY <2>8, <3>2, OverKept
    <2> QED
      BY <1>4, <2>5, <2>6, <2>7, <2>8 DEF BoardSteps
  <1> QED
    BY <1>1, <1>3, <1>4 DEF HostSteps

-----------------------------------------------------------------------------
(* What is written and not yet echoed is under way or on its way back *)

CountInv ==
  clean /\ IsLoadFile /\ faults.down = 0 /\ kind = "sync" /\ host \in {"upload", "echo"} =>
    got + Len(Pending) + Len(toBoard) <= pos \/ (toBoard = <<>> /\ pos = Len(file))

\* Each character is counted once: written, taken, or echoed.
LEMMA CountStep ==
  ASSUME Base, DownInv, CountInv, BoardSteps \/ HostSteps, Base'
  PROVE  CountInv'
  <1> DEFINE Count == got + Len(Pending) + Len(toBoard) <= pos
             Full  == toBoard = <<>> /\ pos = Len(file)
  <1> SUFFICES ASSUME clean', IsLoadFile', faults'.down = 0, kind' = "sync", host' \in {"upload", "echo"}
               PROVE  Count' \/ Full'
    BY DEF CountInv
  <1>1. ~Prepares /\ ~Leaves /\ ~Completes /\ ~Responds /\ ~Fails
    BY DEF Prepares, Leaves, Completes, Responds, Fails
  <1>2. file' = file /\ faults.down = 0 /\ IsLoadFile
    BY <1>1, FaultsBack, FileSame
  <1>3. CASE Begins
    <2>1. toBoard' = <<>> /\ toHost' = <<>> /\ out' = <<>> /\ got' = 0 /\ pos' = 0
      BY <1>3 DEF Begins, Idle, Line3, monitor
    <2>2. Pending' = <<>>
      BY <2>1, ConcatEmptySeq DEF Pending
    <2> QED
      BY <2>1, <2>2
  <1>4. CASE ~Begins
    <2>1. clean /\ kind = "sync" /\ host \in {"upload", "echo"}
      <3>1. clean
        BY <1>1, <1>4, FaultsBack
      <3>2. kind = "sync"
        BY <1>1, <1>4 DEF BoardSteps, Sends, Takes, Obeys, Returns, Reads, HostSteps, Shows, Writes,
                          Accepts, Stays, HostSide
      <3>3. host \in {"upload", "echo"}
        BY <1>1, <1>4 DEF BoardSteps, Sends, Takes, Obeys, Returns, Reads, HostSteps, Shows, Writes,
                          Accepts, Stays, HostSide
      <3> QED
        BY <3>1, <3>2, <3>3
    <2>2. Count \/ Full
      BY <1>2, <2>1 DEF CountInv
    <2> HIDE DEF Count, Full
    <2>3. Sends \/ Shows \/ Stays \/ Returns \/ Reads => UNCHANGED <<pos, got>>
      BY DEF Sends, Shows, Stays, Returns, Reads, HostSide
    <2>4. CASE Sends
      <3>1. toBoard' = toBoard /\ Len(Pending') \in Nat /\ Len(Pending') <= Len(Pending)
        BY <2>4, PendingSent DEF Sends, Putchr
      <3> QED
        BY <1>2, <2>2, <2>3, <2>4, <3>1, Places DEF Count, Full
    <2>5. CASE Stays \/ Returns
      <3>1. toBoard' = toBoard /\ Pending' = Pending
        BY <2>5 DEF Stays, Returns, Pending, Line3, monitor
      <3> QED
        BY <1>2, <2>2, <2>3, <2>5, <3>1 DEF Count, Full
    <2>6. ~Shows
      BY <2>1 DEF Shows
    <2>7. CASE Takes \/ Reads
      <3>1. /\ toBoard # <<>> /\ Len(toBoard') = Len(toBoard) - 1 /\ Len(toBoard) \in Nat
            /\ UNCHANGED <<pos, got>>
        BY <2>7, Taken, Places DEF Takes, Reads, HostSide, Base
      <3>2. Count
        BY <2>2, <3>1 DEF Full
      <3>3. Len(Pending') \in {Len(Pending), Len(Pending) + 1}
        <4>1. CASE Reads
          <5>1. Pending' = Pending
            BY <4>1 DEF Reads, Pending, monitor
          <5> QED
            BY <5>1
        <4>2. CASE Takes
          <5>1. out = <<>> /\ toHost' = toHost /\ \E c \in Message : out' = <<c>>
            <6>1. out = <<>> /\ toHost' = toHost /\ Getline(Head(toBoard)) /\ Head(toBoard) \in Char
                  /\ out' = <<getchr(Head(toBoard))>>
              BY <4>2, Taken DEF Takes, Getline, Base
            <6>2. getchr(Head(toBoard)) \in Message
              BY <6>1, GetlineIs DEF Base, Message
            <6> QED
              BY <6>1, <6>2
          <5>2. PICK c \in Message : out' = <<c>>
            BY <5>1
          <5>3. Pending' = Append(Pending, c)
            BY <5>1, <5>2, Places, PendingSaid, AppendIsConcat
          <5> QED
            BY <5>3, Places, AppendProperties
        <4> QED
          BY <2>7, <4>1, <4>2
      <3>4. got + Len(Pending) + Len(toBoard) <= pos
        BY <3>2 DEF Count
      <3>5. got + Len(Pending') + Len(toBoard') <= pos
        BY <3>1, <3>3, <3>4, Places
      <3> QED
        BY <3>1, <3>5 DEF Count
    <2>8. CASE Obeys
      <3>1. Obey /\ out = <<>> /\ UNCHANGED <<file, pos, got, toBoard, toHost>>
        BY <2>8 DEF Obeys, Obey, Line3, HostSide
      <3>2. PICK r \in 0 .. Len(file) :
              Underway(r) /\ (Over \/ \E s \in 1 .. Len(file) + 1 : BoardAt(s, r))
        BY <1>2, <2>1 DEF DownInv
      <3>3. PICK s \in 1 .. Len(file) + 1 : BoardAt(s, r)
        BY <2>8, <3>2, OverKept
      <3>4. out' = <<>> \/ r = Len(file)
        BY <1>2, <3>1, <3>3, ObeyAt
      <3>5. CASE out' = <<>>
        <4>1. Pending' = Pending
          BY <3>1, <3>5 DEF Pending
        <4> QED
          BY <2>2, <3>1, <4>1 DEF Count, Full
      <3>6. CASE r = Len(file)
        <4>1. Full
          BY <3>2, <3>6, UnderwayIs DEF Full
        <4> QED
          BY <3>1, <4>1 DEF Full
      <3> QED
        BY <3>4, <3>5, <3>6
    <2>9. CASE Writes
      <3>1. /\ pos < Len(file) /\ pos' = pos + 1 /\ got' = got /\ Pending' = Pending
            /\ Len(toBoard') \in Nat /\ Len(toBoard') <= Len(toBoard) + 1
        <4>1. PutCom(file[pos + 1]) /\ file[pos + 1] \in Char /\ TypeOK /\ UNCHANGED monitor
          BY <2>9 DEF Writes, Base
        <4>2. toBoard' \in Seq(Char) /\ Len(toBoard') \in Len(toBoard) .. Len(toBoard) + 1
          BY <4>1, CarryDown
        <4>3. toHost' = toHost /\ out' = out
          BY <4>1 DEF PutCom, monitor
        <4> QED
          BY <2>9, <4>2, <4>3, Places DEF Writes, Pending
      <3>2. got + Len(Pending) + Len(toBoard) <= pos
        BY <2>2, <3>1, Places DEF Count, Full
      <3>3. got + Len(Pending) + Len(toBoard') <= pos + 1
        BY <3>1, <3>2, Places
      <3> QED
        BY <3>1, <3>3 DEF Count
    <2>10. CASE Accepts
      <3>1. got' = got + 1 /\ Len(Pending') = Len(Pending) - 1 /\ UNCHANGED <<pos, toBoard>>
        BY <2>10, PendingHeard DEF Accepts, monitor
      <3> QED
        BY <1>2, <2>2, <3>1, Places DEF Count, Full
    <2> QED
      BY <1>1, <1>4, <2>4, <2>5, <2>6, <2>7, <2>8, <2>9, <2>10 DEF BoardSteps, HostSteps
  <1> QED
    BY <1>3, <1>4

-----------------------------------------------------------------------------
(* The last line starts the program *)

GoLast(k) == k \in Starts /\ IsLast(k) /\ GoLine(Line(k))

\* The board has yet to obey the line before k; or it has, and what it has
\* besides is no longer than the line at k.
Ready(k) ==
  \/ /\ out = <<>> /\ mode = "line" /\ Len(toBoard) <= pos - k + 1
     /\ \E s \in 1 .. Len(file) + 1 : BoardAt(s, k - 1)
  \/ StoredBefore(k) /\ Len(linbuf) + Len(toBoard) <= pos - k + 1

GoInv ==
  clean /\ kind = "sync" /\ faults.up = 0 /\ IsLoadFile =>
    \A k \in Starts : GoLast(k) /\ k <= got + 1 => Ready(k)

\* The line that starts the program is short, and comes after all bytes.
LEMMA GoLastIs ==
  ASSUME Base, NEW k, GoLast(k)
  PROVE  /\ k \in 1 .. Len(file) /\ k \in Nat /\ Len(file) - k + 1 <= ADDR + 2
         /\ k = 1 \/ file[k - 1] = NL
         /\ ImageBefore(Len(file) + 1) = ImageBefore(k)
  <1>1. /\ file \in Files /\ file \in Seq(Char) /\ Len(file) \in Nat /\ DOMAIN file = 1 .. Len(file)
        /\ k \in 1 .. Len(file) /\ k \in Nat /\ (k = 1 \/ file[k - 1] = NL)
    BY FileIs DEF GoLast, Starts, Base, TypeOK
  <1>2. PICK e : EndsAt(k, e)
    BY <1>1, OneEnd
  <1>3. Line(k) = SubSeq(file, k, e) /\ e \in k .. Len(file) /\ e \in Nat
    <2>1. e \in k .. Len(file)
      BY <1>2 DEF EndsAt
    <2>2. e \in Nat
      BY <1>1, <2>1
    <2>3. Line(k) = SubSeq(file, k, e)
      BY <1>1, <1>2, LineIs
    <2> QED
      BY <2>1, <2>2, <2>3
  <1>4. e = Len(file)
    <2> SUFFICES ASSUME e # Len(file) PROVE FALSE
      OBVIOUS
    <2>1. file[e] = NL
      BY <1>2 DEF EndsAt
    <2>2. e + 1 \in 1 .. Len(file) /\ (e + 1) - 1 = e /\ ~(e + 1 <= k)
      <3>1. e \in k .. Len(file) /\ e \in Nat /\ k \in Nat /\ Len(file) \in Nat /\ e # Len(file)
        BY <1>1, <1>3
      <3> QED
        BY <3>1
    <2>3. e + 1 \in Starts
      BY <1>1, <2>1, <2>2 DEF Starts
    <2> QED
      BY <2>2, <2>3 DEF GoLast, IsLast
  <1> DEFINE line == Line(k)
             n == Len(line)
  <1>5. line \in Seq(Char) /\ n = Len(file) - k + 1 /\ n \in Nat \ {0} /\ line[1] = file[k]
    <2>1. k \in 1 .. Len(file) + 1 /\ e \in k - 1 .. Len(file) /\ k \in k .. e /\ k - k + 1 = 1
      BY <1>1, <1>3
    <2>2. /\ line \in Seq(Char) /\ n = e - k + 1
          /\ \A j \in k .. e : line[j - k + 1] = file[j]
      BY <1>1, <1>3, <2>1, PartIs
    <2>3. e - k + 1 \in Nat \ {0}
      BY <1>1, <1>3
    <2> QED
      BY <1>4, <2>1, <2>2, <2>3
  <1>6. /\ line[1] = "G" /\ line[n] = NL /\ Len(SubSeq(line, 2, n - 1)) \in 1 .. ADDR
    BY DEF GoLast, GoLine, Whole, Last, Digits
  <1> HIDE DEF line, n
  <1>7. n <= ADDR + 2
    <2>1. n # 1
      BY <1>6, Tokens
    <2>2. 2 \in 1 .. n + 1 /\ n - 1 \in 2 - 1 .. n /\ (n - 1) - 2 + 1 = n - 2
      <3>1. n \in Nat \ {0} /\ n # 1
        BY <1>5, <2>1
      <3> QED
        BY <3>1
    <2>3. Len(SubSeq(line, 2, n - 1)) = (n - 1) - 2 + 1
      BY <1>5, <2>2, PartIs DEF n
    <2>4. n - 2 <= ADDR
      BY <1>6, <2>2, <2>3, Sizes
    <2> QED
      BY <1>5, <2>4, Sizes
  <1>8. ImageBefore(Len(file) + 1) = ImageBefore(k)
    <2>1. file[k] # "L"
      BY <1>5, <1>6 DEF line
    <2>2. ASSUME NEW j \in Starts PROVE j < Len(file) + 1 /\ file[j] = "L" <=> j < k /\ file[j] = "L"
      <3>1. j \in 1 .. Len(file) /\ j <= k
        BY <1>1 DEF GoLast, IsLast, Starts
      <3> QED
        BY <1>1, <2>1, <3>1
    <2>3. {j \in Starts : j < Len(file) + 1 /\ file[j] = "L"} = {j \in Starts : j < k /\ file[j] = "L"}
      BY <2>2
    <2> QED
      BY <2>3 DEF ImageBefore
  <1> QED
    BY <1>1, <1>5, <1>7, <1>8

\* A line that is no longer than one that starts a program stores nothing.
LEMMA ShortLine ==
  ASSUME Base, Obey, Len(linbuf) <= ADDR + 2
  PROVE  mem' = mem
  <1>1. TypeOK /\ MonitorInv /\ mode = "line" /\ (Last(linbuf) # NL => mem' = mem)
    BY ObeyIs DEF Base
  <1>2. CASE Last(linbuf) = NL
    <2>1. linbuf[1] # "L" => mem' = mem
      BY <1>1, <1>2, LineSays
    <2>2. linbuf[1] = "L" => mem' = Stored.mem
      BY <1>1, <1>2, LineSays
    <2>3. CASE linbuf[1] = "L"
      <3>1. CompleteLine
        BY <1>1, <1>2, <2>3, CommandLine, Tokens
      <3>2. Len(Numeral) \in 0 .. Len(linbuf) - 2 /\ Len(linbuf) \in Nat /\ ADDR \in Nat
        BY <3>1, NumeralIs, LenProperties, Sizes DEF CompleteLine
      <3>3. Len(Numeral) <= ADDR
        BY <3>2
      <3>4. Stored.mem = mem
        BY <3>3, NothingStored
      <3> QED
        BY <2>2, <2>3, <3>4
    <2> QED
      BY <2>1, <2>3
  <1> QED
    BY <1>1, <1>2

\* Until the program runs, memory is ready for it: what the board can still obey
\* is too short to store anything.
LEMMA ReadyBoard ==
  ASSUME Base, NEW k \in Starts, GoLast(k), IsLoadFile, Ready(k), BoardSteps
  PROVE  Ready(k)'
  <1>0. file' = file /\ pos' = pos
    BY DEF BoardSteps, Sends, Takes, Obeys, Returns, Reads, HostSide
  <1>1. /\ k \in 1 .. Len(file) /\ k \in Nat /\ Len(file) - k + 1 <= ADDR + 2 /\ ADDR \in Nat
        /\ pos \in Nat /\ pos <= Len(file) /\ Len(file) \in Nat /\ Len(toBoard) \in Nat /\ Len(linbuf) \in Nat
    BY GoLastIs, Places, Sizes, LenProperties DEF Base, TypeOK, MonitorTypeOK
  <1>2. mem' = mem => (StoredBefore(k) => StoredBefore(k)')
    BY <1>0, FileSame DEF StoredBefore
  <1>3. CASE Sends
    <2>1. out # <<>> /\ UNCHANGED <<linbuf, mem, toBoard>>
      BY <1>3 DEF Sends, Putchr
    <2> QED
      BY <1>0, <1>2, <2>1 DEF Ready
  <1>4. CASE Takes
    <2>1. /\ mode = "getline" /\ mem' = mem /\ Len(linbuf') = Len(linbuf) + 1
          /\ Len(toBoard') = Len(toBoard) - 1
      <3>1. toBoard # <<>> /\ toBoard' = Tail(toBoard) /\ Getline(Head(toBoard)) /\ TypeOK /\ MonitorInv
        BY <1>4 DEF Takes, Base
      <3> QED
        BY <3>1, Taken, GetlineIs DEF Getline
    <2>2. StoredBefore(k) /\ Len(linbuf) + Len(toBoard) <= pos - k + 1
      BY <2>1 DEF Ready
    <2>3. Len(linbuf') + Len(toBoard') <= pos - k + 1
      BY <1>1, <2>1, <2>2
    <2> QED
      BY <1>0, <1>2, <2>1, <2>2, <2>3 DEF Ready
  <1>5. CASE Obeys
    <2>1. Obey /\ toBoard' = toBoard /\ linbuf' = <<>>
      BY <1>5 DEF Obeys, Obey, Line3
    <2>2. CASE StoredBefore(k) /\ Len(linbuf) + Len(toBoard) <= pos - k + 1
      <3>1. Len(linbuf) <= ADDR + 2 /\ Len(toBoard) <= pos - k + 1
        BY <1>1, <2>2
      <3>2. mem' = mem
        BY <2>1, <3>1, ShortLine
      <3> QED
        BY <1>0, <1>1, <1>2, <2>1, <2>2, <3>1, <3>2 DEF Ready
    <2>3. ASSUME NEW s \in 1 .. Len(file) + 1, BoardAt(s, k - 1), Len(toBoard) <= pos - k + 1
          PROVE  Ready(k)'
      <3>1. PICK n \in Nat : n = k - 1 /\ n + 1 = k /\ n # Len(file)
        BY <1>1
      <3>2. BoardAt(n + 1, n)'
        BY <1>0, <2>1, <2>3, <3>1, ObeyAt
      <3>3. StoredBefore(n + 1)'
        BY <3>2 DEF BoardAt
      <3>4. StoredBefore(k)'
        BY <3>1, <3>3
      <3> QED
        BY <1>0, <1>1, <2>1, <2>3, <3>4 DEF Ready
    <2> QED
      BY <2>2, <2>3 DEF Ready
  <1>6. CASE Returns
    <2>1. mode = "running" /\ UNCHANGED <<linbuf, mem, toBoard>>
      BY <1>6 DEF Returns, Line3
    <2> QED
      BY <1>0, <1>2, <2>1 DEF Ready
  <1>7. CASE Reads
    <2>1. mode = "running" /\ UNCHANGED <<linbuf, mem>> /\ Len(toBoard') = Len(toBoard) - 1
      BY <1>7, Taken DEF Reads, monitor, Base
    <2>2. StoredBefore(k) /\ Len(linbuf) + Len(toBoard) <= pos - k + 1
      BY <2>1 DEF Ready
    <2>3. Len(linbuf') + Len(toBoard') <= pos - k + 1
      BY <1>1, <2>1, <2>2
    <2> QED
      BY <1>0, <1>2, <2>1, <2>2, <2>3 DEF Ready
  <1> QED
    BY <1>3, <1>4, <1>5, <1>6, <1>7 DEF BoardSteps

\* The host can add no more than the rest of the line.
LEMMA ReadyHost ==
  ASSUME Base, NEW k \in Starts, GoLast(k), Ready(k), HostSteps, ~Begins, ~Prepares
  PROVE  Ready(k)'
  <1>1. /\ k \in Nat /\ pos \in Nat /\ Len(toBoard) \in Nat /\ Len(linbuf) \in Nat
    BY GoLastIs, Places, LenProperties DEF Base, TypeOK, MonitorTypeOK
  <1>2. UNCHANGED <<file, mode, linbuf, mem, out>>
    BY DEF HostSteps, Shows, Leaves, Writes, Completes, Accepts, Responds, Fails, Stays, monitor, HostSide
  <1>3. /\ StoredBefore(k) => StoredBefore(k)'
        /\ \A s : BoardAt(s, k - 1) => BoardAt(s, k - 1)'
    BY <1>2, BoardSame
  <1>4. CASE Writes
    <2>1. pos' = pos + 1 /\ Len(toBoard') \in Nat /\ Len(toBoard') <= Len(toBoard) + 1
      <3>1. PutCom(file[pos + 1]) /\ file[pos + 1] \in Char /\ TypeOK /\ pos' = pos + 1
        BY <1>4 DEF Writes, Base
      <3>2. toBoard' \in Seq(Char) /\ Len(toBoard') \in Len(toBoard) .. Len(toBoard) + 1
        BY <3>1, CarryDown
      <3> QED
        BY <1>1, <3>1, <3>2
    <2>2. /\ Len(toBoard) <= pos - k + 1 => Len(toBoard') <= (pos + 1) - k + 1
          /\ Len(linbuf) + Len(toBoard) <= pos - k + 1 => Len(linbuf) + Len(toBoard') <= (pos + 1) - k + 1
      BY <1>1, <2>1
    <2> QED
      BY <1>2, <1>3, <2>1, <2>2 DEF Ready
  <1>5. CASE ~Writes
    <2>1. UNCHANGED <<pos, toBoard>>
      BY <1>5 DEF HostSteps, Shows, Leaves, Completes, Accepts, Responds, Fails, Stays, HostSide, Line3
    <2> QED
      BY <1>2, <1>3, <2>1 DEF Ready
  <1> QED
    BY <1>4, <1>5

\* The newline before the last line is echoed: the board has it, and has obeyed
\* its line or is about to.
LEMMA ReadyAccepts ==
  ASSUME Base, InSight, Accepts, IsLoadFile, NEW k \in Starts, GoLast(k), k = got + 2
  PROVE  Ready(k)'
  <1>1. /\ got < pos /\ Pending # <<>> /\ Pending[1] = file[got + 1]
        /\ UNCHANGED <<file, mode, linbuf, mem, out, pos, toBoard>>
        /\ \A j \in got + 1 .. pos - 1 : ~LineEnds(j)
        /\ toHost # <<>>
    BY PendingHeard DEF Accepts, monitor, Heard
  <1>2. k \in 1 .. Len(file) /\ k \in Nat /\ (k = 1 \/ file[k - 1] = NL)
    BY GoLastIs
  <1>3. got + 1 = k - 1 /\ file[got + 1] = NL
    BY <1>2, Places
  <1>4. pos = k - 1 /\ pos = got + 1 /\ pos # Len(file) /\ got \in Nat /\ pos \in Nat
    <2>1. ~(got + 1 \in got + 1 .. pos - 1)
      BY <1>1, <1>3 DEF LineEnds
    <2>2. got \in Nat /\ pos \in Nat /\ Len(file) \in Nat
      BY Places
    <2>3. ~(got + 1 <= pos - 1)
      BY <2>1, <2>2
    <2> QED
      BY <1>1, <1>2, <1>3, <2>2, <2>3
  <1>5. PICK s \in 1 .. Len(file) + 1, r \in 0 .. Len(file) : InStep(s, r)
    <2>1. ~Told
      BY <1>4 DEF Told, Over
    <2>2. ASSUME NEW d \in 1 .. Len(Pending), Differs(d) PROVE FALSE
      <3>1. got + d <= pos /\ Pending[d] # file[got + d]
        BY <2>2 DEF Differs
      <3>2. d = 1
        BY <1>4, <3>1, Places
      <3> QED
        BY <1>1, <3>1, <3>2
    <2> QED
      BY <2>1, <2>2 DEF InSight
  <1>6. /\ BoardAt(s, r) /\ Len(toBoard) <= pos - r /\ r = pos
        /\ Len(Pending) = r - got
    <2>1. BoardAt(s, r) /\ Len(toBoard) <= pos - r
      BY <1>5 DEF InStep
    <2>2. r \in Nat /\ got <= r /\ r <= pos /\ r # got /\ Len(Pending) = r - got
      BY <1>1, <1>5, InStepIs
    <2> QED
      BY <1>4, <2>1, <2>2
  <1>7. Len(toBoard) <= 0 /\ Len(toBoard) \in Nat /\ r = k - 1 /\ Len(Pending) = 1
    BY <1>4, <1>6, Places
  <1>8. out = <<>>
    <2>1. Len(toHost) \in Nat /\ Len(out) \in Nat /\ Len(toHost) + Len(out) = 1
          /\ toHost \in Seq(Message) /\ out \in Seq(Message)
      BY <1>7, PendingIs DEF Base, TypeOK, MonitorInv, Message
    <2>2. Len(toHost) # 0
      BY <1>1, <2>1, EmptySeq
    <2>3. Len(out) = 0
      BY <2>1, <2>2
    <2> QED
      BY <2>1, <2>3, EmptySeq
  <1>9. BoardAt(s, k - 1)
    BY <1>6, <1>7
  <1>10. CASE mode = "line"
    <2>1. BoardAt(s, k - 1)'
      BY <1>1, <1>9, BoardSame
    <2>2. Len(toBoard') <= pos' - k + 1
      BY <1>1, <1>2, <1>4, <1>7
    <2> QED
      BY <1>1, <1>8, <1>10, <2>1, <2>2 DEF Ready
  <1>11. CASE mode # "line"
    <2>1. mode = "getline"
      BY <1>9, <1>11 DEF BoardAt
    <2>2. ~(k - 1 \in s .. k - 1)
      BY <1>3, <1>9, <2>1, NoNewline
    <2>3. s \in Nat /\ k - 1 \in s - 1 .. Len(file) /\ Len(linbuf) = (k - 1) - s + 1
      BY <1>9, AtBoard
    <2>4. s = k /\ Len(linbuf) = 0
      BY <1>2, <2>2, <2>3
    <2>5. StoredBefore(k)
      BY <1>9, <2>4 DEF BoardAt
    <2>6. StoredBefore(k)'
      BY <1>1, <2>5, BoardSame
    <2>7. Len(linbuf') + Len(toBoard') <= pos' - k + 1
      BY <1>1, <1>2, <1>4, <1>7, <2>4
    <2> QED
      BY <1>1, <2>6, <2>7 DEF Ready
  <1> QED
    BY <1>10, <1>11

\* The line that starts the program is only written once all before it were echoed.
LEMMA GoStep ==
  ASSUME Base, UpInv, GoInv, BoardSteps \/ HostSteps
  PROVE  GoInv'
  <1> SUFFICES ASSUME clean', kind' = "sync", faults'.up = 0, IsLoadFile', NEW k \in Starts',
                      GoLast(k)', k <= got' + 1
               PROVE  Ready(k)'
    BY DEF GoInv
  <1>1. ~Prepares
    BY DEF Prepares
  <1>2. file' = file /\ faults.up = 0
    BY <1>1, FaultsBack
  <1>3. IsLoadFile /\ k \in Starts /\ GoLast(k)
    BY <1>2, FileSame DEF GoLast
  <1>4. k \in Nat /\ k \in 1 .. Len(file)
    BY <1>3, GoLastIs
  <1>5. CASE Begins
    <2>1. BoardAt(1, 0)' /\ got' = 0 /\ pos' = 0 /\ linbuf' = <<>> /\ toBoard' = <<>>
      BY <1>5, BeginsAt
    <2>2. k = 1
      BY <1>4, <2>1
    <2>3. StoredBefore(k)'
      BY <2>1, <2>2 DEF BoardAt
    <2> QED
      BY <2>1, <2>2, <2>3 DEF Ready
  <1>6. CASE ~Begins
    <2>1. clean /\ kind = "sync"
      <3>1. kind' = kind
        BY <1>1 DEF BoardSteps, Sends, Takes, Obeys, Returns, Reads, HostSteps, Shows, Begins, Leaves,
                    Writes, Completes, Accepts, Responds, Fails, Stays, HostSide
      <3> QED
        BY <1>1, <1>6, <3>1, FaultsBack
    <2>2. CASE k <= got + 1
      <3>1. Ready(k)
        BY <1>2, <1>3, <2>1, <2>2 DEF GoInv
      <3> QED
        BY <1>1, <1>3, <1>6, <3>1, ReadyBoard, ReadyHost
    <2>3. CASE ~(k <= got + 1)
      <3>1. Accepts
        <4>1. got' # got
          BY <2>3
        <4> QED
          BY <1>1, <4>1 DEF BoardSteps, Sends, Takes, Obeys, Returns, Reads, HostSteps, Shows, Begins,
                Leaves, Writes, Completes, Responds, Fails, Stays, HostSide
      <3>2. k = got + 2
        BY <1>4, <2>3, <3>1, Places DEF Accepts
      <3>3. InSight
        BY <1>2, <2>1, <3>1 DEF UpInv, Accepts
      <3> QED
        BY <1>3, <3>1, <3>2, <3>3, ReadyAccepts
    <2> QED
      BY <2>2, <2>3
  <1> QED
    BY <1>5, <1>6

-----------------------------------------------------------------------------
(* The theorems *)

Inv == Base /\ DownInv /\ UpInv /\ IntactInv /\ DoneInv /\ CountInv /\ GoInv

LEMMA InvInit ==
  ASSUME Init
  PROVE  Inv
  <1>1. Base /\ DownInv
    BY BaseInit, DownInit
  <1>2. clean = FALSE
    BY DEF Init
  <1> QED
    BY <1>1, <1>2 DEF Inv, UpInv, IntactInv, DoneInv, CountInv, GoInv

LEMMA InvNext ==
  ASSUME Inv, [Next]_vars
  PROVE  Inv'
  <1>1. Base /\ DownInv /\ UpInv /\ IntactInv /\ DoneInv /\ CountInv /\ GoInv
    BY DEF Inv
  <1>2. Base' /\ (BoardSteps \/ HostSteps)
    BY <1>1, BaseNext, StepIs
  <1>3. DownInv' /\ UpInv'
    BY <1>1, <1>2, DownBoard, DownHost, UpBoard, UpHost
  <1>4. IntactInv' /\ DoneInv' /\ CountInv' /\ GoInv'
    BY <1>1, <1>2, IntactStep, DoneStep, CountStep, GoStep
  <1> QED
    BY <1>2, <1>3, <1>4 DEF Inv

\* The inductive invariant.
LEMMA Inductive == Spec => []Inv
  <1>1. Init => Inv
    BY InvInit
  <1>2. Inv /\ [Next]_vars => Inv'
    BY InvNext
  <1> QED
    BY <1>1, <1>2, PTL DEF Spec

\* te.c, main.rs: an upload of a proper file over an intact line is not reported
\* as failed: each echo is the one awaited, and comes before the deadline.
THEOREM IntactGoesThrough == Spec => []IntactCompletes
  <1>1. Inv => IntactCompletes
    BY DEF Inv, IntactInv, IntactCompletes
  <1> QED
    BY <1>1, Inductive, PTL

\* What the file says is what the lines before its end say.
LEMMA ImageIs ==
  ASSUME file \in Files
  PROVE  Image = ImageBefore(Len(file) + 1)
  <1>1. \A j \in Starts : j < Len(file) + 1
    BY FileIs DEF Starts
  <1>2. {j \in Starts : file[j] = "L"} = {j \in Starts : j < Len(file) + 1 /\ file[j] = "L"}
    BY <1>1
  <1> QED
    BY <1>2 DEF Image, ImageBefore

\* When the upload is over, or the program runs, memory holds the whole file.
LEMMA Holds ==
  ASSUME Inv, clean, IsLoadFile,
         \/ faults.down = 0 /\ (Finished \/ mode = "running")
         \/ kind = "sync" /\ faults.up = 0 /\ (Finished \/ OnlyGoAwaited)
  PROVE  StoredBefore(Len(file) + 1)
  <1>1. Base /\ DownInv /\ DoneInv /\ GoInv /\ Len(file) \in Nat /\ pos \in Nat
    BY Places DEF Inv
  <1>2. Over => StoredBefore(Len(file) + 1)
    BY DEF Over, AllObeyed
  <1>3. ASSUME NEW s, BoardAt(s, Len(file)), Finished \/ mode = "running"
        PROVE  StoredBefore(Len(file) + 1)
    <2>1. linbuf = <<>>
      BY <1>3 DEF BoardAt, Finished, Idle
    <2>2. s \in Nat /\ Len(file) = s - 1
      BY <1>1, <1>3, <2>1, AtBoard
    <2>3. s = Len(file) + 1
      BY <1>1, <2>2
    <2> QED
      BY <1>3, <2>3 DEF BoardAt
  <1>4. CASE faults.down = 0 /\ (Finished \/ mode = "running")
    <2>1. PICK r \in 0 .. Len(file) :
            Underway(r) /\ (Over \/ \E s \in 1 .. Len(file) + 1 : BoardAt(s, r))
      BY <1>1, <1>4 DEF DownInv
    <2>2. ASSUME NEW s \in 1 .. Len(file) + 1, BoardAt(s, r) PROVE StoredBefore(Len(file) + 1)
      <3>1. Idle /\ verdict = "completed"
        BY <1>4, <2>2 DEF BoardAt, Finished
      <3>2. pos = Len(file) /\ toBoard = <<>>
        BY <1>1, <3>1 DEF Base, HostInv, Idle
      <3>3. r = Len(file)
        BY <1>1, <2>1, <3>2, UnderwayIs
      <3> QED
        BY <1>3, <1>4, <2>2, <3>3
    <2> QED
      BY <1>2, <2>1, <2>2
  <1>5. CASE kind = "sync" /\ faults.up = 0 /\ Finished
    <2>1. Over \/ AtEnd
      BY <1>1, <1>5 DEF DoneInv, Finished
    <2> QED
      BY <1>2, <1>3, <1>5, <2>1 DEF AtEnd
  <1>6. CASE kind = "sync" /\ faults.up = 0 /\ OnlyGoAwaited
    <2>1. PICK k \in Starts : GoLast(k) /\ k <= got + 1 /\ mode = "running"
      BY <1>6 DEF OnlyGoAwaited, GoLast
    <2>2. Ready(k)
      BY <1>1, <1>6, <2>1 DEF GoInv
    <2>3. StoredBefore(k)
      BY <2>1, <2>2 DEF Ready
    <2>4. ImageBefore(Len(file) + 1) = ImageBefore(k)
      BY <1>1, <2>1, GoLastIs
    <2> QED
      BY <2>3, <2>4 DEF StoredBefore
  <1> QED
    BY <1>4, <1>5, <1>6

\* main.rs: a completed upload of te-rs --sync, and the program that its last line
\* starts, find in memory what the file says, whatever a faulty line did one way;
\* so does one of te or te-rs when what they write arrives.
THEOREM UploadStored == Spec => []UploadIsStored
  <1>1. Inv => UploadIsStored
    <2> SUFFICES ASSUME Inv, clean, IsLoadFile,
                        \/ faults.down = 0 /\ (Finished \/ mode = "running")
                        \/ kind = "sync" /\ faults.up = 0 /\ (Finished \/ OnlyGoAwaited),
                        NEW b \in Image, \A d \in Image : d.adr = b.adr => d.at <= b.at
                 PROVE  mem[b.adr] = b.byte
      BY DEF UploadIsStored
    <2>1. StoredBefore(Len(file) + 1)
      BY Holds
    <2>2. Image = ImageBefore(Len(file) + 1)
      BY ImageIs DEF Inv, Base, TypeOK
    <2>3. b \in Latest(ImageBefore(Len(file) + 1))
      BY <2>2 DEF Latest
    <2> QED
      BY <2>1, <2>3 DEF StoredBefore
  <1> QED
    BY <1>1, Inductive, PTL

\* main.rs, wait_for_echo: what the monitor says of a line comes where the echo of
\* the next is awaited, so a completed synchronised upload has had no message but
\* after its last line.
THEOREM RejectionIsSeen == Spec => []RejectedIsLast
  <1>1. Inv => RejectedIsLast
    <2> SUFFICES ASSUME Inv, kind = "sync", clean, Intact, verdict = "completed", NEW k \in Starts
                 PROVE  IsLast(k) \/ Quietly(Line(k))
      BY DEF RejectedIsLast
    <2>1. Base /\ (Over \/ AtEnd) /\ Len(file) \in Nat
      BY IntactIs, Places DEF Inv, DoneInv
    <2>2. CASE Over
      BY <2>2 DEF Over, AllObeyed
    <2>3. CASE AtEnd
      <3>1. PICK s \in 1 .. Len(file) + 1 : BoardAt(s, Len(file))
        BY <2>3 DEF AtEnd
      <3>2. k < s => Quietly(Line(k))
        BY <3>1 DEF BoardAt, QuietBefore
      <3>3. k \in 1 .. Len(file)
        BY <2>1, FileIs DEF Starts, Base, TypeOK
      <3>4. CASE s = Len(file) + 1
        BY <2>1, <3>2, <3>3, <3>4
      <3>5. CASE s # Len(file) + 1
        <4>1. Len(file) \in s .. Len(file)
          BY <2>1, <3>5
        <4>2. \A j \in Starts : j <= s /\ (j < s \/ j = s)
          BY <2>1, <3>1, <4>1, LastStart
        <4> QED
          BY <3>2, <4>2 DEF IsLast
      <3> QED
        BY <3>4, <3>5
    <2> QED
      BY <2>1, <2>2, <2>3
  <1> QED
    BY <1>1, Inductive, PTL

\* main.rs: while lines are echoed one by one, no buffer fills.
LEMMA SyncFits ==
  ASSUME Base, kind = "sync", host = "upload"
  PROVE  pos - got < BOARDBUF
  <1>1. /\ pos \in Nat /\ got \in Nat /\ got <= pos /\ pos <= Len(file) /\ Len(file) \in Nat
        /\ BOARDBUF \in Nat \ {0} /\ MaxKeys \in Nat /\ file \in Files /\ DOMAIN file = 1 .. Len(file)
        /\ \A j \in got + 1 .. pos : ~LineEnds(j)
    BY TerminalsAssumption, Places, FileIs DEF Base, HostInv
  <1> SUFFICES ASSUME BOARDBUF <= pos - got PROVE FALSE
    BY <1>1
  <1>2. got + 1 \in DOMAIN file
    BY <1>1
  <1>3. PICK j \in got + 1 .. got + 1 + BOARDBUF - MaxKeys - 1 :
          j = Len(file) \/ (j \in DOMAIN file /\ file[j] = NL)
    BY <1>1, <1>2, LinesFit
  <1>4. j \in got + 1 .. pos
    <2>1. /\ pos \in Nat /\ got \in Nat /\ BOARDBUF \in Nat /\ MaxKeys \in Nat
          /\ BOARDBUF <= pos - got
      BY <1>1
    <2>2. j \in Int /\ got + 1 <= j /\ j <= got + 1 + BOARDBUF - MaxKeys - 1
      BY <2>1
    <2>3. got + 1 + BOARDBUF - MaxKeys - 1 <= pos
      BY <2>1
    <2> QED
      BY <2>1, <2>2, <2>3
  <1> QED
    BY <1>1, <1>3, <1>4 DEF LineEnds

\* Who waits for whom: a full line to the board holds more than a line of the file.
LEMMA NotStuck ==
  ASSUME Inv
  PROVE  OnlyUnsyncedSticks
  <1> SUFFICES ASSUME clean, IsLoadFile, OneWay, Stuck
               PROVE  kind = "te-rs" /\ (Intact => pos > BOARDBUF + HOSTBUF)
    BY DEF OnlyUnsyncedSticks
  <1>1. Base /\ UpInv /\ CountInv
    BY DEF Inv
  <1>2. /\ host = "upload" /\ kind \in {"te-rs", "sync"} /\ Len(toBoard) = BOARDBUF /\ out # <<>>
        /\ Len(toHost) = HOSTBUF
    BY <1>1 DEF Stuck, Base, TypeOK
  <1>3. /\ BOARDBUF \in Nat \ {0} /\ HOSTBUF \in Nat /\ toBoard # <<>> /\ ~Over
        /\ pos \in Nat /\ got \in Nat /\ Len(Pending) \in Nat /\ Len(Pending) = HOSTBUF + Len(out)
        /\ Len(out) \in Nat
    BY <1>1, <1>2, TerminalsAssumption, Places, PendingIs, EmptySeq DEF Over
  <1>4. faults.up = 0 => InSight
    BY <1>1, <1>2 DEF UpInv
  <1>5. ASSUME NEW s, NEW r, InStep(s, r)
        PROVE  /\ BOARDBUF <= pos - got
               /\ kind = "te-rs" /\ Intact => pos > BOARDBUF + HOSTBUF
    <2>1. /\ r \in Nat /\ got <= r /\ r <= pos /\ Len(Pending) = r - got /\ BOARDBUF <= pos - r
      BY <1>1, <1>2, <1>5, InStepIs DEF InStep
    <2>2. BOARDBUF <= pos - got
      BY <1>3, <2>1
    <2>3. ASSUME kind = "te-rs", Intact PROVE pos > BOARDBUF + HOSTBUF
      <3>1. got = 0
        BY <1>1, <2>3 DEF Base, HostInv
      <3>2. Len(out) # 0
        <4>1. out \in Seq(Message)
          BY <1>1 DEF Base, MonitorInv
        <4> QED
          BY <1>2, <4>1, EmptySeq
      <3> QED
        BY <1>3, <2>1, <3>1, <3>2
    <2> QED
      BY <2>2, <2>3
  <1>6. ASSUME NEW d \in 1 .. Len(Pending), Differs(d) PROVE BOARDBUF <= pos - got /\ ~Intact
    <2>1. BOARDBUF <= pos - (got + d - 1) /\ faults.down # 0
      BY <1>2, <1>6 DEF Differs
    <2>2. BOARDBUF <= pos - got
      BY <1>3, <2>1
    <2> QED
      BY <2>1, <2>2, IntactIs
  <1>7. CASE kind = "sync"
    <2>1. pos - got < BOARDBUF
      BY <1>1, <1>2, <1>7, SyncFits
    <2>2. CASE faults.up = 0
      BY <1>3, <1>4, <1>5, <1>6, <2>1, <2>2 DEF InSight, Told
    <2>3. CASE faults.down = 0
      <3>1. got + Len(Pending) + Len(toBoard) <= pos
        BY <1>1, <1>2, <1>3, <1>7, <2>3 DEF CountInv
      <3> QED
        BY <1>2, <1>3, <2>1, <3>1
    <2> QED
      BY <2>2, <2>3 DEF OneWay
  <1>8. CASE kind = "te-rs"
    <2>1. ASSUME Intact PROVE pos > BOARDBUF + HOSTBUF
      BY <1>3, <1>4, <1>5, <1>6, <1>8, <2>1, IntactIs DEF InSight, Told
    <2> QED
      BY <1>8, <2>1
  <1> QED
    BY <1>2, <1>7, <1>8

\* te.c, main.rs: RTS/CTS keeps every buffer in its bound; of the terminals only
\* te-rs without --sync, which does not read while it writes, can come to wait for
\* a board that waits for it, and that only in a file longer than the buffers.
THEOREM FlowControlled == Spec => []FlowOK
  <1>1. Inv => FlowOK
    BY NotStuck DEF Inv, Base, FlowOK
  <1> QED
    BY <1>1, Inductive, PTL
=============================================================================
