------------------------- MODULE LispHeap_proofs -------------------------
(***************************************************************************)
(* What the collector marks is exactly what its roots reach, for every     *)
(* heap; so it frees no cell that the program can still use, and gives up  *)
(* only when there is none to free.                                        *)
(***************************************************************************)
EXTENDS LispHeap, FiniteSetTheorems, SequenceTheorems, WellFoundedInduction, TLAPS

USE LispHeapAssumption

-----------------------------------------------------------------------------
(* Numbers *)

\* Sets of natural numbers have a least element.
LEMMA LeastNat ==
  ASSUME NEW T \in SUBSET Nat, T # {}
  PROVE  \E x \in T : \A y \in T : x <= y
  <1>1. IsWellFoundedOn(OpToRel(<, Nat), Nat)
    BY NatLessThanWellFounded
  <1>2. PICK x \in T : \A y \in T : ~(<<y, x>> \in OpToRel(<, Nat))
    BY <1>1, WFMin
  <1>3. \A y \in T : ~(y < x)
    BY <1>2 DEF OpToRel
  <1>4. ASSUME NEW y \in T PROVE x <= y
    <2>1. x \in Nat /\ y \in Nat /\ ~(y < x)
      BY <1>3
    <2> QED
      BY <2>1
  <1> QED
    BY <1>4

\* Bounded ones have a greatest.
LEMMA GreatestNat ==
  ASSUME NEW n \in Nat, NEW T \in SUBSET (0 .. n), T # {}
  PROVE  \E x \in T : \A y \in T : y <= x
  <1> DEFINE U == {n - y : y \in T}
  <1>1. U \in SUBSET Nat /\ U # {}
    <2>1. ASSUME NEW y \in T PROVE n - y \in Nat
      <3>1. y \in 0 .. n
        OBVIOUS
      <3> QED
        BY <3>1
    <2>2. PICK y \in T : TRUE
      OBVIOUS
    <2>3. n - y \in U
      OBVIOUS
    <2> QED
      BY <2>1, <2>3
  <1>2. PICK u \in U : \A v \in U : u <= v
    <2> HIDE DEF U
    <2> QED
      BY <1>1, LeastNat
  <1>3. PICK x \in T : u = n - x
    OBVIOUS
  <1>4. ASSUME NEW y \in T PROVE y <= x
    <2>1. n - x <= n - y
      BY <1>2, <1>3
    <2>2. x \in Nat /\ y \in Nat
      OBVIOUS
    <2> QED
      BY <2>1, <2>2
  <1> QED
    BY <1>4

\* The head of a free list: the lowest cell of a set.
LEMMA LowestIs ==
  ASSUME NEW set \in SUBSET Cells
  PROVE  /\ set = {} => Lowest(set) = -1
         /\ set # {} => Lowest(set) \in set /\ \A j \in set : Lowest(set) <= j
         /\ Lowest(set) \in Links
  <1>1. CASE set = {}
    BY <1>1 DEF Lowest, Links
  <1>2. CASE set # {}
    <2>1. set \in SUBSET Nat
      BY DEF Cells
    <2>2. \E i \in set : \A j \in set : i <= j
      BY <1>2, <2>1, LeastNat
    <2>3. Lowest(set) = CHOOSE i \in set : \A j \in set : i <= j
      BY <1>2 DEF Lowest
    <2> QED
      BY <1>2, <2>2, <2>3 DEF Links
  <1> QED
    BY <1>1, <1>2

-----------------------------------------------------------------------------
(* Words *)

\* A word that looks like a pointer has the index of a cell; only the link -1, read
\* as a word, leads out of the heap.
LEMMA WordIndex ==
  ASSUME NEW w \in Words \cup Links, IsPointer(w)
  PROVE  PTR_IDX(w) \in Links /\ (w # -1 => PTR_IDX(w) \in Cells)
  <1>1. CASE w \in Words
    BY <1>1 DEF Words, Links, Cells, IsPointer, IS_CONS, IS_EXTENDED, PTR_IDX,
      MAKE_CONS, MAKE_EXTENDED, Tagged, TAG_CONS, TAG_EXTENDED, NIL_VAL, ETYPE_CLOSURE
  <1>2. CASE w \in Links
    BY <1>2 DEF Links, Cells, IsPointer, IS_CONS, IS_EXTENDED, PTR_IDX, TAG_CONS, TAG_EXTENDED
  <1> QED
    BY <1>1, <1>2

LEMMA LastLink == IsPointer(-1) /\ PTR_IDX(-1) = -1
  <1>1. ASSUME NEW i \in Int PROVE (4 * i + 3) % 4 = 3 /\ (4 * i + 3) \div 4 = i
    OBVIOUS
  <1>2. -1 \in Int /\ 4 * (-1) + 3 = -1
    OBVIOUS
  <1>3. (4 * (-1) + 3) % 4 = 3 /\ (4 * (-1) + 3) \div 4 = -1
    BY <1>1, <1>2
  <1>4. (-1) % 4 = 3 /\ (-1) \div 4 = -1
    BY <1>2, <1>3
  <1> QED
    BY <1>4 DEF IsPointer, IS_EXTENDED, TAG_EXTENDED, PTR_IDX

LEMMA NoPointers ==
  ~IsPointer(0) /\ ~IsPointer(NIL_VAL) /\ ~IsPointer(ETYPE_CLOSURE)
  BY DEF IsPointer, IS_CONS, IS_EXTENDED, TAG_CONS, TAG_EXTENDED, NIL_VAL, ETYPE_CLOSURE

LEMMA PointerWords ==
  ASSUME NEW i \in Cells, NEW tag \in {TAG_CONS, TAG_EXTENDED}
  PROVE  Tagged(i, tag) \in Words /\ IsPointer(Tagged(i, tag)) /\ PTR_IDX(Tagged(i, tag)) = i
  BY DEF Words, Cells, IsPointer, IS_CONS, IS_EXTENDED, PTR_IDX, MAKE_CONS, MAKE_EXTENDED,
    Tagged, TAG_CONS, TAG_EXTENDED, NIL_VAL, ETYPE_CLOSURE

LEMMA WordSets ==
  /\ NIL_VAL \in Words /\ ETYPE_CLOSURE \in Words /\ 0 \in Cells /\ Cells \subseteq Links
  /\ Words \subseteq Nat /\ Words \cup {0} \subseteq Words \cup Links /\ -1 \notin Words /\ -1 \in Links
  BY DEF Words, Links, Cells, MAKE_CONS, MAKE_EXTENDED,
    Tagged, TAG_CONS, TAG_EXTENDED, NIL_VAL, ETYPE_CLOSURE

-----------------------------------------------------------------------------
(* gc_mark_val is the function that its text says: there is one, and each call
   ends, because the marks grow. *)

Values == Words \cup Links

Follows(f, m, w) ==
  IF ~IsPointer(w) \/ PTR_IDX(w) \in m THEN m
  ELSE IF PTR_IDX(w) = -1 THEN m \cup {PTR_IDX(w)}
  ELSE f[f[m \cup {PTR_IDX(w)}][heap.car[PTR_IDX(w)]]][heap.cdr[PTR_IDX(w)]]

IsMarkVal(f) == f = [m \in SUBSET Links |-> [w \in Values |-> Follows(f, m, w)]]

Heaps == [car : [Cells -> Words \cup {0}], cdr : [Cells -> Words \cup Links],
          next : 0 .. HEAP_SIZE, free : Links]
HeapType == heap \in Heaps

\* What a cell holds can be followed.
LEMMA FieldsAreValues ==
  ASSUME HeapType, NEW i \in Cells
  PROVE  heap.car[i] \in Values /\ heap.cdr[i] \in Values /\ heap.car[i] # -1
  BY WordSets DEF HeapType, Heaps, Values

\* The cells that are not marked yet.
Left(m) == Cardinality(Links \ m)

LEMMA LeftShrinks ==
  ASSUME NEW m \in SUBSET Links, NEW r \in SUBSET Links, m \subseteq r
  PROVE  /\ Left(m) \in Nat /\ Left(r) \in Nat
         /\ m # r => Left(r) < Left(m)
  <1>1. IsFiniteSet(0 .. HEAP_SIZE - 1)
    BY FS_Interval
  <1>2. IsFiniteSet(Links)
    BY <1>1, FS_AddElement DEF Links, Cells
  <1>3. IsFiniteSet(Links \ m) /\ Links \ r \subseteq Links \ m
    BY <1>2, FS_Subset
  <1>4. /\ IsFiniteSet(Links \ r)
        /\ Cardinality(Links \ r) <= Cardinality(Links \ m)
        /\ Cardinality(Links \ r) = Cardinality(Links \ m) => Links \ r = Links \ m
    BY <1>3, FS_Subset
  <1>5. Left(m) \in Nat /\ Left(r) \in Nat
    BY <1>3, <1>4, FS_CardinalityType DEF Left
  <1>6. m # r => Links \ r # Links \ m
    OBVIOUS
  <1> QED
    BY <1>4, <1>5, <1>6 DEF Left

\* g does what gc_mark_val does where less than n cells are not marked.
Partial(n, g) ==
  /\ g \in [SUBSET Links -> [Values -> SUBSET Links]]
  /\ \A m \in SUBSET Links, w \in Values :
       Left(m) < n => g[m][w] = Follows(g, m, w) /\ m \subseteq g[m][w]

LEMMA CallType ==
  ASSUME NEW g \in [SUBSET Links -> [Values -> SUBSET Links]],
         NEW m \in SUBSET Links, NEW w \in Values
  PROVE  g[m][w] \in SUBSET Links
  <1>1. g[m] \in [Values -> SUBSET Links]
    OBVIOUS
  <1> QED
    BY <1>1

LEMMA FollowsType ==
  ASSUME HeapType, NEW g \in [SUBSET Links -> [Values -> SUBSET Links]],
         NEW m \in SUBSET Links, NEW w \in Values
  PROVE  Follows(g, m, w) \in SUBSET Links
  <1>1. CASE ~IsPointer(w) \/ PTR_IDX(w) \in m
    BY <1>1 DEF Follows
  <1>2. CASE IsPointer(w) /\ PTR_IDX(w) \notin m
    <2> DEFINE i == PTR_IDX(w)
    <2>1. i \in Links
      BY <1>2, WordIndex DEF Values
    <2>2. CASE i = -1
      BY <1>2, <2>1, <2>2 DEF Follows
    <2>3. CASE i # -1
      <3>1. i \in Cells /\ m \cup {i} \in SUBSET Links
        BY <2>1, <2>3 DEF Links
      <3>2. heap.car[i] \in Values /\ heap.cdr[i] \in Values
        BY <3>1, FieldsAreValues
      <3>3. g[m \cup {i}][heap.car[i]] \in SUBSET Links
        BY <3>1, <3>2, CallType
      <3>4. g[g[m \cup {i}][heap.car[i]]][heap.cdr[i]] \in SUBSET Links
        BY <3>2, <3>3, CallType
      <3> QED
        BY <1>2, <2>3, <3>4 DEF Follows
    <2> QED
      BY <2>2, <2>3
  <1> QED
    BY <1>1, <1>2

\* One cell more.
LEMMA PartialNext ==
  ASSUME HeapType, NEW n \in Nat, NEW g, Partial(n, g)
  PROVE  \E h : Partial(n + 1, h)
  <1> DEFINE h == [m \in SUBSET Links |-> [w \in Values |->
                     IF Left(m) < n THEN g[m][w] ELSE Follows(g, m, w)]]
  <1>1. h \in [SUBSET Links -> [Values -> SUBSET Links]]
    <2>1. ASSUME NEW m \in SUBSET Links, NEW w \in Values
          PROVE  (IF Left(m) < n THEN g[m][w] ELSE Follows(g, m, w)) \in SUBSET Links
      <3>1. Follows(g, m, w) \in SUBSET Links
        BY FollowsType DEF Partial
      <3>2. g[m][w] \in SUBSET Links
        BY DEF Partial
      <3> QED
        BY <3>1, <3>2
    <2> QED
      BY <2>1
  <1>2. ASSUME NEW m \in SUBSET Links, NEW w \in Values
        PROVE  h[m][w] = IF Left(m) < n THEN g[m][w] ELSE Follows(g, m, w)
    OBVIOUS
  <1> HIDE DEF h
  <1>3. ASSUME NEW m \in SUBSET Links, NEW w \in Values, Left(m) < n + 1
        PROVE  /\ Follows(h, m, w) = Follows(g, m, w)
               /\ m \subseteq Follows(g, m, w)
    <2>1. CASE ~IsPointer(w) \/ PTR_IDX(w) \in m
      BY <2>1 DEF Follows
    <2>2. CASE IsPointer(w) /\ PTR_IDX(w) \notin m
      <3> DEFINE i == PTR_IDX(w)
                 r == g[m \cup {i}][heap.car[i]]
      <3>1. i \in Links
        BY <2>2, WordIndex DEF Values
      <3>2. CASE i = -1
        BY <2>2, <3>2 DEF Follows
      <3>3. CASE i # -1
        <4>1. i \in Cells /\ m \cup {i} \in SUBSET Links
          BY <3>1, <3>3 DEF Links
        <4>2. heap.car[i] \in Values /\ heap.cdr[i] \in Values
          BY <4>1, FieldsAreValues
        <4>3. Left(m) \in Nat /\ Left(m \cup {i}) \in Nat /\ Left(m \cup {i}) < Left(m)
          BY <2>2, <4>1, LeftShrinks
        <4>4. Left(m \cup {i}) < n
          BY <1>3, <4>3
        <4>5. h[m \cup {i}][heap.car[i]] = r
          BY <1>2, <4>1, <4>2, <4>4
        <4>6. r \in SUBSET Links /\ m \cup {i} \subseteq r
          <5>1. r \in SUBSET Links
            BY <4>1, <4>2, CallType DEF Partial
          <5>2. m \cup {i} \subseteq g[m \cup {i}][heap.car[i]]
            BY <4>1, <4>2, <4>4 DEF Partial
          <5> QED
            BY <5>1, <5>2
        <4>7. Left(r) < n
          <5>1. Left(r) \in Nat /\ (m \cup {i} # r => Left(r) < Left(m \cup {i}))
            BY <4>1, <4>6, LeftShrinks
          <5> HIDE DEF r, i
          <5>2. CASE m \cup {i} = r
            BY <4>4, <5>2
          <5>3. CASE m \cup {i} # r
            BY <4>3, <4>4, <5>1, <5>3
          <5> QED
            BY <5>2, <5>3
        <4>8. h[r][heap.cdr[i]] = g[r][heap.cdr[i]] /\ r \subseteq g[r][heap.cdr[i]]
          BY <1>2, <4>2, <4>6, <4>7 DEF Partial
        <4>9. /\ Follows(g, m, w) = g[r][heap.cdr[i]]
              /\ Follows(h, m, w) = h[h[m \cup {i}][heap.car[i]]][heap.cdr[i]]
          BY <2>2, <3>3 DEF Follows
        <4> QED
          BY <4>5, <4>6, <4>8, <4>9
      <3> QED
        BY <3>2, <3>3
    <2> QED
      BY <2>1, <2>2
  <1>4. ASSUME NEW m \in SUBSET Links, NEW w \in Values, Left(m) < n + 1
        PROVE  h[m][w] = Follows(h, m, w) /\ m \subseteq h[m][w]
    <2>1. CASE Left(m) < n
      <3>1. g[m][w] = Follows(g, m, w)
        BY <2>1 DEF Partial
      <3> QED
        BY <1>2, <1>3, <1>4, <2>1, <3>1
    <2>2. CASE ~(Left(m) < n)
      BY <1>2, <1>3, <1>4, <2>2
    <2> QED
      BY <2>1, <2>2
  <1>5. Partial(n + 1, h)
    BY <1>1, <1>4 DEF Partial
  <1> QED
    BY <1>5

LEMMA PartialExists ==
  ASSUME HeapType, NEW n \in Nat
  PROVE  \E g : Partial(n, g)
  <1> DEFINE T == {k \in Nat : ~\E g : Partial(k, g)}
  <1>1. 0 \notin T
    <2> DEFINE g == [m \in SUBSET Links |-> [w \in Values |-> m]]
    <2>1. g \in [SUBSET Links -> [Values -> SUBSET Links]]
      OBVIOUS
    <2>2. \A m \in SUBSET Links : ~(Left(m) < 0)
      <3>1. ASSUME NEW m \in SUBSET Links PROVE Left(m) \in Nat
        BY LeftShrinks
      <3> QED
        BY <3>1
    <2>3. Partial(0, g)
      <3> HIDE DEF g
      <3> QED
        BY <2>1, <2>2 DEF Partial
    <2> QED
      BY <2>3
  <1>2. CASE T = {}
    BY <1>2
  <1>3. CASE T # {}
    <2>1. PICK x \in T : \A y \in T : x <= y
      <3> HIDE DEF T
      <3>1. T \in SUBSET Nat
        BY DEF T
      <3> QED
        BY <1>3, <3>1, LeastNat
    <2>2. x \in Nat /\ x # 0
      BY <1>1
    <2>3. x - 1 \in Nat /\ x - 1 \notin T
      BY <2>1, <2>2
    <2>4. PICK g : Partial(x - 1, g)
      BY <2>3
    <2>5. \E h : Partial(x - 1 + 1, h)
      BY <2>3, <2>4, PartialNext
    <2>6. x - 1 + 1 = x
      BY <2>2
    <2>7. \E h : Partial(x, h)
      BY <2>5, <2>6
    <2> QED
      BY <2>7
  <1> QED
    BY <1>2, <1>3

LEMMA MarkValExists == ASSUME HeapType PROVE IsMarkVal(gc_mark_val)
  <1>1. Left({}) \in Nat
    BY LeftShrinks
  <1>2. PICK g : Partial(Left({}) + 1, g)
    BY <1>1, PartialExists
  <1>3. ASSUME NEW m \in SUBSET Links PROVE Left(m) < Left({}) + 1
    <2>1. Left(m) \in Nat /\ ({} # m => Left(m) < Left({}))
      BY LeftShrinks
    <2> QED
      BY <1>1, <2>1
  <1>4. \A m \in SUBSET Links, w \in Values : g[m][w] = Follows(g, m, w)
    BY <1>2, <1>3 DEF Partial
  <1>5. g \in [SUBSET Links -> [Values -> SUBSET Links]]
    BY <1>2 DEF Partial
  <1>6. ASSUME NEW m \in SUBSET Links PROVE g[m] = [w \in Values |-> Follows(g, m, w)]
    BY <1>4, <1>5
  <1>7. IsMarkVal(g)
    BY <1>5, <1>6 DEF IsMarkVal
  <1>8. gc_mark_val = CHOOSE f : IsMarkVal(f)
    BY DEF gc_mark_val, IsMarkVal, Follows, Values
  <1> QED
    BY <1>7, <1>8, Zenon

-----------------------------------------------------------------------------
(* What a call of gc_mark_val adds to the marks *)

Held(w, set) == IsPointer(w) => PTR_IDX(w) \in set
HoldsItsOwn(set) == \A i \in set \ {-1} : Held(heap.car[i], set) /\ Held(heap.cdr[i], set)

\* The marks r, made of m by following w: w is marked, the fields of each new mark
\* are, and none is marked that need not be.
MarksOf(m, w, r) ==
  /\ r \in SUBSET Links /\ m \subseteq r /\ Held(w, r)
  /\ \A i \in r \ m : i # -1 => Held(heap.car[i], r) /\ Held(heap.cdr[i], r)
  /\ \A set \in SUBSET Links : m \subseteq set /\ Held(w, set) /\ HoldsItsOwn(set) => r \subseteq set

\* First the car is followed, then the cdr.
LEMMA MarksCompose ==
  ASSUME HeapType, NEW m \in SUBSET Links, NEW w \in Values, IsPointer(w),
         PTR_IDX(w) \in Cells, NEW q, NEW r,
         MarksOf(m \cup {PTR_IDX(w)}, heap.car[PTR_IDX(w)], q),
         MarksOf(q, heap.cdr[PTR_IDX(w)], r)
  PROVE  MarksOf(m, w, r)
  <1> DEFINE i == PTR_IDX(w)
  <1>1. r \in SUBSET Links /\ m \subseteq r /\ q \subseteq r /\ i \in r
    BY DEF MarksOf
  <1>2. Held(w, r)
    BY <1>1 DEF Held
  <1>3. Held(heap.car[i], r) /\ Held(heap.cdr[i], r)
    BY <1>1 DEF MarksOf, Held
  <1>4. ASSUME NEW j \in r \ m, j # -1
        PROVE  Held(heap.car[j], r) /\ Held(heap.cdr[j], r)
    <2>1. CASE j \in r \ q
      BY <1>4, <2>1 DEF MarksOf
    <2>2. CASE j \in q \ (m \cup {i})
      BY <1>1, <1>4, <2>2 DEF MarksOf, Held
    <2>3. CASE j = i
      BY <1>3, <2>3
    <2> QED
      BY <1>4, <2>1, <2>2, <2>3
  <1>5. ASSUME NEW set \in SUBSET Links, m \subseteq set, Held(w, set), HoldsItsOwn(set)
        PROVE  r \subseteq set
    <2>1. i \in set /\ i # -1
      BY <1>5 DEF Held, Cells
    <2>2. Held(heap.car[i], set) /\ Held(heap.cdr[i], set)
      BY <1>5, <2>1 DEF HoldsItsOwn
    <2>3. q \subseteq set
      BY <1>5, <2>1, <2>2 DEF MarksOf
    <2> QED
      BY <1>5, <2>2, <2>3 DEF MarksOf
  <1> QED
    BY <1>1, <1>2, <1>4, <1>5 DEF MarksOf

LEMMA MarkStep ==
  ASSUME HeapType, NEW f, IsMarkVal(f), NEW m \in SUBSET Links, NEW w \in Values,
         \A k \in SUBSET Links, v \in Values : Left(k) < Left(m) => MarksOf(k, v, f[k][v])
  PROVE  MarksOf(m, w, f[m][w])
  <1> DEFINE i == PTR_IDX(w)
  <1>1. f[m][w] = Follows(f, m, w)
    BY DEF IsMarkVal
  <1>2. CASE ~IsPointer(w) \/ i \in m
    <2>1. f[m][w] = m
      BY <1>1, <1>2 DEF Follows
    <2> QED
      BY <1>2, <2>1 DEF MarksOf, Held
  <1>3. CASE IsPointer(w) /\ i \notin m
    <2>1. i \in Links
      BY <1>3, WordIndex DEF Values
    <2>2. CASE i = -1
      <3>1. f[m][w] = m \cup {i}
        BY <1>1, <1>3, <2>2 DEF Follows
      <3> QED
        BY <1>3, <2>1, <2>2, <3>1 DEF MarksOf, Held
    <2>3. CASE i # -1
      <3>1. i \in Cells /\ m \cup {i} \in SUBSET Links
        BY <2>1, <2>3 DEF Links
      <3>2. heap.car[i] \in Values /\ heap.cdr[i] \in Values
        BY <3>1, FieldsAreValues
      <3>3. Left(m) \in Nat /\ Left(m \cup {i}) \in Nat /\ Left(m \cup {i}) < Left(m)
        BY <1>3, <3>1, LeftShrinks
      <3> DEFINE q == f[m \cup {i}][heap.car[i]]
      <3>4. MarksOf(m \cup {i}, heap.car[i], q)
        BY <3>1, <3>2, <3>3
      <3>5. q \in SUBSET Links /\ m \cup {i} \subseteq q
        BY <3>4 DEF MarksOf
      <3>6. Left(q) < Left(m)
        <4>1. Left(q) \in Nat /\ (m \cup {i} # q => Left(q) < Left(m \cup {i}))
          BY <3>1, <3>5, LeftShrinks
        <4> HIDE DEF q, i
        <4>2. CASE m \cup {i} = q
          BY <3>3, <4>2
        <4>3. CASE m \cup {i} # q
          BY <3>3, <4>1, <4>3
        <4> QED
          BY <4>2, <4>3
      <3>7. MarksOf(q, heap.cdr[i], f[q][heap.cdr[i]])
        BY <3>2, <3>5, <3>6
      <3>8. f[m][w] = f[q][heap.cdr[i]]
        BY <1>1, <1>3, <2>3 DEF Follows
      <3> HIDE DEF q
      <3> QED
        BY <1>3, <3>1, <3>4, <3>7, <3>8, MarksCompose
    <2> QED
      BY <2>2, <2>3
  <1> QED
    BY <1>2, <1>3

LEMMA MarkValMarks ==
  ASSUME HeapType, NEW m \in SUBSET Links, NEW w \in Values
  PROVE  MarksOf(m, w, gc_mark_val[m][w])
  <1> DEFINE Wrong(n) == \E k \in SUBSET Links, v \in Values :
                            Left(k) = n /\ ~MarksOf(k, v, gc_mark_val[k][v])
             T == {n \in Nat : Wrong(n)}
  <1>1. \A k \in SUBSET Links : Left(k) \in Nat
    BY LeftShrinks
  <1>2. CASE T = {}
    <2>1. ~Wrong(Left(m))
      BY <1>1, <1>2
    <2> QED
      BY <2>1
  <1>3. CASE T # {}
    <2>1. PICK x \in T : \A y \in T : x <= y
      <3> HIDE DEF T
      <3>1. T \in SUBSET Nat
        BY DEF T
      <3> QED
        BY <1>3, <3>1, LeastNat
    <2>2. PICK k \in SUBSET Links, v \in Values :
            Left(k) = x /\ ~MarksOf(k, v, gc_mark_val[k][v])
      OBVIOUS
    <2>3. ASSUME NEW j \in SUBSET Links, NEW u \in Values, Left(j) < Left(k)
          PROVE  MarksOf(j, u, gc_mark_val[j][u])
      <3>1. Left(j) \in Nat /\ Left(k) \in Nat /\ Left(j) \notin T
        <4>1. Left(j) \in Nat /\ Left(k) \in Nat
          BY <1>1
        <4>2. ASSUME Left(j) \in T PROVE FALSE
          <5>1. x <= Left(j)
            BY <2>1, <4>2
          <5> HIDE DEF T
          <5> QED
            BY <2>2, <2>3, <4>1, <5>1
        <4> QED
          BY <4>1, <4>2
      <3>2. ~Wrong(Left(j))
        BY <3>1
      <3> QED
        BY <3>2
    <2>4. IsMarkVal(gc_mark_val)
      BY MarkValExists
    <2>5. MarksOf(k, v, gc_mark_val[k][v])
      BY <2>3, <2>4, MarkStep
    <2> QED
      BY <2>2, <2>5
  <1> QED
    BY <1>2, <1>3

-----------------------------------------------------------------------------
(* What a collection marks *)

\* The roots are words; among them are all registers and what the scan accepts.
LEMMA RootsAre ==
  ASSUME TypeOK
  PROVE  /\ RootWords \in Seq(Words) /\ ToSet(RootWords) \subseteq Words
         /\ global_env \in ToSet(RootWords) /\ ToSet(gc_roots) \subseteq ToSet(RootWords)
         /\ \A k \in 0 .. sp - 1 : Plausible(stack[k]) => stack[k] \in ToSet(RootWords)
  <1>1. sp \in Nat /\ sp <= StackSize /\ gc_roots \in Seq(Words) /\ global_env \in Words
    BY DEF TypeOK
  <1>2. ASSUME NEW k \in 1 .. sp
        PROVE  sp - k \in 0 .. StackSize - 1 /\ stack[sp - k] \in Words
    <2>1. sp - k \in 0 .. StackSize - 1
      BY <1>1
    <2> QED
      BY <2>1 DEF TypeOK
  <1>3. Scanned \in [1 .. sp -> Words]
    BY <1>2, WordSets DEF Scanned
  <1>4. Scanned \in Seq(Words) /\ Len(Scanned) = sp
    BY <1>1, <1>3
  <1> DEFINE front == <<global_env>> \o gc_roots
  <1>5. <<global_env>> \in Seq(Words) /\ Len(<<global_env>>) = 1 /\ <<global_env>>[1] = global_env
    BY <1>1
  <1>6. /\ front \in Seq(Words) /\ Len(front) = Len(gc_roots) + 1
        /\ front[1] = global_env
        /\ \A k \in 1 .. Len(gc_roots) : front[k + 1] = gc_roots[k]
    <2>1. \A k \in 1 .. 1 + Len(gc_roots) :
            front[k] = IF k <= 1 THEN <<global_env>>[k] ELSE gc_roots[k - 1]
      BY <1>1, <1>5
    <2>2. Len(front) = Len(gc_roots) + 1 /\ Len(gc_roots) \in Nat /\ front \in Seq(Words)
      BY <1>1, <1>5
    <2> HIDE DEF front
    <2> QED
      BY <1>5, <2>1, <2>2
  <1>7. RootWords = front \o Scanned
    BY DEF RootWords
  <1> HIDE DEF front
  <1>8. /\ RootWords \in Seq(Words) /\ Len(RootWords) = Len(front) + sp
        /\ \A k \in 1 .. Len(front) : RootWords[k] = front[k]
        /\ \A k \in 1 .. sp : RootWords[Len(front) + k] = Scanned[k]
    BY <1>1, <1>4, <1>6, <1>7
  <1>9. Len(front) \in Nat /\ Len(RootWords) \in Nat /\ DOMAIN RootWords = 1 .. Len(RootWords)
    BY <1>6, <1>8
  <1>10. \A k \in 1 .. Len(RootWords) : RootWords[k] \in ToSet(RootWords)
    BY <1>9 DEF ToSet
  <1>11. ToSet(RootWords) \subseteq Words
    BY <1>8 DEF ToSet
  <1>12. global_env \in ToSet(RootWords)
    BY <1>1, <1>6, <1>8, <1>9, <1>10
  <1>13. ASSUME NEW k \in 1 .. Len(gc_roots) PROVE gc_roots[k] \in ToSet(RootWords)
    <2>1. k + 1 \in 1 .. Len(front) /\ k + 1 \in 1 .. Len(RootWords)
      BY <1>1, <1>6, <1>8, <1>9
    <2> QED
      BY <1>6, <1>8, <1>10, <2>1
  <1>14. ASSUME NEW k \in 0 .. sp - 1, Plausible(stack[k]) PROVE stack[k] \in ToSet(RootWords)
    <2>1. sp - k \in 1 .. sp /\ sp - (sp - k) = k
      BY <1>1
    <2>2. Scanned[sp - k] = stack[k]
      BY <1>14, <2>1 DEF Scanned
    <2>3. Len(front) + (sp - k) \in 1 .. Len(RootWords)
      BY <1>1, <1>8, <1>9, <2>1
    <2> QED
      BY <1>8, <1>10, <2>1, <2>2, <2>3
  <1>15. ToSet(gc_roots) \subseteq ToSet(RootWords)
    BY <1>1, <1>13 DEF ToSet
  <1> QED
    BY <1>8, <1>11, <1>12, <1>14, <1>15

\* The marks after the first n roots are a function of n.
IsMarkedBy(n, f) ==
  f = [k \in 0 .. n |-> IF k = 0 THEN {} ELSE gc_mark_val[f[k - 1]][RootWords[k]]]

LEMMA MarkedByNext ==
  ASSUME NEW n \in Nat, NEW f, IsMarkedBy(n, f)
  PROVE  \E g : IsMarkedBy(n + 1, g)
  <1> DEFINE g == [k \in 0 .. n + 1 |-> IF k = n + 1 THEN gc_mark_val[f[n]][RootWords[k]] ELSE f[k]]
  <1>1. ASSUME NEW k \in 0 .. n + 1
        PROVE  g[k] = IF k = 0 THEN {} ELSE gc_mark_val[g[k - 1]][RootWords[k]]
    <2>1. CASE k = n + 1
      <3>1. k # 0 /\ k - 1 = n /\ n \in 0 .. n + 1 /\ n # n + 1
        BY <2>1
      <3>2. g[k - 1] = f[n]
        BY <3>1
      <3>3. g[k] = gc_mark_val[f[n]][RootWords[k]]
        BY <2>1
      <3> HIDE DEF g
      <3> QED
        BY <3>1, <3>2, <3>3
    <2>2. CASE k # n + 1 /\ k # 0
      <3>1. k \in 0 .. n /\ k - 1 \in 0 .. n + 1 /\ k - 1 # n + 1
        BY <2>2
      <3>2. g[k] = f[k] /\ g[k - 1] = f[k - 1]
        BY <2>2, <3>1
      <3>3. f[k] = gc_mark_val[f[k - 1]][RootWords[k]]
        BY <2>2, <3>1 DEF IsMarkedBy
      <3> HIDE DEF g
      <3> QED
        BY <2>2, <3>2, <3>3
    <2>3. CASE k = 0
      <3>1. 0 \in 0 .. n /\ 0 # n + 1
        OBVIOUS
      <3>2. f[0] = {}
        BY <3>1 DEF IsMarkedBy
      <3>3. g[0] = f[0]
        BY <3>1
      <3> HIDE DEF g
      <3> QED
        BY <2>3, <3>2, <3>3
    <2> QED
      BY <2>1, <2>2, <2>3
  <1>2. g = [k \in 0 .. n + 1 |-> g[k]]
    OBVIOUS
  <1> HIDE DEF g
  <1>3. IsMarkedBy(n + 1, g)
    BY <1>1, <1>2 DEF IsMarkedBy
  <1> QED
    BY <1>3

LEMMA MarkedByExists ==
  ASSUME Len(RootWords) \in Nat
  PROVE  IsMarkedBy(Len(RootWords), MarkedBy)
  <1> DEFINE T == {n \in Nat : ~\E f : IsMarkedBy(n, f)}
  <1>1. 0 \notin T
    <2> DEFINE f == [k \in 0 .. 0 |-> {}]
    <2>1. IsMarkedBy(0, f)
      BY DEF IsMarkedBy
    <2> QED
      BY <2>1
  <1>2. T = {}
    <2> SUFFICES ASSUME T # {} PROVE FALSE
      OBVIOUS
    <2>1. PICK x \in T : \A y \in T : x <= y
      <3> HIDE DEF T
      <3>1. T \in SUBSET Nat
        BY DEF T
      <3> QED
        BY <3>1, LeastNat
    <2>2. x \in Nat /\ x # 0
      BY <1>1
    <2>3. x - 1 \in Nat /\ x - 1 \notin T
      BY <2>1, <2>2
    <2>4. PICK f : IsMarkedBy(x - 1, f)
      BY <2>3
    <2>5. \E g : IsMarkedBy(x - 1 + 1, g)
      BY <2>3, <2>4, MarkedByNext
    <2>6. x - 1 + 1 = x
      BY <2>2
    <2>7. \E g : IsMarkedBy(x, g)
      BY <2>5, <2>6
    <2> QED
      BY <2>7
  <1>3. \E f : IsMarkedBy(Len(RootWords), f)
    BY <1>2
  <1>4. MarkedBy = CHOOSE f : IsMarkedBy(Len(RootWords), f)
    BY DEF MarkedBy, IsMarkedBy
  <1> QED
    BY <1>3, <1>4, Zenon

\* A collection marks what the roots reach, and nothing else.
MarksOfRoots(n, r) ==
  /\ r \in SUBSET Links /\ \A k \in 1 .. n : Held(RootWords[k], r)
  /\ HoldsItsOwn(r)
  /\ \A set \in SUBSET Links :
       (\A k \in 1 .. n : Held(RootWords[k], set)) /\ HoldsItsOwn(set) => r \subseteq set

LEMMA RootMarked ==
  ASSUME TypeOK, NEW n \in Nat, n + 1 <= Len(RootWords), NEW q, MarksOfRoots(n, q)
  PROVE  MarksOfRoots(n + 1, gc_mark_val[q][RootWords[n + 1]])
  <1> DEFINE w == RootWords[n + 1]
             r == gc_mark_val[q][w]
  <1>1. HeapType /\ q \in SUBSET Links
    BY DEF TypeOK, HeapType, Heaps, MarksOfRoots
  <1>2. w \in Values
    BY RootsAre DEF Values
  <1>3. MarksOf(q, w, r)
    BY <1>1, <1>2, MarkValMarks
  <1> HIDE DEF w, r
  <1>4. \A k \in 1 .. n + 1 : k \in 1 .. n \/ k = n + 1
    OBVIOUS
  <1>5. r \in SUBSET Links /\ \A k \in 1 .. n + 1 : Held(RootWords[k], r)
    BY <1>3, <1>4 DEF MarksOf, MarksOfRoots, Held, w
  <1>6. HoldsItsOwn(r)
    BY <1>3 DEF MarksOf, MarksOfRoots, HoldsItsOwn, Held
  <1>7. ASSUME NEW set \in SUBSET Links, \A k \in 1 .. n + 1 : Held(RootWords[k], set),
               HoldsItsOwn(set)
        PROVE  r \subseteq set
    <2>1. Held(w, set) /\ \A k \in 1 .. n : Held(RootWords[k], set)
      BY <1>7 DEF w
    <2>2. q \subseteq set
      BY <1>7, <2>1 DEF MarksOfRoots
    <2> QED
      BY <1>3, <1>7, <2>1, <2>2 DEF MarksOf
  <1>8. MarksOfRoots(n + 1, r)
    BY <1>5, <1>6, <1>7 DEF MarksOfRoots
  <1> QED
    BY <1>8 DEF r, w

LEMMA MarkedAre ==
  ASSUME TypeOK
  PROVE  MarksOfRoots(Len(RootWords), Marked)
  <1>1. Len(RootWords) \in Nat
    BY RootsAre
  <1>2. \A k \in 0 .. Len(RootWords) :
          MarkedBy[k] = IF k = 0 THEN {} ELSE gc_mark_val[MarkedBy[k - 1]][RootWords[k]]
    BY <1>1, MarkedByExists DEF IsMarkedBy
  <1> DEFINE T == {k \in 0 .. Len(RootWords) : ~MarksOfRoots(k, MarkedBy[k])}
  <1>3. 0 \notin T
    <2>1. MarkedBy[0] = {}
      BY <1>1, <1>2
    <2>2. MarksOfRoots(0, {})
      BY DEF MarksOfRoots, HoldsItsOwn
    <2> QED
      BY <2>1, <2>2
  <1>4. T = {}
    <2> SUFFICES ASSUME T # {} PROVE FALSE
      OBVIOUS
    <2>1. PICK x \in T : \A y \in T : x <= y
      <3> HIDE DEF T
      <3>1. T \in SUBSET Nat
        BY <1>1 DEF T
      <3> QED
        BY <3>1, LeastNat
    <2>2. x \in Nat /\ x # 0 /\ x <= Len(RootWords)
      BY <1>1, <1>3
    <2>3. x - 1 \in 0 .. Len(RootWords) /\ x - 1 \in Nat /\ x - 1 + 1 = x
      BY <1>1, <2>2
    <2>4. x - 1 \notin T
      BY <2>1, <2>2
    <2>5. MarksOfRoots(x - 1, MarkedBy[x - 1])
      BY <2>3, <2>4
    <2>6. MarksOfRoots(x - 1 + 1, gc_mark_val[MarkedBy[x - 1]][RootWords[x - 1 + 1]])
      BY <2>2, <2>3, <2>5, RootMarked
    <2>7. MarkedBy[x] = gc_mark_val[MarkedBy[x - 1]][RootWords[x]]
      BY <1>2, <2>2
    <2>8. MarksOfRoots(x, MarkedBy[x])
      BY <2>3, <2>6, <2>7
    <2> QED
      BY <2>8
  <1>5. MarksOfRoots(Len(RootWords), MarkedBy[Len(RootWords)])
    BY <1>1, <1>4
  <1> QED
    BY <1>5 DEF Marked

-----------------------------------------------------------------------------
(* What words reach *)

LEMMA ReachableLeast ==
  ASSUME NEW h, NEW ws, NEW set \in SUBSET Cells,
         \A w \in ws : Within(w, set), IsClosed(h, set)
  PROVE  Reachable(h, ws) \subseteq set
  BY DEF Reachable

LEMMA ReachableCloses ==
  ASSUME NEW h \in Heaps, NEW ws \in SUBSET Values
  PROVE  /\ Reachable(h, ws) \in SUBSET Cells
         /\ \A w \in ws : Within(w, Reachable(h, ws))
         /\ IsClosed(h, Reachable(h, ws))
  <1> DEFINE r == Reachable(h, ws)
             around == {set \in SUBSET Cells : (\A w \in ws : Within(w, set)) /\ IsClosed(h, set)}
  <1>1. r = {i \in Cells : \A set \in around : i \in set}
    BY DEF Reachable
  <1>2. ASSUME NEW w \in Values, \A set \in around : Within(w, set)
        PROVE  Within(w, r)
    <2>1. CASE ~IsPointer(w)
      BY <2>1 DEF Within
    <2>2. CASE IsPointer(w) /\ PTR_IDX(w) = -1
      BY <2>2 DEF Within
    <2>3. CASE IsPointer(w) /\ PTR_IDX(w) # -1
      <3>1. PTR_IDX(w) \in Cells
        BY <2>3, WordIndex DEF Values, Links
      <3>2. \A set \in around : PTR_IDX(w) \in set
        BY <1>2, <2>3 DEF Within
      <3> HIDE DEF around, r
      <3> QED
        BY <1>1, <3>1, <3>2 DEF Within
    <2> QED
      BY <2>1, <2>2, <2>3
  <1>3. ASSUME NEW i \in r PROVE Within(h.car[i], r) /\ Within(h.cdr[i], r)
    <2>1. i \in Cells /\ \A set \in around : i \in set
      BY <1>1
    <2>2. h.car[i] \in Values /\ h.cdr[i] \in Values
      BY <2>1, WordSets DEF Heaps, Values
    <2>3. \A set \in around : Within(h.car[i], set) /\ Within(h.cdr[i], set)
      BY <2>1 DEF IsClosed
    <2> QED
      BY <1>2, <2>2, <2>3
  <1>4. \A w \in ws : Within(w, r)
    BY <1>2
  <1> QED
    BY <1>1, <1>3, <1>4 DEF IsClosed

\* gc.h: the recursion of gc_mark_val and the loops over the roots mark what can be
\* reached, all of it and only that.
LEMMA MarkedIsReachable ==
  ASSUME TypeOK
  PROVE  Marked \in SUBSET Links /\ Marked \cap Cells = Reachable(heap, ToSet(RootWords))
  <1> DEFINE m == Marked
             r == Reachable(heap, ToSet(RootWords))
  <1>1. MarksOfRoots(Len(RootWords), m)
    BY MarkedAre
  <1>2. heap \in Heaps /\ ToSet(RootWords) \in SUBSET Values
    BY RootsAre DEF TypeOK, Heaps, Values
  <1>3. \A k \in 1 .. Len(RootWords) : RootWords[k] \in ToSet(RootWords)
    BY RootsAre DEF ToSet
  <1>4. \A w \in ToSet(RootWords) : \E k \in 1 .. Len(RootWords) : w = RootWords[k]
    BY RootsAre DEF ToSet
  <1>5. \A i \in Cells : i # -1
    BY DEF Cells
  <1>6. m \in SUBSET Links
    BY <1>1 DEF MarksOfRoots
  <1>7. r \subseteq m \cap Cells
    <2>1. \A w \in ToSet(RootWords) : Within(w, m \cap Cells)
      <3>1. ASSUME NEW w \in ToSet(RootWords) PROVE Within(w, m \cap Cells)
        <4>1. Held(w, m)
          BY <1>1, <1>4 DEF MarksOfRoots
        <4> QED
          BY <1>6, <4>1 DEF Held, Within, Links
      <3> QED
        BY <3>1
    <2>2. IsClosed(heap, m \cap Cells)
      <3>1. ASSUME NEW i \in m \cap Cells
            PROVE  Held(heap.car[i], m) /\ Held(heap.cdr[i], m)
        BY <1>1, <1>5 DEF MarksOfRoots, HoldsItsOwn
      <3> QED
        BY <1>6, <3>1 DEF Held, Within, IsClosed, Links
    <2> QED
      BY <2>1, <2>2, ReachableLeast
  <1>8. m \subseteq r \cup {-1}
    <2>1. /\ r \in SUBSET Cells /\ \A w \in ToSet(RootWords) : Within(w, r)
          /\ IsClosed(heap, r)
      BY <1>2, ReachableCloses
    <2>2. r \cup {-1} \in SUBSET Links
      BY <2>1 DEF Links
    <2>3. \A k \in 1 .. Len(RootWords) : Held(RootWords[k], r \cup {-1})
      BY <1>3, <2>1 DEF Held, Within
    <2>4. HoldsItsOwn(r \cup {-1})
      BY <2>1 DEF HoldsItsOwn, IsClosed, Held, Within
    <2> QED
      BY <1>1, <2>2, <2>3, <2>4 DEF MarksOfRoots
  <1>9. r \subseteq Cells
    BY DEF Reachable
  <1> QED
    BY <1>5, <1>6, <1>7, <1>8, <1>9

-----------------------------------------------------------------------------
(* The free list *)

UsedCells(h) == (0 .. h.next - 1) \ FreeCells(h)

\* It ascends, so no cell is on it twice and it ends; a cell in use holds no -1,
\* the link by which a mark would leave the heap.
FreeListOK(h) ==
  /\ FreeCells(h) \subseteq 0 .. h.next - 1 /\ h.free \in FreeCells(h) \cup {-1}
  /\ \A i \in FreeCells(h) :
       h.cdr[i] = -1 \/ (h.cdr[i] \in FreeCells(h) /\ h.cdr[i] > i)
  /\ \A i \in UsedCells(h) : h.cdr[i] # -1

LEMMA FreeLeast ==
  ASSUME NEW h, NEW set \in SUBSET Cells, h.free \in set \cup {-1},
         \A i \in set : h.cdr[i] \in set \cup {-1}
  PROVE  FreeCells(h) \subseteq set
  BY DEF FreeCells

\* To show that cells are free: they are in every set the list stays in.
LEMMA FreeMost ==
  ASSUME NEW h, NEW set \in SUBSET Cells,
         \A other \in SUBSET Cells :
           /\ h.free \in other \cup {-1}
           /\ \A i \in other : h.cdr[i] \in other \cup {-1}
           => set \subseteq other
  PROVE  set \subseteq FreeCells(h)
  BY DEF FreeCells

\* Where two heaps have the same list, they have the same free cells.
LEMMA FreeSame ==
  ASSUME NEW h \in Heaps, NEW g \in Heaps, FreeListOK(h), g.free = h.free,
         \A i \in FreeCells(h) : g.cdr[i] = h.cdr[i]
  PROVE  FreeCells(g) = FreeCells(h)
  <1> DEFINE f == FreeCells(h)
  <1>1. f \in SUBSET Cells
    BY DEF FreeCells
  <1>2. FreeCells(g) \subseteq f
    <2>1. \A i \in f : g.cdr[i] \in f \cup {-1}
      BY DEF FreeListOK
    <2> QED
      BY <1>1, <2>1, FreeLeast DEF FreeListOK
  <1>3. ASSUME NEW other \in SUBSET Cells, g.free \in other \cup {-1},
               \A i \in other : g.cdr[i] \in other \cup {-1}
        PROVE  f \subseteq other
    <2>1. h.free \in (other \cap f) \cup {-1}
      BY <1>3 DEF FreeListOK
    <2>2. \A i \in other \cap f : h.cdr[i] \in (other \cap f) \cup {-1}
      BY <1>3 DEF FreeListOK
    <2>3. f \subseteq other \cap f
      BY <2>1, <2>2, FreeLeast
    <2> QED
      BY <2>3
  <1>4. f \subseteq FreeCells(g)
    BY <1>1, <1>3, FreeMost
  <1> QED
    BY <1>2, <1>4

\* gc_sweep: the free list is what was not marked.
LEMMA SweptIsFree ==
  ASSUME TypeOK, -1 \notin Marked
  PROVE  FreeCells(gc_collect) = Unmarked
  <1> DEFINE g == gc_collect
             u == Unmarked
  <1>1. heap \in Heaps /\ heap.next \in 0 .. HEAP_SIZE
    BY DEF TypeOK, Heaps
  <1>2. u \in SUBSET Cells /\ u \in SUBSET Nat
    BY <1>1 DEF Unmarked, Cells
  <1>3. g.free = Lowest(u)
    BY <1>1 DEF gc_collect, Heaps
  <1>4. \A i \in u : g.cdr[i] = Lowest({j \in u : j > i})
    BY <1>1, <1>2 DEF gc_collect, Heaps
  <1> HIDE DEF u, g
  <1>5. ASSUME NEW i \in u
        PROVE  /\ {j \in u : j > i} \in SUBSET Cells
               /\ {j \in u : j > i} = {} => g.cdr[i] = -1
               /\ {j \in u : j > i} # {} =>
                    /\ g.cdr[i] \in {j \in u : j > i}
                    /\ \A j \in {k \in u : k > i} : g.cdr[i] <= j
    <2> DEFINE s == {j \in u : j > i}
    <2>1. s \in SUBSET Cells
      BY <1>2
    <2>2. g.cdr[i] = Lowest(s)
      BY <1>4
    <2> HIDE DEF s
    <2>3. /\ s = {} => g.cdr[i] = -1
          /\ s # {} => g.cdr[i] \in s /\ \A j \in s : g.cdr[i] <= j
      BY <2>1, <2>2, LowestIs
    <2> QED
      BY <2>1, <2>3 DEF s
  <1>6. FreeCells(g) \subseteq u
    <2>1. g.free \in u \cup {-1}
      BY <1>2, <1>3, LowestIs
    <2>2. \A i \in u : g.cdr[i] \in u \cup {-1}
      BY <1>5
    <2> QED
      BY <1>2, <2>1, <2>2, FreeLeast
  <1>7. ASSUME NEW other \in SUBSET Cells, g.free \in other \cup {-1},
               \A i \in other : g.cdr[i] \in other \cup {-1}
        PROVE  u \subseteq other
    <2> SUFFICES ASSUME u \ other # {} PROVE FALSE
      OBVIOUS
    <2>1. u \ other \in SUBSET Nat
      BY <1>2
    <2>2. PICK x \in u \ other : \A y \in u \ other : x <= y
      BY <2>1, LeastNat
    <2>3. Lowest(u) \in u /\ \A j \in u : Lowest(u) <= j
      BY <1>2, LowestIs
    <2>4. -1 \notin u
      BY <1>2
    <2>5. Lowest(u) \in other /\ Lowest(u) # x
      BY <1>3, <1>7, <2>2, <2>3, <2>4
    <2> DEFINE below == {j \in u : j < x}
    <2>6. below # {} /\ below \in SUBSET (0 .. HEAP_SIZE) /\ HEAP_SIZE \in Nat
      <3> DEFINE low == Lowest(u)
      <3>1. low \in u /\ low \in Nat /\ x \in Nat /\ low <= x /\ low # x
        <4>1. low \in u /\ low <= x /\ low # x
          BY <2>2, <2>3, <2>5
        <4> HIDE DEF low
        <4> QED
          BY <1>2, <2>2, <4>1
      <3> HIDE DEF low
      <3>2. low \in below
        BY <3>1
      <3>3. \A j \in u : j \in 0 .. HEAP_SIZE
        BY <1>2 DEF Cells
      <3> QED
        BY <3>2, <3>3
    <2>7. PICK p \in below : \A y \in below : y <= p
      <3> HIDE DEF below
      <3> QED
        BY <2>6, GreatestNat
    <2>8. p \in u /\ p < x /\ p \in Nat /\ x \in Nat
      BY <1>2
    <2>9. p \in other
      <3>1. ASSUME p \notin other PROVE FALSE
        <4>1. x <= p
          BY <2>2, <2>8, <3>1
        <4> QED
          BY <2>8, <4>1
      <3> QED
        BY <3>1
    <2>10. x \in {j \in u : j > p}
      BY <2>2, <2>8
    <2>11. g.cdr[p] \in u /\ g.cdr[p] > p /\ g.cdr[p] <= x
      BY <1>5, <2>8, <2>10
    <2>12. g.cdr[p] = x
      <3> DEFINE c == g.cdr[p]
      <3>1. c \in u /\ c > p /\ c <= x
        BY <2>11
      <3> HIDE DEF c
      <3>2. c \in Nat
        BY <1>2, <3>1
      <3>3. ~(c < x)
        <4> SUFFICES ASSUME c < x PROVE FALSE
          OBVIOUS
        <4>1. c \in below
          BY <3>1
        <4>2. c <= p
          BY <2>7, <4>1
        <4> HIDE DEF below
        <4> QED
          BY <2>8, <3>1, <3>2, <4>2
      <3>4. c = x
        <4> HIDE DEF below
        <4> QED
          BY <2>8, <3>1, <3>2, <3>3
      <3> QED
        BY <3>4 DEF c
    <2>13. x \in other
      BY <1>2, <1>7, <2>4, <2>8, <2>9, <2>12
    <2> QED
      BY <2>2, <2>13
  <1>8. u \subseteq FreeCells(g)
    BY <1>2, <1>7, FreeMost
  <1> QED
    BY <1>6, <1>8 DEF u, g

LEMMA CollectHeap ==
  ASSUME TypeOK, FreeListOK(heap), -1 \notin Marked
  PROVE  /\ gc_collect \in Heaps /\ gc_collect.next = heap.next
         /\ FreeListOK(gc_collect)
         /\ \A i \in Marked : gc_collect.car[i] = heap.car[i] /\ gc_collect.cdr[i] = heap.cdr[i]
         /\ gc_collect.free = -1 <=> Unmarked = {}
  <1> DEFINE g == gc_collect
             u == Unmarked
  <1>1. heap \in Heaps /\ heap.next \in 0 .. HEAP_SIZE
    BY DEF TypeOK, Heaps
  <1>2. u \in SUBSET Cells /\ u \in SUBSET Nat /\ -1 \notin u
    BY <1>1 DEF Unmarked, Cells
  <1>3. Marked \in SUBSET Cells
    BY MarkedIsReachable DEF Links
  <1>4. \A i \in Cells : Lowest({j \in u : j > i}) \in Links
    <2>1. \A i \in Cells : {j \in u : j > i} \in SUBSET Cells
      BY <1>2
    <2> QED
      BY <2>1, LowestIs
  <1>5. g.free = Lowest(u) /\ Lowest(u) \in Links
    BY <1>1, <1>2, LowestIs DEF gc_collect, Heaps
  <1>6. /\ g.car = [i \in Cells |-> IF i \in u THEN NIL_VAL ELSE heap.car[i]]
        /\ g.cdr = [i \in Cells |-> IF i \in u THEN Lowest({j \in u : j > i}) ELSE heap.cdr[i]]
        /\ g.next = heap.next
    BY <1>1 DEF gc_collect, Heaps
  <1>7. g \in Heaps
    <2>1. g.car \in [Cells -> Words \cup {0}]
      <3> HIDE DEF u, g
      <3> QED
        BY <1>1, <1>6, WordSets DEF Heaps
    <2>2. g.cdr \in [Cells -> Words \cup Links]
      <3> HIDE DEF u, g
      <3> QED
        BY <1>1, <1>4, <1>6 DEF Heaps
    <2>3. g = [car |-> g.car, cdr |-> g.cdr, next |-> g.next, free |-> g.free]
      <3> DEFINE a == [i \in Cells |-> IF i \in u THEN NIL_VAL ELSE heap.car[i]]
                 d == [i \in Cells |-> IF i \in u THEN Lowest({j \in u : j > i}) ELSE heap.cdr[i]]
                 f == Lowest(u)
      <3>1. g = [heap EXCEPT !.car = a, !.cdr = d, !.free = f]
        BY <1>1 DEF gc_collect, Heaps
      <3> HIDE DEF a, d, f, g
      <3> QED
        BY <1>1, <3>1 DEF Heaps
    <2> HIDE DEF g, u
    <2> QED
      BY <1>1, <1>5, <1>6, <2>1, <2>2, <2>3 DEF Heaps
  <1>8. FreeCells(g) = u
    BY SweptIsFree
  <1>9. \A i \in u : g.cdr[i] = -1 \/ (g.cdr[i] \in u /\ g.cdr[i] > i)
    <2>1. ASSUME NEW i \in u PROVE g.cdr[i] = -1 \/ (g.cdr[i] \in u /\ g.cdr[i] > i)
      <3>1. g.cdr[i] = Lowest({j \in u : j > i})
        BY <1>2, <1>6
      <3>2. {j \in u : j > i} \in SUBSET Cells
        BY <1>2
      <3> HIDE DEF u, g
      <3> QED
        BY <3>1, <3>2, LowestIs
    <2> QED
      BY <2>1
  <1>10. ASSUME NEW i \in 0 .. g.next - 1, i \notin u PROVE g.cdr[i] # -1
    <2>1. i \in Cells /\ i \in Marked
      BY <1>1, <1>6, <1>10 DEF Unmarked, Cells
    <2>2. g.cdr[i] = heap.cdr[i]
      BY <1>6, <1>10, <2>1
    <2>3. Marked \cap Cells = Reachable(heap, ToSet(RootWords)) /\ heap \in Heaps
          /\ ToSet(RootWords) \in SUBSET Values
      BY <1>1, MarkedIsReachable, RootsAre DEF Values
    <2>4. MarksOfRoots(Len(RootWords), Marked)
      BY MarkedAre
    <2>5. Held(heap.cdr[i], Marked)
      BY <2>1, <2>4 DEF MarksOfRoots, HoldsItsOwn, Cells
    <2> QED
      BY <2>2, <2>5, LastLink DEF Held
  <1>11. g.free \in u \cup {-1} /\ (g.free = -1 <=> u = {})
    BY <1>2, <1>5, LowestIs
  <1>12. u \subseteq 0 .. g.next - 1
    BY <1>6 DEF Unmarked
  <1>13. FreeListOK(g)
    <2> HIDE DEF u, g
    <2> QED
      BY <1>8, <1>9, <1>10, <1>11, <1>12 DEF FreeListOK, UsedCells
  <1>14. \A i \in Marked : g.car[i] = heap.car[i] /\ g.cdr[i] = heap.cdr[i]
    BY <1>3, <1>6 DEF Unmarked
  <1> QED
    BY <1>6, <1>7, <1>11, <1>13, <1>14

-----------------------------------------------------------------------------
(* What is kept *)

\* What words reach is in use, and holds words.
Kept(h, ws) ==
  Reachable(h, ws) \subseteq UsedCells(h) /\ Contents(h, Reachable(h, ws)) \subseteq Words

\* What the program can get at from words: these, what the cells they reach hold, and nil.
Grasp(h, ws) == {NIL_VAL} \cup ws \cup Contents(h, Reachable(h, ws))

LEMMA KeptFewer ==
  ASSUME NEW h \in Heaps, NEW ws \in SUBSET Words, Kept(h, ws), NEW vs \in SUBSET Grasp(h, ws)
  PROVE  /\ vs \in SUBSET Words /\ Reachable(h, vs) \subseteq Reachable(h, ws)
         /\ Kept(h, vs)
  <1> DEFINE r == Reachable(h, ws)
  <1>1. ws \in SUBSET Values
    BY DEF Values
  <1>2. r \in SUBSET Cells /\ (\A w \in ws : Within(w, r)) /\ IsClosed(h, r)
    BY <1>1, ReachableCloses
  <1> HIDE DEF r
  <1>3. \A w \in vs : Within(w, r)
    <2>1. ASSUME NEW w \in vs PROVE Within(w, r)
      <3>1. CASE w = NIL_VAL
        BY <3>1, NoPointers DEF Within
      <3>2. CASE w \in ws
        BY <1>2, <3>2
      <3>3. CASE w \in Contents(h, r)
        BY <1>2, <3>3 DEF Contents, IsClosed
      <3> QED
        BY <3>1, <3>2, <3>3 DEF Grasp, r
    <2> QED
      BY <2>1
  <1>4. Reachable(h, vs) \subseteq r
    BY <1>2, <1>3, ReachableLeast
  <1>5. vs \in SUBSET Words
    BY WordSets DEF Grasp, Kept
  <1>6. Contents(h, Reachable(h, vs)) \subseteq Contents(h, r)
    BY <1>4 DEF Contents
  <1> QED
    BY <1>4, <1>5, <1>6 DEF Kept, r

\* A collection keeps what words reach, when it marks it.
LEMMA CollectKeeps ==
  ASSUME TypeOK, FreeListOK(heap), -1 \notin Marked,
         NEW ws \in SUBSET Words, Kept(heap, ws), Reachable(heap, ws) \subseteq Marked
  PROVE  Kept(gc_collect, ws)
  <1> DEFINE r == Reachable(heap, ws)
             g == gc_collect
  <1>1. heap \in Heaps /\ ws \in SUBSET Values
    BY DEF TypeOK, Heaps, Values
  <1>2. r \in SUBSET Cells /\ (\A w \in ws : Within(w, r)) /\ IsClosed(heap, r)
    BY <1>1, ReachableCloses
  <1>3. /\ g \in Heaps /\ g.next = heap.next
        /\ \A i \in r : g.car[i] = heap.car[i] /\ g.cdr[i] = heap.cdr[i]
    BY CollectHeap
  <1>4. FreeCells(g) = Unmarked
    BY SweptIsFree
  <1>5. r \subseteq Marked /\ r \subseteq 0 .. heap.next - 1 /\ Contents(heap, r) \subseteq Words
    BY DEF Kept, UsedCells
  <1> HIDE DEF r, g
  <1>6. IsClosed(g, r)
    BY <1>2, <1>3 DEF IsClosed
  <1>7. Reachable(g, ws) \subseteq r
    BY <1>2, <1>6, ReachableLeast
  <1>8. r \subseteq UsedCells(g)
    BY <1>3, <1>4, <1>5 DEF UsedCells, Unmarked
  <1>9. Contents(g, Reachable(g, ws)) \subseteq Words
    BY <1>3, <1>5, <1>7 DEF Contents
  <1> QED
    BY <1>7, <1>8, <1>9 DEF Kept, g

\* gc_alloc_cell: the free list loses its head, or the used part grows by a cell.
LEMMA AllocHeap ==
  ASSUME NEW h \in Heaps, FreeListOK(h), h.free >= 0 \/ HasRoom(h),
         NEW a \in Words, NEW d \in Words
  PROVE  LET g == AllocWith(h, a, d)
             i == NewIndex(h)
         IN /\ g \in Heaps /\ FreeListOK(g)
            /\ i \in Cells /\ i \notin UsedCells(h) /\ UsedCells(g) = UsedCells(h) \cup {i}
            /\ g.car[i] = a /\ g.cdr[i] = d
            /\ \A j \in Cells \ {i} : g.car[j] = h.car[j] /\ g.cdr[j] = h.cdr[j]
  <1> DEFINE g == AllocWith(h, a, d)
             i == NewIndex(h)
             f == FreeCells(h)
  <1>1. /\ h.car \in [Cells -> Words \cup {0}] /\ h.cdr \in [Cells -> Words \cup Links]
        /\ h.next \in 0 .. HEAP_SIZE /\ h.free \in Links
    BY DEF Heaps
  <1>2. f \in SUBSET Cells /\ -1 \notin f
    BY DEF FreeCells, Cells
  <1>3. CASE h.free >= 0
    <2>1. i = h.free /\ i \in f /\ i \in Cells /\ i \in Nat
      BY <1>2, <1>3 DEF NewIndex, FreeListOK, Cells
    <2>2. g = [h EXCEPT !.free = h.cdr[h.free], !.car[h.free] = a, !.cdr[h.free] = d]
      BY <1>3 DEF AllocWith
    <2>3. /\ g.car = [h.car EXCEPT ![i] = a] /\ g.cdr = [h.cdr EXCEPT ![i] = d]
          /\ g.next = h.next /\ g.free = h.cdr[i]
      BY <2>1, <2>2 DEF Heaps
    <2>4. h.cdr[i] = -1 \/ (h.cdr[i] \in f /\ h.cdr[i] > i)
      BY <2>1 DEF FreeListOK
    <2>5. h.cdr[i] \in Links
      BY <1>2, <2>4, WordSets
    <2>6. g \in Heaps
      <3> DEFINE x == [h.car EXCEPT ![i] = a]
                 y == [h.cdr EXCEPT ![i] = d]
      <3>1. x \in [Cells -> Words \cup {0}] /\ y \in [Cells -> Words \cup Links]
        BY <1>1
      <3>2. h = [car |-> h.car, cdr |-> h.cdr, next |-> h.next, free |-> h.free]
        BY DEF Heaps
      <3>3. g = [car |-> x, cdr |-> y, next |-> h.next, free |-> h.cdr[i]]
        BY <2>1, <2>2, <3>2
      <3> HIDE DEF x, y, g, i
      <3> QED
        BY <1>1, <2>5, <3>1, <3>3 DEF Heaps
    <2> HIDE DEF g, i, f
    \* No free cell leads back to the head: all of them are above it.
    <2>7. \A j \in f : j >= i
      <3>1. {j \in f : j >= i} \in SUBSET Cells
        BY <1>2
      <3>2. h.free \in {j \in f : j >= i} \cup {-1}
        BY <2>1
      <3>3. ASSUME NEW j \in {k \in f : k >= i}
            PROVE  h.cdr[j] \in {k \in f : k >= i} \cup {-1}
        <4>1. j \in f /\ j >= i /\ j \in Nat
          BY <1>2 DEF Cells
        <4>2. h.cdr[j] = -1 \/ (h.cdr[j] \in f /\ h.cdr[j] > j)
          BY <4>1 DEF FreeListOK, f
        <4>3. CASE h.cdr[j] \in f /\ h.cdr[j] > j
          <5> DEFINE c == h.cdr[j]
          <5>1. \A k \in f : k \in Nat
            BY <1>2 DEF Cells
          <5>2. c \in f /\ c > j
            BY <4>3
          <5> HIDE DEF c
          <5>3. c \in Nat /\ c >= i
            BY <2>1, <4>1, <5>1, <5>2
          <5> QED
            BY <5>2, <5>3 DEF c
        <4> QED
          BY <4>2, <4>3
      <3> QED
        BY <3>1, <3>2, <3>3, FreeLeast DEF f
    <2>8. \A j \in f \ {i} : g.cdr[j] = h.cdr[j] /\ (h.cdr[j] = -1 \/ h.cdr[j] \in f \ {i})
      <3>1. ASSUME NEW j \in f \ {i}
            PROVE  g.cdr[j] = h.cdr[j] /\ (h.cdr[j] = -1 \/ h.cdr[j] \in f \ {i})
        <4>1. j \in Cells /\ j \in Nat /\ j >= i
          BY <1>2, <2>7 DEF Cells
        <4>2. h.cdr[j] = -1 \/ (h.cdr[j] \in f /\ h.cdr[j] > j)
          BY <4>1 DEF FreeListOK, f
        <4>3. g.cdr[j] = h.cdr[j]
          BY <1>1, <2>3, <4>1
        <4>4. h.cdr[j] > j => h.cdr[j] # i
          BY <2>1, <4>1
        <4> QED
          BY <4>2, <4>3, <4>4
      <3> QED
        BY <3>1
    <2>9. FreeCells(g) = f \ {i}
      <3>1. FreeCells(g) \subseteq f \ {i}
        <4>1. g.free \in (f \ {i}) \cup {-1}
          <5>1. h.cdr[i] > i => h.cdr[i] # i
            BY <2>1
          <5> QED
            BY <2>3, <2>4, <5>1
        <4>2. \A j \in f \ {i} : g.cdr[j] \in (f \ {i}) \cup {-1}
          BY <2>8
        <4> QED
          BY <1>2, <4>1, <4>2, FreeLeast
      <3>2. ASSUME NEW other \in SUBSET Cells, g.free \in other \cup {-1},
                   \A j \in other : g.cdr[j] \in other \cup {-1}
            PROVE  f \ {i} \subseteq other
        <4> DEFINE both == (other \cap f) \cup {i}
        <4>1. both \in SUBSET Cells
          BY <1>2, <2>1
        <4>2. h.free \in both \cup {-1}
          BY <2>1
        <4>3. ASSUME NEW j \in both PROVE h.cdr[j] \in both \cup {-1}
          <5>1. CASE j = i
            BY <2>3, <2>4, <3>2, <5>1
          <5>2. CASE j # i
            BY <2>8, <3>2, <5>2
          <5> QED
            BY <5>1, <5>2
        <4> HIDE DEF both
        <4>4. f \subseteq both
          BY <4>1, <4>2, <4>3, FreeLeast DEF f
        <4> QED
          BY <4>4 DEF both
      <3>3. f \ {i} \subseteq FreeCells(g)
        BY <1>2, <3>2, FreeMost
      <3> QED
        BY <3>1, <3>3
    <2>10. i \in 0 .. h.next - 1
      BY <2>1 DEF FreeListOK, f
    <2>11. UsedCells(g) = UsedCells(h) \cup {i} /\ i \notin UsedCells(h)
      BY <2>1, <2>3, <2>9, <2>10 DEF UsedCells, f
    <2>12. g.car[i] = a /\ g.cdr[i] = d
           /\ \A j \in Cells \ {i} : g.car[j] = h.car[j] /\ g.cdr[j] = h.cdr[j]
      BY <1>1, <2>1, <2>3
    <2>13. FreeListOK(g)
      <3>1. FreeCells(g) \subseteq 0 .. g.next - 1
        BY <2>3, <2>9 DEF FreeListOK, f
      <3>2. g.free \in FreeCells(g) \cup {-1}
        <4>1. h.cdr[i] > i => h.cdr[i] # i
          BY <2>1
        <4> QED
          BY <2>3, <2>4, <2>9, <4>1
      <3>3. \A j \in FreeCells(g) : g.cdr[j] = -1 \/ (g.cdr[j] \in FreeCells(g) /\ g.cdr[j] > j)
        BY <2>8, <2>9 DEF FreeListOK, f
      <3>4. \A j \in UsedCells(g) : g.cdr[j] # -1
        <4>1. ASSUME NEW j \in UsedCells(g) PROVE g.cdr[j] # -1
          <5>1. CASE j = i
            BY <2>12, <5>1, WordSets
          <5>2. CASE j # i
            <6>1. j \in UsedCells(h) /\ j \in Cells
              BY <1>1, <2>11, <5>2 DEF UsedCells, Cells
            <6> QED
              BY <2>12, <5>2, <6>1 DEF FreeListOK
          <5> QED
            BY <5>1, <5>2
        <4> QED
          BY <4>1
      <3> QED
        BY <3>1, <3>2, <3>3, <3>4 DEF FreeListOK
    <2> QED
      BY <2>1, <2>6, <2>11, <2>12, <2>13 DEF g, i
  <1>4. CASE ~(h.free >= 0)
    <2>1. i = h.next /\ i \in Cells /\ i \in Nat /\ i < HEAP_SIZE
      BY <1>1, <1>4 DEF NewIndex, HasRoom, Cells
    <2>2. g = [h EXCEPT !.next = @ + 1, !.car[h.next] = a, !.cdr[h.next] = d]
      BY <1>4 DEF AllocWith
    <2>3. /\ g.car = [h.car EXCEPT ![i] = a] /\ g.cdr = [h.cdr EXCEPT ![i] = d]
          /\ g.next = h.next + 1 /\ g.free = h.free
      BY <2>1, <2>2 DEF Heaps
    <2>4. h.next + 1 \in 0 .. HEAP_SIZE
      BY <1>1, <2>1
    <2>5. g \in Heaps
      <3> DEFINE x == [h.car EXCEPT ![i] = a]
                 y == [h.cdr EXCEPT ![i] = d]
      <3>1. x \in [Cells -> Words \cup {0}] /\ y \in [Cells -> Words \cup Links]
        BY <1>1
      <3>2. h = [car |-> h.car, cdr |-> h.cdr, next |-> h.next, free |-> h.free]
        BY DEF Heaps
      <3>3. g = [car |-> x, cdr |-> y, next |-> h.next + 1, free |-> h.free]
        BY <2>1, <2>2, <3>2
      <3> HIDE DEF x, y, g, i
      <3> QED
        BY <1>1, <2>4, <3>1, <3>3 DEF Heaps
    <2> HIDE DEF g, i, f
    <2>6. i \notin f /\ i \notin 0 .. h.next - 1
      BY <2>1 DEF FreeListOK, f
    <2>7. g.car[i] = a /\ g.cdr[i] = d
          /\ \A j \in Cells \ {i} : g.car[j] = h.car[j] /\ g.cdr[j] = h.cdr[j]
      BY <1>1, <2>1, <2>3
    <2>8. FreeCells(g) = f
      <3>1. \A j \in f : g.cdr[j] = h.cdr[j]
        BY <1>2, <2>6, <2>7
      <3> QED
        BY <2>3, <2>5, <3>1, FreeSame DEF f
    <2>9. 0 .. g.next - 1 = (0 .. h.next - 1) \cup {i}
      BY <1>1, <2>1, <2>3
    <2>10. UsedCells(g) = UsedCells(h) \cup {i} /\ i \notin UsedCells(h)
      BY <2>6, <2>8, <2>9 DEF UsedCells, f
    <2>11. FreeListOK(g)
      <3>1. FreeCells(g) \subseteq 0 .. g.next - 1 /\ g.free \in FreeCells(g) \cup {-1}
        BY <2>3, <2>8, <2>9 DEF FreeListOK, f
      <3>2. \A j \in FreeCells(g) : g.cdr[j] = -1 \/ (g.cdr[j] \in FreeCells(g) /\ g.cdr[j] > j)
        BY <1>2, <2>6, <2>7, <2>8 DEF FreeListOK, f
      <3>3. \A j \in UsedCells(g) : g.cdr[j] # -1
        <4>1. ASSUME NEW j \in UsedCells(g) PROVE g.cdr[j] # -1
          <5>1. CASE j = i
            BY <2>7, <5>1, WordSets
          <5>2. CASE j # i
            <6>1. j \in UsedCells(h) /\ j \in Cells
              BY <1>1, <2>10, <5>2 DEF UsedCells, Cells
            <6> QED
              BY <2>7, <5>2, <6>1 DEF FreeListOK
          <5> QED
            BY <5>1, <5>2
        <4> QED
          BY <4>1
      <3> QED
        BY <3>1, <3>2, <3>3 DEF FreeListOK
    <2> QED
      BY <2>1, <2>5, <2>7, <2>10, <2>11 DEF g, i
  <1> QED
    BY <1>3, <1>4

\* To show that words are kept: a closed set of used cells that hold words.
LEMMA KeptBy ==
  ASSUME NEW h, NEW ws, NEW set \in SUBSET Cells,
         \A w \in ws : Within(w, set), IsClosed(h, set),
         set \subseteq UsedCells(h), Contents(h, set) \subseteq Words
  PROVE  Kept(h, ws)
  <1>1. Reachable(h, ws) \subseteq set
    BY ReachableLeast
  <1>2. Contents(h, Reachable(h, ws)) \subseteq Contents(h, set)
    BY <1>1 DEF Contents
  <1> QED
    BY <1>1, <1>2 DEF Kept

\* What words reach, and what they and its cells hold.
LEMMA ReachedIsClosed ==
  ASSUME NEW h \in Heaps, NEW ws \in SUBSET Words, Kept(h, ws)
  PROVE  /\ Reachable(h, ws) \in SUBSET Cells /\ IsClosed(h, Reachable(h, ws))
         /\ \A w \in Grasp(h, ws) : w \in Words /\ Within(w, Reachable(h, ws))
  <1> DEFINE r == Reachable(h, ws)
  <1>1. ws \in SUBSET Values
    BY DEF Values
  <1>2. r \in SUBSET Cells /\ (\A w \in ws : Within(w, r)) /\ IsClosed(h, r)
    BY <1>1, ReachableCloses
  <1>3. ASSUME NEW w \in Grasp(h, ws) PROVE w \in Words /\ Within(w, r)
    <2>1. CASE w = NIL_VAL
      BY <2>1, NoPointers, WordSets DEF Within
    <2>2. CASE w \in ws
      BY <1>2, <2>2
    <2>3. CASE w \in Contents(h, r)
      <3>1. w \in Words
        BY <2>3 DEF Kept
      <3> HIDE DEF r
      <3> QED
        BY <1>2, <2>3, <3>1 DEF Contents, IsClosed
    <2> QED
      BY <2>1, <2>2, <2>3 DEF Grasp
  <1> QED
    BY <1>2, <1>3

\* A new cell is kept beside what was.
LEMMA AllocKeeps ==
  ASSUME NEW h \in Heaps, FreeListOK(h), h.free >= 0 \/ HasRoom(h),
         NEW ws \in SUBSET Words, Kept(h, ws),
         NEW a \in Grasp(h, ws) \cup {ETYPE_CLOSURE}, NEW d \in Grasp(h, ws),
         NEW tag \in {TAG_CONS, TAG_EXTENDED},
         NEW vs, vs \subseteq ws \cup {Tagged(NewIndex(h), tag)}
  PROVE  /\ AllocWith(h, a, d) \in Heaps /\ FreeListOK(AllocWith(h, a, d))
         /\ Tagged(NewIndex(h), tag) \in Words
         /\ Kept(AllocWith(h, a, d), vs)
  <1> DEFINE r == Reachable(h, ws)
             g == AllocWith(h, a, d)
             i == NewIndex(h)
             w0 == Tagged(i, tag)
  <1>1. /\ r \in SUBSET Cells /\ IsClosed(h, r) /\ \A w \in ws : w \in Grasp(h, ws)
        /\ \A w \in Grasp(h, ws) : w \in Words /\ Within(w, r)
    BY ReachedIsClosed DEF Grasp
  <1>2. a \in Words /\ d \in Words /\ Within(a, r) /\ Within(d, r)
    BY <1>1, NoPointers, WordSets DEF Within
  <1>3. /\ g \in Heaps /\ FreeListOK(g)
        /\ i \in Cells /\ i \notin UsedCells(h) /\ UsedCells(g) = UsedCells(h) \cup {i}
        /\ g.car[i] = a /\ g.cdr[i] = d
        /\ \A j \in Cells \ {i} : g.car[j] = h.car[j] /\ g.cdr[j] = h.cdr[j]
    BY <1>2, AllocHeap
  <1>4. w0 \in Words /\ IsPointer(w0) /\ PTR_IDX(w0) = i
    BY <1>3, PointerWords
  <1>5. r \subseteq UsedCells(h) /\ Contents(h, r) \subseteq Words /\ vs \subseteq ws \cup {w0}
    BY DEF Kept
  <1> HIDE DEF r, g, i, w0
  <1> DEFINE set == r \cup {i}
  <1>6. \A j \in r : j \in Cells \ {i} /\ g.car[j] = h.car[j] /\ g.cdr[j] = h.cdr[j]
    BY <1>1, <1>3, <1>5
  <1>7. set \in SUBSET Cells /\ set \subseteq UsedCells(g)
    BY <1>1, <1>3, <1>5
  <1>8. IsClosed(g, set)
    BY <1>1, <1>2, <1>3, <1>6 DEF IsClosed, Within
  <1>9. \A w \in vs : Within(w, set)
    BY <1>1, <1>4, <1>5 DEF Within
  <1>10. Contents(g, set) \subseteq Words
    BY <1>2, <1>3, <1>5, <1>6 DEF Contents
  <1>11. Kept(g, vs)
    <2> HIDE DEF set
    <2> QED
      BY <1>7, <1>8, <1>9, <1>10, KeptBy
  <1> QED
    BY <1>3, <1>4, <1>11 DEF g, i, w0

\* set! changes a cell in use: the free list stays as it is.
LEMMA SetCdrKeeps ==
  ASSUME NEW h \in Heaps, FreeListOK(h), NEW ws \in SUBSET Words, Kept(h, ws),
         NEW i \in Reachable(h, ws), NEW d \in Grasp(h, ws)
  PROVE  /\ [h EXCEPT !.cdr[i] = d] \in Heaps /\ FreeListOK([h EXCEPT !.cdr[i] = d])
         /\ Kept([h EXCEPT !.cdr[i] = d], ws)
  <1> DEFINE r == Reachable(h, ws)
             g == [h EXCEPT !.cdr[i] = d]
             y == [h.cdr EXCEPT ![i] = d]
  <1>1. /\ r \in SUBSET Cells /\ IsClosed(h, r) /\ \A w \in ws : w \in Grasp(h, ws)
        /\ \A w \in Grasp(h, ws) : w \in Words /\ Within(w, r)
    BY ReachedIsClosed DEF Grasp
  <1>2. i \in r /\ i \in Cells /\ r \subseteq UsedCells(h) /\ Contents(h, r) \subseteq Words
    BY <1>1 DEF Kept
  <1>3. h.cdr \in [Cells -> Words \cup Links] /\ d \in Words
    BY <1>1 DEF Heaps
  <1>4. y \in [Cells -> Words \cup Links]
    BY <1>3
  <1>5. g.car = h.car /\ g.cdr = y /\ g.next = h.next /\ g.free = h.free
    BY DEF Heaps
  <1>6. g \in Heaps
    <2>1. h = [car |-> h.car, cdr |-> h.cdr, next |-> h.next, free |-> h.free]
      BY DEF Heaps
    <2>2. g = [car |-> h.car, cdr |-> y, next |-> h.next, free |-> h.free]
      BY <2>1
    <2> HIDE DEF y, g
    <2> QED
      BY <1>4, <2>2 DEF Heaps
  <1>7. g.cdr[i] = d /\ \A j \in Cells \ {i} : g.cdr[j] = h.cdr[j]
    BY <1>2, <1>3, <1>5
  <1> HIDE DEF r, g, y
  <1>8. FreeCells(g) = FreeCells(h)
    <2>1. FreeCells(h) \in SUBSET Cells /\ i \notin FreeCells(h)
      BY <1>2 DEF FreeCells, UsedCells
    <2> QED
      BY <1>5, <1>6, <1>7, <2>1, FreeSame
  <1>9. UsedCells(g) = UsedCells(h) /\ UsedCells(h) \subseteq Cells
    <2>1. h.next \in 0 .. HEAP_SIZE
      BY DEF Heaps
    <2> QED
      BY <1>5, <1>8, <2>1 DEF UsedCells, Cells
  <1>10. FreeListOK(g)
    <2>1. /\ FreeCells(h) \in SUBSET Cells /\ i \notin FreeCells(h)
          /\ \A j \in FreeCells(h) : g.cdr[j] = h.cdr[j]
      BY <1>2, <1>7 DEF FreeCells, UsedCells
    <2>2. \A j \in UsedCells(g) : g.cdr[j] # -1
      BY <1>3, <1>7, <1>9, WordSets DEF FreeListOK
    <2>3. \A j \in FreeCells(g) : g.cdr[j] = -1 \/ (g.cdr[j] \in FreeCells(g) /\ g.cdr[j] > j)
      BY <1>8, <2>1 DEF FreeListOK
    <2> QED
      BY <1>5, <1>8, <2>2, <2>3 DEF FreeListOK
  <1>11. IsClosed(g, r)
    BY <1>1, <1>2, <1>5, <1>7 DEF IsClosed
  <1>12. Contents(g, r) \subseteq Words
    BY <1>1, <1>2, <1>3, <1>5, <1>7 DEF Contents
  <1>13. Kept(g, ws)
    BY <1>1, <1>2, <1>9, <1>11, <1>12, KeptBy
  <1> QED
    BY <1>6, <1>10, <1>13 DEF g

-----------------------------------------------------------------------------
(* The inductive invariant *)

HeapInv == TypeOK /\ FreeListOK(heap) /\ Kept(heap, LiveRoots)

LEMMA RootsAreWords ==
  ASSUME TypeOK
  PROVE  LiveRoots \in SUBSET Words /\ heap \in Heaps
  <1>1. ToSet(gc_roots) \subseteq Words
    BY DEF TypeOK, ToSet
  <1>2. \A k \in live : stack[k] \in Words
    BY DEF TypeOK
  <1> QED
    BY <1>1, <1>2 DEF TypeOK, LiveRoots, Heaps

\* What the code can get at is in reach of the roots.
LEMMA OperandsInGrasp ==
  ASSUME HeapInv
  PROVE  Operands \subseteq Grasp(heap, LiveRoots) /\ LiveRoots \subseteq Operands
  <1> DEFINE r == Reachable(heap, LiveRoots)
  <1>1. LiveRoots \in SUBSET Words /\ heap \in Heaps
    BY RootsAreWords DEF HeapInv
  <1>2. \A w \in Grasp(heap, LiveRoots) : Within(w, r)
    BY <1>1, ReachedIsClosed DEF HeapInv
  <1>3. \A w \in LiveRoots : IsPointer(w) => PTR_IDX(w) \in r
    <2>1. ASSUME NEW w \in LiveRoots, IsPointer(w) PROVE PTR_IDX(w) \in r
      <3>1. PTR_IDX(w) \in Cells
        BY <1>1, <2>1, WordIndex, WordSets
      <3>2. Within(w, r)
        BY <1>2 DEF Grasp
      <3> QED
        BY <2>1, <3>1, <3>2 DEF Within, Cells
    <2> QED
      BY <2>1
  <1>4. PointedTo(LiveRoots) \subseteq r
    BY <1>3 DEF PointedTo
  <1> DEFINE conses == {w \in LiveRoots : IS_CONS(w)}
             closures == {w \in LiveRoots : IS_EXTENDED(w)}
  <1>5. PointedTo(conses) \subseteq r /\ PointedTo(closures) \subseteq r
    BY <1>4 DEF PointedTo
  <1>6. Contents(heap, PointedTo(conses)) \subseteq Contents(heap, r)
        /\ {heap.cdr[i] : i \in PointedTo(closures)} \subseteq Contents(heap, r)
    BY <1>5 DEF Contents
  <1> QED
    BY <1>6 DEF Operands, Grasp

\* gc.h: the scan never misses live pointers.  What the program may still use is
\* among what the roots and the scanned words reach, so it is marked.
LEMMA LiveIsMarked ==
  ASSUME HeapInv
  PROVE  Reachable(heap, LiveRoots) \subseteq Marked
  <1> DEFINE live_cells == Reachable(heap, LiveRoots)
             r == Reachable(heap, ToSet(RootWords))
  <1>1. LiveRoots \in SUBSET Words /\ heap \in Heaps /\ TypeOK
    BY RootsAreWords DEF HeapInv
  <1>2. ToSet(RootWords) \in SUBSET Values
    BY <1>1, RootsAre DEF Values
  <1>3. r \in SUBSET Cells /\ (\A w \in ToSet(RootWords) : Within(w, r)) /\ IsClosed(heap, r)
    BY <1>1, <1>2, ReachableCloses
  <1>4. live_cells \subseteq 0 .. heap.next - 1
    BY DEF HeapInv, Kept, UsedCells
  <1>5. ASSUME NEW w \in LiveRoots, IsPointer(w) PROVE w \in ToSet(RootWords)
    <2>1. CASE w = global_env \/ w \in ToSet(gc_roots)
      BY <1>1, <2>1, RootsAre
    <2>2. ASSUME NEW k \in live, w = stack[k] PROVE w \in ToSet(RootWords)
      <3>1. w \in Grasp(heap, LiveRoots)
        BY DEF Grasp
      <3>2. Within(w, live_cells)
        BY <1>1, <3>1, ReachedIsClosed DEF HeapInv
      <3>3. PTR_IDX(w) \in Cells
        BY <1>1, <1>5, WordIndex, WordSets
      <3>4. PTR_IDX(w) \in 0 .. heap.next - 1
        BY <1>4, <1>5, <3>2, <3>3 DEF Within, Cells
      <3>5. Plausible(stack[k]) /\ k \in 0 .. sp - 1
        BY <1>1, <1>5, <2>2, <3>4 DEF Plausible, TypeOK
      <3> QED
        BY <1>1, <2>2, <3>5, RootsAre
    <2> QED
      BY <2>1, <2>2 DEF LiveRoots
  <1>6. \A w \in LiveRoots : Within(w, r)
    BY <1>3, <1>5 DEF Within
  <1>7. live_cells \subseteq r
    BY <1>3, <1>6, ReachableLeast
  <1> QED
    BY <1>1, <1>7, MarkedIsReachable

\* Where the heap stays, the roots may only become what the program can get at.
LEMMA SameHeapKeeps ==
  ASSUME HeapInv, heap' = heap, TypeOK', LiveRoots' \subseteq Operands
  PROVE  HeapInv'
  <1>1. LiveRoots \in SUBSET Words /\ heap \in Heaps /\ Kept(heap, LiveRoots)
    BY RootsAreWords DEF HeapInv
  <1>2. LiveRoots' \in SUBSET Grasp(heap, LiveRoots)
    BY OperandsInGrasp
  <1>3. Kept(heap, LiveRoots')
    BY <1>1, <1>2, KeptFewer
  <1> QED
    BY <1>3 DEF HeapInv

\* The words of the program, as the parts of it that an action can change.
LEMMA LiveRootsAre ==
  /\ \A w \in LiveRoots : \/ w = global_env \/ w \in ToSet(gc_roots)
                          \/ \E k \in live : w = stack[k]
  /\ global_env \in LiveRoots /\ ToSet(gc_roots) \subseteq LiveRoots
  /\ \A k \in live : stack[k] \in LiveRoots
  BY DEF LiveRoots

\* A local of the newest call is set: beside what was, its word is a root.
LEMMA LocalRoots ==
  ASSUME TypeOK, sp > 0, NEW w \in Words,
         stack' = [stack EXCEPT ![sp - 1] = w], live' = live \cup {sp - 1},
         UNCHANGED roots
  PROVE  /\ LiveRoots' \subseteq LiveRoots \cup {w}
         /\ stack' \in [0 .. StackSize - 1 -> Words] /\ live' \subseteq 0 .. sp - 1
  <1>1. sp - 1 \in 0 .. StackSize - 1 /\ sp - 1 \in 0 .. sp - 1 /\ live \subseteq 0 .. StackSize - 1
    BY DEF TypeOK
  <1>2. stack' \in [0 .. StackSize - 1 -> Words]
    BY <1>1 DEF TypeOK
  <1>3. \A k \in live' : stack'[k] \in LiveRoots \cup {w}
    BY <1>1, LiveRootsAre DEF TypeOK
  <1>4. {global_env'} \cup ToSet(gc_roots') \subseteq LiveRoots
    BY LiveRootsAre DEF roots
  <1>5. LiveRoots' \subseteq LiveRoots \cup {w}
    BY <1>3, <1>4 DEF LiveRoots
  <1>6. live' \subseteq 0 .. sp - 1
    BY <1>1 DEF TypeOK
  <1> QED
    BY <1>2, <1>5, <1>6

LEMMA InitHeap ==
  ASSUME NEW h \in Heaps
  PROVE  /\ Started(h) \in Heaps /\ FreeListOK(Started(h))
         /\ Kept(Started(h), {MAKE_CONS(0)})
  <1> DEFINE g == Started(h)
             x == [h.car EXCEPT ![0] = NIL_VAL]
             y == [h.cdr EXCEPT ![0] = NIL_VAL]
  <1>1. 0 \in Cells /\ NIL_VAL \in Words /\ -1 \in Links /\ 1 \in 0 .. HEAP_SIZE
    BY WordSets
  <1>2. h.car \in [Cells -> Words \cup {0}] /\ h.cdr \in [Cells -> Words \cup Links]
    BY DEF Heaps
  <1>3. x \in [Cells -> Words \cup {0}] /\ y \in [Cells -> Words \cup Links]
        /\ x[0] = NIL_VAL /\ y[0] = NIL_VAL
    BY <1>1, <1>2
  <1>4. g = [car |-> x, cdr |-> y, next |-> 1, free |-> -1]
    <2>1. h = [car |-> h.car, cdr |-> h.cdr, next |-> h.next, free |-> h.free]
      BY DEF Heaps
    <2>2. g = [h EXCEPT !.next = 1, !.free = -1, !.car[0] = NIL_VAL, !.cdr[0] = NIL_VAL]
      BY DEF Started
    <2> QED
      BY <2>1, <2>2
  <1> HIDE DEF x, y, g
  <1>5. g \in Heaps /\ g.car = x /\ g.cdr = y /\ g.next = 1 /\ g.free = -1
    BY <1>1, <1>3, <1>4 DEF Heaps
  <1>6. FreeCells(g) = {}
    <2>1. {} \in SUBSET Cells /\ g.free \in {} \cup {-1} /\ \A i \in {} : g.cdr[i] \in {} \cup {-1}
      BY <1>5
    <2>2. FreeCells(g) \subseteq {}
      BY <2>1, FreeLeast
    <2> QED
      BY <2>2
  <1>7. UsedCells(g) = {0}
    BY <1>5, <1>6 DEF UsedCells
  <1>8. FreeListOK(g)
    BY <1>1, <1>3, <1>5, <1>6, <1>7, WordSets DEF FreeListOK
  <1>9. Kept(g, {MAKE_CONS(0)})
    <2>1. PTR_IDX(MAKE_CONS(0)) = 0
      BY <1>1, PointerWords DEF MAKE_CONS
    <2>2. {0} \in SUBSET Cells /\ \A w \in {MAKE_CONS(0)} : Within(w, {0})
      BY <1>1, <2>1 DEF Within
    <2>3. IsClosed(g, {0}) /\ Contents(g, {0}) \subseteq Words
      BY <1>1, <1>3, <1>5, NoPointers DEF IsClosed, Within, Contents
    <2> QED
      BY <1>7, <2>2, <2>3, KeptBy
  <1> QED
    BY <1>5, <1>8, <1>9 DEF g

LEMMA FirstEnv == MAKE_CONS(0) \in Words
  BY WordSets, PointerWords DEF MAKE_CONS

\* The session has only its environment.
LEMMA NoOtherRoots ==
  ASSUME global_env' = MAKE_CONS(0), gc_roots' = <<>>, live' = {}
  PROVE  LiveRoots' = {MAKE_CONS(0)}
  <1>1. ToSet(gc_roots') = {}
    BY DEF ToSet
  <1> QED
    BY <1>1 DEF LiveRoots

LEMMA InitInv == Init => HeapInv
  <1> SUFFICES ASSUME Init PROVE HeapInv
    OBVIOUS
  <1> DEFINE h == [car |-> [i \in Cells |-> 0], cdr |-> [i \in Cells |-> 0],
                   next |-> 0, free |-> -1]
  <1>1. h \in Heaps
    BY WordSets DEF Heaps
  <1>2. heap = Started(h) /\ global_env = MAKE_CONS(0) /\ gc_roots = <<>> /\ live = {}
    BY DEF Init
  <1> HIDE DEF h
  <1>3. heap \in Heaps /\ FreeListOK(heap) /\ Kept(heap, {MAKE_CONS(0)})
    BY <1>1, <1>2, InitHeap
  <1>4. LiveRoots = {MAKE_CONS(0)}
    BY <1>2 DEF LiveRoots, ToSet
  <1>5. stack \in [0 .. StackSize - 1 -> Words]
    BY WordSets DEF Init
  <1>6. TypeOK
    <2>1. gc_roots \in Seq(Words) /\ Len(gc_roots) = 0
      BY <1>2
    <2>2. /\ mode = "run" /\ global_env = MAKE_CONS(0) /\ sp = 0 /\ live = {} /\ writes = 0
      BY DEF Init
    <2> QED
      BY <1>3, <1>5, <2>1, <2>2, FirstEnv DEF TypeOK, Heaps
  <1> QED
    BY <1>3, <1>4, <1>6 DEF HeapInv

-----------------------------------------------------------------------------
(* One step per action *)

LEMMA ResetInv == HeapInv /\ reset_interpreter => HeapInv'
  <1> SUFFICES ASSUME HeapInv, reset_interpreter PROVE HeapInv'
    OBVIOUS
  <1>1. heap \in Heaps /\ live' = {}
    BY RootsAreWords DEF HeapInv, TypeOK, reset_interpreter
  <1>2. heap' = Started(heap)
    BY DEF reset_interpreter
  <1>3. heap' \in Heaps /\ FreeListOK(heap') /\ Kept(heap', {MAKE_CONS(0)})
    BY <1>1, <1>2, InitHeap
  <1>4. LiveRoots' = {MAKE_CONS(0)}
    BY <1>1, NoOtherRoots DEF reset_interpreter
  <1>5. TypeOK'
    BY <1>1, <1>3, FirstEnv DEF HeapInv, TypeOK, Heaps, reset_interpreter
  <1> QED
    BY <1>3, <1>4, <1>5 DEF HeapInv

LEMMA CallInv == HeapInv /\ Call => HeapInv'
  <1> SUFFICES ASSUME HeapInv, Call PROVE HeapInv'
    OBVIOUS
  <1>1. TypeOK'
    BY DEF HeapInv, TypeOK, Call, roots
  <1>2. LiveRoots' = LiveRoots
    BY DEF LiveRoots, Call, roots
  <1> QED
    BY <1>1, <1>2, OperandsInGrasp, SameHeapKeeps DEF Call

LEMMA ReturnInv == HeapInv /\ Return => HeapInv'
  <1> SUFFICES ASSUME HeapInv, Return PROVE HeapInv'
    OBVIOUS
  <1>1. TypeOK'
    BY DEF HeapInv, TypeOK, Return, roots
  <1>2. LiveRoots' \subseteq LiveRoots
    BY DEF LiveRoots, Return, roots
  <1> QED
    BY <1>1, <1>2, OperandsInGrasp, SameHeapKeeps DEF Return

\* Everything that an expression gets at is a word.
LEMMA OperandIsWord ==
  ASSUME HeapInv, NEW w \in Operands
  PROVE  w \in Words /\ w \in Grasp(heap, LiveRoots) /\ Within(w, Reachable(heap, LiveRoots))
  <1>1. LiveRoots \in SUBSET Words /\ heap \in Heaps /\ Kept(heap, LiveRoots)
    BY RootsAreWords DEF HeapInv
  <1>2. w \in Grasp(heap, LiveRoots)
    BY OperandsInGrasp
  <1> QED
    BY <1>1, <1>2, ReachedIsClosed

LEMMA LocalInv ==
  ASSUME HeapInv, NEW w \in Operands, Local(w)
  PROVE  HeapInv'
  <1>1. TypeOK /\ w \in Words
    BY OperandIsWord DEF HeapInv
  <1>2. /\ LiveRoots' \subseteq LiveRoots \cup {w}
        /\ stack' \in [0 .. StackSize - 1 -> Words] /\ live' \subseteq 0 .. sp - 1
    BY <1>1, LocalRoots DEF Local
  <1>3. TypeOK'
    BY <1>1, <1>2 DEF TypeOK, Local, roots
  <1> QED
    BY <1>2, <1>3, OperandsInGrasp, SameHeapKeeps DEF Local

LEMMA DefineInv ==
  ASSUME HeapInv, NEW w \in Operands, Define(w)
  PROVE  HeapInv'
  <1>1. TypeOK /\ w \in Words
    BY OperandIsWord DEF HeapInv
  <1>2. TypeOK'
    BY <1>1 DEF TypeOK, Define
  <1>3. LiveRoots' \subseteq LiveRoots \cup {w}
    BY DEF LiveRoots, Define
  <1> QED
    BY <1>2, <1>3, OperandsInGrasp, SameHeapKeeps DEF Define

LEMMA ProtectInv ==
  ASSUME HeapInv, NEW w \in Operands, gc_protect(w)
  PROVE  HeapInv'
  <1>1. TypeOK /\ w \in Words
    BY OperandIsWord DEF HeapInv
  <1>2. CASE RootsFull
    <2>1. gc_roots' = gc_roots /\ mode' = "panic"
      BY <1>2 DEF gc_protect
    <2>2. TypeOK'
      BY <1>1, <2>1 DEF TypeOK, gc_protect
    <2>3. LiveRoots' = LiveRoots
      BY <2>1 DEF LiveRoots, gc_protect
    <2> QED
      BY <2>2, <2>3, OperandsInGrasp, SameHeapKeeps DEF gc_protect
  <1>3. CASE ~RootsFull
    <2>1. gc_roots' = Append(gc_roots, w) /\ mode' = mode
      BY <1>3 DEF gc_protect
    <2>2. gc_roots \in Seq(Words) /\ Len(gc_roots) < MAX_GC_ROOTS /\ Len(gc_roots) \in Nat
      BY <1>1, <1>3 DEF TypeOK, RootsFull
    <2>3. /\ gc_roots' \in Seq(Words) /\ Len(gc_roots') = Len(gc_roots) + 1
          /\ \A k \in 1 .. Len(gc_roots) : gc_roots'[k] = gc_roots[k]
          /\ gc_roots'[Len(gc_roots) + 1] = w
      BY <1>1, <2>1, <2>2, AppendProperties
    <2>4. TypeOK'
      BY <1>1, <2>1, <2>2, <2>3 DEF TypeOK, gc_protect
    <2>5. ToSet(gc_roots') \subseteq ToSet(gc_roots) \cup {w}
      <3>1. DOMAIN gc_roots' = 1 .. Len(gc_roots) + 1 /\ DOMAIN gc_roots = 1 .. Len(gc_roots)
        BY <2>2, <2>3
      <3>2. \A k \in 1 .. Len(gc_roots) + 1 : k \in 1 .. Len(gc_roots) \/ k = Len(gc_roots) + 1
        BY <2>2
      <3> QED
        BY <2>3, <3>1, <3>2 DEF ToSet
    <2>6. LiveRoots' \subseteq LiveRoots \cup {w}
      BY <2>5 DEF LiveRoots, gc_protect
    <2> QED
      BY <2>4, <2>6, OperandsInGrasp, SameHeapKeeps DEF gc_protect
  <1> QED
    BY <1>2, <1>3

LEMMA UnprotectInv == HeapInv /\ gc_unprotect => HeapInv'
  <1> SUFFICES ASSUME HeapInv, gc_unprotect PROVE HeapInv'
    OBVIOUS
  <1> DEFINE n == Len(gc_roots)
             s == SubSeq(gc_roots, 1, n - 1)
  <1>1. TypeOK /\ gc_roots \in Seq(Words) /\ n \in Nat /\ n <= MAX_GC_ROOTS
    BY DEF HeapInv, TypeOK
  <1>2. n # 0
    BY <1>1, EmptySeq DEF gc_unprotect
  <1>3. gc_roots' = s
    BY DEF gc_unprotect, Front
  <1>4. /\ s \in Seq(Words) /\ Len(s) = n - 1
        /\ \A k \in 1 .. n - 1 : s[k] = gc_roots[k]
    <2> DEFINE m == n - 1
    <2>1. m \in Nat /\ 1 \in Int /\ \A k \in 1 .. m : gc_roots[k] \in Words
      BY <1>1, <1>2
    <2> HIDE DEF m
    <2>2. /\ SubSeq(gc_roots, 1, m) \in Seq(Words)
          /\ Len(SubSeq(gc_roots, 1, m)) = IF 1 <= m THEN m - 1 + 1 ELSE 0
          /\ \A k \in 1 .. m - 1 + 1 : SubSeq(gc_roots, 1, m)[k] = gc_roots[1 + k - 1]
      BY <2>1, SubSeqProperties
    <2>3. /\ SubSeq(gc_roots, 1, m) \in Seq(Words) /\ Len(SubSeq(gc_roots, 1, m)) = m
          /\ \A k \in 1 .. m : SubSeq(gc_roots, 1, m)[k] = gc_roots[k]
      BY <2>1, <2>2
    <2> QED
      BY <2>3 DEF m
  <1> HIDE DEF n, s
  <1>5. TypeOK'
    BY <1>1, <1>2, <1>3, <1>4 DEF TypeOK, gc_unprotect
  <1>6. ToSet(gc_roots') \subseteq ToSet(gc_roots)
    <2>1. DOMAIN gc_roots' = 1 .. n - 1 /\ DOMAIN gc_roots = 1 .. n
      BY <1>1, <1>2, <1>3, <1>4 DEF n
    <2>2. \A k \in 1 .. n - 1 : k \in 1 .. n
      BY <1>1
    <2> QED
      BY <1>3, <1>4, <2>1, <2>2 DEF ToSet
  <1>7. LiveRoots' \subseteq LiveRoots
    BY <1>6 DEF LiveRoots, gc_unprotect
  <1> QED
    BY <1>5, <1>7, OperandsInGrasp, SameHeapKeeps DEF gc_unprotect

LEMMA SetCdrInv ==
  ASSUME HeapInv, NEW w \in Operands, NEW d \in Operands, SetCdr(w, d)
  PROVE  HeapInv'
  <1> DEFINE i == PTR_IDX(w)
             ws == LiveRoots
             g == [heap EXCEPT !.cdr[i] = d]
  <1>1. ws \in SUBSET Words /\ heap \in Heaps /\ Kept(heap, ws) /\ FreeListOK(heap) /\ TypeOK
    BY RootsAreWords DEF HeapInv
  <1>2. d \in Grasp(heap, ws) /\ w \in Words /\ Within(w, Reachable(heap, ws))
    BY OperandIsWord
  <1>3. IsPointer(w)
    BY DEF SetCdr, IsPointer
  <1>4. i \in Cells
    BY <1>2, <1>3, WordIndex, WordSets
  <1>5. i \in Reachable(heap, ws)
    BY <1>2, <1>3, <1>4 DEF Within, Cells
  <1> HIDE DEF i, ws
  <1>6. g \in Heaps /\ FreeListOK(g) /\ Kept(g, ws)
    BY <1>1, <1>2, <1>5, SetCdrKeeps
  <1>7. heap' = g
    BY DEF SetCdr, i
  <1>8. LiveRoots' = LiveRoots
    BY DEF SetCdr, LiveRoots, roots
  <1> HIDE DEF g
  <1>9. TypeOK'
    <2>1. heap' \in Heaps
      BY <1>6, <1>7
    <2>2. UNCHANGED <<mode, global_env, gc_roots, stack, sp, live>> /\ writes' \in 0 .. MaxWrites
      BY <1>1 DEF TypeOK, SetCdr, roots
    <2> QED
      BY <1>1, <2>1, <2>2 DEF TypeOK, Heaps
  <1> QED
    BY <1>6, <1>7, <1>8, <1>9 DEF HeapInv, ws

LEMMA CollectInv ==
  ASSUME HeapInv, -1 \notin Marked
  PROVE  gc_collect \in Heaps /\ FreeListOK(gc_collect) /\ Kept(gc_collect, LiveRoots)
  <1>1. LiveRoots \in SUBSET Words /\ TypeOK /\ FreeListOK(heap) /\ Kept(heap, LiveRoots)
    BY RootsAreWords DEF HeapInv
  <1> QED
    BY <1>1, LiveIsMarked, CollectHeap, CollectKeeps

\* A collection leaves to the program what it could get at.
LEMMA CollectGrasp ==
  ASSUME HeapInv, -1 \notin Marked
  PROVE  Grasp(heap, LiveRoots) \subseteq Grasp(gc_collect, LiveRoots)
  <1> DEFINE r == Reachable(heap, LiveRoots)
             g == gc_collect
             s == Reachable(g, LiveRoots)
  <1>1. LiveRoots \in SUBSET Words /\ heap \in Heaps /\ TypeOK /\ FreeListOK(heap)
    BY RootsAreWords DEF HeapInv
  <1>2. g \in Heaps /\ LiveRoots \in SUBSET Values
    BY <1>1, CollectHeap DEF Values
  <1>3. s \in SUBSET Cells /\ (\A w \in LiveRoots : Within(w, s)) /\ IsClosed(g, s)
    BY <1>2, ReachableCloses
  <1>4. r \in SUBSET Cells /\ (\A w \in LiveRoots : Within(w, r)) /\ IsClosed(heap, r)
    BY <1>1, <1>2, ReachableCloses
  <1>5. \A i \in r : g.car[i] = heap.car[i] /\ g.cdr[i] = heap.cdr[i]
    BY <1>1, LiveIsMarked, CollectHeap
  <1> HIDE DEF r, g, s
  <1>6. r \subseteq s
    <2>1. \A w \in LiveRoots : Within(w, r \cap s)
      BY <1>3, <1>4 DEF Within
    <2>2. IsClosed(heap, r \cap s)
      BY <1>3, <1>4, <1>5 DEF IsClosed, Within
    <2>3. r \cap s \in SUBSET Cells
      BY <1>4
    <2>4. r \subseteq r \cap s
      BY <2>1, <2>2, <2>3, ReachableLeast DEF r
    <2> QED
      BY <2>4
  <1>7. Contents(heap, r) \subseteq Contents(g, s)
    BY <1>5, <1>6 DEF Contents
  <1> QED
    BY <1>7 DEF Grasp, r, s, g

LEMMA GcInv == HeapInv /\ Gc => HeapInv'
  <1> SUFFICES ASSUME HeapInv, Gc PROVE HeapInv'
    OBVIOUS
  <1>1. LiveRoots' = LiveRoots
    BY DEF Gc, LiveRoots, roots
  <1>2. CASE -1 \in Marked
    <2>1. heap' = heap /\ mode' = "stray"
      BY <1>2 DEF Gc
    <2>2. TypeOK'
      BY <2>1 DEF HeapInv, TypeOK, Gc, roots
    <2> QED
      BY <1>1, <2>1, <2>2, OperandsInGrasp, SameHeapKeeps
  <1>3. CASE -1 \notin Marked
    <2> DEFINE g == gc_collect
    <2>1. heap' = g /\ mode' = mode
      BY <1>3 DEF Gc
    <2>2. g \in Heaps /\ FreeListOK(g) /\ Kept(g, LiveRoots)
      BY <1>3, CollectInv
    <2> HIDE DEF g
    <2>3. TypeOK'
      BY <2>1, <2>2 DEF HeapInv, TypeOK, Heaps, Gc, roots
    <2> QED
      BY <1>1, <2>1, <2>2, <2>3 DEF HeapInv
  <1> QED
    BY <1>2, <1>3

LEMMA AllocInv ==
  ASSUME HeapInv, NEW a \in Operands \cup {ETYPE_CLOSURE}, NEW d \in Operands,
         NEW tag \in {TAG_CONS, TAG_EXTENDED}, Alloc(a, d, tag)
  PROVE  HeapInv'
  <1> DEFINE h == IF CanCollect THEN gc_collect ELSE heap
             strays == CanCollect /\ -1 \in Marked
             g == AllocWith(h, a, d)
             w == Tagged(NewIndex(h), tag)
             ws == LiveRoots
  <1>1. ws \in SUBSET Words /\ heap \in Heaps /\ Kept(heap, ws) /\ FreeListOK(heap) /\ TypeOK
    BY RootsAreWords DEF HeapInv
  <1>2. a \in Grasp(heap, ws) \cup {ETYPE_CLOSURE} /\ d \in Grasp(heap, ws)
    BY OperandIsWord
  <1>3. UNCHANGED roots /\ sp' = sp /\ sp > 0 /\ writes' \in 0 .. MaxWrites
    BY <1>1 DEF Alloc, TypeOK
  <1>4. CASE strays \/ ~Available
    <2>1. mode' \in {"stray", "oom"} /\ heap' = heap /\ stack' = stack /\ live' = live
      BY <1>4 DEF Alloc
    <2>2. TypeOK'
      BY <1>1, <1>3, <2>1 DEF TypeOK, roots
    <2>3. LiveRoots' = LiveRoots
      BY <1>3, <2>1 DEF LiveRoots, roots
    <2> QED
      BY <2>1, <2>2, <2>3, OperandsInGrasp, SameHeapKeeps
  <1>5. CASE ~strays /\ Available
    <2>1. /\ heap' = g /\ mode' = mode /\ live' = live \cup {sp - 1}
          /\ stack' = [stack EXCEPT ![sp - 1] = w]
      BY <1>5 DEF Alloc
    <2>2. h \in Heaps /\ FreeListOK(h) /\ Kept(h, ws)
      BY <1>1, <1>5, CollectInv
    <2>3. h.free >= 0 \/ HasRoom(h)
      BY <1>5 DEF Available
    <2>4. a \in Grasp(h, ws) \cup {ETYPE_CLOSURE} /\ d \in Grasp(h, ws)
      <3>1. CASE ~CanCollect
        BY <1>2, <3>1
      <3>2. CASE CanCollect
        BY <1>2, <1>5, <3>2, CollectGrasp
      <3> QED
        BY <3>1, <3>2
    <2> HIDE DEF h
    <2>5. /\ g \in Heaps /\ FreeListOK(g) /\ w \in Words
          /\ \A vs : vs \subseteq ws \cup {w} => Kept(g, vs)
      BY <1>1, <2>2, <2>3, <2>4, AllocKeeps
    <2> HIDE DEF g, w
    <2>6. /\ LiveRoots' \subseteq ws \cup {w}
          /\ stack' \in [0 .. StackSize - 1 -> Words] /\ live' \subseteq 0 .. sp - 1
      BY <1>1, <1>3, <2>1, <2>5, LocalRoots
    <2>7. TypeOK'
      BY <1>1, <1>3, <2>1, <2>5, <2>6 DEF TypeOK, Heaps, roots
    <2> QED
      BY <2>1, <2>5, <2>6, <2>7 DEF HeapInv
  <1> QED
    BY <1>4, <1>5

\* The actions, by what they are called with.
LEMMA NextCases ==
  ASSUME Next
  PROVE  \/ reset_interpreter \/ Call \/ Return \/ gc_unprotect \/ Gc
         \/ \E w \in Operands : Local(w) \/ Define(w) \/ gc_protect(w)
         \/ \E w \in Operands : \E d \in Operands : SetCdr(w, d)
         \/ \E a \in Operands \cup {ETYPE_CLOSURE} : \E d \in Operands :
              \E tag \in {TAG_CONS, TAG_EXTENDED} : Alloc(a, d, tag)
  <1>1. \A w \in Operands : make_closure(w) =>
          \E a \in Operands \cup {ETYPE_CLOSURE} : \E d \in Operands :
            \E tag \in {TAG_CONS, TAG_EXTENDED} : Alloc(a, d, tag)
    BY DEF make_closure
  <1>2. \A w, d \in Operands : cons(w, d) =>
          \E a \in Operands \cup {ETYPE_CLOSURE} : \E e \in Operands :
            \E tag \in {TAG_CONS, TAG_EXTENDED} : Alloc(a, e, tag)
    BY DEF cons
  <1> QED
    BY <1>1, <1>2 DEF Next

LEMMA StepInv == HeapInv /\ [Next]_vars => HeapInv'
  <1> SUFFICES ASSUME HeapInv, [Next]_vars PROVE HeapInv'
    OBVIOUS
  <1>1. CASE UNCHANGED vars
    <2>1. TypeOK'
      BY <1>1 DEF HeapInv, TypeOK, vars, roots
    <2>2. heap' = heap /\ LiveRoots' = LiveRoots
      BY <1>1 DEF LiveRoots, vars, roots
    <2> QED
      BY <2>1, <2>2, OperandsInGrasp, SameHeapKeeps
  <1>2. CASE reset_interpreter \/ Call \/ Return \/ gc_unprotect \/ Gc
    BY <1>2, ResetInv, CallInv, ReturnInv, UnprotectInv, GcInv
  <1>3. ASSUME NEW w \in Operands, Local(w) \/ Define(w) \/ gc_protect(w) PROVE HeapInv'
    BY <1>3, LocalInv, DefineInv, ProtectInv
  <1>4. ASSUME NEW w \in Operands, NEW d \in Operands, SetCdr(w, d) PROVE HeapInv'
    BY <1>4, SetCdrInv
  <1>5. ASSUME NEW a \in Operands \cup {ETYPE_CLOSURE}, NEW d \in Operands,
               NEW tag \in {TAG_CONS, TAG_EXTENDED}, Alloc(a, d, tag)
        PROVE  HeapInv'
    BY <1>5, AllocInv
  <1>6. CASE Next
    BY <1>2, <1>3, <1>4, <1>5, <1>6, NextCases
  <1> QED
    BY <1>1, <1>6

\* heap.h and gc.h: the free list ascends through cells that the program cannot
\* reach, and what it can reach is in use and holds words.
THEOREM HeapInvariant == Spec => []HeapInv
  <1> QED
    BY InitInv, StepInv, PTL DEF Spec

LEMMA InvImpliesHeapOK == HeapInv => HeapOK
  <1> SUFFICES ASSUME HeapInv PROVE HeapOK
    OBVIOUS
  <1>1. LiveRoots \in SUBSET Words
    BY RootsAreWords DEF HeapInv
  <1>2. LiveIsKept
    BY <1>1 DEF HeapInv, Kept, UsedCells, LiveIsKept, LiveCells
  <1> QED
    BY <1>2 DEF HeapInv, HeapOK

\* gc.h: the scan never misses live pointers.  No cell the program can still reach is
\* ever free, and none holds a link, however the cells, the root stack and the stack
\* were filled, and however many collections there were.
THEOREM HeapCorrect == Spec => []HeapOK
  <1> QED
    BY HeapInvariant, InvImpliesHeapOK, PTL

\* gc_collect: the marks are exactly what the environment, the root stack and the words
\* of the stack that can be pointers reach; freed are the others.
THEOREM MarkedCorrect == Spec => [](Marked \cap Cells = Reachable(heap, ToSet(RootWords)))
  <1>1. HeapInv => Marked \cap Cells = Reachable(heap, ToSet(RootWords))
    BY MarkedIsReachable DEF HeapInv
  <1> QED
    BY <1>1, HeapInvariant, PTL

-----------------------------------------------------------------------------
(* The collections that the allocator asks for *)

LEMMA NoneLeft ==
  ASSUME HeapInv, CanCollect
  PROVE  heap.free = -1 /\ heap.next = HEAP_SIZE /\ UsedCells(heap) = Cells
  <1>1. heap \in Heaps
    BY RootsAreWords DEF HeapInv
  <1>2. heap.free = -1 /\ heap.next = HEAP_SIZE
    BY <1>1 DEF Heaps, Links, Cells, CanCollect, HasRoom
  <1>3. FreeCells(heap) \subseteq {}
    <2>1. {} \in SUBSET Cells /\ \A i \in {} : heap.cdr[i] \in {} \cup {-1}
      OBVIOUS
    <2> QED
      BY <1>2, <2>1, FreeLeast
  <1> QED
    BY <1>2, <1>3 DEF UsedCells, Cells

\* Every cell was given out and none holds -1: no mark strays.
LEMMA MarksStayIn ==
  ASSUME HeapInv, CanCollect
  PROVE  -1 \notin Marked
  <1>1. heap \in Heaps /\ TypeOK
    BY RootsAreWords DEF HeapInv
  <1>2. MarksOfRoots(Len(RootWords), Marked)
    BY <1>1, MarkedAre
  <1>3. \A w \in Values \ {-1} : Held(w, Cells)
    BY WordIndex DEF Values, Held
  <1>4. \A k \in 1 .. Len(RootWords) : Held(RootWords[k], Cells)
    <2>1. \A k \in 1 .. Len(RootWords) : RootWords[k] \in Words
      BY <1>1, RootsAre
    <2> QED
      BY <1>3, <2>1, WordSets DEF Values
  <1>5. HoldsItsOwn(Cells)
    <2>1. ASSUME NEW i \in Cells PROVE Held(heap.car[i], Cells) /\ Held(heap.cdr[i], Cells)
      <3>1. heap.cdr[i] # -1
        BY NoneLeft DEF HeapInv, FreeListOK
      <3>2. heap.car[i] \in Values \ {-1} /\ heap.cdr[i] \in Values
        BY <1>1, WordSets DEF Heaps, Values
      <3> QED
        BY <1>3, <3>1, <3>2
    <2> QED
      BY <2>1 DEF HoldsItsOwn
  <1>6. Marked \subseteq Cells
    BY <1>2, <1>4, <1>5, WordSets DEF MarksOfRoots
  <1> QED
    BY <1>6 DEF Cells

\* The interpreter gives up after a collection that frees nothing.
LEMMA OomStep ==
  ASSUME HeapInv, NEW a, NEW d, NEW tag, Alloc(a, d, tag), mode' = "oom"
  PROVE  OomIsFull'
  <1>1. heap \in Heaps /\ TypeOK /\ FreeListOK(heap)
    BY RootsAreWords DEF HeapInv
  <1>2. ~Available /\ UNCHANGED <<heap, stack, live, roots, sp>>
    BY DEF Alloc
  <1>3. CanCollect /\ ~(gc_collect.free >= 0)
    <2>1. heap.free < 0 \/ heap.free >= 0
      BY <1>1 DEF Heaps, Links, Cells
    <2> QED
      BY <1>2, <2>1 DEF Available, CanCollect
  <1>4. -1 \notin Marked
    BY <1>3, MarksStayIn
  <1>5. gc_collect.free = -1
    <2>1. gc_collect.free \in Links
      BY <1>1, <1>4, CollectHeap DEF Heaps
    <2> QED
      BY <1>3, <2>1 DEF Links, Cells
  <1>6. Unmarked = {} /\ heap.next = HEAP_SIZE
    BY <1>1, <1>3, <1>4, <1>5, CollectHeap, NoneLeft
  <1>7. Cells \subseteq Marked
    BY <1>6 DEF Unmarked, Cells
  <1>8. Cells = Reachable(heap, ToSet(RootWords))
    BY <1>1, <1>7, MarkedIsReachable
  <1>9. RootWords' = RootWords
    BY <1>2 DEF RootWords, Scanned, Plausible, roots
  <1> QED
    BY <1>2, <1>8, <1>9 DEF OomIsFull

\* Nothing is done after the interpreter gave up.
LEMMA OomInv == HeapInv /\ OomIsFull /\ [Next]_vars => OomIsFull'
  <1> SUFFICES ASSUME HeapInv, OomIsFull, [Next]_vars, mode' = "oom" PROVE OomIsFull'
    BY DEF OomIsFull
  <1>1. CASE UNCHANGED vars
    <2>1. RootWords' = RootWords /\ heap' = heap /\ mode' = mode
      BY <1>1 DEF RootWords, Scanned, Plausible, vars, roots
    <2> QED
      BY <2>1 DEF OomIsFull
  <1>2. CASE Next
    <2>1. CASE reset_interpreter \/ Call \/ Return \/ gc_unprotect \/ Gc
      BY <2>1 DEF reset_interpreter, Call, Return, gc_unprotect, Gc
    <2>2. ASSUME NEW w \in Operands, Local(w) \/ Define(w) \/ gc_protect(w) PROVE FALSE
      BY <2>2 DEF Local, Define, gc_protect
    <2>3. ASSUME NEW w \in Operands, NEW d \in Operands, SetCdr(w, d) PROVE FALSE
      BY <2>3 DEF SetCdr
    <2> QED
      BY <1>2, <2>1, <2>2, <2>3, NextCases, OomStep
  <1> QED
    BY <1>1, <1>2

\* heap.h "Out of memory": only when every cell can be reached from a root or from a
\* word of the stack that looks like a pointer.
THEOREM OomCorrect == Spec => []OomIsFull
  <1>1. Init => OomIsFull
    BY DEF Init, OomIsFull
  <1> QED
    BY <1>1, HeapInvariant, OomInv, PTL DEF Spec

\* gc.h: over-retains, and does no more.  A collection that the allocator asks for
\* writes no mark outside of heap_mark.
THEOREM StraysCorrect == Spec => StraysOnlyByGc
  <1> DEFINE A == mode' = "stray" => writes' = writes
  <1>1. ASSUME HeapInv, [Next]_vars PROVE [A]_vars
    <2>1. CASE UNCHANGED vars
      BY <2>1
    <2>2. CASE Next
      <3>1. CASE reset_interpreter \/ Call \/ Return \/ gc_unprotect \/ Gc
        BY <3>1 DEF reset_interpreter, Call, Return, gc_unprotect, Gc
      <3>2. ASSUME NEW w \in Operands, Local(w) \/ Define(w) \/ gc_protect(w) PROVE A
        BY <3>2 DEF Local, Define, gc_protect
      <3>3. ASSUME NEW w \in Operands, NEW d \in Operands, SetCdr(w, d) PROVE A
        BY <3>3 DEF SetCdr
      <3>4. ASSUME NEW a \in Operands \cup {ETYPE_CLOSURE}, NEW d \in Operands,
                   NEW tag \in {TAG_CONS, TAG_EXTENDED}, Alloc(a, d, tag)
            PROVE  A
        <4>1. ~(CanCollect /\ -1 \in Marked)
          BY <1>1, MarksStayIn
        <4> QED
          BY <3>4, <4>1 DEF Alloc
      <3> QED
        BY <2>2, <3>1, <3>2, <3>3, <3>4, NextCases
    <2> QED
      BY <1>1, <2>1, <2>2
  <1> QED
    BY <1>1, HeapInvariant, PTL DEF Spec, StraysOnlyByGc
=============================================================================
