--------------------------- MODULE UartEcho_proofs ---------------------------
(***************************************************************************)
(* For a ring of any size and any number of bytes: the echo of UartEcho    *)
(* keeps its ring a queue (TypeCorrect, RingCorrect) and implements the    *)
(* FIFO of EchoFifo (ImplementsFifo).                                      *)
(***************************************************************************)
EXTENDS UartEcho, TLAPS

\* Advancing an index of the ring by one is adding one, or going back to 0.
LEMMA AfterIs ==
  ASSUME NEW i \in Index
  PROVE  After(i) = IF i + 1 = BUFSZ THEN 0 ELSE i + 1
  BY UartEchoAssumption, SMT DEF After, Index

\* Advancing stays in the ring.
LEMMA AfterInIndex ==
  ASSUME NEW i \in Index
  PROVE  After(i) \in Index
  BY UartEchoAssumption, AfterIs DEF Index

\* The initial state satisfies the inductive invariant: the ring is empty.
LEMMA InitOrdered == Init => Ordered
<1> SUFFICES ASSUME Init PROVE Ordered
  OBVIOUS
<1>1. TypeOK
  <2>1. 0 \in Index /\ 0 \in 0 .. MaxBytes
    BY UartEchoAssumption DEF Index
  <2>2. cbuf \in [Index -> Nat]
    BY DEF Init
  <2> QED
    BY <2>1, <2>2, Zenon DEF Init, TypeOK
<1>2. Waiting = 0 /\ Taken = 0
  BY DEF Init, Waiting, Taken
<1>3. RingIsFifo
  BY <1>2 DEF Init, RingIsFifo
<1>4. MainHolds
  BY DEF Init, MainHolds
<1> QED
  BY <1>1, <1>3, <1>4 DEF Ordered

\* The bytes in the ring leave one place free: the one at widx, which comes after
\* them all.
LEMMA WaitingBounds ==
  ASSUME TypeOK
  PROVE  /\ Waiting \in 0 .. BUFSZ - 1
         /\ Place(Waiting) = widx
         /\ Waiting = 0 <=> ridx = widx
         /\ Full <=> Waiting = BUFSZ - 1
<1>1. BUFSZ \in Nat /\ BUFSZ > 1 /\ ridx \in Int /\ widx \in Int
      /\ 0 <= ridx /\ ridx < BUFSZ /\ 0 <= widx /\ widx < BUFSZ
  BY UartEchoAssumption DEF TypeOK, Index
<1>2. Waiting \in 0 .. BUFSZ - 1
  BY <1>1 DEF Waiting
<1>3. Place(Waiting) = widx
  BY <1>1 DEF Waiting, Place
<1>4. Waiting = 0 <=> ridx = widx
  BY <1>1 DEF Waiting
<1>5. After(widx) = IF widx + 1 = BUFSZ THEN 0 ELSE widx + 1
  BY AfterIs DEF TypeOK
<1>6. Full <=> Waiting = BUFSZ - 1
  BY <1>1, <1>5 DEF Full, Waiting
<1> QED
  BY <1>2, <1>3, <1>4, <1>6

\* A byte that waits is in another place than the free one.
LEMMA PlaceBounds ==
  ASSUME TypeOK, NEW k \in 0 .. Waiting - 1
  PROVE  Place(k) \in Index /\ Place(k) # widx
<1>1. BUFSZ \in Nat /\ BUFSZ > 1 /\ ridx \in Int /\ widx \in Int
      /\ 0 <= ridx /\ ridx < BUFSZ /\ 0 <= widx /\ widx < BUFSZ
  BY UartEchoAssumption DEF TypeOK, Index
<1> QED
  BY <1>1 DEF Waiting, Place, Index

-----------------------------------------------------------------------------
(* One lemma per action: it keeps the inductive invariant. *)

\* A byte arrives.
LEMMA ArriveStep == Ordered /\ Arrive => Ordered'
<1> SUFFICES ASSUME Ordered, Arrive PROVE Ordered'
  OBVIOUS
<1> USE DEF Ordered
<1>1. TypeOK'
  BY UartEchoAssumption DEF TypeOK, Arrive, ring, main
<1>2. Waiting' = Waiting /\ Taken' = Taken /\ (\A k : Place(k)' = Place(k)) /\ Waiting \in Int /\ Taken \in Int
  BY WaitingBounds DEF Arrive, Waiting, Taken, Place, ring, main, TypeOK
<1>3. RingIsFifo'
  BY <1>2 DEF RingIsFifo, Arrive, ring, main, TypeOK
<1>4. MainHolds'
  BY <1>2 DEF MainHolds, Arrive, ring, main
<1> QED
  BY <1>1, <1>3, <1>4

\* The interrupt: with room, the byte becomes the last one waiting.
LEMMA InterruptStep == Ordered /\ Interrupt => Ordered'
<1> SUFFICES ASSUME Ordered, Interrupt PROVE Ordered'
  OBVIOUS
<1> USE DEF Ordered
<1>1. CASE Full /\ enabled' = FALSE /\ UNCHANGED <<uart, ring>>
  <2> UNCHANGED <<arrived, echo, main>>
    BY DEF Interrupt, Restored
  <2>1. TypeOK'
    BY <1>1 DEF TypeOK, ring, main
  <2>2. Waiting' = Waiting /\ Taken' = Taken /\ (\A k : Place(k)' = Place(k))
    BY <1>1 DEF Waiting, Taken, Place, ring, main
  <2>3. RingIsFifo'
    BY <1>1, <2>2 DEF RingIsFifo, ring
  <2>4. MainHolds'
    BY <2>2 DEF MainHolds, main
  <2> QED
    BY <2>1, <2>3, <2>4
<1>2. CASE /\ ~Full /\ cbuf' = [cbuf EXCEPT ![widx] = uart] /\ widx' = After(widx)
           /\ uart' = 0 /\ UNCHANGED <<enabled, ridx>>
  <2> UNCHANGED <<arrived, echo, main>> /\ uart # 0
    BY DEF Interrupt, Restored
  <2>1. TypeOK'
    <3>1. After(widx) \in Index
      BY AfterInIndex DEF TypeOK
    <3>2. cbuf' \in [Index -> Nat]
      BY <1>2 DEF TypeOK
    <3> QED
      BY <1>2, <3>1, <3>2 DEF TypeOK, main
  <2>2. BUFSZ \in Nat /\ BUFSZ > 1 /\ ridx \in Int /\ widx \in Int
        /\ 0 <= ridx /\ ridx < BUFSZ /\ 0 <= widx /\ widx < BUFSZ
    BY UartEchoAssumption DEF TypeOK, Index
  <2>3. widx' = IF widx + 1 = BUFSZ THEN 0 ELSE widx + 1
    BY <1>2, AfterIs DEF TypeOK
  <2>4. Waiting # BUFSZ - 1 /\ Waiting \in 0 .. BUFSZ - 1 /\ Place(Waiting) = widx
    BY <1>2, WaitingBounds
  <2>5. Waiting' = Waiting + 1
    BY <1>2, <2>2, <2>3, <2>4 DEF Waiting
  <2>6. Taken' = Taken /\ Taken \in Nat /\ (\A k : Place(k)' = Place(k))
    BY <1>2 DEF Taken, Place, main, TypeOK
  <2>7. RingIsFifo'
    <3>1. arrived = Taken + Waiting + 1 /\ uart = arrived
      BY DEF RingIsFifo
    <3>2. arrived' = Taken' + Waiting' + (IF uart' = 0 THEN 0 ELSE 1)
      BY <1>2, <2>4, <2>5, <2>6, <3>1
    <3>3. ASSUME NEW k \in 0 .. Waiting' - 1
          PROVE  cbuf'[Place(k)'] = Taken' + k + 1
      <4>1. CASE k = Waiting
        <5>1. Place(k)' = widx
          BY <2>4, <2>6, <4>1
        <5>2. cbuf'[widx] = uart
          BY <1>2 DEF TypeOK
        <5> QED
          BY <2>4, <2>6, <3>1, <4>1, <5>1, <5>2
      <4>2. CASE k # Waiting
        <5>1. k \in 0 .. Waiting - 1
          BY <2>4, <2>5, <4>2
        <5>2. Place(k) \in Index /\ Place(k) # widx
          BY <5>1, PlaceBounds
        <5>3. cbuf'[Place(k)] = cbuf[Place(k)]
          BY <1>2, <5>2 DEF TypeOK
        <5>4. cbuf[Place(k)] = Taken + k + 1
          BY <5>1 DEF RingIsFifo
        <5> QED
          BY <2>6, <5>3, <5>4
      <4> QED
        BY <4>1, <4>2
    <3> QED
      BY <1>2, <3>2, <3>3 DEF RingIsFifo
  <2>8. MainHolds'
    BY <2>4, <2>5 DEF MainHolds, main
  <2> QED
    BY <2>1, <2>7, <2>8
<1> QED
  BY <1>1, <1>2 DEF Interrupt

\* What main does without moving the ring or its bytes.
LEMMA StillStep ==
  Ordered /\ (Compare \/ Branch \/ Enable) => Ordered'
<1> SUFFICES ASSUME Ordered, Compare \/ Branch \/ Enable PROVE Ordered'
  OBVIOUS
<1> USE DEF Ordered
<1>1. TypeOK'
  BY DEF TypeOK, Compare, Branch, Enable, ring
<1>2. Waiting' = Waiting /\ Taken' = Taken /\ (\A k : Place(k)' = Place(k))
  BY DEF Waiting, Taken, Place, Compare, Branch, Enable, ring
<1>3. RingIsFifo'
  BY <1>2 DEF RingIsFifo, Compare, Branch, Enable, ring
<1>4. Waiting \in Nat /\ (Waiting = 0 <=> ridx = widx)
  BY WaitingBounds DEF TypeOK
<1>5. MainHolds'
  <2>1. CASE Compare
    <3>1. pc' = "branch" /\ (~flag' => ridx # widx)
      BY <2>1 DEF Compare
    <3> QED
      BY <1>2, <1>4, <3>1 DEF MainHolds
  <2>2. CASE Branch
    <3>1. pc = "branch" /\ pc' \in {"enable", "take"} /\ (pc' = "take" => ~flag)
      BY <2>2 DEF Branch
    <3> QED
      BY <1>2, <3>1 DEF MainHolds
  <2>3. CASE Enable
    BY <2>3 DEF MainHolds, Enable
  <2> QED
    BY <2>1, <2>2, <2>3
<1> QED
  BY <1>1, <1>3, <1>5

\* main reads the first byte that waits.
LEMMA TakeStep == Ordered /\ Take => Ordered' /\ c' = echo + 1
<1> SUFFICES ASSUME Ordered, Take PROVE Ordered' /\ c' = echo + 1
  OBVIOUS
<1> USE DEF Ordered
<1>1. Waiting' = Waiting /\ Taken' = Taken /\ (\A k : Place(k)' = Place(k)) /\ Taken = echo
  BY DEF Waiting, Taken, Place, Take, ring
<1>2. Waiting > 0 /\ Waiting \in Nat
  BY WaitingBounds DEF MainHolds, Take
<1>3. Place(0) = ridx
  BY UartEchoAssumption DEF Place, TypeOK, Index
<1>4. c' = echo + 1
  BY <1>1, <1>2, <1>3 DEF RingIsFifo, Take, TypeOK
<1>5. TypeOK'
  BY <1>4 DEF TypeOK, Take, ring
<1>6. RingIsFifo'
  BY <1>1 DEF RingIsFifo, Take, ring
<1>7. MainHolds'
  BY <1>1, <1>2, <1>4 DEF MainHolds, Take
<1> QED
  BY <1>4, <1>5, <1>6, <1>7

\* main leaves that byte's place to the interrupt.
LEMMA AdvanceStep == Ordered /\ Advance => Ordered'
<1> SUFFICES ASSUME Ordered, Advance PROVE Ordered'
  OBVIOUS
<1> USE DEF Ordered
<1>1. TypeOK'
  BY AfterInIndex DEF TypeOK, Advance
<1>2. BUFSZ \in Nat /\ BUFSZ > 1 /\ ridx \in Int /\ widx \in Int
      /\ 0 <= ridx /\ ridx < BUFSZ /\ 0 <= widx /\ widx < BUFSZ
  BY UartEchoAssumption DEF TypeOK, Index
<1>3. ridx' = (IF ridx + 1 = BUFSZ THEN 0 ELSE ridx + 1) /\ widx' = widx
  BY AfterIs DEF TypeOK, Advance
<1>4. Waiting > 0 /\ Waiting \in Nat
  BY WaitingBounds DEF MainHolds, Advance
<1>5. Waiting' = Waiting - 1
  BY <1>2, <1>3, <1>4 DEF Waiting
<1>6. Taken' = Taken + 1 /\ Taken = echo /\ echo \in Nat
  BY DEF Taken, Advance, TypeOK
<1>7. RingIsFifo'
  <2>1. arrived' = Taken' + Waiting' + (IF uart' = 0 THEN 0 ELSE 1) /\ (uart' # 0 => uart' = arrived')
    BY <1>4, <1>5, <1>6 DEF RingIsFifo, Advance
  <2>2. ASSUME NEW k \in 0 .. Waiting' - 1
        PROVE  cbuf'[Place(k)'] = Taken' + k + 1
    <3>1. k + 1 \in 0 .. Waiting - 1
      BY <1>4, <1>5
    <3>2. Waiting <= BUFSZ - 1
      BY WaitingBounds
    <3>3. Place(k)' = Place(k + 1)
      BY <1>2, <1>3, <1>4, <3>1, <3>2 DEF Place
    <3>4. cbuf[Place(k + 1)] = Taken + (k + 1) + 1
      BY <3>1 DEF RingIsFifo
    <3> QED
      BY <1>6, <3>3, <3>4 DEF Advance
  <2> QED
    BY <2>1, <2>2 DEF RingIsFifo
<1>8. MainHolds'
  BY <1>5 DEF MainHolds, Advance
<1> QED
  BY <1>1, <1>7, <1>8

\* main writes the byte back: it is the one after the last.
LEMMA PutStep == Ordered /\ Put => Ordered' /\ echo' = echo + 1
<1> SUFFICES ASSUME Ordered, Put PROVE Ordered' /\ echo' = echo + 1
  OBVIOUS
<1> USE DEF Ordered
<1>1. echo' = echo + 1
  BY DEF Put, MainHolds
<1>2. TypeOK'
  BY <1>1 DEF TypeOK, Put, ring
<1>3. Waiting' = Waiting /\ Taken' = Taken /\ (\A k : Place(k)' = Place(k))
  BY <1>1 DEF Waiting, Taken, Place, Put, ring
<1>4. RingIsFifo'
  BY <1>3 DEF RingIsFifo, Put, ring
<1>5. MainHolds'
  BY DEF MainHolds, Put
<1> QED
  BY <1>1, <1>2, <1>4, <1>5

\* Every step keeps the invariant.
LEMMA StepOrdered == Ordered /\ [Next]_vars => Ordered'
<1> SUFFICES ASSUME Ordered, [Next]_vars PROVE Ordered'
  OBVIOUS
<1>1. CASE UNCHANGED vars
  BY <1>1 DEF vars, ring, main, Ordered, TypeOK, RingIsFifo, MainHolds, Waiting, Place, Taken
<1>2. CASE Next
  BY <1>2, ArriveStep, InterruptStep, StillStep, TakeStep, AdvanceStep, PutStep DEF Next, Main
<1> QED
  BY <1>1, <1>2

\* The inductive invariant holds for a ring of any size.
THEOREM OrderedAlways == Spec => []Ordered
  BY InitOrdered, StepOrdered, PTL DEF Spec

\* uartcint.c: the indices never leave the ring.
THEOREM TypeCorrect == Spec => []TypeOK
<1>1. Ordered => TypeOK
  BY DEF Ordered
<1> QED
  BY <1>1, OrderedAlways, PTL

\* uartcint.c: the ring holds the bytes that wait, in order, and no byte is lost,
\* wherever interrupts come between main's accesses.
THEOREM RingCorrect == Spec => []RingIsFifo
<1>1. Ordered => RingIsFifo
  BY DEF Ordered
<1> QED
  BY <1>1, OrderedAlways, PTL

\* uartcint.c: main never writes back a byte but the one after its last.
THEOREM HoldsCorrect == Spec => []MainHolds
<1>1. Ordered => MainHolds
  BY DEF Ordered
<1> QED
  BY <1>1, OrderedAlways, PTL

-----------------------------------------------------------------------------
\* A step of the echo is one of the FIFO, or none.
LEMMA StepFifo == Ordered /\ [Next]_vars => [Fifo!Next]_<<arrived, echo>>
<1> SUFFICES ASSUME Ordered, [Next]_vars PROVE [Fifo!Next]_<<arrived, echo>>
  OBVIOUS
<1>1. CASE UNCHANGED vars
  BY <1>1 DEF vars
<1>2. CASE Arrive
  <2>1. Waiting \in 0 .. BUFSZ - 1 /\ Taken \in {echo, echo + 1} /\ echo \in Nat
    BY WaitingBounds DEF Ordered, TypeOK, Taken
  <2>2. arrived = Taken + Waiting /\ arrived \in Nat /\ BUFSZ \in Nat
    BY <1>2, <2>1, UartEchoAssumption DEF Arrive, Ordered, RingIsFifo, TypeOK
  <2>3. arrived - echo < BUFSZ + 1
    BY <2>1, <2>2
  <2> QED
    BY <1>2, <2>3 DEF Arrive, Fifo!Next, Fifo!Arrive
<1>3. CASE Put
  <2>1. echo' = echo + 1 /\ arrived' = arrived
    BY <1>3, PutStep DEF Put
  <2>2. Waiting \in Nat /\ Taken = echo + 1 /\ echo \in Nat
    BY <1>3, WaitingBounds DEF Ordered, TypeOK, Taken, Put
  <2>3. echo < arrived
    BY <2>2 DEF Ordered, RingIsFifo
  <2> QED
    BY <2>1, <2>3 DEF Fifo!Next, Fifo!Echo
<1>4. CASE Interrupt \/ Compare \/ Branch \/ Take \/ Advance \/ Enable
  BY <1>4 DEF Interrupt, Compare, Branch, Take, Advance, Enable
<1> QED
  BY <1>1, <1>2, <1>3, <1>4 DEF Next, Main

\* uartcint.c: the echo with its ring, its interrupt and main's separate accesses
\* implements a first-in, first-out queue of BUFSZ + 1 bytes.
THEOREM ImplementsFifo == Spec => IsFifo
<1>1. Init => Fifo!Init
  BY DEF Init, Fifo!Init
<1> QED
  BY <1>1, StepFifo, OrderedAlways, PTL DEF Spec, IsFifo, Fifo!Spec
=============================================================================
