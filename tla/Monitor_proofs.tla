--------------------------- MODULE Monitor_proofs ---------------------------
(***************************************************************************)
(* For a ring of any size, any keys and any number of typed bytes: the     *)
(* resident monitors with their receive interrupt and their brokers        *)
(* implement the console of module Console.                                *)
(***************************************************************************)
EXTENDS Monitor, SequenceTheorems, TLAPS

\* A broker that read the flag and found the ring filled goes on to take a byte:
\* interrupts only add bytes, and write to another slot than the one it reads.
BrokerHolds ==
  /\ pc \in {"data", "store"} => head # tail
  /\ pc = "store" => r0 = ring[tail]

RingInv == TypeOK /\ BrokerHolds

-----------------------------------------------------------------------------
(* The ring, for any two indices and any contents *)

Contents == [Index -> Byte \cup {NoByte}]

UsedOf(h, t) == IF h >= t THEN h - t ELSE h + RingSize - t
SlotOf(t, i) == IF t + i < RingSize THEN t + i ELSE t + i - RingSize
WaitingOf(h, t, r) == [i \in 1 .. UsedOf(h, t) |-> r[SlotOf(t, i - 1)]]

LEMMA AfterIs ==
  ASSUME NEW i \in Index
  PROVE  After(i) \in Index /\ After(i) = IF i + 1 = RingSize THEN 0 ELSE i + 1
  BY MonitorAssumption DEF After, Index

\* What waits leaves one slot free, and that slot is where the next byte goes.
LEMMA UsedBounds ==
  ASSUME NEW h \in Index, NEW t \in Index
  PROVE  /\ UsedOf(h, t) \in Nat /\ UsedOf(h, t) <= RingSize - 1
         /\ SlotOf(t, UsedOf(h, t)) = h
         /\ UsedOf(h, t) = 0 <=> h = t
         /\ After(h) = t <=> UsedOf(h, t) = RingSize - 1
         /\ \A i \in 0 .. UsedOf(h, t) - 1 : SlotOf(t, i) \in Index /\ SlotOf(t, i) # h
         /\ SlotOf(t, 0) = t
  <1>1. /\ RingSize \in Nat /\ RingSize > 1 /\ h \in Nat /\ t \in Nat
        /\ h < RingSize /\ t < RingSize
    BY MonitorAssumption DEF Index
  <1>2. UsedOf(h, t) \in Nat /\ UsedOf(h, t) <= RingSize - 1
    BY <1>1 DEF UsedOf
  <1>3. SlotOf(t, UsedOf(h, t)) = h
    BY <1>1 DEF UsedOf, SlotOf
  <1>4. UsedOf(h, t) = 0 <=> h = t
    BY <1>1 DEF UsedOf
  <1>5. After(h) = IF h + 1 = RingSize THEN 0 ELSE h + 1
    BY AfterIs
  <1>6. After(h) = t <=> UsedOf(h, t) = RingSize - 1
    BY <1>1, <1>5 DEF UsedOf
  <1>7. \A i \in 0 .. UsedOf(h, t) - 1 : SlotOf(t, i) \in Index /\ SlotOf(t, i) # h
    BY <1>1 DEF UsedOf, SlotOf, Index
  <1>8. SlotOf(t, 0) = t
    BY <1>1 DEF SlotOf
  <1> QED
    BY <1>2, <1>3, <1>4, <1>6, <1>7, <1>8

\* The bytes that wait are a sequence.
LEMMA WaitingIsSeq ==
  ASSUME NEW h \in Index, NEW t \in Index, NEW r \in Contents
  PROVE  /\ WaitingOf(h, t, r) \in Seq(Byte \cup {NoByte})
         /\ Len(WaitingOf(h, t, r)) = UsedOf(h, t)
         /\ \A i \in 1 .. UsedOf(h, t) : WaitingOf(h, t, r)[i] = r[SlotOf(t, i - 1)]
  <1> DEFINE u == UsedOf(h, t)
  <1>1. u \in Nat
    BY UsedBounds
  <1>2. \A i \in 1 .. u : r[SlotOf(t, i - 1)] \in Byte \cup {NoByte}
    <2>1. ASSUME NEW i \in 1 .. u PROVE SlotOf(t, i - 1) \in Index
      <3>1. i - 1 \in 0 .. u - 1
        BY <1>1
      <3> QED
        BY <3>1, UsedBounds
    <2> QED
      BY <2>1 DEF Contents
  <1>3. WaitingOf(h, t, r) = [i \in 1 .. u |-> r[SlotOf(t, i - 1)]]
    BY DEF WaitingOf
  <1> HIDE DEF u
  <1>4. WaitingOf(h, t, r) \in [1 .. u -> Byte \cup {NoByte}]
    BY <1>2, <1>3
  <1>5. \A i \in 1 .. u : WaitingOf(h, t, r)[i] = r[SlotOf(t, i - 1)]
    BY <1>3
  <1>6. WaitingOf(h, t, r) \in Seq(Byte \cup {NoByte}) /\ Len(WaitingOf(h, t, r)) = u
    BY <1>1, <1>4
  <1> QED
    BY <1>5, <1>6 DEF u

\* Storing a byte in the free slot appends it to what waits.
LEMMA StoreAppends ==
  ASSUME NEW h \in Index, NEW t \in Index, NEW r \in Contents, NEW b \in Byte, After(h) # t
  PROVE  /\ WaitingOf(After(h), t, [r EXCEPT ![h] = b]) = Append(WaitingOf(h, t, r), b)
         /\ [r EXCEPT ![h] = b] \in Contents
  <1> DEFINE u == UsedOf(h, t)  n == After(h)  q == [r EXCEPT ![h] = b]
             old == WaitingOf(h, t, r)  new == WaitingOf(n, t, q)
  <1>1. /\ RingSize \in Nat /\ RingSize > 1 /\ h \in Nat /\ t \in Nat /\ h < RingSize /\ t < RingSize
        /\ n = IF h + 1 = RingSize THEN 0 ELSE h + 1
    BY AfterIs, MonitorAssumption DEF Index
  <1>2. u \in Nat /\ u # RingSize - 1 /\ u <= RingSize - 1 /\ SlotOf(t, u) = h
    BY UsedBounds
  <1>3. UsedOf(n, t) = u + 1
    BY <1>1, <1>2 DEF UsedOf
  <1>4. q \in Contents /\ q[h] = b /\ \A i \in Index : i # h => q[i] = r[i]
    BY DEF Contents
  <1>5. n \in Index
    BY AfterIs
  <1> HIDE DEF q, n
  <1>6. /\ new \in Seq(Byte \cup {NoByte}) /\ Len(new) = u + 1
        /\ \A i \in 1 .. u + 1 : new[i] = q[SlotOf(t, i - 1)]
    BY <1>3, <1>4, <1>5, WaitingIsSeq
  <1>7. old \in Seq(Byte \cup {NoByte}) /\ Len(old) = u /\ \A i \in 1 .. u : old[i] = r[SlotOf(t, i - 1)]
    BY WaitingIsSeq
  <1>8. \A i \in 0 .. u - 1 : SlotOf(t, i) \in Index /\ SlotOf(t, i) # h
    BY UsedBounds
  <1> HIDE DEF old, new, u
  <1>9. \A i \in 1 .. u : new[i] = old[i]
    <2>1. \A i \in 1 .. u : i - 1 \in 0 .. u - 1 /\ i \in 1 .. u + 1
      BY <1>2
    <2> QED
      BY <1>4, <1>6, <1>7, <1>8, <2>1
  <1>10. new[u + 1] = b
    <2>1. u + 1 \in 1 .. u + 1 /\ (u + 1) - 1 = u
      BY <1>2
    <2> QED
      BY <1>2, <1>4, <1>6, <2>1
  <1>11. /\ Append(old, b) \in Seq(Byte \cup {NoByte}) /\ Len(Append(old, b)) = u + 1
         /\ \A i \in 1 .. u : Append(old, b)[i] = old[i]
         /\ Append(old, b)[u + 1] = b
    BY <1>7, AppendProperties
  <1>12. \A i \in 1 .. u + 1 : i \in 1 .. u \/ i = u + 1
    BY <1>2
  <1>13. new = Append(old, b)
    BY <1>6, <1>9, <1>10, <1>11, <1>12, SeqEqual
  <1> QED
    BY <1>4, <1>13 DEF new, old, q, n

\* Moving the tail drops the byte that waited longest.
LEMMA MoveDrops ==
  ASSUME NEW h \in Index, NEW t \in Index, NEW r \in Contents, h # t
  PROVE  /\ WaitingOf(h, t, r) # <<>> /\ Head(WaitingOf(h, t, r)) = r[t]
         /\ WaitingOf(h, After(t), r) = Tail(WaitingOf(h, t, r))
  <1> DEFINE u == UsedOf(h, t)  n == After(t)
             old == WaitingOf(h, t, r)  new == WaitingOf(h, n, r)
  <1>1. /\ RingSize \in Nat /\ RingSize > 1 /\ h \in Nat /\ t \in Nat /\ h < RingSize /\ t < RingSize
        /\ n = IF t + 1 = RingSize THEN 0 ELSE t + 1
    BY AfterIs, MonitorAssumption DEF Index
  <1>2. u \in Nat /\ u # 0 /\ u <= RingSize - 1 /\ SlotOf(t, 0) = t
    BY UsedBounds
  <1>3. UsedOf(h, n) = u - 1
    BY <1>1, <1>2 DEF UsedOf
  <1>4. ASSUME NEW i \in 1 .. u - 1 PROVE SlotOf(n, i - 1) = SlotOf(t, (i + 1) - 1)
    <2>1. i \in Nat /\ i >= 1 /\ i < RingSize
      BY <1>1, <1>2
    <2> QED
      BY <1>1, <2>1 DEF SlotOf
  <1>5. n \in Index
    BY AfterIs
  <1> HIDE DEF n
  <1>6. /\ new \in Seq(Byte \cup {NoByte}) /\ Len(new) = u - 1
        /\ \A i \in 1 .. u - 1 : new[i] = r[SlotOf(n, i - 1)]
    BY <1>3, <1>5, WaitingIsSeq
  <1>7. old \in Seq(Byte \cup {NoByte}) /\ Len(old) = u /\ \A i \in 1 .. u : old[i] = r[SlotOf(t, i - 1)]
    BY WaitingIsSeq
  <1> HIDE DEF old, new, u
  <1>8. old # <<>> /\ Head(old) = old[1] /\ old[1] = r[t]
    <2>1. 1 \in 1 .. u /\ 1 - 1 = 0
      BY <1>2
    <2> QED
      BY <1>2, <1>7, <2>1
  <1>9. /\ Tail(old) \in Seq(Byte \cup {NoByte}) /\ Len(Tail(old)) = u - 1
        /\ \A i \in 1 .. u - 1 : Tail(old)[i] = old[i + 1]
    BY <1>7, <1>8, HeadTailProperties
  <1>10. \A i \in 1 .. u - 1 : new[i] = Tail(old)[i]
    <2>1. \A i \in 1 .. u - 1 : i + 1 \in 1 .. u
      BY <1>2
    <2> QED
      BY <1>4, <1>6, <1>7, <1>9, <2>1
  <1>11. new = Tail(old)
    BY <1>6, <1>9, <1>10, SeqEqual
  <1> QED
    BY <1>8, <1>11 DEF new, old, n

\* The names of the model are these, before and after a step.
LEMMA WaitingIs ==
  /\ Waiting = WaitingOf(head, tail, ring) /\ Waiting' = WaitingOf(head', tail', ring')
  /\ IsFull <=> After(head) = tail
  BY DEF Waiting, WaitingOf, Used, UsedOf, Slot, SlotOf, IsFull

-----------------------------------------------------------------------------
(* The invariant, action by action *)

LEMMA RingStarts == Init => RingInv
  <1> SUFFICES ASSUME Init PROVE RingInv
    OBVIOUS
  <1>1. 0 \in Index /\ 0 \in 0 .. MaxTyped
    BY MonitorAssumption DEF Index
  <1>2. ring \in [Index -> Byte \cup {NoByte}]
    BY DEF Init
  <1> QED
    BY <1>1, <1>2 DEF Init, RingInv, TypeOK, BrokerHolds

\* The interrupt writes to the free slot only, which is not the one being read.
LEMMA IsrKeeps == RingInv /\ uart_isr => RingInv'
  <1> SUFFICES ASSUME RingInv, uart_isr PROVE RingInv'
    OBVIOUS
  <1> USE DEF RingInv
  <1>0. UNCHANGED <<plsw, enabled, skip, pc, app, r0, given, typed>> /\ uart' = NoByte /\ uart \in Byte /\ tail' = tail
    BY DEF uart_isr, TypeOK, buffer
  <1>1. CASE uart # Attention /\ ~IsFull /\ ring' = [ring EXCEPT ![head] = uart] /\ head' = After(head) /\ flag' = flag
    <2>1. head \in Index /\ tail \in Index /\ ring \in [Index -> Byte \cup {NoByte}]
      BY DEF TypeOK
    <2>2. After(head) \in Index /\ After(head) # tail
      BY <1>1, <2>1, AfterIs DEF IsFull
    <2>3. ring' \in [Index -> Byte \cup {NoByte}] /\ (head # tail => ring'[tail] = ring[tail])
      BY <1>0, <1>1, <2>1
    <2>4. TypeOK'
      BY <1>0, <1>1, <2>2, <2>3 DEF TypeOK
    <2>5. BrokerHolds'
      BY <1>0, <1>1, <2>2, <2>3 DEF BrokerHolds
    <2> QED
      BY <2>4, <2>5
  <1>2. CASE UNCHANGED buffer /\ flag' \in {flag, TRUE}
    BY <1>0, <1>2 DEF TypeOK, BrokerHolds, buffer
  <1> QED
    BY <1>1, <1>2 DEF uart_isr, buffer

\* The menu runs with the interrupt off, and an application starts with an empty ring.
LEMMA MenuKeeps == RingInv /\ (Type \/ monitor_abort \/ menu \/ launch_app) => RingInv'
  <1> SUFFICES ASSUME RingInv, Type \/ monitor_abort \/ menu \/ launch_app PROVE RingInv'
    OBVIOUS
  <1> USE DEF RingInv
  <1>1. CASE Type
    <2>1. typed' \in 0 .. MaxTyped
      BY <1>1, MonitorAssumption DEF TypeOK, Type
    <2> QED
      BY <1>1, <2>1 DEF TypeOK, BrokerHolds, Type, buffer
  <1>2. CASE monitor_abort
    <2>1. (flag /\ plsw) \in BOOLEAN
      OBVIOUS
    <2> QED
      BY <1>2, <2>1 DEF TypeOK, BrokerHolds, monitor_abort, buffer
  <1>3. CASE menu
    BY <1>3 DEF TypeOK, BrokerHolds, menu, buffer
  <1>4. CASE launch_app
    <2>1. 0 \in Index /\ App[uart] \in {"repl", "batch"}
      BY <1>4, MonitorAssumption DEF Index, launch_app
    <2> QED
      BY <1>4, <2>1 DEF TypeOK, BrokerHolds, launch_app, buffer
  <1> QED
    BY <1>1, <1>2, <1>3, <1>4

\* A broker moves the tail only.
LEMMA BrokerKeeps == RingInv /\ (AskForByte \/ BatchEnds \/ Getc) => RingInv'
  <1> SUFFICES ASSUME RingInv, AskForByte \/ BatchEnds \/ Getc PROVE RingInv'
    OBVIOUS
  <1> USE DEF RingInv
  <1>1. CASE AskForByte \/ BatchEnds
    BY <1>1 DEF TypeOK, BrokerHolds, AskForByte, BatchEnds, Goto, Rest, buffer
  <1>2. CASE TestFlag
    BY <1>2 DEF TypeOK, BrokerHolds, TestFlag, Goto, Rest, buffer
  <1>3. CASE PollRing
    BY <1>3 DEF TypeOK, BrokerHolds, PollRing, IsEmpty, Wait, Goto, Rest, buffer
  <1>4. CASE ReadByte
    BY <1>4 DEF TypeOK, BrokerHolds, ReadByte, Goto, Rest, buffer
  <1>5. CASE StoreTail
    <2>1. After(tail) \in Index
      BY AfterIs DEF TypeOK
    <2> QED
      BY <1>5, <2>1 DEF TypeOK, BrokerHolds, StoreTail, Wait, Rest
  <1> QED
    BY <1>1, <1>2, <1>3, <1>4, <1>5 DEF Getc

LEMMA RingKeeps == RingInv /\ [Next]_vars => RingInv'
  <1>1. RingInv /\ UNCHANGED vars => RingInv'
    BY DEF vars, buffer, RingInv, TypeOK, BrokerHolds
  <1> QED
    BY <1>1, IsrKeeps, MenuKeeps, BrokerKeeps DEF Next

\* The ring is a ring, for every interleaving of interrupt and brokers.
THEOREM RingInvariant == Spec => []RingInv
  BY RingStarts, RingKeeps, PTL DEF Spec

\* monitor.s: the indices stay in the ring, and the menu runs with interrupts off.
THEOREM TypeCorrect == Spec => []TypeOK
  <1>1. RingInv => TypeOK
    BY DEF RingInv
  <1> QED
    BY <1>1, RingInvariant, PTL

-----------------------------------------------------------------------------
(* The refinement, action by action *)

\* The interrupt is what receives a byte.
LEMMA IsrReceives == RingInv /\ uart_isr => Console!Receive
  <1> SUFFICES ASSUME RingInv, uart_isr PROVE Console!Receive
    OBVIOUS
  <1>1. /\ enabled /\ uart # NoByte /\ uart' = NoByte /\ tail' = tail
        /\ UNCHANGED <<plsw, enabled, skip, pc, app, r0, given, typed>>
    BY DEF uart_isr, buffer
  <1>2. Mode = "app" /\ Mode' = Mode /\ Asked' = Asked
    BY <1>1 DEF RingInv, TypeOK, Mode, Asked
  <1>3. uart \in Byte /\ head \in Index /\ tail \in Index /\ ring \in Contents
    BY <1>1 DEF RingInv, TypeOK, Contents
  <1>4. Len(Waiting) = UsedOf(head, tail) /\ UsedOf(head, tail) \in Nat /\ UsedOf(head, tail) <= RingSize - 1
    BY <1>3, WaitingIs, WaitingIsSeq, UsedBounds
  <1>5. IsFull <=> Len(Waiting) = RingSize - 1
    BY <1>3, <1>4, WaitingIs, UsedBounds
  <1>6. Len(Waiting) < RingSize - 1 <=> ~IsFull
    BY <1>4, <1>5, MonitorAssumption
  <1>7. CASE uart = Attention /\ flag' = TRUE /\ UNCHANGED buffer
    BY <1>1, <1>2, <1>7, WaitingIs DEF Console!Receive, buffer
  <1>8. CASE uart # Attention /\ IsFull /\ UNCHANGED <<buffer, flag>>
    BY <1>1, <1>2, <1>6, <1>8, WaitingIs DEF Console!Receive, buffer
  <1>9. CASE uart # Attention /\ ~IsFull /\ ring' = [ring EXCEPT ![head] = uart] /\ head' = After(head) /\ flag' = flag
    <2>1. After(head) # tail
      BY <1>9 DEF IsFull
    <2>2. Waiting' = Append(Waiting, uart)
      BY <1>1, <1>3, <1>9, <2>1, WaitingIs, StoreAppends
    <2> QED
      BY <1>1, <1>2, <1>6, <1>9, <2>2 DEF Console!Receive
  <1> QED
    BY <1>7, <1>8, <1>9 DEF uart_isr

\* The monitor brings the menu back and starts what is chosen.
LEMMA MenuChooses ==
  RingInv /\ (Type \/ monitor_abort \/ menu \/ launch_app)
    => Console!Type \/ Console!Back \/ Console!Choose
  <1> SUFFICES ASSUME RingInv, Type \/ monitor_abort \/ menu \/ launch_app
               PROVE  Console!Type \/ Console!Back \/ Console!Choose
    OBVIOUS
  <1>0. flag \in BOOLEAN /\ plsw \in BOOLEAN
    BY DEF RingInv, TypeOK
  <1>1. CASE Type
    <2>1. UNCHANGED <<Mode, Waiting, Asked>>
      BY <1>1, WaitingIs DEF Type, buffer, Mode, Asked
    <2> QED
      BY <1>1, <2>1 DEF Type, Console!Type
  <1>2. CASE monitor_abort
    <2>1. Mode = "app" /\ Mode' = "menu" /\ ~Asked /\ ~Asked' /\ Waiting' = Waiting
      BY <1>2, WaitingIs DEF monitor_abort, buffer, Mode, Asked
    <2>2. Asked' = Asked
      BY <2>1 DEF Asked
    <2>3. flag' \in {flag, FALSE}
      BY <1>0, <1>2 DEF monitor_abort
    <2> QED
      BY <1>2, <2>1, <2>2, <2>3 DEF monitor_abort, Console!Back
  <1>3. CASE menu
    <2>1. /\ Mode = "menu" /\ Mode' \in {"menu", "halt"} /\ Waiting' = Waiting /\ ~Asked /\ ~Asked'
      BY <1>3, WaitingIs DEF menu, buffer, Mode, Asked
    <2>2. Asked' = Asked
      BY <2>1 DEF Asked
    <2> QED
      BY <1>3, <2>1, <2>2 DEF menu, Console!Choose
  <1>4. CASE launch_app
    <2>1. Mode = "menu" /\ Mode' = "app" /\ ~Asked /\ ~Asked' /\ skip' \in BOOLEAN
      BY <1>0, <1>4 DEF launch_app, Mode, Asked
    <2>2. Asked' = Asked
      BY <2>1 DEF Asked
    <2>3. Waiting' = <<>>
      <3>1. ring' = ring /\ head' = 0 /\ tail' = 0
        BY <1>4 DEF launch_app
      <3>2. 0 \in Index /\ ring \in Contents
        BY MonitorAssumption DEF RingInv, TypeOK, Index, Contents
      <3>3. UsedOf(0, 0) = 0
        BY <3>2, UsedBounds
      <3>4. Len(WaitingOf(0, 0, ring)) = 0 /\ WaitingOf(0, 0, ring) \in Seq(Byte \cup {NoByte})
        BY <3>2, <3>3, WaitingIsSeq
      <3>5. WaitingOf(0, 0, ring) = <<>>
        BY <3>4
      <3> QED
        BY <3>1, <3>5, WaitingIs
    <2>4. uart # NoByte /\ uart' = NoByte /\ flag' = FALSE /\ given' = given
      BY <1>4, MonitorAssumption DEF launch_app
    <2>5. Console!Choose
      BY <2>1, <2>2, <2>3, <2>4 DEF Console!Choose
    <2> QED
      BY <2>5
  <1> QED
    BY <1>1, <1>2, <1>3, <1>4

\* Of a broker's four accesses, the last one takes the byte; the test of the flag
\* and a look at an empty ring begin and end the asking.
LEMMA BrokerTakes ==
  RingInv /\ (AskForByte \/ BatchEnds \/ Getc)
    => Console!Ask \/ Console!StopAsking \/ Console!Take \/ UNCHANGED Console!vars
  <1> SUFFICES ASSUME RingInv, AskForByte \/ BatchEnds \/ Getc
               PROVE  Console!Ask \/ Console!StopAsking \/ Console!Take \/ UNCHANGED Console!vars
    OBVIOUS
  <1>0. flag \in BOOLEAN /\ skip \in BOOLEAN
    BY DEF RingInv, TypeOK
  <1>1. CASE AskForByte \/ BatchEnds
    <2>1. Mode = "app" /\ Mode' = "app" /\ ~Asked /\ ~Asked' /\ UNCHANGED <<Waiting, uart, flag, skip, given>>
      BY <1>1, WaitingIs DEF AskForByte, BatchEnds, Goto, Rest, buffer, Mode, Asked
    <2>2. Asked' = Asked
      BY <2>1 DEF Asked
    <2> QED
      BY <2>1, <2>2 DEF Console!vars
  <1>2. CASE TestFlag
    <2>1. Mode = "app" /\ Mode' = "app" /\ UNCHANGED <<Waiting, uart, flag, skip, given>>
      BY <1>2, WaitingIs DEF TestFlag, Goto, Rest, buffer, Mode
    <2>2. CASE flag
      <3>1. Asked' = Asked
        BY <1>2, <2>2 DEF TestFlag, Goto, Asked
      <3> QED
        BY <2>1, <3>1 DEF Console!vars
    <2>3. CASE ~flag
      <3>1. Asked' = ~Asked
        BY <1>2, <2>3 DEF TestFlag, Goto, Asked
      <3> QED
        BY <2>1, <2>3, <3>1 DEF Console!Ask
    <2> QED
      BY <2>2, <2>3
  <1>3. CASE PollRing
    <2>1. Mode = "app" /\ Mode' = "app" /\ Asked /\ UNCHANGED <<Waiting, uart, flag, skip, given>>
      BY <1>3, WaitingIs DEF PollRing, IsEmpty, Wait, Goto, Rest, buffer, Mode, Asked
    <2>2. Asked' = Asked \/ Asked' = FALSE
      BY <1>3 DEF PollRing, IsEmpty, Wait, Goto, Asked
    <2> QED
      BY <2>1, <2>2 DEF Console!vars, Console!StopAsking
  <1>4. CASE ReadByte
    <2>1. Mode' = Mode /\ Asked' = Asked /\ UNCHANGED <<Waiting, uart, flag, skip, given>>
      BY <1>4, WaitingIs DEF ReadByte, Goto, Rest, buffer, Mode, Asked
    <2> QED
      BY <2>1 DEF Console!vars
  <1>5. CASE StoreTail
    <2>1. /\ Mode = "app" /\ Mode' = "app" /\ Asked /\ Asked' = FALSE
          /\ UNCHANGED <<uart, flag, head, ring>> /\ tail' = After(tail)
      BY <1>5 DEF StoreTail, Wait, Rest, Mode, Asked
    <2>2. head \in Index /\ tail \in Index /\ ring \in Contents /\ head # tail /\ r0 = ring[tail]
      BY <1>5 DEF RingInv, TypeOK, BrokerHolds, StoreTail, Contents
    <2>3. Waiting # <<>> /\ Head(Waiting) = r0 /\ Waiting' = Tail(Waiting)
      BY <2>1, <2>2, WaitingIs, MoveDrops
    <2> QED
      BY <1>5, <2>1, <2>3 DEF StoreTail, Console!Take
  <1> QED
    BY <1>1, <1>2, <1>3, <1>4, <1>5 DEF Getc

LEMMA StepRefines == RingInv /\ [Next]_vars => [Console!Next]_(Console!vars)
  <1> SUFFICES ASSUME RingInv, [Next]_vars PROVE [Console!Next]_(Console!vars)
    OBVIOUS
  <1>1. CASE UNCHANGED vars
    BY <1>1, WaitingIs DEF vars, buffer, Mode, Asked, Console!vars
  <1>2. CASE uart_isr
    BY <1>2, IsrReceives DEF Console!Next
  <1>3. CASE Type \/ monitor_abort \/ menu \/ launch_app
    BY <1>3, MenuChooses DEF Console!Next
  <1>4. CASE AskForByte \/ BatchEnds \/ Getc
    BY <1>4, BrokerTakes DEF Console!Next
  <1> QED
    BY <1>1, <1>2, <1>3, <1>4 DEF Next

LEMMA InitRefines == Init => Console!Init
  <1> SUFFICES ASSUME Init PROVE Console!Init
    OBVIOUS
  <1>1. head \in Index /\ tail \in Index /\ ring \in Contents /\ head = tail
    BY RingStarts DEF Init, RingInv, TypeOK, Contents
  <1>2. UsedOf(head, tail) = 0
    BY <1>1, UsedBounds
  <1>3. Len(Waiting) = 0 /\ Waiting \in Seq(Byte \cup {NoByte})
    BY <1>1, <1>2, WaitingIs, WaitingIsSeq
  <1>4. Waiting = <<>>
    BY <1>3
  <1>5. Mode = "app" /\ Asked = FALSE
    BY DEF Init, Mode, Asked
  <1> QED
    BY <1>4, <1>5 DEF Init, Console!Init

\* monitor.s, forth.s, apl.s: with uart_isr and the brokers interleaved access by access,
\* the application is given what was typed, in order and without the attention
\* key; only the newest bytes are dropped, and only when RingSize - 1 wait.
THEOREM ConsoleImplemented == Spec => ImplementsConsole
  BY InitRefines, StepRefines, RingInvariant, PTL DEF Spec, ImplementsConsole, Console!Spec
=============================================================================
