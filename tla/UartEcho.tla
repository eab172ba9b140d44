------------------------------ MODULE UartEcho ------------------------------
(***************************************************************************)
(* Interrupt-driven echo (reference/uartcint.c, uartaint.s): the interrupt *)
(* service puts each byte that arrives into a ring of BUFSZ, from which    *)
(* main takes it and writes it back.  A service that finds the ring full   *)
(* disables the interrupt, which main enables when it finds it empty.  It  *)
(* may come between any two of main's accesses to the shared variables.    *)
(***************************************************************************)
EXTENDS Integers

CONSTANTS
  BUFSZ,      \* 16 in the code
  MaxBytes    \* bound: bytes that arrive

ASSUME UartEchoAssumption == BUFSZ \in Nat \ {0, 1} /\ MaxBytes \in Nat

VARIABLES
  uart,              \* the byte in the UART's receive register, 0 if none
  arrived,           \* bytes that have arrived; a byte is the number of its arrival
  enabled,           \* INTCENAB
  cbuf, ridx, widx,  \* the ring
  pc, flag, c,       \* main: next access, condition flag, byte it holds
  echo               \* the byte written back last, 0 before the first

ring == <<cbuf, ridx, widx>>
main == <<pc, flag, c>>
vars == <<uart, arrived, enabled, ring, main, echo>>

Index == 0 .. BUFSZ - 1

-----------------------------------------------------------------------------
\* A byte comes; RTS holds the sender while the register is not read.
Arrive ==
  /\ uart = 0 /\ arrived < MaxBytes
  /\ arrived' = arrived + 1 /\ uart' = arrived + 1
  /\ UNCHANGED <<enabled, ring, main, echo>>

After(i) == (i + 1) % BUFSZ

\* Seeded bug: the register in which main holds its byte is not restored.
RestoredButByte == UNCHANGED <<pc, flag>> /\ c' = uart

\* uartaisr saves and restores what main was using.
Restored == UNCHANGED main

\* Seeded bug: the ring never counts as full.
FullLate == FALSE

Full == After(widx) = ridx

\* uartcisr, which nothing interrupts.
Interrupt ==
  /\ enabled /\ uart # 0 /\ Restored
  /\ \/ /\ ~Full /\ cbuf' = [cbuf EXCEPT ![widx] = uart] /\ widx' = After(widx)
        /\ uart' = 0 /\ UNCHANGED <<enabled, ridx>>
     \/ Full /\ enabled' = FALSE /\ UNCHANGED <<uart, ring>>
  /\ UNCHANGED <<arrived, echo>>

-----------------------------------------------------------------------------
(* main *)

Compare ==
  /\ pc = "compare" /\ flag' = (ridx = widx) /\ pc' = "branch"
  /\ UNCHANGED <<uart, arrived, enabled, ring, c, echo>>

Branch ==
  /\ pc = "branch" /\ pc' = IF flag THEN "enable" ELSE "take"
  /\ UNCHANGED <<uart, arrived, enabled, ring, flag, c, echo>>

Take ==
  /\ pc = "take" /\ c' = cbuf[ridx] /\ pc' = "advance"
  /\ UNCHANGED <<uart, arrived, enabled, ring, flag, echo>>

Advance ==
  /\ pc = "advance" /\ ridx' = After(ridx) /\ pc' = "put"
  /\ UNCHANGED <<uart, arrived, enabled, cbuf, widx, flag, c, echo>>

\* putchar
Put ==
  /\ pc = "put" /\ echo' = c /\ pc' = "compare"
  /\ UNCHANGED <<uart, arrived, enabled, ring, flag, c>>

\* Seeded bug: the interrupt is not enabled again.
EnableNothing ==
  /\ pc = "enable" /\ pc' = "compare"
  /\ UNCHANGED <<uart, arrived, enabled, ring, flag, c, echo>>

Enable ==
  /\ pc = "enable" /\ enabled' = TRUE /\ pc' = "compare"
  /\ UNCHANGED <<uart, arrived, ring, flag, c, echo>>

Main == Compare \/ Branch \/ Take \/ Advance \/ Put \/ Enable

-----------------------------------------------------------------------------
\* The interrupt is disabled after reset; what the ring's bytes hold is not read.
Init ==
  /\ uart = 0 /\ arrived = 0 /\ enabled = FALSE
  /\ cbuf = [i \in Index |-> 0] /\ ridx = 0 /\ widx = 0
  /\ pc = "compare" /\ flag = FALSE /\ c = 0 /\ echo = 0

Next == Arrive \/ Interrupt \/ Main

Spec == Init /\ [][Next]_vars

\* The processor runs main, and takes an interrupt that is pending; bytes need
\* not arrive.
FairSpec == Spec /\ WF_vars(Main) /\ WF_vars(Interrupt)

-----------------------------------------------------------------------------
(* Properties *)

\* Indices stay in the ring.
TypeOK ==
  /\ uart \in Nat /\ arrived \in 0 .. MaxBytes /\ enabled \in BOOLEAN
  /\ cbuf \in [Index -> Nat] /\ ridx \in Index /\ widx \in Index
  /\ pc \in {"compare", "branch", "take", "advance", "put", "enable"}
  /\ flag \in BOOLEAN /\ c \in Nat /\ echo \in Nat

\* Bytes in the ring, and the place of the one that comes k after the next.
Waiting  == IF ridx <= widx THEN widx - ridx ELSE widx - ridx + BUFSZ
Place(k) == IF ridx + k < BUFSZ THEN ridx + k ELSE ridx + k - BUFSZ

\* Bytes that main took out of the ring.
Taken == IF pc = "put" THEN echo + 1 ELSE echo

\* uartcint.c: between any two accesses of main and the interrupt, the ring holds
\* the bytes after the last one taken, in the order they arrived, and every byte
\* that arrived was taken, is in the ring, or is still in the UART.
RingIsFifo ==
  /\ \A k \in 0 .. Waiting - 1 : cbuf[Place(k)] = Taken + k + 1
  /\ arrived = Taken + Waiting + (IF uart = 0 THEN 0 ELSE 1)
  /\ uart # 0 => uart = arrived

\* main has seen a byte it is about to take, and holds the next one to write back.
MainHolds ==
  /\ pc = "branch" /\ ~flag => Waiting > 0
  /\ pc \in {"take", "advance"} => Waiting > 0
  /\ pc \in {"advance", "put"} => c = echo + 1

\* The inductive invariant: ring, indices and main's byte agree between any two
\* accesses.
Ordered == TypeOK /\ RingIsFifo /\ MainHolds

\* uartcint.c: the echo is a first-in, first-out queue of the ring, the byte main
\* holds and the UART's register: no byte is lost, doubled or out of order although
\* the ring fills and the interrupt is disabled and enabled again.
Fifo == INSTANCE EchoFifo WITH Room <- BUFSZ + 1
IsFifo == Fifo!Spec

\* uartcint.c: every byte that arrived is written back, since an interrupt that was
\* disabled for a full ring is enabled again before main would wait for one.
EveryByteIsEchoed == \A n \in 1 .. MaxBytes : arrived >= n ~> echo >= n
=============================================================================
