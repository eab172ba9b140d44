------------------------------ MODULE Monitor ------------------------------
(***************************************************************************)
(* The resident monitors of the Forth/APL and PL/SW-SNOBOL4 images: menu,  *)
(* UART receive interrupt with its ring, and the input brokers of the      *)
(* applications, which empty the ring.  Interrupts come between any two    *)
(* instructions of monitor and application; the service routine itself is  *)
(* not interrupted.  A step of a broker holds one access to shared memory. *)
(* Transmission, menu texts and the applications' own work are left out.   *)
(***************************************************************************)
EXTENDS Naturals, Sequences

CONSTANTS
  Byte, Attention, Newline, NoByte,
  App,            \* the kind of application a key of the menu starts
  Quit,           \* keys of the menu that halt the monitor
  RingSize,       \* 256 in the code: an index is a byte and wraps by itself
  MaxTyped        \* bound: bytes typed

ASSUME MonitorAssumption ==
  /\ Attention \in Byte /\ Newline \subseteq Byte /\ NoByte \notin Byte
  /\ DOMAIN App \subseteq Byte \ Newline /\ Quit \subseteq Byte
  /\ RingSize \in Nat /\ RingSize > 1 /\ MaxTyped \in Nat
  /\ \A key \in DOMAIN App : App[key] \in {"repl", "batch"}

VARIABLES
  plsw,           \* which monitor: PL/SW-SNOBOL4 or Forth/APL
  uart,           \* UART data register
  enabled,        \* UART receive interrupt
  head, tail, ring,
  flag,           \* attention flag
  skip,           \* discard leading CR/LF (PL/SW-SNOBOL4 only)
  pc,             \* where the processor is outside of interrupts
  app,            \* kind of the application started last
  r0,             \* byte a broker holds
  given,          \* byte a broker returned last
  typed

buffer == <<head, tail, ring>>
vars == <<plsw, uart, enabled, buffer, flag, skip, pc, app, r0, given, typed>>

Index == 0 .. RingSize - 1

\* Seeded bug: the index does not wrap.
AfterNoWrap(i) == i + 1

After(i) == IF i = RingSize - 1 THEN 0 ELSE i + 1

-----------------------------------------------------------------------------
Init ==
  /\ plsw \in BOOLEAN
  /\ uart = NoByte /\ enabled = FALSE /\ flag = FALSE /\ skip = FALSE
  /\ head \in {0} /\ tail = 0 /\ ring = [i \in Index |-> NoByte]
  /\ pc = "abort" /\ app = "repl" /\ r0 = NoByte /\ given = NoByte /\ typed = 0

\* Hardware flow control: a byte is sent when the last one has been read.
Type ==
  /\ uart = NoByte /\ typed < MaxTyped /\ typed' = typed + 1
  /\ uart' \in Byte
  /\ UNCHANGED <<plsw, enabled, buffer, flag, skip, pc, app, r0, given>>

\* Seeded bug: a full ring is not noticed.
NeverFull == FALSE

IsFull == After(head) = tail

uart_isr ==
  /\ enabled /\ uart # NoByte /\ uart' = NoByte
  /\ \/ uart = Attention /\ flag' = TRUE /\ UNCHANGED buffer
     \/ /\ uart # Attention /\ IsFull
        /\ UNCHANGED <<buffer, flag>>
     \/ /\ uart # Attention /\ ~IsFull
        /\ ring' = [ring EXCEPT ![head] = uart] /\ head' = After(head)
        /\ UNCHANGED <<tail, flag>>
  /\ UNCHANGED <<plsw, enabled, skip, pc, app, r0, given, typed>>

-----------------------------------------------------------------------------
(* Monitor *)

\* The Forth/APL monitor clears the flag here, the other one at a launch.
monitor_abort ==
  /\ pc = "abort" /\ pc' = "menu" /\ enabled' = FALSE
  /\ flag' = (flag /\ plsw)
  /\ UNCHANGED <<plsw, uart, buffer, skip, app, r0, given, typed>>

\* menu_wait polls the UART; newlines, help and unknown keys stay in the menu.
menu ==
  /\ pc = "menu" /\ uart # NoByte /\ uart \notin DOMAIN App
  /\ uart' = NoByte
  /\ pc' = IF uart \in Quit THEN "halt" ELSE "menu"
  /\ UNCHANGED <<plsw, enabled, buffer, flag, skip, app, r0, given, typed>>

launch_app ==
  /\ pc = "menu" /\ uart \in DOMAIN App
  /\ uart' = NoByte /\ pc' = "app" /\ app' = App[uart]
  /\ head' = 0 /\ tail' = 0 /\ flag' = FALSE /\ skip' = plsw
  /\ enabled' = TRUE
  /\ UNCHANGED <<plsw, ring, r0, given, typed>>

-----------------------------------------------------------------------------
(* Applications: broker_getc, _getchar and _MONITOR_GETCHAR *)

Goto(from, to) == pc = from /\ pc' = to

Rest == <<plsw, uart, enabled, app, typed>>

AskForByte ==
  /\ app = "repl" /\ Goto("app", "check")
  /\ UNCHANGED <<Rest, buffer, flag, skip, r0, given>>

\* A patched PL/SW program ends at the monitor entry instead of halting.
BatchEnds ==
  /\ app = "batch" /\ Goto("app", "abort")
  /\ UNCHANGED <<Rest, buffer, flag, skip, r0, given>>

TestFlag ==
  /\ Goto("check", IF flag THEN "abort" ELSE "poll")
  /\ UNCHANGED <<Rest, buffer, flag, skip, r0, given>>

\* Seeded bugs: one byte looks like none; waiting does not test the flag.
IsEmptyEarly == head \in {tail, After(tail)}
WaitUntested == "poll"

IsEmpty == head = tail
Wait == "check"

PollRing ==
  /\ Goto("poll", IF IsEmpty THEN Wait ELSE "data")
  /\ UNCHANGED <<Rest, buffer, flag, skip, r0, given>>

ReadByte ==
  /\ Goto("data", "store") /\ r0' = ring[tail]
  /\ UNCHANGED <<Rest, buffer, flag, skip, given>>

\* The tail moves, then the byte is returned or, as a leading newline of the
\* PL/SW-SNOBOL4 image, discarded.
StoreTail ==
  /\ pc = "store" /\ tail' = After(tail)
  /\ IF skip /\ r0 \in Newline
     THEN pc' = Wait /\ UNCHANGED <<skip, given>>
     ELSE pc' = "app" /\ skip' = FALSE /\ given' = r0
  /\ UNCHANGED <<Rest, head, ring, flag, r0>>

Getc == TestFlag \/ PollRing \/ ReadByte \/ StoreTail

-----------------------------------------------------------------------------
Next == Type \/ uart_isr \/ monitor_abort \/ menu \/ launch_app \/ AskForByte \/ BatchEnds \/ Getc

Spec == Init /\ [][Next]_vars

\* The processor takes its interrupts and goes on; a read-eval-print loop
\* comes back for input, and a batch program ends.
FairSpec ==
  /\ Spec
  /\ WF_vars(uart_isr) /\ WF_vars(monitor_abort) /\ WF_vars(Getc)
  /\ WF_vars(AskForByte) /\ WF_vars(BatchEnds)

-----------------------------------------------------------------------------
(* Properties *)

\* Indices stay in the ring; the monitor's menu runs with interrupts off.
TypeOK ==
  /\ plsw \in BOOLEAN /\ uart \in Byte \cup {NoByte} /\ enabled \in BOOLEAN
  /\ head \in Index /\ tail \in Index /\ ring \in [Index -> Byte \cup {NoByte}]
  /\ flag \in BOOLEAN /\ skip \in BOOLEAN /\ app \in {"repl", "batch"}
  /\ pc \in {"abort", "menu", "halt", "app", "check", "poll", "data", "store"}
  /\ r0 \in Byte \cup {NoByte} /\ given \in Byte \cup {NoByte} /\ typed \in 0 .. MaxTyped
  /\ pc \in {"menu", "halt"} => ~enabled
  /\ pc \in {"app", "check", "poll", "data", "store"} => enabled

Used == IF head >= tail THEN head - tail ELSE head + RingSize - tail
Slot(i) == IF tail + i < RingSize THEN tail + i ELSE tail + i - RingSize

Mode == IF pc \in {"menu", "halt"} THEN pc ELSE "app"
Waiting == [i \in 1 .. Used |-> ring[Slot(i - 1)]]
Asked == pc \in {"poll", "data", "store"}

\* uart_isr and the brokers share a ring without a lock, and still implement
\* the console: bytes in order, only the newest dropped and only by a full
\* ring, no attention key, and at most one byte after it.
Console == INSTANCE Console WITH
  Capacity <- RingSize - 1, mode <- Mode, waiting <- Waiting, attention <- flag, asked <- Asked
ImplementsConsole == Console!Spec

\* monitor-owned-uart-architecture.md: the broker notices the key, so it
\* brings the menu back whenever the application asks for input or ends.
AttentionReturns == (flag /\ enabled) ~> (pc = "menu")

\* A byte in the ring is taken, unless the menu comes back.
InputIsTaken == (head # tail /\ enabled) ~> (head = tail \/ pc = "menu")
=============================================================================
