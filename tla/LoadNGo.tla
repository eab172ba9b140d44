------------------------------ MODULE LoadNGo ------------------------------
(***************************************************************************)
(* The load-and-go monitor in ROM (reference/loadngo.c): it echoes every   *)
(* character, gathers a line and obeys it.  A character is a printing one  *)
(* or a token; a message is the token Report or Jump and its newline.      *)
(***************************************************************************)
EXTENDS Naturals, Sequences, SequencesExt

CONSTANTS
  hextab,   \* the hex digits, in order
  Other,    \* characters no command knows
  ADDR,     \* digits of an address: 6 in the code
  LINSIZ,   \* line buffer with its NUL: 81 in the code
  Filling   \* what bytes of memory may hold after power-up

VARIABLES
  mode,     \* "getline", "line" (one is complete), "running" a program
  linbuf,   \* the characters of the line
  out,      \* still to be sent: putchr waits for CTS on each
  mem

monitor == <<mode, linbuf, out, mem>>

NL == "nl"
CR == "cr"
Report == "?"
Jump   == "J"

RADIX == Len(hextab)
Hex   == ToSet(hextab)
Char  == Hex \cup Other \cup {"L", "G", ";", NL, CR}

Power[n \in 0 .. ADDR] == IF n = 0 THEN 1 ELSE RADIX * Power[n - 1]
Address == 0 .. Power[ADDR] - 1
Byte    == 0 .. RADIX * RADIX - 1

ASSUME LoadNGoAssumption ==
  /\ hextab \in Seq(Hex) /\ hextab # <<>> /\ Filling \subseteq Byte
  /\ {"L", "G", ";", NL, CR, Report, Jump} \cap (Hex \cup Other) = {}
  /\ ADDR \in Nat \ {0} /\ LINSIZ \in Nat \ {0, 1}

hexnum(c) == (CHOOSE d \in DOMAIN hextab : hextab[d] = c) - 1
Value(digits) ==
  LET value[n \in 0 .. Len(digits)] ==
        IF n = 0 THEN 0 ELSE RADIX * value[n - 1] + hexnum(digits[n])
  IN value[Len(digits)]

-----------------------------------------------------------------------------
\* The leading hex digits of what follows the command letter, and whether
\* nothing but digits does.
Operand == SubSeq(linbuf, 2, Len(linbuf) - 1)
Bad     == {k \in DOMAIN Operand : Operand[k] \notin Hex}
Numeral == IF Bad = {} THEN Operand
           ELSE SubSeq(Operand, 1, (CHOOSE k \in Bad : \A j \in Bad : k <= j) - 1)

Say(message) == out' = <<message, NL>>

\* Seeded bug: a high nybble is put over what the byte held.
StoreOver(s, c) ==
  IF s.half
  THEN [s EXCEPT !.mem[s.adr] = @ + hexnum(c), !.adr = (@ + 1) % Power[ADDR], !.half = FALSE]
  ELSE [s EXCEPT !.mem[s.adr] = (hexnum(c) * RADIX + @) % (RADIX * RADIX), !.half = TRUE]

\* Digits are obeyed as they are read: the address, then each high nybble
\* clears the byte's low one, and each low one completes the byte.
Store(s, c) ==
  IF s.half
  THEN [s EXCEPT !.mem[s.adr] = @ + hexnum(c), !.adr = (@ + 1) % Power[ADDR], !.half = FALSE]
  ELSE [s EXCEPT !.mem[s.adr] = hexnum(c) * RADIX, !.half = TRUE]

Stored ==
  LET data == SubSeq(Numeral, ADDR + 1, Len(Numeral))
      state[n \in 0 .. Len(data)] ==
        IF n = 0 THEN [mem |-> mem, half |-> FALSE, adr |-> Value(SubSeq(Numeral, 1, ADDR))]
        ELSE Store(state[n - 1], data[n])
  IN IF Len(Numeral) <= ADDR THEN [mem |-> mem, half |-> FALSE] ELSE state[Len(data)]

\* doload: a bad digit ends it after what came before has been stored; a short
\* line and an odd nybble are found when all has been.
doload ==
  /\ mem' = Stored.mem /\ mode' = "getline"
  /\ IF Bad # {} \/ Len(Operand) < ADDR + 2 \/ Stored.half THEN Say(Report) ELSE UNCHANGED out

\* dogo: the address has between one digit and ADDR; the program is called.
dogo ==
  /\ UNCHANGED mem
  /\ IF Bad = {} /\ Len(Operand) \in 1 .. ADDR
     THEN mode' = "running" /\ Say(Jump)
     ELSE mode' = "getline" /\ Say(Report)

\* main, once getline returns.
Obey ==
  /\ mode = "line" /\ out = <<>> /\ linbuf' = <<>>
  /\ IF Last(linbuf) # NL THEN mode' = "getline" /\ Say(Report) /\ UNCHANGED mem
     ELSE CASE linbuf[1] = "L" -> doload
            [] linbuf[1] = "G" -> dogo
            [] linbuf[1] = ";" -> mode' = "getline" /\ UNCHANGED <<out, mem>>
            [] OTHER           -> mode' = "getline" /\ Say(Report) /\ UNCHANGED mem

\* getchr: a carriage return is read as a newline.
getchr(c) == IF c = CR THEN NL ELSE c

\* Seeded bug: the buffer is taken for one shorter.
EndsEarly(line) == Last(line) = NL \/ Len(line) = LINSIZ - 2

Ends(line) == Last(line) = NL \/ Len(line) = LINSIZ - 1

\* getline, one character: it is echoed, then kept.
Getline(c) ==
  /\ mode = "getline" /\ out = <<>> /\ out' = <<getchr(c)>>
  /\ linbuf' = Append(linbuf, getchr(c))
  /\ mode' = IF Ends(linbuf') THEN "line" ELSE "getline"
  /\ UNCHANGED mem

\* The program is not modelled: it may read its input, and it may return.
ProgramReads == mode = "running" /\ out = <<>> /\ UNCHANGED monitor
ProgramReturns ==
  mode = "running" /\ out = <<>> /\ mode' = "getline" /\ UNCHANGED <<linbuf, out, mem>>

MonitorInit ==
  /\ mode = "getline" /\ linbuf = <<>> /\ out = <<>>
  /\ \E b \in Filling : mem = [a \in Address |-> b]

MonitorTypeOK ==
  /\ mode \in {"getline", "line", "running"}
  /\ linbuf \in Seq(Char) /\ Len(linbuf) < LINSIZ
  /\ mem \in [Address -> Byte]
=============================================================================
