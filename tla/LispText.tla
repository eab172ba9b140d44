----------------------------- MODULE LispText -----------------------------
(***************************************************************************)
(* Strings (string.h) and symbols (symbol.h) of the combined Lisp suite,   *)
(* with the primitives of eval.h that make them.  Both live in pools that  *)
(* only grow until the interpreter is started again, and a start clears    *)
(* the counters, not the bytes.  A string is one heap cell that packs the  *)
(* offset and the length of its text; collecting the cell frees no text,   *)
(* so the cells themselves are left to LispHeap.                           *)
(***************************************************************************)
EXTENDS Naturals, Sequences, SequencesExt

CONSTANTS
  Char,
  Texts,          \* texts that are typed or printed into strings and symbols
  STR_POOL_SIZE,  \* 8192 in the code
  FIELD,          \* 2048: offset and length have 11 bits each
  NAME_POOL_SIZE, MAX_SYMBOLS,   \* 4096 and 512
  MaxStrings,     \* bound: strings made in a session
  MaxResets       \* bound: sessions started after the first

NUL == "nul"
nil == <<"nil">>
t   == <<"t">>
Digit == <<"0", "1", "2", "3", "4", "5", "6", "7", "8", "9">>

ASSUME LispTextAssumption ==
  /\ NUL \notin Char /\ ToSet(Digit) \cup {"nil", "t", "_g"} \subseteq Char
  /\ Texts \subseteq Seq(Char) /\ STR_POOL_SIZE \in Nat /\ FIELD \in Nat \ {0}
  /\ NAME_POOL_SIZE \in Nat /\ MAX_SYMBOLS \in Nat
  /\ 2 <= MAX_SYMBOLS /\ Len(nil) + Len(t) + 2 <= NAME_POOL_SIZE
  /\ MaxStrings \in Nat /\ MaxResets \in Nat

VARIABLES
  mode,           \* "run" or "panic"
  str_pool, str_pool_next,
  packed,         \* word of each string made in this session
  meant,          \* history: where each began, and the text it was to have
  names,          \* symbol table: the names in name_pool, in order
  name_pool_next,
  gensym_counter,
  given,          \* history: symbols gensym returned
  resets

strings == <<str_pool, str_pool_next, packed, meant>>
table   == <<names, name_pool_next>>
symbols == <<table, gensym_counter, given>>
vars    == <<mode, strings, symbols, resets>>

Bytes == 0 .. STR_POOL_SIZE - 1

-----------------------------------------------------------------------------
(* Strings *)

\* Bitwise or.
BitOr[a \in Nat] ==
  [b \in Nat |->
     IF a = 0 THEN b
     ELSE (2 * BitOr[a \div 2][b \div 2]) + (IF a % 2 = 1 \/ b % 2 = 1 THEN 1 ELSE 0)]

\* (off << 11) | len in the 22 bits of a fixnum: a length of more than 11 bits
\* falls over the offset, and what is above 22 is cut off.
Pack(off, len) == ((BitOr[off][len \div FIELD] % FIELD) * FIELD) + (len % FIELD)

string_len(w)  == w % FIELD
string_data(w) == w \div FIELD

Byte(p) == IF p \in Bytes THEN str_pool[p] ELSE NUL

\* The text by its length, and up to its terminating byte.
Counted(w) == [k \in 1 .. string_len(w) |-> Byte(string_data(w) + k - 1)]
Terminated(w) ==
  LET off == string_data(w)
      end == CHOOSE p \in off .. STR_POOL_SIZE :
               Byte(p) = NUL /\ \A q \in off .. p - 1 : Byte(q) # NUL
  IN [k \in 1 .. end - off |-> str_pool[off + k - 1]]

\* Seeded bug: the terminating byte is not written.
WrittenOpen(off, text) ==
  [p \in Bytes |-> IF p \in off .. off + Len(text) - 1 THEN text[p - off + 1] ELSE str_pool[p]]

Written(off, text) ==
  [p \in Bytes |-> IF p \in off .. off + Len(text) - 1 THEN text[p - off + 1]
                   ELSE IF p = off + Len(text) THEN NUL ELSE str_pool[p]]

PoolFull(len) == str_pool_next + len + 1 > STR_POOL_SIZE

\* make_string: a text is copied behind all others.  wish is what the program
\* takes it to be.
make_string(text, wish) ==
  LET off == str_pool_next IN
  IF PoolFull(Len(text))
  THEN mode' = "panic" /\ UNCHANGED strings
  ELSE /\ str_pool' = Written(off, text)
       /\ str_pool_next' = off + Len(text) + 1
       /\ packed' = Append(packed, Pack(off, Len(text)))
       /\ meant' = Append(meant, [off |-> off, text |-> wish])
       /\ UNCHANGED mode

Room == mode = "run" /\ Len(packed) < MaxStrings

\* A literal, number->string, and the result of format.
MakeText(text) == Room /\ make_string(text, text) /\ UNCHANGED <<symbols, resets>>

\* Both operands are read before the pool moves on.
string_append(a, b) ==
  /\ Room /\ make_string(Counted(packed[a]) \o Counted(packed[b]), meant[a].text \o meant[b].text)
  /\ UNCHANGED <<symbols, resets>>

\* (substring a start end) of a part that the text has.
substring(a, start, end) ==
  /\ Room
  /\ make_string([k \in 1 .. end - start |-> Byte(string_data(packed[a]) + start + k - 1)],
                 SubSeq(meant[a].text, start + 1, end))
  /\ UNCHANGED <<symbols, resets>>

-----------------------------------------------------------------------------
(* Symbols *)

Interned(name) == \E k \in DOMAIN names : names[k] = name
Symbol(name)   == CHOOSE k \in DOMAIN names' : names'[k] = name

Added(name) ==
  names' = Append(names, name) /\ name_pool_next' = name_pool_next + Len(name) + 1

\* Seeded bug: the newest symbol is not searched.
InternUnsearched(name) ==
  IF \E k \in 1 .. Len(names) - 1 : names[k] = name THEN UNCHANGED <<mode, table>>
  ELSE Added(name) /\ UNCHANGED mode

\* intern: the symbol of this name, or a new one.
intern(name) ==
  IF Interned(name) THEN UNCHANGED <<mode, table>>
  ELSE IF Len(names) >= MAX_SYMBOLS \/ name_pool_next + Len(name) + 1 > NAME_POOL_SIZE
  THEN mode' = "panic" /\ UNCHANGED table
  ELSE Added(name) /\ UNCHANGED mode

\* The reader meets a symbol.
ReadSymbol(name) ==
  /\ mode = "run" /\ intern(name)
  /\ UNCHANGED <<strings, gensym_counter, given, resets>>

string_to_symbol(a) ==
  /\ mode = "run" /\ intern(Terminated(packed[a]))
  /\ UNCHANGED <<strings, gensym_counter, given, resets>>

symbol_to_string(k) ==
  /\ Room /\ make_string(names[k], names[k])
  /\ UNCHANGED <<symbols, resets>>

\* _g0, _g1, ...: the number in decimal.
Decimal[n \in Nat] ==
  IF n < 10 THEN <<Digit[n + 1]>> ELSE Append(Decimal[n \div 10], Digit[(n % 10) + 1])
GensymName(n) == <<"_g">> \o Decimal[n]

\* Seeded bug: the counter only counts names that were new.
CountNew(name) == IF Interned(name) THEN gensym_counter ELSE gensym_counter + 1
CountAll(name) == gensym_counter + 1

gensym ==
  LET name == GensymName(gensym_counter) IN
  /\ mode = "run" /\ intern(name) /\ gensym_counter' = CountAll(name)
  /\ given' = IF mode' = "run" THEN Append(given, Symbol(name)) ELSE given
  /\ UNCHANGED <<strings, resets>>

-----------------------------------------------------------------------------
Init ==
  /\ mode = "run" /\ str_pool = [p \in Bytes |-> NUL] /\ str_pool_next = 0
  /\ packed = <<>> /\ meant = <<>>
  /\ names = <<nil, t>> /\ name_pool_next = Len(nil) + Len(t) + 2
  /\ gensym_counter = 0 /\ given = <<>> /\ resets = 0

\* A session is started from the menu: symbol_init, string_init, eval_init.
reset_interpreter ==
  /\ mode = "run" /\ resets < MaxResets /\ resets' = resets + 1
  /\ str_pool_next' = 0 /\ packed' = <<>> /\ meant' = <<>>
  /\ names' = <<nil, t>> /\ name_pool_next' = Len(nil) + Len(t) + 2
  /\ gensym_counter' = 0 /\ given' = <<>>
  /\ UNCHANGED <<mode, str_pool>>

Next ==
  \/ \E x \in Texts : MakeText(x) \/ ReadSymbol(x)
  \/ \E a, b \in DOMAIN packed : string_append(a, b)
  \/ \E a \in DOMAIN packed :
       \/ string_to_symbol(a)
       \/ \E end \in 0 .. Len(meant[a].text) : \E start \in 0 .. end : substring(a, start, end)
  \/ \E k \in DOMAIN names : symbol_to_string(k)
  \/ gensym \/ reset_interpreter

Spec == Init /\ [][Next]_vars

-----------------------------------------------------------------------------
(* Properties *)

\* Counters stay in their pools; texts and names hold no terminating byte.
TypeOK ==
  /\ mode \in {"run", "panic"}
  /\ str_pool \in [Bytes -> Char \cup {NUL}] /\ str_pool_next \in 0 .. STR_POOL_SIZE
  /\ packed \in Seq(0 .. FIELD * FIELD - 1) /\ Len(packed) <= MaxStrings
  /\ meant \in Seq([off : Bytes, text : Seq(Char)]) /\ Len(meant) = Len(packed)
  /\ names \in Seq(Seq(Char)) /\ Len(names) \in 2 .. MAX_SYMBOLS
  /\ name_pool_next \in 0 .. NAME_POOL_SIZE
  /\ gensym_counter \in Nat /\ given \in Seq(Nat) /\ resets \in 0 .. MaxResets

\* What 11 bits can say.
Representable(s) == meant[s].off < FIELD /\ Len(meant[s].text) < FIELD

\* string.h: a string that begins in the first 2048 bytes of the pool and is
\* shorter than that has the text it was made with, counted or up to its
\* terminating byte, whatever is made, appended or started afresh later.
TextIsKept ==
  \A s \in DOMAIN packed : Representable(s) =>
    Counted(packed[s]) = meant[s].text /\ Terminated(packed[s]) = meant[s].text

\* symbol.h: a name is one symbol, whether it was read, converted from a string
\* or generated, so eq? on symbols is equality of names.
NamesAreSymbols == IsInjective(names)

\* symbol.h and string.h: however symbols come about, both pools keep their bounds
\* and the table holds each name once; a pool that is full halts the machine first.
TablesOK == TypeOK /\ NamesAreSymbols

\* eval.h: gensym generates a unique symbol.  It never gives the same one twice
\* in a session, even when a program has read or made names such as _g1 itself.
GensymIsUnique == IsInjective(given)
=============================================================================
