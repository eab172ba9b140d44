----------------------------- MODULE LispRepl -----------------------------
(***************************************************************************)
(* The read-eval-print loop of the combined Lisp suite as its user sees    *)
(* it: the line editor (io.h), the reader (read.h), the printer (print.h)  *)
(* and the menu around them (combined-suite.c).  The line buffer is an     *)
(* array that keeps what earlier lines left behind; the reader moves over  *)
(* it by itself.  A datum is what the reader builds; what eval makes of it *)
(* is left to other modules, and so are interning and the string pool.     *)
(***************************************************************************)
EXTENDS Integers, Sequences, SequencesExt

CONSTANTS
  LineMax,        \* 1024: bytes of the line buffer
  SymMax,         \* 63: characters of a symbol read in one piece
  StrMax,         \* 119: characters of a string read in one piece
  Keys,           \* characters a user may type at any time
  Uninit,         \* bytes the buffer may hold before the first line
  Spellings,      \* [keys, datum]: ways of typing a datum, without the Enter;
                  \* a text that is none has the datum <<>>
  MaxKeys,        \* bound: keys typed freely
  MaxTypos,       \* bound: wrong keys taken back while a spelling is typed
  MaxSpelled      \* bound: spellings typed

ASSUME LispReplAssumption ==
  /\ LineMax \in Nat /\ LineMax > 1 /\ SymMax \in Nat \ {0} /\ StrMax \in Nat
  /\ MaxKeys \in Nat /\ MaxTypos \in Nat /\ MaxSpelled \in Nat

VARIABLES
  mode,           \* "menu", "prompt", "edit", "read", "expr" or "halt"
  line, i, depth, in_str,
  read_ptr, frames, value,
  results,        \* history: data read from this line, the first few
  wanted,         \* history: the datum being spelled, if any
  script,         \* keys of its spelling still to come
  keys, typos, spelled

editor == <<line, i, depth, in_str>>
reader == <<read_ptr, frames, value>>
user   == <<wanted, script, keys, typos, spelled>>
vars   == <<mode, editor, reader, results, user>>

Cells == 0 .. LineMax - 1

-----------------------------------------------------------------------------
(* Data *)

Sym(name)  == <<"symbol", name>>
Str(text)  == <<"string", text>>
Pair(a, d) == <<"cons", a, d>>
NIL_VAL == Sym(<<"n", "i", "l">>)
T_VAL   == Sym(<<"t">>)

\* A fixnum keeps 22 bits of the number.
MAKE_FIXNUM(n) == <<"fixnum", ((n + 2097152) % 4194304) - 2097152>>

ListOf(items, tail) == FoldRight(LAMBDA a, d : Pair(a, d), items, tail)

Digit == <<"0", "1", "2", "3", "4", "5", "6", "7", "8", "9",
           "a", "b", "c", "d", "e", "f">>
Digits(base) == {Digit[v] : v \in 1 .. base}
ValueOf(c) == CHOOSE v \in 0 .. 15 : Digit[v + 1] = c

-----------------------------------------------------------------------------
(* Printer *)

Escaped(c) ==
  CASE c = "newline" -> <<"\\", "n">>
    [] c \in {"\"", "\\"} -> <<"\\", c>>
    [] OTHER -> <<c>>

RECURSIVE PrintNat(_)
PrintNat(n) == (IF n < 10 THEN <<>> ELSE PrintNat(n \div 10)) \o <<Digit[(n % 10) + 1]>>

RECURSIVE print_val(_), PrintRest(_)
print_val(v) ==
  CASE v[1] = "fixnum" -> IF v[2] < 0 THEN <<"-">> \o PrintNat(-v[2]) ELSE PrintNat(v[2])
    [] v[1] = "symbol" -> v[2]
    [] v[1] = "string" -> <<"\"">> \o FlattenSeq([k \in DOMAIN v[2] |-> Escaped(v[2][k])]) \o <<"\"">>
    [] v[1] = "cons"   -> <<"(">> \o print_val(v[2]) \o PrintRest(v[3])
PrintRest(v) ==
  IF v[1] = "cons" THEN <<" ">> \o print_val(v[2]) \o PrintRest(v[3])
  ELSE IF v = NIL_VAL THEN <<")">>
  ELSE <<" ", ".", " ">> \o print_val(v) \o <<")">>

-----------------------------------------------------------------------------
(* Reader: what the text says from a place on *)

\* Memory behind the buffer is taken to end the line.
Ch(p) == IF p \in Cells THEN line[p] ELSE "nul"
Slice(p, q) == [k \in 1 .. q - p |-> line[p + k - 1]]

\* The first place from p on that holds none of these characters.
Past(p, chars) ==
  CHOOSE q \in p .. p + LineMax :
    Ch(q) \notin chars /\ \A r \in p .. q - 1 : Ch(r) \in chars

Whitespace == {" ", "newline", "tab", "return"}
Delimiter  == Whitespace \cup {"nul", "(", ")", "'", "backquote", ",", "."}

\* Seeded bug: a comment takes the byte that ends the line along.
CommentEndLate(p) ==
  1 + CHOOSE q \in p .. p + LineMax :
        Ch(q) \in {"nul", "newline"} /\ \A r \in p .. q - 1 : Ch(r) \notin {"nul", "newline"}

CommentEnd(p) ==
  CHOOSE q \in p .. p + LineMax :
    Ch(q) \in {"nul", "newline"} /\ \A r \in p .. q - 1 : Ch(r) \notin {"nul", "newline"}

\* Comments only end with the line, so nothing is left to skip behind one.
skip_whitespace(p) ==
  LET q == Past(p, Whitespace) IN IF Ch(q) = ";" THEN CommentEnd(q) ELSE q

NumberOf(digits, base) == FoldLeft(LAMBDA n, c : n * base + ValueOf(c), 0, digits)
Number(p, base) == NumberOf(Slice(p, Past(p, Digits(base))), base)

\* A longer name than fits is cut, and its rest read as another symbol.
SymbolEnd(p) ==
  CHOOSE q \in p .. p + SymMax :
    /\ \A r \in p .. q - 1 : Ch(r) \notin Delimiter
    /\ Ch(q) \in Delimiter \/ q = p + SymMax

Unescaped(c) ==
  CASE c = "n" -> "newline" [] c = "r" -> "return" [] c = "t" -> "tab" [] OTHER -> c

\* The text of a string and the place behind it.  A backslash takes the next
\* byte along, even the one that ends the line.
RECURSIVE StringFrom(_, _)
StringFrom(p, text) ==
  IF Ch(p) \in {"nul", "\""} \/ Len(text) >= StrMax
  THEN [text |-> text, ptr |-> IF Ch(p) = "\"" THEN p + 1 ELSE p]
  ELSE IF Ch(p) = "\\" THEN StringFrom(p + 2, Append(text, Unescaped(Ch(p + 1))))
  ELSE StringFrom(p + 1, Append(text, Ch(p)))

\* Names of the symbols that stand for quote characters, as one letter each.
Quoting == [c \in {"'", "backquote", ","} |->
              CASE c = "'" -> Sym(<<"quote">>) [] c = "backquote" -> Sym(<<"quasiquote">>)
                [] c = "," -> Sym(<<"unquote">>)]

-----------------------------------------------------------------------------
(* Reader: its calls.  A frame is a call of read_list, or of read_expr, that *)
(* waits for a datum; value holds the datum a call returns.                  *)

Return(v, p) == value' = <<v>> /\ read_ptr' = p
Await(kind, items, p) ==
  /\ frames' = Append(frames, [kind |-> kind, items |-> items]) /\ read_ptr' = p
  /\ UNCHANGED value

Atom(p) ==
  LET c == Ch(p)  next == Ch(p + 1)  neg == c = "-" /\ next \in Digits(10) IN
  CASE c = "\""                -> LET s == StringFrom(p + 1, <<>>) IN Return(Str(s.text), s.ptr)
    [] c = "#" /\ next = "x"   -> Return(MAKE_FIXNUM(Number(p + 2, 16)), Past(p + 2, Digits(16)))
    [] c = "#" /\ next = "t"   -> Return(T_VAL, p + 2)
    [] c = "#" /\ next = "f"   -> Return(NIL_VAL, p + 2)
    [] neg                     -> Return(MAKE_FIXNUM(-Number(p + 1, 10)), Past(p + 1, Digits(10)))
    [] c \in Digits(10)        -> Return(MAKE_FIXNUM(Number(p, 10)), Past(p, Digits(10)))
    [] c \in {"nul", ")"}      -> Return(NIL_VAL, p)
    [] OTHER                   -> Return(Sym(Slice(p, SymbolEnd(p))), SymbolEnd(p))

\* Seeded bug: a datum comment hides nothing.
DiscardNothing(p) == Return(NIL_VAL, p + 2) /\ UNCHANGED frames

Discard(p) == Await("discard", <<>>, p + 2)

read_expr ==
  LET p == skip_whitespace(read_ptr)  c == Ch(p)
      opened == skip_whitespace(p + 1)
      splice == c = "," /\ Ch(p + 1) = "@"
  IN
  /\ mode = "expr" /\ value = <<>>
  /\ CASE c = "(" /\ Ch(opened) = ")" -> Return(NIL_VAL, opened + 1) /\ UNCHANGED frames
       [] c = "(" /\ Ch(opened) # ")" -> Await("list", <<>>, opened)
       [] splice                      -> Await("quote", <<Sym(<<"unquote-splicing">>)>>, p + 2)
       [] c \in DOMAIN Quoting /\ ~splice -> Await("quote", <<Quoting[c]>>, p + 1)
       [] c = "#" /\ Ch(p + 1) = "_"  -> Discard(p)
       [] OTHER                       -> Atom(p) /\ UNCHANGED frames
  /\ UNCHANGED <<mode, results, editor, user>>

\* Seeded bug: a closing parenthesis is left for the caller.
ClosedNever(p) == p

Closed(p) == IF Ch(p) = ")" THEN p + 1 ELSE p

Call  == Last(frames)
Datum == Head(value)
Items == Append(Call.items, Datum)
WaitOn(kind, p) ==
  /\ frames' = Append(Front(frames), [kind |-> kind, items |-> Items])
  /\ value' = <<>> /\ read_ptr' = p
Finish(v, p) == frames' = Front(frames) /\ Return(v, p)

\* A datum returns to the call that waits for it.  Behind a dotted tail,
\* anything but the parenthesis stays unread.
ListGoesOn ==
  LET q == skip_whitespace(read_ptr) IN
  /\ Call.kind = "list"
  /\ CASE Ch(q) = "."            -> WaitOn("dot", q + 1)
       [] Ch(q) \in {"nul", ")"}  -> Finish(ListOf(Items, NIL_VAL), Closed(q))
       [] OTHER                  -> WaitOn("list", q)

DotCloses ==
  /\ Call.kind = "dot"
  /\ Finish(ListOf(Call.items, Datum), Closed(skip_whitespace(read_ptr)))

QuoteCloses ==
  Call.kind = "quote" /\ Finish(ListOf(Items, NIL_VAL), read_ptr)

\* The commented datum is dropped, and read_expr returns the next.
Discarded ==
  /\ Call.kind = "discard" /\ frames' = Front(frames) /\ value' = <<>>
  /\ UNCHANGED read_ptr

ReturnDatum ==
  /\ mode = "expr" /\ value # <<>> /\ frames # <<>>
  /\ ListGoesOn \/ DotCloses \/ QuoteCloses \/ Discarded
  /\ UNCHANGED <<mode, results, editor, user>>

-----------------------------------------------------------------------------
(* Line editor *)

\* Quotes and parentheses of a text, from the given state on.
Track(state, c) ==
  LET str == IF c = "\"" THEN ~state.in_str ELSE state.in_str
  IN [in_str |-> str,
      depth  |-> IF str THEN state.depth
                 ELSE CASE c = "(" -> state.depth + 1 [] c = ")" -> state.depth - 1
                        [] OTHER -> state.depth]
Fresh == [in_str |-> FALSE, depth |-> 0]
Tracked == [in_str |-> in_str, depth |-> depth]
Text(n) == [k \in 1 .. n |-> line[k - 1]]
Scan(n) == FoldLeft(Track, Fresh, Text(n))

Init ==
  /\ mode = "menu" /\ line \in {[p \in Cells |-> c] : c \in Uninit}
  /\ i = 0 /\ depth = 0 /\ in_str = FALSE /\ read_ptr = 0
  /\ frames = <<>> /\ value = <<>> /\ results = <<>>
  /\ wanted = <<>> /\ script = <<>> /\ keys = 0 /\ typos = 0 /\ spelled = 0

\* The line ends: its text is terminated and the reader starts, unless it is
\* empty.
EndLine(buf, n) ==
  /\ line' = [buf EXCEPT ![n] = "nul"] /\ i' = n
  /\ IF n = 0 THEN mode' = "prompt" /\ UNCHANGED <<read_ptr, results>>
     ELSE mode' = "read" /\ read_ptr' = 0 /\ results' = <<>>

\* Seeded bug: taking a quote back does not leave the string.
RecomputeFrom(n) == FoldLeft(Track, [in_str |-> in_str, depth |-> 0], Text(n))

\* A character is stored; the line ends by itself when the buffer is full.
Store(c) ==
  LET buf == [line EXCEPT ![i] = c] IN
  IF i + 1 < LineMax - 1
  THEN line' = buf /\ i' = i + 1 /\ UNCHANGED <<mode, read_ptr, results>>
  ELSE EndLine(buf, i + 1)

Recompute(n) == Scan(n)

Backspace ==
  /\ IF i > 0
     THEN LET s == Recompute(i - 1) IN i' = i - 1 /\ depth' = s.depth /\ in_str' = s.in_str
     ELSE UNCHANGED <<i, depth, in_str>>
  /\ UNCHANGED <<mode, line, read_ptr, results>>

\* Inside of parentheses Enter is a space.
Enter ==
  /\ IF depth <= 0 THEN EndLine(line, i) ELSE Store(" ")
  /\ UNCHANGED <<depth, in_str>>

Character(c) ==
  LET s == Track(Tracked, c) IN
  /\ Store(c) /\ depth' = s.depth /\ in_str' = s.in_str

\* Ctrl-] and Ctrl-D leave the loop for the menu.
Leave == mode' = "menu" /\ UNCHANGED <<editor, read_ptr, results>>

Key(c) ==
  /\ mode = "edit"
  /\ CASE c = "bs"     -> Backspace
       [] c = "enter"  -> Enter
       [] c = "leave"  -> Leave
       [] OTHER        -> Character(c)
  /\ UNCHANGED <<frames, value>>

-----------------------------------------------------------------------------
(* Menu, user and loop *)

\* 1 or 2 starts a session with a fresh interpreter; q halts.
Menu ==
  /\ mode = "menu" /\ mode' \in {"prompt", "halt"}
  /\ UNCHANGED <<editor, reader, results, user>>

Begin == mode = "prompt" /\ mode' = "edit" /\ i' = 0 /\ depth' = 0 /\ in_str' = FALSE

\* read_line starts: the user goes on typing, or spells a datum.  Nobody does
\* both.
StartLine ==
  /\ Begin
  /\ \/ /\ spelled = 0 \/ script # <<>>
        /\ UNCHANGED <<wanted, script, spelled>>
     \/ /\ spelled < MaxSpelled /\ spelled' = spelled + 1 /\ script = <<>> /\ keys = 0
        /\ \E s \in Spellings : script' = Append(s.keys, "enter") /\ wanted' = s.datum
  /\ UNCHANGED <<line, reader, results, keys, typos>>

Printable == Keys \ {"bs", "enter", "leave"}

TypeFreely(c) ==
  /\ script = <<>> /\ spelled = 0 /\ keys < MaxKeys /\ keys' = keys + 1 /\ Key(c)
  /\ UNCHANGED <<wanted, script, typos, spelled>>

TypeSpelling ==
  /\ script # <<>> /\ script' = Tail(script) /\ Key(Head(script))
  /\ UNCHANGED <<wanted, keys, typos, spelled>>

\* A wrong key, taken back next.
Mistype(c) ==
  /\ script # <<>> /\ i + 2 < LineMax
  /\ typos < MaxTypos /\ typos' = typos + 1
  /\ script' = <<"bs">> \o script /\ Key(c)
  /\ UNCHANGED <<wanted, keys, spelled>>

\* The loop skips to the next form, reads, evaluates and prints it, until it
\* stands at the end of the line.
AtForm == Ch(skip_whitespace(read_ptr)) # "nul"
SkipTo(next) == mode = "read" /\ mode' = next /\ read_ptr' = skip_whitespace(read_ptr)

ReadForm ==
  /\ AtForm /\ SkipTo("expr")
  /\ UNCHANGED <<editor, frames, value, results, user>>

\* Only the first data of a line are kept.
PrintResult ==
  /\ mode = "expr" /\ value # <<>> /\ frames = <<>> /\ mode' = "read" /\ value' = <<>>
  /\ results' = IF Len(results) < 2 THEN Append(results, Datum) ELSE results
  /\ UNCHANGED <<read_ptr, frames, editor, user>>

LineDone ==
  /\ ~AtForm /\ SkipTo("prompt")
  /\ UNCHANGED <<editor, frames, value, results, user>>

Loop == ReadForm \/ read_expr \/ ReturnDatum \/ PrintResult \/ LineDone

Next ==
  \/ Menu \/ StartLine \/ TypeSpelling \/ Loop
  \/ \E c \in Keys : TypeFreely(c)
  \/ \E c \in Printable : Mistype(c)

\* The processor does not wait for anything between the end of a line and the
\* next prompt.
FairSpec == Init /\ [][Next]_vars /\ WF_vars(Loop)

-----------------------------------------------------------------------------
(* Properties *)

\* The text and its terminating byte fit into the buffer, and the two history
\* variables belong together.
TypeOK ==
  /\ mode \in {"menu", "prompt", "edit", "read", "expr", "halt"}
  /\ mode # "expr" => frames = <<>> /\ value = <<>>
  /\ i \in 0 .. LineMax - 1 /\ DOMAIN line = Cells
  /\ depth \in Int /\ in_str \in BOOLEAN /\ read_ptr \in Nat
  /\ mode \in {"read", "expr"} => line[i] = "nul"
  /\ keys \in 0 .. MaxKeys /\ typos \in 0 .. MaxTypos /\ spelled \in 0 .. MaxSpelled

\* io.h: the nesting and the string state that decide whether Enter ends the
\* line are those of the text left after all typing and erasing.
EditorAgrees ==
  mode \in {"edit", "read"} => Tracked = Scan(i)

\* The reader never runs over the end of the line into what older lines left
\* in the buffer, but for a line that ends in a backslash.
StaysInLine ==
  mode \in {"read", "expr"} => read_ptr <= i \/ line[i - 1] = "\\"

\* io.h and read.h: neither the editor nor the reader leaves the line.
LineOK == TypeOK /\ StaysInLine

\* print.h and read.h: a datum that is typed as it is printed, or in another of
\* the Spellings and with corrections, is taken at its Enter, not before and not
\* later, and read as that datum and nothing else.  A list with a string of one
\* escaped quote is not among them: the editor takes that for the string's end.
SpelledIsRead ==
  /\ wanted # <<>> /\ mode # "edit" => script = <<>>
  /\ wanted # <<>> /\ script = <<>> =>
       /\ mode \in {"read", "expr", "prompt", "menu"}
       /\ mode = "prompt" => results = <<wanted>>

\* No parenthesis closes more than was opened, and neither a dot nor a string
\* is there to mislead the count.
Regular ==
  /\ \A n \in 0 .. i : Scan(n).depth >= 0
  /\ \A p \in 0 .. i - 1 : line[p] \notin {".", "\""}

\* The loop comes back to its prompt, and so to Ctrl-], after every line
\* whose parentheses match and after every spelling.
LinesEnd == (mode = "read" /\ (Regular \/ wanted # <<>>)) ~> (mode = "prompt")
=============================================================================
