---------------------------- MODULE MCLispRepl ----------------------------
(***************************************************************************)
(* An instance of LispRepl for TLC: atoms and lists of up to two of them,  *)
(* typed as they are printed and in other ways the reader knows.           *)
(***************************************************************************)
EXTENDS LispRepl

MCKeys == {"a", "(", ")", "\"", "\\", ".", "'", ";", "bs", "enter", "leave"}

Atoms == {Sym(<<"a">>), NIL_VAL, Str(<<>>), Str(<<"(", "newline">>), Str(<<"\\">>),
          Str(<<"\"", "\"">>), MAKE_FIXNUM(0), MAKE_FIXNUM(2097151), MAKE_FIXNUM(-2097152)}
Few   == {Sym(<<"a">>), NIL_VAL, Str(<<"\\">>), MAKE_FIXNUM(-1)}

Pairs == {Pair(a, d) : a, d \in Atoms}
Lists == {ListOf(<<a, b>>, NIL_VAL) : a, b \in Few}
           \cup {ListOf(<<Pair(a, b), c>>, d) : a, b, c, d \in {Sym(<<"a">>), NIL_VAL}}

Printed == {[keys |-> print_val(v), datum |-> v] : v \in Atoms \cup Pairs \cup Lists}

\* Quote characters, a datum comment, a comment line behind the datum, and
\* Enter inside of a list.
Otherwise ==
  UNION {{[keys |-> <<"'">> \o print_val(v), datum |-> ListOf(<<Sym(<<"quote">>), v>>, NIL_VAL)],
          [keys |-> <<",", "@">> \o print_val(v),
           datum |-> ListOf(<<Sym(<<"unquote-splicing">>), v>>, NIL_VAL)],
          [keys |-> print_val(v) \o <<" ", ";", ")">>, datum |-> v],
          [keys |-> <<"#", "_", "(", "a", ")">> \o print_val(v), datum |-> v],
          [keys |-> <<"(", "enter">> \o print_val(v) \o <<"enter", " ", ")">>,
           datum |-> Pair(v, NIL_VAL)],
          [keys |-> <<"(", "#", "x", "f", "f", " ", "#", "t", " ", ".", " ">>
                       \o print_val(v) \o <<")">>,
           datum |-> ListOf(<<MAKE_FIXNUM(255), T_VAL>>, v)]} : v \in Few}

\* A text that fills the buffer.
TooLong == [keys |-> [k \in 1 .. LineMax |-> "a"], datum |-> <<>>]

AllSpellings == Printed \cup Otherwise \cup {TooLong}
=============================================================================
