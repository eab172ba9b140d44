---------------------------- MODULE MCLispText ----------------------------
(* Small pools for LispText: two texts, one of them a name gensym makes. *)
EXTENDS LispText, Bitwise

MCChar == ToSet(Digit) \cup {"a", "nil", "t", "_g"}
MCTexts == {<<"a", "a">>, <<"_g", "1">>}

\* The bitwise or of LispText is the one of the community modules.
ASSUME BitOrIsBitwise == \A a, b \in 0 .. 40 : BitOr[a][b] = a | b
=============================================================================
