---------------------------- MODULE MCTerminals ----------------------------
(* Bytes of two binary digits, two addresses, lines of at most seven. *)
EXTENDS Terminals

MChextab == <<"0", "1">>
MCOther  == {"x"}

Program1 == <<"L", "0", "0", "1", "1", "0", NL, "L", "0", "1", "1", NL, "G", "1", NL>>
BadDigit == <<"L", "0", "0", "1", "1", "x", NL, "G", "0", NL>>
OddDigit == <<"L", "1", "0", "1", "1", NL, "L", "0", "1", "0", NL>>
TooLong  == <<"L", "0", "0", "1", "1", "0", "0", "1", NL, "G", "0", NL>>
CrLf     == <<";", CR, NL>>
GoFirst  == <<"G", "1", NL, "L", "0", "1", "1", NL, "x">>

MCNoise == {"1", NL}

MCFiles == {Program1, BadDigit, OddDigit, TooLong, CrLf, GoFirst}
=============================================================================
