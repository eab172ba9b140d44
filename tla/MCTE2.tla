------------------------------- MODULE MCTE2 -------------------------------
(***************************************************************************)
(* Instances of TE2 for TLC: two cells below the loader, two byte values,  *)
(* images of one and two records, one of them writing a cell twice, and    *)
(* two that reach into the loader, by a record and by the entry.           *)
(***************************************************************************)
EXTENDS TE2

R(a, d) == [addr |-> a, data |-> d]

One      == [entry |-> 0, recs |-> <<R(0, "x")>>]
Other    == [entry |-> 0, recs |-> <<R(0, "y")>>]
Two      == [entry |-> 1, recs |-> <<R(0, "x"), R(1, "y")>>]
Twice    == [entry |-> 0, recs |-> <<R(0, "y"), R(0, "x")>>]
Overlap  == [entry |-> 0, recs |-> <<R(1, "x"), R(2, "y")>>]
NoEntry  == [entry |-> 2, recs |-> <<R(1, "y")>>]

Differ   == {Other, Two}
Mixed    == {One, Two, Twice, Overlap, NoEntry}
=============================================================================
