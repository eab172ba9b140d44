------------------------------ MODULE MCRelay ------------------------------
(* Instances of Relay for TLC: two topics of two workers, or of one. *)
EXTENDS Relay

TwoWorkers == [t \in Topics |-> IF t = "a" THEN "dev1" ELSE "dev2"]
OneWorker == [t \in Topics |-> "dev1"]
Both   == {NoRef, {0}}
Fresh  == {NoRef}
=============================================================================
