------------------------------ MODULE EchoFifo ------------------------------
(***************************************************************************)
(* What an echo over a buffered line promises: the n-th byte to arrive is  *)
(* the n-th to be written back, none is lost or doubled, and no more than  *)
(* Room bytes wait.  A byte is the number of its arrival.                  *)
(***************************************************************************)
EXTENDS Naturals

CONSTANTS Room, MaxBytes

VARIABLES
  arrived,   \* bytes that have arrived
  echo       \* the byte written last, 0 before the first

Init == arrived = 0 /\ echo = 0

Arrive == /\ arrived < MaxBytes /\ arrived - echo < Room
          /\ arrived' = arrived + 1 /\ UNCHANGED echo

Echo == echo < arrived /\ echo' = echo + 1 /\ UNCHANGED arrived

Next == Arrive \/ Echo

Spec == Init /\ [][Next]_<<arrived, echo>>
=============================================================================
