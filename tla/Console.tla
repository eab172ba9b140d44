------------------------------ MODULE Console ------------------------------
(***************************************************************************)
(* What a resident monitor promises to the terminal and to the application *)
(* it runs: typed bytes reach the application in order, the newest is      *)
(* dropped when Capacity bytes wait, the attention key never reaches it,   *)
(* and after the key at most the byte it was asking for is still given.    *)
(***************************************************************************)
EXTENDS Naturals, Sequences

CONSTANTS
  Byte,
  Attention,      \* the key that calls the monitor
  Newline,        \* members of Byte skipped after a launch, if skip is set
  NoByte,
  Capacity        \* bytes that can wait for the application

VARIABLES
  mode,           \* "menu", "app" or "halt"
  uart,           \* byte received by the hardware and not read yet
  waiting,        \* bytes accepted for the application
  attention,      \* the key was pressed
  asked,          \* the application is asking for a byte
  skip,           \* leading newlines are not given to the application
  given           \* the byte given last

vars == <<mode, uart, waiting, attention, asked, skip, given>>

Init ==
  /\ mode \in {"menu", "app"} /\ uart = NoByte /\ waiting = <<>>
  /\ attention = FALSE /\ asked = FALSE /\ skip \in BOOLEAN /\ given = NoByte

Type ==
  /\ uart = NoByte /\ uart' \in Byte
  /\ UNCHANGED <<mode, waiting, attention, asked, skip, given>>

Receive ==
  /\ mode = "app" /\ uart # NoByte /\ uart' = NoByte
  /\ IF uart = Attention
     THEN attention' = TRUE /\ UNCHANGED waiting
     ELSE /\ waiting' = IF Len(waiting) < Capacity THEN Append(waiting, uart) ELSE waiting
          /\ UNCHANGED attention
  /\ UNCHANGED <<mode, asked, skip, given>>

Ask ==
  /\ mode = "app" /\ ~attention /\ asked' = ~asked
  /\ UNCHANGED <<mode, uart, waiting, attention, skip, given>>

StopAsking ==
  /\ asked /\ asked' = FALSE
  /\ UNCHANGED <<mode, uart, waiting, attention, skip, given>>

Take ==
  /\ mode = "app" /\ asked /\ waiting # <<>>
  /\ waiting' = Tail(waiting) /\ asked' = FALSE
  /\ IF skip /\ Head(waiting) \in Newline
     THEN UNCHANGED <<skip, given>>
     ELSE skip' = FALSE /\ given' = Head(waiting)
  /\ UNCHANGED <<mode, uart, attention>>

Back ==
  /\ mode = "app" /\ ~asked /\ mode' = "menu"
  /\ attention' \in {attention, FALSE}
  /\ UNCHANGED <<uart, waiting, asked, skip, given>>

Choose ==
  /\ mode = "menu" /\ uart # NoByte /\ uart' = NoByte
  /\ \/ UNCHANGED <<mode, waiting, attention, skip>>
     \/ mode' = "halt" /\ UNCHANGED <<waiting, attention, skip>>
     \/ mode' = "app" /\ waiting' = <<>> /\ attention' = FALSE /\ skip' \in BOOLEAN
  /\ UNCHANGED <<asked, given>>

Next == Type \/ Receive \/ Ask \/ StopAsking \/ Take \/ Back \/ Choose

Spec == Init /\ [][Next]_vars
=============================================================================
