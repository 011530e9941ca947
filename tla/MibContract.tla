---------------------------- MODULE MibContract ----------------------------
(***************************************************************************)
(* What a mib block promises the subscribers of its two message ports:     *)
(* after track(c) the next message is drop(c), with the very same c, and   *)
(* after a drop, or at the start, the next one is a track.                 *)
(*                                                                         *)
(* The turn changes with every message, so that a message posted again is  *)
(* a step as well, and none that the contract allows.                      *)
(***************************************************************************)
EXTENDS Integers

CONSTANT Cell   \* the cell descriptions a message can carry

VARIABLE said   \* the last message posted: [port, cell, turn], turn 0 or 1;
                \* port "none" at first

Init == said.port = "none" /\ said.turn = 0

Track(c) ==
  /\ said.port # "track"
  /\ said' = [port |-> "track", cell |-> c, turn |-> 1 - said.turn]

Drop ==
  /\ said.port = "track"
  /\ said' = [port |-> "drop", cell |-> said.cell, turn |-> 1 - said.turn]

Next == Drop \/ \E c \in Cell : Track(c)

Spec == Init /\ [][Next]_said

=============================================================================
