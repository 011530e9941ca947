--------------------------- MODULE StoreContract ---------------------------
(***************************************************************************)
(* What a cellstore promises whoever reads its list, without queues,       *)
(* handles or order: a cell gets into the list only once for each time it  *)
(* is announced, and leaves it only when its chain has given it up.        *)
(***************************************************************************)
CONSTANT Cell   \* the cells that can be announced, each with the id of a chain

VARIABLES
  tracked,   \* the cells the chains are tracking
  pending,   \* the cells announced and not yet in the list
  listed     \* the list, as a set

contractVars == <<tracked, pending, listed>>

Init == tracked = {} /\ pending = {} /\ listed = {}

(* A chain that tracks nothing has found a cell. *)
Announce(c) ==
  /\ c \notin tracked \cup pending \cup listed
  /\ \A d \in tracked : d.id # c.id
  /\ tracked' = tracked \cup {c} /\ pending' = pending \cup {c}
  /\ UNCHANGED listed

(* Its chain has lost the cell, whether the list shows it yet or not. *)
Withdraw(c) ==
  /\ c \in tracked
  /\ tracked' = tracked \ {c}
  /\ UNCHANGED <<pending, listed>>

Show(c) ==
  /\ c \in pending
  /\ pending' = pending \ {c} /\ listed' = listed \cup {c}
  /\ UNCHANGED tracked

Hide(c) ==
  /\ c \in listed \ tracked
  /\ listed' = listed \ {c}
  /\ UNCHANGED <<tracked, pending>>

Next == \E c \in Cell : Announce(c) \/ Withdraw(c) \/ Show(c) \/ Hide(c)

Spec == Init /\ [][Next]_contractVars

=============================================================================
