----------------------------- MODULE Cellstore -----------------------------
(***************************************************************************)
(* The cellstore block, lib/cellstore_impl.{h,cc}: a list of the cells     *)
(* announced on its track port and not yet withdrawn on its drop port.     *)
(*                                                                         *)
(* Each port has a queue of its own.  The block's thread goes round the    *)
(* ports and empties one before it looks at the next, calling the port's   *)
(* handler for every message; the handlers and the queries share d_mutex,  *)
(* so each of them is one step.                                            *)
(***************************************************************************)
EXTENDS Integers, Sequences, FiniteSets, Functions

VARIABLES
  track_port,  \* messages waiting on port "track"
  drop_port,   \* messages waiting on port "drop"
  port,        \* the port the thread is emptying
  d_cells      \* the list

storeVars == <<track_port, drop_port, port, d_cells>>

Init ==
  /\ track_port = <<>> /\ drop_port = <<>> /\ port \in {"track", "drop"}
  /\ d_cells = <<>>

(* Mutant: a new cell goes to the front of the list. *)
TrackCellInFront ==
  /\ port = "track" /\ track_port # <<>>
  /\ d_cells' = <<Head(track_port)>> \o d_cells
  /\ track_port' = Tail(track_port)
  /\ UNCHANGED <<drop_port, port>>

(* Mutant: a cell is kept only if the list is empty. *)
TrackFirstOnly ==
  /\ port = "track" /\ track_port # <<>>
  /\ d_cells' = IF d_cells = <<>> THEN <<Head(track_port)>> ELSE d_cells
  /\ track_port' = Tail(track_port)
  /\ UNCHANGED <<drop_port, port>>

(* track_cell.  Every message of a mib block has a cell_id. *)
TrackCell ==
  /\ port = "track" /\ track_port # <<>>
  /\ d_cells' = Append(d_cells, Head(track_port))
  /\ track_port' = Tail(track_port)
  /\ UNCHANGED <<drop_port, port>>

(* Mutant: the comparison that is commented out, by content.               *)
SameContent(a, b) == a.id = b.id

(* std::list::remove compares the pmt handles: the very same message.      *)
Same(a, b) == a = b

(* Mutant: only the latest cell is compared with the message. *)
DropLatestOnly ==
  /\ port = "drop" /\ drop_port # <<>>
  /\ d_cells' = IF d_cells # <<>> /\ d_cells[Len(d_cells)] = Head(drop_port)
                  THEN SubSeq(d_cells, 1, Len(d_cells) - 1) ELSE d_cells
  /\ drop_port' = Tail(drop_port)
  /\ UNCHANGED <<track_port, port>>

(* The enumerations of a set of positions from first to last: exactly one. *)
InOrder(kept) ==
  {f \in Bijection(1 .. Cardinality(kept), kept) :
     \A i, j \in DOMAIN f : i < j => f[i] < f[j]}

(* drop_cell: every other entry is kept, in its place in the order. *)
DropCell ==
  /\ port = "drop" /\ drop_port # <<>>
  /\ \E f \in InOrder({i \in DOMAIN d_cells : ~Same(d_cells[i], Head(drop_port))}) :
       d_cells' = [i \in DOMAIN f |-> d_cells[f[i]]]
  /\ drop_port' = Tail(drop_port)
  /\ UNCHANGED <<track_port, port>>

(* The port is empty: on to the next one. *)
NextPort ==
  /\ IF port = "track" THEN track_port = <<>> ELSE drop_port = <<>>
  /\ port' = IF port = "track" THEN "drop" ELSE "track"
  /\ UNCHANGED <<track_port, drop_port, d_cells>>

HandleMessage == TrackCell \/ DropCell

Thread == HandleMessage \/ NextPort

=============================================================================
