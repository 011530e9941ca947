--------------------------- MODULE SearchContract ---------------------------
(***************************************************************************)
(* What a search promises its user: it reports once, in the order in which *)
(* they were found, the cells found up to some moment before it ended.     *)
(***************************************************************************)
EXTENDS Naturals, Sequences

CONSTANT Cell   \* the cells that can be found, each with the id of a chain

VARIABLES
  found,    \* the cells the chains have found, the first one first
  report    \* <<>>, or a sequence of one: the cells reported

contractVars == <<found, report>>

Init == found = <<>> /\ report = <<>>

(* A chain finds one cell at the most, and none behind the report. *)
Find(c) ==
  /\ report = <<>>
  /\ \A i \in DOMAIN found : found[i].id # c.id
  /\ found' = Append(found, c)
  /\ UNCHANGED report

Report ==
  /\ report = <<>>
  /\ \E n \in 0 .. Len(found) : report' = <<SubSeq(found, 1, n)>>
  /\ UNCHANGED found

Next == Report \/ \E c \in Cell : Find(c)

Spec == Init /\ [][Next]_contractVars

=============================================================================
