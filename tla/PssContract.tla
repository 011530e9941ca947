---------------------------- MODULE PssContract ----------------------------
(***************************************************************************)
(* What the PSS block promises the blocks after it: a stream of half-      *)
(* frames, each tagged tracking_lost or clean, in which clean half-frames  *)
(* come in runs.  A run starts only after track_after hits in a row, the   *)
(* first track_after - 1 of them tagged; a run, or a count of hits, ends   *)
(* with a tagged half-frame and leaves no hit to build on.                 *)
(*                                                                         *)
(* The turn changes with every half-frame, so that a tagged half-frame is  *)
(* a step also when the one before it was tagged as well.                  *)
(***************************************************************************)
EXTENDS Integers

CONSTANT track_after   \* hits in a row before a run starts

VARIABLES
  points,   \* hits in a row, counted up to track_after
  sent,     \* the last half-frame handed on: its tag, "lost" or "clean" ("none"
            \* at first), and its turn, 0 or 1
  failed    \* the block has thrown: no half-frame follows

contractVars == <<points, sent, failed>>

Sent == [tag : {"none", "lost", "clean"}, turn : {0, 1}]

Init == points = 0 /\ sent = [tag |-> "none", turn |-> 0] /\ failed = FALSE

HandsOn(tag) == sent' = [tag |-> tag, turn |-> 1 - sent.turn]

(* A hit that is not enough to start a run. *)
TagHit ==
  /\ ~failed
  /\ points + 1 < track_after
  /\ points' = points + 1 /\ HandsOn("lost")
  /\ UNCHANGED failed

(* The end of a run, or of a count of hits. *)
TagLoss ==
  /\ ~failed
  /\ points > 0
  /\ points' = 0 /\ HandsOn("lost")
  /\ UNCHANGED failed

(* A hit that starts or continues a run. *)
HandOnClean ==
  /\ ~failed
  /\ points + 1 >= track_after
  /\ points' = track_after /\ HandsOn("clean")
  /\ UNCHANGED failed

(* A hit that would have, but for an error. *)
Fail ==
  /\ ~failed
  /\ points + 1 >= track_after
  /\ points' = track_after /\ failed' = TRUE
  /\ UNCHANGED sent

Next == TagHit \/ TagLoss \/ HandOnClean \/ Fail

Spec == Init /\ [][Next]_contractVars

=============================================================================
