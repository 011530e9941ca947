------------------------------- MODULE MCPss -------------------------------
(***************************************************************************)
(* Instances of the PSS block for TLC: two samples per slot, twenty per    *)
(* half-frame.  Ratios 1, 3, 5 lie below, between and above the thresholds *)
(* 2 and 4, so that moving the threshold alone can win or lose a cell; a   *)
(* request for threshold 0 is raised to the minimum.                       *)
(***************************************************************************)
EXTENDS Pss

MCRatio == {1, 3, 5}
MCThreshold == {0, 4}

(* Only the aligned peak, and one half-frame at a time: runs about scores. *)
AlignedPeak == {slot_length}
HalfFrames == {half_frame_length}

(* The first and the last peak a search can report, the aligned one and    *)
(* the one after it; odd chunks of input.  What a call consumes grows with *)
(* the peak, so it is least and most at the first and the last.            *)
EdgePeaks == {0, slot_length, slot_length + 1, half_frame_length + symbol_sz - 1}
OddChunks == {1, 7, half_frame_length}

=============================================================================
