-------------------------------- MODULE Sss --------------------------------
(***************************************************************************)
(* The secondary-synchronisation block, lib/sss_impl.{h,cc}.               *)
(*                                                                         *)
(* A call of work takes one half-frame off the stream from the pss block   *)
(* and passes it on to the mib block, tagged with the cell id and the      *)
(* cyclic-prefix type detected in it.  The prefix type comes from an       *)
(* average over the half-frames since the last reset; a tracking_lost tag  *)
(* resets it, and is itself passed on by the tag propagation policy.       *)
(***************************************************************************)
EXTENDS Integers, Sequences

CONSTANTS
  N_id_2,      \* which primary signal the chain looks for: 0, 1 or 2
  N_id_1,      \* the secondary identities that can be detected
  StreamCap,   \* half-frames a stream buffer holds (2: see GNU Radio's sizing)
  NoCell       \* the mark of a half-frame without cell_id and cp_type tags

VARIABLES
  pss_out,     \* the stream from pss: half-frames [lost, run]
  sss_out,     \* the stream to mib: half-frames [lost, run, cell]
  cp_avg       \* the runs whose half-frames d_sync's prefix average holds

CpType == {"norm", "ext"}

(* srslte_sync_get_cell_id *)
CellId(n) == 3 * n + N_id_2

(* What the two tags can say. *)
TaggedCell == [id : {CellId(n) : n \in N_id_1}, cp : CpType]

(* Mutant: called without room for its output. *)
ForwardIntoFull(cell) ==
  /\ pss_out # <<>>
  /\ pss_out' = Tail(pss_out)
  /\ sss_out' = Append(sss_out, [lost |-> Head(pss_out).lost,
                                 run  |-> Head(pss_out).run,
                                 cell |-> cell])

(* One half-frame in, one out, in the same call. *)
Forward(cell) ==
  /\ pss_out # <<>> /\ Len(sss_out) < StreamCap
  /\ pss_out' = Tail(pss_out)
  /\ sss_out' = Append(sss_out, [lost |-> Head(pss_out).lost,
                                 run  |-> Head(pss_out).run,
                                 cell |-> cell])

(* Mutant: the tag is passed on and the average is kept. *)
ResetKeepsAverage ==
  /\ Forward(NoCell)
  /\ Head(pss_out).lost
  /\ UNCHANGED cp_avg

(* A tracking_lost tag: forget the last cell, detect nothing. *)
Reset ==
  /\ Forward(NoCell)
  /\ Head(pss_out).lost
  /\ cp_avg' = {}

(* No valid N_id_1: the half-frame carries no tags for the mib block. *)
Unidentified ==
  /\ Forward(NoCell)
  /\ ~Head(pss_out).lost
  /\ cp_avg' = cp_avg \cup {Head(pss_out).run}

(* The cell id and the prefix type go out as tags of this half-frame. *)
Identify(cell) ==
  /\ Forward(cell)
  /\ ~Head(pss_out).lost
  /\ cp_avg' = cp_avg \cup {Head(pss_out).run}

Work == Reset \/ Unidentified \/ \E cell \in TaggedCell : Identify(cell)

=============================================================================
