-------------------------------- MODULE Mib --------------------------------
(***************************************************************************)
(* The master-information block, lib/mib_impl.{h,cc}.                      *)
(*                                                                         *)
(* A call of general_work is given one or more half-frames, looks only at  *)
(* the tags of the first item, and either resets itself (tracking_lost),   *)
(* skips the half-frame (a cell is published already, or there are no cell *)
(* tags), or tries to decode the master information of the tagged cell.    *)
(* Success publishes the cell on the track port; the next reset publishes  *)
(* the same cell on the drop port.                                         *)
(*                                                                         *)
(* The decoder d_mib keeps the cell it was last set up for, the setting of *)
(* nof_ports it was given with it, and the sample buffer it was            *)
(* initialised with.  Assigning d_sf_buffer[0] replaces that buffer        *)
(* whenever the samples no longer fit, so a buffer is named by its         *)
(* capacity in half-frames: 0 for the constructor's, which holds none.     *)
(***************************************************************************)
EXTENDS Integers, Sequences

CONSTANTS
  NofPorts,         \* the numbers of antenna ports a decode can report
  MaxHalfFrames,    \* half-frames the scheduler may offer in one call
  exit_on_success,  \* constructor argument
  NIL               \* pmt::PMT_NIL

VARIABLES
  sss_out,    \* the stream from sss: half-frames [lost, run, cell]
  published,  \* d_cell_published
  current,    \* d_current_tracking_cell
  d_cell,     \* d_cell: [id, cp, nof_ports]
  d_mib,      \* the decoder: [state, cell, buf], state "new", "set" or "failed"
  sf_buffer,  \* d_sf_buffer[0], by its capacity
  done,       \* general_work has returned WORK_DONE
  said,       \* the last message posted: [port, cell, turn] (see MibContract)
  decoded     \* history variable: the run of the half-frame last decoded, and
              \* the state of the decoder it was decoded by: [run, by]

state == <<published, current, d_cell, d_mib, sf_buffer, done, said, decoded>>

(* The cell whose set-up a new decoder has: none. *)
Unset == [id |-> NIL, cp |-> NIL, nof_ports |-> NIL]

Init ==
  /\ published = FALSE /\ current = NIL
  /\ d_cell = [id |-> 0, cp |-> "norm", nof_ports |-> 0]
  /\ d_mib = [state |-> "new", cell |-> Unset, buf |-> 0]
  /\ sf_buffer = 0
  /\ done = FALSE
  /\ said = [port |-> "none", cell |-> NIL, turn |-> 0]
  /\ decoded = [run |-> NIL, by |-> NIL]

----------------------------------------------------------------------------
first == Head(sss_out)

(* consume_each(n half-frames) *)
Consume(n) == sss_out' = SubSeq(sss_out, n + 1, Len(sss_out))

(* Mutant: the samples are moved into the buffer, not copied. *)
StoreByMove(n) == sf_buffer' = n

(* d_sf_buffer[0] = v, for n half-frames: done first, in every call. *)
Store(n) == sf_buffer' = IF n > sf_buffer THEN n ELSE sf_buffer

Post(port, cell) ==
  said' = [port |-> port, cell |-> cell, turn |-> 1 - said.turn]

(* Mutant: d_cell_published is not cleared, so the next reset drops again. *)
ResetStaysPublished(n) ==
  /\ first.lost
  /\ IF published THEN Post("drop", current) ELSE UNCHANGED said
  /\ Store(n) /\ Consume(1)
  /\ UNCHANGED <<published, current, d_cell, d_mib, done, decoded>>

(* A tracking_lost tag: drop what was published, start over.               *)
(* srslte_ue_mib_reset keeps the decoder's cell and buffer.                *)
Reset(n) ==
  /\ first.lost
  /\ IF published THEN Post("drop", current) ELSE UNCHANGED said
  /\ published' = FALSE /\ current' = NIL
  /\ Store(n) /\ Consume(1)
  /\ UNCHANGED <<d_cell, d_mib, done, decoded>>

(* Mutant: a published cell makes the call skip before it looks for tags. *)
SkipBeforeTags(n) ==
  /\ published \/ (~first.lost /\ first.cell.id = NIL)
  /\ Store(n) /\ Consume(1)
  /\ UNCHANGED <<published, current, d_cell, d_mib, done, said, decoded>>

(* A cell is published already, or this half-frame has no cell tags. *)
Skip(n) ==
  /\ ~first.lost
  /\ published \/ first.cell.id = NIL
  /\ Store(n) /\ Consume(1)
  /\ UNCHANGED <<published, current, d_cell, d_mib, done, said, decoded>>

(* This call's half-frame is to be decoded. *)
ToDecode == ~first.lost /\ ~published /\ first.cell.id # NIL

NewCell == first.cell.id # d_cell.id \/ first.cell.cp # d_cell.cp

(* d_cell of this call: id and prefix from the tags, the rest as it was. *)
TaggedD == [d_cell EXCEPT !.id = first.cell.id, !.cp = first.cell.cp]

(* srslte_ue_mib_init fails: the half-frame is skipped, d_cell is not       *)
(* restored, and the decoder is no longer usable.                           *)
InitFails(n) ==
  /\ ToDecode /\ NewCell
  /\ d_cell' = TaggedD
  /\ d_mib' = [d_mib EXCEPT !.state = "failed"]
  /\ Store(n) /\ Consume(1)
  /\ UNCHANGED <<published, current, done, said, decoded>>

(* The decoder this call decodes with: set up anew for a new cell. *)
decoder == IF NewCell
             THEN [state |-> "set", cell |-> TaggedD, buf |-> sf_buffer']
             ELSE d_mib

NotFound(n) ==
  /\ ToDecode
  /\ Store(n) /\ Consume(n)
  /\ d_cell' = TaggedD
  /\ d_mib' = decoder
  /\ decoded' = [run |-> first.run, by |-> decoder.state]
  /\ UNCHANGED <<published, current, done, said>>

(* srslte_ue_mib_decode detects the ports of the cell only if it was set    *)
(* up with nof_ports = 0.                                                   *)
Detected == IF decoder.cell.nof_ports \in NofPorts
              THEN {decoder.cell.nof_ports} ELSE NofPorts

(* The cell is published; only a block that is not to exit goes on to       *)
(* consume what it was offered.                                             *)
Found(n) ==
  /\ ToDecode
  /\ Store(n)
  /\ d_mib' = decoder
  /\ decoded' = [run |-> first.run, by |-> decoder.state]
  /\ \E ports \in Detected : d_cell' = [TaggedD EXCEPT !.nof_ports = ports]
  /\ current' = d_cell'
  /\ Post("track", d_cell')
  /\ published' = TRUE
  /\ IF exit_on_success
       THEN done' = TRUE /\ UNCHANGED sss_out
       ELSE UNCHANGED done /\ Consume(n)

(* The scheduler offers what the stream holds, up to MaxHalfFrames. *)
GeneralWork ==
  /\ ~done
  /\ \E n \in 1 .. MaxHalfFrames :
       /\ n <= Len(sss_out)
       /\ Reset(n) \/ Skip(n) \/ InitFails(n) \/ NotFound(n) \/ Found(n)

=============================================================================
