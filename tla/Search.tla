------------------------------- MODULE Search -------------------------------
(***************************************************************************)
(* examples/cell_search_file.py: one search for cells in a file.  The      *)
(* script starts a flowgraph of three chains that exit on success and a    *)
(* cellstore, perhaps stops it when its time is out, waits for it to end,  *)
(* and reports what the cellstore then holds.                              *)
(*                                                                         *)
(* Every block has a thread of its own.  A chain's threads end together:   *)
(* when its mib block returns WORK_DONE, when the input has ended or       *)
(* another chain has exited (the scheduler marks the streams of a finished *)
(* block as done, up to the source that all chains share and down again),  *)
(* or when the flowgraph is stopped.  A pss block that throws leaves the   *)
(* two threads behind it waiting for half-frames, and the source waiting   *)
(* for it to read.  The cellstore's thread ends after the first mib block  *)
(* that ends, or when stopped, whatever its ports still hold.              *)
(***************************************************************************)
EXTENDS Integers, Sequences, SequencesExt

CONSTANTS
  Chain,    \* the chains, by their N_id_2
  Pmt,      \* the handles of the messages that are posted
  NIL       \* pmt::PMT_NIL

VARIABLES
  args,        \* the options given: repeat, cut_off and time_out
  pc,          \* where main is: "timing", "waiting", "asking", "listing", "done"
  stopped,     \* main has called tb.stop()
  tracking,    \* the cellstore's answer to tracking()
  results,     \* what main reports: the cells, or nothing for NOT_FOUND
  input,       \* the source: "flowing" or "ended"
  chain,       \* the mib and sss threads of each chain: "running" or "ended"
  exited,      \* the chains whose mib block has returned WORK_DONE
  failed,      \* the chains whose pss block has thrown
  store,       \* the cellstore's thread: "running" or "ended"
  track_port, drop_port, port, d_cells, said, overtaken   \* see Trigger

mainVars == <<args, pc, stopped, tracking, results>>
chainVars == <<chain, exited, failed>>
graphVars == <<track_port, drop_port, port, d_cells, said, overtaken>>
vars == <<mainVars, input, chainVars, store, graphVars>>

Graph == INSTANCE Trigger

----------------------------------------------------------------------------
(* The flowgraph.                                                          *)

Running(k) == chain[k] = "running"

(* Mutant: WORK_DONE is not returned. *)
FindAndGoOn(k, p) ==
  /\ Running(k)
  /\ Graph!Publish(k, p)
  /\ UNCHANGED <<mainVars, input, chainVars, store>>

(* The source's streams are done: it has ended, or heard from a chain that  *)
(* has exited; a pss block that has thrown passes nothing on.               *)
NoMoreInput == input = "ended" \/ exited \ failed # {}

(* Chain k's mib block finds a cell, posts it and returns WORK_DONE. *)
Find(k, p) ==
  /\ Running(k)
  /\ Graph!Publish(k, p)
  /\ chain' = [chain EXCEPT ![k] = "ended"]
  /\ exited' = exited \cup {k}
  /\ UNCHANGED <<mainVars, input, failed, store>>

(* Chain k's pss block throws.  What it handed on before is still decoded. *)
Throw(k) ==
  /\ Running(k) /\ k \notin failed
  /\ failed' = failed \cup {k}
  /\ UNCHANGED <<mainVars, input, chain, exited, store, graphVars>>

(* Chain k has used up what was left of the input, or is interrupted. *)
EndChain(k) ==
  /\ Running(k)
  /\ stopped \/ (k \notin failed /\ NoMoreInput)
  /\ chain' = [chain EXCEPT ![k] = "ended"]
  /\ UNCHANGED <<mainVars, input, exited, failed, store, graphVars>>

(* Mutant: the head block is created and not connected. *)
EndInputOfFile ==
  /\ input = "flowing" /\ ~args.repeat
  /\ input' = "ended"
  /\ UNCHANGED <<mainVars, chainVars, store, graphVars>>

(* The end of a file that is not repeated, or of the samples to read. *)
EndInput ==
  /\ input = "flowing" /\ (~args.repeat \/ args.cut_off)
  /\ input' = "ended"
  /\ UNCHANGED <<mainVars, chainVars, store, graphVars>>

StoreWork ==
  /\ store = "running"
  /\ Graph!StoreThread
  /\ UNCHANGED <<mainVars, input, chainVars, store>>

EndStore ==
  /\ store = "running"
  /\ stopped \/ \E k \in Chain : ~Running(k)
  /\ store' = "ended"
  /\ UNCHANGED <<mainVars, input, chainVars, graphVars>>

(* Mutant: the cellstore's thread is not waited for. *)
ChainsEnded == \A k \in Chain : ~Running(k)

(* tb.wait() has joined every thread. *)
GraphEnded ==
  /\ NoMoreInput \/ stopped
  /\ store = "ended"
  /\ \A k \in Chain : ~Running(k)

----------------------------------------------------------------------------
(* The script.                                                             *)

(* args.cut_off == -1 and args.time_out > -1 *)
Timed(a) == ~a.cut_off /\ a.time_out

(* Main is past tb.start(). *)
Init ==
  /\ args \in [repeat : BOOLEAN, cut_off : BOOLEAN, time_out : BOOLEAN]
  /\ pc = IF Timed(args) THEN "timing" ELSE "waiting"
  /\ stopped = FALSE /\ tracking = FALSE /\ results = <<>>
  /\ input = "flowing"
  /\ chain = [k \in Chain |-> "running"] /\ exited = {} /\ failed = {}
  /\ store = "running"
  /\ Graph!Init

(* Mutant: the flowgraph is not stopped. *)
TimeOutForgetsStop ==
  /\ pc = "timing" /\ pc' = "waiting"
  /\ UNCHANGED <<args, stopped, tracking, results,
                 input, chainVars, store, graphVars>>

(* The time is out.  The loop does not look whether the search has ended. *)
TimeOut ==
  /\ pc = "timing" /\ pc' = "waiting"
  /\ stopped' = TRUE
  /\ UNCHANGED <<args, tracking, results, input, chainVars, store, graphVars>>

Wait ==
  /\ pc = "waiting" /\ pc' = "asking"
  /\ GraphEnded
  /\ UNCHANGED <<args, stopped, tracking, results,
                 input, chainVars, store, graphVars>>

(* tb.cellstore.tracking() *)
AskTracking ==
  /\ pc = "asking" /\ pc' = "listing"
  /\ tracking' = (d_cells # <<>>)
  /\ UNCHANGED <<args, stopped, results, input, chainVars, store, graphVars>>

(* Mutant: latest_cell() is reported, whatever tracking() said. *)
ReportLatest ==
  /\ pc = "listing" /\ pc' = "done"
  /\ results' = IF d_cells = <<>> THEN <<NIL>> ELSE <<Last(d_cells)>>
  /\ UNCHANGED <<args, stopped, tracking, input, chainVars, store, graphVars>>

(* tb.cellstore.cells(), each FOUND, or NOT_FOUND *)
Report ==
  /\ pc = "listing" /\ pc' = "done"
  /\ results' = IF tracking THEN d_cells ELSE <<>>
  /\ UNCHANGED <<args, stopped, tracking, input, chainVars, store, graphVars>>

Main == TimeOut \/ Wait \/ AskTracking \/ Report

ChainStep(k) == Throw(k) \/ EndChain(k) \/ \E p \in Pmt : Find(k, p)

Next ==
  \/ Main
  \/ EndInput
  \/ \E k \in Chain : ChainStep(k)
  \/ StoreWork \/ EndStore

Spec == Init /\ [][Next]_vars

(***************************************************************************)
(* Every thread that can go on does.  A source that waits for a pss block  *)
(* that has thrown cannot, and nothing makes a chain find a cell or throw. *)
(***************************************************************************)
Fairness ==
  /\ WF_vars(Main)
  /\ WF_vars(failed = {} /\ EndInput)
  /\ \A k \in Chain : WF_vars(EndChain(k))
  /\ WF_vars(StoreWork) /\ WF_vars(EndStore)

FairSpec == Spec /\ Fairness

----------------------------------------------------------------------------
(* Safety.                                                                 *)

(* The type of every variable of the script and its flowgraph. *)
TypeOK ==
  /\ args \in [repeat : BOOLEAN, cut_off : BOOLEAN, time_out : BOOLEAN]
  /\ pc \in {"timing", "waiting", "asking", "listing", "done"}
  /\ stopped \in BOOLEAN /\ tracking \in BOOLEAN
  /\ results \in Seq(Graph!Message)
  /\ input \in {"flowing", "ended"} /\ store \in {"running", "ended"}
  /\ chain \in [Chain -> {"running", "ended"}]
  /\ exited \subseteq Chain /\ failed \subseteq Chain
  /\ Graph!TypeOK

(* The two queries are answered by one and the same list, and the list     *)
(* reported is the last one: no cell arrives or leaves between tracking()  *)
(* and cells(), or behind the report, however the search ended.            *)
ReportIsFinal ==
  /\ pc \in {"listing", "done"} => (tracking <=> d_cells # <<>>)
  /\ pc = "done" => results = d_cells

(* Every cell a chain exited with is reported once or was still waiting    *)
(* for the cellstore when that was stopped; no other cell is reported.     *)
(* (In a search no drop can overtake its track: see LeftoversWereOvertaken)*)
ReportAccountsForAll ==
  pc = "done" =>
    /\ \A c \in Graph!Current : Graph!OnceIn(c, results \o track_port)
    /\ ToSet(results) \subseteq Graph!Current

(* The report is made once, of the cells found first and in that order: a  *)
(* cell that misses the cellstore is always one of the last, no chain finds*)
(* two, and none finds any behind the report (see SearchContract).         *)
Contract == INSTANCE SearchContract
              WITH Cell <- Graph!Message, found <- Graph!stored,
                   report <- IF pc = "done" THEN <<results>> ELSE <<>>
ReportContract == Contract!Spec

----------------------------------------------------------------------------
(* What the documentation says and the code does not do.                   *)

(* README.rst:89 "--time-out sec max time in seconds to perform search":  *)
(* a search with a time-out ends.                                          *)
TimeOutIsMax == args.time_out ~> pc = "done"

----------------------------------------------------------------------------
(* Liveness.                                                               *)

(* A search without a cut-off ends when its time is out, even if a chain   *)
(* has thrown and left its other threads waiting.                          *)
TimeOutEndsSearch == Timed(args) ~> pc = "done"

(* A search of a finite input ends, unless a chain throws.                 *)
InputEndEndsSearch ==
  ~args.repeat \/ args.cut_off ~> pc = "done" \/ failed # {}

(* One chain that finds a cell ends the search for all three, unless a     *)
(* chain throws, though the others may be in the middle of their input.    *)
FoundEndsSearch == Graph!Current # {} ~> pc = "done" \/ failed # {}

=============================================================================
