------------------------------- MODULE Chain -------------------------------
(***************************************************************************)
(* One of the three chains of downlink_trigger_c: pss -> sss -> mib.  Each *)
(* block runs on a thread of its own and is called when its input stream   *)
(* holds a half-frame and its output stream has room for one.  The pss     *)
(* block is represented by what it promises (PssContract, which Pss is     *)
(* proved to implement); the other two are the blocks themselves.          *)
(***************************************************************************)
EXTENDS Integers, Sequences, FiniteSets

CONSTANTS
  track_after,       \* the pss block's: hits in a row before a run starts
  N_id_2, N_id_1,    \* the chain's primary identity, the secondary ones
  StreamCap,         \* half-frames a stream buffer holds, and a call is offered
  NofPorts,          \* the numbers of antenna ports a decode can report
  exit_on_success,   \* the mib block's
  Run,               \* names for the runs of clean half-frames
  NIL                \* pmt::PMT_NIL, and the value of an absent tag

ASSUME ChainAssumption ==
  /\ track_after \in Nat \ {0} /\ StreamCap \in Nat \ {0}
  /\ N_id_2 \in 0 .. 2 /\ N_id_1 \subseteq 0 .. 167
  /\ NofPorts \subseteq Nat \ {0} /\ exit_on_success \in BOOLEAN
  /\ \E r, s \in Run : r # s

VARIABLES
  points, sent, failed,       \* the pss block: see PssContract
  run,                        \* the current run of half-frames
  pss_out,                    \* the stream from pss to sss
  cp_avg,                     \* the sss block
  sss_out,                    \* the stream from sss to mib
  published, current, d_cell, d_mib, sf_buffer, done, said, decoded  \* mib

pssVars == <<points, sent, failed, run>>
mibVars == <<published, current, d_cell, d_mib, sf_buffer, done, said, decoded>>
vars == <<pssVars, pss_out, cp_avg, sss_out, mibVars>>

NoCell == [id |-> NIL, cp |-> NIL]

Pss == INSTANCE PssContract
Sss == INSTANCE Sss
Mib == INSTANCE Mib WITH MaxHalfFrames <- StreamCap

Init ==
  /\ Pss!Init /\ run \in Run
  /\ pss_out = <<>> /\ cp_avg = {} /\ sss_out = <<>>
  /\ Mib!Init

(***************************************************************************)
(* A call of the pss block that hands on a half-frame.  A loss ends the    *)
(* run and its half-frame already belongs to the next one, which has any   *)
(* other name: a new one, or one of a run long past.                       *)
(***************************************************************************)
HandOn ==
  /\ Len(pss_out) < StreamCap
  /\ Pss!TagHit \/ Pss!TagLoss \/ Pss!HandOnClean
  /\ run' \in IF points = track_after /\ points' = 0 THEN Run \ {run} ELSE {run}
  /\ pss_out' = Append(pss_out, [lost |-> sent'.tag = "lost", run |-> run'])
  /\ UNCHANGED <<cp_avg, sss_out, mibVars>>

(* A call of the pss block that throws. *)
Throw ==
  /\ Len(pss_out) < StreamCap
  /\ Pss!Fail
  /\ UNCHANGED <<run, pss_out, cp_avg, sss_out, mibVars>>

SssWork == Sss!Work /\ UNCHANGED <<pssVars, mibVars>>

MibWork == Mib!GeneralWork /\ UNCHANGED <<pssVars, pss_out, cp_avg>>

Next == HandOn \/ Throw \/ SssWork \/ MibWork

Spec == Init /\ [][Next]_vars

(***************************************************************************)
(* The scheduler calls a block that can make progress.  Nothing makes the  *)
(* pss block hand on another half-frame.                                   *)
(***************************************************************************)
FairSpec == Spec /\ WF_vars(SssWork) /\ WF_vars(MibWork)

----------------------------------------------------------------------------
(* Safety.                                                                 *)

HalfFrame == [lost : BOOLEAN, run : Run]
TaggedFrame == [lost : BOOLEAN, run : Run,
                cell : Sss!TaggedCell \cup {NoCell}]

OwnId == {Sss!CellId(n) : n \in N_id_1}

DCell == [id : {0} \cup OwnId, cp : Sss!CpType, nof_ports : {0} \cup NofPorts]

(* The cells a message can describe: never the constructor's default.      *)
OwnCell == [id : OwnId, cp : Sss!CpType, nof_ports : NofPorts]

(* The type of every variable of the chain. *)
TypeOK ==
  /\ points \in 0 .. track_after /\ sent \in Pss!Sent
  /\ failed \in BOOLEAN /\ run \in Run
  /\ pss_out \in Seq(HalfFrame) /\ sss_out \in Seq(TaggedFrame)
  /\ Len(pss_out) <= StreamCap /\ Len(sss_out) <= StreamCap
  /\ cp_avg \subseteq Run
  /\ published \in BOOLEAN /\ done \in BOOLEAN
  /\ current \in OwnCell \cup {NIL}
  /\ d_cell \in DCell
  /\ d_mib \in [state : {"new", "set", "failed"}, cell : DCell \cup {Mib!Unset},
                buf : 0 .. StreamCap]
  /\ sf_buffer \in 0 .. StreamCap
  /\ said \in [port : {"none", "track", "drop"}, cell : OwnCell \cup {NIL},
               turn : {0, 1}]
  /\ decoded \in [run : Run \cup {NIL}, by : {"new", "set", "failed", NIL}]

(* The prefix type sent to the mib block is averaged over half-frames of   *)
(* one run only, the run of the next half-frame the sss block will average,*)
(* however far the blocks have drifted apart.                              *)
PrefixOfOneRun ==
  /\ Cardinality(cp_avg) <= 1
  /\ pss_out # <<>> /\ ~Head(pss_out).lost => cp_avg \subseteq {Head(pss_out).run}

(* The mib block never takes the cell published in one run for a cell of   *)
(* the next run: it resets in between, though one tag may be consumed      *)
(* unseen behind the half-frame that was decoded (track_after > 1).        *)
CellOfThisRun ==
  published /\ sss_out # <<>> /\ ~Head(sss_out).lost
    => Head(sss_out).run = decoded.run

(* The port messages alternate, none is posted twice, a drop names the     *)
(* cell of its track, and a track names a cell of this chain, with antenna *)
(* ports that were decoded.                                                *)
Ports == INSTANCE MibContract WITH Cell <- OwnCell
PortContract == Ports!Spec

(* Every message, a drop included, names a cell of the chain's own primary  *)
(* identity, so a cellstore can tell the chains' cells apart, and an id    *)
(* below the 1000 that track_cell takes for a message without one.         *)
NamesOwnIdentity ==
  said.port # "none" =>
    said.cell.id \in 0 .. 503 /\ said.cell.id % 3 = N_id_2

(* Once the decoder was set up after the sample buffer reached its full    *)
(* size, it reads the samples of every later call.                         *)
BufferSettles == d_mib.buf = StreamCap => sf_buffer = StreamCap

(* A chain that exits on success ends with its cell announced, and nothing *)
(* withdraws it.                                                           *)
ExitsWithCell == done => said.port = "track" /\ said.cell = current

----------------------------------------------------------------------------
(***************************************************************************)
(* Why CellOfThisRun and PrefixOfOneRun hold.  Behind the mib block's next *)
(* half-frame come all that are on their way from the pss block.  Two runs *)
(* are at least track_after lost half-frames apart, and a call that decodes*)
(* the last half-frame of a run takes at most StreamCap - 1 with it.       *)
(***************************************************************************)
total == Len(sss_out) + Len(pss_out)

(* The i-th half-frame on its way. *)
way == [i \in 1 .. total |->
          IF i <= Len(sss_out)
            THEN [lost |-> sss_out[i].lost, run |-> sss_out[i].run]
            ELSE pss_out[i - Len(sss_out)]]

(* Between half-frames of two runs there is a lost one that is at least    *)
(* track_after half-frames behind the first.                               *)
RunsApart ==
  \A i, j \in 1 .. total :
    i < j /\ ~way[i].lost /\ ~way[j].lost /\ way[i].run # way[j].run
      => \E l \in i + track_after .. j - 1 : way[l].lost

(* Lost half-frames that the pss block must have sent since the last run.  *)
lostSoFar == IF points = track_after THEN track_after ELSE points + 1

(* The same of the run that the pss block is in, or is counting towards.   *)
NextRunApart ==
  \A i \in 1 .. total :
    ~way[i].lost /\ way[i].run # run
      => \E l \in i + lostSoFar .. total : way[l].lost

(* A published cell is withdrawn before a half-frame of another run comes, *)
(* be it on its way already or still to be handed on.                      *)
ResetOnItsWay ==
  published =>
    /\ \A j \in 1 .. total :
         ~way[j].lost /\ way[j].run # decoded.run
           => \E l \in 1 .. j - 1 : way[l].lost
    /\ decoded.run # run =>
         points + 1 < track_after \/ \E l \in 1 .. total : way[l].lost

(* The prefix average, which is of one run, is reset before a half-frame   *)
(* of another run comes.                                                   *)
PrefixResetOnItsWay ==
  /\ \E r \in Run : cp_avg \subseteq {r}
  /\ \A j \in 1 .. Len(pss_out) :
       ~pss_out[j].lost /\ ~(cp_avg \subseteq {pss_out[j].run})
         => \E l \in 1 .. j - 1 : pss_out[l].lost
  /\ ~(cp_avg \subseteq {run}) => \E l \in 1 .. Len(pss_out) : pss_out[l].lost

(* What the mib block last said agrees with what it holds. *)
PortsAgree ==
  /\ published <=> said.port = "track"
  /\ said.port # "none" => said.cell \in OwnCell
  /\ published => said.cell = current
  /\ done => published

(* The decoder's buffer is the current one or a smaller one. *)
BufferNotAhead == d_mib.buf <= sf_buffer

(* The inductive invariant; ResetOnItsWay needs track_after >= StreamCap.  *)
IInv ==
  /\ TypeOK /\ PortsAgree /\ BufferNotAhead
  /\ RunsApart /\ NextRunApart /\ PrefixResetOnItsWay

----------------------------------------------------------------------------
(* What comments say and the code does not do.                             *)

(* pss_impl.cc:211 "tracking lost - force downstream blocks to reset       *)
(* state": once every half-frame handed on is processed, a loss has reached*)
(* the mib block.                                                          *)
LossResetsMib ==
  pss_out = <<>> /\ sss_out = <<>> /\ sent.tag = "lost" => ~published

(* mib_impl.cc:69 "if set to 0, detects nof_ports": a decoder is set up to *)
(* detect the ports of its cell.                                           *)
DetectsPorts == d_mib.state = "set" => d_mib.cell.nof_ports = 0

(* mib_impl.cc:155 "SSS block passed us non-sense": a cell for which the   *)
(* decoder cannot be initialised is skipped, not decoded.                  *)
NonsenseIsSkipped == decoded.by # "failed"

----------------------------------------------------------------------------
(* Liveness.                                                               *)

(* A cell whose run is over is dropped eventually, if the pss block goes   *)
(* on handing on half-frames.                                              *)
DroppedAfterLoss ==
  []<><<HandOn>>_vars => (published /\ run # decoded.run ~> ~published)

=============================================================================
