------------------------------ MODULE Trigger ------------------------------
(***************************************************************************)
(* downlink_trigger_c with a cellstore: the mib blocks of the three chains *)
(* post on the track and drop ports of one cellstore.  A chain is          *)
(* represented by what it promises (MibContract): its messages are a track *)
(* and the drop of the same message by turns.                              *)
(*                                                                         *)
(* A message is a pmt: a handle, by which the cellstore compares messages, *)
(* and the cell it describes.  Every publication makes a new pmt; a handle *)
(* is used again only when nothing refers to it any more.                  *)
(***************************************************************************)
EXTENDS Integers, Sequences, SequencesExt

CONSTANTS
  Chain,    \* the chains, by their N_id_2
  Pmt,      \* the handles: a bound on the messages alive at one time
  NIL       \* pmt::PMT_NIL

VARIABLES
  track_port, drop_port, port, d_cells,   \* the cellstore block
  said,       \* the last message of each chain's mib block: [port, cell, turn]
  overtaken   \* history variable: messages dropped while their track waited

storeVars == <<track_port, drop_port, port, d_cells>>
vars == <<storeVars, said, overtaken>>

Store == INSTANCE Cellstore

Message == [pmt : Pmt, id : Chain]

Init ==
  /\ Store!Init
  /\ said = [k \in Chain |-> [port |-> "none", cell |-> NIL, turn |-> 0]]
  /\ overtaken = {}

Tracked(k) == said[k].port = "track"

(* The cells the mib blocks are tracking now. *)
Current == {said[k].cell : k \in {j \in Chain : Tracked(j)}}

(* What a mib block, a queue or the list still refers to. *)
InUse == Current \cup ToSet(track_port) \cup ToSet(drop_port) \cup ToSet(d_cells)

Fresh(p) == \A c \in InUse : c.pmt # p

(* Chain k's mib block posts a message (see MibContract). *)
Says(k, to, c) ==
  said' = [said EXCEPT ![k] = [port |-> to, cell |-> c, turn |-> 1 - said[k].turn]]

(* Chain k's mib block has found a cell. *)
Publish(k, p) ==
  /\ ~Tracked(k) /\ Fresh(p)
  /\ LET c == [pmt |-> p, id |-> k] IN
       /\ Says(k, "track", c)
       /\ track_port' = Append(track_port, c)
  /\ overtaken' = {c \in overtaken : c.pmt # p}
  /\ UNCHANGED <<drop_port, port, d_cells>>

(* Mutant: d_current_tracking_cell is cleared before it is posted. *)
WithdrawCleared(k) ==
  /\ Tracked(k)
  /\ Says(k, "drop", said[k].cell)
  /\ drop_port' = Append(drop_port, NIL)
  /\ UNCHANGED <<track_port, port, d_cells, overtaken>>

(* Chain k's mib block has been told that its cell is lost. *)
Withdraw(k) ==
  /\ Tracked(k)
  /\ Says(k, "drop", said[k].cell)
  /\ drop_port' = Append(drop_port, said[k].cell)
  /\ UNCHANGED <<track_port, port, d_cells, overtaken>>

TrackCell == Store!TrackCell /\ UNCHANGED <<said, overtaken>>

DropCell ==
  /\ Store!DropCell
  /\ overtaken' = overtaken \cup ({Head(drop_port)} \cap ToSet(track_port))
  /\ UNCHANGED said

NextPort == Store!NextPort /\ UNCHANGED <<said, overtaken>>

StoreThread == TrackCell \/ DropCell \/ NextPort

Next ==
  \/ \E k \in Chain : Withdraw(k) \/ \E p \in Pmt : Publish(k, p)
  \/ StoreThread

Spec == Init /\ [][Next]_vars

(* Only the cellstore's own thread has to run. *)
FairSpec == Spec /\ WF_vars(StoreThread)

----------------------------------------------------------------------------
(* Safety.                                                                 *)

(* The list as it will be when every waiting track has been handled. *)
stored == d_cells \o track_port

OnceIn(c, s) == \E i \in DOMAIN s : \A j \in DOMAIN s : s[j] = c <=> j = i

(* The type of every variable of the cellstore and of the chains. *)
TypeOK ==
  /\ track_port \in Seq(Message) /\ drop_port \in Seq(Message)
  /\ d_cells \in Seq(Message) /\ port \in {"track", "drop"}
  /\ said \in [Chain -> [port : {"none", "track", "drop"},
                         cell : Message \cup {NIL}, turn : {0, 1}]]
  /\ overtaken \subseteq Message

(* A cell that is being tracked is in the list, or on its way to it, once: *)
(* no drop of another cell, or of the same cell tracked earlier, takes it  *)
(* out of the list.                                                        *)
CurrentIsStoredOnce ==
  \A c \in Current : OnceIn(c, stored)

(* The list keeps a cell nobody tracks only while its drop is on its way,  *)
(* or because that drop was handled before the track it belongs to.        *)
LeftoversWereOvertaken ==
  \A c \in ToSet(d_cells) \ Current : c \in ToSet(drop_port) \cup overtaken

(* Both queues are FIFO and the list is appended to, so latest_cell() is   *)
(* the newest publication that was handled: of two cells of one chain, the *)
(* one tracked now is behind the one tracked before.                       *)
NewestLast ==
  \A i, j \in DOMAIN stored :
    i < j /\ stored[i].id = stored[j].id => stored[i] \notin Current

(* cellstore.h:39 "up to 3 tracked cells, one for each N_id_2": with        *)
(* nothing on its way, and if no drop overtook its track, the list is what *)
(* is being tracked, and has one cell for each chain at the most.          *)
QuietListIsExact ==
  track_port = <<>> /\ drop_port = <<>> /\ overtaken = {} =>
    /\ ToSet(d_cells) = Current
    /\ \A i, j \in DOMAIN d_cells : d_cells[i].id = d_cells[j].id => i = j

(* The list changes only as announced and given up, whatever the order in  *)
(* which the two ports are emptied: see StoreContract.                     *)
Contract == INSTANCE StoreContract
              WITH Cell <- Message, tracked <- Current,
                   pending <- ToSet(track_port), listed <- ToSet(d_cells)
ListContract == Contract!Spec

(***************************************************************************)
(* The same system put together from its parts: chains of which nothing is *)
(* known but the contract that Chain implements, ports that deliver each   *)
(* message they post, and the cellstore.  A pmt in a track message is new  *)
(* (pack_cell makes it); everything else about a message is the contract's.*)
(***************************************************************************)
ChainPort(k) == INSTANCE MibContract
                  WITH Cell <- [pmt : Pmt, id : {k}], said <- said[k]

DeliverTrack(c) ==
  /\ Fresh(c.pmt)
  /\ track_port' = Append(track_port, c)
  /\ overtaken' = {d \in overtaken : d.pmt # c.pmt}
  /\ UNCHANGED drop_port

DeliverDrop(c) ==
  /\ drop_port' = Append(drop_port, c)
  /\ UNCHANGED <<track_port, overtaken>>

Post(k) ==
  /\ ChainPort(k)!Next
  /\ said' = [said EXCEPT ![k] = said'[k]]
  /\ IF said'[k].port = "track" THEN DeliverTrack(said'[k].cell)
                                ELSE DeliverDrop(said'[k].cell)
  /\ UNCHANGED <<port, d_cells>>

ComposedNext == (\E k \in Chain : Post(k)) \/ StoreThread

ComposedSpec == Init /\ [][ComposedNext]_vars

(* The inductive invariant: a chain tracks a cell of its own, a cell whose *)
(* drop is on its way is tracked no more, no cell is stored or waits twice,*)
(* and every cell that is stored or waits to be, but is tracked no more,   *)
(* will be dropped or was overtaken.                                       *)
TracksOwnCell ==
  \A k \in Chain : Tracked(k) => said[k].cell \in Message /\ said[k].cell.id = k
DropIsOver == ToSet(drop_port) \cap Current = {}
NoneTwice == \A i, j \in DOMAIN stored : stored[i] = stored[j] => i = j
LeftoversAreKnown ==
  \A c \in ToSet(stored) \ Current : c \in ToSet(drop_port) \cup overtaken

IInv ==
  /\ TypeOK
  /\ TracksOwnCell /\ DropIsOver /\ NoneTwice
  /\ CurrentIsStoredOnce /\ LeftoversAreKnown /\ NewestLast

----------------------------------------------------------------------------
(* What the documentation says and the code does not do.                   *)

(* cellstore.h:36 "Stores any cell currently being tracked by              *)
(* downlink_trigger_c": with nothing on its way, the list holds no other.  *)
StoresOnlyTracked ==
  track_port = <<>> /\ drop_port = <<>> => ToSet(d_cells) \subseteq Current

----------------------------------------------------------------------------
(* Liveness.                                                               *)

(* From some time on no chain loses its cell. *)
NoMoreLosses == <>[][\A k \in Chain : ~Withdraw(k)]_vars

(* Once no more cells are lost the list catches up: both ports are emptied *)
(* for good, and every cell being tracked is shown.  (While drops go on    *)
(* coming, no track need be handled: the thread empties a port before it   *)
(* goes to the next one.)                                                  *)
ListCatchesUp ==
  NoMoreLosses =>
    <>[](track_port = <<>> /\ drop_port = <<>> /\ Current \subseteq ToSet(d_cells))

=============================================================================
