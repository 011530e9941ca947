---------------------------- MODULE ChainProofs ----------------------------
(***************************************************************************)
(* What holds of a chain for every track_after, every length of its        *)
(* streams, every set of identities and of antenna ports, and whether its  *)
(* mib block exits on success or not.                                      *)
(***************************************************************************)
EXTENDS Chain, TLAPS, FiniteSetTheorems, SequenceTheorems

----------------------------------------------------------------------------
(* The half-frames on their way, as the two streams hold them.             *)

(* Every position of way holds a half-frame of one of the streams. *)
LEMMA WayType ==
  ASSUME pss_out \in Seq(HalfFrame), sss_out \in Seq(TaggedFrame)
  PROVE  /\ Len(pss_out) \in Nat /\ Len(sss_out) \in Nat /\ total \in Nat
         /\ total = Len(sss_out) + Len(pss_out)
         /\ \A i \in 1 .. total : way[i] \in HalfFrame
         /\ \A i \in 1 .. Len(sss_out) :
              /\ sss_out[i] \in TaggedFrame
              /\ way[i].lost = sss_out[i].lost /\ way[i].run = sss_out[i].run
         /\ \A i \in 1 .. Len(pss_out) :
              /\ pss_out[i] \in HalfFrame
              /\ way[Len(sss_out) + i] = pss_out[i]
<1>1. /\ Len(pss_out) \in Nat /\ Len(sss_out) \in Nat /\ total \in Nat
      /\ total = Len(sss_out) + Len(pss_out)
  BY LenProperties DEF total
<1>2. /\ \A i \in 1 .. Len(sss_out) : sss_out[i] \in TaggedFrame
      /\ \A i \in 1 .. Len(pss_out) : pss_out[i] \in HalfFrame
  BY ElementOfSeq
<1>3. \A i \in 1 .. Len(sss_out) :
        way[i] = [lost |-> sss_out[i].lost, run |-> sss_out[i].run]
  BY <1>1 DEF way
<1>4. \A i \in 1 .. Len(pss_out) : way[Len(sss_out) + i] = pss_out[i]
  BY <1>1 DEF way
<1>5. ASSUME NEW i \in 1 .. total PROVE way[i] \in HalfFrame
  <2>1. CASE i <= Len(sss_out)
    <3>1. i \in 1 .. Len(sss_out)
      BY <2>1, <1>1
    <3>2. sss_out[i].lost \in BOOLEAN /\ sss_out[i].run \in Run
      BY <3>1, <1>2 DEF TaggedFrame
    <3>3. way[i] = [lost |-> sss_out[i].lost, run |-> sss_out[i].run]
      BY <3>1, <1>3
    <3> QED BY <3>2, <3>3 DEF HalfFrame
  <2>2. CASE ~(i <= Len(sss_out))
    <3>1. i - Len(sss_out) \in 1 .. Len(pss_out)
      BY <2>2, <1>1
    <3>2. way[i] = pss_out[i - Len(sss_out)]
      BY <2>2, <1>1 DEF way
    <3> QED BY <3>1, <3>2, <1>2
  <2> QED BY <2>1, <2>2
<1>6. ASSUME NEW i \in 1 .. Len(sss_out)
      PROVE  way[i].lost = sss_out[i].lost /\ way[i].run = sss_out[i].run
  <2>1. way[i] = [lost |-> sss_out[i].lost, run |-> sss_out[i].run]
    BY <1>3
  <2> QED BY ONLY <2>1
<1> QED BY <1>1, <1>2, <1>4, <1>5, <1>6

(* Handing on a half-frame puts it behind all the others. *)
LEMMA WayHandOn ==
  ASSUME pss_out \in Seq(HalfFrame), sss_out \in Seq(TaggedFrame),
         NEW h \in HalfFrame,
         pss_out' = Append(pss_out, h), sss_out' = sss_out
  PROVE  /\ pss_out' \in Seq(HalfFrame) /\ Len(pss_out') = Len(pss_out) + 1
         /\ \A i \in 1 .. Len(pss_out) : pss_out'[i] = pss_out[i]
         /\ pss_out'[Len(pss_out) + 1] = h
         /\ total' = total + 1
         /\ \A i \in 1 .. total : way'[i] = way[i]
         /\ way'[total + 1] = h
<1>1. /\ pss_out' \in Seq(HalfFrame) /\ Len(pss_out') = Len(pss_out) + 1
      /\ \A i \in 1 .. Len(pss_out) : pss_out'[i] = pss_out[i]
      /\ pss_out'[Len(pss_out) + 1] = h
  BY AppendProperties
<1>2. Len(pss_out) \in Nat /\ Len(sss_out) \in Nat
  BY WayType
<1>3. total' = total + 1
  BY <1>1, <1>2 DEF total
<1>4. ASSUME NEW i \in 1 .. total PROVE way'[i] = way[i]
  <2>1. CASE i <= Len(sss_out)
    BY <2>1, <1>2, <1>3 DEF way, total
  <2>2. CASE ~(i <= Len(sss_out))
    <3>1. i - Len(sss_out) \in 1 .. Len(pss_out)
      BY <2>2, <1>2 DEF total
    <3>2. way[i] = pss_out[i - Len(sss_out)]
      BY <2>2, <1>2 DEF way, total
    <3>3. way'[i] = pss_out'[i - Len(sss_out)]
      BY <2>2, <1>2, <1>3 DEF way, total
    <3> QED BY <3>1, <3>2, <3>3, <1>1
  <2> QED BY <2>1, <2>2
<1>5. way'[total + 1] = h
  <2>1. /\ total + 1 \in 1 .. total' /\ ~(total + 1 <= Len(sss_out))
        /\ total + 1 - Len(sss_out) = Len(pss_out) + 1
    BY <1>2, <1>3 DEF total
  <2>2. way'[total + 1] = pss_out'[total + 1 - Len(sss_out')]
    BY <2>1, <1>2, <1>3 DEF way, total
  <2> QED BY <2>1, <2>2, <1>1
<1> QED BY <1>1, <1>3, <1>4, <1>5

(* Passing a half-frame on changes the place of none. *)
LEMMA WayForward ==
  ASSUME pss_out \in Seq(HalfFrame), sss_out \in Seq(TaggedFrame),
         NEW cell \in Sss!TaggedCell \cup {NoCell}, Sss!Forward(cell)
  PROVE  /\ pss_out' \in Seq(HalfFrame) /\ Len(pss_out') = Len(pss_out) - 1
         /\ \A i \in 1 .. Len(pss_out') : pss_out'[i] = pss_out[i + 1]
         /\ sss_out' \in Seq(TaggedFrame) /\ Len(sss_out') = Len(sss_out) + 1
         /\ Len(sss_out) < StreamCap
         /\ Head(pss_out) = pss_out[1] /\ 1 \in 1 .. Len(pss_out)
         /\ total' = total
         /\ \A i \in 1 .. total : way'[i] = way[i]
<1> DEFINE h == [lost |-> Head(pss_out).lost, run |-> Head(pss_out).run,
                 cell |-> cell]
<1>1. /\ pss_out # <<>> /\ Len(sss_out) < StreamCap
      /\ pss_out' = Tail(pss_out) /\ sss_out' = Append(sss_out, h)
  BY DEF Sss!Forward
<1>2. /\ Len(pss_out) \in Nat /\ Len(sss_out) \in Nat
      /\ Len(pss_out) \in Nat \ {0}
  BY <1>1, WayType, EmptySeq
<1>3. /\ pss_out' \in Seq(HalfFrame) /\ Len(pss_out') = Len(pss_out) - 1
      /\ \A i \in 1 .. Len(pss_out') : pss_out'[i] = pss_out[i + 1]
      /\ Head(pss_out) \in HalfFrame
  BY <1>1, HeadTailProperties
<1>4. Head(pss_out) = pss_out[1]
  BY <1>1
<1>5. h \in TaggedFrame
  BY <1>3 DEF HalfFrame, TaggedFrame
<1>6. /\ sss_out' \in Seq(TaggedFrame) /\ Len(sss_out') = Len(sss_out) + 1
      /\ \A i \in 1 .. Len(sss_out) : sss_out'[i] = sss_out[i]
      /\ sss_out'[Len(sss_out) + 1] = h
  BY <1>1, <1>5, AppendProperties
<1>7. total' = total
  BY <1>2, <1>3, <1>6 DEF total
<1>8. ASSUME NEW i \in 1 .. total PROVE way'[i] = way[i]
  <2>1. CASE i <= Len(sss_out)
    BY <2>1, <1>2, <1>6, <1>7 DEF way, total
  <2>2. CASE i = Len(sss_out) + 1
    <3>1. way[i] = pss_out[1]
      BY <2>2, <1>2 DEF way, total
    <3>2. way'[i] = [lost |-> h.lost, run |-> h.run]
      BY <2>2, <1>2, <1>6, <1>7 DEF way, total
    <3> QED BY <3>1, <3>2, <1>3, <1>4 DEF HalfFrame
  <2>3. CASE i > Len(sss_out) + 1
    <3>1. /\ i - (Len(sss_out) + 1) \in 1 .. Len(pss_out')
          /\ i - (Len(sss_out) + 1) + 1 = i - Len(sss_out)
      BY <2>3, <1>2, <1>3 DEF total
    <3>2. way[i] = pss_out[i - Len(sss_out)]
      BY <2>3, <1>2 DEF way, total
    <3>3. way'[i] = pss_out'[i - (Len(sss_out) + 1)]
      BY <2>3, <1>2, <1>6, <1>7 DEF way
    <3> QED BY <3>1, <3>2, <3>3, <1>3
  <2> QED BY <2>1, <2>2, <2>3, <1>2 DEF total
<1> QED BY <1>1, <1>2, <1>3, <1>4, <1>6, <1>7, <1>8

(* Consuming half-frames moves the others to the front. *)
LEMMA WayConsume ==
  ASSUME pss_out \in Seq(HalfFrame), sss_out \in Seq(TaggedFrame),
         NEW n \in Nat, n <= Len(sss_out), Mib!Consume(n), pss_out' = pss_out
  PROVE  /\ sss_out' \in Seq(TaggedFrame) /\ Len(sss_out') = Len(sss_out) - n
         /\ total' = total - n
         /\ \A i \in 1 .. total - n : way'[i] = way[i + n]
<1>1. Len(pss_out) \in Nat /\ Len(sss_out) \in Nat
  BY WayType
<1>2. \A i \in n + 1 .. Len(sss_out) : sss_out[i] \in TaggedFrame
  BY <1>1, ElementOfSeq
<1>3. /\ sss_out' \in Seq(TaggedFrame) /\ Len(sss_out') = Len(sss_out) - n
      /\ \A i \in 1 .. Len(sss_out) - n : sss_out'[i] = sss_out[i + n]
  <2>1. sss_out' = SubSeq(sss_out, n + 1, Len(sss_out))
    BY DEF Mib!Consume
  <2>2. /\ SubSeq(sss_out, n + 1, Len(sss_out)) \in Seq(TaggedFrame)
        /\ Len(SubSeq(sss_out, n + 1, Len(sss_out)))
             = IF n + 1 <= Len(sss_out) THEN Len(sss_out) - (n + 1) + 1 ELSE 0
        /\ \A i \in 1 .. Len(sss_out) - (n + 1) + 1 :
             SubSeq(sss_out, n + 1, Len(sss_out))[i] = sss_out[n + 1 + i - 1]
    BY <1>1, <1>2, SubSeqProperties
  <2>3. Len(sss_out') = Len(sss_out) - n
    BY <1>1, <2>1, <2>2
  <2>4. ASSUME NEW i \in 1 .. Len(sss_out) - n PROVE sss_out'[i] = sss_out[i + n]
    <3>1. n + 1 + i - 1 = i + n /\ i \in 1 .. Len(sss_out) - (n + 1) + 1
      BY <1>1
    <3> QED BY <3>1, <2>1, <2>2
  <2> QED BY <2>1, <2>2, <2>3, <2>4
<1>4. total' = total - n
  BY <1>1, <1>3 DEF total
<1>5. ASSUME NEW i \in 1 .. total - n PROVE way'[i] = way[i + n]
  <2>1. CASE i <= Len(sss_out) - n
    BY <2>1, <1>1, <1>3, <1>4 DEF way, total
  <2>2. CASE ~(i <= Len(sss_out) - n)
    <3>1. i + n - Len(sss_out) = i - Len(sss_out')
      BY <1>1, <1>3
    <3>2. way[i + n] = pss_out[i + n - Len(sss_out)]
      BY <2>2, <1>1 DEF way, total
    <3>3. way'[i] = pss_out[i - Len(sss_out')]
      BY <2>2, <1>1, <1>3, <1>4 DEF way, total
    <3> QED BY <3>1, <3>2, <3>3
  <2> QED BY <2>1, <2>2
<1> QED BY <1>3, <1>4, <1>5

----------------------------------------------------------------------------
(* A call of the mib block.                                                *)

(* What the call works with: the half-frame whose tags it reads, and the   *)
(* sample buffer, which never shrinks.                                     *)
LEMMA MibCall ==
  ASSUME TypeOK, NEW n \in 1 .. StreamCap, n <= Len(sss_out), Mib!Store(n)
  PROVE  /\ n \in Nat /\ 1 \in 1 .. Len(sss_out)
         /\ Mib!first = sss_out[1] /\ Mib!first \in TaggedFrame
         /\ sf_buffer' \in 0 .. StreamCap /\ sf_buffer <= sf_buffer'
<1>1. StreamCap \in Nat /\ Len(sss_out) \in Nat /\ sf_buffer \in 0 .. StreamCap
  BY ChainAssumption, LenProperties DEF TypeOK
<1>2. n \in Nat /\ 1 \in 1 .. Len(sss_out)
  BY <1>1
<1>3. Mib!first = sss_out[1]
  BY <1>2 DEF Mib!first
<1>4. sss_out[1] \in TaggedFrame
  BY <1>2, ElementOfSeq DEF TypeOK
<1>5. sf_buffer' \in 0 .. StreamCap /\ sf_buffer <= sf_buffer'
  BY <1>1, <1>2 DEF Mib!Store
<1> QED BY <1>2, <1>3, <1>4, <1>5

(* A call that decodes has a tagged cell and a decoder, new or old, whose  *)
(* buffer is not ahead of the block's.                                     *)
LEMMA MibDecoder ==
  ASSUME TypeOK, BufferNotAhead, NEW n \in 1 .. StreamCap, n <= Len(sss_out),
         Mib!Store(n), Mib!ToDecode
  PROVE  /\ Mib!TaggedD \in DCell
         /\ Mib!decoder \in [state : {"new", "set", "failed"},
                             cell : DCell \cup {Mib!Unset}, buf : 0 .. StreamCap]
         /\ Mib!decoder.buf <= sf_buffer'
         /\ \A ports \in Mib!Detected :
              [Mib!TaggedD EXCEPT !.nof_ports = ports] \in OwnCell
<1>1. /\ Mib!first \in TaggedFrame
      /\ sf_buffer' \in 0 .. StreamCap /\ sf_buffer <= sf_buffer'
      /\ sf_buffer \in 0 .. StreamCap /\ StreamCap \in Nat
  BY MibCall, ChainAssumption DEF TypeOK
<1>2. Mib!first.cell \in Sss!TaggedCell
  <2>1. Mib!first.cell \in Sss!TaggedCell \cup {NoCell}
    BY <1>1 DEF TaggedFrame
  <2>2. Mib!first.cell # NoCell
    BY DEF Mib!ToDecode, NoCell
  <2> QED BY <2>1, <2>2
<1>3. /\ Mib!TaggedD \in DCell
      /\ \A ports \in NofPorts :
           [Mib!TaggedD EXCEPT !.nof_ports = ports] \in OwnCell
  <2>1. Mib!first.cell.id \in OwnId /\ Mib!first.cell.cp \in Sss!CpType
    BY <1>2 DEF Sss!TaggedCell, OwnId
  <2>2. d_cell \in DCell
    BY DEF TypeOK
  <2> QED BY <2>1, <2>2 DEF DCell, OwnCell, Mib!TaggedD
<1>4. /\ Mib!decoder \in [state : {"new", "set", "failed"},
                          cell : DCell \cup {Mib!Unset}, buf : 0 .. StreamCap]
      /\ Mib!decoder.buf <= sf_buffer'
  <2>1. CASE Mib!NewCell
    <3>1. Mib!decoder = [state |-> "set", cell |-> Mib!TaggedD, buf |-> sf_buffer']
      BY <2>1 DEF Mib!decoder
    <3> QED BY <3>1, <1>1, <1>3
  <2>2. CASE ~Mib!NewCell
    <3>1. Mib!decoder = d_mib
      BY <2>2 DEF Mib!decoder
    <3>2. d_mib \in [state : {"new", "set", "failed"},
                     cell : DCell \cup {Mib!Unset}, buf : 0 .. StreamCap]
      BY DEF TypeOK
    <3>3. d_mib.buf <= sf_buffer /\ d_mib.buf \in 0 .. StreamCap
      BY <3>2 DEF BufferNotAhead
    <3> QED BY <3>1, <3>2, <3>3, <1>1
  <2> QED BY <2>1, <2>2
<1>5. Mib!Detected \subseteq NofPorts
  BY DEF Mib!Detected
<1> QED BY <1>3, <1>4, <1>5

(* A published cell is one the block can hold. *)
LEMMA OwnCellIsDCell == OwnCell \subseteq DCell
  BY DEF OwnCell, DCell

(* The five outcomes keep the types, the port discipline and the buffers.  *)
LEMMA MibStep ==
  ASSUME TypeOK, PortsAgree, BufferNotAhead, MibWork
  PROVE  TypeOK' /\ PortsAgree' /\ BufferNotAhead'
<1>1. PICK n \in 1 .. StreamCap :
        /\ n <= Len(sss_out)
        /\ Mib!Reset(n) \/ Mib!Skip(n) \/ Mib!InitFails(n) \/ Mib!NotFound(n)
             \/ Mib!Found(n)
  BY DEF MibWork, Mib!GeneralWork
<1>2. /\ ~done /\ UNCHANGED <<points, sent, failed, run, pss_out, cp_avg>>
  BY DEF MibWork, Mib!GeneralWork, pssVars
<1>3. Mib!Store(n)
  BY <1>1 DEF Mib!Reset, Mib!Skip, Mib!InitFails, Mib!NotFound, Mib!Found
<1>4. /\ n \in Nat /\ 1 \in 1 .. Len(sss_out)
      /\ Mib!first = sss_out[1] /\ Mib!first \in TaggedFrame
      /\ sf_buffer' \in 0 .. StreamCap /\ sf_buffer <= sf_buffer'
  BY <1>1, <1>3, MibCall
<1>5. /\ StreamCap \in Nat /\ Len(sss_out) \in Nat /\ Len(sss_out) <= StreamCap
      /\ sf_buffer \in 0 .. StreamCap
      /\ pss_out \in Seq(HalfFrame) /\ sss_out \in Seq(TaggedFrame)
  BY ChainAssumption, LenProperties DEF TypeOK
<1>6. sss_out' \in Seq(TaggedFrame) /\ Len(sss_out') <= StreamCap
  <2>1. ASSUME NEW k \in Nat, k <= Len(sss_out), Mib!Consume(k)
        PROVE  sss_out' \in Seq(TaggedFrame) /\ Len(sss_out') <= StreamCap
    BY <2>1, <1>2, <1>5, WayConsume
  <2>2. CASE sss_out' = sss_out
    BY <2>2, <1>5
  <2>3. Mib!Consume(1) \/ Mib!Consume(n) \/ sss_out' = sss_out
    BY <1>1 DEF Mib!Reset, Mib!Skip, Mib!InitFails, Mib!NotFound, Mib!Found
  <2> QED BY <2>1, <2>2, <2>3, <1>1, <1>4, <1>5
<1> DEFINE DecoderType == [state : {"new", "set", "failed"},
                           cell : DCell \cup {Mib!Unset}, buf : 0 .. StreamCap]
           SaidType == [port : {"none", "track", "drop"},
                        cell : OwnCell \cup {NIL}, turn : {0, 1}]
           DecodedType == [run : Run \cup {NIL}, by : {"new", "set", "failed", NIL}]
<1>7. /\ current \in OwnCell \cup {NIL} /\ d_cell \in DCell /\ d_mib \in DecoderType
      /\ said \in SaidType /\ decoded \in DecodedType
      /\ published \in BOOLEAN /\ done \in BOOLEAN
      /\ d_mib.buf <= sf_buffer /\ d_mib.buf \in 0 .. StreamCap
      /\ published => said.cell = current /\ said.port = "track"
      /\ said.port = "track" => published
      /\ 1 - said.turn \in {0, 1}
      /\ said.port # "none" => said.cell \in OwnCell
  BY DEF TypeOK, BufferNotAhead, PortsAgree
<1> HIDE DEF DecoderType, SaidType, DecodedType
<1>8. /\ current' \in OwnCell \cup {NIL} /\ d_cell' \in DCell /\ d_mib' \in DecoderType
      /\ said' \in SaidType /\ decoded' \in DecodedType
      /\ published' \in BOOLEAN /\ done' \in BOOLEAN
      /\ d_mib'.buf <= sf_buffer'
      /\ published' <=> said'.port = "track"
      /\ published' => said'.cell = current'
      /\ said'.port # "none" => said'.cell \in OwnCell
      /\ done' => published'
  <2>1. CASE Mib!Reset(n)
    <3>1. /\ published' = FALSE /\ current' = NIL /\ done' = FALSE
          /\ d_cell' = d_cell /\ d_mib' = d_mib /\ decoded' = decoded
      BY <2>1, <1>2 DEF Mib!Reset
    <3>2. d_mib'.buf <= sf_buffer'
      BY <3>1, <1>4, <1>5, <1>7
    <3>3. CASE published
      <4>1. said' = [port |-> "drop", cell |-> current, turn |-> 1 - said.turn]
        BY <2>1, <3>3 DEF Mib!Reset, Mib!Post
      <4>2. said' \in SaidType
        BY <4>1, <1>7 DEF SaidType
      <4>3. said'.port # "track" /\ said'.cell \in OwnCell
        BY <4>1, <1>7, <3>3
      <4> QED BY <4>2, <4>3, <3>1, <3>2, <1>7
    <3>4. CASE ~published
      <4>1. said' = said
        BY <2>1, <3>4 DEF Mib!Reset
      <4> QED BY <4>1, <3>1, <3>2, <3>4, <1>7
    <3> QED BY <3>3, <3>4
  <2>2. CASE Mib!Skip(n)
    <3>1. UNCHANGED <<published, current, d_cell, d_mib, done, said, decoded>>
      BY <2>2 DEF Mib!Skip
    <3>2. d_mib'.buf <= sf_buffer'
      BY <3>1, <1>4, <1>5, <1>7
    <3> QED BY <3>1, <3>2, <1>2, <1>7
  <2>3. CASE Mib!InitFails(n)
    <3>1. /\ d_cell' = Mib!TaggedD /\ d_mib' = [d_mib EXCEPT !.state = "failed"]
          /\ UNCHANGED <<published, current, done, said, decoded>>
          /\ Mib!ToDecode
      BY <2>3 DEF Mib!InitFails
    <3>2. d_cell' \in DCell
      BY <3>1, <1>1, <1>3, MibDecoder
    <3>3. d_mib' \in DecoderType /\ d_mib'.buf = d_mib.buf
      BY <3>1, <1>7 DEF DecoderType
    <3>4. d_mib'.buf <= sf_buffer'
      BY <3>3, <1>4, <1>5, <1>7
    <3> QED BY <3>1, <3>2, <3>3, <3>4, <1>2, <1>7
  <2>4. CASE Mib!NotFound(n) \/ Mib!Found(n)
    <3>1. /\ Mib!ToDecode /\ d_mib' = Mib!decoder
          /\ decoded' = [run |-> Mib!first.run, by |-> Mib!decoder.state]
      BY <2>4 DEF Mib!NotFound, Mib!Found
    <3>2. /\ Mib!TaggedD \in DCell /\ Mib!decoder \in DecoderType
          /\ Mib!decoder.buf <= sf_buffer'
          /\ \A ports \in Mib!Detected :
               [Mib!TaggedD EXCEPT !.nof_ports = ports] \in OwnCell
      BY <3>1, <1>1, <1>3, MibDecoder DEF DecoderType
    <3>3. decoded' \in DecodedType
      <4>1. Mib!first.run \in Run
        BY <1>4 DEF TaggedFrame
      <4>2. Mib!decoder.state \in {"new", "set", "failed"}
        BY <3>2 DEF DecoderType
      <4> QED BY <4>1, <4>2, <3>1 DEF DecodedType
    <3>4. CASE Mib!NotFound(n)
      <4>1. d_cell' = Mib!TaggedD /\ UNCHANGED <<published, current, done, said>>
        BY <3>4 DEF Mib!NotFound
      <4> QED BY <4>1, <3>1, <3>2, <3>3, <1>2, <1>7
    <3>5. CASE Mib!Found(n)
      <4>1. PICK ports \in Mib!Detected :
              d_cell' = [Mib!TaggedD EXCEPT !.nof_ports = ports]
        BY <3>5 DEF Mib!Found
      <4>2. /\ current' = d_cell' /\ published' = TRUE
            /\ said' = [port |-> "track", cell |-> d_cell', turn |-> 1 - said.turn]
            /\ done' = TRUE \/ done' = done
        BY <3>5 DEF Mib!Found, Mib!Post
      <4>3. d_cell' \in OwnCell /\ d_cell' \in DCell
        BY <4>1, <3>2, OwnCellIsDCell
      <4>4. said' \in SaidType
        BY <4>2, <4>3, <1>7 DEF SaidType
      <4>5. said'.port = "track" /\ said'.cell = current'
        BY <4>2
      <4> QED BY <4>2, <4>3, <4>4, <4>5, <3>1, <3>2, <3>3, <1>2, <1>7
    <3> QED BY <2>4, <3>4, <3>5
  <2> QED BY <1>1, <2>1, <2>2, <2>3, <2>4
<1>9. TypeOK'
  BY <1>2, <1>4, <1>6, <1>8 DEF TypeOK, DecoderType, SaidType, DecodedType
<1> QED BY <1>8, <1>9 DEF PortsAgree, BufferNotAhead

(* What the mib block posts: the message its port contract has next. *)
LEMMA MibPosts ==
  ASSUME TypeOK, PortsAgree, BufferNotAhead, MibWork
  PROVE  Ports!Next \/ said' = said
<1>1. PICK n \in 1 .. StreamCap :
        /\ n <= Len(sss_out)
        /\ Mib!Reset(n) \/ Mib!Skip(n) \/ Mib!InitFails(n) \/ Mib!NotFound(n)
             \/ Mib!Found(n)
  BY DEF MibWork, Mib!GeneralWork
<1>2. CASE Mib!Reset(n)
  <2>1. CASE published
    <3>1. Ports!Drop
      BY <1>2, <2>1 DEF Mib!Reset, Mib!Post, Ports!Drop, PortsAgree
    <3> QED BY <3>1 DEF Ports!Next
  <2>2. CASE ~published
    BY <1>2, <2>2 DEF Mib!Reset
  <2> QED BY <2>1, <2>2
<1>3. CASE Mib!Found(n)
  <2>1. d_cell' \in OwnCell
    <3>1. Mib!ToDecode /\ Mib!Store(n) /\ n <= Len(sss_out)
      BY <1>1, <1>3 DEF Mib!Found
    <3>2. PICK ports \in Mib!Detected :
            d_cell' = [Mib!TaggedD EXCEPT !.nof_ports = ports]
      BY <1>3 DEF Mib!Found
    <3> QED BY <3>1, <3>2, MibDecoder
  <2>2. said.port # "track"
    BY <1>3 DEF Mib!Found, Mib!ToDecode, PortsAgree
  <2>3. Ports!Track(d_cell')
    BY <1>3, <2>2 DEF Mib!Found, Mib!Post, Ports!Track
  <2> QED BY <2>1, <2>3 DEF Ports!Next
<1> QED BY <1>1, <1>2, <1>3 DEF Mib!Skip, Mib!InitFails, Mib!NotFound

----------------------------------------------------------------------------
(* The other steps.                                                        *)

(* What a call of the pss block hands on, or that it hands on nothing:     *)
(* enough lost half-frames between any clean one of a run before and the   *)
(* next clean one.                                                         *)
LEMMA PssCall ==
  ASSUME TypeOK, HandOn \/ Throw
  PROVE  /\ track_after \in Nat \ {0}
         /\ points \in 0 .. track_after /\ points' \in 0 .. track_after
         /\ run \in Run /\ run' \in Run
         /\ sent' \in Pss!Sent /\ failed' \in BOOLEAN
         /\ lostSoFar \in 1 .. track_after /\ lostSoFar' \in 1 .. track_after
         /\ ~(HandOn /\ Throw)
         /\ \/ /\ HandOn /\ sent'.tag = "lost"
               /\ \/ run' = run /\ lostSoFar' <= lostSoFar + 1
                  \/ lostSoFar' = 1
            \/ /\ HandOn \/ Throw
               /\ HandOn => sent'.tag = "clean"
               /\ points + 1 >= track_after /\ run' = run
               /\ lostSoFar' = track_after /\ lostSoFar = track_after
<1>1. /\ track_after \in Nat \ {0} /\ points \in 0 .. track_after
      /\ run \in Run /\ sent \in Pss!Sent
      /\ failed \in BOOLEAN
  BY ChainAssumption DEF TypeOK
<1>7. ASSUME NEW t \in {"lost", "clean"}, sent' = [tag |-> t, turn |-> 1 - sent.turn]
      PROVE  sent' \in Pss!Sent /\ sent'.tag = t
  BY <1>1, <1>7 DEF Pss!Sent
<1>2. ~(HandOn /\ Throw)
  BY <1>1 DEF Throw, HandOn, Pss!Fail, Pss!TagHit, Pss!TagLoss, Pss!HandOnClean
<1>3. CASE HandOn /\ Pss!TagHit
  <2>1. /\ points + 1 < track_after /\ points' = points + 1
        /\ sent' = [tag |-> "lost", turn |-> 1 - sent.turn] /\ failed' = failed
    BY <1>3 DEF Pss!TagHit, Pss!HandsOn
  <2>2. run' = run
    BY <1>3, <2>1, <1>1 DEF HandOn
  <2>3. sent' \in Pss!Sent /\ sent'.tag = "lost"
    BY <1>7, <2>1
  <2> QED BY <1>1, <1>2, <1>3, <2>1, <2>2, <2>3 DEF lostSoFar
<1>4. CASE HandOn /\ Pss!TagLoss
  <2>1. /\ points' = 0
        /\ sent' = [tag |-> "lost", turn |-> 1 - sent.turn] /\ failed' = failed
    BY <1>4 DEF Pss!TagLoss, Pss!HandsOn
  <2>2. run' \in Run /\ (points # track_after => run' = run)
    BY <1>4, <1>1 DEF HandOn
  <2>3. sent' \in Pss!Sent /\ sent'.tag = "lost"
    BY <1>7, <2>1
  <2> QED BY <1>1, <1>2, <1>4, <2>1, <2>2, <2>3 DEF lostSoFar
<1>5. CASE HandOn /\ Pss!HandOnClean
  <2>1. /\ points + 1 >= track_after /\ points' = track_after
        /\ sent' = [tag |-> "clean", turn |-> 1 - sent.turn] /\ failed' = failed
    BY <1>5 DEF Pss!HandOnClean, Pss!HandsOn
  <2>2. run' = run
    BY <1>5, <2>1, <1>1 DEF HandOn
  <2>3. sent' \in Pss!Sent /\ sent'.tag = "clean"
    BY <1>7, <2>1
  <2> QED BY <1>1, <1>2, <1>5, <2>1, <2>2, <2>3 DEF lostSoFar
<1>6. CASE Throw
  <2>1. /\ points + 1 >= track_after /\ points' = track_after
        /\ sent' = sent /\ failed' = TRUE /\ run' = run
    BY <1>6 DEF Throw, Pss!Fail
  <2> QED BY <1>1, <1>2, <1>6, <2>1 DEF lostSoFar
<1> QED BY <1>2, <1>3, <1>4, <1>5, <1>6 DEF HandOn

(* Types, when the pss block or the sss block is called. *)
LEMMA PssTypes ==
  ASSUME TypeOK, HandOn \/ Throw
  PROVE  TypeOK'
<1>1. /\ points' \in 0 .. track_after /\ run' \in Run
      /\ sent' \in Pss!Sent /\ failed' \in BOOLEAN
  BY PssCall
<1>2. UNCHANGED <<cp_avg, sss_out, mibVars>>
  BY DEF HandOn, Throw
<1>3. pss_out' \in Seq(HalfFrame) /\ Len(pss_out') <= StreamCap
  <2>1. CASE Throw
    BY <2>1 DEF Throw, TypeOK
  <2>2. CASE HandOn
    <3> DEFINE h == [lost |-> sent'.tag = "lost", run |-> run']
    <3>1. h \in HalfFrame
      BY <1>1 DEF HalfFrame
    <3>2. /\ pss_out' = Append(pss_out, h) /\ sss_out' = sss_out
          /\ Len(pss_out) < StreamCap
      BY <2>2 DEF HandOn
    <3>3. /\ pss_out \in Seq(HalfFrame) /\ sss_out \in Seq(TaggedFrame)
          /\ Len(pss_out) \in Nat /\ StreamCap \in Nat
      BY WayType, ChainAssumption DEF TypeOK
    <3> HIDE DEF h
    <3>4. pss_out' \in Seq(HalfFrame) /\ Len(pss_out') = Len(pss_out) + 1
      BY <3>1, <3>2, <3>3, WayHandOn
    <3> QED BY <3>2, <3>3, <3>4
  <2> QED BY <2>1, <2>2
<1> QED BY <1>1, <1>2, <1>3 DEF TypeOK, mibVars

LEMMA SssCall ==
  ASSUME TypeOK, SssWork
  PROVE  \E cell \in Sss!TaggedCell \cup {NoCell} :
           /\ Sss!Forward(cell)
           /\ cp_avg' = IF Head(pss_out).lost THEN {}
                          ELSE cp_avg \cup {Head(pss_out).run}
<1>1. CASE Sss!Reset
  BY <1>1 DEF Sss!Reset
<1>2. CASE Sss!Unidentified
  BY <1>2 DEF Sss!Unidentified
<1>3. ASSUME NEW cell \in Sss!TaggedCell, Sss!Identify(cell)
      PROVE  /\ Sss!Forward(cell)
             /\ cp_avg' = IF Head(pss_out).lost THEN {}
                            ELSE cp_avg \cup {Head(pss_out).run}
  BY <1>3 DEF Sss!Identify
<1> QED BY <1>1, <1>2, <1>3 DEF SssWork, Sss!Work

LEMMA SssTypes ==
  ASSUME TypeOK, SssWork
  PROVE  TypeOK'
<1>1. PICK cell \in Sss!TaggedCell \cup {NoCell} :
        /\ Sss!Forward(cell)
        /\ cp_avg' = IF Head(pss_out).lost THEN {}
                       ELSE cp_avg \cup {Head(pss_out).run}
  BY SssCall
<1>2. /\ pss_out \in Seq(HalfFrame) /\ sss_out \in Seq(TaggedFrame)
      /\ Len(pss_out) \in Nat /\ Len(sss_out) \in Nat /\ StreamCap \in Nat
      /\ Len(pss_out) <= StreamCap
  BY WayType, ChainAssumption DEF TypeOK
<1>3. /\ pss_out' \in Seq(HalfFrame) /\ Len(pss_out') = Len(pss_out) - 1
      /\ sss_out' \in Seq(TaggedFrame) /\ Len(sss_out') = Len(sss_out) + 1
      /\ Len(sss_out) < StreamCap
      /\ Head(pss_out) = pss_out[1] /\ 1 \in 1 .. Len(pss_out)
  BY <1>1, <1>2, WayForward
<1>4. Head(pss_out) \in HalfFrame
  BY <1>2, <1>3, ElementOfSeq
<1>5. cp_avg' \subseteq Run
  <2>1. Head(pss_out).run \in Run /\ cp_avg \subseteq Run
    BY <1>4 DEF HalfFrame, TypeOK
  <2> QED BY <2>1, <1>1
<1>6. UNCHANGED <<pssVars, mibVars>>
  BY DEF SssWork
<1>7. Len(pss_out') <= StreamCap /\ Len(sss_out') <= StreamCap
  BY <1>2, <1>3
<1> QED BY <1>3, <1>5, <1>6, <1>7 DEF TypeOK, pssVars, mibVars

LEMMA InitTypes == Init => TypeOK /\ PortsAgree /\ BufferNotAhead
<1> SUFFICES ASSUME Init PROVE TypeOK /\ PortsAgree /\ BufferNotAhead
  OBVIOUS
<1>1. /\ points = 0 /\ sent = [tag |-> "none", turn |-> 0] /\ failed = FALSE /\ run \in Run
      /\ pss_out = <<>> /\ cp_avg = {} /\ sss_out = <<>>
  BY DEF Init, Pss!Init
<1>2. /\ published = FALSE /\ current = NIL
      /\ d_cell = [id |-> 0, cp |-> "norm", nof_ports |-> 0]
      /\ d_mib = [state |-> "new", cell |-> Mib!Unset, buf |-> 0]
      /\ sf_buffer = 0 /\ done = FALSE
      /\ said = [port |-> "none", cell |-> NIL, turn |-> 0]
      /\ decoded = [run |-> NIL, by |-> NIL]
  BY DEF Init, Mib!Init
<1>3. track_after \in Nat /\ StreamCap \in Nat
  BY ChainAssumption
<1>4. /\ pss_out \in Seq(HalfFrame) /\ sss_out \in Seq(TaggedFrame)
      /\ Len(pss_out) = 0 /\ Len(sss_out) = 0
  BY <1>1, EmptySeq
<1>5. d_cell \in DCell
  BY <1>2 DEF DCell, Sss!CpType
<1>6. /\ d_mib \in [state : {"new", "set", "failed"}, cell : DCell \cup {Mib!Unset},
                    buf : 0 .. StreamCap]
      /\ sf_buffer \in 0 .. StreamCap
      /\ said \in [port : {"none", "track", "drop"}, cell : OwnCell \cup {NIL},
                    turn : {0, 1}]
      /\ decoded \in [run : Run \cup {NIL}, by : {"new", "set", "failed", NIL}]
  BY <1>2, <1>3
<1>7. /\ points \in 0 .. track_after /\ sent \in Pss!Sent
      /\ failed \in BOOLEAN /\ run \in Run /\ cp_avg \subseteq Run
      /\ Len(pss_out) <= StreamCap /\ Len(sss_out) <= StreamCap
      /\ published \in BOOLEAN /\ done \in BOOLEAN
      /\ current \in OwnCell \cup {NIL}
  <2>1. points \in 0 .. track_after /\ run \in Run
    BY <1>1, <1>3
  <2>2. sent \in Pss!Sent /\ failed \in BOOLEAN
    BY <1>1 DEF Pss!Sent
  <2>3. cp_avg \subseteq Run
    BY <1>1
  <2>4. Len(pss_out) <= StreamCap /\ Len(sss_out) <= StreamCap
    BY <1>3, <1>4
  <2>5. /\ published \in BOOLEAN /\ done \in BOOLEAN
        /\ current \in OwnCell \cup {NIL}
    BY <1>2
  <2> QED BY <2>1, <2>2, <2>3, <2>4, <2>5
<1>8. TypeOK
  BY <1>4, <1>5, <1>6, <1>7 DEF TypeOK
<1> QED BY <1>2, <1>8 DEF PortsAgree, BufferNotAhead

(* The types, the port discipline and the buffers are inductive by         *)
(* themselves.                                                             *)
LEMMA NextTypes ==
  ASSUME TypeOK, PortsAgree, BufferNotAhead, [Next]_vars
  PROVE  TypeOK' /\ PortsAgree' /\ BufferNotAhead'
<1>1. CASE HandOn \/ Throw
  <2>1. UNCHANGED mibVars
    BY <1>1 DEF HandOn, Throw
  <2> QED BY <1>1, <2>1, PssTypes DEF mibVars, PortsAgree, BufferNotAhead
<1>2. CASE SssWork
  <2>1. UNCHANGED mibVars
    BY <1>2 DEF SssWork
  <2> QED BY <1>2, <2>1, SssTypes DEF mibVars, PortsAgree, BufferNotAhead
<1>3. CASE MibWork
  BY <1>3, MibStep
<1>4. CASE UNCHANGED vars
  BY <1>4 DEF vars, pssVars, mibVars, TypeOK, PortsAgree, BufferNotAhead
<1> QED BY <1>1, <1>2, <1>3, <1>4 DEF Next

----------------------------------------------------------------------------
(* Runs stay apart.                                                        *)

LEMMA RunsAfterPss ==
  ASSUME TypeOK, RunsApart, NextRunApart, HandOn \/ Throw
  PROVE  RunsApart' /\ NextRunApart'
<1>1. /\ track_after \in Nat \ {0} /\ run \in Run /\ run' \in Run
      /\ lostSoFar \in 1 .. track_after /\ lostSoFar' \in 1 .. track_after
      /\ ~(HandOn /\ Throw)
      /\ \/ /\ HandOn /\ sent'.tag = "lost"
            /\ \/ run' = run /\ lostSoFar' <= lostSoFar + 1
               \/ lostSoFar' = 1
         \/ /\ HandOn \/ Throw
            /\ HandOn => sent'.tag = "clean"
            /\ points + 1 >= track_after /\ run' = run
            /\ lostSoFar' = track_after /\ lostSoFar = track_after
  BY PssCall
<1>2. /\ pss_out \in Seq(HalfFrame) /\ sss_out \in Seq(TaggedFrame)
      /\ total \in Nat
  BY WayType DEF TypeOK
<1>3. CASE HandOn
  <2> DEFINE h == [lost |-> sent'.tag = "lost", run |-> run']
  <2>1. h \in HalfFrame /\ (h.lost <=> sent'.tag = "lost") /\ h.run = run'
    BY <1>1 DEF HalfFrame
  <2>2. pss_out' = Append(pss_out, h) /\ sss_out' = sss_out
    BY <1>3 DEF HandOn
  <2> HIDE DEF h
  <2>3. /\ total' = total + 1
        /\ \A i \in 1 .. total : way'[i] = way[i]
        /\ way'[total + 1] = h
    BY <1>2, <2>1, <2>2, WayHandOn
  <2>4. ASSUME NEW i \in 1 .. total', NEW j \in 1 .. total', i < j,
               ~way'[i].lost, ~way'[j].lost, way'[i].run # way'[j].run
        PROVE  \E l \in i + track_after .. j - 1 : way'[l].lost
    <3>1. i \in 1 .. total /\ way'[i] = way[i]
      BY <1>2, <2>3, <2>4
    <3>2. CASE j \in 1 .. total
      <4>1. PICK l \in i + track_after .. j - 1 : way[l].lost
        BY <2>3, <2>4, <3>1, <3>2 DEF RunsApart
      <4>2. l \in 1 .. total
        BY <1>1, <1>2, <3>1, <3>2
      <4> QED BY <4>1, <4>2, <2>3
    <3>3. CASE j = total + 1
      <4>1. sent'.tag # "lost" /\ way[i].run # run'
        BY <2>1, <2>3, <2>4, <3>1, <3>3
      <4>2. run' = run /\ lostSoFar = track_after
        BY <1>1, <4>1
      <4>3. PICK l \in i + lostSoFar .. total : way[l].lost
        BY <2>4, <3>1, <4>1, <4>2 DEF NextRunApart
      <4>4. l \in 1 .. total /\ l \in i + track_after .. j - 1
        BY <1>1, <1>2, <3>1, <3>3, <4>2
      <4> QED BY <4>3, <4>4, <2>3
    <3> QED BY <1>2, <2>3, <3>2, <3>3
  <2>5. ASSUME NEW i \in 1 .. total', ~way'[i].lost, way'[i].run # run'
        PROVE  \E l \in i + lostSoFar' .. total' : way'[l].lost
    <3>1. i \in 1 .. total /\ way'[i] = way[i]
      <4>1. CASE i = total + 1
        BY <4>1, <2>1, <2>3, <2>5
      <4> QED BY <4>1, <1>2, <2>3
    <3>2. CASE sent'.tag = "lost"
      <4>1. way'[total'].lost
        BY <3>2, <2>1, <2>3
      <4>2. i + lostSoFar' <= total'
        <5>1. CASE lostSoFar' = 1
          BY <5>1, <1>2, <2>3, <3>1
        <5>2. CASE run' = run /\ lostSoFar' <= lostSoFar + 1
          <6>1. PICK l \in i + lostSoFar .. total : way[l].lost
            BY <2>5, <3>1, <5>2 DEF NextRunApart
          <6>2. lostSoFar \in Nat /\ lostSoFar' \in Nat /\ l \in Int /\ l <= total
            BY <1>1, <6>1
          <6>3. i \in Int /\ total \in Nat /\ total' = total + 1
            BY <1>2, <2>3, <3>1
          <6> QED BY <5>2, <6>1, <6>2, <6>3 DEF lostSoFar
        <5> QED BY <5>1, <5>2, <3>2, <1>1
      <4>3. total' \in i + lostSoFar' .. total'
        <5>1. lostSoFar' \in Nat /\ i \in Nat /\ total' \in Nat
          BY <1>1, <1>2, <2>3, <3>1
        <5> QED BY <4>2, <5>1 DEF lostSoFar
      <4> QED BY <4>1, <4>3
    <3>3. CASE sent'.tag # "lost"
      <4>1. run' = run /\ lostSoFar' = lostSoFar
        BY <3>3, <1>1
      <4>2. PICK l \in i + lostSoFar .. total : way[l].lost
        BY <2>5, <3>1, <4>1 DEF NextRunApart
      <4>3. l \in 1 .. total /\ l \in i + lostSoFar' .. total'
        BY <1>1, <1>2, <2>3, <3>1, <4>1
      <4> QED BY <4>2, <4>3, <2>3
    <3> QED BY <3>2, <3>3
  <2> QED BY <2>4, <2>5 DEF RunsApart, NextRunApart
<1>4. CASE Throw
  <2>1. pss_out' = pss_out /\ sss_out' = sss_out
    BY <1>4 DEF Throw
  <2>2. total' = total /\ way' = way
    BY <2>1 DEF total, way
  <2>3. run' = run /\ lostSoFar' = lostSoFar
    BY <1>1, <1>4
  <2> QED BY <2>2, <2>3 DEF RunsApart, NextRunApart
<1> QED BY <1>3, <1>4

(* Passing half-frames on and consuming them leaves all distances behind.  *)
LEMMA RunsAfterShift ==
  ASSUME TypeOK, RunsApart, NextRunApart, UNCHANGED <<points, run>>,
         NEW n \in Nat, total' = total - n, total' \in Nat,
         \A i \in 1 .. total - n : way'[i] = way[i + n]
  PROVE  RunsApart' /\ NextRunApart'
<1>1. /\ track_after \in Nat \ {0} /\ lostSoFar \in Nat \ {0}
      /\ lostSoFar' = lostSoFar /\ total \in Nat
  BY ChainAssumption, WayType DEF TypeOK, lostSoFar
<1>2. ASSUME NEW i \in 1 .. total', NEW j \in 1 .. total', i < j,
             ~way'[i].lost, ~way'[j].lost, way'[i].run # way'[j].run
      PROVE  \E l \in i + track_after .. j - 1 : way'[l].lost
  <2>1. /\ i + n \in 1 .. total /\ j + n \in 1 .. total /\ i + n < j + n
        /\ way'[i] = way[i + n] /\ way'[j] = way[j + n]
    BY <1>1, <1>2
  <2>2. PICK l \in i + n + track_after .. j + n - 1 : way[l].lost
    BY <1>2, <2>1 DEF RunsApart
  <2>3. /\ l - n \in i + track_after .. j - 1 /\ l - n \in 1 .. total - n
        /\ l - n + n = l
    BY <1>1, <1>2, <2>1
  <2>4. way'[l - n].lost
    BY <2>2, <2>3
  <2> QED BY <2>3, <2>4
<1>3. ASSUME NEW i \in 1 .. total', ~way'[i].lost, way'[i].run # run
      PROVE  \E l \in i + lostSoFar .. total' : way'[l].lost
  <2>1. i + n \in 1 .. total /\ way'[i] = way[i + n]
    BY <1>1, <1>3
  <2>2. PICK l \in i + n + lostSoFar .. total : way[l].lost
    BY <1>3, <2>1 DEF NextRunApart
  <2>3. /\ l - n \in i + lostSoFar .. total' /\ l - n \in 1 .. total - n
        /\ l - n + n = l
    BY <1>1, <1>3, <2>1
  <2>4. way'[l - n].lost
    BY <2>2, <2>3
  <2> QED BY <2>3, <2>4
<1>4. RunsApart'
  BY <1>2 DEF RunsApart
<1>5. NextRunApart'
  BY <1>1, <1>3 DEF NextRunApart
<1> QED BY <1>4, <1>5

(* What a call of the mib block takes off the way, and whose cell is       *)
(* published after it.                                                     *)
LEMMA MibShift ==
  ASSUME TypeOK, MibWork
  PROVE  /\ UNCHANGED <<points, run, pss_out, cp_avg>>
         /\ \E k \in 0 .. StreamCap :
              /\ total' = total - k /\ total' \in Nat
              /\ \A i \in 1 .. total - k : way'[i] = way[i + k]
              /\ \/ ~published'
                 \/ /\ published /\ ~way[1].lost
                    /\ k = 1 /\ decoded' = decoded
                 \/ ~way[1].lost /\ decoded'.run = way[1].run /\ 1 <= total
<1>1. PICK n \in 1 .. StreamCap :
        /\ n <= Len(sss_out)
        /\ Mib!Reset(n) \/ Mib!Skip(n) \/ Mib!InitFails(n) \/ Mib!NotFound(n)
             \/ Mib!Found(n)
  BY DEF MibWork, Mib!GeneralWork
<1>2. UNCHANGED <<points, run, pss_out, cp_avg>>
  BY DEF MibWork, pssVars
<1>3. Mib!Store(n)
  BY <1>1 DEF Mib!Reset, Mib!Skip, Mib!InitFails, Mib!NotFound, Mib!Found
<1>4. /\ pss_out \in Seq(HalfFrame) /\ sss_out \in Seq(TaggedFrame)
      /\ StreamCap \in Nat \ {0} /\ Len(sss_out) \in Nat /\ total \in Nat
      /\ total = Len(sss_out) + Len(pss_out) /\ Len(pss_out) \in Nat
  BY ChainAssumption, WayType DEF TypeOK
<1>5. /\ n \in Nat /\ 1 \in 1 .. Len(sss_out) /\ 1 <= total
      /\ Mib!first.lost = way[1].lost /\ Mib!first.run = way[1].run
  <2>1. 1 \in 1 .. Len(sss_out) /\ Mib!first = sss_out[1] /\ n \in Nat
    BY <1>1, <1>3, MibCall
  <2>2. way[1].lost = sss_out[1].lost /\ way[1].run = sss_out[1].run
    BY <1>4, <2>1, WayType
  <2> QED BY <1>4, <2>1, <2>2
<1> DEFINE Shift(k) == /\ total' = total - k /\ total' \in Nat
                       /\ \A i \in 1 .. total - k : way'[i] = way[i + k]
<1>6. ASSUME NEW k \in 0 .. Len(sss_out), Mib!Consume(k)
      PROVE  Shift(k)
  BY <1>2, <1>4, <1>6, WayConsume
<1>7. ASSUME sss_out' = sss_out PROVE Shift(0)
  <2>1. total' = total /\ way' = way
    BY <1>2, <1>7 DEF total, way
  <2> QED BY <2>1, <1>4
<1> HIDE DEF Shift
<1> DEFINE Published(k) ==
             \/ ~published'
             \/ /\ published /\ ~way[1].lost
                /\ k = 1 /\ decoded' = decoded
             \/ ~way[1].lost /\ decoded'.run = way[1].run /\ 1 <= total
<1>8. \E k \in 0 .. StreamCap : Shift(k) /\ Published(k)
  <2>1. /\ 1 \in 0 .. Len(sss_out) /\ n \in 0 .. Len(sss_out)
        /\ 0 \in 0 .. StreamCap /\ 1 \in 0 .. StreamCap /\ n \in 0 .. StreamCap
    BY <1>1, <1>4, <1>5
  <2>2. CASE Mib!Reset(n)
    <3>1. Mib!Consume(1) /\ ~published'
      BY <2>2 DEF Mib!Reset
    <3> QED BY <2>1, <3>1, <1>6
  <2>3. CASE Mib!Skip(n)
    <3>1. /\ Mib!Consume(1) /\ ~Mib!first.lost
          /\ published' = published /\ decoded' = decoded
      BY <2>3 DEF Mib!Skip
    <3> QED BY <2>1, <3>1, <1>5, <1>6
  <2>4. CASE Mib!InitFails(n)
    <3>1. Mib!Consume(1) /\ ~published'
      BY <2>4 DEF Mib!InitFails, Mib!ToDecode
    <3> QED BY <2>1, <3>1, <1>6
  <2>5. CASE Mib!NotFound(n)
    <3>1. Mib!Consume(n) /\ ~published'
      BY <2>5 DEF Mib!NotFound, Mib!ToDecode
    <3> QED BY <2>1, <3>1, <1>6
  <2>6. CASE Mib!Found(n)
    <3>1. /\ ~Mib!first.lost /\ decoded'.run = Mib!first.run
          /\ Mib!Consume(n) \/ sss_out' = sss_out
      BY <2>6 DEF Mib!Found, Mib!ToDecode
    <3>2. Published(n) /\ Published(0)
      BY <3>1, <1>5
    <3> QED BY <2>1, <3>1, <3>2, <1>6, <1>7
  <2> QED BY <1>1, <2>2, <2>3, <2>4, <2>5, <2>6
<1> QED BY <1>2, <1>8 DEF Shift

(* What a call of the sss block leaves on the way: everything. *)
LEMMA SssShift ==
  ASSUME TypeOK, SssWork
  PROVE  /\ UNCHANGED <<points, run, published, decoded>>
         /\ total' = total /\ total \in Nat
         /\ \A i \in 1 .. total : way'[i] = way[i]
<1>1. UNCHANGED <<points, run, published, decoded>>
  BY DEF SssWork, pssVars, mibVars
<1>2. /\ pss_out \in Seq(HalfFrame) /\ sss_out \in Seq(TaggedFrame)
      /\ total \in Nat
  BY WayType DEF TypeOK
<1>3. PICK cell \in Sss!TaggedCell \cup {NoCell} : Sss!Forward(cell)
  BY SssCall
<1> QED BY <1>1, <1>2, <1>3, WayForward

(* Between any two runs there are enough lost half-frames, always.         *)
LEMMA RunsStep ==
  ASSUME TypeOK, RunsApart, NextRunApart, [Next]_vars
  PROVE  RunsApart' /\ NextRunApart'
<1>1. CASE HandOn \/ Throw
  BY <1>1, RunsAfterPss
<1>2. CASE SssWork
  <2>1. /\ UNCHANGED <<points, run>> /\ total' = total /\ total \in Nat
        /\ \A i \in 1 .. total : way'[i] = way[i]
    BY <1>2, SssShift
  <2>2. /\ total' = total - 0 /\ total' \in Nat /\ 0 \in Nat
        /\ \A i \in 1 .. total - 0 : way'[i] = way[i + 0]
    BY <2>1
  <2> QED BY <2>1, <2>2, RunsAfterShift
<1>3. CASE MibWork
  <2>1. PICK k \in 0 .. StreamCap :
          /\ total' = total - k /\ total' \in Nat
          /\ \A i \in 1 .. total - k : way'[i] = way[i + k]
    BY <1>3, MibShift
  <2>2. UNCHANGED <<points, run>> /\ k \in Nat
    BY <1>3, <2>1, MibShift, ChainAssumption
  <2> QED BY <2>1, <2>2, RunsAfterShift
<1>4. CASE UNCHANGED vars
  BY <1>4 DEF vars, pssVars, RunsApart, NextRunApart, lostSoFar, way, total
<1> QED BY <1>1, <1>2, <1>3, <1>4 DEF Next

----------------------------------------------------------------------------
(* The prefix average.                                                     *)

LEMMA PrefixAfterPss ==
  ASSUME TypeOK, PrefixResetOnItsWay, HandOn \/ Throw
  PROVE  PrefixResetOnItsWay'
<1>1. /\ run' \in Run
      /\ ~(HandOn /\ Throw)
      /\ \/ HandOn /\ sent'.tag = "lost"
         \/ (HandOn => sent'.tag = "clean") /\ run' = run
  BY PssCall
<1>2. /\ pss_out \in Seq(HalfFrame) /\ sss_out \in Seq(TaggedFrame)
      /\ Len(pss_out) \in Nat
  BY WayType DEF TypeOK
<1>3. cp_avg' = cp_avg
  BY DEF HandOn, Throw
<1>4. CASE Throw
  <2>1. pss_out' = pss_out /\ run' = run
    BY <1>4 DEF Throw
  <2> QED BY <2>1, <1>3 DEF PrefixResetOnItsWay
<1>5. CASE HandOn
  <2> DEFINE h == [lost |-> sent'.tag = "lost", run |-> run']
  <2>1. h \in HalfFrame /\ (h.lost <=> sent'.tag = "lost") /\ h.run = run'
    BY <1>1 DEF HalfFrame
  <2>2. pss_out' = Append(pss_out, h) /\ sss_out' = sss_out
    BY <1>5 DEF HandOn
  <2> HIDE DEF h
  <2>3. /\ Len(pss_out') = Len(pss_out) + 1
        /\ \A i \in 1 .. Len(pss_out) : pss_out'[i] = pss_out[i]
        /\ pss_out'[Len(pss_out) + 1] = h
    BY <1>2, <2>1, <2>2, WayHandOn
  <2>4. ASSUME NEW j \in 1 .. Len(pss_out'), ~pss_out'[j].lost,
               ~(cp_avg \subseteq {pss_out'[j].run})
        PROVE  \E l \in 1 .. j - 1 : pss_out'[l].lost
    <3>1. CASE j \in 1 .. Len(pss_out)
      <4>1. PICK l \in 1 .. j - 1 : pss_out[l].lost
        BY <2>3, <2>4, <3>1 DEF PrefixResetOnItsWay
      <4>2. l \in 1 .. Len(pss_out)
        BY <1>2, <3>1
      <4> QED BY <4>1, <4>2, <2>3
    <3>2. CASE j = Len(pss_out) + 1
      <4>1. run' = run /\ ~(cp_avg \subseteq {run})
        BY <1>1, <2>1, <2>3, <2>4, <3>2
      <4>2. PICK l \in 1 .. Len(pss_out) : pss_out[l].lost
        BY <4>1 DEF PrefixResetOnItsWay
      <4>3. l \in 1 .. j - 1
        BY <1>2, <3>2
      <4> QED BY <4>2, <4>3, <2>3
    <3> QED BY <1>2, <2>3, <3>1, <3>2
  <2>5. ASSUME ~(cp_avg \subseteq {run'})
        PROVE  \E l \in 1 .. Len(pss_out') : pss_out'[l].lost
    <3>1. CASE sent'.tag = "lost"
      <4>1. Len(pss_out) + 1 \in 1 .. Len(pss_out')
        BY <1>2, <2>3
      <4> QED BY <3>1, <4>1, <2>1, <2>3
    <3>2. CASE sent'.tag # "lost"
      <4>1. ~(cp_avg \subseteq {run})
        BY <1>1, <2>5, <3>2
      <4>2. PICK l \in 1 .. Len(pss_out) : pss_out[l].lost
        BY <4>1 DEF PrefixResetOnItsWay
      <4>3. l \in 1 .. Len(pss_out')
        BY <1>2, <2>3
      <4> QED BY <4>2, <4>3, <2>3
    <3> QED BY <3>1, <3>2
  <2> QED BY <1>3, <2>4, <2>5 DEF PrefixResetOnItsWay
<1> QED BY <1>4, <1>5

LEMMA PrefixAfterSss ==
  ASSUME TypeOK, RunsApart, NextRunApart, PrefixResetOnItsWay, SssWork
  PROVE  PrefixResetOnItsWay'
<1>1. PICK cell \in Sss!TaggedCell \cup {NoCell} :
        /\ Sss!Forward(cell)
        /\ cp_avg' = IF Head(pss_out).lost THEN {}
                       ELSE cp_avg \cup {Head(pss_out).run}
  BY SssCall
<1>2. /\ pss_out \in Seq(HalfFrame) /\ sss_out \in Seq(TaggedFrame)
      /\ Len(pss_out) \in Nat /\ Len(sss_out) \in Nat /\ total \in Nat
      /\ total = Len(sss_out) + Len(pss_out)
      /\ \A i \in 1 .. Len(pss_out) : pss_out[i] \in HalfFrame
      /\ \A i \in 1 .. Len(pss_out) : way[Len(sss_out) + i] = pss_out[i]
  BY WayType DEF TypeOK
<1>3. /\ Len(pss_out') = Len(pss_out) - 1
      /\ \A i \in 1 .. Len(pss_out') : pss_out'[i] = pss_out[i + 1]
      /\ Head(pss_out) = pss_out[1] /\ 1 \in 1 .. Len(pss_out)
  BY <1>1, <1>2, WayForward
<1>4. /\ track_after \in Nat \ {0} /\ lostSoFar \in Nat \ {0}
      /\ run' = run /\ cp_avg \subseteq Run
  BY ChainAssumption DEF TypeOK, lostSoFar, SssWork, pssVars
<1>5. CASE pss_out[1].lost
  <2>1. cp_avg' = {}
    BY <1>1, <1>3, <1>5
  <2> QED BY <2>1 DEF PrefixResetOnItsWay
<1>6. CASE ~pss_out[1].lost
  <2> DEFINE r == pss_out[1].run
             at(i) == Len(sss_out) + i
  <2>1. r \in Run
    BY <1>2, <1>3 DEF HalfFrame
  <2>2. cp_avg \subseteq {r}
    <3>1. 1 .. 1 - 1 = {}
      OBVIOUS
    <3> QED BY <1>3, <1>6, <3>1 DEF PrefixResetOnItsWay
  <2>3. cp_avg' = {r}
    BY <1>1, <1>3, <1>6, <2>2
  <2>4. at(1) \in 1 .. total /\ way[at(1)] = pss_out[1]
    BY <1>2, <1>3
  <2>5. ASSUME NEW j \in 1 .. Len(pss_out'), ~pss_out'[j].lost,
               ~(cp_avg' \subseteq {pss_out'[j].run})
        PROVE  \E l \in 1 .. j - 1 : pss_out'[l].lost
    <3>1. j + 1 \in 1 .. Len(pss_out) /\ pss_out'[j] = pss_out[j + 1]
      BY <1>2, <1>3
    <3>2. pss_out[j + 1].run # r
      BY <2>3, <2>5, <3>1
    <3>3. /\ at(j + 1) \in 1 .. total /\ way[at(j + 1)] = pss_out[j + 1]
          /\ at(1) < at(j + 1)
      BY <1>2, <1>3, <3>1
    <3>4. PICK l \in at(1) + track_after .. at(j + 1) - 1 : way[l].lost
      BY <1>6, <2>4, <2>5, <3>1, <3>2, <3>3 DEF RunsApart
    <3> DEFINE k == l - Len(sss_out) - 1
    <3>5. /\ k \in 1 .. j - 1 /\ k \in 1 .. Len(pss_out')
          /\ k + 1 \in 1 .. Len(pss_out) /\ at(k + 1) = l
      <4>1. /\ Len(sss_out) \in Nat /\ Len(pss_out) \in Nat
            /\ Len(pss_out') = Len(pss_out) - 1
            /\ track_after \in Nat \ {0} /\ j + 1 \in 1 .. Len(pss_out) /\ j \in Int
        BY <1>2, <1>3, <1>4, <3>1
      <4>2. l \in Len(sss_out) + 1 + track_after .. Len(sss_out) + (j + 1) - 1
        OBVIOUS
      <4> QED BY ONLY <4>1, <4>2
    <3>6. pss_out'[k].lost
      BY <1>2, <1>3, <3>4, <3>5
    <3> QED BY <3>5, <3>6
  <2>6. ASSUME ~(cp_avg' \subseteq {run})
        PROVE  \E l \in 1 .. Len(pss_out') : pss_out'[l].lost
    <3>1. r # run
      BY <2>3, <2>6
    <3>2. PICK l \in at(1) + lostSoFar .. total : way[l].lost
      BY <1>6, <2>4, <3>1 DEF NextRunApart
    <3> DEFINE k == l - Len(sss_out) - 1
    <3>3. /\ k \in 1 .. Len(pss_out')
          /\ k + 1 \in 1 .. Len(pss_out) /\ at(k + 1) = l
      <4>1. /\ Len(sss_out) \in Nat /\ Len(pss_out) \in Nat
            /\ Len(pss_out') = Len(pss_out) - 1
            /\ lostSoFar \in Nat \ {0}
        BY <1>2, <1>3, <1>4
      <4>2. l \in Len(sss_out) + 1 + lostSoFar .. Len(sss_out) + Len(pss_out)
        BY <1>2
      <4> QED BY ONLY <4>1, <4>2
    <3>4. pss_out'[k].lost
      BY <1>2, <1>3, <3>2, <3>3
    <3> QED BY <3>3, <3>4
  <2>7. \E q \in Run : cp_avg' \subseteq {q}
    BY <2>1, <2>3
  <2> QED BY <1>4, <2>5, <2>6, <2>7 DEF PrefixResetOnItsWay
<1> QED BY <1>5, <1>6

LEMMA PrefixStep ==
  ASSUME TypeOK, RunsApart, NextRunApart, PrefixResetOnItsWay, [Next]_vars
  PROVE  PrefixResetOnItsWay'
<1>1. CASE HandOn \/ Throw
  BY <1>1, PrefixAfterPss
<1>2. CASE SssWork
  BY <1>2, PrefixAfterSss
<1>3. CASE MibWork
  <2>1. UNCHANGED <<run, pss_out, cp_avg>>
    BY <1>3, MibShift
  <2> QED BY <2>1 DEF PrefixResetOnItsWay
<1>4. CASE UNCHANGED vars
  BY <1>4 DEF vars, pssVars, PrefixResetOnItsWay
<1> QED BY <1>1, <1>2, <1>3, <1>4 DEF Next

----------------------------------------------------------------------------
(* The published cell.                                                     *)

LEMMA CellAfterPss ==
  ASSUME TypeOK, ResetOnItsWay, published, HandOn \/ Throw
  PROVE  ResetOnItsWay'
<1>1. /\ track_after \in Nat \ {0} /\ points \in 0 .. track_after
      /\ run' \in Run
      /\ ~(HandOn /\ Throw)
      /\ \/ HandOn /\ sent'.tag = "lost"
         \/ (HandOn => sent'.tag = "clean") /\ run' = run /\ points + 1 >= track_after
  BY PssCall
<1>2. /\ pss_out \in Seq(HalfFrame) /\ sss_out \in Seq(TaggedFrame)
      /\ total \in Nat
  BY WayType DEF TypeOK
<1>3. published' = published /\ decoded' = decoded
  BY DEF HandOn, Throw, mibVars
<1>4. ASSUME run' = run, points + 1 >= track_after, decoded.run # run
      PROVE  \E l \in 1 .. total : way[l].lost
  BY <1>1, <1>4 DEF ResetOnItsWay
<1>5. CASE Throw
  <2>1. total' = total /\ way' = way
    BY <1>5 DEF Throw, total, way
  <2>2. run' = run /\ points + 1 >= track_after
    BY <1>1, <1>5
  <2> QED BY <2>1, <2>2, <1>3, <1>4 DEF ResetOnItsWay
<1>6. CASE HandOn
  <2> DEFINE h == [lost |-> sent'.tag = "lost", run |-> run']
  <2>1. h \in HalfFrame /\ (h.lost <=> sent'.tag = "lost") /\ h.run = run'
    BY <1>1 DEF HalfFrame
  <2>2. pss_out' = Append(pss_out, h) /\ sss_out' = sss_out
    BY <1>6 DEF HandOn
  <2> HIDE DEF h
  <2>3. /\ total' = total + 1
        /\ \A i \in 1 .. total : way'[i] = way[i]
        /\ way'[total + 1] = h
    BY <1>2, <2>1, <2>2, WayHandOn
  <2>4. ASSUME NEW j \in 1 .. total', ~way'[j].lost, way'[j].run # decoded.run
        PROVE  \E l \in 1 .. j - 1 : way'[l].lost
    <3>1. CASE j \in 1 .. total
      <4>1. PICK l \in 1 .. j - 1 : way[l].lost
        BY <2>3, <2>4, <3>1 DEF ResetOnItsWay
      <4>2. l \in 1 .. total
        BY <1>2, <3>1
      <4> QED BY <4>1, <4>2, <2>3
    <3>2. CASE j = total + 1
      <4>1. run' = run /\ points + 1 >= track_after /\ decoded.run # run
        BY <1>1, <2>1, <2>3, <2>4, <3>2
      <4>2. PICK l \in 1 .. total : way[l].lost
        BY <4>1, <1>4
      <4>3. l \in 1 .. j - 1
        BY <1>2, <3>2
      <4> QED BY <4>2, <4>3, <2>3
    <3> QED BY <1>2, <2>3, <3>1, <3>2
  <2>5. ASSUME decoded.run # run'
        PROVE  \E l \in 1 .. total' : way'[l].lost
    <3>1. CASE sent'.tag = "lost"
      <4>1. total + 1 \in 1 .. total' /\ way'[total + 1].lost
        BY <1>2, <2>1, <2>3, <3>1
      <4> QED BY <4>1
    <3>2. CASE sent'.tag # "lost"
      <4>1. PICK l \in 1 .. total : way[l].lost
        BY <1>1, <1>4, <2>5, <3>2
      <4>2. l \in 1 .. total'
        BY <1>2, <2>3
      <4> QED BY <4>1, <4>2, <2>3
    <3> QED BY <3>1, <3>2
  <2> QED BY <1>3, <2>4, <2>5 DEF ResetOnItsWay
<1> QED BY <1>5, <1>6

(* A decode takes no more off the way than the streams hold, and the cell  *)
(* it finds is of the run of the first half-frame: between that run and    *)
(* the next there are as many lost half-frames left, and one more.         *)
LEMMA CellAfterMib ==
  ASSUME TypeOK, RunsApart, NextRunApart, ResetOnItsWay, MibWork,
         track_after >= StreamCap
  PROVE  ResetOnItsWay'
<1>1. UNCHANGED <<points, run>>
  BY MibShift
<1>2. PICK k \in 0 .. StreamCap :
        /\ total' = total - k /\ total' \in Nat
        /\ \A i \in 1 .. total - k : way'[i] = way[i + k]
        /\ \/ ~published'
           \/ /\ published /\ ~way[1].lost
              /\ k = 1 /\ decoded' = decoded
           \/ ~way[1].lost /\ decoded'.run = way[1].run /\ 1 <= total
  BY MibShift
<1>3. /\ track_after \in Nat \ {0} /\ StreamCap \in Nat \ {0}
      /\ points \in 0 .. track_after /\ total \in Nat /\ k \in Nat
      /\ k <= track_after
  <2>1. /\ track_after \in Nat \ {0} /\ StreamCap \in Nat \ {0}
        /\ points \in 0 .. track_after /\ total \in Nat
    BY ChainAssumption, WayType DEF TypeOK
  <2> QED BY <2>1
<1>4. ASSUME NEW l \in 1 .. total, way[l].lost, l > k
      PROVE  l - k \in 1 .. total' /\ way'[l - k].lost
  <2>1. l - k \in 1 .. total - k /\ l - k + k = l
    BY <1>3, <1>4
  <2> QED BY <2>1, <1>2, <1>4
<1>5. CASE ~published'
  BY <1>5 DEF ResetOnItsWay
<1>6. CASE published /\ ~way[1].lost /\ k = 1 /\ decoded' = decoded
  <2>1. ASSUME NEW j \in 1 .. total', ~way'[j].lost, way'[j].run # decoded.run
        PROVE  \E l \in 1 .. j - 1 : way'[l].lost
    <3>1. j + 1 \in 1 .. total /\ way'[j] = way[j + 1]
      BY <1>2, <1>3, <1>6
    <3>2. PICK l \in 1 .. j + 1 - 1 : way[l].lost
      BY <1>6, <2>1, <3>1 DEF ResetOnItsWay
    <3>3. l > k /\ l \in 1 .. total /\ l - k \in 1 .. j - 1
      BY <1>3, <1>6, <3>1, <3>2
    <3> QED BY <1>4, <3>2, <3>3
  <2>2. ASSUME decoded.run # run, ~(points + 1 < track_after)
        PROVE  \E l \in 1 .. total' : way'[l].lost
    <3>1. PICK l \in 1 .. total : way[l].lost
      BY <1>6, <2>2 DEF ResetOnItsWay
    <3>2. l > k
      BY <1>3, <1>6, <3>1
    <3> QED BY <1>4, <3>1, <3>2
  <2> QED BY <1>1, <1>6, <2>1, <2>2 DEF ResetOnItsWay
<1>7. CASE ~way[1].lost /\ decoded'.run = way[1].run /\ 1 <= total
  <2>1. 1 \in 1 .. total
    BY <1>3, <1>7
  <2>2. ASSUME NEW j \in 1 .. total', ~way'[j].lost, way'[j].run # way[1].run
        PROVE  \E l \in 1 .. j - 1 : way'[l].lost
    <3>1. j + k \in 1 .. total /\ way'[j] = way[j + k]
      BY <1>2, <1>3
    <3>2. 1 < j + k
      <4>1. j + k # 1
        BY <2>2, <3>1
      <4> QED BY <4>1, <3>1
    <3>3. PICK l \in 1 + track_after .. j + k - 1 : way[l].lost
      BY <1>7, <2>1, <2>2, <3>1, <3>2 DEF RunsApart
    <3>4. l > k /\ l \in 1 .. total /\ l - k \in 1 .. j - 1
      BY <1>3, <3>1, <3>3
    <3> QED BY <1>4, <3>3, <3>4
  <2>3. ASSUME way[1].run # run, ~(points + 1 < track_after)
        PROVE  \E l \in 1 .. total' : way'[l].lost
    <3>1. lostSoFar = track_after
      BY <2>3, <1>3 DEF lostSoFar
    <3>2. PICK l \in 1 + track_after .. total : way[l].lost
      BY <1>7, <2>1, <2>3, <3>1 DEF NextRunApart
    <3>3. l > k /\ l \in 1 .. total
      BY <1>3, <3>2
    <3> QED BY <1>4, <3>2, <3>3
  <2> QED BY <1>1, <1>7, <2>2, <2>3 DEF ResetOnItsWay
<1> QED BY <1>2, <1>5, <1>6, <1>7

LEMMA CellStep ==
  ASSUME TypeOK, RunsApart, NextRunApart, ResetOnItsWay, [Next]_vars,
         track_after >= StreamCap
  PROVE  ResetOnItsWay'
<1>1. CASE HandOn \/ Throw
  <2>1. CASE published
    BY <1>1, <2>1, CellAfterPss
  <2>2. CASE ~published
    <3>1. published' = published
      BY <1>1 DEF HandOn, Throw, mibVars
    <3> QED BY <2>2, <3>1 DEF ResetOnItsWay
  <2> QED BY <2>1, <2>2
<1>2. CASE SssWork
  <2>1. /\ UNCHANGED <<points, run, published, decoded>>
        /\ total' = total /\ total \in Nat
        /\ \A i \in 1 .. total : way'[i] = way[i]
    BY <1>2, SssShift
  <2> QED BY <2>1 DEF ResetOnItsWay
<1>3. CASE MibWork
  BY <1>3, CellAfterMib
<1>4. CASE UNCHANGED vars
  BY <1>4 DEF vars, pssVars, mibVars, ResetOnItsWay, way, total
<1> QED BY <1>1, <1>2, <1>3, <1>4 DEF Next

----------------------------------------------------------------------------
(* The theorems.                                                           *)

LEMMA InitIInv == Init => IInv /\ ResetOnItsWay
<1> SUFFICES ASSUME Init PROVE IInv /\ ResetOnItsWay
  OBVIOUS
<1>1. TypeOK /\ PortsAgree /\ BufferNotAhead
  BY InitTypes
<1>2. total = 0 /\ Len(pss_out) = 0 /\ cp_avg = {} /\ ~published /\ run \in Run
  BY DEF Init, total, Mib!Init
<1>3. 1 .. 0 = {}
  OBVIOUS
<1>4. RunsApart /\ NextRunApart
  BY <1>2, <1>3 DEF RunsApart, NextRunApart
<1>5. PrefixResetOnItsWay
  BY <1>2, <1>3 DEF PrefixResetOnItsWay
<1> QED BY <1>1, <1>2, <1>4, <1>5 DEF IInv, ResetOnItsWay

LEMMA NextIInv == IInv /\ [Next]_vars => IInv'
  BY NextTypes, RunsStep, PrefixStep DEF IInv

LEMMA Invariance == Spec => []IInv
  BY InitIInv, NextIInv, PTL DEF Spec

(* The variables of a chain keep their types: no stream is ever filled     *)
(* beyond its buffer, whatever the three blocks do.                        *)
THEOREM TypeCorrect == Spec => []TypeOK
<1>1. IInv => TypeOK
  BY DEF IInv
<1> QED BY <1>1, Invariance, PTL

(* The prefix type sent to the mib block is never averaged over two runs.  *)
THEOREM OnePrefix == Spec => []PrefixOfOneRun
<1>1. ASSUME IInv PROVE PrefixOfOneRun
  <2>1. Cardinality(cp_avg) <= 1
    <3>1. PICK r \in Run : cp_avg \subseteq {r}
      BY <1>1 DEF IInv, PrefixResetOnItsWay
    <3>2. CASE cp_avg = {}
      BY <3>2, FS_EmptySet
    <3>3. CASE cp_avg = {r}
      <4>1. Cardinality({r}) = 1
        BY FS_Singleton
      <4> QED BY <3>3, <4>1
    <3> QED BY <3>1, <3>2, <3>3
  <2>2. ASSUME pss_out # <<>>, ~Head(pss_out).lost
        PROVE  cp_avg \subseteq {Head(pss_out).run}
    <3>1. pss_out \in Seq(HalfFrame)
      BY <1>1 DEF IInv, TypeOK
    <3>2. 1 \in 1 .. Len(pss_out) /\ Head(pss_out) = pss_out[1]
      BY <2>2, <3>1, EmptySeq
    <3>3. 1 .. 1 - 1 = {}
      OBVIOUS
    <3> QED BY <1>1, <2>2, <3>2, <3>3 DEF IInv, PrefixResetOnItsWay
  <2> QED BY <2>1, <2>2 DEF PrefixOfOneRun
<1> QED BY <1>1, Invariance, PTL

(* Once the decoder reads the largest buffer, it reads every later call's. *)
THEOREM BufferIsSettled == Spec => []BufferSettles
<1>1. ASSUME IInv PROVE BufferSettles
  <2>1. sf_buffer \in 0 .. StreamCap /\ StreamCap \in Nat /\ d_mib.buf <= sf_buffer
    BY <1>1, ChainAssumption DEF IInv, TypeOK, BufferNotAhead
  <2> QED BY <2>1 DEF BufferSettles
<1> QED BY <1>1, Invariance, PTL

(* Every message names a cell of the chain's own primary identity, which   *)
(* is why Trigger may identify a chain by it.                              *)
THEOREM OwnIdentity == Spec => []NamesOwnIdentity
<1>1. ASSUME IInv PROVE NamesOwnIdentity
  <2> SUFFICES ASSUME said.port # "none"
               PROVE  said.cell.id \in 0 .. 503 /\ said.cell.id % 3 = N_id_2
    BY DEF NamesOwnIdentity
  <2>1. said.cell.id \in OwnId
    BY <1>1 DEF IInv, PortsAgree, OwnCell
  <2>2. PICK n \in N_id_1 : said.cell.id = 3 * n + N_id_2
    BY <2>1 DEF OwnId, Sss!CellId
  <2>3. n \in 0 .. 167 /\ N_id_2 \in 0 .. 2
    BY ChainAssumption
  <2> QED BY <2>2, <2>3
<1> QED BY <1>1, Invariance, PTL

(* A chain that exits has announced its cell and not withdrawn it.         *)
THEOREM ExitIsAnnounced == Spec => []ExitsWithCell
<1>1. ASSUME IInv PROVE ExitsWithCell
  BY <1>1 DEF IInv, PortsAgree, ExitsWithCell
<1> QED BY <1>1, Invariance, PTL

(* A chain implements MibContract: its messages are a track and the drop   *)
(* of the same cell by turns, so Trigger may use the contract in its place.*)
THEOREM Refinement == Spec => PortContract
<1>1. Init => Ports!Init
  BY DEF Init, Mib!Init, Ports!Init
<1>2. IInv /\ [Next]_vars => [Ports!Next]_said
  <2> SUFFICES ASSUME IInv, [Next]_vars PROVE Ports!Next \/ said' = said
    OBVIOUS
  <2>1. CASE MibWork
    BY <2>1, MibPosts DEF IInv
  <2>2. CASE HandOn \/ Throw \/ SssWork \/ UNCHANGED vars
    BY <2>2 DEF HandOn, Throw, SssWork, vars, mibVars
  <2> QED BY <2>1, <2>2 DEF Next
<1> QED BY <1>1, <1>2, Invariance, PTL DEF Spec, PortContract, Ports!Spec

(* With at least as many hits before a run as a stream holds half-frames,  *)
(* the mib block never takes the cell of one run for a cell of the next,   *)
(* although it may swallow tracking_lost tags behind a half-frame it       *)
(* decodes.                                                                *)
THEOREM CellIsOfThisRun ==
  ASSUME track_after >= StreamCap
  PROVE  Spec => []CellOfThisRun
<1>1. IInv /\ ResetOnItsWay /\ [Next]_vars => ResetOnItsWay'
  BY CellStep DEF IInv
<1>2. ASSUME IInv, ResetOnItsWay PROVE CellOfThisRun
  <2> SUFFICES ASSUME published, sss_out # <<>>, ~Head(sss_out).lost
               PROVE  Head(sss_out).run = decoded.run
    BY DEF CellOfThisRun
  <2>1. pss_out \in Seq(HalfFrame) /\ sss_out \in Seq(TaggedFrame)
    BY <1>2 DEF IInv, TypeOK
  <2>2. 1 \in 1 .. Len(sss_out) /\ Head(sss_out) = sss_out[1]
    BY <2>1, EmptySeq
  <2>3. /\ way[1].lost = sss_out[1].lost /\ way[1].run = sss_out[1].run
        /\ 1 \in 1 .. total
    BY <2>1, <2>2, WayType
  <2>4. 1 .. 1 - 1 = {}
    OBVIOUS
  <2> QED BY <1>2, <2>2, <2>3, <2>4 DEF ResetOnItsWay
<1>3. Spec => []ResetOnItsWay
  BY <1>1, InitIInv, Invariance, PTL DEF Spec
<1> QED BY <1>2, <1>3, Invariance, PTL

=============================================================================
