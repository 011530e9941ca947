----------------------------- MODULE PssProofs -----------------------------
(***************************************************************************)
(* What holds of the PSS block for every slot length, every score limit,   *)
(* every search period, every set of ratios, thresholds and peak positions *)
(* and every buffer size.                                                  *)
(***************************************************************************)
EXTENDS Pss, MovingAvgProofs

----------------------------------------------------------------------------
(* Lemmas about a call of general_work.                                    *)

(* What a search, or the last search, gives the call to work with.         *)
LEMMA ResultType ==
  ASSUME IInv, NEW m \in Result
  PROVE  /\ m.psr \in Ratio \cup {0}
         /\ m.peak_pos \in 0 .. half_frame_length + symbol_sz - 1
         /\ ~Searches => m.peak_pos = slot_length
<1>1. CASE Searches
  BY <1>1, PssAssumption DEF Result
<1>2. CASE ~Searches
  BY <1>2 DEF Result, IInv, TypeOK, Searches, AlignedWhileTracking
<1> QED BY <1>1, <1>2

(* The score, the timer and the buffers after a hit. *)
LEMMA HitStep ==
  ASSUME IInv, NEW m \in Result, Measure(m), IncrScore
  PROVE  /\ psr' \in Ratio \cup {0} /\ psr_max' \in Ratio \cup {0}
         /\ threshold' \in Nat
         /\ tracking' \in BOOLEAN /\ score' \in 0 .. track_after
         /\ timer' \in 0 .. track_every /\ since' \in 0 .. track_every
         /\ psr_data' \in Ring /\ Fresh(psr_data')
         /\ conv_avg' \in SUBSET {"search", "track"}
         /\ tracking' <=> score' = track_after
         /\ tracking' => since' + timer' = track_every
         /\ conv_avg' \subseteq {IF tracking' THEN "track" ELSE "search"}
         /\ tracking' <=> tracking \/ StartsTracking
<1> USE PssAssumption
<1>1. m.psr \in Ratio \cup {0}
  BY ResultType
<1>2. /\ psr' \in Ratio \cup {0} /\ psr_max' \in Ratio \cup {0}
      /\ threshold' \in Nat
  BY <1>1 DEF Measure, IInv, TypeOK
<1>3. /\ tracking' \in BOOLEAN /\ score' \in 0 .. track_after
      /\ tracking' <=> score' = track_after
      /\ tracking' <=> tracking \/ StartsTracking
  <2>1. /\ tracking \in BOOLEAN /\ score \in 0 .. track_after
        /\ tracking <=> score = track_after
    BY DEF IInv, TypeOK, ScoreMatchesTracking
  <2>2. tracking' <=> tracking \/ StartsTracking
    BY <2>1 DEF IncrScore
  <2>3. tracking' \in BOOLEAN
    BY <2>1 DEF IncrScore, StartsTracking
  <2>4. CASE tracking
    BY <2>1, <2>2, <2>3, <2>4 DEF IncrScore, scoreAfterHit
  <2>5. CASE ~tracking
    <3>1. score + 1 \in 0 .. track_after /\ scoreAfterHit = score + 1
      BY <2>1, <2>5 DEF scoreAfterHit
    <3> QED BY <2>2, <2>3, <2>5, <3>1 DEF IncrScore, StartsTracking
  <2> QED BY <2>4, <2>5
<1>4. /\ timer' \in 0 .. track_every /\ since' \in 0 .. track_every
      /\ tracking' => since' + timer' = track_every
  BY DEF Measure, sinceAfterSearch, IncrScore, timerAfterSearch, Searches,
         StartsTracking, IInv, TypeOK, TimerCountsCalls
<1>5. psr_data' \in Ring /\ Fresh(psr_data')
  BY PushRing DEF IncrScore, ringAfterSearch, IInv, TypeOK, PsrMeanIsFresh
<1>6. /\ conv_avg' \in SUBSET {"search", "track"}
      /\ conv_avg' \subseteq {IF tracking' THEN "track" ELSE "search"}
  BY DEF IncrScore, convAfterSearch, Phase, IInv, TypeOK, ConvolutionNotMixed
<1> QED BY <1>2, <1>3, <1>4, <1>5, <1>6

(* A half-frame handed on carries the tag it is given. *)
LEMMA SentStep ==
  ASSUME IInv, NEW tag \in {"lost", "clean"}, HandsOn(tag)
  PROVE  /\ sent' \in [tag : {"none", "lost", "clean"}, turn : {0, 1}]
         /\ sent'.tag = tag
BY DEF HandsOn, IInv, TypeOK

(* The half-frame handed on leaves the input aligned and not empty. *)
LEMMA ConsumeStep ==
  ASSUME IInv, Runnable, NEW m \in Result, ConsumeFrame(m)
  PROVE  /\ avail' \in Nat /\ avail' >= slot_length - symbol_sz
         /\ peak_pos' = slot_length
         /\ peak_pos' \in 0 .. half_frame_length + symbol_sz - 1
         /\ ~Searches => avail' = avail - half_frame_length
<1>1. /\ m.peak_pos \in 0 .. half_frame_length + symbol_sz - 1
      /\ ~Searches => m.peak_pos = slot_length
  BY ResultType
<1> DEFINE used == m.peak_pos - slot_length + half_frame_length
<1>2. /\ half_frame_length = 10 * slot_length
      /\ avail \in Nat /\ avail >= 2 * half_frame_length - 1
  BY PssAssumption DEF half_frame_length, Runnable, IInv, TypeOK
<1>3. /\ used \in Int /\ used <= 2 * half_frame_length + symbol_sz - 1 - slot_length
      /\ ~Searches => used = half_frame_length
  BY <1>1, <1>2, PssAssumption
<1>4. avail' = avail - used /\ peak_pos' = slot_length
  BY DEF ConsumeFrame
<1> QED BY <1>2, <1>3, <1>4, PssAssumption

----------------------------------------------------------------------------
(* The invariant.                                                          *)

LEMMA InitIInv == Init => IInv
<1> SUFFICES ASSUME Init PROVE IInv
  OBVIOUS
<1>1. EmptyRing \in Ring /\ Fresh(EmptyRing) /\ EmptyRing.n = 0
  BY MovingAvgAssumption DEF EmptyRing, Ring, Fresh
<1>2. TypeOK
  <2>1. threshold \in Nat
    BY PssAssumption DEF Init, SafeThreshold
  <2>2. avail \in Nat /\ peak_pos \in 0 .. half_frame_length + symbol_sz - 1
    BY PssAssumption DEF Init, half_frame_length
  <2>3. /\ tracking \in BOOLEAN /\ failed \in BOOLEAN
        /\ conv_avg \in SUBSET {"search", "track"}
        /\ sent \in [tag : {"none", "lost", "clean"}, turn : {0, 1}]
    BY DEF Init
  <2>4. /\ score \in 0 .. track_after
        /\ timer \in 0 .. track_every /\ since \in 0 .. track_every
        /\ psr \in Ratio \cup {0} /\ psr_max \in Ratio \cup {0}
    BY PssAssumption DEF Init
  <2>5. psr_data \in Ring /\ cfo_data \in Ring
    BY <1>1 DEF Init
  <2> QED BY <2>1, <2>2, <2>3, <2>4, <2>5 DEF TypeOK
<1>3. WindowLeft
  BY PssAssumption DEF Init, WindowLeft, half_frame_length
<1> QED
  BY <1>1, <1>2, <1>3, PssAssumption
     DEF Init, IInv, ScoreMatchesTracking, LossAnnounced,
         AlignedWhileTracking, TimerCountsCalls, PsrMeanIsFresh,
         CfoMeanIsOfThisCell, ConvolutionNotMixed

(* A hit that hands on a half-frame: tagged, clean, or lost to an error.   *)
LEMMA HitIInv ==
  ASSUME IInv, Runnable, NEW m \in Result,
         Acquire(m) \/ Track(m) \/ ChestError(m)
  PROVE  IInv'
<1>1. Measure(m) /\ IncrScore /\ ConsumeFrame(m)
  BY DEF Acquire, Track, ChestError
<1>2. /\ failed' \in BOOLEAN /\ sent' \in [tag : {"none", "lost", "clean"}, turn : {0, 1}]
      /\ LossAnnounced'
  <2>1. /\ ~failed /\ failed' \in BOOLEAN
        /\ tracking' <=> tracking \/ StartsTracking
        /\ sent \in [tag : {"none", "lost", "clean"}, turn : {0, 1}]
    BY HitStep, <1>1 DEF Acquire, Track, ChestError, IInv, TypeOK, Runnable
  <2>2. CASE Acquire(m)
    BY <2>1, <2>2, SentStep DEF Acquire, LossAnnounced
  <2>3. CASE Track(m)
    BY <2>1, <2>3, SentStep DEF Track, LossAnnounced
  <2>4. CASE ChestError(m)
    BY <2>1, <2>4 DEF ChestError, LossAnnounced
  <2> QED BY <2>2, <2>3, <2>4
<1>3. cfo_data' \in Ring /\ CfoMeanIsOfThisCell'
  <2>1. CASE Acquire(m)
    BY <2>1, <1>1, HitStep
       DEF Acquire, CfoMeanIsOfThisCell, IInv, TypeOK
  <2>2. CASE Track(m) \/ ChestError(m)
    BY <2>2, <1>1, HitStep, PushRing
       DEF Track, ChestError, CfoMeanIsOfThisCell, IInv, TypeOK
  <2> QED BY <2>1, <2>2
<1>4. TypeOK'
  BY <1>1, <1>2, <1>3, HitStep, ConsumeStep DEF TypeOK
<1>5. /\ ScoreMatchesTracking' /\ TimerCountsCalls' /\ PsrMeanIsFresh'
      /\ ConvolutionNotMixed'
  BY <1>1, HitStep
     DEF ScoreMatchesTracking, TimerCountsCalls, PsrMeanIsFresh,
         ConvolutionNotMixed, Phase
<1>6. AlignedWhileTracking' /\ WindowLeft'
  BY <1>1, ConsumeStep DEF AlignedWhileTracking, WindowLeft
<1> QED BY <1>2, <1>3, <1>4, <1>5, <1>6 DEF IInv

(* The loss of a cell, or of a partial score. *)
LEMMA LoseIInv ==
  ASSUME IInv, Runnable, NEW m \in Result, Lose(m)
  PROVE  IInv'
<1> USE PssAssumption
<1>1. Measure(m) /\ ResetScore /\ ConsumeFrame(m)
  BY DEF Lose
<1>2. /\ psr' \in Ratio \cup {0} /\ psr_max' \in Ratio \cup {0}
      /\ threshold' \in Nat /\ since' \in 0 .. track_every
  BY <1>1, ResultType
     DEF Measure, sinceAfterSearch, Searches, IInv, TypeOK, TimerCountsCalls
<1>3. /\ psr_data' \in Ring /\ Fresh(psr_data')
      /\ cfo_data' \in Ring /\ Fresh(cfo_data') /\ cfo_data'.n = 0
  <2>1. ringAfterSearch \in Ring /\ cfo_data \in Ring
    BY PushRing DEF ringAfterSearch, IInv, TypeOK
  <2> QED BY <2>1, <1>1, ForgetRing DEF ResetScore
<1>4. /\ ~tracking' /\ score' = 0 /\ timer' = 0 /\ conv_avg' = {}
      /\ sent' \in [tag : {"none", "lost", "clean"}, turn : {0, 1}]
      /\ sent'.tag = "lost" /\ failed' = failed
  BY SentStep DEF Lose, ResetScore
<1>5. TypeOK' /\ WindowLeft'
  <2>1. /\ tracking' \in BOOLEAN /\ failed' \in BOOLEAN
        /\ conv_avg' \in SUBSET {"search", "track"}
        /\ sent' \in [tag : {"none", "lost", "clean"}, turn : {0, 1}]
    BY <1>1, <1>4 DEF IInv, TypeOK, ResetScore
  <2>2. score' \in 0 .. track_after /\ timer' \in 0 .. track_every
    BY <1>4
  <2>3. /\ avail' \in Nat /\ avail' >= slot_length - symbol_sz
        /\ peak_pos' \in 0 .. half_frame_length + symbol_sz - 1
    BY <1>1, ConsumeStep
  <2> QED BY <1>2, <1>3, <2>1, <2>2, <2>3 DEF TypeOK, WindowLeft
<1> QED
  BY <1>3, <1>4, <1>5
     DEF IInv, ScoreMatchesTracking, LossAnnounced, AlignedWhileTracking,
         TimerCountsCalls, PsrMeanIsFresh, CfoMeanIsOfThisCell,
         ConvolutionNotMixed

(* Half a frame dropped: only a block that is not tracking does that. *)
LEMMA DropIInv ==
  ASSUME IInv, Runnable, NEW m \in Result, Drop(m)
  PROVE  IInv'
<1> USE PssAssumption
<1>1. ~tracking /\ Searches
  BY DEF Drop, IInv, ScoreMatchesTracking, Searches
<1>2. /\ m.psr \in Ratio \cup {0}
      /\ m.peak_pos \in 0 .. half_frame_length + symbol_sz - 1
  BY ResultType
<1>3. psr_data' \in Ring /\ Fresh(psr_data')
  BY PushRing DEF Drop, ringAfterSearch, IInv, TypeOK, PsrMeanIsFresh
<1>4. conv_avg' \subseteq {"search"}
  BY <1>1 DEF Drop, convAfterSearch, Phase, IInv, ConvolutionNotMixed
<1>5. avail' \in Nat /\ WindowLeft'
  BY DEF Drop, Runnable, WindowLeft, half_frame_length, IInv, TypeOK
<1>6. timer' \in 0 .. track_every /\ since' \in 0 .. track_every
  BY <1>1 DEF Drop, Measure, timerAfterSearch, sinceAfterSearch
<1>7. TypeOK'
  BY <1>1, <1>2, <1>3, <1>4, <1>5, <1>6 DEF Drop, Measure, IInv, TypeOK
<1> QED
  BY <1>1, <1>3, <1>4, <1>5, <1>7
     DEF Drop, IInv, ScoreMatchesTracking, LossAnnounced,
         AlignedWhileTracking, TimerCountsCalls, PsrMeanIsFresh,
         CfoMeanIsOfThisCell, ConvolutionNotMixed, Phase

LEMMA NextIInv == IInv /\ [Next]_vars => IInv'
<1> SUFFICES ASSUME IInv, [Next]_vars PROVE IInv'
  OBVIOUS
<1> USE DEF ScoreMatchesTracking, LossAnnounced, AlignedWhileTracking,
            TimerCountsCalls, PsrMeanIsFresh, CfoMeanIsOfThisCell,
            ConvolutionNotMixed, WindowLeft, Phase, measurement
<1>1. ASSUME NEW n \in Chunk, Deliver(n) PROVE IInv'
  BY <1>1, PssAssumption DEF Deliver, IInv, TypeOK
<1>2. CASE GeneralWork
  <2>1. Runnable
    BY <1>2 DEF GeneralWork
  <2>2. PICK m \in Result :
          Acquire(m) \/ Track(m) \/ ChestError(m) \/ Lose(m) \/ Drop(m)
    BY <1>2 DEF GeneralWork
  <2> QED BY <2>1, <2>2, HitIInv, LoseIInv, DropIInv
<1>3. ASSUME NEW t \in Threshold, SetPsrThreshold(t) PROVE IInv'
  <2>1. SafeThreshold(t) \in Nat
    BY PssAssumption DEF SafeThreshold
  <2> QED BY <2>1, <1>3 DEF SetPsrThreshold, IInv, TypeOK
<1>4. CASE UNCHANGED vars
  BY <1>4 DEF vars, IInv, TypeOK
<1> QED BY <1>1, <1>2, <1>3, <1>4 DEF Next

(* IInv holds of every reachable state of the block. *)
THEOREM Invariance == Spec => []IInv
<1> QED BY InitIInv, NextIInv, PTL DEF Spec

----------------------------------------------------------------------------
(* The properties the runs check, for every value of the constants.        *)

(* The variables keep their types; in particular incr_score never pushes   *)
(* the score past track_after and the timer never goes below zero.         *)
THEOREM TypeCorrect == Spec => []TypeOK
<1>1. IInv => TypeOK
  BY DEF IInv
<1> QED BY <1>1, Invariance, PTL

(* incr_score and reset_score keep the score and is_tracking in step. *)
THEOREM ScoreAndTrackingAgree == Spec => []ScoreMatchesTracking
<1>1. IInv => ScoreMatchesTracking
  BY DEF IInv
<1> QED BY <1>1, Invariance, PTL

(* Every loss of tracking reaches the output stream in the call that loses *)
(* it, and a clean half-frame is handed on only while tracking.            *)
THEOREM LossIsAnnounced == Spec => []LossAnnounced
<1>1. IInv => LossAnnounced
  BY DEF IInv
<1> QED BY <1>1, Invariance, PTL

(* The mean the user interface reads never includes what reset_score's     *)
(* byte count leaves in the buffer.                                        *)
THEOREM MeansAreFresh == Spec => []PsrMeanIsFresh
<1>1. IInv => PsrMeanIsFresh
  BY DEF IInv
<1> QED BY <1>1, Invariance, PTL

(* The offset that corrects the signal is averaged over estimates of the   *)
(* cell being tracked only.                                                *)
THEOREM OffsetIsOfThisCell == Spec => []CfoMeanIsOfThisCell
<1>1. IInv => CfoMeanIsOfThisCell
  BY DEF IInv
<1> QED BY <1>1, Invariance, PTL

(* A tracking block always works with the aligned peak: the call that found*)
(* another one has shifted the input and moved the peak with it.           *)
THEOREM TracksAligned == Spec => []AlignedWhileTracking
<1>1. IInv => AlignedWhileTracking
  BY DEF IInv
<1> QED BY <1>1, Invariance, PTL

(* srslte_pss_reset runs often enough: acquiring and tracking never share  *)
(* a convolution average.                                                  *)
THEOREM AverageNeverMixed == Spec => []ConvolutionNotMixed
<1>1. IInv => ConvolutionNotMixed
  BY DEF IInv
<1> QED BY <1>1, Invariance, PTL

(* The search period of a tracking block: track_every calls in a row skip  *)
(* the search and the next one makes it, so one call in track_every + 1    *)
(* searches, for every track_every (pss.h:55 has one in track_every).      *)
THEOREM SearchPeriod ==
  Spec => [][tracking /\ avail' < avail =>
               IF since = track_every THEN since' = 0 ELSE since' = since + 1]_vars
<1> DEFINE A == tracking /\ avail' < avail =>
                  IF since = track_every THEN since' = 0 ELSE since' = since + 1
<1>1. IInv /\ [Next]_vars => [A]_vars
  <2> SUFFICES ASSUME IInv, Next, tracking, avail' < avail
               PROVE  IF since = track_every THEN since' = 0 ELSE since' = since + 1
    OBVIOUS
  <2>1. /\ avail \in Nat /\ timer \in 0 .. track_every
        /\ since \in 0 .. track_every /\ since + timer = track_every
        /\ track_every \in Nat
    BY PssAssumption DEF IInv, TypeOK, TimerCountsCalls
  <2>2. ASSUME NEW n \in Chunk, Deliver(n) PROVE FALSE
    BY <2>1, <2>2, PssAssumption DEF Deliver
  <2>3. ASSUME NEW t \in Threshold, SetPsrThreshold(t) PROVE FALSE
    BY <2>1, <2>3 DEF SetPsrThreshold
  <2>4. CASE GeneralWork
    <3>1. since' = sinceAfterSearch
      BY <2>4 DEF GeneralWork, Acquire, Track, ChestError, Lose, Drop, Measure
    <3>2. Searches <=> since = track_every
      BY <2>1 DEF Searches
    <3> QED BY <2>1, <3>1, <3>2 DEF sinceAfterSearch
  <2> QED BY <2>2, <2>3, <2>4 DEF Next
<1> QED BY <1>1, Invariance, PTL DEF Spec

(* The assertion of general_work: the input is never used up, whatever the *)
(* slot and symbol lengths and wherever the peak is.                       *)
THEOREM AssertionHolds == Spec => []ConsumesLessThanInput
<1>1. IInv => ConsumesLessThanInput
  BY PssAssumption DEF IInv, TypeOK, WindowLeft, ConsumesLessThanInput
<1> QED BY <1>1, Invariance, PTL

(* A call that skips the search continues exactly where the last one ended.*)
THEOREM CoastsContiguously == Spec => ContiguousBetweenSearches
<1> DEFINE A == tracking /\ timer > 0 /\ avail' < avail
                  => avail' = avail - half_frame_length
<1>1. IInv /\ [Next]_vars => [A]_vars
  <2> SUFFICES ASSUME IInv, Next, tracking, timer > 0, avail' < avail
               PROVE  avail' = avail - half_frame_length
    OBVIOUS
  <2>1. avail \in Nat
    BY DEF IInv, TypeOK
  <2>2. ~Searches
    BY DEF Searches, IInv, TypeOK
  <2>3. ASSUME NEW n \in Chunk, Deliver(n) PROVE FALSE
    BY <2>1, <2>3, PssAssumption DEF Deliver
  <2>4. ASSUME NEW t \in Threshold, SetPsrThreshold(t) PROVE FALSE
    BY <2>1, <2>4 DEF SetPsrThreshold
  <2>5. CASE GeneralWork
    <3>1. Runnable
      BY <2>5 DEF GeneralWork
    <3>2. PICK m \in Result :
            Acquire(m) \/ Track(m) \/ ChestError(m) \/ Lose(m) \/ Drop(m)
      BY <2>5 DEF GeneralWork
    <3>3. CASE Drop(m)
      BY <3>3 DEF Drop
    <3>4. CASE ~Drop(m)
      <4>1. ConsumeFrame(m)
        BY <3>2, <3>4 DEF Acquire, Track, ChestError, Lose
      <4> QED BY <4>1, <3>1, <2>2, ConsumeStep
    <3> QED BY <3>3, <3>4
  <2> QED BY <2>3, <2>4, <2>5 DEF Next
<1> QED BY <1>1, Invariance, PTL DEF Spec, ContiguousBetweenSearches

(* How far general_work's copy can run past the items delivered: the items *)
(* left after a call fall short of the history by at most that distance,   *)
(* so an overrun is never longer than                                      *)
(* half_frame_length - 1 - (slot_length - symbol_sz) items.                *)
THEOREM OverrunIsBounded ==
  Spec => [](half_frame_length - 1 - avail
               <= half_frame_length - 1 - (slot_length - symbol_sz))
<1>1. IInv => half_frame_length - 1 - avail
                <= half_frame_length - 1 - (slot_length - symbol_sz)
  BY PssAssumption DEF IInv, TypeOK, WindowLeft, half_frame_length
<1> QED BY <1>1, Invariance, PTL

(* A call that has searched and found its peak after the first slot.       *)
SearchedLatePeak ==
  /\ Searches
  /\ \E p \in PeakPos :
       /\ p > slot_length
       /\ avail' = avail - (p - slot_length + half_frame_length)

(* Which calls overrun: only one that searched and found its peak after    *)
(* the first slot.  A call that skips the search, and every call once the  *)
(* input is aligned, copies only items delivered, however few the          *)
(* scheduler offers.                                                       *)
THEOREM OverrunNeedsLatePeak ==
  Spec => [][avail' < avail /\ ~CopiesOnlyInput' => SearchedLatePeak]_vars
<1>1. IInv /\ [Next]_vars => [avail' < avail /\ ~CopiesOnlyInput' => SearchedLatePeak]_vars
  <2> SUFFICES ASSUME IInv, Next, avail' < avail, ~CopiesOnlyInput'
               PROVE  SearchedLatePeak
    OBVIOUS
  <2>1. /\ avail \in Nat /\ half_frame_length \in Nat
        /\ slot_length \in Nat /\ PeakPos \subseteq Int
    BY PssAssumption DEF IInv, TypeOK, half_frame_length
  <2>2. ASSUME NEW n \in Chunk, Deliver(n) PROVE FALSE
    BY <2>1, <2>2, PssAssumption DEF Deliver
  <2>3. ASSUME NEW t \in Threshold, SetPsrThreshold(t) PROVE FALSE
    BY <2>1, <2>3 DEF SetPsrThreshold
  <2>4. CASE GeneralWork
    <3>1. avail >= half_frame_length + (half_frame_length - 1)
      BY <2>4 DEF GeneralWork, Runnable
    <3>2. PICK m \in Result :
            Acquire(m) \/ Track(m) \/ ChestError(m) \/ Lose(m) \/ Drop(m)
      BY <2>4 DEF GeneralWork
    <3>3. avail' < half_frame_length - 1
      <4>1. avail' \in Int
        BY <3>2, <2>1, ResultType
           DEF Acquire, Track, ChestError, Lose, Drop, ConsumeFrame
      <4> QED BY <4>1, <2>1 DEF CopiesOnlyInput, half_frame_length
    <3>4. ~Drop(m)
      BY <3>1, <3>3, <2>1 DEF Drop
    <3>5. avail' = avail - (m.peak_pos - slot_length + half_frame_length)
      BY <3>2, <3>4 DEF Acquire, Track, ChestError, Lose, ConsumeFrame
    <3>6. m.peak_pos \in Int
      BY ResultType
    <3>7. m.peak_pos > slot_length
      BY <3>1, <3>3, <3>5, <3>6, <2>1
    <3>8. Searches
      BY <3>6, <3>7, <2>1, ResultType
    <3>9. m.peak_pos \in PeakPos
      BY <3>8 DEF Result
    <3> QED BY <3>5, <3>7, <3>8, <3>9 DEF SearchedLatePeak
  <2> QED BY <2>2, <2>3, <2>4 DEF Next
<1> QED BY <1>1, Invariance, PTL DEF Spec

=============================================================================
