-------------------------------- MODULE Pss --------------------------------
(***************************************************************************)
(* The primary-synchronisation block, lib/pss_impl.{h,cc}.                 *)
(*                                                                         *)
(* The GNU Radio scheduler calls general_work over and over on the block's *)
(* own thread, whenever the input buffer holds enough samples.  A call     *)
(* looks for the primary synchronisation signal (PSS) of one N_id_2,       *)
(* scores the result, and either hands one half-frame downstream, aligned  *)
(* on the PSS it found, or drops half a frame of input.  A user interface  *)
(* thread may change the threshold between two calls.                      *)
(*                                                                         *)
(* Every half-frame handed on while the block is not tracking carries a    *)
(* tracking_lost tag: the sss and mib blocks reset themselves on it.       *)
(***************************************************************************)
EXTENDS MovingAvg

CONSTANTS
  slot_length,   \* samples in a slot (960)
  symbol_sz,     \* samples in an OFDM symbol (128)
  track_after,   \* constructor argument: detections before tracking (16)
  track_every,   \* constructor argument: calls that may skip the search (8)
  Ratio,         \* the peak to side-lobe ratios a search can report
  Threshold,     \* the thresholds a user may ask for
  MIN_PSR_THRESHOLD,  \* the smallest one downlink_trigger_c lets through
  PeakPos,       \* the peak positions a search can report
  Chunk,         \* the numbers of samples upstream may deliver at once
  BufSize        \* samples the input buffer holds

half_frame_length == 10 * slot_length

ASSUME PssAssumption ==
  /\ slot_length \in Nat /\ symbol_sz \in Nat \ {0}
  /\ symbol_sz < slot_length
  /\ track_after \in Nat \ {0} /\ track_every \in Nat
  /\ Ratio \subseteq Nat /\ Threshold \subseteq Nat
  /\ MIN_PSR_THRESHOLD \in Nat
  /\ PeakPos \subseteq 0 .. half_frame_length + symbol_sz - 1
  /\ Chunk \subseteq Nat \ {0} /\ BufSize \in Nat

VARIABLES
  tracking,   \* d_tracking.is_tracking
  score,      \* d_tracking.score
  timer,      \* d_tracking.timer
  psr,        \* d_psr: the ratio of the last search
  psr_max,    \* d_psr_max
  peak_pos,   \* d_peak_pos
  threshold,  \* d_psr_threshold
  psr_data,   \* d_psr_data with d_psr_i (see MovingAvg)
  cfo_data,   \* d_cfo_data with d_cfo_i
  conv_avg,   \* whose searches d_pss's convolution average holds
  avail,      \* items in the input buffer, history included: ninput_items[0]
  sent,       \* the last half-frame handed on: its tag, and a turn that flips
  failed,     \* general_work has thrown: the block's thread is gone
  since       \* history variable: calls since the last search

vars == <<tracking, score, timer, psr, psr_max, peak_pos, threshold, psr_data,
          cfo_data, conv_avg, avail, sent, failed, since>>

measurement == <<psr, psr_max, psr_data>>

Phase == IF tracking THEN "track" ELSE "search"

----------------------------------------------------------------------------
(* Set-up.                                                                 *)

(* downlink_trigger_c never hands a block a threshold below the minimum. *)
SafeThreshold(t) == IF t > MIN_PSR_THRESHOLD THEN t ELSE MIN_PSR_THRESHOLD

(* The buffer starts with history()-1 zero samples in front of the stream. *)
Init ==
  /\ tracking = FALSE /\ score = 0 /\ timer = 0
  /\ psr = 0 /\ psr_max = 0 /\ peak_pos = 0
  /\ threshold \in {SafeThreshold(t) : t \in Threshold}
  /\ psr_data = EmptyRing /\ cfo_data = EmptyRing /\ conv_avg = {}
  /\ avail = half_frame_length - 1
  /\ sent = [tag |-> "none", turn |-> 0] /\ failed = FALSE /\ since = 0

----------------------------------------------------------------------------
(* Upstream: the scheduler lets the block before this one write whenever   *)
(* there is room.                                                          *)

Deliver(n) ==
  /\ avail + n <= BufSize
  /\ avail' = avail + n
  /\ UNCHANGED <<tracking, score, timer, measurement, peak_pos, threshold,
                 cfo_data, conv_avg, sent, failed, since>>

----------------------------------------------------------------------------
(* general_work.                                                           *)

(* forecast: an output multiple of one half-frame, plus the history. *)
Runnable == ~failed /\ avail >= half_frame_length + (half_frame_length - 1)

(* Search unless tracking with the timer still running. *)
Searches == ~tracking \/ timer = 0

(* What the call works with: a new search result, or the last one again. *)
Result ==
  IF Searches THEN [psr : Ratio, peak_pos : PeakPos]
              ELSE {[psr |-> psr, peak_pos |-> peak_pos]}

(* Mutant: the timer is never counted down. *)
TimerStuck == IF Searches THEN track_every ELSE timer

timerAfterSearch == IF Searches THEN track_every ELSE timer - 1
ringAfterSearch == IF Searches THEN Push(psr_data) ELSE psr_data
convAfterSearch == IF Searches THEN conv_avg \cup {Phase} ELSE conv_avg

(* Counted only as far as the properties need: up to track_every + 1. *)
sinceAfterSearch ==
  IF Searches THEN 0 ELSE IF since > track_every THEN since ELSE since + 1

(* d_psr and its running maximum. *)
Measure(m) ==
  /\ psr' = m.psr
  /\ psr_max' = IF m.psr > psr_max THEN m.psr ELSE psr_max
  /\ since' = sinceAfterSearch
  /\ UNCHANGED threshold

(* Mutants: no early return at the maximum; a maximum that is one short. *)
ScoreUncapped == score + 1
ScoreCappedEarly == IF score = track_after - 1 THEN score ELSE score + 1

(* incr_score *)
scoreAfterHit ==
  IF tracking /\ score = track_after THEN score ELSE score + 1

(* Mutant: compares the score before it is incremented. *)
StartsOneLate == ~tracking /\ score = track_after

StartsTracking == ~tracking /\ scoreAfterHit = track_after

(* Mutant: the convolution average survives the start of tracking. *)
IncrScoreKeepsAverage ==
  /\ score' = scoreAfterHit
  /\ tracking' = (tracking \/ StartsTracking)
  /\ timer' = timerAfterSearch
  /\ psr_data' = ringAfterSearch
  /\ conv_avg' = convAfterSearch

IncrScore ==
  /\ score' = scoreAfterHit
  /\ tracking' = (tracking \/ StartsTracking)
  /\ timer' = timerAfterSearch
  /\ psr_data' = ringAfterSearch
  /\ conv_avg' = IF StartsTracking THEN {} ELSE convAfterSearch

(* Mutant: the CFO estimates of the lost cell are kept. *)
ResetScoreKeepsCfo ==
  /\ score # 0
  /\ score' = 0 /\ timer' = 0 /\ tracking' = FALSE
  /\ psr_data' = Forget(ringAfterSearch)
  /\ conv_avg' = {}
  /\ UNCHANGED cfo_data

(***************************************************************************)
(* reset_score with a nonzero score: forget the cell, force a search in    *)
(* the next call.  (With a zero score it returns at once: see Drop.)       *)
(***************************************************************************)
ResetScore ==
  /\ score # 0
  /\ score' = 0 /\ timer' = 0 /\ tracking' = FALSE
  /\ psr_data' = Forget(ringAfterSearch)
  /\ cfo_data' = Forget(cfo_data)
  /\ conv_avg' = {}

(* Mutants: the peak position is left for the next call; the input is      *)
(* consumed up to one half-frame after the peak, not after its slot.       *)
ConsumeFrameKeepsPeak(m) ==
  /\ avail' = avail - (m.peak_pos - slot_length + half_frame_length)
  /\ peak_pos' = m.peak_pos
ConsumeFramePastPeak(m) ==
  /\ avail' = avail - (m.peak_pos + half_frame_length)
  /\ peak_pos' = slot_length

(***************************************************************************)
(* The half-frame copied to the output starts one slot before the peak,    *)
(* which may lie in the history or beyond the first half-frame; the input  *)
(* is consumed up to the end of the copy.                                  *)
(***************************************************************************)
ConsumeFrame(m) ==
  /\ avail' = avail - (m.peak_pos - slot_length + half_frame_length)
  /\ peak_pos' = slot_length

(* The half-frame goes downstream, with or without a tracking_lost tag.    *)
HandsOn(tag) == sent' = [tag |-> tag, turn |-> 1 - sent.turn]

(* Above the threshold, still not tracking: hand on a tagged half-frame. *)
Acquire(m) ==
  /\ m.psr > threshold
  /\ ~tracking /\ ~StartsTracking
  /\ Measure(m) /\ IncrScore /\ ConsumeFrame(m)
  /\ HandsOn("lost")
  /\ UNCHANGED <<cfo_data, failed>>

(* Above the threshold and tracking: correct the CFO, hand on a clean one. *)
Track(m) ==
  /\ m.psr > threshold
  /\ tracking \/ StartsTracking
  /\ Measure(m) /\ IncrScore /\ ConsumeFrame(m)
  /\ cfo_data' = Push(cfo_data)
  /\ HandsOn("clean")
  /\ UNCHANGED failed

(* As Track, but the channel estimation fails and general_work throws after *)
(* the input is consumed and before the output is returned.                 *)
ChestError(m) ==
  /\ m.psr > threshold
  /\ tracking \/ StartsTracking
  /\ Measure(m) /\ IncrScore /\ ConsumeFrame(m)
  /\ cfo_data' = Push(cfo_data)
  /\ failed' = TRUE
  /\ UNCHANGED sent

(* Mutant: d_tracking_lost is not set, so the half-frame is just dropped. *)
LoseSilently(m) ==
  /\ ~(m.psr > threshold)
  /\ Measure(m) /\ ResetScore
  /\ peak_pos' = m.peak_pos
  /\ avail' = avail - half_frame_length
  /\ UNCHANGED <<sent, failed>>

(* Mutant: d_tracking_lost is set only if the block was tracking, so the   *)
(* half-frame on which a partial score is lost is dropped.                 *)
LosePartialSilently(m) ==
  /\ ~(m.psr > threshold)
  /\ Measure(m) /\ ResetScore
  /\ peak_pos' = IF tracking THEN slot_length ELSE m.peak_pos
  /\ avail' = avail - half_frame_length
               - IF tracking THEN m.peak_pos - slot_length ELSE 0
  /\ IF tracking THEN HandsOn("lost") ELSE UNCHANGED sent
  /\ UNCHANGED failed

(* Not above the threshold with a score to lose: announce the loss. *)
Lose(m) ==
  /\ ~(m.psr > threshold)
  /\ Measure(m) /\ ResetScore /\ ConsumeFrame(m)
  /\ HandsOn("lost")
  /\ UNCHANGED failed

(* Not above the threshold and nothing to lose: drop half a frame. *)
Drop(m) ==
  /\ ~(m.psr > threshold)
  /\ score = 0
  /\ Measure(m)
  /\ timer' = timerAfterSearch
  /\ psr_data' = ringAfterSearch
  /\ conv_avg' = convAfterSearch
  /\ peak_pos' = m.peak_pos
  /\ avail' = avail - half_frame_length
  /\ UNCHANGED <<tracking, score, cfo_data, sent, failed>>

GeneralWork ==
  /\ Runnable
  /\ \E m \in Result :
       Acquire(m) \/ Track(m) \/ ChestError(m) \/ Lose(m) \/ Drop(m)

(* set_psr_threshold, on the user interface's thread. *)
SetPsrThreshold(t) ==
  /\ threshold' = SafeThreshold(t)
  /\ UNCHANGED <<tracking, score, timer, measurement, peak_pos, cfo_data,
                 conv_avg, avail, sent, failed, since>>

Next ==
  \/ \E n \in Chunk : Deliver(n)
  \/ GeneralWork
  \/ \E t \in Threshold : SetPsrThreshold(t)

Spec == Init /\ [][Next]_vars

(***************************************************************************)
(* The scheduler keeps calling a runnable block, and upstream (a radio, or *)
(* a file that repeats) keeps delivering.  Nothing is assumed of the user. *)
(***************************************************************************)
Fairness ==
  /\ WF_vars(GeneralWork)
  /\ WF_vars(\E n \in Chunk : Deliver(n))

FairSpec == Spec /\ Fairness

----------------------------------------------------------------------------
(* Safety.                                                                 *)

(* The type of every variable of the block. *)
TypeOK ==
  /\ tracking \in BOOLEAN /\ failed \in BOOLEAN
  /\ score \in 0 .. track_after
  /\ timer \in 0 .. track_every /\ since \in 0 .. track_every
  /\ psr \in Ratio \cup {0} /\ psr_max \in Ratio \cup {0}
  /\ threshold \in Nat
  /\ peak_pos \in 0 .. half_frame_length + symbol_sz - 1
  /\ psr_data \in Ring /\ cfo_data \in Ring
  /\ conv_avg \in SUBSET {"search", "track"}
  /\ avail \in Nat
  /\ sent \in [tag : {"none", "lost", "clean"}, turn : {0, 1}]

(* The block is tracking exactly when the score has reached its maximum:   *)
(* no interleaving of hits, losses and threshold changes leaves it         *)
(* tracking with a partial score, or stuck at the maximum without tracking.*)
ScoreMatchesTracking == tracking <=> score = track_after

(* What downstream was last told agrees with the block's own state: the    *)
(* last half-frame handed on is clean exactly while the block is tracking. *)
(* So every loss of tracking is announced in the very call that loses it,  *)
(* whatever that call measured and however old the peak position is.       *)
LossAnnounced == ~failed => (tracking <=> sent.tag = "clean")

(* While tracking, the stored peak position is that of an aligned input.   *)
AlignedWhileTracking == tracking => peak_pos = slot_length

(* A call that skips the search hands on the half-frame right after the    *)
(* last one: it must not shift the input by a peak position that an        *)
(* earlier call already consumed.                                          *)
ContiguousBetweenSearches ==
  [][tracking /\ timer > 0 /\ avail' < avail
       => avail' = avail - half_frame_length]_vars

(* mean_psr averages only ratios measured since the cell was last lost,    *)
(* although reset_score clears only a quarter of the buffer.               *)
PsrMeanIsFresh == Fresh(psr_data)

(* mean_cfo, which corrects the signal, averages only offsets estimated    *)
(* from the cell being tracked, never those of a cell lost before.         *)
CfoMeanIsOfThisCell == Fresh(cfo_data) /\ (~tracking => cfo_data.n = 0)

(* The convolution average never mixes the searches made while acquiring a *)
(* cell with those made while tracking it.                                 *)
ConvolutionNotMixed == conv_avg \subseteq {Phase}

(* assert(nconsume < ninput_items[0]), pss_impl.cc:191: a call always      *)
(* leaves something in the input buffer, wherever the peak is.             *)
ConsumesLessThanInput == avail > 0

(* While tracking, the timer tells how many calls ago the last search was. *)
TimerCountsCalls == tracking => since + timer = track_every

(* What a call leaves in the input buffer, at least: the peak is at most   *)
(* symbol_sz - 1 samples past the half-frame searched, and the copy starts *)
(* slot_length samples before the peak.                                    *)
WindowLeft == avail >= slot_length - symbol_sz

(* The inductive invariant behind the properties above.                    *)
IInv ==
  /\ TypeOK
  /\ ScoreMatchesTracking /\ LossAnnounced
  /\ AlignedWhileTracking /\ TimerCountsCalls
  /\ PsrMeanIsFresh /\ CfoMeanIsOfThisCell /\ ConvolutionNotMixed
  /\ WindowLeft

(* The stream the block hands on is the one the next blocks are promised.  *)
Contract == INSTANCE PssContract WITH points <- score
StreamContract == Contract!Spec

----------------------------------------------------------------------------
(* What the documentation says and the code does not do.                   *)

(* pss.h:48 "a point is deducted from the tracking score": the score never *)
(* falls by more than one.                                                 *)
ScoreLosesOnePoint == [][score' >= score - 1]_score

(* pss.h:55 "if tracking, check correlation of every n half-frames": of any*)
(* track_every calls in a row, one searches.                               *)
ChecksEveryNth == tracking /\ track_every > 0 => since < track_every

(* The assertion at pss_impl.cc:191 is there so that a call uses only the  *)
(* input it was given.  The copy reads from history()-1 items into the     *)
(* buffer, so it does that only if those history items remain afterwards.  *)
CopiesOnlyInput == avail >= half_frame_length - 1

----------------------------------------------------------------------------
(* Liveness.                                                               *)

(* A signal that stays above the threshold is eventually tracked for good. *)
TracksSteadySignal ==
  <>[](psr > threshold) => <>[](tracking \/ failed)

(* Once every search fails, the block stops tracking for good: it neither  *)
(* coasts on an old ratio forever nor needs the threshold to move.         *)
SearchFails == [][since' = 0 /\ avail' < avail => ~(psr' > threshold)]_vars

LosesDeadSignal == <>SearchFails => <>[](~tracking \/ failed)

=============================================================================
