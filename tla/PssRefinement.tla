--------------------------- MODULE PssRefinement ---------------------------
(***************************************************************************)
(* The PSS block implements PssContract, for every value of the constants: *)
(* the blocks after it may be reasoned about with the contract alone.      *)
(***************************************************************************)
EXTENDS PssProofs

LEMMA InitRefines == Init => Contract!Init
  BY DEF Init, Contract!Init

(* A hit counts one more point up to track_after and is tagged below it. *)
LEMMA HitRefines ==
  ASSUME IInv, Runnable, NEW m \in Result,
         Acquire(m) \/ Track(m) \/ ChestError(m)
  PROVE  Contract!Next
<1>1. /\ track_after \in Nat \ {0} /\ score \in 0 .. track_after
      /\ tracking <=> score = track_after
      /\ ~failed
  BY PssAssumption DEF IInv, TypeOK, ScoreMatchesTracking, Runnable
<1>2. CASE Acquire(m)
  <2>1. score + 1 < track_after /\ score' = score + 1
    BY <1>1, <1>2 DEF Acquire, IncrScore, StartsTracking, scoreAfterHit
  <2>2. Contract!TagHit
    BY <1>1, <2>1, <1>2 DEF Acquire, HandsOn, Contract!HandsOn, Contract!TagHit
  <2> QED BY <2>2 DEF Contract!Next
<1>3. CASE Track(m) \/ ChestError(m)
  <2>1. IncrScore /\ (tracking \/ StartsTracking)
    BY <1>3 DEF Track, ChestError
  <2>2. score + 1 >= track_after /\ score' = track_after
    <3>1. CASE tracking
      BY <3>1, <2>1, <1>1 DEF IncrScore, scoreAfterHit
    <3>2. CASE ~tracking
      BY <3>2, <2>1, <1>1 DEF IncrScore, scoreAfterHit, StartsTracking
    <3> QED BY <3>1, <3>2
  <2>3. Contract!HandOnClean \/ Contract!Fail
    BY <1>1, <2>2, <1>3
       DEF Track, ChestError, HandsOn, Contract!HandsOn,
           Contract!HandOnClean, Contract!Fail
  <2> QED BY <2>3 DEF Contract!Next
<1> QED BY <1>2, <1>3

LEMMA NextRefines ==
  IInv /\ [Next]_vars => [Contract!Next]_(Contract!contractVars)
<1> SUFFICES ASSUME IInv, [Next]_vars
             PROVE  Contract!Next \/ UNCHANGED <<score, sent, failed>>
  BY DEF Contract!contractVars
<1>1. ASSUME NEW n \in Chunk, Deliver(n) PROVE UNCHANGED <<score, sent, failed>>
  BY <1>1 DEF Deliver
<1>2. ASSUME NEW t \in Threshold, SetPsrThreshold(t)
      PROVE  UNCHANGED <<score, sent, failed>>
  BY <1>2 DEF SetPsrThreshold
<1>3. CASE GeneralWork
  <2>1. Runnable
    BY <1>3 DEF GeneralWork
  <2>2. PICK m \in Result :
          Acquire(m) \/ Track(m) \/ ChestError(m) \/ Lose(m) \/ Drop(m)
    BY <1>3 DEF GeneralWork
  <2>3. CASE Lose(m)
    <3>1. score > 0 /\ ~failed
      BY <2>3, <2>1, PssAssumption
         DEF Lose, ResetScore, Runnable, IInv, TypeOK
    <3>2. Contract!TagLoss
      BY <3>1, <2>3 DEF Lose, ResetScore, HandsOn, Contract!HandsOn,
                          Contract!TagLoss
    <3> QED BY <3>2 DEF Contract!Next
  <2>4. CASE Drop(m)
    BY <2>4 DEF Drop
  <2> QED BY <2>1, <2>2, <2>3, <2>4, HitRefines
<1>4. CASE UNCHANGED vars
  BY <1>4 DEF vars
<1> QED BY <1>1, <1>2, <1>3, <1>4 DEF Next

(* general_work, whatever it measures and whoever moves the threshold,     *)
(* hands on the stream of half-frames that PssContract promises.           *)
THEOREM Refinement == Spec => StreamContract
<1> QED
  BY InitRefines, NextRefines, Invariance, PTL
     DEF Spec, StreamContract, Contract!Spec

=============================================================================
