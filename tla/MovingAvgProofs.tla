-------------------------- MODULE MovingAvgProofs --------------------------
(***************************************************************************)
(* What the measurement buffers of the PSS block are to the code: the      *)
(* bounded index of MovingAvg stands for the code's ever growing one, and  *)
(* the operations keep the shape of a buffer and the freshness of its      *)
(* average, for every number of entries.                                   *)
(***************************************************************************)
EXTENDS MovingAvg, TLAPS

----------------------------------------------------------------------------
(* Remainders.                                                             *)

(* Division with remainder. *)
LEMMA Division ==
  ASSUME NEW a \in Nat, NEW b \in Nat \ {0}
  PROVE  /\ a \div b \in Nat /\ a % b \in 0 .. b - 1
         /\ a = b * (a \div b) + (a % b)
OBVIOUS

(* A quotient and a remainder below the divisor are those of the division. *)
LEMMA Remainder ==
  ASSUME NEW b \in Nat \ {0}, NEW q \in Nat, NEW s \in 0 .. b - 1
  PROVE  (b * q + s) % b = s
OBVIOUS

(* Counting modulo b: one more, or back to 0. *)
LEMMA NextRemainder ==
  ASSUME NEW a \in Nat, NEW b \in Nat \ {0}
  PROVE  (a + 1) % b = IF (a % b) + 1 = b THEN 0 ELSE (a % b) + 1
<1> DEFINE q == a \div b
           s == a % b
<1>1. a = b * q + s /\ q \in Nat /\ s \in 0 .. b - 1
  BY Division
<1> HIDE DEF q, s
<1>2. CASE s + 1 = b
  <2>1. a + 1 = b * (q + 1) + 0
    BY <1>1, <1>2
  <2>2. q + 1 \in Nat /\ 0 \in 0 .. b - 1
    BY <1>1
  <2>3. (b * (q + 1) + 0) % b = 0
    BY ONLY <2>2, b \in Nat \ {0}, Remainder
  <2> QED BY <2>1, <2>3, <1>2 DEF s
<1>3. CASE s + 1 # b
  <2>1. a + 1 = b * q + (s + 1)
    BY <1>1
  <2>2. s + 1 \in 0 .. b - 1
    BY <1>1, <1>3
  <2>3. (b * q + (s + 1)) % b = s + 1
    BY ONLY <1>1, <2>2, b \in Nat \ {0}, Remainder
  <2> QED BY <2>1, <2>3, <1>3 DEF s
<1> QED BY <1>2, <1>3

(* A number below b is its own remainder. *)
LEMMA SmallRemainder ==
  ASSUME NEW a \in Nat, NEW b \in Nat \ {0}, a < b
  PROVE  a % b = a
OBVIOUS

----------------------------------------------------------------------------
(* The index of the code.                                                  *)

(* What MovingAvg keeps of the code's index d_psr_i or d_cfo_i.            *)
Kept(i) ==
  IF i < moving_avg_sz THEN i ELSE moving_avg_sz + (i % moving_avg_sz)

(* The buffer of the code when its index is i and the entries in st hold a *)
(* value recorded before the index was last 0.                             *)
Buffer(i, st) == [n |-> Kept(i), stale |-> st]

(* Every index is kept as a number a buffer can have. *)
LEMMA KeptInRange ==
  ASSUME NEW i \in Nat
  PROVE  Kept(i) \in 0 .. 2 * moving_avg_sz - 1
<1>1. i % moving_avg_sz \in 0 .. moving_avg_sz - 1
  BY MovingAvgAssumption, Division
<1> QED BY <1>1, MovingAvgAssumption DEF Kept

(* The entry written next is the one the code's index gives. *)
LEMMA KeptEntry ==
  ASSUME NEW i \in Nat
  PROVE  EntryAt(Kept(i)) = i % moving_avg_sz
<1>1. i % moving_avg_sz \in 0 .. moving_avg_sz - 1
  BY MovingAvgAssumption, Division
<1>2. CASE i < moving_avg_sz
  BY <1>2, MovingAvgAssumption, SmallRemainder DEF Kept, EntryAt
<1>3. CASE ~(i < moving_avg_sz)
  BY <1>1, <1>3, MovingAvgAssumption DEF Kept, EntryAt
<1> QED BY <1>2, <1>3

(* The index after i is kept as the successor of what i is kept as. *)
LEMMA KeptNext ==
  ASSUME NEW i \in Nat
  PROVE  Kept(i + 1) = IF Kept(i) + 1 = 2 * moving_avg_sz
                         THEN moving_avg_sz ELSE Kept(i) + 1
<1> USE MovingAvgAssumption
<1> DEFINE e == i % moving_avg_sz
<1>1. e \in 0 .. moving_avg_sz - 1
  BY Division
<1>2. (i + 1) % moving_avg_sz = IF e + 1 = moving_avg_sz THEN 0 ELSE e + 1
  BY NextRemainder
<1> HIDE DEF e
<1>3. CASE i + 1 < moving_avg_sz
  BY <1>3 DEF Kept
<1>4. CASE i + 1 = moving_avg_sz
  <2>1. e = i
    BY <1>4, SmallRemainder DEF e
  <2>2. Kept(i) = i /\ Kept(i + 1) = moving_avg_sz
    BY <1>2, <1>4, <2>1 DEF Kept
  <2> QED BY <1>4, <2>2
<1>5. CASE i + 1 > moving_avg_sz
  <2>1. Kept(i) = moving_avg_sz + e
    BY <1>5 DEF Kept, e
  <2>2. Kept(i + 1) = moving_avg_sz + ((i + 1) % moving_avg_sz)
    BY <1>5 DEF Kept
  <2> QED BY <1>1, <1>2, <2>1, <2>2
<1> QED BY <1>3, <1>4, <1>5

(* The buffers of MovingAvg do what the code does with an index that grows *)
(* with every value recorded: a value goes to entry i % moving_avg_sz, the *)
(* average reads the first min(i, moving_avg_sz) entries, and reset_score  *)
(* sets the index to 0 and zeroes what the byte count covers.              *)
THEOREM BufferOfCode ==
  ASSUME NEW i \in Nat, NEW st \in SUBSET Entries
  PROVE  /\ Buffer(i, st) \in Ring
         /\ Push(Buffer(i, st)) = Buffer(i + 1, st \ {i % moving_avg_sz})
         /\ Averaged(Buffer(i, st)) = {e \in Entries : e < i}
         /\ Forget(Buffer(i, st)) =
              Buffer(0, (st \cup {e \in Entries : e < i}) \ Zeroed)
<1>1. Buffer(i, st) \in Ring
  BY KeptInRange DEF Buffer, Ring
<1>2. Push(Buffer(i, st)) = Buffer(i + 1, st \ {i % moving_avg_sz})
  BY KeptEntry, KeptNext DEF Push, Buffer
<1>3. Averaged(Buffer(i, st)) = {e \in Entries : e < i}
  <2>1. i % moving_avg_sz \in 0 .. moving_avg_sz - 1
    BY MovingAvgAssumption, Division
  <2>2. \A e \in Entries : e < Kept(i) <=> e < i
    BY <2>1, MovingAvgAssumption DEF Entries, Kept
  <2> QED BY <2>2 DEF Averaged, Buffer
<1>4. Kept(0) = 0
  BY MovingAvgAssumption DEF Kept
<1> QED BY <1>1, <1>2, <1>3, <1>4 DEF Forget, Buffer

----------------------------------------------------------------------------
(* Shape and freshness.                                                    *)

(* Recording a value keeps the shape of a buffer, and never makes the      *)
(* average read a value recorded before the last Forget.                   *)
LEMMA PushRing ==
  ASSUME NEW r \in Ring
  PROVE  /\ Push(r) \in Ring
         /\ Fresh(r) => Fresh(Push(r))
<1>1. moving_avg_sz \in Nat \ {0} /\ r.n \in 0 .. 2 * moving_avg_sz - 1
      /\ r.stale \subseteq Entries
  BY MovingAvgAssumption DEF Ring
<1>2. Push(r).n \in 0 .. 2 * moving_avg_sz - 1
  BY <1>1 DEF Push
<1>3. Push(r).stale \subseteq Entries
  BY <1>1 DEF Push
<1>4. Push(r) \in Ring
  BY <1>2, <1>3 DEF Ring, Push
<1>5. ASSUME Fresh(r) PROVE Fresh(Push(r))
  <2>1. SUFFICES ASSUME NEW e \in Averaged(Push(r)), e \in Push(r).stale
                 PROVE  FALSE
    BY DEF Fresh
  <2>2. e \in r.stale /\ e # EntryAt(r.n)
    BY <2>1 DEF Push
  <2>3. e \in Entries /\ e \in Nat /\ e < moving_avg_sz /\ e < Push(r).n
    BY <2>1, <1>1 DEF Averaged, Entries
  <2>4. e < r.n
    <3>1. CASE r.n < moving_avg_sz
      <4>1. EntryAt(r.n) = r.n
        BY <3>1 DEF EntryAt
      <4>2. Push(r).n <= r.n + 1
        BY <1>1, <3>1 DEF Push
      <4> QED BY <4>1, <4>2, <2>2, <2>3, <1>1, <1>2
    <3>2. CASE ~(r.n < moving_avg_sz)
      BY <3>2, <2>3, <1>1
    <3> QED BY <3>1, <3>2
  <2>5. e \in Averaged(r) \cap r.stale
    BY <2>2, <2>3, <2>4 DEF Averaged
  <2> QED BY <2>5, <1>5 DEF Fresh
<1> QED BY <1>4, <1>5

(* Forgetting keeps the shape of a buffer and leaves an average of nothing,*)
(* however little of the buffer the byte count really clears.              *)
LEMMA ForgetRing ==
  ASSUME NEW r \in Ring
  PROVE  /\ Forget(r) \in Ring
         /\ Forget(r).n = 0
         /\ Fresh(Forget(r))
<1>1. moving_avg_sz \in Nat \ {0} /\ r.stale \subseteq Entries
  BY MovingAvgAssumption DEF Ring
<1>2. (r.stale \cup Averaged(r)) \ Zeroed \subseteq Entries
  BY <1>1 DEF Averaged
<1>3. Forget(r) \in Ring /\ Forget(r).n = 0
  BY <1>1, <1>2 DEF Forget, Ring
<1>4. Averaged(Forget(r)) = {}
  <2>1. \A e \in Entries : ~(e < 0)
    BY <1>1 DEF Entries
  <2> QED BY <2>1, <1>3 DEF Averaged
<1> QED BY <1>3, <1>4 DEF Fresh

=============================================================================
