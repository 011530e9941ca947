----------------------------- MODULE MovingAvg -----------------------------
(***************************************************************************)
(* The two 200-entry measurement buffers of the PSS block (d_psr_data and  *)
(* d_cfo_data), each filled round-robin through its own index (d_psr_i,    *)
(* d_cfo_i) and averaged by compute_moving_avg.                            *)
(*                                                                         *)
(* What an average means depends on which entries it reads, not on their   *)
(* numbers, so a buffer is a record:                                       *)
(*   n      the index counter, kept in 0 .. 2*moving_avg_sz - 1: the code  *)
(*          only uses it modulo moving_avg_sz and clipped at moving_avg_sz,*)
(*          and [sz, 2*sz) represents every larger value for both uses     *)
(*          (MovingAvgProofs, BufferOfCode);                               *)
(*   stale  the entries that still hold a value recorded before the index  *)
(*          was last set to 0.                                             *)
(***************************************************************************)
EXTENDS Integers

CONSTANT moving_avg_sz    \* entries in a buffer: 200 in the code

ASSUME MovingAvgAssumption == moving_avg_sz \in Nat \ {0}

Entries == 0 .. moving_avg_sz - 1

Ring == [n : 0 .. 2 * moving_avg_sz - 1, stale : SUBSET Entries]

(* The members' initialisers: {0.0} and an index of 0. *)
EmptyRing == [n |-> 0, stale |-> {}]

(* n % moving_avg_sz for an index in 0 .. 2*moving_avg_sz - 1. *)
EntryAt(n) == IF n < moving_avg_sz THEN n ELSE n - moving_avg_sz

(* data[i++ % moving_avg_sz] = value *)
Push(r) ==
  [n     |-> IF r.n + 1 = 2 * moving_avg_sz THEN moving_avg_sz ELSE r.n + 1,
   stale |-> r.stale \ {EntryAt(r.n)}]

(* The entries compute_moving_avg(data, i) sums: the first min(i, sz). *)
Averaged(r) == {e \in Entries : e < r.n}

(***************************************************************************)
(* std::memset(data, 0, moving_avg_sz); i = 0.  The size is in BYTES, so   *)
(* only the entries (4-byte floats) inside the first moving_avg_sz bytes   *)
(* are really zeroed; everything else recorded so far stays in the buffer. *)
(***************************************************************************)
Zeroed == {e \in Entries : 4 * (e + 1) <= moving_avg_sz}

(* Mutant: the buffer is cleared and the index is not. *)
ForgetKeepsIndex(r) == [r EXCEPT !.stale = (@ \cup Averaged(r)) \ Zeroed]

Forget(r) == [n |-> 0, stale |-> (r.stale \cup Averaged(r)) \ Zeroed]

(* Nothing recorded before the last Forget is part of the average. *)
Fresh(r) == Averaged(r) \cap r.stale = {}

=============================================================================
