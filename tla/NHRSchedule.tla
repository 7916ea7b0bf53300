--------------------------- MODULE NHRSchedule ----------------------------
(***************************************************************************)
(* The step tables of the NHR (nonuniform hierarchical ring) AllReduce in  *)
(* all_reduce/algorithm/template/aicpu/ins_temp_all_reduce_nhr.cc: whom a  *)
(* rank sends to and receives from in every step, and which slices.        *)
(*                                                                         *)
(* ReduceScatter step k works at distance 2^k, AllGather step k at         *)
(* distance 2^(StepNum-1-k); for one distance both use the same number of  *)
(* slices and the same stride between them.                                *)
(***************************************************************************)
EXTENDS Integers

CONSTANTS
  N,       (* templateRankSize_                                            *)
  U32      (* the number of values of u32, in which indices are computed   *)

ASSUME ScheduleSize ==
  /\ N \in Nat \ {0}
  /\ U32 \in Nat
  /\ 4 * N < U32

Ranks  == 0..(N - 1)
Slices == 0..(N - 1)

(* GetNHRStepNum: the number of bits of N - 1. *)
StepNum ==
  CHOOSE n \in 0..N : 2^n >= N /\ \A m \in 0..(n - 1) : 2^m < N

ScatterDistance(k) == 2^k
GatherDistance(k)  == 2^(StepNum - 1 - k)

(* Faulty variants stand in front of the definition they vary; nothing     *)
(* uses them.  Here the wrap-around at the end of the ring is forgotten.   *)
BelowUnwrapped(r, d) == r + N - d

Below(r, d) == (r + N - d) % N

Above(r, d) == (r + d) % N

ScatterTo(k, r)   == Below(r, ScatterDistance(k))
ScatterFrom(k, r) == Above(r, ScatterDistance(k))
GatherTo(k, r)    == Above(r, GatherDistance(k))
GatherFrom(k, r)  == Below(r, GatherDistance(k))

(* Faulty: rounded down before the addition. *)
SliceNumShort(d) == (N - 1) \div (2 * d)

SliceNum(d) == (N - 1 + d) \div (2 * d)

(* Faulty: the stride of the step before. *)
SliceIdxDense(start, d) ==
  LET idx[i \in Nat] ==
        IF i = 0 THEN start ELSE ((idx[i - 1] + N - d) % U32) % N
  IN  idx

(* The slices of a step, from start downwards in strides of 2d.  The       *)
(* subtraction is unsigned: it wraps when the stride exceeds N + the index. *)
SliceIdx(start, d) ==
  LET idx[i \in Nat] ==
        IF i = 0 THEN start ELSE ((idx[i - 1] + N - 2 * d) % U32) % N
  IN  idx

SliceSet(start, d) == {SliceIdx(start, d)[i] : i \in 0..(SliceNum(d) - 1)}

ScatterTx(k, r) == SliceSet(ScatterTo(k, r), ScatterDistance(k))
ScatterRx(k, r) == SliceSet(r, ScatterDistance(k))
GatherTx(k, r)  == SliceSet(r, GatherDistance(k))
GatherRx(k, r)  == SliceSet(GatherFrom(k, r), GatherDistance(k))
=============================================================================
