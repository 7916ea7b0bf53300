--------------------------- MODULE MCCcuFallback ---------------------------
(***************************************************************************)
(* Instances of CcuFallback.  The algorithms of one operator: two in MS    *)
(* mode, two in SCHED mode, one on the AICPU.                              *)
(***************************************************************************)
EXTENDS CcuFallback

CONSTANTS r1, r2

MS     == [alg |-> "Ms",     cfg |-> "CCU_MS"]
MS2    == [alg |-> "Ms2",    cfg |-> "CCU_MS"]
Sched  == [alg |-> "Sched",  cfg |-> "CCU_SCHED"]
Sched2 == [alg |-> "Sched2", cfg |-> "CCU_SCHED"]
Aicpu  == [alg |-> "Aicpu",  cfg |-> "AICPU_TS"]

MCAlgs == {"Ms", "Ms2", "Sched", "Sched2", "Aicpu"}

(* Select from each config, and the config each rank starts at. *)
Kind(type, ms, sched, starts) ==
  LET re == [c \in Configs |-> CASE c = "CCU_MS"    -> ms
                                 [] c = "CCU_SCHED" -> sched
                                 [] OTHER           -> Aicpu]
  IN  [type |-> type, re |-> re, sel |-> [r \in Ranks |-> re[starts[r]]]]

Mixed == [r \in Ranks |-> IF r = r1 THEN "CCU_MS" ELSE "CCU_SCHED"]
AllMS == [r \in Ranks |-> "CCU_MS"]

(* Each kind has keys of its own or shares all of them with another: calls *)
(* that one rank brings down from MS, in two types, calls that all ranks   *)
(* run in MS, and calls that leave the CCU.                                *)
MCAlignedKinds == {
  Kind("fp32", MS, Sched, Mixed),
  Kind("int8", MS, Sched, Mixed),
  Kind("fp32", MS2, Sched2, AllMS),
  Kind("int8", Aicpu, Aicpu, AllMS)}

MCOnlySets == {{}, {r1}, {r1, r2}}

ASSUME MCAligned == KeysAligned
=============================================================================
