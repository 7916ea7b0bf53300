------------------------ MODULE MCCcuFallbackMixed ------------------------
(***************************************************************************)
(* CcuFallback with selections that are not aligned: r1 is configured      *)
(* CCU_MS and r2 CCU_SCHED.  Large AllReduces have another algorithm than  *)
(* small ones in MS mode (CcuMSAllReduceSoleMesh, ...SoleMeshOneShot), the *)
(* same one in SCHED mode (CcuSchedAllReduceSoleMesh).                     *)
(***************************************************************************)
EXTENDS CcuFallback

CONSTANTS r1, r2

OneShot == [alg |-> "MsOneShot", cfg |-> "CCU_MS"]
MS      == [alg |-> "Ms",        cfg |-> "CCU_MS"]
Sched   == [alg |-> "Sched",     cfg |-> "CCU_SCHED"]
Aicpu   == [alg |-> "Aicpu",     cfg |-> "AICPU_TS"]

MCAlgs == {"MsOneShot", "Ms", "Sched", "Aicpu"}

Kind(ms) ==
  [type |-> "fp32",
   re   |-> [c \in Configs |-> CASE c = "CCU_MS"    -> ms
                                 [] c = "CCU_SCHED" -> Sched
                                 [] OTHER           -> Aicpu],
   sel  |-> [r \in Ranks |-> IF r = r1 THEN ms ELSE Sched]]

MCMixedKinds == {Kind(OneShot), Kind(MS)}
=============================================================================
