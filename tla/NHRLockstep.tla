---------------------------- MODULE NHRLockstep ----------------------------
(***************************************************************************)
(* The step tables of NHRSchedule, for every ring size up to a bound, run  *)
(* in lockstep: all ranks complete a step before any begins the next.      *)
(* Whether the tables are right does not depend on timing; that real ranks *)
(* are not in lockstep is the subject of AllReduceNHR.                     *)
(***************************************************************************)
EXTENDS Integers

CONSTANTS
  MaxN,    (* bound: the largest ring                                      *)
  U32      (* the number of values of u32                                  *)

ASSUME LockstepAssumption ==
  /\ MaxN \in Nat
  /\ U32 \in Nat
  /\ 4 * MaxN < U32

VARIABLES
  n,       (* templateRankSize_                                            *)
  k,       (* the steps completed, ReduceScatter and AllGather together    *)
  have     (* per rank and slice, the ranks reduced into the rank's copy   *)

vars == <<n, k, have>>

S(m) == INSTANCE NHRSchedule WITH N <- m

Ranks   == 0..(n - 1)
StepNum == S(n)!StepNum

Init ==
  /\ n \in 2..MaxN
  /\ k = 0
  /\ have = [r \in Ranks |-> [s \in Ranks |-> {r}]]

(* RunReduceScatter, one iteration on every rank *)
Scatter ==
  /\ k < StepNum
  /\ have' = [r \in Ranks |-> [s \in Ranks |->
                IF s \in S(n)!ScatterRx(k, r)
                THEN have[r][s] \cup have[S(n)!ScatterFrom(k, r)][s] ELSE have[r][s]]]
  /\ k' = k + 1
  /\ UNCHANGED n

(* RunAllGather, one iteration on every rank *)
Gather ==
  LET j == k - StepNum
  IN  /\ j \in 0..(StepNum - 1)
      /\ have' = [r \in Ranks |-> [s \in Ranks |->
                    IF s \in S(n)!GatherRx(j, r)
                    THEN have[S(n)!GatherFrom(j, r)][s] ELSE have[r][s]]]
      /\ k' = k + 1
      /\ UNCHANGED n

Finished == k = 2 * StepNum /\ UNCHANGED vars

Next == Scatter \/ Gather \/ Finished

Spec == Init /\ [][Next]_vars

-----------------------------------------------------------------------------

(* Each rank works out its own table.  Two ranks that meet in a step agree *)
(* on it: the one sends to the other exactly when the other receives from  *)
(* it, and the slices sent are the slices received.                        *)
TablesAgree ==
  /\ k < StepNum =>
       \A r \in Ranks :
         LET to == S(n)!ScatterTo(k, r)
         IN  /\ to # r
             /\ S(n)!ScatterFrom(k, to) = r
             /\ S(n)!ScatterTx(k, r) = S(n)!ScatterRx(k, to)
  /\ k \in StepNum..(2 * StepNum - 1) =>
       \A r \in Ranks :
         LET j  == k - StepNum
             to == S(n)!GatherTo(j, r)
         IN  /\ to # r
             /\ S(n)!GatherFrom(j, to) = r
             /\ S(n)!GatherTx(j, r) = S(n)!GatherRx(j, to)

(* No contribution enters a reduction twice, though the number of ranks is *)
(* seldom a power of two, and none is missing: after the ReduceScatter     *)
(* rank r owns the reduction of slice r, and after the AllGather every     *)
(* rank has every slice.                                                   *)
EachContributionOnce ==
  /\ k < StepNum =>
       \A r \in Ranks : \A s \in S(n)!ScatterRx(k, r) :
         have[r][s] \cap have[S(n)!ScatterFrom(k, r)][s] = {}
  /\ k = StepNum => \A r \in Ranks : have[r][r] = Ranks
  /\ k = 2 * StepNum => \A r, s \in Ranks : have[r][s] = Ranks

(* What the copy-saving paths take for granted.  A slice that PreCopy      *)
(* leaves out because step 0 sends it from the input is never reduced into *)
(* or sent again before the AllGather overwrites it; and a slice that the  *)
(* last step reads straight into the output, not into the scratch buffer,  *)
(* is nobody else's to read from this rank in that step.                   *)
SavedCopiesUnused ==
  \A r \in Ranks :
    /\ k \in 1..(StepNum - 1) =>
         S(n)!ScatterTx(0, r) \cap (S(n)!ScatterTx(k, r) \cup S(n)!ScatterRx(k, r)) = {}
    /\ k = 0 => S(n)!ScatterTx(0, r) \cap S(n)!ScatterRx(0, r) = {}
    /\ k = 2 * StepNum - 1 =>
         S(n)!GatherRx(StepNum - 1, r) \cap S(n)!GatherTx(StepNum - 1, r) = {}
=============================================================================
