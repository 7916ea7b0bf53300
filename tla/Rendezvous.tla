---------------------------- MODULE Rendezvous ----------------------------
(***************************************************************************)
(* What a barrier promises: no rank leaves it before every rank of the     *)
(* communicator has entered it, and each rank leaves it once all have.     *)
(* Barriers follow one another; a fast rank may be in the next one while a *)
(* slow rank has not yet left this one.                                    *)
(***************************************************************************)
EXTENDS Integers

CONSTANTS Ranks, Rounds

VARIABLES
  members,   (* the ranks of the communicator                              *)
  entered,   (* how many barriers each rank has entered                    *)
  left       (* how many it has left                                       *)

vars == <<members, entered, left>>

Init ==
  /\ members \in SUBSET Ranks
  /\ entered = [r \in Ranks |-> 0]
  /\ left = [r \in Ranks |-> 0]

Enter(r) ==
  /\ r \in members
  /\ entered[r] = left[r] /\ entered[r] < Rounds
  /\ entered' = [entered EXCEPT ![r] = @ + 1]
  /\ UNCHANGED <<members, left>>

Leave(r) ==
  /\ left[r] < entered[r]
  /\ \A s \in members : entered[s] >= entered[r]
  /\ left' = [left EXCEPT ![r] = @ + 1]
  /\ UNCHANGED <<members, entered>>

Next == \E r \in Ranks : Enter(r) \/ Leave(r)

Spec == Init /\ [][Next]_vars

(* Nobody has to enter, but once all have, everybody leaves.  (Rounds is   *)
(* finite: that somebody leaves while somebody can is enough.)             *)
FairSpec == Spec /\ WF_vars(\E r \in Ranks : Leave(r))
=============================================================================
