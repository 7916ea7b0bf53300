---------------------------- MODULE Collective ----------------------------
(***************************************************************************)
(* What an AllReduce promises to its callers, whatever the algorithm: a    *)
(* rank gets the reduction of all contributions, not before every rank has *)
(* entered the operation, and keeps it.  A call that is larger than the    *)
(* scratch buffer is a sequence of rounds.                                 *)
(***************************************************************************)
EXTENDS Integers

CONSTANTS Ranks, Rounds

VARIABLES
  entered,   (* the rounds each rank has entered, as <<rank, round>>       *)
  output     (* per rank and round "none" or "sum"                         *)

vars == <<entered, output>>
Calls == Ranks \X (1..Rounds)

Init ==
  /\ entered = {}
  /\ output = [x \in Calls |-> "none"]

Enter(x) ==
  /\ x \in Calls \ entered
  /\ entered' = entered \cup {x}
  /\ UNCHANGED output

Deliver(r, round) ==
  /\ Ranks \X {round} \subseteq entered
  /\ output[<<r, round>>] = "none"
  /\ output' = [output EXCEPT ![<<r, round>>] = "sum"]
  /\ UNCHANGED entered

Next ==
  \/ \E x \in Calls : Enter(x)
  \/ \E r \in Ranks, round \in 1..Rounds : Deliver(r, round)

Spec == Init /\ [][Next]_vars

(* Nobody has to enter, but once all have, everybody gets the result. *)
FairSpec ==
  Spec /\ \A r \in Ranks, round \in 1..Rounds : WF_vars(Deliver(r, round))
=============================================================================
