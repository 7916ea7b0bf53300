------------------------- MODULE ChannelHandshake -------------------------
(***************************************************************************)
(* The notify handshake that the data wrappers of                          *)
(* op_common/algorithm/template/wrapper/alg_data_trans_wrapper.cc play on  *)
(* a channel.  A collective's template is a list of steps; in one step a   *)
(* rank calls one wrapper on one thread:                                   *)
(*                                                                         *)
(*   SendRecvWrite/-Reduce   both peers, the sender writes                 *)
(*   SendRecvRead/-Reduce    both peers, the receiver reads                *)
(*   SendWrite, RecvWrite    one side of a write step                      *)
(*   SendRead, RecvRead      one side of a read step                       *)
(*                                                                         *)
(* The batch variants put the transfers of a step in one descriptor list   *)
(* and leave the handshake as it is.  A notify is a one-bit register: a    *)
(* record sets it, a wait blocks until it is set and clears it, so a       *)
(* second record before the wait is lost for ever.  The only guard against *)
(* that is the order of the tasks, which is what this module is about.     *)
(***************************************************************************)
EXTENDS Integers

CONSTANTS
  Ranks,   (* the ranks of the sub-communicator                            *)
  Steps,   (* the number of wrapper calls each rank issues                 *)
  Mode,    (* per step, "write" or "read": which side moves the data       *)
  Tx,      (* per step and rank, the peer of txChannel_, or NoPeer         *)
  Rx,      (* per step and rank, the peer of rxChannel_, or NoPeer         *)
  NoPeer   (* the wrapper of this rank has no such side in this step       *)

Peers == [1..Steps -> [Ranks -> Ranks \cup {NoPeer}]]

(* What the templates guarantee: x sends to y in a step exactly when y     *)
(* receives from x in that step.                                           *)
ASSUME ScheduleAssumption ==
  /\ NoPeer \notin Ranks
  /\ Steps \in Nat
  /\ Mode \in [1..Steps -> {"write", "read"}]
  /\ Tx \in Peers
  /\ Rx \in Peers
  /\ \A k \in 1..Steps : \A x, y \in Ranks : Tx[k][x] = y <=> Rx[k][y] = x

VARIABLES
  step,    (* the step each rank's thread executes; Steps + 1 at the end   *)
  phase,   (* the next task of that step, 0..4                             *)
  ack,     (* the set NOTIFY_IDX_ACK registers, as <<recorder, waiter>>    *)
  data     (* the set NOTIFY_IDX_DATA_SIGNAL registers                     *)

vars == <<step, phase, ack, data>>

Signal(x, y) == IF NoPeer \in {x, y} THEN {} ELSE {<<x, y>>}

(* The owner of the memory that is touched grants access with an ACK and   *)
(* the peer that touches it answers with a DATA signal.  In a write step   *)
(* the receiver grants, in a read step the sender does.                    *)
AckPeer(k, r)  == IF Mode[k] = "write" THEN Rx[k][r] ELSE Tx[k][r]
DataPeer(k, r) == IF Mode[k] = "write" THEN Tx[k][r] ELSE Rx[k][r]

Running(r, p) == step[r] \in 1..Steps /\ phase[r] = p

Init ==
  /\ step = [r \in Ranks |-> 1]
  /\ phase = [r \in Ranks |-> 0]
  /\ ack = {}
  /\ data = {}

(* Faulty variants stand in front of the definition they vary; no action   *)
(* uses them.  Here the ACK goes out on the wrong one of the two channels. *)
RecordAckWrongChannel(r) ==
  /\ Running(r, 0)
  /\ ack' = ack \cup Signal(r, DataPeer(step[r], r))
  /\ phase' = [phase EXCEPT ![r] = 1]
  /\ UNCHANGED <<step, data>>

(* HcommChannelNotifyRecordOnThread(.., NOTIFY_IDX_ACK) *)
RecordAck(r) ==
  /\ Running(r, 0)
  /\ ack' = ack \cup Signal(r, AckPeer(step[r], r))
  /\ phase' = [phase EXCEPT ![r] = 1]
  /\ UNCHANGED <<step, data>>

(* Faulty: transfers without waiting for the grant. *)
WaitAckUnguarded(r) ==
  /\ Running(r, 1)
  /\ ack' = ack \ Signal(DataPeer(step[r], r), r)
  /\ phase' = [phase EXCEPT ![r] = 2]
  /\ UNCHANGED <<step, data>>

(* Faulty: waits, and leaves the register set. *)
WaitAckKeeps(r) ==
  /\ Running(r, 1)
  /\ Signal(DataPeer(step[r], r), r) \subseteq ack
  /\ phase' = [phase EXCEPT ![r] = 2]
  /\ UNCHANGED <<step, ack, data>>

(* HcommChannelNotifyWaitOnThread(.., NOTIFY_IDX_ACK, ..) *)
WaitAck(r) ==
  LET granted == Signal(DataPeer(step[r], r), r)
  IN  /\ Running(r, 1)
      /\ granted \subseteq ack
      /\ ack' = ack \ granted
      /\ phase' = [phase EXCEPT ![r] = 2]
      /\ UNCHANGED <<step, data>>

(* The writes or reads of the step: the peer's memory is in use in phase 2 *)
(* and no longer after it.                                                 *)
Transfer(r) ==
  /\ Running(r, 2)
  /\ phase' = [phase EXCEPT ![r] = 3]
  /\ UNCHANGED <<step, ack, data>>

(* Faulty: records towards a side the wrapper does not have. *)
RecordDataUnchecked(r) ==
  /\ Running(r, 3)
  /\ data' = data \cup {<<r, DataPeer(step[r], r)>>}
  /\ phase' = [phase EXCEPT ![r] = 4]
  /\ UNCHANGED <<step, ack>>

(* HcommChannelNotifyRecordOnThread(.., NOTIFY_IDX_DATA_SIGNAL) *)
RecordData(r) ==
  /\ Running(r, 3)
  /\ data' = data \cup Signal(r, DataPeer(step[r], r))
  /\ phase' = [phase EXCEPT ![r] = 4]
  /\ UNCHANGED <<step, ack>>

(* Faulty: goes on to the next step without waiting for the peer. *)
WaitDataSkipped(r) ==
  /\ Running(r, 4)
  /\ step' = [step EXCEPT ![r] = @ + 1]
  /\ phase' = [phase EXCEPT ![r] = 0]
  /\ UNCHANGED <<ack, data>>

(* HcommChannelNotifyWaitOnThread(.., NOTIFY_IDX_DATA_SIGNAL, ..) *)
WaitData(r) ==
  LET finished == Signal(AckPeer(step[r], r), r)
  IN  /\ Running(r, 4)
      /\ finished \subseteq data
      /\ data' = data \ finished
      /\ step' = [step EXCEPT ![r] = @ + 1]
      /\ phase' = [phase EXCEPT ![r] = 0]
      /\ UNCHANGED ack

Advance(r) ==
  \/ RecordAck(r)
  \/ WaitAck(r)
  \/ Transfer(r)
  \/ RecordData(r)
  \/ WaitData(r)

AllDone == \A r \in Ranks : step[r] = Steps + 1

(* The streams are drained: the operator is complete on every rank. *)
Complete == AllDone /\ UNCHANGED vars

Next == (\E r \in Ranks : Advance(r)) \/ Complete

Spec == Init /\ [][Next]_vars

(* A device thread executes its tasks in order and never stops at one that *)
(* can run.                                                                *)
FairSpec == Spec /\ \A r \in Ranks : WF_vars(Advance(r))

-----------------------------------------------------------------------------

(* The registers name pairs of ranks only, never the missing side of a    *)
(* one-sided wrapper, and a rank that is through has no task left.         *)
TypeOK ==
  /\ step \in [Ranks -> 1..(Steps + 1)]
  /\ phase \in [Ranks -> 0..4]
  /\ ack \subseteq Ranks \X Ranks
  /\ data \subseteq Ranks \X Ranks
  /\ \A r \in Ranks : step[r] = Steps + 1 => phase[r] = 0

(* No notify is recorded while its register is still set: the wrappers     *)
(* never lose a signal, however far the ranks run apart.                   *)
NoSignalLost ==
  \A r \in Ranks :
    /\ Running(r, 0) => Signal(r, AckPeer(step[r], r)) \cap ack = {}
    /\ Running(r, 3) => Signal(r, DataPeer(step[r], r)) \cap data = {}

(* Whoever touches a peer's memory does so while that peer stands inside   *)
(* the same step, after its grant and before its own last wait: no rank    *)
(* writes or reads a buffer whose owner has not reached the step or has    *)
(* gone on to the next.                                                    *)
TransferGranted ==
  \A r \in Ranks :
    LET owner == DataPeer(step[r], r)
    IN  (Running(r, 2) /\ owner # NoPeer) =>
          /\ step[owner] = step[r]
          /\ phase[owner] \in 1..4

(* An operator leaves every register clear for the operator that reuses    *)
(* the channels after it.                                                  *)
RegistersClean == AllDone => ack = {} /\ data = {}

(* The handshake itself never deadlocks: every thread reaches the end of   *)
(* the schedule.                                                           *)
EveryStepEnds == <>AllDone
=============================================================================
