---------------------------- MODULE HcclBarrier ----------------------------
(***************************************************************************)
(* HcclBarrier (src/ops/barrier): a collective without data.  There are    *)
(* two algorithms.  AicpuBarrierSoleNHR runs the NHR ring over all ranks   *)
(* on one device thread; DpuBarrierSequenceMeshNHR runs it between the     *)
(* servers on the host's DPU and then a mesh within each server.  A mesh   *)
(* has a device thread for each peer; here a server has at most one peer,  *)
(* so that a rank has one thread.                                          *)
(*                                                                         *)
(* Both call the data wrappers with empty slice lists, so that only their  *)
(* notifies are left.  In an NHR step with two different neighbours a rank *)
(* sends and receives one after the other on one thread; which comes first *)
(* depends on the neighbours' rank numbers.                                *)
(***************************************************************************)
EXTENDS Integers, Sequences, SequencesExt, TLC

CONSTANTS
  Ranks,      (* rank numbers                                              *)
  Layouts,    (* the communicators, a sequence, see below                  *)
  Rounds      (* bound: barriers issued back to back on the stream         *)

(* A layout is the sequence of the servers, each a sequence of ranks, and  *)
(* the algorithm the selector chooses: dpu when only the host can reach    *)
(* the other servers.  The one-level algorithm has them all in one line.   *)
Members(l) == UNION {{l.servers[i][j] : j \in DOMAIN l.servers[i]} : i \in DOMAIN l.servers}

ASSUME BarrierAssumption ==
  /\ Ranks \subseteq Int
  /\ Rounds \in Nat
  /\ \A l \in ToSet(Layouts) :
       /\ l.dpu \in BOOLEAN
       /\ l.dpu \/ Len(l.servers) = 1
       /\ Members(l) \subseteq Ranks
       /\ \A i, j \in DOMAIN l.servers :
            /\ Len(l.servers[i]) = Len(l.servers[j])
            /\ l.dpu => Len(l.servers[i]) <= 2
            /\ \A x, y \in DOMAIN l.servers[i] :
                 l.servers[i][x] = l.servers[j][y] => i = j /\ x = y

VARIABLES
  layout,     (* the communicator, an index of Layouts                     *)
  pc,         (* per rank, the position of its next task                   *)
  notified    (* the notify registers that are set                         *)

vars == <<layout, pc, notified>>

-----------------------------------------------------------------------------
(* What a rank's thread is given to execute.  A register belongs to a      *)
(* channel: x records it and y waits for it.                               *)

Record(kind, x, y) == [op |-> "record", reg |-> <<kind, x, y>>]
Wait(kind, x, y)   == [op |-> "wait",   reg |-> <<kind, x, y>>]

(* The task of the stream before the barrier is done. *)
Entry == [op |-> "enter", reg |-> <<>>]

(* The DPU wrappers answer in both directions: SendWrite and RecvWrite are *)
(* the same.  (NOTIFY_IDX_ACK, NOTIFY_IDX_FIN_ACK)                         *)
Meet(r, peer) ==
  << Record("ack", r, peer), Wait("ack", peer, r),
     Record("fin", r, peer), Wait("fin", peer, r) >>

(* Faulty: the sender does not wait for the receiver's ACK. *)
SendWriteUnasked(dpu, r, to) ==
  IF dpu THEN Meet(r, to) ELSE << Record("data", r, to) >>

SendWrite(dpu, r, to) ==
  IF dpu THEN Meet(r, to) ELSE << Wait("ack", to, r), Record("data", r, to) >>

RecvWrite(dpu, r, from) ==
  IF dpu THEN Meet(r, from) ELSE << Record("ack", r, from), Wait("data", from, r) >>

SendRecvWrite(dpu, r, to, from) ==
  LET done == IF dpu THEN "fin" ELSE "data"
  IN  << Record("ack", r, from), Wait("ack", to, r),
         Record(done, r, to), Wait(done, from, r) >>

-----------------------------------------------------------------------------
(* RunNHRBarrier of both NHR templates *)

(* GetNHRStepNum: the number of bits of n - 1. *)
StepNum(n) == CHOOSE s \in 0..n : 2^s >= n /\ \A t \in 0..(s - 1) : 2^t < n

(* Faulty: every rank sends first. *)
ExchangeSendFirst(dpu, r, to, from) ==
  IF to = from THEN SendRecvWrite(dpu, r, to, from)
  ELSE SendWrite(dpu, r, to) \o RecvWrite(dpu, r, from)

Exchange(dpu, r, to, from) ==
  CASE to = from -> SendRecvWrite(dpu, r, to, from)
    [] to < from -> SendWrite(dpu, r, to) \o RecvWrite(dpu, r, from)
    [] to > from -> RecvWrite(dpu, r, from) \o SendWrite(dpu, r, to)

(* The rank j places after r in a line. *)
Place(line, r, j) ==
  line[((SelectInSeq(line, LAMBDA x : x = r) - 1 + j) % Len(line)) + 1]

RunNHRBarrier(dpu, r, line) ==
  LET n == Len(line)
      delta(step) == 2^(StepNum(n) - step)
  IN  FlattenSeq([step \in 1..StepNum(n) |->
        Exchange(dpu, r, Place(line, r, delta(step)), Place(line, r, n - delta(step)))])

-----------------------------------------------------------------------------
(* InsTempBarrierMesh1D with at most one peer *)
RunBarrierMesh(r, line) ==
  IF Len(line) = 1 THEN <<>>
  ELSE LET peer == Place(line, r, 1) IN SendRecvWrite(FALSE, r, peer, peer)

-----------------------------------------------------------------------------
(* Orchestrate of the two executors *)

Row(l, r) == CHOOSE i \in DOMAIN l.servers : Contains(l.servers[i], r)

(* The ranks at r's place in all servers. *)
Column(l, r) ==
  LET j == SelectInSeq(l.servers[Row(l, r)], LAMBDA x : x = r)
  IN  [i \in DOMAIN l.servers |-> l.servers[i][j]]

(* What one barrier issues: the DPU's part has to be done before the AICPU *)
(* issues the mesh.                                                        *)
Orchestrate(l, r) ==
  LET line == l.servers[Row(l, r)]
  IN  << Entry >> \o
      IF l.dpu THEN RunNHRBarrier(TRUE, r, Column(l, r)) \o RunBarrierMesh(r, line)
      ELSE RunNHRBarrier(FALSE, r, line)

(* A record never blocks and changes nothing but its register, which only  *)
(* its own thread sets and only one other waits for: a step of the model   *)
(* is one wait, or the entry, and the records up to the next.  Executing   *)
(* the wait late together with the records is the worst for a recorder     *)
(* that finds the register set, executing the records late the worst for   *)
(* whoever waits for them, so nothing is hidden.                           *)
WithRecords(tasks) ==
  FoldLeft(LAMBDA steps, task :
             IF task.op = "record"
             THEN Front(steps) \o << [Last(steps) EXCEPT !.records = @ \cup {task.reg}] >>
             ELSE steps \o << [waits |-> IF task.op = "wait" THEN {task.reg} ELSE {},
                              records |-> {}] >>,
           <<>>, tasks)

(* What each rank is given by one barrier.  (@@ <<>> changes nothing, it   *)
(* has TLC evaluate the functions once.)                                   *)
OneBarrier ==
  [l \in DOMAIN Layouts |-> [r \in Ranks |->
     IF r \in Members(Layouts[l]) THEN WithRecords(Orchestrate(Layouts[l], r)) ELSE <<>>]
     @@ <<>>] @@ <<>>

(* Barriers follow one another. *)
Steps(r)   == OneBarrier[layout][r]
Current(r) == Steps(r)[((pc[r] - 1) % Len(Steps(r))) + 1]
Pending(r) == pc[r] <= Rounds * Len(Steps(r))

Init ==
  /\ layout \in DOMAIN Layouts
  /\ pc = [r \in Ranks |-> 1]
  /\ notified = {}

-----------------------------------------------------------------------------
Executes(r) ==
  /\ Current(r).waits \subseteq notified
  /\ notified' = (notified \ Current(r).waits) \cup Current(r).records
  /\ pc' = [pc EXCEPT ![r] = @ + 1]
  /\ UNCHANGED layout

(* The stream of the rank reaches the barrier. *)
EnterBarrier(r) == Pending(r) /\ Current(r).waits = {} /\ Executes(r)

ExecuteTasks(r) == Pending(r) /\ Current(r).waits # {} /\ Executes(r)

AllDone == \A r \in Ranks : ~Pending(r)

Next ==
  \/ \E r \in Ranks : EnterBarrier(r) \/ ExecuteTasks(r)
  \/ AllDone /\ UNCHANGED vars

Spec == Init /\ [][Next]_vars

(* A device thread, or the DPU, executes the next task when it can.  That  *)
(* some rank does is enough, since a run has finitely many steps.  When    *)
(* a rank calls HcclBarrier is up to its program.                          *)
FairSpec == Spec /\ WF_vars(\E r \in Ranks : ExecuteTasks(r))

-----------------------------------------------------------------------------
(* The registers that some rank waits for.                                 *)
Waiters ==
  [l \in DOMAIN Layouts |-> UNION {UNION {OneBarrier[l][r][i].waits :
                              i \in DOMAIN OneBarrier[l][r]} : r \in Ranks}] @@ <<>>

(* No rank is past its last task, only registers that some rank waits for  *)
(* are ever set, and none is left set at the end.                          *)
TypeOK ==
  /\ layout \in DOMAIN Layouts
  /\ \A r \in Ranks : pc[r] \in 1..(Rounds * Len(Steps(r)) + 1)
  /\ notified \subseteq Waiters[layout]
  /\ AllDone => notified = {}

MembersOf == [l \in DOMAIN Layouts |-> Members(Layouts[l])] @@ <<>>

(* The barrier as its caller sees it: a rank has entered when its thread   *)
(* has begun it, and left when its thread is through.                      *)
BarriersOf(r, begun) ==
  LET n == Len(Steps(r))
  IN  IF n = 0 THEN 0 ELSE (pc[r] - 1 + (IF begun THEN n - 1 ELSE 0)) \div n

Abstract == INSTANCE Rendezvous WITH
  members <- MembersOf[layout],
  entered <- [r \in Ranks |-> BarriersOf(r, TRUE)],
  left    <- [r \in Ranks |-> BarriersOf(r, FALSE)]

(* No rank leaves a barrier before all have entered it, and when all have, *)
(* each leaves: no order of sends and receives deadlocks, and no notify is *)
(* lost, though a rank may be in the next barrier while a neighbour is     *)
(* still in this one and both use the same registers.                      *)
IsABarrier == Abstract!FairSpec
=============================================================================
