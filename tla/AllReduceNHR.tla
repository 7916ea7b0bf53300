--------------------------- MODULE AllReduceNHR ---------------------------
(***************************************************************************)
(* The AICPU AllReduce of InsTempAllReduceNHR as the sole executor runs it *)
(* (ins_v2_all_reduce_sole_executor.cc OrchestrateLoop).  KernelRun issues *)
(* tasks to one thread (device stream) per channel; a thread executes its  *)
(* tasks in the order of issue, and nothing but the notifies orders the    *)
(* tasks of different threads and ranks.  The state is how far each thread *)
(* has come, the notify registers and the memory.                          *)
(*                                                                         *)
(* A memory cell is the part of one slice that one channel moves.  Its     *)
(* value is the set of <<rank, round>> inputs reduced into it, or Junk:    *)
(* old data, or an input that was added twice.                             *)
(***************************************************************************)
EXTENDS NHRSchedule, FiniteSets, SequencesExt

CONSTANTS
  Channels,   (* channelsPerRank_, the number of threads of a rank         *)
  MaxRounds,  (* bound: iterations of the executor's loop                  *)
  Options     (* the calls to be checked, a subset of LegalOptions         *)

VARIABLES
  opt,        (* the call                                                  *)
  pc,         (* per thread, the position of its next task                 *)
  notified,   (* the notify registers that are set                         *)
  mem

vars == <<opt, pc, notified, mem>>

Threads == Ranks \X (1..Channels)
Junk == {<<N, 0>>}   (* N is no rank *)

(* counts: the elements of each round; dmaRead: isDmaRead_, some channel   *)
(* is PCIe; symmetric: supportSymmetricMemAccess_, which the executor runs *)
(* in a single round; inPlace: the output is the input buffer.             *)
LegalOption(o) ==
  /\ Len(o.counts) \in 1..MaxRounds
  /\ \A i \in 1..Len(o.counts) : o.counts[i] \in 1..o.counts[1]
  /\ o.symmetric => Len(o.counts) = 1

ASSUME NHRAssumption ==
  /\ N > 1
  /\ Channels \in Nat \ {0}
  /\ MaxRounds \in Nat
  /\ \A o \in Options : LegalOption(o)

-----------------------------------------------------------------------------
(* Memory *)

(* Rounded down, the last one takes the rest: count over the ranks, and    *)
(* the elements of a slice over the channels (ports of equal width).       *)
Share(n, parts, isLast) == IF isLast THEN n - (parts - 1) * (n \div parts) ELSE n \div parts

Elements(o, l, s, c) ==
  Share(Share(o.counts[l], N, s = N - 1), Channels, c = Channels)

(* Pieces of size zero are skipped by every copy and transfer. *)
HasData(o, l, c) == {s \in Slices : Elements(o, l, s, c) > 0}

Ccl       == <<"ccl", 0>>
In(l)     == <<"in", l>>
Out(o, l) == IF o.inPlace THEN In(l) ELSE <<"out", l>>

Buffers == {Ccl} \cup {In(l) : l \in 1..MaxRounds} \cup {<<"out", l>> : l \in 1..MaxRounds}
Cells   == Ranks \X Buffers \X Slices \X (1..Channels)

(* A set of copies or reductions: the written cells, each with its source. *)
Copy(dstRank, dstBuf, srcRank, srcBuf, slices, c, reduce) ==
  [x \in {<<dstRank, dstBuf, s, c>> : s \in slices} |->
     [src |-> <<srcRank, srcBuf, x[3], c>>, reduce |-> reduce]]

Reduced(old, new) ==
  IF old = Junk \/ new = Junk \/ old \cap new # {} THEN Junk ELSE old \cup new

-----------------------------------------------------------------------------
(* Tasks.  step and phase say where the thread stands in the handshake of  *)
(* ChannelHandshake before it executes the task.                           *)

NoMoves == [x \in {} |-> {}]
Task(op, reg, moves, step, phase) ==
  [op |-> op, reg |-> reg, moves |-> moves, step |-> step, phase |-> phase]

Record(kind, x, y, c, step, phase) == Task("record", <<kind, x, y, c>>, NoMoves, step, phase)
Wait(kind, x, y, c, step, phase)   == Task("wait", <<kind, x, y, c>>, NoMoves, step, phase)
Move(moves, step, phase)           == Task("move", <<"none", 0, 0, 0>>, moves, step, phase)

(* Faulty: a batch without data is left without the DATA signal.           *)
SendRecvBatchWriteBare(r, c, to, from, moves, step) ==
  << Record("ack", r, from, c, step, 0),
     Wait("ack", to, r, c, step, 1),
     Move(moves, step, 2) >>
  \o (IF DOMAIN moves = {} THEN <<>> ELSE << Record("data", r, to, c, step, 3) >>)
  \o << Wait("data", from, r, c, step, 4) >>

(* SendRecvBatchWrite and SendRecvBatchWriteReduce.  In the latter the     *)
(* record of the DATA signal is fused into the last non-empty descriptor,  *)
(* or issued by itself when there is none: it is once and last either way. *)
SendRecvBatchWrite(r, c, to, from, moves, step) ==
  << Record("ack", r, from, c, step, 0),
     Wait("ack", to, r, c, step, 1),
     Move(moves, step, 2),
     Record("data", r, to, c, step, 3),
     Wait("data", from, r, c, step, 4) >>

(* Faulty: the rank that was read from goes on at once. *)
SendRecvReadUnanswered(r, c, to, from, moves, step) ==
  << Record("ack", r, to, c, step, 0),
     Wait("ack", from, r, c, step, 1),
     Move(moves, step, 2),
     Record("data", r, from, c, step, 3) >>

(* SendRecvRead, SendRecvReadReduce and SendRecvBatchRead. *)
SendRecvRead(r, c, to, from, moves, step) ==
  << Record("ack", r, to, c, step, 0),
     Wait("ack", from, r, c, step, 1),
     Move(moves, step, 2),
     Record("data", r, from, c, step, 3),
     Wait("data", to, r, c, step, 4) >>

(* Faulty: the main thread is one of its own subordinates. *)
SubsAndMain == [i \in 1..Channels |-> i]

Subs == [i \in 1..(Channels - 1) |-> i + 1]

(* The main thread, 1, records to every other; each waits for its own.     *)
PreSyncInterThreads(r, c, step) ==
  IF c = 1 THEN [i \in DOMAIN Subs |-> Record("start", r, r, Subs[i], step, 0)]
  ELSE << Wait("start", r, r, c, step, 0) >>

(* Faulty: the main thread does not wait for the others. *)
PostSyncInterThreadsNone(r, c, step) == <<>>

PostSyncInterThreads(r, c, step) ==
  IF c = 1 THEN [i \in DOMAIN Subs |-> Wait("finish", r, r, Subs[i], step, 0)]
  ELSE << Record("finish", r, r, c, step, 0) >>

-----------------------------------------------------------------------------
(* KernelRun of round l on rank r, as far as it concerns thread c.         *)

SkipStep0TxPreCopy(o) == ~o.symmetric /\ ~o.dmaRead

ReadLastStepToOutput(o) == ~o.symmetric /\ ~o.dmaRead

FirstStep(l) == (l - 1) * 2 * StepNum + 1

PreCopy(o, l, r, c) ==
  LET skipped == IF SkipStep0TxPreCopy(o) THEN ScatterTx(0, r) ELSE {}
  IN  << Move(Copy(r, Ccl, r, In(l), HasData(o, l, c) \ skipped, c, FALSE),
              FirstStep(l), 0) >>

ReduceBuffer(o, l) == IF o.symmetric THEN In(l) ELSE Ccl

ReduceScatterStep(o, l, r, c, k) ==
  LET buf  == ReduceBuffer(o, l)
      src  == IF SkipStep0TxPreCopy(o) /\ k = 0 THEN In(l) ELSE buf
      to   == ScatterTo(k, r)
      from == ScatterFrom(k, r)
      tx   == ScatterTx(k, r) \cap HasData(o, l, c)
      rx   == ScatterRx(k, r) \cap HasData(o, l, c)
  IN  IF o.dmaRead
      THEN SendRecvRead(r, c, to, from, Copy(r, buf, from, buf, rx, c, TRUE), FirstStep(l) + k)
      ELSE SendRecvBatchWrite(r, c, to, from, Copy(to, buf, r, src, tx, c, TRUE), FirstStep(l) + k)

RunReduceScatter(o, l, r, c) ==
  FlattenSeq([i \in 1..StepNum |-> ReduceScatterStep(o, l, r, c, i - 1)])

(* The reduced slice goes to the output, all channels' parts of it on the  *)
(* main thread, while the other threads stand still.                       *)
CopyMySlice(o, l, r, c) ==
  LET step == FirstStep(l) + StepNum
      part(d) == {r} \cap HasData(o, l, d)
      moves == [x \in UNION {{<<r, Out(o, l), s, d>> : s \in part(d)} : d \in 1..Channels} |->
                  [src |-> <<r, In(l), x[3], x[4]>>, reduce |-> FALSE]]
  IN  PostSyncInterThreads(r, c, step)
      \o (IF c = 1 THEN << Move(moves, step, 0) >> ELSE <<>>)
      \o PreSyncInterThreads(r, c, step)

AllGatherStep(o, l, r, c, k) ==
  LET buf  == IF o.symmetric THEN Out(o, l) ELSE Ccl
      step == FirstStep(l) + StepNum + k
      to   == GatherTo(k, r)
      from == GatherFrom(k, r)
      tx   == GatherTx(k, r) \cap HasData(o, l, c)
      rx   == GatherRx(k, r) \cap HasData(o, l, c)
  IN  CASE ReadLastStepToOutput(o) /\ k = StepNum - 1 ->
             SendRecvRead(r, c, to, from, Copy(r, Out(o, l), from, Ccl, rx, c, FALSE), step)
        [] o.symmetric \/ o.dmaRead ->
             SendRecvRead(r, c, to, from, Copy(r, buf, from, buf, rx, c, FALSE), step)
        [] OTHER ->
             SendRecvBatchWrite(r, c, to, from, Copy(to, buf, r, buf, tx, c, FALSE), step)

(* Faulty: the last read is not answered, as if nothing came after it.     *)
RunAllGatherUnanswered(o, l, r, c) ==
  FlattenSeq([i \in 1..StepNum |->
     SubSeq(AllGatherStep(o, l, r, c, i - 1), 1, IF i = StepNum THEN 3 ELSE 5)])

RunAllGather(o, l, r, c) ==
  FlattenSeq([i \in 1..StepNum |-> AllGatherStep(o, l, r, c, i - 1)])

(* Faulty: copies the slices over that the last step has read. *)
PostCopyEverything(o, l, r, c) ==
  << Move(Copy(r, Out(o, l), r, Ccl, HasData(o, l, c), c, FALSE), FirstStep(l + 1), 0) >>

PostCopy(o, l, r, c) ==
  LET read == IF ReadLastStepToOutput(o) THEN GatherRx(StepNum - 1, r) ELSE {}
  IN  << Move(Copy(r, Out(o, l), r, Ccl, HasData(o, l, c) \ read, c, FALSE),
              FirstStep(l + 1), 0) >>

KernelRun(o, l, r, c) ==
  PreSyncInterThreads(r, c, FirstStep(l))
  \o (IF o.symmetric THEN <<>> ELSE PreCopy(o, l, r, c))
  \o RunReduceScatter(o, l, r, c)
  \o (IF o.symmetric THEN CopyMySlice(o, l, r, c) ELSE <<>>)
  \o RunAllGather(o, l, r, c)
  \o (IF o.symmetric THEN <<>> ELSE PostCopy(o, l, r, c))
  \o PostSyncInterThreads(r, c, FirstStep(l + 1))

Loops(o) == 1..Len(o.counts)

(* f itself.  TLC keeps the values of a function once it has compared it.  *)
Evaluated(f) == CHOOSE g \in {f} : g = f

(* OrchestrateLoop: the programs of all threads.                           *)
Program ==
  Evaluated([o \in Options |-> Evaluated([t \in Threads |->
     FlattenSeq([l \in Loops(o) |-> KernelRun(o, l, t[1], t[2])])])])

(* The end of round l in the program of a thread. *)
RoundEnd ==
  Evaluated([o \in Options |-> Evaluated([t \in Threads |-> Evaluated([l \in 0..MaxRounds |->
     Len(FlattenSeq([i \in 1..(IF l \in Loops(o) THEN l ELSE 0)
                       |-> KernelRun(o, i, t[1], t[2])]))])])])

-----------------------------------------------------------------------------
(* The device *)

Prog(t)    == Program[opt][t]
Pending(t) == pc[t] <= Len(Prog(t))
Current(t)    == Prog(t)[pc[t]]
Step(t)    == pc' = [pc EXCEPT ![t] = @ + 1] /\ UNCHANGED opt

Init ==
  /\ opt \in Options
  /\ pc = [t \in Threads |-> 1]
  /\ notified = {}
  /\ mem = [x \in Cells |-> IF x[2] \in {In(l) : l \in 1..MaxRounds}
                            THEN {<<x[1], x[2][2]>>} ELSE Junk]

ExecuteRecord(t) ==
  /\ Pending(t) /\ Current(t).op = "record"
  /\ notified' = notified \cup {Current(t).reg}
  /\ Step(t)
  /\ UNCHANGED mem

ExecuteWait(t) ==
  /\ Pending(t) /\ Current(t).op = "wait"
  /\ Current(t).reg \in notified
  /\ notified' = notified \ {Current(t).reg}
  /\ Step(t)
  /\ UNCHANGED mem

ExecuteMove(t) ==
  /\ Pending(t) /\ Current(t).op = "move"
  /\ LET moves == Current(t).moves
     IN  mem' = [x \in DOMAIN moves \cup DOMAIN mem |->
                   IF x \notin DOMAIN moves THEN mem[x]
                   ELSE IF moves[x].reduce THEN Reduced(mem[x], mem[moves[x].src])
                   ELSE mem[moves[x].src]]
  /\ Step(t)
  /\ UNCHANGED notified

Execute(t) == ExecuteRecord(t) \/ ExecuteWait(t) \/ ExecuteMove(t)

AllDone == \A t \in Threads : ~Pending(t)

Next == (\E t \in Threads : Execute(t)) \/ (AllDone /\ UNCHANGED vars)

Spec == Init /\ [][Next]_vars

(* Every device thread runs, independently of the others. *)
FairSpec == Spec /\ \A t \in Threads : WF_vars(Execute(t))

-----------------------------------------------------------------------------

Registers ==
  ({"ack", "data"} \X Ranks \X Ranks \X (1..Channels))
  \cup ({"start", "finish"} \X Ranks \X Ranks \X (2..Channels))

(* Notifies belong to a channel or to the main thread and another thread   *)
(* of the same rank, and no move leaves the slices and buffers.            *)
TypeOK ==
  /\ opt \in Options
  /\ \A t \in Threads : pc[t] \in 1..(Len(Prog(t)) + 1)
  /\ notified \subseteq Registers
  /\ DOMAIN mem = Cells

Written(t) == DOMAIN Current(t).moves
Read(t)    == {Current(t).moves[x].src : x \in Written(t)}
Moving(t)  == Pending(t) /\ Current(t).op = "move"

(* Two moves that can run at the same time never touch a common cell,      *)
(* unless both only read it.                                               *)
CellsApart ==
  \A t, u \in Threads :
    (t # u /\ Moving(t) /\ Moving(u)) =>
      Written(t) \cap (Written(u) \cup Read(u)) = {}

(* The ranks whose memory a task touches. *)
Touched(task) ==
  {x[1] : x \in DOMAIN task.moves} \cup {task.moves[x].src[1] : x \in DOMAIN task.moves}

(* A move that touches a rank's memory comes after all moves of earlier    *)
(* rounds that do.  The slices of another round, of another length, lie    *)
(* elsewhere in the scratch buffer: cells alone do not show this.          *)
RoundsInOrder ==
  \A t, u \in Threads : \A l \in Loops(opt) :
    (Moving(t) /\ pc[t] > RoundEnd[opt][t][l]) =>
      \A i \in pc[u]..RoundEnd[opt][u][l] :
        Prog(u)[i].op = "move" => Touched(Prog(u)[i]) \cap Touched(Current(t)) = {}

(* No data race, within a round or between rounds. *)
NoMemoryConflict == CellsApart /\ RoundsInOrder

(* No notify is recorded while its register is still set, on channels and  *)
(* between the threads of a rank.                                          *)
NoNotifyLost ==
  \A t \in Threads :
    (Pending(t) /\ Current(t).op = "record") => Current(t).reg \notin notified

(* The input survives, except in the modes that reduce or deliver in it    *)
(* (HcclAllReduce.md: with symmetric memory sendBuf may be changed).       *)
InputKept ==
  (~opt.symmetric /\ ~opt.inPlace) =>
    \A x \in Cells : x[2][1] = "in" => mem[x] = {<<x[1], x[2][2]>>}

-----------------------------------------------------------------------------
(* The templates and the executor implement Collective.  A rank enters a   *)
(* round with its first task and the operator is over for its caller when  *)
(* the main thread has passed the round.                                   *)

Sum(l) == {<<r, l>> : r \in Ranks}

Began(r, l) ==
  /\ l \in Loops(opt)
  /\ \E c \in 1..Channels : pc[<<r, c>>] > RoundEnd[opt][<<r, c>>][l - 1] + 1

Finished(r, l) ==
  /\ l \in Loops(opt)
  /\ pc[<<r, 1>>] > RoundEnd[opt][<<r, 1>>][l]

Delivered(r, l) ==
  \A c \in 1..Channels : \A s \in HasData(opt, l, c) :
    mem[<<r, Out(opt, l), s, c>>] = Sum(l)

Abstract == INSTANCE Collective WITH
  Rounds  <- MaxRounds,
  entered <- {x \in Ranks \X (1..MaxRounds) : Began(x[1], x[2])},
  output  <- [x \in Ranks \X (1..MaxRounds) |->
                IF ~Finished(x[1], x[2]) THEN "none"
                ELSE IF Delivered(x[1], x[2]) THEN "sum" ELSE "wrong"]

(* Every rank is delivered the sum of all inputs in every round, after all *)
(* ranks have entered, exactly once, nothing disturbs it afterwards, and   *)
(* the inputs are kept.                                                    *)
DeliversTheSum == Abstract!FairSpec /\ []InputKept

(* The handshake that the threads of one channel play is ChannelHandshake  *)
(* with the schedule of NHR: what is proved there holds of it.             *)
Gathers(k) == (k - 1) % (2 * StepNum) >= StepNum
StepOf(k)  == (k - 1) % StepNum

HandshakeMode ==
  Evaluated([o \in Options |-> Evaluated([k \in 1..(2 * StepNum * Len(o.counts)) |->
     IF ~Gathers(k) THEN IF o.dmaRead THEN "read" ELSE "write"
     ELSE IF o.symmetric \/ o.dmaRead \/ StepOf(k) = StepNum - 1 THEN "read" ELSE "write"])])

PeerTable(scatter(_, _), gather(_, _)) ==
  Evaluated([o \in Options |-> Evaluated([k \in DOMAIN HandshakeMode[o] |-> Evaluated([r \in Ranks |->
     IF Gathers(k) THEN gather(StepOf(k), r) ELSE scatter(StepOf(k), r)])])])

HandshakeTx == PeerTable(ScatterTo, GatherTo)
HandshakeRx == PeerTable(ScatterFrom, GatherFrom)

Registered(kind, c) ==
  {<<x[2], x[3]>> : x \in {y \in notified : y[1] = kind /\ y[4] = c}}

Handshake(o, c) == INSTANCE ChannelHandshake WITH
  Steps  <- 2 * StepNum * Len(o.counts),
  NoPeer <- N,
  Mode   <- HandshakeMode[o],
  Tx     <- HandshakeTx[o],
  Rx     <- HandshakeRx[o],
  step   <- [r \in Ranks |-> IF Pending(<<r, c>>) THEN Current(<<r, c>>).step
                             ELSE 2 * StepNum * Len(o.counts) + 1],
  phase  <- [r \in Ranks |-> IF Pending(<<r, c>>) THEN Current(<<r, c>>).phase ELSE 0],
  ack    <- Registered("ack", c),
  data   <- Registered("data", c)

(* Each step of a thread is a step of the handshake of its channel, or     *)
(* changes nothing in it.                                                  *)
PlaysTheHandshake ==
  [][\A o \in Options, c \in 1..Channels :
       opt = o => Handshake(o, c)!Next \/ UNCHANGED Handshake(o, c)!vars]_vars
=============================================================================
