---------------------------- MODULE OrderLaunch ----------------------------
(***************************************************************************)
(* The ordered launch of AICPU kernels: OrderLaunch (order_launch.cc), the *)
(* entrance that brackets a launch with its two phases                     *)
(* (HcclAicpuKernelEntranceLaunch, op_common.cc) and the head of the       *)
(* kernel (HcclLaunchAicpuKernel, kernel_launch.cc).                       *)
(*                                                                         *)
(* A kernel holds a core of its device until the kernels of its peers run, *)
(* too.  With fewer cores than communicators, devices that start kernels   *)
(* in different orders wait for each other.  Therefore all communicators   *)
(* of a device share one host order stream: it lets a kernel go with one   *)
(* notify and waits for another, recorded by the running kernel, before it *)
(* lets the next one go.                                                   *)
(*                                                                         *)
(* The host of a device calls one operation after the other, in the same   *)
(* order on all devices (api_comm_impl.md:38).  A stream executes its tasks *)
(* in order; tasks on different streams run concurrently.  The main        *)
(* stream's notify before and wait after an operation are left out: they   *)
(* touch neither the order stream nor the unfold stream.                   *)
(***************************************************************************)
EXTENDS Integers, Sequences, FiniteSets

CONSTANTS
  Devices,
  Comms,          (* communicators, each of all devices                    *)
  Instances,      (* what is run: program, cores, grant and mishaps (below) *)
  Faulty          (* devices on which calls and kernels may fail           *)

Modes == {"opbase", "aclgraph", "ge"}

(* The order threads a device with n cores gets from the library: none if  *)
(* there are fewer communicators than cores, or the library has none to    *)
(* give; else the host's, and with it the device's or not.                 *)
Grants(n) == IF Cardinality(Comms) < n THEN {"none"} ELSE {"none", "host", "both"}

ASSUME OrderLaunchAssumption ==
  /\ IsFiniteSet(Comms)
  /\ Instances \subseteq [program : Seq([comm : Comms, mode : Modes]), cores : Nat \ {0},
                          grant : {"none", "host", "both"}, mishaps : Nat]
  /\ \A x \in Instances : x.grant \in Grants(x.cores)
  /\ Faulty \subseteq Devices

(* The calls that queue a task on a stream, in the order of the code: in   *)
(* graph capture an event draws the order stream into the capture (Fork,   *)
(* ForkWait); the order stream records the notify of the unfold stream,    *)
(* which waits for it (Record, TurnWait); the kernel is launched (Kernel); *)
(* the order stream waits for the kernel (OrderWait); and another event    *)
(* leads back to the unfold stream (Rejoin, RejoinWait).                   *)
Fork       == 1
ForkWait   == 2
Record     == 3
TurnWait   == 4
Kernel     == 5
OrderWait  == 6
Rejoin     == 7
RejoinWait == 8

VARIABLES
  program,     (* the operations                                           *)
  cores,       (* cores per device                                         *)
  grant,       (* the order threads the library grants                     *)
  mishaps,     (* bound: failures and suspensions                          *)
  next,        (* per device, the operation its host is at                 *)
  sent,        (* per device, the tasks queued: <<operation, call>>        *)
  done,        (* and those the streams have executed                      *)
  notified,    (* per device, the streams whose notify is set              *)
  kernel,      (* per device and operation, its kernel                     *)
  suspended,   (* the communicators that are suspended                     *)
  faults,      (* failures so far                                          *)
  lost         (* notifies recorded while they were set                    *)

inputVars  == <<program, cores, grant, mishaps>>
hostVars   == <<next, sent>>
streamVars == <<done, notified, lost>>
vars == <<inputVars, hostVars, streamVars, kernel, suspended, faults>>

Ops == DOMAIN program

(* One host order thread per mode; one unfold thread per communicator, and *)
(* another one for GE.  Each has one notify.                               *)
OrderStream(i) == <<"order", program[i].mode>>

UnfoldStream(i) ==
  <<"unfold", IF program[i].mode = "ge" THEN "ge" ELSE "base", program[i].comm>>

Streams == ({"order"} \X Modes) \cup ({"unfold"} \X {"ge", "base"} \X Comms)

Init ==
  /\ \E x \in Instances :
       program = x.program /\ cores = x.cores /\ grant = x.grant /\ mishaps = x.mishaps
  /\ next = [d \in Devices |-> 1]
  /\ sent = [d \in Devices |-> {}]
  /\ done = [d \in Devices |-> {}]
  /\ notified = [d \in Devices |-> {}]
  /\ kernel = [d \in Devices |-> [i \in Ops |-> "none"]]
  /\ suspended = {}
  /\ faults = 0
  /\ lost = [d \in Devices |-> {}]

-----------------------------------------------------------------------------
(* The calls each function makes.                                          *)

Captured(i, calls) == IF program[i].mode = "aclgraph" THEN calls ELSE {}

(* Faulty: the notify comes before the question for the device's thread. *)
ToOrderStreamEarly(i) ==
  IF grant = "none" THEN {} ELSE Captured(i, {Fork, ForkWait}) \cup {Record, TurnWait}

(* Faulty: the unfold stream does not wait for its turn. *)
ToOrderStreamUnwaited(i) ==
  (IF grant = "none" THEN {} ELSE Captured(i, {Fork, ForkWait})) \cup
  (IF grant = "both" THEN {Record} ELSE {})

ToOrderStream(i) ==
  (IF grant = "none" THEN {} ELSE Captured(i, {Fork, ForkWait})) \cup
  (IF grant = "both" THEN {Record, TurnWait} ELSE {})

(* Faulty: the order stream is not made to wait for the kernel. *)
ToKernelStreamUnwaited(i) ==
  IF grant = "both" THEN Captured(i, {Rejoin, RejoinWait}) ELSE {}

ToKernelStream(i) ==
  IF grant = "both" THEN {OrderWait} \cup Captured(i, {Rejoin, RejoinWait}) ELSE {}

Calls(i) == ToOrderStream(i) \cup {Kernel} \cup ToKernelStream(i)

(* The stream the task of a call is queued on. *)
On(i, n) ==
  IF n \in {Fork, TurnWait, Kernel, RejoinWait} THEN UnfoldStream(i) ELSE OrderStream(i)

Unsent(d, i) == {n \in Calls(i) : <<i, n>> \notin sent[d]}

-----------------------------------------------------------------------------
(* The host: one operation, HcclAicpuKernelEntranceLaunch.                 *)

MishapLeft == faults + Cardinality(suspended) < mishaps

(* The next call of the operation; after the last one the operation        *)
(* returns.                                                                *)
Call(d) ==
  /\ next[d] \in Ops
  /\ \E n \in Unsent(d, next[d]) :
       /\ \A m \in Unsent(d, next[d]) : n <= m
       /\ sent' = [sent EXCEPT ![d] = @ \cup {<<next[d], n>>}]
       /\ next' = [next EXCEPT ![d] = IF Unsent(d, next[d]) = {n} THEN @ + 1 ELSE @]
  /\ UNCHANGED <<inputVars, streamVars, kernel, suspended, faults>>

(* A call fails, or the report of the kernel after its launch: the         *)
(* operation returns an error with what it has queued so far.  The next    *)
(* one may be called all the same.                                         *)
CallFails(d) ==
  /\ next[d] \in Ops /\ d \in Faulty /\ MishapLeft
  /\ next' = [next EXCEPT ![d] = @ + 1]
  /\ faults' = faults + 1
  /\ UNCHANGED <<inputVars, sent, streamVars, kernel, suspended>>

-----------------------------------------------------------------------------
(* The streams of a device. *)

Earlier(t, u) == t[1] < u[1] \/ (t[1] = u[1] /\ t[2] < u[2])

(* The task of call n of operation i is at the head of its stream.         *)
Ready(d, i, n) ==
  /\ <<i, n>> \in sent[d] \ done[d]
  /\ \A t \in sent[d] \ done[d] : On(t[1], t[2]) = On(i, n) => ~Earlier(t, <<i, n>>)

Done(d, i, n) == done' = [done EXCEPT ![d] = @ \cup {<<i, n>>}]

(* The notifies of the streams r are set; each is one bit.                 *)
RecordNotify(d, r) ==
  /\ notified' = [notified EXCEPT ![d] = @ \cup r]
  /\ lost' = [lost EXCEPT ![d] = @ \cup (r \cap notified[d])]

ExecuteRecord(d, i) ==
  /\ Ready(d, i, Record)
  /\ RecordNotify(d, {UnfoldStream(i)})
  /\ Done(d, i, Record)
  /\ UNCHANGED <<inputVars, hostVars, kernel, suspended, faults>>

(* Either wait is for the notify of its own stream. *)
ExecuteWait(d, i, n) ==
  /\ n \in {TurnWait, OrderWait} /\ Ready(d, i, n)
  /\ On(i, n) \in notified[d]
  /\ notified' = [notified EXCEPT ![d] = @ \ {On(i, n)}]
  /\ Done(d, i, n)
  /\ UNCHANGED <<inputVars, hostVars, lost, kernel, suspended, faults>>

ExecuteEvent(d, i, n) ==
  /\ n \in {Fork, ForkWait, Rejoin, RejoinWait} /\ Ready(d, i, n)
  /\ n \in {ForkWait, RejoinWait} => <<i, n - 1>> \in done[d]
  /\ Done(d, i, n)
  /\ UNCHANGED <<inputVars, hostVars, notified, lost, kernel, suspended, faults>>

-----------------------------------------------------------------------------
(* The kernel.  Its stream goes on when it returns. *)

Running(d) == {i \in Ops : kernel[d][i] \in {"started", "unfolding"}}

Becomes(d, i, state) == kernel' = [kernel EXCEPT ![d][i] = state]

(* It is launched and its turn has come; before it has a core, it is       *)
(* "none".                                                                 *)
KernelIs(d, i, state) == Ready(d, i, Kernel) /\ kernel[d][i] = state

(* Faulty: it looks first whether the communicator is suspended.           *)
StartKernelChecked(d, i) ==
  /\ KernelIs(d, i, "none") /\ Cardinality(Running(d)) < cores
  /\ RecordNotify(d, IF grant = "both" /\ program[i].comm \notin suspended
                     THEN {OrderStream(i)} ELSE {})
  /\ Becomes(d, i, "started")
  /\ UNCHANGED <<inputVars, hostVars, done, suspended, faults>>

(* It gets a core, holds its communicator and, before anything else,       *)
(* records the order stream's notify, given both order threads.            *)
StartKernel(d, i) ==
  /\ KernelIs(d, i, "none") /\ Cardinality(Running(d)) < cores
  /\ RecordNotify(d, IF grant = "both" THEN {OrderStream(i)} ELSE {})
  /\ Becomes(d, i, "started")
  /\ UNCHANGED <<inputVars, hostVars, done, suspended, faults>>

Returns(d, i, state) == Becomes(d, i, state) /\ Done(d, i, Kernel)

(* It cannot hold its communicator and returns at once. *)
RefuseKernel(d, i) ==
  /\ KernelIs(d, i, "none") /\ d \in Faulty /\ MishapLeft
  /\ Returns(d, i, "refused")
  /\ faults' = faults + 1
  /\ UNCHANGED <<inputVars, hostVars, notified, lost, suspended>>

(* It looks whether the communicator is suspended, and leaves if it is.    *)
CheckCommStatus(d, i) ==
  /\ KernelIs(d, i, "started")
  /\ IF program[i].comm \in suspended
     THEN Returns(d, i, "left")
     ELSE Becomes(d, i, "unfolding") /\ UNCHANGED done
  /\ UNCHANGED <<inputVars, hostVars, notified, lost, suspended, faults>>

(* It is through when its peers run, or gives up when the communicator is  *)
(* suspended.                                                              *)
EndKernel(d, i) ==
  /\ KernelIs(d, i, "unfolding")
  /\ \/ program[i].comm \in suspended
     \/ \A e \in Devices : kernel[e][i] \in {"unfolding", "done"}
  /\ Returns(d, i, "done")
  /\ UNCHANGED <<inputVars, hostVars, notified, lost, suspended, faults>>

Suspend(c) ==
  /\ c \notin suspended /\ MishapLeft
  /\ suspended' = suspended \cup {c}
  /\ UNCHANGED <<inputVars, hostVars, streamVars, kernel, faults>>

-----------------------------------------------------------------------------
(* A stream executes the task of call n of operation i. *)
Execute(d, i, n) ==
  \/ n = Record /\ ExecuteRecord(d, i)
  \/ ExecuteWait(d, i, n)
  \/ ExecuteEvent(d, i, n)
  \/ n = Kernel /\ (StartKernel(d, i) \/ CheckCommStatus(d, i) \/ EndKernel(d, i))

Device(d) == Call(d) \/ \E t \in sent[d] \ done[d] : Execute(d, t[1], t[2])

Next ==
  \/ \E d \in Devices : Device(d) \/ CallFails(d)
  \/ \E d \in Devices, i \in Ops : RefuseKernel(d, i)
  \/ \E c \in Comms : Suspend(c)

Spec == Init /\ [][Next]_vars

(* The devices do not stop while a host has a call to make or a stream a   *)
(* task to execute; as all programs end, no device and no stream is left   *)
(* out.                                                                    *)
Fairness == WF_vars(\E d \in Devices : Device(d))

FairSpec == Spec /\ Fairness

-----------------------------------------------------------------------------
(* And without both order threads no notify is touched: the kernel does    *)
(* not record one that no order stream waits for.                          *)
TypeOK ==
  /\ [program |-> program, cores |-> cores, grant |-> grant, mishaps |-> mishaps] \in Instances
  /\ next \in [Devices -> 1..(Len(program) + 1)]
  /\ sent \in [Devices -> SUBSET (Ops \X (1..8))] /\ done \in [Devices -> SUBSET (Ops \X (1..8))]
  /\ notified \in [Devices -> SUBSET Streams] /\ lost \in [Devices -> SUBSET Streams]
  /\ kernel \in [Devices -> [Ops -> {"none", "started", "unfolding", "done", "left", "refused"}]]
  /\ suspended \subseteq Comms
  /\ faults \in 0..mishaps
  /\ grant # "both" => \A d \in Devices : notified[d] = {}

(* A failure has left half of a pair: a record nobody waits for, or a      *)
(* kernel that records and is not waited for.                              *)
Torn(d) ==
  \E i \in Ops :
    /\ i < next[d]
    /\ \/ <<i, Record>> \in sent[d] /\ TurnWait \in Unsent(d, i)
       \/ <<i, Kernel>> \in sent[d] /\ OrderWait \in Unsent(d, i)

(* The operations that share an unfold stream also share an order stream:  *)
(* those of one communicator are all launched singly, or all captured.     *)
Unmixed ==
  \A i, j \in Ops : UnfoldStream(i) = UnfoldStream(j) => OrderStream(i) = OrderStream(j)

Started(d, i) == kernel[d][i] \notin {"none", "refused"}

(* Ordered launch: on each device the kernels of all communicators that    *)
(* use one order stream start in the order in which the host called the    *)
(* operations.  That survives every failure that leaves no notify half     *)
(* recorded: also of the launch itself, and a kernel that starts and finds *)
(* its communicator gone or suspended.                                     *)
KernelsStartInOrder ==
  \A d \in Devices : grant = "both" /\ Unmixed /\ ~Torn(d) =>
    \A i, j \in Ops :
      /\ i < j /\ OrderStream(i) = OrderStream(j)
      /\ <<i, Kernel>> \in sent[d] /\ kernel[d][j] # "none"
      => Started(d, i)

(* Between its two phases no launch has failed. *)
AllLaunched(d) ==
  \A i \in Ops : i < next[d] /\ <<i, Record>> \in sent[d] => <<i, Kernel>> \in sent[d]

(* The notifies that all communicators of a device share are never         *)
(* recorded twice before they are consumed: else an order stream would     *)
(* wait forever, and with it every communicator.  It takes more than       *)
(* paired notifies: after a launch that failed the order stream does not   *)
(* wait for a kernel and may be a record ahead of the unfold stream.       *)
NoNotifyLost ==
  \A d \in Devices : Unmixed /\ ~Torn(d) /\ AllLaunched(d) => lost[d] = {}

(* The order threads are there, or not needed; and the program has one     *)
(* mode: between modes nothing orders the kernels.                         *)
InOrder ==
  /\ grant = "both" \/ Cardinality(Comms) <= cores
  /\ \A i, j \in Ops : program[i].mode = program[j].mode

(* With fewer cores than communicators the devices do not wait for each    *)
(* other in a circle: every kernel gets a core and ends, also those behind *)
(* a communicator that is suspended at any moment.                         *)
EveryKernelEnds ==
  InOrder => <>(faults > 0 \/ \A d \in Devices : \A i \in Ops : kernel[d][i] \in {"done", "left"})
=============================================================================
