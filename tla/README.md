# TLA+ models of HCCL

HCCL implements collective communication (AllReduce, AllGather, Broadcast, ...)
for Ascend devices. This directory holds TLA+ specifications of the parts where
ordering, concurrency and index arithmetic decide whether a collective is
correct, the TLC configurations that check them on small instances, and proofs
for every value of the constants. Paths below are relative to the repository;
`src/ops/op_common/` is written `op_common/`.

## 1. The system and its parts

A collective is a call of an operator entry (`src/ops/<op>/<op>.cc`) on every
rank. `op_common/op_common.cc` selects an algorithm, negotiates with the other
ranks where the CCU engine is involved, gets threads and channels (or reuses
them) and runs an *executor*. The executor cuts the call into rounds that fit
the scratch buffer and runs a *template* in each. The template issues tasks
through the *wrappers*; a device executes them. Nothing but notifies orders the
tasks of different ranks, or of different threads of one rank.

| Part | State it keeps | Operations | What makes it correct |
|---|---|---|---|
| Wrappers (`op_common/algorithm/template/wrapper/alg_data_trans_wrapper.cc`) | the ACK and DATA notify registers of each channel, one bit each | send/receive by write, by read, one-sided, batched, with the notify fused into a descriptor; main/sub thread sync | no notify lost, memory touched only under a grant, registers clear at the end, no deadlock |
| NHR AllReduce (`src/ops/all_reduce/algorithm/template/aicpu/ins_temp_all_reduce_nhr.cc`) | step tables; the input, output and scratch memory | PreCopy, ReduceScatter, AllGather, PostCopy; symmetric-memory and DMA-read variants | every rank gets every contribution once, from buffers nobody else is using |
| Sole executor (`src/ops/all_reduce/algorithm/executor/ins_v2_all_reduce_sole_executor.cc`) | the offset of the round | OrchestrateLoop | rounds may share the scratch buffer although no barrier divides them |
| CommWorker (`op_common/comm_worker.cc`) | a slot, a result, a stop flag, a thread | Start, Submit, WorkerLoop, Shutdown | tasks run once, are answered, survive a shutdown; nobody sleeps for ever |
| CommWorkerMgr (`op_common/comm_worker_mgr.cc`) | workers by device and communicator | Submit, Remove, destructor | one worker per communicator; none left when its context is gone; no lock cycle |
| CCU negotiation (`op_common/ccu_fallback.cc`) | negotiation communicator, parameter cache, fallback contexts, per rank | parameter AllGather, resource AllReduce, fallback MS -> SCHED -> AICPU_TS, suspend/resume | all ranks run the same algorithm; nobody negotiates alone |
| Operator entry (`op_common/op_common.cc`) | engine contexts by algorithm tag | Selector, HcclExecOp, TryReuseResource, HcclGetAlgRes, incremental channels | no context that a failed step has left is taken for a good one |
| Order launch (`op_common/order_launch.cc`) | the mode of the operation, its order threads and events; on the device, streams and notifies | phase 1 before and phase 2 after the launch of a kernel; also under graph capture | kernels of all communicators start in the order of the calls; devices with few cores do not wait for each other in a circle |
| AICPU kernel (`op_common/algorithm/template/aicpu/kernel_launch.cc`) | cache of deserialised contexts | load, hit test | a hit is never out of date |
| HcclBarrier (`src/ops/barrier/`) | the notifies of its channels | NHR ring on the AICPU; NHR between servers on the DPU, then a mesh in each | nobody leaves before all have entered, all leave, a barrier can be repeated at once |
| Template base (`alg_template_base.cc`, `template_utils.cc`) | a notify per barrier | ring and all-to-all barriers, data split over ports | the shares tile the data |
| Selectors, cost model, topology, omnipipe slices | none, or read once | pure functions of topology and call | the same on all ranks; slices tile the data |
| CCU and AIV kernels | engine resources | microcode, vector-core flags | engine semantics, outside this repository |
| Algorithm plugin, common utilities | registry, configuration | load, parse, log | - |

Interactions: executor -> template -> wrappers are plain calls on one host (or
AICPU) thread that *issue* tasks; the device runs them later, all threads at
once. The negotiation runs on the CommWorker of its communicator, and the
calling thread blocks on it. Ranks interact through notifies and memory only.

What is hard: one-bit notifies between ranks that run apart; buffers reused
without barriers; copies that are skipped because a later step will not need
them; index arithmetic for rings that are no power of two, in unsigned
integers; one condition variable for a worker and its callers; shutdown with
work in flight, or with the communicator being destroyed; contexts and caches
per rank that must agree across ranks after partial failures; kernels of many
communicators on few cores. `PROJECT.json` lists each hazard at its line.

## 2. The modules

```
Collective  <--implements--  AllReduceNHR  --plays-->  ChannelHandshake
                              |        |                     |
                              | AllReduceNHRProofs     ChannelHandshakeProofs
                              |  uses  |
                     NHRSchedule       |  cites        Rendezvous
                              |        v                   ^ implements
      NHRLockstep (in lockstep) -- NHRLockstepProofs   HcclBarrier

CommWorker -- CommWorkerProofs
    ^ promises what a worker is in
CommWorkerMgr -- CommWorkerMgrProofs    CcuFallback -- CcuFallbackProofs
    ^ runs the exchanges of                  |
    +----------------------------------------+

OrderLaunch -- OrderLaunchProofs        AicpuContexts -- AicpuContextsProofs
```

### ChannelHandshake

The handshake of the wrappers for *any* list of steps. Per rank: `step`,
`phase` (the next of five tasks); globally the set ACK and DATA registers. One
action per device task, in the order in which the wrappers issue them:

| Action | Task | In a write step | In a read step |
|---|---|---|---|
| `RecordAck` | record `NOTIFY_IDX_ACK` | the receiver grants its buffer | the sender does |
| `WaitAck` | wait for it | the sender | the receiver |
| `Transfer` | writes or reads | the sender writes | the receiver reads |
| `RecordData` | record `NOTIFY_IDX_DATA_SIGNAL` | the sender answers | the receiver answers |
| `WaitData` | wait for it | the receiver | the sender |

A two-sided wrapper does all five; of a one-sided one only its own remain (the
peer is `NoPeer`). A record on a register that is set is lost, as in the
device. `ScheduleAssumption` is what a template has to guarantee: x sends to y
in a step exactly when y receives from x.

* `NoSignalLost`, `TransferGranted`, `RegistersClean`, `EveryStepEnds`.

### NHRSchedule, NHRLockstep

`NHRSchedule` has the formulas of `GetReduceScatterStepInfoList`,
`GetAllGatherStepInfoList` and `GetNHRStepNum`: peers, number of slices and
slice indices, the last in modular unsigned arithmetic. `NHRLockstep` runs the
tables for all ring sizes up to a bound with all ranks in step.

* `TablesAgree`: each rank computes its table alone; the two ends agree on peer
  and slices. `EachContributionOnce`: none twice, none
  missing. `SavedCopiesUnused`: what the copy-saving paths rely on.

### AllReduceNHR, Collective

`Program` is the list of tasks that `OrchestrateLoop` issues to each thread
through `KernelRun`: one operator per function of the template (`PreCopy`,
`RunReduceScatter`, `CopyMySlice`, `RunAllGather`, `PostCopy`) and per wrapper.
The device is three actions: a thread executes the record, wait or move that is
next in its program. Memory cells hold the set of contributions reduced into
them, so a contribution that is missing, doubled or stale shows. A record
`opt` holds the call: element counts of the rounds, DMA read, symmetric memory,
in place.

* `NoMemoryConflict`: two moves that may run at once never touch one cell
  unless both read (`CellsApart`), and a move that touches a rank's memory comes
  after all moves of earlier rounds that do (`RoundsInOrder`).
  `NoNotifyLost` covers the inter-thread notifies as well.
* `DeliversTheSum` refines `Collective`: after all ranks have entered a round
  and the main thread of a rank has passed it, the output is the sum over all
  ranks, stays so, and each round ends, under fairness; and the inputs survive
  (`InputKept`). All of it but the fairness is proved as well (section 5).
* `PlaysTheHandshake`: every step of the program is a step of
  `ChannelHandshake` for that channel, or none of its business. With it, what
  is proved there holds here; `ScheduleFits` proves that the NHR schedule meets
  `ScheduleAssumption`, which `MCAllReduceNHR` has TLC confirm.

Simplifications, and why they are sound:

* A move is all transfers of one step at once. Since `NoMemoryConflict` is
  checked on the whole move, a partial one cannot be observed.
* A scratch cell is named by rank, slice index and channel, alike in all rounds.
  In the code a slice lies at `idx * sliceSize_`, and `sliceSize_` depends on the
  count of the round (`ins_temp_all_reduce_nhr.cc:211`, 345, 407-414), so a slice
  of a short round overlaps other slices of the round before. Within a
  round the naming is exact. Between rounds `RoundsInOrder` says that nobody
  touches a rank's memory in a round while a move of an earlier one is still to
  come there, so the overlap is never a race, and `DeliversTheSum` that no sum
  holds what an earlier round left.
* The notify fused into the last descriptor is a record after the move; with
  no descriptor it is the record the code issues on its own
  (`alg_data_trans_wrapper.cc:236`), and `PlaysTheHandshake` misses either.
* Ports are taken to be equally wide; then a slice is split evenly with the rest
  on the last channel (`CalcDataSplitByPortGroupCommon`).
* Input or output that *is* the scratch buffer: no registered executor asks for
  it, so these branches of PreCopy and PostCopy are absent; so are the
  one-rank and empty-call early returns.
* Waits have no timeout. After a timeout the stream fails, and recovery is the
  HCOMM library's.

### CommWorker

A stretch of code under `mtx_` is an action; `asleep` is the set of threads
blocked in `cv_.wait`, `notify_all` empties it, and `SpuriousWakeup` removes
anyone at any time. The task body runs outside the mutex (`WorkerBinds`,
`WorkerRuns`) and may fail, throw, or itself call Submit (`NestedSubmit`).
`accepted`, `outcome`, `reply` are history variables for the properties.

* `ReturnsAfterRun`, `RunsOnce`, `NoTaskLost`, `EveryCallReturns` (the shutdown
  ends, too), `OwnResult`; `ResultIsAnOutcome` is proved.

`comm_worker.h:25` warns that a nested Submit deadlocks; the code refuses it with
`HCCL_E_INTERNAL` at once (`comm_worker.cc:37`), and so does the model.

### CommWorkerMgr

The manager and what it exists for: the negotiation context of a communicator,
which operations get or create (`GetNegotiationCtx`), whose buffers the
submitted task uses, and which `NegotiationCleanupCb` frees.

* A worker is reduced to what `CommWorker` promises: it accepts a task unless it is
  stopped or has one, answers the caller when the task is done, and ends when
  it is stopped and idle.
* `lock` is `mtx_` held for writing, over the actions between; a read lock is
  held within one action. `held` is the `shared_ptr` a thread has taken out of
  the map. `pc` names where a thread stands: `lookup`, `create`, `creating`,
  `submit`, `waiting` in `Submit`; `erase`, `erasing`, `shutdown`, `join`,
  `cleanup`, `destroy` in the callback and in the failure path of
  `GetNegotiationCtx`, which are the same calls; `swap`, `members`, `exited` in the
  destructor. The map, a member, is destroyed after the destructor's body, and
  with it workers that were started meanwhile (`DestroyMembers`).
* A running task may call Submit itself (`NestedSubmit`, once per task).
* A callback may come while operations on the same communicator are on their way
  to the worker they have found, or have a task in flight (`AtWorker`): the code
  provides for it (`comm_worker.cc:34`, `comm_worker_mgr.cc:89`).

Assumed: no operation *looks its worker up* while a callback on its communicator
runs. It would find none, start one and leave it behind, against the comment at
`ccu_fallback.cc:128` (no tag, no worker), and its task would use freed buffers:
nothing in `Submit` prevents it, so the callers and the HCOMM library have to.
Further: contexts of one communicator are created by one thread at a time, a
communicator has one device, a successful resumption changes nothing, and the
process exits when no operation is between two calls of the manager (one may be
waiting for its task).

* `NoTagNoWorker` (the invariant the code comments claim), `NoDanglingUse`,
  `OneWorkerPerComm`, `ExitLeavesNoThread`, `EveryoneReturns`.

### CcuFallback

How the ranks come to run the same algorithm. A call goes through `Selector`
(own choice, then the AllGather of configs unless the choice is in the
parameter cache), `HcclExecOp` (follow the fallback contexts), `HcclGetAlgRes`
(reuse or allocate, then the AllReduce MIN of the outcome), and back to
`FallbackOp` if some rank had no resources.

A rank only blocks in the two exchanges, and ranks share nothing else, so an
action is what a rank does from one exchange, or the start of a call, to the
next: `CallWithCache`, `CallWithGather`, `AfterGather`, `RunNegotiated`,
`FallBack`, `OnlyFails`, `Fails`; `Executes` is the part of `HcclExecOp` they end
in. The exchanges are `GatherCompletes` and `ReduceCompletes`, enabled when all
ranks have joined; that the right ones meet is a property, not an assumption.

* State per rank: parameter cache (`..._ccuParamCache`), fallback contexts
  (`..._fallback`, by algorithm), resource contexts (by algorithm and data
  type, which is what `algTag` distinguishes), and which of those still have
  their channels. `ran` is the history of what the rank has launched.
* A *kind* of call says what `Selector` picks on each rank and what `Select` picks from
  each config; `SelectsDownwards` is what `AutoSelectorBase::Select` guarantees.
  The program, a sequence of kinds, is the same on all ranks.
* Each allocation may succeed or not, on each rank independently, also for an
  algorithm that once had resources.
* Left out: a failing rank makes no further call (what it left half done is not
  looked at); HCOMM supports `HcclChannelDestroy`, as otherwise nothing is
  negotiated; all ranks are in CCU mode; the AIV roll-back and host DPU;
  resources of the AICPU, which are local.

* `Agreement`: the point of it all. `SameExchange`: two ranks that wait in an
  exchange wait in the same one. `EveryoneExchanges`: nobody gets past a call
  another rank is asking about. `LowestCommonConfig`,
  `StaleContextsShadowed`, `ProgramEnds`; `OnlyMeansOnly` is proved.

### HcclBarrier, Rendezvous

`Rendezvous` is a barrier as its caller knows it: ranks enter and leave, nobody
leaves before all have entered, and once all have, each leaves; a fast rank may
be in the next one while a slow rank has not left this one. `HcclBarrier` is the
list of notify records and waits that the two executors give to a rank's
thread, built from one operator per function: the wrappers with empty slice
lists, `RunNHRBarrier` (the same in the AICPU and the DPU template),
`RunBarrierMesh`, `Orchestrate`. Barriers are issued back to back on the stream
and use the same notifies.

A step is a wait with the records that follow it: a record never blocks, and its
register is set by one thread and cleared by one other. Servers have at most
two ranks in the DPU algorithm; a third would bring a second device thread with
the inter-thread notifies that `AllReduceNHR` models, and states in numbers TLC
does not get through.

* `IsABarrier` (refines `Rendezvous`, fairness included; a lost notify would
  leave somebody behind).

### OrderLaunch

An AICPU kernel holds a core of its device until the kernels of its peers run.
With fewer cores than communicators, one device that starts a before b and
another that starts b before a wait for each other. Therefore all communicators
of a device share one host order stream: it lets a kernel go with a notify to its
unfold stream, and waits for a notify that the running kernel records, before it
lets the next one go.

* The host of a device is at operation `next` and makes its calls one by one
  (`Call`): those of phase 1 (`ToOrderStream`), the launch (`Kernel`), those of phase
  2 (`ToKernelStream`). Each queues a task (`sent`) on the order stream of the mode or
  the unfold stream of the communicator (`On`). `CallFails` ends the operation at any
  call; the tasks queued so far stay, and the next operation may be called all the
  same.
* A stream executes its tasks in order (`Ready`, `done`): `ExecuteRecord`,
  `ExecuteWait`, `ExecuteEvent`. A kernel is `StartKernel` (a core, the communicator,
  then the order notify), `CheckCommStatus` (leaves if the communicator is suspended)
  and `EndKernel`; `RefuseKernel` is a kernel that cannot hold its communicator. A
  notify is one bit; `lost` remembers records that found it set.
* `grant` is what the library gives for the dedicated threads: none, the host's
  order thread only, or the device's, too. Without both there is no order; that no
  order is needed with more cores than communicators is what the code logs at
  line 219.

Assumed: the hosts of all devices call the operations in the same order, one
thread per device (`docs/zh/user_guide/api_comm_impl.md:38`); kernels wait for
their peers as the log at line 219 implies; events outlive the `OrderLaunch`
object that made them, as the runtime keeps them until they are executed. Not
modelled: the main stream's notify before and wait after an operation, which touch
neither stream; time-outs of the waits; which peers a send or receive has. Each
mode has an order stream of its own, so nothing orders a kernel of a captured graph
and one launched singly: `KernelsStartInOrder` says nothing across modes, and
`EveryKernelEnds` is about programs of one mode.

* `KernelsStartInOrder`: per device and mode. `NoNotifyLost`: the notifies stay
  paired, also after failures. Both exempt a device on which a failure has left
  half a pair (`Torn`): the code does not repair it. `EveryKernelEnds`: no circle,
  also with communicators that are suspended at any moment.

Both also suppose that operations which share an unfold stream share an order
stream, too (`Unmixed`), and the proofs show where they need it. A communicator has
one unfold stream with one notify for single and captured operations
(`order_launch.cc:153`), but each of the two modes has its own order stream. Let a
captured operation of b wait behind one of a, and b then launch a single one: the
single order stream, with nothing before it, records the notify of b's unfold stream,
the captured operation takes that record, and its kernel starts before a's. TLC finds
this in a few seconds when `Unmixed` is dropped and the program is `<<a captured, b
captured, b single>>`. Whether a program does that is up to the caller: tasks of a
captured graph run when the graph is replayed.

### AicpuContexts

The contexts that an operation on the AICPU or the host DPU keeps in the
communicator, and the copy its kernels keep on the device. `pc` is the next
platform call of the operation in progress (one thread calls), and every such
call may fail (`CallFails`), after which `RolledBack` says what the code takes
back:

| `pc` | Code | Action |
|---|---|---|
| `idle` | `TryReuseResource`, `GetAlgResAICPU` | `TryReuseResource`, `AllocResource`, `ReuseCachedDeviceCtx`, `IncrementalCreateChannel` |
| `threads`, `unfold` | `HcclGetAicpuThread` | `SaveMainThreadInfo`, `SaveUnfoldThreadInfo` |
| `channels` | `HcclGetChannel` | `HcclGetChannel` |
| `destroy`, `create`, `copy` | `IncrementalCreateChannel`, `HcclMemcpyCtxHostToDevice` | `DestroyDeviceCtx`, `CreateDeviceCtx`, `CopyToDeviceCtx` |
| `host` | `CacheHostCtxToEngine`, and the end of `IncrementalCreateChannel` | `CacheHostCtxToEngine` |
| `launch` | registration, lookups and launch in `HcclExecOp` | `LaunchKernel` |

A kernel is in a queue from its launch until it leaves early (`KernelLeaves`:
the communicator is suspended or cannot be had) or gets its context
(`KernelReads`), from the device's cache if `IsResCtxCacheReusable`, or else from
the context itself. A batch send-receive (`Incremental`) names other peers in each
call and never uses the cache. A context is reduced to the communicator it is of
(address and generation), the peers it has channels to, and whether it has been
written.

Assumed of the platform: a context is not created over an existing one of the
same name and engine (the repository's stubs refuse it:
`test/st/algorithm/utils/src/hccl_proxy/communicator/sim_context_manager.cc`); destroying one
fails only if it is not there, and waits for kernels that read it (the code does
not); a communicator recovered under its name has no contexts and no kernels
left, and may have the old one's address.

* `HostCacheMirrorsDevice`: between operations, after whatever failed, a host copy
  is what the device has. `KernelServed`: a kernel uses a written context of its
  own communicator, with channels to all its peers.

Three weak places the model shows. The first two are why `KernelServed` makes its
condition (`seeded`) for operations other than batch send-receive:

1. When the copy of a new context to the device fails (`op_common.cc:1922`) the
   context stays, and the next call takes it for a complete one (line 1552).
2. When the call that makes the context anew after a recovery fails before its
   kernel has read it, and the new communicator has the old one's address, the
   next kernel hits the entry of the old communicator. The code clears
   `cacheValid` for one call only.
3. The main thread's context is never taken back. After a failure between it and
   the device's context, each further call of that algorithm fails, because it
   cannot create the main thread's context again, until the communicator is made
   anew.

The roll-back with `param.engine` (lines 1859, 1869) leaves the device's context in
place on the host DPU, where it has another key. That is harmless for the two
properties: without a host copy the next call starts from the beginning, and fails
there by 3.

## 3. The runs

| Run | Instance | Distinct states | Shows |
|---|---|---|---|
| `handshake` | 4 ranks, 7 steps: the four NHR steps, a one-sided write, a one-sided read, another exchange | 22 068 | the handshake properties at any relative speed; every kind of step follows another |
| `nhr_tables` | rings of 2..33 ranks | 302 | the tables are right in lockstep |
| `hccl_barrier` | lines of 3 and 5 ranks (one not in order), 3 servers of 1 and of 2 ranks; 2 barriers | 24 116 | the barrier implements `Rendezvous` |
| `allreduce_nhr` | 4 ranks, 1 channel, 2 rounds | 33 295 | the template implements `Collective` and plays the handshake |
| `allreduce_nhr_threads` | 2 ranks, 2 threads each, all 12 modes | 53 520 | the inter-thread notifies order what they must, and none is lost |
| `comm_worker` | 2 callers, 2 calls each, 2 shutdowns | 204 872 | safety and liveness of the slot |
| `comm_worker_shared` | 2 callers | violation | see findings |
| `comm_worker_mgr` | 2 communicators, 2 operations, 1 callback, 3 workers, exit | 29 558 | workers and contexts live and die together |
| `ccu_fallback` | 2 ranks, 3 calls of 4 kinds, 3 ONLY settings, errors | 65 788 | all ranks run the same algorithm |
| `order_launch` | 2 devices, 1 or 3 cores, 2 communicators, 2 or 3 operations, 1 mishap | 242 806 | kernels start in order and end |
| `aicpu_contexts` | 2 algorithms, 3 ranks, 5 calls, 2 communicators at 2 addresses, both engines | 631 668 | context copies stay equal; kernels use the right one |
| `ccu_fallback_keys` | 2 ranks configured differently, 3 calls | violation | see findings |

**Bounds.** 33 is one above a power of two, so all roundings of slice counts
occur. Four ranks give two ReduceScatter and two AllGather steps with different
peers each, so a rank can be ahead of one neighbour and behind another; steps
beyond add nothing the proofs of `ChannelHandshake` do not cover. Two rounds
show the reuse of the scratch buffer, the second shorter than the ring has
ranks so that slices are empty and, in the code, lie elsewhere in the buffer. Two threads per rank are a main and a
subordinate. `U32` = 65536 stands for 2^32: TLC's integers have 32 bits, and
like 2^32 it is a power of two larger than four rings. In `CommWorker` two
callers are the least for which the slot is contended, and two shutdowns are
Remove followed by the destructor.

In `CcuFallback` the four kinds are: a call that one rank brings down from MS to
SCHED, the same in another data type (which shares its caches but not its
resources), a call all ranks make in MS, and one that selects the AICPU. Three
calls let a call meet the caches of one, and the fallback context of another,
earlier call; each rank's rules look at one other rank at most, and the proofs
cover any number. In `CommWorkerMgr` two operations race for the first worker,
a cleanup and an exit meet both, and three workers allow one to be started
again after a removal and one by a nested Submit. In `HcclBarrier` three ranks
give a ring in which the two neighbours differ, five one with three steps and
a rank order that is not the ring order; with two barriers every register is
used again.

In `OrderLaunch` two communicators on one core are the least that can block each
other; three operations use each notify again; a failure or a suspension meets two
single operations, the one it hits and one after it, or a captured one. Operations of one communicator share
both streams, those of two only one. Only one device has failures: the other shows
what they do to a device without.

In `AicpuContexts` one algorithm reuses its context and one extends it; they share
only the unfold thread. Two peers are the least for which channels are added to
channels. Five calls are one that makes the contexts, one that adds to them and
fails, and what comes after, also across a recovery.

**Deadlock** is checked in the handshake, AllReduce, barrier and AicpuContexts runs, with an
explicit stuttering step when all is done. CommWorker, CommWorkerMgr, CcuFallback
and OrderLaunch may really stop (nobody has to call; ranks and kernels fail), so
those runs switch it off; `EveryCallReturns`, `EveryoneReturns`, `ProgramEnds` and
`EveryKernelEnds` say what must not hang.

**Fairness.** Device threads execute the next task when it can run: weak
fairness per thread (per rank in `ChannelHandshake`). In `CommWorker`: the worker,
the joining thread and awakened callers are scheduled, and every task ends,
since the negotiation's stream wait has a timeout. Nobody has to call Submit or
Shutdown, and a spurious wake-up is never counted on. `EveryCallReturns` holds
because the number of calls is bounded: with endless competing callers, a
caller could find the slot taken again each time it wakes.
In `CommWorkerMgr` threads go on, tasks end, and the mutex does not starve a
thread that wants it again and again (strong fairness on the three actions that
take it): operations are few and hold it briefly. In `CcuFallback` a rank goes
on with its program and an exchange that all ranks have joined completes; no
fairness makes an exchange complete with a rank missing. In `HcclBarrier`
device threads and the DPU execute; when a rank calls is up to its program, so
`Rendezvous` does not promise that anybody enters. In `OrderLaunch` a device goes
on while its host has a call to make or a stream has a task it can execute; since
programs end, that is enough for every stream. No failure and no suspension is
counted on.

**Mutants.** Each property has a faulty variant of a definition that stands for
code (a dropped wait, an unwrapped index, a missing reset); TLC finds the
property violated when it is put in place. The variants stand in front of the
definition they vary and are marked *Faulty*.

## 4. Findings

1. `comm_worker.h:35` says Submit behaves "like a temporary thread and a join".
   With two calling threads it need not: Submit reads `result_` after it has
   the mutex again (`comm_worker.cc:51`), and a second caller that got it first
   has already replaced the result. Run `comm_worker_shared`; with one caller
   the statement holds (theorem `SerialCallersGetTheirOwnResult`).
2. `op_common.cc:240` says the ranks exchange their configs. The cache key that
   decides whether a rank takes part (`ccu_fallback.cc:543`) is its own
   selection, so a rank with fewer algorithms to choose from hits its cache
   while another misses, and the other waits in the AllGather alone. Run
   `ccu_fallback_keys`. If the selections of two kinds of call coincide on all
   ranks or on none (`KeysAligned`; in particular if all ranks are configured
   alike) it cannot happen (theorem `NobodySkips`).

## 5. The proofs

**ChannelHandshakeProofs**: for any set of ranks and any schedule with mutual
peers (`ScheduleAssumption`), `TypeOK`, `NoSignalLost`, `TransferGranted` and
`RegistersClean` are invariants. The properties alone are not inductive:
nothing in them says *why* a register is clear. `IInv` adds that a register is
set exactly when the recorder has passed the record of some step and the waiter
has not passed the wait of that same step. Clearness of a register before a
record then follows because the recorder has itself waited, earlier in the
program, for an answer that the waiter gives only after its wait. One lemma per
task shows that it preserves `IInv`.

**CommWorkerProofs**: for any number of callers, calls, shutdowns and result
codes, `TypeOK`, `ReturnsAfterRun`, `RunsOnce`, `NoTaskLost` and
`ResultIsAnOutcome` are invariants, and with a single caller `OwnResult`.
`IInv` ties the history to the slot: only the task in the slot may lack an
outcome, a busy worker works on that task, and a free slot keeps the result of
the task it held last. Assumption: `CommWorkerAssumption`, which only says that
the constants are what their comments say.

**CcuFallbackProofs**: for any ranks, algorithms, kinds and number of calls.
Whatever the keys: `TypeOK`, `StaleContextsShadowed`, `OnlyMeansOnly`. If
`KeysAligned`: `Agreement`, `SameExchange`, `EveryoneExchanges`,
`LowestCommonConfig`. Agreement is not inductive, since the ranks are in
different calls and exchanges at any moment and their caches differ. The
argument goes by an *effective state*: what a rank's caches, contexts and
history will be when its present step between two exchanges is complete. The
invariant `IInv` says that ranks which have completed the same number of calls and
exchanges have the same effective parameter cache (up to their own keys),
fallback contexts and resource contexts, that no rank is further than one
exchange ahead, and that each rank's own state is sound (`Sound`: outcomes are
never above selections, fallback contexts lead strictly down, so that two hops
settle). Exchanges are then left by all ranks in the same state (`GatherTogether`,
`ReduceTogether`), and every rank alone keeps in step with it (`Good...`).
Assumption: `FallbackAssumption`, what `Select` guarantees.

**CommWorkerMgrProofs**: for any number of communicators, calling threads,
callbacks, workers and operations, `TypeOK`, `NoTagNoWorker`, `NoDanglingUse`,
`OneWorkerPerComm` and `ExitLeavesNoThread` are invariants. None is inductive: each
speaks of workers and contexts, while what keeps them apart is where the *threads*
are. `IInv` says so. Whoever creates, shuts down or destroys a context is the only one
on its communicator, except for those who had found their worker before a callback
came (`Exclusion`); a worker whose thread runs has a usable context and is in the map or
with the thread that has taken it out (`Life`); the one who has taken it out is before
the join (`Removal`); a task runs on the context of the one who asked for it
(`Tasks`); the mutex belongs to the thread between its lock and unlock (`Mutex`);
contexts are counted against calls, so that a new one is always unused (`Counted`);
and after exit nobody starts a worker that is not in the exiter's hands (`Leaving`).
Assumption: `MgrAssumption`, that the kinds of threads are disjoint and the callers are finitely
many.

**OrderLaunchProofs**: for any devices, communicators, cores, programs and failures,
`TypeOK`, `KernelsStartInOrder` and `NoNotifyLost` are invariants. The first half of
`IInv` is about streams: they are first in first out (`Queued`, `Fifo`), and a kernel
runs when all before it is done (`KernelsInTurn`). The second half pairs the notifies:
one that is set belongs to an operation whose record is done and whose wait is not
(`TurnHeld` for the unfold streams, `KernelHeld` for the order streams), and no wait is
ahead of its record. A wait could take another operation's record only if that
operation is earlier, and then its own wait comes first on this stream, or later, and
then its record comes after ours on the order stream; the second is where `Unmixed` is
needed. That no record is lost takes both notifies together: the next record is behind
the wait for the kernel, which started only after the last record had been consumed.
Assumption: `OrderLaunchAssumption`, the shape of the instances.

**AicpuContextsProofs**: for any algorithms, ranks and communicators and after any
sequence of failures, `TypeOK`, `HostCacheMirrorsDevice` and `KernelServed` are
invariants. `HostCacheMirrorsDevice` is about idle moments only; `IInv` says what the
two copies are at each platform call in between (`Copies`, `Progress`), what the kernels
in the queue will find (`Queue`), and that from the first kernel that has read a new
context on the device's cache holds a complete one of this communicator
(`DeviceCache`). Assumptions: `ContextsAssumption`, the shape of the constants, and
`NoCtxAssumption`, that "no context" is no context.

**NHRLockstepProofs**: for every ring size, not only powers of two, `TablesAgree`,
`EachContributionOnce` and `SavedCopiesUnused` are invariants of the lockstep model.
`IInv` describes the memory by *offsets*, the distance of a rank up the ring from the
owner of a slice, 0 <= offset < N. After k steps of the ReduceScatter the copy at
offset o, if o is a multiple of 2^k, is the reduction of the ranks at offsets o to
o + 2^k - 1, cut off at N; a step joins two neighbouring stretches of that kind, which are
disjoint, and the last joins all into the owner's copy. The AllGather runs backwards
through the same multiples. The lemmas before it say what the tables compute: that a
rank receives exactly the slices of which its offset is an even multiple of the
distance and its peer's is inside the ring (`SliceSetIs`, `ScatterStep`, `GatherStep`),
that the unsigned subtraction never wraps on the indices a step uses (`SliceIdxIs`),
and that `StepNum` exists and is the least k with 2^k >= N (`StepNumIs`). Assumption:
`LockstepAssumption`, that u32 holds four times the largest ring. The induction theorems
of the library cannot be used here, since they take an operator; `SetInduction` states
induction for a set and is proved from the well ordering of Nat, and recursion
(`PrimitiveRecursion`) from it; that 2^(k+1) is twice 2^k (`PowerOfTwo`) comes from the
number of subsets of a finite set.

**AllReduceNHRProofs**: for any number of ranks and channels and for every call
(`Options`), `TypeOK`, `NoNotifyLost` and `NoMemoryConflict` are invariants and
`PlaysTheHandshake` holds; `ScheduleFits` proves what `ChannelHandshakeProofs` assumes of
a schedule, so its results are results about NHR. What the threads do to the memory is
proved as well: `InputSafe` (the inputs survive), `SumDelivered` (a rank that has passed
a round has the sum of all inputs in its output, from then on), `NoneEarly` (and by
then every rank has begun the round), and from these `Implements`: the templates and
the executor implement `Collective`, its fairness excepted. The proof has five layers.

1. *The programs.* The invariants are about where a thread is, but `pc` counts tasks of
   a program that the template's functions put together. A *mark* says what a place in
   a program means: the step of NHR, the phase of that step's handshake, and the crew,
   the threads of the rank between their start and their finish. `Follows` lists the
   tasks that may come next at a mark and the mark they lead to. Each function of the
   template is shown to issue tasks along marks (`PreCopyRun` ... `KernelRunRun`,
   `ProgramRun`); for a transfer, also that it stays in the cells of the slices of its step.
   From here on no proof looks at a program again.
2. *The notifies.* `Paired`: of the two notifies of an exchange (ACK and DATA of two
   ranks; start and finish of two threads) one is set exactly while the one side has
   opened it and the other has not taken it, and never both. Hence no record finds its
   register set (`NotifiesNotLost`).
3. *The ranks.* `InStep`: a rank past the ACK of a step has a peer that has granted it,
   and a peer cannot leave the step before its DATA has come. It is an invariant only
   together with `Paired`: a notify that is set could otherwise stem from an earlier
   step. Then two moves at one time meet in a cell only within a step of one channel,
   and there the tables give them different slices (`SlicesApart`), or within a rank,
   where the main thread copies other channels only with no crew (`Alone`).
   `RoundsInOrder` follows too (with `Turned` of layer 4): a thread at work in a round
   shows that every rank it touches has left the rounds before (`TouchedLeft`), and no
   move that is still to come in a round touches a rank that has left it (`LeftAlone`).
4. *The memory.* `Holds` says what the cells of one thread contain, given how many steps
   of the handshake have brought it their data (`Received`), how many local copies it
   has made and, with symmetric memory, how many its main thread has made for it. After e
   steps of a ReduceScatter the copy at offset o is the sum over the offsets o to
   o + 2^e - 1 (`ScatterShare`, the shape of `NHRLockstep`'s invariant), after j steps of
   an AllGather the multiples of 2^(StepNum-j) are whole sums (`GatherShare`); then come
   the last step that reads to the output (`OutRead`), PostCopy (`OutWritten`) and the
   input (`KeptRound`). In lockstep a step reads the memory of the step before. Here the
   peer may have received the data of its own step already, so `ScatterShare` also says
   what a rank has in the slices it sent last, and one lemma per kind of move shows that
   a move from a peer in either state does what it promises (`ScatterHolds`,
   `GatherHolds`, `PreCopyHolds`, `MySliceHolds`, `PostCopyHolds`). `Shares` is `Holds` of
   all threads. It is inductive with `IInv` and with `Turned`, that the main thread and
   another of its rank have started and finished equally often: that is why the main
   thread's copies for the others, and its end of the round, come after their parts
   (`Delivers`).
5. *The calls.* `Originates`: what a cell holds stems from a rank that has begun the
   round, or has not left the input. A sum holds an input of every rank, so whoever
   delivers is not early. The ends and the beginnings of the rounds of a thread are
   different tasks (`RoundsApart`), so a task enters one round, delivers one, or does
   neither (`CollectiveStep`).

`IInv` is `HaveType /\ Paired /\ InStep`. The arithmetic of the tables for ring sizes
that are no power of two comes from `NHRLockstepProofs`. Assumptions: `NHRAssumption`
(N > 1, at least one channel, at most `MaxRounds` rounds of which none is longer than
the first, one with symmetric memory) and `ScheduleSize` (a 32-bit index holds four
times the ring).

**Only model-checked**: liveness, with it the fairness in `DeliversTheSum`, that is
that the rounds end (TLAPS does not prove it here: it would need ENABLED; the rest of
that property is proved); the refinement and `TypeOK` of `HcclBarrier`.

## 6. Not modelled, and the plan

In order:

1. The task cache of the AICPU kernels, and contexts in graph (OFFLOAD) mode.
2. That peers in `HcclBarrier` are mutual, with which its notifies are a case of
   `ChannelHandshake`, and the safety part of its refinement of `Rendezvous`.
3. Operations that find a negotiation context half made, and ranks that call
   again after an error: the models assume the caller does neither.
4. The other NHR, mesh and recursive-doubling templates over the same wrappers;
   omnipipe slices against a reference definition.
5. The ring and all-to-all barriers of the template base
   (`alg_template_base.cc`): no AICPU template calls them.

The models cover a small part of the repository's lines on purpose. Most of the
other lines are variants of one algorithm for another collective, engine or
topology, whose tasks go through the wrappers modelled here, resource
calculation and argument checks without state.

Not planned: CCU microcode and AIV kernels (engine semantics outside the
repository), topology discovery (reads an external graph), logging, parsing and
configuration.

## 7. Running

```
tlc -workers 2 -config MCCommWorker.cfg MCCommWorker
tlapm ChannelHandshakeProofs.tla
tlapm NHRLockstepProofs.tla
tlapm AllReduceNHRProofs.tla        # some 15 minutes
tlapm CommWorkerProofs.tla
tlapm CcuFallbackProofs.tla
tlapm CommWorkerMgrProofs.tla
tlapm OrderLaunchProofs.tla
tlapm AicpuContextsProofs.tla
```
