--------------------------- MODULE AicpuContexts ---------------------------
(***************************************************************************)
(* The resource contexts of operations on the AICPU and on the host DPU    *)
(* (op_common/op_common.cc: TryReuseResource to SaveUnfoldThreadInfo), and *)
(* the cache in which the kernels keep them (aicpu/kernel_launch.cc).      *)
(*                                                                         *)
(* The communicator keeps named contexts.  The first call of an algorithm  *)
(* acquires threads and channels, writes them to the device and launches a *)
(* kernel that reads them; later calls find the context and launch only.   *)
(* A batch send-receive names other peers every time: it keeps a second    *)
(* copy on the host, adds the channels it misses and writes the device's   *)
(* again.  Every call of the platform may fail.                            *)
(*                                                                         *)
(* One thread calls; kernels run later, in order.  The communicator may be *)
(* recovered: its contexts are gone, its name is the same, the address of  *)
(* the new one may be that of the old.  The kernels' cache lives on.       *)
(* Single operators (OPBASE); an algTag stands for its algorithm.          *)
(***************************************************************************)
EXTENDS Integers, Sequences

CONSTANTS
  Tags,         (* algTags                                                 *)
  Incremental,  (* those of batch send-receive                             *)
  Ranks, Me,    (* the ranks, and the one that calls                       *)
  Handles,      (* addresses a communicator may have                       *)
  NoCtx,        (* no context, nothing cached, nothing run                 *)
  MaxCalls,     (* bound: calls                                            *)
  MaxComms      (* bound: communicators of this name, one after the other  *)

ASSUME ContextsAssumption ==
  /\ Incremental \subseteq Tags /\ Me \in Ranks
  /\ Handles # {} /\ "unfold" \notin Tags
  /\ MaxCalls \in Nat /\ MaxComms \in Nat \ {0}

Peers == Ranks \ {Me}

(* A context is found by name and engine.  SaveMainThreadInfo uses the     *)
(* algTag on the host, the resources the algTag on the device.             *)
MainThread(t) == <<t, "CPU_TS">>
Device(t)     == <<t, "AICPU_TS">>
HostCache(t)  == <<t, "hostCache">>
UnfoldThread  == <<"unfold", "CPU_TS">>
Keys == Tags \X {"CPU_TS", "AICPU_TS", "CPU", "hostCache"} \cup {UnfoldThread}

(* What a context holds: the communicator, by address and by generation,   *)
(* the peers it has channels to, and whether it has been written.          *)
Resources == [comm: Handles, born: 1..MaxComms, peers: SUBSET Peers, written: BOOLEAN]

ASSUME NoCtxAssumption == NoCtx \notin Resources

VARIABLES
  handle,    (* the communicator's address                                 *)
  born,      (* its generation                                             *)
  engine,    (* param.engine: AICPU_TS, or CPU for the host DPU            *)
  ctx,       (* the communicator's contexts                                *)
  pc,        (* the next platform call of the operation in progress        *)
  call,      (* that operation                                             *)
  calls,     (* operations so far                                          *)
  kernels,   (* kernels launched and not run, oldest first                 *)
  cache,     (* g_cacheManager: per algTag the context kept on the device  *)
  seeded,    (* history: tags of which a kernel has read the new context   *)
  ran        (* history: the last kernel and the context it used           *)

commVars == <<handle, born, engine>>
deviceVars == <<kernels, cache, seeded, ran>>
vars == <<commVars, ctx, pc, call, calls, deviceVars>>

Calls == [tag: Tags, need: SUBSET Peers, grown: BOOLEAN, reused: BOOLEAN, res: Resources]
Kernels == [tag: Tags, need: SUBSET Peers, cacheValid: BOOLEAN, comm: Handles]
Runs == [tag: Tags, need: SUBSET Peers, used: Resources]

Empty == [comm |-> handle, born |-> born, peers |-> {}, written |-> FALSE]

Init ==
  /\ handle \in Handles /\ born = 1 /\ engine \in {"AICPU_TS", "CPU"}
  /\ ctx = [k \in Keys |-> NoCtx]
  /\ pc = "idle" /\ calls = 0
  /\ call \in [tag: Tags, need: {{}}, grown: {FALSE}, reused: {FALSE}, res: {Empty}]
  /\ kernels = <<>>
  /\ cache = [t \in Tags |-> NoCtx]
  /\ seeded = {} /\ ran = NoCtx

Exists(k) == ctx[k] # NoCtx

Without(keys) == [k \in Keys |-> IF k \in keys THEN NoCtx ELSE ctx[k]]

-----------------------------------------------------------------------------
(* Faulty: the caller is not left out. *)
RequestWithSelf(t, items) == IF t \in Incremental THEN items ELSE Ranks

(* The call's items name ranks; CalcRes leaves out the caller.  All other  *)
(* algorithms are taken to need every peer.                                *)
Request(t, items) == (IF t \in Incremental THEN items ELSE Ranks) \ {Me}

(* HcclExecOp for tag t starts; its next platform call is where. *)
Starts(t, need, where, grown, reused, res) ==
  /\ pc = "idle" /\ calls < MaxCalls
  /\ calls' = calls + 1
  /\ call' = [tag |-> t, need |-> need, grown |-> grown, reused |-> reused, res |-> res]
  /\ pc' = where
  /\ UNCHANGED <<commVars, ctx, deviceVars>>

(* The context is there: nothing to allocate. *)
TryReuseResource(t) ==
  /\ t \notin Incremental /\ Exists(Device(t))
  /\ Starts(t, Request(t, Ranks), "launch", FALSE, TRUE, ctx[Device(t)])

(* No context, or none on the host to compare with. *)
AllocResource(t, items) ==
  /\ ~ Exists(IF t \in Incremental THEN HostCache(t) ELSE Device(t))
  /\ Starts(t, Request(t, items), "threads", FALSE, FALSE, Empty)

(* Batch send-receive with channels to all its peers. *)
ReuseCachedDeviceCtx(t, items) ==
  /\ t \in Incremental /\ Exists(HostCache(t))
  /\ Request(t, items) \subseteq ctx[HostCache(t)].peers
  /\ Starts(t, Request(t, items), IF Exists(Device(t)) THEN "launch" ELSE "idle",
            FALSE, FALSE, ctx[HostCache(t)])

(* Batch send-receive that misses channels to some. *)
IncrementalCreateChannel(t, items) ==
  /\ t \in Incremental /\ Exists(HostCache(t))
  /\ ~ Request(t, items) \subseteq ctx[HostCache(t)].peers
  /\ Starts(t, Request(t, items), "channels", TRUE, FALSE, ctx[HostCache(t)])

(* The operation's next platform call succeeds. *)
Goes(where, newCtx, res) ==
  /\ pc' = where
  /\ ctx' = newCtx
  /\ call' = [call EXCEPT !.res = res]
  /\ UNCHANGED <<commVars, calls, deviceVars>>

(* HcclEngineCtxCreate refuses a key that is taken. *)
Creates(k, r, where) ==
  /\ ~ Exists(k)
  /\ Goes(where, [ctx EXCEPT ![k] = r], call.res)

ThreadInfo == [Empty EXCEPT !.written = TRUE]

SaveMainThreadInfo ==
  /\ pc = "threads"
  /\ Creates(MainThread(call.tag), ThreadInfo,
             IF Exists(UnfoldThread) THEN "channels" ELSE "unfold")

SaveUnfoldThreadInfo ==
  /\ pc = "unfold"
  /\ Creates(UnfoldThread, ThreadInfo, "channels")

(* The channels that are missing, after those there were. *)
HcclGetChannel ==
  /\ pc = "channels"
  /\ Goes(IF call.grown THEN "destroy" ELSE "create", ctx,
          [call.res EXCEPT !.peers = @ \cup call.need, !.written = TRUE])

(* Device memory is freed when no kernel is left that reads it. *)
DestroyDeviceCtx ==
  /\ pc = "destroy" /\ kernels = <<>>
  /\ Goes("create", Without({Device(call.tag)}), call.res)

CreateDeviceCtx ==
  /\ pc = "create"
  /\ Creates(Device(call.tag), Empty, "copy")

(* Written; a host copy that is there is out of date and goes. *)
CopyToDeviceCtx ==
  /\ pc = "copy"
  /\ Goes(IF call.tag \in Incremental THEN "host" ELSE "launch",
          [Without(IF call.grown THEN {HostCache(call.tag)} ELSE {})
             EXCEPT ![Device(call.tag)] = call.res],
          call.res)

CacheHostCtxToEngine ==
  /\ pc = "host"
  /\ Creates(HostCache(call.tag), call.res, "launch")

(* Faulty: the copy on the host outlives the device's context. *)
RolledBackDeviceOnly ==
  CASE pc = "host" /\ call.grown   -> {<<call.tag, engine>>}
    [] pc = "host" /\ ~ call.grown -> {Device(call.tag)}
    [] OTHER                       -> {}

(* What a failing call takes back: the copy on the host when the device's  *)
(* could not be renewed, the device's when there is no copy on the host,   *)
(* though under param.engine when channels were added.                     *)
RolledBack ==
  CASE pc \in {"create", "copy"} /\ call.grown -> {HostCache(call.tag)}
    [] pc = "host" /\ call.grown               -> {<<call.tag, engine>>}
    [] pc = "host" /\ ~ call.grown             -> {Device(call.tag)}
    [] OTHER                                   -> {}

(* Any call but a destroy may fail, and one that finds its key taken does. *)
(* Before the launch the parameters are compared with the peers' and the   *)
(* operation is registered, which may fail too.                            *)
CallFails ==
  /\ pc \notin {"idle", "destroy"}
  /\ Goes("idle", Without(RolledBack), call.res)

(* The threads to notify and to launch on are looked up. *)
LaunchKernel ==
  /\ pc = "launch"
  /\ Exists(MainThread(call.tag)) /\ Exists(UnfoldThread)
  /\ kernels' = Append(kernels, [tag |-> call.tag, need |-> call.need,
                                 cacheValid |-> call.reused, comm |-> handle])
  /\ pc' = "idle"
  /\ UNCHANGED <<commVars, ctx, call, calls, cache, seeded, ran>>

-----------------------------------------------------------------------------
(* The communicator is suspended or cannot be had: the kernel returns.     *)
KernelLeaves ==
  /\ kernels # <<>>
  /\ kernels' = Tail(kernels)
  /\ UNCHANGED <<commVars, ctx, pc, call, calls, cache, seeded, ran>>

(* Faulty: the address is taken to tell communicators apart. *)
IsResCtxCacheReusableByAddress(cached, k) == cached.comm = k.comm

IsResCtxCacheReusable(cached, k) == k.cacheValid /\ cached.comm = k.comm

(* What GetResCtxWithCache gives to kernel k. *)
ResCtx(k) ==
  IF /\ k.tag \notin Incremental /\ cache[k.tag] # NoCtx
     /\ IsResCtxCacheReusable(cache[k.tag], k)
  THEN cache[k.tag]
  ELSE ctx[Device(k.tag)]

(* The kernel gets its context; all but batch send-receive keep it.        *)
KernelReads ==
  /\ kernels # <<>>
  /\ LET k == Head(kernels)
     IN  /\ cache' = IF k.tag \in Incremental THEN cache
                     ELSE [cache EXCEPT ![k.tag] = ResCtx(k)]
         /\ seeded' = IF k.cacheValid THEN seeded ELSE seeded \cup {k.tag}
         /\ ran' = [tag |-> k.tag, need |-> k.need, used |-> ResCtx(k)]
  /\ kernels' = Tail(kernels)
  /\ UNCHANGED <<commVars, ctx, pc, call, calls>>

(* The communicator is destroyed and made again under the same name. *)
Recover ==
  /\ pc = "idle" /\ kernels = <<>> /\ born < MaxComms
  /\ handle' \in Handles
  /\ born' = born + 1
  /\ ctx' = [k \in Keys |-> NoCtx]
  /\ seeded' = {} /\ ran' = NoCtx
  /\ UNCHANGED <<engine, pc, call, calls, kernels, cache>>

Finished == pc = "idle" /\ kernels = <<>> /\ calls = MaxCalls /\ UNCHANGED vars

HcclExecOp ==
  \/ \E t \in Tags : TryReuseResource(t)
  \/ \E t \in Tags, items \in SUBSET Ranks :
       AllocResource(t, items) \/ ReuseCachedDeviceCtx(t, items) \/ IncrementalCreateChannel(t, items)
  \/ SaveMainThreadInfo \/ SaveUnfoldThreadInfo \/ HcclGetChannel
  \/ DestroyDeviceCtx \/ CreateDeviceCtx \/ CopyToDeviceCtx \/ CacheHostCtxToEngine
  \/ CallFails \/ LaunchKernel

Next == HcclExecOp \/ KernelLeaves \/ KernelReads \/ Recover \/ Finished

Spec == Init /\ [][Next]_vars

-----------------------------------------------------------------------------
(* Types: contexts are of this communicator, and nobody has a channel to   *)
(* itself, though a batch send-receive may name its own rank.              *)
TypeOK ==
  /\ handle \in Handles /\ born \in 1..MaxComms /\ engine \in {"AICPU_TS", "CPU"}
  /\ ctx \in [Keys -> Resources \cup {NoCtx}]
  /\ \A k \in Keys : Exists(k) => ctx[k].comm = handle /\ ctx[k].born = born
  /\ pc \in {"idle", "threads", "unfold", "channels", "destroy", "create", "copy",
             "host", "launch"}
  /\ call \in Calls /\ calls \in 0..MaxCalls
  /\ kernels \in Seq(Kernels)
  /\ cache \in [Tags -> Resources \cup {NoCtx}]
  /\ seeded \subseteq Tags /\ ran \in Runs \cup {NoCtx}

(* Between operations the copy on the host, if there is one, is what the   *)
(* device has: so no later call adds channels to an older list or launches *)
(* with a context half written.  It is so after a failure of any step of   *)
(* GetAlgResAICPU, on either engine.                                       *)
HostCacheMirrorsDevice ==
  pc = "idle" =>
    \A t \in Incremental : Exists(HostCache(t)) => ctx[Device(t)] = ctx[HostCache(t)]

(* A kernel uses a written context of its own communicator with channels   *)
(* to all its peers, whatever failed before, and whatever the device keeps *)
(* from an earlier communicator.  For operations that keep the context on  *)
(* the device it takes that the first kernel after the context was made    *)
(* got as far as reading it.                                               *)
KernelServed ==
  ran # NoCtx /\ ran.tag \in Incremental \cup seeded =>
    /\ ran.used # NoCtx /\ ran.used.written
    /\ ran.used.born = born
    /\ ran.need \subseteq ran.used.peers
=============================================================================
