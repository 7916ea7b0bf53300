------------------------ MODULE AicpuContextsProofs ------------------------
(***************************************************************************)
(* Proofs about AicpuContexts for any number of algorithms, ranks, calls   *)
(* and communicators: types, the equality of the context copies on host    *)
(* and device, and that kernels are served with complete contexts.  The    *)
(* inductive invariant IInv says what the operation in progress has done   *)
(* so far, what each kernel in the queue will find on the device, and what *)
(* the kernels' cache holds of this communicator.                          *)
(***************************************************************************)
EXTENDS AicpuContexts, SequenceTheorems, TLAPS

(* Context r can serve an operation that talks to the ranks in need. *)
Complete(r, need) ==
  r # NoCtx /\ r.written /\ r.born = born /\ need \subseteq r.peers

(* Where the operation in progress has to find no copy on the host: it     *)
(* makes its contexts anew, or has taken the old copy away.                *)
NoHostCopy ==
  \/ pc \in {"threads", "unfold", "host"}
  \/ pc \in {"channels", "create", "copy"} /\ ~ call.grown

(* The two copies differ only while one is being renewed; and a copy on    *)
(* the host is complete.                                                   *)
Copies ==
  /\ \A t \in Incremental : Exists(HostCache(t)) =>
       /\ ctx[HostCache(t)].written
       /\ \/ ctx[Device(t)] = ctx[HostCache(t)]
          \/ t = call.tag /\ call.grown /\ pc \in {"create", "copy"}
  /\ NoHostCopy /\ call.tag \in Incremental => ~ Exists(HostCache(call.tag))

(* What the operation in progress knows of its contexts.                   *)
Progress ==
  /\ pc # "idle" => call.res.comm = handle /\ call.res.born = born
  /\ pc \notin {"idle", "launch"} => ~ call.reused
  /\ call.grown => call.tag \in Incremental
  /\ call.reused => call.tag \notin Incremental
  /\ pc # "idle" /\ call.tag \notin Incremental => call.need = Peers
  /\ pc = "destroy" => call.grown
  /\ pc \in {"create", "copy", "destroy", "host"} => Complete(call.res, call.need)
  /\ pc = "host" => call.tag \in Incremental /\ ctx[Device(call.tag)] = call.res
  /\ pc = "launch" => Exists(Device(call.tag))
  /\ pc = "launch" /\ ~ call.reused => Complete(ctx[Device(call.tag)], call.need)

(* A kernel in the queue finds a context of its own; and one that may not  *)
(* use the cache finds it complete.                                        *)
Queue ==
  \A n \in 1..Len(kernels) :
    LET k == kernels[n]
    IN  /\ Exists(Device(k.tag))
        /\ k.comm = handle
        /\ k.cacheValid => k.tag \notin Incremental
        /\ k.tag \notin Incremental => k.need = Peers
        /\ ~ k.cacheValid => Complete(ctx[Device(k.tag)], k.need)
        /\ pc \in {"copy", "host"} => k.tag # call.tag

(* Once the first kernel has read the context the cache has it. *)
DeviceCache ==
  \A t \in seeded \ Incremental :
    Complete(cache[t], Peers) /\ cache[t].comm = handle

IInv == TypeOK /\ Copies /\ Progress /\ Queue /\ DeviceCache /\ KernelServed

-----------------------------------------------------------------------------
(* The names of the contexts differ. *)
LEMMA KeyFacts ==
  ASSUME NEW t \in Tags
  PROVE  /\ Device(t) \in Keys /\ HostCache(t) \in Keys
         /\ MainThread(t) \in Keys /\ UnfoldThread \in Keys
         /\ \A u : /\ Device(t) = Device(u) => t = u
                   /\ HostCache(t) = HostCache(u) => t = u
                   /\ Device(t) # HostCache(u) /\ HostCache(t) # Device(u)
                   /\ Device(t) # MainThread(u) /\ HostCache(t) # MainThread(u)
                   /\ <<t, "CPU">> # Device(u) /\ <<t, "CPU">> # HostCache(u)
                   /\ <<t, "AICPU_TS">> = Device(t)
         /\ Device(t) # UnfoldThread /\ HostCache(t) # UnfoldThread
BY DEF Device, HostCache, MainThread, UnfoldThread, Keys

(* An empty context is a resource of this communicator. *)
LEMMA EmptyFacts ==
  ASSUME TypeOK
  PROVE  /\ Empty \in Resources /\ Empty.comm = handle /\ Empty.born = born
         /\ ThreadInfo \in Resources /\ ThreadInfo.comm = handle /\ ThreadInfo.born = born
BY DEF TypeOK, Empty, ThreadInfo, Resources

(* Initially there is nothing. *)
LEMMA InitIInv == Init => IInv
<1> SUFFICES ASSUME Init PROVE IInv
  OBVIOUS
<1>1. Empty \in Resources
  BY ContextsAssumption DEF Init, Empty, Resources
<1>2. TypeOK
  <2>1. call \in Calls
    BY <1>1 DEF Init, Calls
  <2>2. kernels \in Seq(Kernels)
    BY DEF Init
  <2>3. /\ ctx \in [Keys -> Resources \cup {NoCtx}]
        /\ \A k \in Keys : Exists(k) => ctx[k].comm = handle /\ ctx[k].born = born
    BY DEF Init, Exists
  <2> QED
    BY <2>1, <2>2, <2>3, ContextsAssumption DEF Init, TypeOK
<1>3. Copies
  BY KeyFacts, ContextsAssumption DEF Init, Copies, Exists, NoHostCopy
<1>4. Progress
  <2>1. pc = "idle" /\ ~ call.grown /\ ~ call.reused
    BY DEF Init
  <2> QED
    BY <2>1 DEF Progress
<1>5. Queue
  BY DEF Init, Queue
<1>6. DeviceCache /\ KernelServed
  BY DEF Init, DeviceCache, KernelServed
<1> QED
  BY <1>2, <1>3, <1>4, <1>5, <1>6 DEF IInv

-----------------------------------------------------------------------------
(* The four ways in which an operation starts. *)
LEMMA RequestFacts ==
  ASSUME NEW t \in Tags, NEW items \in SUBSET Ranks
  PROVE  /\ Request(t, items) \in SUBSET Peers
         /\ t \notin Incremental => Request(t, items) = Peers
BY DEF Request, Peers

(* What is common to them: nothing but the operation in progress changes. *)
LEMMA StartsTypes ==
  ASSUME TypeOK, NEW t \in Tags, NEW need \in SUBSET Peers, NEW grown \in BOOLEAN,
         NEW reused \in BOOLEAN, NEW res \in Resources,
         NEW where \in {"idle", "threads", "channels", "launch"},
         Starts(t, need, where, grown, reused, res)
  PROVE  TypeOK'
<1> USE DEF Starts, commVars, deviceVars
<1>1. call' \in Calls
  BY DEF Calls
<1>2. calls' \in 0..MaxCalls
  BY ContextsAssumption DEF TypeOK
<1> QED
  BY <1>1, <1>2 DEF TypeOK, Exists

LEMMA TryReusePreserves ==
  ASSUME IInv, NEW t \in Tags, TryReuseResource(t)
  PROVE  IInv'
<1> USE DEF IInv
<1> DEFINE need == Request(t, Ranks)
<1>1. need = Peers /\ t \notin Incremental /\ Exists(Device(t))
  BY RequestFacts DEF TryReuseResource
<1>2. Starts(t, need, "launch", FALSE, TRUE, ctx[Device(t)])
  BY DEF TryReuseResource
<1>3. ctx[Device(t)] \in Resources /\ ctx[Device(t)].comm = handle /\ ctx[Device(t)].born = born
  BY <1>1, KeyFacts DEF TypeOK, Exists
<1>4. TypeOK'
  BY <1>1, <1>2, <1>3, StartsTypes
<1> HIDE DEF need
<1>5. /\ pc = "idle" /\ pc' = "launch" /\ UNCHANGED <<handle, born, ctx, kernels, cache, seeded, ran>>
      /\ call'.tag = t /\ call'.need = need /\ ~ call'.grown /\ call'.reused
      /\ call'.res = ctx[Device(t)]
  BY <1>2 DEF Starts, commVars, deviceVars
<1>6. Copies'
  BY <1>5 DEF Copies, NoHostCopy, Exists
<1>7. Progress'
  BY <1>1, <1>3, <1>5 DEF Progress, Exists, Complete
<1>8. Queue' /\ DeviceCache' /\ KernelServed'
  BY <1>5 DEF Queue, DeviceCache, KernelServed, Complete, Exists
<1> QED
  BY <1>4, <1>6, <1>7, <1>8

LEMMA AllocResourcePreserves ==
  ASSUME IInv, NEW t \in Tags, NEW items \in SUBSET Ranks, AllocResource(t, items)
  PROVE  IInv'
<1> USE DEF IInv
<1> DEFINE need == Request(t, items)
<1>1. /\ need \in SUBSET Peers
      /\ t \notin Incremental => need = Peers
      /\ t \in Incremental => ~ Exists(HostCache(t))
  BY RequestFacts DEF AllocResource
<1>2. Starts(t, need, "threads", FALSE, FALSE, Empty)
  BY DEF AllocResource
<1>4. TypeOK'
  BY <1>1, <1>2, EmptyFacts, StartsTypes
<1> HIDE DEF need
<1>5. /\ pc = "idle" /\ pc' = "threads" /\ UNCHANGED <<handle, born, ctx, kernels, cache, seeded, ran>>
      /\ call'.tag = t /\ call'.need = need /\ ~ call'.grown /\ ~ call'.reused
      /\ call'.res = Empty
  BY <1>2 DEF Starts, commVars, deviceVars
<1>6. Copies'
  BY <1>1, <1>5 DEF Copies, NoHostCopy, Exists
<1>7. Progress'
  BY <1>1, <1>5, EmptyFacts DEF Progress
<1>8. Queue' /\ DeviceCache' /\ KernelServed'
  BY <1>5 DEF Queue, DeviceCache, KernelServed, Complete, Exists
<1> QED
  BY <1>4, <1>6, <1>7, <1>8

LEMMA ReuseCachedPreserves ==
  ASSUME IInv, NEW t \in Tags, NEW items \in SUBSET Ranks, ReuseCachedDeviceCtx(t, items)
  PROVE  IInv'
<1> USE DEF IInv
<1> DEFINE need == Request(t, items)
           where == IF Exists(Device(t)) THEN "launch" ELSE "idle"
<1>1. /\ need \in SUBSET Peers /\ t \in Incremental /\ Exists(HostCache(t))
      /\ need \subseteq ctx[HostCache(t)].peers
  BY RequestFacts DEF ReuseCachedDeviceCtx
<1>2. Starts(t, need, where, FALSE, FALSE, ctx[HostCache(t)])
  BY DEF ReuseCachedDeviceCtx
<1>3. /\ ctx[HostCache(t)] \in Resources
      /\ ctx[HostCache(t)].comm = handle /\ ctx[HostCache(t)].born = born
  BY <1>1, KeyFacts DEF TypeOK, Exists
<1>4. TypeOK'
  BY <1>1, <1>2, <1>3, StartsTypes
<1> HIDE DEF need
<1>5. /\ pc = "idle" /\ pc' = where /\ UNCHANGED <<handle, born, ctx, kernels, cache, seeded, ran>>
      /\ call'.tag = t /\ call'.need = need /\ ~ call'.grown /\ ~ call'.reused
      /\ call'.res = ctx[HostCache(t)]
  BY <1>2 DEF Starts, commVars, deviceVars
<1>6. Copies'
  BY <1>5 DEF Copies, NoHostCopy, Exists
<1>7. Progress'
  <2>1. ctx[Device(t)] = ctx[HostCache(t)] /\ ctx[HostCache(t)].written
    BY <1>1, <1>5 DEF Copies
  <2>2. Complete(ctx[Device(t)], need)
    BY <1>1, <1>3, <2>1 DEF Complete, Exists
  <2> QED
    BY <1>1, <1>3, <1>5, <2>2 DEF Progress, Exists, Complete
<1>8. Queue' /\ DeviceCache' /\ KernelServed'
  BY <1>5 DEF Queue, DeviceCache, KernelServed, Complete, Exists
<1> QED
  BY <1>4, <1>6, <1>7, <1>8

LEMMA IncrementalPreserves ==
  ASSUME IInv, NEW t \in Tags, NEW items \in SUBSET Ranks, IncrementalCreateChannel(t, items)
  PROVE  IInv'
<1> USE DEF IInv
<1> DEFINE need == Request(t, items)
<1>1. need \in SUBSET Peers /\ t \in Incremental /\ Exists(HostCache(t))
  BY RequestFacts DEF IncrementalCreateChannel
<1>2. Starts(t, need, "channels", TRUE, FALSE, ctx[HostCache(t)])
  BY DEF IncrementalCreateChannel
<1>3. /\ ctx[HostCache(t)] \in Resources
      /\ ctx[HostCache(t)].comm = handle /\ ctx[HostCache(t)].born = born
  BY <1>1, KeyFacts DEF TypeOK, Exists
<1>4. TypeOK'
  BY <1>1, <1>2, <1>3, StartsTypes
<1> HIDE DEF need
<1>5. /\ pc = "idle" /\ pc' = "channels" /\ UNCHANGED <<handle, born, ctx, kernels, cache, seeded, ran>>
      /\ call'.tag = t /\ call'.need = need /\ call'.grown /\ ~ call'.reused
      /\ call'.res = ctx[HostCache(t)]
  BY <1>2 DEF Starts, commVars, deviceVars
<1>6. Copies'
  BY <1>5 DEF Copies, NoHostCopy, Exists
<1>7. Progress'
  BY <1>1, <1>3, <1>5 DEF Progress
<1>8. Queue' /\ DeviceCache' /\ KernelServed'
  BY <1>5 DEF Queue, DeviceCache, KernelServed, Complete, Exists
<1> QED
  BY <1>4, <1>6, <1>7, <1>8

-----------------------------------------------------------------------------
(* A platform call that succeeds changes contexts and the operation's own  *)
(* context only; the types hold if both are of this communicator.          *)
LEMMA GoesTypes ==
  ASSUME TypeOK, NEW where, NEW newCtx, NEW res, Goes(where, newCtx, res),
         where \in {"idle", "threads", "unfold", "channels", "destroy", "create",
                    "copy", "host", "launch"},
         newCtx \in [Keys -> Resources \cup {NoCtx}],
         \A k \in Keys : newCtx[k] # NoCtx => newCtx[k].comm = handle /\ newCtx[k].born = born,
         res \in Resources
  PROVE  TypeOK'
<1>1. call' \in Calls
  BY DEF TypeOK, Goes, Calls
<1> QED
  BY <1>1 DEF TypeOK, Goes, commVars, deviceVars, Exists

(* What such a call leaves alone. *)
LEMMA GoesFacts ==
  ASSUME TypeOK, NEW where, NEW newCtx, NEW res, Goes(where, newCtx, res)
  PROVE  /\ pc' = where /\ ctx' = newCtx
         /\ UNCHANGED <<handle, born, engine, kernels, cache, seeded, ran>>
         /\ call'.tag = call.tag /\ call'.need = call.need /\ call'.grown = call.grown
         /\ call'.reused = call.reused /\ call'.res = res
BY DEF TypeOK, Goes, Calls, commVars, deviceVars

(* The operation's algorithm and context, and those of the kernels. *)
LEMMA CallFacts == TypeOK => call.tag \in Tags /\ call.need \in SUBSET Peers /\ call.res \in Resources
BY DEF TypeOK, Calls

LEMMA KernelFacts ==
  ASSUME TypeOK, NEW n \in 1..Len(kernels)
  PROVE  kernels[n] \in Kernels /\ kernels[n].tag \in Tags
<1>1. kernels[n] \in Kernels
  BY ElementOfSeq DEF TypeOK
<1> QED
  BY <1>1 DEF Kernels

(* SaveMainThreadInfo and SaveUnfoldThreadInfo write neither copy. *)
LEMMA ThreadInfoPreserves ==
  ASSUME IInv, NEW k0 \in Keys, NEW where \in {"channels", "unfold"},
         pc \in {"threads", "unfold"},
         \A t \in Tags : Device(t) # k0 /\ HostCache(t) # k0,
         Goes(where, [ctx EXCEPT ![k0] = ThreadInfo], call.res)
  PROVE  IInv'
<1> USE DEF IInv
<1> DEFINE newCtx == [ctx EXCEPT ![k0] = ThreadInfo]
<1>2. call.tag \in Tags /\ call.res \in Resources
  BY CallFacts
<1>3. /\ newCtx \in [Keys -> Resources \cup {NoCtx}]
      /\ \A k \in Keys : newCtx[k] # NoCtx => newCtx[k].comm = handle /\ newCtx[k].born = born
  BY <1>2, EmptyFacts DEF TypeOK, Exists
<1>4. TypeOK'
  BY <1>2, <1>3, GoesTypes
<1>5. \A t \in Tags : newCtx[Device(t)] = ctx[Device(t)] /\ newCtx[HostCache(t)] = ctx[HostCache(t)]
  BY <1>2, KeyFacts DEF TypeOK
<1>6. /\ pc' = where /\ ctx' = newCtx
      /\ UNCHANGED <<handle, born, engine, kernels, cache, seeded, ran>>
      /\ call'.tag = call.tag /\ call'.need = call.need /\ call'.grown = call.grown
      /\ call'.reused = call.reused /\ call'.res = call.res
  BY GoesFacts
<1> HIDE DEF newCtx
<1>7. Copies'
  BY <1>2, <1>5, <1>6, ContextsAssumption DEF Copies, NoHostCopy, Exists
<1>8. Progress'
  BY <1>2, <1>5, <1>6 DEF Progress, Exists, Complete
<1>9. Queue'
  BY <1>5, <1>6, KernelFacts DEF Queue, Complete, Exists
<1>10. DeviceCache' /\ KernelServed'
  BY <1>6 DEF DeviceCache, KernelServed, Complete
<1> QED
  BY <1>4, <1>7, <1>8, <1>9, <1>10

LEMMA SaveThreadsPreserves ==
  ASSUME IInv, SaveMainThreadInfo \/ SaveUnfoldThreadInfo
  PROVE  IInv'
<1>1. call.tag \in Tags
  BY CallFacts DEF IInv
<1>2. \A t \in Tags : /\ Device(t) # MainThread(call.tag) /\ HostCache(t) # MainThread(call.tag)
                      /\ Device(t) # UnfoldThread /\ HostCache(t) # UnfoldThread
  BY KeyFacts
<1>3. CASE SaveMainThreadInfo
  BY <1>1, <1>2, <1>3, KeyFacts, ThreadInfoPreserves DEF SaveMainThreadInfo, Creates
<1>4. CASE SaveUnfoldThreadInfo
  BY <1>1, <1>2, <1>4, KeyFacts, ThreadInfoPreserves DEF SaveUnfoldThreadInfo, Creates
<1> QED
  BY <1>3, <1>4

LEMMA GetChannelPreserves ==
  ASSUME IInv, HcclGetChannel
  PROVE  IInv'
<1> USE DEF IInv
<1> DEFINE where == IF call.grown THEN "destroy" ELSE "create"
           res == [call.res EXCEPT !.peers = @ \cup call.need, !.written = TRUE]
<1>1. pc = "channels" /\ Goes(where, ctx, res)
  BY DEF HcclGetChannel
<1>2. /\ call.tag \in Tags /\ res \in Resources /\ res.comm = call.res.comm /\ res.born = call.res.born
      /\ res.written /\ call.need \subseteq res.peers
  BY CallFacts DEF Resources
<1>3. /\ ctx \in [Keys -> Resources \cup {NoCtx}]
      /\ \A k \in Keys : ctx[k] # NoCtx => ctx[k].comm = handle /\ ctx[k].born = born
  BY DEF TypeOK, Exists
<1>4. TypeOK'
  BY <1>1, <1>2, <1>3, GoesTypes
<1>5. /\ pc' = where /\ ctx' = ctx
      /\ UNCHANGED <<handle, born, engine, kernels, cache, seeded, ran>>
      /\ call'.tag = call.tag /\ call'.need = call.need /\ call'.grown = call.grown
      /\ call'.reused = call.reused /\ call'.res = res
  BY <1>1, GoesFacts
<1> HIDE DEF res
<1>6. Copies'
  BY <1>1, <1>5 DEF Copies, NoHostCopy, Exists
<1>7. Progress'
  BY <1>1, <1>2, <1>5, NoCtxAssumption DEF Progress, Exists, Complete
<1>8. Queue' /\ DeviceCache' /\ KernelServed'
  BY <1>1, <1>5 DEF Queue, DeviceCache, KernelServed, Complete, Exists
<1> QED
  BY <1>4, <1>6, <1>7, <1>8

LEMMA WithoutFacts ==
  ASSUME TypeOK, NEW keys
  PROVE  /\ Without(keys) \in [Keys -> Resources \cup {NoCtx}]
         /\ \A k \in Keys : Without(keys)[k] = IF k \in keys THEN NoCtx ELSE ctx[k]
         /\ \A k \in Keys : Without(keys)[k] # NoCtx =>
              Without(keys)[k].comm = handle /\ Without(keys)[k].born = born
BY DEF TypeOK, Without, Exists

LEMMA DestroyPreserves ==
  ASSUME IInv, DestroyDeviceCtx
  PROVE  IInv'
<1> USE DEF IInv
<1> DEFINE newCtx == Without({Device(call.tag)})
<1>1. pc = "destroy" /\ kernels = <<>> /\ Goes("create", newCtx, call.res)
  BY DEF DestroyDeviceCtx
<1>2. call.tag \in Tags /\ call.res \in Resources
  BY CallFacts
<1>3. /\ newCtx \in [Keys -> Resources \cup {NoCtx}]
      /\ \A k \in Keys : newCtx[k] # NoCtx => newCtx[k].comm = handle /\ newCtx[k].born = born
  BY WithoutFacts
<1>4. TypeOK'
  BY <1>1, <1>2, <1>3, GoesTypes
<1>5. \A t \in Tags : /\ newCtx[HostCache(t)] = ctx[HostCache(t)]
                      /\ t # call.tag => newCtx[Device(t)] = ctx[Device(t)]
  <2> SUFFICES ASSUME NEW t \in Tags
               PROVE  /\ newCtx[HostCache(t)] = ctx[HostCache(t)]
                      /\ t # call.tag => newCtx[Device(t)] = ctx[Device(t)]
    OBVIOUS
  <2>1. /\ HostCache(t) \in Keys /\ Device(t) \in Keys
        /\ HostCache(t) \notin {Device(call.tag)}
        /\ t # call.tag => Device(t) \notin {Device(call.tag)}
    BY <1>2, KeyFacts
  <2> QED
    BY <2>1, WithoutFacts
<1>6. /\ pc' = "create" /\ ctx' = newCtx
      /\ UNCHANGED <<handle, born, engine, kernels, cache, seeded, ran>>
      /\ call'.tag = call.tag /\ call'.need = call.need /\ call'.grown = call.grown
      /\ call'.reused = call.reused /\ call'.res = call.res
  BY <1>1, GoesFacts
<1> HIDE DEF newCtx
<1>7. Copies'
  BY <1>1, <1>2, <1>5, <1>6, ContextsAssumption DEF Copies, NoHostCopy, Exists, Progress
<1>8. Progress'
  BY <1>1, <1>6 DEF Progress, Complete
<1>9. Queue'
  BY <1>1, <1>6 DEF Queue
<1>10. DeviceCache' /\ KernelServed'
  BY <1>6 DEF DeviceCache, KernelServed, Complete
<1> QED
  BY <1>4, <1>7, <1>8, <1>9, <1>10

LEMMA CreateDevicePreserves ==
  ASSUME IInv, CreateDeviceCtx
  PROVE  IInv'
<1> USE DEF IInv
<1> DEFINE newCtx == [ctx EXCEPT ![Device(call.tag)] = Empty]
<1>1. pc = "create" /\ ~ Exists(Device(call.tag)) /\ Goes("copy", newCtx, call.res)
  BY DEF CreateDeviceCtx, Creates
<1>2. call.tag \in Tags /\ call.res \in Resources /\ Device(call.tag) \in Keys
  BY CallFacts, KeyFacts
<1>3. /\ newCtx \in [Keys -> Resources \cup {NoCtx}]
      /\ \A k \in Keys : newCtx[k] # NoCtx => newCtx[k].comm = handle /\ newCtx[k].born = born
  BY <1>2, EmptyFacts DEF TypeOK, Exists
<1>4. TypeOK'
  BY <1>1, <1>2, <1>3, GoesTypes
<1>5. \A t \in Tags : /\ newCtx[HostCache(t)] = ctx[HostCache(t)]
                      /\ t # call.tag => newCtx[Device(t)] = ctx[Device(t)]
  BY <1>2, KeyFacts DEF TypeOK
<1>6. /\ pc' = "copy" /\ ctx' = newCtx
      /\ UNCHANGED <<handle, born, engine, kernels, cache, seeded, ran>>
      /\ call'.tag = call.tag /\ call'.need = call.need /\ call'.grown = call.grown
      /\ call'.reused = call.reused /\ call'.res = call.res
  BY <1>1, GoesFacts
<1> HIDE DEF newCtx
<1>7. Copies'
  BY <1>1, <1>2, <1>5, <1>6, ContextsAssumption DEF Copies, NoHostCopy, Exists
<1>8. Progress'
  BY <1>1, <1>6 DEF Progress, Complete
<1>9. Queue'
  BY <1>1, <1>5, <1>6, KernelFacts DEF Queue, Complete, Exists
<1>10. DeviceCache' /\ KernelServed'
  BY <1>6 DEF DeviceCache, KernelServed, Complete
<1> QED
  BY <1>4, <1>7, <1>8, <1>9, <1>10

LEMMA CopyPreserves ==
  ASSUME IInv, CopyToDeviceCtx
  PROVE  IInv'
<1> USE DEF IInv
<1> DEFINE gone == IF call.grown THEN {HostCache(call.tag)} ELSE {}
           newCtx == [Without(gone) EXCEPT ![Device(call.tag)] = call.res]
           where == IF call.tag \in Incremental THEN "host" ELSE "launch"
<1>1. pc = "copy" /\ Goes(where, newCtx, call.res)
  BY DEF CopyToDeviceCtx
<1>2. /\ call.tag \in Tags /\ call.res \in Resources /\ Device(call.tag) \in Keys
      /\ HostCache(call.tag) \in Keys
  BY CallFacts, KeyFacts
<1>3. /\ newCtx \in [Keys -> Resources \cup {NoCtx}]
      /\ \A k \in Keys : newCtx[k] # NoCtx => newCtx[k].comm = handle /\ newCtx[k].born = born
  BY <1>1, <1>2, WithoutFacts DEF Progress
<1>4. TypeOK'
  BY <1>1, <1>2, <1>3, GoesTypes
<1>5. /\ newCtx[Device(call.tag)] = call.res
      /\ call.grown => newCtx[HostCache(call.tag)] = NoCtx
      /\ ~ call.grown => newCtx[HostCache(call.tag)] = ctx[HostCache(call.tag)]
      /\ \A t \in Tags : t # call.tag =>
           newCtx[HostCache(t)] = ctx[HostCache(t)] /\ newCtx[Device(t)] = ctx[Device(t)]
  BY <1>2, KeyFacts, WithoutFacts
<1>6. /\ pc' = where /\ ctx' = newCtx
      /\ UNCHANGED <<handle, born, engine, kernels, cache, seeded, ran>>
      /\ call'.tag = call.tag /\ call'.need = call.need /\ call'.grown = call.grown
      /\ call'.reused = call.reused /\ call'.res = call.res
  BY <1>1, GoesFacts
<1> HIDE DEF newCtx
<1>7. Copies'
  BY <1>1, <1>2, <1>5, <1>6, ContextsAssumption DEF Copies, NoHostCopy, Exists
<1>8. Progress'
  BY <1>1, <1>2, <1>5, <1>6, NoCtxAssumption DEF Progress, Complete, Exists
<1>9. Queue'
  BY <1>1, <1>5, <1>6, KernelFacts DEF Queue, Complete, Exists
<1>10. DeviceCache' /\ KernelServed'
  BY <1>6 DEF DeviceCache, KernelServed, Complete
<1> QED
  BY <1>4, <1>7, <1>8, <1>9, <1>10

LEMMA CacheHostPreserves ==
  ASSUME IInv, CacheHostCtxToEngine
  PROVE  IInv'
<1> USE DEF IInv
<1> DEFINE newCtx == [ctx EXCEPT ![HostCache(call.tag)] = call.res]
<1>1. pc = "host" /\ Goes("launch", newCtx, call.res)
  BY DEF CacheHostCtxToEngine, Creates
<1>2. call.tag \in Tags /\ call.res \in Resources /\ HostCache(call.tag) \in Keys
  BY CallFacts, KeyFacts
<1>3. /\ newCtx \in [Keys -> Resources \cup {NoCtx}]
      /\ \A k \in Keys : newCtx[k] # NoCtx => newCtx[k].comm = handle /\ newCtx[k].born = born
  BY <1>1, <1>2 DEF TypeOK, Exists, Progress
<1>4. TypeOK'
  BY <1>1, <1>2, <1>3, GoesTypes
<1>5. /\ newCtx[HostCache(call.tag)] = call.res
      /\ \A t \in Tags : /\ newCtx[Device(t)] = ctx[Device(t)]
                         /\ t # call.tag => newCtx[HostCache(t)] = ctx[HostCache(t)]
  BY <1>2, KeyFacts DEF TypeOK
<1>6. /\ pc' = "launch" /\ ctx' = newCtx
      /\ UNCHANGED <<handle, born, engine, kernels, cache, seeded, ran>>
      /\ call'.tag = call.tag /\ call'.need = call.need /\ call'.grown = call.grown
      /\ call'.reused = call.reused /\ call'.res = call.res
  BY <1>1, GoesFacts
<1> HIDE DEF newCtx
<1>7. Copies'
  BY <1>1, <1>2, <1>5, <1>6, ContextsAssumption DEF Copies, NoHostCopy, Exists, Progress, Complete
<1>8. Progress'
  BY <1>1, <1>2, <1>5, <1>6, NoCtxAssumption DEF Progress, Complete, Exists
<1>9. Queue'
  BY <1>1, <1>5, <1>6, KernelFacts DEF Queue, Complete, Exists
<1>10. DeviceCache' /\ KernelServed'
  BY <1>6 DEF DeviceCache, KernelServed, Complete
<1> QED
  BY <1>4, <1>7, <1>8, <1>9, <1>10

LEMMA FailurePreserves ==
  ASSUME IInv, CallFails
  PROVE  IInv'
<1> USE DEF IInv
<1> DEFINE newCtx == Without(RolledBack)
<1>1. pc \notin {"idle", "destroy"} /\ Goes("idle", newCtx, call.res)
  BY DEF CallFails
<1>2. call.tag \in Tags /\ call.res \in Resources
  BY CallFacts
<1>3. /\ newCtx \in [Keys -> Resources \cup {NoCtx}]
      /\ \A k \in Keys : newCtx[k] # NoCtx => newCtx[k].comm = handle /\ newCtx[k].born = born
  BY WithoutFacts
<1>4. TypeOK'
  BY <1>1, <1>2, <1>3, GoesTypes
<1>5. /\ \A t \in Tags : t # call.tag =>
           newCtx[HostCache(t)] = ctx[HostCache(t)] /\ newCtx[Device(t)] = ctx[Device(t)]
      /\ pc \in {"create", "copy"} /\ call.grown => newCtx[HostCache(call.tag)] = NoCtx
      /\ ~ (pc \in {"create", "copy"} /\ call.grown) =>
           newCtx[HostCache(call.tag)] = ctx[HostCache(call.tag)]
      /\ pc # "host" => newCtx[Device(call.tag)] = ctx[Device(call.tag)]
  <2>1. \A k \in RolledBack : k \in {HostCache(call.tag), Device(call.tag), <<call.tag, "CPU">>}
    BY <1>2 DEF RolledBack, TypeOK, Device
  <2>2. pc \in {"create", "copy"} /\ call.grown => HostCache(call.tag) \in RolledBack
    BY DEF RolledBack
  <2>3. ~ (pc \in {"create", "copy"} /\ call.grown) => HostCache(call.tag) \notin RolledBack
    BY <1>2 DEF RolledBack, TypeOK, Device, HostCache
  <2>4. pc # "host" => Device(call.tag) \notin RolledBack
    BY <1>2, KeyFacts DEF RolledBack
  <2> QED
    BY <1>2, <2>1, <2>2, <2>3, <2>4, KeyFacts, WithoutFacts
<1>6. /\ pc' = "idle" /\ ctx' = newCtx
      /\ UNCHANGED <<handle, born, engine, kernels, cache, seeded, ran>>
      /\ call'.tag = call.tag /\ call'.need = call.need /\ call'.grown = call.grown
      /\ call'.reused = call.reused /\ call'.res = call.res
  BY <1>1, GoesFacts
<1> HIDE DEF newCtx
<1>7. Copies'
  BY <1>1, <1>2, <1>5, <1>6, ContextsAssumption DEF Copies, NoHostCopy, Exists
<1>8. Progress'
  BY <1>1, <1>6 DEF Progress
<1>9. Queue'
  BY <1>1, <1>5, <1>6, KernelFacts DEF Queue, Complete, Exists
<1>10. DeviceCache' /\ KernelServed'
  BY <1>6 DEF DeviceCache, KernelServed, Complete
<1> QED
  BY <1>4, <1>7, <1>8, <1>9, <1>10

-----------------------------------------------------------------------------
(* A launched kernel joins the queue: it finds a context, a complete one   *)
(* when the operation did not take an existing context as it was.          *)
LEMMA LaunchPreserves ==
  ASSUME IInv, LaunchKernel
  PROVE  IInv'
<1> USE DEF IInv
<1> DEFINE k0 == [tag |-> call.tag, need |-> call.need, cacheValid |-> call.reused, comm |-> handle]
<1>1. /\ pc = "launch" /\ pc' = "idle" /\ kernels' = Append(kernels, k0)
      /\ UNCHANGED <<handle, born, engine, ctx, call, calls, cache, seeded, ran>>
  BY DEF LaunchKernel, commVars
<1>2. k0 \in Kernels
  BY DEF TypeOK, Calls, Kernels
<1>3. kernels' \in Seq(Kernels)
  BY <1>1, <1>2, AppendProperties DEF TypeOK
<1>4. /\ Len(kernels') = Len(kernels) + 1 /\ Len(kernels) \in Nat
      /\ \A n \in 1..Len(kernels) : kernels'[n] = kernels[n]
      /\ kernels'[Len(kernels) + 1] = k0
  BY <1>1, <1>2, AppendProperties, LenProperties DEF TypeOK
<1>5. TypeOK'
  BY <1>1, <1>3 DEF TypeOK, Exists
<1>6. Copies' /\ Progress' /\ DeviceCache' /\ KernelServed'
  BY <1>1 DEF Copies, NoHostCopy, Progress, DeviceCache, KernelServed, Complete, Exists
<1>7. Queue'
  <2> SUFFICES ASSUME NEW n \in 1..Len(kernels')
               PROVE  /\ Exists(Device(kernels'[n].tag))
                      /\ kernels'[n].comm = handle
                      /\ kernels'[n].cacheValid => kernels'[n].tag \notin Incremental
                      /\ kernels'[n].tag \notin Incremental => kernels'[n].need = Peers
                      /\ ~ kernels'[n].cacheValid =>
                           Complete(ctx[Device(kernels'[n].tag)], kernels'[n].need)
    BY <1>1 DEF Queue, Exists, Complete
  <2>1. CASE n \in 1..Len(kernels)
    BY <1>4, <2>1 DEF Queue
  <2>2. CASE n = Len(kernels) + 1
    <3>1. kernels'[n] = k0
      BY <1>4, <2>2
    <3> QED
      BY <1>1, <3>1 DEF Progress
  <2> QED
    BY <1>4, <2>1, <2>2
<1> QED
  BY <1>5, <1>6, <1>7

(* Taking the first kernel off the queue keeps what is known of the rest.  *)
LEMMA TailFacts ==
  ASSUME IInv, kernels # <<>>
  PROVE  /\ Tail(kernels) \in Seq(Kernels) /\ Len(kernels) \in Nat \ {0}
         /\ Head(kernels) = kernels[1] /\ 1 \in 1..Len(kernels)
         /\ Len(Tail(kernels)) = Len(kernels) - 1
         /\ \A n \in 1..Len(Tail(kernels)) :
              n + 1 \in 1..Len(kernels) /\ Tail(kernels)[n] = kernels[n + 1]
<1>1. kernels \in Seq(Kernels)
  BY DEF IInv, TypeOK
<1>2. /\ Tail(kernels) \in Seq(Kernels) /\ Len(Tail(kernels)) = Len(kernels) - 1
      /\ \A n \in 1..Len(Tail(kernels)) : Tail(kernels)[n] = kernels[n + 1]
  BY <1>1, HeadTailProperties
<1>3. Len(kernels) \in Nat \ {0} /\ Head(kernels) = kernels[1]
  BY <1>1, HeadTailProperties, EmptySeq, LenProperties
<1> QED
  BY <1>2, <1>3

LEMMA TailQueue ==
  ASSUME IInv, kernels # <<>>, kernels' = Tail(kernels),
         UNCHANGED <<handle, born, ctx, pc, call>>
  PROVE  Queue'
<1> SUFFICES ASSUME NEW n \in 1..Len(kernels')
             PROVE  /\ Exists(Device(kernels'[n].tag))
                    /\ kernels'[n].comm = handle
                    /\ kernels'[n].cacheValid => kernels'[n].tag \notin Incremental
                    /\ kernels'[n].tag \notin Incremental => kernels'[n].need = Peers
                    /\ ~ kernels'[n].cacheValid =>
                         Complete(ctx[Device(kernels'[n].tag)], kernels'[n].need)
                    /\ pc \in {"copy", "host"} => kernels'[n].tag # call.tag
  BY DEF Queue, Exists, Complete
<1>1. n + 1 \in 1..Len(kernels) /\ kernels'[n] = kernels[n + 1]
  BY TailFacts
<1> QED
  BY <1>1 DEF IInv, Queue

LEMMA LeavesPreserves ==
  ASSUME IInv, KernelLeaves
  PROVE  IInv'
<1>1. /\ kernels # <<>> /\ kernels' = Tail(kernels)
      /\ UNCHANGED <<handle, born, engine, ctx, pc, call, calls, cache, seeded, ran>>
  BY DEF KernelLeaves, commVars
<1>2. TypeOK'
  BY <1>1, TailFacts DEF IInv, TypeOK, Exists
<1>3. Copies' /\ Progress' /\ DeviceCache' /\ KernelServed'
  BY <1>1 DEF IInv, Copies, NoHostCopy, Progress, DeviceCache, KernelServed, Complete, Exists
<1>4. Queue'
  BY <1>1, TailQueue
<1> QED
  BY <1>2, <1>3, <1>4 DEF IInv

(* The context the first kernel gets: of this communicator and complete,   *)
(* if it is the first since the context was made or a later one after it.  *)
LEMMA ResCtxFacts ==
  ASSUME IInv, kernels # <<>>
  PROVE  LET k == Head(kernels)
         IN  /\ k \in Kernels /\ ResCtx(k) \in Resources
             /\ k.tag \notin Incremental => k.need = Peers
             /\ k.cacheValid => k.tag \notin Incremental
             /\ ~ k.cacheValid => Complete(ctx[Device(k.tag)], k.need)
             /\ ~ k.cacheValid \/ k.tag \in seeded => Complete(ResCtx(k), k.need)
             /\ k.tag \in seeded \/ ~ k.cacheValid => ResCtx(k).comm = handle
<1> DEFINE k == Head(kernels)
<1>1. 1 \in 1..Len(kernels) /\ k = kernels[1]
  BY TailFacts
<1>2. k \in Kernels /\ k.tag \in Tags /\ k.cacheValid \in BOOLEAN /\ Device(k.tag) \in Keys
  BY <1>1, KernelFacts, KeyFacts DEF IInv, Kernels
<1>3. /\ Exists(Device(k.tag)) /\ k.comm = handle
      /\ k.cacheValid => k.tag \notin Incremental
      /\ k.tag \notin Incremental => k.need = Peers
      /\ ~ k.cacheValid => Complete(ctx[Device(k.tag)], k.need)
  BY <1>1 DEF IInv, Queue
<1> HIDE DEF k
<1>4. ctx[Device(k.tag)] \in Resources /\ ctx[Device(k.tag)].comm = handle
  BY <1>2, <1>3 DEF IInv, TypeOK, Exists
<1>5. cache[k.tag] \in Resources \cup {NoCtx}
  BY <1>2 DEF IInv, TypeOK
<1>6. ResCtx(k) \in Resources
  BY <1>4, <1>5 DEF ResCtx
<1>7. ~ k.cacheValid => ResCtx(k) = ctx[Device(k.tag)]
  BY DEF ResCtx, IsResCtxCacheReusable
<1>8. ASSUME k.cacheValid, k.tag \in seeded
      PROVE  Complete(ResCtx(k), k.need) /\ ResCtx(k).comm = handle
  <2>1. k.tag \in seeded \ Incremental /\ k.need = Peers
    BY <1>3, <1>8
  <2>2. Complete(cache[k.tag], Peers) /\ cache[k.tag].comm = handle
    BY <2>1 DEF IInv, DeviceCache
  <2>3. ResCtx(k) = cache[k.tag]
    BY <1>3, <1>8, <2>1, <2>2 DEF ResCtx, IsResCtxCacheReusable, Complete
  <2> QED
    BY <2>1, <2>2, <2>3
<1>9. /\ ~ k.cacheValid \/ k.tag \in seeded => Complete(ResCtx(k), k.need)
      /\ k.tag \in seeded \/ ~ k.cacheValid => ResCtx(k).comm = handle
  BY <1>2, <1>3, <1>4, <1>7, <1>8
<1> QED
  BY <1>2, <1>3, <1>6, <1>9 DEF k

(* A kernel that reads is served, and leaves the cache as the kernels that *)
(* follow need it.                                                         *)
LEMMA ReadsPreserves ==
  ASSUME IInv, KernelReads
  PROVE  IInv'
<1> DEFINE k == Head(kernels)
           r == ResCtx(k)
<1>1. /\ kernels # <<>> /\ kernels' = Tail(kernels)
      /\ UNCHANGED <<handle, born, engine, ctx, pc, call, calls>>
      /\ cache' = IF k.tag \in Incremental THEN cache ELSE [cache EXCEPT ![k.tag] = r]
      /\ seeded' = IF k.cacheValid THEN seeded ELSE seeded \cup {k.tag}
      /\ ran' = [tag |-> k.tag, need |-> k.need, used |-> r]
  BY DEF KernelReads, commVars
<1>2. /\ k \in Kernels /\ r \in Resources
      /\ k.tag \notin Incremental => k.need = Peers
      /\ k.cacheValid => k.tag \notin Incremental
      /\ ~ k.cacheValid \/ k.tag \in seeded => Complete(r, k.need) /\ r.comm = handle
  BY <1>1, ResCtxFacts
<1> HIDE DEF k, r
<1>3. k.tag \in Tags /\ k.need \in SUBSET Peers /\ k.cacheValid \in BOOLEAN
  BY <1>2 DEF Kernels
<1>4. seeded' \subseteq Tags /\ ran' \in Runs /\ cache' \in [Tags -> Resources \cup {NoCtx}]
  BY <1>1, <1>2, <1>3 DEF IInv, TypeOK, Runs
<1>5. TypeOK'
  BY <1>1, <1>4, TailFacts DEF IInv, TypeOK, Exists
<1>6. Copies' /\ Progress'
  BY <1>1 DEF IInv, Copies, NoHostCopy, Progress, Complete, Exists
<1>7. Queue'
  BY <1>1, TailQueue
<1>8. DeviceCache'
  <2> SUFFICES ASSUME NEW t \in seeded' \ Incremental
               PROVE  Complete(cache'[t], Peers) /\ cache'[t].comm = handle
    BY <1>1 DEF DeviceCache, Complete
  <2>1. CASE t = k.tag
    <3>1. ~ k.cacheValid \/ k.tag \in seeded
      BY <1>1, <2>1
    <3>2. cache'[t] = r
      BY <1>1, <1>3, <2>1 DEF IInv, TypeOK
    <3> QED
      BY <1>2, <2>1, <3>1, <3>2
  <2>2. CASE t # k.tag
    <3>1. t \in seeded \ Incremental
      BY <1>1, <2>2
    <3>2. cache'[t] = cache[t]
      BY <1>1, <1>3, <2>2, <3>1 DEF IInv, TypeOK
    <3> QED
      BY <3>1, <3>2 DEF IInv, DeviceCache
  <2> QED
    BY <2>1, <2>2
<1>9. KernelServed'
  <2> SUFFICES ASSUME k.tag \in Incremental \cup seeded'
               PROVE  Complete(r, k.need)
    BY <1>1 DEF KernelServed, Complete
  <2> QED
    BY <1>1, <1>2, <1>3
<1> QED
  BY <1>5, <1>6, <1>7, <1>8, <1>9 DEF IInv

(* A communicator that is made again starts with nothing; what the cache   *)
(* holds of the one before counts for nothing.                             *)
LEMMA RecoverPreserves ==
  ASSUME IInv, Recover
  PROVE  IInv'
<1>1. /\ pc = "idle" /\ pc' = pc /\ kernels = <<>> /\ kernels' = <<>>
      /\ handle' \in Handles /\ born < MaxComms /\ born' = born + 1
      /\ ctx' = [k \in Keys |-> NoCtx] /\ seeded' = {} /\ ran' = NoCtx
      /\ UNCHANGED <<engine, call, calls, cache>>
  BY DEF Recover
<1>2. born' \in 1..MaxComms
  BY <1>1, ContextsAssumption DEF IInv, TypeOK
<1>3. TypeOK'
  BY <1>1, <1>2 DEF IInv, TypeOK, Exists
<1>4. Copies'
  BY <1>1, KeyFacts, CallFacts, ContextsAssumption DEF IInv, Copies, NoHostCopy, Exists
<1>5. Progress'
  BY <1>1 DEF IInv, Progress
<1>6. Queue' /\ DeviceCache' /\ KernelServed'
  BY <1>1 DEF Queue, DeviceCache, KernelServed
<1> QED
  BY <1>3, <1>4, <1>5, <1>6 DEF IInv

-----------------------------------------------------------------------------
LEMMA NextIInv == IInv /\ [Next]_vars => IInv'
<1> SUFFICES ASSUME IInv, [Next]_vars PROVE IInv'
  OBVIOUS
<1>1. CASE \E t \in Tags : TryReuseResource(t)
  BY <1>1, TryReusePreserves
<1>2. CASE \E t \in Tags, items \in SUBSET Ranks :
             AllocResource(t, items) \/ ReuseCachedDeviceCtx(t, items) \/ IncrementalCreateChannel(t, items)
  BY <1>2, AllocResourcePreserves, ReuseCachedPreserves, IncrementalPreserves
<1>3. CASE SaveMainThreadInfo \/ SaveUnfoldThreadInfo
  BY <1>3, SaveThreadsPreserves
<1>4. CASE HcclGetChannel
  BY <1>4, GetChannelPreserves
<1>5. CASE DestroyDeviceCtx
  BY <1>5, DestroyPreserves
<1>6. CASE CreateDeviceCtx
  BY <1>6, CreateDevicePreserves
<1>7. CASE CopyToDeviceCtx
  BY <1>7, CopyPreserves
<1>8. CASE CacheHostCtxToEngine
  BY <1>8, CacheHostPreserves
<1>9. CASE CallFails
  BY <1>9, FailurePreserves
<1>10. CASE LaunchKernel
  BY <1>10, LaunchPreserves
<1>11. CASE KernelLeaves
  BY <1>11, LeavesPreserves
<1>12. CASE KernelReads
  BY <1>12, ReadsPreserves
<1>13. CASE Recover
  BY <1>13, RecoverPreserves
<1>14. CASE UNCHANGED vars
  <2>1. UNCHANGED <<handle, born, engine, ctx, pc, call, calls, kernels, cache, seeded, ran>>
    BY <1>14 DEF vars, commVars, deviceVars
  <2> QED
    BY <2>1 DEF IInv, TypeOK, Copies, NoHostCopy, Progress, Queue, DeviceCache, KernelServed,
                Complete, Exists
<1>15. CASE Finished
  BY <1>14, <1>15 DEF Finished
<1> QED
  BY <1>1, <1>2, <1>3, <1>4, <1>5, <1>6, <1>7, <1>8, <1>9, <1>10, <1>11, <1>12, <1>13,
     <1>14, <1>15 DEF Next, HcclExecOp

(* Every reachable state satisfies the inductive invariant. *)
THEOREM Invariance == Spec => []IInv
<1> QED
  BY InitIInv, NextIInv, PTL DEF Spec

(* Every context is of the communicator there is now: none of an earlier   *)
(* one survives HcclCommDestroy, whatever the order of calls and failures. *)
THEOREM TypeCorrect == Spec => []TypeOK
<1>1. IInv => TypeOK
  BY DEF IInv
<1> QED
  BY <1>1, Invariance, PTL

(* Between operations the copy of a batch send-receive's context on the    *)
(* host equals the one on the device, whichever platform call of           *)
(* GetAlgResAICPU failed before, for any number of algorithms and ranks.   *)
THEOREM CopiesAgree == Spec => []HostCacheMirrorsDevice
<1>1. IInv => HostCacheMirrorsDevice
  BY DEF IInv, Copies, HostCacheMirrorsDevice
<1> QED
  BY <1>1, Invariance, PTL

(* A kernel uses a complete context of its own communicator: the check of  *)
(* IsResCtxCacheReusable is enough even when a new communicator has the    *)
(* address of the old.                                                     *)
THEOREM KernelsServed == Spec => []KernelServed
<1>1. IInv => KernelServed
  BY DEF IInv
<1> QED
  BY <1>1, Invariance, PTL
=============================================================================
