---------------------------- MODULE CcuFallback ----------------------------
(***************************************************************************)
(* How the ranks of a communicator in CCU mode agree on the algorithm of   *)
(* each collective (op_common/ccu_fallback.cc with Selector, HcclExecOp,   *)
(* HcclGetAlgRes and FallbackOp of op_common.cc).                          *)
(*                                                                         *)
(* A call first agrees on the execution config: an AllGather on the        *)
(* negotiation sub-communicator, skipped when the rank finds its own       *)
(* selection in its parameter cache.  Then it follows the contexts of      *)
(* earlier fallbacks and, when the algorithm has no resources yet,         *)
(* allocates them and negotiates the outcome: an AllReduce MIN on the same *)
(* sub-communicator.  If any rank lacks resources all of them go one       *)
(* config down.  Caches, contexts and resources are local to a rank.       *)
(*                                                                         *)
(* A rank only blocks in these two exchanges, so each action is what a     *)
(* rank does from one exchange, or the beginning of a call, to the next.   *)
(***************************************************************************)
EXTENDS Integers, Sequences

CONSTANTS
  Ranks,       (* the ranks of the communicator                            *)
  Algs,        (* algorithm names                                          *)
  Types,       (* data and reduce type, the part of a call algTag names    *)
  Kinds,       (* the kinds of call the program makes                      *)
  OnlySets,    (* the choices for the ranks configured ONLY                *)
  MaxCalls,    (* bound: the calls of the program                          *)
  Errors,      (* BOOLEAN: may exchanges and reselections fail             *)
  NoChoice     (* nothing cached                                           *)

Configs == {"CCU_MS", "CCU_SCHED", "AICPU_TS"}

(* GetOpExecuteConfigLevel *)
Level == [c \in Configs |->
  IF c = "CCU_MS" THEN 3 ELSE IF c = "CCU_SCHED" THEN 2 ELSE 1]

(* What a selection ends with. *)
Choices == [alg : Algs, cfg : Configs]

(* A kind of call: its type, what Selector picks for it on each rank, and  *)
(* what Select picks for it when it starts at a given config.              *)
AllKinds == [type : Types, sel : [Ranks -> Choices], re : [Configs -> Choices]]

(* Select goes down from the config it starts at until an algorithm        *)
(* matches (auto_selector_base.cc): it never ends higher, starting where   *)
(* it ended gives the same, and that is what Selector did on each rank.    *)
SelectsDownwards(k) ==
  /\ \A c \in Configs : Level[k.re[c].cfg] <= Level[c]
  /\ \A c \in Configs : k.re[k.re[c].cfg] = k.re[c]
  /\ \A r \in Ranks : k.re[k.sel[r].cfg] = k.sel[r]

(* The choices that exist.  An algorithm belongs to one config: CcuMS...,  *)
(* CcuSched..., Aicpu...                                                   *)
Selectable == {k.re[c] : k \in Kinds, c \in Configs}

ASSUME FallbackAssumption ==
  /\ Ranks # {}
  /\ Kinds \subseteq AllKinds
  /\ \A k \in Kinds : SelectsDownwards(k)
  /\ \A a, b \in Selectable : a.alg = b.alg => a.cfg = b.cfg
  /\ OnlySets \subseteq SUBSET Ranks
  /\ MaxCalls \in Nat
  /\ Errors \in BOOLEAN
  /\ NoChoice \notin Choices

VARIABLES
  program,     (* the kinds of the program's calls, the same on all ranks  *)
  only,        (* the ranks configured CCU_MS_ONLY or CCU_SCHED_ONLY       *)
  pc,          (* where each rank stands                                   *)
  cur,         (* the choice the rank last brought into an exchange        *)
  available,   (* localResAvailable of its last allocation                 *)
  answer,      (* what the last exchange gave the rank                     *)
  paramCache,  (* ..._ccuParamCache contexts, by the rank's selection      *)
  fallback,    (* ..._fallback contexts, by algorithm                      *)
  resCtx,      (* resource contexts, by algorithm and type                 *)
  channels,    (* the contexts whose channels exist                        *)
  ran          (* the choices the rank has run, call by call               *)

cacheVars == <<paramCache, fallback>>
resVars == <<resCtx, channels, available>>
vars == <<program, only, pc, cur, available, answer, paramCache, fallback,
          resCtx, channels, ran>>

Init ==
  /\ program \in [1..MaxCalls -> Kinds]
  /\ only \in OnlySets
  /\ pc = [r \in Ranks |-> "idle"]
  /\ cur = [r \in Ranks |-> NoChoice]
  /\ available = [r \in Ranks |-> FALSE]
  /\ answer = [r \in Ranks |-> "none"]
  /\ paramCache = [r \in Ranks |-> [a \in Choices |-> NoChoice]]
  /\ fallback = [r \in Ranks |-> [a \in Algs |-> NoChoice]]
  /\ resCtx = [r \in Ranks |-> {}]
  /\ channels = [r \in Ranks |-> {}]
  /\ ran = [r \in Ranks |-> <<>>]

(* The kind of the call rank r is making, or makes next. *)
KindOf(r) == program[Len(ran[r]) + 1]

OnCcu(a) == a.cfg # "AICPU_TS"

-----------------------------------------------------------------------------
(* HcclExecOp.  The fallback contexts lie in the CCU engine: a choice that *)
(* runs elsewhere finds none.  Each hop goes at least one config down      *)
(* (FallbackOp), so from CCU_MS there are two at most.                     *)

Redirect(fb, a) == IF OnCcu(a) /\ fb[a.alg] # NoChoice THEN fb[a.alg] ELSE a

Resolve(fb, a) == Redirect(fb, Redirect(fb, a))

Tag(r, a) == <<a.alg, KindOf(r).type>>

(* TryReuseResource: only CCU resources are negotiated; a context under    *)
(* algTag is taken as it is.                                               *)
HasResources(r, a) == ~OnCcu(a) \/ Tag(r, a) \in resCtx[r]

(* The rank launches a and its call returns. *)
Runs(r, a, has) ==
  /\ ran' = [ran EXCEPT ![r] = Append(@, a)]
  /\ pc' = [pc EXCEPT ![r] = "idle"]
  /\ channels' = [channels EXCEPT ![r] = has]
  /\ UNCHANGED <<cur, available, resCtx>>

(* GetAlgResCcu creates the context when the allocation succeeds, then the *)
(* rank joins the AllReduce with the outcome.                              *)
Allocates(r, a, has) ==
  \E ok \in BOOLEAN :
    LET new == IF ok THEN {Tag(r, a)} ELSE {}
    IN  /\ available' = [available EXCEPT ![r] = ok]
        /\ resCtx' = [resCtx EXCEPT ![r] = @ \cup new]
        /\ channels' = [channels EXCEPT ![r] = has \cup new]
        /\ cur' = [cur EXCEPT ![r] = a]
        /\ pc' = [pc EXCEPT ![r] = "reduce"]
        /\ UNCHANGED ran

(* The rest of HcclExecOp for choice a, with the channels in has. *)
Executes(r, a, has) ==
  \/ HasResources(r, a) /\ Runs(r, a, has)
  \/ ~HasResources(r, a) /\ Allocates(r, a, has)

-----------------------------------------------------------------------------
(* Selector and CheckCcuParamAndFallback *)

Selection(r) == KindOf(r).sel[r]

CanCall(r) == pc[r] = "idle" /\ Len(ran[r]) < MaxCalls

(* The cache has the selection: its outcome is applied without asking. *)
CallWithCache(r) ==
  LET a == paramCache[r][Selection(r)]
  IN  /\ CanCall(r)
      /\ a # NoChoice
      /\ Executes(r, Resolve(fallback[r], a), channels[r])
      /\ UNCHANGED <<program, only, answer, cacheVars>>

(* ExecuteParamCheckOp: the rank joins the AllGather with its config. *)
CallWithGather(r) ==
  /\ CanCall(r)
  /\ paramCache[r][Selection(r)] = NoChoice
  /\ cur' = [cur EXCEPT ![r] = Selection(r)]
  /\ pc' = [pc EXCEPT ![r] = "gather"]
  /\ UNCHANGED <<program, only, answer, cacheVars, resVars, ran>>

(* Faulty: the comparison in CompareCcuParam is the wrong way round. *)
GatherCompletesHighest ==
  /\ \A r \in Ranks : pc[r] = "gather"
  /\ \E c \in Configs :
       /\ \E r \in Ranks : cur[r].cfg = c
       /\ \A r \in Ranks : Level[c] >= Level[cur[r].cfg]
       /\ answer' = [r \in Ranks |-> c]
  /\ pc' = [r \in Ranks |-> "gathered"]
  /\ UNCHANGED <<program, only, cur, cacheVars, resVars, ran>>

(* The AllGather is complete when every rank has joined it. *)
GatherCompletes ==
  /\ \A r \in Ranks : pc[r] = "gather"
  /\ \E c \in Configs :
       /\ \E r \in Ranks : cur[r].cfg = c
       /\ \A r \in Ranks : Level[c] <= Level[cur[r].cfg]
       /\ answer' = [r \in Ranks |-> c]
  /\ pc' = [r \in Ranks |-> "gathered"]
  /\ UNCHANGED <<program, only, cur, cacheVars, resVars, ran>>

(* Faulty: the cache entry is filed under the outcome, not the selection.  *)
AfterGatherOutcomeKey(r) ==
  LET a == IF answer[r] = cur[r].cfg THEN cur[r] ELSE KindOf(r).re[answer[r]]
  IN  /\ pc[r] = "gathered"
      /\ answer[r] # cur[r].cfg => r \notin only
      /\ paramCache' = [paramCache EXCEPT ![r][a] = a]
      /\ Executes(r, Resolve(fallback[r], a), channels[r])
      /\ UNCHANGED <<program, only, answer, fallback>>

(* CompareCcuParam, then ReSelector when the lowest config is another; the *)
(* outcome is cached and the call goes on in HcclExecOp.                   *)
AfterGather(r) ==
  LET a == IF answer[r] = cur[r].cfg THEN cur[r] ELSE KindOf(r).re[answer[r]]
  IN  /\ pc[r] = "gathered"
      /\ answer[r] # cur[r].cfg => r \notin only
      /\ paramCache' = [paramCache EXCEPT ![r][Selection(r)] = a]
      /\ Executes(r, Resolve(fallback[r], a), channels[r])
      /\ UNCHANGED <<program, only, answer, fallback>>

-----------------------------------------------------------------------------
(* CheckCcuResNegotiation and FallbackOp *)

(* Faulty: the reduced value goes on without CompareNegotiationResult. *)
ReduceCompletesRaw ==
  /\ \A r \in Ranks : pc[r] = "reduce"
  /\ answer' = [r \in Ranks |-> IF \A s \in Ranks : available[s] THEN "0x5a5a5a5a" ELSE "0"]
  /\ pc' = [r \in Ranks |-> "reduced"]
  /\ UNCHANGED <<program, only, cur, cacheVars, resVars, ran>>

(* The AllReduce MIN: the result is FAIL when some rank has no resources.  *)
ReduceCompletes ==
  /\ \A r \in Ranks : pc[r] = "reduce"
  /\ answer' = [r \in Ranks |-> IF \A s \in Ranks : available[s] THEN "SUCCESS" ELSE "FAIL"]
  /\ pc' = [r \in Ranks |-> "reduced"]
  /\ UNCHANGED <<program, only, cur, cacheVars, resVars, ran>>

(* Faulty: a rank with resources does not mind that another lacks them.    *)
RunNegotiatedLocally(r) ==
  /\ pc[r] = "reduced"
  /\ answer[r] = "SUCCESS" \/ available[r]
  /\ Runs(r, cur[r], channels[r])
  /\ UNCHANGED <<program, only, answer, cacheVars>>

RunNegotiated(r) ==
  /\ pc[r] = "reduced"
  /\ answer[r] = "SUCCESS"
  /\ Runs(r, cur[r], channels[r])
  /\ UNCHANGED <<program, only, answer, cacheVars>>

(* FallbackOp: one step down. *)
NextConfig(c) == IF c = "CCU_MS" THEN "CCU_SCHED" ELSE "AICPU_TS"

(* Faulty: FallbackOp leaves no context behind. *)
FallBackUnrecorded(r) ==
  LET next == KindOf(r).re[NextConfig(cur[r].cfg)]
  IN  /\ pc[r] = "reduced"
      /\ answer[r] = "FAIL"
      /\ r \notin only
      /\ Executes(r, Resolve(fallback[r], next), channels[r] \ {Tag(r, cur[r])})
      /\ UNCHANGED <<program, only, answer, cacheVars>>

(* ReleaseCcuAcquiredChannels destroys the channels but not the context of *)
(* the failed algorithm; FallbackOp records where to go from it, reselects *)
(* and executes again.                                                     *)
FallBack(r) ==
  LET next == KindOf(r).re[NextConfig(cur[r].cfg)]
      fb   == [fallback[r] EXCEPT ![cur[r].alg] = next]
      has  == channels[r] \ {Tag(r, cur[r])}
  IN  /\ pc[r] = "reduced"
      /\ answer[r] = "FAIL"
      /\ r \notin only
      /\ fallback' = [fallback EXCEPT ![r] = fb]
      /\ Executes(r, Resolve(fb, next), has)
      /\ UNCHANGED <<program, only, answer, paramCache>>

(* A rank configured ONLY does not fall back: HCCL_E_NOT_SUPPORT. *)
OnlyFails(r) ==
  /\ r \in only
  /\ \/ /\ pc[r] = "gathered" /\ answer[r] # cur[r].cfg
        /\ UNCHANGED channels
     \/ /\ pc[r] = "reduced" /\ answer[r] = "FAIL"
        /\ channels' = [channels EXCEPT ![r] = @ \ {Tag(r, cur[r])}]
  /\ pc' = [pc EXCEPT ![r] = "failed"]
  /\ UNCHANGED <<program, only, cur, available, answer, cacheVars, resCtx, ran>>

(* Any other error on one rank: negotiation resources, the worker, memory  *)
(* copies, reselection.  A rank whose call failed makes no further call,   *)
(* so what it left half done is not looked at again.                       *)
Fails(r) ==
  /\ Errors
  /\ CanCall(r) \/ pc[r] \in {"gathered", "reduced"}
  /\ pc' = [pc EXCEPT ![r] = "failed"]
  /\ UNCHANGED <<program, only, cur, answer, cacheVars, resVars, ran>>

-----------------------------------------------------------------------------
RankSteps(r) ==
  \/ CallWithCache(r)
  \/ CallWithGather(r)
  \/ AfterGather(r)
  \/ RunNegotiated(r)
  \/ FallBack(r)
  \/ OnlyFails(r)

Next ==
  \/ GatherCompletes
  \/ ReduceCompletes
  \/ \E r \in Ranks : RankSteps(r) \/ Fails(r)

Spec == Init /\ [][Next]_vars

(* A rank goes on until its program ends, and an exchange all ranks have   *)
(* joined completes.                                                       *)
Fairness ==
  /\ WF_vars(GatherCompletes)
  /\ WF_vars(ReduceCompletes)
  /\ \A r \in Ranks : WF_vars(RankSteps(r))

FairSpec == Spec /\ Fairness

-----------------------------------------------------------------------------
(* Two kinds whose selections coincide on one rank coincide on all: then   *)
(* a parameter cache answers on every rank or on none.                     *)
KeysAligned ==
  \A j, k \in Kinds :
    (\E r \in Ranks : j.sel[r] = k.sel[r]) => \A r \in Ranks : j.sel[r] = k.sel[r]

(* The types of the variables. *)
TypeOK ==
  /\ program \in [1..MaxCalls -> Kinds]
  /\ only \subseteq Ranks
  /\ pc \in [Ranks -> {"idle", "gather", "gathered", "reduce", "reduced", "failed"}]
  /\ cur \in [Ranks -> Choices \cup {NoChoice}]
  /\ available \in [Ranks -> BOOLEAN]
  /\ answer \in [Ranks -> Configs \cup {"none", "SUCCESS", "FAIL"}]
  /\ paramCache \in [Ranks -> [Choices -> Choices \cup {NoChoice}]]
  /\ fallback \in [Ranks -> [Algs -> Choices \cup {NoChoice}]]
  /\ resCtx \in [Ranks -> SUBSET (Algs \X Types)]
  /\ channels \in [Ranks -> SUBSET (Algs \X Types)]
  /\ ran \in [Ranks -> Seq(Choices)]
  /\ \A r \in Ranks : Len(ran[r]) <= MaxCalls

(* Two ranks never run different algorithms or configs in the same call,   *)
(* though each decides alone from its own caches and contexts, at its own  *)
(* time and with other ranks failing.                                      *)
Agreement ==
  \A r, s \in Ranks : \A c \in DOMAIN ran[r] \cap DOMAIN ran[s] :
    ran[r][c] = ran[s][c]

(* Ranks that are in an exchange at the same time are in the same one: the *)
(* same collective, for the same call and the same algorithm.  Otherwise   *)
(* the sub-communicator would match an AllGather with an AllReduce, or     *)
(* take the answer about one algorithm for that about another.             *)
SameExchange ==
  \A r, s \in Ranks :
    pc[r] \in {"gather", "reduce"} /\ pc[s] \in {"gather", "reduce"} =>
      /\ pc[r] = pc[s]
      /\ Len(ran[r]) = Len(ran[s])
      /\ pc[r] = "reduce" => cur[r] = cur[s]

(* "The ranks exchange opExecuteConfig" (op_common.cc, Selector): while a  *)
(* rank is in the AllGather of a call, no rank has got past that call.     *)
EveryoneExchanges ==
  \A r, s \in Ranks : pc[r] = "gather" => Len(ran[s]) <= Len(ran[r])

(* The context a rank keeps after a failed negotiation, whose channels it  *)
(* has destroyed (ReleaseCcuAcquiredChannels), is never taken for a usable *)
(* one: the fallback context of its algorithm leads past it.               *)
StaleContextsShadowed ==
  \A r \in Ranks : \A t \in resCtx[r] \ channels[r] :
    pc[r] = "failed" \/ fallback[r][t[1]] # NoChoice

(* "ccu only mode does not support fallback": whatever the other ranks     *)
(* can do, such a rank runs what Selector picked for it or nothing.        *)
OnlyMeansOnly ==
  \A r \in only : \A c \in DOMAIN ran[r] :
    ran[r][c].cfg = program[c].sel[r].cfg

(* "the ranks exchange opExecuteConfig and take the lowest common value"   *)
(* (op_common.cc, Selector): nobody runs a config above the one some rank  *)
(* selected for the call.                                                  *)
LowestCommonConfig ==
  \A r, s \in Ranks : \A c \in DOMAIN ran[r] :
    Level[ran[r][c].cfg] <= Level[program[c].sel[s].cfg]

(* Every rank gets through the program, unless some rank fails: no rank is *)
(* left waiting in an exchange the others have skipped.                    *)
ProgramEnds ==
  <>(\/ \A r \in Ranks : Len(ran[r]) = MaxCalls
     \/ \E r \in Ranks : pc[r] = "failed")

=============================================================================
