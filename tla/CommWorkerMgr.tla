--------------------------- MODULE CommWorkerMgr ---------------------------
(***************************************************************************)
(* CommWorkerMgr (op_common/comm_worker_mgr.cc) and the life of the        *)
(* negotiation context it serves (op_common/ccu_fallback.cc): operations   *)
(* get or create the context of their communicator and submit a task that  *)
(* uses it; a callback, when the communicator is destroyed or could not be *)
(* resumed, removes the worker and frees the context; at process exit the  *)
(* manager shuts down what is left.                                        *)
(*                                                                         *)
(* A worker is what CommWorker promises: it takes one task at a time,      *)
(* refuses one when it is stopped or busy, and ends when it is stopped and *)
(* has no task.  The map's mutex is held across the actions between taking *)
(* and releasing its write lock; a read lock is held within one action.    *)
(***************************************************************************)
EXTENDS Integers, FiniteSets

CONSTANTS
  Comms,             (* communicators                                      *)
  Callers,           (* threads that run operations                        *)
  Cleaners,          (* threads that run NegotiationCleanupCb              *)
  Exiter,            (* the thread that destroys the manager               *)
  MaxOps,            (* bound: operations per caller                       *)
  MaxCleanups,       (* bound: callbacks per cleaner                       *)
  MaxWorkers         (* bound: workers started                             *)

Workers == 1..MaxWorkers

(* A running task may itself call Submit: a worker is a thread, too.       *)
Threads == Callers \cup Cleaners \cup {Exiter} \cup Workers

NoWorker == 0
NoCtx    == 0
Nobody   == 0
MaxCtx   == Cardinality(Callers) * MaxOps

ASSUME MgrAssumption ==
  /\ MaxOps \in Nat /\ MaxCleanups \in Nat /\ MaxWorkers \in Nat
  /\ IsFiniteSet(Callers)
  /\ Callers \cap Cleaners = {} /\ (Callers \cup Cleaners) \cap Workers = {}
  /\ Exiter \notin Callers \cup Cleaners \cup Workers
  /\ Nobody \notin Threads

VARIABLES
  ctx,       (* per communicator, the context under its tag                *)
  ctxs,      (* contexts made so far                                       *)
  usable,    (* the contexts whose buffers and sub-communicator exist      *)
  workers,   (* workers_: per communicator, its worker                     *)
  comm,      (* per worker started, its communicator                       *)
  task,      (* per worker, the context its task in flight works on        *)
  asker,     (* per worker, the thread waiting for that task               *)
  stop,      (* the workers that are stopped                               *)
  gone,      (* the workers whose thread has ended                         *)
  lock,      (* who holds mtx_ for writing                                 *)
  pc,        (* where each thread stands                                   *)
  on,        (* the communicator it is about                               *)
  negCtx,    (* the context it works with                                  *)
  held,      (* the shared_ptrs it has taken out of the map                *)
  calls      (* operations, callbacks or nested Submits so far             *)

ctxVars == <<ctx, ctxs, usable>>
workerVars == <<comm, task, asker, stop, gone>>
vars == <<ctxVars, workers, workerVars, lock, pc, on, negCtx, held, calls>>

Started == DOMAIN comm

Init ==
  /\ ctx = [c \in Comms |-> NoCtx] /\ ctxs = 0 /\ usable = {}
  /\ workers = [c \in Comms |-> NoWorker]
  /\ comm = <<>>
  /\ task = [w \in Workers |-> NoCtx] /\ asker = [w \in Workers |-> Nobody]
  /\ stop = {} /\ gone = {}
  /\ lock = Nobody
  /\ pc = [t \in Threads |-> "idle"]
  /\ on \in [Threads -> Comms] /\ \A t, u \in Threads : on[t] = on[u]
  /\ negCtx = [t \in Threads |-> NoCtx]
  /\ held = [t \in Threads |-> {}]
  /\ calls = [t \in Threads |-> 0]

Stages == {"idle", "fill", "lookup", "create", "creating", "submit", "waiting", "erase",
           "erasing", "shutdown", "join", "cleanup", "destroy", "swap", "members", "exited"}

Goes(t, where) == pc' = [pc EXCEPT ![t] = where]

(* Thread t is done; what it held goes out of scope. *)
Returns(t) ==
  /\ Goes(t, "idle")
  /\ negCtx' = [negCtx EXCEPT ![t] = NoCtx]
  /\ held' = [held EXCEPT ![t] = {}]

Counts(t) == calls' = [calls EXCEPT ![t] = @ + 1]

(* Thread t is busy with communicator c. *)
Busy(t, c) == pc[t] # "idle" /\ on[t] = c

Exiting == pc[Exiter] # "idle"

-----------------------------------------------------------------------------
(* GetNegotiationCtx *)

InSubmit == {"lookup", "create", "creating", "submit", "waiting"}

(* A callback may overlap with operations that have looked their worker    *)
(* up, which the code provides for; one that has not would start another   *)
(* worker afterwards, which is up to the callers to avoid.                 *)
AtWorker == {"submit", "waiting"}

(* Operations on one communicator may overlap once its context exists.     *)
CanNegotiate(t, c) ==
  /\ t \in Callers /\ pc[t] = "idle" /\ calls[t] < MaxOps /\ ~Exiting
  /\ \A u \in Callers : Busy(u, c) => ctx[c] # NoCtx /\ pc[u] \in InSubmit
  /\ \A u \in Cleaners : ~Busy(u, c)

Negotiate(t, c) ==
  /\ CanNegotiate(t, c)
  /\ on' = [on EXCEPT ![t] = c]
  /\ Counts(t)
  /\ \/ /\ ctx[c] # NoCtx
        /\ negCtx' = [negCtx EXCEPT ![t] = ctx[c]]
        /\ Goes(t, "lookup")
        /\ UNCHANGED ctxVars
     \/ /\ ctx[c] = NoCtx
        /\ ctxs' = ctxs + 1
        /\ ctx' = [ctx EXCEPT ![c] = ctxs']
        /\ negCtx' = [negCtx EXCEPT ![t] = ctxs']
        /\ Goes(t, "fill")
        /\ UNCHANGED usable
  /\ UNCHANGED <<workers, workerVars, lock, held>>

(* Buffers, stream and sub-communicator are made; or that fails, and what  *)
(* there is is removed again as in the callback.                           *)
Fill(t) ==
  /\ pc[t] = "fill"
  /\ \/ Goes(t, "lookup") /\ usable' = usable \cup {negCtx[t]}
     \/ Goes(t, "erase") /\ UNCHANGED usable
  /\ UNCHANGED <<ctx, ctxs, workers, workerVars, lock, on, negCtx, held, calls>>

-----------------------------------------------------------------------------
(* Submit *)

(* The task running on worker t calls Submit for its own communicator.     *)
NestedSubmit(t) ==
  /\ t \in Workers /\ task[t] # NoCtx /\ asker[t] \in Callers
  /\ pc[t] = "idle" /\ calls[t] = 0
  /\ \A u \in Cleaners : ~Busy(u, comm[t])
  /\ Counts(t)
  /\ on' = [on EXCEPT ![t] = comm[t]]
  /\ negCtx' = [negCtx EXCEPT ![t] = task[t]]
  /\ Goes(t, "lookup")
  /\ UNCHANGED <<ctxVars, workers, workerVars, lock, held>>

(* Faulty: what is found is not looked at. *)
LookUpBlindly(t) ==
  /\ pc[t] = "lookup"
  /\ lock = Nobody
  /\ held' = [held EXCEPT ![t] = {workers[on[t]]}]
  /\ Goes(t, "submit")
  /\ UNCHANGED <<ctxVars, workers, workerVars, lock, on, negCtx, calls>>

(* The fast path, under the read lock. *)
LookUp(t) ==
  LET w == workers[on[t]]
  IN  /\ pc[t] = "lookup"
      /\ lock = Nobody
      /\ \/ w # NoWorker /\ held' = [held EXCEPT ![t] = {w}] /\ Goes(t, "submit")
         \/ w = NoWorker /\ Goes(t, "create") /\ UNCHANGED held
      /\ UNCHANGED <<ctxVars, workers, workerVars, lock, on, negCtx, calls>>

LockToCreate(t) ==
  /\ pc[t] = "create"
  /\ lock = Nobody
  /\ lock' = t
  /\ Goes(t, "creating")
  /\ UNCHANGED <<ctxVars, workers, workerVars, on, negCtx, held, calls>>

(* A new worker, unless Start fails. *)
Starts(t) ==
  LET c == on[t]
      w == Cardinality(Started) + 1
  IN  \/ /\ w <= MaxWorkers
         /\ comm' = [v \in 1..w |-> IF v = w THEN c ELSE comm[v]]
         /\ workers' = [workers EXCEPT ![c] = w]
         /\ held' = [held EXCEPT ![t] = {w}]
         /\ Goes(t, "submit")
         /\ UNCHANGED negCtx
      \/ Returns(t) /\ UNCHANGED <<comm, workers>>

(* Faulty: no second look under the write lock. *)
CreateUnchecked(t) ==
  /\ pc[t] = "creating"
  /\ lock' = Nobody
  /\ Starts(t)
  /\ UNCHANGED <<ctxVars, task, asker, stop, gone, on, calls>>

(* The second look, and the new worker when there is still none. *)
Create(t) ==
  LET w == workers[on[t]]
  IN  /\ pc[t] = "creating"
      /\ lock' = Nobody
      /\ \/ /\ w # NoWorker
            /\ held' = [held EXCEPT ![t] = {w}]
            /\ Goes(t, "submit")
            /\ UNCHANGED <<comm, workers, negCtx>>
         \/ w = NoWorker /\ Starts(t)
      /\ UNCHANGED <<ctxVars, task, asker, stop, gone, on, calls>>

(* CommWorker::Submit, without the lock of the map. *)
SubmitToWorker(t) ==
  /\ pc[t] = "submit"
  /\ \E w \in held[t] :
       \/ /\ w \in stop \/ task[w] # NoCtx
          /\ Returns(t)
          /\ UNCHANGED <<task, asker>>
       \/ /\ w \notin stop /\ task[w] = NoCtx
          /\ task' = [task EXCEPT ![w] = negCtx[t]]
          /\ asker' = [asker EXCEPT ![w] = t]
          /\ Goes(t, "waiting")
          /\ UNCHANGED <<held, negCtx>>
  /\ UNCHANGED <<ctxVars, workers, comm, stop, gone, lock, on, calls>>

(* The task of worker w is done and its caller returns. *)
TaskDone(w) ==
  /\ task[w] # NoCtx /\ pc[w] = "idle"
  /\ Returns(asker[w])
  /\ task' = [task EXCEPT ![w] = NoCtx]
  /\ asker' = [asker EXCEPT ![w] = Nobody]
  /\ calls' = [calls EXCEPT ![w] = 0]
  /\ UNCHANGED <<ctxVars, workers, comm, stop, gone, lock, on>>

WorkerEnds(w) ==
  /\ w \in stop \ gone /\ task[w] = NoCtx
  /\ gone' = gone \cup {w}
  /\ UNCHANGED <<ctxVars, workers, comm, task, asker, stop, lock, pc, on, negCtx, held, calls>>

-----------------------------------------------------------------------------
(* NegotiationCleanupCb and Remove *)

(* DESTROY_PRE, or RESUME_POST when the sub-communicator is not resumed.   *)
Callback(t, c) ==
  /\ t \in Cleaners /\ pc[t] = "idle" /\ calls[t] < MaxCleanups /\ ~Exiting
  /\ \A u \in Callers \cup Workers : Busy(u, c) => pc[u] \in AtWorker
  /\ \A u \in Cleaners : ~Busy(u, c)
  /\ ctx[c] # NoCtx
  /\ Counts(t)
  /\ on' = [on EXCEPT ![t] = c]
  /\ negCtx' = [negCtx EXCEPT ![t] = ctx[c]]
  /\ Goes(t, "erase")
  /\ UNCHANGED <<ctxVars, workers, workerVars, lock, held>>

LockToErase(t) ==
  /\ pc[t] = "erase"
  /\ lock = Nobody
  /\ lock' = t
  /\ Goes(t, "erasing")
  /\ UNCHANGED <<ctxVars, workers, workerVars, on, negCtx, held, calls>>

(* Faulty: the worker stays in the map. *)
EraseNothing(t) ==
  /\ pc[t] = "erasing"
  /\ lock' = Nobody
  /\ held' = [held EXCEPT ![t] = {workers[on[t]]} \ {NoWorker}]
  /\ Goes(t, "shutdown")
  /\ UNCHANGED <<ctxVars, workers, workerVars, on, negCtx, calls>>

Erase(t) ==
  /\ pc[t] = "erasing"
  /\ lock' = Nobody
  /\ held' = [held EXCEPT ![t] = {workers[on[t]]} \ {NoWorker}]
  /\ workers' = [workers EXCEPT ![on[t]] = NoWorker]
  /\ Goes(t, "shutdown")
  /\ UNCHANGED <<ctxVars, workerVars, on, negCtx, calls>>

(* Shutdown of every worker taken out: stop, then join. *)
ShutdownTaken(t) ==
  /\ pc[t] = "shutdown"
  /\ stop' = stop \cup held[t]
  /\ Goes(t, "join")
  /\ UNCHANGED <<ctxVars, workers, comm, task, asker, gone, lock, on, negCtx, held, calls>>

(* Faulty: nobody waits for the thread to end. *)
JoinAtOnce(t) ==
  /\ pc[t] = "join"
  /\ held' = [held EXCEPT ![t] = {}]
  /\ Goes(t, IF t = Exiter THEN "members" ELSE "cleanup")
  /\ UNCHANGED <<ctxVars, workers, workerVars, lock, on, negCtx, calls>>

Join(t) ==
  /\ pc[t] = "join"
  /\ held[t] \subseteq gone
  /\ held' = [held EXCEPT ![t] = {}]
  /\ Goes(t, IF t = Exiter THEN "members" ELSE "cleanup")
  /\ UNCHANGED <<ctxVars, workers, workerVars, lock, on, negCtx, calls>>

(* CleanupNegotiationRes *)
CleanUp(t) ==
  /\ pc[t] = "cleanup"
  /\ usable' = usable \ {negCtx[t]}
  /\ Goes(t, "destroy")
  /\ UNCHANGED <<ctx, ctxs, workers, workerVars, lock, on, negCtx, held, calls>>

(* HcclEngineCtxDestroy, by tag. *)
DestroyCtx(t) ==
  /\ pc[t] = "destroy"
  /\ ctx' = [ctx EXCEPT ![on[t]] = NoCtx]
  /\ Returns(t)
  /\ UNCHANGED <<ctxs, usable, workers, workerVars, lock, on, calls>>

-----------------------------------------------------------------------------
(* ~CommWorkerMgr, at process exit: operations may still be waiting for a  *)
(* task, nobody else uses the manager.                                     *)

Exit ==
  /\ ~Exiting /\ calls[Exiter] = 0
  /\ \A t \in Callers \cup Cleaners : pc[t] \in {"idle", "waiting"}
  /\ \A w \in Workers : pc[w] \in {"idle", "lookup"}
  /\ lock = Nobody
  /\ lock' = Exiter
  /\ Counts(Exiter)
  /\ Goes(Exiter, "swap")
  /\ UNCHANGED <<ctxVars, workers, workerVars, on, negCtx, held>>

Taken == {workers[c] : c \in Comms} \ {NoWorker}

(* Faulty: the workers are shut down and joined under the write lock. *)
SwapLocked ==
  /\ pc[Exiter] = "swap"
  /\ held' = [held EXCEPT ![Exiter] = Taken]
  /\ workers' = [c \in Comms |-> NoWorker]
  /\ Goes(Exiter, "shutdown")
  /\ UNCHANGED <<ctxVars, lock, workerVars, on, negCtx, calls>>

Swap ==
  /\ pc[Exiter] = "swap"
  /\ lock' = Nobody
  /\ held' = [held EXCEPT ![Exiter] = Taken]
  /\ workers' = [c \in Comms |-> NoWorker]
  /\ Goes(Exiter, "shutdown")
  /\ UNCHANGED <<ctxVars, workerVars, on, negCtx, calls>>

(* Faulty: a worker started while the manager was going is left alone. *)
ForgetMembers ==
  /\ pc[Exiter] = "members"
  /\ Goes(Exiter, "exited")
  /\ UNCHANGED <<ctxVars, workers, workerVars, lock, on, negCtx, held, calls>>

(* The map itself is destroyed, and with it (~CommWorker) every worker     *)
(* that a task started while the others were joined.                       *)
DestroyMembers ==
  /\ pc[Exiter] = "members"
  /\ held' = [held EXCEPT ![Exiter] = Taken]
  /\ workers' = [c \in Comms |-> NoWorker]
  /\ Goes(Exiter, IF Taken = {} THEN "exited" ELSE "shutdown")
  /\ UNCHANGED <<ctxVars, workerVars, lock, on, negCtx, calls>>

-----------------------------------------------------------------------------
(* What a thread does once it has begun. *)
Continues(t) ==
  \/ Fill(t)
  \/ LookUp(t) \/ LockToCreate(t) \/ Create(t) \/ SubmitToWorker(t)
  \/ LockToErase(t) \/ Erase(t) \/ ShutdownTaken(t) \/ Join(t)
  \/ CleanUp(t) \/ DestroyCtx(t)

Next ==
  \/ \E t \in Callers, c \in Comms : Negotiate(t, c)
  \/ \E t \in Cleaners, c \in Comms : Callback(t, c)
  \/ \E t \in Threads : Continues(t)
  \/ \E w \in Workers : NestedSubmit(w) \/ TaskDone(w) \/ WorkerEnds(w)
  \/ Exit \/ Swap \/ DestroyMembers

Spec == Init /\ [][Next]_vars

(* The threads run, the mutex does not starve them and a task ends.        *)
Fairness ==
  /\ \A t \in Threads : WF_vars(Continues(t)) /\ SF_vars(LockToCreate(t) \/ LockToErase(t) \/ LookUp(t))
  /\ \A w \in Workers : WF_vars(TaskDone(w)) /\ WF_vars(WorkerEnds(w))
  /\ WF_vars(Swap) /\ WF_vars(DestroyMembers)

FairSpec == Spec /\ Fairness

-----------------------------------------------------------------------------
(* The types of the variables. *)
TypeOK ==
  /\ ctx \in [Comms -> 0..MaxCtx] /\ ctxs \in 0..MaxCtx /\ usable \subseteq 1..MaxCtx
  /\ workers \in [Comms -> {NoWorker} \cup Started]
  /\ \E n \in 0..MaxWorkers : comm \in [1..n -> Comms]
  /\ task \in [Workers -> 0..MaxCtx]
  /\ asker \in [Workers -> Threads \cup {Nobody}]
  /\ stop \subseteq Started /\ gone \subseteq stop
  /\ lock \in Threads \cup {Nobody} /\ pc \in [Threads -> Stages]
  /\ on \in [Threads -> Comms]
  /\ negCtx \in [Threads -> 0..MaxCtx]
  /\ held \in [Threads -> SUBSET Started]
  /\ calls \in [Threads -> Nat]

(* "every path that destroys the context also removes the worker: no tag   *)
(* means no worker" (ccu_fallback.cc, NegotiationCleanupCb): a worker of a *)
(* communicator without a context has ended and is not in the map.         *)
NoTagNoWorker ==
  \A c \in Comms : ctx[c] = NoCtx /\ ~Exiting =>
    workers[c] = NoWorker /\ \A w \in Started : comm[w] = c => w \in gone

(* No task works on buffers or a sub-communicator that have been freed.    *)
NoDanglingUse == \A w \in Workers : task[w] # NoCtx => task[w] \in usable

(* Operations that find no worker at the same time do not start two, and   *)
(* two tasks of one communicator never run at the same time: they share    *)
(* the context's one stream and buffers.                                   *)
OneWorkerPerComm ==
  ~Exiting => \A v, w \in Started \ gone : comm[v] = comm[w] => v = w

(* When the manager is gone no worker thread is left (the process would    *)
(* terminate on a joinable thread), also none a task started meanwhile.    *)
ExitLeavesNoThread == pc[Exiter] = "exited" => Started = gone

(* Nobody stays stuck: not an operation, a callback, a nested Submit nor   *)
(* the exit, which waits for tasks that may want the mutex.                *)
EveryoneReturns == <>[](\A t \in Threads : pc[t] \in {"idle", "exited"})
=============================================================================
