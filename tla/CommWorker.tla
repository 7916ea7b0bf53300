---------------------------- MODULE CommWorker ----------------------------
(***************************************************************************)
(* CommWorker (op_common/comm_worker.cc): the resident thread of one       *)
(* communicator on which the CCU negotiations run.  Callers hand it one    *)
(* task at a time through a single slot guarded by mtx_ and block on cv_   *)
(* until the task is done; Shutdown stops it and joins the thread.         *)
(*                                                                         *)
(* Each stretch of code that runs under mtx_ is one action.  cv_.wait is   *)
(* the set asleep: notify_all empties it, a thread that is not in it takes *)
(* the mutex, evaluates its predicate and goes on or back to sleep.        *)
(***************************************************************************)
EXTENDS Integers

CONSTANTS
  Submitters,    (* the threads that call Submit                           *)
  Worker,        (* the thread that runs WorkerLoop                        *)
  MaxSubmits,    (* bound: calls of Submit per thread                      *)
  MaxShutdowns,  (* bound: calls of Shutdown (Remove, then ~CommWorker)    *)
  TaskCodes,     (* the results a task may return                          *)
  NoCode         (* no result yet                                          *)

E_INTERNAL == "HCCL_E_INTERNAL"
E_RUNTIME  == "HCCL_E_RUNTIME"
Codes      == TaskCodes \cup {E_INTERNAL, E_RUNTIME}

(* A task is named by its caller and the number of the call. *)
Tasks == Submitters \X (1..MaxSubmits)

ASSUME CommWorkerAssumption ==
  /\ Worker \notin Submitters
  /\ Submitters # {}
  /\ MaxSubmits \in Nat \ {0}
  /\ MaxShutdowns \in Nat
  /\ NoCode \notin Codes

VARIABLES
  hasTask,    (* hasTask_                                                  *)
  stop,       (* stop_                                                     *)
  task,       (* the task in task_, ctx_ and errCtx_                       *)
  result,     (* result_                                                   *)
  asleep,     (* the threads blocked in cv_.wait                           *)
  calls,      (* per submitter, the calls of Submit so far                 *)
  waiting,    (* the submitters inside Submit                              *)
  worker,     (* where WorkerLoop stands                                   *)
  job,        (* the worker's own copy of the task                         *)
  ret,        (* the worker's local ret                                    *)
  nested,     (* a Submit made by the running task: none, refused          *)
  joinable,   (* thread_.joinable()                                        *)
  shutdowns,  (* calls of Shutdown so far                                  *)
  closing,    (* some thread is in Shutdown, before or in join()           *)
  accepted,   (* history: the tasks Submit has put into the slot           *)
  outcome,    (* history: what the worker got for each task                *)
  reply       (* history: what each accepted Submit returned               *)

slotVars == <<hasTask, stop, task, result>>
workerVars == <<worker, job, ret, nested>>
shutdownVars == <<joinable, shutdowns, closing>>
historyVars == <<accepted, outcome, reply>>
vars == <<slotVars, asleep, calls, waiting, workerVars, shutdownVars, historyVars>>

Init ==
  /\ hasTask = FALSE
  /\ stop = FALSE
  /\ task \in Tasks
  /\ result = E_INTERNAL
  /\ asleep = {}
  /\ calls = [s \in Submitters |-> 0]
  /\ waiting = {}
  /\ worker = "loop"
  /\ job = task
  /\ ret = E_INTERNAL
  /\ nested = "none"
  /\ joinable = TRUE
  /\ shutdowns = 0
  /\ closing = FALSE
  /\ accepted = {}
  /\ outcome = [t \in Tasks |-> NoCode]
  /\ reply = [t \in Tasks |-> NoCode]

NotifyAll == asleep' = {}

-----------------------------------------------------------------------------
(* Submit *)

CanSubmit(s) == s \notin waiting /\ calls[s] < MaxSubmits

(* stop_ is set or another task is in flight: HCCL_E_INTERNAL at once. *)
SubmitRefused(s) ==
  /\ CanSubmit(s)
  /\ stop \/ hasTask
  /\ calls' = [calls EXCEPT ![s] = @ + 1]
  /\ UNCHANGED <<slotVars, asleep, waiting, workerVars, shutdownVars, historyVars>>

(* The slot is taken, all waiters are notified and s goes to sleep.        *)
SubmitAccepted(s) ==
  LET t == <<s, calls[s] + 1>>
  IN  /\ CanSubmit(s)
      /\ ~stop /\ ~hasTask
      /\ calls' = [calls EXCEPT ![s] = @ + 1]
      /\ task' = t
      /\ result' = E_INTERNAL
      /\ hasTask' = TRUE
      /\ asleep' = {s}
      /\ waiting' = waiting \cup {s}
      /\ accepted' = accepted \cup {t}
      /\ UNCHANGED <<stop, workerVars, shutdownVars, outcome, reply>>

(* Faulty variants stand in front of the definition they vary; no action   *)
(* uses them.  Here cv_.wait has no predicate: any wake-up is the end.     *)
SubmitReturnsAtWakeup(s) ==
  /\ s \in waiting \ asleep
  /\ waiting' = waiting \ {s}
  /\ reply' = [reply EXCEPT ![<<s, calls[s]>>] = result]
  /\ UNCHANGED <<slotVars, asleep, calls, workerVars, shutdownVars, accepted, outcome>>

(* s has the mutex again after cv_.wait: the predicate is !hasTask_.       *)
SubmitReturns(s) ==
  /\ s \in waiting \ asleep
  /\ ~hasTask
  /\ waiting' = waiting \ {s}
  /\ reply' = [reply EXCEPT ![<<s, calls[s]>>] = result]
  /\ UNCHANGED <<slotVars, asleep, calls, workerVars, shutdownVars, accepted, outcome>>

SubmitSleepsAgain(s) ==
  /\ s \in waiting \ asleep
  /\ hasTask
  /\ asleep' = asleep \cup {s}
  /\ UNCHANGED <<slotVars, calls, waiting, workerVars, shutdownVars, historyVars>>

-----------------------------------------------------------------------------
(* WorkerLoop *)

WorkerSleeps ==
  /\ worker = "loop" /\ Worker \notin asleep
  /\ ~hasTask /\ ~stop
  /\ asleep' = asleep \cup {Worker}
  /\ UNCHANGED <<slotVars, calls, waiting, workerVars, shutdownVars, historyVars>>

(* A pending task goes first, also when stop_ is set. *)
WorkerTakes ==
  /\ worker = "loop" /\ Worker \notin asleep
  /\ hasTask
  /\ job' = task
  /\ worker' = "bind"
  /\ UNCHANGED <<slotVars, asleep, calls, waiting, ret, nested, shutdownVars, historyVars>>

(* Faulty: the loop tests stop_ before hasTask_. *)
WorkerExitsAtStop ==
  /\ worker = "loop" /\ Worker \notin asleep
  /\ stop
  /\ worker' = "exited"
  /\ UNCHANGED <<slotVars, asleep, calls, waiting, job, ret, nested, shutdownVars, historyVars>>

WorkerExits ==
  /\ worker = "loop" /\ Worker \notin asleep
  /\ ~hasTask /\ stop
  /\ worker' = "exited"
  /\ UNCHANGED <<slotVars, asleep, calls, waiting, job, ret, nested, shutdownVars, historyVars>>

(* The rest of the body runs without the mutex.  ctx is null or             *)
(* aclrtSetCurrentContext succeeds ...                                     *)
WorkerBinds ==
  /\ worker = "bind"
  /\ worker' = "run"
  /\ UNCHANGED <<slotVars, asleep, calls, waiting, job, ret, nested, shutdownVars, historyVars>>

(* ... or it fails, and the task is not run.                               *)
WorkerBindFails ==
  /\ worker = "bind"
  /\ worker' = "finish"
  /\ ret' = E_RUNTIME
  /\ outcome' = [outcome EXCEPT ![job] = E_RUNTIME]
  /\ UNCHANGED <<slotVars, asleep, calls, waiting, job, nested, shutdownVars, accepted, reply>>

(* Faulty: an exception leaves no code behind. *)
WorkerRunsUncaught ==
  /\ worker = "run"
  /\ worker' = "finish"
  /\ \E code \in TaskCodes \cup {NoCode} :
       /\ ret' = code
       /\ outcome' = [outcome EXCEPT ![job] = code]
  /\ UNCHANGED <<slotVars, asleep, calls, waiting, job, nested, shutdownVars, accepted, reply>>

(* The task returns a code, or throws and counts as HCCL_E_INTERNAL.       *)
WorkerRuns ==
  /\ worker = "run"
  /\ worker' = "finish"
  /\ \E code \in TaskCodes \cup {E_INTERNAL} :
       /\ ret' = code
       /\ outcome' = [outcome EXCEPT ![job] = code]
  /\ UNCHANGED <<slotVars, asleep, calls, waiting, job, nested, shutdownVars, accepted, reply>>

(* The running task itself calls Submit on the same worker.  Only the      *)
(* early returns are reachable: hasTask_ stays set while a task runs.      *)
NestedSubmit ==
  /\ worker = "run" /\ nested = "none"
  /\ stop \/ hasTask
  /\ nested' = "refused"
  /\ UNCHANGED <<slotVars, asleep, calls, waiting, worker, job, ret, shutdownVars, historyVars>>

(* Faulty: the flag is not reset, or nobody is notified. *)
WorkerFinishesUnreset ==
  /\ worker = "finish"
  /\ result' = ret
  /\ NotifyAll
  /\ worker' = "loop"
  /\ nested' = "none"
  /\ UNCHANGED <<hasTask, stop, task, calls, waiting, job, ret, shutdownVars, historyVars>>

WorkerFinishesSilently ==
  /\ worker = "finish"
  /\ result' = ret
  /\ hasTask' = FALSE
  /\ worker' = "loop"
  /\ nested' = "none"
  /\ UNCHANGED <<stop, task, asleep, calls, waiting, job, ret, shutdownVars, historyVars>>

(* The mutex is taken again: the result is published, the slot freed.      *)
WorkerFinishes ==
  /\ worker = "finish"
  /\ result' = ret
  /\ hasTask' = FALSE
  /\ NotifyAll
  /\ worker' = "loop"
  /\ nested' = "none"
  /\ UNCHANGED <<stop, task, calls, waiting, job, ret, shutdownVars, historyVars>>

-----------------------------------------------------------------------------
(* Shutdown *)

Shutdown ==
  /\ ~closing /\ shutdowns < MaxShutdowns
  /\ shutdowns' = shutdowns + 1
  /\ stop' = TRUE
  /\ NotifyAll
  /\ closing' = joinable
  /\ UNCHANGED <<hasTask, task, result, calls, waiting, workerVars, joinable, historyVars>>

Join ==
  /\ closing
  /\ worker = "exited"
  /\ joinable' = FALSE
  /\ closing' = FALSE
  /\ UNCHANGED <<slotVars, asleep, calls, waiting, workerVars, shutdowns, historyVars>>

(* cv_.wait may return without a notification. *)
SpuriousWakeup(t) ==
  /\ t \in asleep
  /\ asleep' = asleep \ {t}
  /\ UNCHANGED <<slotVars, calls, waiting, workerVars, shutdownVars, historyVars>>

-----------------------------------------------------------------------------

SubmitCall(s) == SubmitRefused(s) \/ SubmitAccepted(s)
SubmitWake(s) == SubmitReturns(s) \/ SubmitSleepsAgain(s)
WorkerStep ==
  \/ WorkerSleeps
  \/ WorkerTakes
  \/ WorkerExits
  \/ WorkerBinds
  \/ WorkerBindFails
  \/ WorkerRuns
  \/ WorkerFinishes

Next ==
  \/ \E s \in Submitters : SubmitCall(s) \/ SubmitWake(s)
  \/ WorkerStep
  \/ NestedSubmit
  \/ Shutdown
  \/ Join
  \/ \E t \in Submitters \cup {Worker} : SpuriousWakeup(t)

Spec == Init /\ [][Next]_vars

(* The threads are scheduled and every task ends (its stream wait has a    *)
(* time-out).  Nobody has to call Submit or Shutdown, and no wake-up comes *)
(* for free: only a notification ends a sleep.                             *)
FairSpec ==
  /\ Spec
  /\ WF_vars(WorkerStep)
  /\ WF_vars(Join)
  /\ \A s \in Submitters : WF_vars(SubmitWake(s))

-----------------------------------------------------------------------------

(* The slot always holds a task of some caller, and whatever a task does,  *)
(* the worker and the callers only ever see result codes.                  *)
TypeOK ==
  /\ hasTask \in BOOLEAN /\ stop \in BOOLEAN
  /\ task \in Tasks /\ job \in Tasks
  /\ result \in Codes /\ ret \in Codes
  /\ asleep \subseteq Submitters \cup {Worker}
  /\ calls \in [Submitters -> 0..MaxSubmits]
  /\ waiting \subseteq Submitters
  /\ worker \in {"loop", "bind", "run", "finish", "exited"}
  /\ nested \in {"none", "refused"}
  /\ joinable \in BOOLEAN /\ closing \in BOOLEAN
  /\ shutdowns \in 0..MaxShutdowns
  /\ accepted \subseteq Tasks
  /\ outcome \in [Tasks -> Codes \cup {NoCode}]
  /\ reply \in [Tasks -> Codes \cup {NoCode}]

(* Submit blocks until the task is done: an accepted call returns only     *)
(* after the worker has finished with its task.                            *)
ReturnsAfterRun ==
  \A t \in Tasks : reply[t] # NoCode => t \in accepted /\ outcome[t] # NoCode

(* No task runs twice and none runs that was not submitted, whatever the   *)
(* interleaving of submitters, wake-ups and shutdown.                      *)
RunsOnce ==
  worker \in {"bind", "run"} => job \in accepted /\ outcome[job] = NoCode

(* Shutdown lets the task in flight finish first: when the thread is gone, *)
(* no accepted task is left without an outcome.                            *)
NoTaskLost ==
  worker = "exited" => \A t \in accepted : outcome[t] # NoCode

(* A call never returns a result from before it was made, nor the          *)
(* placeholder HCCL_E_INTERNAL that Submit puts into result_: what it      *)
(* returns is the outcome of its own task or of one accepted meanwhile,    *)
(* when that caller was first at the mutex.                                *)
ResultIsAnOutcome ==
  \A t \in Tasks :
    reply[t] # NoCode =>
      \E u \in accepted : outcome[u] = reply[t] /\ (u = t \/ u[1] # t[1])

(* comm_worker.h:35: Submit behaves like a temporary thread and a join,    *)
(* so it returns what its own task returned.                               *)
OwnResult == \A t \in Tasks : reply[t] # NoCode => reply[t] = outcome[t]

(* A caller that was let in comes out again, also across a shutdown; and   *)
(* the shutdown ends, also with a task in flight and callers waiting.      *)
EveryCallReturns ==
  /\ \A s \in Submitters : s \in waiting ~> s \notin waiting
  /\ closing ~> ~joinable
=============================================================================
