------------------------- MODULE CommWorkerProofs -------------------------
(***************************************************************************)
(* Proofs about CommWorker for any number of submitters, calls, shutdowns  *)
(* and task results.  The safety properties are about the history of the   *)
(* worker (who was accepted, what ran, what was answered); the inductive   *)
(* invariant IInv ties that history to the single slot.                    *)
(***************************************************************************)
EXTENDS CommWorker, TLAPS

USE CommWorkerAssumption DEF Codes, E_INTERNAL, E_RUNTIME

Busy == {"bind", "run", "finish"}

(* While the worker is busy the slot stays taken by the task it works on,  *)
(* and it leaves the loop only when it was told to and the slot is free.   *)
WorkerOwnsSlot ==
  /\ worker \in Busy => hasTask /\ job = task
  /\ worker = "exited" => stop /\ ~hasTask

(* Only accepted tasks have outcomes, calls are numbered upwards, and a    *)
(* waiting submitter waits for its newest call.                            *)
CallsAreNumbered ==
  /\ \A t \in Tasks : outcome[t] # NoCode => t \in accepted
  /\ \A t \in accepted : t[2] <= calls[t[1]]
  /\ \A s \in waiting : <<s, calls[s]>> \in accepted
  /\ \A s \in waiting : task[1] = s => task[2] = calls[s]

(* The task in the slot is the only one that may still lack an outcome.    *)
(* A free slot keeps the result of the task it held last.                  *)
SlotState ==
  /\ hasTask => task \in accepted
  /\ (hasTask /\ worker # "finish") => outcome[task] = NoCode
  /\ worker = "finish" => outcome[job] = ret
  /\ \A t \in accepted : outcome[t] = NoCode => hasTask /\ t = task /\ worker # "finish"
  /\ (accepted # {} /\ ~hasTask) => task \in accepted /\ result = outcome[task]

IInv ==
  /\ TypeOK
  /\ WorkerOwnsSlot
  /\ CallsAreNumbered
  /\ SlotState
  /\ ReturnsAfterRun
  /\ ResultIsAnOutcome

-----------------------------------------------------------------------------

(* A new worker has accepted nothing. *)
LEMMA InitIInv == Init => IInv
<1> SUFFICES ASSUME Init PROVE IInv
  OBVIOUS
<1>1. TypeOK
  <2>1. /\ calls \in [Submitters -> 0..MaxSubmits]
        /\ shutdowns \in 0..MaxShutdowns
    BY DEF Init
  <2>2. /\ task \in Tasks /\ job \in Tasks
        /\ result \in Codes /\ ret \in Codes
        /\ outcome \in [Tasks -> Codes \cup {NoCode}]
        /\ reply \in [Tasks -> Codes \cup {NoCode}]
    BY DEF Init
  <2>3. /\ hasTask \in BOOLEAN /\ stop \in BOOLEAN
        /\ joinable \in BOOLEAN /\ closing \in BOOLEAN
        /\ asleep \subseteq Submitters \cup {Worker}
        /\ waiting \subseteq Submitters /\ accepted \subseteq Tasks
        /\ worker \in {"loop", "bind", "run", "finish", "exited"}
        /\ nested \in {"none", "refused"}
    BY DEF Init
  <2>4. QED
    BY <2>1, <2>2, <2>3 DEF TypeOK
<1>2. WorkerOwnsSlot /\ CallsAreNumbered /\ SlotState
  BY DEF Init, WorkerOwnsSlot, CallsAreNumbered, SlotState, Busy
<1>3. ReturnsAfterRun /\ ResultIsAnOutcome
  BY DEF Init, ReturnsAfterRun, ResultIsAnOutcome
<1>4. QED
  BY <1>1, <1>2, <1>3 DEF IInv

(* Calls that are refused, wake-ups, sleeps and Shutdown touch neither the *)
(* slot nor the history, apart from the call counter and stop_.            *)
LEMMA QuietSteps ==
  ASSUME IInv,
         \/ \E s \in Submitters : SubmitRefused(s) \/ SubmitSleepsAgain(s)
         \/ WorkerSleeps \/ WorkerExits \/ NestedSubmit \/ Shutdown \/ Join
         \/ \E t \in Submitters \cup {Worker} : SpuriousWakeup(t)
         \/ UNCHANGED vars
  PROVE  IInv'
<1> USE DEF vars, slotVars, workerVars, shutdownVars, historyVars
<1>1. CASE \E s \in Submitters : SubmitRefused(s)
  <2> PICK s \in Submitters : SubmitRefused(s)
    BY <1>1
  <2> USE DEF SubmitRefused, CanSubmit
  <2>1. TypeOK'
    BY DEF IInv, TypeOK
  <2>2. WorkerOwnsSlot' /\ SlotState' /\ ReturnsAfterRun' /\ ResultIsAnOutcome'
    BY DEF IInv, WorkerOwnsSlot, SlotState, ReturnsAfterRun, ResultIsAnOutcome
  <2>3. CallsAreNumbered'
    BY DEF IInv, TypeOK, CallsAreNumbered, Tasks
  <2>4. QED
    BY <2>1, <2>2, <2>3 DEF IInv
<1>2. CASE \E s \in Submitters : SubmitSleepsAgain(s)
  BY <1>2 DEF SubmitSleepsAgain, IInv, TypeOK, WorkerOwnsSlot, CallsAreNumbered,
     SlotState, ReturnsAfterRun, ResultIsAnOutcome
<1>3. CASE WorkerSleeps
  BY <1>3 DEF WorkerSleeps, IInv, TypeOK, WorkerOwnsSlot, CallsAreNumbered,
     SlotState, ReturnsAfterRun, ResultIsAnOutcome
<1>4. CASE WorkerExits
  BY <1>4 DEF WorkerExits, IInv, TypeOK, WorkerOwnsSlot, CallsAreNumbered,
     SlotState, ReturnsAfterRun, ResultIsAnOutcome, Busy
<1>5. CASE NestedSubmit
  BY <1>5 DEF NestedSubmit, IInv, TypeOK, WorkerOwnsSlot, CallsAreNumbered,
     SlotState, ReturnsAfterRun, ResultIsAnOutcome
<1>6. CASE Shutdown
  BY <1>6 DEF Shutdown, NotifyAll, IInv, TypeOK, WorkerOwnsSlot, CallsAreNumbered,
     SlotState, ReturnsAfterRun, ResultIsAnOutcome
<1>7. CASE Join
  BY <1>7 DEF Join, IInv, TypeOK, WorkerOwnsSlot, CallsAreNumbered,
     SlotState, ReturnsAfterRun, ResultIsAnOutcome
<1>8. CASE \E t \in Submitters \cup {Worker} : SpuriousWakeup(t)
  BY <1>8 DEF SpuriousWakeup, IInv, TypeOK, WorkerOwnsSlot, CallsAreNumbered,
     SlotState, ReturnsAfterRun, ResultIsAnOutcome
<1>9. CASE UNCHANGED vars
  BY <1>9 DEF IInv, TypeOK, WorkerOwnsSlot, CallsAreNumbered, SlotState,
     ReturnsAfterRun, ResultIsAnOutcome
<1>10. QED
  BY <1>1, <1>2, <1>3, <1>4, <1>5, <1>6, <1>7, <1>8, <1>9

(* The new task has never been accepted, so it has no outcome yet.         *)
LEMMA AcceptStep ==
  ASSUME IInv, NEW s \in Submitters, SubmitAccepted(s)
  PROVE  IInv'
<1> DEFINE t == <<s, calls[s] + 1>>
<1> USE DEF slotVars, workerVars, shutdownVars, historyVars, CanSubmit
<1>1. t \in Tasks /\ t \notin accepted /\ outcome[t] = NoCode
  BY DEF IInv, TypeOK, CallsAreNumbered, Tasks, SubmitAccepted
<1>2. /\ ~hasTask /\ ~stop /\ s \notin waiting
      /\ calls' = [calls EXCEPT ![s] = @ + 1]
      /\ task' = t /\ result' = E_INTERNAL /\ hasTask'
      /\ asleep' = {s} /\ waiting' = waiting \cup {s}
      /\ accepted' = accepted \cup {t}
      /\ UNCHANGED <<stop, worker, job, ret, nested, joinable, shutdowns, closing, outcome, reply>>
  BY DEF SubmitAccepted
<1> HIDE DEF t
<1>3. (worker \notin Busy /\ worker # "exited") \/ stop
  BY <1>2 DEF IInv, WorkerOwnsSlot
<1>4. TypeOK'
  <2>1. calls' \in [Submitters -> 0..MaxSubmits]
    BY DEF IInv, TypeOK, SubmitAccepted
  <2>2. QED
    BY <1>1, <1>2, <2>1 DEF IInv, TypeOK
<1>5. WorkerOwnsSlot'
  BY <1>2 DEF IInv, WorkerOwnsSlot
<1>6. CallsAreNumbered'
  <2>1. t = <<s, calls'[s]>> /\ t[1] = s /\ t[2] = calls'[s]
    BY <1>2 DEF t, IInv, TypeOK
  <2>2. \A u \in accepted : u \in Tasks /\ u[1] \in Submitters
    BY DEF IInv, TypeOK, Tasks
  <2>3. \A q \in waiting : q # s /\ q \in Submitters
    BY <1>2 DEF IInv, TypeOK
  <2>4. \A q \in Submitters : calls'[q] = IF q = s THEN calls[q] + 1 ELSE calls[q]
    BY <1>2 DEF IInv, TypeOK
  <2>5. calls[s] \in Nat
    BY DEF IInv, TypeOK
  <2>6. \A u \in accepted' : u[2] <= calls'[u[1]]
    BY <1>2, <2>1, <2>2, <2>4, <2>5 DEF IInv, CallsAreNumbered, TypeOK, Tasks
  <2>7. QED
    BY <1>2, <2>1, <2>3, <2>4, <2>6 DEF IInv, CallsAreNumbered
<1>7. SlotState'
  BY <1>1, <1>2, <1>3 DEF IInv, SlotState, Busy
<1>8. ReturnsAfterRun' /\ ResultIsAnOutcome'
  BY <1>2 DEF IInv, ReturnsAfterRun, ResultIsAnOutcome
<1>9. QED
  BY <1>4, <1>5, <1>6, <1>7, <1>8 DEF IInv

(* The slot is free: it holds the outcome of the caller's task or of the   *)
(* task of a caller that was let in before this one had the mutex back.    *)
LEMMA ReturnStep ==
  ASSUME IInv, NEW s \in Submitters, SubmitReturns(s)
  PROVE  IInv'
<1> DEFINE t == <<s, calls[s]>>
<1> USE DEF slotVars, workerVars, shutdownVars
<1>1. /\ s \in waiting /\ ~hasTask
      /\ waiting' = waiting \ {s}
      /\ reply' = [reply EXCEPT ![t] = result]
      /\ UNCHANGED <<hasTask, stop, task, result, asleep, calls, worker, job, ret, nested,
                     joinable, shutdowns, closing, accepted, outcome>>
  BY DEF SubmitReturns
<1>2. t \in accepted /\ t \in Tasks
  BY <1>1 DEF IInv, CallsAreNumbered, TypeOK
<1>3. outcome[t] # NoCode
  BY <1>1, <1>2 DEF IInv, SlotState
<1>4. task \in accepted /\ result = outcome[task]
  BY <1>1, <1>2 DEF IInv, SlotState
<1>5. task = t \/ task[1] # t[1]
  BY <1>1, <1>4 DEF IInv, CallsAreNumbered, TypeOK, Tasks
<1> HIDE DEF t
<1>6. TypeOK'
  BY <1>1, <1>2 DEF IInv, TypeOK
<1>7. WorkerOwnsSlot' /\ CallsAreNumbered' /\ SlotState'
  BY <1>1 DEF IInv, WorkerOwnsSlot, CallsAreNumbered, SlotState
<1>8. \A u \in Tasks : reply'[u] = IF u = t THEN result ELSE reply[u]
  BY <1>1 DEF IInv, TypeOK
<1>9. ReturnsAfterRun'
  BY <1>1, <1>2, <1>3, <1>8 DEF IInv, ReturnsAfterRun
<1>10. ResultIsAnOutcome'
  BY <1>1, <1>2, <1>4, <1>5, <1>8 DEF IInv, ResultIsAnOutcome
<1>11. QED
  BY <1>6, <1>7, <1>9, <1>10 DEF IInv

(* A worker that takes the task in the slot takes one that has not run. *)
LEMMA TakeStep ==
  ASSUME IInv, WorkerTakes \/ WorkerBinds
  PROVE  IInv'
<1> USE DEF slotVars, shutdownVars, historyVars
<1>1. TypeOK'
  BY DEF IInv, TypeOK, WorkerTakes, WorkerBinds
<1>2. WorkerOwnsSlot'
  BY DEF IInv, WorkerOwnsSlot, Busy, WorkerTakes, WorkerBinds
<1>3. CallsAreNumbered' /\ ReturnsAfterRun' /\ ResultIsAnOutcome'
  BY DEF IInv, CallsAreNumbered, ReturnsAfterRun, ResultIsAnOutcome, WorkerTakes, WorkerBinds
<1>4. SlotState'
  BY DEF IInv, SlotState, WorkerTakes, WorkerBinds
<1>5. QED
  BY <1>1, <1>2, <1>3, <1>4 DEF IInv

(* The task in hand gets its outcome, and nobody has been answered with it *)
(* before.                                                                 *)
LEMMA RunStep ==
  ASSUME IInv, WorkerBindFails \/ WorkerRuns
  PROVE  IInv'
<1> USE DEF slotVars, shutdownVars
<1>1. PICK code \in Codes :
        /\ worker \in {"bind", "run"} /\ worker' = "finish"
        /\ ret' = code /\ outcome' = [outcome EXCEPT ![job] = code]
        /\ UNCHANGED <<hasTask, stop, task, result, asleep, calls, waiting, job, nested,
                       joinable, shutdowns, closing, accepted, reply>>
  BY DEF WorkerBindFails, WorkerRuns
<1>2. hasTask /\ job = task /\ job \in Tasks /\ job \in accepted /\ outcome[job] = NoCode
  BY <1>1 DEF IInv, TypeOK, WorkerOwnsSlot, SlotState, Busy
<1>3. \A u \in Tasks : outcome'[u] = IF u = job THEN code ELSE outcome[u]
  BY <1>1 DEF IInv, TypeOK
<1>4. code # NoCode
  OBVIOUS
<1>5. TypeOK'
  BY <1>1, <1>2 DEF IInv, TypeOK
<1>6. WorkerOwnsSlot'
  BY <1>1, <1>2 DEF IInv, WorkerOwnsSlot, Busy
<1>7. CallsAreNumbered'
  BY <1>1, <1>2, <1>3 DEF IInv, CallsAreNumbered
<1>8. accepted \subseteq Tasks
  BY DEF IInv, TypeOK
<1>9. SlotState'
  BY <1>1, <1>2, <1>3, <1>4, <1>8 DEF IInv, SlotState
<1>10. ReturnsAfterRun'
  BY <1>1, <1>2, <1>3, <1>4 DEF IInv, ReturnsAfterRun
<1>11. ResultIsAnOutcome'
  BY <1>1, <1>2, <1>3, <1>8 DEF IInv, ResultIsAnOutcome
<1>12. QED
  BY <1>5, <1>6, <1>7, <1>9, <1>10, <1>11 DEF IInv

(* The worker publishes the outcome of the task in the slot and frees it. *)
LEMMA FinishStep ==
  ASSUME IInv, WorkerFinishes
  PROVE  IInv'
<1> USE DEF WorkerFinishes, NotifyAll, shutdownVars, historyVars
<1>1. TypeOK'
  BY DEF IInv, TypeOK
<1>2. WorkerOwnsSlot' /\ CallsAreNumbered' /\ ReturnsAfterRun' /\ ResultIsAnOutcome'
  BY DEF IInv, WorkerOwnsSlot, CallsAreNumbered, ReturnsAfterRun, ResultIsAnOutcome, Busy
<1>3. SlotState'
  BY DEF IInv, SlotState, WorkerOwnsSlot, Busy
<1>4. QED
  BY <1>1, <1>2, <1>3 DEF IInv

(* The slot, the worker and the history of calls stay consistent, for any  *)
(* number of callers.                                                      *)
THEOREM Invariance == Spec => []IInv
<1>1. Init => IInv
  BY InitIInv
<1>2. IInv /\ [Next]_vars => IInv'
  BY QuietSteps, AcceptStep, ReturnStep, TakeStep, RunStep, FinishStep
     DEF Next, SubmitCall, SubmitWake, WorkerStep
<1>3. QED
  BY <1>1, <1>2, PTL DEF Spec

-----------------------------------------------------------------------------

(* Submit, WorkerLoop and Shutdown keep every field in its domain.         *)
THEOREM TypeCorrect == Spec => []TypeOK
<1>1. IInv => TypeOK
  BY DEF IInv
<1>2. QED
  BY <1>1, Invariance, PTL

(* An accepted Submit returns only after its task is done.                 *)
THEOREM CallsReturnAfterTheirTask == Spec => []ReturnsAfterRun
<1>1. IInv => ReturnsAfterRun
  BY DEF IInv
<1>2. QED
  BY <1>1, Invariance, PTL

(* The worker runs accepted tasks only, and none of them a second time.    *)
THEOREM TasksRunOnce == Spec => []RunsOnce
<1>1. IInv => RunsOnce
  BY DEF IInv, RunsOnce, WorkerOwnsSlot, SlotState, Busy
<1>2. QED
  BY <1>1, Invariance, PTL

(* Shutdown takes no accepted task with it.                                *)
THEOREM NoAcceptedTaskIsLost == Spec => []NoTaskLost
<1>1. IInv => NoTaskLost
  BY DEF IInv, NoTaskLost, WorkerOwnsSlot, SlotState
<1>2. QED
  BY <1>1, Invariance, PTL

(* What a Submit returns is the outcome of its own task or of the task of  *)
(* another caller.                                                         *)
THEOREM ResultsAreOutcomes == Spec => []ResultIsAnOutcome
<1>1. IInv => ResultIsAnOutcome
  BY DEF IInv
<1>2. QED
  BY <1>1, Invariance, PTL

(* With one calling thread per communicator Submit is what its comment     *)
(* says: a call and its own result.                                        *)
THEOREM SerialCallersGetTheirOwnResult ==
  ASSUME \A p, q \in Submitters : p = q
  PROVE  Spec => []OwnResult
<1>1. IInv => OwnResult
  BY DEF IInv, TypeOK, ResultIsAnOutcome, OwnResult, Tasks
<1>2. QED
  BY <1>1, Invariance, PTL
=============================================================================
