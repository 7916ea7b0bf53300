------------------------ MODULE CommWorkerMgrProofs ------------------------
(***************************************************************************)
(* Proofs about CommWorkerMgr for any number of communicators, callers,    *)
(* callbacks, operations and workers: types, no worker without a context,  *)
(* no task on freed resources, one worker per communicator, and no thread  *)
(* left at exit.                                                           *)
(***************************************************************************)
EXTENDS CommWorkerMgr, FiniteSetTheorems, TLAPS

(* Those that submit, and those that take a context away. *)
Users == Callers \cup Workers
Closers == Callers \cup Cleaners

(* From the creation of a context to its first use, and from the decision  *)
(* to take it away to its end, its communicator is the closer's.           *)
Closing == {"fill", "erase", "erasing", "shutdown", "join", "cleanup", "destroy"}

(* Where the threads can stand. *)
Places ==
  /\ \A t \in Callers : pc[t] \in {"idle"} \cup Closing \cup InSubmit
  /\ \A t \in Cleaners : pc[t] \in {"idle"} \cup (Closing \ {"fill"})
  /\ \A w \in Workers : pc[w] \in {"idle"} \cup InSubmit
  /\ pc[Exiter] \in {"idle", "swap", "shutdown", "join", "members", "exited"}

(* The write lock is held between taking and releasing it. *)
Mutex == \A t \in Threads : pc[t] \in {"creating", "erasing", "swap"} <=> lock = t

(* Contexts are counted against the operations of the callers. *)
Begun == {s \in Callers \X (1..MaxOps) : s[2] <= calls[s[1]]}
Counted ==
  /\ \A t \in Callers : calls[t] <= MaxOps
  /\ ctxs <= Cardinality(Begun)

(* A context is one communicator's.  A closer works on the context of its  *)
(* communicator, and so does, on one that is usable, whoever is in Submit  *)
(* and has not reached a worker.  Without a closer it is usable.           *)
Contexts ==
  /\ \A c \in Comms : ctx[c] <= ctxs
  /\ \A c, d \in Comms : ctx[c] = ctx[d] /\ ctx[c] # NoCtx => c = d
  /\ \A t \in Closers : pc[t] \in Closing => ctx[on[t]] = negCtx[t] /\ negCtx[t] # NoCtx
  /\ \A t \in Users : pc[t] \in {"lookup", "create", "creating"} =>
       ctx[on[t]] = negCtx[t] /\ negCtx[t] \in usable
  /\ \A c \in Comms : ctx[c] = NoCtx \/ ctx[c] \in usable
                      \/ \E t \in Closers : pc[t] \in Closing /\ on[t] = c

(* Beside a closer there is nobody on its communicator, but for those who  *)
(* have found their worker before a callback.                              *)
Exclusion ==
  \A t \in Closers : pc[t] \in Closing =>
    \A u \in Closers \cup Workers : u # t /\ Busy(u, on[t]) =>
      t \in Cleaners /\ u \notin Cleaners /\ pc[u] \in AtWorker

(* Thread t has taken worker w out of the map to shut it down. *)
Takes(t, w) ==
  /\ t \in Closers \cup {Exiter} /\ pc[t] \in {"shutdown", "join"}
  /\ w \in held[t] /\ (t = Exiter \/ on[t] = comm[w])

(* A worker whose thread runs has a usable context, and is in the map or   *)
(* with the thread that has taken it out.                                  *)
Life ==
  /\ \A c \in Comms : workers[c] # NoWorker => comm[workers[c]] = c /\ ctx[c] # NoCtx
  /\ \A w \in Started \ gone : ctx[comm[w]] \in usable
  /\ \A w \in Started \ gone : workers[comm[w]] = w \/ \E t \in Threads : Takes(t, w)

(* What a closer has done with the worker of its communicator. *)
Removal ==
  /\ \A t \in Closers : pc[t] \in {"shutdown", "join"} =>
       workers[on[t]] = NoWorker /\ \A v, w \in held[t] : v = w
  /\ \A t \in Closers : pc[t] \in {"cleanup", "destroy"} \/ (t \in Callers /\ pc[t] \in Closing) =>
       workers[on[t]] = NoWorker /\ \A w \in Started : comm[w] = on[t] => w \in gone
  /\ \A t \in Threads : pc[t] = "join" => held[t] \subseteq stop
  /\ pc[Exiter] \notin {"shutdown", "join"} => held[Exiter] = {}

(* A task runs on a live worker with the communicator's context, and its   *)
(* asker waits for no other; a worker in Submit is in its own task; and a  *)
(* worker about to get a task has not outlived the context of the asker.   *)
Tasks ==
  /\ \A w \in Workers : task[w] # NoCtx =>
       /\ w \in Started \ gone /\ task[w] = ctx[comm[w]]
       /\ asker[w] \in Users /\ pc[asker[w]] = "waiting"
  /\ \A v, w \in Workers : task[v] # NoCtx /\ task[w] # NoCtx /\ asker[v] = asker[w] => v = w
  /\ \A w \in Workers : pc[w] # "idle" => task[w] # NoCtx /\ on[w] = comm[w]
  /\ \A t \in Users : pc[t] = "submit" => \A w \in held[t] :
       comm[w] = on[t] /\ (w \notin gone => negCtx[t] = ctx[on[t]])

(* At exit only the threads that wait for a task, and the tasks, are left. *)
Leaving ==
  /\ Exiting => /\ \A t \in Callers : pc[t] \in {"idle", "waiting"}
                /\ \A t \in Cleaners : pc[t] = "idle"
  /\ pc[Exiter] = "exited" => Started = gone

IInv ==
  /\ TypeOK /\ Places /\ Mutex /\ Counted /\ Contexts /\ Exclusion /\ Life /\ Removal
  /\ Tasks /\ Leaving

-----------------------------------------------------------------------------
(* The kinds of threads, and the numbers that name nothing. *)
LEMMA Kinds ==
  /\ \A t \in Callers : t \in Threads /\ t \in Users /\ t \in Closers /\ t \notin Cleaners
                        /\ t \notin Workers /\ t # Exiter
  /\ \A t \in Cleaners : t \in Threads /\ t \notin Users /\ t \in Closers /\ t \notin Callers
                         /\ t \notin Workers /\ t # Exiter
  /\ \A t \in Workers : t \in Threads /\ t \in Users /\ t \notin Closers /\ t \notin Callers
                        /\ t \notin Cleaners /\ t # Exiter
  /\ \A t \in Users : t \in Threads /\ (t \in Callers \/ t \in Workers)
  /\ \A t \in Closers : t \in Threads /\ (t \in Callers \/ t \in Cleaners)
  /\ Exiter \in Threads /\ Exiter \notin Users \cup Closers
  /\ \A t \in Threads : t \in Callers \/ t \in Cleaners \/ t \in Workers \/ t = Exiter
  /\ Nobody \notin Threads /\ NoWorker \notin Workers
BY MgrAssumption DEF Threads, Users, Closers, Workers, Nobody, NoWorker

(* The workers started are an initial part of the workers. *)
LEMMA StartedFacts ==
  ASSUME TypeOK
  PROVE  /\ Started \subseteq Workers /\ NoWorker \notin Started
         /\ comm \in [Started -> Comms] /\ Cardinality(Started) \in 0..MaxWorkers
         /\ Started = 1..Cardinality(Started)
         /\ \A w \in Started : comm[w] \in Comms
         /\ \A c \in Comms : workers[c] \in Started \cup {NoWorker}
         /\ \A t \in Threads : held[t] \subseteq Started /\ on[t] \in Comms
         /\ gone \subseteq stop /\ stop \subseteq Started
<1>1. PICK n \in 0..MaxWorkers : comm \in [1..n -> Comms]
  BY DEF TypeOK
<1>2. Started = 1..n /\ comm \in [Started -> Comms]
  BY <1>1 DEF Started
<1>3. Cardinality(1..n) = n
  BY <1>1, MgrAssumption, FS_Interval
<1>4. /\ \A c \in Comms : workers[c] \in Started \cup {NoWorker}
      /\ \A t \in Threads : held[t] \subseteq Started /\ on[t] \in Comms
      /\ gone \subseteq stop /\ stop \subseteq Started
  BY DEF TypeOK
<1> QED
  BY <1>1, <1>2, <1>3, <1>4, MgrAssumption DEF Workers, NoWorker

(* A thread goes from one place to another. *)
LEMMA GoesFacts ==
  ASSUME TypeOK, NEW t \in Threads, NEW where \in Stages, Goes(t, where)
  PROVE  /\ pc' \in [Threads -> Stages] /\ pc'[t] = where
         /\ \A u \in Threads : u # t => pc'[u] = pc[u]
BY DEF TypeOK, Goes

LEMMA ReturnsFacts ==
  ASSUME TypeOK, NEW t \in Threads, Returns(t)
  PROVE  /\ pc' \in [Threads -> Stages] /\ pc'[t] = "idle"
         /\ negCtx' \in [Threads -> 0..MaxCtx] /\ negCtx'[t] = NoCtx
         /\ held' \in [Threads -> SUBSET Started] /\ held'[t] = {}
         /\ \A u \in Threads : u # t =>
              pc'[u] = pc[u] /\ negCtx'[u] = negCtx[u] /\ held'[u] = held[u]
<1>1. MaxCtx \in Nat
  BY FS_CardinalityType, MgrAssumption DEF MaxCtx
<1> QED
  BY <1>1 DEF TypeOK, Returns, Goes, Stages, NoCtx

(* There is room for the context of one more operation. *)
LEMMA CountFacts ==
  ASSUME IInv, NEW t \in Callers, calls[t] < MaxOps, Counts(t)
  PROVE  /\ calls' \in [Threads -> Nat] /\ \A u \in Callers : calls'[u] <= MaxOps
         /\ ctxs + 1 <= Cardinality(Begun') /\ Cardinality(Begun') <= MaxCtx
         /\ Cardinality(Begun') \in Nat
         /\ \A u \in Threads : u # t => calls'[u] = calls[u]
<1>1. /\ calls' \in [Threads -> Nat] /\ calls'[t] = calls[t] + 1 /\ calls[t] \in Nat
      /\ \A u \in Threads : u # t => calls'[u] = calls[u]
  BY Kinds DEF IInv, TypeOK, Counts
<1>2. Callers \subseteq Threads
  BY Kinds
<1>3. Begun' = Begun \cup {<<t, calls[t] + 1>>} /\ <<t, calls[t] + 1>> \notin Begun
  BY <1>1, <1>2, MgrAssumption DEF Begun, IInv, TypeOK
<1>4. /\ IsFiniteSet(Callers \X (1..MaxOps))
      /\ Cardinality(Callers \X (1..MaxOps)) = MaxCtx
  <2>1. IsFiniteSet(1..MaxOps) /\ Cardinality(1..MaxOps) = MaxOps
    BY FS_Interval, MgrAssumption
  <2> QED
    BY <2>1, FS_Product, MgrAssumption DEF MaxCtx
<1>5. Begun \subseteq Callers \X (1..MaxOps) /\ Begun' \subseteq Callers \X (1..MaxOps)
  BY DEF Begun
<1>6. IsFiniteSet(Begun) /\ Cardinality(Begun') <= MaxCtx
  BY <1>4, <1>5, FS_Subset
<1>7. Cardinality(Begun') = Cardinality(Begun) + 1 /\ Cardinality(Begun) \in Nat
  BY <1>3, <1>6, FS_AddElement, FS_CardinalityType
<1>8. \A u \in Callers : calls'[u] <= MaxOps
  <2>1. calls'[t] <= MaxOps
    BY <1>1, MgrAssumption
  <2> QED
    BY <1>1, <1>2, <2>1 DEF IInv, Counted
<1>9. ctxs + 1 <= Cardinality(Begun')
  <2>1. ctxs <= Cardinality(Begun) /\ ctxs \in Int
    BY DEF IInv, Counted, TypeOK
  <2> QED
    BY <1>7, <2>1
<1> QED
  BY <1>1, <1>6, <1>7, <1>8, <1>9

(* Exclusion lasts while nobody begins anything, leaves a worker other     *)
(* than by returning, or begins to close.                                  *)
LEMMA ExclusionKept ==
  ASSUME IInv,
         \A u \in Closers \cup Workers :
           /\ pc'[u] \in Closing => pc[u] \in Closing
           /\ pc'[u] # "idle" => pc[u] # "idle" /\ on'[u] = on[u]
           /\ pc[u] \in AtWorker => pc'[u] \in AtWorker \cup {"idle"}
  PROVE  Exclusion'
<1> SUFFICES ASSUME NEW a \in Closers, pc'[a] \in Closing,
                    NEW u \in Closers \cup Workers, u # a, Busy(u, on[a])'
             PROVE  a \in Cleaners /\ u \notin Cleaners /\ pc'[u] \in AtWorker
  BY Zenon DEF Exclusion
<1>1. /\ a \in Closers \cup Workers
      /\ pc'[a] # "idle" /\ pc[a] \in Closing /\ on'[a] = on[a] /\ pc'[u] # "idle"
  BY DEF Closing, Busy
<1>2. Busy(u, on[a])
  BY <1>1 DEF Busy
<1> QED
  BY <1>1, <1>2 DEF IInv, Exclusion

(* A thread may begin to submit where nobody closes. *)
LEMMA ExclusionJoined ==
  ASSUME IInv, NEW t \in Users, pc'[t] = "lookup",
         \A u \in Closers \cup Workers : u # t => pc'[u] = pc[u] /\ on'[u] = on[u],
         \A u \in Closers : pc[u] \in Closing => on[u] # on'[t]
  PROVE  Exclusion'
<1> SUFFICES ASSUME NEW a \in Closers, pc'[a] \in Closing,
                    NEW u \in Closers \cup Workers, u # a, Busy(u, on[a])'
             PROVE  a \in Cleaners /\ u \notin Cleaners /\ pc'[u] \in AtWorker
  BY Zenon DEF Exclusion
<1>1. a # t /\ pc[a] \in Closing /\ on'[a] = on[a]
  BY DEF Closing
<1>2. u # t
  BY <1>1 DEF Busy
<1>3. Busy(u, on[a]) /\ pc'[u] = pc[u]
  BY <1>1, <1>2 DEF Busy
<1> QED
  BY <1>1, <1>3 DEF IInv, Exclusion

(* Beside a closer nobody else closes or has yet to reach a worker. *)
LEMMA NotBeside ==
  ASSUME IInv, NEW t \in Closers, pc[t] \in Closing,
         NEW u \in Closers \cup Workers, u # t,
         pc[u] \in Closing \cup {"lookup", "create", "creating"}
  PROVE  on[u] # on[t]
<1>1. pc[u] # "idle" /\ pc[u] \notin AtWorker
  BY DEF Closing, AtWorker
<1> QED
  BY <1>1, Kinds DEF IInv, Exclusion, Busy

(* Initially there are no contexts and no workers. *)
LEMMA InitIInv == Init => IInv
<1> SUFFICES ASSUME Init PROVE IInv
  OBVIOUS
<1>1. MaxCtx \in Nat /\ Cardinality(Begun) \in Nat
  <2>1. Begun = {}
    BY Kinds DEF Init, Begun
  <2> QED
    BY <2>1, FS_EmptySet, FS_CardinalityType, MgrAssumption DEF MaxCtx
<1>2. Started = {} /\ comm \in [1..0 -> Comms]
  BY DEF Init, Started
<1>3. TypeOK
  <2>1. /\ ctx \in [Comms -> 0..MaxCtx] /\ ctxs \in 0..MaxCtx /\ usable \subseteq 1..MaxCtx
        /\ task \in [Workers -> 0..MaxCtx] /\ negCtx \in [Threads -> 0..MaxCtx]
    BY <1>1 DEF Init, NoCtx
  <2>2. /\ workers \in [Comms -> {NoWorker} \cup Started]
        /\ \E n \in 0..MaxWorkers : comm \in [1..n -> Comms]
    <3>1. 0 \in 0..MaxWorkers
      BY MgrAssumption
    <3> QED
      BY <1>2, <3>1 DEF Init
  <2>3. /\ asker \in [Workers -> Threads \cup {Nobody}] /\ lock \in Threads \cup {Nobody}
        /\ pc \in [Threads -> Stages] /\ on \in [Threads -> Comms] /\ stop \subseteq Started
        /\ gone \subseteq stop /\ held \in [Threads -> SUBSET Started]
        /\ calls \in [Threads -> Nat]
    BY DEF Init, Stages
  <2> QED
    BY <2>1, <2>2, <2>3 DEF TypeOK
<1>4. Places /\ Mutex /\ Leaving
  BY Kinds DEF Init, Places, Mutex, Leaving, Exiting
<1>5. Counted
  BY <1>1, Kinds, MgrAssumption DEF Init, Counted
<1>6. \A t \in Threads : pc[t] = "idle" /\ held[t] = {}
  BY DEF Init
<1>7. Contexts
  <2>1. \A c \in Comms : ctx[c] = 0 /\ ctxs = 0
    BY DEF Init, NoCtx
  <2> QED
    BY <1>6, <2>1, Kinds DEF Contexts, Closing, NoCtx
<1>8. Exclusion /\ Removal
  BY <1>6, Kinds DEF Exclusion, Removal, Closing
<1>9. Life /\ Tasks
  <2>1. \A w \in Workers : task[w] = NoCtx
    BY DEF Init
  <2>2. \A c \in Comms : workers[c] = NoWorker
    BY DEF Init
  <2> QED
    BY <1>2, <1>6, <2>1, <2>2, Kinds DEF Life, Tasks
<1> QED
  BY <1>3, <1>4, <1>5, <1>7, <1>8, <1>9 DEF IInv

-----------------------------------------------------------------------------
(* The actions, one after the other.                                     *)

(* A context is filled, or that fails and it goes again.                   *)
LEMMA FillPreserves ==
  ASSUME IInv, NEW t \in Threads, Fill(t)
  PROVE  IInv'
<1> USE DEF IInv
<1>1. /\ t \in Callers /\ t \in Closers /\ pc[t] = "fill"
      /\ UNCHANGED <<ctx, ctxs, workers, comm, task, asker, stop, gone, lock, on, negCtx, held, calls>>
  BY Kinds DEF Fill, Places, Closing, InSubmit, workerVars
<1>2. /\ pc' \in [Threads -> Stages] /\ \A u \in Threads : u # t => pc'[u] = pc[u]
      /\ \/ pc'[t] = "lookup" /\ usable' = usable \cup {negCtx[t]}
         \/ pc'[t] = "erase" /\ usable' = usable
  BY <1>1, GoesFacts DEF Fill, Stages
<1>3. negCtx[t] \in 1..MaxCtx /\ ctx[on[t]] = negCtx[t]
  BY <1>1, Kinds DEF Contexts, Closing, TypeOK, NoCtx
<1>4. TypeOK'
  BY <1>1, <1>2, <1>3 DEF TypeOK, Started
<1>5. Places'
  BY <1>1, <1>2, <1>3, Kinds DEF Places, Closing, InSubmit
<1>6. Mutex'
  BY <1>1, <1>2, <1>3, Kinds DEF Mutex
<1>7. Counted'
  BY <1>1, <1>2, <1>3 DEF Counted, Begun
<1>8. Contexts'
  BY <1>1, <1>2, <1>3, Kinds DEF Contexts, Closing, NoCtx
<1>9. Exclusion'
  BY <1>1, <1>2, <1>3, Kinds, ExclusionKept DEF Closing, AtWorker
<1>10. Life'
  BY <1>1, <1>2, <1>3, Kinds DEF Life, Takes, Started
<1>11. Removal'
  BY <1>1, <1>2, <1>3, Kinds DEF Removal, Closing, Started
<1>12. Tasks'
  BY <1>1, <1>2, <1>3, Kinds DEF Tasks, Started
<1>13. Leaving'
  BY <1>1, <1>2, <1>3, Kinds DEF Leaving, Exiting, Started
<1> QED
  BY <1>4, <1>5, <1>6, <1>7, <1>8, <1>9, <1>10, <1>11, <1>12, <1>13

(* A submitter finds its worker under the read lock, or none.              *)
LEMMA LookUpPreserves ==
  ASSUME IInv, NEW t \in Threads, LookUp(t)
  PROVE  IInv'
<1> USE DEF IInv
<1>1. /\ t \in Users /\ pc[t] = "lookup" /\ lock = Nobody
      /\ UNCHANGED <<ctx, ctxs, usable, workers, comm, task, asker, stop, gone, lock, on, negCtx, calls>>
  BY Kinds DEF LookUp, Places, Closing, InSubmit, ctxVars, workerVars
<1>2. /\ pc' \in [Threads -> Stages] /\ \A u \in Threads : u # t => pc'[u] = pc[u]
      /\ \/ /\ pc'[t] = "submit" /\ workers[on[t]] # NoWorker
            /\ held' = [held EXCEPT ![t] = {workers[on[t]]}]
         \/ pc'[t] = "create" /\ held' = held
  BY <1>1, GoesFacts DEF LookUp, Stages
<1>3. on[t] \in Comms /\ workers[on[t]] \in Started \cup {NoWorker} /\ on[t] = on'[t]
  BY <1>1 DEF TypeOK
<1>4. /\ held' \in [Threads -> SUBSET Started] /\ \A u \in Threads : u # t => held'[u] = held[u]
      /\ pc'[t] = "submit" => held'[t] = {workers[on[t]]}
  <2>1. CASE held' = held /\ pc'[t] = "create"
    BY <2>1 DEF TypeOK
  <2>2. CASE workers[on[t]] # NoWorker /\ held' = [held EXCEPT ![t] = {workers[on[t]]}]
    <3>1. {workers[on[t]]} \in SUBSET Started /\ held \in [Threads -> SUBSET Started]
      BY <1>3, <2>2 DEF TypeOK
    <3> QED
      BY <2>2, <3>1
  <2> QED
    BY <1>2, <2>1, <2>2
<1>5. TypeOK'
  BY <1>1, <1>2, <1>3, <1>4 DEF TypeOK, Started
<1>6. Places'
  BY <1>1, <1>2, <1>3, <1>4, Kinds DEF Places, Closing, InSubmit
<1>7. Mutex'
  BY <1>1, <1>2, <1>3, <1>4, Kinds DEF Mutex
<1>8. Counted'
  BY <1>1, <1>2, <1>3, <1>4 DEF Counted, Begun
<1>9. Contexts'
  BY <1>1, <1>2, <1>3, <1>4, Kinds DEF Contexts, Closing, NoCtx
<1>10. Exclusion'
  BY <1>1, <1>2, <1>3, <1>4, Kinds, ExclusionKept DEF Closing, AtWorker
<1>11. Life'
  BY <1>1, <1>2, <1>3, <1>4, Kinds DEF Life, Takes, Started
<1>12. Removal'
  BY <1>1, <1>2, <1>3, <1>4, Kinds DEF Removal, Closing, Started
<1>13. Tasks'
  BY <1>1, <1>2, <1>3, <1>4, Kinds DEF Tasks, Started, Life, Contexts
<1>14. Leaving'
  BY <1>1, <1>2, <1>3, <1>4, Kinds DEF Leaving, Exiting, Started
<1> QED
  BY <1>5, <1>6, <1>7, <1>8, <1>9, <1>10, <1>11, <1>12, <1>13, <1>14

(* A submitter that found none takes the write lock.                       *)
LEMMA LockToCreatePreserves ==
  ASSUME IInv, NEW t \in Threads, LockToCreate(t)
  PROVE  IInv'
<1> USE DEF IInv
<1>1. /\ t \in Users /\ pc[t] = "create" /\ lock = Nobody /\ lock' = t
      /\ UNCHANGED <<ctx, ctxs, usable, workers, comm, task, asker, stop, gone, on, negCtx, held, calls>>
  BY Kinds DEF LockToCreate, Places, Closing, InSubmit, ctxVars, workerVars
<1>2. /\ pc' \in [Threads -> Stages] /\ pc'[t] = "creating"
      /\ \A u \in Threads : u # t => pc'[u] = pc[u]
  BY <1>1, GoesFacts DEF LockToCreate, Stages
<1>3. TypeOK'
  BY <1>1, <1>2 DEF TypeOK, Started
<1>4. Places'
  BY <1>1, <1>2, Kinds DEF Places, Closing, InSubmit
<1>5. Mutex'
  BY <1>1, <1>2, Kinds DEF Mutex
<1>6. Counted'
  BY <1>1, <1>2 DEF Counted, Begun
<1>7. Contexts'
  BY <1>1, <1>2, Kinds DEF Contexts, Closing, NoCtx
<1>8. Exclusion'
  BY <1>1, <1>2, Kinds, ExclusionKept DEF Closing, AtWorker
<1>9. Life'
  BY <1>1, <1>2, Kinds DEF Life, Takes, Started
<1>10. Removal'
  BY <1>1, <1>2, Kinds DEF Removal, Closing, Started
<1>11. Tasks'
  BY <1>1, <1>2, Kinds DEF Tasks, Started
<1>12. Leaving'
  BY <1>1, <1>2, Kinds DEF Leaving, Exiting, Started
<1> QED
  BY <1>3, <1>4, <1>5, <1>6, <1>7, <1>8, <1>9, <1>10, <1>11, <1>12

(* A closer takes the write lock.                                          *)
LEMMA LockToErasePreserves ==
  ASSUME IInv, NEW t \in Threads, LockToErase(t)
  PROVE  IInv'
<1> USE DEF IInv
<1>1. /\ t \in Closers /\ pc[t] = "erase" /\ lock = Nobody /\ lock' = t
      /\ UNCHANGED <<ctx, ctxs, usable, workers, comm, task, asker, stop, gone, on, negCtx, held, calls>>
  BY Kinds DEF LockToErase, Places, Closing, InSubmit, ctxVars, workerVars
<1>2. /\ pc' \in [Threads -> Stages] /\ pc'[t] = "erasing"
      /\ \A u \in Threads : u # t => pc'[u] = pc[u]
  BY <1>1, GoesFacts DEF LockToErase, Stages
<1>3. TypeOK'
  BY <1>1, <1>2 DEF TypeOK, Started
<1>4. Places'
  BY <1>1, <1>2, Kinds DEF Places, Closing, InSubmit
<1>5. Mutex'
  BY <1>1, <1>2, Kinds DEF Mutex
<1>6. Counted'
  BY <1>1, <1>2 DEF Counted, Begun
<1>7. Contexts'
  BY <1>1, <1>2, Kinds DEF Contexts, Closing, NoCtx
<1>8. Exclusion'
  BY <1>1, <1>2, Kinds, ExclusionKept DEF Closing, AtWorker
<1>9. Life'
  BY <1>1, <1>2, Kinds DEF Life, Takes, Started
<1>10. Removal'
  BY <1>1, <1>2, Kinds DEF Removal, Closing, Started
<1>11. Tasks'
  BY <1>1, <1>2, Kinds DEF Tasks, Started
<1>12. Leaving'
  BY <1>1, <1>2, Kinds DEF Leaving, Exiting, Started
<1> QED
  BY <1>3, <1>4, <1>5, <1>6, <1>7, <1>8, <1>9, <1>10, <1>11, <1>12

(* The workers taken out are stopped.                                      *)
LEMMA ShutdownPreserves ==
  ASSUME IInv, NEW t \in Threads, ShutdownTaken(t)
  PROVE  IInv'
<1> USE DEF IInv
<1>1. /\ t \in Closers \cup {Exiter} /\ pc[t] = "shutdown" /\ stop' = stop \cup held[t]
      /\ UNCHANGED <<ctx, ctxs, usable, workers, comm, task, asker, gone, lock, on, negCtx, held, calls>>
  BY Kinds DEF ShutdownTaken, Places, Closing, InSubmit, ctxVars
<1>2. /\ pc' \in [Threads -> Stages] /\ pc'[t] = "join"
      /\ \A u \in Threads : u # t => pc'[u] = pc[u]
  BY <1>1, GoesFacts DEF ShutdownTaken, Stages
<1>3. TypeOK'
  BY <1>1, <1>2 DEF TypeOK, Started
<1>4. Places'
  BY <1>1, <1>2, Kinds DEF Places, Closing, InSubmit
<1>5. Mutex'
  BY <1>1, <1>2, Kinds DEF Mutex
<1>6. Counted'
  BY <1>1, <1>2 DEF Counted, Begun
<1>7. Contexts'
  BY <1>1, <1>2, Kinds DEF Contexts, Closing, NoCtx
<1>8. Exclusion'
  BY <1>1, <1>2, Kinds, ExclusionKept DEF Closing, AtWorker
<1>9. Life'
  BY <1>1, <1>2, Kinds DEF Life, Takes, Started
<1>10. Removal'
  BY <1>1, <1>2, Kinds DEF Removal, Closing, Started
<1>11. Tasks'
  BY <1>1, <1>2, Kinds DEF Tasks, Started
<1>12. Leaving'
  BY <1>1, <1>2, Kinds DEF Leaving, Exiting, Started
<1> QED
  BY <1>3, <1>4, <1>5, <1>6, <1>7, <1>8, <1>9, <1>10, <1>11, <1>12

(* A stopped worker without a task ends.                                   *)
LEMMA WorkerEndsPreserves ==
  ASSUME IInv, NEW w \in Workers, WorkerEnds(w)
  PROVE  IInv'
<1> USE DEF IInv
<1>1. /\ w \in stop \ gone /\ task[w] = NoCtx /\ gone' = gone \cup {w}
      /\ UNCHANGED <<ctx, ctxs, usable, workers, comm, task, asker, stop, lock, pc, on, negCtx, held, calls>>
  BY DEF WorkerEnds, ctxVars
<1>2. TypeOK'
  BY <1>1 DEF TypeOK, Started
<1>3. Places'
  BY <1>1, Kinds DEF Places, Closing, InSubmit
<1>4. Mutex'
  BY <1>1, Kinds DEF Mutex
<1>5. Counted'
  BY <1>1 DEF Counted, Begun
<1>6. Contexts'
  BY <1>1, Kinds DEF Contexts, Closing, NoCtx
<1>7. Exclusion'
  BY <1>1, Kinds, ExclusionKept DEF Closing, AtWorker
<1>8. Life'
  BY <1>1, Kinds DEF Life, Takes, Started
<1>9. Removal'
  BY <1>1, Kinds DEF Removal, Closing, Started
<1>10. Tasks'
  BY <1>1, Kinds DEF Tasks, Started
<1>11. Leaving'
  BY <1>1 DEF Leaving, Exiting, Started, TypeOK
<1> QED
  BY <1>2, <1>3, <1>4, <1>5, <1>6, <1>7, <1>8, <1>9, <1>10, <1>11

(* An operation finds the context of its communicator.                     *)
LEMMA NegotiateFoundPreserves ==
  ASSUME IInv, NEW t \in Callers, NEW c \in Comms, Negotiate(t, c), ctx[c] # NoCtx
  PROVE  IInv'
<1> USE DEF IInv
<1>1. /\ t \in Threads /\ t \in Closers /\ t \in Users /\ pc[t] = "idle" /\ calls[t] < MaxOps /\ ~ Exiting
      /\ \A u \in Callers : Busy(u, c) => ctx[c] # NoCtx /\ pc[u] \in InSubmit
      /\ \A u \in Cleaners : ~ Busy(u, c)
  BY Kinds DEF Negotiate, CanNegotiate
<1>2. /\ UNCHANGED <<usable, workers, comm, task, asker, stop, gone, lock, held>>
      /\ on' \in [Threads -> Comms] /\ on'[t] = c /\ \A u \in Threads : u # t => on'[u] = on[u]
  BY <1>1 DEF Negotiate, ctxVars, workerVars, TypeOK
<1>3. /\ calls' \in [Threads -> Nat] /\ \A u \in Callers : calls'[u] <= MaxOps
      /\ ctxs + 1 <= Cardinality(Begun') /\ Cardinality(Begun') <= MaxCtx /\ ctxs \in Nat
      /\ Cardinality(Begun') \in Nat /\ MaxCtx \in Nat
  <2>1. /\ calls' \in [Threads -> Nat] /\ \A u \in Callers : calls'[u] <= MaxOps
        /\ ctxs + 1 <= Cardinality(Begun') /\ Cardinality(Begun') <= MaxCtx
        /\ Cardinality(Begun') \in Nat
    BY <1>1, CountFacts DEF Negotiate
  <2>2. MaxCtx \in Nat
    BY FS_CardinalityType, MgrAssumption DEF MaxCtx
  <2> QED
    BY <2>1, <2>2 DEF TypeOK
<1>4. /\ pc' \in [Threads -> Stages] /\ pc'[t] = "lookup"
      /\ \A u \in Threads : u # t => pc'[u] = pc[u]
  BY <1>1, GoesFacts DEF Negotiate, Stages
<1>5. /\ UNCHANGED <<ctx, ctxs>> /\ ctx[c] \in 0..MaxCtx /\ ctx[c] # NoCtx
      /\ negCtx' \in [Threads -> 0..MaxCtx] /\ negCtx'[t] = ctx[c]
      /\ \A u \in Threads : u # t => negCtx'[u] = negCtx[u]
  BY <1>1 DEF Negotiate, ctxVars, TypeOK
<1>6. \A u \in Closers \cup Workers : Busy(u, c) => pc[u] \notin Closing
  BY <1>1, Kinds DEF Places, InSubmit, Closing
<1>7. ctx[c] \in usable
  BY <1>6, Kinds DEF Contexts, Closing, Busy
<1>8. TypeOK'
  BY <1>1, <1>2, <1>3, <1>4, <1>5, <1>6, <1>7 DEF TypeOK, Started
<1>9. Places'
  BY <1>1, <1>2, <1>3, <1>4, <1>5, <1>6, <1>7, Kinds DEF Places, Closing, InSubmit
<1>10. Mutex'
  BY <1>1, <1>2, <1>3, <1>4, <1>5, <1>6, <1>7, Kinds DEF Mutex
<1>11. Counted'
  BY <1>1, <1>2, <1>3, <1>4, <1>5, <1>6, <1>7 DEF Counted
<1>12. Contexts'
  BY <1>1, <1>2, <1>3, <1>4, <1>5, <1>6, <1>7, Kinds DEF Contexts, Closing, NoCtx
<1>13. Exclusion'
  BY <1>1, <1>2, <1>4, <1>6, Kinds, ExclusionJoined DEF Busy, Closing
<1>14. Life'
  BY <1>1, <1>2, <1>3, <1>4, <1>5, <1>6, <1>7, Kinds DEF Life, Takes, Started
<1>15. Removal'
  BY <1>1, <1>2, <1>3, <1>4, <1>5, <1>6, <1>7, Kinds DEF Removal, Closing, Started
<1>16. Tasks'
  BY <1>1, <1>2, <1>3, <1>4, <1>5, <1>6, <1>7, Kinds DEF Tasks, Started
<1>17. Leaving'
  BY <1>1, <1>2, <1>3, <1>4, <1>5, <1>6, <1>7, Kinds DEF Leaving, Exiting, Started
<1> QED
  BY <1>8, <1>9, <1>10, <1>11, <1>12, <1>13, <1>14, <1>15, <1>16, <1>17

(* An operation makes the context of its communicator.                     *)
LEMMA NegotiateNewPreserves ==
  ASSUME IInv, NEW t \in Callers, NEW c \in Comms, Negotiate(t, c), ctx[c] = NoCtx
  PROVE  IInv'
<1> USE DEF IInv
<1>1. /\ t \in Threads /\ t \in Closers /\ t \in Users /\ pc[t] = "idle" /\ calls[t] < MaxOps /\ ~ Exiting
      /\ \A u \in Callers : Busy(u, c) => ctx[c] # NoCtx /\ pc[u] \in InSubmit
      /\ \A u \in Cleaners : ~ Busy(u, c)
  BY Kinds DEF Negotiate, CanNegotiate
<1>2. /\ UNCHANGED <<usable, workers, comm, task, asker, stop, gone, lock, held>>
      /\ on' \in [Threads -> Comms] /\ on'[t] = c /\ \A u \in Threads : u # t => on'[u] = on[u]
  BY <1>1 DEF Negotiate, ctxVars, workerVars, TypeOK
<1>3. /\ calls' \in [Threads -> Nat] /\ \A u \in Callers : calls'[u] <= MaxOps
      /\ ctxs + 1 <= Cardinality(Begun') /\ Cardinality(Begun') <= MaxCtx /\ ctxs \in Nat
      /\ Cardinality(Begun') \in Nat /\ MaxCtx \in Nat
  <2>1. /\ calls' \in [Threads -> Nat] /\ \A u \in Callers : calls'[u] <= MaxOps
        /\ ctxs + 1 <= Cardinality(Begun') /\ Cardinality(Begun') <= MaxCtx
        /\ Cardinality(Begun') \in Nat
    BY <1>1, CountFacts DEF Negotiate
  <2>2. MaxCtx \in Nat
    BY FS_CardinalityType, MgrAssumption DEF MaxCtx
  <2> QED
    BY <2>1, <2>2 DEF TypeOK
<1>4. /\ pc' \in [Threads -> Stages] /\ pc'[t] = "fill"
      /\ \A u \in Threads : u # t => pc'[u] = pc[u]
  BY <1>1, GoesFacts DEF Negotiate, Stages
<1>5. /\ ctxs' = ctxs + 1 /\ ctx' = [ctx EXCEPT ![c] = ctxs']
      /\ negCtx' = [negCtx EXCEPT ![t] = ctxs']
  BY DEF Negotiate
<1>6. /\ ctx' \in [Comms -> 0..MaxCtx] /\ ctxs' \in 1..MaxCtx /\ ctx'[c] = ctxs' /\ ctx'[c] # NoCtx
      /\ \A d \in Comms : d # c => ctx'[d] = ctx[d] /\ ctx[d] # ctx'[c]
      /\ \A d \in Comms : ctx'[d] <= ctxs'
      /\ negCtx' \in [Threads -> 0..MaxCtx] /\ negCtx'[t] = ctxs'
      /\ \A u \in Threads : u # t => negCtx'[u] = negCtx[u]
  <2>1. ctxs' \in 1..MaxCtx /\ ctxs' \in 0..MaxCtx
    BY <1>3, <1>5
  <2>2. ctx \in [Comms -> 0..MaxCtx] /\ \A d \in Comms : ctx[d] <= ctxs
    BY DEF TypeOK, Contexts
  <2>3. /\ ctx' \in [Comms -> 0..MaxCtx] /\ ctx'[c] = ctxs'
        /\ \A d \in Comms : d # c => ctx'[d] = ctx[d]
    BY <1>5, <2>1, <2>2
  <2>4. \A d \in Comms : ctx[d] <= ctxs /\ ctx[d] \in Int /\ ctxs' = ctxs + 1 /\ ctxs \in Int
    BY <1>3, <1>5, <2>2
  <2>5. \A d \in Comms : ctx'[d] <= ctxs' /\ ctx[d] # ctxs'
    BY <2>3, <2>4
  <2>6. negCtx' \in [Threads -> 0..MaxCtx] /\ negCtx'[t] = ctxs'
        /\ \A u \in Threads : u # t => negCtx'[u] = negCtx[u]
    BY <1>1, <1>5, <2>1 DEF TypeOK
  <2> QED
    BY <2>1, <2>3, <2>5, <2>6 DEF NoCtx
<1>7. \A w \in Started \ gone : comm[w] # c
  BY DEF Life, TypeOK, NoCtx
<1>8. \A u \in Closers \cup Workers : ~ Busy(u, c)
  BY <1>1, <1>7, Kinds DEF Busy, Tasks
<1>9. /\ \A u \in Closers \cup Workers : u # t /\ pc[u] # "idle" =>
           on'[u] = on[u] /\ on[u] \in Comms /\ on[u] # c /\ ctx'[on[u]] = ctx[on[u]]
      /\ \A w \in Started \ gone : comm[w] \in Comms /\ ctx'[comm[w]] = ctx[comm[w]]
  BY <1>2, <1>6, <1>7, <1>8, StartedFacts, Kinds DEF Busy, TypeOK
<1>10. TypeOK'
  BY <1>1, <1>2, <1>3, <1>4, <1>5, <1>6, <1>7, <1>8, <1>9 DEF TypeOK, Started
<1>11. Places'
  BY <1>1, <1>2, <1>3, <1>4, <1>5, <1>6, <1>7, <1>8, <1>9, Kinds DEF Places, Closing, InSubmit
<1>12. Mutex'
  BY <1>1, <1>2, <1>3, <1>4, <1>5, <1>6, <1>7, <1>8, <1>9, Kinds DEF Mutex
<1>13. Counted'
  BY <1>1, <1>2, <1>3, <1>4, <1>5, <1>6, <1>7, <1>8, <1>9 DEF Counted
<1>14. Contexts'
  <2>1. /\ \A d \in Comms : ctx'[d] <= ctxs'
        /\ \A d, e \in Comms : ctx'[d] = ctx'[e] /\ ctx'[d] # NoCtx => d = e
    BY <1>6 DEF Contexts
  <2>2. \A u \in Closers : pc'[u] \in Closing => ctx'[on'[u]] = negCtx'[u] /\ negCtx'[u] # NoCtx
    BY <1>1, <1>2, <1>4, <1>6, <1>9, Kinds DEF Contexts, Closing
  <2>3. \A u \in Users : pc'[u] \in {"lookup", "create", "creating"} =>
          ctx'[on'[u]] = negCtx'[u] /\ negCtx'[u] \in usable'
    BY <1>1, <1>2, <1>4, <1>6, <1>9, Kinds DEF Contexts
  <2>4. \A d \in Comms : ctx'[d] = NoCtx \/ ctx'[d] \in usable'
                         \/ \E u \in Closers : pc'[u] \in Closing /\ on'[u] = d
    BY <1>1, <1>2, <1>4, <1>6, <1>9, Kinds DEF Contexts, Closing
  <2> QED
    BY <2>1, <2>2, <2>3, <2>4 DEF Contexts
<1>15. Exclusion'
  <2> SUFFICES ASSUME NEW a \in Closers, pc'[a] \in Closing,
                      NEW u \in Closers \cup Workers, u # a, Busy(u, on[a])'
               PROVE  a \in Cleaners /\ u \notin Cleaners /\ pc'[u] \in AtWorker
    BY Zenon DEF Exclusion
  <2>1. a = t \/ u = t => on'[u] = c /\ on'[a] = c
    BY <1>1, <1>2, <1>3, <1>4, <1>5, <1>6, <1>7, <1>8, <1>9, Kinds DEF Busy
  <2>2. a # t /\ u # t
    BY <1>1, <1>2, <1>3, <1>4, <1>5, <1>6, <1>7, <1>8, <1>9, <2>1, Kinds DEF Busy, Closing
  <2>3. pc[a] \in Closing /\ Busy(u, on[a]) /\ pc'[u] = pc[u]
    BY <1>1, <1>2, <1>3, <1>4, <1>5, <1>6, <1>7, <1>8, <1>9, <2>2, Kinds DEF Busy, Closing
  <2> QED
    BY <2>3 DEF Exclusion
<1>16. Life'
  BY <1>1, <1>2, <1>4, <1>6, <1>7, <1>9, Kinds DEF Life, Takes, Started
<1>17. Removal'
  BY <1>1, <1>2, <1>4, <1>6, <1>7, <1>9, Kinds DEF Removal, Life, Closing, Started
<1>18. Tasks'
  BY <1>1, <1>2, <1>4, <1>6, <1>7, <1>9, Kinds DEF Tasks, Started
<1>19. Leaving'
  BY <1>1, <1>2, <1>3, <1>4, <1>5, <1>6, <1>7, <1>8, <1>9, Kinds DEF Leaving, Exiting, Started
<1> QED
  BY <1>10, <1>11, <1>12, <1>13, <1>14, <1>15, <1>16, <1>17, <1>18, <1>19

(* A task calls Submit for its own communicator.                           *)
LEMMA NestedPreserves ==
  ASSUME IInv, NEW t \in Workers, NestedSubmit(t)
  PROVE  IInv'
<1> USE DEF IInv
<1>1. /\ t \in Threads /\ t \in Users /\ pc[t] = "idle" /\ task[t] # NoCtx
      /\ \A u \in Cleaners : ~ Busy(u, comm[t])
      /\ UNCHANGED <<ctx, ctxs, usable, workers, comm, task, asker, stop, gone, lock, held>>
  BY Kinds DEF NestedSubmit, ctxVars, workerVars
<1>2. /\ pc' \in [Threads -> Stages] /\ pc'[t] = "lookup"
      /\ \A u \in Threads : u # t => pc'[u] = pc[u]
  BY <1>1, GoesFacts DEF NestedSubmit, Stages
<1>3. /\ t \in Started \ gone /\ comm[t] \in Comms /\ task[t] = ctx[comm[t]] /\ task[t] \in usable
      /\ task[t] \in 0..MaxCtx
  BY <1>1, StartedFacts DEF Tasks, Life, TypeOK
<1>4. /\ on' \in [Threads -> Comms] /\ on'[t] = comm[t] /\ \A u \in Threads : u # t => on'[u] = on[u]
      /\ negCtx' \in [Threads -> 0..MaxCtx] /\ negCtx'[t] = task[t]
      /\ \A u \in Threads : u # t => negCtx'[u] = negCtx[u]
  BY <1>1, <1>3 DEF NestedSubmit, TypeOK
<1>5. /\ calls' \in [Threads -> Nat] /\ \A u \in Callers : calls'[u] = calls[u]
  BY <1>1, Kinds DEF NestedSubmit, Counts, TypeOK
<1>6. \A u \in Closers : pc[u] \in Closing => on[u] # on'[t]
  BY <1>1, <1>3, <1>4, Kinds DEF Removal, Busy, Closing
<1>7. TypeOK'
  BY <1>1, <1>2, <1>3, <1>4, <1>5, <1>6 DEF TypeOK, Started
<1>8. Places'
  BY <1>1, <1>2, <1>3, <1>4, <1>5, <1>6, Kinds DEF Places, Closing, InSubmit
<1>9. Mutex'
  BY <1>1, <1>2, <1>3, <1>4, <1>5, <1>6, Kinds DEF Mutex
<1>10. Counted'
  BY <1>1, <1>2, <1>3, <1>4, <1>5, <1>6 DEF Counted, Begun
<1>11. Contexts'
  BY <1>1, <1>2, <1>3, <1>4, <1>5, <1>6, Kinds DEF Contexts, Closing, NoCtx
<1>12. Exclusion'
  BY <1>1, <1>2, <1>4, <1>6, Kinds, ExclusionJoined
<1>13. Life'
  BY <1>1, <1>2, <1>3, <1>4, <1>5, <1>6, Kinds DEF Life, Takes, Started
<1>14. Removal'
  BY <1>1, <1>2, <1>3, <1>4, <1>5, <1>6, Kinds DEF Removal, Closing, Started
<1>15. Tasks'
  BY <1>1, <1>2, <1>3, <1>4, <1>5, <1>6, Kinds DEF Tasks, Started
<1>16. Leaving'
  BY <1>1, <1>2, <1>3, <1>4, <1>5, <1>6, Kinds DEF Leaving, Exiting, Started
<1> QED
  BY <1>7, <1>8, <1>9, <1>10, <1>11, <1>12, <1>13, <1>14, <1>15, <1>16

(* Under the write lock a submitter finds a worker after all.              *)
LEMMA CreateFoundPreserves ==
  ASSUME IInv, NEW t \in Threads, Create(t), workers[on[t]] # NoWorker
  PROVE  IInv'
<1> USE DEF IInv
<1>1. /\ t \in Users /\ pc[t] = "creating" /\ lock = t /\ lock' = Nobody
      /\ UNCHANGED <<ctx, ctxs, usable, task, asker, stop, gone, on, calls>>
  BY Kinds DEF Create, Places, Closing, InSubmit, Mutex, ctxVars
<1>2. /\ pc' \in [Threads -> Stages] /\ pc'[t] = "submit"
      /\ \A u \in Threads : u # t => pc'[u] = pc[u]
  BY <1>1, GoesFacts DEF Create, Stages
<1>3. /\ UNCHANGED <<workers, comm, negCtx>>
      /\ workers[on[t]] \in Started /\ comm[workers[on[t]]] = on[t]
      /\ held' = [held EXCEPT ![t] = {workers[on[t]]}]
  BY <1>1 DEF Create, TypeOK, Life
<1>4. /\ held' \in [Threads -> SUBSET Started] /\ held'[t] = {workers[on[t]]}
      /\ \A u \in Threads : u # t => held'[u] = held[u]
  BY <1>3 DEF TypeOK
<1>5. TypeOK'
  BY <1>1, <1>2, <1>3, <1>4 DEF TypeOK, Started
<1>6. Places'
  BY <1>1, <1>2, <1>3, <1>4, Kinds DEF Places, Closing, InSubmit
<1>7. Mutex'
  BY <1>1, <1>2, <1>3, <1>4, Kinds DEF Mutex
<1>8. Counted'
  BY <1>1, <1>2, <1>3, <1>4 DEF Counted, Begun
<1>9. Contexts'
  BY <1>1, <1>2, <1>3, <1>4, Kinds DEF Contexts, Closing, NoCtx
<1>10. Exclusion'
  BY <1>1, <1>2, <1>3, <1>4, Kinds, ExclusionKept DEF Closing, AtWorker
<1>11. Life'
  BY <1>1, <1>2, <1>3, <1>4, Kinds DEF Life, Takes, Started
<1>12. Removal'
  BY <1>1, <1>2, <1>3, <1>4, Kinds DEF Removal, Closing, Started
<1>13. Tasks'
  BY <1>1, <1>2, <1>3, <1>4, Kinds DEF Tasks, Started, Contexts
<1>14. Leaving'
  BY <1>1, <1>2, <1>3, <1>4, Kinds DEF Leaving, Exiting, Started
<1> QED
  BY <1>5, <1>6, <1>7, <1>8, <1>9, <1>10, <1>11, <1>12, <1>13, <1>14

(* A worker could not be started.                                          *)
LEMMA CreateFailsPreserves ==
  ASSUME IInv, NEW t \in Threads, Create(t), workers[on[t]] = NoWorker, pc'[t] = "idle"
  PROVE  IInv'
<1> USE DEF IInv
<1>1. /\ t \in Users /\ pc[t] = "creating" /\ lock = t /\ lock' = Nobody
      /\ UNCHANGED <<ctx, ctxs, usable, task, asker, stop, gone, on, calls>>
  BY Kinds DEF Create, Places, Closing, InSubmit, Mutex, ctxVars
<1>2. Returns(t) /\ UNCHANGED <<comm, workers>>
  BY GoesFacts DEF Create, Starts, Stages
<1>3. /\ pc' \in [Threads -> Stages] /\ pc'[t] = "idle"
      /\ negCtx' \in [Threads -> 0..MaxCtx] /\ held' \in [Threads -> SUBSET Started]
      /\ \A u \in Threads : u # t =>
           pc'[u] = pc[u] /\ negCtx'[u] = negCtx[u] /\ held'[u] = held[u]
  BY <1>2, ReturnsFacts
<1>4. TypeOK'
  BY <1>1, <1>2, <1>3 DEF TypeOK, Started
<1>5. Places'
  BY <1>1, <1>2, <1>3, Kinds DEF Places, Closing, InSubmit
<1>6. Mutex'
  BY <1>1, <1>2, <1>3, Kinds DEF Mutex
<1>7. Counted'
  BY <1>1, <1>2, <1>3 DEF Counted, Begun
<1>8. Contexts'
  BY <1>1, <1>2, <1>3, Kinds DEF Contexts, Closing, NoCtx
<1>9. Exclusion'
  BY <1>1, <1>2, <1>3, Kinds, ExclusionKept DEF Closing, AtWorker
<1>10. Life'
  BY <1>1, <1>2, <1>3, Kinds DEF Life, Takes, Started
<1>11. Removal'
  BY <1>1, <1>2, <1>3, Kinds DEF Removal, Closing, Started
<1>12. Tasks'
  BY <1>1, <1>2, <1>3, Kinds DEF Tasks, Started
<1>13. Leaving'
  BY <1>1, <1>2, <1>3, Kinds DEF Leaving, Exiting, Started
<1> QED
  BY <1>4, <1>5, <1>6, <1>7, <1>8, <1>9, <1>10, <1>11, <1>12, <1>13

(* A submitter starts a worker.                                            *)
LEMMA CreateNewPreserves ==
  ASSUME IInv, NEW t \in Threads, Create(t), workers[on[t]] = NoWorker, pc'[t] = "submit"
  PROVE  IInv'
<1> USE DEF IInv
<1>1. /\ t \in Users /\ pc[t] = "creating" /\ lock = t /\ lock' = Nobody
      /\ UNCHANGED <<ctx, ctxs, usable, task, asker, stop, gone, on, calls>>
  BY Kinds DEF Create, Places, Closing, InSubmit, Mutex, ctxVars
<1>2. PICK w : /\ w = Cardinality(Started) + 1 /\ w <= MaxWorkers
              /\ comm' = [v \in 1..w |-> IF v = w THEN on[t] ELSE comm[v]]
              /\ workers' = [workers EXCEPT ![on[t]] = w]
              /\ held' = [held EXCEPT ![t] = {w}]
              /\ Goes(t, "submit") /\ negCtx' = negCtx
  BY ReturnsFacts DEF Create, Starts
<1>3. /\ pc' \in [Threads -> Stages] /\ pc'[t] = "submit"
      /\ \A u \in Threads : u # t => pc'[u] = pc[u]
  BY <1>2, GoesFacts DEF Stages
<1>4. /\ on[t] \in Comms /\ ctx[on[t]] = negCtx[t] /\ negCtx[t] \in usable /\ negCtx[t] # NoCtx
  BY <1>1, Kinds DEF Contexts, TypeOK, NoCtx
<1>5. /\ w \in Workers /\ w \notin Started /\ w # NoWorker /\ Started' = Started \cup {w}
      /\ comm' \in [1..w -> Comms] /\ w \in 0..MaxWorkers
      /\ comm'[w] = on[t] /\ \A v \in Started : comm'[v] = comm[v]
  <2>1. /\ Cardinality(Started) \in 0..MaxWorkers /\ Started = 1..Cardinality(Started)
        /\ comm \in [Started -> Comms]
    BY StartedFacts
  <2>2. /\ w \in Workers /\ w \notin Started /\ w # NoWorker /\ w \in 0..MaxWorkers
        /\ 1..w = Started \cup {w}
    BY <1>2, <2>1, MgrAssumption DEF Workers, NoWorker
  <2>3. Started' = 1..w /\ comm' \in [1..w -> Comms]
    BY <1>2, <1>4, <2>1, <2>2 DEF Started
  <2> QED
    BY <1>2, <2>1, <2>2, <2>3
<1>6. /\ workers' \in [Comms -> {NoWorker} \cup Started'] /\ workers'[on[t]] = w
      /\ \A c \in Comms : c # on[t] => workers'[c] = workers[c]
      /\ held' \in [Threads -> SUBSET Started'] /\ held'[t] = {w}
      /\ \A u \in Threads : u # t => held'[u] = held[u]
  BY <1>2, <1>4, <1>5 DEF TypeOK
<1>7. \A u \in Closers : pc[u] \in Closing => on[u] # on[t]
  BY <1>1, Kinds DEF Exclusion, Busy, AtWorker, Closing
<1>8. w \notin stop /\ w \notin gone /\ task[w] = NoCtx /\ pc[w] = "idle" /\ pc[Exiter] # "exited"
  BY <1>1, <1>5, Kinds DEF TypeOK, Tasks, Leaving, Exiting
<1>9. TypeOK'
  BY <1>1, <1>2, <1>3, <1>5, <1>6 DEF TypeOK
<1>10. Places'
  BY <1>1, <1>2, <1>3, <1>4, <1>5, <1>6, <1>7, <1>8, Kinds DEF Places, Closing, InSubmit
<1>11. Mutex'
  BY <1>1, <1>2, <1>3, <1>4, <1>5, <1>6, <1>7, <1>8, Kinds DEF Mutex
<1>12. Counted'
  BY <1>1, <1>2, <1>3, <1>4, <1>5, <1>6, <1>7, <1>8 DEF Counted, Begun
<1>13. Contexts'
  BY <1>1, <1>2, <1>3, <1>4, Kinds DEF Contexts, Closing
<1>14. Exclusion'
  BY <1>1, <1>2, <1>3, <1>4, <1>5, <1>6, <1>7, <1>8, Kinds, ExclusionKept DEF Closing, AtWorker
<1>15. Life'
  <2>1. \A c \in Comms : workers'[c] # NoWorker => comm'[workers'[c]] = c /\ ctx'[c] # NoCtx
    BY <1>1, <1>4, <1>5, <1>6, StartedFacts DEF Life
  <2>2. \A x \in Started' \ gone' : ctx'[comm'[x]] \in usable'
    BY <1>1, <1>3, <1>4, <1>5, <1>6, StartedFacts, Kinds DEF Life, Takes
  <2>3. \A x \in Started' \ gone' : workers'[comm'[x]] = x \/ \E u \in Threads : Takes(u, x)'
    BY <1>1, <1>3, <1>4, <1>5, <1>6, StartedFacts, Kinds DEF Life, Takes
  <2> QED
    BY <2>1, <2>2, <2>3 DEF Life
<1>16. Removal'
  <2>1. \A u \in Closers : pc'[u] \in {"shutdown", "join"} =>
          workers'[on'[u]] = NoWorker /\ \A x, y \in held'[u] : x = y
    <3> SUFFICES ASSUME NEW u \in Closers, pc'[u] \in {"shutdown", "join"}
                 PROVE  workers'[on'[u]] = NoWorker /\ \A x, y \in held'[u] : x = y
      OBVIOUS
    <3>1. u \in Threads /\ u # t /\ pc[u] \in {"shutdown", "join"}
      BY <1>3, Kinds
    <3>2. on[u] \in Comms /\ on[u] # on[t] /\ on'[u] = on[u] /\ held'[u] = held[u]
      BY <1>1, <1>6, <1>7, <3>1, StartedFacts DEF Closing
    <3> QED
      BY <1>6, <3>1, <3>2 DEF Removal
  <2>2. \A u \in Closers :
          pc'[u] \in {"cleanup", "destroy"} \/ (u \in Callers /\ pc'[u] \in Closing) =>
            workers'[on'[u]] = NoWorker /\ \A v \in Started' : comm'[v] = on'[u] => v \in gone'
    BY <1>1, <1>3, <1>5, <1>6, <1>7, <1>8, StartedFacts, Kinds DEF Removal, Closing
  <2>3. /\ \A u \in Threads : pc'[u] = "join" => held'[u] \subseteq stop'
        /\ pc'[Exiter] \notin {"shutdown", "join"} => held'[Exiter] = {}
    BY <1>1, <1>3, <1>5, <1>6, <1>7, <1>8, StartedFacts, Kinds DEF Removal, Closing
  <2> QED
    BY <2>1, <2>2, <2>3 DEF Removal
<1>17. Tasks'
  <2>1. \A v \in Workers : task'[v] # NoCtx =>
          /\ v \in Started' \ gone' /\ task'[v] = ctx'[comm'[v]]
          /\ asker'[v] \in Users /\ pc'[asker'[v]] = "waiting"
    BY <1>1, <1>3, <1>5, <1>8, Kinds DEF Tasks
  <2>2. /\ \A v, u \in Workers : task'[v] # NoCtx /\ task'[u] # NoCtx /\ asker'[v] = asker'[u] => v = u
        /\ \A v \in Workers : pc'[v] # "idle" => task'[v] # NoCtx /\ on'[v] = comm'[v]
    BY <1>1, <1>3, <1>5, <1>8, Kinds DEF Tasks
  <2>3. \A u \in Users : pc'[u] = "submit" => \A v \in held'[u] :
          comm'[v] = on'[u] /\ (v \notin gone' => negCtx'[u] = ctx'[on'[u]])
    BY <1>1, <1>2, <1>3, <1>4, <1>5, <1>6, StartedFacts, Kinds DEF Tasks
  <2> QED
    BY <2>1, <2>2, <2>3 DEF Tasks
<1>18. Leaving'
  BY <1>1, <1>3, <1>8, Kinds DEF Leaving, Exiting
<1> QED
  BY <1>9, <1>10, <1>11, <1>12, <1>13, <1>14, <1>15, <1>16, <1>17, <1>18

(* The worker refuses a task.                                              *)
LEMMA RefusedPreserves ==
  ASSUME IInv, NEW t \in Threads, SubmitToWorker(t), pc'[t] = "idle"
  PROVE  IInv'
<1> USE DEF IInv
<1>1. /\ t \in Users /\ pc[t] = "submit"
      /\ UNCHANGED <<ctx, ctxs, usable, workers, comm, stop, gone, lock, on, calls>>
  BY Kinds DEF SubmitToWorker, Places, Closing, InSubmit, ctxVars
<1>2. Returns(t) /\ UNCHANGED <<task, asker>>
  BY GoesFacts DEF SubmitToWorker, Stages
<1>3. /\ pc' \in [Threads -> Stages] /\ pc'[t] = "idle"
      /\ negCtx' \in [Threads -> 0..MaxCtx] /\ held' \in [Threads -> SUBSET Started]
      /\ \A u \in Threads : u # t =>
           pc'[u] = pc[u] /\ negCtx'[u] = negCtx[u] /\ held'[u] = held[u]
  BY <1>2, ReturnsFacts
<1>4. TypeOK'
  BY <1>1, <1>2, <1>3 DEF TypeOK, Started
<1>5. Places'
  BY <1>1, <1>2, <1>3, Kinds DEF Places, Closing, InSubmit
<1>6. Mutex'
  BY <1>1, <1>2, <1>3, Kinds DEF Mutex
<1>7. Counted'
  BY <1>1, <1>2, <1>3 DEF Counted, Begun
<1>8. Contexts'
  BY <1>1, <1>2, <1>3, Kinds DEF Contexts, Closing, NoCtx
<1>9. Exclusion'
  BY <1>1, <1>2, <1>3, Kinds, ExclusionKept DEF Closing, AtWorker
<1>10. Life'
  BY <1>1, <1>2, <1>3, Kinds DEF Life, Takes, Started
<1>11. Removal'
  BY <1>1, <1>2, <1>3, Kinds DEF Removal, Closing, Started
<1>12. Tasks'
  BY <1>1, <1>2, <1>3, Kinds DEF Tasks, Started
<1>13. Leaving'
  BY <1>1, <1>2, <1>3, Kinds DEF Leaving, Exiting, Started
<1> QED
  BY <1>4, <1>5, <1>6, <1>7, <1>8, <1>9, <1>10, <1>11, <1>12, <1>13

(* The worker takes the task.                                              *)
LEMMA AcceptedPreserves ==
  ASSUME IInv, NEW t \in Threads, SubmitToWorker(t), pc'[t] = "waiting"
  PROVE  IInv'
<1> USE DEF IInv
<1>1. /\ t \in Users /\ pc[t] = "submit"
      /\ UNCHANGED <<ctx, ctxs, usable, workers, comm, stop, gone, lock, on, calls>>
  BY Kinds DEF SubmitToWorker, Places, Closing, InSubmit, ctxVars
<1>2. PICK w \in held[t] :
       /\ w \notin stop /\ task[w] = NoCtx /\ task' = [task EXCEPT ![w] = negCtx[t]]
       /\ asker' = [asker EXCEPT ![w] = t] /\ Goes(t, "waiting") /\ UNCHANGED <<held, negCtx>>
  BY ReturnsFacts DEF SubmitToWorker
<1>3. /\ pc' \in [Threads -> Stages] /\ pc'[t] = "waiting"
      /\ \A u \in Threads : u # t => pc'[u] = pc[u]
  BY <1>2, GoesFacts DEF Stages
<1>4. /\ w \in Started \ gone /\ w \in Workers /\ comm[w] = on[t] /\ negCtx[t] = ctx[on[t]]
      /\ negCtx[t] \in 0..MaxCtx /\ pc[w] = "idle" 
  BY <1>1, <1>2, StartedFacts DEF TypeOK, Tasks
<1>5. /\ task' \in [Workers -> 0..MaxCtx] /\ task'[w] = negCtx[t]
      /\ asker' \in [Workers -> Threads \cup {Nobody}] /\ asker'[w] = t
      /\ \A v \in Workers : v # w => task'[v] = task[v] /\ asker'[v] = asker[v]
  BY <1>2, <1>4 DEF TypeOK
<1>6. TypeOK'
  BY <1>1, <1>2, <1>3, <1>4, <1>5 DEF TypeOK, Started
<1>7. Places'
  BY <1>1, <1>2, <1>3, <1>4, <1>5, Kinds DEF Places, Closing, InSubmit
<1>8. Mutex'
  BY <1>1, <1>2, <1>3, <1>4, <1>5, Kinds DEF Mutex
<1>9. Counted'
  BY <1>1, <1>2, <1>3, <1>4, <1>5 DEF Counted, Begun
<1>10. Contexts'
  BY <1>1, <1>2, <1>3, <1>4, <1>5, Kinds DEF Contexts, Closing, NoCtx
<1>11. Exclusion'
  BY <1>1, <1>2, <1>3, <1>4, <1>5, Kinds, ExclusionKept DEF Closing, AtWorker
<1>12. Life'
  BY <1>1, <1>2, <1>3, <1>4, <1>5, Kinds DEF Life, Takes, Started
<1>13. Removal'
  BY <1>1, <1>2, <1>3, <1>4, <1>5, Kinds DEF Removal, Closing, Started
<1>14. Tasks'
  BY <1>1, <1>2, <1>3, <1>4, <1>5, Kinds DEF Tasks, Started
<1>15. Leaving'
  BY <1>1, <1>2, <1>3, <1>4, <1>5, Kinds DEF Leaving, Exiting, Started
<1> QED
  BY <1>6, <1>7, <1>8, <1>9, <1>10, <1>11, <1>12, <1>13, <1>14, <1>15

(* A task ends and its caller returns.                                     *)
LEMMA TaskDonePreserves ==
  ASSUME IInv, NEW w \in Workers, TaskDone(w)
  PROVE  IInv'
<1> USE DEF IInv
<1>1. /\ w \in Threads /\ task[w] # NoCtx /\ pc[w] = "idle" /\ asker[w] \in Users /\ asker[w] \in Threads
      /\ pc[asker[w]] = "waiting"
      /\ UNCHANGED <<ctx, ctxs, usable, workers, comm, stop, gone, lock, on>>
  BY Kinds DEF TaskDone, Tasks, ctxVars
<1>2. /\ pc' \in [Threads -> Stages] /\ pc'[asker[w]] = "idle"
      /\ negCtx' \in [Threads -> 0..MaxCtx] /\ negCtx'[asker[w]] = NoCtx
      /\ held' \in [Threads -> SUBSET Started] /\ held'[asker[w]] = {}
      /\ \A u \in Threads : u # asker[w] =>
           pc'[u] = pc[u] /\ negCtx'[u] = negCtx[u] /\ held'[u] = held[u]
  BY <1>1, ReturnsFacts DEF TaskDone
<1>3. /\ task' \in [Workers -> 0..MaxCtx] /\ task'[w] = NoCtx
      /\ asker' \in [Workers -> Threads \cup {Nobody}]
      /\ calls' \in [Threads -> Nat] /\ \A u \in Callers : calls'[u] = calls[u]
      /\ \A v \in Workers : v # w => task'[v] = task[v] /\ asker'[v] = asker[v]
  <2>1. MaxCtx \in Nat
    BY FS_CardinalityType, MgrAssumption DEF MaxCtx
  <2> QED
    BY <1>1, <2>1, Kinds DEF TaskDone, TypeOK, NoCtx
<1>4. TypeOK'
  BY <1>1, <1>2, <1>3 DEF TypeOK, Started
<1>5. Places'
  BY <1>1, <1>2, <1>3, Kinds DEF Places, Closing, InSubmit
<1>6. Mutex'
  BY <1>1, <1>2, <1>3, Kinds DEF Mutex
<1>7. Counted'
  BY <1>1, <1>2, <1>3 DEF Counted, Begun
<1>8. Contexts'
  BY <1>1, <1>2, <1>3, Kinds DEF Contexts, Closing, NoCtx
<1>9. Exclusion'
  BY <1>1, <1>2, <1>3, Kinds, ExclusionKept DEF Closing, AtWorker
<1>10. Life'
  BY <1>1, <1>2, <1>3, Kinds DEF Life, Takes, Started
<1>11. Removal'
  BY <1>1, <1>2, <1>3, Kinds DEF Removal, Closing, Started
<1>12. Tasks'
  BY <1>1, <1>2, <1>3, Kinds DEF Tasks, Started
<1>13. Leaving'
  BY <1>1, <1>2, <1>3, Kinds DEF Leaving, Exiting, Started
<1> QED
  BY <1>4, <1>5, <1>6, <1>7, <1>8, <1>9, <1>10, <1>11, <1>12, <1>13

(* A callback finds the context of its communicator.                       *)
LEMMA CallbackPreserves ==
  ASSUME IInv, NEW t \in Cleaners, NEW c \in Comms, Callback(t, c)
  PROVE  IInv'
<1> USE DEF IInv
<1>1. /\ t \in Threads /\ t \in Closers /\ pc[t] = "idle" /\ ~ Exiting /\ ctx[c] # NoCtx
      /\ \A u \in Callers \cup Workers : Busy(u, c) => pc[u] \in AtWorker
      /\ \A u \in Cleaners : ~ Busy(u, c)
      /\ UNCHANGED <<ctx, ctxs, usable, workers, comm, task, asker, stop, gone, lock, held>>
  BY Kinds DEF Callback, ctxVars, workerVars
<1>2. /\ pc' \in [Threads -> Stages] /\ pc'[t] = "erase"
      /\ \A u \in Threads : u # t => pc'[u] = pc[u]
  BY <1>1, GoesFacts DEF Callback, Stages
<1>3. /\ on' \in [Threads -> Comms] /\ on'[t] = c /\ \A u \in Threads : u # t => on'[u] = on[u]
      /\ negCtx' \in [Threads -> 0..MaxCtx] /\ negCtx'[t] = ctx[c]
      /\ \A u \in Threads : u # t => negCtx'[u] = negCtx[u]
  BY <1>1 DEF Callback, TypeOK
<1>4. /\ calls' \in [Threads -> Nat] /\ \A u \in Callers : calls'[u] = calls[u]
  BY <1>1, Kinds DEF Callback, Counts, TypeOK
<1>5. \A u \in Closers \cup Workers : u # t /\ Busy(u, c) => u \notin Cleaners /\ pc[u] \in AtWorker
  BY <1>1, Kinds
<1>6. TypeOK'
  BY <1>1, <1>2, <1>3, <1>4, <1>5 DEF TypeOK, Started
<1>7. Places'
  BY <1>1, <1>2, <1>3, <1>4, <1>5, Kinds DEF Places, Closing, InSubmit
<1>8. Mutex'
  BY <1>1, <1>2, <1>3, <1>4, <1>5, Kinds DEF Mutex
<1>9. Counted'
  BY <1>1, <1>2, <1>3, <1>4, <1>5 DEF Counted, Begun
<1>10. Contexts'
  BY <1>1, <1>2, <1>3, <1>4, <1>5, Kinds DEF Contexts, Closing, NoCtx
<1>11. Exclusion'
  <2> SUFFICES ASSUME NEW a \in Closers, pc'[a] \in Closing,
                      NEW u \in Closers \cup Workers, u # a, Busy(u, on[a])'
               PROVE  a \in Cleaners /\ u \notin Cleaners /\ pc'[u] \in AtWorker
    BY Zenon DEF Exclusion
  <2>1. CASE a = t
    BY <1>2, <1>3, <1>5, <2>1, Kinds DEF Busy
  <2>2. CASE a # t
    <3>1. pc[a] \in Closing /\ on'[a] = on[a] /\ pc[a] # "idle" /\ pc[a] \notin AtWorker
      BY <1>2, <1>3, <2>2, Kinds DEF Closing, AtWorker
    <3>2. u # t
      BY <1>3, <1>5, <2>2, <3>1 DEF Busy
    <3>3. Busy(u, on[a]) /\ pc'[u] = pc[u]
      BY <1>2, <1>3, <3>1, <3>2, Kinds DEF Busy
    <3> QED
      BY <3>1, <3>3 DEF Exclusion
  <2> QED
    BY <2>1, <2>2
<1>12. Life'
  BY <1>1, <1>2, <1>3, <1>4, <1>5, Kinds DEF Life, Takes, Started
<1>13. Removal'
  BY <1>1, <1>2, <1>3, <1>4, <1>5, Kinds DEF Removal, Closing, Started
<1>14. Tasks'
  BY <1>1, <1>2, <1>3, <1>4, <1>5, Kinds DEF Tasks, Started
<1>15. Leaving'
  BY <1>1, <1>2, <1>3, <1>4, <1>5, Kinds DEF Leaving, Exiting, Started
<1> QED
  BY <1>6, <1>7, <1>8, <1>9, <1>10, <1>11, <1>12, <1>13, <1>14, <1>15

(* A closer takes the worker of its communicator out of the map.           *)
LEMMA ErasePreserves ==
  ASSUME IInv, NEW t \in Threads, Erase(t)
  PROVE  IInv'
<1> USE DEF IInv
<1>1. /\ t \in Closers /\ pc[t] = "erasing" /\ lock = t /\ lock' = Nobody /\ on[t] \in Comms
      /\ UNCHANGED <<ctx, ctxs, usable, comm, task, asker, stop, gone, on, negCtx, calls>>
  BY Kinds DEF Erase, Places, Closing, InSubmit, Mutex, TypeOK, ctxVars, workerVars
<1>2. /\ pc' \in [Threads -> Stages] /\ pc'[t] = "shutdown"
      /\ \A u \in Threads : u # t => pc'[u] = pc[u]
  BY <1>1, GoesFacts DEF Erase, Stages
<1>3. /\ workers' \in [Comms -> {NoWorker} \cup Started] /\ workers'[on[t]] = NoWorker
      /\ \A c \in Comms : c # on[t] => workers'[c] = workers[c]
      /\ held' \in [Threads -> SUBSET Started] /\ held'[t] = {workers[on[t]]} \ {NoWorker}
      /\ \A u \in Threads : u # t => held'[u] = held[u]
  BY <1>1 DEF Erase, TypeOK
<1>4. \A u \in Closers : u # t /\ pc[u] \in Closing => on[u] # on[t]
  BY <1>1, NotBeside, Kinds DEF Closing
<1>5. TypeOK'
  BY <1>1, <1>2, <1>3, <1>4 DEF TypeOK, Started
<1>6. Places'
  BY <1>1, <1>2, <1>3, <1>4, Kinds DEF Places, Closing, InSubmit
<1>7. Mutex'
  BY <1>1, <1>2, <1>3, <1>4, Kinds DEF Mutex
<1>8. Counted'
  BY <1>1, <1>2, <1>3, <1>4 DEF Counted, Begun
<1>9. Contexts'
  BY <1>1, <1>2, <1>3, <1>4, Kinds DEF Contexts, Closing, NoCtx
<1>10. Exclusion'
  BY <1>1, <1>2, <1>3, <1>4, Kinds, ExclusionKept DEF Closing, AtWorker
<1>11. Life'
  <2>1. \A c \in Comms : workers'[c] # NoWorker => comm'[workers'[c]] = c /\ ctx'[c] # NoCtx
    BY <1>1, <1>2, <1>3, StartedFacts, Kinds DEF Life, Takes, Started
  <2>2. \A w \in Started' \ gone' : ctx'[comm'[w]] \in usable'
    BY <1>1, <1>2, <1>3, StartedFacts, Kinds DEF Life, Takes, Started
  <2>3. \A w \in Started' \ gone' : workers'[comm'[w]] = w \/ \E u \in Threads : Takes(u, w)'
    <3> SUFFICES ASSUME NEW w \in Started \ gone
                 PROVE  workers'[comm[w]] = w \/ \E u \in Threads : Takes(u, w)'
      BY <1>1 DEF Started
    <3>1. CASE workers[comm[w]] = w /\ comm[w] = on[t]
      <4>1. w \in held'[t]
        BY <1>3, <3>1, StartedFacts
      <4>2. Takes(t, w)'
        BY <1>1, <1>2, <3>1, <4>1 DEF Takes
      <4> QED
        BY <1>1, <4>2, Kinds
    <3>2. CASE workers[comm[w]] = w /\ comm[w] # on[t]
      BY <1>3, <3>2, StartedFacts
    <3>3. CASE \E u \in Threads : Takes(u, w)
      BY <1>1, <1>2, <1>3, <3>3 DEF Takes
    <3> QED
      BY <3>1, <3>2, <3>3 DEF Life
  <2> QED
    BY <2>1, <2>2, <2>3 DEF Life
<1>12. Removal'
  <2>1. \A u \in Closers : pc'[u] \in {"shutdown", "join"} =>
          workers'[on'[u]] = NoWorker /\ \A x, y \in held'[u] : x = y
    BY <1>1, <1>2, <1>3, <1>4, StartedFacts, Kinds DEF Removal, Closing, Started
  <2>2. \A u \in Closers :
          pc'[u] \in {"cleanup", "destroy"} \/ (u \in Callers /\ pc'[u] \in Closing) =>
            workers'[on'[u]] = NoWorker /\ \A v \in Started' : comm'[v] = on'[u] => v \in gone'
    BY <1>1, <1>2, <1>3, <1>4, StartedFacts, Kinds DEF Removal, Closing, Started
  <2>3. /\ \A u \in Threads : pc'[u] = "join" => held'[u] \subseteq stop'
        /\ pc'[Exiter] \notin {"shutdown", "join"} => held'[Exiter] = {}
    BY <1>1, <1>2, <1>3, <1>4, StartedFacts, Kinds DEF Removal, Closing, Started
  <2> QED
    BY <2>1, <2>2, <2>3 DEF Removal
<1>13. Tasks'
  BY <1>1, <1>2, <1>3, <1>4, Kinds DEF Tasks, Started
<1>14. Leaving'
  BY <1>1, <1>2, <1>3, <1>4, Kinds DEF Leaving, Exiting, Started
<1> QED
  BY <1>5, <1>6, <1>7, <1>8, <1>9, <1>10, <1>11, <1>12, <1>13, <1>14

(* The threads of the workers taken out have ended.                        *)
LEMMA JoinPreserves ==
  ASSUME IInv, NEW t \in Threads, Join(t)
  PROVE  IInv'
<1> USE DEF IInv
<1>1. /\ t \in Closers \cup {Exiter} /\ pc[t] = "join" /\ held[t] \subseteq gone
      /\ UNCHANGED <<ctx, ctxs, usable, workers, comm, task, asker, stop, gone, lock, on, negCtx, calls>>
  BY Kinds DEF Join, Places, Closing, InSubmit, ctxVars, workerVars
<1>2. /\ pc' \in [Threads -> Stages] /\ pc'[t] = (IF t = Exiter THEN "members" ELSE "cleanup")
      /\ \A u \in Threads : u # t => pc'[u] = pc[u]
  BY <1>1, GoesFacts DEF Join, Stages
<1>3. /\ held' \in [Threads -> SUBSET Started] /\ held'[t] = {}
      /\ \A u \in Threads : u # t => held'[u] = held[u]
  BY DEF Join, TypeOK
<1>4. t # Exiter => \A w \in Started : comm[w] = on[t] => w \in gone
  <2> SUFFICES ASSUME t # Exiter, NEW w \in Started \ gone, comm[w] = on[t]
               PROVE  FALSE
    OBVIOUS
  <2>1. t \in Closers /\ workers[on[t]] = NoWorker /\ w # NoWorker
    BY <1>1, StartedFacts DEF Removal
  <2>2. PICK u \in Threads : Takes(u, w)
    BY <2>1 DEF Life
  <2>3. u # Exiter
    BY <1>1, <2>1, <2>2, Kinds DEF Takes, Leaving, Exiting
  <2>4. u \in Closers /\ pc[u] \in {"shutdown", "join"} /\ on[u] = on[t]
    BY <2>2, <2>3 DEF Takes
  <2>5. u = t
    BY <1>1, <2>1, <2>4, Kinds DEF Exclusion, Busy, Closing
  <2> QED
    BY <1>1, <2>2, <2>5 DEF Takes
<1>5. TypeOK'
  BY <1>1, <1>2, <1>3, <1>4 DEF TypeOK, Started
<1>6. Places'
  BY <1>1, <1>2, <1>3, <1>4, Kinds DEF Places, Closing, InSubmit
<1>7. Mutex'
  BY <1>1, <1>2, <1>3, <1>4, Kinds DEF Mutex
<1>8. Counted'
  BY <1>1, <1>2, <1>3, <1>4 DEF Counted, Begun
<1>9. Contexts'
  BY <1>1, <1>2, <1>3, <1>4, Kinds DEF Contexts, Closing, NoCtx
<1>10. Exclusion'
  BY <1>1, <1>2, <1>3, <1>4, Kinds, ExclusionKept DEF Closing, AtWorker
<1>11. Life'
  BY <1>1, <1>2, <1>3, <1>4, Kinds DEF Life, Takes, Started
<1>12. Removal'
  <2>1. \A u \in Closers : pc'[u] \in {"shutdown", "join"} =>
          workers'[on'[u]] = NoWorker /\ \A x, y \in held'[u] : x = y
    BY <1>1, <1>2, <1>3, <1>4, Kinds DEF Removal, Closing, Started
  <2>2. \A u \in Closers :
          pc'[u] \in {"cleanup", "destroy"} \/ (u \in Callers /\ pc'[u] \in Closing) =>
            workers'[on'[u]] = NoWorker /\ \A v \in Started' : comm'[v] = on'[u] => v \in gone'
    BY <1>1, <1>2, <1>3, <1>4, Kinds DEF Removal, Closing, Started
  <2>3. /\ \A u \in Threads : pc'[u] = "join" => held'[u] \subseteq stop'
        /\ pc'[Exiter] \notin {"shutdown", "join"} => held'[Exiter] = {}
    BY <1>1, <1>2, <1>3, <1>4, Kinds DEF Removal, Closing, Started
  <2> QED
    BY <2>1, <2>2, <2>3 DEF Removal
<1>13. Tasks'
  BY <1>1, <1>2, <1>3, <1>4, Kinds DEF Tasks, Started
<1>14. Leaving'
  BY <1>1, <1>2, <1>3, <1>4, Kinds DEF Leaving, Exiting, Started
<1> QED
  BY <1>5, <1>6, <1>7, <1>8, <1>9, <1>10, <1>11, <1>12, <1>13, <1>14

(* The buffers and the sub-communicator are freed.                         *)
LEMMA CleanUpPreserves ==
  ASSUME IInv, NEW t \in Threads, CleanUp(t)
  PROVE  IInv'
<1> USE DEF IInv
<1>1. /\ t \in Closers /\ pc[t] = "cleanup" /\ usable' = usable \ {negCtx[t]}
      /\ UNCHANGED <<ctx, ctxs, workers, comm, task, asker, stop, gone, lock, on, negCtx, held, calls>>
  BY Kinds DEF CleanUp, Places, Closing, InSubmit, workerVars
<1>2. /\ pc' \in [Threads -> Stages] /\ pc'[t] = "destroy"
      /\ \A u \in Threads : u # t => pc'[u] = pc[u]
  BY <1>1, GoesFacts DEF CleanUp, Stages
<1>3. /\ on[t] \in Comms /\ ctx[on[t]] = negCtx[t] /\ negCtx[t] # NoCtx
      /\ \A c \in Comms : ctx[c] = negCtx[t] => c = on[t]
      /\ \A w \in Started \ gone : comm[w] \in Comms /\ comm[w] # on[t]
  <2>1. on[t] \in Comms /\ ctx[on[t]] = negCtx[t] /\ negCtx[t] # NoCtx
    BY <1>1, Kinds, StartedFacts DEF Contexts, Closing
  <2>2. \A c \in Comms : ctx[c] = negCtx[t] => c = on[t]
    BY <2>1 DEF Contexts
  <2>3. \A w \in Started \ gone : comm[w] \in Comms /\ comm[w] # on[t]
    BY <1>1, StartedFacts DEF Removal
  <2> QED
    BY <2>1, <2>2, <2>3
<1>4. \A u \in Users : pc[u] \in {"lookup", "create", "creating"} => on[u] \in Comms /\ on[u] # on[t]
  BY <1>1, Kinds, StartedFacts, NotBeside DEF Closing
<1>5. TypeOK'
  BY <1>1, <1>2, <1>3, <1>4 DEF TypeOK, Started
<1>6. Places'
  BY <1>1, <1>2, <1>3, <1>4, Kinds DEF Places, Closing, InSubmit
<1>7. Mutex'
  BY <1>1, <1>2, <1>3, <1>4, Kinds DEF Mutex
<1>8. Counted'
  BY <1>1, <1>2, <1>3, <1>4 DEF Counted, Begun
<1>9. Contexts'
  <2>1. /\ \A c \in Comms : ctx'[c] <= ctxs'
        /\ \A c, d \in Comms : ctx'[c] = ctx'[d] /\ ctx'[c] # NoCtx => c = d
    BY <1>1, <1>2, <1>3, <1>4, Kinds DEF Contexts, Closing
  <2>2. \A u \in Closers : pc'[u] \in Closing => ctx'[on'[u]] = negCtx'[u] /\ negCtx'[u] # NoCtx
    BY <1>1, <1>2, <1>3, <1>4, Kinds DEF Contexts, Closing
  <2>3. \A u \in Users : pc'[u] \in {"lookup", "create", "creating"} =>
          ctx'[on'[u]] = negCtx'[u] /\ negCtx'[u] \in usable'
    BY <1>1, <1>2, <1>3, <1>4, Kinds DEF Contexts, Closing
  <2>4. \A c \in Comms : ctx'[c] = NoCtx \/ ctx'[c] \in usable'
                         \/ \E u \in Closers : pc'[u] \in Closing /\ on'[u] = c
    BY <1>1, <1>2, <1>3, <1>4, Kinds DEF Contexts, Closing
  <2> QED
    BY <2>1, <2>2, <2>3, <2>4 DEF Contexts
<1>10. Exclusion'
  BY <1>1, <1>2, <1>3, <1>4, Kinds, ExclusionKept DEF Closing, AtWorker
<1>11. Life'
  <2>1. \A c \in Comms : workers'[c] # NoWorker => comm'[workers'[c]] = c /\ ctx'[c] # NoCtx
    BY <1>1, <1>2, <1>3, Kinds DEF Life, Takes, Started
  <2>2. \A w \in Started' \ gone' : ctx'[comm'[w]] \in usable'
    BY <1>1, <1>2, <1>3, Kinds DEF Life, Takes, Started
  <2>3. \A w \in Started' \ gone' : workers'[comm'[w]] = w \/ \E u \in Threads : Takes(u, w)'
    BY <1>1, <1>2, <1>3, Kinds DEF Life, Takes, Started
  <2> QED
    BY <2>1, <2>2, <2>3 DEF Life
<1>12. Removal'
  BY <1>1, <1>2, <1>3, <1>4, Kinds DEF Removal, Closing, Started
<1>13. Tasks'
  BY <1>1, <1>2, <1>3, <1>4, Kinds DEF Tasks, Started
<1>14. Leaving'
  BY <1>1, <1>2, <1>3, <1>4, Kinds DEF Leaving, Exiting, Started
<1> QED
  BY <1>5, <1>6, <1>7, <1>8, <1>9, <1>10, <1>11, <1>12, <1>13, <1>14

(* The context goes.                                                       *)
LEMMA DestroyCtxPreserves ==
  ASSUME IInv, NEW t \in Threads, DestroyCtx(t)
  PROVE  IInv'
<1> USE DEF IInv
<1>1. /\ t \in Closers /\ pc[t] = "destroy" /\ on[t] \in Comms /\ ctx' = [ctx EXCEPT ![on[t]] = NoCtx]
      /\ UNCHANGED <<ctxs, usable, workers, comm, task, asker, stop, gone, lock, on, calls>>
  BY Kinds DEF DestroyCtx, Places, Closing, InSubmit, TypeOK, workerVars
<1>2. /\ pc' \in [Threads -> Stages] /\ pc'[t] = "idle"
      /\ negCtx' \in [Threads -> 0..MaxCtx] /\ held' \in [Threads -> SUBSET Started]
      /\ \A u \in Threads : u # t =>
           pc'[u] = pc[u] /\ negCtx'[u] = negCtx[u] /\ held'[u] = held[u]
  BY ReturnsFacts DEF DestroyCtx
<1>3. /\ ctx' \in [Comms -> 0..MaxCtx] /\ ctx'[on[t]] = NoCtx /\ 0 <= ctxs
      /\ \A c \in Comms : c # on[t] => ctx'[c] = ctx[c]
  <2>1. MaxCtx \in Nat
    BY FS_CardinalityType, MgrAssumption DEF MaxCtx
  <2> QED
    BY <1>1, <2>1 DEF TypeOK, NoCtx
<1>4. workers[on[t]] = NoWorker /\ \A w \in Started \ gone : comm[w] \in Comms /\ comm[w] # on[t]
  BY <1>1, StartedFacts DEF Removal
<1>5. /\ \A u \in Closers : u # t /\ pc[u] \in Closing => on[u] \in Comms /\ on[u] # on[t]
      /\ \A u \in Users : pc[u] \in {"lookup", "create", "creating"} => on[u] \in Comms /\ on[u] # on[t]
  BY <1>1, Kinds, StartedFacts, NotBeside DEF Closing
<1>6. TypeOK'
  BY <1>1, <1>2, <1>3, <1>4, <1>5 DEF TypeOK, Started
<1>7. Places'
  BY <1>1, <1>2, <1>3, <1>4, <1>5, Kinds DEF Places, Closing, InSubmit
<1>8. Mutex'
  BY <1>1, <1>2, <1>3, <1>4, <1>5, Kinds DEF Mutex
<1>9. Counted'
  BY <1>1, <1>2, <1>3, <1>4, <1>5 DEF Counted, Begun
<1>10. Contexts'
  <2>1. /\ \A c \in Comms : ctx'[c] <= ctxs'
        /\ \A c, d \in Comms : ctx'[c] = ctx'[d] /\ ctx'[c] # NoCtx => c = d
    BY <1>1, <1>3 DEF Contexts, NoCtx
  <2>2. \A u \in Closers : pc'[u] \in Closing => ctx'[on'[u]] = negCtx'[u] /\ negCtx'[u] # NoCtx
    BY <1>1, <1>2, <1>3, <1>5, Kinds DEF Contexts, Closing
  <2>3. \A u \in Users : pc'[u] \in {"lookup", "create", "creating"} =>
          ctx'[on'[u]] = negCtx'[u] /\ negCtx'[u] \in usable'
    BY <1>1, <1>2, <1>3, <1>5, Kinds DEF Contexts, Closing
  <2>4. \A c \in Comms : ctx'[c] = NoCtx \/ ctx'[c] \in usable'
                         \/ \E u \in Closers : pc'[u] \in Closing /\ on'[u] = c
    BY <1>1, <1>2, <1>3, <1>5, Kinds DEF Contexts, Closing
  <2> QED
    BY <2>1, <2>2, <2>3, <2>4 DEF Contexts
<1>11. Exclusion'
  BY <1>1, <1>2, <1>3, <1>4, <1>5, Kinds, ExclusionKept DEF Closing, AtWorker
<1>12. Life'
  <2>1. \A c \in Comms : workers'[c] # NoWorker => comm'[workers'[c]] = c /\ ctx'[c] # NoCtx
    BY <1>1, <1>2, <1>3, <1>4, Kinds DEF Life, Takes, Started
  <2>2. \A w \in Started' \ gone' : ctx'[comm'[w]] \in usable'
    BY <1>1, <1>2, <1>3, <1>4, Kinds DEF Life, Takes, Started
  <2>3. \A w \in Started' \ gone' : workers'[comm'[w]] = w \/ \E u \in Threads : Takes(u, w)'
    BY <1>1, <1>2, <1>3, <1>4, Kinds DEF Life, Takes, Started
  <2> QED
    BY <2>1, <2>2, <2>3 DEF Life
<1>13. Removal'
  BY <1>1, <1>2, <1>3, <1>4, <1>5, Kinds DEF Removal, Closing, Started
<1>14. Tasks'
  <2>1. \A v \in Workers : task'[v] # NoCtx =>
          /\ v \in Started' \ gone' /\ task'[v] = ctx'[comm'[v]]
          /\ asker'[v] \in Users /\ pc'[asker'[v]] = "waiting"
    BY <1>1, <1>2, <1>3, <1>4, Kinds DEF Tasks, Started
  <2>2. /\ \A v, u \in Workers : task'[v] # NoCtx /\ task'[u] # NoCtx /\ asker'[v] = asker'[u] => v = u
        /\ \A v \in Workers : pc'[v] # "idle" => task'[v] # NoCtx /\ on'[v] = comm'[v]
    BY <1>1, <1>2, <1>3, <1>4, Kinds DEF Tasks, Started
  <2>3. \A u \in Users : pc'[u] = "submit" => \A v \in held'[u] :
          comm'[v] = on'[u] /\ (v \notin gone' => negCtx'[u] = ctx'[on'[u]])
    <3> SUFFICES ASSUME NEW u \in Users, pc'[u] = "submit", NEW v \in held'[u]
                 PROVE  comm'[v] = on'[u] /\ (v \notin gone' => negCtx'[u] = ctx'[on'[u]])
      OBVIOUS
    <3>1. u \in Threads /\ u # t /\ pc[u] = "submit" /\ v \in held[u] /\ v \in Started
      BY <1>2, Kinds DEF TypeOK
    <3>2. comm[v] = on[u] /\ (v \notin gone => negCtx[u] = ctx[on[u]])
      BY <3>1 DEF Tasks
    <3> QED
      BY <1>1, <1>2, <1>3, <1>4, <3>1, <3>2
  <2> QED
    BY <2>1, <2>2, <2>3 DEF Tasks
<1>15. Leaving'
  BY <1>1, <1>2, <1>3, <1>4, <1>5, Kinds DEF Leaving, Exiting, Started
<1> QED
  BY <1>6, <1>7, <1>8, <1>9, <1>10, <1>11, <1>12, <1>13, <1>14, <1>15

(* The manager goes when nobody but tasks and their callers uses it.       *)
LEMMA ExitPreserves ==
  ASSUME IInv, Exit
  PROVE  IInv'
<1> USE DEF IInv
<1>1. /\ ~ Exiting /\ lock = Nobody /\ lock' = Exiter
      /\ \A u \in Callers \cup Cleaners : pc[u] \in {"idle", "waiting"}
      /\ \A w \in Workers : pc[w] \in {"idle", "lookup"}
      /\ UNCHANGED <<ctx, ctxs, usable, workers, comm, task, asker, stop, gone, on, negCtx, held>>
  BY DEF Exit, ctxVars, workerVars
<1>2. /\ pc' \in [Threads -> Stages] /\ pc'[Exiter] = "swap"
      /\ \A u \in Threads : u # Exiter => pc'[u] = pc[u]
  BY Kinds, GoesFacts DEF Exit, Stages
<1>3. /\ calls' \in [Threads -> Nat] /\ \A u \in Callers : calls'[u] = calls[u]
  BY Kinds DEF Exit, Counts, TypeOK
<1>4. \A u \in Threads : pc[u] \notin {"shutdown", "join"}
  BY <1>1, Kinds DEF Exiting
<1>5. TypeOK'
  BY <1>1, <1>2, <1>3, <1>4, Kinds DEF TypeOK, Started
<1>6. Places'
  BY <1>1, <1>2, <1>3, <1>4, Kinds DEF Places, Closing, InSubmit
<1>7. Mutex'
  BY <1>1, <1>2, <1>3, <1>4, Kinds DEF Mutex
<1>8. Counted'
  BY <1>1, <1>2, <1>3, <1>4 DEF Counted, Begun
<1>9. Contexts'
  BY <1>1, <1>2, <1>3, <1>4, Kinds DEF Contexts, Closing, NoCtx
<1>10. Exclusion'
  BY <1>1, <1>2, <1>3, <1>4, Kinds, ExclusionKept DEF Closing, AtWorker
<1>11. Life'
  <2>1. \A c \in Comms : workers'[c] # NoWorker => comm'[workers'[c]] = c /\ ctx'[c] # NoCtx
    BY <1>1, <1>2, <1>4, Kinds DEF Life, Takes, Started
  <2>2. \A w \in Started' \ gone' : ctx'[comm'[w]] \in usable'
    BY <1>1, <1>2, <1>4, Kinds DEF Life, Takes, Started
  <2>3. \A w \in Started' \ gone' : workers'[comm'[w]] = w \/ \E t \in Threads : Takes(t, w)'
    BY <1>1, <1>2, <1>4, Kinds DEF Life, Takes, Started
  <2> QED
    BY <2>1, <2>2, <2>3 DEF Life
<1>12. Removal'
  BY <1>1, <1>2, <1>3, <1>4, Kinds DEF Removal, Closing, Started
<1>13. Tasks'
  BY <1>1, <1>2, <1>3, <1>4, Kinds DEF Tasks, Started
<1>14. Leaving'
  BY <1>1, <1>2, Kinds DEF Leaving, Exiting, Places, Closing
<1> QED
  BY <1>5, <1>6, <1>7, <1>8, <1>9, <1>10, <1>11, <1>12, <1>13, <1>14

(* At exit all workers are taken out of the map.                           *)
LEMMA SwapPreserves ==
  ASSUME IInv, Swap
  PROVE  IInv'
<1> USE DEF IInv
<1>1. /\ pc[Exiter] = "swap" /\ lock = Exiter /\ lock' = Nobody
      /\ UNCHANGED <<ctx, ctxs, usable, comm, task, asker, stop, gone, on, negCtx, calls>>
  BY Kinds DEF Swap, Mutex, ctxVars, workerVars
<1>2. /\ pc' \in [Threads -> Stages] /\ pc'[Exiter] = "shutdown"
      /\ \A u \in Threads : u # Exiter => pc'[u] = pc[u]
  BY Kinds, GoesFacts DEF Swap, Stages
<1>3. /\ \A c \in Comms : workers'[c] = NoWorker
      /\ workers' \in [Comms -> {NoWorker} \cup Started] /\ Taken \subseteq Started
      /\ held' \in [Threads -> SUBSET Started] /\ held'[Exiter] = Taken
      /\ \A u \in Threads : u # Exiter => held'[u] = held[u]
  BY Kinds DEF Swap, TypeOK, Taken
<1>4. \A w \in Started \ gone : w \in Taken
  BY <1>1, StartedFacts, Kinds DEF Life, Takes, Taken, Leaving, Exiting
<1>5. \A u \in Closers : pc[u] \notin Closing
  BY <1>1, Kinds DEF Leaving, Exiting, Closing
<1>6. TypeOK'
  BY <1>1, <1>2, <1>3, <1>4, <1>5 DEF TypeOK, Started
<1>7. Places'
  BY <1>1, <1>2, <1>3, <1>4, <1>5, Kinds DEF Places, Closing, InSubmit
<1>8. Mutex'
  BY <1>1, <1>2, <1>3, <1>4, <1>5, Kinds DEF Mutex
<1>9. Counted'
  BY <1>1, <1>2, <1>3, <1>4, <1>5 DEF Counted, Begun
<1>10. Contexts'
  BY <1>1, <1>2, <1>3, <1>4, <1>5, Kinds DEF Contexts, Closing, NoCtx
<1>11. Exclusion'
  BY <1>1, <1>2, <1>3, <1>4, <1>5, Kinds, ExclusionKept DEF Closing, AtWorker
<1>12. Life'
  BY <1>1, <1>2, <1>3, <1>4, Kinds DEF Life, Takes, Started
<1>13. Removal'
  BY <1>1, <1>2, <1>3, <1>5, StartedFacts, Kinds DEF Removal, Closing, Started
<1>14. Tasks'
  BY <1>1, <1>2, <1>3, <1>4, <1>5, Kinds DEF Tasks, Started
<1>15. Leaving'
  BY <1>1, <1>2, <1>3, <1>4, <1>5, StartedFacts, Kinds DEF Leaving, Exiting, Started
<1> QED
  BY <1>6, <1>7, <1>8, <1>9, <1>10, <1>11, <1>12, <1>13, <1>14, <1>15

(* The map goes with the workers that a task put in it meanwhile.          *)
LEMMA DestroyMembersPreserves ==
  ASSUME IInv, DestroyMembers
  PROVE  IInv'
<1> USE DEF IInv
<1>1. /\ pc[Exiter] = "members"
      /\ UNCHANGED <<ctx, ctxs, usable, comm, task, asker, stop, gone, lock, on, negCtx, calls>>
  BY Kinds DEF DestroyMembers, Mutex, ctxVars, workerVars
<1>2. /\ pc' \in [Threads -> Stages] /\ pc'[Exiter] = (IF Taken = {} THEN "exited" ELSE "shutdown")
      /\ \A u \in Threads : u # Exiter => pc'[u] = pc[u]
  BY Kinds, GoesFacts DEF DestroyMembers, Stages
<1>3. /\ \A c \in Comms : workers'[c] = NoWorker
      /\ workers' \in [Comms -> {NoWorker} \cup Started] /\ Taken \subseteq Started
      /\ held' \in [Threads -> SUBSET Started] /\ held'[Exiter] = Taken
      /\ \A u \in Threads : u # Exiter => held'[u] = held[u]
  BY Kinds DEF DestroyMembers, TypeOK, Taken
<1>4. \A w \in Started \ gone : w \in Taken
  BY <1>1, StartedFacts, Kinds DEF Life, Takes, Taken, Leaving, Exiting
<1>5. \A u \in Closers : pc[u] \notin Closing
  BY <1>1, Kinds DEF Leaving, Exiting, Closing
<1>6. TypeOK'
  BY <1>1, <1>2, <1>3, <1>4, <1>5 DEF TypeOK, Started
<1>7. Places'
  BY <1>1, <1>2, <1>3, <1>4, <1>5, Kinds DEF Places, Closing, InSubmit
<1>8. Mutex'
  BY <1>1, <1>2, <1>3, <1>4, <1>5, Kinds DEF Mutex
<1>9. Counted'
  BY <1>1, <1>2, <1>3, <1>4, <1>5 DEF Counted, Begun
<1>10. Contexts'
  BY <1>1, <1>2, <1>3, <1>4, <1>5, Kinds DEF Contexts, Closing, NoCtx
<1>11. Exclusion'
  BY <1>1, <1>2, <1>3, <1>4, <1>5, Kinds, ExclusionKept DEF Closing, AtWorker
<1>12. Life'
  BY <1>1, <1>2, <1>3, <1>4, Kinds DEF Life, Takes, Started
<1>13. Removal'
  BY <1>1, <1>2, <1>3, <1>5, StartedFacts, Kinds DEF Removal, Closing, Started
<1>14. Tasks'
  BY <1>1, <1>2, <1>3, <1>4, <1>5, Kinds DEF Tasks, Started
<1>15. Leaving'
  BY <1>1, <1>2, <1>3, <1>4, <1>5, StartedFacts, Kinds DEF Leaving, Exiting, Started
<1> QED
  BY <1>6, <1>7, <1>8, <1>9, <1>10, <1>11, <1>12, <1>13, <1>14, <1>15

LEMMA CreatePreserves ==
  ASSUME IInv, NEW t \in Threads, Create(t)
  PROVE  IInv'
<1>1. pc'[t] \in {"submit", "idle"}
  BY GoesFacts, ReturnsFacts DEF Create, Starts, Stages, IInv
<1> QED
  BY <1>1, CreateFoundPreserves, CreateFailsPreserves, CreateNewPreserves

LEMMA SubmitPreserves ==
  ASSUME IInv, NEW t \in Threads, SubmitToWorker(t)
  PROVE  IInv'
<1>1. pc'[t] \in {"waiting", "idle"}
  BY GoesFacts, ReturnsFacts DEF SubmitToWorker, Stages, IInv
<1> QED
  BY <1>1, RefusedPreserves, AcceptedPreserves

-----------------------------------------------------------------------------
LEMMA NextIInv == IInv /\ [Next]_vars => IInv'
<1> SUFFICES ASSUME IInv, [Next]_vars PROVE IInv'
  OBVIOUS
<1>1. CASE \E t \in Callers, c \in Comms : Negotiate(t, c)
  BY <1>1, NegotiateFoundPreserves, NegotiateNewPreserves
<1>2. CASE \E t \in Cleaners, c \in Comms : Callback(t, c)
  BY <1>2, CallbackPreserves
<1>3. CASE \E t \in Threads : Continues(t)
  BY <1>3, FillPreserves, LookUpPreserves, LockToCreatePreserves, CreatePreserves, SubmitPreserves,
     LockToErasePreserves, ErasePreserves, ShutdownPreserves, JoinPreserves, CleanUpPreserves,
     DestroyCtxPreserves DEF Continues
<1>4. CASE \E w \in Workers : NestedSubmit(w) \/ TaskDone(w) \/ WorkerEnds(w)
  BY <1>4, NestedPreserves, TaskDonePreserves, WorkerEndsPreserves
<1>5. CASE Exit \/ Swap \/ DestroyMembers
  BY <1>5, ExitPreserves, SwapPreserves, DestroyMembersPreserves
<1>6. CASE UNCHANGED vars
  <2>1. UNCHANGED <<ctx, ctxs, usable, workers, comm, task, asker, stop, gone, lock, pc, on,
                    negCtx, held, calls>>
    BY <1>6 DEF vars, ctxVars, workerVars
  <2>2. TypeOK' /\ Places' /\ Mutex' /\ Counted' /\ Contexts' /\ Leaving'
    BY <2>1 DEF IInv, TypeOK, Started, Places, Mutex, Counted, Begun, Contexts, Leaving, Exiting
  <2>3. Exclusion' /\ Life' /\ Removal' /\ Tasks'
    BY <2>1 DEF IInv, Exclusion, Busy, Life, Takes, Started, Removal, Tasks
  <2> QED
    BY <2>2, <2>3 DEF IInv
<1> QED
  BY <1>1, <1>2, <1>3, <1>4, <1>5, <1>6 DEF Next

(* Every reachable state satisfies the inductive invariant. *)
THEOREM Invariance == Spec => []IInv
<1> QED
  BY InitIInv, NextIInv, PTL DEF Spec

(* The map, the contexts and the threads keep their types. *)
THEOREM TypeCorrect == Spec => []TypeOK
<1>1. IInv => TypeOK
  BY DEF IInv
<1> QED
  BY <1>1, Invariance, PTL

(* "No tag means no worker": a communicator whose context has gone, after  *)
(* a callback or a creation that failed, has no worker that still runs.    *)
THEOREM NoTagMeansNoWorker == Spec => []NoTagNoWorker
<1>1. IInv => NoTagNoWorker
  BY DEF IInv, NoTagNoWorker, Life, TypeOK, NoCtx
<1> QED
  BY <1>1, Invariance, PTL

(* A task never works on buffers that CleanupNegotiationRes has freed, in  *)
(* any interleaving of operations, callbacks and exit.                     *)
THEOREM TasksUseLiveContexts == Spec => []NoDanglingUse
<1>1. IInv => NoDanglingUse
  BY DEF IInv, NoDanglingUse, Tasks, Life
<1> QED
  BY <1>1, Invariance, PTL

(* Two threads of one communicator's workers never run at the same time    *)
(* before exit: one is in the map, and while it is being shut down the map *)
(* has none and nobody can start another.                                  *)
THEOREM WorkersAreUnique == Spec => []OneWorkerPerComm
<1>1. ASSUME IInv PROVE OneWorkerPerComm
  <2> SUFFICES ASSUME ~ Exiting, NEW v \in Started \ gone, NEW w \in Started \ gone,
                      comm[v] = comm[w]
               PROVE  v = w
    BY DEF OneWorkerPerComm
  <2>1. v # NoWorker /\ w # NoWorker
    BY <1>1, StartedFacts DEF IInv
  <2>2. \A x \in Started \ gone : workers[comm[x]] = x \/ \E t \in Closers :
          /\ pc[t] \in {"shutdown", "join"} /\ x \in held[t] /\ on[t] = comm[x]
          /\ workers[comm[x]] = NoWorker
    BY <1>1, Kinds DEF IInv, Life, Takes, Removal, Exiting, Places
  <2>3. CASE workers[comm[v]] = v
    BY <2>1, <2>2, <2>3
  <2>4. CASE workers[comm[v]] # v
    <3>1. PICK t \in Closers : /\ pc[t] \in {"shutdown", "join"} /\ v \in held[t]
                               /\ on[t] = comm[v] /\ workers[comm[v]] = NoWorker
      BY <2>2, <2>4
    <3>2. PICK u \in Closers : /\ pc[u] \in {"shutdown", "join"} /\ w \in held[u]
                               /\ on[u] = comm[w]
      BY <2>1, <2>2, <3>1
    <3>3. t = u
      BY <1>1, <3>1, <3>2, NotBeside DEF Closing
    <3> QED
      BY <1>1, <3>1, <3>2, <3>3 DEF IInv, Removal
  <2> QED
    BY <2>3, <2>4
<1> QED
  BY <1>1, Invariance, PTL

(* When ~CommWorkerMgr has returned every worker thread has ended, also    *)
(* one that a task started while the others were joined.                   *)
THEOREM NoThreadSurvivesExit == Spec => []ExitLeavesNoThread
<1>1. IInv => ExitLeavesNoThread
  BY DEF IInv, ExitLeavesNoThread, Leaving
<1> QED
  BY <1>1, Invariance, PTL
=============================================================================
