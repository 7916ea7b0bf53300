------------------------- MODULE OrderLaunchProofs -------------------------
(***************************************************************************)
(* Proofs about OrderLaunch.  The argument: a stream is first in, first    *)
(* out, so its waits consume notifies in the order of the operations; and  *)
(* the notify of the unfold stream and that of the order stream hand the   *)
(* turn to each other.  A notify that is set therefore has one operation   *)
(* whose record is done and whose wait is not (TurnHeld, KernelHeld), and  *)
(* no wait is ahead of its own record.                                     *)
(***************************************************************************)
EXTENDS OrderLaunch, FiniteSetTheorems, SequenceTheorems, TLAPS

(* A task that has been executed had been queued; operations after the one *)
(* the host is at have queued nothing; an operation queues its tasks in    *)
(* the order of its calls.                                                 *)
Queued ==
  \A d \in Devices :
    /\ done[d] \subseteq sent[d]
    /\ \A i \in Ops : \A n \in 1..8 : <<i, n>> \in sent[d] =>
         /\ n \in Calls(i) /\ i <= next[d]
         /\ \A m \in Calls(i) : m < n => <<i, m>> \in sent[d]

(* Of two tasks of one stream the earlier one is executed first.           *)
Fifo ==
  \A d \in Devices : \A i, j \in Ops : \A n, m \in 1..8 :
    /\ <<i, n>> \in done[d] /\ <<j, m>> \in sent[d]
    /\ On(j, m) = On(i, n) /\ Earlier(<<j, m>>, <<i, n>>)
    => <<j, m>> \in done[d]

(* A kernel runs when the tasks before it on its stream are executed; its  *)
(* own task is when it has returned.                                       *)
KernelsInTurn ==
  \A d \in Devices : \A i \in Ops :
    /\ kernel[d][i] # "none" =>
         /\ <<i, Kernel>> \in sent[d]
         /\ \A j \in Ops : \A m \in 1..8 :
              /\ <<j, m>> \in sent[d]
              /\ On(j, m) = UnfoldStream(i) /\ Earlier(<<j, m>>, <<i, Kernel>>)
              => <<j, m>> \in done[d]
    /\ kernel[d][i] = "none" => <<i, Kernel>> \notin done[d]

(* What the pairs of notifies need: both order threads, and neither a      *)
(* stream fed from two order streams nor half a pair left by a failure.    *)
Paired(d) == grant = "both" /\ Unmixed /\ ~Torn(d)

(* An unfold stream passes its wait after the order stream's record, a set *)
(* notify is that of an operation between the two.                         *)
TurnHeld ==
  \A d \in Devices : Paired(d) =>
    /\ \A k \in Ops : <<k, TurnWait>> \in done[d] => <<k, Record>> \in done[d]
    /\ \A i \in Ops : UnfoldStream(i) \in notified[d] =>
         \E k \in Ops : /\ UnfoldStream(k) = UnfoldStream(i)
                        /\ <<k, Record>> \in done[d] /\ <<k, TurnWait>> \notin done[d]

(* And the order stream passes its wait after the kernel has started.      *)
KernelHeld ==
  \A d \in Devices : Paired(d) =>
    /\ \A k \in Ops : <<k, OrderWait>> \in done[d] => Started(d, k)
    /\ \A i \in Ops : OrderStream(i) \in notified[d] =>
         \E k \in Ops : /\ OrderStream(k) = OrderStream(i)
                        /\ Started(d, k) /\ <<k, OrderWait>> \notin done[d]

(* Without both order threads no notify is ever recorded.                  *)
Untouched == grant # "both" => \A d \in Devices : lost[d] = {}

IInv ==
  /\ TypeOK /\ Queued /\ Fifo /\ KernelsInTurn
  /\ TurnHeld /\ KernelHeld /\ Untouched /\ NoNotifyLost

-----------------------------------------------------------------------------
(* The inputs are one of the instances. *)
LEMMA Inputs ==
  TypeOK => /\ program \in Seq([comm : Comms, mode : Modes])
            /\ cores \in Nat \ {0} /\ mishaps \in Nat
            /\ Len(program) \in Nat /\ Ops = 1..Len(program)
<1> DEFINE x == [program |-> program, cores |-> cores, grant |-> grant, mishaps |-> mishaps]
<1> SUFFICES ASSUME TypeOK
             PROVE  /\ program \in Seq([comm : Comms, mode : Modes])
                    /\ cores \in Nat \ {0} /\ mishaps \in Nat
                    /\ Len(program) \in Nat /\ Ops = 1..Len(program)
  OBVIOUS
<1>1. x \in Instances
  BY DEF TypeOK
<1>2. /\ x.program \in Seq([comm : Comms, mode : Modes])
      /\ x.cores \in Nat \ {0} /\ x.mishaps \in Nat
  BY <1>1, OrderLaunchAssumption
<1> QED
  BY <1>2 DEF Ops

LEMMA StreamTypes ==
  ASSUME TypeOK, NEW i \in Ops
  PROVE  OrderStream(i) \in Streams /\ UnfoldStream(i) \in Streams
<1>1. program[i] \in [comm : Comms, mode : Modes]
  BY Inputs, ElementOfSeq
<1> QED
  BY <1>1 DEF OrderStream, UnfoldStream, Streams

(* An order stream is no unfold stream. *)
LEMMA StreamsDiffer ==
  ASSUME NEW i, NEW j
  PROVE  OrderStream(i) # UnfoldStream(j)
BY DEF OrderStream, UnfoldStream

(* Each call has its stream. *)
LEMMA OnFacts ==
  ASSUME NEW i
  PROVE  /\ On(i, Record) = OrderStream(i) /\ On(i, OrderWait) = OrderStream(i)
         /\ On(i, TurnWait) = UnfoldStream(i) /\ On(i, Kernel) = UnfoldStream(i)
BY DEF On, Fork, Record, TurnWait, Kernel, OrderWait, RejoinWait

(* The calls of the two pairs of notifies, and the launch between them.    *)
LEMMA CallNumbers ==
  /\ Record \in 1..8 /\ TurnWait \in 1..8 /\ Kernel \in 1..8 /\ OrderWait \in 1..8
  /\ Record # TurnWait /\ Record # Kernel /\ Record # OrderWait
  /\ TurnWait # Kernel /\ TurnWait # OrderWait /\ Kernel # OrderWait
BY DEF Record, TurnWait, Kernel, OrderWait

(* With both order threads each pair is called, without none. *)
LEMMA CallFacts ==
  ASSUME NEW i
  PROVE  /\ Calls(i) \subseteq 1..8 /\ Kernel \in Calls(i)
         /\ grant = "both" => {Record, TurnWait, OrderWait} \subseteq Calls(i)
         /\ grant # "both" => {Record, TurnWait, OrderWait} \cap Calls(i) = {}
BY DEF Calls, ToOrderStream, ToKernelStream, Captured,
       Fork, ForkWait, Record, TurnWait, Kernel, OrderWait, Rejoin, RejoinWait

(* What depends on the inputs only stays. *)
LEMMA Frozen ==
  ASSUME UNCHANGED inputVars
  PROVE  /\ Ops' = Ops /\ Unmixed' = Unmixed
         /\ \A i : /\ OrderStream(i)' = OrderStream(i) /\ UnfoldStream(i)' = UnfoldStream(i)
                   /\ Calls(i)' = Calls(i)
                   /\ \A n : On(i, n)' = On(i, n)
<1>1. Ops' = Ops
  BY DEF inputVars, Ops
<1>2. \A i : OrderStream(i)' = OrderStream(i) /\ UnfoldStream(i)' = UnfoldStream(i)
  BY DEF inputVars, OrderStream, UnfoldStream
<1>3. \A i : Calls(i)' = Calls(i)
  BY DEF inputVars, Calls, ToOrderStream, ToKernelStream, Captured
<1>4. \A i, n : On(i, n)' = On(i, n)
  BY <1>2 DEF On
<1>5. Unmixed' = Unmixed
  BY <1>1, <1>2 DEF Unmixed
<1> QED
  BY <1>1, <1>2, <1>3, <1>4, <1>5

-----------------------------------------------------------------------------
(* A mishap that is left is within the bound. *)
LEMMA MishapBound == TypeOK /\ MishapLeft => faults + 1 \in 0..mishaps
<1> SUFFICES ASSUME TypeOK, MishapLeft PROVE faults + 1 \in 0..mishaps
  OBVIOUS
<1>1. IsFiniteSet(suspended)
  BY OrderLaunchAssumption, FS_Subset DEF TypeOK
<1>2. Cardinality(suspended) \in Nat
  BY <1>1, FS_CardinalityType
<1> QED
  BY <1>2, Inputs DEF TypeOK, MishapLeft

(* The next step of the host, and what it adds. *)
HostGoesOn ==
  /\ UNCHANGED <<inputVars, streamVars, kernel>>
  /\ \A d \in Devices :
       /\ next[d] <= next'[d] /\ sent[d] \subseteq sent'[d]
       /\ \A t \in sent'[d] \ sent[d] : t[1] = next[d]

LEMMA CallStep ==
  ASSUME TypeOK, Queued, NEW d \in Devices, Call(d)
  PROVE  TypeOK' /\ Queued' /\ HostGoesOn
<1> USE DEF TypeOK
<1>1. PICK n \in Unsent(d, next[d]) :
        /\ \A m \in Unsent(d, next[d]) : n <= m
        /\ sent' = [sent EXCEPT ![d] = @ \cup {<<next[d], n>>}]
        /\ next' = [next EXCEPT ![d] = IF Unsent(d, next[d]) = {n} THEN @ + 1 ELSE @]
  BY DEF Call
<1>2. /\ next[d] \in Ops /\ n \in Calls(next[d]) /\ n \in 1..8
      /\ UNCHANGED <<inputVars, streamVars, kernel, suspended, faults>>
  BY <1>1, CallFacts DEF Call, Unsent
<1>3. /\ Ops' = Ops /\ \A i : Calls(i)' = Calls(i)
  BY <1>2, Frozen
<1>4. /\ next[d] + 1 \in 1..(Len(program) + 1) /\ Ops = 1..Len(program) /\ Len(program) \in Nat
  BY <1>2, Inputs
<1>5. TypeOK'
  <2>1. next' \in [Devices -> 1..(Len(program) + 1)]
    BY <1>1, <1>4
  <2>2. sent' \in [Devices -> SUBSET (Ops \X (1..8))]
    BY <1>1, <1>2
  <2> QED
    BY <2>1, <2>2, <1>2, <1>3 DEF inputVars, streamVars
<1>6. HostGoesOn
  <2>1. \A e \in Devices : next[e] <= next'[e]
    BY <1>1, <1>4
  <2>2. \A e \in Devices : /\ sent[e] \subseteq sent'[e]
                           /\ \A t \in sent'[e] \ sent[e] : t[1] = next[e]
    BY <1>1
  <2> QED
    BY <1>2, <2>1, <2>2 DEF HostGoesOn
<1>7. Queued'
  <2> SUFFICES ASSUME NEW e \in Devices
               PROVE  /\ done[e] \subseteq sent'[e]
                      /\ \A i \in Ops : \A k \in 1..8 : <<i, k>> \in sent'[e] =>
                           /\ k \in Calls(i) /\ i <= next'[e]
                           /\ \A m \in Calls(i) : m < k => <<i, m>> \in sent'[e]
    BY <1>2, <1>3 DEF Queued, streamVars
  <2>1. done[e] \subseteq sent'[e]
    BY <1>6 DEF Queued, HostGoesOn
  <2>2. ASSUME NEW i \in Ops, NEW k \in 1..8, <<i, k>> \in sent'[e]
        PROVE  /\ k \in Calls(i) /\ i <= next'[e]
               /\ \A m \in Calls(i) : m < k => <<i, m>> \in sent'[e]
    <3>1. CASE <<i, k>> \in sent[e]
      <4>1. k \in Calls(i) /\ i <= next[e] /\ \A m \in Calls(i) : m < k => <<i, m>> \in sent[e]
        BY <3>1 DEF Queued
      <4>2. i <= next'[e]
        BY <4>1, <1>4, <1>5, <1>6 DEF HostGoesOn
      <4> QED
        BY <4>1, <4>2, <1>6 DEF HostGoesOn
    <3>2. CASE <<i, k>> \notin sent[e]
      <4>1. e = d /\ i = next[d] /\ k = n
        BY <3>2, <2>2, <1>1
      <4>2. \A m \in Calls(i) : m < n => <<i, m>> \in sent[d]
        <5> SUFFICES ASSUME NEW m \in Calls(i), m < n, <<i, m>> \notin sent[d] PROVE FALSE
          OBVIOUS
        <5>1. m \in Unsent(d, next[d]) /\ m \in 1..8
          BY <4>1, CallFacts DEF Unsent
        <5> QED
          BY <5>1, <1>1, <1>2
      <4>3. i <= next'[e]
        BY <4>1, <1>4, <1>5, <1>6 DEF HostGoesOn
      <4> QED
        BY <4>1, <4>2, <4>3, <1>2, <1>6 DEF HostGoesOn
    <3> QED
      BY <3>1, <3>2
  <2> QED
    BY <2>1, <2>2
<1> QED
  BY <1>5, <1>6, <1>7

LEMMA CallFailsStep ==
  ASSUME TypeOK, Queued, NEW d \in Devices, CallFails(d)
  PROVE  TypeOK' /\ Queued' /\ HostGoesOn
<1> USE DEF TypeOK
<1>1. /\ next[d] \in Ops /\ next' = [next EXCEPT ![d] = @ + 1] /\ faults' = faults + 1
      /\ UNCHANGED <<inputVars, sent, streamVars, kernel, suspended>> /\ MishapLeft
  BY DEF CallFails
<1>2. /\ next[d] + 1 \in 1..(Len(program) + 1) /\ Ops = 1..Len(program) /\ Len(program) \in Nat
  BY <1>1, Inputs
<1>3. /\ Ops' = Ops /\ \A i : Calls(i)' = Calls(i)
  BY <1>1, Frozen
<1>4. TypeOK'
  <2>1. next' \in [Devices -> 1..(Len(program) + 1)]
    BY <1>1, <1>2
  <2>2. faults' \in 0..mishaps'
    BY <1>1, MishapBound DEF inputVars
  <2> QED
    BY <2>1, <2>2, <1>1, <1>3 DEF inputVars, streamVars
<1>5. \A e \in Devices : next[e] <= next'[e]
  BY <1>1, <1>2
<1>6. HostGoesOn
  BY <1>1, <1>5 DEF HostGoesOn
<1>7. Queued'
  <2> SUFFICES ASSUME NEW e \in Devices, NEW i \in Ops, NEW k \in 1..8, <<i, k>> \in sent[e]
               PROVE  k \in Calls(i) /\ i <= next'[e] /\ \A m \in Calls(i) : m < k => <<i, m>> \in sent[e]
    BY <1>1, <1>3 DEF Queued, streamVars
  <2>1. k \in Calls(i) /\ i <= next[e] /\ \A m \in Calls(i) : m < k => <<i, m>> \in sent[e]
    BY DEF Queued
  <2>2. i <= next'[e]
    BY <2>1, <1>2, <1>4, <1>5
  <2> QED
    BY <2>1, <2>2
<1> QED
  BY <1>4, <1>6, <1>7

(* What a failure has torn stays torn, and a launch that failed stays      *)
(* failed.                                                                 *)
LEMMA TornStays ==
  ASSUME TypeOK, TypeOK', HostGoesOn, NEW d \in Devices
  PROVE  /\ Paired(d)' => Paired(d)
         /\ AllLaunched(d)' => AllLaunched(d)
<1>1. Ops' = Ops /\ (\A i : Calls(i)' = Calls(i)) /\ Unmixed' = Unmixed /\ grant' = grant
  BY Frozen DEF HostGoesOn, inputVars
<1>2. \A i \in Ops : i < next[d] => i < next'[d] /\ \A n : <<i, n>> \in sent'[d] <=> <<i, n>> \in sent[d]
  <2> SUFFICES ASSUME NEW i \in Ops, i < next[d]
               PROVE  i < next'[d] /\ \A n : <<i, n>> \in sent'[d] <=> <<i, n>> \in sent[d]
    OBVIOUS
  <2>1. i < next'[d]
    BY Inputs, <1>1 DEF HostGoesOn, TypeOK
  <2>2. i # next[d]
    BY Inputs DEF TypeOK
  <2>3. ASSUME NEW n PROVE <<i, n>> \in sent'[d] <=> <<i, n>> \in sent[d]
    BY <2>2 DEF HostGoesOn
  <2> QED
    BY <2>1, <2>3
<1>3. Torn(d) => Torn(d)'
  BY <1>1, <1>2 DEF Torn, Unsent
<1>4. AllLaunched(d)' => AllLaunched(d)
  BY <1>1, <1>2 DEF AllLaunched
<1> QED
  BY <1>1, <1>3, <1>4 DEF Paired

LEMMA HostPreserves ==
  ASSUME IInv, TypeOK', Queued', HostGoesOn
  PROVE  IInv'
<1> USE DEF IInv
<1>1. /\ Ops' = Ops /\ grant' = grant /\ Unmixed' = Unmixed
      /\ \A i : /\ OrderStream(i)' = OrderStream(i) /\ UnfoldStream(i)' = UnfoldStream(i)
                /\ Calls(i)' = Calls(i)
                /\ \A n : On(i, n)' = On(i, n)
  BY Frozen DEF HostGoesOn, inputVars
<1>2. done' = done /\ notified' = notified /\ lost' = lost /\ kernel' = kernel
  BY DEF HostGoesOn, streamVars
<1>3. \A d \in Devices : (Paired(d)' => Paired(d)) /\ (AllLaunched(d)' => AllLaunched(d))
  BY TornStays
<1>4. ASSUME NEW d \in Devices, NEW i \in Ops, NEW j \in Ops, NEW n \in 1..8, NEW m \in 1..8,
             <<i, n>> \in sent[d], <<j, m>> \in sent'[d], Earlier(<<j, m>>, <<i, n>>)
      PROVE  <<j, m>> \in sent[d]
  <2> SUFFICES ASSUME <<j, m>> \notin sent[d] PROVE FALSE
    OBVIOUS
  <2>1. <<j, m>> \in sent'[d] \ sent[d]
    BY <1>4
  <2>2. <<j, m>>[1] = next[d]
    BY <2>1 DEF HostGoesOn
  <2>3. i <= next[d]
    BY <1>4 DEF Queued
  <2>4. m \in Calls(j)
    BY <1>1, <1>4 DEF Queued
  <2>5. j = i /\ m < n
    BY <2>2, <2>3, <1>4, Inputs DEF Earlier, TypeOK
  <2> QED
    BY <2>1, <2>4, <2>5, <1>4 DEF Queued
<1>5. Fifo'
  <2> SUFFICES ASSUME NEW d \in Devices, NEW i \in Ops, NEW j \in Ops, NEW n \in 1..8, NEW m \in 1..8,
                      <<i, n>> \in done[d], <<j, m>> \in sent'[d],
                      On(j, m) = On(i, n), Earlier(<<j, m>>, <<i, n>>)
               PROVE  <<j, m>> \in done[d]
    BY <1>1, <1>2 DEF Fifo
  <2>1. <<j, m>> \in sent[d]
    BY <1>4 DEF Queued
  <2> QED
    BY <2>1 DEF Fifo
<1>6. KernelsInTurn'
  <2> SUFFICES ASSUME NEW d \in Devices, NEW i \in Ops
               PROVE  /\ kernel[d][i] # "none" =>
                           /\ <<i, Kernel>> \in sent'[d]
                           /\ \A j \in Ops : \A m \in 1..8 :
                                /\ <<j, m>> \in sent'[d]
                                /\ On(j, m) = UnfoldStream(i) /\ Earlier(<<j, m>>, <<i, Kernel>>)
                                => <<j, m>> \in done[d]
                      /\ kernel[d][i] = "none" => <<i, Kernel>> \notin done[d]
    BY <1>1, <1>2 DEF KernelsInTurn, Earlier, Kernel
  <2>1. ASSUME kernel[d][i] # "none"
        PROVE  /\ <<i, Kernel>> \in sent[d]
               /\ \A j \in Ops : \A m \in 1..8 :
                    /\ <<j, m>> \in sent[d]
                    /\ On(j, m) = UnfoldStream(i) /\ Earlier(<<j, m>>, <<i, Kernel>>)
                    => <<j, m>> \in done[d]
    BY <2>1 DEF KernelsInTurn
  <2>2. Kernel \in 1..8
    BY DEF Kernel
  <2> QED
    BY <2>1, <2>2, <1>4 DEF KernelsInTurn, HostGoesOn
<1>7. TurnHeld'
  BY <1>1, <1>2, <1>3 DEF TurnHeld
<1>8. KernelHeld'
  BY <1>1, <1>2, <1>3 DEF KernelHeld, Started
<1>9. Untouched'
  BY <1>1, <1>2 DEF Untouched
<1>10. NoNotifyLost'
  <2> SUFFICES ASSUME NEW d \in Devices, Unmixed, ~ Torn(d)', AllLaunched(d)'
               PROVE  lost[d] = {}
    BY <1>1, <1>2 DEF NoNotifyLost
  <2>1. CASE grant = "both"
    BY <1>1, <1>3, <2>1 DEF NoNotifyLost, Paired
  <2>2. CASE grant # "both"
    BY <2>2 DEF Untouched
  <2> QED
    BY <2>1, <2>2
<1> QED
  BY <1>5, <1>6, <1>7, <1>8, <1>9, <1>10

-----------------------------------------------------------------------------
(* A task at the head of its stream is behind executed ones only.          *)
LEMMA EarlierDone ==
  ASSUME NEW d \in Devices, NEW i, NEW n, Ready(d, i, n),
         NEW j, NEW m, <<j, m>> \in sent[d],
         On(j, m) = On(i, n), Earlier(<<j, m>>, <<i, n>>)
  PROVE  <<j, m>> \in done[d]
<1> SUFFICES ASSUME <<j, m>> \notin done[d] PROVE FALSE
  OBVIOUS
<1>1. <<j, m>> \in sent[d] \ done[d]
  OBVIOUS
<1>2. On(<<j, m>>[1], <<j, m>>[2]) = On(i, n) => ~ Earlier(<<j, m>>, <<i, n>>)
  BY <1>1 DEF Ready
<1> QED
  BY <1>2

(* Operations come one after the other; an earlier call of one has queued  *)
(* its task first.                                                         *)
LEMMA SentBefore ==
  ASSUME IInv, NEW d \in Devices, grant = "both", NEW k \in Ops
  PROVE  /\ <<k, TurnWait>> \in sent[d] => <<k, Record>> \in sent[d]
         /\ <<k, Kernel>> \in sent[d] => <<k, TurnWait>> \in sent[d]
         /\ <<k, OrderWait>> \in sent[d] => <<k, Kernel>> \in sent[d]
<1>1. {Record, TurnWait, OrderWait, Kernel} \subseteq Calls(k)
  BY CallFacts
<1>2. \A n \in 1..8 : <<k, n>> \in sent[d] => \A m \in Calls(k) : m < n => <<k, m>> \in sent[d]
  BY DEF IInv, Queued
<1> QED
  BY <1>1, <1>2 DEF Record, TurnWait, Kernel, OrderWait

(* Behind an operation there is no half a pair. *)
LEMMA Halves ==
  ASSUME IInv, NEW d \in Devices, Paired(d),
         NEW k \in Ops, NEW j \in Ops, k < j, NEW n \in 1..8, <<j, n>> \in sent[d]
  PROVE  /\ <<k, Record>> \in sent[d] => <<k, TurnWait>> \in sent[d]
         /\ <<k, Kernel>> \in sent[d] => <<k, OrderWait>> \in sent[d]
<1>1. j <= next[d]
  BY DEF IInv, Queued
<1>2. k < next[d]
  BY <1>1, Inputs DEF IInv, TypeOK
<1>3. {TurnWait, OrderWait} \subseteq Calls(k)
  BY CallFacts DEF Paired
<1> QED
  BY <1>2, <1>3 DEF Paired, Torn, Unsent

(* A kernel that runs, or is about to, has had its turn. *)
LEMMA HadItsTurn ==
  ASSUME IInv, NEW d \in Devices, Paired(d), NEW k \in Ops,
         kernel[d][k] # "none" \/ Ready(d, k, Kernel)
  PROVE  <<k, TurnWait>> \in done[d] /\ <<k, Record>> \in done[d] /\ <<k, Kernel>> \in sent[d]
<1>1. <<k, Kernel>> \in sent[d]
  BY DEF IInv, KernelsInTurn, Ready
<1>2. <<k, TurnWait>> \in sent[d]
  BY <1>1, SentBefore DEF Paired
<1>3. /\ On(k, TurnWait) = UnfoldStream(k) /\ On(k, Kernel) = UnfoldStream(k)
      /\ Earlier(<<k, TurnWait>>, <<k, Kernel>>) /\ TurnWait \in 1..8
  BY OnFacts DEF Earlier, TurnWait, Kernel
<1>4. <<k, TurnWait>> \in done[d]
  <2>1. CASE kernel[d][k] # "none"
    BY <2>1, <1>2, <1>3 DEF IInv, KernelsInTurn
  <2>2. CASE Ready(d, k, Kernel)
    BY <2>2, <1>2, <1>3, EarlierDone
  <2> QED
    BY <2>1, <2>2
<1> QED
  BY <1>1, <1>4 DEF IInv, TurnHeld

(* Of two tasks of one order stream the earlier one is executed when the   *)
(* later one is.                                                           *)
LEMMA OrderFifo ==
  ASSUME IInv, NEW d \in Devices, NEW j \in Ops, NEW k \in Ops, OrderStream(j) = OrderStream(k),
         NEW m \in {Record, OrderWait}, NEW n \in {Record, OrderWait},
         j < k, <<j, m>> \in sent[d], <<k, n>> \in done[d]
  PROVE  <<j, m>> \in done[d]
<1>1. On(j, m) = On(k, n) /\ Earlier(<<j, m>>, <<k, n>>) /\ m \in 1..8 /\ n \in 1..8
  BY OnFacts DEF Earlier, Record, OrderWait
<1> QED
  BY <1>1 DEF IInv, Fifo

(* If an operation has been launched and a later one of its order stream   *)
(* has had its turn, then the order stream has passed the former's wait.   *)
LEMMA KernelAwaited ==
  ASSUME IInv, NEW d \in Devices, Paired(d), NEW j \in Ops, NEW k \in Ops,
         OrderStream(j) = OrderStream(k), j < k,
         <<j, Kernel>> \in sent[d], <<k, Record>> \in done[d]
  PROVE  <<j, OrderWait>> \in done[d] /\ Started(d, j)
<1>1. <<k, Record>> \in sent[d] /\ Record \in 1..8
  BY DEF IInv, Queued, Record
<1>2. <<j, OrderWait>> \in sent[d]
  BY <1>1, Halves
<1>3. <<j, OrderWait>> \in done[d]
  BY <1>2, OrderFifo
<1> QED
  BY <1>3 DEF IInv, KernelHeld

-----------------------------------------------------------------------------
(* The streams leave alone what the host has done and what has failed.     *)
LEMMA HostStays ==
  ASSUME UNCHANGED <<inputVars, hostVars>>
  PROVE  /\ Ops' = Ops /\ grant' = grant /\ sent' = sent /\ Unmixed' = Unmixed
         /\ \A i : /\ OrderStream(i)' = OrderStream(i) /\ UnfoldStream(i)' = UnfoldStream(i)
                   /\ \A n : On(i, n)' = On(i, n)
         /\ \A d : /\ Torn(d)' = Torn(d) /\ Paired(d)' = Paired(d)
                   /\ AllLaunched(d)' = AllLaunched(d)
<1>1. /\ Ops' = Ops /\ Unmixed' = Unmixed
      /\ \A i : /\ OrderStream(i)' = OrderStream(i) /\ UnfoldStream(i)' = UnfoldStream(i)
                /\ Calls(i)' = Calls(i)
                /\ \A n : On(i, n)' = On(i, n)
  BY Frozen
<1>2. grant' = grant /\ sent' = sent /\ next' = next
  BY DEF inputVars, hostVars
<1>3. \A d : Torn(d)' = Torn(d)
  BY <1>1, <1>2 DEF Torn, Unsent
<1>4. \A d : AllLaunched(d)' = AllLaunched(d)
  BY <1>1, <1>2 DEF AllLaunched
<1>5. \A d : Paired(d)' = Paired(d)
  BY <1>1, <1>2, <1>3 DEF Paired
<1> QED
  BY <1>1, <1>2, <1>3, <1>4, <1>5

LEMMA TaskDone ==
  ASSUME IInv, NEW d \in Devices, NEW i \in Ops, NEW n \in 1..8,
         Ready(d, i, n), Done(d, i, n), UNCHANGED <<inputVars, hostVars>>
  PROVE  /\ done' \in [Devices -> SUBSET (Ops \X (1..8))]
         /\ \A e \in Devices : done[e] \subseteq done'[e]
         /\ \A e \in Devices, j \in Ops, m \in 1..8 :
              <<j, m>> \in done'[e] <=> <<j, m>> \in done[e] \/ (e = d /\ j = i /\ m = n)
         /\ Queued' /\ Fifo'
<1> USE DEF IInv, TypeOK
<1>1. done' = [done EXCEPT ![d] = @ \cup {<<i, n>>}] /\ <<i, n>> \in sent[d]
  BY DEF Done, Ready
<1>2. done' \in [Devices -> SUBSET (Ops \X (1..8))]
  BY <1>1
<1>3. \A e \in Devices : done[e] \subseteq done'[e]
  BY <1>1
<1>4. \A e \in Devices, j \in Ops, m \in 1..8 :
        <<j, m>> \in done'[e] <=> <<j, m>> \in done[e] \/ (e = d /\ j = i /\ m = n)
  BY <1>1
<1>5. /\ Ops' = Ops /\ sent' = sent /\ next' = next
      /\ \A j : Calls(j)' = Calls(j) /\ \A m : On(j, m)' = On(j, m)
  BY Frozen DEF hostVars
<1>6. Queued'
  <2>1. \A e \in Devices : done'[e] \subseteq sent[e]
    BY <1>1 DEF Queued
  <2>2. \A e \in Devices : \A j \in Ops : \A m \in 1..8 : <<j, m>> \in sent[e] =>
          m \in Calls(j) /\ j <= next[e] /\ \A k \in Calls(j) : k < m => <<j, k>> \in sent[e]
    BY DEF Queued
  <2> QED
    BY <1>5, <2>1, <2>2 DEF Queued
<1>7. Fifo'
  <2> SUFFICES ASSUME NEW e \in Devices, NEW j \in Ops, NEW k \in Ops, NEW m \in 1..8, NEW p \in 1..8,
                      <<j, m>> \in done'[e], <<k, p>> \in sent[e],
                      On(k, p) = On(j, m), Earlier(<<k, p>>, <<j, m>>)
               PROVE  <<k, p>> \in done'[e]
    BY <1>5 DEF Fifo
  <2>1. CASE <<j, m>> \in done[e]
    BY <2>1, <1>3 DEF Fifo
  <2>2. CASE <<j, m>> \notin done[e]
    <3>1. e = d /\ j = i /\ m = n
      BY <2>2, <1>4
    <3>2. <<k, p>> \in done[e]
      BY <3>1, EarlierDone
    <3> QED
      BY <3>2, <1>3
  <2> QED
    BY <2>1, <2>2
<1> QED
  BY <1>2, <1>3, <1>4, <1>6, <1>7

LEMMA KernelsFollow ==
  ASSUME IInv, UNCHANGED <<inputVars, hostVars>>,
         \A e \in Devices : done[e] \subseteq done'[e],
         \A e \in Devices, j \in Ops :
           /\ kernel'[e][j] = kernel[e][j] \/ Ready(e, j, Kernel)
           /\ kernel'[e][j] = "none" => <<j, Kernel>> \notin done'[e]
  PROVE  KernelsInTurn'
<1> SUFFICES ASSUME NEW e \in Devices, NEW i \in Ops
             PROVE  /\ kernel'[e][i] # "none" =>
                         /\ <<i, Kernel>> \in sent[e]
                         /\ \A j \in Ops : \A m \in 1..8 :
                              /\ <<j, m>> \in sent[e]
                              /\ On(j, m) = UnfoldStream(i) /\ Earlier(<<j, m>>, <<i, Kernel>>)
                              => <<j, m>> \in done'[e]
                    /\ kernel'[e][i] = "none" => <<i, Kernel>> \notin done'[e]
  BY HostStays DEF KernelsInTurn
<1>1. CASE kernel'[e][i] = kernel[e][i]
  BY <1>1 DEF IInv, KernelsInTurn
<1>2. CASE Ready(e, i, Kernel)
  <2>1. <<i, Kernel>> \in sent[e]
    BY <1>2 DEF Ready
  <2>2. ASSUME NEW j \in Ops, NEW m \in 1..8, <<j, m>> \in sent[e],
               On(j, m) = UnfoldStream(i), Earlier(<<j, m>>, <<i, Kernel>>)
        PROVE  <<j, m>> \in done[e]
    BY <1>2, <2>2, OnFacts, EarlierDone
  <2> QED
    BY <2>1, <2>2
<1> QED
  BY <1>1, <1>2

(* A step that neither touches a notify, nor executes one of its tasks,    *)
(* nor starts a kernel.                                                    *)
LEMMA QuietStep ==
  ASSUME IInv, UNCHANGED <<inputVars, hostVars, notified, lost>>,
         \A e \in Devices, j \in Ops :
           /\ Started(e, j)' = Started(e, j)
           /\ \A m \in {Record, TurnWait, OrderWait} :
                <<j, m>> \in done'[e] <=> <<j, m>> \in done[e]
  PROVE  TurnHeld' /\ KernelHeld' /\ Untouched' /\ NoNotifyLost'
<1> USE DEF IInv
<1>1. /\ Ops' = Ops /\ grant' = grant /\ Unmixed' = Unmixed
      /\ \A i : OrderStream(i)' = OrderStream(i) /\ UnfoldStream(i)' = UnfoldStream(i)
      /\ \A d : Torn(d)' = Torn(d) /\ Paired(d)' = Paired(d) /\ AllLaunched(d)' = AllLaunched(d)
  BY HostStays
<1>2. \A e \in Devices, j \in Ops :
        /\ <<j, Record>> \in done'[e] <=> <<j, Record>> \in done[e]
        /\ <<j, TurnWait>> \in done'[e] <=> <<j, TurnWait>> \in done[e]
        /\ <<j, OrderWait>> \in done'[e] <=> <<j, OrderWait>> \in done[e]
  OBVIOUS
<1>3. TurnHeld'
  BY <1>1, <1>2 DEF TurnHeld
<1>4. KernelHeld'
  BY <1>1, <1>2 DEF KernelHeld
<1>5. Untouched' /\ NoNotifyLost'
  BY <1>1 DEF Untouched, NoNotifyLost
<1> QED
  BY <1>3, <1>4, <1>5

-----------------------------------------------------------------------------
(* The order stream gives a turn: the notify it sets was clear, and stays  *)
(* set until the operation's own wait.                                     *)
LEMMA RecordPreserves ==
  ASSUME IInv, NEW d \in Devices, NEW i \in Ops, ExecuteRecord(d, i)
  PROVE  IInv'
<1> USE DEF IInv
<1>1. /\ Ready(d, i, Record) /\ Done(d, i, Record) /\ Record \in 1..8
      /\ notified' = [notified EXCEPT ![d] = @ \cup {UnfoldStream(i)}]
      /\ lost' = [lost EXCEPT ![d] = @ \cup ({UnfoldStream(i)} \cap notified[d])]
      /\ UNCHANGED <<inputVars, hostVars, kernel, suspended, faults>>
  BY DEF ExecuteRecord, RecordNotify, Record
<1>2. /\ done' \in [Devices -> SUBSET (Ops \X (1..8))]
      /\ \A e \in Devices : done[e] \subseteq done'[e]
      /\ \A e \in Devices, j \in Ops, m \in 1..8 :
           <<j, m>> \in done'[e] <=> <<j, m>> \in done[e] \/ (e = d /\ j = i /\ m = Record)
      /\ Queued' /\ Fifo'
  BY <1>1, TaskDone
<1>3. /\ Ops' = Ops /\ grant' = grant /\ Unmixed' = Unmixed
      /\ \A j : OrderStream(j)' = OrderStream(j) /\ UnfoldStream(j)' = UnfoldStream(j)
      /\ \A e : Torn(e)' = Torn(e) /\ Paired(e)' = Paired(e) /\ AllLaunched(e)' = AllLaunched(e)
  BY <1>1, HostStays
<1>4. /\ <<i, Record>> \in sent[d] /\ <<i, Record>> \notin done[d] /\ grant = "both"
  BY <1>1, CallFacts DEF Ready, Queued
<1>5. /\ \A e \in Devices, j \in Ops :
           /\ <<j, TurnWait>> \in done'[e] <=> <<j, TurnWait>> \in done[e]
           /\ <<j, OrderWait>> \in done'[e] <=> <<j, OrderWait>> \in done[e]
           /\ <<j, Kernel>> \in done'[e] <=> <<j, Kernel>> \in done[e]
           /\ <<j, Record>> \in done'[e] <=> <<j, Record>> \in done[e] \/ (e = d /\ j = i)
  BY <1>2, CallNumbers
<1>6. TypeOK'
  BY <1>1, <1>2, <1>3, <1>4, StreamTypes DEF TypeOK, inputVars, hostVars
<1>7. KernelsInTurn'
  BY <1>1, <1>2, <1>5, KernelsFollow DEF KernelsInTurn
<1>8. TurnHeld'
  <2> SUFFICES ASSUME NEW e \in Devices, Paired(e)
               PROVE  /\ \A k \in Ops : <<k, TurnWait>> \in done'[e] => <<k, Record>> \in done'[e]
                      /\ \A j \in Ops : UnfoldStream(j) \in notified'[e] =>
                           \E k \in Ops : /\ UnfoldStream(k) = UnfoldStream(j)
                                          /\ <<k, Record>> \in done'[e]
                                          /\ <<k, TurnWait>> \notin done'[e]
    BY <1>3 DEF TurnHeld
  <2>1. \A k \in Ops : <<k, TurnWait>> \in done'[e] => <<k, Record>> \in done'[e]
    BY <1>5 DEF TurnHeld
  <2>2. ASSUME NEW j \in Ops, UnfoldStream(j) \in notified'[e]
        PROVE  \E k \in Ops : /\ UnfoldStream(k) = UnfoldStream(j)
                              /\ <<k, Record>> \in done'[e] /\ <<k, TurnWait>> \notin done'[e]
    <3>1. CASE UnfoldStream(j) \in notified[e]
      BY <3>1, <1>5 DEF TurnHeld
    <3>2. CASE UnfoldStream(j) \notin notified[e]
      <4>1. e = d /\ UnfoldStream(j) = UnfoldStream(i)
        BY <2>2, <3>2, <1>1 DEF TypeOK
      <4>2. <<i, TurnWait>> \notin done[d]
        BY <4>1, <1>4 DEF TurnHeld
      <4> QED
        BY <4>1, <4>2, <1>5
    <3> QED
      BY <3>1, <3>2
  <2> QED
    BY <2>1, <2>2
<1>9. KernelHeld'
  <2>1. \A e \in Devices, j \in Ops : /\ OrderStream(j) \in notified'[e] <=> OrderStream(j) \in notified[e]
                                      /\ Started(e, j)' = Started(e, j)
    BY <1>1, StreamsDiffer DEF TypeOK, Started
  <2> QED
    BY <2>1, <1>3, <1>5 DEF KernelHeld
<1>10. NoNotifyLost'
  <2> SUFFICES ASSUME NEW e \in Devices, Unmixed, ~ Torn(e), AllLaunched(e)
               PROVE  lost'[e] = {}
    BY <1>3 DEF NoNotifyLost
  <2>1. Paired(e) /\ lost[e] = {}
    BY <1>4 DEF NoNotifyLost, Paired
  <2>2. CASE e # d
    BY <1>1, <2>1, <2>2 DEF TypeOK
  <2>3. CASE e = d
    <3> SUFFICES ASSUME UnfoldStream(i) \in notified[d] PROVE FALSE
      BY <1>1, <2>1, <2>3 DEF TypeOK
    <3>1. PICK k \in Ops : /\ UnfoldStream(k) = UnfoldStream(i)
                           /\ <<k, Record>> \in done[d] /\ <<k, TurnWait>> \notin done[d]
      BY <2>1, <2>3 DEF TurnHeld
    <3>2. OrderStream(k) = OrderStream(i)
      BY <3>1 DEF Unmixed
    <3>3. k < i
      <4>1. k # i /\ ~ (i < k)
        BY <1>4, <3>1, <3>2, OrderFifo
      <4> QED
        BY <4>1, Inputs
    <3>4. <<k, Record>> \in sent[d] /\ k < next[d]
      <4>1. i <= next[d]
        BY <1>1, <1>4 DEF Queued
      <4>2. k < next[d]
        BY <4>1, <3>3, Inputs DEF TypeOK
      <4> QED
        BY <4>2, <3>1 DEF Queued
    <3>5. <<k, Kernel>> \in sent[d]
      BY <2>3, <3>4 DEF AllLaunched
    <3>6. <<k, OrderWait>> \in sent[d]
      BY <1>1, <1>4, <2>1, <2>3, <3>3, <3>5, Halves
    <3>7. On(k, OrderWait) = On(i, Record) /\ Earlier(<<k, OrderWait>>, <<i, Record>>)
      BY <3>2, <3>3, OnFacts DEF Earlier
    <3>8. <<k, OrderWait>> \in done[d]
      BY <1>1, <3>6, <3>7, EarlierDone
    <3>9. kernel[d][k] # "none"
      BY <3>8, <2>1, <2>3 DEF KernelHeld, Started
    <3> QED
      BY <3>1, <3>9, <2>1, <2>3, HadItsTurn
  <2> QED
    BY <2>2, <2>3
<1>11. Untouched'
  BY <1>3, <1>4 DEF Untouched
<1> QED
  BY <1>2, <1>6, <1>7, <1>8, <1>9, <1>10, <1>11

(* An unfold stream takes its turn: the notify is its own operation's, for *)
(* the turns before have been taken, and a turn after is not given before. *)
LEMMA TurnWaitPreserves ==
  ASSUME IInv, NEW d \in Devices, NEW i \in Ops, ExecuteWait(d, i, TurnWait)
  PROVE  IInv'
<1> USE DEF IInv
<1>1. /\ Ready(d, i, TurnWait) /\ Done(d, i, TurnWait) /\ TurnWait \in 1..8
      /\ UnfoldStream(i) \in notified[d]
      /\ notified' = [notified EXCEPT ![d] = @ \ {UnfoldStream(i)}]
      /\ UNCHANGED <<inputVars, hostVars, lost, kernel, suspended, faults>>
  BY OnFacts, CallNumbers DEF ExecuteWait
<1>2. /\ done' \in [Devices -> SUBSET (Ops \X (1..8))]
      /\ \A e \in Devices : done[e] \subseteq done'[e]
      /\ \A e \in Devices, j \in Ops, m \in 1..8 :
           <<j, m>> \in done'[e] <=> <<j, m>> \in done[e] \/ (e = d /\ j = i /\ m = TurnWait)
      /\ Queued' /\ Fifo'
  BY <1>1, TaskDone
<1>3. /\ Ops' = Ops /\ grant' = grant /\ Unmixed' = Unmixed
      /\ \A j : OrderStream(j)' = OrderStream(j) /\ UnfoldStream(j)' = UnfoldStream(j)
      /\ \A e : Torn(e)' = Torn(e) /\ Paired(e)' = Paired(e) /\ AllLaunched(e)' = AllLaunched(e)
  BY <1>1, HostStays
<1>4. /\ <<i, TurnWait>> \in sent[d] /\ <<i, TurnWait>> \notin done[d]
  BY <1>1 DEF Ready
<1>5. /\ \A e \in Devices, j \in Ops :
           /\ <<j, Record>> \in done'[e] <=> <<j, Record>> \in done[e]
           /\ <<j, OrderWait>> \in done'[e] <=> <<j, OrderWait>> \in done[e]
           /\ <<j, Kernel>> \in done'[e] <=> <<j, Kernel>> \in done[e]
           /\ <<j, TurnWait>> \in done'[e] <=> <<j, TurnWait>> \in done[e] \/ (e = d /\ j = i)
  BY <1>2, CallNumbers
<1>6. TypeOK'
  BY <1>1, <1>2, <1>3 DEF TypeOK, inputVars, hostVars
<1>7. KernelsInTurn'
  BY <1>1, <1>2, <1>5, KernelsFollow DEF KernelsInTurn
<1>8. Paired(d) => <<i, Record>> \in done[d]
  <2> SUFFICES ASSUME Paired(d) PROVE <<i, Record>> \in done[d]
    OBVIOUS
  <2>1. PICK k \in Ops : /\ UnfoldStream(k) = UnfoldStream(i)
                         /\ <<k, Record>> \in done[d] /\ <<k, TurnWait>> \notin done[d]
    BY <1>1 DEF TurnHeld
  <2>2. OrderStream(k) = OrderStream(i)
    BY <2>1 DEF Paired, Unmixed
  <2>3. <<i, Record>> \in sent[d]
    BY <1>4, SentBefore DEF Paired
  <2>4. CASE k < i
    <3>1. <<k, TurnWait>> \in sent[d]
      BY <1>1, <1>4, <2>1, <2>4, Halves DEF Queued
    <3>2. On(k, TurnWait) = On(i, TurnWait) /\ Earlier(<<k, TurnWait>>, <<i, TurnWait>>)
      BY <2>1, <2>4, OnFacts DEF Earlier
    <3> QED
      BY <1>1, <2>1, <3>1, <3>2, EarlierDone
  <2>5. CASE i < k
    BY <2>1, <2>2, <2>3, <2>5, OrderFifo
  <2>6. k = i \/ k < i \/ i < k
    BY Inputs
  <2> QED
    BY <2>1, <2>4, <2>5, <2>6
<1>9. TurnHeld'
  <2> SUFFICES ASSUME NEW e \in Devices, Paired(e)
               PROVE  /\ \A k \in Ops : <<k, TurnWait>> \in done'[e] => <<k, Record>> \in done'[e]
                      /\ \A j \in Ops : UnfoldStream(j) \in notified'[e] =>
                           \E k \in Ops : /\ UnfoldStream(k) = UnfoldStream(j)
                                          /\ <<k, Record>> \in done'[e]
                                          /\ <<k, TurnWait>> \notin done'[e]
    BY <1>3 DEF TurnHeld
  <2>1. \A k \in Ops : <<k, TurnWait>> \in done'[e] => <<k, Record>> \in done'[e]
    BY <1>5, <1>8 DEF TurnHeld
  <2>2. ASSUME NEW j \in Ops, UnfoldStream(j) \in notified'[e]
        PROVE  \E k \in Ops : /\ UnfoldStream(k) = UnfoldStream(j)
                              /\ <<k, Record>> \in done'[e] /\ <<k, TurnWait>> \notin done'[e]
    <3>1. UnfoldStream(j) \in notified[e] /\ (e = d => UnfoldStream(j) # UnfoldStream(i))
      BY <2>2, <1>1 DEF TypeOK
    <3>2. PICK k \in Ops : /\ UnfoldStream(k) = UnfoldStream(j)
                           /\ <<k, Record>> \in done[e] /\ <<k, TurnWait>> \notin done[e]
      BY <3>1 DEF TurnHeld
    <3> QED
      BY <3>1, <3>2, <1>5
  <2> QED
    BY <2>1, <2>2
<1>10. KernelHeld'
  <2>1. \A e \in Devices, j \in Ops : /\ OrderStream(j) \in notified'[e] <=> OrderStream(j) \in notified[e]
                                      /\ Started(e, j)' = Started(e, j)
    BY <1>1, StreamsDiffer DEF TypeOK, Started
  <2> QED
    BY <2>1, <1>3, <1>5 DEF KernelHeld
<1>11. NoNotifyLost' /\ Untouched'
  BY <1>1, <1>3 DEF NoNotifyLost, Untouched
<1> QED
  BY <1>2, <1>6, <1>7, <1>9, <1>10, <1>11

(* The order stream passes its wait: the notify is that of the operation's *)
(* own kernel, for the kernels before have been awaited, and a kernel      *)
(* after does not start before.                                            *)
LEMMA OrderWaitPreserves ==
  ASSUME IInv, NEW d \in Devices, NEW i \in Ops, ExecuteWait(d, i, OrderWait)
  PROVE  IInv'
<1> USE DEF IInv
<1>1. /\ Ready(d, i, OrderWait) /\ Done(d, i, OrderWait) /\ OrderWait \in 1..8
      /\ OrderStream(i) \in notified[d]
      /\ notified' = [notified EXCEPT ![d] = @ \ {OrderStream(i)}]
      /\ UNCHANGED <<inputVars, hostVars, lost, kernel, suspended, faults>>
  BY OnFacts, CallNumbers DEF ExecuteWait
<1>2. /\ done' \in [Devices -> SUBSET (Ops \X (1..8))]
      /\ \A e \in Devices : done[e] \subseteq done'[e]
      /\ \A e \in Devices, j \in Ops, m \in 1..8 :
           <<j, m>> \in done'[e] <=> <<j, m>> \in done[e] \/ (e = d /\ j = i /\ m = OrderWait)
      /\ Queued' /\ Fifo'
  BY <1>1, TaskDone
<1>3. /\ Ops' = Ops /\ grant' = grant /\ Unmixed' = Unmixed
      /\ \A j : OrderStream(j)' = OrderStream(j) /\ UnfoldStream(j)' = UnfoldStream(j)
      /\ \A e : Torn(e)' = Torn(e) /\ Paired(e)' = Paired(e) /\ AllLaunched(e)' = AllLaunched(e)
  BY <1>1, HostStays
<1>4. /\ <<i, OrderWait>> \in sent[d] /\ <<i, OrderWait>> \notin done[d]
  BY <1>1 DEF Ready
<1>5. /\ \A e \in Devices, j \in Ops :
           /\ <<j, Record>> \in done'[e] <=> <<j, Record>> \in done[e]
           /\ <<j, TurnWait>> \in done'[e] <=> <<j, TurnWait>> \in done[e]
           /\ <<j, Kernel>> \in done'[e] <=> <<j, Kernel>> \in done[e]
           /\ <<j, OrderWait>> \in done'[e] <=> <<j, OrderWait>> \in done[e] \/ (e = d /\ j = i)
  BY <1>2, CallNumbers
<1>6. TypeOK'
  BY <1>1, <1>2, <1>3 DEF TypeOK, inputVars, hostVars
<1>7. KernelsInTurn'
  BY <1>1, <1>2, <1>5, KernelsFollow DEF KernelsInTurn
<1>8. Paired(d) => Started(d, i)
  <2> SUFFICES ASSUME Paired(d) PROVE Started(d, i)
    OBVIOUS
  <2>1. PICK k \in Ops : /\ OrderStream(k) = OrderStream(i)
                         /\ Started(d, k) /\ <<k, OrderWait>> \notin done[d]
    BY <1>1 DEF KernelHeld
  <2>2. /\ <<k, Record>> \in done[d] /\ <<k, Kernel>> \in sent[d]
    BY <2>1, HadItsTurn DEF Started
  <2>3. <<i, Kernel>> \in sent[d]
    BY <1>4, SentBefore DEF Paired
  <2>4. CASE k < i
    <3>1. <<k, OrderWait>> \in sent[d]
      BY <1>1, <1>4, <2>2, <2>4, Halves
    <3>2. On(k, OrderWait) = On(i, OrderWait) /\ Earlier(<<k, OrderWait>>, <<i, OrderWait>>)
      BY <2>1, <2>4, OnFacts DEF Earlier
    <3> QED
      BY <1>1, <2>1, <3>1, <3>2, EarlierDone
  <2>5. CASE i < k
    BY <1>4, <2>1, <2>2, <2>3, <2>5, KernelAwaited
  <2>6. k = i \/ k < i \/ i < k
    BY Inputs
  <2> QED
    BY <2>1, <2>4, <2>5, <2>6
<1>9. TurnHeld'
  <2>1. \A e \in Devices, j \in Ops :
          UnfoldStream(j) \in notified'[e] <=> UnfoldStream(j) \in notified[e]
    BY <1>1, StreamsDiffer DEF TypeOK
  <2> QED
    BY <2>1, <1>3, <1>5 DEF TurnHeld
<1>10. KernelHeld'
  <2>1. \A e \in Devices, j \in Ops : Started(e, j)' = Started(e, j)
    BY <1>1 DEF Started
  <2> SUFFICES ASSUME NEW e \in Devices, Paired(e)
               PROVE  /\ \A k \in Ops : <<k, OrderWait>> \in done'[e] => Started(e, k)
                      /\ \A j \in Ops : OrderStream(j) \in notified'[e] =>
                           \E k \in Ops : /\ OrderStream(k) = OrderStream(j)
                                          /\ Started(e, k) /\ <<k, OrderWait>> \notin done'[e]
    BY <1>3, <2>1 DEF KernelHeld
  <2>2. \A k \in Ops : <<k, OrderWait>> \in done'[e] => Started(e, k)
    BY <1>5, <1>8 DEF KernelHeld
  <2>3. ASSUME NEW j \in Ops, OrderStream(j) \in notified'[e]
        PROVE  \E k \in Ops : /\ OrderStream(k) = OrderStream(j)
                              /\ Started(e, k) /\ <<k, OrderWait>> \notin done'[e]
    <3>1. OrderStream(j) \in notified[e] /\ (e = d => OrderStream(j) # OrderStream(i))
      BY <2>3, <1>1 DEF TypeOK
    <3>2. PICK k \in Ops : /\ OrderStream(k) = OrderStream(j)
                           /\ Started(e, k) /\ <<k, OrderWait>> \notin done[e]
      BY <3>1 DEF KernelHeld
    <3> QED
      BY <3>1, <3>2, <1>5
  <2> QED
    BY <2>2, <2>3
<1>11. NoNotifyLost' /\ Untouched'
  BY <1>1, <1>3 DEF NoNotifyLost, Untouched
<1> QED
  BY <1>2, <1>6, <1>7, <1>9, <1>10, <1>11

(* An event concerns no notify and no kernel. *)
LEMMA EventPreserves ==
  ASSUME IInv, NEW d \in Devices, NEW i \in Ops, NEW n, ExecuteEvent(d, i, n)
  PROVE  IInv'
<1> USE DEF IInv
<1>1. /\ Ready(d, i, n) /\ Done(d, i, n) /\ n \in 1..8
      /\ n \notin {Record, TurnWait, Kernel, OrderWait}
      /\ UNCHANGED <<inputVars, hostVars, notified, lost, kernel, suspended, faults>>
  BY DEF ExecuteEvent, Fork, ForkWait, Record, TurnWait, Kernel, OrderWait, Rejoin, RejoinWait
<1>2. /\ done' \in [Devices -> SUBSET (Ops \X (1..8))]
      /\ \A e \in Devices : done[e] \subseteq done'[e]
      /\ \A e \in Devices, j \in Ops, m \in 1..8 :
           <<j, m>> \in done'[e] <=> <<j, m>> \in done[e] \/ (e = d /\ j = i /\ m = n)
      /\ Queued' /\ Fifo'
  BY <1>1, TaskDone
<1>3. \A e \in Devices, j \in Ops : \A m \in {Record, TurnWait, OrderWait, Kernel} :
        <<j, m>> \in done'[e] <=> <<j, m>> \in done[e]
  BY <1>1, <1>2, CallNumbers
<1>4. TypeOK'
  <2>1. Ops' = Ops
    BY <1>1, HostStays
  <2> QED
    BY <1>1, <1>2, <2>1 DEF TypeOK, inputVars, hostVars
<1>5. KernelsInTurn'
  <2>1. \A e \in Devices, j \in Ops : <<j, Kernel>> \in done'[e] <=> <<j, Kernel>> \in done[e]
    BY <1>3
  <2>2. \A e \in Devices, j \in Ops :
          /\ kernel'[e][j] = kernel[e][j]
          /\ kernel'[e][j] = "none" => <<j, Kernel>> \notin done'[e]
    BY <1>1, <2>1 DEF KernelsInTurn
  <2> QED
    BY <1>1, <1>2, <2>2, KernelsFollow
<1>6. \A e, j : Started(e, j)' = Started(e, j)
  BY <1>1 DEF Started
<1>7. TurnHeld' /\ KernelHeld' /\ Untouched' /\ NoNotifyLost'
  BY <1>1, <1>3, <1>6, QuietStep
<1> QED
  BY <1>2, <1>4, <1>5, <1>7

(* A kernel starts and gives the order stream its notify, which was clear: *)
(* the kernels before have been awaited, those after have not started.     *)
LEMMA StartPreserves ==
  ASSUME IInv, NEW d \in Devices, NEW i \in Ops, StartKernel(d, i)
  PROVE  IInv'
<1> USE DEF IInv
<1> DEFINE r == IF grant = "both" THEN {OrderStream(i)} ELSE {}
<1>1. /\ Ready(d, i, Kernel) /\ kernel[d][i] = "none"
      /\ notified' = [notified EXCEPT ![d] = @ \cup r]
      /\ lost' = [lost EXCEPT ![d] = @ \cup (r \cap notified[d])]
      /\ kernel' = [kernel EXCEPT ![d][i] = "started"]
      /\ UNCHANGED <<inputVars, hostVars, done, suspended, faults>>
  BY DEF StartKernel, KernelIs, RecordNotify, Becomes
<1>2. /\ Ops' = Ops /\ grant' = grant /\ Unmixed' = Unmixed /\ sent' = sent
      /\ \A j : /\ OrderStream(j)' = OrderStream(j) /\ UnfoldStream(j)' = UnfoldStream(j)
                /\ \A n : On(j, n)' = On(j, n)
      /\ \A e : Torn(e)' = Torn(e) /\ Paired(e)' = Paired(e) /\ AllLaunched(e)' = AllLaunched(e)
  BY <1>1, HostStays
<1>3. \A e \in Devices, j \in Ops :
        kernel'[e][j] = IF e = d /\ j = i THEN "started" ELSE kernel[e][j]
  BY <1>1 DEF TypeOK
<1>4. \A e \in Devices, j \in Ops : Started(e, j)' <=> Started(e, j) \/ (e = d /\ j = i)
  BY <1>3 DEF Started
<1>5. TypeOK'
  <2>1. kernel' \in [Devices -> [Ops -> {"none", "started", "unfolding", "done", "left", "refused"}]]
    BY <1>1 DEF TypeOK
  <2>2. r \subseteq Streams
    BY StreamTypes
  <2>3. notified' \in [Devices -> SUBSET Streams] /\ lost' \in [Devices -> SUBSET Streams]
    BY <1>1, <2>2 DEF TypeOK
  <2>4. grant # "both" => \A e \in Devices : notified'[e] = {}
    BY <1>1 DEF TypeOK
  <2> QED
    BY <1>1, <1>2, <2>1, <2>3, <2>4 DEF TypeOK, inputVars, hostVars
<1>6. Queued' /\ Fifo'
  <2>1. next' = next /\ \A j : Calls(j)' = Calls(j)
    BY <1>1, Frozen DEF hostVars
  <2> QED
    BY <1>1, <1>2, <2>1 DEF Queued, Fifo
<1>7. KernelsInTurn'
  <2>1. ASSUME NEW e \in Devices, NEW j \in Ops
        PROVE  /\ kernel'[e][j] = kernel[e][j] \/ Ready(e, j, Kernel)
               /\ kernel'[e][j] = "none" => <<j, Kernel>> \notin done'[e]
    <3>1. CASE e = d /\ j = i
      BY <3>1, <1>1, <1>3
    <3>2. CASE ~ (e = d /\ j = i)
      BY <3>2, <1>1, <1>3 DEF KernelsInTurn
    <3> QED
      BY <3>1, <3>2
  <2> QED
    BY <1>1, <2>1, KernelsFollow
<1>8. TurnHeld'
  <2>1. \A e \in Devices, j \in Ops :
          UnfoldStream(j) \in notified'[e] <=> UnfoldStream(j) \in notified[e]
    BY <1>1, StreamsDiffer DEF TypeOK
  <2> QED
    BY <1>1, <1>2, <2>1 DEF TurnHeld
<1>9. KernelHeld'
  <2> SUFFICES ASSUME NEW e \in Devices, Paired(e)
               PROVE  /\ \A k \in Ops : <<k, OrderWait>> \in done[e] => Started(e, k)'
                      /\ \A j \in Ops : OrderStream(j) \in notified'[e] =>
                           \E k \in Ops : /\ OrderStream(k) = OrderStream(j)
                                          /\ Started(e, k)' /\ <<k, OrderWait>> \notin done[e]
    BY <1>1, <1>2 DEF KernelHeld
  <2>1. \A k \in Ops : <<k, OrderWait>> \in done[e] => Started(e, k)'
    BY <1>4 DEF KernelHeld
  <2>2. ASSUME NEW j \in Ops, OrderStream(j) \in notified'[e]
        PROVE  \E k \in Ops : /\ OrderStream(k) = OrderStream(j)
                              /\ Started(e, k)' /\ <<k, OrderWait>> \notin done[e]
    <3>1. CASE OrderStream(j) \in notified[e]
      BY <3>1, <1>4 DEF KernelHeld
    <3>2. CASE OrderStream(j) \notin notified[e]
      <4>1. e = d /\ OrderStream(j) = OrderStream(i)
        BY <2>2, <3>2, <1>1 DEF TypeOK
      <4>2. <<i, OrderWait>> \notin done[d]
        BY <4>1, <1>1 DEF KernelHeld, Started
      <4> QED
        BY <4>1, <4>2, <1>4
    <3> QED
      BY <3>1, <3>2
  <2> QED
    BY <2>1, <2>2
<1>10. NoNotifyLost'
  <2> SUFFICES ASSUME NEW e \in Devices, Unmixed, ~ Torn(e), AllLaunched(e)
               PROVE  lost'[e] = {}
    BY <1>2 DEF NoNotifyLost
  <2>1. lost[e] = {}
    BY DEF NoNotifyLost
  <2>2. CASE e # d \/ grant # "both"
    BY <1>1, <2>1, <2>2 DEF TypeOK
  <2>3. CASE e = d /\ grant = "both"
    <3> SUFFICES ASSUME OrderStream(i) \in notified[d] PROVE FALSE
      BY <1>1, <2>1, <2>3 DEF TypeOK
    <3>1. Paired(d)
      BY <2>3 DEF Paired
    <3>2. PICK k \in Ops : /\ OrderStream(k) = OrderStream(i)
                           /\ Started(d, k) /\ <<k, OrderWait>> \notin done[d]
      BY <3>1 DEF KernelHeld
    <3>3. <<i, Record>> \in done[d] /\ <<i, Kernel>> \in sent[d]
      BY <1>1, <3>1, HadItsTurn
    <3>4. <<k, Record>> \in done[d] /\ <<k, Kernel>> \in sent[d]
      BY <3>1, <3>2, HadItsTurn DEF Started
    <3>5. CASE k < i
      BY <3>1, <3>2, <3>3, <3>4, <3>5, KernelAwaited
    <3>6. CASE i < k
      BY <1>1, <3>1, <3>2, <3>3, <3>4, <3>6, KernelAwaited DEF Started
    <3>7. k # i /\ (k = i \/ k < i \/ i < k)
      BY <1>1, <3>2, Inputs DEF Started
    <3> QED
      BY <3>5, <3>6, <3>7
  <2> QED
    BY <2>2, <2>3
<1>11. Untouched'
  BY <1>1, <1>2 DEF Untouched, TypeOK
<1> QED
  BY <1>5, <1>6, <1>7, <1>8, <1>9, <1>10, <1>11

(* A kernel returns: it is counted as started or not, as before. *)
LEMMA ReturnPreserves ==
  ASSUME IInv, TypeOK', NEW d \in Devices, NEW i \in Ops,
         NEW state \in {"done", "left", "refused"},
         Ready(d, i, Kernel), Returns(d, i, state),
         kernel[d][i] = "none" <=> state = "refused", kernel[d][i] # "refused",
         UNCHANGED <<inputVars, hostVars, notified, lost>>
  PROVE  IInv'
<1> USE DEF IInv
<1>1. Done(d, i, Kernel) /\ kernel' = [kernel EXCEPT ![d][i] = state]
  BY DEF Returns, Becomes
<1>2. /\ \A e \in Devices : done[e] \subseteq done'[e]
      /\ \A e \in Devices, j \in Ops, m \in 1..8 :
           <<j, m>> \in done'[e] <=> <<j, m>> \in done[e] \/ (e = d /\ j = i /\ m = Kernel)
      /\ Queued' /\ Fifo'
  BY <1>1, CallNumbers, TaskDone
<1>3. \A e \in Devices, j \in Ops : kernel'[e][j] = IF e = d /\ j = i THEN state ELSE kernel[e][j]
  BY <1>1 DEF TypeOK
<1>4. KernelsInTurn'
  <2>1. ASSUME NEW e \in Devices, NEW j \in Ops
        PROVE  /\ kernel'[e][j] = kernel[e][j] \/ Ready(e, j, Kernel)
               /\ kernel'[e][j] = "none" => <<j, Kernel>> \notin done'[e]
    <3>1. CASE e = d /\ j = i
      BY <3>1, <1>3
    <3>2. CASE ~ (e = d /\ j = i)
      <4>1. kernel'[e][j] = kernel[e][j]
        BY <3>2, <1>3
      <4>2. <<j, Kernel>> \in done'[e] <=> <<j, Kernel>> \in done[e]
        BY <3>2, <1>2, CallNumbers
      <4> QED
        BY <4>1, <4>2 DEF KernelsInTurn
    <3> QED
      BY <3>1, <3>2
  <2> QED
    BY <1>2, <2>1, KernelsFollow
<1>5. \A e \in Devices, j \in Ops :
        /\ Started(e, j)' = Started(e, j)
        /\ \A m \in {Record, TurnWait, OrderWait} :
             <<j, m>> \in done'[e] <=> <<j, m>> \in done[e]
  BY <1>2, <1>3, CallNumbers DEF Started
<1>6. TurnHeld' /\ KernelHeld' /\ Untouched' /\ NoNotifyLost'
  BY <1>5, QuietStep
<1> QED
  BY <1>2, <1>4, <1>6

LEMMA RefusePreserves ==
  ASSUME IInv, NEW d \in Devices, NEW i \in Ops, RefuseKernel(d, i)
  PROVE  IInv'
<1>1. /\ Ready(d, i, Kernel) /\ kernel[d][i] = "none" /\ MishapLeft
      /\ Returns(d, i, "refused") /\ faults' = faults + 1
      /\ UNCHANGED <<inputVars, hostVars, notified, lost, suspended>>
  BY DEF RefuseKernel, KernelIs
<1>2. TypeOK'
  <2>1. Ops' = Ops
    BY <1>1, HostStays
  <2>2. done' \in [Devices -> SUBSET (Ops \X (1..8))]
    BY <1>1, CallNumbers, TaskDone DEF Returns
  <2>3. kernel' \in [Devices -> [Ops -> {"none", "started", "unfolding", "done", "left", "refused"}]]
    BY <1>1 DEF Returns, Becomes, IInv, TypeOK
  <2>4. faults' \in 0..mishaps
    BY <1>1, MishapBound DEF IInv
  <2> QED
    BY <1>1, <2>1, <2>2, <2>3, <2>4 DEF IInv, TypeOK, inputVars, hostVars
<1> QED
  BY <1>1, <1>2, ReturnPreserves

LEMMA CheckPreserves ==
  ASSUME IInv, NEW d \in Devices, NEW i \in Ops, CheckCommStatus(d, i)
  PROVE  IInv'
<1>1. /\ Ready(d, i, Kernel) /\ kernel[d][i] = "started"
      /\ Returns(d, i, "left") \/ (Becomes(d, i, "unfolding") /\ UNCHANGED done)
      /\ UNCHANGED <<inputVars, hostVars, notified, lost, suspended, faults>>
  BY DEF CheckCommStatus, KernelIs
<1>2. Ops' = Ops
  BY <1>1, HostStays
<1>3. CASE Returns(d, i, "left")
  <2>1. done' \in [Devices -> SUBSET (Ops \X (1..8))]
    BY <1>1, <1>3, CallNumbers, TaskDone DEF Returns
  <2>2. kernel' \in [Devices -> [Ops -> {"none", "started", "unfolding", "done", "left", "refused"}]]
    BY <1>3 DEF Returns, Becomes, IInv, TypeOK
  <2>3. TypeOK'
    BY <1>1, <1>2, <2>1, <2>2 DEF IInv, TypeOK, inputVars, hostVars
  <2> QED
    BY <1>1, <1>3, <2>3, ReturnPreserves
<1>4. CASE Becomes(d, i, "unfolding") /\ UNCHANGED done
  <2> USE DEF IInv
  <2>1. \A e \in Devices, j \in Ops :
          kernel'[e][j] = IF e = d /\ j = i THEN "unfolding" ELSE kernel[e][j]
    BY <1>4 DEF Becomes, TypeOK
  <2>2. kernel' \in [Devices -> [Ops -> {"none", "started", "unfolding", "done", "left", "refused"}]]
    BY <1>4 DEF Becomes, TypeOK
  <2>3. TypeOK'
    BY <1>1, <1>2, <1>4, <2>2 DEF TypeOK, inputVars, hostVars
  <2>4. Queued' /\ Fifo'
    <3>1. next' = next /\ sent' = sent /\ \A j : Calls(j)' = Calls(j) /\ \A n : On(j, n)' = On(j, n)
      BY <1>1, Frozen DEF hostVars
    <3> QED
      BY <1>2, <1>4, <3>1 DEF Queued, Fifo
  <2>5. \A e \in Devices, j \in Ops :
          /\ kernel'[e][j] = kernel[e][j] \/ Ready(e, j, Kernel)
          /\ kernel'[e][j] = "none" => kernel[e][j] = "none"
    BY <1>1, <2>1
  <2>6. KernelsInTurn'
    BY <1>1, <1>4, <2>5, KernelsFollow DEF KernelsInTurn
  <2>7. \A e \in Devices, j \in Ops : Started(e, j)' = Started(e, j)
    BY <1>1, <2>1 DEF Started
  <2>8. TurnHeld' /\ KernelHeld' /\ Untouched' /\ NoNotifyLost'
    BY <1>1, <1>4, <2>7, QuietStep
  <2> QED
    BY <2>3, <2>4, <2>6, <2>8
<1> QED
  BY <1>1, <1>3, <1>4

LEMMA EndPreserves ==
  ASSUME IInv, NEW d \in Devices, NEW i \in Ops, EndKernel(d, i)
  PROVE  IInv'
<1>1. /\ Ready(d, i, Kernel) /\ kernel[d][i] = "unfolding" /\ Returns(d, i, "done")
      /\ UNCHANGED <<inputVars, hostVars, notified, lost, suspended, faults>>
  BY DEF EndKernel, KernelIs
<1>2. TypeOK'
  <2>1. Ops' = Ops
    BY <1>1, HostStays
  <2>2. done' \in [Devices -> SUBSET (Ops \X (1..8))]
    BY <1>1, CallNumbers, TaskDone DEF Returns
  <2>3. kernel' \in [Devices -> [Ops -> {"none", "started", "unfolding", "done", "left", "refused"}]]
    BY <1>1 DEF Returns, Becomes, IInv, TypeOK
  <2> QED
    BY <1>1, <2>1, <2>2, <2>3 DEF IInv, TypeOK, inputVars, hostVars
<1> QED
  BY <1>1, <1>2, ReturnPreserves

-----------------------------------------------------------------------------
LEMMA InitIInv == Init => IInv
<1> SUFFICES ASSUME Init PROVE IInv
  OBVIOUS
<1>1. PICK x \in Instances :
        program = x.program /\ cores = x.cores /\ grant = x.grant /\ mishaps = x.mishaps
  BY DEF Init
<1>2. x = [program |-> program, cores |-> cores, grant |-> grant, mishaps |-> mishaps]
  BY <1>1, OrderLaunchAssumption
<1>3. program \in Seq([comm : Comms, mode : Modes]) /\ mishaps \in Nat
  BY <1>1, OrderLaunchAssumption
<1>4. TypeOK
  <2>1. 1 \in 1..(Len(program) + 1)
    BY <1>3
  <2>2. 0 \in 0..mishaps
    BY <1>3
  <2> QED
    BY <1>1, <1>2, <2>1, <2>2 DEF Init, TypeOK
<1>5. Queued /\ Fifo
  BY DEF Init, Queued, Fifo
<1>6. KernelsInTurn
  BY DEF Init, KernelsInTurn
<1>7. TurnHeld /\ KernelHeld
  BY DEF Init, TurnHeld, KernelHeld
<1>8. Untouched /\ NoNotifyLost
  BY DEF Init, Untouched, NoNotifyLost
<1> QED
  BY <1>4, <1>5, <1>6, <1>7, <1>8 DEF IInv

(* Every step preserves the inductive invariant. *)
LEMMA NextIInv == IInv /\ [Next]_vars => IInv'
<1> SUFFICES ASSUME IInv, [Next]_vars PROVE IInv'
  OBVIOUS
<1>1. ASSUME NEW d \in Devices, Call(d) \/ CallFails(d) PROVE IInv'
  BY <1>1, CallStep, CallFailsStep, HostPreserves DEF IInv
<1>2. ASSUME NEW d \in Devices, NEW t \in sent[d] \ done[d], Execute(d, t[1], t[2]) PROVE IInv'
  <2>1. t[1] \in Ops
    BY <1>2 DEF IInv, TypeOK
  <2> QED
    BY <1>2, <2>1, RecordPreserves, TurnWaitPreserves, OrderWaitPreserves, EventPreserves,
       StartPreserves, CheckPreserves, EndPreserves DEF Execute, ExecuteWait
<1>3. ASSUME NEW d \in Devices, NEW i \in Ops, RefuseKernel(d, i) PROVE IInv'
  BY <1>3, RefusePreserves
<1>4. CASE UNCHANGED <<inputVars, hostVars, streamVars, kernel, faults>> /\ suspended' \subseteq Comms
  <2>1. HostGoesOn
    BY <1>4, Inputs DEF HostGoesOn, hostVars, IInv, TypeOK
  <2>2. Ops' = Ops /\ \A i : Calls(i)' = Calls(i)
    BY <1>4, Frozen
  <2>3. TypeOK' /\ Queued'
    BY <1>4, <2>2 DEF IInv, TypeOK, Queued, inputVars, hostVars, streamVars
  <2> QED
    BY <2>1, <2>3, HostPreserves
<1>5. ASSUME NEW c \in Comms, Suspend(c) PROVE IInv'
  BY <1>4, <1>5 DEF Suspend, IInv, TypeOK
<1>6. CASE UNCHANGED vars
  BY <1>4, <1>6 DEF vars, IInv, TypeOK
<1> QED
  BY <1>1, <1>2, <1>3, <1>5, <1>6 DEF Next, Device

(* Every reachable state satisfies the inductive invariant. *)
THEOREM Invariance == Spec => []IInv
<1> QED
  BY InitIInv, NextIInv, PTL DEF Spec

(* The host, the streams and the kernels keep their types, and without     *)
(* both order threads no notify is ever set.                               *)
THEOREM TypeCorrect == Spec => []TypeOK
<1>1. IInv => TypeOK
  BY DEF IInv
<1> QED
  BY <1>1, Invariance, PTL

(* The kernels of one order stream start in the order of the host's calls, *)
(* for any number of devices, communicators, cores and operations and      *)
(* after any failures that leave no half of a pair.                        *)
THEOREM OrderedStart == Spec => []KernelsStartInOrder
<1>1. ASSUME IInv PROVE KernelsStartInOrder
  <2> SUFFICES ASSUME NEW d \in Devices, Paired(d), NEW i \in Ops, NEW j \in Ops,
                      i < j, OrderStream(i) = OrderStream(j),
                      <<i, Kernel>> \in sent[d], kernel[d][j] # "none"
               PROVE  Started(d, i)
    BY DEF KernelsStartInOrder, Paired
  <2> QED
    BY <1>1, HadItsTurn, KernelAwaited
<1> QED
  BY <1>1, Invariance, PTL

(* No notify is recorded while it is set, so no stream waits for a record  *)
(* that another one has swallowed.                                         *)
THEOREM NotifiesStayPaired == Spec => []NoNotifyLost
<1>1. IInv => NoNotifyLost
  BY DEF IInv
<1> QED
  BY <1>1, Invariance, PTL
=============================================================================
