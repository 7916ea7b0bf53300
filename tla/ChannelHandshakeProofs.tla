---------------------- MODULE ChannelHandshakeProofs ----------------------
(***************************************************************************)
(* Safety of the channel handshake for every set of ranks and every        *)
(* schedule, with any mixture of read, write and one-sided steps.          *)
(*                                                                         *)
(* The invariant counts nothing.  It fixes, for every step in which x      *)
(* grants y access, the order                                              *)
(*    x records ACK, y waits ACK, y records DATA, x waits DATA             *)
(* and says of each register that it is set exactly when some step has     *)
(* passed the record and not the wait.                                     *)
(***************************************************************************)
EXTENDS ChannelHandshake, TLAPS

(* Rank r has executed task e of step k. *)
Past(r, k, e) == step[r] > k \/ (step[r] = k /\ phase[r] > e)

Grants(k, x, y) == AckPeer(k, x) = y

HandshakeOrder ==
  \A k \in 1..Steps : \A x, y \in Ranks :
    Grants(k, x, y) =>
      /\ Past(y, k, 1) => Past(x, k, 0)
      /\ Past(x, k, 4) => Past(y, k, 3)

AckOutstanding ==
  \A x, y \in Ranks :
    <<x, y>> \in ack <=>
      \E k \in 1..Steps : Grants(k, x, y) /\ Past(x, k, 0) /\ ~Past(y, k, 1)

DataOutstanding ==
  \A x, y \in Ranks :
    <<y, x>> \in data <=>
      \E k \in 1..Steps : Grants(k, x, y) /\ Past(y, k, 3) /\ ~Past(x, k, 4)

IInv == TypeOK /\ HandshakeOrder /\ AckOutstanding /\ DataOutstanding

-----------------------------------------------------------------------------

(* The peer a rank grants to and the peer whose grant it waits for are the *)
(* two ends of one relation.                                               *)
LEMMA GrantIsMutual ==
  ASSUME NEW k \in 1..Steps, NEW x \in Ranks, NEW y \in Ranks
  PROVE  AckPeer(k, x) = y <=> DataPeer(k, y) = x
BY ScheduleAssumption DEF AckPeer, DataPeer, Peers

(* Peers are ranks, or the side a one-sided wrapper does not have. *)
LEMMA PeerType ==
  ASSUME NEW k \in 1..Steps, NEW x \in Ranks
  PROVE  /\ AckPeer(k, x) \in Ranks \cup {NoPeer}
         /\ DataPeer(k, x) \in Ranks \cup {NoPeer}
BY ScheduleAssumption DEF AckPeer, DataPeer, Peers

(* A missing side has no register and sets none. *)
LEMMA SignalOf ==
  ASSUME NEW r \in Ranks, NEW p \in Ranks \cup {NoPeer}
  PROVE  /\ p = NoPeer => Signal(r, p) = {} /\ Signal(p, r) = {}
         /\ p # NoPeer => Signal(r, p) = {<<r, p>>} /\ Signal(p, r) = {<<p, r>>}
BY ScheduleAssumption DEF Signal

(* All registers are clear and all ranks stand at the first task of the    *)
(* first step.                                                             *)
LEMMA InitIInv == Init => IInv
<1> SUFFICES ASSUME Init PROVE IInv
  OBVIOUS
<1> USE ScheduleAssumption
<1>1. TypeOK
  BY DEF Init, TypeOK
<1>2. HandshakeOrder
  BY DEF Init, HandshakeOrder, Past
<1>3. AckOutstanding
  BY DEF Init, AckOutstanding, Past
<1>4. DataOutstanding
  BY DEF Init, DataOutstanding, Past
<1>5. QED
  BY <1>1, <1>2, <1>3, <1>4 DEF IInv

(* How one task changes what a thread has passed: exactly that task of     *)
(* exactly that step.                                                      *)
LEMMA PhaseAdvance ==
  ASSUME TypeOK, NEW r \in Ranks, NEW p \in 0..3, Running(r, p),
         step' = step, phase' = [phase EXCEPT ![r] = p + 1],
         NEW q \in Ranks, NEW k \in 1..Steps, NEW e \in 0..4
  PROVE  Past(q, k, e)' <=> Past(q, k, e) \/ (q = r /\ k = step[r] /\ e = p)
BY DEF TypeOK, Running, Past

(* The last task of a step takes the thread to the next step and makes it  *)
(* pass nothing else.                                                      *)
LEMMA StepAdvance ==
  ASSUME TypeOK, NEW r \in Ranks, Running(r, 4),
         step' = [step EXCEPT ![r] = @ + 1], phase' = [phase EXCEPT ![r] = 0],
         NEW q \in Ranks, NEW k \in 1..Steps, NEW e \in 0..4
  PROVE  Past(q, k, e)' <=> Past(q, k, e) \/ (q = r /\ k = step[r] /\ e = 4)
BY ScheduleAssumption DEF TypeOK, Running, Past

(* The tasks of a thread are executed in order. *)
LEMMA PastOrder ==
  ASSUME TypeOK, NEW r \in Ranks, NEW k \in 1..Steps, NEW l \in 1..Steps,
         NEW d \in 0..4, NEW e \in 0..4,
         Past(r, l, e), k < l \/ (k = l /\ d <= e)
  PROVE  Past(r, k, d)
BY DEF TypeOK, Past

(* What a thread that stands at a task has passed, and what not. *)
LEMMA AtTask ==
  ASSUME TypeOK, NEW r \in Ranks, NEW p \in 0..4, Running(r, p),
         NEW k \in 1..Steps, NEW e \in 0..4
  PROVE  Past(r, k, e) <=> k < step[r] \/ (k = step[r] /\ e < p)
BY ScheduleAssumption DEF TypeOK, Running, Past

-----------------------------------------------------------------------------

(* In a state that satisfies the invariant a thread that is about to       *)
(* record finds the register clear.                                        *)
LEMMA AckClear ==
  ASSUME IInv, NEW r \in Ranks, Running(r, 0), AckPeer(step[r], r) # NoPeer
  PROVE  <<r, AckPeer(step[r], r)>> \notin ack
<1> DEFINE y == AckPeer(step[r], r)
<1>1. y \in Ranks /\ step[r] \in 1..Steps
  BY PeerType DEF Running
<1>2. SUFFICES ASSUME NEW k \in 1..Steps, Grants(k, r, y),
                      Past(r, k, 0), ~Past(y, k, 1)
               PROVE  FALSE
  BY <1>1 DEF IInv, AckOutstanding
<1>3. k < step[r]
  BY <1>2, AtTask DEF IInv
<1>4. Past(r, k, 4)
  BY <1>3, AtTask DEF IInv
<1>5. Past(y, k, 3)
  BY <1>1, <1>2, <1>4 DEF IInv, HandshakeOrder
<1>6. Past(y, k, 1)
  BY <1>1, <1>5, PastOrder DEF IInv
<1>7. QED
  BY <1>2, <1>6

(* The same for the DATA register of the peer whose memory was used. *)
LEMMA DataClear ==
  ASSUME IInv, NEW r \in Ranks, Running(r, 3), DataPeer(step[r], r) # NoPeer
  PROVE  <<r, DataPeer(step[r], r)>> \notin data
<1> DEFINE x == DataPeer(step[r], r)
<1>1. x \in Ranks /\ step[r] \in 1..Steps
  BY PeerType DEF Running
<1>2. SUFFICES ASSUME NEW k \in 1..Steps, Grants(k, x, r),
                      Past(r, k, 3), ~Past(x, k, 4)
               PROVE  FALSE
  BY <1>1 DEF IInv, DataOutstanding
<1>3. k < step[r]
  BY <1>2, AtTask DEF IInv
<1>4. Grants(step[r], x, r)
  BY <1>1, GrantIsMutual DEF Grants
<1>5. Past(r, step[r], 1)
  BY <1>1, AtTask DEF IInv
<1>6. Past(x, step[r], 0)
  BY <1>1, <1>4, <1>5 DEF IInv, HandshakeOrder
<1>7. Past(x, k, 4)
  BY <1>1, <1>3, <1>6 DEF IInv, TypeOK, Past
<1>8. QED
  BY <1>2, <1>7

(* A register that is set when a thread waits on it was set by the very    *)
(* step the thread is in.                                                  *)
LEMMA AckIsOwn ==
  ASSUME IInv, NEW y \in Ranks, Running(y, 1), NEW x \in Ranks,
         DataPeer(step[y], y) = x, <<x, y>> \in ack,
         NEW k \in 1..Steps, Grants(k, x, y)
  PROVE  /\ Past(x, step[y], 0)
         /\ Past(x, k, 0) /\ ~Past(y, k, 1) => k = step[y]
<1> DEFINE s == step[y]
<1>1. s \in 1..Steps /\ Grants(s, x, y)
  BY GrantIsMutual DEF Running, Grants
<1>2. PICK l \in 1..Steps : Past(x, l, 0) /\ ~Past(y, l, 1)
  BY DEF IInv, AckOutstanding
<1>3. l >= s
  BY <1>2, AtTask DEF IInv, TypeOK
<1>4. Past(x, s, 0)
  BY <1>1, <1>2, <1>3, PastOrder DEF IInv, TypeOK
<1>5. ASSUME Past(x, k, 0), ~Past(y, k, 1)
      PROVE  k = s
  <2>1. k >= s
    BY <1>5, AtTask DEF IInv, TypeOK
  <2>2. SUFFICES ASSUME k > s PROVE FALSE
    BY <2>1, <1>1
  <2>3. Past(x, s, 4)
    BY <1>1, <1>5, <2>2 DEF IInv, TypeOK, Past
  <2>4. Past(y, s, 3)
    BY <1>1, <2>3 DEF IInv, HandshakeOrder
  <2>5. QED
    BY <1>1, <2>4, AtTask DEF IInv
<1>6. QED
  BY <1>4, <1>5

(* The same for the DATA register. *)
LEMMA DataIsOwn ==
  ASSUME IInv, NEW x \in Ranks, Running(x, 4), NEW y \in Ranks,
         AckPeer(step[x], x) = y, <<y, x>> \in data,
         NEW k \in 1..Steps, Grants(k, x, y)
  PROVE  /\ Past(y, step[x], 3)
         /\ Past(y, k, 3) /\ ~Past(x, k, 4) => k = step[x]
<1> DEFINE s == step[x]
<1>1. s \in 1..Steps /\ Grants(s, x, y)
  BY DEF Running, Grants
<1>2. PICK l \in 1..Steps : Grants(l, x, y) /\ Past(y, l, 3) /\ ~Past(x, l, 4)
  BY DEF IInv, DataOutstanding
<1>3. l >= s
  BY <1>2, AtTask DEF IInv, TypeOK
<1>4. Past(y, s, 3)
  BY <1>1, <1>2, <1>3, PastOrder DEF IInv, TypeOK
<1>5. ASSUME Past(y, k, 3), ~Past(x, k, 4)
      PROVE  k = s
  <2>1. k >= s
    BY <1>5, AtTask DEF IInv, TypeOK
  <2>2. SUFFICES ASSUME k > s PROVE FALSE
    BY <2>1, <1>1
  <2>3. Past(y, k, 1)
    BY <1>5, PastOrder DEF IInv
  <2>4. Past(x, k, 0)
    BY <2>3 DEF IInv, HandshakeOrder
  <2>5. QED
    BY <1>1, <2>2, <2>4, AtTask DEF IInv, TypeOK
<1>6. QED
  BY <1>4, <1>5

-----------------------------------------------------------------------------

(* Granting sets the one register that the invariant asks for, and it was  *)
(* clear.                                                                  *)
LEMMA RecordAckStep ==
  ASSUME IInv, NEW r \in Ranks, RecordAck(r)
  PROVE  IInv'
<1> DEFINE s == step[r]
           p == AckPeer(s, r)
<1>0. /\ Running(r, 0) /\ s \in 1..Steps /\ TypeOK
      /\ p \in Ranks \cup {NoPeer}
      /\ step' = step /\ data' = data
      /\ phase' = [phase EXCEPT ![r] = 1]
      /\ ack' = ack \cup Signal(r, p)
  BY PeerType DEF RecordAck, Running, IInv
<1>1. TypeOK'
  BY <1>0, SignalOf, ScheduleAssumption DEF TypeOK, Running
<1>2. \A q \in Ranks, k \in 1..Steps, e \in 0..4 :
        Past(q, k, e)' <=> Past(q, k, e) \/ (q = r /\ k = s /\ e = 0)
  BY <1>0, PhaseAdvance, 0 \in 0..3, 0 + 1 = 1
<1>3. HandshakeOrder'
  BY <1>2 DEF IInv, HandshakeOrder, Grants, AckPeer
<1>4. AckOutstanding'
  <2> SUFFICES ASSUME NEW x \in Ranks, NEW y \in Ranks
               PROVE  (<<x, y>> \in ack)' <=>
                        \E k \in 1..Steps :
                          Grants(k, x, y) /\ Past(x, k, 0)' /\ ~Past(y, k, 1)'
    BY DEF AckOutstanding, Grants, AckPeer
  <2>1. CASE x = r /\ y = p
    <3>1. ~Past(y, s, 1)
      <4>1. ~Past(r, s, 0)
        BY <1>0, AtTask
      <4>2. Grants(s, r, y)
        BY <2>1 DEF Grants
      <4>3. QED
        BY <1>0, <4>1, <4>2 DEF IInv, HandshakeOrder
    <3>2. <<x, y>> \in ack'
      BY <1>0, <2>1, SignalOf, ScheduleAssumption
    <3>3. Grants(s, x, y) /\ Past(x, s, 0)' /\ ~Past(y, s, 1)'
      BY <1>0, <1>2, <2>1, <3>1 DEF Grants
    <3>4. QED
      BY <1>0, <3>2, <3>3
  <2>2. CASE ~(x = r /\ y = p)
    <3>1. <<x, y>> \in ack' <=> <<x, y>> \in ack
      BY <1>0, <2>2, SignalOf
    <3>2. \A k \in 1..Steps : Grants(k, x, y) =>
            (Past(x, k, 0)' <=> Past(x, k, 0)) /\ (Past(y, k, 1)' <=> Past(y, k, 1))
      BY <1>2, <2>2 DEF Grants
    <3>3. QED
      BY <3>1, <3>2 DEF IInv, AckOutstanding
  <2>3. QED
    BY <2>1, <2>2
<1>5. DataOutstanding'
  <2>1. \A q \in Ranks, k \in 1..Steps :
          (Past(q, k, 3)' <=> Past(q, k, 3)) /\ (Past(q, k, 4)' <=> Past(q, k, 4))
    BY <1>2
  <2>2. QED
    BY <1>0, <2>1 DEF IInv, DataOutstanding, Grants, AckPeer
<1>6. QED
  BY <1>1, <1>3, <1>4, <1>5 DEF IInv

(* Taking a grant clears the register of this step and of no other. *)
LEMMA WaitAckStep ==
  ASSUME IInv, NEW r \in Ranks, WaitAck(r)
  PROVE  IInv'
<1> DEFINE s == step[r]
           p == DataPeer(s, r)
<1>0. /\ Running(r, 1) /\ s \in 1..Steps /\ TypeOK
      /\ p \in Ranks \cup {NoPeer}
      /\ step' = step /\ data' = data
      /\ phase' = [phase EXCEPT ![r] = 2]
      /\ Signal(p, r) \subseteq ack
      /\ ack' = ack \ Signal(p, r)
  BY PeerType DEF WaitAck, Running, IInv
<1>1. TypeOK'
  BY <1>0, ScheduleAssumption DEF TypeOK, Running
<1>2. \A q \in Ranks, k \in 1..Steps, e \in 0..4 :
        Past(q, k, e)' <=> Past(q, k, e) \/ (q = r /\ k = s /\ e = 1)
  BY <1>0, PhaseAdvance, 1 \in 0..3, 1 + 1 = 2
<1>3. HandshakeOrder'
  <2> SUFFICES ASSUME NEW k \in 1..Steps, NEW x \in Ranks, NEW y \in Ranks,
                      Grants(k, x, y)
               PROVE  /\ Past(y, k, 1)' => Past(x, k, 0)'
                      /\ Past(x, k, 4)' => Past(y, k, 3)'
    BY DEF HandshakeOrder, Grants, AckPeer
  <2>1. CASE y = r /\ k = s
    <3>1. DataPeer(s, r) = x
      BY <2>1, GrantIsMutual DEF Grants
    <3>2. <<x, r>> \in ack
      BY <1>0, <3>1, SignalOf, ScheduleAssumption
    <3>3. Past(x, s, 0)
      BY <1>0, <2>1, <3>1, <3>2, AckIsOwn
    <3>4. QED
      BY <1>2, <2>1, <3>3 DEF IInv, HandshakeOrder
  <2>2. CASE ~(y = r /\ k = s)
    BY <1>2, <2>2 DEF IInv, HandshakeOrder
  <2>3. QED
    BY <2>1, <2>2
<1>4. AckOutstanding'
  <2> SUFFICES ASSUME NEW x \in Ranks, NEW y \in Ranks
               PROVE  (<<x, y>> \in ack)' <=>
                        \E k \in 1..Steps :
                          Grants(k, x, y) /\ Past(x, k, 0)' /\ ~Past(y, k, 1)'
    BY DEF AckOutstanding, Grants, AckPeer
  <2>1. CASE x = p /\ y = r
    <3>1. <<x, y>> \in ack /\ <<x, y>> \notin ack'
      BY <1>0, <2>1, SignalOf, ScheduleAssumption
    <3>2. SUFFICES ASSUME NEW k \in 1..Steps, Grants(k, x, y),
                          Past(x, k, 0)', ~Past(y, k, 1)'
                   PROVE  FALSE
      BY <3>1
    <3>3. Past(x, k, 0) /\ ~Past(y, k, 1)
      BY <1>2, <3>2
    <3>4. k = s
      BY <1>0, <2>1, <3>1, <3>2, <3>3, AckIsOwn
    <3>5. QED
      BY <1>2, <2>1, <3>2, <3>4
  <2>2. CASE ~(x = p /\ y = r)
    <3>1. <<x, y>> \in ack' <=> <<x, y>> \in ack
      BY <1>0, <2>2, SignalOf
    <3>2. \A k \in 1..Steps : Grants(k, x, y) =>
            (Past(x, k, 0)' <=> Past(x, k, 0)) /\ (Past(y, k, 1)' <=> Past(y, k, 1))
      BY <1>2, <2>2, GrantIsMutual DEF Grants
    <3>3. QED
      BY <3>1, <3>2 DEF IInv, AckOutstanding
  <2>3. QED
    BY <2>1, <2>2
<1>5. DataOutstanding'
  <2>1. \A q \in Ranks, k \in 1..Steps :
          (Past(q, k, 3)' <=> Past(q, k, 3)) /\ (Past(q, k, 4)' <=> Past(q, k, 4))
    BY <1>2
  <2>2. QED
    BY <1>0, <2>1 DEF IInv, DataOutstanding, Grants, AckPeer
<1>6. QED
  BY <1>1, <1>3, <1>4, <1>5 DEF IInv

(* A transfer changes no register. *)
LEMMA TransferStep ==
  ASSUME IInv, NEW r \in Ranks, Transfer(r)
  PROVE  IInv'
<1> DEFINE s == step[r]
<1>0. /\ Running(r, 2) /\ s \in 1..Steps /\ TypeOK
      /\ step' = step /\ ack' = ack /\ data' = data
      /\ phase' = [phase EXCEPT ![r] = 3]
  BY DEF Transfer, Running, IInv
<1>1. TypeOK'
  BY <1>0, ScheduleAssumption DEF TypeOK, Running
<1>2. \A q \in Ranks, k \in 1..Steps, e \in 0..4 :
        Past(q, k, e)' <=> Past(q, k, e) \/ (q = r /\ k = s /\ e = 2)
  BY <1>0, PhaseAdvance, 2 \in 0..3, 2 + 1 = 3
<1>3. HandshakeOrder'
  BY <1>2 DEF IInv, HandshakeOrder, Grants, AckPeer
<1>4. AckOutstanding'
  <2>1. \A q \in Ranks, k \in 1..Steps :
          (Past(q, k, 0)' <=> Past(q, k, 0)) /\ (Past(q, k, 1)' <=> Past(q, k, 1))
    BY <1>2
  <2>2. QED
    BY <1>0, <2>1 DEF IInv, AckOutstanding, Grants, AckPeer
<1>5. DataOutstanding'
  <2>1. \A q \in Ranks, k \in 1..Steps :
          (Past(q, k, 3)' <=> Past(q, k, 3)) /\ (Past(q, k, 4)' <=> Past(q, k, 4))
    BY <1>2
  <2>2. QED
    BY <1>0, <2>1 DEF IInv, DataOutstanding, Grants, AckPeer
<1>6. QED
  BY <1>1, <1>3, <1>4, <1>5 DEF IInv

(* Answering sets the DATA register of the grant, which was clear. *)
LEMMA RecordDataStep ==
  ASSUME IInv, NEW r \in Ranks, RecordData(r)
  PROVE  IInv'
<1> DEFINE s == step[r]
           p == DataPeer(s, r)
<1>0. /\ Running(r, 3) /\ s \in 1..Steps /\ TypeOK
      /\ p \in Ranks \cup {NoPeer}
      /\ step' = step /\ ack' = ack
      /\ phase' = [phase EXCEPT ![r] = 4]
      /\ data' = data \cup Signal(r, p)
  BY PeerType DEF RecordData, Running, IInv
<1>1. TypeOK'
  BY <1>0, SignalOf, ScheduleAssumption DEF TypeOK, Running
<1>2. \A q \in Ranks, k \in 1..Steps, e \in 0..4 :
        Past(q, k, e)' <=> Past(q, k, e) \/ (q = r /\ k = s /\ e = 3)
  BY <1>0, PhaseAdvance, 3 \in 0..3, 3 + 1 = 4
<1>3. HandshakeOrder'
  BY <1>2 DEF IInv, HandshakeOrder, Grants, AckPeer
<1>4. AckOutstanding'
  <2>1. \A q \in Ranks, k \in 1..Steps :
          (Past(q, k, 0)' <=> Past(q, k, 0)) /\ (Past(q, k, 1)' <=> Past(q, k, 1))
    BY <1>2
  <2>2. QED
    BY <1>0, <2>1 DEF IInv, AckOutstanding, Grants, AckPeer
<1>5. DataOutstanding'
  <2> SUFFICES ASSUME NEW x \in Ranks, NEW y \in Ranks
               PROVE  (<<y, x>> \in data)' <=>
                        \E k \in 1..Steps :
                          Grants(k, x, y) /\ Past(y, k, 3)' /\ ~Past(x, k, 4)'
    BY DEF DataOutstanding, Grants, AckPeer
  <2>1. CASE y = r /\ x = p
    <3>1. Grants(s, x, y)
      BY <1>0, <2>1, GrantIsMutual DEF Grants
    <3>2. ~Past(x, s, 4)
      <4>1. ~Past(r, s, 3)
        BY <1>0, AtTask
      <4>2. QED
        BY <1>0, <2>1, <3>1, <4>1 DEF IInv, HandshakeOrder
    <3>3. <<y, x>> \in data'
      BY <1>0, <2>1, SignalOf, ScheduleAssumption
    <3>4. Past(y, s, 3)' /\ ~Past(x, s, 4)'
      BY <1>0, <1>2, <2>1, <3>2
    <3>5. QED
      BY <1>0, <3>1, <3>3, <3>4
  <2>2. CASE ~(y = r /\ x = p)
    <3>1. <<y, x>> \in data' <=> <<y, x>> \in data
      BY <1>0, <2>2, SignalOf
    <3>2. \A k \in 1..Steps : Grants(k, x, y) =>
            (Past(y, k, 3)' <=> Past(y, k, 3)) /\ (Past(x, k, 4)' <=> Past(x, k, 4))
      BY <1>2, <2>2, GrantIsMutual DEF Grants
    <3>3. QED
      BY <3>1, <3>2 DEF IInv, DataOutstanding
  <2>3. QED
    BY <2>1, <2>2
<1>6. QED
  BY <1>1, <1>3, <1>4, <1>5 DEF IInv

(* The last wait of a step clears its own register and ends the step. *)
LEMMA WaitDataStep ==
  ASSUME IInv, NEW r \in Ranks, WaitData(r)
  PROVE  IInv'
<1> DEFINE s == step[r]
           p == AckPeer(s, r)
<1>0. /\ Running(r, 4) /\ s \in 1..Steps /\ TypeOK
      /\ p \in Ranks \cup {NoPeer}
      /\ step' = [step EXCEPT ![r] = @ + 1] /\ ack' = ack
      /\ phase' = [phase EXCEPT ![r] = 0]
      /\ Signal(p, r) \subseteq data
      /\ data' = data \ Signal(p, r)
  BY PeerType DEF WaitData, Running, IInv
<1>1. TypeOK'
  BY <1>0, ScheduleAssumption DEF TypeOK, Running
<1>2. \A q \in Ranks, k \in 1..Steps, e \in 0..4 :
        Past(q, k, e)' <=> Past(q, k, e) \/ (q = r /\ k = s /\ e = 4)
  BY <1>0, StepAdvance
<1>3. HandshakeOrder'
  <2> SUFFICES ASSUME NEW k \in 1..Steps, NEW x \in Ranks, NEW y \in Ranks,
                      Grants(k, x, y)
               PROVE  /\ Past(y, k, 1)' => Past(x, k, 0)'
                      /\ Past(x, k, 4)' => Past(y, k, 3)'
    BY DEF HandshakeOrder, Grants, AckPeer
  <2>1. CASE x = r /\ k = s
    <3>1. p = y
      BY <2>1 DEF Grants
    <3>2. <<y, r>> \in data
      BY <1>0, <3>1, SignalOf, ScheduleAssumption
    <3>3. Past(y, s, 3)
      BY <1>0, <2>1, <3>1, <3>2, DataIsOwn
    <3>4. QED
      BY <1>2, <2>1, <3>3 DEF IInv, HandshakeOrder
  <2>2. CASE ~(x = r /\ k = s)
    BY <1>2, <2>2 DEF IInv, HandshakeOrder
  <2>3. QED
    BY <2>1, <2>2
<1>4. AckOutstanding'
  <2>1. \A q \in Ranks, k \in 1..Steps :
          (Past(q, k, 0)' <=> Past(q, k, 0)) /\ (Past(q, k, 1)' <=> Past(q, k, 1))
    BY <1>2
  <2>2. QED
    BY <1>0, <2>1 DEF IInv, AckOutstanding, Grants, AckPeer
<1>5. DataOutstanding'
  <2> SUFFICES ASSUME NEW x \in Ranks, NEW y \in Ranks
               PROVE  (<<y, x>> \in data)' <=>
                        \E k \in 1..Steps :
                          Grants(k, x, y) /\ Past(y, k, 3)' /\ ~Past(x, k, 4)'
    BY DEF DataOutstanding, Grants, AckPeer
  <2>1. CASE x = r /\ y = p
    <3>1. <<y, x>> \in data /\ <<y, x>> \notin data'
      BY <1>0, <2>1, SignalOf, ScheduleAssumption
    <3>2. SUFFICES ASSUME NEW k \in 1..Steps, Grants(k, x, y),
                          Past(y, k, 3)', ~Past(x, k, 4)'
                   PROVE  FALSE
      BY <3>1
    <3>3. Past(y, k, 3) /\ ~Past(x, k, 4)
      BY <1>2, <3>2
    <3>4. k = s
      BY <1>0, <2>1, <3>1, <3>2, <3>3, DataIsOwn
    <3>5. QED
      BY <1>2, <2>1, <3>2, <3>4
  <2>2. CASE ~(x = r /\ y = p)
    <3>1. <<y, x>> \in data' <=> <<y, x>> \in data
      BY <1>0, <2>2, SignalOf
    <3>2. \A k \in 1..Steps : Grants(k, x, y) =>
            (Past(y, k, 3)' <=> Past(y, k, 3)) /\ (Past(x, k, 4)' <=> Past(x, k, 4))
      BY <1>2, <2>2 DEF Grants
    <3>3. QED
      BY <3>1, <3>2 DEF IInv, DataOutstanding
  <2>3. QED
    BY <2>1, <2>2
<1>6. QED
  BY <1>1, <1>3, <1>4, <1>5 DEF IInv

-----------------------------------------------------------------------------

(* Every task of every rank preserves the invariant. *)
LEMMA NextIInv == IInv /\ [Next]_vars => IInv'
<1> SUFFICES ASSUME IInv, [Next]_vars PROVE IInv'
  OBVIOUS
<1>1. ASSUME NEW r \in Ranks, Advance(r) PROVE IInv'
  BY <1>1, RecordAckStep, WaitAckStep, TransferStep, RecordDataStep, WaitDataStep
     DEF Advance
<1>2. ASSUME UNCHANGED vars PROVE IInv'
  BY <1>2 DEF vars, IInv, TypeOK, HandshakeOrder, AckOutstanding,
              DataOutstanding, Past, Grants, AckPeer
<1>3. QED
  BY <1>1, <1>2 DEF Next, Complete

(* The registers are at all times what the positions of the ranks in the   *)
(* schedule say they are.                                                  *)
THEOREM Invariance == Spec => []IInv
BY InitIInv, NextIInv, PTL DEF Spec

(* Every variable keeps its type: ChannelHandshake's state is well formed  *)
(* for all parameters.                                                     *)
THEOREM TypeCorrect == Spec => []TypeOK
<1>1. IInv => TypeOK
  BY DEF IInv
<1>2. QED
  BY <1>1, Invariance, PTL

(* The wrappers never record a notify whose register is still set,         *)
(* whatever the number of ranks, the schedule and the speed of the ranks.  *)
THEOREM SignalsAreNotLost == Spec => []NoSignalLost
<1>1. IInv => NoSignalLost
  <2> SUFFICES ASSUME IInv, NEW r \in Ranks
               PROVE  /\ Running(r, 0) => Signal(r, AckPeer(step[r], r)) \cap ack = {}
                      /\ Running(r, 3) => Signal(r, DataPeer(step[r], r)) \cap data = {}
    BY DEF NoSignalLost
  <2>1. ASSUME Running(r, 0) PROVE Signal(r, AckPeer(step[r], r)) \cap ack = {}
    <3>1. AckPeer(step[r], r) \in Ranks \cup {NoPeer}
      BY <2>1, PeerType DEF Running
    <3>2. QED
      BY <2>1, <3>1, AckClear, SignalOf
  <2>2. ASSUME Running(r, 3) PROVE Signal(r, DataPeer(step[r], r)) \cap data = {}
    <3>1. DataPeer(step[r], r) \in Ranks \cup {NoPeer}
      BY <2>2, PeerType DEF Running
    <3>2. QED
      BY <2>2, <3>1, DataClear, SignalOf
  <2>3. QED
    BY <2>1, <2>2
<1>2. QED
  BY <1>1, Invariance, PTL

(* A rank writes into or reads from a peer's memory only while the peer    *)
(* stands in the same step between its grant and its last wait.            *)
THEOREM TransfersAreGranted == Spec => []TransferGranted
<1>1. IInv => TransferGranted
  <2> SUFFICES ASSUME IInv, NEW r \in Ranks, Running(r, 2),
                      DataPeer(step[r], r) # NoPeer
               PROVE  /\ step[DataPeer(step[r], r)] = step[r]
                      /\ phase[DataPeer(step[r], r)] \in 1..4
    BY DEF TransferGranted
  <2> DEFINE s == step[r]
             x == DataPeer(s, r)
  <2>1. s \in 1..Steps /\ x \in Ranks /\ Grants(s, x, r)
    BY PeerType, GrantIsMutual DEF Running, Grants
  <2>2. Past(r, s, 1) /\ ~Past(r, s, 3)
    BY <2>1, AtTask DEF IInv
  <2>3. Past(x, s, 0) /\ ~Past(x, s, 4)
    BY <2>1, <2>2 DEF IInv, HandshakeOrder
  <2>4. QED
    BY <2>1, <2>3 DEF IInv, TypeOK, Past
<1>2. QED
  BY <1>1, Invariance, PTL

(* When all ranks have finished, every register is clear again.            *)
THEOREM RegistersAreLeftClean == Spec => []RegistersClean
<1>1. IInv => RegistersClean
  <2> SUFFICES ASSUME IInv, AllDone PROVE ack = {} /\ data = {}
    BY DEF RegistersClean
  <2>1. \A r \in Ranks, k \in 1..Steps, e \in 0..4 : Past(r, k, e)
    BY ScheduleAssumption DEF AllDone, Past
  <2>2. ASSUME NEW x \in Ranks, NEW y \in Ranks
        PROVE  <<x, y>> \notin ack /\ <<y, x>> \notin data
    <3>1. \A k \in 1..Steps : Past(y, k, 1) /\ Past(x, k, 4)
      BY <2>1
    <3>2. QED
      BY <3>1 DEF IInv, AckOutstanding, DataOutstanding
  <2>3. ack \subseteq Ranks \X Ranks /\ data \subseteq Ranks \X Ranks
    BY DEF IInv, TypeOK
  <2>4. ASSUME NEW e \in Ranks \X Ranks PROVE e \notin ack /\ e \notin data
    <3>1. PICK x, y \in Ranks : e = <<x, y>>
      OBVIOUS
    <3>2. QED
      BY <2>2, <3>1
  <2>5. QED
    BY <2>3, <2>4
<1>2. QED
  BY <1>1, Invariance, PTL
=============================================================================
