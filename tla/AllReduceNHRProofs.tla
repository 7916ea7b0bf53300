---------------------------- MODULE AllReduceNHRProofs ----------------------------
(***************************************************************************)
(* Theorems about AllReduceNHR, for any number of ranks, channels, loops   *)
(* and options.  The program of a thread (OrchestrateLoop, KernelRun) is   *)
(* shown to run along marks: which step of NHR the thread is in, how far   *)
(* in that step's handshake, and which threads of its rank it speaks for.  *)
(* From where the two threads of an exchange stand it follows whether the  *)
(* exchange's notifies are set (Paired), from that that the two ranks are  *)
(* in the same step (InStep), and from that who may touch which cell, and  *)
(* that the rounds of a rank do not overlap (NoDataRace).                  *)
(*                                                                         *)
(* Since no two moves disturb each other, what each thread's cells hold    *)
(* follows from how far the thread is (Shares): after each ReduceScatter   *)
(* step the sum over a wider window of ranks, after each AllGather step    *)
(* the whole sum of more slices.  At the end of a round that is the sum in *)
(* the output of every rank (DeliveredWhenFinished); with where inputs can *)
(* be found before (Originates) it gives that nobody is early, and the     *)
(* threads implement Collective (Implements).                              *)
(***************************************************************************)
EXTENDS AllReduceNHR, SequenceTheorems, TLAPS

(* The schedule of NHR, of which NHRLockstepProofs has the arithmetic.     *)
L == INSTANCE NHRLockstepProofs WITH MaxN <- N, n <- N, k <- 0, have <- 0

Steps(o) == 2 * StepNum * Len(o.counts)

(* ChannelHandshake's AckPeer and DataPeer, in this schedule.              *)
AckPeer(o, k, r)  == IF HandshakeMode[o][k] = "write" THEN HandshakeRx[o][k][r]
                     ELSE HandshakeTx[o][k][r]
DataPeer(o, k, r) == IF HandshakeMode[o][k] = "write" THEN HandshakeTx[o][k][r]
                     ELSE HandshakeRx[o][k][r]

(* The slices a rank sends, or in a read step fetches, in step k.          *)
StepSlices(o, k, r) ==
  IF HandshakeMode[o][k] = "write"
  THEN IF Gathers(k) THEN GatherTx(StepOf(k), r) ELSE ScatterTx(StepOf(k), r)
  ELSE IF Gathers(k) THEN GatherRx(StepOf(k), r) ELSE ScatterRx(StepOf(k), r)

(* A notify that opens an exchange of two threads, the one that closes it, *)
(* and the threads that record and wait for a notify.                      *)
Grants ==
  {<<"ack", x[1], x[2], c>> : x \in {y \in Ranks \X Ranks : y[1] # y[2]}, c \in 1..Channels}
  \cup {<<"start", r, r, i>> : r \in Ranks, i \in 2..Channels}

Answer(g)   == <<IF g[1] = "ack" THEN "data" ELSE "finish", g[3], g[2], g[4]>>
Recorder(x) == <<x[2], IF x[1] = "start" THEN 1 ELSE x[4]>>
Waiter(x)   == <<x[3], IF x[1] = "finish" THEN 1 ELSE x[4]>>

-----------------------------------------------------------------------------
(* What a thread knows between two tasks: its place in the handshake; its  *)
(* crew, the other threads of its rank that are between start and finish   *)
(* (the main thread's view), or itself if it is; how often each of the     *)
(* crew has started or finished; and the local copies it has made.         *)

Mark(crew, step, phase, turns, copies) ==
  [crew |-> crew, step |-> step, phase |-> phase, turns |-> turns, copies |-> copies]

Crew(t) == IF t[2] = 1 THEN 2..Channels ELSE {t[2]}

(* A leg is what a thread does from a start to the next finish: a round,   *)
(* or with symmetric memory one half of it.                                *)
LegSteps(o)    == IF o.symmetric THEN StepNum ELSE 2 * StepNum
Legs(o)        == IF o.symmetric THEN 2 ELSE Len(o.counts)
LegStart(o, q) == (q - 1) * LegSteps(o) + 1

(* The local copies before leg q.                                          *)
Copied(o, t, q) ==
  IF ~o.symmetric THEN 2 * q - 2 ELSE IF t[2] = 1 THEN q - 1 ELSE 0

(* The marks of leg q: while the crew starts, while all are at work, and   *)
(* while the crew finishes.                                                *)
Entering(o, t, q, crew) ==
  Mark(crew, LegStart(o, q), 0,
       [i \in Crew(t) |-> IF i \in crew THEN 2 * q - 1 ELSE 2 * q - 2],
       Copied(o, t, q))

Inside(o, t, q, k, p) ==
  Mark(Crew(t), k, p, [i \in Crew(t) |-> 2 * q - 1],
       IF o.symmetric THEN Copied(o, t, q) ELSE 2 * q - 1)

Leaving(o, t, q, crew) ==
  Mark(crew, LegStart(o, q + 1), 0,
       [i \in Crew(t) |-> IF i \in crew THEN 2 * q - 1 ELSE 2 * q],
       IF o.symmetric THEN Copied(o, t, q) ELSE 2 * q)

InLeg(o, q, k, p) ==
  /\ k \in LegStart(o, q)..LegStart(o, q + 1)
  /\ p \in IF k = LegStart(o, q + 1) THEN {0} ELSE 0..4

OfLeg(o, t, q, a) ==
  \/ \E crew \in SUBSET Crew(t) : a = Entering(o, t, q, crew) \/ a = Leaving(o, t, q, crew)
  \/ \E k \in Nat, p \in 0..4 : InLeg(o, q, k, p) /\ a = Inside(o, t, q, k, p)

Marks(o, t) ==
  {a \in [crew : SUBSET (2..Channels), step : 1..(Steps(o) + 1), phase : 0..4,
          turns : [Crew(t) -> Nat], copies : Nat] :
     \E q \in 1..Legs(o) : OfLeg(o, t, q, a)}

(* The mark of a thread after l rounds.                                    *)
Rest(o, t, l) ==
  IF l = 0 THEN Entering(o, t, 1, {})
  ELSE Leaving(o, t, IF o.symmetric THEN 2 ELSE l, {})

(* A thread other than the main one works between start and finish only.   *)
Manned(t, a) == t[2] = 1 \/ t[2] \in a.crew

(* What rank z has in its memory from step i of round l, whoever moves it. *)
GatherBuffer(o, l) == IF o.symmetric THEN Out(o, l) ELSE Ccl

ScatterReceipt(o, l, c, i, z) ==
  Copy(z, ReduceBuffer(o, l), ScatterFrom(i, z),
       IF SkipStep0TxPreCopy(o) /\ i = 0 THEN In(l) ELSE ReduceBuffer(o, l),
       ScatterRx(i, z) \cap HasData(o, l, c), c, TRUE)

GatherReceipt(o, l, c, j, z) ==
  Copy(z, IF ReadLastStepToOutput(o) /\ j = StepNum - 1 THEN Out(o, l) ELSE GatherBuffer(o, l),
       GatherFrom(j, z), GatherBuffer(o, l), GatherRx(j, z) \cap HasData(o, l, c), c, FALSE)

Target(o, k, r) == IF HandshakeMode[o][k] = "write" THEN DataPeer(o, k, r) ELSE r

Receipt(o, k, c, z, moves) ==
  \E l \in Loops(o), i \in 0..(StepNum - 1) :
    \/ k = FirstStep(l) + i /\ moves = ScatterReceipt(o, l, c, i, z)
    \/ k = FirstStep(l) + StepNum + i /\ moves = GatherReceipt(o, l, c, i, z)

(* The copy of CopyMySlice.                                                *)
MySlice(o, l, r) ==
  [x \in UNION {{<<r, Out(o, l), s, d>> : s \in {r} \cap HasData(o, l, d)} : d \in 1..Channels} |->
     [src |-> <<r, In(l), x[3], x[4]>>, reduce |-> FALSE]]

(* The local copies of a round, and where each is made.                    *)
LocalCopy(o, t, l, a, task) ==
  \/ /\ ~o.symmetric
     /\ a = Entering(o, t, l, Crew(t))
     /\ PreCopy(o, l, t[1], t[2]) = <<task>>
  \/ /\ ~o.symmetric
     /\ a = Inside(o, t, l, FirstStep(l + 1), 0)
     /\ PostCopy(o, l, t[1], t[2]) = <<task>>
  \/ /\ o.symmetric
     /\ t[2] = 1
     /\ a = Leaving(o, t, 1, {})
     /\ task.moves = MySlice(o, l, t[1])

TouchedBy(moves) == DOMAIN moves \cup {moves[x].src : x \in DOMAIN moves}

(* A start or a finish.                                                    *)
CrewTask(t, a, task, b) ==
  /\ a.phase = 0
  /\ \E i \in 2..Channels :
       /\ t[2] \in {1, i}
       /\ \/ /\ task.op = IF t[2] = 1 THEN "record" ELSE "wait"
             /\ task.reg = <<"start", t[1], t[1], i>>
             /\ i \notin a.crew
             /\ b = Mark(a.crew \cup {i}, a.step, 0, [a.turns EXCEPT ![i] = @ + 1], a.copies)
          \/ /\ task.op = IF t[2] = 1 THEN "wait" ELSE "record"
             /\ task.reg = <<"finish", t[1], t[1], i>>
             /\ i \in a.crew
             /\ b = Mark(a.crew \ {i}, a.step, 0, [a.turns EXCEPT ![i] = @ + 1], a.copies)

(* A copy within the rank, of the other channels only when their threads   *)
(* stand still.                                                            *)
LocalTask(o, t, a, task, b) ==
  /\ a.phase = 0
  /\ Manned(t, a)
  /\ task.op = "move"
  /\ TouchedBy(task.moves) \subseteq Cells
  /\ \A x \in TouchedBy(task.moves) :
       x[1] = t[1] /\ (x[4] = t[2] \/ (t[2] = 1 /\ a.crew = {}))
  /\ b = Mark(a.crew, a.step, 0, a.turns, a.copies + 1)
  /\ \E l \in Loops(o) : LocalCopy(o, t, l, a, task)

(* A task of the handshake.                                                *)
ChannelTask(o, t, a, task, b) ==
  LET r == t[1]
      c == t[2]
      k == a.step
  IN  /\ k <= Steps(o)
      /\ Manned(t, a)
      /\ \/ /\ a.phase = 0
            /\ task.op = "record"
            /\ task.reg = <<"ack", r, AckPeer(o, k, r), c>>
            /\ b = Mark(a.crew, k, 1, a.turns, a.copies)
         \/ /\ a.phase = 1
            /\ task.op = "wait"
            /\ task.reg = <<"ack", DataPeer(o, k, r), r, c>>
            /\ b = Mark(a.crew, k, 2, a.turns, a.copies)
         \/ /\ a.phase = 2
            /\ task.op = "move"
            /\ TouchedBy(task.moves) \subseteq Cells
            /\ \A x \in TouchedBy(task.moves) :
                 /\ x[1] \in {r, DataPeer(o, k, r)}
                 /\ x[3] \in StepSlices(o, k, r)
                 /\ x[4] = c
            /\ Receipt(o, k, c, Target(o, k, r), task.moves)
            /\ b = Mark(a.crew, k, 3, a.turns, a.copies)
         \/ /\ a.phase = 3
            /\ task.op = "record"
            /\ task.reg = <<"data", r, DataPeer(o, k, r), c>>
            /\ b = Mark(a.crew, k, 4, a.turns, a.copies)
         \/ /\ a.phase = 4
            /\ task.op = "wait"
            /\ task.reg = <<"data", AckPeer(o, k, r), r, c>>
            /\ b = Mark(a.crew, k + 1, 0, a.turns, a.copies)

Follows(o, t, a, task, b) ==
  /\ task.step = a.step
  /\ task.phase = a.phase
  /\ \/ CrewTask(t, a, task, b)
     \/ LocalTask(o, t, a, task, b)
     \/ ChannelTask(o, t, a, task, b)

(* The marks f lead through the tasks s from a to b.                       *)
Marking(o, t, s, f, a, b) ==
  /\ f \in [1..(Len(s) + 1) -> Marks(o, t)]
  /\ f[1] = a
  /\ f[Len(s) + 1] = b
  /\ \A i \in 1..Len(s) : Follows(o, t, f[i], s[i], f[i + 1])

Moves == UNION {[D -> [src : Cells, reduce : BOOLEAN]] : D \in SUBSET Cells}
Kinds == {"ack", "data", "start", "finish", "none"}
Tasks == [op : {"record", "wait", "move"}, reg : Kinds \X Int \X Int \X Int,
          moves : Moves, step : Int, phase : Int]

(* The pieces of program that lead thread t from a to b.                   *)
Runs(o, t, a, b) == {s \in Seq(Tasks) : \E f : Marking(o, t, s, f, a, b)}

(* The marks of a whole program: they pass the rest after every round.     *)
Way(o, t) ==
  CHOOSE f :
    /\ Marking(o, t, Program[o][t], f, Rest(o, t, 0), Rest(o, t, Len(o.counts)))
    /\ \A l \in 0..Len(o.counts) : f[RoundEnd[o][t][l] + 1] = Rest(o, t, l)
-----------------------------------------------------------------------------

At(t) == Way(opt, t)[pc[t]]

Given(g) ==
  LET t == Recorder(g)
  IN  IF g[1] = "ack" THEN At(t).phase >= 1 /\ AckPeer(opt, At(t).step, t[1]) = g[3]
      ELSE g[4] \in At(t).crew

Taken(g) ==
  LET t == Waiter(g)
  IN  IF g[1] = "ack" THEN At(t).phase \in 2..3 /\ DataPeer(opt, At(t).step, t[1]) = g[2]
      ELSE g[4] \in At(t).crew

(* The two notifies of an exchange are set when they are due, and only     *)
(* then.                                                                   *)
Paired ==
  \A g \in Grants :
    /\ Taken(g) => Given(g)
    /\ g \in notified \/ Answer(g) \in notified <=> Given(g) /\ ~Taken(g)
    /\ ~(g \in notified /\ Answer(g) \in notified)

Past(t, k, e) == At(t).step > k \/ (At(t).step = k /\ At(t).phase > e)

(* The two ranks of a grant are in the same step when one waits for the    *)
(* other: x is the rank that asks, y the one that is asked.                *)
InStepAt(x, y, c, k) ==
  /\ Past(<<y, c>>, k, 1) => Past(<<x, c>>, k, 0)
  /\ Past(<<x, c>>, k, 4) => Past(<<y, c>>, k, 3)
  /\ At(<<x, c>>).step = k /\ <<"ack", x, y, c>> \in notified => ~Past(<<y, c>>, k, 1)
  /\ At(<<x, c>>).step = k /\ <<"data", y, x, c>> \in notified => Past(<<y, c>>, k, 3)

InStep ==
  \A c \in 1..Channels : \A x, y \in Ranks : \A k \in 1..Steps(opt) :
    AckPeer(opt, k, x) = y => InStepAt(x, y, c, k)

-----------------------------------------------------------------------------
(* Pieces of program *)

(* The empty program is a run.                                             *)
LEMMA NoTask ==
  ASSUME NEW o, NEW t, NEW a \in Marks(o, t)
  PROVE  <<>> \in Runs(o, t, a, a)
<1> DEFINE f == [i \in 1..1 |-> a]
<1>1. <<>> \in Seq(Tasks) /\ Len(<<>>) = 0
  BY EmptySeq
<1>2. Marking(o, t, <<>>, f, a, a)
  BY <1>1 DEF Marking
<1> QED BY <1>1, <1>2 DEF Runs

(* One task that Follows its mark is a run.                                *)
LEMMA OneTask ==
  ASSUME NEW o, NEW t, NEW a \in Marks(o, t), NEW b \in Marks(o, t), NEW task \in Tasks,
         Follows(o, t, a, task, b)
  PROVE  <<task>> \in Runs(o, t, a, b)
<1> DEFINE f == [i \in 1..2 |-> IF i = 1 THEN a ELSE b]
           s == <<task>>
<1>1. s \in Seq(Tasks) /\ Len(s) = 1 /\ s[1] = task
  OBVIOUS
<1>2. Marking(o, t, s, f, a, b)
  <2>1. f \in [1..(Len(s) + 1) -> Marks(o, t)] /\ f[1] = a /\ f[Len(s) + 1] = b
    BY <1>1
  <2>2. ASSUME NEW i \in 1..Len(s) PROVE Follows(o, t, f[i], s[i], f[i + 1])
    <3>1. i = 1 /\ f[i] = a /\ f[i + 1] = b
      BY <1>1
    <3> HIDE DEF f, s
    <3> QED BY <1>1, <3>1
  <2> HIDE DEF f, s
  <2> QED BY <2>1, <2>2 DEF Marking
<1> QED BY <1>1, <1>2 DEF Runs

(* The first n of two rows of marks are the same.                          *)
Agree(h, f, n) == \A i \in 1..n : h[i] = f[i]

(* Two pieces, one after the other.                                        *)
LEMMA ConcatMarks ==
  ASSUME NEW o, NEW t, NEW a, NEW b, NEW d, NEW p \in Seq(Tasks), NEW q \in Seq(Tasks),
         NEW f, Marking(o, t, p, f, a, b), NEW g, Marking(o, t, q, g, b, d)
  PROVE  /\ p \o q \in Seq(Tasks) /\ Len(p \o q) = Len(p) + Len(q) /\ Len(p) \in Nat /\ Len(q) \in Nat
         /\ \E h : Marking(o, t, p \o q, h, a, d) /\ Agree(h, f, Len(p) + 1)
<1> DEFINE s == p \o q
           m == Len(p)
           n == Len(q)
           h == [i \in 1..(m + n + 1) |-> IF i <= m THEN f[i] ELSE g[i - m]]
<1>4. m \in Nat /\ n \in Nat
  BY LenProperties
<1>5. /\ s \in Seq(Tasks) /\ Len(s) = m + n
      /\ \A i \in 1..(m + n) : s[i] = IF i <= m THEN p[i] ELSE q[i - m]
  BY ConcatProperties
<1>6. /\ f \in [1..(m + 1) -> Marks(o, t)] /\ f[1] = a /\ f[m + 1] = b
      /\ \A i \in 1..m : Follows(o, t, f[i], p[i], f[i + 1])
  BY DEF Marking
<1>7. /\ g \in [1..(n + 1) -> Marks(o, t)] /\ g[1] = b /\ g[n + 1] = d
      /\ \A i \in 1..n : Follows(o, t, g[i], q[i], g[i + 1])
  BY DEF Marking
<1> HIDE DEF s, m, n
<1>8. h \in [1..(m + n + 1) -> Marks(o, t)] /\ h[1] = a /\ h[m + n + 1] = d
  <2>1. ASSUME NEW i \in 1..(m + n + 1) PROVE h[i] \in Marks(o, t)
    <3>1. CASE i <= m
      BY <1>4, <1>6, <3>1
    <3>2. CASE ~(i <= m)
      <4>1. i - m \in 1..(n + 1)
        BY <1>4, <3>2
      <4> QED BY <1>4, <1>7, <3>2, <4>1
    <3> QED BY <3>1, <3>2
  <2>2. h[1] = a
    BY <1>4, <1>6, <1>7
  <2>3. h[m + n + 1] = d
    BY <1>4, <1>7
  <2> QED BY <2>1, <2>2, <2>3
<1>9. ASSUME NEW i \in 1..(m + n) PROVE Follows(o, t, h[i], s[i], h[i + 1])
  <2>1. CASE i <= m
    <3>1. i \in 1..m /\ h[i] = f[i] /\ s[i] = p[i]
      BY <1>4, <1>5, <2>1
    <3>2. h[i + 1] = f[i + 1]
      BY <1>4, <1>6, <1>7, <2>1
    <3> HIDE DEF h
    <3> QED BY <1>6, <3>1, <3>2
  <2>2. CASE ~(i <= m)
    <3>1. /\ i - m \in 1..n /\ h[i] = g[i - m] /\ s[i] = q[i - m]
          /\ h[i + 1] = g[(i - m) + 1]
      BY <1>4, <1>5, <2>2
    <3> HIDE DEF h
    <3> QED BY <1>7, <3>1
  <2> QED BY <2>1, <2>2
<1>10. Marking(o, t, s, h, a, d)
  <2> HIDE DEF h
  <2> QED BY <1>5, <1>8, <1>9 DEF Marking
<1>11. \A i \in 1..(m + 1) : h[i] = f[i]
  BY <1>4, <1>6, <1>7
<1> HIDE DEF h
<1> QED BY <1>4, <1>5, <1>10, <1>11 DEF s, m, n, Agree

(* Two runs, one after the other.                                          *)
LEMMA ConcatRuns ==
  ASSUME NEW o, NEW t, NEW a, NEW b, NEW d,
         NEW p \in Runs(o, t, a, b), NEW q \in Runs(o, t, b, d)
  PROVE  p \o q \in Runs(o, t, a, d)
<1>1. p \in Seq(Tasks) /\ q \in Seq(Tasks)
  BY DEF Runs
<1>2. PICK f : Marking(o, t, p, f, a, b)
  BY DEF Runs
<1>3. PICK g : Marking(o, t, q, g, b, d)
  BY DEF Runs
<1>4. p \o q \in Seq(Tasks) /\ \E h : Marking(o, t, p \o q, h, a, d)
  BY <1>1, <1>2, <1>3, ConcatMarks
<1> QED BY <1>4 DEF Runs

(* g[i] is the concatenation of the first i pieces of ss.                  *)
Joins(g, n, ss) ==
  /\ g[1] = ss[1]
  /\ \A i \in 2..n : g[i] = g[i - 1] \o ss[i]

(* FlattenSeq concatenates.                                                *)
LEMMA FlattenSteps ==
  ASSUME NEW n \in Nat \ {0}, NEW ss, Len(ss) = n
  PROVE  \E g : FlattenSeq(ss) = g[n] /\ Joins(g, n, ss)
<1> DEFINE Is(j, g) == g = [i \in 1..j |-> IF i = 1 THEN ss[i] ELSE g[i - 1] \o ss[i]]
           T == {j \in Nat : \E g : Is(j, g)}
<1>1. 0 \in T
  <2>1. Is(0, [i \in 1..0 |-> 0])
    OBVIOUS
  <2> QED BY <2>1
<1>2. ASSUME NEW j \in Nat, j \in T PROVE j + 1 \in T
  <2>1. PICK g : Is(j, g)
    BY <1>2
  <2> DEFINE h == [i \in 1..(j + 1) |-> IF i <= j THEN g[i]
                                        ELSE IF i = 1 THEN ss[i] ELSE g[i - 1] \o ss[i]]
  <2>2. ASSUME NEW i \in 1..(j + 1)
        PROVE  h[i] = IF i = 1 THEN ss[i] ELSE h[i - 1] \o ss[i]
    <3>1. CASE i <= j
      <4>1. h[i] = g[i] /\ i \in 1..j
        BY <3>1
      <4>2. g[i] = IF i = 1 THEN ss[i] ELSE g[i - 1] \o ss[i]
        BY <2>1, <4>1
      <4>3. i # 1 => h[i - 1] = g[i - 1]
        BY <3>1
      <4> HIDE DEF h
      <4> QED BY <4>1, <4>2, <4>3
    <3>2. CASE ~(i <= j)
      <4>1. i = j + 1 /\ (i # 1 => i - 1 \in 1..j)
        BY <3>2
      <4>2. h[i] = IF i = 1 THEN ss[i] ELSE g[i - 1] \o ss[i]
        BY <3>2
      <4>3. i # 1 => h[i - 1] = g[i - 1]
        BY <4>1
      <4> HIDE DEF h
      <4> QED BY <4>2, <4>3
    <3> QED BY <3>1, <3>2
  <2>3. DOMAIN h = 1..(j + 1) /\ h = [i \in 1..(j + 1) |-> h[i]]
    OBVIOUS
  <2>4. Is(j + 1, h)
    <3> HIDE DEF h
    <3> QED BY <2>2, <2>3
  <2> HIDE DEF Is
  <2> QED BY <2>4
<1>3. n \in T
  <2> HIDE DEF T
  <2> QED BY <1>1, <1>2, L!SetInduction, ScheduleSize, ZenonT(30)
<1> DEFINE fl == CHOOSE g : Is(n, g)
<1>4. Is(n, fl)
  BY <1>3
<1>5. FlattenSeq(ss) = fl[n]
  BY DEF FlattenSeq
<1>6. fl[1] = ss[1] /\ \A i \in 2..n : fl[i] = fl[i - 1] \o ss[i]
  <2> HIDE DEF fl
  <2>1. \A i \in 1..n : fl[i] = IF i = 1 THEN ss[i] ELSE fl[i - 1] \o ss[i]
    BY <1>4
  <2>2. 1 \in 1..n
    OBVIOUS
  <2>3. ASSUME NEW i \in 2..n PROVE fl[i] = fl[i - 1] \o ss[i]
    <3>1. i \in 1..n /\ i # 1
      OBVIOUS
    <3> QED BY <2>1, <3>1
  <2>4. fl[1] = ss[1]
    BY <2>1, <2>2
  <2> QED BY <2>3, <2>4
<1>7. Joins(fl, n, ss)
  <2> HIDE DEF fl
  <2> QED BY <1>6 DEF Joins
<1> QED BY <1>5, <1>7

(* Pieces, one after the other.                                            *)
LEMMA FlattenRuns ==
  ASSUME NEW o, NEW t, NEW n \in Nat \ {0}, NEW ss, Len(ss) = n, NEW P,
         \A i \in 1..n : ss[i] \in Runs(o, t, P[i], P[i + 1])
  PROVE  FlattenSeq(ss) \in Runs(o, t, P[1], P[n + 1])
<1>0. PICK g : FlattenSeq(ss) = g[n] /\ Joins(g, n, ss)
  BY FlattenSteps
<1>1. g[1] = ss[1] /\ \A i \in 2..n : g[i] = g[i - 1] \o ss[i]
  BY <1>0 DEF Joins
<1> DEFINE T == {j \in Nat : j \in 1..n => g[j] \in Runs(o, t, P[1], P[j + 1])}
<1>2. 0 \in T
  OBVIOUS
<1>3. ASSUME NEW j \in Nat, j \in T PROVE j + 1 \in T
  <2> SUFFICES ASSUME j + 1 \in 1..n
               PROVE  g[j + 1] \in Runs(o, t, P[1], P[(j + 1) + 1])
    OBVIOUS
  <2>1. ss[j + 1] \in Runs(o, t, P[j + 1], P[(j + 1) + 1])
    OBVIOUS
  <2>2. CASE j = 0
    <3>1. g[j + 1] = ss[j + 1] /\ P[j + 1] = P[1]
      BY <1>1, <2>2
    <3> QED BY <2>1, <3>1
  <2>3. CASE j # 0
    <3>1. j \in 1..n /\ j + 1 \in 2..n /\ (j + 1) - 1 = j
      BY <2>3
    <3>2. g[j + 1] = g[j] \o ss[j + 1]
      BY <1>1, <3>1
    <3>3. g[j] \in Runs(o, t, P[1], P[j + 1])
      BY <1>3, <3>1
    <3>4. g[j] \o ss[j + 1] \in Runs(o, t, P[1], P[(j + 1) + 1])
      BY <2>1, <3>3, ConcatRuns
    <3> QED BY <3>2, <3>4
  <2> QED BY <2>2, <2>3
<1>4. n \in T
  <2> HIDE DEF T
  <2> QED BY <1>2, <1>3, L!SetInduction, ScheduleSize
<1> QED BY <1>0, <1>4

(* Joining sequences one by one depends only on those joined so far.       *)
LEMMA SameJoins ==
  ASSUME NEW n \in Nat, NEW m \in 1..n, NEW ss, NEW tt, \A i \in 1..m : tt[i] = ss[i],
         NEW f, NEW g, Joins(f, m, tt), Joins(g, n, ss)
  PROVE  f[m] = g[m]
<1> DEFINE T == {j \in Nat : j \in 1..m => f[j] = g[j]}
<1>1. 0 \in T
  OBVIOUS
<1>2. ASSUME NEW j \in Nat, j \in T PROVE j + 1 \in T
  <2> SUFFICES ASSUME j + 1 \in 1..m PROVE f[j + 1] = g[j + 1]
    OBVIOUS
  <2>1. CASE j = 0
    BY <2>1 DEF Joins
  <2>2. CASE j # 0
    <3>1. j \in 1..m /\ j + 1 \in 2..m /\ j + 1 \in 2..n /\ (j + 1) - 1 = j
      BY <2>2
    <3>2. f[j + 1] = f[(j + 1) - 1] \o tt[j + 1] /\ g[j + 1] = g[(j + 1) - 1] \o ss[j + 1]
      BY <3>1 DEF Joins
    <3>3. f[j] = g[j]
      BY <1>2, <3>1
    <3> QED BY <3>1, <3>2, <3>3
  <2> QED BY <2>1, <2>2
<1>3. m \in T
  <2> HIDE DEF T
  <2> QED BY <1>1, <1>2, L!SetInduction, ScheduleSize
<1> QED BY <1>3

(* FlattenSeq joins one by one.                                            *)
LEMMA FlattenPrefix ==
  ASSUME NEW n \in Nat \ {0}, NEW ss, NEW g, Joins(g, n, ss), NEW m \in 1..n
  PROVE  FlattenSeq([i \in 1..m |-> ss[i]]) = g[m]
<1> DEFINE tt == [i \in 1..m |-> ss[i]]
<1>1. m \in Nat \ {0} /\ n \in Nat /\ Len(tt) = m /\ \A i \in 1..m : tt[i] = ss[i]
  OBVIOUS
<1> HIDE DEF tt
<1>2. PICK f : FlattenSeq(tt) = f[m] /\ Joins(f, m, tt)
  BY <1>1, FlattenSteps
<1>3. f[m] = g[m]
  <2>1. \A i \in 1..m : tt[i] = ss[i]
    BY <1>1
  <2>2. Joins(f, m, tt) /\ n \in Nat /\ m \in 1..n
    BY <1>1, <1>2
  <2> HIDE <1>1, <1>2
  <2> QED BY <2>1, <2>2, SameJoins
<1> QED BY <1>2, <1>3 DEF tt

(* The marks of the first j pieces of g, with stops where the pieces end.  *)
Stops(o, t, g, P, j) ==
  /\ g[j] \in Seq(Tasks)
  /\ \A m \in 1..j : Len(g[m]) \in Nat /\ Len(g[m]) <= Len(g[j])
  /\ \E f : /\ Marking(o, t, g[j], f, P[1], P[j + 1])
            /\ \A m \in 1..j : f[Len(g[m]) + 1] = P[m + 1]

(* A stretch of runs is extended by one.                                   *)
LEMMA NextStop ==
  ASSUME NEW o, NEW t, NEW g, NEW P, NEW j \in Nat \ {0}, Stops(o, t, g, P, j),
         NEW q \in Runs(o, t, P[j + 1], P[(j + 1) + 1]), g[j + 1] = g[j] \o q
  PROVE  Stops(o, t, g, P, j + 1)
<1> DEFINE p == g[j]
           a == P[1]
           b == P[j + 1]
           d == P[(j + 1) + 1]
<1>1. p \in Seq(Tasks) /\ \A m \in 1..j : Len(g[m]) \in Nat /\ Len(g[m]) <= Len(p)
  BY DEF Stops
<1>2. PICK f : Marking(o, t, p, f, a, b) /\ \A m \in 1..j : f[Len(g[m]) + 1] = P[m + 1]
  BY DEF Stops
<1>3. q \in Seq(Tasks)
  BY DEF Runs
<1>4. PICK e : Marking(o, t, q, e, b, d)
  BY DEF Runs
<1>5. g[j + 1] = p \o q
  OBVIOUS
<1>6. /\ p \o q \in Seq(Tasks) /\ Len(p \o q) = Len(p) + Len(q) /\ Len(p) \in Nat /\ Len(q) \in Nat
      /\ \E h : Marking(o, t, p \o q, h, a, d) /\ Agree(h, f, Len(p) + 1)
  <2>1. Marking(o, t, p, f, a, b) /\ p \in Seq(Tasks) /\ q \in Seq(Tasks) /\ Marking(o, t, q, e, b, d)
    BY <1>1, <1>2, <1>3, <1>4
  <2> HIDE DEF p, a, b, d
  <2> QED BY <2>1, ConcatMarks
<1>7. PICK h : Marking(o, t, p \o q, h, a, d) /\ Agree(h, f, Len(p) + 1)
  BY <1>6
<1>8. h[Len(p \o q) + 1] = d
  BY <1>7 DEF Marking
<1> DEFINE lp == Len(p)
           lq == Len(q)
           lpq == Len(p \o q)
<1>9. lp \in Nat /\ lq \in Nat /\ lpq = lp + lq
  BY <1>6
<1>10. ASSUME NEW m \in 1..j
       PROVE  Len(g[m]) \in Nat /\ Len(g[m]) <= lpq /\ h[Len(g[m]) + 1] = P[m + 1]
  <2> DEFINE lm == Len(g[m])
  <2>1. lm \in Nat /\ lm <= lp /\ f[lm + 1] = P[m + 1]
    BY <1>1, <1>2
  <2>2. \A i \in 1..(lp + 1) : h[i] = f[i]
    BY <1>7 DEF Agree
  <2> HIDE DEF lm, lp, lq, lpq
  <2>3. lm <= lpq /\ lm + 1 \in 1..(lp + 1)
    BY <1>9, <2>1
  <2> QED BY <2>1, <2>2, <2>3 DEF lm
<1>11. ASSUME NEW m \in 1..(j + 1)
       PROVE  Len(g[m]) \in Nat /\ Len(g[m]) <= Len(g[j + 1]) /\ h[Len(g[m]) + 1] = P[m + 1]
  <2>1. CASE m = j + 1
    <3>1. g[m] = p \o q /\ P[m + 1] = d
      BY <1>5, <2>1
    <3>2. lpq \in Nat /\ lpq <= lpq
      BY <1>9
    <3> QED BY <1>5, <1>8, <3>1, <3>2
  <2>2. CASE m # j + 1
    <3>1. m \in 1..j
      BY <2>2
    <3> QED BY <1>5, <1>10, <3>1
  <2> QED BY <2>1, <2>2
<1>12. Marking(o, t, g[j + 1], h, P[1], P[(j + 1) + 1]) /\ g[j + 1] \in Seq(Tasks)
  BY <1>5, <1>6, <1>7
<1> HIDE DEF p, a, b, d, lp, lq, lpq
<1> QED BY <1>11, <1>12 DEF Stops

(* The first m pieces of ss, and marks f that pass P where pieces end.     *)
Prefix(ss, m) == FlattenSeq([i \in 1..m |-> ss[i]])

StopsAt(f, ss, P, n) ==
  \A m \in 1..n :
    /\ Len(Prefix(ss, m)) \in Nat /\ Len(Prefix(ss, m)) <= Len(FlattenSeq(ss))
    /\ f[Len(Prefix(ss, m)) + 1] = P[m + 1]

(* A sequence of runs in which each starts where the last one ended is one *)
(* run, and it passes their ends on its way.                               *)
LEMMA FlattenStops ==
  ASSUME NEW o, NEW t, NEW n \in Nat \ {0}, NEW ss, Len(ss) = n, NEW P,
         \A i \in 1..n : ss[i] \in Runs(o, t, P[i], P[i + 1])
  PROVE  /\ FlattenSeq(ss) \in Seq(Tasks)
         /\ \E f : Marking(o, t, FlattenSeq(ss), f, P[1], P[n + 1]) /\ StopsAt(f, ss, P, n)
<1>1. PICK g : FlattenSeq(ss) = g[n] /\ Joins(g, n, ss)
  BY FlattenSteps
<1>2. ASSUME NEW m \in 1..n PROVE Prefix(ss, m) = g[m]
  BY <1>1, FlattenPrefix DEF Prefix
<1> DEFINE T == {j \in Nat : j \in 1..n => Stops(o, t, g, P, j)}
<1>3. 0 \in T
  OBVIOUS
<1>4. ASSUME NEW j \in Nat, j \in T PROVE j + 1 \in T
  <2> SUFFICES ASSUME j + 1 \in 1..n PROVE Stops(o, t, g, P, j + 1)
    OBVIOUS
  <2>1. ss[j + 1] \in Runs(o, t, P[j + 1], P[(j + 1) + 1])
    OBVIOUS
  <2>2. CASE j = 0
    <3>1. g[1] = ss[1] /\ j + 1 = 1
      BY <1>1, <2>2 DEF Joins
    <3>2. ss[1] \in Seq(Tasks)
      BY <2>1, <3>1 DEF Runs
    <3>3. PICK e : Marking(o, t, ss[1], e, P[1], P[1 + 1])
      BY <2>1, <3>1 DEF Runs
    <3>4. e[Len(ss[1]) + 1] = P[1 + 1]
      BY <3>3 DEF Marking
    <3>5. Len(ss[1]) \in Nat
      BY <3>2, LenProperties
    <3>6. Stops(o, t, g, P, 1)
      BY <3>1, <3>2, <3>3, <3>4, <3>5 DEF Stops
    <3> QED BY <3>1, <3>6
  <2>3. CASE j # 0
    <3>1. j \in 1..n /\ j \in Nat \ {0} /\ j + 1 \in 2..n /\ (j + 1) - 1 = j
      BY <2>3
    <3>2. g[j + 1] = g[j] \o ss[j + 1]
      BY <1>1, <3>1 DEF Joins
    <3>3. Stops(o, t, g, P, j)
      BY <1>4, <3>1
    <3> HIDE <1>4
    <3> QED BY <2>1, <3>1, <3>2, <3>3, NextStop
  <2> QED BY <2>2, <2>3
<1>5. n \in T
  <2> HIDE DEF T
  <2> QED BY <1>3, <1>4, L!SetInduction, ScheduleSize
<1>6. Stops(o, t, g, P, n)
  BY <1>5
<1>7. /\ g[n] \in Seq(Tasks)
      /\ \A m \in 1..n : Len(g[m]) \in Nat /\ Len(g[m]) <= Len(g[n])
      /\ \E f : /\ Marking(o, t, g[n], f, P[1], P[n + 1])
                /\ \A m \in 1..n : f[Len(g[m]) + 1] = P[m + 1]
  BY <1>6 DEF Stops
<1>8. PICK f : Marking(o, t, g[n], f, P[1], P[n + 1]) /\ \A m \in 1..n : f[Len(g[m]) + 1] = P[m + 1]
  BY <1>7
<1>9. StopsAt(f, ss, P, n)
  BY <1>1, <1>2, <1>7, <1>8 DEF StopsAt
<1> QED BY <1>1, <1>7, <1>8, <1>9

-----------------------------------------------------------------------------
(* The schedule *)

(* Evaluated changes nothing.                                              *)
LEMMA EvaluatedIs == ASSUME NEW f PROVE Evaluated(f) = f
BY DEF Evaluated

(* The number of steps, the threads and the ranks.                         *)
LEMMA Sizes ==
  /\ N \in Nat \ {0, 1} /\ N \in Nat \ {0} /\ U32 \in Nat /\ 4 * N < U32
  /\ StepNum \in Nat \ {0}
  /\ StepNum = L!S(N)!StepNum
  /\ Channels \in Nat \ {0}
<1>1. N \in Nat \ {0, 1} /\ N \in Nat \ {0} /\ U32 \in Nat /\ 4 * N < U32 /\ Channels \in Nat \ {0}
  BY ScheduleSize, NHRAssumption
<1>2. StepNum = L!S(N)!StepNum
  BY DEF StepNum, L!S!StepNum
<1>3. L!S(N)!StepNum \in 1..N
  BY <1>1, L!StepNumIs, ScheduleSize
<1> QED BY <1>1, <1>2, <1>3

(* The rounds of an operator.                                              *)
LEMMA Calls ==
  ASSUME NEW o \in Options
  PROVE  /\ Len(o.counts) \in Nat \ {0}
         /\ Loops(o) = 1..Len(o.counts)
         /\ \A l \in Loops(o) : l \in 1..MaxRounds
         /\ Steps(o) \in Nat \ {0}
<1>1. Len(o.counts) \in 1..MaxRounds
  BY NHRAssumption DEF LegalOption
<1>2. Len(o.counts) \in Nat \ {0}
  BY <1>1
<1>3. Steps(o) \in Nat \ {0}
  BY <1>2, Sizes DEF Steps
<1>4. \A l \in Loops(o) : l \in 1..MaxRounds
  BY <1>1, NHRAssumption DEF Loops
<1> QED BY <1>2, <1>3, <1>4 DEF Loops

(* The remainder of a value in a window of the length of the ring.         *)
LEMMA Remainder ==
  ASSUME NEW a \in Nat, NEW m \in Nat \ {0}, NEW i \in 0..(m - 1)
  PROVE  (a * m + i) % m = i
<1> DEFINE x == a * m + i
           q == x \div m
<1>1. x \in Nat
  OBVIOUS
<1>2. q \in Int /\ x = m * q + (x % m) /\ x % m \in 0..(m - 1)
  <2> HIDE DEF x
  <2> QED BY <1>1
<1>3. m * (q - a) = i - (x % m)
  BY <1>2
<1>4. q - a = 0
  <2> DEFINE z == q - a
  <2>1. z \in Int /\ m * z < m /\ -m < m * z
    BY <1>2, <1>3
  <2> HIDE DEF z, q, x
  <2>2. z >= 1 => m * z >= m * 1
    BY <2>1, L!TimesMonotone, ScheduleSize
  <2>3. z <= -1 => m * (-z) >= m * 1
    BY <2>1, L!TimesMonotone, ScheduleSize
  <2>4. m * (-z) = -(m * z) /\ m * 1 = m
    BY <2>1
  <2> QED BY <2>1, <2>2, <2>3, <2>4 DEF z
<1>5. i - (x % m) = 0
  BY <1>3, <1>4
<1> QED BY <1>2, <1>5

(* The steps of round l, the ReduceScatter first.                          *)
LEMMA RoundSteps ==
  ASSUME NEW o \in Options, NEW l \in Loops(o), NEW i \in 0..(2 * StepNum - 1)
  PROVE  /\ FirstStep(l) + i \in 1..Steps(o)
         /\ Gathers(FirstStep(l) + i) <=> i >= StepNum
         /\ StepOf(FirstStep(l) + i) = IF i >= StepNum THEN i - StepNum ELSE i
         /\ FirstStep(l) \in 1..Steps(o)
         /\ FirstStep(l + 1) = FirstStep(l) + 2 * StepNum
         /\ FirstStep(l + 1) \in 1..(Steps(o) + 1)
<1> DEFINE m == 2 * StepNum
           len == Len(o.counts)
           a == l - 1
           k == FirstStep(l) + i
<1>1. StepNum \in Nat \ {0} /\ len \in Nat \ {0} /\ l \in 1..len /\ Steps(o) = m * len
  BY Sizes, Calls DEF Steps
<1>2. m \in Nat \ {0} /\ a \in Nat /\ i \in 0..(m - 1) /\ a + 1 <= len
  BY <1>1
<1>3. FirstStep(l) = a * m + 1 /\ FirstStep(l + 1) = l * m + 1
  BY <1>1 DEF FirstStep
<1>4. l * m = a * m + m
  BY <1>1
<1>5. k - 1 = a * m + i
  BY <1>1, <1>2, <1>3
<1>6. l * m <= m * len
  <2> HIDE DEF m, len
  <2> QED BY <1>1, <1>2, L!TimesMonotone, ScheduleSize
<1>7. (k - 1) % m = i
  <2> HIDE DEF m, a, k
  <2> QED BY <1>2, <1>5, Remainder
<1>8. (k - 1) % StepNum = IF i >= StepNum THEN i - StepNum ELSE i
  <2>1. CASE i >= StepNum
    <3>1. k - 1 = (2 * a + 1) * StepNum + (i - StepNum)
      BY <1>1, <1>2, <1>5
    <3>2. 2 * a + 1 \in Nat /\ i - StepNum \in 0..(StepNum - 1)
      BY <1>1, <1>2, <2>1
    <3> HIDE DEF k, a
    <3> QED BY <1>1, <2>1, <3>1, <3>2, Remainder
  <2>2. CASE ~(i >= StepNum)
    <3>1. k - 1 = (2 * a) * StepNum + i
      BY <1>1, <1>2, <1>5
    <3>2. 2 * a \in Nat /\ i \in 0..(StepNum - 1)
      BY <1>1, <1>2, <2>2
    <3> HIDE DEF k, a
    <3> QED BY <1>1, <2>2, <3>1, <3>2, Remainder
  <2> QED BY <2>1, <2>2
<1>9. a * m \in Nat
  BY <1>2
<1>10. /\ k \in 1..Steps(o)
       /\ FirstStep(l) \in 1..Steps(o)
       /\ FirstStep(l + 1) = FirstStep(l) + m
       /\ FirstStep(l + 1) \in 1..(Steps(o) + 1)
  <2> DEFINE am == a * m
  <2>1. am \in Nat /\ am + m <= Steps(o) /\ Steps(o) \in Nat
    <3>1. Steps(o) \in Nat /\ Steps(o) = m * len
      BY <1>1, Calls
    <3> HIDE DEF m, len
    <3> QED BY <1>2, <1>4, <1>6, <1>9, <3>1
  <2>2. k = am + 1 + i /\ FirstStep(l) = am + 1 /\ FirstStep(l + 1) = am + m + 1
    BY <1>3, <1>4
  <2> HIDE DEF k, am, m
  <2> QED BY <1>2, <2>1, <2>2
<1> QED BY <1>7, <1>8, <1>10 DEF Gathers, StepOf

(* The first step of every round and the last one of the operator.         *)
LEMMA FirstAndLast ==
  ASSUME NEW o \in Options
  PROVE  FirstStep(1) = 1 /\ FirstStep(Len(o.counts) + 1) = Steps(o) + 1
BY Sizes, Calls DEF FirstStep, Steps

(* The place of a step in its round.                                       *)
LEMMA StepPlace ==
  ASSUME NEW k \in Nat \ {0}
  PROVE  StepOf(k) \in 0..(StepNum - 1)
BY Sizes DEF StepOf

(* The tables of NHR: the two peers of a rank and the slices of a step.    *)
LEMMA Tables ==
  ASSUME NEW o \in Options, NEW k \in 1..Steps(o)
  PROVE  /\ HandshakeMode[o][k] =
              IF ~Gathers(k) THEN IF o.dmaRead THEN "read" ELSE "write"
              ELSE IF o.symmetric \/ o.dmaRead \/ StepOf(k) = StepNum - 1 THEN "read" ELSE "write"
         /\ \A r \in Ranks :
              /\ HandshakeTx[o][k][r] = IF Gathers(k) THEN GatherTo(StepOf(k), r)
                                        ELSE ScatterTo(StepOf(k), r)
              /\ HandshakeRx[o][k][r] = IF Gathers(k) THEN GatherFrom(StepOf(k), r)
                                        ELSE ScatterFrom(StepOf(k), r)
<1>1. HandshakeMode = [x \in Options |-> [j \in 1..Steps(x) |->
         IF ~Gathers(j) THEN IF x.dmaRead THEN "read" ELSE "write"
         ELSE IF x.symmetric \/ x.dmaRead \/ StepOf(j) = StepNum - 1 THEN "read" ELSE "write"]]
  BY EvaluatedIs DEF HandshakeMode, Steps
<1>2. k \in DOMAIN HandshakeMode[o]
  BY <1>1
<1>3. ASSUME NEW r \in Ranks
      PROVE  HandshakeTx[o][k][r] = IF Gathers(k) THEN GatherTo(StepOf(k), r)
                                    ELSE ScatterTo(StepOf(k), r)
  <2> DEFINE e(j, x) == IF Gathers(j) THEN GatherTo(StepOf(j), x) ELSE ScatterTo(StepOf(j), x)
             row(j)  == Evaluated([x \in Ranks |-> e(j, x)])
             tab(p)  == Evaluated([j \in DOMAIN HandshakeMode[p] |-> row(j)])
  <2>1. HandshakeTx = Evaluated([p \in Options |-> tab(p)])
    BY DEF HandshakeTx, PeerTable
  <2>2. row(k)[r] = e(k, r)
    <3> HIDE DEF e
    <3> QED BY EvaluatedIs
  <2> HIDE DEF row
  <2>3. tab(o)[k] = row(k)
    BY <1>2, EvaluatedIs
  <2> HIDE DEF tab
  <2>4. HandshakeTx[o] = tab(o)
    BY <2>1, EvaluatedIs
  <2> QED BY <2>2, <2>3, <2>4
<1>4. ASSUME NEW r \in Ranks
      PROVE  HandshakeRx[o][k][r] = IF Gathers(k) THEN GatherFrom(StepOf(k), r)
                                    ELSE ScatterFrom(StepOf(k), r)
  <2> DEFINE e(j, x) == IF Gathers(j) THEN GatherFrom(StepOf(j), x) ELSE ScatterFrom(StepOf(j), x)
             row(j)  == Evaluated([x \in Ranks |-> e(j, x)])
             tab(p)  == Evaluated([j \in DOMAIN HandshakeMode[p] |-> row(j)])
  <2>1. HandshakeRx = Evaluated([p \in Options |-> tab(p)])
    BY DEF HandshakeRx, PeerTable
  <2>2. row(k)[r] = e(k, r)
    <3> HIDE DEF e
    <3> QED BY EvaluatedIs
  <2> HIDE DEF row
  <2>3. tab(o)[k] = row(k)
    BY <1>2, EvaluatedIs
  <2> HIDE DEF tab
  <2>4. HandshakeRx[o] = tab(o)
    BY <2>1, EvaluatedIs
  <2> QED BY <2>2, <2>3, <2>4
<1> QED BY <1>1, <1>3, <1>4

(* Up and down the ring by the same distance.                              *)
LEMMA UpAndDown ==
  ASSUME NEW r \in Ranks, NEW d \in 1..(N - 1)
  PROVE  /\ Below(r, d) \in Ranks /\ Above(Below(r, d), d) = r /\ Below(r, d) # r
         /\ Above(r, d) \in Ranks /\ Below(Above(r, d), d) = r /\ Above(r, d) # r
<1>1. ASSUME NEW x \in 0..(N - 1)
      PROVE  /\ Below(x, d) = IF d <= x THEN x - d ELSE x + N - d
             /\ Above(x, d) = IF x + d < N THEN x + d ELSE x + d - N
  <2>1. /\ L!S(N)!Below(x, d) = IF d <= x THEN x - d ELSE x + N - d
        /\ L!S(N)!Above(x, d) = IF x + d < N THEN x + d ELSE x + d - N
    BY Sizes, L!Neighbours, ScheduleSize
  <2> QED BY <2>1 DEF Below, Above, L!S!Below, L!S!Above
<1> DEFINE b == Below(r, d)
           a == Above(r, d)
<1>2. /\ b = IF d <= r THEN r - d ELSE r + N - d
      /\ a = IF r + d < N THEN r + d ELSE r + d - N
  BY <1>1 DEF Ranks
<1> HIDE DEF a, b
<1>3. N \in Nat \ {0} /\ r \in 0..(N - 1) /\ d \in 1..(N - 1)
  BY Sizes DEF Ranks
<1>4. a \in 0..(N - 1) /\ b \in 0..(N - 1) /\ a # r /\ b # r
  BY <1>2, <1>3
<1>5. /\ Above(b, d) = IF b + d < N THEN b + d ELSE b + d - N
      /\ Below(a, d) = IF d <= a THEN a - d ELSE a + N - d
  BY <1>1, <1>4
<1>6. Above(b, d) = r /\ Below(a, d) = r
  BY <1>2, <1>3, <1>4, <1>5
<1> QED BY <1>4, <1>6 DEF Ranks, a, b

(* Two ranks a distance apart have no slice in common in that step.        *)
LEMMA SlicesApart ==
  ASSUME NEW r \in Ranks, NEW d \in 1..(N - 1)
  PROVE  /\ SliceSet(r, d) \subseteq Slices
         /\ SliceSet(r, d) \cap SliceSet(Below(r, d), d) = {}
<1> DEFINE Member(x, s) == L!Multiple(2 * d, L!Off(N, x, s)) /\ L!Off(N, x, s) + d < N
           b == Below(r, d)
<1>1. N \in Nat \ {0, 1} /\ N \in Nat \ {0} /\ U32 \in Nat /\ 4 * N < U32 /\ d \in Nat \ {0}
  BY Sizes
<1>2. ASSUME NEW x \in 0..(N - 1)
      PROVE  SliceSet(x, d) = {s \in 0..(N - 1) : Member(x, s)}
  <2>1. L!S(N)!SliceSet(x, d) = {s \in 0..(N - 1) : Member(x, s)}
    BY <1>1, L!SliceSetIs, ScheduleSize
  <2>2. L!S(N)!SliceSet(x, d) = SliceSet(x, d)
    BY DEF L!S!SliceSet, SliceSet, L!S!SliceIdx, SliceIdx, L!S!SliceNum, SliceNum
  <2> QED BY <2>1, <2>2
<1>3. b \in 0..(N - 1) /\ r \in 0..(N - 1)
  BY UpAndDown DEF Ranks
<1>4. ASSUME NEW s \in 0..(N - 1), Member(r, s), Member(b, s)
      PROVE  FALSE
  <2> DEFINE p == L!Off(N, r, s)
             q == L!Off(N, b, s)
  <2>1. L!S(N)!Below(r, d) = b
    BY DEF L!S!Below, Below
  <2>2. p = q + d
    BY <1>1, <1>3, <1>4, <2>1, L!OffNeighbours, ScheduleSize
  <2>3. p \in Nat /\ q \in Nat
    BY <1>1, <1>3 DEF L!Off
  <2>4. \A x \in Nat : L!Multiple(2 * d, x) => \E i \in Nat : x = (2 * d) * i
    BY DEF L!Multiple
  <2>10. PICK i \in Nat : p = (2 * d) * i
    BY <1>4, <2>3, <2>4
  <2>11. PICK j \in Nat : q = (2 * d) * j
    BY <1>4, <2>3, <2>4
  <2> DEFINE e == 2 * d
  <2>5. e * i = e * j + d /\ e \in Nat /\ d < e /\ e * (j + 1) = e * j + e
    BY <1>1, <2>2, <2>10, <2>11
  <2>6. i <= j => e * i <= e * j
    <3> HIDE DEF e
    <3> QED BY <2>5, L!TimesMonotone, ScheduleSize
  <2>7. j + 1 <= i => e * (j + 1) <= e * i
    <3> HIDE DEF e
    <3> QED BY <2>5, L!TimesMonotone, ScheduleSize
  <2>8. i <= j \/ j + 1 <= i
    OBVIOUS
  <2>9. e * i \in Nat /\ e * j \in Nat
    BY <2>5
  <2> HIDE DEF e
  <2> QED BY <1>1, <2>5, <2>6, <2>7, <2>8, <2>9
<1> HIDE DEF Member
<1>5. SliceSet(r, d) = {s \in 0..(N - 1) : Member(r, s)} /\ SliceSet(b, d) = {s \in 0..(N - 1) : Member(b, s)}
  BY <1>2, <1>3
<1> QED BY <1>4, <1>5 DEF Slices

(* The distance of a step is less than the ring and a power of two.        *)
LEMMA Distances ==
  ASSUME NEW i \in 0..(StepNum - 1)
  PROVE  ScatterDistance(i) \in 1..(N - 1) /\ GatherDistance(i) \in 1..(N - 1)
<1>1. \A j \in 0..(StepNum - 1) : 2^j \in 1..(N - 1)
  BY Sizes, L!Distance, ScheduleSize
<1>2. StepNum - 1 - i \in 0..(StepNum - 1)
  BY Sizes
<1> QED BY <1>1, <1>2 DEF ScatterDistance, GatherDistance

(* The peers of a step are mutual, and its two transfers at one rank are   *)
(* about different slices.                                                 *)
LEMMA Peers ==
  ASSUME NEW o \in Options, NEW k \in 1..Steps(o), NEW r \in Ranks
  PROVE  /\ AckPeer(o, k, r) \in Ranks /\ DataPeer(o, k, AckPeer(o, k, r)) = r
         /\ DataPeer(o, k, r) \in Ranks /\ AckPeer(o, k, DataPeer(o, k, r)) = r
         /\ AckPeer(o, k, r) # r /\ DataPeer(o, k, r) # r
         /\ StepSlices(o, k, r) \subseteq Slices
         /\ StepSlices(o, k, r) \cap StepSlices(o, k, DataPeer(o, k, r)) = {}
<1> DEFINE i == StepOf(k)
           d == IF Gathers(k) THEN GatherDistance(i) ELSE ScatterDistance(i)
           tx(x) == IF Gathers(k) THEN GatherTo(i, x) ELSE ScatterTo(i, x)
           rx(x) == IF Gathers(k) THEN GatherFrom(i, x) ELSE ScatterFrom(i, x)
<1>1. k \in Nat \ {0}
  BY Calls
<1>2. i \in 0..(StepNum - 1)
  BY <1>1, StepPlace
<1>3. d \in 1..(N - 1)
  BY <1>2, Distances
<1>4. \A x \in Ranks : /\ tx(x) = IF Gathers(k) THEN Above(x, d) ELSE Below(x, d)
                       /\ rx(x) = IF Gathers(k) THEN Below(x, d) ELSE Above(x, d)
  BY DEF GatherTo, ScatterTo, GatherFrom, ScatterFrom
<1>5. \A x \in Ranks : HandshakeTx[o][k][x] = tx(x) /\ HandshakeRx[o][k][x] = rx(x)
  BY Tables
<1>6. \A x \in Ranks :
        StepSlices(o, k, x) = IF HandshakeMode[o][k] = "write"
                              THEN IF Gathers(k) THEN SliceSet(x, d) ELSE SliceSet(tx(x), d)
                              ELSE IF Gathers(k) THEN SliceSet(rx(x), d) ELSE SliceSet(x, d)
  BY DEF StepSlices, GatherTx, GatherRx, ScatterTx, ScatterRx
<1> HIDE DEF d, i, tx, rx
<1>7. \A x \in Ranks : /\ Below(x, d) \in Ranks /\ Above(Below(x, d), d) = x /\ Below(x, d) # x
                       /\ Above(x, d) \in Ranks /\ Below(Above(x, d), d) = x /\ Above(x, d) # x
  BY <1>3, UpAndDown
<1>8. \A x \in Ranks : SliceSet(x, d) \subseteq Slices /\ SliceSet(x, d) \cap SliceSet(Below(x, d), d) = {}
  BY <1>3, SlicesApart
<1>9. /\ AckPeer(o, k, r) \in Ranks /\ DataPeer(o, k, AckPeer(o, k, r)) = r
      /\ DataPeer(o, k, r) \in Ranks /\ AckPeer(o, k, DataPeer(o, k, r)) = r
      /\ AckPeer(o, k, r) # r /\ DataPeer(o, k, r) # r
  BY <1>4, <1>5, <1>7 DEF AckPeer, DataPeer
<1>10. StepSlices(o, k, r) \subseteq Slices
  BY <1>4, <1>6, <1>7, <1>8
<1>11. StepSlices(o, k, r) \cap StepSlices(o, k, DataPeer(o, k, r)) = {}
  <2>1. CASE HandshakeMode[o][k] = "write"
    BY <1>4, <1>5, <1>6, <1>7, <1>8, <2>1 DEF DataPeer
  <2>2. CASE ~(HandshakeMode[o][k] = "write")
    BY <1>4, <1>5, <1>6, <1>7, <1>8, <2>2 DEF DataPeer
  <2> QED BY <2>1, <2>2
<1> QED BY <1>9, <1>10, <1>11

-----------------------------------------------------------------------------
(* The legs of a thread *)

(* The legs of a thread: where they start and how long they are.           *)
LEMMA LegFacts ==
  ASSUME NEW o \in Options, NEW q \in 1..Legs(o)
  PROVE  /\ Legs(o) \in Nat \ {0} /\ LegSteps(o) \in Nat \ {0} /\ q \in Nat \ {0}
         /\ LegStart(o, q) \in 1..Steps(o)
         /\ LegStart(o, q + 1) = LegStart(o, q) + LegSteps(o)
         /\ LegStart(o, q + 1) \in 1..(Steps(o) + 1)
<1>1. StepNum \in Nat \ {0} /\ Len(o.counts) \in Nat \ {0} /\ Steps(o) = 2 * StepNum * Len(o.counts)
  BY Sizes, Calls DEF Steps
<1>2. Legs(o) \in Nat \ {0} /\ LegSteps(o) \in Nat \ {0} /\ Steps(o) = Legs(o) * LegSteps(o)
  <2>1. CASE o.symmetric
    <3>1. Len(o.counts) = 1
      BY <2>1, NHRAssumption DEF LegalOption
    <3>2. Legs(o) = 2 /\ LegSteps(o) = StepNum /\ Steps(o) = (2 * StepNum) * 1
      BY <1>1, <2>1, <3>1 DEF Legs, LegSteps
    <3>3. (2 * StepNum) * 1 = 2 * StepNum /\ 2 * StepNum = Legs(o) * LegSteps(o)
      BY <1>1, <3>2
    <3>4. Steps(o) = Legs(o) * LegSteps(o)
      BY <3>2, <3>3, Zenon
    <3>5. Legs(o) \in Nat \ {0} /\ LegSteps(o) \in Nat \ {0}
      BY <1>1, <3>2
    <3> QED BY <3>4, <3>5
  <2>2. CASE ~o.symmetric
    <3>1. Legs(o) = Len(o.counts) /\ LegSteps(o) = 2 * StepNum
      BY <2>2 DEF Legs, LegSteps
    <3> DEFINE m == 2 * StepNum
               n == Len(o.counts)
    <3>2. m \in Nat \ {0} /\ n \in Nat \ {0} /\ Steps(o) = m * n
      BY <1>1
    <3>3. Legs(o) = n /\ LegSteps(o) = m
      BY <3>1
    <3> HIDE DEF m, n
    <3>4. m * n = n * m
      BY <3>2
    <3> QED BY <3>2, <3>3, <3>4
  <2> QED BY <2>1, <2>2
<1> DEFINE a == q - 1
           s == LegSteps(o)
           n == Legs(o)
<1>3. a \in Nat /\ a + 1 <= n /\ a + 1 \in Nat /\ s \in Nat \ {0} /\ n \in Nat /\ a + 1 = q
  BY <1>2
<1>4. LegStart(o, q) = a * s + 1 /\ LegStart(o, q + 1) = (a + 1) * s + 1
  BY <1>3 DEF LegStart
<1> HIDE DEF a, s, n
<1>5. (a + 1) * s = a * s + s /\ a * s \in Nat
  BY <1>3
<1>6. s * (a + 1) <= s * n
  BY <1>3, L!TimesMonotone, ScheduleSize
<1>7. s * (a + 1) = (a + 1) * s /\ s * n = Steps(o)
  BY <1>2, <1>3 DEF s, n
<1>8. /\ LegStart(o, q) \in 1..Steps(o)
      /\ LegStart(o, q + 1) = LegStart(o, q) + s
      /\ LegStart(o, q + 1) \in 1..(Steps(o) + 1)
  BY <1>3, <1>4, <1>5, <1>6, <1>7
<1> QED BY <1>2, <1>8 DEF s

(* A later leg begins after an earlier one has ended.                      *)
LEMMA LegOrder ==
  ASSUME NEW o \in Options, NEW p \in 1..Legs(o), NEW q \in 1..Legs(o), p < q
  PROVE  LegStart(o, p + 1) <= LegStart(o, q)
<1>1. LegSteps(o) \in Nat /\ p \in Nat /\ q - 1 \in Nat /\ p <= q - 1
  BY LegFacts
<1>2. LegSteps(o) * p <= LegSteps(o) * (q - 1)
  BY <1>1, L!TimesMonotone, ScheduleSize
<1>3. LegStart(o, p + 1) = LegSteps(o) * p + 1 /\ LegStart(o, q) = LegSteps(o) * (q - 1) + 1
  BY <1>1 DEF LegStart
<1> QED BY <1>1, <1>2, <1>3

(* The legs of round l: its ReduceScatter and its AllGather.               *)
ScatterLeg(o, l) == IF o.symmetric THEN 1 ELSE l
GatherLeg(o, l)  == IF o.symmetric THEN 2 ELSE l

(* The legs that a round's two halves belong to.                           *)
LEMMA RoundLegs ==
  ASSUME NEW o \in Options, NEW l \in Loops(o)
  PROVE  /\ ScatterLeg(o, l) \in 1..Legs(o) /\ GatherLeg(o, l) \in 1..Legs(o)
         /\ LegStart(o, ScatterLeg(o, l)) = FirstStep(l)
         /\ LegStart(o, GatherLeg(o, l) + 1) = FirstStep(l + 1)
         /\ FirstStep(l + 1) = FirstStep(l) + 2 * StepNum
         /\ o.symmetric => /\ l = 1
                           /\ LegStart(o, 2) = FirstStep(l) + StepNum
                           /\ LegSteps(o) = StepNum
         /\ ~o.symmetric => LegSteps(o) = 2 * StepNum
<1>1. StepNum \in Nat \ {0} /\ l \in 1..Len(o.counts) /\ Len(o.counts) \in Nat
  BY Sizes, Calls
<1>2. 0 \in 0..(2 * StepNum - 1)
  BY <1>1
<1>3. FirstStep(l + 1) = FirstStep(l) + 2 * StepNum
  BY <1>2, RoundSteps
<1>4. CASE o.symmetric
  <2>1. Len(o.counts) = 1
    BY <1>4, NHRAssumption DEF LegalOption
  <2>2. l = 1 /\ FirstStep(l) = 1
    BY <1>1, <2>1 DEF FirstStep
  <2>3. ScatterLeg(o, l) = 1 /\ GatherLeg(o, l) = 2 /\ Legs(o) = 2 /\ LegSteps(o) = StepNum
    BY <1>4 DEF ScatterLeg, GatherLeg, Legs, LegSteps
  <2>4. LegStart(o, 1) = 1 /\ LegStart(o, 2) = StepNum + 1 /\ LegStart(o, 2 + 1) = 2 * StepNum + 1
    BY <1>1, <2>3 DEF LegStart
  <2> QED BY <1>1, <1>3, <1>4, <2>2, <2>3, <2>4
<1>5. CASE ~o.symmetric
  <2>1. ScatterLeg(o, l) = l /\ GatherLeg(o, l) = l /\ Legs(o) = Len(o.counts) /\ LegSteps(o) = 2 * StepNum
    BY <1>5 DEF ScatterLeg, GatherLeg, Legs, LegSteps
  <2>2. LegStart(o, l) = (l - 1) * (2 * StepNum) + 1 /\ LegStart(o, l + 1) = ((l + 1) - 1) * (2 * StepNum) + 1
    BY <2>1 DEF LegStart
  <2>3. FirstStep(l) = (l - 1) * 2 * StepNum + 1 /\ FirstStep(l + 1) = ((l + 1) - 1) * 2 * StepNum + 1
    BY DEF FirstStep
  <2>4. (l - 1) * (2 * StepNum) = (l - 1) * 2 * StepNum /\ ((l + 1) - 1) * (2 * StepNum) = ((l + 1) - 1) * 2 * StepNum
    BY <1>1
  <2> QED BY <1>1, <1>3, <1>5, <2>1, <2>2, <2>3, <2>4
<1> QED BY <1>4, <1>5

-----------------------------------------------------------------------------
(* The programs *)

(* A thread is the main one of its rank or another one of it.              *)
LEMMA ThreadFacts ==
  ASSUME NEW t \in Threads
  PROVE  /\ t[1] \in Ranks /\ t[2] \in 1..Channels /\ t = <<t[1], t[2]>>
         /\ t[2] # 1 => t[2] \in 2..Channels
BY Sizes DEF Threads

(* What the fields of a mark are.                                          *)
LEMMA MarkRange ==
  ASSUME NEW o, NEW t, NEW a \in Marks(o, t)
  PROVE  /\ a.crew \in SUBSET (2..Channels) /\ a.step \in 1..(Steps(o) + 1) /\ a.phase \in 0..4
         /\ a.turns \in [Crew(t) -> Nat] /\ a.copies \in Nat
         /\ \E q \in 1..Legs(o) : OfLeg(o, t, q, a)
BY DEF Marks

(* The marks that a thread's tasks start and end with.                     *)
LEMMA MarkFacts ==
  ASSUME NEW o \in Options, NEW t \in Threads, NEW q \in 1..Legs(o)
  PROVE  /\ Crew(t) \in SUBSET (2..Channels)
         /\ \A crew \in SUBSET Crew(t) :
              Entering(o, t, q, crew) \in Marks(o, t) /\ Leaving(o, t, q, crew) \in Marks(o, t)
         /\ \A k \in Int, p \in 0..4 : InLeg(o, q, k, p) =>
              Inside(o, t, q, k, p) \in Marks(o, t) /\ Manned(t, Inside(o, t, q, k, p))
<1> DEFINE R == [crew : SUBSET (2..Channels), step : 1..(Steps(o) + 1), phase : 0..4,
                 turns : [Crew(t) -> Nat], copies : Nat]
<1>1. Crew(t) \in SUBSET (2..Channels)
  BY ThreadFacts DEF Crew
<1>2. /\ LegStart(o, q) \in 1..(Steps(o) + 1) /\ LegStart(o, q + 1) \in 1..(Steps(o) + 1)
      /\ q \in Nat /\ q >= 1 /\ Steps(o) \in Nat
  BY LegFacts, Calls
<1>3. Copied(o, t, q) \in Nat /\ 2 * q - 1 \in Nat /\ 2 * q - 2 \in Nat /\ 2 * q \in Nat
  BY <1>2 DEF Copied
<1>4. ASSUME NEW crew \in SUBSET Crew(t)
      PROVE  Entering(o, t, q, crew) \in R /\ Leaving(o, t, q, crew) \in R
  <2>1. /\ [i \in Crew(t) |-> IF i \in crew THEN 2 * q - 1 ELSE 2 * q - 2] \in [Crew(t) -> Nat]
        /\ [i \in Crew(t) |-> IF i \in crew THEN 2 * q - 1 ELSE 2 * q] \in [Crew(t) -> Nat]
    BY <1>3
  <2>2. crew \in SUBSET (2..Channels) /\ 0 \in 0..4
    BY <1>1
  <2> QED BY <1>2, <1>3, <2>1, <2>2 DEF Entering, Leaving, Mark
<1>5. ASSUME NEW k \in Int, NEW p \in 0..4, InLeg(o, q, k, p)
      PROVE  Inside(o, t, q, k, p) \in R /\ k \in Nat
  <2>1. [i \in Crew(t) |-> 2 * q - 1] \in [Crew(t) -> Nat]
    BY <1>3
  <2>2. k \in 1..(Steps(o) + 1)
    BY <1>2, <1>5 DEF InLeg
  <2> QED BY <1>1, <1>3, <2>1, <2>2 DEF Inside, Mark
<1>6. \A k, p : Manned(t, Inside(o, t, q, k, p))
  BY DEF Manned, Inside, Mark, Crew
<1> QED BY <1>1, <1>4, <1>5, <1>6 DEF Marks, OfLeg

(* One more of the crew starts or finishes.                                *)
LEMMA CrewTurn ==
  ASSUME NEW o \in Options, NEW t \in Threads, NEW q \in 1..Legs(o),
         NEW crew \in SUBSET Crew(t), NEW i \in Crew(t)
  PROVE  /\ i \notin crew =>
              LET a == Entering(o, t, q, crew)
              IN  /\ a.crew = crew /\ a.step = LegStart(o, q) /\ a.phase = 0
                  /\ Entering(o, t, q, crew \cup {i}) =
                       Mark(a.crew \cup {i}, a.step, 0, [a.turns EXCEPT ![i] = @ + 1], a.copies)
         /\ i \in crew =>
              LET a == Leaving(o, t, q, crew)
              IN  /\ a.crew = crew /\ a.step = LegStart(o, q + 1) /\ a.phase = 0
                  /\ Leaving(o, t, q, crew \ {i}) =
                       Mark(a.crew \ {i}, a.step, 0, [a.turns EXCEPT ![i] = @ + 1], a.copies)
<1>1. q \in Nat
  BY LegFacts
<1>2. ASSUME i \notin crew
      PROVE  [[j \in Crew(t) |-> IF j \in crew THEN 2 * q - 1 ELSE 2 * q - 2] EXCEPT ![i] = @ + 1] =
               [j \in Crew(t) |-> IF j \in crew \cup {i} THEN 2 * q - 1 ELSE 2 * q - 2]
  <2> DEFINE f == [j \in Crew(t) |-> IF j \in crew THEN 2 * q - 1 ELSE 2 * q - 2]
  <2>1. f[i] + 1 = 2 * q - 1
    BY <1>1, <1>2
  <2>2. [f EXCEPT ![i] = f[i] + 1] = [j \in Crew(t) |-> IF j = i THEN f[i] + 1 ELSE f[j]]
    OBVIOUS
  <2> QED BY <2>1, <2>2
<1>3. ASSUME i \in crew
      PROVE  [[j \in Crew(t) |-> IF j \in crew THEN 2 * q - 1 ELSE 2 * q] EXCEPT ![i] = @ + 1] =
               [j \in Crew(t) |-> IF j \in crew \ {i} THEN 2 * q - 1 ELSE 2 * q]
  <2> DEFINE f == [j \in Crew(t) |-> IF j \in crew THEN 2 * q - 1 ELSE 2 * q]
  <2>1. f[i] + 1 = 2 * q
    BY <1>1, <1>3
  <2>2. [f EXCEPT ![i] = f[i] + 1] = [j \in Crew(t) |-> IF j = i THEN f[i] + 1 ELSE f[j]]
    OBVIOUS
  <2> QED BY <2>1, <2>2
<1>4. ASSUME i \notin crew
      PROVE  LET a == Entering(o, t, q, crew)
              IN  /\ a.crew = crew /\ a.step = LegStart(o, q) /\ a.phase = 0
                  /\ Entering(o, t, q, crew \cup {i}) =
                       Mark(a.crew \cup {i}, a.step, 0, [a.turns EXCEPT ![i] = @ + 1], a.copies)
  BY <1>2, <1>4 DEF Entering, Mark
<1>5. ASSUME i \in crew
      PROVE  LET a == Leaving(o, t, q, crew)
              IN  /\ a.crew = crew /\ a.step = LegStart(o, q + 1) /\ a.phase = 0
                  /\ Leaving(o, t, q, crew \ {i}) =
                       Mark(a.crew \ {i}, a.step, 0, [a.turns EXCEPT ![i] = @ + 1], a.copies)
  BY <1>3, <1>5 DEF Leaving, Mark
<1> QED BY <1>4, <1>5

(* Where two forms of a mark are the same.                                 *)
LEMMA SameMarks ==
  ASSUME NEW o \in Options, NEW t \in Threads, NEW q \in 1..Legs(o)
  PROVE  /\ o.symmetric =>
              /\ Entering(o, t, q, Crew(t)) = Inside(o, t, q, LegStart(o, q), 0)
              /\ Leaving(o, t, q, Crew(t)) = Inside(o, t, q, LegStart(o, q + 1), 0)
              /\ t[2] # 1 => Leaving(o, t, q, {}) = Entering(o, t, q + 1, {})
         /\ ~o.symmetric => Leaving(o, t, q, {}) = Entering(o, t, q + 1, {})
<1>1. q \in Nat /\ 2 * (q + 1) - 2 = 2 * q
  BY LegFacts
<1>2. /\ \A x, y : [i \in Crew(t) |-> IF i \in Crew(t) THEN x ELSE y] = [i \in Crew(t) |-> x]
      /\ \A x, y : [i \in Crew(t) |-> IF i \in {} THEN x ELSE y] = [i \in Crew(t) |-> y]
  OBVIOUS
<1>3. /\ o.symmetric => Copied(o, t, q) = IF t[2] = 1 THEN q - 1 ELSE 0
      /\ o.symmetric => Copied(o, t, q + 1) = IF t[2] = 1 THEN (q + 1) - 1 ELSE 0
      /\ ~o.symmetric => Copied(o, t, q) = 2 * q - 2 /\ Copied(o, t, q + 1) = 2 * (q + 1) - 2
  BY DEF Copied
<1> QED BY <1>1, <1>2, <1>3 DEF Entering, Leaving, Inside, Mark

(* A local copy makes the next mark.                                       *)
LEMMA CopyTurn ==
  ASSUME NEW o \in Options, NEW t \in Threads, NEW l \in Loops(o), NEW a, NEW task,
         LocalCopy(o, t, l, a, task)
  PROVE  LET b == Mark(a.crew, a.step, 0, a.turns, a.copies + 1)
         IN  /\ a.phase = 0 /\ Manned(t, a)
             /\ ~o.symmetric /\ PreCopy(o, l, t[1], t[2]) = <<task>> /\ a = Entering(o, t, l, Crew(t)) =>
                  b = Inside(o, t, l, FirstStep(l), 0)
             /\ ~o.symmetric /\ PostCopy(o, l, t[1], t[2]) = <<task>> /\ a = Inside(o, t, l, FirstStep(l + 1), 0) =>
                  b = Leaving(o, t, l, Crew(t))
             /\ o.symmetric => b = Entering(o, t, 2, {})
<1> DEFINE b == Mark(a.crew, a.step, 0, a.turns, a.copies + 1)
<1>1. /\ ScatterLeg(o, l) \in 1..Legs(o) /\ LegStart(o, ScatterLeg(o, l)) = FirstStep(l)
      /\ LegStart(o, GatherLeg(o, l) + 1) = FirstStep(l + 1)
      /\ l \in Nat
  BY RoundLegs, Calls
<1>2. a.phase = 0 /\ Manned(t, a)
  BY DEF LocalCopy, Entering, Leaving, Inside, Mark, Manned, Crew
<1>3. /\ \A x, y : [i \in Crew(t) |-> IF i \in Crew(t) THEN x ELSE y] = [i \in Crew(t) |-> x]
      /\ \A x, y : [i \in Crew(t) |-> IF i \in {} THEN x ELSE y] = [i \in Crew(t) |-> y]
  OBVIOUS
<1>4. ASSUME ~o.symmetric, a = Entering(o, t, l, Crew(t))
      PROVE  b = Inside(o, t, l, FirstStep(l), 0)
  <2>1. LegStart(o, l) = FirstStep(l) /\ Copied(o, t, l) + 1 = 2 * l - 1
    BY <1>1, <1>4 DEF ScatterLeg, Copied
  <2> QED BY <1>3, <1>4, <2>1 DEF Entering, Inside, Mark
<1>5. ASSUME ~o.symmetric, a = Inside(o, t, l, FirstStep(l + 1), 0)
      PROVE  b = Leaving(o, t, l, Crew(t))
  <2>1. LegStart(o, l + 1) = FirstStep(l + 1) /\ (2 * l - 1) + 1 = 2 * l
    BY <1>1, <1>5 DEF GatherLeg
  <2> QED BY <1>3, <1>5, <2>1 DEF Leaving, Inside, Mark
<1>6. ASSUME o.symmetric
      PROVE  b = Entering(o, t, 2, {})
  <2>1. t[2] = 1 /\ a = Leaving(o, t, 1, {})
    BY <1>6 DEF LocalCopy
  <2>2. Copied(o, t, 1) + 1 = Copied(o, t, 2) /\ 2 * 2 - 2 = 2 * 1 /\ 1 + 1 = 2
    BY <1>6, <2>1 DEF Copied
  <2> QED BY <1>3, <1>6, <2>1, <2>2 DEF Leaving, Entering, Mark
<1> QED BY <1>2, <1>4, <1>5, <1>6

(* Records and waits are tasks.                                            *)
LEMMA TaskTypes ==
  ASSUME NEW x \in Ranks, NEW y \in Ranks, NEW c \in 1..Channels, NEW k \in Int, NEW p \in 0..4
  PROVE  /\ \A kind \in Kinds : Record(kind, x, y, c, k, p) \in Tasks
         /\ \A kind \in Kinds : Wait(kind, x, y, c, k, p) \in Tasks
         /\ \A moves \in Moves : Move(moves, k, p) \in Tasks
<1>1. NoMoves \in Moves
  <2>1. NoMoves \in [{} -> [src : Cells, reduce : BOOLEAN]] /\ {} \in SUBSET Cells
    BY DEF NoMoves
  <2> QED BY <2>1 DEF Moves
<1>2. x \in Int /\ y \in Int /\ c \in Int
  BY Sizes DEF Ranks
<1>3. <<"none", 0, 0, 0>> \in Kinds \X Int \X Int \X Int
  BY DEF Kinds
<1>4. \A kind \in Kinds : <<kind, x, y, c>> \in Kinds \X Int \X Int \X Int
  BY <1>2
<1> HIDE DEF Kinds
<1>5. \A moves \in Moves : Move(moves, k, p) \in Tasks
  BY <1>3 DEF Move, Task, Tasks
<1>6. ASSUME NEW kind \in Kinds
      PROVE  Record(kind, x, y, c, k, p) \in Tasks /\ Wait(kind, x, y, c, k, p) \in Tasks
  BY <1>1, <1>4 DEF Record, Wait, Task, Tasks
<1> QED BY <1>5, <1>6

(* The buffers of an operator are buffers.                                 *)
LEMMA BufferTypes ==
  ASSUME NEW o \in Options, NEW l \in Loops(o)
  PROVE  Ccl \in Buffers /\ In(l) \in Buffers /\ Out(o, l) \in Buffers
BY Calls DEF Buffers, Ccl, In, Out

(* The moves touch only cells of these ranks, slices and channel.          *)
Within(moves, ranks, slices, c) ==
  /\ moves \in Moves
  /\ TouchedBy(moves) \subseteq Cells
  /\ \A x \in TouchedBy(moves) : x[1] \in ranks /\ x[3] \in slices /\ x[4] = c

(* The cells that a copy moves.                                            *)
LEMMA CopyFacts ==
  ASSUME NEW r \in Ranks, NEW q \in Ranks, NEW a \in Buffers, NEW b \in Buffers,
         NEW slices \in SUBSET Slices, NEW c \in 1..Channels, NEW reduce \in BOOLEAN
  PROVE  Within(Copy(r, a, q, b, slices, c, reduce), {r, q}, slices, c)
<1> DEFINE D == {<<r, a, s, c>> : s \in slices}
           moves == Copy(r, a, q, b, slices, c, reduce)
<1>1. D \in SUBSET Cells
  BY DEF Cells
<1>2. \A x \in D : x[3] \in slices /\ x[1] = r /\ x[4] = c
  OBVIOUS
<1>3. moves = [x \in D |-> [src |-> <<q, b, x[3], c>>, reduce |-> reduce]]
  BY DEF Copy
<1> HIDE DEF D, moves
<1>4. \A x \in D : <<q, b, x[3], c>> \in Cells
  BY <1>2 DEF Cells
<1>5. moves \in [D -> [src : Cells, reduce : BOOLEAN]]
  BY <1>3, <1>4
<1>6. moves \in Moves
  BY <1>1, <1>5 DEF Moves
<1>7. DOMAIN moves = D /\ \A x \in D : moves[x].src = <<q, b, x[3], c>>
  BY <1>3
<1>8. TouchedBy(moves) \subseteq Cells
  BY <1>1, <1>4, <1>7 DEF TouchedBy
<1>9. ASSUME NEW x \in TouchedBy(moves)
      PROVE  x[1] \in {r, q} /\ x[3] \in slices /\ x[4] = c
  BY <1>2, <1>7 DEF TouchedBy
<1>10. Within(moves, {r, q}, slices, c)
  BY <1>6, <1>8, <1>9 DEF Within
<1> QED BY <1>10 DEF moves

(* A step of the handshake.                                                *)
LEMMA HandshakeRun ==
  ASSUME NEW o \in Options, NEW t \in Threads, NEW q \in 1..Legs(o),
         NEW k \in LegStart(o, q)..(LegStart(o, q + 1) - 1), NEW moves \in Moves,
         Receipt(o, k, t[2], Target(o, k, t[1]), moves),
         TouchedBy(moves) \subseteq Cells,
         \A x \in TouchedBy(moves) :
           x[1] \in {t[1], DataPeer(o, k, t[1])} /\ x[3] \in StepSlices(o, k, t[1]) /\ x[4] = t[2]
  PROVE  LET r  == t[1]
             c  == t[2]
             ap == AckPeer(o, k, r)
             dp == DataPeer(o, k, r)
         IN  << Record("ack", r, ap, c, k, 0),
                Wait("ack", dp, r, c, k, 1),
                Move(moves, k, 2),
                Record("data", r, dp, c, k, 3),
                Wait("data", ap, r, c, k, 4) >> \in Runs(o, t, Inside(o, t, q, k, 0), Inside(o, t, q, k + 1, 0))
<1> DEFINE r  == t[1]
           c  == t[2]
           ap == AckPeer(o, k, r)
           dp == DataPeer(o, k, r)
           t1 == Record("ack", r, ap, c, k, 0)
           t2 == Wait("ack", dp, r, c, k, 1)
           t3 == Move(moves, k, 2)
           t4 == Record("data", r, dp, c, k, 3)
           t5 == Wait("data", ap, r, c, k, 4)
           s  == <<t1, t2, t3, t4, t5>>
           M(p) == Inside(o, t, q, k, p)
           N1 == Inside(o, t, q, k + 1, 0)
           f  == [i \in 1..6 |-> IF i = 6 THEN N1 ELSE M(i - 1)]
<1>0. k \in 1..Steps(o) /\ InLeg(o, q, k + 1, 0) /\ \A p \in 0..4 : InLeg(o, q, k, p)
  <2>1. /\ LegStart(o, q) \in 1..Steps(o) /\ LegStart(o, q + 1) \in 1..(Steps(o) + 1)
        /\ Steps(o) \in Nat
    BY LegFacts, Calls
  <2> QED BY <2>1 DEF InLeg
<1>1. r \in Ranks /\ c \in 1..Channels /\ ap \in Ranks /\ dp \in Ranks
  BY <1>0, ThreadFacts, Peers
<1>2. Steps(o) \in Nat /\ k \in Int /\ k + 1 \in Int /\ k <= Steps(o)
  BY <1>0, Calls
<1>3. t1 \in Tasks /\ t2 \in Tasks /\ t3 \in Tasks /\ t4 \in Tasks /\ t5 \in Tasks
  <2>1. "ack" \in Kinds /\ "data" \in Kinds
    BY DEF Kinds
  <2> QED BY <1>1, <1>2, <2>1, TaskTypes
<1>4. /\ N1 \in Marks(o, t) /\ \A p \in 0..4 : M(p) \in Marks(o, t) /\ Manned(t, M(p))
      /\ \A p \in 0..4 : M(p).step = k /\ M(p).phase = p
      /\ \A p, x \in 0..4 : M(x) = Mark(M(p).crew, k, x, M(p).turns, M(p).copies)
      /\ \A p \in 0..4 : N1 = Mark(M(p).crew, k + 1, 0, M(p).turns, M(p).copies)
  <2>1. N1 \in Marks(o, t) /\ \A p \in 0..4 : M(p) \in Marks(o, t) /\ Manned(t, M(p))
    BY <1>0, <1>2, MarkFacts
  <2>2. /\ \A p \in 0..4 : M(p).step = k /\ M(p).phase = p
        /\ \A p, x \in 0..4 : M(x) = Mark(M(p).crew, k, x, M(p).turns, M(p).copies)
        /\ \A p \in 0..4 : N1 = Mark(M(p).crew, k + 1, 0, M(p).turns, M(p).copies)
    BY DEF Inside, Mark
  <2> QED BY <2>1, <2>2
<1> HIDE DEF M, N1
<1>5. Follows(o, t, M(0), t1, M(1))
  BY <1>2, <1>4 DEF Follows, ChannelTask, Record, Task
<1>6. Follows(o, t, M(1), t2, M(2))
  BY <1>2, <1>4 DEF Follows, ChannelTask, Wait, Task
<1>7. Follows(o, t, M(2), t3, M(3))
  BY <1>2, <1>4 DEF Follows, ChannelTask, Move, Task
<1>8. Follows(o, t, M(3), t4, M(4))
  BY <1>2, <1>4 DEF Follows, ChannelTask, Record, Task
<1>9. Follows(o, t, M(4), t5, N1)
  <2>1. N1 = Mark(M(4).crew, k + 1, 0, M(4).turns, M(4).copies)
    BY <1>4
  <2>2. M(4).step = k /\ M(4).phase = 4
    BY <1>4
  <2>3. t5.op = "wait" /\ t5.reg = <<"data", ap, r, c>> /\ t5.step = k /\ t5.phase = 4
    BY DEF Wait, Task
  <2> HIDE DEF t5
  <2> QED BY <1>2, <1>4, <2>1, <2>2, <2>3 DEF Follows, ChannelTask
<1> HIDE DEF t1, t2, t3, t4, t5
<1>10. s \in Seq(Tasks) /\ Len(s) = 5
  BY <1>3
<1>11. f \in [1..(5 + 1) -> Marks(o, t)] /\ f[1] = M(0) /\ f[5 + 1] = N1
  BY <1>4
<1>12. ASSUME NEW i \in 1..5 PROVE Follows(o, t, f[i], s[i], f[i + 1])
  <2>1. i = 1 \/ i = 2 \/ i = 3 \/ i = 4 \/ i = 5
    OBVIOUS
  <2>2. /\ f[1] = M(0) /\ f[2] = M(1) /\ f[3] = M(2) /\ f[4] = M(3) /\ f[5] = M(4) /\ f[6] = N1
        /\ s[1] = t1 /\ s[2] = t2 /\ s[3] = t3 /\ s[4] = t4 /\ s[5] = t5
    OBVIOUS
  <2> HIDE DEF f, s
  <2> QED BY <1>5, <1>6, <1>7, <1>8, <1>9, <2>1, <2>2
<1> HIDE DEF f
<1>13. s \in Runs(o, t, M(0), N1)
  <2> HIDE DEF s
  <2> QED BY <1>10, <1>11, <1>12 DEF Runs, Marking
<1> QED BY <1>13 DEF t1, t2, t3, t4, t5, M, N1

(* The other threads start.                                                *)
LEMMA PreSyncRun ==
  ASSUME NEW o \in Options, NEW t \in Threads, NEW q \in 1..Legs(o)
  PROVE  PreSyncInterThreads(t[1], t[2], LegStart(o, q))
           \in Runs(o, t, Entering(o, t, q, {}), Entering(o, t, q, Crew(t)))
<1> DEFINE r == t[1]
           k == LegStart(o, q)
           E(crew) == Entering(o, t, q, crew)
           s == PreSyncInterThreads(r, t[2], k)
<1>1. r \in Ranks /\ t[2] \in 1..Channels /\ k \in Int /\ Channels \in Nat \ {0}
  BY ThreadFacts, Sizes, LegFacts
<1>0. /\ \A crew \in SUBSET Crew(t) : /\ E(crew) \in Marks(o, t)
                                     /\ E(crew).crew = crew /\ E(crew).step = k /\ E(crew).phase = 0
      /\ \A crew \in SUBSET Crew(t) : \A i \in Crew(t) \ crew :
           E(crew \cup {i}) = Mark(E(crew).crew \cup {i}, E(crew).step, 0,
                                  [E(crew).turns EXCEPT ![i] = @ + 1], E(crew).copies)
  <2>1. \A crew \in SUBSET Crew(t) : E(crew) \in Marks(o, t)
    BY MarkFacts
  <2>2. \A crew : E(crew).crew = crew /\ E(crew).step = k /\ E(crew).phase = 0
    BY DEF Entering, Mark
  <2>3. \A crew \in SUBSET Crew(t) : \A i \in Crew(t) \ crew :
           E(crew \cup {i}) = Mark(E(crew).crew \cup {i}, E(crew).step, 0,
                                  [E(crew).turns EXCEPT ![i] = @ + 1], E(crew).copies)
    BY CrewTurn, ZenonT(30)
  <2> QED BY <2>1, <2>2, <2>3
<1> HIDE DEF E, k
<1>2. CASE t[2] = 1
  <2> DEFINE f == [i \in 1..Channels |-> E(2..i)]
  <2>1. s = [i \in 1..(Channels - 1) |-> Record("start", r, r, i + 1, k, 0)]
    BY <1>1, <1>2 DEF PreSyncInterThreads, Subs
  <2>2. \A i \in 1..(Channels - 1) : Record("start", r, r, i + 1, k, 0) \in Tasks
    <3>1. \A i \in 1..(Channels - 1) : i + 1 \in 1..Channels
      BY <1>1
    <3>2. "start" \in Kinds /\ 0 \in 0..4
      BY DEF Kinds
    <3> QED BY <1>1, <3>1, <3>2, TaskTypes
  <2>3. s \in Seq(Tasks) /\ Len(s) = Channels - 1
    BY <1>1, <2>1, <2>2
  <2>4. f \in [1..Channels -> Marks(o, t)]
    <3>1. \A i \in 1..Channels : 2..i \in SUBSET Crew(t)
      BY <1>1, <1>2 DEF Crew
    <3> QED BY <1>0, <3>1
  <2>5. f[1] = E({}) /\ f[Channels] = E(Crew(t))
    <3>1. 2..1 = {}
      OBVIOUS
    <3> QED BY <1>1, <1>2, <3>1 DEF Crew
  <2>6. ASSUME NEW i \in 1..(Channels - 1)
        PROVE  Follows(o, t, f[i], s[i], f[i + 1])
    <3>1. s[i] = Record("start", r, r, i + 1, k, 0)
      BY <2>1
    <3>2. i + 1 \in 2..Channels /\ i + 1 \notin 2..i /\ 2..(i + 1) = (2..i) \cup {i + 1}
      BY <1>1
    <3> DEFINE a == E(2..i)
               b == E((2..i) \cup {i + 1})
    <3>3. f[i] = a /\ f[i + 1] = b
      <4>1. f[i] = E(2..i) /\ f[i + 1] = E(2..(i + 1))
        BY <1>1
      <4> QED BY <3>2, <4>1
    <3>4. /\ a.crew = 2..i /\ a.step = k /\ a.phase = 0
          /\ b = Mark(a.crew \cup {i + 1}, a.step, 0, [a.turns EXCEPT ![i + 1] = @ + 1], a.copies)
      <4>1. 2..i \in SUBSET Crew(t) /\ i + 1 \in Crew(t) \ (2..i)
        BY <1>1, <1>2, <3>2 DEF Crew
      <4> QED BY <1>0, <4>1
    <3>5. /\ s[i].op = "record" /\ s[i].reg = <<"start", r, r, i + 1>>
          /\ s[i].step = k /\ s[i].phase = 0
      BY <3>1 DEF Record, Task
    <3> HIDE DEF a, b, f, s
    <3>6. CrewTask(t, a, s[i], b)
      BY <1>2, <3>2, <3>4, <3>5 DEF CrewTask
    <3> QED BY <3>3, <3>4, <3>5, <3>6 DEF Follows
  <2>7. Channels = (Channels - 1) + 1
    BY <1>1
  <2> HIDE DEF f, s
  <2>8. Marking(o, t, s, f, E({}), E(Crew(t)))
    BY <2>3, <2>4, <2>5, <2>6, <2>7 DEF Marking
  <2>9. s \in Runs(o, t, E({}), E(Crew(t)))
    BY <2>3, <2>8 DEF Runs
  <2> QED BY <2>9 DEF s, E, k
<1>3. CASE t[2] # 1
  <2> DEFINE task == Wait("start", r, r, t[2], k, 0)
  <2>1. s = <<task>>
    BY <1>3 DEF PreSyncInterThreads
  <2>2. task \in Tasks
    <3>1. "start" \in Kinds /\ 0 \in 0..4
      BY DEF Kinds
    <3> QED BY <1>1, <3>1, TaskTypes
  <2>3. t[2] \in 2..Channels /\ Crew(t) = {t[2]} /\ {} \cup {t[2]} = {t[2]}
    BY <1>1, <1>3 DEF Crew
  <2> DEFINE a == E({})
             b == E(Crew(t))
  <2>4. Follows(o, t, a, task, b)
    <3>1. /\ a.crew = {} /\ a.phase = 0 /\ a.step = k
          /\ b = Mark(a.crew \cup {t[2]}, a.step, 0, [a.turns EXCEPT ![t[2]] = @ + 1], a.copies)
      <4>1. {} \in SUBSET Crew(t) /\ t[2] \in Crew(t) \ {} /\ Crew(t) = {} \cup {t[2]}
        BY <2>3
      <4>2. E({} \cup {t[2]}) = Mark(a.crew \cup {t[2]}, a.step, 0, [a.turns EXCEPT ![t[2]] = @ + 1], a.copies)
        BY <1>0, <4>1
      <4> QED BY <1>0, <4>1, <4>2
    <3>2. /\ task.op = "wait" /\ task.reg = <<"start", r, r, t[2]>>
          /\ task.step = k /\ task.phase = 0
      BY DEF Wait, Task
    <3> HIDE DEF a, b, task
    <3>3. CrewTask(t, a, task, b)
      BY <1>3, <2>3, <3>1, <3>2 DEF CrewTask
    <3> QED BY <3>1, <3>2, <3>3 DEF Follows
  <2>5. a \in Marks(o, t) /\ b \in Marks(o, t)
    BY <1>0
  <2> HIDE DEF task, s, a, b
  <2>6. <<task>> \in Runs(o, t, a, b)
    BY <2>2, <2>4, <2>5, OneTask
  <2> QED BY <2>1, <2>6 DEF s, a, b, E, k
<1> QED BY <1>2, <1>3

(* The other threads finish.                                               *)
LEMMA PostSyncRun ==
  ASSUME NEW o \in Options, NEW t \in Threads, NEW q \in 1..Legs(o)
  PROVE  PostSyncInterThreads(t[1], t[2], LegStart(o, q + 1))
           \in Runs(o, t, Leaving(o, t, q, Crew(t)), Leaving(o, t, q, {}))
<1> DEFINE r == t[1]
           k == LegStart(o, q + 1)
           E(crew) == Leaving(o, t, q, crew)
           s == PostSyncInterThreads(r, t[2], k)
<1>1. r \in Ranks /\ t[2] \in 1..Channels /\ k \in Int /\ Channels \in Nat \ {0}
  BY ThreadFacts, Sizes, LegFacts
<1>0. /\ \A crew \in SUBSET Crew(t) : /\ E(crew) \in Marks(o, t)
                                     /\ E(crew).crew = crew /\ E(crew).step = k /\ E(crew).phase = 0
      /\ \A crew \in SUBSET Crew(t) : \A i \in crew :
           E(crew \ {i}) = Mark(E(crew).crew \ {i}, E(crew).step, 0,
                                [E(crew).turns EXCEPT ![i] = @ + 1], E(crew).copies)
  <2>1. \A crew \in SUBSET Crew(t) : E(crew) \in Marks(o, t)
    BY MarkFacts
  <2>2. \A crew : E(crew).crew = crew /\ E(crew).step = k /\ E(crew).phase = 0
    BY DEF Leaving, Mark
  <2>3. \A crew \in SUBSET Crew(t) : \A i \in crew :
           E(crew \ {i}) = Mark(E(crew).crew \ {i}, E(crew).step, 0,
                                [E(crew).turns EXCEPT ![i] = @ + 1], E(crew).copies)
    BY CrewTurn, ZenonT(30)
  <2> QED BY <2>1, <2>2, <2>3
<1> HIDE DEF E, k
<1>2. CASE t[2] = 1
  <2> DEFINE f == [i \in 1..Channels |-> E((i + 1)..Channels)]
  <2>1. s = [i \in 1..(Channels - 1) |-> Wait("finish", r, r, i + 1, k, 0)]
    BY <1>1, <1>2 DEF PostSyncInterThreads, Subs
  <2>2. \A i \in 1..(Channels - 1) : Wait("finish", r, r, i + 1, k, 0) \in Tasks
    <3>1. \A i \in 1..(Channels - 1) : i + 1 \in 1..Channels
      BY <1>1
    <3>2. "finish" \in Kinds /\ 0 \in 0..4
      BY DEF Kinds
    <3> QED BY <1>1, <3>1, <3>2, TaskTypes
  <2>3. s \in Seq(Tasks) /\ Len(s) = Channels - 1
    BY <1>1, <2>1, <2>2
  <2>4. f \in [1..Channels -> Marks(o, t)]
    <3>1. \A i \in 1..Channels : (i + 1)..Channels \in SUBSET Crew(t)
      BY <1>1, <1>2 DEF Crew
    <3> QED BY <1>0, <3>1
  <2>5. f[1] = E(Crew(t)) /\ f[Channels] = E({})
    <3>1. (Channels + 1)..Channels = {} /\ 1 + 1 = 2
      BY <1>1
    <3> QED BY <1>1, <1>2, <3>1 DEF Crew
  <2>6. ASSUME NEW i \in 1..(Channels - 1)
        PROVE  Follows(o, t, f[i], s[i], f[i + 1])
    <3>1. s[i] = Wait("finish", r, r, i + 1, k, 0)
      BY <2>1
    <3> DEFINE a == E((i + 1)..Channels)
               b == E(((i + 1)..Channels) \ {i + 1})
    <3>2. /\ i + 1 \in 2..Channels /\ i + 1 \in (i + 1)..Channels
          /\ ((i + 1) + 1)..Channels = ((i + 1)..Channels) \ {i + 1}
      BY <1>1
    <3>3. f[i] = a /\ f[i + 1] = b
      <4>1. f[i] = E((i + 1)..Channels) /\ f[i + 1] = E(((i + 1) + 1)..Channels)
        BY <1>1
      <4> QED BY <3>2, <4>1
    <3>4. /\ a.crew = (i + 1)..Channels /\ a.phase = 0 /\ a.step = k
          /\ b = Mark(a.crew \ {i + 1}, a.step, 0, [a.turns EXCEPT ![i + 1] = @ + 1], a.copies)
      <4>1. (i + 1)..Channels \in SUBSET Crew(t)
        BY <1>1, <1>2 DEF Crew
      <4> QED BY <1>0, <3>2, <4>1
    <3>5. /\ s[i].op = "wait" /\ s[i].reg = <<"finish", r, r, i + 1>>
          /\ s[i].step = k /\ s[i].phase = 0
      BY <3>1 DEF Wait, Task
    <3> HIDE DEF a, b, f, s
    <3>6. CrewTask(t, a, s[i], b)
      BY <1>2, <3>2, <3>4, <3>5 DEF CrewTask
    <3> QED BY <3>3, <3>4, <3>5, <3>6 DEF Follows
  <2>7. Channels = (Channels - 1) + 1
    BY <1>1
  <2> HIDE DEF f, s
  <2>8. Marking(o, t, s, f, E(Crew(t)), E({}))
    BY <2>3, <2>4, <2>5, <2>6, <2>7 DEF Marking
  <2>9. s \in Runs(o, t, E(Crew(t)), E({}))
    BY <2>3, <2>8 DEF Runs
  <2> QED BY <2>9 DEF s, E, k
<1>3. CASE t[2] # 1
  <2> DEFINE task == Record("finish", r, r, t[2], k, 0)
             a == E(Crew(t))
             b == E({})
  <2>1. s = <<task>>
    BY <1>3 DEF PostSyncInterThreads
  <2>2. task \in Tasks
    <3>1. "finish" \in Kinds /\ 0 \in 0..4
      BY DEF Kinds
    <3> QED BY <1>1, <3>1, TaskTypes
  <2>3. t[2] \in 2..Channels /\ Crew(t) = {t[2]} /\ {t[2]} \ {t[2]} = {}
    BY <1>1, <1>3 DEF Crew
  <2>4. Follows(o, t, a, task, b)
    <3>1. /\ a.crew = {t[2]} /\ a.phase = 0 /\ a.step = k
          /\ b = Mark(a.crew \ {t[2]}, a.step, 0, [a.turns EXCEPT ![t[2]] = @ + 1], a.copies)
      <4>1. Crew(t) \in SUBSET Crew(t) /\ t[2] \in Crew(t) /\ Crew(t) \ {t[2]} = {}
        BY <2>3
      <4>2. E(Crew(t) \ {t[2]}) = Mark(a.crew \ {t[2]}, a.step, 0, [a.turns EXCEPT ![t[2]] = @ + 1], a.copies)
        BY <1>0, <4>1
      <4> QED BY <1>0, <2>3, <4>1, <4>2
    <3>2. /\ task.op = "record" /\ task.reg = <<"finish", r, r, t[2]>>
          /\ task.step = k /\ task.phase = 0
      BY DEF Record, Task
    <3> HIDE DEF a, b, task
    <3>3. CrewTask(t, a, task, b)
      BY <1>3, <2>3, <3>1, <3>2 DEF CrewTask
    <3> QED BY <3>1, <3>2, <3>3 DEF Follows
  <2>5. a \in Marks(o, t) /\ b \in Marks(o, t)
    BY <1>0
  <2> HIDE DEF task, s, a, b
  <2>6. <<task>> \in Runs(o, t, a, b)
    BY <2>2, <2>4, <2>5, OneTask
  <2> QED BY <2>1, <2>6 DEF s, a, b, E, k
<1> QED BY <1>2, <1>3

(* A copy of this channel's part, or of all parts while the others stand   *)
(* still.                                                                  *)
LEMMA LocalRun ==
  ASSUME NEW o \in Options, NEW t \in Threads, NEW k, NEW moves \in Moves,
         NEW l \in Loops(o), NEW a \in Marks(o, t), NEW b \in Marks(o, t), a.step = k,
         b = Mark(a.crew, a.step, 0, a.turns, a.copies + 1),
         LocalCopy(o, t, l, a, Move(moves, k, 0)),
         TouchedBy(moves) \subseteq Cells,
         \A x \in TouchedBy(moves) : x[1] = t[1] /\ (x[4] = t[2] \/ (t[2] = 1 /\ a.crew = {}))
  PROVE  <<Move(moves, k, 0)>> \in Runs(o, t, a, b)
<1> DEFINE task == Move(moves, k, 0)
<1>1. task \in Tasks
  <2>1. t[1] \in Ranks /\ t[2] \in 1..Channels /\ k \in Int /\ 0 \in 0..4
    BY ThreadFacts, Calls, MarkRange
  <2> QED BY <2>1, TaskTypes
<1>3. a.phase = 0 /\ Manned(t, a)
  BY CopyTurn
<1>4. task.op = "move" /\ task.moves = moves /\ task.step = k /\ task.phase = 0
  BY DEF Move, Task
<1> HIDE DEF task
<1>5. LocalTask(o, t, a, task, b)
  BY <1>3, <1>4 DEF LocalTask, task
<1>6. Follows(o, t, a, task, b)
  BY <1>3, <1>4, <1>5 DEF Follows
<1>7. <<task>> \in Runs(o, t, a, b)
  BY <1>1, <1>6, OneTask
<1> QED BY <1>7 DEF task

(* The slices that hold data.                                              *)
LEMMA HasDataType == ASSUME NEW o, NEW l, NEW c PROVE HasData(o, l, c) \in SUBSET Slices
BY DEF HasData

(* PreCopy.                                                                *)
LEMMA PreCopyRun ==
  ASSUME NEW o \in Options, NEW t \in Threads, NEW l \in Loops(o), ~o.symmetric
  PROVE  PreCopy(o, l, t[1], t[2])
           \in Runs(o, t, Entering(o, t, l, Crew(t)), Inside(o, t, l, FirstStep(l), 0))
<1> DEFINE r == t[1]
           c == t[2]
           k == FirstStep(l)
           a == Entering(o, t, l, Crew(t))
           b == Inside(o, t, l, k, 0)
           skipped == IF SkipStep0TxPreCopy(o) THEN ScatterTx(0, r) ELSE {}
           slices == HasData(o, l, c) \ skipped
           moves == Copy(r, Ccl, r, In(l), slices, c, FALSE)
<1>1. /\ l \in 1..Legs(o) /\ LegStart(o, l) = k /\ InLeg(o, l, k, 0) /\ k \in Int
      /\ a \in Marks(o, t) /\ b \in Marks(o, t) /\ a.step = k
  <2>1. l \in 1..Legs(o) /\ LegStart(o, l) = k
    BY RoundLegs DEF ScatterLeg
  <2>2. InLeg(o, l, k, 0) /\ k \in Int
    BY <2>1, LegFacts DEF InLeg
  <2>3. a.step = k
    BY <2>1 DEF Entering, Mark
  <2>4. a \in Marks(o, t) /\ b \in Marks(o, t)
    BY <2>1, <2>2, MarkFacts
  <2> QED BY <2>1, <2>2, <2>3, <2>4
<1>2. r \in Ranks /\ c \in 1..Channels
  BY ThreadFacts
<1>3. slices \in SUBSET Slices
  BY HasDataType
<1>4. Ccl \in Buffers /\ In(l) \in Buffers
  BY BufferTypes
<1> HIDE DEF slices
<1>5. /\ moves \in Moves /\ TouchedBy(moves) \subseteq Cells
      /\ \A x \in TouchedBy(moves) : x[1] \in {r, r} /\ x[3] \in slices /\ x[4] = c
  <2>1. FALSE \in BOOLEAN
    OBVIOUS
  <2> HIDE DEF r, c
  <2>2. Within(Copy(r, Ccl, r, In(l), slices, c, FALSE), {r, r}, slices, c)
    BY <1>2, <1>3, <1>4, <2>1, CopyFacts
  <2> QED BY <2>2 DEF Within
<1>6. PreCopy(o, l, r, c) = <<Move(moves, k, 0)>>
  BY DEF PreCopy, slices
<1> HIDE DEF moves, k, a, b
<1>7. LocalCopy(o, t, l, a, Move(moves, k, 0))
  BY <1>6 DEF LocalCopy, a
<1>8. b = Mark(a.crew, a.step, 0, a.turns, a.copies + 1)
  BY <1>6, <1>7, CopyTurn DEF a, b, k
<1>9. <<Move(moves, k, 0)>> \in Runs(o, t, a, b)
  BY <1>1, <1>5, <1>7, <1>8, LocalRun
<1> QED BY <1>6, <1>9 DEF k, a, b

(* PostCopy.                                                               *)
LEMMA PostCopyRun ==
  ASSUME NEW o \in Options, NEW t \in Threads, NEW l \in Loops(o), ~o.symmetric
  PROVE  PostCopy(o, l, t[1], t[2])
           \in Runs(o, t, Inside(o, t, l, FirstStep(l + 1), 0), Leaving(o, t, l, Crew(t)))
<1> DEFINE r == t[1]
           c == t[2]
           k == FirstStep(l + 1)
           a == Inside(o, t, l, k, 0)
           b == Leaving(o, t, l, Crew(t))
           read == IF ReadLastStepToOutput(o) THEN GatherRx(StepNum - 1, r) ELSE {}
           slices == HasData(o, l, c) \ read
           moves == Copy(r, Out(o, l), r, Ccl, slices, c, FALSE)
<1>1. /\ l \in 1..Legs(o) /\ LegStart(o, l + 1) = k /\ InLeg(o, l, k, 0) /\ k \in Int
      /\ a \in Marks(o, t) /\ b \in Marks(o, t) /\ a.step = k
  <2>1. l \in 1..Legs(o) /\ LegStart(o, l + 1) = k
    BY RoundLegs DEF GatherLeg
  <2>2. InLeg(o, l, k, 0) /\ k \in Int
    BY <2>1, LegFacts DEF InLeg
  <2>3. a.step = k
    BY <2>1 DEF Inside, Mark
  <2>4. a \in Marks(o, t) /\ b \in Marks(o, t)
    BY <2>1, <2>2, MarkFacts
  <2> QED BY <2>1, <2>2, <2>3, <2>4
<1>2. r \in Ranks /\ c \in 1..Channels
  BY ThreadFacts
<1>3. slices \in SUBSET Slices
  BY HasDataType
<1>4. Ccl \in Buffers /\ Out(o, l) \in Buffers
  BY BufferTypes
<1> HIDE DEF slices
<1>5. /\ moves \in Moves /\ TouchedBy(moves) \subseteq Cells
      /\ \A x \in TouchedBy(moves) : x[1] \in {r, r} /\ x[3] \in slices /\ x[4] = c
  <2>1. FALSE \in BOOLEAN
    OBVIOUS
  <2> HIDE DEF r, c
  <2>2. Within(Copy(r, Out(o, l), r, Ccl, slices, c, FALSE), {r, r}, slices, c)
    BY <1>2, <1>3, <1>4, <2>1, CopyFacts
  <2> QED BY <2>2 DEF Within
<1>6. PostCopy(o, l, r, c) = <<Move(moves, k, 0)>>
  BY DEF PostCopy, slices
<1> HIDE DEF moves, k, a, b
<1>7. LocalCopy(o, t, l, a, Move(moves, k, 0))
  BY <1>6 DEF LocalCopy, a, k
<1>8. b = Mark(a.crew, a.step, 0, a.turns, a.copies + 1)
  BY <1>6, <1>7, CopyTurn DEF a, b, k
<1>9. <<Move(moves, k, 0)>> \in Runs(o, t, a, b)
  BY <1>1, <1>5, <1>7, <1>8, LocalRun
<1> QED BY <1>6, <1>9 DEF k, a, b

(* The copy of a rank's own slice between the two halves.                  *)
LEMMA CopyMySliceRun ==
  ASSUME NEW o \in Options, NEW t \in Threads, NEW l \in Loops(o), o.symmetric
  PROVE  CopyMySlice(o, l, t[1], t[2])
           \in Runs(o, t, Inside(o, t, 1, FirstStep(l) + StepNum, 0),
                          Inside(o, t, 2, FirstStep(l) + StepNum, 0))
<1> DEFINE r == t[1]
           c == t[2]
           k == FirstStep(l) + StepNum
           moves == MySlice(o, l, r)
           D == DOMAIN moves
           copy == IF c = 1 THEN << Move(moves, k, 0) >> ELSE <<>>
           a == Leaving(o, t, 1, {})
           b == Entering(o, t, 2, {})
<1>1. /\ 1 \in 1..Legs(o) /\ 2 \in 1..Legs(o) /\ 1 + 1 = 2
      /\ LegStart(o, 2) = k /\ k \in Int
  <2>1. Legs(o) = 2
    BY DEF Legs
  <2>2. 1 \in 1..Legs(o) /\ 2 \in 1..Legs(o) /\ 1 + 1 = 2
    BY <2>1
  <2>3. LegStart(o, 2) = k
    BY RoundLegs
  <2>4. LegStart(o, 2) \in Int
    BY <2>2, LegFacts
  <2> QED BY <2>2, <2>3, <2>4
<1>2. r \in Ranks /\ c \in 1..Channels
  BY ThreadFacts
<1>3. In(l) \in Buffers /\ Out(o, l) \in Buffers
  BY BufferTypes
<1>4. ASSUME NEW x \in D
      PROVE  x \in Cells /\ x[1] = r /\ <<r, In(l), x[3], x[4]>> \in Cells
  <2>1. PICK d \in 1..Channels : x \in {<<r, Out(o, l), s, d>> : s \in {r} \cap HasData(o, l, d)}
    BY DEF MySlice
  <2>2. PICK s \in {r} \cap HasData(o, l, d) : x = <<r, Out(o, l), s, d>>
    BY <2>1
  <2>3. s \in Slices
    BY <2>2, HasDataType
  <2> QED BY <1>2, <1>3, <2>2, <2>3 DEF Cells
<1>6. \A x \in D : /\ moves[x] = [src |-> <<r, In(l), x[3], x[4]>>, reduce |-> FALSE]
                    /\ moves[x].src = <<r, In(l), x[3], x[4]>>
  BY DEF MySlice
<1>5. moves \in Moves
  <2>1. D \in SUBSET Cells
    BY <1>4
  <2>2. moves = [x \in D |-> moves[x]]
    BY DEF MySlice
  <2>3. \A x \in D : moves[x] \in [src : Cells, reduce : BOOLEAN]
    <3> HIDE DEF moves, D
    <3> SUFFICES ASSUME NEW x \in D PROVE moves[x] \in [src : Cells, reduce : BOOLEAN]
      OBVIOUS
    <3>1. <<r, In(l), x[3], x[4]>> \in Cells
      BY <1>4
    <3>2. moves[x] = [src |-> <<r, In(l), x[3], x[4]>>, reduce |-> FALSE]
      BY <1>6
    <3> QED BY <3>1, <3>2
  <2>4. moves \in [D -> [src : Cells, reduce : BOOLEAN]]
    <3> HIDE DEF moves, D
    <3> QED BY <2>2, <2>3
  <2> HIDE DEF moves, D
  <2> QED BY <2>1, <2>4 DEF Moves
<1>7. CopyMySlice(o, l, r, c) = (PostSyncInterThreads(r, c, k) \o copy) \o PreSyncInterThreads(r, c, k)
  BY DEF CopyMySlice, MySlice
<1>11. k = LegStart(o, 2)
  BY <1>1
<1> HIDE DEF moves, k, D
<1>8. /\ TouchedBy(moves) \subseteq Cells
      /\ \A x \in TouchedBy(moves) : x[1] = r
  <2>1. ASSUME NEW x \in TouchedBy(moves) PROVE x \in Cells /\ x[1] = r
    <3>1. CASE x \in D
      BY <1>4, <3>1
    <3>2. CASE x \notin D
      <4>1. PICK y \in D : x = moves[y].src
        BY <3>2 DEF TouchedBy, D
      <4>2. x = <<r, In(l), y[3], y[4]>>
        BY <1>6, <4>1
      <4> QED BY <1>4, <4>1, <4>2
    <3> QED BY <3>1, <3>2
  <2> QED BY <2>1
<1>9. /\ a \in Marks(o, t) /\ b \in Marks(o, t) /\ a.step = k /\ a.crew = {}
  <2>1. a.step = k /\ a.crew = {}
    BY <1>1, <1>11 DEF Leaving, Mark
  <2>2. {} \in SUBSET Crew(t)
    OBVIOUS
  <2>3. a \in Marks(o, t) /\ b \in Marks(o, t)
    BY <1>1, <2>2, MarkFacts
  <2> QED BY <2>1, <2>3
<1>10. copy \in Runs(o, t, a, b)
  <2>1. CASE c = 1
    <3>1. LocalCopy(o, t, l, a, Move(moves, k, 0))
      BY <2>1 DEF LocalCopy, Move, Task, moves
    <3>2. b = Mark(a.crew, a.step, 0, a.turns, a.copies + 1)
      BY <3>1, CopyTurn
    <3> HIDE DEF a, b
    <3>3. <<Move(moves, k, 0)>> \in Runs(o, t, a, b)
      BY <1>5, <1>8, <1>9, <2>1, <3>1, <3>2, LocalRun
    <3> QED BY <2>1, <3>3
  <2>2. CASE c # 1
    <3>1. a = b
      BY <1>1, <2>2, SameMarks
    <3> QED BY <1>9, <2>2, <3>1, NoTask
  <2> QED BY <2>1, <2>2
<1>12. PostSyncInterThreads(r, c, k) \in Runs(o, t, Inside(o, t, 1, k, 0), a)
  <2>1. Leaving(o, t, 1, Crew(t)) = Inside(o, t, 1, k, 0)
    BY <1>1, <1>11, SameMarks
  <2> QED BY <1>1, <1>11, <2>1, PostSyncRun
<1>13. PreSyncInterThreads(r, c, k) \in Runs(o, t, b, Inside(o, t, 2, k, 0))
  <2>1. Entering(o, t, 2, Crew(t)) = Inside(o, t, 2, k, 0)
    BY <1>1, <1>11, SameMarks
  <2> QED BY <1>1, <1>11, <2>1, PreSyncRun
<1> HIDE DEF copy, r, c, a, b
<1>14. PostSyncInterThreads(r, c, k) \o copy \in Runs(o, t, Inside(o, t, 1, k, 0), b)
  BY <1>10, <1>12, ConcatRuns
<1>15. (PostSyncInterThreads(r, c, k) \o copy) \o PreSyncInterThreads(r, c, k)
         \in Runs(o, t, Inside(o, t, 1, k, 0), Inside(o, t, 2, k, 0))
  BY <1>13, <1>14, ConcatRuns
<1> QED BY <1>7, <1>15 DEF k, r, c

(* What a step of the handshake moves between the two ranks.               *)
LEMMA ExchangeRun ==
  ASSUME NEW o \in Options, NEW t \in Threads, NEW q \in 1..Legs(o),
         NEW k \in LegStart(o, q)..(LegStart(o, q + 1) - 1), NEW moves,
         Receipt(o, k, t[2], Target(o, k, t[1]), moves),
         NEW slices, slices \subseteq StepSlices(o, k, t[1]),
         NEW ranks, ranks = {t[1], DataPeer(o, k, t[1])},
         Within(moves, ranks, slices, t[2])
  PROVE  /\ SendRecvRead(t[1], t[2], AckPeer(o, k, t[1]), DataPeer(o, k, t[1]), moves, k)
              \in Runs(o, t, Inside(o, t, q, k, 0), Inside(o, t, q, k + 1, 0))
         /\ SendRecvBatchWrite(t[1], t[2], DataPeer(o, k, t[1]), AckPeer(o, k, t[1]), moves, k)
              \in Runs(o, t, Inside(o, t, q, k, 0), Inside(o, t, q, k + 1, 0))
<1>1. /\ moves \in Moves /\ TouchedBy(moves) \subseteq Cells
      /\ \A x \in TouchedBy(moves) :
           x[1] \in {t[1], DataPeer(o, k, t[1])} /\ x[3] \in StepSlices(o, k, t[1]) /\ x[4] = t[2]
  BY DEF Within
<1> QED BY <1>1, HandshakeRun DEF SendRecvRead, SendRecvBatchWrite

(* One step of RunReduceScatter.                                           *)
LEMMA ReduceScatterStepRun ==
  ASSUME NEW o \in Options, NEW t \in Threads, NEW l \in Loops(o), NEW i \in 0..(StepNum - 1)
  PROVE  ReduceScatterStep(o, l, t[1], t[2], i)
           \in Runs(o, t, Inside(o, t, ScatterLeg(o, l), FirstStep(l) + i, 0),
                          Inside(o, t, ScatterLeg(o, l), FirstStep(l) + i + 1, 0))
<1> DEFINE q    == ScatterLeg(o, l)
           r    == t[1]
           c    == t[2]
           k    == FirstStep(l) + i
           buf  == ReduceBuffer(o, l)
           src  == IF SkipStep0TxPreCopy(o) /\ i = 0 THEN In(l) ELSE buf
           to   == ScatterTo(i, r)
           from == ScatterFrom(i, r)
           tx   == ScatterTx(i, r) \cap HasData(o, l, c)
           rx   == ScatterRx(i, r) \cap HasData(o, l, c)
           read == Copy(r, buf, from, buf, rx, c, TRUE)
           write == Copy(to, buf, r, src, tx, c, TRUE)
<1>0. q \in 1..Legs(o) /\ k \in LegStart(o, q)..(LegStart(o, q + 1) - 1)
  <2>1. /\ q \in 1..Legs(o) /\ LegStart(o, q) = FirstStep(l) /\ LegSteps(o) \in {StepNum, 2 * StepNum}
    BY RoundLegs
  <2>2. LegStart(o, q) \in Int /\ LegStart(o, q + 1) = LegStart(o, q) + LegSteps(o)
    BY <2>1, LegFacts
  <2> HIDE DEF q
  <2> QED BY <2>1, <2>2, Sizes
<1>1. k \in 1..Steps(o) /\ ~Gathers(k) /\ StepOf(k) = i
  <2>1. i \in 0..(2 * StepNum - 1) /\ ~(i >= StepNum)
    BY Sizes
  <2> QED BY <2>1, RoundSteps
<1>2. r \in Ranks /\ c \in 1..Channels
  BY ThreadFacts
<1>3. HandshakeTx[o][k][r] = to /\ HandshakeRx[o][k][r] = from
  BY <1>1, <1>2, Tables
<1>4. HandshakeMode[o][k] = IF o.dmaRead THEN "read" ELSE "write"
  BY <1>1, Tables
<1>5. buf \in Buffers /\ src \in Buffers
  BY BufferTypes DEF ReduceBuffer
<1>6. TRUE \in BOOLEAN
  OBVIOUS
<1>11. /\ ScatterFrom(i, to) = r
       /\ \A z, moves : moves = ScatterReceipt(o, l, c, i, z) => Receipt(o, k, c, z, moves)
       /\ o.dmaRead => read = ScatterReceipt(o, l, c, i, r)
       /\ write = ScatterReceipt(o, l, c, i, to)
  <2>1. ScatterFrom(i, to) = r
    BY <1>2, Distances, UpAndDown DEF ScatterFrom, ScatterTo
  <2>2. \A z, moves : moves = ScatterReceipt(o, l, c, i, z) => Receipt(o, k, c, z, moves)
    BY DEF Receipt
  <2>3. o.dmaRead => read = ScatterReceipt(o, l, c, i, r)
    BY DEF ScatterReceipt, SkipStep0TxPreCopy
  <2>4. tx = ScatterRx(i, to) \cap HasData(o, l, c)
    BY DEF ScatterTx, ScatterRx
  <2>5. write = Copy(to, buf, ScatterFrom(i, to), src, ScatterRx(i, to) \cap HasData(o, l, c), c, TRUE)
    <3> HIDE DEF to, src, buf, tx, r
    <3> QED BY <2>1, <2>4
  <2>6. write = ScatterReceipt(o, l, c, i, to)
    BY <2>5 DEF ScatterReceipt
  <2> QED BY <2>1, <2>2, <2>3, <2>6
<1> HIDE DEF k, buf, src, r, c, q
<1>7. to \in Ranks /\ from \in Ranks
  BY <1>1, <1>2, <1>3, Peers DEF AckPeer, DataPeer
<1>8. tx \in SUBSET Slices /\ rx \in SUBSET Slices
  BY HasDataType
<1>9. CASE o.dmaRead
  <2>1. AckPeer(o, k, r) = to /\ DataPeer(o, k, r) = from
    BY <1>3, <1>4, <1>9 DEF AckPeer, DataPeer
  <2>2. rx \subseteq StepSlices(o, k, r)
    BY <1>1, <1>4, <1>9 DEF StepSlices
  <2>3. Within(read, {r, from}, rx, c)
    <3> HIDE DEF rx, from
    <3> QED BY <1>2, <1>5, <1>6, <1>7, <1>8, CopyFacts
  <2>4. ReduceScatterStep(o, l, r, c, i) = SendRecvRead(r, c, to, from, read, k)
    BY <1>9 DEF ReduceScatterStep, buf, k
  <2>6. Receipt(o, k, c, Target(o, k, r), read)
    BY <1>4, <1>9, <1>11 DEF Target
  <2> HIDE DEF read, rx, to, from
  <2>5. SendRecvRead(r, c, AckPeer(o, k, r), DataPeer(o, k, r), read, k)
          \in Runs(o, t, Inside(o, t, q, k, 0), Inside(o, t, q, k + 1, 0))
    BY <1>0, <2>1, <2>2, <2>3, <2>6, ExchangeRun DEF r, c
  <2> QED BY <2>1, <2>4, <2>5 DEF r, c, k, q
<1>10. CASE ~o.dmaRead
  <2>1. AckPeer(o, k, r) = from /\ DataPeer(o, k, r) = to
    BY <1>3, <1>4, <1>10 DEF AckPeer, DataPeer
  <2>2. tx \subseteq StepSlices(o, k, r)
    BY <1>1, <1>4, <1>10 DEF StepSlices
  <2>3. Within(write, {to, r}, tx, c)
    <3> HIDE DEF tx, to
    <3> QED BY <1>2, <1>5, <1>6, <1>7, <1>8, CopyFacts
  <2>4. ReduceScatterStep(o, l, r, c, i) = SendRecvBatchWrite(r, c, to, from, write, k)
    BY <1>10 DEF ReduceScatterStep, buf, src, k
  <2>7. Receipt(o, k, c, Target(o, k, r), write)
    BY <1>4, <1>10, <1>11, <2>1 DEF Target
  <2> HIDE DEF write, tx, to, from
  <2>5. {to, r} = {r, DataPeer(o, k, r)}
    BY <2>1
  <2>6. SendRecvBatchWrite(r, c, DataPeer(o, k, r), AckPeer(o, k, r), write, k)
          \in Runs(o, t, Inside(o, t, q, k, 0), Inside(o, t, q, k + 1, 0))
    BY <1>0, <2>2, <2>3, <2>5, <2>7, ExchangeRun DEF r, c
  <2> QED BY <2>1, <2>4, <2>6 DEF r, c, k, q
<1> QED BY <1>9, <1>10 DEF r, c, k

(* One step of RunAllGather.                                               *)
LEMMA AllGatherStepRun ==
  ASSUME NEW o \in Options, NEW t \in Threads, NEW l \in Loops(o), NEW i \in 0..(StepNum - 1)
  PROVE  AllGatherStep(o, l, t[1], t[2], i)
           \in Runs(o, t, Inside(o, t, GatherLeg(o, l), FirstStep(l) + StepNum + i, 0),
                          Inside(o, t, GatherLeg(o, l), FirstStep(l) + StepNum + i + 1, 0))
<1> DEFINE q    == GatherLeg(o, l)
           r    == t[1]
           c    == t[2]
           k    == FirstStep(l) + StepNum + i
           buf  == IF o.symmetric THEN Out(o, l) ELSE Ccl
           to   == GatherTo(i, r)
           from == GatherFrom(i, r)
           tx   == GatherTx(i, r) \cap HasData(o, l, c)
           rx   == GatherRx(i, r) \cap HasData(o, l, c)
           last == Copy(r, Out(o, l), from, Ccl, rx, c, FALSE)
           read == Copy(r, buf, from, buf, rx, c, FALSE)
           write == Copy(to, buf, r, buf, tx, c, FALSE)
           onlyLast == ReadLastStepToOutput(o) /\ i = StepNum - 1
           always == o.symmetric \/ o.dmaRead
<1>0. q \in 1..Legs(o) /\ k \in LegStart(o, q)..(LegStart(o, q + 1) - 1)
  <2>1. /\ q \in 1..Legs(o) /\ LegStart(o, q + 1) = FirstStep(l) + 2 * StepNum
        /\ LegSteps(o) \in {StepNum, 2 * StepNum}
    BY RoundLegs
  <2>2. LegStart(o, q) \in Int /\ LegStart(o, q + 1) = LegStart(o, q) + LegSteps(o) /\ LegStart(o, q + 1) \in Int
    BY <2>1, LegFacts
  <2>3. FirstStep(l) \in Int
    BY RoundSteps, Sizes, 0 \in 0..(2 * StepNum - 1)
  <2> HIDE DEF q
  <2> QED BY <2>1, <2>2, <2>3, Sizes
<1>1. k \in 1..Steps(o) /\ Gathers(k) /\ StepOf(k) = i
  <2>1. /\ StepNum + i \in 0..(2 * StepNum - 1) /\ StepNum + i >= StepNum
        /\ (StepNum + i) - StepNum = i
    BY Sizes
  <2>2. FirstStep(l) \in Int
    BY <2>1, RoundSteps, Calls
  <2>3. k = FirstStep(l) + (StepNum + i)
    BY <2>2, Sizes
  <2> QED BY <2>1, <2>3, RoundSteps
<1>2. r \in Ranks /\ c \in 1..Channels
  BY ThreadFacts
<1>3. HandshakeTx[o][k][r] = to /\ HandshakeRx[o][k][r] = from
  BY <1>1, <1>2, Tables
<1>4. HandshakeMode[o][k] = IF always \/ i = StepNum - 1 THEN "read" ELSE "write"
  BY <1>1, Tables
<1>5. buf \in Buffers /\ Ccl \in Buffers /\ Out(o, l) \in Buffers
  BY BufferTypes
<1>6. FALSE \in BOOLEAN
  OBVIOUS
<1>12. /\ GatherFrom(i, to) = r
       /\ \A z, moves : moves = GatherReceipt(o, l, c, i, z) => Receipt(o, k, c, z, moves)
       /\ onlyLast => last = GatherReceipt(o, l, c, i, r)
       /\ ~onlyLast => read = GatherReceipt(o, l, c, i, r) /\ write = GatherReceipt(o, l, c, i, to)
  <2>1. GatherFrom(i, to) = r
    BY <1>2, Distances, UpAndDown DEF GatherFrom, GatherTo
  <2>2. \A z, moves : moves = GatherReceipt(o, l, c, i, z) => Receipt(o, k, c, z, moves)
    BY DEF Receipt
  <2>3. /\ onlyLast => last = GatherReceipt(o, l, c, i, r)
        /\ ~onlyLast => read = GatherReceipt(o, l, c, i, r)
    BY DEF GatherReceipt, GatherBuffer, ReadLastStepToOutput
  <2>4. tx = GatherRx(i, to) \cap HasData(o, l, c)
    BY <2>1 DEF GatherTx, GatherRx
  <2>5. write = Copy(to, buf, GatherFrom(i, to), buf, GatherRx(i, to) \cap HasData(o, l, c), c, FALSE)
    <3> HIDE DEF to, buf, tx, r
    <3> QED BY <2>1, <2>4
  <2>6. ~onlyLast => write = GatherReceipt(o, l, c, i, to)
    BY <2>5 DEF GatherReceipt, GatherBuffer
  <2> QED BY <2>1, <2>2, <2>3, <2>6
<1> HIDE DEF k, buf, r, c, q
<1>7. to \in Ranks /\ from \in Ranks
  BY <1>1, <1>2, <1>3, Peers DEF AckPeer, DataPeer
<1>8. tx \in SUBSET Slices /\ rx \in SUBSET Slices
  BY HasDataType
<1>9. /\ onlyLast => AllGatherStep(o, l, r, c, i) = SendRecvRead(r, c, to, from, last, k)
      /\ ~onlyLast /\ always => AllGatherStep(o, l, r, c, i) = SendRecvRead(r, c, to, from, read, k)
      /\ ~onlyLast /\ ~always =>
           AllGatherStep(o, l, r, c, i) = SendRecvBatchWrite(r, c, to, from, write, k)
  BY DEF AllGatherStep, ReadLastStepToOutput, buf, k
<1>10. CASE always \/ i = StepNum - 1
  <2>1. AckPeer(o, k, r) = to /\ DataPeer(o, k, r) = from
    BY <1>3, <1>4, <1>10 DEF AckPeer, DataPeer
  <2>2. rx \subseteq StepSlices(o, k, r)
    BY <1>1, <1>4, <1>10 DEF StepSlices
  <2>3. Within(read, {r, from}, rx, c) /\ Within(last, {r, from}, rx, c)
    <3> HIDE DEF rx, from
    <3> QED BY <1>2, <1>5, <1>6, <1>7, <1>8, CopyFacts
  <2>4. onlyLast \/ (~onlyLast /\ always)
    BY <1>10 DEF ReadLastStepToOutput
  <2>7. /\ onlyLast => Receipt(o, k, c, Target(o, k, r), last)
        /\ ~onlyLast => Receipt(o, k, c, Target(o, k, r), read)
    BY <1>4, <1>10, <1>12 DEF Target
  <2> HIDE DEF read, last, rx, to, from, onlyLast, always
  <2>5. /\ ~onlyLast => SendRecvRead(r, c, AckPeer(o, k, r), DataPeer(o, k, r), read, k)
             \in Runs(o, t, Inside(o, t, q, k, 0), Inside(o, t, q, k + 1, 0))
        /\ onlyLast => SendRecvRead(r, c, AckPeer(o, k, r), DataPeer(o, k, r), last, k)
             \in Runs(o, t, Inside(o, t, q, k, 0), Inside(o, t, q, k + 1, 0))
    BY <1>0, <2>1, <2>2, <2>3, <2>7, ExchangeRun DEF r, c
  <2>6. AllGatherStep(o, l, r, c, i) \in Runs(o, t, Inside(o, t, q, k, 0), Inside(o, t, q, k + 1, 0))
    BY <1>9, <2>1, <2>4, <2>5
  <2> QED BY <2>6 DEF r, c, k, q
<1>11. CASE ~(always \/ i = StepNum - 1)
  <2>1. AckPeer(o, k, r) = from /\ DataPeer(o, k, r) = to
    BY <1>3, <1>4, <1>11 DEF AckPeer, DataPeer
  <2>2. tx \subseteq StepSlices(o, k, r)
    BY <1>1, <1>4, <1>11 DEF StepSlices
  <2>3. Within(write, {to, r}, tx, c)
    <3> HIDE DEF tx, to
    <3> QED BY <1>2, <1>5, <1>6, <1>7, <1>8, CopyFacts
  <2>4. ~onlyLast /\ ~always
    BY <1>11
  <2>8. Receipt(o, k, c, Target(o, k, r), write)
    BY <1>4, <1>11, <1>12, <2>1, <2>4 DEF Target
  <2> HIDE DEF write, tx, to, from, onlyLast, always
  <2>5. {to, r} = {r, DataPeer(o, k, r)}
    BY <2>1
  <2>6. SendRecvBatchWrite(r, c, DataPeer(o, k, r), AckPeer(o, k, r), write, k)
          \in Runs(o, t, Inside(o, t, q, k, 0), Inside(o, t, q, k + 1, 0))
    BY <1>0, <2>2, <2>3, <2>5, <2>8, ExchangeRun DEF r, c
  <2>7. AllGatherStep(o, l, r, c, i) \in Runs(o, t, Inside(o, t, q, k, 0), Inside(o, t, q, k + 1, 0))
    BY <1>9, <2>1, <2>4, <2>6
  <2> QED BY <2>7 DEF r, c, k, q
<1> QED BY <1>10, <1>11

(* RunReduceScatter.                                                       *)
LEMMA RunReduceScatterRun ==
  ASSUME NEW o \in Options, NEW t \in Threads, NEW l \in Loops(o)
  PROVE  RunReduceScatter(o, l, t[1], t[2])
           \in Runs(o, t, Inside(o, t, ScatterLeg(o, l), FirstStep(l), 0),
                          Inside(o, t, ScatterLeg(o, l), FirstStep(l) + StepNum, 0))
<1> DEFINE first == FirstStep(l)
           ss == [i \in 1..StepNum |-> ReduceScatterStep(o, l, t[1], t[2], i - 1)]
           busy(k) == Inside(o, t, ScatterLeg(o, l), k, 0)
           P  == [i \in 1..(StepNum + 1) |-> busy(first + (i - 1))]
<1>1. StepNum \in Nat \ {0} /\ first \in Int
  <2>1. 0 \in 0..(2 * StepNum - 1) /\ Steps(o) \in Nat
    BY Sizes, Calls
  <2> QED BY <2>1, RoundSteps, Sizes
<1>2. Len(ss) = StepNum
  BY <1>1
<1>3. ASSUME NEW i \in 1..StepNum PROVE ss[i] \in Runs(o, t, P[i], P[i + 1])
  <2>1. i - 1 \in 0..(StepNum - 1)
    BY <1>1
  <2>2. ss[i] = ReduceScatterStep(o, l, t[1], t[2], i - 1)
    OBVIOUS
  <2>3. ReduceScatterStep(o, l, t[1], t[2], i - 1)
          \in Runs(o, t, busy(first + (i - 1)), busy(first + (i - 1) + 1))
    BY <2>1, ReduceScatterStepRun
  <2>4. P[i] = busy(first + (i - 1)) /\ P[i + 1] = busy(first + (i - 1) + 1)
    <3>1. i \in 1..(StepNum + 1) /\ i + 1 \in 1..(StepNum + 1) /\ first + ((i + 1) - 1) = first + (i - 1) + 1
      BY <1>1
    <3> HIDE DEF first, busy
    <3>2. P[i] = busy(first + (i - 1)) /\ P[i + 1] = busy(first + ((i + 1) - 1))
      BY <3>1
    <3> QED BY <3>1, <3>2
  <2> HIDE DEF ss, P, first, busy
  <2> QED BY <2>2, <2>3, <2>4
<1>4. P[1] = busy(first) /\ P[StepNum + 1] = busy(first + StepNum)
  <2>1. /\ 1 \in 1..(StepNum + 1) /\ StepNum + 1 \in 1..(StepNum + 1)
        /\ first + (1 - 1) = first /\ first + ((StepNum + 1) - 1) = first + StepNum
    BY <1>1
  <2> HIDE DEF first, busy
  <2>2. P[1] = busy(first + (1 - 1)) /\ P[StepNum + 1] = busy(first + ((StepNum + 1) - 1))
    BY <2>1
  <2> QED BY <2>1, <2>2
<1>5. RunReduceScatter(o, l, t[1], t[2]) = FlattenSeq(ss)
  BY DEF RunReduceScatter
<1> HIDE DEF ss, P
<1>6. FlattenSeq(ss) \in Runs(o, t, P[1], P[StepNum + 1])
  BY <1>1, <1>2, <1>3, FlattenRuns
<1> QED BY <1>4, <1>5, <1>6

(* RunAllGather.                                                           *)
LEMMA RunAllGatherRun ==
  ASSUME NEW o \in Options, NEW t \in Threads, NEW l \in Loops(o)
  PROVE  RunAllGather(o, l, t[1], t[2])
           \in Runs(o, t, Inside(o, t, GatherLeg(o, l), FirstStep(l) + StepNum, 0),
                          Inside(o, t, GatherLeg(o, l), FirstStep(l + 1), 0))
<1> DEFINE first == FirstStep(l) + StepNum
           ss == [i \in 1..StepNum |-> AllGatherStep(o, l, t[1], t[2], i - 1)]
           busy(k) == Inside(o, t, GatherLeg(o, l), k, 0)
           P  == [i \in 1..(StepNum + 1) |-> busy(first + (i - 1))]
<1>1. StepNum \in Nat \ {0} /\ first \in Int /\ first + StepNum = FirstStep(l + 1)
  <2>1. 0 \in 0..(2 * StepNum - 1) /\ Steps(o) \in Nat
    BY Sizes, Calls
  <2>2. FirstStep(l) \in Int /\ FirstStep(l + 1) = FirstStep(l) + 2 * StepNum
    BY <2>1, RoundSteps
  <2> QED BY <2>2, Sizes
<1>2. Len(ss) = StepNum
  BY <1>1
<1>3. ASSUME NEW i \in 1..StepNum PROVE ss[i] \in Runs(o, t, P[i], P[i + 1])
  <2>1. i - 1 \in 0..(StepNum - 1)
    BY <1>1
  <2>2. ss[i] = AllGatherStep(o, l, t[1], t[2], i - 1)
    OBVIOUS
  <2>3. AllGatherStep(o, l, t[1], t[2], i - 1)
          \in Runs(o, t, busy(first + (i - 1)), busy(first + (i - 1) + 1))
    BY <2>1, AllGatherStepRun
  <2>4. P[i] = busy(first + (i - 1)) /\ P[i + 1] = busy(first + (i - 1) + 1)
    <3>1. i \in 1..(StepNum + 1) /\ i + 1 \in 1..(StepNum + 1) /\ first + ((i + 1) - 1) = first + (i - 1) + 1
      BY <1>1
    <3> HIDE DEF first, busy
    <3>2. P[i] = busy(first + (i - 1)) /\ P[i + 1] = busy(first + ((i + 1) - 1))
      BY <3>1
    <3> QED BY <3>1, <3>2
  <2> HIDE DEF ss, P, first, busy
  <2> QED BY <2>2, <2>3, <2>4
<1>4. P[1] = busy(first) /\ P[StepNum + 1] = busy(first + StepNum)
  <2>1. /\ 1 \in 1..(StepNum + 1) /\ StepNum + 1 \in 1..(StepNum + 1)
        /\ first + (1 - 1) = first /\ first + ((StepNum + 1) - 1) = first + StepNum
    BY <1>1
  <2> HIDE DEF first, busy
  <2>2. P[1] = busy(first + (1 - 1)) /\ P[StepNum + 1] = busy(first + ((StepNum + 1) - 1))
    BY <2>1
  <2> QED BY <2>1, <2>2
<1>5. RunAllGather(o, l, t[1], t[2]) = FlattenSeq(ss)
  BY DEF RunAllGather
<1> HIDE DEF ss, P
<1>6. FlattenSeq(ss) \in Runs(o, t, P[1], P[StepNum + 1])
  BY <1>1, <1>2, <1>3, FlattenRuns
<1> QED BY <1>1, <1>4, <1>5, <1>6

(* Between two rounds a thread is at rest.                                 *)
LEMMA RestIs ==
  ASSUME NEW o \in Options, NEW t \in Threads, NEW l \in Loops(o)
  PROVE  /\ Rest(o, t, l - 1) = Entering(o, t, ScatterLeg(o, l), {})
         /\ Rest(o, t, l) = Leaving(o, t, GatherLeg(o, l), {})
         /\ Rest(o, t, l - 1) \in Marks(o, t) /\ Rest(o, t, l) \in Marks(o, t)
<1>1. l \in 1..Len(o.counts) /\ Len(o.counts) \in Nat
  BY Calls
<1>2. Rest(o, t, l) = Leaving(o, t, GatherLeg(o, l), {})
  <2>1. l # 0
    BY <1>1
  <2> QED BY <2>1 DEF Rest, GatherLeg
<1>3. Rest(o, t, l - 1) = Entering(o, t, ScatterLeg(o, l), {})
  <2>1. CASE l = 1
    <3>1. l - 1 = 0 /\ ScatterLeg(o, l) = 1
      BY <2>1 DEF ScatterLeg
    <3> QED BY <3>1 DEF Rest
  <2>2. CASE l # 1
    <3>1. ~o.symmetric
      BY <2>2, RoundLegs
    <3>2. l - 1 # 0 /\ l - 1 \in 1..Legs(o) /\ (l - 1) + 1 = l
      BY <1>1, <2>2, <3>1 DEF Legs
    <3>3. Rest(o, t, l - 1) = Leaving(o, t, l - 1, {})
      BY <3>1, <3>2 DEF Rest
    <3>4. Leaving(o, t, l - 1, {}) = Entering(o, t, l, {})
      BY <3>1, <3>2, SameMarks
    <3> QED BY <3>1, <3>3, <3>4 DEF ScatterLeg
  <2> QED BY <2>1, <2>2
<1>4. ScatterLeg(o, l) \in 1..Legs(o) /\ GatherLeg(o, l) \in 1..Legs(o)
  BY RoundLegs
<1>5. {} \in SUBSET Crew(t)
  OBVIOUS
<1> QED BY <1>2, <1>3, <1>4, <1>5, MarkFacts

(* KernelRun: what one round asks of a thread.                             *)
LEMMA KernelRunRun ==
  ASSUME NEW o \in Options, NEW t \in Threads, NEW l \in Loops(o)
  PROVE  KernelRun(o, l, t[1], t[2]) \in Runs(o, t, Rest(o, t, l - 1), Rest(o, t, l))
<1> DEFINE r == t[1]
           c == t[2]
           k == FirstStep(l)
           m == FirstStep(l) + StepNum
           e == FirstStep(l + 1)
           qs == ScatterLeg(o, l)
           qg == GatherLeg(o, l)
           m0 == Entering(o, t, qs, {})
           m1 == Entering(o, t, qs, Crew(t))
           m2 == Inside(o, t, qs, k, 0)
           m3 == Inside(o, t, qs, m, 0)
           m4 == Inside(o, t, qg, m, 0)
           m5 == Inside(o, t, qg, e, 0)
           m6 == Leaving(o, t, qg, Crew(t))
           m7 == Leaving(o, t, qg, {})
           p1 == PreSyncInterThreads(r, c, k)
           p2 == IF o.symmetric THEN <<>> ELSE PreCopy(o, l, r, c)
           p3 == RunReduceScatter(o, l, r, c)
           p4 == IF o.symmetric THEN CopyMySlice(o, l, r, c) ELSE <<>>
           p5 == RunAllGather(o, l, r, c)
           p6 == IF o.symmetric THEN <<>> ELSE PostCopy(o, l, r, c)
           p7 == PostSyncInterThreads(r, c, e)
<1>1. /\ qs \in 1..Legs(o) /\ qg \in 1..Legs(o) /\ LegStart(o, qs) = k /\ LegStart(o, qg + 1) = e
      /\ e = k + 2 * StepNum /\ StepNum \in Nat \ {0} /\ k \in Int
      /\ o.symmetric => qs = 1 /\ qg = 2 /\ l = 1 /\ LegStart(o, 2) = m
      /\ ~o.symmetric => qs = l /\ qg = l
  <2>1. k \in Int
    BY RoundLegs, LegFacts
  <2> QED BY <2>1, RoundLegs, Sizes DEF ScatterLeg, GatherLeg
<1>2. Rest(o, t, l - 1) = m0 /\ Rest(o, t, l) = m7
  BY RestIs
<1>3. m1 \in Marks(o, t) /\ m6 \in Marks(o, t)
  BY <1>1, MarkFacts
<1>4. p1 \in Runs(o, t, m0, m1)
  BY <1>1, PreSyncRun
<1>5. p2 \in Runs(o, t, m1, m2)
  <2>1. CASE o.symmetric
    <3>1. m1 = m2
      BY <1>1, <2>1, SameMarks
    <3> QED BY <1>3, <2>1, <3>1, NoTask
  <2>2. CASE ~o.symmetric
    BY <1>1, <2>2, PreCopyRun
  <2> QED BY <2>1, <2>2
<1>6. p3 \in Runs(o, t, m2, m3)
  BY RunReduceScatterRun
<1>7. p4 \in Runs(o, t, m3, m4)
  <2>1. CASE o.symmetric
    BY <1>1, <2>1, CopyMySliceRun
  <2>2. CASE ~o.symmetric
    <3>1. m3 = m4
      BY <1>1, <2>2
    <3>2. InLeg(o, qs, m, 0)
      <4>1. m \in k..e
        BY <1>1
      <4>2. LegStart(o, qs + 1) = e
        BY <1>1, <2>2
      <4> HIDE DEF k, m, e, qs
      <4>3. 0 \in IF m = e THEN {0} ELSE 0..4
        OBVIOUS
      <4> QED BY <1>1, <4>1, <4>2, <4>3 DEF InLeg
    <3>3. m \in Int /\ 0 \in 0..4
      BY <1>1
    <3>4. m3 \in Marks(o, t)
      BY <1>1, <3>2, <3>3, MarkFacts
    <3> QED BY <2>2, <3>1, <3>4, NoTask
  <2> QED BY <2>1, <2>2
<1>8. p5 \in Runs(o, t, m4, m5)
  BY RunAllGatherRun
<1>9. p6 \in Runs(o, t, m5, m6)
  <2>1. CASE o.symmetric
    <3>1. m5 = m6
      BY <1>1, <2>1, SameMarks
    <3> QED BY <1>3, <2>1, <3>1, NoTask
  <2>2. CASE ~o.symmetric
    BY <1>1, <2>2, PostCopyRun
  <2> QED BY <2>1, <2>2
<1>10. p7 \in Runs(o, t, m6, m7)
  BY <1>1, PostSyncRun
<1>11. KernelRun(o, l, r, c) = p1 \o p2 \o p3 \o p4 \o p5 \o p6 \o p7
  BY DEF KernelRun
<1> HIDE DEF p1, p2, p3, p4, p5, p6, p7, m0, m1, m2, m3, m4, m5, m6, m7
<1>12. p1 \o p2 \in Runs(o, t, m0, m2)
  BY <1>4, <1>5, ConcatRuns
<1>13. p1 \o p2 \o p3 \in Runs(o, t, m0, m3)
  BY <1>6, <1>12, ConcatRuns
<1>14. p1 \o p2 \o p3 \o p4 \in Runs(o, t, m0, m4)
  BY <1>7, <1>13, ConcatRuns
<1>15. p1 \o p2 \o p3 \o p4 \o p5 \in Runs(o, t, m0, m5)
  BY <1>8, <1>14, ConcatRuns
<1>16. p1 \o p2 \o p3 \o p4 \o p5 \o p6 \in Runs(o, t, m0, m6)
  BY <1>9, <1>15, ConcatRuns
<1>17. p1 \o p2 \o p3 \o p4 \o p5 \o p6 \o p7 \in Runs(o, t, m0, m7)
  BY <1>10, <1>16, ConcatRuns
<1> QED BY <1>2, <1>11, <1>17

(* Where the rounds end.                                                   *)
LEMMA RoundEndIs ==
  ASSUME NEW o \in Options, NEW t \in Threads
  PROVE  /\ RoundEnd[o][t][0] = 0
         /\ \A l \in Loops(o) : RoundEnd[o][t][l] =
              Len(FlattenSeq([i \in 1..l |-> KernelRun(o, i, t[1], t[2])]))
<1> DEFINE piece(x, u, l) == Len(FlattenSeq([i \in 1..(IF l \in Loops(x) THEN l ELSE 0)
                               |-> KernelRun(x, i, u[1], u[2])]))
           col(x, u) == Evaluated([l \in 0..MaxRounds |-> piece(x, u, l)])
           row(x) == Evaluated([u \in Threads |-> col(x, u)])
<1>1. RoundEnd = Evaluated([x \in Options |-> row(x)])
  BY DEF RoundEnd
<1>2. \A l \in 0..MaxRounds : col(o, t)[l] = piece(o, t, l)
  <2> DEFINE f == [l \in 0..MaxRounds |-> piece(o, t, l)]
  <2>1. \A l \in 0..MaxRounds : f[l] = piece(o, t, l)
    OBVIOUS
  <2>2. col(o, t) = f
    BY EvaluatedIs
  <2> HIDE DEF f, col, piece
  <2> QED BY <2>1, <2>2
<1> HIDE DEF col
<1>3. row(o)[t] = col(o, t)
  BY EvaluatedIs
<1> HIDE DEF row
<1>4. RoundEnd[o] = row(o)
  BY <1>1, EvaluatedIs
<1>5. \A l \in 0..MaxRounds : RoundEnd[o][t][l] = piece(o, t, l)
  BY <1>2, <1>3, <1>4
<1>6. MaxRounds \in Nat /\ 0 \notin Loops(o) /\ \A l \in Loops(o) : l \in 0..MaxRounds
  BY Calls, NHRAssumption
<1>7. piece(o, t, 0) = 0
  <2>1. piece(o, t, 0) = Len(FlattenSeq([i \in 1..0 |-> KernelRun(o, i, t[1], t[2])]))
    BY <1>6
  <2>2. [i \in 1..0 |-> KernelRun(o, i, t[1], t[2])] = <<>>
    OBVIOUS
  <2>3. FlattenSeq(<<>>) = <<>>
    BY EmptySeq DEF FlattenSeq
  <2> QED BY <2>1, <2>2, <2>3
<1>8. 0 \in 0..MaxRounds
  BY <1>6
<1>9. RoundEnd[o][t][0] = 0
  BY <1>5, <1>7, <1>8
<1>10. ASSUME NEW l \in Loops(o)
       PROVE  RoundEnd[o][t][l] = Len(FlattenSeq([i \in 1..l |-> KernelRun(o, i, t[1], t[2])]))
  BY <1>5, <1>6
<1> QED BY <1>9, <1>10

(* A whole program, and the marks along it.                                *)
LEMMA ProgramRun ==
  ASSUME NEW o \in Options, NEW t \in Threads
  PROVE  /\ Program[o][t] \in Seq(Tasks)
         /\ \A l \in 0..Len(o.counts) : RoundEnd[o][t][l] \in 0..Len(Program[o][t])
         /\ Marking(o, t, Program[o][t], Way(o, t), Rest(o, t, 0), Rest(o, t, Len(o.counts)))
         /\ \A l \in 0..Len(o.counts) : Way(o, t)[RoundEnd[o][t][l] + 1] = Rest(o, t, l)
<1> DEFINE n  == Len(o.counts)
           ss == [l \in 1..n |-> KernelRun(o, l, t[1], t[2])]
           P  == [l \in 1..(n + 1) |-> Rest(o, t, l - 1)]
<1>1. n \in Nat \ {0} /\ Loops(o) = 1..n
  BY Calls
<1>2. Len(ss) = n
  BY <1>1
<1>3. /\ \A l \in 1..n : ss[l] \in Runs(o, t, P[l], P[l + 1]) /\ P[l + 1] = Rest(o, t, l)
      /\ P[1] = Rest(o, t, 0) /\ P[n + 1] = Rest(o, t, n)
  <2>1. \A l \in 1..(n + 1) : P[l] = Rest(o, t, l - 1)
    OBVIOUS
  <2>2. ASSUME NEW l \in 1..n
        PROVE  ss[l] \in Runs(o, t, P[l], P[l + 1]) /\ P[l + 1] = Rest(o, t, l)
    <3>1. ss[l] = KernelRun(o, l, t[1], t[2])
      OBVIOUS
    <3>2. l \in 1..(n + 1) /\ l + 1 \in 1..(n + 1) /\ (l + 1) - 1 = l
      BY <1>1
    <3> HIDE DEF ss, P
    <3>3. P[l] = Rest(o, t, l - 1) /\ P[l + 1] = Rest(o, t, l)
      BY <2>1, <3>2
    <3> QED BY <1>1, <3>1, <3>3, KernelRunRun
  <2>3. 1 \in 1..(n + 1) /\ n + 1 \in 1..(n + 1) /\ 1 - 1 = 0 /\ (n + 1) - 1 = n
    BY <1>1
  <2> HIDE DEF ss, P, n
  <2> QED BY <2>1, <2>2, <2>3
<1>4. Program[o][t] = FlattenSeq(ss)
  <2> DEFINE row(x) == Evaluated([u \in Threads |->
                         FlattenSeq([l \in Loops(x) |-> KernelRun(x, l, u[1], u[2])])])
  <2>1. Program = Evaluated([x \in Options |-> row(x)])
    BY DEF Program
  <2>2. row(o)[t] = FlattenSeq([l \in Loops(o) |-> KernelRun(o, l, t[1], t[2])])
    BY EvaluatedIs
  <2> HIDE DEF row
  <2>3. Program[o] = row(o)
    BY <2>1, EvaluatedIs
  <2> QED BY <1>1, <2>2, <2>3
<1>5. ASSUME NEW l \in 1..n
      PROVE  RoundEnd[o][t][l] = Len(Prefix(ss, l))
  <2> DEFINE x == FlattenSeq([i \in 1..l |-> KernelRun(o, i, t[1], t[2])])
  <2>1. [i \in 1..l |-> ss[i]] = [i \in 1..l |-> KernelRun(o, i, t[1], t[2])]
    <3>1. \A i \in 1..l : ss[i] = KernelRun(o, i, t[1], t[2])
      BY <1>1
    <3> HIDE DEF ss
    <3> QED BY <3>1
  <2>2. Prefix(ss, l) = x
    BY <2>1 DEF Prefix
  <2>3. RoundEnd[o][t][l] = Len(x)
    BY <1>1, RoundEndIs
  <2> HIDE DEF x
  <2> QED BY <2>2, <2>3
<1> HIDE DEF ss, P, n
<1>6. /\ FlattenSeq(ss) \in Seq(Tasks)
      /\ \E f : Marking(o, t, FlattenSeq(ss), f, P[1], P[n + 1]) /\ StopsAt(f, ss, P, n)
  <2>1. \A l \in 1..n : ss[l] \in Runs(o, t, P[l], P[l + 1])
    BY <1>3
  <2> QED BY <1>1, <1>2, <2>1, FlattenStops
<1>7. PICK f : Marking(o, t, FlattenSeq(ss), f, P[1], P[n + 1]) /\ StopsAt(f, ss, P, n)
  BY <1>6
<1>8. RoundEnd[o][t][0] = 0
  BY RoundEndIs
<1>9. ASSUME NEW l \in 0..n
      PROVE  /\ RoundEnd[o][t][l] \in 0..Len(FlattenSeq(ss))
             /\ f[RoundEnd[o][t][l] + 1] = Rest(o, t, l)
  <2>1. CASE l = 0
    <3>1. f[1] = P[1]
      BY <1>7 DEF Marking
    <3>2. RoundEnd[o][t][l] = 0 /\ 0 + 1 = 1
      BY <1>8, <2>1
    <3>3. Len(FlattenSeq(ss)) \in Nat
      BY <1>6, LenProperties
    <3> QED BY <1>3, <2>1, <3>1, <3>2, <3>3
  <2>2. CASE l # 0
    <3>1. l \in 1..n
      BY <1>1, <2>2
    <3>2. /\ Len(Prefix(ss, l)) \in Nat /\ Len(Prefix(ss, l)) <= Len(FlattenSeq(ss))
          /\ f[Len(Prefix(ss, l)) + 1] = P[l + 1]
      BY <1>7, <3>1 DEF StopsAt
    <3>3. Len(FlattenSeq(ss)) \in Nat
      BY <1>6, LenProperties
    <3> DEFINE a == Len(Prefix(ss, l))
               b == Len(FlattenSeq(ss))
    <3>4. a \in 0..b
      <4> HIDE DEF a, b
      <4>1. a \in Nat /\ a <= b /\ b \in Nat
        BY <3>2, <3>3 DEF a, b
      <4> QED BY <4>1
    <3> QED BY <1>3, <1>5, <3>1, <3>2, <3>4
  <2> QED BY <2>1, <2>2
<1>10. Marking(o, t, Program[o][t], f, Rest(o, t, 0), Rest(o, t, n))
  BY <1>3, <1>4, <1>7
<1>11. /\ Marking(o, t, Program[o][t], Way(o, t), Rest(o, t, 0), Rest(o, t, n))
       /\ \A l \in 0..n : Way(o, t)[RoundEnd[o][t][l] + 1] = Rest(o, t, l)
  BY <1>9, <1>10 DEF Way, n
<1> QED BY <1>4, <1>6, <1>9, <1>11 DEF n

-----------------------------------------------------------------------------
(* The threads *)

(* A thread at rest is a mark with no exchange open.                       *)
LEMMA RestFacts ==
  ASSUME NEW o \in Options, NEW t \in Threads, NEW l \in 0..Len(o.counts)
  PROVE  LET a == Rest(o, t, l)
         IN  a \in Marks(o, t) /\ a.crew = {} /\ a.phase = 0 /\ a.step = FirstStep(l + 1)
<1>1. Len(o.counts) \in Nat \ {0} /\ Loops(o) = 1..Len(o.counts)
  BY Calls
<1>2. CASE l = 0
  <2>1. 1 \in Loops(o) /\ 1 - 1 = 0 /\ FirstStep(0 + 1) = FirstStep(1)
    BY <1>1
  <2>2. Rest(o, t, 0) = Entering(o, t, ScatterLeg(o, 1), {}) /\ Rest(o, t, 0) \in Marks(o, t)
    BY <2>1, RestIs
  <2>3. LegStart(o, ScatterLeg(o, 1)) = FirstStep(1)
    BY <2>1, RoundLegs
  <2> QED BY <1>2, <2>1, <2>2, <2>3 DEF Entering, Mark
<1>3. CASE l # 0
  <2>1. l \in Loops(o)
    BY <1>1, <1>3
  <2>2. Rest(o, t, l) = Leaving(o, t, GatherLeg(o, l), {}) /\ Rest(o, t, l) \in Marks(o, t)
    BY <2>1, RestIs
  <2>3. LegStart(o, GatherLeg(o, l) + 1) = FirstStep(l + 1)
    BY <2>1, RoundLegs
  <2> QED BY <2>2, <2>3 DEF Leaving, Mark
<1> QED BY <1>2, <1>3

HaveType ==
  /\ opt \in Options
  /\ pc \in [Threads -> Nat]
  /\ \A t \in Threads : pc[t] \in 1..(Len(Prog(t)) + 1)
  /\ notified \subseteq Registers
  /\ DOMAIN mem = Cells

(* Where a thread stands, and that its next task is one of those that      *)
(* Follows allows.                                                         *)
LEMMA Place ==
  ASSUME HaveType, NEW t \in Threads
  PROVE  /\ Marking(opt, t, Prog(t), Way(opt, t), Rest(opt, t, 0), Rest(opt, t, Len(opt.counts)))
         /\ At(t) \in Marks(opt, t)
         /\ Prog(t) \in Seq(Tasks) /\ Len(Prog(t)) \in Nat
         /\ Pending(t) =>
              /\ Current(t) \in Tasks
              /\ Way(opt, t)[pc[t] + 1] \in Marks(opt, t)
              /\ Follows(opt, t, At(t), Current(t), Way(opt, t)[pc[t] + 1])
         /\ ~Pending(t) => At(t) = Rest(opt, t, Len(opt.counts))
<1> DEFINE n == Len(Prog(t))
           w == Way(opt, t)
           i == pc[t]
<1>1. /\ opt \in Options /\ i \in 1..(n + 1)
      /\ Marking(opt, t, Prog(t), w, Rest(opt, t, 0), Rest(opt, t, Len(opt.counts)))
  BY ProgramRun DEF HaveType, Prog
<1>2. Prog(t) \in Seq(Tasks) /\ n \in Nat
  <2>1. Prog(t) \in Seq(Tasks)
    BY <1>1, ProgramRun DEF Prog
  <2> QED BY <2>1, LenProperties
<1>3. /\ w \in [1..(n + 1) -> Marks(opt, t)] /\ w[n + 1] = Rest(opt, t, Len(opt.counts))
      /\ \A j \in 1..n : Follows(opt, t, w[j], Prog(t)[j], w[j + 1])
  BY <1>1 DEF Marking
<1>4. At(t) = w[i]
  BY DEF At
<1>5. Pending(t) <=> i \in 1..n
  BY <1>1, <1>2 DEF Pending
<1>6. ~Pending(t) => i = n + 1
  BY <1>1, <1>2, <1>5
<1>7. At(t) \in Marks(opt, t)
  BY <1>1, <1>3, <1>4
<1>8. ASSUME Pending(t)
      PROVE  /\ Current(t) \in Tasks
             /\ w[i + 1] \in Marks(opt, t)
             /\ Follows(opt, t, At(t), Current(t), w[i + 1])
  <2>1. i \in 1..n /\ i + 1 \in 1..(n + 1)
    BY <1>2, <1>5, <1>8
  <2>2. Current(t) = Prog(t)[i]
    BY DEF Current
  <2>3. Prog(t)[i] \in Tasks
    BY <1>2, <2>1, ElementOfSeq
  <2> QED BY <1>3, <1>4, <2>1, <2>2, <2>3
<1> HIDE DEF n, w, i
<1>9. ~Pending(t) => At(t) = Rest(opt, t, Len(opt.counts))
  BY <1>3, <1>4, <1>6
<1> QED BY <1>1, <1>2, <1>7, <1>8, <1>9 DEF n, w, i

(* What a task does to the registers.                                      *)
Notifies(task) ==
  /\ task.op = "record" => notified' = notified \cup {task.reg}
  /\ task.op = "wait" => task.reg \in notified /\ notified' = notified \ {task.reg}
  /\ task.op = "move" => notified' = notified

(* The notify that a task records or waits for is a register, and the      *)
(* thread is its recorder or its waiter.                                   *)
LEMMA TaskRegister ==
  ASSUME NEW o \in Options, NEW t \in Threads, NEW a \in Marks(o, t), NEW b, NEW task,
         Follows(o, t, a, task, b), task.op \in {"record", "wait"}
  PROVE  task.reg \in Registers
<1>1. t[1] \in Ranks /\ t[2] \in 1..Channels
  BY ThreadFacts
<1>2. CASE CrewTask(t, a, task, b)
  <2>1. PICK i \in 2..Channels : task.reg \in {<<"start", t[1], t[1], i>>, <<"finish", t[1], t[1], i>>}
    BY <1>2 DEF CrewTask
  <2> QED BY <1>1, <2>1 DEF Registers
<1>3. CASE LocalTask(o, t, a, task, b)
  BY <1>3 DEF LocalTask
<1>4. CASE ChannelTask(o, t, a, task, b)
  <2>1. a.step \in 1..Steps(o)
    BY <1>4, MarkRange, Calls DEF ChannelTask
  <2>2. AckPeer(o, a.step, t[1]) \in Ranks /\ DataPeer(o, a.step, t[1]) \in Ranks
    BY <1>1, <2>1, Peers
  <2>3. PICK kind \in {"ack", "data"}, x \in Ranks, y \in Ranks : task.reg = <<kind, x, y, t[2]>>
    BY <1>1, <1>4, <2>2 DEF ChannelTask
  <2> QED BY <1>1, <2>3 DEF Registers
<1> QED BY <1>2, <1>3, <1>4 DEF Follows

(* The copies and transfers among the tasks.                               *)
LEMMA TaskMoves ==
  ASSUME NEW o \in Options, NEW t \in Threads, NEW a \in Marks(o, t), NEW b, NEW task,
         Follows(o, t, a, task, b), task.op = "move"
  PROVE  TouchedBy(task.moves) \subseteq Cells
BY DEF Follows, CrewTask, LocalTask, ChannelTask

(* A step of a thread.                                                     *)
LEMMA Advance ==
  ASSUME HaveType, NEW t \in Threads, Execute(t)
  PROVE  /\ HaveType'
         /\ opt' = opt
         /\ Pending(t)
         /\ Follows(opt, t, At(t), Current(t), At(t)')
         /\ At(t) \in Marks(opt, t) /\ At(t)' \in Marks(opt, t)
         /\ \A u \in Threads : u # t => At(u)' = At(u)
         /\ Notifies(Current(t))
<1> DEFINE w == Way(opt, t)
           task == Current(t)
<1>1. Pending(t) /\ opt' = opt /\ pc' = [pc EXCEPT ![t] = @ + 1]
  BY DEF Execute, ExecuteRecord, ExecuteWait, ExecuteMove, Step
<1>2. /\ task \in Tasks
      /\ w[pc[t] + 1] \in Marks(opt, t)
      /\ Follows(opt, t, At(t), task, w[pc[t] + 1])
      /\ At(t) \in Marks(opt, t)
      /\ Len(Prog(t)) \in Nat
  BY <1>1, Place
<1>3. pc \in [Threads -> Nat] /\ pc[t] \in 1..(Len(Prog(t)) + 1) /\ opt \in Options
  BY DEF HaveType
<1>4. pc' \in [Threads -> Nat] /\ pc'[t] = pc[t] + 1 /\ \A u \in Threads : u # t => pc'[u] = pc[u]
  BY <1>1, <1>3
<1>5. At(t)' = w[pc[t] + 1] /\ \A u \in Threads : u # t => At(u)' = At(u)
  BY <1>1, <1>4 DEF At
<1>6. \A u \in Threads : pc'[u] \in 1..(Len(Prog(u)') + 1)
  <2>1. \A u \in Threads : Prog(u)' = Prog(u)
    BY <1>1 DEF Prog
  <2>2. pc[t] + 1 \in 1..(Len(Prog(t)) + 1)
    BY <1>1, <1>2, <1>3 DEF Pending
  <2>3. \A u \in Threads : pc[u] \in 1..(Len(Prog(u)) + 1)
    BY DEF HaveType
  <2> QED BY <1>4, <2>1, <2>2, <2>3
<1>7. Notifies(task)
  BY DEF Execute, ExecuteRecord, ExecuteWait, ExecuteMove, Notifies
<1>8. notified' \subseteq Registers
  <2>1. task.op \in {"record", "wait"} => task.reg \in Registers
    BY <1>2, <1>3, TaskRegister
  <2>2. notified \subseteq Registers
    BY DEF HaveType
  <2>3. task.op \in {"record", "wait", "move"}
    BY DEF Execute, ExecuteRecord, ExecuteWait, ExecuteMove
  <2> HIDE DEF task
  <2> QED BY <1>7, <2>1, <2>2, <2>3 DEF Notifies
<1>9. DOMAIN mem' = Cells
  <2>1. DOMAIN mem = Cells
    BY DEF HaveType
  <2>2. CASE ExecuteRecord(t) \/ ExecuteWait(t)
    BY <2>1, <2>2 DEF ExecuteRecord, ExecuteWait
  <2>3. CASE ExecuteMove(t)
    <3>1. task.op = "move" /\ DOMAIN mem' = DOMAIN task.moves \cup DOMAIN mem
      BY <2>3 DEF ExecuteMove
    <3>2. DOMAIN task.moves \subseteq Cells
      BY <1>2, <1>3, <3>1, TaskMoves DEF TouchedBy
    <3> QED BY <2>1, <3>1, <3>2
  <2> QED BY <2>2, <2>3 DEF Execute
<1>10. HaveType'
  BY <1>1, <1>3, <1>4, <1>6, <1>8, <1>9 DEF HaveType
<1> QED BY <1>1, <1>2, <1>5, <1>7, <1>10

-----------------------------------------------------------------------------
(* The exchanges *)

GivenBy(o, g, a) ==
  IF g[1] = "ack" THEN a.phase >= 1 /\ AckPeer(o, a.step, g[2]) = g[3] ELSE g[4] \in a.crew
TakenBy(o, g, a) ==
  IF g[1] = "ack" THEN a.phase \in 2..3 /\ DataPeer(o, a.step, g[3]) = g[2] ELSE g[4] \in a.crew

(* Whether an exchange is given or taken, by where its two threads stand.  *)
LEMMA GivenIs ==
  ASSUME NEW g
  PROVE  /\ Given(g) <=> GivenBy(opt, g, At(Recorder(g)))
         /\ Taken(g) <=> TakenBy(opt, g, At(Waiter(g)))
BY DEF Given, Taken, GivenBy, TakenBy, Recorder, Waiter

(* Who records and who waits for the two notifies of an exchange.          *)
LEMMA GrantIs ==
  ASSUME NEW g \in Grants
  PROVE  /\ Recorder(g) \in Threads /\ Waiter(g) \in Threads /\ Recorder(g) # Waiter(g)
         /\ \/ \E x, y \in Ranks, c \in 1..Channels :
                 /\ x # y /\ g = <<"ack", x, y, c>> /\ Answer(g) = <<"data", y, x, c>>
                 /\ Recorder(g) = <<x, c>> /\ Waiter(g) = <<y, c>>
            \/ \E r \in Ranks, i \in 2..Channels :
                 /\ g = <<"start", r, r, i>> /\ Answer(g) = <<"finish", r, r, i>>
                 /\ Recorder(g) = <<r, 1>> /\ Waiter(g) = <<r, i>>
<1>1. CASE \E x, y \in Ranks, c \in 1..Channels : x # y /\ g = <<"ack", x, y, c>>
  BY <1>1 DEF Answer, Recorder, Waiter, Threads
<1>2. CASE \E r \in Ranks, i \in 2..Channels : g = <<"start", r, r, i>>
  BY <1>2, Sizes DEF Answer, Recorder, Waiter, Threads
<1> QED BY <1>1, <1>2 DEF Grants

(* Who executes the tasks of an exchange, and what it means.               *)

RecorderStep(o, t, g, task, a, b) ==
  IF t # Recorder(g)
  THEN ~(task.op = "record" /\ task.reg = g) /\ ~(task.op = "wait" /\ task.reg = Answer(g))
  ELSE \/ task.op = "record" /\ task.reg = g /\ ~GivenBy(o, g, a) /\ GivenBy(o, g, b)
       \/ task.op = "wait" /\ task.reg = Answer(g) /\ GivenBy(o, g, a) /\ ~GivenBy(o, g, b)
       \/ /\ ~(task.op = "record" /\ task.reg = g)
          /\ ~(task.op = "wait" /\ task.reg = Answer(g))
          /\ GivenBy(o, g, a) <=> GivenBy(o, g, b)

WaiterStep(o, t, g, task, a, b) ==
  IF t # Waiter(g)
  THEN ~(task.op = "wait" /\ task.reg = g) /\ ~(task.op = "record" /\ task.reg = Answer(g))
  ELSE \/ task.op = "wait" /\ task.reg = g /\ ~TakenBy(o, g, a) /\ TakenBy(o, g, b)
       \/ task.op = "record" /\ task.reg = Answer(g) /\ TakenBy(o, g, a) /\ ~TakenBy(o, g, b)
       \/ /\ ~(task.op = "wait" /\ task.reg = g)
          /\ ~(task.op = "record" /\ task.reg = Answer(g))
          /\ TakenBy(o, g, a) <=> TakenBy(o, g, b)

(* What a task does to an exchange between two ranks.                      *)
LEMMA AckStep ==
  ASSUME NEW o \in Options, NEW t \in Threads, NEW a \in Marks(o, t), NEW b, NEW task,
         NEW x \in Ranks, NEW y \in Ranks, NEW c \in 1..Channels, x # y,
         Follows(o, t, a, task, b)
  PROVE  LET g == <<"ack", x, y, c>>
         IN  RecorderStep(o, t, g, task, a, b) /\ WaiterStep(o, t, g, task, a, b)
<1> DEFINE g == <<"ack", x, y, c>>
           k == a.step
           r == t[1]
           ap == AckPeer(o, k, r)
           dp == DataPeer(o, k, r)
           n == <<"data", y, x, c>>
<1> SUFFICES RecorderStep(o, t, g, task, a, b) /\ WaiterStep(o, t, g, task, a, b)
  OBVIOUS
<1>1. Answer(g) = n /\ Recorder(g) = <<x, c>> /\ Waiter(g) = <<y, c>>
  BY DEF Answer, Recorder, Waiter
<1>2. t = <<r, t[2]>> /\ k \in Nat
  BY ThreadFacts, MarkRange, Calls
<1>3. /\ \A m : GivenBy(o, g, m) <=> m.phase >= 1 /\ AckPeer(o, m.step, x) = y
      /\ \A m : TakenBy(o, g, m) <=> m.phase \in 2..3 /\ DataPeer(o, m.step, y) = x
  BY DEF GivenBy, TakenBy
<1>4. task.op = "record" \/ task.op = "wait" \/ task.op = "move"
  BY DEF Follows, CrewTask, LocalTask, ChannelTask
<1>5. CASE CrewTask(t, a, task, b)
  <2>1. \E i \in 2..Channels : task.reg = <<"start", r, r, i>> \/ task.reg = <<"finish", r, r, i>>
    BY <1>5 DEF CrewTask
  <2>2. task.reg # g /\ task.reg # n
    BY <2>1
  <2>3. a.phase = 0 /\ b.phase = 0
    BY <1>5 DEF CrewTask, Mark
  <2> HIDE DEF g, n
  <2> QED BY <1>1, <1>3, <2>2, <2>3 DEF RecorderStep, WaiterStep
<1>6. CASE LocalTask(o, t, a, task, b)
  <2>1. a.phase = 0 /\ b.phase = 0 /\ task.op = "move"
    BY <1>6 DEF LocalTask, Mark
  <2> HIDE DEF g, n
  <2> QED BY <1>1, <1>3, <2>1 DEF RecorderStep, WaiterStep
<1>7. CASE ChannelTask(o, t, a, task, b)
  <2> DEFINE here(p, q, j) == a.phase = p /\ b.phase = q /\ b.step = j
  <2>1. \/ here(0, 1, k) /\ task.op = "record" /\ task.reg = <<"ack", r, ap, t[2]>>
        \/ here(1, 2, k) /\ task.op = "wait" /\ task.reg = <<"ack", dp, r, t[2]>>
        \/ here(2, 3, k) /\ task.op = "move"
        \/ here(3, 4, k) /\ task.op = "record" /\ task.reg = <<"data", r, dp, t[2]>>
        \/ here(4, 0, k + 1) /\ task.op = "wait" /\ task.reg = <<"data", ap, r, t[2]>>
    BY <1>7 DEF ChannelTask, Mark
  <2>2. CASE here(0, 1, k) /\ task.op = "record" /\ task.reg = <<"ack", r, ap, t[2]>>
    <3>1. task.reg # n /\ (task.reg = g <=> r = x /\ ap = y /\ t[2] = c)
      BY <2>2
    <3> HIDE DEF g, n, r
    <3> QED BY <1>1, <1>2, <1>3, <2>2, <3>1 DEF RecorderStep, WaiterStep
  <2>3. CASE here(1, 2, k) /\ task.op = "wait" /\ task.reg = <<"ack", dp, r, t[2]>>
    <3>1. task.reg # n /\ (task.reg = g <=> r = y /\ dp = x /\ t[2] = c)
      BY <2>3
    <3> HIDE DEF g, n, r
    <3> QED BY <1>1, <1>2, <1>3, <2>3, <3>1 DEF RecorderStep, WaiterStep
  <2>4. CASE here(2, 3, k) /\ task.op = "move"
    <3> HIDE DEF g, n, r
    <3> QED BY <1>1, <1>2, <1>3, <2>4 DEF RecorderStep, WaiterStep
  <2>5. CASE here(3, 4, k) /\ task.op = "record" /\ task.reg = <<"data", r, dp, t[2]>>
    <3>1. task.reg # g /\ (task.reg = n <=> r = y /\ dp = x /\ t[2] = c)
      BY <2>5
    <3> HIDE DEF g, n, r
    <3> QED BY <1>1, <1>2, <1>3, <2>5, <3>1 DEF RecorderStep, WaiterStep
  <2>6. CASE here(4, 0, k + 1) /\ task.op = "wait" /\ task.reg = <<"data", ap, r, t[2]>>
    <3>1. task.reg # g /\ (task.reg = n <=> r = x /\ ap = y /\ t[2] = c)
      BY <2>6
    <3> HIDE DEF g, n, r
    <3> QED BY <1>1, <1>2, <1>3, <2>6, <3>1 DEF RecorderStep, WaiterStep
  <2> QED BY <2>1, <2>2, <2>3, <2>4, <2>5, <2>6
<1> QED BY <1>5, <1>6, <1>7 DEF Follows

(* What a task does to an exchange between the main thread and another.    *)
LEMMA StartStep ==
  ASSUME NEW o \in Options, NEW t \in Threads, NEW a \in Marks(o, t), NEW b, NEW task,
         NEW r \in Ranks, NEW i \in 2..Channels,
         Follows(o, t, a, task, b)
  PROVE  LET g == <<"start", r, r, i>>
         IN  RecorderStep(o, t, g, task, a, b) /\ WaiterStep(o, t, g, task, a, b)
<1> DEFINE g == <<"start", r, r, i>>
           n == <<"finish", r, r, i>>
<1> SUFFICES RecorderStep(o, t, g, task, a, b) /\ WaiterStep(o, t, g, task, a, b)
  OBVIOUS
<1>1. Answer(g) = n /\ Recorder(g) = <<r, 1>> /\ Waiter(g) = <<r, i>>
  BY DEF Answer, Recorder, Waiter
<1>2. t = <<t[1], t[2]>> /\ i \in Nat /\ i # 1
  BY ThreadFacts, Sizes
<1>3. /\ \A m : GivenBy(o, g, m) <=> i \in m.crew
      /\ \A m : TakenBy(o, g, m) <=> i \in m.crew
  BY DEF GivenBy, TakenBy
<1>4. g # n
  OBVIOUS
<1>5. CASE CrewTask(t, a, task, b)
  <2>1. PICK j \in 2..Channels :
          /\ t[2] \in {1, j}
          /\ \/ /\ task.op = IF t[2] = 1 THEN "record" ELSE "wait"
                /\ task.reg = <<"start", t[1], t[1], j>>
                /\ j \notin a.crew
                /\ b.crew = a.crew \cup {j}
             \/ /\ task.op = IF t[2] = 1 THEN "wait" ELSE "record"
                /\ task.reg = <<"finish", t[1], t[1], j>>
                /\ j \in a.crew
                /\ b.crew = a.crew \ {j}
    BY <1>5 DEF CrewTask, Mark
  <2>2. CASE task.reg = <<"start", t[1], t[1], j>> /\ j \notin a.crew /\ b.crew = a.crew \cup {j}
             /\ task.op = IF t[2] = 1 THEN "record" ELSE "wait"
    <3>1. task.reg # n /\ (task.reg = g <=> t[1] = r /\ j = i)
      BY <2>2
    <3> HIDE DEF g, n
    <3> QED BY <1>1, <1>2, <1>3, <2>1, <2>2, <3>1 DEF RecorderStep, WaiterStep
  <2>3. CASE task.reg = <<"finish", t[1], t[1], j>> /\ j \in a.crew /\ b.crew = a.crew \ {j}
             /\ task.op = IF t[2] = 1 THEN "wait" ELSE "record"
    <3>1. task.reg # g /\ (task.reg = n <=> t[1] = r /\ j = i)
      BY <2>3
    <3> HIDE DEF g, n
    <3> QED BY <1>1, <1>2, <1>3, <2>1, <2>3, <3>1 DEF RecorderStep, WaiterStep
  <2> QED BY <2>1, <2>2, <2>3
<1>6. CASE LocalTask(o, t, a, task, b)
  <2>1. b.crew = a.crew /\ task.op = "move"
    BY <1>6 DEF LocalTask, Mark
  <2> HIDE DEF g, n
  <2> QED BY <1>1, <1>3, <2>1 DEF RecorderStep, WaiterStep
<1>7. CASE ChannelTask(o, t, a, task, b)
  <2>1. b.crew = a.crew
    BY <1>7 DEF ChannelTask, Mark
  <2>2. \/ task.op = "move"
        \/ \E x, y : task.reg = <<"ack", x, y, t[2]>> \/ task.reg = <<"data", x, y, t[2]>>
    BY <1>7 DEF ChannelTask
  <2>3. task.op # "move" => task.reg # g /\ task.reg # n
    BY <2>2
  <2> HIDE DEF g, n
  <2> QED BY <1>1, <1>3, <2>1, <2>3 DEF RecorderStep, WaiterStep
<1> QED BY <1>5, <1>6, <1>7 DEF Follows

(* What a task does to any exchange.                                       *)
LEMMA GrantStep ==
  ASSUME NEW o \in Options, NEW t \in Threads, NEW a \in Marks(o, t), NEW b, NEW task,
         NEW g \in Grants, Follows(o, t, a, task, b)
  PROVE  RecorderStep(o, t, g, task, a, b) /\ WaiterStep(o, t, g, task, a, b)
BY GrantIs, AckStep, StartStep

(* Every notify opens or closes an exchange.                               *)
LEMMA OfAGrant ==
  ASSUME NEW o \in Options, NEW t \in Threads, NEW a \in Marks(o, t), NEW b, NEW task,
         Follows(o, t, a, task, b), task.op \in {"record", "wait"}
  PROVE  \E g \in Grants : task.reg \in {g, Answer(g)}
<1>1. t[1] \in Ranks /\ t[2] \in 1..Channels
  BY ThreadFacts
<1>2. CASE CrewTask(t, a, task, b)
  <2>1. PICK i \in 2..Channels :
          task.reg = <<"start", t[1], t[1], i>> \/ task.reg = <<"finish", t[1], t[1], i>>
    BY <1>2 DEF CrewTask
  <2> DEFINE g == <<"start", t[1], t[1], i>>
  <2>2. g \in Grants /\ Answer(g) = <<"finish", t[1], t[1], i>>
    BY <1>1 DEF Grants, Answer
  <2> HIDE DEF g
  <2>3. task.reg = g \/ task.reg = Answer(g)
    BY <2>1, <2>2 DEF g
  <2> QED BY <2>2, <2>3
<1>3. CASE LocalTask(o, t, a, task, b)
  BY <1>3 DEF LocalTask
<1>4. CASE ChannelTask(o, t, a, task, b)
  <2>1. a.step \in 1..Steps(o)
    BY <1>4, MarkRange, Calls DEF ChannelTask
  <2> DEFINE ap == AckPeer(o, a.step, t[1])
             dp == DataPeer(o, a.step, t[1])
             g == <<"ack", t[1], ap, t[2]>>
             h == <<"ack", dp, t[1], t[2]>>
  <2>2. ap \in Ranks /\ dp \in Ranks /\ ap # t[1] /\ dp # t[1]
    BY <1>1, <2>1, Peers
  <2>3. g \in Grants /\ Answer(g) = <<"data", ap, t[1], t[2]>>
    <3> HIDE DEF ap
    <3>1. <<t[1], ap>> \in {y \in Ranks \X Ranks : y[1] # y[2]}
      BY <1>1, <2>2
    <3>2. g = <<"ack", (<<t[1], ap>>)[1], (<<t[1], ap>>)[2], t[2]>>
      OBVIOUS
    <3>3. g \in Grants
      BY <1>1, <3>1, <3>2 DEF Grants
    <3>4. Answer(g) = <<"data", ap, t[1], t[2]>>
      BY DEF Answer
    <3> QED BY <3>3, <3>4
  <2>4. h \in Grants /\ Answer(h) = <<"data", t[1], dp, t[2]>>
    <3> HIDE DEF dp
    <3>1. <<dp, t[1]>> \in {y \in Ranks \X Ranks : y[1] # y[2]}
      BY <1>1, <2>2
    <3>2. h = <<"ack", (<<dp, t[1]>>)[1], (<<dp, t[1]>>)[2], t[2]>>
      OBVIOUS
    <3>3. h \in Grants
      BY <1>1, <3>1, <3>2 DEF Grants
    <3>4. Answer(h) = <<"data", t[1], dp, t[2]>>
      BY DEF Answer
    <3> QED BY <3>3, <3>4
  <2>5. \/ task.reg = <<"ack", t[1], ap, t[2]>> \/ task.reg = <<"ack", dp, t[1], t[2]>>
        \/ task.reg = <<"data", t[1], dp, t[2]>> \/ task.reg = <<"data", ap, t[1], t[2]>>
    BY <1>4 DEF ChannelTask
  <2>6. task.reg \in {g, Answer(g)} \/ task.reg \in {h, Answer(h)}
    BY <2>3, <2>4, <2>5
  <2> HIDE DEF g, h
  <2> QED BY <2>3, <2>4, <2>6
<1> QED BY <1>2, <1>3, <1>4 DEF Follows

-----------------------------------------------------------------------------
(* The notifies *)

PairedAt(g) ==
  /\ Taken(g) => Given(g)
  /\ g \in notified \/ Answer(g) \in notified <=> Given(g) /\ ~Taken(g)
  /\ ~(g \in notified /\ Answer(g) \in notified)

(* The two notifies of an exchange are different ones.                     *)
LEMMA GrantNames == ASSUME NEW g \in Grants PROVE g # Answer(g)
<1>1. ASSUME NEW x, NEW y, NEW c PROVE <<"ack", x, y, c>> # <<"data", y, x, c>>
  OBVIOUS
<1>2. ASSUME NEW r, NEW i PROVE <<"start", r, r, i>> # <<"finish", r, r, i>>
  OBVIOUS
<1> QED BY <1>1, <1>2, GrantIs

(* Of an exchange, a step of a thread changes one of its two sides at      *)
(* most, with the notify that belongs to it.                               *)
LEMMA PairedStep ==
  ASSUME HaveType, NEW g \in Grants, PairedAt(g), NEW t \in Threads, Execute(t)
  PROVE  PairedAt(g)'
<1> DEFINE task == Current(t)
           a == At(t)
           b == At(t)'
           R == Recorder(g)
           W == Waiter(g)
           m == Answer(g)
<1>1. /\ opt' = opt /\ Follows(opt, t, a, task, b) /\ a \in Marks(opt, t)
      /\ \A u \in Threads : u # t => At(u)' = At(u)
      /\ Notifies(task)
  BY Advance
<1>2. opt \in Options
  BY DEF HaveType
<1>3. RecorderStep(opt, t, g, task, a, b) /\ WaiterStep(opt, t, g, task, a, b)
  BY <1>1, <1>2, GrantStep
<1>4. R \in Threads /\ W \in Threads /\ R # W
  BY GrantIs
<1>5. /\ Given(g) <=> GivenBy(opt, g, At(R))
      /\ Taken(g) <=> TakenBy(opt, g, At(W))
      /\ Given(g)' <=> GivenBy(opt, g, At(R)')
      /\ Taken(g)' <=> TakenBy(opt, g, At(W)')
  <2>1. /\ Given(g)' <=> GivenBy(opt', g, At(R)')
        /\ Taken(g)' <=> TakenBy(opt', g, At(W)')
    BY DEF Given, Taken, GivenBy, TakenBy, Recorder, Waiter
  <2> QED BY <1>1, <2>1, GivenIs
<1>6. g # m
  BY GrantNames
<1>7. /\ Taken(g) => Given(g)
      /\ g \in notified \/ m \in notified <=> Given(g) /\ ~Taken(g)
      /\ ~(g \in notified /\ m \in notified)
  BY DEF PairedAt
<1>8. task.op = "record" \/ task.op = "wait" \/ task.op = "move"
  BY DEF Execute, ExecuteRecord, ExecuteWait, ExecuteMove
<1> DEFINE here == /\ Taken(g)' => Given(g)'
                   /\ g \in notified' \/ m \in notified' <=> Given(g)' /\ ~Taken(g)'
                   /\ ~(g \in notified' /\ m \in notified')
<1> HIDE DEF a, b, m, R, W, task
<1>9. CASE task.op = "record"
  <2>1. notified' = notified \cup {task.reg}
    BY <1>1, <1>9 DEF Notifies
  <2>2. CASE task.reg = g
    <3>1. t = R /\ ~GivenBy(opt, g, a) /\ GivenBy(opt, g, b)
      BY <1>3, <1>6, <1>9, <2>2 DEF RecorderStep, R, m
    <3>2. Given(g)' /\ ~Given(g) /\ (Taken(g)' <=> Taken(g))
      BY <1>1, <1>4, <1>5, <3>1 DEF a, b
    <3> QED BY <1>6, <1>7, <2>1, <2>2, <3>2 DEF PairedAt, m
  <2>3. CASE task.reg = m
    <3>1. t = W /\ TakenBy(opt, g, a) /\ ~TakenBy(opt, g, b)
      BY <1>3, <1>6, <1>9, <2>3 DEF WaiterStep, W, m
    <3>2. Taken(g) /\ ~Taken(g)' /\ (Given(g)' <=> Given(g))
      BY <1>1, <1>4, <1>5, <3>1 DEF a, b
    <3> QED BY <1>6, <1>7, <2>1, <2>3, <3>2 DEF PairedAt, m
  <2>4. CASE task.reg # g /\ task.reg # m
    <3>1. /\ t = R => (GivenBy(opt, g, a) <=> GivenBy(opt, g, b))
          /\ t = W => (TakenBy(opt, g, a) <=> TakenBy(opt, g, b))
      BY <1>3, <1>9, <2>4 DEF RecorderStep, WaiterStep, R, W, m
    <3>2. (Taken(g)' <=> Taken(g)) /\ (Given(g)' <=> Given(g))
      BY <1>1, <1>4, <1>5, <3>1 DEF a, b
    <3> QED BY <1>7, <2>1, <2>4, <3>2 DEF PairedAt, m
  <2> QED BY <2>2, <2>3, <2>4
<1>10. CASE task.op = "wait"
  <2>1. notified' = notified \ {task.reg} /\ task.reg \in notified
    BY <1>1, <1>10 DEF Notifies
  <2>2. CASE task.reg = g
    <3>1. t = W /\ ~TakenBy(opt, g, a) /\ TakenBy(opt, g, b)
      BY <1>3, <1>6, <1>10, <2>2 DEF WaiterStep, W, m
    <3>2. Taken(g)' /\ ~Taken(g) /\ (Given(g)' <=> Given(g))
      BY <1>1, <1>4, <1>5, <3>1 DEF a, b
    <3> QED BY <1>6, <1>7, <2>1, <2>2, <3>2 DEF PairedAt, m
  <2>3. CASE task.reg = m
    <3>1. t = R /\ GivenBy(opt, g, a) /\ ~GivenBy(opt, g, b)
      BY <1>3, <1>6, <1>10, <2>3 DEF RecorderStep, R, m
    <3>2. Given(g) /\ ~Given(g)' /\ (Taken(g)' <=> Taken(g))
      BY <1>1, <1>4, <1>5, <3>1 DEF a, b
    <3> QED BY <1>6, <1>7, <2>1, <2>3, <3>2 DEF PairedAt, m
  <2>4. CASE task.reg # g /\ task.reg # m
    <3>1. /\ t = R => (GivenBy(opt, g, a) <=> GivenBy(opt, g, b))
          /\ t = W => (TakenBy(opt, g, a) <=> TakenBy(opt, g, b))
      BY <1>3, <1>10, <2>4 DEF RecorderStep, WaiterStep, R, W, m
    <3>2. (Taken(g)' <=> Taken(g)) /\ (Given(g)' <=> Given(g))
      BY <1>1, <1>4, <1>5, <3>1 DEF a, b
    <3> QED BY <1>7, <2>1, <2>4, <3>2 DEF PairedAt, m
  <2> QED BY <2>2, <2>3, <2>4
<1>11. CASE task.op = "move"
  <2>1. notified' = notified
    BY <1>1, <1>11 DEF Notifies
  <2>2. /\ t = R => (GivenBy(opt, g, a) <=> GivenBy(opt, g, b))
        /\ t = W => (TakenBy(opt, g, a) <=> TakenBy(opt, g, b))
    BY <1>3, <1>11 DEF RecorderStep, WaiterStep, R, W
  <2>3. (Taken(g)' <=> Taken(g)) /\ (Given(g)' <=> Given(g))
    BY <1>1, <1>4, <1>5, <2>2 DEF a, b
  <2> QED BY <1>7, <2>1, <2>3 DEF PairedAt, m
<1> QED BY <1>8, <1>9, <1>10, <1>11

(* A thread that stands at a start.                                        *)
LEMMA InitFacts ==
  ASSUME Init
  PROVE  /\ HaveType /\ notified = {}
         /\ \A t \in Threads : At(t) = Rest(opt, t, 0)
<1>1. opt \in Options /\ pc = [t \in Threads |-> 1] /\ notified = {} /\ DOMAIN mem = Cells
  BY DEF Init
<1>2. ASSUME NEW t \in Threads
      PROVE  Len(Prog(t)) \in Nat /\ Way(opt, t)[1] = Rest(opt, t, 0)
  <2>1. /\ Prog(t) \in Seq(Tasks)
        /\ Marking(opt, t, Prog(t), Way(opt, t), Rest(opt, t, 0), Rest(opt, t, Len(opt.counts)))
    BY <1>1, ProgramRun DEF Prog
  <2>2. Len(Prog(t)) \in Nat
    BY <2>1, LenProperties
  <2> QED BY <2>1, <2>2 DEF Marking
<1>3. \A t \in Threads : At(t) = Rest(opt, t, 0)
  BY <1>1, <1>2 DEF At
<1>4. \A t \in Threads : pc[t] \in 1..(Len(Prog(t)) + 1)
  BY <1>1, <1>2
<1>5. HaveType
  BY <1>1, <1>4 DEF HaveType
<1> QED BY <1>1, <1>3, <1>5

(* No exchange is open when the threads start.                             *)
LEMMA PairedInit == ASSUME Init, NEW g \in Grants PROVE PairedAt(g)
<1>1. notified = {} /\ \A t \in Threads : At(t).crew = {} /\ At(t).phase = 0
  <2>1. opt \in Options /\ 0 \in 0..Len(opt.counts)
    BY InitFacts, Calls DEF HaveType
  <2> QED BY <2>1, InitFacts, RestFacts
<1>2. Recorder(g) \in Threads /\ Waiter(g) \in Threads
  BY GrantIs
<1> QED BY <1>1, <1>2, GivenIs DEF PairedAt, GivenBy, TakenBy

(* The notifies of all exchanges are set when they are due and only then.  *)
THEOREM Exchanges == Spec => [](HaveType /\ Paired)
<1>1. Init => HaveType /\ Paired
  BY InitFacts, PairedInit DEF Paired, PairedAt
<1>2. (HaveType /\ Paired) /\ [Next]_vars => (HaveType /\ Paired)'
  <2> SUFFICES ASSUME HaveType, Paired, [Next]_vars PROVE HaveType' /\ Paired'
    OBVIOUS
  <2>1. CASE UNCHANGED vars
    <3>1. opt' = opt /\ pc' = pc /\ notified' = notified /\ mem' = mem
      BY <2>1 DEF vars
    <3> QED BY <3>1 DEF HaveType, Paired, Given, Taken, At, Prog
  <2>2. ASSUME NEW t \in Threads, Execute(t) PROVE HaveType' /\ Paired'
    <3>1. HaveType'
      BY <2>2, Advance
    <3>2. \A g \in Grants : PairedAt(g)
      BY DEF Paired, PairedAt
    <3>3. \A g \in Grants : PairedAt(g)'
      BY <2>2, <3>2, PairedStep
    <3> QED BY <3>1, <3>3 DEF Paired, PairedAt
  <2> QED BY <2>1, <2>2 DEF Next
<1> QED BY <1>1, <1>2, PTL DEF Spec

(* TypeOK: no thread runs past its program, the notifies belong to a       *)
(* channel or to the main thread and another one of its rank, and no copy  *)
(* or transfer of KernelRun leaves the buffers, slices and channels.       *)
THEOREM TypeCorrect == Spec => []TypeOK
<1>1. HaveType => TypeOK
  BY DEF HaveType, TypeOK
<1> QED BY <1>1, Exchanges, PTL

(* NoNotifyLost: PostSync, PreSync and the data transfers never record a   *)
(* notify whose register is still set.                                     *)
THEOREM NotifiesNotLost == Spec => []NoNotifyLost
<1>1. HaveType /\ Paired => NoNotifyLost
  <2> SUFFICES ASSUME HaveType, Paired, NEW t \in Threads,
                      Pending(t), Current(t).op = "record"
               PROVE  Current(t).reg \notin notified
    BY DEF NoNotifyLost
  <2> DEFINE b == Way(opt, t)[pc[t] + 1]
             task == Current(t)
  <2>1. opt \in Options /\ At(t) \in Marks(opt, t) /\ Follows(opt, t, At(t), task, b)
    BY Place DEF HaveType
  <2> HIDE DEF b, task
  <2>2. PICK g \in Grants : task.reg \in {g, Answer(g)}
    BY <2>1, OfAGrant DEF task
  <2>3. RecorderStep(opt, t, g, task, At(t), b) /\ WaiterStep(opt, t, g, task, At(t), b)
    BY <2>1, GrantStep
  <2>4. PairedAt(g)
    BY DEF Paired, PairedAt
  <2>5. g # Answer(g)
    BY GrantNames
  <2>6. CASE task.reg = g
    <3>1. t = Recorder(g) /\ ~GivenBy(opt, g, At(t))
      BY <2>3, <2>5, <2>6 DEF RecorderStep, task
    <3> QED BY <2>4, <2>6, <3>1, GivenIs DEF PairedAt, task
  <2>7. CASE task.reg = Answer(g)
    <3>1. t = Waiter(g) /\ TakenBy(opt, g, At(t))
      BY <2>3, <2>5, <2>7 DEF WaiterStep, task
    <3> QED BY <2>4, <2>7, <3>1, GivenIs DEF PairedAt, task
  <2> QED BY <2>2, <2>6, <2>7
<1> QED BY <1>1, Exchanges, PTL

-----------------------------------------------------------------------------
(* The order of the steps *)

(* Within a handshake a thread goes from phase to phase.                   *)
LEMMA Marching ==
  ASSUME NEW o \in Options, NEW t \in Threads, NEW a \in Marks(o, t), NEW b, NEW task,
         Follows(o, t, a, task, b)
  PROVE  /\ \/ a.phase = 0 /\ b.phase = 0 /\ b.step = a.step
            \/ a.phase \in 0..3 /\ b.phase = a.phase + 1 /\ b.step = a.step
            \/ a.phase = 4 /\ b.phase = 0 /\ b.step = a.step + 1
         /\ a.phase = 1 => /\ task.op = "wait"
                           /\ task.reg = <<"ack", DataPeer(o, a.step, t[1]), t[1], t[2]>>
         /\ a.phase = 4 => /\ task.op = "wait"
                           /\ task.reg = <<"data", AckPeer(o, a.step, t[1]), t[1], t[2]>>
         /\ a.phase >= 1 => a.step \in 1..Steps(o) /\ Manned(t, a)
         /\ task.op = "record" => a.phase \notin {1, 2, 4}
<1>1. a.phase \in 0..4 /\ a.step \in 1..(Steps(o) + 1) /\ Steps(o) \in Nat
  BY MarkRange, Calls
<1>2. CASE CrewTask(t, a, task, b)
  BY <1>1, <1>2 DEF CrewTask, Mark
<1>3. CASE LocalTask(o, t, a, task, b)
  BY <1>1, <1>3 DEF LocalTask, Mark
<1>4. CASE ChannelTask(o, t, a, task, b)
  <2>1. /\ b.phase = IF a.phase = 4 THEN 0 ELSE a.phase + 1
        /\ b.step = IF a.phase = 4 THEN a.step + 1 ELSE a.step
    BY <1>1, <1>4 DEF ChannelTask, Mark
  <2>2. /\ a.phase = 1 => /\ task.op = "wait"
                          /\ task.reg = <<"ack", DataPeer(o, a.step, t[1]), t[1], t[2]>>
        /\ a.phase = 4 => /\ task.op = "wait"
                          /\ task.reg = <<"data", AckPeer(o, a.step, t[1]), t[1], t[2]>>
        /\ task.op = "record" => a.phase \notin {1, 2, 4}
    BY <1>4 DEF ChannelTask
  <2>3. a.step \in 1..Steps(o) /\ Manned(t, a)
    BY <1>1, <1>4 DEF ChannelTask
  <2> QED BY <1>1, <2>1, <2>2, <2>3
<1> QED BY <1>2, <1>3, <1>4 DEF Follows

(* A thread inside a handshake.                                            *)
LEMMA Working ==
  ASSUME HaveType, NEW t \in Threads, At(t).phase >= 1
  PROVE  Pending(t) /\ At(t).step \in 1..Steps(opt) /\ Manned(t, At(t))
<1>1. Pending(t)
  <2>1. opt \in Options /\ Len(opt.counts) \in 0..Len(opt.counts)
    BY Calls DEF HaveType
  <2>2. Rest(opt, t, Len(opt.counts)).phase = 0
    BY <2>1, RestFacts
  <2> QED BY <2>2, Place
<1>2. opt \in Options /\ At(t) \in Marks(opt, t) /\ \E b : Follows(opt, t, At(t), Current(t), b)
  BY <1>1, Place DEF HaveType
<1> QED BY <1>1, <1>2, Marching

(* A task never takes a thread back behind a step it has passed.           *)
LEMMA PastStep ==
  ASSUME HaveType, NEW t \in Threads, Execute(t), NEW u \in Threads,
         NEW k \in 1..Steps(opt), NEW e \in 0..4
  PROVE  /\ Past(u, k, e) => Past(u, k, e)'
         /\ Past(u, k, e)' /\ ~Past(u, k, e) => u = t /\ At(t).step = k /\ At(t).phase = e
<1>1. /\ Follows(opt, t, At(t), Current(t), At(t)')
      /\ At(t) \in Marks(opt, t) /\ At(t)' \in Marks(opt, t)
      /\ \A v \in Threads : v # t => At(v)' = At(v)
      /\ opt \in Options
  BY Advance DEF HaveType
<1>2. CASE u # t
  BY <1>1, <1>2 DEF Past
<1>3. CASE u = t
  <2> DEFINE a == At(t)
             b == At(t)'
  <2>1. \/ a.phase = 0 /\ b.phase = 0 /\ b.step = a.step
        \/ a.phase \in 0..3 /\ b.phase = a.phase + 1 /\ b.step = a.step
        \/ a.phase = 4 /\ b.phase = 0 /\ b.step = a.step + 1
    BY <1>1, Marching
  <2>2. a.phase \in 0..4 /\ a.step \in Nat /\ k \in Nat
    BY <1>1, MarkRange, Calls
  <2>3. /\ Past(u, k, e) <=> a.step > k \/ (a.step = k /\ a.phase > e)
        /\ Past(u, k, e)' <=> b.step > k \/ (b.step = k /\ b.phase > e)
    BY <1>3 DEF Past
  <2> HIDE DEF a, b
  <2>4. /\ Past(u, k, e) => Past(u, k, e)'
        /\ Past(u, k, e)' /\ ~Past(u, k, e) => a.step = k /\ a.phase = e
    BY <2>1, <2>2, <2>3
  <2> QED BY <1>3, <2>4 DEF a
<1> QED BY <1>2, <1>3

(* The grant of an exchange between two ranks, and who gives and takes it. *)
LEMMA AckGrant ==
  ASSUME NEW x \in Ranks, NEW y \in Ranks, NEW c \in 1..Channels, x # y
  PROVE  LET g == <<"ack", x, y, c>>
         IN  /\ g \in Grants
             /\ Answer(g) = <<"data", y, x, c>>
             /\ Recorder(g) = <<x, c>> /\ Waiter(g) = <<y, c>>
             /\ Given(g) <=> At(<<x, c>>).phase >= 1 /\ AckPeer(opt, At(<<x, c>>).step, x) = y
             /\ Taken(g) <=> At(<<y, c>>).phase \in 2..3 /\ DataPeer(opt, At(<<y, c>>).step, y) = x
<1> DEFINE g == <<"ack", x, y, c>>
<1> SUFFICES /\ g \in Grants
             /\ Answer(g) = <<"data", y, x, c>>
             /\ Recorder(g) = <<x, c>> /\ Waiter(g) = <<y, c>>
             /\ Given(g) <=> At(<<x, c>>).phase >= 1 /\ AckPeer(opt, At(<<x, c>>).step, x) = y
             /\ Taken(g) <=> At(<<y, c>>).phase \in 2..3 /\ DataPeer(opt, At(<<y, c>>).step, y) = x
  OBVIOUS
<1>1. <<x, y>> \in {z \in Ranks \X Ranks : z[1] # z[2]}
  OBVIOUS
<1>2. g = <<"ack", (<<x, y>>)[1], (<<x, y>>)[2], c>>
  OBVIOUS
<1>3. g \in Grants
  BY <1>1, <1>2 DEF Grants
<1>4. Answer(g) = <<"data", y, x, c>> /\ Recorder(g) = <<x, c>> /\ Waiter(g) = <<y, c>>
  BY DEF Answer, Recorder, Waiter
<1>5. /\ Given(g) <=> At(<<x, c>>).phase >= 1 /\ AckPeer(opt, At(<<x, c>>).step, x) = y
      /\ Taken(g) <=> At(<<y, c>>).phase \in 2..3 /\ DataPeer(opt, At(<<y, c>>).step, y) = x
  BY <1>4, GivenIs DEF GivenBy, TakenBy
<1> QED BY <1>3, <1>4, <1>5

(* The two ranks of an exchange stay in the same step.                     *)
LEMMA InStepStep ==
  ASSUME HaveType, Paired, InStep, NEW t \in Threads, Execute(t),
         NEW c \in 1..Channels, NEW x \in Ranks, NEW y \in Ranks, NEW k \in 1..Steps(opt),
         AckPeer(opt, k, x) = y
  PROVE  InStepAt(x, y, c, k)'
<1> DEFINE X == <<x, c>>
           Y == <<y, c>>
           g == <<"ack", x, y, c>>
           m == <<"data", y, x, c>>
           task == Current(t)
           xs == At(X).step
           xp == At(X).phase
           ys == At(Y).step
           yp == At(Y).phase
<1>1. opt \in Options
  BY DEF HaveType
<1>2. x # y /\ DataPeer(opt, k, y) = x
  BY <1>1, Peers
<1>3. X \in Threads /\ Y \in Threads /\ X # Y
  BY <1>2 DEF Threads
<1>4. /\ g \in Grants /\ Answer(g) = m /\ Recorder(g) = X /\ Waiter(g) = Y
      /\ Given(g) <=> xp >= 1 /\ AckPeer(opt, xs, x) = y
      /\ Taken(g) <=> yp \in 2..3 /\ DataPeer(opt, ys, y) = x
  BY <1>2, AckGrant
<1>5. /\ Taken(g) => Given(g)
      /\ g \in notified \/ m \in notified <=> Given(g) /\ ~Taken(g)
      /\ ~(g \in notified /\ m \in notified)
  BY <1>4 DEF Paired
<1>6. /\ opt' = opt
      /\ Follows(opt, t, At(t), task, At(t)')
      /\ At(t) \in Marks(opt, t) /\ At(t)' \in Marks(opt, t)
      /\ \A u \in Threads : u # t => At(u)' = At(u)
      /\ Notifies(task)
  BY Advance
<1>7. /\ xp \in 0..4 /\ xs \in 1..(Steps(opt) + 1) /\ yp \in 0..4 /\ ys \in 1..(Steps(opt) + 1)
      /\ Steps(opt) \in Nat /\ k \in Nat
  <2>1. At(X) \in Marks(opt, X) /\ At(Y) \in Marks(opt, Y)
    BY <1>3, Place
  <2> QED BY <1>1, <2>1, MarkRange, Calls
<1>8. /\ xp >= 1 => xs \in 1..Steps(opt)
      /\ yp >= 1 => ys \in 1..Steps(opt)
  BY <1>3, Working
<1>9. ASSUME NEW j \in 1..Steps(opt), AckPeer(opt, j, x) = y
      PROVE  /\ ys > j \/ (ys = j /\ yp > 1) => xs > j \/ (xs = j /\ xp > 0)
             /\ xs > j \/ (xs = j /\ xp > 4) => ys > j \/ (ys = j /\ yp > 3)
             /\ xs = j /\ g \in notified => ~(ys > j \/ (ys = j /\ yp > 1))
             /\ xs = j /\ m \in notified => ys > j \/ (ys = j /\ yp > 3)
  <2>1. InStepAt(x, y, c, j)
    BY <1>9 DEF InStep
  <2> QED BY <2>1 DEF InStepAt, Past
<1>10. \A j \in 1..Steps(opt) : DataPeer(opt, j, y) = x => AckPeer(opt, j, x) = y
  BY <1>1, Peers
<1>11. RecorderStep(opt, t, g, task, At(t), At(t)') /\ WaiterStep(opt, t, g, task, At(t), At(t)')
  BY <1>1, <1>4, <1>6, GrantStep
<1>12. \A e \in 0..4 :
         /\ Past(X, k, e) => Past(X, k, e)'
         /\ Past(X, k, e)' /\ ~Past(X, k, e) => X = t /\ xs = k /\ xp = e
         /\ Past(Y, k, e) => Past(Y, k, e)'
         /\ Past(Y, k, e)' /\ ~Past(Y, k, e) => Y = t /\ ys = k /\ yp = e
  BY <1>3, PastStep
<1>13. \A e \in 0..4 : /\ Past(X, k, e) <=> xs > k \/ (xs = k /\ xp > e)
                       /\ Past(Y, k, e) <=> ys > k \/ (ys = k /\ yp > e)
  BY DEF Past
<1>14. /\ t = Y /\ yp = 1 /\ ys = k => task.op = "wait" /\ task.reg = g
       /\ t = X /\ xp = 4 /\ AckPeer(opt, xs, x) = y => task.op = "wait" /\ task.reg = m
  <2>1. /\ At(t).phase = 1 => /\ task.op = "wait"
                              /\ task.reg = <<"ack", DataPeer(opt, At(t).step, t[1]), t[1], t[2]>>
        /\ At(t).phase = 4 => /\ task.op = "wait"
                              /\ task.reg = <<"data", AckPeer(opt, At(t).step, t[1]), t[1], t[2]>>
    BY <1>1, <1>6, Marching
  <2>2. X[1] = x /\ X[2] = c /\ Y[1] = y /\ Y[2] = c
    OBVIOUS
  <2> HIDE DEF X, Y, task
  <2> QED BY <1>2, <2>1, <2>2
<1>15. /\ t = X /\ At(X)'.step # xs => xp = 4 /\ At(X)'.step = xs + 1
       /\ t = Y /\ task.op = "record" => yp \notin {1, 2, 4}
       /\ t = Y /\ yp = 3 => At(Y)'.phase = 4 /\ At(Y)'.step = ys
       /\ t = X /\ xp = 0 => At(X)'.step = xs
  BY <1>1, <1>6, Marching
<1>16. /\ task.op = "wait" => task.reg \in notified /\ notified' = notified \ {task.reg}
       /\ task.op = "record" => notified' = notified \cup {task.reg}
       /\ task.op = "move" => notified' = notified
       /\ task.op = "record" \/ task.op = "wait" \/ task.op = "move"
  BY <1>6 DEF Notifies, Execute, ExecuteRecord, ExecuteWait, ExecuteMove
<1>17. /\ t # X => At(X)'.step = xs
       /\ t # Y => At(Y)' = At(Y)
  BY <1>3, <1>6
<1>18. /\ g \in notified' /\ g \notin notified => t = X /\ xp = 0 /\ At(X)'.phase >= 1 
       /\ m \in notified' /\ m \notin notified => t = Y /\ task.op = "record" /\ Taken(g)
  <2>1. g \in notified' /\ g \notin notified => task.op = "record" /\ task.reg = g
    <3> HIDE DEF g, task
    <3> QED BY <1>16
  <2>2. m \in notified' /\ m \notin notified => task.op = "record" /\ task.reg = m
    <3> HIDE DEF m, task
    <3> QED BY <1>16
  <2>3. g # m
    BY <1>4, GrantNames
  <2>4. ASSUME task.op = "record", task.reg = g
        PROVE  t = X /\ ~GivenBy(opt, g, At(t)) /\ GivenBy(opt, g, At(t)')
    <3> HIDE DEF g, m, X, Y, task
    <3> QED BY <1>4, <1>11, <2>3, <2>4 DEF RecorderStep
  <2>5. ASSUME task.op = "record", task.reg = m
        PROVE  t = Y /\ TakenBy(opt, g, At(t))
    <3> HIDE DEF g, m, X, Y, task
    <3> QED BY <1>4, <1>11, <2>3, <2>5 DEF WaiterStep
  <2>6. ASSUME t = X, ~GivenBy(opt, g, At(t)), GivenBy(opt, g, At(t)')
        PROVE  xp = 0 /\ At(X)'.phase >= 1
    <3>1. /\ GivenBy(opt, g, At(t)) <=> At(t).phase >= 1 /\ AckPeer(opt, At(t).step, x) = y
          /\ GivenBy(opt, g, At(t)') <=> At(t)'.phase >= 1 /\ AckPeer(opt, At(t)'.step, x) = y
      BY DEF GivenBy
    <3>2. At(t)'.phase >= 1 => At(t)'.step = At(t).step
      BY <1>1, <1>6, Marching
    <3> QED BY <1>7, <2>6, <3>1, <3>2
  <2>7. t = Y /\ TakenBy(opt, g, At(t)) => Taken(g)
    BY <1>4, GivenIs
  <2> HIDE DEF g, m, X, Y, task, xp
  <2> QED BY <2>1, <2>2, <2>4, <2>5, <2>6, <2>7
<1> HIDE DEF X, Y, g, m, task, xs, xp, ys, yp
<1>20. Past(Y, k, 1)' => Past(X, k, 0)'
  <2> SUFFICES ASSUME Past(Y, k, 1)', ~Past(Y, k, 1) PROVE Past(X, k, 0)
    BY <1>7, <1>9, <1>12, <1>13
  <2>1. t = Y /\ ys = k /\ yp = 1
    BY <1>12
  <2>2. g \in notified
    BY <1>14, <1>16, <2>1
  <2>3. xp >= 1 /\ AckPeer(opt, xs, x) = y /\ xs \in 1..Steps(opt)
    BY <1>4, <1>5, <1>8, <2>2
  <2>4. ~(ys > xs \/ (ys = xs /\ yp > 1))
    BY <1>9, <2>2, <2>3
  <2> QED BY <1>7, <1>13, <2>1, <2>3, <2>4
<1>21. Past(X, k, 4)' => Past(Y, k, 3)'
  <2> SUFFICES ASSUME Past(X, k, 4)', ~Past(X, k, 4) PROVE Past(Y, k, 3)
    BY <1>7, <1>9, <1>12, <1>13
  <2>1. t = X /\ xs = k /\ xp = 4
    BY <1>12
  <2>2. m \in notified
    BY <1>14, <1>16, <2>1
  <2> QED BY <1>9, <1>13, <2>1, <2>2
<1>22. At(X)'.step = k /\ g \in notified' => ~Past(Y, k, 1)'
  <2> SUFFICES ASSUME At(X)'.step = k, g \in notified', Past(Y, k, 1)' PROVE FALSE
    OBVIOUS
  <2>1. CASE g \notin notified
    <3>1. t = X /\ xp = 0 /\ xs = k
      BY <1>15, <1>18, <2>1
    <3>2. Past(Y, k, 1)
      BY <1>3, <1>12, <3>1
    <3> QED BY <1>7, <1>9, <1>13, <3>1, <3>2
  <2>2. CASE g \in notified
    <3>1. xp >= 1 /\ AckPeer(opt, xs, x) = y
      BY <1>4, <1>5, <2>2
    <3>2. CASE xs = k
      <4>1. ~Past(Y, k, 1)
        BY <1>9, <1>13, <2>2, <3>2
      <4>2. task.op = "wait" /\ task.reg = g
        BY <1>12, <1>14, <4>1
      <4> QED BY <1>16, <4>2
    <3>3. CASE xs # k
      <4>1. t = X /\ xp = 4
        BY <1>15, <1>17, <3>3
      <4>2. m \in notified
        BY <1>14, <1>16, <3>1, <4>1
      <4> QED BY <1>5, <2>2, <4>2
    <3> QED BY <3>2, <3>3
  <2> QED BY <2>1, <2>2
<1>23. At(X)'.step = k /\ m \in notified' => Past(Y, k, 3)'
  <2> SUFFICES ASSUME At(X)'.step = k, m \in notified' PROVE Past(Y, k, 3)'
    OBVIOUS
  <2>1. CASE m \in notified
    <3>1. xp >= 1 /\ AckPeer(opt, xs, x) = y
      BY <1>4, <1>5, <2>1
    <3>2. CASE xs = k
      BY <1>9, <1>12, <1>13, <2>1, <3>2
    <3>3. CASE xs # k
      <4>1. t = X /\ xp = 4
        BY <1>15, <1>17, <3>3
      <4> QED BY <1>14, <1>16, <3>1, <4>1
    <3> QED BY <3>2, <3>3
  <2>2. CASE m \notin notified
    <3>1. t = Y /\ task.op = "record" /\ Taken(g)
      BY <1>18, <2>2
    <3>2. yp = 3 /\ DataPeer(opt, ys, y) = x /\ xp >= 1 /\ xs = k /\ ys \in 1..Steps(opt)
      <4>1. yp = 3 /\ DataPeer(opt, ys, y) = x /\ xp >= 1
        BY <1>4, <1>5, <1>15, <3>1
      <4> QED BY <1>3, <1>8, <1>17, <3>1, <4>1
    <3>3. ys < k => FALSE
      <4> SUFFICES ASSUME ys < k PROVE FALSE
        OBVIOUS
      <4>1. xs > ys => ys > ys \/ (ys = ys /\ yp > 3)
        BY <1>9, <1>10, <3>2
      <4> QED BY <1>7, <3>2, <4>1
    <3>4. At(Y)'.phase = 4 /\ At(Y)'.step = ys
      BY <1>15, <3>1, <3>2
    <3>5. Past(Y, k, 3)' <=> At(Y)'.step > k \/ (At(Y)'.step = k /\ At(Y)'.phase > 3)
      BY DEF Past, Y
    <3> QED BY <1>7, <3>2, <3>3, <3>4, <3>5
  <2> QED BY <2>1, <2>2
<1> QED BY <1>20, <1>21, <1>22, <1>23 DEF InStepAt, X, Y, g, m

IInv == HaveType /\ Paired /\ InStep

(* Each step of a thread keeps it.                                         *)
LEMMA InvarianceStep ==
  ASSUME IInv, NEW t \in Threads, Execute(t)
  PROVE  IInv'
<1>1. HaveType' /\ opt' = opt
  BY Advance DEF IInv
<1>2. Paired'
  <2>1. \A g \in Grants : PairedAt(g)
    BY DEF IInv, Paired, PairedAt
  <2>2. \A g \in Grants : PairedAt(g)'
    BY <2>1, PairedStep DEF IInv
  <2> QED BY <2>2 DEF Paired, PairedAt
<1>3. InStep'
  <2>1. \A c \in 1..Channels : \A x, y \in Ranks : \A k \in 1..Steps(opt) :
          AckPeer(opt, k, x) = y => InStepAt(x, y, c, k)'
    BY InStepStep DEF IInv
  <2> QED BY <1>1, <2>1 DEF InStep
<1> QED BY <1>1, <1>2, <1>3 DEF IInv

(* The inductive invariant: every thread stands at a mark of its program,  *)
(* the notifies of an exchange are set exactly when due, and the two ranks *)
(* of an exchange are in the same step of KernelRun.                       *)
THEOREM Invariance == Spec => []IInv
<1>1. Init => IInv
  <2> SUFFICES ASSUME Init PROVE IInv
    OBVIOUS
  <2>1. HaveType /\ Paired
    BY InitFacts, PairedInit DEF Paired, PairedAt
  <2>2. InStep
    <3> SUFFICES ASSUME NEW c \in 1..Channels, NEW x \in Ranks, NEW y \in Ranks,
                        NEW k \in 1..Steps(opt)
                 PROVE  InStepAt(x, y, c, k)
      BY DEF InStep
    <3>1. /\ notified = {}
          /\ At(<<x, c>>).phase = 0 /\ At(<<x, c>>).step = FirstStep(0 + 1)
          /\ At(<<y, c>>).phase = 0 /\ At(<<y, c>>).step = FirstStep(0 + 1)
      <4>1. opt \in Options /\ 0 \in 0..Len(opt.counts)
        BY <2>1, Calls DEF HaveType
      <4>2. <<x, c>> \in Threads /\ <<y, c>> \in Threads
        BY DEF Threads
      <4> QED BY <4>1, <4>2, InitFacts, RestFacts
    <3>2. k \in Nat /\ k >= 1 /\ FirstStep(0 + 1) = 1
      <4>1. Steps(opt) \in Nat /\ FirstStep(1) = 1
        BY <2>1, Calls, FirstAndLast DEF HaveType
      <4> QED BY <4>1
    <3> QED BY <3>1, <3>2 DEF InStepAt, Past
  <2> QED BY <2>1, <2>2 DEF IInv
<1>2. IInv /\ [Next]_vars => IInv'
  <2> SUFFICES ASSUME IInv, [Next]_vars PROVE IInv'
    OBVIOUS
  <2>1. CASE UNCHANGED vars
    <3>1. opt' = opt /\ pc' = pc /\ notified' = notified /\ mem' = mem
      BY <2>1 DEF vars
    <3> QED BY <3>1 DEF IInv, HaveType, Paired, Given, Taken, InStep, InStepAt, Past, At, Prog
  <2>2. ASSUME NEW t \in Threads, Execute(t) PROVE IInv'
    BY <2>2, InvarianceStep
  <2> QED BY <2>1, <2>2 DEF Next
<1> QED BY <1>1, <1>2, PTL DEF Spec

-----------------------------------------------------------------------------
(* The memory *)

(* A rank that moves data, between its peer's ACK and its own DATA, has    *)
(* that peer in the same step.                                             *)
LEMMA PeerStands ==
  ASSUME IInv, NEW x \in Ranks, NEW c \in 1..Channels, At(<<x, c>>).phase \in 2..3
  PROVE  LET p == DataPeer(opt, At(<<x, c>>).step, x)
         IN  At(<<p, c>>).step = At(<<x, c>>).step /\ At(<<p, c>>).phase >= 1
<1> DEFINE k == At(<<x, c>>).step
           p == DataPeer(opt, k, x)
           T == <<x, c>>
           P == <<p, c>>
<1> SUFFICES At(P).step = k /\ At(P).phase >= 1
  OBVIOUS
<1>1. HaveType /\ Paired /\ InStep /\ opt \in Options
  BY DEF IInv, HaveType
<1>2. T \in Threads
  BY DEF Threads
<1>3. k \in 1..Steps(opt)
  BY <1>1, <1>2, Working
<1>4. p \in Ranks /\ p # x /\ AckPeer(opt, k, p) = x
  BY <1>1, <1>3, Peers
<1>5. P \in Threads
  BY <1>4 DEF Threads
<1>6. At(P) \in Marks(opt, P) /\ At(T) \in Marks(opt, T)
  BY <1>1, <1>2, <1>5, Place
<1>7. At(P).phase >= 1
  <2> DEFINE g == <<"ack", p, x, c>>
  <2>1. /\ g \in Grants
        /\ Given(g) => At(P).phase >= 1
        /\ Taken(g) <=> At(T).phase \in 2..3 /\ DataPeer(opt, k, x) = p
    BY <1>4, AckGrant
  <2>2. Taken(g) => Given(g)
    BY <1>1, <2>1 DEF Paired
  <2> HIDE DEF g
  <2> QED BY <2>1, <2>2
<1>8. /\ Past(T, k, 1) => Past(P, k, 0)
      /\ Past(P, k, 4) => Past(T, k, 3)
  <2>1. InStepAt(p, x, c, k)
    BY <1>1, <1>3, <1>4 DEF InStep
  <2> QED BY <2>1 DEF InStepAt
<1>9. /\ At(P).step \in Nat /\ k \in Nat /\ At(P).phase \in 0..4 /\ At(T).phase \in 2..3
  BY <1>1, <1>6, MarkRange, Calls
<1>10. At(T).step = k
  OBVIOUS
<1> HIDE DEF P, T, p, k
<1> QED BY <1>7, <1>8, <1>9, <1>10 DEF Past

(* While the main thread is alone, no other one of its rank is at work.    *)
LEMMA Alone ==
  ASSUME IInv, NEW r \in Ranks, NEW u \in Threads, u[1] = r, u[2] # 1, Manned(u, At(u))
  PROVE  At(<<r, 1>>).crew # {}
<1>1. u[2] \in 2..Channels /\ u = <<r, u[2]>> /\ u[2] \in At(u).crew
  BY ThreadFacts DEF Manned
<1> DEFINE g == <<"start", r, r, u[2]>>
<1>2. g \in Grants
  BY <1>1 DEF Grants
<1>3. (Taken(g) <=> u[2] \in At(u).crew) /\ (Given(g) => u[2] \in At(<<r, 1>>).crew)
  <2>1. Recorder(g) = <<r, 1>> /\ Waiter(g) = <<r, u[2]>> /\ g[1] # "ack" /\ g[4] = u[2]
    BY DEF Recorder, Waiter
  <2>2. At(Waiter(g)) = At(u) /\ At(Recorder(g)) = At(<<r, 1>>)
    BY <1>1, <2>1
  <2> HIDE DEF g
  <2> QED BY <2>1, <2>2 DEF Given, Taken
<1>4. Taken(g) => Given(g)
  BY <1>2 DEF IInv, Paired
<1> QED BY <1>1, <1>3, <1>4

(* What the next task of a moving thread touches.                          *)
LocalReach(t, x) ==
  /\ At(t).phase = 0
  /\ x[1] = t[1]
  /\ x[4] = t[2] \/ (t[2] = 1 /\ At(t).crew = {})
ChannelReach(t, x) ==
  /\ At(t).phase = 2
  /\ At(t).step \in 1..Steps(opt)
  /\ x[1] \in {t[1], DataPeer(opt, At(t).step, t[1])}
  /\ x[3] \in StepSlices(opt, At(t).step, t[1])
  /\ x[4] = t[2]

(* The cells that a transfer of a thread touches.                          *)
LEMMA Reach ==
  ASSUME HaveType, NEW t \in Threads, Moving(t), NEW x \in TouchedBy(Current(t).moves)
  PROVE  Manned(t, At(t)) /\ (LocalReach(t, x) \/ ChannelReach(t, x))
<1> DEFINE task == Current(t)
           b == Way(opt, t)[pc[t] + 1]
<1>1. Pending(t) /\ task.op = "move"
  BY DEF Moving
<1>2. Follows(opt, t, At(t), task, b) /\ At(t) \in Marks(opt, t) /\ opt \in Options
  BY <1>1, Place DEF HaveType
<1> HIDE DEF b
<1>3. CASE CrewTask(t, At(t), task, b)
  BY <1>1, <1>3 DEF CrewTask
<1>4. CASE LocalTask(opt, t, At(t), task, b)
  BY <1>4 DEF LocalTask, LocalReach
<1>5. CASE ChannelTask(opt, t, At(t), task, b)
  <2>1. At(t).step \in 1..Steps(opt)
    BY <1>2, <1>5, MarkRange, Calls DEF ChannelTask
  <2>2. At(t).phase = 2 /\ Manned(t, At(t))
    BY <1>1, <1>5 DEF ChannelTask
  <2>3. /\ x[1] \in {t[1], DataPeer(opt, At(t).step, t[1])}
        /\ x[3] \in StepSlices(opt, At(t).step, t[1])
        /\ x[4] = t[2]
    BY <1>1, <1>5 DEF ChannelTask
  <2> QED BY <2>1, <2>2, <2>3 DEF ChannelReach
<1> QED BY <1>2, <1>3, <1>4, <1>5 DEF Follows

(* A copy within a rank and anything that another thread moves.            *)
LEMMA LocalApart ==
  ASSUME IInv, NEW t \in Threads, NEW u \in Threads, t # u, NEW x,
         LocalReach(t, x), LocalReach(u, x) \/ ChannelReach(u, x),
         Manned(t, At(t)), Manned(u, At(u))
  PROVE  FALSE
<1>1. HaveType
  BY DEF IInv
<1>2. /\ t = <<t[1], t[2]>> /\ u = <<u[1], u[2]>>
      /\ t[1] \in Ranks /\ u[1] \in Ranks /\ t[2] \in 1..Channels /\ u[2] \in 1..Channels
  BY ThreadFacts
<1>3. /\ At(t).phase = 0 /\ x[1] = t[1]
      /\ x[4] = t[2] \/ (t[2] = 1 /\ At(t).crew = {})
  BY DEF LocalReach
<1>4. CASE u[1] = t[1]
  <2>1. u[2] # t[2]
    BY <1>2, <1>4
  <2>2. x[4] = u[2] \/ (u[2] = 1 /\ At(u).crew = {})
    BY DEF LocalReach, ChannelReach
  <2>3. CASE t[2] = 1 /\ At(t).crew = {}
    <3>1. u[2] # 1 /\ At(<<t[1], 1>>).crew = {}
      BY <1>2, <2>1, <2>3
    <3> QED BY <1>2, <1>4, <3>1, Alone
  <2>4. CASE u[2] = 1 /\ At(u).crew = {}
    <3>1. t[2] # 1 /\ At(<<u[1], 1>>).crew = {}
      BY <1>2, <2>1, <2>4
    <3> QED BY <1>2, <1>4, <3>1, Alone
  <2> QED BY <1>3, <2>1, <2>2, <2>3, <2>4
<1>5. CASE u[1] # t[1]
  <2> DEFINE p == DataPeer(opt, At(u).step, u[1])
             P == <<t[1], u[2]>>
  <2>1. ChannelReach(u, x)
    BY <1>3, <1>5 DEF LocalReach
  <2>2. At(u).phase = 2 /\ p = t[1] /\ x[4] = u[2]
    BY <1>3, <1>5, <2>1 DEF ChannelReach
  <2>3. P \in Threads /\ P[1] = t[1] /\ P[2] = u[2]
    BY <1>2 DEF Threads
  <2>4. At(P).phase >= 1
    <3>1. At(<<u[1], u[2]>>).phase \in 2..3
      BY <1>2, <2>2
    <3>2. At(<<DataPeer(opt, At(<<u[1], u[2]>>).step, u[1]), u[2]>>).phase >= 1
      BY <1>2, <3>1, PeerStands
    <3> QED BY <1>2, <2>2, <3>2
  <2>5. Manned(P, At(P))
    BY <1>1, <2>3, <2>4, Working
  <2> HIDE DEF P, p
  <2>6. P # t
    BY <1>3, <2>4
  <2>7. t[2] # u[2]
    BY <1>2, <2>6 DEF P
  <2>8. t[2] = 1 /\ At(t).crew = {} /\ u[2] # 1 /\ At(<<t[1], 1>>).crew = {}
    BY <1>2, <1>3, <2>2, <2>7
  <2> QED BY <1>2, <2>3, <2>5, <2>8, Alone
<1> QED BY <1>4, <1>5

(* Two transfers at the same time are of different channels, or of         *)
(* different slices where they meet.                                       *)
LEMMA ChannelApart ==
  ASSUME IInv, NEW t \in Threads, NEW u \in Threads, t # u, NEW x,
         ChannelReach(t, x), ChannelReach(u, x)
  PROVE  FALSE
<1> DEFINE c == x[4]
           k == At(t).step
           m == At(u).step
           y == t[1]
           z == u[1]
           p == DataPeer(opt, k, y)
           q == DataPeer(opt, m, z)
<1>1. opt \in Options
  BY DEF IInv, HaveType
<1>2. /\ At(t).phase = 2 /\ k \in 1..Steps(opt) /\ x[1] \in {y, p}
      /\ x[3] \in StepSlices(opt, k, y) /\ c = t[2]
  BY DEF ChannelReach
<1>3. /\ At(u).phase = 2 /\ m \in 1..Steps(opt) /\ x[1] \in {z, q}
      /\ x[3] \in StepSlices(opt, m, z) /\ c = u[2]
  BY DEF ChannelReach
<1>4. t = <<y, c>> /\ u = <<z, c>> /\ y \in Ranks /\ z \in Ranks /\ c \in 1..Channels /\ y # z
  BY <1>2, <1>3, ThreadFacts
<1>5. At(<<p, c>>).step = k /\ At(<<q, c>>).step = m
  <2>1. At(<<y, c>>).phase \in 2..3 /\ At(<<z, c>>).phase \in 2..3
    BY <1>2, <1>3, <1>4
  <2>2. /\ At(<<DataPeer(opt, At(<<y, c>>).step, y), c>>).step = At(<<y, c>>).step
        /\ At(<<DataPeer(opt, At(<<z, c>>).step, z), c>>).step = At(<<z, c>>).step
    BY <1>4, <2>1, PeerStands
  <2> QED BY <1>4, <2>2
<1>6. /\ AckPeer(opt, k, p) = y /\ AckPeer(opt, m, q) = z
      /\ StepSlices(opt, k, y) \cap StepSlices(opt, k, p) = {}
      /\ StepSlices(opt, m, z) \cap StepSlices(opt, m, q) = {}
  BY <1>1, <1>2, <1>3, <1>4, Peers
<1>7. At(<<y, c>>).step = k /\ At(<<z, c>>).step = m
  BY <1>4
<1> HIDE DEF c, k, m, y, z, p, q
<1>8. CASE x[1] = z
  <2>1. z = p
    BY <1>2, <1>4, <1>8
  <2>2. k = m
    BY <1>5, <1>7, <2>1
  <2> QED BY <1>2, <1>3, <1>6, <2>1, <2>2
<1>9. CASE x[1] = q
  <2>1. CASE q = y
    <3>1. k = m
      BY <1>5, <1>7, <2>1
    <3> QED BY <1>2, <1>3, <1>6, <2>1, <3>1
  <2>2. CASE q = p
    <3>1. k = m
      BY <1>5, <2>2
    <3> QED BY <1>4, <1>6, <2>2, <3>1
  <2> QED BY <1>2, <1>9, <2>1, <2>2
<1> QED BY <1>3, <1>8, <1>9

-----------------------------------------------------------------------------
(* The handshake *)

(* The step and phase that Handshake sees of the threads of channel c.     *)
HStep(o, c) == [r \in Ranks |-> IF Pending(<<r, c>>) THEN Current(<<r, c>>).step
                                ELSE 2 * StepNum * Len(o.counts) + 1]
HPhase(o, c) == [r \in Ranks |-> IF Pending(<<r, c>>) THEN Current(<<r, c>>).phase ELSE 0]

(* Its actions, in these terms.                                            *)
Running(o, c, r, p) == HStep(o, c)[r] \in 1..Steps(o) /\ HPhase(o, c)[r] = p
Enters(o, c, r, p)  == /\ HPhase(o, c)' = [HPhase(o, c) EXCEPT ![r] = p]
                       /\ HStep(o, c)' = HStep(o, c)

(* The actions of ChannelHandshake, written out for the channels of this   *)
(* module.                                                                 *)
LEMMA HandshakeActions ==
  ASSUME NEW o, NEW c, NEW r \in Ranks, NEW k, k = HStep(o, c)[r],
         N \notin {r, AckPeer(o, k, r), DataPeer(o, k, r)}
  PROVE  /\ /\ Running(o, c, r, 0) /\ Enters(o, c, r, 1)
            /\ Registered("ack", c)' = Registered("ack", c) \cup {<<r, AckPeer(o, k, r)>>}
            /\ Registered("data", c)' = Registered("data", c)
            => Handshake(o, c)!Next
         /\ /\ Running(o, c, r, 1) /\ Enters(o, c, r, 2)
            /\ <<DataPeer(o, k, r), r>> \in Registered("ack", c)
            /\ Registered("ack", c)' = Registered("ack", c) \ {<<DataPeer(o, k, r), r>>}
            /\ Registered("data", c)' = Registered("data", c)
            => Handshake(o, c)!Next
         /\ /\ Running(o, c, r, 2) /\ Enters(o, c, r, 3)
            /\ Registered("ack", c)' = Registered("ack", c)
            /\ Registered("data", c)' = Registered("data", c)
            => Handshake(o, c)!Next
         /\ /\ Running(o, c, r, 3) /\ Enters(o, c, r, 4)
            /\ Registered("ack", c)' = Registered("ack", c)
            /\ Registered("data", c)' = Registered("data", c) \cup {<<r, DataPeer(o, k, r)>>}
            => Handshake(o, c)!Next
         /\ /\ Running(o, c, r, 4)
            /\ HPhase(o, c)' = [HPhase(o, c) EXCEPT ![r] = 0]
            /\ HStep(o, c)' = [HStep(o, c) EXCEPT ![r] = @ + 1]
            /\ <<AckPeer(o, k, r), r>> \in Registered("data", c)
            /\ Registered("ack", c)' = Registered("ack", c)
            /\ Registered("data", c)' = Registered("data", c) \ {<<AckPeer(o, k, r), r>>}
            => Handshake(o, c)!Next
<1>1. /\ Handshake(o, c)!AckPeer(k, r) = AckPeer(o, k, r)
      /\ Handshake(o, c)!DataPeer(k, r) = DataPeer(o, k, r)
  BY DEF Handshake!AckPeer, Handshake!DataPeer, AckPeer, DataPeer
<1>2. ASSUME NEW x \in {AckPeer(o, k, r), DataPeer(o, k, r)}
      PROVE  /\ Handshake(o, c)!Signal(x, r) = {<<x, r>>}
             /\ Handshake(o, c)!Signal(r, x) = {<<r, x>>}
  BY DEF Handshake!Signal
<1>3. \A p : Handshake(o, c)!Running(r, p) <=> Running(o, c, r, p)
  BY DEF Handshake!Running, Running, HStep, HPhase, Steps
<1>4. Handshake(o, c)!Advance(r) => Handshake(o, c)!Next
  BY DEF Handshake!Next
<1>5. /\ Running(o, c, r, 0) /\ Enters(o, c, r, 1)
      /\ Registered("ack", c)' = Registered("ack", c) \cup {<<r, AckPeer(o, k, r)>>}
      /\ Registered("data", c)' = Registered("data", c)
      => Handshake(o, c)!RecordAck(r)
  BY <1>1, <1>2, <1>3 DEF Handshake!RecordAck, Enters, HStep, HPhase
<1>6. /\ Running(o, c, r, 1) /\ Enters(o, c, r, 2)
      /\ <<DataPeer(o, k, r), r>> \in Registered("ack", c)
      /\ Registered("ack", c)' = Registered("ack", c) \ {<<DataPeer(o, k, r), r>>}
      /\ Registered("data", c)' = Registered("data", c)
      => Handshake(o, c)!WaitAck(r)
  BY <1>1, <1>2, <1>3 DEF Handshake!WaitAck, Enters, HStep, HPhase
<1>7. /\ Running(o, c, r, 2) /\ Enters(o, c, r, 3)
      /\ Registered("ack", c)' = Registered("ack", c)
      /\ Registered("data", c)' = Registered("data", c)
      => Handshake(o, c)!Transfer(r)
  BY <1>3 DEF Handshake!Transfer, Enters, HStep, HPhase
<1>8. /\ Running(o, c, r, 3) /\ Enters(o, c, r, 4)
      /\ Registered("ack", c)' = Registered("ack", c)
      /\ Registered("data", c)' = Registered("data", c) \cup {<<r, DataPeer(o, k, r)>>}
      => Handshake(o, c)!RecordData(r)
  BY <1>1, <1>2, <1>3 DEF Handshake!RecordData, Enters, HStep, HPhase
<1>9. /\ Running(o, c, r, 4)
      /\ HPhase(o, c)' = [HPhase(o, c) EXCEPT ![r] = 0]
      /\ HStep(o, c)' = [HStep(o, c) EXCEPT ![r] = @ + 1]
      /\ <<AckPeer(o, k, r), r>> \in Registered("data", c)
      /\ Registered("ack", c)' = Registered("ack", c)
      /\ Registered("data", c)' = Registered("data", c) \ {<<AckPeer(o, k, r), r>>}
      => Handshake(o, c)!WaitData(r)
  BY <1>1, <1>2, <1>3 DEF Handshake!WaitData, HStep, HPhase
<1> QED BY <1>4, <1>5, <1>6, <1>7, <1>8, <1>9 DEF Handshake!Advance

(* What Handshake sees is where the threads stand.                         *)
LEMMA TaskOfMark ==
  ASSUME NEW o \in Options, NEW t \in Threads, NEW i \in 1..(Len(Program[o][t]) + 1)
  PROVE  /\ (IF i <= Len(Program[o][t]) THEN Program[o][t][i].step ELSE Steps(o) + 1) = Way(o, t)[i].step
         /\ (IF i <= Len(Program[o][t]) THEN Program[o][t][i].phase ELSE 0) = Way(o, t)[i].phase
<1> DEFINE n == Len(Program[o][t])
<1>1. /\ Program[o][t] \in Seq(Tasks)
      /\ Marking(o, t, Program[o][t], Way(o, t), Rest(o, t, 0), Rest(o, t, Len(o.counts)))
  BY ProgramRun
<1>2. n \in Nat
  BY <1>1, LenProperties
<1>3. /\ Way(o, t)[n + 1].step = Steps(o) + 1 /\ Way(o, t)[n + 1].phase = 0
      /\ \A j \in 1..n : Follows(o, t, Way(o, t)[j], Program[o][t][j], Way(o, t)[j + 1])
  <2>1. /\ Way(o, t)[n + 1] = Rest(o, t, Len(o.counts))
        /\ \A j \in 1..n : Follows(o, t, Way(o, t)[j], Program[o][t][j], Way(o, t)[j + 1])
    BY <1>1 DEF Marking
  <2>2. Len(o.counts) \in 0..Len(o.counts)
    BY Calls
  <2> QED BY <2>1, <2>2, RestFacts, FirstAndLast
<1> HIDE DEF n
<1>4. CASE i <= n
  <2>1. i \in 1..n
    BY <1>2, <1>4 DEF n
  <2>2. Follows(o, t, Way(o, t)[i], Program[o][t][i], Way(o, t)[i + 1])
    BY <1>3, <2>1
  <2>3. Program[o][t][i].step = Way(o, t)[i].step /\ Program[o][t][i].phase = Way(o, t)[i].phase
    BY <2>2 DEF Follows
  <2> QED BY <1>4, <2>3 DEF n
<1>5. CASE ~(i <= n)
  <2>1. i = n + 1
    BY <1>2, <1>5 DEF n
  <2> QED BY <1>3, <1>5, <2>1 DEF n
<1> QED BY <1>4, <1>5

(* The steps and phases of Handshake are those of the marks.               *)
LEMMA Seen ==
  ASSUME HaveType, HaveType', opt' = opt, NEW o, o = opt, NEW c \in 1..Channels
  PROVE  /\ HStep(o, c) = [r \in Ranks |-> At(<<r, c>>).step]
         /\ HPhase(o, c) = [r \in Ranks |-> At(<<r, c>>).phase]
         /\ HStep(o, c)' = [r \in Ranks |-> At(<<r, c>>)'.step]
         /\ HPhase(o, c)' = [r \in Ranks |-> At(<<r, c>>)'.phase]
<1>1. /\ o \in Options
      /\ \A t \in Threads : pc[t] \in 1..(Len(Program[o][t]) + 1)
      /\ \A t \in Threads : pc'[t] \in 1..(Len(Program[o][t]) + 1)
  BY DEF HaveType, Prog
<1>2. ASSUME NEW r \in Ranks
      PROVE  /\ (IF Pending(<<r, c>>) THEN Current(<<r, c>>).step ELSE Steps(o) + 1) = At(<<r, c>>).step
             /\ (IF Pending(<<r, c>>) THEN Current(<<r, c>>).phase ELSE 0) = At(<<r, c>>).phase
             /\ (IF Pending(<<r, c>>)' THEN Current(<<r, c>>)'.step ELSE Steps(o) + 1) = At(<<r, c>>)'.step
             /\ (IF Pending(<<r, c>>)' THEN Current(<<r, c>>)'.phase ELSE 0) = At(<<r, c>>)'.phase
  <2> DEFINE t == <<r, c>>
  <2>1. t \in Threads
    BY DEF Threads
  <2> HIDE DEF t
  <2>2. /\ Pending(t) <=> pc[t] <= Len(Program[o][t])
        /\ Current(t) = Program[o][t][pc[t]] /\ At(t) = Way(o, t)[pc[t]]
        /\ Pending(t)' <=> pc'[t] <= Len(Program[o][t])
        /\ Current(t)' = Program[o][t][pc'[t]] /\ At(t)' = Way(o, t)[pc'[t]]
    BY DEF Pending, Current, Prog, At
  <2>3. /\ (IF Pending(t) THEN Current(t).step ELSE Steps(o) + 1) = At(t).step
        /\ (IF Pending(t) THEN Current(t).phase ELSE 0) = At(t).phase
    BY <1>1, <2>1, <2>2, TaskOfMark
  <2>4. /\ (IF Pending(t)' THEN Current(t)'.step ELSE Steps(o) + 1) = At(t)'.step
        /\ (IF Pending(t)' THEN Current(t)'.phase ELSE 0) = At(t)'.phase
    BY <1>1, <2>1, <2>2, TaskOfMark
  <2> QED BY <2>3, <2>4 DEF t
<1> QED BY <1>2 DEF HStep, HPhase, Steps

(* The registers of a channel, as Handshake sees them.                     *)
PairsOf(n, kind, c) == {<<x[2], x[3]>> : x \in {y \in n : y[1] = kind /\ y[4] = c}}

(* Recording and clearing a notify, seen through the registers of a        *)
(* channel.                                                                *)
LEMMA PairsFacts ==
  ASSUME NEW n, n \subseteq Registers, NEW kind \in {"ack", "data"}, NEW c
  PROVE  /\ \A x, y \in Ranks : <<x, y>> \in PairsOf(n, kind, c) <=> <<kind, x, y, c>> \in n
         /\ PairsOf(n, kind, c) \subseteq Ranks \X Ranks
<1>1. \A z \in n : /\ z = <<z[1], z[2], z[3], z[4]>> /\ z[2] \in Ranks /\ z[3] \in Ranks
  BY DEF Registers
<1>2. ASSUME NEW x \in Ranks, NEW y \in Ranks
      PROVE  <<x, y>> \in PairsOf(n, kind, c) <=> <<kind, x, y, c>> \in n
  <2>1. ASSUME <<x, y>> \in PairsOf(n, kind, c) PROVE <<kind, x, y, c>> \in n
    <3>1. PICK z \in n : z[1] = kind /\ z[4] = c /\ <<x, y>> = <<z[2], z[3]>>
      BY <2>1 DEF PairsOf
    <3> QED BY <1>1, <3>1
  <2>2. ASSUME <<kind, x, y, c>> \in n PROVE <<x, y>> \in PairsOf(n, kind, c)
    <3> DEFINE z == <<kind, x, y, c>>
    <3>1. z[1] = kind /\ z[2] = x /\ z[3] = y /\ z[4] = c
      OBVIOUS
    <3> HIDE DEF z
    <3>2. z \in {w \in n : w[1] = kind /\ w[4] = c}
      BY <2>2, <3>1 DEF z
    <3>3. <<z[2], z[3]>> \in PairsOf(n, kind, c)
      BY <3>2 DEF PairsOf
    <3> QED BY <3>1, <3>3
  <2> QED BY <2>1, <2>2
<1>3. PairsOf(n, kind, c) \subseteq Ranks \X Ranks
  BY <1>1 DEF PairsOf
<1> QED BY <1>2, <1>3

(* A notify of another kind or channel does not show.                      *)
LEMMA PairsKeep ==
  ASSUME NEW n, NEW kind, NEW c, NEW z, ~(z[1] = kind /\ z[4] = c)
  PROVE  /\ PairsOf(n \cup {z}, kind, c) = PairsOf(n, kind, c)
         /\ PairsOf(n \ {z}, kind, c) = PairsOf(n, kind, c)
<1>1. /\ {y \in n \cup {z} : y[1] = kind /\ y[4] = c} = {y \in n : y[1] = kind /\ y[4] = c}
      /\ {y \in n \ {z} : y[1] = kind /\ y[4] = c} = {y \in n : y[1] = kind /\ y[4] = c}
  OBVIOUS
<1> QED BY <1>1 DEF PairsOf

(* What one record or wait does to the registers of its channel.           *)
LEMMA PairsNotify ==
  ASSUME NEW n, n \subseteq Registers, NEW c \in 1..Channels,
         NEW kind \in {"ack", "data"}, NEW other \in {"ack", "data"}, other # kind,
         NEW x \in Ranks, NEW y \in Ranks
  PROVE  /\ PairsOf(n \cup {<<kind, x, y, c>>}, kind, c) = PairsOf(n, kind, c) \cup {<<x, y>>}
         /\ PairsOf(n \cup {<<kind, x, y, c>>}, other, c) = PairsOf(n, other, c)
         /\ PairsOf(n \ {<<kind, x, y, c>>}, kind, c) = PairsOf(n, kind, c) \ {<<x, y>>}
         /\ PairsOf(n \ {<<kind, x, y, c>>}, other, c) = PairsOf(n, other, c)
         /\ <<kind, x, y, c>> \in n => <<x, y>> \in PairsOf(n, kind, c)
<1> DEFINE z == <<kind, x, y, c>>
           p == n \cup {z}
           q == n \ {z}
<1>1. p \subseteq Registers /\ q \subseteq Registers
  BY DEF Registers
<1>2. z[1] # other
  OBVIOUS
<1>3. \A v, w \in Ranks : <<kind, v, w, c>> = z <=> <<v, w>> = <<x, y>>
  OBVIOUS
<1> HIDE DEF z
<1>4. z \in n => <<x, y>> \in PairsOf(n, kind, c)
  BY PairsFacts DEF z
<1>5. PairsOf(p, other, c) = PairsOf(n, other, c) /\ PairsOf(q, other, c) = PairsOf(n, other, c)
  BY <1>2, PairsKeep
<1>6. \A v, w \in Ranks : /\ <<kind, v, w, c>> \in p <=> <<kind, v, w, c>> \in n \/ <<v, w>> = <<x, y>>
                          /\ <<kind, v, w, c>> \in q <=> <<kind, v, w, c>> \in n /\ <<v, w>> # <<x, y>>
  BY <1>3
<1> HIDE DEF p, q
<1>7. /\ \A v, w \in Ranks : <<v, w>> \in PairsOf(n, kind, c) <=> <<kind, v, w, c>> \in n
      /\ \A v, w \in Ranks : <<v, w>> \in PairsOf(p, kind, c) <=> <<kind, v, w, c>> \in p
      /\ \A v, w \in Ranks : <<v, w>> \in PairsOf(q, kind, c) <=> <<kind, v, w, c>> \in q
      /\ PairsOf(n, kind, c) \subseteq Ranks \X Ranks
      /\ PairsOf(p, kind, c) \subseteq Ranks \X Ranks
      /\ PairsOf(q, kind, c) \subseteq Ranks \X Ranks
  BY <1>1, PairsFacts
<1>8. \A v \in Ranks \X Ranks : v = <<v[1], v[2]>> /\ v[1] \in Ranks /\ v[2] \in Ranks
  OBVIOUS
<1>9. ASSUME NEW v \in Ranks \X Ranks
      PROVE  /\ v \in PairsOf(p, kind, c) <=> v \in PairsOf(n, kind, c) \cup {<<x, y>>}
             /\ v \in PairsOf(q, kind, c) <=> v \in PairsOf(n, kind, c) \ {<<x, y>>}
  <2>1. PICK a \in Ranks, b \in Ranks : v = <<a, b>>
    BY <1>8
  <2>2. /\ <<a, b>> \in PairsOf(p, kind, c) <=> <<a, b>> \in PairsOf(n, kind, c) \/ <<a, b>> = <<x, y>>
        /\ <<a, b>> \in PairsOf(q, kind, c) <=> <<a, b>> \in PairsOf(n, kind, c) /\ <<a, b>> # <<x, y>>
    BY <1>6, <1>7
  <2> QED BY <2>1, <2>2
<1>10. <<x, y>> \in Ranks \X Ranks
  OBVIOUS
<1>11. PairsOf(p, kind, c) = PairsOf(n, kind, c) \cup {<<x, y>>}
  BY <1>7, <1>9, <1>10
<1>12. PairsOf(q, kind, c) = PairsOf(n, kind, c) \ {<<x, y>>}
  BY <1>7, <1>9
<1> QED BY <1>11, <1>12, <1>4, <1>5 DEF p, q, z

(* A task of a thread is a step of its channel's handshake and leaves the  *)
(* handshakes of the other channels alone.                                 *)
LEMMA HandshakeStep ==
  ASSUME HaveType, NEW t \in Threads, Execute(t), NEW o, o = opt, NEW c \in 1..Channels
  PROVE  Handshake(o, c)!Next \/ UNCHANGED Handshake(o, c)!vars
<1> DEFINE task == Current(t)
           a == At(t)
           b == At(t)'
           r == t[1]
           k == a.step
           ap == AckPeer(o, k, r)
           dp == DataPeer(o, k, r)
<1>1. /\ HaveType' /\ opt' = opt
      /\ Follows(o, t, a, task, b) /\ a \in Marks(o, t)
      /\ \A u \in Threads : u # t => At(u)' = At(u)
      /\ Notifies(task)
  BY Advance
<1>2. o \in Options /\ notified \subseteq Registers
  BY DEF HaveType
<1>3. t = <<r, t[2]>> /\ r \in Ranks
  BY ThreadFacts
<1>4. /\ HStep(o, c) = [x \in Ranks |-> At(<<x, c>>).step]
      /\ HPhase(o, c) = [x \in Ranks |-> At(<<x, c>>).phase]
      /\ HStep(o, c)' = [x \in Ranks |-> At(<<x, c>>)'.step]
      /\ HPhase(o, c)' = [x \in Ranks |-> At(<<x, c>>)'.phase]
  BY <1>1, Seen
<1>5. \A kind : /\ Registered(kind, c) = PairsOf(notified, kind, c)
                /\ Registered(kind, c)' = PairsOf(notified', kind, c)
  BY DEF Registered, PairsOf
<1>6. \A x \in Ranks : <<x, c>> \in Threads /\ (<<x, c>> = t <=> x = r /\ t[2] = c)
  BY <1>3 DEF Threads
<1>7. ASSUME HStep(o, c)' = HStep(o, c), HPhase(o, c)' = HPhase(o, c),
             Registered("ack", c)' = Registered("ack", c),
             Registered("data", c)' = Registered("data", c)
      PROVE  UNCHANGED Handshake(o, c)!vars
  BY <1>7 DEF Handshake!vars, HStep, HPhase
<1>8. t[2] # c => HStep(o, c)' = HStep(o, c) /\ HPhase(o, c)' = HPhase(o, c)
  BY <1>1, <1>4, <1>6
<1>9. b.step = a.step /\ b.phase = a.phase => HStep(o, c)' = HStep(o, c) /\ HPhase(o, c)' = HPhase(o, c)
  <2>1. ASSUME b.step = a.step, b.phase = a.phase, NEW x \in Ranks
        PROVE  At(<<x, c>>)'.step = At(<<x, c>>).step /\ At(<<x, c>>)'.phase = At(<<x, c>>).phase
    BY <1>1, <1>6, <2>1
  <2> QED BY <1>4, <2>1
<1>10. ASSUME task.op \in {"record", "wait"} => ~(task.reg[1] \in {"ack", "data"} /\ task.reg[4] = c)
       PROVE  /\ Registered("ack", c)' = Registered("ack", c)
              /\ Registered("data", c)' = Registered("data", c)
  <2>1. task.op = "record" \/ task.op = "wait" \/ task.op = "move"
    BY DEF Execute, ExecuteRecord, ExecuteWait, ExecuteMove
  <2> HIDE DEF task
  <2>2. CASE task.op = "record"
    <3>1. notified' = notified \cup {task.reg}
      BY <1>1, <2>2 DEF Notifies
    <3> QED BY <1>5, <1>10, <2>2, <3>1, PairsKeep
  <2>3. CASE task.op = "wait"
    <3>1. notified' = notified \ {task.reg}
      BY <1>1, <2>3 DEF Notifies
    <3> QED BY <1>5, <1>10, <2>3, <3>1, PairsKeep
  <2>4. CASE task.op = "move"
    <3>1. notified' = notified
      BY <1>1, <2>4 DEF Notifies
    <3> QED BY <1>5, <3>1
  <2> QED BY <2>1, <2>2, <2>3, <2>4
<1> HIDE DEF task, a, b
<1>11. CASE CrewTask(t, a, task, b)
  <2>1. \E i \in 2..Channels : task.reg = <<"start", r, r, i>> \/ task.reg = <<"finish", r, r, i>>
    BY <1>11 DEF CrewTask
  <2>2. task.reg[1] \notin {"ack", "data"}
    BY <2>1
  <2>3. b.step = a.step /\ b.phase = a.phase
    BY <1>11 DEF CrewTask, Mark
  <2> QED BY <1>7, <1>9, <1>10, <2>2, <2>3
<1>12. CASE LocalTask(o, t, a, task, b)
  <2>1. b.step = a.step /\ b.phase = a.phase /\ task.op = "move"
    BY <1>12 DEF LocalTask, Mark
  <2> QED BY <1>7, <1>9, <1>10, <2>1
<1>13. CASE ChannelTask(o, t, a, task, b) /\ t[2] # c
  <2>1. \/ task.op = "move"
        \/ \E x, y : task.reg = <<"ack", x, y, t[2]>> \/ task.reg = <<"data", x, y, t[2]>>
    BY <1>13 DEF ChannelTask
  <2>2. task.op # "move" => task.reg[4] # c
    BY <1>13, <2>1
  <2> QED BY <1>7, <1>8, <1>10, <1>13, <2>2
<1>14. CASE ChannelTask(o, t, a, task, b) /\ t[2] = c
  <2>1. k \in 1..Steps(o)
    BY <1>1, <1>2, <1>14, MarkRange, Calls DEF ChannelTask
  <2>2. ap \in Ranks /\ dp \in Ranks
    BY <1>2, <1>3, <2>1, Peers
  <2>3. N \notin {r, ap, dp}
    BY <1>3, <2>2, Sizes DEF Ranks
  <2>4. At(<<r, c>>) = a /\ At(<<r, c>>)' = b /\ \A x \in Ranks : x # r => At(<<x, c>>)' = At(<<x, c>>)
    BY <1>1, <1>3, <1>6, <1>14 DEF a, b
  <2>5. /\ HStep(o, c)[r] = k /\ HPhase(o, c)[r] = a.phase
        /\ HPhase(o, c)' = [HPhase(o, c) EXCEPT ![r] = b.phase]
        /\ HStep(o, c)' = [HStep(o, c) EXCEPT ![r] = b.step]
    <3> HIDE DEF r
    <3>1. HStep(o, c)[r] = k /\ HPhase(o, c)[r] = a.phase
      BY <1>3, <1>4, <2>4
    <3>4. ASSUME NEW x \in Ranks
          PROVE  /\ At(<<x, c>>)'.phase = IF x = r THEN b.phase ELSE At(<<x, c>>).phase
                 /\ At(<<x, c>>)'.step = IF x = r THEN b.step ELSE At(<<x, c>>).step
      BY <2>4
    <3>5. /\ HPhase(o, c)' = [x \in Ranks |-> IF x = r THEN b.phase ELSE At(<<x, c>>).phase]
          /\ HStep(o, c)' = [x \in Ranks |-> IF x = r THEN b.step ELSE At(<<x, c>>).step]
      BY <1>4, <3>4
    <3>6. HPhase(o, c) = [x \in Ranks |-> At(<<x, c>>).phase]
      BY <1>4
    <3>2. HPhase(o, c)' = [HPhase(o, c) EXCEPT ![r] = b.phase]
      BY <1>3, <3>5, <3>6
    <3>7. HStep(o, c) = [x \in Ranks |-> At(<<x, c>>).step]
      BY <1>4
    <3>3. HStep(o, c)' = [HStep(o, c) EXCEPT ![r] = b.step]
      BY <1>3, <3>5, <3>7
    <3> QED BY <3>1, <3>2, <3>3
  <2>6. b.step = k => HStep(o, c)' = HStep(o, c)
    BY <1>3, <1>4, <2>5
  <2>7. /\ \A p : Running(o, c, r, p) <=> a.phase = p
        /\ \A p : b.step = k /\ b.phase = p => Enters(o, c, r, p)
    BY <2>1, <2>5, <2>6 DEF Running, Enters
  <2> DEFINE ack(x, y) == <<"ack", x, y, c>>
             data(x, y) == <<"data", x, y, c>>
  <2>8. ASSUME NEW x \in Ranks, NEW y \in Ranks
        PROVE  /\ PairsOf(notified \cup {ack(x, y)}, "ack", c) = PairsOf(notified, "ack", c) \cup {<<x, y>>}
               /\ PairsOf(notified \cup {ack(x, y)}, "data", c) = PairsOf(notified, "data", c)
               /\ PairsOf(notified \ {ack(x, y)}, "ack", c) = PairsOf(notified, "ack", c) \ {<<x, y>>}
               /\ PairsOf(notified \ {ack(x, y)}, "data", c) = PairsOf(notified, "data", c)
               /\ ack(x, y) \in notified => <<x, y>> \in PairsOf(notified, "ack", c)
    BY <1>2, PairsNotify, "ack" # "data"
  <2>9. ASSUME NEW x \in Ranks, NEW y \in Ranks
        PROVE  /\ PairsOf(notified \cup {data(x, y)}, "data", c) = PairsOf(notified, "data", c) \cup {<<x, y>>}
               /\ PairsOf(notified \cup {data(x, y)}, "ack", c) = PairsOf(notified, "ack", c)
               /\ PairsOf(notified \ {data(x, y)}, "data", c) = PairsOf(notified, "data", c) \ {<<x, y>>}
               /\ PairsOf(notified \ {data(x, y)}, "ack", c) = PairsOf(notified, "ack", c)
               /\ data(x, y) \in notified => <<x, y>> \in PairsOf(notified, "data", c)
    BY <1>2, PairsNotify, "ack" # "data"
  <2> HIDE DEF ack, data, ap, dp, k
  <2>10. /\ /\ Running(o, c, r, 0) /\ Enters(o, c, r, 1)
            /\ Registered("ack", c)' = Registered("ack", c) \cup {<<r, ap>>}
            /\ Registered("data", c)' = Registered("data", c)
            => Handshake(o, c)!Next
         /\ /\ Running(o, c, r, 1) /\ Enters(o, c, r, 2)
            /\ <<dp, r>> \in Registered("ack", c)
            /\ Registered("ack", c)' = Registered("ack", c) \ {<<dp, r>>}
            /\ Registered("data", c)' = Registered("data", c)
            => Handshake(o, c)!Next
         /\ /\ Running(o, c, r, 2) /\ Enters(o, c, r, 3)
            /\ Registered("ack", c)' = Registered("ack", c)
            /\ Registered("data", c)' = Registered("data", c)
            => Handshake(o, c)!Next
         /\ /\ Running(o, c, r, 3) /\ Enters(o, c, r, 4)
            /\ Registered("ack", c)' = Registered("ack", c)
            /\ Registered("data", c)' = Registered("data", c) \cup {<<r, dp>>}
            => Handshake(o, c)!Next
         /\ /\ Running(o, c, r, 4)
            /\ HPhase(o, c)' = [HPhase(o, c) EXCEPT ![r] = 0]
            /\ HStep(o, c)' = [HStep(o, c) EXCEPT ![r] = @ + 1]
            /\ <<ap, r>> \in Registered("data", c)
            /\ Registered("ack", c)' = Registered("ack", c)
            /\ Registered("data", c)' = Registered("data", c) \ {<<ap, r>>}
            => Handshake(o, c)!Next
    BY <1>3, <2>3, <2>5, HandshakeActions DEF ap, dp
  <2>11. \/ a.phase = 0 /\ task.op = "record" /\ task.reg = ack(r, ap) /\ b = Mark(a.crew, k, 1, a.turns, a.copies)
         \/ a.phase = 1 /\ task.op = "wait" /\ task.reg = ack(dp, r) /\ b = Mark(a.crew, k, 2, a.turns, a.copies)
         \/ a.phase = 2 /\ task.op = "move" /\ b = Mark(a.crew, k, 3, a.turns, a.copies)
         \/ a.phase = 3 /\ task.op = "record" /\ task.reg = data(r, dp) /\ b = Mark(a.crew, k, 4, a.turns, a.copies)
         \/ a.phase = 4 /\ task.op = "wait" /\ task.reg = data(ap, r) /\ b = Mark(a.crew, k + 1, 0, a.turns, a.copies)
    BY <1>14 DEF ChannelTask, ack, data, ap, dp, k
  <2>12. CASE a.phase = 0 /\ task.op = "record" /\ task.reg = ack(r, ap) /\ b = Mark(a.crew, k, 1, a.turns, a.copies)
    <3>1. notified' = notified \cup {ack(r, ap)} /\ b.step = k /\ b.phase = 1
      BY <1>1, <2>12 DEF Notifies, Mark
    <3>2. /\ Registered("ack", c)' = Registered("ack", c) \cup {<<r, ap>>}
          /\ Registered("data", c)' = Registered("data", c)
      <4>1. /\ PairsOf(notified', "ack", c) = PairsOf(notified, "ack", c) \cup {<<r, ap>>}
            /\ PairsOf(notified', "data", c) = PairsOf(notified, "data", c)
        BY <1>3, <2>2, <2>8, <3>1
      <4> QED BY <1>5, <4>1
    <3> QED BY <2>7, <2>10, <2>12, <3>1, <3>2
  <2>13. CASE a.phase = 1 /\ task.op = "wait" /\ task.reg = ack(dp, r) /\ b = Mark(a.crew, k, 2, a.turns, a.copies)
    <3>1. /\ ack(dp, r) \in notified /\ notified' = notified \ {ack(dp, r)}
          /\ b.step = k /\ b.phase = 2
      BY <1>1, <2>13 DEF Notifies, Mark
    <3>2. /\ <<dp, r>> \in Registered("ack", c)
          /\ Registered("ack", c)' = Registered("ack", c) \ {<<dp, r>>}
          /\ Registered("data", c)' = Registered("data", c)
      BY <1>3, <1>5, <2>2, <2>8, <2>9, <3>1
    <3> QED BY <2>7, <2>10, <2>13, <3>1, <3>2
  <2>14. CASE a.phase = 2 /\ task.op = "move" /\ b = Mark(a.crew, k, 3, a.turns, a.copies)
    <3>1. notified' = notified /\ b.step = k /\ b.phase = 3
      BY <1>1, <2>14 DEF Notifies, Mark
    <3> QED BY <1>5, <2>7, <2>10, <2>14, <3>1
  <2>15. CASE a.phase = 3 /\ task.op = "record" /\ task.reg = data(r, dp) /\ b = Mark(a.crew, k, 4, a.turns, a.copies)
    <3>1. notified' = notified \cup {data(r, dp)} /\ b.step = k /\ b.phase = 4
      BY <1>1, <2>15 DEF Notifies, Mark
    <3>2. /\ Registered("ack", c)' = Registered("ack", c)
          /\ Registered("data", c)' = Registered("data", c) \cup {<<r, dp>>}
      <4>1. /\ PairsOf(notified', "ack", c) = PairsOf(notified, "ack", c)
            /\ PairsOf(notified', "data", c) = PairsOf(notified, "data", c) \cup {<<r, dp>>}
        BY <1>3, <2>2, <2>9, <3>1
      <4> QED BY <1>5, <4>1
    <3> QED BY <2>7, <2>10, <2>15, <3>1, <3>2
  <2>16. CASE a.phase = 4 /\ task.op = "wait" /\ task.reg = data(ap, r) /\ b = Mark(a.crew, k + 1, 0, a.turns, a.copies)
    <3>1. /\ data(ap, r) \in notified /\ notified' = notified \ {data(ap, r)}
          /\ b.step = k + 1 /\ b.phase = 0
      BY <1>1, <2>16 DEF Notifies, Mark
    <3>2. /\ <<ap, r>> \in Registered("data", c)
          /\ Registered("ack", c)' = Registered("ack", c)
          /\ Registered("data", c)' = Registered("data", c) \ {<<ap, r>>}
      BY <1>3, <1>5, <2>2, <2>8, <2>9, <3>1
    <3>3. /\ HPhase(o, c)' = [HPhase(o, c) EXCEPT ![r] = 0]
          /\ HStep(o, c)' = [HStep(o, c) EXCEPT ![r] = @ + 1]
      <4>1. HPhase(o, c)' = [HPhase(o, c) EXCEPT ![r] = 0]
        BY <2>5, <3>1
      <4>2. HStep(o, c)' = [HStep(o, c) EXCEPT ![r] = HStep(o, c)[r] + 1]
        BY <2>5, <3>1
      <4> QED BY <4>1, <4>2
    <3> QED BY <2>7, <2>10, <2>16, <3>2, <3>3
  <2> QED BY <2>11, <2>12, <2>13, <2>14, <2>15, <2>16
<1> QED BY <1>1, <1>11, <1>12, <1>13, <1>14 DEF Follows

(* ScheduleFits: the peers of NHR are what ChannelHandshake assumes of a   *)
(* schedule, x sends to y in a step exactly when y receives from x in it.  *)
THEOREM ScheduleFits ==
  \A o \in Options :
    LET table == [1..Steps(o) -> [Ranks -> Ranks \cup {N}]]
    IN  /\ N \notin Ranks /\ Steps(o) \in Nat
        /\ HandshakeMode[o] \in [1..Steps(o) -> {"write", "read"}]
        /\ HandshakeTx[o] \in table /\ HandshakeRx[o] \in table
        /\ \A k \in 1..Steps(o) : \A x, y \in Ranks :
             HandshakeTx[o][k][x] = y <=> HandshakeRx[o][k][y] = x
<1> SUFFICES ASSUME NEW o \in Options
             PROVE  /\ N \notin Ranks /\ Steps(o) \in Nat
                    /\ HandshakeMode[o] \in [1..Steps(o) -> {"write", "read"}]
                    /\ HandshakeTx[o] \in [1..Steps(o) -> [Ranks -> Ranks \cup {N}]]
                    /\ HandshakeRx[o] \in [1..Steps(o) -> [Ranks -> Ranks \cup {N}]]
                    /\ \A k \in 1..Steps(o) : \A x, y \in Ranks :
                         HandshakeTx[o][k][x] = y <=> HandshakeRx[o][k][y] = x
  OBVIOUS
<1>1. N \notin Ranks /\ Steps(o) \in Nat
  BY Sizes, Calls DEF Ranks
<1>2. /\ DOMAIN HandshakeMode[o] = 1..Steps(o)
      /\ HandshakeMode[o] = [k \in 1..Steps(o) |-> HandshakeMode[o][k]]
  <2> DEFINE mode(x, k) ==
               IF ~Gathers(k) THEN IF x.dmaRead THEN "read" ELSE "write"
               ELSE IF x.symmetric \/ x.dmaRead \/ StepOf(k) = StepNum - 1 THEN "read" ELSE "write"
  <2>1. HandshakeMode = [x \in Options |-> [k \in 1..Steps(x) |-> mode(x, k)]]
    BY EvaluatedIs DEF HandshakeMode, Steps
  <2> HIDE DEF mode
  <2>2. HandshakeMode[o] = [k \in 1..Steps(o) |-> mode(o, k)]
    BY <2>1
  <2> QED BY <2>2
<1>3. \A k \in 1..Steps(o) : HandshakeMode[o][k] \in {"write", "read"}
  BY Tables
<1>4. HandshakeMode[o] \in [1..Steps(o) -> {"write", "read"}]
  BY <1>2, <1>3
<1>5. \A k \in 1..Steps(o) : \A x \in Ranks :
        /\ HandshakeTx[o][k][x] \in Ranks /\ HandshakeRx[o][k][HandshakeTx[o][k][x]] = x
        /\ HandshakeRx[o][k][x] \in Ranks /\ HandshakeTx[o][k][HandshakeRx[o][k][x]] = x
  <2> SUFFICES ASSUME NEW k \in 1..Steps(o), NEW x \in Ranks
               PROVE  /\ HandshakeTx[o][k][x] \in Ranks /\ HandshakeRx[o][k][HandshakeTx[o][k][x]] = x
                      /\ HandshakeRx[o][k][x] \in Ranks /\ HandshakeTx[o][k][HandshakeRx[o][k][x]] = x
    OBVIOUS
  <2>1. /\ AckPeer(o, k, x) \in Ranks /\ DataPeer(o, k, AckPeer(o, k, x)) = x
        /\ DataPeer(o, k, x) \in Ranks /\ AckPeer(o, k, DataPeer(o, k, x)) = x
    BY Peers
  <2>2. CASE HandshakeMode[o][k] = "write"
    BY <2>1, <2>2 DEF AckPeer, DataPeer
  <2>3. CASE HandshakeMode[o][k] # "write"
    BY <2>1, <2>3 DEF AckPeer, DataPeer
  <2> QED BY <2>2, <2>3
<1>6. /\ HandshakeTx[o] = [k \in 1..Steps(o) |-> [x \in Ranks |-> HandshakeTx[o][k][x]]]
      /\ HandshakeRx[o] = [k \in 1..Steps(o) |-> [x \in Ranks |-> HandshakeRx[o][k][x]]]
  <2> DEFINE to(k, x) == IF Gathers(k) THEN GatherTo(StepOf(k), x) ELSE ScatterTo(StepOf(k), x)
             from(k, x) == IF Gathers(k) THEN GatherFrom(StepOf(k), x) ELSE ScatterFrom(StepOf(k), x)
             toRow(k) == Evaluated([x \in Ranks |-> to(k, x)])
             fromRow(k) == Evaluated([x \in Ranks |-> from(k, x)])
             toTab(p) == Evaluated([k \in DOMAIN HandshakeMode[p] |-> toRow(k)])
             fromTab(p) == Evaluated([k \in DOMAIN HandshakeMode[p] |-> fromRow(k)])
  <2>1. /\ HandshakeTx = Evaluated([p \in Options |-> toTab(p)])
        /\ HandshakeRx = Evaluated([p \in Options |-> fromTab(p)])
    BY DEF HandshakeTx, HandshakeRx, PeerTable
  <2> HIDE DEF to, from
  <2>2. \A k : toRow(k) = [x \in Ranks |-> to(k, x)] /\ fromRow(k) = [x \in Ranks |-> from(k, x)]
    BY EvaluatedIs
  <2> HIDE DEF toRow, fromRow
  <2>3. /\ toTab(o) = [k \in 1..Steps(o) |-> toRow(k)]
        /\ fromTab(o) = [k \in 1..Steps(o) |-> fromRow(k)]
    BY <1>2, EvaluatedIs
  <2> HIDE DEF toTab, fromTab
  <2>4. HandshakeTx[o] = toTab(o) /\ HandshakeRx[o] = fromTab(o)
    BY <2>1, EvaluatedIs
  <2> QED BY <2>2, <2>3, <2>4
<1>7. /\ HandshakeTx[o] \in [1..Steps(o) -> [Ranks -> Ranks \cup {N}]]
      /\ HandshakeRx[o] \in [1..Steps(o) -> [Ranks -> Ranks \cup {N}]]
  BY <1>5, <1>6
<1>8. \A k \in 1..Steps(o) : \A x, y \in Ranks :
        HandshakeTx[o][k][x] = y <=> HandshakeRx[o][k][y] = x
  BY <1>5
<1> QED BY <1>1, <1>4, <1>7, <1>8

(* PlaysTheHandshake: on each channel, what the threads of KernelRun do is *)
(* the handshake of ChannelHandshake with the schedule of NHR, so that     *)
(* what is proved of that holds of them.                                   *)
THEOREM HandshakeImplemented == Spec => PlaysTheHandshake
<1>1. HaveType /\ [Next]_vars =>
        [\A o \in Options, c \in 1..Channels :
           opt = o => Handshake(o, c)!Next \/ UNCHANGED Handshake(o, c)!vars]_vars
  <2> SUFFICES ASSUME HaveType, Next, NEW o \in Options, NEW c \in 1..Channels, opt = o,
                      ~UNCHANGED vars
               PROVE  Handshake(o, c)!Next \/ UNCHANGED Handshake(o, c)!vars
    OBVIOUS
  <2>1. PICK t \in Threads : Execute(t)
    BY DEF Next
  <2> QED BY <2>1, HandshakeStep
<1> QED BY <1>1, Exchanges, PTL DEF Spec, PlaysTheHandshake

-----------------------------------------------------------------------------
(* What a mark says *)

(* The number of times a member of the crew has started or finished is odd *)
(* while it works.                                                         *)
LEMMA Parity ==
  ASSUME NEW o \in Options, NEW t \in Threads, NEW a \in Marks(o, t), NEW i \in Crew(t)
  PROVE  /\ a.turns[i] \in Nat
         /\ i \in a.crew => \E h \in Nat : a.turns[i] = 2 * h + 1
         /\ i \notin a.crew => \E h \in Nat : a.turns[i] = 2 * h
<1>1. PICK q \in 1..Legs(o) : OfLeg(o, t, q, a)
  BY MarkRange
<1>2. q \in Nat /\ q - 1 \in Nat
  BY LegFacts
<1>3. ASSUME NEW crew \in SUBSET Crew(t), a = Entering(o, t, q, crew)
      PROVE  a.crew = crew /\ a.turns[i] = IF i \in crew THEN 2 * q - 1 ELSE 2 * q - 2
  BY <1>3 DEF Entering, Mark
<1>4. ASSUME NEW crew \in SUBSET Crew(t), a = Leaving(o, t, q, crew)
      PROVE  a.crew = crew /\ a.turns[i] = IF i \in crew THEN 2 * q - 1 ELSE 2 * q
  BY <1>4 DEF Leaving, Mark
<1>5. ASSUME NEW k, NEW p, a = Inside(o, t, q, k, p)
      PROVE  i \in a.crew /\ a.turns[i] = 2 * q - 1
  BY <1>5 DEF Inside, Mark
<1>6. a.turns[i] \in {2 * q - 2, 2 * q - 1, 2 * q} /\ (i \in a.crew <=> a.turns[i] = 2 * q - 1)
  BY <1>1, <1>2, <1>3, <1>4, <1>5 DEF OfLeg
<1>7. 2 * q - 1 = 2 * (q - 1) + 1 /\ 2 * q - 2 = 2 * (q - 1)
  BY <1>2
<1>8. a.turns[i] \in Nat
  BY MarkRange
<1> DEFINE n == a.turns[i]
<1> HIDE DEF n
<1>9. ASSUME i \in a.crew PROVE \E h \in Nat : n = 2 * h + 1
  BY <1>2, <1>6, <1>7, <1>9 DEF n
<1>10. ASSUME i \notin a.crew PROVE \E h \in Nat : n = 2 * h
  <2>1. n = 2 * q \/ n = 2 * (q - 1)
    BY <1>6, <1>7, <1>10 DEF n
  <2> QED BY <1>2, <2>1
<1> QED BY <1>8, <1>9, <1>10 DEF n

(* The mark of a thread in the handshakes of a leg, or on the way in or    *)
(* out.                                                                    *)
LEMMA MarkShape ==
  ASSUME NEW o \in Options, NEW t \in Threads, NEW a \in Marks(o, t)
  PROVE  \E q \in 1..Legs(o) :
           \/ /\ a.phase = 0 /\ a.step = LegStart(o, q)
              /\ \A i \in Crew(t) : a.turns[i] \in {2 * q - 2, 2 * q - 1}
              /\ a.copies = Copied(o, t, q)
           \/ /\ a.phase = 0 /\ a.step = LegStart(o, q + 1)
              /\ \A i \in Crew(t) : a.turns[i] \in {2 * q - 1, 2 * q}
              /\ a.copies = IF o.symmetric THEN Copied(o, t, q) ELSE 2 * q
           \/ /\ a.step \in LegStart(o, q)..LegStart(o, q + 1)
              /\ a.step = LegStart(o, q + 1) => a.phase = 0
              /\ \A i \in Crew(t) : a.turns[i] = 2 * q - 1
              /\ a.copies = IF o.symmetric THEN Copied(o, t, q) ELSE 2 * q - 1
<1>1. PICK q \in 1..Legs(o) : OfLeg(o, t, q, a)
  BY MarkRange
<1>2. CASE \E crew \in SUBSET Crew(t) : a = Entering(o, t, q, crew)
  BY <1>2 DEF Entering, Mark
<1>3. CASE \E crew \in SUBSET Crew(t) : a = Leaving(o, t, q, crew)
  BY <1>3 DEF Leaving, Mark
<1>4. CASE \E k \in Nat, p \in 0..4 : InLeg(o, q, k, p) /\ a = Inside(o, t, q, k, p)
  <2>1. PICK k \in Nat, p \in 0..4 : InLeg(o, q, k, p) /\ a = Inside(o, t, q, k, p)
    BY <1>4
  <2>2. k \in LegStart(o, q)..LegStart(o, q + 1) /\ (k = LegStart(o, q + 1) => p = 0)
    BY <2>1 DEF InLeg
  <2> QED BY <2>1, <2>2 DEF Inside, Mark
<1> QED BY <1>1, <1>2, <1>3, <1>4 DEF OfLeg

(* The scratch buffer's round: the first copy is made before the first     *)
(* handshake of a round, and the last one before the last finish.          *)
LEMMA MarkOfRound ==
  ASSUME NEW o \in Options, ~o.symmetric, NEW t \in Threads, NEW a \in Marks(o, t),
         NEW l \in Loops(o)
  PROVE  /\ a.phase >= 1 /\ a.step \in FirstStep(l)..(FirstStep(l + 1) - 1) => a.copies = 2 * l - 1
         /\ \A i \in Crew(t) : a.turns[i] >= 2 * l => a.copies >= 2 * l
<1>1. PICK q \in 1..Legs(o) :
           \/ /\ a.phase = 0 /\ a.step = LegStart(o, q)
              /\ \A i \in Crew(t) : a.turns[i] \in {2 * q - 2, 2 * q - 1}
              /\ a.copies = Copied(o, t, q)
           \/ /\ a.phase = 0 /\ a.step = LegStart(o, q + 1)
              /\ \A i \in Crew(t) : a.turns[i] \in {2 * q - 1, 2 * q}
              /\ a.copies = IF o.symmetric THEN Copied(o, t, q) ELSE 2 * q
           \/ /\ a.step \in LegStart(o, q)..LegStart(o, q + 1)
              /\ a.step = LegStart(o, q + 1) => a.phase = 0
              /\ \A i \in Crew(t) : a.turns[i] = 2 * q - 1
              /\ a.copies = IF o.symmetric THEN Copied(o, t, q) ELSE 2 * q - 1
  BY MarkShape
<1>2. q \in Nat /\ l \in Nat /\ q >= 1 /\ l >= 1 /\ Copied(o, t, q) = 2 * q - 2
  BY LegFacts, Calls DEF Copied
<1>3. Loops(o) = 1..Legs(o)
  BY Calls DEF Legs
<1>4. ASSUME a.phase >= 1, a.step \in FirstStep(l)..(FirstStep(l + 1) - 1) PROVE a.copies = 2 * l - 1
  <2>1. a.step \in LegStart(o, q)..(LegStart(o, q + 1) - 1) /\ a.copies = 2 * q - 1
    <3>1. /\ a.phase # 0 /\ a.step \in Int
          /\ LegStart(o, q) \in Int /\ LegStart(o, q + 1) \in Int
      BY <1>4, MarkRange, LegFacts
    <3> QED BY <1>1, <3>1
  <2>2. LegStart(o, l) = FirstStep(l) /\ LegStart(o, l + 1) = FirstStep(l + 1)
    BY RoundLegs DEF ScatterLeg, GatherLeg
  <2>3. /\ q < l => LegStart(o, q + 1) <= LegStart(o, l)
        /\ l < q => LegStart(o, l + 1) <= LegStart(o, q)
    BY <1>3, LegOrder
  <2>4. LegStart(o, q) \in Int /\ LegStart(o, q + 1) \in Int /\ LegStart(o, l) \in Int /\ LegStart(o, l + 1) \in Int
    BY <1>3, LegFacts
  <2>5. q = l
    BY <1>2, <1>4, <2>1, <2>2, <2>3, <2>4
  <2> QED BY <2>1, <2>5
<1>5. ASSUME NEW i \in Crew(t), a.turns[i] >= 2 * l PROVE a.copies >= 2 * l
  BY <1>1, <1>2, <1>5
<1> QED BY <1>4, <1>5

(* With symmetric memory the main thread makes the only copy between the   *)
(* two legs.                                                               *)
LEMMA MarkOfHalf ==
  ASSUME NEW o \in Options, o.symmetric, NEW t \in Threads, NEW a \in Marks(o, t)
  PROVE  /\ a.phase >= 1 /\ a.step \in 1..StepNum =>
              /\ \A i \in Crew(t) : a.turns[i] = 1
              /\ t[2] = 1 => a.copies = 0
         /\ a.phase >= 1 /\ a.step \in (StepNum + 1)..(2 * StepNum) =>
              /\ \A i \in Crew(t) : a.turns[i] = 3
              /\ t[2] = 1 => a.copies = 1
         /\ \A i \in Crew(t) :
              /\ t[2] = 1 /\ a.turns[i] = 1 => a.copies = 0
              /\ t[2] = 1 /\ a.turns[i] = 3 => a.copies = 1
              /\ a.turns[i] >= 4 => a.step = 2 * StepNum + 1
              /\ t[2] # 1 /\ a.turns[i] = 2 => a.step = StepNum + 1 /\ a.phase = 0
<1>1. PICK q \in 1..Legs(o) :
           \/ /\ a.phase = 0 /\ a.step = LegStart(o, q)
              /\ \A i \in Crew(t) : a.turns[i] \in {2 * q - 2, 2 * q - 1}
              /\ a.copies = Copied(o, t, q)
           \/ /\ a.phase = 0 /\ a.step = LegStart(o, q + 1)
              /\ \A i \in Crew(t) : a.turns[i] \in {2 * q - 1, 2 * q}
              /\ a.copies = IF o.symmetric THEN Copied(o, t, q) ELSE 2 * q
           \/ /\ a.step \in LegStart(o, q)..LegStart(o, q + 1)
              /\ a.step = LegStart(o, q + 1) => a.phase = 0
              /\ \A i \in Crew(t) : a.turns[i] = 2 * q - 1
              /\ a.copies = IF o.symmetric THEN Copied(o, t, q) ELSE 2 * q - 1
  BY MarkShape
<1>2. q \in {1, 2} /\ StepNum \in Nat \ {0}
  BY Sizes DEF Legs
<1>3. LegStart(o, 1) = 1 /\ LegStart(o, 2) = StepNum + 1 /\ LegStart(o, 3) = 2 * StepNum + 1
  BY <1>2 DEF LegStart, LegSteps
<1>4. t[2] = 1 => Copied(o, t, q) = q - 1
  BY DEF Copied
<1>5. a.phase \in Nat /\ a.step \in Nat
  BY MarkRange
<1>6. CASE q = 1
  <2> QED BY <1>1, <1>2, <1>3, <1>4, <1>5, <1>6
<1>7. CASE q = 2
  <2> QED BY <1>1, <1>2, <1>3, <1>4, <1>5, <1>7
<1> QED BY <1>2, <1>6, <1>7

-----------------------------------------------------------------------------
(* The way of a thread leads forward *)

Later(t, a, b) ==
  /\ a.step < b.step \/ (a.step = b.step /\ a.phase <= b.phase)
  /\ a.copies <= b.copies
  /\ \A i \in Crew(t) : a.turns[i] <= b.turns[i]

(* A task leads forward.                                                   *)
LEMMA FollowsLater ==
  ASSUME NEW o \in Options, NEW t \in Threads, NEW a \in Marks(o, t), NEW b, NEW task,
         Follows(o, t, a, task, b)
  PROVE  Later(t, a, b)
<1>1. a.phase \in 0..4 /\ a.step \in Nat /\ a.copies \in Nat /\ a.turns \in [Crew(t) -> Nat]
  BY MarkRange
<1>2. a.step < b.step \/ (a.step = b.step /\ a.phase <= b.phase)
  BY <1>1, Marching
<1>3. CASE CrewTask(t, a, task, b)
  <2>1. PICK i \in 2..Channels : /\ b.turns = [a.turns EXCEPT ![i] = @ + 1]
                                 /\ b.copies = a.copies
    BY <1>3 DEF CrewTask, Mark
  <2>2. \A j \in Crew(t) : b.turns[j] \in {a.turns[j], a.turns[j] + 1}
    BY <1>1, <2>1
  <2>3. \A j \in Crew(t) : a.turns[j] \in Nat
    BY <1>1
  <2>4. \A j \in Crew(t) : a.turns[j] <= b.turns[j]
    BY <2>2, <2>3
  <2> QED BY <1>1, <1>2, <2>1, <2>4 DEF Later
<1>4. CASE LocalTask(o, t, a, task, b)
  BY <1>1, <1>2, <1>4 DEF LocalTask, Mark, Later
<1>5. CASE ChannelTask(o, t, a, task, b)
  <2>1. b.turns = a.turns /\ b.copies = a.copies
    BY <1>5 DEF ChannelTask, Mark
  <2> QED BY <1>1, <1>2, <2>1 DEF Later
<1> QED BY <1>3, <1>4, <1>5 DEF Follows

(* Later is a reflexive and transitive order of the marks.                 *)
LEMMA LaterMarks ==
  ASSUME NEW o, NEW t, NEW a \in Marks(o, t)
  PROVE  /\ Later(t, a, a)
         /\ \A b \in Marks(o, t), d \in Marks(o, t) : Later(t, a, b) /\ Later(t, b, d) => Later(t, a, d)
<1>1. \A b \in Marks(o, t) : /\ b.step \in Int /\ b.phase \in Int /\ b.copies \in Int
                             /\ \A i \in Crew(t) : b.turns[i] \in Int
  BY MarkRange
<1>2. Later(t, a, a)
  BY <1>1 DEF Later
<1>3. ASSUME NEW b \in Marks(o, t), NEW d \in Marks(o, t), Later(t, a, b), Later(t, b, d)
      PROVE  Later(t, a, d)
  BY <1>1, <1>3 DEF Later
<1> QED BY <1>2, <1>3

(* The marks on a thread's way are in order.                               *)
LEMMA WayLater ==
  ASSUME NEW o \in Options, NEW t \in Threads,
         NEW i \in 1..(Len(Program[o][t]) + 1), NEW j \in 1..(Len(Program[o][t]) + 1), i <= j
  PROVE  /\ Later(t, Way(o, t)[i], Way(o, t)[j])
         /\ Way(o, t)[i] \in Marks(o, t) /\ Way(o, t)[j] \in Marks(o, t)
<1> DEFINE n == Len(Program[o][t])
           w == Way(o, t)
           s == Program[o][t]
<1>1. s \in Seq(Tasks) /\ n \in Nat
  BY ProgramRun, LenProperties
<1>2. /\ w \in [1..(n + 1) -> Marks(o, t)]
      /\ \A p \in 1..n : Follows(o, t, w[p], s[p], w[p + 1])
  BY ProgramRun DEF Marking
<1> DEFINE T == {d \in Nat : i + d <= n + 1 => Later(t, w[i], w[i + d])}
<1> HIDE DEF w, s, n
<1>3. i \in 1..(n + 1) /\ j \in 1..(n + 1)
  BY DEF n
<1>4. 0 \in T
  <2>1. w[i] \in Marks(o, t) /\ i + 0 = i
    BY <1>2, <1>3
  <2> QED BY <2>1, LaterMarks
<1>5. ASSUME NEW d \in Nat, d \in T PROVE d + 1 \in T
  <2> SUFFICES ASSUME i + (d + 1) <= n + 1 PROVE Later(t, w[i], w[i + (d + 1)])
    BY <1>5
  <2>1. i + d \in 1..n /\ i + d \in 1..(n + 1) /\ (i + d) + 1 = i + (d + 1) /\ (i + d) + 1 \in 1..(n + 1)
    BY <1>1, <1>3
  <2>2. Later(t, w[i], w[i + d])
    BY <1>1, <1>5, <2>1
  <2>3. w[i] \in Marks(o, t) /\ w[i + d] \in Marks(o, t) /\ w[(i + d) + 1] \in Marks(o, t)
    BY <1>2, <1>3, <2>1
  <2>4. Later(t, w[i + d], w[(i + d) + 1])
    BY <1>2, <2>1, <2>3, FollowsLater
  <2>5. Later(t, w[i], w[(i + d) + 1])
    BY <2>2, <2>3, <2>4, LaterMarks
  <2> QED BY <2>1, <2>5
<1> HIDE DEF T
<1>6. \A d \in Nat : d \in T
  BY <1>4, <1>5, L!SetInduction, ScheduleSize
<1>7. j - i \in Nat /\ i + (j - i) = j
  BY <1>3
<1>8. Later(t, w[i], w[j])
  <2>1. j - i \in T
    BY <1>6, <1>7
  <2> QED BY <1>1, <1>3, <1>7, <2>1 DEF T
<1> QED BY <1>2, <1>3, <1>8 DEF w

(* The first steps of the rounds are in order.                             *)
LEMMA RoundOrder ==
  ASSUME NEW o \in Options, NEW l \in Loops(o), NEW m \in Nat, m >= l, m <= Len(o.counts)
  PROVE  /\ FirstStep(l) < FirstStep(m + 1)
         /\ FirstStep(l + 1) <= FirstStep(m + 1)
<1>1. StepNum \in Nat \ {0} /\ l \in Nat \ {0}
  BY Sizes, Calls
<1> DEFINE s == 2 * StepNum
<1>2. s \in Nat /\ s >= 2
  BY <1>1
<1>3. /\ FirstStep(l) = s * (l - 1) + 1 /\ FirstStep(l + 1) = s * l + 1 /\ FirstStep(m + 1) = s * m + 1
  <2>1. (l + 1) - 1 = l /\ (m + 1) - 1 = m
    BY <1>1
  <2> QED BY <1>1, <2>1 DEF FirstStep
<1> HIDE DEF s
<1>4. s * l <= s * m
  BY <1>1, <1>2, L!TimesMonotone, ScheduleSize
<1>5. s * l = s * (l - 1) + s /\ s * l \in Nat /\ s * (l - 1) \in Int /\ s * m \in Nat
  BY <1>1, <1>2
<1> QED BY <1>2, <1>3, <1>4, <1>5

(* A thread that is beyond the end of a round has gone through its start.  *)
LEMMA RoundEndOrder ==
  ASSUME NEW o \in Options, NEW t \in Threads, NEW l \in Loops(o), NEW m \in Nat, m >= l, m <= Len(o.counts)
  PROVE  RoundEnd[o][t][l - 1] < RoundEnd[o][t][m]
<1> DEFINE e == RoundEnd[o][t][l - 1]
           f == RoundEnd[o][t][m]
           n == Len(Program[o][t])
           w == Way(o, t)
<1>1. l - 1 \in 0..Len(o.counts) /\ m \in 0..Len(o.counts) /\ l \in Nat
  BY Calls
<1>2. /\ e \in 0..n /\ f \in 0..n
      /\ w[e + 1] = Rest(o, t, l - 1) /\ w[f + 1] = Rest(o, t, m)
  BY <1>1, ProgramRun
<1>3. Rest(o, t, l - 1).step = FirstStep(l) /\ Rest(o, t, m).step = FirstStep(m + 1)
  <2>1. (l - 1) + 1 = l
    BY <1>1
  <2>2. Rest(o, t, l - 1).step = FirstStep((l - 1) + 1) /\ Rest(o, t, m).step = FirstStep(m + 1)
    BY <1>1, RestFacts
  <2> QED BY <2>1, <2>2
<1>4. FirstStep(l) < FirstStep(m + 1)
  BY RoundOrder
<1>5. FirstStep(l) \in Int /\ FirstStep(m + 1) \in Int
  <2>1. StepNum \in Nat
    BY Sizes
  <2> QED BY <1>1, <2>1 DEF FirstStep
<1>6. n \in Nat
  BY ProgramRun, LenProperties
<1>7. ASSUME f <= e PROVE FALSE
  <2>1. e + 1 \in 1..(n + 1) /\ f + 1 \in 1..(n + 1) /\ f + 1 <= e + 1
    <3>1. e \in 0..n /\ f \in 0..n
      BY <1>2
    <3> HIDE DEF e, f, n
    <3> QED BY <1>6, <1>7, <3>1
  <2>2. Later(t, w[f + 1], w[e + 1])
    <3> HIDE DEF e, f
    <3> QED BY <2>1, WayLater
  <2> HIDE DEF e, f, w
  <2> QED BY <1>2, <1>3, <1>4, <1>5, <2>2 DEF Later
<1> HIDE DEF e, f
<1>8. e < f
  BY <1>2, <1>6, <1>7
<1> QED BY <1>8 DEF e, f

(* A thread whose mark is beyond that of the start of a round has begun it.*)
LEMMA Beginning ==
  ASSUME NEW o \in Options, NEW t \in Threads, NEW l \in Loops(o),
         NEW i \in 1..(Len(Program[o][t]) + 1), ~Later(t, Way(o, t)[i], Rest(o, t, l - 1))
  PROVE  i > RoundEnd[o][t][l - 1] + 1
<1> DEFINE e == RoundEnd[o][t][l - 1]
           n == Len(Program[o][t])
           w == Way(o, t)
<1>2. l - 1 \in 0..Len(o.counts)
  BY Calls
<1>3. e \in 0..n /\ w[e + 1] = Rest(o, t, l - 1)
  BY <1>2, ProgramRun
<1>5. n \in Nat
  BY ProgramRun, LenProperties
<1>6. ASSUME i <= e + 1 PROVE FALSE
  <2>1. e + 1 \in 1..(n + 1)
    <3> HIDE DEF e, n
    <3> QED BY <1>3, <1>5
  <2>2. Later(t, w[i], w[e + 1])
    <3> HIDE DEF e
    <3> QED BY <1>6, <2>1, WayLater
  <2> QED BY <1>3, <2>2
<1> HIDE DEF e, n
<1>7. i > e + 1
  BY <1>3, <1>5, <1>6 DEF n
<1> QED BY <1>7 DEF e

(* A thread that has come to the end of a round.                           *)
LEMMA Ending ==
  ASSUME HaveType, NEW t \in Threads, NEW l \in 0..Len(opt.counts),
         pc[t] > RoundEnd[opt][t][l]
  PROVE  Later(t, Rest(opt, t, l), At(t))
<1> DEFINE e == RoundEnd[opt][t][l]
           n == Len(Program[opt][t])
           w == Way(opt, t)
           i == pc[t]
<1>1. opt \in Options /\ i \in 1..(n + 1)
  BY DEF HaveType, Prog
<1>3. e \in 0..n /\ w[e + 1] = Rest(opt, t, l)
  BY <1>1, ProgramRun
<1>4. At(t) = w[i] /\ i > e
  BY DEF At
<1>5. n \in Nat
  BY <1>1, ProgramRun, LenProperties
<1>6. e + 1 \in 1..(n + 1) /\ e + 1 <= i
  <2> HIDE DEF e, n, i
  <2> QED BY <1>1, <1>3, <1>4, <1>5
<1>7. Later(t, w[e + 1], w[i])
  <2> HIDE DEF e, i
  <2> QED BY <1>1, <1>6, WayLater
<1> QED BY <1>3, <1>4, <1>7

-----------------------------------------------------------------------------
(* The turns of the main thread and the others *)

TurnedAt(r, i) ==
  LET m == At(<<r, 1>>).turns[i]
      n == At(<<r, i>>).turns[i]
  IN  /\ <<"start", r, r, i>> \in notified => m = n + 1
      /\ <<"finish", r, r, i>> \in notified => n = m + 1
      /\ <<"start", r, r, i>> \notin notified /\ <<"finish", r, r, i>> \notin notified => m = n

(* The main thread and another thread of its rank have started and         *)
(* finished equally often, but for the notify that is on its way.          *)
Turned == \A r \in Ranks : \A i \in 2..Channels : TurnedAt(r, i)

(* Only starts and finishes count as turns.                                *)
LEMMA TurnTask ==
  ASSUME NEW o \in Options, NEW t \in Threads, NEW a \in Marks(o, t), NEW b, NEW task,
         Follows(o, t, a, task, b), NEW i \in Crew(t), NEW g, NEW m,
         g = <<"start", t[1], t[1], i>>, m = <<"finish", t[1], t[1], i>>
  PROVE  b.turns[i] = IF task.op \in {"record", "wait"} /\ task.reg \in {g, m}
                      THEN a.turns[i] + 1 ELSE a.turns[i]
<1>1. a.turns \in [Crew(t) -> Nat]
  BY MarkRange
<1>2. CASE CrewTask(t, a, task, b)
  <2>1. PICK j \in 2..Channels :
          /\ task.op \in {"record", "wait"}
          /\ task.reg \in {<<"start", t[1], t[1], j>>, <<"finish", t[1], t[1], j>>}
          /\ b.turns = [a.turns EXCEPT ![j] = @ + 1]
    BY <1>2 DEF CrewTask, Mark
  <2>2. j = i <=> task.reg \in {g, m}
    BY <2>1
  <2>3. j = i => b.turns[i] = a.turns[i] + 1
    BY <1>1, <2>1
  <2>4. j # i => b.turns[i] = a.turns[i]
    BY <1>1, <2>1
  <2> QED BY <2>1, <2>2, <2>3, <2>4
<1>3. CASE LocalTask(o, t, a, task, b)
  BY <1>3 DEF LocalTask, Mark
<1>4. CASE ChannelTask(o, t, a, task, b)
  <2>1. b.turns = a.turns
    BY <1>4 DEF ChannelTask, Mark
  <2>2. task.op \in {"record", "wait"} => task.reg[1] \in {"ack", "data"}
    BY <1>4 DEF ChannelTask
  <2>3. g[1] = "start" /\ m[1] = "finish"
    OBVIOUS
  <2> QED BY <2>1, <2>2, <2>3
<1> QED BY <1>2, <1>3, <1>4 DEF Follows

(* The exchange between the main thread of a rank and another one.         *)
LEMMA StartGrant ==
  ASSUME NEW r \in Ranks, NEW i \in 2..Channels
  PROVE  LET g == <<"start", r, r, i>>
         IN  /\ g \in Grants
             /\ Answer(g) = <<"finish", r, r, i>>
             /\ Recorder(g) = <<r, 1>> /\ Waiter(g) = <<r, i>>
             /\ Given(g) <=> i \in At(<<r, 1>>).crew
             /\ Taken(g) <=> i \in At(<<r, i>>).crew
             /\ <<r, 1>> \in Threads /\ <<r, i>> \in Threads /\ <<r, 1>> # <<r, i>>
             /\ i \in Crew(<<r, 1>>) /\ i \in Crew(<<r, i>>)
<1> DEFINE g == <<"start", r, r, i>>
<1>1. g \in Grants
  BY DEF Grants
<1>2. Answer(g) = <<"finish", r, r, i>> /\ Recorder(g) = <<r, 1>> /\ Waiter(g) = <<r, i>>
  BY DEF Answer, Recorder, Waiter
<1>3. (Given(g) <=> i \in At(<<r, 1>>).crew) /\ (Taken(g) <=> i \in At(<<r, i>>).crew)
  BY <1>2, GivenIs DEF GivenBy, TakenBy
<1>4. /\ <<r, 1>> \in Threads /\ <<r, i>> \in Threads /\ <<r, 1>> # <<r, i>>
      /\ i \in Crew(<<r, 1>>) /\ i \in Crew(<<r, i>>)
  <2>1. 1 \in 1..Channels /\ i \in 1..Channels /\ i # 1
    BY Sizes
  <2> QED BY <2>1 DEF Threads, Crew
<1> QED BY <1>1, <1>2, <1>3, <1>4

(* A task keeps the main thread and the others of its rank in turn.        *)
LEMMA TurnedStep ==
  ASSUME HaveType, Paired, NEW t \in Threads, Execute(t),
         NEW r \in Ranks, NEW i \in 2..Channels, TurnedAt(r, i)
  PROVE  TurnedAt(r, i)'
<1> DEFINE g == <<"start", r, r, i>>
           f == <<"finish", r, r, i>>
           R == <<r, 1>>
           W == <<r, i>>
           task == Current(t)
           a == At(t)
           b == At(t)'
           m == At(R).turns[i]
           n == At(W).turns[i]
           touched == task.op \in {"record", "wait"} /\ task.reg \in {g, f}
<1>1. /\ g \in Grants /\ Answer(g) = f /\ Recorder(g) = R /\ Waiter(g) = W
      /\ R \in Threads /\ W \in Threads /\ R # W /\ i \in Crew(R) /\ i \in Crew(W)
  BY StartGrant
<1>2. /\ opt \in Options /\ Follows(opt, t, a, task, b) /\ a \in Marks(opt, t) /\ b \in Marks(opt, t)
      /\ \A u \in Threads : u # t => At(u)' = At(u)
      /\ Notifies(task)
  BY Advance DEF HaveType
<1>3. task.op = "record" \/ task.op = "wait" \/ task.op = "move"
  BY DEF Execute, ExecuteRecord, ExecuteWait, ExecuteMove
<1>4. m \in Nat /\ n \in Nat
  <2>1. At(R) \in Marks(opt, R) /\ At(W) \in Marks(opt, W)
    BY <1>1, Place
  <2> QED BY <1>1, <1>2, <2>1, Parity
<1>5. RecorderStep(opt, t, g, task, a, b) /\ WaiterStep(opt, t, g, task, a, b)
  BY <1>1, <1>2, GrantStep
<1>6. (Given(g) <=> GivenBy(opt, g, At(R))) /\ (Taken(g) <=> TakenBy(opt, g, At(W)))
  BY <1>1, GivenIs
<1>7. g \in notified \/ f \in notified <=> Given(g) /\ ~Taken(g)
  BY <1>1 DEF Paired
<1>8. ~(g \in notified /\ f \in notified) /\ g # f
  BY <1>1 DEF Paired
<1>9. At(R)'.turns[i] = (IF t = R /\ touched THEN m + 1 ELSE m)
  <2>1. CASE t = R
    <3>1. R[1] = r
      OBVIOUS
    <3>2. At(t)'.turns[i] = IF touched THEN At(t).turns[i] + 1 ELSE At(t).turns[i]
      <4> HIDE DEF R, task, g, f
      <4>1. g = <<"start", t[1], t[1], i>> /\ f = <<"finish", t[1], t[1], i>> /\ i \in Crew(t)
        BY <1>1, <2>1, <3>1 DEF g, f
      <4> QED BY <1>2, <4>1, TurnTask
    <3> QED BY <2>1, <3>2
  <2>2. CASE t # R
    BY <1>1, <1>2, <2>2
  <2> QED BY <2>1, <2>2
<1>10. At(W)'.turns[i] = (IF t = W /\ touched THEN n + 1 ELSE n)
  <2>1. CASE t = W
    <3>1. W[1] = r
      OBVIOUS
    <3>2. At(t)'.turns[i] = IF touched THEN At(t).turns[i] + 1 ELSE At(t).turns[i]
      <4> HIDE DEF W, task, g, f
      <4>1. g = <<"start", t[1], t[1], i>> /\ f = <<"finish", t[1], t[1], i>> /\ i \in Crew(t)
        BY <1>1, <2>1, <3>1 DEF g, f
      <4> QED BY <1>2, <4>1, TurnTask
    <3> QED BY <2>1, <3>2
  <2>2. CASE t # W
    BY <1>1, <1>2, <2>2
  <2> QED BY <2>1, <2>2
<1>11. /\ g \in notified => m = n + 1
       /\ f \in notified => n = m + 1
       /\ g \notin notified /\ f \notin notified => m = n
  BY DEF TurnedAt
<1> DEFINE m2 == At(R)'.turns[i]
           n2 == At(W)'.turns[i]
<1> SUFFICES /\ g \in notified' => m2 = n2 + 1
             /\ f \in notified' => n2 = m2 + 1
             /\ g \notin notified' /\ f \notin notified' => m2 = n2
  BY DEF TurnedAt
<1> HIDE DEF g, f, R, W, task, a, b, m, n, m2, n2
<1>12. m2 = (IF t = R /\ touched THEN m + 1 ELSE m) /\ n2 = (IF t = W /\ touched THEN n + 1 ELSE n)
  BY <1>9, <1>10 DEF m2, n2
<1>13. CASE task.op = "record"
  <2>1. notified' = notified \cup {task.reg}
    BY <1>2, <1>13 DEF Notifies
  <2>2. CASE task.reg = g
    <3>1. t = R /\ ~GivenBy(opt, g, a)
      BY <1>1, <1>5, <1>8, <1>13, <2>2 DEF RecorderStep
    <3>2. ~Given(g)
      BY <1>6, <3>1 DEF a
    <3> QED BY <1>1, <1>4, <1>7, <1>8, <1>11, <1>12, <1>13, <2>1, <2>2, <3>1, <3>2
  <2>3. CASE task.reg = f
    <3>1. t = W /\ TakenBy(opt, g, a)
      BY <1>1, <1>5, <1>8, <1>13, <2>3 DEF WaiterStep
    <3>2. Taken(g)
      BY <1>6, <3>1 DEF a
    <3> QED BY <1>1, <1>4, <1>7, <1>8, <1>11, <1>12, <1>13, <2>1, <2>3, <3>1, <3>2
  <2>4. CASE task.reg \notin {g, f}
    BY <1>11, <1>12, <2>1, <2>4
  <2> QED BY <2>2, <2>3, <2>4
<1>14. CASE task.op = "wait"
  <2>1. notified' = notified \ {task.reg} /\ task.reg \in notified
    BY <1>2, <1>14 DEF Notifies
  <2>2. CASE task.reg = g
    <3>1. t = W
      BY <1>1, <1>5, <1>8, <1>14, <2>2 DEF WaiterStep
    <3> QED BY <1>1, <1>4, <1>8, <1>11, <1>12, <1>14, <2>1, <2>2, <3>1
  <2>3. CASE task.reg = f
    <3>1. t = R
      BY <1>1, <1>5, <1>8, <1>14, <2>3 DEF RecorderStep
    <3> QED BY <1>1, <1>4, <1>8, <1>11, <1>12, <1>14, <2>1, <2>3, <3>1
  <2>4. CASE task.reg \notin {g, f}
    BY <1>11, <1>12, <2>1, <2>4
  <2> QED BY <2>2, <2>3, <2>4
<1>15. CASE task.op = "move"
  <2>1. notified' = notified
    BY <1>2, <1>15 DEF Notifies
  <2> QED BY <1>11, <1>12, <1>15, <2>1
<1> QED BY <1>3, <1>13, <1>14, <1>15

(* Nobody has taken a turn when the threads start.                         *)
LEMMA TurnedInit == Init => Turned
<1> SUFFICES ASSUME Init, NEW r \in Ranks, NEW i \in 2..Channels PROVE TurnedAt(r, i)
  BY DEF Turned
<1>1. /\ notified = {}
      /\ <<r, 1>> \in Threads /\ <<r, i>> \in Threads /\ i \in Crew(<<r, 1>>) /\ i \in Crew(<<r, i>>)
  BY InitFacts, StartGrant
<1>2. At(<<r, 1>>) = Entering(opt, <<r, 1>>, 1, {}) /\ At(<<r, i>>) = Entering(opt, <<r, i>>, 1, {})
  BY <1>1, InitFacts DEF Rest
<1>3. At(<<r, 1>>).turns[i] = 2 * 1 - 2 /\ At(<<r, i>>).turns[i] = 2 * 1 - 2
  BY <1>1, <1>2 DEF Entering, Mark
<1> QED BY <1>1, <1>3 DEF TurnedAt

(* What that says of the threads of a rank: when the main thread has its   *)
(* whole crew at rest, all have turned as often as it counts; when one of  *)
(* them is at work, it has turned as often as the main thread counts.      *)
LEMMA TurnsAgree ==
  ASSUME HaveType, Paired, Turned, NEW r \in Ranks, NEW i \in 2..Channels
  PROVE  LET m == At(<<r, 1>>).turns[i]
             n == At(<<r, i>>).turns[i]
         IN  /\ m \in Nat /\ n \in Nat
             /\ i \notin At(<<r, 1>>).crew \/ i \in At(<<r, i>>).crew => m = n
             /\ \A h \in Nat : m >= 2 * h => n >= 2 * h
<1> DEFINE R == <<r, 1>>
           W == <<r, i>>
           m == At(R).turns[i]
           n == At(W).turns[i]
           g == <<"start", r, r, i>>
           f == <<"finish", r, r, i>>
<1>1. /\ g \in Grants /\ Answer(g) = f
      /\ Given(g) <=> i \in At(R).crew
      /\ Taken(g) <=> i \in At(W).crew
      /\ R \in Threads /\ W \in Threads /\ i \in Crew(R) /\ i \in Crew(W)
  BY StartGrant
<1>2. opt \in Options /\ At(R) \in Marks(opt, R) /\ At(W) \in Marks(opt, W)
  BY <1>1, Place DEF HaveType
<1>3. m \in Nat /\ n \in Nat /\ (i \notin At(R).crew => \E h \in Nat : m = 2 * h)
      /\ (i \in At(R).crew => \E h \in Nat : m = 2 * h + 1)
  BY <1>1, <1>2, Parity
<1>4. /\ Taken(g) => Given(g)
      /\ g \in notified \/ f \in notified <=> Given(g) /\ ~Taken(g)
  BY <1>1 DEF Paired
<1>5. /\ g \in notified => m = n + 1
      /\ f \in notified => n = m + 1
      /\ g \notin notified /\ f \notin notified => m = n
  BY DEF Turned, TurnedAt
<1> HIDE DEF m, n, g, f, R, W
<1>6. i \notin At(R).crew \/ i \in At(W).crew => m = n
  BY <1>1, <1>4, <1>5
<1>7. ASSUME NEW h \in Nat, m >= 2 * h PROVE n >= 2 * h
  <2>1. CASE m # n + 1
    BY <1>3, <1>5, <1>7, <2>1
  <2>2. CASE m = n + 1
    <3>1. PICK j \in Nat : m = 2 * j + 1
      BY <1>3, <1>6, <2>2
    <3>2. j >= h
      BY <1>7, <3>1
    <3> QED BY <1>3, <2>2, <3>1, <3>2
  <2> QED BY <2>1, <2>2
<1> QED BY <1>3, <1>6, <1>7 DEF m, n, R, W

(* With symmetric memory a thread reduces before its rank's copy is made,  *)
(* and gathers after that.                                                 *)
LEMMA Half ==
  ASSUME HaveType, Paired, Turned, opt.symmetric, NEW r \in Ranks, NEW c \in 1..Channels,
         At(<<r, c>>).phase >= 1
  PROVE  /\ At(<<r, c>>).step \in 1..(2 * StepNum)
         /\ At(<<r, 1>>).copies = IF At(<<r, c>>).step <= StepNum THEN 0 ELSE 1
<1> DEFINE R == <<r, 1>>
           T == <<r, c>>
           k == At(T).step
<1>1. opt \in Options /\ R \in Threads /\ T \in Threads /\ T[2] = c /\ R[2] = 1
  <2>1. 1 \in 1..Channels
    BY Sizes
  <2> QED BY <2>1 DEF Threads, HaveType
<1>2. StepNum \in Nat \ {0} /\ Steps(opt) = 2 * StepNum
  <2>1. Len(opt.counts) = 1 /\ StepNum \in Nat \ {0}
    BY <1>1, Sizes, NHRAssumption DEF LegalOption
  <2> QED BY <2>1 DEF Steps
<1>3. k \in 1..(2 * StepNum) /\ Manned(T, At(T))
  BY <1>1, <1>2, Working
<1>4. At(R) \in Marks(opt, R) /\ At(T) \in Marks(opt, T)
  BY <1>1, Place
<1>5. k \in 1..StepNum \/ k \in (StepNum + 1)..(2 * StepNum)
  BY <1>2, <1>3
<1>6. CASE c = 1
  <2>1. R = T
    BY <1>6
  <2>2. (k \in 1..StepNum => At(T).copies = 0) /\ (k \in (StepNum + 1)..(2 * StepNum) => At(T).copies = 1)
    BY <1>1, <1>4, <1>6, MarkOfHalf
  <2> HIDE DEF R, T, k
  <2> QED BY <1>2, <1>3, <1>5, <2>1, <2>2 DEF k, R, T
<1>7. CASE c # 1
  <2>1. c \in 2..Channels /\ c \in Crew(T) /\ c \in Crew(R)
    BY <1>1, <1>7, ThreadFacts DEF Crew
  <2>2. c \in At(T).crew
    BY <1>1, <1>3, <1>7 DEF Manned
  <2>3. At(R).turns[c] = At(T).turns[c]
    BY <2>1, <2>2, TurnsAgree
  <2>4. (k \in 1..StepNum => At(T).turns[c] = 1) /\ (k \in (StepNum + 1)..(2 * StepNum) => At(T).turns[c] = 3)
    BY <1>1, <1>4, <2>1, MarkOfHalf
  <2>5. (At(R).turns[c] = 1 => At(R).copies = 0) /\ (At(R).turns[c] = 3 => At(R).copies = 1)
    BY <1>1, <1>4, <2>1, MarkOfHalf
  <2> HIDE DEF R, T, k
  <2> QED BY <1>2, <1>3, <1>5, <2>3, <2>4, <2>5 DEF k, R, T
<1> QED BY <1>6, <1>7

(* All threads of a rank stand still while its own slice is copied.        *)
LEMMA StandStill ==
  ASSUME HaveType, Paired, Turned, opt.symmetric, NEW r \in Ranks, NEW c \in 1..Channels,
         At(<<r, 1>>) = Leaving(opt, <<r, 1>>, 1, {})
  PROVE  At(<<r, c>>).step = StepNum + 1 /\ At(<<r, c>>).phase = 0
<1> DEFINE R == <<r, 1>>
           T == <<r, c>>
<1>1. opt \in Options /\ R \in Threads /\ T \in Threads /\ T[2] = c /\ R[2] = 1
  <2>1. 1 \in 1..Channels
    BY Sizes
  <2> QED BY <2>1 DEF Threads, HaveType
<1>2. CASE c = 1
  <2>1. LegStart(opt, 2) = StepNum + 1
    <3>1. StepNum \in Nat
      BY Sizes
    <3> QED BY <3>1 DEF LegStart, LegSteps
  <2> QED BY <1>2, <2>1 DEF Leaving, Mark
<1>3. CASE c # 1
  <2>1. c \in 2..Channels /\ c \in Crew(T) /\ c \in Crew(R)
    BY <1>1, <1>3, ThreadFacts DEF Crew
  <2>2. At(R).turns[c] = 2 /\ c \notin At(R).crew
    BY <2>1 DEF Leaving, Mark
  <2>3. At(T).turns[c] = 2
    BY <2>1, <2>2, TurnsAgree
  <2>4. At(T) \in Marks(opt, T)
    BY <1>1, Place
  <2> QED BY <1>1, <1>3, <2>1, <2>3, <2>4, MarkOfHalf
<1> QED BY <1>2, <1>3

(* When the main thread has passed a round, so have the others, but for    *)
(* what follows their last finish.                                         *)
LEMMA Passed ==
  ASSUME HaveType, Paired, Turned, NEW r \in Ranks, NEW c \in 1..Channels, NEW l \in Loops(opt),
         pc[<<r, 1>>] > RoundEnd[opt][<<r, 1>>][l]
  PROVE  /\ ~opt.symmetric => At(<<r, c>>).copies >= 2 * l
         /\ opt.symmetric => At(<<r, c>>).step = 2 * StepNum + 1 /\ At(<<r, 1>>).copies >= 1
<1> DEFINE R == <<r, 1>>
           T == <<r, c>>
           q == GatherLeg(opt, l)
<1>1. opt \in Options /\ R \in Threads /\ T \in Threads /\ T[2] = c /\ R[2] = 1
  <2>1. 1 \in 1..Channels
    BY Sizes
  <2> QED BY <2>1 DEF Threads, HaveType
<1>2. l \in Nat \ {0} /\ l \in 0..Len(opt.counts) /\ Len(opt.counts) \in Nat
  BY <1>1, Calls
<1>3. Later(R, Rest(opt, R, l), At(R))
  BY <1>1, <1>2, Ending
<1>4. Rest(opt, R, l) = Leaving(opt, R, q, {})
  BY <1>1, RestIs
<1>5. /\ q = IF opt.symmetric THEN 2 ELSE l
      /\ Rest(opt, R, l).copies = IF opt.symmetric THEN 1 ELSE 2 * l
      /\ \A i \in Crew(R) : Rest(opt, R, l).turns[i] = 2 * q
      /\ Rest(opt, R, l).step = LegStart(opt, q + 1)
  <2>1. q = IF opt.symmetric THEN 2 ELSE l
    BY DEF GatherLeg
  <2>2. Rest(opt, R, l).copies = IF opt.symmetric THEN 1 ELSE 2 * l
    BY <1>4, <2>1 DEF Leaving, Mark, Copied
  <2> QED BY <1>4, <2>1, <2>2 DEF Leaving, Mark
<1>6. At(R) \in Marks(opt, R) /\ At(T) \in Marks(opt, T)
  BY <1>1, Place
<1>7. /\ At(R).copies >= IF opt.symmetric THEN 1 ELSE 2 * l
      /\ \A i \in Crew(R) : At(R).turns[i] >= 2 * q
      /\ At(R).step >= LegStart(opt, q + 1)
  <2>1. At(R).step \in Int /\ At(R).copies \in Int /\ At(R).turns \in [Crew(R) -> Nat] /\ l \in Int /\ q \in Int
    <3>1. q \in Int
      BY <1>2, <1>5
    <3> HIDE DEF q, R
    <3> QED BY <1>2, <1>6, <3>1, MarkRange
  <2>2. LegStart(opt, q + 1) \in Int
    <3>1. q \in 1..Legs(opt)
      BY <1>1, RoundLegs
    <3> QED BY <1>1, <3>1, LegFacts
  <2> HIDE DEF q, R
  <2> QED BY <1>3, <1>5, <2>1, <2>2 DEF Later
<1>8. CASE c = 1
  <2>1. ASSUME opt.symmetric PROVE At(R).step = 2 * StepNum + 1
    <3>1. LegStart(opt, 3) = 2 * StepNum + 1 /\ q + 1 = 3 /\ StepNum \in Nat
      <4>1. StepNum \in Nat
        BY Sizes
      <4> QED BY <1>5, <2>1, <4>1 DEF LegStart, LegSteps
    <3>2. Steps(opt) = 2 * StepNum
      <4>1. Len(opt.counts) = 1
        BY <1>1, <2>1, NHRAssumption DEF LegalOption
      <4> QED BY <3>1, <4>1 DEF Steps
    <3>3. At(R).step \in 1..(Steps(opt) + 1)
      BY <1>6, MarkRange
    <3> HIDE DEF q, R
    <3> QED BY <1>7, <3>1, <3>2, <3>3
  <2> QED BY <1>7, <1>8, <2>1
<1>9. CASE c # 1
  <2>1. c \in 2..Channels /\ c \in Crew(T) /\ c \in Crew(R)
    BY <1>1, <1>9, ThreadFacts DEF Crew
  <2>2. q \in Nat /\ At(R).turns[c] >= 2 * q
    BY <1>2, <1>5, <1>7, <2>1
  <2>3. At(T).turns[c] >= 2 * q /\ At(T).turns[c] \in Nat
    <3> HIDE DEF q
    <3> QED BY <2>1, <2>2, TurnsAgree
  <2>4. ASSUME ~opt.symmetric PROVE At(T).copies >= 2 * l
    <3>1. q = l
      BY <1>5, <2>4
    <3> HIDE DEF T
    <3> QED BY <1>1, <1>6, <2>1, <2>3, <2>4, <3>1, MarkOfRound
  <2>5. ASSUME opt.symmetric PROVE At(T).step = 2 * StepNum + 1 /\ At(R).copies >= 1
    <3>1. At(T).turns[c] >= 4
      BY <1>5, <2>3, <2>5
    <3>2. At(T).step = 2 * StepNum + 1
      <4> HIDE DEF T
      <4> QED BY <1>1, <1>6, <2>1, <2>5, <3>1, MarkOfHalf
    <3> QED BY <1>7, <2>5, <3>2
  <2> QED BY <2>4, <2>5
<1> QED BY <1>8, <1>9

-----------------------------------------------------------------------------
(* The arrival of data *)

(* The rank whose thread makes the transfer to rank r in step k.           *)
Mover(o, k, r) == IF HandshakeMode[o][k] = "write" THEN AckPeer(o, k, r) ELSE r

Arrived(r, c, k) == Past(<<Mover(opt, k, r), c>>, k, 2)

(* The number of steps in which a rank has been sent its data, which may   *)
(* be one more or less than the steps its own thread has completed.        *)
Received(r, c) ==
  LET k == At(<<r, c>>).step
  IN  IF k <= Steps(opt) /\ Arrived(r, c, k) THEN k ELSE k - 1

ReceivedFacts ==
  IInv => \A r \in Ranks, c \in 1..Channels :
            /\ Received(r, c) \in 0..Steps(opt)
            /\ Received(r, c) \in {At(<<r, c>>).step - 1, At(<<r, c>>).step}
            /\ At(<<r, c>>).phase = 0 => Received(r, c) = At(<<r, c>>).step - 1
            /\ \A k \in 1..Steps(opt) : Arrived(r, c, k) <=> k <= Received(r, c)

(* Data arrive after the ACK and before the receiver takes the DATA notify.*)
LEMMA ArrivedOrder ==
  ASSUME IInv, NEW r \in Ranks, NEW c \in 1..Channels, NEW k \in 1..Steps(opt)
  PROVE  /\ Arrived(r, c, k) => Past(<<r, c>>, k, 0)
         /\ Past(<<r, c>>, k, 4) => Arrived(r, c, k)
<1> DEFINE T == <<r, c>>
           y == AckPeer(opt, k, r)
           Y == <<y, c>>
<1>1. HaveType /\ InStep /\ opt \in Options
  BY DEF IInv, HaveType
<1>2. y \in Ranks
  BY <1>1, Peers
<1>3. T \in Threads /\ Y \in Threads
  BY <1>2 DEF Threads
<1>4. /\ At(T).step \in Int /\ At(T).phase \in Int /\ At(Y).step \in Int /\ At(Y).phase \in Int
      /\ k \in Int
  <2>1. At(T) \in Marks(opt, T) /\ At(Y) \in Marks(opt, Y)
    BY <1>1, <1>3, Place
  <2> QED BY <1>1, <2>1, MarkRange, Calls
<1>5. InStepAt(r, y, c, k)
  BY <1>1, <1>2 DEF InStep
<1>6. CASE HandshakeMode[opt][k] = "write"
  <2>1. Arrived(r, c, k) <=> Past(Y, k, 2)
    BY <1>6 DEF Arrived, Mover
  <2>2. (Past(Y, k, 2) => Past(Y, k, 1)) /\ (Past(Y, k, 3) => Past(Y, k, 2))
    <3> HIDE DEF Y
    <3> QED BY <1>4 DEF Past
  <2> QED BY <1>5, <2>1, <2>2 DEF InStepAt
<1>7. CASE HandshakeMode[opt][k] # "write"
  <2>1. Arrived(r, c, k) <=> Past(T, k, 2)
    BY <1>7 DEF Arrived, Mover
  <2>2. (Past(T, k, 2) => Past(T, k, 0)) /\ (Past(T, k, 4) => Past(T, k, 2))
    <3> HIDE DEF T
    <3> QED BY <1>4 DEF Past
  <2> QED BY <2>1, <2>2
<1> QED BY <1>6, <1>7

(* How many steps' data a thread has received, from where the two threads  *)
(* of its exchanges stand.                                                 *)
LEMMA ReceivedIs == ReceivedFacts
<1> SUFFICES ASSUME IInv, NEW r \in Ranks, NEW c \in 1..Channels
             PROVE  /\ Received(r, c) \in 0..Steps(opt)
                    /\ Received(r, c) \in {At(<<r, c>>).step - 1, At(<<r, c>>).step}
                    /\ At(<<r, c>>).phase = 0 => Received(r, c) = At(<<r, c>>).step - 1
                    /\ \A k \in 1..Steps(opt) : Arrived(r, c, k) <=> k <= Received(r, c)
  BY DEF ReceivedFacts
<1> DEFINE T == <<r, c>>
           s == At(T).step
           n == Received(r, c)
<1>1. HaveType /\ opt \in Options /\ T \in Threads
  BY DEF IInv, HaveType, Threads
<1>2. s \in 1..(Steps(opt) + 1) /\ At(T).phase \in 0..4 /\ Steps(opt) \in Nat
  <2>1. At(T) \in Marks(opt, T)
    BY <1>1, Place
  <2> QED BY <1>1, <2>1, MarkRange, Calls
<1>3. n = IF s <= Steps(opt) /\ Arrived(r, c, s) THEN s ELSE s - 1
  BY DEF Received
<1>4. ASSUME NEW k \in 1..Steps(opt)
      PROVE  /\ Arrived(r, c, k) => s > k \/ (s = k /\ At(T).phase > 0)
             /\ s > k => Arrived(r, c, k)
  BY ArrivedOrder DEF Past
<1> HIDE DEF s, n, T
<1>5. n \in 0..Steps(opt) /\ n \in {s - 1, s}
  BY <1>2, <1>3
<1>6. ASSUME At(T).phase = 0 PROVE n = s - 1
  BY <1>2, <1>3, <1>4, <1>6
<1>7. ASSUME NEW k \in 1..Steps(opt) PROVE Arrived(r, c, k) <=> k <= n
  <2>1. CASE k < s
    BY <1>2, <1>3, <1>4, <1>7, <2>1
  <2>2. CASE k = s
    BY <1>2, <1>3, <1>4, <1>7, <2>2
  <2>3. CASE k > s
    <3>1. ~Arrived(r, c, k)
      BY <1>2, <1>4, <1>7, <2>3
    <3> QED BY <1>2, <1>3, <1>7, <2>3, <3>1
  <2> QED BY <1>2, <1>7, <2>1, <2>2, <2>3
<1> QED BY <1>5, <1>6, <1>7 DEF s, n, T

(* The same in the next state.                                             *)
LEMMA ReceivedThen == ReceivedFacts'
BY ReceivedIs, PTL

(* Data arrive when their mover moves them.                                *)
LEMMA TargetIs ==
  ASSUME NEW o \in Options, NEW k \in 1..Steps(o), NEW w \in Ranks
  PROVE  LET z == Target(o, k, w)
             y == HandshakeRx[o][k][z]
         IN  /\ z \in Ranks /\ y \in Ranks /\ y # z
             /\ {y, z} = {w, DataPeer(o, k, w)}
             /\ \A x \in Ranks : Mover(o, k, x) = w <=> x = z
<1> DEFINE d == DataPeer(o, k, w)
           z == Target(o, k, w)
           y == HandshakeRx[o][k][z]
<1>1. /\ d \in Ranks /\ AckPeer(o, k, d) = w /\ d # w
      /\ \A x \in Ranks : AckPeer(o, k, x) = w => x = d
  BY Peers
<1>2. CASE HandshakeMode[o][k] = "write"
  <2>1. z = d /\ y = AckPeer(o, k, d)
    BY <1>2 DEF Target, AckPeer
  <2>2. \A x \in Ranks : Mover(o, k, x) = AckPeer(o, k, x)
    BY <1>2 DEF Mover
  <2> HIDE DEF d, z, y
  <2> QED BY <1>1, <2>1, <2>2 DEF d, z, y
<1>3. CASE HandshakeMode[o][k] # "write"
  <2>1. z = w /\ y = d
    BY <1>3 DEF Target, DataPeer
  <2>2. \A x \in Ranks : Mover(o, k, x) = x
    BY <1>3 DEF Mover
  <2> HIDE DEF d, z, y
  <2> QED BY <1>1, <2>1, <2>2 DEF d, z, y
<1> QED BY <1>2, <1>3

(* A step of a thread brings data to one rank at most.                     *)
LEMMA Receiving ==
  ASSUME IInv, NEW t \in Threads, Execute(t), NEW r \in Ranks, NEW c \in 1..Channels
  PROVE  Received(r, c)' = IF /\ At(t).phase = 2
                              /\ c = t[2] /\ r = Target(opt, At(t).step, t[1])
                           THEN At(t).step ELSE Received(r, c)
<1> DEFINE k0 == At(t).step
           hit == At(t).phase = 2 /\ c = t[2] /\ r = Target(opt, k0, t[1])
           n == Received(r, c)
           n2 == Received(r, c)'
           S == Steps(opt)
           old(k) == Arrived(r, c, k)
           new(k) == Arrived(r, c, k)'
<1>1. HaveType /\ opt \in Options /\ opt' = opt /\ IInv'
  <2>1. HaveType /\ opt \in Options
    BY DEF IInv, HaveType
  <2> QED BY <2>1, Advance, InvarianceStep
<1>2. /\ n \in 0..S /\ n2 \in 0..S /\ S \in Nat
      /\ \A k \in 1..S : (old(k) <=> k <= n) /\ (new(k) <=> k <= n2)
  <2>1. ReceivedFacts /\ ReceivedFacts'
    BY ReceivedIs, ReceivedThen
  <2>2. /\ n \in 0..S /\ \A k \in 1..S : old(k) <=> k <= n
    BY <1>1, <2>1 DEF ReceivedFacts
  <2>3. Steps(opt)' = S
    BY <1>1 DEF Steps
  <2>4. n2 \in 0..S /\ \A k \in 1..S : new(k) <=> k <= n2
    BY <1>1, <2>1, <2>3 DEF ReceivedFacts
  <2>5. S \in Nat
    BY <1>1, Calls
  <2> QED BY <2>2, <2>4, <2>5
<1>3. t[1] \in Ranks /\ t[2] \in 1..Channels /\ t = <<t[1], t[2]>>
  BY ThreadFacts
<1>4. ASSUME NEW k \in 1..S
      PROVE  /\ old(k) => new(k)
             /\ new(k) /\ ~old(k) => hit /\ k = k0
             /\ hit /\ k = k0 => new(k) /\ ~old(k)
  <2>0. PICK x : x = Mover(opt, k, r)
    OBVIOUS
  <2> DEFINE u == <<x, c>>
  <2>1. x \in Ranks
    BY <1>1, <1>4, <2>0, Peers DEF Mover
  <2>2. u \in Threads /\ (u = t <=> x = t[1] /\ c = t[2])
    BY <1>3, <2>1 DEF Threads
  <2>3. (old(k) <=> Past(u, k, 2)) /\ (new(k) <=> Past(u, k, 2)')
    BY <1>1, <2>0 DEF Arrived, Mover, Past
  <2>4. x = t[1] <=> r = Target(opt, k, t[1])
    BY <1>1, <1>3, <2>0, TargetIs
  <2>5. /\ Past(u, k, 2) => Past(u, k, 2)'
        /\ Past(u, k, 2)' /\ ~Past(u, k, 2) => u = t /\ k0 = k /\ At(t).phase = 2
    <3> HIDE DEF u
    <3> QED BY <1>1, <1>4, <2>2, PastStep
  <2>6. ASSUME u = t, k0 = k, At(t).phase = 2 PROVE Past(u, k, 2)' /\ ~Past(u, k, 2)
    <3>1. At(t)'.phase = 3 /\ At(t)'.step = k
      <4>1. Follows(opt, t, At(t), Current(t), At(t)') /\ At(t) \in Marks(opt, t)
        BY <1>1, Advance
      <4> QED BY <1>1, <2>6, <4>1, Marching
    <3>2. Past(t, k, 2)' /\ ~Past(t, k, 2)
      BY <1>2, <1>4, <2>6, <3>1 DEF Past
    <3> HIDE DEF u
    <3> QED BY <2>6, <3>2
  <2> HIDE DEF u, k0
  <2> QED BY <2>2, <2>3, <2>4, <2>5, <2>6 DEF k0
<1>5. hit => k0 \in 1..S
  <2>1. At(t).phase = 2 => k0 \in 1..S
    BY <1>1, Working
  <2> QED BY <2>1
<1>10. PICK p, q : p = n /\ q = n2
  OBVIOUS
<1>11. /\ p \in 0..S /\ q \in 0..S /\ S \in Nat
       /\ \A k \in 1..S : (old(k) <=> k <= p) /\ (new(k) <=> k <= q)
  <2> HIDE DEF n, n2, S, old, new
  <2> QED BY <1>2, <1>10
<1>12. PICK s : s = k0
  OBVIOUS
<1> HIDE DEF hit, n, n2, S, old, new, k0
<1>6. CASE hit
  <2>1. new(s) /\ ~old(s) /\ s \in 1..S
    BY <1>4, <1>5, <1>6, <1>12
  <2>2. p < s /\ s <= q
    BY <1>11, <2>1
  <2>3. ASSUME q > s PROVE FALSE
    <3>1. q \in 1..S
      BY <1>11, <2>1, <2>3
    <3>2. new(q) /\ ~old(q)
      BY <1>11, <2>1, <2>2, <2>3, <3>1
    <3>3. q = s
      BY <1>4, <1>12, <3>1, <3>2
    <3> QED BY <1>11, <2>1, <2>3, <3>3
  <2>4. q = s
    BY <1>11, <2>1, <2>2, <2>3
  <2> QED BY <1>6, <1>10, <1>12, <2>4 DEF hit, n2, k0
<1>7. CASE ~hit
  <2>1. \A k \in 1..S : k <= p <=> k <= q
    BY <1>11, <1>4, <1>7
  <2>2. p = q
    <3>1. p <= q
      BY <1>11, <2>1
    <3>2. q <= p
      BY <1>11, <2>1
    <3> QED BY <1>11, <3>1, <3>2
  <2> QED BY <1>7, <1>10, <2>2 DEF hit, n2, n, k0
<1> QED BY <1>6, <1>7

(* Only local copies count as copies.                                      *)
LEMMA Copying ==
  ASSUME IInv, NEW t \in Threads, Execute(t), NEW u \in Threads
  PROVE  At(u)'.copies = IF u = t /\ At(t).phase = 0 /\ Current(t).op = "move"
                         THEN At(u).copies + 1 ELSE At(u).copies
<1>1. /\ Follows(opt, t, At(t), Current(t), At(t)')
      /\ \A v \in Threads : v # t => At(v)' = At(v)
  BY Advance DEF IInv
<1> DEFINE a == At(t)
           b == At(t)'
           task == Current(t)
<1>2. b.copies = IF a.phase = 0 /\ task.op = "move" THEN a.copies + 1 ELSE a.copies
  <2> HIDE DEF a, b, task
  <2>1. CASE CrewTask(t, a, task, b)
    <3>1. b.copies = a.copies /\ task.op # "move"
      BY <2>1 DEF CrewTask, Mark
    <3> QED BY <3>1
  <2>2. CASE LocalTask(opt, t, a, task, b)
    <3>1. b.copies = a.copies + 1 /\ task.op = "move" /\ a.phase = 0
      BY <2>2 DEF LocalTask, Mark
    <3> QED BY <3>1
  <2>3. CASE ChannelTask(opt, t, a, task, b)
    <3>1. b.copies = a.copies
      BY <2>3 DEF ChannelTask, Mark
    <3>2. ~(a.phase = 0 /\ task.op = "move")
      BY <2>3 DEF ChannelTask
    <3> QED BY <3>1, <3>2
  <2> QED BY <1>1, <2>1, <2>2, <2>3 DEF Follows, a, b, task
<1> QED BY <1>1, <1>2

(* What a transfer finds: its two ranks are in its step, the target has    *)
(* not been sent the data yet, and both have been sent those of the steps  *)
(* before.                                                                 *)
LEMMA Transfer ==
  ASSUME IInv, NEW t \in Threads, Execute(t), At(t).phase = 2
  PROVE  LET k == At(t).step
             c == t[2]
             z == Target(opt, k, t[1])
             y == HandshakeRx[opt][k][z]
         IN  /\ k \in 1..Steps(opt) /\ c \in 1..Channels
             /\ z \in Ranks /\ y \in Ranks /\ y # z
             /\ Current(t).op = "move" /\ Receipt(opt, k, c, z, Current(t).moves)
             /\ Received(z, c) = k - 1 /\ Received(y, c) \in {k - 1, k}
             /\ \A x \in {y, z} : At(<<x, c>>).step = k /\ At(<<x, c>>).phase >= 1
<1> DEFINE k == At(t).step
           c == t[2]
           z == Target(opt, k, t[1])
           y == HandshakeRx[opt][k][z]
           d == DataPeer(opt, k, t[1])
<1>1. HaveType /\ opt \in Options
  BY DEF IInv, HaveType
<1>2. t[1] \in Ranks /\ c \in 1..Channels /\ t = <<t[1], c>>
  BY ThreadFacts
<1>3. k \in 1..Steps(opt)
  BY <1>1, Working
<1>4. /\ z \in Ranks /\ y \in Ranks /\ y # z /\ {y, z} = {t[1], d}
      /\ Mover(opt, k, z) = t[1]
  BY <1>1, <1>2, <1>3, TargetIs
<1>5. Current(t).op = "move" /\ Receipt(opt, k, c, z, Current(t).moves)
  <2>1. Follows(opt, t, At(t), Current(t), At(t)')
    BY <1>1, Advance
  <2>2. ChannelTask(opt, t, At(t), Current(t), At(t)')
    BY <2>1 DEF Follows, CrewTask, LocalTask
  <2> QED BY <2>2 DEF ChannelTask
<1>6. \A x \in {y, z} : At(<<x, c>>).step = k /\ At(<<x, c>>).phase >= 1
  <2>1. At(<<t[1], c>>).step = k /\ At(<<t[1], c>>).phase = 2
    BY <1>2
  <2>2. At(<<d, c>>).step = k /\ At(<<d, c>>).phase >= 1
    <3> DEFINE w == t[1]
    <3>1. w \in Ranks /\ At(<<w, c>>).step = k /\ At(<<w, c>>).phase \in 2..3
      BY <1>2, <2>1
    <3> HIDE DEF w
    <3> QED BY <1>2, <3>1, PeerStands DEF w
  <2> HIDE DEF d, y, z, k
  <2> QED BY <1>4, <2>1, <2>2
<1>7. Received(y, c) \in {k - 1, k} /\ Received(z, c) \in {k - 1, k} /\ (Arrived(z, c, k) <=> k <= Received(z, c))
  <2>1. \A x \in {y, z} : Received(x, c) \in {k - 1, k}
    <3> HIDE DEF y, z, k
    <3> QED BY <1>2, <1>4, <1>6, ReceivedIs DEF ReceivedFacts
  <2>2. Arrived(z, c, k) <=> k <= Received(z, c)
    <3> HIDE DEF y, z, k
    <3> QED BY <1>2, <1>3, <1>4, ReceivedIs DEF ReceivedFacts
  <2> QED BY <2>1, <2>2
<1>8. ~Arrived(z, c, k)
  <2>1. Arrived(z, c, k) <=> Past(t, k, 2)
    BY <1>2, <1>4 DEF Arrived
  <2>2. k \in Int
    BY <1>1, <1>3, Calls
  <2> QED BY <2>1, <2>2 DEF Past
<1>9. Received(z, c) = k - 1
  <2>1. k \in Int
    BY <1>1, <1>3, Calls
  <2> HIDE DEF z, k
  <2> QED BY <1>7, <1>8, <2>1
<1> QED BY <1>2, <1>3, <1>4, <1>5, <1>6, <1>7, <1>9

-----------------------------------------------------------------------------
(* The slices of a step *)

Distant(r, s) == L!Off(N, r, s)

(* An odd multiple of a distance is not an even one.                       *)
LEMMA OddMultiple ==
  ASSUME NEW d \in Nat \ {0}, NEW p \in Nat, L!Multiple(2 * d, p)
  PROVE  ~L!Multiple(2 * d, p + d)
<1> SUFFICES ASSUME L!Multiple(2 * d, p + d) PROVE FALSE
  OBVIOUS
<1> DEFINE e == 2 * d
<1>1. PICK i \in Nat : p = e * i
  BY DEF L!Multiple
<1>2. PICK j \in Nat : p + d = e * j
  BY DEF L!Multiple
<1>3. e \in Nat /\ d < e /\ e = 2 * d
  OBVIOUS
<1> HIDE DEF e
<1>4. e * (i + 1) = e * i + e /\ e * i \in Nat /\ e * j \in Nat
  BY <1>3
<1>5. j <= i => e * j <= e * i
  BY <1>3, L!TimesMonotone, ScheduleSize
<1>6. i + 1 <= j => e * (i + 1) <= e * j
  BY <1>3, L!TimesMonotone, ScheduleSize
<1>7. j <= i \/ i + 1 <= j
  OBVIOUS
<1> QED BY <1>1, <1>2, <1>3, <1>4, <1>5, <1>6, <1>7

(* The slices between two ranks a distance d apart.                        *)
LEMMA SliceOffsets ==
  ASSUME NEW d \in 1..(N - 1), NEW r \in Ranks
  PROVE  LET a == Above(r, d)
         IN  /\ a \in Ranks /\ a # r
             /\ SliceSet(r, d) =
                  {s \in Slices : L!Multiple(2 * d, Distant(r, s)) /\ Distant(r, s) + d < N}
             /\ \A s \in Slices : Distant(r, s) \in 0..(N - 1) /\ (Distant(r, s) = 0 <=> r = s)
             /\ \A s \in SliceSet(r, d) :
                  /\ Distant(a, s) = Distant(r, s) + d
                  /\ L!Multiple(d, Distant(a, s)) /\ ~L!Multiple(2 * d, Distant(a, s))
<1> DEFINE a == Above(r, d)
<1>1. N \in Nat \ {0, 1} /\ N \in Nat \ {0} /\ U32 \in Nat /\ 4 * N < U32 /\ d \in Nat \ {0}
  BY Sizes
<1>2. r \in 0..(N - 1) /\ Slices = 0..(N - 1) /\ a \in Ranks /\ a # r
  BY UpAndDown DEF Ranks, Slices
<1>3. SliceSet(r, d) = {s \in Slices : L!Multiple(2 * d, Distant(r, s)) /\ Distant(r, s) + d < N}
  <2>1. L!S(N)!SliceSet(r, d) = {s \in 0..(N - 1) : L!Multiple(2 * d, L!Off(N, r, s)) /\ L!Off(N, r, s) + d < N}
    BY <1>1, <1>2, L!SliceSetIs, ScheduleSize
  <2>2. L!S(N)!SliceSet(r, d) = SliceSet(r, d)
    BY DEF L!S!SliceSet, SliceSet, L!S!SliceIdx, SliceIdx, L!S!SliceNum, SliceNum
  <2> QED BY <1>2, <2>1, <2>2 DEF Distant
<1>4. \A s \in Slices : Distant(r, s) \in 0..(N - 1) /\ (Distant(r, s) = 0 <=> r = s)
  BY <1>1, <1>2 DEF Distant, L!Off
<1>5. ASSUME NEW s \in SliceSet(r, d)
      PROVE  /\ Distant(a, s) = Distant(r, s) + d
             /\ L!Multiple(d, Distant(a, s)) /\ ~L!Multiple(2 * d, Distant(a, s))
  <2>1. s \in 0..(N - 1) /\ L!Multiple(2 * d, Distant(r, s)) /\ Distant(r, s) + d < N
    BY <1>2, <1>3
  <2>2. a = L!S(N)!Above(r, d)
    BY DEF Above, L!S!Above
  <2>3. Distant(a, s) = Distant(r, s) + d
    BY <1>1, <1>2, <2>1, <2>2, L!OffNeighbours, ScheduleSize DEF Distant
  <2>4. Distant(r, s) \in Nat
    BY <1>1, <1>2, <1>4, <2>1
  <2>5. L!Multiple(d, Distant(r, s))
    BY <1>1, <2>1, <2>4, L!MultipleFacts, ScheduleSize
  <2>6. L!Multiple(d, Distant(r, s) + d)
    BY <1>1, <2>4, <2>5, L!MultipleFacts, ScheduleSize
  <2>7. ~L!Multiple(2 * d, Distant(r, s) + d)
    BY <1>1, <2>1, <2>4, OddMultiple
  <2> QED BY <2>3, <2>6, <2>7
<1> QED BY <1>2, <1>3, <1>4, <1>5

(* What a step of ReduceScatter receives, by the distance of slice and     *)
(* rank.                                                                   *)
LEMMA ScatterOffsets ==
  ASSUME NEW i \in 0..(StepNum - 1), NEW z \in Ranks
  PROVE  LET d == 2^i
             y == ScatterFrom(i, z)
         IN  /\ d \in Nat \ {0} /\ d < N /\ 2^(i + 1) = 2 * d /\ y \in Ranks /\ y # z
             /\ ScatterRx(i, z) =
                  {s \in Slices : L!Multiple(2 * d, Distant(z, s)) /\ Distant(z, s) + d < N}
             /\ \A s \in ScatterRx(i, z) :
                  /\ Distant(y, s) = Distant(z, s) + d
                  /\ L!Multiple(d, Distant(y, s)) /\ ~L!Multiple(2 * d, Distant(y, s))
<1> DEFINE d == 2^i
<1>1. d \in 1..(N - 1) /\ 2^(i + 1) = 2 * d
  BY Sizes, L!Distance, ScheduleSize
<1>2. ScatterFrom(i, z) = Above(z, d) /\ ScatterRx(i, z) = SliceSet(z, d)
  BY DEF ScatterFrom, ScatterRx, ScatterDistance
<1>3. N \in Nat
  BY Sizes
<1> HIDE DEF d
<1>4. d \in Nat \ {0} /\ d < N
  BY <1>1, <1>3
<1> QED BY <1>1, <1>2, <1>4, SliceOffsets DEF d

(* What a step of AllGather receives, by the distance of slice and rank.   *)
LEMMA GatherOffsets ==
  ASSUME NEW j \in 0..(StepNum - 1), NEW z \in Ranks
  PROVE  LET d == 2^(StepNum - 1 - j)
             y == GatherFrom(j, z)
         IN  /\ d \in Nat \ {0} /\ 2^(StepNum - j) = 2 * d /\ y \in Ranks /\ y # z
             /\ GatherRx(j, z) \subseteq Slices
             /\ \A s \in Slices : L!Multiple(d, Distant(z, s)) =>
                  L!Multiple(2 * d, Distant(z, s)) \/ s \in GatherRx(j, z)
             /\ \A s \in GatherRx(j, z) :
                  /\ L!Multiple(2 * d, Distant(y, s)) /\ L!Multiple(d, Distant(y, s))
                  /\ ~L!Multiple(2 * d, Distant(z, s))
<1> DEFINE d == 2^(StepNum - 1 - j)
           y == Below(z, d)
<1>1. d \in 1..(N - 1) /\ 2^(StepNum - j) = 2 * d
  <2> DEFINE h == StepNum - 1 - j
  <2>1. h \in 0..(StepNum - 1) /\ h + 1 = StepNum - j
    BY Sizes
  <2> HIDE DEF h
  <2>2. 2^h \in 1..(N - 1) /\ 2^(h + 1) = 2 * 2^h
    BY <2>1, Sizes, L!Distance, ScheduleSize
  <2> QED BY <2>1, <2>2 DEF h
<1>2. GatherFrom(j, z) = y /\ GatherRx(j, z) = SliceSet(y, d)
  BY DEF GatherFrom, GatherRx, GatherDistance
<1>3. N \in Nat \ {0, 1} /\ z \in 0..(N - 1) /\ Slices = 0..(N - 1)
  BY Sizes DEF Ranks, Slices
<1> HIDE DEF d
<1>4. y \in Ranks /\ Above(y, d) = z /\ y # z
  BY <1>1, UpAndDown
<1>5. d \in Nat \ {0}
  BY <1>1
<1>6. \A x \in Ranks : \A s \in Slices : Distant(x, s) \in 0..(N - 1)
  BY <1>1, SliceOffsets
<1>7. SliceSet(y, d) = {s \in Slices : L!Multiple(2 * d, Distant(y, s)) /\ Distant(y, s) + d < N}
  BY <1>1, <1>4, SliceOffsets
<1>8. \A s \in SliceSet(y, d) : ~L!Multiple(2 * d, Distant(z, s))
  <2> HIDE DEF y
  <2> QED BY <1>1, <1>4, SliceOffsets
<1>9. ASSUME NEW s \in SliceSet(y, d) PROVE L!Multiple(d, Distant(y, s)) /\ L!Multiple(2 * d, Distant(y, s))
  <2> HIDE DEF y
  <2>1. s \in Slices /\ L!Multiple(2 * d, Distant(y, s))
    BY <1>7, <1>9
  <2>2. Distant(y, s) \in 0..(N - 1)
    BY <1>4, <1>6, <2>1
  <2>3. Distant(y, s) \in Nat
    BY <2>2, <1>3
  <2> QED BY <1>5, <2>1, <2>3, L!MultipleFacts, ScheduleSize
<1>10. ASSUME NEW s \in Slices, L!Multiple(d, Distant(z, s)), ~L!Multiple(2 * d, Distant(z, s))
       PROVE  s \in SliceSet(y, d)
  <2> DEFINE p == Distant(z, s)
  <2>1. p \in Nat /\ p < N
    BY <1>3, <1>6
  <2>2. p >= d /\ L!Multiple(2 * d, p - d)
    <3> HIDE DEF p
    <3> QED BY <1>5, <1>10, <2>1, L!MultipleFacts, ScheduleSize DEF p
  <2>3. y = L!S(N)!Below(z, d)
    BY DEF Below, L!S!Below
  <2>4. Distant(y, s) = p - d
    <3>1. d <= L!Off(N, z, s) => L!Off(N, L!S(N)!Below(z, d), s) = L!Off(N, z, s) - d
      BY <1>1, <1>3, L!OffNeighbours, ScheduleSize
    <3> QED BY <2>2, <2>3, <3>1 DEF Distant
  <2> HIDE DEF p, y
  <2> QED BY <1>3, <1>5, <1>7, <2>1, <2>2, <2>4
<1> HIDE DEF y
<1> QED BY <1>1, <1>2, <1>4, <1>5, <1>7, <1>8, <1>9, <1>10 DEF d

(* Step 0 sends the slices at an odd offset.                               *)
LEMMA FirstSent ==
  ASSUME NEW r \in Ranks, NEW s \in ScatterTx(0, r)
  PROVE  ~L!Multiple(2, Distant(r, s))
<1> DEFINE b == Below(r, 1)
<1>1. N \in Nat \ {0, 1} /\ 1 \in 1..(N - 1)
  BY Sizes
<1>2. 2^0 = 1 /\ 2 * 1 = 2
  OBVIOUS
<1>3. ScatterTx(0, r) = SliceSet(b, 1)
  BY <1>2 DEF ScatterTx, ScatterTo, ScatterDistance
<1>4. b \in Ranks /\ Above(b, 1) = r
  BY <1>1, UpAndDown
<1> HIDE DEF b
<1>5. ~L!Multiple(2 * 1, Distant(r, s))
  BY <1>1, <1>3, <1>4, SliceOffsets
<1> QED BY <1>2, <1>5

-----------------------------------------------------------------------------
(* What a rank has in its memory *)

(* The inputs of round l from the ranks whose offset from slice s is at    *)
(* least lo and less than hi.                                              *)
SumOf(s, lo, hi, l) ==
  {<<x, l>> : x \in {y \in Ranks : lo <= Distant(y, s) /\ Distant(y, s) < hi}}

(* After e steps of a ReduceScatter a rank has the reduction of 2^e ranks  *)
(* in the slices it goes on with, and that of half as many in the slices   *)
(* it sent last.  What is sent from the input is not in the buffer.        *)
Whole(o, r, s, e) ==
  /\ L!Multiple(2^e, Distant(r, s))
  /\ ~(e = 0 /\ SkipStep0TxPreCopy(o) /\ s \in ScatterTx(0, r))

Sent(o, r, s, e) ==
  /\ e >= 1
  /\ ~(e = 1 /\ SkipStep0TxPreCopy(o))
  /\ L!Multiple(2^(e - 1), Distant(r, s)) /\ ~L!Multiple(2^e, Distant(r, s))

ScatterShare(o, m, r, c, l, e) ==
  \A s \in HasData(o, l, c) :
    LET d == Distant(r, s)
        v == m[<<r, ReduceBuffer(o, l), s, c>>]
    IN  /\ Whole(o, r, s, e) => v = SumOf(s, d, d + 2^e, l)
        /\ Sent(o, r, s, e) => v = SumOf(s, d, d + 2^(e - 1), l)

(* After j steps of an AllGather it has the sums of the slices at the      *)
(* multiples of 2^(StepNum-j), but those that it read to the output.       *)
GatherShare(o, m, r, c, l, j) ==
  \A s \in HasData(o, l, c) :
    /\ L!Multiple(2^(StepNum - j), Distant(r, s))
    /\ ~(j = StepNum /\ ReadLastStepToOutput(o) /\ s \in GatherRx(StepNum - 1, r))
    => m[<<r, GatherBuffer(o, l), s, c>>] = Sum(l)

InKept(m, r, c, l) == \A s \in Slices : m[<<r, In(l), s, c>>] = {<<r, l>>}

(* The sums over a window of ranks: disjoint windows add up.               *)
LEMMA SumOfFacts ==
  ASSUME NEW r \in Ranks, NEW s \in Slices, NEW l \in Int
  PROVE  /\ Distant(r, s) \in Nat /\ Distant(r, s) < N
         /\ SumOf(s, Distant(r, s), Distant(r, s) + 1, l) = {<<r, l>>}
         /\ \A lo, hi \in Int : SumOf(s, lo, hi, l) # Junk
         /\ \A lo, mid, hi \in Int : lo <= mid /\ mid <= hi =>
              /\ SumOf(s, lo, mid, l) \cap SumOf(s, mid, hi, l) = {}
              /\ SumOf(s, lo, mid, l) \cup SumOf(s, mid, hi, l) = SumOf(s, lo, hi, l)
         /\ \A lo, mid, hi \in Int : N <= mid /\ mid <= hi =>
              SumOf(s, lo, mid, l) = SumOf(s, lo, hi, l)
         /\ \A hi \in Int : N <= hi => SumOf(s, 0, hi, l) = Sum(l)
<1>1. N \in Nat \ {0} /\ Ranks = 0..(N - 1) /\ Slices = 0..(N - 1)
  BY Sizes DEF Ranks, Slices
<1>2. \A x \in Ranks : Distant(x, s) \in Nat /\ Distant(x, s) < N
  BY <1>1, L!OffType, ScheduleSize DEF Distant
<1>3. \A x \in Ranks : Distant(x, s) = Distant(r, s) <=> x = r
  BY <1>1, L!OffType, ScheduleSize DEF Distant
<1>4. SumOf(s, Distant(r, s), Distant(r, s) + 1, l) = {<<r, l>>}
  <2>1. {y \in Ranks : Distant(r, s) <= Distant(y, s) /\ Distant(y, s) < Distant(r, s) + 1} = {r}
    <3>1. \A x \in Ranks : (Distant(r, s) <= Distant(x, s) /\ Distant(x, s) < Distant(r, s) + 1) <=> x = r
      <4>1. \A a, b \in Nat : a <= b /\ b < a + 1 <=> a = b
        OBVIOUS
      <4> QED BY <1>2, <1>3, <4>1
    <3> QED BY <3>1
  <2> QED BY <2>1 DEF SumOf
<1>5. ASSUME NEW lo \in Int, NEW hi \in Int PROVE SumOf(s, lo, hi, l) # Junk
  <2>1. N \notin Ranks
    BY <1>1
  <2>2. <<N, 0>> \notin SumOf(s, lo, hi, l)
    <3>1. \A x : <<N, 0>> = <<x, l>> => x = N
      OBVIOUS
    <3> QED BY <2>1, <3>1 DEF SumOf
  <2> QED BY <2>2 DEF Junk
<1>6. ASSUME NEW lo \in Int, NEW mid \in Int, NEW hi \in Int, lo <= mid, mid <= hi
      PROVE  /\ SumOf(s, lo, mid, l) \cap SumOf(s, mid, hi, l) = {}
             /\ SumOf(s, lo, mid, l) \cup SumOf(s, mid, hi, l) = SumOf(s, lo, hi, l)
  <2>1. \A x \in Ranks :
          /\ ~((lo <= Distant(x, s) /\ Distant(x, s) < mid) /\ (mid <= Distant(x, s) /\ Distant(x, s) < hi))
          /\ (lo <= Distant(x, s) /\ Distant(x, s) < mid) \/ (mid <= Distant(x, s) /\ Distant(x, s) < hi)
             <=> (lo <= Distant(x, s) /\ Distant(x, s) < hi)
    <3>1. \A a \in Nat :
            /\ ~((lo <= a /\ a < mid) /\ (mid <= a /\ a < hi))
            /\ (lo <= a /\ a < mid) \/ (mid <= a /\ a < hi) <=> (lo <= a /\ a < hi)
      BY <1>6
    <3> QED BY <1>2, <3>1
  <2> DEFINE A == {y \in Ranks : lo <= Distant(y, s) /\ Distant(y, s) < mid}
             B == {y \in Ranks : mid <= Distant(y, s) /\ Distant(y, s) < hi}
             C == {y \in Ranks : lo <= Distant(y, s) /\ Distant(y, s) < hi}
  <2>2. A \cap B = {} /\ A \cup B = C
    BY <2>1
  <2>3. /\ SumOf(s, lo, mid, l) = {<<x, l>> : x \in A}
        /\ SumOf(s, mid, hi, l) = {<<x, l>> : x \in B}
        /\ SumOf(s, lo, hi, l) = {<<x, l>> : x \in C}
    BY DEF SumOf
  <2> HIDE DEF A, B, C
  <2>4. \A x, y : <<x, l>> = <<y, l>> => x = y
    OBVIOUS
  <2>5. {<<x, l>> : x \in A} \cap {<<x, l>> : x \in B} = {}
    BY <2>2, <2>4
  <2>6. {<<x, l>> : x \in A} \cup {<<x, l>> : x \in B} = {<<x, l>> : x \in C}
    BY <2>2
  <2> QED BY <2>3, <2>5, <2>6
<1>7. ASSUME NEW lo \in Int, NEW mid \in Int, NEW hi \in Int, N <= mid, mid <= hi
      PROVE  SumOf(s, lo, mid, l) = SumOf(s, lo, hi, l)
  <2>1. \A x \in Ranks : Distant(x, s) < mid /\ Distant(x, s) < hi
    <3>1. \A a \in Nat : a < N => a < mid /\ a < hi
      BY <1>1, <1>7
    <3> QED BY <1>2, <3>1
  <2> QED BY <2>1 DEF SumOf
<1>8. ASSUME NEW hi \in Int, N <= hi PROVE SumOf(s, 0, hi, l) = Sum(l)
  <2>1. \A x \in Ranks : 0 <= Distant(x, s) /\ Distant(x, s) < hi
    BY <1>1, <1>2, <1>8
  <2> QED BY <2>1 DEF SumOf, Sum
<1> QED BY <1>2, <1>4, <1>5, <1>6, <1>7, <1>8

(* What a rank fetches in step i of a ReduceScatter, whether the other has *)
(* been through the step or not.                                           *)
LEMMA ScatterSource ==
  ASSUME NEW o, NEW m, NEW z \in Ranks, NEW c, NEW l \in Int, NEW i \in 0..(StepNum - 1),
         NEW y, y = ScatterFrom(i, z), NEW s \in ScatterRx(i, z) \cap HasData(o, l, c),
         IF SkipStep0TxPreCopy(o) /\ i = 0 THEN InKept(m, y, c, l)
         ELSE ScatterShare(o, m, y, c, l, i) \/ ScatterShare(o, m, y, c, l, i + 1),
         NEW buf, buf = IF SkipStep0TxPreCopy(o) /\ i = 0 THEN In(l) ELSE ReduceBuffer(o, l)
  PROVE  m[<<y, buf, s, c>>] = SumOf(s, Distant(z, s) + 2^i, (Distant(z, s) + 2^i) + 2^i, l)
<1> DEFINE d == 2^i
           p == Distant(z, s)
<1>1. /\ d \in Nat \ {0} /\ 2^(i + 1) = 2 * d /\ y \in Ranks
      /\ s \in Slices
      /\ Distant(y, s) = p + d
      /\ L!Multiple(d, Distant(y, s)) /\ ~L!Multiple(2 * d, Distant(y, s))
  BY ScatterOffsets
<1>2. s \in HasData(o, l, c) /\ (i + 1) - 1 = i /\ i + 1 >= 1 /\ (i + 1 = 1 <=> i = 0)
  OBVIOUS
<1>3. CASE SkipStep0TxPreCopy(o) /\ i = 0
  <2>1. m[<<y, buf, s, c>>] = {<<y, l>>}
    BY <1>1, <1>3 DEF InKept
  <2>2. d = 1
    BY <1>3
  <2> QED BY <1>1, <2>1, <2>2, SumOfFacts
<1>4. CASE ~(SkipStep0TxPreCopy(o) /\ i = 0) /\ ScatterShare(o, m, y, c, l, i)
  <2>1. Whole(o, y, s, i)
    BY <1>1, <1>4 DEF Whole
  <2> QED BY <1>1, <1>2, <1>4, <2>1 DEF ScatterShare
<1>5. CASE ~(SkipStep0TxPreCopy(o) /\ i = 0) /\ ScatterShare(o, m, y, c, l, i + 1)
  <2>1. Sent(o, y, s, i + 1)
    BY <1>1, <1>2, <1>5 DEF Sent
  <2>2. m[<<y, ReduceBuffer(o, l), s, c>>] = SumOf(s, Distant(y, s), Distant(y, s) + 2^((i + 1) - 1), l)
    BY <1>2, <1>5, <2>1 DEF ScatterShare
  <2> QED BY <1>1, <1>2, <1>5, <2>2
<1> QED BY <1>3, <1>4, <1>5

(* A step of the ReduceScatter.                                            *)
LEMMA ScatterAdds ==
  ASSUME NEW o, NEW m, NEW m2, NEW z \in Ranks, NEW c, NEW l \in Int, NEW i \in 0..(StepNum - 1),
         ScatterShare(o, m, z, c, l, i),
         \A s \in HasData(o, l, c) :
           LET x == <<z, ReduceBuffer(o, l), s, c>>
           IN  m2[x] = IF s \in ScatterRx(i, z)
                       THEN Reduced(m[x], SumOf(s, Distant(z, s) + 2^i, (Distant(z, s) + 2^i) + 2^i, l))
                       ELSE m[x]
  PROVE  ScatterShare(o, m2, z, c, l, i + 1)
<1> DEFINE d == 2^i
           p(s) == Distant(z, s)
           old(s) == m[<<z, ReduceBuffer(o, l), s, c>>]
           new(s) == m2[<<z, ReduceBuffer(o, l), s, c>>]
<1>1. /\ d \in Nat \ {0} /\ 2^(i + 1) = 2 * d
      /\ ScatterRx(i, z) = {s \in Slices : L!Multiple(2 * d, p(s)) /\ p(s) + d < N}
  BY ScatterOffsets
<1>2. (i + 1) - 1 = i /\ i + 1 >= 1 /\ (i + 1 = 1 <=> i = 0) /\ i + 1 # 0 /\ N \in Nat
  BY Sizes
<1>3. ASSUME NEW s \in HasData(o, l, c)
      PROVE  /\ Whole(o, z, s, i + 1) => new(s) = SumOf(s, p(s), p(s) + 2^(i + 1), l)
             /\ Sent(o, z, s, i + 1) => new(s) = SumOf(s, p(s), p(s) + 2^((i + 1) - 1), l)
  <2>1. s \in Slices
    BY HasDataType
  <2>2. p(s) \in Nat /\ p(s) < N
    BY <2>1, SumOfFacts
  <2>3. Whole(o, z, s, i) => old(s) = SumOf(s, p(s), p(s) + d, l)
    BY DEF ScatterShare
  <2>4. ASSUME L!Multiple(2 * d, p(s)) PROVE Whole(o, z, s, i)
    <3>1. L!Multiple(d, p(s))
      <4> HIDE DEF d, p
      <4> QED BY <1>1, <2>2, <2>4, L!MultipleFacts, ScheduleSize
    <3>2. ~(i = 0 /\ s \in ScatterTx(0, z))
      <4>1. i = 0 => 2 * d = 2
        OBVIOUS
      <4> QED BY <2>4, <4>1, FirstSent
    <3> QED BY <3>1, <3>2 DEF Whole
  <2>5. ASSUME L!Multiple(2 * d, p(s)) PROVE new(s) = SumOf(s, p(s), p(s) + 2 * d, l)
    <3> DEFINE q == p(s)
    <3>1. old(s) = SumOf(s, q, q + d, l)
      BY <2>3, <2>4, <2>5
    <3>2. q \in Nat /\ q + d \in Int /\ q + 2 * d \in Int /\ q <= q + d /\ q + d <= q + 2 * d
          /\ (q + d) + d = q + 2 * d
      <4> HIDE DEF d, p
      <4> QED BY <1>1, <2>2
    <3>3. CASE q + d < N
      <4>1. s \in ScatterRx(i, z)
        BY <1>1, <2>1, <2>5, <3>3
      <4>2. new(s) = Reduced(old(s), SumOf(s, q + d, (q + d) + d, l))
        BY <4>1
      <4>3. new(s) = Reduced(SumOf(s, q, q + d, l), SumOf(s, q + d, q + 2 * d, l))
        BY <3>1, <3>2, <4>2
      <4> HIDE DEF new, old, q, d, p
      <4>4. /\ SumOf(s, q, q + d, l) # Junk /\ SumOf(s, q + d, q + 2 * d, l) # Junk
            /\ SumOf(s, q, q + d, l) \cap SumOf(s, q + d, q + 2 * d, l) = {}
            /\ SumOf(s, q, q + d, l) \cup SumOf(s, q + d, q + 2 * d, l) = SumOf(s, q, q + 2 * d, l)
        BY <2>1, <3>2, SumOfFacts
      <4>5. new(s) = SumOf(s, q, q + 2 * d, l)
        BY <4>3, <4>4 DEF Reduced
      <4> QED BY <4>5 DEF q
    <3>4. CASE ~(q + d < N)
      <4>1. s \notin ScatterRx(i, z)
        BY <1>1, <3>4
      <4>2. new(s) = SumOf(s, q, q + d, l)
        BY <3>1, <4>1
      <4> HIDE DEF new, old, q, d, p
      <4>3. N <= q + d
        BY <1>2, <3>2, <3>4
      <4>4. SumOf(s, q, q + d, l) = SumOf(s, q, q + 2 * d, l)
        BY <2>1, <3>2, <4>3, SumOfFacts
      <4>5. new(s) = SumOf(s, q, q + 2 * d, l)
        BY <4>2, <4>4
      <4> QED BY <4>5 DEF q
    <3> QED BY <3>3, <3>4
  <2>6. ASSUME Sent(o, z, s, i + 1) PROVE new(s) = SumOf(s, p(s), p(s) + d, l)
    <3>1. L!Multiple(d, p(s)) /\ ~L!Multiple(2 * d, p(s)) /\ ~(i = 0 /\ SkipStep0TxPreCopy(o))
      BY <1>1, <1>2, <2>6 DEF Sent
    <3>2. Whole(o, z, s, i)
      BY <3>1 DEF Whole
    <3>3. s \notin ScatterRx(i, z)
      BY <1>1, <3>1
    <3> QED BY <2>3, <3>2, <3>3
  <2> QED BY <1>1, <1>2, <2>5, <2>6 DEF Whole
<1> QED BY <1>3 DEF ScatterShare

(* What a rank fetches in step j of an AllGather.                          *)
LEMMA GatherSource ==
  ASSUME NEW o, NEW m, NEW z \in Ranks, NEW c, NEW l, NEW j \in 0..(StepNum - 1),
         NEW y, y = GatherFrom(j, z), NEW s \in GatherRx(j, z) \cap HasData(o, l, c),
         GatherShare(o, m, y, c, l, j) \/ GatherShare(o, m, y, c, l, j + 1)
  PROVE  m[<<y, GatherBuffer(o, l), s, c>>] = Sum(l)
<1> DEFINE d == 2^(StepNum - 1 - j)
<1>1. /\ 2^(StepNum - j) = 2 * d /\ y \in Ranks
      /\ L!Multiple(2 * d, Distant(y, s)) /\ L!Multiple(d, Distant(y, s))
      /\ s \in Slices
  BY GatherOffsets
<1>2. StepNum \in Nat
  BY Sizes
<1>3. j # StepNum /\ StepNum - (j + 1) = StepNum - 1 - j /\ (j + 1 = StepNum => j = StepNum - 1)
  BY <1>2
<1>4. ASSUME j + 1 = StepNum PROVE s \notin GatherRx(StepNum - 1, y)
  <2>1. j = StepNum - 1
    BY <1>2, <1>4
  <2>2. \A x \in GatherRx(j, y) : ~L!Multiple(2 * d, Distant(y, x))
    BY <1>1, GatherOffsets
  <2> QED BY <1>1, <2>1, <2>2
<1>5. CASE GatherShare(o, m, y, c, l, j)
  BY <1>1, <1>3, <1>5 DEF GatherShare
<1>6. CASE GatherShare(o, m, y, c, l, j + 1)
  BY <1>1, <1>3, <1>4, <1>6 DEF GatherShare
<1> QED BY <1>5, <1>6

(* A step of the AllGather.                                                *)
LEMMA GatherAdds ==
  ASSUME NEW o, NEW m, NEW m2, NEW z \in Ranks, NEW c, NEW l, NEW j \in 0..(StepNum - 1),
         GatherShare(o, m, z, c, l, j),
         \A s \in HasData(o, l, c) :
           LET x == <<z, GatherBuffer(o, l), s, c>>
           IN  IF s \in GatherRx(j, z)
               THEN (ReadLastStepToOutput(o) /\ j = StepNum - 1) \/ m2[x] = Sum(l)
               ELSE m2[x] = m[x]
  PROVE  GatherShare(o, m2, z, c, l, j + 1)
<1> DEFINE d == 2^(StepNum - 1 - j)
<1>1. /\ 2^(StepNum - j) = 2 * d
      /\ \A s \in Slices : L!Multiple(d, Distant(z, s)) =>
           L!Multiple(2 * d, Distant(z, s)) \/ s \in GatherRx(j, z)
  BY GatherOffsets
<1>2. StepNum \in Nat
  BY Sizes
<1>3. j # StepNum /\ StepNum - (j + 1) = StepNum - 1 - j /\ (j + 1 = StepNum <=> j = StepNum - 1)
  BY <1>2
<1>4. ASSUME NEW s \in HasData(o, l, c), L!Multiple(d, Distant(z, s)),
             ~(j + 1 = StepNum /\ ReadLastStepToOutput(o) /\ s \in GatherRx(StepNum - 1, z))
      PROVE  m2[<<z, GatherBuffer(o, l), s, c>>] = Sum(l)
  <2>1. s \in Slices
    BY HasDataType
  <2>2. CASE s \in GatherRx(j, z)
    <3>1. ~(ReadLastStepToOutput(o) /\ j = StepNum - 1)
      BY <1>3, <1>4, <2>2
    <3> QED BY <2>2, <3>1
  <2>3. CASE s \notin GatherRx(j, z)
    <3>1. L!Multiple(2^(StepNum - j), Distant(z, s))
      BY <1>1, <1>4, <2>1, <2>3
    <3>2. m[<<z, GatherBuffer(o, l), s, c>>] = Sum(l)
      BY <1>3, <3>1 DEF GatherShare
    <3> QED BY <2>3, <3>2
  <2> QED BY <2>2, <2>3
<1> QED BY <1>3, <1>4 DEF GatherShare

(* After the ReduceScatter a rank has the sum of its own slice.            *)
LEMMA ScatterSum ==
  ASSUME NEW o, NEW m, NEW r \in Ranks, NEW c, NEW l \in Int, ScatterShare(o, m, r, c, l, StepNum)
  PROVE  r \in HasData(o, l, c) => m[<<r, ReduceBuffer(o, l), r, c>>] = Sum(l)
<1> SUFFICES ASSUME r \in HasData(o, l, c) PROVE m[<<r, ReduceBuffer(o, l), r, c>>] = Sum(l)
  OBVIOUS
<1>1. r \in Slices /\ Distant(r, r) = 0
  BY HasDataType DEF Distant, L!Off, Ranks
<1>2. StepNum \in Nat /\ StepNum # 0 /\ 2^StepNum \in Nat /\ N <= 2^StepNum
  BY Sizes, L!StepNumIs, L!PowerOfTwo, ScheduleSize
<1>3. L!Multiple(2^StepNum, 0)
  <2>1. 2^StepNum \in Nat \ {0}
    BY <1>2, L!PowerOfTwo, ScheduleSize
  <2> QED BY <2>1, L!MultipleFacts, ScheduleSize
<1>4. Whole(o, r, r, StepNum)
  BY <1>1, <1>2, <1>3 DEF Whole
<1>5. m[<<r, ReduceBuffer(o, l), r, c>>] = SumOf(r, 0, 0 + 2^StepNum, l)
  BY <1>1, <1>4 DEF ScatterShare
<1>6. SumOf(r, 0, 2^StepNum, l) = Sum(l)
  BY <1>1, <1>2, SumOfFacts
<1> QED BY <1>2, <1>5, <1>6

(* ... which is all the AllGather begins with.                             *)
LEMMA GatherBegins ==
  ASSUME NEW o, NEW m, NEW r \in Ranks, NEW c, NEW l,
         r \in HasData(o, l, c) => m[<<r, GatherBuffer(o, l), r, c>>] = Sum(l)
  PROVE  GatherShare(o, m, r, c, l, 0)
<1>1. StepNum \in Nat /\ N \in Nat \ {0, 1} /\ 2^StepNum \in Nat \ {0} /\ N <= 2^StepNum
  BY Sizes, L!StepNumIs, L!PowerOfTwo, ScheduleSize
<1>2. ASSUME NEW s \in HasData(o, l, c), L!Multiple(2^StepNum, Distant(r, s)) PROVE s = r
  <2>1. s \in Slices
    BY HasDataType
  <2>2. Distant(r, s) \in 0..(N - 1) /\ (Distant(r, s) = 0 <=> r = s)
    BY <1>1, <2>1, SliceOffsets
  <2>3. Distant(r, s) = 0 \/ Distant(r, s) >= 2^StepNum
    <3>1. Distant(r, s) \in Nat
      BY <1>1, <2>2
    <3> QED BY <1>1, <1>2, <3>1, L!MultipleFacts, ScheduleSize
  <2> QED BY <1>1, <2>2, <2>3
<1>3. StepNum - 0 = StepNum
  BY <1>1
<1> QED BY <1>2, <1>3 DEF GatherShare

-----------------------------------------------------------------------------
(* What a rank has after n receipts, for thread c, which has made p local  *)
(* copies, the main thread of its rank g.                                  *)

OutRead(o, m, r, c, l) ==
  \A s \in HasData(o, l, c) \cap GatherRx(StepNum - 1, r) : m[<<r, Out(o, l), s, c>>] = Sum(l)

OutWritten(o, m, r, c, l) == \A s \in HasData(o, l, c) : m[<<r, Out(o, l), s, c>>] = Sum(l)

HoldsRound(o, m, r, c, l, n, p, g) ==
  /\ o.symmetric \/ p = 2 * l - 1 =>
       \A e \in 0..StepNum : n = FirstStep(l) - 1 + e => ScatterShare(o, m, r, c, l, e)
  /\ (IF o.symmetric THEN g >= 1 ELSE p = 2 * l - 1) =>
       \A j \in 0..StepNum : n = FirstStep(l) + StepNum - 1 + j => GatherShare(o, m, r, c, l, j)
  /\ ReadLastStepToOutput(o) /\ n >= FirstStep(l) + 2 * StepNum - 1 => OutRead(o, m, r, c, l)
  /\ ~o.symmetric /\ p >= 2 * l => OutWritten(o, m, r, c, l)

(* The input is there until the last step of its round reads in its place. *)
KeptRound(o, m, r, c, l, n) ==
  ~o.symmetric /\ (~o.inPlace \/ l \notin Loops(o) \/ n < FirstStep(l) + 2 * StepNum - 1)
    => InKept(m, r, c, l)

Holds(o, m, r, c, n, p, g) ==
  /\ \A l \in Loops(o) : HoldsRound(o, m, r, c, l, n, p, g)
  /\ \A l \in 1..MaxRounds : KeptRound(o, m, r, c, l, n)

SameIn(m, m2, r, c, b) == \A s \in Slices : m2[<<r, b, s, c>>] = m[<<r, b, s, c>>]

(* What a set of copies does.                                              *)
Effect(m, m2, moves) ==
  \A x \in Cells :
    m2[x] = IF x \notin DOMAIN moves THEN m[x]
            ELSE IF moves[x].reduce THEN Reduced(m[x], m[moves[x].src])
            ELSE m[moves[x].src]

Copies(m, m2, z, b, y, b2, slices, c, reduce) ==
  /\ \A a \in Buffers, s \in Slices : ~(a = b /\ s \in slices) => m2[<<z, a, s, c>>] = m[<<z, a, s, c>>]
  /\ \A s \in slices :
       m2[<<z, b, s, c>>] = IF reduce THEN Reduced(m[<<z, b, s, c>>], m[<<y, b2, s, c>>])
                            ELSE m[<<y, b2, s, c>>]

(* Nothing but the parts of thread c on rank z is written.                 *)
Elsewhere(m, m2, z, c) == \A x \in Cells : x[1] # z \/ x[4] # c => m2[x] = m[x]

(* A set of copies does what Copies says and writes to no other thread's   *)
(* cells.                                                                  *)
LEMMA CopyEffect ==
  ASSUME NEW m, NEW m2, NEW z \in Ranks, NEW b \in Buffers, NEW y, NEW b2,
         NEW slices \in SUBSET Slices, NEW c \in 1..Channels, NEW reduce \in BOOLEAN,
         Effect(m, m2, Copy(z, b, y, b2, slices, c, reduce))
  PROVE  /\ Copies(m, m2, z, b, y, b2, slices, c, reduce)
         /\ Elsewhere(m, m2, z, c)
<1> DEFINE D == {<<z, b, s, c>> : s \in slices}
           moves == Copy(z, b, y, b2, slices, c, reduce)
<1>1. /\ DOMAIN moves = D
      /\ \A s \in slices : moves[<<z, b, s, c>>] = [src |-> <<y, b2, s, c>>, reduce |-> reduce]
  BY DEF Copy
<1> HIDE DEF moves
<1>2. \A a \in Buffers, s \in Slices : <<z, a, s, c>> \in Cells /\ (<<z, a, s, c>> \in D <=> a = b /\ s \in slices)
  BY DEF Cells
<1>3. \A x \in D : x[1] = z /\ x[4] = c
  OBVIOUS
<1> HIDE DEF D
<1>4. ASSUME NEW s \in slices
      PROVE  m2[<<z, b, s, c>>] = IF reduce THEN Reduced(m[<<z, b, s, c>>], m[<<y, b2, s, c>>])
                                  ELSE m[<<y, b2, s, c>>]
  <2> DEFINE x == <<z, b, s, c>>
  <2>1. x \in Cells /\ x \in DOMAIN moves /\ moves[x] = [src |-> <<y, b2, s, c>>, reduce |-> reduce]
    BY <1>1, <1>2
  <2> HIDE DEF x
  <2>2. m2[x] = IF moves[x].reduce THEN Reduced(m[x], m[moves[x].src]) ELSE m[moves[x].src]
    BY <2>1 DEF Effect, moves
  <2>3. moves[x].reduce = reduce /\ moves[x].src = <<y, b2, s, c>>
    BY <2>1
  <2>4. m2[x] = IF reduce THEN Reduced(m[x], m[<<y, b2, s, c>>]) ELSE m[<<y, b2, s, c>>]
    BY <2>2, <2>3
  <2> QED BY <2>4 DEF x
<1>5. \A x \in Cells : x \notin D => m2[x] = m[x]
  BY <1>1 DEF Effect, moves
<1> QED BY <1>2, <1>3, <1>4, <1>5 DEF Copies, Elsewhere

(* What is not written stays as it is.                                     *)
LEMMA SameFacts ==
  ASSUME NEW o, NEW m, NEW m2, NEW r, NEW c, NEW l
  PROVE  /\ SameIn(m, m2, r, c, Out(o, l)) =>
              /\ OutRead(o, m, r, c, l) => OutRead(o, m2, r, c, l)
              /\ OutWritten(o, m, r, c, l) => OutWritten(o, m2, r, c, l)
         /\ SameIn(m, m2, r, c, In(l)) /\ InKept(m, r, c, l) => InKept(m2, r, c, l)
         /\ SameIn(m, m2, r, c, ReduceBuffer(o, l)) =>
              \A e : ScatterShare(o, m, r, c, l, e) => ScatterShare(o, m2, r, c, l, e)
         /\ SameIn(m, m2, r, c, GatherBuffer(o, l)) =>
              \A j : GatherShare(o, m, r, c, l, j) => GatherShare(o, m2, r, c, l, j)
<1>1. HasData(o, l, c) \in SUBSET Slices
  BY HasDataType
<1>2. SameIn(m, m2, r, c, Out(o, l)) =>
        /\ OutRead(o, m, r, c, l) => OutRead(o, m2, r, c, l)
        /\ OutWritten(o, m, r, c, l) => OutWritten(o, m2, r, c, l)
  BY <1>1 DEF SameIn, OutRead, OutWritten
<1>3. SameIn(m, m2, r, c, In(l)) /\ InKept(m, r, c, l) => InKept(m2, r, c, l)
  BY DEF SameIn, InKept
<1>4. SameIn(m, m2, r, c, ReduceBuffer(o, l)) =>
        \A e : ScatterShare(o, m, r, c, l, e) => ScatterShare(o, m2, r, c, l, e)
  BY <1>1 DEF SameIn, ScatterShare
<1>5. SameIn(m, m2, r, c, GatherBuffer(o, l)) =>
        \A j : GatherShare(o, m, r, c, l, j) => GatherShare(o, m2, r, c, l, j)
  BY <1>1 DEF SameIn, GatherShare
<1> QED BY <1>2, <1>3, <1>4, <1>5

(* What is not written keeps what it holds.                                *)
LEMMA Frame ==
  ASSUME NEW o \in Options, NEW m, NEW m2, NEW r, NEW c, NEW n, NEW p, NEW g, NEW g2,
         \A b \in Buffers : SameIn(m, m2, r, c, b),
         o.symmetric => g2 = g,
         Holds(o, m, r, c, n, p, g)
  PROVE  Holds(o, m2, r, c, n, p, g2)
<1>1. ASSUME NEW l \in Loops(o) PROVE HoldsRound(o, m2, r, c, l, n, p, g2)
  <2>1. Ccl \in Buffers /\ In(l) \in Buffers /\ Out(o, l) \in Buffers
    BY BufferTypes
  <2>2. ReduceBuffer(o, l) \in Buffers /\ GatherBuffer(o, l) \in Buffers
    BY <2>1 DEF ReduceBuffer, GatherBuffer
  <2>3. HoldsRound(o, m, r, c, l, n, p, g)
    BY DEF Holds
  <2>4. /\ OutRead(o, m, r, c, l) => OutRead(o, m2, r, c, l)
        /\ OutWritten(o, m, r, c, l) => OutWritten(o, m2, r, c, l)
        /\ \A e : ScatterShare(o, m, r, c, l, e) => ScatterShare(o, m2, r, c, l, e)
        /\ \A j : GatherShare(o, m, r, c, l, j) => GatherShare(o, m2, r, c, l, j)
    BY <2>1, <2>2, SameFacts
  <2> QED BY <2>3, <2>4 DEF HoldsRound
<1>2. ASSUME NEW l \in 1..MaxRounds PROVE KeptRound(o, m2, r, c, l, n)
  <2>1. In(l) \in Buffers
    BY DEF Buffers
  <2>2. KeptRound(o, m, r, c, l, n)
    BY DEF Holds
  <2>3. InKept(m, r, c, l) => InKept(m2, r, c, l)
    BY <2>1, SameFacts
  <2> QED BY <2>2, <2>3 DEF KeptRound
<1> QED BY <1>1, <1>2 DEF Holds

(* The steps of different rounds.                                          *)
LEMMA RoundFacts ==
  ASSUME NEW o \in Options, NEW l \in Loops(o)
  PROVE  /\ l \in Nat \ {0} /\ l \in 1..MaxRounds
         /\ FirstStep(l) \in Nat \ {0} /\ FirstStep(l + 1) = FirstStep(l) + 2 * StepNum
         /\ StepNum \in Nat \ {0}
         /\ o.symmetric => l = 1 /\ FirstStep(l) = 1 /\ Loops(o) = {1} /\ Steps(o) = 2 * StepNum
<1>1. Loops(o) = 1..Len(o.counts) /\ Len(o.counts) \in Nat \ {0} /\ l \in 1..MaxRounds /\ Steps(o) \in Nat \ {0}
  BY Calls
<1>2. StepNum \in Nat \ {0}
  BY Sizes
<1>3. 0 \in 0..(2 * StepNum - 1)
  BY <1>2
<1>4. FirstStep(l) \in 1..Steps(o) /\ FirstStep(l + 1) = FirstStep(l) + 2 * StepNum
  BY <1>3, RoundSteps
<1>5. o.symmetric => Len(o.counts) = 1
  BY NHRAssumption DEF LegalOption
<1>6. o.symmetric => l = 1 /\ Loops(o) = {1}
  <2>1. 1..1 = {1}
    OBVIOUS
  <2> SUFFICES ASSUME o.symmetric PROVE l = 1 /\ Loops(o) = {1}
    OBVIOUS
  <2>2. Loops(o) = {1}
    BY <1>1, <1>5, <2>1
  <2> QED BY <2>2
<1>7. FirstStep(1) = 1
  BY FirstAndLast
<1>8. o.symmetric => Steps(o) = 2 * StepNum
  <2> SUFFICES ASSUME o.symmetric PROVE Steps(o) = 2 * StepNum
    OBVIOUS
  <2>1. Len(o.counts) = 1
    BY <1>5
  <2>2. Steps(o) = 2 * StepNum * 1
    BY <2>1 DEF Steps
  <2> QED BY <1>2, <2>2
<1> QED BY <1>1, <1>2, <1>4, <1>6, <1>7, <1>8

-----------------------------------------------------------------------------
(* A transfer *)

(* The rounds that a transfer of step k, in round l, is not about.         *)
LEMMA OtherRound ==
  ASSUME NEW o \in Options, ~o.symmetric, NEW m, NEW m2, NEW r, NEW c,
         NEW k \in Nat, NEW g, NEW l \in Loops(o), NEW h \in Loops(o), h # l,
         ~(k \in FirstStep(h)..(FirstStep(h + 1) - 1)),
         SameIn(m, m2, r, c, Out(o, h)),
         HoldsRound(o, m, r, c, h, k - 1, 2 * l - 1, g)
  PROVE  HoldsRound(o, m2, r, c, h, k, 2 * l - 1, g)
<1>1. /\ l \in Nat \ {0} /\ h \in Nat \ {0} /\ StepNum \in Nat \ {0}
      /\ FirstStep(h) \in Nat \ {0} /\ FirstStep(h + 1) = FirstStep(h) + 2 * StepNum
  BY RoundFacts
<1>2. 2 * l - 1 # 2 * h - 1
  BY <1>1
<1>3. k >= FirstStep(h) + 2 * StepNum - 1 => k - 1 >= FirstStep(h) + 2 * StepNum - 1
  BY <1>1
<1>4. /\ OutRead(o, m, r, c, h) => OutRead(o, m2, r, c, h)
      /\ OutWritten(o, m, r, c, h) => OutWritten(o, m2, r, c, h)
  BY SameFacts
<1> QED BY <1>2, <1>3, <1>4 DEF HoldsRound

(* The marks of the two ranks of a transfer in step k.                     *)
InRound(o, k, p) == \A l \in Loops(o) : k \in FirstStep(l)..(FirstStep(l + 1) - 1) => p = 2 * l - 1

(* What a transfer of step k finds at its target z and at its source y.    *)
TargetReady(o, m, z, c, k, p, g) ==
  /\ Holds(o, m, z, c, k - 1, p, g)
  /\ ~o.symmetric => InRound(o, k, p)
  /\ o.symmetric => g = IF k <= StepNum THEN 0 ELSE 1

SourceReady(o, m, y, c, k) ==
  \E n, p, g :
    /\ n \in {k - 1, k}
    /\ Holds(o, m, y, c, n, p, g)
    /\ ~o.symmetric => InRound(o, k, p)
    /\ o.symmetric => g = IF k <= StepNum THEN 0 ELSE 1

Scattering(o, l, i, k, c, z, y, m, m2) ==
  /\ k = FirstStep(l) + i
  /\ y = ScatterFrom(i, z)
  /\ Copies(m, m2, z, ReduceBuffer(o, l), y,
            IF SkipStep0TxPreCopy(o) /\ i = 0 THEN In(l) ELSE ReduceBuffer(o, l),
            ScatterRx(i, z) \cap HasData(o, l, c), c, TRUE)

Gathering(o, l, j, k, c, z, y, m, m2) ==
  /\ k = FirstStep(l) + StepNum + j
  /\ y = GatherFrom(j, z)
  /\ Copies(m, m2, z,
            IF ReadLastStepToOutput(o) /\ j = StepNum - 1 THEN Out(o, l) ELSE GatherBuffer(o, l),
            y, GatherBuffer(o, l), GatherRx(j, z) \cap HasData(o, l, c), c, FALSE)

ScatterFound(o, m, y, c, l, i) ==
  IF SkipStep0TxPreCopy(o) /\ i = 0 THEN InKept(m, y, c, l)
  ELSE ScatterShare(o, m, y, c, l, i) \/ ScatterShare(o, m, y, c, l, i + 1)

ScatterBuffer(o, l, i) == IF SkipStep0TxPreCopy(o) /\ i = 0 THEN In(l) ELSE ReduceBuffer(o, l)

Fetched(o, m, z, c, l, i) ==
  \A s \in ScatterRx(i, z) \cap HasData(o, l, c) :
    m[<<ScatterFrom(i, z), ScatterBuffer(o, l, i), s, c>>]
      = SumOf(s, Distant(z, s) + 2^i, (Distant(z, s) + 2^i) + 2^i, l)

(* The two windows that a ReduceScatter step adds are adjacent.            *)
LEMMA ScatterFetches ==
  ASSUME NEW o, NEW m, NEW z \in Ranks, NEW c, NEW l \in Int, NEW i \in 0..(StepNum - 1),
         ScatterFound(o, m, ScatterFrom(i, z), c, l, i)
  PROVE  Fetched(o, m, z, c, l, i)
<1>1. ASSUME NEW s \in ScatterRx(i, z) \cap HasData(o, l, c)
      PROVE  m[<<ScatterFrom(i, z), ScatterBuffer(o, l, i), s, c>>]
               = SumOf(s, Distant(z, s) + 2^i, (Distant(z, s) + 2^i) + 2^i, l)
  <2>1. PICK y, buf : y = ScatterFrom(i, z) /\ buf = ScatterBuffer(o, l, i)
    OBVIOUS
  <2>2. ScatterFound(o, m, y, c, l, i)
    BY <2>1
  <2>3. buf = IF SkipStep0TxPreCopy(o) /\ i = 0 THEN In(l) ELSE ReduceBuffer(o, l)
    BY <2>1 DEF ScatterBuffer
  <2>4. m[<<y, buf, s, c>>] = SumOf(s, Distant(z, s) + 2^i, (Distant(z, s) + 2^i) + 2^i, l)
    BY <2>1, <2>2, <2>3, ScatterSource DEF ScatterFound
  <2> QED BY <2>1, <2>4
<1> QED BY <1>1 DEF Fetched

(* After a step of ReduceScatter a thread holds the window of that step.   *)
LEMMA ScatterHolds ==
  ASSUME NEW o \in Options, NEW l \in Loops(o), NEW i \in 0..(StepNum - 1),
         NEW k, NEW c \in 1..Channels, NEW z \in Ranks, NEW y, NEW m, NEW m2, NEW p, NEW g,
         Scattering(o, l, i, k, c, z, y, m, m2),
         TargetReady(o, m, z, c, k, p, g), SourceReady(o, m, y, c, k)
  PROVE  Holds(o, m2, z, c, k, p, g)
<1>a. PICK n2, p2, g2 :
        /\ n2 \in {k - 1, k}
        /\ Holds(o, m, y, c, n2, p2, g2)
        /\ ~o.symmetric => InRound(o, k, p2)
        /\ o.symmetric => g2 = IF k <= StepNum THEN 0 ELSE 1
  BY DEF SourceReady
<1>b. PICK n, src, X :
        /\ n = k - 1
        /\ src = IF SkipStep0TxPreCopy(o) /\ i = 0 THEN In(l) ELSE ReduceBuffer(o, l)
        /\ X = ScatterRx(i, z) \cap HasData(o, l, c)
  OBVIOUS
<1>c. o.symmetric => k <= StepNum
  <2>1. o.symmetric => FirstStep(l) = 1
    BY RoundFacts
  <2>2. StepNum \in Nat
    BY Sizes
  <2>3. FirstStep(l) = 1 => FirstStep(l) + i <= StepNum
    BY <2>2
  <2> QED BY <2>1, <2>3 DEF Scattering
<1> SUFFICES ASSUME k = FirstStep(l) + i, y = ScatterFrom(i, z),
                    src = IF SkipStep0TxPreCopy(o) /\ i = 0 THEN In(l) ELSE ReduceBuffer(o, l),
                    X = ScatterRx(i, z) \cap HasData(o, l, c),
                    Copies(m, m2, z, ReduceBuffer(o, l), y, src, X, c, TRUE),
                    n = k - 1, n2 = k - 1 \/ n2 = k,
                    Holds(o, m, z, c, n, p, g), Holds(o, m, y, c, n2, p2, g2),
                    ~o.symmetric => InRound(o, k, p) /\ InRound(o, k, p2),
                    o.symmetric => g = 0
             PROVE  Holds(o, m2, z, c, k, p, g)
  BY <1>a, <1>b, <1>c DEF Scattering, TargetReady
<1> DEFINE f == FirstStep(l)
           S == StepNum
<1>1. /\ l \in Nat \ {0} /\ l \in 1..MaxRounds /\ S \in Nat \ {0}
      /\ f \in Nat \ {0} /\ FirstStep(l + 1) = f + 2 * S
      /\ o.symmetric => l = 1 /\ Loops(o) = {1}
  BY RoundFacts
<1>2. k \in f..(FirstStep(l + 1) - 1) /\ k \in Nat
  BY <1>1
<1>3. ~o.symmetric => p = 2 * l - 1 /\ p2 = 2 * l - 1
  BY <1>2 DEF InRound
<1>4. ScatterShare(o, m, z, c, l, i)
  <2>1. HoldsRound(o, m, z, c, l, n, p, g)
    BY DEF Holds
  <2>2. n = f - 1 + i /\ i \in 0..S
    BY <1>1
  <2> HIDE DEF f, S
  <2>3. \A e \in 0..S : n = f - 1 + e => ScatterShare(o, m, z, c, l, e)
    BY <1>3, <2>1 DEF HoldsRound, f, S
  <2> QED BY <2>2, <2>3
<1>5. IF SkipStep0TxPreCopy(o) /\ i = 0 THEN InKept(m, y, c, l)
      ELSE ScatterShare(o, m, y, c, l, i) \/ ScatterShare(o, m, y, c, l, i + 1)
  <2>1. CASE SkipStep0TxPreCopy(o) /\ i = 0
    <3>1. KeptRound(o, m, y, c, l, n2)
      BY <1>1 DEF Holds
    <3>2. n2 < f + 2 * S - 1
      BY <1>1, <2>1
    <3>3. ~o.symmetric
      BY <2>1 DEF SkipStep0TxPreCopy
    <3> QED BY <2>1, <3>1, <3>2, <3>3 DEF KeptRound
  <2>2. CASE ~(SkipStep0TxPreCopy(o) /\ i = 0)
    <3>1. HoldsRound(o, m, y, c, l, n2, p2, g2)
      BY DEF Holds
    <3>2. i \in 0..S /\ i + 1 \in 0..S /\ (n2 = f - 1 + i \/ n2 = f - 1 + (i + 1))
      BY <1>1
    <3> HIDE DEF f, S
    <3>3. \A e \in 0..S : n2 = f - 1 + e => ScatterShare(o, m, y, c, l, e)
      BY <1>3, <3>1 DEF HoldsRound, f, S
    <3> QED BY <2>2, <3>2, <3>3
  <2> QED BY <2>1, <2>2
<1>6. ReduceBuffer(o, l) \in Buffers
  BY BufferTypes DEF ReduceBuffer
<1>s. \A s \in X : m[<<y, src, s, c>>] = SumOf(s, Distant(z, s) + 2^i, (Distant(z, s) + 2^i) + 2^i, l)
  <2>0. l \in Int
    BY <1>1
  <2>1. ScatterFound(o, m, ScatterFrom(i, z), c, l, i)
    BY <1>5 DEF ScatterFound
  <2>2. Fetched(o, m, z, c, l, i)
    BY <2>0, <2>1, ScatterFetches
  <2>3. src = ScatterBuffer(o, l, i)
    BY DEF ScatterBuffer
  <2> QED BY <2>2, <2>3 DEF Fetched
<1>7. ScatterShare(o, m2, z, c, l, i + 1)
  <2>1. ASSUME NEW s \in HasData(o, l, c)
        PROVE  LET x == <<z, ReduceBuffer(o, l), s, c>>
               IN  m2[x] = IF s \in ScatterRx(i, z)
                           THEN Reduced(m[x], SumOf(s, Distant(z, s) + 2^i, (Distant(z, s) + 2^i) + 2^i, l))
                           ELSE m[x]
    <3>1. s \in Slices
      BY HasDataType
    <3>2. CASE s \in ScatterRx(i, z)
      <4>1. m2[<<z, ReduceBuffer(o, l), s, c>>] = Reduced(m[<<z, ReduceBuffer(o, l), s, c>>], m[<<y, src, s, c>>])
        BY <3>2 DEF Copies
      <4>2. m[<<y, src, s, c>>] = SumOf(s, Distant(z, s) + 2^i, (Distant(z, s) + 2^i) + 2^i, l)
        BY <3>2, <1>s
      <4> QED BY <3>2, <4>1, <4>2
    <3>3. CASE s \notin ScatterRx(i, z)
      BY <1>6, <3>1, <3>3 DEF Copies
    <3> QED BY <3>2, <3>3
  <2> QED BY <1>1, <1>4, <2>1, ScatterAdds
<1>8. ~o.symmetric /\ i = S - 1 => GatherShare(o, m2, z, c, l, 0)
  <2> SUFFICES ASSUME ~o.symmetric, i = S - 1 PROVE GatherShare(o, m2, z, c, l, 0)
    OBVIOUS
  <2>1. i + 1 = S
    BY <1>1
  <2>2. GatherBuffer(o, l) = ReduceBuffer(o, l)
    BY DEF GatherBuffer, ReduceBuffer
  <2>3. ScatterShare(o, m2, z, c, l, StepNum)
    BY <1>7, <2>1
  <2> HIDE DEF f, S
  <2>4. z \in HasData(o, l, c) => m2[<<z, GatherBuffer(o, l), z, c>>] = Sum(l)
    BY <1>1, <2>2, <2>3, ScatterSum
  <2> QED BY <2>4, GatherBegins
<1>9. HoldsRound(o, m2, z, c, l, k, p, g)
  <2>1. \A e \in 0..S : k = f - 1 + e => e = i + 1
    BY <1>1
  <2>2. \A j \in 0..S : k = f + S - 1 + j => j = 0 /\ i = S - 1
    BY <1>1
  <2>3. ~(k >= f + 2 * S - 1)
    BY <1>1
  <2>4. ~o.symmetric => ~(p >= 2 * l)
    BY <1>1, <1>3
  <2> HIDE DEF f, S
  <2>5. \A e \in 0..S : k = f - 1 + e => ScatterShare(o, m2, z, c, l, e)
    BY <1>7, <2>1
  <2>6. ~o.symmetric => \A j \in 0..S : k = f + S - 1 + j => GatherShare(o, m2, z, c, l, j)
    BY <1>8, <2>2
  <2>7. o.symmetric => ~(g >= 1)
    OBVIOUS
  <2> QED BY <2>3, <2>4, <2>5, <2>6, <2>7 DEF HoldsRound, f, S
<1>10. \A b \in Buffers : b # ReduceBuffer(o, l) => SameIn(m, m2, z, c, b)
  BY DEF Copies, SameIn
<1>11. ASSUME NEW h \in Loops(o), h # l PROVE HoldsRound(o, m2, z, c, h, k, p, g)
  <2>1. ~o.symmetric
    BY <1>1, <1>11
  <2>2. HoldsRound(o, m, z, c, h, k - 1, 2 * l - 1, g)
    BY <1>3, <2>1 DEF Holds
  <2>3. SameIn(m, m2, z, c, Out(o, h))
    <3>1. Out(o, h) \in Buffers
      BY BufferTypes
    <3>2. Out(o, h) # ReduceBuffer(o, l)
      BY <2>1 DEF ReduceBuffer, Out, In, Ccl
    <3> QED BY <1>10, <3>1, <3>2
  <2>4. ~(k \in FirstStep(h)..(FirstStep(h + 1) - 1))
    <3>1. h \in Nat \ {0}
      BY RoundFacts
    <3>2. k \in FirstStep(h)..(FirstStep(h + 1) - 1) => 2 * l - 1 = 2 * h - 1
      BY <1>3, <2>1 DEF InRound
    <3> QED BY <1>1, <1>11, <3>1, <3>2
  <2>5. HoldsRound(o, m2, z, c, h, k, 2 * l - 1, g)
    BY <1>2, <1>11, <2>1, <2>2, <2>3, <2>4, OtherRound
  <2> QED BY <1>3, <2>1, <2>5
<1>12. ASSUME NEW h \in 1..MaxRounds PROVE KeptRound(o, m2, z, c, h, k)
  <2> SUFFICES ASSUME ~o.symmetric,
                      ~o.inPlace \/ h \notin Loops(o) \/ k < FirstStep(h) + 2 * StepNum - 1
               PROVE  InKept(m2, z, c, h)
    BY DEF KeptRound
  <2>1. KeptRound(o, m, z, c, h, n)
    BY DEF Holds
  <2>2. h \in Loops(o) /\ k < FirstStep(h) + 2 * StepNum - 1 => n < FirstStep(h) + 2 * StepNum - 1
    <3>1. h \in Loops(o) => FirstStep(h) \in Nat
      BY RoundFacts
    <3> QED BY <1>1, <1>2, <3>1
  <2>3. InKept(m, z, c, h)
    BY <2>1, <2>2 DEF KeptRound
  <2>4. In(h) \in Buffers /\ In(h) # ReduceBuffer(o, l)
    BY DEF Buffers, In, ReduceBuffer, Ccl
  <2> QED BY <1>10, <2>3, <2>4, SameFacts
<1> QED BY <1>9, <1>11, <1>12 DEF Holds

(* After a step of AllGather a thread holds the sums of that step.         *)
LEMMA GatherHolds ==
  ASSUME NEW o \in Options, NEW l \in Loops(o), NEW j \in 0..(StepNum - 1),
         NEW k, NEW c \in 1..Channels, NEW z \in Ranks, NEW y, NEW m, NEW m2, NEW p, NEW g,
         Gathering(o, l, j, k, c, z, y, m, m2),
         TargetReady(o, m, z, c, k, p, g), SourceReady(o, m, y, c, k)
  PROVE  Holds(o, m2, z, c, k, p, g)
<1>a. PICK n2, p2, g2 :
        /\ n2 \in {k - 1, k}
        /\ Holds(o, m, y, c, n2, p2, g2)
        /\ ~o.symmetric => InRound(o, k, p2)
        /\ o.symmetric => g2 = IF k <= StepNum THEN 0 ELSE 1
  BY DEF SourceReady
<1>b. PICK n, b, X :
        /\ n = k - 1
        /\ b = IF ReadLastStepToOutput(o) /\ j = StepNum - 1 THEN Out(o, l) ELSE GatherBuffer(o, l)
        /\ X = GatherRx(j, z) \cap HasData(o, l, c)
  OBVIOUS
<1>c. o.symmetric => ~(k <= StepNum)
  <2>1. o.symmetric => FirstStep(l) = 1
    BY RoundFacts
  <2>2. StepNum \in Nat
    BY Sizes
  <2>3. FirstStep(l) = 1 => ~(FirstStep(l) + StepNum + j <= StepNum)
    BY <2>2
  <2> QED BY <2>1, <2>3 DEF Gathering
<1> SUFFICES ASSUME k = FirstStep(l) + StepNum + j, y = GatherFrom(j, z),
                    b = IF ReadLastStepToOutput(o) /\ j = StepNum - 1 THEN Out(o, l) ELSE GatherBuffer(o, l),
                    X = GatherRx(j, z) \cap HasData(o, l, c),
                    Copies(m, m2, z, b, y, GatherBuffer(o, l), X, c, FALSE),
                    n = k - 1, n2 = k - 1 \/ n2 = k,
                    Holds(o, m, z, c, n, p, g), Holds(o, m, y, c, n2, p2, g2),
                    ~o.symmetric => InRound(o, k, p) /\ InRound(o, k, p2),
                    o.symmetric => g >= 1 /\ g2 >= 1
             PROVE  Holds(o, m2, z, c, k, p, g)
  BY <1>a, <1>b, <1>c DEF Gathering, TargetReady
<1> DEFINE f == FirstStep(l)
           S == StepNum
           last == ReadLastStepToOutput(o) /\ j = StepNum - 1
<1>1. /\ l \in Nat \ {0} /\ l \in 1..MaxRounds /\ S \in Nat \ {0}
      /\ f \in Nat \ {0} /\ FirstStep(l + 1) = f + 2 * S
      /\ o.symmetric => l = 1 /\ Loops(o) = {1}
  BY RoundFacts
<1>2. k \in f..(FirstStep(l + 1) - 1) /\ k \in Nat
  BY <1>1
<1>3. ~o.symmetric => p = 2 * l - 1 /\ p2 = 2 * l - 1
  BY <1>2 DEF InRound
<1>4. GatherShare(o, m, z, c, l, j)
  <2>1. HoldsRound(o, m, z, c, l, n, p, g)
    BY DEF Holds
  <2>2. n = f + S - 1 + j /\ j \in 0..S
    BY <1>1
  <2> HIDE DEF f, S
  <2>3. \A i \in 0..S : n = f + S - 1 + i => GatherShare(o, m, z, c, l, i)
    BY <1>3, <2>1 DEF HoldsRound, f, S
  <2> QED BY <2>2, <2>3
<1>5. GatherShare(o, m, y, c, l, j) \/ GatherShare(o, m, y, c, l, j + 1)
  <2>1. HoldsRound(o, m, y, c, l, n2, p2, g2)
    BY DEF Holds
  <2>2. j \in 0..S /\ j + 1 \in 0..S /\ (n2 = f + S - 1 + j \/ n2 = f + S - 1 + (j + 1))
    BY <1>1
  <2> HIDE DEF f, S
  <2>3. \A i \in 0..S : n2 = f + S - 1 + i => GatherShare(o, m, y, c, l, i)
    BY <1>3, <2>1 DEF HoldsRound, f, S
  <2> QED BY <2>2, <2>3
<1>6. Out(o, l) \in Buffers /\ GatherBuffer(o, l) \in Buffers /\ b \in Buffers
  BY BufferTypes DEF GatherBuffer
<1>7. \A s \in X : m2[<<z, b, s, c>>] = Sum(l)
  <2>1. ASSUME NEW s \in X PROVE m2[<<z, b, s, c>>] = Sum(l)
    <3>1. m2[<<z, b, s, c>>] = m[<<y, GatherBuffer(o, l), s, c>>]
      BY DEF Copies
    <3>2. m[<<y, GatherBuffer(o, l), s, c>>] = Sum(l)
      BY <1>5, GatherSource
    <3> QED BY <3>1, <3>2
  <2> QED BY <2>1
<1>8. GatherShare(o, m2, z, c, l, j + 1)
  <2>1. ASSUME NEW s \in HasData(o, l, c)
        PROVE  LET x == <<z, GatherBuffer(o, l), s, c>>
               IN  IF s \in GatherRx(j, z)
                   THEN (ReadLastStepToOutput(o) /\ j = StepNum - 1) \/ m2[x] = Sum(l)
                   ELSE m2[x] = m[x]
    <3>1. s \in Slices
      BY HasDataType
    <3>2. CASE s \in GatherRx(j, z)
      BY <1>7, <3>2
    <3>3. CASE s \notin GatherRx(j, z)
      BY <1>6, <3>1, <3>3 DEF Copies
    <3> QED BY <3>2, <3>3
  <2> QED BY <1>4, <2>1, GatherAdds
<1>9. HoldsRound(o, m2, z, c, l, k, p, g)
  <2>1. \A e \in 0..S : k # f - 1 + e
    BY <1>1
  <2>2. \A i \in 0..S : k = f + S - 1 + i => i = j + 1
    BY <1>1
  <2>3. k >= f + 2 * S - 1 => j = S - 1
    BY <1>1
  <2>4. ~o.symmetric => ~(p >= 2 * l)
    BY <1>1, <1>3
  <2>5. ReadLastStepToOutput(o) /\ j = S - 1 => OutRead(o, m2, z, c, l)
    BY <1>7 DEF OutRead
  <2> HIDE DEF f, S
  <2>6. \A i \in 0..S : k = f + S - 1 + i => GatherShare(o, m2, z, c, l, i)
    BY <1>8, <2>2
  <2> QED BY <2>1, <2>3, <2>4, <2>5, <2>6 DEF HoldsRound, f, S
<1>10. \A a \in Buffers : a # b => SameIn(m, m2, z, c, a)
  BY DEF Copies, SameIn
<1>11. ASSUME NEW h \in Loops(o), h # l PROVE HoldsRound(o, m2, z, c, h, k, p, g)
  <2>1. ~o.symmetric
    BY <1>1, <1>11
  <2>2. HoldsRound(o, m, z, c, h, k - 1, 2 * l - 1, g)
    BY <1>3, <2>1 DEF Holds
  <2>3. SameIn(m, m2, z, c, Out(o, h))
    <3>1. Out(o, h) \in Buffers
      BY BufferTypes
    <3>2. Out(o, h) # b
      BY <1>11, <2>1 DEF GatherBuffer, Out, In, Ccl
    <3> QED BY <1>10, <3>1, <3>2
  <2>4. ~(k \in FirstStep(h)..(FirstStep(h + 1) - 1))
    <3>1. h \in Nat \ {0}
      BY RoundFacts
    <3>2. k \in FirstStep(h)..(FirstStep(h + 1) - 1) => 2 * l - 1 = 2 * h - 1
      BY <1>3, <2>1 DEF InRound
    <3> QED BY <1>1, <1>11, <3>1, <3>2
  <2>5. HoldsRound(o, m2, z, c, h, k, 2 * l - 1, g)
    BY <1>2, <1>11, <2>1, <2>2, <2>3, <2>4, OtherRound
  <2> QED BY <1>3, <2>1, <2>5
<1>12. ASSUME NEW h \in 1..MaxRounds PROVE KeptRound(o, m2, z, c, h, k)
  <2> SUFFICES ASSUME ~o.symmetric,
                      ~o.inPlace \/ h \notin Loops(o) \/ k < FirstStep(h) + 2 * StepNum - 1
               PROVE  InKept(m2, z, c, h)
    BY DEF KeptRound
  <2>1. KeptRound(o, m, z, c, h, n)
    BY DEF Holds
  <2>2. h \in Loops(o) /\ k < FirstStep(h) + 2 * StepNum - 1 => n < FirstStep(h) + 2 * StepNum - 1
    <3>1. h \in Loops(o) => FirstStep(h) \in Nat
      BY RoundFacts
    <3> QED BY <1>1, <1>2, <3>1
  <2>3. InKept(m, z, c, h)
    BY <2>1, <2>2 DEF KeptRound
  <2>4. In(h) \in Buffers
    BY DEF Buffers
  <2>5. In(h) # b
    <3>1. b = Ccl \/ (last /\ b = Out(o, l))
      BY DEF GatherBuffer
    <3>2. CASE b = Ccl
      BY <3>2 DEF In, Ccl
    <3>3. CASE last /\ b = Out(o, l)
      <4>1. ~(k < f + 2 * S - 1)
        BY <1>1, <3>3
      <4>2. In(h) = b => h = l /\ o.inPlace
        BY <3>3 DEF In, Out
      <4> QED BY <4>1, <4>2
    <3> QED BY <3>1, <3>2, <3>3
  <2> QED BY <1>10, <2>3, <2>4, <2>5, SameFacts
<1> QED BY <1>9, <1>11, <1>12 DEF Holds

-----------------------------------------------------------------------------
(* The local copies *)

(* PreCopy brings the inputs of the round to the scratch buffer.           *)
LEMMA PreCopyHolds ==
  ASSUME NEW o \in Options, ~o.symmetric, NEW l \in Loops(o), NEW r \in Ranks, NEW c \in 1..Channels,
         NEW m, NEW m2, NEW skipped, skipped = IF SkipStep0TxPreCopy(o) THEN ScatterTx(0, r) ELSE {},
         Copies(m, m2, r, Ccl, r, In(l), HasData(o, l, c) \ skipped, c, FALSE),
         NEW n, n = FirstStep(l) - 1, NEW g, NEW g2, Holds(o, m, r, c, n, 2 * l - 2, g)
  PROVE  Holds(o, m2, r, c, n, 2 * l - 1, g2)
<1> DEFINE f == FirstStep(l)
           S == StepNum
<1>1. l \in Nat \ {0} /\ l \in 1..MaxRounds /\ S \in Nat \ {0} /\ f \in Nat \ {0}
  BY RoundFacts
<1>2. InKept(m, r, c, l)
  <2>1. KeptRound(o, m, r, c, l, n)
    BY <1>1 DEF Holds
  <2>2. n < f + 2 * S - 1
    BY <1>1
  <2> QED BY <2>1, <2>2 DEF KeptRound
<1>3. ScatterShare(o, m2, r, c, l, 0)
  <2>1. ASSUME NEW s \in HasData(o, l, c), Whole(o, r, s, 0)
        PROVE  m2[<<r, ReduceBuffer(o, l), s, c>>] = SumOf(s, Distant(r, s), Distant(r, s) + 2^0, l)
    <3>1. s \in Slices
      BY HasDataType
    <3>2. s \in HasData(o, l, c) \ skipped
      BY <2>1 DEF Whole
    <3>3. m2[<<r, Ccl, s, c>>] = m[<<r, In(l), s, c>>]
      BY <3>2 DEF Copies
    <3>4. m2[<<r, Ccl, s, c>>] = {<<r, l>>}
      BY <1>2, <3>1, <3>3 DEF InKept
    <3>5. 2^0 = 1
      OBVIOUS
    <3>6. SumOf(s, Distant(r, s), Distant(r, s) + 1, l) = {<<r, l>>}
      BY <1>1, <3>1, SumOfFacts
    <3> QED BY <3>4, <3>5, <3>6 DEF ReduceBuffer
  <2>2. \A s : ~Sent(o, r, s, 0)
    BY DEF Sent
  <2> QED BY <2>1, <2>2 DEF ScatterShare
<1>4. HoldsRound(o, m2, r, c, l, n, 2 * l - 1, g2)
  <2>1. \A e \in 0..S : n = f - 1 + e => e = 0
    BY <1>1
  <2>2. \A j \in 0..S : n # f + S - 1 + j
    BY <1>1
  <2>3. ~(n >= f + 2 * S - 1) /\ ~(2 * l - 1 >= 2 * l)
    BY <1>1
  <2> HIDE DEF f, S
  <2>4. \A e \in 0..S : n = f - 1 + e => ScatterShare(o, m2, r, c, l, e)
    BY <1>3, <2>1
  <2> QED BY <2>2, <2>3, <2>4 DEF HoldsRound, f, S
<1>5. \A b \in Buffers : b # Ccl => SameIn(m, m2, r, c, b)
  BY DEF Copies, SameIn
<1>6. ASSUME NEW h \in Loops(o), h # l PROVE HoldsRound(o, m2, r, c, h, n, 2 * l - 1, g2)
  <2>1. h \in Nat \ {0}
    BY RoundFacts
  <2>2. HoldsRound(o, m, r, c, h, n, 2 * l - 2, g)
    BY DEF Holds
  <2>3. SameIn(m, m2, r, c, Out(o, h))
    <3>1. Out(o, h) \in Buffers
      BY BufferTypes
    <3>2. Out(o, h) # Ccl
      BY DEF Out, In, Ccl
    <3> QED BY <1>5, <3>1, <3>2
  <2>4. /\ OutRead(o, m, r, c, h) => OutRead(o, m2, r, c, h)
        /\ OutWritten(o, m, r, c, h) => OutWritten(o, m2, r, c, h)
    BY <2>3, SameFacts
  <2>5. 2 * l - 1 # 2 * h - 1 /\ (2 * l - 1 >= 2 * h => 2 * l - 2 >= 2 * h)
    BY <1>1, <1>6, <2>1
  <2> QED BY <2>2, <2>4, <2>5 DEF HoldsRound
<1>7. ASSUME NEW h \in 1..MaxRounds PROVE KeptRound(o, m2, r, c, h, n)
  <2>1. KeptRound(o, m, r, c, h, n)
    BY DEF Holds
  <2>2. In(h) \in Buffers /\ In(h) # Ccl
    BY DEF Buffers, In, Ccl
  <2>3. InKept(m, r, c, h) => InKept(m2, r, c, h)
    BY <1>5, <2>2, SameFacts
  <2> QED BY <2>1, <2>3 DEF KeptRound
<1> QED BY <1>4, <1>6, <1>7 DEF Holds

(* PostCopy brings the sums of the round to the output.                    *)
LEMMA PostCopyHolds ==
  ASSUME NEW o \in Options, ~o.symmetric, NEW l \in Loops(o), NEW r \in Ranks, NEW c \in 1..Channels,
         NEW m, NEW m2, NEW read, read = IF ReadLastStepToOutput(o) THEN GatherRx(StepNum - 1, r) ELSE {},
         Copies(m, m2, r, Out(o, l), r, Ccl, HasData(o, l, c) \ read, c, FALSE),
         NEW n, n = FirstStep(l + 1) - 1, NEW g, NEW g2, Holds(o, m, r, c, n, 2 * l - 1, g)
  PROVE  Holds(o, m2, r, c, n, 2 * l, g2)
<1> DEFINE f == FirstStep(l)
           S == StepNum
<1>1. /\ l \in Nat \ {0} /\ l \in 1..MaxRounds /\ S \in Nat \ {0} /\ f \in Nat \ {0}
      /\ FirstStep(l + 1) = f + 2 * S
  BY RoundFacts
<1>2. HoldsRound(o, m, r, c, l, n, 2 * l - 1, g)
  BY DEF Holds
<1>3. GatherShare(o, m, r, c, l, S)
  <2>1. n = f + S - 1 + S /\ S \in 0..S
    BY <1>1
  <2> HIDE DEF f, S
  <2>2. \A j \in 0..S : n = f + S - 1 + j => GatherShare(o, m, r, c, l, j)
    BY <1>2 DEF HoldsRound, f, S
  <2> QED BY <2>1, <2>2
<1>4. ReadLastStepToOutput(o) => OutRead(o, m, r, c, l)
  <2>1. n >= f + 2 * S - 1
    BY <1>1
  <2> QED BY <1>2, <2>1 DEF HoldsRound
<1>5. Out(o, l) \in Buffers /\ Out(o, l) # Ccl
  BY BufferTypes DEF Out, In, Ccl
<1>6. OutWritten(o, m2, r, c, l)
  <2>1. ASSUME NEW s \in HasData(o, l, c) PROVE m2[<<r, Out(o, l), s, c>>] = Sum(l)
    <3>1. s \in Slices
      BY HasDataType
    <3>2. CASE s \in read
      <4>1. ReadLastStepToOutput(o) /\ s \in GatherRx(StepNum - 1, r)
        BY <3>2
      <4>2. m[<<r, Out(o, l), s, c>>] = Sum(l)
        BY <1>4, <4>1 DEF OutRead
      <4>3. m2[<<r, Out(o, l), s, c>>] = m[<<r, Out(o, l), s, c>>]
        BY <1>5, <3>1, <3>2 DEF Copies
      <4> QED BY <4>2, <4>3
    <3>3. CASE s \notin read
      <4>1. m2[<<r, Out(o, l), s, c>>] = m[<<r, Ccl, s, c>>]
        BY <3>3 DEF Copies
      <4>2. ~(S = StepNum /\ ReadLastStepToOutput(o) /\ s \in GatherRx(StepNum - 1, r))
        BY <3>3
      <4>3. L!Multiple(2^(StepNum - S), Distant(r, s))
        <5>1. Distant(r, s) \in Nat
          BY <1>1, <3>1, SumOfFacts
        <5>2. StepNum - S = 0 /\ 2^0 = 1
          BY <1>1
        <5>3. L!Multiple(1, Distant(r, s))
          BY <5>1, L!MultipleFacts, ScheduleSize
        <5> QED BY <5>2, <5>3
      <4>4. m[<<r, GatherBuffer(o, l), s, c>>] = Sum(l)
        BY <1>3, <4>2, <4>3 DEF GatherShare
      <4> QED BY <4>1, <4>4 DEF GatherBuffer
    <3> QED BY <3>2, <3>3
  <2> QED BY <2>1 DEF OutWritten
<1>7. HoldsRound(o, m2, r, c, l, n, 2 * l, g2)
  <2>1. OutRead(o, m2, r, c, l)
    BY <1>6 DEF OutRead, OutWritten
  <2>2. 2 * l # 2 * l - 1
    BY <1>1
  <2> QED BY <1>6, <2>1, <2>2 DEF HoldsRound
<1>8. \A b \in Buffers : b # Out(o, l) => SameIn(m, m2, r, c, b)
  BY DEF Copies, SameIn
<1>9. ASSUME NEW h \in Loops(o), h # l PROVE HoldsRound(o, m2, r, c, h, n, 2 * l, g2)
  <2>1. h \in Nat \ {0}
    BY RoundFacts
  <2>2. HoldsRound(o, m, r, c, h, n, 2 * l - 1, g)
    BY DEF Holds
  <2>3. SameIn(m, m2, r, c, Out(o, h))
    <3>1. Out(o, h) \in Buffers
      BY BufferTypes
    <3>2. Out(o, h) # Out(o, l)
      BY <1>9 DEF Out, In
    <3> QED BY <1>8, <3>1, <3>2
  <2>4. /\ OutRead(o, m, r, c, h) => OutRead(o, m2, r, c, h)
        /\ OutWritten(o, m, r, c, h) => OutWritten(o, m2, r, c, h)
    BY <2>3, SameFacts
  <2>5. 2 * l # 2 * h - 1 /\ (2 * l >= 2 * h => 2 * l - 1 >= 2 * h)
    BY <1>1, <1>9, <2>1
  <2> QED BY <2>2, <2>4, <2>5 DEF HoldsRound
<1>10. ASSUME NEW h \in 1..MaxRounds PROVE KeptRound(o, m2, r, c, h, n)
  <2>1. KeptRound(o, m, r, c, h, n)
    BY DEF Holds
  <2>2. In(h) \in Buffers /\ (In(h) = Out(o, l) => o.inPlace /\ h = l)
    BY DEF Buffers, In, Out
  <2>3. CASE In(h) = Out(o, l)
    <3>1. ~(n < f + 2 * S - 1)
      BY <1>1
    <3> QED BY <2>2, <2>3, <3>1 DEF KeptRound
  <2>4. CASE In(h) # Out(o, l)
    <3>1. InKept(m, r, c, h) => InKept(m2, r, c, h)
      BY <1>8, <2>2, <2>4, SameFacts
    <3> QED BY <2>1, <3>1 DEF KeptRound
  <2> QED BY <2>3, <2>4
<1> QED BY <1>7, <1>9, <1>10 DEF Holds

SliceCopied(o, l, r, m, m2) ==
  /\ \A c \in 1..Channels :
       Copies(m, m2, r, Out(o, l), r, In(l), {r} \cap HasData(o, l, c), c, FALSE)
  /\ \A x \in Cells : x[1] # r => m2[x] = m[x]

(* What copying a rank's own slices does to each of its threads.           *)
LEMMA MySliceEffect ==
  ASSUME NEW o \in Options, NEW l \in Loops(o), NEW r \in Ranks, NEW m, NEW m2, Effect(m, m2, MySlice(o, l, r))
  PROVE  SliceCopied(o, l, r, m, m2)
<1> DEFINE moves == MySlice(o, l, r)
           D == UNION {{<<r, Out(o, l), s, d>> : s \in {r} \cap HasData(o, l, d)} : d \in 1..Channels}
<1>1. /\ DOMAIN moves = D
      /\ \A x \in D : moves[x] = [src |-> <<r, In(l), x[3], x[4]>>, reduce |-> FALSE]
  BY DEF MySlice
<1>2. ASSUME NEW c \in 1..Channels, NEW b \in Buffers, NEW s \in Slices
      PROVE  /\ <<r, b, s, c>> \in Cells
             /\ <<r, b, s, c>> \in D <=> b = Out(o, l) /\ s \in {r} \cap HasData(o, l, c)
  <2>1. <<r, b, s, c>> \in Cells
    BY DEF Cells
  <2>2. <<r, b, s, c>> \in D <=> \E d \in 1..Channels : \E q \in {r} \cap HasData(o, l, d) : <<r, b, s, c>> = <<r, Out(o, l), q, d>>
    OBVIOUS
  <2>3. \A d, q : <<r, b, s, c>> = <<r, Out(o, l), q, d>> <=> b = Out(o, l) /\ s = q /\ c = d
    OBVIOUS
  <2> HIDE DEF D
  <2> QED BY <2>1, <2>2, <2>3
<1>3. \A x \in D : x[1] = r
  OBVIOUS
<1> HIDE DEF moves, D
<1>4. Out(o, l) \in Buffers
  BY BufferTypes
<1>5. ASSUME NEW c \in 1..Channels, NEW s \in {r} \cap HasData(o, l, c)
      PROVE  m2[<<r, Out(o, l), s, c>>] = m[<<r, In(l), s, c>>]
  <2> DEFINE x == <<r, Out(o, l), s, c>>
  <2>0. s \in Slices
    BY HasDataType
  <2>1. x \in Cells /\ x \in D
    BY <1>2, <1>4, <2>0
  <2>2. x[3] = s /\ x[4] = c
    OBVIOUS
  <2> HIDE DEF x
  <2>3. moves[x] = [src |-> <<r, In(l), s, c>>, reduce |-> FALSE]
    BY <1>1, <2>1, <2>2
  <2>4. m2[x] = IF moves[x].reduce THEN Reduced(m[x], m[moves[x].src]) ELSE m[moves[x].src]
    BY <1>1, <2>1 DEF Effect, moves
  <2>5. moves[x].reduce = FALSE /\ moves[x].src = <<r, In(l), s, c>>
    BY <2>3
  <2>6. m2[x] = m[<<r, In(l), s, c>>]
    BY <2>4, <2>5
  <2> QED BY <2>6 DEF x
<1>6. \A x \in Cells : x \notin D => m2[x] = m[x]
  BY <1>1 DEF Effect, moves
<1> QED BY <1>2, <1>3, <1>5, <1>6 DEF Copies, SliceCopied

(* With symmetric memory the rank's own slice reaches the output.          *)
LEMMA MySliceHolds ==
  ASSUME NEW o \in Options, o.symmetric, NEW l \in Loops(o), NEW r \in Ranks, NEW c \in 1..Channels,
         NEW m, NEW m2, Copies(m, m2, r, Out(o, l), r, In(l), {r} \cap HasData(o, l, c), c, FALSE),
         NEW p, NEW g, NEW p2, NEW g2, Holds(o, m, r, c, StepNum, p, g)
  PROVE  Holds(o, m2, r, c, StepNum, p2, g2)
<1> DEFINE S == StepNum
<1>1. l \in Nat \ {0} /\ S \in Nat \ {0} /\ FirstStep(l) = 1 /\ l = 1 /\ Loops(o) = {1}
  BY RoundFacts
<1>2. ReduceBuffer(o, l) = In(l) /\ GatherBuffer(o, l) = Out(o, l)
  BY DEF ReduceBuffer, GatherBuffer
<1>3. ScatterShare(o, m, r, c, l, S)
  <2>1. HoldsRound(o, m, r, c, l, S, p, g)
    BY DEF Holds
  <2>2. S = FirstStep(l) - 1 + S /\ S \in 0..S
    BY <1>1
  <2> QED BY <2>1, <2>2 DEF HoldsRound
<1>4. SameIn(m, m2, r, c, In(l))
  <2>1. ASSUME NEW s \in Slices PROVE m2[<<r, In(l), s, c>>] = m[<<r, In(l), s, c>>]
    <3>1. In(l) \in Buffers
      BY BufferTypes
    <3>2. CASE In(l) = Out(o, l) /\ s \in {r} \cap HasData(o, l, c)
      BY <3>2 DEF Copies
    <3>3. CASE ~(In(l) = Out(o, l) /\ s \in {r} \cap HasData(o, l, c))
      BY <3>1, <3>3 DEF Copies
    <3> QED BY <3>2, <3>3
  <2> QED BY <2>1 DEF SameIn
<1>5. ScatterShare(o, m2, r, c, l, S)
  BY <1>2, <1>3, <1>4, SameFacts
<1>6. GatherShare(o, m2, r, c, l, 0)
  <2>1. ASSUME r \in HasData(o, l, c) PROVE m2[<<r, GatherBuffer(o, l), r, c>>] = Sum(l)
    <3>1. m2[<<r, Out(o, l), r, c>>] = m[<<r, In(l), r, c>>]
      BY <2>1 DEF Copies
    <3>2. m[<<r, In(l), r, c>>] = Sum(l)
      BY <1>1, <1>2, <1>3, <2>1, ScatterSum
    <3> QED BY <1>2, <3>1, <3>2
  <2> QED BY <2>1, GatherBegins
<1>7. HoldsRound(o, m2, r, c, l, S, p2, g2)
  <2>1. \A e \in 0..S : S = FirstStep(l) - 1 + e => e = S
    BY <1>1
  <2>2. \A j \in 0..S : S = FirstStep(l) + S - 1 + j => j = 0
    BY <1>1
  <2> HIDE DEF S
  <2>3. \A e \in 0..S : S = FirstStep(l) - 1 + e => ScatterShare(o, m2, r, c, l, e)
    BY <1>5, <2>1
  <2>4. \A j \in 0..S : S = FirstStep(l) + S - 1 + j => GatherShare(o, m2, r, c, l, j)
    BY <1>6, <2>2
  <2> QED BY <2>3, <2>4 DEF HoldsRound, S, ReadLastStepToOutput
<1>8. \A h \in Loops(o) : h = l
  BY <1>1
<1>9. \A h \in 1..MaxRounds : KeptRound(o, m2, r, c, h, StepNum)
  BY DEF KeptRound
<1> QED BY <1>7, <1>8, <1>9 DEF Holds

-----------------------------------------------------------------------------
(* One task *)

(* A set of copies, reducing or not.                                       *)
LEMMA CopyEffects ==
  ASSUME NEW m, NEW m2, NEW z \in Ranks, NEW b \in Buffers, NEW y, NEW b2,
         NEW slices \in SUBSET Slices, NEW c \in 1..Channels
  PROVE  /\ Effect(m, m2, Copy(z, b, y, b2, slices, c, TRUE)) =>
              /\ Copies(m, m2, z, b, y, b2, slices, c, TRUE)
              /\ Elsewhere(m, m2, z, c)
         /\ Effect(m, m2, Copy(z, b, y, b2, slices, c, FALSE)) =>
              /\ Copies(m, m2, z, b, y, b2, slices, c, FALSE)
              /\ Elsewhere(m, m2, z, c)
<1>1. ASSUME NEW reduce \in BOOLEAN, Effect(m, m2, Copy(z, b, y, b2, slices, c, reduce))
      PROVE  /\ Copies(m, m2, z, b, y, b2, slices, c, reduce)
             /\ Elsewhere(m, m2, z, c)
  BY <1>1, CopyEffect
<1>2. PICK r \in BOOLEAN : r = TRUE
  OBVIOUS
<1>3. PICK q \in BOOLEAN : q = FALSE
  OBVIOUS
<1>4. Effect(m, m2, Copy(z, b, y, b2, slices, c, r)) =>
        /\ Copies(m, m2, z, b, y, b2, slices, c, r)
        /\ Elsewhere(m, m2, z, c)
  BY <1>1
<1>5. Effect(m, m2, Copy(z, b, y, b2, slices, c, q)) =>
        /\ Copies(m, m2, z, b, y, b2, slices, c, q)
        /\ Elsewhere(m, m2, z, c)
  BY <1>1
<1> QED BY <1>2, <1>3, <1>4, <1>5

(* A transfer brings its target what the step promises.                    *)
LEMMA TransferHolds ==
  ASSUME NEW o \in Options, NEW k \in 1..Steps(o), NEW c \in 1..Channels, NEW z \in Ranks,
         NEW y, y = HandshakeRx[o][k][z], NEW moves, Receipt(o, k, c, z, moves),
         NEW m, NEW m2, Effect(m, m2, moves), NEW p, NEW g,
         TargetReady(o, m, z, c, k, p, g), SourceReady(o, m, y, c, k)
  PROVE  /\ Holds(o, m2, z, c, k, p, g)
         /\ Elsewhere(m, m2, z, c)
<1>1. PICK l \in Loops(o), i \in 0..(StepNum - 1) :
        \/ k = FirstStep(l) + i /\ moves = ScatterReceipt(o, l, c, i, z)
        \/ k = FirstStep(l) + StepNum + i /\ moves = GatherReceipt(o, l, c, i, z)
  BY DEF Receipt
<1>2. /\ l \in Nat \ {0} /\ StepNum \in Nat \ {0} /\ FirstStep(l) \in Nat \ {0}
      /\ o.symmetric => l = 1 /\ FirstStep(l) = 1
  BY RoundFacts
<1>3. HasData(o, l, c) \in SUBSET Slices
  BY HasDataType
<1>4. /\ Ccl \in Buffers /\ In(l) \in Buffers /\ Out(o, l) \in Buffers
      /\ ReduceBuffer(o, l) \in Buffers /\ GatherBuffer(o, l) \in Buffers
  BY BufferTypes DEF ReduceBuffer, GatherBuffer
<1>5. CASE k = FirstStep(l) + i /\ moves = ScatterReceipt(o, l, c, i, z)
  <2> DEFINE src == IF SkipStep0TxPreCopy(o) /\ i = 0 THEN In(l) ELSE ReduceBuffer(o, l)
             X == ScatterRx(i, z) \cap HasData(o, l, c)
  <2>1. y = ScatterFrom(i, z)
    <3>1. i \in 0..(2 * StepNum - 1) /\ ~(i >= StepNum)
      BY <1>2
    <3>2. ~Gathers(k) /\ StepOf(k) = i
      BY <1>5, <3>1, RoundSteps
    <3> QED BY <3>2, Tables
  <2>2. X \in SUBSET Slices
    BY <1>3
  <2>3. Effect(m, m2, Copy(z, ReduceBuffer(o, l), y, src, X, c, TRUE))
    BY <1>5, <2>1 DEF ScatterReceipt
  <2>4. /\ Copies(m, m2, z, ReduceBuffer(o, l), y, src, X, c, TRUE)
        /\ Elsewhere(m, m2, z, c)
    <3> HIDE DEF X, src
    <3> QED BY <1>4, <2>2, <2>3, CopyEffects
  <2>5. Scattering(o, l, i, k, c, z, y, m, m2)
    BY <1>5, <2>1, <2>4 DEF Scattering
  <2>6. Holds(o, m2, z, c, k, p, g)
    BY <2>5, ScatterHolds
  <2> QED BY <2>4, <2>6
<1>6. CASE k = FirstStep(l) + StepNum + i /\ moves = GatherReceipt(o, l, c, i, z)
  <2> DEFINE b == IF ReadLastStepToOutput(o) /\ i = StepNum - 1 THEN Out(o, l) ELSE GatherBuffer(o, l)
             X == GatherRx(i, z) \cap HasData(o, l, c)
  <2>1. y = GatherFrom(i, z)
    <3>1. StepNum + i \in 0..(2 * StepNum - 1) /\ StepNum + i >= StepNum /\ (StepNum + i) - StepNum = i
          /\ k = FirstStep(l) + (StepNum + i)
      BY <1>2, <1>6
    <3>2. Gathers(k) /\ StepOf(k) = i
      BY <3>1, RoundSteps
    <3> QED BY <3>2, Tables
  <2>2. X \in SUBSET Slices /\ b \in Buffers
    BY <1>3, <1>4
  <2>3. Effect(m, m2, Copy(z, b, y, GatherBuffer(o, l), X, c, FALSE))
    BY <1>6, <2>1 DEF GatherReceipt
  <2>4. /\ Copies(m, m2, z, b, y, GatherBuffer(o, l), X, c, FALSE)
        /\ Elsewhere(m, m2, z, c)
    <3> HIDE DEF X, b
    <3> QED BY <1>4, <2>2, <2>3, CopyEffects
  <2>5. Gathering(o, l, i, k, c, z, y, m, m2)
    BY <1>6, <2>1, <2>4 DEF Gathering
  <2>6. Holds(o, m2, z, c, k, p, g)
    BY <2>5, GatherHolds
  <2> QED BY <2>4, <2>6
<1> QED BY <1>1, <1>5, <1>6

LocalMoved(o, t, m, m2, n, p, g) ==
  /\ Holds(o, m2, t[1], t[2], n, p, g)
  /\ Elsewhere(m, m2, t[1], t[2])

(* A local copy brings its thread what it promises.                        *)
LEMMA LocalHolds ==
  ASSUME NEW o \in Options, ~o.symmetric, NEW t \in Threads, NEW l \in Loops(o), NEW a, NEW task,
         LocalCopy(o, t, l, a, task), NEW m, NEW m2, Effect(m, m2, task.moves),
         NEW n, n = a.step - 1, NEW p, p = a.copies, NEW g, NEW g2, Holds(o, m, t[1], t[2], n, p, g)
  PROVE  LocalMoved(o, t, m, m2, n, p + 1, g2)
<1> DEFINE r == t[1]
           c == t[2]
<1>1. r \in Ranks /\ c \in 1..Channels
  BY ThreadFacts
<1>2. l \in Nat \ {0} /\ LegStart(o, l) = FirstStep(l)
  BY RoundFacts, RoundLegs DEF ScatterLeg
<1>3. HasData(o, l, c) \in SUBSET Slices
  BY HasDataType
<1>4. Ccl \in Buffers /\ In(l) \in Buffers /\ Out(o, l) \in Buffers
  BY BufferTypes
<1>5. CASE a = Entering(o, t, l, Crew(t)) /\ PreCopy(o, l, r, c) = <<task>>
  <2> DEFINE skipped == IF SkipStep0TxPreCopy(o) THEN ScatterTx(0, r) ELSE {}
             moves == Copy(r, Ccl, r, In(l), HasData(o, l, c) \ skipped, c, FALSE)
  <2>1. task = Move(moves, FirstStep(l), 0)
    BY <1>5 DEF PreCopy
  <2>2. task.moves = moves
    <3> HIDE DEF moves
    <3> QED BY <2>1 DEF Move, Task
  <2>3. HasData(o, l, c) \ skipped \in SUBSET Slices
    BY <1>3
  <2>4. /\ Copies(m, m2, r, Ccl, r, In(l), HasData(o, l, c) \ skipped, c, FALSE)
        /\ Elsewhere(m, m2, r, c)
    <3>1. Effect(m, m2, Copy(r, Ccl, r, In(l), HasData(o, l, c) \ skipped, c, FALSE))
      BY <2>2
    <3> HIDE DEF r, c, skipped
    <3> QED BY <1>1, <1>4, <2>3, <3>1, CopyEffects
  <2>5. a.step = FirstStep(l) /\ a.copies = 2 * l - 2
    BY <1>2, <1>5 DEF Entering, Mark, Copied
  <2>6. p + 1 = 2 * l - 1 /\ p = 2 * l - 2
    BY <1>2, <2>5
  <2>7. Holds(o, m2, r, c, n, 2 * l - 1, g2)
    <3>1. Holds(o, m, r, c, n, 2 * l - 2, g) /\ n = FirstStep(l) - 1
      BY <2>5
    <3>2. skipped = IF SkipStep0TxPreCopy(o) THEN ScatterTx(0, r) ELSE {}
      OBVIOUS
    <3> HIDE DEF r, c, skipped
    <3> QED BY <1>1, <2>4, <3>1, <3>2, PreCopyHolds
  <2> QED BY <2>4, <2>6, <2>7 DEF LocalMoved
<1>6. CASE a = Inside(o, t, l, FirstStep(l + 1), 0) /\ PostCopy(o, l, r, c) = <<task>>
  <2> DEFINE read == IF ReadLastStepToOutput(o) THEN GatherRx(StepNum - 1, r) ELSE {}
             moves == Copy(r, Out(o, l), r, Ccl, HasData(o, l, c) \ read, c, FALSE)
  <2>1. task = Move(moves, FirstStep(l + 1), 0)
    BY <1>6 DEF PostCopy
  <2>2. task.moves = moves
    <3> HIDE DEF moves
    <3> QED BY <2>1 DEF Move, Task
  <2>3. HasData(o, l, c) \ read \in SUBSET Slices
    BY <1>3
  <2>4. /\ Copies(m, m2, r, Out(o, l), r, Ccl, HasData(o, l, c) \ read, c, FALSE)
        /\ Elsewhere(m, m2, r, c)
    <3>1. Effect(m, m2, Copy(r, Out(o, l), r, Ccl, HasData(o, l, c) \ read, c, FALSE))
      BY <2>2
    <3> HIDE DEF r, c, read
    <3> QED BY <1>1, <1>4, <2>3, <3>1, CopyEffects
  <2>5. a.step = FirstStep(l + 1) /\ a.copies = 2 * l - 1
    BY <1>2, <1>6 DEF Inside, Mark, Copied
  <2>6. p + 1 = 2 * l /\ p = 2 * l - 1
    BY <1>2, <2>5
  <2>7. Holds(o, m2, r, c, n, 2 * l, g2)
    <3>1. Holds(o, m, r, c, n, 2 * l - 1, g) /\ n = FirstStep(l + 1) - 1
      BY <2>5
    <3>2. read = IF ReadLastStepToOutput(o) THEN GatherRx(StepNum - 1, r) ELSE {}
      OBVIOUS
    <3> HIDE DEF r, c, read
    <3> QED BY <1>1, <2>4, <3>1, <3>2, PostCopyHolds
  <2> QED BY <2>4, <2>6, <2>7 DEF LocalMoved
<1> QED BY <1>5, <1>6 DEF LocalCopy, LocalMoved

(* The memory after a task.                                                *)
LEMMA MoveEffect ==
  ASSUME HaveType, NEW t \in Threads, Execute(t)
  PROVE  /\ Current(t).op = "move" => Effect(mem, mem', Current(t).moves)
         /\ Current(t).op # "move" => mem' = mem
<1>1. Current(t).op # "move" => mem' = mem
  BY DEF Execute, ExecuteRecord, ExecuteWait, ExecuteMove
<1>2. ASSUME Current(t).op = "move" PROVE Effect(mem, mem', Current(t).moves)
  <2>1. ExecuteMove(t)
    BY <1>2 DEF Execute, ExecuteRecord, ExecuteWait
  <2> DEFINE moves == Current(t).moves
  <2>2. mem' = [x \in DOMAIN moves \cup DOMAIN mem |->
                  IF x \notin DOMAIN moves THEN mem[x]
                  ELSE IF moves[x].reduce THEN Reduced(mem[x], mem[moves[x].src])
                  ELSE mem[moves[x].src]]
    BY <2>1 DEF ExecuteMove
  <2>3. Cells \subseteq DOMAIN moves \cup DOMAIN mem
    BY DEF HaveType
  <2> HIDE DEF moves
  <2>4. Effect(mem, mem', moves)
    BY <2>2, <2>3 DEF Effect
  <2> QED BY <2>4 DEF moves
<1> QED BY <1>1, <1>2

-----------------------------------------------------------------------------
(* The memory of all threads *)

Shared(r, c) == Holds(opt, mem, r, c, Received(r, c), At(<<r, c>>).copies, At(<<r, 1>>).copies)

Shares == \A r \in Ranks, c \in 1..Channels : Shared(r, c)

(* What nothing is written for keeps what it has.                          *)
LEMMA FrameElsewhere ==
  ASSUME NEW o \in Options, NEW m, NEW m2, NEW z, NEW c, Elsewhere(m, m2, z, c),
         NEW r \in Ranks, NEW d \in 1..Channels, r # z \/ d # c,
         NEW n, NEW p, NEW g, Holds(o, m, r, d, n, p, g)
  PROVE  Holds(o, m2, r, d, n, p, g)
<1>1. ASSUME NEW b \in Buffers PROVE SameIn(m, m2, r, d, b)
  <2>1. ASSUME NEW s \in Slices PROVE m2[<<r, b, s, d>>] = m[<<r, b, s, d>>]
    <3>1. <<r, b, s, d>> \in Cells
      BY DEF Cells
    <3> QED BY <3>1 DEF Elsewhere
  <2> QED BY <2>1 DEF SameIn
<1>2. PICK h : h = g
  OBVIOUS
<1>3. Holds(o, m2, r, d, n, p, h)
  BY <1>1, <1>2, Frame
<1> QED BY <1>2, <1>3

(* Where the two ranks of a transfer stand in their copies.                *)
LEMMA TransferMarks ==
  ASSUME IInv, Turned, NEW x \in Ranks, NEW c \in 1..Channels, NEW k,
         At(<<x, c>>).step = k, At(<<x, c>>).phase >= 1
  PROVE  /\ ~opt.symmetric => InRound(opt, k, At(<<x, c>>).copies)
         /\ opt.symmetric => At(<<x, 1>>).copies = IF k <= StepNum THEN 0 ELSE 1
<1>1. HaveType /\ Paired /\ opt \in Options /\ <<x, c>> \in Threads
  BY DEF IInv, HaveType, Threads
<1>2. At(<<x, c>>) \in Marks(opt, <<x, c>>)
  BY <1>1, Place
<1>3. ASSUME ~opt.symmetric, NEW l \in Loops(opt), k \in FirstStep(l)..(FirstStep(l + 1) - 1)
      PROVE  At(<<x, c>>).copies = 2 * l - 1
  BY <1>1, <1>2, <1>3, MarkOfRound
<1>4. ASSUME opt.symmetric PROVE At(<<x, 1>>).copies = IF k <= StepNum THEN 0 ELSE 1
  BY <1>1, <1>4, Half
<1> QED BY <1>3, <1>4 DEF InRound

(* A transfer keeps what all threads hold.                                 *)
LEMMA SharesTransfer ==
  ASSUME IInv, Turned, Shares, NEW t \in Threads, Execute(t), At(t).phase = 2,
         NEW r \in Ranks, NEW c \in 1..Channels
  PROVE  Shared(r, c)'
<1>1. /\ HaveType /\ Paired /\ opt \in Options /\ opt' = opt
      /\ 1 \in 1..Channels
  BY Advance, Sizes DEF IInv, HaveType
<1>2. PICK k, d, z, y, moves :
        /\ k = At(t).step /\ d = t[2] /\ z = Target(opt, k, t[1]) /\ y = HandshakeRx[opt][k][z]
        /\ moves = Current(t).moves
  OBVIOUS
<1>3. /\ k \in 1..Steps(opt) /\ d \in 1..Channels
      /\ z \in Ranks /\ y \in Ranks /\ y # z
      /\ Current(t).op = "move" /\ Receipt(opt, k, d, z, moves)
      /\ Received(z, d) = k - 1 /\ Received(y, d) \in {k - 1, k}
      /\ \A x \in {y, z} : At(<<x, d>>).step = k /\ At(<<x, d>>).phase >= 1
  BY <1>2, Transfer
<1>4. PICK o, m, m2 : o = opt /\ m = mem /\ m2 = mem'
  OBVIOUS
<1>5. Effect(m, m2, moves)
  BY <1>1, <1>2, <1>3, <1>4, MoveEffect
<1>6. \A x \in {y, z} :
        /\ ~o.symmetric => InRound(o, k, At(<<x, d>>).copies)
        /\ o.symmetric => At(<<x, 1>>).copies = IF k <= StepNum THEN 0 ELSE 1
  BY <1>3, <1>4, TransferMarks
<1>7. PICK p, g : p = At(<<z, d>>).copies /\ g = At(<<z, 1>>).copies
  OBVIOUS
<1>8. TargetReady(o, m, z, d, k, p, g)
  <2>1. Holds(o, m, z, d, k - 1, p, g)
    BY <1>3, <1>4, <1>7 DEF Shares, Shared
  <2> QED BY <1>6, <1>7, <2>1 DEF TargetReady
<1>9. SourceReady(o, m, y, d, k)
  <2>1. PICK n, q, h : n = Received(y, d) /\ q = At(<<y, d>>).copies /\ h = At(<<y, 1>>).copies
    OBVIOUS
  <2>2. Holds(o, m, y, d, n, q, h)
    BY <1>3, <1>4, <2>1 DEF Shares, Shared
  <2>3. n \in {k - 1, k} /\ (~o.symmetric => InRound(o, k, q)) /\ (o.symmetric => h = IF k <= StepNum THEN 0 ELSE 1)
    BY <1>3, <1>6, <2>1
  <2> QED BY <2>2, <2>3 DEF SourceReady
<1>10. Holds(o, m2, z, d, k, p, g) /\ Elsewhere(m, m2, z, d)
  <2>1. o \in Options /\ k \in 1..Steps(o) /\ y = HandshakeRx[o][k][z] /\ Receipt(o, k, d, z, moves)
    BY <1>1, <1>2, <1>3, <1>4
  <2> QED BY <1>3, <1>5, <1>8, <1>9, <2>1, TransferHolds
<1>11. PICK n2, p2, g2 : n2 = Received(r, c)' /\ p2 = At(<<r, c>>)'.copies /\ g2 = At(<<r, 1>>)'.copies
  OBVIOUS
<1>12. n2 = IF c = d /\ r = z THEN k ELSE Received(r, c)
  BY <1>2, <1>11, Receiving
<1>13. p2 = At(<<r, c>>).copies /\ g2 = At(<<r, 1>>).copies
  <2>1. <<r, c>> \in Threads /\ <<r, 1>> \in Threads
    BY <1>1 DEF Threads
  <2> QED BY <1>11, <2>1, Copying
<1>14. Holds(o, m2, r, c, n2, p2, g2)
  <2>1. CASE c = d /\ r = z
    BY <1>7, <1>10, <1>12, <1>13, <2>1
  <2>2. CASE ~(c = d /\ r = z)
    <3>1. Holds(o, m, r, c, n2, p2, g2)
      BY <1>4, <1>12, <1>13, <2>2 DEF Shares, Shared
    <3>2. o \in Options /\ (r # z \/ c # d)
      BY <1>1, <1>4, <2>2
    <3> QED BY <1>10, <3>1, <3>2, FrameElsewhere
  <2> QED BY <2>1, <2>2
<1> QED BY <1>1, <1>4, <1>11, <1>14 DEF Shared

(* A local copy.                                                           *)
LocalMove(o, t, l, a, task, m, m2, n, p, g) ==
  /\ LocalCopy(o, t, l, a, task) /\ Effect(m, m2, task.moves)
  /\ n = a.step - 1 /\ p = a.copies /\ Holds(o, m, t[1], t[2], n, p, g)

(* A local copy writes to its own thread's cells only.                     *)
LEMMA LocalMoves ==
  ASSUME NEW o \in Options, ~o.symmetric, NEW t \in Threads, NEW l \in Loops(o), NEW a, NEW task,
         NEW m, NEW m2, NEW n, NEW p, NEW g, LocalMove(o, t, l, a, task, m, m2, n, p, g)
  PROVE  Elsewhere(m, m2, t[1], t[2])
<1>1. /\ LocalCopy(o, t, l, a, task) /\ Effect(m, m2, task.moves)
      /\ n = a.step - 1 /\ p = a.copies /\ Holds(o, m, t[1], t[2], n, p, g)
  BY DEF LocalMove
<1>2. PICK g2 : g2 = g
  OBVIOUS
<1>3. LocalMoved(o, t, m, m2, n, p + 1, g2)
  BY <1>1, LocalHolds
<1> QED BY <1>3 DEF LocalMoved

(* A local copy keeps what all threads hold.                               *)
LEMMA SharesCopy ==
  ASSUME IInv, Turned, Shares, NEW t \in Threads, Execute(t), At(t).phase = 0, Current(t).op = "move",
         NEW r \in Ranks, NEW c \in 1..Channels
  PROVE  Shared(r, c)'
<1>1. /\ HaveType /\ Paired /\ opt \in Options /\ opt' = opt
      /\ 1 \in 1..Channels
      /\ Follows(opt, t, At(t), Current(t), At(t)')
  BY Advance, Sizes DEF IInv, HaveType
<1>2. PICK o, m, m2, a, task : o = opt /\ m = mem /\ m2 = mem' /\ a = At(t) /\ task = Current(t)
  OBVIOUS
<1>3. PICK l \in Loops(o) : LocalCopy(o, t, l, a, task)
  <2>1. LocalTask(opt, t, At(t), Current(t), At(t)')
    BY <1>1 DEF Follows, CrewTask, ChannelTask
  <2> QED BY <1>2, <2>1 DEF LocalTask
<1>4. Effect(m, m2, task.moves)
  BY <1>1, <1>2, MoveEffect
<1>5. PICK n2, p2, g2 : n2 = Received(r, c)' /\ p2 = At(<<r, c>>)'.copies /\ g2 = At(<<r, 1>>)'.copies
  OBVIOUS
<1>6. <<r, c>> \in Threads /\ <<r, 1>> \in Threads /\ t = <<t[1], t[2]>> /\ t[1] \in Ranks /\ t[2] \in 1..Channels
  BY <1>1, ThreadFacts DEF Threads
<1>7. PICK n, p, g : n = Received(r, c) /\ p = At(<<r, c>>).copies /\ g = At(<<r, 1>>).copies
  OBVIOUS
<1>8. Holds(o, m, r, c, n, p, g)
  BY <1>2, <1>7 DEF Shares, Shared
<1>9. n2 = n
  BY <1>5, <1>7, Receiving
<1>10. /\ p2 = IF <<r, c>> = t THEN p + 1 ELSE p
       /\ g2 = IF <<r, 1>> = t THEN g + 1 ELSE g
  BY <1>5, <1>6, <1>7, Copying
<1>11. At(<<r, c>>).phase = 0 => n = At(<<r, c>>).step - 1
  BY <1>7, ReceivedIs DEF ReceivedFacts
<1>12. o \in Options
  BY <1>1, <1>2
<1> SUFFICES Holds(o, m2, r, c, n2, p2, g2)
  BY <1>1, <1>2, <1>5 DEF Shared
<1>13. CASE ~o.symmetric
  <2>1. CASE <<r, c>> = t
    <3>1. r = t[1] /\ c = t[2]
      BY <1>6, <2>1
    <3>2. n = a.step - 1 /\ p = a.copies
      BY <1>2, <1>7, <1>11, <2>1
    <3>3. Holds(o, m, t[1], t[2], n, p, g)
      BY <1>8, <3>1
    <3>4. LocalMoved(o, t, m, m2, n, p + 1, g2)
      BY <1>3, <1>4, <1>12, <1>13, <3>2, <3>3, LocalHolds
    <3> QED BY <1>9, <1>10, <2>1, <3>1, <3>4 DEF LocalMoved
  <2>2. CASE <<r, c>> # t
    <3>1. PICK x, d : x = t[1] /\ d = t[2] /\ x \in Ranks /\ d \in 1..Channels /\ t = <<x, d>>
      BY <1>6
    <3>2. PICK n3, p3, g3 : n3 = Received(x, d) /\ p3 = At(<<x, d>>).copies /\ g3 = At(<<x, 1>>).copies
      OBVIOUS
    <3>3. Holds(o, m, x, d, n3, p3, g3)
      BY <1>2, <3>1, <3>2 DEF Shares, Shared
    <3>4. n3 = a.step - 1 /\ p3 = a.copies
      <4>1. At(<<x, d>>).phase = 0 => n3 = At(<<x, d>>).step - 1
        BY <3>1, <3>2, ReceivedIs DEF ReceivedFacts
      <4> QED BY <1>2, <3>1, <3>2, <4>1
    <3>5. Elsewhere(m, m2, x, d)
      <4>1. Holds(o, m, t[1], t[2], n3, p3, g3)
        BY <3>1, <3>3
      <4>2. LocalMove(o, t, l, a, task, m, m2, n3, p3, g3)
        BY <1>3, <1>4, <3>4, <4>1 DEF LocalMove
      <4>3. Elsewhere(m, m2, t[1], t[2])
        BY <1>3, <1>12, <1>13, <4>2, LocalMoves
      <4> QED BY <3>1, <4>3
    <3>6. r # x \/ c # d
      BY <2>2, <3>1
    <3>7. Holds(o, m2, r, c, n, p, g)
      BY <1>8, <1>12, <3>5, <3>6, FrameElsewhere
    <3>8. \A b \in Buffers : SameIn(m2, m2, r, c, b)
      BY DEF SameIn
    <3>9. Holds(o, m2, r, c, n, p, g2)
      BY <1>12, <1>13, <3>7, <3>8, Frame
    <3> QED BY <1>9, <1>10, <2>2, <3>9
  <2> QED BY <2>1, <2>2
<1>14. CASE o.symmetric
  <2>1. /\ t[2] = 1 /\ a = Leaving(o, t, 1, {})
        /\ Effect(m, m2, MySlice(o, l, t[1]))
    BY <1>3, <1>4, <1>14 DEF LocalCopy
  <2>2. PICK x \in Ranks : x = t[1] /\ t = <<x, 1>>
    BY <1>6, <2>1
  <2>3. SliceCopied(o, l, x, m, m2)
    <3>1. Effect(m, m2, MySlice(o, l, x))
      BY <2>1, <2>2
    <3> QED BY <1>3, <1>12, <3>1, MySliceEffect
  <2>4. CASE r = x
    <3>1. At(<<r, c>>).step = StepNum + 1 /\ At(<<r, c>>).phase = 0
      <4>1. At(<<r, 1>>) = Leaving(opt, <<r, 1>>, 1, {})
        BY <1>2, <2>1, <2>2, <2>4
      <4> QED BY <1>1, <1>2, <1>14, <4>1, StandStill
    <3>2. n = StepNum
      <4>1. StepNum \in Nat
        BY Sizes
      <4> QED BY <1>11, <3>1, <4>1
    <3>3. Copies(m, m2, r, Out(o, l), r, In(l), {r} \cap HasData(o, l, c), c, FALSE)
      BY <2>3, <2>4 DEF SliceCopied
    <3>4. Holds(o, m, r, c, StepNum, p, g)
      BY <1>8, <3>2
    <3>5. Holds(o, m2, r, c, StepNum, p2, g2)
      BY <1>3, <1>12, <1>14, <3>3, <3>4, MySliceHolds
    <3> QED BY <1>9, <3>2, <3>5
  <2>5. CASE r # x
    <3>1. p2 = p /\ g2 = g
      BY <1>10, <2>2, <2>5
    <3>2. ASSUME NEW b \in Buffers PROVE SameIn(m, m2, r, c, b)
      <4>1. ASSUME NEW s \in Slices PROVE m2[<<r, b, s, c>>] = m[<<r, b, s, c>>]
        <5>1. <<r, b, s, c>> \in Cells
          BY DEF Cells
        <5> QED BY <2>3, <2>5, <5>1 DEF SliceCopied
      <4> QED BY <4>1 DEF SameIn
    <3>3. Holds(o, m2, r, c, n, p, g2)
      BY <1>8, <1>12, <3>1, <3>2, Frame
    <3> QED BY <1>9, <3>1, <3>3
  <2> QED BY <2>4, <2>5
<1> QED BY <1>13, <1>14

(* Each step of a thread keeps what all threads hold.                      *)
LEMMA SharesStep ==
  ASSUME IInv, Turned, Shares, NEW t \in Threads, Execute(t), NEW r \in Ranks, NEW c \in 1..Channels
  PROVE  Shared(r, c)'
<1>1. /\ HaveType /\ opt' = opt
      /\ Follows(opt, t, At(t), Current(t), At(t)')
      /\ 1 \in 1..Channels
  BY Advance, Sizes DEF IInv
<1>2. Current(t).op = "move" => At(t).phase = 0 \/ At(t).phase = 2
  BY <1>1 DEF Follows, CrewTask, LocalTask, ChannelTask
<1>3. At(t).phase = 2 => Current(t).op = "move"
  BY Transfer
<1>4. CASE At(t).phase = 2
  BY <1>4, SharesTransfer
<1>5. CASE At(t).phase = 0 /\ Current(t).op = "move"
  BY <1>5, SharesCopy
<1>6. CASE Current(t).op # "move"
  <2>1. <<r, c>> \in Threads /\ <<r, 1>> \in Threads
    BY <1>1 DEF Threads
  <2>2. At(<<r, c>>)'.copies = At(<<r, c>>).copies /\ At(<<r, 1>>)'.copies = At(<<r, 1>>).copies
    BY <1>6, <2>1, Copying
  <2>3. Received(r, c)' = Received(r, c)
    BY <1>3, <1>6, Receiving
  <2>4. mem' = mem
    BY <1>1, <1>6, MoveEffect
  <2>5. Shared(r, c)
    BY DEF Shares
  <2> QED BY <1>1, <2>2, <2>3, <2>4, <2>5 DEF Shared
<1> QED BY <1>2, <1>4, <1>5, <1>6

(* At the beginning a thread has its input and has made no copy.           *)
LEMMA SharesInit == Init => Turned /\ Shares
<1> SUFFICES ASSUME Init, NEW r \in Ranks, NEW c \in 1..Channels PROVE Shared(r, c)
  BY TurnedInit DEF Shares
<1>1. HaveType /\ opt \in Options /\ \A t \in Threads : At(t) = Rest(opt, t, 0)
  BY InitFacts DEF HaveType
<1>2. \A u \in Threads : At(u).step = 1 /\ At(u).phase = 0 /\ At(u).copies = 0
  <2>1. LegStart(opt, 1) = 1
    <3>1. LegSteps(opt) \in Nat
      <4>1. 1 \in 1..Legs(opt)
        BY <1>1, Calls, RoundLegs, FirstAndLast, Sizes DEF Legs
      <4> QED BY <1>1, <4>1, LegFacts
    <3> QED BY <3>1 DEF LegStart
  <2>2. ASSUME NEW u \in Threads PROVE At(u).step = 1 /\ At(u).phase = 0 /\ At(u).copies = 0
    <3>1. At(u) = Entering(opt, u, 1, {})
      BY <1>1 DEF Rest
    <3> QED BY <2>1, <3>1 DEF Entering, Mark, Copied
  <2> QED BY <2>2
<1>3. <<r, c>> \in Threads /\ <<r, 1>> \in Threads
  BY Sizes DEF Threads
<1>4. Received(r, c) = 0
  <2>1. At(<<r, c>>).step = 1
    BY <1>2, <1>3
  <2>2. 1 \in 1..Steps(opt)
    BY <1>1, Calls
  <2>3. ~Arrived(r, c, 1)
    <3>1. Mover(opt, 1, r) \in Ranks
      BY <1>1, <2>2, Peers DEF Mover
    <3>2. <<Mover(opt, 1, r), c>> \in Threads
      BY <3>1 DEF Threads
    <3> QED BY <1>2, <3>2 DEF Arrived, Past
  <2> QED BY <2>1, <2>3 DEF Received
<1>5. PICK o, m : o = opt /\ m = mem
  OBVIOUS
<1>6. \A l \in 1..MaxRounds : InKept(m, r, c, l)
  <2>1. ASSUME NEW l \in 1..MaxRounds, NEW s \in Slices PROVE m[<<r, In(l), s, c>>] = {<<r, l>>}
    <3> DEFINE x == <<r, In(l), s, c>>
    <3>1. x \in Cells /\ x[1] = r /\ x[2] = In(l) /\ x[2][2] = l
      BY DEF Cells, Buffers, In
    <3> HIDE DEF x
    <3>2. m[x] = {<<x[1], x[2][2]>>}
      BY <1>5, <3>1 DEF Init
    <3> QED BY <3>1, <3>2 DEF x
  <2> QED BY <2>1 DEF InKept
<1>7. ASSUME NEW l \in Loops(o) PROVE HoldsRound(o, m, r, c, l, 0, 0, 0)
  <2> DEFINE f == FirstStep(l)
             S == StepNum
  <2>1. /\ l \in Nat \ {0} /\ l \in 1..MaxRounds /\ f \in Nat \ {0} /\ S \in Nat \ {0}
        /\ o.symmetric => l = 1 /\ f = 1
    BY <1>1, <1>5, RoundFacts
  <2>2. 0 # 2 * l - 1 /\ ~(0 >= 2 * l) /\ ~(0 >= f + 2 * S - 1)
    BY <2>1
  <2>3. \A e \in 0..S : 0 = f - 1 + e => e = 0
    BY <2>1
  <2>4. o.symmetric => ScatterShare(o, m, r, c, l, 0)
    <3> SUFFICES ASSUME o.symmetric, NEW s \in HasData(o, l, c)
                 PROVE  m[<<r, ReduceBuffer(o, l), s, c>>] = SumOf(s, Distant(r, s), Distant(r, s) + 2^0, l)
      BY DEF ScatterShare, Sent
    <3>1. s \in Slices /\ l \in Int /\ 2^0 = 1
      BY <2>1, HasDataType
    <3>2. m[<<r, ReduceBuffer(o, l), s, c>>] = {<<r, l>>}
      BY <1>6, <2>1, <3>1 DEF InKept, ReduceBuffer
    <3> QED BY <3>1, <3>2, SumOfFacts
  <2> HIDE DEF f, S
  <2>5. o.symmetric => \A e \in 0..S : 0 = f - 1 + e => ScatterShare(o, m, r, c, l, e)
    BY <2>3, <2>4
  <2> QED BY <2>2, <2>5 DEF HoldsRound, f, S
<1>8. Holds(o, m, r, c, 0, 0, 0)
  BY <1>6, <1>7 DEF Holds, KeptRound
<1> QED BY <1>2, <1>3, <1>4, <1>5, <1>8 DEF Shared

(* What each thread of each rank has in memory, at any time.               *)
THEOREM MemoryInvariance == Spec => [](IInv /\ Turned /\ Shares)
<1>1. Init => Turned /\ Shares
  BY SharesInit
<1>2. IInv /\ Turned /\ Shares /\ [Next]_vars => Turned' /\ Shares'
  <2> SUFFICES ASSUME IInv, Turned, Shares, [Next]_vars PROVE Turned' /\ Shares'
    OBVIOUS
  <2>1. CASE UNCHANGED vars
    <3>1. opt' = opt /\ pc' = pc /\ notified' = notified /\ mem' = mem
      BY <2>1 DEF vars
    <3>2. \A t : At(t)' = At(t)
      BY <3>1 DEF At
    <3>3. Turned'
      BY <3>1, <3>2 DEF Turned, TurnedAt
    <3>4. ASSUME NEW r \in Ranks, NEW c \in 1..Channels PROVE Shared(r, c)'
      <4>1. Received(r, c)' = Received(r, c)
        BY <3>1, <3>2 DEF Received, Arrived, Past
      <4>2. Shared(r, c)
        BY DEF Shares
      <4> QED BY <3>1, <3>2, <4>1, <4>2 DEF Shared
    <3> QED BY <3>3, <3>4 DEF Shares
  <2>2. ASSUME NEW t \in Threads, Execute(t) PROVE Turned' /\ Shares'
    <3>1. ASSUME NEW r \in Ranks, NEW i \in 2..Channels PROVE TurnedAt(r, i)'
      BY <2>2, TurnedStep DEF IInv, Turned
    <3>2. ASSUME NEW r \in Ranks, NEW c \in 1..Channels PROVE Shared(r, c)'
      BY <2>2, SharesStep
    <3> QED BY <3>1, <3>2 DEF Turned, Shares
  <2> QED BY <2>1, <2>2 DEF Next
<1> QED BY <1>1, <1>2, Invariance, PTL DEF Spec

(* InputKept: with separate buffers no AllReduce changes its caller's      *)
(* input.                                                                  *)
THEOREM InputSafe == Spec => []InputKept
<1>1. IInv /\ Turned /\ Shares => InputKept
  <2> SUFFICES ASSUME Shares, ~opt.symmetric, ~opt.inPlace, NEW x \in Cells, x[2][1] = "in"
               PROVE  mem[x] = {<<x[1], x[2][2]>>}
    BY DEF InputKept
  <2>1. PICK r \in Ranks, b \in Buffers, s \in Slices, c \in 1..Channels : x = <<r, b, s, c>>
    BY DEF Cells
  <2>2. PICK l \in 1..MaxRounds : b = In(l)
    BY <2>1 DEF Buffers, In, Ccl
  <2>3. Shared(r, c)
    BY DEF Shares
  <2>4. InKept(mem, r, c, l)
    BY <2>3 DEF Shared, Holds, KeptRound
  <2>5. mem[<<r, b, s, c>>] = {<<r, l>>}
    BY <2>2, <2>4 DEF InKept
  <2> QED BY <2>1, <2>2, <2>5 DEF In
<1> QED BY <1>1, MemoryInvariance, PTL

-----------------------------------------------------------------------------
(* The rounds *)

(* Without symmetric memory the turns, the steps and the copies of a       *)
(* thread say alike that it has left a round.                              *)
LEMMA LeftRound ==
  ASSUME NEW o \in Options, ~o.symmetric, NEW t \in Threads, NEW a \in Marks(o, t),
         NEW l \in Loops(o)
  PROVE  /\ \A i \in Crew(t) : a.turns[i] >= 2 * l => a.step >= FirstStep(l + 1) /\ a.copies >= 2 * l
         /\ \A i, j \in Crew(t) : a.turns[i] > 2 * l => a.turns[j] >= 2 * l
         /\ a.phase >= 1 /\ a.step >= FirstStep(l + 1) =>
              a.copies >= 2 * l /\ \A i \in Crew(t) : a.turns[i] >= 2 * l
<1>1. PICK q \in 1..Legs(o) :
           \/ /\ a.phase = 0 /\ a.step = LegStart(o, q)
              /\ \A i \in Crew(t) : a.turns[i] \in {2 * q - 2, 2 * q - 1}
              /\ a.copies = Copied(o, t, q)
           \/ /\ a.phase = 0 /\ a.step = LegStart(o, q + 1)
              /\ \A i \in Crew(t) : a.turns[i] \in {2 * q - 1, 2 * q}
              /\ a.copies = IF o.symmetric THEN Copied(o, t, q) ELSE 2 * q
           \/ /\ a.step \in LegStart(o, q)..LegStart(o, q + 1)
              /\ a.step = LegStart(o, q + 1) => a.phase = 0
              /\ \A i \in Crew(t) : a.turns[i] = 2 * q - 1
              /\ a.copies = IF o.symmetric THEN Copied(o, t, q) ELSE 2 * q - 1
  BY MarkShape
<1> DEFINE f == FirstStep(l + 1)
           b == LegStart(o, q)
           e == LegStart(o, q + 1)
<1>2. q \in Nat /\ l \in Nat /\ q >= 1 /\ l >= 1 /\ Copied(o, t, q) = 2 * q - 2
  BY LegFacts, Calls DEF Copied
<1>3. l \in 1..Legs(o) /\ f = LegStart(o, l + 1)
  BY Calls, RoundLegs DEF Legs, GatherLeg
<1>4. f \in Int /\ b \in Int /\ e \in Int /\ b < e /\ a.phase \in Nat /\ a.step \in Nat
  <2>1. LegSteps(o) \in Nat \ {0} /\ b \in Int /\ e = b + LegSteps(o)
    BY LegFacts
  <2>2. f \in Int
    BY <1>3, LegFacts
  <2>3. a.phase \in Nat /\ a.step \in Nat
    BY MarkRange
  <2> HIDE DEF b, e, f
  <2> QED BY <2>1, <2>2, <2>3
<1>5. (l < q => f <= b) /\ (q = l => e = f) /\ (q < l => e <= f)
  <2>1. l < q => f <= b
    BY <1>3, LegOrder
  <2>2. ASSUME q < l PROVE e <= f
    <3>1. e <= LegStart(o, l)
      BY <1>3, <2>2, LegOrder
    <3>2. LegSteps(o) \in Nat /\ LegStart(o, l) \in Int /\ f = LegStart(o, l) + LegSteps(o)
      BY <1>3, LegFacts
    <3> HIDE DEF e, f
    <3> QED BY <1>4, <3>1, <3>2
  <2> QED BY <1>3, <2>1, <2>2
<1> HIDE DEF f, b, e
<1>6. \/ /\ a.phase = 0 /\ a.step = b /\ a.copies = 2 * q - 2
         /\ \A i \in Crew(t) : a.turns[i] \in {2 * q - 2, 2 * q - 1}
      \/ /\ a.phase = 0 /\ a.step = e /\ a.copies = 2 * q
         /\ \A i \in Crew(t) : a.turns[i] \in {2 * q - 1, 2 * q}
      \/ /\ a.step \in b..e /\ (a.step = e => a.phase = 0) /\ a.copies = 2 * q - 1
         /\ \A i \in Crew(t) : a.turns[i] = 2 * q - 1
  BY <1>1, <1>2 DEF b, e
<1>7. ASSUME NEW i \in Crew(t), a.turns[i] >= 2 * l PROVE a.step >= f /\ a.copies >= 2 * l
  BY <1>2, <1>4, <1>5, <1>6, <1>7
<1>8. ASSUME NEW i \in Crew(t), NEW j \in Crew(t), a.turns[i] > 2 * l PROVE a.turns[j] >= 2 * l
  BY <1>2, <1>6, <1>8
<1>9. ASSUME a.phase >= 1, a.step >= f
      PROVE  a.copies >= 2 * l /\ \A i \in Crew(t) : a.turns[i] >= 2 * l
  <2>1. q > l /\ a.copies = 2 * q - 1 /\ \A i \in Crew(t) : a.turns[i] = 2 * q - 1
    BY <1>2, <1>4, <1>5, <1>6, <1>9
  <2>2. 2 * q - 1 >= 2 * l
    BY <1>2, <2>1
  <2> QED BY <2>1, <2>2
<1> QED BY <1>7, <1>8, <1>9 DEF f

(* All threads of a rank have left a round, but for what follows their     *)
(* last finish.                                                            *)
RankLeft(r, l) ==
  \A c \in 1..Channels :
    At(<<r, c>>).step >= FirstStep(l + 1) /\ At(<<r, c>>).copies >= 2 * l

(* One of them that is at work in a later round shows it.                  *)
LEMMA WorkerLeft ==
  ASSUME HaveType, Paired, Turned, ~opt.symmetric, NEW l \in Loops(opt),
         NEW r \in Ranks, NEW c \in 1..Channels,
         Manned(<<r, c>>, At(<<r, c>>)),
         At(<<r, c>>).step >= FirstStep(l + 1), At(<<r, c>>).copies >= 2 * l,
         \A i \in Crew(<<r, c>>) : At(<<r, c>>).turns[i] >= 2 * l
  PROVE  RankLeft(r, l)
<1> DEFINE R == <<r, 1>>
           P == <<r, c>>
<1>1. opt \in Options /\ l \in Nat
  BY Calls DEF HaveType
<1>2. R \in Threads /\ P \in Threads /\ R[2] = 1 /\ P[2] = c /\ Crew(R) = 2..Channels
  BY Sizes DEF Threads, Crew
<1>3. At(R) \in Marks(opt, R) /\ At(P) \in Marks(opt, P)
  BY <1>2, Place
<1>4. /\ At(R).step >= FirstStep(l + 1) /\ At(R).copies >= 2 * l
      /\ \A i \in 2..Channels : At(R).turns[i] >= 2 * l
  <2>1. CASE c = 1
    BY <1>2, <2>1
  <2>2. CASE c # 1
    <3>1. c \in 2..Channels /\ c \in Crew(P) /\ c \in At(P).crew
      BY <1>2, <2>2, ThreadFacts DEF Crew, Manned
    <3>2. At(R).turns[c] = At(P).turns[c]
      BY <3>1, TurnsAgree
    <3>3. At(P).turns[c] > 2 * l
      <4>1. PICK h \in Nat : At(P).turns[c] = 2 * h + 1
        BY <1>1, <1>2, <1>3, <3>1, Parity
      <4>2. At(P).turns[c] >= 2 * l
        BY <3>1
      <4> HIDE DEF P
      <4> QED BY <1>1, <4>1, <4>2
    <3>4. At(R).turns[c] > 2 * l /\ At(R).turns[c] >= 2 * l
      <4>1. At(R).turns[c] \in Nat
        BY <3>1, TurnsAgree
      <4> HIDE DEF R, P
      <4> QED BY <1>1, <3>2, <3>3, <4>1
    <3>5. c \in Crew(R)
      BY <1>2, <3>1
    <3> HIDE DEF R, P
    <3>6. At(R).step >= FirstStep(l + 1) /\ At(R).copies >= 2 * l
      BY <1>1, <1>2, <1>3, <3>4, <3>5, LeftRound
    <3>7. \A i \in Crew(R) : At(R).turns[i] >= 2 * l
      BY <1>1, <1>2, <1>3, <3>4, <3>5, LeftRound
    <3> QED BY <1>2, <3>6, <3>7
  <2> QED BY <2>1, <2>2
<1>5. ASSUME NEW d \in 1..Channels
      PROVE  At(<<r, d>>).step >= FirstStep(l + 1) /\ At(<<r, d>>).copies >= 2 * l
  <2>1. CASE d = 1
    BY <1>4, <2>1
  <2>2. CASE d # 1
    <3> DEFINE W == <<r, d>>
    <3>1. W \in Threads /\ W[2] = d /\ d \in 2..Channels /\ d \in Crew(W)
      <4>1. W \in Threads /\ W[2] = d
        BY DEF Threads
      <4> QED BY <2>2, <4>1, ThreadFacts DEF Crew
    <3>2. At(W) \in Marks(opt, W)
      BY <3>1, Place
    <3>3. At(W).turns[d] >= 2 * l
      <4>1. At(R).turns[d] >= 2 * l
        BY <1>4, <3>1
      <4> QED BY <1>1, <3>1, <4>1, TurnsAgree
    <3> HIDE DEF W
    <3>4. At(W).step >= FirstStep(l + 1) /\ At(W).copies >= 2 * l
      BY <1>1, <3>1, <3>2, <3>3, LeftRound
    <3> QED BY <3>4 DEF W
  <2> QED BY <2>1, <2>2
<1> QED BY <1>5 DEF RankLeft

(* A rank whose memory is touched in a later round has left this one.      *)
LEMMA TouchedLeft ==
  ASSUME IInv, Turned, NEW t \in Threads, Moving(t), NEW l \in Loops(opt),
         pc[t] > RoundEnd[opt][t][l], NEW x \in TouchedBy(Current(t).moves)
  PROVE  ~opt.symmetric /\ RankLeft(x[1], l)
<1>1. /\ HaveType /\ Paired /\ opt \in Options
      /\ l \in Nat \ {0} /\ l \in 0..Len(opt.counts)
  BY Calls DEF IInv, HaveType
<1>2. /\ t = <<t[1], t[2]>> /\ t[1] \in Ranks /\ t[2] \in 1..Channels
      /\ At(t) \in Marks(opt, t)
  BY <1>1, ThreadFacts, Place
<1>3. Later(t, Rest(opt, t, l), At(t))
  BY <1>1, Ending
<1>4. Rest(opt, t, l).step = FirstStep(l + 1) /\ Rest(opt, t, l) \in Marks(opt, t)
  BY <1>1, RestFacts
<1>5. At(t).step >= FirstStep(l + 1)
  <2>1. At(t).step \in Int /\ Rest(opt, t, l).step \in Int
    BY <1>2, <1>4, MarkRange
  <2> QED BY <1>3, <1>4, <2>1 DEF Later
<1>6. Manned(t, At(t)) /\ (LocalReach(t, x) \/ ChannelReach(t, x))
  BY <1>1, Reach
<1>7. ~opt.symmetric
  <2> SUFFICES ASSUME opt.symmetric PROVE FALSE
    OBVIOUS
  <2>1. /\ l = 1 /\ FirstStep(l + 1) = FirstStep(l) + 2 * StepNum
        /\ LegStart(opt, 2) = FirstStep(l) + StepNum
    BY <1>1, RoundLegs
  <2>2. StepNum \in Nat \ {0} /\ FirstStep(l) = 1 /\ Steps(opt) = 2 * StepNum
    <3>1. Len(opt.counts) = 1
      BY <1>1, NHRAssumption DEF LegalOption
    <3> QED BY <2>1, <3>1, Sizes DEF FirstStep, Steps
  <2>3. At(t).step >= 2 * StepNum + 1 /\ At(t).step \in Int
    <3>1. At(t).step \in Int
      BY <1>2, MarkRange
    <3> QED BY <1>5, <2>1, <2>2, <3>1
  <2>4. CASE ChannelReach(t, x)
    BY <2>2, <2>3, <2>4 DEF ChannelReach
  <2>5. CASE LocalReach(t, x)
    <3>1. Follows(opt, t, At(t), Current(t), Way(opt, t)[pc[t] + 1]) /\ Current(t).op = "move"
      BY <1>1, Place DEF Moving
    <3>2. At(t).phase = 0
      BY <2>5 DEF LocalReach
    <3>3. LocalTask(opt, t, At(t), Current(t), Way(opt, t)[pc[t] + 1])
      BY <3>1, <3>2 DEF Follows, CrewTask, ChannelTask
    <3>4. At(t) = Leaving(opt, t, 1, {})
      BY <3>3 DEF LocalTask, LocalCopy
    <3>5. At(t).step = LegStart(opt, 2)
      BY <3>4 DEF Leaving, Mark
    <3> QED BY <2>1, <2>2, <2>3, <3>5
  <2> QED BY <1>6, <2>4, <2>5
<1>8. /\ At(t).copies >= 2 * l
      /\ \A i \in Crew(t) : At(t).turns[i] >= 2 * l
  <2>1. Rest(opt, t, l) = Leaving(opt, t, l, {})
    BY <1>1, <1>7 DEF Rest
  <2>2. /\ Rest(opt, t, l).copies = 2 * l
        /\ \A i \in Crew(t) : Rest(opt, t, l).turns[i] = 2 * l
    BY <1>7, <2>1 DEF Leaving, Mark
  <2> QED BY <1>3, <2>2 DEF Later
<1>9. CASE x[1] = t[1]
  <2>1. RankLeft(t[1], l)
    BY <1>1, <1>2, <1>5, <1>6, <1>7, <1>8, WorkerLeft
  <2> QED BY <1>7, <1>9, <2>1
<1>10. CASE x[1] # t[1]
  <2> DEFINE p == DataPeer(opt, At(t).step, t[1])
             P == <<p, t[2]>>
  <2>1. ChannelReach(t, x) /\ At(t).phase = 2 /\ At(t).step \in 1..Steps(opt) /\ x[1] = p
    BY <1>6, <1>10 DEF LocalReach, ChannelReach
  <2>2. p \in Ranks
    BY <1>1, <1>2, <2>1, Peers
  <2>3. P \in Threads
    BY <1>2, <2>2 DEF Threads
  <2>4. At(P).step = At(t).step /\ At(P).phase >= 1
    <3>1. At(<<t[1], t[2]>>).phase \in 2..3
      BY <1>2, <2>1
    <3>2. /\ At(<<DataPeer(opt, At(<<t[1], t[2]>>).step, t[1]), t[2]>>).step = At(<<t[1], t[2]>>).step
          /\ At(<<DataPeer(opt, At(<<t[1], t[2]>>).step, t[1]), t[2]>>).phase >= 1
      BY <1>2, <3>1, PeerStands
    <3> QED BY <1>2, <3>2
  <2>5. Manned(P, At(P)) /\ At(P) \in Marks(opt, P)
    BY <1>1, <2>3, <2>4, Working, Place
  <2>6. At(P).step >= FirstStep(l + 1)
    BY <1>5, <2>4
  <2>7. At(P).copies >= 2 * l /\ \A i \in Crew(P) : At(P).turns[i] >= 2 * l
    <3> HIDE DEF P
    <3> QED BY <1>1, <1>7, <2>3, <2>4, <2>5, <2>6, LeftRound
  <2>8. RankLeft(p, l)
    <3> HIDE DEF p
    <3> QED BY <1>1, <1>2, <1>7, <2>2, <2>5, <2>6, <2>7, WorkerLeft
  <2> QED BY <1>7, <2>1, <2>8
<1> QED BY <1>9, <1>10

(* No move of a round touches the memory of a rank that has left it.       *)
LEMMA LeftAlone ==
  ASSUME IInv, ~opt.symmetric, NEW u \in Threads, NEW l \in Loops(opt),
         NEW i \in pc[u]..RoundEnd[opt][u][l], Prog(u)[i].op = "move",
         NEW x \in TouchedBy(Prog(u)[i].moves), RankLeft(x[1], l)
  PROVE  FALSE
<1> DEFINE n == Len(Program[opt][u])
           e == RoundEnd[opt][u][l]
           w == Way(opt, u)
           a == w[i]
           b == w[i + 1]
           z == Rest(opt, u, l)
           f == FirstStep(l + 1)
           c == u[2]
           task == Prog(u)[i]
<1>1. /\ HaveType /\ InStep /\ opt \in Options
      /\ l \in Nat \ {0} /\ l \in 0..Len(opt.counts)
  BY Calls DEF IInv, HaveType
<1>2. u = <<u[1], c>> /\ u[1] \in Ranks /\ c \in 1..Channels
  BY ThreadFacts
<1>3. /\ e \in 0..n /\ w[e + 1] = z /\ n \in Nat /\ pc[u] \in 1..(n + 1)
      /\ \A j \in 1..n : Follows(opt, u, w[j], Program[opt][u][j], w[j + 1])
  <2>1. Program[opt][u] \in Seq(Tasks) /\ e \in 0..n /\ w[e + 1] = z
    BY <1>1, ProgramRun
  <2>2. \A j \in 1..n : Follows(opt, u, w[j], Program[opt][u][j], w[j + 1])
    BY <1>1, ProgramRun DEF Marking
  <2> QED BY <1>1, <2>1, <2>2, LenProperties DEF HaveType, Prog
<1>4. /\ i \in 1..n /\ i \in 1..(n + 1) /\ i + 1 \in 1..(n + 1) /\ e + 1 \in 1..(n + 1)
      /\ pc[u] <= i /\ i + 1 <= e + 1
  <2>1. i \in pc[u]..e
    OBVIOUS
  <2> HIDE DEF n, e
  <2> QED BY <1>3, <2>1
<1>5. Follows(opt, u, a, task, b)
  BY <1>3, <1>4 DEF Prog
<1>6. Later(u, At(u), a) /\ At(u) \in Marks(opt, u) /\ a \in Marks(opt, u)
  <2> HIDE DEF n
  <2> QED BY <1>1, <1>3, <1>4, WayLater DEF At, n
<1>7. Later(u, b, z) /\ b \in Marks(opt, u)
  <2>1. Later(u, w[i + 1], w[e + 1]) /\ w[i + 1] \in Marks(opt, u)
    <3> HIDE DEF e
    <3> QED BY <1>1, <1>4, WayLater
  <2> QED BY <1>3, <2>1
<1>8. z.step = f /\ z.phase = 0 /\ z.copies = 2 * l
  <2>1. z.step = f /\ z.phase = 0
    BY <1>1, RestFacts
  <2>2. z = Leaving(opt, u, l, {})
    BY <1>1 DEF Rest
  <2> QED BY <2>1, <2>2 DEF Leaving, Mark
<1>9. /\ a.step \in Int /\ a.phase \in Int /\ a.copies \in Int /\ b.phase \in Int
      /\ At(u).step \in Int /\ At(u).phase \in Int /\ At(u).copies \in Int /\ f \in Int
  <2>1. z \in Marks(opt, u)
    BY <1>1, RestFacts
  <2>2. f \in Int
    BY <1>8, <2>1, MarkRange
  <2> QED BY <1>6, <1>7, <2>2, MarkRange
<1>10. CASE LocalTask(opt, u, a, task, b)
  <2>1. x[1] = u[1] /\ b.copies = a.copies + 1
    BY <1>10 DEF LocalTask, Mark
  <2>2. At(<<u[1], c>>).copies >= 2 * l
    BY <1>2, <2>1 DEF RankLeft
  <2>3. At(u).copies >= 2 * l
    BY <1>2, <2>2
  <2>4. At(u).copies <= a.copies /\ b.copies <= 2 * l
    BY <1>6, <1>7, <1>8 DEF Later
  <2> HIDE DEF a, b
  <2> QED BY <1>1, <1>9, <2>1, <2>3, <2>4
<1>11. CASE ChannelTask(opt, u, a, task, b)
  <2> DEFINE k == a.step
             q == DataPeer(opt, k, u[1])
  <2>1. a.phase = 2 /\ b.step = k /\ b.phase = 3 /\ x[1] \in {u[1], q} /\ k \in 1..Steps(opt)
    <3>1. k <= Steps(opt) /\ a.phase = 2 /\ b = Mark(a.crew, k, 3, a.turns, a.copies) /\ x[1] \in {u[1], q}
      BY <1>11 DEF ChannelTask
    <3> QED BY <1>1, <1>6, <3>1, MarkRange, Calls DEF Mark
  <2>2. k < f
    <3> HIDE DEF a, b, z, f
    <3> QED BY <1>7, <1>8, <1>9, <2>1 DEF Later
  <2>3. At(u).step < k \/ (At(u).step = k /\ At(u).phase <= 2)
    BY <1>6, <2>1 DEF Later
  <2>4. At(<<x[1], c>>).step > k
    <3>1. At(<<x[1], c>>).step >= f
      BY <1>2 DEF RankLeft
    <3>2. At(<<x[1], c>>).step \in Int
      <4>1. x[1] \in Ranks
        BY <1>1, <1>2, <2>1, Peers
      <4>2. <<x[1], c>> \in Threads
        BY <1>2, <4>1 DEF Threads
      <4>3. At(<<x[1], c>>) \in Marks(opt, <<x[1], c>>)
        BY <1>1, <4>2, Place
      <4> QED BY <4>3, MarkRange
    <3> HIDE DEF f, a
    <3> QED BY <1>9, <2>2, <3>1, <3>2
  <2>5. CASE x[1] = u[1]
    <3>1. At(u).step > k
      BY <1>2, <2>4, <2>5
    <3> HIDE DEF a
    <3> QED BY <1>9, <2>3, <3>1
  <2>6. CASE x[1] = q
    <3>1. q \in Ranks /\ AckPeer(opt, k, q) = u[1]
      BY <1>1, <1>2, <2>1, Peers
    <3>2. InStepAt(q, u[1], c, k)
      BY <1>1, <1>2, <2>1, <3>1 DEF InStep
    <3>3. Past(<<q, c>>, k, 4)
      BY <2>4, <2>6 DEF Past
    <3>4. Past(u, k, 3)
      BY <1>2, <3>2, <3>3 DEF InStepAt
    <3> HIDE DEF a
    <3> QED BY <1>9, <2>3, <3>4 DEF Past
  <2> QED BY <2>1, <2>5, <2>6
<1>12. CASE CrewTask(u, a, task, b)
  BY <1>12 DEF CrewTask
<1> QED BY <1>5, <1>10, <1>11, <1>12 DEF Follows

(* What a move touches, by rank.                                           *)
LEMMA TouchedRanks ==
  ASSUME NEW task, NEW r \in Touched(task)
  PROVE  \E x \in TouchedBy(task.moves) : x[1] = r
BY DEF Touched, TouchedBy

(* NoMemoryConflict: no copy or transfer of KernelRun touches a cell that  *)
(* one running at the same time writes; and none touches the memory of a   *)
(* rank while one of an earlier round is still to come there.              *)
THEOREM NoDataRace == Spec => []NoMemoryConflict
<1>1. IInv => CellsApart
  <2> SUFFICES ASSUME IInv, NEW t \in Threads, NEW u \in Threads, t # u, Moving(t), Moving(u),
                      NEW x \in Written(t) \cap (Written(u) \cup Read(u))
               PROVE  FALSE
    BY DEF CellsApart
  <2>1. x \in TouchedBy(Current(t).moves) /\ x \in TouchedBy(Current(u).moves)
    BY DEF Written, Read, TouchedBy
  <2>2. /\ Manned(t, At(t)) /\ (LocalReach(t, x) \/ ChannelReach(t, x))
        /\ Manned(u, At(u)) /\ (LocalReach(u, x) \/ ChannelReach(u, x))
    BY <2>1, Reach DEF IInv
  <2> QED BY <2>2, LocalApart, ChannelApart
<1>2. IInv /\ Turned => RoundsInOrder
  <2> SUFFICES ASSUME IInv, Turned, NEW t \in Threads, NEW u \in Threads, NEW l \in Loops(opt),
                      Moving(t), pc[t] > RoundEnd[opt][t][l],
                      NEW i \in pc[u]..RoundEnd[opt][u][l], Prog(u)[i].op = "move",
                      NEW r \in Touched(Prog(u)[i]) \cap Touched(Current(t))
               PROVE  FALSE
    BY DEF RoundsInOrder
  <2>1. PICK x \in TouchedBy(Current(t).moves) : x[1] = r
    BY TouchedRanks
  <2>2. PICK y \in TouchedBy(Prog(u)[i].moves) : y[1] = r
    BY TouchedRanks
  <2>3. ~opt.symmetric /\ RankLeft(r, l)
    BY <2>1, TouchedLeft
  <2> QED BY <2>2, <2>3, LeftAlone
<1> QED BY <1>1, <1>2, MemoryInvariance, PTL DEF NoMemoryConflict

-----------------------------------------------------------------------------
(* What is delivered *)

(* A rank that has passed a round has its sum.                             *)
LEMMA Delivers ==
  ASSUME IInv, Turned, Shares, NEW r \in Ranks, NEW l \in Loops(opt), Finished(r, l)
  PROVE  Delivered(r, l)
<1> SUFFICES ASSUME NEW c \in 1..Channels, NEW s \in HasData(opt, l, c)
             PROVE  mem[<<r, Out(opt, l), s, c>>] = Sum(l)
  BY DEF Delivered
<1>1. HaveType /\ Paired /\ opt \in Options /\ <<r, c>> \in Threads
  BY DEF IInv, HaveType, Threads
<1>2. /\ ~opt.symmetric => At(<<r, c>>).copies >= 2 * l
      /\ opt.symmetric => At(<<r, c>>).step = 2 * StepNum + 1 /\ At(<<r, 1>>).copies >= 1
  BY <1>1, Passed DEF Finished
<1>3. PICK o, m, n, p, g : /\ o = opt /\ m = mem /\ n = Received(r, c)
                           /\ p = At(<<r, c>>).copies /\ g = At(<<r, 1>>).copies
  OBVIOUS
<1>4. Holds(o, m, r, c, n, p, g)
  BY <1>3 DEF Shares, Shared
<1>5. HoldsRound(o, m, r, c, l, n, p, g)
  BY <1>3, <1>4 DEF Holds
<1>6. CASE ~o.symmetric
  <2>1. OutWritten(o, m, r, c, l)
    BY <1>2, <1>3, <1>5, <1>6 DEF HoldsRound
  <2> QED BY <1>3, <2>1 DEF OutWritten
<1>7. CASE o.symmetric
  <2>1. /\ l = 1 /\ FirstStep(l) = 1 /\ Steps(o) = 2 * StepNum /\ StepNum \in Nat \ {0}
    BY <1>1, <1>3, <1>7, RoundFacts
  <2>2. n = 2 * StepNum
    <3>1. n \in 0..Steps(o) /\ n \in {At(<<r, c>>).step - 1, At(<<r, c>>).step}
      BY <1>3, ReceivedIs DEF ReceivedFacts
    <3> QED BY <1>2, <1>3, <1>7, <2>1, <3>1
  <2>3. n = FirstStep(l) + StepNum - 1 + StepNum /\ StepNum \in 0..StepNum
    BY <2>1, <2>2
  <2>4. GatherShare(o, m, r, c, l, StepNum)
    <3>1. \A j \in 0..StepNum : n = FirstStep(l) + StepNum - 1 + j => GatherShare(o, m, r, c, l, j)
      BY <1>2, <1>3, <1>5, <1>7 DEF HoldsRound
    <3> QED BY <2>3, <3>1
  <2>5. L!Multiple(2^(StepNum - StepNum), Distant(r, s))
    <3>1. Distant(r, s) \in Nat /\ l \in Int
      <4>1. s \in Slices
        BY HasDataType
      <4> QED BY <2>1, <4>1, SumOfFacts
    <3>2. 2^(StepNum - StepNum) = 1
      BY <2>1
    <3>3. 1 \in Nat \ {0}
      OBVIOUS
    <3> QED BY <3>1, <3>2, <3>3, L!MultipleFacts, ScheduleSize
  <2>6. ~ReadLastStepToOutput(o)
    BY <1>7 DEF ReadLastStepToOutput
  <2>7. m[<<r, GatherBuffer(o, l), s, c>>] = Sum(l)
    BY <1>3, <2>4, <2>5, <2>6 DEF GatherShare
  <2> QED BY <1>3, <1>7, <2>7 DEF GatherBuffer
<1> QED BY <1>6, <1>7

DeliveredWhenFinished == \A r \in Ranks, l \in Loops(opt) : Finished(r, l) => Delivered(r, l)

(* From the moment that its main thread has passed a round, a rank has the *)
(* sum of that round's inputs in its output, and nothing disturbs it.      *)
THEOREM SumDelivered == Spec => []DeliveredWhenFinished
<1>1. IInv /\ Turned /\ Shares => DeliveredWhenFinished
  BY Delivers DEF DeliveredWhenFinished
<1> QED BY <1>1, MemoryInvariance, PTL

(* Where an input may be: a value holds the inputs of begun rounds only,   *)
(* but in the input itself.                                                *)
BeganIn(o, f, r, l) ==
  /\ l \in Loops(o)
  /\ \E c \in 1..Channels : f[<<r, c>>] > RoundEnd[o][<<r, c>>][l - 1] + 1

(* A thread that has left its rest has begun the round.                    *)
LEMMA BeganMark ==
  ASSUME NEW o \in Options, NEW t \in Threads, NEW l \in Loops(o), NEW f,
         f[t] \in 1..(Len(Program[o][t]) + 1), ~Later(t, Way(o, t)[f[t]], Rest(o, t, l - 1))
  PROVE  BeganIn(o, f, t[1], l)
<1>1. PICK i \in 1..(Len(Program[o][t]) + 1) : i = f[t]
  OBVIOUS
<1>2. i > RoundEnd[o][t][l - 1] + 1
  BY <1>1, Beginning
<1>3. t[1] \in Ranks /\ t[2] \in 1..Channels /\ t = <<t[1], t[2]>>
  BY ThreadFacts
<1> QED BY <1>1, <1>2, <1>3 DEF BeganIn

(* A round that has begun stays begun.                                     *)
LEMMA BeganStays ==
  ASSUME HaveType, NEW t \in Threads, Execute(t), NEW r \in Ranks, NEW l
  PROVE  Began(r, l) => Began(r, l)'
<1>1. opt' = opt /\ \A u \in Threads : pc[u] \in Nat /\ (pc'[u] = pc[u] \/ pc'[u] = pc[u] + 1)
  BY DEF Execute, ExecuteRecord, ExecuteWait, ExecuteMove, Step, HaveType
<1> SUFFICES ASSUME Began(r, l) PROVE Began(r, l)'
  OBVIOUS
<1>2. PICK c \in 1..Channels : pc[<<r, c>>] > RoundEnd[opt][<<r, c>>][l - 1] + 1
  BY DEF Began
<1>3. RoundEnd[opt][<<r, c>>][l - 1] \in Int
  <2>1. opt \in Options /\ l - 1 \in 0..Len(opt.counts) /\ <<r, c>> \in Threads
    BY Calls DEF Began, HaveType, Threads
  <2>2. Program[opt][<<r, c>>] \in Seq(Tasks)
    BY <2>1, ProgramRun
  <2>3. Len(Program[opt][<<r, c>>]) \in Nat
    BY <2>2, LenProperties
  <2> QED BY <2>1, <2>3, ProgramRun
<1>4. pc'[<<r, c>>] > RoundEnd[opt][<<r, c>>][l - 1] + 1
  <2>1. <<r, c>> \in Threads
    BY DEF Threads
  <2> QED BY <1>1, <1>2, <1>3, <2>1
<1> QED BY <1>1, <1>4 DEF Began

(* Which copies and transfers read an input.                               *)
LEMMA TransferReads ==
  ASSUME NEW o \in Options, NEW k \in 1..Steps(o), NEW c \in 1..Channels, NEW z \in Ranks,
         NEW y, y = HandshakeRx[o][k][z], NEW moves, Receipt(o, k, c, z, moves),
         NEW x \in DOMAIN moves, NEW l, moves[x].src[2] = In(l)
  PROVE  moves[x].src[1] = y /\ l \in Loops(o) /\ k >= FirstStep(l)
<1>1. PICK h \in Loops(o), i \in 0..(StepNum - 1) :
        \/ k = FirstStep(h) + i /\ moves = ScatterReceipt(o, h, c, i, z)
        \/ k = FirstStep(h) + StepNum + i /\ moves = GatherReceipt(o, h, c, i, z)
  BY DEF Receipt
<1>2. h \in Nat \ {0} /\ StepNum \in Nat \ {0} /\ FirstStep(h) \in Nat \ {0}
  BY RoundFacts
<1>3. k >= FirstStep(h)
  BY <1>1, <1>2
<1>4. Ccl # In(l) /\ (In(h) = In(l) => h = l) /\ (Out(o, h) = In(l) => h = l)
  BY DEF Ccl, In, Out
<1>5. CASE k = FirstStep(h) + i /\ moves = ScatterReceipt(o, h, c, i, z)
  <2>1. y = ScatterFrom(i, z)
    <3>1. i \in 0..(2 * StepNum - 1) /\ ~(i >= StepNum)
      BY <1>2
    <3>2. ~Gathers(k) /\ StepOf(k) = i
      BY <1>5, <3>1, RoundSteps
    <3> QED BY <3>2, Tables
  <2>2. /\ moves[x].src[1] = y
        /\ moves[x].src[2] = IF SkipStep0TxPreCopy(o) /\ i = 0 THEN In(h) ELSE ReduceBuffer(o, h)
    BY <1>5, <2>1 DEF ScatterReceipt, Copy
  <2>3. h = l
    BY <1>4, <2>2 DEF ReduceBuffer
  <2> QED BY <1>3, <2>2, <2>3
<1>6. CASE k = FirstStep(h) + StepNum + i /\ moves = GatherReceipt(o, h, c, i, z)
  <2>1. y = GatherFrom(i, z)
    <3>1. StepNum + i \in 0..(2 * StepNum - 1) /\ StepNum + i >= StepNum /\ (StepNum + i) - StepNum = i
          /\ k = FirstStep(h) + (StepNum + i)
      BY <1>2, <1>6
    <3>2. Gathers(k) /\ StepOf(k) = i
      BY <3>1, RoundSteps
    <3> QED BY <3>2, Tables
  <2>2. moves[x].src[1] = y /\ moves[x].src[2] = GatherBuffer(o, h)
    BY <1>6, <2>1 DEF GatherReceipt, Copy
  <2>3. h = l
    BY <1>4, <2>2 DEF GatherBuffer
  <2> QED BY <1>3, <2>2, <2>3
<1> QED BY <1>1, <1>5, <1>6

(* A local copy reads the input of the thread's own round.                 *)
LEMMA CopyReads ==
  ASSUME NEW o \in Options, NEW t \in Threads, NEW h \in Loops(o), NEW a, NEW task,
         LocalCopy(o, t, h, a, task), NEW x \in DOMAIN task.moves, NEW l, task.moves[x].src[2] = In(l)
  PROVE  task.moves[x].src[1] = t[1] /\ l = h /\ a.copies = Rest(o, t, l - 1).copies
<1>1. Ccl # In(l) /\ (In(h) = In(l) => h = l)
  BY DEF Ccl, In
<1>2. Rest(o, t, h - 1).copies = Copied(o, t, ScatterLeg(o, h))
  <2>1. Rest(o, t, h - 1) = Entering(o, t, ScatterLeg(o, h), {})
    BY RestIs
  <2> QED BY <2>1 DEF Entering, Mark
<1>3. CASE ~o.symmetric /\ a = Entering(o, t, h, Crew(t)) /\ PreCopy(o, h, t[1], t[2]) = <<task>>
  <2>1. PICK slices : task = Move(Copy(t[1], Ccl, t[1], In(h), slices, t[2], FALSE), FirstStep(h), 0)
    BY <1>3 DEF PreCopy
  <2>2. task.moves = Copy(t[1], Ccl, t[1], In(h), slices, t[2], FALSE)
    BY <2>1 DEF Move, Task
  <2>3. task.moves[x].src[1] = t[1] /\ task.moves[x].src[2] = In(h)
    BY <2>2 DEF Copy
  <2>4. a.copies = Copied(o, t, h) /\ ScatterLeg(o, h) = h
    BY <1>3 DEF Entering, Mark, ScatterLeg
  <2> QED BY <1>1, <1>2, <2>3, <2>4
<1>4. CASE ~o.symmetric /\ PostCopy(o, h, t[1], t[2]) = <<task>>
  <2>1. PICK slices : task = Move(Copy(t[1], Out(o, h), t[1], Ccl, slices, t[2], FALSE), FirstStep(h + 1), 0)
    BY <1>4 DEF PostCopy
  <2>2. task.moves = Copy(t[1], Out(o, h), t[1], Ccl, slices, t[2], FALSE)
    BY <2>1 DEF Move, Task
  <2>3. task.moves[x].src[2] = Ccl
    BY <2>2 DEF Copy
  <2> QED BY <1>1, <2>3
<1>5. CASE o.symmetric /\ a = Leaving(o, t, 1, {}) /\ task.moves = MySlice(o, h, t[1])
  <2>1. task.moves[x].src[1] = t[1] /\ task.moves[x].src[2] = In(h)
    BY <1>5 DEF MySlice
  <2>2. a.copies = Copied(o, t, 1) /\ ScatterLeg(o, h) = 1
    BY <1>5 DEF Leaving, Mark, ScatterLeg
  <2> QED BY <1>1, <1>2, <2>1, <2>2
<1> QED BY <1>3, <1>4, <1>5 DEF LocalCopy

(* Nobody reads an input of a round that its rank has not begun.           *)
LEMMA Reads ==
  ASSUME IInv, NEW t \in Threads, Execute(t), Current(t).op = "move",
         NEW x \in DOMAIN Current(t).moves, NEW l, NEW q, q = Current(t).moves[x].src[1],
         Current(t).moves[x].src[2] = In(l)
  PROVE  Began(q, l)'
<1>1. /\ HaveType /\ HaveType' /\ opt \in Options /\ opt' = opt
      /\ Follows(opt, t, At(t), Current(t), At(t)')
      /\ At(t) \in Marks(opt, t)
  BY Advance DEF IInv, HaveType
<1>2. PICK o, f, f2, moves : o = opt /\ f = pc /\ f2 = pc' /\ moves = Current(t).moves
  OBVIOUS
<1>3. /\ \A r, h : Began(r, h) <=> BeganIn(o, f, r, h)
      /\ \A r, h : Began(r, h)' <=> BeganIn(o, f2, r, h)
      /\ \A u : At(u) = Way(o, u)[f[u]] /\ At(u)' = Way(o, u)[f2[u]]
      /\ \A u \in Threads : f[u] \in 1..(Len(Program[o][u]) + 1) /\ f2[u] \in 1..(Len(Program[o][u]) + 1)
  BY <1>1, <1>2 DEF Began, BeganIn, At, HaveType, Prog
<1>4. CASE At(t).phase = 2
  <2>1. PICK k, c, z, y : /\ k = At(t).step /\ c = t[2] /\ z = Target(o, k, t[1])
                          /\ y = HandshakeRx[o][k][z]
    OBVIOUS
  <2>2. /\ k \in 1..Steps(o) /\ c \in 1..Channels /\ z \in Ranks /\ y \in Ranks
        /\ Receipt(o, k, c, z, moves)
        /\ At(<<y, c>>).step = k /\ At(<<y, c>>).phase >= 1
    BY <1>2, <1>4, <2>1, Transfer
  <2>3. o \in Options /\ x \in DOMAIN moves /\ moves[x].src[2] = In(l) /\ q = moves[x].src[1]
    BY <1>1, <1>2
  <2>4. q = y /\ l \in Loops(o) /\ k >= FirstStep(l)
    BY <2>1, <2>2, <2>3, TransferReads
  <2>5. PICK u : u = <<y, c>>
    OBVIOUS
  <2>6. u \in Threads /\ u[1] = y
    BY <2>2, <2>5 DEF Threads
  <2>7. ~Later(u, At(u), Rest(o, u, l - 1))
    <3>1. l \in Nat \ {0} /\ FirstStep(l) \in Nat /\ l - 1 \in 0..Len(o.counts) /\ (l - 1) + 1 = l
      BY <2>3, <2>4, RoundFacts, Calls
    <3>2. Rest(o, u, l - 1).phase = 0 /\ Rest(o, u, l - 1).step = FirstStep(l)
      BY <2>3, <2>6, <3>1, RestFacts
    <3>3. At(u).step = k /\ At(u).phase >= 1 /\ At(u).phase \in Int /\ k \in Int
      <4>1. At(u) \in Marks(o, u)
        BY <1>1, <1>2, <2>6, Place
      <4>2. At(u).phase \in 0..4
        BY <4>1, MarkRange
      <4>3. Steps(o) \in Nat
        BY <2>3, Calls
      <4> QED BY <2>2, <2>5, <4>2, <4>3
    <3>4. ~(k < FirstStep(l)) /\ ~(At(u).phase <= 0)
      BY <2>4, <3>1, <3>3
    <3> QED BY <3>2, <3>3, <3>4 DEF Later
  <2>8. BeganIn(o, f, u[1], l)
    BY <1>3, <2>3, <2>4, <2>6, <2>7, BeganMark
  <2>9. Began(q, l)
    BY <1>3, <2>4, <2>6, <2>8
  <2> QED BY <1>1, <2>2, <2>4, <2>9, BeganStays
<1>5. CASE At(t).phase = 0
  <2>1. LocalTask(opt, t, At(t), Current(t), At(t)')
    BY <1>1, <1>5 DEF Follows, CrewTask, ChannelTask
  <2>2. PICK a, task, b : a = At(t) /\ task = Current(t) /\ b = At(t)'
    OBVIOUS
  <2>3. PICK h \in Loops(o) : LocalCopy(o, t, h, a, task)
    BY <1>2, <2>1, <2>2 DEF LocalTask
  <2>4. b.copies = a.copies + 1 /\ a.copies \in Int
    <3>1. b = Mark(a.crew, a.step, 0, a.turns, a.copies + 1)
      BY <2>1, <2>2 DEF LocalTask
    <3>2. a \in Marks(o, t)
      BY <1>1, <1>2, <2>2
    <3> QED BY <3>1, <3>2, MarkRange DEF Mark
  <2>5. o \in Options /\ x \in DOMAIN task.moves /\ task.moves[x].src[2] = In(l) /\ q = task.moves[x].src[1]
    BY <1>1, <1>2, <2>2
  <2>6. q = t[1] /\ l = h /\ a.copies = Rest(o, t, l - 1).copies
    BY <2>3, <2>5, CopyReads
  <2>7. ~Later(t, b, Rest(o, t, l - 1))
    BY <2>4, <2>6 DEF Later
  <2>8. BeganIn(o, f2, t[1], l)
    <3>1. b = Way(o, t)[f2[t]] /\ f2[t] \in 1..(Len(Program[o][t]) + 1)
      BY <1>3, <2>2
    <3> QED BY <2>3, <2>5, <2>6, <2>7, <3>1, BeganMark
  <2> QED BY <1>3, <2>6, <2>8
<1> QED
  <2>1. At(t).phase \in {0, 2}
    BY <1>1 DEF Follows, CrewTask, LocalTask, ChannelTask
  <2> QED BY <1>4, <1>5, <2>1

Origin(x, v) ==
  \/ v = <<N, 0>>
  \/ v[1] \in Ranks /\ Began(v[1], v[2])
  \/ x[1] = v[1] /\ x[2] = In(v[2])

Originates == \A x \in Cells : \A v \in mem[x] : Origin(x, v)

(* Where a value may be, it may stay.                                      *)
LEMMA OriginStays ==
  ASSUME HaveType, NEW t \in Threads, Execute(t), NEW x, NEW v, Origin(x, v)
  PROVE  Origin(x, v)'
<1>1. CASE v[1] \in Ranks /\ Began(v[1], v[2])
  <2>1. PICK r, l : r \in Ranks /\ r = v[1] /\ l = v[2]
    BY <1>1
  <2>2. Began(r, l)'
    BY <1>1, <2>1, BeganStays
  <2> QED BY <2>1, <2>2 DEF Origin
<1>2. CASE v = <<N, 0>>
  BY <1>2 DEF Origin
<1>3. CASE x[1] = v[1] /\ x[2] = In(v[2])
  BY <1>3 DEF Origin
<1> QED BY <1>1, <1>2, <1>3 DEF Origin

(* Each step of a thread leaves values only where they may be.             *)
LEMMA OriginStep ==
  ASSUME IInv, Originates, NEW t \in Threads, Execute(t), NEW x \in Cells, NEW v \in mem'[x]
  PROVE  Origin(x, v)'
<1>1. /\ HaveType /\ opt \in Options
      /\ Follows(opt, t, At(t), Current(t), At(t)')
      /\ At(t) \in Marks(opt, t)
  BY Advance DEF IInv, HaveType
<1>2. CASE v \in mem[x]
  BY <1>1, <1>2, OriginStays DEF Originates
<1>3. CASE v \notin mem[x]
  <2>1. Current(t).op = "move"
    BY <1>1, <1>3, MoveEffect
  <2>2. PICK moves : moves = Current(t).moves
    OBVIOUS
  <2>3. Effect(mem, mem', moves)
    BY <1>1, <2>1, <2>2, MoveEffect
  <2>4. x \in DOMAIN moves
    BY <1>3, <2>3 DEF Effect
  <2>5. PICK u : u = moves[x].src
    OBVIOUS
  <2>6. u \in Cells
    <3>1. TouchedBy(Current(t).moves) \subseteq Cells
      BY <1>1, <2>1, TaskMoves
    <3> QED BY <2>2, <2>4, <2>5, <3>1 DEF TouchedBy
  <2>7. v = <<N, 0>> \/ v \in mem[u]
    <3>1. mem'[x] = Reduced(mem[x], mem[u]) \/ mem'[x] = mem[u]
      BY <2>3, <2>4, <2>5 DEF Effect
    <3> QED BY <1>3, <3>1 DEF Reduced, Junk
  <2>8. CASE v = <<N, 0>>
    BY <2>8 DEF Origin
  <2>9. CASE v \in mem[u] /\ ~(u[1] = v[1] /\ u[2] = In(v[2]))
    <3>1. Origin(u, v)
      BY <2>6, <2>9 DEF Originates
    <3>2. v = <<N, 0>> \/ (v[1] \in Ranks /\ Began(v[1], v[2]))
      BY <2>9, <3>1 DEF Origin
    <3>3. Origin(x, v)
      BY <3>2 DEF Origin
    <3> QED BY <1>1, <3>3, OriginStays
  <2>10. CASE u[1] = v[1] /\ u[2] = In(v[2])
    <3>1. PICK q, l : q = v[1] /\ l = v[2]
      OBVIOUS
    <3>2. x \in DOMAIN Current(t).moves /\ q = Current(t).moves[x].src[1] /\ Current(t).moves[x].src[2] = In(l)
      BY <2>2, <2>4, <2>5, <2>10, <3>1
    <3>3. Began(q, l)'
      BY <2>1, <3>2, Reads
    <3>4. q \in Ranks
      BY <2>6, <2>10, <3>1 DEF Cells
    <3> QED BY <3>1, <3>3, <3>4 DEF Origin
  <2> QED BY <2>7, <2>8, <2>9, <2>10
<1> QED BY <1>2, <1>3

(* What a value in memory is the input of is a round that its rank has     *)
(* begun, or the cell that it started in.                                  *)
THEOREM OriginInvariance == Spec => []Originates
<1>1. Init => Originates
  <2> SUFFICES ASSUME Init, NEW x \in Cells, NEW v \in mem[x] PROVE Origin(x, v)
    BY DEF Originates
  <2>1. mem[x] = IF x[2] \in {In(l) : l \in 1..MaxRounds} THEN {<<x[1], x[2][2]>>} ELSE Junk
    BY DEF Init
  <2>2. CASE x[2] \in {In(l) : l \in 1..MaxRounds}
    BY <2>1, <2>2 DEF Origin, In
  <2>3. CASE x[2] \notin {In(l) : l \in 1..MaxRounds}
    BY <2>1, <2>3 DEF Origin, Junk
  <2> QED BY <2>2, <2>3
<1>2. IInv /\ Originates /\ [Next]_vars => Originates'
  <2> SUFFICES ASSUME IInv, Originates, [Next]_vars PROVE Originates'
    OBVIOUS
  <2>1. CASE UNCHANGED vars
    BY <2>1 DEF vars, Originates, Origin, Began
  <2>2. ASSUME NEW t \in Threads, Execute(t) PROVE Originates'
    <3>1. ASSUME NEW x \in Cells, NEW v \in mem'[x] PROVE Origin(x, v)'
      BY <2>2, <3>1, OriginStep
    <3> QED BY <3>1 DEF Originates
  <2> QED BY <2>1, <2>2 DEF Next
<1> QED BY <1>1, <1>2, Invariance, PTL DEF Spec

(* A slice and a channel that move something in every round.               *)
LEMMA Shareholder ==
  ASSUME NEW o \in Options, NEW l \in Loops(o)
  PROVE  N - 1 \in HasData(o, l, Channels) /\ Channels \in 1..Channels
<1>1. N \in Nat \ {0} /\ Channels \in Nat \ {0} /\ N - 1 \in Slices
  BY Sizes DEF Slices
<1>2. o.counts[l] \in Nat \ {0}
  <2>1. LegalOption(o) /\ l \in 1..Len(o.counts) /\ 1 \in 1..Len(o.counts)
    BY Calls, NHRAssumption
  <2> QED BY <2>1 DEF LegalOption
<1>3. \A n, d \in Nat \ {0} : n - (d - 1) * (n \div d) \in Nat \ {0}
  <2> SUFFICES ASSUME NEW n \in Nat \ {0}, NEW d \in Nat \ {0} PROVE n - (d - 1) * (n \div d) \in Nat \ {0}
    OBVIOUS
  <2> DEFINE a == n \div d
  <2>1. a \in Nat /\ n = d * a + (n % d) /\ n % d \in 0..(d - 1)
    OBVIOUS
  <2>2. (d - 1) * a = d * a - a
    <3> HIDE DEF a
    <3> QED BY <2>1
  <2>3. n - (d - 1) * a = a + (n % d)
    <3> HIDE DEF a
    <3> QED BY <2>1, <2>2
  <2>4. a + (n % d) # 0
    <3>1. a = 0 /\ n % d = 0 => n = 0
      <4> HIDE DEF a
      <4>1. a = 0 => d * a = 0
        OBVIOUS
      <4> QED BY <2>1, <4>1
    <3> HIDE DEF a
    <3> QED BY <2>1, <3>1
  <2> QED BY <2>1, <2>3, <2>4
<1>4. Elements(o, l, N - 1, Channels) \in Nat \ {0}
  BY <1>1, <1>2, <1>3 DEF Elements, Share
<1> QED BY <1>1, <1>4 DEF HasData

-----------------------------------------------------------------------------
(* An AllReduce *)

EveryoneBegan == \A r \in Ranks, l \in Loops(opt) : Finished(r, l) => \A x \in Ranks : Began(x, l)

(* No rank passes a round before every rank has begun it.                  *)
THEOREM NoneEarly == Spec => []EveryoneBegan
<1>1. ASSUME IInv, DeliveredWhenFinished, Originates PROVE EveryoneBegan
  <2> SUFFICES ASSUME NEW r \in Ranks, NEW l \in Loops(opt), Finished(r, l), NEW x \in Ranks
               PROVE  Began(x, l)
    BY DEF EveryoneBegan
  <2>1. HaveType /\ opt \in Options
    BY <1>1 DEF IInv, HaveType
  <2>2. N - 1 \in HasData(opt, l, Channels) /\ Channels \in 1..Channels /\ N - 1 \in Slices
    BY <2>1, Shareholder, HasDataType
  <2>3. PICK u : u = <<r, Out(opt, l), N - 1, Channels>>
    OBVIOUS
  <2>4. mem[u] = Sum(l)
    BY <1>1, <2>2, <2>3 DEF DeliveredWhenFinished, Delivered
  <2>5. u \in Cells /\ u[1] = r
    BY <2>1, <2>2, <2>3, BufferTypes DEF Cells
  <2>6. PICK v : v = <<x, l>>
    OBVIOUS
  <2>7. v \in mem[u] /\ v[1] = x /\ v[2] = l
    BY <2>4, <2>6 DEF Sum
  <2>8. v # <<N, 0>>
    BY <2>6, Sizes DEF Ranks
  <2>9. Origin(u, v)
    BY <1>1, <2>5, <2>7 DEF Originates
  <2>10. CASE x = r
    <3>1. PICK t \in Threads : t = <<r, 1>>
      <4>1. 1 \in 1..Channels
        BY Sizes
      <4> QED BY <4>1 DEF Threads
    <3>2. pc[t] > RoundEnd[opt][t][l] /\ pc[t] \in Nat
      BY <2>1, <3>1 DEF Finished, HaveType
    <3>3. /\ l \in Nat /\ l >= l /\ l <= Len(opt.counts) /\ 1 \in 1..Channels
          /\ l \in 0..Len(opt.counts) /\ l - 1 \in 0..Len(opt.counts)
      BY <2>1, Calls, Sizes
    <3>4. RoundEnd[opt][t][l - 1] < RoundEnd[opt][t][l]
      BY <2>1, <3>3, RoundEndOrder
    <3>5. RoundEnd[opt][t][l - 1] \in Nat /\ RoundEnd[opt][t][l] \in Nat
      <4>1. Len(Program[opt][t]) \in Nat
        BY <2>1, ProgramRun, LenProperties
      <4> QED BY <2>1, <3>3, <4>1, ProgramRun
    <3>6. pc[t] > RoundEnd[opt][t][l - 1] + 1
      BY <3>2, <3>4, <3>5
    <3> QED BY <2>10, <3>1, <3>3, <3>6 DEF Began
  <2>11. CASE x # r
    BY <2>5, <2>7, <2>8, <2>9, <2>11 DEF Origin
  <2> QED BY <2>10, <2>11
<1> QED BY <1>1, Invariance, SumDelivered, OriginInvariance, PTL

(* A round takes a thread more than one task.                              *)
LEMMA RoundLength ==
  ASSUME NEW o \in Options, NEW t \in Threads, NEW l \in Loops(o)
  PROVE  RoundEnd[o][t][l] > RoundEnd[o][t][l - 1] + 1
<1> DEFINE e == RoundEnd[o][t][l - 1]
           f == RoundEnd[o][t][l]
           n == Len(Program[o][t])
           w == Way(o, t)
<1>1. /\ l \in Nat \ {0} /\ Len(o.counts) \in Nat /\ l <= Len(o.counts)
      /\ l \in 0..Len(o.counts) /\ l - 1 \in 0..Len(o.counts)
  BY Calls
<1>2. n \in Nat
  BY ProgramRun, LenProperties
<1>3. e \in 0..n /\ f \in 0..n /\ w[e + 1] = Rest(o, t, l - 1) /\ w[f + 1] = Rest(o, t, l)
  BY <1>1, ProgramRun
<1>4. e < f
  <2>1. l >= l
    BY <1>1
  <2> QED BY <1>1, <2>1, RoundEndOrder
<1>5. ASSUME f = e + 1 PROVE FALSE
  <2>1. PICK i : i = e + 1
    OBVIOUS
  <2>2. i \in 1..n
    <3> HIDE DEF e, f, n
    <3> QED BY <1>2, <1>3, <1>5, <2>1
  <2>3. Follows(o, t, w[i], Program[o][t][i], w[i + 1])
    BY <2>2, ProgramRun DEF Marking
  <2>4. PICK a, b, task : a = w[i] /\ b = w[i + 1] /\ task = Program[o][t][i]
    OBVIOUS
  <2>5. a = Rest(o, t, l - 1) /\ b = Rest(o, t, l)
    BY <1>3, <1>5, <2>1, <2>4
  <2>6. a \in Marks(o, t) /\ a.step = FirstStep(l) /\ b.step = FirstStep(l + 1)
    <3>1. (l - 1) + 1 = l
      BY <1>1
    <3> QED BY <1>1, <2>5, <3>1, RestFacts
  <2>7. b.step = a.step \/ b.step = a.step + 1
    <3>1. Follows(o, t, a, task, b)
      BY <2>3, <2>4
    <3> QED BY <2>6, <3>1, Marching
  <2> QED BY <2>6, <2>7, RoundFacts
<1> HIDE DEF e, f, n
<1>6. f > e + 1
  BY <1>2, <1>3, <1>4, <1>5
<1> QED BY <1>6 DEF e, f

(* The ends and the beginnings of the rounds are all different.            *)
LEMMA RoundsApart ==
  ASSUME NEW o \in Options, NEW t \in Threads, NEW l \in Loops(o), NEW h \in Loops(o)
  PROVE  /\ RoundEnd[o][t][l - 1] \in Nat /\ RoundEnd[o][t][l] \in Nat
         /\ RoundEnd[o][t][l - 1] + 1 = RoundEnd[o][t][h - 1] + 1 => l = h
         /\ RoundEnd[o][t][l] = RoundEnd[o][t][h] => l = h
         /\ RoundEnd[o][t][l - 1] + 1 # RoundEnd[o][t][h]
<1> DEFINE n == Len(o.counts)
<1>1. PICK R : R = RoundEnd[o][t]
  OBVIOUS
<1>2. n \in Nat \ {0} /\ Loops(o) = 1..n /\ l \in 1..n /\ h \in 1..n
  BY Calls
<1>3. \A m \in 0..n : R[m] \in Nat
  <2>1. Len(Program[o][t]) \in Nat
    BY ProgramRun, LenProperties
  <2>2. \A m \in 0..Len(o.counts) : R[m] \in 0..Len(Program[o][t])
    BY <1>1, ProgramRun
  <2> QED BY <2>1, <2>2
<1>4. \A i, j \in 1..n : j >= i => R[i - 1] < R[j]
  BY <1>1, <1>2, RoundEndOrder
<1>5. \A i \in 1..n : R[i] > R[i - 1] + 1
  BY <1>1, <1>2, RoundLength
<1> HIDE DEF n
<1>6. ASSUME NEW i \in 1..n, NEW j \in 1..n, i < j PROVE R[i - 1] < R[j - 1] /\ R[i] < R[j] /\ R[i] <= R[j - 1]
  <2>1. j - 1 \in 1..n /\ j - 1 >= i /\ i + 1 \in 1..n /\ j >= i + 1 /\ (i + 1) - 1 = i /\ i \in 0..n /\ j - 1 \in 0..n
    BY <1>2, <1>6
  <2>2. R[i - 1] < R[j - 1] /\ R[(i + 1) - 1] < R[j]
    BY <1>4, <2>1
  <2>3. CASE j - 1 = i
    <3>1. R[i] = R[j - 1]
      BY <2>3
    <3> QED BY <1>3, <2>1, <2>2, <3>1
  <2>4. CASE j - 1 # i
    <3>1. j - 1 >= i + 1
      BY <1>2, <2>1, <2>4
    <3>2. R[(i + 1) - 1] < R[j - 1]
      BY <1>4, <2>1, <3>1
    <3> QED BY <1>3, <2>1, <2>2, <3>2
  <2> QED BY <2>3, <2>4
<1>7. R[l - 1] \in Nat /\ R[l] \in Nat /\ R[h - 1] \in Nat /\ R[h] \in Nat
  <2>1. l - 1 \in 0..n /\ l \in 0..n /\ h - 1 \in 0..n /\ h \in 0..n
    BY <1>2
  <2> QED BY <1>3, <2>1
<1>8. l < h \/ l = h \/ h < l
  BY <1>2
<1>9. CASE l < h
  <2>1. R[l - 1] < R[h - 1] /\ R[l] < R[h] /\ R[h] > R[h - 1] + 1
    BY <1>2, <1>5, <1>6, <1>9
  <2> QED BY <1>1, <1>7, <2>1
<1>10. CASE h < l
  <2>1. R[h - 1] < R[l - 1] /\ R[h] < R[l] /\ R[h] <= R[l - 1]
    BY <1>2, <1>6, <1>10
  <2> QED BY <1>1, <1>7, <2>1
<1>11. CASE l = h
  <2>1. R[h] > R[h - 1] + 1
    BY <1>2, <1>5
  <2> QED BY <1>1, <1>7, <1>11, <2>1
<1> QED BY <1>8, <1>9, <1>10, <1>11

(* The state of Collective, and its steps.                                 *)
Entered == {x \in Ranks \X (1..MaxRounds) : Began(x[1], x[2])}
Outputs == [x \in Ranks \X (1..MaxRounds) |->
              IF ~Finished(x[1], x[2]) THEN "none"
              ELSE IF Delivered(x[1], x[2]) THEN "sum" ELSE "wrong"]

(* What the steps of Collective are for Entered and Outputs.               *)
LEMMA CollectiveSteps ==
  /\ \A x \in Ranks \X (1..MaxRounds) :
       x \notin Entered /\ Entered' = Entered \cup {x} /\ Outputs' = Outputs => Abstract!Next
  /\ \A r \in Ranks, l \in 1..MaxRounds :
       /\ Ranks \X {l} \subseteq Entered /\ Outputs[<<r, l>>] = "none"
       /\ Outputs' = [Outputs EXCEPT ![<<r, l>>] = "sum"] /\ Entered' = Entered
       => Abstract!Next
  /\ Entered' = Entered /\ Outputs' = Outputs => UNCHANGED Abstract!vars
<1>1. ASSUME NEW x \in Ranks \X (1..MaxRounds),
             x \notin Entered, Entered' = Entered \cup {x}, Outputs' = Outputs
      PROVE  Abstract!Next
  <2>1. Abstract!Enter(x)
    BY <1>1 DEF Abstract!Enter, Abstract!Calls, Entered, Outputs
  <2> QED BY <1>1, <2>1 DEF Abstract!Next, Abstract!Calls
<1>2. ASSUME NEW r \in Ranks, NEW l \in 1..MaxRounds,
             Ranks \X {l} \subseteq Entered, Outputs[<<r, l>>] = "none",
             Outputs' = [Outputs EXCEPT ![<<r, l>>] = "sum"], Entered' = Entered
      PROVE  Abstract!Next
  <2>1. Abstract!Deliver(r, l)
    BY <1>2 DEF Abstract!Deliver, Entered, Outputs
  <2> QED BY <2>1 DEF Abstract!Next
<1>3. Entered' = Entered /\ Outputs' = Outputs => UNCHANGED Abstract!vars
  BY DEF Abstract!vars, Entered, Outputs
<1> QED BY <1>1, <1>2, <1>3

FinishedIn(o, f, r, l) == l \in Loops(o) /\ f[<<r, 1>>] > RoundEnd[o][<<r, 1>>][l]

(* What a task can begin or finish: one round of its own thread.           *)
RoundMoves(o, f, f2, t, r, l) ==
  /\ BeganIn(o, f, r, l) => BeganIn(o, f2, r, l)
  /\ FinishedIn(o, f, r, l) => FinishedIn(o, f2, r, l)
  /\ BeganIn(o, f2, r, l) /\ ~BeganIn(o, f, r, l) =>
       l \in Loops(o) /\ t[1] = r /\ f[t] = RoundEnd[o][t][l - 1] + 1
  /\ FinishedIn(o, f2, r, l) /\ ~FinishedIn(o, f, r, l) =>
       l \in Loops(o) /\ t = <<r, 1>> /\ f[t] = RoundEnd[o][t][l]

(* What a task can begin or finish is one round of its own thread.         *)
LEMMA RoundStep ==
  ASSUME NEW o \in Options, NEW f \in [Threads -> Nat], NEW f2, NEW t \in Threads,
         f2 = [f EXCEPT ![t] = @ + 1], NEW r \in Ranks, NEW l
  PROVE  RoundMoves(o, f, f2, t, r, l)
<1> SUFFICES ASSUME l \in Loops(o)
             PROVE  /\ BeganIn(o, f, r, l) => BeganIn(o, f2, r, l)
                    /\ FinishedIn(o, f, r, l) => FinishedIn(o, f2, r, l)
                    /\ BeganIn(o, f2, r, l) /\ ~BeganIn(o, f, r, l) =>
                         t[1] = r /\ f[t] = RoundEnd[o][t][l - 1] + 1
                    /\ FinishedIn(o, f2, r, l) /\ ~FinishedIn(o, f, r, l) =>
                         t = <<r, 1>> /\ f[t] = RoundEnd[o][t][l]
  BY DEF BeganIn, FinishedIn, RoundMoves
<1>1. \A u \in Threads : f[u] \in Nat /\ f2[u] = IF u = t THEN f[u] + 1 ELSE f[u]
  OBVIOUS
<1>2. \A c \in 1..Channels : <<r, c>> \in Threads /\ RoundEnd[o][<<r, c>>][l - 1] \in Nat /\ RoundEnd[o][<<r, c>>][l] \in Nat
  <2>1. \A c \in 1..Channels : <<r, c>> \in Threads
    BY DEF Threads
  <2> QED BY <2>1, RoundsApart
<1>3. 1 \in 1..Channels
  BY Sizes
<1>4. ASSUME NEW c \in 1..Channels, NEW e \in Nat
      PROVE  /\ f[<<r, c>>] > e => f2[<<r, c>>] > e
             /\ f2[<<r, c>>] > e /\ ~(f[<<r, c>>] > e) => <<r, c>> = t /\ f[t] = e
  BY <1>1, <1>2
<1>5. BeganIn(o, f, r, l) => BeganIn(o, f2, r, l)
  <2> SUFFICES ASSUME NEW c \in 1..Channels, f[<<r, c>>] > RoundEnd[o][<<r, c>>][l - 1] + 1
               PROVE  BeganIn(o, f2, r, l)
    BY DEF BeganIn
  <2>1. RoundEnd[o][<<r, c>>][l - 1] + 1 \in Nat
    BY <1>2
  <2> QED BY <1>4, <2>1 DEF BeganIn
<1>6. FinishedIn(o, f, r, l) => FinishedIn(o, f2, r, l)
  BY <1>2, <1>3, <1>4 DEF FinishedIn
<1>7. ASSUME BeganIn(o, f2, r, l), ~BeganIn(o, f, r, l)
      PROVE  t[1] = r /\ f[t] = RoundEnd[o][t][l - 1] + 1
  <2>1. PICK c \in 1..Channels : f2[<<r, c>>] > RoundEnd[o][<<r, c>>][l - 1] + 1
    BY <1>7 DEF BeganIn
  <2>2. ~(f[<<r, c>>] > RoundEnd[o][<<r, c>>][l - 1] + 1)
    BY <1>7 DEF BeganIn
  <2>3. RoundEnd[o][<<r, c>>][l - 1] + 1 \in Nat
    BY <1>2
  <2>4. <<r, c>> = t /\ f[t] = RoundEnd[o][<<r, c>>][l - 1] + 1
    BY <1>4, <2>1, <2>2, <2>3
  <2> QED BY <2>4
<1>8. ASSUME FinishedIn(o, f2, r, l), ~FinishedIn(o, f, r, l)
      PROVE  t = <<r, 1>> /\ f[t] = RoundEnd[o][t][l]
  <2>1. f2[<<r, 1>>] > RoundEnd[o][<<r, 1>>][l] /\ ~(f[<<r, 1>>] > RoundEnd[o][<<r, 1>>][l])
    BY <1>8 DEF FinishedIn
  <2> QED BY <1>2, <1>3, <1>4, <2>1
<1> QED BY <1>5, <1>6, <1>7, <1>8

(* A task keeps, enters or delivers one round.                             *)
LEMMA CollectiveStep ==
  ASSUME HaveType, DeliveredWhenFinished, DeliveredWhenFinished', EveryoneBegan',
         NEW t \in Threads, Execute(t)
  PROVE  Abstract!Next \/ UNCHANGED Abstract!vars
<1> DEFINE Rounds == Ranks \X (1..MaxRounds)
<1>1. HaveType' /\ opt' = opt /\ pc' = [pc EXCEPT ![t] = @ + 1]
  BY Advance DEF Execute, ExecuteRecord, ExecuteWait, ExecuteMove, Step
<1>2. PICK o, f, f2 : o = opt /\ f = pc /\ f2 = pc'
  OBVIOUS
<1>3. o \in Options /\ f \in [Threads -> Nat] /\ f2 = [f EXCEPT ![t] = @ + 1] /\ t[1] \in Ranks
  BY <1>1, <1>2, ThreadFacts DEF HaveType
<1>4. PICK E, E2, D, D2, O, O2 :
        /\ E = Entered /\ E2 = Entered' /\ O = Outputs /\ O2 = Outputs'
        /\ D = {x \in Rounds : FinishedIn(o, f, x[1], x[2])}
        /\ D2 = {x \in Rounds : FinishedIn(o, f2, x[1], x[2])}
  OBVIOUS
<1>5. /\ \A r, l : Began(r, l) <=> BeganIn(o, f, r, l)
      /\ \A r, l : Began(r, l)' <=> BeganIn(o, f2, r, l)
      /\ \A r, l : Finished(r, l) <=> FinishedIn(o, f, r, l)
      /\ \A r, l : Finished(r, l)' <=> FinishedIn(o, f2, r, l)
  BY <1>1, <1>2 DEF Began, BeganIn, Finished, FinishedIn
<1>6. /\ E = {x \in Rounds : BeganIn(o, f, x[1], x[2])}
      /\ E2 = {x \in Rounds : BeganIn(o, f2, x[1], x[2])}
  <2>1. E = {x \in Rounds : BeganIn(o, f, x[1], x[2])}
    BY <1>4, <1>5 DEF Entered
  <2>2. E2 = {x \in Rounds : BeganIn(o, f2, x[1], x[2])}
    BY <1>4, <1>5 DEF Entered
  <2> QED BY <2>1, <2>2
<1>7. O = [x \in Rounds |-> IF x \in D THEN "sum" ELSE "none"]
  <2>1. \A x \in Rounds : x \in D => Finished(x[1], x[2]) /\ Delivered(x[1], x[2])
    BY <1>4, <1>5 DEF Finished, DeliveredWhenFinished
  <2>2. \A x \in Rounds : x \notin D => ~Finished(x[1], x[2])
    BY <1>4, <1>5
  <2> QED BY <1>4, <2>1, <2>2 DEF Outputs
<1>8. O2 = [x \in Rounds |-> IF x \in D2 THEN "sum" ELSE "none"]
  <2>1. \A x \in Rounds : x \in D2 => Finished(x[1], x[2])' /\ Delivered(x[1], x[2])'
    BY <1>4, <1>5 DEF Finished, DeliveredWhenFinished
  <2>2. \A x \in Rounds : x \notin D2 => ~Finished(x[1], x[2])'
    BY <1>4, <1>5
  <2> QED BY <1>4, <2>1, <2>2 DEF Outputs
<1>9. \A x \in D2 : Ranks \X {x[2]} \subseteq E2
  <2> SUFFICES ASSUME NEW x \in D2, NEW y \in Ranks \X {x[2]} PROVE y \in E2
    OBVIOUS
  <2>1. x \in Rounds /\ FinishedIn(o, f2, x[1], x[2])
    BY <1>4
  <2>2. y[1] \in Ranks /\ y[2] = x[2] /\ y \in Rounds
    BY <2>1
  <2>3. Finished(x[1], x[2])' /\ x[2] \in Loops(opt')
    BY <1>1, <1>2, <1>5, <2>1 DEF FinishedIn
  <2>4. Began(y[1], x[2])'
    BY <2>1, <2>2, <2>3 DEF EveryoneBegan
  <2> QED BY <1>5, <1>6, <2>2, <2>4
<1>10. \A x \in Rounds :
         /\ x \in E => x \in E2
         /\ x \in D => x \in D2
         /\ x \in E2 \ E => /\ x[2] \in Loops(o) /\ t[1] = x[1]
                            /\ f[t] = RoundEnd[o][t][x[2] - 1] + 1
         /\ x \in D2 \ D => /\ x[2] \in Loops(o) /\ t = <<x[1], 1>>
                            /\ f[t] = RoundEnd[o][t][x[2]]
  <2> SUFFICES ASSUME NEW x \in Rounds
               PROVE  /\ x \in E => x \in E2
                      /\ x \in D => x \in D2
                      /\ x \in E2 \ E => /\ x[2] \in Loops(o) /\ t[1] = x[1]
                                         /\ f[t] = RoundEnd[o][t][x[2] - 1] + 1
                      /\ x \in D2 \ D => /\ x[2] \in Loops(o) /\ t = <<x[1], 1>>
                                         /\ f[t] = RoundEnd[o][t][x[2]]
    OBVIOUS
  <2>1. PICK r, l : r = x[1] /\ l = x[2] /\ r \in Ranks
    OBVIOUS
  <2>2. /\ x \in E <=> BeganIn(o, f, r, l)
        /\ x \in E2 <=> BeganIn(o, f2, r, l)
        /\ x \in D <=> FinishedIn(o, f, r, l)
        /\ x \in D2 <=> FinishedIn(o, f2, r, l)
    BY <1>4, <1>6, <2>1
  <2>3. RoundMoves(o, f, f2, t, r, l)
    BY <1>3, <2>1, RoundStep
  <2> QED BY <2>1, <2>2, <2>3 DEF RoundMoves
<1>11. /\ E \subseteq Rounds /\ E2 \subseteq Rounds /\ D \subseteq Rounds /\ D2 \subseteq Rounds
       /\ \A x \in Rounds : x = <<x[1], x[2]>>
  BY <1>4, <1>6
<1>12. ASSUME NEW x \in E2 \ E PROVE Abstract!Next
  <2>1. x \in Rounds /\ x[2] \in Loops(o) /\ t[1] = x[1] /\ f[t] = RoundEnd[o][t][x[2] - 1] + 1
    BY <1>10, <1>11
  <2>2. \A y \in E2 \ E : y = x
    <3> SUFFICES ASSUME NEW y \in E2 \ E PROVE y = x
      OBVIOUS
    <3>1. y \in Rounds /\ y[2] \in Loops(o) /\ t[1] = y[1] /\ f[t] = RoundEnd[o][t][y[2] - 1] + 1
      BY <1>10, <1>11
    <3>2. x[2] = y[2]
      BY <1>3, <2>1, <3>1, RoundsApart
    <3> QED BY <1>11, <2>1, <3>1, <3>2
  <2>3. D2 = D
    <3> SUFFICES ASSUME NEW y \in D2 \ D PROVE FALSE
      BY <1>10, <1>11
    <3>1. y \in Rounds /\ y[2] \in Loops(o) /\ f[t] = RoundEnd[o][t][y[2]]
      BY <1>10, <1>11
    <3> QED BY <1>3, <2>1, <3>1, RoundsApart
  <2>4. E2 = E \cup {x}
    BY <1>10, <1>11, <2>2
  <2>5. O2 = O
    BY <1>7, <1>8, <2>3
  <2>6. x \in Ranks \X (1..MaxRounds) /\ x \notin Entered
    BY <1>4, <2>1
  <2>7. Entered' = Entered \cup {x} /\ Outputs' = Outputs
    BY <1>4, <2>4, <2>5
  <2> QED BY <2>6, <2>7, CollectiveSteps
<1>13. ASSUME NEW x \in D2 \ D, E2 = E PROVE Abstract!Next
  <2>1. x \in Rounds /\ x[2] \in Loops(o) /\ t = <<x[1], 1>> /\ f[t] = RoundEnd[o][t][x[2]]
    BY <1>10, <1>11
  <2>2. \A y \in D2 \ D : y = x
    <3> SUFFICES ASSUME NEW y \in D2 \ D PROVE y = x
      OBVIOUS
    <3>1. y \in Rounds /\ y[2] \in Loops(o) /\ t = <<y[1], 1>> /\ f[t] = RoundEnd[o][t][y[2]]
      BY <1>10, <1>11
    <3>2. x[2] = y[2]
      BY <1>3, <2>1, <3>1, RoundsApart
    <3> QED BY <1>11, <2>1, <3>1, <3>2
  <2>3. D2 = D \cup {x}
    BY <1>10, <1>11, <2>2
  <2>4. PICK r \in Ranks, l \in 1..MaxRounds : x = <<r, l>>
    BY <2>1
  <2>5. Ranks \X {l} \subseteq E
    BY <1>9, <1>13, <2>4
  <2>6. O[<<r, l>>] = "none" /\ O2 = [O EXCEPT ![<<r, l>>] = "sum"]
    BY <1>7, <1>8, <1>11, <2>3, <2>4
  <2>7. /\ Ranks \X {l} \subseteq Entered /\ Outputs[<<r, l>>] = "none"
        /\ Outputs' = [Outputs EXCEPT ![<<r, l>>] = "sum"] /\ Entered' = Entered
    BY <1>4, <1>13, <2>5, <2>6
  <2> QED BY <2>7, CollectiveSteps
<1>14. CASE E2 = E /\ D2 = D
  <2>1. Entered' = Entered /\ Outputs' = Outputs
    BY <1>4, <1>7, <1>8, <1>14
  <2> QED BY <2>1, CollectiveSteps
<1>15. E \subseteq E2 /\ D \subseteq D2
  BY <1>10, <1>11
<1>16. CASE E2 # E
  <2>1. PICK x : x \in E2 \ E
    BY <1>15, <1>16
  <2> QED BY <1>12, <2>1
<1>17. CASE E2 = E /\ D2 # D
  <2>1. PICK x : x \in D2 \ D
    BY <1>15, <1>17
  <2> QED BY <1>13, <1>17, <2>1
<1> QED BY <1>14, <1>16, <1>17

(* No round has begun when the threads start.                              *)
LEMMA CollectiveInit == Init => Abstract!Init
<1> SUFFICES ASSUME Init PROVE Abstract!Init
  OBVIOUS
<1>1. opt \in Options /\ \A t \in Threads : pc[t] = 1
  BY DEF Init
<1>2. ASSUME NEW r \in Ranks, NEW l \in Loops(opt)
      PROVE  ~Began(r, l) /\ ~Finished(r, l)
  <2>1. \A c \in 1..Channels :
          /\ pc[<<r, c>>] = 1
          /\ RoundEnd[opt][<<r, c>>][l - 1] \in Nat
          /\ RoundEnd[opt][<<r, c>>][l] \in Nat
          /\ RoundEnd[opt][<<r, c>>][l] > RoundEnd[opt][<<r, c>>][l - 1] + 1
    <3> SUFFICES ASSUME NEW c \in 1..Channels, NEW t \in Threads, t = <<r, c>>
                 PROVE  /\ pc[t] = 1
                        /\ RoundEnd[opt][t][l - 1] \in Nat
                        /\ RoundEnd[opt][t][l] \in Nat
                        /\ RoundEnd[opt][t][l] > RoundEnd[opt][t][l - 1] + 1
      BY DEF Threads
    <3> QED BY <1>1, RoundsApart, RoundLength
  <2>2. 1 \in 1..Channels
    BY Sizes
  <2>4. ~Finished(r, l)
    <3>1. PICK u, a, b : u = <<r, 1>> /\ a = RoundEnd[opt][u][l - 1] /\ b = RoundEnd[opt][u][l]
      OBVIOUS
    <3>2. pc[u] = 1 /\ a \in Nat /\ b \in Nat /\ b > a + 1
      BY <2>1, <2>2, <3>1
    <3>3. ~(pc[u] > b)
      BY <3>2
    <3> QED BY <3>1, <3>3 DEF Finished
  <2>5. ASSUME NEW c \in 1..Channels PROVE ~(pc[<<r, c>>] > RoundEnd[opt][<<r, c>>][l - 1] + 1)
    <3>1. PICK u, a : u = <<r, c>> /\ a = RoundEnd[opt][u][l - 1]
      OBVIOUS
    <3>2. pc[u] = 1 /\ a \in Nat
      BY <2>1, <3>1
    <3>3. ~(pc[u] > a + 1)
      BY <3>2
    <3> QED BY <3>1, <3>3
  <2> QED BY <2>4, <2>5 DEF Began
<1>3. \A r \in Ranks, l \in 1..MaxRounds : ~Began(r, l) /\ ~Finished(r, l)
  BY <1>2 DEF Began, Finished
<1> QED BY <1>3 DEF Abstract!Init, Abstract!Calls

(* The templates and the executor implement Collective: a rank gets the    *)
(* sum of all inputs in every round, not before every rank has entered the *)
(* round, once, and keeps it.                                              *)
THEOREM Implements == Spec => Abstract!Spec
<1> DEFINE Sound == HaveType /\ DeliveredWhenFinished /\ EveryoneBegan
<1>1. Init => Abstract!Init
  BY CollectiveInit
<1>2. Sound /\ Sound' /\ [Next]_vars => [Abstract!Next]_(Abstract!vars)
  <2> SUFFICES ASSUME Sound, Sound', [Next]_vars
               PROVE  Abstract!Next \/ UNCHANGED Abstract!vars
    OBVIOUS
  <2>1. ASSUME NEW t \in Threads, Execute(t) PROVE Abstract!Next \/ UNCHANGED Abstract!vars
    BY <2>1, CollectiveStep
  <2>2. CASE UNCHANGED vars
    <3>1. Entered' = Entered /\ Outputs' = Outputs
      BY <2>2 DEF vars, Entered, Outputs, Began, Finished, Delivered
    <3> QED BY <3>1, CollectiveSteps
  <2> QED BY <2>1, <2>2 DEF Next
<1>3. Spec => []Sound
  <2>1. Spec => []HaveType
    BY Exchanges, PTL
  <2> QED BY <2>1, SumDelivered, NoneEarly, PTL
<1> HIDE DEF Sound
<1> QED BY <1>1, <1>2, <1>3, PTL DEF Spec, Abstract!Spec
=============================================================================
