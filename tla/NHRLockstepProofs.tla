------------------------- MODULE NHRLockstepProofs -------------------------
(***************************************************************************)
(* Proofs about NHRLockstep, and with it about the tables of NHRSchedule,  *)
(* for rings of any size: the tables of the ranks agree, the ReduceScatter *)
(* and the AllGather reduce each contribution once, and the copies that    *)
(* are saved are not missed.                                               *)
(*                                                                         *)
(* The induction theorems of the library take an operator, which is beyond *)
(* the provers; SetInduction states the principle for a set, from the well *)
(* ordering of the natural numbers.                                        *)
(***************************************************************************)
EXTENDS NHRLockstep, FiniteSetTheorems, TLAPS

Less == {ss \in Nat \X Nat : ss[1] < ss[2]}

(* How far up the ring rank r is from rank s, the owner of slice s.        *)
Off(m, r, s) == IF s <= r THEN r - s ELSE r + m - s

Multiple(e, o) == \E i \in 0..o : o = e * i

(* The ranks whose offset from s is at least lo and less than hi.          *)
Stretch(s, lo, hi) == {x \in Ranks : lo <= Off(n, x, s) /\ Off(n, x, s) < hi}

HaveType ==
  /\ n \in 2..MaxN
  /\ k \in 0..(2 * StepNum)
  /\ have \in [Ranks -> [Ranks -> SUBSET Ranks]]

(* After k steps of the ReduceScatter, a copy that is still in use, at a   *)
(* multiple of the distance 2^k, is the reduction of the 2^k ranks from    *)
(* its own upwards, as far as the ring goes.                               *)
Scattered ==
  k <= StepNum =>
    \A r, s \in Ranks : Multiple(2^k, Off(n, r, s)) =>
      have[r][s] = Stretch(s, Off(n, r, s), Off(n, r, s) + 2^k)

(* After the ReduceScatter the owner has its slice, and every step of the  *)
(* AllGather halves the distance between those who have it.                *)
Gathered ==
  k >= StepNum =>
    \A r, s \in Ranks : Multiple(2^(2 * StepNum - k), Off(n, r, s)) => have[r][s] = Ranks

IInv == HaveType /\ Scattered /\ Gathered

-----------------------------------------------------------------------------
(* Arithmetic *)

(* Every set of natural numbers has a least element.                       *)
LEMMA LeastElement ==
  ASSUME NEW T \in SUBSET Nat, T # {}
  PROVE  \E x \in T : \A y \in T : x <= y
<1>1. IsWellFoundedOn(Less, Nat)
  BY NatLessThanWellFounded DEF OpToRel, Less
<1>2. PICK x \in T : \A y \in T : ~(<<y, x>> \in Less)
  BY <1>1, WFMin
<1>3. ASSUME NEW y \in T PROVE x <= y
  <2>1. ~(<<y, x>> \in Less)
    BY <1>2
  <2>2. ~(y < x)
    BY <2>1 DEF Less
  <2> QED BY <2>2
<1> QED BY <1>3

(* Induction over the natural numbers, as a statement about a set.         *)
LEMMA SetInduction ==
  ASSUME NEW T, 0 \in T, \A i \in Nat : i \in T => i + 1 \in T
  PROVE  \A i \in Nat : i \in T
<1> DEFINE U == Nat \ T
<1>1. SUFFICES ASSUME U # {} PROVE FALSE
  OBVIOUS
<1>2. PICK x \in U : \A y \in U : x <= y
  <2>1. U \in SUBSET Nat
    OBVIOUS
  <2> HIDE DEF U
  <2> QED BY <1>1, <2>1, LeastElement
<1>3. x # 0 /\ x - 1 \in Nat
  OBVIOUS
<1>4. x - 1 \in T
  BY <1>2, <1>3
<1>5. (x - 1) + 1 \in T
  BY <1>3, <1>4
<1> QED BY <1>5

(* A function defined by recursion over the natural numbers exists.        *)
LEMMA PrimitiveRecursion ==
  ASSUME NEW A, NEW a \in A, NEW F \in [A -> A]
  PROVE  \E g \in [Nat -> A] : g[0] = a /\ \A i \in Nat : g[i + 1] = F[g[i]]
<1> DEFINE Begins(j, g) == /\ g \in [0..j -> A]
                           /\ g[0] = a
                           /\ \A i \in 0..(j - 1) : g[i + 1] = F[g[i]]
<1>1. \A j \in Nat : \E g : Begins(j, g)
  <2> DEFINE T == {j \in Nat : \E g : Begins(j, g)}
  <2>1. 0 \in T
    <3>1. Begins(0, [i \in 0..0 |-> a])
      OBVIOUS
    <3> QED BY <3>1
  <2>2. ASSUME NEW j \in Nat, j \in T PROVE j + 1 \in T
    <3>1. PICK g : Begins(j, g)
      BY <2>2
    <3> DEFINE h == [i \in 0..(j + 1) |-> IF i = j + 1 THEN F[g[j]] ELSE g[i]]
    <3>2. h \in [0..(j + 1) -> A]
      BY <3>1
    <3>3. h[0] = a
      BY <3>1
    <3>4. \A i \in 0..j : h[i + 1] = F[h[i]]
      BY <3>1
    <3>5. Begins(j + 1, h)
      BY <3>2, <3>3, <3>4
    <3> HIDE DEF Begins, h
    <3> QED BY <3>5
  <2> HIDE DEF T
  <2>3. \A j \in Nat : j \in T
    BY <2>1, <2>2, SetInduction
  <2> QED BY <2>3 DEF T
<1>2. ASSUME NEW p \in Nat, NEW q \in Nat, NEW g, NEW h, Begins(p, g), Begins(q, h)
      PROVE  \A i \in Nat : i <= p /\ i <= q => g[i] = h[i]
  <2> DEFINE T == {i \in Nat : i <= p /\ i <= q => g[i] = h[i]}
  <2>1. 0 \in T
    BY <1>2
  <2>2. ASSUME NEW i \in Nat, i \in T PROVE i + 1 \in T
    <3>1. SUFFICES ASSUME i + 1 <= p, i + 1 <= q PROVE g[i + 1] = h[i + 1]
      OBVIOUS
    <3>2. i \in 0..(p - 1) /\ i \in 0..(q - 1)
      BY <3>1
    <3>3. g[i] = h[i]
      BY <2>2, <3>1
    <3> QED BY <1>2, <3>2, <3>3
  <2> HIDE DEF T
  <2>3. \A i \in Nat : i \in T
    BY <2>1, <2>2, SetInduction
  <2> QED BY <2>3 DEF T
<1> DEFINE G == [j \in Nat |-> CHOOSE g : Begins(j, g)]
           f == [j \in Nat |-> G[j][j]]
<1>3. ASSUME NEW j \in Nat PROVE Begins(j, G[j])
  <2>1. \E g : Begins(j, g)
    BY <1>1
  <2> HIDE DEF Begins
  <2> QED BY <2>1
<1>4. f \in [Nat -> A]
  <2>1. ASSUME NEW j \in Nat PROVE G[j][j] \in A
    <3>1. G[j] \in [0..j -> A]
      BY <1>3
    <3>2. j \in 0..j
      OBVIOUS
    <3> HIDE DEF G
    <3> QED BY <3>1, <3>2
  <2> HIDE DEF G
  <2> QED BY <2>1
<1>5. f[0] = a
  BY <1>3
<1>6. ASSUME NEW i \in Nat PROVE f[i + 1] = F[f[i]]
  <2>1. Begins(i, G[i]) /\ Begins(i + 1, G[i + 1])
    <3>1. i + 1 \in Nat
      OBVIOUS
    <3> HIDE DEF Begins, G
    <3> QED BY <1>3, <3>1
  <2>2. G[i + 1][i] = G[i][i]
    <3> HIDE DEF Begins, G
    <3> QED BY <1>2, <2>1
  <2>3. G[i + 1][i + 1] = F[G[i + 1][i]]
    <3> HIDE DEF G
    <3>1. i \in 0..((i + 1) - 1)
      OBVIOUS
    <3> QED BY <2>1, <3>1
  <2> QED BY <2>2, <2>3
<1> HIDE DEF f
<1> QED BY <1>4, <1>5, <1>6

(* 2^i by recursion: half of the subsets of 1..(i + 1) lack i + 1.         *)
LEMMA PowerOfTwo ==
  ASSUME NEW i \in Nat
  PROVE  /\ 2^i \in Nat /\ 2^i > i
         /\ 2^(i + 1) = 2 * 2^i
<1>1. ASSUME NEW j \in Nat PROVE IsFiniteSet(1..j) /\ Cardinality(1..j) = j
  BY FS_Interval
<1>2. ASSUME NEW j \in Nat PROVE /\ IsFiniteSet(SUBSET (1..j))
                                 /\ Cardinality(SUBSET (1..j)) = 2^j
                                 /\ 2^j \in Nat
  BY <1>1, FS_SUBSET, FS_CardinalityType
<1>3. ASSUME NEW j \in Nat PROVE 2^(j + 1) = 2 * 2^j
  <2> DEFINE Old == SUBSET (1..j)
             New == {X \in SUBSET (1..(j + 1)) : j + 1 \in X}
             F == [X \in Old |-> X \cup {j + 1}]
  <2>1. SUBSET (1..(j + 1)) = Old \cup New
    <3>1. 1..(j + 1) = (1..j) \cup {j + 1}
      OBVIOUS
    <3>2. j + 1 \notin 1..j
      OBVIOUS
    <3> QED BY <3>1, <3>2
  <2>2. Old \cap New = {}
    OBVIOUS
  <2>3. F \in Bijection(Old, New)
    <3>1. F \in [Old -> New]
      OBVIOUS
    <3>2. \A X, Y \in Old : F[X] = F[Y] => X = Y
      <4>1. TAKE X, Y \in Old
      <4>2. j + 1 \notin X /\ j + 1 \notin Y
        OBVIOUS
      <4> QED BY <4>2
    <3>3. \A Z \in New : \E X \in Old : F[X] = Z
      <4>1. TAKE Z \in New
      <4>2. Z \ {j + 1} \in Old
        OBVIOUS
      <4>3. F[Z \ {j + 1}] = Z
        BY <4>2
      <4> QED BY <4>2, <4>3
    <3> HIDE DEF F, Old, New
    <3> QED BY <3>1, <3>2, <3>3 DEF Bijection, Injection, Surjection, IsInjective
  <2>4. IsFiniteSet(Old) /\ Cardinality(Old) = 2^j
    BY <1>2
  <2>5. IsFiniteSet(New) /\ Cardinality(New) = 2^j
    <3>1. ExistsBijection(Old, New)
      <4> HIDE DEF F, Old, New
      <4> QED BY <2>3 DEF ExistsBijection
    <3> HIDE DEF F, Old, New
    <3> QED BY <3>1, <2>4, FS_Bijection
  <2>6. Cardinality(Old \cup New) = 2^j + 2^j
    <3> HIDE DEF F, Old, New
    <3>1. Cardinality(Old \cap New) = 0
      BY <2>2, FS_EmptySet
    <3>2. Cardinality(Old \cup New) = 2^j + 2^j - 0
      BY <2>4, <2>5, <3>1, FS_Union
    <3> QED BY <3>2, <1>2
  <2>7. Cardinality(SUBSET (1..(j + 1))) = 2^(j + 1)
    <3>1. j + 1 \in Nat
      OBVIOUS
    <3> QED BY <3>1, <1>2, Zenon
  <2> QED BY <1>2, <2>1, <2>6, <2>7
<1>4. \A j \in Nat : 2^j > j
  <2> DEFINE T == {j \in Nat : 2^j > j}
  <2>1. 0 \in T
    OBVIOUS
  <2>2. ASSUME NEW j \in Nat, j \in T PROVE j + 1 \in T
    BY <1>2, <1>3, <2>2
  <2> HIDE DEF T
  <2>3. \A j \in Nat : j \in T
    BY <2>1, <2>2, SetInduction
  <2> QED BY <2>3 DEF T
<1> QED BY <1>2, <1>3, <1>4

-----------------------------------------------------------------------------
(* The tables *)

(* The remainder of a number that is at most once around the ring.         *)
LEMMA RingMod ==
  ASSUME NEW m \in Nat \ {0}, NEW x \in 0..(2 * m - 1)
  PROVE  x % m = IF x < m THEN x ELSE x - m
OBVIOUS

(* The recursion in SliceIdx defines a function, whatever the stride.      *)
LEMMA SliceIdxSteps ==
  ASSUME NEW m \in Nat \ {0}, U32 \in Nat \ {0}, NEW r \in 0..(m - 1), NEW d \in Nat
  PROVE  LET idx == S(m)!SliceIdx(r, d)
         IN  /\ idx[0] = r
             /\ \A i \in Nat : idx[i + 1] = ((idx[i] + m - 2 * d) % U32) % m
<1> DEFINE Rec(g) == g = [i \in Nat |-> IF i = 0 THEN r
                                       ELSE ((g[i - 1] + m - 2 * d) % U32) % m]
<1>1. S(m)!SliceIdx(r, d) = CHOOSE g : Rec(g)
  BY DEF S!SliceIdx
<1> DEFINE F == [x \in 0..(m - 1) |-> ((x + m - 2 * d) % U32) % m]
<1>2. F \in [0..(m - 1) -> 0..(m - 1)]
  <2>1. ASSUME NEW x \in 0..(m - 1) PROVE ((x + m - 2 * d) % U32) % m \in 0..(m - 1)
    <3>1. (x + m - 2 * d) % U32 \in Int
      OBVIOUS
    <3> QED BY <3>1
  <2> QED BY <2>1
<1>3. PICK g \in [Nat -> 0..(m - 1)] : g[0] = r /\ \A i \in Nat : g[i + 1] = F[g[i]]
  <2> DEFINE A == 0..(m - 1)
             start == r
  <2> HIDE DEF F
  <2>1. start \in A /\ F \in [A -> A]
    BY <1>2
  <2> HIDE DEF A, start
  <2>2. \E g \in [Nat -> A] : g[0] = start /\ \A i \in Nat : g[i + 1] = F[g[i]]
    BY <2>1, PrimitiveRecursion, SMT
  <2> QED BY <2>2 DEF A, start
<1>4. Rec(g)
  <2>1. ASSUME NEW i \in Nat PROVE g[i] = IF i = 0 THEN r ELSE ((g[i - 1] + m - 2 * d) % U32) % m
    <3>1. CASE i = 0
      BY <1>3, <3>1
    <3>2. CASE i # 0
      <4>1. i - 1 \in Nat /\ (i - 1) + 1 = i
        BY <3>2
      <4>2. g[(i - 1) + 1] = F[g[i - 1]]
        BY <1>3, <4>1
      <4>3. g[i - 1] \in 0..(m - 1)
        BY <4>1
      <4> QED BY <4>1, <4>2, <4>3, <3>2
    <3> QED BY <3>1, <3>2
  <2>2. g = [i \in Nat |-> g[i]]
    OBVIOUS
  <2> QED BY <2>1, <2>2
<1>5. Rec(S(m)!SliceIdx(r, d))
  <2> HIDE DEF Rec
  <2> QED BY <1>1, <1>4
<1> HIDE DEF F
<1>6. ASSUME NEW idx, Rec(idx)
      PROVE  idx[0] = r /\ \A i \in Nat : idx[i + 1] = ((idx[i] + m - 2 * d) % U32) % m
  <2>1. idx[0] = r
    BY <1>6
  <2>2. ASSUME NEW i \in Nat PROVE idx[i + 1] = ((idx[i] + m - 2 * d) % U32) % m
    <3>1. i + 1 \in Nat /\ i + 1 # 0 /\ (i + 1) - 1 = i
      OBVIOUS
    <3>2. \A j \in Nat \ {0} : idx[j] = ((idx[j - 1] + m - 2 * d) % U32) % m
      BY <1>6
    <3>3. idx[i + 1] = ((idx[(i + 1) - 1] + m - 2 * d) % U32) % m
      <4> HIDE DEF Rec
      <4> QED BY <3>1, <3>2
    <3> QED BY <3>1, <3>3
  <2> QED BY <2>1, <2>2
<1> HIDE DEF Rec
<1> QED BY <1>5, <1>6

(* Products of natural numbers are monotone.                               *)
LEMMA TimesMonotone ==
  ASSUME NEW c \in Nat, NEW a \in Nat, NEW b \in Nat, a <= b
  PROVE  c * a <= c * b
<1>1. PICK x \in Nat : b = a + x
  <2>1. b - a \in Nat /\ b = a + (b - a)
    OBVIOUS
  <2> QED BY <2>1
<1>2. c * b = c * a + c * x
  BY <1>1
<1>3. c * x \in Nat
  OBVIOUS
<1> QED BY <1>2, <1>3

(* SliceNum counts the offsets that stay a distance d within the ring.     *)
LEMMA SliceNumIs ==
  ASSUME NEW m \in Nat \ {0}, NEW d \in Nat \ {0}
  PROVE  /\ S(m)!SliceNum(d) \in Nat
         /\ \A i \in Nat : i < S(m)!SliceNum(d) <=> (2 * d) * i + d < m
<1> DEFINE e == 2 * d
           a == m - 1 + d
           q == a \div e
<1>1. S(m)!SliceNum(d) = q
  BY DEF S!SliceNum
<1>2. a \in Nat /\ e \in Nat \ {0}
  OBVIOUS
<1>3. q \in Nat /\ e * q <= a /\ a < e * q + e
  <2> HIDE DEF a, e
  <2> QED BY <1>2
<1>4. ASSUME NEW i \in Nat PROVE i < q <=> e * i + d < m
  <2>1. e * (i + 1) = e * i + e
    OBVIOUS
  <2>2. CASE i < q
    <3>1. e * (i + 1) <= e * q
      <4> HIDE DEF e, q
      <4> QED BY <1>2, <1>3, <2>2, TimesMonotone
    <3>2. e * i + e <= a
      <4> HIDE DEF e, q, a
      <4> QED BY <1>2, <1>3, <2>1, <3>1
    <3>3. e * i \in Nat
      OBVIOUS
    <3> QED BY <3>2, <3>3, <2>2
  <2>3. CASE ~(i < q)
    <3>1. e * q <= e * i
      <4> HIDE DEF e, q
      <4> QED BY <1>2, <1>3, <2>3, TimesMonotone
    <3>2. a < e * i + e
      <4>1. e * i \in Nat /\ e * q \in Nat
        BY <1>3
      <4> HIDE DEF e, q, a
      <4> QED BY <1>2, <1>3, <3>1, <4>1
    <3>3. e * i \in Nat
      OBVIOUS
    <3> QED BY <3>2, <3>3, <2>3
  <2> QED BY <2>2, <2>3
<1> QED BY <1>1, <1>3, <1>4

(* Within a step the unsigned subtraction of SliceIdx never wraps, so that *)
(* the slices are the offsets 0, 2d, 4d and so on below the start.         *)
LEMMA SliceIdxIs ==
  ASSUME NEW m \in Nat \ {0}, U32 \in Nat, 4 * m < U32,
         NEW r \in 0..(m - 1), NEW d \in Nat \ {0},
         NEW i \in Nat, i < S(m)!SliceNum(d)
  PROVE  S(m)!SliceIdx(r, d)[i] = IF (2 * d) * i <= r THEN r - (2 * d) * i
                                  ELSE r + m - (2 * d) * i
<1> DEFINE idx == S(m)!SliceIdx(r, d)
           e == 2 * d
           At(j) == idx[j] = IF e * j <= r THEN r - e * j ELSE r + m - e * j
           T == {j \in Nat : j < S(m)!SliceNum(d) => At(j)}
<1>1. /\ idx[0] = r
      /\ \A j \in Nat : idx[j + 1] = ((idx[j] + m - e) % U32) % m
  BY SliceIdxSteps
<1>2. 0 \in T
  <2>1. e * 0 = 0
    OBVIOUS
  <2> QED BY <1>1, <2>1
<1>3. ASSUME NEW j \in Nat, j \in T PROVE j + 1 \in T
  <2>1. SUFFICES ASSUME j + 1 < S(m)!SliceNum(d) PROVE At(j + 1)
    OBVIOUS
  <2>2. e * (j + 1) + d < m
    BY <2>1, SliceNumIs
  <2>3. e * (j + 1) = e * j + e /\ e * j \in Nat /\ e \in Nat \ {0}
    OBVIOUS
  <2>4. At(j)
    <3>1. j < S(m)!SliceNum(d)
      BY <2>1, SliceNumIs
    <3> QED BY <3>1, <1>3
  <2> DEFINE p == e * j
             x == idx[j] + m - e
  <2> HIDE DEF e, idx
  <2>5. idx[j] = (IF p <= r THEN r - p ELSE r + m - p) /\ p + e + d < m /\ p \in Nat
    BY <2>2, <2>3, <2>4
  <2>6. e * (j + 1) = p + e
    BY <2>3
  <2> HIDE DEF p
  <2>7. x \in 0..(2 * m - 1) /\ x < U32 /\ x = IF p <= r THEN r - p + m - e ELSE r + m - p + m - e
    BY <2>3, <2>5
  <2>8. x % U32 = x
    BY <2>7
  <2>9. idx[j + 1] = x % m
    BY <1>1, <2>8
  <2>10. x % m = IF x < m THEN x ELSE x - m
    BY <2>7, RingMod
  <2> QED BY <2>3, <2>5, <2>6, <2>7, <2>9, <2>10
<1> HIDE DEF T
<1>4. \A j \in Nat : j \in T
  BY <1>2, <1>3, SetInduction
<1>5. At(i)
  BY <1>4 DEF T
<1> QED BY <1>5

(* The slices of a step, by their offset.                                  *)
LEMMA SliceSetIs ==
  ASSUME NEW m \in Nat \ {0}, U32 \in Nat, 4 * m < U32,
         NEW r \in 0..(m - 1), NEW d \in Nat \ {0}
  PROVE  S(m)!SliceSet(r, d) =
           {s \in 0..(m - 1) : Multiple(2 * d, Off(m, r, s)) /\ Off(m, r, s) + d < m}
<1> DEFINE num == S(m)!SliceNum(d)
           e == 2 * d
<1>1. S(m)!SliceSet(r, d) = {S(m)!SliceIdx(r, d)[i] : i \in 0..(num - 1)}
  BY DEF S!SliceSet
<1>2. num \in Nat /\ e \in Nat \ {0}
  BY SliceNumIs
<1>3. ASSUME NEW i \in 0..(num - 1)
      PROVE  LET s == S(m)!SliceIdx(r, d)[i]
             IN  s \in 0..(m - 1) /\ Off(m, r, s) = e * i /\ e * i + d < m /\ e * i \in Nat /\ i \in 0..(e * i)
  <2> DEFINE s == S(m)!SliceIdx(r, d)[i]
  <2>1. i \in Nat /\ i < num
    BY <1>2
  <2>2. s = IF e * i <= r THEN r - e * i ELSE r + m - e * i
    BY <2>1, SliceIdxIs
  <2>3. e * i + d < m
    BY <2>1, SliceNumIs
  <2>4. e * i \in Nat /\ i <= e * i
    <3>1. e * i = i + (e - 1) * i /\ (e - 1) * i \in Nat
      BY <1>2, <2>1
    <3> QED BY <3>1, <2>1
  <2> DEFINE p == e * i
  <2> HIDE DEF s, p
  <2>5. s \in 0..(m - 1) /\ Off(m, r, s) = p
    <3>1. s = IF p <= r THEN r - p ELSE r + m - p
      BY <2>2 DEF p
    <3>2. p \in Nat /\ p < m
      <4>1. p + d < m /\ p \in Nat
        BY <2>3, <2>4 DEF p
      <4> QED BY <4>1
    <3> QED BY <3>1, <3>2 DEF Off
  <2> QED BY <2>1, <2>3, <2>4, <2>5 DEF s, p
<1>4. ASSUME NEW s \in 0..(m - 1), NEW i \in 0..Off(m, r, s),
             Off(m, r, s) = e * i, Off(m, r, s) + d < m
      PROVE  i \in 0..(num - 1) /\ s = S(m)!SliceIdx(r, d)[i]
  <2>1. i \in Nat /\ Off(m, r, s) \in Nat
    BY DEF Off
  <2>2. i < num
    BY <1>4, <2>1, SliceNumIs
  <2>3. S(m)!SliceIdx(r, d)[i] = IF e * i <= r THEN r - e * i ELSE r + m - e * i
    BY <2>1, <2>2, SliceIdxIs
  <2> DEFINE p == e * i
  <2>4. s = IF p <= r THEN r - p ELSE r + m - p
    <3>1. p = IF s <= r THEN r - s ELSE r + m - s
      BY <1>4 DEF Off
    <3> HIDE DEF p
    <3> QED BY <3>1
  <2> QED BY <1>2, <2>1, <2>2, <2>3, <2>4
<1> HIDE DEF num, e
<1>5. S(m)!SliceSet(r, d) \subseteq {s \in 0..(m - 1) : Multiple(e, Off(m, r, s)) /\ Off(m, r, s) + d < m}
  BY <1>1, <1>3 DEF Multiple
<1>6. {s \in 0..(m - 1) : Multiple(e, Off(m, r, s)) /\ Off(m, r, s) + d < m} \subseteq S(m)!SliceSet(r, d)
  BY <1>1, <1>4 DEF Multiple
<1> QED BY <1>5, <1>6 DEF e

(* GetNHRStepNum is well defined, and at least one.                        *)
LEMMA StepNumIs ==
  ASSUME NEW m \in Nat \ {0, 1}
  PROVE  /\ S(m)!StepNum \in 1..m
         /\ m <= 2^(S(m)!StepNum)
         /\ \A i \in 0..(S(m)!StepNum - 1) : 2^i < m
<1> DEFINE Large == {i \in Nat : 2^i >= m}
           Is(i) == 2^i >= m /\ \A j \in 0..(i - 1) : 2^j < m
<1>1. m \in Large
  BY PowerOfTwo
<1>2. PICK x \in Large : \A y \in Large : x <= y
  <2>1. Large \in SUBSET Nat /\ Large # {}
    BY <1>1
  <2> HIDE DEF Large
  <2> QED BY <2>1, LeastElement
<1>3. x \in 0..m
  BY <1>1, <1>2
<1>4. Is(x)
  <2>1. ASSUME NEW j \in 0..(x - 1) PROVE 2^j < m
    <3>1. j \in Nat /\ ~(x <= j)
      BY <1>3
    <3>2. j \notin Large
      BY <1>2, <3>1
    <3>3. 2^j \in Nat
      BY <3>1, PowerOfTwo
    <3> QED BY <3>1, <3>2, <3>3
  <2> QED BY <1>2, <2>1
<1>5. S(m)!StepNum = CHOOSE i \in 0..m : Is(i)
  BY DEF S!StepNum
<1>6. S(m)!StepNum \in 0..m /\ Is(S(m)!StepNum)
  <2> HIDE DEF Is
  <2> QED BY <1>3, <1>4, <1>5
<1>7. S(m)!StepNum # 0
  <2>1. SUFFICES ASSUME S(m)!StepNum = 0 PROVE FALSE
    OBVIOUS
  <2>2. 2^0 >= m
    BY <1>6, <2>1
  <2>3. 2^0 = 1
    OBVIOUS
  <2> QED BY <2>2, <2>3
<1> QED BY <1>6, <1>7

(* The distance of a step is less than the ring.                           *)
LEMMA Distance ==
  ASSUME NEW m \in Nat \ {0, 1}, NEW i \in 0..(S(m)!StepNum - 1)
  PROVE  /\ 2^i \in 1..(m - 1)
         /\ 2^(i + 1) = 2 * 2^i
         /\ i \in Nat
         /\ S(m)!StepNum - 1 - i \in 0..(S(m)!StepNum - 1)
<1>1. i \in Nat
  BY StepNumIs
<1>2. 2^i < m
  BY StepNumIs
<1>3. S(m)!StepNum \in Nat
  BY StepNumIs
<1> QED BY <1>1, <1>2, <1>3, PowerOfTwo

(* Below and Above without the remainder.                                  *)
LEMMA Neighbours ==
  ASSUME NEW m \in Nat \ {0, 1}, NEW r \in 0..(m - 1), NEW d \in 1..(m - 1)
  PROVE  /\ S(m)!Below(r, d) = IF d <= r THEN r - d ELSE r + m - d
         /\ S(m)!Above(r, d) = IF r + d < m THEN r + d ELSE r + d - m
<1>1. /\ r + m - d \in 0..(2 * m - 1)
      /\ r + d \in 0..(2 * m - 1)
  OBVIOUS
<1>a. \A x \in 0..(2 * m - 1) : x % m = IF x < m THEN x ELSE x - m
  BY RingMod
<1>2. /\ (r + m - d) % m = IF r + m - d < m THEN r + m - d ELSE r + m - d - m
      /\ (r + d) % m = IF r + d < m THEN r + d ELSE r + d - m
  BY <1>1, <1>a
<1> QED BY <1>2 DEF S!Below, S!Above

(* A rank is determined by its offset from a slice.                        *)
LEMMA OffType ==
  ASSUME NEW m \in Nat \ {0}, NEW r \in 0..(m - 1), NEW s \in 0..(m - 1)
  PROVE  /\ Off(m, r, s) \in 0..(m - 1)
         /\ Off(m, r, s) = 0 <=> r = s
         /\ \A x \in 0..(m - 1) : Off(m, x, s) = Off(m, r, s) <=> x = r
BY DEF Off

(* How the offset of a slice changes from a rank to its neighbours.        *)
LEMMA OffNeighbours ==
  ASSUME NEW m \in Nat \ {0, 1}, NEW r \in 0..(m - 1), NEW s \in 0..(m - 1), NEW d \in 1..(m - 1)
  PROVE  /\ S(m)!Below(r, d) \in 0..(m - 1)
         /\ S(m)!Above(r, d) \in 0..(m - 1)
         /\ Off(m, r, s) + d < m => Off(m, S(m)!Above(r, d), s) = Off(m, r, s) + d
         /\ d <= Off(m, r, s) => Off(m, S(m)!Below(r, d), s) = Off(m, r, s) - d
         /\ Off(m, S(m)!Below(r, d), s) + d < m => Off(m, r, s) = Off(m, S(m)!Below(r, d), s) + d
<1> DEFINE b == S(m)!Below(r, d)
           a == S(m)!Above(r, d)
<1>1. /\ b = IF d <= r THEN r - d ELSE r + m - d
      /\ a = IF r + d < m THEN r + d ELSE r + d - m
  BY Neighbours
<1> HIDE DEF a, b
<1>2. a \in 0..(m - 1) /\ b \in 0..(m - 1)
  BY <1>1
<1>3. Off(m, r, s) + d < m => Off(m, a, s) = Off(m, r, s) + d
  BY <1>1 DEF Off
<1>4. d <= Off(m, r, s) => Off(m, b, s) = Off(m, r, s) - d
  BY <1>1 DEF Off
<1>5. Off(m, b, s) + d < m => Off(m, r, s) = Off(m, b, s) + d
  BY <1>1 DEF Off
<1> QED BY <1>2, <1>3, <1>4, <1>5 DEF a, b

(* Multiples of a distance and of twice the distance.                      *)
LEMMA MultipleFacts ==
  ASSUME NEW d \in Nat \ {0}, NEW o \in Nat
  PROVE  /\ Multiple(d, 0)
         /\ Multiple(1, o)
         /\ Multiple(d, o) => o = 0 \/ o >= d
         /\ Multiple(d, o) => Multiple(d, o + d)
         /\ Multiple(2 * d, o) => Multiple(d, o)
         /\ Multiple(d, o) => Multiple(2 * d, o) \/ (o >= d /\ Multiple(2 * d, o - d))
<1>1. Multiple(d, 0)
  <2>1. 0 = d * 0 /\ 0 \in 0..0
    OBVIOUS
  <2> QED BY <2>1 DEF Multiple
<1>2. Multiple(1, o)
  <2>1. o = 1 * o /\ o \in 0..o
    OBVIOUS
  <2> QED BY <2>1 DEF Multiple
<1>3. ASSUME NEW c \in Nat \ {0}, NEW i \in Nat, NEW p \in Nat, p = c * i PROVE Multiple(c, p)
  <2>1. p = i + (c - 1) * i /\ (c - 1) * i \in Nat
    BY <1>3
  <2>2. i \in 0..p
    BY <2>1
  <2> QED BY <1>3, <2>2 DEF Multiple
<1>4. ASSUME Multiple(d, o)
      PROVE  /\ o = 0 \/ o >= d
             /\ Multiple(d, o + d)
             /\ Multiple(2 * d, o) \/ (o >= d /\ Multiple(2 * d, o - d))
  <2>1. PICK i \in Nat : o = d * i
    BY <1>4 DEF Multiple
  <2>2. o = 0 \/ o >= d
    <3>1. CASE i = 0
      BY <2>1, <3>1
    <3>2. CASE i # 0
      <4>1. d * i = d + d * (i - 1) /\ d * (i - 1) \in Nat
        BY <3>2
      <4> QED BY <2>1, <4>1
    <3> QED BY <3>1, <3>2
  <2>3. Multiple(d, o + d)
    <3>1. o + d = d * (i + 1) /\ i + 1 \in Nat /\ o + d \in Nat
      BY <2>1
    <3> QED BY <1>3, <3>1, Zenon
  <2>4. Multiple(2 * d, o) \/ (o >= d /\ Multiple(2 * d, o - d))
    <3>1. PICK h \in Nat : i = 2 * h \/ i = 2 * h + 1
      <4>1. i \div 2 \in Nat /\ (i = 2 * (i \div 2) \/ i = 2 * (i \div 2) + 1)
        OBVIOUS
      <4> QED BY <4>1
    <3>2. CASE i = 2 * h
      <4>1. o = (2 * d) * h
        BY <2>1, <3>2
      <4> QED BY <1>3, <4>1
    <3>3. CASE i = 2 * h + 1
      <4>1. o = (2 * d) * h + d /\ (2 * d) * h \in Nat
        BY <2>1, <3>3
      <4>2. o - d = (2 * d) * h /\ o - d \in Nat /\ o >= d
        BY <4>1
      <4> QED BY <1>3, <4>2
    <3> QED BY <3>1, <3>2, <3>3
  <2> QED BY <2>2, <2>3, <2>4
<1>5. ASSUME Multiple(2 * d, o) PROVE Multiple(d, o)
  <2>1. PICK i \in Nat : o = (2 * d) * i
    BY <1>5 DEF Multiple
  <2>2. o = d * (2 * i) /\ 2 * i \in Nat
    BY <2>1
  <2> QED BY <1>3, <2>2, Zenon
<1> QED BY <1>1, <1>2, <1>4, <1>5

(* An odd offset is not a multiple of twice a distance, nor, after the     *)
(* first step, that and the distance.                                      *)
LEMMA OddAndEven ==
  ASSUME NEW o \in Nat, Multiple(2, o), NEW i \in Nat, i > 0, NEW p \in Nat, Multiple(2 * 2^i, p)
  PROVE  /\ p # o + 1
         /\ p + 2^i # o + 1
<1>1. PICK x \in Nat : o = 2 * x
  BY DEF Multiple
<1>2. PICK y \in Nat : p = (2 * 2^i) * y
  BY DEF Multiple
<1>3. 2^i = 2 * 2^(i - 1) /\ 2^(i - 1) \in Nat /\ 2^i \in Nat
  <2>1. i - 1 \in Nat /\ (i - 1) + 1 = i
    OBVIOUS
  <2> QED BY <2>1, PowerOfTwo
<1>4. p = 2 * (2^i * y) /\ 2^i * y \in Nat
  BY <1>2, <1>3
<1> DEFINE q == 2^i * y
           h == 2^(i - 1)
<1> HIDE DEF q, h
<1>5. p = 2 * q /\ q \in Nat /\ 2^i = 2 * h /\ h \in Nat
  BY <1>3, <1>4 DEF q, h
<1> QED BY <1>1, <1>5

-----------------------------------------------------------------------------
(* The inductive invariant *)

(* What the assumption on the constants says about the current ring.       *)
LEMMA RingFacts ==
  ASSUME n \in 2..MaxN
  PROVE  /\ n \in Nat \ {0, 1} /\ n \in Nat \ {0}
         /\ U32 \in Nat /\ 4 * n < U32
         /\ StepNum \in Nat \ {0}
         /\ n <= 2^StepNum
<1>1. n \in Nat \ {0, 1} /\ n \in Nat \ {0} /\ U32 \in Nat /\ 4 * n < U32
  BY LockstepAssumption
<1>2. S(n)!StepNum \in 1..n /\ n <= 2^(S(n)!StepNum)
  BY <1>1, StepNumIs
<1>3. StepNum \in 1..n /\ n <= 2^StepNum
  BY <1>2 DEF StepNum
<1> QED BY <1>1, <1>3

(* The tables of one step of the ReduceScatter.                            *)
LEMMA ScatterStep ==
  ASSUME n \in 2..MaxN, NEW i \in 0..(StepNum - 1), NEW r \in Ranks
  PROVE  /\ 2^i \in 1..(n - 1)
         /\ 2^(i + 1) = 2 * 2^i
         /\ S(n)!ScatterTo(i, r) = S(n)!Below(r, 2^i)
         /\ S(n)!ScatterFrom(i, r) = S(n)!Above(r, 2^i)
         /\ S(n)!ScatterRx(i, r) =
              {s \in Ranks : Multiple(2 * 2^i, Off(n, r, s)) /\ Off(n, r, s) + 2^i < n}
         /\ S(n)!ScatterTx(i, r) =
              {s \in Ranks : LET b == S(n)!Below(r, 2^i)
                             IN  Multiple(2 * 2^i, Off(n, b, s)) /\ Off(n, b, s) + 2^i < n}
<1>1. n \in Nat \ {0, 1} /\ n \in Nat \ {0} /\ U32 \in Nat /\ 4 * n < U32
  BY RingFacts
<1>2. i \in 0..(S(n)!StepNum - 1)
  BY DEF StepNum
<1>3. 2^i \in 1..(n - 1) /\ 2^(i + 1) = 2 * 2^i
  BY <1>1, <1>2, Distance
<1>4. r \in 0..(n - 1) /\ S(n)!Below(r, 2^i) \in 0..(n - 1)
  BY <1>1, <1>3, OffNeighbours DEF Ranks
<1>5. 2^i \in Nat \ {0}
  BY <1>3
<1>6. \A x \in 0..(n - 1) : S(n)!SliceSet(x, 2^i) =
        {s \in 0..(n - 1) : Multiple(2 * 2^i, Off(n, x, s)) /\ Off(n, x, s) + 2^i < n}
  BY <1>1, <1>5, SliceSetIs
<1> QED BY <1>3, <1>4, <1>6 DEF S!ScatterTo, S!ScatterFrom, S!ScatterRx, S!ScatterTx, S!ScatterDistance, Ranks

(* The tables of one step of the AllGather.                                *)
LEMMA GatherStep ==
  ASSUME n \in 2..MaxN, NEW j \in 0..(StepNum - 1), NEW r \in Ranks
  PROVE  LET d == 2^(StepNum - 1 - j)
         IN  /\ d \in 1..(n - 1)
             /\ 2^(StepNum - j) = 2 * d
             /\ S(n)!GatherTo(j, r) = S(n)!Above(r, d)
             /\ S(n)!GatherFrom(j, r) = S(n)!Below(r, d)
             /\ S(n)!GatherTx(j, r) =
                  {s \in Ranks : Multiple(2 * d, Off(n, r, s)) /\ Off(n, r, s) + d < n}
             /\ S(n)!GatherRx(j, r) =
                  {s \in Ranks : LET b == S(n)!Below(r, d)
                                 IN  Multiple(2 * d, Off(n, b, s)) /\ Off(n, b, s) + d < n}
<1> DEFINE i == StepNum - 1 - j
           d == 2^i
<1>1. n \in Nat \ {0, 1} /\ n \in Nat \ {0} /\ U32 \in Nat /\ 4 * n < U32 /\ StepNum \in Nat
  BY RingFacts
<1>2. i \in 0..(S(n)!StepNum - 1) /\ i + 1 = StepNum - j
  BY <1>1 DEF StepNum
<1>3. 2^i \in 1..(n - 1) /\ 2^(i + 1) = 2 * 2^i
  <2> HIDE DEF i
  <2> QED BY <1>1, <1>2, Distance
<1>4. r \in 0..(n - 1) /\ S(n)!Below(r, d) \in 0..(n - 1)
  <2> HIDE DEF i
  <2> QED BY <1>1, <1>3, OffNeighbours DEF Ranks
<1>5. d \in Nat \ {0}
  BY <1>3
<1>6. \A x \in 0..(n - 1) : S(n)!SliceSet(x, d) =
        {s \in 0..(n - 1) : Multiple(2 * d, Off(n, x, s)) /\ Off(n, x, s) + d < n}
  <2> HIDE DEF d
  <2> QED BY <1>1, <1>5, SliceSetIs
<1>7. S(n)!GatherDistance(j) = d
  BY DEF S!GatherDistance, StepNum
<1>8. d \in 1..(n - 1) /\ 2^(StepNum - j) = 2 * d
  BY <1>2, <1>3
<1> HIDE DEF d
<1>9. /\ S(n)!GatherTo(j, r) = S(n)!Above(r, d)
      /\ S(n)!GatherFrom(j, r) = S(n)!Below(r, d)
  BY <1>7 DEF S!GatherTo, S!GatherFrom
<1>10. /\ S(n)!GatherTx(j, r) = S(n)!SliceSet(r, d)
       /\ S(n)!GatherRx(j, r) = S(n)!SliceSet(S(n)!Below(r, d), d)
  BY <1>7, <1>9 DEF S!GatherTx, S!GatherRx
<1> QED BY <1>4, <1>6, <1>8, <1>9, <1>10 DEF Ranks, d

(* Rank r + d is as far above r as r is below it, and both work out the    *)
(* slices from the same rank.                                              *)
LEMMA TablesCorrect == IInv => TablesAgree
<1>0. SUFFICES ASSUME IInv PROVE TablesAgree
  OBVIOUS
<1>1. n \in 2..MaxN /\ n \in Nat \ {0, 1} /\ StepNum \in Nat \ {0} /\ k \in 0..(2 * StepNum)
  BY <1>0, RingFacts DEF IInv, HaveType
<1>2. ASSUME NEW r \in Ranks, NEW d \in 1..(n - 1)
      PROVE  /\ S(n)!Below(r, d) \in Ranks /\ S(n)!Below(r, d) # r
             /\ S(n)!Above(S(n)!Below(r, d), d) = r
             /\ S(n)!Above(r, d) \in Ranks /\ S(n)!Above(r, d) # r
             /\ S(n)!Below(S(n)!Above(r, d), d) = r
  <2>1. \A x \in 0..(n - 1) :
          /\ S(n)!Below(x, d) = IF d <= x THEN x - d ELSE x + n - d
          /\ S(n)!Above(x, d) = IF x + d < n THEN x + d ELSE x + d - n
    BY <1>1, Neighbours
  <2> DEFINE b == S(n)!Below(r, d)
             a == S(n)!Above(r, d)
  <2>2. b = (IF d <= r THEN r - d ELSE r + n - d) /\ a = (IF r + d < n THEN r + d ELSE r + d - n)
    BY <2>1 DEF Ranks
  <2>3. b \in 0..(n - 1) /\ b # r /\ a \in 0..(n - 1) /\ a # r
    <3> HIDE DEF a, b
    <3> QED BY <1>1, <2>2 DEF Ranks
  <2>4. /\ S(n)!Above(b, d) = IF b + d < n THEN b + d ELSE b + d - n
        /\ S(n)!Below(a, d) = IF d <= a THEN a - d ELSE a + n - d
    BY <2>1, <2>3
  <2>5. S(n)!Above(b, d) = r /\ S(n)!Below(a, d) = r
    <3> HIDE DEF a, b
    <3> QED BY <1>1, <2>2, <2>3, <2>4 DEF Ranks
  <2> QED BY <2>3, <2>5 DEF Ranks
<1>3. ASSUME k < StepNum, NEW r \in Ranks
      PROVE  LET to == S(n)!ScatterTo(k, r)
             IN  /\ to # r
                 /\ S(n)!ScatterFrom(k, to) = r
                 /\ S(n)!ScatterTx(k, r) = S(n)!ScatterRx(k, to)
  <2>1. k \in 0..(StepNum - 1)
    BY <1>1, <1>3
  <2>2. \A x \in Ranks : /\ 2^k \in 1..(n - 1)
                         /\ S(n)!ScatterTo(k, x) = S(n)!Below(x, 2^k)
                         /\ S(n)!ScatterFrom(k, x) = S(n)!Above(x, 2^k)
    BY <1>1, <2>1, ScatterStep
  <2>3. S(n)!ScatterTx(k, r) = S(n)!ScatterRx(k, S(n)!ScatterTo(k, r))
    BY DEF S!ScatterTx, S!ScatterRx
  <2> QED BY <1>2, <2>2, <2>3
<1>4. ASSUME k \in StepNum..(2 * StepNum - 1), NEW r \in Ranks
      PROVE  LET j  == k - StepNum
                 to == S(n)!GatherTo(j, r)
             IN  /\ to # r
                 /\ S(n)!GatherFrom(j, to) = r
                 /\ S(n)!GatherTx(j, r) = S(n)!GatherRx(j, to)
  <2> DEFINE j == k - StepNum
             d == 2^(StepNum - 1 - j)
  <2>1. j \in 0..(StepNum - 1)
    BY <1>1, <1>4
  <2> HIDE DEF j
  <2>2. \A x \in Ranks : /\ d \in 1..(n - 1)
                         /\ S(n)!GatherTo(j, x) = S(n)!Above(x, d)
                         /\ S(n)!GatherFrom(j, x) = S(n)!Below(x, d)
    BY <1>1, <2>1, GatherStep
  <2> HIDE DEF d
  <2>3. S(n)!GatherFrom(j, S(n)!GatherTo(j, r)) = r /\ S(n)!GatherTo(j, r) # r
    BY <1>2, <2>2
  <2>4. S(n)!GatherTx(j, r) = S(n)!GatherRx(j, S(n)!GatherTo(j, r))
    BY <2>3 DEF S!GatherTx, S!GatherRx
  <2> QED BY <2>3, <2>4 DEF j
<1> QED BY <1>3, <1>4 DEF TablesAgree

(* A stretch of length one is a rank.                                      *)
LEMMA StretchOfOne ==
  ASSUME n \in 2..MaxN, NEW r \in Ranks, NEW s \in Ranks
  PROVE  Stretch(s, Off(n, r, s), Off(n, r, s) + 1) = {r}
<1>1. n \in Nat \ {0}
  BY RingFacts
<1>2. ASSUME NEW x \in Ranks
      PROVE  (Off(n, r, s) <= Off(n, x, s) /\ Off(n, x, s) < Off(n, r, s) + 1) <=> x = r
  <2>1. Off(n, r, s) \in 0..(n - 1) /\ Off(n, x, s) \in 0..(n - 1)
    BY <1>1, OffType DEF Ranks
  <2>2. Off(n, x, s) = Off(n, r, s) <=> x = r
    BY <1>1, OffType DEF Ranks
  <2> QED BY <2>1, <2>2
<1> QED BY <1>2 DEF Stretch

(* A stretch that is longer than the ring is the ring.                     *)
LEMMA StretchOfAll ==
  ASSUME n \in 2..MaxN, NEW s \in Ranks, NEW hi \in Int, n <= hi
  PROVE  Stretch(s, 0, hi) = Ranks
<1>1. n \in Nat \ {0}
  BY RingFacts
<1>2. \A x \in Ranks : Off(n, x, s) \in 0..(n - 1)
  BY <1>1, OffType DEF Ranks
<1> QED BY <1>1, <1>2 DEF Stretch

(* Every copy begins as a stretch of length one.                           *)
LEMMA InitIInv == Init => IInv
<1>1. SUFFICES ASSUME Init PROVE IInv
  OBVIOUS
<1>2. n \in 2..MaxN /\ StepNum \in Nat \ {0}
  BY <1>1, RingFacts DEF Init
<1>3. k = 0 /\ 2^k = 1 /\ k \in 0..(2 * StepNum) /\ ~(k >= StepNum)
  BY <1>1, <1>2 DEF Init
<1>4. HaveType
  BY <1>1, <1>2, <1>3 DEF Init, HaveType
<1>5. ASSUME NEW r \in Ranks, NEW s \in Ranks
      PROVE  have[r][s] = Stretch(s, Off(n, r, s), Off(n, r, s) + 2^k)
  <2>1. have[r][s] = {r}
    BY <1>1 DEF Init
  <2>2. Stretch(s, Off(n, r, s), Off(n, r, s) + 1) = {r}
    BY <1>2, StretchOfOne
  <2> QED BY <1>3, <2>1, <2>2
<1>6. Scattered
  BY <1>5 DEF Scattered
<1>7. Gathered
  BY <1>3 DEF Gathered
<1> QED BY <1>4, <1>6, <1>7 DEF IInv

(* A ReduceScatter step joins a stretch of length d with the next one; the *)
(* last one at the end of the ring has no next, and is not sent.           *)
LEMMA ScatterPreserves == IInv /\ Scatter => IInv'
<1>1. SUFFICES ASSUME IInv, Scatter PROVE IInv'
  OBVIOUS
<1>2. n \in 2..MaxN /\ n \in Nat \ {0, 1} /\ n \in Nat \ {0} /\ StepNum \in Nat \ {0} /\ n <= 2^StepNum
  BY <1>1, RingFacts DEF IInv, HaveType
<1>3. k \in 0..(StepNum - 1) /\ k' = k + 1 /\ n' = n /\ k' \in 1..StepNum
  BY <1>1, <1>2 DEF IInv, HaveType, Scatter
<1>4. Ranks' = Ranks /\ StepNum' = StepNum
  BY <1>3 DEF Ranks, StepNum
<1> DEFINE d == 2^k
<1>5. d \in 1..(n - 1) /\ 2^k' = 2 * d
  <2>1. 0 \in Ranks
    BY <1>2 DEF Ranks
  <2> QED BY <1>2, <1>3, <2>1, ScatterStep
<1>6. ASSUME NEW r \in Ranks
      PROVE  /\ S(n)!Above(r, d) \in Ranks
             /\ S(n)!ScatterFrom(k, r) = S(n)!Above(r, d)
             /\ S(n)!ScatterRx(k, r) =
                  {s \in Ranks : Multiple(2 * d, Off(n, r, s)) /\ Off(n, r, s) + d < n}
             /\ \A s \in Ranks : Off(n, r, s) + d < n =>
                  Off(n, S(n)!Above(r, d), s) = Off(n, r, s) + d
  <2>1. S(n)!Above(r, d) \in 0..(n - 1)
    <3> HIDE DEF d
    <3> QED BY <1>2, <1>5, OffNeighbours DEF Ranks
  <2>2. \A s \in Ranks : Off(n, r, s) + d < n => Off(n, S(n)!Above(r, d), s) = Off(n, r, s) + d
    <3> HIDE DEF d
    <3> QED BY <1>2, <1>5, OffNeighbours DEF Ranks
  <2> QED BY <1>2, <1>3, <2>1, <2>2, ScatterStep DEF Ranks
<1>7. ASSUME NEW r \in Ranks, NEW s \in Ranks
      PROVE  have'[r][s] = IF s \in S(n)!ScatterRx(k, r)
                           THEN have[r][s] \cup have[S(n)!Above(r, d)][s] ELSE have[r][s]
  BY <1>1, <1>6 DEF Scatter
<1>8. \A r, s \in Ranks : Off(n, r, s) \in 0..(n - 1)
  BY <1>2, OffType DEF Ranks
<1>9. \A r, s \in Ranks : Multiple(d, Off(n, r, s)) =>
        have[r][s] = Stretch(s, Off(n, r, s), Off(n, r, s) + d)
  BY <1>1, <1>2, <1>3 DEF IInv, Scattered
<1> HIDE DEF d
<1>10. HaveType'
  <2>1. have' \in [Ranks -> [Ranks -> SUBSET Ranks]]
    <3>1. have \in [Ranks -> [Ranks -> SUBSET Ranks]]
      BY <1>1 DEF IInv, HaveType
    <3>2. ASSUME NEW r \in Ranks, NEW s \in Ranks PROVE have'[r][s] \in SUBSET Ranks
      <4>1. have[r][s] \in SUBSET Ranks /\ have[S(n)!Above(r, d)][s] \in SUBSET Ranks
        BY <1>6, <3>1
      <4> QED BY <1>7, <4>1
    <3>3. have' = [r \in Ranks |-> [s \in Ranks |-> have'[r][s]]]
      BY <1>1 DEF Scatter
    <3> QED BY <3>2, <3>3
  <2> QED BY <1>2, <1>3, <1>4, <2>1 DEF HaveType
<1>11. ASSUME NEW r \in Ranks, NEW s \in Ranks, Multiple(2 * d, Off(n, r, s))
       PROVE  have'[r][s] = Stretch(s, Off(n, r, s), Off(n, r, s) + 2 * d)
  <2> DEFINE o == Off(n, r, s)
             a == S(n)!Above(r, d)
  <2>1. o \in 0..(n - 1) /\ o \in Nat /\ d \in Nat \ {0}
    BY <1>2, <1>5, <1>8
  <2>2. Multiple(d, o)
    <3> HIDE DEF o
    <3> QED BY <1>11, <2>1, MultipleFacts DEF o
  <2>3. have[r][s] = Stretch(s, o, o + d)
    BY <1>9, <2>2
  <2>4. CASE o + d < n
    <3>1. s \in S(n)!ScatterRx(k, r) /\ a \in Ranks /\ Off(n, a, s) = o + d
      BY <1>6, <1>11, <2>4
    <3>2. Multiple(d, o + d)
      <4> HIDE DEF o
      <4> QED BY <2>1, <2>2, MultipleFacts
    <3>3. have[a][s] = Stretch(s, o + d, (o + d) + d)
      BY <1>9, <3>1, <3>2
    <3>4. Stretch(s, o, o + d) \cup Stretch(s, o + d, (o + d) + d) = Stretch(s, o, o + 2 * d)
      <4> HIDE DEF o
      <4> QED BY <1>2, <1>8, <2>1 DEF Stretch
    <3> QED BY <1>7, <2>3, <3>1, <3>3, <3>4
  <2>5. CASE ~(o + d < n)
    <3>1. s \notin S(n)!ScatterRx(k, r)
      BY <1>6, <2>5
    <3>2. Stretch(s, o, o + d) = Stretch(s, o, o + 2 * d)
      <4> HIDE DEF o
      <4> QED BY <1>2, <1>8, <2>1, <2>5 DEF Stretch
    <3> QED BY <1>7, <2>3, <3>1, <3>2
  <2> QED BY <2>4, <2>5
<1>12. Scattered'
  BY <1>3, <1>4, <1>5, <1>11 DEF Scattered, Stretch, Ranks
<1>13. Gathered'
  <2>1. SUFFICES ASSUME k' = StepNum, NEW r \in Ranks, NEW s \in Ranks, Multiple(2^StepNum, Off(n, r, s))
                 PROVE  have'[r][s] = Ranks
    <3>1. k' >= StepNum => k' = StepNum /\ 2 * StepNum - k' = StepNum
      BY <1>2, <1>3
    <3> QED BY <1>3, <1>4, <3>1 DEF Gathered
  <2>2. 2 * d = 2^StepNum /\ 2^StepNum \in Nat \ {0}
    BY <1>2, <1>5, <2>1
  <2>3. Off(n, r, s) \in Nat /\ Off(n, r, s) < n
    BY <1>2, <1>8
  <2>4. Off(n, r, s) = 0
    <3>1. Off(n, r, s) = 0 \/ Off(n, r, s) >= 2^StepNum
      BY <2>1, <2>2, <2>3, MultipleFacts
    <3> QED BY <1>2, <2>2, <2>3, <3>1
  <2>5. have'[r][s] = Stretch(s, 0, 0 + 2^StepNum)
    BY <1>11, <2>1, <2>2, <2>4
  <2>6. Stretch(s, 0, 0 + 2^StepNum) = Ranks
    BY <1>2, <2>2, StretchOfAll
  <2> QED BY <2>5, <2>6
<1> QED BY <1>10, <1>12, <1>13 DEF IInv

(* An AllGather step gives every rank the slices between those it has.     *)
LEMMA GatherPreserves == IInv /\ Gather => IInv'
<1>1. SUFFICES ASSUME IInv, Gather PROVE IInv'
  OBVIOUS
<1>2. n \in 2..MaxN /\ n \in Nat \ {0, 1} /\ n \in Nat \ {0} /\ StepNum \in Nat \ {0}
  BY <1>1, RingFacts DEF IInv, HaveType
<1> DEFINE j == k - StepNum
           d == 2^(StepNum - 1 - j)
<1>3. /\ j \in 0..(StepNum - 1) /\ k' = k + 1 /\ n' = n /\ k' \in (StepNum + 1)..(2 * StepNum)
      /\ k >= StepNum /\ 2 * StepNum - k = StepNum - j
      /\ 2 * StepNum - k' = StepNum - 1 - j
  BY <1>1, <1>2 DEF IInv, HaveType, Gather
<1>4. Ranks' = Ranks /\ StepNum' = StepNum
  BY <1>3 DEF Ranks, StepNum
<1>5. ASSUME NEW r \in Ranks
      PROVE  /\ d \in 1..(n - 1)
             /\ 2^(StepNum - j) = 2 * d
             /\ S(n)!GatherFrom(j, r) = S(n)!Below(r, d)
             /\ S(n)!GatherRx(j, r) =
                  {s \in Ranks : LET b == S(n)!Below(r, d)
                                 IN  Multiple(2 * d, Off(n, b, s)) /\ Off(n, b, s) + d < n}
  <2> HIDE DEF j
  <2> QED BY <1>2, <1>3, GatherStep
<1>6. d \in 1..(n - 1) /\ 2^(StepNum - j) = 2 * d
  <2>1. 0 \in Ranks
    BY <1>2 DEF Ranks
  <2> HIDE DEF j, d
  <2> QED BY <1>5, <2>1
<1>7. ASSUME NEW r \in Ranks, NEW s \in Ranks
      PROVE  have'[r][s] = IF s \in S(n)!GatherRx(j, r)
                           THEN have[S(n)!Below(r, d)][s] ELSE have[r][s]
  <2>1. have'[r][s] = IF s \in S(n)!GatherRx(j, r)
                      THEN have[S(n)!GatherFrom(j, r)][s] ELSE have[r][s]
    BY <1>1 DEF Gather
  <2> HIDE DEF j, d
  <2> QED BY <1>5, <2>1
<1>8. \A r, s \in Ranks : Multiple(2 * d, Off(n, r, s)) => have[r][s] = Ranks
  <2>1. \A r, s \in Ranks : Multiple(2^(2 * StepNum - k), Off(n, r, s)) => have[r][s] = Ranks
    BY <1>1, <1>3 DEF IInv, Gathered
  <2>2. 2^(2 * StepNum - k) = 2 * d
    BY <1>3, <1>6
  <2> HIDE DEF d
  <2> QED BY <2>1, <2>2
<1>9. d = 2^(2 * StepNum' - k')
  BY <1>3, <1>4
<1> HIDE DEF d, j
<1>10. \A r, s \in Ranks : /\ S(n)!Below(r, d) \in Ranks
                           /\ Off(n, r, s) \in 0..(n - 1)
                           /\ d <= Off(n, r, s) =>
                                Off(n, S(n)!Below(r, d), s) = Off(n, r, s) - d
  <2>1. ASSUME NEW r \in Ranks, NEW s \in Ranks
        PROVE  /\ S(n)!Below(r, d) \in 0..(n - 1)
               /\ d <= Off(n, r, s) => Off(n, S(n)!Below(r, d), s) = Off(n, r, s) - d
    BY <1>2, <1>6, OffNeighbours DEF Ranks
  <2>2. \A r, s \in Ranks : Off(n, r, s) \in 0..(n - 1)
    BY <1>2, OffType DEF Ranks
  <2> QED BY <2>1, <2>2 DEF Ranks
<1>11. HaveType'
  <2>1. have \in [Ranks -> [Ranks -> SUBSET Ranks]]
    BY <1>1 DEF IInv, HaveType
  <2>2. ASSUME NEW r \in Ranks, NEW s \in Ranks PROVE have'[r][s] \in SUBSET Ranks
    BY <1>7, <1>10, <2>1
  <2>3. have' = [r \in Ranks |-> [s \in Ranks |-> have'[r][s]]]
    BY <1>1 DEF Gather
  <2>4. have' \in [Ranks -> [Ranks -> SUBSET Ranks]]
    BY <2>2, <2>3
  <2> QED BY <1>2, <1>3, <1>4, <2>4 DEF HaveType
<1>12. ASSUME NEW r \in Ranks, NEW s \in Ranks, Multiple(d, Off(n, r, s))
       PROVE  have'[r][s] = Ranks
  <2> DEFINE b == S(n)!Below(r, d)
  <2>1. d \in Nat \ {0} /\ Off(n, r, s) \in Nat /\ Off(n, r, s) < n /\ b \in Ranks
    BY <1>2, <1>6, <1>10
  <2>2. CASE s \in S(n)!GatherRx(j, r)
    <3>1. Multiple(2 * d, Off(n, b, s))
      BY <1>5, <2>2
    <3> QED BY <1>7, <1>8, <2>1, <2>2, <3>1
  <2>3. CASE s \notin S(n)!GatherRx(j, r)
    <3>1. Multiple(2 * d, Off(n, r, s)) \/ (d <= Off(n, r, s) /\ Multiple(2 * d, Off(n, r, s) - d))
      BY <1>12, <2>1, MultipleFacts
    <3>2. ~(d <= Off(n, r, s) /\ Multiple(2 * d, Off(n, r, s) - d))
      <4>1. SUFFICES ASSUME d <= Off(n, r, s), Multiple(2 * d, Off(n, r, s) - d) PROVE FALSE
        OBVIOUS
      <4>2. Off(n, b, s) = Off(n, r, s) - d
        BY <1>10, <4>1
      <4>3. Multiple(2 * d, Off(n, b, s)) /\ Off(n, b, s) + d < n
        <5>1. Off(n, b, s) + d < n
          BY <2>1, <4>2
        <5> QED BY <4>1, <4>2, <5>1
      <4> QED BY <1>5, <2>3, <4>3
    <3> QED BY <1>7, <1>8, <2>3, <3>1, <3>2
  <2> QED BY <2>2, <2>3
<1>13. Scattered'
  BY <1>2, <1>3, <1>4 DEF Scattered
<1>14. Gathered'
  BY <1>3, <1>4, <1>9, <1>12 DEF Gathered
<1> QED BY <1>11, <1>13, <1>14 DEF IInv

(* Every step preserves the invariant.                                     *)
LEMMA NextIInv == IInv /\ [Next]_vars => IInv'
<1>1. SUFFICES ASSUME IInv, [Next]_vars PROVE IInv'
  OBVIOUS
<1>2. CASE Scatter
  BY <1>1, <1>2, ScatterPreserves
<1>3. CASE Gather
  BY <1>1, <1>3, GatherPreserves
<1>4. CASE Finished \/ UNCHANGED vars
  BY <1>1, <1>4 DEF Finished, vars, IInv, HaveType, Scattered, Gathered, Stretch, Ranks, StepNum
<1> QED BY <1>1, <1>2, <1>3, <1>4 DEF Next

(* The stretches that a step joins are disjoint.                           *)
LEMMA ContributionsOnce == IInv => EachContributionOnce
<1>1. SUFFICES ASSUME IInv PROVE EachContributionOnce
  OBVIOUS
<1>2. /\ n \in 2..MaxN /\ n \in Nat \ {0, 1} /\ n \in Nat \ {0} /\ StepNum \in Nat \ {0}
      /\ k \in 0..(2 * StepNum)
  BY <1>1, RingFacts DEF IInv, HaveType
<1>3. \A r, s \in Ranks : Off(n, r, s) \in 0..(n - 1)
  BY <1>2, OffType DEF Ranks
<1>4. ASSUME k < StepNum, NEW r \in Ranks, NEW s \in S(n)!ScatterRx(k, r)
      PROVE  have[r][s] \cap have[S(n)!ScatterFrom(k, r)][s] = {}
  <2> DEFINE d == 2^k
             o == Off(n, r, s)
             a == S(n)!Above(r, d)
  <2>1. k \in 0..(StepNum - 1)
    BY <1>2, <1>4
  <2>2. /\ d \in 1..(n - 1) /\ S(n)!ScatterFrom(k, r) = a
        /\ s \in Ranks /\ Multiple(2 * d, o) /\ o + d < n
    BY <1>2, <1>4, <2>1, ScatterStep
  <2>3. a \in Ranks /\ Off(n, a, s) = o + d
    <3> HIDE DEF d
    <3> QED BY <1>2, <2>2, OffNeighbours DEF Ranks
  <2>4. o \in Nat /\ d \in Nat \ {0}
    BY <1>2, <1>3, <2>2
  <2>5. Multiple(d, o) /\ Multiple(d, o + d)
    <3> HIDE DEF d, o
    <3>1. Multiple(d, o)
      BY <2>2, <2>4, MultipleFacts
    <3> QED BY <2>4, <3>1, MultipleFacts
  <2>6. \A x, y \in Ranks : Multiple(d, Off(n, x, y)) =>
          have[x][y] = Stretch(y, Off(n, x, y), Off(n, x, y) + d)
    BY <1>1, <1>2, <1>4 DEF IInv, Scattered
  <2> HIDE DEF d
  <2>7. have[r][s] = Stretch(s, o, o + d) /\ have[a][s] = Stretch(s, o + d, (o + d) + d)
    BY <2>2, <2>3, <2>5, <2>6
  <2>8. Stretch(s, o, o + d) \cap Stretch(s, o + d, (o + d) + d) = {}
    <3> HIDE DEF o
    <3> QED BY <1>2, <1>3, <2>2, <2>4 DEF Stretch
  <2> QED BY <2>2, <2>7, <2>8
<1>5. ASSUME k = StepNum, NEW r \in Ranks
      PROVE  have[r][r] = Ranks
  <2>1. Off(n, r, r) = 0
    BY <1>2, OffType DEF Ranks
  <2>2. 2 * StepNum - k = StepNum /\ 2^StepNum \in Nat \ {0}
    BY <1>2, <1>5, PowerOfTwo
  <2>3. Multiple(2^StepNum, 0)
    BY <2>2, MultipleFacts
  <2> QED BY <1>1, <1>2, <1>5, <2>1, <2>2, <2>3 DEF IInv, Gathered
<1>6. ASSUME k = 2 * StepNum, NEW r \in Ranks, NEW s \in Ranks
      PROVE  have[r][s] = Ranks
  <2>1. 2 * StepNum - k = 0 /\ 2^0 = 1 /\ k >= StepNum
    BY <1>2, <1>6
  <2>2. Off(n, r, s) \in Nat
    BY <1>2, <1>3
  <2>3. Multiple(1, Off(n, r, s))
    BY <2>2, MultipleFacts
  <2>4. Multiple(2^(2 * StepNum - k), Off(n, r, s))
    BY <2>1, <2>3
  <2> QED BY <1>1, <2>1, <2>4 DEF IInv, Gathered
<1> QED BY <1>4, <1>5, <1>6 DEF EachContributionOnce

(* Step 0 sends odd offsets; all later ones move even offsets.             *)
LEMMA CopiesSaved == IInv => SavedCopiesUnused
<1>1. SUFFICES ASSUME IInv, NEW r \in Ranks
      PROVE  /\ k \in 1..(StepNum - 1) =>
                  S(n)!ScatterTx(0, r) \cap (S(n)!ScatterTx(k, r) \cup S(n)!ScatterRx(k, r)) = {}
             /\ k = 0 => S(n)!ScatterTx(0, r) \cap S(n)!ScatterRx(0, r) = {}
             /\ k = 2 * StepNum - 1 =>
                  S(n)!GatherRx(StepNum - 1, r) \cap S(n)!GatherTx(StepNum - 1, r) = {}
  BY DEF SavedCopiesUnused
<1>2. /\ n \in 2..MaxN /\ n \in Nat \ {0, 1} /\ n \in Nat \ {0} /\ StepNum \in Nat \ {0}
  BY <1>1, RingFacts DEF IInv, HaveType
<1> DEFINE b == S(n)!Below(r, 1)
<1>3. b \in Ranks
  BY <1>2, OffNeighbours DEF Ranks
<1>4. ASSUME NEW s \in Ranks
      PROVE  /\ Off(n, b, s) \in Nat /\ Off(n, r, s) \in Nat
             /\ Off(n, b, s) + 1 < n => Off(n, r, s) = Off(n, b, s) + 1
  <2>1. Off(n, b, s) \in 0..(n - 1) /\ Off(n, r, s) \in 0..(n - 1)
    BY <1>2, <1>3, OffType DEF Ranks
  <2>2. 1 \in 1..(n - 1)
    BY <1>2
  <2>3. Off(n, b, s) + 1 < n => Off(n, r, s) = Off(n, b, s) + 1
    BY <1>2, <2>2, OffNeighbours DEF Ranks
  <2> QED BY <2>1, <2>3
<1>5. 0 \in 0..(StepNum - 1) /\ 2^0 = 1 /\ StepNum - 1 \in 0..(StepNum - 1)
      /\ StepNum - 1 - (StepNum - 1) = 0
  BY <1>2
<1>6. /\ S(n)!ScatterTx(0, r) = {s \in Ranks : Multiple(2 * 1, Off(n, b, s)) /\ Off(n, b, s) + 1 < n}
      /\ S(n)!ScatterRx(0, r) = {s \in Ranks : Multiple(2 * 1, Off(n, r, s)) /\ Off(n, r, s) + 1 < n}
  <2>1. ASSUME NEW i \in 0..(StepNum - 1), NEW d, d = 2^i
        PROVE  /\ S(n)!ScatterTx(i, r) = {s \in Ranks : Multiple(2 * d, Off(n, S(n)!Below(r, d), s))
                                                       /\ Off(n, S(n)!Below(r, d), s) + d < n}
               /\ S(n)!ScatterRx(i, r) = {s \in Ranks : Multiple(2 * d, Off(n, r, s)) /\ Off(n, r, s) + d < n}
    BY <1>2, <2>1, ScatterStep
  <2>2. 1 = 2^0
    OBVIOUS
  <2> QED BY <1>5, <2>1, <2>2, Zenon
<1>7. /\ S(n)!GatherRx(StepNum - 1, r) = {s \in Ranks : Multiple(2 * 1, Off(n, b, s)) /\ Off(n, b, s) + 1 < n}
      /\ S(n)!GatherTx(StepNum - 1, r) = {s \in Ranks : Multiple(2 * 1, Off(n, r, s)) /\ Off(n, r, s) + 1 < n}
  <2>1. ASSUME NEW j \in 0..(StepNum - 1), NEW d, d = 2^(StepNum - 1 - j)
        PROVE  /\ S(n)!GatherRx(j, r) = {s \in Ranks : Multiple(2 * d, Off(n, S(n)!Below(r, d), s))
                                                      /\ Off(n, S(n)!Below(r, d), s) + d < n}
               /\ S(n)!GatherTx(j, r) = {s \in Ranks : Multiple(2 * d, Off(n, r, s)) /\ Off(n, r, s) + d < n}
    BY <1>2, <2>1, GatherStep
  <2>2. 1 = 2^(StepNum - 1 - (StepNum - 1))
    BY <1>5
  <2> QED BY <1>5, <2>1, <2>2, Zenon
<1> HIDE DEF b
<1>8. ASSUME NEW s \in Ranks, Multiple(2 * 1, Off(n, b, s)), Off(n, b, s) + 1 < n
      PROVE  ~ Multiple(2 * 1, Off(n, r, s))
  <2>1. SUFFICES ASSUME Multiple(2 * 1, Off(n, r, s)) PROVE FALSE
    OBVIOUS
  <2>2. PICK x \in Int : Off(n, b, s) = (2 * 1) * x
    BY <1>8 DEF Multiple
  <2>3. PICK y \in Int : Off(n, r, s) = (2 * 1) * y
    BY <2>1 DEF Multiple
  <2> QED BY <1>4, <1>8, <2>2, <2>3
<1>9. ASSUME k \in 1..(StepNum - 1)
      PROVE  S(n)!ScatterTx(0, r) \cap (S(n)!ScatterTx(k, r) \cup S(n)!ScatterRx(k, r)) = {}
  <2> DEFINE d == 2^k
             c == S(n)!Below(r, d)
  <2>1. k \in 0..(StepNum - 1) /\ k \in Nat /\ k > 0
    BY <1>2, <1>9
  <2>2. /\ d \in 1..(n - 1)
        /\ S(n)!ScatterRx(k, r) = {s \in Ranks : Multiple(2 * d, Off(n, r, s)) /\ Off(n, r, s) + d < n}
        /\ S(n)!ScatterTx(k, r) = {s \in Ranks : Multiple(2 * d, Off(n, c, s)) /\ Off(n, c, s) + d < n}
    BY <1>2, <2>1, ScatterStep
  <2>3. SUFFICES ASSUME NEW s \in Ranks, Multiple(2 * 1, Off(n, b, s)), Off(n, b, s) + 1 < n,
                        \/ Multiple(2 * d, Off(n, r, s))
                        \/ Multiple(2 * d, Off(n, c, s)) /\ Off(n, c, s) + d < n
                 PROVE  FALSE
    BY <1>6, <2>2
  <2>4. Multiple(2, Off(n, b, s)) /\ Off(n, b, s) \in Nat /\ Off(n, r, s) = Off(n, b, s) + 1
    BY <1>4, <2>3
  <2>5. CASE Multiple(2 * d, Off(n, r, s))
    BY <1>4, <2>1, <2>4, <2>5, OddAndEven
  <2>6. CASE Multiple(2 * d, Off(n, c, s)) /\ Off(n, c, s) + d < n
    <3>1. c \in 0..(n - 1) /\ Off(n, r, s) = Off(n, c, s) + d
      <4> HIDE DEF d
      <4> QED BY <1>2, <2>2, <2>6, OffNeighbours DEF Ranks
    <3>2. Off(n, c, s) \in Nat
      <4>1. Off(n, c, s) \in 0..(n - 1)
        BY <1>2, <3>1, OffType DEF Ranks
      <4> QED BY <4>1
    <3> QED BY <2>1, <2>4, <2>6, <3>1, <3>2, OddAndEven
  <2> QED BY <2>3, <2>5, <2>6
<1>10. S(n)!ScatterTx(0, r) \cap S(n)!ScatterRx(0, r) = {}
  BY <1>6, <1>8
<1>11. S(n)!GatherRx(StepNum - 1, r) \cap S(n)!GatherTx(StepNum - 1, r) = {}
  BY <1>7, <1>8
<1> QED BY <1>9, <1>10, <1>11

(* The invariant holds, for every ring up to MaxN, whatever MaxN is.       *)
THEOREM Invariance == Spec => []IInv
<1> QED BY InitIInv, NextIInv, PTL DEF Spec

(* RunReduceScatter and RunAllGather, on a ring of any size: the two ranks *)
(* of a transfer derive the same transfer from their own tables.           *)
THEOREM TableAgreement == Spec => []TablesAgree
<1>1. IInv => TablesAgree
  BY TablesCorrect
<1> QED BY <1>1, Invariance, PTL

(* On a ring of any size, also one that is no power of two, each slice is  *)
(* the reduction of all ranks, each taken once, and everybody gets it.     *)
THEOREM ReductionCorrect == Spec => []EachContributionOnce
<1>1. IInv => EachContributionOnce
  BY ContributionsOnce
<1> QED BY <1>1, Invariance, PTL

(* On a ring of any size, the copies that PreCopy and PostCopy leave out   *)
(* are not needed.                                                         *)
THEOREM CopySaving == Spec => []SavedCopiesUnused
<1>1. IInv => SavedCopiesUnused
  BY CopiesSaved
<1> QED BY <1>1, Invariance, PTL
=============================================================================
