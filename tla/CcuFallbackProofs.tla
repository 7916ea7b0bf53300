------------------------ MODULE CcuFallbackProofs -------------------------
(***************************************************************************)
(* Proofs about CcuFallback, for any ranks, kinds of call and number of    *)
(* calls: when the keys of the parameter caches are aligned, the ranks     *)
(* meet in the same exchanges and run the same algorithms.                 *)
(*                                                                         *)
(* The argument.  Between two exchanges every rank works from caches and   *)
(* contexts of its own, but these only change by the answer of an exchange *)
(* all ranks were in.  Count the answer a rank has not yet looked at as if *)
(* it had been applied (EffCache, EffFallback, EffRes): then all ranks     *)
(* have the same effective state at all times, and no step of a single     *)
(* rank changes it.  A call that needs no exchange ends the same way on    *)
(* every rank (Ahead); a rank that is in an exchange lacks something all   *)
(* ranks lack, so no rank has got past that call.                          *)
(***************************************************************************)
EXTENDS CcuFallback, TLAPS

(* What AfterGather makes of the answer. *)
Lowered(r) == KindOf(r).re[answer[r]]

(* Where FallBack goes. *)
Below(r) == KindOf(r).re[NextConfig(cur[r].cfg)]

EffCache(r) ==
  IF pc[r] = "gathered" THEN [paramCache[r] EXCEPT ![Selection(r)] = Lowered(r)]
                        ELSE paramCache[r]

EffFallback(r) ==
  IF pc[r] = "reduced" /\ answer[r] = "FAIL"
  THEN [fallback[r] EXCEPT ![cur[r].alg] = Below(r)]
  ELSE fallback[r]

(* While the outcome is open the context just created does not count. *)
EffRes(r) ==
  IF pc[r] = "reduce" THEN resCtx[r] \ {Tag(r, cur[r])} ELSE resCtx[r]

(* The choice call c ends with on rank r, and whether that takes no        *)
(* exchange.                                                               *)
CallKey(r, c) == program[c].sel[r]
Ending(r, c) == Resolve(EffFallback(r), EffCache(r)[CallKey(r, c)])
Straight(r, c) ==
  /\ EffCache(r)[CallKey(r, c)] # NoChoice
  /\ OnCcu(Ending(r, c)) => <<Ending(r, c).alg, program[c].type>> \in EffRes(r)

Live == {r \in Ranks : pc[r] # "failed"}

(* Only choices that exist are cached, and a fallback goes down. *)
Descends(x, b) ==
  \E a \in Selectable : a.alg = x /\ OnCcu(a) /\ Level[b.cfg] < Level[a.cfg]

Contexts == [Algs -> Choices \cup {NoChoice}]

SoundContexts(fb) ==
  \A x \in Algs : fb[x] # NoChoice => fb[x] \in Selectable /\ Descends(x, fb[x])

SoundCache(pca) ==
  \A a \in Choices : pca[a] # NoChoice => pca[a] \in Selectable

CachesSound(r) == SoundCache(paramCache[r]) /\ SoundContexts(fallback[r])

(* What a rank in an exchange has with it. *)
ExchangeSound(r) ==
  /\ pc[r] \in {"gather", "gathered", "reduce", "reduced"} => Len(ran[r]) < MaxCalls
  /\ pc[r] \in {"gather", "gathered"} =>
       cur[r] = Selection(r) /\ paramCache[r][Selection(r)] = NoChoice
  /\ pc[r] = "gathered" => answer[r] \in Configs
  /\ pc[r] \in {"reduce", "reduced"} =>
       /\ paramCache[r][Selection(r)] # NoChoice
       /\ cur[r] = Resolve(fallback[r], paramCache[r][Selection(r)])
       /\ OnCcu(cur[r])
  /\ pc[r] = "reduce" /\ available[r] => Tag(r, cur[r]) \in resCtx[r]
  /\ pc[r] = "reduced" => answer[r] \in {"SUCCESS", "FAIL"}
  /\ pc[r] = "reduced" /\ answer[r] = "SUCCESS" => Tag(r, cur[r]) \in resCtx[r]

Sound ==
  /\ TypeOK
  /\ \A r \in Ranks : CachesSound(r) /\ ExchangeSound(r)

(* The ranks that have not failed have the same effective state. *)
SameState ==
  \A r, s \in Live :
    /\ \A k \in Kinds : EffCache(r)[k.sel[r]] = EffCache(s)[k.sel[s]]
    /\ EffFallback(r) = EffFallback(s)
    /\ \A t \in Algs \X Types : EffFallback(r)[t[1]] = NoChoice =>
         (t \in EffRes(r) <=> t \in EffRes(s))

(* A call some rank has got past takes no exchange on the others. *)
Ahead ==
  \A r \in Live, s \in Ranks : \A c \in 1..MaxCalls :
    Len(ran[r]) < c /\ c <= Len(ran[s]) =>
      Straight(r, c) /\ ran[s][c] = Ending(r, c)

(* What is cached lies no higher than any rank's selection. *)
Low ==
  \A r \in Live : \A k \in Kinds : EffCache(r)[k.sel[r]] # NoChoice =>
    \A s \in Ranks : Level[EffCache(r)[k.sel[r]].cfg] <= Level[k.sel[s].cfg]

IInv ==
  /\ Sound
  /\ SameState
  /\ Ahead
  /\ Agreement
  /\ Low
  /\ LowestCommonConfig

-----------------------------------------------------------------------------
(* Configs, levels and choices *)

(* The levels are 3, 2 and 1, and 1 is the config outside the CCU. *)
LEMMA LevelFacts ==
  /\ \A c \in Configs : Level[c] \in {1, 2, 3} /\ (Level[c] = 1 <=> c = "AICPU_TS")
  /\ \A c \in Configs : c # "AICPU_TS" =>
       NextConfig(c) \in Configs /\ Level[NextConfig(c)] < Level[c]
  BY DEF Configs, Level, NextConfig

(* What the assumption says of a kind. *)
LEMMA KindFacts ==
  ASSUME NEW k \in Kinds
  PROVE  /\ k.type \in Types
         /\ \A r \in Ranks : k.sel[r] \in Selectable
         /\ \A r \in Ranks : k.re[k.sel[r].cfg] = k.sel[r]
         /\ \A c \in Configs : k.re[c] \in Selectable /\ Level[k.re[c].cfg] <= Level[c]
  <1>1. k \in AllKinds /\ SelectsDownwards(k)
    BY FallbackAssumption
  <1>2. \A r \in Ranks : k.sel[r] \in Choices
    BY <1>1 DEF AllKinds
  <1>3. \A r \in Ranks : k.sel[r].cfg \in Configs
    BY <1>2 DEF Choices
  <1> QED
    BY <1>1, <1>3 DEF AllKinds, SelectsDownwards, Selectable

(* Choices that exist are choices, and not NoChoice. *)
LEMMA SelectableFacts ==
  \A a \in Selectable : a \in Choices /\ a # NoChoice /\ a.alg \in Algs /\ a.cfg \in Configs
  <1>1. \A k \in Kinds : k.re \in [Configs -> Choices]
    BY FallbackAssumption DEF AllKinds
  <1>2. \A a \in Selectable : a \in Choices
    BY <1>1 DEF Selectable
  <1> QED
    BY <1>2, FallbackAssumption DEF Choices

-----------------------------------------------------------------------------
(* Following the fallback contexts *)

(* One hop stays among the choices that exist; it goes down or stands.     *)
LEMMA RedirectDown ==
  ASSUME NEW fb \in Contexts, SoundContexts(fb), NEW a \in Selectable
  PROVE  /\ Redirect(fb, a) \in Selectable
         /\ \/ Redirect(fb, a) = a /\ (OnCcu(a) => fb[a.alg] = NoChoice)
            \/ OnCcu(a) /\ Level[Redirect(fb, a).cfg] < Level[a.cfg]
  <1>1. CASE OnCcu(a) /\ fb[a.alg] # NoChoice
    <2>1. Redirect(fb, a) = fb[a.alg]
      BY <1>1 DEF Redirect
    <2>2. fb[a.alg] \in Selectable /\ Descends(a.alg, fb[a.alg])
      BY <1>1, SelectableFacts DEF SoundContexts
    <2>3. PICK b \in Selectable : b.alg = a.alg /\ Level[fb[a.alg].cfg] < Level[b.cfg]
      BY <2>2 DEF Descends
    <2>4. b.cfg = a.cfg
      BY <2>3, FallbackAssumption
    <2> QED
      BY <1>1, <2>1, <2>2, <2>3, <2>4
  <1>2. CASE ~(OnCcu(a) /\ fb[a.alg] # NoChoice)
    BY <1>2 DEF Redirect
  <1> QED
    BY <1>1, <1>2

(* Two hops are enough: where they end no context leads further.           *)
LEMMA ResolveSettles ==
  ASSUME NEW fb \in Contexts, SoundContexts(fb), NEW a \in Selectable
  PROVE  /\ Resolve(fb, a) \in Selectable
         /\ OnCcu(Resolve(fb, a)) => fb[Resolve(fb, a).alg] = NoChoice
         /\ Redirect(fb, Resolve(fb, a)) = Resolve(fb, a)
  <1> DEFINE b == Redirect(fb, a)
             c == Redirect(fb, b)
  <1>1. b \in Selectable
    BY RedirectDown
  <1>2. c \in Selectable
    BY <1>1, RedirectDown
  <1>3. Resolve(fb, a) = c
    BY DEF Resolve
  <1>4. OnCcu(c) => fb[c.alg] = NoChoice
    <2> SUFFICES ASSUME OnCcu(c) PROVE fb[c.alg] = NoChoice
      OBVIOUS
    <2>1. c.cfg \in Configs /\ b.cfg \in Configs /\ a.cfg \in Configs
      BY <1>1, <1>2, SelectableFacts
    <2>2. CASE c = b
      <3>1. ~(Level[c.cfg] < Level[b.cfg])
        BY <2>1, <2>2, LevelFacts
      <3> QED
        BY <1>1, <2>2, <3>1, RedirectDown
    <2>3. CASE c # b
      <3>1. Level[c.cfg] < Level[b.cfg]
        BY <1>1, <2>3, RedirectDown
      <3>2. b # a => Level[b.cfg] < Level[a.cfg]
        BY RedirectDown
      <3>3. Level[c.cfg] # 1
        BY <2>1, LevelFacts DEF OnCcu
      <3>4. b = a
        BY <2>1, <3>1, <3>2, <3>3, LevelFacts
      <3> QED
        BY <2>3, <3>4
    <2> QED
      BY <2>2, <2>3
  <1>5. Redirect(fb, c) = c
    BY <1>4 DEF Redirect
  <1> HIDE DEF b, c
  <1> QED
    BY <1>2, <1>3, <1>4, <1>5

(* Recording a step down from where the hops ended sends the hops there.   *)
LEMMA RecordedStep ==
  ASSUME NEW fb \in Contexts, SoundContexts(fb), NEW a \in Selectable,
         NEW n \in Selectable, OnCcu(Resolve(fb, a)),
         Level[n.cfg] < Level[Resolve(fb, a).cfg]
  PROVE  LET new == [fb EXCEPT ![Resolve(fb, a).alg] = n]
         IN  /\ new \in Contexts
             /\ SoundContexts(new)
             /\ Resolve(new, a) = Resolve(new, n)
  <1> DEFINE b == Redirect(fb, a)
             e == Resolve(fb, a)
             new == [fb EXCEPT ![e.alg] = n]
  <1>1. e \in Selectable /\ b \in Selectable
    BY ResolveSettles, RedirectDown
  <1>2. e.alg \in Algs /\ e.cfg \in Configs /\ n.cfg \in Configs /\ b.cfg \in Configs
        /\ a.cfg \in Configs /\ n \in Choices /\ n # NoChoice /\ a.alg \in Algs
        /\ b.alg \in Algs
    BY <1>1, SelectableFacts
  <1>3. new \in Contexts
    BY <1>2 DEF Contexts
  <1>4. Descends(e.alg, n)
    BY <1>1 DEF Descends
  <1>5. SoundContexts(new)
    <2> SUFFICES ASSUME NEW x \in Algs, new[x] # NoChoice
                 PROVE  new[x] \in Selectable /\ Descends(x, new[x])
      BY DEF SoundContexts
    <2>1. CASE x = e.alg
      BY <1>2, <1>4, <2>1 DEF Contexts
    <2>2. CASE x # e.alg
      BY <2>2 DEF SoundContexts, Contexts
    <2> QED
      BY <2>1, <2>2
  <1>6. new[e.alg] = n
    BY <1>2 DEF Contexts
  <1>7. Redirect(new, e) = n
    BY <1>2, <1>6 DEF Redirect
  <1>8. Resolve(new, n) = Redirect(new, Redirect(new, n))
    BY DEF Resolve
  <1>9. Redirect(new, n) \in Selectable /\ Redirect(new, Redirect(new, n)) \in Selectable
    BY <1>3, <1>5, RedirectDown
  <1>10. Redirect(new, Redirect(new, n)) = Redirect(new, n)
    <2> DEFINE u == Redirect(new, n)
               v == Redirect(new, u)
    <2>1. u.cfg \in Configs /\ v.cfg \in Configs
      BY <1>9, SelectableFacts
    <2>2. u = n \/ Level[u.cfg] < Level[n.cfg]
      BY <1>3, <1>5, RedirectDown
    <2>3. v = u \/ Level[v.cfg] < Level[u.cfg]
      BY <1>3, <1>5, <1>9, RedirectDown
    <2>4. u = n => v = u
      OBVIOUS
    <2> HIDE DEF u, v
    <2>5. Level[e.cfg] \in {1, 2, 3} /\ Level[n.cfg] \in {1, 2, 3}
          /\ Level[u.cfg] \in {1, 2, 3} /\ Level[v.cfg] \in {1, 2, 3}
      BY <1>2, <2>1, LevelFacts
    <2>6. Level[n.cfg] < Level[e.cfg]
      OBVIOUS
    <2> HIDE DEF e
    <2>7. v = u
      BY <2>2, <2>3, <2>4, <2>5, <2>6
    <2> QED
      BY <2>7 DEF u, v
  <1>11. CASE e = a
    <2>1. Resolve(new, a) = Redirect(new, n)
      BY <1>7, <1>11 DEF Resolve
    <2> QED
      BY <1>3, <1>5, <1>8, <1>10, <2>1
  <1>12. CASE e # a
    <2>1. e = Redirect(fb, b)
      BY DEF Resolve
    <2>2. b # a
      BY <1>12, <2>1
    <2>3. Level[b.cfg] < Level[a.cfg] /\ b = fb[a.alg] /\ OnCcu(a)
      BY <2>2, RedirectDown DEF Redirect
    <2>4. e = b \/ Level[e.cfg] < Level[b.cfg]
      BY <1>1, <2>1, RedirectDown
    <2>5. Level[e.cfg] # 1
      BY <1>2, LevelFacts DEF OnCcu
    <2>6. e = b
      <3>1. Level[e.cfg] \in {1, 2, 3} /\ Level[b.cfg] \in {1, 2, 3} /\ Level[a.cfg] \in {1, 2, 3}
        BY <1>2, LevelFacts
      <3> HIDE DEF b, e
      <3> QED
        BY <2>3, <2>4, <2>5, <3>1
    <2>7. a.alg # e.alg
      BY <1>1, <1>2, <2>3, <2>6, FallbackAssumption, LevelFacts
    <2>8. new[a.alg] = e
      BY <1>2, <2>3, <2>6, <2>7 DEF Contexts
    <2>9. Redirect(new, a) = e
      BY <1>1, <2>3, <2>8, SelectableFacts DEF Redirect
    <2>10. Resolve(new, a) = n
      BY <1>7, <2>9 DEF Resolve
    <2>11. Level[n.cfg] = 1
      <3>1. Level[n.cfg] \in {1, 2, 3} /\ Level[e.cfg] \in {1, 2, 3} /\ Level[a.cfg] \in {1, 2, 3}
        BY <1>2, LevelFacts
      <3>2. Level[n.cfg] < Level[e.cfg] /\ Level[e.cfg] < Level[a.cfg]
        BY <2>3, <2>6
      <3> HIDE DEF e
      <3> QED
        BY <3>1, <3>2
    <2>12. ~OnCcu(n)
      BY <1>2, <2>11, LevelFacts DEF OnCcu
    <2>13. Resolve(new, n) = n
      BY <2>12 DEF Resolve, Redirect
    <2> QED
      BY <1>3, <1>5, <2>10, <2>13
  <1> QED
    BY <1>11, <1>12

(* The hops never lead up. *)
LEMMA ResolveDown ==
  ASSUME NEW fb \in Contexts, SoundContexts(fb), NEW a \in Selectable
  PROVE  Level[Resolve(fb, a).cfg] <= Level[a.cfg]
  <1> DEFINE b == Redirect(fb, a)
             c == Redirect(fb, b)
  <1>1. b \in Selectable
    BY RedirectDown
  <1>2. c \in Selectable
    BY <1>1, RedirectDown
  <1>3. Resolve(fb, a) = c
    BY DEF Resolve
  <1>4. b = a \/ Level[b.cfg] < Level[a.cfg]
    BY RedirectDown
  <1>5. c = b \/ Level[c.cfg] < Level[b.cfg]
    BY <1>1, RedirectDown
  <1> HIDE DEF b, c
  <1>6. Level[a.cfg] \in {1, 2, 3} /\ Level[b.cfg] \in {1, 2, 3} /\ Level[c.cfg] \in {1, 2, 3}
    BY <1>1, <1>2, SelectableFacts, LevelFacts
  <1> QED
    BY <1>3, <1>4, <1>5, <1>6

-----------------------------------------------------------------------------
(* The effective state *)

(* A rank that has a call left is at a kind of the program. *)
LEMMA CallFacts ==
  ASSUME TypeOK, NEW r \in Ranks, Len(ran[r]) < MaxCalls
  PROVE  /\ Len(ran[r]) \in Nat /\ Len(ran[r]) + 1 \in 1..MaxCalls
         /\ KindOf(r) \in Kinds
         /\ Selection(r) \in Selectable
         /\ KindOf(r).type \in Types
  <1>1. Len(ran[r]) \in Nat /\ MaxCalls \in Nat
    BY FallbackAssumption DEF TypeOK
  <1>2. Len(ran[r]) + 1 \in 1..MaxCalls
    BY <1>1
  <1>3. KindOf(r) \in Kinds
    BY <1>2 DEF TypeOK, KindOf
  <1> QED
    BY <1>1, <1>2, <1>3, KindFacts DEF Selection

(* After a failed negotiation the recorded step sends the rank below.      *)
LEMMA FallBackFacts ==
  ASSUME Sound, NEW r \in Ranks, pc[r] = "reduced", answer[r] = "FAIL"
  PROVE  /\ Below(r) \in Selectable
         /\ cur[r] \in Selectable
         /\ EffFallback(r) \in Contexts
         /\ SoundContexts(EffFallback(r))
         /\ Resolve(EffFallback(r), paramCache[r][Selection(r)]) = Resolve(EffFallback(r), Below(r))
  <1> DEFINE a == paramCache[r][Selection(r)]
             n == Below(r)
  <1>1. TypeOK /\ CachesSound(r) /\ ExchangeSound(r)
    BY DEF Sound
  <1>2. /\ Len(ran[r]) < MaxCalls
        /\ a # NoChoice
        /\ cur[r] = Resolve(fallback[r], a)
        /\ OnCcu(cur[r])
    BY <1>1 DEF ExchangeSound
  <1>3. KindOf(r) \in Kinds /\ Selection(r) \in Choices
    BY <1>1, <1>2, CallFacts, SelectableFacts
  <1>4. a \in Selectable
    BY <1>1, <1>2, <1>3 DEF CachesSound, SoundCache
  <1>5. fallback[r] \in Contexts /\ SoundContexts(fallback[r])
    BY <1>1 DEF TypeOK, Contexts, CachesSound
  <1>6. cur[r] \in Selectable
    BY <1>2, <1>4, <1>5, ResolveSettles
  <1>7. /\ NextConfig(cur[r].cfg) \in Configs
        /\ Level[NextConfig(cur[r].cfg)] < Level[cur[r].cfg]
        /\ Level[cur[r].cfg] \in {1, 2, 3}
    BY <1>2, <1>6, LevelFacts, SelectableFacts DEF OnCcu
  <1>8. n \in Selectable /\ Level[n.cfg] <= Level[NextConfig(cur[r].cfg)]
    BY <1>3, <1>7, KindFacts DEF Below
  <1>9. Level[n.cfg] < Level[cur[r].cfg]
    <2>1. Level[n.cfg] \in {1, 2, 3} /\ Level[NextConfig(cur[r].cfg)] \in {1, 2, 3}
      BY <1>7, <1>8, SelectableFacts, LevelFacts
    <2> HIDE DEF n
    <2> QED
      BY <1>7, <1>8, <2>1
  <1>10. EffFallback(r) = [fallback[r] EXCEPT ![cur[r].alg] = n]
    BY DEF EffFallback
  <1> HIDE DEF a, n
  <1>11. /\ EffFallback(r) \in Contexts
         /\ SoundContexts(EffFallback(r))
         /\ Resolve(EffFallback(r), a) = Resolve(EffFallback(r), n)
    BY <1>2, <1>4, <1>5, <1>8, <1>9, <1>10, RecordedStep
  <1> QED
    BY <1>6, <1>8, <1>11 DEF a, n

(* The effective caches and contexts are as sound as the actual ones.      *)
LEMMA EffSound ==
  ASSUME Sound, NEW r \in Ranks
  PROVE  /\ EffFallback(r) \in Contexts
         /\ SoundContexts(EffFallback(r))
         /\ EffCache(r) \in [Choices -> Choices \cup {NoChoice}]
         /\ SoundCache(EffCache(r))
         /\ EffRes(r) \subseteq resCtx[r]
  <1>1. TypeOK /\ CachesSound(r) /\ ExchangeSound(r)
    BY DEF Sound
  <1>2. EffFallback(r) \in Contexts /\ SoundContexts(EffFallback(r))
    <2>1. CASE pc[r] = "reduced" /\ answer[r] = "FAIL"
      BY <2>1, FallBackFacts
    <2>2. CASE ~(pc[r] = "reduced" /\ answer[r] = "FAIL")
      BY <1>1, <2>2 DEF EffFallback, TypeOK, Contexts, CachesSound
    <2> QED
      BY <2>1, <2>2
  <1>3. EffCache(r) \in [Choices -> Choices \cup {NoChoice}] /\ SoundCache(EffCache(r))
    <2>1. CASE pc[r] = "gathered"
      <3>1. answer[r] \in Configs /\ KindOf(r) \in Kinds /\ Selection(r) \in Choices
        BY <1>1, <2>1, CallFacts, SelectableFacts DEF ExchangeSound
      <3>2. Lowered(r) \in Selectable /\ Lowered(r) \in Choices
        BY <3>1, KindFacts, SelectableFacts DEF Lowered
      <3>3. EffCache(r) = [paramCache[r] EXCEPT ![Selection(r)] = Lowered(r)]
        BY <2>1 DEF EffCache
      <3>4. paramCache[r] \in [Choices -> Choices \cup {NoChoice}] /\ SoundCache(paramCache[r])
        BY <1>1 DEF TypeOK, CachesSound
      <3> QED
        BY <3>1, <3>2, <3>3, <3>4 DEF SoundCache
    <2>2. CASE pc[r] # "gathered"
      BY <1>1, <2>2 DEF EffCache, TypeOK, CachesSound
    <2> QED
      BY <2>1, <2>2
  <1>4. EffRes(r) \subseteq resCtx[r]
    BY DEF EffRes
  <1> QED
    BY <1>2, <1>3, <1>4

-----------------------------------------------------------------------------
(* What a rank does alone *)

(* Rank x is not touched. *)
Kept(x) ==
  /\ pc'[x] = pc[x] /\ cur'[x] = cur[x] /\ available'[x] = available[x]
  /\ answer'[x] = answer[x] /\ paramCache'[x] = paramCache[x]
  /\ fallback'[x] = fallback[x] /\ resCtx'[x] = resCtx[x] /\ ran'[x] = ran[x]

(* Rank r has moved on without changing its effective state; what it has   *)
(* run, if anything, is what its call ends with without an exchange.       *)
Quiet(r) ==
  /\ pc[r] # "failed"
  /\ EffCache(r)' = EffCache(r)
  /\ EffFallback(r)' = EffFallback(r)
  /\ EffRes(r)' = EffRes(r)
  /\ \/ ran'[r] = ran[r]
     \/ /\ Len(ran[r]) < MaxCalls
        /\ Straight(r, Len(ran[r]) + 1)
        /\ ran'[r] = Append(ran[r], Ending(r, Len(ran[r]) + 1))

Good(r) ==
  /\ program' = program
  /\ \A x \in Ranks : x # r => Kept(x)
  /\ TypeOK'
  /\ CachesSound(r)'
  /\ ExchangeSound(r)'
  /\ (pc'[r] = "failed" /\ ran'[r] = ran[r]) \/ Quiet(r)

(* The rest of HcclExecOp, once caches and contexts are up to date. *)
LEMMA Executed ==
  ASSUME Sound, NEW r \in Ranks, pc[r] \in {"idle", "gathered", "reduced"},
         Len(ran[r]) < MaxCalls, NEW has \in SUBSET (Algs \X Types),
         NEW x \in Selectable, EffCache(r)[Selection(r)] = x,
         program' = program, only' = only, answer' = answer,
         paramCache' = [paramCache EXCEPT ![r] = EffCache(r)],
         fallback' = [fallback EXCEPT ![r] = EffFallback(r)],
         Executes(r, Resolve(EffFallback(r), x), has)
  PROVE  Good(r)
  <1> DEFINE e == Resolve(EffFallback(r), x)
             d == Len(ran[r]) + 1
  <1>1. TypeOK /\ KindOf(r) \in Kinds /\ Selection(r) \in Selectable
        /\ Selection(r) \in Choices /\ d \in 1..MaxCalls /\ KindOf(r).type \in Types
    BY CallFacts, SelectableFacts DEF Sound
  <1>2. /\ EffFallback(r) \in Contexts /\ SoundContexts(EffFallback(r))
        /\ EffCache(r) \in [Choices -> Choices \cup {NoChoice}] /\ SoundCache(EffCache(r))
    BY EffSound
  <1>3. e \in Selectable /\ e \in Choices /\ e.alg \in Algs /\ x # NoChoice
    BY <1>2, ResolveSettles, SelectableFacts
  <1>4. Tag(r, e) \in Algs \X Types
    BY <1>1, <1>3 DEF Tag
  <1>5. paramCache'[r] = EffCache(r) /\ fallback'[r] = EffFallback(r)
        /\ \A y \in Ranks : y # r => paramCache'[y] = paramCache[y] /\ fallback'[y] = fallback[y]
    BY <1>1 DEF TypeOK
  <1>6. /\ paramCache' \in [Ranks -> [Choices -> Choices \cup {NoChoice}]]
        /\ fallback' \in [Ranks -> [Algs -> Choices \cup {NoChoice}]]
    BY <1>1, <1>2 DEF TypeOK, Contexts
  <1>7. CachesSound(r)'
    BY <1>2, <1>5 DEF CachesSound, SoundCache, SoundContexts, Descends, Level, OnCcu
  <1>8. EffRes(r) = resCtx[r]
    BY DEF EffRes
  <1>9. Ending(r, d) = e
    BY DEF Ending, CallKey, Selection, KindOf
  <1>10. (OnCcu(e) => Tag(r, e) \in resCtx[r]) => Straight(r, d)
    BY <1>3, <1>8, <1>9 DEF Straight, CallKey, Selection, KindOf, Tag
  <1> HIDE DEF e, d
  <1>11. CASE HasResources(r, e) /\ Runs(r, e, has)
    <2>1. /\ ran' = [ran EXCEPT ![r] = Append(@, e)]
          /\ pc' = [pc EXCEPT ![r] = "idle"]
          /\ channels' = [channels EXCEPT ![r] = has]
          /\ UNCHANGED <<cur, available, resCtx>>
      BY <1>11 DEF Runs
    <2>2. ran' \in [Ranks -> Seq(Choices)] /\ ran'[r] = Append(ran[r], e)
      BY <1>1, <1>3, <2>1 DEF TypeOK
    <2>3. Len(ran'[r]) = Len(ran[r]) + 1 /\ Len(ran[r]) \in Nat
      BY <1>1, <1>3, <2>2 DEF TypeOK
    <2>4. \A y \in Ranks : y # r => Kept(y)
      BY <1>1, <1>5, <2>1 DEF Kept, TypeOK
    <2>5. \A y \in Ranks : Len(ran'[y]) <= MaxCalls
      <3>1. MaxCalls \in Nat /\ \A y \in Ranks : Len(ran[y]) <= MaxCalls
        BY <1>1, FallbackAssumption DEF TypeOK
      <3>2. \A y \in Ranks : y # r => ran'[y] = ran[y]
        BY <2>4 DEF Kept
      <3>3. Len(ran'[r]) <= MaxCalls
        BY <2>3, <3>1
      <3> QED
        BY <3>1, <3>2, <3>3
    <2>6. TypeOK'
      BY <1>1, <1>6, <2>1, <2>2, <2>5 DEF TypeOK
    <2>7. pc'[r] = "idle" /\ resCtx'[r] = resCtx[r]
      BY <1>1, <2>1 DEF TypeOK
    <2>8. ExchangeSound(r)'
      BY <2>7 DEF ExchangeSound
    <2>9. EffCache(r)' = EffCache(r) /\ EffFallback(r)' = EffFallback(r) /\ EffRes(r)' = EffRes(r)
      BY <1>5, <1>8, <2>7 DEF EffCache, EffFallback, EffRes
    <2>10. Straight(r, d)
      BY <1>10, <1>11 DEF HasResources
    <2>11. Quiet(r)
      BY <1>9, <2>2, <2>9, <2>10 DEF Quiet, d
    <2> QED
      BY <1>7, <2>4, <2>6, <2>8, <2>11 DEF Good
  <1>12. CASE ~HasResources(r, e) /\ Allocates(r, e, has)
    <2>1. PICK ok \in BOOLEAN :
            LET new == IF ok THEN {Tag(r, e)} ELSE {}
            IN  /\ available' = [available EXCEPT ![r] = ok]
                /\ resCtx' = [resCtx EXCEPT ![r] = @ \cup new]
                /\ channels' = [channels EXCEPT ![r] = has \cup new]
                /\ cur' = [cur EXCEPT ![r] = e]
                /\ pc' = [pc EXCEPT ![r] = "reduce"]
                /\ UNCHANGED ran
      BY <1>12 DEF Allocates
    <2>2. /\ pc'[r] = "reduce" /\ cur'[r] = e /\ ran'[r] = ran[r] /\ available'[r] = ok
          /\ resCtx'[r] = resCtx[r] \cup (IF ok THEN {Tag(r, e)} ELSE {})
      BY <1>1, <2>1 DEF TypeOK
    <2>3. \A y \in Ranks : y # r => Kept(y)
      BY <1>1, <1>5, <2>1 DEF Kept, TypeOK
    <2>4. /\ resCtx' \in [Ranks -> SUBSET (Algs \X Types)]
          /\ channels' \in [Ranks -> SUBSET (Algs \X Types)]
      BY <1>1, <1>4, <2>1 DEF TypeOK
    <2>5. /\ pc' \in [Ranks -> {"idle", "gather", "gathered", "reduce", "reduced", "failed"}]
          /\ cur' \in [Ranks -> Choices \cup {NoChoice}]
          /\ available' \in [Ranks -> BOOLEAN]
      BY <1>1, <1>3, <2>1 DEF TypeOK
    <2>6. TypeOK'
      BY <1>1, <1>6, <2>1, <2>4, <2>5 DEF TypeOK
    <2>7. OnCcu(e) /\ Tag(r, e) \notin resCtx[r]
      BY <1>12 DEF HasResources
    <2>8. Selection(r)' = Selection(r) /\ Tag(r, cur[r])' = Tag(r, e)
      BY <2>1, <2>2 DEF Selection, KindOf, Tag
    <2>9. paramCache'[r][Selection(r)'] = x
      BY <1>5, <2>8
    <2>10. cur'[r] = Resolve(fallback'[r], paramCache'[r][Selection(r)'])
      BY <1>5, <2>2, <2>9 DEF e
    <2>11. ExchangeSound(r)'
      BY <1>3, <2>1, <2>2, <2>7, <2>8, <2>9, <2>10 DEF ExchangeSound, OnCcu, Resolve, Redirect
    <2>12. EffCache(r)' = EffCache(r) /\ EffFallback(r)' = EffFallback(r)
      BY <1>5, <2>2 DEF EffCache, EffFallback
    <2>13. EffRes(r)' = EffRes(r)
      BY <1>8, <2>2, <2>7, <2>8 DEF EffRes
    <2>14. Quiet(r)
      BY <2>2, <2>12, <2>13 DEF Quiet
    <2> QED
      BY <1>7, <2>3, <2>6, <2>11, <2>14 DEF Good
  <1> QED
    BY <1>11, <1>12 DEF Executes, e

(* An idle rank keeps its effective state as it is. *)
LEMMA GoodCallWithCache ==
  ASSUME Sound, NEW r \in Ranks, CallWithCache(r)
  PROVE  Good(r)
  <1>1. TypeOK /\ CachesSound(r)
    BY DEF Sound
  <1>2. pc[r] = "idle" /\ Len(ran[r]) < MaxCalls
    BY DEF CallWithCache, CanCall
  <1>3. EffCache(r) = paramCache[r] /\ EffFallback(r) = fallback[r]
    BY <1>2 DEF EffCache, EffFallback
  <1>4. Selection(r) \in Choices
    BY <1>1, <1>2, CallFacts, SelectableFacts
  <1>5. paramCache[r][Selection(r)] \in Selectable
    BY <1>1, <1>4 DEF CallWithCache, CachesSound, SoundCache
  <1>6. paramCache' = [paramCache EXCEPT ![r] = EffCache(r)]
        /\ fallback' = [fallback EXCEPT ![r] = EffFallback(r)]
    BY <1>1, <1>3 DEF CallWithCache, cacheVars, TypeOK
  <1>7. Executes(r, Resolve(EffFallback(r), paramCache[r][Selection(r)]), channels[r])
        /\ program' = program /\ only' = only /\ answer' = answer
    BY <1>3 DEF CallWithCache
  <1>8. channels[r] \in SUBSET (Algs \X Types)
    BY <1>1 DEF TypeOK
  <1> QED
    BY <1>2, <1>3, <1>5, <1>6, <1>7, <1>8, Executed

LEMMA GoodCallWithGather ==
  ASSUME Sound, NEW r \in Ranks, CallWithGather(r)
  PROVE  Good(r)
  <1>1. TypeOK /\ CachesSound(r)
    BY DEF Sound
  <1>2. pc[r] = "idle" /\ Len(ran[r]) < MaxCalls /\ paramCache[r][Selection(r)] = NoChoice
    BY DEF CallWithGather, CanCall
  <1>3. /\ cur' = [cur EXCEPT ![r] = Selection(r)]
        /\ pc' = [pc EXCEPT ![r] = "gather"]
        /\ program' = program /\ only' = only /\ answer' = answer
        /\ paramCache' = paramCache /\ fallback' = fallback /\ resCtx' = resCtx
        /\ channels' = channels /\ available' = available /\ ran' = ran
    BY DEF CallWithGather, cacheVars, resVars
  <1>4. Selection(r) \in Choices
    BY <1>1, <1>2, CallFacts, SelectableFacts
  <1>5. cur'[r] = Selection(r) /\ pc'[r] = "gather"
    BY <1>1, <1>3 DEF TypeOK
  <1>6. \A x \in Ranks : x # r => Kept(x)
    BY <1>1, <1>3 DEF TypeOK, Kept
  <1>7. TypeOK'
    BY <1>1, <1>3, <1>4 DEF TypeOK
  <1>8. CachesSound(r)'
    BY <1>1, <1>3 DEF CachesSound, SoundCache, SoundContexts, Descends, Level, OnCcu
  <1>9. Selection(r)' = Selection(r)
    BY <1>3 DEF Selection, KindOf
  <1>10. ExchangeSound(r)'
    BY <1>2, <1>3, <1>5, <1>9 DEF ExchangeSound
  <1>11. EffCache(r)' = EffCache(r) /\ EffFallback(r)' = EffFallback(r) /\ EffRes(r)' = EffRes(r)
    BY <1>2, <1>3, <1>5 DEF EffCache, EffFallback, EffRes
  <1>12. Quiet(r)
    BY <1>2, <1>3, <1>11 DEF Quiet
  <1> QED
    BY <1>3, <1>6, <1>7, <1>8, <1>10, <1>12 DEF Good

(* The answer is cached as it was counted: when it is the rank's own       *)
(* config, reselecting from it would have given the same.                  *)
LEMMA GoodAfterGather ==
  ASSUME Sound, NEW r \in Ranks, AfterGather(r)
  PROVE  Good(r)
  <1> DEFINE a == IF answer[r] = cur[r].cfg THEN cur[r] ELSE KindOf(r).re[answer[r]]
  <1>1. TypeOK /\ CachesSound(r) /\ ExchangeSound(r)
    BY DEF Sound
  <1>2. pc[r] = "gathered"
    BY DEF AfterGather
  <1>3. Len(ran[r]) < MaxCalls /\ cur[r] = Selection(r) /\ answer[r] \in Configs
    BY <1>1, <1>2 DEF ExchangeSound
  <1>4. KindOf(r) \in Kinds /\ Selection(r) \in Choices
    BY <1>1, <1>3, CallFacts, SelectableFacts
  <1>5. a = Lowered(r)
    <2>1. KindOf(r).re[Selection(r).cfg] = Selection(r)
      BY <1>4, KindFacts DEF Selection
    <2> QED
      BY <1>3, <2>1 DEF Lowered
  <1>6. Lowered(r) \in Selectable
    BY <1>3, <1>4, KindFacts DEF Lowered
  <1>7. EffCache(r) = [paramCache[r] EXCEPT ![Selection(r)] = Lowered(r)]
        /\ EffFallback(r) = fallback[r]
    BY <1>2 DEF EffCache, EffFallback
  <1>8. EffCache(r)[Selection(r)] = Lowered(r)
    BY <1>1, <1>4, <1>7 DEF TypeOK
  <1>9. /\ paramCache' = [paramCache EXCEPT ![r][Selection(r)] = a]
        /\ Executes(r, Resolve(fallback[r], a), channels[r])
        /\ program' = program /\ only' = only /\ answer' = answer /\ fallback' = fallback
    BY DEF AfterGather
  <1> HIDE DEF a
  <1>10. paramCache' = [paramCache EXCEPT ![r] = EffCache(r)]
    BY <1>1, <1>5, <1>7, <1>9 DEF TypeOK
  <1>11. fallback' = [fallback EXCEPT ![r] = EffFallback(r)]
    BY <1>1, <1>7, <1>9 DEF TypeOK
  <1>12. Executes(r, Resolve(EffFallback(r), Lowered(r)), channels[r])
    BY <1>5, <1>7, <1>9
  <1>13. channels[r] \in SUBSET (Algs \X Types)
    BY <1>1 DEF TypeOK
  <1> QED
    BY <1>2, <1>3, <1>6, <1>8, <1>9, <1>10, <1>11, <1>12, <1>13, Executed

LEMMA GoodFallBack ==
  ASSUME Sound, NEW r \in Ranks, FallBack(r)
  PROVE  Good(r)
  <1> DEFINE has == channels[r] \ {Tag(r, cur[r])}
             x == paramCache[r][Selection(r)]
  <1>1. TypeOK /\ CachesSound(r) /\ ExchangeSound(r)
    BY DEF Sound
  <1>2. pc[r] = "reduced" /\ answer[r] = "FAIL"
    BY DEF FallBack
  <1>3. Len(ran[r]) < MaxCalls /\ x # NoChoice
    BY <1>1, <1>2 DEF ExchangeSound
  <1>4. x \in Selectable
    BY <1>1, <1>3, CallFacts, SelectableFacts DEF CachesSound, SoundCache
  <1>5. EffCache(r) = paramCache[r]
        /\ EffFallback(r) = [fallback[r] EXCEPT ![cur[r].alg] = Below(r)]
    BY <1>2 DEF EffCache, EffFallback
  <1>6. /\ fallback' = [fallback EXCEPT ![r] = EffFallback(r)]
        /\ Executes(r, Resolve(EffFallback(r), Below(r)), has)
        /\ program' = program /\ only' = only /\ answer' = answer /\ paramCache' = paramCache
    BY <1>5 DEF FallBack, Below
  <1>7. paramCache' = [paramCache EXCEPT ![r] = EffCache(r)]
    BY <1>1, <1>5, <1>6 DEF TypeOK
  <1>8. Executes(r, Resolve(EffFallback(r), x), has)
    BY <1>2, <1>6, FallBackFacts
  <1>9. has \in SUBSET (Algs \X Types)
    BY <1>1 DEF TypeOK
  <1>10. EffCache(r)[Selection(r)] = x
    BY <1>5
  <1> HIDE DEF has, x
  <1> QED
    BY <1>2, <1>3, <1>4, <1>6, <1>7, <1>8, <1>9, <1>10, Executed

(* The negotiated algorithm runs: its context is there on this rank, too.  *)
LEMMA GoodRunNegotiated ==
  ASSUME Sound, NEW r \in Ranks, RunNegotiated(r)
  PROVE  Good(r)
  <1> DEFINE x == paramCache[r][Selection(r)]
  <1>1. TypeOK /\ CachesSound(r) /\ ExchangeSound(r)
    BY DEF Sound
  <1>2. pc[r] = "reduced" /\ answer[r] = "SUCCESS"
    BY DEF RunNegotiated
  <1>3. /\ Len(ran[r]) < MaxCalls /\ x # NoChoice
        /\ cur[r] = Resolve(fallback[r], x) /\ Tag(r, cur[r]) \in resCtx[r]
    BY <1>1, <1>2 DEF ExchangeSound
  <1>4. x \in Selectable
    BY <1>1, <1>3, CallFacts, SelectableFacts DEF CachesSound, SoundCache
  <1>5. EffCache(r) = paramCache[r] /\ EffFallback(r) = fallback[r]
    BY <1>2 DEF EffCache, EffFallback
  <1>6. /\ paramCache' = [paramCache EXCEPT ![r] = EffCache(r)]
        /\ fallback' = [fallback EXCEPT ![r] = EffFallback(r)]
    BY <1>1, <1>5 DEF RunNegotiated, cacheVars, TypeOK
  <1>7. HasResources(r, cur[r])
    BY <1>3 DEF HasResources
  <1>8. /\ Executes(r, Resolve(EffFallback(r), x), channels[r])
        /\ program' = program /\ only' = only /\ answer' = answer
    BY <1>3, <1>5, <1>7 DEF RunNegotiated, Executes
  <1>9. channels[r] \in SUBSET (Algs \X Types)
    BY <1>1 DEF TypeOK
  <1>10. EffCache(r)[Selection(r)] = x
    BY <1>5
  <1> HIDE DEF x
  <1> QED
    BY <1>2, <1>3, <1>4, <1>6, <1>8, <1>9, <1>10, Executed

(* A rank that fails leaves everything else as it is. *)
LEMMA GoodFailure ==
  ASSUME Sound, NEW r \in Ranks, OnlyFails(r) \/ Fails(r)
  PROVE  Good(r)
  <1>1. TypeOK /\ CachesSound(r)
    BY DEF Sound
  <1>2. /\ pc' = [pc EXCEPT ![r] = "failed"]
        /\ program' = program /\ only' = only /\ answer' = answer /\ cur' = cur
        /\ paramCache' = paramCache /\ fallback' = fallback /\ resCtx' = resCtx
        /\ available' = available /\ ran' = ran
        /\ channels' = channels \/ channels' = [channels EXCEPT ![r] = @ \ {Tag(r, cur[r])}]
    BY DEF OnlyFails, Fails, cacheVars, resVars
  <1>3. pc'[r] = "failed"
    BY <1>1, <1>2 DEF TypeOK
  <1>4. \A x \in Ranks : x # r => Kept(x)
    BY <1>1, <1>2 DEF TypeOK, Kept
  <1>5. channels' \in [Ranks -> SUBSET (Algs \X Types)]
    <2>1. channels \in [Ranks -> SUBSET (Algs \X Types)]
      BY <1>1 DEF TypeOK
    <2>2. channels[r] \ {Tag(r, cur[r])} \in SUBSET (Algs \X Types)
      BY <2>1
    <2> QED
      BY <1>2, <2>1, <2>2
  <1>6. TypeOK'
    BY <1>1, <1>2, <1>5 DEF TypeOK
  <1>7. CachesSound(r)'
    BY <1>1, <1>2 DEF CachesSound, SoundCache, SoundContexts, Descends, Level, OnCcu
  <1>8. ExchangeSound(r)'
    BY <1>3 DEF ExchangeSound
  <1> QED
    BY <1>2, <1>3, <1>4, <1>6, <1>7, <1>8 DEF Good

(* Every step of a single rank is good. *)
LEMMA GoodSteps ==
  ASSUME Sound, NEW r \in Ranks, RankSteps(r) \/ Fails(r)
  PROVE  Good(r)
  BY GoodCallWithCache, GoodCallWithGather, GoodAfterGather, GoodRunNegotiated,
     GoodFallBack, GoodFailure DEF RankSteps

-----------------------------------------------------------------------------
(* Sound is inductive *)

(* An untouched rank stays sound. *)
LEMMA KeptSound ==
  ASSUME Sound, NEW x \in Ranks, program' = program, Kept(x)
  PROVE  CachesSound(x)' /\ ExchangeSound(x)'
  <1>1. CachesSound(x) /\ ExchangeSound(x)
    BY DEF Sound
  <1>2. CachesSound(x)'
    BY <1>1 DEF Kept, CachesSound, SoundCache, SoundContexts, Descends, Level, OnCcu
  <1>3. Selection(x)' = Selection(x) /\ Tag(x, cur[x])' = Tag(x, cur[x])
    BY DEF Kept, Selection, Tag, KindOf
  <1>4. ExchangeSound(x)'
    BY <1>1, <1>3 DEF Kept, ExchangeSound, OnCcu, Resolve, Redirect
  <1> QED
    BY <1>2, <1>4

LEMMA GoodSound ==
  ASSUME Sound, NEW r \in Ranks, Good(r)
  PROVE  Sound'
  <1>1. TypeOK' /\ CachesSound(r)' /\ ExchangeSound(r)' /\ program' = program
    BY DEF Good
  <1>2. \A x \in Ranks : x # r => CachesSound(x)' /\ ExchangeSound(x)'
    BY KeptSound DEF Good
  <1>3. \A x \in Ranks : CachesSound(x)' /\ ExchangeSound(x)'
    BY <1>1, <1>2
  <1> QED
    BY <1>1, <1>3 DEF Sound

(* A completed exchange moves all ranks on and leaves the rest.            *)
LEMMA GatherSound ==
  ASSUME Sound, GatherCompletes
  PROVE  Sound'
  <1>1. TypeOK /\ \A r \in Ranks : CachesSound(r) /\ ExchangeSound(r)
    BY DEF Sound
  <1>2. /\ \A r \in Ranks : pc[r] = "gather"
        /\ pc' = [r \in Ranks |-> "gathered"]
        /\ \A r \in Ranks : answer'[r] \in Configs
        /\ answer' \in [Ranks -> Configs \cup {"none", "SUCCESS", "FAIL"}]
    BY DEF GatherCompletes
  <1>3. /\ program' = program /\ only' = only /\ cur' = cur
        /\ paramCache' = paramCache /\ fallback' = fallback /\ resCtx' = resCtx
        /\ channels' = channels /\ available' = available /\ ran' = ran
    BY DEF GatherCompletes, cacheVars, resVars
  <1>4. TypeOK'
    BY <1>1, <1>2, <1>3 DEF TypeOK
  <1>5. ASSUME NEW r \in Ranks PROVE CachesSound(r)' /\ ExchangeSound(r)'
    <2>1. CachesSound(r)'
      BY <1>1, <1>3 DEF CachesSound, SoundCache, SoundContexts, Descends, Level, OnCcu
    <2>2. Selection(r)' = Selection(r)
      BY <1>3 DEF Selection, KindOf
    <2>3. ExchangeSound(r)'
      BY <1>1, <1>2, <1>3, <2>2 DEF ExchangeSound
    <2> QED
      BY <2>1, <2>3
  <1> QED
    BY <1>4, <1>5 DEF Sound

LEMMA ReduceSound ==
  ASSUME Sound, ReduceCompletes
  PROVE  Sound'
  <1>1. TypeOK /\ \A r \in Ranks : CachesSound(r) /\ ExchangeSound(r)
    BY DEF Sound
  <1>2. /\ \A r \in Ranks : pc[r] = "reduce"
        /\ pc' = [r \in Ranks |-> "reduced"]
        /\ \A r \in Ranks : answer'[r] \in {"SUCCESS", "FAIL"}
        /\ \A r \in Ranks : answer'[r] = "SUCCESS" => available[r]
        /\ answer' \in [Ranks -> Configs \cup {"none", "SUCCESS", "FAIL"}]
    BY DEF ReduceCompletes
  <1>3. /\ program' = program /\ only' = only /\ cur' = cur
        /\ paramCache' = paramCache /\ fallback' = fallback /\ resCtx' = resCtx
        /\ channels' = channels /\ available' = available /\ ran' = ran
    BY DEF ReduceCompletes, cacheVars, resVars
  <1>4. TypeOK'
    BY <1>1, <1>2, <1>3 DEF TypeOK
  <1>5. ASSUME NEW r \in Ranks PROVE CachesSound(r)' /\ ExchangeSound(r)'
    <2>1. CachesSound(r)'
      BY <1>1, <1>3 DEF CachesSound, SoundCache, SoundContexts, Descends, Level, OnCcu
    <2>2. Selection(r)' = Selection(r) /\ Tag(r, cur[r])' = Tag(r, cur[r])
      BY <1>3 DEF Selection, KindOf, Tag
    <2>3. pc[r] = "reduce" /\ pc'[r] = "reduced"
      BY <1>2
    <2>4. ExchangeSound(r)'
      BY <1>1, <1>2, <1>3, <2>2, <2>3 DEF ExchangeSound, OnCcu, Resolve, Redirect
    <2> QED
      BY <2>1, <2>4
  <1> QED
    BY <1>4, <1>5 DEF Sound

LEMMA InitSound == Init => Sound
  <1> SUFFICES ASSUME Init PROVE Sound
    OBVIOUS
  <1>1. TypeOK
    <2>1. ran \in [Ranks -> Seq(Choices)] /\ \A r \in Ranks : Len(ran[r]) <= MaxCalls
      BY FallbackAssumption DEF Init
    <2>2. program \in [1..MaxCalls -> Kinds] /\ only \subseteq Ranks
      BY FallbackAssumption DEF Init
    <2> QED
      BY <2>1, <2>2 DEF Init, TypeOK
  <1>2. \A r \in Ranks : CachesSound(r) /\ ExchangeSound(r)
    BY DEF Init, CachesSound, SoundCache, SoundContexts, ExchangeSound
  <1> QED
    BY <1>1, <1>2 DEF Sound

LEMMA StepSound == Sound /\ [Next]_vars => Sound'
  <1> SUFFICES ASSUME Sound, [Next]_vars PROVE Sound'
    OBVIOUS
  <1>1. CASE GatherCompletes
    BY <1>1, GatherSound
  <1>2. CASE ReduceCompletes
    BY <1>2, ReduceSound
  <1>3. CASE \E r \in Ranks : RankSteps(r) \/ Fails(r)
    BY <1>3, GoodSteps, GoodSound
  <1>4. CASE UNCHANGED vars
    <2>1. \A r \in Ranks : Kept(r)
      BY <1>4 DEF vars, Kept
    <2>2. TypeOK' /\ program' = program
      BY <1>4 DEF vars, Sound, TypeOK
    <2>3. \A r \in Ranks : CachesSound(r)' /\ ExchangeSound(r)'
      BY <2>1, <2>2, KeptSound
    <2> QED
      BY <2>2, <2>3 DEF Sound
  <1> QED
    BY <1>1, <1>2, <1>3, <1>4 DEF Next

LEMMA AlwaysSound == Spec => []Sound
  BY InitSound, StepSound, PTL DEF Spec

(* The variables keep their types: what a rank runs are choices, caches    *)
(* and contexts hold choices, and nobody goes past the program.            *)
THEOREM TypeCorrect == Spec => []TypeOK
  <1>1. Sound => TypeOK
    BY DEF Sound
  <1> QED
    BY <1>1, AlwaysSound, PTL

-----------------------------------------------------------------------------
(* Steps of a single rank keep the ranks together *)

(* Ranks with the same effective state finish a call in the same way.      *)
LEMMA Transfer ==
  ASSUME Sound, SameState, NEW r \in Live, NEW s \in Live, NEW c \in 1..MaxCalls
  PROVE  /\ Ending(r, c) = Ending(s, c)
         /\ Straight(r, c) <=> Straight(s, c)
  <1> DEFINE x == EffCache(r)[CallKey(r, c)]
             e == Resolve(EffFallback(r), x)
  <1>1. r \in Ranks /\ s \in Ranks /\ program[c] \in Kinds
    BY DEF Live, Sound, TypeOK
  <1>2. x = EffCache(s)[CallKey(s, c)] /\ EffFallback(r) = EffFallback(s)
    BY <1>1 DEF SameState, CallKey
  <1>3. Ending(r, c) = e /\ Ending(s, c) = e
    BY <1>2 DEF Ending
  <1>4. ASSUME x # NoChoice, OnCcu(e)
        PROVE  <<e.alg, program[c].type>> \in EffRes(r) <=> <<e.alg, program[c].type>> \in EffRes(s)
    <2>1. CallKey(r, c) \in Choices /\ program[c].type \in Types
      BY <1>1, KindFacts, SelectableFacts DEF CallKey
    <2>2. x \in Selectable
      BY <1>1, <1>4, <2>1, EffSound DEF SoundCache
    <2>3. e \in Selectable /\ EffFallback(r)[e.alg] = NoChoice
      BY <1>1, <1>4, <2>2, EffSound, ResolveSettles
    <2> HIDE DEF e
    <2>4. e.alg \in Algs
      BY <2>3, SelectableFacts
    <2> DEFINE t == <<e.alg, program[c].type>>
    <2>5. t \in Algs \X Types /\ t[1] = e.alg
      BY <2>1, <2>4
    <2> HIDE DEF t
    <2>6. t \in EffRes(r) <=> t \in EffRes(s)
      BY <2>3, <2>5 DEF SameState
    <2> QED
      BY <2>6 DEF t
  <1> HIDE DEF x, e
  <1>5. /\ Straight(r, c) <=> x # NoChoice /\ (OnCcu(e) => <<e.alg, program[c].type>> \in EffRes(r))
        /\ Straight(s, c) <=> x # NoChoice /\ (OnCcu(e) => <<e.alg, program[c].type>> \in EffRes(s))
    BY <1>2, <1>3 DEF Straight, x
  <1> QED
    BY <1>3, <1>4, <1>5

(* A good step leaves the effective state of every rank still alive. *)
LEMMA GoodEff ==
  ASSUME NEW r \in Ranks, Good(r)
  PROVE  \A x \in Live' :
           /\ x \in Live
           /\ EffCache(x)' = EffCache(x)
           /\ EffFallback(x)' = EffFallback(x)
           /\ EffRes(x)' = EffRes(x)
  <1> SUFFICES ASSUME NEW x \in Live'
               PROVE  /\ x \in Live
                      /\ EffCache(x)' = EffCache(x)
                      /\ EffFallback(x)' = EffFallback(x)
                      /\ EffRes(x)' = EffRes(x)
    OBVIOUS
  <1>1. x \in Ranks /\ pc'[x] # "failed"
    BY DEF Live
  <1>2. CASE x = r
    BY <1>1, <1>2 DEF Good, Quiet, Live
  <1>3. CASE x # r
    <2>1. Kept(x) /\ program' = program
      BY <1>1, <1>3 DEF Good
    <2>2. /\ KindOf(x)' = KindOf(x) /\ Selection(x)' = Selection(x)
          /\ Tag(x, cur[x])' = Tag(x, cur[x])
      BY <2>1 DEF Kept, Selection, Tag, KindOf
    <2>3. EffCache(x)' = EffCache(x)
      BY <2>1, <2>2 DEF Kept, EffCache, Lowered
    <2>4. EffFallback(x)' = EffFallback(x)
      BY <2>1, <2>2 DEF Kept, EffFallback, Below, NextConfig
    <2>5. EffRes(x)' = EffRes(x)
      BY <2>1, <2>2 DEF Kept, EffRes
    <2> QED
      BY <1>1, <2>1, <2>3, <2>4, <2>5 DEF Live, Kept
  <1> QED
    BY <1>2, <1>3

LEMMA GoodSameState ==
  ASSUME SameState, NEW r \in Ranks, Good(r)
  PROVE  SameState'
  <1> SUFFICES ASSUME NEW x \in Live', NEW y \in Live'
               PROVE  /\ \A k \in Kinds : EffCache(x)'[k.sel[x]] = EffCache(y)'[k.sel[y]]
                      /\ EffFallback(x)' = EffFallback(y)'
                      /\ \A t \in Algs \X Types : EffFallback(x)'[t[1]] = NoChoice =>
                           (t \in EffRes(x)' <=> t \in EffRes(y)')
    BY DEF SameState
  <1>1. x \in Live /\ y \in Live
        /\ EffCache(x)' = EffCache(x) /\ EffCache(y)' = EffCache(y)
        /\ EffFallback(x)' = EffFallback(x) /\ EffFallback(y)' = EffFallback(y)
        /\ EffRes(x)' = EffRes(x) /\ EffRes(y)' = EffRes(y)
    BY GoodEff
  <1> QED
    BY <1>1 DEF SameState

(* What a good step does to the record of what ran. *)
LEMMA GoodRan ==
  ASSUME Sound, NEW r \in Ranks, Good(r)
  PROVE  /\ \A x \in Ranks : x # r => ran'[x] = ran[x]
         /\ \/ ran'[r] = ran[r]
            \/ /\ r \in Live
               /\ Len(ran[r]) + 1 \in 1..MaxCalls
               /\ Straight(r, Len(ran[r]) + 1)
               /\ Len(ran'[r]) = Len(ran[r]) + 1
               /\ ran'[r][Len(ran[r]) + 1] = Ending(r, Len(ran[r]) + 1)
               /\ \A c \in 1..Len(ran[r]) : ran'[r][c] = ran[r][c]
  <1>1. \A x \in Ranks : x # r => ran'[x] = ran[x]
    BY DEF Good, Kept
  <1>2. ran'[r] # ran[r] => Quiet(r)
    BY DEF Good
  <1>3. ASSUME ran'[r] # ran[r]
        PROVE  /\ r \in Live
               /\ Len(ran[r]) + 1 \in 1..MaxCalls
               /\ Straight(r, Len(ran[r]) + 1)
               /\ ran'[r] = Append(ran[r], Ending(r, Len(ran[r]) + 1))
    BY <1>2, <1>3, CallFacts DEF Quiet, Sound, Live
  <1>4. ran[r] \in Seq(Choices) /\ ran'[r] \in Seq(Choices)
    BY DEF Sound, Good, TypeOK
  <1>5. ASSUME ran'[r] # ran[r]
        PROVE  /\ Len(ran'[r]) = Len(ran[r]) + 1
               /\ ran'[r][Len(ran[r]) + 1] = Ending(r, Len(ran[r]) + 1)
               /\ \A c \in 1..Len(ran[r]) : ran'[r][c] = ran[r][c]
    BY <1>3, <1>4, <1>5
  <1> QED
    BY <1>1, <1>3, <1>5

LEMMA GoodAhead ==
  ASSUME Sound, SameState, Ahead, NEW r \in Ranks, Good(r)
  PROVE  Ahead'
  <1> SUFFICES ASSUME NEW x \in Live', NEW y \in Ranks, NEW c \in 1..MaxCalls,
                      Len(ran'[x]) < c, c <= Len(ran'[y])
               PROVE  Straight(x, c)' /\ ran'[y][c] = Ending(x, c)'
    BY DEF Ahead
  <1>1. x \in Live /\ x \in Ranks /\ EffCache(x)' = EffCache(x)
        /\ EffFallback(x)' = EffFallback(x) /\ EffRes(x)' = EffRes(x) /\ program' = program
    BY GoodEff DEF Good, Live
  <1>2. Ending(x, c)' = Ending(x, c) /\ CallKey(x, c)' = CallKey(x, c)
    BY <1>1 DEF Ending, CallKey, Resolve, Redirect, OnCcu
  <1>3. Straight(x, c)' = Straight(x, c)
    BY <1>1, <1>2 DEF Straight, OnCcu
  <1>4. \A z \in Ranks : Len(ran[z]) \in Nat /\ Len(ran'[z]) \in Nat
    BY DEF Sound, Good, TypeOK
  <1>5. Len(ran[x]) < c
    BY <1>1, <1>4, GoodRan
  <1>6. CASE c <= Len(ran[y])
    <2>1. Straight(x, c) /\ ran[y][c] = Ending(x, c)
      BY <1>1, <1>5, <1>6 DEF Ahead
    <2>2. ran'[y][c] = ran[y][c]
      BY <1>4, <1>6, GoodRan
    <2> QED
      BY <1>2, <1>3, <2>1, <2>2
  <1>7. CASE ~(c <= Len(ran[y]))
    <2>1. ran'[y] # ran[y] /\ y = r
      BY <1>7, GoodRan
    <2>2. /\ r \in Live /\ Straight(r, Len(ran[r]) + 1) /\ Len(ran'[r]) = Len(ran[r]) + 1
          /\ ran'[r][Len(ran[r]) + 1] = Ending(r, Len(ran[r]) + 1)
      BY <2>1, GoodRan
    <2>3. c = Len(ran[r]) + 1
      BY <1>4, <1>7, <2>1, <2>2
    <2>4. Straight(x, c) /\ Ending(x, c) = Ending(r, c)
      BY <1>1, <2>2, <2>3, Transfer
    <2> QED
      BY <1>2, <1>3, <2>1, <2>2, <2>3, <2>4
  <1> QED
    BY <1>6, <1>7

LEMMA GoodAgreement ==
  ASSUME Sound, Ahead, Agreement, NEW r \in Ranks, Good(r)
  PROVE  Agreement'
  <1>1. \A z \in Ranks : /\ Len(ran[z]) \in Nat /\ Len(ran'[z]) \in Nat
                         /\ DOMAIN ran[z] = 1..Len(ran[z]) /\ DOMAIN ran'[z] = 1..Len(ran'[z])
    BY DEF Sound, Good, TypeOK
  <1>2. CASE ran'[r] = ran[r]
    BY <1>2, GoodRan DEF Agreement
  <1>3. CASE ran'[r] # ran[r]
    <2> DEFINE d == Len(ran[r]) + 1
    <2>1. /\ r \in Live /\ d \in 1..MaxCalls /\ Len(ran'[r]) = d /\ ran'[r][d] = Ending(r, d)
          /\ \A c \in 1..Len(ran[r]) : ran'[r][c] = ran[r][c]
          /\ \A x \in Ranks : x # r => ran'[x] = ran[x]
      BY <1>3, GoodRan
    <2>2. ASSUME NEW y \in Ranks, y # r, NEW c \in 1..Len(ran'[r]), c \in 1..Len(ran[y])
          PROVE  ran'[r][c] = ran[y][c]
      <3>1. CASE c = d
        <4>1. Len(ran[r]) < d /\ d <= Len(ran[y])
          BY <1>1, <2>2, <3>1
        <4> QED
          BY <2>1, <2>2, <3>1, <4>1 DEF Ahead
      <3>2. CASE c # d
        <4>1. c \in 1..Len(ran[r])
          BY <1>1, <2>1, <2>2, <3>2
        <4> QED
          BY <1>1, <2>1, <2>2, <4>1 DEF Agreement
      <3> QED
        BY <3>1, <3>2
    <2> HIDE DEF d
    <2>3. ASSUME NEW x \in Ranks, NEW y \in Ranks, NEW c \in DOMAIN ran'[x] \cap DOMAIN ran'[y]
          PROVE  ran'[x][c] = ran'[y][c]
      <3>1. c \in 1..Len(ran'[x]) /\ c \in 1..Len(ran'[y])
        BY <1>1, <2>3
      <3>2. CASE x = r /\ y # r
        BY <2>1, <2>2, <2>3, <3>1, <3>2
      <3>3. CASE y = r /\ x # r
        BY <2>1, <2>2, <2>3, <3>1, <3>3
      <3>4. CASE x = r /\ y = r
        BY <3>4
      <3>5. CASE x # r /\ y # r
        BY <2>1, <2>3, <3>5 DEF Agreement
      <3> QED
        BY <3>2, <3>3, <3>4, <3>5
    <2> QED
      BY <2>3 DEF Agreement
  <1> QED
    BY <1>2, <1>3

(* What runs lies no higher than what is cached for its call. *)
LEMMA GoodLow ==
  ASSUME Sound, Low, LowestCommonConfig, NEW r \in Ranks, Good(r)
  PROVE  Low' /\ LowestCommonConfig'
  <1>1. Low'
    <2> SUFFICES ASSUME NEW x \in Live', NEW k \in Kinds, EffCache(x)'[k.sel[x]] # NoChoice,
                        NEW s \in Ranks
                 PROVE  Level[EffCache(x)'[k.sel[x]].cfg] <= Level[k.sel[s].cfg]
      BY DEF Low, Level
    <2>1. x \in Live /\ EffCache(x)' = EffCache(x)
      BY GoodEff
    <2> QED
      BY <2>1 DEF Low
  <1>2. \A z \in Ranks : /\ Len(ran[z]) \in Nat /\ Len(ran'[z]) \in Nat
                         /\ DOMAIN ran[z] = 1..Len(ran[z]) /\ DOMAIN ran'[z] = 1..Len(ran'[z])
    BY DEF Sound, Good, TypeOK
  <1>3. ASSUME NEW x \in Ranks, NEW s \in Ranks, NEW c \in DOMAIN ran'[x]
        PROVE  Level[ran'[x][c].cfg] <= Level[program[c].sel[s].cfg]
    <2>1. CASE c \in DOMAIN ran[x]
      <3>1. ran'[x][c] = ran[x][c]
        BY <1>2, <1>3, <2>1, GoodRan
      <3> QED
        BY <1>3, <2>1, <3>1 DEF LowestCommonConfig
    <2>2. CASE c \notin DOMAIN ran[x]
      <3>1. x = r /\ ran'[r] # ran[r]
        BY <1>3, <2>2, GoodRan
      <3>2. /\ r \in Live /\ Straight(r, Len(ran[r]) + 1) /\ Len(ran'[r]) = Len(ran[r]) + 1
            /\ ran'[r][Len(ran[r]) + 1] = Ending(r, Len(ran[r]) + 1)
            /\ Len(ran[r]) + 1 \in 1..MaxCalls
        BY <3>1, GoodRan
      <3>3. c = Len(ran[r]) + 1
        BY <1>2, <1>3, <2>2, <3>1, <3>2
      <3> DEFINE a == EffCache(r)[CallKey(r, c)]
                 e == Resolve(EffFallback(r), a)
      <3>4. ran'[x][c] = e /\ a # NoChoice
        BY <3>1, <3>2, <3>3 DEF Ending, Straight
      <3>5. program[c] \in Kinds
        BY <3>2, <3>3 DEF Sound, TypeOK
      <3>6. CallKey(r, c) \in Choices /\ program[c].sel[s] \in Selectable
        BY <1>3, <3>5, KindFacts, SelectableFacts DEF CallKey
      <3>7. a \in Selectable
        BY <3>4, <3>6, EffSound DEF SoundCache
      <3>8. e \in Selectable /\ Level[e.cfg] <= Level[a.cfg]
        BY <3>7, EffSound, ResolveDown, ResolveSettles
      <3>9. Level[a.cfg] <= Level[program[c].sel[s].cfg]
        BY <1>3, <3>2, <3>4, <3>5 DEF Low, CallKey
      <3> HIDE DEF a, e
      <3>10. /\ Level[a.cfg] \in {1, 2, 3} /\ Level[e.cfg] \in {1, 2, 3}
             /\ Level[program[c].sel[s].cfg] \in {1, 2, 3}
        BY <3>6, <3>7, <3>8, SelectableFacts, LevelFacts
      <3> QED
        BY <3>4, <3>8, <3>9, <3>10
    <2> QED
      BY <2>1, <2>2
  <1>4. program' = program
    BY DEF Good
  <1>5. LowestCommonConfig'
    BY <1>3, <1>4 DEF LowestCommonConfig, Level
  <1> QED
    BY <1>1, <1>5

-----------------------------------------------------------------------------
(* Exchanges *)

(* A rank in the AllGather has nothing cached; one in the AllReduce stands *)
(* where its hops end, which has no resources.                             *)
LEMMA ExchangeFacts ==
  ASSUME Sound, NEW r \in Ranks, pc[r] \in {"gather", "reduce"}
  PROVE  LET c == Len(ran[r]) + 1
         IN  /\ r \in Live /\ Len(ran[r]) \in Nat /\ c \in 1..MaxCalls
             /\ KindOf(r) \in Kinds /\ KindOf(r) = program[c]
             /\ EffCache(r) = paramCache[r] /\ EffFallback(r) = fallback[r]
             /\ ~Straight(r, c)
             /\ pc[r] = "gather" <=> EffCache(r)[KindOf(r).sel[r]] = NoChoice
             /\ pc[r] = "gather" => cur[r] = KindOf(r).sel[r]
             /\ pc[r] = "reduce" => cur[r] = Ending(r, c) /\ cur[r] \in Selectable
  <1> DEFINE c == Len(ran[r]) + 1
  <1>1. TypeOK /\ CachesSound(r) /\ ExchangeSound(r)
    BY DEF Sound
  <1>2. Len(ran[r]) < MaxCalls
    BY <1>1 DEF ExchangeSound
  <1>3. r \in Live /\ Len(ran[r]) \in Nat /\ c \in 1..MaxCalls /\ KindOf(r) \in Kinds
        /\ Selection(r) \in Choices
    BY <1>1, <1>2, CallFacts, SelectableFacts DEF Live
  <1>4. KindOf(r) = program[c] /\ CallKey(r, c) = Selection(r) /\ Selection(r) = KindOf(r).sel[r]
    BY DEF KindOf, CallKey, Selection
  <1> HIDE DEF c
  <1>5. EffCache(r) = paramCache[r] /\ EffFallback(r) = fallback[r]
    BY DEF EffCache, EffFallback
  <1>6. CASE pc[r] = "gather"
    <2>1. cur[r] = Selection(r) /\ paramCache[r][Selection(r)] = NoChoice
      BY <1>1, <1>6 DEF ExchangeSound
    <2>2. ~Straight(r, c)
      BY <1>4, <1>5, <2>1 DEF Straight
    <2> QED
      BY <1>3, <1>4, <1>5, <1>6, <2>1, <2>2 DEF c
  <1>7. CASE pc[r] = "reduce"
    <2>1. /\ paramCache[r][Selection(r)] # NoChoice
          /\ cur[r] = Resolve(fallback[r], paramCache[r][Selection(r)])
          /\ OnCcu(cur[r])
      BY <1>1, <1>7 DEF ExchangeSound
    <2>2. cur[r] = Ending(r, c)
      BY <1>4, <1>5, <2>1 DEF Ending
    <2>3. EffRes(r) = resCtx[r] \ {<<cur[r].alg, program[c].type>>}
      BY <1>4, <1>7 DEF EffRes, Tag
    <2>4. ~Straight(r, c)
      BY <2>1, <2>2, <2>3 DEF Straight
    <2>5. cur[r] \in Selectable
      <3>1. paramCache[r][Selection(r)] \in Selectable
        BY <1>1, <1>3, <2>1 DEF CachesSound, SoundCache
      <3>2. fallback[r] \in Contexts /\ SoundContexts(fallback[r])
        BY <1>1 DEF TypeOK, Contexts, CachesSound
      <3> QED
        BY <2>1, <3>1, <3>2, ResolveSettles
    <2> QED
      BY <1>3, <1>4, <1>5, <1>7, <2>1, <2>2, <2>4, <2>5 DEF c
  <1> QED
    BY <1>6, <1>7

(* Nobody has got past the call of a rank that is in an exchange. *)
LEMMA NobodyPast ==
  ASSUME Sound, Ahead, NEW r \in Ranks, pc[r] \in {"gather", "reduce"}, NEW s \in Ranks
  PROVE  Len(ran[s]) <= Len(ran[r])
  <1>1. /\ r \in Live /\ Len(ran[r]) \in Nat /\ Len(ran[r]) + 1 \in 1..MaxCalls
        /\ ~Straight(r, Len(ran[r]) + 1)
    BY ExchangeFacts
  <1>2. Len(ran[s]) \in Nat
    BY DEF Sound, TypeOK
  <1>3. ~(Len(ran[r]) + 1 <= Len(ran[s]))
    BY <1>1 DEF Ahead
  <1> QED
    BY <1>1, <1>2, <1>3

(* Ranks in an exchange are in the same one, about the same thing. *)
LEMMA TogetherInExchange ==
  ASSUME Sound, SameState, Ahead, NEW r \in Ranks, NEW s \in Ranks,
         pc[r] \in {"gather", "reduce"}, pc[s] \in {"gather", "reduce"}
  PROVE  /\ pc[r] = pc[s]
         /\ Len(ran[r]) = Len(ran[s])
         /\ KindOf(r) = KindOf(s)
         /\ pc[r] = "reduce" => cur[r] = cur[s]
  <1>1. Len(ran[r]) = Len(ran[s])
    <2>1. Len(ran[r]) \in Nat /\ Len(ran[s]) \in Nat
      BY DEF Sound, TypeOK
    <2>2. Len(ran[r]) <= Len(ran[s]) /\ Len(ran[s]) <= Len(ran[r])
      BY NobodyPast
    <2> QED
      BY <2>1, <2>2
  <1>2. KindOf(r) = KindOf(s)
    BY <1>1 DEF KindOf
  <1>3. /\ r \in Live /\ s \in Live /\ KindOf(r) \in Kinds /\ Len(ran[r]) + 1 \in 1..MaxCalls
        /\ pc[r] = "gather" <=> EffCache(r)[KindOf(r).sel[r]] = NoChoice
        /\ pc[s] = "gather" <=> EffCache(s)[KindOf(s).sel[s]] = NoChoice
    BY ExchangeFacts
  <1>4. EffCache(r)[KindOf(r).sel[r]] = EffCache(s)[KindOf(r).sel[s]]
    BY <1>3 DEF SameState
  <1>5. pc[r] = pc[s]
    BY <1>2, <1>3, <1>4
  <1>6. ASSUME pc[r] = "reduce" PROVE cur[r] = cur[s]
    <2>1. /\ cur[r] = Ending(r, Len(ran[r]) + 1)
          /\ cur[s] = Ending(s, Len(ran[s]) + 1)
      BY <1>5, <1>6, ExchangeFacts
    <2> QED
      BY <1>1, <1>3, <2>1, Transfer
  <1> QED
    BY <1>1, <1>2, <1>5, <1>6

(* When an exchange completes no rank has anything ahead of another. *)
LEMMA NothingAhead ==
  ASSUME \A r, s \in Ranks : ~(Len(ran[r]) < Len(ran[s])), ran' = ran,
         \A r \in Ranks : Len(ran[r]) \in Nat
  PROVE  Ahead'
  <1> SUFFICES ASSUME NEW r \in Ranks, NEW s \in Ranks, NEW c \in 1..MaxCalls,
                      Len(ran'[r]) < c, c <= Len(ran'[s])
               PROVE  FALSE
    BY DEF Ahead, Live
  <1>1. Len(ran[r]) < Len(ran[s])
    OBVIOUS
  <1> QED
    BY <1>1

(* The AllGather is counted alike on all ranks: the keys are aligned, so   *)
(* what it changes for one kind on one rank it changes on every rank.      *)
LEMMA GatherTogether ==
  ASSUME KeysAligned, IInv, GatherCompletes
  PROVE  SameState' /\ Ahead' /\ Agreement' /\ Low' /\ LowestCommonConfig'
  <1>1. Sound /\ SameState /\ Ahead /\ Agreement /\ Low /\ LowestCommonConfig /\ TypeOK
    BY DEF IInv, Sound
  <1>2. PICK c \in Configs :
          /\ \A r \in Ranks : Level[c] <= Level[cur[r].cfg]
          /\ answer' = [r \in Ranks |-> c]
    BY DEF GatherCompletes
  <1>3. /\ \A r \in Ranks : pc[r] = "gather"
        /\ pc' = [r \in Ranks |-> "gathered"]
        /\ program' = program /\ only' = only /\ cur' = cur
        /\ paramCache' = paramCache /\ fallback' = fallback /\ resCtx' = resCtx
        /\ channels' = channels /\ available' = available /\ ran' = ran
    BY DEF GatherCompletes, cacheVars, resVars
  <1>4. PICK q \in Ranks : TRUE
    BY FallbackAssumption
  <1> DEFINE k0 == KindOf(q)
  <1>5. \A r \in Ranks : /\ r \in Live /\ KindOf(r) = k0 /\ Len(ran[r]) \in Nat
                         /\ EffCache(r) = paramCache[r] /\ EffFallback(r) = fallback[r]
                         /\ cur[r] = k0.sel[r]
    BY <1>1, <1>3, TogetherInExchange, ExchangeFacts
  <1>6. k0 \in Kinds
    BY <1>1, <1>3, ExchangeFacts
  <1> HIDE DEF k0
  <1>7. \A r \in Ranks : KindOf(r)' = k0 /\ Selection(r)' = k0.sel[r] /\ Lowered(r)' = k0.re[c]
    <2> SUFFICES ASSUME NEW r \in Ranks
                 PROVE  KindOf(r)' = k0 /\ Selection(r)' = k0.sel[r] /\ Lowered(r)' = k0.re[c]
      OBVIOUS
    <2>1. KindOf(r)' = k0
      BY <1>3, <1>5 DEF KindOf
    <2>2. answer'[r] = c
      BY <1>2
    <2> QED
      BY <2>1, <2>2 DEF Selection, Lowered
  <1>8. \A r \in Ranks : k0.sel[r] \in Choices
    BY <1>6, KindFacts, SelectableFacts
  <1>9. \A r \in Ranks : /\ EffCache(r)' = [paramCache[r] EXCEPT ![k0.sel[r]] = k0.re[c]]
                         /\ EffFallback(r)' = EffFallback(r)
                         /\ EffRes(r)' = EffRes(r)
    <2> SUFFICES ASSUME NEW r \in Ranks
                 PROVE  /\ EffCache(r)' = [paramCache[r] EXCEPT ![k0.sel[r]] = k0.re[c]]
                        /\ EffFallback(r)' = EffFallback(r)
                        /\ EffRes(r)' = EffRes(r)
      OBVIOUS
    <2>1. pc'[r] = "gathered" /\ pc[r] = "gather"
      BY <1>3
    <2>2. EffCache(r)' = [paramCache[r] EXCEPT ![k0.sel[r]] = k0.re[c]]
      BY <1>3, <1>7, <2>1 DEF EffCache
    <2>3. EffFallback(r)' = EffFallback(r) /\ EffRes(r)' = EffRes(r)
      BY <1>3, <2>1 DEF EffFallback, EffRes
    <2> QED
      BY <2>2, <2>3
  <1>10. ASSUME NEW r \in Ranks, NEW k \in Kinds
         PROVE  EffCache(r)'[k.sel[r]] =
                  IF k.sel[r] = k0.sel[r] THEN k0.re[c] ELSE EffCache(r)[k.sel[r]]
    <2>1. paramCache[r] \in [Choices -> Choices \cup {NoChoice}] /\ k.sel[r] \in Choices
      BY <1>1, <1>10, KindFacts, SelectableFacts DEF TypeOK
    <2> QED
      BY <1>5, <1>8, <1>9, <2>1
  <1>11. \A k \in Kinds : \A r, s \in Ranks : k.sel[r] = k0.sel[r] => k.sel[s] = k0.sel[s]
    BY <1>6 DEF KeysAligned
  <1>12. SameState'
    <2> SUFFICES ASSUME NEW x \in Ranks, NEW y \in Ranks
                 PROVE  /\ \A k \in Kinds : EffCache(x)'[k.sel[x]] = EffCache(y)'[k.sel[y]]
                        /\ EffFallback(x)' = EffFallback(y)'
                        /\ \A t \in Algs \X Types : EffFallback(x)'[t[1]] = NoChoice =>
                             (t \in EffRes(x)' <=> t \in EffRes(y)')
      BY DEF SameState, Live
    <2>1. /\ \A k \in Kinds : EffCache(x)[k.sel[x]] = EffCache(y)[k.sel[y]]
          /\ EffFallback(x) = EffFallback(y)
          /\ \A t \in Algs \X Types : EffFallback(x)[t[1]] = NoChoice =>
               (t \in EffRes(x) <=> t \in EffRes(y))
      BY <1>1, <1>5 DEF SameState
    <2>2. ASSUME NEW k \in Kinds PROVE EffCache(x)'[k.sel[x]] = EffCache(y)'[k.sel[y]]
      BY <1>10, <1>11, <2>1
    <2>3. EffFallback(x)' = EffFallback(x) /\ EffFallback(y)' = EffFallback(y)
          /\ EffRes(x)' = EffRes(x) /\ EffRes(y)' = EffRes(y)
      BY <1>9
    <2> QED
      BY <2>1, <2>2, <2>3
  <1>13. Ahead'
    <2>1. \A r, s \in Ranks : ~(Len(ran[r]) < Len(ran[s]))
      BY <1>1, <1>3, <1>5, TogetherInExchange
    <2> QED
      BY <1>3, <1>5, <2>1, NothingAhead
  <1>14. Agreement' /\ LowestCommonConfig'
    BY <1>1, <1>3 DEF Agreement, LowestCommonConfig, Level
  <1>15. Low'
    <2> SUFFICES ASSUME NEW x \in Ranks, NEW k \in Kinds, EffCache(x)'[k.sel[x]] # NoChoice,
                        NEW s \in Ranks
                 PROVE  Level[EffCache(x)'[k.sel[x]].cfg] <= Level[k.sel[s].cfg]
      BY DEF Low, Level, Live
    <2>1. CASE k.sel[x] = k0.sel[x]
      <3>1. EffCache(x)'[k.sel[x]] = k0.re[c] /\ k.sel[s] = cur[s]
        BY <1>5, <1>10, <1>11, <2>1
      <3>2. /\ k0.re[c] \in Selectable /\ Level[k0.re[c].cfg] <= Level[c]
            /\ k.sel[s] \in Selectable
        BY <1>6, KindFacts
      <3>3. Level[c] <= Level[k.sel[s].cfg]
        BY <1>2, <3>1
      <3>4. /\ Level[c] \in {1, 2, 3} /\ Level[k0.re[c].cfg] \in {1, 2, 3}
            /\ Level[k.sel[s].cfg] \in {1, 2, 3}
        BY <3>2, SelectableFacts, LevelFacts
      <3> QED
        BY <3>1, <3>2, <3>3, <3>4
    <2>2. CASE k.sel[x] # k0.sel[x]
      <3>1. EffCache(x)'[k.sel[x]] = EffCache(x)[k.sel[x]]
        BY <1>10, <2>2
      <3> QED
        BY <1>1, <1>5, <3>1 DEF Low
    <2> QED
      BY <2>1, <2>2
  <1> QED
    BY <1>12, <1>13, <1>14, <1>15

(* After the AllReduce all ranks have the context of the algorithm, or on  *)
(* all of them the recorded step leads past it.                            *)
LEMMA ReduceTogether ==
  ASSUME IInv, ReduceCompletes
  PROVE  SameState' /\ Ahead' /\ Agreement' /\ Low' /\ LowestCommonConfig'
  <1>1. Sound /\ SameState /\ Ahead /\ Agreement /\ Low /\ LowestCommonConfig /\ TypeOK
    BY DEF IInv, Sound
  <1>2. /\ \A r \in Ranks : pc[r] = "reduce"
        /\ pc' = [r \in Ranks |-> "reduced"]
        /\ program' = program /\ only' = only /\ cur' = cur
        /\ paramCache' = paramCache /\ fallback' = fallback /\ resCtx' = resCtx
        /\ channels' = channels /\ available' = available /\ ran' = ran
    BY DEF ReduceCompletes, cacheVars, resVars
  <1>3. PICK q \in Ranks : TRUE
    BY FallbackAssumption
  <1> DEFINE k0 == KindOf(q)
             a0 == cur[q]
             t0 == <<a0.alg, k0.type>>
             n0 == k0.re[NextConfig(a0.cfg)]
  <1>4. \A r \in Ranks : /\ r \in Live /\ KindOf(r) = k0 /\ Len(ran[r]) \in Nat /\ cur[r] = a0
                         /\ EffCache(r) = paramCache[r] /\ EffFallback(r) = fallback[r]
    BY <1>1, <1>2, TogetherInExchange, ExchangeFacts
  <1>5. \A r \in Ranks : ExchangeSound(r)'
    BY <1>1, ReduceSound DEF Sound
  <1>6. Sound'
    BY <1>1, ReduceSound
  <1> HIDE DEF k0, a0, n0
  <1>7. \A r \in Ranks : KindOf(r)' = k0 /\ Below(r)' = n0 /\ Tag(r, cur[r])' = t0
                         /\ Tag(r, cur[r]) = t0
    <2> SUFFICES ASSUME NEW r \in Ranks
                 PROVE  /\ KindOf(r)' = k0 /\ Below(r)' = n0 /\ Tag(r, cur[r])' = t0
                        /\ Tag(r, cur[r]) = t0
      OBVIOUS
    <2>1. KindOf(r)' = KindOf(r) /\ KindOf(r) = k0 /\ cur[r] = a0 /\ cur'[r] = a0
      BY <1>2, <1>4 DEF KindOf
    <2> QED
      BY <2>1 DEF Below, Tag, n0, NextConfig
  <1>8. \A r \in Ranks : pc[r] = "reduce" /\ pc'[r] = "reduced"
    BY <1>2
  <1>9. \A r \in Ranks : EffCache(r)' = EffCache(r)
    BY <1>2, <1>4, <1>8 DEF EffCache
  <1>10. \A r \in Ranks : EffRes(r) = resCtx[r] \ {t0} /\ EffRes(r)' = resCtx[r]
    BY <1>2, <1>7, <1>8 DEF EffRes
  <1>11. a0 \in Selectable /\ a0.alg \in Algs
    BY <1>1, <1>2, <1>3, ExchangeFacts, SelectableFacts DEF a0
  <1>12. SameState'
    <2> SUFFICES ASSUME NEW x \in Ranks, NEW y \in Ranks
                 PROVE  /\ \A k \in Kinds : EffCache(x)'[k.sel[x]] = EffCache(y)'[k.sel[y]]
                        /\ EffFallback(x)' = EffFallback(y)'
                        /\ \A t \in Algs \X Types : EffFallback(x)'[t[1]] = NoChoice =>
                             (t \in EffRes(x)' <=> t \in EffRes(y)')
      BY DEF SameState, Live
    <2>1. /\ \A k \in Kinds : EffCache(x)[k.sel[x]] = EffCache(y)[k.sel[y]]
          /\ fallback[x] = fallback[y]
          /\ \A t \in Algs \X Types : fallback[x][t[1]] = NoChoice =>
               (t \in EffRes(x) <=> t \in EffRes(y))
      BY <1>1, <1>4 DEF SameState
    <2>2. \A k \in Kinds : EffCache(x)'[k.sel[x]] = EffCache(y)'[k.sel[y]]
      BY <1>9, <2>1
    <2>3. CASE \A s \in Ranks : available[s]
      <3>1. answer'[x] = "SUCCESS" /\ answer'[y] = "SUCCESS"
        BY <2>3 DEF ReduceCompletes
      <3>2. EffFallback(x)' = fallback[x] /\ EffFallback(y)' = fallback[y]
        BY <1>2, <3>1 DEF EffFallback
      <3>3. t0 \in resCtx[x] /\ t0 \in resCtx[y]
        BY <1>1, <1>2, <1>7, <2>3 DEF Sound, ExchangeSound
      <3>4. ASSUME NEW t \in Algs \X Types, fallback[x][t[1]] = NoChoice
            PROVE  t \in resCtx[x] <=> t \in resCtx[y]
        BY <1>10, <2>1, <3>3, <3>4
      <3> QED
        BY <1>10, <2>1, <2>2, <3>2, <3>4
    <2>4. CASE ~ \A s \in Ranks : available[s]
      <3>1. answer'[x] = "FAIL" /\ answer'[y] = "FAIL"
        BY <2>4 DEF ReduceCompletes
      <3>2. EffFallback(x)' = [fallback[x] EXCEPT ![a0.alg] = n0]
            /\ EffFallback(y)' = [fallback[y] EXCEPT ![a0.alg] = n0]
        BY <1>2, <1>4, <1>7, <1>8, <3>1 DEF EffFallback
      <3>3. n0 # NoChoice
        <4>1. k0 \in Kinds /\ OnCcu(a0)
          BY <1>1, <1>2, <1>3, ExchangeFacts DEF k0, a0, Sound, ExchangeSound
        <4>2. NextConfig(a0.cfg) \in Configs
          BY <1>11, <4>1, SelectableFacts, LevelFacts DEF OnCcu
        <4> QED
          BY <4>1, <4>2, KindFacts, SelectableFacts DEF n0
      <3>4. fallback[x] \in [Algs -> Choices \cup {NoChoice}]
            /\ fallback[y] \in [Algs -> Choices \cup {NoChoice}]
        BY <1>1 DEF TypeOK
      <3>5. ASSUME NEW t \in Algs \X Types, EffFallback(x)'[t[1]] = NoChoice
            PROVE  t \in EffRes(x)' <=> t \in EffRes(y)'
        <4>1. t[1] # a0.alg /\ fallback[x][t[1]] = NoChoice
          BY <1>11, <3>2, <3>3, <3>4, <3>5
        <4>2. t # t0
          BY <4>1
        <4>3. t \in EffRes(x) <=> t \in EffRes(y)
          BY <2>1, <4>1
        <4> QED
          BY <1>10, <4>2, <4>3
      <3> QED
        BY <2>1, <2>2, <3>2, <3>5
    <2> QED
      BY <2>3, <2>4
  <1>13. Ahead'
    <2>1. \A r, s \in Ranks : ~(Len(ran[r]) < Len(ran[s]))
      BY <1>1, <1>2, <1>4, TogetherInExchange
    <2> QED
      BY <1>2, <1>4, <2>1, NothingAhead
  <1>14. Agreement' /\ LowestCommonConfig'
    BY <1>1, <1>2 DEF Agreement, LowestCommonConfig, Level
  <1>15. Low'
    <2> SUFFICES ASSUME NEW x \in Ranks, NEW k \in Kinds, EffCache(x)'[k.sel[x]] # NoChoice,
                        NEW s \in Ranks
                 PROVE  Level[EffCache(x)'[k.sel[x]].cfg] <= Level[k.sel[s].cfg]
      BY DEF Low, Level, Live
    <2> QED
      BY <1>1, <1>4, <1>9 DEF Low
  <1> QED
    BY <1>12, <1>13, <1>14, <1>15

-----------------------------------------------------------------------------
(* The inductive invariant *)

LEMMA InitInv == Init => IInv
  <1> SUFFICES ASSUME Init PROVE IInv
    OBVIOUS
  <1>1. Sound /\ TypeOK
    BY InitSound DEF Sound
  <1>2. \A r \in Ranks : /\ pc[r] = "idle" /\ ran[r] = <<>>
                         /\ paramCache[r] = [a \in Choices |-> NoChoice]
                         /\ fallback[r] = [a \in Algs |-> NoChoice] /\ resCtx[r] = {}
    BY DEF Init
  <1>3. \A r \in Ranks : /\ EffCache(r) = [a \in Choices |-> NoChoice]
                         /\ EffFallback(r) = [a \in Algs |-> NoChoice] /\ EffRes(r) = {}
    BY <1>2 DEF EffCache, EffFallback, EffRes
  <1>4. \A k \in Kinds : \A r \in Ranks : k.sel[r] \in Choices
    BY KindFacts, SelectableFacts
  <1>5. SameState /\ Low
    <2>1. \A k \in Kinds : \A r \in Ranks : EffCache(r)[k.sel[r]] = NoChoice
      BY <1>3, <1>4
    <2>2. \A r, s \in Ranks : EffFallback(r) = EffFallback(s) /\ EffRes(r) = EffRes(s)
      BY <1>3
    <2>3. SameState
      BY <2>1, <2>2 DEF SameState, Live
    <2>4. Low
      BY <2>1 DEF Low, Live
    <2> QED
      BY <2>3, <2>4
  <1>6. \A r \in Ranks : Len(ran[r]) = 0 /\ DOMAIN ran[r] = {}
    <2> SUFFICES ASSUME NEW r \in Ranks PROVE Len(ran[r]) = 0 /\ DOMAIN ran[r] = {}
      OBVIOUS
    <2>1. ran[r] = <<>>
      BY <1>2
    <2>2. Len(<<>>) = 0 /\ DOMAIN <<>> = {}
      OBVIOUS
    <2> QED
      BY <2>1, <2>2
  <1>7. Ahead
    BY <1>6 DEF Ahead
  <1>8. Agreement /\ LowestCommonConfig
    BY <1>6 DEF Agreement, LowestCommonConfig
  <1> QED
    BY <1>1, <1>5, <1>7, <1>8 DEF IInv

LEMMA StepInv ==
  ASSUME KeysAligned
  PROVE  IInv /\ [Next]_vars => IInv'
  <1> SUFFICES ASSUME IInv, [Next]_vars PROVE IInv'
    OBVIOUS
  <1>1. Sound /\ SameState /\ Ahead /\ Agreement /\ Low /\ LowestCommonConfig
    BY DEF IInv
  <1>2. Sound'
    BY <1>1, StepSound
  <1>3. CASE GatherCompletes
    BY <1>2, <1>3, GatherTogether DEF IInv
  <1>4. CASE ReduceCompletes
    BY <1>2, <1>4, ReduceTogether DEF IInv
  <1>5. ASSUME NEW r \in Ranks, RankSteps(r) \/ Fails(r) PROVE IInv'
    <2>1. Good(r)
      BY <1>1, <1>5, GoodSteps
    <2>2. SameState' /\ Ahead' /\ Agreement' /\ Low' /\ LowestCommonConfig'
      BY <1>1, <2>1, GoodSameState, GoodAhead, GoodAgreement, GoodLow
    <2> QED
      BY <1>2, <2>2 DEF IInv
  <1>6. CASE UNCHANGED vars
    <2>1. \A r \in Ranks : /\ EffCache(r)' = EffCache(r) /\ EffFallback(r)' = EffFallback(r)
                           /\ EffRes(r)' = EffRes(r)
      BY <1>6 DEF vars, EffCache, EffFallback, EffRes, Selection, Lowered, Below, KindOf, Tag,
                  NextConfig
    <2>2. Live' = Live /\ ran' = ran /\ program' = program
      BY <1>6 DEF vars, Live
    <2>3. \A r \in Ranks : \A c \in 1..MaxCalls :
            Ending(r, c)' = Ending(r, c) /\ Straight(r, c)' = Straight(r, c)
      <3> SUFFICES ASSUME NEW r \in Ranks, NEW c \in 1..MaxCalls
                   PROVE  Ending(r, c)' = Ending(r, c) /\ Straight(r, c)' = Straight(r, c)
        OBVIOUS
      <3>1. Ending(r, c)' = Ending(r, c) /\ CallKey(r, c)' = CallKey(r, c)
        BY <2>1, <2>2 DEF Ending, CallKey, Resolve, Redirect, OnCcu
      <3>2. Straight(r, c)' = Straight(r, c)
        BY <2>1, <2>2, <3>1 DEF Straight, OnCcu
      <3> QED
        BY <3>1, <3>2
    <2>4. SameState'
      BY <1>1, <2>1, <2>2 DEF SameState, Live
    <2>5. Ahead'
      BY <1>1, <2>2, <2>3 DEF Ahead, Live
    <2>6. Agreement' /\ LowestCommonConfig'
      BY <1>1, <2>2 DEF Agreement, LowestCommonConfig, Level
    <2>7. Low'
      BY <1>1, <2>1, <2>2 DEF Low, Level, Live
    <2> QED
      BY <1>2, <2>4, <2>5, <2>6, <2>7 DEF IInv
  <1> QED
    BY <1>3, <1>4, <1>5, <1>6 DEF Next

LEMMA AlwaysInv ==
  ASSUME KeysAligned
  PROVE  Spec => []IInv
  BY InitInv, StepInv, PTL DEF Spec

-----------------------------------------------------------------------------
(* Theorems *)

(* When two kinds of call that share a cache key on one rank share it on   *)
(* all, no two ranks run different algorithms in the same call.            *)
THEOREM RanksAgree ==
  ASSUME KeysAligned
  PROVE  Spec => []Agreement
  <1>1. IInv => Agreement
    BY DEF IInv
  <1> QED
    BY <1>1, AlwaysInv, PTL

(* Under the same condition the sub-communicator never has one rank in an  *)
(* AllGather and another in an AllReduce, nor two ranks in exchanges about *)
(* different calls or algorithms.                                          *)
THEOREM ExchangesMatch ==
  ASSUME KeysAligned
  PROVE  Spec => []SameExchange
  <1>1. IInv => SameExchange
    BY TogetherInExchange DEF IInv, SameExchange
  <1> QED
    BY <1>1, AlwaysInv, PTL

(* Under the same condition no rank gets past a call another one is still  *)
(* exchanging its config for: nobody waits for a rank that has skipped it. *)
THEOREM NobodySkips ==
  ASSUME KeysAligned
  PROVE  Spec => []EveryoneExchanges
  <1>1. IInv => EveryoneExchanges
    BY NobodyPast DEF IInv, EveryoneExchanges
  <1> QED
    BY <1>1, AlwaysInv, PTL

(* Under the same condition nobody runs a config above any rank's own      *)
(* selection, however the outcome was arrived at.                          *)
THEOREM LowestConfigRuns ==
  ASSUME KeysAligned
  PROVE  Spec => []LowestCommonConfig
  <1>1. IInv => LowestCommonConfig
    BY DEF IInv
  <1> QED
    BY <1>1, AlwaysInv, PTL

-----------------------------------------------------------------------------
(* What a rank never does, whatever its keys *)

(* Contexts without channels come from failed negotiations only, and the   *)
(* fallback context is written before the call goes on.                    *)
LEMMA StepShadowed ==
  Sound /\ StaleContextsShadowed /\ [Next]_vars => StaleContextsShadowed'
  <1> SUFFICES ASSUME Sound, StaleContextsShadowed, [Next]_vars,
                      NEW r \in Ranks, NEW t \in resCtx'[r] \ channels'[r],
                      pc'[r] # "failed"
               PROVE  fallback'[r][t[1]] # NoChoice
    BY DEF StaleContextsShadowed
  <1>1. TypeOK /\ \A s \in Ranks : CachesSound(s) /\ ExchangeSound(s)
    BY DEF Sound
  <1>2. t \in resCtx[r] \ channels[r] => pc[r] = "failed" \/ fallback[r][t[1]] # NoChoice
    BY DEF StaleContextsShadowed
  <1>3. CASE GatherCompletes \/ ReduceCompletes \/ UNCHANGED vars
    <2>1. resCtx' = resCtx /\ channels' = channels /\ fallback' = fallback
          /\ (pc[r] = "failed" => pc'[r] = "failed")
      BY <1>3 DEF GatherCompletes, ReduceCompletes, cacheVars, resVars, vars
    <2> QED
      BY <1>2, <2>1
  <1>4. ASSUME NEW s \in Ranks, s # r, RankSteps(s) \/ Fails(s)
        PROVE  fallback'[r][t[1]] # NoChoice
    <2>1. Kept(r)
      BY <1>4, <1>1, GoodSteps DEF Good
    <2>2. channels'[r] = channels[r]
      BY <1>1, <1>4 DEF RankSteps, Fails, CallWithCache, CallWithGather, AfterGather, RunNegotiated,
                   FallBack, OnlyFails, Executes, Runs, Allocates, resVars, TypeOK
    <2> QED
      BY <1>2, <2>1, <2>2 DEF Kept
  (* Executes adds the new context to both, or neither. *)
  <1>5. ASSUME NEW a, NEW has, Executes(r, a, has)
        PROVE  t \in resCtx[r] \ has
    BY <1>1, <1>5 DEF Executes, Runs, Allocates, TypeOK
  <1>6. CASE CallWithCache(r) \/ AfterGather(r) \/ RunNegotiated(r)
    <2>1. fallback' = fallback /\ pc[r] # "failed"
      BY <1>6 DEF CallWithCache, CanCall, AfterGather, RunNegotiated, cacheVars
    <2>2. CASE CallWithCache(r) \/ AfterGather(r)
      <3>1. \E a : Executes(r, a, channels[r])
        BY <2>2 DEF CallWithCache, AfterGather
      <3> QED
        BY <1>2, <1>5, <2>1, <3>1
    <2>3. CASE RunNegotiated(r)
      <3>1. resCtx'[r] = resCtx[r] /\ channels'[r] = channels[r]
        BY <1>1, <2>3 DEF RunNegotiated, Runs, TypeOK
      <3> QED
        BY <1>2, <2>1, <3>1
    <2> QED
      BY <1>6, <2>2, <2>3
  <1>7. CASE CallWithGather(r)
    <2>1. resCtx' = resCtx /\ channels' = channels /\ fallback' = fallback /\ pc[r] # "failed"
      BY <1>7 DEF CallWithGather, CanCall, cacheVars, resVars
    <2> QED
      BY <1>2, <2>1
  <1>8. CASE FallBack(r)
    <2>1. /\ pc[r] = "reduced" /\ answer[r] = "FAIL"
          /\ fallback' = [fallback EXCEPT ![r] = [fallback[r] EXCEPT ![cur[r].alg] = Below(r)]]
          /\ \E a : Executes(r, a, channels[r] \ {Tag(r, cur[r])})
      BY <1>8 DEF FallBack, Below
    <2>2. Below(r) # NoChoice /\ cur[r].alg \in Algs
      BY <2>1, FallBackFacts, SelectableFacts
    <2>3. /\ fallback'[r][cur[r].alg] = Below(r)
          /\ \A x \in Algs : x # cur[r].alg => fallback'[r][x] = fallback[r][x]
      BY <1>1, <2>1, <2>2 DEF TypeOK
    <2>4. t \in resCtx[r] \ (channels[r] \ {Tag(r, cur[r])})
      BY <1>5, <2>1
    <2>5. t[1] \in Algs
      BY <1>1, <2>4 DEF TypeOK
    <2>6. CASE t = Tag(r, cur[r])
      BY <2>2, <2>3, <2>6 DEF Tag
    <2>7. CASE t # Tag(r, cur[r])
      BY <1>2, <2>1, <2>2, <2>3, <2>4, <2>5, <2>7
    <2> QED
      BY <2>6, <2>7
  <1>9. CASE OnlyFails(r) \/ Fails(r)
    <2>1. pc'[r] = "failed"
      BY <1>1, <1>9 DEF OnlyFails, Fails, TypeOK
    <2> QED
      BY <2>1
  <1> QED
    BY <1>3, <1>4, <1>6, <1>7, <1>8, <1>9 DEF Next, RankSteps

(* A context whose channels were destroyed after a failed negotiation is   *)
(* never reused: the fallback of its algorithm leads past it.              *)
THEOREM StaleShadowed == Spec => []StaleContextsShadowed
  <1>1. Init => StaleContextsShadowed
    BY DEF Init, StaleContextsShadowed
  <1> QED
    BY <1>1, StepShadowed, AlwaysSound, PTL DEF Spec

(* A rank configured ONLY has never fallen back: it has no fallback        *)
(* contexts, and what it cached keeps the config it selected.              *)
OnlySound ==
  \A r \in only :
    /\ \A x \in Algs : fallback[r][x] = NoChoice
    /\ \A a \in Choices : paramCache[r][a] # NoChoice => paramCache[r][a].cfg = a.cfg

(* A rank is done with its call when it has run something. *)
LEMMA RunsIdle ==
  ASSUME TypeOK, NEW r \in Ranks, RankSteps(r) \/ Fails(r), ran'[r] # ran[r]
  PROVE  pc'[r] = "idle"
  <1>1. ASSUME NEW a, NEW has, Executes(r, a, has) PROVE pc'[r] = "idle"
    BY <1>1 DEF Executes, Runs, Allocates, TypeOK
  <1>2. CASE CallWithCache(r) \/ AfterGather(r) \/ FallBack(r)
    BY <1>1, <1>2 DEF CallWithCache, AfterGather, FallBack
  <1>3. CASE RunNegotiated(r)
    BY <1>3 DEF RunNegotiated, Runs, TypeOK
  <1>4. CASE CallWithGather(r) \/ OnlyFails(r) \/ Fails(r)
    BY <1>4 DEF CallWithGather, OnlyFails, Fails
  <1> QED
    BY <1>2, <1>3, <1>4 DEF RankSteps

LEMMA StepOnly ==
  Sound /\ OnlySound /\ OnlyMeansOnly /\ [Next]_vars => OnlySound' /\ OnlyMeansOnly'
  <1> SUFFICES ASSUME Sound, OnlySound, OnlyMeansOnly, [Next]_vars
               PROVE  OnlySound' /\ OnlyMeansOnly'
    OBVIOUS
  <1>1. TypeOK /\ \A s \in Ranks : CachesSound(s) /\ ExchangeSound(s)
    BY DEF Sound
  <1>2. only' = only /\ program' = program /\ only \subseteq Ranks
    BY <1>1 DEF Next, RankSteps, GatherCompletes, ReduceCompletes, CallWithCache, CallWithGather,
           AfterGather, RunNegotiated, FallBack, OnlyFails, Fails, vars, TypeOK
  <1>3. OnlySound'
    <2> SUFFICES ASSUME NEW r \in only
                 PROVE  /\ \A x \in Algs : fallback'[r][x] = NoChoice
                        /\ \A a \in Choices : paramCache'[r][a] # NoChoice =>
                             paramCache'[r][a].cfg = a.cfg
      BY <1>2 DEF OnlySound
    <2>1. r \in Ranks
      BY <1>2
    <2>2. CASE paramCache'[r] = paramCache[r] /\ fallback'[r] = fallback[r]
      BY <2>2 DEF OnlySound
    <2>3. ASSUME NEW s \in Ranks, FallBack(s)
          PROVE  paramCache'[r] = paramCache[r] /\ fallback'[r] = fallback[r]
      BY <1>1, <2>1, <2>3 DEF FallBack, TypeOK
    <2>4. ASSUME NEW s \in Ranks, s # r, AfterGather(s)
          PROVE  paramCache'[r] = paramCache[r] /\ fallback'[r] = fallback[r]
      BY <1>1, <2>1, <2>4 DEF AfterGather, TypeOK
    <2>5. CASE AfterGather(r)
      <3>1. /\ pc[r] = "gathered" /\ answer[r] = cur[r].cfg
            /\ paramCache' = [paramCache EXCEPT ![r][Selection(r)] = cur[r]]
            /\ fallback' = fallback
        BY <2>5 DEF AfterGather
      <3>2. Len(ran[r]) < MaxCalls /\ cur[r] = Selection(r)
        BY <1>1, <2>1, <3>1 DEF ExchangeSound
      <3>3. Selection(r) \in Choices
        BY <1>1, <2>1, <3>2, CallFacts, SelectableFacts
      <3>4. /\ paramCache'[r][Selection(r)] = Selection(r)
            /\ \A a \in Choices : a # Selection(r) => paramCache'[r][a] = paramCache[r][a]
        BY <1>1, <2>1, <3>1, <3>2, <3>3 DEF TypeOK
      <3> QED
        BY <3>1, <3>4 DEF OnlySound
    <2>6. CASE UNCHANGED <<paramCache, fallback>>
      BY <2>2, <2>6
    <2>7. \/ UNCHANGED <<paramCache, fallback>>
          \/ \E s \in Ranks : FallBack(s) \/ AfterGather(s)
      BY DEF Next, RankSteps, GatherCompletes, ReduceCompletes, CallWithCache, CallWithGather,
             RunNegotiated, OnlyFails, Fails, vars, cacheVars
    <2> QED
      BY <2>2, <2>3, <2>4, <2>5, <2>6, <2>7
  <1>4. OnlyMeansOnly'
    <2> SUFFICES ASSUME NEW r \in only, NEW c \in DOMAIN ran'[r]
                 PROVE  ran'[r][c].cfg = program[c].sel[r].cfg
      BY <1>2 DEF OnlyMeansOnly
    <2>1. r \in Ranks
      BY <1>2
    <2>2. CASE ran'[r] = ran[r]
      BY <2>2 DEF OnlyMeansOnly
    <2>3. CASE ran'[r] # ran[r]
      <3>1. \E s \in Ranks : RankSteps(s) \/ Fails(s)
        BY <2>3 DEF Next, GatherCompletes, ReduceCompletes, vars
      <3>2. RankSteps(r) \/ Fails(r)
        BY <2>1, <2>3, <3>1, GoodSteps DEF Good, Kept
      <3>3. Good(r)
        BY <2>1, <3>2, GoodSteps
      <3> DEFINE d == Len(ran[r]) + 1
      <3>4. /\ Straight(r, d) /\ d \in 1..MaxCalls /\ Len(ran'[r]) = d
            /\ ran'[r][d] = Ending(r, d)
            /\ \A i \in 1..Len(ran[r]) : ran'[r][i] = ran[r][i]
        BY <2>1, <2>3, <3>3, GoodRan
      <3>5. /\ DOMAIN ran[r] = 1..Len(ran[r]) /\ DOMAIN ran'[r] = 1..Len(ran'[r])
            /\ Len(ran[r]) \in Nat
        BY <1>1, <2>1, <3>3 DEF TypeOK, Good
      <3>6. CASE c # d
        <4>1. c \in 1..Len(ran[r])
          BY <3>4, <3>5, <3>6
        <4> QED
          BY <3>4, <3>5, <4>1 DEF OnlyMeansOnly
      <3>7. CASE c = d
        (* What ran is what the new caches say, and they are sound. *)
        <4>1. /\ EffCache(r)' = EffCache(r) /\ EffFallback(r)' = EffFallback(r)
          BY <2>3, <3>3 DEF Good, Quiet
        <4>2. pc'[r] = "idle"
          BY <1>1, <2>1, <2>3, <3>2, RunsIdle
        <4>3. EffCache(r)' = paramCache'[r] /\ EffFallback(r)' = fallback'[r]
          BY <4>2 DEF EffCache, EffFallback
        <4>4. program[d] \in Kinds /\ CallKey(r, d) \in Choices /\ CallKey(r, d) = program[d].sel[r]
          BY <1>1, <2>1, <3>4, KindFacts, SelectableFacts DEF TypeOK, CallKey
        <4> DEFINE a == paramCache'[r][CallKey(r, d)]
        <4>5. a # NoChoice /\ Ending(r, d) = Resolve(fallback'[r], a)
          BY <3>4, <4>1, <4>3 DEF Straight, Ending
        <4>6. a \in Selectable /\ a \in Choices
          BY <2>1, <4>1, <4>3, <4>4, <4>5, EffSound, SelectableFacts DEF SoundCache
        <4>7. a.cfg = program[d].sel[r].cfg
          BY <1>2, <1>3, <4>4, <4>5 DEF OnlySound
        <4> HIDE DEF a
        <4>8. fallback'[r][a.alg] = NoChoice
          BY <1>2, <1>3, <4>6, SelectableFacts DEF OnlySound
        <4>9. Resolve(fallback'[r], a) = a
          BY <4>8 DEF Resolve, Redirect
        <4> QED
          BY <3>4, <3>7, <4>5, <4>7, <4>9
      <3> QED
        BY <3>6, <3>7
    <2> QED
      BY <2>2, <2>3
  <1> QED
    BY <1>3, <1>4

(* A rank configured ONLY never runs on another config than it selected,   *)
(* whatever the other ranks selected or lacked.                            *)
THEOREM OnlyKept == Spec => []OnlyMeansOnly
  <1>1. Init => OnlySound /\ OnlyMeansOnly
    <2> SUFFICES ASSUME Init PROVE OnlySound /\ OnlyMeansOnly
      OBVIOUS
    <2>1. only \subseteq Ranks
      BY FallbackAssumption DEF Init
    <2>2. OnlySound
      BY <2>1 DEF Init, OnlySound
    <2>3. \A r \in Ranks : ran[r] = <<>>
      BY DEF Init
    <2>4. OnlyMeansOnly
      BY <2>1, <2>3 DEF OnlyMeansOnly
    <2> QED
      BY <2>2, <2>4
  <1> QED
    BY <1>1, StepOnly, AlwaysSound, PTL DEF Spec
=============================================================================
