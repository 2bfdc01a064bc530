------------------------ MODULE ConsensusOrderProofs ------------------------
(***************************************************************************)
(* Why every participant lands on the same winner although each adds the   *)
(* scores up in its own order: as long as no sum is rounded, the total a   *)
(* node accumulates is the sum over all participants whatever the order,   *)
(* and the winner for given totals is unique.                              *)
(***************************************************************************)
EXTENDS ConsensusOrder, FiniteSetLemmas

\* The tokens somebody committed at Pos.
Proposed == {picks[m] : m \in Nodes}

TypeOK ==
  /\ p \in [Nodes -> [Tokens -> Levels]]
  /\ picks \in [Nodes -> Tokens]
  /\ winners \in [Nodes -> SUBSET Tokens]

\* t is a proposed token that every other proposed token loses to.
IsBest(t) ==
  /\ t \in Proposed
  /\ \A u \in Proposed \ {t} :
       JointTotal(t) > JointTotal(u) \/ (JointTotal(t) = JointTotal(u) /\ t < u)

\* Whoever resolved adopted one token, a best one: inductive, and enough.
IInv ==
  /\ TypeOK
  /\ \A n \in Nodes : winners[n] # {} => \E t \in Tokens : winners[n] = {t} /\ IsBest(t)

-----------------------------------------------------------------------------

\* One step of the recursion behind FoldLeft, as TotalInOrder uses it.
AddLast(order, tok, g, T) ==
  IF T = {} THEN 0 ELSE accumulate(g[T \ {Max(T)}], all_scores[order[Max(T)]][Pos][tok])

LEMMA TotalUnfold ==
  ASSUME NEW order, NEW tok
  PROVE  TotalInOrder(order, tok) =
           (CHOOSE g : g = [T \in SUBSET DOMAIN order |-> AddLast(order, tok, g, T)])[DOMAIN order]
  BY DEF TotalInOrder, FoldLeft, MapThenFoldSet, AddLast

\* An order of arrival enumerates the participants, each once.
LEMMA OrderEnumerates ==
  ASSUME NEW n \in Nodes, NEW order \in score_orders(n)
  PROVE  order \in Bijection(1 .. Cardinality(Nodes), Nodes)
<1>. DEFINE N == Cardinality(Nodes)
<1>1. N \in Nat /\ N # 0
  BY OrderConstants, FS_CardinalityType, FS_EmptySet
<1>2. PICK s \in [1 .. N - 1 -> Nodes \ {n}] : order = <<n>> \o s /\ IsInjective(s)
  BY DEF score_orders
<1>. HIDE DEF N
<1>3. s \in Seq(Nodes) /\ Len(s) = N - 1
  BY <1>1
<1>4. order \in Seq(Nodes) /\ Len(order) = N
  BY <1>1, <1>2, <1>3
<1>5. order \in [1 .. N -> Nodes]
  BY <1>4
<1>6. \A i \in 1 .. N : order[i] = IF i = 1 THEN n ELSE s[i - 1]
  BY <1>1, <1>2, <1>3
<1>7. order \in Injection(1 .. N, Nodes)
  <2>1. ASSUME NEW i \in 1 .. N, NEW j \in 1 .. N, order[i] = order[j] PROVE i = j
    <3>1. \A k \in 1 .. N : k # 1 => k - 1 \in 1 .. N - 1 /\ s[k - 1] # n
      BY <1>1
    <3>2. CASE i = 1 \/ j = 1
      BY <1>6, <2>1, <3>1, <3>2
    <3>3. CASE i # 1 /\ j # 1
      <4>1. s[i - 1] = s[j - 1] /\ i - 1 \in DOMAIN s /\ j - 1 \in DOMAIN s
        BY <1>6, <2>1, <3>1, <3>3
      <4>2. i - 1 = j - 1
        BY <1>2, <4>1 DEF IsInjective
      <4>. QED  BY <4>2
    <3>. QED  BY <3>2, <3>3
  <2>. QED  BY <1>5, <2>1 DEF Injection, IsInjective
<1>8. IsFiniteSet(1 .. N) /\ Cardinality(1 .. N) = N
  BY <1>1, FS_Interval
<1>9. order \in Surjection(1 .. N, Nodes)
  BY <1>7, <1>8, OrderConstants, FS_Injection DEF N
<1>. QED  BY <1>7, <1>9 DEF Bijection, N

\* What everyone proposes and scores at Pos.
LEMMA ProposedFacts ==
  ASSUME TypeOK
  PROVE  /\ ProposedPositions(all_commits) = {Pos}
         /\ Proposals(all_commits, Pos) = Proposed
         /\ Proposed \in SUBSET Nat /\ Proposed # {} /\ IsFiniteSet(Proposed)
<1>1. ProposedPositions(all_commits) = {Pos}
  BY OrderConstants DEF ProposedPositions, all_commits
<1>2. Proposals(all_commits, Pos) = Proposed
  BY DEF Proposals, Proposers, all_commits, Proposed
<1>3. Proposed \in SUBSET Nat /\ Proposed # {}
  <2>1. \A t \in Proposed : t \in Nat
    BY OrderConstants DEF Proposed, TypeOK
  <2>2. Proposed # {}
    BY OrderConstants DEF Proposed
  <2>. QED  BY <2>1, <2>2
<1>4. picks \in Surjection(Nodes, Proposed)
  BY DEF Surjection, Proposed, TypeOK
<1>5. IsFiniteSet(Proposed)
  BY <1>4, OrderConstants, FS_Surjection
<1>. QED  BY <1>1, <1>2, <1>3, <1>5

LEMMA ScoredFacts ==
  ASSUME TypeOK, Pos \in DOMAIN detect_disputes(all_commits)
  PROVE  /\ Candidates(all_scores, Pos) = Proposed
         /\ \A m \in Nodes : \A t \in Proposed : all_scores[m][Pos][t] = p[m][t]
<1>1. detect_disputes(all_commits)[Pos] = Proposed
  BY ProposedFacts DEF detect_disputes
<1>2. \A m \in Nodes : all_scores[m][Pos] = [t \in Proposed |-> p[m][t]]
  BY <1>1 DEF all_scores, my_scores
<1>3. \A m \in DOMAIN all_scores : m \in Nodes /\ Pos \in DOMAIN all_scores[m]
  BY DEF all_scores, my_scores
<1>4. DOMAIN all_scores = Nodes
  BY DEF all_scores
<1>5. \A m \in Nodes : DOMAIN all_scores[m][Pos] = Proposed
  BY <1>2
<1>6. Candidates(all_scores, Pos) = Proposed
  BY <1>3, <1>4, <1>5, OrderConstants DEF Candidates
<1>. QED  BY <1>2, <1>6

\* Where nothing is disputed there is one proposal: merge_consensus has no choice.
LEMMA UndisputedSingle ==
  ASSUME TypeOK, Pos \notin DOMAIN detect_disputes(all_commits),
         NEW t \in Proposed, NEW u \in Proposed
  PROVE  t = u
<1>1. ~(Cardinality(Proposed) > 1)
  BY ProposedFacts DEF detect_disputes
<1>2. Cardinality(Proposed) \in Nat /\ Cardinality(Proposed) # 0
  BY ProposedFacts, FS_CardinalityType, FS_EmptySet
<1>3. Cardinality(Proposed) = 1
  BY <1>1, <1>2
<1>4. \E x : Proposed = {x}
  BY <1>3, ProposedFacts, FS_Singleton
<1>. QED  BY <1>4

LEMMA JointTotalFacts ==
  ASSUME TypeOK, NEW t \in Tokens
  PROVE  /\ JointTotal(t) = SumFunctionOnSet([m \in Nodes |-> p[m][t]], Nodes)
         /\ JointTotal(t) \in Nat
<1>. DEFINE f == [m \in Nodes |-> p[m][t]]
<1>1. \A m \in Nodes : f[m] \in Nat
  BY OrderConstants DEF TypeOK
<1>2. JointTotal(t) = SumFunctionOnSet(f, Nodes)
  BY DEF JointTotal, SumFunction
<1>. HIDE DEF f
<1>3. SumFunctionOnSet(f, Nodes) \in Nat
  BY <1>1, OrderConstants, SumNat
<1>. QED  BY <1>2, <1>3 DEF f

\* Accumulated in any order of arrival, the total of a candidate is the sum over
\* all participants: no partial sum is rounded, and the order is immaterial.
LEMMA TotalIsJoint ==
  ASSUME TypeOK, SumsExact, Pos \in DOMAIN detect_disputes(all_commits),
         NEW n \in Nodes, NEW order \in score_orders(n), NEW t \in Proposed
  PROVE  TotalInOrder(order, t) = JointTotal(t)
<1>. DEFINE I == 1 .. Cardinality(Nodes)
            f == [m \in Nodes |-> p[m][t]]
            w == [i \in I |-> p[order[i]][t]]
            Step(g, T) == AddLast(order, t, g, T)
<1>1. t \in Tokens
  BY DEF Proposed, TypeOK
<1>2. order \in Bijection(I, Nodes)
  BY OrderEnumerates
<1>3. order \in [I -> Nodes] /\ DOMAIN order = I
  BY <1>2 DEF Bijection, Injection
<1>4. IsFiniteSet(I) /\ I \in SUBSET Int
  BY OrderConstants, FS_CardinalityType, FS_Interval
<1>5. f \in [Nodes -> Levels] /\ \A m \in Nodes : f[m] \in Nat
  BY <1>1, OrderConstants DEF TypeOK
<1>6. \A i \in I : w[i] = f[order[i]] /\ w[i] \in Nat /\ w[i] = all_scores[order[i]][Pos][t]
  BY <1>3, <1>5, ScoredFacts
<1>7. SumFunctionOnSet(w, I) = JointTotal(t)
  <2>1. SumFunctionOnSet(w, I) = SumFunctionOnSet(f, Nodes)
    <3>1. (\A m \in Nodes : f[m] \in Nat) /\ \A i \in I : w[i] = f[order[i]]
      BY <1>5, <1>6
    <3>. HIDE DEF I, f, w
    <3>2. IsFiniteSet(I)
      BY <1>4
    <3>. QED  BY ONLY <1>2, <3>1, <3>2, SumReindexed
  <2>. QED  BY <1>1, <2>1, JointTotalFacts
<1>8. JointTotal(t) < 2 ^ Mantissa
  <2>1. SumFunction(f) < 2 ^ Mantissa
    <3>. HIDE DEF f
    <3>. QED  BY <1>5 DEF SumsExact
  <2>. QED  BY <2>1 DEF JointTotal
<1>9. 2 ^ Mantissa \in Int
  BY OrderConstants
<1>. HIDE DEF I, f, w
<1>10. ASSUME NEW T \in SUBSET I
       PROVE  SumFunctionOnSet(w, T) \in Nat /\ SumFunctionOnSet(w, T) < 2 ^ Mantissa
  <2>1. SumFunctionOnSet(w, T) \in Nat /\ SumFunctionOnSet(w, I) \in Nat
    BY <1>4, <1>6, SumNat, FS_Subset
  <2>2. SumFunctionOnSet(w, T) <= SumFunctionOnSet(w, I)
    BY <1>4, <1>6, SumSubset
  <2>3. PICK top \in Int : top = 2 ^ Mantissa
    BY <1>9
  <2>. QED  BY <1>7, <1>8, <2>1, <2>2, <2>3
<1>11. ASSUME NEW T \in SUBSET I, NEW g, T # {} => g[T \ {Max(T)}] = SumFunctionOnSet(w, T \ {Max(T)})
       PROVE  Step(g, T) = SumFunctionOnSet(w, T)
  <2>1. CASE T = {}
    BY <2>1, SumEmpty DEF AddLast
  <2>2. CASE T # {}
    <3>1. PICK x \in T : x = Max(T)
      BY <1>4, <2>2, MaxFinite, FS_Subset
    <3>2. SumFunctionOnSet(w, T) = w[x] + SumFunctionOnSet(w, T \ {x})
      BY <1>4, <1>6, SumRemove, FS_Subset
    <3>3. T \ {x} \in SUBSET I
      OBVIOUS
    <3>4. SumFunctionOnSet(w, T \ {x}) \in Nat /\ w[x] \in Nat
      BY <1>6, <1>10, <3>3
    <3>5. SumFunctionOnSet(w, T \ {x}) + w[x] = SumFunctionOnSet(w, T)
      BY <3>2, <3>4
    <3>6. accumulate(SumFunctionOnSet(w, T \ {x}), w[x]) = SumFunctionOnSet(w, T)
      BY <1>10, <3>5 DEF accumulate, Rounded
    <3>7. Step(g, T) = accumulate(g[T \ {x}], all_scores[order[x]][Pos][t])
      BY <2>2, <3>1 DEF AddLast
    <3>8. g[T \ {x}] = SumFunctionOnSet(w, T \ {x}) /\ w[x] = all_scores[order[x]][Pos][t]
      BY <1>6, <1>11, <2>2, <3>1
    <3>. QED  BY <3>6, <3>7, <3>8
  <2>. QED  BY <2>1, <2>2
<1>12. \E g : g = [T \in SUBSET I |-> Step(g, T)]
  <2>. DEFINE G == [T \in SUBSET I |-> SumFunctionOnSet(w, T)]
  <2>1. ASSUME NEW T \in SUBSET I PROVE Step(G, T) = SumFunctionOnSet(w, T)
    <3>1. T \ {Max(T)} \in SUBSET I
      OBVIOUS
    <3>2. G[T \ {Max(T)}] = SumFunctionOnSet(w, T \ {Max(T)})
      BY <3>1
    <3>. HIDE DEF G, Step
    <3>. QED  BY <1>11, <3>2
  <2>2. G = [T \in SUBSET I |-> Step(G, T)]
    <3>. HIDE DEF Step
    <3>. QED  BY <2>1
  <2>. HIDE DEF G, Step
  <2>. QED  BY <2>2
<1>13. PICK g : g = CHOOSE h : h = [T \in SUBSET I |-> Step(h, T)]
  OBVIOUS
<1>14. g = [T \in SUBSET I |-> Step(g, T)]
  <2>. HIDE DEF Step
  <2>. QED  BY <1>12, <1>13
<1>15. TotalInOrder(order, t) = g[I]
  BY <1>3, <1>13, TotalUnfold
<1>16. g[I] = SumFunctionOnSet(w, I)
  <2>. DEFINE Good == {T \in SUBSET I : g[T] = SumFunctionOnSet(w, T)}
  <2>1. ASSUME NEW T \in SUBSET I, \A U \in SUBSET T : U # T => U \in Good
        PROVE  T \in Good
    <3>1. ASSUME T # {} PROVE T \ {Max(T)} \in SUBSET T /\ T \ {Max(T)} # T
      BY <1>4, <3>1, MaxFinite, FS_Subset
    <3>2. T # {} => g[T \ {Max(T)}] = SumFunctionOnSet(w, T \ {Max(T)})
      BY <2>1, <3>1
    <3>3. Step(g, T) = SumFunctionOnSet(w, T)
      <4>. HIDE DEF Step
      <4>. QED  BY <1>11, <3>2
    <3>4. g[T] = Step(g, T)
      <4>. HIDE DEF Step
      <4>. QED  BY <1>14
    <3>. QED  BY <3>3, <3>4
  <2>2. I \in Good
    <3>. HIDE DEF Good
    <3>. QED  BY <1>4, <2>1, SubsetInduction
  <2>. QED  BY <2>2
<1>. QED  BY <1>7, <1>15, <1>16

\* For given totals the best proposed token exists and is unique.
LEMMA BestExists ==
  ASSUME TypeOK
  PROVE  \E t \in Proposed : IsBest(t)
<1>. DEFINE f == [t \in Proposed |-> JointTotal(t)]
<1>1. Proposed \in SUBSET Tokens
  BY DEF Proposed, TypeOK
<1>2. f \in [Proposed -> Nat]
  BY <1>1, JointTotalFacts
<1>3. \E t \in Proposed : \A u \in Proposed \ {t} : f[t] > f[u] \/ (f[t] = f[u] /\ t < u)
  <2>. HIDE DEF f
  <2>. QED  BY <1>2, ProposedFacts, LexBest
<1>. QED  BY <1>3 DEF IsBest

LEMMA BestUnique ==
  ASSUME TypeOK, NEW t, NEW u, IsBest(t), IsBest(u)
  PROVE  t = u
<1>1. t \in Tokens /\ u \in Tokens /\ t \in Nat /\ u \in Nat
  BY OrderConstants DEF IsBest, Proposed, TypeOK
<1>2. JointTotal(t) \in Nat /\ JointTotal(u) \in Nat
  BY <1>1, JointTotalFacts
<1>. QED  BY <1>1, <1>2 DEF IsBest

\* What a node adopts is the best token, in whatever order the scores arrived.
LEMMA AdoptedIsBest ==
  ASSUME TypeOK, SumsExact, NEW n \in Nodes, NEW order \in score_orders(n),
         NEW tok \in Adopted(order)
  PROVE  tok \in Tokens /\ IsBest(tok)
<1>1. PICK resolved \in [DOMAIN detect_disputes(all_commits) -> BestInOrder(order)] :
        tok = merge_consensus(<<>>, all_commits, resolved)[Pos]
  BY DEF Adopted
<1>2. tok = IF Pos \in DOMAIN resolved THEN resolved[Pos]
            ELSE CHOOSE t \in Proposals(all_commits, Pos) : TRUE
  <2>1. Pos \in ProposedPositions(all_commits)
    BY ProposedFacts
  <2>. QED  BY <1>1, <2>1 DEF merge_consensus
<1>3. Proposed \in SUBSET Tokens
  BY DEF Proposed, TypeOK
<1>4. CASE Pos \in DOMAIN detect_disputes(all_commits)
  <2>1. tok \in BestInOrder(order)
    BY <1>1, <1>2, <1>4
  <2>2. \A t \in Proposed : TotalInOrder(order, t) = JointTotal(t)
    BY <1>4, TotalIsJoint
  <2>3. tok \in Proposed /\ \A u \in Proposed : Outranks(order, tok, u)
    BY <1>4, <2>1, ScoredFacts DEF BestInOrder
  <2>4. \A t \in Proposed : t \in Nat
    BY ProposedFacts
  <2>5. IsBest(tok)
    BY <2>2, <2>3, <2>4 DEF IsBest, Outranks
  <2>. QED  BY <1>3, <2>3, <2>5
<1>5. CASE Pos \notin DOMAIN detect_disputes(all_commits)
  <2>1. tok = CHOOSE t \in Proposals(all_commits, Pos) : TRUE
    BY <1>1, <1>2, <1>5
  <2>2. tok \in Proposed
    BY <2>1, ProposedFacts
  <2>3. \A u \in Proposed : u = tok
    BY <1>5, <2>2, UndisputedSingle
  <2>. QED  BY <1>3, <2>2, <2>3 DEF IsBest
<1>. QED  BY <1>4, <1>5

\* So does the exact consensus, which sums over the participants in no order.
LEMMA ExactIsBest ==
  ASSUME TypeOK
  PROVE  IsBest(merge_consensus(<<>>, all_commits, resolve_disputes(all_scores))[Pos])
<1>. DEFINE res == resolve_disputes(all_scores)
            w   == merge_consensus(<<>>, all_commits, res)[Pos]
            Wins(t) == \A u \in Proposed \ {t} : Beats(all_scores, Pos, t, u)
<1>1. Pos \in ProposedPositions(all_commits)
  BY ProposedFacts
<1>2. DOMAIN res = DOMAIN detect_disputes(all_commits)
  <2>1. DOMAIN all_scores = Nodes
        /\ \A m \in Nodes : DOMAIN all_scores[m] = DOMAIN detect_disputes(all_commits)
    BY DEF all_scores, my_scores
  <2>2. DOMAIN res = UNION {DOMAIN all_scores[m] : m \in Nodes}
    BY <2>1 DEF resolve_disputes
  <2>. QED  BY <2>1, <2>2, OrderConstants
<1>3. CASE Pos \in DOMAIN detect_disputes(all_commits)
  <2>1. Candidates(all_scores, Pos) = Proposed
    BY <1>3, ScoredFacts
  <2>2. ASSUME NEW t \in Proposed PROVE Total(all_scores, Pos, t) = JointTotal(t)
    <3>1. DOMAIN all_scores = Nodes /\ \A m \in Nodes : Pos \in DOMAIN all_scores[m]
      BY <1>3 DEF all_scores, my_scores
    <3>2. detect_disputes(all_commits)[Pos] = Proposed
      BY <1>3, ProposedFacts DEF detect_disputes
    <3>3. \A m \in Nodes : t \in DOMAIN all_scores[m][Pos]
      BY <1>3, <3>2 DEF all_scores, my_scores
    <3>4. Scorers(all_scores, Pos, t) = Nodes
      BY <3>1, <3>3 DEF Scorers
    <3>5. [m \in Nodes |-> all_scores[m][Pos][t]] = [m \in Nodes |-> p[m][t]]
      BY <1>3, ScoredFacts
    <3>. QED  BY <3>4, <3>5 DEF Total, JointTotal
  <2>3. w = res[Pos]
    BY <1>1, <1>2, <1>3 DEF merge_consensus
  <2>4. res[Pos] = CHOOSE t \in Proposed : Wins(t)
    BY <1>2, <1>3, <2>1 DEF resolve_disputes
  <2>5. \E t \in Proposed : Wins(t)
    BY <2>2, BestExists DEF IsBest, Beats
  <2>6. w \in Proposed /\ Wins(w)
    <3>. HIDE DEF w, res, Wins
    <3>. QED  BY <2>3, <2>4, <2>5
  <2>. HIDE DEF w, res
  <2>7. IsBest(w)
    BY <2>2, <2>6 DEF IsBest, Beats
  <2>. QED  BY <2>7 DEF w, res
<1>4. CASE Pos \notin DOMAIN detect_disputes(all_commits)
  <2>1. w = CHOOSE tok \in Proposals(all_commits, Pos) : TRUE
    BY <1>1, <1>2, <1>4 DEF merge_consensus
  <2>. HIDE DEF w, res
  <2>2. w \in Proposed
    BY <2>1, ProposedFacts
  <2>3. \A u \in Proposed : u = w
    BY <1>4, <2>2, UndisputedSingle
  <2>4. IsBest(w)
    BY <2>2, <2>3 DEF IsBest
  <2>. QED  BY <2>4 DEF w, res
<1>. QED  BY <1>3, <1>4

-----------------------------------------------------------------------------

LEMMA OrderInit ==
  ASSUME Init
  PROVE  IInv
  BY DEF Init, IInv, TypeOK

LEMMA OrderStep ==
  ASSUME SumsExact, IInv, [Next]_vars
  PROVE  IInv'
<1>1. CASE UNCHANGED vars
  <2>1. p' = p /\ picks' = picks /\ winners' = winners
    BY <1>1 DEF vars
  <2>2. \A t : IsBest(t)' <=> IsBest(t)
    BY <2>1 DEF IsBest, Proposed, JointTotal
  <2>. QED  BY <2>1, <2>2 DEF IInv, TypeOK
<1>2. ASSUME NEW n \in Nodes, Resolve(n) PROVE IInv'
  <2>0. PICK order \in score_orders(n) :
          \E tok \in Adopted(order) : winners' = [winners EXCEPT ![n] = {tok}]
    BY <1>2 DEF Resolve
  <2>1. PICK tok \in Adopted(order) : winners' = [winners EXCEPT ![n] = {tok}]
    BY <2>0
  <2>2. tok \in Tokens /\ IsBest(tok)
    BY AdoptedIsBest DEF IInv
  <2>3. p' = p /\ picks' = picks
    BY <1>2 DEF Resolve
  <2>4. \A t : IsBest(t)' <=> IsBest(t)
    BY <2>3 DEF IsBest, Proposed, JointTotal
  <2>5. TypeOK'
    BY <2>1, <2>2, <2>3 DEF IInv, TypeOK
  <2>6. ASSUME NEW m \in Nodes, winners'[m] # {}
        PROVE  \E t \in Tokens : winners'[m] = {t} /\ IsBest(t)
    <3>1. CASE m = n
      <4>1. winners'[m] = {tok}
        BY <2>1, <3>1 DEF IInv, TypeOK
      <4>. QED  BY <2>2, <4>1
    <3>2. CASE m # n
      BY <2>1, <2>6, <3>2 DEF IInv, TypeOK
    <3>. QED  BY <3>1, <3>2
  <2>. QED  BY <2>4, <2>5, <2>6 DEF IInv
<1>. QED  BY <1>1, <1>2 DEF Next

\* Every participant lands on the same winner, in whatever order the scores
\* reached it, as long as no sum of one probability per participant is rounded
\* (resolve_disputes): for any participants, tokens and probabilities.
THEOREM ExactSumsAgree ==
  ASSUME SumsExact
  PROVE  Spec => []SameWinner
<1>1. IInv => SameWinner
  BY BestUnique DEF IInv, SameWinner
<1>. QED  BY <1>1, OrderInit, OrderStep, PTL DEF Spec

\* Under the same condition, the adopted token is a proposed one and no proposed
\* token has a higher sum of all participants' probabilities.
THEOREM ExactSumsBest ==
  ASSUME SumsExact
  PROVE  Spec => []JointBest
<1>1. IInv => JointBest
  <2>. SUFFICES ASSUME IInv, NEW n \in Nodes, NEW t \in winners[n]
                PROVE  t \in Proposed /\ \A u \in Proposed : JointTotal(t) >= JointTotal(u)
    BY DEF JointBest, Proposed
  <2>1. IsBest(t) /\ TypeOK
    BY DEF IInv
  <2>2. \A u \in Proposed : JointTotal(u) \in Nat
    BY <2>1, JointTotalFacts DEF Proposed, TypeOK
  <2>. QED  BY <2>1, <2>2 DEF IsBest
<1>. QED  BY <1>1, OrderInit, OrderStep, PTL DEF Spec

\* Under the same condition, what a node adopts in its own order of arrival is
\* what the exact functions of module Consensus compute: the step from the
\* rounded, ordered sums of the code to the consensus that Generation uses.
THEOREM ExactSumsImplement ==
  ASSUME SumsExact
  PROVE  Spec => []ExactConsensus
<1>1. IInv => ExactConsensus
  <2>. SUFFICES ASSUME IInv, NEW n \in Nodes, NEW t \in winners[n]
                PROVE  t = merge_consensus(<<>>, all_commits, resolve_disputes(all_scores))[Pos]
    BY DEF ExactConsensus
  <2>1. IsBest(t) /\ TypeOK
    BY DEF IInv
  <2>. QED  BY <2>1, ExactIsBest, BestUnique
<1>. QED  BY <1>1, OrderInit, OrderStep, PTL DEF Spec
=============================================================================
