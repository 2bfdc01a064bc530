--------------------------- MODULE FiniteSetLemmas ---------------------------
(***************************************************************************)
(* Facts about finite sets that the other proofs keep needing: induction,  *)
(* when Min and Max of FiniteSetsExt (which CHOOSE them) really are the    *)
(* least and the greatest element, and what SumFunctionOnSet of Functions  *)
(* (a recursion that CHOOSEs the order) sums up to.                        *)
(***************************************************************************)
EXTENDS Integers, FiniteSets, FiniteSetsExt, Functions, FiniteSetTheorems, TLAPS

LEMMA LessThanWellFounded == IsWellFoundedOn({ss \in Nat \X Nat : ss[1] < ss[2]}, Nat)
  BY NatLessThanWellFounded DEF OpToRel

\* A non-empty set of naturals has a least element, and Min is it.
LEMMA MinNat ==
  ASSUME NEW S \in SUBSET Nat, S # {}
  PROVE  Min(S) \in S /\ \A y \in S : Min(S) <= y
<1>. DEFINE R == {ss \in Nat \X Nat : ss[1] < ss[2]}
<1>1. PICK x \in S : \A y \in S : <<y, x>> \notin R
  <2>. HIDE DEF R
  <2>1. IsWellFoundedOn(R, Nat)
    BY LessThanWellFounded DEF R
  <2>. QED  BY <2>1, WFMin
<1>2. ASSUME NEW y \in S PROVE x <= y
  <2>1. <<y, x>> \in Nat \X Nat
    OBVIOUS
  <2>2. ~(y < x)
    BY <1>1, <2>1
  <2>. QED  BY <2>2
<1>. QED  BY <1>2 DEF Min

\* Induction over the naturals, for a property given as the set of its naturals.
LEMMA NatSetInduction ==
  ASSUME NEW G, 0 \in G, \A k \in Nat : k \in G => k + 1 \in G
  PROVE  Nat \subseteq G
<1>. DEFINE Bad == Nat \ G
<1>. SUFFICES ASSUME Bad # {} PROVE FALSE
  OBVIOUS
<1>1. Min(Bad) \in Bad /\ \A y \in Bad : Min(Bad) <= y
  <2>1. Bad \in SUBSET Nat
    OBVIOUS
  <2>. HIDE DEF Bad
  <2>. QED  BY <2>1, MinNat
<1>2. PICK k \in Bad : \A y \in Bad : k <= y
  BY <1>1
<1>3. k # 0 /\ k - 1 \in Nat /\ k = (k - 1) + 1 /\ ~(k <= k - 1)
  BY <1>2
<1>4. k - 1 \in G
  BY <1>2, <1>3
<1>. QED  BY <1>2, <1>3, <1>4

\* Induction over a finite set, for a property given as the set of its subsets:
\* a smallest subset without the property would have it.
LEMMA SubsetInduction ==
  ASSUME NEW S, IsFiniteSet(S), NEW Good,
         \A T \in SUBSET S : (\A U \in SUBSET T : U # T => U \in Good) => T \in Good
  PROVE  S \in Good
<1>. DEFINE Bad  == {T \in SUBSET S : T \notin Good}
            Card == {Cardinality(T) : T \in Bad}
<1>1. Bad = {}
  <2>. SUFFICES ASSUME Bad # {} PROVE FALSE
    OBVIOUS
  <2>1. \A T \in SUBSET S : IsFiniteSet(T) /\ Cardinality(T) \in Nat
    BY FS_Subset, FS_CardinalityType
  <2>2. Card \in SUBSET Nat /\ Card # {}
    BY <2>1
  <2>3. Min(Card) \in Card /\ \A k \in Card : Min(Card) <= k
    <3>. HIDE DEF Card
    <3>. QED  BY <2>2, MinNat
  <2>4. PICK T \in Bad : \A U \in Bad : Cardinality(T) <= Cardinality(U)
    <3>. HIDE DEF Bad
    <3>. QED  BY <2>3
  <2>5. ASSUME NEW U \in SUBSET T, U # T PROVE U \in Good
    <3>1. Cardinality(U) <= Cardinality(T) /\ Cardinality(U) # Cardinality(T)
      BY <2>1, <2>4, <2>5, FS_Subset
    <3>2. U \in SUBSET S /\ ~(Cardinality(T) <= Cardinality(U))
      BY <2>1, <2>4, <3>1
    <3>. QED  BY <2>4, <3>2
  <2>. QED  BY <2>4, <2>5
<1>. QED  BY <1>1

-----------------------------------------------------------------------------

\* A non-empty finite set of integers has a greatest element, and Max is it.
LEMMA MaxFinite ==
  ASSUME NEW S \in SUBSET Int, S # {}, IsFiniteSet(S)
  PROVE  Max(S) \in S /\ \A y \in S : y <= Max(S)
<1>. DEFINE Topped(T) == \E x \in T : \A y \in T : y <= x
            Good == {T \in SUBSET S : T = {} \/ Topped(T)}
<1>1. ASSUME NEW T \in SUBSET S, \A U \in SUBSET T : U # T => U \in Good
      PROVE  T \in Good
  <2>. SUFFICES ASSUME T # {} PROVE Topped(T)
    OBVIOUS
  <2>1. PICK x \in T : TRUE
    OBVIOUS
  <2>2. T \ {x} \in SUBSET T /\ T \ {x} # T
    OBVIOUS
  <2>3. CASE T \ {x} = {}
    <3>1. \A y \in T : y <= x
      BY <2>3
    <3>. QED  BY <3>1
  <2>4. CASE T \ {x} # {}
    <3>1. PICK u \in T \ {x} : \A y \in T \ {x} : y <= u
      BY <1>1, <2>2, <2>4
    <3>2. u \in Int /\ x \in Int /\ u \in T
      BY <3>1
    <3>3. CASE x <= u
      BY <3>1, <3>2, <3>3
    <3>4. CASE u <= x
      <4>1. ASSUME NEW y \in T PROVE y <= x
        BY <3>1, <3>2, <3>4
      <4>. QED  BY <4>1
    <3>. QED  BY <3>2, <3>3, <3>4
  <2>. QED  BY <2>3, <2>4
<1>2. S \in Good
  <2>. HIDE DEF Good
  <2>. QED  BY <1>1, SubsetInduction
<1>3. Topped(S)
  BY <1>2
<1>. QED  BY <1>3 DEF Max

\* Of finitely many tokens with a score each, one has the highest score and,
\* of the ones that share it, the lowest number.
LEMMA LexBest ==
  ASSUME NEW S \in SUBSET Nat, S # {}, IsFiniteSet(S), NEW f \in [S -> Nat]
  PROVE  \E t \in S : \A u \in S \ {t} : f[t] > f[u] \/ (f[t] = f[u] /\ t < u)
<1>. DEFINE Scores == {f[t] : t \in S}
            Best   == {t \in S : f[t] = Max(Scores)}
<1>1. Scores \in SUBSET Int /\ Scores # {} /\ IsFiniteSet(Scores)
  <2>1. f \in Surjection(S, Scores)
    BY DEF Surjection
  <2>2. IsFiniteSet(Scores)
    BY <2>1, FS_Surjection
  <2>3. Scores # {}
    OBVIOUS
  <2>4. ASSUME NEW y \in Scores PROVE y \in Int
    <3>1. PICK t \in S : y = f[t]
      OBVIOUS
    <3>2. f[t] \in Nat
      OBVIOUS
    <3>. QED  BY <3>1, <3>2
  <2>. HIDE DEF Scores
  <2>. QED  BY <2>2, <2>3, <2>4
<1>2. Max(Scores) \in Scores /\ \A y \in Scores : y <= Max(Scores)
  <2>. HIDE DEF Scores
  <2>. QED  BY <1>1, MaxFinite
<1>3. Best \in SUBSET Nat /\ Best # {}
  BY <1>2
<1>4. Min(Best) \in Best /\ \A t \in Best : Min(Best) <= t
  <2>. HIDE DEF Best
  <2>. QED  BY <1>3, MinNat
<1>5. PICK t \in Best : \A u \in Best : t <= u
  BY <1>4
<1>6. ASSUME NEW u \in S \ {t} PROVE f[t] > f[u] \/ (f[t] = f[u] /\ t < u)
  <2>1. f[u] <= f[t] /\ f[u] \in Nat /\ f[t] \in Nat /\ t \in Nat /\ u \in Nat /\ t # u
    BY <1>2, <1>5
  <2>2. f[u] = f[t] => t <= u
    BY <1>5
  <2>. QED  BY <2>1, <2>2
<1>. QED  BY <1>5, <1>6

-----------------------------------------------------------------------------

\* One step of the recursion behind SumFunctionOnSet, and the function it defines.
SumStep(f, g, T) == IF T = {} THEN 0 ELSE f[CHOOSE x \in T : TRUE] + g[T \ {CHOOSE x \in T : TRUE}]
IsSum(f, g, D)   == g = [T \in D |-> SumStep(f, g, T)]

LEMMA SumUnfold ==
  ASSUME NEW f, NEW S
  PROVE  SumFunctionOnSet(f, S) = (CHOOSE g : IsSum(f, g, SUBSET S))[S]
  BY DEF SumFunctionOnSet, FoldFunctionOnSet, MapThenFoldSet, SumStep, IsSum

\* The recursion defines a function: level by level of the subsets of S, the
\* function for the sets of at most k elements extends to those of k + 1.
LEMMA SumDefined ==
  ASSUME NEW f, NEW S, IsFiniteSet(S)
  PROVE  \E g : IsSum(f, g, SUBSET S)
<1>. DEFINE L(k) == {T \in SUBSET S : Cardinality(T) <= k}
            G    == {k \in Nat : \E g : IsSum(f, g, L(k))}
<1>0. \A T \in SUBSET S : IsFiniteSet(T) /\ Cardinality(T) \in Nat /\ (T = {} <=> Cardinality(T) = 0)
  BY FS_Subset, FS_CardinalityType, FS_EmptySet
<1>1. 0 \in G
  <2>. DEFINE g == [T \in L(0) |-> 0]
  <2>1. \A T \in L(0) : T = {}
    BY <1>0
  <2>2. IsSum(f, g, L(0))
    BY <2>1 DEF IsSum, SumStep
  <2>. QED  BY <2>2
<1>2. ASSUME NEW k \in Nat, k \in G PROVE k + 1 \in G
  <2>1. PICK g : IsSum(f, g, L(k))
    BY <1>2
  <2>. DEFINE h == [T \in L(k + 1) |-> SumStep(f, g, T)]
  <2>2. ASSUME NEW T \in L(k + 1), T # {} PROVE T \ {CHOOSE x \in T : TRUE} \in L(k)
    <3>1. PICK x \in T : x = CHOOSE y \in T : TRUE
      BY <2>2
    <3>2. T \ {x} \in SUBSET S /\ Cardinality(T \ {x}) = Cardinality(T) - 1
      BY <1>0, FS_RemoveElement
    <3>. QED  BY <1>0, <2>2, <3>1, <3>2
  <2>3. ASSUME NEW T \in L(k) PROVE T \in L(k + 1) /\ h[T] = g[T]
    <3>1. T \in L(k + 1)
      BY <1>0
    <3>2. g[T] = SumStep(f, g, T)
      BY <2>1 DEF IsSum
    <3>. QED  BY <3>1, <3>2
  <2>4. ASSUME NEW T \in L(k + 1) PROVE SumStep(f, h, T) = SumStep(f, g, T)
    <3>1. T # {} => h[T \ {CHOOSE x \in T : TRUE}] = g[T \ {CHOOSE x \in T : TRUE}]
      <4>. HIDE DEF h, L
      <4>. QED  BY <2>2, <2>3
    <3>. HIDE DEF h
    <3>. QED  BY <3>1 DEF SumStep
  <2>5. IsSum(f, h, L(k + 1))
    BY <2>4 DEF IsSum
  <2>6. \E hh : IsSum(f, hh, L(k + 1))
    <3>. HIDE DEF h, L
    <3>. QED  BY <2>5
  <2>. QED  BY <2>6
<1>3. Nat \subseteq G
  <2>. HIDE DEF G
  <2>. QED  BY <1>1, <1>2, NatSetInduction
<1>4. L(Cardinality(S)) = SUBSET S
  BY FS_Subset
<1>5. Cardinality(S) \in G
  BY <1>3, <1>0
<1>. QED  BY <1>4, <1>5

\* Two such functions agree wherever both are defined.
LEMMA SumUnique ==
  ASSUME NEW f, NEW R, NEW S \in SUBSET R, NEW g, NEW h, IsFiniteSet(S),
         IsSum(f, g, SUBSET S), IsSum(f, h, SUBSET R)
  PROVE  g[S] = h[S]
<1>. DEFINE Good == {T \in SUBSET S : g[T] = h[T]}
<1>1. ASSUME NEW T \in SUBSET S, \A U \in SUBSET T : U # T => U \in Good
      PROVE  T \in Good
  <2>1. g[T] = SumStep(f, g, T) /\ h[T] = SumStep(f, h, T)
    BY DEF IsSum
  <2>2. SumStep(f, g, T) = SumStep(f, h, T)
    <3>1. CASE T = {}
      BY <3>1 DEF SumStep
    <3>2. CASE T # {}
      <4>1. PICK x \in T : x = CHOOSE y \in T : TRUE
        BY <3>2
      <4>2. T \ {x} \in SUBSET T /\ T \ {x} # T
        OBVIOUS
      <4>3. g[T \ {x}] = h[T \ {x}]
        BY <1>1, <4>2
      <4>. QED  BY <3>2, <4>1, <4>3 DEF SumStep
    <3>. QED  BY <3>1, <3>2
  <2>. QED  BY <2>1, <2>2
<1>2. S \in Good
  <2>. HIDE DEF Good
  <2>. QED  BY <1>1, SubsetInduction
<1>. QED  BY <1>2

LEMMA SumEmpty ==
  ASSUME NEW f
  PROVE  SumFunctionOnSet(f, {}) = 0
<1>1. PICK g : g = CHOOSE h : IsSum(f, h, SUBSET {})
  OBVIOUS
<1>2. IsSum(f, g, SUBSET {})
  BY <1>1, SumDefined, FS_EmptySet
<1>3. g[{}] = 0
  BY <1>2 DEF IsSum, SumStep
<1>. QED  BY <1>1, <1>3, SumUnfold

\* The sum over a set is its chosen element's share and the sum over the rest.
LEMMA SumChosen ==
  ASSUME NEW f, NEW S, IsFiniteSet(S), S # {}
  PROVE  \E x \in S : SumFunctionOnSet(f, S) = f[x] + SumFunctionOnSet(f, S \ {x})
<1>1. PICK x \in S : x = CHOOSE y \in S : TRUE
  OBVIOUS
<1>2. PICK g : g = CHOOSE h : IsSum(f, h, SUBSET S)
  OBVIOUS
<1>0. PICK R \in SUBSET S : R = S \ {x}
  OBVIOUS
<1>3. IsFiniteSet(R) /\ R \in SUBSET S
  BY FS_Subset
<1>4. PICK r : r = CHOOSE h : IsSum(f, h, SUBSET R)
  OBVIOUS
<1>5. IsSum(f, g, SUBSET S) /\ IsSum(f, r, SUBSET R)
  BY <1>2, <1>3, <1>4, SumDefined
<1>6. r[R] = g[R]
  <2>1. \A u, v : IsSum(f, u, SUBSET R) /\ IsSum(f, v, SUBSET S) => u[R] = v[R]
    BY <1>3, SumUnique
  <2>. QED  BY <1>5, <2>1
<1>7. g[S] = f[x] + g[R]
  <2>1. g[S] = SumStep(f, g, S)
    BY <1>5 DEF IsSum
  <2>. QED  BY <2>1, <1>0, <1>1 DEF SumStep
<1>8. SumFunctionOnSet(f, S) = g[S] /\ SumFunctionOnSet(f, R) = r[R]
  BY <1>2, <1>4, SumUnfold
<1>. QED  BY <1>0, <1>6, <1>7, <1>8

\* A sum of naturals is a natural.
LEMMA SumNat ==
  ASSUME NEW S, IsFiniteSet(S), NEW f, \A x \in S : f[x] \in Nat
  PROVE  SumFunctionOnSet(f, S) \in Nat
<1>. DEFINE Good == {T \in SUBSET S : SumFunctionOnSet(f, T) \in Nat}
<1>1. ASSUME NEW T \in SUBSET S, \A U \in SUBSET T : U # T => U \in Good
      PROVE  T \in Good
  <2>1. CASE T = {}
    BY <2>1, SumEmpty
  <2>2. CASE T # {}
    <3>1. PICK x \in T : SumFunctionOnSet(f, T) = f[x] + SumFunctionOnSet(f, T \ {x})
      BY <2>2, SumChosen, FS_Subset
    <3>2. T \ {x} \in SUBSET T /\ T \ {x} # T
      OBVIOUS
    <3>3. SumFunctionOnSet(f, T \ {x}) \in Nat /\ f[x] \in Nat
      BY <1>1, <3>2
    <3>. QED  BY <3>1, <3>3
  <2>. QED  BY <2>1, <2>2
<1>2. S \in Good
  <2>. HIDE DEF Good
  <2>. QED  BY <1>1, SubsetInduction
<1>. QED  BY <1>2

\* Whichever element is taken out first: the order of the recursion is immaterial.
LEMMA SumRemove ==
  ASSUME NEW S, IsFiniteSet(S), NEW f, \A x \in S : f[x] \in Nat, NEW e \in S
  PROVE  SumFunctionOnSet(f, S) = f[e] + SumFunctionOnSet(f, S \ {e})
<1>. DEFINE Good == {T \in SUBSET S :
                       \A x \in T : SumFunctionOnSet(f, T) = f[x] + SumFunctionOnSet(f, T \ {x})}
<1>1. ASSUME NEW T \in SUBSET S, \A U \in SUBSET T : U # T => U \in Good, NEW x \in T
      PROVE  SumFunctionOnSet(f, T) = f[x] + SumFunctionOnSet(f, T \ {x})
  <2>1. PICK c \in T : SumFunctionOnSet(f, T) = f[c] + SumFunctionOnSet(f, T \ {c})
    BY SumChosen, FS_Subset
  <2>2. CASE c = x
    BY <2>1, <2>2
  <2>3. CASE c # x
    <3>. DEFINE C == T \ {c}
                X == T \ {x}
                Z == T \ {c, x}
    <3>1. C \in SUBSET T /\ C # T /\ X \in SUBSET T /\ X # T /\ x \in C /\ c \in X
      BY <2>3
    <3>2. C \ {x} = Z /\ X \ {c} = Z /\ Z \in SUBSET S
      OBVIOUS
    <3>3. C \in Good /\ X \in Good
      <4>. HIDE DEF C, X, Good
      <4>. QED  BY <1>1, <3>1
    <3>4. SumFunctionOnSet(f, C) = f[x] + SumFunctionOnSet(f, Z)
      BY <3>1, <3>2, <3>3
    <3>5. SumFunctionOnSet(f, X) = f[c] + SumFunctionOnSet(f, Z)
      BY <3>1, <3>2, <3>3
    <3>6. SumFunctionOnSet(f, Z) \in Nat
      BY <3>2, SumNat, FS_Subset
    <3>7. f[x] \in Nat /\ f[c] \in Nat
      OBVIOUS
    <3>8. SumFunctionOnSet(f, T) = f[c] + SumFunctionOnSet(f, C)
      BY <2>1
    <3>9. SumFunctionOnSet(f, T) = f[x] + SumFunctionOnSet(f, X)
      <4>. HIDE DEF C, X, Z, Good
      <4>. QED  BY <3>4, <3>5, <3>6, <3>7, <3>8
    <3>. QED  BY <3>9
  <2>. QED  BY <2>2, <2>3
<1>2. S \in Good
  <2>1. \A T \in SUBSET S : (\A U \in SUBSET T : U # T => U \in Good) => T \in Good
    BY <1>1
  <2>. HIDE DEF Good
  <2>. QED  BY <2>1, SubsetInduction
<1>. QED  BY <1>2

\* A part of a sum of naturals is at most the sum.
LEMMA SumSubset ==
  ASSUME NEW S, IsFiniteSet(S), NEW f, \A x \in S : f[x] \in Nat, NEW R \in SUBSET S
  PROVE  SumFunctionOnSet(f, R) <= SumFunctionOnSet(f, S)
<1>. DEFINE Good == {T \in SUBSET S :
                       R \subseteq T => SumFunctionOnSet(f, R) <= SumFunctionOnSet(f, T)}
<1>1. ASSUME NEW T \in SUBSET S, \A U \in SUBSET T : U # T => U \in Good, R \subseteq T
      PROVE  SumFunctionOnSet(f, R) <= SumFunctionOnSet(f, T)
  <2>1. SumFunctionOnSet(f, R) \in Nat /\ SumFunctionOnSet(f, T) \in Nat
    BY SumNat, FS_Subset
  <2>2. CASE R = T
    BY <2>1, <2>2
  <2>3. CASE R # T
    <3>1. PICK x \in T : x \notin R
      BY <1>1, <2>3
    <3>. DEFINE X == T \ {x}
    <3>2. X \in SUBSET T /\ X # T /\ R \subseteq X /\ X \in SUBSET S
      BY <1>1, <3>1
    <3>3. SumFunctionOnSet(f, R) <= SumFunctionOnSet(f, X)
      <4>. HIDE DEF X
      <4>. QED  BY <1>1, <3>2
    <3>4. SumFunctionOnSet(f, T) = f[x] + SumFunctionOnSet(f, X)
      BY SumRemove, FS_Subset
    <3>5. SumFunctionOnSet(f, X) \in Nat /\ f[x] \in Nat
      BY <3>2, SumNat, FS_Subset
    <3>. HIDE DEF X, Good
    <3>. QED  BY <2>1, <3>3, <3>4, <3>5
  <2>. QED  BY <2>2, <2>3
<1>2. S \in Good
  <2>1. \A T \in SUBSET S : (\A U \in SUBSET T : U # T => U \in Good) => T \in Good
    BY <1>1
  <2>. HIDE DEF Good
  <2>. QED  BY <2>1, SubsetInduction
<1>. QED  BY <1>2

\* Summing along a one-to-one enumeration h of a set sums over the set.
LEMMA SumReindexed ==
  ASSUME NEW I, NEW J, NEW h \in Bijection(I, J), NEW f, NEW w, IsFiniteSet(I),
         \A j \in J : f[j] \in Nat, \A i \in I : w[i] = f[h[i]]
  PROVE  SumFunctionOnSet(w, I) = SumFunctionOnSet(f, J)
<1>. DEFINE Im(T) == {h[i] : i \in T}
            Good  == {T \in SUBSET I : SumFunctionOnSet(w, T) = SumFunctionOnSet(f, Im(T))}
<1>0. h \in [I -> J] /\ (\A i, k \in I : h[i] = h[k] => i = k) /\ Im(I) = J
  BY DEF Bijection, Injection, Surjection, IsInjective
<1>1. ASSUME NEW T \in SUBSET I, \A U \in SUBSET T : U # T => U \in Good
      PROVE  T \in Good
  <2>1. CASE T = {}
    <3>1. Im(T) = {}
      BY <2>1
    <3>. QED  BY <2>1, <3>1, SumEmpty
  <2>2. CASE T # {}
    <3>1. PICK x \in T : TRUE
      BY <2>2
    <3>. DEFINE X == T \ {x}
    <3>2. X \in SUBSET T /\ X # T
      OBVIOUS
    <3>3. Im(X) = Im(T) \ {h[x]} /\ h[x] \in Im(T) /\ Im(T) \in SUBSET J
      BY <1>0, <3>1
    <3>4. SumFunctionOnSet(w, X) = SumFunctionOnSet(f, Im(X))
      <4>1. X \in Good
        <5>. HIDE DEF X, Good
        <5>. QED  BY <1>1, <3>2
      <4>. QED  BY <4>1
    <3>5. IsFiniteSet(T) /\ \A i \in T : w[i] \in Nat
      BY <1>0, FS_Subset
    <3>6. SumFunctionOnSet(w, T) = w[x] + SumFunctionOnSet(w, X)
      BY <3>1, <3>5, SumRemove
    <3>7. IsFiniteSet(Im(T))
      <4>. DEFINE k == [i \in T |-> h[i]]
      <4>1. k \in Surjection(T, Im(T))
        BY DEF Surjection
      <4>. HIDE DEF k, Im
      <4>. QED  BY <3>5, <4>1, FS_Surjection
    <3>8. SumFunctionOnSet(f, Im(T)) = f[h[x]] + SumFunctionOnSet(f, Im(X))
      <4>1. PICK y \in Im(T) : y = h[x]
        BY <3>3
      <4>2. \A j \in Im(T) : f[j] \in Nat
        BY <3>3
      <4>3. SumFunctionOnSet(f, Im(T)) = f[y] + SumFunctionOnSet(f, Im(T) \ {y})
        <5>. HIDE DEF Im
        <5>. QED  BY <3>7, <4>2, SumRemove
      <4>. QED  BY <3>3, <4>1, <4>3
    <3>9. w[x] = f[h[x]]
      OBVIOUS
    <3>. QED  BY <3>4, <3>6, <3>8, <3>9
  <2>. QED  BY <2>1, <2>2
<1>2. I \in Good
  <2>. HIDE DEF Good
  <2>. QED  BY <1>1, SubsetInduction
<1>. QED  BY <1>0, <1>2
=============================================================================
