--------------------------- MODULE ConsensusOrder ---------------------------
(***************************************************************************)
(* Phase 2 of one sync as diffusion/consensus.py and node/generation.py    *)
(* compute it, when every report has reached everyone: each participant    *)
(* aggregates the same scores, but each in its own order, because the dict *)
(* it builds starts with its own scores and continues with the others in   *)
(* order of arrival (generation.py, all_scores).                           *)
(*                                                                         *)
(* Addition is floating-point addition with a significand of Mantissa bits *)
(* and round-half-even, on numbers scaled to integers.  Doubles have 53    *)
(* bits; a small Mantissa shows at a small scale what 53 bits do.          *)
(***************************************************************************)
EXTENDS Consensus, Sequences, SequencesExt

CONSTANTS Nodes,      \* the participants
          Tokens,     \* token ids, natural numbers
          Levels,     \* the probabilities a model may give, natural numbers
          WholeMass,  \* the probability one: what a node's levels sum to at most
          Mantissa    \* bits of significand

ASSUME OrderConstants ==
  /\ IsFiniteSet(Nodes) /\ Nodes # {}
  /\ Tokens \subseteq Nat /\ Levels \subseteq Nat \ {0}
  /\ Mantissa \in Nat \ {0} /\ WholeMass \in Nat

VARIABLES p,        \* p[n][t]: the softmax of node n at the position in question
          picks,    \* picks[n]: the token node n committed there
          winners   \* winners[n]: the token node n adopted, as a set: {} before it resolved

vars == <<p, picks, winners>>

Pos == 0    \* the one position all participants commit

-----------------------------------------------------------------------------

\* The significand is exceeded by this many bits.
Excess(v) == CHOOSE e \in 0 .. v : v < 2 ^ (Mantissa + e) /\ (e = 0 \/ v >= 2 ^ (Mantissa + e - 1))

\* v rounded to Mantissa bits, half to even: a number that fits stays as it is.
Rounded(v) ==
  LET ulp  == 2 ^ Excess(v)
      low  == v \div ulp
      rest == v % ulp
      up   == 2 * rest > ulp \/ (2 * rest = ulp /\ low % 2 = 1)
  IN  IF v < 2 ^ Mantissa THEN v ELSE IF up THEN (low + 1) * ulp ELSE low * ulp

\* bucket[token] = bucket.get(token, 0.0) + math.exp(logprob)
accumulate(bucket, prob) == Rounded(bucket + prob)

\* The commits everyone holds, and each node's scores for the disputed tokens.
all_commits == [n \in Nodes |-> [q \in {Pos} |-> picks[n]]]
my_scores(n) == [q \in DOMAIN detect_disputes(all_commits) |->
                   [t \in detect_disputes(all_commits)[q] |-> p[n][t]]]
all_scores == [n \in Nodes |-> my_scores(n)]

\* A node's own echo counted among the others' scores.
score_orders_with_echo(n) ==
  {<<n>> \o s : s \in {t \in [1 .. Cardinality(Nodes) -> Nodes] : IsInjective(t)}}

\* The orders in which node n's dict of scores may have been filled.
score_orders(n) ==
  {<<n>> \o s : s \in {t \in [1 .. Cardinality(Nodes) - 1 -> Nodes \ {n}] : IsInjective(t)}}

\* The total of a candidate, accumulated in the given order of reporters.
TotalInOrder(order, tok) ==
  FoldLeft(LAMBDA bucket, n : accumulate(bucket, all_scores[n][Pos][tok]), 0, order)

\* Without the tie-break: the score alone decides.
Outranks_score_only(order, t, u) == TotalInOrder(order, t) >= TotalInOrder(order, u)

\* The key (kv[1], -kv[0]) of candidate t is at least that of u.
Outranks(order, t, u) ==
  \/ TotalInOrder(order, t) > TotalInOrder(order, u)
  \/ TotalInOrder(order, t) = TotalInOrder(order, u) /\ t <= u

\* The candidates that max(candidates.items(), key) may return: of several with
\* the same key, the one that happens to be first in the dict.
BestInOrder(order) ==
  {t \in Candidates(all_scores, Pos) : \A u \in Candidates(all_scores, Pos) : Outranks(order, t, u)}

\* What a node may adopt at Pos, for one order of arrival.
Adopted(order) ==
  {merge_consensus(<<>>, all_commits, resolved)[Pos] :
     resolved \in [DOMAIN detect_disputes(all_commits) -> BestInOrder(order)]}

-----------------------------------------------------------------------------

Init ==
  /\ p \in {f \in [Nodes -> [Tokens -> Levels]] :
              \A n \in Nodes : SumFunction(f[n]) <= WholeMass}
  /\ picks \in [Nodes -> Tokens]
  /\ winners = [n \in Nodes |-> {}]

\* Node n resolves the disputes of this sync.
Resolve(n) ==
  /\ winners[n] = {}
  /\ \E order \in score_orders(n) : \E tok \in Adopted(order) :
       winners' = [winners EXCEPT ![n] = {tok}]
  /\ UNCHANGED <<p, picks>>

Next == \E n \in Nodes : Resolve(n)

Spec == Init /\ [][Next]_vars

-----------------------------------------------------------------------------

\* "Every participant computing this must land on the same winner"
\* (resolve_disputes): whatever the order in which the scores arrived, two
\* participants that resolved the same dispute adopted the same token.
SameWinner ==
  \A n, m \in Nodes : winners[n] # {} /\ winners[m] # {} => winners[n] = winners[m]

\* The sum of all participants' probabilities for a token.
JointTotal(t) == SumFunction([m \in Nodes |-> p[m][t]])

\* The adopted token is one somebody proposed, and no proposed token has a
\* higher sum of all participants' probabilities: a bland compromise does not
\* beat a token the ensemble is more confident in (weighted average, not PoE).
JointBest ==
  \A n \in Nodes : \A t \in winners[n] :
    /\ t \in {picks[m] : m \in Nodes}
    /\ \A u \in {picks[m] : m \in Nodes} : JointTotal(t) >= JointTotal(u)

\* What everyone adopts is what the exact functions of module Consensus make of
\* the same commits and scores: the consensus of module Generation, which adds
\* up exactly and in no order, is the code's as long as nothing is rounded.
ExactConsensus ==
  \A n \in Nodes :
    winners[n] \subseteq {merge_consensus(<<>>, all_commits, resolve_disputes(all_scores))[Pos]}

\* No sum of one probability per participant is rounded: what the properties
\* need, and what run consensus_rounding does without.
SumsExact == \A f \in [Nodes -> Levels] : SumFunction(f) < 2 ^ Mantissa
=============================================================================
