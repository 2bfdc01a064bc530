----------------------------- MODULE Consensus -----------------------------
(***************************************************************************)
(* The pure functions of diffusion/consensus.py, which every participant   *)
(* of a round applies to the commits and scores it has collected.          *)
(*                                                                         *)
(* Data.  A Python dict is a function: commits is a function from reporter *)
(* to its own commits, a partial function from position to token (the own  *)
(* confidence that travels with the token is read by none of the three     *)
(* functions); scores is a function from reporter to a partial function    *)
(* from position to a function from candidate token to probability.        *)
(*                                                                         *)
(* Probabilities are natural numbers in units of the smallest probability  *)
(* the code can report (log-probabilities are clamped to 1e-12 first, so   *)
(* none is zero), and sums are exact.  What the rounding of a float sum    *)
(* adds is the subject of module ConsensusOrder.                           *)
(***************************************************************************)
EXTENDS Integers, FiniteSets, FiniteSetsExt, Functions

\* The reporters that committed something at position pos.
Proposers(commits, pos) == {n \in DOMAIN commits : pos \in DOMAIN commits[n]}

\* The distinct tokens proposed at position pos.
Proposals(commits, pos) == {commits[n][pos] : n \in Proposers(commits, pos)}

\* The positions anyone committed.
ProposedPositions(commits) == UNION {DOMAIN commits[n] : n \in DOMAIN commits}

\* A position counts as disputed only when three tokens were proposed for it.
detect_disputes_off_by_one(commits) ==
  [pos \in {p \in ProposedPositions(commits) :
              Cardinality(Proposals(commits, p)) > 2} |-> Proposals(commits, pos)]

\* {position: distinct tokens proposed}, for the positions with more than one.
detect_disputes(commits) ==
  [pos \in {p \in ProposedPositions(commits) :
              Cardinality(Proposals(commits, p)) > 1} |-> Proposals(commits, pos)]

-----------------------------------------------------------------------------

\* The reporters that scored candidate tok at position pos.
Scorers(scores, pos, tok) ==
  {n \in DOMAIN scores : pos \in DOMAIN scores[n] /\ tok \in DOMAIN scores[n][pos]}

\* The candidates anyone scored at position pos.
Candidates(scores, pos) ==
  UNION {DOMAIN scores[n][pos] : n \in {m \in DOMAIN scores : pos \in DOMAIN scores[m]}}

\* The aggregate of a candidate: the sum of the probabilities reported for it.
Total(scores, pos, tok) ==
  SumFunction([n \in Scorers(scores, pos, tok) |-> scores[n][pos][tok]])

\* a beats b: a higher total, or the same total and the lower token id.
Beats(scores, pos, a, b) ==
  \/ Total(scores, pos, a) > Total(scores, pos, b)
  \/ Total(scores, pos, a) = Total(scores, pos, b) /\ a < b

\* {position: winning token}, for every position some reporter scored.
resolve_disputes(scores) ==
  [pos \in UNION {DOMAIN scores[n] : n \in DOMAIN scores} |->
     CHOOSE tok \in Candidates(scores, pos) :
       \A other \in Candidates(scores, pos) \ {tok} : Beats(scores, pos, tok, other)]

-----------------------------------------------------------------------------

\* The shared state after one sync: disputed positions take the resolved
\* token, the other proposed positions their single proposal, the rest stay.
merge_consensus(shared_x, commits, resolved) ==
  [pos \in DOMAIN shared_x \cup ProposedPositions(commits) |->
     CASE pos \notin ProposedPositions(commits) -> shared_x[pos]
       [] pos \in ProposedPositions(commits) /\ pos \in DOMAIN resolved -> resolved[pos]
       [] OTHER -> CHOOSE tok \in Proposals(commits, pos) : TRUE]
=============================================================================
