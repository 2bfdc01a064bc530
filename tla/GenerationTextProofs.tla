----------------------- MODULE GenerationTextProofs -----------------------
(***************************************************************************)
(* Theorems about the text of a round, for any participants and lengths,   *)
(* any number of steps and any sync interval: it is one replicated text,   *)
(* its tokens are ones somebody published, a node that finishes has one    *)
(* everywhere before the boundary, and while there is no boundary nobody   *)
(* touches a position outside the block it works on.                       *)
(***************************************************************************)
EXTENDS GenerationProofs

-----------------------------------------------------------------------------
(* Generation implements ReplicatedText: a sync left with everybody's      *)
(* reports is an Advance, one left without is a Stray, phase 1 given up    *)
(* with disputes strays without moving, and all other steps are invisible. *)

\* strayed and stop, of the refinement mapping.
Strayed == {n \in Nodes : ~full[n]}
Stops   == [n \in Nodes |-> det[n].stop]

LEMMA InitImplements == Init => Text!Init
  BY DEF Init, Text!Init, NewDetector

\* Leaving a sync, with whatever reports, is a Leave: merge_consensus loses no
\* position and check never withdraws or raises the boundary.
LEMMA FinishLeaves ==
  ASSUME TypeOK, NEW n \in Nodes, NEW all, NEW res, FinishSync(n, all, res)
  PROVE  Text!Leave(n)
<1>1. PICK x, d : shared' = [shared EXCEPT ![n] = x] /\ det' = [det EXCEPT ![n] = d]
                  /\ seq' = [seq EXCEPT ![n] = @ + 1]
  BY DEF FinishSync
<1>2. shared'[n] = merge_consensus(shared[n], all, res) /\ det'[n] = Check(det[n], shared'[n])
  BY FinishFacts
<1>3. shared' = [shared EXCEPT ![n] = shared'[n]]
  BY <1>1 DEF TypeOK
<1>4. DOMAIN shared[n] \subseteq DOMAIN shared'[n]
  BY <1>2 DEF merge_consensus
<1>5. det[n] \in Detectors
  BY DEF TypeOK
<1>6. det[n].stop # NoPos => det'[n].stop # NoPos /\ det'[n].stop <= det[n].stop
  BY <1>2, <1>5, CheckLowers
<1>7. Stops' = [Stops EXCEPT ![n] = Stops'[n]]
  BY <1>1 DEF Stops, TypeOK
<1>8. Stops[n] = det[n].stop /\ Stops'[n] = det'[n].stop
  BY DEF Stops
<1>. QED  BY <1>1, <1>3, <1>4, <1>6, <1>7, <1>8 DEF Text!Leave, Stops

\* A sync left by a node that has missed nothing, then or before.
LEMMA FullFinishAdvances ==
  ASSUME IInv, NEW n \in Nodes, NEW all, NEW res, FinishSync(n, all, res), full[n],
         AllReported(seq[n]), UNCHANGED full,
         merge_consensus(shared[n], all, res) = Merged(shared[n], seq[n])
  PROVE  Text!Advance(n)
<1>1. TypeOK /\ SentInOrder /\ Ahead
  BY DEF IInv
<1>2. Text!Leave(n)
  BY <1>1, FinishLeaves
<1>3. ASSUME NEW m \in Nodes PROVE seq[n] <= seq[m]
  <2>1. PICK x \in sent : IsReport(x, "COMMIT", m, seq[n])
    BY DEF AllReported, Reported
  <2>. QED  BY <1>1, <2>1 DEF SentInOrder, IsReport, Reports
<1>4. shared'[n] = Merged(shared[n], seq[n]) /\ det'[n] = Check(det[n], shared'[n])
  BY <1>1, FinishFacts
<1>5. ASSUME NEW m \in Nodes \ Strayed, seq[m] = seq[n] + 1
      PROVE  shared'[n] = shared[m] /\ Stops'[n] = Stops[m]
  <2>1. shared[m] = Merged(shared[n], seq[n]) /\ det[m] = Check(det[n], shared[m])
    BY <1>1, <1>5 DEF Ahead, Strayed
  <2>. QED  BY <1>4, <2>1 DEF Stops
<1>6. n \notin Strayed /\ UNCHANGED Strayed
  BY DEF Strayed
<1>. QED  BY <1>2, <1>3, <1>5, <1>6 DEF Text!Advance, Strayed, Stops

\* A sync left by a node that misses a report, or has missed one before.
LEMMA PartialFinishStrays ==
  ASSUME TypeOK, NEW n \in Nodes, NEW all, NEW res, FinishSync(n, all, res), ~full'[n],
         \A m \in Nodes \ {n} : full'[m] = full[m]
  PROVE  Text!Stray(n)
<1>1. Strayed' = Strayed \cup {n}
  BY DEF Strayed
<1>. QED  BY <1>1, FinishLeaves DEF Text!Stray, Strayed

LEMMA StepImplements == IInv /\ [Next]_vars => [Text!Next]_(Text!vars)
<1>. SUFFICES ASSUME IInv, [Next]_vars PROVE [Text!Next]_(Text!vars)
  OBVIOUS
<1>0. TypeOK /\ OneReport /\ OwnReport /\ ReceivedWanted /\ CommitsCollected
  BY DEF IInv
<1>1. ASSUME UNCHANGED <<seq, shared, det, full>> PROVE UNCHANGED Text!vars
  BY <1>1 DEF Text!vars
<1>2. CASE StartRound
  BY <1>1, <1>2 DEF StartRound, local
<1>3. ASSUME NEW n \in Nodes, WaitForRound(n) \/ Poll(n) \/ LeaderTimeout(n)
                             \/ LocalStep(n) \/ LocalStepThenSync(n) \/ Crash(n)
                             \/ CollectCommits(n) \/ CollectScores(n)
      PROVE  UNCHANGED Text!vars
  BY <1>1, <1>3 DEF WaitForRound, Poll, LeaderTimeout, LocalStep, LocalStepThenSync, Crash,
                    CollectCommits, CollectScores, Collect, local
<1>4. ASSUME NEW n \in Nodes, EndCommitsDisputed(n) PROVE [Text!Next]_(Text!vars)
  <2>1. UNCHANGED <<seq, shared, det>> /\ \A m \in Nodes \ {n} : full'[m] = full[m]
    BY <1>0, <1>4 DEF EndCommitsDisputed, local, TypeOK
  <2>2. full' = [full EXCEPT ![n] = full[n] /\ Missing(n) = {}]
    BY <1>4 DEF EndCommitsDisputed
  <2>3. CASE full'[n] = full[n]
    <3>1. full' = full
      BY <1>0, <2>2, <2>3 DEF TypeOK
    <3>. QED  BY <1>1, <2>1, <3>1
  <2>4. CASE full'[n] # full[n]
    <3>1. ~full'[n]
      BY <1>0, <2>2, <2>4 DEF TypeOK
    <3>2. Strayed' = Strayed \cup {n} /\ UNCHANGED <<seq, shared, Stops>>
      BY <2>1, <3>1 DEF Strayed, Stops
    <3>. QED  BY <3>2 DEF Text!Next, Text!Stray, Strayed, Stops
  <2>. QED  BY <2>3, <2>4
<1>5. ASSUME NEW n \in Nodes, NEW all, NEW res, FinishSync(n, all, res),
             full' = [full EXCEPT ![n] = full[n] /\ Missing(n) = {}],
             full[n] /\ Missing(n) = {} =>
               /\ AllReported(seq[n])
               /\ merge_consensus(shared[n], all, res) = Merged(shared[n], seq[n])
      PROVE  Text!Next
  <2>1. CASE full[n] /\ Missing(n) = {}
    <3>1. full' = full
      BY <1>0, <1>5, <2>1 DEF TypeOK
    <3>. QED  BY <1>5, <2>1, <3>1, FullFinishAdvances DEF Text!Next
  <2>2. CASE ~(full[n] /\ Missing(n) = {})
    <3>1. ~full'[n] /\ \A m \in Nodes \ {n} : full'[m] = full[m]
      BY <1>0, <1>5, <2>2 DEF TypeOK
    <3>. QED  BY <1>0, <1>5, <3>1, PartialFinishStrays DEF Text!Next
  <2>. QED  BY <2>1, <2>2
<1>6. ASSUME NEW n \in Nodes, EndCommitsAgreed(n) PROVE Text!Next
  <2>1. /\ pc[n] = "commits" /\ FinishSync(n, AllCommits(n), NoEntries)
        /\ DOMAIN detect_disputes(AllCommits(n)) = {}
        /\ full' = [full EXCEPT ![n] = full[n] /\ Missing(n) = {}]
    BY <1>6 DEF EndCommitsAgreed
  <2>. QED  BY <1>0, <1>5, <2>1, AgreedMerges
<1>7. ASSUME NEW n \in Nodes, EndScores(n) PROVE Text!Next
  <2>1. /\ pc[n] = "scores" /\ FinishSync(n, commits[n], resolve_disputes(AllScores(n)))
        /\ full' = [full EXCEPT ![n] = full[n] /\ Missing(n) = {}]
    BY <1>7 DEF EndScores
  <2>. QED  BY <1>0, <1>5, <2>1, ScoredMerges
<1>8. CASE UNCHANGED vars
  BY <1>1, <1>8 DEF vars, local
<1>. QED  BY <1>2, <1>3, <1>4, <1>6, <1>7, <1>8 DEF Next, Proceed

\* A round is one replicated text: whatever is lost, late or repeated and whoever
\* crashes, nodes that never gave up waiting go through the same texts and stop
\* boundaries, and no node's text loses a position or reopens its frozen tail.
THEOREM RoundImplementsText == Spec => ImplementsText
  BY InitImplements, InvariantInit, InvariantStep, StepImplements, PTL
     DEF Spec, ImplementsText, Text!Spec

-----------------------------------------------------------------------------
(* Where the tokens of a text come from. *)

LEMMA PublishedStays ==
  ASSUME sent \subseteq sent', NEW q, NEW t, NEW k, Published(q, t, k)
  PROVE  Published(q, t, k)'
  BY DEF Published

\* Whatever order the totals are summed in, a disputed position goes to one of
\* the tokens scored for it: there is a best one, so CHOOSE finds it.
LEMMA ResolvedIsCandidate ==
  ASSUME NEW sc, IsFiniteSet(DOMAIN sc),
         \A o \in DOMAIN sc : \A q \in DOMAIN sc[o] :
           /\ DOMAIN sc[o][q] \in SUBSET Nat /\ DOMAIN sc[o][q] # {}
           /\ IsFiniteSet(DOMAIN sc[o][q])
           /\ \A t \in DOMAIN sc[o][q] : sc[o][q][t] \in Nat,
         NEW pos \in UNION {DOMAIN sc[o] : o \in DOMAIN sc}
  PROVE  resolve_disputes(sc)[pos] \in Candidates(sc, pos)
<1>. DEFINE C == Candidates(sc, pos)
            O == {o \in DOMAIN sc : pos \in DOMAIN sc[o]}
            f == [t \in C |-> Total(sc, pos, t)]
            Wins(t) == \A u \in C \ {t} : Beats(sc, pos, t, u)
<1>1. C = UNION {DOMAIN sc[o][pos] : o \in O}
  BY DEF Candidates
<1>2. IsFiniteSet(O) /\ O # {}
  BY FS_Subset
<1>3. C \in SUBSET Nat /\ C # {}
  <2>1. \A t \in C : t \in Nat
    BY <1>1
  <2>2. C # {}
    BY <1>1, <1>2
  <2>. HIDE DEF C
  <2>. QED  BY <2>1, <2>2
<1>4. IsFiniteSet(C)
  <2>. DEFINE D == [o \in O |-> DOMAIN sc[o][pos]]
              R == {DOMAIN sc[o][pos] : o \in O}
  <2>1. D \in Surjection(O, R)
    BY DEF Surjection
  <2>2. \A T \in R : IsFiniteSet(T)
    OBVIOUS
  <2>3. C = UNION R
    BY <1>1
  <2>. HIDE DEF D, R, O, C
  <2>4. IsFiniteSet(R)
    BY <1>2, <2>1, FS_Surjection
  <2>. QED  BY <2>2, <2>3, <2>4, FS_UNION
<1>5. ASSUME NEW t PROVE Total(sc, pos, t) \in Nat
  <2>. DEFINE S == Scorers(sc, pos, t)
              g == [n \in S |-> sc[n][pos][t]]
  <2>1. S \in SUBSET DOMAIN sc /\ \A n \in S : g[n] \in Nat
    BY DEF Scorers
  <2>2. Total(sc, pos, t) = SumFunctionOnSet(g, S)
    BY DEF Total, SumFunction
  <2>. HIDE DEF S, g
  <2>3. IsFiniteSet(S)
    BY <2>1, FS_Subset
  <2>. QED  BY <2>1, <2>2, <2>3, SumNat
<1>6. f \in [C -> Nat]
  BY <1>5
<1>7. \E t \in C : Wins(t)
  <2>1. \E t \in C : \A u \in C \ {t} : f[t] > f[u] \/ (f[t] = f[u] /\ t < u)
    <3>. HIDE DEF C, f
    <3>. QED  BY <1>3, <1>4, <1>6, LexBest
  <2>. HIDE DEF C
  <2>. QED  BY <2>1 DEF Beats
<1>8. resolve_disputes(sc)[pos] = CHOOSE t \in C : Wins(t)
  BY DEF resolve_disputes
<1>. HIDE DEF C, Wins
<1>9. resolve_disputes(sc)[pos] \in C
  BY <1>7, <1>8
<1>. QED  BY <1>9 DEF C

\* What a merge adds to a text comes from the commits or from the resolution.
LEMMA MergedFrom ==
  ASSUME NEW x, NEW all, NEW res, NEW k, AllPublished(all, k),
         \A q \in DOMAIN res \cap ProposedPositions(all) : Published(q, res[q], k),
         NEW q \in DOMAIN merge_consensus(x, all, res)
  PROVE  \/ q \in DOMAIN x /\ merge_consensus(x, all, res)[q] = x[q]
         \/ Published(q, merge_consensus(x, all, res)[q], k)
<1>1. q \in DOMAIN x \cup ProposedPositions(all)
  BY DEF merge_consensus
<1>2. CASE q \notin ProposedPositions(all)
  BY <1>1, <1>2 DEF merge_consensus
<1>3. CASE q \in ProposedPositions(all) /\ q \in DOMAIN res
  <2>1. merge_consensus(x, all, res)[q] = res[q]
    BY <1>3 DEF merge_consensus
  <2>. QED  BY <1>3, <2>1
<1>4. CASE q \in ProposedPositions(all) /\ q \notin DOMAIN res
  <2>1. merge_consensus(x, all, res)[q] = CHOOSE tok \in Proposals(all, q) : TRUE
    BY <1>4 DEF merge_consensus
  <2>2. Proposals(all, q) # {}
    BY <1>4 DEF Proposals, Proposers, ProposedPositions
  <2>3. \A tok \in Proposals(all, q) : Published(q, tok, k)
    BY DEF Proposals, Proposers, AllPublished
  <2>. QED  BY <2>1, <2>2, <2>3
<1>. QED  BY <1>1, <1>2, <1>3, <1>4

\* The commits of a barrier were published for its sync.
LEMMA CollectedPublished ==
  ASSUME TypeOK, OwnReport, ReceivedWanted, NEW n \in Nodes, pc[n] = "commits"
  PROVE  AllPublished(AllCommits(n), seq[n])
<1>1. DOMAIN AllCommits(n) = {n} \cup Senders(received[n])
  BY DEF AllCommits
<1>2. ASSUME NEW o \in {n} \cup Senders(received[n])
      PROVE  \E m \in sent : m.type = "COMMIT" /\ m.seq = seq[n] /\ m.commits = AllCommits(n)[o]
  <2>1. CASE o = n
    <3>1. AllCommits(n)[o] = pending[n]
      BY <2>1 DEF AllCommits
    <3>. QED  BY <3>1 DEF OwnReport, IsReport
  <2>2. CASE o # n
    <3>1. \E m \in received[n] : m.from = o
      BY <1>2, <2>2 DEF Senders
    <3>2. PICK m \in received[n] : m = CHOOSE y \in received[n] : y.from = o
      BY <3>1
    <3>3. m \in sent /\ m.type = "COMMIT" /\ m.seq = seq[n]
      BY DEF TypeOK, ReceivedWanted, IsReport
    <3>4. AllCommits(n)[o] = m.commits
      BY <2>2, <3>2 DEF AllCommits
    <3>. QED  BY <3>3, <3>4
  <2>. QED  BY <2>1, <2>2
<1>. QED  BY <1>1, <1>2 DEF AllPublished, Published

\* What a node resolves in phase 2 was published for its sync, also where the
\* scores are about commits that never reached it.
LEMMA ResolvedPublished ==
  ASSUME TypeOK, OwnReport, ReceivedWanted, Traced, NEW n \in Nodes, pc[n] = "scores",
         NEW q \in DOMAIN resolve_disputes(AllScores(n))
  PROVE  Published(q, resolve_disputes(AllScores(n))[q], seq[n])
<1>. DEFINE sc == AllScores(n)
<1>1. DOMAIN sc = {n} \cup Senders(received[n])
  BY DEF AllScores
<1>2. ASSUME NEW o \in DOMAIN sc
      PROVE  \E m \in sent : m.type = "DISPUTE_SCORE" /\ m.seq = seq[n] /\ m.scores = sc[o]
  <2>1. CASE o = n
    <3>1. sc[o] = scores[n]
      BY <2>1 DEF AllScores
    <3>. QED  BY <3>1 DEF OwnReport, IsReport
  <2>2. CASE o # n
    <3>1. \E m \in received[n] : m.from = o
      BY <1>1, <1>2, <2>2 DEF Senders
    <3>2. PICK m \in received[n] : m = CHOOSE y \in received[n] : y.from = o
      BY <3>1
    <3>3. m \in sent /\ m.type = "DISPUTE_SCORE" /\ m.seq = seq[n]
      BY DEF TypeOK, ReceivedWanted, IsReport
    <3>4. sc[o] = m.scores
      BY <1>1, <1>2, <2>2, <3>2 DEF AllScores
    <3>. QED  BY <3>3, <3>4
  <2>. QED  BY <2>1, <2>2
<1>3. IsFiniteSet(DOMAIN sc)
  <2>1. DOMAIN sc \in SUBSET Nodes
    BY <1>1 DEF Senders, ReceivedWanted, Others
  <2>. QED  BY <2>1, GenerationConstants, FS_Subset
<1>. HIDE DEF sc
<1>4. ASSUME NEW o \in DOMAIN sc, NEW p \in DOMAIN sc[o]
      PROVE  /\ DOMAIN sc[o][p] \in SUBSET Nat /\ DOMAIN sc[o][p] # {}
             /\ IsFiniteSet(DOMAIN sc[o][p])
             /\ \A t \in DOMAIN sc[o][p] : sc[o][p][t] \in Nat /\ Published(p, t, seq[n])
  <2>1. PICK m \in sent : m.type = "DISPUTE_SCORE" /\ m.seq = seq[n] /\ m.scores = sc[o]
    BY <1>2
  <2>2. m.scores \in Partial(AllPos, Partial(Tokens, Levels))
    BY <2>1 DEF TypeOK, Message
  <2>3. sc[o] \in [DOMAIN sc[o] -> Partial(Tokens, Levels)]
    BY <2>1, <2>2, PartialIff
  <2>4. sc[o][p] \in Partial(Tokens, Levels)
    BY <2>3
  <2>5. sc[o][p] \in [DOMAIN sc[o][p] -> Levels] /\ DOMAIN sc[o][p] \subseteq Tokens
    BY <2>4, PartialIff
  <2>6. \A t \in DOMAIN sc[o][p] : t \in Nat /\ sc[o][p][t] \in Nat
    BY <2>5, GenerationConstants
  <2>. QED  BY <2>1, <2>6 DEF Traced
<1>5. q \in UNION {DOMAIN sc[o] : o \in DOMAIN sc}
  BY DEF resolve_disputes, sc
<1>6. resolve_disputes(sc)[q] \in Candidates(sc, q)
  BY <1>3, <1>4, <1>5, ResolvedIsCandidate
<1>7. PICK o \in DOMAIN sc : q \in DOMAIN sc[o] /\ resolve_disputes(sc)[q] \in DOMAIN sc[o][q]
  BY <1>6 DEF Candidates
<1>. QED  BY <1>4, <1>7 DEF sc

\* A sync that is left with published commits and resolutions keeps the text traced.
LEMMA FinishTraced ==
  ASSUME TypeOK, Traced, NoInventedToken, NEW n \in Nodes, NEW all, NEW res,
         FinishSync(n, all, res), AllPublished(all, seq[n]),
         \A q \in DOMAIN res \cap ProposedPositions(all) : Published(q, res[q], seq[n]),
         \A m \in Nodes \ {n} : commits'[m] = commits[m]
  PROVE  Traced' /\ NoInventedToken'
<1>1. /\ pc'[n] # "scores" /\ \A m \in Nodes \ {n} : pc'[m] = pc[m] /\ seq'[m] = seq[m]
      /\ seq'[n] = seq[n] + 1 /\ seq[n] \in Nat
      /\ sent \subseteq sent' /\ \A x \in sent' \ sent : x.type = "GEN_DONE"
      /\ shared'[n] = merge_consensus(shared[n], all, res)
      /\ \A m \in Nodes \ {n} : shared'[m] = shared[m]
  BY FinishFacts DEF TypeOK
<1>2. Traced'
  BY <1>1, PublishedStays DEF Traced, AllPublished
<1>3. ASSUME NEW m \in Nodes, NEW q \in DOMAIN shared'[m]
      PROVE  \/ q \in DOMAIN Prompt /\ shared'[m][q] = Prompt[q]
             \/ \E x \in sent' : /\ x.type = "COMMIT" /\ x.seq < seq'[m]
                                 /\ q \in DOMAIN x.commits /\ x.commits[q] = shared'[m][q]
  <2>1. CASE q \in DOMAIN shared[m] /\ shared'[m][q] = shared[m][q]
    <3>1. CASE q \in DOMAIN Prompt /\ shared[m][q] = Prompt[q]
      BY <2>1, <3>1
    <3>2. CASE \E x \in sent : /\ x.type = "COMMIT" /\ x.seq < seq[m]
                               /\ q \in DOMAIN x.commits /\ x.commits[q] = shared[m][q]
      <4>1. PICK x \in sent : /\ x.type = "COMMIT" /\ x.seq < seq[m]
                              /\ q \in DOMAIN x.commits /\ x.commits[q] = shared[m][q]
        BY <3>2
      <4>2. x.seq \in Nat /\ seq[m] \in Nat
        BY <4>1 DEF TypeOK, Message
      <4>3. x.seq < seq'[m]
        BY <1>1, <4>1, <4>2
      <4>. QED  BY <1>1, <2>1, <4>1, <4>3
    <3>. QED  BY <2>1, <3>1, <3>2 DEF NoInventedToken
  <2>2. CASE m = n /\ Published(q, shared'[n][q], seq[n])
    BY <1>1, <2>2 DEF Published
  <2>3. m = n => \/ q \in DOMAIN shared[n] /\ shared'[n][q] = shared[n][q]
                 \/ Published(q, shared'[n][q], seq[n])
    BY <1>1, <1>3, MergedFrom
  <2>. QED  BY <1>1, <2>1, <2>2, <2>3
<1>. QED  BY <1>2, <1>3 DEF NoInventedToken

LEMMA TracedStep ==
  ASSUME IInv, Traced, NoInventedToken, [Next]_vars
  PROVE  Traced' /\ NoInventedToken'
<1>0. TypeOK /\ OwnReport /\ ReceivedWanted
  BY DEF IInv
<1>1. ASSUME UNCHANGED <<seq, shared, commits>>, sent \subseteq sent',
             \A x \in sent' \ sent : x.type # "DISPUTE_SCORE",
             \A n \in Nodes : pc'[n] = "scores" => pc[n] = "scores"
      PROVE  Traced' /\ NoInventedToken'
  <2>1. Traced'
    BY <1>1, PublishedStays DEF Traced, AllPublished
  <2>2. NoInventedToken'
    BY <1>1 DEF NoInventedToken
  <2>. QED  BY <2>1, <2>2
<1>2. CASE StartRound
  <2>1. \A n \in Nodes : pc'[n] = "scores" => pc[n] = "scores"
    BY <1>0, <1>2 DEF StartRound, TypeOK
  <2>. QED  BY <1>1, <1>2, <2>1 DEF StartRound, local
<1>3. ASSUME NEW n \in Nodes, WaitForRound(n) \/ Poll(n) \/ LeaderTimeout(n)
                             \/ LocalStep(n) \/ LocalStepThenSync(n) \/ Crash(n)
                             \/ CollectCommits(n) \/ CollectScores(n)
      PROVE  Traced' /\ NoInventedToken'
  <2>1. \A m \in Nodes : pc'[m] = "scores" => pc[m] = "scores"
    BY <1>0, <1>3 DEF WaitForRound, Poll, LeaderTimeout, LocalStep, LocalStepThenSync, Crash,
                      CollectCommits, CollectScores, Collect, TypeOK
  <2>2. UNCHANGED <<seq, shared, commits>>
    BY <1>3 DEF WaitForRound, Poll, LeaderTimeout, LocalStep, LocalStepThenSync, Crash,
                CollectCommits, CollectScores, Collect, local
  <2>3. sent \subseteq sent' /\ \A x \in sent' \ sent : x.type # "DISPUTE_SCORE"
    BY <1>3 DEF WaitForRound, Poll, LeaderTimeout, LocalStep, LocalStepThenSync, Crash,
                CollectCommits, CollectScores, Collect
  <2>. QED  BY <1>1, <2>1, <2>2, <2>3
<1>4. ASSUME NEW n \in Nodes, EndCommitsDisputed(n) PROVE Traced' /\ NoInventedToken'
  <2>1. /\ UNCHANGED <<seq, shared>> /\ commits'[n] = AllCommits(n)
        /\ \A m \in Nodes \ {n} : pc'[m] = pc[m] /\ commits'[m] = commits[m]
    BY <1>0, <1>4 DEF EndCommitsDisputed, local, TypeOK
  <2>2. PICK s \in ScoresFor(detect_disputes(AllCommits(n))) :
          sent' = sent \cup {[type |-> "DISPUTE_SCORE", from |-> n, seq |-> seq[n], scores |-> s]}
    BY <1>4 DEF EndCommitsDisputed
  <2>3. sent \subseteq sent'
    BY <2>2
  <2>4. AllPublished(AllCommits(n), seq[n])
    BY <1>0, <1>4, CollectedPublished DEF EndCommitsDisputed
  <2>5. ASSUME NEW q \in DOMAIN s
        PROVE  /\ DOMAIN s[q] # {} /\ IsFiniteSet(DOMAIN s[q])
               /\ \A t \in DOMAIN s[q] : Published(q, t, seq[n])
    <3>1. /\ DOMAIN s[q] = Proposals(AllCommits(n), q)
          /\ q \in ProposedPositions(AllCommits(n))
      BY DEF ScoresFor, detect_disputes
    <3>2. Proposals(AllCommits(n), q) # {}
      BY <3>1 DEF Proposals, Proposers, ProposedPositions
    <3>3. \A t \in Proposals(AllCommits(n), q) : Published(q, t, seq[n])
      BY <2>4 DEF Proposals, Proposers, AllPublished
    <3>4. IsFiniteSet(Proposals(AllCommits(n), q))
      <4>. DEFINE O == Proposers(AllCommits(n), q)
                  D == [o \in O |-> AllCommits(n)[o][q]]
      <4>1. O \in SUBSET Nodes
        BY <1>0, <1>4 DEF Proposers, AllCommits, Senders, ReceivedWanted, Others, EndCommitsDisputed
      <4>2. D \in Surjection(O, Proposals(AllCommits(n), q))
        BY DEF Surjection, Proposals
      <4>. HIDE DEF O, D
      <4>3. IsFiniteSet(O)
        BY <4>1, GenerationConstants, FS_Subset
      <4>. QED  BY <4>2, <4>3, FS_Surjection
    <3>. QED  BY <3>1, <3>2, <3>3, <3>4
  <2>6. Traced'
    <3>1. ASSUME NEW m \in Nodes, pc'[m] = "scores"
          PROVE  AllPublished(commits[m], seq[m])'
      <4>1. AllPublished(commits'[m], seq'[m])
        BY <2>1, <2>4, <3>1 DEF Traced
      <4>. QED  BY <2>3, <4>1, PublishedStays DEF AllPublished
    <3>2. ASSUME NEW m \in sent', m.type = "DISPUTE_SCORE", NEW q \in DOMAIN m.scores
          PROVE  /\ DOMAIN m.scores[q] # {} /\ IsFiniteSet(DOMAIN m.scores[q])
                 /\ \A t \in DOMAIN m.scores[q] : Published(q, t, m.seq)
      <4>1. CASE m \in sent
        BY <3>2, <4>1 DEF Traced
      <4>2. CASE m \notin sent
        <5>1. m.scores = s /\ m.seq = seq[n]
          BY <2>2, <4>2
        <5>. QED  BY <2>5, <3>2, <5>1
      <4>. QED  BY <4>1, <4>2
    <3>. QED  BY <2>3, <3>1, <3>2, PublishedStays DEF Traced
  <2>7. NoInventedToken'
    BY <2>1, <2>3 DEF NoInventedToken
  <2>. QED  BY <2>6, <2>7
<1>5. ASSUME NEW n \in Nodes, EndCommitsAgreed(n) PROVE Traced' /\ NoInventedToken'
  <2>1. pc[n] = "commits" /\ FinishSync(n, AllCommits(n), NoEntries) /\ commits' = commits
    BY <1>5 DEF EndCommitsAgreed
  <2>2. DOMAIN NoEntries = {}
    BY DEF NoEntries
  <2>. QED  BY <1>0, <2>1, <2>2, CollectedPublished, FinishTraced
<1>6. ASSUME NEW n \in Nodes, EndScores(n) PROVE Traced' /\ NoInventedToken'
  <2>1. /\ pc[n] = "scores" /\ FinishSync(n, commits[n], resolve_disputes(AllScores(n)))
        /\ \A m \in Nodes \ {n} : commits'[m] = commits[m]
    BY <1>0, <1>6 DEF EndScores, TypeOK
  <2>2. AllPublished(commits[n], seq[n])
    BY <2>1 DEF Traced
  <2>3. \A q \in DOMAIN resolve_disputes(AllScores(n)) :
          Published(q, resolve_disputes(AllScores(n))[q], seq[n])
    BY <1>0, <2>1, ResolvedPublished
  <2>. QED  BY <1>0, <2>1, <2>2, <2>3, FinishTraced
<1>7. CASE UNCHANGED vars
  BY <1>1, <1>7 DEF vars, local
<1>. QED  BY <1>2, <1>3, <1>4, <1>5, <1>6, <1>7 DEF Next, Proceed

\* Every token of a text is the prompt's or was published for that position in
\* a sync the node has been through, whatever was lost, late or given up.
THEOREM TokensArePublished == Spec => []NoInventedToken
<1>. DEFINE J == Traced /\ NoInventedToken
<1>1. Init => J
  BY DEF Init, Traced, NoInventedToken
<1>2. IInv /\ J /\ [Next]_vars => J'
  BY TracedStep
<1>3. J => NoInventedToken
  OBVIOUS
<1>. HIDE DEF J
<1>. QED  BY <1>1, <1>2, <1>3, InvariantInit, InvariantStep, PTL DEF Spec

-----------------------------------------------------------------------------
(* Arithmetic of the transfer count and of the sync schedule. *)

\* The transfer count of a step: never more than what is left to transfer, and
\* all of it in the last step.
LEMMA ShareBound ==
  ASSUME NEW r \in Nat, NEW left \in Nat \ {0}
  PROVE  /\ (r + left - 1) \div left \in Nat
         /\ (r + left - 1) \div left <= r
         /\ left = 1 => (r + left - 1) \div left = r
<1>. DEFINE k == (r + left - 1) \div left
<1>1. k \in Nat /\ k * left <= r + left - 1
  BY SMT
<1>2. left = 1 => k = r
  BY SMT
<1>. HIDE DEF k
<1>3. k <= r
  <2>. SUFFICES ASSUME k >= r + 1 PROVE FALSE
    BY <1>1
  <2>1. k * left >= (r + 1) * left
    BY <1>1, SMT
  <2>2. (r + 1) * left = r * left + left /\ r * left >= r /\ r * left \in Nat
    BY SMT
  <2>. QED  BY <1>1, <2>1, <2>2
<1>. QED  BY <1>1, <1>2, <1>3 DEF k

\* The quotient by the sync interval moves on exactly at a multiple of it.
LEMMA NextQuotient ==
  ASSUME NEW s \in Nat, NEW e \in Nat \ {0}
  PROVE  (s + 1) \div e = IF (s + 1) % e = 0 THEN (s \div e) + 1 ELSE s \div e
<1>. DEFINE a == s \div e
            c == s % e
<1>1. a \in Nat /\ c \in 0 .. e - 1 /\ s = e * a + c
  BY SMT
<1>. HIDE DEF a, c
<1>2. CASE c + 1 < e
  <2>1. (s + 1) \div e = a /\ (s + 1) % e = c + 1
    BY <1>1, <1>2, SMT
  <2>. QED  BY <1>1, <2>1 DEF a
<1>3. CASE c + 1 = e
  <2>1. s + 1 = e * (a + 1)
    BY <1>1, <1>3, SMT
  <2>2. (s + 1) \div e = a + 1 /\ (s + 1) % e = 0
    BY <1>1, <2>1, SMT
  <2>. QED  BY <1>1, <2>2 DEF a
<1>. QED  BY <1>1, <1>2, <1>3

\* A smaller number has no larger quotient.
LEMMA QuotientMonotone ==
  ASSUME NEW s \in Nat, NEW t \in Nat, s <= t, NEW e \in Nat \ {0}
  PROVE  s \div e \in Nat /\ t \div e \in Nat /\ s \div e <= t \div e
  BY SMT

\* The quotient of b full rows and a rest shorter than a row.
LEMMA RowOf ==
  ASSUME NEW b \in Nat, NEW k \in Nat \ {0}, NEW r \in 0 .. k - 1
  PROVE  (b * k + r) \div k = b
  BY SMT

\* The schedule's numbers.
LEMMA SyncSizes ==
  /\ SyncsPerBlock \in Nat \ {0} /\ SyncEvery \in Nat \ {0}
  /\ \A s \in 0 .. StepsPerBlock - 1 : s \div SyncEvery \in 0 .. SyncsPerBlock - 1
<1>1. SyncEvery \in Nat \ {0} /\ StepsPerBlock - 1 \in Nat
  BY Sizes, GenerationConstants
<1>2. \A s \in 0 .. StepsPerBlock - 1 :
        /\ s \div SyncEvery \in Nat /\ (StepsPerBlock - 1) \div SyncEvery \in Nat
        /\ s \div SyncEvery <= (StepsPerBlock - 1) \div SyncEvery
  BY <1>1, QuotientMonotone
<1>3. (StepsPerBlock - 1) \div SyncEvery \in Nat
  BY <1>1, <1>2
<1>. QED  BY <1>1, <1>2, <1>3 DEF SyncsPerBlock

-----------------------------------------------------------------------------
(* What a denoising step and the end of a sync do to the positions. *)

\* The blocks follow one another from the start of the generated text.
LEMMA BlockBounds ==
  ASSUME NEW b \in Nat
  PROVE  /\ BlockStart(b) \in Nat /\ BlockStart(b + 1) \in Nat
         /\ GenStart <= BlockStart(b) /\ BlockStart(b) < BlockStart(b + 1)
         /\ BlockPos(b) = BlockStart(b) .. BlockStart(b + 1) - 1
<1>1. b * BlockLength \in Nat /\ (b + 1) * BlockLength = b * BlockLength + BlockLength
  BY GenerationConstants
<1>. QED  BY <1>1, StopConstants, GenerationConstants DEF BlockStart, BlockPos

\* local_step transfers, in the last step of a block, every open position of
\* it, re-masking none; and while nothing is frozen it transfers positions of
\* the block only, because the count is scoped to the block.
LEMMA TransferFacts ==
  ASSUME TypeOK, NEW n \in Nodes, NEW T \in TransferSets(n)
  PROVE  /\ T \subseteq AllPos
         /\ step[n] = StepsPerBlock - 1 => eligible(n) \subseteq T
         /\ det[n].stop = NoPos => T \subseteq BlockPos(block[n])
<1>. DEFINE R    == remaining(n)
            E    == eligible(n)
            left == StepsPerBlock - step[n]
            k    == transfer_count(n)
<1>1. T \subseteq AllPos /\ Cardinality(T) = k /\ (T \subseteq E \/ E \subseteq T)
  BY DEF TransferSets
<1>2. R \subseteq AllPos /\ E \subseteq R /\ R \subseteq BlockPos(block[n])
  BY Sizes DEF remaining, eligible, TypeOK
<1>3. IsFiniteSet(AllPos)
  BY FS_Interval, StopConstants DEF AllPos, GenEnd
<1>4. IsFiniteSet(T) /\ IsFiniteSet(R) /\ IsFiniteSet(E)
  BY <1>1, <1>2, <1>3, FS_Subset
<1>5. Cardinality(T) \in Nat /\ Cardinality(R) \in Nat /\ Cardinality(E) \in Nat
  BY <1>4, FS_CardinalityType
<1>6. left \in Nat \ {0} /\ (step[n] = StepsPerBlock - 1 => left = 1)
  BY Sizes DEF TypeOK
<1>7. k <= Cardinality(R) /\ (step[n] = StepsPerBlock - 1 => k = Cardinality(R))
  <2>1. k = (Cardinality(R) + left - 1) \div left
    BY DEF transfer_count
  <2>. HIDE DEF left, k, R
  <2>. QED  BY <1>5, <1>6, <2>1, ShareBound
<1>. HIDE DEF R, E, k, left
<1>8. ASSUME step[n] = StepsPerBlock - 1, T \subseteq E PROVE E \subseteq T
  <2>1. Cardinality(T) <= Cardinality(E) /\ Cardinality(E) <= Cardinality(R)
    BY <1>2, <1>4, <1>8, FS_Subset
  <2>2. Cardinality(E) = Cardinality(T)
    BY <1>1, <1>5, <1>7, <1>8, <2>1
  <2>. QED  BY <1>4, <1>8, <2>2, FS_Subset
<1>9. ASSUME det[n].stop = NoPos, E \subseteq T PROVE T \subseteq E
  <2>1. E = R
    BY <1>9 DEF E, R, eligible, Frozen
  <2>2. Cardinality(E) <= Cardinality(T)
    BY <1>4, <1>9, FS_Subset
  <2>3. Cardinality(T) = Cardinality(E)
    BY <1>1, <1>5, <1>7, <2>1, <2>2
  <2>. QED  BY <1>4, <1>9, <2>3, FS_Subset
<1>. QED  BY <1>1, <1>2, <1>8, <1>9 DEF E

\* What one local step does to the masked positions and the pending commits.
LEMMA DenoiseFacts ==
  ASSUME TypeOK, NEW n \in Nodes, Denoise(n)
  PROVE  /\ \A m \in Nodes \ {n} : masked'[m] = masked[m] /\ pending'[m] = pending[m]
         /\ masked[n] \ masked'[n] \subseteq DOMAIN pending'[n]
         /\ DOMAIN pending[n] \subseteq DOMAIN pending'[n]
         /\ step[n] = StepsPerBlock - 1 =>
              masked'[n] \cap BlockPos(block[n]) \subseteq Frozen(det[n])
         /\ det[n].stop = NoPos =>
              DOMAIN pending'[n] \subseteq DOMAIN pending[n] \cup BlockPos(block[n])
<1>0. PICK remask \in RemaskSets(n), transfer \in TransferSets(n) :
        \E x0 \in [transfer -> Tokens] :
          /\ masked' = [masked EXCEPT ![n] = (@ \cup remask) \ transfer]
          /\ pending' = [pending EXCEPT ![n] = Overridden(@, x0)]
  BY DEF Denoise
<1>1. PICK x0 \in [transfer -> Tokens] :
        /\ masked' = [masked EXCEPT ![n] = (@ \cup remask) \ transfer]
        /\ pending' = [pending EXCEPT ![n] = Overridden(@, x0)]
  BY <1>0
<1>2. /\ masked'[n] = (masked[n] \cup remask) \ transfer
      /\ \A m \in Nodes \ {n} : masked'[m] = masked[m] /\ pending'[m] = pending[m]
  BY <1>1 DEF TypeOK
<1>3. DOMAIN pending'[n] = DOMAIN pending[n] \cup transfer
  <2>1. pending'[n] = Overridden(pending[n], x0)
    BY <1>1 DEF TypeOK
  <2>. QED  BY <2>1 DEF Overridden
<1>4. step[n] = StepsPerBlock - 1 => remask = {}
  <2>. DEFINE S == {1, RemaskReserve}
  <2>1. S \subseteq Int /\ S # {} /\ 1 \in S
    BY GenerationConstants
  <2>2. IsFiniteSet(S)
    <3>1. IsFiniteSet({1} \cup {RemaskReserve})
      BY FS_Singleton, FS_AddElement
    <3>2. S = {1} \cup {RemaskReserve}
      OBVIOUS
    <3>. HIDE DEF S
    <3>. QED  BY <3>1, <3>2
  <2>3. ASSUME step[n] = StepsPerBlock - 1
        PROVE  ~(StepsPerBlock - step[n] > Max({1, RemaskReserve}))
    <3>. HIDE DEF S
    <3>1. Max(S) \in S /\ \A y \in S : y <= Max(S)
      BY <2>1, <2>2, MaxFinite
    <3>2. 1 <= Max(S) /\ Max(S) \in Int
      BY <2>1, <3>1
    <3>3. ~(StepsPerBlock - step[n] > Max(S))
      BY <2>3, <3>2, Sizes
    <3>. QED  BY <3>3 DEF S
  <2>. QED  BY <2>3 DEF RemaskSets
<1>5. /\ step[n] = StepsPerBlock - 1 => eligible(n) \subseteq transfer
      /\ det[n].stop = NoPos => transfer \subseteq BlockPos(block[n])
  BY TransferFacts
<1>. QED  BY <1>2, <1>3, <1>4, <1>5 DEF eligible, remaining

\* A boundary, once set, stays and only comes down: what is frozen stays frozen.
LEMMA FrozenStays ==
  ASSUME NEW d \in Detectors, NEW x
  PROVE  /\ Frozen(d) \subseteq Frozen(Check(d, x))
         /\ Check(d, x).stop = NoPos => d.stop = NoPos
<1>1. CASE d.stop = NoPos
  BY <1>1 DEF Frozen
<1>2. CASE d.stop # NoPos
  <2>1. Check(d, x).stop # NoPos /\ Check(d, x).stop <= d.stop
    BY <1>2, CheckLowers
  <2>2. d.stop \in Int /\ Check(d, x).stop \in Int
    BY CheckType DEF Detectors, NoPos
  <2>3. AllPos \subseteq Int
    BY Sizes
  <2>. DEFINE a == d.stop
              b == Check(d, x).stop
  <2>4. /\ Frozen(d) = {q \in AllPos : q >= a}
        /\ Frozen(Check(d, x)) = {q \in AllPos : q >= b}
    BY <1>2, <2>1 DEF Frozen
  <2>. HIDE DEF a, b
  <2>5. \A q \in AllPos : q >= a => q >= b
    BY <2>1, <2>2, <2>3 DEF a, b
  <2>. QED  BY <1>2, <2>1, <2>4, <2>5
<1>. QED  BY <1>1, <1>2

\* What the end of a sync does to the positions and to the place in the round.
LEMMA FinishPositions ==
  ASSUME TypeOK, NEW n \in Nodes, NEW all, NEW res, FinishSync(n, all, res)
  PROVE  /\ \A m \in Nodes \ {n} :
              /\ block'[m] = block[m] /\ step'[m] = step[m] /\ masked'[m] = masked[m]
              /\ pending'[m] = pending[m] /\ shared'[m] = shared[m] /\ det'[m] = det[m]
              /\ pc'[m] = pc[m] /\ seq'[m] = seq[m]
         /\ DOMAIN pending'[n] = {} /\ seq'[n] = seq[n] + 1
         /\ DOMAIN shared'[n] = DOMAIN shared[n] \cup ProposedPositions(all)
         /\ det'[n] = Check(det[n], shared'[n])
         /\ masked'[n] = masked[n] \ (DOMAIN shared'[n] \cap BlockPos(block[n]))
         /\ step[n] # StepsPerBlock - 1 =>
              pc'[n] = "poll" /\ step'[n] = step[n] + 1 /\ block'[n] = block[n]
         /\ step[n] = StepsPerBlock - 1 =>
              /\ step'[n] = 0
              /\ \/ pc'[n] = "poll" /\ block'[n] = block[n] + 1
                 \/ /\ pc'[n] = "done" /\ block'[n] = block[n]
                    /\ ~HasNextBlock(block[n], det'[n])
<1>. DEFINE shared_x == merge_consensus(shared[n], all, res)
            d        == Check(det[n], shared_x)
            is_last  == step[n] = StepsPerBlock - 1
            ends     == is_last /\ ~HasNextBlock(block[n], d)
<1>1. /\ shared'  = [shared EXCEPT ![n] = shared_x]
      /\ det'     = [det EXCEPT ![n] = d]
      /\ seq'     = [seq EXCEPT ![n] = @ + 1]
      /\ pending' = [pending EXCEPT ![n] = NoEntries]
      /\ masked'  = [masked EXCEPT ![n] = @ \ (DOMAIN shared_x \cap BlockPos(block[n]))]
      /\ step'    = [step EXCEPT ![n] = IF is_last THEN 0 ELSE @ + 1]
      /\ block'   = [block EXCEPT ![n] = IF is_last /\ ~ends THEN @ + 1 ELSE @]
      /\ pc'      = [pc EXCEPT ![n] = IF ends THEN "done" ELSE "poll"]
  BY DEF FinishSync
<1>2. DOMAIN shared_x = DOMAIN shared[n] \cup ProposedPositions(all)
  BY DEF merge_consensus
<1>. HIDE DEF shared_x
<1>3. shared'[n] = shared_x /\ det'[n] = d
  BY <1>1 DEF TypeOK
<1>. HIDE DEF d, ends
<1>4. /\ seq'[n] = seq[n] + 1 /\ pending'[n] = NoEntries
      /\ masked'[n] = masked[n] \ (DOMAIN shared_x \cap BlockPos(block[n]))
      /\ step'[n] = (IF is_last THEN 0 ELSE step[n] + 1)
      /\ block'[n] = (IF is_last /\ ~ends THEN block[n] + 1 ELSE block[n])
      /\ pc'[n] = (IF ends THEN "done" ELSE "poll")
  BY <1>1 DEF TypeOK
<1>5. DOMAIN pending'[n] = {}
  BY <1>4 DEF NoEntries
<1>6. \A m \in Nodes \ {n} :
        /\ block'[m] = block[m] /\ step'[m] = step[m] /\ masked'[m] = masked[m]
        /\ pending'[m] = pending[m] /\ shared'[m] = shared[m] /\ det'[m] = det[m]
        /\ pc'[m] = pc[m] /\ seq'[m] = seq[m]
  BY <1>1 DEF TypeOK
<1>7. det'[n] = Check(det[n], shared'[n])
  BY <1>3 DEF d
<1>8. ends <=> is_last /\ ~HasNextBlock(block[n], det'[n])
  BY <1>3 DEF ends
<1>. QED  BY <1>2, <1>3, <1>4, <1>5, <1>6, <1>7, <1>8

-----------------------------------------------------------------------------
(* The steps of the round, by what they do to the positions. *)

\* A step that starts the round, polls, collects, fails or crashes.
Quiet ==
  /\ UNCHANGED <<seq, block, step, masked, pending, shared, det, commits>>
  /\ \A m \in Nodes :
       \/ pc'[m] = pc[m]
       \/ pc'[m] \notin {"commits", "scores", "done"} /\ pc[m] # "done"
  /\ \A x \in sent' : x \in sent \/ x.type # "COMMIT"

\* A local step of node n, alone or with the publication of its commits.
StepsLocally(n) ==
  /\ pc[n] = "local" /\ Denoise(n)
  /\ UNCHANGED <<seq, block, shared, det, commits>>
  /\ \A m \in Nodes \ {n} : pc'[m] = pc[m] /\ step'[m] = step[m]
  /\ \/ /\ ~SyncPoint(step[n]) /\ pc'[n] = "poll" /\ step'[n] = step[n] + 1
        /\ sent' = sent
     \/ /\ SyncPoint(step[n]) /\ pc'[n] = "commits" /\ step'[n] = step[n]
        /\ sent' = sent \cup {[type |-> "COMMIT", from |-> n, seq |-> seq[n],
                               commits |-> pending'[n]]}

\* Node n goes on to the second phase of its sync.
Disputes(n) ==
  /\ pc[n] = "commits" /\ pc'[n] = "scores" /\ commits'[n] = AllCommits(n)
  /\ UNCHANGED <<seq, block, step, masked, pending, shared, det>>
  /\ \A m \in Nodes \ {n} : pc'[m] = pc[m] /\ commits'[m] = commits[m]
  /\ \A x \in sent' : x \in sent \/ x.type # "COMMIT"

\* Node n ends its sync with these commits.
Ends(n, all, res) ==
  /\ FinishSync(n, all, res)
  /\ \/ pc[n] = "commits" /\ all = AllCommits(n)
     \/ pc[n] = "scores" /\ all = commits[n]
  /\ SyncPoint(step[n])
  /\ \A m \in Nodes \ {n} : commits'[m] = commits[m]
  /\ \A x \in sent' : x \in sent \/ x.type # "COMMIT"

LEMMA StepKinds ==
  ASSUME TypeOK, AtSyncPoint, [Next]_vars
  PROVE  \/ Quiet
         \/ \E n \in Nodes : StepsLocally(n) \/ Disputes(n)
         \/ \E n \in Nodes : \E all, res : Ends(n, all, res)
<1>1. ASSUME StartRound PROVE Quiet
  BY <1>1 DEF StartRound, Quiet, local, TypeOK
<1>2. ASSUME NEW n \in Nodes, WaitForRound(n) \/ Poll(n) PROVE Quiet
  BY <1>2 DEF WaitForRound, Poll, Quiet, local, TypeOK
<1>3. ASSUME NEW n \in Nodes, LeaderTimeout(n) \/ Crash(n) PROVE Quiet
  BY <1>3 DEF LeaderTimeout, Crash, Finished, Quiet, local, TypeOK
<1>4. ASSUME NEW n \in Nodes, CollectCommits(n) \/ CollectScores(n) PROVE Quiet
  BY <1>4 DEF CollectCommits, CollectScores, Collect, Quiet, local
<1>5. ASSUME UNCHANGED vars PROVE Quiet
  BY <1>5 DEF vars, local, Quiet
<1>6. ASSUME NEW n \in Nodes, LocalStep(n) PROVE StepsLocally(n)
  BY <1>6 DEF LocalStep, StepsLocally, TypeOK
<1>7. ASSUME NEW n \in Nodes, LocalStepThenSync(n) PROVE StepsLocally(n)
  BY <1>7 DEF LocalStepThenSync, StepsLocally, TypeOK
<1>8. ASSUME NEW n \in Nodes, EndCommitsDisputed(n) PROVE Disputes(n)
  <2>1. \A x \in sent' : x \in sent \/ x.type # "COMMIT"
    BY <1>8 DEF EndCommitsDisputed
  <2>. QED  BY <1>8, <2>1 DEF EndCommitsDisputed, Disputes, local, TypeOK
<1>9. ASSUME NEW n \in Nodes, EndCommitsAgreed(n)
      PROVE  Ends(n, AllCommits(n), NoEntries)
  <2>1. FinishSync(n, AllCommits(n), NoEntries) /\ pc[n] = "commits" /\ commits' = commits
    BY <1>9 DEF EndCommitsAgreed
  <2>2. \A x \in sent' : x \in sent \/ x.type # "COMMIT"
    BY <2>1, FinishFacts
  <2>. QED  BY <2>1, <2>2 DEF Ends, AtSyncPoint
<1>10. ASSUME NEW n \in Nodes, EndScores(n)
       PROVE  Ends(n, commits[n], resolve_disputes(AllScores(n)))
  <2>1. /\ FinishSync(n, commits[n], resolve_disputes(AllScores(n))) /\ pc[n] = "scores"
        /\ \A m \in Nodes \ {n} : commits'[m] = commits[m]
    BY <1>10 DEF EndScores, TypeOK
  <2>2. \A x \in sent' : x \in sent \/ x.type # "COMMIT"
    BY <2>1, FinishFacts
  <2>. QED  BY <2>1, <2>2 DEF Ends, AtSyncPoint
<1>. QED  BY <1>1, <1>2, <1>3, <1>4, <1>5, <1>6, <1>7, <1>8, <1>9, <1>10 DEF Next, Proceed

-----------------------------------------------------------------------------
(* The sync schedule. *)

LEMMA ScheduleStep ==
  ASSUME TypeOK, AtSyncPoint, Schedule, [Next]_vars
  PROVE  AtSyncPoint' /\ Schedule'
<1>0. /\ SyncsPerBlock \in Nat \ {0} /\ SyncEvery \in Nat \ {0}
      /\ \A m \in Nodes : /\ block[m] \in Nat /\ step[m] \in Nat /\ seq[m] \in Nat
                          /\ block[m] * SyncsPerBlock \in Nat
                          /\ step[m] \div SyncEvery \in Nat
  BY SyncSizes, Sizes DEF TypeOK
<1>1. CASE Quiet
  BY <1>1 DEF Quiet, AtSyncPoint, Schedule, SyncPoint
<1>2. ASSUME NEW n \in Nodes, StepsLocally(n) PROVE AtSyncPoint' /\ Schedule'
  <2>1. ~SyncPoint(step[n]) => (step[n] + 1) \div SyncEvery = step[n] \div SyncEvery
    BY <1>0, NextQuotient DEF SyncPoint
  <2>2. /\ UNCHANGED <<seq, block>> /\ pc[n] = "local"
        /\ \A m \in Nodes \ {n} : pc'[m] = pc[m] /\ step'[m] = step[m]
        /\ \/ ~SyncPoint(step[n]) /\ pc'[n] = "poll" /\ step'[n] = step[n] + 1
           \/ SyncPoint(step[n]) /\ pc'[n] = "commits" /\ step'[n] = step[n]
    BY <1>2 DEF StepsLocally
  <2>3. AtSyncPoint'
    BY <2>2 DEF AtSyncPoint, SyncPoint
  <2>4. Schedule'
    BY <2>1, <2>2 DEF Schedule
  <2>. QED  BY <2>3, <2>4
<1>3. ASSUME NEW n \in Nodes, Disputes(n) PROVE AtSyncPoint' /\ Schedule'
  <2>1. /\ UNCHANGED <<seq, block, step>> /\ pc[n] = "commits" /\ pc'[n] = "scores"
        /\ \A m \in Nodes \ {n} : pc'[m] = pc[m]
    BY <1>3 DEF Disputes
  <2>2. AtSyncPoint'
    BY <2>1 DEF AtSyncPoint, SyncPoint
  <2>3. Schedule'
    BY <2>1 DEF Schedule
  <2>. QED  BY <2>2, <2>3
<1>4. ASSUME NEW n \in Nodes, NEW all, NEW res, Ends(n, all, res)
      PROVE  AtSyncPoint' /\ Schedule'
  <2>1. FinishSync(n, all, res) /\ SyncPoint(step[n]) /\ pc[n] # "done"
    BY <1>4 DEF Ends
  <2>2. /\ \A m \in Nodes \ {n} : /\ block'[m] = block[m] /\ step'[m] = step[m]
                                  /\ pc'[m] = pc[m] /\ seq'[m] = seq[m]
        /\ seq'[n] = seq[n] + 1
        /\ step[n] # StepsPerBlock - 1 =>
             pc'[n] = "poll" /\ step'[n] = step[n] + 1 /\ block'[n] = block[n]
        /\ step[n] = StepsPerBlock - 1 =>
             /\ step'[n] = 0
             /\ \/ pc'[n] = "poll" /\ block'[n] = block[n] + 1
                \/ pc'[n] = "done" /\ block'[n] = block[n]
    BY <2>1, FinishPositions
  <2>3. AtSyncPoint'
    BY <2>2 DEF AtSyncPoint, SyncPoint
  <2>4. seq[n] = block[n] * SyncsPerBlock + (step[n] \div SyncEvery)
    BY <2>1 DEF Schedule
  <2>5. seq'[n] = (IF pc'[n] = "done" THEN (block'[n] + 1) * SyncsPerBlock
                   ELSE block'[n] * SyncsPerBlock + (step'[n] \div SyncEvery)) => Schedule'
    <3>. SUFFICES ASSUME NEW m \in Nodes, m # n
                  PROVE  seq'[m] = IF pc'[m] = "done" THEN (block'[m] + 1) * SyncsPerBlock
                                   ELSE block'[m] * SyncsPerBlock + (step'[m] \div SyncEvery)
      BY DEF Schedule
    <3>1. /\ block'[m] = block[m] /\ step'[m] = step[m]
          /\ pc'[m] = pc[m] /\ seq'[m] = seq[m]
      BY <2>2
    <3>2. seq[m] = IF pc[m] = "done" THEN (block[m] + 1) * SyncsPerBlock
                   ELSE block[m] * SyncsPerBlock + (step[m] \div SyncEvery)
      BY DEF Schedule
    <3>. QED  BY <3>1, <3>2
  <2>6. CASE step[n] # StepsPerBlock - 1
    <3>1. (step[n] + 1) \div SyncEvery = (step[n] \div SyncEvery) + 1
      BY <1>0, <2>1, <2>6, NextQuotient DEF SyncPoint
    <3>2. seq'[n] = block'[n] * SyncsPerBlock + (step'[n] \div SyncEvery) /\ pc'[n] # "done"
      BY <1>0, <2>2, <2>4, <2>6, <3>1
    <3>. QED  BY <2>3, <2>5, <3>2
  <2>7. CASE step[n] = StepsPerBlock - 1
    <3>1. seq'[n] = block[n] * SyncsPerBlock + SyncsPerBlock
      BY <1>0, <2>2, <2>4, <2>7 DEF SyncsPerBlock
    <3>2. seq'[n] = (block[n] + 1) * SyncsPerBlock
      BY <1>0, <3>1
    <3>3. 0 \div SyncEvery = 0 /\ (block[n] + 1) * SyncsPerBlock \in Nat
      BY <1>0
    <3>4. seq'[n] = IF pc'[n] = "done" THEN (block'[n] + 1) * SyncsPerBlock
                    ELSE block'[n] * SyncsPerBlock + (step'[n] \div SyncEvery)
      BY <1>0, <2>2, <2>7, <3>2, <3>3
    <3>. QED  BY <2>3, <2>5, <3>4
  <2>. QED  BY <2>3, <2>6, <2>7
<1>. QED  BY <1>1, <1>2, <1>3, <1>4, StepKinds

-----------------------------------------------------------------------------
(* No gap. *)

\* The commits a sync merges hold the node's own.
LEMMA OwnMerged ==
  ASSUME NoGap, NEW n \in Nodes, NEW all, NEW res, Ends(n, all, res)
  PROVE  DOMAIN pending[n] \subseteq ProposedPositions(all)
<1>1. n \in DOMAIN all /\ all[n] = pending[n]
  <2>1. CASE pc[n] = "commits" /\ all = AllCommits(n)
    BY <2>1 DEF AllCommits
  <2>2. CASE pc[n] = "scores" /\ all = commits[n]
    BY <2>2 DEF NoGap
  <2>. QED  BY <2>1, <2>2 DEF Ends
<1>. QED  BY <1>1 DEF ProposedPositions

\* A block the last sync of which is over is filled up to the boundary.
LEMMA BlockLeft ==
  ASSUME TypeOK, NoGap, NEW n \in Nodes, NEW all, NEW res, Ends(n, all, res),
         step[n] = StepsPerBlock - 1
  PROVE  \A q \in GenPos : q < BlockStart(block[n] + 1) =>
           q \in Frozen(det'[n]) \/ q \in DOMAIN shared'[n]
<1>1. FinishSync(n, all, res) /\ pc[n] \in {"commits", "scores"}
  BY DEF Ends
<1>2. /\ DOMAIN shared'[n] = DOMAIN shared[n] \cup ProposedPositions(all)
      /\ det'[n] = Check(det[n], shared'[n])
  BY <1>1, FinishPositions
<1>3. Frozen(det[n]) \subseteq Frozen(det'[n])
  BY <1>2, FrozenStays DEF TypeOK
<1>4. DOMAIN pending[n] \cup DOMAIN shared[n] \subseteq DOMAIN shared'[n]
  BY <1>2, OwnMerged
<1>5. block[n] \in Nat /\ GenPos \subseteq Int
  BY Sizes DEF TypeOK
<1>b. /\ BlockStart(block[n]) \in Int /\ BlockStart(block[n] + 1) \in Int
      /\ BlockPos(block[n]) = BlockStart(block[n]) .. BlockStart(block[n] + 1) - 1
  <2>1. PICK b \in Nat : b = block[n]
    BY <1>5
  <2>2. /\ BlockStart(b) \in Nat /\ BlockStart(b + 1) \in Nat
        /\ BlockPos(b) = BlockStart(b) .. BlockStart(b + 1) - 1
    BY BlockBounds
  <2>. QED  BY <2>1, <2>2
<1>6. ASSUME NEW q \in GenPos, q < BlockStart(block[n] + 1), q >= BlockStart(block[n])
      PROVE  q \in Frozen(det'[n]) \/ q \in DOMAIN shared'[n]
  <2>1. q \in BlockPos(block[n])
    BY <1>5, <1>6, <1>b
  <2>2. q \in masked[n] => q \in Frozen(det[n])
    BY <1>1, <2>1 DEF NoGap
  <2>3. q \notin masked[n] => q \in DOMAIN pending[n] \cup DOMAIN shared[n]
    BY DEF NoGap
  <2>. QED  BY <1>3, <1>4, <2>2, <2>3
<1>7. ASSUME NEW q \in GenPos, q < BlockStart(block[n])
      PROVE  q \in Frozen(det'[n]) \/ q \in DOMAIN shared'[n]
  BY <1>3, <1>4, <1>7 DEF NoGap, Filled
<1>8. ASSUME NEW q \in GenPos
      PROVE  q < BlockStart(block[n]) \/ q >= BlockStart(block[n])
  <2>1. q \in Int
    BY <1>5
  <2>. QED  BY <1>b, <2>1
<1>. QED  BY <1>6, <1>7, <1>8

LEMMA NoGapStep ==
  ASSUME TypeOK, TypeOK', AtSyncPoint, NoGap, [Next]_vars
  PROVE  NoGap'
<1>1. CASE Quiet
  BY <1>1 DEF Quiet, NoGap, Filled
<1>2. ASSUME NEW n \in Nodes, StepsLocally(n) PROVE NoGap'
  <2>1. /\ UNCHANGED <<block, shared, det, commits>> /\ pc[n] = "local"
        /\ \A m \in Nodes \ {n} : pc'[m] = pc[m] /\ step'[m] = step[m]
        /\ pc'[n] \in {"poll", "commits"} /\ (pc'[n] = "commits" => step'[n] = step[n])
    BY <1>2 DEF StepsLocally
  <2>2. /\ \A m \in Nodes \ {n} : masked'[m] = masked[m] /\ pending'[m] = pending[m]
        /\ masked[n] \ masked'[n] \subseteq DOMAIN pending'[n]
        /\ DOMAIN pending[n] \subseteq DOMAIN pending'[n]
        /\ step[n] = StepsPerBlock - 1 =>
             masked'[n] \cap BlockPos(block[n]) \subseteq Frozen(det[n])
    BY <1>2, DenoiseFacts DEF StepsLocally
  <2>3. GenPos \ masked'[n] \subseteq DOMAIN pending'[n] \cup DOMAIN shared[n]
    BY <2>2 DEF NoGap
  <2>. QED  BY <2>1, <2>2, <2>3 DEF NoGap, Filled
<1>3. ASSUME NEW n \in Nodes, Disputes(n) PROVE NoGap'
  <2>1. /\ UNCHANGED <<block, step, masked, pending, shared, det>>
        /\ pc[n] = "commits" /\ pc'[n] = "scores" /\ commits'[n] = AllCommits(n)
        /\ \A m \in Nodes \ {n} : pc'[m] = pc[m] /\ commits'[m] = commits[m]
    BY <1>3 DEF Disputes
  <2>2. n \in DOMAIN AllCommits(n) /\ AllCommits(n)[n] = pending[n]
    BY DEF AllCommits
  <2>. QED  BY <2>1, <2>2 DEF NoGap, Filled
<1>4. ASSUME NEW n \in Nodes, NEW all, NEW res, Ends(n, all, res) PROVE NoGap'
  <2>1. FinishSync(n, all, res) /\ \A m \in Nodes \ {n} : commits'[m] = commits[m]
    BY <1>4 DEF Ends
  <2>2. /\ \A m \in Nodes \ {n} :
             /\ block'[m] = block[m] /\ step'[m] = step[m] /\ masked'[m] = masked[m]
             /\ pending'[m] = pending[m] /\ shared'[m] = shared[m] /\ det'[m] = det[m]
             /\ pc'[m] = pc[m]
        /\ DOMAIN shared'[n] = DOMAIN shared[n] \cup ProposedPositions(all)
        /\ det'[n] = Check(det[n], shared'[n])
        /\ masked'[n] = masked[n] \ (DOMAIN shared'[n] \cap BlockPos(block[n]))
        /\ step[n] # StepsPerBlock - 1 =>
             pc'[n] = "poll" /\ step'[n] = step[n] + 1 /\ block'[n] = block[n]
        /\ step[n] = StepsPerBlock - 1 =>
             /\ step'[n] = 0
             /\ \/ pc'[n] = "poll" /\ block'[n] = block[n] + 1
                \/ /\ pc'[n] = "done" /\ block'[n] = block[n]
                   /\ ~HasNextBlock(block[n], det'[n])
    BY <2>1, FinishPositions
  <2>3. GenPos \ masked'[n] \subseteq DOMAIN pending'[n] \cup DOMAIN shared'[n]
    BY <1>4, <2>2, OwnMerged DEF NoGap
  <2>4. pc'[n] \notin {"commits", "scores"}
    BY <2>2
  <2>5. Frozen(det[n]) \subseteq Frozen(det'[n])
    BY <2>2, FrozenStays DEF TypeOK
  <2>6. block[n] \in 0 .. NumBlocks - 1 /\ NumBlocks \in Nat /\ block[n] \in Nat
    BY Sizes DEF TypeOK
  <2>7. /\ {q \in GenPos : q < BlockStart(block'[n])} \ Frozen(det'[n]) \subseteq DOMAIN shared'[n]
        /\ pc'[n] = "done" => {q \in GenPos : q < BlockStart(NumBlocks)} \ Frozen(det'[n])
                                \subseteq DOMAIN shared'[n]
    <3>1. CASE step[n] # StepsPerBlock - 1
      BY <2>2, <2>5, <3>1 DEF NoGap, Filled
    <3>2. CASE step[n] = StepsPerBlock - 1 /\ block'[n] = block[n] + 1 /\ pc'[n] = "poll"
      BY <1>4, <3>2, BlockLeft
    <3>3. CASE step[n] = StepsPerBlock - 1 /\ block'[n] = block[n] /\ pc'[n] = "done"
      <4>1. {q \in GenPos : q < BlockStart(block[n])} \ Frozen(det'[n]) \subseteq DOMAIN shared'[n]
        BY <2>2, <2>5 DEF NoGap, Filled
      <4>2. ~HasNextBlock(block[n], det'[n])
        BY <2>2, <3>3
      <4>3. CASE block[n] + 1 = NumBlocks
        BY <1>4, <3>3, <4>1, <4>3, BlockLeft
      <4>4. CASE block[n] + 1 # NumBlocks
        <5>1. det'[n].stop # NoPos /\ ~(BlockStart(block[n] + 1) < det'[n].stop)
          BY <2>6, <4>2, <4>4 DEF HasNextBlock
        <5>0. det'[n] \in Detectors /\ GenPos \subseteq Int
          BY Sizes DEF TypeOK
        <5>2. det'[n].stop \in Int /\ BlockStart(block[n] + 1) \in Int
          <6>1. PICK b \in Nat : b = block[n]
            BY <2>6
          <6>2. BlockStart(b + 1) \in Nat
            BY BlockBounds
          <6>. QED  BY <5>0, <6>1, <6>2 DEF Detectors, NoPos
        <5>3. ASSUME NEW q \in GenPos, q >= BlockStart(block[n] + 1)
              PROVE  q \in Frozen(det'[n])
          BY <5>1, <5>2, <5>3, Sizes DEF Frozen
        <5>4. ASSUME NEW q \in GenPos
              PROVE  q < BlockStart(block[n] + 1) \/ q >= BlockStart(block[n] + 1)
          <6>1. q \in Int
            BY <5>0
          <6>. QED  BY <5>2, <6>1
        <5>. QED  BY <1>4, <3>3, <4>1, <5>3, <5>4, BlockLeft
      <4>. QED  BY <4>3, <4>4
    <3>. QED  BY <2>2, <3>1, <3>2, <3>3
  <2>. QED  BY <2>1, <2>2, <2>3, <2>4, <2>7 DEF NoGap, Filled
<1>. QED  BY <1>1, <1>2, <1>3, <1>4, StepKinds

-----------------------------------------------------------------------------
(* Nothing outside the block. *)

\* No boundary after a step means that there was none before it.
LEMMA NoStopBefore ==
  ASSUME TypeOK, AtSyncPoint, [Next]_vars, \A m \in Nodes : det'[m].stop = NoPos
  PROVE  \A m \in Nodes : det[m].stop = NoPos
<1>1. CASE det' = det
  BY <1>1
<1>2. ASSUME NEW n \in Nodes, NEW all, NEW res, Ends(n, all, res)
      PROVE  \A m \in Nodes : det[m].stop = NoPos
  <2>1. /\ \A m \in Nodes \ {n} : det'[m] = det[m]
        /\ det'[n] = Check(det[n], shared'[n]) /\ det[n] \in Detectors
    BY <1>2, FinishPositions DEF Ends, TypeOK
  <2>2. det[n].stop = NoPos
    BY <2>1, FrozenStays
  <2>. QED  BY <2>1, <2>2
<1>. QED  BY <1>1, <1>2, StepKinds DEF Quiet, StepsLocally, Disputes

\* The sync a node is in belongs to the block it is in.
LEMMA SyncOfBlock ==
  ASSUME TypeOK, Schedule, NEW n \in Nodes, pc[n] # "done"
  PROVE  BlockOf(seq[n]) = block[n]
<1>1. PICK b \in Nat, r \in 0 .. SyncsPerBlock - 1 :
        b = block[n] /\ r = step[n] \div SyncEvery
  <2>1. block[n] \in Nat /\ step[n] \in 0 .. StepsPerBlock - 1
    BY Sizes DEF TypeOK
  <2>. QED  BY <2>1, SyncSizes
<1>2. seq[n] = b * SyncsPerBlock + r
  BY <1>1 DEF Schedule
<1>3. (b * SyncsPerBlock + r) \div SyncsPerBlock = b
  BY SyncSizes, RowOf
<1>. QED  BY <1>1, <1>2, <1>3 DEF BlockOf

\* Everything the commit barrier of a node holds is about its block.
LEMMA CollectedInBlock ==
  ASSUME TypeOK, ReceivedWanted, Schedule, InBlock, \A m \in Nodes : det[m].stop = NoPos,
         NEW n \in Nodes, pc[n] = "commits"
  PROVE  ProposedPositions(AllCommits(n)) \subseteq BlockPos(block[n])
<1>1. BlockOf(seq[n]) = block[n]
  BY SyncOfBlock
<1>2. ASSUME NEW o \in {n} \cup Senders(received[n])
      PROVE  DOMAIN AllCommits(n)[o] \subseteq BlockPos(block[n])
  <2>1. CASE o = n
    <3>1. AllCommits(n)[o] = pending[n]
      BY <2>1 DEF AllCommits
    <3>. QED  BY <3>1 DEF InBlock
  <2>2. CASE o # n
    <3>1. \E m \in received[n] : m.from = o
      BY <1>2, <2>2 DEF Senders
    <3>2. PICK m \in received[n] : m = CHOOSE y \in received[n] : y.from = o
      BY <3>1
    <3>3. m \in sent /\ m.type = "COMMIT" /\ m.seq = seq[n]
      BY DEF TypeOK, ReceivedWanted, IsReport
    <3>4. AllCommits(n)[o] = m.commits
      BY <2>2, <3>2 DEF AllCommits
    <3>5. DOMAIN m.commits \subseteq BlockPos(BlockOf(m.seq))
      BY <3>3 DEF InBlock
    <3>. QED  BY <1>1, <3>3, <3>4, <3>5
  <2>. QED  BY <2>1, <2>2
<1>3. DOMAIN AllCommits(n) = {n} \cup Senders(received[n])
  BY DEF AllCommits
<1>. QED  BY <1>2, <1>3 DEF ProposedPositions

LEMMA InBlockStep ==
  ASSUME TypeOK, ReceivedWanted, AtSyncPoint, Schedule, InBlock, [Next]_vars
  PROVE  InBlock'
<1>. SUFFICES ASSUME \A m \in Nodes : det'[m].stop = NoPos
              PROVE  /\ \A m \in sent' : m.type = "COMMIT" =>
                          DOMAIN m.commits \subseteq BlockPos(BlockOf(m.seq))
                     /\ \A n \in Nodes :
                          /\ pc'[n] = "scores" =>
                               ProposedPositions(commits'[n]) \subseteq BlockPos(block'[n])
                          /\ DOMAIN pending'[n] \subseteq BlockPos(block'[n])
                          /\ DOMAIN shared'[n] \subseteq 0 .. BlockStart(block'[n] + 1) - 1
  BY DEF InBlock
<1>0. \A m \in Nodes : det[m].stop = NoPos
  BY NoStopBefore
<1>i. /\ \A m \in sent : m.type = "COMMIT" => DOMAIN m.commits \subseteq BlockPos(BlockOf(m.seq))
      /\ \A n \in Nodes :
           /\ pc[n] = "scores" => ProposedPositions(commits[n]) \subseteq BlockPos(block[n])
           /\ DOMAIN pending[n] \subseteq BlockPos(block[n])
           /\ DOMAIN shared[n] \subseteq 0 .. BlockStart(block[n] + 1) - 1
  BY <1>0 DEF InBlock
<1>1. CASE Quiet
  BY <1>1, <1>i DEF Quiet
<1>2. CASE \E n \in Nodes : StepsLocally(n)
  <2>0. PICK n \in Nodes : StepsLocally(n)
    BY <1>2
  <2>1. /\ UNCHANGED <<block, shared, commits>> /\ pc[n] = "local" /\ pc'[n] # "scores"
        /\ \A m \in Nodes \ {n} : pc'[m] = pc[m]
        /\ \A x \in sent' :
             x \in sent \/ x = [type |-> "COMMIT", from |-> n, seq |-> seq[n],
                                commits |-> pending'[n]]
    BY <2>0 DEF StepsLocally
  <2>2. /\ \A m \in Nodes \ {n} : pending'[m] = pending[m]
        /\ DOMAIN pending'[n] \subseteq BlockPos(block[n])
    BY <1>0, <1>i, <2>0, DenoiseFacts DEF StepsLocally
  <2>3. BlockOf(seq[n]) = block[n]
    BY <2>1, SyncOfBlock
  <2>4. \A m \in sent' : m.type = "COMMIT" => DOMAIN m.commits \subseteq BlockPos(BlockOf(m.seq))
    BY <1>i, <2>1, <2>2, <2>3
  <2>. QED  BY <1>i, <2>1, <2>2, <2>4
<1>3. CASE \E n \in Nodes : Disputes(n)
  <2>0. PICK n \in Nodes : Disputes(n)
    BY <1>3
  <2>1. /\ UNCHANGED <<block, pending, shared>> /\ pc[n] = "commits"
        /\ commits'[n] = AllCommits(n)
        /\ \A m \in Nodes \ {n} : pc'[m] = pc[m] /\ commits'[m] = commits[m]
        /\ \A x \in sent' : x \in sent \/ x.type # "COMMIT"
    BY <2>0 DEF Disputes
  <2>2. ProposedPositions(commits'[n]) \subseteq BlockPos(block[n])
    BY <1>0, <2>1, CollectedInBlock
  <2>. QED  BY <1>i, <2>1, <2>2
<1>4. CASE \E n \in Nodes : \E all, res : Ends(n, all, res)
  <2>0. PICK n \in Nodes : \E all, res : Ends(n, all, res)
    BY <1>4
  <2>01. PICK all, res : Ends(n, all, res)
    BY <2>0
  <2>1. /\ FinishSync(n, all, res) /\ \A m \in Nodes \ {n} : commits'[m] = commits[m]
        /\ \A x \in sent' : x \in sent \/ x.type # "COMMIT"
    BY <2>01 DEF Ends
  <2>2. ProposedPositions(all) \subseteq BlockPos(block[n])
    BY <1>0, <1>i, <2>01, CollectedInBlock DEF Ends
  <2>3. /\ \A m \in Nodes \ {n} : /\ block'[m] = block[m] /\ pending'[m] = pending[m]
                                  /\ shared'[m] = shared[m] /\ pc'[m] = pc[m]
        /\ DOMAIN pending'[n] = {} /\ pc'[n] # "scores"
        /\ DOMAIN shared'[n] = DOMAIN shared[n] \cup ProposedPositions(all)
        /\ block'[n] = block[n] \/ block'[n] = block[n] + 1
    BY <2>1, FinishPositions
  <2>4. PICK b \in Nat : b = block[n]
    BY Sizes DEF TypeOK
  <2>5. /\ BlockStart(b) \in Nat /\ BlockStart(b + 1) \in Nat
        /\ BlockPos(b) = BlockStart(b) .. BlockStart(b + 1) - 1
    BY BlockBounds
  <2>6. BlockStart(b + 1 + 1) \in Nat /\ BlockStart(b + 1) < BlockStart(b + 1 + 1)
    <3>1. PICK e \in Nat : e = b + 1
      OBVIOUS
    <3>2. BlockStart(e + 1) \in Nat /\ BlockStart(e) < BlockStart(e + 1)
      BY BlockBounds
    <3>. QED  BY <3>1, <3>2
  <2>7. DOMAIN shared'[n] \subseteq 0 .. BlockStart(b + 1) - 1
    BY <1>i, <2>2, <2>3, <2>4, <2>5
  <2>8. 0 .. BlockStart(b + 1) - 1 \subseteq 0 .. BlockStart(b + 1 + 1) - 1
    BY <2>5, <2>6
  <2>9. DOMAIN shared'[n] \subseteq 0 .. BlockStart(block'[n] + 1) - 1
    BY <2>3, <2>4, <2>7, <2>8
  <2>. QED  BY <1>i, <2>1, <2>3, <2>9
<1>. QED  BY <1>1, <1>2, <1>3, <1>4, StepKinds

-----------------------------------------------------------------------------
(* The theorems. *)

LEMMA BlocksInit ==
  ASSUME Init
  PROVE  NoGap /\ AtSyncPoint /\ Schedule /\ InBlock
<1>1. BlockStart(0) = GenStart /\ BlockStart(1) \in Nat /\ GenStart < BlockStart(1)
  BY StopConstants, GenerationConstants DEF BlockStart
<1>2. NoGap
  BY <1>1, StopConstants DEF Init, NoGap, Filled, GenPos, GenEnd
<1>3. Schedule
  BY SyncSizes DEF Init, Schedule
<1>4. InBlock
  <2>1. DOMAIN Prompt \subseteq 0 .. BlockStart(0 + 1) - 1
    BY <1>1, StopConstants, GenerationConstants
  <2>2. DOMAIN NoEntries = {}
    BY DEF NoEntries
  <2>. QED  BY <2>1, <2>2 DEF Init, InBlock
<1>. QED  BY <1>2, <1>3, <1>4 DEF Init, AtSyncPoint

\* A node that finishes the round has a token for every generated position
\* before its boundary, in any schedule of steps, syncs and re-maskings and
\* whatever reports were lost, late or doubled.
THEOREM FinishedTextHasNoGap == Spec => []GapFree
<1>. DEFINE J == NoGap /\ AtSyncPoint /\ Schedule
<1>1. Init => J
  BY BlocksInit
<1>2. IInv /\ J /\ [Next]_vars => J'
  BY InvariantStep, NoGapStep, ScheduleStep DEF IInv
<1>3. J => GapFree
  BY DEF NoGap, GapFree, Filled
<1>. HIDE DEF J
<1>. QED  BY <1>1, <1>2, <1>3, InvariantInit, InvariantStep, PTL DEF Spec

\* While no node has a boundary, everyone's commits and text stay within the
\* block it works on and what lies before it.
THEOREM NoCommitOutsideBlock == Spec => []CommitsInBlock
<1>. DEFINE J == AtSyncPoint /\ Schedule /\ InBlock
<1>1. Init => J
  BY BlocksInit
<1>2. IInv /\ J /\ [Next]_vars => J'
  BY ScheduleStep, InBlockStep DEF IInv
<1>3. J => CommitsInBlock
  BY DEF InBlock, CommitsInBlock
<1>. HIDE DEF J
<1>. QED  BY <1>1, <1>2, <1>3, InvariantInit, InvariantStep, PTL DEF Spec

\* What a sync changes in a text lies in the block it is about.
LEMMA SettledStep ==
  ASSUME TypeOK, ReceivedWanted, AtSyncPoint, Schedule, InBlock, [Next]_vars,
         \A m \in Nodes : det[m].stop = NoPos,
         NEW n \in Nodes, NEW q \in DOMAIN shared[n] \ BlockPos(block[n])
  PROVE  shared'[n][q] = shared[n][q]
<1>1. CASE Quiet
  BY <1>1 DEF Quiet
<1>2. ASSUME NEW o \in Nodes, StepsLocally(o) \/ Disputes(o) PROVE shared' = shared
  BY <1>2 DEF StepsLocally, Disputes
<1>3. ASSUME NEW o \in Nodes, NEW all, NEW res, Ends(o, all, res)
      PROVE  shared'[n][q] = shared[n][q]
  <2>1. /\ shared'[o] = merge_consensus(shared[o], all, res)
        /\ \A m \in Nodes \ {o} : shared'[m] = shared[m]
    BY <1>3, FinishFacts DEF Ends
  <2>2. CASE o # n
    BY <2>1, <2>2
  <2>3. CASE o = n
    <3>1. ProposedPositions(all) \subseteq BlockPos(block[n])
      BY <1>3, <2>3, CollectedInBlock DEF Ends, InBlock
    <3>2. q \notin ProposedPositions(all)
      BY <3>1
    <3>. QED  BY <2>1, <2>3, <3>2 DEF merge_consensus
  <2>. QED  BY <2>2, <2>3
<1>. QED  BY <1>1, <1>2, <1>3, StepKinds

\* No step takes a position off a text.
LEMMA GrowsOnly ==
  ASSUME TypeOK, AtSyncPoint, [Next]_vars, NEW n \in Nodes
  PROVE  DOMAIN shared[n] \subseteq DOMAIN shared'[n]
<1>1. CASE shared' = shared
  BY <1>1
<1>2. ASSUME NEW o \in Nodes, NEW all, NEW res, Ends(o, all, res)
      PROVE  DOMAIN shared[n] \subseteq DOMAIN shared'[n]
  <2>1. /\ shared'[o] = merge_consensus(shared[o], all, res)
        /\ \A m \in Nodes \ {o} : shared'[m] = shared[m]
    BY <1>2, FinishFacts DEF Ends
  <2>. QED  BY <2>1 DEF merge_consensus
<1>. QED  BY <1>1, <1>2, StepKinds DEF Quiet, StepsLocally, Disputes

\* Before a boundary is set no step changes a token of the prompt or of a
\* finished block: a report that comes late, in a later block, has no effect.
THEOREM SettledTextStays == Spec => SettledStays
<1>. DEFINE J == AtSyncPoint /\ Schedule /\ InBlock
            Stays == (\A m \in Nodes : det[m].stop = NoPos) =>
                       \A n \in Nodes : \A q \in DOMAIN shared[n] \ BlockPos(block[n]) :
                         shared'[n][q] = shared[n][q]
<1>1. Init => J
  BY BlocksInit
<1>2. IInv /\ J /\ [Next]_vars => J'
  BY ScheduleStep, InBlockStep DEF IInv
<1>3. IInv /\ J /\ [Next]_vars => Stays
  BY SettledStep DEF IInv
<1>4. SettledStays <=> [][Stays]_vars
  BY DEF SettledStays
<1>. HIDE DEF J, Stays
<1>. QED  BY <1>1, <1>2, <1>3, <1>4, InvariantInit, InvariantStep, PTL DEF Spec

\* Until some node sets a boundary, everyone's text keeps the prompt (what run
\* generation_overflow shows to fail needs a boundary in the middle of a block).
THEOREM PromptUntilBoundary == Spec => []((\A m \in Nodes : det[m].stop = NoPos) => PromptIntact)
<1>. DEFINE J == AtSyncPoint /\ Schedule /\ InBlock
            K == (\A m \in Nodes : det[m].stop = NoPos) =>
                   \A n \in Nodes : \A q \in DOMAIN Prompt :
                     q \in DOMAIN shared[n] /\ shared[n][q] = Prompt[q]
<1>1. Init => J /\ K
  BY BlocksInit DEF Init
<1>2. IInv /\ J /\ [Next]_vars => J'
  BY ScheduleStep, InBlockStep DEF IInv
<1>3. IInv /\ J /\ K /\ [Next]_vars => K'
  <2>. SUFFICES ASSUME IInv, J, K, [Next]_vars, \A m \in Nodes : det'[m].stop = NoPos,
                       NEW n \in Nodes, NEW q \in DOMAIN Prompt
                PROVE  q \in DOMAIN shared'[n] /\ shared'[n][q] = Prompt[q]
    OBVIOUS
  <2>1. \A m \in Nodes : det[m].stop = NoPos
    BY NoStopBefore DEF IInv
  <2>2. q \in DOMAIN shared[n] /\ shared[n][q] = Prompt[q]
    BY <2>1
  <2>3. q \notin BlockPos(block[n])
    <3>1. PICK b \in Nat : b = block[n]
      BY Sizes DEF IInv, TypeOK
    <3>2. BlockStart(b) \in Nat /\ BlockStart(b) >= GenStart
      BY StopConstants, GenerationConstants DEF BlockStart
    <3>3. q \in Nat /\ q < GenStart
      BY StopConstants, GenerationConstants
    <3>. QED  BY <3>1, <3>2, <3>3, StopConstants DEF BlockPos
  <2>4. shared'[n][q] = shared[n][q]
    BY <2>1, <2>2, <2>3, SettledStep DEF IInv
  <2>5. DOMAIN shared[n] \subseteq DOMAIN shared'[n]
    BY GrowsOnly DEF IInv
  <2>. QED  BY <2>2, <2>4, <2>5
<1>4. K => ((\A m \in Nodes : det[m].stop = NoPos) => PromptIntact)
  BY DEF PromptIntact
<1>. HIDE DEF J, K
<1>. QED  BY <1>1, <1>2, <1>3, <1>4, InvariantInit, InvariantStep, PTL DEF Spec
=============================================================================
