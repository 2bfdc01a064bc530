------------------------ MODULE GenerationInvariants ------------------------
(***************************************************************************)
(* The inductive invariant behind the theorems of GenerationProofs: what   *)
(* has been published, what each barrier holds, and how the states of two  *)
(* nodes one sync apart are related.                                       *)
(***************************************************************************)
EXTENDS Generation

Reports == {"COMMIT", "DISPUTE_SCORE"}

\* m is node o's report of this type for sync k.
IsReport(m, type, o, k) == m.type = type /\ m.from = o /\ m.seq = k

\* That report has been published, and is this one.
Reported(type, o, k) == \E m \in sent : IsReport(m, type, o, k)
ReportOf(type, o, k) == CHOOSE m \in sent : IsReport(m, type, o, k)

\* What everyone published for sync k.
SentCommits(k) == [o \in Nodes |-> ReportOf("COMMIT", o, k).commits]
SentScores(k)  == [o \in Nodes |-> ReportOf("DISPUTE_SCORE", o, k).scores]

\* Everyone published its commits for sync k, and its scores if it has disputes.
AllReported(k) ==
  /\ \A o \in Nodes : Reported("COMMIT", o, k)
  /\ DOMAIN detect_disputes(SentCommits(k)) # {} =>
       \A o \in Nodes : Reported("DISPUTE_SCORE", o, k)

\* The text that sync k makes of text s when nothing is missing.
Merged(s, k) ==
  merge_consensus(s, SentCommits(k),
    IF DOMAIN detect_disputes(SentCommits(k)) = {} THEN NoEntries
    ELSE resolve_disputes(SentScores(k)))

-----------------------------------------------------------------------------

\* A node publishes at most one report of a kind per sync, so a duplicate or a
\* late copy can only repeat what is already known.
OneReport ==
  \A x, y \in sent :
    x.type \in Reports /\ x.type = y.type /\ x.from = y.from /\ x.seq = y.seq => x = y

\* A node has published nothing for a later sync, and for its current one only
\* what the phase it is in has published.
SentInOrder ==
  \A x \in sent : x.type \in Reports =>
    /\ x.seq <= seq[x.from]
    /\ x.seq = seq[x.from] =>
         \/ pc[x.from] \in {"scores", "crashed"}
         \/ pc[x.from] = "commits" /\ x.type = "COMMIT"

\* In a barrier, a node's own report is out and is what it works with.
OwnReport ==
  \A n \in Nodes :
    /\ pc[n] \in {"commits", "scores"} =>
         \E m \in sent : IsReport(m, "COMMIT", n, seq[n]) /\ m.commits = pending[n]
    /\ pc[n] = "scores" =>
         \E m \in sent : IsReport(m, "DISPUTE_SCORE", n, seq[n]) /\ m.scores = scores[n]

\* A barrier holds reports of the others, of its own kind and sync.
ReceivedWanted ==
  \A n \in Nodes : \A m \in received[n] :
    /\ pc[n] = "commits" => m.from \in Others(n) /\ IsReport(m, "COMMIT", m.from, seq[n])
    /\ pc[n] = "scores" => m.from \in Others(n) /\ IsReport(m, "DISPUTE_SCORE", m.from, seq[n])

\* A node that missed nothing enters phase 2 with everyone's commits.
CommitsCollected ==
  \A n \in Nodes : pc[n] = "scores" =>
    /\ DOMAIN detect_disputes(commits[n]) # {}
    /\ full[n] => /\ \A o \in Nodes : Reported("COMMIT", o, seq[n])
                  /\ commits[n] = SentCommits(seq[n])

\* A node that missed nothing left its last sync after everyone had reported.
Passed == \A n \in Nodes : full[n] /\ seq[n] > 0 => AllReported(seq[n] - 1)

\* Of two nodes that missed nothing, the one ahead holds what the sync the
\* other is in will make of the other's state.
Ahead ==
  \A n, m \in Nodes :
    full[n] /\ full[m] /\ seq[n] = seq[m] + 1 =>
      shared[n] = Merged(shared[m], seq[m]) /\ det[n] = Check(det[m], shared[n])

\* The barrier node n is in waits for reports like m.
Wanted(n, m) ==
  /\ m.seq = seq[n]
  /\ \/ pc[n] = "commits" /\ m.type = "COMMIT"
     \/ pc[n] = "scores" /\ m.type = "DISPUTE_SCORE"

\* A report somebody else sent that has been read is in the barrier that wants
\* it; before that barrier it is in the inbox, and only a commit whose barrier
\* is over is nowhere.
Kept ==
  \A n \in Nodes : \A c \in read[n] :
    c[2].type \in Reports /\ c[2].from # n /\ c[2].seq >= seq[n] /\ pc[n] # "crashed" =>
      \/ Wanted(n, c[2]) /\ c[2] \in received[n]
      \/ ~Wanted(n, c[2]) /\ c[2] \in inbox[n]
      \/ pc[n] = "scores" /\ c[2].type = "COMMIT" /\ c[2].seq = seq[n]

-----------------------------------------------------------------------------
(* Where the tokens of a text come from. *)

\* Somebody published token t for position q in sync k.
Published(q, t, k) ==
  \E m \in sent : m.type = "COMMIT" /\ m.seq = k /\ q \in DOMAIN m.commits /\ m.commits[q] = t

\* The collected commits are ones published for sync k.
AllPublished(all, k) == \A o \in DOMAIN all : \A q \in DOMAIN all[o] : Published(q, all[o][q], k)

\* So are the commits phase 2 works with; and what is scored, by whomever, is a
\* finite number of tokens published for that position in the same sync.
Traced ==
  /\ \A n \in Nodes : pc[n] = "scores" => AllPublished(commits[n], seq[n])
  /\ \A m \in sent : m.type = "DISPUTE_SCORE" =>
       \A q \in DOMAIN m.scores :
         /\ DOMAIN m.scores[q] # {} /\ IsFiniteSet(DOMAIN m.scores[q])
         /\ \A t \in DOMAIN m.scores[q] : Published(q, t, m.seq)

-----------------------------------------------------------------------------
(* What a block leaves behind, and what it does not touch. *)

\* Node n has a token for every generated position before k that is not frozen.
Filled(n, k) == {q \in GenPos : q < k} \ Frozen(det[n]) \subseteq DOMAIN shared[n]

\* No position gets lost between x, pending_commits and shared_x: a position
\* that is not masked has a token in one of the last two, a sync merges the
\* node's own commits, and after the last step of a block only frozen positions
\* of it are still masked.
NoGap ==
  \A n \in Nodes :
    /\ GenPos \ masked[n] \subseteq DOMAIN pending[n] \cup DOMAIN shared[n]
    /\ pc[n] = "scores" => n \in DOMAIN commits[n] /\ commits[n][n] = pending[n]
    /\ pc[n] \in {"commits", "scores"} /\ step[n] = StepsPerBlock - 1 =>
         masked[n] \cap BlockPos(block[n]) \subseteq Frozen(det[n])
    /\ Filled(n, BlockStart(block[n]))
    /\ pc[n] = "done" => Filled(n, BlockStart(NumBlocks))

\* The number of syncs in a block, and the block that sync k belongs to.
SyncsPerBlock == ((StepsPerBlock - 1) \div SyncEvery) + 1
BlockOf(k)    == k \div SyncsPerBlock

\* sync_seq counts the syncs of the finished blocks and of the current one, on
\* every node alike: reports for one sync are reports about one block.
Schedule ==
  \A n \in Nodes :
    seq[n] = IF pc[n] = "done" THEN (block[n] + 1) * SyncsPerBlock
             ELSE block[n] * SyncsPerBlock + (step[n] \div SyncEvery)

\* A barrier is entered at a sync point only.
AtSyncPoint == \A n \in Nodes : pc[n] \in {"commits", "scores"} => SyncPoint(step[n])

\* While there is no boundary, every commit on the wire, in a barrier or
\* pending lies in the block of its sync.
InBlock ==
  (\A m \in Nodes : det[m].stop = NoPos) =>
    /\ \A m \in sent : m.type = "COMMIT" => DOMAIN m.commits \subseteq BlockPos(BlockOf(m.seq))
    /\ \A n \in Nodes :
         /\ pc[n] = "scores" => ProposedPositions(commits[n]) \subseteq BlockPos(block[n])
         /\ DOMAIN pending[n] \subseteq BlockPos(block[n])
         /\ DOMAIN shared[n] \subseteq 0 .. BlockStart(block[n] + 1) - 1

-----------------------------------------------------------------------------

\* The state of the round as the state of one replicated text: a node is in
\* step as long as none of its barriers timed out.
Text == INSTANCE ReplicatedText
          WITH NoStop <- NoPos, at <- seq, text <- shared,
               stop <- [n \in Nodes |-> det[n].stop],
               strayed <- {n \in Nodes : ~full[n]}

\* Nodes that never gave up waiting go through one and the same sequence of
\* texts and stop boundaries, sync by sync, although no one decides it and
\* reports arrive early, late or twice; and on every node, strayed or not, a
\* sync loses no position (merge_consensus) and never withdraws or raises the
\* boundary (StopDetector.check).
ImplementsText == Text!Spec

IInv ==
  /\ TypeOK /\ OneReport /\ SentInOrder /\ OwnReport /\ ReceivedWanted
  /\ CommitsCollected /\ Passed /\ Agreement /\ Ahead
=============================================================================
