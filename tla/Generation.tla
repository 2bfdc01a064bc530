----------------------------- MODULE Generation -----------------------------
(***************************************************************************)
(* One generation round: GenerationRunner.run_round and _do_sync of        *)
(* node/generation.py on every participant, over SwarmNode.pump_once and   *)
(* collect_until (node/swarm.py), the RoundManager (node/round.py), the    *)
(* denoising step (diffusion/local_step.py), the consensus functions and   *)
(* the stop detector.                                                      *)
(*                                                                         *)
(* Network.  A message is published on every relay; a copy of it reaches a *)
(* node at most once per relay, in any order, the sender's own node        *)
(* included (a relay echoes to everybody), or never: a copy that is lost   *)
(* is one that is never read.  sent is the log of what was published and   *)
(* read[n] the copies node n has taken off its socket.  HEARTBEATs carry   *)
(* no generation state; what they decide is when a follower declares the   *)
(* leader gone, which may happen at any poll that did not read the leader. *)
(*                                                                         *)
(* Time.  Deadlines are not measured: a barrier's deadline may pass at any *)
(* moment, since nothing bounds how long a message or a forward pass takes *)
(* (Impatient names the nodes it may pass on, to bound an instance).       *)
(*                                                                         *)
(* Model.  x is kept as the set of its masked positions.  What the neural  *)
(* network computes (the token it predicts at a position, the confidence   *)
(* that ranks positions, the probability it gives a token) is any value,   *)
(* except that it never predicts the mask token itself.                    *)
(***************************************************************************)
EXTENDS Consensus, StopDetection, SwarmInbox

CONSTANTS Nodes,          \* the participants of the round
          Leader,         \* the one that starts it
          Relays,         \* the relays everyone is connected to
          Links,          \* <<sender, receiver>> pairs with a working path: all of
                          \* Nodes \X Nodes, fewer only to bound an instance
          Tokens,         \* token ids, Eos among them
          Levels,         \* the probabilities a model may give a token
          Prompt,         \* the prompt: position -> token
          BlockLength,    \* gen_cfg.block_length
          Steps,          \* gen_cfg.steps
          SyncEvery,      \* gen_cfg.sync_every
          RemaskReserve,  \* round(remask_reserve_frac * steps_per_block)
          Impatient,      \* the nodes whose barriers may reach their deadline
          Crashable       \* the nodes that may crash

NumBlocks     == GenLength \div BlockLength
StepsPerBlock == Steps \div NumBlocks
AllPos        == 0 .. GenEnd - 1

ASSUME GenerationConstants ==
  /\ IsFiniteSet(Nodes) /\ Leader \in Nodes
  /\ Impatient \subseteq Nodes /\ Crashable \subseteq Nodes
  /\ Links \subseteq Nodes \X Nodes
  /\ Tokens \subseteq Nat /\ Eos \in Tokens
  /\ Levels \subseteq Nat \ {0}
  /\ Prompt \in [0 .. GenStart - 1 -> Tokens]
  /\ BlockLength \in Nat \ {0} /\ BlockLength <= GenLength
  /\ Steps \in Nat /\ StepsPerBlock >= 1
  /\ SyncEvery \in Nat \ {0} /\ RemaskReserve \in Nat

VARIABLES
  pc,        \* where node n is in run_round
  round,     \* round_mgr.active_round is not None (there is one round)
  block,     \* block_idx
  step,      \* step_idx
  seq,       \* sync_seq
  masked,    \* the positions of x that hold the mask token
  pending,   \* pending_commits: position -> token
  shared,    \* shared_x: position -> token
  det,       \* the StopDetector; frozen_from is det.stop
  inbox,     \* _gen_inbox
  received,  \* collect_until's received
  commits,   \* all_commits, while the scores are collected
  scores,    \* my_scores, while the others' are collected
  sent,      \* messages published so far
  read,      \* copies <<relay, message>> each node has read
  full       \* history: no barrier of node n has timed out so far

local == <<block, step, masked, pending, shared, det>>
vars  == <<pc, round, seq, local, inbox, received, commits, scores, sent, read, full>>

Running  == {"poll", "local", "commits", "scores"}
Finished == {"done", "failed", "crashed"}

\* The leader is not waited for.
Others_but_leader(n) == Nodes \ {n, Leader}

\* other_participants: whom a barrier of node n waits for.
Others(n) == Nodes \ {n}

BlockStart(b) == GenStart + b * BlockLength
BlockPos(b)   == BlockStart(b) .. BlockStart(b + 1) - 1
NoEntries     == [q \in {} |-> 0]    \* the empty dict

\* The positions the stop boundary has frozen.
Frozen(d) == IF d.stop = NoPos THEN {} ELSE {q \in AllPos : q >= d.stop}

-----------------------------------------------------------------------------
(* The network and the dispatch of what is read from it. *)

\* The copies on their way to node n; none on a link that is down.
InFlight(n) == {c \in Relays \X sent : c \notin read[n] /\ <<c[2].from, n>> \in Links}

\* transport.poll_recv returned copy c; _dispatch files generation messages.
Take(n, c) ==
  /\ c \in InFlight(n)
  /\ read' = [read EXCEPT ![n] = @ \cup {c}]
  /\ inbox' = [inbox EXCEPT ![n] =
                 IF c[2].type \in {"COMMIT", "DISPUTE_SCORE"} THEN Filed(@, c[2]) ELSE @]

\* on_gen_start (a round that is active already stays), on_gen_done.
RoundAfter(active, m) ==
  CASE m.type = "GEN_START" -> TRUE
    [] m.type = "GEN_DONE"  -> FALSE
    [] OTHER                -> active

\* pump_once: one message is read and dispatched ...
Pump(n, c) ==
  /\ Take(n, c)
  /\ round' = [round EXCEPT ![n] = RoundAfter(@, c[2])]

\* ... or none arrived within the poll's timeout.
PumpNothing == UNCHANGED <<read, inbox, round>>

-----------------------------------------------------------------------------
(* Starting the round. *)

Init ==
  /\ pc       = [n \in Nodes |-> "idle"]
  /\ round    = [n \in Nodes |-> FALSE]
  /\ block    = [n \in Nodes |-> 0]
  /\ step     = [n \in Nodes |-> 0]
  /\ seq      = [n \in Nodes |-> 0]
  /\ masked   = [n \in Nodes |-> GenPos]
  /\ pending  = [n \in Nodes |-> NoEntries]
  /\ shared   = [n \in Nodes |-> Prompt]
  /\ det      = [n \in Nodes |-> NewDetector]
  /\ inbox    = [n \in Nodes |-> {}]
  /\ received = [n \in Nodes |-> {}]
  /\ commits  = [n \in Nodes |-> NoEntries]
  /\ scores   = [n \in Nodes |-> NoEntries]
  /\ sent     = {}
  /\ read     = [n \in Nodes |-> {}]
  /\ full     = [n \in Nodes |-> TRUE]

\* start_round_as_leader, then run_round on the leader.
StartRound ==
  /\ pc[Leader] = "idle" /\ ~round[Leader]
  /\ round' = [round EXCEPT ![Leader] = TRUE]
  /\ pc' = [pc EXCEPT ![Leader] = "poll"]
  /\ sent' = sent \cup {[type |-> "GEN_START", from |-> Leader]}
  /\ UNCHANGED <<seq, local, inbox, received, commits, scores, read, full>>

\* wait_for_round on a follower: pump until a round is active, then run it.
WaitForRound(n) ==
  /\ pc[n] = "idle" /\ n # Leader
  /\ \E c \in InFlight(n) : Pump(n, c)
  /\ pc' = [pc EXCEPT ![n] = IF round'[n] THEN "poll" ELSE "idle"]
  /\ UNCHANGED <<seq, local, received, commits, scores, sent, full>>

-----------------------------------------------------------------------------
(* A denoising step. *)

\* The poll at the head of every step: at most one message is read.
Poll(n) ==
  /\ pc[n] = "poll"
  /\ PumpNothing \/ \E c \in InFlight(n) : Pump(n, c)
  /\ pc' = [pc EXCEPT ![n] = "local"]
  /\ UNCHANGED <<seq, local, received, commits, scores, sent, full>>

\* check_leader_timeout after a poll that did not read the leader: the round
\* fails on this node and run_round returns None.
LeaderTimeout(n) ==
  /\ pc[n] = "poll" /\ round[n] /\ n # Leader
  /\ \/ UNCHANGED <<read, inbox>>
     \/ \E c \in InFlight(n) : c[2].from # Leader /\ Take(n, c)
  /\ pc' = [pc EXCEPT ![n] = "failed"]
  /\ round' = [round EXCEPT ![n] = FALSE]
  /\ UNCHANGED <<seq, local, received, commits, scores, sent, full>>

\* The masked positions of the current block.
remaining(n) == masked[n] \cap BlockPos(block[n])

\* The masked positions of the block that are open for transfer.
eligible(n) == remaining(n) \ Frozen(det[n])

\* A fixed share of the block per step, whatever was re-masked since.
transfer_count_fixed(n) == BlockLength \div StepsPerBlock

\* Every masked position of the sequence counted, not only the block's.
transfer_count_whole(n) ==
  LET left == StepsPerBlock - step[n]
  IN  (Cardinality(masked[n]) + left - 1) \div left

\* k: the remaining masks spread over the remaining steps, rounded up.
transfer_count(n) ==
  LET left == StepsPerBlock - step[n]
  IN  (Cardinality(remaining(n)) + left - 1) \div left

\* topk over the confidences: the k best open positions or, when fewer are
\* open, all of them and any others, which all tie at minus infinity.
TransferSets(n) ==
  {T \in SUBSET AllPos :
     /\ Cardinality(T) = transfer_count(n)
     /\ T \subseteq eligible(n) \/ eligible(n) \subseteq T}

\* The settled positions of the block a step may re-open: none in the last
\* reserve_steps steps.
RemaskSets(n) ==
  IF StepsPerBlock - step[n] > Max({1, RemaskReserve})
  THEN SUBSET (BlockPos(block[n]) \ (masked[n] \cup Frozen(det[n])))
  ELSE {{}}

\* A sync happens at every SyncEvery-th step, and at the last of a block.
SyncPoint(s) == (s + 1) % SyncEvery = 0 \/ s = StepsPerBlock - 1

\* The commits of this step override earlier ones at the same position.
Overridden(old, new) ==
  [q \in DOMAIN old \cup DOMAIN new |-> IF q \in DOMAIN new THEN new[q] ELSE old[q]]

\* local_step, and the update of pending_commits from its transfer.
Denoise(n) ==
  \E remask \in RemaskSets(n), transfer \in TransferSets(n) :
    \E x0 \in [transfer -> Tokens] :
      /\ masked' = [masked EXCEPT ![n] = (@ \cup remask) \ transfer]
      /\ pending' = [pending EXCEPT ![n] = Overridden(@, x0)]

\* A step that is not followed by a sync.
LocalStep(n) ==
  /\ pc[n] = "local" /\ ~SyncPoint(step[n])
  /\ Denoise(n)
  /\ step' = [step EXCEPT ![n] = @ + 1]
  /\ pc' = [pc EXCEPT ![n] = "poll"]
  /\ UNCHANGED <<round, seq, block, shared, det, inbox, received, commits, scores,
                 sent, read, full>>

\* A step followed by a sync: _do_sync publishes this node's COMMIT and enters
\* collect_until with what the inbox holds for this sync already.
LocalStepThenSync(n) ==
  /\ pc[n] = "local" /\ SyncPoint(step[n])
  /\ Denoise(n)
  /\ sent' = sent \cup {[type |-> "COMMIT", from |-> n, seq |-> seq[n],
                         commits |-> pending'[n]]}
  /\ received' = [received EXCEPT ![n] = Bucket(inbox[n], "COMMIT", seq[n], Others(n))]
  /\ pc' = [pc EXCEPT ![n] = "commits"]
  /\ UNCHANGED <<round, seq, block, step, shared, det, inbox, commits, scores, read, full>>

-----------------------------------------------------------------------------
(* The two barriers of a sync. *)

\* remaining, of collect_until: the participants not heard of in this barrier.
Missing(n) == Others(n) \ Senders(received[n])

\* One turn of collect_until's loop that reads a message.
Collect(n, type) ==
  /\ Missing(n) # {}
  /\ \E c \in InFlight(n) :
       /\ Pump(n, c)
       /\ received' = [received EXCEPT ![n] =
            IF Same(c[2], type, seq[n]) /\ c[2].from \in Others(n)
            THEN Filed(@, c[2]) ELSE @]
  /\ UNCHANGED <<pc, seq, local, commits, scores, sent, full>>

CollectCommits(n) == pc[n] = "commits" /\ Collect(n, "COMMIT")
CollectScores(n)  == pc[n] = "scores" /\ Collect(n, "DISPUTE_SCORE")

\* all_commits: this node's own and the ones received.
AllCommits(n) ==
  [o \in {n} \cup Senders(received[n]) |->
     IF o = n THEN pending[n] ELSE (CHOOSE m \in received[n] : m.from = o).commits]

\* The others' scores are not folded in.
AllScores_own(n) == [o \in {n} |-> scores[n]]

\* all_scores, likewise.
AllScores(n) ==
  [o \in {n} \cup Senders(received[n]) |->
     IF o = n THEN scores[n] ELSE (CHOOSE m \in received[n] : m.from = o).scores]

\* The node's probabilities for the disputed tokens.
ScoresFor(disputes) ==
  {s \in [DOMAIN disputes -> UNION {[D -> Levels] : D \in SUBSET Tokens}] :
     \A q \in DOMAIN disputes : DOMAIN s[q] = disputes[q]}

\* A participant goes on to wait for reports until everyone's has come.
BarrierOver_no_deadline(n) == Missing(n) = {}

\* collect_until's loop ends when nobody is missing, or at its deadline.
BarrierOver(n) == Missing(n) = {} \/ n \in Impatient

\* One block too many.
HasNextBlock_off_by_one(b, d) ==
  b < NumBlocks /\ (d.stop = NoPos \/ BlockStart(b + 1) < d.stop)

\* The block after b, unless it is the last or lies past the boundary.
HasNextBlock(b, d) ==
  b + 1 < NumBlocks /\ (d.stop = NoPos \/ BlockStart(b + 1) < d.stop)

\* The end of _do_sync and of the step: merge, stop check, next step or block;
\* a leader whose round ends, and is still active, announces it.
FinishSync(n, all_commits, resolved) ==
  \E shared_x \in {merge_consensus(shared[n], all_commits, resolved)} :
  \E d \in {Check(det[n], shared_x)} :
  LET is_last  == step[n] = StepsPerBlock - 1
      ends     == is_last /\ ~HasNextBlock(block[n], d)
  IN  /\ shared'  = [shared EXCEPT ![n] = shared_x]
      /\ det'     = [det EXCEPT ![n] = d]
      /\ seq'     = [seq EXCEPT ![n] = @ + 1]
      /\ pending' = [pending EXCEPT ![n] = NoEntries]
      /\ masked'  = [masked EXCEPT ![n] = @ \ (DOMAIN shared_x \cap BlockPos(block[n]))]
      /\ step'    = [step EXCEPT ![n] = IF is_last THEN 0 ELSE @ + 1]
      /\ block'   = [block EXCEPT ![n] = IF is_last /\ ~ends THEN @ + 1 ELSE @]
      /\ pc'      = [pc EXCEPT ![n] = IF ends THEN "done" ELSE "poll"]
      /\ sent'    = IF ends /\ n = Leader /\ round[n]
                    THEN sent \cup {[type |-> "GEN_DONE", from |-> n]} ELSE sent

\* The commit barrier ends and nothing is disputed: the sync is over.
EndCommitsAgreed(n) ==
  /\ pc[n] = "commits" /\ BarrierOver(n)
  /\ DOMAIN detect_disputes(AllCommits(n)) = {}
  /\ FinishSync(n, AllCommits(n), NoEntries)
  /\ full' = [full EXCEPT ![n] = @ /\ Missing(n) = {}]
  /\ inbox' = [inbox EXCEPT ![n] = Popped(@, "COMMIT", seq[n])]
  /\ received' = [received EXCEPT ![n] = {}]
  /\ UNCHANGED <<round, commits, scores, read>>

\* The commit barrier ends with disputes: phase 2 begins.
EndCommitsDisputed(n) ==
  /\ pc[n] = "commits" /\ BarrierOver(n)
  /\ DOMAIN detect_disputes(AllCommits(n)) # {}
  /\ commits' = [commits EXCEPT ![n] = AllCommits(n)]
  /\ \E my_scores \in ScoresFor(detect_disputes(AllCommits(n))) :
       /\ scores' = [scores EXCEPT ![n] = my_scores]
       /\ sent' = sent \cup {[type |-> "DISPUTE_SCORE", from |-> n, seq |-> seq[n],
                              scores |-> my_scores]}
  /\ full' = [full EXCEPT ![n] = @ /\ Missing(n) = {}]
  /\ inbox' = [inbox EXCEPT ![n] = Popped(@, "COMMIT", seq[n])]
  /\ received' = [received EXCEPT ![n] =
                    Bucket(inbox[n], "DISPUTE_SCORE", seq[n], Others(n))]
  /\ pc' = [pc EXCEPT ![n] = "scores"]
  /\ UNCHANGED <<round, seq, local, read>>

\* The score barrier ends: the disputes are resolved and the sync is over.
EndScores(n) ==
  /\ pc[n] = "scores" /\ BarrierOver(n)
  /\ FinishSync(n, commits[n], resolve_disputes(AllScores(n)))
  /\ full' = [full EXCEPT ![n] = @ /\ Missing(n) = {}]
  /\ inbox' = [inbox EXCEPT ![n] = Popped(@, "DISPUTE_SCORE", seq[n])]
  /\ received' = [received EXCEPT ![n] = {}]
  /\ commits' = [commits EXCEPT ![n] = NoEntries]
  /\ scores' = [scores EXCEPT ![n] = NoEntries]
  /\ UNCHANGED <<round, read>>

\* The node's process dies, at any moment.
Crash(n) ==
  /\ n \in Crashable /\ pc[n] \notin Finished
  /\ pc' = [pc EXCEPT ![n] = "crashed"]
  /\ UNCHANGED <<round, seq, local, inbox, received, commits, scores, sent, read, full>>

-----------------------------------------------------------------------------

\* What node n does of its own accord once the round runs.
Proceed(n) ==
  \/ Poll(n) \/ LocalStep(n) \/ LocalStepThenSync(n)
  \/ EndCommitsAgreed(n) \/ EndCommitsDisputed(n) \/ EndScores(n)

Next ==
  \/ StartRound
  \/ \E n \in Nodes :
       \/ WaitForRound(n) \/ LeaderTimeout(n)
       \/ CollectCommits(n) \/ CollectScores(n)
       \/ Proceed(n) \/ Crash(n)

Spec == Init /\ [][Next]_vars

\* A node's thread keeps running until it crashes, and every poll and every
\* barrier has a deadline.  Nothing is assumed of the network.
Fairness == WF_vars(StartRound) /\ \A n \in Nodes : WF_vars(Proceed(n))
FairSpec == Spec /\ Fairness

-----------------------------------------------------------------------------
(* Properties. *)

Partial(S, T) == UNION {[D -> T] : D \in SUBSET S}

Dicts == Partial(AllPos, Tokens)

Message ==
       [type : {"GEN_START", "GEN_DONE"}, from : {Leader}]
  \cup [type : {"COMMIT"}, from : Nodes, seq : Nat, commits : Dicts]
  \cup [type : {"DISPUTE_SCORE"}, from : Nodes, seq : Nat,
        scores : Partial(AllPos, Partial(Tokens, Levels))]

\* The state of every node stays within its type: in particular the loop never
\* leaves the blocks of the round (block, step), masks only generated
\* positions, and holds in its inbox and barriers only messages really sent.
TypeOK ==
  /\ pc \in [Nodes -> {"idle"} \cup Running \cup Finished]
  /\ round \in [Nodes -> BOOLEAN] /\ full \in [Nodes -> BOOLEAN]
  /\ block \in [Nodes -> 0 .. NumBlocks - 1] /\ step \in [Nodes -> 0 .. StepsPerBlock - 1]
  /\ seq \in [Nodes -> Nat]
  /\ masked \in [Nodes -> SUBSET GenPos]
  /\ pending \in [Nodes -> Dicts]
  /\ DOMAIN shared = Nodes /\ \A n \in Nodes : DOMAIN shared[n] \subseteq AllPos
  /\ det \in [Nodes -> Detectors]
  /\ sent \subseteq Message
  /\ inbox \in [Nodes -> SUBSET sent] /\ received \in [Nodes -> SUBSET sent]
  /\ read \in [Nodes -> SUBSET (Relays \X sent)]
  /\ commits \in [Nodes -> Partial(Nodes, Dicts)]
  /\ scores \in [Nodes -> Partial(AllPos, Partial(Tokens, Levels))]

\* Every participant runs the same functions "over the same shared consensus
\* state, instead of one designated node deciding" (stop_detection.py): two
\* nodes none of whose barriers timed out hold, after the same number of
\* syncs, the same text and the same stop boundary, whatever the order, the
\* duplication and the losses of messages elsewhere.
Agreement ==
  \A n, m \in Nodes :
    full[n] /\ full[m] /\ seq[n] = seq[m] => shared[n] = shared[m] /\ det[n] = det[m]

\* A barrier is one: a node none of whose barriers timed out is at most one
\* sync ahead of any participant, however slow, failed or dead that one is.
BarrierSkew == \A n, m \in Nodes : full[n] => seq[n] <= seq[m] + 1

\* "Any gen-protocol message it happens to pick up early goes into SwarmNode's
\* durable inbox [...] so a LATER collect_until call for the same sync still
\* finds it" (generation.py): every report read off the wire, at whatever
\* moment, counts in the barrier it was sent for.
NoReportLost ==
  \A n \in Nodes : \A c \in read[n] :
    LET m == c[2]
        wanted == \/ pc[n] = "commits" /\ m.type = "COMMIT"
                  \/ pc[n] = "scores" /\ m.type = "DISPUTE_SCORE"
    IN  wanted /\ m.from # n /\ m.seq = seq[n] => m \in received[n]

\* A node that finishes the round has a token for every generated position
\* before the stop boundary (for every position of the blocks if there is
\* none), whatever was re-masked on the way, whatever reports were lost.
GapFree ==
  \A n \in Nodes : pc[n] = "done" =>
    {q \in GenPos : q < BlockStart(NumBlocks)} \ Frozen(det[n]) \subseteq DOMAIN shared[n]

\* While no stop boundary is set, a node commits positions of its current
\* block only: the number of positions a step transfers never exceeds the
\* open ones, which is what the count "scoped to THIS block only" is for
\* (local_step.py), so neither prompt nor finished text is overwritten.
CommitsInBlock ==
  \A n \in Nodes :
    (\A m \in Nodes : det[m].stop = NoPos) =>
      /\ DOMAIN pending[n] \subseteq BlockPos(block[n])
      /\ DOMAIN shared[n] \subseteq 0 .. BlockStart(block[n] + 1) - 1

\* merge_consensus "applies one sync's commits to the shared consensus state"
\* (consensus.py) and nothing else: a node's text holds its prompt and tokens
\* that somebody published for that position in a sync it has been through.  No
\* token is made up, taken from a sync still ahead or carried to another position,
\* not even where a barrier timed out and the node resolves disputes from scores
\* about commits it never received.
NoInventedToken ==
  \A n \in Nodes : \A q \in DOMAIN shared[n] :
    \/ q \in DOMAIN Prompt /\ shared[n][q] = Prompt[q]
    \/ \E m \in sent : /\ m.type = "COMMIT" /\ m.seq < seq[n]
                       /\ q \in DOMAIN m.commits /\ m.commits[q] = shared[n][q]

\* While no stop boundary is set, what lies outside the block a node works on is
\* settled: no step changes a token of the prompt or of a finished block, so a
\* late report of an earlier block has no effect.
SettledStays ==
  [][(\A m \in Nodes : det[m].stop = NoPos) =>
       \A n \in Nodes : \A q \in DOMAIN shared[n] \ BlockPos(block[n]) :
         shared'[n][q] = shared[n][q]]_vars

\* Every node that enters the round leaves it (done, failed or crashed), even
\* when no message is ever delivered: nobody waits on anybody for ever.
Termination ==
  \A n \in Nodes : pc[n] \in Running ~> pc[n] \in Finished

\* "prompt / earlier blocks - never a transfer target" (local_step.py): the
\* shared state keeps the prompt it started from.
PromptIntact == \A n \in Nodes : \A q \in DOMAIN Prompt : shared[n][q] = Prompt[q]
=============================================================================
