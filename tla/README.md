# Verification of the DED swarm

TLA+ models of the decentralised diffusion swarm in this repository, TLC
configurations that check them on small instances, and TLAPS proofs of the
central results for every instance.

## 1. The system

Several nodes, each with its own copy of a masked-diffusion language model,
generate one text together. A node denoises positions locally for a few steps,
then *syncs* with everybody else; there is no adjudicator, every node computes
the outcome of a sync from what it has received. Messages travel over stateless
publish/subscribe relays, and every node is connected to all of them.

| component | state | operations | talks to |
|---|---|---|---|
| generation loop, `node/generation.py` | `x` (local sequence), `shared_x` (agreed text), `pending_commits`, block, step, `sync_seq`, stop boundary | `run_round`: per step a poll, a leader check, a denoising step, at sync points `_do_sync` | everything below |
| swarm inbox, `node/swarm.py` | `_gen_inbox`, keyed by type, round and sync | `_dispatch`, `pump_once`, `collect_until`, `start_round_as_leader`, `wait_for_round`, heartbeat thread | transport, round manager, peer table |
| round manager, `node/round.py` | `active_round` | `start_round`, `on_gen_start`, `on_gen_done`, `note_leader_activity`, `check_leader_timeout` | called by the inbox |
| denoising step, `diffusion/local_step.py` | none (x and age are arguments) | `local_step`: which positions to re-open, which to settle | the model |
| consensus, `diffusion/consensus.py` | none | `detect_disputes`, `resolve_disputes`, `merge_consensus` | called by `_do_sync` |
| stop detection, `diffusion/stop_detection.py` | boundary, candidate, confirmations | `check`, once per sync | called by `_do_sync` |
| peer table and membership node, `node/peers.py`, `node/node.py` | `last_seen`, last announced leader | `mark_alive`, `mark_gone`, `alive_peers`, `leader_changed` | HEARTBEAT, HELLO, BYE |
| transport and relay, `node/transport.py`, `relay/relay.py` | sockets | `publish`, `poll_recv`, forwarding | ZeroMQ |
| wire protocol and configuration, `common/` | constants | `encode`, `decode` | msgpack |

**What is hard.** Nodes run at different speeds, so a fast node's reports reach
a slow one before it asks for them. Relays duplicate every message and echo it
to its sender; PUB/SUB loses messages silently. Barriers and the leader watch
have deadlines, which race with late answers. Re-masking undoes settled
positions while a fixed number of steps is left. All agreement rests on every
node computing the same function of the same inputs.

**What makes it correct.** Nodes that missed nothing hold the same text and the
same boundary (consensus, inbox); a barrier is a barrier (collection); no report
that was read is lost (inbox); a round always ends (deadlines); a block is left
without gaps and without touching anything outside it (denoising step); a stop
boundary is confirmed, honoured and only ever lowered (stop detection); a node keeps
to one round at a time and leaves it, also one that a late copy of GEN_START
has reopened (round manager); the
lowest living node is leader everywhere once heartbeats settle (peer table).
`PROJECT.json` lists the hazards line by line.

## 2. Modules

| module | models |
|---|---|
| `Consensus` | the three pure functions, with exact sums |
| `ConsensusOrder` | phase 2 of one sync with rounded sums, added in each node's own order |
| `StopDetection`, `StopDetectorRun` | `StopDetector.check`; the detector over the syncs of a round |
| `SwarmInbox` | `_gen_inbox`: filing, lookup, removal |
| `Generation` | one round on every node; extends `Consensus`, `StopDetection`, `SwarmInbox` |
| `ReplicatedText` | abstract: what a round promises, one text that all nodes in step settle sync by sync |
| `GenerationInvariants` | the inductive invariants of `Generation`, and the mapping to `ReplicatedText` |
| `Rounds` | `round.py` and the life cycle in `swarm.py` over several rounds and initiators, the inside of a round left out |
| `LeaderWatch` | a follower's step loop in seconds: the queue of its socket, the poll, the leader timeout |
| `Membership` | `peers.py` and `node.py` on every node in measured time |
| `MCConsensusOrder`, `MCGeneration`, `MCMembership` | values for constants |
| `FiniteSetLemmas` | lemmas: what `Min`, `Max` and `SumFunction` of the community modules return on finite sets |
| `StopDetectionProofs`, `StopDetectorProofs` | lemmas about `Check`; theorems about the detector over a round |
| `GenerationProofs` | theorems: types, agreement, the barrier, the inbox |
| `GenerationTextProofs` | theorems about the text: a round implements `ReplicatedText`; where tokens come from; no gap, nothing outside the block, nothing settled changes |
| `ConsensusOrderProofs` | theorems: exact sums give one winner, the best, and the one of `Consensus` |
| `RoundsProofs`, `MembershipProofs` | theorems about `Rounds` and `Membership` |

The three parts of the life of a round are modelled at three grains, because no
one instance could hold them together: `Generation` keeps the data of one round and
lets every deadline pass at will; `Rounds` keeps which round a node is in, and lets a
leader timeout happen at any moment; `LeaderWatch` keeps the seconds, and shows that
such a timeout really can hit a living leader.

### Generation and the code

`pc[n]` is where node n is in `run_round`: `idle` (not in the round), `poll`
(head of a step), `local` (before `local_step`), `commits` and `scores` (inside
the two `collect_until` calls), `done`, `failed` (leader declared silent),
`crashed`. The other variables carry the names of the code's; `masked` stands for
`x`, of which only "is this position the mask token" matters; `det` is the
detector, and `frozen_from` is its `stop`. `full[n]` is a history variable: no
barrier of node n has timed out so far.

| action | code |
|---|---|
| `StartRound`, `WaitForRound` | `start_round_as_leader`, `wait_for_round` |
| `Poll`, `LeaderTimeout` | `pump_once(10)` and `check_leader_timeout` at the head of a step |
| `LocalStep`, `LocalStepThenSync` | `local_step`, update of `pending_commits`; at a sync point also the publication of COMMIT and the lookup `collect_until` starts with |
| `CollectCommits`, `CollectScores` | one turn of `collect_until`'s loop that reads a message |
| `EndCommitsAgreed`, `EndCommitsDisputed`, `EndScores` | the loop's end, disputes, scoring, merge, stop check, bookkeeping and, on the last step, the next block or the end of the round |
| `Crash` | the process dies |

Abstractions. The model's predictions and confidences are arbitrary: the token
at a position is any token, a probability any level, so `RemaskSets` and
`TransferSets` hold every set the confidences (and, for re-masking, the ages, the
confidence threshold and the cap) could select. The prediction is never the mask
token. When a step must transfer more positions than are open, `topk` picks among
positions tied at minus infinity, and the model allows any of them. Deadlines are
not measured: one may pass at any moment on the nodes in `Impatient`, and a
follower may declare the leader silent at any poll that has not just read a
message of the leader. The network is the set `sent` and, per node, the copies
`read`: a copy arrives at most once per relay, in any order, or never, which
contains the behaviour of ZeroMQ's FIFO pipes. Sums of probabilities are exact
in `Generation` (`Total`); what rounding adds is isolated in `ConsensusOrder`. Two floats
add up to the same in either order, so for two participants nothing is lost; the
theorems about `Generation` for three or more speak of exact sums.

### Rounds and the code

`active_round[n]` is the round manager's field, `running[n]` the round that
`run_round` was entered for: the two part when GEN_DONE or another GEN_START is read in
mid-run. Between rounds the driver of a node, which the repository leaves to its
user, either starts a round (an initiator, with no round active, as the assertion of
`start_round_as_leader` demands) or calls `wait_for_round`, and then enters `run_round`.
Every relay keeps an ordered stream for every node, so each message has as many copies
as there are relays. `joins` and `completed` are history: how often a node has joined
a round, and the rounds it has run to their end. `Publish` waits while some stream holds
`PipeSize` messages, which a PUB socket never does: a bound, as `MaxStarts` is.

| action | code |
|---|---|
| `StartRound` | `start_round_as_leader`, `start_round` |
| `EnterRound` | `wait_for_round` returns, `run_round` takes the round's id |
| `Read` | `pump_once`: `_dispatch`, `on_gen_start`, `on_gen_done` |
| `LeaderTimeout` | `check_leader_timeout`, `run_round` returns None |
| `CompleteRound` | the end of `run_round` with the leader's GEN_DONE |
| `Crash` | the process dies |

### Membership and the code

`last_seen` and `prev_leader` are the peer table; `Join`, `LoopBeat`, `LoopQuiet` and `Leave`
are the start of `Node.run`, a turn of its loop with and without a heartbeat, and its
end with BYE; `Kill` is a crash. `Tick` lets a unit of time (a second in the
instances) pass once every node has gone round its loop and every message as old as
`MaxDelay` has been read. `pipe[r][n]` is the ordered stream from relay r to node n. A
publication may be missed on any relay, and on all of them at most `MaxLost` times in a
row per sender and receiver. `Skew` sets clocks apart. `life` and `gone` are history.

### LeaderWatch and the code

`StepHead` is the poll and the leader check, `StepEnd` the return of `local_step` and at a
sync the own COMMIT, `LeaderCommit` the leader's, `Barrier` a turn of `collect_until`; `Arrive`
puts a copy into the socket's queue, the node's own echo among them. Heartbeats go out
every 2 s, a step takes 3 (2.9 in the comments of `generation.py`; three of them
exceed 8 s either way), a sync comes every five steps (about 14 s, as they say).

## 3. Runs

`CHECK_DEADLOCK FALSE` in every configuration: a round, a resolved dispute and a
bounded number of syncs, rounds or seconds really end.

| run | shows |
|---|---|
| `consensus_exact` | with exact sums, everyone who heard the same scores adopts the same token, in whatever order they arrived; no proposed token has a higher sum; and it is the token `Consensus` computes (`ExactConsensus`) |
| `stop_detection` | all sequences of four syncs over three positions: the boundary was the end of the text at two checks in a row, is set at the check that confirms it, and is never withdrawn or raised |
| `generation_sync` | two nodes, one position re-masked and settled again over three syncs, disputes of unequal levels, boundaries, barriers that either gives up, a follower that crashes or times out the leader: types, agreement, barrier skew, durability of early reports, `ImplementsText`, and that everyone leaves the round (`Termination`) |
| `generation_block` | two blocks of two positions, three steps each with re-masking, syncs in mid-block and at the end, a leader that gives up its barriers: agreement where some positions are disputed and others not, the origin of every token (`NoInventedToken`), no gaps before the boundary, no commit outside the block while there is no boundary, and nothing outside it changes (`SettledStays`) |
| `membership` | two nodes, two relays, the intervals of `config.py`, one publication in two lost, a second of delay, clocks a second apart: no running peer is suspected, and `PEER_TIMEOUT` after a join, departure or crash everyone announces the right leader |
| `rounds` | two initiators, two relays, a crash, leader timeouts at will, no copy lost: no switch of rounds; a finished round is joined again at most once per further copy of its GEN_START (`JoinsPerCopy`); whoever is in a round its leader has completed has GEN_DONE on its way to it (`EndUnderWay`); and every round ends on every node |

Six runs end in a counterexample: the code and what is said of it disagree.

* `consensus_rounding`: the scores of three nodes, the same for all, summed in two
  orders, give two winners. `all_scores` starts with the node's own entry and goes
  on in order of arrival, and float addition is not associative. (Three-bit
  significands in the instance; with doubles the probabilities 0.2, 0.2, 0.7 for
  one token and 0.1, 0.75, 0.25 for the other do it.) Sorting the reporters before
  summing would remove it.
* `generation_overflow`: a boundary confirmed in mid-block leaves masked positions
  behind it which `remaining` still counts, so k exceeds the open positions and
  `topk` commits prompt positions. `CommitsInBlock` shows the count is right as
  long as there is no boundary.
* `membership_bye`: one relay delivers a peer's BYE before the other delivers its
  HELLO (or last HEARTBEAT): the departed peer is alive again until it times out,
  and leader if its id is the lowest. Ignoring a timestamp older than the BYE's would
  remove it.
* `rounds_second_copy`: two initiators, two relays, nothing lost. A node's own round is
  over by the first relay, it joins a round of the other's, which ends as well while it
  still runs it, and now the second relay delivers the GEN_START of its own old round.
  `on_gen_start` adopts it, since nothing remembers finished rounds; at the end of the run
  `is_round_leader` is true of the old round, and GEN_DONE names the other's. A set of
  finished ids, and asking for the leader of the captured round, would remove it.
* `rounds_done_lost`: a follower that misses one GEN_DONE stays in the round it has
  completed. Two relays do not help: the second one's GEN_START reopens the round that
  the first one's GEN_DONE closed, and then the second GEN_DONE is lost. `wait_for_round`
  returns at once, the round is run again, to no end; only a leader that falls silent
  would free it.
* `leader_watch`: the first poll after a sync reads the leader's last message, or finds
  nothing; the next three steps read the node's own COMMIT and two own heartbeats, ahead
  of the leader's next heartbeat in the queue. At one message per step of 3 s the node is
  9 s past the last word it read from the leader, and the round has failed.
  More nodes or relays make it likelier: every heartbeat of anyone, times the relays, is
  a step. Reading the queue until it is empty at every step would remove it.

Two more disagreements need no counterexample. `architecture.md` and a test's docstring let a
token win that nobody proposed, while only proposed tokens are ever scored: `JointBest`
holds, and is recorded as a finding. And `config.py` says the peer timeout tolerates "one or
two dropped heartbeats": after two, the third arrives 6 s after the last one read and
any delay at all exceeds the timeout (`TimingFits` in section 4; with two dropped and a
second of delay TLC finds the suspicion, with two dropped and no delay none).

**Bounds.** Two nodes give every order of two barriers; more nodes are the subject of
the proofs. Two syncs are enough for a report of one to meet the barrier of the next
(nodes that missed nothing are never further apart, by `BarrierHolds`); `generation_sync`
has three, on one position that is re-masked in between, so that all of them have
something to decide. Two tokens
give agreement, disputes and EOS; two levels give won and tied disputes. Two
blocks of two positions and three steps let a re-mask happen and be repaired, and a
sync have a disputed and an agreed position.
`Links` leaves out the echo, since a node's own report is never expected by its own
barriers; duplicates, echoes and third parties are covered by the theorems, whose
`Relays`, `Links` and `Nodes` are arbitrary. `Impatient` and `Crashable` bound the
failures of an instance, `MaxChecks` the syncs of `StopDetectorRun`.
In `membership`, ten seconds hold two joins, a departure or crash and the timeout after it;
three changes let the lower node join second and the leadership move. An entry of a peer
table depends on one sender and one receiver only, which is why two nodes show it.
In `rounds`, one round per initiator and two relays let a late copy of each node's own
and of the other's GEN_START follow the end of the round; `PipeSize` bounds a stream to
two unread messages, since a leader that has not read its own GEN_DONE runs, and
announces, its round again; the five of `rounds_second_copy` are what its trace needs.

**Fairness.** `Generation`: weak fairness of each node's own steps (`Proceed`) and of
the leader's start. A node's thread runs until it crashes; a poll returns after
10 ms, a barrier's loop at its deadline. Nothing is assumed of the network.
`Termination` therefore needs every node in `Impatient`, which is what the code's
deadlines provide. `Rounds`: weak fairness of entering and completing a round, which
are steps of a running thread; strong fairness of reading a stream that is not
empty, because a node polls again and again but not in every state, and of timing
out a leader that is dead, because every step of every run checks it again. Copies that
a relay carries do arrive; the copies that do not are counted in `losses`, and
`RoundClosed` is checked with none (`rounds_done_lost` shows what one does).

**Refinement.** `ImplementsText` maps `seq`, `shared`, the boundary of `det` and the nodes that
are not `full` to `ReplicatedText`: nodes that never gave up waiting go through one
sequence of texts and boundaries, the first to leave a sync fixing its result, and even
a node that strayed never loses a position or raises its boundary.

## 4. Proofs

Twenty-five theorems, for all values of the constants that satisfy the named
assumptions (`StopConstants`, `GenerationConstants`, `OrderConstants` and those of
`Rounds` and `Membership`). They are those of the code's use: a non-empty block no longer than the
text, at least one step per block, positive probabilities (`clamp_min(1e-12)`), positive
intervals, at least one relay. Two further conditions are hypotheses of single theorems,
stated there: `TimingFits` (`Membership`) and `SumsExact` (`ConsensusOrder`).
Each inductive invariant was checked by TLC, on the instance of the run named, before
it was proved.

**Agreement** (`GenerationProofs`; `generation_sync`).
`TypeCorrect`: `[]TypeOK`; `FullNodesAgree`: `[]Agreement`; `BarrierHolds`: `[]BarrierSkew`;
`InboxIsDurable`: `[]NoReportLost`.
`Agreement` is not inductive: two nodes reach equal sync numbers at different
times, so one has to know what the other will compute. The invariant `IInv`
(`GenerationInvariants`) adds: a node publishes one report of a kind per sync
(`OneReport`), and none for a sync it has not reached (`SentInOrder`); in a
barrier its own report is out (`OwnReport`) and what it has received are the others'
reports for this very barrier (`ReceivedWanted`); phase 2 works on everyone's commits
(`CommitsCollected`); whoever left a sync without a timeout left it after everyone
had reported (`Passed`); and of two such nodes one sync apart, the one ahead holds
exactly what that sync makes of the other's text (`Ahead`). Since reports never change
once sent (`ReportStable`), what a sync makes of a text does not change either
(`MergedStable`), and the node behind arrives at the same value. `BarrierSkew` follows
from `Passed` and `SentInOrder`. `NoReportLost` has its own strengthening, `Kept`: a
report read is in the inbox until its barrier opens and in the barrier afterwards.

**Refinement** (`GenerationTextProofs`; `generation_sync`).
`RoundImplementsText`: `Spec => ImplementsText`. The end of a sync is the only step that
is not a stutter. A node that leaves it in step either catches up with somebody, and
then `Ahead` gives the text, or is the first, and fixes it; a node whose barrier timed
out strays, and the lemmas on `merge_consensus` and `Check` give what is still promised of it.

**Origin of the text** (`GenerationTextProofs`; `generation_block`).
`TokensArePublished`: `[]NoInventedToken`, for nodes that strayed as well. A resolved
position overrides the commits a node collected, and its winner comes out of scores,
possibly ones about commits the node never received. So the invariant `Traced` follows
the scores: what anybody scored was published for that position in the same sync, because
the scorer had it from the commits it collected. `resolve_disputes` returns one of the
scored tokens (`ResolvedIsCandidate`), `merge_consensus` the old token, the resolved one
or a collected one (`MergedFrom`), and `SentInOrder` keeps syncs still ahead out of it.

**Blocks** (`GenerationTextProofs`; `generation_block`).
`FinishedTextHasNoGap`: `[]GapFree`. The invariant `NoGap` follows a position through the
three places that hold it: whatever is not masked is pending or settled; a sync merges
the node's own commits, also when phase 2 intervenes; after the last step of a block
what is still masked in it is frozen, because k is then the number of masked positions
and so covers the open ones (`ShareBound`, `TransferFacts`, on cardinalities), and no
position is re-masked that late; blocks left behind stay filled, because text and frozen
tail only grow (`FrozenStays`).
`NoCommitOutsideBlock`: `[]CommitsInBlock`. The text is made of everyone's reports, so a
node must know which block the others' are about. `Schedule` says that `sync_seq`
determines it: it counts the syncs of the blocks done and of the current one, on
every node alike, for any sync interval. `InBlock` then says that a commit on the wire,
in a barrier or pending lies in the block of its sync. The step is that k never exceeds
what is masked in the block, and without a boundary all of that is open. That no
boundary now means none before (`NoStopBefore`) lets the condition pass from step to step.
`SettledTextStays`: `SettledStays`, and `PromptUntilBoundary`: the prompt is intact while no
node has a boundary. Both follow from `InBlock`: the reports of a sync, resolved positions
included, lie in the block that `Schedule` gives the sync. The second says what the
counterexample of `generation_overflow` needs: a boundary.

**Consensus** (`ConsensusOrderProofs`; `consensus_exact`).
`ExactSumsAgree`: `[]SameWinner`; `ExactSumsBest`: `[]JointBest`; `ExactSumsImplement`:
`[]ExactConsensus`, for any participants, tokens and probabilities, under

    SumsExact == \A f \in [Nodes -> Levels] : SumFunction(f) < 2 ^ Mantissa

which `TenBitsExact` in `MCConsensusOrder` shows to hold in `consensus_exact`; in
`consensus_rounding` it fails, and so does `SameWinner`. The total a node accumulates along
its own order of arrival is the sum over all participants (`TotalIsJoint`), because an
order lists every participant once (`OrderEnumerates`) and no partial sum is rounded.
Sums over arbitrary finite sets need an induction; `FiniteSetLemmas` does it without the
library's induction rules, by a smallest counterexample: a set of natural numbers
has a least element (`NatSetInduction`), hence subsets of a finite set have a smallest
one that fails (`SubsetInduction`), and with that a sum is unique and unfolds by any
element (`SumUnique`, `SumRemove`). Among proposed tokens exactly one has the highest sum
and, of those, the lowest id (`BestExists`, `BestUnique`); the invariant is that everyone
who resolved adopted it. `max` may return any candidate of the highest key
(`BestInOrder` is a set), so it is the id in the key that makes the winner the same for
everybody. `ExactConsensus` closes the gap between `ConsensusOrder` and
`Generation`, whose consensus adds exactly and in no order.

**Stop detection** (`StopDetectorProofs`; `stop_detection`).
`DetectorTypeCorrect`: `[]TypeOK`; `StopIsConfirmed`: `[]StopConfirmed`; `StopIsHonoured`:
`[]StopNotMissed`; `StopOnlyMovesDown`: `StopOnlyLowered`, for any run length, number of
confirmations and number of checks. The counter of the code stands for a history:
`Counted` says that the last `_pending_confirms` checks all saw the candidate, `CountedAll`
that no candidate was seen at more checks in a row than the counter says, and that one seen
often enough has become the boundary or lies behind it.

**Rounds** (`RoundsProofs`; `rounds`), for any number of relays, so of copies of every
message. `RoundsTypeCorrect`: `[]TypeOK`; `ActiveRoundIsLocked`: `RoundLocked`;
`RejoinsBounded`: `[]JoinsPerCopy`; `NobodyLeftBehind`: `[]EndUnderWay`;
`RejoinBehindForeignDone`: `[]ForeignDoneNeedsRejoin`. The code forgets finished rounds, so what can be
promised is how far a late copy goes. All rest on `IInv`: only rounds their leaders
started are known to anybody (`KnownRounds`), and in every stream GEN_START is ahead of
everything else about its round (`StartFirst`). A round is joined at most once per
relay because joining takes a copy of GEN_START out of a stream (`CopiesLeft`: joins and
unread copies together are within the number of relays). The leader is the exception, it
joins without one; but it first leaves its round by reading GEN_DONE, and the relay
that delivered it has no GEN_START left. While nothing is lost, the end of a round that
is over is still to be read wherever its GEN_START is (`EndFollows`): GEN_DONE is
published to everyone, a stream delivers it after GEN_START, and whoever reads it
leaves. A round is over when its leader has completed it, but also when the leader
has left it or GEN_DONE is under way: without that, the completion of a round the
leader is no longer in, which announces nothing, would break the invariant. Last, a node
that ends a round of somebody else has joined one of its own twice: a
leader has joined what it started (`OwnJoined`), so to be in a round of its own while it
runs another it has to have come back to it (`RunsOwn`). No run checks
`ForeignDoneNeedsRejoin`; on the instance of `rounds` the case does not come up, and with
four losses allowed, where it does, TLC finds no violation in eight million states.

**Membership** (`MembershipProofs`; `membership`).
`MembershipTypeCorrect`: `[]TypeOK`. `NobodyFalselySuspected` (`[]NoFalseSuspicion`) and
`OneLeaderAfterTimeout` (`[]OneLeader`), for any nodes, relays and clocks, under

    TimingFits == /\ MaxDelay < HeartbeatInterval
                  /\ (MaxLost + 1) * HeartbeatInterval + MaxDelay + ClockSpread <= PeerTimeout

The instance of the run meets the second line with equality. With the 2 s and 6 s of
`config.py` it leaves, after one lost heartbeat, 2 s for delay and clock difference
together, and none after two, against the comment "tolerates one or two dropped". The
first line keeps a heartbeat from being overtaken by its successor on another relay,
which would move `last_seen` back. The invariant is about real time: everything under
way is younger than `MaxDelay` (`InTime`), heartbeats go out on time (`Punctual`), what is
under way from a running node is its latest publication (`LatestOnly`), and a table lags
behind that by an interval per publication missed in a row, or by one more while the
next is under way (`InTouch`). For the leader: a node that does not run has sent
nothing since the last change (`GoneQuiet`), so that after the timeout a table holds the
running nodes and no other, and the announced leader is the one seen (`Announced`).

**Checked by TLC only.** `Termination` and `RoundClosed`, which are liveness under
fairness. The properties with a counterexample have nothing to prove; for three of
them a theorem says when they do hold (`SumsExact` for `SameWinner`, no boundary for
`PromptIntact`, no round of one's own joined twice for `DoneByLeader`).

## 5. Not modelled

* The neural network, tokenizer and printing; how confidences, ages, EOS margin and the
  re-mask cap choose among the positions a step may re-mask or transfer (any choice is
  allowed).
* msgpack encoding, argument parsing, relay addresses, socket set-up (the slow-joiner
  pause) and high-water marks; a lost copy stands for the last two.
* The heartbeat thread's use of a PUB socket that belongs to another thread, which is
  undefined in ZeroMQ.
* The peer table inside `SwarmNode` (by time of receipt): nothing in the repository
  asks it for a leader.
* A crashed node that comes back in the middle of a round (`Rounds`); `Membership` has
  nodes that leave or crash and join again.
* The list of participants in `Rounds`: no guard of the code depends on it.

## 6. Possible extensions

1. What a strayed node still shares with the others: reports of one sync agree on the
   block (`Schedule`), so its text can differ only from the sync it gave up on.
2. `LeaderWatch`: a bound on the step time under which a living leader is not timed out.
3. A node that restarts within a round, for `Rounds`.
