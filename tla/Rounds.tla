------------------------------- MODULE Rounds -------------------------------
(***************************************************************************)
(* The life of generation rounds: RoundManager (node/round.py) on every    *)
(* node, driven by SwarmNode (node/swarm.py) and by run_round              *)
(* (node/generation.py), whose blocks and syncs are left to Generation.    *)
(*                                                                         *)
(* A node's one thread is either between rounds, where it may start one as *)
(* leader or sits in wait_for_round, or inside run_round, which took the   *)
(* id of the round when it was entered while active_round may since have   *)
(* become another.  Participants, prompt and settings of a round are fixed *)
(* by GEN_START and looked at by no guard: the model leaves them out.      *)
(*                                                                         *)
(* A relay keeps one ordered stream per subscriber, the publisher's own    *)
(* included; up to MaxLosses copies are lost in all.  Time is left out:    *)
(* the leader watch may fire on any follower, and must when the leader has *)
(* crashed (LeaderWatch looks at the seconds).                             *)
(***************************************************************************)
EXTENDS Naturals, Sequences, FiniteSets

CONSTANTS Nodes,
          Relays,
          Initiators,   \* nodes that take themselves for the swarm's leader
          MaxStarts,    \* bound: rounds one node starts
          MaxLosses,    \* bound: copies of messages lost
          MaxCrashes,   \* bound: nodes that crash
          PipeSize      \* bound: messages a relay has for one node

ASSUME RoundsConstants ==
  /\ Initiators \subseteq Nodes
  /\ IsFiniteSet(Nodes) /\ IsFiniteSet(Relays) /\ Relays # {}
  /\ {MaxStarts, MaxLosses, MaxCrashes, PipeSize} \subseteq Nat

\* RoundState, as far as anything depends on it: round_id is unique.
RoundIds == [leader : Nodes, nr : 1 .. MaxStarts]
NoRound  == [leader |-> "none", nr |-> 0]
Messages == [type : {"GEN_START", "GEN_DONE"}, round : RoundIds, from : Nodes]

VARIABLES
  up,            \* nodes whose process runs
  active_round,  \* RoundManager.active_round
  running,       \* the round run_round was entered for, NoRound outside of it
  started,       \* how many rounds node n has started
  pipe,          \* pipe[r][n]: what relay r has for node n, in order
  losses,        \* copies lost so far
  joins,         \* history: how often node n has joined a round
  completed      \* history: rounds node n has run to their end

vars == <<up, active_round, running, started, pipe, losses, joins, completed>>

Init ==
  /\ up = Nodes
  /\ active_round = [n \in Nodes |-> NoRound]
  /\ running = [n \in Nodes |-> NoRound]
  /\ started = [n \in Nodes |-> 0]
  /\ pipe = [r \in Relays |-> [n \in Nodes |-> <<>>]]
  /\ losses = 0
  /\ joins = [n \in Nodes |-> [round \in RoundIds |-> 0]]
  /\ completed = [n \in Nodes |-> {}]

\* transport.publish of the messages in msgs (none or one).
Publish(msgs) ==
  \E lost \in SUBSET (Relays \X up) :
    /\ msgs = {} \/ \A r \in Relays, n \in up : Len(pipe[r][n]) < PipeSize
    /\ msgs = {} => lost = {}
    /\ losses' = losses + Cardinality(lost)
    /\ losses' <= MaxLosses
    /\ pipe' = [r \in Relays |-> [n \in Nodes |->
                  IF msgs = {} \/ n \notin up \/ <<r, n>> \in lost THEN pipe[r][n]
                  ELSE Append(pipe[r][n], CHOOSE m \in msgs : TRUE)]]

-----------------------------------------------------------------------------
(* RoundManager, as operators on a node's active_round. *)

\* A competing GEN_START is not ignored.
on_gen_start_latest(current, msg) == msg.round

\* The first GEN_START wins for as long as its round is active.
on_gen_start(current, msg) == IF current # NoRound THEN current ELSE msg.round

\* GEN_DONE of any round ends the active one; or one's own is not listened to.
on_gen_done_any(n, current, msg)     == NoRound
on_gen_done_foreign(n, current, msg) ==
  IF msg.from # n /\ current = msg.round THEN NoRound ELSE current

\* GEN_DONE ends the round it names.
on_gen_done(n, current, msg) == IF current = msg.round THEN NoRound ELSE current

is_round_leader(n) == active_round[n] # NoRound /\ active_round[n].leader = n

\* _dispatch of a round message on node n.
Dispatched(n, msg) ==
  IF msg.type = "GEN_START" THEN on_gen_start(active_round[n], msg)
                            ELSE on_gen_done(n, active_round[n], msg)

\* active_round becomes round, which node n joins unless it is in it.
SetActive(n, round) ==
  /\ active_round' = [active_round EXCEPT ![n] = round]
  /\ joins' = IF round \in {NoRound, active_round[n]} THEN joins
              ELSE [joins EXCEPT ![n][round] = @ + 1]

-----------------------------------------------------------------------------

\* start_round_as_leader, whose assertion the caller has to see to, and run_round
\* entered with the new round.
StartRound(n) ==
  /\ n \in up \cap Initiators /\ running[n] = NoRound
  /\ active_round[n] = NoRound
  /\ started[n] < MaxStarts
  /\ started' = [started EXCEPT ![n] = @ + 1]
  /\ LET round == [leader |-> n, nr |-> started[n] + 1] IN
     /\ SetActive(n, round)
     /\ running' = [running EXCEPT ![n] = round]
     /\ Publish({[type |-> "GEN_START", round |-> round, from |-> n]})
  /\ UNCHANGED <<up, completed>>

\* wait_for_round returns, at once when a round is active, and run_round is entered.
EnterRound(n) ==
  /\ n \in up /\ running[n] = NoRound /\ active_round[n] # NoRound
  /\ running' = [running EXCEPT ![n] = active_round[n]]
  /\ UNCHANGED <<up, active_round, started, pipe, losses, joins, completed>>

\* pump_once, in the loop of wait_for_round or anywhere in run_round.
Read(n, r) ==
  /\ n \in up /\ (running[n] # NoRound \/ active_round[n] = NoRound)
  /\ pipe[r][n] # <<>>
  /\ pipe' = [pipe EXCEPT ![r][n] = Tail(@)]
  /\ SetActive(n, Dispatched(n, Head(pipe[r][n])))
  /\ UNCHANGED <<up, running, started, losses, completed>>

\* check_leader_timeout at the head of a step: the active round has failed, and
\* run_round returns nothing.  A leader never times itself out.
LeaderTimeout(n) ==
  /\ n \in up /\ running[n] # NoRound
  /\ active_round[n] # NoRound /\ active_round[n].leader # n
  /\ SetActive(n, NoRound)
  /\ running' = [running EXCEPT ![n] = NoRound]
  /\ UNCHANGED <<up, started, pipe, losses, completed>>

\* GEN_DONE goes out whoever completes, and names the active round.
DoneNotice_active(n) == {[type |-> "GEN_DONE", round |-> active_round[n], from |-> n]}

\* The announcement at the end of run_round.
DoneNotice(n) ==
  IF is_round_leader(n) THEN {[type |-> "GEN_DONE", round |-> running[n], from |-> n]} ELSE {}

\* run_round reaches its end.
CompleteRound(n) ==
  /\ n \in up /\ running[n] # NoRound
  /\ Publish(DoneNotice(n))
  /\ completed' = [completed EXCEPT ![n] = @ \cup {running[n]}]
  /\ running' = [running EXCEPT ![n] = NoRound]
  /\ UNCHANGED <<up, active_round, started, joins>>

\* The process of node n dies.
Crash(n) ==
  /\ n \in up /\ Cardinality(Nodes \ up) < MaxCrashes
  /\ up' = up \ {n}
  /\ SetActive(n, NoRound)
  /\ running' = [running EXCEPT ![n] = NoRound]
  /\ pipe' = [r \in Relays |-> [pipe[r] EXCEPT ![n] = <<>>]]
  /\ UNCHANGED <<started, losses, completed>>

Next ==
  \E n \in Nodes :
    \/ StartRound(n) \/ EnterRound(n) \/ LeaderTimeout(n) \/ CompleteRound(n) \/ Crash(n)
    \/ \E r \in Relays : Read(n, r)

Spec == Init /\ [][Next]_vars

\* A node enters a round it waited for, run_round ends (its steps are counted and
\* its barriers have deadlines), a node that goes on polling gets what a relay
\* has for it, and one that goes on checking a dead leader times it out.
Fairness ==
  \A n \in Nodes :
    /\ WF_vars(EnterRound(n)) /\ WF_vars(CompleteRound(n))
    /\ \A r \in Relays : SF_vars(Read(n, r))
    /\ SF_vars(active_round[n].leader \notin up /\ LeaderTimeout(n))

FairSpec == Spec /\ Fairness

-----------------------------------------------------------------------------

\* State types: what is announced names a round that somebody started, and only
\* a process that runs is in a round.
TypeOK ==
  /\ up \subseteq Nodes /\ losses \in 0 .. MaxLosses
  /\ started \in [Nodes -> 0 .. MaxStarts]
  /\ active_round \in [Nodes -> RoundIds \cup {NoRound}]
  /\ running \in [Nodes -> RoundIds \cup {NoRound}]
  /\ \A n \in Nodes \ up : active_round[n] = NoRound /\ running[n] = NoRound
  /\ joins \in [Nodes -> [RoundIds -> Nat]] /\ completed \in [Nodes -> SUBSET RoundIds]
  /\ pipe \in [Relays -> [Nodes -> Seq(Messages)]]
  /\ \A r \in Relays, n \in Nodes : \A i \in DOMAIN pipe[r][n] :
       pipe[r][n][i].round.nr <= started[pipe[r][n][i].round.leader]

\* A stream holds a message of this type about round.
Has(s, type, round) == \E i \in DOMAIN s : s[i].type = type /\ s[i].round = round

\* GEN_DONE is a "teardown notice from the round leader" (protocol.py): nobody
\* else announces the end of a round.  It fails with two relays: run_round tests
\* the leader of the round active at its end and names the one it was entered
\* for, and the second copy of an old GEN_START of its own, read after GEN_DONE,
\* makes a node leader in the middle of a round of somebody else.
DoneByLeader ==
  \A r \in Relays, n \in Nodes : \A i \in DOMAIN pipe[r][n] :
    pipe[r][n][i].from = pipe[r][n][i].round.leader

\* That is the only way: whoever announces the end of a round it does not lead
\* has joined a round of its own a second time.
ForeignDoneNeedsRejoin ==
  \A r \in Relays, n \in Nodes : \A i \in DOMAIN pipe[r][n] :
    LET m == pipe[r][n][i]
    IN  m.from # m.round.leader =>
          \E own \in RoundIds : own.leader = m.from /\ joins[m.from][own] >= 2

\* Nothing remembers finished rounds, so every copy of a round's one GEN_START
\* may bring it back, but no more than that: a node is in a round at most once
\* per relay.  A leader joins without a copy, and its round cannot end before it
\* has read one.
JoinsPerCopy ==
  \A n \in Nodes : \A round \in RoundIds : joins[n][round] <= Cardinality(Relays)

\* As long as no copy is lost, nobody is left behind in a round that its leader
\* has completed, the one brought back by a late GEN_START included: a GEN_DONE
\* that ends it is on its way to the node.
EndUnderWay ==
  losses = 0 =>
    \A n \in Nodes : \A round \in RoundIds :
      active_round[n] = round /\ round \in completed[round.leader] =>
        \E r \in Relays : Has(pipe[r][n], "GEN_DONE", round)

\* "A round's leader [is] frozen ... and never change[s] for the life of the
\* round" (architecture.md): a node changes rounds only by way of none, whoever
\* else starts one in the meantime.
RoundLocked ==
  [][\A n \in Nodes : active_round[n] # NoRound =>
       active_round'[n] \in {active_round[n], NoRound}]_vars

\* As long as no copy is lost, a round comes to an end on every node: no node
\* stays in it, and keeps its driver from the next one, for ever - the leader
\* itself, a follower that was ahead of the leader or behind it or is in the round
\* again, or one whose leader has crashed.
RoundClosed ==
  \A n \in Nodes : active_round[n] # NoRound ~> active_round[n] = NoRound

\* "A lost GEN_DONE just means a node notices completion a moment later via its
\* own state" (protocol.py): a node that has completed a round leaves it.
CompletionNoticed ==
  \A n \in Nodes : \A round \in RoundIds :
    round \in completed[n] ~> active_round[n] # round

-----------------------------------------------------------------------------
(* The inductive invariants behind the theorems of RoundsProofs. *)

\* A round a node is in, runs, has joined or completed was started by its leader.
Started(round) == round.nr <= started[round.leader]
KnownRounds ==
  \A n \in Nodes : \A round \in RoundIds :
    (round \in {active_round[n], running[n]} \cup completed[n] \/ joins[n][round] > 0)
      => Started(round)

\* Nothing about a round is ahead of its GEN_START in any stream: there is one
\* copy per relay, and GEN_DONE follows it.
StartsLead(s) ==
  \A i, j \in DOMAIN s : i < j /\ s[j].type = "GEN_START" => s[i].round # s[j].round
StartFirst == \A r \in Relays, n \in Nodes : StartsLead(pipe[r][n])

IInv == TypeOK /\ KnownRounds /\ StartFirst

\* A leader has joined the rounds it started, and one that is in a round of its
\* own while it runs another has joined it again.
OwnJoined ==
  \A n \in Nodes : \A round \in RoundIds :
    round.leader = n /\ Started(round) => joins[n][round] >= 1
RunsOwn ==
  \A n \in Nodes : is_round_leader(n) /\ running[n] \notin {NoRound, active_round[n]}
                     => joins[n][active_round[n]] >= 2

\* Joining uses up a copy of GEN_START, for a leader from its second time on.
Unread(n, round) == {r \in Relays : Has(pipe[r][n], "GEN_START", round)}
CopiesLeft ==
  \A n \in Nodes : \A round \in RoundIds :
    \/ round.leader = n /\ active_round[n] = round /\ joins[n][round] = 1
    \/ joins[n][round] + Cardinality(Unread(n, round)) <= Cardinality(Relays)

\* Once the end of a round is announced (its leader has completed or left it, or
\* GEN_DONE is under way), GEN_DONE is on its way to whoever is in the round, and
\* follows every copy of GEN_START that is still to be read.
Over(round) ==
  \/ round \in completed[round.leader]
  \/ \E r \in Relays, n \in Nodes : Has(pipe[r][n], "GEN_DONE", round)
  \/ Started(round) /\ round.leader \in up /\ active_round[round.leader] # round
EndFollows ==
  losses = 0 =>
    \A round \in RoundIds : Over(round) =>
      \A n \in up :
        /\ active_round[n] = round => \E r \in Relays : Has(pipe[r][n], "GEN_DONE", round)
        /\ \A r \in Relays : Has(pipe[r][n], "GEN_START", round)
                              => Has(pipe[r][n], "GEN_DONE", round)
=============================================================================
