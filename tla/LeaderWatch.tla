---------------------------- MODULE LeaderWatch -----------------------------
(***************************************************************************)
(* The follower's watch on the round's leader, in seconds: every step of   *)
(* run_round (node/generation.py) reads one message, looks at the leader's *)
(* silence and computes for StepTime; every SyncEvery steps a sync reads   *)
(* all there is until the leader's COMMIT.  Everybody's heartbeats, the    *)
(* follower's own included, come in on every relay and queue up in one     *)
(* socket.  The leader is alive throughout, and publishes its COMMIT at    *)
(* most a step before or after the follower's; no position is disputed.    *)
(***************************************************************************)
EXTENDS Naturals, Sequences

CONSTANTS Nodes, Leader, Self,
          Relays,
          HeartbeatInterval,   \* config.HEARTBEAT_INTERVAL
          RoundLeaderTimeout,  \* config.ROUND_LEADER_TIMEOUT
          StepTime,            \* seconds of a local_step
          SyncEvery,           \* GenConfig.sync_every
          MaxTime              \* bound on now

VARIABLES
  now,               \* seconds since the round was adopted
  due,               \* copies that reach the socket within this second
  queue,             \* the socket's buffer, by arrival
  last_leader_seen,  \* RoundState.last_leader_seen, by the time of reading
  phase,             \* "head" of a step, "compute", "barrier", or "failed"
  busy,              \* seconds left of the local_step, or of the leader's lag
  step,              \* local steps since the last sync
  committed,         \* the leader has published its COMMIT of this sync
  in_inbox           \* and the follower has read it

vars == <<now, due, queue, last_leader_seen, phase, busy, step, committed, in_inbox>>

\* What the relays bring when each of senders publishes a message.
Copies(type, senders) == {[type |-> type, from |-> n] : n \in senders} \X Relays

\* The round is adopted with the first copy of GEN_START.
Init ==
  /\ now = 0
  /\ \E r \in Relays : due = {m \in Copies("GEN_START", {Leader}) : m[2] # r}
  /\ queue = <<>>
  /\ last_leader_seen = 0
  /\ phase = "head" /\ busy = 0 /\ step = 0
  /\ committed = FALSE /\ in_inbox = FALSE

\* A relay's copy reaches the socket.
Arrive ==
  \E m \in due :
    /\ due' = due \ {m}
    /\ queue' = Append(queue, m[1])
    /\ UNCHANGED <<now, last_leader_seen, phase, busy, step, committed, in_inbox>>

\* pump_once: one message is read, if there is one, and _dispatch notes the
\* leader's activity.
Pump ==
  IF queue = <<>> THEN UNCHANGED <<queue, last_leader_seen, in_inbox>>
  ELSE /\ queue' = Tail(queue)
       /\ last_leader_seen' = IF Head(queue).from = Leader THEN now ELSE last_leader_seen
       /\ in_inbox' = (in_inbox \/ (Head(queue).type = "COMMIT" /\ Head(queue).from = Leader))

\* The head of a step: a poll, then check_leader_timeout.
StepHead ==
  /\ phase = "head"
  /\ Pump
  /\ IF now - last_leader_seen' > RoundLeaderTimeout
     THEN phase' = "failed" /\ busy' = 0
     ELSE phase' = "compute" /\ busy' = StepTime
  /\ UNCHANGED <<now, due, step, committed>>

\* local_step returns; at the last step of a window COMMIT is published.
StepEnd ==
  /\ phase = "compute" /\ busy = 0
  /\ IF step + 1 = SyncEvery
     THEN /\ phase' = "barrier" /\ step' = 0 /\ busy' = StepTime
          /\ due' = due \cup Copies("COMMIT", {Self})
     ELSE /\ phase' = "head" /\ step' = step + 1
          /\ UNCHANGED <<due, busy>>
  /\ UNCHANGED <<now, queue, last_leader_seen, committed, in_inbox>>

\* The leader gets to the same sync.
LeaderCommit ==
  /\ ~committed
  /\ phase = "barrier" \/ (phase = "compute" /\ step + 1 = SyncEvery)
  /\ committed' = TRUE
  /\ due' = due \cup Copies("COMMIT", {Leader})
  /\ UNCHANGED <<now, queue, last_leader_seen, phase, busy, step, in_inbox>>

\* collect_until goes on reading until the leader's COMMIT is there.
Barrier ==
  /\ phase = "barrier"
  /\ IF in_inbox
     THEN /\ phase' = "head" /\ committed' = FALSE /\ in_inbox' = FALSE
          /\ UNCHANGED <<queue, last_leader_seen>>
     ELSE /\ queue # <<>> /\ Pump
          /\ UNCHANGED <<phase, committed>>
  /\ UNCHANGED <<now, due, busy, step>>

\* A second passes, in a local_step or in a barrier that has read everything;
\* heartbeats go out every HeartbeatInterval.
Tick ==
  /\ now < MaxTime /\ due = {} /\ busy > 0
  /\ phase = "compute" \/ (phase = "barrier" /\ queue = <<>> /\ ~in_inbox)
  /\ now' = now + 1 /\ busy' = busy - 1
  /\ due' = IF now' % HeartbeatInterval = 0 THEN Copies("HEARTBEAT", Nodes) ELSE {}
  /\ UNCHANGED <<queue, last_leader_seen, phase, step, committed, in_inbox>>

Next == Arrive \/ StepHead \/ StepEnd \/ LeaderCommit \/ Barrier \/ Tick

Spec == Init /\ [][Next]_vars

\* "THE FIX: a ... poll EVERY step, not just at sync points" (generation.py), so
\* that no follower is "falsely timing out even though the leader's heartbeats
\* were arriving the whole time": a leader that is alive is not timed out.
NoFalseTimeout == phase # "failed"
=============================================================================
