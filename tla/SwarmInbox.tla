----------------------------- MODULE SwarmInbox -----------------------------
(***************************************************************************)
(* SwarmNode._gen_inbox of node/swarm.py: every COMMIT and DISPUTE_SCORE   *)
(* read off the wire is filed under (type, round_id, sync_seq) and, within *)
(* that bucket, under its sender, so that a report read too early is still *)
(* found by the collect_until that wants it.                               *)
(*                                                                         *)
(* An inbox is the set of the messages it holds.  One round is running, so *)
(* round_id is left out of the key.                                        *)
(***************************************************************************)

\* Reports of different syncs of the round are not told apart.
Same_any_seq(m, type, seq) == m.type = type

\* Message m belongs under the key of this type and sync.
Same(m, type, seq) == m.type = type /\ m.seq = seq

\* self._gen_inbox.setdefault(key, {})[node_id] = payload
Filed(inbox, m) ==
  {x \in inbox : ~(Same(x, m.type, m.seq) /\ x.from = m.from)} \cup {m}

\* The bucket was not looked at: only what arrives from now on counts.
Bucket_empty(inbox, type, seq, expected_from) == {}

\* The reports of the expected senders already filed under the key.
Bucket(inbox, type, seq, expected_from) ==
  {m \in inbox : Same(m, type, seq) /\ m.from \in expected_from}

\* self._gen_inbox.pop(key, None)
Popped(inbox, type, seq) == {m \in inbox : ~Same(m, type, seq)}

\* The senders of a set of messages.
Senders(msgs) == {m.from : m \in msgs}
=============================================================================
