----------------------------- MODULE Membership -----------------------------
(***************************************************************************)
(* Swarm membership: the loop of node/node.py and the PeerTable of         *)
(* node/peers.py on every node, over node/transport.py and relay/relay.py. *)
(* Nobody votes: a node takes the lowest id it believes alive for leader.  *)
(*                                                                         *)
(* Time.  now is real time in units of the instance.  A node's clock is    *)
(* off by Skew; node.py stamps a message with the sender's clock and holds *)
(* it against the receiver's.  Between two ticks every node goes round its *)
(* loop at least once (a poll ends after 200 ms).                          *)
(*                                                                         *)
(* Network.  A relay keeps one ordered stream per subscriber.  A message   *)
(* goes out on every relay, reaches its receiver within MaxDelay on those  *)
(* that carry it, and may be carried by none, though never for more than   *)
(* MaxLost publications of one sender to one receiver in a row.  A node's  *)
(* own messages come back to it as well and are dropped by the handler:    *)
(* they are left out.                                                      *)
(***************************************************************************)
EXTENDS Integers, Sequences, FiniteSets, FiniteSetsExt

CONSTANTS Nodes,              \* node ids, ordered as integers
          Relays,             \* relays everyone is connected to
          HeartbeatInterval,  \* config.HEARTBEAT_INTERVAL
          PeerTimeout,        \* config.PEER_TIMEOUT
          Skew,               \* node -> how far its clock is ahead of real time
          MaxDelay,           \* the longest a message is under way
          MaxLost,            \* publications in a row a receiver may miss
          MaxChanges,         \* bound: joins, departures and crashes
          MaxTime             \* bound on now

NoNode == -1

ASSUME MembershipConstants ==
  /\ Nodes \subseteq Nat /\ IsFiniteSet(Nodes)
  /\ Skew \in [Nodes -> Int]
  /\ HeartbeatInterval \in Nat \ {0} /\ PeerTimeout \in Nat
  /\ MaxDelay \in Nat /\ MaxLost \in Nat /\ MaxChanges \in Nat /\ MaxTime \in Nat

VARIABLES
  now,             \* real time
  running,         \* the nodes whose process runs
  last_heartbeat,  \* when node n last sent a HEARTBEAT, by its own clock
  last_seen,       \* PeerTable.last_seen: peer -> timestamp
  prev_leader,     \* PeerTable._prev_leader: the leader announced last
  pipe,            \* pipe[r][n]: what relay r has under way to node n
  looped,          \* nodes that went round their loop since the last tick
  missed,          \* <<sender, receiver>> -> publications missed in a row
  joined,          \* history: when node n joined last
  changed,         \* history: when somebody joined, left or crashed last
  life,            \* history: how often node n has joined; messages carry it
  gone,            \* history: peers whose BYE of their last life n has handled
  changes          \* number of joins, departures and crashes

peerTable == <<last_seen, prev_leader>>
vars == <<now, running, last_heartbeat, peerTable, pipe, looped, missed, joined,
          changed, life, gone, changes>>

Clock(n) == now + Skew[n]
ClockSpread == Max({Skew[n] - Skew[m] : n, m \in Nodes})
Links    == {link \in Nodes \X Nodes : link[1] # link[2]}

-----------------------------------------------------------------------------
(* PeerTable, as operators on one node's last_seen. *)

NothingSeen == [m \in {} |-> 0]

\* The entry of a peer that left is overwritten instead of removed.
mark_gone_zeroed(seen, m) == [p \in DOMAIN seen |-> IF p = m THEN -1 ELSE seen[p]]

\* mark_alive and mark_gone.
mark_alive(seen, m, ts) == [p \in DOMAIN seen \cup {m} |-> IF p = m THEN ts ELSE seen[p]]
mark_gone(seen, m)      == [p \in DOMAIN seen \ {m} |-> seen[p]]

\* A node is alive to itself only as long as it hears itself.
alive_peers_heard(n, seen) == {m \in DOMAIN seen : Clock(n) - seen[m] <= PeerTimeout}

\* The peers heard of within the timeout, and always the node itself.
alive_peers(n, seen) == {m \in DOMAIN seen : Clock(n) - seen[m] <= PeerTimeout} \cup {n}

\* The lowest id alive, if any.
leader(n, seen) == IF alive_peers(n, seen) = {} THEN NoNode ELSE Min(alive_peers(n, seen))

-----------------------------------------------------------------------------

Init ==
  /\ now = 0
  /\ running = {}
  /\ last_heartbeat = [n \in Nodes |-> Skew[n] - HeartbeatInterval]
  /\ last_seen = [n \in Nodes |-> NothingSeen]
  /\ prev_leader = [n \in Nodes |-> NoNode]
  /\ pipe = [r \in Relays |-> [n \in Nodes |-> <<>>]]
  /\ looped = {}
  /\ missed = [link \in Links |-> 0]
  /\ joined = [n \in Nodes |-> 0]
  /\ changed = 0
  /\ life = [n \in Nodes |-> 0]
  /\ gone = [n \in Nodes |-> {}]
  /\ changes = 0

\* protocol.encode: sender, type and the sender's time; nth is n's life.
Envelope(n, type, nth) == [type |-> type, from |-> n, ts |-> Clock(n), life |-> nth]

\* transport.publish: carried[m] are the relays whose copy will reach node m.
Publish(streams, n, type, nth, carried) ==
  [r \in Relays |-> [m \in Nodes |->
     IF m \in DOMAIN carried /\ r \in carried[m]
     THEN Append(streams[r][m], Envelope(n, type, nth))
     ELSE streams[r][m]]]

\* The ways the relays may carry a publication of node n to the other running
\* nodes: a relay forwards everything to everybody, unless it is down or a copy
\* is dropped.
Carriages(n) ==
  {c \in [running \ {n} -> SUBSET Relays] :
     \A m \in running \ {n} : c[m] = {} => missed[<<n, m>>] < MaxLost}

Missed(n, carried) ==
  [link \in Links |->
     IF link[1] = n /\ link[2] \in DOMAIN carried
     THEN IF carried[link[2]] = {} THEN missed[link] + 1 ELSE 0
     ELSE missed[link]]

\* A process starts: fresh tables and sockets, and a HELLO.
Join(n) ==
  /\ n \notin running /\ changes < MaxChanges
  /\ running' = running \cup {n}
  /\ life' = [life EXCEPT ![n] = @ + 1]
  /\ \E carried \in Carriages(n) :
       /\ pipe' = Publish([r \in Relays |-> [pipe[r] EXCEPT ![n] = <<>>]],
                          n, "HELLO", life[n] + 1, carried)
       /\ missed' = [link \in Links |-> IF link[2] = n THEN 0 ELSE Missed(n, carried)[link]]
  /\ last_heartbeat' = [last_heartbeat EXCEPT ![n] = Clock(n) - HeartbeatInterval]
  /\ last_seen' = [last_seen EXCEPT ![n] = NothingSeen]
  /\ prev_leader' = [prev_leader EXCEPT ![n] = NoNode]
  /\ joined' = [joined EXCEPT ![n] = now]
  /\ gone' = [m \in Nodes |-> IF m = n THEN {} ELSE gone[m] \ {n}]
  /\ looped' = looped \ {n}
  /\ changed' = now /\ changes' = changes + 1
  /\ UNCHANGED now

\* _handle_envelope on one node's table.
Handled(seen, msg) ==
  CASE msg.type \in {"HEARTBEAT", "HELLO"} -> mark_alive(seen, msg.from, msg.ts)
    [] msg.type = "BYE"                    -> mark_gone(seen, msg.from)

\* The leader now seen is announced if it is not the one announced last.
leader_changed(n) == prev_leader' = [prev_leader EXCEPT ![n] = leader(n, last_seen'[n])]

\* A turn of the loop that found nothing to read, or read the head of a stream,
\* with leader_changed at its end.
Turn(n, streams) ==
  /\ \/ pipe' = streams /\ UNCHANGED <<last_seen, gone>>
     \/ \E r \in Relays :
          /\ streams[r][n] # <<>>
          /\ LET msg == Head(streams[r][n]) IN
             /\ last_seen' = [last_seen EXCEPT ![n] = Handled(@, msg)]
             /\ gone' = [gone EXCEPT ![n] =
                  IF msg.type = "BYE" /\ msg.life = life[msg.from] THEN @ \cup {msg.from} ELSE @]
          /\ pipe' = [streams EXCEPT ![r][n] = Tail(@)]
  /\ leader_changed(n)
  /\ looped' = looped \cup {n}
  /\ UNCHANGED <<now, running, joined, changed, life, changes>>

\* Off by one: a HEARTBEAT goes out after the interval, never on it.
Due_late(n) == Clock(n) - last_heartbeat[n] > HeartbeatInterval

\* The next HEARTBEAT is due.
Due(n) == Clock(n) - last_heartbeat[n] >= HeartbeatInterval

\* A turn that sends a HEARTBEAT first.
LoopBeat(n) ==
  /\ n \in running /\ Due(n)
  /\ last_heartbeat' = [last_heartbeat EXCEPT ![n] = Clock(n)]
  /\ \E carried \in Carriages(n) :
       /\ Turn(n, Publish(pipe, n, "HEARTBEAT", life[n], carried))
       /\ missed' = Missed(n, carried)

\* A turn that does not.
LoopQuiet(n) ==
  /\ n \in running /\ ~Due(n)
  /\ Turn(n, pipe)
  /\ UNCHANGED <<last_heartbeat, missed>>

\* SIGTERM or Ctrl+C: the loop ends and a BYE goes out.
Leave(n) ==
  /\ n \in running /\ changes < MaxChanges
  /\ \E carried \in Carriages(n) :
       /\ pipe' = Publish(pipe, n, "BYE", life[n], carried)
       /\ missed' = Missed(n, carried)
  /\ running' = running \ {n}
  /\ changed' = now /\ changes' = changes + 1
  /\ UNCHANGED <<now, last_heartbeat, peerTable, looped, joined, life, gone>>

\* The process is killed.
Kill(n) ==
  /\ n \in running /\ changes < MaxChanges
  /\ running' = running \ {n}
  /\ changed' = now /\ changes' = changes + 1
  /\ UNCHANGED <<now, last_heartbeat, peerTable, pipe, looped, missed, joined, life, gone>>

\* Time passes, as far as loops and messages keep up with it.
Tick ==
  /\ now < MaxTime
  /\ running \subseteq looped
  /\ \A r \in Relays, n \in running : \A i \in DOMAIN pipe[r][n] :
       LET msg == pipe[r][n][i] IN now < msg.ts - Skew[msg.from] + MaxDelay
  /\ now' = now + 1
  /\ looped' = {}
  /\ UNCHANGED <<running, last_heartbeat, peerTable, pipe, missed, joined, changed,
                 life, gone, changes>>

Next ==
  \/ Tick
  \/ \E n \in Nodes : Join(n) \/ LoopBeat(n) \/ LoopQuiet(n) \/ Leave(n) \/ Kill(n)

Spec == Init /\ [][Next]_vars

-----------------------------------------------------------------------------

\* State types: a peer table holds other nodes only, and only times their own
\* clocks have shown.
TypeOK ==
  /\ now \in 0 .. MaxTime /\ running \subseteq Nodes /\ looped \subseteq Nodes
  /\ \A n \in Nodes : /\ DOMAIN last_seen[n] \subseteq Nodes \ {n}
                      /\ \A m \in DOMAIN last_seen[n] : last_seen[n][m] \in Skew[m] .. Clock(m)
  /\ prev_leader \in [Nodes -> Nodes \cup {NoNode}]
  /\ missed \in [Links -> 0 .. MaxLost]

\* "Tolerates one or two dropped heartbeats without a false-positive failure
\* detection" (config.py, PEER_TIMEOUT): a node that has heard of a peer since
\* the peer joined believes it alive for as long as the peer runs.  How many
\* may be dropped, and how late the next may be, is TimingFits, below.
NoFalseSuspicion ==
  \A n, m \in running :
    m \in DOMAIN last_seen[n] /\ last_seen[n][m] >= joined[m] + Skew[m] =>
      m \in alive_peers(n, last_seen[n])

\* "Everyone converges on the same answer without needing to agree on anything
\* explicitly" (peers.py): once nobody has joined, left or crashed for longer
\* than the timeout and the difference of the clocks, every node that went round
\* its loop has announced the lowest running node as leader; no two survivors
\* each follow the other.
OneLeader ==
  now - changed > PeerTimeout + ClockSpread =>
    \A n \in running \cap looped : prev_leader[n] = Min(running)

\* "Immediate removal on a clean BYE" (peers.py), with duplicates that are
\* harmless because liveness is idempotent (transport.py): a peer whose BYE a
\* node has handled is not alive for that node until it joins again.
ByeIsFinal == \A n \in running : gone[n] \cap alive_peers(n, last_seen[n]) = {}

-----------------------------------------------------------------------------
(***************************************************************************)
(* The inductive invariant behind NoFalseSuspicion and OneLeader, in real  *)
(* time: how far a peer's table can lag behind what the peer last sent.    *)
(***************************************************************************)

Envelopes == [type : {"HEARTBEAT", "HELLO", "BYE"}, from : Nodes, ts : Int, life : Nat]
Streams   == [Relays -> [Nodes -> Seq(Envelopes)]]

\* What streams hold for node n, and what is under way to it.
Carried(streams, n) ==
  UNION {{streams[r][n][i] : i \in DOMAIN streams[r][n]} : r \in Relays}
Underway(n) == Carried(pipe, n)

\* Real times: when a message was sent, when m last sent a HEARTBEAT, when it
\* last published anything that says it runs, and what n has last heard of it;
\* a node that has heard nothing can have expected nothing before both ran.
Sent(msg)        == msg.ts - Skew[msg.from]
BeatAt(m)        == last_heartbeat[m] - Skew[m]
Later(s, t)      == IF s >= t THEN s ELSE t
LastPublished(m) == Later(BeatAt(m), joined[m])
Heard(n, m)      == m \in DOMAIN last_seen[n] /\ last_seen[n][m] >= joined[m] + Skew[m]
HeardAt(n, m)    == IF Heard(n, m) THEN last_seen[n][m] - Skew[m] ELSE Later(joined[n], joined[m])
Lag(n, m)        == LastPublished(m) - HeardAt(n, m)

\* m's latest sign of life is under way to n.
Awaited(n, m) ==
  \E msg \in Underway(n) : msg.from = m /\ msg.type # "BYE" /\ Sent(msg) = LastPublished(m)

Shape ==
  /\ DOMAIN last_seen = Nodes /\ last_heartbeat \in [Nodes -> Int]
  /\ joined \in [Nodes -> Nat] /\ life \in [Nodes -> Nat] /\ changed \in 0 .. now
  /\ \A n \in Nodes : joined[n] <= changed
  /\ pipe \in Streams

\* Messages are from others, and reach a running node in time.
InTime ==
  \A n \in Nodes : \A msg \in Underway(n) :
    /\ msg.from # n /\ Sent(msg) \in 0 .. now
    /\ n \in running => now <= Sent(msg) + MaxDelay

\* A HEARTBEAT goes out every HeartbeatInterval, the first one on joining.
Punctual ==
  \A m \in running :
    \/ /\ BeatAt(m) \in joined[m] .. now /\ now - BeatAt(m) <= HeartbeatInterval
       /\ m \in looped => now - BeatAt(m) < HeartbeatInterval
    \/ BeatAt(m) = joined[m] - HeartbeatInterval /\ now = joined[m] /\ m \notin looped

\* What is under way from a node that runs: its last publication, or what is
\* left of an earlier life, and that only until the second HEARTBEAT.
Fresh(m, msg) == msg.type # "BYE" /\ Sent(msg) >= joined[m]
LatestOnly ==
  \A n, m \in running : \A msg \in Underway(n) : msg.from = m =>
    IF Fresh(m, msg) THEN Sent(msg) = LastPublished(m)
                     ELSE Sent(msg) <= joined[m] /\ LastPublished(m) = joined[m]

\* A table lags one interval behind for each publication missed in a row, and
\* by one more at most while the next publication is under way.
Touch(n, m) ==
  \/ Lag(n, m) <= missed[<<m, n>>] * HeartbeatInterval
  \/ Awaited(n, m) /\ Lag(n, m) <= (MaxLost + 1) * HeartbeatInterval
InTouch == \A n, m \in running : n # m => Touch(n, m)

\* A node that does not run has sent nothing since the last change.
GoneQuiet ==
  \A n \in Nodes, m \in Nodes \ running :
    /\ \A msg \in Underway(n) : msg.from = m => Sent(msg) <= changed
    /\ m \in DOMAIN last_seen[n] => last_seen[n][m] <= changed + Skew[m]

\* After a turn of the loop the leader now seen is the one announced.
Announced == \A n \in running \cap looped : prev_leader[n] = leader(n, last_seen[n])

\* A HEARTBEAT arrives before the next one is sent, and PEER_TIMEOUT covers the
\* publications lost in a row, the one under way and the clocks' differences.
TimingFits ==
  /\ MaxDelay < HeartbeatInterval
  /\ (MaxLost + 1) * HeartbeatInterval + MaxDelay + ClockSpread <= PeerTimeout

\* What TypeOK takes, and with it the rest.
TypeInv == TypeOK /\ Shape /\ InTime
IInv == TypeInv /\ Punctual /\ LatestOnly /\ InTouch /\ GoneQuiet /\ Announced
=============================================================================
