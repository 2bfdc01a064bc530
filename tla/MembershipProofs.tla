-------------------------- MODULE MembershipProofs --------------------------
(***************************************************************************)
(* Theorems about Membership for every set of nodes and relays, every      *)
(* setting of the clocks and every bound: type correctness without further *)
(* assumptions, and, where the timeout leaves room for the losses, delays  *)
(* and clock differences there are, that nobody is falsely suspected and   *)
(* that one leader is followed after the timeout.                          *)
(***************************************************************************)
EXTENDS Membership, FiniteSetLemmas, TLAPS

-----------------------------------------------------------------------------
(* What publishing, reading and clearing do to what is under way. *)

LEMMA CarriedIs ==
  ASSUME NEW streams, NEW n, NEW msg
  PROVE  msg \in Carried(streams, n) <=>
           \E r \in Relays : \E i \in DOMAIN streams[r][n] : msg = streams[r][n][i]
  BY DEF Carried

LEMMA CarriedType ==
  ASSUME NEW streams \in Streams, NEW n \in Nodes, NEW msg \in Carried(streams, n)
  PROVE  msg \in Envelopes
<1>0. PICK r \in Relays : \E i \in DOMAIN streams[r][n] : msg = streams[r][n][i]
  BY CarriedIs
<1>1. PICK i \in DOMAIN streams[r][n] : msg = streams[r][n][i]
  BY <1>0
<1>2. streams[r][n] \in Seq(Envelopes)
  BY DEF Streams
<1>. QED  BY <1>1, <1>2

LEMMA AppendIs ==
  ASSUME NEW E, NEW s \in Seq(E), NEW e \in E
  PROVE  /\ Append(s, e) \in Seq(E) /\ Len(s) + 1 \in DOMAIN Append(s, e)
         /\ Append(s, e)[Len(s) + 1] = e
         /\ \A i \in DOMAIN s : i \in DOMAIN Append(s, e) /\ Append(s, e)[i] = s[i]
  OBVIOUS

\* An envelope of now: its type and when it was sent.
LEMMA EnvelopeIs ==
  ASSUME now \in Nat, NEW n \in Nodes, NEW type \in {"HEARTBEAT", "HELLO", "BYE"}, NEW nth \in Nat
  PROVE  LET e == Envelope(n, type, nth) IN
         e \in Envelopes /\ e.from = n /\ e.type = type /\ Sent(e) = now
<1>1. Skew[n] \in Int
  BY MembershipConstants
<1>. QED  BY <1>1 DEF Envelope, Envelopes, Sent, Clock

\* A publication adds its envelope to what is under way to those it reaches.
LEMMA PublishCarries ==
  ASSUME now \in Nat, NEW streams \in Streams, NEW n \in Nodes,
         NEW type \in {"HEARTBEAT", "HELLO", "BYE"}, NEW nth \in Nat,
         NEW c, \A m \in DOMAIN c : c[m] \subseteq Relays
  PROVE  /\ Publish(streams, n, type, nth, c) \in Streams
         /\ \A m \in Nodes : \A msg : msg \in Carried(Publish(streams, n, type, nth, c), m) <=>
              \/ msg \in Carried(streams, m)
              \/ m \in DOMAIN c /\ c[m] # {} /\ msg = Envelope(n, type, nth)
<1>. PICK e, pubs : e = Envelope(n, type, nth) /\ pubs = Publish(streams, n, type, nth, c)
  OBVIOUS
<1>1. e \in Envelopes
  BY EnvelopeIs
<1>2. \A r \in Relays, m \in Nodes :
        /\ streams[r][m] \in Seq(Envelopes)
        /\ pubs[r][m] = IF m \in DOMAIN c /\ r \in c[m] THEN Append(streams[r][m], e) ELSE streams[r][m]
  BY DEF Publish, Streams
<1>3. pubs \in Streams
  <2>1. ASSUME NEW r \in Relays, NEW m \in Nodes PROVE pubs[r][m] \in Seq(Envelopes)
    <3>1. streams[r][m] \in Seq(Envelopes)
      BY <1>2
    <3>2. Append(streams[r][m], e) \in Seq(Envelopes)
      BY <1>1, <3>1, AppendIs
    <3>. QED  BY <1>2, <3>1, <3>2
  <2>2. /\ DOMAIN pubs = Relays /\ pubs = [r \in Relays |-> pubs[r]]
        /\ \A r \in Relays : pubs[r] = [m \in Nodes |-> pubs[r][m]]
    BY DEF Publish
  <2>3. \A r \in Relays : pubs[r] \in [Nodes -> Seq(Envelopes)]
    BY <2>1, <2>2
  <2>. QED  BY <2>2, <2>3 DEF Streams
<1>4. ASSUME NEW m \in Nodes, NEW msg
      PROVE  msg \in Carried(pubs, m) <=>
               msg \in Carried(streams, m) \/ (m \in DOMAIN c /\ c[m] # {} /\ msg = e)
  <2>1. ASSUME msg \in Carried(pubs, m)
        PROVE  msg \in Carried(streams, m) \/ (m \in DOMAIN c /\ c[m] # {} /\ msg = e)
    <3>0. PICK r \in Relays : \E i \in DOMAIN pubs[r][m] : msg = pubs[r][m][i]
      BY <2>1, CarriedIs
    <3>1. PICK i \in DOMAIN pubs[r][m] : msg = pubs[r][m][i]
      BY <3>0
    <3>2. CASE m \in DOMAIN c /\ r \in c[m]
      <4>1. pubs[r][m] = Append(streams[r][m], e) /\ streams[r][m] \in Seq(Envelopes)
        BY <1>2, <3>2
      <4>2. CASE i = Len(streams[r][m]) + 1
        BY <4>1, <4>2, <3>1, <3>2, <1>1
      <4>3. CASE i # Len(streams[r][m]) + 1
        <5>1. i \in DOMAIN streams[r][m] /\ msg = streams[r][m][i]
          BY <4>1, <4>3, <3>1, <1>1
        <5>. QED  BY <5>1, CarriedIs
      <4>. QED  BY <4>2, <4>3
    <3>3. CASE ~(m \in DOMAIN c /\ r \in c[m])
      BY <1>2, <3>1, <3>3, CarriedIs
    <3>. QED  BY <3>2, <3>3
  <2>2. ASSUME msg \in Carried(streams, m)
        PROVE  msg \in Carried(pubs, m)
    <3>0. PICK r \in Relays : \E i \in DOMAIN streams[r][m] : msg = streams[r][m][i]
      BY <2>2, CarriedIs
    <3>1. PICK i \in DOMAIN streams[r][m] : msg = streams[r][m][i]
      BY <3>0
    <3>2. i \in DOMAIN pubs[r][m] /\ msg = pubs[r][m][i]
      <4>1. streams[r][m] \in Seq(Envelopes)
        BY <1>2
      <4>2. /\ i \in DOMAIN Append(streams[r][m], e)
            /\ Append(streams[r][m], e)[i] = streams[r][m][i]
        BY <1>1, <3>1, <4>1, AppendIs
      <4>. QED  BY <1>2, <3>1, <4>2
    <3>. QED  BY <3>2, CarriedIs
  <2>3. ASSUME m \in DOMAIN c, c[m] # {}, msg = e
        PROVE  msg \in Carried(pubs, m)
    <3>1. PICK r \in Relays : r \in c[m]
      BY <2>3
    <3>2. pubs[r][m] = Append(streams[r][m], e) /\ streams[r][m] \in Seq(Envelopes)
      BY <1>2, <2>3, <3>1
    <3>3. Len(streams[r][m]) + 1 \in DOMAIN pubs[r][m]
          /\ pubs[r][m][Len(streams[r][m]) + 1] = msg
      BY <3>2, <2>3, <1>1
    <3>. QED  BY <3>3, CarriedIs
  <2>. QED  BY <2>1, <2>2, <2>3
<1>. QED  BY <1>3, <1>4

\* A read takes the head of one stream; other copies of it may remain.
LEMMA ReadCarries ==
  ASSUME NEW streams \in Streams, NEW r \in Relays, NEW n \in Nodes, streams[r][n] # <<>>,
         NEW head, head = Head(streams[r][n]),
         NEW rest,
         \A q \in Relays, m \in Nodes :
           rest[q][m] = IF q = r /\ m = n THEN Tail(streams[r][n]) ELSE streams[q][m]
  PROVE  /\ head \in Carried(streams, n)
         /\ \A m \in Nodes : m # n => Carried(rest, m) = Carried(streams, m)
         /\ Carried(rest, n) \subseteq Carried(streams, n)
         /\ \A msg \in Carried(streams, n) : msg = head \/ msg \in Carried(rest, n)
<1>. DEFINE s == streams[r][n]
<1>1. /\ s \in Seq(Envelopes) /\ s # <<>> /\ Tail(s) \in Seq(Envelopes)
      /\ 1 \in DOMAIN s /\ head = s[1] /\ DOMAIN s = 1 .. Len(s) /\ Len(s) \in Nat
      /\ DOMAIN Tail(s) = 1 .. Len(s) - 1
      /\ \A i \in 1 .. Len(s) - 1 : Tail(s)[i] = s[i + 1]
  BY DEF Streams
<1>3. \A q \in Relays, m \in Nodes :
        rest[q][m] = IF q = r /\ m = n THEN Tail(s) ELSE streams[q][m]
  OBVIOUS
<1>4. head \in Carried(streams, n)
  BY <1>1, CarriedIs
<1>5. ASSUME NEW m \in Nodes, m # n PROVE Carried(rest, m) = Carried(streams, m)
  BY <1>3, <1>5 DEF Carried
<1>6. ASSUME NEW msg \in Carried(rest, n) PROVE msg \in Carried(streams, n)
  <2>0. PICK q \in Relays : \E i \in DOMAIN rest[q][n] : msg = rest[q][n][i]
    BY CarriedIs
  <2>1. PICK i \in DOMAIN rest[q][n] : msg = rest[q][n][i]
    BY <2>0
  <2>2. CASE q = r
    <3>0. rest[q][n] = Tail(s)
      BY <1>3, <2>2
    <3>1. i + 1 \in DOMAIN s /\ msg = s[i + 1]
      <4>. HIDE DEF s
      <4>. QED  BY <1>1, <2>1, <3>0
    <3>. QED  BY <3>1, <2>2, CarriedIs
  <2>3. CASE q # r
    BY <1>3, <2>1, <2>3, CarriedIs
  <2>. QED  BY <2>2, <2>3
<1>7. ASSUME NEW msg \in Carried(streams, n), msg # head PROVE msg \in Carried(rest, n)
  <2>0. PICK q \in Relays : \E i \in DOMAIN streams[q][n] : msg = streams[q][n][i]
    BY CarriedIs
  <2>1. PICK i \in DOMAIN streams[q][n] : msg = streams[q][n][i]
    BY <2>0
  <2>2. CASE q = r
    <3>1. i # 1
      BY <1>1, <1>7, <2>1, <2>2
    <3>2. i - 1 \in DOMAIN Tail(s) /\ msg = Tail(s)[i - 1]
      BY <1>1, <2>1, <2>2, <3>1
    <3>3. rest[r][n] = Tail(s)
      BY <1>3
    <3>. QED  BY <3>2, <3>3, CarriedIs
  <2>3. CASE q # r
    <3>1. rest[q][n] = streams[q][n]
      BY <1>3, <2>3
    <3>. QED  BY <2>1, <3>1, CarriedIs
  <2>. QED  BY <2>2, <2>3
<1>. QED  BY <1>4, <1>5, <1>6, <1>7

\* A node that joins has new sockets: nothing is under way to it.
LEMMA ClearCarries ==
  ASSUME NEW streams \in Streams, NEW n \in Nodes
  PROVE  LET fresh == [r \in Relays |-> [streams[r] EXCEPT ![n] = <<>>]] IN
         /\ fresh \in Streams /\ Carried(fresh, n) = {}
         /\ \A m \in Nodes : m # n => Carried(fresh, m) = Carried(streams, m)
<1>. DEFINE fresh == [r \in Relays |-> [streams[r] EXCEPT ![n] = <<>>]]
<1>1. fresh \in Streams
  BY DEF Streams
<1>2. \A r \in Relays, m \in Nodes : fresh[r][m] = IF m = n THEN <<>> ELSE streams[r][m]
  BY DEF Streams
<1>. HIDE DEF fresh
<1>3. ASSUME NEW msg PROVE msg \notin Carried(fresh, n)
  BY <1>2, CarriedIs
<1>4. ASSUME NEW m \in Nodes, m # n PROVE Carried(fresh, m) = Carried(streams, m)
  BY <1>2, <1>4 DEF Carried
<1>. QED  BY <1>1, <1>3, <1>4 DEF fresh

-----------------------------------------------------------------------------
(* What a turn of the loop does to the peer tables. *)

LEMMA HandledIs ==
  ASSUME NEW seen, NEW msg \in Envelopes, NEW p
  PROVE  /\ p # msg.from => /\ p \in DOMAIN Handled(seen, msg) <=> p \in DOMAIN seen
                            /\ p \in DOMAIN seen => Handled(seen, msg)[p] = seen[p]
         /\ p = msg.from /\ msg.type = "BYE" => p \notin DOMAIN Handled(seen, msg)
         /\ p = msg.from /\ msg.type # "BYE" =>
              p \in DOMAIN Handled(seen, msg) /\ Handled(seen, msg)[p] = msg.ts
<1>1. msg.type \in {"HEARTBEAT", "HELLO", "BYE"}
  BY DEF Envelopes
<1>2. CASE msg.type = "BYE"
  BY <1>2 DEF Handled, mark_gone
<1>3. CASE msg.type # "BYE"
  BY <1>1, <1>3 DEF Handled, mark_alive
<1>. QED  BY <1>2, <1>3

\* A leader is a node believed alive.
LEMMA LeaderIs ==
  ASSUME NEW n \in Nodes, NEW seen, DOMAIN seen \subseteq Nodes
  PROVE  /\ leader(n, seen) = Min(alive_peers(n, seen))
         /\ leader(n, seen) \in alive_peers(n, seen) /\ leader(n, seen) \in Nodes
<1>1. alive_peers(n, seen) \subseteq Nodes /\ n \in alive_peers(n, seen)
  BY DEF alive_peers
<1>2. alive_peers(n, seen) \in SUBSET Nat
  BY <1>1, MembershipConstants
<1>3. Min(alive_peers(n, seen)) \in alive_peers(n, seen)
  BY <1>1, <1>2, MinNat
<1>. QED  BY <1>1, <1>3 DEF leader

\* The entry of m in node n's table, and what is under way from m to n, are as
\* they were; or a message of m's has been handled.
Kept(n, m, streams) ==
  /\ m \in DOMAIN last_seen'[n] <=> m \in DOMAIN last_seen[n]
  /\ m \in DOMAIN last_seen[n] => last_seen'[n][m] = last_seen[n][m]
  /\ \A msg \in Carried(streams, n) : msg.from = m => msg \in Carried(pipe', n)
Read(n, m, msg) ==
  /\ msg.from = m
  /\ msg.type = "BYE" => m \notin DOMAIN last_seen'[n]
  /\ msg.type # "BYE" => m \in DOMAIN last_seen'[n] /\ last_seen'[n][m] = msg.ts

LEMMA TurnIs ==
  ASSUME DOMAIN last_seen = Nodes, NEW streams \in Streams, NEW n \in Nodes, Turn(n, streams)
  PROVE  /\ pipe' \in Streams /\ DOMAIN last_seen' = Nodes
         /\ \A p \in Nodes : Carried(pipe', p) \subseteq Carried(streams, p)
         /\ \A p \in Nodes : \A m :
              Kept(p, m, streams) \/ (p = n /\ \E msg \in Carried(streams, p) : Read(p, m, msg))
         /\ \A p \in Nodes : p # n => last_seen'[p] = last_seen[p]
<1>1. CASE pipe' = streams /\ UNCHANGED <<last_seen, gone>>
  BY <1>1 DEF Kept
<1>2. CASE \E r \in Relays :
             /\ streams[r][n] # <<>>
             /\ last_seen' = [last_seen EXCEPT ![n] = Handled(@, Head(streams[r][n]))]
             /\ pipe' = [streams EXCEPT ![r][n] = Tail(@)]
  <2>1. PICK r \in Relays :
             /\ streams[r][n] # <<>>
             /\ last_seen' = [last_seen EXCEPT ![n] = Handled(@, Head(streams[r][n]))]
             /\ pipe' = [streams EXCEPT ![r][n] = Tail(@)]
    BY <1>2
  <2>2. PICK head : head = Head(streams[r][n])
    OBVIOUS
  <2>3. /\ pipe' \in Streams /\ head \in Carried(streams, n)
        /\ \A p \in Nodes : p # n => Carried(pipe', p) = Carried(streams, p)
        /\ Carried(pipe', n) \subseteq Carried(streams, n)
        /\ \A msg \in Carried(streams, n) : msg = head \/ msg \in Carried(pipe', n)
    <3>1. PICK rest : rest = pipe'
      OBVIOUS
    <3>2. \A q \in Relays, m \in Nodes :
            /\ streams[q][m] \in Seq(Envelopes)
            /\ rest[q][m] = IF q = r /\ m = n THEN Tail(streams[r][n]) ELSE streams[q][m]
      BY <2>1, <3>1 DEF Streams
    <3>3. rest \in Streams
      <4>1. Tail(streams[r][n]) \in Seq(Envelopes)
        BY <2>1, <3>2
      <4>. QED  BY <2>1, <3>1, <4>1 DEF Streams
    <3>4. /\ head \in Carried(streams, n)
          /\ \A p \in Nodes : p # n => Carried(rest, p) = Carried(streams, p)
          /\ Carried(rest, n) \subseteq Carried(streams, n)
          /\ \A msg \in Carried(streams, n) : msg = head \/ msg \in Carried(rest, n)
      <4>1. streams[r][n] # <<>>
        BY <2>1
      <4>. QED  BY <2>2, <3>2, <4>1, ReadCarries
    <3>. QED  BY <3>1, <3>3, <3>4
  <2>4. /\ last_seen'[n] = Handled(last_seen[n], head) /\ DOMAIN last_seen' = Nodes
        /\ \A p \in Nodes : p # n => last_seen'[p] = last_seen[p]
    BY <2>1, <2>2
  <2>5. head \in Envelopes
    BY <2>3, CarriedType
  <2>6. ASSUME NEW p \in Nodes, NEW m
        PROVE  Kept(p, m, streams) \/ (p = n /\ \E msg \in Carried(streams, p) : Read(p, m, msg))
    <3>1. CASE p # n
      BY <2>3, <2>4, <3>1 DEF Kept
    <3>2. CASE p = n /\ head.from = m
      <4>1. Read(n, m, head)
        BY <2>4, <2>5, <3>2, HandledIs DEF Read
      <4>. QED  BY <2>3, <3>2, <4>1
    <3>3. CASE p = n /\ head.from # m
      <4>1. /\ m \in DOMAIN last_seen'[n] <=> m \in DOMAIN last_seen[n]
            /\ m \in DOMAIN last_seen[n] => last_seen'[n][m] = last_seen[n][m]
        BY <2>4, <2>5, <3>3, HandledIs
      <4>. QED  BY <2>3, <3>3, <4>1 DEF Kept
    <3>. QED  BY <3>1, <3>2, <3>3
  <2>. QED  BY <2>3, <2>4, <2>6
<1>. QED  BY <1>1, <1>2 DEF Turn

\* The count of publications missed in a row stays within its bound.
LEMMA MissedIs ==
  ASSUME missed \in [Links -> 0 .. MaxLost], running \subseteq Nodes,
         NEW n \in Nodes, NEW c \in Carriages(n)
  PROVE  /\ c \in [running \ {n} -> SUBSET Relays]
         /\ Missed(n, c) \in [Links -> 0 .. MaxLost]
         /\ \A m \in running \ {n} : c[m] = {} => Missed(n, c)[<<n, m>>] = missed[<<n, m>>] + 1
         /\ \A link \in Links : link[1] # n => Missed(n, c)[link] = missed[link]
<1>1. c \in [running \ {n} -> SUBSET Relays]
      /\ \A m \in running \ {n} : c[m] = {} => missed[<<n, m>>] < MaxLost
  BY DEF Carriages
<1>2. MaxLost \in Nat
  BY MembershipConstants
<1>3. ASSUME NEW link \in Links PROVE Missed(n, c)[link] \in 0 .. MaxLost
  <2>1. Missed(n, c)[link] = IF link[1] = n /\ link[2] \in running \ {n}
                             THEN IF c[link[2]] = {} THEN missed[link] + 1 ELSE 0
                             ELSE missed[link]
    BY <1>1 DEF Missed
  <2>2. link = <<link[1], link[2]>> /\ missed[link] \in 0 .. MaxLost
    BY DEF Links
  <2>. QED  BY <1>1, <1>2, <2>1, <2>2
<1>4. ASSUME NEW m \in running \ {n}, c[m] = {}
      PROVE  Missed(n, c)[<<n, m>>] = missed[<<n, m>>] + 1
  <2>1. <<n, m>> \in Links
    BY DEF Links
  <2>. QED  BY <1>1, <1>4, <2>1 DEF Missed
<1>5. Missed(n, c) \in [Links -> 0 .. MaxLost]
  <2>1. Missed(n, c) = [link \in Links |-> Missed(n, c)[link]]
    BY DEF Missed
  <2>. QED  BY <1>3, <2>1
<1>6. ASSUME NEW link \in Links, link[1] # n PROVE Missed(n, c)[link] = missed[link]
  BY <1>6 DEF Missed
<1>. QED  BY <1>1, <1>4, <1>5, <1>6

-----------------------------------------------------------------------------
(* The actions that publish, in terms of what is under way afterwards. *)

\* What node n has sent now is on its way, through streams, to those of the
\* running nodes the relays carry it to.
Spread(n, type, nth, c, streams) ==
  /\ c \in [running \ {n} -> SUBSET Relays] /\ streams \in Streams
  /\ \A m \in Nodes : \A msg : msg \in Carried(streams, m) <=>
       msg \in Underway(m) \/ (m \in running \ {n} /\ c[m] # {} /\ msg = Envelope(n, type, nth))

\* How many of them have now missed how much.
Tallied(n, c) ==
  /\ missed' \in [Links -> 0 .. MaxLost]
  /\ \A m \in running \ {n} : c[m] = {} => missed'[<<n, m>>] = missed[<<n, m>>] + 1
  /\ \A link \in Links : link[1] # n => missed'[link] = missed[link]

LEMMA TypesIn ==
  ASSUME TypeInv
  PROVE  /\ now \in Nat /\ now <= MaxTime /\ running \subseteq Nodes /\ looped \subseteq Nodes
         /\ missed \in [Links -> 0 .. MaxLost] /\ prev_leader \in [Nodes -> Nodes \cup {NoNode}]
         /\ DOMAIN last_seen = Nodes /\ last_heartbeat \in [Nodes -> Int]
         /\ joined \in [Nodes -> Nat] /\ life \in [Nodes -> Nat]
         /\ changed \in Nat /\ changed <= now /\ pipe \in Streams
         /\ \A n \in Nodes : joined[n] <= changed /\ Skew[n] \in Int
         /\ HeartbeatInterval \in Nat /\ HeartbeatInterval > 0 /\ MaxDelay \in Nat
         /\ MaxLost \in Nat /\ PeerTimeout \in Nat /\ MaxTime \in Nat
  BY MembershipConstants DEF TypeInv, TypeOK, Shape

LEMMA PublishSpreads ==
  ASSUME TypeInv, NEW n \in Nodes, NEW type \in {"HEARTBEAT", "HELLO", "BYE"},
         NEW nth \in Nat, NEW c \in Carriages(n)
  PROVE  Spread(n, type, nth, c, Publish(pipe, n, type, nth, c))
<1>0. missed \in [Links -> 0 .. MaxLost] /\ running \subseteq Nodes
  BY TypesIn
<1>1. c \in [running \ {n} -> SUBSET Relays]
  BY <1>0, MissedIs
<1>2. running \ {n} \in SUBSET Nodes /\ now \in Nat /\ pipe \in Streams
  BY TypesIn
<1>3. DOMAIN c = running \ {n} /\ \A m \in DOMAIN c : c[m] \subseteq Relays
  BY <1>1
<1>4. /\ Publish(pipe, n, type, nth, c) \in Streams
      /\ \A m \in Nodes : \A msg : msg \in Carried(Publish(pipe, n, type, nth, c), m) <=>
           \/ msg \in Carried(pipe, m)
           \/ m \in DOMAIN c /\ c[m] # {} /\ msg = Envelope(n, type, nth)
  BY <1>2, <1>3, PublishCarries
<1>. QED  BY <1>1, <1>3, <1>4 DEF Spread, Underway

LEMMA BeatIs ==
  ASSUME TypeInv, NEW n \in Nodes, LoopBeat(n)
  PROVE  \E c, streams : /\ Spread(n, "HEARTBEAT", life[n], c, streams)
                         /\ Turn(n, streams) /\ Tallied(n, c)
<1>1. PICK c \in Carriages(n) : /\ Turn(n, Publish(pipe, n, "HEARTBEAT", life[n], c))
                                /\ missed' = Missed(n, c)
  BY DEF LoopBeat
<1>2. Spread(n, "HEARTBEAT", life[n], c, Publish(pipe, n, "HEARTBEAT", life[n], c))
  BY PublishSpreads, TypesIn
<1>3. missed \in [Links -> 0 .. MaxLost] /\ running \subseteq Nodes
  BY TypesIn
<1>4. Tallied(n, c)
  <2>1. /\ Missed(n, c) \in [Links -> 0 .. MaxLost]
        /\ \A m \in running \ {n} : c[m] = {} => Missed(n, c)[<<n, m>>] = missed[<<n, m>>] + 1
        /\ \A link \in Links : link[1] # n => Missed(n, c)[link] = missed[link]
    BY <1>3, MissedIs
  <2>. QED  BY <1>1, <2>1 DEF Tallied
<1>. QED  BY <1>1, <1>2, <1>4

LEMMA LeaveIs ==
  ASSUME TypeInv, NEW n \in Nodes, Leave(n)
  PROVE  \E c : Spread(n, "BYE", life[n], c, pipe') /\ Tallied(n, c)
<1>1. PICK c \in Carriages(n) : /\ pipe' = Publish(pipe, n, "BYE", life[n], c)
                                /\ missed' = Missed(n, c)
  BY DEF Leave
<1>2. Spread(n, "BYE", life[n], c, Publish(pipe, n, "BYE", life[n], c))
  BY PublishSpreads, TypesIn
<1>3. missed \in [Links -> 0 .. MaxLost] /\ running \subseteq Nodes
  BY TypesIn
<1>4. Tallied(n, c)
  <2>1. /\ Missed(n, c) \in [Links -> 0 .. MaxLost]
        /\ \A m \in running \ {n} : c[m] = {} => Missed(n, c)[<<n, m>>] = missed[<<n, m>>] + 1
        /\ \A link \in Links : link[1] # n => Missed(n, c)[link] = missed[link]
    BY <1>3, MissedIs
  <2>. QED  BY <1>1, <2>1 DEF Tallied
<1>. QED  BY <1>1, <1>2, <1>4

LEMMA JoinIs ==
  ASSUME TypeInv, NEW n \in Nodes, Join(n)
  PROVE  /\ pipe' \in Streams /\ Underway(n)' = {}
         /\ \A m \in Nodes : m # n => /\ Underway(m) \subseteq Underway(m)'
                                      /\ missed'[<<m, n>>] = 0
         /\ \A m \in Nodes : \A msg \in Underway(m)' :
              \/ msg \in Underway(m)
              \/ m \in running /\ msg = Envelope(n, "HELLO", life[n] + 1)
         /\ missed' \in [Links -> 0 .. MaxLost]
         /\ \A link \in Links : link[1] # n /\ link[2] # n => missed'[link] = missed[link]
<1>. DEFINE cleared == [r \in Relays |-> [pipe[r] EXCEPT ![n] = <<>>]]
<1>1. PICK c \in Carriages(n) :
        /\ pipe' = Publish(cleared, n, "HELLO", life[n] + 1, c)
        /\ missed' = [link \in Links |-> IF link[2] = n THEN 0 ELSE Missed(n, c)[link]]
  BY DEF Join
<1>2. /\ cleared \in Streams /\ Carried(cleared, n) = {}
      /\ \A m \in Nodes : m # n => Carried(cleared, m) = Carried(pipe, m)
  BY ClearCarries, TypesIn
<1>. HIDE DEF cleared
<1>0. /\ missed \in [Links -> 0 .. MaxLost] /\ running \subseteq Nodes
      /\ now \in Nat /\ life[n] + 1 \in Nat
  BY TypesIn
<1>3. /\ c \in [running \ {n} -> SUBSET Relays] /\ Missed(n, c) \in [Links -> 0 .. MaxLost]
      /\ running \ {n} \in SUBSET Nodes
      /\ \A link \in Links : link[1] # n => Missed(n, c)[link] = missed[link]
  BY <1>0, MissedIs
<1>4. /\ pipe' \in Streams
      /\ \A m \in Nodes : \A msg : msg \in Carried(pipe', m) <=>
           \/ msg \in Carried(cleared, m)
           \/ m \in DOMAIN c /\ c[m] # {} /\ msg = Envelope(n, "HELLO", life[n] + 1)
  <2>1. \A m \in DOMAIN c : c[m] \subseteq Relays
    BY <1>3
  <2>. QED  BY <1>0, <1>1, <1>2, <2>1, PublishCarries
<1>5. missed' \in [Links -> 0 .. MaxLost]
  BY <1>1, <1>3, TypesIn
<1>6. ASSUME NEW m \in Nodes, m # n PROVE missed'[<<m, n>>] = 0
  BY <1>1, <1>6 DEF Links
<1>7. ASSUME NEW link \in Links, link[1] # n, link[2] # n PROVE missed'[link] = missed[link]
  BY <1>1, <1>3, <1>7
<1>. QED  BY <1>2, <1>3, <1>4, <1>5, <1>6, <1>7 DEF Underway

-----------------------------------------------------------------------------
(* Type correctness. *)

LEMMA InitType == ASSUME Init PROVE TypeInv
<1>1. MaxLost \in Nat /\ MaxTime \in Nat /\ HeartbeatInterval \in Nat /\ Skew \in [Nodes -> Int]
  BY MembershipConstants
<1>2. \A n \in Nodes : Underway(n) = {}
  <2>1. ASSUME NEW n \in Nodes, NEW msg PROVE msg \notin Underway(n)
    BY CarriedIs DEF Underway, Init
  <2>. QED  BY <2>1
<1>3. TypeOK
  BY <1>1 DEF Init, TypeOK, NothingSeen
<1>4. Shape
  BY <1>1 DEF Init, Shape, Streams
<1>5. InTime
  BY <1>2 DEF InTime
<1>. QED  BY <1>3, <1>4, <1>5 DEF TypeInv

\* A node hears others only, and nothing from the future: what InTime says of
\* the messages under way in streams.
Timely(streams) ==
  \A n \in Nodes : \A msg \in Carried(streams, n) :
    /\ msg.from # n /\ Sent(msg) \in 0 .. now
    /\ n \in running => now <= Sent(msg) + MaxDelay

LEMMA SpreadTimely ==
  ASSUME TypeInv, NEW n \in Nodes, NEW type \in {"HEARTBEAT", "HELLO", "BYE"}, NEW nth \in Nat,
         NEW c, NEW streams, Spread(n, type, nth, c, streams)
  PROVE  Timely(streams)
<1>1. now \in Nat /\ MaxDelay \in Nat
  BY TypesIn
<1>2. /\ Envelope(n, type, nth).from = n /\ Sent(Envelope(n, type, nth)) = now
  BY <1>1, EnvelopeIs
<1>. SUFFICES ASSUME NEW m \in Nodes, NEW msg \in Carried(streams, m)
              PROVE  /\ msg.from # m /\ Sent(msg) \in 0 .. now
                     /\ m \in running => now <= Sent(msg) + MaxDelay
  BY DEF Timely
<1>3. CASE msg \in Underway(m)
  BY <1>3 DEF TypeInv, InTime
<1>4. CASE m \in running \ {n} /\ msg = Envelope(n, type, nth)
  BY <1>1, <1>2, <1>4
<1>. QED  BY <1>3, <1>4 DEF Spread

LEMMA TurnType ==
  ASSUME TypeInv, NEW n \in Nodes, NEW streams \in Streams, Turn(n, streams), Timely(streams),
         last_heartbeat' \in [Nodes -> Int], missed' \in [Links -> 0 .. MaxLost]
  PROVE  TypeInv'
<1>1. /\ pipe' \in Streams /\ DOMAIN last_seen' = Nodes
      /\ \A p \in Nodes : Carried(pipe', p) \subseteq Carried(streams, p)
      /\ \A p \in Nodes : \A m :
           Kept(p, m, streams) \/ (p = n /\ \E msg \in Carried(streams, p) : Read(p, m, msg))
      /\ \A p \in Nodes : p # n => last_seen'[p] = last_seen[p]
  BY TypesIn, TurnIs
<1>2. UNCHANGED <<now, running, joined, changed, life>> /\ looped' = looped \cup {n}
  BY DEF Turn
<1>3. now \in Nat /\ \A m \in Nodes : Skew[m] \in Int
  BY TypesIn
<1>4. ASSUME NEW p \in Nodes, NEW m \in DOMAIN last_seen'[p]
      PROVE  m \in Nodes /\ m # p /\ last_seen'[p][m] \in Skew[m] .. now + Skew[m]
  <2>1. CASE Kept(p, m, streams)
    BY <2>1 DEF Kept, TypeInv, TypeOK, Clock
  <2>2. CASE \E msg \in Carried(streams, p) : Read(p, m, msg)
    <3>1. PICK msg \in Carried(streams, p) : Read(p, m, msg)
      BY <2>2
    <3>2. msg.from # p /\ Sent(msg) \in 0 .. now /\ msg \in Envelopes
      BY CarriedType DEF Timely
    <3>3. m = msg.from /\ last_seen'[p][m] = msg.ts
      BY <3>1 DEF Read
    <3>4. msg.ts \in Int /\ m \in Nodes
      BY <3>2, <3>3 DEF Envelopes
    <3>. QED  BY <1>3, <3>2, <3>3, <3>4 DEF Sent
  <2>. QED  BY <1>1, <2>1, <2>2
<1>5. \A p \in Nodes : DOMAIN last_seen'[p] \subseteq Nodes \ {p}
  BY <1>4
<1>6. prev_leader' \in [Nodes -> Nodes \cup {NoNode}]
  <2>1. DOMAIN last_seen'[n] \subseteq Nodes
    BY <1>5
  <2>2. leader(n, last_seen'[n]) \in Nodes
    BY <2>1, LeaderIs
  <2>3. prev_leader' = [prev_leader EXCEPT ![n] = leader(n, last_seen'[n])]
    BY DEF Turn, leader_changed
  <2>. QED  BY <2>2, <2>3, TypesIn
<1>7. TypeOK'
  BY <1>2, <1>4, <1>5, <1>6 DEF TypeInv, TypeOK, Clock
<1>8. Shape'
  BY <1>1, <1>2 DEF TypeInv, Shape
<1>9. InTime'
  BY <1>1, <1>2 DEF InTime, Timely, Underway, Sent
<1>. QED  BY <1>7, <1>8, <1>9 DEF TypeInv

LEMMA BeatType == ASSUME TypeInv, NEW n \in running, LoopBeat(n) PROVE TypeInv'
<1>0. n \in Nodes /\ life[n] \in Nat /\ Clock(n) \in Int
  BY TypesIn DEF Clock
<1>1. PICK c, streams : /\ Spread(n, "HEARTBEAT", life[n], c, streams)
                        /\ Turn(n, streams) /\ Tallied(n, c)
  BY <1>0, BeatIs
<1>2. Timely(streams) /\ streams \in Streams /\ missed' \in [Links -> 0 .. MaxLost]
  BY <1>0, <1>1, SpreadTimely DEF Spread, Tallied
<1>3. last_heartbeat' \in [Nodes -> Int]
  BY <1>0, TypesIn DEF LoopBeat
<1>. QED  BY <1>0, <1>1, <1>2, <1>3, TurnType

LEMMA QuietType == ASSUME TypeInv, NEW n \in running, LoopQuiet(n) PROVE TypeInv'
<1>1. Turn(n, pipe) /\ UNCHANGED <<last_heartbeat, missed>> /\ n \in Nodes
  BY TypesIn DEF LoopQuiet
<1>2. Timely(pipe) /\ pipe \in Streams
  BY TypesIn DEF TypeInv, InTime, Timely, Underway
<1>. QED  BY <1>1, <1>2, TypesIn, TurnType

LEMMA JoinType == ASSUME TypeInv, NEW n \in Nodes, Join(n) PROVE TypeInv'
<1>1. /\ now' = now /\ running' = running \cup {n} /\ looped' = looped \ {n} /\ changed' = now
      /\ last_heartbeat' = [last_heartbeat EXCEPT ![n] = Clock(n) - HeartbeatInterval]
      /\ last_seen' = [last_seen EXCEPT ![n] = NothingSeen]
      /\ prev_leader' = [prev_leader EXCEPT ![n] = NoNode]
      /\ joined' = [joined EXCEPT ![n] = now] /\ life' = [life EXCEPT ![n] = @ + 1]
  BY DEF Join
<1>2. /\ pipe' \in Streams /\ Underway(n)' = {} /\ missed' \in [Links -> 0 .. MaxLost]
      /\ \A m \in Nodes : \A msg \in Underway(m)' :
           \/ msg \in Underway(m)
           \/ m \in running /\ msg = Envelope(n, "HELLO", life[n] + 1)
  BY JoinIs
<1>3. now \in Nat /\ MaxDelay \in Nat /\ life[n] + 1 \in Nat /\ n \notin running
  BY TypesIn DEF Join
<1>4. /\ Envelope(n, "HELLO", life[n] + 1).from = n
      /\ Sent(Envelope(n, "HELLO", life[n] + 1)) = now
  BY <1>3, EnvelopeIs
<1>5. \A p \in Nodes : last_seen'[p] = IF p = n THEN NothingSeen ELSE last_seen[p]
  BY <1>1, TypesIn
<1>6. TypeOK'
  BY <1>1, <1>2, <1>5, TypesIn DEF TypeInv, TypeOK, Clock, NothingSeen
<1>7. Shape'
  BY <1>1, <1>2, TypesIn DEF Shape, Clock
<1>8. InTime'
  <2>. SUFFICES ASSUME NEW m \in Nodes, NEW msg \in Underway(m)'
                PROVE  /\ msg.from # m /\ Sent(msg) \in 0 .. now
                       /\ m \in running' => now <= Sent(msg) + MaxDelay
    BY <1>1 DEF InTime, Sent
  <2>1. m # n
    BY <1>2
  <2>2. CASE msg \in Underway(m)
    BY <1>1, <2>1, <2>2 DEF TypeInv, InTime
  <2>3. CASE msg = Envelope(n, "HELLO", life[n] + 1)
    BY <1>3, <1>4, <2>1, <2>3
  <2>. QED  BY <1>2, <2>2, <2>3
<1>. QED  BY <1>6, <1>7, <1>8 DEF TypeInv

LEMMA LeaveType == ASSUME TypeInv, NEW n \in running, Leave(n) PROVE TypeInv'
<1>0. n \in Nodes /\ life[n] \in Nat
  BY TypesIn
<1>1. PICK c : Spread(n, "BYE", life[n], c, pipe') /\ Tallied(n, c)
  BY <1>0, LeaveIs
<1>2. Timely(pipe') /\ pipe' \in Streams /\ missed' \in [Links -> 0 .. MaxLost]
  BY <1>0, <1>1, SpreadTimely DEF Spread, Tallied
<1>3. /\ UNCHANGED <<now, last_heartbeat, last_seen, prev_leader, looped, joined, life>>
      /\ running' = running \ {n} /\ changed' = now
  BY DEF Leave, peerTable
<1>4. TypeOK'
  BY <1>2, <1>3 DEF TypeInv, TypeOK, Clock
<1>5. Shape'
  BY <1>2, <1>3, TypesIn DEF Shape
<1>6. InTime'
  BY <1>2, <1>3 DEF InTime, Timely, Underway, Sent
<1>. QED  BY <1>4, <1>5, <1>6 DEF TypeInv

LEMMA KillType == ASSUME TypeInv, NEW n \in running, Kill(n) PROVE TypeInv'
<1>1. /\ UNCHANGED <<now, last_heartbeat, last_seen, prev_leader, pipe, looped, missed, joined, life>>
      /\ running' = running \ {n} /\ changed' = now
  BY DEF Kill, peerTable
<1>2. TypeOK'
  BY <1>1 DEF TypeInv, TypeOK, Clock
<1>3. Shape'
  BY <1>1, TypesIn DEF Shape
<1>4. InTime'
  BY <1>1 DEF TypeInv, InTime, Underway, Sent
<1>. QED  BY <1>2, <1>3, <1>4 DEF TypeInv

LEMMA TickType == ASSUME TypeInv, Tick PROVE TypeInv'
<1>1. /\ UNCHANGED <<running, last_heartbeat, last_seen, prev_leader, pipe, missed, joined,
                     changed, life>>
      /\ looped' = {} /\ now' = now + 1 /\ now < MaxTime
  BY DEF Tick, peerTable
<1>2. TypeOK'
  <2>1. ASSUME NEW p \in Nodes, NEW m \in DOMAIN last_seen[p]
        PROVE  last_seen[p][m] \in Skew[m] .. now + 1 + Skew[m]
    <3>1. m \in Nodes /\ last_seen[p][m] \in Skew[m] .. now + Skew[m]
      BY DEF TypeInv, TypeOK, Clock
    <3>. QED  BY <3>1, TypesIn
  <2>. QED  BY <1>1, <2>1, TypesIn DEF TypeInv, TypeOK, Clock
<1>3. Shape'
  BY <1>1, TypesIn DEF TypeInv, Shape
<1>4. InTime'
  <2>. SUFFICES ASSUME NEW n \in Nodes, NEW msg \in Underway(n)
                PROVE  /\ msg.from # n /\ Sent(msg) \in 0 .. now + 1
                       /\ n \in running => now + 1 <= Sent(msg) + MaxDelay
    BY <1>1 DEF InTime, Underway, Sent
  <2>1. msg.from # n /\ Sent(msg) \in 0 .. now
    BY DEF TypeInv, InTime
  <2>2. ASSUME n \in running PROVE now < Sent(msg) + MaxDelay
    <3>1. PICK r \in Relays : \E i \in DOMAIN pipe[r][n] : msg = pipe[r][n][i]
      BY CarriedIs DEF Underway
    <3>2. PICK i \in DOMAIN pipe[r][n] : msg = pipe[r][n][i]
      BY <3>1
    <3>. QED  BY <2>2, <3>2 DEF Tick, Sent
  <2>. QED  BY <2>1, <2>2, TypesIn
<1>. QED  BY <1>2, <1>3, <1>4 DEF TypeInv

LEMMA StutterType == ASSUME TypeInv, UNCHANGED vars PROVE TypeInv'
<1>. USE DEF vars, peerTable
<1>1. TypeOK'
  BY DEF TypeInv, TypeOK, Clock
<1>2. Shape'
  BY DEF TypeInv, Shape
<1>3. InTime'
  BY DEF TypeInv, InTime, Underway, Sent
<1>. QED  BY <1>1, <1>2, <1>3 DEF TypeInv

LEMMA NextType == ASSUME TypeInv, [Next]_vars PROVE TypeInv'
<1>1. CASE Tick
  BY <1>1, TickType
<1>2. ASSUME NEW n \in Nodes, Join(n) PROVE TypeInv'
  BY <1>2, JoinType
<1>3. ASSUME NEW n \in Nodes, LoopBeat(n) PROVE TypeInv'
  BY <1>3, BeatType DEF LoopBeat
<1>4. ASSUME NEW n \in Nodes, LoopQuiet(n) PROVE TypeInv'
  BY <1>4, QuietType DEF LoopQuiet
<1>5. ASSUME NEW n \in Nodes, Leave(n) PROVE TypeInv'
  BY <1>5, LeaveType DEF Leave
<1>6. ASSUME NEW n \in Nodes, Kill(n) PROVE TypeInv'
  BY <1>6, KillType DEF Kill
<1>7. CASE UNCHANGED vars
  BY <1>7, StutterType
<1>. QED  BY <1>1, <1>2, <1>3, <1>4, <1>5, <1>6, <1>7 DEF Next

LEMMA AlwaysTyped == Spec => []TypeInv
<1>1. Init => TypeInv
  BY InitType
<1>2. TypeInv /\ [Next]_vars => TypeInv'
  BY NextType
<1>. QED  BY <1>1, <1>2, PTL DEF Spec

\* State types (node.py, peers.py): whatever the delays, losses, duplicates and
\* clock differences, a peer table holds other nodes only, with times that their
\* own clocks have shown, and the leader announced is a node.
THEOREM MembershipTypeCorrect == Spec => []TypeOK
<1>1. TypeInv => TypeOK
  BY DEF TypeInv
<1>. QED  BY <1>1, AlwaysTyped, PTL

-----------------------------------------------------------------------------
(* Times: HEARTBEATs go out on time, and what that means for messages. *)

LEMMA Times ==
  ASSUME NEW h \in Nat, NEW k \in Nat, NEW l \in Nat, k <= l
  PROVE  (k + 1) * h = k * h + h /\ k * h \in Nat /\ k * h <= l * h
<1>1. PICK d \in Nat : l = k + d
  <2>1. l - k \in Nat /\ l = k + (l - k)
    OBVIOUS
  <2>. QED  BY <2>1
<1>2. l * h = k * h + d * h /\ d * h >= 0
  BY <1>1
<1>. QED  BY <1>2

LEMMA BeatAtIs ==
  ASSUME TypeInv, NEW m \in Nodes
  PROVE  /\ BeatAt(m) \in Int /\ LastPublished(m) \in Int
         /\ LastPublished(m) >= BeatAt(m) /\ LastPublished(m) >= joined[m]
         /\ LastPublished(m) = BeatAt(m) \/ LastPublished(m) = joined[m]
<1>1. joined[m] \in Nat /\ last_heartbeat[m] \in Int /\ Skew[m] \in Int
  BY TypesIn
<1>2. BeatAt(m) \in Int
  BY <1>1 DEF BeatAt
<1>. QED  BY <1>1, <1>2 DEF LastPublished, Later

\* At a HEARTBEAT the one before it, if any, is an interval old.
LEMMA BeatTimes ==
  ASSUME TypeInv, Punctual, NEW n \in running, LoopBeat(n)
  PROVE  /\ BeatAt(n)' = now /\ LastPublished(n)' = now
         /\ \/ LastPublished(n) = now - HeartbeatInterval
            \/ LastPublished(n) = now /\ joined[n] = now
         /\ \A m \in Nodes : m # n => BeatAt(m)' = BeatAt(m) /\ LastPublished(m)' = LastPublished(m)
         /\ joined' = joined /\ now' = now /\ running' = running /\ looped' = looped \cup {n}
<1>1. /\ n \in Nodes /\ now \in Nat /\ joined[n] \in Nat /\ joined[n] <= now /\ Skew[n] \in Int
      /\ HeartbeatInterval \in Nat /\ HeartbeatInterval > 0 /\ last_heartbeat[n] \in Int
      /\ last_heartbeat \in [Nodes -> Int]
  BY TypesIn
<1>2. /\ now - BeatAt(n) >= HeartbeatInterval /\ BeatAt(n) \in Int
  BY <1>1 DEF LoopBeat, Due, Clock, BeatAt
<1>3. /\ joined' = joined /\ now' = now /\ running' = running /\ looped' = looped \cup {n}
      /\ last_heartbeat' = [last_heartbeat EXCEPT ![n] = Clock(n)]
  BY DEF LoopBeat, Turn
<1>4. BeatAt(n)' = now
  BY <1>1, <1>3 DEF BeatAt, Clock
<1>5. LastPublished(n)' = now
  BY <1>1, <1>3, <1>4 DEF LastPublished, Later
<1>6. ASSUME NEW m \in Nodes, m # n
      PROVE  BeatAt(m)' = BeatAt(m) /\ LastPublished(m)' = LastPublished(m)
  BY <1>1, <1>3, <1>6 DEF BeatAt, LastPublished, Later
<1>7. \/ BeatAt(n) \in joined[n] .. now /\ now - BeatAt(n) <= HeartbeatInterval
      \/ BeatAt(n) = joined[n] - HeartbeatInterval /\ now = joined[n]
  BY DEF Punctual
<1>8. \/ LastPublished(n) = now - HeartbeatInterval
      \/ LastPublished(n) = now /\ joined[n] = now
  BY <1>1, <1>2, <1>7 DEF LastPublished, Later
<1>. QED  BY <1>3, <1>4, <1>5, <1>6, <1>8

LEMMA BeatPunctual ==
  ASSUME TypeInv, Punctual, NEW n \in running, LoopBeat(n) PROVE Punctual'
<1>1. /\ BeatAt(n)' = now /\ joined' = joined /\ now' = now /\ running' = running
      /\ looped' = looped \cup {n} /\ \A m \in Nodes : m # n => BeatAt(m)' = BeatAt(m)
  BY BeatTimes
<1>2. joined[n] \in Nat /\ joined[n] <= now /\ now \in Nat /\ running \subseteq Nodes
      /\ HeartbeatInterval \in Nat /\ HeartbeatInterval > 0
  BY TypesIn
<1>. QED  BY <1>1, <1>2 DEF Punctual

LEMMA QuietPunctual ==
  ASSUME TypeInv, Punctual, NEW n \in running, LoopQuiet(n) PROVE Punctual'
<1>1. /\ joined' = joined /\ now' = now /\ running' = running /\ looped' = looped \cup {n}
      /\ last_heartbeat' = last_heartbeat
  BY DEF LoopQuiet, Turn
<1>2. /\ n \in Nodes /\ joined[n] \in Nat /\ now \in Nat /\ Skew[n] \in Int
      /\ HeartbeatInterval \in Nat /\ last_heartbeat[n] \in Int
  BY TypesIn
<1>3. ~(now - BeatAt(n) >= HeartbeatInterval) /\ BeatAt(n) \in Int
  BY <1>2 DEF LoopQuiet, Due, Clock, BeatAt
<1>4. \A m : BeatAt(m)' = BeatAt(m)
  BY <1>1 DEF BeatAt
<1>. QED  BY <1>1, <1>2, <1>3, <1>4 DEF Punctual

LEMMA JoinPunctual ==
  ASSUME TypeInv, Punctual, NEW n \in Nodes, Join(n) PROVE Punctual'
<1>1. /\ now' = now /\ running' = running \cup {n} /\ looped' = looped \ {n}
      /\ last_heartbeat' = [last_heartbeat EXCEPT ![n] = Clock(n) - HeartbeatInterval]
      /\ joined' = [joined EXCEPT ![n] = now] /\ n \notin running
  BY DEF Join
<1>2. /\ now \in Nat /\ Skew[n] \in Int /\ HeartbeatInterval \in Nat /\ running \subseteq Nodes
      /\ last_heartbeat \in [Nodes -> Int] /\ joined \in [Nodes -> Nat]
  BY TypesIn
<1>3. BeatAt(n)' = now - HeartbeatInterval /\ joined'[n] = now
  BY <1>1, <1>2 DEF BeatAt, Clock
<1>4. \A m \in running : BeatAt(m)' = BeatAt(m) /\ joined'[m] = joined[m]
  BY <1>1, <1>2 DEF BeatAt
<1>. QED  BY <1>1, <1>2, <1>3, <1>4 DEF Punctual

LEMMA TickPunctual ==
  ASSUME TypeInv, Punctual, Tick PROVE Punctual'
<1>1. /\ UNCHANGED <<running, last_heartbeat, joined>> /\ running \subseteq looped
      /\ looped' = {} /\ now' = now + 1
  BY DEF Tick
<1>2. /\ now \in Nat /\ HeartbeatInterval \in Nat /\ running \subseteq Nodes
      /\ joined \in [Nodes -> Nat]
  BY TypesIn
<1>3. \A m : BeatAt(m)' = BeatAt(m)
  BY <1>1 DEF BeatAt
<1>4. \A m \in running : BeatAt(m) \in Int
  BY BeatAtIs, <1>2
<1>. QED  BY <1>1, <1>2, <1>3, <1>4 DEF Punctual

-----------------------------------------------------------------------------
(* Only a running node's last publication is under way from it. *)

\* What LatestOnly says of one message.
Latest(m, msg) ==
  IF Fresh(m, msg) THEN Sent(msg) = LastPublished(m)
                   ELSE Sent(msg) <= joined[m] /\ LastPublished(m) = joined[m]

\* A message stays the latest as long as its sender publishes nothing.
LEMMA SameLatest ==
  ASSUME NEW m, NEW msg, Latest(m, msg), joined'[m] = joined[m],
         LastPublished(m)' = LastPublished(m)
  PROVE  Latest(m, msg)'
  BY DEF Latest, Fresh, Sent

LEMMA LatestIs ==
  ASSUME LatestOnly, NEW n \in running, NEW msg \in Underway(n), msg.from \in running
  PROVE  Latest(msg.from, msg)
  BY DEF LatestOnly, Latest

\* A turn reads messages and adds none but the turning node's HEARTBEAT.
LEMMA BeatLatest ==
  ASSUME TypeInv, TypeInv', Punctual, LatestOnly, MaxDelay < HeartbeatInterval,
         NEW b \in running, LoopBeat(b)
  PROVE  LatestOnly'
<1>0. b \in Nodes /\ life[b] \in Nat /\ now \in Nat /\ joined[b] \in Nat /\ joined[b] <= now
      /\ running \subseteq Nodes /\ HeartbeatInterval \in Nat /\ MaxDelay \in Nat
  BY TypesIn
<1>1. PICK c, streams : Spread(b, "HEARTBEAT", life[b], c, streams) /\ Turn(b, streams)
  BY <1>0, BeatIs
<1>2. /\ LastPublished(b)' = now
      /\ \/ LastPublished(b) = now - HeartbeatInterval
         \/ LastPublished(b) = now /\ joined[b] = now
      /\ \A m \in Nodes : m # b => LastPublished(m)' = LastPublished(m)
      /\ joined' = joined /\ now' = now /\ running' = running
  BY BeatTimes
<1>3. PICK e : e = Envelope(b, "HEARTBEAT", life[b])
  OBVIOUS
<1>4. e.from = b /\ e.type = "HEARTBEAT" /\ Sent(e) = now
  BY <1>0, <1>3, EnvelopeIs
<1>5. ASSUME NEW n \in running, NEW msg \in Underway(n)', msg.from \in running
      PROVE  Latest(msg.from, msg)'
  <2>1. msg \in Underway(n) \/ msg = e
    <3>1. msg \in Carried(streams, n)
      BY <1>0, <1>1, TurnIs, TypesIn DEF Spread, Underway
    <3>. QED  BY <1>0, <1>1, <1>3, <3>1 DEF Spread
  <2>2. CASE msg = e
    <3>1. Sent(msg)' = now /\ Fresh(b, msg)'
      BY <1>0, <1>2, <1>4, <2>2 DEF Fresh, Sent
    <3>. QED  BY <1>2, <1>4, <2>2, <3>1 DEF Latest
  <2>3. CASE msg \in Underway(n) /\ msg.from # b
    <3>1. Latest(msg.from, msg)
      BY <2>3, <1>5, LatestIs
    <3>. QED  BY <1>0, <1>2, <1>5, <2>3, <3>1, SameLatest
  <2>4. CASE msg \in Underway(n) /\ msg.from = b
    <3>1. Latest(b, msg)
      BY <2>4, LatestIs
    <3>2. Sent(msg) \in 0 .. now /\ now <= Sent(msg) + MaxDelay
      BY <1>0, <2>4 DEF TypeInv, InTime
    <3>3. CASE LastPublished(b) = now - HeartbeatInterval
      <4>1. Sent(msg) <= now - HeartbeatInterval
        BY <1>0, <3>1, <3>2, <3>3 DEF Latest
      <4>. QED  BY <1>0, <3>2, <4>1
    <3>4. CASE LastPublished(b) = now /\ joined[b] = now
      BY <1>2, <2>4, <3>1, <3>4, SameLatest
    <3>. QED  BY <1>2, <3>3, <3>4
  <2>. QED  BY <2>1, <2>2, <2>3, <2>4
<1>. QED  BY <1>2, <1>5 DEF LatestOnly, Latest

LEMMA QuietLatest ==
  ASSUME TypeInv, LatestOnly, NEW b \in running, LoopQuiet(b) PROVE LatestOnly'
<1>1. Turn(b, pipe) /\ b \in Nodes /\ running \subseteq Nodes
      /\ UNCHANGED <<running, joined, last_heartbeat>>
  BY TypesIn DEF LoopQuiet, Turn
<1>2. \A n \in running : Underway(n)' \subseteq Underway(n)
  BY <1>1, TurnIs, TypesIn DEF Underway
<1>3. \A m : LastPublished(m)' = LastPublished(m)
  BY <1>1 DEF LastPublished, BeatAt, Later
<1>4. ASSUME NEW n \in running, NEW msg \in Underway(n)', msg.from \in running
      PROVE  Latest(msg.from, msg)'
  BY <1>1, <1>2, <1>3, <1>4, LatestIs, SameLatest
<1>. QED  BY <1>1, <1>4 DEF LatestOnly, Latest

\* A join makes what is left of the node's earlier lives old, and adds a HELLO.
LEMMA JoinLatest ==
  ASSUME TypeInv, LatestOnly, NEW j \in Nodes, Join(j) PROVE LatestOnly'
<1>0. /\ life[j] + 1 \in Nat /\ now \in Nat /\ running \subseteq Nodes /\ HeartbeatInterval \in Nat
      /\ Skew[j] \in Int
  BY TypesIn
<1>1. /\ now' = now /\ running' = running \cup {j} /\ j \notin running
      /\ joined' = [joined EXCEPT ![j] = now] /\ joined \in [Nodes -> Nat]
      /\ last_heartbeat' = [last_heartbeat EXCEPT ![j] = Clock(j) - HeartbeatInterval]
      /\ last_heartbeat \in [Nodes -> Int]
  BY TypesIn DEF Join
<1>2. LastPublished(j)' = now /\ joined'[j] = now
  BY <1>0, <1>1 DEF LastPublished, BeatAt, Later, Clock
<1>3. \A m \in running : LastPublished(m)' = LastPublished(m) /\ joined'[m] = joined[m]
  BY <1>0, <1>1 DEF LastPublished, BeatAt, Later
<1>4. PICK e : e = Envelope(j, "HELLO", life[j] + 1)
  OBVIOUS
<1>5. e.from = j /\ e.type = "HELLO" /\ Sent(e) = now
  BY <1>0, <1>4, EnvelopeIs
<1>6. /\ Underway(j)' = {}
      /\ \A n \in Nodes : \A msg \in Underway(n)' : msg \in Underway(n) \/ msg = e
  BY <1>4, JoinIs
<1>7. ASSUME NEW n \in running', NEW msg \in Underway(n)', msg.from \in running'
      PROVE  Latest(msg.from, msg)'
  <2>1. n \in running
    BY <1>1, <1>6, <1>7
  <2>2. CASE msg = e
    BY <1>0, <1>2, <1>5, <2>2 DEF Latest, Fresh, Sent
  <2>3. CASE msg \in Underway(n) /\ msg.from = j
    <3>1. Sent(msg) \in 0 .. now
      BY <1>0, <2>1, <2>3 DEF TypeInv, InTime
    <3>. QED  BY <1>0, <1>2, <2>3, <3>1 DEF Latest, Fresh, Sent
  <2>4. CASE msg \in Underway(n) /\ msg.from # j
    BY <1>1, <1>3, <1>7, <2>1, <2>4, LatestIs, SameLatest
  <2>. QED  BY <1>0, <1>6, <2>1, <2>2, <2>3, <2>4
<1>. QED  BY <1>7 DEF LatestOnly, Latest

LEMMA LeaveLatest ==
  ASSUME TypeInv, LatestOnly, NEW l \in running, Leave(l) \/ Kill(l) PROVE LatestOnly'
<1>0. l \in Nodes /\ life[l] \in Nat /\ now \in Nat /\ running \subseteq Nodes
  BY TypesIn
<1>1. running' = running \ {l} /\ UNCHANGED <<joined, last_heartbeat>>
  BY DEF Leave, Kill
<1>2. \A m : LastPublished(m)' = LastPublished(m)
  BY <1>1 DEF LastPublished, BeatAt, Later
<1>3. ASSUME NEW n \in running, NEW msg \in Underway(n)', msg.from # l PROVE msg \in Underway(n)
  <2>1. CASE Leave(l)
    <3>1. PICK c : Spread(l, "BYE", life[l], c, pipe')
      BY <1>0, <2>1, LeaveIs
    <3>2. Envelope(l, "BYE", life[l]).from = l
      BY <1>0, EnvelopeIs
    <3>. QED  BY <1>0, <1>3, <3>1, <3>2 DEF Spread, Underway
  <2>2. CASE Kill(l)
    BY <2>2 DEF Kill, Underway
  <2>. QED  BY <2>1, <2>2
<1>4. ASSUME NEW n \in running', NEW msg \in Underway(n)', msg.from \in running'
      PROVE  Latest(msg.from, msg)'
  BY <1>1, <1>2, <1>3, <1>4, LatestIs, SameLatest
<1>. QED  BY <1>4 DEF LatestOnly, Latest

LEMMA TickLatest == ASSUME LatestOnly, Tick PROVE LatestOnly'
<1>1. UNCHANGED <<running, joined, last_heartbeat, pipe>>
  BY DEF Tick
<1>. QED  BY <1>1 DEF LatestOnly, Fresh, Sent, LastPublished, BeatAt, Later, Underway

-----------------------------------------------------------------------------
(* How far a peer table lags behind. *)

LEMMA LagIs ==
  ASSUME TypeInv, NEW n \in Nodes, NEW m \in Nodes, n # m
  PROVE  /\ HeardAt(n, m) \in Int /\ HeardAt(n, m) <= now
         /\ HeardAt(n, m) >= joined[m] /\ Lag(n, m) \in Int
         /\ <<m, n>> \in Links /\ missed[<<m, n>>] \in 0 .. MaxLost
         /\ missed[<<m, n>>] * HeartbeatInterval \in Nat
<1>1. /\ now \in Nat /\ joined[m] \in Nat /\ joined[n] \in Nat /\ Skew[m] \in Int
      /\ joined[n] <= now /\ joined[m] <= now /\ HeartbeatInterval \in Nat /\ MaxLost \in Nat
  BY TypesIn
<1>2. m \in DOMAIN last_seen[n] => last_seen[n][m] \in Skew[m] .. now + Skew[m]
  BY DEF TypeInv, TypeOK, Clock
<1>3. HeardAt(n, m) \in Int /\ HeardAt(n, m) <= now /\ HeardAt(n, m) >= joined[m]
  BY <1>1, <1>2 DEF HeardAt, Heard, Later
<1>4. LastPublished(m) \in Int
  BY BeatAtIs
<1>5. <<m, n>> \in Links /\ missed[<<m, n>>] \in 0 .. MaxLost
  BY TypesIn DEF Links
<1>6. missed[<<m, n>>] * HeartbeatInterval \in Nat
  BY <1>1, <1>5, Times
<1>. QED  BY <1>3, <1>4, <1>5, <1>6 DEF Lag

\* What n has heard of m is as late as m's last publication.
LEMMA UpToDate ==
  ASSUME TypeInv', NEW n \in Nodes, NEW m \in Nodes, n # m,
         HeardAt(n, m)' >= LastPublished(m)'
  PROVE  Touch(n, m)'
<1>1. /\ joined'[m] \in Nat /\ joined'[n] \in Nat /\ Skew[m] \in Int /\ now' \in Int
      /\ last_heartbeat'[m] \in Int /\ HeartbeatInterval \in Nat
  BY MembershipConstants DEF TypeInv, TypeOK, Shape
<1>2. m \in DOMAIN last_seen'[n] => last_seen'[n][m] \in Int
  BY <1>1 DEF TypeInv, TypeOK, Clock
<1>3. HeardAt(n, m)' \in Int /\ LastPublished(m)' \in Int
  BY <1>1, <1>2 DEF HeardAt, Heard, LastPublished, BeatAt, Later
<1>4. Lag(n, m)' <= 0
  BY <1>3 DEF Lag
<1>5. missed'[<<m, n>>] * HeartbeatInterval \in Nat
  <2>1. missed'[<<m, n>>] \in Nat
    BY MembershipConstants DEF TypeInv, TypeOK, Links
  <2>2. PICK k \in Nat : k = missed'[<<m, n>>]
    BY <2>1
  <2>3. k * HeartbeatInterval \in Nat
    BY <1>1
  <2>. QED  BY <2>2, <2>3
<1>6. Lag(n, m)' \in Int
  BY <1>3 DEF Lag
<1>. QED  BY <1>4, <1>5, <1>6 DEF Touch

\* Nothing that concerns n and m has changed but that more may be under way.
LEMMA SameTouch ==
  ASSUME NEW n, NEW m, Touch(n, m), Kept(n, m, pipe), joined'[n] = joined[n],
         joined'[m] = joined[m], LastPublished(m)' = LastPublished(m),
         missed'[<<m, n>>] = missed[<<m, n>>]
  PROVE  Touch(n, m)'
<1>1. HeardAt(n, m)' = HeardAt(n, m)
  BY DEF HeardAt, Heard, Later, Kept
<1>2. Lag(n, m)' = Lag(n, m)
  BY <1>1 DEF Lag
<1>3. Awaited(n, m) => Awaited(n, m)'
  BY DEF Awaited, Kept, Underway, Sent
<1>. QED  BY <1>2, <1>3 DEF Touch

\* A message of m's that n reads is its last publication, or is so old that m
\* has sent nothing since it joined.
LEMMA ReadTouch ==
  ASSUME TypeInv, TypeInv', LatestOnly, NEW n \in running, NEW m \in running, n # m,
         NEW msg \in Underway(n), Read(n, m, msg), joined' = joined,
         LastPublished(m)' = LastPublished(m)
  PROVE  HeardAt(n, m)' >= LastPublished(m)'
<1>1. /\ n \in Nodes /\ m \in Nodes /\ joined[m] \in Nat /\ joined[n] \in Nat /\ Skew[m] \in Int
      /\ msg \in Envelopes
  BY TypesIn, CarriedType DEF Underway
<1>2. msg.from = m /\ msg.ts \in Int /\ LastPublished(m) \in Int
  BY <1>1, BeatAtIs DEF Read, Envelopes
<1>3. Sent(msg) = msg.ts - Skew[m]
  BY <1>2 DEF Sent
<1>4. Latest(m, msg)
  BY <1>2, LatestIs
<1>5. CASE Fresh(m, msg)
  <2>1. Sent(msg) = LastPublished(m) /\ Sent(msg) >= joined[m] /\ msg.type # "BYE"
    BY <1>4, <1>5 DEF Latest, Fresh
  <2>2. m \in DOMAIN last_seen'[n] /\ last_seen'[n][m] = msg.ts
    BY <2>1 DEF Read
  <2>3. HeardAt(n, m)' = Sent(msg)
    BY <1>1, <1>2, <1>3, <2>1, <2>2 DEF HeardAt, Heard
  <2>. QED  BY <1>2, <2>1, <2>3
<1>6. CASE ~Fresh(m, msg)
  <2>1. LastPublished(m) = joined[m] /\ Sent(msg) <= joined[m]
    BY <1>4, <1>6 DEF Latest
  <2>2. HeardAt(n, m)' >= joined[m]
    <3>1. CASE Heard(n, m)'
      <4>1. last_seen'[n][m] >= joined[m] + Skew[m] /\ last_seen'[n][m] = msg.ts
        BY <3>1 DEF Heard, Read
      <4>. QED  BY <1>1, <1>2, <3>1, <4>1 DEF HeardAt
    <3>2. CASE ~Heard(n, m)'
      BY <1>1, <3>2 DEF HeardAt, Later
    <3>. QED  BY <3>1, <3>2
  <2>. QED  BY <2>1, <2>2
<1>. QED  BY <1>5, <1>6

\* The other nodes' tables are not touched by a turn, nor is what it reads taken
\* from them.
LEMMA TurnTouch ==
  ASSUME TypeInv, TypeInv', LatestOnly, NEW b \in Nodes, NEW streams \in Streams,
         Turn(b, streams), NEW n \in running, NEW m \in running, n # m, Touch(n, m),
         Underway(n) \subseteq Carried(streams, n),
         n = b => Carried(streams, n) \subseteq Underway(n),
         LastPublished(m)' = LastPublished(m), missed'[<<m, n>>] = missed[<<m, n>>]
  PROVE  Touch(n, m)'
<1>1. n \in Nodes /\ m \in Nodes /\ joined' = joined
  BY TypesIn DEF Turn
<1>2. Kept(n, m, streams) \/ (n = b /\ \E msg \in Carried(streams, n) : Read(n, m, msg))
  BY <1>1, TurnIs, TypesIn
<1>3. CASE Kept(n, m, streams)
  <2>1. Kept(n, m, pipe)
    BY <1>3 DEF Kept, Underway
  <2>. QED  BY <1>1, <2>1, SameTouch
<1>4. CASE n = b /\ \E msg \in Carried(streams, n) : Read(n, m, msg)
  <2>1. PICK msg \in Underway(n) : Read(n, m, msg)
    BY <1>4
  <2>2. HeardAt(n, m)' >= LastPublished(m)'
    BY <1>1, <2>1, ReadTouch
  <2>. QED  BY <1>1, <2>2, UpToDate
<1>. QED  BY <1>2, <1>3, <1>4

\* A HEARTBEAT puts those it does not reach one interval further behind, and is
\* awaited by those it reaches.
LEMMA BeatTouch ==
  ASSUME TypeInv, TypeInv', Punctual, LatestOnly, InTouch, MaxDelay < HeartbeatInterval,
         NEW b \in running, LoopBeat(b)
  PROVE  InTouch'
<1>0. b \in Nodes /\ life[b] \in Nat /\ now \in Nat /\ joined[b] \in Nat /\ running \subseteq Nodes
      /\ HeartbeatInterval \in Nat /\ MaxDelay \in Nat /\ MaxLost \in Nat /\ DOMAIN last_seen = Nodes
  BY TypesIn
<1>1. PICK c, streams : /\ Spread(b, "HEARTBEAT", life[b], c, streams)
                        /\ Turn(b, streams) /\ Tallied(b, c)
  BY <1>0, BeatIs
<1>2. /\ LastPublished(b)' = now
      /\ \/ LastPublished(b) = now - HeartbeatInterval
         \/ LastPublished(b) = now /\ joined[b] = now
      /\ \A m \in Nodes : m # b => LastPublished(m)' = LastPublished(m)
      /\ joined' = joined /\ now' = now /\ running' = running
  BY BeatTimes
<1>3. PICK e : e = Envelope(b, "HEARTBEAT", life[b])
  OBVIOUS
<1>4. e.from = b /\ e.type = "HEARTBEAT" /\ Sent(e) = now
  BY <1>0, <1>3, EnvelopeIs
<1>5. /\ streams \in Streams
      /\ \A m \in Nodes : \A msg : msg \in Carried(streams, m) <=>
           msg \in Underway(m) \/ (m \in running \ {b} /\ c[m] # {} /\ msg = e)
  BY <1>1, <1>3 DEF Spread
<1>6. ASSUME NEW n \in running, NEW m \in running, n # m, m # b PROVE Touch(n, m)'
  <2>1. n \in Nodes /\ m \in Nodes /\ <<m, n>> \in Links
    BY <1>0, <1>6 DEF Links
  <2>2. missed'[<<m, n>>] = missed[<<m, n>>]
    BY <1>1, <1>6, <2>1 DEF Tallied
  <2>3. Underway(n) \subseteq Carried(streams, n)
        /\ (n = b => Carried(streams, n) \subseteq Underway(n))
    BY <1>5, <2>1
  <2>4. Touch(n, m)
    BY <1>6 DEF InTouch
  <2>. QED  BY <1>0, <1>1, <1>2, <1>5, <1>6, <2>1, <2>2, <2>3, <2>4, TurnTouch
<1>7. ASSUME NEW n \in running, n # b PROVE Touch(n, b)'
  <2>1. n \in Nodes /\ <<b, n>> \in Links /\ Touch(n, b)
    BY <1>0, <1>7 DEF Links, InTouch
  <2>2. last_seen'[n] = last_seen[n] /\ Kept(n, b, streams)
    BY <1>0, <1>1, <1>5, <1>7, <2>1, TurnIs
  <2>3. HeardAt(n, b)' = HeardAt(n, b)
    BY <1>2, <2>2 DEF HeardAt, Heard, Later
  <2>4. /\ HeardAt(n, b) \in Int /\ Lag(n, b) \in Int /\ missed[<<b, n>>] \in 0 .. MaxLost
        /\ LastPublished(b) \in Int
    BY <1>0, <1>7, <2>1, LagIs, BeatAtIs
  <2>5. Lag(n, b) = LastPublished(b) - HeardAt(n, b) /\ Lag(n, b)' = now - HeardAt(n, b)
    BY <1>2, <2>3 DEF Lag
  <2>6. PICK k \in Nat : k = missed[<<b, n>>] /\ k <= MaxLost
    BY <1>0, <2>4
  <2>7. (k + 1) * HeartbeatInterval = k * HeartbeatInterval + HeartbeatInterval
        /\ k * HeartbeatInterval \in Nat
    BY <1>0, <2>6, Times
  <2>8. (k + 1) * HeartbeatInterval <= (MaxLost + 1) * HeartbeatInterval
        /\ (MaxLost + 1) * HeartbeatInterval \in Nat
    <3>1. k + 1 \in Nat /\ MaxLost + 1 \in Nat /\ k + 1 <= MaxLost + 1
      BY <1>0, <2>6
    <3>. QED  BY <1>0, <3>1, Times
  <2>9. c[n] # {} => Awaited(n, b)'
    <3>1. ASSUME c[n] # {} PROVE e \in Underway(n)'
      BY <1>4, <1>5, <1>7, <2>1, <2>2, <3>1 DEF Kept, Underway
    <3>2. e.type # "BYE" /\ Sent(e)' = now
      BY <1>4 DEF Sent
    <3>. QED  BY <1>2, <1>4, <3>1, <3>2 DEF Awaited
  <2>10. c[n] = {} => missed'[<<b, n>>] = k + 1
    BY <1>1, <1>7, <2>6 DEF Tallied
  <2>11. CASE LastPublished(b) = now - HeartbeatInterval
    <3>1. ~Awaited(n, b)
      <4>1. ASSUME NEW msg \in Underway(n) PROVE Sent(msg) # LastPublished(b)
        <5>1. Sent(msg) \in 0 .. now /\ now <= Sent(msg) + MaxDelay
          BY <2>1 DEF TypeInv, InTime
        <5>. QED  BY <1>0, <2>11, <5>1
      <4>. QED  BY <4>1 DEF Awaited
    <3>2. Lag(n, b) <= k * HeartbeatInterval
      BY <2>1, <2>6, <3>1 DEF Touch
    <3>3. Lag(n, b)' <= (k + 1) * HeartbeatInterval
      BY <1>0, <2>4, <2>5, <2>7, <2>11, <3>2
    <3>4. Lag(n, b)' <= (MaxLost + 1) * HeartbeatInterval
      BY <1>0, <2>4, <2>5, <2>7, <2>8, <3>3
    <3>. QED  BY <2>9, <2>10, <3>3, <3>4 DEF Touch
  <2>12. CASE LastPublished(b) = now /\ joined[b] = now
    <3>1. HeardAt(n, b)' >= LastPublished(b)'
      BY <1>0, <1>2, <1>7, <2>1, <2>3, <2>12, LagIs
    <3>. QED  BY <1>0, <1>7, <2>1, <3>1, UpToDate
  <2>. QED  BY <1>2, <2>11, <2>12
<1>. QED  BY <1>2, <1>6, <1>7 DEF InTouch

LEMMA QuietTouch ==
  ASSUME TypeInv, TypeInv', LatestOnly, InTouch, NEW b \in running, LoopQuiet(b) PROVE InTouch'
<1>1. /\ Turn(b, pipe) /\ b \in Nodes /\ running \subseteq Nodes /\ pipe \in Streams
      /\ UNCHANGED <<running, joined, last_heartbeat, missed>>
  BY TypesIn DEF LoopQuiet, Turn
<1>2. \A m : LastPublished(m)' = LastPublished(m)
  BY <1>1 DEF LastPublished, BeatAt, Later
<1>3. ASSUME NEW n \in running, NEW m \in running, n # m PROVE Touch(n, m)'
  <2>1. Touch(n, m) /\ Underway(n) = Carried(pipe, n)
    BY <1>3 DEF InTouch, Underway
  <2>. QED  BY <1>1, <1>2, <1>3, <2>1, TurnTouch
<1>. QED  BY <1>1, <1>3 DEF InTouch

LEMMA JoinTouch ==
  ASSUME TypeInv, TypeInv', Punctual, InTouch, NEW j \in Nodes, Join(j) PROVE InTouch'
<1>0. /\ now \in Nat /\ running \subseteq Nodes /\ HeartbeatInterval \in Nat /\ Skew[j] \in Int
      /\ DOMAIN last_seen = Nodes /\ joined \in [Nodes -> Nat] /\ last_heartbeat \in [Nodes -> Int]
      /\ \A m \in Nodes : joined[m] <= now /\ Skew[m] \in Int
  BY TypesIn
<1>1. /\ now' = now /\ running' = running \cup {j} /\ j \notin running
      /\ joined' = [joined EXCEPT ![j] = now]
      /\ last_heartbeat' = [last_heartbeat EXCEPT ![j] = Clock(j) - HeartbeatInterval]
      /\ last_seen' = [last_seen EXCEPT ![j] = NothingSeen]
  BY DEF Join
<1>2. LastPublished(j)' = now /\ joined'[j] = now
  BY <1>0, <1>1 DEF LastPublished, BeatAt, Later, Clock
<1>3. \A m \in running : LastPublished(m)' = LastPublished(m) /\ joined'[m] = joined[m]
  BY <1>0, <1>1 DEF LastPublished, BeatAt, Later
<1>4. ASSUME NEW m \in running PROVE Touch(j, m)'
  <2>1. m \in Nodes /\ joined[m] <= now /\ joined[m] \in Nat /\ m # j
    BY <1>0, <1>1
  <2>2. LastPublished(m) <= now
    <3>1. BeatAt(m) \in Int /\ BeatAt(m) <= now
      BY <1>0, <2>1, BeatAtIs DEF Punctual
    <3>. QED  BY <1>0, <2>1, <3>1, BeatAtIs
  <2>3. HeardAt(j, m)' = now
    <3>1. m \notin DOMAIN last_seen'[j]
      BY <1>0, <1>1 DEF NothingSeen
    <3>. QED  BY <1>0, <1>2, <1>3, <2>1, <3>1 DEF HeardAt, Heard, Later
  <2>. QED  BY <1>0, <1>3, <2>1, <2>2, <2>3, UpToDate
<1>5. ASSUME NEW n \in running PROVE Touch(n, j)'
  <2>1. n \in Nodes /\ n # j /\ joined'[n] = joined[n] /\ joined[n] \in Nat /\ joined[n] <= now
    BY <1>0, <1>1, <1>3
  <2>2. HeardAt(n, j)' >= now
    <3>1. CASE Heard(n, j)'
      <4>1. last_seen'[n][j] >= now + Skew[j] /\ last_seen'[n][j] \in Int
        BY <1>0, <1>1, <1>2, <2>1, <3>1 DEF Heard, TypeInv, TypeOK, Clock
      <4>. QED  BY <1>0, <3>1, <4>1 DEF HeardAt
    <3>2. CASE ~Heard(n, j)'
      BY <1>0, <1>2, <2>1, <3>2 DEF HeardAt, Later
    <3>. QED  BY <3>1, <3>2
  <2>. QED  BY <1>2, <2>1, <2>2, UpToDate
<1>6. ASSUME NEW n \in running, NEW m \in running, n # m PROVE Touch(n, m)'
  <2>1. n \in Nodes /\ m \in Nodes /\ n # j /\ m # j /\ <<m, n>> \in Links /\ Touch(n, m)
    BY <1>0, <1>1, <1>6 DEF Links, InTouch
  <2>2. last_seen'[n] = last_seen[n]
    BY <1>0, <1>1, <2>1
  <2>3. Underway(n) \subseteq Underway(n)' /\ missed'[<<m, n>>] = missed[<<m, n>>]
    BY <2>1, JoinIs
  <2>4. Kept(n, m, pipe)
    BY <2>2, <2>3 DEF Kept, Underway
  <2>. QED  BY <1>3, <2>1, <2>3, <2>4, SameTouch
<1>. QED  BY <1>1, <1>4, <1>5, <1>6 DEF InTouch

LEMMA LeaveTouch ==
  ASSUME TypeInv, InTouch, NEW l \in running, Leave(l) \/ Kill(l) PROVE InTouch'
<1>0. l \in Nodes /\ running \subseteq Nodes
  BY TypesIn
<1>1. running' = running \ {l} /\ UNCHANGED <<joined, last_heartbeat, last_seen>>
  BY DEF Leave, Kill, peerTable
<1>2. \A m : LastPublished(m)' = LastPublished(m)
  BY <1>1 DEF LastPublished, BeatAt, Later
<1>3. ASSUME NEW n \in running, NEW m \in running, n # m, m # l PROVE Touch(n, m)'
  <2>1. n \in Nodes /\ m \in Nodes /\ <<m, n>> \in Links /\ Touch(n, m)
    BY <1>0, <1>3 DEF Links, InTouch
  <2>2. Underway(n) \subseteq Underway(n)' /\ missed'[<<m, n>>] = missed[<<m, n>>]
    <3>1. CASE Leave(l)
      <4>1. PICK c : Spread(l, "BYE", life[l], c, pipe') /\ Tallied(l, c)
        BY <1>0, <3>1, LeaveIs
      <4>. QED  BY <1>3, <2>1, <4>1 DEF Spread, Tallied, Underway
    <3>2. CASE Kill(l)
      BY <3>2 DEF Kill, Underway
    <3>. QED  BY <3>1, <3>2
  <2>3. Kept(n, m, pipe)
    BY <1>1, <2>2 DEF Kept, Underway
  <2>. QED  BY <1>1, <1>2, <2>1, <2>2, <2>3, SameTouch
<1>. QED  BY <1>1, <1>3 DEF InTouch

LEMMA TickTouch == ASSUME InTouch, Tick PROVE InTouch'
<1>1. UNCHANGED <<running, joined, last_heartbeat, last_seen, pipe, missed>>
  BY DEF Tick, peerTable
<1>2. \A m : LastPublished(m)' = LastPublished(m)
  BY <1>1 DEF LastPublished, BeatAt, Later
<1>3. ASSUME NEW n \in running, NEW m \in running, n # m PROVE Touch(n, m)'
  <2>1. Touch(n, m) /\ Kept(n, m, pipe)
    BY <1>1, <1>3 DEF InTouch, Kept
  <2>. QED  BY <1>1, <1>2, <2>1, SameTouch
<1>. QED  BY <1>1, <1>3 DEF InTouch

-----------------------------------------------------------------------------
(* Nodes that do not run, and the leader announced. *)

\* Right after a change, everything there is was sent before or at it.
LEMMA ChangeQuiet == ASSUME TypeInv', changed' = now' PROVE GoneQuiet'
<1>1. ASSUME NEW n \in Nodes, NEW m \in Nodes
      PROVE  /\ \A msg \in Underway(n)' : Sent(msg)' <= changed'
             /\ m \in DOMAIN last_seen'[n] => last_seen'[n][m] <= changed' + Skew[m]
  <2>1. now' \in Int /\ Skew[m] \in Int
    BY MembershipConstants DEF TypeInv, TypeOK
  <2>2. \A msg \in Underway(n)' : Sent(msg)' \in 0 .. now'
    BY DEF TypeInv, InTime
  <2>3. m \in DOMAIN last_seen'[n] => last_seen'[n][m] \in Skew[m] .. now' + Skew[m]
    BY DEF TypeInv, TypeOK, Clock
  <2>. QED  BY <2>1, <2>2, <2>3
<1>. QED  BY <1>1 DEF GoneQuiet

LEMMA TurnQuiet ==
  ASSUME TypeInv, GoneQuiet, NEW b \in running, NEW streams \in Streams, Turn(b, streams),
         \A n \in Nodes : \A msg \in Carried(streams, n) : msg \in Underway(n) \/ msg.from = b
  PROVE  GoneQuiet'
<1>1. /\ b \in Nodes /\ DOMAIN last_seen = Nodes /\ UNCHANGED <<running, changed>>
      /\ changed \in Nat
  BY TypesIn DEF Turn
<1>2. ASSUME NEW n \in Nodes, NEW m \in Nodes \ running
      PROVE  /\ \A msg \in Underway(n)' : msg.from = m => Sent(msg) <= changed
             /\ m \in DOMAIN last_seen'[n] => last_seen'[n][m] <= changed + Skew[m]
  <2>1. ASSUME NEW msg \in Carried(streams, n), msg.from = m PROVE Sent(msg) <= changed
    <3>1. msg \in Underway(n)
      BY <2>1
    <3>. QED  BY <2>1, <3>1 DEF GoneQuiet
  <2>2. Underway(n)' \subseteq Carried(streams, n)
    BY <1>1, TurnIs DEF Underway
  <2>3. Kept(n, m, streams) \/ \E msg \in Carried(streams, n) : Read(n, m, msg)
    BY <1>1, TurnIs
  <2>4. CASE Kept(n, m, streams)
    BY <2>1, <2>2, <2>4 DEF Kept, GoneQuiet
  <2>5. CASE \E msg \in Carried(streams, n) : Read(n, m, msg)
    <3>1. PICK msg \in Carried(streams, n) : Read(n, m, msg)
      BY <2>5
    <3>2. msg \in Envelopes /\ Skew[m] \in Int
      BY CarriedType, TypesIn
    <3>3. msg.from = m /\ msg.ts \in Int
      BY <3>1, <3>2 DEF Read, Envelopes
    <3>4. Sent(msg) <= changed /\ Sent(msg) = msg.ts - Skew[m]
      BY <2>1, <3>3 DEF Sent
    <3>5. msg.ts <= changed + Skew[m]
      BY <1>1, <3>2, <3>3, <3>4
    <3>6. m \in DOMAIN last_seen'[n] => last_seen'[n][m] <= changed + Skew[m]
      BY <3>1, <3>5 DEF Read
    <3>. QED  BY <2>1, <2>2, <3>6
  <2>. QED  BY <2>3, <2>4, <2>5
<1>. QED  BY <1>1, <1>2 DEF GoneQuiet, Sent

LEMMA BeatQuiet ==
  ASSUME TypeInv, GoneQuiet, NEW b \in running, LoopBeat(b) PROVE GoneQuiet'
<1>0. b \in Nodes /\ life[b] \in Nat /\ now \in Nat
  BY TypesIn
<1>1. PICK c, streams : Spread(b, "HEARTBEAT", life[b], c, streams) /\ Turn(b, streams)
  BY <1>0, BeatIs
<1>2. Envelope(b, "HEARTBEAT", life[b]).from = b
  BY <1>0, EnvelopeIs
<1>3. streams \in Streams /\ \A n \in Nodes : \A msg \in Carried(streams, n) :
                               msg \in Underway(n) \/ msg.from = b
  BY <1>1, <1>2 DEF Spread
<1>. QED  BY <1>1, <1>3, TurnQuiet

LEMMA QuietQuiet ==
  ASSUME TypeInv, GoneQuiet, NEW b \in running, LoopQuiet(b) PROVE GoneQuiet'
<1>1. Turn(b, pipe) /\ pipe \in Streams
  BY TypesIn DEF LoopQuiet
<1>2. \A n \in Nodes : \A msg \in Carried(pipe, n) : msg \in Underway(n) \/ msg.from = b
  BY DEF Underway
<1>. QED  BY <1>1, <1>2, TurnQuiet

\* What a node takes for its leader depends on its table and the time alone.
LEMMA SameLeader ==
  ASSUME NEW n, last_seen'[n] = last_seen[n], now' = now
  PROVE  leader(n, last_seen[n])' = leader(n, last_seen[n])
  BY DEF leader, alive_peers, Clock

LEMMA TurnAnnounced ==
  ASSUME TypeInv, Announced, NEW b \in running, NEW streams \in Streams, Turn(b, streams)
  PROVE  Announced'
<1>1. /\ b \in Nodes /\ DOMAIN last_seen = Nodes /\ now' = now /\ running' = running
      /\ looped' = looped \cup {b} /\ prev_leader \in [Nodes -> Nodes \cup {NoNode}]
      /\ prev_leader' = [prev_leader EXCEPT ![b] = leader(b, last_seen'[b])]
      /\ running \subseteq Nodes
  BY TypesIn DEF Turn, leader_changed
<1>2. prev_leader'[b] = leader(b, last_seen[b])'
  <2>1. leader(b, last_seen[b])' = leader(b, last_seen'[b])
    BY <1>1 DEF leader, alive_peers, Clock
  <2>. QED  BY <1>1, <2>1
<1>3. ASSUME NEW n \in running \cap looped, n # b PROVE prev_leader'[n] = leader(n, last_seen[n])'
  <2>1. last_seen'[n] = last_seen[n] /\ prev_leader'[n] = prev_leader[n]
    BY <1>1, <1>3, TurnIs
  <2>. QED  BY <1>1, <2>1, SameLeader DEF Announced
<1>. QED  BY <1>1, <1>2, <1>3 DEF Announced

-----------------------------------------------------------------------------
(* The invariant. *)

LEMMA InitInv == ASSUME Init PROVE IInv
<1>1. TypeInv
  BY InitType
<1>2. running = {} /\ \A n \in Nodes : Underway(n) = {} /\ last_seen[n] = NothingSeen
  <2>1. ASSUME NEW n \in Nodes, NEW msg PROVE msg \notin Underway(n)
    BY CarriedIs DEF Underway, Init
  <2>. QED  BY <2>1 DEF Init
<1>. QED  BY <1>1, <1>2 DEF IInv, Punctual, LatestOnly, InTouch, GoneQuiet, Announced, NothingSeen

LEMMA BeatInv ==
  ASSUME IInv, MaxDelay < HeartbeatInterval, NEW n \in running, LoopBeat(n) PROVE IInv'
<1>1. TypeInv /\ TypeInv' /\ n \in Nodes
  BY BeatType, TypesIn DEF IInv
<1>2. Punctual' /\ LatestOnly' /\ InTouch' /\ GoneQuiet'
  BY <1>1, BeatPunctual, BeatLatest, BeatTouch, BeatQuiet DEF IInv
<1>3. Announced'
  <2>1. PICK c, streams : Spread(n, "HEARTBEAT", life[n], c, streams) /\ Turn(n, streams)
    BY <1>1, BeatIs
  <2>. QED  BY <1>1, <2>1, TurnAnnounced DEF Spread, IInv
<1>. QED  BY <1>1, <1>2, <1>3 DEF IInv

LEMMA QuietInv == ASSUME IInv, NEW n \in running, LoopQuiet(n) PROVE IInv'
<1>1. TypeInv /\ TypeInv'
  BY QuietType DEF IInv
<1>2. Punctual' /\ LatestOnly' /\ InTouch' /\ GoneQuiet'
  BY <1>1, QuietPunctual, QuietLatest, QuietTouch, QuietQuiet DEF IInv
<1>3. Announced'
  BY <1>1, TypesIn, TurnAnnounced DEF LoopQuiet, IInv
<1>. QED  BY <1>1, <1>2, <1>3 DEF IInv

LEMMA JoinInv == ASSUME IInv, NEW n \in Nodes, Join(n) PROVE IInv'
<1>1. TypeInv /\ TypeInv'
  BY JoinType DEF IInv
<1>2. Punctual' /\ LatestOnly' /\ InTouch'
  BY <1>1, JoinPunctual, JoinLatest, JoinTouch DEF IInv
<1>3. GoneQuiet'
  BY <1>1, ChangeQuiet DEF Join
<1>4. Announced'
  <2>1. /\ running' = running \cup {n} /\ looped' = looped \ {n} /\ now' = now
        /\ DOMAIN last_seen = Nodes /\ running \subseteq Nodes
        /\ prev_leader \in [Nodes -> Nodes \cup {NoNode}]
        /\ last_seen' = [last_seen EXCEPT ![n] = NothingSeen]
        /\ prev_leader' = [prev_leader EXCEPT ![n] = NoNode]
    BY <1>1, TypesIn DEF Join
  <2>2. ASSUME NEW m \in running \cap looped, m # n
        PROVE  prev_leader'[m] = leader(m, last_seen[m])'
    <3>1. last_seen'[m] = last_seen[m] /\ prev_leader'[m] = prev_leader[m]
      BY <2>1, <2>2
    <3>. QED  BY <2>1, <3>1, SameLeader DEF Announced, IInv
  <2>. QED  BY <2>1, <2>2 DEF Announced
<1>. QED  BY <1>1, <1>2, <1>3, <1>4 DEF IInv

LEMMA LeaveInv == ASSUME IInv, NEW n \in running, Leave(n) \/ Kill(n) PROVE IInv'
<1>1. TypeInv /\ TypeInv'
  BY LeaveType, KillType DEF IInv
<1>2. LatestOnly' /\ InTouch'
  BY <1>1, LeaveLatest, LeaveTouch DEF IInv
<1>3. /\ UNCHANGED <<now, last_heartbeat, last_seen, prev_leader, looped, joined>>
      /\ running' = running \ {n} /\ changed' = now
  BY DEF Leave, Kill, peerTable
<1>4. Punctual'
  BY <1>3 DEF IInv, Punctual, BeatAt
<1>5. GoneQuiet'
  BY <1>1, <1>3, ChangeQuiet
<1>6. Announced'
  BY <1>3, SameLeader DEF IInv, Announced
<1>. QED  BY <1>1, <1>2, <1>4, <1>5, <1>6 DEF IInv

LEMMA TickInv == ASSUME IInv, Tick PROVE IInv'
<1>1. TypeInv /\ TypeInv'
  BY TickType DEF IInv
<1>2. Punctual' /\ LatestOnly' /\ InTouch'
  BY <1>1, TickPunctual, TickLatest, TickTouch DEF IInv
<1>3. UNCHANGED <<running, last_seen, pipe, changed>> /\ looped' = {}
  BY DEF Tick, peerTable
<1>4. GoneQuiet' /\ Announced'
  BY <1>3 DEF IInv, GoneQuiet, Announced, Underway, Sent
<1>. QED  BY <1>1, <1>2, <1>4 DEF IInv

LEMMA StutterInv == ASSUME IInv, UNCHANGED vars PROVE IInv'
<1>. USE DEF vars, peerTable
<1>1. TypeInv /\ TypeInv'
  BY StutterType DEF IInv
<1>2. Punctual' /\ GoneQuiet'
  BY DEF IInv, Punctual, BeatAt, GoneQuiet, Underway, Sent
<1>3. \A m : LastPublished(m)' = LastPublished(m)
  BY DEF LastPublished, BeatAt, Later
<1>4. LatestOnly'
  BY <1>3 DEF IInv, LatestOnly, Fresh, Sent, Underway
<1>5. InTouch'
  <2>1. ASSUME NEW n \in running, NEW m \in running, n # m PROVE Touch(n, m)'
    <3>1. Touch(n, m) /\ Kept(n, m, pipe)
      BY <2>1 DEF IInv, InTouch, Kept
    <3>. QED  BY <1>3, <3>1, SameTouch
  <2>. QED  BY <2>1 DEF InTouch
<1>6. Announced'
  BY SameLeader DEF IInv, Announced
<1>. QED  BY <1>1, <1>2, <1>4, <1>5, <1>6 DEF IInv

LEMMA NextInv == ASSUME MaxDelay < HeartbeatInterval, IInv, [Next]_vars PROVE IInv'
<1>1. CASE Tick
  BY <1>1, TickInv
<1>2. ASSUME NEW n \in Nodes, Join(n) PROVE IInv'
  BY <1>2, JoinInv
<1>3. ASSUME NEW n \in Nodes, LoopBeat(n) PROVE IInv'
  BY <1>3, BeatInv DEF LoopBeat
<1>4. ASSUME NEW n \in Nodes, LoopQuiet(n) PROVE IInv'
  BY <1>4, QuietInv DEF LoopQuiet
<1>5. ASSUME NEW n \in Nodes, Leave(n) \/ Kill(n) PROVE IInv'
  BY <1>5, LeaveInv DEF Leave, Kill
<1>6. CASE UNCHANGED vars
  BY <1>6, StutterInv
<1>. QED  BY <1>1, <1>2, <1>3, <1>4, <1>5, <1>6 DEF Next

LEMMA AlwaysInTouch == ASSUME MaxDelay < HeartbeatInterval PROVE Spec => []IInv
<1>1. Init => IInv
  BY InitInv
<1>2. IInv /\ [Next]_vars => IInv'
  BY NextInv
<1>. QED  BY <1>1, <1>2, PTL DEF Spec

-----------------------------------------------------------------------------
(* What the invariant says of the peer tables, given room in the timeout. *)

LEMMA ClockSpreadIs ==
  ASSUME NEW n \in Nodes, NEW m \in Nodes
  PROVE  ClockSpread \in Int /\ ClockSpread >= 0 /\ Skew[n] - Skew[m] <= ClockSpread
<1>. DEFINE D == {Skew[p] - Skew[q] : p, q \in Nodes}
            f == [x \in Nodes \X Nodes |-> Skew[x[1]] - Skew[x[2]]]
<1>1. \A p \in Nodes : Skew[p] \in Int
  BY MembershipConstants
<1>2. D \subseteq Int /\ Skew[n] - Skew[m] \in D /\ 0 \in D
  <2>1. Skew[n] - Skew[n] = 0
    BY <1>1
  <2>. QED  BY <1>1, <2>1
<1>3. IsFiniteSet(Nodes \X Nodes)
  BY MembershipConstants, FS_Product
<1>4. f \in Surjection(Nodes \X Nodes, D)
  <2>1. f \in [Nodes \X Nodes -> D]
    OBVIOUS
  <2>2. ASSUME NEW d \in D PROVE \E x \in Nodes \X Nodes : f[x] = d
    <3>1. PICK p \in Nodes, q \in Nodes : d = Skew[p] - Skew[q]
      OBVIOUS
    <3>2. <<p, q>> \in Nodes \X Nodes /\ f[<<p, q>>] = d
      BY <3>1
    <3>. QED  BY <3>2
  <2>. QED  BY <2>1, <2>2 DEF Surjection
<1>. HIDE DEF D, f
<1>5. IsFiniteSet(D)
  BY <1>3, <1>4, FS_Surjection
<1>6. Max(D) \in D /\ \A y \in D : y <= Max(D)
  BY <1>2, <1>5, MaxFinite
<1>7. ClockSpread = Max(D)
  BY DEF ClockSpread, D
<1>. QED  BY <1>2, <1>6, <1>7

\* What n has heard of m is never older than the timeout allows for.
LEMMA HeardLately ==
  ASSUME IInv, NEW n \in running, NEW m \in running, n # m
  PROVE  now - HeardAt(n, m) <= (MaxLost + 1) * HeartbeatInterval + MaxDelay
<1>1. /\ TypeInv /\ n \in Nodes /\ m \in Nodes /\ now \in Nat /\ HeartbeatInterval \in Nat
      /\ MaxLost \in Nat /\ MaxDelay \in Nat /\ joined[m] \in Nat /\ Touch(n, m)
  BY TypesIn DEF IInv, InTouch
<1>2. /\ HeardAt(n, m) \in Int /\ LastPublished(m) \in Int /\ BeatAt(m) \in Int
      /\ Lag(n, m) = LastPublished(m) - HeardAt(n, m) /\ LastPublished(m) >= BeatAt(m)
      /\ missed[<<m, n>>] \in 0 .. MaxLost
  BY <1>1, LagIs, BeatAtIs DEF Lag
<1>3. PICK k \in Nat : k = missed[<<m, n>>] /\ k <= MaxLost
  BY <1>1, <1>2
<1>4. /\ k * HeartbeatInterval \in Nat
      /\ (MaxLost + 1) * HeartbeatInterval = MaxLost * HeartbeatInterval + HeartbeatInterval
      /\ k * HeartbeatInterval <= MaxLost * HeartbeatInterval
      /\ MaxLost * HeartbeatInterval \in Nat
  BY <1>1, <1>3, Times
<1>5. CASE Lag(n, m) <= k * HeartbeatInterval
  <2>1. now - BeatAt(m) <= HeartbeatInterval
    BY <1>1 DEF IInv, Punctual
  <2>. QED  BY <1>1, <1>2, <1>4, <1>5, <2>1
<1>6. CASE Awaited(n, m) /\ Lag(n, m) <= (MaxLost + 1) * HeartbeatInterval
  <2>1. PICK msg \in Underway(n) : Sent(msg) = LastPublished(m)
    BY <1>6 DEF Awaited
  <2>2. now <= Sent(msg) + MaxDelay
    BY <1>1 DEF TypeInv, InTime
  <2>. QED  BY <1>1, <1>2, <1>4, <1>6, <2>1, <2>2
<1>. QED  BY <1>1, <1>3, <1>5, <1>6 DEF Touch

LEMMA HeardIsAlive ==
  ASSUME IInv, TimingFits, NEW n \in running, NEW m \in running, n # m, Heard(n, m)
  PROVE  m \in alive_peers(n, last_seen[n])
<1>1. /\ TypeInv /\ n \in Nodes /\ m \in Nodes /\ now \in Nat /\ HeartbeatInterval \in Nat
      /\ MaxLost \in Nat /\ MaxDelay \in Nat /\ Skew[n] \in Int /\ Skew[m] \in Int
      /\ PeerTimeout \in Nat
  BY TypesIn DEF IInv
<1>2. m \in DOMAIN last_seen[n] /\ last_seen[n][m] \in Int
      /\ HeardAt(n, m) = last_seen[n][m] - Skew[m]
  BY <1>1 DEF Heard, HeardAt, TypeInv, TypeOK, Clock
<1>3. PICK room : room = (MaxLost + 1) * HeartbeatInterval
  OBVIOUS
<1>4. room \in Nat
  <2>1. MaxLost + 1 \in Nat
    BY <1>1
  <2>. QED  BY <1>1, <1>3, <2>1, Times
<1>5. now - HeardAt(n, m) <= room + MaxDelay
  BY <1>3, HeardLately
<1>6. room + MaxDelay + ClockSpread <= PeerTimeout /\ ClockSpread \in Int
      /\ Skew[n] - Skew[m] <= ClockSpread
  <2>1. room + MaxDelay + ClockSpread <= PeerTimeout
    BY <1>3 DEF TimingFits
  <2>. QED  BY <1>1, <2>1, ClockSpreadIs
<1>7. now + Skew[n] - last_seen[n][m] <= PeerTimeout
  BY <1>1, <1>2, <1>4, <1>5, <1>6
<1>. QED  BY <1>1, <1>2, <1>7 DEF alive_peers, Clock

\* Failure detection (the loop of node.py, alive_peers of peers.py): as long as a
\* HEARTBEAT takes less than the interval and PEER_TIMEOUT covers the intervals
\* lost in a row, the delay and the clocks' differences, a peer that runs and was
\* heard of since it joined is never taken for dead, for any number of nodes and
\* relays.
THEOREM NobodyFalselySuspected == ASSUME TimingFits PROVE Spec => []NoFalseSuspicion
<1>1. IInv => NoFalseSuspicion
  <2>. SUFFICES ASSUME IInv, NEW n \in running, NEW m \in running, Heard(n, m)
                PROVE  m \in alive_peers(n, last_seen[n])
    BY DEF NoFalseSuspicion, Heard
  <2>1. CASE n = m
    BY <2>1 DEF alive_peers
  <2>2. CASE n # m
    BY <2>2, HeardIsAlive
  <2>. QED  BY <2>1, <2>2
<1>2. MaxDelay < HeartbeatInterval
  BY DEF TimingFits
<1>. QED  BY <1>1, <1>2, AlwaysInTouch, PTL

\* Leader election without a vote (peers.py leader): under the same conditions,
\* once nothing has changed for longer than the timeout and the clocks'
\* differences, everyone that went round its loop follows the lowest node that
\* runs: tables then hold the running nodes and nobody else.
THEOREM OneLeaderAfterTimeout == ASSUME TimingFits PROVE Spec => []OneLeader
<1>1. IInv => OneLeader
  <2>. SUFFICES ASSUME IInv, now - changed > PeerTimeout + ClockSpread,
                       NEW n \in running, n \in looped
                PROVE  prev_leader[n] = Min(running)
    BY DEF OneLeader
  <2>1. /\ TypeInv /\ n \in Nodes /\ running \subseteq Nodes /\ now \in Nat /\ changed \in Nat
        /\ HeartbeatInterval \in Nat /\ MaxLost \in Nat /\ MaxDelay \in Nat /\ PeerTimeout \in Nat
        /\ joined \in [Nodes -> Nat] /\ \A m \in Nodes : Skew[m] \in Int /\ joined[m] <= changed
    BY TypesIn DEF IInv
  <2>2. ClockSpread \in Int /\ ClockSpread >= 0
    BY <2>1, ClockSpreadIs
  <2>3. ASSUME NEW m \in running, m # n PROVE m \in alive_peers(n, last_seen[n])
    <3>1. now - HeardAt(n, m) <= PeerTimeout
      <4>1. PICK room : room = (MaxLost + 1) * HeartbeatInterval
        OBVIOUS
      <4>2. room \in Nat
        <5>1. MaxLost + 1 \in Nat
          BY <2>1
        <5>. QED  BY <2>1, <4>1, <5>1, Times
      <4>3. now - HeardAt(n, m) <= room + MaxDelay /\ HeardAt(n, m) \in Int
        BY <2>1, <2>3, <4>1, HeardLately, LagIs
      <4>4. room + MaxDelay + ClockSpread <= PeerTimeout
        BY <4>1 DEF TimingFits
      <4>. QED  BY <2>1, <2>2, <4>2, <4>3, <4>4
    <3>2. Heard(n, m)
      <4>1. ASSUME ~Heard(n, m) PROVE HeardAt(n, m) \in Nat /\ HeardAt(n, m) <= changed
        BY <2>1, <2>3, <4>1 DEF HeardAt, Later
      <4>. QED  BY <2>1, <2>2, <3>1, <4>1
    <3>. QED  BY <2>3, <3>2, HeardIsAlive
  <2>4. ASSUME NEW m \in alive_peers(n, last_seen[n]), m \notin running PROVE FALSE
    <3>1. m # n /\ m \in DOMAIN last_seen[n] /\ Clock(n) - last_seen[n][m] <= PeerTimeout
      BY <2>4 DEF alive_peers
    <3>2. m \in Nodes /\ last_seen[n][m] \in Int /\ Clock(n) = now + Skew[n]
      BY <2>1, <3>1 DEF TypeInv, TypeOK, Clock
    <3>3. last_seen[n][m] <= changed + Skew[m]
      BY <2>1, <2>4, <3>1, <3>2 DEF IInv, GoneQuiet
    <3>4. Skew[m] - Skew[n] <= ClockSpread
      BY <2>1, <3>2, ClockSpreadIs
    <3>. QED  BY <2>1, <2>2, <3>1, <3>2, <3>3, <3>4
  <2>5. alive_peers(n, last_seen[n]) = running
    <3>1. n \in alive_peers(n, last_seen[n])
      BY DEF alive_peers
    <3>. QED  BY <2>3, <2>4, <3>1
  <2>6. prev_leader[n] = leader(n, last_seen[n])
    BY DEF IInv, Announced
  <2>7. leader(n, last_seen[n]) = Min(alive_peers(n, last_seen[n]))
    BY <2>1, <2>5 DEF leader
  <2>. QED  BY <2>5, <2>6, <2>7
<1>2. MaxDelay < HeartbeatInterval
  BY DEF TimingFits
<1>. QED  BY <1>1, <1>2, AlwaysInTouch, PTL
=============================================================================
