---------------------------- MODULE RoundsProofs ----------------------------
(***************************************************************************)
(* Theorems about Rounds, for any nodes, relays, initiators and bounds:    *)
(* its types and the lock on the active round, how often a round may be    *)
(* joined, that nobody is left behind in a completed one, and what it      *)
(* takes to announce the end of somebody else's.                           *)
(***************************************************************************)
EXTENDS Rounds, FiniteSetTheorems, TLAPS

-----------------------------------------------------------------------------
(* Streams. *)

\* A stream with one more message at its end.
LEMMA Appended ==
  ASSUME NEW s \in Seq(Messages), NEW m \in Messages
  PROVE  /\ Append(s, m) \in Seq(Messages)
         /\ \A i \in DOMAIN Append(s, m) :
              \/ i \in DOMAIN s /\ Append(s, m)[i] = s[i]
              \/ i = Len(s) + 1 /\ Append(s, m)[i] = m
         /\ \A i \in DOMAIN s : i < Len(s) + 1 /\ i \in Nat
  OBVIOUS

\* A stream whose head has been read.
LEMMA Shifted ==
  ASSUME NEW s \in Seq(Messages), s # <<>>
  PROVE  /\ Tail(s) \in Seq(Messages) /\ Head(s) \in Messages
         /\ 1 \in DOMAIN s /\ Head(s) = s[1]
         /\ \A i \in DOMAIN Tail(s) :
              i \in Nat /\ 1 < i + 1 /\ i + 1 \in DOMAIN s /\ Tail(s)[i] = s[i + 1]
  OBVIOUS

\* The parts of a message.
LEMMA MessageParts ==
  ASSUME NEW m \in Messages
  PROVE  /\ m.round \in RoundIds /\ m.round.leader \in Nodes /\ m.round.nr \in 1 .. MaxStarts
         /\ m.round # NoRound /\ m.from \in Nodes /\ m.type \in {"GEN_START", "GEN_DONE"}
  BY RoundsConstants DEF Messages, RoundIds, NoRound

\* A publication puts at most one copy at the end of each stream.
LEMMA PublishOne ==
  ASSUME TypeOK, NEW m \in Messages, Publish({m})
  PROVE  /\ losses' \in 0 .. MaxLosses
         /\ pipe' \in [Relays -> [Nodes -> Seq(Messages)]]
         /\ \A r \in Relays, n \in Nodes :
              pipe'[r][n] = pipe[r][n] \/ pipe'[r][n] = Append(pipe[r][n], m)
         /\ losses' = 0 => /\ losses = 0
                           /\ \A r \in Relays, n \in up : pipe'[r][n] = Append(pipe[r][n], m)
<1>1. PICK lost \in SUBSET (Relays \X up) :
        /\ losses' = losses + Cardinality(lost) /\ losses' <= MaxLosses
        /\ pipe' = [r \in Relays |-> [n \in Nodes |->
                      IF {m} = {} \/ n \notin up \/ <<r, n>> \in lost THEN pipe[r][n]
                      ELSE Append(pipe[r][n], CHOOSE x \in {m} : TRUE)]]
  BY DEF Publish
<1>2. (CHOOSE x \in {m} : TRUE) = m
  OBVIOUS
<1>3. losses' \in 0 .. MaxLosses /\ (losses' = 0 => losses = 0 /\ lost = {})
  <2>1. IsFiniteSet(lost)
    <3>1. IsFiniteSet(up)
      BY FS_Subset, RoundsConstants DEF TypeOK
    <3>2. IsFiniteSet(Relays \X up)
      BY <3>1, FS_Product, RoundsConstants
    <3>. QED  BY <3>2, FS_Subset
  <2>2. Cardinality(lost) \in Nat
    BY <2>1, FS_CardinalityType
  <2>3. Cardinality(lost) = 0 <=> lost = {}
    BY <2>1, FS_EmptySet
  <2>. QED  BY <1>1, <2>2, <2>3, RoundsConstants DEF TypeOK
<1>4. ASSUME NEW r \in Relays, NEW n \in Nodes
      PROVE  /\ pipe'[r][n] = pipe[r][n] \/ pipe'[r][n] = Append(pipe[r][n], m)
             /\ pipe'[r][n] \in Seq(Messages)
  <2>1. pipe[r][n] \in Seq(Messages)
    BY DEF TypeOK
  <2>2. pipe'[r][n] = pipe[r][n] \/ pipe'[r][n] = Append(pipe[r][n], m)
    BY <1>1, <1>2
  <2>. QED  BY <2>1, <2>2, Appended
<1>5. pipe' \in [Relays -> [Nodes -> Seq(Messages)]]
  BY <1>1, <1>4
<1>6. losses' = 0 => \A r \in Relays, n \in up : pipe'[r][n] = Append(pipe[r][n], m)
  BY <1>1, <1>2, <1>3 DEF TypeOK
<1>. QED  BY <1>3, <1>4, <1>5, <1>6

\* Nothing to publish: nothing changes.
LEMMA PublishNone ==
  ASSUME TypeOK, Publish({})
  PROVE  losses' = losses /\ pipe' = pipe
<1>1. losses' = losses + Cardinality({})
  BY DEF Publish
<1>2. Cardinality({}) = 0
  BY FS_EmptySet
<1>3. pipe' = [r \in Relays |-> [n \in Nodes |-> pipe[r][n]]]
  BY DEF Publish
<1>4. pipe \in [Relays -> [Nodes -> Seq(Messages)]]
  BY DEF TypeOK
<1>5. pipe' = pipe
  <2>1. \A r \in Relays : pipe[r] = [n \in Nodes |-> pipe[r][n]]
    BY <1>4
  <2>. QED  BY <1>3, <1>4, <2>1
<1>. QED  BY <1>1, <1>2, <1>5, RoundsConstants DEF TypeOK

\* In a stream GEN_START stays ahead of the rest of its round when messages are
\* read, and when the announcement of a round that is new to it is added.
LEMMA LeadAppended ==
  ASSUME NEW s \in Seq(Messages), NEW m \in Messages, StartsLead(s),
         m.type = "GEN_START" => \A i \in DOMAIN s : s[i].round # m.round
  PROVE  StartsLead(Append(s, m))
<1>. SUFFICES ASSUME NEW i \in DOMAIN Append(s, m), NEW j \in DOMAIN Append(s, m), i < j,
                     Append(s, m)[j].type = "GEN_START"
              PROVE  Append(s, m)[i].round # Append(s, m)[j].round
  BY DEF StartsLead
<1>1. i \in DOMAIN s /\ Append(s, m)[i] = s[i]
  OBVIOUS
<1>2. CASE j \in DOMAIN s
  <2>1. Append(s, m)[j] = s[j]
    BY <1>2
  <2>. QED  BY <1>1, <1>2, <2>1 DEF StartsLead
<1>3. CASE j = Len(s) + 1
  <2>1. Append(s, m)[j] = m
    BY <1>3
  <2>. QED  BY <1>1, <2>1
<1>. QED  BY <1>2, <1>3, Appended

LEMMA LeadShifted ==
  ASSUME NEW s \in Seq(Messages), s # <<>>, StartsLead(s)
  PROVE  StartsLead(Tail(s))
<1>. SUFFICES ASSUME NEW i \in DOMAIN Tail(s), NEW j \in DOMAIN Tail(s), i < j,
                     Tail(s)[j].type = "GEN_START"
              PROVE  Tail(s)[i].round # Tail(s)[j].round
  BY DEF StartsLead
<1>1. /\ i + 1 \in DOMAIN s /\ Tail(s)[i] = s[i + 1] /\ i \in Nat
      /\ j + 1 \in DOMAIN s /\ Tail(s)[j] = s[j + 1] /\ j \in Nat
  BY Shifted
<1>2. i + 1 < j + 1
  BY <1>1
<1>. QED  BY <1>1, <1>2 DEF StartsLead

\* What a stream holds, with one more message at its end and without its head;
\* behind a message of a round there is no GEN_START of it.
LEMMA HasAppended ==
  ASSUME NEW s \in Seq(Messages), NEW m \in Messages, NEW type, NEW x
  PROVE  Has(Append(s, m), type, x) <=> Has(s, type, x) \/ (m.type = type /\ m.round = x)
<1>1. \A i \in DOMAIN s : i \in DOMAIN Append(s, m) /\ Append(s, m)[i] = s[i]
  OBVIOUS
<1>2. Len(s) + 1 \in DOMAIN Append(s, m) /\ Append(s, m)[Len(s) + 1] = m
  OBVIOUS
<1>3. \A i \in DOMAIN Append(s, m) : i \in DOMAIN s \/ i = Len(s) + 1
  BY Appended
<1>. QED  BY <1>1, <1>2, <1>3 DEF Has

LEMMA HasShifted ==
  ASSUME NEW s \in Seq(Messages), s # <<>>, NEW type, NEW x
  PROVE  /\ Has(s, type, x) <=> Has(Tail(s), type, x) \/ (Head(s).type = type /\ Head(s).round = x)
         /\ StartsLead(s) => ~Has(Tail(s), "GEN_START", Head(s).round)
<1>1. /\ 1 \in DOMAIN s /\ Head(s) = s[1]
      /\ \A i \in DOMAIN Tail(s) :
           i \in Nat /\ 1 < i + 1 /\ i + 1 \in DOMAIN s /\ Tail(s)[i] = s[i + 1]
  BY Shifted
<1>2. \A i \in DOMAIN s : i = 1 \/ (i - 1 \in DOMAIN Tail(s) /\ s[i] = Tail(s)[i - 1])
  OBVIOUS
<1>3. Has(s, type, x) <=> Has(Tail(s), type, x) \/ (Head(s).type = type /\ Head(s).round = x)
  BY <1>1, <1>2 DEF Has
<1>4. StartsLead(s) => ~Has(Tail(s), "GEN_START", Head(s).round)
  BY <1>1 DEF Has, StartsLead
<1>. QED  BY <1>3, <1>4

-----------------------------------------------------------------------------
(* What each action does. *)

LEMMA NoRoundApart == NoRound \notin RoundIds
  BY DEF NoRound, RoundIds

\* A node goes over to a round, or to none; going over to one is joining it.
LEMMA SetActiveFacts ==
  ASSUME TypeOK, NEW n \in Nodes, NEW round \in RoundIds \cup {NoRound}, SetActive(n, round)
  PROVE  /\ active_round' \in [Nodes -> RoundIds \cup {NoRound}]
         /\ joins' \in [Nodes -> [RoundIds -> Nat]]
         /\ active_round'[n] = round
         /\ \A m \in Nodes \ {n} : active_round'[m] = active_round[m]
         /\ \A m \in Nodes, x \in RoundIds :
              m # n \/ x # round \/ round = active_round[n] => joins'[m][x] = joins[m][x]
         /\ round \in RoundIds /\ round # active_round[n] => joins'[n][round] = joins[n][round] + 1
<1>1. /\ active_round' = [active_round EXCEPT ![n] = round]
      /\ joins' = IF round \in {NoRound, active_round[n]} THEN joins
                  ELSE [joins EXCEPT ![n][round] = @ + 1]
  BY DEF SetActive
<1>2. joins \in [Nodes -> [RoundIds -> Nat]] /\ active_round \in [Nodes -> RoundIds \cup {NoRound}]
  BY DEF TypeOK
<1>3. CASE round \in {NoRound, active_round[n]}
  BY <1>1, <1>2, <1>3, NoRoundApart
<1>4. CASE round \notin {NoRound, active_round[n]}
  <2>1. joins' = [joins EXCEPT ![n][round] = @ + 1] /\ round \in RoundIds
    BY <1>1, <1>4
  <2>. QED  BY <1>1, <1>2, <2>1
<1>. QED  BY <1>3, <1>4

\* Joins are only ever added.
LEMMA JoinsGrow ==
  ASSUME TypeOK, NEW n \in Nodes, NEW round \in RoundIds \cup {NoRound}, SetActive(n, round)
  PROVE  \A m \in Nodes, x \in RoundIds : joins'[m][x] \in Nat /\ joins[m][x] <= joins'[m][x]
<1>1. joins \in [Nodes -> [RoundIds -> Nat]] /\ joins' \in [Nodes -> [RoundIds -> Nat]]
  BY SetActiveFacts DEF TypeOK
<1>. SUFFICES ASSUME NEW m \in Nodes, NEW x \in RoundIds
              PROVE  joins'[m][x] \in Nat /\ joins[m][x] <= joins'[m][x]
  OBVIOUS
<1>2. joins'[m][x] = joins[m][x] \/ joins'[m][x] = joins[m][x] + 1
  BY SetActiveFacts
<1>. QED  BY <1>1, <1>2

\* What starting a round amounts to, and reading message m.
Starts(n, m, round) ==
  /\ round = [leader |-> n, nr |-> started[n] + 1] /\ round # NoRound
  /\ m = [type |-> "GEN_START", round |-> round, from |-> n]
  /\ n \in up /\ active_round[n] = NoRound /\ SetActive(n, round)
  /\ running' = [running EXCEPT ![n] = round]
  /\ started' = [started EXCEPT ![n] = @ + 1] /\ started[n] + 1 \in 1 .. MaxStarts
  /\ Publish({m}) /\ UNCHANGED <<up, completed>>

Reads(n, r, m, round) ==
  /\ pipe[r][n] # <<>> /\ m = Head(pipe[r][n]) /\ SetActive(n, round)
  /\ n \in up
  /\ \/ m.type = "GEN_START" /\ active_round[n] = NoRound /\ round = m.round
     \/ m.type = "GEN_DONE" /\ active_round[n] = m.round /\ round = NoRound
     \/ /\ round = active_round[n]
        /\ m.type = "GEN_START" => active_round[n] # NoRound
        /\ m.type = "GEN_DONE" => active_round[n] # m.round
  /\ pipe' \in [Relays -> [Nodes -> Seq(Messages)]]
  /\ pipe'[r][n] = Tail(pipe[r][n])
  /\ \A q \in Relays, o \in Nodes : q # r \/ o # n => pipe'[q][o] = pipe[q][o]
  /\ UNCHANGED <<up, running, started, losses, completed>>

LEMMA StartFacts ==
  ASSUME TypeOK, NEW n \in Nodes, StartRound(n)
  PROVE  \E round \in RoundIds : \E m \in Messages : Starts(n, m, round)
<1>. DEFINE round == [leader |-> n, nr |-> started[n] + 1]
            m     == [type |-> "GEN_START", round |-> round, from |-> n]
<1>1. started[n] + 1 \in 1 .. MaxStarts
  BY RoundsConstants DEF StartRound, TypeOK
<1>2. round \in RoundIds
  BY <1>1 DEF RoundIds
<1>3. m \in Messages
  BY <1>2 DEF Messages
<1>4. round # NoRound
  BY <1>1 DEF NoRound
<1>. QED  BY <1>1, <1>2, <1>3, <1>4 DEF StartRound, Starts

LEMMA ReadFacts ==
  ASSUME TypeOK, NEW n \in Nodes, NEW r \in Relays, Read(n, r)
  PROVE  \E m \in Messages : \E round \in RoundIds \cup {NoRound} : Reads(n, r, m, round)
<1>. DEFINE m     == Head(pipe[r][n])
            round == Dispatched(n, m)
<1>1. /\ pipe \in [Relays -> [Nodes -> Seq(Messages)]] /\ pipe[r][n] \in Seq(Messages)
      /\ active_round[n] \in RoundIds \cup {NoRound}
  BY DEF TypeOK
<1>2. pipe[r][n] # <<>> /\ pipe' = [pipe EXCEPT ![r][n] = Tail(@)] /\ SetActive(n, round)
      /\ n \in up /\ UNCHANGED <<up, running, started, losses, completed>>
  BY DEF Read
<1>3. m \in Messages /\ Tail(pipe[r][n]) \in Seq(Messages)
  BY <1>1, <1>2, Shifted
<1>4. m.round \in RoundIds /\ m.type \in {"GEN_START", "GEN_DONE"}
  BY <1>3, MessageParts
<1>5. /\ pipe'[r][n] = Tail(pipe[r][n])
      /\ \A q \in Relays, o \in Nodes : q # r \/ o # n => pipe'[q][o] = pipe[q][o]
      /\ pipe' \in [Relays -> [Nodes -> Seq(Messages)]]
  <2>. HIDE DEF m, round
  <2>. QED  BY <1>1, <1>2, <1>3
<1>6. /\ \/ m.type = "GEN_START" /\ active_round[n] = NoRound /\ round = m.round
         \/ m.type = "GEN_DONE" /\ active_round[n] = m.round /\ round = NoRound
         \/ /\ round = active_round[n]
            /\ m.type = "GEN_START" => active_round[n] # NoRound
            /\ m.type = "GEN_DONE" => active_round[n] # m.round
      /\ round \in RoundIds \cup {NoRound}
  <2>. HIDE DEF m
  <2>. QED  BY <1>1, <1>4 DEF Dispatched, on_gen_start, on_gen_done
<1>. HIDE DEF m, round
<1>7. m = Head(pipe[r][n])
  BY DEF m
<1>. QED  BY <1>2, <1>3, <1>5, <1>6, <1>7 DEF Reads

\* GEN_DONE goes out, or nothing.
LEMMA CompleteFacts ==
  ASSUME TypeOK, NEW n \in Nodes, CompleteRound(n)
  PROVE  /\ \/ UNCHANGED <<pipe, losses>>
            \/ \E m \in Messages :
                 /\ m = [type |-> "GEN_DONE", round |-> running[n], from |-> n]
                 /\ Publish({m}) /\ is_round_leader(n)
         /\ running[n] \in RoundIds /\ running[n] # NoRound /\ n \in up
         /\ running' = [running EXCEPT ![n] = NoRound]
         /\ completed' = [completed EXCEPT ![n] = @ \cup {running[n]}]
         /\ UNCHANGED <<up, active_round, started, joins>>
<1>1. running[n] \in RoundIds /\ running[n] # NoRound
  BY DEF CompleteRound, TypeOK
<1>2. CASE is_round_leader(n)
  <2>. DEFINE m == [type |-> "GEN_DONE", round |-> running[n], from |-> n]
  <2>1. m \in Messages
    BY <1>1 DEF Messages
  <2>2. Publish({m})
    BY <1>2 DEF CompleteRound, DoneNotice
  <2>. QED  BY <1>1, <1>2, <2>1, <2>2 DEF CompleteRound
<1>3. CASE ~is_round_leader(n)
  <2>1. Publish({})
    BY <1>3 DEF CompleteRound, DoneNotice
  <2>2. pipe' = pipe /\ losses' = losses
    BY <2>1, PublishNone
  <2>. QED  BY <1>1, <2>2 DEF CompleteRound
<1>. QED  BY <1>2, <1>3

LEMMA CrashFacts ==
  ASSUME TypeOK, NEW n \in Nodes, Crash(n)
  PROVE  /\ SetActive(n, NoRound) /\ up' = up \ {n}
         /\ running' = [running EXCEPT ![n] = NoRound]
         /\ pipe' \in [Relays -> [Nodes -> Seq(Messages)]]
         /\ \A r \in Relays : pipe'[r][n] = <<>>
         /\ \A r \in Relays, m \in Nodes \ {n} : pipe'[r][m] = pipe[r][m]
         /\ UNCHANGED <<started, losses, completed>>
<1>1. pipe' = [r \in Relays |-> [pipe[r] EXCEPT ![n] = <<>>]]
  BY DEF Crash
<1>2. pipe \in [Relays -> [Nodes -> Seq(Messages)]]
  BY DEF TypeOK
<1>3. \A r \in Relays : [pipe[r] EXCEPT ![n] = <<>>] \in [Nodes -> Seq(Messages)]
  BY <1>2
<1>. QED  BY <1>1, <1>2, <1>3 DEF Crash

-----------------------------------------------------------------------------
(* The invariant for any number of relays. *)

LEMMA InvariantInit == Init => IInv
<1>. SUFFICES ASSUME Init PROVE IInv
  OBVIOUS
<1>1. \A r \in Relays, n \in Nodes : pipe[r][n] = <<>>
  BY DEF Init
<1>2. <<>> \in Seq(Messages)
  OBVIOUS
<1>3. pipe \in [Relays -> [Nodes -> Seq(Messages)]]
  BY <1>2 DEF Init
<1>4. TypeOK
  BY <1>1, <1>3, RoundsConstants DEF Init, TypeOK
<1>5. KnownRounds /\ StartFirst
  BY <1>1, NoRoundApart DEF Init, KnownRounds, StartFirst, StartsLead
<1>. QED  BY <1>4, <1>5 DEF IInv

\* Every message under way names a round its leader has started.
LEMMA PipeStarted ==
  ASSUME TypeOK, NEW r \in Relays, NEW n \in Nodes, NEW i \in DOMAIN pipe[r][n]
  PROVE  pipe[r][n][i] \in Messages /\ Started(pipe[r][n][i].round)
<1>1. pipe[r][n] \in Seq(Messages)
  BY DEF TypeOK
<1>2. pipe[r][n][i] \in Messages
  BY <1>1
<1>. QED  BY <1>2 DEF TypeOK, Started

\* Streams that lose their heads, are emptied or stay keep what holds of them.
LEMMA StreamsShrink ==
  ASSUME TypeOK, StartFirst, UNCHANGED started,
         pipe' \in [Relays -> [Nodes -> Seq(Messages)]],
         \A r \in Relays, n \in Nodes :
           \/ pipe'[r][n] = pipe[r][n] \/ pipe'[r][n] = <<>>
           \/ pipe[r][n] # <<>> /\ pipe'[r][n] = Tail(pipe[r][n])
  PROVE  /\ StartFirst'
         /\ \A r \in Relays, n \in Nodes : \A i \in DOMAIN pipe'[r][n] :
              pipe'[r][n][i].round.nr <= started'[pipe'[r][n][i].round.leader]
<1>. SUFFICES ASSUME NEW r \in Relays, NEW n \in Nodes
              PROVE  /\ StartsLead(pipe'[r][n])
                     /\ \A i \in DOMAIN pipe'[r][n] : Started(pipe'[r][n][i].round)
  BY DEF StartFirst, Started
<1>0. pipe[r][n] \in Seq(Messages) /\ StartsLead(pipe[r][n])
  BY DEF TypeOK, StartFirst
<1>1. CASE pipe'[r][n] = pipe[r][n]
  BY <1>0, <1>1, PipeStarted
<1>2. CASE pipe'[r][n] = <<>>
  BY <1>2 DEF StartsLead
<1>3. CASE pipe[r][n] # <<>> /\ pipe'[r][n] = Tail(pipe[r][n])
  BY <1>0, <1>3, LeadShifted, Shifted, PipeStarted
<1>. QED  BY <1>1, <1>2, <1>3

\* Streams that get a message of a started round, and its GEN_START only when
\* they hold nothing of the round.
LEMMA StreamsGrow ==
  ASSUME TypeOK, StartFirst, NEW m \in Messages, Started(m.round)',
         started' \in [Nodes -> Nat], \A l \in Nodes : started[l] <= started'[l],
         pipe' \in [Relays -> [Nodes -> Seq(Messages)]],
         \A r \in Relays, n \in Nodes :
           pipe'[r][n] = pipe[r][n] \/ pipe'[r][n] = Append(pipe[r][n], m),
         m.type = "GEN_START" => ~Started(m.round)
  PROVE  /\ StartFirst'
         /\ \A r \in Relays, n \in Nodes : \A i \in DOMAIN pipe'[r][n] :
              pipe'[r][n][i].round.nr <= started'[pipe'[r][n][i].round.leader]
<1>. SUFFICES ASSUME NEW r \in Relays, NEW n \in Nodes
              PROVE  /\ StartsLead(pipe'[r][n])
                     /\ \A i \in DOMAIN pipe'[r][n] :
                          pipe'[r][n][i].round.nr <= started'[pipe'[r][n][i].round.leader]
  BY DEF StartFirst
<1>0. pipe[r][n] \in Seq(Messages) /\ StartsLead(pipe[r][n])
  BY DEF TypeOK, StartFirst
<1>1. ASSUME NEW i \in DOMAIN pipe[r][n]
      PROVE  /\ pipe[r][n][i].round.nr <= started'[pipe[r][n][i].round.leader]
             /\ m.type = "GEN_START" => pipe[r][n][i].round # m.round
  <2>1. pipe[r][n][i] \in Messages /\ Started(pipe[r][n][i].round)
    BY PipeStarted
  <2>2. /\ pipe[r][n][i].round.leader \in Nodes /\ pipe[r][n][i].round.nr \in Nat
        /\ started[pipe[r][n][i].round.leader] \in Nat
    BY <2>1, MessageParts DEF TypeOK
  <2>. QED  BY <2>1, <2>2 DEF Started
<1>2. m.round.nr <= started'[m.round.leader]
  BY DEF Started
<1>3. CASE pipe'[r][n] = pipe[r][n]
  BY <1>0, <1>1, <1>3
<1>4. CASE pipe'[r][n] = Append(pipe[r][n], m)
  <2>1. StartsLead(pipe'[r][n])
    BY <1>0, <1>1, <1>4, LeadAppended
  <2>2. \A i \in DOMAIN pipe'[r][n] : \/ i \in DOMAIN pipe[r][n] /\ pipe'[r][n][i] = pipe[r][n][i]
                                      \/ pipe'[r][n][i] = m
    BY <1>0, <1>4, Appended
  <2>. QED  BY <1>1, <1>2, <2>1, <2>2
<1>. QED  BY <1>3, <1>4

LEMMA InvariantStep == IInv /\ [Next]_vars => IInv'
<1>. SUFFICES ASSUME IInv, [Next]_vars PROVE IInv'
  OBVIOUS
<1>0. TypeOK /\ KnownRounds /\ StartFirst
  BY DEF IInv
<1>1. ASSUME NEW n \in Nodes, StartRound(n) PROVE IInv'
  <2>0. PICK round \in RoundIds, m \in Messages : Starts(n, m, round)
    BY <1>0, <1>1, StartFacts
  <2>1. /\ round = [leader |-> n, nr |-> started[n] + 1] /\ round # NoRound
        /\ m = [type |-> "GEN_START", round |-> round, from |-> n]
        /\ n \in up /\ active_round[n] = NoRound /\ SetActive(n, round)
        /\ running' = [running EXCEPT ![n] = round]
        /\ started' = [started EXCEPT ![n] = @ + 1] /\ started[n] + 1 \in 1 .. MaxStarts
        /\ Publish({m}) /\ UNCHANGED <<up, completed>>
    BY <2>0 DEF Starts
  <2>2. /\ active_round' \in [Nodes -> RoundIds \cup {NoRound}]
        /\ joins' \in [Nodes -> [RoundIds -> Nat]]
        /\ active_round'[n] = round
        /\ \A o \in Nodes \ {n} : active_round'[o] = active_round[o]
        /\ \A o \in Nodes, x \in RoundIds \ {round} : joins'[o][x] = joins[o][x]
    BY <1>0, <2>1, SetActiveFacts
  <2>3. /\ losses' \in 0 .. MaxLosses /\ pipe' \in [Relays -> [Nodes -> Seq(Messages)]]
        /\ \A r \in Relays, o \in Nodes :
             pipe'[r][o] = pipe[r][o] \/ pipe'[r][o] = Append(pipe[r][o], m)
    BY <1>0, <2>1, PublishOne
  <2>4. /\ started' \in [Nodes -> 0 .. MaxStarts] /\ started' \in [Nodes -> Nat]
        /\ \A l \in Nodes : started[l] \in Nat /\ started[l] <= started'[l]
        /\ started'[n] = started[n] + 1
    BY <1>0, <2>1 DEF TypeOK
  <2>5. /\ m.round = round /\ m.type = "GEN_START" /\ round.leader = n /\ round.nr = started[n] + 1
        /\ Started(round)' /\ ~Started(round)
    BY <2>1, <2>4 DEF Started
  <2>6. /\ StartFirst'
        /\ \A r \in Relays, o \in Nodes : \A i \in DOMAIN pipe'[r][o] :
             pipe'[r][o][i].round.nr <= started'[pipe'[r][o][i].round.leader]
    BY <1>0, <2>3, <2>4, <2>5, StreamsGrow
  <2>7. running' \in [Nodes -> RoundIds \cup {NoRound}]
    BY <1>0, <2>1 DEF TypeOK
  <2>8. TypeOK'
    BY <1>0, <2>1, <2>2, <2>3, <2>4, <2>6, <2>7 DEF TypeOK
  <2>9. KnownRounds'
    <3>. SUFFICES ASSUME NEW o \in Nodes, NEW x \in RoundIds,
                         \/ x \in {active_round'[o], running'[o]} \cup completed'[o]
                         \/ joins'[o][x] > 0
                  PROVE  x.nr <= started'[x.leader]
      BY DEF KnownRounds, Started
    <3>1. CASE x = round
      BY <2>5, <3>1 DEF Started
    <3>2. CASE x # round
      <4>1. x \in {active_round[o], running[o]} \cup completed[o] \/ joins[o][x] > 0
        BY <1>0, <2>1, <2>2, <3>2 DEF TypeOK
      <4>2. x.nr <= started[x.leader]
        BY <1>0, <4>1 DEF KnownRounds, Started
      <4>3. x.leader \in Nodes /\ x.nr \in Nat
        BY DEF RoundIds
      <4>. QED  BY <2>4, <4>2, <4>3
    <3>. QED  BY <3>1, <3>2
  <2>. QED  BY <2>6, <2>8, <2>9 DEF IInv
<1>2. ASSUME NEW n \in Nodes, EnterRound(n) PROVE IInv'
  <2>1. /\ running' = [running EXCEPT ![n] = active_round[n]] /\ n \in up
        /\ UNCHANGED <<up, active_round, started, pipe, losses, joins, completed>>
    BY <1>2 DEF EnterRound
  <2>2. TypeOK'
    BY <1>0, <2>1 DEF TypeOK
  <2>3. KnownRounds'
    BY <1>0, <2>1 DEF KnownRounds, Started, TypeOK
  <2>. QED  BY <1>0, <2>1, <2>2, <2>3 DEF IInv, StartFirst
<1>3. \* A step that reads a message or ends a round, on node n.
      ASSUME NEW n \in Nodes, NEW round \in RoundIds \cup {NoRound}, SetActive(n, round),
             round # NoRound => Started(round) /\ n \in up,
             UNCHANGED <<started, losses, completed>>,
             running' = running \/ running' = [running EXCEPT ![n] = NoRound],
             \/ up' = up
             \/ up' = up \ {n} /\ round = NoRound /\ running' = [running EXCEPT ![n] = NoRound],
             pipe' \in [Relays -> [Nodes -> Seq(Messages)]],
             \A r \in Relays, o \in Nodes :
               \/ pipe'[r][o] = pipe[r][o] \/ pipe'[r][o] = <<>>
               \/ pipe[r][o] # <<>> /\ pipe'[r][o] = Tail(pipe[r][o])
      PROVE  IInv'
  <2>1. /\ active_round' \in [Nodes -> RoundIds \cup {NoRound}]
        /\ joins' \in [Nodes -> [RoundIds -> Nat]]
        /\ active_round'[n] = round
        /\ \A m \in Nodes \ {n} : active_round'[m] = active_round[m]
        /\ \A m \in Nodes, x \in RoundIds \ {round} : joins'[m][x] = joins[m][x]
    BY <1>0, <1>3, SetActiveFacts
  <2>2. /\ StartFirst'
        /\ \A r \in Relays, o \in Nodes : \A i \in DOMAIN pipe'[r][o] :
             pipe'[r][o][i].round.nr <= started'[pipe'[r][o][i].round.leader]
    BY <1>0, <1>3, StreamsShrink
  <2>3. running' \in [Nodes -> RoundIds \cup {NoRound}]
        /\ \A m \in Nodes : running'[m] \in {running[m], NoRound}
    BY <1>0, <1>3 DEF TypeOK
  <2>4. up' \subseteq Nodes /\ \A m \in Nodes \ up' : active_round'[m] = NoRound /\ running'[m] = NoRound
    <3>1. up \subseteq Nodes /\ \A m \in Nodes \ up : active_round[m] = NoRound /\ running[m] = NoRound
      BY <1>0 DEF TypeOK
    <3>2. running \in [Nodes -> RoundIds \cup {NoRound}]
      BY <1>0 DEF TypeOK
    <3>. QED  BY <1>3, <2>1, <2>3, <3>1, <3>2
  <2>5. TypeOK'
    BY <1>0, <1>3, <2>1, <2>2, <2>3, <2>4 DEF TypeOK
  <2>6. KnownRounds'
    <3>. SUFFICES ASSUME NEW o \in Nodes, NEW x \in RoundIds,
                         \/ x \in {active_round'[o], running'[o]} \cup completed'[o]
                         \/ joins'[o][x] > 0
                  PROVE  Started(x)
      BY <1>3 DEF KnownRounds, Started
    <3>1. x = round \/ x \in {active_round[o], running[o]} \cup completed[o] \/ joins[o][x] > 0
      BY <1>3, <2>1, <2>3, NoRoundApart
    <3>. QED  BY <1>0, <1>3, <3>1, NoRoundApart DEF KnownRounds
  <2>. QED  BY <2>2, <2>5, <2>6 DEF IInv
<1>4. ASSUME NEW n \in Nodes, NEW r \in Relays, Read(n, r) PROVE IInv'
  <2>0. PICK m \in Messages, round \in RoundIds \cup {NoRound} : Reads(n, r, m, round)
    BY <1>0, <1>4, ReadFacts
  <2>1. /\ pipe[r][n] # <<>> /\ m = Head(pipe[r][n]) /\ SetActive(n, round)
        /\ n \in up
        /\ \/ m.type = "GEN_START" /\ active_round[n] = NoRound /\ round = m.round
           \/ m.type = "GEN_DONE" /\ active_round[n] = m.round /\ round = NoRound
           \/ /\ round = active_round[n]
              /\ m.type = "GEN_START" => active_round[n] # NoRound
              /\ m.type = "GEN_DONE" => active_round[n] # m.round
        /\ pipe' \in [Relays -> [Nodes -> Seq(Messages)]]
        /\ pipe'[r][n] = Tail(pipe[r][n])
        /\ \A q \in Relays, o \in Nodes : q # r \/ o # n => pipe'[q][o] = pipe[q][o]
        /\ UNCHANGED <<up, running, started, losses, completed>>
    BY <2>0 DEF Reads
  <2>2. Started(m.round)
    <3>1. 1 \in DOMAIN pipe[r][n] /\ m = pipe[r][n][1]
      BY <1>0, <2>1, Shifted DEF TypeOK
    <3>. QED  BY <1>0, <3>1, PipeStarted
  <2>3. round # NoRound => Started(round)
    BY <1>0, <2>1, <2>2 DEF KnownRounds, TypeOK
  <2>. QED  BY <1>3, <2>1, <2>3
<1>5. ASSUME NEW n \in Nodes, LeaderTimeout(n) PROVE IInv'
  <2>1. /\ SetActive(n, NoRound) /\ running' = [running EXCEPT ![n] = NoRound]
        /\ UNCHANGED <<up, started, pipe, losses, completed>>
    BY <1>5 DEF LeaderTimeout
  <2>2. pipe' \in [Relays -> [Nodes -> Seq(Messages)]]
    BY <1>0, <2>1 DEF TypeOK
  <2>. QED  BY <1>3, <2>1, <2>2
<1>6. ASSUME NEW n \in Nodes, Crash(n) PROVE IInv'
  BY <1>0, <1>3, <1>6, CrashFacts
<1>7. ASSUME NEW n \in Nodes, CompleteRound(n) PROVE IInv'
  <2>1. /\ \/ UNCHANGED <<pipe, losses>>
           \/ \E m \in Messages :
                /\ m = [type |-> "GEN_DONE", round |-> running[n], from |-> n]
                /\ Publish({m}) /\ is_round_leader(n)
        /\ running[n] \in RoundIds /\ running[n] # NoRound /\ n \in up
        /\ running' = [running EXCEPT ![n] = NoRound]
        /\ completed' = [completed EXCEPT ![n] = @ \cup {running[n]}]
        /\ UNCHANGED <<up, active_round, started, joins>>
    BY <1>0, <1>7, CompleteFacts
  <2>2. /\ pipe' \in [Relays -> [Nodes -> Seq(Messages)]] /\ losses' \in 0 .. MaxLosses
        /\ StartFirst'
        /\ \A r \in Relays, o \in Nodes : \A i \in DOMAIN pipe'[r][o] :
             pipe'[r][o][i].round.nr <= started'[pipe'[r][o][i].round.leader]
    <3>1. CASE UNCHANGED <<pipe, losses>>
      BY <1>0, <2>1, <3>1 DEF TypeOK, StartFirst
    <3>2. ASSUME NEW m \in Messages, Publish({m}),
                 m = [type |-> "GEN_DONE", round |-> running[n], from |-> n]
          PROVE  /\ pipe' \in [Relays -> [Nodes -> Seq(Messages)]] /\ losses' \in 0 .. MaxLosses
                 /\ StartFirst'
                 /\ \A r \in Relays, o \in Nodes : \A i \in DOMAIN pipe'[r][o] :
                      pipe'[r][o][i].round.nr <= started'[pipe'[r][o][i].round.leader]
      <4>1. /\ losses' \in 0 .. MaxLosses /\ pipe' \in [Relays -> [Nodes -> Seq(Messages)]]
            /\ \A r \in Relays, o \in Nodes :
                 pipe'[r][o] = pipe[r][o] \/ pipe'[r][o] = Append(pipe[r][o], m)
        BY <1>0, <3>2, PublishOne
      <4>2. m.type # "GEN_START" /\ m.round = running[n]
        BY <3>2
      <4>3. Started(running[n])
        BY <1>0, <2>1 DEF KnownRounds
      <4>4. Started(m.round)'
        BY <2>1, <4>2, <4>3 DEF Started
      <4>5. started' \in [Nodes -> Nat] /\ \A l \in Nodes : started[l] <= started'[l]
        BY <1>0, <2>1 DEF TypeOK
      <4>. QED  BY <1>0, <4>1, <4>2, <4>4, <4>5, StreamsGrow
    <3>. QED  BY <2>1, <3>1, <3>2
  <2>3. TypeOK'
    BY <1>0, <2>1, <2>2 DEF TypeOK
  <2>4. KnownRounds'
    <3>. SUFFICES ASSUME NEW o \in Nodes, NEW x \in RoundIds,
                         \/ x \in {active_round'[o], running'[o]} \cup completed'[o]
                         \/ joins'[o][x] > 0
                  PROVE  Started(x)
      BY <2>1 DEF KnownRounds, Started
    <3>1. \/ x \in {active_round[o], running[o]} \cup completed[o] \/ joins[o][x] > 0
          \/ x = running[n]
      BY <1>0, <2>1, NoRoundApart DEF TypeOK
    <3>. QED  BY <1>0, <2>1, <3>1 DEF KnownRounds
  <2>. QED  BY <2>2, <2>3, <2>4 DEF IInv
<1>8. CASE UNCHANGED vars
  BY <1>0, <1>8 DEF vars, IInv, TypeOK, KnownRounds, Started, StartFirst
<1>. QED  BY <1>1, <1>2, <1>4, <1>5, <1>6, <1>7, <1>8 DEF Next

-----------------------------------------------------------------------------
(* What the streams hold after a publication and after a message is read. *)

LEMMA PublishHas ==
  ASSUME TypeOK, NEW m \in Messages, Publish({m})
  PROVE  /\ \A r \in Relays, n \in Nodes, x \in RoundIds : \A type \in {"GEN_START", "GEN_DONE"} :
              type # m.type \/ x # m.round =>
                (Has(pipe'[r][n], type, x) <=> Has(pipe[r][n], type, x))
         /\ losses' = 0 => /\ losses = 0
                           /\ \A r \in Relays, n \in up : Has(pipe'[r][n], m.type, m.round)
<1>1. /\ \A r \in Relays, n \in Nodes :
           pipe'[r][n] = pipe[r][n] \/ pipe'[r][n] = Append(pipe[r][n], m)
      /\ losses' = 0 => /\ losses = 0
                        /\ \A r \in Relays, n \in up : pipe'[r][n] = Append(pipe[r][n], m)
  BY PublishOne
<1>2. /\ up \subseteq Nodes
      /\ \A r \in Relays, n \in Nodes : pipe[r][n] \in Seq(Messages)
  BY DEF TypeOK
<1>3. ASSUME NEW r \in Relays, NEW n \in Nodes, NEW x \in RoundIds,
             NEW type \in {"GEN_START", "GEN_DONE"}, type # m.type \/ x # m.round
      PROVE  Has(pipe'[r][n], type, x) <=> Has(pipe[r][n], type, x)
  <2>1. pipe[r][n] \in Seq(Messages) /\ ~(m.type = type /\ m.round = x)
    BY <1>2, <1>3
  <2>2. Has(Append(pipe[r][n], m), type, x) <=> Has(pipe[r][n], type, x)
    BY <2>1, HasAppended
  <2>3. pipe'[r][n] = pipe[r][n] \/ pipe'[r][n] = Append(pipe[r][n], m)
    BY <1>1
  <2>. QED  BY <2>2, <2>3
<1>4. ASSUME losses' = 0, NEW r \in Relays, NEW n \in up
      PROVE  Has(pipe'[r][n], m.type, m.round)
  <2>1. pipe[r][n] \in Seq(Messages) /\ pipe'[r][n] = Append(pipe[r][n], m)
    BY <1>1, <1>2, <1>4
  <2>2. Has(Append(pipe[r][n], m), m.type, m.round)
    BY <2>1, HasAppended
  <2>. QED  BY <2>1, <2>2
<1>. QED  BY <1>1, <1>3, <1>4

LEMMA ReadHas ==
  ASSUME IInv, NEW n \in Nodes, NEW r \in Relays, pipe[r][n] # <<>>,
         pipe'[r][n] = Tail(pipe[r][n]), NEW m, m = Head(pipe[r][n])
  PROVE  /\ Has(pipe[r][n], m.type, m.round) /\ ~Has(pipe'[r][n], "GEN_START", m.round)
         /\ \A x \in RoundIds : \A type \in {"GEN_START", "GEN_DONE"} :
              /\ Has(pipe'[r][n], type, x) => Has(pipe[r][n], type, x)
              /\ type # m.type \/ x # m.round =>
                   (Has(pipe'[r][n], type, x) <=> Has(pipe[r][n], type, x))
<1>1. pipe[r][n] \in Seq(Messages) /\ StartsLead(pipe[r][n])
  BY DEF IInv, TypeOK, StartFirst
<1>. QED  BY <1>1, HasShifted

\* A round that is new has been joined, announced and completed by nobody.
LEMMA NewRound ==
  ASSUME IInv, NEW round \in RoundIds, ~Started(round)
  PROVE  \A n \in Nodes : /\ joins[n][round] = 0 /\ round \notin completed[n]
                          /\ \A r \in Relays, type \in {"GEN_START", "GEN_DONE"} :
                               ~Has(pipe[r][n], type, round)
<1>1. \A n \in Nodes : joins[n][round] \in Nat
  BY DEF IInv, TypeOK
<1>2. \A n \in Nodes : joins[n][round] = 0 /\ round \notin completed[n]
  BY <1>1 DEF IInv, KnownRounds
<1>3. \A r \in Relays, n \in Nodes : \A i \in DOMAIN pipe[r][n] : pipe[r][n][i].round # round
  BY PipeStarted DEF IInv
<1>. QED  BY <1>2, <1>3 DEF Has

\* Starting a round makes no other round started.
LEMMA OtherStarts ==
  ASSUME TypeOK, NEW n \in Nodes, NEW round \in RoundIds,
         round = [leader |-> n, nr |-> started[n] + 1],
         started' = [started EXCEPT ![n] = @ + 1]
  PROVE  /\ ~Started(round)
         /\ \A x \in RoundIds \ {round} : x.nr <= started'[x.leader] => Started(x)
<1>1. started \in [Nodes -> Nat]
  BY DEF TypeOK
<1>2. ~Started(round)
  BY <1>1 DEF Started
<1>3. ASSUME NEW x \in RoundIds \ {round}, x.nr <= started'[x.leader]
      PROVE  Started(x)
  <2>1. x = [leader |-> x.leader, nr |-> x.nr] /\ x.leader \in Nodes /\ x.nr \in Nat
    BY DEF RoundIds
  <2>2. x.leader = n => x.nr # started[n] + 1
    BY <2>1
  <2>. QED  BY <1>1, <1>3, <2>1, <2>2 DEF Started
<1>. QED  BY <1>2, <1>3

-----------------------------------------------------------------------------
(* The end of somebody else's round. *)

\* A step that joins nothing anew, or joins again what OwnJoined counts.
LEMMA RejoinStep ==
  ASSUME IInv, OwnJoined, RunsOwn, Next PROVE OwnJoined' /\ RunsOwn'
<1>0. /\ TypeOK /\ KnownRounds
      /\ joins \in [Nodes -> [RoundIds -> Nat]]
      /\ active_round \in [Nodes -> RoundIds \cup {NoRound}]
      /\ running \in [Nodes -> RoundIds \cup {NoRound}]
  BY DEF IInv, TypeOK
<1>1. ASSUME NEW n \in Nodes, StartRound(n) PROVE OwnJoined' /\ RunsOwn'
  <2>0. PICK round \in RoundIds, m \in Messages : Starts(n, m, round)
    BY <1>0, <1>1, StartFacts
  <2>1. /\ round = [leader |-> n, nr |-> started[n] + 1]
        /\ active_round[n] = NoRound /\ SetActive(n, round)
        /\ running' = [running EXCEPT ![n] = round]
        /\ started' = [started EXCEPT ![n] = @ + 1]
    BY <2>0 DEF Starts
  <2>2. /\ active_round'[n] = round /\ running'[n] = round
        /\ \A o \in Nodes \ {n} : active_round'[o] = active_round[o] /\ running'[o] = running[o]
        /\ \A o \in Nodes, x \in RoundIds : o # n \/ x # round => joins'[o][x] = joins[o][x]
        /\ joins'[n][round] = joins[n][round] + 1 /\ joins[n][round] \in Nat
    BY <1>0, <2>1, SetActiveFacts, NoRoundApart
  <2>3. \A x \in RoundIds \ {round} : x.nr <= started'[x.leader] => Started(x)
    BY <1>0, <2>1, OtherStarts
  <2>4. OwnJoined'
    <3>. SUFFICES ASSUME NEW o \in Nodes, NEW x \in RoundIds, x.leader = o,
                         x.nr <= started'[x.leader]
                  PROVE  joins'[o][x] >= 1
      BY DEF OwnJoined, Started
    <3>1. CASE x = round
      <4>1. o = n
        BY <2>1, <3>1
      <4>. QED  BY <2>2, <3>1, <4>1
    <3>2. CASE x # round
      BY <2>2, <2>3, <3>2 DEF OwnJoined
    <3>. QED  BY <3>1, <3>2
  <2>5. RunsOwn'
    <3>. SUFFICES ASSUME NEW o \in Nodes, active_round'[o] # NoRound, active_round'[o].leader = o,
                         running'[o] \notin {NoRound, active_round'[o]}
                  PROVE  joins'[o][active_round'[o]] >= 2
      BY DEF RunsOwn, is_round_leader
    <3>1. o # n /\ active_round'[o] = active_round[o] /\ active_round[o] \in RoundIds
      BY <1>0, <2>2
    <3>. QED  BY <2>2, <3>1 DEF RunsOwn, is_round_leader
  <2>. QED  BY <2>4, <2>5
<1>2. \* A step that reads a message or ends a round, on node n.
      ASSUME NEW n \in Nodes, NEW round \in RoundIds \cup {NoRound}, SetActive(n, round),
             UNCHANGED started,
             round \notin {NoRound, active_round[n]} => Started(round),
             running' \in [Nodes -> RoundIds \cup {NoRound}],
             \A m \in Nodes : running'[m] \in {running[m], NoRound}
      PROVE  OwnJoined' /\ RunsOwn'
  <2>1. /\ active_round'[n] = round
        /\ \A m \in Nodes \ {n} : active_round'[m] = active_round[m]
        /\ \A m \in Nodes, x \in RoundIds :
             m # n \/ x # round \/ round = active_round[n] => joins'[m][x] = joins[m][x]
        /\ round \in RoundIds /\ round # active_round[n] => joins'[n][round] = joins[n][round] + 1
    BY <1>0, <1>2, SetActiveFacts
  <2>2. \A m \in Nodes, x \in RoundIds : joins'[m][x] \in Nat /\ joins[m][x] <= joins'[m][x]
    BY <1>0, <1>2, JoinsGrow
  <2>3. OwnJoined'
    <3>. SUFFICES ASSUME NEW o \in Nodes, NEW x \in RoundIds, x.leader = o, Started(x)
                  PROVE  joins'[o][x] >= 1
      BY <1>2 DEF OwnJoined, Started
    <3>1. joins[o][x] >= 1 /\ joins[o][x] \in Nat
      BY <1>0 DEF OwnJoined
    <3>. QED  BY <2>2, <3>1
  <2>4. RunsOwn'
    <3>. SUFFICES ASSUME NEW o \in Nodes, active_round'[o] # NoRound, active_round'[o].leader = o,
                         running'[o] \notin {NoRound, active_round'[o]}
                  PROVE  joins'[o][active_round'[o]] >= 2
      BY DEF RunsOwn, is_round_leader
    <3>1. running[o] = running'[o]
      BY <1>2
    <3>2. CASE active_round'[o] = active_round[o]
      <4>1. active_round[o] \in RoundIds /\ joins[o][active_round[o]] >= 2
        BY <1>0, <3>1, <3>2 DEF RunsOwn, is_round_leader
      <4>2. joins'[o][active_round[o]] \in Nat /\ joins[o][active_round[o]] \in Nat
            /\ joins[o][active_round[o]] <= joins'[o][active_round[o]]
        BY <1>0, <2>2, <4>1
      <4>. QED  BY <3>2, <4>1, <4>2
    <3>3. CASE active_round'[o] # active_round[o]
      <4>1. o = n /\ active_round'[o] = round /\ round \in RoundIds /\ round # active_round[n]
        BY <2>1, <3>3
      <4>2. Started(round)
        BY <1>2, <4>1
      <4>3. joins[n][round] >= 1 /\ joins[n][round] \in Nat
        BY <1>0, <4>1, <4>2 DEF OwnJoined
      <4>. QED  BY <2>1, <4>1, <4>3
    <3>. QED  BY <3>2, <3>3
  <2>. QED  BY <2>3, <2>4
<1>3. ASSUME NEW n \in Nodes, NEW r \in Relays, Read(n, r) PROVE OwnJoined' /\ RunsOwn'
  <2>0. PICK m \in Messages, round \in RoundIds \cup {NoRound} : Reads(n, r, m, round)
    BY <1>0, <1>3, ReadFacts
  <2>1. /\ pipe[r][n] # <<>> /\ m = Head(pipe[r][n]) /\ SetActive(n, round)
        /\ round \in {m.round, NoRound, active_round[n]}
        /\ UNCHANGED <<running, started>>
    BY <2>0 DEF Reads
  <2>2. Started(m.round)
    <3>1. 1 \in DOMAIN pipe[r][n] /\ m = pipe[r][n][1]
      BY <1>0, <2>1, Shifted DEF TypeOK
    <3>. QED  BY <1>0, <3>1, PipeStarted
  <2>. QED  BY <1>0, <1>2, <2>1, <2>2
<1>4. ASSUME NEW n \in Nodes, LeaderTimeout(n) \/ Crash(n) PROVE OwnJoined' /\ RunsOwn'
  <2>1. /\ SetActive(n, NoRound) /\ UNCHANGED started
        /\ running' = [running EXCEPT ![n] = NoRound]
    BY <1>4 DEF LeaderTimeout, Crash
  <2>. QED  BY <1>0, <1>2, <2>1
<1>5. ASSUME NEW n \in Nodes, EnterRound(n) \/ CompleteRound(n) PROVE OwnJoined' /\ RunsOwn'
  <2>1. /\ UNCHANGED <<active_round, started, joins>>
        /\ running' = [running EXCEPT ![n] = running'[n]]
        /\ running'[n] \in {active_round[n], NoRound}
    BY <1>0, <1>5 DEF EnterRound, CompleteRound
  <2>. QED  BY <1>0, <2>1 DEF OwnJoined, RunsOwn, is_round_leader, Started
<1>. QED  BY <1>1, <1>3, <1>4, <1>5 DEF Next

\* A message about a round of somebody else than its sender is excused by j, the
\* joins, when they say that its sender has joined a round of its own twice.
Excused(m, j) ==
  m.from # m.round.leader => \E own \in RoundIds : own.leader = m.from /\ j[m.from][own] >= 2

LEMMA ForeignDoneStep ==
  ASSUME IInv, RunsOwn, ForeignDoneNeedsRejoin, Next PROVE ForeignDoneNeedsRejoin'
<1>0. /\ TypeOK /\ joins \in [Nodes -> [RoundIds -> Nat]]
      /\ \A r \in Relays, n \in Nodes :
           /\ pipe[r][n] \in Seq(Messages)
           /\ \A i \in DOMAIN pipe[r][n] :
                pipe[r][n][i] \in Messages /\ Excused(pipe[r][n][i], joins)
  BY PipeStarted DEF IInv, TypeOK, ForeignDoneNeedsRejoin, Excused
<1>1. SUFFICES \A r \in Relays, n \in Nodes : \A i \in DOMAIN pipe'[r][n] :
                 Excused(pipe'[r][n][i], joins')
  BY DEF ForeignDoneNeedsRejoin, Excused
<1>2. ASSUME NEW n \in Nodes, NEW round \in RoundIds \cup {NoRound}, SetActive(n, round),
             NEW m \in Messages, Excused(m, joins)
      PROVE  Excused(m, joins')
  <2>. SUFFICES ASSUME m.from # m.round.leader
                PROVE  \E own \in RoundIds : own.leader = m.from /\ joins'[m.from][own] >= 2
    BY DEF Excused
  <2>1. PICK own \in RoundIds : own.leader = m.from /\ joins[m.from][own] >= 2
    BY <1>2 DEF Excused
  <2>2. m.from \in Nodes
    BY MessageParts
  <2>3. joins'[m.from][own] \in Nat /\ joins[m.from][own] \in Nat
        /\ joins[m.from][own] <= joins'[m.from][own]
    BY <1>0, <1>2, <2>2, JoinsGrow
  <2>. QED  BY <2>1, <2>3
<1>3. \* A step that reads a message or ends a round: no message is new.
      ASSUME NEW n \in Nodes, NEW round \in RoundIds \cup {NoRound}, SetActive(n, round),
             \A r \in Relays, o \in Nodes :
               \/ pipe'[r][o] = pipe[r][o] \/ pipe'[r][o] = <<>>
               \/ pipe[r][o] # <<>> /\ pipe'[r][o] = Tail(pipe[r][o]),
             NEW r \in Relays, NEW o \in Nodes, NEW i \in DOMAIN pipe'[r][o]
      PROVE  Excused(pipe'[r][o][i], joins')
  <2>1. \E j \in DOMAIN pipe[r][o] : pipe'[r][o][i] = pipe[r][o][j]
    <3>1. CASE pipe'[r][o] = pipe[r][o]
      BY <1>3, <3>1
    <3>2. CASE pipe[r][o] # <<>> /\ pipe'[r][o] = Tail(pipe[r][o])
      <4>1. i + 1 \in DOMAIN pipe[r][o] /\ Tail(pipe[r][o])[i] = pipe[r][o][i + 1]
        BY <1>0, <1>3, <3>2, Shifted
      <4>. QED  BY <3>2, <4>1
    <3>3. pipe'[r][o] # <<>>
      BY <1>3
    <3>. QED  BY <1>3, <3>1, <3>2, <3>3
  <2>. QED  BY <1>0, <1>2, <1>3, <2>1
<1>4. \* A step that publishes m.
      ASSUME NEW m \in Messages, Publish({m}), Excused(m, joins'),
             \A x \in Messages : Excused(x, joins) => Excused(x, joins'),
             NEW r \in Relays, NEW o \in Nodes, NEW i \in DOMAIN pipe'[r][o]
      PROVE  Excused(pipe'[r][o][i], joins')
  <2>1. pipe'[r][o] = pipe[r][o] \/ pipe'[r][o] = Append(pipe[r][o], m)
    BY <1>0, <1>4, PublishOne
  <2>2. pipe'[r][o][i] = m \/ \E j \in DOMAIN pipe[r][o] : pipe'[r][o][i] = pipe[r][o][j]
    BY <1>0, <1>4, <2>1, Appended
  <2>. QED  BY <1>0, <1>4, <2>2
<1>5. ASSUME NEW n \in Nodes, StartRound(n), NEW r \in Relays, NEW o \in Nodes,
             NEW i \in DOMAIN pipe'[r][o]
      PROVE  Excused(pipe'[r][o][i], joins')
  <2>0. PICK round \in RoundIds, m \in Messages : Starts(n, m, round)
    BY <1>0, <1>5, StartFacts
  <2>1. /\ Publish({m}) /\ SetActive(n, round) /\ m.from = m.round.leader
    BY <2>0 DEF Starts
  <2>2. Excused(m, joins')
    BY <2>1 DEF Excused
  <2>3. \A x \in Messages : Excused(x, joins) => Excused(x, joins')
    BY <1>2, <2>1
  <2>. QED  BY <1>4, <2>1, <2>2, <2>3
<1>6. ASSUME NEW n \in Nodes, CompleteRound(n), NEW r \in Relays, NEW o \in Nodes,
             NEW i \in DOMAIN pipe'[r][o]
      PROVE  Excused(pipe'[r][o][i], joins')
  <2>1. /\ joins' = joins /\ running[n] \in RoundIds /\ running[n] # NoRound
        /\ \/ pipe' = pipe
           \/ \E m \in Messages :
                /\ m = [type |-> "GEN_DONE", round |-> running[n], from |-> n]
                /\ Publish({m}) /\ is_round_leader(n)
    BY <1>0, <1>6, CompleteFacts
  <2>2. CASE pipe' = pipe
    BY <1>0, <2>1, <2>2
  <2>3. ASSUME NEW m \in Messages, Publish({m}), is_round_leader(n),
               m = [type |-> "GEN_DONE", round |-> running[n], from |-> n]
        PROVE  Excused(pipe'[r][o][i], joins')
    <3>1. active_round[n] \in RoundIds /\ active_round[n].leader = n
      BY <1>0, <2>3 DEF TypeOK, is_round_leader
    <3>2. m.from = n /\ m.round = running[n]
      BY <2>3
    <3>3. m.from # m.round.leader => joins[n][active_round[n]] >= 2
      BY <2>1, <2>3, <3>1, <3>2 DEF RunsOwn
    <3>4. Excused(m, joins')
      BY <2>1, <3>1, <3>2, <3>3 DEF Excused
    <3>. QED  BY <1>4, <2>1, <2>3, <3>4
  <2>. QED  BY <2>1, <2>2, <2>3
<1>7. ASSUME NEW n \in Nodes, EnterRound(n) \/ LeaderTimeout(n) \/ Crash(n),
             NEW r \in Relays, NEW o \in Nodes, NEW i \in DOMAIN pipe'[r][o]
      PROVE  Excused(pipe'[r][o][i], joins')
  <2>1. CASE EnterRound(n)
    BY <1>0, <1>7, <2>1 DEF EnterRound
  <2>2. CASE LeaderTimeout(n)
    <3>1. SetActive(n, NoRound) /\ pipe' = pipe
      BY <2>2 DEF LeaderTimeout
    <3>. QED  BY <1>3, <1>7, <3>1
  <2>3. CASE Crash(n)
    <3>1. /\ SetActive(n, NoRound)
          /\ \A q \in Relays, m \in Nodes : pipe'[q][m] = pipe[q][m] \/ pipe'[q][m] = <<>>
      BY <1>0, <2>3, CrashFacts
    <3>. QED  BY <1>3, <1>7, <3>1
  <2>. QED  BY <1>7, <2>1, <2>2, <2>3
<1>8. ASSUME NEW n \in Nodes, NEW q \in Relays, Read(n, q),
             NEW r \in Relays, NEW o \in Nodes, NEW i \in DOMAIN pipe'[r][o]
      PROVE  Excused(pipe'[r][o][i], joins')
  <2>0. PICK m \in Messages, round \in RoundIds \cup {NoRound} : Reads(n, q, m, round)
    BY <1>0, <1>8, ReadFacts
  <2>1. /\ SetActive(n, round) /\ pipe[q][n] # <<>> /\ pipe'[q][n] = Tail(pipe[q][n])
        /\ \A p \in Relays, l \in Nodes : p # q \/ l # n => pipe'[p][l] = pipe[p][l]
    BY <2>0 DEF Reads
  <2>. QED  BY <1>3, <1>8, <2>1
<1>. QED  BY <1>5, <1>6, <1>7, <1>8 DEF Next

-----------------------------------------------------------------------------
(* How often a round is joined. *)

\* Copies still to be read are finitely many, and taking or missing one counts.
LEMMA UnreadCount ==
  ASSUME NEW S, S \subseteq Relays
  PROVE  /\ Cardinality(Relays) \in Nat /\ 1 <= Cardinality(Relays)
         /\ Cardinality(S) \in Nat /\ Cardinality(S) <= Cardinality(Relays)
         /\ \A T \in SUBSET S : Cardinality(T) \in Nat /\ Cardinality(T) <= Cardinality(S)
         /\ \A r \in S : Cardinality(S \ {r}) + 1 = Cardinality(S)
         /\ \A r \in Relays \ S : Cardinality(S) + 1 <= Cardinality(Relays)
<1>1. IsFiniteSet(Relays) /\ IsFiniteSet(S) /\ \A T \in SUBSET S : IsFiniteSet(T)
  BY RoundsConstants, FS_Subset
<1>2. /\ Cardinality(Relays) \in Nat /\ Cardinality(S) \in Nat
      /\ \A T \in SUBSET S : Cardinality(T) \in Nat
  BY <1>1, FS_CardinalityType
<1>3. Cardinality(S) <= Cardinality(Relays) /\ \A T \in SUBSET S : Cardinality(T) <= Cardinality(S)
  BY <1>1, FS_Subset
<1>4. 1 <= Cardinality(Relays)
  BY <1>1, <1>2, RoundsConstants, FS_EmptySet
<1>5. ASSUME NEW r \in S PROVE Cardinality(S \ {r}) + 1 = Cardinality(S)
  <2>1. Cardinality(S \ {r}) = Cardinality(S) - 1
    BY <1>1, <1>5, FS_RemoveElement
  <2>. QED  BY <1>2, <2>1
<1>6. ASSUME NEW r \in Relays \ S PROVE Cardinality(S) + 1 <= Cardinality(Relays)
  <2>1. Cardinality(S \cup {r}) = Cardinality(S) + 1
    BY <1>1, <1>6, FS_AddElement
  <2>2. Cardinality(S \cup {r}) <= Cardinality(Relays)
    BY <1>1, <1>6, FS_Subset
  <2>. QED  BY <2>1, <2>2
<1>. QED  BY <1>2, <1>3, <1>4, <1>5, <1>6

\* The two sides of CopiesLeft: the leader is in its round for the first time, or
\* joins and copies still to be read are within the number of relays.
FirstTime(n, x) == x.leader = n /\ active_round[n] = x /\ joins[n][x] = 1
Within(n, x)    == joins[n][x] + Cardinality(Unread(n, x)) <= Cardinality(Relays)

LEMMA CopiesStep ==
  ASSUME IInv, CopiesLeft, Next PROVE CopiesLeft'
<1>0. /\ TypeOK /\ active_round \in [Nodes -> RoundIds \cup {NoRound}]
      /\ \A n \in Nodes, x \in RoundIds :
           /\ joins[n][x] \in Nat /\ Unread(n, x) \subseteq Relays /\ Unread(n, x)' \subseteq Relays
           /\ FirstTime(n, x) \/ Within(n, x)
  BY DEF IInv, TypeOK, Unread, CopiesLeft, FirstTime, Within
<1>1. SUFFICES \A n \in Nodes, x \in RoundIds : FirstTime(n, x)' \/ Within(n, x)'
  BY DEF CopiesLeft, FirstTime, Within
<1>2. ASSUME NEW n \in Nodes, NEW x \in RoundIds, Within(n, x),
             joins'[n][x] = joins[n][x], Unread(n, x)' \subseteq Unread(n, x)
      PROVE  Within(n, x)'
  <2>1. /\ Cardinality(Unread(n, x)') \in Nat /\ Cardinality(Unread(n, x)) \in Nat
        /\ Cardinality(Relays) \in Nat /\ Cardinality(Unread(n, x)') <= Cardinality(Unread(n, x))
    BY <1>0, <1>2, UnreadCount
  <2>. QED  BY <1>0, <1>2, <2>1 DEF Within
<1>3. ASSUME NEW n \in Nodes, NEW x \in RoundIds, active_round'[n] = active_round[n],
             joins'[n][x] = joins[n][x], Unread(n, x)' \subseteq Unread(n, x)
      PROVE  FirstTime(n, x)' \/ Within(n, x)'
  BY <1>0, <1>2, <1>3 DEF FirstTime
<1>4. ASSUME NEW n \in Nodes, StartRound(n), NEW o \in Nodes, NEW x \in RoundIds
      PROVE  FirstTime(o, x)' \/ Within(o, x)'
  <2>0. PICK round \in RoundIds, m \in Messages : Starts(n, m, round)
    BY <1>0, <1>4, StartFacts
  <2>1. /\ round = [leader |-> n, nr |-> started[n] + 1] /\ m.round = round
        /\ active_round[n] = NoRound /\ SetActive(n, round) /\ Publish({m})
        /\ started' = [started EXCEPT ![n] = @ + 1]
    BY <2>0 DEF Starts
  <2>2. /\ active_round'[n] = round
        /\ \A p \in Nodes \ {n} : active_round'[p] = active_round[p]
        /\ \A p \in Nodes, y \in RoundIds : p # n \/ y # round => joins'[p][y] = joins[p][y]
        /\ joins'[n][round] = joins[n][round] + 1
    BY <1>0, <2>1, SetActiveFacts, NoRoundApart
  <2>3. CASE x = round
    <3>1. joins[o][round] = 0
      BY <1>0, <2>1, OtherStarts, NewRound
    <3>2. CASE o = n
      BY <2>1, <2>2, <2>3, <3>1, <3>2 DEF FirstTime
    <3>3. CASE o # n
      <4>1. joins'[o][x] = 0
        BY <2>2, <2>3, <3>1, <3>3
      <4>2. /\ Cardinality(Unread(o, x)') \in Nat /\ Cardinality(Relays) \in Nat
            /\ Cardinality(Unread(o, x)') <= Cardinality(Relays)
        BY <1>0, UnreadCount
      <4>. QED  BY <4>1, <4>2 DEF Within
    <3>. QED  BY <3>2, <3>3
  <2>4. CASE x # round
    <3>1. Unread(o, x)' = Unread(o, x)
      BY <1>0, <2>1, <2>4, PublishHas DEF Unread
    <3>2. joins'[o][x] = joins[o][x]
      BY <2>2, <2>4
    <3>3. Within(o, x) \/ active_round'[o] = active_round[o]
      BY <1>0, <2>1, <2>2, NoRoundApart DEF FirstTime
    <3>. QED  BY <1>2, <1>3, <3>1, <3>2, <3>3
  <2>. QED  BY <2>3, <2>4
<1>5. ASSUME NEW n \in Nodes, NEW r \in Relays, Read(n, r), NEW o \in Nodes, NEW x \in RoundIds
      PROVE  FirstTime(o, x)' \/ Within(o, x)'
  <2>0. PICK m \in Messages, round \in RoundIds \cup {NoRound} : Reads(n, r, m, round)
    BY <1>0, <1>5, ReadFacts
  <2>1. /\ pipe[r][n] # <<>> /\ m = Head(pipe[r][n]) /\ SetActive(n, round)
        /\ \/ m.type = "GEN_START" /\ active_round[n] = NoRound /\ round = m.round
           \/ m.type = "GEN_DONE" /\ active_round[n] = m.round /\ round = NoRound
           \/ round = active_round[n]
        /\ pipe'[r][n] = Tail(pipe[r][n])
        /\ \A q \in Relays, p \in Nodes : q # r \/ p # n => pipe'[q][p] = pipe[q][p]
    BY <2>0 DEF Reads
  <2>2. /\ active_round'[n] = round
        /\ \A p \in Nodes \ {n} : active_round'[p] = active_round[p]
        /\ \A p \in Nodes, y \in RoundIds :
             p # n \/ y # round \/ round = active_round[n] => joins'[p][y] = joins[p][y]
        /\ round \in RoundIds /\ round # active_round[n] => joins'[n][round] = joins[n][round] + 1
    BY <1>0, <2>1, SetActiveFacts
  <2>3. /\ Has(pipe[r][n], m.type, m.round) /\ ~Has(pipe'[r][n], "GEN_START", m.round)
        /\ \A y \in RoundIds : \A type \in {"GEN_START", "GEN_DONE"} :
             /\ Has(pipe'[r][n], type, y) => Has(pipe[r][n], type, y)
             /\ type # m.type \/ y # m.round =>
                  (Has(pipe'[r][n], type, y) <=> Has(pipe[r][n], type, y))
    BY <1>5, <2>1, ReadHas
  <2>4. m.round \in RoundIds /\ m.round # NoRound
    BY MessageParts
  <2>5. Unread(o, x)' \subseteq Unread(o, x)
    <3>. SUFFICES ASSUME NEW q \in Relays, Has(pipe'[q][o], "GEN_START", x)
                  PROVE  Has(pipe[q][o], "GEN_START", x)
      BY DEF Unread
    <3>1. CASE q = r /\ o = n
      BY <2>3, <3>1
    <3>2. CASE q # r \/ o # n
      <4>1. pipe'[q][o] = pipe[q][o]
        BY <2>1, <3>2
      <4>. QED  BY <4>1
    <3>. QED  BY <3>1, <3>2
  <2>6. CASE o # n \/ round = active_round[n]
    BY <1>3, <2>2, <2>5, <2>6
  <2>7. CASE o = n /\ m.type = "GEN_START" /\ active_round[n] = NoRound /\ round = m.round
    <3>1. Within(n, x)
      BY <1>0, <2>7, NoRoundApart DEF FirstTime
    <3>2. CASE x # round
      BY <1>2, <2>2, <2>5, <2>7, <3>1, <3>2
    <3>3. CASE x = round
      <4>1. r \in Unread(n, x) /\ r \notin Unread(n, x)'
        BY <2>3, <2>7, <3>3 DEF Unread
      <4>2. Unread(n, x)' \subseteq Unread(n, x) \ {r}
        BY <2>5, <2>7, <4>1
      <4>3. Cardinality(Unread(n, x) \ {r}) + 1 = Cardinality(Unread(n, x))
        BY <1>0, <4>1, UnreadCount
      <4>4. Unread(n, x) \ {r} \subseteq Relays
        BY <1>0
      <4>5. /\ Cardinality(Unread(n, x)') \in Nat /\ Cardinality(Unread(n, x) \ {r}) \in Nat
            /\ Cardinality(Unread(n, x)') <= Cardinality(Unread(n, x) \ {r})
            /\ Cardinality(Relays) \in Nat
        BY <4>2, <4>4, UnreadCount
      <4>6. joins'[n][x] = joins[n][x] + 1 /\ joins[n][x] \in Nat
        BY <1>0, <2>2, <2>4, <2>7, <3>3
      <4>. QED  BY <2>7, <3>1, <4>3, <4>5, <4>6 DEF Within
    <3>. QED  BY <3>2, <3>3
  <2>8. CASE o = n /\ m.type = "GEN_DONE" /\ active_round[n] = m.round /\ round = NoRound
    <3>1. joins'[n][x] = joins[n][x]
      BY <2>2, <2>8, NoRoundApart
    <3>2. CASE Within(n, x)
      BY <1>2, <2>5, <2>8, <3>1, <3>2
    <3>3. CASE FirstTime(n, x)
      <4>1. x = m.round /\ joins[n][x] = 1
        BY <2>8, <3>3 DEF FirstTime
      <4>2. r \notin Unread(n, x)'
        BY <2>3, <4>1 DEF Unread
      <4>3. /\ Cardinality(Unread(n, x)') + 1 <= Cardinality(Relays)
            /\ Cardinality(Unread(n, x)') \in Nat /\ Cardinality(Relays) \in Nat
        BY <1>0, <4>2, UnreadCount
      <4>. QED  BY <2>8, <3>1, <4>1, <4>3 DEF Within
    <3>. QED  BY <1>0, <3>2, <3>3
  <2>. QED  BY <2>1, <2>6, <2>7, <2>8
<1>6. ASSUME NEW n \in Nodes, LeaderTimeout(n) \/ Crash(n), NEW o \in Nodes, NEW x \in RoundIds
      PROVE  FirstTime(o, x)' \/ Within(o, x)'
  <2>1. SetActive(n, NoRound)
    BY <1>6 DEF LeaderTimeout, Crash
  <2>2. /\ \A p \in Nodes \ {n} : active_round'[p] = active_round[p]
        /\ \A p \in Nodes, y \in RoundIds : joins'[p][y] = joins[p][y]
    BY <1>0, <2>1, SetActiveFacts, NoRoundApart
  <2>3. CASE LeaderTimeout(n)
    <3>1. pipe' = pipe /\ active_round[n].leader # n
      BY <2>3 DEF LeaderTimeout
    <3>2. Unread(o, x)' = Unread(o, x)
      BY <3>1 DEF Unread
    <3>3. Within(o, x) \/ active_round'[o] = active_round[o]
      BY <1>0, <2>2, <3>1 DEF FirstTime
    <3>. QED  BY <1>2, <1>3, <2>2, <3>2, <3>3
  <2>4. CASE Crash(n)
    <3>1. /\ \A r \in Relays : pipe'[r][n] = <<>>
          /\ \A r \in Relays, p \in Nodes \ {n} : pipe'[r][p] = pipe[r][p]
      BY <1>0, <2>4, CrashFacts
    <3>2. CASE o # n
      <4>1. Unread(o, x)' = Unread(o, x)
        <5>1. \A r \in Relays : pipe'[r][o] = pipe[r][o]
          BY <3>1, <3>2
        <5>. QED  BY <5>1 DEF Unread
      <4>. QED  BY <1>3, <2>2, <3>2, <4>1
    <3>3. CASE o = n
      <4>1. Unread(o, x)' = {}
        BY <3>1, <3>3 DEF Unread, Has
      <4>2. Cardinality(Unread(o, x)') = 0
        BY <4>1, FS_EmptySet
      <4>3. /\ Cardinality(Unread(o, x)) \in Nat
            /\ Cardinality(Relays) \in Nat /\ 1 <= Cardinality(Relays)
        BY <1>0, UnreadCount
      <4>4. joins[o][x] \in Nat /\ joins[o][x] <= Cardinality(Relays)
        BY <1>0, <4>3 DEF FirstTime, Within
      <4>. QED  BY <2>2, <4>2, <4>4 DEF Within
    <3>. QED  BY <3>2, <3>3
  <2>. QED  BY <1>6, <2>3, <2>4
<1>7. ASSUME NEW n \in Nodes, EnterRound(n) \/ CompleteRound(n), NEW o \in Nodes, NEW x \in RoundIds
      PROVE  FirstTime(o, x)' \/ Within(o, x)'
  <2>1. UNCHANGED <<active_round, joins>>
    BY <1>7 DEF EnterRound, CompleteRound
  <2>2. Unread(o, x)' = Unread(o, x)
    <3>1. CASE pipe' = pipe
      BY <3>1 DEF Unread
    <3>2. ASSUME NEW m \in Messages, Publish({m}),
                 m = [type |-> "GEN_DONE", round |-> running[n], from |-> n]
          PROVE  Unread(o, x)' = Unread(o, x)
      <4>1. m.type = "GEN_DONE"
        BY <3>2
      <4>. QED  BY <1>0, <3>2, <4>1, PublishHas DEF Unread
    <3>3. \/ pipe' = pipe
          \/ \E m \in Messages : /\ m = [type |-> "GEN_DONE", round |-> running[n], from |-> n]
                                /\ Publish({m}) /\ is_round_leader(n)
      <4>1. CASE EnterRound(n)
        BY <4>1 DEF EnterRound
      <4>2. CASE CompleteRound(n)
        BY <1>0, <4>2, CompleteFacts
      <4>. QED  BY <1>7, <4>1, <4>2
    <3>. QED  BY <3>1, <3>2, <3>3
  <2>. QED  BY <1>3, <2>1, <2>2
<1>. QED  BY <1>4, <1>5, <1>6, <1>7 DEF Next

-----------------------------------------------------------------------------
(* The end of a round reaches whoever is in it. *)

\* What EndFollows says of one node and one round that is over.
Reached(n, x) ==
  /\ active_round[n] = x => \E r \in Relays : Has(pipe[r][n], "GEN_DONE", x)
  /\ \A r \in Relays : Has(pipe[r][n], "GEN_START", x) => Has(pipe[r][n], "GEN_DONE", x)

LEMMA EndFollowsStep ==
  ASSUME IInv, EndFollows, Next PROVE EndFollows'
<1>0. /\ TypeOK /\ KnownRounds /\ up \subseteq Nodes
      /\ active_round \in [Nodes -> RoundIds \cup {NoRound}]
      /\ completed \in [Nodes -> SUBSET RoundIds]
      /\ \A x \in RoundIds : x.leader \in Nodes
      /\ losses = 0 => \A x \in RoundIds : Over(x) => \A n \in up : Reached(n, x)
  BY DEF IInv, TypeOK, EndFollows, Reached, RoundIds
<1>1. SUFFICES ASSUME losses' = 0, NEW x \in RoundIds, Over(x)', NEW o \in up'
               PROVE  Reached(o, x)'
  BY DEF EndFollows, Reached
<1>2. \* Nothing that x is told of changes for node o.
      ASSUME losses = 0, Over(x), o \in up, active_round'[o] = x => active_round[o] = x,
             \A r \in Relays : \A type \in {"GEN_START", "GEN_DONE"} :
               Has(pipe'[r][o], type, x) <=> Has(pipe[r][o], type, x)
      PROVE  Reached(o, x)'
  BY <1>0, <1>2 DEF Reached
<1>3. ASSUME NEW n \in Nodes, StartRound(n) PROVE Reached(o, x)'
  <2>0. PICK round \in RoundIds, m \in Messages : Starts(n, m, round)
    BY <1>0, <1>3, StartFacts
  <2>1. /\ round = [leader |-> n, nr |-> started[n] + 1]
        /\ m.round = round /\ m.type = "GEN_START"
        /\ active_round[n] = NoRound /\ SetActive(n, round) /\ Publish({m})
        /\ started' = [started EXCEPT ![n] = @ + 1] /\ UNCHANGED <<up, completed>>
    BY <2>0 DEF Starts
  <2>2. /\ active_round'[n] = round
        /\ \A p \in Nodes \ {n} : active_round'[p] = active_round[p]
    BY <1>0, <2>1, SetActiveFacts
  <2>3. /\ losses = 0
        /\ \A r \in Relays, p \in Nodes, y \in RoundIds : \A type \in {"GEN_START", "GEN_DONE"} :
             type # "GEN_START" \/ y # round =>
               (Has(pipe'[r][p], type, y) <=> Has(pipe[r][p], type, y))
    BY <1>0, <1>1, <2>1, PublishHas
  <2>4. ~Started(round) /\ \A y \in RoundIds \ {round} : y.nr <= started'[y.leader] => Started(y)
    BY <1>0, <2>1, OtherStarts
  <2>5. x # round
    <3>. SUFFICES ASSUME x = round PROVE FALSE
      OBVIOUS
    <3>1. round \notin completed'[n] /\ round.leader = n
      BY <1>0, <2>1, <2>4, NewRound
    <3>2. \A r \in Relays, p \in Nodes : ~Has(pipe'[r][p], "GEN_DONE", round)
      BY <2>3, <2>4, NewRound
    <3>. QED  BY <1>1, <2>2, <3>1, <3>2 DEF Over
  <2>6. Over(x)
    <3>1. CASE x \in completed'[x.leader]
      BY <2>1, <3>1 DEF Over
    <3>2. CASE \E r \in Relays, p \in Nodes : Has(pipe'[r][p], "GEN_DONE", x)
      BY <2>3, <3>2 DEF Over
    <3>3. CASE x.nr <= started'[x.leader] /\ x.leader \in up' /\ active_round'[x.leader] # x
      <4>1. active_round[x.leader] # x
        BY <1>0, <2>1, <2>2, <3>3, NoRoundApart
      <4>. QED  BY <2>1, <2>4, <2>5, <3>3, <4>1 DEF Over
    <3>. QED  BY <1>1, <3>1, <3>2, <3>3 DEF Over, Started
  <2>7. active_round'[o] = x => active_round[o] = x
    BY <1>0, <1>1, <2>1, <2>2, <2>5
  <2>8. o \in up /\ o \in Nodes
    BY <1>0, <1>1, <2>1
  <2>. QED  BY <1>2, <2>3, <2>5, <2>6, <2>7, <2>8
<1>4. ASSUME NEW n \in Nodes, NEW r \in Relays, Read(n, r) PROVE Reached(o, x)'
  <2>0. PICK m \in Messages, round \in RoundIds \cup {NoRound} : Reads(n, r, m, round)
    BY <1>0, <1>4, ReadFacts
  <2>1. /\ pipe[r][n] # <<>> /\ m = Head(pipe[r][n]) /\ SetActive(n, round)
        /\ \/ m.type = "GEN_START" /\ active_round[n] = NoRound /\ round = m.round
           \/ m.type = "GEN_DONE" /\ active_round[n] = m.round /\ round = NoRound
           \/ /\ round = active_round[n]
              /\ m.type = "GEN_DONE" => active_round[n] # m.round
        /\ pipe'[r][n] = Tail(pipe[r][n])
        /\ \A q \in Relays, p \in Nodes : q # r \/ p # n => pipe'[q][p] = pipe[q][p]
        /\ UNCHANGED <<up, started, losses, completed>>
    BY <2>0 DEF Reads
  <2>2. /\ active_round'[n] = round
        /\ \A p \in Nodes \ {n} : active_round'[p] = active_round[p]
    BY <1>0, <2>1, SetActiveFacts
  <2>3. /\ Has(pipe[r][n], m.type, m.round) /\ ~Has(pipe'[r][n], "GEN_START", m.round)
        /\ \A y \in RoundIds : \A type \in {"GEN_START", "GEN_DONE"} :
             /\ Has(pipe'[r][n], type, y) => Has(pipe[r][n], type, y)
             /\ type # m.type \/ y # m.round =>
                  (Has(pipe'[r][n], type, y) <=> Has(pipe[r][n], type, y))
    BY <1>4, <2>1, ReadHas
  <2>4. m.round \in RoundIds /\ m.round # NoRound /\ o \in Nodes /\ o \in up
    BY <1>0, <1>1, <2>1, MessageParts
  <2>5. Over(x)
    <3>1. CASE x \in completed'[x.leader]
      BY <2>1, <3>1 DEF Over
    <3>2. ASSUME NEW q \in Relays, NEW p \in Nodes, Has(pipe'[q][p], "GEN_DONE", x)
          PROVE  Over(x)
      <4>1. Has(pipe[q][p], "GEN_DONE", x)
        <5>1. CASE q = r /\ p = n
          BY <2>3, <3>2, <5>1
        <5>2. CASE q # r \/ p # n
          BY <2>1, <3>2, <5>2
        <5>. QED  BY <5>1, <5>2
      <4>. QED  BY <4>1 DEF Over
    <3>3. CASE x.nr <= started'[x.leader] /\ x.leader \in up' /\ active_round'[x.leader] # x
      <4>1. CASE active_round[x.leader] # x
        BY <2>1, <3>3, <4>1 DEF Over, Started
      <4>2. CASE active_round[x.leader] = x
        <5>1. x.leader = n /\ round # active_round[n]
          BY <1>0, <2>2, <3>3, <4>2
        <5>2. m.type = "GEN_DONE" /\ m.round = x
          BY <2>1, <4>2, <5>1, NoRoundApart
        <5>. QED  BY <2>3, <5>2 DEF Over
      <4>. QED  BY <4>1, <4>2
    <3>. QED  BY <1>1, <3>1, <3>2, <3>3 DEF Over, Started
  <2>6. losses = 0 /\ Reached(o, x)
    BY <1>0, <1>1, <2>1, <2>4, <2>5
  <2>7. CASE o # n
    <3>1. active_round'[o] = active_round[o] /\ \A q \in Relays : pipe'[q][o] = pipe[q][o]
      BY <2>1, <2>2, <2>4, <2>7
    <3>. QED  BY <1>2, <2>4, <2>5, <2>6, <3>1
  <2>8. CASE o = n
    <3>1. ASSUME NEW q \in Relays, Has(pipe'[q][n], "GEN_START", x)
          PROVE  Has(pipe'[q][n], "GEN_DONE", x)
      <4>1. CASE q # r
        <5>1. pipe'[q][n] = pipe[q][n]
          BY <2>1, <4>1
        <5>. QED  BY <2>6, <2>8, <3>1, <5>1 DEF Reached
      <4>2. CASE q = r
        <5>1. Has(pipe[r][n], "GEN_START", x) /\ x # m.round
          BY <2>3, <3>1, <4>2
        <5>2. Has(pipe[r][n], "GEN_DONE", x)
          BY <2>6, <2>8, <5>1 DEF Reached
        <5>. QED  BY <2>3, <4>2, <5>1, <5>2
      <4>. QED  BY <4>1, <4>2
    <3>2. ASSUME active_round'[n] = x
          PROVE  \E q \in Relays : Has(pipe'[q][n], "GEN_DONE", x)
      <4>1. round = x /\ x # NoRound
        BY <2>2, <3>2, NoRoundApart
      <4>2. CASE m.type = "GEN_START" /\ active_round[n] = NoRound /\ round = m.round
        <5>1. Has(pipe[r][n], "GEN_DONE", x)
          BY <2>3, <2>6, <2>8, <4>1, <4>2 DEF Reached
        <5>2. Has(pipe'[r][n], "GEN_DONE", x)
          BY <2>3, <4>2, <5>1
        <5>. QED  BY <5>2
      <4>3. CASE round = active_round[n] /\ (m.type = "GEN_DONE" => active_round[n] # m.round)
        <5>1. PICK q \in Relays : Has(pipe[q][n], "GEN_DONE", x)
          BY <2>6, <2>8, <4>1, <4>3 DEF Reached
        <5>2. Has(pipe'[q][n], "GEN_DONE", x)
          <6>1. CASE q = r
            BY <2>3, <4>1, <4>3, <5>1, <6>1
          <6>2. CASE q # r
            BY <2>1, <5>1, <6>2
          <6>. QED  BY <6>1, <6>2
        <5>. QED  BY <5>2
      <4>. QED  BY <2>1, <4>1, <4>2, <4>3
    <3>. QED  BY <2>8, <3>1, <3>2 DEF Reached
  <2>. QED  BY <2>7, <2>8
<1>5. ASSUME NEW n \in Nodes, LeaderTimeout(n) PROVE Reached(o, x)'
  <2>1. /\ active_round[n].leader # n /\ SetActive(n, NoRound)
        /\ UNCHANGED <<up, started, pipe, losses, completed>>
    BY <1>5 DEF LeaderTimeout
  <2>2. /\ active_round'[n] = NoRound
        /\ \A p \in Nodes \ {n} : active_round'[p] = active_round[p]
    BY <1>0, <2>1, SetActiveFacts
  <2>3. Over(x)
    <3>1. active_round'[x.leader] # x => active_round[x.leader] # x
      BY <1>0, <2>1, <2>2
    <3>. QED  BY <1>1, <2>1, <3>1 DEF Over, Started
  <2>4. active_round'[o] = x => active_round[o] = x
    BY <1>0, <1>1, <2>1, <2>2, NoRoundApart
  <2>. QED  BY <1>1, <1>2, <2>1, <2>3, <2>4
<1>6. ASSUME NEW n \in Nodes, Crash(n) PROVE Reached(o, x)'
  <2>1. /\ SetActive(n, NoRound) /\ up' = up \ {n}
        /\ \A r \in Relays : pipe'[r][n] = <<>>
        /\ \A r \in Relays, p \in Nodes \ {n} : pipe'[r][p] = pipe[r][p]
        /\ UNCHANGED <<started, losses, completed>>
    BY <1>0, <1>6, CrashFacts
  <2>2. \A p \in Nodes \ {n} : active_round'[p] = active_round[p]
    BY <1>0, <2>1, SetActiveFacts
  <2>3. o \in up /\ o \in Nodes \ {n}
    BY <1>0, <1>1, <2>1
  <2>4. Over(x)
    <3>1. CASE x \in completed'[x.leader]
      BY <2>1, <3>1 DEF Over
    <3>2. ASSUME NEW q \in Relays, NEW p \in Nodes, Has(pipe'[q][p], "GEN_DONE", x)
          PROVE  Over(x)
      <4>1. p # n
        BY <2>1, <3>2 DEF Has
      <4>2. Has(pipe[q][p], "GEN_DONE", x)
        BY <2>1, <3>2, <4>1
      <4>. QED  BY <4>2 DEF Over
    <3>3. CASE x.nr <= started'[x.leader] /\ x.leader \in up' /\ active_round'[x.leader] # x
      BY <1>0, <2>1, <2>2, <3>3 DEF Over, Started
    <3>. QED  BY <1>1, <3>1, <3>2, <3>3 DEF Over, Started
  <2>5. active_round'[o] = active_round[o] /\ \A r \in Relays : pipe'[r][o] = pipe[r][o]
    BY <2>1, <2>2, <2>3
  <2>. QED  BY <1>1, <1>2, <2>1, <2>3, <2>4, <2>5
<1>7. ASSUME NEW n \in Nodes, EnterRound(n) PROVE Reached(o, x)'
  <2>1. UNCHANGED <<up, active_round, started, pipe, losses, completed>>
    BY <1>7 DEF EnterRound
  <2>2. Over(x)
    BY <1>1, <2>1 DEF Over, Started
  <2>. QED  BY <1>1, <1>2, <2>1, <2>2
<1>8. ASSUME NEW n \in Nodes, CompleteRound(n) PROVE Reached(o, x)'
  <2>1. /\ running[n] \in RoundIds /\ running[n] # NoRound /\ n \in up
        /\ completed' = [completed EXCEPT ![n] = @ \cup {running[n]}]
        /\ UNCHANGED <<up, active_round, started>>
    BY <1>0, <1>8, CompleteFacts
  <2>2. /\ o \in up /\ o \in Nodes
        /\ x \in completed'[x.leader] =>
             x \in completed[x.leader] \/ (x = running[n] /\ x.leader = n)
    BY <1>0, <1>1, <2>1
  <2>3. CASE ~is_round_leader(n)
    <3>1. Publish({})
      BY <1>8, <2>3 DEF CompleteRound, DoneNotice
    <3>2. pipe' = pipe /\ losses' = losses
      BY <1>0, <3>1, PublishNone
    <3>3. Over(x)
      <4>1. CASE x = running[n] /\ x.leader = n
        <5>1. Started(x)
          BY <1>0, <2>1, <4>1 DEF KnownRounds
        <5>2. active_round[n] # x
          BY <2>1, <2>3, <4>1 DEF is_round_leader
        <5>. QED  BY <2>1, <4>1, <5>1, <5>2 DEF Over
      <4>2. CASE ~(x = running[n] /\ x.leader = n)
        BY <1>1, <2>1, <2>2, <3>2, <4>2 DEF Over, Started
      <4>. QED  BY <4>1, <4>2
    <3>. QED  BY <1>1, <1>2, <2>1, <2>2, <3>2, <3>3
  <2>4. CASE is_round_leader(n)
    <3>. DEFINE m == [type |-> "GEN_DONE", round |-> running[n], from |-> n]
    <3>1. m \in Messages /\ m.type = "GEN_DONE" /\ m.round = running[n]
      BY <2>1 DEF Messages
    <3>2. Publish({m})
      BY <1>8, <2>4 DEF CompleteRound, DoneNotice
    <3>. HIDE DEF m
    <3>3. /\ losses = 0
          /\ \A r \in Relays, p \in up : Has(pipe'[r][p], "GEN_DONE", running[n])
          /\ \A r \in Relays, p \in Nodes, y \in RoundIds : \A type \in {"GEN_START", "GEN_DONE"} :
               type # "GEN_DONE" \/ y # running[n] =>
                 (Has(pipe'[r][p], type, y) <=> Has(pipe[r][p], type, y))
      BY <1>0, <1>1, <3>1, <3>2, PublishHas
    <3>4. CASE x = running[n]
      <4>1. \A r \in Relays : Has(pipe'[r][o], "GEN_DONE", x)
        BY <2>2, <3>3, <3>4
      <4>. QED  BY <4>1, RoundsConstants DEF Reached
    <3>5. CASE x # running[n]
      <4>1. Over(x)
        <5>1. CASE x \in completed'[x.leader]
          BY <2>2, <3>5, <5>1 DEF Over
        <5>2. CASE \E r \in Relays, p \in Nodes : Has(pipe'[r][p], "GEN_DONE", x)
          BY <3>3, <3>5, <5>2 DEF Over
        <5>3. CASE x.nr <= started'[x.leader] /\ x.leader \in up' /\ active_round'[x.leader] # x
          BY <2>1, <5>3 DEF Over, Started
        <5>. QED  BY <1>1, <5>1, <5>2, <5>3 DEF Over, Started
      <4>. QED  BY <1>2, <2>1, <2>2, <3>3, <3>5, <4>1
    <3>. QED  BY <3>4, <3>5
  <2>. QED  BY <2>3, <2>4
<1>. QED  BY <1>3, <1>4, <1>5, <1>6, <1>7, <1>8 DEF Next

-----------------------------------------------------------------------------
(* The theorems. *)

\* Types, and that no message names a round its leader has not started.
THEOREM RoundsTypeCorrect == Spec => []TypeOK
<1>1. IInv => TypeOK
  BY DEF IInv
<1>. QED  BY <1>1, InvariantInit, InvariantStep, PTL DEF Spec

\* The first GEN_START wins: with any number of relays, initiators, losses and
\* crashes a node changes rounds only by way of none.
THEOREM ActiveRoundIsLocked == Spec => RoundLocked
<1>1. IInv /\ [Next]_vars =>
        [\A n \in Nodes : active_round[n] # NoRound =>
           active_round'[n] \in {active_round[n], NoRound}]_vars
  <2>. SUFFICES ASSUME TypeOK, Next, NEW o \in Nodes, active_round[o] # NoRound
                PROVE  active_round'[o] \in {active_round[o], NoRound}
    BY DEF IInv
  <2>1. PICK n \in Nodes :
          \/ StartRound(n) \/ EnterRound(n) \/ LeaderTimeout(n) \/ CompleteRound(n) \/ Crash(n)
          \/ \E r \in Relays : Read(n, r)
    BY DEF Next
  <2>2. CASE EnterRound(n) \/ CompleteRound(n)
    BY <2>2 DEF EnterRound, CompleteRound
  <2>3. CASE LeaderTimeout(n) \/ Crash(n) \/ StartRound(n)
    BY <2>3 DEF LeaderTimeout, Crash, StartRound, SetActive, TypeOK
  <2>4. ASSUME NEW r \in Relays, Read(n, r)
        PROVE  active_round'[o] \in {active_round[o], NoRound}
    <3>1. PICK m \in Messages, round \in RoundIds \cup {NoRound} : Reads(n, r, m, round)
      BY <2>4, ReadFacts
    <3>2. /\ SetActive(n, round)
          /\ active_round[n] # NoRound => round \in {active_round[n], NoRound}
      BY <3>1 DEF Reads
    <3>. QED  BY <3>2, SetActiveFacts
  <2>. QED  BY <2>1, <2>2, <2>3, <2>4
<1>. QED  BY <1>1, InvariantInit, InvariantStep, PTL DEF Spec, RoundLocked

\* Whoever announces the end of a round it does not lead has joined a round of
\* its own a second time: only the copy of GEN_START that a second relay keeps
\* makes run_round name a round of somebody else (generation.py).
THEOREM RejoinBehindForeignDone == Spec => []ForeignDoneNeedsRejoin
<1>. DEFINE Inv == IInv /\ OwnJoined /\ RunsOwn /\ ForeignDoneNeedsRejoin
<1>1. Init => Inv
  <2>. SUFFICES ASSUME Init PROVE OwnJoined /\ RunsOwn /\ ForeignDoneNeedsRejoin
    BY InvariantInit
  <2>. QED  BY DEF Init, OwnJoined, Started, RunsOwn, is_round_leader, ForeignDoneNeedsRejoin, RoundIds
<1>2. Inv /\ [Next]_vars => Inv'
  <2>. SUFFICES ASSUME Inv, [Next]_vars PROVE Inv'
    OBVIOUS
  <2>1. IInv'
    BY InvariantStep
  <2>2. CASE Next
    BY <2>1, <2>2, RejoinStep, ForeignDoneStep
  <2>3. CASE UNCHANGED vars
    BY <2>1, <2>3 DEF vars, OwnJoined, Started, RunsOwn, is_round_leader, ForeignDoneNeedsRejoin
  <2>. QED  BY <2>2, <2>3
<1>. QED  BY <1>1, <1>2, PTL DEF Spec

\* However many rounds are started, copies lost and nodes crashed, a node is in
\* one round at most once per relay: a copy of GEN_START that comes late brings
\* a finished round back (round.py remembers none), and is then used up.
THEOREM RejoinsBounded == Spec => []JoinsPerCopy
<1>. DEFINE Inv == IInv /\ CopiesLeft
<1>1. Init => Inv
  <2>. SUFFICES ASSUME Init, NEW n \in Nodes, NEW x \in RoundIds
                PROVE  joins[n][x] + Cardinality(Unread(n, x)) <= Cardinality(Relays)
    BY InvariantInit DEF CopiesLeft
  <2>1. joins[n][x] = 0 /\ Unread(n, x) \subseteq Relays
    BY DEF Init, Unread
  <2>2. /\ Cardinality(Unread(n, x)) \in Nat /\ Cardinality(Relays) \in Nat
        /\ Cardinality(Unread(n, x)) <= Cardinality(Relays)
    BY <2>1, UnreadCount
  <2>. QED  BY <2>1, <2>2
<1>2. Inv /\ [Next]_vars => Inv'
  <2>. SUFFICES ASSUME Inv, [Next]_vars PROVE Inv'
    OBVIOUS
  <2>1. IInv'
    BY InvariantStep
  <2>2. CASE Next
    BY <2>1, <2>2, CopiesStep
  <2>3. CASE UNCHANGED vars
    BY <2>1, <2>3 DEF vars, CopiesLeft, Unread
  <2>. QED  BY <2>2, <2>3
<1>3. Inv => JoinsPerCopy
  <2>. SUFFICES ASSUME Inv, NEW n \in Nodes, NEW x \in RoundIds
                PROVE  joins[n][x] <= Cardinality(Relays)
    BY DEF JoinsPerCopy
  <2>1. joins[n][x] \in Nat /\ Unread(n, x) \subseteq Relays
    BY DEF IInv, TypeOK, Unread
  <2>2. /\ Cardinality(Unread(n, x)) \in Nat /\ Cardinality(Relays) \in Nat
        /\ 1 <= Cardinality(Relays)
    BY <2>1, UnreadCount
  <2>. QED  BY <2>1, <2>2 DEF CopiesLeft
<1>. QED  BY <1>1, <1>2, <1>3, PTL DEF Spec

\* As long as no copy is lost, whoever is in a round that its leader has completed
\* still has a GEN_DONE of it to read, brought back by a late GEN_START or not.
THEOREM NobodyLeftBehind == Spec => []EndUnderWay
<1>. DEFINE Inv == IInv /\ EndFollows
<1>1. Init => Inv
  <2>. SUFFICES ASSUME Init, NEW n \in Nodes, NEW x \in RoundIds
                PROVE  /\ active_round[n] # x
                       /\ \A r \in Relays : ~Has(pipe[r][n], "GEN_START", x)
    BY InvariantInit DEF EndFollows, Init
  <2>. QED  BY NoRoundApart DEF Init, Has
<1>2. Inv /\ [Next]_vars => Inv'
  <2>. SUFFICES ASSUME Inv, [Next]_vars PROVE Inv'
    OBVIOUS
  <2>1. IInv'
    BY InvariantStep
  <2>2. CASE Next
    BY <2>1, <2>2, EndFollowsStep
  <2>3. CASE UNCHANGED vars
    BY <2>1, <2>3 DEF vars, EndFollows, Over, Started
  <2>. QED  BY <2>2, <2>3
<1>3. Inv => EndUnderWay
  <2>. SUFFICES ASSUME Inv, losses = 0, NEW n \in Nodes, NEW x \in RoundIds,
                       active_round[n] = x, x \in completed[x.leader]
                PROVE  \E r \in Relays : Has(pipe[r][n], "GEN_DONE", x)
    BY DEF EndUnderWay
  <2>1. n \in up
    BY NoRoundApart DEF IInv, TypeOK
  <2>. QED  BY <2>1 DEF EndFollows, Over
<1>. QED  BY <1>1, <1>2, <1>3, PTL DEF Spec

=============================================================================
