-------------------------- MODULE GenerationProofs --------------------------
(***************************************************************************)
(* Theorems about Generation, for any participants, relays, links, tokens, *)
(* probabilities and lengths: its type invariant, its barrier and its      *)
(* agreement.                                                              *)
(***************************************************************************)
EXTENDS GenerationInvariants, StopDetectionProofs, TLAPS

-----------------------------------------------------------------------------
(* The type invariant. *)

\* A partial function is one whose domain and values lie in the two sets.
LEMMA PartialIff ==
  ASSUME NEW S, NEW T, NEW f
  PROVE  f \in Partial(S, T) <=> f \in [DOMAIN f -> T] /\ DOMAIN f \subseteq S
  BY DEF Partial

LEMMA Sizes ==
  /\ NumBlocks \in Nat \ {0} /\ StepsPerBlock \in Nat \ {0}
  /\ GenPos \subseteq AllPos /\ GenPos \subseteq Nat /\ AllPos \subseteq Nat
  /\ DOMAIN Prompt \subseteq AllPos
<1>1. NumBlocks \in Nat \ {0}
  BY StopConstants, GenerationConstants DEF NumBlocks
<1>2. StepsPerBlock \in Nat \ {0}
  BY <1>1, GenerationConstants DEF StepsPerBlock
<1>. QED  BY <1>1, <1>2, StopConstants, GenerationConstants DEF GenPos, AllPos, GenEnd

\* The blocks lie within the generated positions.
LEMMA BlockInRange ==
  ASSUME NEW b \in 0 .. NumBlocks - 1
  PROVE  BlockPos(b) \subseteq GenPos
<1>1. NumBlocks * BlockLength <= GenLength
  BY StopConstants, GenerationConstants DEF NumBlocks
<1>2. b * BlockLength \in Nat /\ (b + 1) * BlockLength <= NumBlocks * BlockLength
  BY Sizes, GenerationConstants
<1>3. (b + 1) * BlockLength \in Nat /\ NumBlocks * BlockLength \in Nat
  BY Sizes, GenerationConstants
<1>. QED  BY <1>1, <1>2, <1>3, StopConstants DEF BlockPos, BlockStart, GenPos, GenEnd

\* Membership in Dicts, without the union.
LEMMA DictIff ==
  ASSUME NEW f
  PROVE  f \in Dicts <=> f \in [DOMAIN f -> Tokens] /\ DOMAIN f \subseteq AllPos
  BY PartialIff DEF Dicts

\* One local step keeps the masked positions and the pending commits well-formed.
LEMMA DenoiseType ==
  ASSUME TypeOK, NEW n \in Nodes, Denoise(n)
  PROVE  /\ masked' \in [Nodes -> SUBSET GenPos]
         /\ pending' \in [Nodes -> Dicts]
<1>0. PICK remask \in RemaskSets(n), transfer \in TransferSets(n) :
        \E x0 \in [transfer -> Tokens] :
          /\ masked' = [masked EXCEPT ![n] = (@ \cup remask) \ transfer]
          /\ pending' = [pending EXCEPT ![n] = Overridden(@, x0)]
  BY DEF Denoise
<1>1. PICK x0 \in [transfer -> Tokens] :
        /\ masked' = [masked EXCEPT ![n] = (@ \cup remask) \ transfer]
        /\ pending' = [pending EXCEPT ![n] = Overridden(@, x0)]
  BY <1>0
<1>2. remask \subseteq GenPos
  <2>1. remask \subseteq BlockPos(block[n])
    BY DEF RemaskSets
  <2>2. BlockPos(block[n]) \subseteq GenPos
    BY BlockInRange DEF TypeOK
  <2>. QED  BY <2>1, <2>2
<1>3. Overridden(pending[n], x0) \in Dicts
  <2>1. transfer \subseteq AllPos /\ DOMAIN x0 = transfer
    BY DEF TransferSets
  <2>2. pending[n] \in [DOMAIN pending[n] -> Tokens] /\ DOMAIN pending[n] \subseteq AllPos
    BY DictIff DEF TypeOK
  <2>3. /\ DOMAIN Overridden(pending[n], x0) = DOMAIN pending[n] \cup transfer
        /\ Overridden(pending[n], x0) \in [DOMAIN pending[n] \cup transfer -> Tokens]
    BY <2>1, <2>2 DEF Overridden
  <2>. QED  BY <2>1, <2>2, <2>3, DictIff
<1>4. masked' \in [Nodes -> SUBSET GenPos]
  BY <1>1, <1>2 DEF TypeOK
<1>5. pending' \in [Nodes -> Dicts]
  BY <1>1, <1>3 DEF TypeOK
<1>. QED  BY <1>4, <1>5

\* The commits a node has collected are dicts of participants.
LEMMA AllCommitsType ==
  ASSUME TypeOK, NEW n \in Nodes,
         \A m \in received[n] : m.type = "COMMIT" /\ m.from \in Nodes
  PROVE  AllCommits(n) \in Partial(Nodes, Dicts)
<1>. DEFINE D == {n} \cup Senders(received[n])
<1>1. D \subseteq Nodes
  BY DEF Senders
<1>2. ASSUME NEW o \in D, o # n
      PROVE  (CHOOSE m \in received[n] : m.from = o).commits \in Dicts
  <2>1. \E m \in received[n] : m.from = o
    BY <1>2 DEF Senders
  <2>2. PICK m \in received[n] : m = CHOOSE y \in received[n] : y.from = o
    BY <2>1
  <2>3. m \in Message /\ m.type = "COMMIT"
    BY DEF TypeOK
  <2>. QED  BY <2>2, <2>3 DEF Message
<1>3. AllCommits(n) \in [D -> Dicts]
  BY <1>2 DEF AllCommits, TypeOK
<1>. QED  BY <1>1, <1>3, PartialIff

\* The positions somebody committed are positions of the sequence.
LEMMA ProposedType ==
  ASSUME NEW all \in Partial(Nodes, Dicts)
  PROVE  ProposedPositions(all) \subseteq AllPos
<1>1. all \in [DOMAIN all -> Dicts]
  BY PartialIff
<1>. QED  BY <1>1, DictIff DEF ProposedPositions

\* The scores a node publishes concern positions of the sequence and tokens.
LEMMA ScoresType ==
  ASSUME NEW all \in Partial(Nodes, Dicts), NEW s \in ScoresFor(detect_disputes(all))
  PROVE  s \in Partial(AllPos, Partial(Tokens, Levels))
<1>1. DOMAIN detect_disputes(all) \subseteq AllPos
  BY ProposedType DEF detect_disputes
<1>2. s \in [DOMAIN detect_disputes(all) -> Partial(Tokens, Levels)]
  BY DEF ScoresFor, Partial
<1>3. DOMAIN s = DOMAIN detect_disputes(all)
  BY <1>2
<1>. QED  BY <1>1, <1>2, <1>3, PartialIff

\* Reading a copy keeps the inbox and the record of what was read well-formed.
LEMMA TakeType ==
  ASSUME TypeOK, NEW n \in Nodes, NEW c, Take(n, c)
  PROVE  /\ c \in Relays \X sent /\ c[2] \in sent
         /\ read' \in [Nodes -> SUBSET (Relays \X sent)]
         /\ inbox' \in [Nodes -> SUBSET sent]
<1>1. c \in Relays \X sent /\ c[2] \in sent
  BY DEF Take, InFlight
<1>2. Filed(inbox[n], c[2]) \subseteq sent
  BY <1>1 DEF Filed, TypeOK
<1>3. read' \in [Nodes -> SUBSET (Relays \X sent)]
  BY <1>1 DEF Take, TypeOK
<1>4. inbox' \in [Nodes -> SUBSET sent]
  BY <1>2 DEF Take, TypeOK
<1>. QED  BY <1>1, <1>3, <1>4

\* pump_once keeps, in addition, the record of the active round well-formed.
LEMMA PumpType ==
  ASSUME TypeOK, NEW n \in Nodes, NEW c, Pump(n, c)
  PROVE  /\ c[2] \in sent
         /\ read' \in [Nodes -> SUBSET (Relays \X sent)]
         /\ inbox' \in [Nodes -> SUBSET sent]
         /\ round' \in [Nodes -> BOOLEAN]
<1>1. Take(n, c)
  BY DEF Pump
<1>2. RoundAfter(round[n], c[2]) \in BOOLEAN
  BY DEF RoundAfter, TypeOK
<1>3. round' \in [Nodes -> BOOLEAN]
  BY <1>2 DEF Pump, TypeOK
<1>. QED  BY <1>1, <1>3, TakeType

\* The end of a sync leaves everything it assigns well-formed.
LEMMA FinishType ==
  ASSUME TypeOK, NEW n \in Nodes, NEW all \in Partial(Nodes, Dicts), NEW res,
         FinishSync(n, all, res)
  PROVE  /\ pc' \in [Nodes -> {"idle"} \cup Running \cup Finished]
         /\ block' \in [Nodes -> 0 .. NumBlocks - 1]
         /\ step' \in [Nodes -> 0 .. StepsPerBlock - 1]
         /\ seq' \in [Nodes -> Nat]
         /\ masked' \in [Nodes -> SUBSET GenPos]
         /\ pending' \in [Nodes -> Dicts]
         /\ DOMAIN shared' = Nodes /\ \A m \in Nodes : DOMAIN shared'[m] \subseteq AllPos
         /\ det' \in [Nodes -> Detectors]
         /\ sent \subseteq sent' /\ sent' \subseteq Message
<1>. DEFINE shared_x == merge_consensus(shared[n], all, res)
            d        == Check(det[n], shared_x)
            is_last  == step[n] = StepsPerBlock - 1
            ends     == is_last /\ ~HasNextBlock(block[n], d)
<1>1. /\ shared'  = [shared EXCEPT ![n] = shared_x]
      /\ det'     = [det EXCEPT ![n] = d]
      /\ seq'     = [seq EXCEPT ![n] = @ + 1]
      /\ pending' = [pending EXCEPT ![n] = NoEntries]
      /\ masked'  = [masked EXCEPT ![n] = @ \ (DOMAIN shared_x \cap BlockPos(block[n]))]
      /\ step'    = [step EXCEPT ![n] = IF is_last THEN 0 ELSE @ + 1]
      /\ block'   = [block EXCEPT ![n] = IF is_last /\ ~ends THEN @ + 1 ELSE @]
      /\ pc'      = [pc EXCEPT ![n] = IF ends THEN "done" ELSE "poll"]
      /\ sent'    = IF ends /\ n = Leader /\ round[n]
                    THEN sent \cup {[type |-> "GEN_DONE", from |-> n]} ELSE sent
  BY DEF FinishSync
<1>2. DOMAIN shared_x \subseteq AllPos
  <2>1. DOMAIN shared_x = DOMAIN shared[n] \cup ProposedPositions(all)
    BY DEF merge_consensus
  <2>. QED  BY <2>1, ProposedType DEF TypeOK
<1>3. d \in Detectors
  BY CheckType DEF TypeOK
<1>4. is_last /\ ~ends => block[n] + 1 < NumBlocks
  BY DEF HasNextBlock
<1>5. NoEntries \in Dicts
  BY DictIff DEF NoEntries
<1>. HIDE DEF shared_x, d
<1>6. pc' \in [Nodes -> {"idle"} \cup Running \cup Finished]
  BY <1>1 DEF TypeOK, Running, Finished
<1>7. block' \in [Nodes -> 0 .. NumBlocks - 1]
  <2>1. block \in [Nodes -> 0 .. NumBlocks - 1]
    BY DEF TypeOK
  <2>2. (IF is_last /\ ~ends THEN block[n] + 1 ELSE block[n]) \in 0 .. NumBlocks - 1
    BY <1>4, <2>1, Sizes
  <2>. HIDE DEF is_last, ends
  <2>. QED  BY <1>1, <2>1, <2>2
<1>8. step' \in [Nodes -> 0 .. StepsPerBlock - 1]
  <2>1. step \in [Nodes -> 0 .. StepsPerBlock - 1]
    BY DEF TypeOK
  <2>2. (IF is_last THEN 0 ELSE step[n] + 1) \in 0 .. StepsPerBlock - 1
    BY <2>1, Sizes
  <2>. HIDE DEF is_last, ends
  <2>. QED  BY <1>1, <2>1, <2>2
<1>9. seq' \in [Nodes -> Nat] /\ masked' \in [Nodes -> SUBSET GenPos]
  BY <1>1 DEF TypeOK
<1>10. pending' \in [Nodes -> Dicts] /\ det' \in [Nodes -> Detectors]
  BY <1>1, <1>3, <1>5 DEF TypeOK
<1>11. DOMAIN shared' = Nodes /\ \A m \in Nodes : DOMAIN shared'[m] \subseteq AllPos
  BY <1>1, <1>2 DEF TypeOK
<1>12. sent \subseteq sent' /\ sent' \subseteq Message
  BY <1>1 DEF TypeOK, Message
<1>. QED  BY <1>6, <1>7, <1>8, <1>9, <1>10, <1>11, <1>12

LEMMA TypeInit == Init => TypeOK
<1>. SUFFICES ASSUME Init PROVE TypeOK
  OBVIOUS
<1>1. NoEntries \in Dicts /\ NoEntries \in Partial(Nodes, Dicts)
      /\ NoEntries \in Partial(AllPos, Partial(Tokens, Levels))
  BY PartialIff, DictIff DEF NoEntries
<1>2. NewDetector \in Detectors
  BY DEF NewDetector, Detectors
<1>3. DOMAIN shared = Nodes /\ \A n \in Nodes : DOMAIN shared[n] \subseteq AllPos
  BY Sizes DEF Init
<1>. QED  BY <1>1, <1>2, <1>3, Sizes DEF Init, TypeOK

\* What is waited for in a barrier, as the type of the collected messages.
LEMMA WantedCommits ==
  ASSUME TypeOK, ReceivedWanted, NEW n \in Nodes, pc[n] = "commits"
  PROVE  AllCommits(n) \in Partial(Nodes, Dicts)
  BY AllCommitsType DEF ReceivedWanted, IsReport, Others

LEMMA TypeStep ==
  ASSUME TypeOK, ReceivedWanted, [Next]_vars
  PROVE  TypeOK'
<1>1. CASE StartRound
  BY <1>1, GenerationConstants DEF StartRound, TypeOK, Message, Running, local
<1>2. ASSUME NEW n \in Nodes, WaitForRound(n) PROVE TypeOK'
  <2>1. PICK c \in InFlight(n) : Pump(n, c)
    BY <1>2 DEF WaitForRound
  <2>. QED  BY <1>2, <2>1, PumpType DEF WaitForRound, TypeOK, Running, local
<1>3. ASSUME NEW n \in Nodes, LeaderTimeout(n) PROVE TypeOK'
  <2>1. read' \in [Nodes -> SUBSET (Relays \X sent)] /\ inbox' \in [Nodes -> SUBSET sent]
    BY <1>3, TakeType DEF LeaderTimeout, TypeOK
  <2>. QED  BY <1>3, <2>1 DEF LeaderTimeout, TypeOK, Finished, local
<1>4. ASSUME NEW n \in Nodes, NEW type, Collect(n, type) PROVE TypeOK'
  <2>1. PICK c \in InFlight(n) :
          /\ Pump(n, c)
          /\ received' = [received EXCEPT ![n] =
               IF Same(c[2], type, seq[n]) /\ c[2].from \in Others(n)
               THEN Filed(@, c[2]) ELSE @]
    BY <1>4 DEF Collect
  <2>2. Filed(received[n], c[2]) \subseteq sent
    BY <2>1, PumpType DEF Filed, TypeOK
  <2>3. received' \in [Nodes -> SUBSET sent]
    BY <2>1, <2>2 DEF TypeOK
  <2>. QED  BY <1>4, <2>1, <2>3, PumpType DEF Collect, TypeOK, local
<1>5. ASSUME NEW n \in Nodes, Poll(n) PROVE TypeOK'
  <2>1. CASE PumpNothing
    BY <1>5, <2>1 DEF Poll, PumpNothing, TypeOK, Running, local
  <2>2. CASE \E c \in InFlight(n) : Pump(n, c)
    BY <1>5, <2>2, PumpType DEF Poll, TypeOK, Running, local
  <2>. QED  BY <1>5, <2>1, <2>2 DEF Poll
<1>6. ASSUME NEW n \in Nodes, LocalStep(n) PROVE TypeOK'
  <2>1. Denoise(n) /\ step[n] # StepsPerBlock - 1
    BY <1>6 DEF LocalStep, SyncPoint
  <2>2. step' \in [Nodes -> 0 .. StepsPerBlock - 1]
    BY <1>6, <2>1, Sizes DEF LocalStep, TypeOK
  <2>. QED  BY <1>6, <2>1, <2>2, DenoiseType DEF LocalStep, TypeOK, Running
<1>7. ASSUME NEW n \in Nodes, LocalStepThenSync(n) PROVE TypeOK'
  <2>. DEFINE msg == [type |-> "COMMIT", from |-> n, seq |-> seq[n], commits |-> pending'[n]]
  <2>1. masked' \in [Nodes -> SUBSET GenPos] /\ pending' \in [Nodes -> Dicts]
    BY <1>7, DenoiseType DEF LocalStepThenSync
  <2>2. msg \in Message
    BY <2>1 DEF Message, TypeOK
  <2>3. sent' = sent \cup {msg}
    BY <1>7 DEF LocalStepThenSync
  <2>. HIDE DEF msg
  <2>4. received' \in [Nodes -> SUBSET sent']
    BY <1>7, <2>3 DEF LocalStepThenSync, Bucket, TypeOK
  <2>. QED  BY <1>7, <2>1, <2>2, <2>3, <2>4 DEF LocalStepThenSync, TypeOK, Running
<1>8. ASSUME NEW n \in Nodes, EndCommitsAgreed(n) PROVE TypeOK'
  <2>1. pc[n] = "commits" /\ FinishSync(n, AllCommits(n), NoEntries)
    BY <1>8 DEF EndCommitsAgreed
  <2>2. AllCommits(n) \in Partial(Nodes, Dicts)
    BY <2>1, WantedCommits
  <2>3. /\ inbox' \in [Nodes -> SUBSET sent] /\ received' \in [Nodes -> SUBSET sent]
        /\ full' \in [Nodes -> BOOLEAN]
    BY <1>8 DEF EndCommitsAgreed, Popped, TypeOK
  <2>4. UNCHANGED <<round, commits, scores, read>>
    BY <1>8 DEF EndCommitsAgreed
  <2>. QED  BY <2>1, <2>2, <2>3, <2>4, FinishType DEF TypeOK
<1>9. ASSUME NEW n \in Nodes, EndCommitsDisputed(n) PROVE TypeOK'
  <2>1. PICK my_scores \in ScoresFor(detect_disputes(AllCommits(n))) :
          /\ scores' = [scores EXCEPT ![n] = my_scores]
          /\ sent' = sent \cup {[type |-> "DISPUTE_SCORE", from |-> n, seq |-> seq[n],
                                 scores |-> my_scores]}
    BY <1>9 DEF EndCommitsDisputed
  <2>2. AllCommits(n) \in Partial(Nodes, Dicts)
    BY <1>9, WantedCommits DEF EndCommitsDisputed
  <2>3. my_scores \in Partial(AllPos, Partial(Tokens, Levels))
    BY <2>2, ScoresType
  <2>4. sent \subseteq sent' /\ sent' \subseteq Message
    BY <2>1, <2>3 DEF Message, TypeOK
  <2>5. /\ scores' \in [Nodes -> Partial(AllPos, Partial(Tokens, Levels))]
        /\ commits' \in [Nodes -> Partial(Nodes, Dicts)]
    BY <1>9, <2>1, <2>2, <2>3 DEF EndCommitsDisputed, TypeOK
  <2>6. /\ inbox' \in [Nodes -> SUBSET sent] /\ received' \in [Nodes -> SUBSET sent]
        /\ full' \in [Nodes -> BOOLEAN]
    BY <1>9 DEF EndCommitsDisputed, Popped, Bucket, TypeOK
  <2>. QED  BY <1>9, <2>4, <2>5, <2>6 DEF EndCommitsDisputed, TypeOK, Running, local
<1>10. ASSUME NEW n \in Nodes, EndScores(n) PROVE TypeOK'
  <2>1. FinishSync(n, commits[n], resolve_disputes(AllScores(n)))
    BY <1>10 DEF EndScores
  <2>2. commits[n] \in Partial(Nodes, Dicts)
    BY DEF TypeOK
  <2>3. /\ inbox' \in [Nodes -> SUBSET sent] /\ received' \in [Nodes -> SUBSET sent]
        /\ full' \in [Nodes -> BOOLEAN]
    BY <1>10 DEF EndScores, Popped, TypeOK
  <2>4. NoEntries \in Partial(Nodes, Dicts) /\ NoEntries \in Partial(AllPos, Partial(Tokens, Levels))
    BY PartialIff DEF NoEntries
  <2>5. /\ commits' \in [Nodes -> Partial(Nodes, Dicts)]
        /\ scores' \in [Nodes -> Partial(AllPos, Partial(Tokens, Levels))]
    BY <1>10, <2>4 DEF EndScores, TypeOK
  <2>6. UNCHANGED <<round, read>>
    BY <1>10 DEF EndScores
  <2>. QED  BY <2>1, <2>2, <2>3, <2>5, <2>6, FinishType DEF TypeOK
<1>11. ASSUME NEW n \in Nodes, Crash(n) PROVE TypeOK'
  BY <1>11 DEF Crash, TypeOK, Finished, local
<1>12. CASE UNCHANGED vars
  BY <1>12 DEF vars, local, TypeOK
<1>. QED
  BY <1>1, <1>2, <1>3, <1>4, <1>5, <1>6, <1>7, <1>8, <1>9, <1>10, <1>11, <1>12
     DEF Next, Proceed, CollectCommits, CollectScores

-----------------------------------------------------------------------------
(* What the barriers hold, and what has been published. *)

\* What the end of a sync does, apart from the text and the detector.
LEMMA FinishFacts ==
  ASSUME TypeOK, NEW n \in Nodes, NEW all, NEW res, FinishSync(n, all, res)
  PROVE  /\ pc'[n] \in {"poll", "done"} /\ \A m \in Nodes \ {n} : pc'[m] = pc[m]
         /\ seq'[n] = seq[n] + 1 /\ \A m \in Nodes \ {n} : seq'[m] = seq[m]
         /\ \A m \in Nodes \ {n} : pending'[m] = pending[m]
         /\ sent \subseteq sent' /\ \A x \in sent' \ sent : x.type = "GEN_DONE"
         /\ shared'[n] = merge_consensus(shared[n], all, res)
         /\ det'[n] = Check(det[n], shared'[n])
         /\ \A m \in Nodes \ {n} : shared'[m] = shared[m] /\ det'[m] = det[m]
<1>1. /\ pc'[n] \in {"poll", "done"} /\ \A m \in Nodes \ {n} : pc'[m] = pc[m]
      /\ seq'[n] = seq[n] + 1 /\ \A m \in Nodes \ {n} : seq'[m] = seq[m]
      /\ \A m \in Nodes \ {n} : pending'[m] = pending[m]
  BY DEF FinishSync, TypeOK
<1>2. sent \subseteq sent' /\ \A x \in sent' \ sent : x.type = "GEN_DONE"
  BY DEF FinishSync
<1>3. /\ shared'[n] = merge_consensus(shared[n], all, res)
      /\ det'[n] = Check(det[n], shared'[n])
      /\ \A m \in Nodes \ {n} : shared'[m] = shared[m] /\ det'[m] = det[m]
  BY DEF FinishSync, TypeOK
<1>. QED  BY <1>1, <1>2, <1>3

LEMMA WantedStep ==
  ASSUME TypeOK, TypeOK', ReceivedWanted, [Next]_vars
  PROVE  ReceivedWanted'
<1>1. CASE StartRound
  BY <1>1 DEF StartRound, ReceivedWanted, TypeOK, IsReport, Others
<1>2. ASSUME NEW n \in Nodes, WaitForRound(n) \/ Poll(n) \/ LeaderTimeout(n)
                             \/ LocalStep(n) \/ Crash(n)
      PROVE ReceivedWanted'
  <2>1. /\ UNCHANGED <<seq, received>>
        /\ pc'[n] \notin {"commits", "scores"} /\ \A m \in Nodes \ {n} : pc'[m] = pc[m]
    BY <1>2 DEF WaitForRound, Poll, LeaderTimeout, LocalStep, Crash, TypeOK
  <2>. QED  BY <2>1 DEF ReceivedWanted, IsReport, Others
<1>3. ASSUME NEW n \in Nodes, LocalStepThenSync(n) PROVE ReceivedWanted'
  <2>1. /\ seq' = seq /\ pc'[n] = "commits"
        /\ received'[n] = Bucket(inbox[n], "COMMIT", seq[n], Others(n))
        /\ \A m \in Nodes \ {n} : pc'[m] = pc[m] /\ received'[m] = received[m]
    BY <1>3 DEF LocalStepThenSync, TypeOK
  <2>. QED  BY <2>1 DEF ReceivedWanted, IsReport, Others, Bucket, Same
<1>4. ASSUME NEW n \in Nodes, CollectCommits(n) \/ CollectScores(n) PROVE ReceivedWanted'
  <2>1. PICK type :
          /\ \/ pc[n] = "commits" /\ type = "COMMIT"
             \/ pc[n] = "scores" /\ type = "DISPUTE_SCORE"
          /\ Collect(n, type)
    BY <1>4 DEF CollectCommits, CollectScores
  <2>2. /\ UNCHANGED <<pc, seq>> /\ \A m \in Nodes \ {n} : received'[m] = received[m]
        /\ \A m \in received'[n] :
             m \in received[n] \/ (Same(m, type, seq[n]) /\ m.from \in Others(n))
    BY <2>1 DEF Collect, Filed, TypeOK
  <2>. QED  BY <2>1, <2>2 DEF ReceivedWanted, IsReport, Others, Same
<1>5. ASSUME NEW n \in Nodes, EndCommitsDisputed(n) PROVE ReceivedWanted'
  <2>1. /\ seq' = seq /\ pc'[n] = "scores"
        /\ received'[n] = Bucket(inbox[n], "DISPUTE_SCORE", seq[n], Others(n))
        /\ \A m \in Nodes \ {n} : pc'[m] = pc[m] /\ received'[m] = received[m]
    BY <1>5 DEF EndCommitsDisputed, TypeOK
  <2>. QED  BY <2>1 DEF ReceivedWanted, IsReport, Others, Bucket, Same
<1>6. ASSUME NEW n \in Nodes, EndCommitsAgreed(n) \/ EndScores(n) PROVE ReceivedWanted'
  <2>1. /\ received'[n] = {} /\ \A m \in Nodes \ {n} : received'[m] = received[m]
        /\ \E all, res : FinishSync(n, all, res)
    BY <1>6 DEF EndCommitsAgreed, EndScores, TypeOK
  <2>. QED  BY <2>1, FinishFacts DEF ReceivedWanted, IsReport, Others
<1>7. CASE UNCHANGED vars
  BY <1>7 DEF vars, ReceivedWanted, IsReport, Others
<1>. QED  BY <1>1, <1>2, <1>3, <1>4, <1>5, <1>6, <1>7 DEF Next, Proceed

\* The published reports are unique, in order and the sender's own.
LEMMA SentStep ==
  ASSUME TypeOK, TypeOK', OneReport, SentInOrder, OwnReport, [Next]_vars
  PROVE  OneReport' /\ SentInOrder' /\ OwnReport'
<1>0. \A x \in sent : x.type \in Reports => x.from \in Nodes /\ x.seq \in Nat
  BY DEF TypeOK, Message, Reports
<1>1. ASSUME NEW n \in Nodes, UNCHANGED <<seq, scores>>,
             pc'[n] \notin {"commits", "scores"}, pc[n] # "crashed",
             pc'[n] = "crashed" \/ pc[n] \notin {"commits", "scores"},
             \A m \in Nodes \ {n} : pc'[m] = pc[m] /\ pending'[m] = pending[m],
             sent \subseteq sent', \A x \in sent' \ sent : x.type \notin Reports
      PROVE  OneReport' /\ SentInOrder' /\ OwnReport'
  <2>1. OneReport'
    BY <1>1 DEF OneReport
  <2>2. SentInOrder'
    BY <1>0, <1>1 DEF SentInOrder, TypeOK
  <2>3. OwnReport'
    BY <1>1 DEF OwnReport, IsReport
  <2>. QED  BY <2>1, <2>2, <2>3
<1>2. CASE StartRound
  <2>1. /\ UNCHANGED <<seq, scores, pending>> /\ pc[Leader] = "idle" /\ pc'[Leader] = "poll"
        /\ \A m \in Nodes \ {Leader} : pc'[m] = pc[m]
        /\ sent \subseteq sent' /\ \A x \in sent' \ sent : x.type = "GEN_START"
    BY <1>2, GenerationConstants DEF StartRound, TypeOK, local
  <2>. QED  BY <1>1, <2>1, GenerationConstants DEF Reports
<1>3. ASSUME NEW n \in Nodes, WaitForRound(n) \/ Poll(n) \/ LeaderTimeout(n)
                             \/ LocalStep(n) \/ Crash(n)
      PROVE  OneReport' /\ SentInOrder' /\ OwnReport'
  <2>1. /\ UNCHANGED <<seq, scores, sent>> /\ pc[n] \notin Finished
        /\ pc'[n] \notin {"commits", "scores"}
        /\ pc'[n] = "crashed" \/ pc[n] \notin {"commits", "scores"}
        /\ \A m \in Nodes \ {n} : pc'[m] = pc[m] /\ pending'[m] = pending[m]
    BY <1>3 DEF WaitForRound, Poll, LeaderTimeout, LocalStep, Denoise, Crash, TypeOK, local,
                Finished
  <2>. QED  BY <1>1, <2>1 DEF Finished
<1>4. ASSUME NEW n \in Nodes, LocalStepThenSync(n)
      PROVE  OneReport' /\ SentInOrder' /\ OwnReport'
  <2>. DEFINE msg == [type |-> "COMMIT", from |-> n, seq |-> seq[n], commits |-> pending'[n]]
  <2>1. /\ UNCHANGED <<seq, scores>> /\ sent' = sent \cup {msg}
        /\ pc[n] = "local" /\ pc'[n] = "commits"
        /\ \A m \in Nodes \ {n} : pc'[m] = pc[m] /\ pending'[m] = pending[m]
    BY <1>4 DEF LocalStepThenSync, Denoise, TypeOK
  <2>2. IsReport(msg, "COMMIT", n, seq[n]) /\ msg.commits = pending'[n]
    BY DEF IsReport
  <2>3. \A x \in sent : x.type \in Reports /\ x.from = n => x.seq # seq[n]
    BY <2>1 DEF SentInOrder
  <2>. HIDE DEF msg
  <2>4. OneReport'
    BY <2>1, <2>2, <2>3 DEF OneReport, IsReport
  <2>5. SentInOrder'
    BY <1>0, <2>1, <2>2 DEF SentInOrder, IsReport, TypeOK
  <2>6. OwnReport'
    BY <2>1, <2>2 DEF OwnReport, IsReport
  <2>. QED  BY <2>4, <2>5, <2>6
<1>5. ASSUME NEW n \in Nodes, NEW type, Collect(n, type)
      PROVE  OneReport' /\ SentInOrder' /\ OwnReport'
  BY <1>5 DEF Collect, local, OneReport, SentInOrder, OwnReport, IsReport
<1>6. ASSUME NEW n \in Nodes, EndCommitsDisputed(n)
      PROVE  OneReport' /\ SentInOrder' /\ OwnReport'
  <2>1. PICK my_scores :
          /\ scores' = [scores EXCEPT ![n] = my_scores]
          /\ sent' = sent \cup {[type |-> "DISPUTE_SCORE", from |-> n, seq |-> seq[n],
                                 scores |-> my_scores]}
    BY <1>6 DEF EndCommitsDisputed
  <2>. DEFINE msg == [type |-> "DISPUTE_SCORE", from |-> n, seq |-> seq[n],
                      scores |-> my_scores]
  <2>2. /\ UNCHANGED <<seq, pending>> /\ sent' = sent \cup {msg}
        /\ pc[n] = "commits" /\ pc'[n] = "scores" /\ scores'[n] = my_scores
        /\ \A m \in Nodes \ {n} : pc'[m] = pc[m] /\ scores'[m] = scores[m]
    BY <1>6, <2>1 DEF EndCommitsDisputed, local, TypeOK
  <2>3. IsReport(msg, "DISPUTE_SCORE", n, seq[n]) /\ msg.scores = my_scores
    BY DEF IsReport
  <2>4. \A x \in sent : x.type = "DISPUTE_SCORE" /\ x.from = n => x.seq # seq[n]
    BY <2>2 DEF SentInOrder, Reports
  <2>. HIDE DEF msg
  <2>5. OneReport'
    BY <2>2, <2>3, <2>4 DEF OneReport, IsReport
  <2>6. SentInOrder'
    BY <1>0, <2>2, <2>3 DEF SentInOrder, IsReport, TypeOK
  <2>7. OwnReport'
    BY <2>2, <2>3 DEF OwnReport, IsReport
  <2>. QED  BY <2>5, <2>6, <2>7
<1>7. ASSUME NEW n \in Nodes, EndCommitsAgreed(n) \/ EndScores(n)
      PROVE  OneReport' /\ SentInOrder' /\ OwnReport'
  <2>1. /\ \E all, res : FinishSync(n, all, res)
        /\ \A m \in Nodes \ {n} : scores'[m] = scores[m]
    BY <1>7 DEF EndCommitsAgreed, EndScores, TypeOK
  <2>2. /\ seq'[n] = seq[n] + 1 /\ pc'[n] \in {"poll", "done"}
        /\ \A m \in Nodes \ {n} : pc'[m] = pc[m] /\ pending'[m] = pending[m] /\ seq'[m] = seq[m]
        /\ sent \subseteq sent' /\ \A x \in sent' \ sent : x.type \notin Reports
    BY <2>1, FinishFacts DEF Reports
  <2>3. OneReport'
    BY <2>2 DEF OneReport
  <2>4. SentInOrder'
    BY <1>0, <2>2 DEF SentInOrder, TypeOK
  <2>5. OwnReport'
    BY <2>1, <2>2 DEF OwnReport, IsReport
  <2>. QED  BY <2>3, <2>4, <2>5
<1>8. CASE UNCHANGED vars
  BY <1>8 DEF vars, local, OneReport, SentInOrder, OwnReport, IsReport
<1>. QED
  BY <1>2, <1>3, <1>4, <1>5, <1>6, <1>7, <1>8 DEF Next, Proceed, CollectCommits, CollectScores

-----------------------------------------------------------------------------
(* What has been published for a sync does not change any more. *)

\* A report, once published, remains the report of its sender and sync.
LEMMA ReportStable ==
  ASSUME OneReport', sent \subseteq sent', NEW type \in Reports, NEW o, NEW k,
         Reported(type, o, k)
  PROVE  Reported(type, o, k)' /\ ReportOf(type, o, k)' = ReportOf(type, o, k)
<1>. DEFINE x == ReportOf(type, o, k)
            y == ReportOf(type, o, k)'
<1>1. x \in sent /\ IsReport(x, type, o, k)
  BY DEF Reported, ReportOf
<1>2. Reported(type, o, k)'
  BY <1>1 DEF Reported, IsReport
<1>3. y \in sent' /\ IsReport(y, type, o, k)
  BY <1>2 DEF Reported, ReportOf, IsReport
<1>4. x = y
  <2>. HIDE DEF x, y
  <2>. QED  BY <1>1, <1>3 DEF OneReport, IsReport
<1>. QED  BY <1>2, <1>4

\* What a complete sync makes of a text is settled.
LEMMA MergedStable ==
  ASSUME OneReport', sent \subseteq sent', NEW k, AllReported(k)
  PROVE  AllReported(k)' /\ \A s : Merged(s, k)' = Merged(s, k)
<1>1. \A o \in Nodes : /\ Reported("COMMIT", o, k)'
                       /\ ReportOf("COMMIT", o, k)' = ReportOf("COMMIT", o, k)
  BY ReportStable DEF AllReported, Reports
<1>2. SentCommits(k)' = SentCommits(k)
  BY <1>1 DEF SentCommits
<1>3. CASE DOMAIN detect_disputes(SentCommits(k)) = {}
  BY <1>1, <1>2, <1>3 DEF AllReported, Merged
<1>4. CASE DOMAIN detect_disputes(SentCommits(k)) # {}
  <2>1. \A o \in Nodes : /\ Reported("DISPUTE_SCORE", o, k)'
                         /\ ReportOf("DISPUTE_SCORE", o, k)' = ReportOf("DISPUTE_SCORE", o, k)
    BY <1>4, ReportStable DEF AllReported, Reports
  <2>2. SentScores(k)' = SentScores(k)
    BY <2>1 DEF SentScores
  <2>. QED  BY <1>1, <1>2, <1>4, <2>1, <2>2 DEF AllReported, Merged
<1>. QED  BY <1>3, <1>4

\* A commit barrier nobody is missing from holds what everyone published.
LEMMA FullCommits ==
  ASSUME TypeOK, OneReport, OwnReport, ReceivedWanted,
         NEW n \in Nodes, pc[n] = "commits", Missing(n) = {}
  PROVE  /\ \A o \in Nodes : Reported("COMMIT", o, seq[n])
         /\ AllCommits(n) = SentCommits(seq[n])
<1>1. {n} \cup Senders(received[n]) = Nodes
  BY DEF Missing, Others, Senders, ReceivedWanted
<1>2. ASSUME NEW o \in Nodes
      PROVE  /\ Reported("COMMIT", o, seq[n])
             /\ AllCommits(n)[o] = ReportOf("COMMIT", o, seq[n]).commits
  <2>1. PICK m \in sent : IsReport(m, "COMMIT", o, seq[n]) /\ m.commits = AllCommits(n)[o]
    <3>1. CASE o = n
      <4>1. AllCommits(n)[n] = pending[n]
        BY <1>1 DEF AllCommits
      <4>. QED  BY <3>1, <4>1 DEF OwnReport
    <3>2. CASE o # n
      <4>. DEFINE m == CHOOSE y \in received[n] : y.from = o
      <4>1. \E y \in received[n] : y.from = o
        BY <1>1, <3>2 DEF Senders
      <4>2. m \in received[n] /\ m.from = o
        BY <4>1
      <4>3. AllCommits(n)[o] = m.commits
        BY <1>1, <3>2 DEF AllCommits
      <4>. HIDE DEF m
      <4>4. IsReport(m, "COMMIT", o, seq[n]) /\ m \in sent
        BY <4>2 DEF ReceivedWanted, IsReport, TypeOK
      <4>. QED  BY <4>3, <4>4
    <3>. QED  BY <3>1, <3>2
  <2>2. ReportOf("COMMIT", o, seq[n]) \in sent /\ IsReport(ReportOf("COMMIT", o, seq[n]), "COMMIT", o, seq[n])
    BY <2>1 DEF ReportOf
  <2>3. ReportOf("COMMIT", o, seq[n]) = m
    BY <2>1, <2>2 DEF OneReport, IsReport, Reports
  <2>. QED  BY <2>1, <2>3 DEF Reported
<1>3. AllCommits(n) = [o \in Nodes |-> AllCommits(n)[o]]
  BY <1>1 DEF AllCommits
<1>. QED  BY <1>2, <1>3 DEF SentCommits

\* Likewise for a score barrier.
LEMMA FullScores ==
  ASSUME TypeOK, OneReport, OwnReport, ReceivedWanted,
         NEW n \in Nodes, pc[n] = "scores", Missing(n) = {}
  PROVE  /\ \A o \in Nodes : Reported("DISPUTE_SCORE", o, seq[n])
         /\ AllScores(n) = SentScores(seq[n])
<1>1. {n} \cup Senders(received[n]) = Nodes
  BY DEF Missing, Others, Senders, ReceivedWanted
<1>2. ASSUME NEW o \in Nodes
      PROVE  /\ Reported("DISPUTE_SCORE", o, seq[n])
             /\ AllScores(n)[o] = ReportOf("DISPUTE_SCORE", o, seq[n]).scores
  <2>1. PICK m \in sent : IsReport(m, "DISPUTE_SCORE", o, seq[n]) /\ m.scores = AllScores(n)[o]
    <3>1. CASE o = n
      <4>1. AllScores(n)[n] = scores[n]
        BY <1>1 DEF AllScores
      <4>. QED  BY <3>1, <4>1 DEF OwnReport
    <3>2. CASE o # n
      <4>. DEFINE m == CHOOSE y \in received[n] : y.from = o
      <4>1. \E y \in received[n] : y.from = o
        BY <1>1, <3>2 DEF Senders
      <4>2. m \in received[n] /\ m.from = o
        BY <4>1
      <4>3. AllScores(n)[o] = m.scores
        BY <1>1, <3>2 DEF AllScores
      <4>. HIDE DEF m
      <4>4. IsReport(m, "DISPUTE_SCORE", o, seq[n]) /\ m \in sent
        BY <4>2 DEF ReceivedWanted, IsReport, TypeOK
      <4>. QED  BY <4>3, <4>4
    <3>. QED  BY <3>1, <3>2
  <2>2. /\ ReportOf("DISPUTE_SCORE", o, seq[n]) \in sent
        /\ IsReport(ReportOf("DISPUTE_SCORE", o, seq[n]), "DISPUTE_SCORE", o, seq[n])
    BY <2>1 DEF ReportOf
  <2>3. ReportOf("DISPUTE_SCORE", o, seq[n]) = m
    BY <2>1, <2>2 DEF OneReport, IsReport, Reports
  <2>. QED  BY <2>1, <2>3 DEF Reported
<1>3. AllScores(n) = [o \in Nodes |-> AllScores(n)[o]]
  BY <1>1 DEF AllScores
<1>. QED  BY <1>2, <1>3 DEF SentScores

-----------------------------------------------------------------------------
(* The barrier and the agreement. *)

\* A node that missed nothing is at most one sync ahead of anyone: the others
\* have published for the sync it left last.
LEMMA SkewFromPassed ==
  ASSUME TypeOK, SentInOrder, Passed
  PROVE  BarrierSkew
<1>. SUFFICES ASSUME NEW n \in Nodes, NEW m \in Nodes, full[n]
              PROVE  seq[n] <= seq[m] + 1
  BY DEF BarrierSkew
<1>1. CASE seq[n] = 0
  BY <1>1 DEF TypeOK
<1>2. CASE seq[n] > 0
  <2>1. PICK x \in sent : IsReport(x, "COMMIT", m, seq[n] - 1)
    BY <1>2 DEF Passed, AllReported, Reported
  <2>2. seq[n] - 1 <= seq[m]
    BY <2>1 DEF SentInOrder, IsReport, Reports
  <2>. QED  BY <2>2 DEF TypeOK
<1>. QED  BY <1>1, <1>2 DEF TypeOK

\* A step that ends no sync preserves how the nodes' texts are related.
LEMMA QuietStep ==
  ASSUME TypeOK, OneReport', sent \subseteq sent', UNCHANGED <<seq, shared, det>>,
         \A n \in Nodes : full'[n] => full[n],
         Passed, Agreement, Ahead
  PROVE  Passed' /\ Agreement' /\ Ahead'
<1>1. Passed'
  <2>. SUFFICES ASSUME NEW n \in Nodes, full'[n], seq[n] > 0
                PROVE  AllReported(seq[n] - 1)'
    BY DEF Passed
  <2>. QED  BY MergedStable DEF Passed
<1>2. Agreement'
  BY DEF Agreement
<1>3. Ahead'
  <2>. SUFFICES ASSUME NEW n \in Nodes, NEW m \in Nodes, full'[n], full'[m],
                       seq[n] = seq[m] + 1
                PROVE  /\ shared[n] = Merged(shared[m], seq[m])'
                       /\ det[n] = Check(det[m], shared[n])
    BY DEF Ahead
  <2>1. shared[n] = Merged(shared[m], seq[m]) /\ det[n] = Check(det[m], shared[n])
    BY DEF Ahead
  <2>2. AllReported(seq[m])
    BY DEF Passed, TypeOK
  <2>3. \A s : Merged(s, seq[m])' = Merged(s, seq[m])
    BY <2>2, MergedStable
  <2>. QED  BY <2>1, <2>3
<1>. QED  BY <1>1, <1>2, <1>3

\* The end of a sync preserves it too: a node that missed nothing moves to
\* what the sync makes of its text.
LEMMA FinishStep ==
  ASSUME TypeOK, TypeOK', OneReport', SentInOrder, Passed, Agreement, Ahead,
         NEW n \in Nodes, NEW all, NEW res, FinishSync(n, all, res),
         \A m \in Nodes : full'[m] => full[m],
         full'[n] => /\ AllReported(seq[n])
                     /\ merge_consensus(shared[n], all, res) = Merged(shared[n], seq[n])
  PROVE  Passed' /\ Agreement' /\ Ahead'
<1>k. PICK k : k = seq[n]
  OBVIOUS
<1>0. /\ sent \subseteq sent' /\ seq'[n] = k + 1 /\ k \in Nat
      /\ \A m \in Nodes \ {n} : seq'[m] = seq[m] /\ shared'[m] = shared[m] /\ det'[m] = det[m]
      /\ shared'[n] = merge_consensus(shared[n], all, res)
      /\ det'[n] = Check(det[n], shared'[n])
  BY <1>k, FinishFacts DEF TypeOK
<1>1. ASSUME full'[n]
      PROVE  /\ AllReported(k) /\ AllReported(k)'
             /\ \A s : Merged(s, k)' = Merged(s, k)
             /\ shared'[n] = Merged(shared[n], k)
  <2>1. AllReported(k) /\ shared'[n] = Merged(shared[n], k)
    BY <1>k, <1>0, <1>1
  <2>. QED  BY <1>0, <2>1, MergedStable
<1>2. ASSUME NEW m \in Nodes, full'[m], NEW j \in Nat, seq[m] = j + 1
      PROVE  AllReported(j)' /\ \A s : Merged(s, j)' = Merged(s, j)
  <2>1. AllReported(j)
    <3>1. seq[m] > 0 /\ seq[m] - 1 = j
      BY <1>2
    <3>. QED  BY <1>2, <3>1 DEF Passed
  <2>. QED  BY <1>0, <2>1, MergedStable
<1>3. Passed'
  <2>. SUFFICES ASSUME NEW m \in Nodes, full'[m], NEW j \in Nat, seq'[m] = j + 1
                PROVE  AllReported(j)'
    <3>1. \A m \in Nodes : seq'[m] > 0 => seq'[m] - 1 \in Nat /\ seq'[m] = (seq'[m] - 1) + 1
      BY DEF TypeOK
    <3>. QED  BY <3>1 DEF Passed
  <2>1. CASE m = n
    <3>1. j = k
      BY <1>0, <2>1
    <3>. QED  BY <1>1, <2>1, <3>1
  <2>2. CASE m # n
    BY <1>0, <1>2, <2>2
  <2>. QED  BY <2>1, <2>2
<1>4. ASSUME NEW m \in Nodes, m # n, full'[n], full'[m]
      PROVE  seq[m] \in {k, k + 1}
  <2>1. seq[m] <= k + 1
    BY <1>k, <1>4, SkewFromPassed DEF BarrierSkew
  <2>2. PICK x \in sent : IsReport(x, "COMMIT", m, k)
    BY <1>1, <1>4 DEF AllReported, Reported
  <2>3. k <= seq[m]
    BY <2>2 DEF SentInOrder, IsReport, Reports
  <2>4. seq[m] \in Nat /\ k \in Nat
    BY <1>0 DEF TypeOK
  <2>5. seq[m] = k \/ seq[m] = k + 1
    BY <2>1, <2>3, <2>4
  <2>. QED  BY <2>5
<1>5. Agreement'
  <2>1. ASSUME NEW m \in Nodes, m # n, full'[n], full'[m], seq'[n] = seq'[m]
        PROVE  shared'[n] = shared'[m] /\ det'[n] = det'[m]
    <3>1. seq[m] = seq[n] + 1
      BY <1>k, <1>0, <2>1
    <3>2. shared[m] = Merged(shared[n], k) /\ det[m] = Check(det[n], shared[m])
      BY <1>k, <2>1, <3>1 DEF Ahead
    <3>3. shared'[n] = shared[m] /\ det'[n] = det[m]
      BY <1>0, <1>1, <2>1, <3>2
    <3>. QED  BY <1>0, <2>1, <3>3
  <2>2. ASSUME NEW m \in Nodes, NEW o \in Nodes, m # n, o # n, full'[m], full'[o],
               seq'[m] = seq'[o]
        PROVE  shared'[m] = shared'[o] /\ det'[m] = det'[o]
    BY <1>0, <2>2 DEF Agreement
  <2>. QED  BY <2>1, <2>2 DEF Agreement
<1>6. Ahead'
  <2>. SUFFICES ASSUME NEW a \in Nodes, NEW b \in Nodes, full'[a], full'[b],
                       NEW j, j = seq'[b], NEW s, s = shared'[b], seq'[a] = j + 1
                PROVE  shared'[a] = Merged(s, j)' /\ det'[a] = Check(det'[b], shared'[a])
    BY DEF Ahead, Merged
  <2>1. CASE a = n /\ b # n
    <3>1. seq[b] = k /\ j = k
      BY <1>0, <2>1 DEF TypeOK
    <3>2. shared[b] = shared[n] /\ det[b] = det[n]
      BY <1>k, <2>1, <3>1 DEF Agreement
    <3>. QED  BY <1>0, <1>1, <2>1, <3>1, <3>2
  <2>2. CASE a # n /\ b = n
    <3>1. seq[a] = k + 2
      BY <1>0, <2>2
    <3>2. seq[a] \in {k, k + 1}
      BY <1>4, <2>2
    <3>. QED  BY <1>0, <3>1, <3>2
  <2>3. CASE a # n /\ b # n
    <3>1. seq[b] = j /\ seq[a] = j + 1 /\ s = shared[b] /\ j \in Nat
      BY <1>0, <2>3 DEF TypeOK
    <3>2. shared[a] = Merged(s, j) /\ det[a] = Check(det[b], shared[a])
      BY <3>1, <2>3 DEF Ahead
    <3>3. Merged(s, j)' = Merged(s, j)
      BY <1>2, <2>3, <3>1
    <3>. QED  BY <1>0, <2>3, <3>2, <3>3
  <2>4. CASE a = n /\ b = n
    BY <1>0, <2>4
  <2>. QED  BY <2>1, <2>2, <2>3, <2>4
<1>. QED  BY <1>3, <1>5, <1>6

\* What everyone committed in a sync is settled once everyone has reported.
LEMMA CommitsStable ==
  ASSUME OneReport', sent \subseteq sent', NEW k,
         \A o \in Nodes : Reported("COMMIT", o, k)
  PROVE  /\ \A o \in Nodes : Reported("COMMIT", o, k)'
         /\ SentCommits(k)' = SentCommits(k)
<1>1. \A o \in Nodes : /\ Reported("COMMIT", o, k)'
                       /\ ReportOf("COMMIT", o, k)' = ReportOf("COMMIT", o, k)
  BY ReportStable DEF Reports
<1>. QED  BY <1>1 DEF SentCommits

\* A node that stays in phase 2 keeps the commits it entered it with.
LEMMA StaysCollected ==
  ASSUME OneReport', sent \subseteq sent', CommitsCollected, NEW n \in Nodes,
         pc[n] = "scores", commits'[n] = commits[n], seq'[n] = seq[n], full'[n] => full[n]
  PROVE  /\ DOMAIN detect_disputes(commits'[n]) # {}
         /\ full'[n] => /\ \A o \in Nodes : Reported("COMMIT", o, seq[n])'
                        /\ commits'[n] = SentCommits(seq[n])'
<1>k. PICK k : k = seq[n]
  OBVIOUS
<1>1. DOMAIN detect_disputes(commits'[n]) # {}
  BY DEF CommitsCollected
<1>2. ASSUME full'[n]
      PROVE  (\A o \in Nodes : Reported("COMMIT", o, k)') /\ commits'[n] = SentCommits(k)'
  <2>1. (\A o \in Nodes : Reported("COMMIT", o, k)) /\ commits[n] = SentCommits(k)
    BY <1>k, <1>2 DEF CommitsCollected
  <2>. QED  BY <2>1, CommitsStable
<1>3. k = seq'[n]
  BY <1>k
<1>. QED  BY <1>1, <1>2, <1>3 DEF Reported, SentCommits, ReportOf, IsReport

\* A node that missed nothing, in this barrier either, makes of its text what the
\* sync makes of it, whether nothing was disputed ...
LEMMA AgreedMerges ==
  ASSUME TypeOK, OneReport, OwnReport, ReceivedWanted, NEW n \in Nodes,
         pc[n] = "commits", Missing(n) = {}, DOMAIN detect_disputes(AllCommits(n)) = {}
  PROVE  /\ AllReported(seq[n])
         /\ merge_consensus(shared[n], AllCommits(n), NoEntries) = Merged(shared[n], seq[n])
<1>1. /\ \A o \in Nodes : Reported("COMMIT", o, seq[n])
      /\ AllCommits(n) = SentCommits(seq[n])
  BY FullCommits
<1>. QED  BY <1>1 DEF AllReported, Merged

\* ... or the disputes were resolved in phase 2.
LEMMA ScoredMerges ==
  ASSUME TypeOK, OneReport, OwnReport, ReceivedWanted, CommitsCollected, NEW n \in Nodes,
         pc[n] = "scores", Missing(n) = {}, full[n]
  PROVE  /\ AllReported(seq[n])
         /\ merge_consensus(shared[n], commits[n], resolve_disputes(AllScores(n)))
              = Merged(shared[n], seq[n])
<1>1. /\ \A o \in Nodes : Reported("DISPUTE_SCORE", o, seq[n])
      /\ AllScores(n) = SentScores(seq[n])
  BY FullScores
<1>2. /\ \A o \in Nodes : Reported("COMMIT", o, seq[n])
      /\ commits[n] = SentCommits(seq[n])
      /\ DOMAIN detect_disputes(commits[n]) # {}
  BY DEF CommitsCollected
<1>. QED  BY <1>1, <1>2 DEF AllReported, Merged

\* One step preserves the part of the invariant that relates the nodes' states.
LEMMA AgreeStep ==
  ASSUME TypeOK, TypeOK', OneReport, OneReport', SentInOrder, OwnReport, ReceivedWanted,
         CommitsCollected, Passed, Agreement, Ahead, [Next]_vars
  PROVE  CommitsCollected' /\ Passed' /\ Agreement' /\ Ahead'
<1>1. ASSUME UNCHANGED <<seq, shared, det, full, commits>>, sent \subseteq sent',
             \A m \in Nodes : pc'[m] = "scores" => pc[m] = "scores"
      PROVE  CommitsCollected' /\ Passed' /\ Agreement' /\ Ahead'
  <2>1. CommitsCollected'
    BY <1>1, StaysCollected DEF CommitsCollected
  <2>. QED  BY <1>1, <2>1, QuietStep
<1>2. CASE StartRound
  BY <1>1, <1>2 DEF StartRound, local, TypeOK
<1>3. ASSUME NEW n \in Nodes, WaitForRound(n) \/ Poll(n) \/ LeaderTimeout(n)
                             \/ LocalStep(n) \/ LocalStepThenSync(n) \/ Crash(n)
      PROVE  CommitsCollected' /\ Passed' /\ Agreement' /\ Ahead'
  <2>1. /\ UNCHANGED <<seq, shared, det, full, commits>> /\ sent \subseteq sent'
        /\ \A m \in Nodes : pc'[m] = "scores" => pc[m] = "scores"
    BY <1>3 DEF WaitForRound, Poll, LeaderTimeout, LocalStep, LocalStepThenSync, Crash,
                TypeOK, local
  <2>. QED  BY <1>1, <2>1
<1>4. ASSUME NEW n \in Nodes, NEW type, Collect(n, type)
      PROVE  CommitsCollected' /\ Passed' /\ Agreement' /\ Ahead'
  BY <1>1, <1>4 DEF Collect, local
<1>5. ASSUME NEW n \in Nodes, EndCommitsDisputed(n)
      PROVE  CommitsCollected' /\ Passed' /\ Agreement' /\ Ahead'
  <2>1. /\ UNCHANGED <<seq, shared, det>> /\ sent \subseteq sent'
        /\ pc[n] = "commits" /\ commits'[n] = AllCommits(n)
        /\ DOMAIN detect_disputes(AllCommits(n)) # {}
        /\ full'[n] => full[n] /\ Missing(n) = {}
        /\ \A m \in Nodes \ {n} : pc'[m] = pc[m] /\ commits'[m] = commits[m] /\ full'[m] = full[m]
    BY <1>5 DEF EndCommitsDisputed, local, TypeOK
  <2>k. PICK k : k = seq[n] /\ k = seq'[n]
    BY <2>1
  <2>2. full'[n] => (\A o \in Nodes : Reported("COMMIT", o, k)') /\ commits'[n] = SentCommits(k)'
    BY <2>1, <2>k, FullCommits, CommitsStable
  <2>3. DOMAIN detect_disputes(commits'[n]) # {}
    BY <2>1
  <2>4. ASSUME NEW m \in Nodes, pc'[m] = "scores", m # n
        PROVE  /\ DOMAIN detect_disputes(commits'[m]) # {}
               /\ full'[m] => /\ \A o \in Nodes : Reported("COMMIT", o, seq[m])'
                              /\ commits'[m] = SentCommits(seq[m])'
    BY <2>1, <2>4, StaysCollected
  <2>5. /\ DOMAIN detect_disputes(commits'[n]) # {}
        /\ full'[n] => /\ \A o \in Nodes : Reported("COMMIT", o, seq[n])'
                       /\ commits'[n] = SentCommits(seq[n])'
    BY <2>2, <2>3, <2>k DEF Reported, SentCommits, ReportOf, IsReport
  <2>6. CommitsCollected'
    BY <2>4, <2>5 DEF CommitsCollected
  <2>7. \A m \in Nodes : full'[m] => full[m]
    BY <2>1
  <2>. QED  BY <2>1, <2>6, <2>7, QuietStep
<1>6. ASSUME NEW n \in Nodes, NEW all, NEW res, FinishSync(n, all, res),
             \A m \in Nodes : full'[m] => full[m],
             \A m \in Nodes \ {n} : commits'[m] = commits[m],
             full'[n] => /\ AllReported(seq[n])
                         /\ merge_consensus(shared[n], all, res) = Merged(shared[n], seq[n])
      PROVE  CommitsCollected' /\ Passed' /\ Agreement' /\ Ahead'
  <2>1. /\ pc'[n] # "scores" /\ sent \subseteq sent'
        /\ \A m \in Nodes \ {n} : pc'[m] = pc[m] /\ seq'[m] = seq[m]
    BY <1>6, FinishFacts
  <2>2. CommitsCollected'
    BY <1>6, <2>1, StaysCollected DEF CommitsCollected
  <2>. QED  BY <1>6, <2>2, FinishStep
<1>7. ASSUME NEW n \in Nodes, EndCommitsAgreed(n)
      PROVE  CommitsCollected' /\ Passed' /\ Agreement' /\ Ahead'
  <2>1. /\ pc[n] = "commits" /\ FinishSync(n, AllCommits(n), NoEntries) /\ UNCHANGED commits
        /\ DOMAIN detect_disputes(AllCommits(n)) = {}
        /\ \A m \in Nodes : full'[m] => full[m]
        /\ full'[n] => Missing(n) = {}
    BY <1>7 DEF EndCommitsAgreed, TypeOK
  <2>2. ASSUME full'[n]
        PROVE  /\ AllReported(seq[n])
               /\ merge_consensus(shared[n], AllCommits(n), NoEntries) = Merged(shared[n], seq[n])
    BY <2>1, <2>2, AgreedMerges
  <2>. QED  BY <1>6, <2>1, <2>2
<1>8. ASSUME NEW n \in Nodes, EndScores(n)
      PROVE  CommitsCollected' /\ Passed' /\ Agreement' /\ Ahead'
  <2>. DEFINE res == resolve_disputes(AllScores(n))
  <2>1. /\ pc[n] = "scores" /\ FinishSync(n, commits[n], res)
        /\ \A m \in Nodes \ {n} : commits'[m] = commits[m]
        /\ \A m \in Nodes : full'[m] => full[m]
        /\ full'[n] => Missing(n) = {}
    BY <1>8 DEF EndScores, TypeOK
  <2>2. ASSUME full'[n]
        PROVE  /\ AllReported(seq[n])
               /\ merge_consensus(shared[n], commits[n], res) = Merged(shared[n], seq[n])
    BY <2>1, <2>2, ScoredMerges
  <2>. HIDE DEF res
  <2>. QED  BY <1>6, <2>1, <2>2
<1>9. CASE UNCHANGED vars
  BY <1>1, <1>9 DEF vars, local
<1>. QED
  BY <1>2, <1>3, <1>4, <1>5, <1>7, <1>8, <1>9 DEF Next, Proceed, CollectCommits, CollectScores

-----------------------------------------------------------------------------
(* The durable inbox. *)

\* Filing a message loses none, as long as nobody reports twice.
LEMMA FiledKeeps ==
  ASSUME OneReport, NEW box \in SUBSET sent, NEW m \in sent, m.type \in Reports
  PROVE  box \cup {m} \subseteq Filed(box, m)
  BY DEF OneReport, Filed, Same

\* Reading a copy loses nothing that was filed, and files a report.
LEMMA TakeKeeps ==
  ASSUME TypeOK, OneReport, NEW n \in Nodes, NEW c, Take(n, c)
  PROVE  /\ inbox[n] \subseteq inbox'[n]
         /\ c[2].type \in Reports => c[2] \in inbox'[n]
         /\ read'[n] = read[n] \cup {c}
         /\ \A m \in Nodes \ {n} : inbox'[m] = inbox[m] /\ read'[m] = read[m]
<1>1. c[2] \in sent
  BY TakeType
<1>2. inbox'[n] = IF c[2].type \in Reports THEN Filed(inbox[n], c[2]) ELSE inbox[n]
  BY DEF Take, TypeOK, Reports
<1>3. inbox[n] \in SUBSET sent
  BY DEF TypeOK
<1>4. inbox[n] \subseteq inbox'[n] /\ (c[2].type \in Reports => c[2] \in inbox'[n])
  BY <1>1, <1>2, <1>3, FiledKeeps
<1>5. /\ read'[n] = read[n] \cup {c}
      /\ \A m \in Nodes \ {n} : inbox'[m] = inbox[m] /\ read'[m] = read[m]
  BY DEF Take, TypeOK
<1>. QED  BY <1>4, <1>5

LEMMA KeptStep ==
  ASSUME TypeOK, TypeOK', OneReport, Kept, [Next]_vars
  PROVE  Kept'
<1>0. \A n \in Nodes : \A c \in read[n] :
        /\ c[2] \in sent
        /\ c[2].type \in Reports => c[2].from \in Nodes /\ c[2].seq \in Nat
  BY DEF TypeOK, Message, Reports
<1>1. ASSUME NEW n \in Nodes, UNCHANGED <<seq, received>>,
             pc'[n] \notin {"commits", "scores"},
             pc'[n] = "crashed" \/ pc[n] \notin {"commits", "scores", "crashed"},
             \A m \in Nodes \ {n} : pc'[m] = pc[m],
             UNCHANGED <<inbox, read>> \/ \E c : Take(n, c)
      PROVE  Kept'
  <2>1. CASE UNCHANGED <<inbox, read>>
    BY <1>1, <2>1 DEF Kept, Wanted
  <2>2. ASSUME NEW c, Take(n, c) PROVE Kept'
    BY <1>1, <2>2, TakeKeeps DEF Kept, Wanted
  <2>. QED  BY <1>1, <2>1, <2>2
<1>2. CASE StartRound
  BY <1>1, <1>2, GenerationConstants DEF StartRound, TypeOK
<1>3. ASSUME NEW n \in Nodes, WaitForRound(n) \/ Poll(n) \/ LeaderTimeout(n)
                             \/ LocalStep(n) \/ Crash(n)
      PROVE  Kept'
  <2>1. /\ UNCHANGED <<seq, received>> /\ pc'[n] \notin {"commits", "scores"}
        /\ pc'[n] = "crashed" \/ pc[n] \notin {"commits", "scores", "crashed"}
        /\ \A m \in Nodes \ {n} : pc'[m] = pc[m]
    BY <1>3 DEF WaitForRound, Poll, LeaderTimeout, LocalStep, Crash, TypeOK
  <2>2. UNCHANGED <<inbox, read>> \/ \E c : Take(n, c)
    BY <1>3 DEF WaitForRound, Poll, LeaderTimeout, LocalStep, Crash, Pump, PumpNothing
  <2>. QED  BY <1>1, <2>1, <2>2
<1>4. ASSUME NEW n \in Nodes, LocalStepThenSync(n) PROVE Kept'
  <2>1. /\ UNCHANGED <<seq, inbox, read>> /\ pc[n] = "local" /\ pc'[n] = "commits"
        /\ received'[n] = Bucket(inbox[n], "COMMIT", seq[n], Others(n))
        /\ \A m \in Nodes \ {n} : pc'[m] = pc[m] /\ received'[m] = received[m]
    BY <1>4 DEF LocalStepThenSync, TypeOK
  <2>. QED  BY <1>0, <2>1 DEF Kept, Wanted, Bucket, Same, Others
<1>5. ASSUME NEW n \in Nodes, CollectCommits(n) \/ CollectScores(n) PROVE Kept'
  <2>1. PICK type, c :
          /\ \/ pc[n] = "commits" /\ type = "COMMIT"
             \/ pc[n] = "scores" /\ type = "DISPUTE_SCORE"
          /\ Take(n, c) /\ UNCHANGED <<pc, seq>>
          /\ received' = [received EXCEPT ![n] =
               IF Same(c[2], type, seq[n]) /\ c[2].from \in Others(n)
               THEN Filed(@, c[2]) ELSE @]
    BY <1>5 DEF CollectCommits, CollectScores, Collect, Pump
  <2>2. c[2] \in sent /\ (c[2].type \in Reports => c[2].from \in Nodes)
    BY <2>1, TakeType DEF TypeOK, Message, Reports
  <2>3. /\ received[n] \subseteq received'[n]
        /\ Wanted(n, c[2]) /\ c[2].from # n => c[2] \in received'[n]
        /\ \A m \in Nodes \ {n} : received'[m] = received[m]
    <3>1. received[n] \in SUBSET sent
      BY DEF TypeOK
    <3>2. CASE Same(c[2], type, seq[n]) /\ c[2].from \in Others(n)
      <4>1. c[2].type \in Reports
        BY <2>1, <3>2 DEF Same, Reports
      <4>2. received[n] \cup {c[2]} \subseteq Filed(received[n], c[2])
        BY <2>2, <3>1, <4>1, FiledKeeps
      <4>. QED  BY <2>1, <3>2, <4>2 DEF TypeOK
    <3>3. CASE ~(Same(c[2], type, seq[n]) /\ c[2].from \in Others(n))
      <4>1. ~(Wanted(n, c[2]) /\ c[2].from # n)
        BY <2>1, <2>2, <3>3 DEF Wanted, Same, Others, Reports
      <4>. QED  BY <2>1, <3>3, <4>1 DEF TypeOK
    <3>. QED  BY <3>2, <3>3
  <2>. QED  BY <2>1, <2>3, TakeKeeps DEF Kept, Wanted
<1>6. ASSUME NEW n \in Nodes, EndCommitsDisputed(n) PROVE Kept'
  <2>1. /\ UNCHANGED <<seq, read>> /\ pc[n] = "commits" /\ pc'[n] = "scores"
        /\ inbox'[n] = Popped(inbox[n], "COMMIT", seq[n])
        /\ received'[n] = Bucket(inbox[n], "DISPUTE_SCORE", seq[n], Others(n))
        /\ \A m \in Nodes \ {n} : /\ pc'[m] = pc[m] /\ received'[m] = received[m]
                                  /\ inbox'[m] = inbox[m]
    BY <1>6 DEF EndCommitsDisputed, TypeOK
  <2>. QED  BY <1>0, <2>1 DEF Kept, Wanted, Bucket, Popped, Same, Others, Reports
<1>7. ASSUME NEW n \in Nodes, EndCommitsAgreed(n) \/ EndScores(n) PROVE Kept'
  <2>1. /\ UNCHANGED read /\ \E all, res : FinishSync(n, all, res)
        /\ \E type : inbox'[n] = Popped(inbox[n], type, seq[n])
        /\ \A m \in Nodes \ {n} : received'[m] = received[m] /\ inbox'[m] = inbox[m]
        /\ pc[n] # "crashed"
    BY <1>7 DEF EndCommitsAgreed, EndScores, TypeOK
  <2>2. /\ seq'[n] = seq[n] + 1 /\ seq[n] \in Nat /\ pc'[n] \in {"poll", "done"}
        /\ \A m \in Nodes \ {n} : pc'[m] = pc[m] /\ seq'[m] = seq[m]
    BY <2>1, FinishFacts DEF TypeOK
  <2>3. ASSUME NEW c \in read[n], c[2].type \in Reports, c[2].from # n, c[2].seq >= seq'[n]
        PROVE  c[2] \in inbox'[n]
    <3>1. c[2].seq # seq[n] /\ c[2].seq >= seq[n]
      BY <1>0, <2>2, <2>3
    <3>2. c[2] \in inbox[n]
      BY <2>1, <2>3, <3>1 DEF Kept, Wanted
    <3>. QED  BY <2>1, <3>1, <3>2 DEF Popped, Same
  <2>. QED  BY <2>1, <2>2, <2>3 DEF Kept, Wanted
<1>8. CASE UNCHANGED vars
  BY <1>8 DEF vars, Kept, Wanted
<1>. QED  BY <1>2, <1>3, <1>4, <1>5, <1>6, <1>7, <1>8 DEF Next, Proceed

-----------------------------------------------------------------------------
(* The theorems. *)

LEMMA InvariantInit == Init => IInv
<1>. SUFFICES ASSUME Init PROVE IInv
  OBVIOUS
<1>1. OneReport /\ SentInOrder /\ OwnReport /\ ReceivedWanted /\ CommitsCollected
  BY DEF Init, OneReport, SentInOrder, OwnReport, ReceivedWanted, CommitsCollected
<1>2. Passed /\ Agreement /\ Ahead
  BY DEF Init, Passed, Agreement, Ahead
<1>. QED  BY <1>1, <1>2, TypeInit DEF IInv

LEMMA InvariantStep == IInv /\ [Next]_vars => IInv'
<1>. SUFFICES ASSUME IInv, [Next]_vars PROVE IInv'
  OBVIOUS
<1>1. TypeOK'
  BY TypeStep DEF IInv
<1>2. ReceivedWanted'
  BY <1>1, WantedStep DEF IInv
<1>3. OneReport' /\ SentInOrder' /\ OwnReport'
  BY <1>1, SentStep DEF IInv
<1>4. CommitsCollected' /\ Passed' /\ Agreement' /\ Ahead'
  BY <1>1, <1>3, AgreeStep DEF IInv
<1>. QED  BY <1>1, <1>2, <1>3, <1>4 DEF IInv

\* The state of every participant and every published message stay well-formed.
THEOREM TypeCorrect == Spec => []TypeOK
<1>1. IInv => TypeOK
  BY DEF IInv
<1>. QED  BY <1>1, InvariantInit, InvariantStep, PTL DEF Spec

\* However messages are reordered, duplicated, echoed or lost and whoever
\* crashes or gives up, the nodes whose barriers were all complete agree on the
\* text and on the stop boundary after the same number of syncs.
THEOREM FullNodesAgree == Spec => []Agreement
<1>1. IInv => Agreement
  BY DEF IInv
<1>. QED  BY <1>1, InvariantInit, InvariantStep, PTL DEF Spec

\* collect_until is a barrier: such a node is never two syncs ahead of anyone.
THEOREM BarrierHolds == Spec => []BarrierSkew
<1>1. IInv => BarrierSkew
  BY SkewFromPassed DEF IInv
<1>. QED  BY <1>1, InvariantInit, InvariantStep, PTL DEF Spec

\* A report read off the wire at any moment counts in its barrier: the inbox
\* of SwarmNode is durable.
THEOREM InboxIsDurable == Spec => []NoReportLost
<1>1. Init => Kept
  BY DEF Init, Kept
<1>2. IInv /\ Kept /\ [Next]_vars => Kept'
  BY InvariantStep, KeptStep DEF IInv
<1>3. IInv /\ Kept => NoReportLost
  <2>. SUFFICES ASSUME IInv, Kept, NEW n \in Nodes, NEW c \in read[n], Wanted(n, c[2]),
                       c[2].from # n
                PROVE  c[2] \in received[n]
    BY DEF NoReportLost, Wanted
  <2>1. c[2].type \in Reports /\ pc[n] # "crashed" /\ c[2].seq >= seq[n]
    BY DEF Wanted, Reports, IInv, TypeOK
  <2>. QED  BY <2>1 DEF Kept, Wanted
<1>. QED  BY <1>1, <1>2, <1>3, InvariantInit, InvariantStep, PTL DEF Spec
=============================================================================
