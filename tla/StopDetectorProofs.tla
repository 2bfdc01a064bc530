------------------------- MODULE StopDetectorProofs -------------------------
(***************************************************************************)
(* Theorems about StopDetectorRun, for any tokens, lengths, thresholds and *)
(* number of checks: what freezes the tail of the text, and when.          *)
(***************************************************************************)
EXTENDS StopDetectorRun, StopDetectionProofs

Texts == UNION {[D -> Tokens] : D \in SUBSET GenPos}

LEMMA TextIff ==
  ASSUME NEW s
  PROVE  s \in Texts <=> s \in [DOMAIN s -> Tokens] /\ DOMAIN s \subseteq GenPos
  BY DEF Texts

\* The detector's candidate is the end of the text as EndsText describes it,
\* and there is no other.
LEMMA CandidateEndsText ==
  ASSUME NEW s, NEW c
  PROVE  EndsText(s, c) <=> Committed(s) # {} /\ HasCandidate(s) /\ c = RunStart(s)
<1>. DEFINE last == Max(Committed(s))
            r    == RunStart(s)
<1>1. CASE Committed(s) = {}
  BY <1>1 DEF EndsText
<1>2. CASE Committed(s) # {}
  <2>1. /\ last \in GenPos /\ Frontier(s) = last + 1 /\ r \in GenStart .. last + 1
        /\ \A q \in r .. last : q \in DOMAIN s /\ s[q] = Eos
        /\ \A b \in GenStart .. last + 1 :
             (\A q \in b .. last : q \in DOMAIN s /\ s[q] = Eos) => r <= b
    BY <1>2, RunStartIs
  <2>2. last \in Nat /\ r \in Nat /\ GenStart \in Nat /\ StopRunMin \in Nat \ {0}
        /\ MinGenLength \in Nat
    BY <2>1, StopConstants DEF GenPos, GenEnd
  <2>3. EndsText(s, c) <=>
          /\ c \in GenPos /\ last - c + 1 >= StopRunMin /\ last - GenStart + 1 > MinGenLength
          /\ \A q \in c .. last : q \in DOMAIN s /\ s[q] = Eos
          /\ c > GenStart => ~(c - 1 \in DOMAIN s /\ s[c - 1] = Eos)
    BY <1>2 DEF EndsText
  <2>4. HasCandidate(s) <=> last + 1 - GenStart > MinGenLength /\ last + 1 - r >= StopRunMin
    <3>. HIDE DEF last
    <3>. QED  BY <2>1, <2>2 DEF HasCandidate
  <2>. HIDE DEF last, r
  <2>5. ASSUME EndsText(s, c) PROVE HasCandidate(s) /\ c = r
    <3>1. c \in Nat /\ GenStart <= c /\ c <= last
      BY <2>2, <2>3, <2>5 DEF GenPos
    <3>2. r <= c
      BY <2>1, <2>2, <2>3, <2>5, <3>1
    <3>3. ~(r < c)
      <4>. SUFFICES ASSUME r < c PROVE FALSE
        OBVIOUS
      <4>1. c - 1 \in r .. last /\ c > GenStart
        BY <2>1, <2>2, <3>1
      <4>. QED  BY <2>1, <2>3, <2>5, <4>1
    <3>4. c = r
      BY <2>2, <3>1, <3>2, <3>3
    <3>. QED  BY <2>2, <2>3, <2>4, <2>5, <3>4
  <2>6. ASSUME HasCandidate(s), c = r PROVE EndsText(s, c)
    <3>1. c \in GenPos
      BY <1>2, <2>6, CandidateIs DEF r
    <3>2. last - c + 1 >= StopRunMin /\ last - GenStart + 1 > MinGenLength
      BY <2>2, <2>4, <2>6
    <3>3. ASSUME c > GenStart, c - 1 \in DOMAIN s, s[c - 1] = Eos PROVE FALSE
      <4>1. c - 1 \in GenStart .. last + 1
        BY <2>1, <2>2, <2>6, <3>3
      <4>2. \A q \in c - 1 .. last : q = c - 1 \/ q \in c .. last
        BY <2>2, <2>6
      <4>3. r <= c - 1
        BY <2>1, <2>6, <3>3, <4>1, <4>2
      <4>. QED  BY <2>2, <2>6, <4>3
    <3>. QED  BY <2>1, <2>3, <2>6, <3>1, <3>2, <3>3
  <2>. QED  BY <1>2, <2>5, <2>6 DEF r
<1>. QED  BY <1>1, <1>2

-----------------------------------------------------------------------------
(* The invariant. *)

LEMMA InvariantInit == Init => IInv
<1>. SUFFICES ASSUME Init PROVE IInv
  OBVIOUS
<1>1. /\ DOMAIN shared_x = {} /\ shared_x \in [{} -> Tokens] /\ checked = <<>>
      /\ Len(checked) = 0 /\ det = NewDetector
  BY DEF Init
<1>2. TypeOK
  <2>1. shared_x \in Texts
    BY <1>1, TextIff
  <2>2. det \in [stop : {NoPos} \cup GenPos, pend : {NoPos} \cup GenPos, confirms : 0 .. MaxChecks]
    BY <1>1, RunConstants DEF NewDetector
  <2>3. checked \in Seq(Texts)
    BY <1>1
  <2>. QED  BY <2>1, <2>2, <2>3 DEF TypeOK, Texts
<1>3. Tracks /\ Counted /\ CountedAll /\ StopConfirmed
  BY <1>1, StopConstants, RunConstants
     DEF Tracks, Counted, CountedAll, StopConfirmed, NewDetector
<1>. QED  BY <1>2, <1>3 DEF IInv

\* What a sync does: the text stays a text and never shrinks, and it is checked.
LEMMA SyncFacts ==
  ASSUME IInv, NEW D \in SUBSET GenPos, NEW adopted \in [D -> Tokens], Sync(adopted)
  PROVE  /\ shared_x' \in Texts /\ DOMAIN shared_x \subseteq DOMAIN shared_x'
         /\ checked' = Append(checked, shared_x') /\ checked' \in Seq(Texts)
         /\ Len(checked) \in Nat /\ Len(checked') = Len(checked) + 1 /\ Len(checked') <= MaxChecks
         /\ \A j \in 1 .. Len(checked) : checked'[j] = checked[j]
         /\ checked'[Len(checked')] = shared_x'
         /\ det' = Check(det, shared_x')
<1>1. shared_x \in Texts /\ checked \in Seq(Texts)
  BY DEF IInv, TypeOK, Texts
<1>2. shared_x' = [q \in DOMAIN shared_x \cup D |->
                     IF q \in D THEN adopted[q] ELSE shared_x[q]]
  BY DEF Sync
<1>3. shared_x \in [DOMAIN shared_x -> Tokens] /\ DOMAIN shared_x \subseteq GenPos
  BY <1>1, TextIff
<1>4. shared_x' \in [DOMAIN shared_x \cup D -> Tokens] /\ DOMAIN shared_x' = DOMAIN shared_x \cup D
  BY <1>2, <1>3
<1>5. shared_x' \in Texts
  BY <1>3, <1>4, TextIff
<1>6. checked' = Append(checked, shared_x') /\ Len(checked) < MaxChecks /\ det' = Check(det, shared_x')
  BY DEF Sync
<1>. HIDE DEF Texts
<1>7. /\ checked' \in Seq(Texts) /\ Len(checked) \in Nat /\ Len(checked') = Len(checked) + 1
      /\ \A j \in 1 .. Len(checked) : checked'[j] = checked[j]
      /\ checked'[Len(checked')] = shared_x'
  BY <1>1, <1>5, <1>6
<1>. QED  BY <1>4, <1>5, <1>6, <1>7, RunConstants

\* The last k + 1 checks saw the text end at c iff this one does and the k
\* before it did.
LEMMA OneMoreCheck ==
  ASSUME IInv, NEW D \in SUBSET GenPos, NEW adopted \in [D -> Tokens], Sync(adopted),
         NEW c, NEW k \in 0 .. Len(checked)
  PROVE  LastChecks(c, k + 1)' <=> EndsText(shared_x', c) /\ LastChecks(c, k)
<1>. DEFINE L == Len(checked)
<1>1. /\ L \in Nat /\ Len(checked') = L + 1 /\ checked'[L + 1] = shared_x'
      /\ \A j \in 1 .. L : checked'[j] = checked[j]
  BY SyncFacts
<1>. HIDE DEF L
<1>2. LastChecks(c, k) <=> \A j \in L - k + 1 .. L : EndsText(checked[j], c)
  BY DEF LastChecks, L
<1>3. LastChecks(c, k + 1)' <=> \A j \in L + 1 - (k + 1) + 1 .. L + 1 : EndsText(checked'[j], c)
  BY <1>1 DEF LastChecks
<1>4. /\ k \in 0 .. L
      /\ \A j : j \in L + 1 - (k + 1) + 1 .. L + 1 <=> j \in L - k + 1 .. L \/ j = L + 1
  BY <1>1 DEF L
<1>5. \A j \in L - k + 1 .. L : checked'[j] = checked[j]
  BY <1>1, <1>4
<1>. QED  BY <1>1, <1>2, <1>3, <1>4, <1>5

LEMMA SyncStep ==
  ASSUME IInv, NEW D \in SUBSET GenPos, NEW adopted \in [D -> Tokens], Sync(adopted)
  PROVE  IInv'
<1>. DEFINE L == Len(checked)
            x == shared_x'
<1>1. /\ x \in Texts /\ DOMAIN shared_x \subseteq DOMAIN x /\ checked' \in Seq(Texts)
      /\ L \in Nat /\ Len(checked') = L + 1 /\ L + 1 <= MaxChecks
      /\ \A j \in 1 .. L : checked'[j] = checked[j]
      /\ checked'[L + 1] = x /\ det' = Check(det, x)
  BY SyncFacts
<1>2. /\ det \in [stop : {NoPos} \cup GenPos, pend : {NoPos} \cup GenPos, confirms : 0 .. MaxChecks]
      /\ det.stop \in {NoPos} \cup GenPos /\ det.pend \in {NoPos} \cup GenPos
      /\ det.confirms \in Nat /\ det.confirms <= L /\ GenPos \subseteq Nat
      /\ StopConfirmations \in Nat \ {0} /\ MaxChecks \in Nat
  BY StopConstants, RunConstants DEF IInv, TypeOK, Counted, GenPos
<1>3. ASSUME NEW k \in 1 .. L + 1 PROVE k - 1 \in 0 .. L /\ (k - 1) + 1 = k
  BY <1>1
<1>4. \* The part about the text alone.
      ASSUME det' \in [stop : {NoPos} \cup GenPos, pend : {NoPos} \cup GenPos,
                       confirms : 0 .. MaxChecks]
      PROVE  TypeOK'
  BY <1>1, <1>4 DEF TypeOK, Texts
<1>5. \* A boundary that does not move stays confirmed.
      ASSUME det'.stop = det.stop PROVE StopConfirmed'
  <2>. SUFFICES ASSUME det.stop # NoPos
                PROVE  \E k \in StopConfirmations .. L + 1 :
                         \A j \in k - StopConfirmations + 1 .. k : EndsText(checked'[j], det.stop)
    BY <1>1, <1>5 DEF StopConfirmed
  <2>1. PICK k \in StopConfirmations .. L :
          \A j \in k - StopConfirmations + 1 .. k : EndsText(checked[j], det.stop)
    BY DEF IInv, StopConfirmed
  <2>2. k \in StopConfirmations .. L + 1 /\ \A j \in k - StopConfirmations + 1 .. k : j \in 1 .. L
    BY <1>1, <1>2
  <2>. QED  BY <1>1, <2>1, <2>2
<1>6. CASE Committed(x) = {}
  <2>1. DOMAIN shared_x = {} /\ DOMAIN x = {}
    BY <1>1, <1>6, TextIff DEF Committed
  <2>2. det = NewDetector /\ det' = NewDetector
    BY <1>1, <1>6, <2>1 DEF IInv, Tracks, Check
  <2>3. \A c : ~EndsText(x, c)
    BY <1>6, CandidateEndsText
  <2>4. TypeOK' /\ Tracks' /\ StopConfirmed'
    BY <1>1, <1>2, <1>4, <1>5, <2>2 DEF Tracks
  <2>5. Counted'
    BY <1>1, <2>2 DEF Counted, NewDetector
  <2>6. ASSUME NEW c \in GenPos, NEW k \in 1 .. L + 1 PROVE ~LastChecks(c, k)'
    <3>1. LastChecks(c, (k - 1) + 1)' => EndsText(x, c)
      BY <1>3, OneMoreCheck
    <3>. QED  BY <1>3, <2>3, <3>1
  <2>7. CountedAll'
    BY <1>1, <1>2, <2>2, <2>6 DEF CountedAll, NewDetector
  <2>. QED  BY <2>4, <2>5, <2>7 DEF IInv
<1>7. CASE Committed(x) # {} /\ ~HasCandidate(x)
  <2>1. det' = [det EXCEPT !.pend = NoPos, !.confirms = 0]
    BY <1>1, <1>7 DEF Check
  <2>2. det'.stop = det.stop /\ det'.pend = NoPos /\ det'.confirms = 0
    BY <1>2, <2>1
  <2>3. \A c : ~EndsText(x, c)
    BY <1>7, CandidateEndsText
  <2>4. TypeOK'
    <3>1. det' = [stop |-> det.stop, pend |-> NoPos, confirms |-> 0]
      BY <1>2, <2>1
    <3>2. 0 \in 0 .. MaxChecks
      BY <1>2
    <3>. QED  BY <1>2, <1>4, <3>1, <3>2
  <2>5. Tracks' /\ Counted' /\ StopConfirmed'
    BY <1>1, <1>5, <1>7, <2>2 DEF Tracks, Counted, Committed
  <2>6. ASSUME NEW c \in GenPos, NEW k \in 1 .. L + 1 PROVE ~LastChecks(c, k)'
    <3>1. LastChecks(c, (k - 1) + 1)' => EndsText(x, c)
      BY <1>3, OneMoreCheck
    <3>. QED  BY <1>3, <2>3, <3>1
  <2>7. CountedAll'
    <3>1. ~(det'.confirms >= StopConfirmations) /\ Len(checked') = L + 1
      BY <1>1, <1>2, <2>2
    <3>. QED  BY <2>6, <3>1 DEF CountedAll
  <2>. QED  BY <2>4, <2>5, <2>7 DEF IInv
<1>8. CASE Committed(x) # {} /\ HasCandidate(x)
  <2>c. PICK c : c = RunStart(x)
    OBVIOUS
  <2>k. PICK k : k = Confirms(det, c)
    OBVIOUS
  <2>1. det' = [stop |-> Lowered(det.stop, c, k), pend |-> c, confirms |-> k]
    BY <1>1, <1>8, <2>c, <2>k DEF Check
  <2>2. c \in GenPos /\ c \in Nat /\ c # NoPos
    <3>1. c \in GenPos
      BY <1>8, <2>c, CandidateIs
    <3>. QED  BY <1>2, <3>1 DEF NoPos
  <2>3. EndsText(x, c) /\ \A b : EndsText(x, b) => b = c
    BY <1>8, <2>c, CandidateEndsText
  <2>4. k \in 1 .. L + 1 /\ k - 1 \in 0 .. L /\ (k - 1) + 1 = k
    BY <1>1, <1>2, <2>k DEF Confirms
  <2>5. LastChecks(c, k)'
    <3>1. LastChecks(c, k - 1)
      <4>1. CASE c = det.pend
        <5>1. k - 1 = det.confirms
          BY <1>2, <2>k, <4>1 DEF Confirms
        <5>. QED  BY <2>2, <4>1, <5>1 DEF IInv, Counted
      <4>2. CASE c # det.pend
        <5>1. k - 1 = 0
          BY <2>k, <4>2 DEF Confirms
        <5>. QED  BY <1>1, <5>1 DEF LastChecks
      <4>. QED  BY <4>1, <4>2
    <3>2. LastChecks(c, (k - 1) + 1)'
      BY <2>3, <2>4, <3>1, OneMoreCheck
    <3>. QED  BY <2>4, <3>2
  <2>6. Lowered(det.stop, c, k) \in {NoPos} \cup GenPos
    BY <1>2, <2>2 DEF Lowered
  <2>7. TypeOK'
    BY <1>1, <1>2, <1>4, <2>1, <2>2, <2>4, <2>6
  <2>8. det'.stop = Lowered(det.stop, c, k) /\ det'.pend = c /\ det'.confirms = k
    BY <2>1
  <2>9. Tracks' /\ Counted'
    <3>1. DOMAIN x # {}
      BY <1>8 DEF Committed
    <3>2. LastChecks(det.pend, det.confirms)'
      BY <2>5, <2>8 DEF LastChecks
    <3>. QED  BY <1>1, <2>2, <2>4, <2>8, <3>1, <3>2 DEF Tracks, Counted
  <2>10. ASSUME NEW b \in GenPos, NEW j \in 1 .. L + 1, LastChecks(b, j)'
         PROVE  det'.pend = b /\ det'.confirms >= j
    <3>1. EndsText(x, b) /\ LastChecks(b, j - 1)
      <4>1. LastChecks(b, (j - 1) + 1)'
        BY <1>3, <2>10
      <4>. QED  BY <1>3, <4>1, OneMoreCheck
    <3>2. b = c
      BY <2>3, <3>1
    <3>3. CASE j = 1
      BY <2>4, <2>8, <3>2, <3>3
    <3>4. CASE j # 1
      <4>1. j - 1 \in 1 .. L
        BY <1>1, <3>4
      <4>2. det.pend = c /\ det.confirms >= j - 1
        BY <2>2, <3>1, <3>2, <4>1 DEF IInv, CountedAll
      <4>. QED  BY <1>2, <2>8, <2>k, <3>2, <4>2 DEF Confirms
    <3>. QED  BY <3>3, <3>4
  <2>11. CountedAll'
    <3>1. k >= StopConfirmations => det'.stop # NoPos /\ det'.stop <= c
      <4>1. det.stop = NoPos \/ det.stop \in Nat
        BY <1>2
      <4>. QED  BY <2>2, <2>8, <4>1 DEF Lowered
    <3>. QED  BY <1>1, <2>8, <2>10, <3>1 DEF CountedAll
  <2>12. StopConfirmed'
    <3>1. CASE det'.stop = det.stop
      BY <1>5, <3>1
    <3>2. CASE det'.stop # det.stop
      <4>1. det'.stop = c /\ k >= StopConfirmations
        BY <2>8, <3>2 DEF Lowered
      <4>2. \A j \in L + 1 - k + 1 .. L + 1 : EndsText(checked'[j], c)
        <5>1. Len(checked') = L + 1 /\ L \in Nat
          BY <1>1
        <5>. HIDE DEF L
        <5>. QED  BY <2>4, <2>5, <5>1 DEF LastChecks
      <4>3. L + 1 \in StopConfirmations .. L + 1
            /\ \A j \in L + 1 - StopConfirmations + 1 .. L + 1 : j \in L + 1 - k + 1 .. L + 1
        BY <1>1, <1>2, <2>4, <4>1
      <4>4. \A j \in L + 1 - StopConfirmations + 1 .. L + 1 : EndsText(checked'[j], det'.stop)
        BY <4>1, <4>2, <4>3
      <4>5. Len(checked') = L + 1 /\ L \in Nat /\ StopConfirmations \in Nat
        BY <1>1, <1>2
      <4>. HIDE DEF L
      <4>. QED  BY <4>3, <4>4, <4>5 DEF StopConfirmed
    <3>. QED  BY <3>1, <3>2
  <2>. QED  BY <2>7, <2>9, <2>11, <2>12 DEF IInv
<1>. QED  BY <1>6, <1>7, <1>8

LEMMA InvariantStep == IInv /\ [Next]_vars => IInv'
<1>. SUFFICES ASSUME IInv, [Next]_vars PROVE IInv'
  OBVIOUS
<1>1. CASE Next
  BY <1>1, SyncStep DEF Next
<1>2. CASE UNCHANGED vars
  BY <1>2 DEF vars, IInv, TypeOK, Tracks, Counted, CountedAll, LastChecks, StopConfirmed
<1>. QED  BY <1>1, <1>2

-----------------------------------------------------------------------------
(* The theorems. *)

\* Boundary and candidate are generated positions, at every check of any round.
THEOREM DetectorTypeCorrect == Spec => []TypeOK
<1>1. IInv => TypeOK
  BY DEF IInv
<1>. QED  BY <1>1, InvariantInit, InvariantStep, PTL DEF Spec

\* check freezes a position only after StopConfirmations checks in a row saw the
\* text end there.
THEOREM StopIsConfirmed == Spec => []StopConfirmed
<1>1. IInv => StopConfirmed
  BY DEF IInv
<1>. QED  BY <1>1, InvariantInit, InvariantStep, PTL DEF Spec

\* And an end of text seen at StopConfirmations checks in a row is honoured.
THEOREM StopIsHonoured == Spec => []StopNotMissed
<1>1. IInv => StopNotMissed
  <2>. SUFFICES ASSUME IInv, NEW c \in GenPos, Len(checked) >= StopConfirmations,
                       LastChecks(c, StopConfirmations)
                PROVE  det.stop # NoPos /\ det.stop <= c
    BY DEF StopNotMissed, LastChecks
  <2>1. StopConfirmations \in 1 .. Len(checked)
    BY StopConstants DEF IInv, TypeOK
  <2>. QED  BY <2>1 DEF IInv, CountedAll
<1>. QED  BY <1>1, InvariantInit, InvariantStep, PTL DEF Spec

\* The boundary is never withdrawn and never moves forward.
THEOREM StopOnlyMovesDown == Spec => StopOnlyLowered
<1>1. IInv /\ [Next]_vars =>
        [det.stop # NoPos => det'.stop # NoPos /\ det'.stop <= det.stop]_vars
  <2>. SUFFICES ASSUME IInv, Next, det.stop # NoPos
                PROVE  det'.stop # NoPos /\ det'.stop <= det.stop
    OBVIOUS
  <2>1. det' = Check(det, shared_x')
    BY DEF Next, Sync
  <2>2. det \in Detectors
    BY StopConstants, RunConstants DEF IInv, TypeOK, Detectors, GenPos
  <2>. QED  BY <2>1, <2>2, CheckLowers
<1>. QED  BY <1>1, InvariantInit, InvariantStep, PTL DEF Spec, StopOnlyLowered
=============================================================================
