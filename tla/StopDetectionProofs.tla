------------------------ MODULE StopDetectionProofs ------------------------
(***************************************************************************)
(* Lemmas about StopDetection for every text: what the scan for the run of *)
(* EOS tokens finds, and what one check may do to the detector.            *)
(***************************************************************************)
EXTENDS StopDetection, FiniteSetLemmas, TLAPS

-----------------------------------------------------------------------------
(* One check. *)

\* A non-empty set of generated positions has a greatest one, and Max is it.
LEMMA MaxGenPos ==
  ASSUME NEW S \in SUBSET GenPos, S # {}
  PROVE  Max(S) \in S
<1>1. GenStart \in Nat /\ GenEnd \in Nat /\ GenPos = GenStart .. GenEnd - 1
  BY StopConstants DEF GenEnd, GenPos
<1>2. IsFiniteSet(GenPos) /\ GenPos \subseteq Int
  BY <1>1, FS_Interval
<1>3. IsFiniteSet(S)
  BY <1>2, FS_Subset
<1>. QED  BY <1>2, <1>3, MaxFinite

\* One check keeps the detector well-formed.
LEMMA CheckType ==
  ASSUME NEW d \in Detectors, NEW x
  PROVE  Check(d, x) \in Detectors
<1>. DEFINE c == RunStart(x)
<1>1. CASE Committed(x) = {}
  BY <1>1 DEF Check
<1>2. CASE Committed(x) # {} /\ ~HasCandidate(x)
  BY <1>2 DEF Check, Detectors
<1>3. CASE Committed(x) # {} /\ HasCandidate(x)
  <2>1. Max(Committed(x)) \in GenPos
    BY <1>3, MaxGenPos DEF Committed
  <2>2. Frontier(x) \in Nat /\ GenStart <= Frontier(x) /\ GenStart \in Nat
    BY <2>1, StopConstants DEF Frontier, GenPos, GenEnd
  <2>3. c \in Nat
    <3>. DEFINE S == {s \in GenStart .. Frontier(x) :
                        \A q \in s .. Frontier(x) - 1 : q \in DOMAIN x /\ x[q] = Eos}
    <3>1. S \subseteq Nat
      BY <2>2
    <3>2. Frontier(x) \in S
      BY <2>2
    <3>3. Min(S) \in S
      <4>. HIDE DEF S
      <4>. QED  BY <3>1, <3>2, MinNat
    <3>. QED  BY <3>1, <3>3 DEF RunStart
  <2>4. Confirms(d, c) \in Nat
    BY DEF Confirms, Detectors
  <2>5. Lowered(d.stop, c, Confirms(d, c)) \in Nat \cup {NoPos}
    BY <2>3 DEF Lowered, Detectors
  <2>6. Check(d, x) = [stop |-> Lowered(d.stop, c, Confirms(d, c)), pend |-> c,
                       confirms |-> Confirms(d, c)]
    BY <1>3 DEF Check
  <2>. HIDE DEF c
  <2>. QED  BY <2>3, <2>4, <2>5, <2>6 DEF Detectors
<1>. QED  BY <1>1, <1>2, <1>3

-----------------------------------------------------------------------------
(* What check does, in terms of the text. *)

\* The scan: the frontier is just past the last settled position, and the run
\* is the longest stretch of settled EOS tokens that ends there.
LEMMA RunStartIs ==
  ASSUME NEW x, Committed(x) # {}
  PROVE  LET last == Max(Committed(x)) IN
         /\ last \in GenPos /\ last \in DOMAIN x /\ Frontier(x) = last + 1
         /\ RunStart(x) \in GenStart .. last + 1
         /\ \A q \in RunStart(x) .. last : q \in DOMAIN x /\ x[q] = Eos
         /\ \A s \in GenStart .. last + 1 :
              (\A q \in s .. last : q \in DOMAIN x /\ x[q] = Eos) => RunStart(x) <= s
<1>. DEFINE last == Max(Committed(x))
            S    == {s \in GenStart .. Frontier(x) :
                       \A q \in s .. Frontier(x) - 1 : q \in DOMAIN x /\ x[q] = Eos}
<1>1. last \in GenPos /\ last \in DOMAIN x
  BY MaxGenPos DEF Committed
<1>2. last \in Nat /\ GenStart \in Nat /\ GenStart <= last
  BY <1>1, StopConstants DEF GenPos, GenEnd
<1>3. Frontier(x) = last + 1
  BY DEF Frontier
<1>. HIDE DEF last
<1>4. Frontier(x) - 1 = last
  BY <1>2, <1>3
<1>5. S \subseteq Nat /\ Frontier(x) \in S
  BY <1>2, <1>3
<1>6. Min(S) \in S /\ \A s \in S : Min(S) <= s
  <2>. HIDE DEF S
  <2>. QED  BY <1>5, MinNat
<1>7. RunStart(x) = Min(S)
  BY DEF RunStart
<1>8. S = {s \in GenStart .. last + 1 : \A q \in s .. last : q \in DOMAIN x /\ x[q] = Eos}
  BY <1>3, <1>4
<1>. QED  BY <1>1, <1>3, <1>6, <1>7, <1>8 DEF last

\* The boundary, once set, is neither withdrawn nor raised by a check.
LEMMA CheckLowers ==
  ASSUME NEW d \in Detectors, NEW x, d.stop # NoPos
  PROVE  Check(d, x).stop # NoPos /\ Check(d, x).stop <= d.stop
<1>0. d.stop \in Nat
  BY DEF Detectors
<1>1. CASE Committed(x) = {} \/ ~HasCandidate(x)
  BY <1>0, <1>1 DEF Check, Detectors
<1>2. CASE Committed(x) # {} /\ HasCandidate(x)
  <2>1. RunStart(x) \in Nat
    BY <1>2, RunStartIs, StopConstants DEF GenPos, GenEnd
  <2>2. Check(d, x).stop = Lowered(d.stop, RunStart(x), Confirms(d, RunStart(x)))
    BY <1>2 DEF Check
  <2>. QED  BY <1>0, <2>1, <2>2 DEF Lowered, NoPos
<1>. QED  BY <1>1, <1>2

\* A candidate is a generated position, with at least StopRunMin tokens after it.
LEMMA CandidateIs ==
  ASSUME NEW x, Committed(x) # {}, HasCandidate(x)
  PROVE  RunStart(x) \in GenPos /\ RunStart(x) <= Max(Committed(x))
<1>. DEFINE last == Max(Committed(x))
<1>1. last \in GenPos /\ Frontier(x) = last + 1 /\ RunStart(x) \in GenStart .. last + 1
  BY RunStartIs
<1>2. Frontier(x) - RunStart(x) >= 1
  BY StopConstants, <1>1 DEF HasCandidate, GenPos, GenEnd
<1>. HIDE DEF last
<1>3. RunStart(x) \in GenPos /\ RunStart(x) <= last
  BY <1>1, <1>2, StopConstants DEF GenPos, GenEnd
<1>. QED  BY <1>3 DEF last
=============================================================================
