-------------------------- MODULE StopDetectorRun --------------------------
(***************************************************************************)
(* A StopDetector over the life of a round: once per sync the shared state *)
(* changes by what merge_consensus adopted, which may fill positions in    *)
(* any order inside the block and overwrite settled ones (a re-masked      *)
(* position is committed again), and check is called on the result.        *)
(***************************************************************************)
EXTENDS StopDetection, Sequences

CONSTANTS Tokens,     \* token ids, Eos among them
          MaxChecks   \* bound: number of syncs of the round

ASSUME RunConstants == Eos \in Tokens /\ MaxChecks \in Nat

VARIABLES shared_x,   \* generated positions settled so far -> token
          det,        \* the detector's fields
          checked     \* history: shared_x at each check so far

vars == <<shared_x, det, checked>>

Init ==
  /\ shared_x = [q \in {} |-> Eos]
  /\ det = NewDetector
  /\ checked = <<>>

\* One sync: the positions of adopted take their new token, then check runs.
Sync(adopted) ==
  /\ Len(checked) < MaxChecks
  /\ shared_x' = [q \in DOMAIN shared_x \cup DOMAIN adopted |->
                    IF q \in DOMAIN adopted THEN adopted[q] ELSE shared_x[q]]
  /\ det' = Check(det, shared_x')
  /\ checked' = Append(checked, shared_x')

Next == \E D \in SUBSET GenPos : \E adopted \in [D -> Tokens] : Sync(adopted)

Spec == Init /\ [][Next]_vars

-----------------------------------------------------------------------------

\* The stop boundary and the candidate being confirmed are generated positions:
\* a run of EOS tokens never starts in the prompt, nor at the open end of the
\* text, where check would freeze a position past the sequence.
TypeOK ==
  /\ shared_x \in UNION {[D -> Tokens] : D \in SUBSET GenPos}
  /\ det \in [stop : {NoPos} \cup GenPos, pend : {NoPos} \cup GenPos, confirms : 0 .. MaxChecks]
  /\ checked \in Seq(UNION {[D -> Tokens] : D \in SUBSET GenPos})

\* Position c ends the text of s, stated without the detector's scan: from c
\* up to the last settled position everything is a settled EOS, at least
\* StopRunMin of them, what precedes c is not, and enough was generated.
EndsText(s, c) ==
  LET last == Max(Committed(s))
  IN  /\ Committed(s) # {} /\ c \in GenPos
      /\ last - c + 1 >= StopRunMin
      /\ last - GenStart + 1 > MinGenLength
      /\ \A q \in c .. last : q \in DOMAIN s /\ s[q] = Eos
      /\ c > GenStart => ~(c - 1 \in DOMAIN s /\ s[c - 1] = Eos)

\* "Confirmed on two consecutive checks": the stop boundary was the end of the
\* text at StopConfirmations checks in a row, so one transient run of EOS
\* guesses, or two runs that start at different places, never freezes anything.
StopConfirmed ==
  det.stop # NoPos =>
    \E k \in StopConfirmations .. Len(checked) :
      \A j \in k - StopConfirmations + 1 .. k : EndsText(checked[j], det.stop)

\* Once set, the stop boundary is never withdrawn and never moves forward:
\* positions every participant froze are not reopened by a later check.
StopOnlyLowered == [][det.stop # NoPos => det'.stop # NoPos /\ det'.stop <= det.stop]_vars

\* A stop that is still being confirmed is honoured at the very check that
\* confirms it: no end of text survives StopConfirmations checks in a row
\* without the boundary being there or before it.
StopNotMissed ==
  \A c \in GenPos :
    (Len(checked) >= StopConfirmations /\
     \A j \in Len(checked) - StopConfirmations + 1 .. Len(checked) : EndsText(checked[j], c))
      => det.stop # NoPos /\ det.stop <= c

-----------------------------------------------------------------------------
(* The inductive invariant behind the theorems of StopDetectorProofs. *)

\* The last k checks all saw the text end at c.
LastChecks(c, k) ==
  \A j \in Len(checked) - k + 1 .. Len(checked) : EndsText(checked[j], c)

\* At most MaxChecks checks were made; before anything is
\* settled the detector is as new.
Tracks ==
  /\ Len(checked) <= MaxChecks
  /\ DOMAIN shared_x = {} => det = NewDetector

\* The candidate was seen at the last _pending_confirms checks ...
Counted ==
  /\ det.confirms <= Len(checked)
  /\ det.pend = NoPos => det.confirms = 0
  /\ det.pend # NoPos => LastChecks(det.pend, det.confirms)

\* ... no candidate was seen at more of them, and a candidate seen often enough
\* has become the boundary.
CountedAll ==
  /\ \A c \in GenPos : \A k \in 1 .. Len(checked) :
       LastChecks(c, k) => det.pend = c /\ det.confirms >= k
  /\ det.confirms >= StopConfirmations => det.stop # NoPos /\ det.stop <= det.pend

IInv == TypeOK /\ Tracks /\ Counted /\ CountedAll /\ StopConfirmed
=============================================================================
