--------------------------- MODULE StopDetection ---------------------------
(***************************************************************************)
(* StopDetector.check of diffusion/stop_detection.py as a pure operator on *)
(* the detector's three fields and the converged positions.                *)
(*                                                                         *)
(* det is [stop, pend, confirms] for stop_pos, _pending_stop_pos and       *)
(* _pending_confirms; None is written NoPos.                               *)
(***************************************************************************)
EXTENDS Integers, FiniteSets, FiniteSetsExt

CONSTANTS Eos,                \* cfg.eos_id
          GenStart,           \* first generated position: the prompt's length
          GenLength,          \* number of generated positions
          MinGenLength,       \* cfg.min_gen_length
          StopRunMin,         \* cfg.stop_run_min
          StopConfirmations   \* cfg.stop_confirmations

ASSUME StopConstants ==
  /\ GenStart \in Nat /\ GenLength \in Nat \ {0}
  /\ MinGenLength \in Nat /\ StopRunMin \in Nat \ {0}
  /\ StopConfirmations \in Nat \ {0}

NoPos  == -1
GenEnd == GenStart + GenLength
GenPos == GenStart .. GenEnd - 1

\* The values of the detector's fields.
Detectors == [stop : Nat \cup {NoPos}, pend : Nat \cup {NoPos}, confirms : Nat]

\* A fresh StopDetector.
NewDetector == [stop |-> NoPos, pend |-> NoPos, confirms |-> 0]

\* The generated positions committed so far, and the end of the furthest.
Committed(shared_x) == GenPos \cap DOMAIN shared_x
Frontier(shared_x)  == Max(Committed(shared_x)) + 1

\* The start of the contiguous run of EOS tokens that ends at the frontier.
RunStart(shared_x) ==
  Min({s \in GenStart .. Frontier(shared_x) :
         \A q \in s .. Frontier(shared_x) - 1 :
           q \in DOMAIN shared_x /\ shared_x[q] = Eos})

\* The length of the run is not looked at.
HasCandidate_any_run(shared_x) == Frontier(shared_x) - GenStart > MinGenLength

\* The run is long enough, and the frontier far enough, to propose a stop.
HasCandidate(shared_x) ==
  /\ Frontier(shared_x) - GenStart > MinGenLength
  /\ Frontier(shared_x) - RunStart(shared_x) >= StopRunMin

\* A candidate replaced without restarting the count.
Confirms_kept(det, c) == det.confirms + 1

\* Confirmations of candidate c once this check has seen it.
Confirms(det, c) == IF c = det.pend THEN det.confirms + 1 ELSE 1

\* Any confirmed candidate replaces the stop position.
Lowered_any(stop, c, k) == IF k >= StopConfirmations THEN c ELSE stop

\* One confirmation too many is asked for.
Lowered_late(stop, c, k) ==
  IF k > StopConfirmations /\ (stop = NoPos \/ c < stop) THEN c ELSE stop

\* The stop position after candidate c has been confirmed k times: set once
\* confirmed often enough, afterwards only ever lowered.
Lowered(stop, c, k) ==
  IF k >= StopConfirmations /\ (stop = NoPos \/ c < stop) THEN c ELSE stop

\* The detector after check(shared_x, gen_start, gen_end).
Check(det, shared_x) ==
  IF Committed(shared_x) = {} THEN det
  ELSE IF ~HasCandidate(shared_x)
       THEN [det EXCEPT !.pend = NoPos, !.confirms = 0]
       ELSE LET c == RunStart(shared_x)
                k == Confirms(det, c)
            IN  [stop |-> Lowered(det.stop, c, k), pend |-> c, confirms |-> k]
=============================================================================
