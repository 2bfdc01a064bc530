--------------------------- MODULE ReplicatedText ---------------------------
(***************************************************************************)
(* What a generation round promises: one text, replicated.  The nodes      *)
(* settle it sync by sync; the first node to leave a sync decides what the *)
(* sync adds, and everyone who leaves it later takes the same result.  A   *)
(* node that gave up waiting has strayed: nothing ties its text to the     *)
(* others' any more, but it, too, only adds to it.                         *)
(***************************************************************************)
EXTENDS Integers

CONSTANTS Nodes, Prompt, NoStop

VARIABLES at,       \* at[n]: the syncs node n has left
          text,     \* text[n]: position -> token
          stop,     \* stop[n]: the first position of the frozen tail, or NoStop
          strayed   \* the nodes that left some sync without hearing everybody

vars == <<at, text, stop, strayed>>

Init ==
  /\ at = [n \in Nodes |-> 0]
  /\ text = [n \in Nodes |-> Prompt]
  /\ stop = [n \in Nodes |-> NoStop]
  /\ strayed = {}

\* Node n leaves its sync: no position of its text is lost, and its boundary is
\* neither withdrawn nor raised.  Nobody else moves.
Leave(n) ==
  /\ at' = [at EXCEPT ![n] = @ + 1]
  /\ text' = [text EXCEPT ![n] = text'[n]]
  /\ DOMAIN text[n] \subseteq DOMAIN text'[n]
  /\ stop' = [stop EXCEPT ![n] = stop'[n]]
  /\ stop[n] # NoStop => stop'[n] # NoStop /\ stop'[n] <= stop[n]

\* A node in step with the others leaves the sync: everyone has reached it,
\* and who left it before, in step, fixed the result.
Advance(n) ==
  /\ n \notin strayed
  /\ \A m \in Nodes : at[n] <= at[m]
  /\ Leave(n)
  /\ \A m \in Nodes \ strayed : at[m] = at[n] + 1 => text'[n] = text[m] /\ stop'[n] = stop[m]
  /\ UNCHANGED strayed

\* A node strays, in a sync or as it leaves one, or a strayed node moves on.
Stray(n) ==
  /\ strayed' = strayed \cup {n}
  /\ Leave(n) \/ UNCHANGED <<at, text, stop>>

Next == \E n \in Nodes : Advance(n) \/ Stray(n)

Spec == Init /\ [][Next]_vars
=============================================================================
