---------------------------- MODULE MCMembership ----------------------------
(* Instances of Membership for TLC. *)
EXTENDS Membership

\* All clocks right; or the first node's clock ahead of the others' by one.
NoSkew   == [n \in Nodes |-> 0]
OneAhead == [n \in Nodes |-> IF n = 1 THEN 1 ELSE 0]
=============================================================================
