---------------------------- MODULE MCGeneration ----------------------------
(* Instances of Generation for TLC: token 0 is EOS, the prompt is a 5. *)
EXTENDS GenerationInvariants

MCPrompt == [q \in {0} |-> 5]

\* Everybody hears the others.
NoEcho == {link \in Nodes \X Nodes : link[1] # link[2]}
=============================================================================
