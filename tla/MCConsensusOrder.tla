-------------------------- MODULE MCConsensusOrder --------------------------
(* Instances of ConsensusOrder for TLC. *)
EXTENDS ConsensusOrder

\* Ten bits hold every sum of the instance: run consensus_exact is one of those
\* that the theorems of ConsensusOrderProofs are about.
ASSUME TenBitsExact == Mantissa >= 10 => SumsExact

MCLevels == {1, 4}
MCRoundLevels == {1, 3, 4, 5}
=============================================================================
