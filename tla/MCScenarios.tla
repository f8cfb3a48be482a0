------------------------------ MODULE MCScenarios ------------------------------
(* AccountTransferScenarios for TLC. *)
EXTENDS AccountTransferScenarios, TLC

\* Keys and updates are compared for equality only.
Symmetry == Permutations(Keys) \cup Permutations(Updates)
=============================================================================
