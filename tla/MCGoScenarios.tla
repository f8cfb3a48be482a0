----------------------------- MODULE MCGoScenarios -----------------------------
(* GoTransferScenarios for TLC. *)
EXTENDS GoTransferScenarios, TLC

\* Keys and updates are compared for equality only.
Symmetry == Permutations(Keys) \cup Permutations(Updates)
=============================================================================
