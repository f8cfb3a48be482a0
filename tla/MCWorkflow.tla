------------------------------- MODULE MCWorkflow -------------------------------
(* TransferWorkflow for TLC. *)
EXTENDS TransferWorkflow, TLC

\* Keys are compared for equality only.
Symmetry == Permutations(Keys)
=============================================================================
