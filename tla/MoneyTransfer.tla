---------------------------- MODULE MoneyTransfer ----------------------------
(***************************************************************************)
(* What every transfer workflow of the demo promises, whatever language it *)
(* is written in: money leaves the sender before it reaches the recipient, *)
(* it reaches the recipient or goes back to the sender but never both, and *)
(* the outcome the client sees says which of the two happened.  A transfer *)
(* the client cancels stays where it is, but for what is on its way.       *)
(***************************************************************************)

VARIABLES
    debited,   \* the money left the sender's account
    credited,  \* it reached the recipient's account
    refunded,  \* it went back to the sender's account
    outcome    \* of the transfer: open, completed, failed or cancelled

tvars == << debited, credited, refunded, outcome >>

TransferInit ==
    /\ debited  = FALSE
    /\ credited = FALSE
    /\ refunded = FALSE
    /\ outcome  = "open"

Debit ==
    /\ outcome \in { "open", "cancelled" }
    /\ ~debited
    /\ debited' = TRUE
    /\ UNCHANGED << credited, refunded, outcome >>

Credit ==
    /\ outcome \in { "open", "cancelled" }
    /\ debited /\ ~credited /\ ~refunded
    /\ credited' = TRUE
    /\ UNCHANGED << debited, refunded, outcome >>

Refund ==
    /\ outcome \in { "open", "cancelled" }
    /\ debited /\ ~credited /\ ~refunded
    /\ refunded' = TRUE
    /\ UNCHANGED << debited, credited, outcome >>

\* Success is announced only for money that arrived.
Complete ==
    /\ outcome = "open"
    /\ credited
    /\ outcome' = "completed"
    /\ UNCHANGED << debited, credited, refunded >>

\* Failure is announced only when the sender has the money.
Fail ==
    /\ outcome = "open"
    /\ ~debited \/ refunded
    /\ outcome' = "failed"
    /\ UNCHANGED << debited, credited, refunded >>

\* A client cancels, at any time.
Cancel ==
    /\ outcome = "open"
    /\ outcome' = "cancelled"
    /\ UNCHANGED << debited, credited, refunded >>

TransferNext == Debit \/ Credit \/ Refund \/ Complete \/ Fail \/ Cancel

TransferSpec == TransferInit /\ [][TransferNext]_tvars

\* A transfer goes on until it has an outcome.
TransferFairness == WF_tvars(outcome = "open" /\ TransferNext)

FairTransferSpec == TransferSpec /\ TransferFairness

-----------------------------------------------------------------------------

\* What a client can rely on at any time: money that arrived or went back was
\* taken from the sender, it never did both, and the outcome says where it is.
Promises ==
    /\ credited => debited
    /\ refunded => debited /\ ~credited
    /\ outcome = "completed" => credited
    /\ outcome = "failed" => ~credited /\ (debited => refunded)

\* And for good: an outcome is final, and after one the workflow announced
\* itself no late attempt moves the money of the transfer any more.
OutcomeStands ==
    [][(outcome # "open") =>
          /\ outcome' = outcome
          /\ outcome # "cancelled" => UNCHANGED << debited, credited, refunded >>]_tvars
=============================================================================
