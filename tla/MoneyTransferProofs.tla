------------------------- MODULE MoneyTransferProofs -------------------------
(***************************************************************************)
(* What follows from the abstract transfer alone, and so holds of every    *)
(* workflow that implements it.                                            *)
(***************************************************************************)
EXTENDS MoneyTransfer, TLAPS

\* The initial state of a transfer is one in which nothing is promised yet.
LEMMA InitPromises == TransferInit => Promises
  BY Zenon DEF TransferInit, Promises

\* Every step of a transfer keeps what was promised.
LEMMA StepPromises == Promises /\ [TransferNext]_tvars => Promises'
  <1>. SUFFICES ASSUME Promises, [TransferNext]_tvars PROVE Promises'
    OBVIOUS
  <1>1. CASE Debit
    BY <1>1 DEF Debit, Promises
  <1>2. CASE Credit
    BY <1>2 DEF Credit, Promises
  <1>3. CASE Refund
    BY <1>3 DEF Refund, Promises
  <1>4. CASE Complete
    BY <1>4 DEF Complete, Promises
  <1>5. CASE Fail
    BY <1>5 DEF Fail, Promises
  <1>6. CASE Cancel
    BY <1>6 DEF Cancel, Promises
  <1>7. CASE UNCHANGED tvars
    BY <1>7 DEF tvars, Promises
  <1>. QED  BY <1>1, <1>2, <1>3, <1>4, <1>5, <1>6, <1>7 DEF TransferNext

\* Money that arrived or went back was taken from the sender and never did
\* both, and the outcome a client sees says where it is.
THEOREM PromisesHold == TransferSpec => []Promises
  BY InitPromises, StepPromises, PTL DEF TransferSpec

\* An outcome is final, and so is the place of the money unless a client
\* cancelled.
THEOREM OutcomeStandsHolds == TransferSpec => OutcomeStands
  <1>. DEFINE Stands ==
         (outcome # "open") =>
            /\ outcome' = outcome
            /\ outcome # "cancelled" => UNCHANGED << debited, credited, refunded >>
  <1>1. TransferNext => Stands
    BY DEF TransferNext, Debit, Credit, Refund, Complete, Fail, Cancel
  <1>. QED  BY <1>1, PTL DEF TransferSpec, OutcomeStands
=============================================================================
