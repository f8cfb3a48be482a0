------------------------- MODULE TransferActivities -------------------------
(***************************************************************************)
(* The activities of a money transfer: what one execution (one attempt) of *)
(* each of them answers.  The bank API behind them is simulated, and the   *)
(* workflow type chooses the error it simulates, so the answer depends on  *)
(* the activity, the workflow type and the attempt number only.            *)
(***************************************************************************)
EXTENDS Naturals

\* The workflow types, by the suffix their names share in all the workers.
HAPPY_PATH          == "AccountTransferWorkflow"
ADVANCED_VISIBILITY == "AdvancedVisibility"
NEEDS_APPROVAL      == "HumanInLoop"
API_DOWNTIME        == "APIDowntime"
BUG                 == "RecoverableFailure"
INVALID_ACCOUNT     == "InvalidAccount"

\* The types AccountTransferWorkflowScenarios runs, and the type that has a
\* workflow of its own.
ScenarioTypes == { ADVANCED_VISIBILITY, NEEDS_APPROVAL, API_DOWNTIME, BUG,
                   INVALID_ACCOUNT }
Types         == ScenarioTypes \cup { HAPPY_PATH }

\* The first attempt that meets no simulated error.
FirstGoodAttempt == 5

ActivityNames == { "validate", "withdraw", "deposit", "sendNotification",
                   "undoWithdraw" }

-----------------------------------------------------------------------------

\* Mutant: the fifth attempt still meets the error.
simulateExternalOperationOffByOne(type, attempt) ==
    IF attempt <= FirstGoodAttempt THEN type ELSE "NoError"

\* The error the simulated bank answers to one attempt.
simulateExternalOperation(type, attempt) ==
    IF attempt < FirstGoodAttempt THEN type ELSE "NoError"

\* An unavailable API is a failure the service retries.
withdraw(type, attempt) ==
    IF simulateExternalOperation(type, attempt) = API_DOWNTIME
    THEN "retryable" ELSE "ok"

\* An invalid account is a non-retryable application failure.
deposit(type, attempt) ==
    IF simulateExternalOperation(type, attempt) = INVALID_ACCOUNT
    THEN "nonRetryable" ELSE "ok"

\* What an execution of the named activity answers.
Outcome(name, type, attempt) ==
    CASE name = "withdraw" -> withdraw(type, attempt)
      [] name = "deposit"  -> deposit(type, attempt)
      [] OTHER             -> "ok"
=============================================================================
