------------------------ MODULE AccountTransferWorkflow ------------------------
(***************************************************************************)
(* The workflow AccountTransferWorkflow of the TypeScript worker (and of   *)
(* the Java worker, which has the same control): the happy path.  It is    *)
(* the main thread of TransferWorkflow for the one type that needs no      *)
(* approval and meets no simulated error, with its own status.  It has no  *)
(* handler but the status query, and no catch block around the deposit.    *)
(***************************************************************************)
EXTENDS TransferWorkflow

CONSTANT InitialState   \* transferState before its first assignment

ASSUME HappyPathAssumption ==
    /\ Scenarios = { HAPPY_PATH }
    /\ InitialState \notin { "running", "finished" }

VARIABLES progress, transferState, depositResponse

status == << progress, transferState, depositResponse >>
vars   == << workflow, status >>

\* A progress that is still undefined is written as 0.
Init ==
    /\ WorkflowInit
    /\ progress = 0
    /\ transferState = InitialState
    /\ depositResponse = "empty"

-----------------------------------------------------------------------------

\* What the main thread does with the result of updateProgressAsync, after
\* the sleep in it.
updateProgress(p, state) ==
    /\ progress' = p
    /\ transferState' = state
    /\ UNCHANGED depositResponse

Validate == BeginTransfer /\ UNCHANGED status

Withdraw == CallWithdraw /\ updateProgress(25, "running")

\* Mutant: the deposit is called without a wait for the withdrawal.
DepositWithoutAwait ==
    /\ pc = "withdraw"
    /\ Execute("deposit", idempotencyKey)
    /\ updateProgress(50, "running")
    /\ UNCHANGED idempotencyKey

Deposit == CallDeposit /\ updateProgress(50, "running")

Notify == CallSendNotification /\ updateProgress(75, "running")

\* Mutant: the workflow returns before the status is final.
FinishEarly == CompleteTransfer /\ UNCHANGED status

Finish == CompleteTransfer /\ updateProgress(100, "finished")

\* Mutant: whatever an activity answers becomes the response.
SleepOverwritesResponse(name) ==
    /\ SleepAfter(name, SleepOf[name])
    /\ depositResponse' = IF name = "deposit" THEN "example-transfer-id"
                                              ELSE "empty"
    /\ UNCHANGED << progress, transferState >>

\* An activity has its result: keep the one of the deposit, and sleep.
SleepWith(name) ==
    /\ SleepAfter(name, SleepOf[name])
    /\ depositResponse' = IF name = "deposit" THEN "example-transfer-id"
                                              ELSE depositResponse
    /\ UNCHANGED << progress, transferState >>

Execution ==
    \/ Validate \/ Withdraw \/ Deposit \/ Notify \/ Finish
    \/ \E name \in DOMAIN SleepOf : SleepWith(name)

\* The service, the workers and clients, beside the workflow.
Environment(A) == A /\ UNCHANGED status

Next ==
    \/ Execution
    \/ Environment(Service)
    \/ Environment(Cancel)
    \/ Finished /\ UNCHANGED vars

\* As for the scenarios: workers poll and report, the service fires timers and
\* times out the attempts whose worker died.
OfService(A) == Environment(A /\ UNCHANGED << pc, idempotencyKey, worker, cancelled >>)

Fairness ==
    /\ WF_vars(Execution)
    /\ WF_vars(OfService(PickUp))
    /\ WF_vars(OfService(\E c \in calls : CallBank(c)))
    /\ WF_vars(OfService(\E c \in calls : Report(c)))
    /\ WF_vars(OfService(StartToCloseTimeout /\ ~InFlight))
    /\ WF_vars(OfService(TimerFires))

Spec     == Init /\ [][Next]_vars
FairSpec == Spec /\ Fairness

-----------------------------------------------------------------------------

TypeOK ==
    /\ WorkflowTypeOK
    /\ progress        \in { 0, 25, 50, 75, 100 }
    /\ transferState   \in { InitialState, "running", "finished" }
    /\ depositResponse \in { "empty", "example-transfer-id" }

\* The transferStatus query never promises money movements that have not
\* happened: neither by the progress nor by the response of the deposit.
StatusIsTruthful ==
    /\ progress >= 50  => debits # {}
    /\ progress >= 75  => credits # {}
    /\ depositResponse # "empty" => credits # {}
    /\ transferState = "finished" <=> pc = "completed"

\* What clients are told fits where the main thread is: with WorkflowInv, the
\* inductive invariant the two properties above and below follow from.
IInv ==
    /\ TypeOK
    /\ progress >= 50 => PastWithdraw /\ pc # "sleep50"
    /\ progress >= 75 => PastDeposit /\ pc # "sleep75"
    /\ depositResponse # "empty" => PastDeposit
    /\ transferState = "finished" <=> pc = "completed"
    /\ pc \in { "start", "validate", "sleep25", "awaitApproval" } => progress = 0
    /\ pc \in { "withdraw", "sleep50" }          => progress = 25
    /\ pc \in { "deposit", "sleep75" }           => progress = 50

\* A client never sees the progress, or the response of the deposit, go back.
ProgressGrows ==
    [][/\ progress' >= progress
       /\ depositResponse # "empty" => depositResponse' = depositResponse]_vars

\* However many attempts are lost, late or timed out, a transfer ends with
\* the money at the recipient, unless a client cancels it.
AlwaysPays == <>(cancelled \/ (pc = "completed" /\ credits # {}))

\* The happy path is a transfer workflow.
ImplementsWorkflow == WorkflowSpec
=============================================================================
