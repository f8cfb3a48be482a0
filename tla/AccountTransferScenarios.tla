----------------------- MODULE AccountTransferScenarios -----------------------
(***************************************************************************)
(* The workflow AccountTransferWorkflowScenarios of the TypeScript worker  *)
(* (and of the Java worker, which has the same control): the main thread   *)
(* of TransferWorkflow with the status it tells clients and the approval   *)
(* it waits for.  The handlers of the approval signal and update run       *)
(* beside the main thread, and in the same workflow task as it when they   *)
(* unblock it.                                                             *)
(***************************************************************************)
EXTENDS TransferWorkflow

CONSTANTS
    Updates,       \* the approveTransferUpdate updates clients may send
    MaxSignals,    \* bound: approveTransfer signals in the history at a time
    InitialState   \* transferState before its first assignment: undefined in
                   \* TypeScript, "starting" in Java

TRANSFER_STATE == { "running", "waiting", "finished" }

ASSUME ApprovalsAssumption ==
    /\ Scenarios \subseteq ScenarioTypes
    /\ MaxSignals \in Nat
    /\ InitialState \notin TRANSFER_STATE

VARIABLES
    progress,
    transferState,
    depositResponse,
    approved,
    step,             \* the search attribute Step
    signals,          \* approveTransfer signals the workflow has not handled
    updates           \* what became of each approveTransfer update

status   == << progress, transferState >>
messages == << signals, updates >>
vars     == << workflow, status, depositResponse, approved, step, messages >>

\* A progress that is still undefined is written as 0.
Init ==
    /\ WorkflowInit
    /\ progress = 0
    /\ transferState = InitialState
    /\ depositResponse = "empty"
    /\ approved = FALSE
    /\ step = "unset"
    /\ signals = 0
    /\ updates = [u \in Updates |-> "unsent"]

-----------------------------------------------------------------------------
(* The main thread. *)

\* The step "Send Notification" is written as one word here.
upsertStep(s) == step' = IF type = ADVANCED_VISIBILITY THEN s ELSE step

\* What the main thread does with the result of updateProgressAsync, after
\* the sleep in it.
updateProgress(p, state) ==
    /\ progress' = p
    /\ transferState' = state

Start ==
    /\ BeginTransfer
    /\ upsertStep("Validate")
    /\ UNCHANGED << status, depositResponse, approved, messages >>

Validated ==
    /\ SleepAfter("validate", "sleep25")
    /\ UNCHANGED << status, depositResponse, step, approved, messages >>

\* A transfer that needs approval waits for it before the withdrawal.
AfterValidation ==
    /\ \/ /\ AwaitApproval
          /\ updateProgress(30, "waiting")
          /\ UNCHANGED step
       \/ /\ Slept("sleep25") /\ type # NEEDS_APPROVAL
          /\ updateProgress(25, "running")
          /\ upsertStep("Withdraw")
          /\ CallWithdraw
    /\ UNCHANGED << depositResponse, approved, messages >>

\* Mutant: what the wait returned is read the wrong way round.
ApprovedInverted(receivedApproval) ==
    IF receivedApproval
    THEN FailUnapproved /\ UNCHANGED step
    ELSE CallWithdraw /\ upsertStep("Withdraw")

\* Mutant: what the wait returned is not looked at.
ApprovedUnchecked(receivedApproval) == CallWithdraw /\ upsertStep("Withdraw")

\* The wait for the condition returned: go on, or fail for want of an approval.
Approved(receivedApproval) ==
    IF receivedApproval
    THEN CallWithdraw /\ upsertStep("Withdraw")
    ELSE FailUnapproved /\ UNCHANGED step

\* Mutant: the wait has no timeout.
AwaitsForever == pc = "awaitApproval" /\ FALSE /\ UNCHANGED vars

\* Nobody approved in time.
ApprovalExpires ==
    /\ Slept("awaitApproval")
    /\ ~approved
    /\ Approved(FALSE)
    /\ UNCHANGED << status, depositResponse, approved, messages >>

Withdrawn ==
    /\ SleepAfter("withdraw", "sleep50")
    /\ UNCHANGED << status, depositResponse, step, approved, messages >>

\* Mutant: the status announces the deposit before it is made.
StartDepositEarlyStatus ==
    /\ CallDeposit
    /\ updateProgress(75, "running")
    /\ upsertStep("Deposit")
    /\ UNCHANGED << depositResponse, approved, messages >>

\* Mutant: the percentage of the step before is written again.
StartDepositStaleStatus ==
    /\ CallDeposit
    /\ updateProgress(25, "running")
    /\ upsertStep("Deposit")
    /\ UNCHANGED << depositResponse, approved, messages >>

StartDeposit ==
    /\ CallDeposit
    /\ updateProgress(50, "running")
    /\ upsertStep("Deposit")
    /\ UNCHANGED << depositResponse, approved, messages >>

Deposited ==
    /\ SleepAfter("deposit", "sleep75")
    /\ depositResponse' = "example-transfer-id"
    /\ UNCHANGED << status, step, approved, messages >>

\* Mutant: the catch block fails the workflow without the rollback.
RollBackForgotten ==
    /\ CallUndoWithdrawForgotten
    /\ UNCHANGED << status, depositResponse, step, approved, messages >>

\* The catch block: undo the withdrawal.
RollBack ==
    /\ CallUndoWithdraw
    /\ UNCHANGED << status, depositResponse, step, approved, messages >>

RolledBack ==
    /\ FailDeposit
    /\ UNCHANGED << status, depositResponse, step, approved, messages >>

\* Mutant: the step is not updated before the notification.
NotifyWithoutStep ==
    /\ CallSendNotification
    /\ updateProgress(75, "running")
    /\ UNCHANGED << depositResponse, step, approved, messages >>

Notify ==
    /\ CallSendNotification
    /\ updateProgress(75, "running")
    /\ upsertStep("SendNotification")
    /\ UNCHANGED << depositResponse, approved, messages >>

Notified ==
    /\ SleepAfter("sendNotification", "sleep100")
    /\ UNCHANGED << status, depositResponse, step, approved, messages >>

Finish ==
    /\ CompleteTransfer
    /\ updateProgress(100, "finished")
    /\ UNCHANGED << depositResponse, step, approved, messages >>

Execution ==
    \/ Start \/ Validated \/ AfterValidation \/ ApprovalExpires
    \/ Withdrawn \/ StartDeposit \/ Deposited \/ RollBack \/ RolledBack
    \/ Notify \/ Notified \/ Finish

-----------------------------------------------------------------------------
(* The approval, by signal or by update. *)

SendSignal ==
    /\ Open
    /\ signals < MaxSignals
    /\ signals' = signals + 1
    /\ UNCHANGED << workflow, status, depositResponse, step, approved, updates >>

SendUpdate(u) ==
    /\ Open
    /\ updates[u] = "unsent"
    /\ updates' = [updates EXCEPT ![u] = "admitted"]
    /\ UNCHANGED << workflow, status, depositResponse, step, approved, signals >>

\* Workflow tasks commit, and the handlers are set.
Listening == Open /\ pc # "start" /\ ~Stuck

\* The handlers run before the main thread in the same workflow task.  When
\* the timer fired in that task too, the SDK decides what the wait returns.
MainThreadGoesOn ==
    /\ IF pc = "awaitApproval" /\ approved'
       THEN \/ Approved(TRUE)
            \/ timer = "fired" /\ Approved(FALSE)
       ELSE UNCHANGED << workflow, step >>
    /\ UNCHANGED << status, depositResponse >>

approveTransferSignal ==
    /\ Listening
    /\ signals > 0
    /\ signals' = signals - 1
    /\ approved' = (approved \/ transferState = "waiting")
    /\ MainThreadGoesOn
    /\ UNCHANGED updates

\* Mutant: the validator does not look at approved.
ValidatorChecksStateOnly == transferState = "waiting"

approveTransferUpdateValidator == ~approved /\ transferState = "waiting"

approveTransferUpdate(u) ==
    /\ Listening
    /\ updates[u] = "admitted"
    /\ \/ /\ approveTransferUpdateValidator
          /\ approved' = TRUE
          /\ updates' = [updates EXCEPT ![u] = "accepted"]
       \/ /\ ~approveTransferUpdateValidator
          /\ approved' = approved
          /\ updates' = [updates EXCEPT ![u] = "rejected"]
    /\ MainThreadGoesOn
    /\ UNCHANGED signals

-----------------------------------------------------------------------------

\* The service, the workers and the operator, beside the workflow.
Environment(A) ==
    A /\ UNCHANGED << status, depositResponse, step, approved, messages >>

Next ==
    \/ Execution
    \/ approveTransferSignal
    \/ \E u \in Updates : approveTransferUpdate(u)
    \/ SendSignal
    \/ \E u \in Updates : SendUpdate(u)
    \/ Environment(Service)
    \/ Environment(Cancel)
    \/ Environment(FixBug)
    \/ Finished /\ UNCHANGED vars

\* Workers poll, call the bank and report; the service fires timers and times
\* out the attempts whose worker died.  Nothing obliges a client to approve
\* or to cancel, an operator to fix the bug, nor a worker to die or an attempt to be late.
OfService(A) == Environment(A /\ UNCHANGED << pc, idempotencyKey, worker, cancelled >>)

Fairness ==
    /\ WF_vars(Execution)
    /\ WF_vars(approveTransferSignal)
    /\ \A u \in Updates : WF_vars(approveTransferUpdate(u))
    /\ WF_vars(OfService(PickUp))
    /\ WF_vars(OfService(\E c \in calls : CallBank(c)))
    /\ WF_vars(OfService(\E c \in calls : Report(c)))
    /\ WF_vars(OfService(StartToCloseTimeout /\ ~InFlight))
    /\ WF_vars(OfService(TimerFires))

Spec     == Init /\ [][Next]_vars
FairSpec == Spec /\ Fairness

-----------------------------------------------------------------------------
(* Type invariant. *)

TypeOK ==
    /\ WorkflowTypeOK
    /\ type            \in ScenarioTypes
    /\ progress        \in { 0, 25, 30, 50, 75, 100 }
    /\ transferState   \in TRANSFER_STATE \cup { InitialState }
    /\ depositResponse \in { "empty", "example-transfer-id" }
    /\ approved        \in BOOLEAN
    /\ step            \in { "unset", "Validate", "Withdraw", "Deposit", "SendNotification" }
    /\ signals         \in 0..MaxSignals
    /\ updates         \in [Updates -> { "unsent", "admitted", "accepted", "rejected" }]

-----------------------------------------------------------------------------
(* Safety. *)

\* A transfer that needs approval moves no money before it is approved.
NothingMovesUnapproved ==
    type = NEEDS_APPROVAL /\ (debits # {} \/ pc = "withdraw") => approved

\* The transferStatus query never promises money movements that have not happened.
StatusIsTruthful ==
    /\ progress >= 50  => debits # {}
    /\ progress >= 75  => credits # {}
    /\ depositResponse # "empty" => credits # {}
    /\ transferState = "finished" <=> pc = "completed"

\* Of the updates clients sent at any time, the validator accepts one at most.
OneUpdateAccepted ==
    Cardinality({ u \in Updates : updates[u] = "accepted" }) <= 1

\* The search attribute Step names the activity in progress, or the last one.
StepNamesActivity ==
    type = ADVANCED_VISIBILITY =>
        /\ pc \in { "validate", "sleep25" }               => step = "Validate"
        /\ pc \in { "withdraw", "sleep50" }               => step = "Withdraw"
        /\ pc \in { "deposit", "sleep75" }                => step = "Deposit"
        /\ pc \in { "sendNotification", "sleep100" }      => step = "SendNotification"

-----------------------------------------------------------------------------
(* The invariant the safety properties follow from, beside WorkflowInv. *)

\* What clients are told fits where the main thread is.
StatusFitsMain ==
    /\ progress >= 50 => PastWithdraw /\ pc # "sleep50"
    /\ progress >= 75 => PastDeposit /\ pc # "sleep75"
    /\ depositResponse # "empty" => PastDeposit
    /\ transferState = "finished" <=> pc = "completed"
    /\ pc \in { "start", "validate", "sleep25" }      => progress = 0
    /\ pc = "awaitApproval"                           => progress = 30
    /\ pc \in { "withdraw", "sleep50" }               => progress \in { 25, 30 }
    /\ pc \in { "deposit", "sleep75" }                => progress = 50
    /\ pc \in { "sendNotification", "sleep100" }      => progress = 75

\* Only a transfer that needs approval waits, and it goes on when approved.
ApprovalFitsMain ==
    /\ pc \in { "start", "validate", "sleep25" } => transferState = InitialState /\ ~approved
    /\ pc = "awaitApproval" => transferState = "waiting" /\ ~approved
    /\ transferState = "waiting" => type = NEEDS_APPROVAL
    /\ type = NEEDS_APPROVAL /\ (pc = "withdraw" \/ PastWithdraw) => approved

\* An accepted update is the only one, and it approved the transfer.
AcceptedApproves ==
    \A u \in Updates : updates[u] = "accepted" =>
        approved /\ \A v \in Updates \ {u} : updates[v] # "accepted"

IInv ==
    /\ TypeOK
    /\ StatusFitsMain
    /\ ApprovalFitsMain
    /\ AcceptedApproves
    /\ StepNamesActivity

-----------------------------------------------------------------------------
(* Action properties. *)

\* An approval handled before the deadline passed always gets the withdrawal
\* under way, in the same workflow task.
TimelyApprovalCounts ==
    [][~approved /\ approved' /\ timer = "pending" => pc' = "withdraw"]_vars

\* A client that polls the status never sees it go back: neither the progress
\* nor the response of the deposit, and a transfer waits for its approval only
\* once.
StatusGrows ==
    [][/\ progress' >= progress
       /\ depositResponse # "empty" => depositResponse' = depositResponse
       /\ transferState' = "waiting" => transferState \in { InitialState, "waiting" }]_vars

(* Liveness. *)

\* Every transfer ends, the one with the bug once the bug is fixed.
Terminates == (type = BUG => worker = "fixed") ~> ~Open

\* Money taken from the sender reaches the recipient or goes back, unless a
\* client cancels the transfer.
NoMoneyInLimbo ==
    (debits # {} /\ (type = BUG => worker = "fixed"))
        ~> (credits # {} \/ refunds > 0 \/ cancelled)

\* The failures the scenarios call recoverable, an unavailable API and a bug
\* that gets fixed, do not keep the transfer from completing; a client can.
RecoverableFailuresComplete ==
    (\/ type \in { ADVANCED_VISIBILITY, API_DOWNTIME }
     \/ type = BUG /\ worker = "fixed") ~> (pc = "completed" \/ cancelled)

(* Refinement. *)

\* The scenarios workflow adds status and approval to the workflow of all
\* languages, and leaves its control as it is.
ImplementsWorkflow == WorkflowSpec
=============================================================================
