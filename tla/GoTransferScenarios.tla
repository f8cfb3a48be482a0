-------------------------- MODULE GoTransferScenarios --------------------------
(***************************************************************************)
(* The Go workflow AccountTransferWorkflowScenarios.  It is the main       *)
(* thread of TransferWorkflow with an approval of its own kind: signals    *)
(* are buffered in a channel from the start of the workflow, the main      *)
(* thread receives one when it comes to wait, and no update is handled.    *)
(***************************************************************************)
EXTENDS TransferWorkflow

CONSTANTS
    Updates,     \* the approveTransfer updates clients may send
    MaxSignals   \* bound: approveTransfer signals clients send

ASSUME GoAssumption ==
    /\ Scenarios \subseteq ScenarioTypes
    /\ MaxSignals \in Nat

VARIABLES
    progress,          \* ts.ProgressPercentage
    transferState,     \* ts.TransferState
    channel,           \* approveTransfer signals nobody received yet
    sent,              \* approveTransfer signals clients sent
    receivedApproval,
    step,              \* the search attribute Step
    updates            \* what became of each approveTransfer update

status   == << progress, transferState >>
approval == << channel, sent, receivedApproval >>
vars     == << workflow, status, approval, step, updates >>

Init ==
    /\ WorkflowInit
    /\ progress = 0
    /\ transferState = "starting"
    /\ channel = 0
    /\ sent = 0
    /\ receivedApproval = FALSE
    /\ step = "unset"
    /\ updates = [u \in Updates |-> "unsent"]

-----------------------------------------------------------------------------
(* The main thread. *)

upsertStep(s) == step' = IF type = ADVANCED_VISIBILITY THEN s ELSE step

\* What updateProgress does after its sleep.
updateProgress(p) ==
    /\ progress' = p
    /\ transferState' = IF p = 100 THEN "finished" ELSE "running"

Start ==
    /\ BeginTransfer
    /\ upsertStep("Validate")
    /\ UNCHANGED << status, approval, updates >>

Validated ==
    /\ SleepAfter("validate", "sleep25")
    /\ UNCHANGED << status, approval, step, updates >>

\* The status while the main thread waits for an approval.
Waiting == progress' = 30 /\ transferState' = "waiting"

\* Mutant: the channel is created anew when the wait begins.
ReceiveDropsEarlier ==
    /\ Slept("sleep25") \/ Slept("awaitApproval")
    /\ channel > 0
    /\ channel' = 0
    /\ receivedApproval' = (pc = "awaitApproval")
    /\ IF pc = "awaitApproval"
       THEN CallWithdraw /\ upsertStep("Withdraw")
       ELSE AwaitApproval /\ UNCHANGED step
    /\ UNCHANGED sent

\* Mutant: a signal is taken whether or not there is one.
ReceiveFromEmpty ==
    /\ channel' = channel - 1
    /\ receivedApproval' = TRUE
    /\ upsertStep("Withdraw")
    /\ CallWithdraw
    /\ UNCHANGED sent

\* Mutant: what ReceiveWithTimeout returned is not looked at.
ReceiveUnchecked ==
    /\ channel' = IF channel > 0 THEN channel - 1 ELSE 0
    /\ receivedApproval' = (channel > 0)
    /\ upsertStep("Withdraw")
    /\ CallWithdraw
    /\ UNCHANGED sent

\* ReceiveWithTimeout finds a signal in the channel: go on to withdraw.
Receive ==
    /\ channel > 0
    /\ channel' = channel - 1
    /\ receivedApproval' = TRUE
    /\ upsertStep("Withdraw")
    /\ CallWithdraw
    /\ UNCHANGED sent

\* A signal sent before the wait is there when it begins, and ends it at once.
AfterValidation ==
    /\ Slept("sleep25")
    /\ \/ /\ type # NEEDS_APPROVAL
          /\ updateProgress(25)
          /\ upsertStep("Withdraw")
          /\ CallWithdraw
          /\ UNCHANGED approval
       \/ /\ type = NEEDS_APPROVAL /\ channel = 0
          /\ Waiting
          /\ AwaitApproval
          /\ UNCHANGED << approval, step >>
       \/ /\ type = NEEDS_APPROVAL
          /\ Waiting
          /\ Receive
    /\ UNCHANGED updates

ApprovalReceived ==
    /\ pc = "awaitApproval"
    /\ Receive
    /\ UNCHANGED << status, updates >>

\* The timer fired.  When a signal came in the same workflow task, the SDK
\* decides which of the two ReceiveWithTimeout looks at first.
ApprovalExpires ==
    /\ Slept("awaitApproval")
    /\ FailUnapproved
    /\ UNCHANGED << status, approval, step, updates >>

Withdrawn ==
    /\ SleepAfter("withdraw", "sleep50")
    /\ UNCHANGED << status, approval, step, updates >>

\* Mutant: the status announces the deposit before it is made.
StartDepositEarlyStatus ==
    /\ CallDeposit
    /\ updateProgress(75)
    /\ upsertStep("Deposit")
    /\ UNCHANGED << approval, updates >>

StartDeposit ==
    /\ CallDeposit
    /\ updateProgress(50)
    /\ upsertStep("Deposit")
    /\ UNCHANGED << approval, updates >>

Deposited ==
    /\ SleepAfter("deposit", "sleep75")
    /\ UNCHANGED << status, approval, step, updates >>

\* Mutant: err is returned without the rollback.
RollBackForgotten ==
    /\ CallUndoWithdrawForgotten
    /\ UNCHANGED << status, approval, step, updates >>

RollBack ==
    /\ CallUndoWithdraw
    /\ UNCHANGED << status, approval, step, updates >>

\* The error of the rollback is not looked at; without a maximum of attempts
\* the rollback has none to return.
RolledBack ==
    /\ FailDeposit
    /\ UNCHANGED << status, approval, step, updates >>

Notify ==
    /\ CallSendNotification
    /\ updateProgress(75)
    /\ upsertStep("SendNotification")
    /\ UNCHANGED << approval, updates >>

Notified ==
    /\ SleepAfter("sendNotification", "sleep100")
    /\ UNCHANGED << status, approval, step, updates >>

Finish ==
    /\ CompleteTransfer
    /\ updateProgress(100)
    /\ UNCHANGED << approval, step, updates >>

Execution ==
    \/ Start \/ Validated \/ AfterValidation \/ ApprovalReceived \/ ApprovalExpires
    \/ Withdrawn \/ StartDeposit \/ Deposited \/ RollBack \/ RolledBack
    \/ Notify \/ Notified \/ Finish

-----------------------------------------------------------------------------
(* Clients. *)

\* The service delivers signals to the channel whether or not anyone waits.
SendSignal ==
    /\ Open
    /\ sent < MaxSignals
    /\ sent' = sent + 1
    /\ channel' = channel + 1
    /\ UNCHANGED << workflow, status, receivedApproval, step, updates >>

SendUpdate(u) ==
    /\ Open
    /\ updates[u] = "unsent"
    /\ updates' = [updates EXCEPT ![u] = "admitted"]
    /\ UNCHANGED << workflow, status, approval, step >>

\* No handler is set: the SDK rejects the update.
RejectUpdate(u) ==
    /\ Open /\ pc # "start" /\ ~Stuck
    /\ updates[u] = "admitted"
    /\ updates' = [updates EXCEPT ![u] = "rejected"]
    /\ UNCHANGED << workflow, status, approval, step >>

\* The service, the workers and the operator, beside the workflow.
Environment(A) == A /\ UNCHANGED << status, approval, step, updates >>

Next ==
    \/ Execution
    \/ SendSignal
    \/ \E u \in Updates : SendUpdate(u) \/ RejectUpdate(u)
    \/ Environment(Service)
    \/ Environment(FixBug)
    \/ Finished /\ UNCHANGED vars

\* As for the other workflows: workers poll and report, the service fires timers
\* and times out the attempts whose worker died.
OfService(A) == Environment(A /\ UNCHANGED << pc, idempotencyKey, worker, cancelled >>)

Fairness ==
    /\ WF_vars(Execution)
    /\ WF_vars(OfService(PickUp))
    /\ WF_vars(OfService(\E c \in calls : CallBank(c)))
    /\ WF_vars(OfService(\E c \in calls : Report(c)))
    /\ WF_vars(OfService(StartToCloseTimeout /\ ~InFlight))
    /\ WF_vars(OfService(TimerFires))

Spec     == Init /\ [][Next]_vars
FairSpec == Spec /\ Fairness

-----------------------------------------------------------------------------
(* Type invariant. *)

TypeOK ==
    /\ WorkflowTypeOK
    /\ type             \in ScenarioTypes
    /\ progress         \in { 0, 25, 30, 50, 75, 100 }
    /\ transferState    \in { "starting", "waiting", "running", "finished" }
    /\ channel          \in 0..MaxSignals
    /\ sent             \in 0..MaxSignals
    /\ receivedApproval \in BOOLEAN
    /\ step             \in { "unset", "Validate", "Withdraw", "Deposit", "SendNotification" }
    /\ updates          \in [Updates -> { "unsent", "admitted", "rejected" }]

-----------------------------------------------------------------------------
(* Safety. *)

\* A transfer that needs approval moves no money before it received one of
\* the signals clients sent.
NothingMovesUnapproved ==
    type = NEEDS_APPROVAL /\ (debits # {} \/ pc = "withdraw")
        => receivedApproval /\ channel < sent

\* The transferStatus query never promises money movements that have not
\* happened.
StatusIsTruthful ==
    /\ progress >= 50  => debits # {}
    /\ progress >= 75  => credits # {}
    /\ transferState = "finished" <=> pc = "completed"

-----------------------------------------------------------------------------
(* The invariant the safety properties follow from, beside WorkflowInv. *)

\* What clients are told fits where the main thread is.
StatusFitsMain ==
    /\ progress >= 50 => PastWithdraw /\ pc # "sleep50"
    /\ progress >= 75 => PastDeposit /\ pc # "sleep75"
    /\ transferState = "finished" <=> pc = "completed"

\* A signal is received once, and it is what gets a transfer that needs one
\* past the wait.
ApprovalFitsMain ==
    /\ channel <= sent
    /\ receivedApproval => channel < sent /\ (pc = "withdraw" \/ PastWithdraw)
    /\ type = NEEDS_APPROVAL /\ (pc = "withdraw" \/ PastWithdraw) => receivedApproval

\* What clients are told, what they sent and where the main thread is fit
\* together.
IInv ==
    /\ TypeOK
    /\ StatusFitsMain
    /\ ApprovalFitsMain

-----------------------------------------------------------------------------
(* Liveness. *)

\* Every transfer ends, the one with the bug once the bug is fixed.
Terminates == (type = BUG => worker = "fixed") ~> ~Open

\* An approval sent before the workflow waits for it is not lost: it gets the
\* withdrawal under way.
EarlyApprovalCounts ==
    (type = NEEDS_APPROVAL /\ channel > 0 /\ pc \in { "start", "validate", "sleep25" })
        ~> debits # {}

(* What the log says and the code does not do. *)

\* While it waits, the workflow logs that it waits for a signal or an update:
\* an update that arrives then is not rejected.
WaitingAcceptsUpdate ==
    [][\A u \in Updates :
          transferState = "waiting" /\ pc = "awaitApproval" /\ updates[u] = "admitted"
              => updates'[u] # "rejected"]_vars

(* Refinement. *)

\* The Go workflow adds status and approval to the workflow of all languages,
\* and leaves its control as it is.
ImplementsWorkflow == WorkflowSpec
=============================================================================
