----------------------- MODULE GoTransferScenariosProofs -----------------------
(***************************************************************************)
(* What holds of the Go workflow for every set of keys and updates, every  *)
(* number of signals, of attempts and of attempts in flight.               *)
(***************************************************************************)
EXTENDS GoTransferScenarios, TransferWorkflowProofs

-----------------------------------------------------------------------------
(* The Go workflow is a transfer workflow. *)

\* Each step between two blocking calls is one of the main thread.
LEMMA GoExecutionIsMainThread == Execution => MainThread
BY SleepsAreMainThread, Zenon
   DEF Execution, Start, Validated, AfterValidation, Receive, ApprovalReceived,
       ApprovalExpires, Withdrawn, StartDeposit, Deposited, RollBack, RolledBack,
       Notify, Notified, Finish, MainThread

\* Every step of the Go workflow and its clients is a step of a transfer
\* workflow, or leaves it alone.
LEMMA GoNextImplements ==
    ASSUME [Next]_vars
    PROVE  [WorkflowNext]_workflow
<1>1. CASE Execution
  BY <1>1, GoExecutionIsMainThread, Zenon DEF WorkflowNext
<1>2. CASE SendSignal \/ \E u \in Updates : SendUpdate(u) \/ RejectUpdate(u)
  BY <1>2, Zenon DEF SendSignal, SendUpdate, RejectUpdate
<1>3. CASE Environment(Service) \/ Environment(FixBug)
  BY <1>3, Zenon DEF Environment, WorkflowNext
<1>4. CASE Finished /\ UNCHANGED vars
  BY <1>4 DEF vars
<1>5. CASE UNCHANGED vars
  BY <1>5 DEF vars
<1> QED
  BY <1>1, <1>2, <1>3, <1>4, <1>5, Zenon DEF Next

\* The Go workflow adds status and approval to the workflow of all languages
\* and leaves its control as it is.
THEOREM GoImplementsWorkflow == Spec => ImplementsWorkflow
<1>1. Init => WorkflowInit
  BY DEF Init
<1> QED
  BY <1>1, GoNextImplements, PTL DEF Spec, ImplementsWorkflow, WorkflowSpec

\* So it is an atomic transfer, however often attempts are lost, late or retried.
THEOREM GoImplementsTransfer == Spec => ImplementsTransfer
BY GoImplementsWorkflow, WorkflowRefinement DEF ImplementsWorkflow

-----------------------------------------------------------------------------
(* Status and approval. *)

\* What the Go workflow adds, in its type.
StatusTypeOK ==
    /\ progress         \in { 0, 25, 30, 50, 75, 100 }
    /\ transferState    \in { "starting", "waiting", "running", "finished" }
    /\ channel          \in 0..MaxSignals
    /\ sent             \in 0..MaxSignals
    /\ receivedApproval \in BOOLEAN
    /\ step             \in { "unset", "Validate", "Withdraw", "Deposit", "SendNotification" }
    /\ updates          \in [Updates -> { "unsent", "admitted", "rejected" }]

\* IInv, in parts.
LEMMA GoInvParts ==
    IInv <=> /\ WorkflowTypeOK /\ type \in ScenarioTypes
              /\ StatusTypeOK /\ StatusFitsMain /\ ApprovalFitsMain
BY Zenon DEF IInv, TypeOK, StatusTypeOK

\* A signal leaves the channel only when there is one.
LEMMA ReceiveFits ==
    ASSUME StatusTypeOK, channel <= sent, Receive
    PROVE  /\ channel' \in 0..MaxSignals
           /\ channel' < sent
           /\ receivedApproval' /\ receivedApproval' \in BOOLEAN
           /\ pc' = "withdraw"
           /\ sent' = sent
           /\ step' \in { "unset", "Validate", "Withdraw", "Deposit", "SendNotification" }
<1>1. /\ channel > 0 /\ channel' = channel - 1
      /\ receivedApproval' = TRUE
      /\ sent' = sent
      /\ upsertStep("Withdraw")
      /\ pc' = "withdraw"
  BY Zenon DEF Receive, CallWithdraw, Execute, Block
<1>2. channel \in 0..MaxSignals /\ sent \in 0..MaxSignals
  BY DEF StatusTypeOK
<1> QED
  BY <1>1, <1>2, GoAssumption DEF upsertStep, StatusTypeOK

\* The main thread keeps status and approval in their types and in step.
LEMMA GoExecutionFits ==
    ASSUME StatusTypeOK, StatusFitsMain, ApprovalFitsMain, Execution
    PROVE  StatusTypeOK' /\ StatusFitsMain' /\ ApprovalFitsMain'
<1> USE DEF StatusTypeOK, StatusFitsMain, ApprovalFitsMain, PastWithdraw, PastDeposit,
            AtRollBack, updateProgress, upsertStep, status, approval, Waiting,
            Execute, Sleep, Close, Block, Slept, SleepAfter
<1>1. CASE Start           BY <1>1 DEF Start, BeginTransfer
<1>2. CASE Validated       BY <1>2 DEF Validated
<1>3. CASE AfterValidation
  <2>1. Slept("sleep25") /\ UNCHANGED updates
    BY <1>3, Zenon DEF AfterValidation
  <2>2. CASE type # NEEDS_APPROVAL /\ updateProgress(25) /\ upsertStep("Withdraw")
               /\ CallWithdraw /\ UNCHANGED approval
    BY <2>1, <2>2 DEF CallWithdraw
  <2>3. CASE Waiting /\ AwaitApproval /\ UNCHANGED << approval, step >>
    BY <2>1, <2>3 DEF AwaitApproval
  <2>4. CASE Waiting /\ Receive
    <3>1. CallWithdraw
      BY <2>4, Zenon DEF Receive
    <3> QED
      BY <2>1, <2>4, <3>1, ReceiveFits DEF CallWithdraw
  <2> QED
    BY <1>3, <2>2, <2>3, <2>4, Zenon DEF AfterValidation
<1>4. CASE ApprovalReceived
  BY <1>4, ReceiveFits DEF ApprovalReceived, Receive, CallWithdraw
<1>5. CASE ApprovalExpires BY <1>5 DEF ApprovalExpires, FailUnapproved
<1>6. CASE Withdrawn       BY <1>6 DEF Withdrawn
<1>7. CASE StartDeposit    BY <1>7 DEF StartDeposit, CallDeposit
<1>8. CASE Deposited       BY <1>8 DEF Deposited
<1>9. CASE RollBack        BY <1>9 DEF RollBack, CallUndoWithdraw
<1>10. CASE RolledBack     BY <1>10 DEF RolledBack, FailDeposit
<1>11. CASE Notify         BY <1>11 DEF Notify, CallSendNotification
<1>12. CASE Notified       BY <1>12 DEF Notified
<1>13. CASE Finish         BY <1>13 DEF Finish, CompleteTransfer
<1> QED
  BY <1>1, <1>2, <1>3, <1>4, <1>5, <1>6, <1>7, <1>8, <1>9, <1>10, <1>11, <1>12, <1>13
     DEF Execution

\* Clients, the service and the operator keep them too.
LEMMA GoEnvironmentFits ==
    ASSUME StatusTypeOK, StatusFitsMain, ApprovalFitsMain,
           \/ SendSignal
           \/ \E u \in Updates : SendUpdate(u) \/ RejectUpdate(u)
           \/ Environment(Service)
           \/ Environment(FixBug)
           \/ UNCHANGED vars
    PROVE  StatusTypeOK' /\ StatusFitsMain' /\ ApprovalFitsMain'
<1>1. /\ UNCHANGED << type, pc, progress, transferState, receivedApproval, step >>
      /\ \/ UNCHANGED << channel, sent >>
         \/ channel' = channel + 1 /\ sent' = sent + 1 /\ sent < MaxSignals
  <2>1. CASE Environment(Service)
    <3>1. type' = type
      BY <2>1, TypeStays, Zenon DEF Environment, WorkflowNext
    <3> QED
      BY <2>1, <3>1, Zenon DEF Environment, Service, status, approval
  <2>2. CASE Environment(FixBug)
    BY <2>2, Zenon DEF Environment, FixBug, status, approval
  <2>3. CASE SendSignal
    BY <2>3, Zenon DEF SendSignal, workflow, status
  <2>4. CASE \E u \in Updates : SendUpdate(u) \/ RejectUpdate(u)
    BY <2>4, Zenon DEF SendUpdate, RejectUpdate, workflow, status, approval
  <2>5. CASE UNCHANGED vars
    BY <2>5, Zenon DEF vars, workflow, status, approval
  <2> QED
    BY <2>1, <2>2, <2>3, <2>4, <2>5
<1>2. updates' \in [Updates -> { "unsent", "admitted", "rejected" }]
  <2>1. CASE updates' = updates
    BY <2>1 DEF StatusTypeOK
  <2>2. ASSUME NEW u \in Updates, SendUpdate(u) \/ RejectUpdate(u)
        PROVE  updates' \in [Updates -> { "unsent", "admitted", "rejected" }]
    BY <2>2 DEF SendUpdate, RejectUpdate, StatusTypeOK
  <2> QED
    BY <2>1, <2>2, Zenon DEF SendSignal, Environment, vars
<1>3. channel' \in 0..MaxSignals /\ sent' \in 0..MaxSignals
  BY <1>1, GoAssumption DEF StatusTypeOK, ApprovalFitsMain
<1> QED
  BY <1>1, <1>2, <1>3
     DEF StatusTypeOK, StatusFitsMain, ApprovalFitsMain, PastWithdraw, PastDeposit,
         AtRollBack

\* The invariant is inductive.
THEOREM GoInvariance == Spec => []IInv
<1>1. Init => IInv
  <2> SUFFICES ASSUME Init PROVE IInv
    OBVIOUS
  <2>1. /\ WorkflowInit
        /\ channel = 0 /\ sent = 0
        /\ ~receivedApproval /\ receivedApproval \in BOOLEAN
        /\ progress = 0 /\ transferState = "starting" /\ step = "unset"
        /\ updates = [u \in Updates |-> "unsent"]
    BY Zenon DEF Init
  <2>2. pc = "start" /\ type \in ScenarioTypes
    BY <2>1, GoAssumption DEF WorkflowInit
  <2>3. 0 \in 0..MaxSignals
    BY GoAssumption
  <2>4. StatusTypeOK /\ StatusFitsMain /\ ApprovalFitsMain
    BY <2>1, <2>2, <2>3
       DEF StatusTypeOK, StatusFitsMain, ApprovalFitsMain, PastWithdraw, PastDeposit,
           AtRollBack
  <2> QED
    BY <2>1, <2>2, <2>4, InitTypes, GoInvParts
<1>2. ASSUME IInv, [Next]_vars PROVE IInv'
  <2>1. WorkflowTypeOK' /\ type' = type
    BY <1>2, GoNextImplements, StepTypes, TypeStays, GoInvParts
  <2>2. StatusTypeOK' /\ StatusFitsMain' /\ ApprovalFitsMain'
    BY <1>2, GoExecutionFits, GoEnvironmentFits, GoInvParts, Zenon DEF Next
  <2> QED
    BY <1>2, <2>1, <2>2, Zenon DEF IInv, TypeOK, StatusTypeOK
<1> QED
  BY <1>1, <1>2, PTL DEF Spec

-----------------------------------------------------------------------------
(* Safety. *)

\* The types hold; in particular nobody takes a signal from an empty channel.
THEOREM GoTypeCorrect == Spec => []TypeOK
<1>1. IInv => TypeOK
  BY DEF IInv
<1> QED
  BY <1>1, GoInvariance, PTL

\* Both invariants hold of the Go workflow.
LEMMA GoBothInvariants == Spec => [](IInv /\ WorkflowInv)
BY GoInvariance, GoImplementsWorkflow, WorkflowInvariance, PTL DEF ImplementsWorkflow

\* A transfer that needs approval moves no money before it received one of the
\* signals clients sent.
THEOREM GoNothingMovesUnapproved == Spec => []NothingMovesUnapproved
<1>1. IInv /\ WorkflowInv => NothingMovesUnapproved
  BY DEF IInv, WorkflowInv, LedgerFitsMain, ApprovalFitsMain, NothingMovesUnapproved
<1> QED
  BY <1>1, GoBothInvariants, PTL

\* The status clients query never promises a money movement that has not
\* happened.
THEOREM GoStatusIsTruthful == Spec => []StatusIsTruthful
<1>1. IInv /\ WorkflowInv => StatusIsTruthful
  BY DEF IInv, WorkflowInv, LedgerFitsMain, StatusFitsMain, StatusIsTruthful
<1> QED
  BY <1>1, GoBothInvariants, PTL

-----------------------------------------------------------------------------
(* Liveness: what is left to TLC is that transfers end. *)

\* Nothing cancels a Go transfer here.
LEMMA GoNeverCancelled == Spec => []~cancelled
<1>1. Init => ~cancelled
  BY Zenon DEF Init, WorkflowInit
<1>2. ASSUME ~cancelled, [Next]_vars PROVE ~cancelled'
  <2>1. CASE Execution
    <3>1. MainThread
      BY <2>1, GoExecutionIsMainThread
    <3>2. cancelled' = cancelled
      BY <3>1
         DEF MainThread, BeginTransfer, SleepAfter, AwaitApproval, CallWithdraw,
             FailUnapproved, CallDeposit, CallUndoWithdraw, FailDeposit,
             CallSendNotification, CompleteTransfer, Execute, Sleep, Close, Block
    <3> QED
      BY <1>2, <3>2
  <2>2. CASE ~Execution
    <3>1. cancelled' = cancelled
      BY <1>2, <2>2, Zenon
         DEF Next, SendSignal, SendUpdate, RejectUpdate, Environment, Service, FixBug,
             vars, workflow
    <3> QED
      BY <1>2, <3>1
  <2> QED
    BY <2>1, <2>2
<1> QED
  BY <1>1, <1>2, PTL DEF Spec

\* A signal is waiting for the workflow to come to the wait, or was received.
EarlySignal == channel > 0 /\ pc \in { "start", "validate", "sleep25" }

SignalKept == type = NEEDS_APPROVAL /\ (EarlySignal \/ receivedApproval)

\* The main thread does not lose a signal that was there before it waited: it
\* passes the wait by receiving it.
LEMMA SignalStays ==
    ASSUME IInv, SignalKept, [Next]_vars
    PROVE  SignalKept'
<1> USE DEF SignalKept, EarlySignal
<1>1. type' = type /\ channel \in Nat
  BY GoNextImplements, TypeStays, GoAssumption DEF IInv, TypeOK
<1>2. CASE SendSignal \/ \E u \in Updates : SendUpdate(u) \/ RejectUpdate(u)
  <2>1. /\ UNCHANGED << pc, receivedApproval >>
        /\ channel' = channel \/ channel' = channel + 1
    BY <1>2, Zenon DEF SendSignal, SendUpdate, RejectUpdate, workflow, approval
  <2> QED
    BY <1>1, <2>1
<1>3. CASE Environment(Service) \/ Environment(FixBug) \/ UNCHANGED vars
  <2>1. UNCHANGED << pc, channel, receivedApproval >>
    BY <1>3, Zenon DEF Environment, Service, FixBug, vars, workflow, approval
  <2> QED
    BY <1>1, <2>1
<1>4. CASE AfterValidation
  <2>1. Slept("sleep25") /\ type = NEEDS_APPROVAL
    BY <1>4, Zenon DEF AfterValidation
  <2>2. EarlySignal
    BY <2>1 DEF Slept, IInv, ApprovalFitsMain, PastWithdraw
  <2>3. Receive
    BY <1>4, <2>1, <2>2 DEF AfterValidation
  <2> QED
    BY <1>1, <2>3, Zenon DEF Receive
<1>5. CASE ApprovalReceived
  BY <1>1, <1>5, Zenon DEF ApprovalReceived, Receive
<1>6. CASE Start \/ Validated
  BY <1>1, <1>6
     DEF Start, Validated, BeginTransfer, SleepAfter, Execute, Sleep, Block, approval
<1>7. CASE Execution /\ ~AfterValidation /\ ~ApprovalReceived /\ ~Start /\ ~Validated
  <2>1. UNCHANGED << channel, receivedApproval >>
    BY <1>7, Zenon
       DEF Execution, ApprovalExpires, Withdrawn, StartDeposit, Deposited, RollBack,
           RolledBack, Notify, Notified, Finish, approval
  <2>2. pc \notin { "start", "validate", "sleep25" }
    BY <1>7
       DEF Execution, ApprovalExpires, Withdrawn, StartDeposit, Deposited, RollBack,
           RolledBack, Notify, Notified, Finish, FailUnapproved, CallDeposit,
           CallUndoWithdraw, FailDeposit, CallSendNotification, CompleteTransfer,
           SleepAfter, Slept
  <2> QED
    BY <1>1, <2>1, <2>2
<1> QED
  BY <1>2, <1>3, <1>4, <1>5, <1>6, <1>7, Zenon DEF Next

\* If transfers end, an approval sent before the workflow waits for it counts:
\* the only ends left to such a transfer are behind the withdrawal.
THEOREM GoEarlyApprovalCounts == Spec /\ Terminates => EarlyApprovalCounts
<1>1. IInv /\ SignalKept /\ [Next]_vars => SignalKept'
  BY SignalStays
<1>2. IInv /\ WorkflowInv /\ ~cancelled /\ SignalKept /\ ~Open => debits # {}
  BY DEF IInv, ApprovalFitsMain, WorkflowInv, WorkflowTypeOK, LedgerFitsMain,
         SignalKept, EarlySignal, Open, Running, Closed, Sleeping, ActivityNames,
         PastWithdraw
<1>3. type = NEEDS_APPROVAL /\ channel > 0 /\ pc \in { "start", "validate", "sleep25" }
        => SignalKept
  BY DEF SignalKept, EarlySignal
<1>4. SignalKept => (type = BUG => worker = "fixed")
  BY DEF SignalKept, NEEDS_APPROVAL, BUG
<1> QED
  BY <1>1, <1>2, <1>3, <1>4, GoBothInvariants, GoNeverCancelled, PTL
     DEF Spec, Terminates, EarlyApprovalCounts

-----------------------------------------------------------------------------
(* Money. *)

\* The money properties of every transfer workflow hold of the Go workflow,
\* with its approvals by channel; late attempts move nothing.
THEOREM GoKeepsMoney ==
    Spec => /\ [](/\ WithdrawnOnce
                  /\ NoDepositWithoutWithdraw
                  /\ NeverPaidAndRefunded
                  /\ OutcomeMatchesLedger
                  /\ FailuresHaveCauses)
            /\ LateCallsMoveNothing
<1>1. WorkflowInv => FailuresHaveCauses
  BY DEF WorkflowInv
<1>2. WorkflowSpec => LateCallsMoveNothing
  BY LateCallsMoveNothingHolds
<1> QED
  BY <1>1, <1>2, InvariantImplies, GoBothInvariants, GoImplementsWorkflow, PTL
     DEF ImplementsWorkflow
=============================================================================
