-------------------- MODULE AccountTransferScenariosProofs --------------------
(***************************************************************************)
(* What holds of the scenarios workflow for every set of keys and updates, *)
(* every number of attempts and every number of attempts in flight.        *)
(***************************************************************************)
EXTENDS AccountTransferScenarios, TransferWorkflowProofs

-----------------------------------------------------------------------------
(* The scenarios workflow is a transfer workflow. *)

\* Each step between two blocking calls is one of the main thread.
LEMMA ExecutionIsMainThread == Execution => MainThread
BY SleepsAreMainThread, Zenon
   DEF Execution, Start, Validated, AfterValidation, ApprovalExpires, Withdrawn,
       StartDeposit, Deposited, RollBack, RolledBack, Notify, Notified, Finish,
       Approved, MainThread

\* An approval moves the main thread on, or leaves the workflow alone.
LEMMA HandlerIsMainThread ==
    ASSUME \/ approveTransferSignal
           \/ \E u \in Updates : approveTransferUpdate(u)
    PROVE  \/ UNCHANGED << workflow, step >> /\ ~(pc = "awaitApproval" /\ approved')
           \/ pc = "awaitApproval" /\ approved' /\ MainThread
                /\ (CallWithdraw \/ (timer = "fired" /\ FailUnapproved))
<1>1. MainThreadGoesOn
  BY Zenon DEF approveTransferSignal, approveTransferUpdate
<1>2. CASE pc = "awaitApproval" /\ approved'
  BY <1>1, <1>2, Zenon DEF MainThreadGoesOn, Approved, MainThread
<1>3. CASE ~(pc = "awaitApproval" /\ approved')
  BY <1>1, <1>3, Zenon DEF MainThreadGoesOn
<1> QED
  BY <1>2, <1>3

\* Every step of the scenarios workflow and its clients is a step of a transfer
\* workflow, or leaves it alone.
LEMMA NextImplements ==
    ASSUME [Next]_vars
    PROVE  [WorkflowNext]_workflow
<1>1. CASE Execution
  BY <1>1, ExecutionIsMainThread, Zenon DEF WorkflowNext
<1>2. CASE approveTransferSignal \/ \E u \in Updates : approveTransferUpdate(u)
  <2>1. UNCHANGED workflow \/ MainThread
    BY <1>2, HandlerIsMainThread
  <2> QED
    BY <2>1, Zenon DEF WorkflowNext
<1>3. CASE SendSignal \/ \E u \in Updates : SendUpdate(u)
  BY <1>3, Zenon DEF SendSignal, SendUpdate
<1>4. CASE Environment(Service) \/ Environment(Cancel) \/ Environment(FixBug)
  BY <1>4, Zenon DEF Environment, WorkflowNext
<1>5. CASE Finished /\ UNCHANGED vars
  BY <1>5 DEF vars
<1>6. CASE UNCHANGED vars
  BY <1>6 DEF vars
<1> QED
  BY <1>1, <1>2, <1>3, <1>4, <1>5, <1>6, Zenon DEF Next

\* The scenarios workflow adds status and approval to the workflow of all languages
\* and leaves its control as it is.
THEOREM ScenariosImplementWorkflow == Spec => ImplementsWorkflow
<1>1. Init => WorkflowInit
  BY DEF Init
<1> QED
  BY <1>1, NextImplements, PTL DEF Spec, ImplementsWorkflow, WorkflowSpec

\* So what holds of every transfer workflow holds of this one: it is an
\* atomic transfer, however often attempts are lost, late or retried.
THEOREM ScenariosImplementTransfer == Spec => ImplementsTransfer
BY ScenariosImplementWorkflow, WorkflowRefinement DEF ImplementsWorkflow

-----------------------------------------------------------------------------
(* Types. *)

\* A workflow starts with every variable in its type.
LEMMA ScenariosInitTypes == Init => TypeOK
<1> SUFFICES ASSUME Init PROVE TypeOK
  OBVIOUS
<1>1. /\ WorkflowInit
      /\ signals = 0
      /\ approved \in BOOLEAN
  BY Zenon DEF Init
<1>2. type \in ScenarioTypes
  BY <1>1, ApprovalsAssumption DEF WorkflowInit
<1>3. signals \in 0..MaxSignals
  BY <1>1, ApprovalsAssumption
<1> QED
  BY <1>1, <1>2, <1>3, InitTypes DEF Init, TypeOK

\* What the scenarios workflow adds, in its type.
StatusTypeOK ==
    /\ progress        \in { 0, 25, 30, 50, 75, 100 }
    /\ transferState   \in TRANSFER_STATE \cup { InitialState }
    /\ depositResponse \in { "empty", "example-transfer-id" }
    /\ approved        \in BOOLEAN
    /\ step            \in { "unset", "Validate", "Withdraw", "Deposit", "SendNotification" }
    /\ signals         \in 0..MaxSignals
    /\ updates         \in [Updates -> { "unsent", "admitted", "accepted", "rejected" }]

\* The main thread keeps the types of what the scenarios workflow adds.
LEMMA ExecutionTypes ==
    ASSUME StatusTypeOK, Execution
    PROVE  StatusTypeOK'
<1> USE DEF StatusTypeOK, updateProgress, upsertStep, messages, status,
            TRANSFER_STATE
<1>1. CASE Start           BY <1>1 DEF Start
<1>2. CASE Validated       BY <1>2 DEF Validated
<1>3. CASE AfterValidation BY <1>3 DEF AfterValidation
<1>4. CASE ApprovalExpires BY <1>4 DEF ApprovalExpires, Approved
<1>5. CASE Withdrawn       BY <1>5 DEF Withdrawn
<1>6. CASE StartDeposit    BY <1>6 DEF StartDeposit
<1>7. CASE Deposited       BY <1>7 DEF Deposited
<1>8. CASE RollBack        BY <1>8 DEF RollBack
<1>9. CASE RolledBack      BY <1>9 DEF RolledBack
<1>10. CASE Notify         BY <1>10 DEF Notify
<1>11. CASE Notified       BY <1>11 DEF Notified
<1>12. CASE Finish         BY <1>12 DEF Finish
<1> QED
  BY <1>1, <1>2, <1>3, <1>4, <1>5, <1>6, <1>7, <1>8, <1>9, <1>10, <1>11, <1>12
     DEF Execution

\* The handlers of the approval keep them too.
LEMMA HandlerTypes ==
    ASSUME StatusTypeOK,
           \/ approveTransferSignal
           \/ \E u \in Updates : approveTransferUpdate(u)
    PROVE  StatusTypeOK'
<1>1. ASSUME MainThreadGoesOn
      PROVE  /\ UNCHANGED << progress, transferState, depositResponse >>
             /\ step' \in { "unset", "Validate", "Withdraw", "Deposit", "SendNotification" }
  BY <1>1 DEF StatusTypeOK, MainThreadGoesOn, Approved, upsertStep, status, workflow
<1>2. CASE approveTransferSignal
  <2>1. /\ signals > 0 /\ signals' = signals - 1
        /\ approved' = (approved \/ transferState = "waiting")
        /\ updates' = updates
        /\ MainThreadGoesOn
    BY <1>2, Zenon DEF approveTransferSignal
  <2>2. approved' \in BOOLEAN
    BY <2>1, Zenon
  <2>3. signals' \in 0..MaxSignals
    <3>1. signals \in 0..MaxSignals
      BY DEF StatusTypeOK
    <3>2. signals > 0 /\ signals' = signals - 1
      BY <2>1, Zenon
    <3> QED
      BY <3>1, <3>2, ApprovalsAssumption
  <2> QED
    BY <1>1, <2>1, <2>2, <2>3, Zenon DEF StatusTypeOK
<1>3. ASSUME NEW u \in Updates, approveTransferUpdate(u) PROVE StatusTypeOK'
  <2>1. /\ MainThreadGoesOn
        /\ signals' = signals
        /\ approved' = TRUE \/ approved' = approved
        /\ \E a \in { "accepted", "rejected" } : updates' = [updates EXCEPT ![u] = a]
    BY <1>3, Zenon DEF approveTransferUpdate
  <2>2. approved' \in BOOLEAN
    BY <2>1, Zenon DEF StatusTypeOK
  <2>3. updates' \in [Updates -> { "unsent", "admitted", "accepted", "rejected" }]
    BY <2>1 DEF StatusTypeOK
  <2> QED
    BY <1>1, <2>1, <2>2, <2>3, Zenon DEF StatusTypeOK
<1> QED
  BY <1>2, <1>3

\* Every step keeps them.
LEMMA StatusTypes ==
    ASSUME StatusTypeOK, [Next]_vars
    PROVE  StatusTypeOK'
<1>1. CASE SendSignal
  BY <1>1, ApprovalsAssumption DEF SendSignal, StatusTypeOK, status
<1>2. ASSUME NEW u \in Updates, SendUpdate(u) PROVE StatusTypeOK'
  BY <1>2 DEF SendUpdate, StatusTypeOK, status
<1>3. CASE \/ Environment(Service) \/ Environment(Cancel) \/ Environment(FixBug)
           \/ UNCHANGED vars
  BY <1>3 DEF Environment, StatusTypeOK, status, messages, vars
<1> QED
  BY <1>1, <1>2, <1>3, ExecutionTypes, HandlerTypes DEF Next

\* TypeOK, in parts.
LEMMA TypeParts == TypeOK <=> WorkflowTypeOK /\ type \in ScenarioTypes /\ StatusTypeOK
BY Zenon DEF TypeOK, StatusTypeOK

\* Every step keeps the types.
LEMMA NextTypes ==
    ASSUME TypeOK, [Next]_vars
    PROVE  TypeOK'
<1>1. WorkflowTypeOK' /\ type' = type
  BY NextImplements, StepTypes, TypeStays, TypeParts
<1>2. StatusTypeOK'
  BY StatusTypes, TypeParts
<1> QED
  BY <1>1, <1>2, TypeParts, Zenon DEF TypeOK, StatusTypeOK

-----------------------------------------------------------------------------
(* The invariant. *)

\* A step that waits for no approval and receives none leaves who approved
\* what alone.
LEMMA ExecutionKeepsApproval == Execution => UNCHANGED << approved, signals, updates >>
BY DEF Execution, Start, Validated, AfterValidation, ApprovalExpires, Withdrawn,
       StartDeposit, Deposited, RollBack, RolledBack, Notify, Notified, Finish,
       messages

\* The service and the operator leave what the main thread shows alone.
LEMMA EnvironmentKeeps ==
    ASSUME \/ Environment(Service)
           \/ Environment(Cancel)
           \/ Environment(FixBug)
           \/ SendSignal
           \/ \E u \in Updates : SendUpdate(u)
           \/ Finished /\ UNCHANGED vars
           \/ UNCHANGED vars
    PROVE  UNCHANGED << type, pc, progress, transferState, depositResponse, approved,
                        step >>
<1>1. CASE Environment(Service)
  <2>1. type' = type
    BY <1>1, TypeStays, Zenon DEF Environment, WorkflowNext
  <2> QED
    BY <1>1, <2>1, Zenon DEF Environment, Service, status
<1>2. CASE Environment(Cancel) \/ Environment(FixBug)
  BY <1>2, Zenon DEF Environment, Cancel, FixBug, status
<1>3. CASE SendSignal \/ \E u \in Updates : SendUpdate(u)
  BY <1>3, Zenon DEF SendSignal, SendUpdate, workflow, status
<1>4. CASE UNCHANGED vars
  BY <1>4, Zenon DEF vars, workflow, status
<1> QED
  BY <1>1, <1>2, <1>3, <1>4

\* What the invariant says of the main thread and what clients are told.
ShownFitsMain == StatusFitsMain /\ ApprovalFitsMain /\ StepNamesActivity

\* The main thread keeps it.
LEMMA ExecutionFits ==
    ASSUME TypeOK, ShownFitsMain, Execution
    PROVE  ShownFitsMain'
<1> USE DEF ShownFitsMain, StatusFitsMain, ApprovalFitsMain, StepNamesActivity,
            PastWithdraw, PastDeposit, AtRollBack, updateProgress, upsertStep,
            status, Execute, Sleep, Close, Block, Slept, SleepAfter,
            TRANSFER_STATE
<1>1. CASE Start           BY <1>1 DEF Start, BeginTransfer
<1>2. CASE Validated       BY <1>2 DEF Validated
<1>3. CASE AfterValidation BY <1>3 DEF AfterValidation, AwaitApproval, CallWithdraw
<1>4. CASE ApprovalExpires BY <1>4 DEF ApprovalExpires, Approved, FailUnapproved
<1>5. CASE Withdrawn       BY <1>5 DEF Withdrawn
<1>6. CASE StartDeposit    BY <1>6 DEF StartDeposit, CallDeposit
<1>7. CASE Deposited       BY <1>7 DEF Deposited
<1>8. CASE RollBack        BY <1>8 DEF RollBack, CallUndoWithdraw
<1>9. CASE RolledBack      BY <1>9 DEF RolledBack, FailDeposit
<1>10. CASE Notify         BY <1>10 DEF Notify, CallSendNotification
<1>11. CASE Notified       BY <1>11 DEF Notified
<1>12. CASE Finish         BY <1>12 DEF Finish, CompleteTransfer
<1> QED
  BY <1>1, <1>2, <1>3, <1>4, <1>5, <1>6, <1>7, <1>8, <1>9, <1>10, <1>11, <1>12
     DEF Execution

\* So do the handlers: an approval counts while the transfer waits only.
LEMMA HandlerFits ==
    ASSUME TypeOK, ShownFitsMain,
           \/ approveTransferSignal
           \/ \E u \in Updates : approveTransferUpdate(u)
    PROVE  ShownFitsMain'
<1> USE DEF ShownFitsMain, StatusFitsMain, ApprovalFitsMain, StepNamesActivity,
            PastWithdraw, PastDeposit, AtRollBack
<1>1. UNCHANGED << progress, transferState, depositResponse >>
  BY Zenon DEF approveTransferSignal, approveTransferUpdate, MainThreadGoesOn, status
<1>2. /\ approved => approved'
      /\ approved' => approved \/ transferState = "waiting"
  <2>1. CASE approveTransferSignal
    BY <2>1, Zenon DEF approveTransferSignal
  <2>2. ASSUME NEW u \in Updates, approveTransferUpdate(u)
        PROVE  approved' = approved \/ (approved' = TRUE /\ transferState = "waiting")
    BY <2>2, Zenon DEF approveTransferUpdate, approveTransferUpdateValidator
  <2>3. CASE approved' = approved
    BY <2>3
  <2>4. CASE approved' = TRUE /\ transferState = "waiting"
    BY <2>4
  <2> QED
    BY <2>1, <2>2, <2>3, <2>4
<1>3. CASE UNCHANGED << workflow, step >> /\ ~(pc = "awaitApproval" /\ approved')
  <2>1. UNCHANGED << type, pc, step >>
    BY <1>3 DEF workflow
  <2> QED
    BY <1>1, <1>2, <1>3, <2>1, ApprovalsAssumption DEF TRANSFER_STATE
<1>4. CASE pc = "awaitApproval" /\ approved' /\ (CallWithdraw \/ FailUnapproved)
  <2>1. type' = type /\ type = NEEDS_APPROVAL
    BY <1>4 DEF CallWithdraw, FailUnapproved, Execute, Close, Block
  <2>2. pc' \in { "withdraw", "ApprovalTimeout" }
    BY <1>4 DEF CallWithdraw, FailUnapproved, Execute, Close, Block
  <2> QED
    BY <1>1, <1>2, <1>4, <2>1, <2>2
       DEF ADVANCED_VISIBILITY, NEEDS_APPROVAL
<1> QED
  BY <1>3, <1>4, HandlerIsMainThread, Zenon

\* Every step keeps the fit of what clients are told.
LEMMA NextFits ==
    ASSUME TypeOK, ShownFitsMain, [Next]_vars
    PROVE  ShownFitsMain'
<1>1. CASE UNCHANGED << type, pc, progress, transferState, depositResponse, approved,
                        step >>
  BY <1>1 DEF ShownFitsMain, StatusFitsMain, ApprovalFitsMain, StepNamesActivity,
              PastWithdraw, PastDeposit, AtRollBack
<1> QED
  BY <1>1, ExecutionFits, HandlerFits, EnvironmentKeeps, Zenon DEF Next

\* Only the validator accepts updates, and only one of them: it refuses the
\* next because the transfer is approved.
LEMMA NextAccepts ==
    ASSUME TypeOK, AcceptedApproves, [Next]_vars
    PROVE  AcceptedApproves'
<1>1. CASE UNCHANGED << approved, updates >>
  BY <1>1 DEF AcceptedApproves
<1>2. CASE approveTransferSignal
  <2>1. updates' = updates /\ (approved => approved')
    BY <1>2, Zenon DEF approveTransferSignal
  <2> QED
    BY <2>1, Zenon DEF AcceptedApproves
<1>3. ASSUME NEW u \in Updates, SendUpdate(u) PROVE AcceptedApproves'
  BY <1>3 DEF SendUpdate, AcceptedApproves, TypeOK
<1>4. ASSUME NEW u \in Updates, approveTransferUpdate(u) PROVE AcceptedApproves'
  <2>1. CASE ~approved /\ approved' /\ updates' = [updates EXCEPT ![u] = "accepted"]
    BY <2>1 DEF AcceptedApproves, TypeOK
  <2>2. CASE UNCHANGED approved /\ updates' = [updates EXCEPT ![u] = "rejected"]
    BY <2>2 DEF AcceptedApproves, TypeOK
  <2> QED
    BY <1>4, <2>1, <2>2, Zenon
       DEF approveTransferUpdate, approveTransferUpdateValidator
<1>5. CASE Execution
  BY <1>1, <1>5, ExecutionKeepsApproval
<1>6. CASE \/ SendSignal \/ Environment(Service) \/ Environment(Cancel)
           \/ Environment(FixBug) \/ UNCHANGED vars
  BY <1>1, <1>6 DEF SendSignal, Environment, vars, messages
<1> QED
  BY <1>2, <1>3, <1>4, <1>5, <1>6 DEF Next

\* What clients are told, who approved and where the main thread is fit
\* together in every state: the invariant is inductive.
THEOREM ScenariosInvariance == Spec => []IInv
<1>1. Init => IInv
  <2>1. Init => ShownFitsMain /\ AcceptedApproves
    BY ApprovalsAssumption
       DEF Init, TRANSFER_STATE, WorkflowInit, ShownFitsMain, StatusFitsMain, ApprovalFitsMain,
           StepNamesActivity, AcceptedApproves, PastWithdraw, PastDeposit, AtRollBack
  <2> QED
    BY <2>1, ScenariosInitTypes DEF IInv, ShownFitsMain
<1>2. IInv /\ [Next]_vars => IInv'
  BY NextTypes, NextFits, NextAccepts, Zenon DEF IInv, ShownFitsMain
<1> QED
  BY <1>1, <1>2, PTL DEF Spec

-----------------------------------------------------------------------------
(* Safety. *)

\* Both invariants hold of the scenarios workflow.
LEMMA BothInvariants == Spec => [](IInv /\ WorkflowInv)
BY ScenariosInvariance, ScenariosImplementWorkflow, WorkflowInvariance, PTL
   DEF ImplementsWorkflow

\* A transfer that needs approval moves no money before it is approved.
THEOREM NothingMovesUnapprovedHolds == Spec => []NothingMovesUnapproved
<1>1. IInv /\ WorkflowInv => NothingMovesUnapproved
  BY DEF IInv, WorkflowInv, LedgerFitsMain, ApprovalFitsMain, NothingMovesUnapproved
<1> QED
  BY <1>1, BothInvariants, PTL

\* The status clients query never promises a money movement that has not
\* happened.
THEOREM StatusIsTruthfulHolds == Spec => []StatusIsTruthful
<1>1. IInv /\ WorkflowInv => StatusIsTruthful
  BY DEF IInv, WorkflowInv, LedgerFitsMain, StatusFitsMain, StatusIsTruthful
<1> QED
  BY <1>1, BothInvariants, PTL

\* Of the updates clients sent at any time, the validator accepts one at most.
THEOREM OneUpdateAcceptedHolds == Spec => []OneUpdateAccepted
<1>1. ASSUME IInv PROVE OneUpdateAccepted
  <2> DEFINE accepted == { u \in Updates : updates[u] = "accepted" }
  <2>1. accepted = {} \/ \E u \in Updates : accepted = { u }
    <3>1. ASSUME NEW u \in Updates, updates[u] = "accepted" PROVE accepted = { u }
      BY <1>1, <3>1 DEF IInv, AcceptedApproves
    <3> QED
      BY <3>1
  <2>2. Cardinality({}) = 0 /\ \A u : Cardinality({ u }) = 1
    BY FS_EmptySet, FS_Singleton
  <2> QED
    BY <2>1, <2>2 DEF OneUpdateAccepted
<1> QED
  BY <1>1, ScenariosInvariance, PTL

\* The search attribute Step names the activity in progress, or the last one.
THEOREM StepNamesActivityHolds == Spec => []StepNamesActivity
<1>1. IInv => StepNamesActivity
  BY DEF IInv
<1> QED
  BY <1>1, ScenariosInvariance, PTL

\* An approval handled before the deadline passed gets the withdrawal under way
\* in the same workflow task.
THEOREM TimelyApprovalCountsHolds == Spec => TimelyApprovalCounts
<1>1. ASSUME IInv, [Next]_vars, ~approved, approved', timer = "pending"
      PROVE  pc' = "withdraw"
  <2>1. ~UNCHANGED approved
    BY <1>1
  <2>2. approveTransferSignal \/ \E u \in Updates : approveTransferUpdate(u)
    BY <1>1, <2>1, ExecutionKeepsApproval, EnvironmentKeeps, Zenon DEF Next
  <2>3. Listening /\ transferState = "waiting"
    BY <1>1, <2>2, Zenon
       DEF approveTransferSignal, approveTransferUpdate, approveTransferUpdateValidator
  <2>4. pc = "awaitApproval"
    BY <1>1, <2>3, ApprovalsAssumption
       DEF TRANSFER_STATE, IInv, ApprovalFitsMain, PastWithdraw, Listening, Open, Running, Sleeping,
           ActivityNames
  <2>5. CallWithdraw
    BY <1>1, <2>2, <2>4, HandlerIsMainThread, Zenon
  <2> QED
    BY <2>5 DEF CallWithdraw, Execute, Block
<1>2. IInv /\ [Next]_vars
        => [~approved /\ approved' /\ timer = "pending" => pc' = "withdraw"]_vars
  BY <1>1, Zenon
<1> QED
  BY <1>2, ScenariosInvariance, PTL DEF Spec, TimelyApprovalCounts

-----------------------------------------------------------------------------
(* What clients see over time. *)

\* What one step does to the status.
StatusStep ==
    /\ progress' >= progress
    /\ depositResponse # "empty" => depositResponse' = depositResponse
    /\ transferState' = "waiting" => transferState \in { InitialState, "waiting" }

\* The main thread only adds to the status, as it fits the place before.
LEMMA ExecutionGrows ==
    ASSUME TypeOK, ShownFitsMain, Execution
    PROVE  StatusStep
<1> USE DEF ShownFitsMain, StatusFitsMain, ApprovalFitsMain, StatusStep, TypeOK,
            updateProgress, status, Slept, SleepAfter
<1>1. CASE Start \/ Validated \/ ApprovalExpires \/ Withdrawn \/ RollBack \/ RolledBack
           \/ Notified
  <2>1. UNCHANGED << progress, transferState, depositResponse >>
    BY <1>1, Zenon
       DEF Start, Validated, ApprovalExpires, Withdrawn, RollBack, RolledBack, Notified
  <2> QED
    BY <2>1
<1>2. CASE AfterValidation BY <1>2 DEF AfterValidation, AwaitApproval
<1>3. CASE StartDeposit    BY <1>3 DEF StartDeposit, CallDeposit
<1>4. CASE Deposited       BY <1>4 DEF Deposited
<1>5. CASE Notify          BY <1>5 DEF Notify, CallSendNotification
<1>6. CASE Finish          BY <1>6 DEF Finish, CompleteTransfer
<1> QED
  BY <1>1, <1>2, <1>3, <1>4, <1>5, <1>6 DEF Execution

\* A client that polls the status never sees it go back.
THEOREM StatusGrowsHolds == Spec => StatusGrows
<1>1. ASSUME IInv, [Next]_vars PROVE StatusStep
  <2>1. CASE UNCHANGED << progress, transferState, depositResponse >>
    BY <1>1, <2>1 DEF StatusStep, IInv, TypeOK
  <2>2. CASE Execution
    BY <1>1, <2>2, ExecutionGrows, Zenon DEF IInv, ShownFitsMain
  <2>3. CASE approveTransferSignal \/ \E u \in Updates : approveTransferUpdate(u)
    BY <2>1, <2>3, Zenon
       DEF approveTransferSignal, approveTransferUpdate, MainThreadGoesOn, status
  <2> QED
    BY <1>1, <2>1, <2>2, <2>3, EnvironmentKeeps, Zenon DEF Next
<1>2. IInv /\ [Next]_vars
        => [/\ progress' >= progress
            /\ depositResponse # "empty" => depositResponse' = depositResponse
            /\ transferState' = "waiting" => transferState \in { InitialState, "waiting" }]_vars
  BY <1>1, Zenon DEF StatusStep
<1> QED
  BY <1>2, ScenariosInvariance, PTL DEF Spec, StatusGrows

-----------------------------------------------------------------------------
(* Liveness: what is left to TLC is that transfers end. *)

\* What a transfer workflow keeps: its type, and that money was taken.
LEMMA NextKeeps ==
    ASSUME WorkflowInv, [Next]_vars
    PROVE  type' = type /\ (debits # {} => debits' # {})
BY NextImplements, TypeStays, DebitStays

\* If transfers end, money taken from the sender reaches the recipient or goes
\* back, unless a client cancels: no end leaves it in between.
THEOREM NoMoneyInLimboIfEnds == Spec /\ Terminates => NoMoneyInLimbo
<1>1. WorkflowInv /\ [Next]_vars /\ debits # {} => (debits # {})'
  BY NextKeeps
<1>2. WorkflowInv /\ debits # {} /\ ~Open => credits # {} \/ refunds > 0 \/ cancelled
  BY DEF WorkflowInv, WorkflowTypeOK, LedgerFitsMain, Open, Running, Closed,
         PastWithdraw, PastDeposit
<1> QED
  BY <1>1, <1>2, BothInvariants, PTL DEF Spec, Terminates, NoMoneyInLimbo

\* The types whose failures the scenarios call recoverable.
Recoverable == type \in { ADVANCED_VISIBILITY, API_DOWNTIME, BUG }

\* If transfers end, those that meet a recoverable failure complete, unless a
\* client cancels: the other ends belong to other types.
THEOREM RecoverableFailuresCompleteIfEnds ==
    Spec /\ Terminates => RecoverableFailuresComplete
<1>1. WorkflowInv /\ [Next]_vars /\ Recoverable => Recoverable'
  BY NextKeeps DEF Recoverable
<1>2. WorkflowInv /\ Recoverable /\ ~Open => pc = "completed" \/ cancelled
  BY DEF WorkflowInv, WorkflowTypeOK, FailuresHaveCauses, AtRollBack, Recoverable, Open,
         Running, Closed, ADVANCED_VISIBILITY, API_DOWNTIME, BUG, INVALID_ACCOUNT,
         NEEDS_APPROVAL
<1>3. (\/ type \in { ADVANCED_VISIBILITY, API_DOWNTIME }
       \/ type = BUG /\ worker = "fixed")
        => Recoverable /\ (type = BUG => worker = "fixed")
  BY DEF Recoverable, ADVANCED_VISIBILITY, API_DOWNTIME, BUG
<1> QED
  BY <1>1, <1>2, <1>3, BothInvariants, PTL
     DEF Spec, Terminates, RecoverableFailuresComplete

-----------------------------------------------------------------------------
(* Money. *)

\* The money properties of every transfer workflow hold of this one, whoever
\* approves it, however and when.
THEOREM ScenariosKeepMoney ==
    Spec => /\ [](/\ WithdrawnOnce
                  /\ NoDepositWithoutWithdraw
                  /\ NeverPaidAndRefunded
                  /\ OutcomeMatchesLedger
                  /\ FailuresHaveCauses)
            /\ LateCallsMoveNothing
<1>1. WorkflowInv => FailuresHaveCauses
  BY DEF WorkflowInv
<1>2. WorkflowSpec => LateCallsMoveNothing
  BY LateCallsMoveNothingHolds
<1> QED
  BY <1>1, <1>2, InvariantImplies, BothInvariants, ScenariosImplementWorkflow, PTL
     DEF ImplementsWorkflow
=============================================================================
