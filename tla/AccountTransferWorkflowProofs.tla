-------------------- MODULE AccountTransferWorkflowProofs --------------------
(***************************************************************************)
(* What holds of the happy path for every set of keys, every number of     *)
(* attempts and every number of attempts in flight.                        *)
(***************************************************************************)
EXTENDS AccountTransferWorkflow, TransferWorkflowProofs

-----------------------------------------------------------------------------
(* The happy path is a transfer workflow. *)

\* Its sleeps follow the activities with a name.
LEMMA SleepNames ==
    ASSUME NEW name \in DOMAIN SleepOf
    PROVE  /\ name \in { "validate", "withdraw", "deposit", "sendNotification" }
           /\ SleepOf[name] \in Sleeping
           /\ name = "deposit" => SleepOf[name] = "sleep75"
           /\ name = "validate" => SleepOf[name] = "sleep25"
           /\ name = "withdraw" => SleepOf[name] = "sleep50"
           /\ name = "sendNotification" => SleepOf[name] = "sleep100"
BY DEF SleepOf, Sleeping

\* Each step between two blocking calls is one of the main thread.
LEMMA ExecutionIsMainThread == Execution => MainThread
BY Zenon DEF Execution, Validate, Withdraw, Deposit, Notify, Finish, SleepWith, MainThread

\* Every step of the happy path is a step of a transfer workflow, or leaves it
\* alone.
LEMMA NextImplements ==
    ASSUME [Next]_vars
    PROVE  [WorkflowNext]_workflow
<1>1. CASE Execution
  BY <1>1, ExecutionIsMainThread, Zenon DEF WorkflowNext
<1>2. CASE Environment(Service) \/ Environment(Cancel)
  BY <1>2, Zenon DEF Environment, WorkflowNext
<1>3. CASE UNCHANGED vars
  BY <1>3 DEF vars
<1> QED
  BY <1>1, <1>2, <1>3, Zenon DEF Next

\* The happy path is a transfer workflow.
THEOREM HappyPathImplementsWorkflow == Spec => ImplementsWorkflow
<1>1. Init => WorkflowInit
  BY DEF Init
<1> QED
  BY <1>1, NextImplements, PTL DEF Spec, ImplementsWorkflow, WorkflowSpec

\* So it implements the abstract transfer.
THEOREM HappyPathImplementsTransfer == Spec => ImplementsTransfer
BY HappyPathImplementsWorkflow, WorkflowRefinement DEF ImplementsWorkflow

-----------------------------------------------------------------------------
(* The invariant. *)

\* What the invariant says beside the types of the transfer workflow.
StatusTypeOK ==
    /\ progress        \in { 0, 25, 50, 75, 100 }
    /\ transferState   \in { InitialState, "running", "finished" }
    /\ depositResponse \in { "empty", "example-transfer-id" }

StatusFitsMain ==
    /\ progress >= 50 => PastWithdraw /\ pc # "sleep50"
    /\ progress >= 75 => PastDeposit /\ pc # "sleep75"
    /\ depositResponse # "empty" => PastDeposit
    /\ transferState = "finished" <=> pc = "completed"
    /\ pc \in { "start", "validate", "sleep25", "awaitApproval" } => progress = 0
    /\ pc \in { "withdraw", "sleep50" }          => progress = 25
    /\ pc \in { "deposit", "sleep75" }           => progress = 50

\* IInv, in parts.
LEMMA InvariantParts == IInv <=> WorkflowTypeOK /\ StatusTypeOK /\ StatusFitsMain
BY Zenon DEF IInv, TypeOK, StatusTypeOK, StatusFitsMain

\* The service and clients leave the status and the main thread alone.
LEMMA EnvironmentKeeps ==
    ASSUME Environment(Service) \/ Environment(Cancel) \/ UNCHANGED vars
    PROVE  UNCHANGED << pc, progress, transferState, depositResponse >>
<1>1. CASE Environment(Service)
  BY <1>1, Zenon DEF Environment, Service, status
<1>2. CASE Environment(Cancel)
  BY <1>2, Zenon DEF Environment, Cancel, status
<1>3. CASE UNCHANGED vars
  BY <1>3, Zenon DEF vars, workflow, status
<1> QED
  BY <1>1, <1>2, <1>3

\* The main thread keeps the invariant, and the status never goes back.
LEMMA ExecutionFits ==
    ASSUME StatusTypeOK, StatusFitsMain, Execution
    PROVE  /\ StatusTypeOK' /\ StatusFitsMain'
           /\ progress' >= progress
           /\ depositResponse # "empty" => depositResponse' = depositResponse
<1> USE HappyPathAssumption
    DEF StatusTypeOK, StatusFitsMain, PastWithdraw, PastDeposit, updateProgress,
        status, Execute, Sleep, Close, Block, Slept
<1>1. CASE Validate BY <1>1 DEF Validate, BeginTransfer
<1>2. CASE Withdraw BY <1>2 DEF Withdraw, CallWithdraw
<1>3. CASE Deposit  BY <1>3 DEF Deposit, CallDeposit
<1>4. CASE Notify   BY <1>4 DEF Notify, CallSendNotification
<1>5. CASE Finish   BY <1>5 DEF Finish, CompleteTransfer
<1>6. ASSUME NEW name \in DOMAIN SleepOf, SleepWith(name)
      PROVE  /\ StatusTypeOK' /\ StatusFitsMain'
             /\ progress' >= progress
             /\ depositResponse # "empty" => depositResponse' = depositResponse
  <2>1. /\ pc = name /\ pc' = SleepOf[name]
        /\ progress' = progress /\ transferState' = transferState
        /\ depositResponse' = IF name = "deposit" THEN "example-transfer-id"
                                                  ELSE depositResponse
    BY <1>6, Zenon DEF SleepWith, SleepAfter
  <2> QED
    BY <2>1, SleepNames DEF Sleeping
<1> QED
  BY <1>1, <1>2, <1>3, <1>4, <1>5, <1>6 DEF Execution

\* Every step keeps what the status says, or adds to it.
LEMMA NextFits ==
    ASSUME StatusTypeOK, StatusFitsMain, [Next]_vars
    PROVE  /\ StatusTypeOK' /\ StatusFitsMain'
           /\ progress' >= progress
           /\ depositResponse # "empty" => depositResponse' = depositResponse
<1>1. CASE UNCHANGED << pc, progress, transferState, depositResponse >>
  BY <1>1 DEF StatusTypeOK, StatusFitsMain, PastWithdraw, PastDeposit
<1> QED
  BY <1>1, ExecutionFits, EnvironmentKeeps, Zenon DEF Next

\* The status fits where the main thread is in every state.
THEOREM HappyPathInvariance == Spec => []IInv
<1>1. Init => IInv
  <2>1. Init => StatusTypeOK /\ StatusFitsMain
    BY HappyPathAssumption
       DEF Init, WorkflowInit, StatusTypeOK, StatusFitsMain, PastWithdraw, PastDeposit
  <2> QED
    BY <2>1, InitTypes, InvariantParts, Zenon DEF Init
<1>2. ASSUME IInv, [Next]_vars PROVE IInv'
  <2>1. WorkflowTypeOK'
    BY <1>2, NextImplements, StepTypes, InvariantParts, Zenon
  <2> QED
    BY <1>2, <2>1, NextFits, InvariantParts, Zenon
       DEF IInv, TypeOK, StatusTypeOK, StatusFitsMain
<1> QED
  BY <1>1, <1>2, PTL DEF Spec

-----------------------------------------------------------------------------
(* What clients are told. *)

\* The status never promises a money movement that has not happened.
THEOREM HappyPathStatusIsTruthful == Spec => []StatusIsTruthful
<1>1. IInv /\ WorkflowInv => StatusIsTruthful
  BY InvariantParts
     DEF StatusFitsMain, WorkflowInv, LedgerFitsMain, StatusIsTruthful
<1> QED
  BY <1>1, HappyPathInvariance, HappyPathImplementsWorkflow, WorkflowInvariance, PTL
     DEF ImplementsWorkflow

\* A client never sees the progress, or the response of the deposit, go back.
THEOREM HappyPathProgressGrows == Spec => ProgressGrows
<1>1. IInv /\ [Next]_vars
        => [/\ progress' >= progress
            /\ depositResponse # "empty" => depositResponse' = depositResponse]_vars
  BY NextFits, InvariantParts, Zenon
<1> QED
  BY <1>1, HappyPathInvariance, PTL DEF Spec, ProgressGrows

-----------------------------------------------------------------------------
(* Money. *)

\* A happy path stays one.
LEMMA HappyPathType == Spec => [](type = HAPPY_PATH)
<1>1. Init => type = HAPPY_PATH
  BY HappyPathAssumption DEF Init, WorkflowInit
<1>2. type = HAPPY_PATH /\ [Next]_vars => (type = HAPPY_PATH)'
  BY NextImplements, TypeStays
<1> QED
  BY <1>1, <1>2, PTL DEF Spec

\* Both invariants hold of the happy path.
LEMMA HappyPathInvariants == Spec => [](IInv /\ WorkflowInv /\ type = HAPPY_PATH)
BY HappyPathInvariance, HappyPathImplementsWorkflow, WorkflowInvariance, HappyPathType,
   PTL DEF ImplementsWorkflow

\* The money properties of every transfer workflow hold of the happy path, and
\* as none of its activities fails for good, it never fails and never gives
\* money back.
THEOREM HappyPathKeepsMoney ==
    Spec => [](/\ WithdrawnOnce
               /\ NoDepositWithoutWithdraw
               /\ refunds = 0
               /\ pc \notin { "ApprovalTimeout", "DepositFailed" })
<1>1. IInv /\ WorkflowInv /\ type = HAPPY_PATH
        => /\ refunds = 0
           /\ pc \notin { "ApprovalTimeout", "DepositFailed" }
  BY DEF WorkflowInv, WorkflowTypeOK, ServiceTypeOK, FailuresHaveCauses, LedgerFitsMain,
         AtRollBack, HAPPY_PATH, INVALID_ACCOUNT, NEEDS_APPROVAL
<1>2. WorkflowInv => WithdrawnOnce /\ NoDepositWithoutWithdraw
  BY InvariantImplies
<1> QED
  BY <1>1, <1>2, HappyPathInvariants, PTL

\* If a happy path ends, it ends with the money at the recipient, unless a client
\* cancels it: no other end is left.
THEOREM HappyPathPaysIfEnds == Spec /\ <>~Open => AlwaysPays
<1>1. IInv /\ WorkflowInv /\ type = HAPPY_PATH /\ ~Open
        => cancelled \/ (pc = "completed" /\ credits # {})
  BY DEF WorkflowInv, WorkflowTypeOK, FailuresHaveCauses, LedgerFitsMain, AtRollBack,
         PastDeposit, Open, Running, Closed, HAPPY_PATH, INVALID_ACCOUNT, NEEDS_APPROVAL
<1> QED
  BY <1>1, HappyPathInvariants, PTL DEF AlwaysPays
=============================================================================
