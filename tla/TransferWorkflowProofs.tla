------------------------ MODULE TransferWorkflowProofs ------------------------
(***************************************************************************)
(* What holds of the transfer workflows of all languages, for every set of *)
(* keys, every number of attempts and every number of attempts in flight.  *)
(***************************************************************************)
EXTENDS TransferWorkflow, TemporalServiceProofs, FiniteSetTheorems

-----------------------------------------------------------------------------
(* Types. *)

\* A workflow starts with every variable in its type.
LEMMA InitTypes == WorkflowInit => WorkflowTypeOK
<1> SUFFICES ASSUME WorkflowInit PROVE WorkflowTypeOK
  OBVIOUS
<1>1. ServiceTypeOK
  BY CommandTypes, ScenariosAssumption
     DEF WorkflowInit, ServiceInit, ServiceTypeOK, TimerStates
<1> QED
  BY <1>1 DEF WorkflowInit, WorkflowTypeOK, Running

\* The main thread keeps the types.
LEMMA MainThreadTypes ==
    ASSUME WorkflowTypeOK, MainThread
    PROVE  WorkflowTypeOK'
<1> USE CommandTypes
    DEF WorkflowTypeOK, ServiceTypeOK, TimerStates, Execute, Sleep, Close, Block,
        Running, Closed, Sleeping, ActivityNames, ledger
<1>1. CASE BeginTransfer   BY <1>1 DEF BeginTransfer
<1>2. ASSUME NEW name \in DOMAIN SleepOf, SleepAfter(name, SleepOf[name])
      PROVE  WorkflowTypeOK'
  BY <1>2 DEF SleepAfter, SleepOf
<1>3. CASE AwaitApproval   BY <1>3 DEF AwaitApproval
<1>4. CASE CallWithdraw    BY <1>4 DEF CallWithdraw
<1>5. CASE FailUnapproved  BY <1>5 DEF FailUnapproved
<1>6. CASE CallDeposit     BY <1>6 DEF CallDeposit
<1>7. CASE CallUndoWithdraw     BY <1>7 DEF CallUndoWithdraw
<1>8. CASE FailDeposit          BY <1>8 DEF FailDeposit
<1>9. CASE CallSendNotification BY <1>9 DEF CallSendNotification
<1>10. CASE CompleteTransfer    BY <1>10 DEF CompleteTransfer
<1> QED
  BY <1>1, <1>2, <1>3, <1>4, <1>5, <1>6, <1>7, <1>8, <1>9, <1>10 DEF MainThread

\* Every step keeps the types.
LEMMA StepTypes ==
    ASSUME WorkflowTypeOK, [WorkflowNext]_workflow
    PROVE  WorkflowTypeOK'
<1>1. CASE Service
  BY <1>1, ServiceTypes DEF Service, WorkflowTypeOK
<1>2. CASE FixBug
  BY <1>2 DEF FixBug, WorkflowTypeOK, ServiceTypeOK, service, ledger
<1>3. CASE UNCHANGED workflow
  BY <1>3 DEF WorkflowTypeOK, ServiceTypeOK, workflow, service, ledger
<1>4. CASE Cancel
  BY <1>4, CommandTypes DEF Cancel, WorkflowTypeOK, ServiceTypeOK, ledger, TimerStates
<1> QED
  BY <1>1, <1>2, <1>3, <1>4, MainThreadTypes DEF WorkflowNext

\* The sleeps of the main thread.
LEMMA SleepsAreMainThread ==
    /\ SleepAfter("validate", "sleep25") => MainThread
    /\ SleepAfter("withdraw", "sleep50") => MainThread
    /\ SleepAfter("deposit", "sleep75") => MainThread
    /\ SleepAfter("sendNotification", "sleep100") => MainThread
<1>1. /\ DOMAIN SleepOf = { "validate", "withdraw", "deposit", "sendNotification" }
      /\ SleepOf["validate"] = "sleep25"
      /\ SleepOf["withdraw"] = "sleep50"
      /\ SleepOf["deposit"] = "sleep75"
      /\ SleepOf["sendNotification"] = "sleep100"
  BY DEF SleepOf
<1> QED
  BY <1>1 DEF MainThread

\* What a transfer workflow does to its type: nothing.
LEMMA TypeStays ==
    ASSUME [WorkflowNext]_workflow
    PROVE  type' = type
<1>1. CASE MainThread
  <2>1. ASSUME NEW name \in DOMAIN SleepOf, SleepAfter(name, SleepOf[name])
        PROVE  type' = type
    BY <2>1 DEF SleepAfter, Sleep, Block
  <2> QED
    BY <1>1, <2>1
       DEF MainThread, BeginTransfer, AwaitApproval, CallWithdraw, FailUnapproved,
           CallDeposit, CallUndoWithdraw, FailDeposit, CallSendNotification,
           CompleteTransfer, Execute, Sleep, Close, Block
<1>2. CASE Service
  BY <1>2 DEF Service, ServiceNext, PickUp, CallBank, Report, Lose,
              StartToCloseTimeout, TimerFires
<1>3. CASE Cancel \/ FixBug \/ UNCHANGED workflow
  BY <1>3 DEF Cancel, FixBug, workflow
<1> QED
  BY <1>1, <1>2, <1>3 DEF WorkflowNext

-----------------------------------------------------------------------------
(* The inductive invariant. *)

\* A main thread that calls an activity waits for the one it scheduled.
LEMMA ExecuteFits ==
    ASSUME NEW name \in ActivityNames, NEW key,
           idempotencyKey' \in Keys,
           key = IF name \in Keyed THEN idempotencyKey' ELSE NoKey,
           Execute(name, key)
    PROVE  PendingFitsMain'
<1>1. key \in Keys \cup { NoKey }
  OBVIOUS
<1> QED
  BY <1>1, ScheduledType DEF Execute, Block, PendingFitsMain

\* A main thread that blocks in a timer, or ends, has no activity pending.
LEMMA BlockFits ==
    ASSUME pc' \notin ActivityNames, activity' = NoActivity, idempotencyKey' \in Keys
    PROVE  PendingFitsMain'
BY DEF PendingFitsMain

\* The invariant holds when a workflow starts.
LEMMA InitFits == WorkflowInit => WorkflowInv
BY InitTypes
   DEF WorkflowInit, ServiceInit, WorkflowInv, PendingFitsMain, CallsFitMain,
       LedgerFitsMain, NeverWedged, FailuresHaveCauses, NoActivity, Sleeping, ActivityNames,
       PastWithdraw, PastDeposit, AtRollBack

\* The main thread keeps the invariant.  It moves on from an activity only
\* when the activity has had its effect, and rolls back only a deposit that no
\* attempt can have made.
LEMMA MainThreadFits ==
    ASSUME WorkflowInv, MainThread
    PROVE  PendingFitsMain' /\ CallsFitMain' /\ LedgerFitsMain'
<1> USE DEF WorkflowInv, PastWithdraw, PastDeposit, AtRollBack, ledger, Keyed,
            ActivityNames, Execute, Sleep, Close, Block
<1>1. CASE BeginTransfer
  <2>1. PendingFitsMain'
    BY <1>1, ExecuteFits DEF BeginTransfer
  <2>2. CallsFitMain'
    BY <1>1 DEF BeginTransfer, CallsFitMain, CallFitsMain, Applied
  <2>3. LedgerFitsMain'
    BY <1>1 DEF BeginTransfer, LedgerFitsMain
  <2> QED
    BY <2>1, <2>2, <2>3
<1>2. ASSUME NEW name \in DOMAIN SleepOf, SleepAfter(name, SleepOf[name])
      PROVE  PendingFitsMain' /\ CallsFitMain' /\ LedgerFitsMain'
  <2>1. /\ name \in { "validate", "withdraw", "deposit", "sendNotification" }
        /\ name = "validate" => SleepOf[name] = "sleep25"
        /\ name = "withdraw" => SleepOf[name] = "sleep50"
        /\ name = "deposit" => SleepOf[name] = "sleep75"
        /\ name = "sendNotification" => SleepOf[name] = "sleep100"
    BY <1>2 DEF SleepOf
  <2>2. PendingFitsMain'
    BY <1>2, <2>1, BlockFits DEF SleepAfter, PendingFitsMain
  <2>3. CallsFitMain'
    BY <1>2, <2>1 DEF SleepAfter, CallsFitMain, CallFitsMain, Applied
  <2>4. LedgerFitsMain'
    <3>1. /\ pc = name /\ pc \in ActivityNames /\ ~cancelled
          /\ activity.state = "completed"
      BY <1>2, <2>1 DEF SleepAfter, Completed
    <3>2. Applied(name)
      BY <3>1 DEF PendingFitsMain
    <3> QED
      BY <1>2, <2>1, <3>2 DEF SleepAfter, Applied, LedgerFitsMain
  <2> QED
    BY <2>2, <2>3, <2>4
<1>3. CASE AwaitApproval
  <2>1. PendingFitsMain'
    BY <1>3, BlockFits DEF AwaitApproval, Slept, PendingFitsMain
  <2>2. CallsFitMain'
    BY <1>3 DEF AwaitApproval, Slept, CallsFitMain, CallFitsMain, Applied
  <2>3. LedgerFitsMain'
    BY <1>3 DEF AwaitApproval, Slept, LedgerFitsMain
  <2> QED
    BY <2>1, <2>2, <2>3
<1>4. CASE CallWithdraw
  <2>1. PendingFitsMain'
    BY <1>4, ExecuteFits DEF CallWithdraw, Slept, PendingFitsMain
  <2>2. CallsFitMain'
    BY <1>4 DEF CallWithdraw, Slept, CallsFitMain, CallFitsMain, Applied
  <2>3. LedgerFitsMain'
    BY <1>4 DEF CallWithdraw, Slept, LedgerFitsMain
  <2> QED
    BY <2>1, <2>2, <2>3
<1>5. CASE FailUnapproved
  <2>1. PendingFitsMain'
    BY <1>5, BlockFits DEF FailUnapproved, PendingFitsMain
  <2>2. CallsFitMain'
    BY <1>5 DEF FailUnapproved, CallsFitMain, CallFitsMain, Applied
  <2>3. LedgerFitsMain'
    BY <1>5 DEF FailUnapproved, LedgerFitsMain
  <2> QED
    BY <2>1, <2>2, <2>3
<1>6. CASE CallDeposit
  <2>1. PendingFitsMain'
    BY <1>6, ExecuteFits DEF CallDeposit, Slept, PendingFitsMain
  <2>2. CallsFitMain'
    BY <1>6 DEF CallDeposit, Slept, CallsFitMain, CallFitsMain, Applied
  <2>3. LedgerFitsMain'
    BY <1>6 DEF CallDeposit, Slept, LedgerFitsMain
  <2> QED
    BY <2>1, <2>2, <2>3
<1>7. CASE CallUndoWithdraw
  <2>1. PendingFitsMain'
    BY <1>7, ExecuteFits DEF CallUndoWithdraw, PendingFitsMain
  <2>2. activity.attempt \in Nat /\ deposit(type, activity.attempt) # "ok"
    <3>1. activity \in PendingActivities
      BY <1>7 DEF CallUndoWithdraw, PendingFitsMain
    <3>2. Outcome("deposit", type, activity.attempt) = "nonRetryable"
      BY <1>7 DEF CallUndoWithdraw, Failed, PendingFitsMain
    <3> QED
      BY <3>1, <3>2 DEF PendingActivities, Outcome
  <2>3. CallsFitMain'
    <3> SUFFICES ASSUME NEW c \in calls PROVE CallFitsMain(c)'
      BY <1>7 DEF CallUndoWithdraw, CallsFitMain
    <3>1. CallFitsMain(c) /\ c.attempt \in Nat
      BY DEF CallsFitMain, WorkflowTypeOK, ServiceTypeOK, Calls
    <3>2. c.name = "deposit" => deposit(type, c.attempt) # "ok"
      BY <1>7, <2>2, <3>1, DepositMonotone
         DEF CallUndoWithdraw, CallFitsMain, WorkflowTypeOK, ServiceTypeOK
    <3> QED
      BY <1>7, <3>1, <3>2 DEF CallUndoWithdraw, CallFitsMain, Applied
  <2>4. LedgerFitsMain'
    BY <1>7, <2>2 DEF CallUndoWithdraw, LedgerFitsMain
  <2> QED
    BY <2>1, <2>3, <2>4
<1>8. CASE FailDeposit
  <2>1. PendingFitsMain'
    BY <1>8, BlockFits DEF FailDeposit, PendingFitsMain
  <2>2. CallsFitMain'
    BY <1>8 DEF FailDeposit, CallsFitMain, CallFitsMain, Applied
  <2>3. LedgerFitsMain'
    <3>1. Applied("undoWithdraw")
      BY <1>8 DEF FailDeposit, Completed, PendingFitsMain
    <3> QED
      BY <1>8, <3>1 DEF FailDeposit, Applied, LedgerFitsMain
  <2> QED
    BY <2>1, <2>2, <2>3
<1>9. CASE CallSendNotification
  <2>1. PendingFitsMain'
    BY <1>9, ExecuteFits DEF CallSendNotification, Slept, PendingFitsMain
  <2>2. CallsFitMain'
    BY <1>9 DEF CallSendNotification, Slept, CallsFitMain, CallFitsMain, Applied
  <2>3. LedgerFitsMain'
    BY <1>9 DEF CallSendNotification, Slept, LedgerFitsMain
  <2> QED
    BY <2>1, <2>2, <2>3
<1>10. CASE CompleteTransfer
  <2>1. PendingFitsMain'
    BY <1>10, BlockFits DEF CompleteTransfer, Slept, PendingFitsMain
  <2>2. CallsFitMain'
    BY <1>10 DEF CompleteTransfer, Slept, CallsFitMain, CallFitsMain, Applied
  <2>3. LedgerFitsMain'
    BY <1>10 DEF CompleteTransfer, Slept, LedgerFitsMain
  <2> QED
    BY <2>1, <2>2, <2>3
<1> QED
  BY <1>1, <1>2, <1>3, <1>4, <1>5, <1>6, <1>7, <1>8, <1>9, <1>10 DEF MainThread

\* A worker that takes an attempt, loses it or reports it, a late attempt that
\* calls the bank, a timeout and a retry keep the invariant: an attempt is of an
\* activity the main thread has reached, under the key of this transfer.
LEMMA ServiceFits ==
    ASSUME WorkflowInv, Service
    PROVE  PendingFitsMain' /\ CallsFitMain' /\ LedgerFitsMain'
<1> USE DEF WorkflowInv, PastWithdraw, PastDeposit, AtRollBack, ledger, Keyed
<1>1. UNCHANGED << pc, idempotencyKey, type, cancelled >>
  BY DEF Service, ServiceNext, PickUp, CallBank, Report, Lose,
         StartToCloseTimeout, TimerFires
<1>3. CASE PickUp
  <2>1. /\ activity \in PendingActivities
        /\ pc \in ActivityNames
        /\ activity.name = pc
        /\ ~cancelled
    BY <1>3 DEF PickUp, PendingFitsMain, NoActivity
  <2> DEFINE call == [ name    |-> activity.name,
                       key     |-> activity.key,
                       attempt |-> activity.attempt,
                       state   |-> "running" ]
  <2>2. PendingFitsMain'
    <3>1. /\ activity' \in PendingActivities
          /\ activity'.name = pc
          /\ activity'.key = activity.key
          /\ activity'.attempt = activity.attempt
          /\ activity'.state = "started"
      BY <1>3, <2>1 DEF PickUp, PendingActivities, ActivityStates
    <3> QED
      BY <1>1, <2>1, <3>1 DEF PendingFitsMain
  <2>3. CallsFitMain'
    <3>1. activity'.attempt = activity.attempt
      BY <1>3, <2>1 DEF PickUp, PendingActivities
    <3>2. activity.attempt \in Nat
      BY <2>1 DEF PendingActivities
    <3>3. ASSUME NEW c \in calls PROVE CallFitsMain(c)'
      BY <1>1, <1>3, <3>1 DEF PickUp, CallsFitMain, CallFitsMain, Applied
    <3>4. CallFitsMain(call)'
      BY <1>1, <1>3, <2>1, <3>1, <3>2
         DEF PickUp, PendingFitsMain, CallFitsMain
    <3> QED
      BY <1>3, <3>3, <3>4 DEF PickUp, CallsFitMain
  <2>4. LedgerFitsMain'
    <3>1. activity'.attempt = activity.attempt
      BY <1>3, <2>1 DEF PickUp, PendingActivities
    <3> QED
      BY <1>1, <1>3, <3>1 DEF PickUp, LedgerFitsMain
  <2> QED
    BY <2>2, <2>3, <2>4
<1>4. ASSUME NEW c \in calls, CallBank(c)
      PROVE  PendingFitsMain' /\ CallsFitMain' /\ LedgerFitsMain'
  <2>1. /\ CallFitsMain(c)
        /\ c \in Calls
        /\ c.attempt \in Nat
        /\ type \in Types
    BY DEF CallsFitMain, WorkflowTypeOK, ServiceTypeOK, Calls
  <2> DEFINE ok == Outcome(c.name, type, c.attempt) = "ok"
  <2>2. /\ debits' = IF c.name = "withdraw" /\ ok THEN debits \cup { c.key } ELSE debits
        /\ credits' = IF c.name = "deposit" /\ ok THEN credits \cup { c.key } ELSE credits
        /\ refunds' = IF c.name = "undoWithdraw" /\ ok THEN refunds + 1 ELSE refunds
        /\ activity' = activity
    BY <1>4 DEF CallBank
  <2>3. refunds \in Nat
    BY DEF WorkflowTypeOK, ServiceTypeOK
  <2>4. c.name = "deposit" /\ ok => deposit(type, c.attempt) = "ok"
    BY DEF Outcome
  <2>5. LedgerFitsMain'
    <3>1. c.name = "deposit" /\ ok /\ pc = "deposit" /\ ~cancelled
            => deposit(type, activity.attempt) = "ok"
      <4>1. pc = "deposit" /\ ~cancelled => activity.attempt \in Nat
        BY DEF PendingFitsMain, PendingActivities, ActivityNames
      <4> QED
        BY <2>1, <2>4, <4>1, DepositMonotone DEF CallFitsMain
    <3> QED
      BY <1>1, <2>1, <2>2, <2>3, <2>4, <3>1 DEF LedgerFitsMain, CallFitsMain
  <2>6. \A name : Applied(name) => Applied(name)'
    BY <1>1, <2>1, <2>2, <2>3 DEF Applied, CallFitsMain
  <2>7. ok => Applied(c.name)'
    BY <1>1, <2>1, <2>2, <2>3, <2>5, <2>6 DEF Applied, CallFitsMain, LedgerFitsMain
  <2>8. PendingFitsMain'
    BY <1>1, <2>2, <2>6 DEF PendingFitsMain
  <2>9. CallsFitMain'
    <3>1. ASSUME NEW d \in calls PROVE CallFitsMain(d)'
      BY <1>1, <2>2, <2>6 DEF CallsFitMain, CallFitsMain
    <3>2. CallFitsMain([c EXCEPT !.state = "answered"])'
      <4>1. /\ [c EXCEPT !.state = "answered"].name = c.name
            /\ [c EXCEPT !.state = "answered"].key = c.key
            /\ [c EXCEPT !.state = "answered"].attempt = c.attempt
        BY <2>1 DEF Calls
      <4> QED
        BY <1>1, <2>1, <2>2, <2>7, <4>1 DEF CallFitsMain
    <3> QED
      BY <1>4, <3>1, <3>2 DEF CallBank, CallsFitMain
  <2> QED
    BY <2>5, <2>8, <2>9
<1>5. ASSUME NEW c \in calls, Lose(c)
      PROVE  PendingFitsMain' /\ CallsFitMain' /\ LedgerFitsMain'
  <2>1. PendingFitsMain' /\ LedgerFitsMain'
    BY <1>1, <1>5 DEF Lose, PendingFitsMain, LedgerFitsMain, Applied
  <2>2. CallsFitMain'
    BY <1>1, <1>5 DEF Lose, CallsFitMain, CallFitsMain, Applied
  <2> QED
    BY <2>1, <2>2
<1>6. CASE TimerFires
  <2>1. PendingFitsMain' /\ LedgerFitsMain'
    BY <1>1, <1>6 DEF TimerFires, PendingFitsMain, LedgerFitsMain, Applied
  <2>2. CallsFitMain'
    BY <1>1, <1>6 DEF TimerFires, CallsFitMain, CallFitsMain, Applied
  <2> QED
    BY <2>1, <2>2
<1>7. ASSUME activity.state = "started", activity.attempt < MaxAttempts,
             activity' = Retry, calls' \subseteq calls, UNCHANGED ledger
      PROVE  PendingFitsMain' /\ CallsFitMain' /\ LedgerFitsMain'
  <2>1. /\ activity \in PendingActivities
        /\ pc \in ActivityNames
        /\ activity.attempt \in Nat
        /\ ~cancelled
    BY <1>7 DEF PendingFitsMain, NoActivity, PendingActivities
  <2>2. /\ Retry \in PendingActivities
        /\ Retry.name = activity.name
        /\ Retry.key = activity.key
        /\ Retry.attempt = activity.attempt + 1
        /\ Retry.state = "scheduled"
    BY <1>7, <2>1, ServiceAssumption
       DEF Retry, Attempt, PendingActivities, ActivityStates
  <2>3. PendingFitsMain'
    BY <1>1, <1>7, <2>1, <2>2 DEF PendingFitsMain
  <2>4. CallsFitMain'
    <3> SUFFICES ASSUME NEW c \in calls' PROVE CallFitsMain(c)'
      BY DEF CallsFitMain
    <3>1. CallFitsMain(c) /\ c.attempt \in Nat
      BY <1>7 DEF CallsFitMain, WorkflowTypeOK, ServiceTypeOK, Calls
    <3> QED
      BY <1>1, <1>7, <2>1, <2>2, <3>1 DEF CallFitsMain, Applied
  <2>5. LedgerFitsMain'
    <3>1. credits # {} /\ pc = "deposit" => deposit(type, activity.attempt + 1) = "ok"
      BY <2>1, DepositMonotone DEF LedgerFitsMain, WorkflowTypeOK, ServiceTypeOK
    <3> QED
      BY <1>1, <1>7, <2>2, <3>1 DEF LedgerFitsMain
  <2> QED
    BY <2>3, <2>4, <2>5
<1>8. ASSUME activity.state = "started", NEW s \in { "completed", "failed" },
             activity' = [activity EXCEPT !.state = s],
             s = "completed" => Applied(pc),
             s = "failed" => Outcome(pc, type, activity.attempt) = "nonRetryable",
             calls' \subseteq calls, UNCHANGED ledger
      PROVE  PendingFitsMain' /\ CallsFitMain' /\ LedgerFitsMain'
  <2>1. /\ activity \in PendingActivities
        /\ pc \in ActivityNames
        /\ ~cancelled
    BY <1>8 DEF PendingFitsMain, NoActivity
  <2>2. /\ activity' \in PendingActivities
        /\ activity'.name = activity.name
        /\ activity'.key = activity.key
        /\ activity'.attempt = activity.attempt
        /\ activity'.state = s
    BY <1>8, <2>1 DEF PendingActivities, ActivityStates
  <2>3. PendingFitsMain'
    BY <1>1, <1>8, <2>1, <2>2 DEF PendingFitsMain, Applied
  <2>4. CallsFitMain'
    BY <1>1, <1>8, <2>2 DEF CallsFitMain, CallFitsMain, Applied
  <2>5. LedgerFitsMain'
    BY <1>1, <1>8, <2>2 DEF LedgerFitsMain
  <2> QED
    BY <2>3, <2>4, <2>5
<1>9. CASE StartToCloseTimeout
  BY <1>7, <1>9 DEF StartToCloseTimeout
<1>10. ASSUME NEW c \in calls, Report(c)
      PROVE  PendingFitsMain' /\ CallsFitMain' /\ LedgerFitsMain'
  <2>1. /\ CallFitsMain(c)
        /\ c.attempt \in Nat
        /\ calls' \subseteq calls
        /\ c.state = "answered"
        /\ UNCHANGED ledger
    BY <1>10 DEF Report, CallsFitMain, WorkflowTypeOK, ServiceTypeOK, Calls
  <2>2. CASE ~IsCurrent(c)
    <3>1. activity' = activity
      BY <1>10, <2>2 DEF Report
    <3>2. PendingFitsMain' /\ LedgerFitsMain'
      BY <1>1, <2>1, <3>1 DEF PendingFitsMain, LedgerFitsMain, Applied
    <3>3. CallsFitMain'
      BY <1>1, <2>1, <3>1 DEF CallsFitMain, CallFitsMain, Applied
    <3> QED
      BY <3>2, <3>3
  <2>3. CASE IsCurrent(c)
    <3>1. /\ activity.state = "started"
          /\ activity.attempt = c.attempt
          /\ c.name = pc
      BY <2>3 DEF IsCurrent, PendingFitsMain, NoActivity
    <3>2. CASE Outcome(c.name, type, c.attempt) = "ok"
      <4>1. activity' = [activity EXCEPT !.state = "completed"]
        BY <1>10, <2>3, <3>2 DEF Report
      <4>2. Applied(pc)
        BY <2>1, <3>1, <3>2 DEF CallFitsMain
      <4> QED
        BY <1>8, <2>1, <3>1, <4>1, <4>2
    <3>3. CASE Outcome(c.name, type, c.attempt) = "nonRetryable"
      <4>1. activity' = [activity EXCEPT !.state = "failed"]
        BY <1>10, <2>3, <3>3 DEF Report
      <4> QED
        BY <1>8, <2>1, <3>1, <3>3, <4>1
    <3>4. CASE Outcome(c.name, type, c.attempt) = "retryable"
      <4>1. activity' = Retry
        BY <1>10, <2>3, <3>4 DEF Report
      <4>2. activity.attempt < MaxAttempts
        BY <2>1, <3>1, <3>4, RetriedEarly, ServiceAssumption
           DEF WorkflowTypeOK, ServiceTypeOK, FirstGoodAttempt
      <4> QED
        BY <1>7, <2>1, <3>1, <4>1, <4>2
    <3> QED
      BY <1>10, <2>3, <3>2, <3>3, <3>4 DEF Report
  <2> QED
    BY <2>2, <2>3
<1> QED
  BY <1>3, <1>4, <1>5, <1>6, <1>9, <1>10 DEF Service, ServiceNext

\* A client that cancels keeps the invariant: nothing is pending any more, and
\* what is in flight is of activities the main thread has reached.
LEMMA CancelFits ==
    ASSUME WorkflowInv, Cancel
    PROVE  PendingFitsMain' /\ CallsFitMain' /\ LedgerFitsMain'
<1> USE DEF WorkflowInv, PastWithdraw, PastDeposit, AtRollBack
<1>1. /\ UNCHANGED << type, calls, debits, credits, refunds, pc, idempotencyKey >>
      /\ activity' = NoActivity
  BY DEF Cancel, ledger
<1>2. cancelled'
  BY DEF Cancel
<1>3. PendingFitsMain'
  BY <1>1, <1>2 DEF PendingFitsMain
<1>4. CallsFitMain'
  BY <1>1, <1>2 DEF CallsFitMain, CallFitsMain, Applied
<1>5. LedgerFitsMain'
  BY <1>1, <1>2 DEF LedgerFitsMain
<1> QED
  BY <1>3, <1>4, <1>5

\* A pending activity fails for good only where the catch block is.
LEMMA OnlyDepositFails ==
    ASSUME PendingFitsMain', pc' \in ActivityNames, ~cancelled'
    PROVE  (\/ activity.state \in { "scheduled", "started" }
            \/ Completed(pc)
            \/ Failed(pc) /\ pc = "deposit")'
<1>1. /\ activity'.state \in ActivityStates /\ activity'.name = pc'
      /\ activity'.attempt \in Nat
  BY DEF PendingFitsMain, PendingActivities
<1>2. activity'.state = "failed" => pc' = "deposit"
  BY <1>1 DEF PendingFitsMain, Outcome, withdraw
<1> QED
  BY <1>1, <1>2 DEF ActivityStates, Completed, Failed

\* What an open transfer waits for is still to come after each step: the main
\* thread blocks with one thing pending, and the service gives up an attempt
\* only for the next one.
LEMMA NextGoesOn ==
    ASSUME WorkflowInv, PendingFitsMain', [WorkflowNext]_workflow
    PROVE  NeverWedged'
<1> DEFINE TimerFits == timer = "none" <=> cancelled \/ pc \notin Sleeping \cup { "awaitApproval" }
           StartedEnds == activity.state = "started" => InFlight \/ activity.attempt < MaxAttempts
<1>1. TimerFits' /\ StartedEnds'
  <2> USE DEF NoActivity, Sleeping, ActivityNames
  <2>1. CASE MainThread
    <3> USE DEF Execute, Sleep, Close, Block, Scheduled, Attempt
    <3>1. ASSUME NEW name \in DOMAIN SleepOf, SleepAfter(name, SleepOf[name])
          PROVE  TimerFits' /\ StartedEnds'
      BY <3>1 DEF SleepAfter, SleepOf
    <3> QED
      BY <2>1, <3>1
         DEF MainThread, BeginTransfer, AwaitApproval, CallWithdraw, FailUnapproved,
             CallDeposit, CallUndoWithdraw, FailDeposit, CallSendNotification,
             CompleteTransfer
  <2>2. CASE Cancel
    BY <2>2 DEF Cancel
  <2>3. CASE FixBug \/ UNCHANGED workflow
    BY <2>3 DEF FixBug, workflow, service, WorkflowInv, NeverWedged, InFlight, IsCurrent
  <2>4. CASE Service
    <3>1. UNCHANGED << pc, cancelled >> /\ (timer' = timer \/ (timer = "pending" /\ timer' = "fired"))
      BY <2>4 DEF Service, ServiceNext, PickUp, CallBank, Report, Lose,
                  StartToCloseTimeout, TimerFires
    <3>2. TimerFits'
      BY <3>1 DEF WorkflowInv, NeverWedged
    <3>3. StartedEnds'
      BY <2>4, ServiceStartedEnds DEF Service, WorkflowInv, WorkflowTypeOK, NeverWedged
    <3> QED
      BY <3>2, <3>3
  <2> QED
    BY <2>1, <2>2, <2>3, <2>4 DEF WorkflowNext
<1>2. (pc \in ActivityNames /\ ~cancelled =>
          \/ activity.state \in { "scheduled", "started" }
          \/ Completed(pc)
          \/ Failed(pc) /\ pc = "deposit")'
  BY OnlyDepositFails
<1> QED
  BY <1>1, <1>2 DEF NeverWedged

\* Only a deposit that the bank refuses for good is rolled back, and only a
\* transfer that needs an approval waits for one.
LEMMA NextHasCauses ==
    ASSUME WorkflowInv, [WorkflowNext]_workflow
    PROVE  FailuresHaveCauses'
<1> USE DEF WorkflowInv, FailuresHaveCauses, AtRollBack
<1>1. type' = type
  BY TypeStays
<1>2. CASE CallUndoWithdraw
  <2>1. /\ activity.attempt \in Nat /\ pc = "deposit"
        /\ Outcome("deposit", type, activity.attempt) = "nonRetryable"
    BY <1>2 DEF CallUndoWithdraw, Failed, PendingFitsMain, PendingActivities,
                ActivityNames, Execute, Block
  <2>2. type = INVALID_ACCOUNT
    BY <2>1 DEF Outcome, deposit, simulateExternalOperation, INVALID_ACCOUNT,
                WorkflowTypeOK, ServiceTypeOK
  <2> QED
    BY <1>1, <1>2, <2>2 DEF CallUndoWithdraw, Execute, Block
<1>3. ASSUME NEW name \in DOMAIN SleepOf, SleepAfter(name, SleepOf[name])
      PROVE  FailuresHaveCauses'
  BY <1>1, <1>3 DEF SleepAfter, SleepOf, Sleep, Block
<1>4. CASE MainThread /\ ~CallUndoWithdraw
  BY <1>1, <1>3, <1>4
     DEF MainThread, BeginTransfer, AwaitApproval, CallWithdraw, FailUnapproved,
         CallDeposit, FailDeposit, CallSendNotification, CompleteTransfer,
         Execute, Sleep, Close, Block, Slept
<1>5. CASE Service \/ Cancel \/ FixBug \/ UNCHANGED workflow
  BY <1>1, <1>5 DEF Service, Cancel, FixBug, workflow
<1> QED
  BY <1>2, <1>4, <1>5 DEF WorkflowNext

\* The invariant is inductive: in every state of every transfer workflow the
\* main thread, the pending activity, the attempts in flight and the ledger fit
\* together.
THEOREM WorkflowInvariance == WorkflowSpec => []WorkflowInv
<1>1. ASSUME WorkflowInv, [WorkflowNext]_workflow PROVE WorkflowInv'
  <2>1. ASSUME FixBug \/ UNCHANGED workflow
        PROVE  PendingFitsMain' /\ CallsFitMain' /\ LedgerFitsMain'
    <3>1. UNCHANGED << type, activity, calls, debits, credits, refunds, pc,
                       idempotencyKey, cancelled >>
      BY <2>1 DEF FixBug, workflow, service, ledger
    <3>2. PendingFitsMain'
      BY <1>1, <3>1 DEF WorkflowInv, PendingFitsMain, Applied
    <3>3. CallsFitMain'
      BY <1>1, <3>1
         DEF WorkflowInv, CallsFitMain, CallFitsMain, Applied, PastWithdraw,
             PastDeposit, AtRollBack
    <3>4. LedgerFitsMain'
      BY <1>1, <3>1
         DEF WorkflowInv, LedgerFitsMain, PastWithdraw, PastDeposit, AtRollBack
    <3> QED
      BY <3>2, <3>3, <3>4
  <2>2. ASSUME MainThread \/ Service \/ Cancel
        PROVE  PendingFitsMain' /\ CallsFitMain' /\ LedgerFitsMain'
    BY <1>1, <2>2, MainThreadFits, ServiceFits, CancelFits
  <2>3. WorkflowTypeOK'
    BY <1>1, StepTypes DEF WorkflowInv
  <2>4. PendingFitsMain' /\ CallsFitMain' /\ LedgerFitsMain'
    BY <1>1, <2>1, <2>2 DEF WorkflowNext
  <2>5. NeverWedged'
    BY <1>1, <2>4, NextGoesOn
  <2>6. FailuresHaveCauses'
    BY <1>1, NextHasCauses
  <2> QED
    BY <2>3, <2>4, <2>5, <2>6 DEF WorkflowInv
<1> QED
  BY <1>1, InitFits, PTL DEF WorkflowSpec

-----------------------------------------------------------------------------
(* Safety. *)

\* The safety properties follow from the invariant.
LEMMA InvariantImplies ==
    ASSUME WorkflowInv
    PROVE  /\ WithdrawnOnce
           /\ NoDepositWithoutWithdraw
           /\ NeverPaidAndRefunded
           /\ OutcomeMatchesLedger
<1> USE DEF WorkflowInv, LedgerFitsMain, PastWithdraw, PastDeposit, AtRollBack
<1>0. refunds \in Nat
  BY DEF WorkflowTypeOK, ServiceTypeOK
<1>1. WithdrawnOnce
  <2>1. debits = {} \/ debits = { idempotencyKey }
    OBVIOUS
  <2>2. Cardinality({}) = 0 /\ Cardinality({ idempotencyKey }) = 1
    BY FS_EmptySet, FS_Singleton
  <2> QED
    BY <2>1, <2>2 DEF WithdrawnOnce
<1>2. NoDepositWithoutWithdraw
  BY DEF NoDepositWithoutWithdraw
<1>3. NeverPaidAndRefunded
  BY <1>0 DEF NeverPaidAndRefunded
<1>4. OutcomeMatchesLedger
  <2>1. pc = "ApprovalTimeout" => ~ \E c \in calls : c.name = "withdraw"
    BY DEF CallsFitMain, CallFitsMain
  <2> QED
    BY <1>0, <2>1 DEF OutcomeMatchesLedger
<1> QED
  BY <1>1, <1>2, <1>3, <1>4

\* An open transfer never waits for what cannot come: what is left of
\* termination without fairness.
THEOREM NeverWedgedHolds == WorkflowSpec => []NeverWedged
<1>1. WorkflowInv => NeverWedged
  BY DEF WorkflowInv
<1> QED
  BY <1>1, WorkflowInvariance, PTL

\* A transfer fails for the reason its type simulates, and for no other.
THEOREM FailuresHaveCausesHolds == WorkflowSpec => []FailuresHaveCauses
<1>1. WorkflowInv => FailuresHaveCauses
  BY DEF WorkflowInv
<1> QED
  BY <1>1, WorkflowInvariance, PTL

\* However often withdraw runs, the sender is debited at most once.
THEOREM WithdrawnOnceHolds == WorkflowSpec => []WithdrawnOnce
BY WorkflowInvariance, InvariantImplies, PTL

\* The recipient is paid only with money taken from the sender.
THEOREM NoDepositWithoutWithdrawHolds == WorkflowSpec => []NoDepositWithoutWithdraw
BY WorkflowInvariance, InvariantImplies, PTL

\* The recipient is never paid what the sender also gets back.
THEOREM NeverPaidAndRefundedHolds == WorkflowSpec => []NeverPaidAndRefunded
BY WorkflowInvariance, InvariantImplies, PTL

\* How the workflow ends says where the money is.
THEOREM OutcomeMatchesLedgerHolds == WorkflowSpec => []OutcomeMatchesLedger
BY WorkflowInvariance, InvariantImplies, PTL

-----------------------------------------------------------------------------
(* Steps, and the abstract transfer. *)

\* A call of the bank moves money only when the main thread waits for that
\* very call; a late one finds its key applied already.
LEMMA BankMoves ==
    ASSUME WorkflowInv, NEW c \in calls, CallBank(c)
    PROVE  /\ debits' # debits =>
                 /\ pc = "withdraw" /\ debits = {} /\ debits' # {}
                 /\ UNCHANGED << credits, refunds >>
           /\ credits' # credits =>
                 /\ pc = "deposit" /\ credits = {} /\ credits' # {}
                 /\ UNCHANGED << debits, refunds >>
           /\ refunds' # refunds =>
                 /\ AtRollBack /\ refunds' > 0 /\ (refunds = 0 => pc = "undoWithdraw")
                 /\ UNCHANGED << debits, credits >>
<1> USE DEF WorkflowInv, LedgerFitsMain, PastWithdraw, PastDeposit, AtRollBack,
            Keyed
<1> DEFINE ok == Outcome(c.name, type, c.attempt) = "ok"
<1>1. CallFitsMain(c)
  BY DEF CallsFitMain
<1>2. /\ debits' = IF c.name = "withdraw" /\ ok THEN debits \cup { c.key } ELSE debits
      /\ credits' = IF c.name = "deposit" /\ ok THEN credits \cup { c.key } ELSE credits
      /\ refunds' = IF c.name = "undoWithdraw" /\ ok THEN refunds + 1 ELSE refunds
  BY DEF CallBank
<1>3. refunds \in Nat
  BY DEF WorkflowTypeOK, ServiceTypeOK
<1>4. c.name = "deposit" /\ ok => deposit(type, c.attempt) = "ok"
  BY DEF Outcome
<1> QED
  BY <1>1, <1>2, <1>3, <1>4 DEF CallFitsMain

\* What a step does to the ledger and to the outcome of the transfer.
LEMMA StepKinds ==
    ASSUME WorkflowInv, [WorkflowNext]_workflow
    PROVE  \/ UNCHANGED << pc, cancelled, ledger >>
           \/ Open /\ Open' /\ UNCHANGED ledger
           \/ Open /\ cancelled' /\ UNCHANGED << pc, ledger >>
           \/ /\ Open /\ ~cancelled' /\ UNCHANGED ledger
              /\ \/ pc = "awaitApproval" /\ pc' = "ApprovalTimeout"
                 \/ pc = "undoWithdraw" /\ pc' = "DepositFailed" /\ refunds > 0
                 \/ pc = "sleep100" /\ pc' = "completed"
           \/ UNCHANGED << pc, cancelled >> /\ \E c \in calls : CallBank(c)
<1> USE DEF Open, Running, Sleeping, ActivityNames, ledger, Execute, Sleep, Close,
            Block, Slept
<1>1. CASE FailDeposit
  <2>1. refunds > 0
    BY <1>1 DEF FailDeposit, Completed, WorkflowInv, PendingFitsMain, Applied
  <2> QED
    BY <1>1, <2>1 DEF FailDeposit
<1>2. ASSUME NEW name \in DOMAIN SleepOf, SleepAfter(name, SleepOf[name])
      PROVE  Open /\ Open' /\ UNCHANGED ledger
  BY <1>2 DEF SleepAfter, SleepOf
<1>3. CASE MainThread /\ ~FailDeposit
  BY <1>2, <1>3
     DEF MainThread, BeginTransfer, AwaitApproval, CallWithdraw, FailUnapproved,
         CallDeposit, CallUndoWithdraw, CallSendNotification, CompleteTransfer
<1>4. CASE FixBug \/ UNCHANGED workflow
  BY <1>4 DEF FixBug, workflow
<1>5. CASE Service
  BY <1>5 DEF Service, ServiceNext, PickUp, Report, Lose, StartToCloseTimeout,
              TimerFires
<1>6. CASE Cancel
  <2>1. cancelled'
    BY <1>6 DEF Cancel
  <2> QED
    BY <1>6, <2>1 DEF Cancel
<1> QED
  BY <1>1, <1>3, <1>4, <1>5, <1>6 DEF WorkflowNext

\* Attempts in flight after the end of a workflow no longer move money into or
\* out of the accounts.
THEOREM LateCallsMoveNothingHolds == WorkflowSpec => LateCallsMoveNothing
<1>1. WorkflowInv /\ [WorkflowNext]_workflow
        => [(pc \in Closed) => UNCHANGED << debits, credits >>]_workflow
  <2> SUFFICES ASSUME WorkflowInv, [WorkflowNext]_workflow, pc \in Closed
               PROVE  UNCHANGED << debits, credits >>
    OBVIOUS
  <2> QED
    BY StepKinds, BankMoves
       DEF Open, Running, Sleeping, ActivityNames, ledger, Closed, AtRollBack
<1> QED
  BY <1>1, WorkflowInvariance, PTL DEF WorkflowSpec, LateCallsMoveNothing

\* Money that left the sender's account is accounted for ever after.
LEMMA DebitStays ==
    ASSUME WorkflowInv, [WorkflowNext]_workflow, debits # {}
    PROVE  debits' # {}
BY StepKinds, BankMoves DEF ledger

\* A workflow starts as an abstract transfer does.
LEMMA InitRefines == WorkflowInit => Transfer!TransferInit
<1> SUFFICES ASSUME WorkflowInit PROVE Transfer!TransferInit
  OBVIOUS
<1>1. debits = {} /\ credits = {} /\ refunds = 0 /\ pc = "start" /\ ~cancelled
  BY Zenon DEF WorkflowInit, ServiceInit
<1> QED
  BY <1>1 DEF Transfer!TransferInit, Open, Running

\* Every step is a step of the abstract transfer, or leaves it unchanged.
LEMMA NextRefines ==
    ASSUME WorkflowInv, [WorkflowNext]_workflow
    PROVE  [Transfer!TransferNext]_(Transfer!tvars)
<1> USE DEF Open, Running, Sleeping, ActivityNames, ledger, Transfer!TransferNext,
            Transfer!tvars
<1>1. CASE UNCHANGED << pc, cancelled, ledger >>
  BY <1>1
<1>2. CASE Open /\ Open' /\ UNCHANGED ledger
  BY <1>2
<1>3. CASE Open /\ cancelled' /\ UNCHANGED << pc, ledger >>
  BY <1>3 DEF Transfer!Cancel
<1>4. CASE Open /\ ~cancelled' /\ UNCHANGED ledger
           /\ pc = "awaitApproval" /\ pc' = "ApprovalTimeout"
  <2>1. debits = {}
    BY <1>4 DEF WorkflowInv, LedgerFitsMain, PastWithdraw
  <2> QED
    BY <1>4, <2>1 DEF Transfer!Fail
<1>5. CASE Open /\ ~cancelled' /\ UNCHANGED ledger
           /\ pc = "undoWithdraw" /\ pc' = "DepositFailed" /\ refunds > 0
  BY <1>5 DEF Transfer!Fail
<1>6. CASE Open /\ ~cancelled' /\ UNCHANGED ledger
           /\ pc = "sleep100" /\ pc' = "completed"
  <2>1. credits # {}
    BY <1>6 DEF WorkflowInv, LedgerFitsMain, PastDeposit
  <2> QED
    BY <1>6, <2>1 DEF Transfer!Complete
<1>7. ASSUME NEW c \in calls, CallBank(c), UNCHANGED << pc, cancelled >>
      PROVE  [Transfer!TransferNext]_(Transfer!tvars)
  <2> USE BankMoves, <1>7 DEF WorkflowInv, LedgerFitsMain, PastWithdraw, PastDeposit,
                              AtRollBack
  <2>1. refunds \in Nat
    BY DEF WorkflowTypeOK, ServiceTypeOK
  <2>2. CASE debits' # debits
    BY <2>2 DEF Transfer!Debit
  <2>3. CASE credits' # credits
    BY <2>1, <2>3 DEF Transfer!Credit
  <2>4. CASE refunds' # refunds
    BY <2>1, <2>4 DEF Transfer!Refund
  <2>5. CASE UNCHANGED ledger
    BY <2>5
  <2> QED
    BY <2>2, <2>3, <2>4, <2>5
<1> QED
  BY <1>1, <1>2, <1>3, <1>4, <1>5, <1>6, <1>7, StepKinds

\* The workflow, the service and the bank together implement the abstract
\* transfer, however often attempts are lost, late or retried.
THEOREM WorkflowRefinement == WorkflowSpec => ImplementsTransfer
<1> QED
  BY InitRefines, NextRefines, WorkflowInvariance, PTL
     DEF WorkflowSpec, ImplementsTransfer, Transfer!TransferSpec

-----------------------------------------------------------------------------
(* What the abstract transfer promises, the workflow keeps. *)

TransferFacts == INSTANCE MoneyTransferProofs WITH
    debited  <- debits # {},
    credited <- credits # {},
    refunded <- refunds > 0,
    outcome  <- CASE Open             -> "open"
                  [] cancelled        -> "cancelled"
                  [] pc = "completed" -> "completed"
                  [] OTHER            -> "failed"

\* The two instances of the abstract transfer are one.
LEMMA SameTransfer ==
    /\ Transfer!TransferInit <=> TransferFacts!TransferInit
    /\ [Transfer!TransferNext]_(Transfer!tvars) <=> [TransferFacts!TransferNext]_(TransferFacts!tvars)
    /\ Transfer!Promises <=> TransferFacts!Promises
<1>1. Transfer!TransferInit <=> TransferFacts!TransferInit
  BY Zenon DEF Transfer!TransferInit, TransferFacts!TransferInit
<1>2. Transfer!Promises <=> TransferFacts!Promises
  BY Zenon DEF Transfer!Promises, TransferFacts!Promises
<1>3. Transfer!TransferNext <=> TransferFacts!TransferNext
  BY Zenon DEF Transfer!TransferNext, Transfer!Debit, Transfer!Credit, Transfer!Refund,
       Transfer!Complete, Transfer!Fail, Transfer!Cancel,
       TransferFacts!TransferNext, TransferFacts!Debit, TransferFacts!Credit, TransferFacts!Refund,
       TransferFacts!Complete, TransferFacts!Fail, TransferFacts!Cancel
<1>4. UNCHANGED Transfer!tvars <=> UNCHANGED TransferFacts!tvars
  BY Zenon DEF Transfer!tvars, TransferFacts!tvars
<1> QED
  BY <1>1, <1>2, <1>3, <1>4, Zenon

\* So the theorems about the abstract transfer apply to the workflow.
LEMMA WorkflowIsATransfer == WorkflowSpec => TransferFacts!TransferSpec
BY WorkflowRefinement, SameTransfer, PTL
   DEF ImplementsTransfer, Transfer!TransferSpec, TransferFacts!TransferSpec

\* At any time, money that arrived or went back was taken from the sender and
\* never did both, and the outcome the client sees says where it is.
THEOREM WorkflowKeepsPromises == WorkflowSpec => []Transfer!Promises
BY WorkflowIsATransfer, SameTransfer, TransferFacts!PromisesHold, PTL

\* The outcome is final, and unless a client cancelled so is the place of the
\* money, a refund included: no attempt that is late changes it.
THEOREM WorkflowOutcomeStands == WorkflowSpec => Transfer!OutcomeStands
BY WorkflowIsATransfer, TransferFacts!OutcomeStandsHolds, PTL
   DEF Transfer!OutcomeStands, TransferFacts!OutcomeStands, Transfer!tvars, TransferFacts!tvars
=============================================================================
