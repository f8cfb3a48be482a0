--------------------------- MODULE TransferWorkflow ---------------------------
(***************************************************************************)
(* The main thread that the transfer workflows of all languages share:     *)
(* validate, perhaps wait for an approval, withdraw, deposit (or undo the  *)
(* withdrawal and fail), notify, with a sleep after each activity.         *)
(*                                                                         *)
(* The main thread runs from one blocking call to the next in one workflow *)
(* task, which commits as a whole, so each action is the code between two  *)
(* blocking calls.  When an approval is given, and what clients are told,  *)
(* is left to the modules of the workflows: they add their own variables   *)
(* to these actions.                                                       *)
(*                                                                         *)
(* A client may cancel the workflow.  The blocking call then throws, and   *)
(* so does every later one, since all of them are made in the cancelled    *)
(* scope: the catch block around the deposit runs, but its rollback throws *)
(* before it is scheduled.                                                 *)
(***************************************************************************)
EXTENDS TemporalService

CONSTANT Scenarios   \* the workflow types clients start

ASSUME ScenariosAssumption == Scenarios \subseteq Types

VARIABLES
    pc,              \* the call the main thread is blocked in, or how it ended
    idempotencyKey,
    worker,          \* the code that is deployed: buggy or fixed
    cancelled        \* a client cancelled the workflow while it was open

workflow == << type, service, ledger, pc, idempotencyKey, worker, cancelled >>

Sleeping == { "sleep25", "sleep50", "sleep75", "sleep100" }
Closed   == { "completed", "ApprovalTimeout", "DepositFailed" }
Running  == { "start", "awaitApproval" } \cup Sleeping \cup ActivityNames

Open == pc \in Running /\ ~cancelled

WorkflowInit ==
    /\ type \in Scenarios
    /\ ServiceInit
    /\ pc = "start"
    /\ idempotencyKey = NoKey
    /\ worker = "buggy"
    /\ cancelled = FALSE

-----------------------------------------------------------------------------
(* Blocking calls. *)

\* Block at the given place, with an activity or a timer pending.
Block(where, pendingActivity, pendingTimer) ==
    /\ ~cancelled
    /\ pc' = where
    /\ activity' = pendingActivity
    /\ timer' = pendingTimer
    /\ UNCHANGED << type, calls, ledger, worker, cancelled >>

\* Call an activity and block until it has a result.
Execute(name, key) == Block(name, Scheduled(name, key), "none")

\* Block in a sleep, or in a wait that has a timeout.
Sleep(where) == Block(where, NoActivity, "pending")

\* End the workflow: with its result, or with a failure of the given type.
Close(how) == Block(how, NoActivity, "none")

\* The main thread is blocked in a sleep that is over.
Slept(where) == pc = where /\ timer = "fired"

-----------------------------------------------------------------------------
(* The main thread. *)

BeginTransfer ==
    /\ pc = "start"
    /\ \E k \in Keys : idempotencyKey' = k
    /\ Execute("validate", NoKey)

\* The activity is done: sleep, as updateProgress(p, seconds) begins.
SleepAfter(name, where) ==
    /\ pc = name
    /\ Completed(name)
    /\ Sleep(where)
    /\ UNCHANGED idempotencyKey

\* A transfer that needs approval waits for it before the withdrawal.
AwaitApproval ==
    /\ Slept("sleep25")
    /\ type = NEEDS_APPROVAL
    /\ Sleep("awaitApproval")
    /\ UNCHANGED idempotencyKey

CallWithdraw ==
    /\ Slept("sleep25") \/ pc = "awaitApproval"
    /\ Execute("withdraw", idempotencyKey)
    /\ UNCHANGED idempotencyKey

\* No approval was received: fail.
FailUnapproved ==
    /\ pc = "awaitApproval"
    /\ Close("ApprovalTimeout")
    /\ UNCHANGED idempotencyKey

\* Mutant: replay on the fixed worker does not match the history.
StuckForGood == Slept("sleep50") /\ type = BUG

\* The bug fails the workflow task, and every retry of it, until a worker
\* without it is deployed.
Stuck == Slept("sleep50") /\ type = BUG /\ worker = "buggy"

\* Mutant: the deposit draws a key of its own.
CallDepositNewKey ==
    /\ Slept("sleep50")
    /\ ~Stuck
    /\ \E k \in Keys : Execute("deposit", k)
    /\ UNCHANGED idempotencyKey

CallDeposit ==
    /\ Slept("sleep50")
    /\ ~Stuck
    /\ Execute("deposit", idempotencyKey)
    /\ UNCHANGED idempotencyKey

\* Mutant: the workflow fails without the rollback.
CallUndoWithdrawForgotten ==
    /\ pc = "deposit"
    /\ Failed("deposit")
    /\ Close("DepositFailed")
    /\ UNCHANGED idempotencyKey

\* Mutant: a deposit that timed out once is rolled back, not retried.
CallUndoWithdrawOnTimeout ==
    /\ pc = "deposit"
    /\ Failed("deposit") \/ (activity.state = "scheduled" /\ activity.attempt > 1)
    /\ Execute("undoWithdraw", NoKey)
    /\ UNCHANGED idempotencyKey

\* The deposit failed for good: undo the withdrawal.
CallUndoWithdraw ==
    /\ pc = "deposit"
    /\ Failed("deposit")
    /\ Execute("undoWithdraw", NoKey)
    /\ UNCHANGED idempotencyKey

FailDeposit ==
    /\ pc = "undoWithdraw"
    /\ Completed("undoWithdraw")
    /\ Close("DepositFailed")
    /\ UNCHANGED idempotencyKey

CallSendNotification ==
    /\ Slept("sleep75")
    /\ Execute("sendNotification", NoKey)
    /\ UNCHANGED idempotencyKey

CompleteTransfer ==
    /\ Slept("sleep100")
    /\ Close("completed")
    /\ UNCHANGED idempotencyKey

\* The sleep that follows an activity, by the progress it ends with.
SleepOf == [ validate |-> "sleep25", withdraw |-> "sleep50",
             deposit |-> "sleep75", sendNotification |-> "sleep100" ]

MainThread ==
    \/ BeginTransfer
    \/ \E name \in DOMAIN SleepOf : SleepAfter(name, SleepOf[name])
    \/ AwaitApproval \/ CallWithdraw \/ FailUnapproved
    \/ CallDeposit \/ CallUndoWithdraw \/ FailDeposit
    \/ CallSendNotification \/ CompleteTransfer

-----------------------------------------------------------------------------

\* Mutant: the catch block rolls back in a scope that is not cancelled.
CancelRollsBack ==
    /\ Open /\ ~Stuck
    /\ IF pc \in { "deposit", "sleep75" }
       THEN Execute("undoWithdraw", NoKey) /\ UNCHANGED idempotencyKey
       ELSE /\ cancelled' = TRUE
            /\ activity' = NoActivity
            /\ timer' = "none"
            /\ UNCHANGED << type, calls, ledger, pc, idempotencyKey, worker >>

\* A client cancels: the main thread ends where it is, the pending activity
\* and timer are given up.  Attempts on workers are not told and go on.
Cancel ==
    /\ Open /\ ~Stuck
    /\ cancelled' = TRUE
    /\ activity' = NoActivity
    /\ timer' = "none"
    /\ UNCHANGED << type, calls, ledger, pc, idempotencyKey, worker >>

\* A worker without the simulated bug is deployed.
FixBug ==
    /\ worker = "buggy"
    /\ worker' = "fixed"
    /\ UNCHANGED << type, service, ledger, pc, idempotencyKey, cancelled >>

Service ==
    /\ ServiceNext
    /\ UNCHANGED << pc, idempotencyKey, worker, cancelled >>

\* Nothing is left to do: the workflow ended and no attempt is in flight.
Finished == ~Open /\ calls = {}

WorkflowNext ==
    \/ MainThread
    \/ Cancel
    \/ FixBug
    \/ Service
    \/ Finished /\ UNCHANGED workflow

WorkflowSpec == WorkflowInit /\ [][WorkflowNext]_workflow

-----------------------------------------------------------------------------
(* Type invariant. *)

WorkflowTypeOK ==
    /\ ServiceTypeOK
    /\ pc             \in Running \cup Closed
    /\ idempotencyKey \in Keys \cup { NoKey }
    /\ worker         \in { "buggy", "fixed" }
    /\ cancelled      \in BOOLEAN

-----------------------------------------------------------------------------
(* Safety. *)

\* However often withdraw is executed, retried or late, the sender is debited
\* at most once: every attempt carries the key drawn when the workflow began.
WithdrawnOnce == Cardinality(debits) <= 1

\* The recipient is paid only with money taken from the sender, under the
\* same key.
NoDepositWithoutWithdraw == credits \subseteq debits

\* The rollback runs only for a deposit that no attempt, late ones included,
\* has applied or will apply: not when the transfer is cancelled while the
\* deposit is under way, or after it, in the sleep the catch block covers too.
NeverPaidAndRefunded == credits = {} \/ refunds = 0

\* How the workflow ends says where the money is: with the recipient when it
\* completed, back with the sender when the deposit failed, and not touched
\* when the approval did not come in time.
OutcomeMatchesLedger ==
    /\ pc = "completed"       => credits # {} /\ refunds = 0
    /\ pc = "DepositFailed"   => credits = {} /\ refunds > 0
    /\ pc = "ApprovalTimeout" => debits = {} /\ ~ \E c \in calls : c.name = "withdraw"

-----------------------------------------------------------------------------
(* How the main thread, the pending activity, the attempts in flight and the *)
(* ledger fit together: the invariant the safety properties follow from.     *)

Keyed == { "withdraw", "deposit" }

\* Where the main thread is once the named activity has done its work.
PastWithdraw == pc \in { "sleep50", "deposit", "sleep75", "sendNotification",
                         "sleep100", "completed", "undoWithdraw", "DepositFailed" }
PastDeposit  == pc \in { "sleep75", "sendNotification", "sleep100", "completed" }
AtRollBack   == pc \in { "undoWithdraw", "DepositFailed" }

\* The call of activity name has had its effect on the ledger.
Applied(name) ==
    /\ name = "withdraw"     => debits = { idempotencyKey }
    /\ name = "deposit"      => credits = { idempotencyKey }
    /\ name = "undoWithdraw" => refunds > 0

\* The main thread waits for the activity that is pending.
PendingFitsMain ==
    /\ pc \notin ActivityNames \/ cancelled => activity = NoActivity
    /\ pc \in ActivityNames /\ ~cancelled =>
          /\ activity \in PendingActivities
          /\ activity.name = pc
          /\ activity.key = IF pc \in Keyed THEN idempotencyKey ELSE NoKey
          /\ activity.state = "completed" => Applied(pc)
          /\ activity.state = "failed" =>
                Outcome(pc, type, activity.attempt) = "nonRetryable"
    /\ pc # "start" => idempotencyKey \in Keys

\* An attempt in flight belongs to an activity the main thread has reached.
CallFitsMain(c) ==
    /\ c.name \in Keyed => c.key = idempotencyKey
    /\ c.name = "withdraw" => pc = "withdraw" \/ PastWithdraw
    /\ c.name = "deposit" => pc = "deposit" \/ PastDeposit \/ AtRollBack
    /\ c.name = "undoWithdraw" => AtRollBack
    /\ c.name = "deposit" /\ pc = "deposit" /\ ~cancelled
          => c.attempt <= activity.attempt
    /\ c.name = "deposit" /\ AtRollBack => deposit(type, c.attempt) # "ok"
    /\ c.state = "answered" /\ Outcome(c.name, type, c.attempt) = "ok"
          => Applied(c.name)

CallsFitMain == \A c \in calls : CallFitsMain(c)

\* Money has moved as far as the main thread has come.
LedgerFitsMain ==
    /\ debits \subseteq { idempotencyKey } /\ credits \subseteq { idempotencyKey }
    /\ debits # {} => pc = "withdraw" \/ PastWithdraw
    /\ PastWithdraw => debits = { idempotencyKey }
    /\ credits # {} => pc = "deposit" \/ PastDeposit
    /\ credits # {} /\ pc = "deposit" /\ ~cancelled
          => deposit(type, activity.attempt) = "ok"
    /\ PastDeposit => credits = { idempotencyKey }
    /\ refunds > 0 => AtRollBack
    /\ pc = "DepositFailed" => refunds > 0

\* An open transfer never waits for what cannot come: it has a timer, or an
\* activity that is yet to be picked up, is in flight or will time out, or one
\* with a result the main thread goes on with.  (With the bug it goes on once
\* the fixed worker is deployed.)
NeverWedged ==
    /\ timer = "none" <=> cancelled \/ pc \notin Sleeping \cup { "awaitApproval" }
    /\ activity.state = "started" => InFlight \/ activity.attempt < MaxAttempts
    /\ pc \in ActivityNames /\ ~cancelled =>
          \/ activity.state \in { "scheduled", "started" }
          \/ Completed(pc)
          \/ Failed(pc) /\ pc = "deposit"

\* A transfer fails for the one reason its type simulates: lost, late and
\* retried attempts never make it roll back, nor does a timeout of an approval
\* it does not need.
FailuresHaveCauses ==
    /\ AtRollBack => type = INVALID_ACCOUNT
    /\ pc \in { "awaitApproval", "ApprovalTimeout" } => type = NEEDS_APPROVAL

\* The inductive invariant of every transfer workflow.
WorkflowInv ==
    /\ WorkflowTypeOK
    /\ PendingFitsMain
    /\ CallsFitMain
    /\ LedgerFitsMain
    /\ NeverWedged
    /\ FailuresHaveCauses

-----------------------------------------------------------------------------
(* Action properties. *)

\* Attempts that are still in flight when the workflow has ended by itself no
\* longer move money into or out of the two accounts.  (Those of a cancelled
\* workflow may.)
LateCallsMoveNothing ==
    [][(pc \in Closed) => UNCHANGED << debits, credits >>]_workflow

(* What the documentation says and the code does not do. *)

\* java/README.md: with an invalid account the workflow fails, after it undid
\* the withdrawal.
InvalidAccountFails == type = INVALID_ACCOUNT => pc # "completed"

\* What the catch block around the deposit announces: when the workflow ends
\* with an error of the deposit, the withdrawal was reverted.
DepositErrorReverts ==
    (cancelled /\ pc = "deposit") \/ pc = "DepositFailed" => refunds > 0

\* The rollback reverts the withdrawal: the sender gets back what was taken.
RollBackIsExact == refunds <= Cardinality(debits)

-----------------------------------------------------------------------------
(* The workflow implements the abstract transfer. *)

Transfer == INSTANCE MoneyTransfer WITH
    debited  <- debits # {},
    credited <- credits # {},
    refunded <- refunds > 0,
    outcome  <- CASE Open             -> "open"
                  [] cancelled        -> "cancelled"
                  [] pc = "completed" -> "completed"
                  [] OTHER            -> "failed"

\* Every step of the workflow, the service and the workers is a step of the
\* abstract transfer or leaves it unchanged.
ImplementsTransfer == Transfer!TransferSpec

\* And the transfer goes on until it has an outcome, for workflows without the
\* bug.
ImplementsFairTransfer == Transfer!FairTransferSpec
=============================================================================
