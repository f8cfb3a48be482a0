--------------------------- MODULE TemporalService ---------------------------
(***************************************************************************)
(* What a transfer workflow sees of Temporal and of the bank: one pending  *)
(* activity with its retries, the attempts that are in flight on workers,  *)
(* one timer, and the ledger the activities write.                         *)
(*                                                                         *)
(* An activity is executed at least once: a worker may die with an attempt *)
(* before or after the bank was called, and an attempt that outlives its   *)
(* start-to-close timeout keeps running beside its own retry.  Withdraw    *)
(* and deposit carry an idempotency key, and the bank applies a key once;  *)
(* undoWithdraw carries none, so the bank applies every call of it.        *)
(***************************************************************************)
EXTENDS TransferActivities, FiniteSets

CONSTANTS
    Keys,         \* what the workflow may draw as its idempotency key
    NoKey,        \* the key of an activity that takes none
    MaxAttempts,  \* bound: no attempt is lost or late at this number
    MaxCalls      \* bound: attempts in flight at the same time

ASSUME ServiceAssumption ==
    /\ NoKey \notin Keys
    /\ MaxAttempts \in Nat /\ MaxAttempts >= FirstGoodAttempt
    /\ MaxCalls \in Nat \ {0}

VARIABLES
    type,      \* the workflow type the client asked for
    activity,  \* the activity the workflow waits for
    calls,     \* the attempts in flight on workers, late ones included
    timer,     \* the timer the workflow waits for: none, pending or fired
    debits,    \* the keys under which the bank took money from the sender
    credits,   \* the keys under which the bank paid the recipient
    refunds    \* how often the bank gave money back to the sender

service == << activity, calls, timer >>
ledger  == << debits, credits, refunds >>

ActivityStates == { "scheduled", "started", "completed", "failed" }
TimerStates    == { "none", "pending", "fired" }

PendingActivities == [ name    : ActivityNames,
                       key     : Keys \cup { NoKey },
                       attempt : 1..MaxAttempts,
                       state   : ActivityStates ]

NoActivity == [ name |-> "none", key |-> NoKey, attempt |-> 0, state |-> "idle" ]

Activities == PendingActivities \cup { NoActivity }

Calls == [ name    : ActivityNames,
           key     : Keys \cup { NoKey },
           attempt : 1..MaxAttempts,
           state   : { "running", "answered" } ]

ServiceInit ==
    /\ activity = NoActivity
    /\ calls    = {}
    /\ timer    = "none"
    /\ debits   = {}
    /\ credits  = {}
    /\ refunds  = 0

-----------------------------------------------------------------------------
(* Commands of the workflow. *)

\* The n-th attempt of an activity, on the task queue.
Attempt(name, key, n) ==
    [ name |-> name, key |-> key, attempt |-> n, state |-> "scheduled" ]

Scheduled(name, key) == Attempt(name, key, 1)

Completed(name) == activity.name = name /\ activity.state = "completed"
Failed(name)    == activity.name = name /\ activity.state = "failed"

-----------------------------------------------------------------------------
(* The service and the workers. *)

\* The attempt the service waits for an answer of.
IsCurrent(c) ==
    /\ activity.state = "started"
    /\ activity.name = c.name
    /\ activity.attempt = c.attempt

InFlight == \E c \in calls : IsCurrent(c)

\* Mutant: every attempt draws an idempotency key of its own.
PickUpNewKey ==
    /\ activity.state = "scheduled"
    /\ Cardinality(calls) < MaxCalls
    /\ activity' = [activity EXCEPT !.state = "started"]
    /\ \E k \in Keys :
          calls' = calls \cup { [ name    |-> activity.name,
                                 key     |-> k,
                                 attempt |-> activity.attempt,
                                 state   |-> "running" ] }
    /\ UNCHANGED << type, timer, ledger >>

\* A worker takes the attempt off the task queue.
PickUp ==
    /\ activity.state = "scheduled"
    /\ Cardinality(calls) < MaxCalls
    /\ activity' = [activity EXCEPT !.state = "started"]
    /\ calls' = calls \cup { [ name    |-> activity.name,
                               key     |-> activity.key,
                               attempt |-> activity.attempt,
                               state   |-> "running" ] }
    /\ UNCHANGED << type, timer, ledger >>

\* Mutant: the bank applies the calls it answers an error to.
CallBankAlwaysApplies(c) ==
    /\ c.state = "running"
    /\ calls'   = (calls \ {c}) \cup { [c EXCEPT !.state = "answered"] }
    /\ debits'  = debits \cup { k \in {c.key} : c.name = "withdraw" }
    /\ credits' = credits \cup { k \in {c.key} : c.name = "deposit" }
    /\ refunds' = IF c.name = "undoWithdraw" THEN refunds + 1 ELSE refunds
    /\ UNCHANGED << type, activity, timer >>

\* The execution of an attempt reaches the bank, which applies the call
\* unless it answers an error.
CallBank(c) ==
    LET applies(name) ==
            c.name = name /\ Outcome(c.name, type, c.attempt) = "ok"
    IN  /\ c.state = "running"
        /\ calls'   = (calls \ {c}) \cup { [c EXCEPT !.state = "answered"] }
        /\ debits'  = debits \cup { k \in {c.key} : applies("withdraw") }
        /\ credits' = credits \cup { k \in {c.key} : applies("deposit") }
        /\ refunds' = IF applies("undoWithdraw") THEN refunds + 1 ELSE refunds
        /\ UNCHANGED << type, activity, timer >>

\* The service schedules the next attempt: no maximum of attempts is set.
Retry == Attempt(activity.name, activity.key, activity.attempt + 1)

\* The worker reports what the attempt answered; the service drops a report
\* of an attempt it no longer waits for.
Report(c) ==
    /\ c.state = "answered"
    /\ calls' = calls \ {c}
    /\ LET outcome == Outcome(c.name, type, c.attempt)
       IN  \/ ~IsCurrent(c) /\ activity' = activity
           \/ IsCurrent(c) /\ outcome = "ok"
                           /\ activity' = [activity EXCEPT !.state = "completed"]
           \/ IsCurrent(c) /\ outcome = "nonRetryable"
                           /\ activity' = [activity EXCEPT !.state = "failed"]
           \/ IsCurrent(c) /\ outcome = "retryable" /\ activity' = Retry
    /\ UNCHANGED << type, timer, ledger >>

\* The worker dies with the attempt, before or after it called the bank.
Lose(c) ==
    /\ c.attempt < MaxAttempts
    /\ calls' = calls \ {c}
    /\ UNCHANGED << type, activity, timer, ledger >>

\* Mutant: an attempt that timed out is not retried.
StartToCloseTimeoutFails ==
    /\ activity.state = "started"
    /\ activity.attempt < MaxAttempts
    /\ activity' = [activity EXCEPT !.state = "failed"]
    /\ UNCHANGED << type, calls, timer, ledger >>

\* The start-to-close timeout of the attempt expires: the service retries
\* it, and an attempt that is still running becomes a late one.
StartToCloseTimeout ==
    /\ activity.state = "started"
    /\ activity.attempt < MaxAttempts
    /\ activity' = Retry
    /\ UNCHANGED << type, calls, timer, ledger >>

TimerFires ==
    /\ timer = "pending"
    /\ timer' = "fired"
    /\ UNCHANGED << type, activity, calls, ledger >>

ServiceNext ==
    \/ PickUp
    \/ \E c \in calls : CallBank(c) \/ Report(c) \/ Lose(c)
    \/ StartToCloseTimeout
    \/ TimerFires

-----------------------------------------------------------------------------

ServiceTypeOK ==
    /\ type     \in Types
    /\ activity \in Activities
    /\ calls    \in SUBSET Calls
    /\ timer    \in TimerStates
    /\ debits   \in SUBSET (Keys \cup { NoKey })
    /\ credits  \in SUBSET (Keys \cup { NoKey })
    /\ refunds  \in Nat
=============================================================================
