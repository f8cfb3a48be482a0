------------------------- MODULE TemporalServiceProofs -------------------------
(***************************************************************************)
(* Lemmas about the service and the activities that the proofs about every *)
(* workflow rest on.                                                       *)
(***************************************************************************)
EXTENDS TemporalService, TLAPS

\* An error that is retried was met before the first good attempt, so the
\* retry stays within the bound on attempts.
LEMMA RetriedEarly ==
    ASSUME NEW name, NEW n \in Nat, Outcome(name, type, n) = "retryable",
           type \in Types
    PROVE  n < FirstGoodAttempt
BY DEF Outcome, withdraw, deposit, simulateExternalOperation, API_DOWNTIME,
       FirstGoodAttempt

\* An activity that is on the task queue, or that a worker has, is pending.
LEMMA PendingType ==
    ASSUME activity \in Activities, activity.state \in ActivityStates
    PROVE  activity \in PendingActivities
BY DEF Activities, NoActivity, ActivityStates

\* Only the state of a pending activity changes.
LEMMA StateType ==
    ASSUME activity \in PendingActivities, NEW s \in ActivityStates
    PROVE  [activity EXCEPT !.state = s] \in Activities
<1>1. [activity EXCEPT !.state = s] \in PendingActivities
  BY DEF PendingActivities
<1> QED
  BY <1>1 DEF Activities

\* The next attempt of a pending activity.
LEMMA RetryType ==
    ASSUME activity \in PendingActivities, activity.attempt < MaxAttempts
    PROVE  Retry \in Activities
<1>1. Retry \in PendingActivities
  BY ServiceAssumption DEF Retry, Attempt, PendingActivities, ActivityStates
<1> QED
  BY <1>1 DEF Activities

\* A scheduled activity is pending, at its first attempt.
LEMMA ScheduledType ==
    ASSUME NEW name \in ActivityNames, NEW key \in Keys \cup { NoKey }
    PROVE  /\ Scheduled(name, key) \in PendingActivities
           /\ Scheduled(name, key).name = name
           /\ Scheduled(name, key).key = key
           /\ Scheduled(name, key).state = "scheduled"
BY ServiceAssumption
   DEF Scheduled, Attempt, PendingActivities, ActivityStates, FirstGoodAttempt

\* What the commands of a workflow leave the service with.
LEMMA CommandTypes ==
    /\ NoActivity \in Activities
    /\ \A name \in ActivityNames, key \in Keys \cup { NoKey } :
          Scheduled(name, key) \in Activities
BY ScheduledType DEF Activities

\* An attempt that finds the account valid is followed by none that does not.
LEMMA DepositMonotone ==
    ASSUME type \in Types, NEW m \in Nat, NEW n \in Nat, m <= n,
           deposit(type, m) = "ok"
    PROVE  deposit(type, n) = "ok"
BY DEF deposit, simulateExternalOperation, FirstGoodAttempt, INVALID_ACCOUNT

\* Every step of the service and the workers keeps the types.
LEMMA ServiceTypes ==
    ASSUME ServiceTypeOK, ServiceNext
    PROVE  ServiceTypeOK'
<1> USE DEF ServiceTypeOK
<1>1. CASE PickUp
  <2>1. activity \in PendingActivities
    BY <1>1, PendingType DEF PickUp, ActivityStates
  <2>2. [activity EXCEPT !.state = "started"] \in Activities
    BY <2>1, StateType DEF ActivityStates
  <2>3. [ name    |-> activity.name,
          key     |-> activity.key,
          attempt |-> activity.attempt,
          state   |-> "running" ] \in Calls
    BY <2>1 DEF PendingActivities, Calls
  <2> QED
    BY <1>1, <2>2, <2>3 DEF PickUp, ledger
<1>2. ASSUME NEW c \in calls, CallBank(c) PROVE ServiceTypeOK'
  <2>1. c \in Calls
    OBVIOUS
  <2>2. [c EXCEPT !.state = "answered"] \in Calls
    BY <2>1 DEF Calls
  <2>3. c.key \in Keys \cup { NoKey }
    BY <2>1 DEF Calls
  <2> QED
    BY <1>2, <2>1, <2>2, <2>3 DEF CallBank
<1>3. ASSUME NEW c \in calls, Report(c) PROVE ServiceTypeOK'
  <2>1. c \in Calls
    OBVIOUS
  <2>2. CASE ~IsCurrent(c)
    BY <1>3, <2>2 DEF Report, ledger
  <2>3. CASE IsCurrent(c)
    <3>1. activity \in PendingActivities /\ activity.attempt = c.attempt
      BY <2>3, PendingType DEF IsCurrent, ActivityStates
    <3>2. Outcome(c.name, type, c.attempt) = "retryable" => Retry \in Activities
      BY <2>1, <3>1, RetriedEarly, RetryType, ServiceAssumption
         DEF Calls, FirstGoodAttempt
    <3>3. /\ [activity EXCEPT !.state = "completed"] \in Activities
          /\ [activity EXCEPT !.state = "failed"] \in Activities
      BY <3>1, StateType DEF ActivityStates
    <3> QED
      BY <1>3, <2>3, <3>2, <3>3 DEF Report, ledger
  <2> QED
    BY <2>2, <2>3
<1>4. ASSUME NEW c \in calls, Lose(c) PROVE ServiceTypeOK'
  BY <1>4 DEF Lose, ledger
<1>5. CASE StartToCloseTimeout
  BY <1>5, PendingType, RetryType DEF StartToCloseTimeout, ledger, ActivityStates
<1>6. CASE TimerFires
  BY <1>6 DEF TimerFires, ledger, TimerStates
<1> QED
  BY <1>1, <1>2, <1>3, <1>4, <1>5, <1>6 DEF ServiceNext

\* The attempt the service waits for is on a worker until it reports, or can
\* still time out.
LEMMA ServiceStartedEnds ==
    ASSUME ServiceTypeOK, ServiceNext,
           activity.state = "started" => InFlight \/ activity.attempt < MaxAttempts
    PROVE  (activity.state = "started" => InFlight \/ activity.attempt < MaxAttempts)'
<1> USE DEF ServiceTypeOK
<1>1. CASE PickUp
  <2>1. activity \in PendingActivities
    BY <1>1, PendingType DEF PickUp, ActivityStates
  <2> DEFINE call == [ name    |-> activity.name,
                       key     |-> activity.key,
                       attempt |-> activity.attempt,
                       state   |-> "running" ]
  <2>2. /\ activity'.name = activity.name
        /\ activity'.attempt = activity.attempt
        /\ activity'.state = "started"
    BY <1>1, <2>1 DEF PickUp, PendingActivities
  <2>3. call \in calls' /\ call.name = activity.name /\ call.attempt = activity.attempt
    BY <1>1 DEF PickUp
  <2>4. InFlight'
    BY <2>2, <2>3 DEF InFlight, IsCurrent
  <2> QED
    BY <2>4
<1>2. ASSUME NEW c \in calls, CallBank(c)
      PROVE  (activity.state = "started" => InFlight \/ activity.attempt < MaxAttempts)'
  <2>1. c \in Calls
    OBVIOUS
  <2> DEFINE answered == [c EXCEPT !.state = "answered"]
  <2>2. answered \in calls' /\ answered.name = c.name /\ answered.attempt = c.attempt
    BY <1>2, <2>1 DEF CallBank, Calls
  <2>3. activity' = activity /\ calls \ {c} \subseteq calls'
    BY <1>2 DEF CallBank
  <2>4. InFlight => InFlight'
    BY <2>2, <2>3 DEF InFlight, IsCurrent
  <2> QED
    BY <2>3, <2>4
<1>3. ASSUME NEW c \in calls, Report(c)
      PROVE  (activity.state = "started" => InFlight \/ activity.attempt < MaxAttempts)'
  <2>1. calls' = calls \ {c}
    BY <1>3 DEF Report
  <2>2. CASE ~IsCurrent(c)
    BY <1>3, <2>1, <2>2 DEF Report, InFlight, IsCurrent
  <2>3. CASE IsCurrent(c)
    <3>1. activity \in PendingActivities
      BY <2>3, PendingType DEF IsCurrent, ActivityStates
    <3>2. activity'.state \in { "completed", "failed", "scheduled" }
      BY <1>3, <2>3, <3>1 DEF Report, Retry, Attempt, PendingActivities
    <3> QED
      BY <3>2
  <2> QED
    BY <2>2, <2>3
<1>4. ASSUME NEW c \in calls, Lose(c)
      PROVE  (activity.state = "started" => InFlight \/ activity.attempt < MaxAttempts)'
  <2>1. /\ c.attempt < MaxAttempts
        /\ activity' = activity
        /\ calls' = calls \ {c}
    BY <1>4 DEF Lose
  <2>2. IsCurrent(c) => activity.attempt < MaxAttempts
    BY <2>1 DEF IsCurrent
  <2>3. InFlight /\ ~IsCurrent(c) => InFlight'
    BY <2>1 DEF InFlight, IsCurrent
  <2> QED
    BY <2>1, <2>2, <2>3
<1>5. CASE StartToCloseTimeout
  BY <1>5 DEF StartToCloseTimeout, Retry, Attempt
<1>6. CASE TimerFires
  BY <1>6 DEF TimerFires, InFlight, IsCurrent
<1> QED
  BY <1>1, <1>2, <1>3, <1>4, <1>5, <1>6 DEF ServiceNext
=============================================================================
