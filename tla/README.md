# Money transfer: specification and proofs

TLA+ models of the money-transfer demo: Temporal workflows that validate a
transfer, perhaps wait for an approval, withdraw, deposit (or undo the
withdrawal) and notify, written six times (Java, Go, TypeScript, Python, .NET,
Ruby), with a web UI server, payload codecs and worker scripts around them.

The question behind the models is where the money is: the activities are
executed at least once, workers die with attempts, attempts outlive their
timeout and run beside their own retry, approvals race a timer, clients cancel,
and the workflow still has to end in an outcome that tells the truth about the two
accounts. Two further questions are about what surrounds the workflows: whether
the codec server answers as it should while its requests share a key cache, and
what happens to a transfer whose workers were started with different settings.

The TypeScript program (`src/typescript`) is the one the modules are translated
from, workflows, activities, codec and worker; `GoTransferScenarios` is
translated from the Go workflow, whose approval differs. The Java workflows have
the control of the TypeScript ones, so the same modules stand for them
(`InitialState` is `undefined` in TypeScript and `"starting"` in Java).

## Inventory

| part | state | operations | hard behaviour | what makes it correct |
|---|---|---|---|---|
| TypeScript `AccountTransferWorkflowScenarios` | progress, transferState, depositResponse, approved, idempotency key, where the main thread blocks, search attribute Step | the main function between two blocking calls; approval signal, update and its validator; status query | approval racing the 30 s timer, early and duplicate approvals, a bug that blocks the workflow task after the withdrawal, rollback, cancellation | the ledger fits the outcome, nothing moves unapproved, one update accepted, the status is truthful, every transfer ends |
| TypeScript `AccountTransferWorkflow` (happy path) | progress, transferState, depositResponse | the main function, status query | as above, without a rollback and without a limit of attempts | the recipient is paid, the status is truthful and never goes back |
| TypeScript activities | none (the bank is simulated) | validate, withdraw, deposit, sendNotification, undoWithdraw | at-least-once execution, late attempts, failures that depend on the attempt number | a key is applied once; retries end |
| Temporal service and workers (libraries) | pending activity, attempts in flight, timer | dispatch, report, retry, start-to-close timeout, timer | lost, late and repeated attempts | - (the environment) |
| TypeScript codec and codec server | the key map, the promises of each request | encode, decode, listen | promises of several requests interleave and share the map; answers after the first failure; restart with another key | each answer as if alone; what was encoded reads back under its key and no other |
| TypeScript worker start-up, worker fleet | environment, connection options, converter, the address of its metrics | `main`, `getConnectionOptions`, `getTelemetryOptions`, `getDataConverter`, `Worker.create` | files rotated between two reads, swallowed errors, one address for the metrics of all workers of a host, workers of one queue with different settings | every start ends, a good one is not rejected for its settings, encryption once begun is kept |
| Java, Go, Python, .NET, Ruby workflows and activities | as the TypeScript ones | as the TypeScript ones | Go buffers approvals and ignores a failed rollback; Python bounds all retries of the happy path to 5 s; .NET draws 31-bit keys; Go, Python and Ruby have no update | the same abstract transfer |
| Web UI server (`TransferRequester`, `TransferLister`, `WebServer`) | none; several calls of the service per request | start, approve, status, list | answers composed of reads at different moments, swallowed errors, colliding workflow ids | an answer never contradicts the workflow; "sent" means sent |
| Recurring transfers (`TransferScheduler`) | schedule in the service | create, then update with interval and count | failure between the two calls, overlap, count | exactly the requested number of transfers, or an error |
| Payload codecs of the other languages | key, key id | encode, decode | key ids written by one language and checked by another | what one worker writes every worker reads |
| Autoscaling demo, end-to-end tests, model classes, compiled front end | - | - | - | not modelled: scripts, manifests, tests and plain data |

The interactions: the UI server starts a workflow, sends the approval and
queries the status through the service; the service hands workflow tasks and
activity attempts to workers over a task queue; the main thread of a workflow
schedules one activity or one timer at a time and is resumed by its result or,
while it waits for an approval, by a handler that ran in the same workflow
task; the activities call the bank. With `ENCRYPT_PAYLOADS`, every payload a client or
a worker puts in a history passes its codec; a browser without a key has the
codec server decode what it shows.

## Modules

| module | models |
|---|---|
| `TransferActivities` | the activities: what an attempt answers, by activity, workflow type and attempt number |
| `TemporalService` | the pending activity with its retries, the attempts in flight, the timer, and the ledger of the bank |
| `TransferWorkflow` | the main thread the transfer workflows share, over the service: blocking calls, bug, rollback, cancellation, ends |
| `AccountTransferScenarios` | the scenarios workflow: `TransferWorkflow` with status, search attribute, approval by signal and by update, clients |
| `AccountTransferWorkflow` | the happy path: `TransferWorkflow` with its own status |
| `GoTransferScenarios` | the Go scenarios workflow: `TransferWorkflow` with status, search attribute, the approval channel, clients |
| `MoneyTransfer` | the abstract transfer: debit, then credit or refund, then the outcome |
| `EncryptionCodec` | what the codec and the JSON conversion make of one payload |
| `AtomicCodec` | what the codec server promises: requests answered at once, alone, with one key |
| `CodecServer` | the codec server: handlers, promises, the key map, restarts |
| `WorkerFleet` | workers that start from their environments, and one transfer they carry on |
| `MCWorkflow`, `MCScenarios`, `MCGoScenarios`, `MCCodecServer`, `MCWorkerFleet` | the instances for TLC (symmetry, sample payloads, environments) |
| `MoneyTransferProofs`, `TemporalServiceProofs`, `TransferWorkflowProofs`, `AccountTransferScenariosProofs`, `AccountTransferWorkflowProofs`, `GoTransferScenariosProofs`, `CodecServerProofs`, `WorkerFleetProofs` | lemmas and theorems |

The specifications form a tower. `AccountTransferScenarios`,
`AccountTransferWorkflow` and `GoTransferScenarios` each imply `WorkflowSpec` (`ImplementsWorkflow`), and
`WorkflowSpec` implies `MoneyTransfer` under a refinement mapping
(`ImplementsTransfer`). Beside it, `CodecServer` implements `AtomicCodec`
(`ImplementsAtomicCodec`, with fairness `ImplementsFairCodec`). `WorkflowSpec` allows more than either language: whether an
approval was given is left open, so `CallWithdraw` and `FailUnapproved` may both
follow `awaitApproval`. What it guarantees about money holds for any way of
approving.

**How the workflow maps to actions.** A workflow task commits as a whole, so an
action of the main thread is the code from one blocking call to the next. The
blocks are in `TransferWorkflow` (`CallDeposit`: the end of the sleep after the
withdrawal, the bug check, the scheduling of `deposit`); the modules of the
languages conjoin what they assign in between. In the scenarios module, from the result of
`withdrawAsync` to the start of the sleep in `updateProgressAsync(50, 3)` is `Withdrawn`;
from the end of that sleep over the assignments of its result, the bug
check and `upsertStep` to the scheduling of `deposit` is `StartDeposit`. `pc`
names the call the main thread is blocked in; `Stuck` is the workflow task that
fails again and again with the simulated bug. The catch block is `RollBack` and
`RolledBack`. The other variables have the names in the code. Text that is
only shown or logged is left out; amounts are one unit.

**The Go workflow** has no handlers: signals go to a channel when they arrive,
whether or not the workflow waits, and the main thread takes one when it comes
to `ReceiveWithTimeout` (`Receive`). A signal sent early therefore ends the wait
at once, where TypeScript drops it. When a signal and the timer come in one workflow
task, either may be seen first (`ApprovalReceived`, `ApprovalExpires`). An update
finds no handler and is rejected (`RejectUpdate`).

**Cancellation.** A client may cancel while the workflow is open. The blocking
call throws, and every later one at once, since all are made in the cancelled
scope; so `Cancel` ends the main thread where it is, in the catch block of the
deposit too, whose rollback is never scheduled. The pending activity is given
up; attempts on workers do not heartbeat, are not told, and may still reach the
bank. `DepositErrorReverts` is what the catch block's log says of this, and is
refuted.

**Signals and updates** of the scenarios workflow are sent at any time while the workflow is open and
handled while the main thread is blocked, by the handlers' code. `condition`
evaluates its condition in the same workflow task, so a handler that approves
also resumes the main thread (`MainThreadGoesOn`). When the timer fired in that
task as well, either result of `condition` is allowed. The status query changes
nothing and may be asked in every state, so what it answers is a state
predicate (`StatusIsTruthful`).

**The service** holds one pending activity, because the workflow waits for each.
`PickUp` starts an attempt; `CallBank` is the execution reaching the bank;
`Report` is its answer reaching the service, which completes, fails or retries
the activity or drops a report of an attempt it gave up. `Lose` is a worker that
dies before or after the call, `StartToCloseTimeout` the 5-second timeout, which
may also strike an attempt that is still running: that attempt stays in `calls`
and acts late. No maximum of attempts is set in the code, and none is modelled.

**The bank is an assumption.** The activities only simulate it. It is modelled
from what the activities are handed: withdraw and deposit carry an idempotency
key and are applied once per key (`debits` and `credits` are sets of keys),
`undoWithdraw` carries none and is applied each time (`refunds` is a count). An
attempt that answers an error applies nothing.

**The codec.** A payload is its encoding, the key id it names and its data; a
ciphertext is the key and the payload inside. The work on a payload stops at its
two awaits: `Begin` runs to the first, `FetchDone` and `CryptDone` are their ends,
in any order over all requests. `fetchKey` reads the one key of the environment
whatever the id, so a payload with a foreign key id is tried with it. The server
exits when its key cannot be imported, or when its port is taken (`AtomicListen`). A request
is answered by the step that settles `Promise.all` (`AwaitAll`), while the rest
of its work goes on. `Restart` takes keys and work with it and may change
`ENCRYPT_KEY`; what clients had encoded (`stored`) stays. A payload whose data is
the empty string comes back without data, and metadata that was missing comes
back empty: `fromJSON` and `ThroughProto` say so, and `ReadsBack` is stated with
them.

**The workers.** `main` is split where it awaits or can fail: the install of the
runtime, the certificate, the key, the connection, `Worker.create` with the
converter. The settings are a record: where the metrics are served, or that they
are not, or that a variable OTEL needs is missing; whether the server has the
namespace; whether bundle or sources can be loaded; which credentials are set, which
server the address names, and the key if `ENCRYPT_PAYLOADS` is `true`.

`Runtime.install` binds the address of the metrics, which is the same
(`0.0.0.0:9464`) for every worker of a host unless it is set: `InstallRuntime` fails
while another worker serves its metrics there (`Taken`), and may fail because
another program does. An address is free again when the process is gone.
`Worker.create` rejects when bundle, key or namespace are missing (`Creatable`), and
may lose the server as `connect` may. A process that is gone was stopped (`down`),
rejected for its settings (`failed`), got no answer from the server
(`unreachable`), or could not bind its address (`unbound`).

`FallBack` is the catch block of
`getConnectionOptions`. The server accepts a connection or not (`Accepts`), or is
not reached. (A worker whose certificates cannot be read logs that it falls back to a
local connection, env.ts:44, but keeps the address it was given: it connects to the
cloud without TLS, is refused, and exits.) Nothing restarts a worker that is gone (nodemon only watches files),
so `Launch` is the operator's. A transfer is the list of the encodings of its
payloads. A task reads the newest payload, as a cached workflow and an activity
do, and writes one in the worker's own encoding; a payload it cannot decode fails
the task, which changes nothing and is retried by whichever worker polls next.

## Runs

Keys `{k1, k2}`: two are enough to tell a key that is kept from one drawn anew.
`MaxAttempts = 5`: the simulated failures end at attempt 5, and attempts 1 to 4
may each be lost or late; the bound limits only `Lose` and `StartToCloseTimeout`
(attempt 5 is answered). `MaxCalls` bounds the attempts in flight: 3 in `retries` and `happy_path`
(two late ones beside the current one). `MaxSignals` bounds the scenarios signals that
are not handled yet, and the Go signals that are sent. Codec: two requests of two
payloads race for the key map (`codec_races`); for what happens over restarts one
payload a request and two keys, with a third of a wrong length, are enough
(`codec_history`; `MaxStored` 2; that `Promise.all` settles over several payloads is the
business of `codec_races`). Fleet: two workers that may be launched in any of
six environments (without encryption, with two keys, with a key that is too short,
with a telemetry variable or the namespace missing; by API key, by certificates,
without either; metrics at one of two addresses, each in two environments, or off), two
generations of the certificate files, so that a pair can be torn, and three payloads:
one for the client and one for each change of hands.

| run | module | instance | checks |
|---|---|---|---|
| `retries` | `MCWorkflow` | 6 workflow types, 3 attempts in flight; 481 000 states | the inductive invariant `WorkflowInv` (types included), `WithdrawnOnce`, `NoDepositWithoutWithdraw`, `NeverPaidAndRefunded`, `OutcomeMatchesLedger`, `LateCallsMoveNothing`, `ImplementsTransfer` |
| `happy_path` | `AccountTransferWorkflow` | 3 attempts in flight; 72 000 states | the inductive invariant `IInv`, `StatusIsTruthful`, `ProgressGrows`, `AlwaysPays`, `ImplementsWorkflow`, `ImplementsFairTransfer` |
| `approvals` | `MCScenarios` | approval, visibility and rollback scenario, 3 updates, 2 signals; 54 000 states | the inductive invariant `IInv`, `NothingMovesUnapproved`, `OneUpdateAccepted`, `StatusIsTruthful`, `StatusGrows`, `TimelyApprovalCounts`, `ImplementsWorkflow` |
| `liveness` | `MCScenarios` | 5 scenarios, 2 attempts in flight, 1 update; 215 000 states | `Terminates`, `NoMoneyInLimbo`, `RecoverableFailuresComplete` |
| `go_transfers` | `MCGoScenarios` | 5 scenarios, 3 signals, 2 updates; 119 000 states | the inductive invariant `IInv`, `NothingMovesUnapproved`, `StatusIsTruthful`, `ImplementsWorkflow`, `EarlyApprovalCounts`, `Terminates` |
| `codec_races` | `MCCodecServer` | 2 requests, 2 payloads each, 2 keys; 66 000 states | the inductive invariant `IInv`, `ImplementsFairCodec` |
| `codec_history` | `MCCodecServer` | 2 requests, 2 keys and one too short, 2 stored payloads; 240 000 states | `ReadsBack`, `OtherKeyRefused`, `ImplementsAtomicCodec` |
| `worker_fleet` | `MCWorkerFleet` | 2 workers, 6 environments, 2 addresses, 2 rotations, 3 payloads; 238 000 states | the inductive invariant `IInv` (`EncryptionKept`, `StartsFit`, `OneServesAnAddress`), `TakersCanReplay`, `StartsEnd`, `GoodStartsSucceed`, `EncryptedTransferGoesOn` |
| `invalid_account` | `MCWorkflow` | expected violation | `InvalidAccountFails` |
| `rollback_exact` | `MCWorkflow` | expected violation | `RollBackIsExact` |
| `deposit_error` | `MCWorkflow` | expected violation | `DepositErrorReverts` |
| `go_update` | `MCGoScenarios` | expected violation | `WaitingAcceptsUpdate` |

The expected violations are disagreements of the code with what is written
about it:

- `java/README.md` says a transfer to an invalid account fails after the
  withdrawal was undone. The simulated error depends on the attempt number, and
  attempts that are lost count: after four lost attempts the fifth deposit
  succeeds and the transfer completes. The money is still consistent.
- The rollback is meant to revert the withdrawal, but `undoWithdrawAsync` is called
  without the idempotency key. When its completion is lost, the retry gives the
  money back a second time. `MoneyTransfer` therefore speaks of a refund as
  having happened, not of how often.
- The catch block around the deposit logs that it reverts the withdrawal for every
  error it meets. A cancellation during the deposit enters it too, and its
  rollback throws at once in the cancelled scope: the withdrawal stays.
- The Go workflow logs that it waits for a signal or an update, but handles no
  update: one that arrives while it waits is rejected.

The definitions marked "Mutant" are plausible bugs, kept beside the operator they
would replace: each property above is violated by at least one of them.

## Fairness

`FairSpec` assumes weak fairness of the main thread (`Execution`), of each handler
of the scenarios workflow, of picking up, executing and reporting attempts, of the
timer, and of the start-to-close timeout of an attempt that no worker has any
more: workers poll in a loop, and the
service keeps timers and timeouts durably. Nothing is assumed of clients (an
approval may never come; one that cancels excuses the workflow), of the operator (the bug may never be fixed, so the
liveness properties ask that it is), of the loss of attempts, or of
timeouts of attempts that are still running.

The codec server is fair to the work under way of each request: fetches and
ciphers are promises of the runtime that settle. Nothing obliges a client to post
or to take an answer, nor an operator to start the server again. A worker is fair
to its own start (`Start`) and, while online, to the tasks it can read (`Task`: it
polls). Launches, stops and rotations are nobody's duty; `EncryptedTransferGoesOn`
asks for a worker that stays online from some time on.

## Proofs

TLAPS checks the theorems for all keys, updates, numbers of signals, attempts and
attempts in flight that meet `ServiceAssumption` (the key of an activity without one
is no key; at least 5 attempts and one call), `ScenariosAssumption`,
`ApprovalsAssumption`, `HappyPathAssumption` and `GoAssumption` (only types the code
has; a first state no assignment gives), and for all requests, keys, payloads,
workers and environments that meet `CodecAssumption`, `KeyAssumption` and
`FleetAssumption`.

`MoneyTransferProofs`, about the abstract transfer alone: `PromisesHold` (money that
arrived or went back was taken, never did both, and the outcome says where it is) and
`OutcomeStandsHolds` (an outcome is final, and so is the place of the money unless a
client cancelled).

`TransferWorkflowProofs`, about every transfer workflow:

- `WorkflowInvariance`: `WorkflowSpec => []WorkflowInv`. None of the safety
  properties is inductive: that the ledger fits the outcome depends on what
  attempts in flight may still do. `WorkflowInv` adds `PendingFitsMain` (the main
  thread waits for the activity that is pending, under this transfer's key, and
  a completed activity has had its effect), `CallsFitMain` (an attempt in flight
  is of an activity the main thread has reached; once a deposit is rolled back,
  no attempt of it can succeed any more) and `LedgerFitsMain`. The rollback case
  rests on `DepositMonotone`: if a later attempt meets the error, no earlier one
  succeeded. That retries stay within the bound on attempts rests on
  `RetriedEarly`: what is retried was met before attempt 5.
- Two further parts of `WorkflowInv` are about getting to an end. `NeverWedged`: an
  open transfer has a timer, or an activity that is scheduled, in flight or due to time
  out, or one with a result the main thread goes on with. Its inductive core is
  `ServiceStartedEnds`: a started attempt that no worker has can still time out, since
  no attempt is lost at the last number. `FailuresHaveCauses`: only the type that
  simulates an invalid account rolls back, and only the type that needs approval fails
  for want of one. It rests on `OnlyDepositFails`: the deposit is the one activity
  that can fail for good.
- From `WorkflowInv`: `WithdrawnOnce`, `NoDepositWithoutWithdraw`,
  `NeverPaidAndRefunded`, `OutcomeMatchesLedger` and `LateCallsMoveNothing`.
- `WorkflowRefinement`: `WorkflowSpec => ImplementsTransfer`. `StepKinds` sorts
  the steps by what they do to ledger and outcome, `BankMoves` says when a call of
  the bank moves money; each kind is a step of `MoneyTransfer` or a stutter. Through it
  the two theorems about the abstract transfer hold of the workflow
  (`WorkflowKeepsPromises`, `WorkflowOutcomeStands`).

`AccountTransferScenariosProofs`, about the scenarios workflow: `Spec => WorkflowSpec`
(`ScenariosImplementWorkflow`), and so all of the above and the abstract
transfer (`ScenariosKeepMoney`); `Spec => []IInv` (`ScenariosInvariance`), where `IInv`
ties status, approval, accepted updates and search attribute to the place of the main
thread; from both invariants together `NothingMovesUnapproved`, `StatusIsTruthful` and
`StatusGrows` (the progress is known for each place of the main thread, so a step can
only raise it), from `IInv` `OneUpdateAccepted`, `StepNamesActivity` and
`TimelyApprovalCounts`.

`AccountTransferWorkflowProofs`, about the happy path: `Spec => WorkflowSpec` and so
the abstract transfer and the money properties (`HappyPathKeepsMoney`: it never fails
and never gives money back); `IInv`, which gives the progress for each place of the main
thread, and with `WorkflowInv` `StatusIsTruthful` and `ProgressGrows`.

`GoTransferScenariosProofs`, about the Go workflow: `Spec => WorkflowSpec`, the
abstract transfer, the money properties, `IInv` (`GoInvariance`: status and approval fit
the main thread, and the signals in the channel are counted against the signals sent),
`NothingMovesUnapproved` and `StatusIsTruthful`.

`CodecServerProofs`: `Spec => []IInv`, where `IInv` says that every key in the map,
and every key the work under way uses, is the key of this run of the server; that a
promise is rejected or resolved just when its payload fails or does not
(`TaskFits`); and that a request waits as long as nothing failed and something is
to do. With it each step is a step of `AtomicCodec` or a stutter
(`ServerImplementsAtomicCodec`); `ReadsBackHolds` and `OtherKeyRefusedHolds` rest on
it and on an invariant of what clients keep (`EncodingsFit`: it was encoded, under
some key).

`WorkerFleetProofs`: `IInv` is inductive because a worker reads the newest payload
before it writes: by `EncryptionKept`, if that is plain all are, and otherwise the
worker has the one key of the history (`ReadsAllOfIt`). `TakersCanReplay` and
`ClientsKeyReads` follow. `StartsFit` says of each worker what its place in `main` tells
of its options; each step of a start replaces one process by another that fits
(`StartIsAMove`, `MoveKeepsInv`). A refused connection has a cause
(`RefusedForACause`). `StartsFit` gives causes for a rejection for the settings only: a
suitable worker can still find the address of its metrics taken or the server gone,
and ends in `unbound` or `unreachable`. `OneServesAnAddress` needs that an address is
bound only if no other worker has it and that a step of a start keeps the
environment (`SameEnvironmentApart`).

**Liveness, given that things end.** Fairness and `ENABLED` are out of the prover's
reach, so that transfers and starts end (`Terminates`, `StartsEnd`, the happy path's end)
is only model-checked. What is left of a liveness property once that is granted is
safety, and is proved, by theorems whose statement names the premise:

| theorem | statement | along |
|---|---|---|
| `NoMoneyInLimboIfEnds`, `RecoverableFailuresCompleteIfEnds` | `Spec /\ Terminates =>` the property | a closed transfer that was not cancelled has paid, refunded, or debited nothing; the types that recover reach no failing end |
| `HappyPathPaysIfEnds` | `Spec /\ <>~Open => AlwaysPays` | the happy path ends completed or cancelled |
| `GoEarlyApprovalCounts` | `Spec /\ Terminates => EarlyApprovalCounts` | the signal stays in the channel until the wait takes it (`SignalStays`), and this transfer cannot end without the withdrawal |
| `GoodStartsSucceedIfTheyEnd` | `Spec /\ StartsEnd => GoodStartsSucceed` | a good start stays good, or ends otherwise than by a rejection for its settings, at every step of any worker (`GoodStartStays`) |

The premises are satisfied: the runs check them under `FairSpec` (`Terminates` in
`liveness` and `go_transfers`, `StartsEnd` in `worker_fleet`; the end of the happy path
is part of `ImplementsFairTransfer`).

Only model-checked: `Terminates`, `StartsEnd`, `EncryptedTransferGoesOn` (whose safety
half is `ClientsKeyReads`), and the fair halves of `ImplementsFairTransfer` and
`ImplementsFairCodec`. Their other halves, the refinements without fairness, are proved.

## Not modelled, and the plan

- Durations: a sleep is a timer that fires some time. `sleep` takes milliseconds in
  TypeScript, so its pauses are a thousand times shorter than those of the other
  languages; only how long a status can be seen depends on it.
- The cipher, JSON and protobuf formats: what opens what, and what is lost in a
  conversion, is modelled; bytes are not.
- Go after a cancellation: `ReceiveWithTimeout` returns as if the time were over,
  and the error of the rollback is not looked at: a hazard without a property. The
  runs and theorems of `GoTransferScenarios` are about transfers that no client cancels.
- Python, .NET and Ruby: the same transfer further times. What is their own (the
  schedule-to-close timeout of the Python happy path, 31-bit keys in .NET) is
  listed as a hazard.
- Histories of one language replayed by a worker of another, and the codecs of the
  other languages.
- Scripts, manifests, the compiled front end, end-to-end tests.

What the models would grow by next: `WebRequests` (start, approve, status and list as
sequences of calls that interleave with a workflow execution), `TransferSchedule`
(recurring transfers, created and then updated), the Go control after a cancellation,
and the Python happy path over `TransferWorkflow`.
