# TLA+ models of the stablecoin treasury

These modules specify the payment path of the treasury platform (`src/`): how a payment is created, approved,
executed, paid and settled by services that share a Postgres database, call each other over HTTP and a custody
provider over the network, how the policy it is judged by is edited meanwhile, how the ledger moves the money, how provider
statements and webhooks are reconciled, how events reach the audit chain, how the watchdog alerts the operators, and how
the gateway keeps its sessions and login limits. TLC checks the models on small instances;
TLAPS proves every safety property of the passing runs but one for every instance. `PROJECT.json` maps each definition to the lines it models.

```
tlasany M.tla                          parse a module
tlc -workers 2 -config X.cfg MCxxx.tla model-check a run (the runs are listed below)
tlapm PaymentServiceProofs.tla         check proofs (also PaymentSystemProofs, WalletLedgerProofs, ProviderFeedsProofs,
                                       PolicedPaymentsProofs, OutboxRelayProofs, GatewaySessionsProofs,
                                       WatchdogProofs)
```

## 1. The system

| Component | State it keeps | Operations | Modelled in |
|---|---|---|---|
| Payment tables, transition trigger (`db/migrations`) | payments, approvals, idempotency keys, provider submissions | status changes only along the trigger's edges | `PaymentStore` |
| payment-service | — (all in tables) | create, approve, execute, cancel, retry | `PaymentService` |
| Payment clean-up (`handlers/expiry.mjs`) | — | expire stale approvals, sweep keys | `PaymentService` |
| Job queue (`shared/jobs.mjs`, `queue.mjs`, `shared/worker.mjs`) | `platform.jobs`, the claimed batch of each process | claim, complete, fail, dead-letter | `SettlementSaga` |
| Settlement saga (`handlers/payment-saga.mjs`) | local variables between awaits | policy check, submit, debit, journal, match, settle, audit | `SettlementSaga` |
| Custody adapter, circuit breaker | submitted keys (a `Map`), breaker counters | submitTransfer | `SettlementSaga` (breaker: as a refusal only) |
| wallet-service | wallets, double-entry ledger | debit, seed | `WalletLedger`; `SettlementSaga` (the debit on one balance) |
| policy-service | a row of policy per tenant | edit thresholds, edit the asset list, evaluate | `PolicedPayments`, `PaymentStore!Verdict` |
| accounting, reconciliation | journals; reconciliation rows, statements | journal, match, exceptions, statement matching | `ProviderFeeds`; `SettlementSaga` (insert-once), `OutboxRelay` (exceptions) |
| Outbox, relay-worker, consumers' inbox | `platform.outbox_events`, `inbox_events`, a relay's batch | poll, deliver, mark, back off, dead-letter; claim inbox | `OutboxRelay` |
| operations-service | alerts, audit hash chain, providers | append audit, insert alert, verify chain | `AuditChain`, `OutboxRelay` |
| Webhook ingress | `webhook_events`, settlement jobs | verify, dedupe, enqueue | `ProviderFeeds` |
| Scheduler, watchdog, chain verifier | alerts; the periodic jobs | run the checks, open and close alerts | `Watchdog` |
| Sessions, login limiter (gateway) | session rows, failure buckets in memory | login, rotate, validate and extend, logout, lock out | `GatewaySessions` |
| rest of the api-gateway, tenancy, compliance, web client, scripts | none of the protocol's | routing, identity, presentation, tooling | identity and call timeouts only |

How they interact. A client's request goes through the gateway to payment-service. A handler reads the payment, awaits
`POST /evaluate`, then writes in one transaction: the guarded transition, an outbox event, and for an execution the row
in `platform.jobs`. A job-worker claims jobs with `FOR UPDATE SKIP LOCKED` and runs the saga, which writes payment rows
itself and calls the provider, wallet, accounting and reconciliation. The relay polls the outbox and posts each event
to its consumer, which records it in its inbox in the transaction that applies it.

What is hard about it:

- **Reads before awaits.** Every command decides on a row read before the policy call and writes after it. What
  protects it is the re-read under `FOR UPDATE`, the unique index on approvals, and the trigger.
- **At-least-once everything.** Creates are retried under a key, jobs are retried and duplicated, debits and
  submissions are repeated under keys, events are redelivered. What makes each happen once is a different mechanism.
- **Partial failure.** A call that timed out may still take effect, a provider that threw may have transferred, a
  COMMIT whose reply was lost has committed, and a process exits 500 ms after SIGTERM wherever it is.
- **Concurrency on one balance**, on one job queue, on one audit chain, on one statement, on one alert, on one session.
- **Decisions about a moving target.** A create reads the policy twice, an approval and an execution once more each, and
  operators edit it in between. The watchdog reads a value, then an alert, then writes, and so does the other worker's.
- **Check and count apart.** The login limiter checks before the password is verified and counts after; a session's new
  expiry is computed before the UPDATE that stores it is sent.
- **Row locks.** A balance is a sum nobody can lock, so a wallet's row stands for it; the accounts a debit posts to are
  locked one after the other, in an order that depends on the payment, and can deadlock.

The full list, with lines, is under `hazards` in `PROJECT.json`.

## 2. The modules

```
PaymentStore                tables shared by the two services
  |-- PaymentService        requests              <- PaymentServiceProofs
  |     `-- PolicedPayments with the policy row   <- PolicedPaymentsProofs
  |-- SettlementSaga        workers
  `-- PaymentSystem         both, composed; implements PaymentContract  <- PaymentSystemProofs
AuditChain                  hash chain and verifier (pure)
  `-- OutboxRelay           relays, consumers, the chain they extend  <- OutboxRelayProofs
LedgerContract              indivisible transfers
  `-- WalletLedger          the debit transaction, implements it  <- WalletLedgerProofs
ProviderFeeds               statements, webhooks, matching  <- ProviderFeedsProofs
GatewaySessions             login limiter and sessions      <- GatewaySessionsProofs
Watchdog                    periodic checks and alerts      <- WatchdogProofs
MCPaymentService, MCSettlementSaga, MCPaymentSystem, MCOutboxRelay,
MCWalletLedger, MCProviderFeeds, MCPolicedPayments, MCGatewaySessions,
MCWatchdog                                                  model values
```

A transaction is one step: statements at READ COMMITTED inside `withTransaction` take effect together. What lies
between two transactions, or on either side of an `await` that leaves the process, is a step boundary. The
exceptions are the consumer's transaction in `OutboxRelay`, the debit in `WalletLedger` and the matching run in
`ProviderFeeds`: they are split into statements, because what they lock and what they read before others commit is what
the properties are about.

**PaymentStore** declares `status`, `required`, `createdBy`, `approvers` (payments and approvals), `jobStatus`,
`jobPayment`, `attempts` (jobs), `outbox` and the wallet's `balance`. `LegalTransitions` is the trigger of migration
0017. `Verdict(p)` is what `POST /evaluate` may answer: the Balance check is exact (it is the check the saga's own debit
can change), every other check depends on records other services change at any time and is left open. The code reads the balance
a few awaits before it evaluates (`getPaymentContext`); the step is where the balance is read. What another run debits in
between has the same effect after the step, which writes nothing that run reads.

**PaymentService** has one action for each stretch of a handler between awaits. `stage[r]` is where request `r` is and
`req[r]` what it read before the await: `createPayment` is `CreateReserve` / `CreateReplay`, `CreateEvaluate`,
`CreateInsert`, and the catch block `CreateError`, `CreateRelease`; `approvePayment` is `ApproveRead`, `ApproveEvaluate`,
`ApproveBlock`, `ApproveCommit`; and so on for execute, cancel and retry. `ExpireStale` and `SweepKey` are the clean-up
jobs; the 72 and 48 hours are left to their choice of when to fire, so every age is covered. `Abandon` is a process that
dies, or a statement that fails, between two steps; `CreateCommitLost` a COMMIT that succeeds while its reply is lost.
`ExecutionEnds` stands for the worker when the service is looked at alone: it settles or fails an Executing payment at any time.
`madeUnder` and `answers` are history variables that only the properties read.

**PolicedPayments** adds the row of `policy.policies` to PaymentService. `SetThresholds` and `SetAssets` are the two editing
routes, a read and a later UPDATE (`editor[e]`); `QuotePolicy` is the create's `GET /policies`, from which it takes the
number of approvals, and `PolicedCreate`, `PolicedApprove`, `PolicedExecute` are the evaluations of PaymentService whose answer
`PolicyClears` restricts to what `evaluate` may say under the row of that moment: the limit, the asset list and the number of
approvals decide, the other checks stay free. `demanded` is a history variable: the approvals the policy asked at the
evaluation that let the payment execute. Amounts are in EUR, and each payment's is a constant.

**SettlementSaga** has one action per statement or call of the saga, in its order, with the queue around it. `pc[w]` is
where worker `w` is. `Load` is the one read of the payment row the rest of the run works from. Faults, each switched
on by name in `Faults`: `StepError` (an error before the effect), `Timeout` and `LateEffect` (the caller gives up,
the callee finishes later, at any time), a rejected or an ambiguous submission (`SubmitTransfer`), `Crash`, and `Abort`
(`failJob` itself throws, which drops the rest of the batch). Its debit is one step, `PostDebit`: that the debit transaction
is indivisible is what `WalletLedger` shows by implementing `LedgerContract`. The provider is `SimulatedCustodyAdapter`, the only
adapter there is besides a test double: its keys are in the memory of each worker process (`memory[w]`), and `Crash` forgets them.

**PaymentSystem** runs both on the same tables. **PaymentContract** stands for no code: it is what the platform promises
about a payment in seven phases. `PaymentSystem!Contract` is the refinement mapping (statuses to phases, the
provider's transfers to `sent`, the ledger's debits to `paid`).

**AuditChain** is the SQL of `audit.mjs`: `NextRow` the chained insert, `Broken` the WHERE clause of the verifier. SHA-256
is an injective constructor. **OutboxRelay** has the relay's loop (`Poll`, `Deliver`, `MarkPublished`, `RecordAttempt`,
with `Timeout`, `CycleError`, `Crash`) and the consumer's transaction (`ClaimInbox`, `LockChain`, `Insert`, `Commit` or
`Rollback`, `Reply`). `Requeue` is the operator's step in `docs/RUNBOOKS.md`. A handler outlives the relay that called it.

**WalletLedger** is the debit of wallet-service, one action per statement of its transaction: `LockWallet` (`FOR UPDATE`),
`LookupKey`, `CheckFunds`, `SourceAccount`, `DestinationAccount`, `ReferenceWallet`, `FeesAccount`, `Post` with COMMIT.
`holder` has the row locks, which `End` releases: the wallet's row, and the rows of `ledger_accounts` that `INSERT ... ON
CONFLICT DO UPDATE` touches. `ReferenceWallet` is the foreign-key check of an account created for the destination wallet,
which waits for that wallet's own debit. `balance` is the view's sum, moved by `Entry`; `Balanced` is the deferred trigger.
Amounts are cents; `SumDrifts` are the payments whose principal and fee, added as JavaScript numbers, come out above
the exact sum, for which an exactly sufficient balance is refused. `CancelWaiting` is `statement_timeout` or the deadlock
detector. `answers` records what the saga heard. **LedgerContract** stands for no code: a debit as one indivisible
movement, once per key, from a sufficient balance to the wallet that must receive it. A fee and an outgoing principal leave
the wallets; an intra-group principal arrives in the destination's account.

**ProviderFeeds** is what the provider says and how it is matched. `Ingest` is `ingestStatement` (one transaction with its
job); `StoreEvent`, `EnqueueEvent`, `LoseEnqueue` are `processWebhook` (two transactions and what may come between them);
`ClaimJob` to `TimeoutCall` are the two job handlers. `run[m]` is a call of `matchStatement`: `ReadLines` and `ReadPayments`
happen before its transaction, then `Decide` judges one line after the other by the rules in the code's order (`Judge`),
`WriteMatched` and `WriteException` write, and `Commit` publishes everything, the `missing_theirs` rows included. Until then
its writes are in the run's record (`wrote`, `inserted`, `opened`) and make others wait (`Blocked`). A worker that stops waiting
(`TimeoutCall`) leaves the run running, so two runs of one statement overlap. A payment's reference is the payment;
whether a line's amount, asset and day fit a payment is given by `Differs` and `Twins`. `paid` is the payment's row as its saga advances it.

**GatewaySessions** is `auth.mjs` as the gateway uses it, a request at a time in `request[s]`. A login is `Login`,
`CheckLoginRateLimit`, then after the awaited password check `RecordLoginFailure` or `ClearLoginFailures`, `RotateSession`,
`CreateSession` (which fixes the expiry) and `InsertSession`. Any other request is `Present`, `ValidateSession` (the SELECT),
`DecideBump` (the new expiry, or none), `ExtendSession` (the UPDATE, on whatever the row is by then), `Authorize` and, for a logout,
`DestroySession`. `Fail` is a statement that fails, `Restart` a gateway that loses its buckets and requests but no rows. `now` is a
clock of ticks. A password is right or wrong by choice. `seen` and `retired` are history: when a session was last presented,
and which sessions were ended.

**Watchdog** is the scheduler's two monitoring jobs. `Schedule` is a timer of any worker, `Claim`, `Throw` and `Die` the queue (one
attempt, so a run that throws is dead-lettered and raises the very value a check reads). A watchdog run goes through
its checks with `ReadValue`, `ReadAlert`, `OpenAlert` or `CloseAlerts`, a verifier run with `VerifyChains`, then `CloseChainAlerts` or
`ReadChainAlert` and `OpenChainAlert`. Of a check's alerts the model keeps what the code can see: whether the newest is open
(`latest`) and how many are (`opened`). What a check counts is a condition that comes and goes (`Change`).

Mutants (`... Mutant: ...` in the modules) are wrong versions of one definition. Substituted for it, each makes the property
it is paired with in `PROJECT.json` fail under the run's own configuration; nothing else uses them.

## 3. What is checked

| Run | Instance | Shows |
|---|---|---|
| `service_races` | 2 payments, 2 requests, 2 users, 1 key, 2 bodies, 2 jobs, a worker as environment, abandoned requests, lost COMMIT replies of creates without a key | `FourEyes`, `OnePaymentPerKey`, `ReplayIsOriginal`, `DecisionsAudited` |
| `policed_payments` | 1 payment from creation to execution, 2 users, 2 requests under 1 key, an editor of thresholds, limit and asset list, lost COMMIT replies, fair | `ExecutedAsPolicyDemands`, `PendingKeysResolve` |
| `saga_shared_wallet` | 2 workers, 2 jobs of one payment or of two, costs 1 and 2 from a wallet of 2, every fault | `SettledMeansPaid`, `PaidOnce`, `ClaimedOnce`, `BooksInOrder` |
| `saga_progress` | 1 worker that lives, a rail that refuses or loses its answer, batches of 2, fair | `OneTransfer`, `RecordedIsFinal`, `JobsEnd` |
| `system_contract` | 1 payment from creation to end, 2 requests, 2 workers, 2 jobs, every saga fault | `VoidMovesNoMoney`, `ExecutingHasJob`, `ImplementsContract` |
| `relay_delivery` | 2 relays, 2 consumer handlers, 3 kinds of event, a direct append, every fault, operator re-queues | `AppliedOnce`, `PublishedIsApplied`, `AppendsSerialize` |
| `relay_progress` | 1 live relay, 3 events, a direct append, a chain of 3 rows, fair | `ChainVerifies`, `EventsEnd` |
| `ledger_races` | 2 connections, 5 requests for 4 debits of 2 funded wallets that pay each other, a wallet without an account and an outsider; a sum that drifts; fair | `LedgerType`, `NeverOverdrawn`, `DebitedIsPosted`, `NoRefusalOnceMoved`, `ImplementsContract`, `TransactionsEnd` |
| `feeds_matching` | 1 payment from execution to settlement, 2 statements with a line each that fit it, 1 webhook, 2 runs, a retried job | `FeedsType`, `MatchedRowOnce`, `MatchedLineHasRow`, `ExceptionExplained`, `ProcessedIsQueued` |
| `gateway_sessions` | 1 account, 2 requests in flight, 2 sessions, limit 2, window and lockout 2 ticks, idle 2, absolute 3, failing statements, restarts | `FailuresBounded`, `AbsoluteCap`, `IdleCap`, `RetiredStaysRetired` |
| `watchdog_alerts` | 2 workers, a dead-letter check of one tenant, the chains of 2, a failing or dying run, demo resets, fair | `NewestTellsOpen`, `AlertsFollow`, `ChainAlertsFollow` |

One run expects a violation: it states what a comment says, and TLC shows the code doing otherwise.

| Run | The claim | What the counterexample does |
|---|---|---|
| `saga_failed_after_debit` | a failure after the debit must not mark the payment Failed (`payment-saga.mjs:97-99`) | a run debits and then fails; its retry checks the policy against the balance that debit reduced, is Blocked, and fails the payment |

`OneTransfer` is checked of one process that lives (`saga_progress`), where the key and the memory of the rail do what the comment at
`payment-saga.mjs:51-53` says. It is false of a restart and of two processes (below). What the code still guarantees across restarts
is `RecordedIsFinal`, proved with crashes (section 4), and under any number of processes that the money is booked once
(`SettledMeansPaid`, `PaidOnce`).

`DecisionsAudited` asks for a new event in the very step that changes a status; an earlier one does not count. It leaves a retry out,
of which it is false (below). What the saga writes is not part of it: `failPayment` writes no event, and "Payment settled" is a
statement after the UPDATE.

Seen while modelling, without a run of their own:

- `docs/ARCHITECTURE.md:51-52`: "domain services write `platform.outbox_events` in the same transaction as the state change". A retry
  sets a Failed payment to Executing by an UPDATE of its own and writes no event (`payments.mjs:361-367`), so the audit chain does not
  tell that, or by whom, the payment was sent into execution again.
- `payment-saga.mjs:51-53` and `0052_provider_submissions.sql:11-13`: under the key every attempt gets "the already-accepted result", and
  the simulated adapter "prevents a duplicate transfer". Its keys are in one process's memory (`custody.mjs:25-28`). A worker that dies
  between the acceptance of a transfer and its record leaves a pending row; the next run, a retry's if need be, asks a rail that has
  forgotten, and transfers again. `OneTransfer` fails in `saga_progress` with `crash` among the faults.
- "concurrent or duplicate jobs for the same payment are safe" (`payments.mjs:359-360`, `payment-saga.mjs:16-17`): two workers that run two
  jobs of one payment at once both find its submission unrecorded, and each process transfers, without any fault. `OneTransfer`
  fails with two workers; the money is debited and booked once all the same.
- COMMIT of a create succeeds, its reply is lost, the catch block deletes the `done` key (`payments.mjs:153`), and the
  client's retry creates a second payment: `OnePaymentPerKey` fails with `ServiceFaults = {"commit"}`.
- A worker that dies leaves its claimed jobs `running`, which no claim takes and no check of the watchdog counts, though
  `payment-saga.mjs:17` speaks of at-least-once delivery.
- The heuristic takes a payment "not already claimed" (`statements.mjs:199`), but `matchedRefs` knows only this run's claims: a
  payment matched to the line that names it is matched again to a line of another statement that looks like it.
- A retry reopens a Failed payment in one transaction and enqueues its job in another (`payments.mjs:362`). A process that
  dies in between leaves it Executing without a job: `ExecutingHasJob` fails in `system_contract` with abandoned requests.
- A gateway that dies between storing a webhook and enqueueing its job loses it: redeliveries are answered "duplicate".
  The provider was never told "processed" (`ProcessedIsQueued`), but nothing will process the event.
- An overlapping run of the same statement can set a line back from matched to exception, as a "duplicate" of itself; the row
  that explains it is there (`ExceptionExplained`).
- A key whose request died before the insert stays `pending` for ever, as the sweep takes only `done` keys.
- The event "Payment blocked" is appended even when the guarded transition found the payment elsewhere.
- A worker that dies between `Settle` and `AuditSettled` loses the event "Payment settled", because the retry returns early.
- Two jobs of one payment can end with the payment Failed by one and debited by the other.
- An event can be dead-lettered although it was applied, when marking it or the answer failed on the last attempt, so a
  re-queue relies on the inbox.
- Policy: two edits at once lose one of them, so an asset just removed from the list may come back (`policy-service/src/index.mjs:37-43`).
  A policy tightened after a payment was created makes its approval or execution block it for good, where more approvals
  were wanted: `required_approvals` is fixed at the insert. A reseed deletes the row before it inserts one; a read in between answers 500.
- Watchdog: "One open alert per check type" (`watchdog.mjs:72`) holds of one worker; two may each open one, and the next
  run that finds the condition cleared closes both. "One Open alert per broken tenant" (`audit-chain.mjs:7-9`): only the first
  broken tenant is alerted, and the alert of a tenant that was repaired stays open while another is broken. The id
  `wd-<type>-<ms>` is the same for two alerts of a type in one millisecond, such as two tenants'; the second insert fails, and with it the run.
- Sessions: the bump may move `expires_at` backwards ("forward", `auth.mjs:233`), when two requests compute it and their
  UPDATEs land in the other order, and may revive a session that has just expired; neither passes the two caps. A failed
  INSERT after the rotation leaves the user signed out. `loginBucket` replaces a bucket whose window is over, its
  lockout included, so a lockout longer than the window ends with the window, at the next attempt.

### Bounds

Two of everything that can race: two requests, two workers, two relays or two handlers show every pairwise race, and each
protection in the code (a row lock, a unique index, an idempotency key, an advisory lock) is about pairs. Two payments show
competition for a key and a balance; in `system_contract` one payment is enough, as the contract speaks of one and
`saga_shared_wallet` has two. Ids are finite (`Payments`, `Jobs`): an action that would hand out another is disabled, so the
number of creates and executions is bounded, and runs without work end (`CHECK_DEADLOCK FALSE`). `MaxAttempts` is 2 where
retries matter and 1 in `system_contract`, where the second job of a retried payment takes the part of a second attempt.
`MaxRetries` is 2 instead of 5, so that an event is both redelivered and dead-lettered. `BatchSize`/`BatchLimit` 1 and 2 cover a
batch with and without a rest. Symmetry is used only in runs without liveness properties, over sets whose elements no
constant tells apart. In `ledger_races` the five requests allow every payment once and one of them twice, or a retry
of each of two; the opening balances let `w1` pay for one of its payments only, until `w2`'s arrives. In `feeds_matching` one
payment is enough, as every rule is about one payment and the lines that may be its own; `MaxResolves` bounds the rows resolved by hand.
In `policed_payments` one payment of 2 EUR meets thresholds 2 and 3 and limits 1 and 2, so that every comparison goes either way.
In `gateway_sessions` the clock stops at `MaxTime` 3, after a window, an idle time and an absolute life have ended; two slots are
two logins, or a login, a logout or an expiry against a delayed UPDATE. The second token is the session a rotation makes. In
`watchdog_alerts` one check is enough because checks share nothing but the run that visits them; `MaxPending` 1 is a job waiting per
kind while two others run, and `MaxFaults` bounds the runs that end badly, as a watchdog whose every run fails alerts nobody.

`system_contract` leaves the verdict Review out, which ends a command or a run as an error does and which `service_races` and the saga's
runs have. It leaves keys (`Keys = {}`) and abandoned requests out: keys are the subject of the service runs, and an
abandoned retry is the stuck payment described above.

### Fairness

- `ServiceFairness`: a handler that has started runs on (the Node event loop; every awaited call has a timeout). Clients owe
  nothing: no fairness for arrivals. `PendingKeysResolve` fails with dying processes, and the run says so by leaving `abandon` out.
- `PolicedFairness`: the same of a handler with the policy row; operators owe no edit.
- `SagaFairness`: a worker process keeps taking steps and polls again and again (`worker.run` is an endless loop). Faults are
  not fair, and never forced to stop: `StepError` competes with every step, and `JobsEnd` holds because `FailJob` counts. It is
  claimed of workers that live and of a `failJob` that does not throw (no `crash`, no `abort`): either leaves jobs `running` for good.
- `RelayFairness`: a relay goes on and its client's timeout bounds each wait; a consumer's transaction ends, by commit or
  rollback. `SF` of `Due(e)` is the backoff: an event that stays waiting is due again and again, and since every event ahead of it
  leaves the queue in the end, `ORDER BY created_at LIMIT 20` reaches it.
- `FairLedger`: a transaction whose next statement does not wait goes on, and `statement_timeout` or the deadlock detector
  ends one that waits for ever. Clients owe no request.
- `MonitorFairness`: the scheduler's `setInterval` fires for ever, a worker in a run goes on, and since every worker polls without
  end, a job that is ready again and again is claimed (`SF`). A worker that dies or a run that throws is not fair, and bounded.

## 4. What is proved

`PaymentServiceProofs` (`tlapm` checks every obligation) for every value of the constants that satisfies `StoreAssumption` and
`ServiceAssumption`, any number of payments, requests, users, keys and jobs, with all service faults and with a worker that settles and fails payments
at any time:

- `ServiceType`: `ServiceSpec => []ServiceTypeOK`.
- `ServiceFourEyes`: `ServiceSpec => []FourEyes`. An authorised payment has at least as many distinct approvers as it
  needs, none of whom created it.

`ServiceTypeOK` is not inductive: `TypeInv` adds that a busy request names a payment and that a `done` key has one.
`FourEyes` needs more. `EyesInv` is `TypeInv` with
`RowsInv` (an absent payment has no approvers, those of any payment are finite in number, an authorised one has enough, and
its creator is not among them) and `SlotsInv` (what a request holds between steps still fits the row it will write: the id of an
unfinished create belongs to no row and to no other request, a request about to insert an Approved payment needs no
approval, and one about to commit an approval does not act for the creator). The last part is why the stale read in
`approvePayment` is harmless: `created_by` and `required_approvals` never change after the insert. Each action has a lemma
for the types and a lemma for `RowsInv` and `SlotsInv`; the theorems combine them with temporal logic in one step.

`ServiceDecisionsAudited`: every change of status payment-service makes, a retry's excepted, adds its own event to the outbox in the same step.
`ServiceMoves` lists the edges the service may take and `ServiceWrites` the events it may write. That the event is a new one needs
`AuditInv`: no event of a status still ahead of a payment has been written (`FreshInv`), which is not obvious of the two handlers that
write their event although the payment may have moved on; they only run once the payment is past the status the event belongs to
(`PassedInv`). The last approval says "Payment approved", earlier ones "Approval counted", so that the one that decides is told apart.

`ServiceOnePaymentPerKey` and `ServiceReplayIsOriginal` assume `"commit" \notin ServiceFaults`, without which they are false (section 3); a
lost reply to a create without a key remains allowed. `KeysInv` is `TypeInv` with three parts: a create between its reservation and its
insert or release has its key pending and to itself (`HoldersInv`), so it neither finishes nor releases a key somebody else works
under; the payment made under a key is the one its `done` row names (`MadeInv`), so a pending key has none; and every answer repeats
the key's row (`AnswersInv`).

`PaymentSystemProofs`, from `StoreAssumption`, `ServiceAssumption` and `SagaAssumption`, for any number of payments, jobs, workers and
requests and under every fault. First the saga alone: `SagaTypes`, `SagaSettledMeansPaid`, `SagaPaidOnce`, `SagaClaimedOnce`, `SagaBooksInOrder`,
`SagaRecordedIsFinal`. `SettledMeansPaid` relates rows of five tables that are written one step at a time, by several runs
of one payment and by calls nobody waits for any more. `SagaInv` has five parts:

- `ShapeInv`: types; a worker past its load has a job, which is running or just completed, and which names a payment.
- `QueueInv`: a job is held once, as a claimed job is not claimable; and a job that may be claimed has an attempt left, as `failJob`
  dead-letters the others.
- `RefInv`: a reference in the provider's memory, in the submission, in the payment's row or in a local variable is one the provider gave out, and
  every place from the debit on, each abandoned call included, has one saved in the row.
- `BooksInv`: what a worker's place says of the books (`BooksAt`: at "settle" the payment is matched), what an abandoned call may rely on, and
  the order of the rows. It survives other runs because debits, journals and matches are never undone.
- `StartedInv`: jobs and transfers belong to payments that were sent into execution. No debit lands on a settled payment, because
  settled means already debited, under a key that is used once.

`SagaRecordedIsFinal` assumes one worker process, which may die at any step: with two, one run may submit a payment that the other has
just recorded, as section 3 describes. Its invariant `UnrecordedInv` says that a payment a run is submitting, or has submitted
without having written the outcome, is not recorded as submitted: a run that finds a record goes round the submission, and there is
nobody else to write one.

The composition follows from `SystemInv`: the service's `EyesInv` and `AuditInv`, the saga's `SagaInv`, and `HandlersInv`, the one thing neither knows
alone (a handler that will enqueue has a job of its own, and a retry works on a payment that has executed). A step of one
service is shown to keep the invariant of the other: payment-service writes no status that ends or starts in `Settled` and takes none
out of execution (`ServiceMoves`), creates jobs only for payments it puts into execution (`ServiceJobs`), and never writes the balance; the saga
ends an execution and nothing else (`SagaMoves`). From it: `SystemTypes`, `SystemFourEyes`, `SystemVoidMovesNoMoney`, `SystemKeepsParts`,
`SystemKeepsKeys`, `SystemDecisionsAudited`, `SystemRecordedIsFinal`. `SystemExecutingHasJob` needs more: the job of an Executing payment is not only
uncompleted but not about to be completed either (`LiveInv`): a run about to complete its job has ended the payment's execution, and if
a retry has reopened it since, the retry's own job is there or about to be. It assumes `"abandon" \notin ServiceFaults`, as with it the
retry described above is stuck.

`SystemImplementsContract`: `Spec` implements `PaymentContract`. A service step changes one payment's phase, or voids the set that
expired (`ServiceTouches`, `ServiceImplements`); a saga step fails or settles one payment, sends one, pays one, or is a stutter (`SagaTouches`,
`SagaImplements`). That a payment is paid only after it was sent, only once and never when settled, and settles only when paid, is `RefInv`, `BooksInv` and
`StartedInv`.

`WalletLedgerProofs`, from `LedgerConstants`, for any number of wallets, payments, connections and requests: `LedgerTypes`,
`LedgerSolvent` (no wallet is overdrawn), `LedgerAnswers` (posted at most once, and truly when answered "debited"),
`LedgerNeverRefusesMoved`, and `LedgerRefines` (every step is one transfer of `LedgerContract` or a stutter). None of them
is inductive: that a posting is covered by the balance was checked several statements earlier. `LedgerInv` says what holds in
between: from the statement that locks the wallet's row to COMMIT the lock is held; after the key lookup the key is
unposted; after the balance check the wallet is active and covers the total. Only another debit of the same wallet could
change that, and it would need the same row; a debit of another wallet can only add to the balance.

`ProviderFeedsProofs`, from `FeedConstants`, for any number of payments, statements, lines, webhooks and overlapping runs:
`FeedsTypes`, `FeedsMatchedOnce`, `FeedsMatchedBacked`, `FeedsExplained`, `FeedsQueued`. `FeedsInv` adds what a run holds
between its reads and its commit: a payment whose Matched row it has inserted has no committed one and no other run is
inserting one (the unique index), a line it has marked matched has a committed row or one of its own, and a line it has
marked an exception has a row, committed or its own, that explains it. A row it saw in the lookup stays, as no row is deleted.

`PolicedPaymentsProofs`, from the assumptions of the service and `PolicyAssumption`, for any policies, edits and payments.
`PolicedImplementsService`: every step is a step of payment-service alone or changes only the policy's variables, so
`ServiceFourEyes` holds of the composition. `PolicedPolicyType`: edits that interleave keep the row valid.
`PolicedExecutions`: `ExecutedAsPolicyDemands`, which is not inductive, as the policy is read at one step and acted on at a
later one. `PolicedInv` is the service's `EyesInv` with `QuoteInv` (an execution about to commit was let through by a
policy that asks no more approvals than the payment's own number), `DemandInv` (the same of a payment that has executed) and
`AutoInv` (the policy engine approves only what needs nobody). An authorised payment keeps its approvers, which is why a policy
edited after that evaluation changes nothing.

`GatewaySessionsProofs`, from `SessionConstants`, for any number of users, sessions and requests in flight and any limits
with a lockout no shorter than the window: `SessionTypes`, `SessionFailuresBounded`, `SessionAbsoluteCap`, `SessionIdleCap`,
`SessionRetired`. `LimiterInv` counts a bucket's failures together with the logins that have passed its check and not
recorded theirs, and says that a bucket at its limit is locked until its window is over. `RowsInv` says of an expiry still in
a request's hands what the caps say of the row, and that a login past its rotation has left no row under the old token.

`WatchdogProofs`, from `WatchdogConstants`, for any number of workers, tenants and checks: `MonitorTypes`, and `MonitorNewestTells`,
whose `OpenInv` counts the open alerts together with the workers that have seen none and are about to insert one.

`OutboxRelayProofs`, from `RelayAssumption`, for any number of events, relays and handlers under every fault: `RelayTypes`,
`RelayAppliedOnce`, `RelayPublishedIsApplied`, `RelayAppendsSerialize`, `RelayChainVerifies`. `RelayInv` has four parts besides the types. `CallInv`: a handler somebody waits for works on
the event its caller is at, so an answer is taken for the right event even after abandoned calls. `ClaimInv`: who works on an
event holds its claim, nobody else does and nobody did. `ChainInv`: the table is intact with a newest row, at most one audit
writer is past the advisory lock, and its uncommitted row follows the head; appending such a row keeps a table intact
(`AppendKeepsSound`). `EffectInv`: the committed inbox says exactly what was applied. That a batch has an oldest event uses the
well-foundedness of `<` on the naturals.
The same fact takes the place of induction over the chain in `RelayChainVerifies`, whose second half is what the verifier detects in a table
somebody changed: of all the places where something would go unnoticed there is a first, and the row before it is another one.
Two rows never name the same predecessor (`PrevsDiffer`), as then their predecessors would, down to the first row; rows that verify
without being a prefix (`VerifiedIsPrefix`) would miss a row before the first one they miss. SHA-256 without collisions is an assumption of
`AuditChain`, not a result.

Every invariant and every action property that a passing run checks is stated by one of these theorems, and so is each refinement, but
for `OneTransfer` of `saga_progress`, which is model-checked only. Where a type
invariant is proved and no run lists it, the theorem says more than the run would. Also only
model-checked: liveness (`PendingKeysResolve`, `JobsEnd`, `EventsEnd`, `TransactionsEnd`, `AlertsFollow`, `ChainAlertsFollow`), which rests on
fairness and ENABLED, outside the prover's reach.

## 5. Not modelled

- Tenants and row-level security: one tenant; isolation is Postgres policy, not protocol.
- The rows of `payment_events` and `payment_execution_attempts`: append-only logs no decision reads.
- `SIMULATED_STATEMENT_EMIT`: a demo switch that posts to reconciliation and ignores the answer.
- Backoff delays and clock ages: a retry may come at any time, which includes the scheduled one.
- Routing, parsing, formatting, the web client, seeds, scripts, deployment.
- Password hashing, cookies, CSRF tokens, signatures: pure computation.
- The circuit breaker of the custody adapter appears as a refusal at any time, which covers every state it can be in; that
  it opens and half-opens as it should is not checked. The request rate limiter of `http.mjs` and the retries of
  `service-client.mjs` for reads change nothing that another component sees.
- Compliance, and the read-only routes of every service. The demo routes that toggle a provider or simulate an incident.

## 6. Plan

In this order; the first group is done.

1. Done: `PaymentStore`, `PaymentService`, `SettlementSaga`, `PaymentSystem` with `PaymentContract`, `AuditChain`, `OutboxRelay`,
   `WalletLedger` with `LedgerContract`, `ProviderFeeds`, `PolicedPayments`, `GatewaySessions`, `Watchdog`, and proofs about every one.
2. `CircuitBreaker` (closed, open, half-open over interleaved submissions), composed with `SettlementSaga`.
3. Journals and their export in accounting-service; the providers' toggle and incidents in operations-service.
4. Liveness of the feeds: an ingested statement is examined unless its job is dead-lettered.
5. Proofs: `PolicedPayments` in place of `PaymentService` in the composition, so that `ExecutedAsPolicyDemands` holds next to the saga.
