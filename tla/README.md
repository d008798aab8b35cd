# qPayFlow in TLA+

TLA+ models of qPayFlow's payment path, the TLC runs that check them on small instances, and theorems
about them that TLAPS checks for every value of the constants.

1. [The system](#1-the-system)
2. [What is hard in it](#2-what-is-hard-in-it)
3. [Modules](#3-modules)
4. [Runs](#4-runs)
5. [Disagreements with the documentation](#5-disagreements-with-the-documentation)
6. [Proofs](#6-proofs)
7. [Not modelled](#7-not-modelled)
8. [Plan](#8-plan)

## 1. The system

```
client -> API gateway -> payment service -> PostgreSQL (payments, outbox_events)
          rate limiter   POST /payments     Redis      (idempotency:<key>)
                              | outbox relay, one worker per replica
                              v
                        Kafka payment-events  <----------------------------+
                              |            \                               |
                              v             \-> notification service       |
                        fraud service -> Kafka fraud-events                |
                        velocity check        |                            |
                                              v                            |
                        payment service: saga consumer, ProcessFraudResult |
                              |  POST /accounts/transfer (circuit breaker)-+ result event
                              v
                        account service -> PostgreSQL (accounts, balance_ledgers)
                                           Redis      (lock:acc:<id>)
settlement service (one leader by a Redis lease) -> audits payments and ledgers
seeder -> accounts
```

| component | state it keeps | operations | what makes it correct |
| --- | --- | --- | --- |
| account service (`cmd/account-service`) | rows of `accounts` (balance, version) and `balance_ledgers`; row locks; Redis account locks | `Transfer`, `TransferWithRedisLock`, reads | no lost update, no deadlock, all or nothing, every balance is the sum of its ledger, money is conserved |
| payment intake (`payment.CreatePayment`) | rows of `payments` and `outbox_events`; `idempotency:<key>` records | `POST /payments` | one payment per key, one event per payment, retries are told of that payment and of no other |
| idempotency manager (`pkg/idempotency`) | the Redis record: absent, IN_FLIGHT, COMPLETED | `Start`, `Complete`, `Release` | a record never names a payment that does not exist |
| outbox relay (`internal/outbox`) | `outbox_events.status`, the worker's batch, the topic | poll, publish, mark | no event is marked without being handed to Kafka, every event is handed over at last |
| fraud service (`cmd/fraud-service`) | velocity window per account, offsets | consume PaymentCreated, decide, publish | the velocity limit; no large payment approved; outcomes are not evaluated again |
| saga (`internal/saga`, `ProcessFraudResult`) | `payments.status`, offsets, the message in hand, the circuit breaker | consume a verdict, transfer, settle, publish | SUCCESS only with money moved, no money without approval, one outcome, the consumer never blocks |
| circuit breaker (`pkg/resilience`) | state and counters, in memory, per replica | `Execute` | opens and closes exactly at its thresholds |
| Kafka wrapper (`pkg/kafka`) | per group: owner, read position, committed offset, messages in hand | `Publish`, the consumer loop, `Close` | no message is skipped; but the loop logs a handler's error and reads on |
| notification service (`cmd/notification-service`) | offsets | consume outcomes, send three messages | nobody is told what is not so; every published outcome goes out |
| leader election (`internal/leader`) | the lease; each elector's `isLeader` and job context | acquire, renew, step down | a replica that has lost the lease stops its job when it hears of it, failover |
| reconciliation (`internal/reconciliation`) | none | ledger audit, three-way audit | no false alarm |
| rate limiter (`gateway.RateLimit`) | sorted set per client | the Lua script | the limit per window, no unjustified refusal |
| gateway proxy, tracing, config | none | forward, log | - |
| seeder (`scripts/generator`) | - | inserts accounts with their `INIT` ledger row | ledger starts balanced; seeding again leaves balances alone |

The Kubernetes manifests run two replicas of the gateway and of the payment, account, fraud and
notification services. All interaction is over HTTP (gateway to services, saga to account service),
Kafka (payment-events, fraud-events) and shared rows and keys; the replicas of a service share nothing
in memory.

## 2. What is hard in it

- **Interleaving**: transfers over common accounts on two replicas; requests with one idempotency key;
  two relay workers over the same rows; two saga consumers with the same message after a rebalance.
- **Partial failure and crashes**: each handler is a sequence of calls to Redis, PostgreSQL, Kafka and
  HTTP, any of which can fail, or succeed with its answer lost; a replica can die between any two.
- **Delivery**: the relay, the fraud service and the saga each deliver at least once (or, with offsets
  committed in the background, at most once). Duplicates and reordering are the normal case.
- **Time**: Redis locks, idempotency records and the leader's lease expire under their holders; the
  client's timeout races the transfer it waits for; go-redis sends a command again when no reply comes,
  and a command nobody waits for any more may still be carried out.
- **Numbers**: amounts are float64 in Go and NUMERIC(18,4) in PostgreSQL.

`PROJECT.json` lists each hazard at its line, with the properties that cover it or the reason none does.

## 3. Modules

| module | models | extends / instantiates |
| --- | --- | --- |
| `AccountLedger` | account service, seeder | - |
| `AccountLedgerProofs` | theorems about it, and about sums over finite sets | `AccountLedger` |
| `PaymentIntake` | `CreatePayment` and the idempotency manager, with the saga's read and writes of the same rows and records | `IntakeContract` as its abstract specification |
| `PaymentIntakeProofs` | theorems about it, with the refinement of `IntakeContract` | `PaymentIntake` |
| `IntakeContract` | what `POST /payments` promises its clients: one payment per key, entered once | - |
| `OutboxRelay` | outbox table, relay workers, payment-events | - |
| `PaymentSaga` | fraud-events partition, saga consumers, circuit breaker, transfers in flight | `PaymentLifecycle` as its abstract specification |
| `PaymentSagaProofs` | theorems about it, with the refinement of `PaymentLifecycle` | `PaymentSaga` |
| `PaymentLifecycle` | what the payment service promises about one payment's status, money and announcements | - |
| `Settlement` | leader election and the three-way audit | `PaymentLifecycle` as the payment service it audits |
| `SettlementProofs` | theorems about it | `Settlement` |
| `SlidingWindow` | the gateway's rate limiter and the fraud service's velocity check | - |
| `RelayAndWindowProofs` | theorems about the two components no other module builds on | `OutboxRelay`, `SlidingWindow` |
| `ConsumerGroup` | `pkg/kafka`: one partition and the consumer group that reads it | - |
| `ConsumerGroupProofs` | a theorem about it, and the lemmas its instances use | `ConsumerGroup` |
| `PaymentPipeline` | the composition: relay, fraud service and saga over payment-events and fraud-events | `ConsumerGroup` twice |
| `PaymentPipelineProofs` | theorems about it | `PaymentPipeline`, `ConsumerGroupProofs` twice |
| `NotificationService` | the notification service and the two writers of payment-events | `ConsumerGroup`, `PaymentLifecycle` as the payment service |
| `NotificationServiceProofs` | theorems about it | `NotificationService`, `ConsumerGroupProofs` |
| `MCAccountLedger`, `MCPaymentIntake`, `MCOutboxRelay` | request bodies and other values for TLC | the module named |

The modules meet at interfaces that one of them establishes and the other assumes:

- `PaymentSaga` treats a transfer as one atomic step. `AccountLedger` shows that a transfer commits
  entirely or not at all (`AllOrNothing`, `MoneyMovesInPairs`).
- `PaymentSaga` starts with PENDING payments, and `OutboxRelay` with one event per payment.
  `PaymentIntake` commits a payment exactly with its event (`OneEventPerPayment`).
- `OutboxRelay` publishes an event any number of times, and none at all only when Kafka has lost it
  (`LostOnlyByKafka`). So `PaymentPipeline` relays it several times, and `PaymentSaga` lets the fraud service publish several
  verdicts, which may differ, for one payment.
- `PaymentPipeline` takes a transfer's success (`PaymentSaga`, `AccountLedger`) and the velocity rule
  (`SlidingWindow`) as free choices, and a message's way through a group from `ConsumerGroup`.
- `Settlement` runs the audits, and `NotificationService` its consumer, over any behaviour of
  `PaymentLifecycle`. `PaymentSaga` implements `PaymentLifecycle` (`ImplementsLifecycle`).

### AccountLedger

`pc[h]` is the next statement of handler `h`. `Receive` takes a request; the Redis variant goes through
`AcquireLock1`, `AcquireLock2` and, deferred, `ReleaseLock2`, `ReleaseLock1`; `Begin` validates and opens
the transaction; `LockFirst` and `LockSecond` are the two `SELECT ... FOR UPDATE` in the order of the
ids; then `CheckBalance`, `UpdateSource`, `UpdateDest`, `WriteDebit`, `WriteCredit`, `Commit`. Uncommitted
writes are in `tx[h]`; only `Commit` changes `balance`, `version` and `ledger`. `StatementFails` is an
error of any statement (rollback), also of a COMMIT that was carried out; `Crash` ends a handler anywhere.
`LockExpires` is the 5 s of a Redis lock. `SeedAccount` is the seeder's transaction; when it is run again it
keeps the account row and inserts the ledger row once more, which `BalanceIsLedgerSum` accounts for.

Amounts are integers, in halves of the last digit of NUMERIC(18,4), so that the column's rounding
(`Numeric`: half away from zero) is distinguishable from what Go computed. Binary rounding of float64
itself is not modelled.

### PaymentIntake

One handler per request. `Start` and `Get` are the idempotency manager's SETNX and GET; an error of Redis
sends the handler on to the database (`Lookup`). `InsertPayment`, `InsertEvent` and `Commit` are the
transaction; the UNIQUE index makes an insert wait for an open transaction with the same key and fail on
a committed one. `Complete...` caches, `Release` deletes the record whatever it holds, `Rollback` is the
deferred rollback that comes after it. `Faults` selects what can go wrong.

The saga's `ProcessFraudResult` is three steps per consumer, as in the code: `SagaLookup` reads the row and
goes on if it is PENDING, `SagaUpdate` writes the final status whatever the row holds by then, `SagaCache`
writes the record with the status this consumer computed. Two consumers may thus turn a row from SUCCESS to
FAILED and leave the record with either. `had` is a history variable: the statuses each row has had.

Redis may leave a SETNX, SET or DEL unanswered (`NoReply`, `SagaNoReply`). go-redis then sends it again, so the
call goes on, and the command that was not answered stays in `unanswered`, from where `Late` may carry it
out at any time, also after its sender has returned or died. A request whose own SETNX was carried out
without a reply is answered "already being processed". A command in `unanswered` may be carried out more
than once, which stands for its repetitions; their number is not limited to three.

`IntakeContract` has a map from keys to payments (`book`), the statuses of each (`past`), what each request
asked and what it was told. The refinement mapping reads `book` and `past` off the committed rows, `asked` and
`reply` off the handlers that have answered. `ImplementsContract` says that every step of the three layers is a
step of that map: a payment is entered once per key, never removed, overwritten or PENDING again, and a 201
names it: "created" to its maker alone, "created" and "existing" with the request's own parameters, "cached"
with whatever the key holds (that is what the code does, see section 5), in a status it has or has had. It
does not promise that all clients are told one outcome: the code does not see to it.

### OutboxRelay

`Commit` makes a row visible, in any order of `created_at`. A worker's `Poll` reads the `BatchSize` oldest
PENDING rows (`Oldest`), without locking them; `Publish` (no error: the event is in the topic, or among the
`dropped`, since the writer asks for no acknowledgement) or `PublishFails`, then `MarkProcessed` or `MarkFails`, for
each. A failure goes on with the next row. The topic keeps the order per key. `Unreachable` are accounts
whose partition never has a leader.

### PaymentSaga and PaymentLifecycle

One partition of fraud-events with its owner, read position and committed offset. `CommitOffsets` may
happen at any moment, as the reader's background flush does; `Assign` moves the partition and reads again
from the committed offset, while the former owner finishes the message it has. The handler is `Lookup`,
`Rejected` or `Send`, `AnswerOK` or `AnswerError`, `UpdateStatus` or `UpdateFails`, `CacheOutcome`,
`PublishResult`. A request its caller no longer waits for stays in `late` and may be carried out at any
later time. The breaker is a record per consumer and is lost in a crash; its 10 s timeout is a choice
between `Rejected` and `Send`. `PaymentLifecycle` has the variables `status`, `moved` and `told` only, and
the refinement mapping is the identity on them.

### ConsumerGroup

`group` is a record: the `owner` of the partition, the `position` its reader has returned, the `committed`
offset, the message in each consumer's `hand`, the offsets `done` and `failed`, and the count of `moves`.
kafka-go's reader commits in the background what it has *returned*, not what was handled, so the group may
have committed any offset of `Flushed` when it is looked at; it is chosen when it matters: in `Assign`, `Crash`
and `ShutDown`. `Read` and `Return` are the loop around the handler; a module that instantiates this one
joins them with what the service's handler does in between. `Return(c, FALSE)` is an error, which is logged
and forgotten. `ShutDown` is SIGTERM: it cancels the handler's context and commits the offset of its message.

### PaymentPipeline

Two instances, `Fraud` on payment-events and `Saga` on fraud-events. `Relay` publishes PaymentCreated, any
number of times up to the bound. `FraudRead`, `FraudSkip`, `Evaluate`, `EvaluateFails` are the fraud
service's callback, `SagaRead`, `Lookup`, `Update`, `SagaFails`, `Tell` the payment service's; `Tell`
publishes back to payment-events. `Drop` is a message that Publish reports as written and the broker did
not store. `FindOwner`, `Rebalance` and `End` move the partitions.

### NotificationService

The same for the third consumer. `Relay` and `Pay` write payment-events, the latter by taking any step of
`PaymentLifecycle`, so the outcomes are those the saga may announce, also contradictory ones. `Skip`, or
`Send` three times and `Finish`, are the callback; `used` counts the messages its call has sent.

### Settlement

`holder` and `left` are the lease in Redis and its remaining ticks. An elector is `waiting` for its ticker,
or in a call: `TakeHeartbeat` starts SETNX or the renew script, `Acquire` and `Renew` are the moment Redis
carries it out, `BecomeLeader`, `StayLeader` and `Refused` the moment the elector learns of it, `CallFails`
an error before or after Redis did, `Resend` a reply that go-redis did not get and sends again for. Commands that
Redis had not carried out by then are counted in `unanswered`, and `Late` carries them out. `End` is the end of
a process, with (`ShutDown`) or without (`Crash`) the release script; a new process has a new instance id, so
what a dead one left, in Redis or on the way to it (`Orphan`), is `Foreign`. `RunAudit` is one three-way
audit, by the leader's job or by `POST /reconcile/now`, which every replica serves.

`Tick` advances time, and nothing holds it back: a heartbeat or a call may take any number of ticks, as a
paused process, a slow Redis or go-redis's timeouts and retries make it. `since` is a history variable: the
ticks since Redis last gave the node the lease, or since it was last told that it has none.

### SlidingWindow

One sorted set, of either kind. `ReadClock` is `time.Now()`, `GatewayEval` the Lua script (adds below the
limit only), `FraudPipeline` the MULTI pipeline (adds always, then counts), `FailOpen` an error of Redis.
Calls arrive up to `Delay` late and in any order.

## 4. Runs

Every run's cfg names its bounds. "Passing" means TLC explored all reachable states.

| run | properties | what it shows |
| --- | --- | --- |
| `account_safety` | `TypeOK`, `NoLostUpdate`, `NoMutualWait`, `BalanceIsLedgerSum`, `MoneyConserved`, `AllOrNothing`, `MoneyMovesInPairs`, `ReleasesOnlyItsOwnLock` | three concurrent transfers, both ways between two accounts that may be seeded twice, with and without Redis locks, bodies that validation refuses, errors, crashes, expiring locks |
| `account_liveness` | `EveryTransferAnswered` | a ring of transfers over three accounts: none waits for ever |
| `account_subscale` | `MoneyConserved` (violated) | 0.00005 creates money |
| `intake_safety` | `TypeOK`, `OnePaymentPerKey`, `OneEventPerPayment`, `CacheIsCommitted`, `InFlightAnswerHasCause`, `ImplementsContract` | two requests with one key and several payloads, two consumers that settle its payment, all faults: the service implements its contract |
| `outbox` | `TypeOK`, `LostOnlyByKafka`, `EveryEventProcessed` | two workers, a crash, a partition that is never reachable: the relay forgets nothing, nothing behind the stuck event starves |
| `outbox_order` | `PerAccountOrder` (violated) | events of one account overtake each other |
| `saga` | `TypeOK`, `SuccessMeansMoved`, `ChargedPerDelivery`, `BreakerCounts`, `ImplementsLifecycle`, `ConsumerNeverBlocks` | two verdicts, two replicas, a crash, a rebalance |
| `saga_double` | `NoDoubleCharge` (violated) | a crash between transfer and status transfers twice |
| `settlement` | `TypeOK`, `OneJob`, `NoFalseAlarm`, `AlwaysALeaderAgain` | two replicas, calls of any length, a process that ends, a call that fails or is sent again, a payment settled meanwhile |
| `sliding_window` | `WindowTypeOK`, `LimitHolds`, `RefusalIsJustified` | both windows slid over twice their length by two callers |
| `pipeline` | `TypeOK`, `NoFeedback`, `LargeNeverSucceeds`, `OneOutcome`, `SettledUnlessLost` | two copies of PaymentCreated through the fraud service and two saga replicas, with a crash, a shutdown, a rebalance or a failure |
| `notification` | `TypeOK`, `NotifiedIsTrue`, `NoneForgotten`, `NotifiedUnlessLost` | two messages, two replicas, two crashes, shutdowns or rebalances at any point of the handler |

### Bounds, and why they are enough

- *Accounts and transfers.* Two accounts and three transfers have every conflict two row locks can have:
  same direction, opposite direction, and a third that comes in between. A cycle of three needs three
  accounts, which `account_liveness` has. The theorems of section 6 hold for any number.
- *Intake.* Keys do not interact, so one is enough. Two requests are the maker of the payment and one that
  meets it at any point, while both consumers settle it; three are beyond one run, and are left to the
  theorems of section 6, which hold for any number of requests, consumers and unanswered commands. One
  different command is left unanswered (`MaxUnanswered` = 1) and may be carried out late and repeatedly,
  against every other step.
- *Seeding.* Each account is seeded at most twice (`MaxSeeds`): the run that makes it and one that meets it.
- *Pipeline.* Two copies of PaymentCreated, of one payment or of two, one of which is above the amount limit
  (`MaxCopies`); the second delivery of a message takes one fault (`MaxFaults` = 1), so that two verdicts on
  one payment, a redelivery and two replicas with the same message all occur. Two faults multiply the states
  beyond what one run can explore; combinations of them are in `saga`, with one partition.
- *Notification.* Two messages and two faults: one outcome can be in the hands of a replica that is gone and
  of its successor, with another outcome behind it. `MaxMoves` = 1 transfer; `PaymentLifecycle` may then
  still announce SUCCESS and FAILED.
- *Relay.* Three events with batches of two make the LIMIT bite, and one stuck event leaves a batch with
  room. As many stuck events as the LIMIT (50) would starve the others: the assumption behind
  `EveryEventProcessed` is that there are fewer. `MaxCopies` caps the log.
- *Saga.* Two verdicts may agree or contradict each other. One crash and one rebalance deliver either
  again, to the same or to another replica, while the first is still being handled. Thresholds of 2 and 1
  stand for the code's 5 and 2 (`service.go`) so that the breaker opens and closes within two messages.
- *Settlement.* A lease of 3 ticks is longer than some calls and shorter than others. One ended process and
  one error or lost reply meet in every order: a command that arrives late, its repetition, and the
  expiry between them. Two leaders at a time occur. The payment is settled meanwhile by `PaymentLifecycle`.
- *Windows.* Limit 2, window 4, delay 1, nine moments: every way for a late call to fall on either side of
  the edge. `LimitHolds` with `Window` in place of `Window - Delay` is false: the slack is necessary.

### Fairness

- `AccountLedger`: weak fairness of each handler's next step. net/http gives every request a goroutine and
  PostgreSQL answers a statement whose row lock is free. Nothing is assumed of failures or expiry.
- `OutboxRelay`: weak fairness of each worker's step (ticker, restarted pod), strong fairness of a
  successful publish and of a successful mark: an error other than that of an unreachable partition is
  transient. Without the strong half, calls that fail for ever would be a counterexample that says nothing.
- `PaymentSaga`: weak fairness of each consumer's step; its HTTP client has a timeout, so an answer always
  comes. Nothing is assumed of the account service, nor of crashes and rebalances.
- `PaymentPipeline`, `NotificationService`: weak fairness of each replica's step and of finding a partition
  an owner (kafka-go rejoins its group, Kubernetes restarts pods). No call is assumed to succeed, and nobody
  to publish; the leads-to start from a message that is in the topic.
- `Settlement`: time passes, each elector's loop runs, pods are started again. A call ends at last, but
  nothing is assumed of when; errors and late commands are bounded, not fair.

### Deadlock

Deadlock is checked where the system should never stop. The modules whose requests end (`Idle`,
`Terminated`, `Quiet`) stutter only in those final states. `sliding_window` alone is checked without,
since the clock stops at its bound.

## 5. Disagreements with the documentation

Each has a run that exhibits it.

1. *Sub-scale amounts create money* (`account_subscale`; README.md:98). `Transfer` neither rounds nor
   refuses an amount finer than the columns.
2. *No per-account order* (`outbox_order`; cmd/README.md:52).
3. *Charged twice* (`saga_double`; README.md:80, cmd/README.md:93).

Met while modelling, without a run of their own:

- Another payload under a completed key is answered 201 with the first payment, where
  docs/architecture/payment.md:82 and openapi.yaml:76 promise 422: a COMPLETED record forgets the hash of its
  payload (idempotency.go:107). `IntakeContract` therefore promises the request's own parameters only for the
  answers "created" and "existing"; it is an account of the code, weaker than that document.
- A row may be PROCESSED although its event is not in Kafka, where docs/architecture/payment.md:114 promises
  at-least-once delivery: the writer asks for no acknowledgement (kafka.go:23), so Publish returns nil for a
  message the broker did not store. `LostOnlyByKafka` says that events are lost in no other way.
- Two replicas may run the reconciliation job at a time, where cmd/README.md:69 says that only the leader does:
  nothing ends a job when its lease ends. The leader learns of it at its next renewal, however late that
  is (election.go:85). `OneJob` says that it takes a whole lease without a word from Redis.
- "Already being processed" (service.go:89) may be answered for 24 hours although nothing is: a failed lookup
  returns without `Release` (service.go:105), and a request whose SETNX was carried out without a reply meets
  its own record when go-redis sends it again. `InFlightAnswerHasCause` states what does hold.
- Seeding again is not as safe as generator/main.go:149 says: the ledger row has a fresh id and is inserted
  again, so the ledger audit reports the account. `BalanceIsLedgerSum` says by how much.
- A rolling restart loses the message a consumer has in hand: SIGTERM cancels the handler's context, the loop
  logs its error, and closing the reader commits the offset.
- `handler.go:39-46` compares errors with `errors.Is` that the service has wrapped anew, so the 409 and
  422 of openapi.yaml:70,76 are never answered; the models tell the refusals apart, the client cannot.
- A retry of a payment whose amount is finer than the column finds its own row with the rounded amount and
  is refused for different parameters (service.go:112).
- A payment may be FAILED although its money has moved (the client's timeout, a late transfer), and may go
  from SUCCESS to FAILED when two replicas handle one result (cmd/README.md:49 calls the
  workflow "designed to prevent inconsistent states"). `PaymentLifecycle` deliberately does not promise more.
- An error in the saga's or the fraud service's handler is logged and the offset committed: the payment
  stays PENDING (cmd/README.md:73 says "zero data loss").
- The handler that created a payment may cache it PENDING after the saga has cached its outcome
  (service.go:177 against 260): retries see PENDING for 24 hours. And two consumers that settle one payment
  differently may write row and record in different orders (service.go:255, 260): retries see the outcome
  the row has lost. `CacheIsCommitted` and `IntakeContract` allow exactly that: a status the row has had.
- The velocity limit is 10 per minute in the code and 5 in docs/architecture/payment.md:89, and it counts
  deliveries, not payments.
- The audit flags SUCCESS payments with fewer than two ledger rows; it sees neither a payment charged
  twice nor a FAILED one whose money has moved.

## 6. Proofs

TLAPS checks the theorems below for every value of the constants; the runs of section 4 check the same
properties on one instance. Each inductive invariant was checked by TLC before it was proved. The proofs are
in a module of their own beside each component: operators and lemmas, one lemma per part of the invariant
and inside it one step per action, and the theorems at the end.

| component | theorem | states |
| --- | --- | --- |
| account service | `TypeCorrect` | `TypeOK`; no balance is ever negative |
| | `NoUpdateLost` | `NoLostUpdate` |
| | `DeadlockFree` | `NoMutualWait` |
| | `TransferAtomic` | `AllOrNothing` |
| | `PairedMovement` (on scale) | `MoneyMovesInPairs` |
| | `MoneyIsConserved` (on scale) | `MoneyConserved` |
| | `LedgerExplainsBalances` (on scale) | `BalanceIsLedgerSum` |
| | `OwnLockOnly` | `ReleasesOnlyItsOwnLock` |
| payment intake | `TypeCorrect`, `KeyChargedOnce`, `EventWithPayment`, `CacheCommitted` | `TypeOK`, `OnePaymentPerKey`, `OneEventPerPayment`, `CacheIsCommitted` |
| | `InFlightCause` | `InFlightAnswerHasCause` |
| | `RetriesAgree` | retries with one key are told of one payment, in statuses it has had, and one at most that it made it |
| | `Refinement` | `ImplementsContract` |
| outbox relay | `TypeCorrect`, `NothingDropped` | `TypeOK`, `LostOnlyByKafka` |
| saga, circuit breaker | `TypeCorrect`, `SuccessIsPaid`, `ChargesBounded`, `BreakerBounded` | `TypeOK`, `SuccessMeansMoved`, `ChargedPerDelivery`, `BreakerCounts` |
| | `Refinement` | `ImplementsLifecycle` |
| rate limiter, velocity check | `WindowTypeCorrect`, `LimitEnforced`, `RefusalsCaused` | `WindowTypeOK`, `LimitHolds`, `RefusalIsJustified` |
| settlement | `TypeCorrect`, `OnlyOneJob`, `AuditIsQuiet` | `TypeOK`, `OneJob`, `NoFalseAlarm` |
| Kafka wrapper | `GroupSkipsNothing` | `NothingSkipped` |
| pipeline | `TypeCorrect`, `LargePaymentsFail`, `OutcomeIsOne`, `NothingFedBack` | `TypeOK`, `LargeNeverSucceeds`, `OneOutcome`, `NoFeedback` |
| | `NoneStranded` | `NeverStranded`: a PENDING payment that was published has a message left, or was lost |
| | `BothAreGroups` | each group implements `ConsumerGroup` |
| notification service | `TypeCorrect`, `NotificationsTrue`, `OutcomesNotForgotten` | `TypeOK`, `NotifiedIsTrue`, `NoneForgotten` |
| | `NoneSilent` | `AnnouncedUnderway`: an outcome announced was sent, lost, or will be read |
| | `BothComponents` | it implements `ConsumerGroup` and `PaymentLifecycle` |

"On scale" is the hypothesis `OnScaleRequests`: amounts are multiples of the columns' last digit. Without it
the three properties are false, as `account_subscale` shows.

### Account service

*The inductive invariant.* None of the properties is inductive. `NoLostUpdate` says that a handler's rows
are the committed ones; that a commit of another handler cannot change them follows only from each row
having one lock holder, and that the handler's own commit writes what it computed only from `tx[h]` being
the image of those rows. `Inv` therefore joins to `TypeOK`, per handler, `Locking` (the request passed
validation; the handler holds exactly the rows it has read, which are still as read) and `Writing` (its
uncommitted writes are computed from them, statement by statement), and that committed balances are on
scale.

*The argument.* One lemma per action shows `Inv'` for the handler that moves. For all the others, lemma
`Others` (from `Frame`) shows that a step that leaves alone the rows they have locked keeps their `Locking`
and `Writing`. `Commit` is the only step that changes existing rows, and its lemma needs that the rows it
writes are the two it holds. `PairedMovement` then reads the committed values off `Writing`.
`TransferAtomic` needs a second invariant (`Recorded`): before its COMMIT a request has no ledger row at
all, and rows of different requests, and of the seeder's runs, have different ids.

*Deadlock freedom.* `NoMutualWait` is about sets of transfers of any size. From `Inv` follows `LockOrder`: a
transfer that waits holds only rows with a smaller id. In a set of waiting transfers there is one that wants
the greatest row (`Greatest`, by induction on the size of the set of rows); were the holder of that row in the
set too, it would be waiting for a greater one.

*The sums.* What a sum over a set is follows from its definition only by induction on the size of the set.
The library's induction theorems take an operator as a parameter and cannot be instantiated, so the module
proves induction for *sets of numbers* first (`SetInduction`, from the well-foundedness of `<`), and applies
it to the set of sizes for which a fact holds: that the fold of `MapThenSumSet` has a value (`SumsExist`), that
it takes the elements in any order (`AnyOrder`), and with these what adding, removing or changing one
element does (`SumAdd`, `SumRemove`, `SumChange`). `Audit` is then inductive: a commit takes from one
balance what it adds to the other and to the ledger, on scale; the seeder adds a balance and its row.

### Payment intake

*The inductive invariant.* `OnePaymentPerKey` is not inductive: a transaction that is about to commit could
have the key of a committed row. `Unique` says that among the open transactions *and* the committed rows of a
key there is one in all, which is what the UNIQUE index keeps. `Records` says of each idempotency record,
and of each write that may still reach Redis, that it is `Backed`: a COMPLETED one names a copy of its key's
committed row (`Names`: the same, in a status the row has had), an IN_FLIGHT one was left by a handler that
got past the check, or its SETNX is itself among the unanswered. `Knows` says what a handler has in hand at
each of its calls, `SagaKnows` what a consumer has; `Rows` joins rows, events and the requests they come from.

*The refinement.* The lemmas `BookOf` and `ReplyStep` compute the mapping: the row of a key in
`IntakeContract` is the key's committed row, of which `Unique` says there is one. `ContractStep` then goes
through the actions: a commit enters a payment in the book, an answer is a reply the contract allows because
`Knows` and `Records` hold when it is given; a consumer's UPDATE is a `Settle` of the contract, also the
second one (`ContractSettle`); every other step stutters.

*What retries are told.* `RetriesAgree` compares answers that were given at different times by different
layers: the row, the record, the transaction. Each was true when it was given (`ToldTrue`), and stays a copy of
its key's one row, since what a row has had only grows (`NamesKept`). The answers may name different outcomes,
when two consumers wrote different ones; each of them the row has had.

### Outbox relay

A row is marked some steps after its event was handed to Kafka, while other workers poll, publish and mark the
same row. `Inv` adds to the property that a worker about to mark has in hand an event that is in the topic or `dropped`.
The topic is never shortened (`Appended`). That a batch is no longer than the LIMIT comes from `BatchType`.

### Sliding windows

`LimitHolds` is about windows that lie anywhere, the code's removal about the window before one call, whose
stamp may be older than that of a call Redis has served before. The set as such promises nothing about a
late call; what does not change is that an entry leaves it, by removal or with an expired key, only when the
clock is a `Window` past it (`Entries`), and that a call is late by at most `Delay` (`Stamped`). A call let
through thus finds every earlier one that shares a stretch of `Window - Delay` with it (lemma `LimitKept`),
and one refused finds `Limit` entries no more than `Delay` after it (`RefusalsKept`).

### Saga and circuit breaker

*The inductive invariant.* `Knows` says what a consumer knows at each of its calls: before the request, that
its message is in the partition and approved; after the answer, that the money of a SUCCESS has moved; after
the update, that the payment is settled. The breaker's counters need `Knows` too, since it is only asked for
an answer when it was not open.

*The count.* `ChargedPerDelivery` is not inductive either: a consumer about to send, or a request nobody waits
for any more, is money still to move. `Counted` says, payment by payment, that every transfer made, waiting in
`late`, or still possible in a consumer's handler (`Pending`) belongs to a delivery of an approval of that
payment, and `Deliveries` bounds these: the approvals the owner has read, and all there are for each crash and
each rebalance. Reading is the only step that adds to `Pending`, and it adds to `Deliveries` as much
(`DeliveriesGrow`); a verdict that is published lies behind the position, so it adds to no delivery yet.

*The refinement.* `PaymentLifecycle` promises that money moves at most `MaxMoves` times; `Counted` says that
this is never more than one per delivery (`DeliveriesBounded`), so that no transfer is refused there.

*What the prover found.* The cases of the breaker's `AfterSuccess` overlapped in the half-open state at the
threshold, where TLC takes the first; they are disjoint now, as the code's branches are.

### Settlement

*The inductive invariant.* `OneJob` follows from `Lent`: a node that is leader, or has just been given the
lease without knowing it yet, holds it until `TTL` ticks have passed since. That is inductive only with an
account of time: what is left of the lease and what has passed `since` add up to `TTL` at least (more, after
a renewal that arrived late). At a tick both sides move together (lemma `TickInv`), and a node that has
passed its `TTL` keeps nothing. No bound on calls is needed, nor anything about the phases: whichever way a
call ends badly, the node is no leader afterwards. `AuditIsQuiet` rests on an invariant of `PaymentLifecycle`
alone (`Honest`): a payment that is SUCCESS has moved.

### Kafka wrapper

That every committed message has been seen (`CommittedSeen`) is not inductive,
since a later flush may commit all that has been read. `ReadSeen` adds that what the *owner* has read and
the group has not committed is handled or in the owner's own handler. "In anybody's" would not do: the end
of a former owner drops its message, and if that was not committed by then it must still be in the owner's
range or be read again. `Spec` lets any producer append and any handler return at any time, so what is
proved here holds for each of the groups of `PaymentPipeline` and `NotificationService`: their proofs show
that every step of theirs is one of `ConsumerGroup!Next` (`GroupSteps`, `GroupStep`) and take the group's
invariant from here.

### Pipeline

`Inv` has one part per property. `LargeRejected`: no verdict in the topic approves a large payment, and no
handler has SUCCESS in hand for one. `Serial`: while the partition has not been taken from a live replica
only its owner has a message in hand (`Alone`), so the status a handler has read is still the status when it
is used (`Current`). The count behind `NothingFedBack` charges each message once for every reading: still to
come, in a handler, or answered. A reading moves a message from the first to the second, a published answer
from the second to the third; a partition without an owner stands at its committed offset, by `ReadSeen`, so
only a fault takes the position back and has messages read once more. `Budget` is the arithmetic.

`NoneStranded` is what is left of `SettledUnlessLost` without fairness: there is no state in which a payment is
PENDING and nothing is going to change that. Besides `NothingSkipped` of both groups it needs `Answered`: a
handler returns without an error only when its answer is in the next topic, dropped, or in the row.
`BothAreGroups` says that the pipeline is made of two consumer groups and not of something like them, although
one handler's step is a step of one group and a producer's of the other.

### Notification service

`HalfSent` says that a handler which has used k channels has sent its outcome on the first k, `DoneNotified`
that an outcome whose handler has returned went out on all; with the group's `NothingSkipped` this is
`NoneForgotten`. `TopicIsTrue` says of the topic what `NotifiedIsTrue` says of what was sent, and rests on
`PaymentLifecycle` alone: a status that was once true of a payment, `SUCCESS` with its money, stays true.
`NoneSilent` is the part of `NotifiedUnlessLost` that needs no fairness.

### Assumptions

Those the modules name: constants have their types; the values that mean "nobody" or "none" (`NoConsumer`,
`NoPayment`, `NoResult`, `NoToken`) are not in the sets they stand beside; thresholds are positive and bounds are
naturals; the sets of accounts and of outbox events are finite; seeds are on scale; the lease's time to live is positive.
TLC evaluates each of them in the run of its module.

### Only model-checked

- Liveness (`EveryTransferAnswered`, `EveryEventProcessed`, `ConsumerNeverBlocks`, `SettledUnlessLost`,
  `NotifiedUnlessLost`, `AlwaysALeaderAgain`): fairness and ENABLED are out of the prover's reach.

## 7. Not modelled

- The gateway's proxying, read endpoints, tracing, logging, configuration: no state the properties speak of.
- The generator's load and verify modes: a test tool that sends requests and prints counts.
- Code no program calls: `cmd/*/internal/kafka`, `src/internal`, `RetryWithBackoffJitter`, `PublishDLQ`.
- The notification service's webhook signature: the webhook is a mock, nothing is sent.
- What libraries promise, beyond what the modules take from them. kafka-go's writer asks for no
  acknowledgement by default (kafka.go:23): `OutboxRelay` (`dropped`) and `PaymentPipeline` (`Drop`) lose
  messages this way. go-redis sends commands again: `PaymentIntake` and `Settlement` have it, while in
  `AccountLedger` a Redis lock whose SETNX was not answered is an error of the call, and in `SlidingWindow` a
  call is made once. A Redis that loses its data, or fails over to a replica that lags, is only modelled as
  an expired record. The groups are one partition each; a topic of several is several of them, as payments
  do not interact there.
- How long calls take. `Settlement` lets them take any time, so it does not say how often two leaders
  overlap, only what it takes and what ends it.
- float64 arithmetic: amounts are integers, so a discrepancy that only binary rounding makes, and the
  audit's tolerance of 0.0001 (reconciliation.go:114), are outside.
- The ledger audit: what it checks is the invariant `BalanceIsLedgerSum`.

## 8. Plan

Done, in this order, most important first: `AccountLedger`, `PaymentIntake`, `OutboxRelay`, `PaymentSaga` with
`PaymentLifecycle`, `Settlement`, `SlidingWindow`; then `ConsumerGroup`, `PaymentPipeline`,
`NotificationService`, and `IntakeContract` with the refinement by `PaymentIntake`. What is left of the system
keeps no state of its own (section 7). Proved: every invariant and action property the passing runs check, both
refinements, that the composed modules implement their components, and for the pipeline and the notification
service the safety half of their liveness property. The liveness properties themselves are model-checked.

A change to the code that would call for a change here: an acknowledgement asked of Kafka (`dropped` and `Drop` go), offsets
committed after the handler (`Flushed` ends at what is done, `failed` keeps only errors), a look at the
ledger's `reference_id` before a transfer (`Transfer` becomes idempotent, `NoDoubleCharge` holds).
