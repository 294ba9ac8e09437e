# Verification of the ShopCity loyalty platform

TLA+ models of the ShopCity loyalty service, the TLC runs that check them on
small instances, and TLAPS proofs that hold for every instance. Source paths
below are relative to the repository root; `PROJECT.json` ("map") gives the lines
behind every definition.

## 1. The system

ShopCity gives shop customers store credit: a purchase earns a percentage of the
amount paid, credit lives twelve months in *lots*, and a later purchase may be paid
partly from the lots. A NestJS API over PostgreSQL (Prisma) holds all the money; a
Next.js cashier application talks to it and keeps purchases in IndexedDB while the
shop is offline; BullMQ workers expire credit and approvals, send SMS from an outbox
and evaluate fraud rules.

| Component | State | Operations | Interacts with | What makes it correct |
|---|---|---|---|---|
| Credit ledger (`common/balance`, the write transactions of loyalty, redemptions, adjustments, reversals, credit-expiry) | LoyaltyLedgerEntry (append only), CreditLot, RedemptionAllocation, AllocationRestoration, CreditExpiry, Redemption | earn, settle, adjust (credit, debit), reverse (credit, debit, pair), expireDueCredit | everything that moves money; deferred triggers re-check the sums | lots and ledger agree; every debit is covered; expired credit is neither spent nor revived; a settlement is reversed as a unit |
| Earn request (`loyalty.service.ts` earn) | Receipt, IdempotencyRecord | one HTTP request: look-up, transaction, conflict handling, retry | ledger, approvals, outbox, offline sync | a receipt is captured once; a repeated request gets the first answer; every request is answered |
| Offline sync, server (`modules/offline-sync`) | OfflineSyncAttempt | earnBatch, processRecord, replay wait | earn | a record is run at most once, its answer is remembered |
| Offline queue, browser (`apps/web`, earn page and sync page) | IndexedDB records with `syncState`, the draft's key | submit, save, syncBatch, retry, clear | offline sync | never shows more than the server holds; a saved purchase is eventually settled |
| Approvals (`decideApproval`, approvals module, expiry worker) | Approval, Receipt and Redemption status, IdempotencyRecord | request, approve, reject, expire | ledger, policy | executed at most once, never after expiry, under the policy it was raised under |
| Redemption, adjustment and reversal requests | IdempotencyRecord, Receipt, Redemption | look-up, transaction, replay wait, retries | ledger | as for earn |
| Outbox and SMS delivery (`jobs/outbox-*`) | OutboxEvent, SmsMessage, queue jobs | publish, claim, send, record, recover | SMS provider and its delivery reports | an intent is sent, not twice, and never lost |
| Credit expiry worker and reminders | leader job, reminder rows | schedule, sweep, remind | ledger, outbox | due credit is eventually swept |
| Fraud rules and flags | FraudFlag and evidence | evaluate | outbox | one flag per piece of evidence |
| Policy configuration | versioned PolicyConfiguration, a cache per process | load, update, serve | earn, redemption, approvals, the public screens | no save is lost; the newest version is served |
| Cards and customers | Card, Customer, IdempotencyRecord | register, update, block, issue, replace, activate | eligibility checks of earn and redeem, outbox | one active card; a replaced card has one successor; no status is overwritten unseen |
| Authentication, sessions and devices | Session, Device, credentials, attestations, challenges | sign in, refresh, log out, pair, reset, enrol, revoke | every request | no session outlives the pairing it was opened under; no proof is used twice |
| Reports, audit, health, web screens | read models, append-only logs | read, append | – | – |

Hard parts: handlers are chains of separate database calls around one SERIALIZABLE
transaction, so two requests interleave between look-up, snapshot and commit; the
database answers a race with either of two errors; answers are lost after the commit and
requests are repeated; many handlers read their rows before the transaction that relies
on them; the process dies between a side effect and the row that remembers it; expiry
instants are compared in five places with `>` and `<=`; and reversals can themselves be
reversed. `PROJECT.json` ("hazards") lists them by line.

## 2. Modules

| Module | Models | State and actions |
|---|---|---|
| `KoboSums` | sums of kobo columns | `Total(f, S)` is the number of kobos in the amounts, as a cardinality, so that the proofs need no recursion |
| `CreditLedger` | the committed money rows and every transaction that writes them | `ledger`, `remaining`, `expiresAt`, `alloc`, `restored`, `expired`, `redemption`, `now`; one action per transaction: `Earn`, `Settle`, `AdjustCredit`, `AdjustDebit`, `ReverseCredit`, `ReverseDebit`, `ReversePair`, `ExpireDueCredit`, and the clock |
| `EarnDomain` | requests, keys, bodies, receipts | constants only |
| `EarnService` | what POST /transactions/earn promises: each request answered in one step | `outcome`, `record`, `elsewhere`, `reply` |
| `EarnRequests` | the handler with its separate database calls, conflicts and retries | adds `pc`, `tries`, `stale`, `eligible`, `evidence`; refines `EarnService` |
| `OfflineSync` | earn page, sync page, batch endpoint | composes `EarnService` with `submission`, `queue`, `awaited`, `phase`, `attempt`, … |
| `ApprovalOutcome` | what the approval workflow promises: one outcome, for good, and no effect of a refused request | `status`, `booked`, `acted`, `told` |
| `Approvals` | decideApproval, its idempotency record, the expiry worker, the policy comparison | `approval`, `receipt`, `redemption`, `booked`, `policy`, `record`, `completed`, `pc`, …; refines `ApprovalOutcome` |
| `FinancialRequests` | redeem, createAdjustment and reverse as requests | `outcome`, `record`, `stale`, `tries`, `pc`, … |
| `OutboxDelivery` | the outbox worker: recovery cycle, job handler, provider, delivery reports | `event`, `sms`, `claimed`, `job`, `owner`, `run`, `accepted`, `evaluated`, … |
| `PolicyConfiguration` | editing a policy and serving the cached public configuration | `saved`, `editor`, `cache`, `refresh`, `reader`, … |
| `DeviceSessions` | logins, sessions and the pairing of one device | `device`, `credential`, `session`, `attempt`, `challenge`, `request` |
| `CardLifecycle` | cards and customers | `customer`, `card`, `optedOut`, `notices`, `record`, `pc`, `gate`, `saw` |
| `…Proofs` | the theorems of nine modules; cards and configuration share one | |
| `MC…` | instances for TLC | |

`OfflineSync` uses `EarnService`, the promise, and not the handler: that
`EarnRequests` implements `EarnService` is both checked and proved. Definitions whose
comment begins with "Fault:" are wrong variants of the definition below them; no
specification uses them. They show that a property would notice the mistake
(`PROJECT.json`, "mutants").

**CreditLedger.** A ledger row is a record indexed by commit order; a lot is named by
the row of its credit entry, because `CreditLot.earnLedgerEntryId` is unique. A
transaction is one step because it runs at isolation level SERIALIZABLE, and the lots
it uses are read and locked inside it; one that is refused, or that aborts, is no step.
`planAllocations` walks the sorted lots with a running remainder; the model states the
result of the walk: lot *l* gives what is missing after `Ahead(lots, l)`, the contents
of the lots before it. `ExpireDueCredit` takes any part of the due lots up to the batch
size, because `FOR UPDATE SKIP LOCKED` skips what others hold. `Earn` covers the direct
earn and the execution of an earn approval (both write the same rows); `Settle` likewise.
Purchase times are free, since a supervisor may back-date a receipt. The outbox events that
the same transactions insert are not among the rows: no check of the ledger reads them, and
what becomes of one is `OutboxDelivery`'s.

**EarnRequests.** `Cleanup`, `LookUp`, `Open`, `Commit`/`Abort` and the three conflict
branches are the awaits of `earn` in their order. `Open` reads the snapshot (device,
card, receipt). At the end the unique indexes speak in the order of the writes, receipt
first; a serialization failure may be reported at any time, without a visible cause, as
PostgreSQL does. A crash (`Lose`) rolls the open transaction back. `Lapse` is the end of
a record's seven days. "REJECTED" stands for all refusals about device, card, branch,
amount or time.

**OfflineSync.** Every record of IndexedDB belongs to one online submission that failed
as far as the page could tell; the request may still arrive later, and a draft that
failed keeps its key, so one purchase can be saved twice. The server processes the
records of a call one by one: attempt row, validation, earn, stored answer, each a step
of its own. Connections break before or after the server has the call, the tab is
reloaded, and the process dies anywhere. Which validation fails is abstracted to "some".
`MapEarnFailure` may turn "REJECTED" into either class, as some codes of that group are
known to it and others are not. `ForgetKey` is the end of a key's seven days, which may come
while the purchase is still in the browser.

**Approvals.** A decision looks its key up, opens one SERIALIZABLE transaction that
inserts a PENDING record, and completes the record in a write of its own after the
commit, so a process can die in between. `Serializable` is what the isolation level and
the row locks leave possible at the commit. The worker's `Sweep` expires up to `Batch`
overdue approvals. Policies are versions: the environment's, and the branch's, if it has one;
`PolicyPermits` compares with the one the code compares with.

**FinancialRequests.** The three endpoints differ in how they meet a conflict, and each
way is modelled: the redemption looks for a completed replay and retries; the adjustment
waits for the winner's record; the reversal loops and looks again when it opens. What
the transactions do to lots and ledger is `CreditLedger`'s; here a refusal that depends
on balances may happen whenever a transaction opens. `EarnElsewhere` and
`ApproveSettlement` are the other services that take a receipt.

**OutboxDelivery.** Each database call, the call to the provider and the end of a job
is a step of its own. A job may be delivered again while its first execution still runs
(`Stall`), the worker may die anywhere (`Crash`) and Redis may lose its jobs
(`LoseQueue`). There is no clock: what waits for a threshold may happen at any time,
because nothing bounds how long a handler takes. A publication may fail before or after
the job is in the queue (`PublishFails`). Providers differ in what protects a
second submission: a reservation (Twilio), an idempotency key (eBulkSMS, Arkesel), or
nothing (Africa's Talking).

**PolicyConfiguration.** `saved` is the history of the branch's row; an editor saves
from the version on the screen. Readers share one cache and one refresh of one process;
every await is a point where the others run, so a load may finish after a save has
cleared the cache.

**DeviceSessions.** The handlers run READ COMMITTED: a first step keeps what was read
without the device's lock, a second is the transaction under it, with the conditions of
its updates. A device row carries the version of its HMAC secret, which rotation counts up
and enrolment clears; a session remembers the version that verified its login, and whether the
device had changed by the time an HMAC login committed (`late`). Cryptographic checks, expiry times and user administration only decide
whether a handler goes on (`GiveUp`).

**CardLifecycle.** Every endpoint looks its key up, reads the rows it depends on one
after the other (`Gates`), and runs one READ COMMITTED transaction: `Begin` is its
insertion of the key's record, which waits for another transaction that has inserted
the same one, and its second look; `Commit` and `Refuse` are the conditional update and
the unique indexes.

## 3. Runs

| Run | Instance | Distinct states | Shows |
|---|---|---|---|
| `credit_ledger` | 2 customers, 1 receipt, 5 ledger rows, clock 0..2, lots of one tick, batch of 2 | 445,000 | eight properties of the books over every order of transactions |
| `settlement_undo` | 1 customer, 6 rows | – | **violation**: one leg of a reversed settlement can be made to stand again |
| `earn_requests` | four requests: a twin, one with their key, one with their receipt; 2 attempts; fair | 149,000 | receipt captured once, answers that are the request's own and refusals with a cause, records kept, all answered, refinement of `EarnService` |
| `offline_sync` | one purchase saved twice, two overlapping calls, batch limit 1 or 2, one lost answer, crash or reload, or an expired key; fair | 956,000 | the device shows no more than the server holds; answers are final; the page loses no record and gets out of every batch |
| `offline_retries` | one record, fair | – | **violation**: a stored RETRYABLE answer is replayed for ever |
| `approvals` | an earn and a redemption approval, five decisions, one policy change; fair | 162,000 | rows agree, refinement of `ApprovalOutcome`, overdue approvals settle, decisions are answered |
| `approval_refusal` | one decision | – | **violation**: refused for a policy change that did not happen |
| `financial_requests` | seven mixes of three requests, 2 attempts; fair | 206,000 | one effect per body, one per receipt or entry, confirmations that are the request's own, refusals with a cause (but see the adjustments), records kept, all answered |
| `outbox_delivery` | five deployments (provider and events), 2 handlers, 2 faults, 2 retries; fair | 333,000 | one message per event, none completed unsent, fraud evaluated once, every event settles |
| `policy_configuration` | 2 editors, 2 readers, 2 saves, 1 outage; fair | 280,000 | no lost save, one load for all, the newest version comes back |
| `device_sessions` | 2 handlers, 3 sessions, 3 credentials, 2 attempts, 2 challenges, 2 nonces, 2 secrets | 3,387,000 | sessions follow the pairing and the secret, one active credential, proofs spent once |
| `card_lifecycle` | nine mixes of three requests on one customer's cards | 12,000 | one active card, replacements form chains, no status overwritten unseen, replays and conflicts with a cause |

**The ledger's properties.** `LotEvidence` is what the deferred trigger
`validate_credit_lot_balance_evidence_for_lot` demands, so it says that the trigger never
rejects a transaction of the services. `LedgerMatchesLots` says that the two books agree
per customer. `ReversalsRestoreInFull`, `WrittenOffForGood` and
`SettlementReversedAsUnit` relate debits, restorations, expiries and redemption rows;
`FirstExpiringFirst` and `OnlyExpiryTouchesLapsedLots` restrict single steps.

**What the replies are held to.** `RepliesTellTheTruth` of `EarnRequests` and of
`FinancialRequests` has three parts: a confirmation is the outcome of a request with the same
key and body; a refused request has taken no effect; and a refusal that names a conflict names
one that exists, a receipt that is used, an entry that is reversed, a key that another body has
taken, although it was seen some steps before. It does not say that a repeated request always
gets the first one's answer, nor that a conflict which an adjustment reports exists: the code
does neither (section 4). `RepliesTellTheTruth` of `CardLifecycle` asks the same of replays and
key conflicts only. `ApprovalOutcome` lets a decision be refused for any reason, but then it
has decided nothing.

**Bounds.** Five rows are enough for a credit, a settlement that writes two rows and its
reversal that writes two more, or for a reversal of a reversal of a reversal, or for a
debit over two lots followed by reversal and sweep. Two ticks with lots of one tick give
lots that are live, due and swept, and expiry before, at and after a debit. Amounts of 2
and 3 kobo make a debit cover one lot and part of another. Two customers are needed for
mixing them up, and a single receipt for the settlement pair (the properties are
per receipt, and transactions touch one). Retries are bounded by 2 where the code says 3:
two already give a first attempt that may be repeated and a last one that may not, and
the safety properties are proved for any number. Three requests hold both kinds of
conflict (key and receipt, or key and target) at once. For the queue, two records and two
calls are the smallest instance in which calls overlap on a record while another one is
processed. For the outbox, two handlers are a job and its stalled predecessor. For the
device, three sessions and credentials hold a login, its refresh and a re-pairing. For
the cards, three requests are two that race and one that changes what they have read.
The replay wait of the offline endpoint and that of the adjustments are one step that
may see an answer or not. Between them the passing runs fire every action.

**Mixes and constraints.** What the requests of `FinancialRequests` and `CardLifecycle`
ask for, the batch limit of `OfflineSync` and the deployment of `OutboxDelivery` are
chosen in `Init` and never change, so one run covers several instances. The constraints
named `Together` limit which requests arrive, or how many faults occur, in one behaviour.
Such steps carry no fairness, so no behaviour within the bound is made unfair by what is
cut off, and the liveness results are about whole behaviours. The exception is
`PolicyConfiguration`, where readers ask under fairness: `NewestIsServed` is there about
two readers and one administrator, and the half with two administrators is for safety.

**Symmetry.** Customers, and the handlers of a device, are interchangeable: no definition
tells them apart. Symmetry is used only where no liveness property is checked.

**Deadlock.** Checking it is off where the system really may stop: a full ledger at the
last tick, a till with nothing left to sync, requests that have all been answered, and an outbox
with nothing left to do.

**Fairness.** Everywhere: a request that was received is worked on (weak fairness on the
handler's own steps; the event loop and the database finish each call). In `EarnRequests`
and `FinancialRequests` it is on the steps of all requests together, which is weaker than
fairness to each and suffices, since every request takes finitely many steps.
`OfflineSync`: besides, the page reads the answer that is there, and a cashier with
something to sync eventually presses the button. `Approvals`: the worker's timer keeps
firing. `OutboxDelivery`: the recovery timer keeps firing; strong fairness on claiming an
event, because each cycle takes the oldest events first and so reaches every one that is claimable
again and again, and on giving a stale reservation up, because a reservation that
is met again and again is old in the end. `PolicyConfiguration`: time passes, and people
keep asking (strong, as a reader who waits cannot ask). No fairness is given to crashes,
losses, stalls, outages, reloads, policy changes, expiries of records or arrivals.

## 4. Findings

Kept as runs that TLC must refute:

1. *Settlement undo* (`src/modules/reversals/reversals.service.ts:713`). Reversing a
   settled receipt writes an ADJUSTMENT debit without a receipt. `reverse` accepts that
   debit like any manual adjustment, and gives the earn credit back while the redemption
   stays reversed. `docs/TRD.md:445`: "A paired settlement is reversed as a group;
   single-leg reversal fails closed for review."
2. *Offline retries* (`src/modules/offline-sync/offline-sync.service.ts:253`). RETRYABLE is
   stored as the answer of the attempt and returned to every retry.
   `docs/api/error-catalogue.md:21`.
3. *Approval refusal* (`src/modules/loyalty/loyalty.service.ts:3046`). An approval raised
   under a branch policy is compared with the environment's, and is refused with "Approval
   policy changed after the request was captured" (line 3053) although nothing changed.

Seen while modelling, in behaviours of the modules, but not kept as runs:

- A request that looked its key up before its twin committed, and opened its transaction
  after, finds the receipt in its own snapshot and is refused as a duplicate with fraud
  evidence; the other conflict paths look for a replay first (`loyalty.service.ts:732`, and
  `redemptions.service.ts:331` likewise). `docs/architecture/idempotency-policy.md:15`: "An
  identical replay returns the original completed response without a second effect."
- If the process dies between the earn call and the stored answer of an offline record, the
  attempt stays unanswered, later calls only wait for it, and the credited purchase is
  never confirmed to the device (`offline-sync.service.ts:210`; `docs/TRD.md:946`).
- decideApproval passes no branch policy to the check of an earn approval, so one raised
  under the environment's thresholds executes after the branch got its own
  (`loyalty.service.ts:2211`).
- The record of a decision that ended in an expiry, or whose completing write was lost,
  stays PENDING; the same decision repeated is answered IDEMPOTENCY_CONFLICT
  (`loyalty.service.ts:2427`).
- Every serialization failure of a decision is answered APPROVAL_ALREADY_DECIDED, also
  when the approval is still pending (`loyalty.service.ts:2434`).
- After a serialization failure `waitForAdjustmentReplay` finds no record, takes that for
  another body's and throws IDEMPOTENCY_CONFLICT; the retry of line 444 is never reached
  (`adjustments.service.ts:623`).
- The replay of a settlement reversal is checked against the ledger before the stored
  response is returned; once the compensating debit was itself reversed, it is answered
  with a review (`reversals.service.ts:1092`).
- A submission that throws after Africa's Talking took the message is submitted again
  (`outbox-worker.runtime.ts:713`): `OneMessagePerEvent` leaves this provider out.
- `markOutboxEventFailure` clears `deadLetteredAt`, so a late handler reopens a
  dead-lettered event (line 1385); a late handler writes FAILED over SENT (line 662); and
  `failedAt` of an earlier attempt stays on a sent message, which is then never polled for
  its delivery report (lines 1462 and 253).
- A worker that dies after the message is dead-lettered and before its event is, leaves the
  event PUBLISHED; when the job is lost too, nothing selects the event again (line 381).
  `EveryEventSettles` is therefore stated up to one fault.
- A login with an HMAC attestation reads the device and its secret before its transaction and
  looks at neither again (`auth.service.ts:225`). One that read them before the device was
  disabled, re-paired or given a new secret, and commits afterwards, opens a session. The guard
  does not let it work while the device is disabled or in another mode; after a rotation, or
  when the device is enabled again, it does. `SessionsFollowPairing` leaves such sessions
  (`late`), and what is refreshed from them, out of its first part.
- A request about a card or a customer that looked its key up before its twin committed finds
  the rows changed, or the twin's record in place of its own, and is answered with a refusal
  or an error and not with a replay (`cards.service.ts:739`).
- Two editors who save a branch's first policy both expect version 0; the second meets the
  unique index and gets a 500 instead of POLICY_VERSION_CONFLICT
  (`configuration.service.ts:133`).
- getPublicConfig dereferences the cache after awaiting the branch check, while an update
  may have set it to null (`configuration.service.ts:50`).

## 5. Proofs

All from the assumptions named in the modules (`ConstantsAssumption`,
`RequestsAssumption`, `AttemptsAssumption`, `DomainAssumption`, `FinancialAssumption`,
`OutboxAssumption`, `ConfigurationAssumption`, `SavedAssumption`, `CardAssumption`,
`BoundsAreNumbers`): types of the constants, that `None` is none of them, for the ledger that
rates, amounts and lifetimes are positive and row ids are ordered, for the requests that equal
bodies ask for the same, for the queue that a purchase is saved under the key of its draft,
and for the cards that the rows a behaviour starts from are in order (`InOrder`). Every
theorem holds for any number of requests, handlers, rows and attempts.

**CreditLedgerProofs**: `TypeCorrect`, `EvidenceHolds` (`LotEvidence`), `WriteOffIsFinal`
(`WrittenOffForGood`), `LapsedLotsOnlyExpire` (`OnlyExpiryTouchesLapsedLots`), `BooksAgree`
(`LedgerMatchesLots`), `ReversalsComplete` (`ReversalsRestoreInFull`),
`SettlementsReverseWhole` (`SettlementReversedAsUnit`), `SoonestExpiringSpentFirst`
(`FirstExpiringFirst`) and `PlanIsTheWalk`. The inductive invariant is built in three layers:

    LedgerInv == TypeOK /\ FreeRowsEmpty /\ OnlyLotsHoldMoney
                 /\ RestoredWithinAllocated /\ WrittenOffLapsed /\ LotEvidence
    RowsInv   == LedgerInv /\ ReceiptsOnSettlements /\ ReversesEarlier /\ DebitsCovered
                 /\ OwnLotsOnly /\ ReversalsInFull /\ StandingDebitsUntouched
                 /\ SettlementReversedAsUnit
    BooksInv  == RowsInv /\ LedgerMatchesLots

*The lots.* The type invariant alone is not inductive: `remaining` stays a natural number
only because a plan takes no more from a lot than it holds, and a restoration is a natural
number only because no more was restored than allocated. `FreeRowsEmpty` says that nothing
refers to rows not written yet, so a new entry starts clean; `OnlyLotsHoldMoney` that rows
which are not lots hold none; `WrittenOffLapsed` that only lapsed lots are written off and
that they are empty, so that `CanRestore`, which refuses lapsed lots, cannot refill one.

*The rows.* That a settlement is reversed as a unit needs that the rows of a receipt are
its earn and its redemption (`ReceiptsOnSettlements`) and that a reversal names a row
committed before it (`ReversesEarlier`), so that a new row is not reversed yet. That a
reversal gives back everything needs that before it nothing had been given back
(`StandingDebitsUntouched`); its amount is right because the allocations of a debit add up
to what it is booked at (`DebitsCovered`).

*The two books.* Each transaction changes a customer's ledger rows and the customer's lots
by the same sum (`BalanceKept` states what has to be shown of a step). For a debit this is
`PlanCoversAmount`: when the lots hold the amount, the plan adds up to exactly it. The walk
is not followed by induction. The lots a plan touches are finitely many and totally
ordered, so there is a last one (`LastLot`, from the number of lots before a lot); those
before it are taken whole (`PlanEmptiesEarlier`), so what was missing when the walk reached
it is what it gives. `OwnLotsOnly` keeps a restoration with the customer whose debit is
reversed; the rows of a sweep are numbered lot by lot, and `TotalRenumbered` equates
their sum with that of the lots. The lemmas on `Total` at the head of the module say how a
sum changes when one value changes, one summand is added, or the summands are renamed; they
come from the library's theorems on cardinality, since `Total` counts kobos.
`SoonestExpiringSpentFirst` is `PlanEmptiesEarlier` once more.

*The closed form and the loop.* `CreditLedger` states what each lot gives without the loop
of `planAllocations`. `PlanIsTheWalk` says that this is what the loop computes: with
`Missing(lots, amount, l)` for its variable `remaining` when it comes to lot *l*, the first
lot meets the whole amount, each lot gives the smaller of its content and what is missing,
the lot that directly follows (`Follows`) meets the rest, and something is missing after the
last lot, the case in which the code throws INSUFFICIENT_BALANCE, exactly when the lots hold
less than the amount. The lots being finite and totally ordered, this determines the loop.

**EarnRequestsProofs**: `EarnTyped`, `CapturedOnce`, `RepliesTruthful`, `RecordsKept` and
`EarnImplementsService` (every step of the handler is a step of `EarnService` or changes
nothing it sees). The inductive invariant adds that records point at captures made under
their key (`RecordsAreCaptures`), that only a request at its end has an answer and a capture
(`AnsweredAtTheEnd`), that a handler in the duplicate or key-conflict branch has a reason
(`ConflictsAreReal`), and that attempts are left whenever a transaction may open
(`AttemptsLeft`). `ConflictsAreReal` is what the refinement and the third part of
`RepliesTruthful` turn on: the conflict was seen in an earlier step, and must still justify the
refusal when it is given.

**ApprovalsProofs**: `ApprovalsTyped`, `RowsTellOneStory`, `AnswersTrue`,
`OutcomesAreFinal` and `ApprovalsImplementPromise`. Inductive only together with what a
handler carries from its commit to its answer: `ResultsStand` (a committed result is the
approval's outcome), `RecordsOfDecisions` (a completed record is that of a decision which has such
a result) and `StandsWhereItSays` (where a handler stands agrees with its result and reply).
The last is why a refusal is one of a request that decided nothing: a handler with a result is
past every place from which it could be refused. In the refinement a commit is `DecideBy`, the
sweep `Expire`, and an answer `Tell` or `Refuse`.

**FinancialRequestsProofs**: `RequestsTyped`, `BodyTakesEffectOnce`, `TargetsTakenOnce`,
`RepliesTruthful`, `RecordsKept`. The three safety properties support each other; they
need that an effect is the answer of a request that has ended (`EffectIsTheAnswer`), that a
record is that of a request which took effect under its key (`RecordsOfEffects`), that only
redemptions reach the receipt branches (`RedemptionsOnly`), that a request in a receipt or key
branch has met a used receipt or another body (`ConflictsAreReal`), and `AttemptsLeft`. A
redemption comes to the key branch only when its receipt is free, so the record it met is not
of its own body, which would name the same receipt (`TakenByAnotherBody`); and no step takes an
effect back, so what was met is still there when it is reported (`ReasonsKept`).

**OutboxDeliveryProofs**: `OutboxTyped`, `NoSecondMessage`, `NothingCompletedUnsent`,
`FraudEvaluatedOnce`. `HandlerPlaces` says which event a handler works on at each place,
`SentWasAccepted` that a message marked as sent was taken by the provider, and `Reservation`
relates the mark on the row, the handler that holds it and the number of messages accepted:
while one handler may still submit, none was accepted, and no other may submit.

**AdministrationProofs**, the two services in which people edit rows from what they saw on a
screen. *Cards and customers*: `ChainsHold` (`CardsFormChains`), `CardRepliesTruthful`
(`RepliesTellTheTruth`) and `SeenBeforeChanged` (`ChangesFollowWhatWasSeen`), by

    CardInv == CardTyped /\ InOrder(customer, card) /\ Announced /\ RecordsOfDone
               /\ HandlersInOrder /\ ReadsStand /\ RepliesTellTheTruth

A behaviour of `CardLifecycle` starts from a mix of requests, cards and customers.
`CardAssumption` demands of a mix that a card belongs to a registered customer, that a
customer has one active card at most, and that replaced cards name a successor of their own;
the proof shows that every transaction keeps this, so a mix may be any state an earlier
behaviour has come to. The rows alone do not carry the induction: a replacement writes over a
card that was read several steps before. `ReadsStand` says what such a read is still worth
when the transaction runs: the customer and the card are still there, and the handler
remembers the status it saw; that the card still has it is the condition of the update, and
that nobody else's card is the successor follows as the successor's row is new. `RecordsOfDone` ties
a key's record to a request that was carried out, which is why a replay and a conflict are
never reported without a cause. *Policy configuration*: `NoSaveIsLost` (`NoLostUpdate`) and
`OneLoadServesAll` (`SingleFlight`), inductive together with the types. The module extends
both specifications, so those of `PolicyConfiguration` have names of their own
(`ConfigSpec`, `ConfigNext`, `configVars`).

**DeviceSessionsProofs**: `DeviceSessionsTyped`, `OneActiveCredential`,
`SessionsEndWithPairing`, `ProofsSpentOnce`. One invariant per table says what a row
implies: `DeviceRow`, `SessionRow` (an active session is of the device's pairing and mode and,
unless it was opened late, of its HMAC secret),
`ProofRow` (what opened a session is spent), `ChallengeRow`, and for a handler between its
two steps `HandlerRow` (what it has read can only have changed in a way its second step
notices). The last is what the races turn on.

**OfflineSyncProofs**: `OfflineTyped`, `DeviceTellsTheTruth` (`DeviceShowsServerState`),
`NothingLeftSyncing` (`SyncingIsAwaited`), `AnswersStay` (`AnswersAreFinal`),
`SyncGoesThroughEarn` and `ShownPurchasesCapturedOnce`, by

    OfflineInv == ServiceInv /\ PageTyped /\ ServerInv /\ AnswersTrue /\ AbsentUntouched
                  /\ BatchComplete /\ DeviceShowsServerState /\ SyncingIsAwaited

What the device shows came a long way: earn's reply, the verdict of the owning call, the
attempt row, the answers of this and of waiting calls, the queue. `AnswersTrue` says of each
of these places that a capture told there took place, and no step takes a capture back
(`Kept`). `OneOwner`, in `ServerInv`, is the unique attempt row: one call at most works on a
record, and the record has no answer while it does, which makes answers final.
`AbsentUntouched` says that a record not yet saved is in no call, so that saving a purchase
cannot meet an old answer; `BatchComplete` that the call the page waits for still has each
of its records to do or has answered it, so that applying a complete answer leaves none
syncing. The earn service appears by what `EarnService` promises (`ServiceInv`), which
`EarnImplementsService` shows of the handler.

`SyncGoesThroughEarn` is that `OfflineSync` implements `EarnService`: whatever the page, the
network and the batch endpoint do, the service takes its own steps or none. A receipt is
therefore used once (`UsedOnce`), and together with what the device shows this gives
`ShownPurchasesCapturedOnce`: one request, with the record's key and body, captured the
receipt of a record that is shown as confirmed, cleared or awaiting approval, and nothing
else did. This is the promise end to end, from the device to the receipt row.

**Only model-checked.** Liveness: `EveryRequestAnswered` (earn and the three financial
endpoints), `EveryDecisionAnswered`, `OverdueIsSettled`, `BatchEnds`, `EveryEventSettles`,
`NewestIsServed`; the proof system has no rules for fairness. Every invariant and action
property of a passing run is proved.

## 6. Not modelled

The map covers about a tenth of the repository's implementation lines: the services that
hold and move the state. Of the rest, a quarter of the repository is one generated client
(`client/shopcity-client.ts`), and most of the remainder is web screens, controllers, data
transfer objects and read-only reports, which have no state to interleave.

- *Tenants, contents.* Every query is scoped to one tenant, and the model is one tenant. The
  contents of messages, names, SMS texts and rendering are left out. `addMonths` is a
  constant lifetime. All hosts and the database share one clock.
- *Web screens and the generated API client.* They keep no state but the offline queue.
- *Fraud rules and review.* That an event is evaluated once is checked; the rules are thresholds
  over aggregate queries. The decision on a flag is three separate writes without a
  transaction (`fraud-review.service.ts:222`), of which nothing holds that a single write does not
  already say.
- *Reports.* Rebuilt from committed rows each time and read by nothing else. Two weaknesses
  seen in reading: a tenant whose rebuild fails holds the sweep's cursor
  (`report-materialization.worker.ts:172`), and of two rebuilds, which serialise on an
  advisory lock, the one with the older `asOf` may write last
  (`report-materializer.service.ts:215`).
- *Credit expiry worker and reminders.* The sweep is an action of `CreditLedger`; what is
  left is a timer and messages whose delivery is `OutboxDelivery`'s.
- *Authentication.* Smoke and local test sessions, sessions of users without a device, user
  administration and the idempotency records of device administration.
- *Approvals* back-filled with the legacy policy version.
- *The queue.* Failures of IndexedDB (a write that fails while a batch is marked included), two sync pages on one device and one localId with two
  contents.
- *Reads.* Searching, listing and profile projections of cards and customers; health,
  throttling, audit and observability.

## 7. Plan

The modules of the plan are written: ledger, earn, offline sync, approvals, financial
requests, outbox, configuration, devices and sessions, cards and customers. Worth adding
next, in this order:

1. `CardLifecycle`: fairness for its handlers, and that every request is answered.
2. `ReportSweep` and `FraudReview`, once the code wraps the writes of a decision in a
   transaction and orders rebuilds by `asOf`, so that there is something to state.
