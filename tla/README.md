# Verification of Skyrict

Skyrict is a multi-tenant ERP: a `core` service (inventory, sales, finance, CRM, HR,
payroll, approvals), an `identity` service (accounts, sessions, roles), an `ai-agent`
service and a web application. All state that matters is in PostgreSQL; the services are
asyncio processes that run one database transaction per request, mostly at READ
COMMITTED, and rely on conditional UPDATEs, unique indexes and CHECK constraints instead
of explicit locks. What is hard in this code is therefore what happens *between the
statements* of requests that overlap. This project models those statements.

## 1. Inventory of the system

| component | state | operations | what makes it hard | correct when |
|---|---|---|---|---|
| Inventory ledger (`core/features/inventory`) | append-only `erp_stock_movements`, materialised `erp_stock_levels`, `is_active` of products and warehouses | adjust, transfer, reserve, release, fulfil, the whole-order methods of the stock port, archive and reactivate | every movement recomputes the level from the ledger while others do too; multi-line transactions lock several levels; replays race with their originals | levels equal the ledger, nothing is oversold, an order moves as a whole, a key is posted once, one alert per crossing, nothing reserved on archived items |
| Sales orders (`core/features/sales`) | `erp_sales_orders` and lines, credit marker | create, PATCH a draft, confirm, fulfil, cancel | reads come before the guarded UPDATE; a request calls three other components, one of which commits the transaction in the middle | status, stock, invoice and COGS entry of an order agree |
| Finance (`core/features/finance`) | invoices, payments, journal entries, periods, the inbox of receipts | invoice from an order, COGS entry, issue, approve, void, pay, accept, bulk accept, dismiss, undo, post, close a period | idempotent creation under a unique index; payments, batches and undos of one invoice overlap; an undo reads without a lock | one invoice per order, no invoice overpaid, nothing booked twice, the ledger tells what invoices and payments tell |
| Request session (`core/db/session.py`) | session, buffered events | commit, rollback, publish after commit | the publication is a task of its own that a crash loses | nothing rolled back is published |
| Approval workflow (`core/features/approval_workflow`) | instances, steps, audit trail, delegations, the tenant's flag | submit, decide, escalate; post or approve the document | decisions race with each other, with escalation passes that overlap, with voids and with a period close | an instance is approved exactly when it posted its document; steps are decided in order, once |
| Payroll and payroll automation (`core/features/payroll*`) | runs, entries, batches, items | enqueue, claim, process an item, retry, close; recompute, approve, void | several workers, SKIP LOCKED claims, process names that are shared or change, crashes in the middle of a batch | a closed batch is whole, its tally true; a batch ends |
| Notifications (`core/features/notifications`) | notifications, digests, deliveries | produce, batch, deliver, retry | producers race with the digest window | a notification is delivered or suppressed by a digest, not both |
| Audit log (`core/features/audit`, migration 0010) | hash chain per tenant | append | the trigger reads the newest row without a lock | the chain is linear |
| Projections (`core/features/rbac`, `provisioning`) | copies of identity's roles and tenants | find gaps, reconcile, cool down | two replicas reconcile at once; anomalies retried for ever | the copy converges |
| Identity sessions (`identity/features/auth`, `sessions`) | sessions with the hash of the current and the previous refresh token | login, refresh, logout, reuse detection, session cap | refreshes of one token race; grace window; revocation of a family | a benign race never logs out, a replay always does |
| MFA, passkeys, invitations, handoffs (identity) | one-use codes, challenges, tokens | issue, redeem | two redemptions race | each is used at most once |
| Organizations, members, roles, billing, HR, CRM, documents, reporting | rows | CRUD | little interaction | - |
| ai-agent, web, libs, infra, fabric, scripts | conversations, UI | model calls, rendering, deployment | not protocol code | - |

The components call each other inside one process. Sales calls inventory through the stock
port (`reserve_order`, `release_order`, `fulfil_order_lines`), which **commits** the
session, and finance through the invoice port (`create_from_order`), which does not, and
through the COGS port (`post_cogs_for_order`), which runs after that commit. Inventory and
sales publish events through the session's buffer after the commit. Approval decisions,
payroll and notifications are driven by requests and by polling workers.

## 2. Plan

Order: the most important behaviour first, that is, stock and orders, then money that comes
in, where goods and money are lost when a race goes wrong; then who may move it, and last
what runs in the background.

1. *(done)* `StockOperations`, `StockLedger`, `StockAccounts`, with `StockLedgerProofs`;
   `SalesOrders`, `OrderLifecycle`, with `SalesProofs`.
2. *(done)* `Receivables`, with `ReceivablesProofs`, and with `CollectionProofs` for what is
   summed; `SumTheorems`, what every module that adds up relies on.
3. *(done)* `RefreshTokens`: rotation, grace window, reuse detection, and the web process
   in front of them, with `RefreshProofs`.
4. *(done)* `ApprovalWorkflow`, with `ApprovalProofs`; `PayrollBatches`, with
   `PayrollProofs`.
5. *(open)* notification digests and the projections.

Every module that is proved about keeps to recursive functions and folds.

## 3. Modules

### StockOperations
The mutating methods of `InventoryService` as data: the sequence of ledger rows each posts
in its one transaction, and what it does before and with each of them (replay probe,
`is_active` checks, non-negativity check, conditional UPDATE). `reserve_stock`,
`release_reservation` and `fulfil_order` are the one-line cases of the whole-order methods.

### StockLedger
Any number of such operations, executed statement by statement. A request's control state
`pc` names the statement it is about to run:

| `pc` | code | action |
|---|---|---|
| `check` | `_reject_replay`, `_require_active_*`, `_current_on_hand`, `_assert_non_negative` | `Check`, `CheckFails` |
| `guard` | `apply_reservation_qty`, `apply_release_qty`, `apply_consume_qty` | `ApplyReserved`, `GuardFails` |
| `insert` | `add_movement` (INSERT ... ON CONFLICT DO NOTHING) | `InsertMovement`, `InsertConflicts` |
| `sum`, `select`, `write` | `recompute_stock_level` | `SumLedger`, `SelectLevel`, `WriteLevel`, `WriteFails` |
| `commit` | `commit()` | `Commit` |
| `announce` | `_emit_level_changed` | `Announce`, `LostAnnouncement` |

A statement sees what is committed when it starts plus the request's own writes (`View`,
`delta`). An UPDATE takes the row lock until the transaction ends (`lock`, with the
uncommitted row in `pend`). An INSERT of a key that an open transaction has inserted waits
for it (`KeyInFlight`). The flush of `recompute_stock_level` writes absolute values, and
only those columns that differ from what the SELECT loaded (`Flushed`). `DeadlockVictim` is
PostgreSQL's detector: a member of a cycle of waits is rolled back. `Lost` is a client that
disconnects or a process that dies. `ReadReserved`, `Deactivate` and `Reactivate` are the
archiving endpoints. Two observer variables are not code: `crossings` counts the times a
level really fell to its reorder point, `overlapped` records who ran at the same time as
somebody else. `ReservationsOnly` and `AlertsFounded` are not behaviour either: they state
which operations two of the properties are true of.

The SELECTs of the pre-checks of one movement are one step: they read committed rows and
write nothing, and what they read is either immutable (ledger keys), irrelevant to each
other (`is_active`), or kept (`before`).

### StockAccounts
What the ledger promises its callers: an operation moves all its accounts in one step (its
`Effect` on an account is a sum over its movements), and a key is posted once. `CoveredSpec`
adds that nothing is oversold.

### SalesOrders
Requests that create, PATCH, confirm, fulfil and cancel orders, again by statement: the
read of the header, of the lines, of the first active warehouse, the credit check, the
invoice probe and insert, the guarded UPDATE, the stock port, the COGS entry. The
whole-order stock methods are one step here, because `StockLedger` shows that they
implement atomic accounts; their ledger rows are kept per order (`reserved`, `released`,
`issued`), which is what their `ref_id` makes possible. `status`, `lines`, `customer`,
`credit`, `invoice` and `cogs` are committed rows, `holder` is the row lock of a header,
`inserting` an uncommitted invoice of the order. A second order competes for the stock.
Warehouses are numbered in the order of their names; opening one stands for creating,
renaming or reactivating it. Archiving one reads the reserved quantity (`ReadReservedAt`) and
flips the flag (`CloseWarehouse`) in two statements, between which orders move. Prices and credit limits are constants, stock is only moved by
orders, and an order has at most one line per product: two lines of one product give the
same ledger key, so `reserve_order` refuses such an order and it can never be confirmed. The
ledger rows of an order are told apart by warehouse, so `BilledAsShipped` says more than
that the quantities add up: all lines left, once each, from one warehouse.

Orders read before their guard, so they can be overtaken, and then what is reserved need not
be what is confirmed. `Undisturbed` names the overtakings that matter to the stock, `CheckStands` the one that
matters to the credit limit (section 5), `JobsApart` the clients who never cause one.

### OrderLifecycle
What the sales service promises: draft, confirmed, fulfilled or cancelled; lines fixed once
confirmed; billed and shipped in the step that fulfils.

### Receivables
Invoices from draft to paid or voided, payments, and the inbox of receipts that match money
to invoices. Each request is one transaction and runs by statement:

| `pc` | code | action |
|---|---|---|
| `idle` | the first read of each handler | `ReadInvoice`, `IllegalFlip`, `GetIntent`, `AlreadyResolved`, `BeginBatch`, `GetApplied`, `NotUndoable`, `Replayed` |
| `accrue`, `flip` | `approve_invoice`: revenue entry, guarded UPDATE | `Accrue`, `AccrualExists`, `Flip`, `LostFlip` |
| `prevalidate`, `get` | `_prevalidate_batch`, then `accept` item by item | `Prevalidate`, `PrevalidateFails`, `GetIntent` |
| `probe`, `lock`, `book` | `apply_payment`: probe by reference, `SELECT ... FOR UPDATE` and balance, INSERT with entry and status | `ProbeMisses`, `ProbeHits`, `Lock`, `NotPayable`, `Book`, `ReferenceTaken` |
| `load`, `stamp` | `update_payment_intent`: SELECT, then an UPDATE of the columns that differ | `Load`, `StampIntent` |
| `find`, `delete` | `delete_payment` | `Find`, `NothingToUndo`, `DeletePayment` |
| `reread`, `settle`, `rewrite` | `settle_invoice_payment_status` | `ReadStatus`, `Settle`, `WriteStatus` |

`work` is what a request wrote and has not committed; it sees `work` over the committed rows
and nobody else does. `holder`, `stamping` and `accruing` are row locks and unique keys in
flight. A slip is an amount with the instant it was paid at, which is what `source_ref` is
made of: two receipts with the same slip are one payment to the code, and in the model.
`met` is not code: it remembers who overlapped whom.

### RefreshTokens
The session row with its current and previous token, renewals as transactions of the
identity service, and in front of it the web processes: `rotateRefreshToken` answers a token
it has presented from memory, for ever, failures included. The tabs share one cookie.
`Answer` precedes `Commit` because `get_db` commits after the response was built; the answer
may be lost, the commit may be lost (`LoseCommit`), and a process may restart with an empty
memory. SQLAlchemy writes only columns that differ from what was read (`Rotated`), which is
what keeps a revocation from being overwritten. Only the first failure of a run is taken
(`mishaps`), a bound on the run. `mishaps` also records, for the properties alone, that
renewals overlapped, and that an update waited for the row while another rotation wrote it
(`Overtaken`): `rotate` then writes columns of two rotations. The map from 64 tokens to answers never evicts here: three
renewals do not fill it. A sign-out without an access token only clears the cookie.

### ApprovalWorkflow
A journal entry or payroll run, the instances submitted for it, their steps and the audit
trail of each step. `Submit` is what `post_journal_entry` and `approve_run` do with the
engine on or off; `Decide`, `ReadSteps`, `UpdateStep` are the reads and the guarded UPDATE
of `decide`; `Complete` and `Settle` the read and the guarded UPDATE of `complete_posting`
or `complete_approval`, in the same transaction; `Commit` writes all of it at once.
`ListOverdue` and `Mark` are a pass of the escalation worker: it lists the overdue steps, in
order of their due times, marks one after another and commits once. Every process runs the
worker and the command line can run a pass too, without any lock among them, so passes
overlap like all other requests. Two passes may list steps of one due time in opposite orders
and wait for each other; `DeadlockVictim` is PostgreSQL failing one of them, and `process_all`
rolling it back. Amounts and rules decide how many steps are approved at once
(`AutoSteps`); assignees and delegates decide who may act, which is a refusal without effect.

### PayrollBatches
One payroll run in the background: its batch, an item per employee, the workers' loops and
the calls of the tick endpoint, which all bear the name `manual-tick`. A tick claims the
batch and commits (`ClaimBatch`), computes item by item with a commit after each
(`ComputeItem`, `Checkpoint`), counts what is left (`CountClaimable`) and closes batch and
run (`CloseBatch`). `Fail` is an error that rolls back or a process that dies, `Restart` a
process that comes back under another name (host name and process number). `Recompute`,
`Approve` and `Void` are the payroll service meanwhile. A clerk is a call of `enqueue`; a second one
at the same time loses to the unique key of the batch or to the guard of `reset_batch`.

### MC modules
`MCStockReservations`, `MCStockMovements`, `MCSalesOrders`, `MCReceivables`,
`MCApprovalWorkflow` and `MCPayrollBatches` only give the constants small values;
`RefreshTokens` needs none, and `MCRefreshWindow` narrows its schedules for the one run with
five tabs. Definitions that end in an underscore and a fault
(`ApplyReserved_ReadOnly`, `LockInvoice_Plain`, ...) are what the code would be with a
plausible bug; they are not used by the specifications and serve to confirm that each
property notices it.

## 4. Runs

Passing:

| run | question | instance |
|---|---|---|
| `stock_reservations` | Do racing reservations, releases and fulfilments keep `TypeOK`, `LevelMatchesLedger`, `NeverOversold`, and implement `StockAccounts!CoveredSpec`? | 3 requests, 4 operations of two orders with two lines in opposite order, 2 units each, one product archived and reactivated: 472 374 states up to symmetry |
| `stock_liveness` | Does every request end although the two orders lock in opposite orders? | 3 requests, the two reservations, `FairSpec` |
| `stock_movements` | With adjustments and transfers: does the ledger remain an atomic account, does a request that overlaps nobody repair the level and alert correctly? | 3 requests, 5 operations on 2 levels, reorder point reached exactly |
| `sales_lifecycle` | Do requests of every kind bill what they ship, tell the truth, leave closed orders alone and follow the lifecycle? | 3 requests, 2 orders, 2 warehouses that open and close, 2 customers with different limits, crashes: 969 855 states up to symmetry |
| `sales_settled` | When drafts are not edited or cancelled while they are confirmed and the first warehouse stays the same: are reservations exactly the lines of confirmed orders, does every confirmed order stay within the credit limit, and does every request end? | 3 requests, 2 orders, 2 customers with different limits, no COGS account, `FairSpec`: 180 997 states |
| `receivables` | Can payments, batches and undos overpay, book twice or part the ledger from the invoices? Does every request end? | any 3 of 11 jobs, 2 invoices (one not yet approved), 2 receipts and a payment by hand, both orders of a batch, `FairSpec`: 113 756 states |
| `refresh_tokens` | Does the grace window absorb every replay of one token and no more, does one web process keep its session, does a revoked session stay revoked? | 3 tabs, a sign-out, 2 web processes, grace 1 of 2 ticks, one failure, `FairSpec`: 612 034 states |
| `approvals` | Is an instance approved exactly when it posted its document, with no step skipped and the trail telling one escalation and one decision at most, and does every request end, passes that deadlock included? | 2 requests at a time, without end; an entry with 2 submissions or a run with one, 2 steps of which 1 or 2 are automatic, `FairSpec`: 280 762 states |
| `payroll_batches` | Is a closed batch whole, its tally true, and does it end? | a loop and a tick, or two ticks of one name; 2 employees, one owed nothing, 2 attempts, 2 items a tick, 3 names, `FairSpec`: 228 087 states |

Violations, each a disagreement between the code and what its documentation says (details
and quotations are in `PROJECT.json` under `findings`):

| run | shows |
|---|---|
| `stock_drift` | two overlapping adjustments leave a level that is not the sum of its ledger |
| `receipt_undo` | an undo that overlaps a payment leaves an invoice paid that is not covered |
| `refresh_window` | two overlapping rotations leave a remembered token beside the deadline of another, and it is accepted after its own window. Five tabs on three processes, along the schedules of the state constraint in `MCRefreshWindow` |

### Races the passing runs leave open
Some properties that a reader may expect are false of the code. They are defined in the
modules; adding one to the configuration named here, with `Spec`, makes TLC print how it
fails.

| property | configuration | what happens | what the code or its documents say |
|---|---|---|---|
| `NothingReservedOnArchived` | `MCStockReservations` | a reservation commits between the SUM and the flag of an archiving | `docs/modules/inventory-warehouse.md:161`, "Blocked (409 `stock_reserved`) while any open reservation exists" |
| `OneAlertPerCrossing` | `MCStockMovements` | two movements that read the level before either posts alert twice or never | `inventory/service.py:19`, "reorder alerts fire ONCE per breach crossing" |
| `ReservedOnlyForConfirmed` | `MCSalesLifecycle` | a cancellation that read *draft* and wins after the confirmation keeps the stock reserved; so does a new first warehouse | `docs/modules/sales-crm.md:873`, "Cancel (confirmed) releases reserved stock" |
| `ConfirmedWithinCredit` | `MCSalesLifecycle` | a PATCH between credit check and guard | `docs/modules/sales-crm.md:870`, "order over `credit_limit` ... stays `draft`" |
| `FulfilledHasCogs` | `MCSalesSettled` | without the COGS account the request fails and the order stays fulfilled | `docs/backlog/finance-chart-of-accounts-gap.md:36`, "the fulfilment fails/rolls back" |
| `AppliedOnce` | `MCReceivables` | two acceptances of one receipt for two invoices both read it open | `payment_match.py:301`, "a resolved intent cannot be applied twice" |
| `BenignRaceSurvives` | `MCRefreshTokens` | the cookie of one web process is rotated twice before a tab of the other presents its own: within the grace, with nothing failing, the session is revoked for reuse | `sessions/service.py:199`, kept "so a benign race (two tabs, a dropped response) does not trigger reuse chain-kill" |
| `TrailChains` | `MCApprovals` | an escalation between the read and the guarded UPDATE of a decision | `engine.py:377`, "Audit the REAL previous state" |
| `ClosedPeriodHolds` | `MCApprovals` | the period is closed between the check and the UPDATE | `finance/service.py:12`, "posting into a closed fiscal period is rejected" |
| `NeverSharedBatch` | `MCPayrollBatches` | two calls of the tick endpoint bear one name | `payroll_automation/repository.py:170`, "concurrent workers never get the same batch" |
| `EntriesImmutable` | `MCPayrollBatches` | the run is approved between the computation and the write of an entry | `docs/modules/hr-payroll.md:52`, "Payroll entries are immutable once approved" |
| `SkipsReported` | `MCPayrollBatches` | the run keeps the skips of the last tick only | `payroll/service.py:914`, "so the run's analysis is complete" |

**Why the bounds are enough.** Three requests are the smallest number in which two race
while a third one holds what both wait for, or replays one of them. Two levels
are the smallest number in which lock orders can be opposed and a transfer has two ends.
Two units are enough for a reservation to be refused. Nothing in the code depends on larger
numbers, and the proofs below remove the bound for every safety property of the passing runs.
The counters that could grow (`alerts`, `crossings`) are bounded by the number of requests,
since every request runs one operation.

In `receivables` three requests let two
payments of one invoice meet an undo, and a batch meet two of its receipts; two invoices are
the smallest number that two batches can lock in opposite orders. In `refresh_tokens` the
third token is the first that is neither current nor previous. Two requests suffice for the
approvals because each starts again when it has ended, and every race there is between a
read and one other transaction, or between two escalation passes; two instances of one
document may wait at once, which is what two passes need to lock steps in opposite orders.
In `payroll_batches` two employees are a batch that can be
half done, and two attempts a retry.

**Symmetry** is over requests, and only in runs without liveness; the jobs of `receivables`
are enumerated up to the order of the requests instead.

**Deadlock checking** is off where a run ends when all requests have ended; `Receivables`
has an explicit last step, and is checked for deadlock.

**Fairness.** `WF(Step(r))`, weak fairness of the statements of each request that has
started. It is justified by the event loop, which runs every ready coroutine, and by
PostgreSQL, which executes every statement it is sent, grants a released row lock and
breaks a cycle of waits. Weak fairness is enough where each request runs once and each
holder ends. In `ApprovalWorkflow` requests start again and again, so a waiting UPDATE may be
disabled and enabled for ever: `SF(Progress(r))` says that row locks are granted in the
order they are asked for, and that a cycle of waits is broken, as PostgreSQL does. In
`PayrollBatches` the steps of a loop are
strongly fair one by one: a loop that fails at a step polls again, and no step fails every
time it is reached. Calls of the endpoint, arrival, failures, restarts, administrators and
the clock are not fair. In particular `BatchEnds` speaks of batches whose owner is a loop
that keeps its name: nothing resumes a batch in processing whose owner is gone.

## 5. Proofs

Each proof module extends the module it is about, states an inductive invariant, and proves
that it holds at the start, that every action keeps it, and that it implies the properties.
Each invariant was checked by TLC on the instance of the run before it was proved. No bound
remains: the sets of requests, orders, documents, levels, items and so on are arbitrary.

| module | invariant | theorems |
|---|---|---|
| `StockLedgerProofs` | `LedgerInv`, `PostedInv`, `AloneInv`, `AlertInv` | `TypeCorrect`, `LevelsMatchLedger`, `LedgerNeverOversold`, `OrderMethodsClaim`, `LedgerImplemented`, `CoveredImplemented`, `LoneCommitsSettle`, `LoneAlertsAlwaysMatch`, `MethodsFoundAlerts` |
| `ReceivablesProofs` | `BooksInv` | `LedgerAlwaysMatches`, `NeverBookedTwice`, `PaymentsOnRecognised` |
| `CollectionProofs` | `SessionInv`, `CollectInv`, `CoverInv`, `Origins`, `AccountInv` | `ReceivablesWellTyped`, `InvoicesNeverOverpaid`, `PaidExactlyAsCovered`, `ReceiptsAlwaysAccounted` |
| `ApprovalProofs` | `ApprovalInv` | `ApprovalTypes`, `ApprovedMeansDone`, `NobodyEverSkipped`, `TrailAlwaysTells`, `OnlyPassesDeadlock`, `DecisionsAlwaysStand` |
| `PayrollProofs` | `WholeInv`, `TallyInv` | `BatchTypes`, `ClosedAlwaysWhole`, `ClosedForGood`, `NeverTwoAtOneItem`, `TallyAlwaysTells` |
| `SalesProofs` | `SalesInv`, `SettledInv`, `CreditInv`, `ApartInv` | `SalesTypes`, `BilledAlwaysShipped`, `RepliesAlwaysTrue`, `ClosedForever`, `LifecycleImplemented`, `ReservedWhileConfirmed`, `ConfirmedAlwaysReserved`, `ReservationsMatch`, `CreditHolds`, `JobsApartUndisturbed` |
| `RefreshProofs` | `TypeInv`, `ReplayInv`, `WindowInv`, `KeptInv` | `TokensTyped`, `SessionsEndForGood`, `ReplaysAlwaysTolerated`, `WindowAlwaysAnchored`, `WindowsAlwaysOpenedOnce`, `SessionAlwaysKept` |

`SumTheorems` holds the lemmas about `SumFunctionOnSet` that the others cite: any element may
be taken out of a sum, a sum over two disjoint sets is two sums, a larger set of natural
numbers has no smaller sum. The fold behind it recurs over the subsets of a finite set, and
the library's induction theorems cannot be instantiated here; each fact is proved instead
from a smallest set of which it is false, which exists because strict inclusion of finite
sets is well-founded.

### Stock
Assumptions, all stated in `StockLedger`: `NoRequest` is not a request, operations are
non-empty sequences of movements, initial stock is a natural number at each level.
`LevelsMatchLedger` and `LedgerNeverOversold` have one hypothesis more, `ReservationsOnly`:
each movement either runs the conditional UPDATE on its level or directly follows one that
did. `OrderMethodsClaim` shows that it holds of `reserve_order`, `release_order` and
`fulfil_order_lines` for orders of any length. `adjust_stock` and `transfer_stock` do not
claim their level, and for them `LevelMatchesLedger` is false (`stock_drift`).

Neither property is inductive. The committed level and the committed ledger only meet again
at the commit; in between, the truth is spread over the uncommitted row, the uncommitted
ledger rows and the values a request has read. `LedgerInv` says of every request `r`:

* `ClaimFirst`: past the conditional UPDATE it holds the row lock of its current level, and
  keeps it until it ends;
* `PostedUnderLock`: it has posted to locked levels only;
* `PendingFollowsLedger`: the uncommitted row of a level it holds equals the ledger as `r`
  sees it plus `Ahead`, the quantity that has been applied to the row and not yet posted, or
  posted and not yet rewritten;
* `ReadIsCurrent`: the SUM and the row it has read are still what they would be if read
  now. This is where the lock matters: nobody else can commit to that level.

`LevelsBounded`, the CHECK constraint on committed rows, completes it. The proof has one
lemma per statement (`ApplyReservedKeeps`, `InsertMovementKeeps`, `WriteLevelKeeps`, ...) for
the request that runs it, `Untouched` for the others, and `RollbackKeeps` for every way to
fail.

`LedgerImplemented` and `CoveredImplemented` are the two refinements of `StockAccounts`. A
commit is the abstract step, everything else stutters. What makes it one is `PostedInv`: the
uncommitted rows and sums of a request are exactly those of the movements behind it
(`Tracks`), and no key is among the rows of two requests, nor among a request's and the
committed ones (`KeysApart`). The first refinement, of the ledger, needs no hypothesis; the
second, of the stored levels, has `ReservationsOnly`.

`LoneCommitsSettle` is about every operation, with drift left by others in the levels:
`AloneInv` says that a request that has met nobody is the only open one, that its reads are
current, and that each level behind it is already rewritten from the ledger, in its
uncommitted row or because it did not differ. `LoneAlertsAlwaysMatch` counts: `AlertInv` says
that each level fell to its reorder point as often as it had an alert, plus once for each
request that crossed it, has committed and has not announced it (`Owing`), and that what a
request reports as the level before is what the ledger said (`HasRead`). Its hypothesis,
`AlertsFounded`, is that an operation reads a level before it posts to it, never after, and
posts to it once; `MethodsFoundAlerts` shows that all five methods do, with any arguments
with which they can be committed at all, and TLC evaluates it on the operations of
`stock_movements`.

### Receivables
An invoice flips, payments appear and disappear, and each of that is first somebody's
uncommitted work. `BooksInv` therefore speaks of both halves:

* `WorkBalances`: what a request has written balances by itself: an entry per payment, an
  entry taken back per payment deleted, and only an undo deletes;
* `OnRecognised`: payments, stamps on receipts, and what requests have read and will write
  from, all belong to invoices that are approved or paid. It is kept because such an
  invoice never goes back to issued or void: every guarded UPDATE names the status it
  starts from, and `settle_invoice_payment_status` switches between the two only;
* `LockCovers`: whoever has booked and not committed holds the lock of the invoice;
* `References`: the slip of a payment in the making is not among the committed payments of
  its invoice, nor among the request's own. This is the unique index, which the probe alone
  could not replace.

`LedgerMatches` needs the second part because the revenue entry is written in the flip to
approved and must not be missing when the status is rewritten from a stale read.

`CollectionProofs` adds the amounts. `SessionInv` is about the sessions: a closed one has no
lock and no write, a written status is under the lock of its invoice, and whoever is open
together has met. `CollectInv` is what each request sees: the payments it sees of an invoice,
committed or its own, fit the total, and a request about to book has room for its payment
(`SeesEnough`). An undo deletes payments without the lock, but deleting only makes room.

That an invoice is paid exactly when it is covered is false once an undo overlaps another
request, so `CoverInv` is an implication from `Calm`: the status and the payments that a
request sees agree (`Agrees`), except for the invoice of an undo between its delete and its
rewrite (`Settling`), and a request about to book knows whether its payment settles the
invoice. The one hypothesis is that every total is positive: an invoice of nothing is covered
when it is approved, and stays approved in the code.

For receipts, `Origins` says where things come from: a payment from an item of the request
that made it, a stamp from a request that names the receipt. Then `AccountInv` holds of a
receipt whose requests did not overlap and whose slip nobody else pays: its payments are the
one its row names, in the committed rows and in the view of the one request that may be at
work on it (`SeesReceipt`), whatever happens to other receipts in the same batch.

### Approvals
`ApprovalInv` is the types, what the committed rows say (`RowsOK`), what each request knows
(`JobsOK`), and that requests are apart (`AllApart`). The rows alone are not inductive: a
decision is written from the instance and steps read before its guarded UPDATE. `JobsOK`
says which of that is still true at the commit, and why. A step that was once the current one
still is, or is decided (`Reached`), so a guarded UPDATE that finds the step undecided
finds the instance where it was; from then on the row lock keeps it so. `AllApart` is that
lock: two requests past their UPDATE are at different steps, different documents and
different new instances. It is also what keeps overlapping escalation passes from recording
one escalation twice: the one that marks a step holds its row until it commits, and the other
then finds the step escalated. `OnlyPassesDeadlock` needs only `JobsOK`: whoever is on a cycle
holds a row while it waits for another, and only a pass does. `NoReturn`, that no trail leads back to pending, is what makes
`TrailTellsDecision` inductive.

### Payroll
Two workers may share a batch and its name, so the batch does not protect its items; the
row lock of an item does. `MarksClaimed` says that the item a worker has computed is still
claimable when it marks it, which is true because of `OneWorkerPerItem`. Every mark either
leaves the item claimable or ends it for good, so what is drained stays drained:
`WorkersInformed` says so of a worker about to close, `ClosedDrained` of the closed batch.
`DoneHasEntry` is kept because the entry is written in the transaction that marks the item,
and a recomputation replaces entries and does not remove them. A re-armed batch starts with
new items; `ItemsAsArmed` says that nobody is at them then.

Counters are absolute values that a worker writes from its own count. Even in a shared batch
they never count too much (`NobodyOvercounts`), because an item that is paid, skipped or
given up stays so; in a batch that was never shared, the one worker's count is exact
(`AloneExact`), also after a restart, which resumes from the committed one.

### Sales
The stock port commits in the middle of `fulfil_order`, so status, stock and invoice of an
order become visible together or not at all, and everything the fulfilment writes then was
read or inserted before. `SalesInv` says what is still true of it:

* `HoldsOrder`: between its guarded UPDATE and its commit a request holds the row of its
  order, so the status its guard admitted is still there;
* `KnowsLines`: the lines a fulfilment read are the lines of the order. It read the order
  confirmed, and neither a PATCH nor another request changes the lines of an order that is
  no draft any more;
* `HasInvoice` and `Inserter`: it reaches its guard with an invoice, which it inserted
  itself and which nobody else can have committed, or which was committed before, in which
  case the order is fulfilled and its guard fails;
* `TellsTruth`: a success reported is one, since the statuses behind it only lead further.

With that, `LifecycleImplemented` maps every statement to a step of `OrderLifecycle` or to
none. `OthersKeep` is the frame: what a request does to its own order leaves what the others
rely on alone. A line's quantity is not zero (`_build_lines`), which is what makes an empty
set of ledger rows mean that nothing was shipped.

What is reserved follows the order only as long as nothing overtakes a confirmation, and
`ReservedWhileConfirmed` and `ConfirmedAlwaysReserved` (together `ReservationsMatch`) say
exactly that: `Spec /\ []Undisturbed` implies them. `Undisturbed` excludes the three ways in which the reads before a guard go stale
and matter: the lines are edited between the read and the commit of a confirmation; a draft
is confirmed while a request that read it as a draft is cancelling it, which then releases
nothing; the first active warehouse changes, so that a release looks where nothing is
reserved. Under it, `SettledInv` says that every order is reserved in the
first warehouse for its lines, released the same or not at all (`RowsSettled`), and that
requests know the place, and a cancellation whether there is anything to release
(`Informed`). Its further assumption is that there are finitely many warehouses.

The credit limit needs less. The check and the guard of `confirm_order` are two statements,
and `CheckStands` says that a confirmation that has got the row finds there the customer and
the total it had checked; `Spec /\ []CheckStands` implies `ConfirmedWithinCredit`
(`CreditHolds`). Nothing in the code looks, but that one comparison would be enough: an
edit before the check, or one that loses the guard, does no harm, since only the check leads
to the guard (`Cleared`) and an order past draft is not edited.

`JobsApartUndisturbed` gives the clients for whom both conditions are met whatever else
overlaps: warehouses stay, and an order that is confirmed is not also edited or cancelled.
The run `sales_settled` is such an instance; in `sales_lifecycle` both conditions fail.

Assumptions, stated in `SalesOrders`: the
special values are none of the values they stand beside, and the constants of the instance
are of their types.

### Sessions
`SessionsEndForGood` only needs the types and what `Rotated` writes. The two others are
conditional on the past of the whole run, and each condition can only be lost, never
regained (`KeysGiven`, `CalmBefore`), so the invariants are implications.

`ReplayInv`: while only the login's token has been presented, every row, committed, read or
found by an update, either is the first one or keeps the login's token until a grace after a
presentation that was trusted (`Kept`). No lock is needed for it. Two updates may mix their
columns, but all of them carry the same token, and each deadline that any of them carries is
anchored.

`WindowInv`, about any tokens: in a row that moved on, the remembered token was accepted
while current (`Opened`) and the deadline is a grace after such an acceptance (`Dated`); a
row a renewal found is known by its current token (`SameWindow`), which is what makes
"nobody rotated in between" a comparison of one column; and a decision found its token
current or within its window. That much holds whatever overlaps. That token and deadline
belong to the same acceptance (`Whole`) does not: the attempt to prove it failed at a
commit whose update had read an older row, and TLC shows the run (`refresh_window`). It
holds as long as the holder of the lock finds the current token it had read
(`WindowWhole`), which is what `WindowAnchored` assumes and `RecordKept` and `LockTaken`
carry from the update to the commit.

`KeptInv`: with one process and nothing overlapping there is one request at a time
(`OneByOne`), it presents the current token (`HoldsCurrent`), and a token that was minted is
current, has been presented, or is about to be committed (`Minted`). A token presented
before is answered from memory (`InMemory`), so what is presented is always current and
nobody is mistrusted, whatever answers are dropped, late or replayed.

### Only model-checked
Liveness, which is outside the prover's reach: `EveryRequestEnds` (stock and receivables),
`EveryOrderRequestEnds`, `EveryTabAnswered`, `RequestsEnd` and `BatchEnds`.

## 6. Not modelled

Amounts of money beyond what balances an invoice, taxes, discounts and currencies;
authorization and tenancy (every model is one tenant); message texts; read-only queries; the
catalogue CRUD of inventory; connection-pool exhaustion and replication, which are outside
the code. Components without a module are listed with their reason in `PROJECT.json`.
Several of them do have a protocol, and would come next:

* notifications: deduplication and digests, and the retries of the channel worker;
* the audit chain: the trigger reads the newest row without a lock, so two inserts may take
  one predecessor. There is nothing between the read and the fork to explore, so the hazard
  is listed without a model;
* the projections of roles and tenants: loops that compare two tables and repeat;
* HR and CRM: single-row updates; MFA, invitations and handoffs: single-use rows.

Left out of the modelled components, each because it changes none of the properties:

* *Stock*: the delivery order of events of two requests; the valuation.
* *Sales*: a line's COGS entry is skipped when the product's unit cost is zero; every unit
  cost is positive here. A request refused before it commits anything (a missing revenue
  account, an unknown customer, an invalid body) changes nothing and has no action.
* *Receivables*: registering receipts and scoring candidates, which only add open receipts.
* *Approvals*: a definition without steps, which its validation refuses (`dsl.py:203`); the
  engine's parameter that names a step, which no route passes
  (`api/v1/routers/approval_workflow.py:95`); who may act, which is a refusal; editing a
  definition, which does not touch instances; the routing suggestions of the AI agent, which
  add a transition *suggestion* to the trail and touch no step and no instance
  (`ai_routing.py:238`): the trail here is that of decisions and escalations.
* *Payroll*: `PermanentBatchItemError`, which a batch without a payroll run would raise
  (`payroll_automation/service.py:431`), and nothing enqueues one; the completion notice, sent after the last commit and lost with the process;
  the cron schedules, which call `enqueue`; paying out an approved run.
* *Sessions*: the cap on sessions at login, revocation of all sessions of a user (the same
  UPDATE as the one modelled, for more rows), and the status *expired*, which `refresh`
  writes in a transaction that its own exception rolls back.
