# A TLA+ model of the DIAN electronic invoicing API

The program is a NestJS API that issues Colombian electronic invoices: it numbers
them, signs them, sends them to the tax authority (DIAN) through BullMQ queues and
follows what DIAN decides. Around that it keeps a point of sale, credit and debit
notes, subscriptions, credentials and notices to customers. This directory holds
TLA+ modules of its stateful core, the configurations that check them with TLC, and
proofs checked by TLAPS. Paths are relative to the repository;
`invoices.service.ts:386` and the like are under `src/src/`.

## 1. Inventory

| Component | State | Operations | What makes it correct |
|---|---|---|---|
| Issuing invoices (`invoices.service.ts` `create`, `idempotency.service.ts`, `numbering-ranges.service.ts`) | tables `invoices`, `numbering_ranges`; row locks; the connection pool | `POST /invoices`, `POST /numbering-ranges` | one invoice per idempotency key, unique numbers, no gaps, every request answered |
| Outbox relay (`outbox-relay.service.ts`) | `outbox_events`, the batch in memory, `isProcessing` | cron every 10 s: read the oldest 100, add a job, mark | no event lost, no second dispatch, every event dispatched in the end |
| Submission processor (`dian-submission.processor.ts`) | `dian_submissions`, queue `dian-submission`, `dian_dlq` | `process`, `onFailed` | requests to DIAN bounded by attempts, a dead letter for each permanent failure and for nothing else |
| Status processor (`dian-status.processor.ts`, `dian-response.service.ts`) | `invoices.status`, queue `dian-status`, queues `mailer`, `webhooks` | `process`, `onFailed` | final statuses backed by DIAN, customers told only of accepted documents, tenants of what the last reply calls for |
| Retry and dead letters (`retrySubmission`, `dlq.service.ts`) | the tables above | `POST /invoices/:id/retry`, `POST /dlq/:id/retry` | a retry does not confuse the running jobs |
| DIAN SOAP client (`dian-soap.client.ts`) | none | `sendBillAsync`, `getStatus` | its callers survive lost answers |
| Credit and debit notes (`credit-notes.service.ts`, `debit-notes.service.ts`) | `credit_notes`, `debit_notes`, `numbering_ranges`, `outbox_events` | create | one note per key, unique numbers, gaps only where a note was lost, a repetition gets the first note |
| Point of sale, cash, inventory (`pos.service.ts`, `cash.service.ts`, `inventory.service.ts`) | `products.stock`, `inventory_movements`, `cash_sessions`, `cash_movements`, `cash_registers` | sale, movement, open and close a session, list and delete registers | stock equals its kardex, a closing counts every sale, every request happens at one instant |
| Subscription billing (`billing.service.ts`, `webhook.controller.ts`, `billing-suspension.service.ts`) | `subscriptions`, `billing_events` | trial, change of plan, cancellation, payment webhook, daily cron | no stale save makes a subscription active, what is acknowledged is recorded and applied, trials end |
| Login, refresh tokens, PINs (`auth.service.ts`, `refresh-token.service.ts`, `pins.service.ts`) | `users`, `refresh_tokens`, `user_pins` | login, refresh, logout, revoke-all, verify and set a PIN | no early lock-out, a consumed token is never usable again, reuse revokes the family |
| Webhook delivery, mailer (`webhooks.processor.ts`, `webhooks.service.ts`, `mailer.processor.ts`) | queues `webhooks`, `mailer`, `webhook_endpoints`, `webhook_deliveries` | jobs; add and delete endpoints | one endpoint keeps nothing from the others, a deleted one is not called, all jobs end |
| Validations, `Money`, amounts of the CUFE and the XML (`validations.service.ts`, `money.vo.ts`, `xml-builder.service.ts`) | none | `validateInvoice`, totals, rounding | what passes is off by no more than its tolerances; CUFE and XML state the same amounts, and these add up |
| RADIAN events (`radian.service.ts`) | `radian_events`, `dian_submissions`, `outbox_events` | emit an event | never reached: it reads a column `software_pin` that does not exist and fails before its first write |
| Onboarding | none of its own | test set: invoices and notes in sequence | |
| The rest of the XML, signing, PDF | none | pure functions | |
| Tenants, RLS, guards, catalogs, customers, products, quotations, payments, reports | single rows | CRUD | tenant isolation |

Interactions. `create` inserts, in one transaction, the invoice, its first
submission (if it could be signed) and an outbox event; a sale and a note are
documents of the same numbering ranges. The relay turns events into jobs whose id
is derived from the event. A submission job sends the zip and adds a status job for
the TrackId; the status job polls DIAN, writes the invoice and adds a mail and a
webhook job. `retrySubmission` adds a job directly, past the outbox; `retryDlqItem`
goes through the outbox. All of them share the rows of the invoice, without locks or
versions. The billing cron and the webhook of MercadoPago, and the requests of one
user, save whole entities they read earlier.

Hard behaviours. Several API processes and workers interleave at each `await`; a
worker can die and BullMQ requeue its job; answers of DIAN get lost; the relay
may act on a stale batch; the jobs of one invoice may run together; transactions
wait for row locks, unique indexes and pool connections, and deadlock; `save` of a
stale entity undoes what others wrote.
The hazards are listed in `PROJECT.json`, each with its line.

## 2. Plan

Done, in this order: **Emission** (the pipeline after the commit) with its abstract
`Delivery`, **Issuance** with its abstract `Ledger`, **Sales** with its abstract `Shop`, **Notes**, **Billing**,
**Credentials**, **Notices** (the consumers of what the status job announces),
**Validations**. All have proofs, of every safety property a run checks.

Left:

1. Onboarding as a sequence over Issuance and Notes, once it reads ids where they
   are; RADIAN, once it can write.

Each module takes its parameters as CONSTANTS with a named assumption, has one
action per awaited call (or per transaction, where nothing inside can be told apart),
and no RECURSIVE operator.

## 3. Modules

| Module | Models |
|---|---|
| `BullJob` | a BullMQ job: attempts, stalls, retention. External code, modelled from how the processors rely on it |
| `EmissionStore` | the tables, queues and process states the pipeline shares; its constants and bounds |
| `OutboxRelay` | `OutboxRelayService.processOutbox` and `processEvent` |
| `SubmissionProcessor` | `DianSubmissionProcessor.process`, `onFailed` |
| `StatusProcessor` | `DianStatusProcessor.process`; DIAN's decision |
| `Emission` | `create` (its commit), `retrySubmission`, `retryDlqItem`; the composition, fairness, properties |
| `Delivery` | abstract: a document is owed, started, released, ruled of, settled and told of |
| `Ledger` | abstract: a book of invoices with consecutive numbers and unique keys |
| `Issuance` | `executeWithIdempotency`, `create` up to its commit, `reserveNextNumber` |
| `Shop` | abstract: each sale, movement, opening and closing at one instant |
| `Sales` | `createSale`, `createMovement`, the sessions and registers of `CashService` |
| `Notes` | `create` of both services of notes, `reserveNextNumber` on its own connection, invoices of the prefix |
| `Billing` | `BillingService`, the webhook controller, the cron |
| `Credentials` | `login`, `refresh`, `logout`, `revoke-all`, `RefreshTokenService`, `PinsService` |
| `Notices` | the tail of the status job, `MailerProcessor`, `WebhooksProcessor`, `WebhooksService` |
| `Validations` | `validateInvoice` on the totals of `create`, `Money`, the amounts of the CUFE and of the XML |
| `IssuanceProofs`, `EmissionProofs`, `SalesProofs`, `NotesProofs`, `BillingProofs`, `CredentialsProofs`, `NoticesProofs`, `ValidationsProofs` | theorems about the module they are named after |
| `MCEmission`, `MCIssuance`, `MCSales`, `MCNotes`, `MCBilling`, `MCCredentials`, `MCNotices`, `MCValidations` | the instances TLC checks |

Correspondence, in general. An action is one awaited call with the assignments up to
the next one; `pc` says at which call a request stands. A request names the row it
inserts. A rejected call goes where the surrounding `try` sends it; a crash loses local
state. What a statement sees is what is committed when it runs (READ COMMITTED);
`holder` has the row locks of `FOR UPDATE`, and a unique index also counts
uncommitted rows. Definitions under the comment "Faulty variant" are not part of the
specifications: each is an operator with a plausible bug, with which the property
named in `PROJECT.json` is violated.

`Emission` and its parts.
- A variable of `EmissionStore` is a table or queue; a row is `absent` until it is
  inserted, and ids follow `createdAt`. Tables that are read by key only keep the
  columns some handler branches on.
- `job[s].pc` and `statusJob[t].pc` are where the processor stands, `caller[c]` and
  `relay[r]` are local variables of requests and of the cron.
- `CreateInvoice` is atomic: it is one transaction, and what happens inside it is
  the subject of `Issuance`. Its two branches are whether a submission was made.
- `Delivery` is what the pipeline promises of one document. In the mapping (end of
  `Emission`) a document is owed while its creation event is pending; its work is
  the job of its first submission: none yet, running, over, or forgotten by Redis; its
  rulings are what DIAN decided of its requests so far; its standing is its status, where
  everything but `accepted` and `rejected` is open. Work starts only for what is owed
  or was forgotten, what is owed is released only once there is work, and a standing, a
  reopening or a notice needs a ruling that says so.
- DIAN is external: it receives requests (`dian`), decides of each once
  (`DianDecide`), and may answer, refuse, or lose its answer. Its replies are
  assumed well formed; a reply with no status code would count as a rejection
  (`dian-soap.client.ts:266`).

`Issuance`.
- `row`, `number` are what a request reserved, `inserted` and `committed` say how far
  its invoice got. A default range is named by the request that inserted it and joins
  `active` on commit. `ReserveFrom` waits for and takes the row locks of every active
  range of the prefix, as `FOR UPDATE` does before TypeORM's `getOne` drops all rows
  but one. `Insert` is enabled when no uncommitted or committed row clashes;
  `InsertKeyTaken` and `InsertNumberTaken` are the two unique violations.
- Invoice numbers are prefix and ten digits, a fixed width, so the unique index
  compares prefix and number (`SameNumber`).
- `Free` counts connections: a request in its transaction keeps one, and steps that
  read through injected repositories need a second.
- `validateInvoice` is taken to return. As `create` calls it today it throws
  (`MCValidations`, section 4); `Issuance`, `Emission` and `Notices` say what the
  code around it does for invoices that get past it, `Fail` covers those that do not.

`Sales`.
- A product's row is its `stock`, its movements are summed in `kardex`, a session's
  in `cash`. `seen[q][p]` is the entity read when the lock was taken. The lines of a
  sale are three numbers per product: their sum, the last (the write that stays) and
  the largest (the one the check may refuse).
- `createMovement` locks its product with `findOne` and a condition on the tenant, which
  TypeORM turns into a LEFT JOIN ... FOR UPDATE, and PostgreSQL refuses that:
  `MoveJoinRefused`. `MoveLock` and `MoveCommit` are the transaction once the query is
  accepted (a condition on `tenantId` would do), so that the properties hold with and
  without movements.
- `LockProduct` locks one row of the `IN (...)`, in any order; `DeadlockVictim` is
  the transaction PostgreSQL aborts in a cycle. `SaleCommit` is everything after the
  INSERT of the invoice: nobody else sees or blocks any of it. The number of the POS
  invoice is reserved as in `Issuance`.
- A sale repeated under its key gets the error of the unique index, not the first
  answer: `createSale` does not use `IdempotencyService`.

`Notes`.
- Both services are one set of actions; `SameKind` keeps their tables apart. The
  reservation is a transaction of its own: `Reserve` takes the next number at once,
  after any invoice that holds the rows; two requests that find no range insert
  two defaults (`ReserveNone`, `ReserveDefault`), so numbers may collide, and
  `InsertNumberTaken` refuses the second. An invoice that finds none inserts one too
  (`IssueDefault`), which the notes see once it commits.
- The schema is that of the entities. `uq_credit_notes_tenant_prefix_number`, its twin of
  the debit notes and the column `prefix` they need are in the decorators only: no
  migration creates them, and `synchronize` is on in development alone
  (`app.module.ts:104`). Where the migrations made the tables, an INSERT of a note fails
  for want of the column, so that there is no note whose number could collide.
- `SignAndSubmit`: with an active certificate the submission names the id of the
  note as its invoice, its foreign key refuses that, and the transaction ends.

`Billing`. `copy[a]` is the entity an actor read; a save writes it back with one change.
TypeORM's save reads the row again and writes the columns that differ: the two are one
step here, so a row of two saves mixed column by column is left out.
`Approve` and `TrialEnds` are MercadoPago and the clock. Nothing writes `past_due`,
so the second loop of the cron finds nothing and is left out.

`Credentials`. One user. `copy` as above: a wrong attempt writes the count, and the
secret, it read. A token is named by the request that issues it, `origin` is the
login its family goes back to. `Consume` is the conditional UPDATE; `FamilyRead` and
`Revoke` are two calls, between which tokens appear. `consumed_at` and `revoked_at` are
apart: a token with both is `spent`, and its reuse still revokes the family (`Used`). Time is `LockEnds` and `Expire`.

`Notices`. A run of the status job is numbered (`Runs`) and names the mail and the
webhook job it adds, if it gets there: an acceptance without XmlBytes (`reply` is
`"bare"`) and an ApplicationResponse that rejects (`StatusParse`) complete it before. A
mail job throws where it builds its document (`MailBuild`). A webhook job reads the endpoints, then loops: `Insert`, `Post`,
`MarkSuccess` or `MarkFailed`. `Delete` takes the deliveries along, and the foreign
key refuses an INSERT for a deleted endpoint.

`Validations`. Amounts are whole grains, some of which make a cent: what `Money`
computes exactly stays exact, what is rounded with `toFixed` or `parseFloat` is
rounded here: `Fixed` in decimal, where a half goes up, `Nearest` and `Printed` in
binary, where it goes either way. The checks run in their order and stop at the first
failure. `BuildXml` is for tenants that sign; its document is its amounts. With the
totals as strings, as `create` passes them today, nothing is accepted, so what
`MCValidations` checks of accepted requests is about totals passed as numbers, as the
interface declares them.

## 4. Runs

`tlc -workers 2 -config MCEmissionCrash.cfg MCEmission`, and so on; a module with one
configuration has its name. `TypeOK` of the modules with proofs is proved (section 5).

| Run (`.cfg`) | Checks | Distinct states |
|---|---|---|
| `MCEmissionCrash` | `RequestsAreCounted`, `NotifiedOnlyIfAccepted`, `NoSecondDispatch` with two relays, 2 attempts, a crash, failing calls | 0.70 M |
| `MCEmissionCallers` | `StatusBacked`, `AgreesWithDian`, `DlqOnlyAfterExhaustion`, `ImplementsDelivery` with two callers, retries beside running jobs, a crash, an eviction | 2.33 M |
| `MCEmissionLive` | `PermanentFailureReachesDlq`, `EventuallyDispatched`, `JobsSettle` under fairness, batch = backlog, a caller, an eviction, no crash | 82 k |
| `MCIssuance` | `OncePerKey`, `NumbersUnique`, `RangeGapFree`, `NoSpuriousError`, `ImplementsLedger`, and under fairness `AllAnswered` | 0.31 M |
| `MCSales` | `KardexMatchesStock`, `ExpectedCountsEverySale`, `SessionsKeepTheirRegister`, `ImplementsShop`, and under fairness `AllAnswered` | 0.25 M |
| `MCNotes` | `OncePerKey`, `NumbersUnique`, `GapsAreLostNotes`, `ReplayReturnsNote` | 0.11 M |
| `MCBilling` | `ActiveIsEarned`, `RecordedIsApplied`, `AckedIsRecorded`, and under fairness `ExpiredTrialsEnd` | 0.78 M |
| `MCCredentials` | `LockedOnlyAfterFailures`, `OneUsablePerLogin`, `DeadStaysDead`, `ReuseRevokesFamily` | 0.38 M |
| `MCNotices` | `CompletedServesAll`, `DeletedHearsNoMore`, and under fairness `AllSettled` | 1.25 M |
| `MCValidations` | `DriftBounded`, `CufePartsAddUp`, `XmlStatesTheCufe`, `XmlAddsUp`, with the totals as numbers and as strings | 0.14 M |

Two runs find a disagreement between the code and what the repository says of it:

| Run | Violated | What happens |
|---|---|---|
| `MCIssuancePool` | `AllAnswered` | As many transactions as connections, each waiting for another. The 30 s interceptor answers 408, but the handlers and their connections stay stuck. |
| `MCValidationsTotals` | `ValidIsAccepted` | `create` passes its totals as strings; `validateInvoice` adds two of them, which joins them, and calls `toFixed` on the result, which throws. No request that reaches the check becomes an invoice. |

What else the modules show of the code, where no run states it as a property:
- An event of a document without a submission stays pending and oldest; 100 of them
  fill each batch, and later invoices are never sent (`outbox-relay.service.ts:40`).
  `EventuallyDispatched` therefore holds for a batch as large as the backlog only.
- The status processor accepts an invoice, then may read an ApplicationResponse that
  rejects it (line 85), though nothing leaves `accepted` in
  `INVOICE_STATE_TRANSITIONS` (`invoices.service.ts:66`).
- An accepted reply without XmlBytes, and one whose ApplicationResponse rejects, complete
  the status job with neither mail nor webhook (`dian-status.processor.ts:65`, `78-87`).
  `AllSettled` asks for a webhook job of the other replies only.
- No mail is ever sent: `mailer.processor.ts:56` calls `toISOString` on `issueDate`, a
  column of type `date`, which TypeORM reads as a string.
- No movement of stock is ever stored on PostgreSQL (see `Sales` above).
- A worker that dies between the last failure and the `dian_dlq` row leaves none, and
  so does a database that does not answer. `PermanentFailureReachesDlq` allows one
  missing row per crash, and speaks of a database that answers.
- Once the retention has deleted a finished job its id is free: a relay with a stale
  batch sends the document again, with all its attempts. `RequestsAreCounted` and
  `DlqOnlyAfterExhaustion` count one more allowance, and one more letter, per eviction.
- The event a dead letter's retry inserts has a type the relay does not know, so it
  is marked failed and no job comes of it.
- A repeated `POST /invoices` is answered with `responseSnapshot`, which `create`
  never writes; notes do write theirs (`ReplayReturnsNote`).
- Wrong attempts that race lose counts, and a PIN verified beside a change of it
  brings the old PIN back: only that nobody is locked out early holds.
- A change of plan that read a subscription before the payment was applied takes the
  status back, and a change to a paid plan keeps the status it read; a payment delivered twice at once is applied and recorded twice.
- Two lines of one product overwrite each other's stock; two requests of one user
  open two cash sessions.
- A line with a rate of 0 is validated as such, then stored and printed as 19
  (`taxPercent || 19`, `invoices.service.ts:353` and `470`).
- `README.md:15` promises rounding `HALF_EVEN`; `Money` rounds `HALF_UP` unless told
  otherwise. `Validations` follows the code.

Bounds, and why they are enough.
- `Emission`: one invoice shows every race over its rows, since no handler relates two
  invoices; two are used where a batch is shared. Two relays, two callers: the races
  are pairwise. Two attempts exercise a retry and its exhaustion. One crash requeues
  the job in `MCEmissionCrash`; in `MCEmissionCallers` (`MaxStalled` 0: a job that has
  used up its stall) it fails it. One eviction, in the runs with callers, frees the id
  of a job while a relay may hold its event. `MaxSends` 2 allows one repeated request; an
  instance that needs a third stops there, so what follows it is not explored.
- `Issuance`: four requests with two pairs of equal keys (a repetition, and a key
  reused for another payload), no range at the start, two overlapping ranges created
  while requests run, and few enough numbers to exhaust one.
- `Sales`: three sales over two products in two sessions, two of them with one key,
  two that lock both products (and deadlock), one with two lines of a product; a
  movement that takes out, an opening, two closings of one session, the deletion of
  the register the opening uses and a listing that inserts one. Payments off by one
  (accepted) and by two (refused).
- `Notes`: two credit notes and a debit note with equal keys and payloads, an equal
  key only, or different keys; an invoice beside them; no range, a default one of
  three numbers, a certificate that arrives meanwhile.
- `Billing`: one payment notified twice, two trials, a change, a cancellation, one
  cron. A forged delivery takes one step and touches nothing.
- `Credentials`: a login, two verifications and a new PIN with a limit of 2; two
  refreshes, a logout and a revocation of all: reuse needs two requests with one cookie.
- `Notices`: each verdict; two attempts and one stall of the status job, so up to three mail and
  webhook jobs; one endpoint that stays, one added and deleted; two faults.
- `Validations`: every request of up to two of twelve lines and eight tax totals, with
  each field at and beyond its limit, and one with a line too many. A cent is four
  grains, so that sums end in a quarter, a half or none.

`CHECK_DEADLOCK FALSE` is set since these systems end when all work is done. Symmetry
is over relays or callers, which no property names, and in safety runs only.

Fairness.
- `Emission`: weak fairness of each relay's steps (the cron fires every 10 s and its
  loop has no other wait), of each submission and status job's steps (BullMQ workers
  poll, and delayed retries become due). None of callers, DIAN's decisions, faults
  and crashes, which are off in the live run.
- `Issuance`: weak fairness of each request's steps: the event loop and PostgreSQL
  serve whatever can be served. A lock or connection that is awaited is taken in the
  order of the code's own queues, so no strong fairness is used.
- `Sales`: weak fairness of the whole: some request that can be served is. Each
  takes finitely many steps, so that none is left where it could go on.
- `Billing`: weak fairness of the requests together and of each cron, which runs daily.
- `Notices`: weak fairness of each queue: some process keeps a worker of it.
- `Credentials`, `Notes`, `Validations`: none; their properties are about safety.

## 5. Proofs

Each `tlapm XProofs.tla` checks its theorems for every value of the constants, from
the assumptions of the module alone (names disjoint, numbers natural), with faults and
crashes. `Invariance` is `Spec => []IInv` in each (`[]Inv` in `ValidationsProofs`).

| Module | Theorems: what they state |
|---|---|
| `IssuanceProofs` | `TypeCorrect`: `TypeOK`; `IdempotencyHolds`: `OncePerKey`; `NumberingHolds`: `NumbersUnique`; `GapFreeHolds`: `RangeGapFree`; `ErrorsExplained`: `NoSpuriousError`; `Refinement`: `ImplementsLedger` |
| `EmissionProofs` | `TypeCorrect`, `OutboxSafe`: `OutboxNeverLoses`; `DispatchSafe`: `NoSecondDispatch`; `StatusSafe`: `StatusBacked`; `NoticesSafe`: `NotifiedOnlyIfAccepted`; `AgreementSafe`: `AgreesWithDian`; `CountSafe`: `RequestsAreCounted`; `DlqSafe`: `DlqOnlyAfterExhaustion`; `LossSafe`: `PermanentFailureReachesDlq`; `DeliveryHolds`: `ImplementsDelivery` |
| `SalesProofs` | `TypeCorrect`, `NothingOversold`: `StockNeverNegative`; `KardexHolds`: `KardexMatchesStock`; `CountHolds`: `ExpectedCountsEverySale`; `RegistersStay`: `SessionsKeepTheirRegister`; `KeysHold`: `SaleOncePerKey`; `Refinement`: `ImplementsShop` |
| `NotesProofs` | `TypeCorrect`, `KeysHold`: `OncePerKey`; `NumbersHold`: `NumbersUnique`; `GapsHold`: `GapsAreLostNotes`; `EventsHold`: `EventsMatchNotes`; `ReplayHolds`: `ReplayReturnsNote` |
| `BillingProofs` | `TypeCorrect`, `EarnedHolds`: `ActiveIsEarned`; `RecordHolds`: `RecordedIsApplied`; `AckHolds`: `AckedIsRecorded` |
| `CredentialsProofs` | `TypeCorrect`, `LockOutEarned`: `LockedOnlyAfterFailures`; `RotationHolds`: `OneUsablePerLogin`; `DeadTokens`: `DeadStaysDead`; `ReuseRevokes`: `ReuseRevokesFamily` |
| `NoticesProofs` | `TypeCorrect`, `ServesAll`: `CompletedServesAll`; `DeletedSilent`: `DeletedHearsNoMore` |
| `ValidationsProofs` | `DriftSafe`: `DriftBounded`; `CufeSafe`: `CufePartsAddUp`; `StatedSafe`: `XmlStatesTheCufe`; `SumsSafe`: `XmlAddsUp`; `NothingPasses`: with totals as strings, as `create` passes them, no request is accepted |

The arguments.

Issuance. `NumbersUnique` and `OncePerKey` follow from the two unique indexes,
which also count uncommitted rows (`NoClash`): `Insert` is refused while one of
them clashes, and committing adds no row. `RangeGapFree` is not inductive alone: when a
request commits, its number must still be the successor of what the range shows.
`Reservations` says so: between its reservation and the end of its transaction,
either the request holds the lock of the range, so nobody else can move it, or the
range is its own default one, which nobody can see before the commit.
`RangesStart` says an invisible range has given nothing, `Provenance` that
committed numbers come from visible ranges of their prefix, `Phases` ties the
program counter to the table. `ErrorsExplained` adds `Explained`: the reservation of
an insertion that finds its number taken is the successor of everything its own row
gave, so the other invoice came from another row. Refinement needs, at `Commit`, that
the number follows the last of its range, which is `RangeGapFree` and `Reservations`
together; every other step leaves the book as it is.

Emission. Even `TypeOK` is not inductive: a retry inserts the attempt after the
highest it read some steps before, and stays within the rows only because rows are
numbered without gaps and a row's attempt never exceeds its place (`Rows`,
`Retries`); a stall adds to a counter that `Budgeted` keeps below the maximum.
`OutboxNeverLoses` needs `Outbox`: a relay that has added a job added that of its
current event, and a job that names an event is that event's, so neither the relay
nor `onFailed` marks one that has no job. `NoSecondDispatch` is two-fold: the relay
finds the jobId known, and `retrySubmission`, which adds without a jobId, adds for a
row of its own, which no job, no other request and no relay has: the relay asks for
attempt 1, and only the first row is one. `StatusBacked` and
`NotifiedOnlyIfAccepted` need to know what DIAN decided at each place of the status
job (`Knows`), and that a TrackId in a job is one DIAN gave (`Tracked`). `JobMove`,
`StatusMove`, `RelayMove` and `RequestMove` say once what a step that moves one part
of the state must respect; the lemma of each actor then has one step per action.
No run checks `OutboxNeverLoses` by itself: the refinement below includes it.

Three more invariants rest on that one.
- `Agreement`, for `AgreesWithDian`: a status job that has written (`Told`) wrote what
  DIAN answered, and the invoice still says accepted unless DIAN refused or rejected
  another of its requests (`Refuted`). A retry needs a rejected invoice, so it cannot
  reopen one that DIAN only accepted.
- `Accounts`, for the three counting properties. `RequestsAreCounted` ties the requests
  DIAN got to the attempts used, the stalls and the steps under way. The dead letters
  of an invoice are at most its exhausted jobs and those forgotten, and its exhausted
  jobs without one at most its dead letters and the crashes, if no call fails. Each
  step moves at most one element of these sets (`AccountsMove`), which is reasoned
  about with the cardinalities of `FiniteSetTheorems`.
- `Course`, for `ImplementsDelivery`: only a created invoice has rows or a creation
  event, and no job or request of an invoice comes before the job of its first
  submission. Without it the work of a document could start before it is owed, or a
  ruling come before any work. The refinement has one lemma for each part of the
  mapping a step can move (`WorkDelivers`, `EventDelivers`, `RulingDelivers`,
  `InvoiceDelivers`), which says what makes its move a step of `Delivery`, and one for
  each actor, which shows that every action is one of these moves or a stutter.

Sales. `Holding` says who is past its `SELECT ... FOR UPDATE` has the rows it asked
for, and its session is open; `Fresh`, that what was read under a lock is still true.
So a commit computes from the present stock what the abstract `Sell` computes, a
closing adds up the present cash, and the CHECK on `stock` is never needed. `Stored`
is the unique index of keys. With these every commit is a step of `Shop` and every
other step a stutter.

Notes. `Counting` is about takers: documents that have a number of a range, but for an
invoice that still holds its lock and may yet give it back. They have exactly the numbers
up to `currentNumber`, one each, which is `GapsAreLostNotes`. `Locking` is why an
invoice's number is still the next when it commits; `Progress` ties the place of a
request to what it has; `Apart` is the two unique indexes over uncommitted rows too;
`Kept` says snapshot and event are committed with the note.

Billing. A save brings back what was read, so what makes a status earned must hold of
the copies as well (`Earned`); `Recording` says a delivery about to write its event has
saved the subscription, unless it found none.

Credentials. `Counted`: no count, in the row or in a copy, is ahead of the failures
there were, and lost updates only lower it. `Rotation`: between the consumption of a
token and the storing of its successor no token of that login is usable, and nobody
else is about to store one for it. `ReuseRevokesFamily` speaks of what follows
each step of a kind: its nested formula is a step into `Doomed` (the token usable when
the reuse was found is among those read for revocation, or dead, until the answer)
and an induction that `Doomed` stays.

Notices. `Serving` is the loop's invariant: each endpoint a run listed, that is there
and subscribed, is left to do, being called, or has a delivery with an outcome.

Validations. `Inv` says what the checks already passed imply: the lines seen are close
to quantity times price, the taxes are known ones, and CUFE and XML are the request's
amounts rounded. The totals are the hard part. `Total` is a recursive function, so each
fact about it is an induction over its running totals (`Partials`), with a rule
(`Induction`) proved from the well-foundedness of the naturals for a set of indices
rather than for an operator: `TotalsNear` (lists that differ by at most c in each
place differ by n times c in total), `Additive` (a total splits into three parts that
split every element). `FixedNear` and `PrintedNear` bound what a rounding moves; a
bound on grains is brought down to cents with `Cancel`, and `Apart` finds that two
roundings of one amount agree but at half a cent. So the bounds hold for requests of
any length, of any number of grains to a cent.

TLC finds `IInv` of Emission and Issuance, and `Accounts`, `Agreement` and `Course`,
true in instances like those of section 4 as well.

Only model-checked: liveness (`AllAnswered`, `EventuallyDispatched`, `JobsSettle`,
`ExpiredTrialsEnd`, `AllSettled`), since fairness and ENABLED are out of the prover's
reach; and the two runs that find a violation.

## 6. Not modelled

What `PROJECT.json` lists as `not_modelled`, with the reason: text, cryptography and
files; CRUD over single rows; RADIAN, which fails before it writes anything; onboarding,
a loop without state; dead code (`dian-outbox.service.ts`, and
`OutboxRelayService.retryDlq`, which only a unit test calls; `consume` and
`cleanExpired` of the refresh tokens, which nobody calls). The models are of one tenant.

Within the modelled components: `POST /products`, which inserts one (and would
overwrite another if its body named the id), the insert of a first PIN, the creation of
users, usage limits, the suspension half of the cron, and reads. The mail's
archive and SMTP come after a statement that throws, and are left out. Retention of finished jobs is
modelled (`Evict`), and `NoSecondDispatch` speaks of jobs Redis remembers: once it has
forgotten the id, a relay whose mark of the event failed does add the job again.
