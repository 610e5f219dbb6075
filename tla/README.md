# Verification of mini-erp-api

TLA+ specifications of the invoicing back end in this repository, the TLC
models that check them and TLAPS proofs about them. The specifications are
translated from the code; the repository's own texts are quoted only where a
model is held against them.

## 1. The system

One NestJS code base, run as one process or as several behind a proxy, in front
of one PostgreSQL database. The throttler's counters aside, no process keeps
state between requests: **the tables are the only shared state, and
PostgreSQL's default isolation level (READ COMMITTED) is the only thing between
two requests.** Every `await` of a handler is a place where another request
runs, in the same process or another one, which is why splitting the code into
services changes nothing in the models of the handlers. What the split does
change, the way to a handler and the throttler's counters, is `Gateway`.

| component | state | operations | hard behaviour |
|---|---|---|---|
| invoices (`src/modules/invoices`) | `Invoice`, `InvoiceItem`, `InvoiceStatusLog` | create, update, changeStatus; list, getById | checks made on a read before the transaction that writes; numbers computed from a count; items replaced by delete and insert; log and status written together |
| customers (`src/modules/customers`) | `Customer`, soft delete | create, update, remove; list, getById | a customer removed while an invoice for it is being written |
| auth (`src/modules/auth`) | `RefreshToken` | login, refresh (rotation and reuse detection), logout | read, check, revoke and insert as separate statements without a transaction; a failure or another request in between; lost answers and retries |
| users (`src/modules/users`) | `User`, soft delete | create, update, deactivate; list, getById | deactivation against logins and rotations in flight; unique email under overlap |
| dashboard (`src/modules/dashboard`) | none | summary | four queries with four snapshots; the first month of the chart |
| lists (`common/utils/pagination.ts`, the `list` methods) | none | a page, with its count | pages are cut by position while rows come and go |
| access (`common/guards`, `auth/strategies`) | none | authenticate, check the role | the user and role are read once, before the handler |
| gateway and services (`src/services`) | which process runs | forward by path prefix | prefixes cut and put back; a process that is down |
| rate limit (`core.module.ts`, `@Throttle`) | counters by handler and address, in process memory | count a request, refuse it | a restart forgets the counters; behind the gateway all clients share an address |
| filter, envelope, configuration, health | none | | |
| seed (`prisma/seed.ts`) | the first rows | upserts | its numbers against the numbers the service counts |

What makes each of them correct:

* **Numbering**: no two invoices share a number; the service's numbers of a
  year have no hole; seeded numbers never stand in the way.
* **Status**: it moves along `TRANSITIONS`, only an ADMIN cancels, and the log
  tells how it came to be what it is.
* **Money**: the header's totals are those of the items; an edit touches a
  DRAFT only; a reader can check a stored header from what is stored, and an
  edit that leaves the items out leaves them alone.
* **Reads**: the cards of one summary agree up to what was paid meanwhile; a
  walk through a list misses or repeats no more rows than others moved.
* **Routing**: every documented request reaches its handler and its guards, in
  one process or split; the throttler refuses only who has earned it.
* **Progress**: nothing waits for ever on a lock or a connection.
* **Sessions**: a refresh token is used once, what is revoked stays revoked and
  earns nothing, a session that is over is over.
* **Users**: an address belongs to one account, a refusal stays right, and who
  has lost a role cannot act on an old token.
* **Customers**: a removed customer stays removed and is left alone, and gets
  no further invoice.

## 2. The modules

| module | what it is | code |
|---|---|---|
| `Invoices` | create, update, changeStatus, statement by statement, with row locks, the unique index, the connection pool, failures and the removal of customers | `invoices.service.ts`, `invoices.prisma`, `seed.ts` 87-165, `customers.service.ts` 81-84 |
| `NumberLedger` | abstract: a year's book and the next number | |
| `InvoiceLifecycle` | abstract: invoices with atomic requests, for a client that is alone | |
| `InvoiceBook` | abstract: what readers may rely on however requests overlap | |
| `MCInvoices` | instances of `Invoices` | |
| `SerialInvoices` | `Invoices` with requests that do not overlap; the mapping to `InvoiceLifecycle` | |
| `MCSerial` | an instance of `SerialInvoices` | |
| `Money` | one invoice's decimals through create and update | `invoices.service.ts` 137-167, 239-269, the Decimal columns of `invoices.prisma` |
| `MCMoney` | an instance of `Money` | |
| `Reports` | extends `InvoiceBook`: the summary and a walk through a list, statement by statement, while others write | `dashboard.service.ts`, `pagination.ts`, the `list` methods |
| `MCReports` | an instance of `Reports` | |
| `Gateway` | from a request to its handler: prefixes, routers, throttler, guards; processes that stop and start | `services/`, `core.module.ts`, `app.module.ts`, the controllers, the guards |
| `MCGateway` | an instance of `Gateway` | |
| `Sessions` | login, rotate, logout, deactivation, statement by statement | `token.service.ts`, `auth.service.ts`, `auth.controller.ts`, `jwt.strategy.ts`, `users.service.ts` 88-106 |
| `SessionFamilies` | abstract: families of tokens with atomic requests | |
| `SerialSessions` | `Sessions` with requests that do not overlap; the mapping to `SessionFamilies` | |
| `MCSessions` | instances of `Sessions` and `SerialSessions` | |
| `Access` | the User table, access tokens and guards in front of users and customers; the seed of the users | `roles.guard.ts`, `jwt-auth.guard.ts`, `jwt.strategy.ts`, `seed.ts` 9-25 |
| `Users` | extends `Access`: create, update, deactivate, statement by statement | `users.service.ts` 70-106, `users.controller.ts` |
| `Customers` | extends `Users`: create, update, remove; the three as one system | `customers.service.ts` 55-84, `customers.controller.ts` |
| `MCCustomers` | an instance of `Customers` | |
| `InvoicesProofs`, `BookProofs`, `SerialProofs`, `MoneyProofs`, `SessionsProofs`, `CustomersProofs`, `ReportsProofs`, `GatewayProofs` | theorems | |

### Invoices

A request is an element of `Request`; `pc[r]` is the statement it stands at, and
`input`, `existing`, `number`, `doomed` are the handler's local variables. One
action is one SQL statement or one COMMIT:

| handler | stages |
|---|---|
| `create` | customer (`assertCustomer`), begin (`nextInvoiceNumber`, the COUNT), insert (`InsertInvoice`, or `NumberTaken` when the unique index refuses), commit (`CommitCreate`) |
| `update` | header, items (`getById` is one SELECT per relation), customer if the body names one, begin (`StartDelete`), delete (`FinishDelete`), write (`WriteHeader`), commit (`CommitUpdate`) |
| `changeStatus` | header, begin (`InsertLog`), write (`WriteHeader`), commit (`CommitStatus`) |

A transaction's writes are applied at COMMIT, because nobody sees them before;
what others feel earlier are its locks, which are read off the program counters
(`NumberLocked`, `ItemsLocked`, `HeaderLocked`). The DELETE of an edit takes two
steps because PostgreSQL fixes the rows it matches when it starts and, after
waiting for a lock, skips those that are gone without looking for new ones.
`Fail` ends a request anywhere before its COMMIT and leaves the tables alone;
an answer lost after the COMMIT is no different for the tables from one that
arrives.

Reads that change nothing and decide nothing are left out: the SELECTs with
which `create`, `update` and `changeStatus` build their answer inside the
transaction and the SELECT of the logs in `getById`. `list` is in `Reports`.

Amounts are whole cents and rates whole percentages here, `Money` has the
decimals; `Tax` rounds half up as `Math.round` does on non-negative numbers. A set of items is one batch with its
sum: no code looks at an item alone. Only the year of `issueDate` is kept, for
the number.

### Money

`header` and `items` are the rows of one invoice. `create` and `update` are
whole handlers, one step each: what overlap does to them is the matter of
`Invoices`. A client's price is a number of tenths of a cent and its rate a
number of thousandths of a percent, fine enough for exact halves and their
neighbours. `computeTotals` rounds a price twice: `Used`, `Math.round(unitPrice
* 100)`, counts the amount, and `Kept`, `unitPrice.toFixed(2)`, is stored. On an
exact half the two may differ, because the double that stands for it lies beside
the half and the product by 100 may round onto it (1.115 counts as 1.12 and is
stored as 1.11). Which way each exact half falls is a constant, `HalfDown`,
`HalfCut` and `TaxHalfDown`, so nothing is assumed about doubles except that
what `Math.round` takes down `toFixed` takes down too. The rate is used as sent
and stored in a `Decimal(5, 2)`. `Fits` is the database's refusal of a value
beyond `Decimal(14, 2)`, scaled down in the instance.

### Reports

`Reports` adds a reader to `InvoiceBook`, of which `Invoices` is a proved
refinement, so what readers see here is what the service may show them. The
reader is a dashboard summary, `GroupByStatus` then `RevenueByMonth`, or a
client that walks through a list, `FindMany` then `Count` for each page until a
response says that it is the last. Prisma's `$transaction([...])` runs these
statements one after the other at READ COMMITTED, each with its own snapshot,
so writes fall in between. `Write` is a step of `InvoiceBook`, or a customer
that appears or is removed (the users' list is ordered and cut alike). Rows of
equal `issueDate` have no order in the code: `Firsts` lets the database choose.

### Gateway

A request, with the role of its token, passes the gateway's table (`routes`,
`pathRewrite`) in the split, then the handlers of the process it reaches, in
the order of imports and declarations (`Imports`, `Matches`), then the guards
of `core.module.ts` in their order: throttler, token, role (`Guarded`).
`Served` gives the answer and what the throttler's counters become. `Stop` and
`Start` are the life of a process; its counters are in its memory. `Key` and
`Increment` are the third-party throttler's: one counter for a handler and an
address, which behind the gateway is the gateway's, because no process trusts
`X-Forwarded-For`. A counter keeps the number and the time of each request it
counts.

### Sessions

None of the handlers opens a transaction, so each statement commits at once and
`Fail` leaves what the earlier statements did. `FindToken` and
`FindOwner` are the two SELECTs of `rotate`'s read, the row and then its user,
with the decisions made on both; `RevokeToken`, `IssuePair` and `RevokeFamily`
are the statements that follow; `Answer` separates the INSERT
from the moment the client holds the token. Clients present tokens that they
have received, the newest or an older one, as a second tab or a retry does, and
`genuine` says whether the secret belongs to the row. `Update` and `Deactivate`
switch a user's `deletedAt` and do not touch the token table.

### Access, Users, Customers

Every handler that writes is guard, read, write, each one SELECT or one
statement that commits at once (`create` of a customer has no read). The guard
is the SELECT of `JwtStrategy.validate` with `RolesGuard`'s decision on it; the
role in the token (`claim`) is carried along and, as in the code, not looked
at. `InsertUser` and `EmailTaken` are the two ends of one INSERT. `Reseed` is
the upsert of one account by `prisma/seed.ts`, which may be run again at any
time. A user's name and password, and all of a customer but its soft delete and
last editor, are dropped.

`Users` adds its steps to the variables of `Access`; `Customers` adds the
Customer table and puts the steps of all three into one `Next`.

### What "not a bug of the model" means here

An operator `X_<bug>` is `X` with a plausible programming error. No
specification uses it. It documents, for each property, an error in the code
that the property would catch: replacing `X` by it makes the run fail.

## 3. What TLC checks

Runs that pass:

| run | question | bounds |
|---|---|---|
| `Desk` | creates, edits and status changes in parallel | 3 requests of all kinds over 2 years, the seeded invoice in any status and numbered as the second create will be, or out of reach, a customer that may be removed, pool of 3; 454k states |
| `Live` | does everybody get an answer | 3 requests of every kind, pool of 2, fair; 231k states |
| `Serial` | what the handlers do when they do not overlap | 3 requests, any of all bodies, on the seeded and on a new invoice; 714k states |
| `Money` | the decimals of one invoice | 2 lines, 7 prices on and beside exact halves and one dear one, quantities 1 and 3, 4 rates, columns that hold 196.00; 596 states, any number of edits |
| `Reports` | readers while others write | 3 invoices in three months, 3 clients, pages of 1 or 2 rows, 2 writes; about 1 million states |
| `Gateway` | requests to either deployment | 2 addresses, 3 requests, limits 1 (login) and 2, a window of 2 ticks, 3 ticks, one stop; every documented request of every role in every state; 75k states |
| `Sessions` | logins, refreshes, logouts, deactivation in parallel | 4 requests, 2 users; 492k states |
| `Rotation` | the same without overlap | 4 requests, 1 user; 27k states |
| `Directory` | users and customers under changing roles | 3 requests of 14 bodies by any user, 3 seeded users, a seeded customer, one free address; 703k states |

`Desk` shows what survives although the handlers act on stale reads: numbers
are unique and without holes (`NumberingInv`, and `LedgerSpec`, the refinement
of `NumberLedger`); `SeedCollidesLate`, which says when a seeded number stands
in a create's way; `TimelineInv` (every log row follows TRANSITIONS from a
status that some earlier row entered, and only ADMINs cancel), `StatusMovesWithLog` (status and
log row come together or not at all), `MoneyOfOneBatch` (the header never mixes
two edits), `UpdaterOnRecord`, and `RulesHoldOnFreshRead`, which says that a
stale read is the only way to break the rules. `RemovedGetsNoInvoice` says that
a removed customer gets no further invoice once the requests that had found it
are over. `BookSpec` sums up what a reader may rely on: `Invoices` refines
`InvoiceBook`. `Serial` shows the other side:
with one request at a time each handler is one atomic step of
`InvoiceLifecycle`, or none if it fails, and the timeline is a path.

`Sessions` shows that every row descends from a login through revoked rows
(`LineageInv`), that a family without a live row and without a rotation in
flight never has a live row again (`ClosedForGood`), and that a token revoked
before it is read earns nothing (`RevokedNeverServed`). A deactivated user gets
no row once the logins and rotations that had read it as active are over
(`DeactivatedEarnsNothing`); that such a user cannot log out, so that nobody
revokes the rows, does not matter before the account is active again. The
qualification "without a rotation in flight" is needed: a logout or a reuse that falls
between the UPDATE and the INSERT of a rotation leaves the new row alive.
`Rotation` shows that without overlap rotation implements `SessionFamilies`.

`Directory` shows that addresses stay unique although the lookup of `create` is
far from its INSERT (`EmailsUnique`), that a system whose last active ADMIN is
gone gets one back from the seed only, whatever tokens are around
(`LockedOutStays`), and that a removed customer is edited by nobody who had not
found it before (`RemovedIsHistory`). `BarredEditsNothing` says that who is
deactivated or demoted edits no customer, whatever token they hold, once the
requests that had passed the guard are over. A create that loses the race at the index
ends in a 500, not in the conflict of the lookup. `Directory` may stop: every
request has been handled and the seeded accounts need no repair.

`Money` shows that a reader can check a stored header, at the stored rate,
although the tax was computed at the rate as sent (`HeaderChecks`); that an
edit that leaves the items out keeps every line and unit price, and moves an
amount only down, by at most a cent per unit (`LinesKept`: a price on an exact
half was counted up and stored cut, and is read back as stored); and that an
edit of neither items nor rate moves the money at most once (`BlankEditSettles`).

`Reports` shows that the revenue card and the chart of one summary differ by
the invoices that are older than the chart and by what was paid between the two
statements, unless a write reached a paid invoice (`CardsAgree`); and that a
walk misses, of the rows that stayed in their place, no more than others left
(`NoMoreMissedThanLeft`), and repeats no more than entered
(`NoMoreRepeatedThanEntered`). It may stop: the reader is done and the writes
are used up.

`Gateway` compares the README's route table with decorators, guards and the
gateway's table, in both deployments and with any processes down
(`AnswersAsDocumented`). One row needs an exception: `GET /api/health`, which
`README.md:83` gives on the gateway's port, is not forwarded. `LoginBudget`
bounds the logins that reach the handler in a window, a restart of the process
counting as a new window, and `RefusalsEarned` says that nobody is refused for
what was sent to another handler. It may stop: time and requests are bounded.

Why these bounds are enough to be interesting. Every interference between two
handlers needs two requests and one row; the third one lets a wait be a chain
and lets a request start after the interference. Three live rows, a reuse and a
logout of one family fit in four requests; two demotions and a request that
arrived before them, or a removal, an edit and a late edit, in three. In
`Money` the two lines are enough for a sum that overflows where no line does.
In `Reports` three rows and pages of one row let a row move across a boundary
that has been passed and one that has not; the second write lets a row leave
and another enter in one walk. In `Gateway` the limits 1 and 2 are passed by
three requests, and time goes on until a block has ended. `RequestSymmetry` permutes requests,
which no definition tells apart; runs with a leads-to property use no symmetry.
In `SerialSessions` the mapping picks the token in force with CHOOSE; without
overlap there is at most one, so the pick is the same for every permutation.

Runs that fail, each against a sentence of the repository:

| run | sentence | what happens |
|---|---|---|
| `StaleStatus` | "Valid status transitions. Anything not listed is rejected." (`invoices.service.ts:18`) | the seeded invoice is SENT; two status changes read that, one commits CANCELLED, then the other PAID |
| `DoubledItems` | "Derived money columns (subtotal/taxAmount/total) are stored, computed server-side from the items" (`invoices.prisma:9-10`) | two edits; the second DELETE does not match the first one's new rows, both batches stay |
| `DoubleRotation` | "tokens rotate on every use; presenting an already-used token burns the whole family" (`README.md:165`) | two refreshes read the same live row; both get a successor |

`StaleStatus` and `DoubleRotation` have one cause: the check is made on a read,
and the write that depends on it names the row by id only, without asking again
(`where: { id, status }`, `where: { id, revokedAt: null }`) or locking the row
it read. In `DoubledItems` nothing locks the header before the items are
replaced.

Four more sentences hold in part only. The passing runs say in which part:

* "Edit is only allowed while DRAFT" (`src/shared/invoice.ts:31`). The DRAFT check
  of `update` is stale in the same way: an edit reads the header of a DRAFT, a
  cancellation commits, the edit replaces the items and the money of the
  CANCELLED invoice. So `EditOnlyWhileDraft` is checked in `Serial` only. What
  overlap leaves of it is in `InvoiceBook`, an edit touches an invoice that has
  been a DRAFT, and in `RulesHoldOnFreshRead`.
* "every query filters `deletedAt: null` (soft delete)" (`customers.service.ts:7`).
  The reads do, the UPDATEs of `update` and `remove` name the row by id alone. An
  edit that has found a customer is stamped on it although it has been removed
  meanwhile: `RemovedIsHistory` excepts it, in `Settled`, and would fail without
  the exception.
* "Health: `http://localhost:4000/api/health`" (`README.md:83`), of the running
  split. `/api/health` is not in the gateway's table, the gateway has a `/health`
  of its own, so the answer is a 404: `AnswersAsDocumented` has it as its
  exception.
* Seeded numbers "never collide with app-generated INV-<year>-000x numbers"
  (`prisma/seed.ts:83`). That holds until the year has 9000 invoices, the seeded
  ones included: `SeedCollidesLate`.

An edit that leaves the items or the rate out writes back what it had read, so
of two overlapping edits the later one may undo the other. No sentence of the
repository promises otherwise; `LifecycleSpec` shows that it takes overlap.

### Fairness

`FairSpec` of `Invoices` asks weak fairness of `Step(r)` for each request: a
handler whose statement has completed is resumed by the event loop, and
PostgreSQL grants a lock to a waiter once it is released. Arrivals and failures
are not fair. Weak fairness is enough for the pool, too, because a behaviour has
finitely many requests: after the last one has got a connection nobody takes it
away again. With requests arriving for ever a request could be overtaken for
ever; the code then ends it by `pool_timeout`, which is a `Fail`.
`EveryRequestAnswered` does not lean on failures: it holds if none happens.

## 4. What is proved

For every set of requests, users, seeded invoices, customers, years and bodies,
from the assumptions that `Invoices` names (finitely many requests and seeds,
seeds are not requests, bodies are well typed, seeded numbers differ, the pool
has a connection, `None` is no status and no customer):

| theorem | says |
|---|---|
| `InvoicesProofs!TypeCorrect` | `Spec => []TypeOK` |
| `InvoicesProofs!NumberingCorrect`, `NumbersUnique`, `NumbersGapless` | `NumberingInv`, `UniqueNumber`, `Gapless` are invariants |
| `InvoicesProofs!SeedStaysOutOfTheWay` | `SeedCollidesLate` is an invariant |
| `InvoicesProofs!ImplementsLedger` | `Invoices` refines `NumberLedger` |
| `BookProofs!TimelineCorrect`, `TimelineAlwaysRooted` | `TimelineInv`, `TimelineRooted` are invariants |
| `BookProofs!StatusAndLogTogether` | `StatusMovesWithLog` |
| `InvoicesProofs!RemovedIsNotBilled` | `RemovedGetsNoInvoice` |
| `InvoicesProofs!MoneyIsOfOneBatch`, `UpdaterIsOnRecord` | `MoneyOfOneBatch`, `UpdaterOnRecord` are invariants |
| `BookProofs!ImplementsBook` | `Invoices` refines `InvoiceBook` |
| `BookProofs!FreshReadsKeepTheRules` | `RulesHoldOnFreshRead` |
| `SerialProofs!SerialCorrect`, `PathWithoutOverlap`, `MoneyWithoutOverlap` | of `SerialSpec`: `SerialInv`, `TimelineIsPath`, `MoneyFromItems` are invariants |
| `SerialProofs!EditsWithoutOverlap`, `ImplementsLifecycle` | of `SerialSpec`: `EditOnlyWhileDraft`; it refines `InvoiceLifecycle` |
| `MoneyProofs!TypeCorrect`, `HeadersCheck`, `AmountsNearPrices` | `TypeOK`, `HeaderChecks` and the range of an amount are invariants |
| `MoneyProofs!LinesAreKept`, `BlankEditsSettle` | `LinesKept`, `BlankEditSettles` |
| `SessionsProofs!TypeCorrect`, `LineageCorrect` | `TypeOK`, `LineageInv` are invariants |
| `SessionsProofs!FamiliesStayClosed`, `RevokedStaysUnserved`, `DeactivationHolds` | `ClosedForGood`, `RevokedNeverServed`, `DeactivatedEarnsNothing` |
| `SessionsProofs!SerialCorrect`, `RotatedAtMostOnce`, `ImplementsFamilies` | of `SerialSpec`: `SerialInv`, `RotatedOnce` are invariants; it refines `SessionFamilies` |
| `CustomersProofs!TypeCorrect`, `AddressesUnique`, `ConflictsAreReal` | `TypeOK`, `EmailsUnique` are invariants; so is `ConflictIsReal` (a create refused for its address was refused rightly), which no run checks |
| `CustomersProofs!LockoutIsFinal`, `RemovedStays`, `BarredStaysOut` | `LockedOutStays`, `RemovedIsHistory`, `BarredEditsNothing` |
| `ReportsProofs!WalkCorrect`, `WalksMissLittle`, `WalksRepeatLittle` | `WalkInv`, `NoMoreMissedThanLeft`, `NoMoreRepeatedThanEntered` are invariants |
| `ReportsProofs!TypeCorrect`, `SummaryAddsUp` | `TypeOK` is an invariant; `CardsAgree` |
| `GatewayProofs!TypeCorrect`, `LoginsAreFew`, `RefusedForCause`, `DocumentedAnswers` | `TypeOK`, `LoginBudget`, `RefusalsEarned`, `AnswersAsDocumented` are invariants |
| `GatewayProofs!HandlersWithinLimits` | `LoginBudget` for every handler, with its own limit |
| `GatewayProofs!AccessByRule` | whatever verb and list of path segments is requested, a handler is reached only by whom the rule for them lets in |
| `GatewayProofs!SplitServesAlike` | any verb and list of path segments but GET /api/health is handled by the same handler in either deployment |

*Numbering.* `UniqueNumber` and `Gapless` are not inductive: a request between
its COUNT and its COMMIT carries the number in a local variable.
`NumberInFlight` says what that number may be: at least one more than the
seed's count, at most one more than the present count, because rows are never
deleted; and at COMMIT it is in no row and nobody else is committing it. With
`Gapless` the numbers up to the count are all taken, so a number that is not
taken is exactly the next one: that is why the losers of a race leave no hole,
and it makes each commit a step of `NumberLedger`.

*Timeline.* `StatusLogged` ties the status in the header, and every status a
request has read, to a row of the log; `ChangeAllowed` keeps the outcome of the
check until the commit; `RowsOfCommitted` makes a row new when it is written.

*The book.* Rows are mapped to `book`, the statuses in the log to `been`. A
status change decides on a status it has read, which `TimelineInv` finds in the
log, so in `been`; an edit that reaches its COMMIT has read DRAFT
(`EditAllowed`, a small invariant of its own); a create writes a row that was
absent because it is named after its request. `TypeOK`, `NumberingInv` and
`TimelineInv` carry the three cases.

*Removed customers.* Only `assertCustomer` lets a request name a customer in its
writes, and it looks at the table (`Naming`, `Forgotten`); every other step
keeps the set of requests that do.

*One batch.* Under overlap an edit leaves whatever items its DELETE did not
match, so a header may stand beside two batches (the run `DoubledItems`). What
holds nevertheless is that the last one to write the header has its own batch
there: `MoneyOfOneBatch` and `UpdaterOnRecord` need that no later DELETE removes
that batch without its edit writing the header after it, which `OnlyCommitsWrite`
(the tables change in a COMMIT only, all at once) makes a matter of one step.

*Without overlap.* `SerialSpec` lets a request arrive when no other is in
service. `SerialStep` turns that into a fact about steps: while a request is in
service, every step is its own or leaves the tables alone. So what it has read is
still true when it commits (`ReadsAreCurrent`), an edit deletes all items before
it inserts its own (`OneBatch`), and a status change goes on from the status of
the last log row. That the timeline is a path needs more than that it is
connected: no status is left twice, because each move goes up in `Rank`
(`LeftBehind`). With these, `Seen`, what a client reads of an invoice, moves as
in `InvoiceLifecycle`. In `SerialSessions` the same fact gives `RotationAlone`:
the row a rotation presents has been rotated by nobody, and it is the rotation
itself that revokes it; so a family has at most one row in force
(`OneInForce`), counting the one a rotation has revoked and not yet replaced. A
rotation that fails there takes the row out of force, which `SessionFamilies`
sees as the family's closing. `SerialSpec => Spec` in both, so all that is
proved of the overlapping specification is used.

*Money.* For any prices, quantities, rates and any way the halves fall: `Used`
is `Kept` or one cent more, and neither moves when it is applied to what is
stored (`WholeIsKept`), from which `LinesKept` and `BlankEditSettles` follow;
`HeaderChecks` needs the distance of a rounded tax from the exact one, and of
the stored rate from the rate as sent, each half a unit. From the assumptions
that prices are natural numbers of tenths of a cent, quantities are positive,
rates are at most 100 % and what `Math.round` takes down `toFixed` takes down.

*Sessions.* `ParentRevoked` carries the revocation of the presented row from the
UPDATE to the INSERT. `ClosedFamily` and `Refused` are preserved by every step.

*Users and customers.* The lemmas `UserRows` and `CustomerRows` say what any
step may do to a row: no deletion, no new address, no return of a removed
customer; `Stages` says what a request found before it writes. Each theorem is
then a few lines. `LockedOut` has to speak of requests past the guard, too: one
of them could still promote somebody; `Barred` for the same reason
(`PassesGuard`). From the assumptions that requests, the seeded accounts and the
seeded customers are different, bodies well typed and `None` is no user.

*Walks.* A row that is alone with its key has a place: the number of rows before
it (`Before`). Whichever way equal keys are ordered, it is on the page of its
place and on no other (`PageOfPlace`). A row that leaves moves others up by one
place at most, one that enters moves them down by one, and different rows have
different places; so no more settled rows slip among the rows covered than left
(`Slipped`), and no more are pushed back among the rows to come than entered
(`Repushed`). Each page settles the account for the rows it covers, and the page
the response calls the last reaches the end of the list (`LastPageReachesEnd`).
From the assumptions that tables are finite and page sizes positive, for any
number of overlapping writes.

*The summary.* `SumStep`, `SumUnion` and `SumByKey` say that a sum over a finite
set does not depend on the order of adding, splits into parts, and is the sum of
the sums of a GROUP BY. They are proved by induction over the subsets of a set,
with a set of subsets in place of the predicate (`SubsetInduction`).
`SummaryInv` keeps what the first statement counted; as long as those rows are
unchanged they are still paid, so the two statements' sets differ by `since` and
`older` only.

*The throttler.* `CountersInv` says what a counter is worth: it holds requests of
its own key, as many as the limit at most or, while it blocks, that many and the
one it refused. What a block ends with is no longer live (`Counting`), so that
stopping afresh forgets nothing that counts. The window slides, and a request
refused now says nothing of the windows to come; `BudgetInv` therefore counts, for
every time from now on, what will then be live: what got through and is not in
the counter is covered by the ends of its process, a limit's worth for each.
The case of now is the budget of each handler (`HandlersWithinLimits`), and
`LoginBudget` that of the route of a login, which `LoginRoute` follows through the gateway's table, the rewriting and the router
of either process. `RefusalsEarned` is kept with the log: whoever is refused is
refused by a counter with a limit's worth of requests and one more, none older
than two windows. From the assumptions that limits and the window are positive,
for any addresses, requests, bounds and ends of processes.

*Routes.* The README's table and the decorators are compared by way of a rule
(`Rule`): who may use a route, by its verb and its first segments. Each of the
twenty-one handlers has the decorators the rule asks for (`AllRuled`), each row
of the table has its access and a handler of its own (`AllRows`), and a request
matches a handler segment by segment (`MatchingIs`). So whichever handler
matches a request lets in whom the rule says for that request (`HandlerByRule`),
with one exception: GET /api/users/me is matched by GET /api/users/:id, too,
which only an administrator may use; that its own handler comes first is a
matter of the order of declaration (`MeFirst`). `DocumentedAnswers` is about the
table's requests, where the rule is the row, and says also that they arrive;
`AccessByRule` is about any sequence of segments. What the gateway cuts off a path is what
`pathRewrite` puts back, for any prefix and path (`ForwardedWhole`), and a path
has at most one prefix of the table (`PrefixIs`), so a request goes whole to the
process that owns it or nowhere (`SplitReaches`).

`SplitServesAlike` is about every verb and list of segments, not only the
documented ones: the
first match in a list of handlers made of two is the first list's, if any of it
matches (`FirstOfTwo`), and what a controller's handlers match is under its own
segment (`MatchingUnder`). So the controllers that a process of the split does
not import would not have matched what the gateway sends it, nor anything it
sends nowhere.

Only model-checked: progress (`EveryRequestAnswered`), since liveness under fairness
is beyond the proof system.

## 5. What is not modelled

* Doubles bit by bit: which exact halves go down is a constant of `Money`. Prices
  finer than a tenth of a cent and rates finer than a thousandth of a percent,
  and amounts beyond 2^53 cents, where doubles lose cents.
* The order of log rows by `createdAt`; the timeline is a set and its order is
  the order of commits. `updatedBy` and `createdBy` beyond what is named above.
* The filters of the lists but status (search, customer, dates): they choose
  rows as status does. The order of rows with one `issueDate` or `createdAt`,
  which the database may choose anew for every page: `Reports` lets it, and its
  properties leave such rows out. The recent invoices and the customer count of
  the dashboard, with which no other card is compared.
* CORS, the docs routes and the gateway's own `/health`, Swagger, environment
  variables, logging, the database ping, the envelope and the filter's bodies:
  wiring and wording without state.
* Validation by the schemas: the bodies of the models are those it lets through.
* Of Express' matching of a path: that HEAD is let through to a GET, that the case
  of letters does not count and that a last slash is forgiven, in either
  deployment alike.
* The months of `Reports` are whole numbers: the step over the end of a year in
  `Date.UTC`.
* Passwords, hashes, signatures, cookies, the lifetime of access tokens.
* Migrations and containers; seeding invoices and customers again.

## 6. Plan

Done: `Invoices` with its abstract specifications and proofs, `Money` and its
proofs, `Sessions`, `Access`, `Users` and `Customers` with theirs, `Reports` over
`InvoiceBook`, `Gateway` and its proofs.

1. One system of `Access` and `Sessions`, whose `Update` and `Deactivate` become
   operations of `Users`, and of `Customers` and `Invoices`, whose
   `RemoveCustomer` becomes an operation of `Customers`; the role `Invoices`
   takes as an input then comes from the guard.
2. Proofs: the invariants of the systems of 1.
3. A seed of invoices that is run again while the service writes.
