# A TLA+ model of the Coffee Shop API

The repository is an HTTP API for a coffee shop (FastAPI on one asyncio event
loop, SQLite through `databases`, Redis for notifications). These modules model
the parts of it that can go wrong when requests overlap, when the process dies
between two statements, or when a neighbour (payment provider, database, Redis)
fails. TLC checks them on small instances and TLAPS proves the safety properties
that matter most for every value of the constants.

All paths below are relative to the repository root, whose application code is
in `src/src/`, its documents in `src/README.md` and `src/TECHNICAL_DESIGN.md`.

## 1. Inventory

| Component | State it keeps | Operations | Module |
|---|---|---|---|
| Circuit breaker (`services/circuit_breaker.py`) | `_state`, `_failure_count`, `_opened_at` of one object shared by all payments | `call`: a locked admission, the awaited coroutine, a locked booking of its outcome | `CircuitBreaker` |
| Payment service (`services/payment_service.py`) | tenacity's attempt number, per call | `process`, `_attempt` with up to 3 POSTs and backoff | `PaymentService` |
| Idempotency store (`repositories/idempotency_repository.py`) | table `idempotency_keys`: one row per key, with the reply and its time | `get`, `save`, `delete_expired` | `IdempotencyStore` |
| Order creation (`routes/order_routes.py`, `use_cases/order/create_order.py`) | tables `orders`, `order_products` | `POST /orders/` | `OrderCreation` |
| Order status (`use_cases/order/update_order_status.py`) | column `orders.status` | `PATCH /orders/{id}/status` | `OrderStatus` |
| Notification stream and worker (`tasks/notification_worker.py`, `services/redis_notification_service.py`) | a Redis stream with a consumer group and its pending list; the worker's batch | `notify` (XADD); the worker's XAUTOCLAIM, XREADGROUP, POST, XACK | `NotificationWorker` |
| Tokens and revocation (`auth/jwt.py`, `api/dependencies.py`, `routes/auth_routes.py`) | the signed tokens in circulation; table `revoked_tokens` | sign-in, the guard of protected routes, sign-out | `TokenRevocation` |
| Purge loop (`tasks/purge_expired.py`) | none | hourly: delete expired keys, then expired denylist rows | `TokenRevocation`, `OrderCreation` |
| User registration (`routes/user_routes.py`) | table `users` | `POST /users/`, keyed like `POST /orders/` | `UserRegistration` |
| Catalogue (`database/seed.py`, `use_cases/product/get_menu.py`) | table `products` | seeding at start-up, `GET /menu/` | `Catalogue` |
| Order queries (`use_cases/order/list_orders.py`, `get_order_detail.py`) | none | `GET /orders/`, `GET /orders/{id}` | `OrderQueries` |
| Migrations (`src/alembic/`) | the schema and `alembic_version` on disk | nine revisions, up and down | `Migrations` |
| Lifespan (`main.py`, `Dockerfile`) | the connections and the two background tasks | upgrade, start-up, shutdown, restart | `Deployment` |
| Rate limiter, legacy `NotificationService`, settings, schemas, health check | – | – | not modelled, see section 8 |

**How they interact.** Every handler runs as a coroutine on one event loop and is
interrupted only at an `await`. Handlers share the database, the one breaker
object and the Redis client. `POST /orders/` calls the product repository, then
the payment service through the breaker, then the order repository, then the
idempotency store. `PATCH .../status` writes the database, then XADDs to the
stream the worker reads. The purge loop deletes rows the handlers read. No
database transaction spans two awaits of a use case.

**What is hard.** Checks separated from the writes they guard by one or more
awaits (the key, the status, the denylist); outcomes booked in another state
than the one they were admitted in (the breaker); death or an error between two
statements (charge / insert / cache, update / notify, deliver / acknowledge);
at-least-once delivery with retries and an idle limit; expiry at the boundary
between two clocks' resolutions; background tasks that must not die.
`PROJECT.json` lists each of these hazards at its line.

**What correctness means, per component.**

- *Breaker*: it counts consecutive failures whatever order they end in, always
  knows when it opened, never waits for a probe that is not there, keeps rounds
  of probing apart, and recovers.
- *Payment service*: it is a well-behaved user of the breaker; nothing is posted
  for a call the breaker has not in flight; the attempts are bounded.
- *Order creation*: no order without a payment; a reply, sent or cached, names a
  stored order; a refusal leaves nothing; a key names one order.
- *User registration*: a refusal is true; a key sent to both endpoints
  acknowledges one thing.
- *Status*: forward, one step at a time, announced once per step.
- *Notifications*: nothing is lost, duplicates cost faults, order is kept without
  faults, everything is settled in the end.
- *Tokens*: a sign-out holds until the token's expiry; the denylist does not grow
  for ever.
- *Order queries*: a walk over the pages sees every order once, never without its
  products.
- *Migrations, lifespan, catalogue*: rows survive upgrades and crashes; the server
  starts on the tables of its models only; the menu is the whole catalogue; a stop
  ends, and with its connections closed.

## 2. The modules

Each handler is one action per await. A per-process variable `pc` (`call` in the
breaker) names the await it is at, the guard of an action is that position plus
the code's conditions, and what is computed between two awaits belongs to the
step that ends the first. Definitions whose names are listed under a line
`Mutants:` are not part of any specification: each is the form a plausible slip
would give the definition it stands next to, used to show that a property
notices that slip.

### CircuitBreaker
`Admit` and `Reject` are the first locked section of `call`, `Succeed` and `Fail`
the second with `_on_success` and `_on_failure`. No locked section awaits, so
each is atomic and the lock itself needs no model. `time.monotonic()` is a tick
counter; only its distance from `_opened_at` is kept (`elapsed`, saturated at the
timeout, `None` while `_opened_at` is). `"running"` and `"probing"` both mean in
flight; the second remembers that the call was admitted by a breaker that was not
CLOSED. `streak` and `since_probe` are history variables: the failures since the
last success and the time since the last round of probing.

Callers are not cancelled in this model: `except Exception` in `call` would not
book a `CancelledError`, and nothing in the application cancels a handler.

### PaymentService
The breaker's caller with tenacity's retry inside the guarded coroutine. A POST
that fails with an attempt left goes to sleep, the last one reraises, a body that
is not JSON ends the coroutine without a retry (`response.json()` raises before
the status is looked at and is not among the exceptions retried). The module
INSTANCEs `CircuitBreaker` on its own variables, so `ImplementsBreaker` says that
every behaviour of it, fairness included, is one of the breaker's.

### IdempotencyStore, OrderCreation, OncePerKey
`IdempotencyStore` is the table with `get`, `save` and `delete_expired`; a row has
its age in ticks. `OrderCreation` INSTANCEs it. A request passes the awaits
`get`, `products`, `payment`, `insert`, `save`; each may raise (`DbError`, a 500)
and the process may die at any of them (`Crash`). The provider is the
environment: a payment that succeeds has been taken between once and `MaxRetries`
times, one that fails between zero and `MaxRetries` times, since the reply to a
payment may be lost. An order is named by the request that made it, as its
`uuid4` is fresh. Prices and bodies do not occur in the properties. `OtherSave` is
what another endpoint may do to the table: save a reply of its own.

`OncePerKey` is the abstract promise of a key to a client: it makes at most one
order, is not charged once it has, and its 201s name that order. The code keeps
it as long as no POST of the key overlaps another or fails and its row is not
purged or taken by another endpoint; from then on the promise of that key alone
is void. `purged` and `overlapped` are the history this takes, and the refinement
mapping (`Promise`) stands at the end of `OrderCreation`.

### UserRegistration
`POST /users/` with its awaits `get`, `insert` and `save`, and the system of both
endpoints: `SystemNext` interleaves the handlers of `OrderCreation` with these over
the one table of keys, and a crash takes all of them. `ImplementsOrderCreation`
says that the system is a behaviour of `OrderCreation`, where a registration that
saves its reply is an `OtherSave`; whatever is proved of `OrderCreation` therefore
holds beside registrations. The unique index on the email decides between two
registrations, as `UserRepository.create` leaves it to do.

### OrderStatus, OrderLifecycle
The awaits are `read` (`get_by_id` and the check of `_TRANSITIONS` on what it
read), `write` (the UPDATE, with no condition on the status it replaces), `reread`
and `notify` (XADD). `get_by_id` also reads the products of the order; they play
no part in the check. `reached`, `written` and `overlapped` are history.
`OrderLifecycle` is the abstract promise: advance one step, announce it, and only
then the next. An order keeps it until PATCHes of it overlap or one of them fails;
what befalls another order does not matter.

### OrderQueries
One action per read of a listing (the count, the page, the products of each row)
and of `GET /orders/{id}` (the row, its items), beside the transaction of
`OrderRepository.create`, whose INSERTs become visible together at its commit.
An order is named by its rowid: those up to `last` are committed, and a SELECT
without ORDER BY gives them in rowid order, as SQLite scans the table. The orders
up to `legacy` have no user, as the migration that added `user_id` leaves the rows
it finds; `_to_entity` raises on such a row and `get_detail_by_id` does not. A client walks page after page until it has as
many orders as the total it was last told.

### Migrations
The nine revisions as data: each is a sequence of statements (`Upgrades`,
`Downgrades`), with `Succeeds` and `Effect` for what SQLite makes of one. A
`batch_alter_table` that recreates is its four statements: a temporary table, the
copy of the rows, the drop, the rename. `RunStatement` gives a statement the
transaction it has in the code: pysqlite opens one at the first DML only, so DDL
before the copy is on disk at once, and what follows is kept or lost with the
commit that also writes `alembic_version`. A death rolls the open transaction back
and leaves the rest: `begun` is that transaction, `work` the tables as it sees them.
Columns carry what the revisions change about them: type,
default, nullability, uniqueness. Foreign keys are left out because the database
never enforces them (no `PRAGMA foreign_keys`); c1d2e3f4a5b6 adds `user_id`
without the one that `src/TECHNICAL_DESIGN.md:895` names. `SchemaAt` (with
`TablesOf`, `ColumnsOf`) says what an upgrade to each revision makes, independently of
the scripts. `cut` is history: whether a revision was cut off between its first
statement and its commit.

### Catalogue
`seed_catalog` (a count, then an INSERT per entry, each committed by itself) and
`GET /menu/` (three reads: the number of distinct names, a page of them, the
products of those names). A name may belong to several entries, which is the
reason why the third read exists.

### Deployment
The life of the container: `alembic upgrade head`, then `lifespan` with connect, seed,
the two tasks, serving, and a stop that cancels and awaits the tasks and
disconnects. It composes `Migrations` and `Catalogue`, which share `pc`. The worker may
fail while it creates its group; its exception is only raised when the stop
awaits it. `Die` is a crash at any point. `StartDowngrade` is a downgrade run by
hand while no server runs.

### NotificationWorker
Entries are numbered in XADD order; the group has `last_id` and, per pending
entry, its idle time. A batch is a set whose least element is delivered next. A
Redis call that raises may or may not have taken effect. A crash (or the end of a
lifespan, which cancels the task) returns the worker to its start and leaves the
pending list. All workers share one consumer name, as in the code.

### TokenRevocation
The clock has whole seconds and a flag for the fraction: jose compares `exp` with
whole seconds, so a token still decodes in the second that `exp` names, while
`delete_expired` compares `expires_at` with the microsecond clock. A request is decoded by the
role middleware (`Receive`) and again by `get_current_user` (`Guard`), the
denylist is then awaited (`Check`), and sign-out awaits its INSERT (`Revoke`).
The purge loop has its three awaits and its handler of exceptions. `signed_out`
and `too_late` are history: tokens that were signed out, and requests that came
after that. Users, passwords and roles change no state and are left out.

## 3. The runs

| Run | Question | Result |
|---|---|---|
| `CircuitBreaker` | 4 overlapping callers, threshold 3, timeout 2 | holds, with recovery |
| `PaymentService` | 2 callers with 3 attempts each: an implementation of the breaker? | holds |
| `OrdersAndUsers` | 2 `POST /orders/` and 2 `POST /users/` over one key, errors, crashes, purge | holds, with `OrderCreation` and `OncePerKey` implemented |
| `OrderCreation_overlap` | one order per key when POSTs overlap? | violated |
| `OrderCreation_expired` | does an expired key work like a fresh one? | violated |
| `NotificationWorker` | 1 worker, 4 entries, 2 faults of any kind | holds, with settlement |
| `NotificationWorker_startup` | is everything settled when Redis is away at start? | violated |
| `OrderStatus` | 4 overlapping PATCHes of two orders, every fault | holds, with `OrderLifecycle` implemented |
| `OrderStatus_stale` | does a status only move forward? | violated |
| `TokenRevocation` | 3 requests with one token, purge, one fault | holds, with an empty denylist in the end |
| `OrderQueries` | a walk beside 7 orders, up to 2 of them old | holds |
| `Deployment` | from any revision, with rows, crashes and downgrades at any statement | holds, and every start and stop ends |

### Bounds

- *Breaker.* Threshold 3 leaves room for a count that is neither zero nor full;
  four callers allow two late outcomes to meet two concurrent probes. Timeout 2
  separates "just opened", "waiting" and "may retry". Counters saturate where
  the code no longer distinguishes values.
- *Payment.* Two callers suffice for one probe and one stray call; `MAX_RETRIES`
  has its real value 3.
- *Orders and users.* Two POSTs of each endpoint: each can race its like, race the
  other endpoint, or come after the row expired or the process restarted. A row is
  fresh (age 0), at the limit (1) or past it (2). Two emails, so that a
  registration is refused in some interleavings and not in others. One payment
  attempt: how often the provider takes the money is not told apart here.
- *Order queries.* Clients only read, so what one sees does not depend on another:
  one client suffices. Seven orders in pages of two make four pages, with commits
  before, between and within them; up to two of the orders are without a user.
- *Deployment.* One row or none in each table that an upgrade may find filled tell apart
  what the statements tell apart (empty or not). Four entries of three names, in
  an order that is not alphabetical, in pages of two names.
- *Worker.* Four entries in batches of two: a claimed batch, a new batch and a
  rest. IdleLimit 2 lets the deliveries of one batch outlast the limit. Two
  faults: one to leave an entry behind, one to strike its redelivery.
- *Status.* Three transitions need three PATCHes; the fourth is the stale one. The
  second order is there to show that its mishaps do not void the first's promise.
- *Tokens.* Lifetime 1 and MaxTime 3 give instants before, in and after the second of
  expiry; three requests are two racing sign-outs and a latecomer.

Deadlock is checked in all runs but `OrderQueries`, where everything stops once the
client has its answer and all orders are stored. The others run on because time
passes, because Docker restarts the container, or, in `OrderStatus`, through the
stuttering step `Done` once every PATCH has ended. Symmetry (requests, registrations,
PATCHes, orders) is declared only where a run has no liveness property.

TLAPS proves the type invariants; only the runs `OrderQueries` and `Deployment` check
theirs as well.

### Fairness

Fairness is asked only of what the runtime keeps going by itself: time; an HTTP
request, which ends by its 10 s timeouts; a backoff, a timer; the worker's await
of a running task; the purge loop, which outlives its exceptions. In `Deployment`
it is asked of the process that is under way (`Advance`), of the event loop's delivery of a cancellation to the worker (`WorkerEnds`), and of
Docker's restart of a container that has ended (`Start`). Nothing is
asked of clients, and faults are bounded in a run but never obliged to occur or to cease.
`Recovers` states its own premises (calls stop failing, callers keep coming).

## 4. What the code does against what is written

Four runs end in a counterexample; `PROJECT.json` quotes the sentences.

1. **Overlapping POSTs of one key are both charged** (`OneOrderPerKey`). Lookup and
   save are four awaits apart and nothing reserves the key. The loser of the
   save is told 500 although it was charged and its order exists.
2. **An expired key fails until the purge has run** (`ExpiredKeyIsFresh`). `get`
   ignores the row, `save` conflicts with it: charged, ordered, 500.
3. **The worker does not survive a start without Redis** (`EventuallySettled`).
   Only `ResponseError` is caught around XGROUP CREATE; any connection error ends
   the task and the process serves on without it.
4. **A status can move backwards** (`ForwardOnly`). The UPDATE has no condition on
   the status that was read two awaits earlier.

Reading and modelling showed more, for which there is no run of its own:

- HALF_OPEN admits every caller, not "one probe request"
  (`src/TECHNICAL_DESIGN.md:678`); `HalfOpenHasProbe` and `ProbeSpacing` say what
  does hold.
- A call admitted before the trip that succeeds afterwards closes an OPEN breaker
  at once, without a probe (`src/README.md:56`).
- A 5xx whose body is not JSON fails the payment with no retry, though failure is
  documented as "after all retries exhausted or circuit open"
  (`src/TECHNICAL_DESIGN.md:666`).
- A crash, or a Redis error, between the UPDATE and the XADD loses the
  notification for good (`src/TECHNICAL_DESIGN.md:719`); `AnnouncedIsWritten` is
  an inequality for that reason.
- In the second of its expiry a signed-out token may be accepted, when its row is
  purged before the token stops decoding; `LateRequestsRefused` has that boundary as
  its exception. And of two overlapping sign-outs one is answered 500.
- A crash or an error between the INSERT of a user and the save of the reply: the
  retry of that key is told 409, though it is the retry of a registration that
  happened. `RefusedIsNotRegistered` speaks of the POST that is refused, not of its key.
- A key sent to both endpoints is served the reply of the other one.
- One order from before `user_id` makes every page of a manager's listing that
  contains it a 500 (`FailsByLegacyOnly`), and likewise a PATCH of it, whose
  `get_by_id` converts it too.
- The listings have no ORDER BY. `WalkSeesAll` holds because SQLite scans by rowid
  and no code deletes an order.
- A crash between DDL that is already on disk and the commit of its revision stops every
  later upgrade ("table already exists"), and with it the container, though
  migrations are said to run automatically (`src/README.md:95`). Users that
  registered before passwords existed stop the upgrade to 5be22fd743cf as well; by
  `OnlyUsersStopUpgrades` nothing else does. The downgrade of 66a4beac4f38 fails on
  a database with orders, after it has left a temporary table behind.
- A start that dies while it seeds leaves a part of the catalogue for good:
  `CatalogueIsWhole` has that as its exception.
- A worker that failed raises its exception at the stop, and both disconnects are
  skipped (`StopDisconnects`).

## 5. What is proved

The `*Proofs` modules hold the theorems; all are for arbitrary constants that
satisfy the named assumptions, which TLC evaluates in the runs.

- **CircuitBreakerProofs.** The invariant adds to the listed properties
  `OpenSinceProbe`: a breaker that is OPEN opened no earlier than its last probing
  began. `ProbeSpacing` needs it, since a late failure of an old call could
  otherwise reopen the breaker with an old time. That the count equals `streak` carries
  `TripsOnConsecutiveFailures` through failures that end in HALF_OPEN and OPEN.
- **PaymentServiceProofs.** Every step maps to a step of the breaker or a stutter
  (`Refinement`), so the breaker's invariants hold of it (`BreakerSafety`). The
  remaining invariant ties attempt numbers and phases to the breaker's calls.
- **OrdersAndUsersProofs**, first for order creation. `Progress` records what a handler has done by the await it
  is at (charged from `insert` on, stored at `save`); without it, none of the
  properties is inductive. `RowsStay` and `SameKeySameOrder` follow from it
  and from the primary key: `AgreesWithRow` says that every 201 agrees with
  the row of its key until the purge takes that row.
  `OneOrderIsPromised` is the refinement of `OncePerKey`: its invariant says what
  the one running POST of a key that is not void has done so far, and every step
  either leaves the promise alone, takes one of its steps, or voids the key.
  Then for registration beside it. `SystemIsOrderCreation` maps every step of the composed
  system to a step of `OrderCreation` or a stutter, so its theorems are inherited
  (`PromiseBesideUsers` for one). The invariant ties a row of the table to the user
  or order it names and, with `UserAgreesWithRow`, gives `OneReplyPerKey` over
  both endpoints.
  Two theorems say where the code's promises end. `SecondOrderHasCause` is the other side of
  the run `OrderCreation_overlap`: a key that is not `Spent` (no overlap, no expired or
  purged row, no handler stopped between the INSERT and the save) has one order at most; the
  invariant `PromiseInv` of the refinement carries it. `ChargesAreOwn` follows from
  `PaysItsOwn`, which relates what a POST was charged to what it was told: `Progress` says
  that a lookup comes before the charge, so a 201 from the cache is one nobody paid for.
- **OrderStatusProofs.** `Checked`: a handler past its check writes a status whose
  predecessor the order has had. It survives stale writes because `reached` only
  grows, which is why nothing is skipped although orders may move backwards.
  `AnnouncedIsWritten` is proved with the cardinality of the handlers that have
  written and not yet announced. `LifecycleIsKept` is the refinement: of an order
  that is not void at most one handler is under way (`OneAtATime`), and how far the
  order's announcements lag behind its status is told by where that handler is.
  `OnlyOverlapGoesBack` and `OnlyOverlapRepeats` are the other side of the run
  `OrderStatus_stale`: without an overlap no fault, death or repeated PATCH moves a status
  back or announces it twice. The invariant `Steady` is stronger than `Checked`: what such an
  order has reached is what lies up to its status, each by one UPDATE.
- **NotificationWorkerProofs.** An entry at the acknowledgement was confirmed or
  exhausted (`Progress`), so `NoneLost` holds for any number of workers sharing
  the pending list, though the run has one.
  Its second half is for one worker (`Lone`), as the code is deployed: an entry that
  may be delivered again was confirmed at most once per fault (`Counted`), and
  without faults nothing is pending but its batch (`Held`); with the first,
  `DuplicatesCostFaults`, with the second, `InOrder` is inductive.
  `SettledForGood` is for any number again: no step of a worker, no claim of its idle
  entries and no restart brings back an entry that was acknowledged. Workers may still
  POST an entry that another has settled, if they had claimed it before.
- **TokenRevocationProofs.** `Known` says of a latecomer that passed the denylist that its
  token is past its expiry; with `DenylistHolds` that gives `LateRequestsRefused`
  and, through the primary key, `OneSignOut`.
- **OrderQueriesProofs.** What a client has been sent is an initial part of its listing (`Leads`),
  as long as its offset; a page is what comes next (`Cut`), and commits add behind
  both. That gives `WalkSeesAll` and `ShortPageIsLast`; a committed order keeps its owner
  and its products, which gives `NoneBare` and `FailsByLegacyOnly`. For any page size,
  any number of clients and orders, and any part of the orders old.
- **DeploymentProofs.** In five parts.
  *Rows.* The scripts are well formed: the statements of a batch come one after another
  (`WellFormed`). Of a revision under way, `Aligned` says that after the copy the
  temporary table has the rows of the table, that the drop and the rename happen in
  the transaction, and that what is on disk still has the rows of the beginning.
  `RowsAreKept` follows, for any stored rows and with a death at any statement.
  *Catalogue.* The seed has inserted the entries up to `seeded`, or a start was halved. The
  pages of a menu walk are `Upto`: the names with fewer than `k` names before them.
  *Stops.* Connections outlive the process only with a worker that failed.
  *Columns.* The columns that a statement leaves do not depend on the rows
  (`SchemaFollows`), nor does its success, unless it adds a required column
  (`FitsSucceeds`). `RevisionsPass` walks each of the eighteen scripts from `SchemaAt`
  of its revision to that of the next, and finds that every copy of an upgrade fills its
  required columns. The invariant `SchemaInv` says that a revision under way is on that
  walk (`OnTheWay`), and that an upgrade past its first statement has left on disk what
  that statement will not run on (`NoRestart`). Hence an upgrade that was cut off
  stops every later one (`CutUpgradeStays`), the server never starts on its tables (`ServerHasModels`), one
  statement alone stops an upgrade that was never cut off (`OnlyUsersStop`), and what a
  downgrade ends at is what an upgrade makes (`DowngradesRestore`).
  *Endings.* `StepsLeft` counts what is left of a start or a stop: the statements and the
  commit of each revision still to come, the INSERTs of the seed, the tasks to await. It is
  at most `Len(NameOf) + 103`, it is 0 exactly where the process serves or has ended, and anywhere
  else the guard of a step holds (`NothingBlocks`, by `TaskInv`: whatever `lifespan`
  awaits was cancelled or is over). Every step lowers it (`EveryStepCounts`).

## 6. What is only model-checked

Liveness (`Recovers`, `SettledWhileRunning`, `DeniedRowsGo`, `Settles`, the
fairness part of `ImplementsBreaker`) is out of the prover's reach. Of `Settles`
the part that needs no fairness is proved (`NothingBlocks`, `EveryStepCounts`): a start
or a stop has only so many steps; that they are taken is the fairness, which TLC assumes. `DeniedRowsGo`
also stands for the expired idempotency rows: one loop deletes both.
Every invariant and every action property of the passing runs is a theorem; the four runs
that end in a counterexample check what the code does not keep. The invariants the
proofs rest on (`IInv`, `SchemaInv` and the others) are stated in the `*Proofs` modules
and are not repeated in the runs.

## 7. Assumptions of the models

- One SQL statement, one transaction of `OrderRepository.create` and one Redis
  command are atomic.
- A handler is not cancelled from outside; a lost client changes nothing.
- Whether the client received a response that was sent is not modelled: `reply`
  is what the handler returned. Dying after the last statement and before the
  response is the step of that statement.
- Redis keeps its data. That a running worker meets NOGROUP for ever after a loss
  of data is listed as a hazard without a property.
- A bound (`MaxAge`, `MaxMessages`, `MaxTime`, `MaxFaults`) limits a run and not
  the program; the theorems hold for every value of it.

## 8. Not modelled

The rate limiter is the slowapi library and only configured here. The legacy
`NotificationService` is wired to nothing. Settings, schemas and the health check
keep no state; validation is an outcome of the first action. Within the modelled
components: password hashes, roles and prices, which decide nothing in the
properties; `GET /users/{id}`, one read; alembic's offline mode, which changes no
database; whether the payment provider takes a payment twice, which the code
gives it no means to notice.

## 9. Plan

Done, in this order: breaker, payment service, store and order creation with their
abstract promise, status with its lifecycle, worker, tokens and purge; then
registration and its composition with order creation, the two refinements and
their proofs, order queries, migrations, catalogue and deployment, and the proofs of
these: every invariant and action property of the runs is a theorem. Last, the theorems
that bound what the code does not keep, and those towards liveness.

What could follow:

1. `StatusNotifications`: `OrderStatus` and `NotificationWorker` composed over the
   stream; a written status reaches the notification service unless a crash
   hits the gap, attempts are exhausted or no worker runs.
2. A Redis that may lose its data; the worker with two processes under TLC.
3. Two containers that start together: both migrate, both seed.
4. Proofs: a count of steps like `StepsLeft` for the worker and for the handlers of the
   orders; what `InOrder` becomes for more than one worker, with faults.
