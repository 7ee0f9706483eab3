# SwiftSeat in TLA+

SwiftSeat is a ticketing backend: events with numbered seats, reservations that
hold seats for ten minutes, payments that turn a reservation into tickets, and
a server-sent-event stream that announces seat changes.  This directory holds
TLA+ models of it, the TLC configurations that check them, and proofs that
TLAPS checks.  Paths below are relative to the repository, which is `src/` in
`PROJECT.json`.

Covered are the three database transactions that write the seat inventory with
the locks they take in PostgreSQL, the abstract ledger they implement, the seat
service above them, the live feed, the life of events with their images and the
process around them, the cached listings, the admin's pages, accounts and tokens,
and the rate limiter.  Every invariant, every action property and the refinement
that the runs check are proved for all values of the constants (see *Proofs*);
liveness is model-checked.

## The system

| Part | Code | State | Operations |
|---|---|---|---|
| Seat transactions | `internal/repository/seet_repo.go` | tables `seats`, `seat_statuses`, `reservations`, `reservation_seats`, `tickets`; row locks | `CreateReservation`, `ExecutePaymentTransaction`, `CleanupExpiredSeats`, reads |
| Cleanup worker | `internal/pkg/worker/clean_up.go` | a ticker | `Start` runs `CleanupExpiredSeats` on every tick; `Stop` is never called |
| Hub | `internal/sse/hub.go` | the map of registered channels, a mutex | `Register`, `Unregister`, `Broadcast` |
| Stream handler | `internal/handler/stream.go` | one buffered channel and one body writer per connection | `StreamEvents` |
| Seat service | `internal/service/seet_service.go`, `internal/handler/seat_handler.go`, `internal/pkg/ticket` | none of its own | `HoldSeat` and `ConfirmPayment`: transaction, then broadcast; reads |
| Event service | `internal/service/event_service.go`, `internal/repository/event_repo.go`, `internal/handler/event_handler.go` | table `events`, image files, goroutines that create seats | create, update, delete, list |
| Closing job | `internal/pkg/worker/close_event.go` | a cron entry | marks past events finished |
| List cache | `internal/database/redis.go` and its callers | Redis keys with ten minutes to live | get, set, delete |
| Users and tokens | `user_service.go`, `user_repo.go`, `seed.go`, `jwt_helper.go`, the middlewares | table `users`; the role inside each token | register, login, change role, seed the admin |
| Rate limiter | `internal/router/router.go` | counters per key and window | five reservations per window |
| Start and shutdown | `cmd/main.go`, `internal/server` | the wait group of the background goroutines | wiring, shutdown |
| Configuration, connection, validation, errors, API docs | `config.go`, `db.go`, `validator.go`, `errors.go`, `cmd/docs` | none | pure I/O and formatting |

How the parts meet.  A handler runs per request, concurrently with all others
and with the two background jobs (cleanup every interval, closing every night).
Seat requests meet only in the database: the transactions of `seet_repo.go` read
and write the same rows and are kept apart by row locks and nothing else.  After a commit the service calls the hub, which
copies the message into every registered channel under its mutex; one writer
goroutine per connection drains its channel.  The event service writes events
and seats and forgets cache keys; the listings read through the cache.

What is hard in it:

* two clock readings in one protocol: a hold is checked against `expires_at`
  at one instant and acted on later, after a wait for a lock of any length;
* three transactions that lock the same rows, one row at a time and in
  different orders (`seats` then `seat_statuses`, or the reverse), so that
  deadlocks and their victims are part of normal operation;
* statements that fail half-way, clients that retry, refs that collide;
* channels that two goroutines may close, that are full, or that are closed
  while somebody reads them;
* events in the middle of being created when the process dies, lists cached
  before and stored after an update, roles frozen in a token.

What makes each part correct, as far as the code makes it so (the runs below say
where it does not):

* *Transactions*: one live hold per seat; a live hold is not taken away; a
  payment writes all its tickets, once; a sold seat stays sold; expired seats
  come back; every request ends.
* *Hub and stream*: no panic; a client sees consecutive broadcasts or none; the
  writer ends.  That every connected client is served is not so, see Findings.
* *Seat service*: what is announced is what was committed.
* *Event service*: an event ends up active with all its seats or failed with
  none; only an update that writes back the status it has read undoes a status;
  an image is lost only to an update that did not finish.
* *Cache*: a listing is stale for a bounded time only.
* *Users*: a demoted admin loses the admin's rights within the life of a token; a
  restart succeeds unless no admin is left and the seeded address is taken.

`PROJECT.json` lists the hazards one by one with their lines and the properties
that cover them.

## Modules

| Module | Role |
|---|---|
| `SeatTransactions` | the three transactions, statement by statement |
| `SeatLedger` | abstract: what they promise, each as one atomic step |
| `SeatBooking` | the seat service: requests over the ledger, and what is broadcast |
| `SeatStream` | hub, request handlers, body writers |
| `EventService` | events, images, the goroutine that makes seats, the nightly job, the process |
| `EventListings` | the cached listings: readers, writers, expiry, failures of Redis |
| `EventPages` | an admin who reads the list of events page by page while it changes |
| `Accounts` | registration, login, roles, tokens, the seeded administrator |
| `RateLimit` | the limiter of `POST /api/seats/reserve` |
| `MC...` | each of them for TLC: constants that a `.cfg` cannot write, and symmetry |
| `SeatTransactionsProofs` | the transactions: their invariants, payments and tickets, that they implement the ledger, and why one seat alone is no cause of a deadlock |
| `SeatBookingProofs`, `SeatStreamProofs`, `EventServiceProofs`, `EventListingsProofs`, `EventPagesProofs`, `AccountsProofs`, `RateLimitProofs` | invariants and action properties of these modules |

`SeatBooking` is built on `SeatLedger`, and `SeatTransactions` implements
`SeatLedger`: what is shown of the service above the ledger is therefore shown
of the service above the transactions, as far as the two share state.

Operators marked "Mutant" in a comment are plausible bugs of the definition that
follows them.  No action uses them; substituting one for that definition must
break the property it is paired with in `PROJECT.json`.

### SeatTransactions (`internal/repository/seet_repo.go`)

State and code:

| Variable | Code |
|---|---|
| `clock` | `time.Now()` |
| `status[s]` | the committed `seat_statuses` row of seat `s`: `status`, `reserved_by`, `expires_at` |
| `resv[r]` | the `reservations` row `r` with its `reservation_seats`; `open` means inserted and not committed |
| `tickets` | committed `tickets` rows: seat, reservation, the request that wrote it, `created_at` |
| `seatLock`, `keyLock` | `FOR UPDATE` and foreign-key (`FOR KEY SHARE`) locks on `seats` rows |
| `statusLock`, `resvLock` | locks on `seat_statuses` and `reservations` rows |
| `rpc[r]`, `pay[p]`, `sweep` | where each transaction is, and its local variables |

Actions and code:

| Action | Statement |
|---|---|
| `BeginReservation` | `GenerateTicketRef`, `BEGIN`, `INSERT INTO reservations` (17-34) |
| `LockSeat`, `SeatsNotFound` | `SELECT ... FROM seats ... FOR UPDATE`, the 404 (37-46) |
| `LockStatus` | `INSERT INTO reservation_seats`; `SELECT ... FROM seat_statuses ... FOR UPDATE` (48-71) |
| `SeatConflict`, `Validate` | the two 409s of the loop (73-80) |
| `CommitReservation` | the updates of the loop and `COMMIT` (82-104) |
| `BeginPayment` | `now`, and the row that `First` finds (113-124) |
| `RejectPayment`, `LockReservation` | its `FOR UPDATE`; 403, 410, 409; mark paid (126-146) |
| `SellSeat` | `UPDATE seat_statuses` (160-174) |
| `StampTickets`, `ShareSeatKey`, `CommitPayment` | `INSERT INTO tickets` and `COMMIT` (176-207) |
| `BeginCleanup`, `CleanRow`, `CommitCleanup` | the one `UPDATE` of the cleanup (211-236) |
| `Fail` | any error, lost connection or crash: rollback |
| `DeadlockVictim` | PostgreSQL's deadlock detector |

Choices that a reader may want to argue with:

* *Isolation.*  gorm's transactions run at PostgreSQL's default, READ
  COMMITTED.  A transaction's writes become visible at its `Commit...` action.
  Before that the only trace of them is the row lock, so the model keeps the
  lock and applies the writes at commit.  A statement that waited for a row
  looks at the row as it is when the lock is granted; `LockReservation` and
  `CleanRow` therefore check at that moment, while the *clock* they compare
  with (`now`, `sweep.now`) was read earlier, as in the code.
* *Row order.*  No query has an `ORDER BY`, so rows are locked one at a time in
  any order, and an action locks one row.  The model lets a statement choose
  any row that is free, and counts a transaction as blocked when it has none:
  every order of acquisition that ends in success is a behaviour.  A real scan
  that meets a taken row waits for that row even though another is free; the
  cycles this adds need two rows taken by each other and are the ones
  `Deadlocked` finds one acquisition later.
* *The validation loop* reads the clock again for each row and updates the row
  before it looks at the next one.  Both are one step here, `Validate` or
  `SeatConflict`, since the row is locked by then: it cannot change, and as
  time passes it can only turn from held to free.  Hence a loop that succeeds
  has the same result as one check at its end, and one that fails writes
  nothing.
* *Seat numbers* that the event does not have are modelled by seats of another
  event (`s0` of `e2` in the runs); both give fewer rows than numbers, hence the
  404.  A number given twice, or an empty list, is refused too (by the count, or
  by the empty insert) and left out.
* *Refs* are drawn from 900000 values with no unique index.  `Refs` is a small
  set, so that collisions happen; `First` takes the lowest id.
* *Foreign keys.*  `tickets.seat_id` refers to `seats`, so inserting a ticket
  takes `FOR KEY SHARE` on the seat, which conflicts with a reservation's
  `FOR UPDATE`; that closes the lock-order cycle of a payment and a
  reservation.  The keys of `events` and `users` are only ever share-locked and
  are left out.
* *Failures* may strike any running transaction in any state.  All of them, a
  crash included, end in a rollback, since these transactions keep no state
  outside the database.
* *A sweep that selects no row* changes nothing and is not a step.
* *One clock.*  The database and the server share it; gorm fills `created_at`
  from the server's clock.
* A reservation id is never reused; ids of rolled-back reservations stay used,
  as in a PostgreSQL sequence.

### SeatLedger

The abstract specification: `Reserve` takes free seats of one event and holds
them, all or none; `Pay` sells the seats of an unpaid reservation and writes
their tickets; `Return` frees seats whose hold has run out; nothing else changes
seats, reservations or tickets.  `ImplementsLedger` is `Ledger!Spec` under the
mapping that hides reservations that are not committed.  The ledger is honest
about payments: `Pay` asks nothing of the seats, because the code asks nothing.

### SeatBooking (`internal/service/seet_service.go`, `internal/handler/seat_handler.go`)

The ledger's variables, and on top of them `hold` and `pay`, the progress and
local variables of `HoldSeat` and `ConfirmPayment`, and `sent`, the messages that
the hub was given.

| Action | Code |
|---|---|
| `BeginHold` | the request fixes `expires_at` and its row takes an id (`seet_repo.go:20-34`) |
| `CommitHold`, `FailHold` | `CreateReservation` commits, after a wait for its rows of any length; or 404, 409, 500 and rollback |
| `AnnounceHold` | the row of the reservation is broadcast and the client answered |
| `BeginPay` | the payment reads the clock and finds the first reservation with the ref |
| `SettlePay`, `FailPay` | the transaction commits, refuses or is rolled back |
| `AnnouncePay` | `GetTicketByRef`, and the broadcast under the event that the *request* named |
| `Cleanup` | the sweep, which announces nothing |

The end of a hold is the start of its request plus `LockDuration`: a reservation
that waited is committed with less than that left, or with nothing, and may take
over a seat whose holder began later and has a later end.  The `exp` that
`SeatLedger` leaves open, up to `clock + LockDuration`, is that one here.

`Shown` is what `GetEventSeatMap` shows of a seat.  `told`, in the record of a
payment, is history: the reservations with that ref that its user had been told
of when it began.  `NamedAfter` is the set of
names that a sale may be announced by: `First` takes any ticket with that ref,
and when the reload fails the message has a seat's id where its number should
be.  A message about a hold does not name seats, and one about a sale names one
seat of the reservation.  A crash between commit and broadcast is a request that
goes no further.  `LockDuration` is what viper returns: 0 for a missing key.

### SeatStream

`clients` is the hub's map; `queue` and `closed` are the channels; `handler` and
`writer` are the two goroutines of a connection; `got` is what its client has
received.  Each hub method holds the mutex throughout and is one step.
`SetBodyStreamWriter` starts the body writer at once (fasthttp runs it in a
goroutine of its own behind a pipe), so that `Return`, with the deferred
`Unregister`, and the writer's steps interleave.  `writing` is the message
between the channel and the client: empty for the greeting and for heartbeats.
The client may go away at any send.  `joined`, `dropped` and `panicked` are
history: they record what the properties speak about.  A message is the number
of its broadcast; its text does not matter here.

### EventService (`internal/service/event_service.go`, `internal/repository/event_repo.go`, `internal/server`, `internal/pkg/worker/close_event.go`)

`rows` are the rows of `events` (soft-deleted ones included), `seats` the events
whose seats are committed, `files` the images on disk, `begun` the events whose
start time is past.  `create`, `seeder` and `req` are where each creation, its
goroutine and each update or deletion stand; `wg` is the `WaitGroup`, `process`
the process.

| Action | Code |
|---|---|
| `SaveImage`, `InsertEvent`, `InsertFails` | `CreateNewEvent` up to `wg.Add(1)` and `go` |
| `SeedSeats`, `Settle` | the goroutine: `CreateSeatsForEvent`, `UpdateEventStatus`, `wg.Done` |
| `FindEvent` | `FindByID` of an update or a deletion |
| `RemoveOldImage`, `SaveNewImage`, `WriteEvent` | `UpdateEvent` |
| `DeleteRow`, `RemoveImage` | `DeleteEvent` |
| `RequestFails` | an error of any of these statements |
| `CloseEvents` | `DeactivateExpiredEvents`, at any time instead of at 02:00 |
| `Crash`, `MissingImage` | the process ends; the second by the nil header of an update without an image, which no middleware recovers |
| `Signal`, `Stop`, `Start` | `server.go`: signal, `Shutdown` and `wg.Wait`, and Docker's `restart: always` |

`WriteEvent` writes the status that `FindEvent` read, since the whole struct goes
to `Updates`: the lost update is in the model, and `StatusMovesForward` says it
is the only one.  `Written` is gorm's `deleted_at IS NULL`.

### EventListings (`GetPublicEvents` over `internal/database/redis.go`)

The database is a `version`, counted by every change that is committed; a cached
entry is known by the version its events were read at, the version its seats
were counted at, its time to live, and for how long it has been out of date
(`age`).  `LookUp`, `ListEvents`, `CountSeats`, `Store` are the steps of a
request; `Write` and `Invalidate` those of an update, which deletes a key under
which nothing is stored; `ChangeUnseen` stands for the changes that touch no key
(the nightly job, reservations, payments, the cleanup); `Tick` lets entries
expire.  Redis may fail at every call, which the code treats as a miss or logs.

### EventPages (`GetEventsPaginated`, `GetAdminEvents`)

An admin asks for page after page of the list of events, which no cache is
between, while events are created or come to match the search (`List`), and are
deleted or cease to match it (`TakeOff`).  `Count` and `Find` are the two
statements of a page; `Slice` is gorm's OFFSET and LIMIT, `TotalPages` Go's
integer division, which rounds towards 0, for any limit the query may carry;
with limit 0 the request divides by zero (`DivideByZero`).  A walk begins at
page 1.  Events keep their `start_time`: an update passes the zero time, which
gorm's `Updates` skips.

The public list uses the same two statements, but keeps every page in Redis for
ten minutes, each from when it was first asked for.  Pages of a public walk are
therefore of different ages, and the properties below do not hold for them: a
page cached before an event was closed and a fresh one after it leave an event
out although nothing changes during the walk.  How old a page is, is what
`EventListings` says.

### Accounts (`user_service.go`, `user_repo.go`, `seed.go`, `jwt_helper.go`, the middlewares)

`role` is the table `users`; `tokens` are those that have been given out and have
time left; `login` and `change` are the requests under way; `process` is down,
seeding, up, or ended by `log.Fatal`.  `lapsed` is history: for how long a user
has been neither an administrator nor in the middle of logging in as one.
`Authorize` is both middlewares, which look at the token and at no row.

### RateLimit (`internal/router/router.go`)

`window` is the limiter's fixed window per key; `Key` is the code's key
generator, which asks the context for `userID` while `AuthRequired` stored
`user_id`.  `accepted` and `served` are history: what got through per key, and per
user, in each tick of the last window.  A restart empties the windows.

## Runs

| Run | Instance | What it asks |
|---|---|---|
| `seat_safety` | 2 seats, 2 reservations, 2 payments, 1 user, 2 refs | the safety and action properties of the transactions, and that they implement the ledger, and that single seats are no cause of a deadlock |
| `seat_progress` | 2 seats of one event and 1 seat number it does not have, 2 reservations, 1 payment; fair | every request ends; a hold that ran out is returned |
| `seat_double_booking` | 1 seat, 2 reservations, 2 payments | expects the violation described under *Findings* |
| `booking` | 2 seats of one event, 2 users, 2 reservations, 2 payments, 2 refs, a second event to name by mistake | the seat map, payments in time, announced sales |
| `stream_feed` | 2 connections, 4 broadcasts, channels of 2; fair | no panic, no gap, every writer ends |
| `stream_updates` | the same with 3 broadcasts | expects the violation described under *Findings* |
| `events` | 1 event, 3 updates or deletions, 1 crash or stop; fair | the life of an event, its seats and images; creation settles |
| `listings` | 1 query, 2 readers, 1 writer, 2 changes; time to live and delay of 2; fair | age and consistency of cached listings; the cache catches up |
| `pages` | 4 events, two of them at the same time, limits from -2 to 3, 3 changes | what a walk through the pages shows |
| `accounts` | 2 users, 2 logins, 1 change of roles, tokens of 2 ticks, 1 restart; fair | how long rights outlive the role; the server comes back |
| `limiter` | 2 users, 2 addresses, limit 2, windows of 3 ticks, 1 restart | what gets through under one key in the length of a window |
| `limiter_users` | 1 user, 2 addresses, limit 2, windows of 3 ticks | expects the violation described under *Findings* |

Properties worth knowing:

* `LiveHoldsDisjoint`, `LiveHoldIsHonoured`: the reservation protocol proper.
* `PaidExactlyOnce`: retries and races of payments for one ref.
* `TimelyTicketsDisjoint`: how far the no-double-booking promise does hold: of
  two tickets for one seat, at least one was written when its own hold was over.
* `SoldIsFinal`, `UnexpiredHoldOnlySold`: what no step may do.
* `SingleSeatContentionIsDeadlockFree`: the k6 scenario of the repository's README.
* `LocksAreOwned`, `ChecksAreStable`: the invariants behind the others; what a
  transaction has validated under its locks stays valid until its commit.
* `SeatMapIsTrue`: the seat map, the reservation and the payment compare the
  expiry each in its own way, and reservations that waited leave holds of one seat
  behind each other.  What is shown is still what reserving and paying would do,
  with one exception, which the property states and TLC produces when it is left
  out: at the very last instant of a hold, a reservation whose own end is already
  past can take the seat over; the map then shows it as available while the
  first holder would still be let pay.
* `TimelyPaymentIsAccepted`, `SalesAnnouncedAreTrue`: what the service promises
  to who pays in time, counted from the start of the request that reserved, and
  to who listens.
* `StatusTellsOfSeats`, `StatusMovesForward`, `DeletedIsFinal`,
  `LiveEventHasItsImage`, `StopWaitsForTasks`: what survives the unlocked
  read-modify-write of updates, crashes, and the goroutine in the background.
* `StalenessIsBounded`: an entry that is stored late does not get a full life on
  top; `CountsFollowList`: an event that has just become active is not cached as
  sold out, unless counting failed.
* `WalkIsComplete`, `WrongOnlyBehindAShift`: when a walk shows each event once,
  and what it takes for an event to be missed or shown twice.
* `RightsLapse`: the rights of a demoted administrator end TTL after the demotion
  or after the login that overlapped it.
* `BurstIsBounded`: two full windows at most get through under one key in the
  length of one, and one more per restart.  It speaks of keys, so that it holds
  whether the key is the user, as intended, or the address, as it is.
* `EveryRequestEnds`, `ExpiredHoldIsReturned`, `EveryStreamEnds`,
  `CreationSettles`, `CacheCatchesUp`, `ServerComesBack`: liveness.

Bounds, and why they are enough:

* `LockDuration = 1` (`Configured = 1` in `SeatBooking`) with `MaxClock` 2 or 3.
  What the code distinguishes is whether a hold ends after, at or before an
  instant; a hold taken at 0 is seen in all three positions, and a seat can be
  taken over and run out again.  Reservations begin early enough for every hold
  to end inside the bound (in `seat_safety`, `seat_double_booking` and `booking` at 0
  or 1, so that a slow reservation can take over, at 2, the seat of one that began
  after it; in `seat_progress` at 0), so that no liveness property holds because time
  stopped.
* Two reservations and two payments are the least with which a ref is paid
  twice, refs collide, and a late payment meets a successor's hold.  Two seats
  are the least for which the lock order matters, and for which a sale has a
  seat that its message does not name.  In the runs of `SeatTransactions` one user
  makes all requests, and that of another is refused in `booking`; who asks plays no
  part in locking, and the proofs are for any number of users.
* `Buffer` is 2 instead of 10: full, neither full nor empty, and empty are all
  reached.  Four broadcasts fill a channel, overflow it and go on.
* One event and three requests: two events share no state but the process and its
  counter; three requests let two updates and a deletion, or three updates,
  overlap with the goroutine and the nightly job.  The proof is for any number.
* Two readers of one query and one writer: one reader stores what the other has
  made stale.  Keys do not interact.  `MaxDelay = TTL = 2` lets an entry be as old
  as it can become when it is stored and live on from there.
* Four events with limits up to 3 have walks of one, two and four pages; three
  changes shift pages in both directions.
* Two logins and one change, with tokens of two ticks, let a login that began
  before a demotion end after it and its token outlive others.
* A limit of 2 in windows of 3 ticks: the bound of two windows is reached.

Clocks, restarts, broadcasts, versions and changes are bounded in the guards by
`MaxClock`, `MaxStops`, `MaxMessages`, `MaxVersion` and `MaxChanges`.  Where the
system stops when these are used up, the run says `CHECK_DEADLOCK FALSE`; being
stuck *before* that is what the liveness properties exclude.  Symmetry is used in
runs without liveness only.

### Fairness

`SeatTransactions`: time passes; a transaction that has a row it can lock gets
on (PostgreSQL queues waiters, and since requests are finite in the model weak
fairness is enough); the ticker keeps firing; the deadlock detector runs; the
cleanup does not fail for ever (`<>[][~Fail(Cleaner)]_vars`), since it is
retried on each tick for as long as the process lives.  Nothing obliges a client
to send a request or a request to succeed.

`SeatStream`: handlers run on, a send succeeds or fails (the server's write
returns), and reading from the channel is *strongly* fair: Go's `select` picks
among ready cases at random, so it does not choose the heartbeat for ever.

`EventService`: a goroutine and a request that have begun go on, by success or by
failure; a process that waits to stop does so once it may; Docker starts one that
is down (`restart: always` in the compose file).  Requests need not come.

`EventListings`: time passes, and a request that has begun goes on.

`Accounts`: time passes; requests and the start of the process go on; the
database does not refuse to count administrators for ever.

`SeatBooking`, `EventPages` and `RateLimit` are checked for safety only, without
fairness.

## Findings

* **A seat can be sold twice** (`seat_double_booking`).  README.md:218: "The
  system guarantees that no seat can ever be booked more than once under
  concurrent load by enforcing row-level locking at the database transaction
  level."  `ExecutePaymentTransaction` reads the clock before it locks the
  reservation, compares `expires_at` with that reading after any wait, and then
  sets the seats to sold without looking at them.  A payment that is overtaken
  by its own expiry can sell a seat that a second reservation took, or even
  paid for, in between.  At the very instant `expires_at == now` no wait is
  needed: the payment still accepts the hold (`Before`), and a reservation no
  longer respects it (`After`).  `TimelyTicketsDisjoint` shows this is the only
  way, in the instance checked.
* **Connected clients stop getting updates** (`stream_updates`).  README.md:35:
  "The app broadcasts seat state changes over SSE so connected clients observe
  updates instantly."  `StreamEvents` defers `Unregister` in the handler, which
  returns as soon as the body writer is set.  The channel leaves the hub while
  the writer still streams to a connected client, and later broadcasts do not
  reach it.  The channel is closed as well, so the writer ends
  (`EveryStreamEnds`) once it has drained it.
* **Users are not limited** (`limiter_users`).  router.go:35-36: "Restrict based on
  the logged-in user ID (which we got from the JWT middleware)" and "This way, even
  if a user comes with multiple devices, they will still be limited."  The key
  generator asks for `userID` (`router.go:37`), while the middleware stores `user_id`
  (`auth_middleware.go:36`): the key is always the address, and a user has a window
  for each.  With one name for both, `UsersAreLimited` holds in the same instance.

Other disagreements between code and documents that the models show.  They have
no run of their own, since the property that would fail only restates them:

* README.md:39 says that event lists are "invalidated on updates".  Updates delete
  `events:active` (`event_service.go:156`), while listings are stored under
  `events:public:...`.  `Invalidate` deletes a key that no `Store` writes, and
  `StalenessIsBounded` is what remains: expiry alone ends staleness.
* README.md:94 calls the section of the lock duration `seatlock`; `config.go:59`
  reads `seetlock.time`.  With the README's file `LockDuration` is 0 and holds end
  at once; no property catches that, since `TimelyPaymentIsAccepted` speaks of
  whatever `LockDuration` is.
* `seat_handler.go:63` answers that the seat is reserved for ten minutes.  They are
  counted from before the transaction waited for its rows (`seet_repo.go:20`), not
  from the answer: `TimelyPaymentIsAccepted` promises them from `BeginHold` on.
* README.md:199 says that the hub broadcasts seat state changes.  Of a reservation
  of several seats one is announced (`seet_service.go:59`), the cleanup announces
  none, and the event in the message is whatever the request said
  (`seet_service.go:76`).  `SalesAnnouncedAreTrue` has the exceptions this takes.
* `event_handler.go:95` documents the image of an update as optional; without one
  the handler dereferences nil (`event_handler.go:123`) and the process ends
  (`MissingImage`).
* `event_handler.go:22` asks for positive numbers of rows and seats, but the struct
  that is validated (`event_handler.go:79`) has no such rule; an event may become
  active with no seats.
* A limit of 0 divides by zero (`event_service.go:218`, `253`), as `DivideByZero` says.

## Proofs

Eight modules prove the properties below for every value of the constants that
satisfies the `ConstantsAssumption` of the module they are about.  TLC evaluates
these assumptions in every run.

| Module | Theorem | Property |
|---|---|---|
| `SeatTransactionsProofs` | `TypeCorrect` | `[]TypeOK` |
| | `LocksOwned`, `ChecksStable` | `[]LocksAreOwned`, `[]ChecksAreStable` |
| | `HoldsDisjoint`, `HoldsHonoured` | `[]LiveHoldsDisjoint`, `[]LiveHoldIsHonoured` |
| | `SoldStaysSold`, `UnexpiredSoldOnly` | `SoldIsFinal`, `UnexpiredHoldOnlySold` |
| | `PaidOnce`, `TimelyDisjoint` | `[]PaidExactlyOnce`, `[]TimelyTicketsDisjoint` |
| | `TransactionsImplementLedger` | `ImplementsLedger` |
| | `ContentionIsDeadlockFree` | `[]SingleSeatContentionIsDeadlockFree` |
| `SeatBookingProofs` | `TypeCorrect` | `[]TypeOK` |
| | `MapIsTrue`, `SalesAreTrue` | `[]SeatMapIsTrue`, `[]SalesAnnouncedAreTrue` |
| | `TimelyIsAccepted` | `[]TimelyPaymentIsAccepted` |
| `SeatStreamProofs` | `TypeCorrect`, `HubNeverPanics`, `FeedHasNoGap` | `[]TypeOK`, `[]NeverPanics`, `[]StreamHasNoGap` |
| `EventServiceProofs` | `TypeCorrect`, `StatusIsTrue`, `ImagesKept`, `StopWaits` | `[]TypeOK`, `[]StatusTellsOfSeats`, `[]LiveEventHasItsImage`, `[]StopWaitsForTasks` |
| | `DeletionIsFinal`, `StatusForward` | `DeletedIsFinal`, `StatusMovesForward` |
| `EventListingsProofs` | `TypeCorrect`, `StalenessBounded`, `CountsAfterList` | `[]TypeOK`, `[]StalenessIsBounded`, `[]CountsFollowList` |
| `EventPagesProofs` | `TypeCorrect`, `WalksAreComplete`, `WrongOnlyBehindShifts` | `[]TypeOK`, `[]WalkIsComplete`, `[]WrongOnlyBehindAShift` |
| `AccountsProofs` | `TypeCorrect`, `RightsAreBounded` | `[]TypeOK`, `[]RightsLapse` |
| `RateLimitProofs` | `TypeCorrect`, `BurstsAreBounded` | `[]TypeOK`, `[]BurstIsBounded` |

Each proof has one shape: an inductive invariant (`IndInv`, `TicketInv`,
`LedgerInv`, `LocksInOrder`, `PagesInv`, `BurstInv` or `IInv`), a lemma that the initial states have it, a lemma per
action (or per conjunct, where few actions touch it) that a step keeps it, and
theorems that read the properties off it.  The invariants were checked with TLC
before they were proved.  None of the properties is inductive alone; what is
added, and why:

* **SeatTransactions**, `IndInv`: `TypeOK`; `LocksAreOwned` - a locked row belongs to a
  running transaction that works on that row, or a commit could free or write
  somebody else's; `ChecksAreStable`, kept because whoever changes a row needs
  its lock (`StatusChanges`) and because passing time can only expire a hold
  (`TimePasses`); `LiveHoldIsHonoured`, kept because a committing reservation has
  validated its rows, and the cleanup writes expired rows only; and
  `LiveHoldsDisjoint`, which follows for a newly committed reservation: were one
  of its seats in another live hold, the row would be held or sold, and neither
  is `Reservable`.
* **Tickets**, `TicketInv` adds `UnpaidWhilePaying` (whoever has passed the check of a
  reservation has it to itself) and `ClaimsExclude`: a timely ticket, or one that is
  stamped in time and not yet committed, excludes every other claim to the seat
  and every live hold of it.  Its step is the heart of the argument: a claim can
  only be made under a live hold, and a new hold of a seat needs a row that no
  claim leaves `Reservable`.
* **Refinement**, `LedgerInv` adds that no hold is promised for longer than a new one
  would be and that tickets carry times that have passed.  Each commit is then one
  action of `SeatLedger`, and every other step leaves the ledger's state alone.
* **Deadlock**, `LocksInOrder`: a reservation locks rows of `seats` that it asked for,
  and rows of `seat_statuses` only once it has all of those; the cleanup visits
  each row once.  A reservation of one seat that has its row of `seat_statuses`
  waits for nothing.  So among reservations of one seat each and the cleanup, in a
  circle of waiters, nobody would have such a row but the cleanup, and the cleanup,
  which waits for such rows only, could not be in it; the others would wait for a
  row of `seats`, whose owner waits for a row of `seat_statuses` that nobody in the
  circle has.
* **SeatBooking**: `HoldsAreReservations` (the expiry of a reservation is the start of
  its request plus the duration, however late it committed); `HeldOrTakenOver` (until
  a hold has run out, its seats are sold or reserved for at least as long, or, at
  its last instant, taken over by a reservation whose own end is past);
  `RowsAreAccounted` (a reserved row is that of an unpaid reservation, a sold one has
  a ticket), which gives the other half of `SeatMapIsTrue`; `ToldAreFound` (a payment
  of who was told of a reservation finds that one or an older one);
  `PaymentsFound`, `TicketsAreSales` and `SendersHaveAnswered`, which tie a message to
  a payment, its reservation, its tickets and their seats.  That a number leads to
  one seat of an event is an assumption, which `CreateSeatsForEvent` satisfies.
* **SeatStream**: `MapHasOpenChannels` - the map has open channels only, so that who
  takes a channel out of it, under the mutex, is the one who closes it - and
  `BeginsEmpty`.  `StreamHasNoGap` rests on lemmas about sequences: taking a message
  leaves received, in hand and queued together what they were; a broadcast
  appends one.
* **EventService**: `GoroutineAgreesWithRow`, `RememberedStatus` (what an update read
  before the seats were settled may be old but still says nothing false about the
  seats), `ImagesHaveOneEvent` and `SavedIsOnDisk` (no file is shared, and what is
  about to be written into a row is on disk), `TasksAreCounted` (the counter is the
  number of goroutines at work, which needs the cardinality of finite sets).
  The two action properties follow from `WhoWrites`, which says which actions
  change a row.
* **EventListings**: `ReadersKeepUp` and `MissedIsFresh`: what a request holds has been
  out of date for no longer than the request has had it.
* **EventPages**, `PagesInv`: an event with a time of its own stands in every order of
  the result just behind those that begin before it (`Position`), so that without
  ties there is one order (`OneOrder`), and page `p` shows it exactly if
  `(p - 1) * limit <= Rank < p * limit` (`PageShows`).  While the walk goes on, an
  event that stays is shown at most once, and then stands before the next page
  (`NotTwice`: what comes behind it leaves its rank, what goes can only lower it);
  if it is not shown, it stands on the next page or later (`NotSkipped`), and the
  count has counted it (`Counted`); the last page reaches as far as the count
  (`EnoughPages`).  Go's division towards zero makes a second page of an empty list
  when the limit is -1 (`NegativePages`, `NothingLeft`).  Undisturbed, the pages so
  far are the first rows of the one order (`SeenInOrder`, `PagesInOrder`).
* **Accounts**: `AdminsAreRecent`: whoever is an administrator, or is logging in as one,
  has not lapsed.
* **RateLimit**, `BurstInv`: what a key gets through in any stretch is bounded by
  the allowance of that stretch plus what its counter has used
  (`NowBounded` for this instant, `SinceOpenedBounded` for the time since its window
  opened, `BurstBounded` for one whole length of the window).  The sums are a
  recursive function; that it satisfies its equation, grows, and shifts by one when
  time passes are lemmas by induction.  The library's induction theorems take an
  operator as a parameter and cannot be used, but induction over a set of natural
  numbers (`SetInduction`) follows from the least element that such a set has, and
  the definition's equation from that (`AddsUpExists`, `AddsUpUnique`).

Only model-checked is liveness (`EveryRequestEnds`, `ExpiredHoldIsReturned`,
`EveryStreamEnds`, `CreationSettles`, `CacheCatchesUp`, `ServerComesBack`): fairness
and ENABLED are outside what the prover handles.

## Not modelled

* The reads that change nothing and promise nothing: lists of tickets, the
  home page.  (The map of seats is in `SeatBooking`.)
* How seats are numbered and priced in `CreateSeatsForEvent`: an event has seats or
  has none; `SeatBooking` assumes that a number is given once.
* Whether an event is active, over or deleted when its seats are sold: the code does
  not look, and no document says what it should do.
* Passwords, hashing and signatures: a login succeeds or not, a token is believed
  until it expires.
* Configuration apart from the key of the lock duration, the database connection,
  validation and error values, logging: input, output and formatting.
* The generated API documentation in `cmd/docs`.
* Isolation levels other than PostgreSQL's default, clocks that differ between the
  server and the database, and more than one process.

## What could follow

* `EventService` and `SeatTransactions` in one model, once the repository says what
  should become of the seats of a closed or deleted event.
* Walks through the cached pages of the public list, once a document says what they
  should show.
