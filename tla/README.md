# A verification development for the flight booking services

The repository is a flight booking system made of four C++ services (oatpp, libpq), a PostgreSQL
server, a RabbitMQ broker and a Python consumer. Its subject is fault tolerance: circuit breakers,
fallback answers, a rollback and a retry queue. This directory models the parts in which that can
go wrong, model-checks them with TLC and proves what matters most with TLAPS.

## 1. The system

| part | state | operations | talks to |
| --- | --- | --- | --- |
| Gateway (`src/src/GatewayService`) | one mutex per service (`locks`), one `CircuitBreaker` per service (`circuits`), the file `message.txt` | `FlightsGetPoint`, `TicketGetPoint`, `TicketsGetPoint`, `PrivilegeGetPoint`, `MeGetPoint`, `BuyPoint`, `ReturnPoint`, `HealthPoint` | the three services over HTTP, the broker through `publish.py` |
| Bonus Service | tables `privilege` (balance) and `privilege_history` | `BalanceGetPoint`, `PurchasePoint`, `ReturnPoint` | PostgreSQL |
| Ticket Service | table `ticket` (status PAID or CANCELED) | `TicketsGetPoint`, `TicketGetPoint`, `TicketPostPoint`, `TicketDeletePoint` (deletes the row), `TicketUpdatePoint` (cancels) | PostgreSQL |
| Flight Service | tables `flight` and `airport`, never written | `FlightsGetPoint` (paging), `FlightGetPoint` | PostgreSQL |
| Queue of returns | a durable RabbitMQ queue | `publish.py` adds, `consumer.py` calls the Bonus Service and publishes again on failure | Bonus Service |
| Database connections | one `PGconn` per service, shared by its threads | `CheckConnectAndReopenIfNeeded` | PostgreSQL |

How they interact:

* A request of a client is one handler of the gateway. oatpp's asynchronous executor has nine worker
  threads (`AppComponent.hpp:44-50`); the handlers block in mutexes and in HTTP calls, so a thread
  runs one handler to its end.
* Before nearly every call a handler takes the mutex of the service, asks that service's breaker,
  calls, tells the breaker how the call ended and releases the mutex. All calls to one service are
  therefore serialised, and the breaker, which has no synchronisation of its own, relies on that.
* A purchase is a flight look-up, a ticket and a bonus booking; a failed bonus booking is compensated
  by deleting the ticket. A return cancels the ticket and then refunds the bonuses; a failed refund is
  put into a file, published by a script and retried by the consumer.

What is hard in it: early returns between `lock()` and `unlock()`; a breaker whose behaviour is spread
over three methods and seven handlers; reads and writes of the database that are separate statements;
calls that were executed although their answer was lost; compensations that fail themselves; a shared
file between concurrent returns; a consumer that republishes; a database that restarts under an open
connection; pages computed with signed and unsigned numbers of two widths. `PROJECT.json` lists these hazards at
their lines, with the properties that watch over them, or a note why there is none.

What makes each part correct:

* **Gateway**: guarded calls of one service never overlap; every mutex is unlocked on every path;
  breakers open after the configured number of failures, refuse only then, and try again after the
  pause; threads remain to serve requests.
* **Bonus Service**: the balance is never negative and is what the history rows add up to; a refund
  undoes its purchase, once.
* **Ticket Service, booking as a whole**: a PAID ticket has a bonus booking, a deleted or cancelled one
  has none or a refunded one, now or after the queue is drained.
* **Queue**: every return that was answered with success is refunded in the end, and not again by what is retried or comes twice.
* **Connections**: no query on a connection that was freed; after a restart of the database, service comes back.
* **Flight Service**: a page is that slice of the list, whatever number is asked for.

## 2. The modules

| module | what it is |
| --- | --- |
| `BreakerOps` | the methods of `CircuitBreaker` as operators on a record of its fields |
| `Gateway` | threads, mutexes, breakers and all the handlers |
| `AbstractBreaker` | what a circuit breaker promises its callers |
| `MCGateway` | instances of `Gateway` for TLC |
| `GatewayProofs`, `GatewayBreakerProofs` | theorems about `Gateway` |
| `BonusLedger` | what the Bonus Service promises: atomic purchases and returns, and what callers can count on then |
| `BonusLedgerProofs` | theorems about `BonusLedger`, for whoever instantiates it |
| `BonusService` | its threads, with the reads and the transactions of `PGBonusRepository` |
| `MCBonus` | instances of `BonusService` for TLC |
| `BonusProofs` | theorems about `BonusService` |
| `Connection` | `PGConnection` and the `PGconn` a repository keeps, under restarts of database and service |
| `FlightService` | the Flight Service over `Connection`: pages and single flights |
| `MCFlight` | an instance of `FlightService` for TLC |
| `FlightProofs` | theorems about `FlightService` and `Connection` |
| `Booking` | a purchase and a return across gateway, Ticket Service, the threads of `BonusService` and the queue |
| `MCBooking` | instances of `Booking` for TLC |
| `BookingProofs`, `BookingFaultProofs` | theorems about `Booking`: under every fault, and under those the code is written for |
| `GatewayBooking` | `BuyPoint` and `ReturnPoint` in full: `Gateway`'s threads, mutexes and breakers on `Booking`'s tables, queue and consumer |
| `MCGatewayBooking` | instances of `GatewayBooking` for TLC |
| `GatewayBookingProofs` | the theorem that `GatewayBooking` implements `Booking`, and what it inherits from it |

Some operators are preceded by a *mutant*: a wrong version of the same operator, as a plausible slip in
the code would make it. No specification uses them; each shows, put in place of the right
one, that a property notices the slip (`PROJECT.json`, "mutants").

### Gateway

State: `lock` is the owner of each mutex; `breaker` holds each breaker's fields; `phase`, `endpoint`,
`todo` and `answer` are a thread's place in its handler. A handler is a *plan*: the sequence of
calls it makes. Reading the seven handlers shows that only four patterns of calls occur:

* *critical* calls, whose data the answer needs: a refused or failed call ends the handler with 503 (502
  in `PrivilegeGetPoint`), a response is followed by `onSuccess()` and `unlock()`, and only then looked at;
* *fallback* calls: a refused or failed call is skipped. The whole treatment of the response is
  inside the `try` block and before `unlock()`, which is where the two patterns differ: an unreadable
  body counts as a success *and* a failure, and a status other than 200 returns with the mutex locked;
* the *purchase* call, like a critical one, except that a failure continues with `TicketDeletePoint`;
* unguarded calls: `TicketDeletePoint` in the compensation, the refund, `publish.py`.

`Receive` starts a handler and `ReceiveLocal` stands for requests that make no calls. `Acquire` is
`lock()` together with `isAvailable()`: the breaker is only touched by the owner of the mutex
(`GuardedCallHoldsLock`), so nobody can tell the two apart. The call itself has no step of its
own; it is the state `"calling"`, and its end is `Failed`, `Responded` or `FallbackResponded`, each with
the breaker's method, `unlock()` and the handler's reaction. `unlock()` and the statements
after it touch nothing that is shared until the next call. What services reply is arbitrary within
the constants `CriticalReplies` and `FallbackReplies`.

`failureCount` stops at the threshold and `elapsed` at the timeout: the code only compares them with
these, so nothing is lost. `Tick(s)` is the passing of another whole second since the breaker of service `s` opened; the breakers' seconds are
not in step. Where no status is checked (`StatusIsChecked`: `FlightsGetPoint`, `TicketsGetPoint`, `MeGetPoint`) an error response is what its body
can be read as (`TakenAs`).

### Bonus Service

A purchase or a return is two steps: the `SELECT` with all that is computed from it (`ReadForPurchase`, `ReadForReturn`) and the string with `INSERT`
and `UPDATE`, which PostgreSQL runs as one transaction (`Write`, `WriteFails`). Other threads may come in between. A request that ends without a
write (an unknown user, a return without an active ticket, a `SELECT` that fails) leaves nothing behind and is no step. The acknowledgement of a
commit may be lost; to the tables that is a `Write`, and what the caller makes of it is `Booking`'s subject. A stop of the service between the two
steps is a `WriteFails`: only the pending write is lost. `New` is what callers do: they ask for a purchase only for a ticket that no row names and
no thread is about to book, since the Ticket Service has just drawn its UUID. That they really do is `KeepsService` of `Booking`.

`BonusLedger` has the same rows but books read and write in one step, and a purchase only for a ticket no
row names. `KeepsLedger` is the refinement: `balance` and `history` map to themselves, reads stutter.
What callers can count on is stated there, over these two variables, and holds of the ledger (`Promises`); `BonusService`
instantiates it, with its theorems, and states the same of its own behaviour (`NonNegativeBalance`, `LaterRowsUndoPurchase`,
`AccountsBalance`, `RefundedOnce`). The last two, and the refinement, need that bookings of one account do not overlap.

`BalanceGetPoint` is two statements outside a transaction, `ReadBalance` and `ReadHistory`, with bookings in between.
It is made by `Readers` of their own: a thread keeps nothing from one request to the next, so it does
not matter which of them serves which request, only how many of each kind overlap. `BalanceAnsweredIsPast` says what the client may rely on: the balance answered
is what some beginning of the answered history adds up to.

### Connections and the Flight Service

`Connection` follows `PGConnection.cpp`, the same class in three services: `GetConnect` and `CheckConnectAndReopenIfNeeded`,
one step per call of libpq (`Check`, `Finish`, `Connect` or `ConnectRefused`, `Query` or `QueryFails`). `conn` is what the member
points to: `"stale"` is a session the server has ended and libpq still calls OK, `"freed"` a pointer that `PQfinish` was called with.
Using a freed one is undefined: `PQstatus` may say anything and the process may end (`Crash`). A process whose constructor
finds no database ends (nobody catches the exception) and is started again by its restart policy (`Start`, `Restart`), and
`DatabaseStops`, `DatabaseStarts` and `ServiceStops` may come between any two steps, as the fault tests of the repository do with `docker compose stop`.

`FlightService` extends it with what its statement returns. `Listing` is the arithmetic of `FlightsGetPoint` with the types of the code:
`flights.size() - 1` in an `unsigned long`, the first index in an `unsigned`, the bound in an `Int64`; `PagesAreSlices` compares it with the definition of a page
in integers. The table has flight numbers in ascending order, as `ORDER BY` returns them, and they are taken to be different, as in the
test data (the schema does not ask for it; the order of equal ones would be the database's choice).

### Booking

`Booking` looks at the same handlers from outside: at what `BuyPoint` and `ReturnPoint` do to the tables of two
services. The flight look-up, the mutexes and the breakers are `Gateway`'s subject and are left out; a call that
the breaker refuses looks like one that is not executed. Each remote call has one of four
endings ("done", "garbled", "lost", "failed"), and the constant `Faults` says which of them occur, so that one module answers what
holds under which faults. A call of the Ticket Service is one SQL statement and one step. The Bonus Service is an instance of `BonusService`, with
the nine threads of its executor as `Servers`: `PurchaseRead`, `RefundRead` and `RetryRead` are the steps in which a thread (`AsksForPurchase`,
`AsksForRefund`) reads an account for a handler or for `consumer.py`, and it books in another one. `caller` says who waits for it. The handler may get
its answer (`Answered`), hear nothing of a booking that fails (`NotExecuted`), or give up (`GivenUp`): then its thread goes on, and books next to
whatever the handler or another caller does (`GoesOn`). A stop of the gateway or of the consumer leaves threads behind in the same way (`Abandoned`).
So reads, checks and writes of two refunds, or of a refund and a purchase, overlap as they do in the code: the refund and the consumer hold no mutex.
A request that is given up before its `SELECT` ran, and runs after all, is the one thing left out: it is taken as one that failed.

* `ticket` is table `ticket`; `Created`, `RolledBack` and `Canceled` are the three writing statements of
  `PGTicketRepository`. "absent" and "deleted" are both *no row*; the model tells them apart because an identifier is never
  made twice.
* `history`, `balance` and `pending` are the Bonus Service's.
* `job` is where a handler is, from the first thing it changed. A stop of the gateway drops all of them.
* `file` is `message.txt`. `fopen` empties it, `fclose` writes the line over what it holds by then (a longer line
  leaves its end behind: `Overwritten`), and `publish.py` sends whatever it finds. Three steps, with other threads in between.
* What the consumer makes of a line is `Requested`: it splits at commas and takes the first two fields. For a name without a comma that is the return that
  was meant; for a name with one (`CommaNames`) it is some other user and ticket, arbitrary (`ReadAs`) except that the user's name has no comma itself.
  No account has such a name. A name that cannot be sent as a header (`Unsendable`), an empty message and one without a comma end the script after
  the acknowledgement (`RetryRaises`). A quote in a name, which changes the SQL text itself, is left out: names are values here, not text.
* `queue` is the durable RabbitMQ queue; a message that is delivered moves to `consumer` and comes back if the consumer
  stops before the acknowledgement. The broker is external, modelled from how `consumer.py` and `publish.py` use it.
* `confirmed` and `accepted` record the answers clients got (200 for a purchase, 204 for a return).

### Gateway and booking together

`Gateway` knows the calls of the handlers but not what they do; `Booking` knows what they do and takes their order from the source a second time.
`GatewayBooking` extends `Gateway` and runs its steps on the tables, the threads of the Bonus Service, the file and the queue of `Booking`: `TicketPostPoint`, `PurchasePoint`,
`TicketDeletePoint`, `TicketUpdatePoint` and `RefundPoint` are the end of that call in `Gateway` together with what the service did, or did not do
when the reply allows that (`MayNotExecute`); `Publishes` is Gateway's `PublishRefund`. `PurchaseReads` and `RefundReads`, and `Opens` and `Closes`, are steps within
calls that `Booking` tells apart. `request` is what a handler knows of its request. `ConsumerGoesOn` is the consumer of `Booking`, `ServerGoesOn` a thread of the Bonus Service
whose caller is gone, and `GatewayRestarts` a stop of the gateway, which starts again with free mutexes and closed breakers.
`HandlersBook` is `Booking!Spec` with `job` computed from where the handler is in its plan (`JobOf`) and every fault allowed.
Waiting, locking, refusals, trials, the flight look-up and the passing of time are stutters; a refused purchase is one that failed. Requests
that make no calls (`ReceiveLocal`) and the reading handlers are left out: they touch none of this but the mutexes and breakers, which are shown not to matter.

Assumed: prices are natural numbers (no service checks the sign) and amounts fit into an `int`; the
history of a user has no rows for a purchase's ticket before it, as UUIDs are drawn once.

## 3. The runs

All bounds are values of constants in the `.cfg` files, except `ShortHistories`, `OnlyBonusFails`, `ConsumerNextToOne` and `OneMessage` (below).

| run | shows |
| --- | --- |
| `GatewaySafety` | type invariant, `GuardedCallHoldsLock`, `TicketLockNeverLeaks`, and `BreakerContract`: each breaker implements `AbstractBreaker`; every kind of reply |
| `GatewayLiveness` | `NoLockLeaks`, `LocksAreReleased`, `TrialEventuallyAllowed`, `HealthIsServed` when no call with a fallback gets an error status |
| `GatewayHealth` | *violated*: with error statuses, `HealthIsServed` fails; finding 1 |
| `BonusConcurrent` | type invariant, `NonNegativeBalance`, `LaterRowsUndoPurchase`, `RefundsBoundedByWorkers` for two threads |
| `BonusSequential` | `KeepsLedger`, `AccountsBalance`, `RefundedOnce`, `BalanceAnsweredIsPast` for one thread that books and one that reads |
| `BonusLostUpdate` | *violated* for two threads: `AccountsBalance`; finding 2 |
| `BookingSafety` | type invariant, `ConfirmedIsBooked`, `RefundedIsNotPaid` for two handlers under every fault, stops of gateway and consumer included |
| `ReturnForeign` | `RefundedIsNotPaid`, `KeepsService` (callers use the Bonus Service as `BonusService` assumes) and `SettledForGood` (what is refunded, with no refund under way, is booked no more), with two threads of the Bonus Service, calls that are given up, retries, mixed lines in `message.txt`, and returns by users who do not own the ticket, one of them with a comma in the name and one whose name cannot be sent |
| `ReturnRetry` | `AllOrNothing`, `ReturnsAreKept`, `ReturnsAreRefunded` for one handler at a time, the faults the code is written for, and a broker that takes every message |
| `ReturnRace` | *violated*: `ReturnsAreKept` with two returns at a time; finding 3 |
| `FlightService` | type invariant, `PagesAreSlices`, `UsesLiveConnection`, `OneRequestLost`, `Recovers`, for one request at a time |
| `GatewayBooking` | `HandlersBook` for two threads, the consumer, and stops of both: purchases and returns of the whole gateway are those of `Booking` |

**Bounds.** Two threads are enough for a thread to meet a mutex that another one holds, leaks
or hands over, and a leak blocks two threads as it blocks nine. A threshold of 2 (10 in the code) has a
failure that opens the breaker and one that does not, and with it a success or a trial between them; `GatewayLiveness` asks
what happens after a breaker has opened and has a threshold of 1. The
pause is 1 or 2 seconds (10 in the code), so that a request can come during it, after part of it, and
after it. A user has no ticket or one: with one, `TicketsGetPoint` and `MeGetPoint` make a second call to another
service after the first, and further tickets repeat the same call. `GatewaySafety`
has all seven handlers; its view `LiveState` leaves out what idle threads did last, which nothing reads. `GatewayLiveness` has three, which make every kind of guarded
call, and `GatewayHealth` two that share a service. The theorems of section 4 do not depend on the choice. 404 replies behave as other error statuses except for the answer, and are left out of the runs.

The Bonus Service runs with one account, three tickets (the seeded one and two new ones), an opening balance
of 14 and prices 30, 12 and 1: a price above the balance, one below it, and one whose tenth is zero.
`BonusConcurrent` is bounded by `ShortHistories`: at most five rows per account. With two threads a ticket gets at most three
rows, so that admits a full race on one ticket next to a purchase of another; one thread needs no bound.
Accounts do not interact, so one is enough.

The Flight Service runs with lists of none to four flights, pages 0 to 5 and sizes 0 to 4 with a `SizeLimit` of 3 (100 in the code): lists that
are empty, end within a page, with a full page and with a page of one; pages before, within and behind the list. `IntSpan` (2^32) is 8 and `LongSpan` (2^64) is 64, so that
the subtraction on an empty list wraps. `LostBound` counts lost requests up to 2, one more than `OneRequestLost` allows. One
thread serves requests, because the gateway is the only caller of the service and holds its mutex of the
service during each call (`GuardedCallHoldsLock`, proved). A call whose connection breaks, or a restart of the gateway, gives the mutex free while the
service may still be at work; what holds then is said by the theorems, which need no more than that requests do not overlap at the connection.

`Booking` runs with one account, the seeded ticket and one new one, one price (both ways of
paying) and no other user but in `ReturnForeign` (two) and `ReturnRace` (one). One new ticket is enough for a purchase
to meet its own return, and the seeded ticket for a return that meets another purchase. What overlaps is divided between the runs. `BookingSafety` has two handlers
and the consumer on one thread of the Bonus Service, under every fault; `ReturnForeign` one handler and the consumer on two threads, so that a refund of
the handler, one of the consumer and calls that were given up overlap there; `ReturnRetry`, for liveness, one of each; `ReturnRace` two of each.
Where properties do not speak of `accepted`, which no action reads, the view `NotAccepted` leaves it out of the state. `MaxCopies = 1` bounds the
copies of one message in the queue; with the one in the consumer's hand that makes two, which is a duplicate. Further copies only
repeat. `OneMessage` bounds the queue of `ReturnForeign` and `GatewayBooking` at one message besides it. The theorems of section 4 have none of these bounds.

`GatewayBooking` has two threads and an instance of `Booking` with one thread of the Bonus Service. A breaker opens at the first failure and tries again after a second: what counts here is
what a refusal does to a purchase or a return that has begun, not when it comes. For the same reason `OnlyBonusFails` lets only the breaker of the
Bonus Service open: a refusal by the others ends a handler before it has changed anything. While the consumer has a message `ConsumerNextToOne` leaves at most one request
under way, so each of its steps meets each of a handler's, but not of two. The view `LiveState` leaves out `accepted` and what idle threads did last, which nothing reads.
The theorem of section 4 has no such bounds.

**Symmetry** is used over threads in `GatewaySafety`, `BookingSafety`, `ReturnForeign` and `GatewayBooking`: invariants, and
safety properties that treat all threads alike.

**Deadlock** is checked except in `GatewaySafety` and `GatewayHealth`: there the system really
stops when all threads wait for a leaked mutex, which is finding 1.

**Fairness** (`FairSpec`): `WF` on the next step of each thread's handler, and on `Tick` of each service. The operating system
schedules threads that can run, and time passes. That a call ends is assumed (the peer answers or the
connection breaks; the client sets no timeout). Nothing is assumed of `lock()` beyond weak
fairness, as `std::mutex` is not fair to a thread that waits while others come and go: so
the liveness properties claim that a mutex is released, that a trial is admitted and that *some* thread comes
back, never that a given request is answered. No fairness is assumed of clients. In `Booking`, `ReturnsAreRefunded` needs besides that handlers, threads of the Bonus Service and the
consumer go on (`WF`), that a request that is repeated for ever is read and booked at last and a consumer that stops again and
again gets past each message at last (`SF` on `RetryRead`, `Retry`, `RetryRefused` and `PublishAgain`), and that the threads of the Bonus Service are not all busy whenever
the consumer calls (`ThreadsGetFree`; each of them does finish, and the service has nine). The consumer's endless retries are only worth something under these, and
without the second it could stop at the same message each time. In `FlightService`, threads go on, libpq's calls return and docker
starts a container that ended (`restart: on-failure`): `WF` on `Serve`, `Start` and `Restart`. That requests keep coming,
that the database stays up at last and that nobody stops the service any more are premises of `Recovers`, not fairness.

### Findings

1. `GatewayController.hpp:321` (also 154, 223, 372): `return` between `lock()` and `unlock()` when a fallback
   call answers with a status other than 200. The trace of `GatewayHealth` shows a thread leak the mutex
   and all threads then block in `lock()`; `/manage/health`, which `src/README.md:20` requires to answer 200, is dead.
   Only calls with a fallback do this: `TicketLockNeverLeaks` holds, and `NoLockLeaks` holds without such replies.
2. `PGBonusRepository.cpp:129`: a lost update of the balance by two concurrent bookings.
3. `GatewayController.hpp:612` (also 604): concurrent returns overwrite each other in `message.txt`; one is lost although it was answered with 204.
   Empty messages, which end the consumer, and mixed lines, which it retries for ever, are the other things that can come of it.

Limits of the properties that hold, each seen in a counterexample when the run, the assumption or the property is widened as said:

* `RefundedOnce` with two threads (`PGBonusRepository.cpp:167`): two concurrent returns of a ticket both pass the check.
  `RefundsBoundedByWorkers` says how bad it gets: once per thread, as nobody who reads after the first refund passes. In the whole system this takes no second client: a
  refund that was given up and its own retry by the consumer, or two deliveries of one message, may overlap.
* `RefundedIsNotPaid` without `\ Misread` (`GatewayController.hpp:605`, `consumer.py:34`): the line in `message.txt` is `user,ticket`, and the consumer splits it at
  commas. A return by a user whose name has a comma makes it ask for the refund of what stands behind that comma, and that may be another user's PAID
  ticket: the consumer has no way to know that nobody cancelled it. The property speaks of every other ticket.
* `ReturnsAreKept` with an account in `Unsendable` (`consumer.py:37`): an exception that is no `RequestException` passes by the second publication, but not by
  the acknowledgement.
* `AllOrNothing` with `<<"TicketDelete", "failed">>` in `Faults` (`GatewayController.hpp:536`): the compensation is tried once and its end
  is ignored, so a failed purchase leaves a PAID ticket. With `<<"Purchase", "lost">>` (line 520): a purchase that was executed but
  whose answer was lost is rolled back in the Ticket Service only.
* `Recovers` without `refused` (`PGConnection.cpp:16`): if opening the connection again fails once, `conn` still points to the connection that
  `PQfinish` freed. If what is left there reads as OK, every later request queries it, and the service need not come back.
* `UsesLiveConnection` and `OneRequestLost` with two workers: one of them may use the connection while the other frees it, and each loses a
  request of its own. The mutex of the gateway is what keeps the Flight Service from it. The Ticket Service and the Bonus Service have no
  such protection: `TicketDeletePoint`, the refund and `consumer.py` call without a mutex.
* `PagesAreSlices` on an empty list: `size() - 1` wraps, so the answer repeats the page number asked for, or says page 0 if the page
  size is 1. There are no items in any case, and the property asks for no more.
* `ReturnsAreKept` with `<<"Publish", "failed">>` (`GatewayController.hpp:615`, also 607): nobody looks whether `publish.py` succeeded.

Without a run: `PrivilegeGetPoint` answers 502 (`GatewayController.hpp:271`) where `src/v1/postman/collection.json:868` expects 503; an
`UPDATE` without a row counts as a success (`PGTicketRepository.cpp:135`), so `DELETE` of an unknown ticket answers 204, where the API
description says 404. The latter is also how messages come about that are retried for ever; `ReturnsAreRefunded` shows that they do not keep the others from their turn.

What holds in spite of all these: whatever fails, a confirmed purchase keeps its ticket and its booking (`ConfirmedIsBooked`); a
refunded ticket cannot be used, the exception with commas aside (`RefundedIsNotPaid`: cancelling comes first, in every order of events); overlapping refunds of one ticket
are at most as many as the threads of the Bonus Service (`RefundsBoundedByWorkers`), and once a ticket is refunded and no refund of it is under way, no retry or duplicate
refunds it again (`SettledForGood`).

## 4. The proofs

All theorems hold for any set of threads, any threshold and timeout above zero, any replies, any users,
tickets and natural prices, any faults, and any list of flights, page and page size that the integers of the code can hold.
The assumptions are the named `ASSUME`s of `BreakerOps`, `Gateway`, `BonusService`, `Booking`, `GatewayBooking` and `FlightService`, and
`LedgerAssumption` of `BonusLedger`, which the first two that use it contain; what a theorem assumes besides is in its statement.

| theorem | statement |
| --- | --- |
| `GatewayProofs!TypeCorrect` | `Spec => []TypeOK` |
| `GatewayProofs!MutualExclusion` | `Spec => []GuardedCallHoldsLock` |
| `GatewayProofs!TicketLockSafe` | `Spec => []TicketLockNeverLeaks` |
| `GatewayProofs!NoLeakWithoutErrors` | `Spec => []NoLockLeaks` if `FallbackReplies` has no error status |
| `GatewayBreakerProofs!BreakersKeepContract` | `Spec => BreakerContract` |
| `BonusProofs!TypeCorrect` | `Spec => []TypeOK` |
| `BonusProofs!BalanceStaysNonNegative` | `Spec => []NonNegativeBalance` |
| `BonusProofs!RefundsUndoPurchases` | `Spec => []LaterRowsUndoPurchase` |
| `BonusProofs!RefundsBounded` | `Spec => []RefundsBoundedByWorkers` for a finite set of workers |
| `BonusLedgerProofs!PromisesKept` | `Spec => []Promises` of the ledger: its four promises |
| `BonusProofs!BookingsApartKeepLedger` | `Spec /\ []KeptApart => KeepsLedger` |
| `BonusProofs!BookingsApartAddUp` | `Spec /\ []KeptApart => []AccountsBalance` |
| `BonusProofs!BookingsApartRefundOnce` | `Spec /\ []KeptApart => []RefundedOnce` |
| `BonusProofs!BookingsApartAnswerPast` | `Spec /\ []KeptApart => []BalanceAnsweredIsPast` |
| `BookingProofs!TypeCorrect` | `Spec => []TypeOK` |
| `BookingProofs!ConfirmedStaysBooked` | `Spec => []ConfirmedIsBooked` |
| `BookingProofs!ServiceKept` | `Spec => KeepsService` |
| `BookingProofs!AccountsUnderCallers` | `Spec => []` of `NonNegativeBalance`, `LaterRowsUndoPurchase` and `RefundsBoundedByWorkers` of the Bonus Service, for finitely many of its threads |
| `BookingProofs!CallsApartKeepLedger` | `Spec /\ []KeptApart =>` the Bonus Service keeps the ledger, and its promises |
| `BookingProofs!SettledStays` | `Spec => SettledForGood` |
| `BookingProofs!RefundedNotPaid` | `Spec => []RefundedIsNotPaid` if one user has an account |
| `BookingFaultProofs!PurchaseIsAtomic` | `Spec => []AllOrNothing` under `NoSilence` |
| `BookingFaultProofs!ReturnsApartWait` | `Spec /\ []ReturnsApart => []ReturnsAreKept` under `BrokerTakes` |
| `GatewayBookingProofs!HandlersImplementBooking` | `SystemSpec => HandlersBook` |
| `GatewayBookingProofs!ConfirmedThroughGateway` | `SystemSpec => []ConfirmedIsBooked` of `Booking` |
| `GatewayBookingProofs!RefundedNotPaidThroughGateway` | `SystemSpec => []RefundedIsNotPaid` of `Booking` if one user has an account |
| `GatewayBookingProofs!SettledThroughGateway` | `SystemSpec => SettledForGood` of `Booking` |
| `FlightProofs!TypeCorrect` | `Spec => []TypeOK` |
| `FlightProofs!PagesCorrect` | `Spec => []PagesAreSlices` |
| `FlightProofs!LiveConnectionUsed` | `Spec /\ []RequestsApart => []UsesLiveConnection` |
| `FlightProofs!AtMostOneLost` | `Spec /\ []RequestsApart => []OneRequestLost` |
| `FlightProofs!OneThreadKeepsConnection` | both without `RequestsApart`, if there is one thread |

* *Locks.* `LockInv` is the type invariant with `GuardedCallHoldsLock` and the converse for the Ticket Service. It is inductive because the
  handlers' state says (`HandlersOK`) that a thread past `lock()` is at a guarded call: then who leaves the section
  of a service is its owner, and nobody else is in it. The step lemma looks at how an action moves one thread
  (enter, leave, leak, stay outside) instead of at all actions for each property. Nobody can wait for a waiter then: the handlers need the mutexes in
  opposite orders, but each gives one back before it asks for the next, so the owner of a mutex is inside its section and waits for nobody. A
  leaked mutex breaks it, hence the premise of `NoLeakWithoutErrors`.
* *Breakers.* The contract needs more than the locks: a breaker is closed while a call is under way
  (so the `else` branch of `onFailure()` is never taken by the gateway), an open one has reached the threshold, and
  a closed one with a full count is on trial. `BreakerInv` says this; from it each action is a step of
  `AbstractBreaker` for the service it concerns and a stutter for the others.
* *Bonus.* `Inv` adds to the properties what a pending write promises: it was computed from a balance that was
  natural, its ticket is new and nobody else's (a purchase), or its row undoes the first row of its ticket
  (a refund). Rows are only appended, so these promises survive the writes of others.
  Under `KeptApart` (no two workers are between the `SELECT` and the transaction of the same account) the pending write moreover agrees with
  the current tables (`PendingCurrent`), which makes the write a step of `BonusLedger`. `KeptApart` is exactly what the two threads of finding 2
  break.
* *Bonus, counted.* With several workers a ticket can be refunded more than once, but once it has two rows nobody
  passes the check any more. `WritersRunOut` counts, beside the rows, the workers that have passed it and not written yet; a write
  takes one of them away for each row it adds.
* *Ledger.* What callers count on is proved of `BonusLedger` and inherited along the refinement by the service, and so by `Booking`, under `KeptApart`.
  The sum of a history is a fold of the community modules, whose definition is
  recursive; that appending a row adds its amount (`TotalOfAppend`) is shown with a function of partial sums that exists and is unique, both by
  the least-counterexample principle, which takes a set and no operator.
* *Booking.* Why can a refunded ticket never be used? Not because of anything the refund looks at: it looks at its own
  rows. `Inv` says where requests for a refund come from: whoever can still ask for one (`Returning`: a handler past the cancelling, the
  file, a message in the queue or with the consumer) asks for a ticket that its user cannot use (`Useless`), and a ticket never becomes usable again
  (`TicketsAge`). A thread of the Bonus Service may book long after its caller is gone, so what is true of rows is claimed of rows that a thread is about to
  write as well (`Refunding`, `Involved`). That a row is in the right account needs `Owners`; that a purchase is booked once, `Fresh`, `Buyers` and `Callers`: one
  handler buys a ticket, no row names it before, and only the thread that serves this handler is about to write one. Where the consumer reads another ticket out of a
  line (`Requested`) nothing of the kind is known, and `RefundsCancel` leaves these tickets out. `RefundedNotPaid` is about one account,
  because table `privilege` has one row and no operation adds one; other accounts of the model begin with a row that names the seeded
  ticket, which is not theirs (`Opened`).
* *Booking and the Bonus Service.* Each step is one of `BonusService` or leaves its variables alone (`ServiceStep`), where `Fresh` is what gives `New`. So the invariant of
  `BonusProofs` is a part of `Base`, and its theorems hold in the whole system (`AccountsUnderCallers`, `CallsApartKeepLedger`). `SettledStays` needs no more than that a
  new booking of a ticket starts from a purchase of a ticket without rows, or from a refund that finds exactly one.
* *Booking, with fewer faults.* `Whole` adds that a PAID ticket without a booking has a handler that is about to book or delete it, and
  `NoSilence` lists exactly the faults under which that handler is gone or misled. `Kept` adds that `message.txt` holds the return of the handler
  that publishes it, and that an accepted return is refunded or waits. It needs `ReturnsApart`: no two handlers are between opening
  `message.txt` and having it published. `ScriptAsks` and `RefundsServed` say that whoever
  waits for a thread waits for the refund it asked for, so an answer means that refund. Everything else may overlap, and finding 3 is two handlers that break just this. `BrokerTakes` is needed as
  nobody looks at the end of `publish.py`.
* *Gateway and booking.* `SystemInv` lists the places a handler can be at (`Place`): its endpoint, the calls that are left, and that it knows
  an existing ticket from the moment it needs one. The refinement needs nothing of mutexes and breakers: whatever order they let the
  threads in, each step moves one handler from place to place, and there is one lemma per step that names Booking's step for it; `Served` adds that a thread of the Bonus
  Service waits for nobody but a handler that is at its call. The consumer's steps and those of abandoned threads are Booking's own, and a restart of the gateway is `GatewayStops`, or a stutter if no handler has changed anything. So the theorems
  of `BookingProofs`, which allow every fault, hold of the handlers in full.
* *Flights.* The arithmetic is proved in integers first; then no intermediate value of a valid page leaves its type, and on an empty list the loop's bound is 0
  or not above where it starts. For the connection, `ConnectionSound` says what the place of a worker tells of
  `conn`: between `Finish` and `Connect` it is freed, and nobody else is there to see it, if requests do not overlap at the connection
  (`RequestsApart`). With one thread they never do.

Only model-checked: liveness (`LocksAreReleased`, `TrialEventuallyAllowed`, `HealthIsServed`, `ReturnsAreRefunded`, `Recovers`), which TLAPS
cannot reason about under fairness. Every invariant, action property and refinement of a passing run is the statement of a theorem.

## 5. Not modelled

* The vendored dependency injection library, five copies of `boostDi/di.hpp`, three quarters of the lines of code in the repository: it belongs to
  others, works at compile time and keeps no state of the running program.
* The HTTP clients of the gateway (`NetUI/service`) are declarations for oatpp's code generator; what a call may end with is in
  `Gateway` and `Booking`. `BrokerService` and `RabbitMqQueueHandler` are not used: the calls are commented out.
* Undefined behaviour of libraries: concurrent insertion into the `std::map` of mutexes on first use, and several
  threads on one `PGconn`. A model of it would say nothing about what builds do; both are listed as hazards.
* The contents of answers other than their status, pages and balances; configuration, logging, exceptions' texts; the database scripts, whose schema
  and test data are in the `Init` of the modules; deployment, test and CI scripts, except for the stops and restarts they cause.
* The reading operations of the Ticket Service: each is one `SELECT` and changes nothing.

## 6. What could follow

* `Connection` with the threads of the Ticket Service, once libpq's behaviour with several threads on one connection is more than undefined.
* The liveness properties, if the proof system learns fairness.
