# Mirea CRM in TLA+

This directory is a formal model of Mirea CRM, the back end of a chain of
beauty salons in `src/`: TLA+ modules written from the code, configurations for
the model checker TLC, and theorems checked by TLAPS. Times, sums and names are
abstracted; statement order, guards, error paths, transactions and what a crash
leaves behind are kept.

## The system

Eight services, each with a Postgres database of its own, behind one gateway.
They call each other by gRPC, tell each other what has happened through a
RabbitMQ topic exchange (`mirea.events`, one quorum queue for each consumer),
and push momentary news to screens through NATS.

| Component | State it keeps | Operations | Interacts with | Hard part |
|---|---|---|---|---|
| booking-service (Go) | `appointments` | Book, Complete, Cancel; FreeSlots, Get, List | asks core for shifts and catalog for the service; publishes `appointment.*`, slot changes | concurrent Book for the same hours; Complete against Cancel; ownership read before the update; dual write |
| inventory-service (Go) | `stock_items`, `stock_movements`, `processed_events` | write-off on `appointment.completed`, Replenish, SetThreshold | asks catalog for norms; publishes `consumables.written_off`, `stock.low` | redelivery, row locks taken in different orders, partial failure |
| billing-service (Python) | `invoices`, `processed_events` | issue on `appointment.completed`, pay, reports | asks booking for the visit, client for points; publishes `invoice.*` | redelivery; two payments; a payment whose later steps fail |
| client-service (Python) | `clients`, `loyalty_entries` | register, read, AddLoyaltyPoints | called by billing and notification | read-modify-write of the balance; retried calls |
| core-service (Python) | companies, branches, employees, shifts | create, open, hire; schedule, who is this account | called by booking and the gateway | check-then-insert races |
| catalog-service (Python) | services, norms, consumables | create, change price; get | called by booking and inventory | materials created on the way by two services at once |
| analytics-service (Python) | fact tables, `processed_events` | one handler for every event; reports | bound to `#` | events out of order |
| notification-service (Go) | ring buffer of messages sent | handlers of four events, alerts from NATS | asks client for contacts | effects outside any transaction |
| gateway (Python) | cache of employees by account, cache of signing keys | check token and role, forward | Keycloak, core | cached values used after an await |
| common libraries | connection, prefetched deliveries | publish, consume, retry, bury | RabbitMQ | redelivery, reconnection, attempt counting |

What makes each of them correct:

- **booking**: a specialist is never booked twice for the same moment, or outside
  a shift; a closed appointment stays closed; only the specialist, or somebody
  with the right to, completes a visit; what is announced is true.
- **inventory**: stock never negative and equal to the sum of its history; an
  event written off once and entirely, or not at all; alerts about rows that are
  low; every transaction ends.
- **billing** and **loyalty**: one invoice for a visit, one payment for an invoice,
  points for paid invoices only, once for each; the balance is their sum unless
  two credits of one client overlap, and then it falls short.
- **delivery**: an event has its effect at most once, is acknowledged after it,
  is given up only after the agreed attempts, and does not stay in the queue.
- **analytics**: the facts do not depend on the order in which events arrive.
- **gateway**: a cached binding is as old as its lifetime says and no older.
- **core, catalog, client registration**: what is unique stays unique, and the
  loser of a race leaves nothing behind.

## Modules

| Module | Models | Lines of the source |
|---|---|---|
| `Slots` | intervals and the grid of slots, as pure operators | booking `slots.go`, `models.go` |
| `Booking` | Book, Complete, Cancel, FreeSlots; hiring in core | booking `service.go`, `repository.go`, `access.go`, the migration; core `hire_employee`, `get_schedule` |
| `Calendar` | abstract: reservations that never clash | specification only |
| `Inventory` | write-off, replenishment, thresholds | inventory `service.go`, `repository.go`, `main.go`, the migration |
| `Warehouse` | abstract: all movements of a job in one step, a job once | specification only |
| `Loyalty` | AddLoyaltyPoints | client `domain.py`, `servicer.py`, `models.py` |
| `PointsAccount` | abstract: each invoice recorded once, credited in full unless overtaken | specification only |
| `Billing` | issuing and paying invoices, composed with `Loyalty`; commission report | billing `domain.py`, `handlers.py`, `clients.py`, `api/invoices.py` |
| `Delivery` | a queue and its consumer | `consumer.go`, `consumer.py`, `events.go`, `definitions.json` |
| `Analytics` | fact tables from the event stream, reports | analytics `handlers.py`, `domain.py`, `models.py`, `api/` |
| `Gateway` | a request from its route to its service; key store, employee cache | gateway `main.py`, `routing/`, `security/`, `api/auth.py`, `infra/`; py-common `identity.py`; the owner checks of core, billing and analytics |
| `Routes` | the routing table | gateway `routing/table.py` |
| `Organization` | registration, paged lists, the life of a process | core, catalog and client `domain.py`, `models.py`, `main.py`, migrations; py-common `lifespan.py`, `deps.py`, `pagination.py` |
| `*Proofs` | theorems of the module they are named after | |
| `MC*` | small instances for TLC | |

How state and actions correspond to the code:

- **Booking.** `appointments` is the table, a row named by the request that
  inserts it. `pc[r]` is where a handler stands between two calls that leave the
  process: received, `Quote` (GetService), `CheckShift` (GetEmployeeSchedule),
  `Insert` (the INSERT under the exclusion constraint `Collides`),
  `AnnounceBooked`, `ShowTaken`. Complete first does `CheckOwner` if the caller
  must own the visit, then both closings do `UpdateStatus`, the conditional
  UPDATE, and announce. A statement is committed and then answered or not; with
  no answer the handler fails. `Crash` stops every handler under way.
  `announced` counts the messages of each appointment. Publishing is
  a step that may fail: it is logged and the request goes on, as in the code.
- **Inventory.** `stock`, `history` and `inbox` are the committed tables;
  `draft`, `moves` and `step` are what one open transaction has done. `Mark`
  inserts into `processed_events` and waits while another transaction has
  inserted the same event; `ApplyOne` executes one movement and takes the row
  lock; `Commit`, `Conflict` and `Fail` end the transaction. Statements see
  committed rows (READ COMMITTED), re-evaluated under the lock. `Deadlock` and
  `AbortVictim` are Postgres. After the commit come `PublishWrittenOff` and
  `RaiseLowStock`.
- **Loyalty.** One session for each call: `ReadClient`, `LookForDuplicate`, then
  `AddEntry` or, if the unique index refuses, `LoseRace`. The balance written
  is the one read plus the points, as SQLAlchemy flushes it. Two history
  variables: `earned`, what the committed entries of a client add up to, and `overtaken`,
  the calls between whose read and commit another call credited the same client.
- **Billing.** An invoice is named by the delivery whose handler makes it.
  `Issue` commits mark and invoice together; `Pay` is the conditional UPDATE;
  `Accrue` starts a session of `Loyalty`, which runs by itself, and `HearOfPoints`
  gets its answer. `GiveUp` is any failure of a handler, at any point. The report
  is an operator, `EmployeeCommission`, compared with the messages in `CommissionTold`.
- **Delivery.** `place` is where the broker has a message, `returned` its
  `x-delivery-count`, `task[m][k]` how far the consumer is with its k-th delivery.
  A connection that is cut returns every unsettled delivery, while a handler
  that has begun goes on, as it does in both libraries: its acknowledgement then
  settles nothing. `parallel` is chosen at the start: the Go consumer deals with
  one delivery after the other, the Python one with as many as the prefetch lets in.
- **Analytics.** A handler is one transaction: `Mark` takes the event in hand (and waits
  for a transaction that has marked the same one), `Find` is the `session.get` of the
  fact to update, `Commit` makes mark and fact visible together, `Rollback` neither.
  An outcome that comes before its fact changes nothing and is marked all the same,
  as in the code. The reports are operators over the tables. `heard` (what took
  effect) and `ready` (what could) are history variables. The reports about an employee
  begin with `EnsureOwner`: a call without identity passes, as do the privileged roles;
  an account without an employee is refused.
- **Gateway.** A request is cut at its awaits: `waiting` for the lock of the key store,
  `refreshing` the keys, `granting` a token, `asking` core and `told` by it,
  `forwarded` to the service. Between two of them the event loop runs one request
  only, which is why routing, token check, role check and the look into the cache
  are one action (`LookUpKey`, `Continue`, `Dispatch`). A fetch of keys brings those
  that Keycloak publishes, a document without a usable one, or a failure (`EndRefresh`);
  a document that cannot be read raises an exception that nothing catches (`MisreadKeys`):
  the keys stay and the request is answered 500. `Hire` and `Rotate` are what core
  and Keycloak do in the meantime, `Restart` loses cache and keys, `Tick` is time, which
  does not pass beyond the timeout of a call.
- **Organization.** `Check`, `Look`, `Insert`, `Commit`, `Publish` are the steps of a
  registration; `CreateCompany`, `OpenBranch`, `HireEmployee`, `CreateService` and
  `RegisterClient` say which of them each handler has. `Insert` waits for an open
  transaction with the same key, loses to a committed one, and may end in a
  deadlock. `Begin` and `Page` are `list_employees` with its cursor. `Start`,
  `Terminate`, `Drain`, `Close` and `Crash` are `build_context` and `serve`. A behaviour
  is that of one of the three services: they share the frame and no table.

`Calendar`, `Warehouse` and `PointsAccount` are what a caller of the service may
count on. The detailed modules are shown to implement them under a refinement
mapping (`ImplementsCalendar`, `ImplementsWarehouse`, `ImplementsAccount`).

## Runs

| Run | Configuration | Result |
|---|---|---|
| `booking` | `MCBooking.cfg` | holds, 571,130 states |
| `booking_free_slots_window` | `MCBookingWindow.cfg` | `OfferedSlotsAreFree` violated |
| `inventory` | `MCInventory.cfg` | holds, 171,954 states |
| `loyalty` | `MCLoyalty.cfg` | holds, 220,255 states |
| `loyalty_lost_update` | `MCLoyaltyTwo.cfg` | `BalanceIsEarned` violated |
| `billing` | `MCBilling.cfg` | holds, 64,044 states |
| `pay_without_points` | `MCBillingPoints.cfg` | `PaidEarnsPoints` violated |
| `delivery` | `MCDelivery.cfg` | holds, 146,410 states |
| `buried_at_first_failure` | `MCDeliveryBuried.cfg` | `SecondChance` violated |
| `analytics` | `MCAnalytics.cfg` | holds, 302,832 states |
| `gateway` | `MCGateway.cfg` | holds, 516,621 states |
| `organization` | `MCOrganization.cfg` | holds, 293,778 states |

`tlc -workers 2 -config MCBooking.cfg MCBooking` repeats the first, the others
likewise.

What the passing runs show, beside the types (those of `Loyalty` are part of `TypeOK` of
`Billing`, which runs it):

- **`booking`.** `NoDoubleBooking` and `BookedWithinShift` for the table,
  `AnnouncementsAreTrue` for the messages, `FreeSlotsExact` for what the reception is
  shown; rows only close (`RowsOnlyClose`), and an outcome is set by somebody who may
  (`OnlyOwnerCompletes`). All of it implements `Calendar`.
- **`inventory`.** Stock is never negative and is what its history adds up to; an
  event is marked exactly if it is written off; alerts are about rows that were low;
  the detailed transactions implement `Warehouse`, and all of them end.
- **`loyalty`.** Answers agree with the table (`AnswersAreTrue`), and the cards
  implement `PointsAccount`: each invoice is recorded once, and its credit arrives in full
  unless the call was overtaken. `ShortIffOvertaken`: a balance is never too large, and
  too small exactly where that has happened; every other interleaving, repetition, lost
  race or failure leaves it exact.
- **`billing`.** `InvoicedOnce`, `PaidOnce`, `PointsOnlyForPaid`, and what is announced is
  in the table, up to the commission an employee reads in the report.
- **`delivery`.** At most one effect (`EffectOnce`), acknowledged after it (`AckedIsDone`),
  given up not before the agreed deliveries (`DeadAfterRetries`); nothing stays in the
  queue (`EverythingSettles`).
- **`analytics`.** `ReportsMatchEvents`: the four reports say what the events that took
  effect say, counted without the tables. `HandledIsHeard`: an event whose fact was there
  has taken effect once it is marked. What it does not promise is that every event
  takes effect: an outcome that overtakes its fact is lost, which the code accepts
  (the docstring of `resolve_appointment`).
- **`gateway`.** `StaleMissBounded`: an account just bound to an employee is taken for
  nobody for a bounded time, although a slow answer of core may overwrite a newer one
  in the cache. `RefreshesAreSpaced`: however many requests queue for the lock, a
  request fetches keys exactly if the pause is over that the last attempt calls for:
  neither too soon, nor told that its key is unknown while it might be fetched. `OwnObjectsOnly`: cache,
  headers and the check of the service together give a specialist his own data only.
- **`organization`.** `RegisteredOnce`: what is unique stays so, and the loser of a race
  leaves no material behind. `PagesAreComplete`: whoever was there when a listing began
  is on one of its pages, once. `StopSilencesNobody`: an orderly stop loses no event.

What the failing runs show:

- **`booking_free_slots_window`.** FreeSlots reads appointments for the window, but
  cuts its grid over the whole shifts that touch the window. Slots of such a shift
  outside the window are compared with nothing and offered as free.
  `FreeSlotsExact`, in the passing run, says that inside the window the answer is
  right in both directions.
- **`loyalty_lost_update`.** Two invoices of one client, credited at the same
  time: both entries are stored, one of the two additions to the balance is lost.
  Theorem `BalanceShortIffOvertaken` says what is true of all calls: such an overlap is
  the only way for a balance to differ from its entries, and it then has less, never more.
- **`pay_without_points`.** The payment is committed before the call for the points.
  If the call fails, POST /pay can only be repeated to be told that the invoice
  is paid; the points never come.
- **`buried_at_first_failure`.** The consumer takes the broker's delivery count for
  the number of failures. It also counts deliveries returned by a restart or a lost
  connection, so an event can go to the dead-letter queue at the first failure of
  its handler.

### Bounds

Data is bounded by the instance, and there is no constraint on the states. Two bounds
are in guards: `MaxFailures` (how often database, broker or process may fail in a
behaviour of Analytics and Organization) and `MaxClock` (the time of a behaviour of
Gateway). No property depends on them, and the theorems hold for every value.

- **Booking**: two Book and two closing requests, two employees, one of whom has a break
  between two shifts and a service too long to fit before it; a request for the
  wrong branch. Two requests are enough for every pair of handlers to race, and
  closings enough for Complete against Cancel and for a slot that is freed and taken
  again. Requests are symmetric. Times are quarters of an hour.
- **Inventory**: three deliveries of two events (one event twice), three
  materials of which one is not on the shelves yet, one replenishment that takes
  the rows in the opposite order, one refused for its amount. A deadlock between
  any two transactions occurs.
- **Loyalty**: three invoices of one client, for one of which there are two calls, so that
  calls for different invoices overtake each other, also in a chain, and calls for one
  invoice race for the index; one invoice of another client, too small to earn a point.
  The failing run uses the same calls.
- **Billing**: one event delivered to two handlers and one to a third; two payments of one
  invoice and one of the other.
- **Delivery**: two messages, prefetch 2, two attempts, two returns (in the code
  16, 5 and 10). `RetryLimit` is reached by failures alone, by restarts alone
  and by both; the broker's limit is reached by returns that happen after the
  attempts are used up.
- **Analytics**: nine events, one of each kind and a second visit, in any order and
  any number of times, two handlers at a time, one failure. Two periods, so that a
  visit counts in one of them and not in the other.
- **Gateway**: two requests of two accounts, two keys, a cache with room for one, so that
  every insertion may evict; lifetimes 2 and 1, pauses 2 and 1, answers within 1,
  up to time 3 (in the code 60 s and 5 s, 30 s and 2 s, timeouts of 5 s). These
  keep the order of the settings; time 3 lets an entry be made, expire and be made
  again. Calls are chosen to get each answer of the gateway at least once.
- **Organization**: two requests at a time out of fourteen entries, which contend for
  a tax number, an account, two materials in opposite orders, and a phone. Of five
  hirings three can be in the list together, and pages are of one employee: while a
  listing that found two of them is between its pages, the third can be hired, before
  or behind the cursor or under the name it stands at. A listing by offset fails here.

### Fairness

Safety runs assume none. Two liveness properties do:

- `TransactionsEnd` (inventory): a handler with an open transaction takes its next
  step if it stays possible. The statements are short, Postgres executes them and
  breaks a deadlock after `deadlock_timeout`. A failed handler is not
  retried within a transaction.
- `EverythingSettles` (delivery): the broker delivers while the prefetch allows, and
  a handler that has begun ends, well or badly. The second is an assumption: the
  services set no deadline on their gRPC calls. No fairness is assumed
  of crashes and cut connections, nor that they stop: the delivery limit bounds
  the returns.

## Proofs

`tlapm XProofs.tla`, for each of the eight, checks every theorem. They hold for every
value of the constants that satisfies the named assumptions in the modules (such as
that the tables of services are functions of the right type). Each module proves
its type invariant, an inductive invariant `IInv` and what follows from it.

- **Booking.** `IInv` adds to the invariants what handlers know at each stage. That
  the exclusion constraint keeps `NoDoubleBooking` is immediate; that
  `BookedWithinShift` survives the INSERT needs `BookerKnows`: what Book found
  out by gRPC before the INSERT is still true at it, because a hired employee keeps
  the shifts. That announcements are true needs `CloserHolds`: a handler that has
  closed an appointment and not yet said so is the only one. From `IInv` follow
  the theorems `DoubleBookingImpossible`, `EveryBookingFitsShift`,
  `AnnouncedTruthfully`, `ClosedForGood`, `OwnersComplete` and the refinement
  `BookingIsCalendar`. `SlotsShownAreBookable` needs the types only: whatever meets a
  slot inside the window meets the window, so the two reads for the window miss
  nothing of the slots inside it. `GridIsComplete` says of `BuildSlots`, for any step of the
  grid, that it leaves out no period that starts on the grid and fits the shift
  (`AlignUpIsFirst`: nothing on the grid lies between a time and its rounding).
- **Inventory.** `IInv` adds `LocksHeld` (a row that an open transaction has changed is
  locked by it, and its draft is the committed row plus its movements) and
  `EventsHeld` (an event is in the hands of one open transaction at most, while it is
  not marked yet). Proved:
  `NeverNegative`, `HistoryAddsUp`, `WrittenOffOnce`, `AnnouncedTruthfully`. A third
  part, `LinesApplied`, is what a refinement asks for: what an open transaction has
  recorded of an item is the sum of its lines so far (`RunningTotal`), and it holds
  the rows of those lines and no others. With it every step is mapped:
  a commit is `Ware!Do` of the whole job (`CommitIsDo`), any other step changes
  nothing of the warehouse (`OthersAreInvisible`), which is
  `StockIsWarehouse`. `AlertsAreCurrent` follows from the lock: no other transaction
  writes a row between the UPDATE that returned it and the commit.
  `WriteOffsNeverDeadlock` is about the retry on a deadlock: one needs a replenishment
  in the circle, as those take the rows in the order of the request. Write-offs take
  them in the order catalog sorts norms, by the unique names of materials (the
  assumption `NormsByName`), so a row one holds comes before the row it waits for, and
  the member of a circle whose next row comes first would wait for an earlier one.
- **Loyalty.** `SessionsLag` says of each session under way that it has read no more than
  has been earned, and `ReadersKnow` that what it has read is the balance itself as long
  as it is not overtaken (or its invoice is recorded by now, and the index will refuse
  it), and too little once it is. They give `NoPointsFromNowhere`,
  `BalanceShortIffOvertaken` and the refinement `LoyaltyIsAccount`, for any calls: nothing is
  assumed about how many invoices a client has or how their calls overlap.
- **Billing.** `IssuerKnows` and `PayerKnows` say what a handler and a payment have
  established when they reach a step, `AnnouncedByWinner` that only the one that has won
  the inbox or the conditional UPDATE announces, `CallsKnow` which session of Loyalty
  works for which payment. From them: `OneInvoiceForVisit`, `OnePayment`,
  `PointsFollowPayment` (the place where the two services meet), and
  `AnnouncedTruthfully`. Its sums need two invariants more: `CommissionsFixed`, that
  an invoice keeps the commission it was issued with, and `FinitelyMade`. What was
  announced is then part of what is paid, at the same amounts, and its sum is no
  greater (`SumOfPart`).
- **Delivery.** `IInv` says where a message is, what each of its deliveries has done,
  and how returns are counted. `EffectAtMostOnce` and `AcknowledgedWhenDone` follow for any
  prefetch and any number of cut connections. `GivenUpAfterRetries` needs
  `AttemptsCounted`: the count the broker keeps is the number of deliveries there have been.
- **Analytics.** `FactsMatchEvents`: each table is what the heard events say, so the order
  in which they came is gone from the state (theorem `TablesTellEvents`). It rests on the
  assumption that booking and billing announce each fact once, which their own
  theorems state. `ReportsTellEvents` carries it to the figures: the rows of a report
  are those of certain heard events, one of each (`RowsOf`), so that the counts are equal
  by a bijection and the sums by `SumCorresponds`.
- **Gateway.** `Bound` and `CacheOK`: what a request or the cache knows of an employee is
  true, and a miss is older than the binding by no more than the time core may take to
  answer; `EvictMakesRoom`: after an eviction there is room. They give
  `MissesExpire` and `OwnDataOnly`. `Stamped` says that the attempt is
  stamped with its end, which gives `KeysFetchedSpaced`. The assumptions are
  `MissingTtl > 0`, pauses greater than zero and that core answers within `LookupTime` or not at all; the client's
  timeout is one for each phase of a call, so `LookupTime` stands for their sum.
- **Organization.** `Apart` (open transactions have inserted different keys) and `IndexOK` (a
  committed key belongs to one entry) give `KeysStayUnique`, with a bijection
  between a service's materials and their rows for the count of them. `FrameOK` (requests
  run only while everything is open) and `EventsOK` give `EventsSurviveStop`.
  `ListingMissesNobody` rests on `PagesOK`: whoever is after the cursor is after
  everybody seen, and whoever was there at the beginning is seen or after the cursor. It
  needs (full_name, id) to be a total order (`BeforeOrders`), and that a set can be put
  in that order, which `OrderExists` shows by giving each employee the place that counts
  those before it.

Sums and running totals are defined by recursion, and what they come to takes
induction over a finite set or over the lines of a job. The provers cannot use the
library's induction rules, which take the statement as a parameter, so these proofs
look at a smallest counterexample: `LeastSubset` and `LeastNatural` follow from
the well-founded orders of the library, and each lemma about sums (`SumUnfolds`,
`SumTakesOut`, `SumCorresponds`, `SumOfPart`) shows that a smallest set for which it fails
cannot be. That the sets summed over are finite is not assumed but proved as an
invariant (`FinitelyHeard`, `FinitelyMade`, `FinitelyEntered`): however many events,
deliveries and entries the constants allow, a behaviour has met finitely many.
The lemmas stand in both modules that use them, `AnalyticsProofs` and `BillingProofs`:
each has the variables of its own component.

Every safety property that a passing run checks is thereby a theorem. Only
model-checked are the two liveness properties, `TransactionsEnd` and
`EverythingSettles`: this prover has no rules for fairness and ENABLED.

## Plan

In this order, the behaviour that matters most first; all of it is modelled,
checked and, but for liveness, proved.

1. `Slots`, `Booking`, `Calendar`: the calendar.
2. `Inventory`, `Warehouse`.
3. `Loyalty`, `PointsAccount`.
4. `Billing`, composed with `Loyalty`.
5. `Delivery`.
6. `Analytics`: events in any order, duplicated, and the inbox.
7. `Gateway`, `Routes`: the employee cache and the key store under their awaits.
8. `Organization`: registration, paged lists, an orderly stop.
9. Proofs, in the same order: invariants, then refinements, then sums and orderings.

## Not modelled

- notification-service: it keeps a ring buffer of what it has sent and no inbox, so
  that a repeated event is a repeated message; nothing in its state could tell.
  Its consumer is the one of `Delivery`.
- `update_price` of the catalogue, one UPDATE: an appointment keeps the price it was
  booked at.
- Read-only operations that no property needs (cards, histories, lists of stock and
  invoices). The list of employees over HTTP returns one page of at most 200 and
  takes no cursor; the pages are those over gRPC.
- `EmployeeDirectory.forget`, which nobody calls; the retirement of a key by Keycloak.
- A publish that the broker has not confirmed: to the state it is a crash before
  publishing, which the modules have.
- A period of a report that ends while a payment with an earlier `paid_at` is
  not committed yet: the commission report is compared over all time.
- Rounding of amounts (`float64` to `numeric(14,3)`), wording, templates, metrics,
  traces, configuration, token formats, encodings, generated code, migrations as
  such, generators of documents, deployment.
- The order of NATS messages: the board is redrawn from FreeSlots, and nothing is kept.
- A Postgres that loses what it committed, and a RabbitMQ that loses what it
  confirmed.
