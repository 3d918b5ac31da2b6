# dstream: TLA+ models, model checking and proofs

dstream is a webhook gateway written in Go.  It accepts webhooks from providers
(*inbound*), fans each one out to the connections of its source and delivers it to
HTTP or CLI destinations with retries; it also sends an application's own messages
to its customers' endpoints (*outbound*).  State lives in two stores that no
transaction spans: Postgres (rows, the authoritative status) and Redis (the delivery
queue, counters, caches, CLI hand-over lists).  Several processes (API/ingest
servers and workers) share both.  Nearly everything that can go wrong lies between
those two stores, between those processes, and between the statements of one HTTP
handler; this directory models it.

`PROJECT.json` lists components, runs, mutants, the map from definitions to source
lines, hazards and theorems.

## 1. Inventory

| Part | Source | State | Operations | What makes it hard | Module |
|---|---|---|---|---|---|
| Delivery queue | `internal/dqueue` | Redis: per-org lists, ring of orgs, leases, scheduled set, dead list, notify list | Enqueue, Schedule, FairPick, Ack, DeadLetter, PromoteDue, Recover, WaitNotify, RequeueDead, PromoteScheduled, DrainDead | concurrent consumers, expiring leases, lost replies, fairness | `DQueue` |
| Worker process | `cmd/dstream/worker.go` | consumer goroutines, tickers | pick, process, settle; mover; recoverer; reapers | crash between any two calls, panic, shutdown | `WorkerPool` |
| Inbound delivery | `internal/deliver` | events, attempts | Process, reaper; manual retry and console act on the same rows | two stores, ignored errors, duplicates, retry budget | `Deliver` |
| In-flight gates | `deliver/handler.go`, `webhook/handler.go` | Redis counters with TTL | INCR/EXPIRE, DECR | crash leaks a slot; expiry races a release | `InflightGate` |
| CLI tunnel | `internal/api/cli`, `deliver.dispatchToCLI`, `cmd/dstream/cli.go` | session key with TTL, dispatch list, pending map of a connection | dispatch, forward, result, heartbeat, teardown | tunnel dies in mid-flight; late answer; two connections | `CliTunnel` |
| Outbound engine | `internal/webhook` | deliveries, endpoints (failure counter, disabled) | Process, retry, auto-disable, replay, operational events | as inbound, plus the endpoint's counter and self-notification | `Outbound` |
| Outbound API | `api/outbound`, `internal/opevents`, `auth/portal*.go` | applications, event types, endpoints with secrets, portal epoch, messages | CRUD, rotate, portal links, publish, test, replay, seeding | one transaction among many loose statements; idempotent repetition | `Publisher` |
| Ingest | `internal/ingest` | dedup key, requests, bodies, events | receive, dedup, store, fan out, capture | dedup key against a failing request | `Ingest`, `Sender` |
| Source cache | `internal/ingest` | per-process cache | lookup, sweep, invalidate | stale rows | `SourceCache` |
| Usage and quotas | `internal/usage`, `maintenance.go`, `admin/quota.go` | Redis counters, rollups, limits snapshot | check, sweep, alert, plan change | a sweep overwrites increments; the calendar moves under it | `Usage` |
| Membership | `api/identity/{members,orgs,api_keys}.go`, `cmd/dstream/admin.go` | members, organizations, keys | change role, remove, leave, transfer, delete | last owner under concurrent statements | `Membership` |
| Sign-in | `internal/auth`, `api/identity/{auth,sso,invites}.go` | magic links, SSO states, invitations, session epoch | issue, consume, accept, log out | single use, stale cookies | `SignIn` |
| Pipeline API, bookmarks, scenarios | `api/pipeline`, `internal/bookmark` | sources, destinations, connections, rules, bookmarks, scenarios, payloads | CRUD, test, import, replay, retention | lookup, then write; load-merge PATCHes; a sweep | `Catalog` |
| Console | `internal/admin` | none of its own | requeue, promote, drain, quotas | acts on the queue and the rows in two calls | actions of the modules above |
| Mail queue, retry policy | `internal/mailer`, `policy.go` | queue tasks; none | | | not modelled |

The parts meet in the queue: ingest, the outbound API, the mailer, the reapers and
the console enqueue; one pool of consumers picks and calls the handler of the
payload's kind; handlers settle by Ack, Schedule + Ack or DeadLetter.  The APIs meet
the handlers in the rows.

## 2. Modules

```
                 WorkerPoolProofs  --->  DQueueProofs  <---  DeliverProofs
                        | EXTENDS            |                  |
LeaseQueue  <--implements--  WorkerPool --EXTENDS--> DQueue <--EXTENDS-- Deliver
    ^ EXTENDS
    |-- Outbound     Publisher                          <-- OutboundProofs
    |-- CliTunnel    Sender --EXTENDS--> Ingest    SourceCache   <-- SourceProofs
                     InflightGate    Usage              <-- LimitsProofs
                     SignIn --EXTENDS--> Membership     <-- SignInProofs
                     Catalog                            <-- CatalogProofs
```

* **`DQueue`** — the queue's Redis state and one action per script or command.  A
  sorted-set score is only ever compared with the clock, so a scheduled entry is
  `later` or `due` and a lease is `expired` or not; time moves entries across.  The
  module has operations and no clients.
* **`WorkerPool`** (EXTENDS `DQueue`) — consumers, mover, recoverer, console and
  producers around the queue.  A handler is reduced to the contract the delivery,
  outbound and mail handlers share: finish + Ack; Schedule, then Ack (two steps);
  DeadLetter; or return an error and keep the lease.
* **`LeaseQueue`** — what the queue promises its clients: a bag of waiting items and
  a set of leases, one copy moving at a time.  `WorkerPool` implements it
  (`QueueImplements`, refinement mapping in `WorkerPool`): an item waits in its org's
  list or in the scheduled set.  An item may merge with an equal one (a sorted set
  keeps one member), which is why `Put` and `Reclaim` may leave the bag as it is.
* **`Deliver`** (EXTENDS `DQueue`) — the inbound handler, one step per call to Redis,
  Postgres or the destination, with the events and attempts tables, the reaper,
  manual retry, the console's requeue and row deletion.  Writes whose error the code
  ignores may fail (`LostWrite`); other failures abandon the lease.
* **`CliTunnel`** (EXTENDS `LeaseQueue`) — delivery to a developer's machine: session
  key, dispatch list, one goroutine per event and connection, the pending map that
  routes answers, the response timeout, heartbeat and teardown, and the reaper's
  window for such events.
* **`Outbound`** (EXTENDS `LeaseQueue`) — the outbound handler on deliveries and
  endpoints, with publish, replay, recover, endpoint edit and deletion, auto-disable,
  operational events, the reaper and the console.
* **`Publisher`** — the outbound API: every handler as its lookups and statements; the
  publish transaction with the locks it holds; the seeding of the operational
  application, whose one statement has a snapshot of its own.
* **`InflightGate`** — the Redis counters that cap what an org or a destination has
  in flight, with their TTL.
* **`Ingest`** — one webhook and its transmissions: dedup key, request, body, events,
  fan-out, capture with eviction, rollback of the key.  **`Sender`** (EXTENDS `Ingest`)
  says what the sender may rely on, and records the exceptions as they happen.
* **`SourceCache`** — the per-process cache of source rows: lookups, sweeps and the
  handlers that edit a source or its capture rules.
* **`Usage`** — one org and one metric: the counter and the gate, the limits snapshot and
  its reloads, alerts with their latch, the hourly sweep, plan changes, the calendar.
* **`Membership`**, **`SignIn`** (EXTENDS `Membership`) — organizations, members, keys;
  magic links, SSO, invitations, sessions and their epoch.  What a handler reads before it
  writes, each statement, the lookup of the next org and the cookie at the end are steps
  of their own; a guarded statement takes its snapshot in one step and updates in the next.
* **`Catalog`** — the pipeline API and the fixtures kept from traffic: sources,
  destinations, connections, rules, bookmarks, scenarios, and the retention sweep.
* **`DQueueProofs`**, **`WorkerPoolProofs`**, **`DeliverProofs`**, **`CatalogProofs`** — lemmas
  and theorems about the module each is named after; **`SignInProofs`** (`SignIn`,
  `Membership`), **`OutboundProofs`** (`Outbound`, `Publisher`), **`SourceProofs`** (`Ingest`,
  `Sender`, `SourceCache`, `CliTunnel`), **`LimitsProofs`** (`InflightGate`, `Usage`).  Modules
  that are proved in one place keep their names apart, hence `ApiSpec` (`Publisher`),
  `TunnelSpec` (`CliTunnel`), `CacheSpec` (`SourceCache`), `GateSpec` (`InflightGate`).
* **`MC...`** — instances for TLC.

Definitions named *Mutant of X* are faulty variants of X.  Nothing uses them; they are
substituted for X to show that a property can fail.

### Correspondence worth knowing

* A FairPick member is `token \x1f payload`; `Members` is the pair.  Ack and
  DeadLetter name the exact member, which is what fences a stale holder.
* `Recover` strips the token, so two leases of one payload become one scheduled member.
* `pc` values of `Deliver` and `Outbound` follow Process from top to bottom.  `row` is
  the attempt_count read at load: recordAttempt numbers the attempt from it.
* Inbound, the attempt number travels in the payload and each copy has a budget of its
  own; outbound, it lives in the row and the copies share one.  `BudgetBounded` and
  `BudgetShared` state the two.
* `stale` stands for `updated_at` older than the reaper's window.
* `calls` (`Deliver`) holds the API, reaper and console requests that have done the
  first of their two writes.  In `Outbound` a row write and its Enqueue are one step
  that may lose the Enqueue: nobody can act on a copy that is not in the queue.
* IncrEndpointFailures is two steps in `Outbound`, EnsureOperationalApp is two in
  `Publisher`, and the guarded role statements are two in `Membership`: in Postgres a
  subquery reads the statement's snapshot, while an UPDATE or an ON CONFLICT sees the
  newest version of the row.
* In `InflightGate` a TTL is fresh or old.  It is 150 s, five delivery timeouts, so it
  does not grow old while the delivery that refreshed it last is running.  `Return` is a
  timing assumption that no line of the code enforces: a deferred delivery comes back
  after 250 or 500 ms, later than the over-cap round trips to Redis that were under way.
  Without it, callers that take turns being over the cap could keep the counter up for
  ever.  Only `KeepsAdmitting` depends on it.
* The steps of a membership handler are its reads (authentication and lookups, one step),
  its statement, `next` (the lookup of the org the session falls back to) and `cookie`.
  Splitting the reads would add nothing: a principal keeps the epoch it began with, and a
  role read earlier is only staler than the step after it already allows.  `fresh` says that no change of
  the org's members has come between what a request holds and now; taking a
  statement's snapshot makes it fresh again, as Postgres does.
* In `Usage` a sweep reads the quotas, then the clock, then counts, then writes
  (`RollupUsage`, `ReadClock`, ...).  A check reads the clock once more after it has read the
  limits; the day it saw may just have ended (`JustRead`).
* `Outbound!Send` has the path on which http.NewRequest fails: the number is used up and
  no attempt recorded.  `EndpointPatched` clears the failure counter of an endpoint that
  was on, too.  `revived` counts the PATCHes that switched an endpoint on again.
* `Catalog!PassesCutoff` is the passing of time for a payload.  In `CliTunnel` the event row
  is loaded (`LoadEvent`) before the session key is looked up (`Route`).
* In `Ingest` a *gap* is what lets a second transmission through by design: the key
  expires, the check fails open, or a committed batch is reported as failed.
* In `Catalog`, `Publisher` and `Membership` a slot is a request handler: it begins with
  its lookups, keeps what it read in its record, and writes later.  `Fail` ends it at
  any point; what it wrote outside a transaction stays.
* `Publisher`'s batch insert and commit are one step: the batch locks the rows it
  references, and a crash in between is a rollback, like one before the batch.
* History variables (`excused`, `want`, `overlapped`, `late`, `steady`, `acked`, `given`,
  `void`, `miss`, ...) never guard an action.  They let a property say exactly which
  steps its exceptions are.

## 3. Runs

| Run | Shows | Bounds |
|---|---|---|
| `pool` | no event lost, leases fenced, ring = orgs with work, no sleeping on a backlog, `LeaseQueue` implemented, round robin, every owed event handled again | 2 workers, 2 orgs, 2 events, 2 tokens, 1 fault |
| `deliver_safety` | no orphaned in_flight row, copies conserved, retry budget, attempts numbered, a requeue takes effect | 2 workers, 1 event, 1 retry, 1 of reap / manual retry / requeue / deletion, 1 fault |
| `deliver_liveness` | every accepted event reaches a terminal status, unless its terminal status write is lost after MarkEventInFlight | 1 worker, 2 reaps, 1 fault, 1 status write that fails unnoticed |
| `cli` | answers reach the goroutine that waits, a delivered event stays so, a registration outlives an older connection's teardown, an open connection becomes visible again, every event comes to an end | 1 event in two copies, 2 connections, 2 goroutines each, 1 disturbance |
| `outbound` | no row stranded, one budget for all copies, attempt numbers, auto-disable noticed, every delivery comes to an end | 2 workers, 1 customer delivery + 1 operational one, 1 retry, 1 disturbance |
| `publish` | an acknowledged message reaches every endpoint that was on; event ids and the operational app unique; racing operational events survive; deliveries, portal and URLs contained; rotation keeps the secret just replaced | 3 requests, 2 at a time, 3 apps, 3 endpoints |
| `gate` | counter exact and cap kept until a slot leaks; the gate heals | 4 deliveries, cap 2, 2 leaks |
| `ingest` | one fan-out per life of the key, no event without its body, capture cap; a sender with a 2xx has its webhook fanned out, with four exceptions.  Beside it the source cache: an answered edit is seen by later requests, with two exceptions, and the cache becomes current | 3 transmissions, 2 connections, 2 faults, 1 gap; 2 requests, 2 edits, 1 failed query |
| `usage` | ceiling, one alert per period and tier, records of own rows, the record of a closed period final, a late sweep off the counters of later periods, limits never go back, counters heal | 3 days in 2 months, 1 sweeper, 2 requests, 1 plan change, 1 fault, 1 deletion |
| `signin` | last owner, roles, invitations and links used once, sessions end with logout, nothing orphaned | 2 users, 2 browsers, 2 orgs, 1 link, 1 invitation, 1 SSO state, 4 requests, 2 at a time |
| `signin_demote` | *violation*: two owners who demote each other leave the org without one, which the comment on the statement denies | 2 users, 1 org, 2 requests |
| `catalog` | nothing dangles, no row joins two orgs, edits kept, destinations callable, URLs an admin's, pinned payloads kept | 3 requests, 2 at a time, 2 orgs, 1 sweep |

A run's invariant is often a conjunction of named parts, each with a comment of its
own; several include the module's type invariant:

| Invariant | Parts |
|---|---|
| `Deliver!AttemptsAccounted` | `TypeOK`, `CopiesBounded`, `BudgetBounded`, `AttemptsNumbered` |
| `Outbound!AttemptsAccounted` | `TypeOK`, `BudgetShared`, `AttemptsKept` |
| `CliTunnel!RegistrationsKept` | `TunnelTypeOK`, `AnswersHeard`, `KeySurvives` |
| `Publisher!PublishedArrives`, `EndpointTrusted` | `ApiTypeOK`, `AckedReachesAll`, `KeysUnique`, `OpEventsSurvive`, `WithinApp`; `GraceKept`, `UrlsGiven` |
| `InflightGate!GateSound` | `GateTypeOK`, `CapWithoutLeaks`, `CounterExact`, `NeverWedged` |
| `Sender!WebhookKept` | `AcceptedNotLost`, `MarksBounded` |
| `Usage!WithinPeriod`, `LateStepsConfined` | `TypeOK`, `CeilingHolds`, `RecordsOwnRows`; `RecordsFinal`, `CountersOwn`, `SnapshotForward` |
| `SignIn!InvitesSound`, `MembershipKept`, `SessionsEarned` | `TypeOK`, `InviteOnce`, `NoOrphans`; `OwnerKept`, `RoleKept`; `OpensOnce`, `LandsInMembership` |
| `Catalog!RowsSound` | `TypeOK`, `NoDangling`, `OneTenant`, `Callable`, `PinKept` |

The type invariants of `WorkerPool` and `Ingest`, and `TokensDistinct`, are proved and
not part of a run.

The `ingest` run puts two modules that share no variable side by side (`MCIngest`), so
that one run asks what a webhook and the cache it goes through promise.  In
`signin_demote` the property is an action property and no fairness is needed.

One event suffices in `Deliver` and `CliTunnel`: no action relates the rows or copies of
two events, and fairness between them is `WorkerPool`'s subject.  Two workers give
every race between two copies, and one fault reaches every fault in every state; the
proofs cover any number (section 4).  In `pool` the promotion batch
(`PromoteLimit`) holds everything that can be scheduled: a batch of the model is any
subset of that size, while the code takes the oldest, so a smaller one would admit a
starvation that scores rule out.  A deep backlog of one org needs a third event, which
the liveness run cannot afford; that the ring serves the others first is proved for
any backlog (`RingIsRoundRobin`).  `Outbound` needs two items because a delivery that
gives up publishes another.  All disturbances share one bound there (`MaxEvents`).
The reaper's claim of a row that has no copy is free, so that a lost Enqueue can be
followed by its repair within the bound.  In the API modules two requests at a time
give every pair of handlers; the third prepares the rows or observes the result.  Two
transmissions make a dedup race, and the third sees what it left.  `Usage` has a month
of two days, so that three days reach a closed month; its one sweeper meets midnight at every
step, and the theorems allow any number of sweepers, as replicas run them.  In `catalog` one
payload is past the cutoff at the start and the others pass it as the run goes on.  Symmetry is used for ids that
are interchangeable, in runs without liveness only.  Runs that switch deadlock
checking off model systems that may stop: when everything is settled and the bounds
are used up, idle workers only poll and the bounded requests are over.

**Fairness.**  Consumers and tickers run in loops whose waits are bounded (BRPOP
timeout 2 s, HTTP timeout 30 s, tickers 1 s and 30 s), so their steps are weakly
fair; so is the passing of time (due entries, expired leases, lapsing TTLs, ageing
rows) and so are the steps of an HTTP handler that has begun, of a CLI connection's
loops (ping every 10 s, response timeout 35 s) and of the hourly sweep.  `Deliver` and
`Outbound` assume strong fairness of passing the gates: a rate limit refills every
second, and that a cap does not stay closed is `KeepsAdmitting` of the gate.
Producers, senders of webhooks, operators, editors, the developer's CLI and faults are
not fair.

## 4. Proofs

Each theorem holds for every value of the constants that the named ASSUMEs admit: any
number of workers, events, requests, tokens, retries, faults, any cap.  The ASSUMEs say
that caps and batch sizes are positive, bounds and budgets natural, OrgOf total, the
"nothing in hand" values no member or lease, and that transmissions (`Ingest`),
deliveries at a gate and edits of a source are finite in number where they are counted;
for `SignIn`, that the identifiers of links, invitations, SSO states, slots and browsers
are apart from each other and from "nothing", as UUIDs and process-local names are.  For
`Catalog`, `Publisher` and `Usage`: the bodies of requests have the types that decoding and
validation let through, an id belongs to one table, the marks for "no such row" and "deleted" are
no rows, the presets have limits; `Catalog`'s initial tables satisfy what the schema and
the handlers' checks demand (`SeedSound`), and `Publisher`'s bounds leave room for the
two applications and the two endpoints its initial tables may hold.

| Module | Theorem | States |
|---|---|---|
| `WorkerPoolProofs` | `PoolTypeCorrect`, `TokensUnique` | types; a token names one lease |
| | `RingCorrect`, `RingIsRoundRobin` | `RingMatchesPending`, `RoundRobin` |
| | `AtLeastOnce`, `LeasesFenced` | `NothingLost`, `FencedLeases` |
| | `WakeupsSuffice` | `NoLostWakeup` |
| | `QueueRefinement` | `QueueImplements`: the scripts implement `LeaseQueue` |
| `DeliverProofs` | `DeliverTypeCorrect`, `InFlightRowsOwned`, `RequeuesTakeEffect` | types; `InFlightOwned`; `RequeueTakesEffect` |
| | `AttemptsAreAccounted` | `AttemptsAccounted` |
| `OutboundProofs` | `DeliveriesGoOn`, `DisablesAreNoticed`, `AttemptsAreAccounted` | `NothingStranded`, `DisableNoticed`, `AttemptsAccounted` |
| | `PublishesArrive`, `EndpointsTrusted`, `PortalsContained` | `PublishedArrives`, `EndpointTrusted`, `PortalContained` |
| `SourceProofs` | `IngestTypeCorrect`, `EventsHaveBodies`, `DedupHolds` | types; `EventHasBody`; `DedupEffective` |
| | `SenderServed` | `WebhookKept` |
| | `EditsTakeEffect` | `EffectiveUnlessOvertaken` |
| | `TunnelRegistrations`, `DeliveredEventsStay` | `RegistrationsKept`, `DeliveredStays` |
| `LimitsProofs` | `GateCorrect` | `GateSound` |
| | `PeriodsKept`, `RejectionsExplained`, `LateSteps` | `WithinPeriod`, `RejectionExplained`, `LateStepsConfined` |
| `SignInProofs` | `InvitationsSound`, `LogoutIsFinal` | `InvitesSound`, `LogoutEndsAll` |
| | `MembershipsKept`, `SessionsAreEarned` | `MembershipKept`, `SessionsEarned` |
| `CatalogProofs` | `CatalogSound`, `EditsAreKept`, `UrlsStayWithAdmins` | `RowsSound`, `EditsKept`, `RepointedByAdmin` |

The inductive invariants, and why the properties alone do not do:

* **Queue.**  `IInv == QInv /\ PoolTypeOK /\ TokensDistinct /\ NothingLost` with
  `QInv == QueueTypeOK /\ RingMatchesPending`.  That an Ack removes only its own lease
  needs `TokensDistinct`, and that a pick takes what the ring announces needs
  `RingMatchesPending`.  `NothingLost` is stated with `Secure`, which does not count a
  lease whose holder has already scheduled the next copy and is about to Ack; with
  plain presence the Ack could not be shown to be harmless.  `DQueueProofs` has one
  lemma per queue operation (it preserves `QInv`, keeps what waits, extends the ring
  only at its end) and the lemmas on `PushAll`, whose loop is a recursive function over
  an interval; induction over that interval is `IntervalInduction`, derived from the
  well-foundedness of `<` on the naturals.
* **Refinement.**  Every action of `WorkerPool` is shown to be one action of `LeaseQueue`
  or a stutter.  The mapping counts an event's copies on its own org's list and in the
  scheduled set, so the invariant adds `AtHome`, and the counting section of
  `DQueueProofs` says how `Append`, `Tail` and set union change such a count.
* **Deliver.**  `IInv == TypeInv /\ HoldersOK /\ Kept /\ Taken /\ Effective`.  `HoldersOK`: tokens
  tell the holders apart, and a worker that has not settled has its lease or is known
  to have outlived it.  `Kept` is `InFlightOwned` without the workers that have
  nothing left to give when they die (after `panic`, the lease is gone).  `Taken` says
  that an event on the console's list has no worker that will write its row.
  For `AttemptsAccounted` the invariant is `TypeInv /\ Balanced /\ Numbered`.  A copy's level is
  the number of requests that may be behind it; a worker past its request counts
  as one level further.  `Balanced` keeps, for every level `j`, the copies of level `j` or less
  (on the org's list, scheduled, in a worker's hands, or in a lease the recoverer will
  take back) and the requests made at `j` within what came from outside; at the top
  level that is `CopiesBounded`, and the requests of all levels, counted as the set
  `Cells`, give `BudgetBounded`.  Copies that wait, that are held and that are about to
  be recovered have to be counted together, since each step moves a copy from one to
  another: `TallyStep` shows this for every action.  `Numbered`: while an event was enqueued
  once and nothing failed, there is at most one copy of it, so the worker that has it
  is alone, and `Stage` says at each of its steps how the count it read, the row's count
  and the attempts recorded compare.
* **Outbound.**  `IInv == TypeOK /\ Told /\ HoldersOK /\ Kept`, the last two as in `Deliver`.  `Told`
  counts automatic disablings against notices and PATCHes that switched the endpoint
  on, with one more in hand while the endpoint is on and a worker's snapshot says it is off.  For the attempts, `AttemptsInv` adds
  three parts.  `AbsentRows`: nobody has a copy of a row that does not exist.  `PlainSound`: a delivery
  that was not replayed or doubled and lost no write has at most one copy alive, and
  the count its holder read, or made, is the row's, so the number it uses is free.
  `BudgetsKept` keeps two balances for every delivery: the copies that may still lead to a
  request and those used up (`x`) are no more than one and the disturbances; and the
  requests made, or about to be made by a worker that is not at its last, are covered by
  the row's count (or by the full schedule and the disturbances, less the workers still
  before `MarkDeliveryInFlight`, once it is used up), by the earlier lives of the row, and
  by `x`.  A worker whose loaded count is the last pays with its copy, because it leads to no
  other; the reaper's copy of a row that had none is one that was due.
* **Gate.**  `GateInv == GateTypeOK /\ SlotsCounted /\ NoTtlNoDebt`: a counter without a TTL was left by DECRs
  alone, so it is not above zero, and the next INCR sets the TTL.
* **Ingest.**  `TypeOK /\ ControlOK /\ EventHasBody /\ KeyPaysFor`.  `ControlOK` says what a
  handler has done by where it stands.  `KeyPaysFor` counts: the transmissions that
  were let through are paid for by the key, if it exists, and by the gaps; a claimer
  that fails returns its claim with the key, so the sum moves with every step.  For
  the sender, `KeyKept`: unless excused, the key stands for a transmission that got
  through or is still on its way.
* **Source cache.**  `CacheInv == CacheTypeOK /\ VersionsCounted /\ Written /\ Fresh`: neither the entry nor what a lookup
  under way has read is older than an answered edit.
* **Sign-in.**  `TypeOK /\ NoOrphans /\ RequestsSound /\ Exclusive /\ EpochsSound /\ LinksSound /\
  GrantsSound`.  `RequestsSound` says what each request has in hand by what it is about to
  do, and that what it read is still true as long as it is fresh; without it, a statement
  that follows its lookups could do anything.  `Exclusive` gives a link or a state to one
  request, as the consuming statements do.  `EpochsSound` turns the history of
  logouts into numbers: what a logout ended carries an epoch below its user's, so a
  cookie set by a request that began before it is refused as well.  A step of
  `Membership` is shown to be good once (`MemberGood`) and reused by `SignIn`.
* **Outbound API.**  `ApiInv`.  `RequestsFit` says, for each handler under way, what it has
  read and which of it still holds when its statement runs: a row may have been edited
  or deleted since, but its application, its creator's URL and the locks of a publish
  transaction may be relied on.  `Onward` lists the ways in which rows may change, so
  that one lemma (`StillFits`) carries every other handler over any step.  `KeysApart`
  is `KeysUnique` with the rows that open transactions are about to commit; `LinksBehind`
  puts every revoked link behind its application's epoch; `Reached` asks for the deliveries
  of a committed message with an event id before anybody acknowledges it, because a
  repetition acknowledges what it finds.
* **CLI tunnel.**  `TunnelInv`.  `OneCopy`: unless an event entered the system twice it is in
  one spot, among the queue, the leases, the dispatch list and the connections'
  goroutines; this is what makes a late timeout harmless.  `KeyHeld`, `LeaseHeld`, `Closed`
  and `ChanOwned` tie the session key, the leases, the closed connections and the entries of the
  pending map to the goroutines that own them, and `Hears` says that a goroutine that
  waits finds its own entry there.
* **Usage.**  `UsageInv`.  `CounterPays` adds what an overwrite took out of a counter to what is
  still in it, and the sum covers the requests let through; the ceiling follows at the
  gate.  `SweepsOwnRows` and `RowsMade` tie what a sweep counted to rows made in its
  period; `LatchTells`: an alert's latch was set by its publication or by a
  fault that lost it; `LoadsForward`: a reload under way brings limits that are no older
  than those in use.  That a closed record is final follows from the day a sweep read:
  every write of a sweep goes to a period that ran on that day, and `Closed` waits for the
  sweeps that read a day on which the period ran.
* **Catalog.**  `RowsInv /\ RequestsSound /\ Counted`.  Each part of `RowsSound` needs the
  requests that hold what they looked up: `RequestsSound` says which references,
  tenants and columns they may write.  `RefsSound` is the foreign keys as the schema has
  them; `PinSafe` says that the sweep's list of payloads holds none that a bookmark made
  in time has pinned.

Three properties were corrected because their proofs did not go through; each was true
of the instance that TLC checks and false of a larger one, and TLC then showed the
larger one's counterexample.  `BudgetShared` did not count the attempts that several
workers make between one's load and another's count; `InFlightOwned` left out a lease
overrun together with a second fault, and a dead list that is full;
`RequeueTakesEffect` left out the second of two workers at a requeued event.

Only model-checked: liveness under fairness, which is beyond the prover
(`EventuallyHandled`, the two `EventuallySettled`, `KeepsAdmitting`, `EventuallyCurrent`,
`EventuallyOver`, `VisibleAgain`, `Heals`).  Every invariant, every action property and the
refinement that a run checks is also a theorem.

## 5. Plan

1. An event life cycle that `Deliver` and `CliTunnel` implement; `Deliver` against
   `LeaseQueue`, so that inbound and outbound rest on the same queue contract.
2. `Mailer` as a client of `LeaseQueue`; `RetryPolicy` as operators against a reference
   definition.

## 6. What the properties except

Each exception below is written into a property; TLC found it, or a failed proof did and
TLC confirmed it.

Queue, delivery and ingest:

* A retransmission that arrives while the first one holds the dedup key is answered
  "deduped"; if the first one then fails, the webhook is lost although its sender has a
  2xx (`Overlap` in `Sender`; the comment at `ingest/handler.go:251` is about the retry
  that comes after the failure).  The same follows a failed DEL, a crash of the
  claimer, and a SETNX that took effect though its reply was an error.
* A terminal status write that fails after an inbound delivery leaves an in_flight row
  that neither queue nor reaper owns (`used.lost` in `InFlightOwned`, `Forsaken` in
  `EventuallySettled`); the outbound counterpart is `slipped` in `NothingStranded` and
  `EventuallyOver`.  One that fails before MarkEventInFlight is repaired by the reaper.
* Each reap, requeue and manual retry starts a retry budget of its own: the requests of
  an event are bounded per copy that came from outside (`BudgetBounded`).
* A console requeue of an inbound entry is lost when its status write is missed or when
  a worker that was at the event already, with another copy or panicking, writes its
  terminal status after it (`RequeueTakesEffect` is about the other events).  For a dead
  *message* it resets no row at all, and the terminal guard acknowledges the copy
  unsent (`admin/router.go:315`).
* A replay sets attempt_count to 0 and keeps the attempt rows: the attempts after it
  reuse numbers and are refused by the unique index (`AttemptsKept`).
* A lease overrun together with a crash can strand a row: the recovered copy is
  finished and acknowledged, then the slow worker sets the row back and dies.  So can
  a full dead list, whose oldest entry goes when a panic's is added
  (`excused` in `InFlightOwned`).
* Inbound attempt numbers collide when an attempt ends before MarkEventInFlight and the
  event has a second copy (`AttemptsNumbered`).
* Once leaked slots put a caller over the cap, the key can lapse before it gives its
  increment back; the counter is then −1 and one delivery too many gets in until the
  next lapse (`CapWithoutLeaks` and `CounterExact` are about gates without leaks).
* A lookup that read before an edit and stores after its eviction serves the old row
  for one more TTL (`EffectiveUnlessOvertaken`).
* Two exhausted deliveries that run IncrEndpointFailures at once can both be told that
  they disabled the endpoint; `DisableNoticed` asks for at least one notice.  A PATCH that
  switches the endpoint on between the snapshot and the update of that statement hides
  a disabling (`revived`).
* dispatchEventToCLI does not look at the status: an event that is in the system twice
  can be set back from delivered by a timeout (`DeliveredStays`), and one goroutine can
  take the other's entry in the pending map (`AnswersHeard`).

Identity:

* The last-owner guards count owners in the statement's snapshot, so two owners who
  demote each other, or a role change that overlaps a transfer, can leave an org
  without one; two overlapping transfers leave two owners.  The comments call these
  statements race-free (`identity.sql.go:181`, `:144`, `:445`, `members.go:155`,
  `orgs.go:317`); `signin_demote` checks the first of them and finds it violated.
  `OwnerKept` says what does hold: what happens between a handler's reads and the
  statement's snapshot does no harm, so a regression to counting in the handler, and
  updating later, breaks it.
* A sign-in applies the invitations it listed, without a lock: one revoked meanwhile
  still counts (`InviteOnce` is about the others).  An unaccepted invitation that has
  lapsed blocks a new one until it is pruned; two concurrent sign-ins of a user
  without an org make two workspaces.
* Between the lookup of a session's next org and its cookie the membership can end; the
  cookie then names an org its user is not in, and RequireOrg refuses it
  (`LandsInMembership` allows it in that window).

Usage:

* A sweep writes its count over increments made since (`CeilingHolds` counts them), and a
  period without rows is not corrected (`Heals`).
* Two replicas sweep at once: the one that counted first may write last, and put an older
  count into the record and the counter.  The next sweep corrects it while the period
  runs; after its end nothing does.  `RecordsFinal` therefore begins when the sweeps that
  read the clock in the period are over, and does not say that the last count stands.
* A change from daily to monthly periods makes the next sweep write to the record that
  starts with the month, which may be that of a past day (`Runs` counts both kinds of
  period).  Of two overlapping plan changes one is lost.

APIs:

* PATCHes of rules, bookmarks and scenarios read, merge and write every column: of two
  overlapping ones the later undoes the other (`EditsKept`).
* Two overlapping PATCHes can leave an http destination with an empty URL (`Callable`).
* A member or portal user who sends the stored URL along can undo an administrator's
  change of it (`RepointedByAdmin`, `UrlsGiven`).
* A bookmark made after a payload has gone, or during the sweep that takes it, has
  none, and its replay does not check (`PinKept`).  A failed import leaves a request
  and body behind that no bookmark holds.
* A test send and an operational event are not transactions: a failure leaves a message
  without deliveries.  Nobody was told that it was accepted (`AckedReachesAll`), but an
  operational event is then lost, as it is when an endpoint it was to go to is deleted
  under it; `OpEventsSurvive` is about the race to seed.
* A request that got in with a portal link goes on after the link is revoked
  (`PortalContained` is about the check at the door).
* An operational event type that was deleted comes back with the next operational
  event; an archived one stays archived.

## 7. Not modelled

The dashboard (`web/`), metrics, tracing, logging, configuration, migrations and
deployment files have no state of their own in these protocols.  Of `internal/store`,
generated by sqlc, the statements that write and the lookups that decide are mapped;
lists, statistics and histograms are not.  SSRF checks, signature computation, filter
and transform evaluation are pure functions of a library; the models choose their
outcomes.  In the identity modules audit rows, display names, rate limits, and the 30-day
life of a cookie are left out; in the API
modules names, uids, metadata and schemas are data, and a refused one is a `Fail`.  The
CLI's own process appears as the other end of a connection that may do anything.  The
ping loop of a connection ends by itself, without cancelling the session, when its write
fails or it panics (`cli.go:187-191`, `:203-205`).  A failed write closes the WebSocket in the
library, the reader's next read fails and cancels, which is `Disconnect`; a panic of the
ping loop alone, after which the key lapses under an open connection, is not modelled.  The
mailer and the retry policy are in the plan.  `PROJECT.json` gives a reason for each.
