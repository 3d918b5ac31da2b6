------------------------------- MODULE Usage -------------------------------
(***************************************************************************)
(* Metering and quotas of one organization and one metric                  *)
(* (internal/usage, cmd/dstream/maintenance.go, internal/admin/quota.go).  *)
(* The hot path increments a Redis counter keyed by the start of the       *)
(* quota period and compares it with limits from a snapshot; hourly sweeps *)
(* of every worker count the rows in Postgres, record the count in         *)
(* usage_rollups and write it over the counter.  Nothing orders a sweep's  *)
(* count, its writes, the requests and the operator's plan changes.        *)
(*                                                                         *)
(* Organizations and metrics share nothing here, so one of each is enough. *)
(* The soft limit stands for the pair of columns a body may leave alone.   *)
(***************************************************************************)
EXTENDS Integers, FiniteSets

CONSTANTS
    MaxDay, DaysPerMonth,  \* the calendar: days 0..MaxDay
    Presets,               \* [plan name -> limits]
    Bodies,                \* PATCH bodies: [plan, hard, period], None where absent
    Sweepers,              \* workers that run maintenance
    MaxFanOut,             \* bound on the connections of a source
    None,
    MaxChecks, MaxPatches, MaxFaults, MaxDeletes  \* bounds of one behaviour

Limits == [soft: Nat, hard: Nat, period: {"day", "month"}]

ASSUME Calendar == MaxDay \in Nat /\ DaysPerMonth \in Nat \ {0}
ASSUME PresetLimits == "free" \in DOMAIN Presets /\ \A p \in DOMAIN Presets : Presets[p] \in Limits
ASSUME CustomApart == "custom" \notin DOMAIN Presets

\* The bodies that the handler's validation lets through.
ASSUME BodiesTyped ==
    Bodies \subseteq [plan: DOMAIN Presets \cup {"custom", None}, hard: Nat \cup {None},
                     period: {"day", "month", None}]

ASSUME Bounds ==
    /\ MaxFanOut \in Nat
    /\ MaxChecks \in Nat /\ MaxPatches \in Nat /\ MaxFaults \in Nat /\ MaxDeletes \in Nat

VARIABLES
    day,      \* time.Now()
    quota,    \* the plan and limits of the organizations row
    patching, \* PATCH requests between reading that row and writing it
    rows,     \* [Days -> Nat]: rows that count, by the day they were created
    made,     \* history: [Days -> Nat], those deleted since included
    rollup,   \* [Days -> Nat or None]: usage_rollups, by period_start
    counter,  \* [Days -> Nat]: the Redis counters; 0: no key
    snap,     \* Gate.snap: the version of quota it holds, and those limits
    loading,  \* reloads between the query and the store
    pending,  \* accepted requests whose rows are still to be inserted
    sweep,    \* [Sweepers -> the sweep under way]
    alerting, \* [Days -> [Tiers -> Nat]]: alert goroutines
    latch,    \* usage:alerted keys
    \* history
    ver,        \* how often quota was written
    accepted,   \* [Days -> Nat]: requests a counter let through
    miss,       \* the most accepted requests a counter ever left out
    cap,        \* the greatest hard limit in force; -1: none was
    rejected,   \* periods with a 429
    published,  \* [Days -> [Tiers -> Nat]]: quota alerts
    unexplained,\* periods whose alert was lost to a fault
    used        \* how often each bounded thing happened

tables == <<quota, patching, rows, made, rollup, ver>>
gate == <<snap, loading, pending>>
alerts == <<alerting, latch, published, unexplained>>
history == <<accepted, miss, cap, rejected>>
vars == <<day, tables, counter, gate, sweep, alerts, history, used>>

Days == 0..MaxDay
Tiers == {"soft", "hard"}
Bounded == {"checks", "patches", "faults", "deletes"}
NoLimits == [soft |-> 0, hard |-> 0, period |-> "month"]
Resting == [pc |-> "rest", period |-> "month", now |-> 0, count |-> 0]

\* How often each bounded thing may happen.
Most(what) == CASE what = "checks" -> MaxChecks [] what = "patches" -> MaxPatches
                [] what = "faults" -> MaxFaults [] what = "deletes" -> MaxDeletes

Stored == [plan: DOMAIN Presets \cup {"custom"}, lim: Limits]

TypeOK ==
    /\ day \in Days
    /\ quota \in Stored
    /\ patching \subseteq [body: Bodies, read: Stored]
    /\ rows \in [Days -> Nat] /\ made \in [Days -> Nat]
    /\ rollup \in [Days -> (Nat \ {0}) \cup {None}]
    /\ counter \in [Days -> Nat]
    /\ snap \in [ver: Nat, lim: Limits]
    /\ loading \subseteq [ver: Nat, lim: Limits]
    /\ pending \in Nat
    /\ sweep \in [Sweepers -> [pc: {"rest", "clock", "query", "upsert", "set"}, period: {"day", "month"},
                               now: Days, count: Nat]]
    /\ alerting \in [Days -> [Tiers -> Nat]] /\ latch \subseteq Days \X Tiers
    /\ used \in [Bounded -> Nat] /\ \A what \in Bounded : used[what] <= Most(what)

-----------------------------------------------------------------------------
\* PeriodStart and, for a row's created_at, date_trunc.  The key of a counter and
\* of a rollup is this day: the first of a month starts both kinds of period.
PeriodStart(d, period) == IF period = "day" THEN d ELSE d - (d % DaysPerMonth)

\* Mutant of Check: the ceiling itself is let through.
CheckAbove(count, lim) ==
    IF lim.hard > 0 /\ count > lim.hard THEN "hard"
    ELSE IF lim.soft > 0 /\ count >= lim.soft THEN "soft" ELSE "allow"

Check(count, lim) ==
    IF lim.hard > 0 /\ count >= lim.hard THEN "hard"
    ELSE IF lim.soft > 0 /\ count >= lim.soft THEN "soft" ELSE "allow"

May(what) == used[what] < Most(what) /\ used' = [used EXCEPT ![what] = @ + 1]
Fault == May("faults")

-----------------------------------------------------------------------------
(* Gate                                                                    *)

Accept == pending' = pending + 1

\* Redis is down: the request is let through uncounted.
CheckFailsOpen ==
    /\ May("checks")
    /\ snap.lim.soft # 0 \/ snap.lim.hard # 0
    /\ Accept
    /\ UNCHANGED <<day, tables, counter, snap, loading, sweep, alerts, history>>

\* No limit at all: no round-trip to Redis, and nothing is counted.
CheckUnlimited ==
    /\ May("checks")
    /\ snap.lim.soft = 0 /\ snap.lim.hard = 0
    /\ Accept
    /\ UNCHANGED <<day, tables, counter, snap, loading, sweep, alerts, history>>

\* What a request that now reaches Redis may have read from the clock: midnight
\* may have come in between.
JustRead == {d \in Days : d \in {day, day - 1}}

\* Incr and the decision, for a request that read the clock on day d.  A rejected
\* request has been counted too.
CheckCounts(d) ==
    LET lim == snap.lim
        p == PeriodStart(d, lim.period)
        dec == Check(counter[p] + 1, lim)
    IN  /\ May("checks")
        /\ lim.soft # 0 \/ lim.hard # 0
        /\ counter' = [counter EXCEPT ![p] = @ + 1]
        /\ alerting' = IF dec = "allow" THEN alerting ELSE [alerting EXCEPT ![p][dec] = @ + 1]
        /\ IF dec = "hard"
           THEN /\ rejected' = rejected \cup {p}
                /\ UNCHANGED <<pending, accepted, cap>>
           ELSE /\ Accept
                /\ accepted' = [accepted EXCEPT ![p] = @ + 1]
                /\ cap' = [cap EXCEPT ![p] = IF lim.hard = 0 \/ @ = -1 THEN -1
                                             ELSE IF lim.hard > @ THEN lim.hard ELSE @]
                /\ UNCHANGED rejected
        /\ UNCHANGED <<day, tables, snap, loading, sweep, latch, published, unexplained, miss>>

\* The rest of an accepted request: one row per connection.
Insert ==
    /\ pending > 0
    /\ pending' = pending - 1
    /\ \E n \in 0..MaxFanOut : /\ rows' = [rows EXCEPT ![day] = @ + n]
                               /\ made' = [made EXCEPT ![day] = @ + n]
    /\ UNCHANGED <<day, quota, patching, rollup, ver, counter, snap, loading, sweep, alerts,
                   history, used>>

Idling == loading = {}

\* limits() of some request finds the snapshot older than LimitsTTL, which any
\* snapshot may become; one reload at a time.
Refresh ==
    /\ Idling
    /\ loading' = loading \cup {[ver |-> ver, lim |-> quota.lim]}
    /\ UNCHANGED <<day, tables, counter, snap, pending, sweep, alerts, history, used>>

Reload(l) ==
    /\ loading' = loading \ {l}
    /\ \/ snap' = l /\ UNCHANGED used
       \/ Fault /\ UNCHANGED snap
    /\ UNCHANGED <<day, tables, counter, pending, sweep, alerts, history>>

\* Mutant of Latch: one latch for both tiers.
LatchShared(p, t) == <<p, "soft">>

Latch(p, t) == <<p, t>>

\* The goroutine of one over-limit request.  SETNX lets the first one publish.
Alert(p, t) ==
    /\ alerting[p][t] > 0
    /\ alerting' = [alerting EXCEPT ![p][t] = @ - 1]
    /\ \/ /\ latch' = latch \cup {Latch(p, t)}
          /\ IF Latch(p, t) \in latch THEN UNCHANGED published
             ELSE published' = [published EXCEPT ![p][t] = @ + 1]
          /\ UNCHANGED <<unexplained, used>>
       \/ \* no latch, or no publication after it
          /\ Fault
          /\ latch' \in {latch, latch \cup {Latch(p, t)}}
          /\ unexplained' = unexplained \cup {p}
          /\ UNCHANGED published
    /\ UNCHANGED <<day, tables, counter, gate, sweep, history>>

-----------------------------------------------------------------------------
(* PATCH /admin/orgs/{org_id}/plan                                         *)

\* A preset owns every limit and the period; a custom plan takes what is given.
Merged(read, body) ==
    LET plan == IF body.plan = None THEN read.plan ELSE body.plan
    IN  IF plan \in DOMAIN Presets
        THEN [plan |-> plan, lim |-> Presets[plan]]
        ELSE [plan |-> plan,
              lim |-> [read.lim EXCEPT !.hard = IF body.hard = None THEN @ ELSE body.hard,
                                       !.period = IF body.period = None THEN @ ELSE body.period]]

PatchOrgPlan(body) ==
    LET plan == IF body.plan = None THEN quota.plan ELSE body.plan
    IN  /\ May("patches")
        /\ plan \in DOMAIN Presets => body.hard = None /\ body.period = None
        /\ patching' = patching \cup {[body |-> body, read |-> quota]}
        /\ UNCHANGED <<day, quota, rows, made, rollup, ver, counter, gate, sweep, alerts, history>>

UpdateOrgQuota(r) ==
    /\ patching' = patching \ {r}
    /\ quota' = Merged(r.read, r.body)
    /\ ver' = ver + 1
    /\ UNCHANGED <<day, rows, made, rollup, counter, gate, sweep, alerts, history, used>>

-----------------------------------------------------------------------------
(* The maintenance sweep                                                   *)

\* Mutant of After: the clock is read again for every query and write.
AfterToday(sw) == PeriodStart(day, sw.period)

\* The one period a sweep counts: that of the clock when it began.
After(sw) == PeriodStart(sw.now, sw.period)

\* Mutant of Grouped: every organization is counted by the month.
Monthly(lim) == "month"

\* The group an organization's count is taken in.
Grouped(lim) == lim.period

\* ListOrgQuotas: the period of the organization.
RollupUsage(w) ==
    /\ sweep[w].pc = "rest"
    /\ sweep' = [sweep EXCEPT ![w] = [pc |-> "clock", period |-> Grouped(quota.lim), now |-> 0,
                                      count |-> 0]]
    /\ UNCHANGED <<day, tables, counter, gate, alerts, history, used>>

\* time.Now(), once for the whole sweep.
ReadClock(w) ==
    /\ sweep[w].pc = "clock"
    /\ sweep' = [sweep EXCEPT ![w].pc = "query", ![w].now = day]
    /\ UNCHANGED <<day, tables, counter, gate, alerts, history, used>>

\* The days of the period that starts at p.  Rows of a later bucket are skipped.
Bucket(p, period) == {d \in Days : d >= p /\ PeriodStart(d, period) = p}

\* The numbers f of the days added up.
Total(f) ==
    LET before[d \in 0..(MaxDay + 1)] == IF d = 0 THEN 0 ELSE before[d - 1] + f[d - 1]
    IN  before[MaxDay + 1]

CountRows(p, period) == Total([d \in Days |-> IF d \in Bucket(p, period) THEN rows[d] ELSE 0])

\* GROUP BY returns no row for an organization without any.
Returned(n) == n > 0

RollupEvents(w) ==
    LET n == CountRows(After(sweep[w]), sweep[w].period)
    IN  /\ sweep[w].pc = "query"
        /\ \/ /\ sweep' = [sweep EXCEPT ![w] = 
                                IF Returned(n) THEN [@ EXCEPT !.pc = "upsert", !.count = n]
                                               ELSE Resting]
              /\ UNCHANGED used
           \/ Fault /\ sweep' = [sweep EXCEPT ![w] = Resting]
        /\ UNCHANGED <<day, tables, counter, gate, alerts, history>>

UpsertUsageRollup(w) ==
    /\ sweep[w].pc = "upsert"
    /\ \/ /\ rollup' = [rollup EXCEPT ![After(sweep[w])] = sweep[w].count]
          /\ sweep' = [sweep EXCEPT ![w].pc = "set"]
          /\ UNCHANGED used
       \/ Fault /\ sweep' = [sweep EXCEPT ![w] = Resting] /\ UNCHANGED rollup
    /\ UNCHANGED <<day, quota, patching, rows, made, ver, counter, gate, alerts, history>>

Overwrite(p, n) ==
    /\ counter' = [counter EXCEPT ![p] = n]
    /\ miss' = [miss EXCEPT ![p] = IF accepted[p] - n > @ THEN accepted[p] - n ELSE @]

SetCounter(w) ==
    /\ sweep[w].pc = "set"
    /\ \/ Overwrite(After(sweep[w]), sweep[w].count) /\ UNCHANGED used
       \/ Fault /\ UNCHANGED <<counter, miss>>
    /\ sweep' = [sweep EXCEPT ![w] = Resting]
    /\ UNCHANGED <<day, tables, gate, alerts, accepted, cap, rejected>>

-----------------------------------------------------------------------------
(* The surroundings                                                        *)

DayPasses ==
    /\ day < MaxDay
    /\ day' = day + 1
    /\ UNCHANGED <<tables, counter, gate, sweep, alerts, history, used>>

\* A connection is deleted and its events with it.
CascadeDelete(d) ==
    /\ rows[d] > 0
    /\ May("deletes")
    /\ rows' = [rows EXCEPT ![d] = @ - 1]
    /\ UNCHANGED <<day, quota, patching, made, rollup, ver, counter, gate, sweep, alerts, history>>

\* Redis evicts a counter.
Evict(p) ==
    /\ counter[p] > 0
    /\ Fault
    /\ Overwrite(p, 0)
    /\ UNCHANGED <<day, tables, gate, sweep, alerts, accepted, cap, rejected>>

-----------------------------------------------------------------------------
Init ==
    /\ day = 0
    /\ quota = [plan |-> "free", lim |-> Presets["free"]]  \* the column defaults
    /\ patching = {}
    /\ rows = [d \in Days |-> 0] /\ made = rows /\ rollup = [d \in Days |-> None]
    /\ counter = [d \in Days |-> 0]
    /\ \E lim \in {quota.lim, NoLimits} : snap = [ver |-> 0, lim |-> lim]  \* the load at boot may fail
    /\ loading = {}
    /\ pending = 0
    /\ sweep = [w \in Sweepers |-> Resting]
    /\ alerting = [d \in Days |-> [t \in Tiers |-> 0]] /\ latch = {}
    /\ ver = 0
    /\ accepted = [d \in Days |-> 0] /\ miss = [d \in Days |-> 0]
    /\ cap = [d \in Days |-> 0] /\ rejected = {}
    /\ published = [d \in Days |-> [t \in Tiers |-> 0]] /\ unexplained = {}
    /\ used = [what \in Bounded |-> 0]

SweepStep(w) ==
    RollupUsage(w) \/ ReadClock(w) \/ RollupEvents(w) \/ UpsertUsageRollup(w) \/ SetCounter(w)

AlertStep == \E p \in Days, t \in Tiers : Alert(p, t)

Next ==
    \/ CheckFailsOpen \/ CheckUnlimited \/ (\E d \in JustRead : CheckCounts(d)) \/ Insert
    \/ Refresh \/ \E l \in loading : Reload(l)
    \/ AlertStep
    \/ \E b \in Bodies : PatchOrgPlan(b)
    \/ \E r \in patching : UpdateOrgQuota(r)
    \/ \E w \in Sweepers : SweepStep(w)
    \/ DayPasses
    \/ \E d \in Days : CascadeDelete(d) \/ Evict(d)

Spec == Init /\ [][Next]_vars

\* Every worker sweeps again and again, requests end, and goroutines run.
FairSpec ==
    /\ Spec
    /\ \A w \in Sweepers : WF_vars(SweepStep(w))
    /\ WF_vars(Insert) /\ WF_vars(AlertStep)

-----------------------------------------------------------------------------
(* Properties                                                              *)

\* A period lets no more requests through than the ceiling that was in force,
\* but for those a sweep or an eviction had taken out of the counter
\* (Gate.check, SetCounter).
CeilingHolds == \A p \in Days :
    cap[p] > 0 /\ accepted[p] > 0 => accepted[p] < cap[p] + miss[p]

\* An alert goes out at most once per period and tier, and a period with a
\* rejected request has the alert that explains it, sent or on its way, unless a
\* fault took it (Gate.alert).
RejectionExplained ==
    /\ \A p \in Days, t \in Tiers : published[p][t] <= 1
    /\ \A p \in rejected : \/ published[p]["hard"] = 1 \/ alerting[p]["hard"] > 0
                           \/ p \in unexplained

\* The rows of the month of p, from day p on.
MonthRows(p, number) ==
    Total([d \in Days |-> IF d >= p /\ PeriodStart(d, "month") = PeriodStart(p, "month")
                          THEN number[d] ELSE 0])

\* The record of a period counts rows of that month only, and no more than were
\* ever made, although a sweep may be overtaken by midnight (rollupPeriod).
RecordsOwnRows == \A p \in Days : rollup[p] # None => rollup[p] <= MonthRows(p, made)

\* Nothing is let through or recorded beyond what belongs to the period
\* (Gate.check, rollupPeriod).
WithinPeriod == TypeOK /\ CeilingHolds /\ RecordsOwnRows

\* A quota period that starts on day p, of either kind, runs on day d.
Runs(p, d) == p \in {PeriodStart(d, "day"), PeriodStart(d, "month")}

\* A period that starts on day p is over, and so is every sweep that read the clock
\* while it ran.
Closed(p) ==
    /\ \A d \in Days : d >= day => ~Runs(p, d)
    /\ \A w \in Sweepers : sweep[w].pc \in {"query", "upsert", "set"} => ~Runs(p, sweep[w].now)

\* From then on its record is final, whichever rows are deleted, plans changed and
\* sweeps run: the billing of a closed period is not revised (rollupPeriod).
RecordsFinal == \A p \in Days : Closed(p) => Closed(p)' /\ rollup'[p] = rollup[p]

\* A sweep overtaken by midnight does not write its count over the counter of a
\* period that started meanwhile (rollupPeriod, SetCounter).
CountersOwn == \A w \in Sweepers, p \in Days :
    sweep'[w] # sweep[w] /\ counter'[p] # counter[p] => Runs(p, sweep[w].now)

\* The limits in use are never replaced by older ones (Gate.refresh).
SnapshotForward == snap'.ver >= snap.ver

\* What comes late stays within its own period: a closed record is final, a sweep
\* leaves the counters of later periods alone, and a reload overtaken by a plan
\* change does not replace newer limits (rollupPeriod, Gate.refresh).
LateStepsConfined == [][RecordsFinal /\ CountersOwn /\ SnapshotForward]_vars

\* Once traffic has ended, the counter the next check would read settles on the
\* number of rows, whatever was lost or overwritten on the way (rollupUsage).  A
\* period without rows is not corrected: its query returns nothing.
Settled ==
    LET p == PeriodStart(day, quota.lim.period)  n == CountRows(p, quota.lim.period)
    IN  n > 0 => counter[p] = n /\ rollup[p] = n
Heals == <>[]Settled

=============================================================================
