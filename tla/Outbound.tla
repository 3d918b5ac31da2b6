------------------------------ MODULE Outbound ------------------------------
(***************************************************************************)
(* The outbound engine: internal/webhook/handler.go (Process, failAttempt, *)
(* the reaper) on the message_deliveries and endpoints tables, with the    *)
(* API handlers that create, replay and recover deliveries and edit or     *)
(* delete the endpoint, the operational events of internal/opevents and    *)
(* the console's requeue.  The queue is the abstract LeaseQueue; an item   *)
(* is a delivery id, the only thing a "message" payload carries.           *)
(*                                                                         *)
(* Two endpoints: "app", a customer's, and "op", the one of the org's      *)
(* operational application.  A delivery belongs to one of them for good.   *)
(*                                                                         *)
(* One step is one call to Postgres, Redis or the endpoint, except that a  *)
(* row write followed by its Enqueue, and a request followed by            *)
(* recordAttempt, are one step each: nobody can act on a copy that is not  *)
(* yet in the queue, and attempt rows are read by no handler.              *)
(***************************************************************************)
EXTENDS LeaseQueue, FiniteSets

CONSTANTS
    Op,          \* the items that are deliveries of operational events
    Workers,
    NoLease,
    MaxRetries,  \* len(retrySchedule), 7 in policy.go
    Threshold,   \* MaxConsecutiveFailures, 0 turns auto-disable off
    MaxEvents    \* bound: faults, lost writes, replays, reaps, requeues, edits,
                 \* requests that cannot be built

ASSUME OpAssumption == Op \subseteq Items
ASSUME NoLeaseAssumption == NoLease \notin Leases
ASSUME BoundsAssumption == MaxRetries \in Nat /\ Threshold \in Nat /\ MaxEvents \in Nat

VARIABLES
    del,      \* message_deliveries, with the attempt_num values of their attempts
    ep,       \* endpoints
    buried,   \* items on the dead list
    wk,       \* the workers
    log,      \* history of each delivery
    used      \* how much of MaxEvents is used up

vars == <<leaseVars, del, ep, buried, wk, log, used>>

Endpoints == {"app", "op"}
EndpointOf(d) == IF d \in Op THEN "op" ELSE "app"

Over == {"delivered", "dead", "disabled", "filtered"}

Labels == {"pick", "load", "disable", "gate", "reject", "send", "deliver", "reset",
           "retry", "schedule", "dead", "exhausted", "snapshot", "increment", "notify",
           "bury", "ack", "panic", "panicDead"}

\* retryAt: next_retry_at is set.  stale: updated_at is 15 minutes old.
Rows == [status: Over \cup {"absent", "deleted", "queued", "in_flight"}, count: Nat,
         retryAt: BOOLEAN, stale: BOOLEAN, recorded: SUBSET (Nat \ {0})]

\* fails: consecutive_failures.  flips, notices and revived are history: how often
\* the engine disabled the endpoint, how often it was told that it just had, and
\* how often a PATCH enabled the endpoint again.
EndpointRows == [exists: BOOLEAN, disabled: BOOLEAN, fails: Nat, flips: Nat, notices: Nat,
                 revived: Nat]

\* row: attempt_count as loaded.  was: endpoints.disabled in the snapshot of the
\* running IncrEndpointFailures.
WorkerStates == [pc: Labels, lease: Leases \cup {NoLease}, row: Nat, was: BOOLEAN]

\* replays: how often the row was reset.  refused: an attempt was refused by the
\* unique index.  slipped: a status write failed and nobody noticed.  overrun: a
\* worker outlived its lease.  doubled: a second copy, or a second go at a recorded
\* attempt, may exist.
Logs == [sends: Nat, replays: Nat, refused: BOOLEAN, slipped: BOOLEAN, overrun: BOOLEAN,
         doubled: BOOLEAN]

TypeOK ==
    /\ LeaseTypeOK
    /\ del \in [Items -> Rows]
    /\ ep \in [Endpoints -> EndpointRows]
    /\ buried \subseteq Items
    /\ wk \in [Workers -> WorkerStates]
    /\ \A w \in Workers : wk[w].lease = NoLease <=> wk[w].pc = "pick"
    /\ log \in [Items -> Logs]
    /\ used \in 0..MaxEvents

Idle == [pc |-> "pick", lease |-> NoLease, row |-> 0, was |-> FALSE]

Init ==
    /\ LeaseInit
    /\ del = [d \in Items |-> [status |-> "absent", count |-> 0, retryAt |-> FALSE,
                               stale |-> FALSE, recorded |-> {}]]
    /\ ep = [e \in Endpoints |-> [exists |-> TRUE, disabled |-> FALSE, fails |-> 0,
                                  flips |-> 0, notices |-> 0, revived |-> 0]]
    /\ buried = {}
    /\ wk = [w \in Workers |-> Idle]
    /\ log = [d \in Items |-> [sends |-> 0, replays |-> 0, refused |-> FALSE,
                               slipped |-> FALSE, overrun |-> FALSE, doubled |-> FALSE]]
    /\ used = 0

-----------------------------------------------------------------------------
Spend == used < MaxEvents /\ used' = used + 1

Dv(w) == wk[w].lease.evt
At(w, label) == wk[w].pc = label
\* Locals that are not read again are forgotten.
Goto(w, label) == wk' = [wk EXCEPT ![w].pc = label, ![w].row = 0, ![w].was = FALSE]
Free(w) == wk' = [wk EXCEPT ![w] = Idle]

Exists(d) == del[d].status \notin {"absent", "deleted"}

\* UPDATE message_deliveries ... WHERE id: no row, no error.
Update(d, r) == del' = [del EXCEPT ![d] = IF Exists(d) THEN r ELSE @]

\* SET status, updated_at = now().
WithStatus(d, s) == [del[d] EXCEPT !.status = s, !.stale = FALSE]
SetStatus(d, s) == Update(d, WithStatus(d, s))

\* The same where the caller discards the error.
SetStatusUnchecked(d, s) ==
    \/ SetStatus(d, s) /\ UNCHANGED <<log, used>>
    \/ Spend /\ log' = [log EXCEPT ![d].slipped = TRUE] /\ UNCHANGED del

-----------------------------------------------------------------------------
(* Process. *)

Pick(w) ==
    /\ At(w, "pick")
    /\ \E t \in Tokens, d \in Items :
          /\ \A v \in Workers : wk[v].lease # NoLease => wk[v].lease.tok # t
          /\ Take(t, d)
          /\ wk' = [wk EXCEPT ![w].pc = "load", ![w].lease = [tok |-> t, evt |-> d]]
    /\ UNCHANGED <<del, ep, buried, log, used>>

\* GetMessageDeliveryForSend and the two guards on what it returns.
Load(w) ==
    LET d == Dv(w)
    IN  /\ At(w, "load")
        /\ CASE ~Exists(d) \/ del[d].status \in Over -> Goto(w, "ack")
             [] OTHER -> IF ep[EndpointOf(d)].disabled
                         THEN Goto(w, "disable")
                         ELSE wk' = [wk EXCEPT ![w].pc = "gate", ![w].row = del[d].count]
        /\ UNCHANGED <<leaseVars, del, ep, buried, log, used>>

MarkDeliveryDisabled(w) ==
    /\ At(w, "disable")
    /\ SetStatusUnchecked(Dv(w), "disabled")
    /\ Goto(w, "ack")
    /\ UNCHANGED <<leaseVars, ep, buried>>

\* The org's in-flight cap or the endpoint's rate limit: deferSend.
Defer(w) ==
    /\ At(w, "gate")
    /\ Put(Dv(w))
    /\ Goto(w, "ack")
    /\ UNCHANGED <<del, ep, buried, log, used>>

\* attempt_num is the loaded count plus one; the unique index refuses a number
\* that is taken, and recordAttempt only logs the error.
Attempt(w) == wk[w].row + 1
Refused(w) == log[Dv(w)].refused \/ Attempt(w) \in del[Dv(w)].recorded
RecordAttempt(w, n) ==
    \/ /\ Update(Dv(w), [del[Dv(w)] EXCEPT !.recorded = @ \cup {Attempt(w)}])
       /\ log' = [log EXCEPT ![Dv(w)].refused = Refused(w), ![Dv(w)].sends = @ + n]
       /\ UNCHANGED used
    \/ /\ log' = [log EXCEPT ![Dv(w)].sends = @ + n]
       /\ Spend /\ UNCHANGED del

\* Expunged payload, filter or transform error, invalid URL, malformed secret:
\* recorded, marked dead, buried; the budget is not looked at.
Reject(w) ==
    /\ At(w, "gate")
    /\ RecordAttempt(w, 0)
    /\ Goto(w, "reject")
    /\ UNCHANGED <<leaseVars, ep, buried>>

MarkRejectedDead(w) ==
    /\ At(w, "reject")
    /\ SetStatusUnchecked(Dv(w), "dead")
    /\ Goto(w, "bury")
    /\ UNCHANGED <<leaseVars, ep, buried>>

MarkDeliveryFiltered(w) ==
    /\ At(w, "gate")
    /\ SetStatusUnchecked(Dv(w), "filtered")
    /\ Goto(w, "ack")
    /\ UNCHANGED <<leaseVars, ep, buried>>

\* Mutant of MarkDeliveryInFlight: attempt_count is left alone.
MarkInFlightUncounted(w) ==
    /\ At(w, "gate")
    /\ SetStatus(Dv(w), "in_flight")
    /\ wk' = [wk EXCEPT ![w].pc = "send"]
    /\ UNCHANGED <<leaseVars, ep, buried, log, used>>

MarkDeliveryInFlight(w) ==
    /\ At(w, "gate")
    /\ Update(Dv(w), [WithStatus(Dv(w), "in_flight") EXCEPT !.count = @ + 1])
    /\ wk' = [wk EXCEPT ![w].pc = "send"]
    /\ UNCHANGED <<leaseVars, ep, buried, log, used>>

\* failAttempt's look at the schedule.
AfterFailure(w) == IF Attempt(w) > MaxRetries THEN "dead" ELSE "retry"

\* The request and recordAttempt.  A request that cannot be built, which takes a
\* URL that passed validation, has used up a number and leaves no attempt.
Send(w) ==
    /\ At(w, "send")
    /\ \/ RecordAttempt(w, 1) /\ (Goto(w, "deliver") \/ Goto(w, AfterFailure(w)))
       \/ Spend /\ Goto(w, AfterFailure(w)) /\ UNCHANGED <<del, log>>
    /\ UNCHANGED <<leaseVars, ep, buried>>

MarkDeliveryDelivered(w) ==
    /\ At(w, "deliver")
    /\ SetStatus(Dv(w), "delivered")
    /\ Goto(w, IF Threshold > 0 THEN "reset" ELSE "ack")
    /\ UNCHANGED <<leaseVars, ep, buried, log, used>>

\* The error is discarded.
ResetEndpointFailures(w) ==
    /\ At(w, "reset")
    /\ \/ ep' = [ep EXCEPT ![EndpointOf(Dv(w))].fails = 0] /\ UNCHANGED used
       \/ Spend /\ UNCHANGED ep
    /\ Goto(w, "ack")
    /\ UNCHANGED <<leaseVars, del, buried, log>>

MarkDeliveryForRetry(w) ==
    /\ At(w, "retry")
    /\ Update(Dv(w), [WithStatus(Dv(w), "queued") EXCEPT !.retryAt = TRUE])
    /\ Goto(w, "schedule")
    /\ UNCHANGED <<leaseVars, ep, buried, log, used>>

\* Mutant of ScheduleRetry: Schedule is left out.
ScheduleOmitted(w) ==
    /\ At(w, "schedule")
    /\ Goto(w, "ack")
    /\ UNCHANGED <<leaseVars, del, ep, buried, log, used>>

\* The payload is scheduled as it is: the attempt number lives in the row.
ScheduleRetry(w) ==
    /\ At(w, "schedule")
    /\ Put(Dv(w))
    /\ Goto(w, "ack")
    /\ UNCHANGED <<del, ep, buried, log, used>>

AckStep(w) ==
    /\ At(w, "ack")
    /\ Remove(wk[w].lease)
    /\ Free(w)
    /\ UNCHANGED <<del, ep, buried, log, used>>

-----------------------------------------------------------------------------
(* The end of failAttempt: budget spent. *)

MarkDeliveryDead(w) ==
    /\ At(w, "dead")
    /\ SetStatus(Dv(w), "dead")
    /\ Goto(w, "exhausted")
    /\ UNCHANGED <<leaseVars, ep, buried, log, used>>

\* opevents.Publish: a row for the operational endpoint if it takes the event,
\* enqueued; the reaper finds the row when the Enqueue fails.  Nothing is
\* published for an operational delivery.  All errors are discarded.
Publish(w) ==
    \/ /\ Dv(w) \notin Op
       /\ ep["op"].exists /\ ~ep["op"].disabled
       /\ \E o \in Op :
             /\ del[o].status = "absent"
             /\ del' = [del EXCEPT ![o].status = "queued"]
             /\ \/ Put(o) /\ UNCHANGED used
                \/ Spend /\ UNCHANGED leaseVars
    \/ UNCHANGED <<leaseVars, del, used>>

PublishExhausted(w) ==
    /\ At(w, "exhausted")
    /\ Publish(w)
    /\ Goto(w, IF Threshold > 0 THEN "snapshot" ELSE "bury")
    /\ UNCHANGED <<ep, buried, log>>

\* IncrEndpointFailures is one statement, but its WITH prev reads the snapshot
\* taken when it starts, while the UPDATE waits for the row's lock and sees the
\* newest version.
IncrSnapshot(w) ==
    LET e == ep[EndpointOf(Dv(w))]
    IN  /\ At(w, "snapshot")
        /\ \/ /\ IF e.exists
                 THEN wk' = [wk EXCEPT ![w].pc = "increment", ![w].was = e.disabled]
                 ELSE Goto(w, "bury")
              /\ UNCHANGED used
           \/ Spend /\ Goto(w, "bury")          \* the statement fails
        /\ UNCHANGED <<leaseVars, del, ep, buried, log>>

\* Mutant of JustDisabled: the comparison is with the updated row.
JustDisabledAfter(w, e) == ~e.disabled /\ e.disabled

\* NOT prev.was_disabled AND e.disabled, e being the updated row.
JustDisabled(w, e) == ~wk[w].was /\ e.disabled

IncrUpdate(w) ==
    LET old == ep[EndpointOf(Dv(w))]
        new == [old EXCEPT !.fails = @ + 1,
                           !.disabled = @ \/ old.fails + 1 >= Threshold,
                           !.flips = IF ~old.disabled /\ old.fails + 1 >= Threshold
                                     THEN @ + 1 ELSE @]
        told == JustDisabled(w, new)
    IN  /\ At(w, "increment")
        /\ IF old.exists
           THEN /\ ep' = [ep EXCEPT ![EndpointOf(Dv(w))] =
                             [new EXCEPT !.notices = IF told THEN @ + 1 ELSE @]]
                /\ Goto(w, IF told THEN "notify" ELSE "bury")
           ELSE Goto(w, "bury") /\ UNCHANGED ep
        /\ UNCHANGED <<leaseVars, del, buried, log, used>>

PublishDisabled(w) ==
    /\ At(w, "notify")
    /\ Publish(w)
    /\ Goto(w, "bury")
    /\ UNCHANGED <<ep, buried, log>>

Bury(w) ==
    /\ At(w, "bury")
    /\ Remove(wk[w].lease)
    /\ buried' = buried \cup {Dv(w)}
    /\ Free(w)
    /\ UNCHANGED <<del, ep, log, used>>

-----------------------------------------------------------------------------
(* Faults. *)

\* A panic in the handler: DeadLetter, then MarkDeliveryDead, errors discarded.
Panic(w) ==
    /\ wk[w].pc \in {"gate", "send"}
    /\ Spend
    /\ Goto(w, "panic")
    /\ UNCHANGED <<leaseVars, del, ep, buried, log>>

PanicBury(w) ==
    /\ At(w, "panic")
    /\ \/ Remove(wk[w].lease) /\ buried' = buried \cup {Dv(w)} /\ UNCHANGED used
       \/ Spend /\ UNCHANGED <<leaseVars, buried>>
    /\ Goto(w, "panicDead")
    /\ UNCHANGED <<del, ep, log>>

PanicDead(w) ==
    /\ At(w, "panicDead")
    /\ SetStatusUnchecked(Dv(w), "dead")
    /\ Free(w)
    /\ UNCHANGED <<leaseVars, ep, buried>>

\* A crash, or an error that Process returns: the lease stays.
Abandon(w) ==
    /\ ~At(w, "pick")
    /\ Spend
    /\ Free(w)
    /\ log' = IF wk[w].pc \in {"ack", "reject"} THEN [log EXCEPT ![Dv(w)].doubled = TRUE] ELSE log
    /\ UNCHANGED <<leaseVars, del, ep, buried>>

Held(m) == \E w \in Workers : wk[w].lease = m

OrphanExpires ==
    /\ \E m \in leased : ~Held(m) /\ Lapse(m)
    /\ UNCHANGED <<del, ep, buried, wk, log, used>>

\* The holder is slower than its lease.
LeaseOverrun ==
    /\ \E m \in leased : /\ Held(m) /\ Lapse(m)
                         /\ log' = [log EXCEPT ![m.evt].overrun = TRUE, ![m.evt].doubled = TRUE]
    /\ Spend
    /\ UNCHANGED <<del, ep, buried, wk>>

Recoverer == Reclaim /\ UNCHANGED <<del, ep, buried, wk, log, used>>

-----------------------------------------------------------------------------
(* The API, the console, the reaper. *)

\* CreateMessage's fan-out to an enabled endpoint, and TestEndpoint to any.
CreateDelivery(d) ==
    /\ d \notin Op /\ del[d].status = "absent" /\ ep["app"].exists
    /\ del' = [del EXCEPT ![d].status = "queued"]
    /\ \/ Put(d) /\ UNCHANGED used
       \/ Spend /\ UNCHANGED leaseVars
    /\ UNCHANGED <<ep, buried, wk, log>>

\* ReplayDelivery, and RecoverEndpoint for one dead delivery: ResetDeliveryForReplay
\* does not look at the status, then Enqueue.
Replay(d) ==
    /\ Exists(d)
    /\ Update(d, [WithStatus(d, "queued") EXCEPT !.count = 0, !.retryAt = FALSE])
    /\ Spend /\ (Put(d) \/ UNCHANGED leaseVars)
    /\ log' = [log EXCEPT ![d].replays = @ + 1]
    /\ UNCHANGED <<ep, buried, wk>>

\* The console's requeue: the payload names no event, so MarkEventQueued finds no
\* row, and the delivery's own row is left as it is.
RequeueDead(d) ==
    /\ d \in buried
    /\ buried' = buried \ {d}
    /\ Put(d) /\ Spend
    /\ log' = [log EXCEPT ![d].doubled = TRUE]
    /\ UNCHANGED <<del, ep, wk>>

\* Handlers.PatchEndpoint with disabled in the body: false clears the failure
\* counter, whether or not the endpoint was disabled.
EndpointPatched(e) ==
    /\ ep[e].exists /\ Spend
    /\ \/ ep' = [ep EXCEPT ![e].disabled = TRUE]
       \/ ep' = [ep EXCEPT ![e].disabled = FALSE, ![e].fails = 0,
                           ![e].revived = IF ep[e].disabled THEN @ + 1 ELSE @]
    /\ UNCHANGED <<leaseVars, del, buried, wk, log>>

\* Deliveries and attempts cascade.
EndpointDeleted(e) ==
    /\ ep[e].exists /\ Spend
    /\ ep' = [ep EXCEPT ![e].exists = FALSE]
    /\ del' = [d \in Items |-> IF EndpointOf(d) = e /\ Exists(d)
                               THEN [del[d] EXCEPT !.status = "deleted", !.recorded = {}]
                               ELSE del[d]]
    /\ UNCHANGED <<leaseVars, buried, wk, log>>

Queued(d) == waiting[d] > 0 \/ \E m \in leased : m.evt = d

Ages(d) ==
    /\ del[d].status = "queued" /\ ~del[d].retryAt /\ ~del[d].stale
    /\ del' = [del EXCEPT ![d].stale = TRUE]
    /\ UNCHANGED <<leaseVars, ep, buried, wk, log, used>>

\* Mutant of ClaimStuck: rows with next_retry_at only.
ClaimRetrying(d) ==
    /\ del[d].status = "queued" /\ del[d].retryAt /\ del[d].stale
    /\ del' = [del EXCEPT ![d].stale = FALSE]
    /\ Put(d) /\ Spend
    /\ UNCHANGED <<ep, buried, wk, log>>

\* ClaimStuckMessageDeliveries and the Enqueue after it.  Claims of a row that has
\* a copy, and claims that come to nothing, count against the bound.
ClaimStuck(d) ==
    /\ del[d].status = "queued" /\ ~del[d].retryAt /\ del[d].stale
    /\ del' = [del EXCEPT ![d].stale = FALSE]
    /\ \/ /\ ~Queued(d) /\ Put(d) /\ UNCHANGED <<log, used>>
       \/ /\ Queued(d) /\ Put(d) /\ Spend
          /\ log' = [log EXCEPT ![d].doubled = TRUE]
       \/ Spend /\ UNCHANGED <<leaseVars, log>>
    /\ UNCHANGED <<ep, buried, wk>>

Process(w) ==
    \/ Pick(w) \/ Load(w) \/ MarkDeliveryDisabled(w) \/ Defer(w) \/ Reject(w)
    \/ MarkRejectedDead(w) \/ MarkDeliveryFiltered(w) \/ MarkDeliveryInFlight(w) \/ Send(w)
    \/ MarkDeliveryDelivered(w) \/ ResetEndpointFailures(w) \/ MarkDeliveryForRetry(w)
    \/ ScheduleRetry(w) \/ AckStep(w) \/ MarkDeliveryDead(w) \/ PublishExhausted(w)
    \/ IncrSnapshot(w) \/ IncrUpdate(w) \/ PublishDisabled(w) \/ Bury(w)
    \/ PanicBury(w) \/ PanicDead(w)

Next ==
    \/ \E w \in Workers : Process(w) \/ Panic(w) \/ Abandon(w)
    \/ OrphanExpires \/ LeaseOverrun \/ Recoverer
    \/ \E d \in Items : CreateDelivery(d) \/ Replay(d) \/ RequeueDead(d) \/ Ages(d) \/ ClaimStuck(d)
    \/ \E e \in Endpoints : EndpointPatched(e) \/ EndpointDeleted(e)

Spec == Init /\ [][Next]_vars

-----------------------------------------------------------------------------
(* Safety. *)

\* A copy that no worker is about to remove.
Secure(d) ==
    \/ waiting[d] > 0
    \/ \E m \in leased :
          /\ m.evt = d
          /\ \A w \in Workers : wk[w].lease = m => wk[w].pc \notin {"ack", "bury"}

\* A worker that will still write the row or leave its lease behind.
Engaged(d) ==
    \E w \in Workers : /\ wk[w].pc \in Labels \ {"pick", "load", "ack"}
                       /\ Dv(w) = d

\* A row that is not over has a way to go on: a copy in the queue, a worker at
\* it, an entry on the dead list, or the reaper's attention (which needs
\* next_retry_at to be null).  The exceptions: a status write whose error is
\* discarded, and a lease overrun together with a second disturbance.
NothingStranded ==
    \A d \in Items : del[d].status \in {"queued", "in_flight"} =>
        \/ Secure(d) \/ Engaged(d) \/ d \in buried
        \/ del[d].status = "queued" /\ ~del[d].retryAt
        \/ log[d].slipped \/ (log[d].overrun /\ used > 1)

\* Duplicates share the budget, because it is kept in the row: beyond the
\* 1 + MaxRetries requests of each life of the row, every disturbance is good for
\* one more request in each life and one more in all, not for a full budget.
BudgetShared ==
    \A d \in Items :
        log[d].sends <= (1 + MaxRetries + used) * (1 + log[d].replays) + used

\* README.md says the dashboard shows every attempt.  Until a replay starts the
\* numbers over or two copies of the delivery can meet, it does: every attempt has a
\* number of its own, whatever crash or failed call it was interrupted by, because
\* the count moves before the request.
AttemptsKept ==
    \A d \in Items : log[d].refused =>
        log[d].replays > 0 \/ log[d].doubled \/ log[d].slipped

\* attempt_count serves as the budget and as the number of the next attempt, and
\* is right as both (MarkDeliveryInFlight, recordAttempt, failAttempt).
AttemptsAccounted == TypeOK /\ BudgetShared /\ AttemptsKept

\* The engine never disables a customer's endpoint without a worker learning of
\* it, whose job it is to publish endpoint.disabled, although IncrEndpointFailures
\* compares with a snapshot and two workers may run it at once.  Only a PATCH that
\* enables the endpoint between the two halves of the statement can hide one.
DisableNoticed == ep["app"].flips <= ep["app"].notices + ep["app"].revived

-----------------------------------------------------------------------------
(* Liveness.  Workers, mover, recoverer and reaper run in loops with bounded *)
(* waits and time passes; the gates do not turn a delivery away for ever     *)
(* (InflightGate!KeepsAdmitting; a rate limit refills every second).         *)
(* What each loop does for a delivery is finite: fairness of groups is enough. *)

PassGate(w) == MarkDeliveryInFlight(w) \/ Reject(w) \/ MarkDeliveryFiltered(w)

FairSpec ==
    /\ Spec
    /\ \A w \in Workers : WF_vars(Process(w))
    /\ SF_vars(\E w \in Workers : PassGate(w))
    /\ WF_vars(OrphanExpires \/ Recoverer)
    /\ WF_vars(\E d \in Items : Ages(d) \/ ClaimStuck(d))

\* A delivery that was accepted, replayed or recovered comes to an end, and the
\* row says which, unless a status write fails unnoticed.
EventuallyOver ==
    \A d \in Items : del[d].status = "queued" ~> ~Exists(d) \/ del[d].status \in Over \/ log[d].slipped

=============================================================================
