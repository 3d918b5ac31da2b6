------------------------------- MODULE Deliver -------------------------------
(***************************************************************************)
(* The inbound delivery handler (internal/deliver/handler.go, Process) as  *)
(* the workers run it, step by step, against the two stores it has to keep *)
(* in agreement: the Redis queue (DQueue) and the events and attempts      *)
(* tables of Postgres.  Around it: ingest and TestConnection, which create *)
(* a row and then enqueue it; the reaper, which claims a row and then      *)
(* enqueues it; the manual retry, which resets a row and then enqueues it; *)
(* the admin console, which requeues a dead entry and then resets the row. *)
(*                                                                         *)
(* One step is one call to Redis, Postgres or the destination.  Only HTTP  *)
(* destinations are modelled here; the CLI hand-over has a module of its   *)
(* own.  What the connection's configuration decides (URL valid, gates     *)
(* open, filter, transform, body present) can change between two picks and *)
(* is chosen anew each time.                                               *)
(***************************************************************************)
EXTENDS DQueue

CONSTANTS
    Workers,
    NoMember,
    MaxRetries,     \* connections.max_retries
    MaxManual,      \* bounds per event: manual retries, admin requeues and deletions begin
    MaxReaps,       \* only below the first, reaper claims only below the second
    MaxFaults,      \* bound: crashes, errors of Redis or the database, leases
                    \* that run out in a live worker's hands
    MaxLostWrites   \* how many of those may be status writes whose error is ignored

ASSUME DeliverNoMember == NoMember \notin Members
ASSUME RetriesAssumption == MaxRetries \in 0..MaxAttempt
ASSUME DeliverBounds == {MaxManual, MaxReaps, MaxFaults, MaxLostWrites} \subseteq Nat

VARIABLES
    \* the events and attempts tables
    status,     \* [Events -> Statuses]
    count,      \* events.attempt_count
    recorded,   \* attempt_num values in attempts: UNIQUE(event_id, attempt_num)
    stale,      \* updated_at is older than reapQueuedStuckAfter
    \* the workers
    pc,
    hold,       \* the raw member in hand
    row,        \* attempt_count as read by GetEventForDelivery
    out,        \* outcome of the attempt in hand
    \* calls of the API, the reaper and the admin console that are half done
    calls,
    \* history
    sends,      \* HTTP requests made per event
    grants,     \* copies put into the queue from outside
    requeued,   \* events the admin console put back while no worker was to write the
                \* row, and no worker took up yet
    dropped,    \* events with an attempt refused by that unique index
    excused,    \* overrun: events with a worker that outlived its lease.  trimmed:
                \* events with an entry that a full dead list gave up
    used        \* how much of each bound is used up

tables == <<status, count, recorded, stale>>
workers == <<pc, hold, row, out>>
history == <<sends, grants, requeued, dropped, excused>>
vars == <<queueVars, tables, workers, calls, history, used>>

Terminal == {"delivered", "failed", "filtered"}
Statuses == Terminal \cup {"absent", "deleted", "queued", "in_flight"}

Labels == {"pick", "load", "gate", "run", "record", "deliver", "fail", "bury",
           "retry", "ack", "panic", "panicFail"}

Outcomes == {"none", "ok", "fail", "reject"}

\* A half-done call: what is still to be done for which event.
Calls == [do: {"ingest", "manual", "reap", "markQueued"}, ev: Events, attempt: 0..MaxAttempt]

TypeOK ==
    /\ QueueTypeOK
    /\ status \in [Events -> Statuses]
    /\ count \in [Events -> Nat]
    /\ recorded \in [Events -> SUBSET (Nat \ {0})]
    /\ stale \in [Events -> BOOLEAN]
    /\ pc \in [Workers -> Labels]
    /\ hold \in [Workers -> Members \cup {NoMember}]
    /\ \A w \in Workers : hold[w] = NoMember <=> pc[w] = "pick"
    /\ row \in [Workers -> Nat]
    /\ out \in [Workers -> Outcomes]
    /\ calls \subseteq Calls
    /\ sends \in [Events -> Nat]
    /\ grants \in [Events -> Nat]
    /\ requeued \subseteq Events
    /\ dropped \subseteq Events
    /\ excused \in [overrun: SUBSET Events, trimmed: SUBSET Events]
    /\ used \in [faults: 0..MaxFaults, lost: 0..MaxLostWrites,
                 extra: [Events -> 0..(MaxManual + MaxReaps)]]

Init ==
    /\ QueueInit
    /\ status = [e \in Events |-> "absent"]
    /\ count = [e \in Events |-> 0]
    /\ recorded = [e \in Events |-> {}]
    /\ stale = [e \in Events |-> FALSE]
    /\ pc = [w \in Workers |-> "pick"]
    /\ hold = [w \in Workers |-> NoMember]
    /\ row = [w \in Workers |-> 0]
    /\ out = [w \in Workers |-> "none"]
    /\ calls = {}
    /\ sends = [e \in Events |-> 0]
    /\ grants = [e \in Events |-> 0]
    /\ requeued = {}
    /\ dropped = {}
    /\ excused = [overrun |-> {}, trimmed |-> {}]
    /\ used = [faults |-> 0, lost |-> 0,
               extra |-> [e \in Events |-> 0]]

-----------------------------------------------------------------------------
Fault == used.faults < MaxFaults /\ used' = [used EXCEPT !.faults = @ + 1]
LostWrite ==
    /\ used.faults < MaxFaults /\ used.lost < MaxLostWrites
    /\ used' = [used EXCEPT !.faults = @ + 1, !.lost = @ + 1]

Ev(w) == hold[w].evt.ev
Goto(w, label) == pc' = [pc EXCEPT ![w] = label]

Free(w) ==
    /\ Goto(w, "pick")
    /\ hold' = [hold EXCEPT ![w] = NoMember]
    /\ row' = [row EXCEPT ![w] = 0]
    /\ out' = [out EXCEPT ![w] = "none"]

\* UPDATE events SET status, updated_at = now() WHERE id: no row, no error.
SetStatus(e, s) ==
    /\ status' = [status EXCEPT ![e] = IF @ = "deleted" THEN @ ELSE s]
    /\ stale' = [stale EXCEPT ![e] = FALSE]

\* A uuid is never drawn twice.
Fresh == {t \in Tokens : /\ \A m \in processing : m.tok # t
                         /\ \A w \in Workers : hold[w] # NoMember => hold[w].tok # t}

\* Mutant of Over: a row some worker once took up counts as finished.
OverInFlight(e) == status[e] \in Terminal \cup {"deleted", "in_flight"}

\* isTerminalStatus, or ErrNoRows from the load: nothing is left to deliver.
Over(e) == status[e] \in Terminal \cup {"deleted"}

-----------------------------------------------------------------------------
(* Process. *)

Pick(w) ==
    /\ pc[w] = "pick"
    /\ \E tok \in Fresh :
          /\ FairPick(tok)
          /\ hold' = [hold EXCEPT ![w] = [tok |-> tok, evt |-> Head(pending[Head(ring)])]]
    /\ Goto(w, "load")
    /\ UNCHANGED <<tables, row, out, calls, history, used>>

Load(w) ==
    /\ pc[w] = "load"
    /\ IF Over(Ev(w))
       THEN Goto(w, "ack") /\ UNCHANGED row
       ELSE Goto(w, "gate") /\ row' = [row EXCEPT ![w] = count[Ev(w)]]
    /\ UNCHANGED <<queueVars, tables, hold, out, calls, history, used>>

\* Not http, no URL, or ValidateDestinationURL fails.
Undeliverable(w) ==
    /\ pc[w] = "gate"
    /\ out' = [out EXCEPT ![w] = "reject"]
    /\ requeued' = requeued \ {Ev(w)}
    /\ Goto(w, "record")
    /\ UNCHANGED <<queueVars, tables, hold, row, calls, sends, grants, dropped, excused, used>>

\* An in-flight cap or the rate limit is reached: defer_.
Defer(w) ==
    /\ pc[w] = "gate"
    /\ \E at \in Stamps : Schedule([hold[w].evt EXCEPT !.at = at])
    /\ Goto(w, "ack")
    /\ UNCHANGED <<tables, hold, row, out, calls, history, used>>

MarkEventInFlight(w) ==
    /\ pc[w] = "gate"
    /\ SetStatus(Ev(w), "in_flight")
    /\ count' = [count EXCEPT ![Ev(w)] = IF status[Ev(w)] = "deleted" THEN @ ELSE @ + 1]
    /\ requeued' = requeued \ {Ev(w)}
    /\ Goto(w, "run")
    /\ UNCHANGED <<queueVars, recorded, hold, row, out, calls, sends, grants, dropped, excused, used>>

\* The body is missing or the request cannot be built (retryable), or the
\* filter or the transform fails (not retryable).
Prepare(w) ==
    /\ pc[w] = "run"
    /\ \E o \in {"fail", "reject"} : out' = [out EXCEPT ![w] = o]
    /\ Goto(w, "record")
    /\ UNCHANGED <<queueVars, tables, hold, row, calls, history, used>>

MarkEventFiltered(w) ==
    /\ pc[w] = "run"
    /\ SetStatus(Ev(w), "filtered")
    /\ Goto(w, "ack")
    /\ UNCHANGED <<queueVars, count, recorded, hold, row, out, calls, history, used>>

Send(w) ==
    /\ pc[w] = "run"
    /\ \E o \in {"ok", "fail"} : out' = [out EXCEPT ![w] = o]
    /\ sends' = [sends EXCEPT ![Ev(w)] = @ + 1]
    /\ Goto(w, "record")
    /\ UNCHANGED <<queueVars, tables, hold, row, calls, grants, requeued, dropped, excused, used>>

\* Where an outcome leads: failAttempt compares the next retry number with the
\* budget.
AfterRecord(w) ==
    CASE out[w] = "ok" -> "deliver"
      [] out[w] = "reject" -> "fail"
      [] OTHER -> IF hold[w].evt.attempt + 1 > MaxRetries THEN "fail" ELSE "retry"

\* recordAttempt numbers the attempt from the count read before MarkEventInFlight;
\* a number already taken is refused, and the error is only logged.
RecordAttempt(w) ==
    LET e == Ev(w)
        n == row[w] + 1
    IN  /\ pc[w] = "record"
        /\ recorded' = [recorded EXCEPT ![e] = IF status[e] = "deleted" THEN @ ELSE @ \cup {n}]
        /\ dropped' = IF n \in recorded[e] THEN dropped \cup {e} ELSE dropped
        /\ Goto(w, AfterRecord(w))
        /\ UNCHANGED <<queueVars, status, count, stale, hold, row, out, calls,
                       sends, grants, requeued, excused, used>>

RecordAttemptFails(w) ==
    /\ pc[w] = "record"
    /\ Fault
    /\ Goto(w, AfterRecord(w))
    /\ UNCHANGED <<queueVars, tables, hold, row, out, calls, history>>

\* The error of the status write is ignored: the next step follows anyway.
MarkEventDelivered(w) ==
    /\ pc[w] = "deliver"
    /\ \/ SetStatus(Ev(w), "delivered") /\ UNCHANGED used
       \/ LostWrite /\ UNCHANGED <<status, stale>>
    /\ Goto(w, "ack")
    /\ UNCHANGED <<queueVars, count, recorded, hold, row, out, calls, history>>

MarkEventFailed(w) ==
    /\ pc[w] = "fail"
    /\ \/ SetStatus(Ev(w), "failed") /\ UNCHANGED used
       \/ LostWrite /\ UNCHANGED <<status, stale>>
    /\ Goto(w, "bury")
    /\ UNCHANGED <<queueVars, count, recorded, hold, row, out, calls, history>>

\* DeadLetter's LTRIM drops the oldest entry of a full list.
Trim ==
    /\ excused' = IF Len(dead) < DeadCap THEN excused
                  ELSE [excused EXCEPT !.trimmed = @ \cup {Head(dead).ev}]
    /\ UNCHANGED <<sends, grants, requeued, dropped>>

Bury(w) ==
    /\ pc[w] = "bury"
    /\ DeadLetter(hold[w]) /\ Trim
    /\ Free(w)
    /\ UNCHANGED <<tables, calls, used>>

\* Mutant of Retry: p.Attempt is not carried over.
RetrySameAttempt(w) ==
    /\ pc[w] = "retry"
    /\ Schedule(hold[w].evt)
    /\ Goto(w, "ack")
    /\ UNCHANGED <<tables, hold, row, out, calls, history, used>>

\* The tail of failAttempt with budget left: schedule first, then Ack.
Retry(w) ==
    /\ pc[w] = "retry"
    /\ Schedule([hold[w].evt EXCEPT !.attempt = @ + 1])
    /\ Goto(w, "ack")
    /\ UNCHANGED <<tables, hold, row, out, calls, history, used>>

AckStep(w) ==
    /\ pc[w] = "ack"
    /\ Ack(hold[w])
    /\ Free(w)
    /\ UNCHANGED <<tables, calls, history, used>>

\* A panic in the handler: the consumer's recover dead-letters the member, then
\* fails the row; both errors are ignored.
Panic(w) ==
    /\ pc[w] = "run"
    /\ Fault
    /\ Goto(w, "panic")
    /\ UNCHANGED <<queueVars, tables, hold, row, out, calls, history>>

PanicBury(w) ==
    /\ pc[w] = "panic"
    /\ \/ DeadLetter(hold[w]) /\ Trim /\ UNCHANGED used
       \/ Fault /\ UNCHANGED <<queueVars, history>>
    /\ Goto(w, "panicFail")
    /\ UNCHANGED <<tables, hold, row, out, calls>>

PanicFail(w) ==
    /\ pc[w] = "panicFail"
    /\ \/ SetStatus(Ev(w), "failed") /\ UNCHANGED used
       \/ LostWrite /\ UNCHANGED <<status, stale>>
    /\ Free(w)
    /\ UNCHANGED <<queueVars, count, recorded, calls, history>>

\* A crash, an error return, or a settling call that failed: the lease stays.
Abandon(w) ==
    /\ pc[w] # "pick"
    /\ Fault
    /\ Free(w)
    /\ UNCHANGED <<queueVars, tables, calls, history>>

-----------------------------------------------------------------------------
(* Ingest, manual retry, reaper, admin console: two calls each. *)

Begin(c) == c \notin calls /\ calls' = calls \cup {c}

CreateEvent(e) ==
    /\ status[e] = "absent"
    /\ status' = [status EXCEPT ![e] = "queued"]
    /\ Begin([do |-> "ingest", ev |-> e, attempt |-> 0])
    /\ UNCHANGED <<queueVars, count, recorded, stale, workers, history, used>>

\* RetryEvent does not look at the status.  attempt_count is kept.
RetryEvent(e) ==
    /\ status[e] \notin {"absent", "deleted"}
    /\ used.extra[e] < MaxManual
    /\ used' = [used EXCEPT !.extra[e] = @ + 1]
    /\ SetStatus(e, "queued")
    /\ Begin([do |-> "manual", ev |-> e, attempt |-> 0])
    /\ UNCHANGED <<queueVars, count, recorded, workers, history>>

\* Mutant of ClaimStuck: the claimed rows are not enqueued.
ClaimForgets(e) ==
    /\ status[e] = "queued" /\ stale[e]
    /\ used.extra[e] < MaxReaps
    /\ used' = [used EXCEPT !.extra[e] = @ + 1]
    /\ SetStatus(e, "queued")
    /\ UNCHANGED <<queueVars, count, recorded, workers, calls, history>>

\* ClaimStuckEvents touches updated_at; the claim is committed before the
\* enqueue.  A retry number above the budget acts like the budget itself.
ClaimStuck(e) ==
    /\ status[e] = "queued" /\ stale[e]
    /\ used.extra[e] < MaxReaps
    /\ used' = [used EXCEPT !.extra[e] = @ + 1]
    /\ SetStatus(e, "queued")
    /\ Begin([do |-> "reap", ev |-> e,
              attempt |-> IF count[e] > MaxAttempt THEN MaxAttempt ELSE count[e]])
    /\ UNCHANGED <<queueVars, count, recorded, workers, history>>

\* A worker at e has yet to write the row.
Writing(e) ==
    \E w \in Workers :
        pc[w] \in {"run", "record", "deliver", "fail", "panic", "panicFail"} /\ Ev(w) = e

\* Mutant of AdminRequeueDead: the row is left as it is.
AdminRequeueForgets ==
    \E i \in DOMAIN dead, at \in Stamps :
        LET e == dead[i].ev
        IN  /\ used.extra[e] < MaxManual
            /\ used' = [used EXCEPT !.extra[e] = @ + 1]
            /\ RequeueDead(i, at)
            /\ grants' = [grants EXCEPT ![e] = @ + 1]
            /\ requeued' = IF Writing(e) THEN requeued ELSE requeued \cup {e}
            /\ UNCHANGED <<tables, workers, calls, sends, dropped, excused>>

AdminRequeueDead ==
    \E i \in DOMAIN dead, at \in Stamps :
        LET e == dead[i].ev
        IN  /\ used.extra[e] < MaxManual
            /\ used' = [used EXCEPT !.extra[e] = @ + 1]
            /\ RequeueDead(i, at)
            /\ grants' = [grants EXCEPT ![e] = @ + 1]
            /\ requeued' = IF Writing(e) THEN requeued ELSE requeued \cup {e}
            /\ Begin([do |-> "markQueued", ev |-> e, attempt |-> 0])
            /\ UNCHANGED <<tables, workers, sends, dropped, excused>>

CallEnqueue(c) ==
    /\ c \in calls /\ c.do # "markQueued"
    /\ \E at \in Stamps : Enqueue([ev |-> c.ev, at |-> at, attempt |-> c.attempt])
    /\ grants' = [grants EXCEPT ![c.ev] = @ + 1]
    /\ calls' = calls \ {c}
    /\ UNCHANGED <<tables, workers, sends, requeued, dropped, excused, used>>

CallMarkQueued(c) ==
    /\ c \in calls /\ c.do = "markQueued"
    /\ \/ SetStatus(c.ev, "queued") /\ UNCHANGED used
       \/ LostWrite /\ UNCHANGED <<status, stale>>
    /\ calls' = calls \ {c}
    /\ UNCHANGED <<queueVars, count, recorded, workers, history>>

\* The Enqueue fails, or its caller stops before it.
CallFails(c) ==
    /\ c \in calls /\ c.do # "markQueued"
    /\ Fault
    /\ calls' = calls \ {c}
    /\ UNCHANGED <<queueVars, tables, workers, history>>

\* The org or the connection is deleted; events and attempts cascade.
DeleteEvent(e) ==
    /\ status[e] \notin {"absent", "deleted"}
    /\ used.extra[e] < MaxManual
    /\ used' = [used EXCEPT !.extra[e] = @ + 1]
    /\ status' = [status EXCEPT ![e] = "deleted"]
    /\ recorded' = [recorded EXCEPT ![e] = {}]
    /\ UNCHANGED <<queueVars, count, stale, workers, calls, history>>

-----------------------------------------------------------------------------
(* Tickers and time. *)

rest == <<tables, workers, calls, history>>

Mover == PromoteDue /\ UNCHANGED <<rest, used>>
Recoverer == Recover /\ UNCHANGED <<rest, used>>
TimeReaches(p) == BecomeDue(p) /\ UNCHANGED <<rest, used>>

Ages(e) ==
    /\ status[e] = "queued" /\ ~stale[e]
    /\ stale' = [stale EXCEPT ![e] = TRUE]
    /\ UNCHANGED <<queueVars, status, count, recorded, workers, calls, history, used>>

Held(m) == \E w \in Workers : hold[w] = m

OrphanExpires(t) ==
    /\ \E m \in processing : m.tok = t /\ ~Held(m) /\ LeaseExpires(m)
    /\ UNCHANGED <<rest, used>>

LeaseOverrun ==
    /\ \E m \in processing :
          /\ Held(m) /\ LeaseExpires(m)
          /\ excused' = [excused EXCEPT !.overrun = @ \cup {m.evt.ev}]
    /\ Fault
    /\ UNCHANGED <<tables, workers, calls, sends, grants, requeued, dropped>>

Process(w) ==
    \/ Pick(w) \/ Load(w) \/ Undeliverable(w) \/ Defer(w) \/ MarkEventInFlight(w)
    \/ Prepare(w) \/ MarkEventFiltered(w) \/ Send(w) \/ RecordAttempt(w)
    \/ MarkEventDelivered(w) \/ MarkEventFailed(w) \/ Bury(w) \/ Retry(w) \/ AckStep(w)
    \/ PanicBury(w) \/ PanicFail(w)

Next ==
    \/ \E w \in Workers : Process(w) \/ RecordAttemptFails(w) \/ Panic(w) \/ Abandon(w)
    \/ \E e \in Events : \/ CreateEvent(e) \/ RetryEvent(e) \/ ClaimStuck(e)
                         \/ DeleteEvent(e) \/ Ages(e)
    \/ AdminRequeueDead
    \/ \E c \in calls : CallEnqueue(c) \/ CallMarkQueued(c) \/ CallFails(c)
    \/ Mover \/ Recoverer \/ LeaseOverrun
    \/ \E p \in Payloads : TimeReaches(p)
    \/ \E t \in Tokens : OrphanExpires(t)

Spec == Init /\ [][Next]_vars

-----------------------------------------------------------------------------
(* Safety. *)

\* A copy of e that no worker is about to remove.
Secure(e) ==
    \/ Waiting(e)
    \/ \E m \in processing :
          /\ m.evt.ev = e
          /\ \A w \in Workers : hold[w] = m => pc[w] \notin {"ack", "bury"}

\* A live worker is between MarkEventInFlight and its settling step.
Engaged(e) ==
    \E w \in Workers :
        /\ pc[w] \in {"run", "record", "deliver", "fail", "bury", "retry", "panic", "panicFail"}
        /\ Ev(w) = e

\* Nothing is lost between the two stores: a row that says in_flight is on its
\* way in the queue, in the hands of a live worker, or on the dead list for an
\* operator to see.  (A row that says queued is found by the reaper, which
\* passes over in_flight rows.)  The exceptions: a terminal status write that
\* fails, whose error is ignored while the copy is acknowledged all the same; a
\* lease overrun together with a second fault; a full dead list.
InFlightOwned ==
    \A e \in Events : status[e] = "in_flight" /\ used.lost = 0 =>
        \/ Secure(e) \/ Engaged(e) \/ \E i \in DOMAIN dead : dead[i].ev = e
        \/ e \in excused.trimmed \/ (e \in excused.overrun /\ used.faults > 1)

\* The copies of e in lists, scheduled set and leases that will be processed.
CopiesOf(e) ==
    LET list == pending[OrgOf[e]]
    IN  Cardinality({i \in DOMAIN list : list[i].ev = e})
        + Cardinality({p \in later \cup due : p.ev = e})
        + Cardinality({m \in processing :
                          m.evt.ev = e /\ \A w \in Workers : hold[w] = m => pc[w] # "ack"})

\* What may multiply the copies of e: an enqueue, or a fault at a bad moment.
Sources(e) == grants[e] + used.faults

\* Copies are conserved: retries, deferrals, promotions and recoveries replace a
\* copy and never add one, so duplicates come only from outside or from faults.
CopiesBounded == \A e \in Events : CopiesOf(e) <= Sources(e)

\* The retry budget holds: each copy that entered the queue is worth at most
\* max_retries + 1 requests to the destination, whatever is reaped, recovered,
\* deferred or retried by hand.
BudgetBounded == \A e \in Events : sends[e] <= (MaxRetries + 1) * Sources(e)

\* A requeued dead entry is not lost although the console puts the copy back
\* before it resets the row, so that a worker may meet the old status and
\* acknowledge the copy: until a worker takes the event up its row is queued,
\* where the reaper finds it, or about to be, or deleted.  A missed write of the
\* console is fatal, whatever the comment in admin/router.go says, and so is the
\* write of a worker that was at the event already (it is not in requeued then).
RequeueTakesEffect ==
    \A e \in requeued :
        \/ status[e] \in {"queued", "deleted"}
        \/ \E c \in calls : c.do = "markQueued" /\ c.ev = e
        \/ used.lost > 0

\* "Monotonic and gap-free" (events.sql on MarkEventInFlight): the attempts of an
\* event number themselves 1, 2, ... and the unique index refuses none, as long
\* as the event was enqueued once and no call failed.  A second copy can break
\* it: an attempt rejected before MarkEventInFlight does not raise
\* attempt_count, and the next one then derives the same number.
AttemptsNumbered ==
    \A e \in Events :
        grants[e] <= 1 /\ used.faults = 0
            => e \notin dropped /\ recorded[e] = 1..Cardinality(recorded[e])

\* The three kinds of bookkeeping agree: copies in Redis, requests sent, attempts
\* in the table (Process, recordAttempt, failAttempt, the reaper, the console).
AttemptsAccounted == TypeOK /\ CopiesBounded /\ BudgetBounded /\ AttemptsNumbered

-----------------------------------------------------------------------------
(* Liveness.  Workers, mover, recoverer and reaper run in loops with bounded *)
(* waits; a request that was begun is finished; time passes; the gates of a  *)
(* destination do not stay closed for good.                                  *)

FairSpec ==
    /\ Spec
    /\ \A w \in Workers : WF_vars(Process(w))
    /\ SF_vars(\E w \in Workers : MarkEventInFlight(w))
    /\ WF_vars(\E c \in calls : CallEnqueue(c) \/ CallMarkQueued(c))
    /\ WF_vars(Mover) /\ WF_vars(Recoverer)
    /\ \A e \in Events : WF_vars(Ages(e)) /\ WF_vars(ClaimStuck(e))
    /\ \A p \in Payloads : WF_vars(TimeReaches(p))
    /\ \A t \in Tokens : WF_vars(OrphanExpires(t))

\* What a worker's ignored failure of MarkEventDelivered or MarkEventFailed leaves:
\* the copy is acknowledged or buried, and nothing looks at an in_flight row
\* again.  A row that still says queued is reaped, unless MaxReaps, which bounds
\* the model and not the code, is used up.
Forsaken(e) ==
    used.lost > 0 /\ (status[e] = "in_flight" \/ used.extra[e] >= MaxReaps)

\* Every accepted event comes to an end: it is delivered, filtered or failed (or
\* its row is deleted) although a worker crashes or panics, an Enqueue or a
\* settling call fails, a lease is overrun, or the status write of an event
\* rejected before MarkEventInFlight is lost.  The exception is a terminal status
\* write lost after MarkEventInFlight: that row stays in_flight for good.
EventuallySettled ==
    \A e \in Events : status[e] = "queued" ~> (Over(e) \/ Forsaken(e))

=============================================================================
