------------------------------- MODULE Ingest -------------------------------
(***************************************************************************)
(* The ingest path (internal/ingest): one webhook, that is one method,     *)
(* path and body and so one dedup key, and the transmissions of it that    *)
(* its sender makes.  Each transmission runs handleIngest in a goroutine   *)
(* of its own; they meet at the dedup key in Redis and at the bookmarks of *)
(* a capture rule in Postgres.                                             *)
(*                                                                         *)
(* The sender transmits again after an error, after it has given up on an  *)
(* answer (cancel) or after a crash; its transmissions may overlap.        *)
(*                                                                         *)
(* Resolving the source (SourceCache), the loop guard, the rate limit, the *)
(* quota and the body limit come before the dedup check and change nothing *)
(* here: Reject.                                                           *)
(***************************************************************************)
EXTENDS Integers, FiniteSets, Sequences

CONSTANTS
    Reqs,        \* transmissions of the webhook
    Conns,       \* the source's connections
    Cap,         \* capture_rules.cap
    FaultKinds,  \* the faults that may happen
    MaxFaults,   \* bound: faults
    MaxGaps      \* bound: expiries, failed checks, lost commit replies

ASSUME IngestAssumption ==
    /\ IsFiniteSet(Reqs)
    /\ Cap \in Nat \ {0}
    /\ MaxFaults \in Nat /\ MaxGaps \in Nat

VARIABLES
    key,        \* the dedup key exists
    pc,         \* where each transmission is
    dup,        \* handleIngest's dup
    claimed,    \* handleIngest's dedupClaimed
    committed,  \* handleIngest's committed
    todo,       \* connections whose event is still to be inserted or enqueued
    reply,      \* the answer
    rows,       \* requests table: transmissions persisted
    bodies,     \* their bodies
    events,     \* events table: <<transmission, connection>>
    queued,     \* events enqueued
    marks,      \* automatic bookmarks of the rule, oldest first
    faults,     \* faults so far
    gaps        \* times the dedup key was passed or dropped without a claim failing

table == <<rows, bodies, events, queued, marks>>
local == <<dup, claimed, committed, todo>>
vars == <<key, pc, local, reply, table, faults, gaps>>

\* Labels of handleIngest between its first statement and its return.
Running == {"check", "create", "body", "list", "insert", "enqueue", "capture",
            "evict", "rollback"}
Labels == Running \cup {"unsent", "done", "dead"}
Replies == {"none", "rejected", "error", "deduped", "accepted"}

TypeOK ==
    /\ key \in BOOLEAN
    /\ pc \in [Reqs -> Labels]
    /\ dup \in [Reqs -> BOOLEAN]
    /\ claimed \in [Reqs -> BOOLEAN]
    /\ committed \in [Reqs -> BOOLEAN]
    /\ todo \in [Reqs -> SUBSET Conns]
    /\ reply \in [Reqs -> Replies]
    /\ rows \subseteq Reqs
    /\ bodies \subseteq rows
    /\ events \subseteq Reqs \X Conns
    /\ queued \subseteq events
    /\ marks \in Seq(Reqs)
    /\ faults \in 0..MaxFaults
    /\ gaps \in 0..MaxGaps

Init ==
    /\ key = FALSE
    /\ pc = [r \in Reqs |-> "unsent"]
    /\ dup = [r \in Reqs |-> FALSE]
    /\ claimed = [r \in Reqs |-> FALSE]
    /\ committed = [r \in Reqs |-> FALSE]
    /\ todo = [r \in Reqs |-> {}]
    /\ reply = [r \in Reqs |-> "none"]
    /\ rows = {} /\ bodies = {} /\ events = {} /\ queued = {}
    /\ marks = << >>
    /\ faults = 0 /\ gaps = 0

Fault(kind) == kind \in FaultKinds /\ faults < MaxFaults /\ faults' = faults + 1
Gap == gaps < MaxGaps /\ gaps' = gaps + 1

Goto(r, label) == pc' = [pc EXCEPT ![r] = label]

\* handleIngest returns: the deferred rollback runs before the answer leaves.
Return(r, answer) ==
    /\ reply' = [reply EXCEPT ![r] = answer]
    /\ Goto(r, IF claimed[r] /\ ~committed'[r] THEN "rollback" ELSE "done")

-----------------------------------------------------------------------------
(* The sender.                                                             *)

\* The sender has its 2xx, and transmits no more.
Satisfied == \E r \in Reqs : pc[r] = "done" /\ reply[r] \in {"deduped", "accepted"}

Send(r) ==
    /\ pc[r] = "unsent"
    /\ ~Satisfied
    /\ Goto(r, "check")
    /\ UNCHANGED <<key, local, reply, table, faults, gaps>>

-----------------------------------------------------------------------------
(* handleIngest.                                                           *)

\* Unknown source, method, hop count, rate limit, quota, body too large.
Reject(r) ==
    /\ pc[r] = "check"
    /\ Fault("reject")
    /\ reply' = [reply EXCEPT ![r] = "rejected"]
    /\ Goto(r, "done")
    /\ UNCHANGED <<key, local, table, gaps>>

\* Mutant of DedupClaimed: a duplicate rolls the key back as well.
DedupClaimedAlways(isDup, failed) == ~failed

DedupClaimed(isDup, failed) == ~isDup /\ ~failed

CheckDedup(r) ==
    /\ pc[r] = "check"
    /\ key' = TRUE
    /\ dup' = [dup EXCEPT ![r] = key]
    /\ claimed' = [claimed EXCEPT ![r] = DedupClaimed(key, FALSE)]
    /\ Goto(r, "create")
    /\ UNCHANGED <<committed, todo, reply, table, faults, gaps>>

\* Redis fails: fail open, without a claim.  SETNX may have taken effect.
CheckDedupFails(r) ==
    /\ pc[r] = "check"
    /\ Gap
    /\ \/ UNCHANGED <<key, faults>>
       \/ Fault("setnx") /\ key' = TRUE
    /\ claimed' = [claimed EXCEPT ![r] = DedupClaimed(FALSE, TRUE)]
    /\ Goto(r, "create")
    /\ UNCHANGED <<dup, committed, todo, reply, table>>

CreateRequest(r) ==
    /\ pc[r] = "create"
    /\ rows' = rows \cup {r}
    /\ Goto(r, "body")
    /\ UNCHANGED <<key, local, reply, bodies, events, queued, marks, faults, gaps>>

PutBody(r) ==
    /\ pc[r] = "body"
    /\ bodies' = bodies \cup {r}
    /\ \/ /\ dup[r]
          /\ UNCHANGED committed
          /\ Return(r, "deduped")
       \/ /\ ~dup[r]
          /\ Goto(r, "list")
          /\ UNCHANGED <<committed, reply>>
    /\ UNCHANGED <<key, dup, claimed, todo, rows, events, queued, marks, faults, gaps>>

\* The enabled connections may be any at this moment; none is a success too.
ListConns(r) ==
    /\ pc[r] = "list"
    /\ \E conns \in SUBSET Conns :
          /\ todo' = [todo EXCEPT ![r] = conns]
          /\ committed' = [committed EXCEPT ![r] = (conns = {})]
          /\ Goto(r, IF conns = {} THEN "capture" ELSE "insert")
    /\ UNCHANGED <<key, dup, claimed, reply, table, faults, gaps>>

\* CreateEventsBatch, one statement for every connection.
CreateEvents(r) ==
    /\ pc[r] = "insert"
    /\ events' = events \cup ({r} \X todo[r])
    /\ Goto(r, "enqueue")
    /\ UNCHANGED <<key, local, reply, rows, bodies, queued, marks, faults, gaps>>

\* The batch commits but its reply is lost: an error to the handler.
CreateEventsReplyLost(r) ==
    /\ pc[r] = "insert"
    /\ Gap
    /\ events' = events \cup ({r} \X todo[r])
    /\ UNCHANGED committed
    /\ Return(r, "error")
    /\ UNCHANGED <<key, dup, claimed, todo, rows, bodies, queued, marks, faults>>

\* Mutant of Fail: a body that could not be stored is not an error.
FailBodyIgnored(r) ==
    /\ pc[r] \in {"create", "body", "list", "insert"}
    /\ Fault("db")
    /\ UNCHANGED committed
    /\ IF pc[r] = "body" THEN Goto(r, "list") /\ UNCHANGED reply ELSE Return(r, "error")
    /\ UNCHANGED <<key, dup, claimed, todo, table, gaps>>

\* A database error, or the request context is done: 500, and nothing written.
Fail(r) ==
    /\ pc[r] \in {"create", "body", "list", "insert"}
    /\ Fault("db")
    /\ UNCHANGED committed
    /\ Return(r, "error")
    /\ UNCHANGED <<key, dup, claimed, todo, table, gaps>>

\* One Enqueue of the loop; a failed one leaves its event to the reaper.  After
\* the last one the events are durable and the dedup key is kept.
EnqueueEvent(r) ==
    /\ pc[r] = "enqueue"
    /\ \E c \in todo[r] :
          /\ todo' = [todo EXCEPT ![r] = @ \ {c}]
          /\ \/ queued' = queued \cup {<<r, c>>} /\ UNCHANGED faults
             \/ Fault("enqueue") /\ UNCHANGED queued
          /\ committed' = [committed EXCEPT ![r] = (todo[r] = {c})]
          /\ Goto(r, IF todo[r] = {c} THEN "capture" ELSE "enqueue")
    /\ UNCHANGED <<key, dup, claimed, reply, rows, bodies, events, marks, gaps>>

-----------------------------------------------------------------------------
(* capture: bookmark the request, then evict past the rule's cap.          *)

\* No rule, no match, an evaluation error or a failed insert: no bookmark.
SkipCapture(r) ==
    /\ pc[r] = "capture"
    /\ UNCHANGED committed
    /\ Return(r, "accepted")
    /\ UNCHANGED <<key, dup, claimed, todo, table, faults, gaps>>

CreateAutoBookmark(r) ==
    /\ pc[r] = "capture"
    /\ marks' = Append(marks, r)
    /\ Goto(r, "evict")
    /\ UNCHANGED <<key, local, reply, rows, bodies, events, queued, faults, gaps>>

\* The bookmarks EvictCaptureBookmarks keeps.
Newest(s) == SubSeq(s, Len(s) - Cap + 1, Len(s))

Evict(r) ==
    /\ pc[r] = "evict"
    /\ \/ marks' = (IF Len(marks) > Cap THEN Newest(marks) ELSE marks) /\ UNCHANGED faults
       \/ Fault("evict") /\ UNCHANGED marks
    /\ UNCHANGED committed
    /\ Return(r, "accepted")
    /\ UNCHANGED <<key, dup, claimed, todo, rows, bodies, events, queued, gaps>>

-----------------------------------------------------------------------------
\* Mutant of Rollback: the failure path forgets the key.
RollbackKeepsKey(r) ==
    /\ pc[r] = "rollback"
    /\ Goto(r, "done")
    /\ UNCHANGED <<key, local, reply, table, faults, gaps>>

\* The deferred DEL; its error is ignored.
Rollback(r) ==
    /\ pc[r] = "rollback"
    /\ \/ key' = FALSE /\ UNCHANGED faults
       \/ Fault("del") /\ UNCHANGED key
    /\ Goto(r, "done")
    /\ UNCHANGED <<local, reply, table, gaps>>

\* DedupWindow is over.
Expire ==
    /\ key
    /\ Gap
    /\ key' = FALSE
    /\ UNCHANGED <<pc, local, reply, table, faults>>

\* The server process dies: the sender's connection breaks.
Crash(r) ==
    /\ pc[r] \in Running
    /\ Fault("crash")
    /\ Goto(r, "dead")
    /\ UNCHANGED <<key, local, reply, table, gaps>>

-----------------------------------------------------------------------------
Persist(r) == CreateRequest(r) \/ PutBody(r) \/ ListConns(r) \/ CreateEvents(r)
Capture(r) == SkipCapture(r) \/ CreateAutoBookmark(r) \/ Evict(r)

handleIngest(r) ==
    CheckDedup(r) \/ Persist(r) \/ EnqueueEvent(r) \/ Capture(r) \/ Rollback(r)

Disturb(r) ==
    Reject(r) \/ CheckDedupFails(r) \/ CreateEventsReplyLost(r) \/ Fail(r) \/ Crash(r)

Next ==
    \/ \E r \in Reqs : Send(r) \/ handleIngest(r) \/ Disturb(r)
    \/ Expire

Spec == Init /\ [][Next]_vars

-----------------------------------------------------------------------------
\* Transmissions whose events are in the database.
Fanned == {r \in Reqs : \E c \in Conns : <<r, c>> \in events}

\* Transmissions that got past the dedup check and were not turned back: their
\* events are in the database, or they may still insert them or give the key back.
Passed ==
    Fanned \cup {r \in Reqs : ~dup[r] /\ pc[r] \in Running \ {"check"}}

\* Those about to give the key back although their events are in the database.
Dropping == {r \in Fanned : pc[r] = "rollback"}

\* Where the handler stands says what it has done: the row before the body, the
\* body before the events, the flag before capture, a rollback only by a claimer.
ControlOK ==
    \A r \in Reqs :
        /\ pc[r] \in {"unsent", "check", "create", "body", "list", "insert"} => r \notin Fanned
        /\ pc[r] = "body" => r \in rows
        /\ pc[r] \in {"list", "insert"} => r \in bodies /\ ~dup[r]
        /\ pc[r] = "enqueue" => \A c \in todo[r] : <<r, c>> \in events
        /\ pc[r] \in {"capture", "evict"} => committed[r]
        /\ claimed[r] => ~dup[r]
        /\ pc[r] = "rollback" => claimed[r]

KeyWeight == IF key THEN 1 ELSE 0

\* The inductive form of DedupEffective: every transmission past the key, and
\* every one about to drop it with events behind, is paid for by a gap or by the key.
KeyPaysFor == Cardinality(Passed) + Cardinality(Dropping) <= gaps + KeyWeight

\* The dedup key does its work: at most one transmission of the webhook creates
\* events, but for one more each time the key expired, could not be checked, or
\* was dropped after a commit whose reply was lost.  Rollbacks of other
\* transmissions, crashes and failed DELs give no further one.
DedupEffective == Cardinality(Fanned) <= 1 + gaps

\* No event exists without the request and the body that delivery will read.
EventHasBody == Fanned \subseteq bodies

\* The rule's bookmarks exceed its cap only by the captures between their insert
\* and their eviction, and by evictions that failed.
MarksBounded ==
    Len(marks) <= Cap + Cardinality({r \in Reqs : pc[r] \in {"evict", "dead"}}) + faults

=============================================================================
