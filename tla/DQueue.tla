------------------------------- MODULE DQueue -------------------------------
(***************************************************************************)
(* The Redis fair delivery queue of internal/dqueue/dqueue.go.             *)
(*                                                                         *)
(* Every operation is one Lua script or one Redis command, so every        *)
(* operation is one atomic action here.  The module holds the queue's      *)
(* state and operations only; WorkerPool and Deliver EXTEND it and add the *)
(* clients that call them.                                                 *)
(*                                                                         *)
(* Time.  A sorted-set score is compared with a caller's clock and nothing *)
(* else, so a score is abstracted to the side of "now" it is on: the       *)
(* scheduled set is split into `later' and `due', a lease is expired or    *)
(* not, and the passing of time moves an entry across (BecomeDue,          *)
(* LeaseExpires).  The order in which entries cross is left open: the      *)
(* scores come from the clocks of several nodes.                           *)
(*                                                                         *)
(* A payload is its event, its EnqueuedAt stamp and its retry count; the   *)
(* other fields travel with the event.  Two payloads are the same Redis    *)
(* member exactly when all three agree.                                    *)
(***************************************************************************)
EXTENDS Integers, Sequences, FiniteSets

CONSTANTS
    Orgs,          \* tenants
    Events,        \* event ids
    OrgOf,         \* [Events -> Orgs]
    Stamps,        \* values of EnqueuedAt
    MaxAttempt,    \* highest retry count a payload carries
    Tokens,        \* fencing tokens (uuid per pick); a bound on live leases
    PromoteLimit,  \* batch size of PromoteDue (500 in worker.go)
    DeadCap,       \* deadListCap (10000)
    NotifyCap      \* length LTRIM leaves on the notify list (1025)

ASSUME OrgOfAssumption == OrgOf \in [Events -> Orgs]
ASSUME AttemptAssumption == MaxAttempt \in Nat
ASSUME LimitAssumption == PromoteLimit \in Nat \ {0}
ASSUME CapAssumption == DeadCap \in Nat \ {0} /\ NotifyCap \in Nat \ {0}

Payloads == [ev: Events, at: Stamps, attempt: 0..MaxAttempt]

\* A processing member is "<token>\x1f<payload>": what FairPick hands out and
\* what Ack and DeadLetter name.
Members == [tok: Tokens, evt: Payloads]

VARIABLES
    pending,     \* [Orgs -> Seq(Payloads)]: the <p>:pending:{org} lists
    ring,        \* Seq(Orgs): the <p>:orgs list
    processing,  \* set of leased members: the <p>:processing zset
    expired,     \* the leased members whose score is in the past
    later,       \* members of <p>:scheduled with a score in the future
    due,         \* members of <p>:scheduled with a score in the past
    dead,        \* Seq(Payloads): the <p>:dead list
    notify       \* length of the <p>:notify list

queueVars == <<pending, ring, processing, expired, later, due, dead, notify>>

QueueTypeOK ==
    /\ pending \in [Orgs -> Seq(Payloads)]
    /\ ring \in Seq(Orgs)
    /\ processing \subseteq Members
    /\ expired \subseteq processing
    /\ later \subseteq Payloads
    /\ due \subseteq Payloads
    /\ later \cap due = {}
    /\ dead \in Seq(Payloads)
    /\ Len(dead) <= DeadCap
    /\ notify \in 0..NotifyCap

QueueInit ==
    /\ pending = [o \in Orgs |-> <<>>]
    /\ ring = <<>>
    /\ processing = {} /\ expired = {}
    /\ later = {} /\ due = {}
    /\ dead = <<>>
    /\ notify = 0

-----------------------------------------------------------------------------
(* The lists the scripts share. *)

\* Mutant of Push: the script without its n == 1 test.
PushAlwaysRings(q, p) ==
    LET o == OrgOf[p.ev]
    IN  [list |-> [q.list EXCEPT ![o] = Append(@, p)], ring |-> Append(q.ring, o)]

\* RPUSH a payload on its org's list; the org joins the ring only if this is
\* its first pending payload (n == 1).
Push(q, p) ==
    LET o == OrgOf[p.ev]
    IN  [list |-> [q.list EXCEPT ![o] = Append(@, p)],
         ring |-> IF q.list[o] = <<>> THEN Append(q.ring, o) ELSE q.ring]

\* The loop of a script that pushes every payload of s in order.
PushAll(q, s) ==
    LET loop[i \in 0..Len(s)] == IF i = 0 THEN q ELSE Push(loop[i - 1], s[i])
    IN  loop[Len(s)]

\* Mutant of Inject: no LPUSH on the notify list.
InjectSilent(s) ==
    LET q == PushAll([list |-> pending, ring |-> ring], s)
    IN  pending' = q.list /\ ring' = q.ring /\ notify' = notify

\* Pushing s, then LPUSH notify once per payload and LTRIM to the cap.
Inject(s) ==
    LET q == PushAll([list |-> pending, ring |-> ring], s)
        n == notify + Len(s)
    IN  /\ pending' = q.list
        /\ ring' = q.ring
        /\ notify' = IF n > NotifyCap THEN NotifyCap ELSE n

\* RPUSH dead, then LTRIM to the most recent DeadCap entries.
PushDead(p) ==
    dead' = IF Len(dead) < DeadCap THEN Append(dead, p) ELSE Append(Tail(dead), p)

-----------------------------------------------------------------------------
(* Operations of the client. *)

Enqueue(p) ==
    /\ Inject(<<p>>)
    /\ UNCHANGED <<processing, expired, later, due, dead>>

\* ZADD: a member already scheduled only changes its score.
Schedule(p) ==
    /\ later' = later \cup {p}
    /\ due' = due \ {p}
    /\ UNCHANGED <<pending, ring, processing, expired, dead, notify>>

\* The script pops the org before it looks at the org's list, and does not put
\* it back when the list is empty.
FairPickEmpty ==
    /\ ring # <<>> => pending[Head(ring)] = <<>>
    /\ ring' = SubSeq(ring, 2, Len(ring))
    /\ UNCHANGED <<pending, processing, expired, later, due, dead, notify>>

\* Mutants of FairPick: the org goes back to the front of the ring, or never.
FairPickToFront(tok) ==
    LET o == Head(ring)
    IN  /\ ring # <<>>
        /\ pending[o] # <<>>
        /\ processing' = processing \cup {[tok |-> tok, evt |-> Head(pending[o])]}
        /\ pending' = [pending EXCEPT ![o] = Tail(@)]
        /\ ring' = IF Tail(pending[o]) # <<>> THEN ring ELSE Tail(ring)
        /\ UNCHANGED <<expired, later, due, dead, notify>>

FairPickForgetsOrg(tok) ==
    LET o == Head(ring)
    IN  /\ ring # <<>>
        /\ pending[o] # <<>>
        /\ processing' = processing \cup {[tok |-> tok, evt |-> Head(pending[o])]}
        /\ pending' = [pending EXCEPT ![o] = Tail(@)]
        /\ ring' = Tail(ring)
        /\ UNCHANGED <<expired, later, due, dead, notify>>

\* tok is the pick's uuid: the caller passes one that nothing else holds.
FairPick(tok) ==
    LET o == Head(ring)
    IN  /\ ring # <<>>
        /\ pending[o] # <<>>
        /\ processing' = processing \cup {[tok |-> tok, evt |-> Head(pending[o])]}
        /\ pending' = [pending EXCEPT ![o] = Tail(@)]
        /\ ring' = IF Tail(pending[o]) # <<>> THEN Append(Tail(ring), o) ELSE Tail(ring)
        /\ UNCHANGED <<expired, later, due, dead, notify>>

\* Mutant of Ack: the member is named by its payload, without the token.
AckPayload(m) ==
    /\ processing' = {n \in processing : n.evt # m.evt}
    /\ expired' = {n \in expired : n.evt # m.evt}
    /\ UNCHANGED <<pending, ring, later, due, dead, notify>>

\* ZREM of the exact member.
Ack(m) ==
    /\ processing' = processing \ {m}
    /\ expired' = expired \ {m}
    /\ UNCHANGED <<pending, ring, later, due, dead, notify>>

\* The payload goes to the dead list whether or not the lease is still there.
DeadLetter(m) ==
    /\ PushDead(m.evt)
    /\ processing' = processing \ {m}
    /\ expired' = expired \ {m}
    /\ UNCHANGED <<pending, ring, later, due, notify>>

\* The batches ZRANGEBYSCORE ... LIMIT can return: PromoteLimit due members, or
\* all of them when there are fewer.
Batches ==
    {s \in UNION {[1..n -> due] : n \in 0..PromoteLimit} :
        /\ \A i, j \in DOMAIN s : i # j => s[i] # s[j]
        /\ Len(s) = PromoteLimit \/ \A p \in due : \E i \in DOMAIN s : s[i] = p}

PromoteDue ==
    \E s \in Batches :
        /\ s # <<>>
        /\ due' = due \ {s[i] : i \in DOMAIN s}
        /\ Inject(s)
        /\ UNCHANGED <<processing, expired, later, dead>>

\* Mutant of Recover: the lease is dropped and not rescheduled.
RecoverDrops ==
    /\ expired # {}
    /\ processing' = processing \ expired
    /\ expired' = {}
    /\ UNCHANGED <<pending, ring, later, due, dead, notify>>

\* Expired leases go to scheduled@now with the token stripped: two leases of
\* one payload become one scheduled member.
Recover ==
    LET back == {m.evt : m \in expired}
    IN  /\ expired # {}
        /\ processing' = processing \ expired
        /\ expired' = {}
        /\ due' = due \cup back
        /\ later' = later \ back
        /\ UNCHANGED <<pending, ring, dead, notify>>

\* BRPOP served; the timeout is the caller's choice to stop waiting.
TakeNotify ==
    /\ notify > 0
    /\ notify' = notify - 1
    /\ UNCHANGED <<pending, ring, processing, expired, later, due, dead>>

\* LREM 1: the first entry equal to the member, and only that one.
FirstDead(i) ==
    /\ i \in DOMAIN dead
    /\ \A j \in 1..(i - 1) : dead[j] # dead[i]

\* The payload is rewritten with attempt 0 and a new EnqueuedAt, and enqueued.
RequeueDead(i, at) ==
    /\ FirstDead(i)
    /\ dead' = SubSeq(dead, 1, i - 1) \o SubSeq(dead, i + 1, Len(dead))
    /\ Inject(<<[ev |-> dead[i].ev, at |-> at, attempt |-> 0]>>)
    /\ UNCHANGED <<processing, expired, later, due>>

PromoteScheduled(p) ==
    /\ p \in later \cup due
    /\ later' = later \ {p}
    /\ due' = due \ {p}
    /\ Inject(<<p>>)
    /\ UNCHANGED <<processing, expired, dead>>

DrainDead ==
    /\ dead # <<>>
    /\ dead' = <<>>
    /\ UNCHANGED <<pending, ring, processing, expired, later, due, notify>>

-----------------------------------------------------------------------------
(* The passing of time. *)

BecomeDue(p) ==
    /\ p \in later
    /\ later' = later \ {p}
    /\ due' = due \cup {p}
    /\ UNCHANGED <<pending, ring, processing, expired, dead, notify>>

LeaseExpires(m) ==
    /\ m \in processing \ expired
    /\ expired' = expired \cup {m}
    /\ UNCHANGED <<pending, ring, processing, later, due, dead, notify>>

-----------------------------------------------------------------------------
(* What the queue holds. *)

\* A copy of event e waits in a list or in the scheduled set.
Waiting(e) ==
    \/ \E o \in Orgs : \E i \in DOMAIN pending[o] : pending[o][i].ev = e
    \/ \E p \in later \cup due : p.ev = e

\* A copy of event e is somewhere it can be picked or recovered from.
Live(e) == Waiting(e) \/ \E m \in processing : m.evt.ev = e

\* The ring holds each org with pending work, once, and no other: an org that is
\* missing is never served again, an org listed twice is served twice a round.
RingMatchesPending ==
    /\ \A i, j \in DOMAIN ring : ring[i] = ring[j] => i = j
    /\ \A o \in Orgs : pending[o] # <<>> <=> \E i \in DOMAIN ring : ring[i] = o

=============================================================================
