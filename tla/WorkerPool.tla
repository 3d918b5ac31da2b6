----------------------------- MODULE WorkerPool -----------------------------
(***************************************************************************)
(* The worker process of cmd/dstream/worker.go around the queue: consumer  *)
(* goroutines that pick, process and settle one payload at a time, the     *)
(* mover (PromoteDue), the recoverer (Recover), producers and the admin    *)
(* console.  What a handler does with a payload is reduced to the contract *)
(* the delivery, outbound and mail handlers share: finish and Ack; fail    *)
(* and Schedule the retry, then Ack; Schedule a deferral, then Ack;        *)
(* DeadLetter; or return an error and leave the lease.                     *)
(*                                                                         *)
(* A fault is a crash, a Redis error or a lost reply, or a lease that runs *)
(* out while its holder is still at work; MaxFaults bounds them.           *)
(***************************************************************************)
EXTENDS DQueue

CONSTANTS
    Workers,     \* consumer goroutines, of one or several processes
    MaxSends,    \* bound: how often producers enqueue one event
    MaxFaults,   \* bound: faults of one behaviour
    NoMember     \* "nothing picked"

ASSUME NoMemberAssumption == NoMember \notin Members
ASSUME BoundsAssumption == MaxSends \in Nat /\ MaxFaults \in Nat

VARIABLES
    pc,      \* [Workers -> {"pick", "wait", "work", "ack"}]
    hold,    \* [Workers -> Members \cup {NoMember}]: the raw member in hand
    sent,    \* how often each event was enqueued
    owed,    \* events enqueued and not yet settled by a handler
    faults

poolVars == <<pc, hold, sent, owed, faults>>
vars == <<queueVars, poolVars>>

TypeOK ==
    /\ QueueTypeOK
    /\ pc \in [Workers -> {"pick", "wait", "work", "ack"}]
    /\ hold \in [Workers -> Members \cup {NoMember}]
    /\ \A w \in Workers : hold[w] # NoMember <=> pc[w] \in {"work", "ack"}
    /\ sent \in [Events -> 0..MaxSends]
    /\ owed \subseteq Events
    /\ faults \in 0..MaxFaults

Init ==
    /\ QueueInit
    /\ pc = [w \in Workers |-> "pick"]
    /\ hold = [w \in Workers |-> NoMember]
    /\ sent = [e \in Events |-> 0]
    /\ owed = {}
    /\ faults = 0

-----------------------------------------------------------------------------
Fault == faults < MaxFaults /\ faults' = faults + 1

\* A uuid is never drawn twice.
Fresh == {t \in Tokens : /\ \A m \in processing : m.tok # t
                         /\ \A w \in Workers : hold[w] # NoMember => hold[w].tok # t}

Goto(w, label) == pc' = [pc EXCEPT ![w] = label]

\* The consumer is done with its payload: it loops to the next FairPick.
Release(w) ==
    /\ Goto(w, "pick")
    /\ hold' = [hold EXCEPT ![w] = NoMember]

\* The producer's enqueue: a fresh payload has attempt 0.
Produce(e) ==
    /\ sent[e] < MaxSends
    /\ \E at \in Stamps : Enqueue([ev |-> e, at |-> at, attempt |-> 0])
    /\ sent' = [sent EXCEPT ![e] = @ + 1]
    /\ owed' = owed \cup {e}
    /\ UNCHANGED <<pc, hold, faults>>

Pick(w) ==
    /\ pc[w] = "pick"
    /\ \E tok \in Fresh :
          /\ FairPick(tok)
          /\ hold' = [hold EXCEPT ![w] = [tok |-> tok, evt |-> Head(pending[Head(ring)])]]
    /\ Goto(w, "work")
    /\ UNCHANGED <<sent, owed, faults>>

\* The script ran, the reply did not arrive: leased, and in nobody's hands.
PickReplyLost(w) ==
    /\ pc[w] = "pick"
    /\ \E tok \in Fresh : FairPick(tok)
    /\ Fault
    /\ UNCHANGED <<pc, hold, sent, owed>>

PickNothing(w) ==
    /\ pc[w] = "pick"
    /\ FairPickEmpty
    /\ Goto(w, "wait")
    /\ UNCHANGED <<hold, sent, owed, faults>>

WaitNotify(w) ==
    /\ pc[w] = "wait"
    /\ TakeNotify
    /\ Goto(w, "pick")
    /\ UNCHANGED <<hold, sent, owed, faults>>

\* BRPOP times out after two seconds.
WaitTimeout(w) ==
    /\ pc[w] = "wait"
    /\ Goto(w, "pick")
    /\ UNCHANGED <<queueVars, hold, sent, owed, faults>>

-----------------------------------------------------------------------------
(* The handler's outcomes. *)

\* Terminal outcome recorded; the member is acknowledged.
Finish(w) ==
    /\ pc[w] = "work"
    /\ Ack(hold[w])
    /\ Release(w)
    /\ owed' = owed \ {hold[w].evt.ev}
    /\ UNCHANGED <<sent, faults>>

\* A failed attempt with budget left: the next attempt is scheduled first.
Retry(w) ==
    /\ pc[w] = "work"
    /\ hold[w].evt.attempt < MaxAttempt
    /\ Schedule([hold[w].evt EXCEPT !.attempt = @ + 1])
    /\ Goto(w, "ack")
    /\ UNCHANGED <<hold, sent, owed, faults>>

\* A gate deferral: attempt untouched, EnqueuedAt restamped.
Defer(w) ==
    /\ pc[w] = "work"
    /\ \E at \in Stamps : Schedule([hold[w].evt EXCEPT !.at = at])
    /\ Goto(w, "ack")
    /\ UNCHANGED <<hold, sent, owed, faults>>

AckScheduled(w) ==
    /\ pc[w] = "ack"
    /\ Ack(hold[w])
    /\ Release(w)
    /\ UNCHANGED <<sent, owed, faults>>

\* Budget exhausted, undeliverable, or the panic handler of the consumer.
GiveUp(w) ==
    /\ pc[w] = "work"
    /\ DeadLetter(hold[w])
    /\ Release(w)
    /\ owed' = owed \ {hold[w].evt.ev}
    /\ UNCHANGED <<sent, faults>>

\* An error return, a Redis error in a settling call, or a crash and restart
\* of the process: the consumer picks again and the lease stays behind.  A call
\* that Redis applied and whose reply was lost is the call followed by this.
Abandon(w) ==
    /\ pc[w] \in {"work", "ack"}
    /\ Fault
    /\ Release(w)
    /\ UNCHANGED <<queueVars, sent, owed>>

-----------------------------------------------------------------------------
(* Tickers, admin console, time. *)

Mover == PromoteDue /\ UNCHANGED poolVars

Recoverer == Recover /\ UNCHANGED poolVars

\* An operator puts a dead entry back: the event is owed again.
AdminRequeueDead ==
    /\ \E i \in DOMAIN dead, at \in Stamps :
          /\ RequeueDead(i, at)
          /\ owed' = owed \cup {dead[i].ev}
    /\ UNCHANGED <<pc, hold, sent, faults>>

AdminPromote == (\E p \in Payloads : PromoteScheduled(p)) /\ UNCHANGED poolVars

AdminDrain == DrainDead /\ UNCHANGED poolVars

TimeReaches(p) == BecomeDue(p) /\ UNCHANGED poolVars

Held(m) == \E w \in Workers : hold[w] = m

\* The lease of a consumer that is gone runs out.
OrphanExpires(t) ==
    /\ \E m \in processing : m.tok = t /\ ~Held(m) /\ LeaseExpires(m)
    /\ UNCHANGED poolVars

\* The holder is slower than its lease.
LeaseOverrun ==
    /\ \E m \in processing : Held(m) /\ LeaseExpires(m)
    /\ Fault
    /\ UNCHANGED <<pc, hold, sent, owed>>

Consume(w) ==
    \/ Pick(w) \/ PickNothing(w) \/ WaitNotify(w) \/ WaitTimeout(w)
    \/ Finish(w) \/ Retry(w) \/ Defer(w) \/ AckScheduled(w) \/ GiveUp(w)

Next ==
    \/ \E e \in Events : Produce(e)
    \/ \E w \in Workers : Consume(w) \/ PickReplyLost(w) \/ Abandon(w)
    \/ Mover \/ Recoverer \/ LeaseOverrun
    \/ AdminRequeueDead \/ AdminPromote \/ AdminDrain
    \/ \E p \in Payloads : TimeReaches(p)
    \/ \E t \in Tokens : OrphanExpires(t)

Spec == Init /\ [][Next]_vars

-----------------------------------------------------------------------------
(* Safety. *)

\* A copy of e exists that no half-settled consumer is about to remove.
Secure(e) ==
    \/ Waiting(e)
    \/ \E m \in processing : /\ m.evt.ev = e
                             /\ \A w \in Workers : ~(pc[w] = "ack" /\ hold[w] = m)

\* At-least-once: an event that was enqueued and that no handler has settled is
\* in the queue, and stays there even if every half-done Ack goes through.
NothingLost == \A e \in owed : Secure(e)

\* Fencing: a lease leaves the processing set only when it has expired, or when
\* the consumer holding exactly that token settles it.  A consumer whose lease
\* was recovered cannot remove the newer lease of the same payload.
FencedLeases ==
    [][\A m \in processing \ processing' :
          \/ m \in expired
          \/ \E w \in Workers : hold[w] = m /\ hold'[w] = NoMember]_vars

\* One token names one lease, and a consumer's token names its own pick.
TokensDistinct ==
    /\ \A m, n \in processing : m.tok = n.tok => m = n
    /\ \A w \in Workers, m \in processing :
          hold[w] # NoMember /\ hold[w].tok = m.tok => hold[w] = m
    /\ \A v, w \in Workers :
          hold[v] # NoMember /\ hold[w] # NoMember /\ hold[v].tok = hold[w].tok => v = w

\* Round robin: an org waiting behind the head of the ring never falls back,
\* and every pick moves it one place forward, so from place i it sees at most
\* i - 1 payloads of other orgs picked before its own.
RoundRobin ==
    [][\A i \in DOMAIN ring :
          \/ i = 1
          \/ \E j \in DOMAIN ring' :
                /\ ring'[j] = ring[i]
                /\ j <= i
                /\ processing' \subseteq processing \/ j < i]_vars

\* When work is pending, a wake-up is on the notify list or some consumer is
\* awake: the pool never sleeps on a backlog until the BRPOP timeout.
NoLostWakeup ==
    ring # <<>> => notify > 0 \/ \E w \in Workers : pc[w] # "wait"

-----------------------------------------------------------------------------
(* Refinement: forget orgs, rings, clocks and the dead list. *)

CopiesWaiting ==
    [p \in Payloads |->
        LET list == pending[OrgOf[p.ev]]
        IN  Cardinality({i \in DOMAIN list : list[i] = p})
            + IF p \in later \cup due THEN 1 ELSE 0]

Abstract == INSTANCE LeaseQueue WITH
    Items <- Payloads,
    waiting <- CopiesWaiting,
    leased <- processing,
    lapsed <- expired

\* The scripts of dqueue.go implement the abstract queue: whatever clients,
\* tickers and the console do, a payload moves between lists, scheduled set and
\* leases one copy at a time, and disappears only with a lease.
QueueImplements == Abstract!LeaseSpec

-----------------------------------------------------------------------------
(* Liveness.  Consumers, mover and recoverer run in loops with bounded waits *)
(* (BRPOP timeout, HTTP timeout, tickers), time passes, and faults are       *)
(* finite; producers and operators owe nothing.                              *)

FairSpec ==
    /\ Spec
    /\ \A w \in Workers : WF_vars(Consume(w))
    /\ WF_vars(Mover)
    /\ WF_vars(Recoverer)
    /\ \A p \in Payloads : WF_vars(TimeReaches(p))
    /\ \A t \in Tokens : WF_vars(OrphanExpires(t))

InHand(e) == \E w \in Workers : hold[w] # NoMember /\ hold[w].evt.ev = e

\* An owed event, wherever crashes and deferrals left its copy, reaches a
\* handler again: no org and no event starves.
EventuallyHandled == \A e \in Events : e \in owed ~> InHand(e) \/ e \notin owed

=============================================================================
