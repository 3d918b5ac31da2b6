--------------------------- MODULE DeliverProofs ----------------------------
(***************************************************************************)
(* Proofs about Deliver, for every set of orgs, events, workers and tokens *)
(* and every budget, cap and number of faults.                             *)
(*                                                                         *)
(* The inductive invariant is IInv: the types, with the budget of a worker *)
(* about to schedule a retry; HoldersOK, that tokens tell the holders      *)
(* apart and that a worker which has not settled has its lease or is known *)
(* to have outlived it; Kept, which is InFlightOwned without the workers   *)
(* that have nothing left to give when they die; Taken and Effective,      *)
(* which are about the events the console requeued.                        *)
(*                                                                         *)
(* AttemptsAccounted has an invariant of its own: Balanced, the copies of  *)
(* an event by the number of requests that may be behind them, with the    *)
(* requests made at each number; and Numbered, what the worker with the    *)
(* only copy of an event knows of its count and its recorded attempts.     *)
(***************************************************************************)
EXTENDS Deliver, DQueueProofs, SequenceTheorems

-----------------------------------------------------------------------------
(* Types. *)

TablesOK ==
    /\ status \in [Events -> Statuses]
    /\ count \in [Events -> Nat]
    /\ recorded \in [Events -> SUBSET (Nat \ {0})]
    /\ stale \in [Events -> BOOLEAN]

\* A worker schedules a retry only within the budget.
WorkersOK ==
    /\ pc \in [Workers -> Labels]
    /\ hold \in [Workers -> Members \cup {NoMember}]
    /\ \A w \in Workers : hold[w] = NoMember <=> pc[w] = "pick"
    /\ \A w \in Workers : pc[w] = "retry" => hold[w].evt.attempt + 1 <= MaxRetries
    /\ row \in [Workers -> Nat]
    /\ out \in [Workers -> Outcomes]

HistoryOK ==
    /\ sends \in [Events -> Nat]
    /\ grants \in [Events -> Nat]
    /\ requeued \subseteq Events
    /\ dropped \subseteq Events
    /\ excused \in [overrun: SUBSET Events, trimmed: SUBSET Events]

UsedOK == used \in [faults: 0..MaxFaults, lost: 0..MaxLostWrites,
                    extra: [Events -> 0..(MaxManual + MaxReaps)]]

TypeInv == QInv /\ TablesOK /\ WorkersOK /\ calls \subseteq Calls /\ HistoryOK /\ UsedOK

LEMMA TypeSuffices == TypeInv => TypeOK
  BY DEF TypeInv, QInv, TablesOK, WorkersOK, HistoryOK, UsedOK, TypeOK

\* A worker that is not idle holds a member.
LEMMA HoldType ==
    ASSUME WorkersOK, NEW w \in Workers, pc[w] # "pick"
    PROVE  /\ hold[w] \in Members /\ hold[w].evt \in Payloads /\ Ev(w) \in Events
           /\ hold[w].evt.attempt \in 0..MaxAttempt
  BY DEF WorkersOK, Members, Payloads, Ev

\* The worker goes on with what it holds.
LEMMA GotoType ==
    ASSUME WorkersOK, NEW w \in Workers, pc[w] # "pick", NEW label \in Labels \ {"pick"},
           label = "retry" => hold[w].evt.attempt + 1 <= MaxRetries,
           Goto(w, label), UNCHANGED hold, row' \in [Workers -> Nat], out' \in [Workers -> Outcomes]
    PROVE  WorkersOK'
  BY DEF WorkersOK, Goto

LEMMA FreeType == ASSUME WorkersOK, NEW w \in Workers, Free(w) PROVE WorkersOK'
<1>1. pc' \in [Workers -> Labels] /\ hold' \in [Workers -> Members \cup {NoMember}]
  BY DEF WorkersOK, Free, Goto, Labels
<1>2. row' \in [Workers -> Nat] /\ out' \in [Workers -> Outcomes]
  BY DEF WorkersOK, Free, Outcomes
<1>. QED
  BY <1>1, <1>2 DEF WorkersOK, Free, Goto

LEMMA SetStatusType ==
    ASSUME TablesOK, NEW e \in Events, NEW s \in Statuses, SetStatus(e, s), UNCHANGED <<count, recorded>>
    PROVE  TablesOK'
  BY DEF TablesOK, SetStatus

LEMMA FaultType ==
    ASSUME UsedOK, Fault
    PROVE  UsedOK' /\ used'.faults = used.faults + 1 /\ used'.lost = used.lost /\ used.faults \in Nat
  BY DeliverBounds DEF UsedOK, Fault

LEMMA LostWriteType ==
    ASSUME UsedOK, LostWrite
    PROVE  UsedOK' /\ used'.faults = used.faults + 1 /\ used'.lost = used.lost + 1
           /\ used.faults \in Nat /\ used.lost \in Nat
<1>1. used.faults \in 0..MaxFaults /\ used.lost \in 0..MaxLostWrites /\ MaxFaults \in Nat /\ MaxLostWrites \in Nat
  BY DeliverBounds DEF UsedOK
<1>2. used.faults + 1 \in 0..MaxFaults /\ used.lost + 1 \in 0..MaxLostWrites
  BY <1>1 DEF LostWrite
<1>3. used' = [used EXCEPT !.faults = used.faults + 1, !.lost = used.lost + 1]
  BY DEF LostWrite
<1>4. UsedOK'
  BY <1>2, <1>3 DEF UsedOK
<1>. QED
  BY <1>1, <1>3, <1>4 DEF UsedOK

LEMMA ExtraType ==
    ASSUME UsedOK, NEW e \in Events, used.extra[e] < MaxManual \/ used.extra[e] < MaxReaps,
           used' = [used EXCEPT !.extra[e] = @ + 1]
    PROVE  UsedOK' /\ used'.faults = used.faults /\ used'.lost = used.lost
<1>1. used.extra \in [Events -> 0..(MaxManual + MaxReaps)] /\ MaxManual \in Nat /\ MaxReaps \in Nat
  BY DeliverBounds DEF UsedOK
<1>2. used.extra[e] + 1 \in 0..(MaxManual + MaxReaps)
  BY <1>1
<1>3. [used.extra EXCEPT ![e] = used.extra[e] + 1] \in [Events -> 0..(MaxManual + MaxReaps)]
  BY <1>1, <1>2
<1>4. used' = [used EXCEPT !.extra = [used.extra EXCEPT ![e] = used.extra[e] + 1]]
  OBVIOUS
<1>. QED
  BY <1>3, <1>4 DEF UsedOK

LEMMA BeginType == ASSUME calls \subseteq Calls, NEW c \in Calls, Begin(c) PROVE calls' \subseteq Calls
  BY DEF Begin

LEMMA TrimType == ASSUME HistoryOK, QInv, Trim PROVE HistoryOK'
<1>1. Len(dead) < DeadCap \/ Head(dead).ev \in Events
  <2>. SUFFICES ASSUME ~(Len(dead) < DeadCap) PROVE Head(dead).ev \in Events
    OBVIOUS
  <2>1. dead \in Seq(Payloads) /\ dead # <<>>
    BY CapAssumption DEF QInv, QueueTypeOK
  <2>2. Head(dead) \in Payloads
    BY <2>1
  <2>. QED
    BY <2>2 DEF Payloads
<1>2. excused' \in [overrun: SUBSET Events, trimmed: SUBSET Events]
  BY <1>1 DEF HistoryOK, Trim
<1>. QED
  BY <1>2 DEF HistoryOK, Trim

\* What the steps of a worker are.
WorkerStep(w) == Process(w) \/ RecordAttemptFails(w) \/ Panic(w) \/ Abandon(w)

\* Events with a copy in a list or in the scheduled set.
Waits == {e \in Events : Waiting(e)}

LEMMA WaitsKept == ASSUME KeepsWaiting PROVE Waits \subseteq Waits'
  BY DEF KeepsWaiting, Waits, Waiting

LEMMA WaitsAdded == ASSUME NEW e \in Events, Waiting(e)' PROVE e \in Waits'
  BY DEF Waits, Waiting

LEMMA ScheduleWaits ==
    ASSUME QInv, NEW p \in Payloads, Schedule(p) PROVE QInv' /\ Waits \subseteq Waits' /\ p.ev \in Waits'
<1>1. QInv' /\ KeepsWaiting /\ Waiting(p.ev)' /\ p.ev \in Events
  BY ScheduleLemma DEF Payloads
<1>. QED
  BY <1>1, WaitsKept, WaitsAdded

\* Schedule for what a worker holds.
LEMMA RescheduleType ==
    ASSUME TypeInv, NEW w \in Workers, pc[w] # "pick", Defer(w) \/ Retry(w)
    PROVE  QInv' /\ Waits \subseteq Waits' /\ Ev(w) \in Waits' /\ UNCHANGED <<processing, expired, dead>>
<1>0. QInv /\ WorkersOK
  BY DEF TypeInv
<1>1. hold[w].evt \in Payloads /\ hold[w].evt.attempt \in 0..MaxAttempt
  BY <1>0, HoldType
<1>2. PICK p \in Payloads : Schedule(p) /\ p.ev = Ev(w)
  <2>1. CASE Defer(w)
    <3>1. PICK at \in Stamps : Schedule([hold[w].evt EXCEPT !.at = at])
      BY <2>1 DEF Defer
    <3>2. [hold[w].evt EXCEPT !.at = at] \in Payloads /\ [hold[w].evt EXCEPT !.at = at].ev = Ev(w)
      BY <1>1 DEF Payloads, Ev
    <3>. QED
      BY <3>1, <3>2
  <2>2. CASE Retry(w)
    <3>. DEFINE p == [hold[w].evt EXCEPT !.attempt = @ + 1]
    <3>1. hold[w].evt.attempt + 1 \in 0..MaxAttempt
      BY <1>0, <1>1, <2>2, RetriesAssumption, AttemptAssumption DEF Retry, WorkersOK
    <3>2. p \in Payloads /\ p.ev = Ev(w)
      BY <1>1, <3>1 DEF Payloads, Ev
    <3>. QED
      BY <2>2, <3>2 DEF Retry
  <2>. QED
    BY <2>1, <2>2
<1>3. QInv' /\ Waits \subseteq Waits' /\ p.ev \in Waits'
  BY <1>0, <1>2, ScheduleWaits
<1>. QED
  BY <1>2, <1>3 DEF Schedule

LEMMA WorkerType == ASSUME TypeInv, NEW w \in Workers, WorkerStep(w) PROVE TypeInv'
<1>0. QInv /\ TablesOK /\ WorkersOK /\ calls \subseteq Calls /\ HistoryOK /\ UsedOK
  BY DEF TypeInv
<1>. USE DEF tables, workers, history
<1>q. /\ UNCHANGED queueVars => QInv'
      /\ UNCHANGED tables => TablesOK'
      /\ UNCHANGED history => HistoryOK'
      /\ UNCHANGED used => UsedOK'
      /\ UNCHANGED calls => calls' \subseteq Calls
  BY <1>0 DEF queueVars, QInv, QueueTypeOK, RingMatchesPending, TablesOK, HistoryOK, UsedOK
<1>p. QInv' /\ TablesOK' /\ WorkersOK' /\ calls' \subseteq Calls /\ HistoryOK' /\ UsedOK' => TypeInv'
  BY DEF TypeInv
<1>h. pc[w] # "pick" => hold[w] \in Members /\ Ev(w) \in Events
  BY <1>0, HoldType
<1>r. row \in [Workers -> Nat] /\ out \in [Workers -> Outcomes]
  BY <1>0 DEF WorkersOK
<1>g. ASSUME pc[w] # "pick", NEW label \in Labels \ {"pick", "retry"}, Goto(w, label),
             UNCHANGED hold, row' \in [Workers -> Nat], out' \in [Workers -> Outcomes]
      PROVE  WorkersOK'
  BY <1>0, <1>g, GotoType
<1>1. CASE Pick(w)
  <2>1. PICK tok \in Fresh :
           /\ FairPick(tok)
           /\ hold' = [hold EXCEPT ![w] = [tok |-> tok, evt |-> Head(pending[Head(ring)])]]
    BY <1>1 DEF Pick
  <2>2. tok \in Tokens
    BY DEF Fresh
  <2>3. QInv' /\ Head(pending[Head(ring)]) \in Payloads
    BY <1>0, <2>1, <2>2, FairPickLemma
  <2>. DEFINE new == [tok |-> tok, evt |-> Head(pending[Head(ring)])]
  <2>4. new \in Members /\ new # NoMember
    BY <2>2, <2>3, DeliverNoMember DEF Members
  <2>. HIDE DEF new
  <2>5. hold' = [hold EXCEPT ![w] = new] /\ pc' = [pc EXCEPT ![w] = "load"] /\ UNCHANGED <<row, out>>
    BY <1>1, <2>1 DEF Pick, Goto, new
  <2>6. WorkersOK'
    BY <1>0, <2>4, <2>5 DEF WorkersOK, Labels
  <2>. QED
    BY <1>1, <1>p, <1>q, <2>3, <2>6 DEF Pick
<1>2. CASE Load(w)
  <2>1. row' \in [Workers -> Nat]
    <3>1. count[Ev(w)] \in Nat
      BY <1>0, <1>2, <1>h DEF TablesOK, Load
    <3>. QED
      BY <1>2, <1>r, <3>1 DEF Load
  <2>2. WorkersOK'
    BY <1>2, <1>g, <1>r, <2>1 DEF Load, Labels
  <2>. QED
    BY <1>2, <1>p, <1>q, <2>2 DEF Load
<1>3. CASE Undeliverable(w)
  <2>1. out' \in [Workers -> Outcomes]
    BY <1>3, <1>r DEF Undeliverable, Outcomes
  <2>2. WorkersOK'
    BY <1>3, <1>g, <1>r, <2>1 DEF Undeliverable, Labels
  <2>3. HistoryOK'
    BY <1>0, <1>3 DEF Undeliverable, HistoryOK
  <2>. QED
    BY <1>3, <1>p, <1>q, <2>2, <2>3 DEF Undeliverable
<1>4. CASE Defer(w) \/ Retry(w)
  <2>1. pc[w] # "pick" /\ WorkersOK'
    BY <1>4, <1>g, <1>r DEF Defer, Retry, Labels
  <2>2. QInv'
    BY <1>4, <2>1, RescheduleType
  <2>. QED
    BY <1>4, <1>p, <1>q, <2>1, <2>2 DEF Defer, Retry
<1>5. CASE MarkEventInFlight(w)
  <2>1. pc[w] # "pick" /\ WorkersOK'
    BY <1>5, <1>g, <1>r DEF MarkEventInFlight, Labels
  <2>2. TablesOK'
    BY <1>0, <1>5, <1>h, <2>1 DEF MarkEventInFlight, TablesOK, SetStatus, Statuses
  <2>3. HistoryOK'
    BY <1>0, <1>5 DEF MarkEventInFlight, HistoryOK
  <2>. QED
    BY <1>5, <1>p, <1>q, <2>1, <2>2, <2>3 DEF MarkEventInFlight
<1>6. CASE Prepare(w)
  <2>1. out' \in [Workers -> Outcomes]
    BY <1>6, <1>r DEF Prepare, Outcomes
  <2>2. WorkersOK'
    BY <1>6, <1>g, <1>r, <2>1 DEF Prepare, Labels
  <2>. QED
    BY <1>6, <1>p, <1>q, <2>2 DEF Prepare
<1>7. CASE MarkEventFiltered(w) \/ MarkEventDelivered(w) \/ MarkEventFailed(w)
  <2>1. pc[w] # "pick" /\ WorkersOK'
    BY <1>7, <1>g, <1>r DEF MarkEventFiltered, MarkEventDelivered, MarkEventFailed, Labels
  <2>2. TablesOK'
    BY <1>0, <1>7, <1>h, <1>q, <2>1, SetStatusType
    DEF MarkEventFiltered, MarkEventDelivered, MarkEventFailed, Statuses, Terminal
  <2>3. UsedOK'
    BY <1>0, <1>7, <1>q, LostWriteType DEF MarkEventFiltered, MarkEventDelivered, MarkEventFailed
  <2>. QED
    BY <1>7, <1>p, <1>q, <2>1, <2>2, <2>3 DEF MarkEventFiltered, MarkEventDelivered, MarkEventFailed
<1>8. CASE Send(w)
  <2>1. out' \in [Workers -> Outcomes]
    BY <1>8, <1>r DEF Send, Outcomes
  <2>2. WorkersOK'
    BY <1>8, <1>g, <1>r, <2>1 DEF Send, Labels
  <2>3. HistoryOK'
    BY <1>0, <1>8, <1>h DEF Send, HistoryOK
  <2>. QED
    BY <1>8, <1>p, <1>q, <2>2, <2>3 DEF Send
<1>9. CASE RecordAttempt(w) \/ RecordAttemptFails(w)
  <2>1. pc[w] # "pick" /\ Goto(w, AfterRecord(w)) /\ UNCHANGED <<hold, row, out>>
    BY <1>9 DEF RecordAttempt, RecordAttemptFails
  <2>2. /\ AfterRecord(w) \in Labels \ {"pick"}
        /\ AfterRecord(w) = "retry" => hold[w].evt.attempt + 1 <= MaxRetries
    <3>1. hold[w].evt.attempt \in Int /\ MaxRetries \in Int
      BY <1>0, <2>1, HoldType, RetriesAssumption, AttemptAssumption
    <3>. QED
      BY <3>1 DEF AfterRecord, Labels
  <2>3. WorkersOK'
    BY <1>0, <1>r, <2>1, <2>2, GotoType
  <2>4. CASE RecordAttempt(w)
    <3>1. row[w] + 1 \in Nat \ {0}
      BY <1>r
    <3>2. TablesOK'
      BY <1>0, <1>h, <2>1, <2>4, <3>1 DEF RecordAttempt, TablesOK
    <3>3. HistoryOK'
      BY <1>0, <1>h, <2>1, <2>4 DEF RecordAttempt, HistoryOK
    <3>. QED
      BY <2>4, <1>p, <1>q, <2>3, <3>2, <3>3 DEF RecordAttempt
  <2>5. CASE RecordAttemptFails(w)
    BY <1>0, <2>5, <1>p, <1>q, <2>3, FaultType DEF RecordAttemptFails
  <2>. QED
    BY <1>9, <2>4, <2>5
<1>10. CASE Bury(w)
  <2>1. pc[w] # "pick" /\ WorkersOK'
    BY <1>0, <1>10, FreeType DEF Bury
  <2>2. QInv' /\ HistoryOK'
    BY <1>0, <1>10, <1>h, <2>1, DeadLetterLemma, TrimType DEF Bury
  <2>. QED
    BY <1>10, <1>p, <1>q, <2>1, <2>2 DEF Bury
<1>11. CASE AckStep(w)
  <2>1. WorkersOK'
    BY <1>0, <1>11, FreeType DEF AckStep
  <2>2. QInv'
    BY <1>0, <1>11, AckLemma DEF AckStep
  <2>. QED
    BY <1>11, <1>p, <1>q, <2>1, <2>2 DEF AckStep
<1>12. CASE Panic(w)
  <2>1. WorkersOK'
    BY <1>12, <1>g, <1>r DEF Panic, Labels
  <2>. QED
    BY <1>0, <1>12, <1>p, <1>q, <2>1, FaultType DEF Panic
<1>13. CASE PanicBury(w)
  <2>1. pc[w] # "pick" /\ WorkersOK'
    BY <1>13, <1>g, <1>r DEF PanicBury, Labels
  <2>2. QInv' /\ HistoryOK' /\ UsedOK'
    BY <1>0, <1>13, <1>h, <1>q, <2>1, DeadLetterLemma, TrimType, FaultType DEF PanicBury
  <2>. QED
    BY <1>13, <1>p, <1>q, <2>1, <2>2 DEF PanicBury
<1>14. CASE PanicFail(w)
  <2>1. pc[w] # "pick" /\ WorkersOK'
    BY <1>0, <1>14, FreeType DEF PanicFail
  <2>2. TablesOK' /\ UsedOK'
    BY <1>0, <1>14, <1>h, <1>q, <2>1, SetStatusType, LostWriteType DEF PanicFail, Statuses, Terminal
  <2>. QED
    BY <1>14, <1>p, <1>q, <2>1, <2>2 DEF PanicFail
<1>15. CASE Abandon(w)
  BY <1>0, <1>15, <1>p, <1>q, FreeType, FaultType DEF Abandon
<1>. QED
  BY <1>1, <1>2, <1>3, <1>4, <1>5, <1>6, <1>7, <1>8, <1>9, <1>10, <1>11, <1>12, <1>13, <1>14, <1>15
  DEF WorkerStep, Process

\* Everything else.
OtherStep ==
    \/ \E e \in Events : CreateEvent(e) \/ RetryEvent(e) \/ ClaimStuck(e) \/ DeleteEvent(e) \/ Ages(e)
    \/ AdminRequeueDead
    \/ \E c \in calls : CallEnqueue(c) \/ CallMarkQueued(c) \/ CallFails(c)
    \/ Mover \/ Recoverer \/ LeaseOverrun
    \/ \E p \in Payloads : TimeReaches(p)
    \/ \E t \in Tokens : OrphanExpires(t)

LEMMA NextSplit == Next <=> (\E w \in Workers : WorkerStep(w)) \/ OtherStep
  BY DEF Next, WorkerStep, OtherStep

\* The console's requeue.
LEMMA RequeueParts ==
    ASSUME TypeInv, AdminRequeueDead
    PROVE  \E e \in Events, i \in DOMAIN dead, at \in Stamps :
              /\ e = dead[i].ev /\ RequeueDead(i, at)
              /\ used.extra[e] < MaxManual /\ used' = [used EXCEPT !.extra[e] = @ + 1]
              /\ grants' = [grants EXCEPT ![e] = @ + 1]
              /\ requeued' = IF Writing(e) THEN requeued ELSE requeued \cup {e}
              /\ Begin([do |-> "markQueued", ev |-> e, attempt |-> 0])
              /\ UNCHANGED <<tables, workers, sends, dropped, excused>>
<1>1. \A i \in DOMAIN dead : dead[i] \in Payloads
  BY DEF TypeInv, QInv, QueueTypeOK
<1>2. \A i \in DOMAIN dead : dead[i].ev \in Events
  BY <1>1 DEF Payloads
<1>. QED
  BY <1>2 DEF AdminRequeueDead

LEMMA OtherQueue == ASSUME TypeInv, OtherStep PROVE QInv' /\ Waits \subseteq Waits'
<1>0. QInv /\ calls \subseteq Calls
  BY DEF TypeInv
<1>. SUFFICES QInv' /\ KeepsWaiting
  BY WaitsKept
<1>1. CASE UNCHANGED queueVars
  BY <1>0, <1>1 DEF queueVars, QInv, QueueTypeOK, RingMatchesPending, KeepsWaiting, Waiting
<1>2. CASE AdminRequeueDead
  BY <1>0, <1>2, RequeueParts, RequeueDeadLemma
<1>3. ASSUME NEW c \in calls, CallEnqueue(c) PROVE QInv' /\ KeepsWaiting
  <2>1. PICK at \in Stamps : Enqueue([ev |-> c.ev, at |-> at, attempt |-> c.attempt])
    BY <1>3 DEF CallEnqueue
  <2>2. [ev |-> c.ev, at |-> at, attempt |-> c.attempt] \in Payloads
    BY <1>0 DEF Calls, Payloads
  <2>. QED
    BY <1>0, <2>1, <2>2, EnqueueLemma
<1>4. CASE Mover
  BY <1>0, <1>4, PromoteDueLemma DEF Mover
<1>5. CASE Recoverer
  BY <1>0, <1>5, RecoverLemma DEF Recoverer
<1>6. ASSUME NEW p \in Payloads, TimeReaches(p) PROVE QInv' /\ KeepsWaiting
  BY <1>0, <1>6, BecomeDueLemma DEF TimeReaches
<1>7. ASSUME NEW m, LeaseExpires(m) PROVE QInv' /\ KeepsWaiting
  BY <1>0, <1>7, LeaseExpiresLemma
<1>. QED
  BY <1>1, <1>2, <1>3, <1>4, <1>5, <1>6, <1>7
  DEF OtherStep, CreateEvent, RetryEvent, ClaimStuck, DeleteEvent, Ages, CallMarkQueued, CallFails,
      LeaseOverrun, OrphanExpires

LEMMA OtherType == ASSUME TypeInv, OtherStep PROVE TypeInv'
<1>0. QInv /\ TablesOK /\ WorkersOK /\ calls \subseteq Calls /\ HistoryOK /\ UsedOK /\ MaxAttempt \in Nat
  BY AttemptAssumption DEF TypeInv
<1>. USE DEF tables, workers, history, rest
<1>q. /\ QInv'
      /\ UNCHANGED tables => TablesOK'
      /\ UNCHANGED workers => WorkersOK'
      /\ UNCHANGED history => HistoryOK'
      /\ UNCHANGED used => UsedOK'
  BY <1>0, OtherQueue DEF TablesOK, HistoryOK, UsedOK, WorkersOK
<1>p. QInv' /\ TablesOK' /\ WorkersOK' /\ calls' \subseteq Calls /\ HistoryOK' /\ UsedOK' => TypeInv'
  BY DEF TypeInv
<1>1. ASSUME NEW e \in Events, CreateEvent(e) PROVE TypeInv'
  <2>1. TablesOK'
    BY <1>0, <1>1 DEF CreateEvent, TablesOK, Statuses
  <2>2. [do |-> "ingest", ev |-> e, attempt |-> 0] \in Calls
    BY <1>0 DEF Calls
  <2>. QED
    BY <1>0, <1>1, <1>p, <1>q, <2>1, <2>2, BeginType DEF CreateEvent
<1>2. ASSUME NEW e \in Events, RetryEvent(e) PROVE TypeInv'
  <2>1. TablesOK'
    BY <1>0, <1>2, SetStatusType DEF RetryEvent, Statuses
  <2>2. [do |-> "manual", ev |-> e, attempt |-> 0] \in Calls
    BY <1>0 DEF Calls
  <2>3. UsedOK'
    BY <1>0, <1>2, ExtraType DEF RetryEvent
  <2>. QED
    BY <1>0, <1>2, <1>p, <1>q, <2>1, <2>2, <2>3, BeginType DEF RetryEvent
<1>3. ASSUME NEW e \in Events, ClaimStuck(e) PROVE TypeInv'
  <2>1. TablesOK'
    BY <1>0, <1>3, SetStatusType DEF ClaimStuck, Statuses
  <2>2. count[e] \in Nat
    BY <1>0 DEF TablesOK
  <2>3. [do |-> "reap", ev |-> e, attempt |-> IF count[e] > MaxAttempt THEN MaxAttempt ELSE count[e]] \in Calls
    BY <1>0, <2>2 DEF Calls
  <2>4. UsedOK'
    BY <1>0, <1>3, ExtraType DEF ClaimStuck
  <2>. QED
    BY <1>0, <1>3, <1>p, <1>q, <2>1, <2>3, <2>4, BeginType DEF ClaimStuck
<1>4. ASSUME NEW e \in Events, DeleteEvent(e) PROVE TypeInv'
  <2>1. TablesOK'
    BY <1>0, <1>4 DEF DeleteEvent, TablesOK, Statuses
  <2>2. UsedOK'
    BY <1>0, <1>4, ExtraType DEF DeleteEvent
  <2>. QED
    BY <1>0, <1>4, <1>p, <1>q, <2>1, <2>2 DEF DeleteEvent
<1>5. ASSUME NEW e \in Events, Ages(e) PROVE TypeInv'
  <2>1. TablesOK'
    BY <1>0, <1>5 DEF Ages, TablesOK
  <2>. QED
    BY <1>0, <1>5, <1>p, <1>q, <2>1 DEF Ages
<1>6. CASE AdminRequeueDead
  <2>1. PICK e \in Events, i \in DOMAIN dead, at \in Stamps :
              /\ used.extra[e] < MaxManual /\ used' = [used EXCEPT !.extra[e] = @ + 1]
              /\ grants' = [grants EXCEPT ![e] = @ + 1]
              /\ requeued' = IF Writing(e) THEN requeued ELSE requeued \cup {e}
              /\ Begin([do |-> "markQueued", ev |-> e, attempt |-> 0])
              /\ UNCHANGED <<tables, workers, sends, dropped, excused>>
    BY <1>6, RequeueParts
  <2>2. [do |-> "markQueued", ev |-> e, attempt |-> 0] \in Calls
    BY <1>0 DEF Calls
  <2>3. HistoryOK'
    BY <1>0, <2>1 DEF HistoryOK
  <2>4. UsedOK'
    BY <1>0, <2>1, ExtraType
  <2>. QED
    BY <1>0, <1>p, <1>q, <2>1, <2>2, <2>3, <2>4, BeginType
<1>7. ASSUME NEW c \in calls, CallEnqueue(c) PROVE TypeInv'
  <2>1. c.ev \in Events
    BY <1>0 DEF Calls
  <2>2. HistoryOK'
    BY <1>0, <1>7, <2>1 DEF CallEnqueue, HistoryOK
  <2>. QED
    BY <1>0, <1>7, <1>p, <1>q, <2>2 DEF CallEnqueue
<1>8. ASSUME NEW c \in calls, CallMarkQueued(c) PROVE TypeInv'
  <2>1. c.ev \in Events
    BY <1>0 DEF Calls
  <2>2. TablesOK' /\ UsedOK'
    BY <1>0, <1>8, <1>q, <2>1, SetStatusType, LostWriteType DEF CallMarkQueued, Statuses
  <2>. QED
    BY <1>0, <1>8, <1>p, <1>q, <2>2 DEF CallMarkQueued
<1>9. ASSUME NEW c \in calls, CallFails(c) PROVE TypeInv'
  BY <1>0, <1>9, <1>p, <1>q, FaultType DEF CallFails
<1>10. CASE LeaseOverrun
  <2>1. PICK m \in processing : excused' = [excused EXCEPT !.overrun = @ \cup {m.evt.ev}]
    BY <1>10 DEF LeaseOverrun
  <2>2. m.evt.ev \in Events
    BY <1>0 DEF QInv, QueueTypeOK, Members, Payloads
  <2>3. excused' \in [overrun: SUBSET Events, trimmed: SUBSET Events]
    BY <1>0, <2>1, <2>2 DEF HistoryOK
  <2>4. HistoryOK'
    BY <1>0, <1>10, <2>3 DEF HistoryOK, LeaseOverrun
  <2>. QED
    BY <1>0, <1>10, <1>p, <1>q, <2>4, FaultType DEF LeaseOverrun
<1>11. CASE UNCHANGED <<rest, used>>
  BY <1>0, <1>11, <1>p, <1>q
<1>. QED
  BY <1>1, <1>2, <1>3, <1>4, <1>5, <1>6, <1>7, <1>8, <1>9, <1>10, <1>11
  DEF OtherStep, Mover, Recoverer, TimeReaches, OrphanExpires

LEMMA TypeStep == TypeInv /\ [Next]_vars => TypeInv'
<1>. SUFFICES ASSUME TypeInv, [Next]_vars PROVE TypeInv'
  OBVIOUS
<1>1. CASE UNCHANGED vars
  BY <1>1 DEF vars, queueVars, tables, workers, history, TypeInv, QInv, QueueTypeOK, RingMatchesPending,
     TablesOK, WorkersOK, HistoryOK, UsedOK
<1>. QED
  BY <1>1, NextSplit, WorkerType, OtherType

LEMMA TypeInit == Init => TypeInv
<1>. SUFFICES ASSUME Init PROVE TypeInv
  OBVIOUS
<1>1. QInv
  BY QueueInitLemma DEF Init
<1>2. TablesOK /\ HistoryOK
  BY DEF Init, TablesOK, HistoryOK, Statuses
<1>3. WorkersOK
  BY DEF Init, WorkersOK, Labels, Outcomes
<1>4. UsedOK
  <2>1. 0 \in 0..MaxFaults /\ 0 \in 0..MaxLostWrites /\ 0 \in 0..(MaxManual + MaxReaps)
    BY DeliverBounds
  <2>. QED
    BY <2>1 DEF Init, UsedOK
<1>. QED
  BY <1>1, <1>2, <1>3, <1>4 DEF Init, TypeInv

-----------------------------------------------------------------------------
(* Who holds what. *)

\* Only one worker moves, and it picks, goes on with what it holds, or stops.
LEMMA OneMoves ==
    ASSUME TypeInv, NEW w \in Workers, WorkerStep(w)
    PROVE  /\ \A v \in Workers \ {w} : pc'[v] = pc[v] /\ hold'[v] = hold[v]
           /\ \/ Pick(w) /\ pc[w] = "pick" /\ pc'[w] = "load"
              \/ pc[w] # "pick" /\ pc'[w] # "pick" /\ hold'[w] = hold[w]
              \/ pc[w] # "pick" /\ pc'[w] = "pick" /\ hold'[w] = NoMember
<1>0. pc \in [Workers -> Labels] /\ hold \in [Workers -> Members \cup {NoMember}]
  BY DEF TypeInv, WorkersOK
<1>1. CASE Pick(w)
  BY <1>0, <1>1 DEF Pick, Goto
<1>2. ASSUME Free(w), pc[w] # "pick"
      PROVE  /\ \A v \in Workers \ {w} : pc'[v] = pc[v] /\ hold'[v] = hold[v]
             /\ pc'[w] = "pick" /\ hold'[w] = NoMember
  BY <1>0, <1>2 DEF Free, Goto
<1>3. ASSUME NEW label \in Labels \ {"pick"}, Goto(w, label), UNCHANGED hold
      PROVE  /\ \A v \in Workers \ {w} : pc'[v] = pc[v] /\ hold'[v] = hold[v]
             /\ pc'[w] # "pick" /\ hold'[w] = hold[w]
  BY <1>0, <1>3 DEF Goto
<1>4. AfterRecord(w) \in Labels \ {"pick"}
  BY DEF AfterRecord, Labels
<1>5. CASE Bury(w) \/ AckStep(w) \/ PanicFail(w) \/ Abandon(w)
  BY <1>2, <1>5 DEF Bury, AckStep, PanicFail, Abandon
<1>6. CASE Load(w) \/ Undeliverable(w) \/ Defer(w) \/ MarkEventInFlight(w) \/ Prepare(w)
           \/ MarkEventFiltered(w) \/ Send(w)
  BY <1>3, <1>6 DEF Load, Undeliverable, Defer, MarkEventInFlight, Prepare, MarkEventFiltered, Send, Labels
<1>7. CASE RecordAttempt(w) \/ RecordAttemptFails(w)
  BY <1>3, <1>4, <1>7 DEF RecordAttempt, RecordAttemptFails
<1>8. CASE MarkEventDelivered(w) \/ MarkEventFailed(w) \/ Retry(w) \/ PanicBury(w) \/ Panic(w)
  BY <1>3, <1>8 DEF MarkEventDelivered, MarkEventFailed, Retry, PanicBury, Panic, Labels
<1>. QED
  BY <1>1, <1>5, <1>6, <1>7, <1>8 DEF WorkerStep, Process

\* Marks and counts of disturbances are never taken back.
LEMMA MarksGrow ==
    ASSUME TypeInv, [Next]_vars
    PROVE  /\ excused.overrun \subseteq excused'.overrun /\ excused.trimmed \subseteq excused'.trimmed
           /\ used.faults \in Nat /\ used'.faults \in Nat /\ used'.faults >= used.faults
           /\ used.lost \in Nat /\ used'.lost \in Nat /\ used'.lost >= used.lost
<1>0. UsedOK /\ HistoryOK /\ used.faults \in Nat /\ used.lost \in Nat
  BY DeliverBounds DEF TypeInv, UsedOK
<1>1. excused.overrun \subseteq excused'.overrun /\ excused.trimmed \subseteq excused'.trimmed
  <2>1. CASE excused' = excused
    BY <2>1
  <2>2. CASE Trim
    BY <1>0, <2>2 DEF Trim, HistoryOK
  <2>3. ASSUME NEW x, excused' = [excused EXCEPT !.overrun = @ \cup {x}]
        PROVE  excused.overrun \subseteq excused'.overrun /\ excused.trimmed \subseteq excused'.trimmed
    BY <1>0, <2>3 DEF HistoryOK
  <2>4. CASE LeaseOverrun
    BY <2>3, <2>4 DEF LeaseOverrun
  <2>5. CASE OtherStep /\ ~LeaseOverrun
    BY <2>1, <2>5 DEF OtherStep, CreateEvent, RetryEvent, ClaimStuck, DeleteEvent, Ages, AdminRequeueDead,
       CallEnqueue, CallMarkQueued, CallFails, Mover, Recoverer, TimeReaches, OrphanExpires, rest, history
  <2>6. ASSUME NEW w \in Workers, WorkerStep(w)
        PROVE  excused.overrun \subseteq excused'.overrun /\ excused.trimmed \subseteq excused'.trimmed
    BY <2>1, <2>2, <2>6 DEF WorkerStep, Process, Pick, Load, Undeliverable, Defer, MarkEventInFlight,
       Prepare, MarkEventFiltered, Send, RecordAttempt, MarkEventDelivered, MarkEventFailed, Bury, Retry,
       AckStep, PanicBury, PanicFail, RecordAttemptFails, Panic, Abandon, history
  <2>. QED
    BY <2>1, <2>4, <2>5, <2>6, NextSplit DEF vars, history
<1>2. used'.faults \in Nat /\ used'.faults >= used.faults /\ used'.lost \in Nat /\ used'.lost >= used.lost
  <2>1. CASE used' = used
    BY <1>0, <2>1
  <2>2. CASE Fault
    BY <1>0, <2>2, FaultType
  <2>3. CASE LostWrite
    BY <1>0, <2>3, LostWriteType
  <2>4. ASSUME NEW e \in Events, RetryEvent(e) \/ ClaimStuck(e) \/ DeleteEvent(e)
        PROVE  used'.faults = used.faults /\ used'.lost = used.lost
    BY <1>0, <2>4, ExtraType DEF RetryEvent, ClaimStuck, DeleteEvent
  <2>5. ASSUME AdminRequeueDead PROVE used'.faults = used.faults /\ used'.lost = used.lost
    <3>1. PICK e \in Events : used.extra[e] < MaxManual /\ used' = [used EXCEPT !.extra[e] = @ + 1]
      BY <2>5, RequeueParts
    <3>. QED
      BY <1>0, <3>1, ExtraType
  <2>6. CASE OtherStep
    <3>1. \/ used' = used \/ Fault \/ LostWrite \/ AdminRequeueDead
          \/ \E e \in Events : RetryEvent(e) \/ ClaimStuck(e) \/ DeleteEvent(e)
      BY <2>6 DEF OtherStep, CreateEvent, Ages, CallEnqueue, CallMarkQueued, CallFails, Mover, Recoverer,
         LeaseOverrun, TimeReaches, OrphanExpires
    <3>2. used'.faults = used.faults /\ used'.lost = used.lost
          => used'.faults \in Nat /\ used'.faults >= used.faults /\ used'.lost \in Nat /\ used'.lost >= used.lost
      BY <1>0
    <3>. QED
      BY <2>1, <2>2, <2>3, <2>4, <2>5, <3>1, <3>2
  <2>7. ASSUME NEW w \in Workers, WorkerStep(w), ~(used' = used \/ Fault \/ LostWrite) PROVE FALSE
    BY <2>7 DEF WorkerStep, Process, Pick, Load, Undeliverable, Defer, MarkEventInFlight,
       Prepare, MarkEventFiltered, Send, RecordAttempt, MarkEventDelivered, MarkEventFailed, Bury, Retry,
       AckStep, PanicBury, PanicFail, RecordAttemptFails, Panic, Abandon
  <2>. QED
    BY <2>1, <2>2, <2>3, <2>6, <2>7, NextSplit DEF vars
<1>. QED
  BY <1>0, <1>1, <1>2

\* Tokens tell the holders apart, and a worker that is not through has its lease or
\* is known to have outlived it.
HoldersOK ==
    /\ \A v, w \in Workers : v # w /\ pc[v] # "pick" /\ pc[w] # "pick" => hold[v].tok # hold[w].tok
    /\ \A w \in Workers : pc[w] \notin {"pick", "panicFail"} =>
          hold[w] \in processing \ expired \/ hold[w].evt.ev \in excused.overrun
    /\ excused.overrun # {} => used.faults > 0

\* A worker's step leaves the leases of others alone.
LEMMA LeaseFrame ==
    ASSUME TypeInv, NEW w \in Workers, WorkerStep(w)
    PROVE  \A m \in processing : m # hold[w] => m \in processing' /\ (m \notin expired => m \notin expired')
<1>1. CASE Pick(w)
  BY <1>1 DEF Pick, FairPick
<1>2. CASE AckStep(w) \/ Bury(w) \/ PanicBury(w)
  BY <1>2 DEF AckStep, Bury, PanicBury, Ack, DeadLetter, queueVars
<1>3. CASE Defer(w) \/ Retry(w)
  BY <1>3 DEF Defer, Retry, Schedule
<1>4. CASE UNCHANGED queueVars
  BY <1>4 DEF queueVars
<1>. QED
  BY <1>1, <1>2, <1>3, <1>4 DEF WorkerStep, Process, Load, Undeliverable, MarkEventInFlight,
     Prepare, MarkEventFiltered, Send, RecordAttempt, MarkEventDelivered, MarkEventFailed,
     PanicFail, RecordAttemptFails, Panic, Abandon

\* It gives up its own where it stops, or on the way to panicFail.
LEMMA OwnLease ==
    ASSUME TypeInv, NEW w \in Workers, WorkerStep(w), pc'[w] \notin {"pick", "panicFail"}, ~Pick(w)
    PROVE  processing' = processing /\ expired' = expired /\ pc[w] # "panicFail"
<1>0. pc \in [Workers -> Labels]
  BY DEF TypeInv, WorkersOK
<1>1. ~(AckStep(w) \/ Bury(w) \/ PanicFail(w) \/ Abandon(w) \/ PanicBury(w))
  BY <1>0 DEF AckStep, Bury, PanicFail, Abandon, PanicBury, Free, Goto
<1>. QED
  BY <1>1 DEF WorkerStep, Process, Load, Undeliverable, MarkEventInFlight, Defer, Retry, Schedule,
     Prepare, MarkEventFiltered, Send, RecordAttempt, MarkEventDelivered, MarkEventFailed,
     RecordAttemptFails, Panic, queueVars

LEMMA OtherLeases ==
    ASSUME TypeInv, OtherStep
    PROVE  /\ pc' = pc /\ hold' = hold
           /\ \A m \in processing : m \in processing' \/ (m \in expired /\ m.evt.ev \in Waits')
           /\ \A m \in processing \ expired :
                 \/ m \in processing' \ expired'
                 \/ m \in processing' /\ (Held(m) => m.evt.ev \in excused'.overrun /\ used'.faults > 0)
<1>0. QInv /\ UsedOK /\ HistoryOK
  BY DEF TypeInv
<1>1. pc' = pc /\ hold' = hold
  BY DEF OtherStep, CreateEvent, RetryEvent, ClaimStuck, DeleteEvent, Ages, AdminRequeueDead,
     CallEnqueue, CallMarkQueued, CallFails, Mover, Recoverer, LeaseOverrun, TimeReaches, OrphanExpires,
     rest, workers
<1>2. ASSUME NEW t \in Tokens, OrphanExpires(t)
      PROVE  /\ processing' = processing
             /\ \A m \in processing \ expired : m \in processing' \ expired' \/ ~Held(m)
  BY <1>2 DEF OrphanExpires, LeaseExpires
<1>3. CASE LeaseOverrun
  <2>1. PICK m \in processing : LeaseExpires(m) /\ excused' = [excused EXCEPT !.overrun = @ \cup {m.evt.ev}]
    BY <1>3 DEF LeaseOverrun
  <2>2. m.evt.ev \in excused'.overrun
    BY <1>0, <2>1 DEF HistoryOK
  <2>3. used'.faults > 0
    BY <1>0, <1>3, FaultType DEF LeaseOverrun
  <2>. QED
    BY <1>1, <2>1, <2>2, <2>3 DEF LeaseExpires
<1>4. CASE Recoverer
  <2>1. processing' = processing \ expired /\ expired' = {}
    BY <1>4 DEF Recoverer, Recover
  <2>2. \A m \in expired : m.evt.ev \in Waits'
    <3>. SUFFICES ASSUME NEW m \in expired PROVE m.evt.ev \in Waits'
      OBVIOUS
    <3>1. m.evt.ev \in Events
      BY <1>0 DEF QInv, QueueTypeOK, Members, Payloads
    <3>2. Waiting(m.evt.ev)'
      BY <1>0, <1>4, RecoverLemma DEF Recoverer
    <3>. QED
      BY <3>1, <3>2, WaitsAdded
  <2>. QED
    BY <1>1, <2>1, <2>2
<1>5. CASE UNCHANGED <<processing, expired>>
  BY <1>1, <1>5
<1>. QED
  BY <1>1, <1>2, <1>3, <1>4, <1>5 DEF OtherStep, CreateEvent, RetryEvent, ClaimStuck, DeleteEvent, Ages,
     AdminRequeueDead, RequeueDead, CallEnqueue, Enqueue, CallMarkQueued, CallFails, Mover, PromoteDue,
     TimeReaches, BecomeDue, queueVars

LEMMA HoldersStep == TypeInv /\ TypeInv' /\ HoldersOK /\ [Next]_vars => HoldersOK'
<1>. SUFFICES ASSUME TypeInv, TypeInv', HoldersOK, [Next]_vars PROVE HoldersOK'
  OBVIOUS
<1>0. WorkersOK /\ WorkersOK' /\ QInv
  BY DEF TypeInv
<1>1. /\ excused.overrun \subseteq excused'.overrun
      /\ used.faults \in Nat /\ used'.faults \in Nat /\ used'.faults >= used.faults
  BY MarksGrow
<1>2. excused'.overrun # {} => used'.faults > 0
  <2>1. CASE LeaseOverrun
    BY <2>1, FaultType DEF LeaseOverrun, TypeInv
  <2>2. CASE ~LeaseOverrun
    <3>1. excused'.overrun = excused.overrun
      <4>1. CASE excused' = excused
        BY <4>1
      <4>2. CASE Trim
        BY <4>2 DEF Trim, TypeInv, HistoryOK
      <4>3. CASE OtherStep
        BY <2>2, <4>1, <4>3 DEF OtherStep, CreateEvent, RetryEvent, ClaimStuck, DeleteEvent, Ages,
           AdminRequeueDead, CallEnqueue, CallMarkQueued, CallFails, Mover, Recoverer, TimeReaches,
           OrphanExpires, rest, history
      <4>4. ASSUME NEW w \in Workers, WorkerStep(w) PROVE excused' = excused \/ Trim
        BY <4>4 DEF WorkerStep, Process, Pick, Load, Undeliverable, Defer, MarkEventInFlight,
           Prepare, MarkEventFiltered, Send, RecordAttempt, MarkEventDelivered, MarkEventFailed, Bury, Retry,
           AckStep, PanicBury, PanicFail, RecordAttemptFails, Panic, Abandon, history
      <4>. QED
        BY <4>1, <4>2, <4>3, <4>4, NextSplit DEF vars, history
    <3>. QED
      BY <1>1, <3>1 DEF HoldersOK
  <2>. QED
    BY <2>1, <2>2
<1>3. ASSUME NEW w \in Workers, WorkerStep(w) PROVE HoldersOK'
  <2>1. /\ \A v \in Workers \ {w} : pc'[v] = pc[v] /\ hold'[v] = hold[v]
        /\ \/ Pick(w) /\ pc[w] = "pick" /\ pc'[w] = "load"
           \/ pc[w] # "pick" /\ pc'[w] # "pick" /\ hold'[w] = hold[w]
           \/ pc[w] # "pick" /\ pc'[w] = "pick" /\ hold'[w] = NoMember
    BY <1>3, OneMoves
  <2>2. CASE Pick(w)
    <3>1. PICK t \in Fresh : FairPick(t) /\ hold' = [hold EXCEPT ![w] = [tok |-> t, evt |-> Head(pending[Head(ring)])]]
      BY <2>2 DEF Pick
    <3>. DEFINE new == [tok |-> t, evt |-> Head(pending[Head(ring)])]
    <3>2. hold'[w] = new /\ new.tok = t
      BY <1>0, <3>1 DEF WorkersOK
    <3>3. processing' = processing \cup {new} /\ expired' = expired
      BY <3>1 DEF FairPick
    <3>. HIDE DEF new
    <3>4. \A v \in Workers \ {w} : pc[v] # "pick" => hold[v].tok # t
      BY <1>0 DEF WorkersOK, Fresh
    <3>5. new \notin expired
      BY <1>0, <3>2 DEF Fresh, QInv, QueueTypeOK
    <3>6. pc[w] = "pick" /\ pc'[w] = "load"
      BY <2>1, <2>2 DEF Pick
    <3>7. \A u, v \in Workers : u # v /\ pc'[u] # "pick" /\ pc'[v] # "pick" => hold'[u].tok # hold'[v].tok
      BY <2>1, <3>2, <3>4 DEF HoldersOK
    <3>8. \A v \in Workers : pc'[v] \notin {"pick", "panicFail"} =>
             hold'[v] \in processing' \ expired' \/ hold'[v].evt.ev \in excused'.overrun
      BY <1>1, <2>1, <3>2, <3>3, <3>5 DEF HoldersOK
    <3>. QED
      BY <1>2, <3>7, <3>8 DEF HoldersOK
  <2>3. CASE ~Pick(w)
    <3>1. \A v \in Workers : pc'[v] # "pick" => hold'[v] = hold[v] /\ pc[v] # "pick"
      BY <2>1, <2>3
    <3>2. \A u, v \in Workers : u # v /\ pc'[u] # "pick" /\ pc'[v] # "pick" => hold'[u].tok # hold'[v].tok
      BY <3>1 DEF HoldersOK
    <3>3. ASSUME NEW v \in Workers, pc'[v] \notin {"pick", "panicFail"}
          PROVE  hold'[v] \in processing' \ expired' \/ hold'[v].evt.ev \in excused'.overrun
      <4>1. hold'[v] = hold[v] /\ pc[v] # "pick"
        BY <3>1, <3>3
      <4>2. CASE v = w
        <5>1. processing' = processing /\ expired' = expired /\ pc[v] # "panicFail"
          BY <1>3, <2>3, <3>3, <4>2, OwnLease
        <5>. QED
          BY <1>1, <4>1, <5>1 DEF HoldersOK
      <4>3. CASE v # w
        <5>1. hold[v] # hold[w] /\ pc[v] # "panicFail"
          BY <2>1, <2>3, <3>3, <4>1, <4>3 DEF HoldersOK
        <5>2. hold[v] \in processing \ expired \/ hold[v].evt.ev \in excused.overrun
          BY <4>1, <5>1 DEF HoldersOK
        <5>. QED
          BY <1>1, <1>3, <4>1, <5>1, <5>2, LeaseFrame
      <4>. QED
        BY <4>2, <4>3
    <3>. QED
      BY <1>2, <3>2, <3>3 DEF HoldersOK
  <2>. QED
    BY <2>2, <2>3
<1>4. ASSUME OtherStep PROVE HoldersOK'
  <2>1. pc' = pc /\ hold' = hold
    BY <1>4, OtherLeases
  <2>2. ASSUME NEW v \in Workers, pc[v] \notin {"pick", "panicFail"}
        PROVE  hold[v] \in processing' \ expired' \/ hold[v].evt.ev \in excused'.overrun
    <3>1. Held(hold[v])
      BY DEF Held
    <3>2. hold[v] \in processing \ expired \/ hold[v].evt.ev \in excused.overrun
      BY <2>2 DEF HoldersOK
    <3>. QED
      BY <1>1, <1>4, <3>1, <3>2, OtherLeases
  <2>. QED
    BY <1>2, <2>1, <2>2 DEF HoldersOK
<1>5. CASE UNCHANGED vars
  BY <1>5 DEF vars, queueVars, workers, history, HoldersOK
<1>. QED
  BY <1>3, <1>4, <1>5, NextSplit

-----------------------------------------------------------------------------
(* InFlightOwned.  Engaged(e) is too weak to be kept: a worker at panicFail  *)
(* has nothing left to give when it dies.  Minded leaves such workers out.   *)

Doomed == {hold[w] : w \in {v \in Workers : pc[v] \in {"ack", "bury"}}}
Safe == Waits \cup {e \in Events : \E m \in processing : m.evt.ev = e /\ m \notin Doomed}
Minders == {"run", "record", "deliver", "fail", "bury", "retry", "panic"}
Minded == {hold[w].evt.ev : w \in {v \in Workers : pc[v] \in Minders}}
Buried == {dead[i].ev : i \in DOMAIN dead}
Excused == excused.trimmed \cup {e \in excused.overrun : used.faults > 1}
InFlight == {e \in Events : status[e] = "in_flight" /\ used.lost = 0}

Kept == InFlight \subseteq Safe \cup Minded \cup Buried \cup Excused

LEMMA KeptSuffices == ASSUME TypeInv, Kept PROVE InFlightOwned
<1>. SUFFICES ASSUME NEW e \in Events, status[e] = "in_flight" /\ used.lost = 0
              PROVE  \/ Secure(e) \/ Engaged(e) \/ \E i \in DOMAIN dead : dead[i].ev = e
                     \/ e \in excused.trimmed \/ (e \in excused.overrun /\ used.faults > 1)
  BY DEF InFlightOwned
<1>1. e \in Safe \cup Minded \cup Buried \cup Excused
  BY DEF Kept, InFlight
<1>2. CASE e \in Safe
  BY <1>2 DEF Safe, Doomed, Waits, Secure
<1>3. CASE e \in Minded
  BY <1>3 DEF Minded, Minders, Engaged, Ev
<1>. QED
  BY <1>1, <1>2, <1>3 DEF Buried, Excused

\* An entry leaves the dead list only to be enqueued or because the list is full.
LEMMA DeadLetterBuries ==
    ASSUME QInv, HistoryOK, NEW m \in Members, DeadLetter(m), Trim
    PROVE  m.evt.ev \in Buried' /\ Buried \subseteq Buried' \cup excused'.trimmed
<1>0. dead \in Seq(Payloads) /\ m.evt \in Payloads
  BY DEF QInv, QueueTypeOK, Members
<1>1. CASE Len(dead) < DeadCap
  <2>1. dead' = Append(dead, m.evt)
    BY <1>1 DEF DeadLetter, PushDead
  <2>2. Len(dead) + 1 \in DOMAIN dead' /\ dead'[Len(dead) + 1] = m.evt
    BY <1>0, <2>1
  <2>3. \A i \in DOMAIN dead : i \in DOMAIN dead' /\ dead'[i] = dead[i]
    BY <1>0, <2>1
  <2>. QED
    BY <2>2, <2>3 DEF Buried
<1>2. CASE ~(Len(dead) < DeadCap)
  <2>0. dead # <<>>
    BY <1>0, <1>2, CapAssumption
  <2>1. dead' = Append(Tail(dead), m.evt)
    BY <1>2 DEF DeadLetter, PushDead
  <2>2. Tail(dead) \in Seq(Payloads) /\ Len(Tail(dead)) = Len(dead) - 1
    BY <1>0, <2>0
  <2>3. Len(dead) \in DOMAIN dead' /\ dead'[Len(dead)] = m.evt
    BY <1>0, <2>0, <2>1, <2>2
  <2>4. \A i \in DOMAIN dead : i # 1 => i - 1 \in DOMAIN dead' /\ dead'[i - 1] = dead[i]
    BY <1>0, <2>0, <2>1, <2>2
  <2>5. dead[1].ev \in excused'.trimmed
    BY <1>2, <2>0, <1>0 DEF Trim, HistoryOK
  <2>. QED
    BY <2>3, <2>4, <2>5 DEF Buried
<1>. QED
  BY <1>1, <1>2

LEMMA RequeueUnburies ==
    ASSUME TypeInv, AdminRequeueDead PROVE Buried \subseteq Buried' \cup Waits'
<1>0. QInv /\ dead \in Seq(Payloads)
  BY DEF TypeInv, QInv, QueueTypeOK
<1>1. PICK e \in Events, i \in DOMAIN dead, at \in Stamps : e = dead[i].ev /\ RequeueDead(i, at)
  BY RequeueParts
<1>2. dead' = SubSeq(dead, 1, i - 1) \o SubSeq(dead, i + 1, Len(dead)) /\ i \in 1..Len(dead)
  BY <1>0, <1>1 DEF RequeueDead, FirstDead
<1>3. e \in Waits'
  <2>1. Waiting(e)'
    BY <1>0, <1>1, RequeueDeadLemma
  <2>. QED
    BY <2>1, WaitsAdded
<1>4. ASSUME NEW j \in DOMAIN dead, j # i PROVE \E k \in DOMAIN dead' : dead'[k] = dead[j]
  <2>. DEFINE a == SubSeq(dead, 1, i - 1)
             b == SubSeq(dead, i + 1, Len(dead))
  <2>0. i \in Int /\ j \in Int /\ Len(dead) \in Nat /\ 1 <= i /\ i <= Len(dead) /\ 1 <= j /\ j <= Len(dead)
        /\ \A k \in 1..Len(dead) : dead[k] \in Payloads
    BY <1>0, <1>2
  <2>1. a \in Seq(Payloads) /\ Len(a) = i - 1 /\ \A k \in 1..(i - 1) : a[k] = dead[k]
    <3>1. \A k \in 1..(i - 1) : dead[k] \in Payloads
      BY <2>0
    <3>2. /\ a \in Seq(Payloads) /\ Len(a) = IF 1 <= i - 1 THEN (i - 1) - 1 + 1 ELSE 0
          /\ \A k \in 1..((i - 1) - 1 + 1) : a[k] = dead[1 + k - 1]
      BY <2>0, <3>1, SubSeqProperties
    <3>. QED
      BY <2>0, <3>2
  <2>2. b \in Seq(Payloads) /\ Len(b) = Len(dead) - i /\ \A k \in 1..(Len(dead) - i) : b[k] = dead[i + k]
    <3>1. \A k \in (i + 1)..Len(dead) : dead[k] \in Payloads
      BY <2>0
    <3>2. /\ b \in Seq(Payloads) /\ Len(b) = IF i + 1 <= Len(dead) THEN Len(dead) - (i + 1) + 1 ELSE 0
          /\ \A k \in 1..(Len(dead) - (i + 1) + 1) : b[k] = dead[(i + 1) + k - 1]
      BY <2>0, <3>1, SubSeqProperties
    <3>. QED
      BY <2>0, <3>2
  <2>. HIDE DEF a, b
  <2>3. /\ DOMAIN dead' = 1..(Len(a) + Len(b))
        /\ \A k \in 1..(Len(a) + Len(b)) : dead'[k] = IF k <= Len(a) THEN a[k] ELSE b[k - Len(a)]
    <3>1. dead' = a \o b
      BY <1>2 DEF a, b
    <3>2. /\ a \o b \in Seq(Payloads) /\ Len(a \o b) = Len(a) + Len(b)
          /\ \A k \in 1..(Len(a) + Len(b)) : (a \o b)[k] = IF k <= Len(a) THEN a[k] ELSE b[k - Len(a)]
      BY <2>1, <2>2, ConcatProperties
    <3>. QED
      BY <3>1, <3>2
  <2>4. CASE j < i
    <3>1. j \in 1..(Len(a) + Len(b)) /\ j <= Len(a) /\ j \in 1..(i - 1)
      BY <2>0, <2>1, <2>2, <2>4
    <3>. QED
      BY <2>1, <2>3, <3>1
  <2>5. CASE j > i
    <3>0. Len(a) = i - 1 /\ Len(b) = Len(dead) - i
      BY <2>1, <2>2
    <3>1. j - 1 \in 1..(Len(a) + Len(b)) /\ ~(j - 1 <= Len(a)) /\ (j - 1) - Len(a) = j - i
      BY <2>0, <2>5, <3>0
    <3>2. j - i \in 1..(Len(dead) - i) /\ i + (j - i) = j
      BY <2>0, <2>5
    <3>3. b[j - i] = dead[j]
      BY <2>2, <3>2
    <3>. QED
      BY <2>3, <3>1, <3>3
  <2>. QED
    BY <1>4, <2>0, <2>4, <2>5
<1>. QED
  BY <1>1, <1>3, <1>4 DEF Buried

LEMMA BuriedFrame == ASSUME TypeInv, [Next]_vars PROVE Buried \subseteq Buried' \cup excused'.trimmed \cup Waits'
<1>0. QInv /\ HistoryOK /\ WorkersOK
  BY DEF TypeInv
<1>1. CASE dead' = dead
  BY <1>1 DEF Buried
<1>2. CASE AdminRequeueDead
  BY <1>2, RequeueUnburies
<1>3. ASSUME NEW w \in Workers, Bury(w) \/ PanicBury(w), dead' # dead
      PROVE  Buried \subseteq Buried' \cup excused'.trimmed
  <2>1. hold[w] \in Members
    BY <1>0, <1>3, HoldType DEF Bury, PanicBury
  <2>2. DeadLetter(hold[w]) /\ Trim
    BY <1>3 DEF Bury, PanicBury, queueVars
  <2>. QED
    BY <1>0, <2>1, <2>2, DeadLetterBuries
<1>4. ASSUME NEW w \in Workers, WorkerStep(w), ~(Bury(w) \/ PanicBury(w)) PROVE dead' = dead
  BY <1>4 DEF WorkerStep, Process, Pick, FairPick, Load, Undeliverable, Defer, Retry, Schedule, AckStep, Ack,
     MarkEventInFlight, Prepare, MarkEventFiltered, Send, RecordAttempt, MarkEventDelivered,
     MarkEventFailed, PanicFail, RecordAttemptFails, Panic, Abandon, queueVars
<1>5. ASSUME OtherStep, ~AdminRequeueDead PROVE dead' = dead
  BY <1>5 DEF OtherStep, CreateEvent, RetryEvent, ClaimStuck, DeleteEvent, Ages, CallEnqueue, Enqueue,
     CallMarkQueued, CallFails, Mover, PromoteDue, Recoverer, Recover, LeaseOverrun, LeaseExpires,
     TimeReaches, BecomeDue, OrphanExpires, queueVars
<1>. QED
  BY <1>1, <1>2, <1>3, <1>4, <1>5, NextSplit DEF vars, queueVars

\* An event that a step has nothing to do with, as far as Kept goes.
LEMMA KeptFrame ==
    ASSUME TypeInv, Kept, [Next]_vars, NEW e \in Events,
           e \in InFlight' => e \in InFlight,
           e \in Safe => e \in Safe', e \in Minded => e \in Minded'
    PROVE  e \in InFlight' => e \in Safe' \cup Minded' \cup Buried' \cup Excused'
<1>1. e \in Excused => e \in Excused'
  BY MarksGrow DEF Excused
<1>2. e \in Buried => e \in Buried' \cup Excused' \cup Safe'
  BY BuriedFrame DEF Excused, Safe
<1>. QED
  BY <1>1, <1>2 DEF Kept

\* Steps outside the workers mark no row in_flight and take no copy away.
LEMMA KeptOther == ASSUME TypeInv, Kept, [Next]_vars, OtherStep PROVE Kept'
<1>. SUFFICES ASSUME NEW e \in Events, e \in InFlight'
              PROVE  e \in Safe' \cup Minded' \cup Buried' \cup Excused'
  BY DEF Kept, InFlight
<1>0. /\ pc' = pc /\ hold' = hold
      /\ \A m \in processing : m \in processing' \/ (m \in expired /\ m.evt.ev \in Waits')
  BY OtherLeases
<1>1. Doomed' = Doomed /\ Minded' = Minded
  BY <1>0 DEF Doomed, Minded
<1>2. e \in InFlight
  <2>1. status'[e] = "in_flight" => status[e] = "in_flight"
    <3>0. status \in [Events -> Statuses] /\ calls \subseteq Calls
      BY DEF TypeInv, TablesOK
    <3>1. CASE status' = status
      BY <3>1
    <3>2. ASSUME NEW x \in Events, NEW s, s # "in_flight",
                 status' = [status EXCEPT ![x] = s] \/ SetStatus(x, s)
          PROVE  status'[e] = "in_flight" => status[e] = "in_flight"
      BY <3>0, <3>2 DEF SetStatus
    <3>3. ASSUME NEW x \in Events, CreateEvent(x) \/ RetryEvent(x) \/ ClaimStuck(x) \/ DeleteEvent(x)
          PROVE  status'[e] = "in_flight" => status[e] = "in_flight"
      BY <3>2, <3>3 DEF CreateEvent, RetryEvent, ClaimStuck, DeleteEvent
    <3>4. ASSUME NEW c \in calls, CallMarkQueued(c)
          PROVE  status'[e] = "in_flight" => status[e] = "in_flight"
      <4>1. c.ev \in Events
        BY <3>0 DEF Calls
      <4>. QED
        BY <3>1, <3>2, <3>4, <4>1 DEF CallMarkQueued
    <3>. QED
      BY <3>1, <3>3, <3>4 DEF OtherStep, Ages, AdminRequeueDead, CallEnqueue, CallFails, Mover, Recoverer,
         LeaseOverrun, TimeReaches, OrphanExpires, rest, tables
  <2>. QED
    BY <2>1, MarksGrow DEF InFlight
<1>3. e \in Safe => e \in Safe'
  <2>1. Waits \subseteq Waits'
    BY OtherQueue
  <2>. QED
    BY <1>0, <1>1, <2>1 DEF Safe
<1>. QED
  BY <1>1, <1>2, <1>3, KeptFrame

\* The lists and the scheduled set lose nothing to a worker except by Pick.
LEMMA WorkerWaits == ASSUME TypeInv, NEW w \in Workers, WorkerStep(w), ~Pick(w) PROVE Waits \subseteq Waits'
<1>0. QInv /\ WorkersOK
  BY DEF TypeInv
<1>1. CASE UNCHANGED queueVars
  BY <1>1 DEF Waits, Waiting, queueVars
<1>2. CASE Defer(w) \/ Retry(w)
  BY <1>2, RescheduleType DEF Defer, Retry
<1>3. CASE AckStep(w)
  BY <1>0, <1>3, AckLemma, WaitsKept DEF AckStep
<1>4. CASE Bury(w) \/ PanicBury(w)
  <2>1. hold[w] \in Members
    BY <1>0, <1>4, HoldType DEF Bury, PanicBury
  <2>. QED
    BY <1>0, <1>1, <1>4, <2>1, DeadLetterLemma, WaitsKept DEF Bury, PanicBury
<1>. QED
  BY <1>1, <1>2, <1>3, <1>4 DEF WorkerStep, Process, Load, Undeliverable, MarkEventInFlight, Prepare,
     MarkEventFiltered, Send, RecordAttempt, MarkEventDelivered, MarkEventFailed, PanicFail,
     RecordAttemptFails, Panic, Abandon

\* A worker writes no row but that of its own event.
LEMMA StatusFrame ==
    ASSUME TypeInv, NEW w \in Workers, WorkerStep(w), NEW e \in Events, e # Ev(w) \/ Pick(w)
    PROVE  status'[e] = status[e]
<1>0. status \in [Events -> Statuses]
  BY DEF TypeInv, TablesOK
<1>1. CASE status' = status
  BY <1>1
<1>2. CASE ~Pick(w) /\ \E s : SetStatus(Ev(w), s)
  BY <1>0, <1>2 DEF SetStatus
<1>. QED
  BY <1>1, <1>2 DEF WorkerStep, Process, Pick, Load, Undeliverable, Defer, MarkEventInFlight,
     Prepare, MarkEventFiltered, Send, RecordAttempt, MarkEventDelivered, MarkEventFailed, Bury, Retry,
     AckStep, PanicBury, PanicFail, RecordAttemptFails, Panic, Abandon, tables

\* A worker's step, for the events it does not hold.
LEMMA KeptElsewhere ==
    ASSUME TypeInv, Kept, [Next]_vars, NEW w \in Workers, WorkerStep(w), ~Pick(w),
           NEW e \in Events, e # Ev(w)
    PROVE  e \in InFlight' => e \in Safe' \cup Minded' \cup Buried' \cup Excused'
<1>1. /\ \A v \in Workers \ {w} : pc'[v] = pc[v] /\ hold'[v] = hold[v]
      /\ hold'[w] \in {hold[w], NoMember} /\ pc[w] # "pick"
  BY OneMoves
<1>2. e \in InFlight' => e \in InFlight
  BY StatusFrame, MarksGrow DEF InFlight
<1>3. e \in Safe => e \in Safe'
  <2>1. Waits \subseteq Waits'
    BY WorkerWaits
  <2>2. ASSUME NEW m \in processing, m.evt.ev = e, m \notin Doomed PROVE m \in processing' /\ m \notin Doomed'
    <3>1. m # hold[w] /\ m # NoMember
      BY <2>2, DeliverNoMember DEF Ev, TypeInv, QInv, QueueTypeOK
    <3>2. m \in processing'
      BY <3>1, LeaseFrame
    <3>3. m \notin Doomed'
      BY <1>1, <2>2, <3>1 DEF Doomed
    <3>. QED
      BY <3>2, <3>3
  <2>. QED
    BY <2>1, <2>2 DEF Safe
<1>4. e \in Minded => e \in Minded'
  BY <1>1 DEF Minded, Ev
<1>. QED
  BY <1>2, <1>3, <1>4, KeptFrame

\* Pick: the copy that is taken stays, leased to a worker that has only just begun.
LEMMA KeptPick ==
    ASSUME TypeInv, Kept, [Next]_vars, NEW w \in Workers, Pick(w) PROVE Kept'
<1>0. QInv /\ WorkersOK
  BY DEF TypeInv
<1>1. PICK t \in Fresh : FairPick(t) /\ hold' = [hold EXCEPT ![w] = [tok |-> t, evt |-> Head(pending[Head(ring)])]]
  BY DEF Pick
<1>. DEFINE p == Head(pending[Head(ring)])
           new == [tok |-> t, evt |-> p]
<1>2. /\ p \in Payloads
      /\ \A e \in Events : Waiting(e) => Waiting(e)' \/ e = p.ev
  BY <1>0, <1>1, FairPickLemma DEF Fresh
<1>3. new.tok = t /\ new.evt = p /\ processing' = processing \cup {new}
  BY <1>1 DEF FairPick
<1>. HIDE DEF p, new
<1>4. /\ pc[w] = "pick" /\ pc'[w] = "load"
      /\ \A v \in Workers \ {w} : pc'[v] = pc[v] /\ hold'[v] = hold[v]
  BY <1>0, OneMoves DEF WorkerStep, Process, Pick, Goto, WorkersOK
<1>5. Doomed' = Doomed
  BY <1>4 DEF Doomed
<1>6. Minded' = Minded
  BY <1>4 DEF Minded, Minders
<1>7. new \notin Doomed
  <2>1. \A v \in Workers : pc[v] # "pick" => hold[v].tok # t
    BY <1>0 DEF WorkersOK, Fresh
  <2>. QED
    BY <1>3, <2>1 DEF Doomed
<1>. SUFFICES ASSUME NEW e \in Events, e \in InFlight'
              PROVE  e \in Safe' \cup Minded' \cup Buried' \cup Excused'
  BY DEF Kept, InFlight
<1>8. CASE e = p.ev
  BY <1>3, <1>5, <1>7, <1>8 DEF Safe
<1>9. CASE e # p.ev
  <2>1. e \in Waits => e \in Waits'
    <3>1. Waiting(e) => Waiting(e)'
      BY <1>2, <1>9
    <3>. QED
      BY <3>1, WaitsAdded DEF Waits
  <2>2. e \in Safe => e \in Safe'
    BY <1>3, <1>5, <2>1 DEF Safe
  <2>3. e \in InFlight
    BY DEF Pick, tables, InFlight
  <2>. QED
    BY <1>6, <2>2, <2>3, KeptFrame
<1>. QED
  BY <1>8, <1>9

\* A worker that stops without removing its lease leaves the copy behind, unless
\* the lease was lost to an overrun and this is the second fault.
LEMMA LeftBehind ==
    ASSUME TypeInv, HoldersOK, [Next]_vars, NEW w \in Workers,
           pc[w] \notin {"pick", "panicFail"}, UNCHANGED processing, Fault,
           \A v \in Workers \ {w} : pc'[v] = pc[v] /\ hold'[v] = hold[v],
           pc'[w] \in {"pick", "panicFail"}
    PROVE  Ev(w) \in Safe' \cup Excused'
<1>0. WorkersOK /\ UsedOK
  BY DEF TypeInv
<1>1. hold[w] \in Members /\ Ev(w) \in Events
  BY <1>0, HoldType
<1>2. CASE hold[w] \in processing
  <2>1. \A v \in Workers \ {w} : pc[v] # "pick" => hold[v] # hold[w]
    BY DEF HoldersOK
  <2>2. hold[w] \notin Doomed'
    BY <2>1 DEF Doomed
  <2>. QED
    BY <1>1, <1>2, <2>2 DEF Safe, Ev
<1>3. CASE Ev(w) \in excused.overrun
  <2>1. used.faults > 0
    BY <1>3 DEF HoldersOK
  <2>2. Ev(w) \in excused'.overrun
    BY <1>3, MarksGrow
  <2>3. used'.faults > 1
    BY <1>0, <2>1, FaultType
  <2>. QED
    BY <2>2, <2>3 DEF Excused
<1>. QED
  BY <1>2, <1>3 DEF HoldersOK, Ev

\* A worker's step, for its own event.
LEMMA KeptOwn ==
    ASSUME TypeInv, TypeInv', Kept, HoldersOK, [Next]_vars, NEW w \in Workers, WorkerStep(w), ~Pick(w),
           NEW e \in Events, e = Ev(w)
    PROVE  e \in InFlight' => e \in Safe' \cup Minded' \cup Buried' \cup Excused'
<1>0. WorkersOK /\ QInv /\ HistoryOK /\ status \in [Events -> Statuses]
  BY DEF TypeInv, TablesOK
<1>1. /\ \A v \in Workers \ {w} : pc'[v] = pc[v] /\ hold'[v] = hold[v]
      /\ hold'[w] \in {hold[w], NoMember} /\ pc[w] # "pick"
      /\ pc'[w] # "pick" => hold'[w] = hold[w]
  BY OneMoves
<1>2. hold[w] \in Members
  BY <1>0, <1>1, HoldType
<1>g. ASSUME NEW label \in Minders, Goto(w, label), UNCHANGED hold PROVE e \in Minded'
  <2>1. pc'[w] = label
    BY <1>0, <1>g DEF Goto, WorkersOK
  <2>. QED
    BY <1>g, <2>1 DEF Minded, Ev
\* The row ends, or the write is lost.
<1>s. ASSUME NEW s, s # "in_flight", (SetStatus(e, s) /\ UNCHANGED used) \/ LostWrite PROVE e \notin InFlight'
  <2>1. CASE SetStatus(e, s)
    BY <1>0, <1>s, <2>1 DEF SetStatus, InFlight
  <2>2. CASE LostWrite
    <3>1. used'.lost # 0
      BY <2>2, LostWriteType DEF TypeInv
    <3>. QED
      BY <3>1 DEF InFlight
  <2>. QED
    BY <1>s, <2>1, <2>2
\* Nothing that counts for e changes.
<1>f. ASSUME UNCHANGED <<status, processing>>, Waits \subseteq Waits', used'.lost >= used.lost,
             Doomed' \subseteq Doomed, pc[w] \notin Minders
      PROVE  e \in InFlight' => e \in Safe' \cup Minded' \cup Buried' \cup Excused'
  <2>1. e \in InFlight' => e \in InFlight
    BY <1>f, MarksGrow DEF InFlight
  <2>2. e \in Safe => e \in Safe'
    BY <1>f DEF Safe
  <2>3. e \in Minded => e \in Minded'
    BY <1>1, <1>f DEF Minded
  <2>. QED
    BY <2>1, <2>2, <2>3, KeptFrame
<1>3. CASE Load(w)
  <2>1. CASE Over(e)
    BY <1>0, <1>3, <2>1 DEF Load, Over, Terminal, InFlight, tables
  <2>2. CASE ~Over(e)
    <3>1. pc[w] = "load" /\ pc'[w] = "gate"
      BY <1>0, <1>3, <2>2 DEF Load, Goto, WorkersOK
    <3>2. Doomed' \subseteq Doomed
      BY <1>1, <3>1 DEF Doomed
    <3>3. UNCHANGED <<status, processing>> /\ Waits \subseteq Waits' /\ used'.lost >= used.lost
      BY <1>3, MarksGrow, WorkerWaits DEF Load, queueVars, tables
    <3>. QED
      BY <1>f, <3>1, <3>2, <3>3 DEF Minders
  <2>. QED
    BY <2>1, <2>2
<1>4. CASE Undeliverable(w) \/ MarkEventInFlight(w) \/ Prepare(w) \/ Send(w) \/ Panic(w) \/ MarkEventFailed(w)
  BY <1>g, <1>4 DEF Undeliverable, MarkEventInFlight, Prepare, Send, Panic, MarkEventFailed, Minders
<1>5. CASE RecordAttempt(w) \/ RecordAttemptFails(w)
  <2>1. AfterRecord(w) \in Minders
    BY DEF AfterRecord, Minders
  <2>. QED
    BY <1>g, <1>5, <2>1 DEF RecordAttempt, RecordAttemptFails
<1>6. CASE Defer(w) \/ Retry(w)
  BY <1>1, <1>6, RescheduleType DEF Safe
<1>7. CASE MarkEventFiltered(w) \/ MarkEventDelivered(w) \/ PanicFail(w)
  BY <1>s, <1>7 DEF MarkEventFiltered, MarkEventDelivered, PanicFail
<1>8. CASE Bury(w) \/ (PanicBury(w) /\ DeadLetter(hold[w]) /\ Trim)
  <2>1. DeadLetter(hold[w]) /\ Trim
    BY <1>8 DEF Bury
  <2>. QED
    BY <1>0, <1>2, <2>1, DeadLetterBuries DEF Ev
<1>9. CASE PanicBury(w) /\ Fault /\ UNCHANGED queueVars
  <2>1. pc[w] = "panic" /\ pc'[w] = "panicFail"
    BY <1>0, <1>9 DEF PanicBury, Goto, WorkersOK
  <2>. QED
    BY <1>1, <1>9, <2>1, LeftBehind DEF queueVars
<1>10. CASE AckStep(w)
  <2>1. pc[w] = "ack" /\ pc'[w] = "pick"
    BY <1>0, <1>10 DEF AckStep, Free, Goto, WorkersOK
  <2>2. hold[w] \in Doomed
    BY <2>1 DEF Doomed
  <2>3. Doomed' \subseteq Doomed
    BY <1>1, <2>1 DEF Doomed
  <2>4. Waits \subseteq Waits'
    BY WorkerWaits
  <2>5. \A m \in processing : m # hold[w] => m \in processing'
    BY LeaseFrame
  <2>6. e \in Safe => e \in Safe'
    BY <2>2, <2>3, <2>4, <2>5 DEF Safe
  <2>7. e \in InFlight' => e \in InFlight
    BY <1>10 DEF AckStep, tables, InFlight
  <2>8. e \in Minded => e \in Minded'
    BY <1>1, <2>1 DEF Minded, Minders
  <2>. QED
    BY <2>6, <2>7, <2>8, KeptFrame
<1>11. CASE Abandon(w)
  <2>1. pc'[w] = "pick" /\ UNCHANGED processing /\ Fault /\ UNCHANGED status
    BY <1>0, <1>11 DEF Abandon, Free, Goto, WorkersOK, queueVars, tables
  <2>2. CASE pc[w] \in Minders
    BY <1>1, <2>1, <2>2, LeftBehind DEF Minders
  <2>3. CASE pc[w] \notin Minders
    <3>1. Doomed' \subseteq Doomed
      BY <1>1, <2>1 DEF Doomed
    <3>. QED
      BY <1>f, <2>1, <2>3, <3>1, MarksGrow, WorkerWaits
  <2>. QED
    BY <2>2, <2>3
<1>. QED
  BY <1>3, <1>4, <1>5, <1>6, <1>7, <1>8, <1>9, <1>10, <1>11 DEF WorkerStep, Process, PanicBury

LEMMA KeptStep == TypeInv /\ TypeInv' /\ HoldersOK /\ Kept /\ [Next]_vars => Kept'
<1>. SUFFICES ASSUME TypeInv, TypeInv', HoldersOK, Kept, [Next]_vars PROVE Kept'
  OBVIOUS
<1>1. ASSUME NEW w \in Workers, WorkerStep(w), ~Pick(w) PROVE Kept'
  <2>1. \A e \in Events : e \in InFlight' => e \in Safe' \cup Minded' \cup Buried' \cup Excused'
    BY <1>1, KeptElsewhere, KeptOwn
  <2>. QED
    BY <2>1 DEF Kept, InFlight
<1>2. CASE UNCHANGED vars
  BY <1>2 DEF vars, queueVars, tables, workers, history, Kept, InFlight, Safe, Waits, Waiting, Doomed,
     Minded, Buried, Excused
<1>. QED
  BY <1>1, <1>2, KeptOther, KeptPick, NextSplit

-----------------------------------------------------------------------------
(* RequeueTakesEffect. *)

\* The events whose row some worker has yet to write.
WriterLabels == {"run", "record", "deliver", "fail", "panic", "panicFail"}
Writers == {hold[w].evt.ev : w \in {v \in Workers : pc[v] \in WriterLabels}}

\* An event the console put back is left alone until a worker takes it up, and is
\* struck off the list then.
Taken == requeued \cap Writers = {}

\* A row that a mark in the console's hands will put right.
Marked == {c.ev : c \in {d \in calls : d.do = "markQueued"}}
Reset == {e \in Events : status[e] \in {"queued", "deleted"} \/ used.lost > 0}

Effective == requeued \subseteq Reset \cup Marked

LEMMA EffectiveSuffices == ASSUME TypeInv, Effective PROVE RequeueTakesEffect
  BY DEF Effective, Reset, Marked, RequeueTakesEffect

LEMMA TakenStep == TypeInv /\ TypeInv' /\ Taken /\ [Next]_vars => Taken'
<1>. SUFFICES ASSUME TypeInv, TypeInv', Taken, [Next]_vars PROVE Taken'
  OBVIOUS
<1>0. WorkersOK
  BY DEF TypeInv
<1>1. ASSUME NEW w \in Workers, WorkerStep(w) PROVE Taken'
  <2>1. /\ \A v \in Workers \ {w} : pc'[v] = pc[v] /\ hold'[v] = hold[v]
        /\ \/ Pick(w) /\ pc[w] = "pick" /\ pc'[w] = "load"
           \/ pc[w] # "pick" /\ pc'[w] # "pick" /\ hold'[w] = hold[w]
           \/ pc[w] # "pick" /\ pc'[w] = "pick" /\ hold'[w] = NoMember
    BY <1>1, OneMoves
  <2>2. requeued' \subseteq requeued
    BY <1>1 DEF WorkerStep, Process, Pick, Load, Undeliverable, Defer, MarkEventInFlight,
       Prepare, MarkEventFiltered, Send, RecordAttempt, MarkEventDelivered, MarkEventFailed, Bury, Retry,
       AckStep, PanicBury, Trim, PanicFail, RecordAttemptFails, Panic, Abandon, history
  <2>3. pc'[w] \in WriterLabels /\ pc[w] \notin WriterLabels => requeued' = requeued \ {Ev(w)}
    <3>1. CASE Undeliverable(w) \/ MarkEventInFlight(w)
      BY <3>1 DEF Undeliverable, MarkEventInFlight
    <3>2. CASE pc'[w] \notin WriterLabels
      BY <3>2
    <3>3. CASE pc[w] \in WriterLabels
      BY <3>3
    <3>. QED
      BY <1>0, <1>1, <3>1, <3>2, <3>3 DEF WorkerStep, Process, Pick, Load, Defer,
         Prepare, MarkEventFiltered, Send, RecordAttempt, MarkEventDelivered, MarkEventFailed, Bury, Retry,
         AckStep, PanicBury, PanicFail, RecordAttemptFails, Panic, Abandon, Goto, Free, WriterLabels, WorkersOK
  <2>4. ASSUME NEW v \in Workers, pc'[v] \in WriterLabels PROVE hold'[v].evt.ev \notin requeued'
    <3>1. CASE pc[v] \in WriterLabels
      BY <2>1, <2>2, <2>4, <3>1 DEF Taken, Writers, WriterLabels
    <3>2. CASE pc[v] \notin WriterLabels
      <4>1. v = w
        BY <2>1, <2>4, <3>2
      <4>2. hold'[w] = hold[w]
        BY <2>1, <2>4, <4>1 DEF WriterLabels
      <4>. QED
        BY <2>3, <2>4, <3>2, <4>1, <4>2 DEF Ev
    <3>. QED
      BY <3>1, <3>2
  <2>. QED
    BY <2>4 DEF Taken, Writers
<1>2. ASSUME OtherStep PROVE Taken'
  <2>1. Writers' = Writers
    BY <1>2, OtherLeases DEF Writers
  <2>2. CASE requeued' = requeued
    BY <2>1, <2>2 DEF Taken
  <2>3. CASE AdminRequeueDead
    <3>1. PICK e \in Events : requeued' = IF Writing(e) THEN requeued ELSE requeued \cup {e}
      BY <2>3, RequeueParts
    <3>2. Writing(e) <=> e \in Writers
      BY DEF Writing, Writers, WriterLabels, Ev
    <3>. QED
      BY <2>1, <3>1, <3>2 DEF Taken
  <2>. QED
    BY <1>2, <2>2, <2>3 DEF OtherStep, CreateEvent, RetryEvent, ClaimStuck, DeleteEvent, Ages,
       CallEnqueue, CallMarkQueued, CallFails, Mover, Recoverer, LeaseOverrun, TimeReaches, OrphanExpires,
       rest, history
<1>3. CASE UNCHANGED vars
  BY <1>3 DEF vars, workers, history, Taken, Writers
<1>. QED
  BY <1>1, <1>2, <1>3, NextSplit

LEMMA EffectiveStep == TypeInv /\ Taken /\ Effective /\ [Next]_vars => Effective'
<1>. SUFFICES ASSUME TypeInv, Taken, Effective, [Next]_vars PROVE Effective'
  OBVIOUS
<1>0. WorkersOK /\ UsedOK /\ HistoryOK /\ status \in [Events -> Statuses] /\ calls \subseteq Calls
  BY DEF TypeInv, TablesOK
<1>1. used.lost > 0 => used'.lost > 0
  BY MarksGrow
<1>2. ASSUME NEW w \in Workers, WorkerStep(w) PROVE Effective'
  <2>1. calls' = calls /\ requeued' \subseteq requeued
    BY <1>2 DEF WorkerStep, Process, Pick, Load, Undeliverable, Defer, MarkEventInFlight,
       Prepare, MarkEventFiltered, Send, RecordAttempt, MarkEventDelivered, MarkEventFailed, Bury, Retry,
       AckStep, PanicBury, Trim, PanicFail, RecordAttemptFails, Panic, Abandon, history
  <2>2. ASSUME NEW e \in requeued' PROVE status'[e] = status[e]
    <3>1. e \in requeued /\ e \in Events
      BY <1>0, <2>1 DEF HistoryOK
    <3>2. CASE e # Ev(w) \/ Pick(w)
      BY <1>2, <3>1, <3>2, StatusFrame
    <3>3. CASE status' = status
      BY <3>3
    <3>4. CASE MarkEventInFlight(w)
      BY <3>2, <3>4 DEF MarkEventInFlight
    <3>5. CASE pc[w] \in WriterLabels
      BY <3>1, <3>2, <3>5 DEF Taken, Writers, Ev
    <3>. QED
      BY <1>2, <3>2, <3>3, <3>4, <3>5 DEF WorkerStep, Process, Load, Undeliverable, Defer,
         Prepare, MarkEventFiltered, Send, RecordAttempt, MarkEventDelivered, MarkEventFailed, Bury, Retry,
         AckStep, PanicBury, PanicFail, RecordAttemptFails, Panic, Abandon, tables, WriterLabels
  <2>. QED
    BY <1>1, <2>1, <2>2 DEF Effective, Reset, Marked
<1>3. ASSUME OtherStep PROVE Effective'
  <2>1. ASSUME NEW x \in Events, CreateEvent(x) \/ RetryEvent(x) \/ ClaimStuck(x) \/ DeleteEvent(x) PROVE Effective'
    <3>1. /\ requeued' = requeued /\ calls \subseteq calls'
          /\ \A e \in Events : status'[e] = status[e] \/ status'[e] \in {"queued", "deleted"}
      BY <1>0, <2>1 DEF CreateEvent, RetryEvent, ClaimStuck, DeleteEvent, SetStatus, Begin, history
    <3>. QED
      BY <1>1, <3>1 DEF Effective, Reset, Marked
  <2>2. CASE AdminRequeueDead
    <3>1. PICK e \in Events :
             /\ requeued' = IF Writing(e) THEN requeued ELSE requeued \cup {e}
             /\ Begin([do |-> "markQueued", ev |-> e, attempt |-> 0])
             /\ UNCHANGED tables
      BY <2>2, RequeueParts
    <3>2. Marked \subseteq Marked' /\ e \in Marked'
      BY <3>1 DEF Marked, Begin
    <3>3. Reset \subseteq Reset'
      BY <1>1, <3>1 DEF Reset, tables
    <3>. QED
      BY <3>1, <3>2, <3>3 DEF Effective
  <2>3. ASSUME NEW c \in calls, CallMarkQueued(c) PROVE Effective'
    <3>1. c.ev \in Events
      BY <1>0 DEF Calls
    <3>2. requeued' = requeued /\ calls' = calls \ {c}
      BY <2>3 DEF CallMarkQueued, history
    <3>3. Marked \subseteq Marked' \cup {c.ev}
      BY <3>2 DEF Marked
    <3>4. CASE SetStatus(c.ev, "queued")
      BY <1>0, <1>1, <3>1, <3>2, <3>3, <3>4 DEF Effective, Reset, SetStatus
    <3>5. CASE LostWrite
      <4>1. used'.lost > 0
        BY <1>0, <3>5, LostWriteType
      <4>. QED
        BY <1>0, <3>2, <4>1 DEF Effective, Reset, HistoryOK
    <3>. QED
      BY <2>3, <3>4, <3>5 DEF CallMarkQueued
  <2>4. ASSUME NEW c \in calls, CallEnqueue(c) \/ CallFails(c) PROVE Effective'
    <3>1. UNCHANGED <<requeued, status>> /\ calls' = calls \ {c} /\ c.do # "markQueued"
      BY <2>4 DEF CallEnqueue, CallFails, history, tables
    <3>2. Marked' = Marked
      BY <3>1 DEF Marked
    <3>. QED
      BY <1>1, <3>1, <3>2 DEF Effective, Reset
  <2>5. CASE UNCHANGED <<requeued, status, calls>>
    BY <1>1, <2>5 DEF Effective, Reset, Marked
  <2>. QED
    BY <1>3, <2>1, <2>2, <2>3, <2>4, <2>5 DEF OtherStep, Ages, Mover, Recoverer, LeaseOverrun,
       TimeReaches, OrphanExpires, rest, history, tables
<1>4. CASE UNCHANGED vars
  BY <1>4 DEF vars, tables, history, Effective, Reset, Marked
<1>. QED
  BY <1>2, <1>3, <1>4, NextSplit

-----------------------------------------------------------------------------
IInv == TypeInv /\ HoldersOK /\ Kept /\ Taken /\ Effective

LEMMA Inductive == Spec => []IInv
<1>1. Init => IInv
  <2>. SUFFICES ASSUME Init PROVE IInv
    OBVIOUS
  <2>1. TypeInv
    BY TypeInit
  <2>2. \A w \in Workers : pc[w] = "pick"
    BY DEF Init
  <2>3. HoldersOK
    BY <2>2 DEF HoldersOK, Init
  <2>4. Kept /\ Taken /\ Effective
    BY DEF Kept, InFlight, Taken, Effective, Init
  <2>. QED
    BY <2>1, <2>3, <2>4 DEF IInv
<1>2. IInv /\ [Next]_vars => IInv'
  BY TypeStep, HoldersStep, KeptStep, TakenStep, EffectiveStep DEF IInv
<1>. QED
  BY <1>1, <1>2, PTL DEF Spec

\* The queue, the two tables, the workers and the calls in progress have the
\* types the code gives them; in particular a retry never carries an attempt
\* number beyond the budget (failAttempt, Schedule), and a worker holds a member
\* exactly while it is between Pick and its settling step.
THEOREM DeliverTypeCorrect == Spec => []TypeOK
<1>1. IInv => TypeOK
  BY TypeSuffices DEF IInv
<1>. QED
  BY <1>1, Inductive, PTL

\* No in_flight row is lost between Postgres and Redis, whichever of Process's
\* calls fails or panics, in whatever order the workers, the reaper, the console
\* and the recoverer run, and for any number of each.
THEOREM InFlightRowsOwned == Spec => []InFlightOwned
<1>1. IInv => InFlightOwned
  BY KeptSuffices DEF IInv
<1>. QED
  BY <1>1, Inductive, PTL

\* What the console requeues from the dead list takes effect, although it puts the
\* copy back before it resets the row.
THEOREM RequeuesTakeEffect == Spec => []RequeueTakesEffect
<1>1. IInv => RequeueTakesEffect
  BY EffectiveSuffices DEF IInv
<1>. QED
  BY <1>1, Inductive, PTL

-----------------------------------------------------------------------------
(* Copies and requests.  A copy of an event is in a list, in the scheduled  *)
(* set, in a worker's hands, or in a lease that will be recovered.  Its     *)
(* level is the number of requests that may be behind it.                   *)

Level(a) == IF a < MaxRetries THEN a ELSE MaxRetries

\* The payloads of e of level j or less.
Upto(e, j) == {p \in Payloads : p.ev = e /\ Level(p.attempt) <= j}

\* The positions of a list that hold one of the payloads P.
Places(s, P) == {i \in DOMAIN s : s[i] \in P}
Listed(s, P) == Cardinality(Places(s, P))

\* At these steps the request of the attempt in hand may have been made.
SpentLabels == {"record", "deliver", "fail", "bury", "retry"}

\* The workers with a copy of e that they have not replaced or given up, by the
\* labels k and the members h in hand.
AtWork(e, j, k, h) ==
    {w \in Workers : /\ k[w] \notin {"pick", "ack"}
                     /\ h[w].evt.ev = e
                     /\ Level(h[w].evt.attempt) + (IF k[w] \in SpentLabels THEN 1 ELSE 0) <= j}

\* The leases of l that the recoverer takes back, or will once they expire.
Unclaimed(P, h, l, x) == {m \in l : m.evt \in P /\ (m \in x \/ \A w \in Workers : h[w] # m)}

\* The copies outside the lists: scheduled in s, at work, leased without a worker.
Afoot(e, j, s, k, h, l, x) ==
    {<<"set", p>> : p \in s \cap Upto(e, j)} \cup {<<"worker", w>> : w \in AtWork(e, j, k, h)}
        \cup {<<"lease", m>> : m \in Unclaimed(Upto(e, j), h, l, x)}

-----------------------------------------------------------------------------
(* Counting. *)

LEMMA SwapOne ==
    ASSUME NEW A, NEW B, NEW a, NEW b, IsFiniteSet(A), B \ {b} \subseteq A \ {a}, b \in B => a \in A
    PROVE  IsFiniteSet(B) /\ Cardinality(A) \in Nat /\ Cardinality(B) \in Nat /\ Cardinality(B) <= Cardinality(A)
<1>1. CASE b \in B
  <2>1. IsFiniteSet(A \ {a}) /\ Cardinality(A \ {a}) = Cardinality(A) - 1 /\ Cardinality(A) \in Nat
    BY <1>1, FS_RemoveElement, FS_CardinalityType
  <2>2. B \ {b} \in SUBSET (A \ {a})
    OBVIOUS
  <2>3. IsFiniteSet(B \ {b}) /\ Cardinality(B \ {b}) <= Cardinality(A) - 1
    BY <2>1, <2>2, FS_Subset
  <2>4. B = (B \ {b}) \cup {b} /\ b \notin B \ {b}
    BY <1>1
  <2>5. Cardinality(B \ {b}) \in Nat
    BY <2>3, FS_CardinalityType
  <2>. DEFINE C == B \ {b}
  <2>6. IsFiniteSet(C) /\ Cardinality(C) <= Cardinality(A) - 1 /\ B = C \cup {b} /\ b \notin C /\ Cardinality(C) \in Nat
    BY <2>3, <2>4, <2>5
  <2>. HIDE DEF C
  <2>7. IsFiniteSet(C \cup {b}) /\ Cardinality(C \cup {b}) = Cardinality(C) + 1
    BY <2>6, FS_AddElement
  <2>. QED
    BY <2>1, <2>6, <2>7
<1>2. CASE b \notin B
  <2>1. B \in SUBSET A
    BY <1>2
  <2>. QED
    BY <2>1, FS_Subset, FS_CardinalityType
<1>. QED
  BY <1>1, <1>2

LEMMA GainOne ==
    ASSUME NEW A, NEW B, NEW b, IsFiniteSet(A), B \ {b} \subseteq A
    PROVE  IsFiniteSet(B) /\ Cardinality(A) \in Nat /\ Cardinality(B) \in Nat /\ Cardinality(B) <= Cardinality(A) + 1
<1>1. IsFiniteSet(A \cup {b}) /\ Cardinality(A \cup {b}) <= Cardinality(A) + 1 /\ Cardinality(A) \in Nat
  BY FS_AddElement, FS_CardinalityType
<1>2. B \in SUBSET (A \cup {b})
  OBVIOUS
<1>3. IsFiniteSet(B) /\ Cardinality(B) <= Cardinality(A \cup {b})
  BY <1>1, <1>2, FS_Subset
<1>4. Cardinality(B) \in Nat /\ Cardinality(A \cup {b}) \in Nat
  BY <1>1, <1>3, FS_CardinalityType
<1>. QED
  BY <1>1, <1>3, <1>4

LEMMA LoseOne ==
    ASSUME NEW A, NEW B, NEW a \in A, IsFiniteSet(A), B \subseteq A \ {a}
    PROVE  IsFiniteSet(B) /\ Cardinality(A) \in Nat /\ Cardinality(B) \in Nat /\ Cardinality(B) + 1 <= Cardinality(A)
<1>1. IsFiniteSet(A \ {a}) /\ Cardinality(A \ {a}) = Cardinality(A) - 1 /\ Cardinality(A) \in Nat
  BY FS_RemoveElement, FS_CardinalityType
<1>2. B \in SUBSET (A \ {a})
  OBVIOUS
<1>3. IsFiniteSet(B) /\ Cardinality(B) <= Cardinality(A \ {a})
  BY <1>1, <1>2, FS_Subset
<1>4. Cardinality(B) \in Nat
  BY <1>3, FS_CardinalityType
<1>. QED
  BY <1>1, <1>3, <1>4

\* What leaves A for somewhere else is counted there.
LEMMA MovedOut ==
    ASSUME NEW A, NEW B, NEW K, NEW f \in Injection(K, A \ B), IsFiniteSet(A), B \subseteq A
    PROVE  /\ IsFiniteSet(B) /\ IsFiniteSet(K)
           /\ Cardinality(A) \in Nat /\ Cardinality(B) \in Nat /\ Cardinality(K) \in Nat
           /\ Cardinality(K) + Cardinality(B) <= Cardinality(A)
<1>2. A \cap B = B /\ B \in SUBSET A
  OBVIOUS
<1>1. IsFiniteSet(A \ B) /\ Cardinality(A \ B) = Cardinality(A) - Cardinality(B)
  <2>1. IsFiniteSet(A \ B) /\ Cardinality(A \ B) = Cardinality(A) - Cardinality(A \cap B)
    BY FS_Difference
  <2>. QED
    BY <1>2, <2>1
<1>3. IsFiniteSet(B)
  BY <1>2, FS_Subset
<1>4. IsFiniteSet(K) /\ Cardinality(K) <= Cardinality(A \ B)
  BY <1>1, FS_Injection
<1>5. Cardinality(A) \in Nat /\ Cardinality(B) \in Nat /\ Cardinality(K) \in Nat
  BY <1>3, <1>4, FS_CardinalityType
<1>. QED
  BY <1>1, <1>2, <1>3, <1>4, <1>5

LEMMA PlacesFinite ==
    ASSUME NEW s \in Seq(Payloads), NEW P
    PROVE  /\ IsFiniteSet(Places(s, P)) /\ Listed(s, P) \in Nat
           /\ \A i \in DOMAIN s : s[i] \in P => Listed(s, P) > 0
<1>. DEFINE S == Places(s, P)
<1>1. S \in SUBSET (1..Len(s)) /\ Len(s) \in Nat
  BY DEF Places
<1>2. IsFiniteSet(1..Len(s))
  BY <1>1, FS_Interval
<1>3. \A i \in DOMAIN s : s[i] \in P => S # {}
  BY DEF Places
<1>. HIDE DEF S
<1>4. IsFiniteSet(S) /\ Cardinality(S) \in Nat
  BY <1>1, <1>2, FS_Subset, FS_CardinalityType
<1>5. S # {} => Cardinality(S) > 0
  BY <1>4, FS_EmptySet
<1>. QED
  BY <1>3, <1>4, <1>5 DEF S, Listed

LEMMA ListedAppend ==
    ASSUME NEW s \in Seq(Payloads), NEW p \in Payloads, NEW P
    PROVE  Listed(Append(s, p), P) = Listed(s, P) + (IF p \in P THEN 1 ELSE 0)
<1>. DEFINE S == Places(s, P)
            T == Places(Append(s, p), P)
            n == Len(s) + 1
<1>1. IsFiniteSet(S) /\ Cardinality(S) \in Nat
  BY PlacesFinite DEF Listed
<1>2. T = IF p \in P THEN S \cup {n} ELSE S
  BY DEF Places
<1>3. n \notin S
  BY DEF Places
<1>. HIDE DEF S, T, n
<1>4. Cardinality(S \cup {n}) = Cardinality(S) + 1
  BY <1>1, <1>3, FS_AddElement
<1>5. Cardinality(T) = Cardinality(S) + (IF p \in P THEN 1 ELSE 0)
  BY <1>1, <1>2, <1>4
<1>. QED
  BY <1>5 DEF S, T, Listed

LEMMA ListedTail ==
    ASSUME NEW s \in Seq(Payloads), s # <<>>, NEW P
    PROVE  Listed(Tail(s), P) + (IF Head(s) \in P THEN 1 ELSE 0) = Listed(s, P)
<1>. DEFINE S == Places(s, P)
            T == Places(Tail(s), P)
            R == S \ {1}
            f == [i \in T |-> i + 1]
<1>1. IsFiniteSet(S) /\ Cardinality(S) \in Nat
  BY PlacesFinite DEF Listed
<1>2. Len(s) \in Nat \ {0} /\ DOMAIN s = 1..Len(s) /\ DOMAIN Tail(s) = 1..(Len(s) - 1)
  OBVIOUS
<1>3. \A i \in DOMAIN Tail(s) : Tail(s)[i] = s[i + 1]
  OBVIOUS
<1>4. f \in Bijection(T, R)
  <2>1. f \in [T -> R]
    BY <1>2, <1>3 DEF Places
  <2>2. \A i, j \in T : f[i] = f[j] => i = j
    BY <1>2 DEF Places
  <2>3. \A k \in R : \E i \in T : f[i] = k
    <3>. SUFFICES ASSUME NEW k \in R PROVE \E i \in T : f[i] = k
      OBVIOUS
    <3>1. k - 1 \in T /\ f[k - 1] = k
      BY <1>2, <1>3 DEF Places
    <3>. QED
      BY <3>1
  <2>. QED
    BY <2>1, <2>2, <2>3 DEF Bijection, Injection, Surjection, IsInjective
<1>5. 1 \in S <=> Head(s) \in P
  BY <1>2 DEF Places
<1>6. ExistsBijection(T, R)
  BY <1>4 DEF ExistsBijection
<1>7. R = S \ {1}
  OBVIOUS
<1>. HIDE DEF S, T, R, f
<1>8. IsFiniteSet(R) /\ Cardinality(R) + (IF Head(s) \in P THEN 1 ELSE 0) = Cardinality(S)
  <2>1. /\ IsFiniteSet(S \ {1})
        /\ Cardinality(S \ {1}) = IF 1 \in S THEN Cardinality(S) - 1 ELSE Cardinality(S)
    BY <1>1, FS_RemoveElement
  <2>. QED
    BY <1>1, <1>5, <1>7, <2>1
<1>9. ExistsBijection(R, T)
  BY <1>6, Fun_ExistsBijSymmetric
<1>10. Cardinality(T) = Cardinality(R)
  BY <1>8, <1>9, FS_Bijection
<1>. QED
  BY <1>8, <1>10 DEF S, T, Listed

\* A loop of pushes adds the payloads it pushes, and each to its org's list only.
LEMMA PushAllListed ==
    ASSUME NEW q \in Lists, NEW s \in Seq(Payloads), NEW o \in Orgs, NEW P
    PROVE  Listed(PushAll(q, s).list[o], P) <= Listed(q.list[o], P) + Listed(s, P)
<1>1. PICK f : /\ DOMAIN f = 0..Len(s)
               /\ f[0] = q
               /\ \A i \in 1..Len(s) : f[i] = Push(f[i - 1], s[i])
               /\ PushAll(q, s) = f[Len(s)]
  BY PushAllLoop
<1>. DEFINE n == Len(s)
            K(i) == {k \in 1..i : s[k] \in P}
            Good(i) == /\ f[i] \in Lists
                       /\ IsFiniteSet(K(i))
                       /\ Listed(f[i].list[o], P) <= Listed(q.list[o], P) + Cardinality(K(i))
            T == {i \in 0..n : Good(i)}
<1>2. n \in Nat /\ DOMAIN s = 1..n
  OBVIOUS
<1>3. Good(0)
  <2>1. K(0) = {}
    OBVIOUS
  <2>2. q.list[o] \in Seq(Payloads)
    BY DEF Lists
  <2>3. Listed(q.list[o], P) \in Nat
    BY <2>2, PlacesFinite
  <2>. QED
    BY <1>1, <2>1, <2>3, FS_EmptySet
<1>4. ASSUME NEW i \in 0..n, Good(i), i < n PROVE Good(i + 1)
  <2>1. s[i + 1] \in Payloads
    BY <1>2, <1>4
  <2>2. f[i + 1] = Push(f[i], s[i + 1]) /\ f[i + 1] \in Lists
    BY <1>1, <1>2, <1>4, <2>1, PushLemma
  <2>. DEFINE d == IF s[i + 1] \in P THEN 1 ELSE 0
  <2>3. f[i].list \in [Orgs -> Seq(Payloads)]
    BY <1>4 DEF Lists
  <2>4. /\ f[i].list[o] \in Seq(Payloads)
        /\ f[i + 1].list[o] = f[i].list[o] \/ f[i + 1].list[o] = Append(f[i].list[o], s[i + 1])
    <3>1. f[i + 1].list = [f[i].list EXCEPT ![OrgOf[s[i + 1].ev]] = Append(@, s[i + 1])]
      BY <2>2 DEF Push
    <3>. QED
      BY <2>3, <3>1
  <2>5. Listed(f[i].list[o], P) \in Nat /\ Listed(f[i + 1].list[o], P) <= Listed(f[i].list[o], P) + d
    <3>1. Listed(f[i].list[o], P) \in Nat /\ Listed(Append(f[i].list[o], s[i + 1]), P) = Listed(f[i].list[o], P) + d
      BY <2>1, <2>4, PlacesFinite, ListedAppend
    <3>2. d \in Nat
      OBVIOUS
    <3>. HIDE DEF d
    <3>3. CASE f[i + 1].list[o] = f[i].list[o]
      BY <3>1, <3>2, <3>3
    <3>4. CASE f[i + 1].list[o] = Append(f[i].list[o], s[i + 1])
      BY <3>1, <3>2, <3>4
    <3>. QED
      BY <2>4, <3>3, <3>4
  <2>6. K(i + 1) = IF s[i + 1] \in P THEN K(i) \cup {i + 1} ELSE K(i)
    BY <1>4
  <2>7. i + 1 \notin K(i)
    OBVIOUS
  <2>8. IsFiniteSet(K(i + 1)) /\ Cardinality(K(i + 1)) = Cardinality(K(i)) + d /\ Cardinality(K(i)) \in Nat
    <3>. DEFINE A == K(i)
                B == K(i + 1)
    <3>1. IsFiniteSet(A) /\ i + 1 \notin A /\ B = IF s[i + 1] \in P THEN A \cup {i + 1} ELSE A
      BY <1>4, <2>6, <2>7
    <3>. HIDE DEF A, B, K
    <3>2. IsFiniteSet(A \cup {i + 1}) /\ Cardinality(A \cup {i + 1}) = Cardinality(A) + 1 /\ Cardinality(A) \in Nat
      BY <3>1, FS_AddElement, FS_CardinalityType
    <3>3. IsFiniteSet(B) /\ Cardinality(B) = Cardinality(A) + d /\ Cardinality(A) \in Nat
      BY <3>1, <3>2
    <3>. QED
      BY <3>3 DEF A, B
  <2>9. Listed(q.list[o], P) \in Nat /\ Listed(f[i + 1].list[o], P) \in Nat
    <3>1. q.list[o] \in Seq(Payloads) /\ f[i + 1].list[o] \in Seq(Payloads)
      BY <2>2 DEF Lists
    <3>. QED
      BY <3>1, PlacesFinite
  <2>. HIDE DEF K
  <2>10. Listed(f[i + 1].list[o], P) <= Listed(q.list[o], P) + Cardinality(K(i + 1))
    BY <1>4, <2>5, <2>8, <2>9
  <2>. QED
    BY <2>2, <2>8, <2>10
<1>5. Good(n)
  <2>. HIDE DEF Good
  <2>1. 0 \in T
    BY <1>2, <1>3
  <2>2. \A i \in 0..n : i \in T /\ i < n => i + 1 \in T
    BY <1>2, <1>4
  <2>3. \A i \in 0..n : i \in T
    <3>. HIDE DEF T, n
    <3>. QED
      BY <1>2, <2>1, <2>2, IntervalInduction
  <2>. QED
    BY <1>2, <2>3
<1>6. K(n) = Places(s, P)
  BY <1>2 DEF Places
<1>. QED
  BY <1>1, <1>5, <1>6 DEF Listed

-----------------------------------------------------------------------------
(* The copies of an event from state to state. *)

LEMMA AfootParts ==
    ASSUME NEW e, NEW j, NEW s, NEW k, NEW h, NEW l, NEW x
    PROVE  /\ \A p : <<"set", p>> \in Afoot(e, j, s, k, h, l, x) <=> p \in s /\ p \in Upto(e, j)
           /\ \A w : <<"worker", w>> \in Afoot(e, j, s, k, h, l, x) <=> w \in AtWork(e, j, k, h)
           /\ \A m : <<"lease", m>> \in Afoot(e, j, s, k, h, l, x) <=> m \in Unclaimed(Upto(e, j), h, l, x)
           /\ \A c \in Afoot(e, j, s, k, h, l, x) :
                 \/ \E p : c = <<"set", p>> \/ \E w : c = <<"worker", w>> \/ \E m : c = <<"lease", m>>
<1>. DEFINE A == Afoot(e, j, s, k, h, l, x)
<1>1. \A p : <<"set", p>> \in A <=> p \in s /\ p \in Upto(e, j)
  BY DEF Afoot
<1>2. \A w : <<"worker", w>> \in A <=> w \in AtWork(e, j, k, h)
  BY DEF Afoot
<1>3. \A m : <<"lease", m>> \in A <=> m \in Unclaimed(Upto(e, j), h, l, x)
  BY DEF Afoot
<1>4. \A c \in A : \/ \E p : c = <<"set", p>> \/ \E w : c = <<"worker", w>> \/ \E m : c = <<"lease", m>>
  BY DEF Afoot
<1>. QED
  BY <1>1, <1>2, <1>3, <1>4

\* Inclusion, but for one element on each side, part by part.
LEMMA AfootWithin ==
    ASSUME NEW e, NEW j, NEW s, NEW k, NEW h, NEW l, NEW x, NEW s1, NEW k1, NEW h1, NEW l1, NEW x1, NEW a, NEW b,
           \A p \in s1 \cap Upto(e, j) : <<"set", p>> # b => p \in s /\ <<"set", p>> # a,
           \A w \in AtWork(e, j, k1, h1) : <<"worker", w>> # b => w \in AtWork(e, j, k, h) /\ <<"worker", w>> # a,
           \A m \in Unclaimed(Upto(e, j), h1, l1, x1) :
               <<"lease", m>> # b => m \in Unclaimed(Upto(e, j), h, l, x) /\ <<"lease", m>> # a
    PROVE  Afoot(e, j, s1, k1, h1, l1, x1) \ {b} \subseteq Afoot(e, j, s, k, h, l, x) \ {a}
<1>. DEFINE A == Afoot(e, j, s, k, h, l, x)
            B == Afoot(e, j, s1, k1, h1, l1, x1)
<1>. SUFFICES ASSUME NEW c \in B, c # b PROVE c \in A /\ c # a
  OBVIOUS
<1>1. ASSUME NEW p, c = <<"set", p>> PROVE c \in A /\ c # a
  BY <1>1, AfootParts
<1>2. ASSUME NEW w, c = <<"worker", w>> PROVE c \in A /\ c # a
  BY <1>2, AfootParts
<1>3. ASSUME NEW m, c = <<"lease", m>> PROVE c \in A /\ c # a
  BY <1>3, AfootParts
<1>. QED
  BY <1>1, <1>2, <1>3, AfootParts

\* Tags are not mixed up, and the spare element is none of them.
LEMMA Tags ==
    /\ \A p, w : <<"set", p>> # <<"worker", w>> /\ <<"set", p>> # <<"lease", w>> /\ <<"worker", p>> # <<"lease", w>>
    /\ \A p, q : <<"set", p>> = <<"set", q>> => p = q
    /\ \A p, q : <<"worker", p>> = <<"worker", q>> => p = q
    /\ \A p, q : <<"lease", p>> = <<"lease", q>> => p = q
    /\ \A p, q : <<"set", p>> # <<"none", q>> /\ <<"worker", p>> # <<"none", q>> /\ <<"lease", p>> # <<"none", q>>
  OBVIOUS

\* Nothing new: the sets do not grow.
LEMMA AfootShrinks ==
    ASSUME NEW e, NEW j, NEW s, NEW k, NEW h, NEW l, NEW x, NEW s1, NEW k1, NEW h1, NEW l1, NEW x1,
           s1 \subseteq s, AtWork(e, j, k1, h1) \subseteq AtWork(e, j, k, h),
           Unclaimed(Upto(e, j), h1, l1, x1) \subseteq Unclaimed(Upto(e, j), h, l, x)
    PROVE  Afoot(e, j, s1, k1, h1, l1, x1) \subseteq Afoot(e, j, s, k, h, l, x)
<1>. DEFINE A == Afoot(e, j, s, k, h, l, x)
            B == Afoot(e, j, s1, k1, h1, l1, x1)
            z == <<"none", "none">>
<1>1. B \ {z} \subseteq A \ {z}
  <2>1. /\ \A p \in s1 \cap Upto(e, j) : <<"set", p>> # z => p \in s /\ <<"set", p>> # z
        /\ \A w \in AtWork(e, j, k1, h1) : <<"worker", w>> # z => w \in AtWork(e, j, k, h) /\ <<"worker", w>> # z
        /\ \A m \in Unclaimed(Upto(e, j), h1, l1, x1) :
               <<"lease", m>> # z => m \in Unclaimed(Upto(e, j), h, l, x) /\ <<"lease", m>> # z
    BY Tags
  <2>. HIDE DEF z
  <2>. QED
    BY <2>1, AfootWithin
<1>2. z \notin B
  BY AfootParts, Tags
<1>. QED
  BY <1>1, <1>2

\* The same for a step of the system.
LEMMA AfootStep ==
    ASSUME NEW e, NEW j, NEW a, NEW b,
           \A p \in (later' \cup due') \cap Upto(e, j) : <<"set", p>> # b => p \in later \cup due /\ <<"set", p>> # a,
           \A w \in AtWork(e, j, pc', hold') : <<"worker", w>> # b => w \in AtWork(e, j, pc, hold) /\ <<"worker", w>> # a,
           \A m \in Unclaimed(Upto(e, j), hold', processing', expired') :
               <<"lease", m>> # b => m \in Unclaimed(Upto(e, j), hold, processing, expired) /\ <<"lease", m>> # a
    PROVE  Afoot(e, j, later' \cup due', pc', hold', processing', expired') \ {b}
             \subseteq Afoot(e, j, later \cup due, pc, hold, processing, expired) \ {a}
<1>. DEFINE A == Afoot(e, j, later \cup due, pc, hold, processing, expired)
            B == Afoot(e, j, later' \cup due', pc', hold', processing', expired')
<1>. SUFFICES ASSUME NEW c \in B, c # b PROVE c \in A /\ c # a
  OBVIOUS
<1>1. ASSUME NEW p, c = <<"set", p>> PROVE c \in A /\ c # a
  BY <1>1, AfootParts
<1>2. ASSUME NEW w, c = <<"worker", w>> PROVE c \in A /\ c # a
  BY <1>2, AfootParts
<1>3. ASSUME NEW m, c = <<"lease", m>> PROVE c \in A /\ c # a
  BY <1>3, AfootParts
<1>. QED
  BY <1>1, <1>2, <1>3, AfootParts

\* Where the labels lead: a request once made stays behind the copy in hand.
LEMMA LabelsMove ==
    ASSUME TypeInv, NEW w \in Workers, WorkerStep(w), ~Pick(w)
    PROVE  /\ pc[w] = "ack" => pc'[w] = "pick"
           /\ pc[w] \in SpentLabels => pc'[w] \in SpentLabels \cup {"ack", "pick"}
<1>0. pc \in [Workers -> Labels]
  BY DEF TypeInv, WorkersOK
<1>1. CASE Bury(w) \/ AckStep(w) \/ PanicFail(w) \/ Abandon(w)
  BY <1>0, <1>1 DEF Bury, AckStep, PanicFail, Abandon, Free, Goto
<1>2. CASE Load(w) \/ Undeliverable(w) \/ Defer(w) \/ MarkEventInFlight(w) \/ Prepare(w)
           \/ MarkEventFiltered(w) \/ Send(w)
  BY <1>0, <1>2 DEF Load, Undeliverable, Defer, MarkEventInFlight, Prepare, MarkEventFiltered, Send, SpentLabels, Goto
<1>3. CASE RecordAttempt(w) \/ RecordAttemptFails(w)
  <2>1. AfterRecord(w) \in SpentLabels /\ pc[w] = "record" /\ pc' = [pc EXCEPT ![w] = AfterRecord(w)]
    BY <1>3 DEF RecordAttempt, RecordAttemptFails, AfterRecord, SpentLabels, Goto
  <2>. QED
    BY <1>0, <2>1
<1>4. CASE MarkEventDelivered(w) \/ MarkEventFailed(w) \/ Retry(w) \/ PanicBury(w) \/ Panic(w)
  BY <1>0, <1>4 DEF MarkEventDelivered, MarkEventFailed, Retry, PanicBury, Panic, SpentLabels, Goto
<1>. QED
  BY <1>1, <1>2, <1>3, <1>4 DEF WorkerStep, Process

LEMMA AtWorkShrinks ==
    ASSUME TypeInv, NEW w \in Workers, WorkerStep(w), ~Pick(w), NEW e, NEW j \in Nat
    PROVE  AtWork(e, j, pc', hold') \subseteq AtWork(e, j, pc, hold)
<1>1. \A v \in Workers \ {w} : pc'[v] = pc[v] /\ hold'[v] = hold[v]
  BY OneMoves
<1>2. ASSUME w \in AtWork(e, j, pc', hold') PROVE w \in AtWork(e, j, pc, hold)
  <2>1. pc'[w] \notin {"pick", "ack"} /\ pc[w] # "pick" /\ hold'[w] = hold[w]
    BY <1>2, OneMoves DEF AtWork
  <2>2. pc[w] # "ack" /\ (pc[w] \in SpentLabels => pc'[w] \in SpentLabels)
    BY <2>1, LabelsMove
  <2>3. Level(hold[w].evt.attempt) \in Int
    <3>1. hold[w].evt.attempt \in 0..MaxAttempt
      BY <2>1, HoldType DEF TypeInv
    <3>. QED
      BY <3>1, RetriesAssumption, AttemptAssumption DEF Level
  <2>. QED
    BY <1>2, <2>1, <2>2, <2>3 DEF AtWork
<1>. QED
  BY <1>1, <1>2 DEF AtWork

\* The leases without a worker, when the leases do not grow and at most one
\* holder lets go.
LEMMA UnclaimedShrinks ==
    ASSUME NEW P, NEW h, NEW l, NEW x, NEW h1, NEW l1, NEW x1, NEW y,
           l1 \subseteq l, x1 \subseteq x,
           \A v \in Workers : h[v] \in l1 => h1[v] = h[v] \/ h[v] = y
    PROVE  \A m \in Unclaimed(P, h1, l1, x1) : m # y => m \in Unclaimed(P, h, l, x)
  BY DEF Unclaimed

\* A step of a worker that neither picks nor schedules nor lets go of a lease that
\* is still there.
LEMMA StaysAfoot ==
    ASSUME TypeInv, NEW w \in Workers, WorkerStep(w), NEW e, NEW j \in Nat,
           ~Pick(w), ~Defer(w), ~Retry(w), ~Abandon(w), ~PanicFail(w)
    PROVE  /\ Afoot(e, j, later' \cup due', pc', hold', processing', expired')
                \subseteq Afoot(e, j, later \cup due, pc, hold, processing, expired)
           /\ pending' = pending
<1>0. WorkersOK
  BY DEF TypeInv
<1>1. AtWork(e, j, pc', hold') \subseteq AtWork(e, j, pc, hold)
  BY AtWorkShrinks
<1>2. /\ UNCHANGED <<later, due, pending>> /\ processing' \subseteq processing /\ expired' \subseteq expired
      /\ hold'[w] = hold[w] \/ hold[w] \notin processing'
  <2>1. CASE AckStep(w) \/ Bury(w)
    BY <2>1 DEF AckStep, Bury, Ack, DeadLetter
  <2>2. CASE PanicBury(w)
    BY <2>2 DEF PanicBury, DeadLetter, queueVars
  <2>. QED
    BY <2>1, <2>2 DEF WorkerStep, Process, Load, Undeliverable, MarkEventInFlight, queueVars,
       Prepare, MarkEventFiltered, Send, RecordAttempt, MarkEventDelivered, MarkEventFailed,
       RecordAttemptFails, Panic
<1>3. \A v \in Workers \ {w} : hold'[v] = hold[v]
  BY OneMoves
<1>4. \A m \in Unclaimed(Upto(e, j), hold', processing', expired') :
          m # NoMember => m \in Unclaimed(Upto(e, j), hold, processing, expired)
  BY <1>2, <1>3, UnclaimedShrinks
<1>5. NoMember \notin processing'
  BY <1>2, DeliverNoMember DEF TypeInv, QInv, QueueTypeOK
<1>6. Unclaimed(Upto(e, j), hold', processing', expired') \subseteq Unclaimed(Upto(e, j), hold, processing, expired)
  BY <1>4, <1>5 DEF Unclaimed
<1>. QED
  BY <1>1, <1>2, <1>6, AfootShrinks

\* Schedule, then Ack: the copy in hand becomes a scheduled one of the same level.
LEMMA ReschedulesAfoot ==
    ASSUME TypeInv, NEW w \in Workers, Defer(w) \/ Retry(w), NEW e, NEW j \in Nat
    PROVE  \E b :
             LET A == Afoot(e, j, later \cup due, pc, hold, processing, expired)
                 B == Afoot(e, j, later' \cup due', pc', hold', processing', expired')
             IN  /\ B \ {b} \subseteq A \ {<<"worker", w>>} /\ (b \in B => <<"worker", w>> \in A)
                 /\ pending' = pending /\ UNCHANGED <<processing, expired, hold>>
<1>0. WorkersOK /\ pc[w] # "pick" /\ WorkerStep(w) /\ ~Pick(w) /\ pc' = [pc EXCEPT ![w] = "ack"]
  BY DEF TypeInv, Defer, Retry, WorkerStep, Process, Pick, Goto
<1>1. hold[w].evt \in Payloads /\ hold[w].evt.attempt \in 0..MaxAttempt /\ Ev(w) \in Events
  BY <1>0, HoldType
<1>2. MaxRetries \in Nat /\ MaxAttempt \in Nat /\ MaxRetries <= MaxAttempt
  BY RetriesAssumption, AttemptAssumption
<1>3. PICK p \in Payloads :
        /\ Schedule(p) /\ p.ev = Ev(w)
        /\ Level(p.attempt) = Level(hold[w].evt.attempt) + (IF pc[w] \in SpentLabels THEN 1 ELSE 0)
  <2>1. CASE Defer(w)
    <3>1. PICK at \in Stamps : Schedule([hold[w].evt EXCEPT !.at = at])
      BY <2>1 DEF Defer
    <3>. DEFINE p == [hold[w].evt EXCEPT !.at = at]
    <3>2. p \in Payloads /\ p.ev = Ev(w) /\ p.attempt = hold[w].evt.attempt
      BY <1>1 DEF Payloads, Ev
    <3>3. pc[w] \notin SpentLabels
      BY <2>1 DEF Defer, SpentLabels
    <3>4. Level(hold[w].evt.attempt) \in Int
      BY <1>1, <1>2 DEF Level
    <3>5. Level(p.attempt) = Level(hold[w].evt.attempt) + (IF pc[w] \in SpentLabels THEN 1 ELSE 0)
      <4>. HIDE DEF p
      <4>. QED
        BY <3>2, <3>3, <3>4
    <3>. QED
      BY <3>1, <3>2, <3>5
  <2>2. CASE Retry(w)
    <3>. DEFINE p == [hold[w].evt EXCEPT !.attempt = @ + 1]
    <3>0. hold[w].evt.attempt + 1 <= MaxRetries
      BY <1>0, <2>2 DEF Retry, WorkersOK
    <3>1. hold[w].evt.attempt + 1 \in 0..MaxAttempt
      BY <1>1, <1>2, <3>0
    <3>2. p \in Payloads /\ p.ev = Ev(w) /\ p.attempt = hold[w].evt.attempt + 1
      BY <1>1, <3>1 DEF Payloads, Ev
    <3>3. Level(hold[w].evt.attempt + 1) = Level(hold[w].evt.attempt) + 1
      BY <1>1, <1>2, <3>0 DEF Level
    <3>4. pc[w] \in SpentLabels /\ Schedule(p)
      BY <2>2 DEF Retry, SpentLabels
    <3>. QED
      BY <3>2, <3>3, <3>4
  <2>. QED
    BY <2>1, <2>2
<1>. DEFINE A == Afoot(e, j, later \cup due, pc, hold, processing, expired)
            B == Afoot(e, j, later' \cup due', pc', hold', processing', expired')
            b == <<"set", p>>
            a == <<"worker", w>>
<1>4. UNCHANGED <<pending, processing, expired, hold>> /\ later' \cup due' \subseteq (later \cup due) \cup {p}
  BY <1>3 DEF Schedule, Defer, Retry
<1>5. AtWork(e, j, pc', hold') \subseteq AtWork(e, j, pc, hold) /\ w \notin AtWork(e, j, pc', hold')
  <2>1. w \notin AtWork(e, j, pc', hold')
    BY <1>0 DEF AtWork, WorkersOK
  <2>. QED
    BY <1>0, <2>1, AtWorkShrinks
<1>6. B \ {b} \subseteq A \ {a}
  <2>1. /\ \A q \in (later' \cup due') \cap Upto(e, j) : <<"set", q>> # b => q \in later \cup due /\ <<"set", q>> # a
        /\ \A v \in AtWork(e, j, pc', hold') : <<"worker", v>> # b => v \in AtWork(e, j, pc, hold) /\ <<"worker", v>> # a
        /\ \A m \in Unclaimed(Upto(e, j), hold', processing', expired') :
               <<"lease", m>> # b => m \in Unclaimed(Upto(e, j), hold, processing, expired) /\ <<"lease", m>> # a
    BY <1>4, <1>5, Tags
  <2>. QED
    BY <2>1, AfootStep
<1>7. b \in B => a \in A
  <2>. SUFFICES ASSUME b \in B PROVE a \in A
    OBVIOUS
  <2>1. p \in Upto(e, j)
    BY AfootParts
  <2>2. w \in AtWork(e, j, pc, hold)
    BY <1>0, <1>3, <2>1 DEF Upto, AtWork, Ev, Defer, Retry
  <2>. QED
    BY <2>2, AfootParts
<1>. QED
  BY <1>4, <1>6, <1>7

\* A lease is left behind.
LEMMA LeavesAfoot ==
    ASSUME TypeInv, NEW w \in Workers, Abandon(w) \/ PanicFail(w), NEW e, NEW j \in Nat
    PROVE  LET A == Afoot(e, j, later \cup due, pc, hold, processing, expired)
               B == Afoot(e, j, later' \cup due', pc', hold', processing', expired')
               b == <<"lease", hold[w]>>
           IN  /\ B \ {b} \subseteq A
               /\ pending' = pending
               /\ PanicFail(w) => B \ {b} \subseteq A \ {<<"worker", w>>} /\ (b \in B => <<"worker", w>> \in A)
<1>y. PICK y : y = hold[w]
  OBVIOUS
<1>. DEFINE A == Afoot(e, j, later \cup due, pc, hold, processing, expired)
            B == Afoot(e, j, later' \cup due', pc', hold', processing', expired')
            b == <<"lease", y>>
            a == <<"worker", w>>
<1>0. WorkersOK /\ pc[w] # "pick" /\ WorkerStep(w) /\ ~Pick(w) /\ pc' = [pc EXCEPT ![w] = "pick"]
  BY DEF TypeInv, Abandon, PanicFail, WorkerStep, Process, Pick, Free, Goto
<1>1. UNCHANGED <<pending, processing, expired, later, due>>
  BY DEF Abandon, PanicFail, queueVars
<1>2. AtWork(e, j, pc', hold') \subseteq AtWork(e, j, pc, hold) /\ w \notin AtWork(e, j, pc', hold')
  <2>1. w \notin AtWork(e, j, pc', hold')
    BY <1>0 DEF AtWork, WorkersOK
  <2>. QED
    BY <1>0, <2>1, AtWorkShrinks
<1>3. \A v \in Workers \ {w} : hold'[v] = hold[v]
  BY <1>0, OneMoves
<1>4. \A m \in Unclaimed(Upto(e, j), hold', processing', expired') :
          m # y => m \in Unclaimed(Upto(e, j), hold, processing, expired)
  BY <1>1, <1>3, <1>y, UnclaimedShrinks
<1>5. B \ {b} \subseteq A \ {a}
  <2>1. /\ \A q \in (later' \cup due') \cap Upto(e, j) : <<"set", q>> # b => q \in later \cup due /\ <<"set", q>> # a
        /\ \A v \in AtWork(e, j, pc', hold') : <<"worker", v>> # b => v \in AtWork(e, j, pc, hold) /\ <<"worker", v>> # a
        /\ \A m \in Unclaimed(Upto(e, j), hold', processing', expired') :
               <<"lease", m>> # b => m \in Unclaimed(Upto(e, j), hold, processing, expired) /\ <<"lease", m>> # a
    BY <1>1, <1>2, <1>4, Tags
  <2>. QED
    BY <2>1, AfootStep
<1>6. PanicFail(w) /\ b \in B => a \in A
  <2>. SUFFICES ASSUME PanicFail(w), b \in B PROVE a \in A
    OBVIOUS
  <2>1. hold[w].evt \in Upto(e, j) /\ pc[w] = "panicFail"
    BY <1>y, AfootParts DEF Unclaimed, PanicFail
  <2>2. Level(hold[w].evt.attempt) \in Int
    <3>1. hold[w].evt.attempt \in 0..MaxAttempt
      BY <1>0, HoldType
    <3>. QED
      BY <3>1, RetriesAssumption, AttemptAssumption DEF Level
  <2>3. w \in AtWork(e, j, pc, hold)
    BY <2>1, <2>2 DEF Upto, AtWork, SpentLabels
  <2>. QED
    BY <2>3, AfootParts
<1>. QED
  BY <1>1, <1>5, <1>6, <1>y

\* A pick takes the copy out of its list and puts it into the worker's hands.
LEMMA PickAfoot ==
    ASSUME TypeInv, AtHome, NEW w \in Workers, Pick(w), NEW e \in Events, NEW j \in Nat
    PROVE  /\ AtHome'
           /\ \E n \in {0, 1} :
                 /\ Listed(pending'[OrgOf[e]], Upto(e, j)) + n = Listed(pending[OrgOf[e]], Upto(e, j))
                 /\ Afoot(e, j, later' \cup due', pc', hold', processing', expired') \ {<<"worker", w>>}
                      \subseteq Afoot(e, j, later \cup due, pc, hold, processing, expired)
                 /\ <<"worker", w>> \in Afoot(e, j, later' \cup due', pc', hold', processing', expired') => n = 1
<1>0. QInv /\ WorkersOK
  BY DEF TypeInv
<1>1. PICK tok \in Fresh :
         /\ FairPick(tok)
         /\ hold' = [hold EXCEPT ![w] = [tok |-> tok, evt |-> Head(pending[Head(ring)])]]
  BY DEF Pick
<1>2. PICK o, p : o = Head(ring) /\ p = Head(pending[o])
  OBVIOUS
<1>3. /\ ring \in Seq(Orgs) /\ ring # <<>> /\ o \in Orgs
      /\ pending \in [Orgs -> Seq(Payloads)] /\ pending[o] \in Seq(Payloads) /\ pending[o] # <<>>
      /\ p \in Payloads /\ 1 \in DOMAIN pending[o] /\ p = pending[o][1]
  BY <1>0, <1>1, <1>2 DEF FairPick, QInv, QueueTypeOK
<1>4. PICK new : new = [tok |-> tok, evt |-> p]
  OBVIOUS
<1>5. /\ pending' = [pending EXCEPT ![o] = Tail(@)] /\ processing' = processing \cup {new}
      /\ UNCHANGED <<expired, later, due>>
      /\ hold' = [hold EXCEPT ![w] = new] /\ pc' = [pc EXCEPT ![w] = "load"] /\ pc[w] = "pick"
  BY <1>1, <1>2, <1>4 DEF FairPick, Pick, Goto
<1>6. OrgOf[p.ev] = o /\ new.evt = p
  BY <1>3, <1>4 DEF AtHome
<1>7. /\ pending'[o] = Tail(pending[o]) /\ \A x \in Orgs : x # o => pending'[x] = pending[x]
      /\ \A i \in DOMAIN Tail(pending[o]) : i + 1 \in DOMAIN pending[o] /\ Tail(pending[o])[i] = pending[o][i + 1]
  BY <1>3, <1>5
<1>8. AtHome'
  <2>. SUFFICES ASSUME NEW x \in Orgs, NEW i \in DOMAIN pending'[x] PROVE OrgOf[pending'[x][i].ev] = x
    BY DEF AtHome
  <2>1. CASE x = o
    <3>1. i + 1 \in DOMAIN pending[o] /\ pending'[x][i] = pending[o][i + 1]
      BY <1>7, <2>1
    <3>2. OrgOf[pending[o][i + 1].ev] = o
      BY <1>3, <3>1 DEF AtHome
    <3>. QED
      BY <2>1, <3>1, <3>2
  <2>2. CASE x # o
    BY <1>3, <1>7, <2>2 DEF AtHome
  <2>. QED
    BY <2>1, <2>2
<1>. DEFINE n == IF p \in Upto(e, j) THEN 1 ELSE 0
<1>9. Listed(pending'[OrgOf[e]], Upto(e, j)) + n = Listed(pending[OrgOf[e]], Upto(e, j))
  <2>0. OrgOf[e] \in Orgs /\ pending[OrgOf[e]] \in Seq(Payloads)
    BY <1>3, OrgOfAssumption
  <2>1. CASE OrgOf[e] = o
    <3>1. Listed(Tail(pending[o]), Upto(e, j)) + (IF Head(pending[o]) \in Upto(e, j) THEN 1 ELSE 0)
             = Listed(pending[o], Upto(e, j))
      BY <1>3, ListedTail
    <3>. QED
      BY <1>2, <1>7, <2>1, <3>1
  <2>2. CASE OrgOf[e] # o
    <3>1. n = 0
      BY <1>6, <2>2 DEF Upto
    <3>2. Listed(pending[OrgOf[e]], Upto(e, j)) \in Nat
      BY <2>0, PlacesFinite
    <3>. QED
      BY <1>7, <2>0, <2>2, <3>1, <3>2
  <2>. QED
    BY <2>1, <2>2
<1>. DEFINE a == <<"none", "none">>
            b == <<"worker", w>>
<1>10. Afoot(e, j, later' \cup due', pc', hold', processing', expired') \ {b}
         \subseteq Afoot(e, j, later \cup due, pc, hold, processing, expired) \ {a}
  <2>1. \A v \in AtWork(e, j, pc', hold') : v # w => v \in AtWork(e, j, pc, hold)
    BY <1>0, <1>5 DEF AtWork, WorkersOK
  <2>2. new \notin expired /\ hold'[w] = new
    <3>1. \A m \in expired : m.tok # tok
      BY <1>0, <1>1 DEF Fresh, QInv, QueueTypeOK
    <3>. QED
      BY <1>0, <1>4, <1>5, <3>1 DEF WorkersOK
  <2>3. \A m \in Unclaimed(Upto(e, j), hold', processing', expired') : m \in Unclaimed(Upto(e, j), hold, processing, expired)
    <3>. SUFFICES ASSUME NEW m \in Unclaimed(Upto(e, j), hold', processing', expired')
                  PROVE  m \in Unclaimed(Upto(e, j), hold, processing, expired)
      OBVIOUS
    <3>1. m # new
      BY <1>5, <2>2 DEF Unclaimed
    <3>2. m \in processing /\ m # NoMember
      BY <1>0, <1>5, <3>1, DeliverNoMember DEF Unclaimed, QInv, QueueTypeOK
    <3>3. hold[w] = NoMember /\ \A v \in Workers \ {w} : hold'[v] = hold[v]
      BY <1>0, <1>5 DEF WorkersOK
    <3>. QED
      BY <1>5, <3>2, <3>3 DEF Unclaimed
  <2>4. /\ \A q \in (later' \cup due') \cap Upto(e, j) : <<"set", q>> # b => q \in later \cup due /\ <<"set", q>> # a
        /\ \A v \in AtWork(e, j, pc', hold') : <<"worker", v>> # b => v \in AtWork(e, j, pc, hold) /\ <<"worker", v>> # a
        /\ \A m \in Unclaimed(Upto(e, j), hold', processing', expired') :
               <<"lease", m>> # b => m \in Unclaimed(Upto(e, j), hold, processing, expired) /\ <<"lease", m>> # a
    BY <1>5, <2>1, <2>3, Tags
  <2>. QED
    BY <2>4, AfootStep
<1>11. b \in Afoot(e, j, later' \cup due', pc', hold', processing', expired') => n = 1
  <2>. SUFFICES ASSUME w \in AtWork(e, j, pc', hold') PROVE p \in Upto(e, j)
    BY AfootParts
  <2>1. pc'[w] = "load" /\ hold'[w] = new
    BY <1>0, <1>5 DEF WorkersOK
  <2>2. Level(p.attempt) \in Int
    BY <1>3, RetriesAssumption, AttemptAssumption DEF Level, Payloads
  <2>3. new.evt.ev = e /\ Level(new.evt.attempt) + 0 <= j
    BY <2>1 DEF AtWork, SpentLabels
  <2>. QED
    BY <1>3, <1>6, <2>2, <2>3 DEF Upto
<1>12. n \in {0, 1}
  OBVIOUS
<1>. QED
  BY <1>8, <1>9, <1>10, <1>11, <1>12

\* Pushing payloads from outside, or from the scheduled set.
LEMMA InjectListed ==
    ASSUME QInv, NEW s \in Seq(Payloads), Inject(s), NEW e \in Events, NEW P
    PROVE  /\ Listed(pending'[OrgOf[e]], P) <= Listed(pending[OrgOf[e]], P) + Listed(s, P)
           /\ Listed(pending[OrgOf[e]], P) \in Nat /\ Listed(pending'[OrgOf[e]], P) \in Nat /\ Listed(s, P) \in Nat
<1>. DEFINE q == [list |-> pending, ring |-> ring]
<1>1. q \in Lists /\ q.list = pending /\ OrgOf[e] \in Orgs
  BY OrgOfAssumption DEF QInv, QueueTypeOK, Lists
<1>2. pending' = PushAll(q, s).list
  BY DEF Inject
<1>. HIDE DEF q
<1>3. Listed(pending'[OrgOf[e]], P) <= Listed(pending[OrgOf[e]], P) + Listed(s, P)
  BY <1>1, <1>2, PushAllListed
<1>4. pending[OrgOf[e]] \in Seq(Payloads) /\ pending'[OrgOf[e]] \in Seq(Payloads)
  BY <1>1, InjectLemma DEF QInv, QueueTypeOK
<1>. QED
  BY <1>3, <1>4, PlacesFinite

LEMMA ListedOne ==
    ASSUME NEW p \in Payloads, NEW P PROVE Listed(<<p>>, P) = IF p \in P THEN 1 ELSE 0
<1>1. <<>> \in Seq(Payloads) /\ Append(<<>>, p) = <<p>>
  OBVIOUS
<1>2. Listed(<<>>, P) = 0
  <2>1. Places(<<>>, P) = {}
    BY DEF Places
  <2>. QED
    BY <2>1, FS_EmptySet DEF Listed
<1>3. Listed(Append(<<>>, p), P) = Listed(<<>>, P) + (IF p \in P THEN 1 ELSE 0)
  BY <1>1, ListedAppend
<1>. QED
  BY <1>1, <1>2, <1>3

\* The mover: what it adds to the lists it takes from the scheduled set.
LEMMA PromoteAfoot ==
    ASSUME TypeInv, AtHome, Mover, NEW e \in Events, NEW j \in Nat,
           IsFiniteSet(Afoot(e, j, later \cup due, pc, hold, processing, expired))
    PROVE  LET A == Afoot(e, j, later \cup due, pc, hold, processing, expired)
               B == Afoot(e, j, later' \cup due', pc', hold', processing', expired')
           IN  /\ AtHome' /\ IsFiniteSet(B)
               /\ Listed(pending'[OrgOf[e]], Upto(e, j)) + Cardinality(B)
                     <= Listed(pending[OrgOf[e]], Upto(e, j)) + Cardinality(A)
<1>. DEFINE P == Upto(e, j)
            A == Afoot(e, j, later \cup due, pc, hold, processing, expired)
            B == Afoot(e, j, later' \cup due', pc', hold', processing', expired')
<1>0. QInv /\ UNCHANGED <<pc, hold>>
  BY DEF TypeInv, Mover, rest, workers
<1>1. PICK s \in Batches : /\ due' = due \ {s[i] : i \in DOMAIN s}
                           /\ Inject(s)
                           /\ UNCHANGED <<processing, expired, later, dead>>
  BY DEF Mover, PromoteDue
<1>2. PICK n \in 0..PromoteLimit : s \in [1..n -> due]
  BY DEF Batches
<1>3. s \in Seq(Payloads) /\ \A i, k \in DOMAIN s : i # k => s[i] # s[k]
  <2>1. due \subseteq Payloads
    BY <1>0 DEF QInv, QueueTypeOK
  <2>2. n \in Nat
    BY LimitAssumption
  <2>3. s \in [1..n -> Payloads]
    BY <1>2, <2>1
  <2>4. s \in Seq(Payloads)
    BY <2>2, <2>3
  <2>. QED
    BY <2>4 DEF Batches
<1>4. AtHome'
  BY <1>0, <1>1, <1>3, InjectCounts
<1>. DEFINE K == Places(s, P)
            f == [i \in K |-> <<"set", s[i]>>]
<1>5. B \subseteq A
  <2>1. later' \cup due' \subseteq later \cup due
    BY <1>1
  <2>. QED
    BY <1>0, <1>1, <2>1, AfootShrinks
<1>6. \A i \in K : <<"set", s[i]>> \in A \ B
  <2>. SUFFICES ASSUME NEW i \in K PROVE <<"set", s[i]>> \in A \ B
    OBVIOUS
  <2>1. s[i] \in due /\ s[i] \in P /\ s[i] \notin due'
    BY <1>1, <1>2 DEF Places
  <2>2. s[i] \notin later
    BY <1>0, <2>1 DEF QInv, QueueTypeOK
  <2>3. s[i] \in later \cup due /\ s[i] \notin later' \cup due'
    BY <1>1, <2>1, <2>2
  <2>. QED
    BY <2>1, <2>3, AfootParts
<1>7. f \in Injection(K, A \ B)
  <2>. HIDE DEF A, B
  <2>1. f \in [K -> A \ B]
    BY <1>6
  <2>2. \A i, k \in K : f[i] = f[k] => i = k
    <3>. SUFFICES ASSUME NEW i \in K, NEW k \in K, f[i] = f[k] PROVE i = k
      OBVIOUS
    <3>1. <<"set", s[i]>> = <<"set", s[k]>> /\ i \in DOMAIN s /\ k \in DOMAIN s
      BY DEF Places
    <3>2. s[i] = s[k]
      BY <3>1, Tags
    <3>. QED
      BY <1>3, <3>1, <3>2
  <2>. QED
    BY <2>1, <2>2 DEF Injection, IsInjective
<1>8. /\ Listed(pending'[OrgOf[e]], P) <= Listed(pending[OrgOf[e]], P) + Listed(s, P)
      /\ Listed(pending[OrgOf[e]], P) \in Nat /\ Listed(pending'[OrgOf[e]], P) \in Nat /\ Listed(s, P) \in Nat
  BY <1>0, <1>1, <1>3, InjectListed
<1>9. /\ IsFiniteSet(B) /\ Cardinality(A) \in Nat /\ Cardinality(B) \in Nat
      /\ Listed(s, P) + Cardinality(B) <= Cardinality(A)
  <2>. HIDE DEF A, B, f
  <2>1. IsFiniteSet(A)
    BY DEF A
  <2>. QED
    BY <1>5, <1>7, <2>1, MovedOut DEF Listed
<1>. HIDE DEF A, B, P
<1>10. Listed(pending'[OrgOf[e]], P) + Cardinality(B) <= Listed(pending[OrgOf[e]], P) + Cardinality(A)
  BY <1>8, <1>9
<1>. QED
  BY <1>4, <1>9, <1>10 DEF A, B, P

\* The recoverer: an expired lease becomes a scheduled member; two of one payload
\* become one.
LEMMA RecoverAfoot ==
    ASSUME TypeInv, Recoverer, NEW e \in Events, NEW j \in Nat,
           IsFiniteSet(Afoot(e, j, later \cup due, pc, hold, processing, expired))
    PROVE  LET A == Afoot(e, j, later \cup due, pc, hold, processing, expired)
               B == Afoot(e, j, later' \cup due', pc', hold', processing', expired')
           IN  pending' = pending /\ IsFiniteSet(B) /\ Cardinality(B) <= Cardinality(A)
<1>. DEFINE A == Afoot(e, j, later \cup due, pc, hold, processing, expired)
            B == Afoot(e, j, later' \cup due', pc', hold', processing', expired')
            D == {<<"lease", m>> : m \in expired}
            f == [c \in A |-> IF c \in D THEN <<"set", c[2].evt>> ELSE c]
            C == {f[c] : c \in A}
<1>0. QInv /\ UNCHANGED <<pc, hold>> /\ IsFiniteSet(A)
  BY DEF TypeInv, Recoverer, rest, workers
<1>1. /\ processing' = processing \ expired /\ expired' = {} /\ pending' = pending
      /\ later' \cup due' = (later \cup due) \cup {m.evt : m \in expired}
  BY DEF Recoverer, Recover
<1>2. B \subseteq C
  <2>. SUFFICES ASSUME NEW c \in B PROVE \E d \in A : f[d] = c
    OBVIOUS
  <2>1. ASSUME NEW p, c = <<"set", p>> PROVE \E d \in A : f[d] = c
    <3>0. p \in later' \cup due' /\ p \in Upto(e, j)
      BY <2>1, AfootParts
    <3>1. CASE p \in later \cup due
      <4>1. c \in A /\ c \notin D
        BY <2>1, <3>0, <3>1, AfootParts, Tags
      <4>. QED
        BY <4>1
    <3>2. CASE p \notin later \cup due
      <4>1. PICK m \in expired : p = m.evt
        BY <1>1, <3>0, <3>2
      <4>2. m \in Unclaimed(Upto(e, j), hold, processing, expired)
        BY <1>0, <3>0, <4>1 DEF Unclaimed, QInv, QueueTypeOK
      <4>3. <<"lease", m>> \in A /\ <<"lease", m>> \in D /\ <<"lease", m>>[2] = m
        BY <4>2, AfootParts
      <4>4. f[<<"lease", m>>] = <<"set", m.evt>>
        <5>. HIDE DEF A, D
        <5>. QED
          BY <4>3
      <4>. QED
        BY <2>1, <4>1, <4>3, <4>4
    <3>. QED
      BY <3>1, <3>2
  <2>2. ASSUME NEW w, c = <<"worker", w>> PROVE \E d \in A : f[d] = c
    <3>1. c \in A /\ c \notin D
      BY <1>0, <2>2, AfootParts, Tags
    <3>. QED
      BY <3>1
  <2>3. ASSUME NEW m, c = <<"lease", m>> PROVE \E d \in A : f[d] = c
    <3>0. m \in Unclaimed(Upto(e, j), hold', processing', expired')
      BY <2>3, AfootParts
    <3>1. m \in Unclaimed(Upto(e, j), hold, processing, expired) /\ m \notin expired
      BY <1>0, <1>1, <3>0 DEF Unclaimed
    <3>2. c \in A /\ c \notin D
      BY <2>3, <3>1, AfootParts, Tags
    <3>. QED
      BY <3>2
  <2>. QED
    BY <2>1, <2>2, <2>3, AfootParts
<1>. HIDE DEF A, B, D
<1>3. f \in Surjection(A, C)
  BY DEF Surjection
<1>. HIDE DEF f, C
<1>4. IsFiniteSet(C) /\ Cardinality(C) <= Cardinality(A) /\ B \in SUBSET C
  BY <1>0, <1>2, <1>3, FS_Surjection
<1>5. IsFiniteSet(B) /\ Cardinality(B) <= Cardinality(C)
  BY <1>4, FS_Subset
<1>6. Cardinality(A) \in Nat /\ Cardinality(B) \in Nat /\ Cardinality(C) \in Nat
  BY <1>0, <1>4, <1>5, FS_CardinalityType
<1>7. Cardinality(B) <= Cardinality(A)
  BY <1>4, <1>5, <1>6
<1>. QED
  BY <1>1, <1>5, <1>7 DEF A, B

LEMMA SourcesGrow ==
    ASSUME TypeInv, [Next]_vars, NEW e \in Events
    PROVE  /\ grants[e] \in Nat /\ grants'[e] \in Nat /\ grants[e] <= grants'[e]
           /\ used.faults \in Nat /\ used'.faults \in Nat /\ used.faults <= used'.faults
<1>1. used.faults \in Nat /\ used'.faults \in Nat /\ used.faults <= used'.faults
  BY MarksGrow
<1>2. grants \in [Events -> Nat]
  BY DEF TypeInv, HistoryOK
<1>3. ASSUME NEW x, grants' = [grants EXCEPT ![x] = @ + 1] PROVE grants'[e] \in Nat /\ grants[e] <= grants'[e]
  BY <1>2, <1>3
<1>4. ASSUME grants' = grants PROVE grants'[e] \in Nat /\ grants[e] <= grants'[e]
  BY <1>2, <1>4
<1>5. ASSUME NEW c \in calls, CallEnqueue(c) PROVE grants'[e] \in Nat /\ grants[e] <= grants'[e]
  BY <1>3, <1>5 DEF CallEnqueue
<1>6. ASSUME AdminRequeueDead PROVE grants'[e] \in Nat /\ grants[e] <= grants'[e]
  <2>1. PICK x \in Events : grants' = [grants EXCEPT ![x] = @ + 1]
    BY <1>6, RequeueParts
  <2>. QED
    BY <1>3, <2>1
<1>7. ASSUME NEW w \in Workers, WorkerStep(w) PROVE grants' = grants
  BY <1>7 DEF WorkerStep, Process, Pick, Load, Undeliverable, Defer, MarkEventInFlight,
     Prepare, MarkEventFiltered, Send, RecordAttempt, MarkEventDelivered, MarkEventFailed, Bury, Retry, Trim,
     AckStep, PanicBury, PanicFail, RecordAttemptFails, Panic, Abandon, history
<1>8. ASSUME OtherStep PROVE grants'[e] \in Nat /\ grants[e] <= grants'[e]
  BY <1>4, <1>5, <1>6, <1>8 DEF OtherStep, CreateEvent, RetryEvent, ClaimStuck, DeleteEvent, Ages,
     CallMarkQueued, CallFails, Mover, Recoverer, LeaseOverrun, TimeReaches, OrphanExpires, rest, history
<1>9. ASSUME UNCHANGED vars PROVE grants'[e] \in Nat /\ grants[e] <= grants'[e]
  BY <1>4, <1>9 DEF vars, history
<1>. QED
  BY <1>1, <1>2, <1>4, <1>7, <1>8, <1>9, NextSplit

\* m + |B| copies after the step, n + |A| before it: none but those that came from
\* outside, whose number went from s to t.
Conserved(A, B, n, m, s, t) == IsFiniteSet(B) /\ m + Cardinality(B) + s <= n + Cardinality(A) + t

LEMMA ConservedCases ==
    ASSUME NEW A, NEW B, NEW n \in Nat, NEW m \in Nat, NEW s \in Nat, NEW t \in Nat, IsFiniteSet(A), s <= t
    PROVE  /\ B \subseteq A /\ (m <= n \/ m + s <= n + t) => Conserved(A, B, n, m, s, t)
           /\ \A a, b : B \ {b} \subseteq A \ {a} /\ (b \in B => a \in A) /\ m = n => Conserved(A, B, n, m, s, t)
           /\ \A b : B \ {b} \subseteq A /\ m = n /\ s < t => Conserved(A, B, n, m, s, t)
           /\ \A b : B \ {b} \subseteq A /\ m < n => Conserved(A, B, n, m, s, t)
<1>0. Cardinality(A) \in Nat
  BY FS_CardinalityType
<1>1. ASSUME B \subseteq A, m <= n \/ m + s <= n + t PROVE Conserved(A, B, n, m, s, t)
  <2>1. B \in SUBSET A
    BY <1>1
  <2>2. IsFiniteSet(B) /\ Cardinality(B) <= Cardinality(A)
    BY <2>1, FS_Subset
  <2>3. Cardinality(B) \in Nat
    BY <2>2, FS_CardinalityType
  <2>. QED
    BY <1>0, <1>1, <2>2, <2>3 DEF Conserved
<1>2. ASSUME NEW a, NEW b, B \ {b} \subseteq A \ {a}, b \in B => a \in A, m = n PROVE Conserved(A, B, n, m, s, t)
  <2>1. IsFiniteSet(B) /\ Cardinality(B) \in Nat /\ Cardinality(B) <= Cardinality(A)
    BY <1>2, SwapOne
  <2>. QED
    BY <1>0, <1>2, <2>1 DEF Conserved
<1>3. ASSUME NEW b, B \ {b} \subseteq A, (m = n /\ s < t) \/ m < n PROVE Conserved(A, B, n, m, s, t)
  <2>1. IsFiniteSet(B) /\ Cardinality(B) \in Nat /\ Cardinality(B) <= Cardinality(A) + 1
    BY <1>3, GainOne
  <2>. QED
    BY <1>0, <1>3, <2>1 DEF Conserved
<1>. QED
  BY <1>1, <1>2, <1>3

LEMMA WorkerTally ==
    ASSUME TypeInv, TypeInv', AtHome, NEW w \in Workers, WorkerStep(w), NEW e \in Events, NEW j \in Nat,
           IsFiniteSet(Afoot(e, j, later \cup due, pc, hold, processing, expired))
    PROVE  /\ AtHome'
           /\ Conserved(Afoot(e, j, later \cup due, pc, hold, processing, expired),
                        Afoot(e, j, later' \cup due', pc', hold', processing', expired'),
                        Listed(pending[OrgOf[e]], Upto(e, j)), Listed(pending'[OrgOf[e]], Upto(e, j)),
                        grants[e] + used.faults, grants'[e] + used'.faults)
<1>. DEFINE A == Afoot(e, j, later \cup due, pc, hold, processing, expired)
            B == Afoot(e, j, later' \cup due', pc', hold', processing', expired')
            n == Listed(pending[OrgOf[e]], Upto(e, j))
            m == Listed(pending'[OrgOf[e]], Upto(e, j))
            s == grants[e] + used.faults
            t == grants'[e] + used'.faults
<1>0. [Next]_vars
  BY NextSplit
<1>1. s \in Nat /\ t \in Nat /\ s <= t /\ (used'.faults = used.faults + 1 => s < t)
  BY <1>0, SourcesGrow
<1>2. n \in Nat /\ m \in Nat
  <2>1. pending[OrgOf[e]] \in Seq(Payloads) /\ pending'[OrgOf[e]] \in Seq(Payloads)
    BY OrgOfAssumption DEF TypeInv, QInv, QueueTypeOK
  <2>. QED
    BY <2>1, PlacesFinite
<1>3. pending' = pending => m = n /\ AtHome'
  BY DEF AtHome
<1>4. IsFiniteSet(A)
  OBVIOUS
<1>c. /\ B \subseteq A /\ (m <= n \/ m + s <= n + t) => Conserved(A, B, n, m, s, t)
      /\ \A a, b : B \ {b} \subseteq A \ {a} /\ (b \in B => a \in A) /\ m = n => Conserved(A, B, n, m, s, t)
      /\ \A b : B \ {b} \subseteq A /\ m = n /\ s < t => Conserved(A, B, n, m, s, t)
      /\ \A b : B \ {b} \subseteq A /\ m < n => Conserved(A, B, n, m, s, t)
  <2>. HIDE DEF A, B, n, m, s, t
  <2>. QED
    BY <1>1, <1>2, <1>4, ConservedCases
<1>5. ASSUME Pick(w) PROVE AtHome' /\ Conserved(A, B, n, m, s, t)
  <2>1. /\ AtHome'
        /\ \E d \in {0, 1} : m + d = n /\ B \ {<<"worker", w>>} \subseteq A /\ (<<"worker", w>> \in B => d = 1)
    BY <1>5, PickAfoot
  <2>. HIDE DEF A, B, n, m, s, t
  <2>2. PICK d \in {0, 1} : m + d = n /\ B \ {<<"worker", w>>} \subseteq A /\ (<<"worker", w>> \in B => d = 1)
    BY <2>1
  <2>3. ASSUME d = 1 PROVE AtHome' /\ Conserved(A, B, n, m, s, t)
    BY <1>2, <1>c, <2>1, <2>2, <2>3
  <2>4. ASSUME d = 0 PROVE AtHome' /\ Conserved(A, B, n, m, s, t)
    <3>1. B \subseteq A /\ m <= n
      BY <1>2, <2>2, <2>4
    <3>. QED
      BY <1>c, <2>1, <3>1
  <2>5. AtHome' /\ Conserved(A, B, n, m, s, t)
    BY <2>2, <2>3, <2>4
  <2>. QED
    BY <2>5 DEF A, B, n, m, s, t
<1>6. ASSUME Defer(w) \/ Retry(w) PROVE AtHome' /\ Conserved(A, B, n, m, s, t)
  <2>1. PICK b : B \ {b} \subseteq A \ {<<"worker", w>>} /\ (b \in B => <<"worker", w>> \in A) /\ pending' = pending
    BY <1>6, ReschedulesAfoot
  <2>. HIDE DEF A, B, n, m, s, t
  <2>2. AtHome' /\ Conserved(A, B, n, m, s, t)
    BY <1>3, <1>c, <2>1
  <2>. QED
    BY <2>2 DEF A, B, n, m, s, t
<1>7. ASSUME Abandon(w) PROVE AtHome' /\ Conserved(A, B, n, m, s, t)
  <2>1. B \ {<<"lease", hold[w]>>} \subseteq A /\ pending' = pending
    BY <1>7, LeavesAfoot
  <2>2. s < t
    BY <1>1, <1>7, FaultType DEF Abandon, TypeInv
  <2>. HIDE DEF A, B, n, m, s, t
  <2>3. AtHome' /\ Conserved(A, B, n, m, s, t)
    BY <1>3, <1>c, <2>1, <2>2
  <2>. QED
    BY <2>3 DEF A, B, n, m, s, t
<1>8. ASSUME PanicFail(w) PROVE AtHome' /\ Conserved(A, B, n, m, s, t)
  <2>1. PICK b : B \ {b} \subseteq A \ {<<"worker", w>>} /\ (b \in B => <<"worker", w>> \in A) /\ pending' = pending
    BY <1>8, LeavesAfoot
  <2>. HIDE DEF A, B, n, m, s, t
  <2>2. AtHome' /\ Conserved(A, B, n, m, s, t)
    BY <1>3, <1>c, <2>1
  <2>. QED
    BY <2>2 DEF A, B, n, m, s, t
<1>9. ASSUME ~Pick(w) /\ ~Defer(w) /\ ~Retry(w) /\ ~Abandon(w) /\ ~PanicFail(w) PROVE AtHome' /\ Conserved(A, B, n, m, s, t)
  <2>1. B \subseteq A /\ pending' = pending
    BY <1>9, StaysAfoot
  <2>2. m <= n /\ AtHome'
    BY <1>2, <1>3, <2>1
  <2>. HIDE DEF A, B, n, m, s, t
  <2>3. AtHome' /\ Conserved(A, B, n, m, s, t)
    BY <1>c, <2>1, <2>2
  <2>. QED
    BY <2>3 DEF A, B, n, m, s, t
<1>. QED
  BY <1>5, <1>6, <1>7, <1>8, <1>9

LEMMA OtherTally ==
    ASSUME TypeInv, TypeInv', AtHome, OtherStep, NEW e \in Events, NEW j \in Nat,
           IsFiniteSet(Afoot(e, j, later \cup due, pc, hold, processing, expired))
    PROVE  /\ AtHome'
           /\ Conserved(Afoot(e, j, later \cup due, pc, hold, processing, expired),
                        Afoot(e, j, later' \cup due', pc', hold', processing', expired'),
                        Listed(pending[OrgOf[e]], Upto(e, j)), Listed(pending'[OrgOf[e]], Upto(e, j)),
                        grants[e] + used.faults, grants'[e] + used'.faults)
<1>. DEFINE A == Afoot(e, j, later \cup due, pc, hold, processing, expired)
            B == Afoot(e, j, later' \cup due', pc', hold', processing', expired')
            n == Listed(pending[OrgOf[e]], Upto(e, j))
            m == Listed(pending'[OrgOf[e]], Upto(e, j))
            s == grants[e] + used.faults
            t == grants'[e] + used'.faults
<1>0. [Next]_vars /\ QInv /\ calls \subseteq Calls /\ UNCHANGED <<pc, hold>>
  BY NextSplit, OtherLeases DEF TypeInv
<1>1. s \in Nat /\ t \in Nat /\ s <= t /\ (used'.faults = used.faults + 1 => s < t)
  BY <1>0, SourcesGrow
<1>2. n \in Nat /\ m \in Nat
  <2>1. pending[OrgOf[e]] \in Seq(Payloads) /\ pending'[OrgOf[e]] \in Seq(Payloads)
    BY OrgOfAssumption DEF TypeInv, QInv, QueueTypeOK
  <2>. QED
    BY <2>1, PlacesFinite
<1>3. pending' = pending => m = n /\ AtHome'
  BY DEF AtHome
<1>4. IsFiniteSet(A)
  OBVIOUS
<1>c. /\ B \subseteq A /\ (m <= n \/ m + s <= n + t) => Conserved(A, B, n, m, s, t)
      /\ \A b : B \ {b} \subseteq A /\ m = n /\ s < t => Conserved(A, B, n, m, s, t)
  <2>. HIDE DEF A, B, n, m, s, t
  <2>. QED
    BY <1>1, <1>2, <1>4, ConservedCases
<1>k. ASSUME UNCHANGED pending, later' \cup due' = later \cup due, UNCHANGED <<processing, expired>>
      PROVE  AtHome' /\ Conserved(A, B, n, m, s, t)
  <2>1. B = A /\ m = n /\ AtHome'
    BY <1>0, <1>3, <1>k
  <2>. HIDE DEF A, B, n, m, s, t
  <2>. QED
    BY <1>2, <1>c, <2>1
<1>i. ASSUME NEW p \in Payloads, Inject(<<p>>), UNCHANGED <<later, due, processing, expired>>,
             grants' = [grants EXCEPT ![p.ev] = @ + 1]
      PROVE  AtHome' /\ Conserved(A, B, n, m, s, t)
  <2>1. <<p>> \in Seq(Payloads) /\ \A i, k \in DOMAIN <<p>> : i # k => <<p>>[i] # <<p>>[k]
    OBVIOUS
  <2>2. AtHome'
    BY <1>0, <1>i, <2>1, InjectCounts
  <2>3. m <= n + Listed(<<p>>, Upto(e, j)) /\ Listed(<<p>>, Upto(e, j)) = IF p \in Upto(e, j) THEN 1 ELSE 0
    BY <1>0, <1>i, <2>1, InjectListed, ListedOne
  <2>4. p \in Upto(e, j) => s < t
    <3>. SUFFICES ASSUME p.ev = e PROVE s < t
      BY DEF Upto
    <3>1. grants'[e] = grants[e] + 1 /\ grants[e] \in Nat
      BY <1>i DEF TypeInv, HistoryOK
    <3>2. used.faults \in Nat /\ used'.faults \in Nat /\ used.faults <= used'.faults
      BY <1>0, SourcesGrow
    <3>. QED
      BY <3>1, <3>2
  <2>5. B \subseteq A
    BY <1>0, <1>i
  <2>. HIDE DEF A, B, n, m, s, t
  <2>6. m <= n \/ m + s <= n + t
    BY <1>1, <1>2, <2>3, <2>4
  <2>. QED
    BY <1>c, <2>2, <2>5, <2>6
<1>5. ASSUME NEW c \in calls, CallEnqueue(c) PROVE AtHome' /\ Conserved(A, B, n, m, s, t)
  <2>1. PICK at \in Stamps : Enqueue([ev |-> c.ev, at |-> at, attempt |-> c.attempt])
    BY <1>5 DEF CallEnqueue
  <2>2. PICK p : p = [ev |-> c.ev, at |-> at, attempt |-> c.attempt]
    OBVIOUS
  <2>3. p \in Payloads /\ p.ev = c.ev
    BY <1>0, <2>2 DEF Calls, Payloads
  <2>4. Inject(<<p>>) /\ UNCHANGED <<later, due, processing, expired>> /\ grants' = [grants EXCEPT ![p.ev] = @ + 1]
    BY <1>5, <2>1, <2>2, <2>3 DEF CallEnqueue, Enqueue
  <2>. QED
    BY <1>i, <2>3, <2>4
<1>6. ASSUME AdminRequeueDead PROVE AtHome' /\ Conserved(A, B, n, m, s, t)
  <2>1. PICK x \in Events, i \in DOMAIN dead, at \in Stamps :
           /\ x = dead[i].ev /\ RequeueDead(i, at) /\ grants' = [grants EXCEPT ![x] = @ + 1]
    BY <1>6, RequeueParts
  <2>2. PICK p : p = [ev |-> x, at |-> at, attempt |-> 0]
    OBVIOUS
  <2>3. p \in Payloads /\ p.ev = x
    BY <2>2, AttemptAssumption DEF Payloads
  <2>4. Inject(<<p>>) /\ UNCHANGED <<later, due, processing, expired>> /\ grants' = [grants EXCEPT ![p.ev] = @ + 1]
    BY <2>1, <2>2, <2>3 DEF RequeueDead
  <2>. QED
    BY <1>i, <2>3, <2>4
<1>7. ASSUME Mover PROVE AtHome' /\ Conserved(A, B, n, m, s, t)
  <2>1. AtHome' /\ IsFiniteSet(B) /\ m + Cardinality(B) <= n + Cardinality(A)
    BY <1>7, PromoteAfoot
  <2>2. Cardinality(A) \in Nat /\ Cardinality(B) \in Nat
    BY <2>1, FS_CardinalityType
  <2>. HIDE DEF A, B, n, m, s, t
  <2>. QED
    BY <1>1, <1>2, <2>1, <2>2 DEF Conserved
<1>8. ASSUME Recoverer PROVE AtHome' /\ Conserved(A, B, n, m, s, t)
  <2>1. pending' = pending /\ IsFiniteSet(B) /\ Cardinality(B) <= Cardinality(A)
    BY <1>8, RecoverAfoot
  <2>2. Cardinality(A) \in Nat /\ Cardinality(B) \in Nat
    BY <2>1, FS_CardinalityType
  <2>. HIDE DEF A, B, n, m, s, t
  <2>. QED
    BY <1>1, <1>2, <1>3, <2>1, <2>2 DEF Conserved
<1>9. ASSUME LeaseOverrun PROVE AtHome' /\ Conserved(A, B, n, m, s, t)
  <2>1. PICK x \in processing : LeaseExpires(x)
    BY <1>9 DEF LeaseOverrun
  <2>2. UNCHANGED <<pending, later, due, processing>> /\ expired' = expired \cup {x}
    BY <2>1 DEF LeaseExpires
  <2>3. B \ {<<"lease", x>>} \subseteq A \ {<<"none", "none">>}
    <3>1. \A y \in Unclaimed(Upto(e, j), hold', processing', expired') :
             y # x => y \in Unclaimed(Upto(e, j), hold, processing, expired)
      BY <1>0, <2>2 DEF Unclaimed
    <3>. DEFINE a == <<"none", "none">>
                b == <<"lease", x>>
    <3>2. /\ \A q \in (later' \cup due') \cap Upto(e, j) : <<"set", q>> # b => q \in later \cup due /\ <<"set", q>> # a
          /\ \A v \in AtWork(e, j, pc', hold') : <<"worker", v>> # b => v \in AtWork(e, j, pc, hold) /\ <<"worker", v>> # a
          /\ \A y \in Unclaimed(Upto(e, j), hold', processing', expired') :
               <<"lease", y>> # b => y \in Unclaimed(Upto(e, j), hold, processing, expired) /\ <<"lease", y>> # a
      BY <1>0, <2>2, <3>1, Tags
    <3>. QED
      BY <3>2, AfootStep
  <2>4. s < t
    BY <1>1, <1>9, FaultType DEF LeaseOverrun, TypeInv
  <2>. HIDE DEF A, B, n, m, s, t
  <2>. QED
    BY <1>3, <1>c, <2>2, <2>3, <2>4
<1>10. ASSUME NEW tok \in Tokens, OrphanExpires(tok) PROVE AtHome' /\ Conserved(A, B, n, m, s, t)
  <2>1. PICK x \in processing : ~Held(x) /\ LeaseExpires(x)
    BY <1>10 DEF OrphanExpires
  <2>2. UNCHANGED <<pending, later, due, processing>> /\ expired' = expired \cup {x} /\ \A v \in Workers : hold[v] # x
    BY <2>1 DEF LeaseExpires, Held
  <2>3. Unclaimed(Upto(e, j), hold', processing', expired') \subseteq Unclaimed(Upto(e, j), hold, processing, expired)
    BY <1>0, <2>2 DEF Unclaimed
  <2>4. later' \cup due' \subseteq later \cup due /\ AtWork(e, j, pc', hold') \subseteq AtWork(e, j, pc, hold)
    BY <1>0, <2>2
  <2>5. B \subseteq A
    BY <2>3, <2>4, AfootShrinks
  <2>6. m <= n /\ AtHome'
    BY <1>2, <1>3, <2>2
  <2>. HIDE DEF A, B, n, m, s, t
  <2>. QED
    BY <1>c, <2>5, <2>6
<1>11. ASSUME NEW p \in Payloads, TimeReaches(p) PROVE AtHome' /\ Conserved(A, B, n, m, s, t)
  <2>1. UNCHANGED <<pending, processing, expired>> /\ later' \cup due' = later \cup due
    BY <1>11 DEF TimeReaches, BecomeDue
  <2>. QED
    BY <1>k, <2>1
<1>12. ASSUME UNCHANGED queueVars PROVE AtHome' /\ Conserved(A, B, n, m, s, t)
  BY <1>k, <1>12 DEF queueVars
<1>13. AtHome' /\ Conserved(A, B, n, m, s, t)
  <2>. HIDE DEF A, B, n, m, s, t
  <2>. QED
    BY <1>5, <1>6, <1>7, <1>8, <1>9, <1>10, <1>11, <1>12 DEF OtherStep, CreateEvent, RetryEvent, ClaimStuck,
       DeleteEvent, Ages, CallMarkQueued, CallFails
<1>. QED
  BY <1>13

LEMMA TallyStep ==
    ASSUME TypeInv, TypeInv', AtHome, [Next]_vars, NEW e \in Events, NEW j \in Nat,
           IsFiniteSet(Afoot(e, j, later \cup due, pc, hold, processing, expired))
    PROVE  /\ AtHome'
           /\ Conserved(Afoot(e, j, later \cup due, pc, hold, processing, expired),
                        Afoot(e, j, later' \cup due', pc', hold', processing', expired'),
                        Listed(pending[OrgOf[e]], Upto(e, j)), Listed(pending'[OrgOf[e]], Upto(e, j)),
                        grants[e] + used.faults, grants'[e] + used'.faults)
<1>1. CASE UNCHANGED vars
  <2>1. UNCHANGED <<pending, later, due, processing, expired, pc, hold, grants, used>>
    BY <1>1 DEF vars, queueVars, workers, history
  <2>2. grants[e] \in Nat /\ used.faults \in Nat
    BY SourcesGrow
  <2>3. Listed(pending[OrgOf[e]], Upto(e, j)) \in Nat
    <3>1. pending[OrgOf[e]] \in Seq(Payloads)
      BY OrgOfAssumption DEF TypeInv, QInv, QueueTypeOK
    <3>. QED
      BY <3>1, PlacesFinite
  <2>. DEFINE A == Afoot(e, j, later \cup due, pc, hold, processing, expired)
              n == Listed(pending[OrgOf[e]], Upto(e, j))
              s == grants[e] + used.faults
  <2>4. IsFiniteSet(A) /\ Cardinality(A) \in Nat
    BY FS_CardinalityType
  <2>5. Conserved(A, A, n, n, s, s)
    <3>1. s \in Nat /\ n \in Nat
      BY <2>2, <2>3
    <3>. HIDE DEF A, n, s
    <3>. QED
      BY <2>4, <3>1 DEF Conserved
  <2>6. AtHome'
    BY <2>1 DEF AtHome
  <2>. QED
    BY <2>1, <2>5, <2>6
<1>2. ASSUME NEW w \in Workers, WorkerStep(w)
      PROVE  /\ AtHome'
             /\ Conserved(Afoot(e, j, later \cup due, pc, hold, processing, expired),
                        Afoot(e, j, later' \cup due', pc', hold', processing', expired'),
                        Listed(pending[OrgOf[e]], Upto(e, j)), Listed(pending'[OrgOf[e]], Upto(e, j)),
                        grants[e] + used.faults, grants'[e] + used'.faults)
  BY <1>2, WorkerTally
<1>3. CASE OtherStep
  BY <1>3, OtherTally
<1>. QED
  BY <1>1, <1>2, <1>3, NextSplit

\* x[j] requests were made for copies of level j.
Cells(x) == {c \in (0..MaxRetries) \X (Nat \ {0}) : c[2] <= x[c[1]]}

\* The copies of e by level, and n requests, against what came from outside: a copy
\* beyond level j has its request of level j behind it.
Account(e, f, s, k, h, l, y, n, src) ==
    /\ \A j \in 0..(MaxRetries + 1) : IsFiniteSet(Afoot(e, j, s, k, h, l, y))
    /\ Listed(f[OrgOf[e]], Upto(e, MaxRetries + 1)) + Cardinality(Afoot(e, MaxRetries + 1, s, k, h, l, y)) <= src
    /\ \E x \in [0..MaxRetries -> Nat] :
          /\ n <= Cardinality(Cells(x))
          /\ \A j \in 0..MaxRetries :
                Listed(f[OrgOf[e]], Upto(e, j)) + Cardinality(Afoot(e, j, s, k, h, l, y)) + x[j] <= src

Balanced ==
    /\ AtHome
    /\ \A e \in Events : Account(e, pending, later \cup due, pc, hold, processing, expired, sends[e], grants[e] + used.faults)

LEMMA CellsBounded ==
    ASSUME NEW x \in [0..MaxRetries -> Nat], NEW src \in Nat, \A j \in 0..MaxRetries : x[j] <= src
    PROVE  /\ IsFiniteSet(Cells(x)) /\ Cardinality(Cells(x)) \in Nat
           /\ Cardinality(Cells(x)) <= (MaxRetries + 1) * src
<1>0. MaxRetries \in Nat
  BY RetriesAssumption, AttemptAssumption
<1>. DEFINE R == (0..MaxRetries) \X (1..src)
<1>1. Cells(x) \in SUBSET R
  BY <1>0 DEF Cells
<1>2. IsFiniteSet(0..MaxRetries) /\ Cardinality(0..MaxRetries) = MaxRetries + 1
  BY <1>0, FS_Interval
<1>3. IsFiniteSet(1..src) /\ Cardinality(1..src) = src
  BY FS_Interval
<1>4. IsFiniteSet(R) /\ Cardinality(R) = (MaxRetries + 1) * src
  <2>1. IsFiniteSet(R) /\ Cardinality(R) = Cardinality(0..MaxRetries) * Cardinality(1..src)
    BY <1>2, <1>3, FS_Product
  <2>. HIDE DEF R
  <2>. QED
    BY <1>2, <1>3, <2>1
<1>. HIDE DEF R
<1>5. IsFiniteSet(Cells(x)) /\ Cardinality(Cells(x)) <= Cardinality(R)
  BY <1>1, <1>4, FS_Subset
<1>. QED
  BY <1>4, <1>5, FS_CardinalityType

LEMMA CellsGrow ==
    ASSUME NEW x \in [0..MaxRetries -> Nat], NEW b \in 0..MaxRetries, IsFiniteSet(Cells(x))
    PROVE  Cardinality(Cells([x EXCEPT ![b] = @ + 1])) = Cardinality(Cells(x)) + 1
<1>. DEFINE c == <<b, x[b] + 1>>
<1>1. Cells([x EXCEPT ![b] = @ + 1]) = Cells(x) \cup {c}
  <2>. DEFINE z == [x EXCEPT ![b] = @ + 1]
  <2>0. MaxRetries \in Nat
    BY RetriesAssumption, AttemptAssumption
  <2>1. z[b] = x[b] + 1 /\ \A j \in 0..MaxRetries : j # b => z[j] = x[j]
    OBVIOUS
  <2>2. x[b] \in Nat
    OBVIOUS
  <2>. HIDE DEF z
  <2>3. ASSUME NEW j \in 0..MaxRetries, NEW i \in Nat \ {0} PROVE i <= z[j] <=> i <= x[j] \/ (j = b /\ i = x[b] + 1)
    <3>1. x[j] \in Nat
      OBVIOUS
    <3>. QED
      BY <2>1, <2>2, <3>1
  <2>4. ASSUME NEW d PROVE d \in Cells(z) <=> d \in Cells(x) \/ d = c
    <3>1. ASSUME d \in Cells(z) PROVE d \in Cells(x) \/ d = c
      <4>1. PICK j \in 0..MaxRetries, i \in Nat \ {0} : d = <<j, i>> /\ i <= z[j]
        BY <3>1 DEF Cells
      <4>. QED
        BY <2>3, <4>1 DEF Cells
    <3>2. ASSUME d \in Cells(x) PROVE d \in Cells(z)
      <4>1. PICK j \in 0..MaxRetries, i \in Nat \ {0} : d = <<j, i>> /\ i <= x[j]
        BY <3>2 DEF Cells
      <4>. QED
        BY <2>3, <4>1 DEF Cells
    <3>3. c \in Cells(z)
      <4>1. x[b] + 1 \in Nat \ {0} /\ x[b] + 1 <= z[b]
        BY <2>1, <2>2
      <4>. QED
        BY <4>1 DEF Cells
    <3>. QED
      BY <3>1, <3>2, <3>3
  <2>. HIDE DEF c
  <2>5. Cells(z) = Cells(x) \cup {c}
    BY <2>4
  <2>. QED
    BY <2>5 DEF z
<1>2. c \notin Cells(x)
  <2>1. x[b] \in Nat
    OBVIOUS
  <2>. QED
    BY <2>1 DEF Cells
<1>. HIDE DEF c
<1>. QED
  BY <1>1, <1>2, FS_AddElement

\* A request moves the copy in hand from one level to the next.
LEMMA SendAfoot ==
    ASSUME TypeInv, NEW w \in Workers, Send(w)
    PROVE  LET b == Level(hold[w].evt.attempt)
               e == Ev(w)
               A == Afoot(e, b, later \cup due, pc, hold, processing, expired)
               B == Afoot(e, b, later' \cup due', pc', hold', processing', expired')
           IN  /\ b \in 0..MaxRetries /\ <<"worker", w>> \in A /\ B \subseteq A \ {<<"worker", w>>}
               /\ UNCHANGED <<pending, grants, used>>
               /\ sends' = [sends EXCEPT ![e] = @ + 1]
<1>0. PICK b, e : b = Level(hold[w].evt.attempt) /\ e = Ev(w)
  OBVIOUS
<1>1. WorkersOK /\ pc[w] = "run" /\ WorkerStep(w) /\ pc' = [pc EXCEPT ![w] = "record"] /\ UNCHANGED hold
  BY DEF TypeInv, Send, WorkerStep, Process, Goto
<1>2. b \in 0..MaxRetries
  <2>1. hold[w].evt.attempt \in 0..MaxAttempt
    BY <1>1, HoldType
  <2>. QED
    BY <1>0, <2>1, RetriesAssumption, AttemptAssumption DEF Level
<1>. DEFINE A == Afoot(e, b, later \cup due, pc, hold, processing, expired)
            B == Afoot(e, b, later' \cup due', pc', hold', processing', expired')
<1>3. B \subseteq A
  <2>1. ~Pick(w) /\ ~Defer(w) /\ ~Retry(w) /\ ~Abandon(w) /\ ~PanicFail(w)
    BY <1>1 DEF Pick, Defer, Retry, Abandon, PanicFail, Free, Goto, WorkersOK
  <2>2. b \in Nat
    BY <1>2
  <2>. QED
    BY <1>1, <2>1, <2>2, StaysAfoot
<1>4. <<"worker", w>> \in A
  <2>1. w \in AtWork(e, b, pc, hold)
    BY <1>0, <1>1, <1>2 DEF AtWork, SpentLabels, Ev
  <2>. QED
    BY <2>1, AfootParts
<1>5. <<"worker", w>> \notin B
  <2>1. pc'[w] = "record"
    BY <1>1 DEF WorkersOK
  <2>2. w \notin AtWork(e, b, pc', hold')
    BY <1>0, <1>1, <1>2, <2>1 DEF AtWork, SpentLabels
  <2>. QED
    BY <2>2, AfootParts
<1>6. UNCHANGED <<pending, grants, used>> /\ sends' = [sends EXCEPT ![e] = @ + 1]
  BY <1>0 DEF Send, queueVars
<1>. QED
  BY <1>0, <1>2, <1>3, <1>4, <1>5, <1>6

LEMMA SendsFrame ==
    ASSUME TypeInv, [Next]_vars, NEW e \in Events, ~\E w \in Workers : Send(w) /\ Ev(w) = e
    PROVE  sends'[e] = sends[e]
<1>0. sends \in [Events -> Nat] /\ WorkersOK
  BY DEF TypeInv, HistoryOK
<1>1. ASSUME NEW w \in Workers, Send(w) PROVE sends'[e] = sends[e]
  BY <1>0, <1>1 DEF Send
<1>2. ASSUME NEW w \in Workers, WorkerStep(w), ~Send(w) PROVE sends' = sends
  BY <1>2 DEF WorkerStep, Process, Pick, Load, Undeliverable, Defer, MarkEventInFlight,
     Prepare, MarkEventFiltered, RecordAttempt, MarkEventDelivered, MarkEventFailed, Bury, Retry, Trim,
     AckStep, PanicBury, PanicFail, RecordAttemptFails, Panic, Abandon, history
<1>3. ASSUME OtherStep PROVE sends' = sends
  BY <1>3 DEF OtherStep, CreateEvent, RetryEvent, ClaimStuck, DeleteEvent, Ages, AdminRequeueDead, CallEnqueue,
     CallMarkQueued, CallFails, Mover, Recoverer, LeaseOverrun, TimeReaches, OrphanExpires, rest, history
<1>4. CASE UNCHANGED vars
  BY <1>4 DEF vars, history
<1>. QED
  BY <1>1, <1>2, <1>3, <1>4, NextSplit

\* What the tables of copies are before and after a step, as functions of the level.
LEMMA AccountStep ==
    ASSUME TypeInv, TypeInv', AtHome, [Next]_vars, NEW e \in Events,
           Account(e, pending, later \cup due, pc, hold, processing, expired, sends[e], grants[e] + used.faults)
    PROVE  /\ AtHome'
           /\ Account(e, pending', later' \cup due', pc', hold', processing', expired', sends'[e],
                      grants'[e] + used'.faults)
<1>. DEFINE A(j) == Afoot(e, j, later \cup due, pc, hold, processing, expired)
            B(j) == Afoot(e, j, later' \cup due', pc', hold', processing', expired')
            n(j) == Listed(pending[OrgOf[e]], Upto(e, j))
            m(j) == Listed(pending'[OrgOf[e]], Upto(e, j))
            s == grants[e] + used.faults
            t == grants'[e] + used'.faults
            top == MaxRetries + 1
<1>0. MaxRetries \in Nat /\ s \in Nat /\ t \in Nat
  BY RetriesAssumption, AttemptAssumption, SourcesGrow
<1>1. /\ \A j \in 0..top : IsFiniteSet(A(j))
      /\ n(top) + Cardinality(A(top)) <= s
      /\ \E x \in [0..MaxRetries -> Nat] :
            /\ sends[e] <= Cardinality(Cells(x))
            /\ \A j \in 0..MaxRetries : n(j) + Cardinality(A(j)) + x[j] <= s
  BY DEF Account
<1>2. PICK x \in [0..MaxRetries -> Nat] :
            /\ sends[e] <= Cardinality(Cells(x))
            /\ \A j \in 0..MaxRetries : n(j) + Cardinality(A(j)) + x[j] <= s
  BY <1>1
<1>3. ASSUME NEW j \in 0..top PROVE AtHome' /\ Conserved(A(j), B(j), n(j), m(j), s, t)
  <2>1. j \in Nat
    BY <1>0
  <2>2. IsFiniteSet(A(j))
    BY <1>1
  <2>. QED
    BY <2>1, <2>2, TallyStep
<1>4. ASSUME NEW j \in 0..top
      PROVE  /\ n(j) \in Nat /\ m(j) \in Nat /\ Cardinality(A(j)) \in Nat /\ Cardinality(B(j)) \in Nat /\ IsFiniteSet(B(j))
             /\ m(j) + Cardinality(B(j)) + s <= n(j) + Cardinality(A(j)) + t
  <2>1. pending[OrgOf[e]] \in Seq(Payloads) /\ pending'[OrgOf[e]] \in Seq(Payloads)
    BY OrgOfAssumption DEF TypeInv, QInv, QueueTypeOK
  <2>2. n(j) \in Nat /\ m(j) \in Nat
    BY <2>1, PlacesFinite
  <2>3. IsFiniteSet(A(j)) /\ IsFiniteSet(B(j)) /\ m(j) + Cardinality(B(j)) + s <= n(j) + Cardinality(A(j)) + t
    BY <1>1, <1>3 DEF Conserved
  <2>. QED
    BY <2>2, <2>3, FS_CardinalityType
<1>5. top \in 0..top /\ 0..MaxRetries \subseteq 0..top
  BY <1>0
<1>6. sends[e] \in Nat
  BY DEF TypeInv, HistoryOK
<1>a. ASSUME NEW z \in [0..MaxRetries -> Nat], sends'[e] <= Cardinality(Cells(z)),
             \A j \in 0..MaxRetries : m(j) + Cardinality(B(j)) + z[j] <= t
      PROVE  AtHome' /\ Account(e, pending', later' \cup due', pc', hold', processing', expired', sends'[e], t)
  <2>1. m(top) + Cardinality(B(top)) <= t
    <3>. HIDE DEF A, B, n, m, s, t, top
    <3>. QED
      BY <1>0, <1>1, <1>4, <1>5
  <2>2. \A j \in 0..top : IsFiniteSet(B(j))
    BY <1>4
  <2>3. AtHome'
    BY <1>3, <1>5
  <2>. QED
    BY <1>a, <2>1, <2>2, <2>3 DEF Account
<1>7. CASE ~\E w \in Workers : Send(w) /\ Ev(w) = e
  <2>1. sends'[e] = sends[e]
    BY <1>7, SendsFrame
  <2>2. ASSUME NEW j \in 0..MaxRetries PROVE m(j) + Cardinality(B(j)) + x[j] <= t
    <3>1. x[j] \in Nat /\ j \in 0..top /\ n(j) + Cardinality(A(j)) + x[j] <= s
      BY <1>2, <1>5
    <3>. HIDE DEF A, B, n, m, s, t, top
    <3>. QED
      BY <1>0, <1>4, <3>1
  <2>. QED
    BY <1>2, <1>a, <2>1, <2>2
<1>8. ASSUME NEW w \in Workers, Send(w), Ev(w) = e
      PROVE  AtHome' /\ Account(e, pending', later' \cup due', pc', hold', processing', expired', sends'[e], t)
  <2>1. PICK b : b = Level(hold[w].evt.attempt)
    OBVIOUS
  <2>2. /\ b \in 0..MaxRetries /\ <<"worker", w>> \in A(b) /\ B(b) \subseteq A(b) \ {<<"worker", w>>}
        /\ UNCHANGED <<pending, grants, used>> /\ sends' = [sends EXCEPT ![e] = @ + 1]
    BY <1>8, <2>1, SendAfoot
  <2>3. sends'[e] = sends[e] + 1 /\ s = t /\ m(b) = n(b)
    BY <2>2 DEF TypeInv, HistoryOK
  <2>4. PICK z : z = [x EXCEPT ![b] = @ + 1]
    OBVIOUS
  <2>5. z \in [0..MaxRetries -> Nat] /\ z[b] = x[b] + 1 /\ \A j \in 0..MaxRetries : j # b => z[j] = x[j]
    BY <2>2, <2>4
  <2>6. \A j \in 0..MaxRetries : x[j] <= s
    <3>. SUFFICES ASSUME NEW j \in 0..MaxRetries PROVE x[j] <= s
      OBVIOUS
    <3>1. x[j] \in Nat /\ j \in 0..top /\ n(j) + Cardinality(A(j)) + x[j] <= s
      BY <1>2, <1>5
    <3>. HIDE DEF A, B, n, m, s, t, top
    <3>. QED
      BY <1>0, <1>4, <3>1
  <2>7. IsFiniteSet(Cells(x)) /\ Cardinality(Cells(x)) \in Nat
    <3>. HIDE DEF s
    <3>. QED
      BY <1>0, <2>6, CellsBounded
  <2>8. Cardinality(Cells(z)) = Cardinality(Cells(x)) + 1
    BY <2>2, <2>4, <2>7, CellsGrow
  <2>9. sends'[e] <= Cardinality(Cells(z))
    BY <1>2, <1>6, <2>3, <2>7, <2>8
  <2>10. Cardinality(B(b)) + 1 <= Cardinality(A(b))
    <3>1. IsFiniteSet(A(b))
      BY <1>1, <1>5, <2>2
    <3>. HIDE DEF A, B
    <3>. QED
      BY <2>2, <3>1, LoseOne
  <2>11. ASSUME NEW j \in 0..MaxRetries PROVE m(j) + Cardinality(B(j)) + z[j] <= t
    <3>1. x[j] \in Nat /\ j \in 0..top /\ n(j) + Cardinality(A(j)) + x[j] <= s
      BY <1>2, <1>5
    <3>2. CASE j # b
      <4>1. z[j] = x[j]
        BY <2>5, <3>2
      <4>. HIDE DEF A, B, n, m, s, t, top
      <4>2. m(j) + Cardinality(B(j)) + x[j] <= t
        BY <1>0, <1>4, <3>1
      <4>3. m(j) + Cardinality(B(j)) + z[j] <= t
        BY <4>1, <4>2
      <4>. QED
        BY <4>3 DEF A, B, n, m, s, t, top
    <3>3. CASE j = b
      <4>1. z[b] = x[b] + 1 /\ m(b) = n(b) /\ s = t /\ Cardinality(B(b)) + 1 <= Cardinality(A(b))
        BY <2>3, <2>5, <2>10
      <4>2. /\ x[b] \in Nat /\ n(b) + Cardinality(A(b)) + x[b] <= s
            /\ n(b) \in Nat /\ Cardinality(A(b)) \in Nat /\ Cardinality(B(b)) \in Nat
        BY <1>4, <3>1, <3>3
      <4>. HIDE DEF A, B, n, m, s, t, top
      <4>3. m(b) + Cardinality(B(b)) + z[b] <= t
        BY <1>0, <4>1, <4>2
      <4>. QED
        BY <3>3, <4>3 DEF A, B, n, m, s, t, top
    <3>. QED
      BY <3>2, <3>3
  <2>. QED
    BY <1>a, <2>5, <2>9, <2>11
<1>. QED
  BY <1>7, <1>8

LEMMA BalancedStep == TypeInv /\ TypeInv' /\ Balanced /\ [Next]_vars => Balanced'
<1>. SUFFICES ASSUME TypeInv, TypeInv', Balanced, [Next]_vars PROVE Balanced'
  OBVIOUS
<1>1. ASSUME NEW e \in Events
      PROVE  /\ AtHome'
             /\ Account(e, pending', later' \cup due', pc', hold', processing', expired', sends'[e],
                        grants'[e] + used'.faults)
  BY AccountStep DEF Balanced
<1>2. AtHome'
  <2>. SUFFICES ASSUME NEW o \in Orgs, NEW i \in DOMAIN pending'[o] PROVE AtHome'
    BY DEF AtHome
  <2>1. pending'[o][i] \in Payloads
    BY DEF TypeInv, QInv, QueueTypeOK
  <2>2. pending'[o][i].ev \in Events
    BY <2>1 DEF Payloads
  <2>. QED
    BY <1>1, <2>2
<1>. QED
  BY <1>1, <1>2 DEF Balanced

LEMMA BalancedInit == Init => Balanced
<1>. SUFFICES ASSUME Init PROVE Balanced
  OBVIOUS
<1>0. MaxRetries \in Nat
  BY RetriesAssumption, AttemptAssumption
<1>1. /\ pending = [o \in Orgs |-> <<>>] /\ processing = {} /\ later \cup due = {} /\ used.faults = 0
      /\ pc = [w \in Workers |-> "pick"] /\ grants = [e \in Events |-> 0] /\ sends = [e \in Events |-> 0]
  BY DEF Init, QueueInit
<1>2. AtHome
  BY <1>1 DEF AtHome
<1>3. ASSUME NEW e \in Events
      PROVE  Account(e, pending, later \cup due, pc, hold, processing, expired, sends[e], grants[e] + used.faults)
  <2>1. ASSUME NEW j PROVE Afoot(e, j, later \cup due, pc, hold, processing, expired) = {}
    BY <1>1 DEF Afoot, AtWork, Unclaimed
  <2>2. ASSUME NEW P PROVE Listed(pending[OrgOf[e]], P) = 0
    <3>1. pending[OrgOf[e]] = <<>>
      BY <1>1, OrgOfAssumption
    <3>2. Places(<<>>, P) = {}
      BY DEF Places
    <3>. QED
      BY <3>1, <3>2, FS_EmptySet DEF Listed
  <2>3. grants[e] + used.faults = 0 /\ sends[e] = 0
    BY <1>1
  <2>. DEFINE x == [j \in 0..MaxRetries |-> 0]
  <2>4. x \in [0..MaxRetries -> Nat] /\ \A j \in 0..MaxRetries : x[j] = 0
    OBVIOUS
  <2>. HIDE DEF x
  <2>5. Cardinality(Cells(x)) \in Nat
    <3>1. \A j \in 0..MaxRetries : x[j] <= 0
      BY <2>4
    <3>. QED
      BY <2>4, <3>1, CellsBounded
  <2>6. 0 <= Cardinality(Cells(x))
    BY <2>5
  <2>7. ASSUME NEW j
        PROVE  /\ IsFiniteSet(Afoot(e, j, later \cup due, pc, hold, processing, expired))
               /\ Listed(pending[OrgOf[e]], Upto(e, j)) + Cardinality(Afoot(e, j, later \cup due, pc, hold, processing, expired)) = 0
    <3>1. Cardinality(Afoot(e, j, later \cup due, pc, hold, processing, expired)) = 0
      BY <2>1, FS_EmptySet
    <3>2. Listed(pending[OrgOf[e]], Upto(e, j)) = 0
      BY <2>2
    <3>3. IsFiniteSet(Afoot(e, j, later \cup due, pc, hold, processing, expired))
      BY <2>1, FS_EmptySet
    <3>. QED
      BY <3>1, <3>2, <3>3
  <2>. DEFINE T(j) == Listed(pending[OrgOf[e]], Upto(e, j)) + Cardinality(Afoot(e, j, later \cup due, pc, hold, processing, expired))
              src == grants[e] + used.faults
  <2>8. ASSUME NEW j PROVE T(j) = 0
    BY <2>7
  <2>9. src = 0
    BY <2>3
  <2>10. T(MaxRetries + 1) <= src /\ \A j \in 0..MaxRetries : T(j) + x[j] <= src
    <3>. HIDE DEF T, src
    <3>. QED
      BY <2>4, <2>8, <2>9
  <2>11. sends[e] <= Cardinality(Cells(x))
    BY <2>3, <2>6
  <2>. QED
    BY <2>4, <2>7, <2>10, <2>11 DEF Account
<1>. QED
  BY <1>2, <1>3 DEF Balanced

-----------------------------------------------------------------------------
(* What the accounts say. *)

LEMMA UptoTop ==
    ASSUME NEW e PROVE Upto(e, MaxRetries + 1) = {p \in Payloads : p.ev = e}
<1>1. ASSUME NEW p \in Payloads PROVE Level(p.attempt) <= MaxRetries + 1
  BY RetriesAssumption, AttemptAssumption DEF Payloads, Level
<1>. QED
  BY <1>1 DEF Upto

LEMMA AtWorkTop ==
    ASSUME WorkersOK, NEW e
    PROVE  AtWork(e, MaxRetries + 1, pc, hold) = {w \in Workers : pc[w] \notin {"pick", "ack"} /\ hold[w].evt.ev = e}
<1>1. ASSUME NEW w \in Workers, pc[w] # "pick" PROVE Level(hold[w].evt.attempt) + (IF pc[w] \in SpentLabels THEN 1 ELSE 0) <= MaxRetries + 1
  <2>1. hold[w].evt.attempt \in 0..MaxAttempt
    BY <1>1, HoldType
  <2>2. Level(hold[w].evt.attempt) \in 0..MaxRetries
    BY <2>1, RetriesAssumption, AttemptAssumption DEF Level
  <2>. QED
    BY <2>2, RetriesAssumption, AttemptAssumption
<1>. QED
  BY <1>1 DEF AtWork

LEMMA AccountParts ==
    ASSUME Balanced, NEW e \in Events
    PROVE  /\ \A j \in 0..(MaxRetries + 1) : IsFiniteSet(Afoot(e, j, later \cup due, pc, hold, processing, expired))
           /\ IsFiniteSet(Afoot(e, MaxRetries + 1, later \cup due, pc, hold, processing, expired))
           /\ Listed(pending[OrgOf[e]], Upto(e, MaxRetries + 1))
                 + Cardinality(Afoot(e, MaxRetries + 1, later \cup due, pc, hold, processing, expired))
                    <= grants[e] + used.faults
<1>1. /\ \A j \in 0..(MaxRetries + 1) : IsFiniteSet(Afoot(e, j, later \cup due, pc, hold, processing, expired))
      /\ Listed(pending[OrgOf[e]], Upto(e, MaxRetries + 1))
            + Cardinality(Afoot(e, MaxRetries + 1, later \cup due, pc, hold, processing, expired))
               <= grants[e] + used.faults
  BY DEF Balanced, Account
<1>2. MaxRetries + 1 \in 0..(MaxRetries + 1)
  BY RetriesAssumption, AttemptAssumption
<1>. QED
  BY <1>1, <1>2

LEMMA BalancedCopies == ASSUME TypeInv, Balanced PROVE CopiesBounded
<1>. SUFFICES ASSUME NEW e \in Events PROVE CopiesOf(e) <= Sources(e)
  BY DEF CopiesBounded
<1>. DEFINE top == MaxRetries + 1
            P == Upto(e, top)
            A == Afoot(e, top, later \cup due, pc, hold, processing, expired)
            list == pending[OrgOf[e]]
            S == {p \in later \cup due : p.ev = e}
            M == {m \in processing : m.evt.ev = e /\ \A w \in Workers : hold[w] = m => pc[w] # "ack"}
            B == {<<"set", p>> : p \in S}
            f == [m \in M |-> IF m \in Unclaimed(P, hold, processing, expired) THEN <<"lease", m>>
                              ELSE <<"worker", CHOOSE w \in Workers : hold[w] = m>>]
            g == [p \in S |-> <<"set", p>>]
<1>0. QInv /\ WorkersOK /\ MaxRetries \in Nat
  BY RetriesAssumption, AttemptAssumption DEF TypeInv
<1>1. IsFiniteSet(A) /\ Listed(list, P) + Cardinality(A) <= Sources(e)
  BY AccountParts DEF Sources
<1>2. list \in Seq(Payloads) /\ later \cup due \subseteq Payloads /\ processing \subseteq Members
  BY <1>0, OrgOfAssumption DEF QInv, QueueTypeOK
<1>3. {i \in DOMAIN list : list[i].ev = e} = Places(list, P)
  <2>1. \A i \in DOMAIN list : list[i] \in Payloads
    BY <1>2
  <2>. HIDE DEF list
  <2>. QED
    BY <2>1, UptoTop DEF Places
<1>4. \A p \in S : p \in P
  BY <1>2, UptoTop
<1>5. B \subseteq A
  BY <1>4, AfootParts
<1>6. ASSUME NEW m \in M
      PROVE  /\ f[m] \in A \ B
             /\ f[m] = <<"lease", m>> \/ \E w \in Workers : f[m] = <<"worker", w>> /\ hold[w] = m
  <2>1. CASE m \in Unclaimed(P, hold, processing, expired)
    <3>1. f[m] = <<"lease", m>>
      BY <2>1
    <3>2. <<"lease", m>> \in A /\ <<"lease", m>> \notin B
      BY <2>1, AfootParts, Tags
    <3>. QED
      BY <3>1, <3>2
  <2>2. CASE m \notin Unclaimed(P, hold, processing, expired)
    <3>1. m.evt \in P
      BY <1>2, UptoTop DEF Members
    <3>2. \E w \in Workers : hold[w] = m
      BY <2>2, <3>1 DEF Unclaimed
    <3>3. PICK w : w = CHOOSE v \in Workers : hold[v] = m
      OBVIOUS
    <3>4. w \in Workers /\ hold[w] = m
      BY <3>2, <3>3
    <3>5. f[m] = <<"worker", w>>
      BY <2>2, <3>3
    <3>6. pc[w] \notin {"pick", "ack"} /\ hold[w].evt.ev = e
      BY <1>0, <1>2, <3>4, DeliverNoMember DEF WorkersOK
    <3>7. w \in AtWork(e, top, pc, hold)
      BY <1>0, <3>4, <3>6, AtWorkTop
    <3>8. <<"worker", w>> \in A /\ <<"worker", w>> \notin B
      BY <3>7, AfootParts, Tags
    <3>. QED
      BY <3>4, <3>5, <3>8
  <2>. QED
    BY <2>1, <2>2
<1>7. f \in Injection(M, A \ B)
  <2>1. DOMAIN f = M /\ f = [m \in M |-> f[m]]
    OBVIOUS
  <2>. HIDE DEF f, A, B, M
  <2>2. f \in [M -> A \ B]
    BY <1>6, <2>1
  <2>3. \A m, k \in M : f[m] = f[k] => m = k
    BY <1>6, Tags
  <2>. QED
    BY <2>2, <2>3 DEF Injection, IsInjective
<1>8. g \in Bijection(S, B)
  <2>1. g \in [S -> B] /\ \A b \in B : \E p \in S : g[p] = b
    OBVIOUS
  <2>2. \A p, q \in S : g[p] = g[q] => p = q
    BY Tags
  <2>. QED
    BY <2>1, <2>2 DEF Bijection, Injection, Surjection, IsInjective
<1>9. Cardinality(M) + Cardinality(B) <= Cardinality(A) /\ IsFiniteSet(B)
      /\ Cardinality(A) \in Nat /\ Cardinality(B) \in Nat /\ Cardinality(M) \in Nat
  <2>. HIDE DEF f, A, B, M
  <2>. QED
    BY <1>1, <1>5, <1>7, MovedOut
<1>10. Cardinality(S) = Cardinality(B)
  <2>. HIDE DEF g, B, S
  <2>1. ExistsBijection(S, B)
    BY <1>8 DEF ExistsBijection
  <2>2. ExistsBijection(B, S)
    BY <2>1, Fun_ExistsBijSymmetric
  <2>. QED
    BY <1>9, <2>2, FS_Bijection
<1>11. CopiesOf(e) = Listed(list, P) + Cardinality(S) + Cardinality(M)
  BY <1>3 DEF CopiesOf, Listed
<1>12. Listed(list, P) \in Nat
  BY <1>2, PlacesFinite
<1>13. Sources(e) \in Nat
  BY DeliverBounds DEF Sources, TypeInv, HistoryOK, UsedOK
<1>. HIDE DEF A, B, S, M, P, list, f, g
<1>. QED
  BY <1>1, <1>9, <1>10, <1>11, <1>12, <1>13

LEMMA BalancedBudget == ASSUME TypeInv, Balanced PROVE BudgetBounded
<1>. SUFFICES ASSUME NEW e \in Events PROVE sends[e] <= (MaxRetries + 1) * Sources(e)
  BY DEF BudgetBounded
<1>0. MaxRetries \in Nat
  BY RetriesAssumption, AttemptAssumption
<1>1. Sources(e) \in Nat /\ sends[e] \in Nat
  BY DeliverBounds DEF Sources, TypeInv, HistoryOK, UsedOK
<1>2. PICK x \in [0..MaxRetries -> Nat] :
          /\ sends[e] <= Cardinality(Cells(x))
          /\ \A j \in 0..MaxRetries : Listed(pending[OrgOf[e]], Upto(e, j))
                + Cardinality(Afoot(e, j, later \cup due, pc, hold, processing, expired)) + x[j] <= Sources(e)
  BY DEF Balanced, Account, Sources
<1>3. ASSUME NEW j \in 0..MaxRetries PROVE x[j] <= Sources(e)
  <2>. DEFINE A == Afoot(e, j, later \cup due, pc, hold, processing, expired)
              n == Listed(pending[OrgOf[e]], Upto(e, j))
  <2>0. j \in 0..(MaxRetries + 1)
    BY <1>0
  <2>1. IsFiniteSet(A)
    BY <2>0, AccountParts
  <2>2. Cardinality(A) \in Nat
    BY <2>1, FS_CardinalityType
  <2>3. n \in Nat
    <3>1. pending[OrgOf[e]] \in Seq(Payloads)
      BY OrgOfAssumption DEF TypeInv, QInv, QueueTypeOK
    <3>. QED
      BY <3>1, PlacesFinite
  <2>4. n + Cardinality(A) + x[j] <= Sources(e) /\ x[j] \in Nat
    BY <1>2
  <2>. HIDE DEF A, n
  <2>. QED
    BY <1>1, <2>2, <2>3, <2>4
<1>4. Cardinality(Cells(x)) \in Nat /\ Cardinality(Cells(x)) <= (MaxRetries + 1) * Sources(e)
  BY <1>1, <1>3, CellsBounded
<1>5. (MaxRetries + 1) * Sources(e) \in Int
  BY <1>0, <1>1
<1>. QED
  BY <1>1, <1>2, <1>4, <1>5

-----------------------------------------------------------------------------
(* Numbers.  While an event was enqueued once and nothing failed, there is at *)
(* most one copy of it, and the count agrees with the attempts recorded.      *)

\* What the worker with the copy knows, at label l: its row r and outcome o against
\* the count c and the k attempts recorded.
Stage(l, o, r, c, k) ==
    /\ l \in {"load", "gate", "retry"} => c = k
    /\ l \in {"gate", "run", "record"} => r = k
    /\ l = "run" => c = k + 1
    /\ l = "record" => o = "reject" \/ c = k + 1
    /\ l \notin {"panic", "panicFail"}

\* The copy waits, or its lease does.
Idle(A, n) == n > 0 \/ \E y : <<"set", y>> \in A \/ <<"lease", y>> \in A

Ordered(A, n, K, R, O, c, k, g) ==
    /\ Idle(A, n) => c = k
    /\ \A w \in Workers : <<"worker", w>> \in A => Stage(K[w], O[w], R[w], c, k)
    /\ g = 0 => c = 0 /\ k = 0

\* The row st, its count c and its attempts rec; nothing was refused.
Sequel(e, A, n, K, R, O, c, g, st, rec, drp) ==
    /\ e \notin drp
    /\ \/ st = "deleted" /\ rec = {}
       \/ st # "deleted" /\ \E k \in Nat : rec = 1..k /\ Ordered(A, n, K, R, O, c, k, g)

Numbered ==
    \A e \in Events : grants[e] <= 1 /\ used.faults = 0 =>
        Sequel(e, Afoot(e, MaxRetries + 1, later \cup due, pc, hold, processing, expired),
               Listed(pending[OrgOf[e]], Upto(e, MaxRetries + 1)),
               pc, row, out, count[e], grants[e], status[e], recorded[e], dropped)

\* Where nothing waits and the workers stay, a step that adds no copy adds nothing.
LEMMA NothingNew ==
    ASSUME NEW A, NEW B, NEW n \in Nat, NEW m \in Nat, IsFiniteSet(A), IsFiniteSet(B),
           m + Cardinality(B) <= n + Cardinality(A), n = 0, A \subseteq B
    PROVE  m = 0 /\ B = A
<1>1. Cardinality(A) \in Nat /\ Cardinality(B) \in Nat /\ A \in SUBSET B
  BY FS_CardinalityType
<1>2. Cardinality(A) <= Cardinality(B) /\ (Cardinality(B) = Cardinality(A) => B = A)
  BY <1>1, FS_Subset
<1>. QED
  BY <1>1, <1>2

\* Only one copy.
LEMMA OnlyOne ==
    ASSUME NEW A, NEW n \in Nat, NEW a \in A, IsFiniteSet(A), n + Cardinality(A) <= 1
    PROVE  n = 0 /\ A = {a}
<1>1. {a} \in SUBSET A /\ Cardinality({a}) = 1 /\ Cardinality(A) \in Nat
  BY FS_Singleton, FS_CardinalityType
<1>2. Cardinality({a}) <= Cardinality(A) /\ (Cardinality(A) = Cardinality({a}) => A = {a})
  BY <1>1, FS_Subset
<1>. QED
  BY <1>1, <1>2

\* Rows that are deleted stay so, and their attempts gone.
LEMMA DeletedStays ==
    ASSUME TypeInv, [Next]_vars, NEW e \in Events, status[e] = "deleted", recorded[e] = {}, e \notin dropped
    PROVE  status'[e] = "deleted" /\ recorded'[e] = {} /\ e \notin dropped'
<1>0. status \in [Events -> Statuses] /\ recorded \in [Events -> SUBSET (Nat \ {0})]
  BY DEF TypeInv, TablesOK
<1>1. ASSUME NEW x, NEW s, SetStatus(x, s) PROVE status'[e] = "deleted"
  BY <1>0, <1>1 DEF SetStatus
<1>2. ASSUME NEW w \in Workers, RecordAttempt(w) PROVE status'[e] = "deleted" /\ recorded'[e] = {} /\ e \notin dropped'
  BY <1>0, <1>2 DEF RecordAttempt
<1>3. ASSUME NEW w \in Workers, WorkerStep(w), ~RecordAttempt(w)
      PROVE  status'[e] = "deleted" /\ recorded' = recorded /\ dropped' = dropped
  <2>1. recorded' = recorded /\ dropped' = dropped
    BY <1>3 DEF WorkerStep, Process, Pick, Load, Undeliverable, Defer, MarkEventInFlight,
       Prepare, MarkEventFiltered, Send, MarkEventDelivered, MarkEventFailed, Bury, Retry, Trim,
       AckStep, PanicBury, PanicFail, RecordAttemptFails, Panic, Abandon, history, tables
  <2>2. status' = status \/ \E x, s : SetStatus(x, s)
    BY <1>3 DEF WorkerStep, Process, Pick, Load, Undeliverable, Defer, MarkEventInFlight,
       Prepare, MarkEventFiltered, Send, MarkEventDelivered, MarkEventFailed, Bury, Retry,
       AckStep, PanicBury, PanicFail, RecordAttemptFails, Panic, Abandon, tables
  <2>. QED
    BY <1>1, <2>1, <2>2
<1>4. ASSUME NEW x \in Events, CreateEvent(x) \/ RetryEvent(x) \/ ClaimStuck(x) \/ DeleteEvent(x) \/ Ages(x)
      PROVE  status'[e] = "deleted" /\ recorded'[e] = {} /\ dropped' = dropped
  <2>1. dropped' = dropped
    BY <1>4 DEF CreateEvent, RetryEvent, ClaimStuck, DeleteEvent, Ages, history
  <2>2. CASE CreateEvent(x) \/ DeleteEvent(x)
    BY <1>0, <2>1, <2>2 DEF CreateEvent, DeleteEvent
  <2>3. CASE RetryEvent(x) \/ ClaimStuck(x) \/ Ages(x)
    BY <1>1, <2>1, <2>3 DEF RetryEvent, ClaimStuck, Ages
  <2>. QED
    BY <1>4, <2>2, <2>3
<1>5. ASSUME NEW c \in calls, CallMarkQueued(c) PROVE status'[e] = "deleted" /\ recorded'[e] = {} /\ dropped' = dropped
  BY <1>1, <1>5 DEF CallMarkQueued, history
<1>6. ASSUME UNCHANGED tables, UNCHANGED dropped PROVE status'[e] = "deleted" /\ recorded'[e] = {} /\ e \notin dropped'
  BY <1>6 DEF tables
<1>7. CASE OtherStep
  <2>1. \/ UNCHANGED <<tables, dropped>>
        \/ \E x \in Events : CreateEvent(x) \/ RetryEvent(x) \/ ClaimStuck(x) \/ DeleteEvent(x) \/ Ages(x)
        \/ \E c \in calls : CallMarkQueued(c)
    BY <1>7 DEF OtherStep, AdminRequeueDead, CallEnqueue, CallFails, Mover, Recoverer, LeaseOverrun,
       TimeReaches, OrphanExpires, rest, history
  <2>. QED
    BY <1>4, <1>5, <1>6, <2>1
<1>8. CASE UNCHANGED vars
  BY <1>6, <1>8 DEF vars, history
<1>. QED
  BY <1>2, <1>3, <1>7, <1>8, NextSplit

\* A worker's step on another event, or one that is through with its own.
LEMMA ElsewhereStep ==
    ASSUME TypeInv, NEW w \in Workers, WorkerStep(w), NEW e \in Events, pc[w] \in {"pick", "ack"} \/ Ev(w) # e
    PROVE  /\ count'[e] = count[e] /\ recorded'[e] = recorded[e] /\ status'[e] = status[e]
           /\ e \notin dropped => e \notin dropped'
<1>0. /\ status \in [Events -> Statuses] /\ recorded \in [Events -> SUBSET (Nat \ {0})]
      /\ count \in [Events -> Nat] /\ pc \in [Workers -> Labels]
  BY DEF TypeInv, TablesOK, WorkersOK
<1>1. CASE UNCHANGED tables /\ UNCHANGED dropped
  BY <1>1 DEF tables
<1>2. CASE RecordAttempt(w) \/ MarkEventInFlight(w)
  BY <1>0, <1>2 DEF RecordAttempt, MarkEventInFlight, SetStatus
<1>3. CASE MarkEventFiltered(w) \/ MarkEventDelivered(w) \/ MarkEventFailed(w) \/ PanicFail(w)
  BY <1>0, <1>3 DEF MarkEventFiltered, MarkEventDelivered, MarkEventFailed, PanicFail, SetStatus, history
<1>. QED
  BY <1>1, <1>2, <1>3 DEF WorkerStep, Process, Pick, Load, Undeliverable, Defer, Prepare, Send, Bury, Retry, Trim,
     AckStep, PanicBury, RecordAttemptFails, Panic, Abandon, history

LEMMA OthersStay ==
    ASSUME TypeInv, NEW w \in Workers, WorkerStep(w)
    PROVE  \A v \in Workers \ {w} : pc'[v] = pc[v] /\ hold'[v] = hold[v] /\ row'[v] = row[v] /\ out'[v] = out[v]
<1>0. row \in [Workers -> Nat] /\ out \in [Workers -> Outcomes]
  BY DEF TypeInv, WorkersOK
<1>1. \A v \in Workers \ {w} : row'[v] = row[v]
  BY <1>0 DEF WorkerStep, Process, Pick, Load, Undeliverable, Defer, MarkEventInFlight,
     Prepare, MarkEventFiltered, Send, RecordAttempt, MarkEventDelivered, MarkEventFailed, Bury, Retry,
     AckStep, PanicBury, PanicFail, RecordAttemptFails, Panic, Abandon, Free
<1>2. \A v \in Workers \ {w} : out'[v] = out[v]
  BY <1>0 DEF WorkerStep, Process, Pick, Load, Undeliverable, Defer, MarkEventInFlight,
     Prepare, MarkEventFiltered, Send, RecordAttempt, MarkEventDelivered, MarkEventFailed, Bury, Retry,
     AckStep, PanicBury, PanicFail, RecordAttemptFails, Panic, Abandon, Free
<1>. QED
  BY <1>1, <1>2, OneMoves

\* The step of the worker with the copy.
LEMMA HandStep ==
    ASSUME TypeInv, NEW w \in Workers, WorkerStep(w), pc[w] \notin {"pick", "ack"}, NEW e, e = Ev(w),
           used'.faults = used.faults, NEW k \in Nat, recorded[e] = 1..k, status[e] # "deleted", e \notin dropped,
           Stage(pc[w], out[w], row[w], count[e], k)
    PROVE  /\ ~Abandon(w) /\ ~PanicFail(w)
           /\ status'[e] # "deleted" /\ e \notin dropped'
           /\ \E i \in Nat :
                 /\ recorded'[e] = 1..i
                 /\ Defer(w) \/ Retry(w) => count'[e] = i
                 /\ pc'[w] \notin {"pick", "ack"} => Stage(pc'[w], out'[w], row'[w], count'[e], i)
<1>. DEFINE Goal == /\ ~Abandon(w) /\ ~PanicFail(w)
                    /\ status'[e] # "deleted" /\ e \notin dropped'
                    /\ \E i \in Nat :
                          /\ recorded'[e] = 1..i
                          /\ Defer(w) \/ Retry(w) => count'[e] = i
                          /\ pc'[w] \notin {"pick", "ack"} => Stage(pc'[w], out'[w], row'[w], count'[e], i)
<1>0. /\ status \in [Events -> Statuses] /\ recorded \in [Events -> SUBSET (Nat \ {0})] /\ UsedOK
      /\ count \in [Events -> Nat] /\ pc \in [Workers -> Labels] /\ row \in [Workers -> Nat] /\ out \in [Workers -> Outcomes]
      /\ e \in Events /\ count[e] \in Nat /\ row[w] \in Nat
  BY HoldType DEF TypeInv, TablesOK, WorkersOK
<1>1. ~Fault /\ ~LostWrite
  <2>1. ASSUME Fault \/ LostWrite PROVE FALSE
    <3>1. used'.faults = used.faults + 1 /\ used.faults \in Nat
      BY <1>0, <2>1, FaultType, LostWriteType
    <3>. QED
      BY <3>1
  <2>. QED
    BY <2>1
<1>2. ~Abandon(w) /\ ~Panic(w) /\ ~RecordAttemptFails(w) /\ ~PanicBury(w) /\ ~PanicFail(w) /\ ~Pick(w) /\ ~AckStep(w)
  BY <1>1 DEF Abandon, Panic, RecordAttemptFails, PanicBury, PanicFail, Pick, AckStep, Stage
<1>3. ASSUME ~RecordAttempt(w) PROVE recorded' = recorded /\ dropped' = dropped
  BY <1>2, <1>3 DEF WorkerStep, Process, Load, Undeliverable, Defer, MarkEventInFlight,
     Prepare, MarkEventFiltered, Send, MarkEventDelivered, MarkEventFailed, Bury, Retry, Trim, tables, history
<1>4. ASSUME ~MarkEventInFlight(w) PROVE count' = count
  BY <1>2, <1>4 DEF WorkerStep, Process, Load, Undeliverable, Defer, RecordAttempt,
     Prepare, MarkEventFiltered, Send, MarkEventDelivered, MarkEventFailed, Bury, Retry, tables
<1>5. status'[e] # "deleted"
  <2>1. ASSUME NEW s, s # "deleted", SetStatus(Ev(w), s) PROVE status'[e] # "deleted"
    BY <1>0, <2>1 DEF SetStatus
  <2>2. CASE UNCHANGED status
    BY <2>2
  <2>3. CASE MarkEventFiltered(w) \/ MarkEventDelivered(w) \/ MarkEventFailed(w) \/ MarkEventInFlight(w)
    BY <1>1, <2>1, <2>3 DEF MarkEventFiltered, MarkEventDelivered, MarkEventFailed, MarkEventInFlight
  <2>. QED
    BY <1>2, <2>2, <2>3 DEF WorkerStep, Process, Load, Undeliverable, Defer, RecordAttempt,
       Prepare, Send, Bury, Retry, tables
<1>6. ASSUME Load(w) PROVE Goal
  <2>1. ~RecordAttempt(w) /\ ~MarkEventInFlight(w) /\ ~Defer(w) /\ ~Retry(w)
    BY <1>6 DEF Load, RecordAttempt, MarkEventInFlight, Defer, Retry
  <2>2. pc'[w] \notin {"pick", "ack"} => pc'[w] = "gate" /\ row'[w] = count[e]
    BY <1>0, <1>6 DEF Load, Goto
  <2>3. count[e] = k
    BY <1>6 DEF Load, Stage
  <2>4. pc'[w] \notin {"pick", "ack"} => Stage(pc'[w], out'[w], row'[w], count'[e], k)
    BY <1>4, <2>1, <2>2, <2>3 DEF Stage
  <2>. QED
    BY <1>2, <1>3, <1>5, <2>1, <2>4
<1>7. ASSUME Undeliverable(w) PROVE Goal
  <2>1. ~RecordAttempt(w) /\ ~MarkEventInFlight(w) /\ ~Retry(w) /\ ~Defer(w)
    BY <1>0, <1>7 DEF Undeliverable, RecordAttempt, MarkEventInFlight, Defer, Retry, Goto
  <2>2. pc'[w] = "record" /\ row'[w] = row[w] /\ out'[w] = "reject"
    BY <1>0, <1>7 DEF Undeliverable, Goto
  <2>3. row[w] = k
    BY <1>7 DEF Undeliverable, Stage
  <2>4. Stage(pc'[w], out'[w], row'[w], count'[e], k)
    BY <2>2, <2>3 DEF Stage
  <2>. QED
    BY <1>2, <1>3, <1>5, <2>1, <2>4
<1>8. ASSUME Defer(w) \/ Retry(w) PROVE Goal
  <2>1. ~RecordAttempt(w) /\ ~MarkEventInFlight(w) /\ pc'[w] = "ack"
    BY <1>0, <1>8 DEF RecordAttempt, MarkEventInFlight, Defer, Retry, Goto
  <2>2. count[e] = k
    BY <1>8 DEF Defer, Retry, Stage
  <2>. QED
    BY <1>2, <1>3, <1>4, <1>5, <2>1, <2>2
<1>9. ASSUME MarkEventInFlight(w) PROVE Goal
  <2>1. ~RecordAttempt(w) /\ ~Retry(w) /\ ~Defer(w)
    BY <1>0, <1>9 DEF RecordAttempt, MarkEventInFlight, Defer, Retry, Goto
  <2>2. pc'[w] = "run" /\ row'[w] = row[w] /\ count'[e] = count[e] + 1
    BY <1>0, <1>9 DEF MarkEventInFlight, Goto
  <2>3. row[w] = k /\ count[e] = k
    BY <1>9 DEF MarkEventInFlight, Stage
  <2>4. Stage(pc'[w], out'[w], row'[w], count'[e], k)
    BY <2>2, <2>3 DEF Stage
  <2>. QED
    BY <1>2, <1>3, <1>5, <2>1, <2>4
<1>10. ASSUME Prepare(w) \/ Send(w) PROVE Goal
  <2>1. ~RecordAttempt(w) /\ ~Retry(w) /\ ~Defer(w) /\ ~MarkEventInFlight(w)
    BY <1>10 DEF RecordAttempt, MarkEventInFlight, Defer, Retry, Prepare, Send
  <2>2. pc'[w] = "record" /\ row'[w] = row[w]
    BY <1>0, <1>10 DEF Prepare, Send, Goto
  <2>3. row[w] = k /\ count[e] = k + 1
    BY <1>10 DEF Prepare, Send, Stage
  <2>4. Stage(pc'[w], out'[w], row'[w], count'[e], k)
    BY <1>4, <2>1, <2>2, <2>3 DEF Stage
  <2>. QED
    BY <1>2, <1>3, <1>5, <2>1, <2>4
<1>11. ASSUME MarkEventFiltered(w) \/ MarkEventDelivered(w) \/ MarkEventFailed(w) \/ Bury(w) PROVE Goal
  <2>1. ~RecordAttempt(w) /\ ~Retry(w) /\ ~Defer(w) /\ ~MarkEventInFlight(w)
    BY <1>11 DEF RecordAttempt, MarkEventInFlight, Defer, Retry, MarkEventFiltered, MarkEventDelivered, MarkEventFailed, Bury
  <2>2. pc'[w] \in {"ack", "bury", "pick"}
    BY <1>0, <1>11 DEF MarkEventFiltered, MarkEventDelivered, MarkEventFailed, Bury, Free, Goto
  <2>3. pc'[w] \notin {"pick", "ack"} => Stage(pc'[w], out'[w], row'[w], count'[e], k)
    BY <2>2 DEF Stage
  <2>. QED
    BY <1>2, <1>3, <1>5, <2>1, <2>3
<1>12. ASSUME RecordAttempt(w) PROVE Goal
  <2>1. ~Retry(w) /\ ~Defer(w) /\ ~MarkEventInFlight(w)
    BY <1>12 DEF RecordAttempt, MarkEventInFlight, Defer, Retry
  <2>2. row[w] = k /\ (out[w] = "reject" \/ count[e] = k + 1)
    BY <1>12 DEF RecordAttempt, Stage
  <2>3. recorded'[e] = (1..k) \cup {k + 1} /\ e \notin dropped'
    <3>1. k + 1 \notin 1..k
      OBVIOUS
    <3>. QED
      BY <1>0, <1>12, <2>2, <3>1 DEF RecordAttempt
  <2>4. recorded'[e] = 1..(k + 1)
    BY <2>3
  <2>5. /\ pc'[w] = AfterRecord(w) /\ AfterRecord(w) \in {"deliver", "fail", "retry"}
        /\ AfterRecord(w) = "retry" => out[w] # "reject"
    BY <1>0, <1>12 DEF RecordAttempt, AfterRecord, Goto
  <2>6. Stage(pc'[w], out'[w], row'[w], count'[e], k + 1)
    BY <1>4, <2>1, <2>2, <2>5 DEF Stage
  <2>. QED
    BY <1>2, <1>5, <2>1, <2>3, <2>4, <2>6
<1>. QED
  BY <1>2, <1>6, <1>7, <1>8, <1>9, <1>10, <1>11, <1>12 DEF WorkerStep, Process

\* n + |A| copies before the step, m + |B| after it, of at most one that came from
\* outside.
Few(A, B, n, m, g, h) ==
    /\ n \in Nat /\ m \in Nat /\ g \in Nat /\ h \in Nat /\ g <= h /\ h <= 1
    /\ IsFiniteSet(A) /\ IsFiniteSet(B)
    /\ n + Cardinality(A) <= g /\ m + Cardinality(B) + g <= n + Cardinality(A) + h

\* Only the workers W move; they had no copy and may now have picked one.
Unmoved(W, K, H, R, O, K1, H1, R1, O1) ==
    \A v \in Workers \ W : K1[v] = K[v] /\ H1[v] = H[v] /\ R1[v] = R[v] /\ O1[v] = O[v]
Picking(W, A, B, K1) == \A w \in W : <<"worker", w>> \notin A /\ (<<"worker", w>> \in B => K1[w] = "load")

\* The order of an event's attempts outlives a step that does not touch its row, in
\* which the workers W, none of them with a copy of it, move or pick one up.
LEMMA QuietStep ==
    ASSUME NEW e, NEW s, NEW K, NEW H, NEW l, NEW x, NEW s1, NEW K1, NEW H1, NEW l1, NEW x1,
           NEW R, NEW O, NEW R1, NEW O1, NEW A, NEW B, NEW n, NEW m, NEW c, NEW k, NEW g, NEW h, NEW W,
           A = Afoot(e, MaxRetries + 1, s, K, H, l, x), B = Afoot(e, MaxRetries + 1, s1, K1, H1, l1, x1),
           Few(A, B, n, m, g, h), Unmoved(W, K, H, R, O, K1, H1, R1, O1), Picking(W, A, B, K1),
           Ordered(A, n, K, R, O, c, k, g)
    PROVE  Ordered(B, m, K1, R1, O1, c, k, h)
<1>f. /\ n \in Nat /\ m \in Nat /\ g \in Nat /\ h \in Nat /\ g <= h /\ h <= 1 /\ IsFiniteSet(A) /\ IsFiniteSet(B)
      /\ n + Cardinality(A) <= g /\ m + Cardinality(B) + g <= n + Cardinality(A) + h
  BY DEF Few
<1>u. \A v \in Workers \ W : K1[v] = K[v] /\ H1[v] = H[v] /\ R1[v] = R[v] /\ O1[v] = O[v]
  BY DEF Unmoved
<1>p. \A w \in W : <<"worker", w>> \notin A /\ (<<"worker", w>> \in B => K1[w] = "load")
  BY DEF Picking
<1>0. Cardinality(A) \in Nat /\ Cardinality(B) \in Nat
  BY <1>f, FS_CardinalityType
<1>1. \A v \in Workers \ W : <<"worker", v>> \in B <=> <<"worker", v>> \in A
  <2>1. \A v \in Workers \ W : v \in AtWork(e, MaxRetries + 1, K1, H1) <=> v \in AtWork(e, MaxRetries + 1, K, H)
    BY <1>u DEF AtWork
  <2>. QED
    BY <2>1, AfootParts
<1>2. ASSUME Idle(B, m) \/ \E w \in W : <<"worker", w>> \in B PROVE c = k
  <2>1. CASE g = h
    <3>1. ASSUME ~Idle(A, n) PROVE FALSE
      <4>1. n = 0
        BY <1>f, <3>1 DEF Idle
      <4>2. ASSUME NEW a \in A PROVE a \in B
        <5>1. \E v : a = <<"worker", v>>
          <6>1. \A y : a # <<"set", y>> /\ a # <<"lease", y>>
            BY <3>1 DEF Idle
          <6>2. (\E y : a = <<"set", y>>) \/ (\E v : a = <<"worker", v>>) \/ (\E y : a = <<"lease", y>>)
            BY AfootParts
          <6>. QED
            BY <6>1, <6>2
        <5>2. PICK v : a = <<"worker", v>>
          BY <5>1
        <5>3. v \in Workers
          BY <5>2, AfootParts DEF AtWork
        <5>. QED
          BY <1>1, <1>p, <5>2, <5>3
      <4>3. m = 0 /\ B = A
        BY <1>f, <1>0, <2>1, <4>1, <4>2, NothingNew
      <4>4. \A w \in W : <<"worker", w>> \notin B
        BY <1>p, <4>3
      <4>5. Idle(A, n)
        BY <1>2, <4>1, <4>3, <4>4
      <4>. QED
        BY <3>1, <4>5
    <3>. QED
      BY <3>1 DEF Ordered
  <2>2. CASE g # h
    <3>1. g = 0
      BY <1>f, <2>2
    <3>. QED
      BY <3>1 DEF Ordered
  <2>. QED
    BY <2>1, <2>2
<1>3. ASSUME NEW w \in Workers, <<"worker", w>> \in B PROVE Stage(K1[w], O1[w], R1[w], c, k)
  <2>1. CASE w \in W
    <3>1. c = k /\ K1[w] = "load"
      BY <1>2, <1>3, <1>p, <2>1
    <3>. QED
      BY <3>1 DEF Stage
  <2>2. CASE w \notin W
    <3>1. <<"worker", w>> \in A /\ K1[w] = K[w] /\ O1[w] = O[w] /\ R1[w] = R[w]
      BY <1>1, <1>3, <1>u, <2>2
    <3>. QED
      BY <3>1 DEF Ordered
  <2>. QED
    BY <2>1, <2>2
<1>4. h = 0 => c = 0 /\ k = 0
  <2>1. h = 0 => g = 0
    BY <1>f
  <2>. QED
    BY <2>1 DEF Ordered
<1>. QED
  BY <1>2, <1>3, <1>4 DEF Ordered

\* The same where the worker with the only copy moves.
LEMMA BusyStep ==
    ASSUME NEW e, NEW s, NEW K, NEW H, NEW l, NEW x, NEW s1, NEW K1, NEW H1, NEW l1, NEW x1,
           NEW R1, NEW O1, NEW A, NEW B, NEW m, NEW c, NEW k, NEW w \in Workers, NEW h,
           A = Afoot(e, MaxRetries + 1, s, K, H, l, x), B = Afoot(e, MaxRetries + 1, s1, K1, H1, l1, x1),
           A = {<<"worker", w>>}, h = 1, Idle(B, m) => c = k,
           \A v \in Workers \ {w} : K1[v] = K[v] /\ H1[v] = H[v],
           K1[w] \notin {"pick", "ack"} => Stage(K1[w], O1[w], R1[w], c, k)
    PROVE  Ordered(B, m, K1, R1, O1, c, k, h)
<1>1. ASSUME NEW v \in Workers, <<"worker", v>> \in B PROVE Stage(K1[v], O1[v], R1[v], c, k)
  <2>1. v \in AtWork(e, MaxRetries + 1, K1, H1)
    BY <1>1, AfootParts
  <2>2. CASE v # w
    <3>1. v \in AtWork(e, MaxRetries + 1, K, H)
      BY <2>1, <2>2 DEF AtWork
    <3>2. <<"worker", v>> \in A
      BY <3>1, AfootParts
    <3>. QED
      BY <2>2, <3>2, Tags
  <2>3. CASE v = w
    BY <2>1, <2>3 DEF AtWork
  <2>. QED
    BY <2>2, <2>3
<1>2. h # 0
  OBVIOUS
<1>. QED
  BY <1>1, <1>2 DEF Ordered

\* What everything but a worker leaves alone.
LEMMA OtherRows ==
    ASSUME TypeInv, OtherStep, NEW e \in Events, status[e] # "deleted"
    PROVE  /\ row' = row /\ out' = out /\ count' = count /\ dropped' = dropped
           /\ \/ status'[e] = "deleted" /\ recorded'[e] = {}
              \/ status'[e] # "deleted" /\ recorded'[e] = recorded[e]
<1>0. status \in [Events -> Statuses] /\ recorded \in [Events -> SUBSET (Nat \ {0})]
  BY DEF TypeInv, TablesOK
<1>1. row' = row /\ out' = out /\ count' = count /\ dropped' = dropped
  BY DEF OtherStep, CreateEvent, RetryEvent, ClaimStuck, DeleteEvent, Ages, AdminRequeueDead,
     CallEnqueue, CallMarkQueued, CallFails, Mover, Recoverer, LeaseOverrun, TimeReaches, OrphanExpires,
     rest, workers, tables, history
<1>. DEFINE Goal == \/ status'[e] = "deleted" /\ recorded'[e] = {}
                    \/ status'[e] # "deleted" /\ recorded'[e] = recorded[e]
<1>2. ASSUME UNCHANGED status, UNCHANGED recorded PROVE Goal
  BY <1>2
<1>3. ASSUME NEW x, SetStatus(x, "queued"), UNCHANGED recorded PROVE Goal
  BY <1>0, <1>3 DEF SetStatus
<1>4. ASSUME NEW x \in Events, CreateEvent(x) \/ RetryEvent(x) \/ ClaimStuck(x) \/ DeleteEvent(x) \/ Ages(x) PROVE Goal
  <2>1. CASE CreateEvent(x) \/ DeleteEvent(x)
    BY <1>0, <2>1 DEF CreateEvent, DeleteEvent
  <2>2. CASE RetryEvent(x) \/ ClaimStuck(x)
    BY <1>3, <2>2 DEF RetryEvent, ClaimStuck
  <2>3. CASE Ages(x)
    BY <1>2, <2>3 DEF Ages
  <2>. QED
    BY <1>4, <2>1, <2>2, <2>3
<1>5. ASSUME NEW c \in calls, CallMarkQueued(c) PROVE Goal
  BY <1>2, <1>3, <1>5 DEF CallMarkQueued
<1>6. Goal
  <2>1. \/ UNCHANGED <<status, recorded>>
        \/ \E x \in Events : CreateEvent(x) \/ RetryEvent(x) \/ ClaimStuck(x) \/ DeleteEvent(x) \/ Ages(x)
        \/ \E c \in calls : CallMarkQueued(c)
    BY DEF OtherStep, AdminRequeueDead, CallEnqueue, CallFails, Mover, Recoverer, LeaseOverrun,
       TimeReaches, OrphanExpires, rest, tables
  <2>. QED
    BY <1>2, <1>4, <1>5, <2>1
<1>. QED
  BY <1>1, <1>6

LEMMA WorkerGrants ==
    ASSUME NEW w \in Workers, WorkerStep(w) PROVE grants' = grants
  BY DEF WorkerStep, Process, Pick, Load, Undeliverable, Defer, MarkEventInFlight,
     Prepare, MarkEventFiltered, Send, RecordAttempt, MarkEventDelivered, MarkEventFailed, Bury, Retry, Trim,
     AckStep, PanicBury, PanicFail, RecordAttemptFails, Panic, Abandon, history

LEMMA SequelStep ==
    ASSUME TypeInv, TypeInv', Balanced, [Next]_vars, NEW e \in Events, grants'[e] <= 1, used'.faults = 0,
           Sequel(e, Afoot(e, MaxRetries + 1, later \cup due, pc, hold, processing, expired),
                  Listed(pending[OrgOf[e]], Upto(e, MaxRetries + 1)),
                  pc, row, out, count[e], grants[e], status[e], recorded[e], dropped)
    PROVE  Sequel(e, Afoot(e, MaxRetries + 1, later' \cup due', pc', hold', processing', expired'),
                  Listed(pending'[OrgOf[e]], Upto(e, MaxRetries + 1)),
                  pc', row', out', count'[e], grants'[e], status'[e], recorded'[e], dropped')
<1>. DEFINE A == Afoot(e, MaxRetries + 1, later \cup due, pc, hold, processing, expired)
            B == Afoot(e, MaxRetries + 1, later' \cup due', pc', hold', processing', expired')
            n == Listed(pending[OrgOf[e]], Upto(e, MaxRetries + 1))
            m == Listed(pending'[OrgOf[e]], Upto(e, MaxRetries + 1))
            g == grants[e]
            h == grants'[e]
            Goal == Sequel(e, B, m, pc', row', out', count'[e], h, status'[e], recorded'[e], dropped')
<1>0. g \in Nat /\ h \in Nat /\ g <= h /\ h <= 1 /\ used.faults = 0 /\ used'.faults = 0 /\ MaxRetries \in Nat
  BY SourcesGrow, RetriesAssumption, AttemptAssumption
<1>1. n \in Nat /\ m \in Nat
  <2>1. pending[OrgOf[e]] \in Seq(Payloads) /\ pending'[OrgOf[e]] \in Seq(Payloads)
    BY OrgOfAssumption DEF TypeInv, QInv, QueueTypeOK
  <2>. QED
    BY <2>1, PlacesFinite
<1>2. IsFiniteSet(A) /\ IsFiniteSet(B) /\ n + Cardinality(A) <= g /\ m + Cardinality(B) + g <= n + Cardinality(A) + h
  <2>1. IsFiniteSet(A) /\ n + Cardinality(A) <= g + used.faults
    BY AccountParts
  <2>2. Conserved(A, B, n, m, g + used.faults, h + used'.faults)
    <3>1. MaxRetries + 1 \in Nat /\ AtHome
      BY <1>0 DEF Balanced
    <3>. QED
      BY <2>1, <3>1, TallyStep
  <2>3. IsFiniteSet(B) /\ m + Cardinality(B) + (g + used.faults) <= n + Cardinality(A) + (h + used'.faults)
    BY <2>2 DEF Conserved
  <2>4. g + used.faults = g /\ h + used'.faults = h
    BY <1>0
  <2>. HIDE DEF A, B, n, m, g, h
  <2>. QED
    BY <2>1, <2>3, <2>4
<1>3. Few(A, B, n, m, g, h)
  <2>. HIDE DEF A, B, n, m, g, h
  <2>. QED
    BY <1>0, <1>1, <1>2 DEF Few
<1>4. ASSUME status[e] = "deleted", recorded[e] = {} PROVE Goal
  BY <1>4, DeletedStays DEF Sequel
<1>5. ASSUME NEW k \in Nat, recorded[e] = 1..k, status[e] # "deleted", e \notin dropped,
             Ordered(A, n, pc, row, out, count[e], k, g)
      PROVE  Goal
  <2>1. CASE UNCHANGED vars
    <3>1. UNCHANGED <<pending, later, due, processing, expired, pc, hold, row, out, grants, status, recorded, count, dropped>>
      BY <2>1 DEF vars, queueVars, workers, history, tables
    <3>. QED
      BY <3>1, <1>5 DEF Sequel
  <2>2. CASE OtherStep
    <3>1. pc' = pc /\ hold' = hold /\ row' = row /\ out' = out /\ count' = count /\ dropped' = dropped
      BY <1>5, <2>2, OtherLeases, OtherRows
    <3>2. \/ status'[e] = "deleted" /\ recorded'[e] = {}
          \/ status'[e] # "deleted" /\ recorded'[e] = recorded[e]
      BY <1>5, <2>2, OtherRows
    <3>3. Ordered(B, m, pc', row', out', count[e], k, h)
      <4>0. PICK W \in SUBSET Workers : W = {}
        OBVIOUS
      <4>1. Unmoved(W, pc, hold, row, out, pc', hold', row', out')
        BY <3>1 DEF Unmoved
      <4>2. Picking(W, A, B, pc')
        BY <4>0 DEF Picking
      <4>3. /\ A = Afoot(e, MaxRetries + 1, later \cup due, pc, hold, processing, expired)
            /\ B = Afoot(e, MaxRetries + 1, later' \cup due', pc', hold', processing', expired')
        OBVIOUS
      <4>. HIDE DEF A, B, n, m, g, h
      <4>. QED
        BY <1>5, <1>3, <4>1, <4>2, <4>3, QuietStep
    <3>. HIDE DEF A, B, n, m, g, h
    <3>. QED
      BY <1>5, <3>1, <3>2, <3>3 DEF Sequel
  <2>3. ASSUME NEW w \in Workers, WorkerStep(w), <<"worker", w>> \notin A PROVE Goal
    <3>1. pc[w] \in {"pick", "ack"} \/ Ev(w) # e
      <4>1. w \notin AtWork(e, MaxRetries + 1, pc, hold)
        BY <2>3, AfootParts
      <4>. QED
        BY <4>1, AtWorkTop DEF TypeInv, Ev
    <3>2. /\ count'[e] = count[e] /\ recorded'[e] = recorded[e] /\ status'[e] = status[e] /\ e \notin dropped'
      BY <1>5, <2>3, <3>1, ElsewhereStep
    <3>3. \A v \in Workers \ {w} : pc'[v] = pc[v] /\ hold'[v] = hold[v] /\ row'[v] = row[v] /\ out'[v] = out[v]
      BY <2>3, OthersStay
    <3>4. <<"worker", w>> \in B => pc'[w] = "load"
      <4>1. CASE Pick(w)
        BY <2>3, <4>1, OneMoves DEF Pick
      <4>2. CASE ~Pick(w)
        <5>1. MaxRetries + 1 \in Nat
          BY <1>0
        <5>2. AtWork(e, MaxRetries + 1, pc', hold') \subseteq AtWork(e, MaxRetries + 1, pc, hold)
          BY <2>3, <4>2, <5>1, AtWorkShrinks
        <5>3. w \notin AtWork(e, MaxRetries + 1, pc', hold')
          BY <2>3, <5>2, AfootParts
        <5>. QED
          BY <5>3, AfootParts
      <4>. QED
        BY <4>1, <4>2
    <3>5. Ordered(B, m, pc', row', out', count[e], k, h)
      <4>0. PICK W \in SUBSET Workers : W = {w}
        OBVIOUS
      <4>1. Picking(W, A, B, pc')
        BY <2>3, <3>4, <4>0 DEF Picking
      <4>2. /\ A = Afoot(e, MaxRetries + 1, later \cup due, pc, hold, processing, expired)
            /\ B = Afoot(e, MaxRetries + 1, later' \cup due', pc', hold', processing', expired')
        OBVIOUS
      <4>3. Unmoved(W, pc, hold, row, out, pc', hold', row', out')
        BY <3>3, <4>0 DEF Unmoved
      <4>. HIDE DEF A, B, n, m, g, h
      <4>. QED
        BY <1>5, <1>3, <4>1, <4>2, <4>3, QuietStep
    <3>. HIDE DEF A, B, n, m, g, h
    <3>. QED
      BY <1>5, <3>2, <3>5 DEF Sequel
  <2>4. ASSUME NEW w \in Workers, WorkerStep(w), <<"worker", w>> \in A PROVE Goal
    <3>1. pc[w] \notin {"pick", "ack"} /\ e = Ev(w)
      <4>1. w \in AtWork(e, MaxRetries + 1, pc, hold)
        BY <2>4, AfootParts
      <4>. QED
        BY <4>1 DEF AtWork, Ev
    <3>2. Stage(pc[w], out[w], row[w], count[e], k)
      BY <1>5, <2>4 DEF Ordered
    <3>3. /\ ~Abandon(w) /\ ~PanicFail(w)
          /\ status'[e] # "deleted" /\ e \notin dropped'
          /\ \E i \in Nat :
                /\ recorded'[e] = 1..i
                /\ Defer(w) \/ Retry(w) => count'[e] = i
                /\ pc'[w] \notin {"pick", "ack"} => Stage(pc'[w], out'[w], row'[w], count'[e], i)
      BY <1>0, <1>5, <2>4, <3>1, <3>2, HandStep
    <3>4. PICK i \in Nat :
                /\ recorded'[e] = 1..i
                /\ Defer(w) \/ Retry(w) => count'[e] = i
                /\ pc'[w] \notin {"pick", "ack"} => Stage(pc'[w], out'[w], row'[w], count'[e], i)
      BY <3>3
    <3>5. n = 0 /\ A = {<<"worker", w>>} /\ h = 1
      <4>1. Cardinality(A) \in Nat
        BY <1>2, FS_CardinalityType
      <4>. HIDE DEF A, B, n, m, g, h
      <4>2. n + Cardinality(A) <= 1
        BY <1>0, <1>1, <1>2, <4>1
      <4>3. n = 0 /\ A = {<<"worker", w>>}
        BY <1>1, <1>2, <2>4, <4>2, OnlyOne
      <4>4. Cardinality(A) = 1
        BY <4>3, FS_Singleton
      <4>. QED
        BY <1>0, <1>1, <1>2, <4>3, <4>4
    <3>6. Idle(B, m) => count'[e] = i
      <4>1. ASSUME ~Defer(w), ~Retry(w) PROVE ~Idle(B, m)
        <5>1. ~Pick(w)
          BY <3>1 DEF Pick
        <5>2. MaxRetries + 1 \in Nat
          BY <1>0
        <5>3. B \subseteq A /\ pending' = pending
          BY <2>4, <3>3, <4>1, <5>1, <5>2, StaysAfoot
        <5>4. m = n
          BY <5>3
        <5>. HIDE DEF A, B, n, m
        <5>5. m = 0
          BY <3>5, <5>4
        <5>6. \A y : <<"set", y>> \notin B /\ <<"lease", y>> \notin B
          BY <3>5, <5>3, Tags
        <5>7. ~(m > 0)
          BY <5>5
        <5>. QED
          BY <5>6, <5>7, Zenon DEF Idle
      <4>. QED
        BY <3>4, <4>1
    <3>7. \A v \in Workers \ {w} : pc'[v] = pc[v] /\ hold'[v] = hold[v]
      BY <2>4, OthersStay
    <3>8. Ordered(B, m, pc', row', out', count'[e], i, h)
      <4>1. /\ A = Afoot(e, MaxRetries + 1, later \cup due, pc, hold, processing, expired)
            /\ B = Afoot(e, MaxRetries + 1, later' \cup due', pc', hold', processing', expired')
        OBVIOUS
      <4>. HIDE DEF A, B, n, m, g, h
      <4>. QED
        BY <3>4, <3>5, <3>6, <3>7, <4>1, BusyStep
    <3>. HIDE DEF A, B, n, m, g, h
    <3>. QED
      BY <3>3, <3>4, <3>8 DEF Sequel
  <2>. QED
    BY <2>1, <2>2, <2>3, <2>4, NextSplit
<1>. QED
  BY <1>4, <1>5 DEF Sequel

LEMMA NumberedStep == TypeInv /\ TypeInv' /\ Balanced /\ Numbered /\ [Next]_vars => Numbered'
<1>. SUFFICES ASSUME TypeInv, TypeInv', Balanced, Numbered, [Next]_vars,
                     NEW e \in Events, grants'[e] <= 1, used'.faults = 0
              PROVE  Sequel(e, Afoot(e, MaxRetries + 1, later' \cup due', pc', hold', processing', expired'),
                            Listed(pending'[OrgOf[e]], Upto(e, MaxRetries + 1)),
                            pc', row', out', count'[e], grants'[e], status'[e], recorded'[e], dropped')
  BY DEF Numbered
<1>1. grants[e] <= 1 /\ used.faults = 0
  BY SourcesGrow
<1>. QED
  BY <1>1, SequelStep DEF Numbered

LEMMA NumberedInit == Init => Numbered
<1>. SUFFICES ASSUME Init, NEW e \in Events
              PROVE  Sequel(e, Afoot(e, MaxRetries + 1, later \cup due, pc, hold, processing, expired),
                            Listed(pending[OrgOf[e]], Upto(e, MaxRetries + 1)),
                            pc, row, out, count[e], grants[e], status[e], recorded[e], dropped)
  BY DEF Numbered
<1>1. /\ pending = [o \in Orgs |-> <<>>] /\ processing = {} /\ later \cup due = {}
      /\ pc = [w \in Workers |-> "pick"] /\ count[e] = 0 /\ recorded[e] = {} /\ status[e] = "absent" /\ dropped = {}
  BY DEF Init, QueueInit
<1>2. Afoot(e, MaxRetries + 1, later \cup due, pc, hold, processing, expired) = {}
  BY <1>1 DEF Afoot, AtWork, Unclaimed
<1>3. Listed(pending[OrgOf[e]], Upto(e, MaxRetries + 1)) = 0
  <2>1. pending[OrgOf[e]] = <<>>
    BY <1>1, OrgOfAssumption
  <2>2. Places(<<>>, Upto(e, MaxRetries + 1)) = {}
    BY DEF Places
  <2>. QED
    BY <2>1, <2>2, FS_EmptySet DEF Listed
<1>4. recorded[e] = 1..0
  BY <1>1
<1>5. Ordered({}, 0, pc, row, out, 0, 0, grants[e])
  BY DEF Ordered, Idle
<1>6. status[e] # "deleted" /\ e \notin dropped /\ 0 \in Nat
  BY <1>1
<1>7. Sequel(e, {}, 0, pc, row, out, 0, grants[e], status[e], recorded[e], dropped)
  BY <1>4, <1>5, <1>6 DEF Sequel
<1>. QED
  BY <1>1, <1>2, <1>3, <1>7

LEMMA NumberedSuffices == ASSUME Numbered PROVE AttemptsNumbered
<1>. SUFFICES ASSUME NEW e \in Events, grants[e] <= 1, used.faults = 0
              PROVE  e \notin dropped /\ recorded[e] = 1..Cardinality(recorded[e])
  BY DEF AttemptsNumbered
<1>1. e \notin dropped /\ (recorded[e] = {} \/ \E k \in Nat : recorded[e] = 1..k)
  BY DEF Numbered, Sequel
<1>2. PICK k \in Nat : recorded[e] = 1..k
  <2>1. CASE recorded[e] = {}
    <3>1. recorded[e] = 1..0 /\ 0 \in Nat
      BY <2>1
    <3>. QED
      BY <3>1
  <2>2. CASE recorded[e] # {}
    BY <1>1, <2>2
  <2>. QED
    BY <2>1, <2>2
<1>3. Cardinality(1..k) = k
  BY FS_Interval
<1>. QED
  BY <1>1, <1>2, <1>3

-----------------------------------------------------------------------------
(* The three kinds of bookkeeping agree, whatever the number of workers, the   *)
(* retries and the faults (Process, recordAttempt and failAttempt of           *)
(* deliver/handler.go, ClaimStuckEvents of the reaper, RequeueDead of the      *)
(* console): retries, deferrals, promotions and recoveries add no copy, each   *)
(* copy that came from outside is worth at most max_retries + 1 requests, and  *)
(* the attempts of an event enqueued once are numbered without gap or refusal. *)
THEOREM AttemptsAreAccounted == Spec => []AttemptsAccounted
<1>1. Init => TypeInv /\ Balanced /\ Numbered
  BY TypeInit, BalancedInit, NumberedInit
<1>2. TypeInv /\ Balanced /\ Numbered /\ [Next]_vars => (TypeInv /\ Balanced /\ Numbered)'
  BY TypeStep, BalancedStep, NumberedStep
<1>3. TypeInv /\ Balanced /\ Numbered => AttemptsAccounted
  BY TypeSuffices, BalancedCopies, BalancedBudget, NumberedSuffices DEF AttemptsAccounted
<1>. QED
  BY <1>1, <1>2, <1>3, PTL DEF Spec

=============================================================================
