-------------------------- MODULE OutboundProofs ---------------------------
(***************************************************************************)
(* Proofs about Outbound, for every set of deliveries, workers and tokens, *)
(* every retry schedule, threshold and number of disturbances, and about   *)
(* Publisher, for every number of applications, endpoints and requests.    *)
(*                                                                         *)
(* The inductive invariant of Outbound is IInv.  Told counts the automatic *)
(* disablings against the notices, with one more owed while the endpoint   *)
(* is on and a worker's snapshot says it is off.  HoldersOK: tokens tell   *)
(* the holders apart, and a worker that has not settled has its lease or   *)
(* is known to have outlived it.  Kept is NothingStranded without the      *)
(* workers that have nothing left to give when they die.                   *)
(*                                                                         *)
(* For the attempts it is AttemptsInv.  PlainSound: a delivery that nobody *)
(* has copied, replayed or lost a write of has one copy alive, whose       *)
(* holder's count is the row's.  BudgetsKept weighs the copies of a        *)
(* delivery against the disturbances, and its requests against what the    *)
(* row counted and the copies that were used up.                           *)
(*                                                                         *)
(* That of Publisher is ApiInv.  RequestsFit says what each request under  *)
(* way has read and may still rely on, at each of its statements, and      *)
(* Onward how rows may change under it; KeysApart and Reached are about    *)
(* the messages of open transactions too, and LinksBehind relates the      *)
(* epochs of links to that of their application.                           *)
(***************************************************************************)
EXTENDS Outbound, Publisher, FiniteSetTheorems, TLAPS

-----------------------------------------------------------------------------
(* Types. *)

\* The workers' part of TypeOK.
WorkersOK ==
    /\ wk \in [Workers -> WorkerStates]
    /\ \A w \in Workers : wk[w].lease = NoLease <=> wk[w].pc = "pick"

RowsOK == del \in [Items -> Rows] /\ log \in [Items -> Logs]

\* A worker that is not idle holds a lease of a delivery.
LEMMA HolderType ==
    ASSUME WorkersOK, NEW w \in Workers, ~At(w, "pick")
    PROVE  wk[w].lease \in Leases /\ Dv(w) \in Items /\ wk[w] \in WorkerStates
<1>1. wk[w] \in WorkerStates
  BY DEF WorkersOK
<1>2. wk[w].lease \in Leases
  BY <1>1 DEF WorkersOK, WorkerStates, At
<1>. QED
  BY <1>1, <1>2 DEF Dv, Leases

\* The queue's operations keep its type.
LEMMA PutType == ASSUME LeaseTypeOK, NEW d \in Items, Put(d) PROVE LeaseTypeOK'
  BY DEF LeaseTypeOK, Put

LEMMA TakeType ==
    ASSUME LeaseTypeOK, NEW t \in Tokens, NEW d \in Items, Take(t, d) PROVE LeaseTypeOK'
  BY DEF LeaseTypeOK, Take, Leases

LEMMA RemoveType == ASSUME LeaseTypeOK, NEW m, Remove(m) PROVE LeaseTypeOK'
  BY DEF LeaseTypeOK, Remove

LEMMA LapseType == ASSUME LeaseTypeOK, NEW m, Lapse(m) PROVE LeaseTypeOK'
  BY DEF LeaseTypeOK, Lapse

LEMMA ReclaimType == ASSUME LeaseTypeOK, Reclaim PROVE LeaseTypeOK'
  BY DEF LeaseTypeOK, Reclaim

LEMMA GotoType ==
    ASSUME WorkersOK, NEW w \in Workers, ~At(w, "pick"), NEW label \in Labels \ {"pick"}, Goto(w, label)
    PROVE  WorkersOK'
<1>1. wk' \in [Workers -> WorkerStates]
  BY DEF WorkersOK, WorkerStates, Goto
<1>2. /\ wk'[w].lease = wk[w].lease /\ wk'[w].pc = label
      /\ \A v \in Workers \ {w} : wk'[v] = wk[v]
  BY DEF WorkersOK, WorkerStates, Goto
<1>. QED
  BY <1>1, <1>2 DEF WorkersOK, At

LEMMA FreeType == ASSUME WorkersOK, NEW w \in Workers, Free(w) PROVE WorkersOK'
<1>1. Idle \in WorkerStates
  BY DEF Idle, WorkerStates, Labels
<1>. QED
  BY <1>1 DEF WorkersOK, Free, Idle

\* An update of a row with a row.
LEMMA UpdateType ==
    ASSUME del \in [Items -> Rows], NEW d \in Items, NEW r \in Rows, Update(d, r)
    PROVE  del' \in [Items -> Rows]
  BY DEF Update

LEMMA WithStatusType ==
    ASSUME del \in [Items -> Rows], NEW d \in Items, NEW s \in Over \cup {"queued", "in_flight"}
    PROVE  WithStatus(d, s) \in Rows
  BY DEF WithStatus, Rows

LEMMA SpendType ==
    ASSUME used \in 0..MaxEvents, Spend PROVE used' \in 0..MaxEvents /\ used' = used + 1
  BY BoundsAssumption DEF Spend

LEMMA SetStatusUncheckedType ==
    ASSUME RowsOK, used \in 0..MaxEvents, NEW d \in Items,
           NEW s \in Over \cup {"queued", "in_flight"}, SetStatusUnchecked(d, s)
    PROVE  RowsOK' /\ used' \in 0..MaxEvents
<1>1. CASE SetStatus(d, s) /\ UNCHANGED <<log, used>>
  BY <1>1, WithStatusType, UpdateType DEF RowsOK, SetStatus
<1>2. CASE Spend /\ log' = [log EXCEPT ![d].slipped = TRUE] /\ UNCHANGED del
  <2>1. log' \in [Items -> Logs]
    BY <1>2 DEF RowsOK, Logs
  <2>. QED
    BY <1>2, <2>1, SpendType DEF RowsOK
<1>. QED
  BY <1>1, <1>2 DEF SetStatusUnchecked

LEMMA RecordAttemptType ==
    ASSUME RowsOK, used \in 0..MaxEvents, WorkersOK, NEW w \in Workers, ~At(w, "pick"),
           NEW n \in Nat, RecordAttempt(w, n)
    PROVE  RowsOK' /\ used' \in 0..MaxEvents
<1>1. Dv(w) \in Items /\ Attempt(w) \in Nat \ {0}
  BY HolderType DEF Attempt, WorkerStates
<1>2. /\ del[Dv(w)] \in Rows
      /\ [del[Dv(w)] EXCEPT !.recorded = @ \cup {Attempt(w)}] \in Rows
  BY <1>1 DEF RowsOK, Rows
<1>3. del' \in [Items -> Rows]
  BY <1>1, <1>2, UpdateType DEF RecordAttempt, RowsOK
<1>4. Refused(w) \in BOOLEAN
  BY <1>1 DEF Refused, RowsOK, Logs
<1>5. log' \in [Items -> Logs]
  BY <1>1, <1>4 DEF RecordAttempt, RowsOK, Logs
<1>. QED
  BY <1>3, <1>5, SpendType DEF RecordAttempt, RowsOK

EpOK == ep \in [Endpoints -> EndpointRows]

LEMMA TypeParts ==
    TypeOK <=> /\ LeaseTypeOK /\ RowsOK /\ EpOK /\ WorkersOK
               /\ buried \subseteq Items /\ used \in 0..MaxEvents
  BY DEF TypeOK, RowsOK, EpOK, WorkersOK

LEMMA EndpointOfType == \A d \in Items : EndpointOf(d) \in Endpoints
  BY DEF EndpointOf, Endpoints

LEMMA PublishType ==
    ASSUME TypeOK, NEW w \in Workers, ~At(w, "pick"), Publish(w), UNCHANGED log
    PROVE  LeaseTypeOK' /\ RowsOK' /\ used' \in 0..MaxEvents
<1>1. CASE UNCHANGED <<leaseVars, del, used>>
  BY <1>1, TypeParts DEF leaseVars, LeaseTypeOK, RowsOK
<1>2. ASSUME NEW o \in Op, del' = [del EXCEPT ![o].status = "queued"],
             \/ Put(o) /\ UNCHANGED used
             \/ Spend /\ UNCHANGED leaseVars
      PROVE  LeaseTypeOK' /\ RowsOK' /\ used' \in 0..MaxEvents
  <2>1. o \in Items
    BY OpAssumption
  <2>2. RowsOK'
    BY <1>2, <2>1, TypeParts DEF RowsOK, Rows
  <2>3. CASE Put(o) /\ UNCHANGED used
    BY <2>1, <2>2, <2>3, PutType, TypeParts
  <2>4. CASE Spend /\ UNCHANGED leaseVars
    BY <2>2, <2>4, SpendType, TypeParts DEF leaseVars, LeaseTypeOK
  <2>. QED
    BY <1>2, <2>3, <2>4
<1>. QED
  BY <1>1, <1>2 DEF Publish

\* The steps of a worker.
LEMMA ProcessType ==
    ASSUME TypeOK, NEW w \in Workers, Process(w) \/ Panic(w) \/ Abandon(w)
    PROVE  TypeOK'
<1>0. LeaseTypeOK /\ RowsOK /\ EpOK /\ WorkersOK /\ buried \subseteq Items /\ used \in 0..MaxEvents
  BY TypeParts
<1>. USE DEF leaseVars
<1>q. (UNCHANGED leaseVars => LeaseTypeOK') /\ (UNCHANGED <<del, log>> => RowsOK') /\ (UNCHANGED ep => EpOK')
  BY <1>0 DEF LeaseTypeOK, RowsOK, EpOK
<1>p. /\ LeaseTypeOK' /\ RowsOK' /\ EpOK' /\ WorkersOK'
      /\ buried' \subseteq Items /\ used' \in 0..MaxEvents
      => TypeOK'
  BY DEF TypeOK, RowsOK, EpOK, WorkersOK
<1>1. CASE Pick(w)
  <2>1. PICK t \in Tokens, d \in Items : /\ Take(t, d)
           /\ wk' = [wk EXCEPT ![w].pc = "load", ![w].lease = [tok |-> t, evt |-> d]]
    BY <1>1 DEF Pick
  <2>2. [tok |-> t, evt |-> d] \in Leases /\ [tok |-> t, evt |-> d] # NoLease
    BY NoLeaseAssumption DEF Leases
  <2>3. wk' \in [Workers -> WorkerStates]
    BY <1>0, <2>1, <2>2 DEF WorkersOK, WorkerStates, Labels
  <2>4. /\ wk'[w].pc = "load" /\ wk'[w].lease = [tok |-> t, evt |-> d]
        /\ \A v \in Workers \ {w} : wk'[v] = wk[v]
    BY <1>0, <2>1 DEF WorkersOK, WorkerStates
  <2>5. WorkersOK'
    BY <1>0, <2>2, <2>3, <2>4 DEF WorkersOK
  <2>. QED
    BY <1>0, <1>1, <1>q, <2>1, <2>5, TakeType, <1>p DEF Pick
<1>. DEFINE d == Dv(w)
<1>a. ~At(w, "pick") => d \in Items /\ wk[w].lease \in Leases
  BY <1>0, HolderType
<1>g. ASSUME ~At(w, "pick"), NEW label \in Labels \ {"pick"}, Goto(w, label) PROVE WorkersOK'
  BY <1>0, <1>g, GotoType
<1>2. CASE Load(w)
  <2>1. CASE wk' = [wk EXCEPT ![w].pc = "gate", ![w].row = del[d].count]
    <3>1. ~At(w, "pick")
      BY <1>2 DEF Load, At
    <3>2. del[d].count \in Nat
      BY <1>0, <1>a, <3>1 DEF RowsOK, Rows
    <3>3. wk' \in [Workers -> WorkerStates]
      BY <1>0, <2>1, <3>2 DEF WorkersOK, WorkerStates, Labels
    <3>4. /\ wk'[w].pc = "gate" /\ wk'[w].lease = wk[w].lease
          /\ \A v \in Workers \ {w} : wk'[v] = wk[v]
      BY <1>0, <2>1 DEF WorkersOK, WorkerStates
    <3>5. WorkersOK'
      BY <1>0, <3>1, <3>3, <3>4 DEF WorkersOK, At
    <3>. QED
      BY <1>0, <1>2, <1>q, <3>5, <1>p DEF Load
  <2>2. CASE Goto(w, "ack") \/ Goto(w, "disable")
    <3>1. WorkersOK'
      BY <1>2, <1>g, <2>2 DEF Load, Labels, At
    <3>. QED
      BY <1>0, <1>2, <1>q, <3>1, <1>p DEF Load
  <2>. QED
    BY <1>2, <2>1, <2>2 DEF Load
<1>3. CASE MarkDeliveryDisabled(w) \/ MarkRejectedDead(w) \/ MarkDeliveryFiltered(w)
  <2>1. WorkersOK' /\ ~At(w, "pick")
    BY <1>3, <1>g DEF MarkDeliveryDisabled, MarkRejectedDead, MarkDeliveryFiltered, Labels, At
  <2>2. RowsOK' /\ used' \in 0..MaxEvents
    BY <1>0, <1>3, <1>a, <2>1, SetStatusUncheckedType
    DEF MarkDeliveryDisabled, MarkRejectedDead, MarkDeliveryFiltered, Over
  <2>. QED
    BY <1>0, <1>3, <1>q, <2>1, <2>2, <1>p DEF MarkDeliveryDisabled, MarkRejectedDead, MarkDeliveryFiltered
<1>4. CASE Defer(w) \/ ScheduleRetry(w)
  <2>1. WorkersOK' /\ ~At(w, "pick")
    BY <1>4, <1>g DEF Defer, ScheduleRetry, Labels, At
  <2>2. LeaseTypeOK'
    BY <1>0, <1>4, <1>a, <2>1, PutType DEF Defer, ScheduleRetry
  <2>. QED
    BY <1>0, <1>4, <1>q, <2>1, <2>2, <1>p DEF Defer, ScheduleRetry
<1>5. CASE Reject(w) \/ Send(w)
  <2>1. WorkersOK' /\ ~At(w, "pick")
    BY <1>5, <1>g DEF Reject, Send, AfterFailure, Labels, At
  <2>2. RowsOK' /\ used' \in 0..MaxEvents
    <3>1. CASE \E n \in Nat : RecordAttempt(w, n)
      BY <1>0, <2>1, <3>1, RecordAttemptType
    <3>2. CASE Spend /\ UNCHANGED <<del, log>>
      BY <1>0, <3>2, SpendType DEF RowsOK
    <3>. QED
      BY <1>5, <3>1, <3>2 DEF Reject, Send
  <2>. QED
    BY <1>0, <1>5, <1>q, <2>1, <2>2, <1>p DEF Reject, Send, AfterFailure
<1>6. CASE MarkDeliveryInFlight(w)
  <2>1. ~At(w, "pick")
    BY <1>6 DEF MarkDeliveryInFlight, At
  <2>2. WorkersOK'
    <3>1. wk' = [wk EXCEPT ![w].pc = "send"]
      BY <1>6 DEF MarkDeliveryInFlight
    <3>2. wk' \in [Workers -> WorkerStates]
      BY <1>0, <3>1 DEF WorkersOK, WorkerStates, Labels
    <3>3. /\ wk'[w].pc = "send" /\ wk'[w].lease = wk[w].lease
          /\ \A v \in Workers \ {w} : wk'[v] = wk[v]
      BY <1>0, <3>1 DEF WorkersOK, WorkerStates
    <3>. QED
      BY <1>0, <2>1, <3>2, <3>3 DEF WorkersOK, At
  <2>3. WithStatus(d, "in_flight") \in Rows
    BY <1>0, <1>a, <2>1, WithStatusType DEF RowsOK
  <2>4. [WithStatus(d, "in_flight") EXCEPT !.count = @ + 1] \in Rows
    BY <2>3 DEF Rows
  <2>5. RowsOK'
    BY <1>0, <1>6, <1>a, <2>1, <2>4, UpdateType DEF RowsOK, MarkDeliveryInFlight
  <2>. QED
    BY <1>0, <1>6, <1>q, <2>2, <2>5, <1>p DEF MarkDeliveryInFlight
<1>7. CASE MarkDeliveryDelivered(w) \/ MarkDeliveryDead(w)
  <2>1. WorkersOK' /\ ~At(w, "pick")
    BY <1>7, <1>g DEF MarkDeliveryDelivered, MarkDeliveryDead, Labels, At
  <2>2. RowsOK'
    BY <1>0, <1>7, <1>a, <2>1, WithStatusType, UpdateType
    DEF MarkDeliveryDelivered, MarkDeliveryDead, SetStatus, Over, RowsOK
  <2>. QED
    BY <1>0, <1>7, <1>q, <2>1, <2>2, <1>p DEF MarkDeliveryDelivered, MarkDeliveryDead
<1>8. CASE MarkDeliveryForRetry(w)
  <2>1. WorkersOK' /\ ~At(w, "pick")
    BY <1>8, <1>g DEF MarkDeliveryForRetry, Labels, At
  <2>2. WithStatus(d, "queued") \in Rows
    BY <1>0, <1>a, <2>1, WithStatusType DEF RowsOK
  <2>3. [WithStatus(d, "queued") EXCEPT !.retryAt = TRUE] \in Rows
    BY <2>2 DEF Rows
  <2>4. RowsOK'
    BY <1>0, <1>8, <1>a, <2>1, <2>3, UpdateType DEF RowsOK, MarkDeliveryForRetry
  <2>. QED
    BY <1>0, <1>8, <1>q, <2>1, <2>4, <1>p DEF MarkDeliveryForRetry
<1>9. CASE ResetEndpointFailures(w)
  <2>1. WorkersOK' /\ ~At(w, "pick")
    BY <1>9, <1>g DEF ResetEndpointFailures, Labels, At
  <2>2. EpOK'
    BY <1>0, <1>9 DEF ResetEndpointFailures, EpOK, EndpointRows
  <2>. QED
    BY <1>0, <1>9, <1>q, <2>1, <2>2, SpendType, <1>p DEF ResetEndpointFailures
<1>10. CASE AckStep(w) \/ Bury(w) \/ PanicBury(w)
  <2>1. ~At(w, "pick")
    BY <1>10 DEF AckStep, Bury, PanicBury, At
  <2>2. WorkersOK'
    BY <1>0, <1>10, <1>g, <2>1, FreeType DEF AckStep, Bury, PanicBury, Labels
  <2>3. LeaseTypeOK' /\ buried' \subseteq Items /\ used' \in 0..MaxEvents
    BY <1>0, <1>10, <1>a, <1>q, <2>1, RemoveType, SpendType DEF AckStep, Bury, PanicBury
  <2>. QED
    BY <1>0, <1>10, <1>q, <2>2, <2>3, <1>p DEF AckStep, Bury, PanicBury
<1>11. CASE PublishExhausted(w) \/ PublishDisabled(w)
  <2>1. WorkersOK' /\ ~At(w, "pick")
    BY <1>11, <1>g DEF PublishExhausted, PublishDisabled, Labels, At
  <2>2. LeaseTypeOK' /\ RowsOK' /\ used' \in 0..MaxEvents
    BY <1>11, <2>1, PublishType DEF PublishExhausted, PublishDisabled
  <2>. QED
    BY <1>0, <1>11, <1>q, <2>1, <2>2, <1>p DEF PublishExhausted, PublishDisabled
<1>12. CASE IncrSnapshot(w)
  <2>1. ~At(w, "pick")
    BY <1>12 DEF IncrSnapshot, At
  <2>2. WorkersOK'
    <3>1. CASE Goto(w, "bury")
      BY <1>g, <2>1, <3>1 DEF Labels
    <3>2. CASE wk' = [wk EXCEPT ![w].pc = "increment", ![w].was = ep[EndpointOf(d)].disabled]
      <4>1. ep[EndpointOf(d)].disabled \in BOOLEAN
        BY <1>0, <1>a, <2>1, EndpointOfType DEF EpOK, EndpointRows
      <4>2. wk' \in [Workers -> WorkerStates]
        BY <1>0, <2>1, <3>2, <4>1, HolderType DEF WorkersOK, WorkerStates, Labels
      <4>3. /\ wk'[w].pc = "increment" /\ wk'[w].lease = wk[w].lease
            /\ \A v \in Workers \ {w} : wk'[v] = wk[v]
        BY <1>0, <3>2 DEF WorkersOK, WorkerStates
      <4>. QED
        BY <1>0, <2>1, <4>2, <4>3 DEF WorkersOK, At
    <3>. QED
      BY <1>12, <3>1, <3>2 DEF IncrSnapshot
  <2>. QED
    BY <1>0, <1>12, <1>q, <2>2, SpendType, <1>p DEF IncrSnapshot
<1>13. CASE IncrUpdate(w)
  <2>1. WorkersOK' /\ ~At(w, "pick")
    BY <1>13, <1>g DEF IncrUpdate, Labels, At
  <2>2. EpOK'
    <3>1. ep[EndpointOf(d)] \in EndpointRows /\ EndpointOf(d) \in Endpoints
      BY <1>0, <1>a, <2>1, EndpointOfType DEF EpOK
    <3>2. ASSUME NEW new \in EndpointRows, ep' = [ep EXCEPT ![EndpointOf(d)] = new] PROVE EpOK'
      BY <1>0, <3>2 DEF EpOK
    <3>. DEFINE old == ep[EndpointOf(d)]
                new == [old EXCEPT !.fails = @ + 1,
                           !.disabled = @ \/ old.fails + 1 >= Threshold,
                           !.flips = IF ~old.disabled /\ old.fails + 1 >= Threshold
                                     THEN @ + 1 ELSE @]
    <3>3. old.fails \in Nat /\ old.flips \in Nat /\ old.notices \in Nat
      BY <3>1 DEF EndpointRows
    <3>4. (old.disabled \/ old.fails + 1 >= Threshold) \in BOOLEAN
      OBVIOUS
    <3>5. new \in EndpointRows
      <4>1. ASSUME NEW b \in BOOLEAN, NEW n \in Nat, NEW f \in Nat
            PROVE  [old EXCEPT !.fails = f, !.disabled = b, !.flips = n] \in EndpointRows
        BY <3>1 DEF EndpointRows
      <4>2. (IF ~old.disabled /\ old.fails + 1 >= Threshold THEN old.flips + 1 ELSE old.flips) \in Nat
        BY <3>3
      <4>3. old.fails + 1 \in Nat
        BY <3>3
      <4>. QED
        BY <3>4, <4>1, <4>2, <4>3
    <3>6. [new EXCEPT !.notices = IF JustDisabled(w, new) THEN @ + 1 ELSE @] \in EndpointRows
      <4>. HIDE DEF new
      <4>. QED
        BY <3>5 DEF EndpointRows
    <3>. QED
      BY <1>q, <1>13, <3>2, <3>6 DEF IncrUpdate
  <2>. QED
    BY <1>0, <1>13, <1>q, <2>1, <2>2, <1>p DEF IncrUpdate
<1>14. CASE PanicDead(w) \/ Abandon(w)
  <2>1. ~At(w, "pick") /\ WorkersOK'
    BY <1>0, <1>14, FreeType DEF PanicDead, Abandon, At
  <2>2. CASE PanicDead(w)
    <3>1. RowsOK' /\ used' \in 0..MaxEvents
      BY <1>0, <2>2, <1>a, <2>1, SetStatusUncheckedType DEF PanicDead, Over
    <3>. QED
      BY <1>0, <2>2, <1>q, <2>1, <3>1, <1>p DEF PanicDead
  <2>3. CASE Abandon(w)
    <3>1. log' \in [Items -> Logs]
      BY <1>0, <1>a, <2>1, <2>3 DEF Abandon, RowsOK, Logs
    <3>2. RowsOK'
      BY <1>0, <2>3, <3>1 DEF Abandon, RowsOK
    <3>. QED
      BY <1>0, <2>3, <1>q, <2>1, <3>2, SpendType, <1>p DEF Abandon
  <2>. QED
    BY <1>14, <2>2, <2>3
<1>15. CASE Panic(w)
  <2>1. WorkersOK' /\ ~At(w, "pick")
    BY <1>15, <1>g DEF Panic, Labels, At
  <2>. QED
    BY <1>0, <1>15, <1>q, <2>1, SpendType, <1>p DEF Panic
<1>. QED
  BY <1>1, <1>2, <1>3, <1>4, <1>5, <1>6, <1>7, <1>8, <1>9, <1>10, <1>11, <1>12, <1>13, <1>14, <1>15
  DEF Process

\* The queue's own steps, the API, the console and the reaper.
LEMMA OthersType ==
    ASSUME TypeOK,
           \/ OrphanExpires \/ LeaseOverrun \/ Recoverer
           \/ \E d \in Items : CreateDelivery(d) \/ Replay(d) \/ RequeueDead(d) \/ Ages(d) \/ ClaimStuck(d)
           \/ \E e \in Endpoints : EndpointPatched(e) \/ EndpointDeleted(e)
    PROVE  TypeOK'
<1>0. LeaseTypeOK /\ RowsOK /\ EpOK /\ WorkersOK /\ buried \subseteq Items /\ used \in 0..MaxEvents
  BY TypeParts
<1>. USE DEF leaseVars
<1>q. /\ UNCHANGED leaseVars => LeaseTypeOK'
      /\ UNCHANGED <<del, log>> => RowsOK'
      /\ UNCHANGED ep => EpOK'
      /\ UNCHANGED wk => WorkersOK'
  BY <1>0 DEF LeaseTypeOK, RowsOK, EpOK, WorkersOK
<1>p. /\ LeaseTypeOK' /\ RowsOK' /\ EpOK' /\ WorkersOK'
      /\ buried' \subseteq Items /\ used' \in 0..MaxEvents
      => TypeOK'
  BY DEF TypeOK, RowsOK, EpOK, WorkersOK
<1>1. CASE OrphanExpires \/ Recoverer
  BY <1>0, <1>1, <1>p, <1>q, LapseType, ReclaimType DEF OrphanExpires, Recoverer
<1>2. CASE LeaseOverrun
  <2>1. PICK m \in leased :
           Lapse(m) /\ log' = [log EXCEPT ![m.evt].overrun = TRUE, ![m.evt].doubled = TRUE]
    BY <1>2 DEF LeaseOverrun
  <2>2. m.evt \in Items
    BY <1>0 DEF LeaseTypeOK, Leases
  <2>3. log' \in [Items -> Logs]
    BY <1>0, <2>1, <2>2 DEF RowsOK, Logs
  <2>4. RowsOK'
    BY <1>0, <1>2, <2>3 DEF LeaseOverrun, RowsOK
  <2>. QED
    BY <1>0, <1>2, <1>p, <1>q, <2>1, <2>4, LapseType, SpendType DEF LeaseOverrun
<1>3. ASSUME NEW d \in Items, CreateDelivery(d) PROVE TypeOK'
  <2>1. RowsOK'
    BY <1>0, <1>3 DEF CreateDelivery, RowsOK, Rows
  <2>. QED
    BY <1>0, <1>3, <1>p, <1>q, <2>1, PutType, SpendType DEF CreateDelivery
<1>4. ASSUME NEW d \in Items, Replay(d) PROVE TypeOK'
  <2>1. WithStatus(d, "queued") \in Rows
    BY <1>0, WithStatusType DEF RowsOK
  <2>2. [WithStatus(d, "queued") EXCEPT !.count = 0, !.retryAt = FALSE] \in Rows
    BY <2>1 DEF Rows
  <2>3. del' \in [Items -> Rows]
    BY <1>0, <1>4, <2>2, UpdateType DEF Replay, RowsOK
  <2>4. log' \in [Items -> Logs]
    <3>1. log' = [log EXCEPT ![d].replays = @ + 1]
      BY <1>4 DEF Replay
    <3>. QED
      BY <1>0, <3>1 DEF RowsOK, Logs
  <2>5. RowsOK'
    BY <2>3, <2>4 DEF RowsOK
  <2>. QED
    BY <1>0, <1>4, <1>p, <1>q, <2>5, PutType, SpendType DEF Replay
<1>5. ASSUME NEW d \in Items, RequeueDead(d) PROVE TypeOK'
  <2>1. log' \in [Items -> Logs]
    BY <1>0, <1>5 DEF RequeueDead, RowsOK, Logs
  <2>2. RowsOK'
    BY <1>0, <1>5, <2>1 DEF RequeueDead, RowsOK
  <2>. QED
    BY <1>0, <1>5, <1>p, <1>q, <2>2, PutType, SpendType DEF RequeueDead
<1>6. ASSUME NEW d \in Items, Ages(d) PROVE TypeOK'
  <2>1. RowsOK'
    BY <1>0, <1>6 DEF Ages, RowsOK, Rows
  <2>. QED
    BY <1>0, <1>6, <1>p, <1>q, <2>1 DEF Ages
<1>7. ASSUME NEW d \in Items, ClaimStuck(d) PROVE TypeOK'
  <2>1. del' \in [Items -> Rows]
    BY <1>0, <1>7 DEF ClaimStuck, RowsOK, Rows
  <2>2. log' \in [Items -> Logs]
    BY <1>0, <1>7 DEF ClaimStuck, RowsOK, Logs
  <2>3. RowsOK'
    BY <2>1, <2>2 DEF RowsOK
  <2>. QED
    BY <1>0, <1>7, <1>p, <1>q, <2>3, PutType, SpendType DEF ClaimStuck
<1>8. ASSUME NEW e \in Endpoints, EndpointPatched(e) PROVE TypeOK'
  <2>1. ep[e] \in EndpointRows
    BY <1>0 DEF EpOK
  <2>2. ASSUME ep' = [ep EXCEPT ![e].disabled = TRUE] PROVE EpOK'
    BY <1>0, <2>1, <2>2 DEF EpOK, EndpointRows
  <2>3. ASSUME NEW n \in Nat, ep' = [ep EXCEPT ![e].disabled = FALSE, ![e].fails = 0, ![e].revived = n]
        PROVE  EpOK'
    BY <1>0, <2>1, <2>3 DEF EpOK, EndpointRows
  <2>4. EpOK'
    <3>1. PICK n : /\ n = IF ep[e].disabled THEN ep[e].revived + 1 ELSE ep[e].revived
                   /\ n \in Nat
      BY <2>1 DEF EndpointRows
    <3>2. \/ ep' = [ep EXCEPT ![e].disabled = TRUE]
          \/ ep' = [ep EXCEPT ![e].disabled = FALSE, ![e].fails = 0, ![e].revived = n]
      BY <1>0, <1>8, <3>1 DEF EndpointPatched, EpOK
    <3>. QED
      BY <2>2, <2>3, <3>1, <3>2
  <2>. QED
    BY <1>0, <1>8, <1>p, <1>q, <2>4, SpendType DEF EndpointPatched
<1>9. ASSUME NEW e \in Endpoints, EndpointDeleted(e) PROVE TypeOK'
  <2>1. EpOK'
    BY <1>0, <1>9 DEF EndpointDeleted, EpOK, EndpointRows
  <2>2. RowsOK'
    <3>1. ASSUME NEW d \in Items PROVE [del[d] EXCEPT !.status = "deleted", !.recorded = {}] \in Rows
      BY <1>0 DEF RowsOK, Rows
    <3>2. \A d \in Items : del[d] \in Rows
      BY <1>0 DEF RowsOK
    <3>3. del' \in [Items -> Rows]
      BY <1>9, <3>1, <3>2 DEF EndpointDeleted
    <3>. QED
      BY <1>0, <1>9, <3>3 DEF EndpointDeleted, RowsOK
  <2>. QED
    BY <1>0, <1>9, <1>p, <1>q, <2>1, <2>2, SpendType DEF EndpointDeleted
<1>. QED
  BY <1>1, <1>2, <1>3, <1>4, <1>5, <1>6, <1>7, <1>8, <1>9

LEMMA TypeStep == TypeOK /\ [Next]_vars => TypeOK'
<1>. SUFFICES ASSUME TypeOK, [Next]_vars PROVE TypeOK'
  OBVIOUS
<1>1. CASE UNCHANGED vars
  BY <1>1 DEF vars, leaseVars, TypeOK, LeaseTypeOK
<1>. QED
  BY <1>1, ProcessType, OthersType DEF Next

LEMMA TypeInit == Init => TypeOK
<1>. SUFFICES ASSUME Init PROVE TypeOK
  OBVIOUS
<1>1. LeaseTypeOK
  BY DEF Init, LeaseInit, LeaseTypeOK
<1>2. RowsOK
  BY DEF Init, RowsOK, Rows, Logs
<1>3. EpOK
  BY DEF Init, EpOK, EndpointRows
<1>4. WorkersOK
  BY DEF Init, WorkersOK, WorkerStates, Idle, Labels
<1>5. buried \subseteq Items /\ used \in 0..MaxEvents
  BY BoundsAssumption DEF Init
<1>. QED
  BY <1>1, <1>2, <1>3, <1>4, <1>5, TypeParts

-----------------------------------------------------------------------------
(* What every step leaves alone. *)

WorkerStep(w) == Process(w) \/ Panic(w) \/ Abandon(w)

OtherStep ==
    \/ OrphanExpires \/ LeaseOverrun \/ Recoverer
    \/ \E d \in Items : CreateDelivery(d) \/ Replay(d) \/ RequeueDead(d) \/ Ages(d) \/ ClaimStuck(d)
    \/ \E e \in Endpoints : EndpointPatched(e) \/ EndpointDeleted(e)

LEMMA NextSplit == Next <=> (\E w \in Workers : WorkerStep(w)) \/ OtherStep
  BY DEF Next, WorkerStep, OtherStep

\* A step of one worker does not move another, and keeps its own lease.
LEMMA OneMoves ==
    ASSUME WorkersOK, NEW w \in Workers, WorkerStep(w)
    PROVE  /\ \A v \in Workers \ {w} : wk'[v] = wk[v]
           /\ \/ Pick(w) /\ wk'[w].pc = "load"
              \/ wk[w].pc # "pick" /\ wk'[w].lease = wk[w].lease
              \/ wk[w].pc # "pick" /\ wk'[w] = Idle
<1>. USE DEF WorkersOK, WorkerStates, At
<1>1. ASSUME NEW label, Goto(w, label)
      PROVE  wk'[w].lease = wk[w].lease /\ \A v \in Workers \ {w} : wk'[v] = wk[v]
  BY <1>1 DEF Goto
<1>2. ASSUME Free(w) PROVE wk'[w] = Idle /\ \A v \in Workers \ {w} : wk'[v] = wk[v]
  BY <1>2 DEF Free
<1>3. CASE Pick(w)
  <2>1. PICK m : wk' = [wk EXCEPT ![w].pc = "load", ![w].lease = m]
    BY <1>3 DEF Pick
  <2>. QED
    BY <1>3, <2>1
<1>4. CASE Load(w)
  <2>1. CASE wk' = [wk EXCEPT ![w].pc = "gate", ![w].row = del[Dv(w)].count]
    BY <1>4, <2>1 DEF Load
  <2>. QED
    BY <1>1, <1>4, <2>1 DEF Load
<1>5. CASE MarkDeliveryInFlight(w)
  BY <1>5 DEF MarkDeliveryInFlight
<1>6. CASE IncrSnapshot(w)
  <2>1. CASE wk' = [wk EXCEPT ![w].pc = "increment", ![w].was = ep[EndpointOf(Dv(w))].disabled]
    BY <1>6, <2>1 DEF IncrSnapshot
  <2>. QED
    BY <1>1, <1>6, <2>1 DEF IncrSnapshot
<1>7. CASE AckStep(w) \/ Bury(w) \/ PanicDead(w) \/ Abandon(w)
  BY <1>2, <1>7 DEF AckStep, Bury, PanicDead, Abandon
<1>8. CASE \/ MarkDeliveryDisabled(w) \/ Defer(w) \/ Reject(w) \/ MarkRejectedDead(w)
           \/ MarkDeliveryFiltered(w) \/ Send(w) \/ MarkDeliveryDelivered(w)
           \/ ResetEndpointFailures(w) \/ MarkDeliveryForRetry(w) \/ ScheduleRetry(w)
           \/ MarkDeliveryDead(w) \/ PublishExhausted(w) \/ IncrUpdate(w) \/ PublishDisabled(w)
           \/ PanicBury(w) \/ Panic(w)
  <2>1. wk[w].pc # "pick" /\ \E label \in Labels : Goto(w, label)
    BY <1>8 DEF MarkDeliveryDisabled, Defer, Reject, MarkRejectedDead, MarkDeliveryFiltered, Send, AfterFailure,
       MarkDeliveryDelivered, ResetEndpointFailures, MarkDeliveryForRetry, ScheduleRetry,
       MarkDeliveryDead, PublishExhausted, IncrUpdate, PublishDisabled, PanicBury, Panic, Labels
  <2>. QED
    BY <1>1, <2>1
<1>. QED
  BY <1>3, <1>4, <1>5, <1>6, <1>7, <1>8 DEF WorkerStep, Process

\* The disturbances are counted up.
LEMMA UsedGrows ==
    ASSUME TypeOK, [Next]_vars
    PROVE  used \in Nat /\ used' \in Nat /\ used' >= used
<1>0. used \in Nat /\ used' \in Nat
  BY TypeStep, BoundsAssumption DEF TypeOK
<1>1. ASSUME NEW w \in Workers, WorkerStep(w) PROVE UNCHANGED used \/ Spend
  BY <1>1 DEF WorkerStep, Process, Pick, Load, MarkDeliveryDisabled, Defer, Reject, MarkRejectedDead,
     MarkDeliveryFiltered, MarkDeliveryInFlight, Send, AfterFailure, MarkDeliveryDelivered, ResetEndpointFailures,
     MarkDeliveryForRetry, ScheduleRetry, AckStep, MarkDeliveryDead, PublishExhausted, IncrSnapshot,
     IncrUpdate, PublishDisabled, Bury, PanicBury, PanicDead, Panic, Abandon, SetStatusUnchecked,
     RecordAttempt, Publish
<1>2. ASSUME OtherStep PROVE UNCHANGED used \/ Spend
  BY <1>2 DEF OtherStep, OrphanExpires, LeaseOverrun, Recoverer, CreateDelivery, Replay, RequeueDead,
     Ages, ClaimStuck, EndpointPatched, EndpointDeleted
<1>3. UNCHANGED used \/ Spend
  BY <1>1, <1>2, NextSplit DEF vars
<1>. QED
  BY <1>0, <1>3 DEF Spend

-----------------------------------------------------------------------------
(* endpoint.disabled.                                                      *)
(*                                                                         *)
(* DisableNoticed is not inductive: a worker whose snapshot still shows    *)
(* the endpoint disabled can disable it again unnoticed, once somebody has *)
(* enabled it.  Told charges that flip to the one who enabled it, at once. *)

\* A worker between its snapshot, which shows the endpoint disabled, and its update.
Misled == \E w \in Workers : wk[w].pc = "increment" /\ wk[w].was /\ EndpointOf(Dv(w)) = "app"

Charge == IF ~ep["app"].disabled /\ Misled THEN 1 ELSE 0

Told == ep["app"].flips + Charge <= ep["app"].notices + ep["app"].revived

LEMMA AppType ==
    ASSUME TypeOK
    PROVE  /\ ep["app"] \in EndpointRows /\ "app" \in Endpoints
           /\ ep["app"].flips \in Nat /\ ep["app"].notices \in Nat /\ ep["app"].revived \in Nat
           /\ Charge \in {0, 1}
<1>1. ep["app"] \in EndpointRows /\ "app" \in Endpoints
  BY DEF TypeOK, Endpoints
<1>. QED
  BY <1>1 DEF EndpointRows, Charge

\* Steps that neither flip the endpoint nor take a snapshot.
LEMMA ToldQuiet ==
    ASSUME TypeOK, TypeOK', Told, [Next]_vars, Misled' => Misled,
           ep'["app"].disabled = ep["app"].disabled,
           ep'["app"].flips = ep["app"].flips, ep'["app"].notices = ep["app"].notices,
           ep'["app"].revived = ep["app"].revived
    PROVE  Told'
<1>1. Charge' <= Charge /\ Charge \in {0, 1} /\ Charge' \in {0, 1}
  BY DEF Charge
<1>2. ep["app"].flips \in Nat /\ ep["app"].notices \in Nat /\ ep["app"].revived \in Nat
  BY AppType
<1>3. ep["app"].flips + Charge <= ep["app"].notices + ep["app"].revived
  BY DEF Told
<1>4. ep["app"].flips + Charge' <= ep["app"].notices + ep["app"].revived
  BY <1>1, <1>2, <1>3
<1>. QED
  BY <1>4 DEF Told

LEMMA ToldStep == TypeOK /\ TypeOK' /\ Told /\ [Next]_vars => Told'
<1>. SUFFICES ASSUME TypeOK, TypeOK', Told, [Next]_vars PROVE Told'
  OBVIOUS
<1>0. /\ ep["app"].flips + Charge <= ep["app"].notices + ep["app"].revived
      /\ ep["app"] \in EndpointRows /\ "app" \in Endpoints
      /\ ep["app"].flips \in Nat /\ ep["app"].notices \in Nat /\ ep["app"].revived \in Nat
      /\ Charge \in {0, 1}
  BY AppType DEF Told
<1>1. ep \in [Endpoints -> EndpointRows] /\ Charge' \in {0, 1}
  BY DEF TypeOK, Charge
<1>2. WorkersOK
  BY TypeParts
<1>t. ASSUME ep'["app"].flips + Charge' <= ep'["app"].notices + ep'["app"].revived PROVE Told'
  BY <1>t DEF Told
<1>3. ASSUME NEW w \in Workers, IncrUpdate(w) PROVE Told'
  <2>. DEFINE e == EndpointOf(Dv(w))
              old == ep[e]
  <2>1. /\ wk[w].pc = "increment" /\ wk[w] \in WorkerStates /\ Dv(w) \in Items
        /\ wk'[w].pc # "increment" /\ \A v \in Workers \ {w} : wk'[v] = wk[v]
    <3>1. wk[w].pc = "increment" /\ ~At(w, "pick") /\ WorkerStep(w)
      BY <1>3 DEF IncrUpdate, At, WorkerStep, Process
    <3>2. wk'[w].pc # "increment"
      BY <1>2, <1>3 DEF IncrUpdate, Goto, WorkersOK, WorkerStates
    <3>. QED
      BY <1>2, <3>1, <3>2, HolderType, OneMoves
  <2>2. Misled' => Misled
    BY <2>1 DEF Misled, Dv
  <2>3. CASE e # "app" \/ ~old.exists
    <3>1. ep'["app"] = ep["app"]
      <4>1. ep' = ep \/ (e # "app" /\ \E x : ep' = [ep EXCEPT ![e] = x])
        BY <1>3, <2>3 DEF IncrUpdate
      <4>. HIDE DEF e
      <4>. QED
        BY <1>0, <1>1, <4>1
    <3>. QED
      BY <2>2, <3>1, ToldQuiet
  <2>4. CASE e = "app" /\ old.exists
    <3>. DEFINE over == old.fails + 1 >= Threshold
                told == ~wk[w].was /\ (old.disabled \/ over)
    <3>1. /\ ep'["app"].flips = IF ~old.disabled /\ over THEN old.flips + 1 ELSE old.flips
          /\ ep'["app"].notices = IF told THEN old.notices + 1 ELSE old.notices
          /\ ep'["app"].disabled = (old.disabled \/ over)
          /\ ep'["app"].revived = old.revived
      <4>. DEFINE new == [old EXCEPT !.fails = @ + 1,
                             !.disabled = @ \/ old.fails + 1 >= Threshold,
                             !.flips = IF ~old.disabled /\ old.fails + 1 >= Threshold
                                       THEN @ + 1 ELSE @]
      <4>1. /\ new.flips = IF ~old.disabled /\ over THEN old.flips + 1 ELSE old.flips
            /\ new.notices = old.notices
            /\ new.disabled = (old.disabled \/ over)
            /\ new.revived = old.revived
        BY <1>0, <2>4 DEF EndpointRows
      <4>2. ep' = [ep EXCEPT ![e] = [new EXCEPT !.notices = IF JustDisabled(w, new) THEN @ + 1 ELSE @]]
        BY <1>3, <2>4 DEF IncrUpdate
      <4>3. JustDisabled(w, new) <=> told
        BY <4>1 DEF JustDisabled
      <4>4. ep'["app"] = [new EXCEPT !.notices = IF told THEN @ + 1 ELSE @]
        BY <1>0, <1>1, <2>4, <4>2, <4>3
      <4>5. DOMAIN new = {"exists", "disabled", "fails", "flips", "notices", "revived"}
        BY <1>0, <2>4 DEF EndpointRows
      <4>. HIDE DEF new, told, over
      <4>. QED
        BY <4>1, <4>4, <4>5
    <3>2. wk[w].was /\ ~old.disabled => Charge = 1
      BY <2>1, <2>4 DEF Charge, Misled
    <3>3. (old.disabled \/ over) => Charge' = 0
      BY <3>1 DEF Charge
    <3>4. Charge' = 1 => Charge = 1
      BY <2>2, <2>4, <3>1 DEF Charge
    <3>5. old = ep["app"]
      BY <2>4
    <3>. HIDE DEF over, old
    <3>6. ep'["app"].flips + Charge' <= ep'["app"].notices + ep'["app"].revived
      BY <1>0, <1>1, <2>1, <3>1, <3>2, <3>3, <3>4, <3>5
    <3>. QED
      BY <1>t, <3>6
  <2>. QED
    BY <2>3, <2>4
<1>4. ASSUME NEW w \in Workers, IncrSnapshot(w) PROVE Told'
  <2>1. ep' = ep
    BY <1>4 DEF IncrSnapshot
  <2>2. WorkerStep(w) /\ ~At(w, "pick")
    BY <1>4 DEF WorkerStep, Process, IncrSnapshot, At
  <2>3. \A v \in Workers \ {w} : wk'[v] = wk[v]
    BY <1>2, <2>2, OneMoves
  <2>4. wk'[w].pc = "increment" => wk'[w].was = ep[EndpointOf(Dv(w))].disabled /\ wk'[w].lease = wk[w].lease
    BY <1>2, <1>4 DEF IncrSnapshot, Goto, WorkersOK, WorkerStates
  <2>5. Charge' <= Charge
    <3>1. CASE ep["app"].disabled
      BY <1>1, <2>1, <3>1, <1>0 DEF Charge
    <3>2. CASE ~ep["app"].disabled
      <4>1. Misled' => Misled
        BY <2>3, <2>4, <3>2 DEF Misled, Dv
      <4>. QED
        BY <2>1, <4>1 DEF Charge
    <3>. QED
      BY <3>1, <3>2
  <2>. QED
    BY <1>0, <1>1, <1>t, <2>1, <2>5
<1>5. ASSUME NEW w \in Workers, WorkerStep(w), ~IncrUpdate(w), ~IncrSnapshot(w) PROVE Told'
  <2>1. /\ ep'["app"].disabled = ep["app"].disabled
        /\ ep'["app"].flips = ep["app"].flips /\ ep'["app"].notices = ep["app"].notices
        /\ ep'["app"].revived = ep["app"].revived
    <3>1. CASE ep' = ep
      BY <3>1
    <3>2. CASE ResetEndpointFailures(w)
      BY <1>0, <1>1, <3>2 DEF ResetEndpointFailures, EndpointRows
    <3>. QED
      BY <1>5, <3>1, <3>2 DEF WorkerStep, Process, Pick, Load, MarkDeliveryDisabled, Defer, Reject,
         MarkRejectedDead, MarkDeliveryFiltered, MarkDeliveryInFlight, Send, AfterFailure, MarkDeliveryDelivered,
         MarkDeliveryForRetry, ScheduleRetry, AckStep, MarkDeliveryDead, PublishExhausted,
         PublishDisabled, Bury, PanicBury, PanicDead, Panic, Abandon
  <2>2. wk'[w].pc # "increment"
    BY <1>2, <1>5 DEF WorkersOK, WorkerStates, Goto, Free, Idle, WorkerStep, Process, Pick, Load,
         MarkDeliveryDisabled, Defer, Reject,
         MarkRejectedDead, MarkDeliveryFiltered, MarkDeliveryInFlight, Send, AfterFailure, MarkDeliveryDelivered,
         MarkDeliveryForRetry, ScheduleRetry, AckStep, MarkDeliveryDead, PublishExhausted,
         PublishDisabled, Bury, PanicBury, PanicDead, Panic, Abandon, ResetEndpointFailures
  <2>3. Misled' => Misled
    BY <1>2, <1>5, <2>2, OneMoves DEF Misled, Dv
  <2>. QED
    BY <2>1, <2>3, ToldQuiet
<1>6. ASSUME NEW e \in Endpoints, EndpointPatched(e) PROVE Told'
  <2>1. Misled' <=> Misled
    BY <1>6 DEF EndpointPatched, Misled, Dv
  <2>2. ep'["app"].flips = ep["app"].flips /\ ep'["app"].notices = ep["app"].notices
    BY <1>0, <1>1, <1>6 DEF EndpointPatched, EndpointRows
  <2>3. \/ ep'["app"].disabled /\ ep'["app"].revived = ep["app"].revived
        \/ ~ep'["app"].disabled /\ ep["app"].disabled /\ ep'["app"].revived = ep["app"].revived + 1
        \/ ep'["app"].disabled = ep["app"].disabled /\ ep'["app"].revived = ep["app"].revived
    <3>1. CASE ep' = [ep EXCEPT ![e].disabled = TRUE]
      BY <1>0, <1>1, <3>1 DEF EndpointRows
    <3>2. CASE /\ ep[e].disabled
               /\ ep' = [ep EXCEPT ![e].disabled = FALSE, ![e].fails = 0, ![e].revived = @ + 1]
      BY <1>0, <1>1, <3>2 DEF EndpointRows
    <3>3. CASE /\ ~ep[e].disabled
               /\ ep' = [ep EXCEPT ![e].disabled = FALSE, ![e].fails = 0, ![e].revived = @]
      BY <1>0, <1>1, <3>3 DEF EndpointRows
    <3>. QED
      BY <1>1, <1>6, <3>1, <3>2, <3>3 DEF EndpointPatched
  <2>4. \/ Charge' = 0 /\ ep'["app"].revived = ep["app"].revived
        \/ ep'["app"].revived = ep["app"].revived + 1
        \/ Charge' = Charge /\ ep'["app"].revived = ep["app"].revived
    BY <2>1, <2>3 DEF Charge
  <2>. QED
    BY <1>0, <1>1, <1>t, <2>2, <2>4
<1>7. CASE UNCHANGED vars \/ (OtherStep /\ ~ \E e \in Endpoints : EndpointPatched(e))
  <2>1. /\ ep'["app"].disabled = ep["app"].disabled
        /\ ep'["app"].flips = ep["app"].flips /\ ep'["app"].notices = ep["app"].notices
        /\ ep'["app"].revived = ep["app"].revived
    <3>1. CASE ep' = ep
      BY <3>1
    <3>2. ASSUME NEW e \in Endpoints, EndpointDeleted(e)
          PROVE  /\ ep'["app"].disabled = ep["app"].disabled
                 /\ ep'["app"].flips = ep["app"].flips /\ ep'["app"].notices = ep["app"].notices
                 /\ ep'["app"].revived = ep["app"].revived
      BY <1>0, <1>1, <3>2 DEF EndpointDeleted, EndpointRows
    <3>. QED
      BY <1>7, <3>1, <3>2 DEF OtherStep, OrphanExpires, LeaseOverrun, Recoverer, CreateDelivery,
         Replay, RequeueDead, Ages, ClaimStuck, vars
  <2>2. wk' = wk
    BY <1>7 DEF OtherStep, OrphanExpires, LeaseOverrun, Recoverer, CreateDelivery,
       Replay, RequeueDead, Ages, ClaimStuck, EndpointPatched, EndpointDeleted, vars
  <2>3. Misled' => Misled
    BY <2>2 DEF Misled, Dv
  <2>. QED
    BY <2>1, <2>3, ToldQuiet
<1>. QED
  BY <1>3, <1>4, <1>5, <1>6, <1>7, NextSplit

-----------------------------------------------------------------------------
(* Nothing is stranded.                                                    *)
(*                                                                         *)
(* NothingStranded is not inductive.  It counts workers on their way to    *)
(* Ack as engaged (reset), and one that has buried the entry and may stop  *)
(* before it writes the row (panicDead); Kept leaves those out.  It also   *)
(* says nothing of what a worker leaves behind when it stops: HoldersOK,   *)
(* that its lease is still there and nobody else's, unless it overran.     *)

HoldersOK ==
    /\ \A v, w \in Workers :
          v # w /\ wk[v].pc # "pick" /\ wk[w].pc # "pick" => wk[v].lease.tok # wk[w].lease.tok
    /\ \A w \in Workers :
          wk[w].pc \notin {"pick", "panicDead"} =>
              wk[w].lease \in leased \ lapsed \/ log[wk[w].lease.evt].overrun
    /\ \A d \in Items : log[d].overrun => used > 0
    /\ \A d \in Items : del[d].status = "absent" => ~del[d].retryAt

\* Leases that a worker is about to remove.
Doomed == {wk[w].lease : w \in {v \in Workers : wk[v].pc \in {"reset", "ack", "bury"}}}

\* Deliveries with a copy that stays.
Safe == {d \in Items : waiting[d] > 0 \/ \E m \in leased : m.evt = d /\ m \notin Doomed}

\* Deliveries with a worker that will write the row, put a copy or bury one.
Minders == Labels \ {"pick", "load", "reset", "ack", "panicDead"}
Minded == {wk[w].lease.evt : w \in {v \in Workers : wk[v].pc \in Minders}}

Unfinished == {d \in Items : del[d].status \in {"queued", "in_flight"}}
Reapable == {d \in Items : del[d].status = "queued" /\ ~del[d].retryAt}
Excused == {d \in Items : log[d].slipped \/ (log[d].overrun /\ used > 1)}

Kept == Unfinished \subseteq Safe \cup Minded \cup buried \cup Reapable \cup Excused

LEMMA KeptSuffices == ASSUME TypeOK, Kept PROVE NothingStranded
<1>. SUFFICES ASSUME NEW d \in Items, del[d].status \in {"queued", "in_flight"}
              PROVE  \/ Secure(d) \/ Engaged(d) \/ d \in buried
                     \/ del[d].status = "queued" /\ ~del[d].retryAt
                     \/ log[d].slipped \/ (log[d].overrun /\ used > 1)
  BY DEF NothingStranded
<1>1. d \in Safe \cup Minded \cup buried \cup Reapable \cup Excused
  BY DEF Kept, Unfinished
<1>2. CASE d \in Safe
  BY <1>2 DEF Safe, Doomed, Secure
<1>3. CASE d \in Minded
  BY <1>3 DEF Minded, Minders, Engaged, Dv
<1>. QED
  BY <1>1, <1>2, <1>3 DEF Reapable, Excused

\* The log is never taken back.
LEMMA LogGrows ==
    ASSUME TypeOK, [Next]_vars, NEW d \in Items
    PROVE  /\ log[d].slipped => log'[d].slipped
           /\ log[d].overrun => log'[d].overrun
<1>1. log \in [Items -> Logs] /\ WorkersOK /\ RowsOK
  BY TypeParts DEF RowsOK
<1>2. CASE log' = log
  BY <1>2
<1>4. ASSUME NEW x \in Items, NEW n, NEW r,
             \/ log' = [log EXCEPT ![x].refused = r, ![x].sends = n]
             \/ log' = [log EXCEPT ![x].sends = n]
             \/ log' = [log EXCEPT ![x].replays = n]
             \/ log' = [log EXCEPT ![x].doubled = TRUE]
             \/ log' = [log EXCEPT ![x].overrun = TRUE, ![x].doubled = TRUE]
      PROVE  /\ log[d].slipped => log'[d].slipped
             /\ log[d].overrun => log'[d].overrun
  BY <1>1, <1>4 DEF Logs
<1>5. ASSUME NEW w \in Workers, WorkerStep(w)
      PROVE  /\ log[d].slipped => log'[d].slipped
             /\ log[d].overrun => log'[d].overrun
  <2>1. CASE MarkDeliveryDisabled(w) \/ MarkRejectedDead(w) \/ MarkDeliveryFiltered(w) \/ PanicDead(w)
    <3>1. Dv(w) \in Items
      BY <1>1, <2>1, HolderType DEF MarkDeliveryDisabled, MarkRejectedDead, MarkDeliveryFiltered,
         PanicDead, At
    <3>2. log' = log \/ log' = [log EXCEPT ![Dv(w)].slipped = TRUE]
      BY <2>1 DEF MarkDeliveryDisabled, MarkRejectedDead, MarkDeliveryFiltered,
         PanicDead, SetStatusUnchecked
    <3>. QED
      BY <1>1, <3>1, <3>2 DEF Logs
  <2>2. CASE Reject(w) \/ Send(w)
    <3>1. Dv(w) \in Items
      BY <1>1, <2>2, HolderType DEF Reject, Send, AfterFailure, At
    <3>2. \/ log' = [log EXCEPT ![Dv(w)].refused = Refused(w), ![Dv(w)].sends = @ + 0]
          \/ log' = [log EXCEPT ![Dv(w)].refused = Refused(w), ![Dv(w)].sends = @ + 1]
          \/ log' = [log EXCEPT ![Dv(w)].sends = @ + 0]
          \/ log' = [log EXCEPT ![Dv(w)].sends = @ + 1]
          \/ log' = log
      BY <2>2 DEF Reject, Send, AfterFailure, RecordAttempt
    <3>. QED
      BY <1>1, <3>1, <3>2 DEF Logs
  <2>3. CASE Abandon(w)
    <3>1. Dv(w) \in Items
      BY <1>1, <2>3, HolderType DEF Abandon
    <3>. QED
      BY <1>2, <1>4, <2>3, <3>1 DEF Abandon
  <2>4. CASE log' = log
    BY <2>4
  <2>. QED
    BY <1>5, <2>1, <2>2, <2>3, <2>4 DEF WorkerStep, Process, Pick, Load, Defer, MarkDeliveryInFlight,
       MarkDeliveryDelivered, ResetEndpointFailures, MarkDeliveryForRetry, ScheduleRetry, AckStep,
       MarkDeliveryDead, PublishExhausted, IncrSnapshot, IncrUpdate, PublishDisabled, Bury, PanicBury, Panic
<1>6. ASSUME OtherStep
      PROVE  /\ log[d].slipped => log'[d].slipped
             /\ log[d].overrun => log'[d].overrun
  <2>1. CASE LeaseOverrun
    <3>1. PICK m \in leased : log' = [log EXCEPT ![m.evt].overrun = TRUE, ![m.evt].doubled = TRUE]
      BY <2>1 DEF LeaseOverrun
    <3>2. m.evt \in Items
      BY DEF TypeOK, LeaseTypeOK, Leases
    <3>. QED
      BY <1>4, <3>1, <3>2
  <2>2. ASSUME NEW x \in Items, Replay(x) \/ RequeueDead(x) \/ ClaimStuck(x)
        PROVE  /\ log[d].slipped => log'[d].slipped
               /\ log[d].overrun => log'[d].overrun
    BY <1>1, <1>2, <1>4, <2>2 DEF Replay, RequeueDead, ClaimStuck, Logs
  <2>. QED
    BY <1>2, <1>6, <2>1, <2>2 DEF OtherStep, OrphanExpires, Recoverer, CreateDelivery, Ages,
       EndpointPatched, EndpointDeleted
<1>. QED
  BY <1>2, <1>5, <1>6, NextSplit DEF vars

\* The leases that a step of w does not touch, and what w itself leaves.
LEMMA LeaseFrame ==
    ASSUME TypeOK, HoldersOK, NEW w \in Workers, WorkerStep(w)
    PROVE  \A m \in leased : m # wk[w].lease => m \in leased' /\ (m \notin lapsed => m \notin lapsed')
<1>1. CASE Pick(w)
  BY <1>1 DEF Pick, Take
<1>2. CASE AckStep(w) \/ Bury(w) \/ PanicBury(w)
  BY <1>2 DEF AckStep, Bury, PanicBury, Remove, leaseVars
<1>3. CASE Defer(w) \/ ScheduleRetry(w) \/ PublishExhausted(w) \/ PublishDisabled(w)
  BY <1>3 DEF Defer, ScheduleRetry, PublishExhausted, PublishDisabled, Publish, Put, leaseVars
<1>4. CASE UNCHANGED leaseVars
  BY <1>4 DEF leaseVars
<1>. QED
  BY <1>1, <1>2, <1>3, <1>4 DEF WorkerStep, Process, Load, MarkDeliveryDisabled, Reject,
     MarkRejectedDead, MarkDeliveryFiltered, MarkDeliveryInFlight, Send, AfterFailure, MarkDeliveryDelivered,
     ResetEndpointFailures, MarkDeliveryForRetry, MarkDeliveryDead,
     IncrSnapshot, IncrUpdate, PanicDead, Panic, Abandon

\* A worker gives its lease up only where it stops, or on the way to panicDead.
LEMMA OwnLease ==
    ASSUME TypeOK, NEW w \in Workers, WorkerStep(w), wk'[w].pc \notin {"pick", "panicDead"}, ~Pick(w)
    PROVE  leased' = leased /\ lapsed' = lapsed /\ wk[w].pc # "panicDead"
<1>0. WorkersOK
  BY TypeParts
<1>1. ~(AckStep(w) \/ Bury(w) \/ PanicDead(w) \/ Abandon(w) \/ PanicBury(w))
  BY <1>0 DEF AckStep, Bury, PanicDead, Abandon, PanicBury, Free, Goto, Idle, WorkersOK, WorkerStates
<1>. QED
  BY <1>1 DEF WorkerStep, Process, Load, MarkDeliveryDisabled, Reject,
     MarkRejectedDead, MarkDeliveryFiltered, MarkDeliveryInFlight, Send, AfterFailure, MarkDeliveryDelivered,
     ResetEndpointFailures, MarkDeliveryForRetry, MarkDeliveryDead,
     IncrSnapshot, IncrUpdate, Panic, Defer, ScheduleRetry, PublishExhausted, PublishDisabled,
     Publish, Put, leaseVars, At

\* A worker writes the row of its own delivery, if there is one, and may create
\* the row of an operational event.
LEMMA RowFrame ==
    ASSUME TypeOK, NEW w \in Workers, WorkerStep(w), NEW d \in Items
    PROVE  \/ del'[d] = del[d]
           \/ del[d].status = "absent" /\ del'[d] = [del[d] EXCEPT !.status = "queued"]
           \/ d = Dv(w) /\ del[d].status \notin {"absent", "deleted"}
              /\ del'[d].status \notin {"absent", "deleted"}
<1>0. del \in [Items -> Rows] /\ WorkersOK
  BY TypeParts DEF RowsOK
<1>1. CASE del' = del
  BY <1>1
<1>a. ~At(w, "pick") => Dv(w) \in Items
  BY <1>0, HolderType
<1>u. ASSUME Dv(w) \in Items, NEW r, r.status \notin {"absent", "deleted"} \/ ~Exists(Dv(w)), Update(Dv(w), r)
      PROVE  \/ del'[d] = del[d]
             \/ d = Dv(w) /\ del[d].status \notin {"absent", "deleted"}
                /\ del'[d].status \notin {"absent", "deleted"}
  BY <1>0, <1>u DEF Update, Exists
<1>s. ASSUME Dv(w) \in Items, NEW t \in Over \cup {"queued", "in_flight"}
      PROVE  WithStatus(Dv(w), t).status = t /\ WithStatus(Dv(w), t) \in Rows
  BY <1>0, <1>s, WithStatusType DEF WithStatus, Rows
<1>2. CASE PublishExhausted(w) \/ PublishDisabled(w)
  <2>1. ASSUME NEW o \in Op, del[o].status = "absent", del' = [del EXCEPT ![o].status = "queued"]
        PROVE  del'[d] = del[d] \/ (del[d].status = "absent" /\ del'[d] = [del[d] EXCEPT !.status = "queued"])
    BY <1>0, <2>1
  <2>. QED
    BY <1>1, <1>2, <2>1 DEF PublishExhausted, PublishDisabled, Publish
<1>3. CASE Reject(w) \/ Send(w)
  <2>1. Dv(w) \in Items
    BY <1>3, <1>a DEF Reject, Send, AfterFailure, At
  <2>2. del' = del \/ Update(Dv(w), [del[Dv(w)] EXCEPT !.recorded = @ \cup {Attempt(w)}])
    BY <1>3 DEF Reject, Send, AfterFailure, RecordAttempt
  <2>3. [del[Dv(w)] EXCEPT !.recorded = @ \cup {Attempt(w)}].status = del[Dv(w)].status
    BY <1>0, <2>1 DEF Rows
  <2>. QED
    BY <1>1, <1>u, <2>1, <2>2, <2>3 DEF Exists
<1>4. CASE \/ MarkDeliveryDisabled(w) \/ MarkRejectedDead(w) \/ MarkDeliveryFiltered(w) \/ PanicDead(w)
           \/ MarkDeliveryDelivered(w) \/ MarkDeliveryDead(w)
  <2>1. Dv(w) \in Items
    BY <1>4, <1>a DEF MarkDeliveryDisabled, MarkRejectedDead, MarkDeliveryFiltered, PanicDead,
       MarkDeliveryDelivered, MarkDeliveryDead, At
  <2>2. PICK t \in Over : del' = del \/ Update(Dv(w), WithStatus(Dv(w), t))
    BY <1>4 DEF MarkDeliveryDisabled, MarkRejectedDead, MarkDeliveryFiltered, PanicDead,
       MarkDeliveryDelivered, MarkDeliveryDead, SetStatusUnchecked, SetStatus, Over
  <2>3. WithStatus(Dv(w), t).status \notin {"absent", "deleted"}
    BY <1>s, <2>1 DEF Over
  <2>. QED
    BY <1>1, <1>u, <2>1, <2>2, <2>3
<1>5. CASE MarkDeliveryInFlight(w)
  <2>1. Dv(w) \in Items
    BY <1>5, <1>a DEF MarkDeliveryInFlight, At
  <2>2. [WithStatus(Dv(w), "in_flight") EXCEPT !.count = @ + 1].status = "in_flight"
    BY <1>s, <2>1 DEF Rows
  <2>. QED
    BY <1>5, <1>u, <2>1, <2>2 DEF MarkDeliveryInFlight
<1>6. CASE MarkDeliveryForRetry(w)
  <2>1. Dv(w) \in Items
    BY <1>6, <1>a DEF MarkDeliveryForRetry, At
  <2>2. [WithStatus(Dv(w), "queued") EXCEPT !.retryAt = TRUE].status = "queued"
    BY <1>s, <2>1 DEF Rows
  <2>. QED
    BY <1>6, <1>u, <2>1, <2>2 DEF MarkDeliveryForRetry
<1>. QED
  BY <1>1, <1>2, <1>3, <1>4, <1>5, <1>6 DEF WorkerStep, Process, Pick, Load, Defer,
     ResetEndpointFailures, ScheduleRetry, AckStep,
     IncrSnapshot, IncrUpdate, Bury, PanicBury, Panic, Abandon

\* The others create rows, reset them, mark them or delete them.
LEMMA OtherRows ==
    ASSUME TypeOK, OtherStep, NEW d \in Items
    PROVE  \/ del'[d].status = del[d].status /\ del'[d].retryAt = del[d].retryAt
           \/ del[d].status = "absent" /\ del'[d] = [del[d] EXCEPT !.status = "queued"]
           \/ del'[d].status = "queued" /\ ~del'[d].retryAt
           \/ del'[d].status = "deleted"
<1>0. del \in [Items -> Rows]
  BY TypeParts DEF RowsOK
<1>1. CASE del' = del
  BY <1>1
<1>2. ASSUME NEW x \in Items, CreateDelivery(x) PROVE
           \/ del'[d].status = del[d].status /\ del'[d].retryAt = del[d].retryAt
           \/ del[d].status = "absent" /\ del'[d] = [del[d] EXCEPT !.status = "queued"]
  BY <1>0, <1>2 DEF CreateDelivery
<1>3. ASSUME NEW x \in Items, Replay(x) PROVE
           \/ del'[d].status = del[d].status /\ del'[d].retryAt = del[d].retryAt
           \/ del'[d].status = "queued" /\ ~del'[d].retryAt
  <2>1. WithStatus(x, "queued") \in Rows /\ WithStatus(x, "queued").status = "queued"
    BY <1>0, WithStatusType DEF WithStatus, Rows
  <2>. DEFINE r == [WithStatus(x, "queued") EXCEPT !.count = 0, !.retryAt = FALSE]
  <2>2. r.status = "queued" /\ ~r.retryAt
    BY <2>1 DEF Rows
  <2>3. Update(x, r)
    BY <1>3 DEF Replay
  <2>. HIDE DEF r
  <2>. QED
    BY <1>0, <2>2, <2>3 DEF Update
<1>4. ASSUME NEW x \in Items, Ages(x) \/ ClaimStuck(x)
      PROVE  del'[d].status = del[d].status /\ del'[d].retryAt = del[d].retryAt
  <2>1. PICK b \in BOOLEAN : del' = [del EXCEPT ![x].stale = b]
    BY <1>4 DEF Ages, ClaimStuck
  <2>. QED
    BY <1>0, <2>1 DEF Rows
<1>5. ASSUME NEW e \in Endpoints, EndpointDeleted(e)
      PROVE  \/ del'[d].status = del[d].status /\ del'[d].retryAt = del[d].retryAt
             \/ del'[d].status = "deleted"
  <2>1. del'[d] = del[d] \/ del'[d] = [del[d] EXCEPT !.status = "deleted", !.recorded = {}]
    BY <1>5 DEF EndpointDeleted
  <2>2. del[d] \in Rows
    BY <1>0
  <2>. QED
    BY <2>1, <2>2 DEF Rows
<1>. QED
  BY <1>1, <1>2, <1>3, <1>4, <1>5 DEF OtherStep, OrphanExpires, LeaseOverrun, Recoverer, RequeueDead,
     EndpointPatched

\* A row comes into being without a retry time.
LEMMA FreshRows ==
    ASSUME TypeOK, [Next]_vars, NEW d \in Items, del[d].status = "absent" => ~del[d].retryAt
    PROVE  /\ del'[d].status = "absent" => ~del'[d].retryAt
           /\ del[d].status = "absent" /\ del'[d].status = "queued" => ~del'[d].retryAt
<1>0. del[d] \in Rows
  BY TypeParts DEF RowsOK
<1>1. [del[d] EXCEPT !.status = "queued"].retryAt = del[d].retryAt
      /\ [del[d] EXCEPT !.status = "queued"].status = "queued"
  BY <1>0 DEF Rows
<1>2. ASSUME NEW w \in Workers, WorkerStep(w)
      PROVE  /\ del'[d].status = "absent" => ~del'[d].retryAt
             /\ del[d].status = "absent" /\ del'[d].status = "queued" => ~del'[d].retryAt
  BY <1>1, <1>2, RowFrame
<1>3. ASSUME OtherStep
      PROVE  /\ del'[d].status = "absent" => ~del'[d].retryAt
             /\ del[d].status = "absent" /\ del'[d].status = "queued" => ~del'[d].retryAt
  BY <1>1, <1>3, OtherRows
<1>. QED
  BY <1>2, <1>3, NextSplit DEF vars

\* What a step outside the workers does to the leases.
LEMMA OtherLeases ==
    ASSUME TypeOK, OtherStep
    PROVE  /\ wk' = wk
           /\ \A m \in leased \ lapsed :
                 m \in leased' \ lapsed' \/ (m \in leased' /\ (Held(m) => log'[m.evt].overrun /\ used' > 0))
<1>0. log \in [Items -> Logs] /\ used \in Nat
  BY BoundsAssumption DEF TypeOK
<1>1. wk' = wk
  BY DEF OtherStep, OrphanExpires, LeaseOverrun, Recoverer, CreateDelivery, Replay, RequeueDead, Ages,
     ClaimStuck, EndpointPatched, EndpointDeleted
<1>2. CASE OrphanExpires
  BY <1>1, <1>2 DEF OrphanExpires, Lapse, Held
<1>3. CASE LeaseOverrun
  <2>1. PICK m \in leased : /\ Lapse(m)
                            /\ log' = [log EXCEPT ![m.evt].overrun = TRUE, ![m.evt].doubled = TRUE]
    BY <1>3 DEF LeaseOverrun
  <2>2. m.evt \in Items
    BY DEF TypeOK, LeaseTypeOK, Leases
  <2>3. log'[m.evt].overrun
    BY <1>0, <2>1, <2>2 DEF Logs
  <2>4. used' > 0
    BY <1>0, <1>3 DEF LeaseOverrun, Spend
  <2>. QED
    BY <1>1, <2>1, <2>3, <2>4 DEF Lapse
<1>4. CASE Recoverer
  BY <1>1, <1>4 DEF Recoverer, Reclaim
<1>5. CASE UNCHANGED <<leased, lapsed>>
  BY <1>1, <1>5
<1>. QED
  BY <1>1, <1>2, <1>3, <1>4, <1>5 DEF OtherStep, CreateDelivery, Replay, RequeueDead, Ages,
     ClaimStuck, EndpointPatched, EndpointDeleted, Put, leaseVars

\* Only LeaseOverrun sets the mark, and it spends.
LEMMA OverrunSpends ==
    ASSUME TypeOK, TypeOK', [Next]_vars, NEW d \in Items, log'[d].overrun, ~log[d].overrun
    PROVE  used' > 0
<1>0. log \in [Items -> Logs] /\ used \in Nat /\ WorkersOK
  BY BoundsAssumption, TypeParts DEF TypeOK
<1>1. CASE LeaseOverrun
  BY <1>0, <1>1 DEF LeaseOverrun, Spend
<1>2. CASE log' = log
  BY <1>2
<1>3. ASSUME NEW w \in Workers, WorkerStep(w), log' # log PROVE FALSE
  <2>1. ~At(w, "pick")
    BY <1>3 DEF WorkerStep, Process, Pick, Load, MarkDeliveryDisabled, Defer, Reject,
         MarkRejectedDead, MarkDeliveryFiltered, MarkDeliveryInFlight, Send, AfterFailure, MarkDeliveryDelivered,
         MarkDeliveryForRetry, ScheduleRetry, AckStep, MarkDeliveryDead, PublishExhausted,
         PublishDisabled, Bury, PanicBury, PanicDead, Panic, Abandon, ResetEndpointFailures,
         IncrSnapshot, IncrUpdate, At
  <2>2. Dv(w) \in Items
    BY <1>0, <2>1, HolderType
  <2>3. \/ log' = [log EXCEPT ![Dv(w)].refused = Refused(w), ![Dv(w)].sends = @ + 0]
        \/ log' = [log EXCEPT ![Dv(w)].refused = Refused(w), ![Dv(w)].sends = @ + 1]
        \/ log' = [log EXCEPT ![Dv(w)].sends = @ + 0]
        \/ log' = [log EXCEPT ![Dv(w)].sends = @ + 1]
        \/ log' = [log EXCEPT ![Dv(w)].slipped = TRUE]
        \/ log' = [log EXCEPT ![Dv(w)].doubled = TRUE]
    BY <1>3 DEF WorkerStep, Process, Pick, Load, MarkDeliveryDisabled, Defer, Reject,
         MarkRejectedDead, MarkDeliveryFiltered, MarkDeliveryInFlight, Send, AfterFailure, MarkDeliveryDelivered,
         MarkDeliveryForRetry, ScheduleRetry, AckStep, MarkDeliveryDead, PublishExhausted,
         PublishDisabled, Bury, PanicBury, PanicDead, Panic, Abandon, ResetEndpointFailures,
         IncrSnapshot, IncrUpdate, RecordAttempt, SetStatusUnchecked
  <2>. QED
    BY <1>0, <2>2, <2>3 DEF Logs
<1>4. ASSUME OtherStep, ~LeaseOverrun, log' # log PROVE FALSE
  <2>1. PICK x \in Items : \/ log' = [log EXCEPT ![x].replays = @ + 1]
                           \/ log' = [log EXCEPT ![x].doubled = TRUE]
    BY <1>4 DEF OtherStep, OrphanExpires, Recoverer, CreateDelivery, Replay, RequeueDead, Ages,
       ClaimStuck, EndpointPatched, EndpointDeleted
  <2>. QED
    BY <1>0, <2>1 DEF Logs
<1>. QED
  BY <1>1, <1>2, <1>3, <1>4, NextSplit DEF vars

LEMMA HoldersStep == TypeOK /\ TypeOK' /\ HoldersOK /\ [Next]_vars => HoldersOK'
<1>. SUFFICES ASSUME TypeOK, TypeOK', HoldersOK, [Next]_vars PROVE HoldersOK'
  OBVIOUS
<1>0. WorkersOK /\ WorkersOK' /\ leased \subseteq Leases
  BY DEF TypeOK, LeaseTypeOK, WorkersOK
<1>1. used \in Nat /\ used' \in Nat /\ used' >= used
  BY UsedGrows
<1>2. \A d \in Items : log'[d].overrun => used' > 0
  BY <1>1, OverrunSpends DEF HoldersOK
<1>3. \A d \in Items : del'[d].status = "absent" => ~del'[d].retryAt
  BY FreshRows DEF HoldersOK
<1>4. \A v \in Workers : wk[v].pc # "pick" => wk[v].lease \in Leases /\ wk[v].lease.evt \in Items
  BY <1>0, HolderType DEF At, Dv
<1>5. ASSUME NEW w \in Workers, WorkerStep(w) PROVE HoldersOK'
  <2>1. /\ \A v \in Workers \ {w} : wk'[v] = wk[v]
        /\ \/ Pick(w) /\ wk'[w].pc = "load"
           \/ wk[w].pc # "pick" /\ wk'[w].lease = wk[w].lease
           \/ wk[w].pc # "pick" /\ wk'[w] = Idle
    BY <1>0, <1>5, OneMoves
  <2>2. CASE Pick(w)
    <3>1. PICK t \in Tokens, d \in Items :
             /\ \A v \in Workers : wk[v].lease # NoLease => wk[v].lease.tok # t
             /\ Take(t, d)
             /\ wk' = [wk EXCEPT ![w].pc = "load", ![w].lease = [tok |-> t, evt |-> d]]
      BY <2>2 DEF Pick
    <3>2. wk'[w].lease = [tok |-> t, evt |-> d]
      BY <1>0, <3>1 DEF WorkersOK, WorkerStates
    <3>3. \A v \in Workers \ {w} : wk[v].pc # "pick" => wk[v].lease.tok # t
      BY <1>0, <3>1 DEF WorkersOK
    <3>4. \A u, v \in Workers :
             u # v /\ wk'[u].pc # "pick" /\ wk'[v].pc # "pick" => wk'[u].lease.tok # wk'[v].lease.tok
      BY <2>1, <3>2, <3>3 DEF HoldersOK
    <3>5. log' = log /\ leased' = leased \cup {[tok |-> t, evt |-> d]} /\ lapsed' = lapsed
      BY <2>2, <3>1 DEF Pick, Take
    <3>6. [tok |-> t, evt |-> d] \notin lapsed
      BY <3>1 DEF Take, TypeOK, LeaseTypeOK
    <3>7. \A v \in Workers : wk'[v].pc \notin {"pick", "panicDead"} =>
             wk'[v].lease \in leased' \ lapsed' \/ log'[wk'[v].lease.evt].overrun
      BY <2>1, <3>2, <3>5, <3>6 DEF HoldersOK
    <3>. QED
      BY <1>2, <1>3, <3>4, <3>7 DEF HoldersOK
  <2>3. CASE ~Pick(w)
    <3>1. \A v \in Workers : wk'[v].pc # "pick" => wk'[v].lease = wk[v].lease /\ wk[v].pc # "pick"
      BY <2>1, <2>3 DEF Idle
    <3>2. \A u, v \in Workers :
             u # v /\ wk'[u].pc # "pick" /\ wk'[v].pc # "pick" => wk'[u].lease.tok # wk'[v].lease.tok
      BY <3>1 DEF HoldersOK
    <3>3. ASSUME NEW v \in Workers, wk'[v].pc \notin {"pick", "panicDead"}
          PROVE  wk'[v].lease \in leased' \ lapsed' \/ log'[wk'[v].lease.evt].overrun
      <4>1. wk'[v].lease = wk[v].lease /\ wk[v].pc # "pick" /\ wk[v].lease.evt \in Items
        BY <1>4, <3>1, <3>3
      <4>2. wk[v].pc # "panicDead"
        BY <1>5, <2>1, <2>3, <3>3, OwnLease
      <4>3. wk[v].lease \in leased \ lapsed \/ log[wk[v].lease.evt].overrun
        BY <4>1, <4>2 DEF HoldersOK
      <4>4. log[wk[v].lease.evt].overrun => log'[wk[v].lease.evt].overrun
        BY <4>1, LogGrows
      <4>5. CASE v = w
        BY <1>5, <2>3, <3>3, <4>1, <4>3, <4>4, <4>5, OwnLease
      <4>6. CASE v # w
        <5>1. wk[v].lease # wk[w].lease
          BY <2>1, <2>3, <4>1, <4>6 DEF HoldersOK
        <5>. QED
          BY <1>5, <4>1, <4>3, <4>4, <5>1, LeaseFrame
      <4>. QED
        BY <4>5, <4>6
    <3>. QED
      BY <1>2, <1>3, <3>2, <3>3 DEF HoldersOK
  <2>. QED
    BY <2>2, <2>3
<1>6. ASSUME OtherStep PROVE HoldersOK'
  <2>1. wk' = wk
    BY <1>6, OtherLeases
  <2>2. ASSUME NEW v \in Workers, wk[v].pc \notin {"pick", "panicDead"}
        PROVE  wk[v].lease \in leased' \ lapsed' \/ log'[wk[v].lease.evt].overrun
    <3>1. log[wk[v].lease.evt].overrun => log'[wk[v].lease.evt].overrun
      BY <1>4, <2>2, LogGrows
    <3>2. Held(wk[v].lease)
      BY DEF Held
    <3>3. wk[v].lease \in leased \ lapsed \/ log[wk[v].lease.evt].overrun
      BY <2>2 DEF HoldersOK
    <3>. QED
      BY <1>6, <3>1, <3>2, <3>3, OtherLeases
  <2>. QED
    BY <1>2, <1>3, <2>1, <2>2 DEF HoldersOK
<1>7. CASE UNCHANGED vars
  BY <1>7 DEF vars, leaseVars, HoldersOK
<1>. QED
  BY <1>5, <1>6, <1>7, NextSplit

\* A delivery that a step has nothing to do with, as far as Kept goes.
LEMMA KeptFrame ==
    ASSUME TypeOK, TypeOK', Kept, [Next]_vars, NEW d \in Items,
           d \in Unfinished' => d \in Unfinished \/ d \in Reapable',
           d \in Reapable => d \in Reapable' \/ d \notin Unfinished',
           d \in Safe => d \in Safe', d \in Minded => d \in Minded' \/ d \in Safe' \/ d \in Excused',
           d \in buried => d \in buried' \/ d \in Safe'
    PROVE  d \in Unfinished' => d \in Safe' \cup Minded' \cup buried' \cup Reapable' \cup Excused'
<1>1. d \in Excused => d \in Excused'
  <2>1. used \in Nat /\ used' \in Nat /\ used' >= used
    BY UsedGrows
  <2>2. (log[d].slipped => log'[d].slipped) /\ (log[d].overrun => log'[d].overrun)
    BY LogGrows
  <2>. QED
    BY <2>1, <2>2 DEF Excused
<1>. QED
  BY <1>1 DEF Kept

\* Copies stay where they are, or move on within the queue.
LEMMA SafeFrame ==
    ASSUME TypeOK, TypeOK', NEW d \in Safe,
           waiting[d] > 0 => waiting'[d] > 0,
           \A m \in leased : m.evt = d /\ m \notin Doomed => (m \in leased' /\ m \notin Doomed') \/ waiting'[d] > 0
    PROVE  d \in Safe'
  BY DEF Safe

\* No step but Pick takes a waiting copy away.
LEMMA WaitingKept ==
    ASSUME TypeOK, NEW d \in Items, waiting[d] > 0,
           OtherStep \/ \E w \in Workers : WorkerStep(w) /\ ~Pick(w)
    PROVE  waiting'[d] > 0
<1>0. waiting \in [Items -> Nat] /\ WorkersOK
  BY TypeParts DEF TypeOK, LeaseTypeOK
<1>1. ASSUME NEW x \in Items, Put(x) PROVE waiting'[d] > 0
  BY <1>0, <1>1 DEF Put
<1>2. ASSUME NEW w \in Workers, WorkerStep(w), ~Pick(w) PROVE waiting'[d] > 0
  <2>1. CASE Defer(w) \/ ScheduleRetry(w)
    <3>1. Dv(w) \in Items
      BY <1>0, <2>1, HolderType DEF Defer, ScheduleRetry, At
    <3>. QED
      BY <1>1, <2>1, <3>1 DEF Defer, ScheduleRetry
  <2>2. CASE PublishExhausted(w) \/ PublishDisabled(w)
    BY <1>1, <2>2, OpAssumption DEF PublishExhausted, PublishDisabled, Publish, leaseVars
  <2>3. CASE UNCHANGED waiting
    BY <2>3
  <2>. QED
    BY <1>2, <2>1, <2>2, <2>3 DEF WorkerStep, Process, Load, MarkDeliveryDisabled, Reject,
     MarkRejectedDead, MarkDeliveryFiltered, MarkDeliveryInFlight, Send, AfterFailure, MarkDeliveryDelivered,
     ResetEndpointFailures, MarkDeliveryForRetry, MarkDeliveryDead, AckStep, Bury, PanicBury,
     IncrSnapshot, IncrUpdate, PanicDead, Panic, Abandon, Remove, leaseVars
<1>3. CASE OtherStep
  <2>1. CASE Recoverer
    BY <1>0, <2>1 DEF Recoverer, Reclaim
  <2>2. CASE UNCHANGED waiting
    BY <2>2
  <2>. QED
    BY <1>1, <1>3, <2>1, <2>2 DEF OtherStep, OrphanExpires, LeaseOverrun, Lapse, CreateDelivery,
       Replay, RequeueDead, Ages, ClaimStuck, EndpointPatched, EndpointDeleted, leaseVars
<1>. QED
  BY <1>2, <1>3

\* Steps outside the workers.
LEMMA KeptOther == ASSUME TypeOK, TypeOK', Kept, HoldersOK, [Next]_vars, OtherStep PROVE Kept'
<1>. SUFFICES ASSUME NEW d \in Items, d \in Unfinished'
              PROVE  d \in Safe' \cup Minded' \cup buried' \cup Reapable' \cup Excused'
  BY DEF Kept, Unfinished
<1>0. wk' = wk /\ Doomed' = Doomed /\ Minded' = Minded
  BY OtherLeases DEF Doomed, Minded
<1>1. /\ d \in Unfinished' => d \in Unfinished \/ d \in Reapable'
      /\ d \in Reapable => d \in Reapable' \/ d \notin Unfinished'
  <2>1. del[d].status = "absent" /\ del'[d].status = "queued" => ~del'[d].retryAt
    BY FreshRows DEF HoldersOK
  <2>2. del[d] \in Rows /\ [del[d] EXCEPT !.status = "queued"].status = "queued"
    BY DEF TypeOK, Rows
  <2>. QED
    BY <2>1, <2>2, OtherRows DEF Unfinished, Reapable
<1>2. d \in Safe => d \in Safe'
  <2>. SUFFICES ASSUME d \in Safe PROVE d \in Safe'
    OBVIOUS
  <2>1. ASSUME NEW m \in leased, m.evt = d, m \notin Doomed
        PROVE  (m \in leased' /\ m \notin Doomed') \/ waiting'[d] > 0
    <3>1. CASE Recoverer
      BY <1>0, <2>1, <3>1 DEF Recoverer, Reclaim, TypeOK, LeaseTypeOK
    <3>2. CASE leased' = leased
      BY <1>0, <2>1, <3>2
    <3>. QED
      BY <3>1, <3>2 DEF OtherStep, OrphanExpires, LeaseOverrun, Lapse, CreateDelivery,
         Replay, RequeueDead, Ages, ClaimStuck, EndpointPatched, EndpointDeleted, leaseVars, Put
  <2>2. waiting[d] > 0 => waiting'[d] > 0
    BY WaitingKept
  <2>. QED
    BY <2>1, <2>2, SafeFrame
<1>3. d \in buried => d \in buried' \/ d \in Safe'
  <2>1. CASE RequeueDead(d)
    BY <2>1 DEF RequeueDead, Put, Safe, TypeOK, LeaseTypeOK
  <2>2. ASSUME ~RequeueDead(d), d \in buried PROVE d \in buried'
    BY <2>2 DEF OtherStep, OrphanExpires, LeaseOverrun, Recoverer, CreateDelivery,
       Replay, RequeueDead, Ages, ClaimStuck, EndpointPatched, EndpointDeleted
  <2>. QED
    BY <2>1, <2>2
<1>. QED
  BY <1>0, <1>1, <1>2, <1>3, KeptFrame

\* A step of a worker, for the deliveries it does not hold.
LEMMA KeptElsewhere ==
    ASSUME TypeOK, TypeOK', Kept, HoldersOK, [Next]_vars, NEW w \in Workers, WorkerStep(w), ~Pick(w),
           NEW d \in Items, d # Dv(w)
    PROVE  d \in Unfinished' => d \in Safe' \cup Minded' \cup buried' \cup Reapable' \cup Excused'
<1>0. WorkersOK
  BY TypeParts
<1>1. /\ \A v \in Workers \ {w} : wk'[v] = wk[v]
      /\ wk'[w].lease \in {wk[w].lease, NoLease}
      /\ wk[w].pc # "pick"
  BY <1>0, OneMoves DEF Idle
<1>2. /\ d \in Unfinished' => d \in Unfinished \/ d \in Reapable'
      /\ d \in Reapable => d \in Reapable' \/ d \notin Unfinished'
  <2>1. del[d].status = "absent" /\ del'[d].status = "queued" => ~del'[d].retryAt
    BY FreshRows DEF HoldersOK
  <2>2. del[d] \in Rows /\ [del[d] EXCEPT !.status = "queued"].status = "queued"
    BY DEF TypeOK, Rows
  <2>. QED
    BY <2>1, <2>2, RowFrame DEF Unfinished, Reapable
<1>3. d \in Safe => d \in Safe'
  <2>. SUFFICES ASSUME d \in Safe PROVE d \in Safe'
    OBVIOUS
  <2>1. ASSUME NEW m \in leased, m.evt = d, m \notin Doomed PROVE m \in leased' /\ m \notin Doomed'
    <3>1. m # wk[w].lease /\ m # NoLease
      BY <2>1, NoLeaseAssumption DEF Dv, TypeOK, LeaseTypeOK
    <3>2. m \in leased'
      BY <3>1, LeaseFrame
    <3>3. m \notin Doomed'
      BY <1>1, <2>1, <3>1 DEF Doomed
    <3>. QED
      BY <3>2, <3>3
  <2>2. waiting[d] > 0 => waiting'[d] > 0
    BY WaitingKept
  <2>. QED
    BY <2>1, <2>2, SafeFrame
<1>4. d \in Minded => d \in Minded'
  BY <1>1 DEF Minded, Dv
<1>5. d \in buried => d \in buried'
  BY DEF WorkerStep, Process, Pick, Load, MarkDeliveryDisabled, Defer, Reject,
     MarkRejectedDead, MarkDeliveryFiltered, MarkDeliveryInFlight, Send, AfterFailure, MarkDeliveryDelivered,
     MarkDeliveryForRetry, ScheduleRetry, AckStep, MarkDeliveryDead, PublishExhausted,
     PublishDisabled, Bury, PanicBury, PanicDead, Panic, Abandon, ResetEndpointFailures,
     IncrSnapshot, IncrUpdate
<1>. QED
  BY <1>2, <1>3, <1>4, <1>5, KeptFrame

\* Pick: the copy that is taken stays, leased to a worker that has only just begun.
LEMMA KeptPick ==
    ASSUME TypeOK, TypeOK', Kept, HoldersOK, [Next]_vars, NEW w \in Workers, Pick(w)
    PROVE  Kept'
<1>0. WorkersOK /\ waiting \in [Items -> Nat] /\ leased \subseteq Leases
  BY TypeParts DEF TypeOK, LeaseTypeOK
<1>1. PICK t \in Tokens, x \in Items :
         /\ \A v \in Workers : wk[v].lease # NoLease => wk[v].lease.tok # t
         /\ Take(t, x)
         /\ wk' = [wk EXCEPT ![w].pc = "load", ![w].lease = [tok |-> t, evt |-> x]]
  BY DEF Pick
<1>. DEFINE new == [tok |-> t, evt |-> x]
<1>2. new \in Leases /\ new # NoLease /\ new.tok = t /\ new.evt = x
  BY NoLeaseAssumption DEF Leases
<1>3. /\ wk'[w].pc = "load" /\ wk'[w].lease = new /\ wk[w].pc = "pick"
      /\ \A v \in Workers \ {w} : wk'[v] = wk[v]
  BY <1>0, <1>1 DEF WorkersOK, WorkerStates, Pick, At
<1>4. /\ waiting' = [waiting EXCEPT ![x] = @ - 1] /\ waiting[x] > 0
      /\ leased' = leased \cup {new} /\ \A m \in leased : m.tok # t
  BY <1>1 DEF Take
<1>. HIDE DEF new
<1>5. Doomed' = Doomed
  BY <1>3 DEF Doomed
<1>6. Minded' = Minded
  BY <1>3 DEF Minded, Minders
<1>7. new \notin Doomed'
  <2>1. \A v \in Workers \ {w} : wk[v].pc # "pick" => wk[v].lease.tok # t
    BY <1>0, <1>1 DEF WorkersOK
  <2>. QED
    BY <1>2, <1>3, <1>5, <2>1 DEF Doomed
<1>. SUFFICES ASSUME NEW d \in Items, d \in Unfinished'
              PROVE  d \in Safe' \cup Minded' \cup buried' \cup Reapable' \cup Excused'
  BY DEF Kept, Unfinished
<1>8. CASE d = x
  BY <1>2, <1>4, <1>7, <1>8 DEF Safe
<1>9. CASE d # x
  <2>1. d \in Safe => d \in Safe'
    BY <1>0, <1>4, <1>5, <1>9 DEF Safe
  <2>2. UNCHANGED <<del, buried>>
    BY DEF Pick
  <2>. QED
    BY <1>6, <2>1, <2>2, KeptFrame DEF Unfinished, Reapable
<1>. QED
  BY <1>8, <1>9

\* A worker that keeps its lease after the step.
LEMMA StillMinded ==
    ASSUME TypeOK, NEW w \in Workers, wk'[w].pc \in Minders, wk'[w].lease = wk[w].lease
    PROVE  Dv(w) \in Minded'
  BY DEF Minded, Dv

\* A worker that stops without removing its lease leaves the copy behind, unless
\* the lease was lost to an overrun and this is the second disturbance.
LEMMA LeftBehind ==
    ASSUME TypeOK, TypeOK', HoldersOK, [Next]_vars, NEW w \in Workers,
           wk[w].pc \notin {"pick", "panicDead"}, UNCHANGED leaseVars, used' = used + 1,
           \A v \in Workers \ {w} : wk'[v] = wk[v], wk'[w].pc \in {"pick", "panicDead"}
    PROVE  Dv(w) \in Safe' \cup Excused'
<1>0. WorkersOK /\ used \in Nat
  BY TypeParts, BoundsAssumption DEF TypeOK
<1>1. wk[w].lease \in Leases /\ Dv(w) \in Items
  BY <1>0, HolderType DEF At
<1>2. CASE wk[w].lease \in leased
  <2>1. \A v \in Workers \ {w} : wk[v].pc # "pick" => wk[v].lease # wk[w].lease
    BY DEF HoldersOK
  <2>2. wk[w].lease \notin Doomed'
    BY <2>1 DEF Doomed
  <2>. QED
    BY <1>1, <1>2, <2>2 DEF Safe, leaseVars, Dv
<1>3. CASE log[Dv(w)].overrun
  <2>1. used > 0
    BY <1>1, <1>3 DEF HoldersOK
  <2>2. log'[Dv(w)].overrun
    BY <1>1, <1>3, LogGrows
  <2>3. used' > 1
    BY <1>0, <2>1
  <2>. QED
    BY <1>1, <2>2, <2>3 DEF Excused
<1>. QED
  BY <1>2, <1>3 DEF HoldersOK, Dv

\* A worker's step, for its own delivery.
LEMMA KeptOwn ==
    ASSUME TypeOK, TypeOK', Kept, HoldersOK, [Next]_vars, NEW w \in Workers, WorkerStep(w), ~Pick(w),
           NEW d \in Items, d = Dv(w)
    PROVE  d \in Unfinished' => d \in Safe' \cup Minded' \cup buried' \cup Reapable' \cup Excused'
<1>0. WorkersOK /\ WorkersOK' /\ waiting \in [Items -> Nat] /\ del \in [Items -> Rows] /\ used \in Nat
      /\ log \in [Items -> Logs]
  BY TypeParts, BoundsAssumption DEF TypeOK, LeaseTypeOK, WorkersOK
<1>1. /\ \A v \in Workers \ {w} : wk'[v] = wk[v]
      /\ wk[w].pc # "pick"
      /\ wk'[w].lease = wk[w].lease \/ wk'[w] = Idle
  BY <1>0, OneMoves
<1>g. ASSUME NEW label \in Minders, Goto(w, label) PROVE d \in Minded'
  <2>1. wk'[w].pc = label /\ wk'[w].lease = wk[w].lease
    BY <1>0, <1>g DEF Goto, WorkersOK, WorkerStates
  <2>. QED
    BY <2>1, StillMinded
<1>2. CASE Load(w)
  <2>1. CASE ~Exists(d) \/ del[d].status \in Over
    BY <1>2, <2>1 DEF Load, Exists, Over, Unfinished
  <2>2. CASE ~(~Exists(d) \/ del[d].status \in Over)
    <3>1. CASE Goto(w, "disable")
      BY <1>g, <3>1 DEF Minders, Labels
    <3>2. CASE wk' = [wk EXCEPT ![w].pc = "gate", ![w].row = del[d].count]
      <4>1. wk'[w].pc = "gate" /\ wk'[w].lease = wk[w].lease
        BY <1>0, <3>2 DEF WorkersOK, WorkerStates
      <4>. QED
        BY <4>1, StillMinded DEF Minders, Labels
    <3>. QED
      BY <1>2, <2>2, <3>1, <3>2 DEF Load
  <2>. QED
    BY <2>1, <2>2
<1>3. CASE MarkDeliveryInFlight(w)
  <2>1. wk'[w].pc = "send" /\ wk'[w].lease = wk[w].lease
    BY <1>0, <1>3 DEF MarkDeliveryInFlight, WorkersOK, WorkerStates
  <2>. QED
    BY <2>1, StillMinded DEF Minders, Labels
<1>4. CASE \/ MarkRejectedDead(w) \/ Send(w) \/ Reject(w) \/ MarkDeliveryForRetry(w) \/ MarkDeliveryDead(w)
           \/ PublishExhausted(w) \/ PublishDisabled(w) \/ Panic(w)
  BY <1>4, <1>g DEF MarkRejectedDead, Send, AfterFailure, Reject, MarkDeliveryForRetry, MarkDeliveryDead,
     PublishExhausted, PublishDisabled, Panic, Minders, Labels
<1>5. CASE IncrSnapshot(w)
  <2>1. CASE Goto(w, "bury")
    BY <1>g, <2>1 DEF Minders, Labels
  <2>2. CASE wk' = [wk EXCEPT ![w].pc = "increment", ![w].was = ep[EndpointOf(d)].disabled]
    <3>1. wk'[w].pc = "increment" /\ wk'[w].lease = wk[w].lease
      BY <1>0, <2>2 DEF WorkersOK, WorkerStates
    <3>. QED
      BY <3>1, StillMinded DEF Minders, Labels
  <2>. QED
    BY <1>5, <2>1, <2>2 DEF IncrSnapshot
<1>6. CASE IncrUpdate(w)
  BY <1>6, <1>g DEF IncrUpdate, Minders, Labels
<1>s. ASSUME NEW s \in Over, SetStatus(d, s) PROVE d \notin Unfinished'
  <2>1. WithStatus(d, s).status = s
    BY <1>0 DEF WithStatus, Rows
  <2>. QED
    BY <1>0, <1>s, <2>1 DEF SetStatus, Update, Unfinished, Exists, Over
<1>7. CASE MarkDeliveryDisabled(w) \/ MarkDeliveryFiltered(w) \/ PanicDead(w)
  <2>1. PICK s \in Over : SetStatusUnchecked(d, s)
    BY <1>7 DEF MarkDeliveryDisabled, MarkDeliveryFiltered, PanicDead, Over
  <2>2. CASE SetStatus(d, s)
    BY <1>s, <2>2
  <2>3. CASE log' = [log EXCEPT ![d].slipped = TRUE]
    <3>1. log'[d].slipped
      BY <1>0, <2>3 DEF Logs
    <3>. QED
      BY <3>1 DEF Excused
  <2>. QED
    BY <2>1, <2>2, <2>3 DEF SetStatusUnchecked
<1>8. CASE MarkDeliveryDelivered(w)
  BY <1>8, <1>s DEF MarkDeliveryDelivered, Over
<1>9. CASE Defer(w) \/ ScheduleRetry(w)
  <2>1. Put(d)
    BY <1>9 DEF Defer, ScheduleRetry
  <2>. QED
    BY <1>0, <2>1 DEF Put, Safe
<1>10. CASE Bury(w)
  BY <1>10 DEF Bury
<1>11. CASE ResetEndpointFailures(w) \/ AckStep(w)
  <2>1. UNCHANGED <<del, buried, waiting>> /\ wk[w].pc \in {"reset", "ack"}
    BY <1>11 DEF ResetEndpointFailures, AckStep, Remove, leaseVars, At
  <2>2. wk[w].lease \in Doomed
    BY <2>1 DEF Doomed
  <2>3. \A m \in leased : m \notin Doomed => m \in leased' /\ m \notin Doomed'
    <3>. SUFFICES ASSUME NEW m \in leased, m \notin Doomed PROVE m \in leased' /\ m \notin Doomed'
      OBVIOUS
    <3>1. m # wk[w].lease /\ m # NoLease
      BY <2>2, NoLeaseAssumption DEF TypeOK, LeaseTypeOK
    <3>2. m \in leased'
      BY <3>1, LeaseFrame
    <3>. QED
      BY <1>1, <3>1, <3>2 DEF Doomed, Idle
  <2>4. d \in Safe => d \in Safe'
    BY <2>1, <2>3 DEF Safe
  <2>5. d \in Minded => d \in Minded'
    BY <1>1, <2>1 DEF Minded, Minders
  <2>. QED
    BY <2>1, <2>4, <2>5, KeptFrame DEF Unfinished, Reapable
<1>12. CASE PanicBury(w)
  <2>1. CASE d \in buried'
    BY <2>1
  <2>2. CASE Spend /\ UNCHANGED leaseVars
    <3>1. used' = used + 1 /\ wk[w].pc = "panic" /\ wk'[w].pc = "panicDead"
      BY <1>0, <1>12, <2>2 DEF Spend, PanicBury, At, Goto, WorkersOK, WorkerStates
    <3>. QED
      BY <1>1, <2>2, <3>1, LeftBehind
  <2>. QED
    BY <1>12, <2>1, <2>2 DEF PanicBury
<1>13. CASE Abandon(w)
  <2>1. used' = used + 1 /\ UNCHANGED <<leaseVars, del, buried>> /\ wk'[w] = Idle
    BY <1>0, <1>13 DEF Abandon, Spend, Free, WorkersOK
  <2>2. CASE wk[w].pc \in Minders
    <3>1. wk[w].pc \notin {"pick", "panicDead"}
      BY <2>2 DEF Minders
    <3>. QED
      BY <1>1, <2>1, <3>1, LeftBehind DEF Idle
  <2>3. CASE wk[w].pc \notin Minders
    <3>1. Doomed' \subseteq Doomed
      BY <1>1, <2>1 DEF Doomed, Idle
    <3>2. d \in Safe => d \in Safe'
      BY <2>1, <3>1 DEF Safe, leaseVars
    <3>3. d \in Minded => d \in Minded'
      BY <1>1, <2>3 DEF Minded
    <3>. QED
      BY <2>1, <3>2, <3>3, KeptFrame DEF Unfinished, Reapable
  <2>. QED
    BY <2>2, <2>3
<1>. QED
  BY <1>2, <1>3, <1>4, <1>5, <1>6, <1>7, <1>8, <1>9, <1>10, <1>11, <1>12, <1>13 DEF WorkerStep, Process

LEMMA KeptStep == TypeOK /\ TypeOK' /\ HoldersOK /\ Kept /\ [Next]_vars => Kept'
<1>. SUFFICES ASSUME TypeOK, TypeOK', HoldersOK, Kept, [Next]_vars PROVE Kept'
  OBVIOUS
<1>1. ASSUME NEW w \in Workers, WorkerStep(w), ~Pick(w) PROVE Kept'
  <2>1. \A d \in Items :
           d \in Unfinished' => d \in Safe' \cup Minded' \cup buried' \cup Reapable' \cup Excused'
    BY <1>1, KeptOwn, KeptElsewhere
  <2>. QED
    BY <2>1 DEF Kept, Unfinished
<1>2. CASE UNCHANGED vars
  BY <1>2 DEF vars, leaseVars, Kept, Safe, Minded, Doomed, Unfinished, Reapable, Excused
<1>. QED
  BY <1>1, <1>2, KeptPick, KeptOther, NextSplit

-----------------------------------------------------------------------------
(* Theorems. *)

IInv == TypeOK /\ Told /\ HoldersOK /\ Kept

LEMMA IInvInit == Init => IInv
<1>. SUFFICES ASSUME Init PROVE IInv
  OBVIOUS
<1>1. TypeOK
  BY TypeInit
<1>2. Told
  BY BoundsAssumption DEF Init, Told, Charge, Misled, Endpoints, Idle
<1>3. HoldersOK
  BY DEF Init, HoldersOK, Idle
<1>4. Kept
  BY DEF Init, Kept, Unfinished
<1>. QED
  BY <1>1, <1>2, <1>3, <1>4 DEF IInv

LEMMA IInvStep == IInv /\ [Next]_vars => IInv'
  BY TypeStep, ToldStep, HoldersStep, KeptStep DEF IInv

LEMMA IInvSuffices == IInv => NothingStranded /\ DisableNoticed
<1>. SUFFICES ASSUME IInv PROVE NothingStranded /\ DisableNoticed
  OBVIOUS
<1>1. NothingStranded
  BY KeptSuffices DEF IInv
<1>2. ep["app"].flips \in Nat /\ ep["app"].notices \in Nat /\ ep["app"].revived \in Nat
  BY AppType DEF IInv
<1>3. DisableNoticed
  BY <1>2 DEF IInv, Told, Charge, DisableNoticed
<1>. QED
  BY <1>1, <1>3

\* Whatever crashes, lost leases, panics and failed calls there are, a delivery that
\* is queued or in flight has a copy in the queue that nobody is about to remove, a
\* worker that will still write its row, a place on the dead list or a row that
\* ClaimStuckMessageDeliveries finds; exempt are a row whose status write failed
\* unnoticed, and an overrun lease followed by another disturbance.
THEOREM DeliveriesGoOn == Spec => []NothingStranded
<1>1. IInv => NothingStranded
  BY IInvSuffices
<1>. QED
  BY <1>1, IInvInit, IInvStep, PTL DEF Spec

\* IncrEndpointFailures compares with a snapshot that may be stale, and still each
\* time the engine disables the customer's endpoint some worker is told that it
\* just did, save as many times as a PATCH enabled the endpoint again.
THEOREM DisablesAreNoticed == Spec => []DisableNoticed
<1>1. IInv => DisableNoticed
  BY IInvSuffices
<1>. QED
  BY <1>1, IInvInit, IInvStep, PTL DEF Spec

-----------------------------------------------------------------------------
(* The history of a delivery. *)

LEMMA WorkerLogs ==
    ASSUME TypeOK, NEW w \in Workers, WorkerStep(w), log' # log
    PROVE  /\ wk[w].pc # "pick" /\ Dv(w) \in Items
           /\ \/ log' = [log EXCEPT ![Dv(w)].refused = Refused(w), ![Dv(w)].sends = @ + 0] /\ Reject(w)
              \/ log' = [log EXCEPT ![Dv(w)].refused = Refused(w), ![Dv(w)].sends = @ + 1] /\ Send(w)
              \/ log' = [log EXCEPT ![Dv(w)].sends = @ + 0] /\ Reject(w)
              \/ log' = [log EXCEPT ![Dv(w)].sends = @ + 1] /\ Send(w)
              \/ log' = [log EXCEPT ![Dv(w)].slipped = TRUE]
              \/ log' = [log EXCEPT ![Dv(w)].doubled = TRUE]
<1>0. WorkersOK
  BY TypeParts
<1>1. wk[w].pc # "pick"
    BY DEF WorkerStep, Process, Pick, Load, MarkDeliveryDisabled, Defer, Reject,
         MarkRejectedDead, MarkDeliveryFiltered, MarkDeliveryInFlight, Send, AfterFailure, MarkDeliveryDelivered,
         MarkDeliveryForRetry, ScheduleRetry, AckStep, MarkDeliveryDead, PublishExhausted,
         PublishDisabled, Bury, PanicBury, PanicDead, Panic, Abandon, ResetEndpointFailures,
         IncrSnapshot, IncrUpdate, At
<1>2. Dv(w) \in Items
  BY <1>0, <1>1, HolderType DEF At
<1>3. \/ log' = [log EXCEPT ![Dv(w)].refused = Refused(w), ![Dv(w)].sends = @ + 0] /\ Reject(w)
      \/ log' = [log EXCEPT ![Dv(w)].refused = Refused(w), ![Dv(w)].sends = @ + 1] /\ Send(w)
      \/ log' = [log EXCEPT ![Dv(w)].sends = @ + 0] /\ Reject(w)
      \/ log' = [log EXCEPT ![Dv(w)].sends = @ + 1] /\ Send(w)
      \/ log' = [log EXCEPT ![Dv(w)].slipped = TRUE]
      \/ log' = [log EXCEPT ![Dv(w)].doubled = TRUE]
  BY DEF WorkerStep, Process, Pick, Load, MarkDeliveryDisabled, Defer, Reject,
         MarkRejectedDead, MarkDeliveryFiltered, MarkDeliveryInFlight, Send, AfterFailure, MarkDeliveryDelivered,
         MarkDeliveryForRetry, ScheduleRetry, AckStep, MarkDeliveryDead, PublishExhausted,
         PublishDisabled, Bury, PanicBury, PanicDead, Panic, Abandon, ResetEndpointFailures,
         IncrSnapshot, IncrUpdate, RecordAttempt, SetStatusUnchecked
<1>. QED
  BY <1>1, <1>2, <1>3

LEMMA OtherLogs ==
    ASSUME TypeOK, OtherStep, log' # log
    PROVE  \E x \in Items : \/ log' = [log EXCEPT ![x].replays = @ + 1] /\ Replay(x)
                            \/ log' = [log EXCEPT ![x].doubled = TRUE]
                            \/ log' = [log EXCEPT ![x].overrun = TRUE, ![x].doubled = TRUE]
<1>1. CASE LeaseOverrun
  <2>1. PICK m \in leased : log' = [log EXCEPT ![m.evt].overrun = TRUE, ![m.evt].doubled = TRUE]
    BY <1>1 DEF LeaseOverrun
  <2>2. m.evt \in Items
    BY DEF TypeOK, LeaseTypeOK, Leases
  <2>. QED
    BY <2>1, <2>2
<1>. QED
  BY <1>1 DEF OtherStep, OrphanExpires, Recoverer, CreateDelivery, Replay, RequeueDead, Ages,
     ClaimStuck, EndpointPatched, EndpointDeleted

\* Deliveries of which nobody has made a second copy, started the numbers over or
\* lost a status write.
PlainIn(g) == {d \in Items : g[d].replays = 0 /\ ~g[d].doubled /\ ~g[d].slipped}

\* The marks in the history stay.
LEMMA MarksStay ==
    ASSUME TypeOK, [Next]_vars, NEW d \in Items, log[d].overrun => log[d].doubled
    PROVE  /\ d \in PlainIn(log') => d \in PlainIn(log)
           /\ log[d].replays \in Nat /\ log'[d].replays \in Nat /\ log'[d].replays >= log[d].replays
           /\ log[d].sends \in Nat /\ log'[d].sends \in Nat
           /\ log'[d].overrun => log'[d].doubled
<1>0. log \in [Items -> Logs] /\ log' \in [Items -> Logs]
  BY TypeStep DEF TypeOK
<1>1. /\ log[d].replays \in Nat /\ log'[d].replays \in Nat /\ log[d].sends \in Nat /\ log'[d].sends \in Nat
  BY <1>0 DEF Logs
<1>2. CASE log' = log
  BY <1>1, <1>2 DEF PlainIn
<1>3. ASSUME NEW w \in Workers, WorkerStep(w), log' # log
      PROVE  /\ d \in PlainIn(log') => d \in PlainIn(log)
             /\ log'[d].replays >= log[d].replays
             /\ log'[d].overrun => log'[d].doubled
  <2>. DEFINE x == Dv(w)
  <2>1. PICK b, n :
             /\ x \in Items
             /\ \/ log' = [log EXCEPT ![x].refused = b, ![x].sends = n]
                \/ log' = [log EXCEPT ![x].sends = n]
                \/ log' = [log EXCEPT ![x].slipped = TRUE]
                \/ log' = [log EXCEPT ![x].doubled = TRUE]
    <3>1. log' = [log EXCEPT ![Dv(w)].refused = Refused(w), ![Dv(w)].sends = @ + 0]
          => log' = [log EXCEPT ![Dv(w)].refused = Refused(w), ![Dv(w)].sends = log[Dv(w)].sends + 0]
      BY <1>0, <1>3, WorkerLogs
    <3>2. log' = [log EXCEPT ![Dv(w)].refused = Refused(w), ![Dv(w)].sends = @ + 1]
          => log' = [log EXCEPT ![Dv(w)].refused = Refused(w), ![Dv(w)].sends = log[Dv(w)].sends + 1]
      BY <1>0, <1>3, WorkerLogs
    <3>. QED
      BY <1>3, <3>1, <3>2, WorkerLogs
  <2>. HIDE DEF x
  <2>. QED
    BY <1>0, <1>1, <2>1 DEF PlainIn, Logs
<1>4. ASSUME OtherStep, log' # log
      PROVE  /\ d \in PlainIn(log') => d \in PlainIn(log)
             /\ log'[d].replays >= log[d].replays
             /\ log'[d].overrun => log'[d].doubled
  <2>1. PICK x \in Items : \/ log' = [log EXCEPT ![x].replays = @ + 1]
                           \/ log' = [log EXCEPT ![x].doubled = TRUE]
                           \/ log' = [log EXCEPT ![x].overrun = TRUE, ![x].doubled = TRUE]
    BY <1>4, OtherLogs
  <2>. QED
    BY <1>0, <1>1, <2>1 DEF PlainIn, Logs
<1>. QED
  BY <1>1, <1>2, <1>3, <1>4, NextSplit DEF vars

-----------------------------------------------------------------------------
(* Deliveries that do not exist yet, and those that a step is not about. *)

NothingYet(d, wt, ls, f, bu, r, h) ==
    /\ wt[d] = 0 /\ d \notin bu
    /\ \A m \in ls : m.evt # d
    /\ \A v \in Workers : f[v].pc # "pick" => f[v].lease.evt # d
    /\ r.count = 0 /\ r.recorded = {} /\ h.sends = 0 /\ h.replays = 0 /\ ~h.refused

AbsentRows == \A d \in Items : del[d].status = "absent" =>
                NothingYet(d, waiting, leased, wk, buried, del[d], log[d])

\* A worker's step leaves other deliveries alone, save that it may create the row of
\* an operational event.
LEMMA Elsewhere ==
    ASSUME TypeOK, AbsentRows, NEW w \in Workers, WorkerStep(w), NEW d \in Items,
           wk[w].pc # "pick" => Dv(w) # d, wk'[w].pc # "pick" => wk'[w].lease.evt # d
    PROVE  /\ log'[d] = log[d] /\ (d \in buried' <=> d \in buried)
           /\ \A m \in Leases : m.evt = d => (m \in leased' <=> m \in leased) /\ (m \in lapsed' <=> m \in lapsed)
           /\ \/ del'[d] = del[d] /\ waiting'[d] = waiting[d]
              \/ /\ del[d].status = "absent" /\ del'[d] = [del[d] EXCEPT !.status = "queued"]
                 /\ \/ waiting'[d] = waiting[d] + 1
                    \/ waiting'[d] = waiting[d] /\ used' = used + 1
<1>0. /\ LeaseTypeOK /\ RowsOK /\ WorkersOK /\ del \in [Items -> Rows] /\ log \in [Items -> Logs]
      /\ waiting \in [Items -> Nat]
  BY TypeParts DEF LeaseTypeOK, RowsOK
<1>1. log'[d] = log[d]
  BY <1>0, WorkerLogs
<1>2. CASE Pick(w)
  <2>1. PICK t \in Tokens, x \in Items : /\ Take(t, x)
           /\ wk' = [wk EXCEPT ![w].pc = "load", ![w].lease = [tok |-> t, evt |-> x]]
    BY <1>2 DEF Pick
  <2>2. wk'[w].pc = "load" /\ wk'[w].lease = [tok |-> t, evt |-> x]
    BY <1>0, <2>1 DEF WorkersOK, WorkerStates
  <2>3. x # d
    BY <2>2
  <2>. QED
    BY <1>0, <1>1, <1>2, <2>1, <2>3 DEF Pick, Take
<1>3. CASE AckStep(w) \/ Bury(w) \/ PanicBury(w)
  <2>1. Dv(w) # d /\ del' = del
    BY <1>3 DEF AckStep, Bury, PanicBury, At
  <2>. QED
    BY <1>1, <1>3, <2>1 DEF AckStep, Bury, PanicBury, Remove, leaseVars, Dv
<1>4. CASE Defer(w) \/ ScheduleRetry(w)
  <2>1. Dv(w) # d /\ del' = del
    BY <1>4 DEF Defer, ScheduleRetry, At
  <2>. QED
    BY <1>0, <1>1, <1>4, <2>1 DEF Defer, ScheduleRetry, Put
<1>5. CASE PublishExhausted(w) \/ PublishDisabled(w)
  <2>1. buried' = buried /\ leased' = leased /\ lapsed' = lapsed
    BY <1>5 DEF PublishExhausted, PublishDisabled, Publish, Put, leaseVars
  <2>2. CASE del' = del /\ waiting' = waiting
    BY <1>1, <2>1, <2>2
  <2>3. ASSUME NEW o \in Op, del[o].status = "absent", del' = [del EXCEPT ![o].status = "queued"],
               Put(o) \/ (Spend /\ UNCHANGED leaseVars)
        PROVE  \/ del'[d] = del[d] /\ waiting'[d] = waiting[d]
               \/ /\ del[d].status = "absent" /\ del'[d] = [del[d] EXCEPT !.status = "queued"]
                  /\ \/ waiting'[d] = waiting[d] + 1
                     \/ waiting'[d] = waiting[d] /\ used' = used + 1
    <3>1. o \in Items
      BY OpAssumption
    <3>2. waiting[o] = 0
      BY <2>3, <3>1 DEF AbsentRows, NothingYet
    <3>. QED
      BY <1>0, <2>3, <3>1, <3>2 DEF Put, Spend, leaseVars
  <2>. QED
    BY <1>1, <1>5, <2>1, <2>2, <2>3 DEF PublishExhausted, PublishDisabled, Publish, leaseVars
<1>6. CASE UNCHANGED <<leaseVars, buried>> /\ ~PublishExhausted(w) /\ ~PublishDisabled(w)
  <2>1. wk[w].pc # "pick" \/ Pick(w)
    BY DEF WorkerStep, Process, Pick, Load, MarkDeliveryDisabled, Defer, Reject,
         MarkRejectedDead, MarkDeliveryFiltered, MarkDeliveryInFlight, Send, AfterFailure, MarkDeliveryDelivered,
         MarkDeliveryForRetry, ScheduleRetry, AckStep, MarkDeliveryDead, PublishExhausted,
         PublishDisabled, Bury, PanicBury, PanicDead, Panic, Abandon, ResetEndpointFailures,
         IncrSnapshot, IncrUpdate, At
  <2>2. del'[d] = del[d]
    <3>1. CASE del' = del
      BY <3>1
    <3>2. ASSUME NEW r, Update(Dv(w), r), Dv(w) # d PROVE del'[d] = del[d]
      BY <1>0, <3>2 DEF Update
    <3>. QED
      BY <1>2, <1>6, <2>1, <3>1, <3>2 DEF WorkerStep, Process, Load, MarkDeliveryDisabled, Defer, Reject,
         MarkRejectedDead, MarkDeliveryFiltered, MarkDeliveryInFlight, Send, AfterFailure, MarkDeliveryDelivered,
         MarkDeliveryForRetry, ScheduleRetry, AckStep, MarkDeliveryDead,
         Bury, PanicBury, PanicDead, Panic, Abandon, ResetEndpointFailures,
         IncrSnapshot, IncrUpdate, At, SetStatus, SetStatusUnchecked, RecordAttempt, Pick
  <2>. QED
    BY <1>1, <1>6, <2>2 DEF leaseVars
<1>. QED
  BY <1>2, <1>3, <1>4, <1>5, <1>6 DEF WorkerStep, Process, Load, MarkDeliveryDisabled, Reject,
     MarkRejectedDead, MarkDeliveryFiltered, MarkDeliveryInFlight, Send, AfterFailure, MarkDeliveryDelivered,
     ResetEndpointFailures, MarkDeliveryForRetry, MarkDeliveryDead,
     IncrSnapshot, IncrUpdate, PanicDead, Panic, Abandon, At

\* Where a worker is after its step.
LEMMA WorkerMoves ==
    ASSUME TypeOK, NEW w \in Workers, WorkerStep(w)
    PROVE  /\ \A v \in Workers \ {w} : wk'[v] = wk[v]
           /\ \/ /\ wk[w].pc = "pick" /\ Pick(w)
                 /\ \E t \in Tokens, d \in Items :
                       /\ \A v \in Workers : wk[v].lease # NoLease => wk[v].lease.tok # t
                       /\ Take(t, d)
                       /\ wk'[w].pc = "load" /\ wk'[w].lease = [tok |-> t, evt |-> d]
              \/ wk[w].pc # "pick" /\ Dv(w) \in Items /\ wk[w].lease \in Leases
                 /\ (wk'[w].lease = wk[w].lease \/ wk'[w] = Idle)
<1>0. WorkersOK
  BY TypeParts
<1>1. CASE Pick(w)
  <2>1. PICK t \in Tokens, d \in Items :
           /\ Take(t, d)
           /\ \A v \in Workers : wk[v].lease # NoLease => wk[v].lease.tok # t
           /\ wk' = [wk EXCEPT ![w].pc = "load", ![w].lease = [tok |-> t, evt |-> d]]
    BY <1>1 DEF Pick
  <2>a. wk' = [wk EXCEPT ![w].pc = "load", ![w].lease = [tok |-> t, evt |-> d]]
    BY <2>1
  <2>2. wk'[w].pc = "load" /\ wk'[w].lease = [tok |-> t, evt |-> d]
    BY <1>0, <2>a DEF WorkersOK, WorkerStates
  <2>b. \E u \in Tokens, x \in Items :
           /\ \A v \in Workers : wk[v].lease # NoLease => wk[v].lease.tok # u
           /\ Take(u, x)
           /\ wk'[w].pc = "load" /\ wk'[w].lease = [tok |-> u, evt |-> x]
    BY <2>1, <2>2
  <2>c. wk[w].pc = "pick"
    BY <1>1 DEF Pick, At
  <2>. QED
    BY <1>0, <1>1, <2>b, <2>c, OneMoves
<1>2. CASE ~Pick(w)
  BY <1>0, <1>2, OneMoves, HolderType DEF At
<1>. QED
  BY <1>1, <1>2

LEMMA AbsentRowsStep == TypeOK /\ AbsentRows /\ [Next]_vars => AbsentRows'
<1>. SUFFICES ASSUME TypeOK, AbsentRows, [Next]_vars, NEW d \in Items, del'[d].status = "absent"
              PROVE  NothingYet(d, waiting', leased', wk', buried', del'[d], log'[d])
  BY DEF AbsentRows
<1>0. /\ LeaseTypeOK /\ RowsOK /\ WorkersOK /\ del \in [Items -> Rows] /\ log \in [Items -> Logs]
      /\ waiting \in [Items -> Nat] /\ TypeOK'
  BY TypeParts, TypeStep DEF LeaseTypeOK, RowsOK
<1>1. ASSUME NEW w \in Workers, WorkerStep(w)
      PROVE  NothingYet(d, waiting', leased', wk', buried', del'[d], log'[d])
  <2>1. del[d].status = "absent" /\ del'[d] = del[d]
    BY <1>0, <1>1, RowFrame DEF Rows
  <2>2. NothingYet(d, waiting, leased, wk, buried, del[d], log[d])
    BY <2>1 DEF AbsentRows
  <2>3. wk[w].pc # "pick" => Dv(w) # d
    BY <2>2 DEF NothingYet, Dv
  <2>4. wk'[w].pc # "pick" => wk'[w].lease.evt # d
    <3>1. CASE wk[w].pc = "pick"
      <4>1. PICK t \in Tokens, x \in Items : Take(t, x) /\ wk'[w].lease = [tok |-> t, evt |-> x]
        BY <1>1, <3>1, WorkerMoves
      <4>2. x # d
        BY <2>2, <4>1 DEF Take, NothingYet
      <4>. QED
        BY <4>1, <4>2
    <3>. QED
      BY <1>1, <2>3, <3>1, WorkerMoves DEF Idle, Dv
  <2>5. /\ log'[d] = log[d] /\ (d \in buried' <=> d \in buried) /\ waiting'[d] = waiting[d]
        /\ \A m \in Leases : m.evt = d => (m \in leased' <=> m \in leased)
    BY <1>0, <1>1, <2>1, <2>3, <2>4, Elsewhere DEF Rows
  <2>6. \A m \in leased' : m.evt # d
    BY <1>0, <2>2, <2>5 DEF NothingYet, TypeOK, LeaseTypeOK
  <2>7. \A v \in Workers : wk'[v].pc # "pick" => wk'[v].lease.evt # d
    BY <1>1, <2>2, <2>4, WorkerMoves DEF NothingYet
  <2>. QED
    BY <2>1, <2>2, <2>5, <2>6, <2>7 DEF NothingYet
<1>2. ASSUME OtherStep
      PROVE  NothingYet(d, waiting', leased', wk', buried', del'[d], log'[d])
  <2>1. del[d].status = "absent"
    BY <1>0, <1>2, OtherRows DEF Rows
  <2>2. NothingYet(d, waiting, leased, wk, buried, del[d], log[d])
    BY <2>1 DEF AbsentRows
  <2>3. wk' = wk /\ leased' \subseteq leased
    BY <1>2, OtherLeases DEF OtherStep, OrphanExpires, LeaseOverrun, Recoverer, CreateDelivery, Replay, RequeueDead,
       Ages, ClaimStuck, EndpointPatched, EndpointDeleted, Put, leaseVars, Lapse, Reclaim
  <2>4. buried' \subseteq buried
    BY <1>2 DEF OtherStep, OrphanExpires, LeaseOverrun, Recoverer, CreateDelivery, Replay, RequeueDead,
       Ages, ClaimStuck, EndpointPatched, EndpointDeleted
  <2>5. del'[d] = del[d]
    <3>1. ASSUME NEW x \in Items, CreateDelivery(x) PROVE del'[d] = del[d]
      BY <1>0, <3>1 DEF CreateDelivery, Rows
    <3>2. ASSUME NEW x \in Items, Replay(x) PROVE del'[d] = del[d]
      BY <1>0, <2>1, <3>2 DEF Replay, Update, Exists
    <3>3. ASSUME NEW x \in Items, Ages(x) \/ ClaimStuck(x) PROVE del'[d] = del[d]
      BY <1>0, <2>1, <3>3 DEF Ages, ClaimStuck
    <3>4. ASSUME NEW e \in Endpoints, EndpointDeleted(e) PROVE del'[d] = del[d]
      BY <1>0, <2>1, <3>4 DEF EndpointDeleted, Exists
    <3>. QED
      BY <1>2, <3>1, <3>2, <3>3, <3>4 DEF OtherStep, OrphanExpires, LeaseOverrun, Recoverer, RequeueDead,
         EndpointPatched
  <2>6. waiting'[d] = 0
    <3>1. ASSUME NEW x \in Items, CreateDelivery(x) PROVE waiting'[d] = waiting[d]
      <4>1. x # d
        BY <1>0, <3>1 DEF CreateDelivery, Rows
      <4>. QED
        BY <1>0, <3>1, <4>1 DEF CreateDelivery, Put, leaseVars
    <3>2. ASSUME NEW x \in Items, Replay(x) \/ RequeueDead(x) \/ ClaimStuck(x) PROVE waiting'[d] = waiting[d]
      <4>1. x # d
        BY <2>1, <2>2, <3>2 DEF Replay, RequeueDead, ClaimStuck, Exists, NothingYet
      <4>. QED
        BY <1>0, <3>2, <4>1 DEF Replay, RequeueDead, ClaimStuck, Put, leaseVars
    <3>3. ASSUME Recoverer PROVE waiting'[d] = waiting[d]
      <4>1. d \notin {m.evt : m \in lapsed}
        BY <1>0, <2>2 DEF NothingYet, LeaseTypeOK
      <4>. QED
        BY <3>3, <4>1 DEF Recoverer, Reclaim
    <3>. QED
      BY <1>2, <2>2, <3>1, <3>2, <3>3 DEF OtherStep, OrphanExpires, LeaseOverrun, Ages,
         EndpointPatched, EndpointDeleted, leaseVars, Lapse, NothingYet
  <2>7. log'[d].sends = 0 /\ log'[d].replays = 0 /\ ~log'[d].refused
    <3>1. ASSUME NEW x \in Items, \/ log' = [log EXCEPT ![x].replays = @ + 1] /\ Replay(x)
                                  \/ log' = [log EXCEPT ![x].doubled = TRUE]
                                  \/ log' = [log EXCEPT ![x].overrun = TRUE, ![x].doubled = TRUE]
          PROVE  log'[d].sends = log[d].sends /\ log'[d].replays = log[d].replays /\ log'[d].refused = log[d].refused
      <4>1. Replay(x) => x # d
        BY <2>1 DEF Replay, Exists
      <4>. QED
        BY <1>0, <3>1, <4>1 DEF Logs
    <3>. QED
      BY <1>2, <2>2, <3>1, OtherLogs DEF NothingYet
  <2>. QED
    BY <2>2, <2>3, <2>4, <2>5, <2>6, <2>7 DEF NothingYet
<1>3. CASE UNCHANGED vars
  BY <1>3 DEF vars, leaseVars, AbsentRows
<1>. QED
  BY <1>1, <1>2, <1>3, NextSplit

-----------------------------------------------------------------------------
(* One copy at a time. *)

\* Leases that go with the next Ack.
Closing(f) == {f[v].lease : v \in {u \in Workers : f[u].pc = "ack"}}

\* A copy waits, or one lease stands that is not about to go; none of the lapsed is held.
OneAlive(d, wt, f, ls, lp) ==
    /\ wt[d] <= 1
    /\ \A m \in ls \ Closing(f) : m.evt = d => wt[d] = 0
    /\ \A m, n \in ls \ Closing(f) : m.evt = d /\ n.evt = d => m = n
    /\ \A m \in lp : m.evt = d => \A v \in Workers : f[v].lease # m

\* The worker that has not settled holds the one lease.
LEMMA OnlyHolder ==
    ASSUME TypeOK, HoldersOK, NEW w \in Workers, wk[w].pc \notin {"pick", "panicDead", "ack"},
           ~log[Dv(w)].overrun, OneAlive(Dv(w), waiting, wk, leased, lapsed)
    PROVE  /\ wk[w].lease \in leased \ Closing(wk) /\ waiting[Dv(w)] = 0
           /\ \A m \in leased \ Closing(wk) : m.evt = Dv(w) => m = wk[w].lease
<1>0. WorkersOK
  BY TypeParts
<1>1. wk[w].lease \in leased
  BY DEF HoldersOK, Dv
<1>2. wk[w].lease \notin Closing(wk)
  BY <1>0 DEF HoldersOK, Closing
<1>. QED
  BY <1>1, <1>2 DEF OneAlive, Dv

LEMMA AliveShrinks ==
    ASSUME NEW d \in Items, OneAlive(d, waiting, wk, leased, lapsed), waiting'[d] = waiting[d],
           \A m \in Leases : m.evt = d =>
               /\ m \in leased' \ Closing(wk') => m \in leased \ Closing(wk)
               /\ m \in lapsed' => m \in lapsed,
           leased' \subseteq Leases, lapsed' \subseteq Leases, NoLease \notin Leases,
           \A v \in Workers : \A m \in Leases : m.evt = d /\ wk'[v].lease = m => wk[v].lease = m
    PROVE  OneAlive(d, waiting', wk', leased', lapsed')
  BY DEF OneAlive

LEMMA AliveOwn ==
    ASSUME TypeOK, TypeOK', HoldersOK, AbsentRows, NEW w \in Workers, WorkerStep(w), wk[w].pc # "pick",
           NEW d \in Items, d = Dv(w), d \in PlainIn(log'), ~log[d].overrun,
           OneAlive(d, waiting, wk, leased, lapsed)
    PROVE  OneAlive(d, waiting', wk', leased', lapsed')
<1>0. /\ LeaseTypeOK /\ WorkersOK /\ waiting \in [Items -> Nat] /\ leased' \subseteq Leases /\ lapsed' \subseteq Leases
      /\ log \in [Items -> Logs] /\ wk[w].lease \in Leases /\ ~Pick(w)
  BY TypeParts, HolderType DEF TypeOK, LeaseTypeOK, At, Pick
<1>1. /\ \A v \in Workers \ {w} : wk'[v] = wk[v]
      /\ wk'[w].lease = wk[w].lease \/ wk'[w] = Idle
  BY WorkerMoves
<1>2. CASE Defer(w) \/ ScheduleRetry(w)
  <2>1. wk[w].pc \notin {"pick", "panicDead", "ack"} /\ Put(d) /\ Goto(w, "ack")
    BY <1>2 DEF Defer, ScheduleRetry, At
  <2>2. /\ wk[w].lease \in leased \ Closing(wk) /\ waiting[d] = 0
        /\ \A m \in leased \ Closing(wk) : m.evt = d => m = wk[w].lease
    BY <2>1, OnlyHolder
  <2>3. waiting'[d] = 1 /\ leased' = leased /\ lapsed' = lapsed
    BY <1>0, <2>1, <2>2 DEF Put
  <2>4. wk'[w].pc = "ack" /\ wk'[w].lease = wk[w].lease
    BY <1>0, <2>1 DEF Goto, WorkersOK, WorkerStates
  <2>5. wk[w].lease \in Closing(wk')
    BY <2>4 DEF Closing
  <2>6. \A m \in Closing(wk) : m \in Closing(wk')
    BY <1>1, <2>1 DEF Closing
  <2>7. \A m \in leased' \ Closing(wk') : m.evt # d
    BY <2>2, <2>3, <2>5, <2>6
  <2>8. \A m \in lapsed : m.evt = d => \A v \in Workers : wk'[v].lease # m
    BY <1>1, <2>4 DEF OneAlive
  <2>. QED
    BY <2>3, <2>7, <2>8 DEF OneAlive
<1>3. CASE ~(Defer(w) \/ ScheduleRetry(w))
  <2>1. leased' \subseteq leased /\ lapsed' \subseteq lapsed
    BY <1>0 DEF WorkerStep, Process, Load, MarkDeliveryDisabled, Defer, Reject,
         MarkRejectedDead, MarkDeliveryFiltered, MarkDeliveryInFlight, Send, AfterFailure, MarkDeliveryDelivered,
         MarkDeliveryForRetry, ScheduleRetry, AckStep, MarkDeliveryDead, PublishExhausted,
         PublishDisabled, Bury, PanicBury, PanicDead, Panic, Abandon, ResetEndpointFailures,
         IncrSnapshot, IncrUpdate, leaseVars, Publish, Put, Remove
  <2>2. waiting'[d] = waiting[d]
    <3>1. CASE PublishExhausted(w) \/ PublishDisabled(w)
      <4>1. ASSUME NEW o \in Op, del[o].status = "absent" PROVE o # d /\ o \in Items
        BY <4>1, OpAssumption DEF AbsentRows, NothingYet, Dv
      <4>. QED
        BY <1>0, <3>1, <4>1 DEF PublishExhausted, PublishDisabled, Publish, Put, leaseVars
    <3>. QED
      BY <1>0, <1>3, <3>1 DEF WorkerStep, Process, Load, MarkDeliveryDisabled, Reject,
         MarkRejectedDead, MarkDeliveryFiltered, MarkDeliveryInFlight, Send, AfterFailure, MarkDeliveryDelivered,
         MarkDeliveryForRetry, AckStep, MarkDeliveryDead,
         Bury, PanicBury, PanicDead, Panic, Abandon, ResetEndpointFailures,
         IncrSnapshot, IncrUpdate, leaseVars, Remove
  <2>3. wk[w].pc = "ack" => wk[w].lease \notin leased'
    <3>1. CASE Abandon(w)
      <4>1. wk[w].pc = "ack" => log' = [log EXCEPT ![d].doubled = TRUE]
        BY <3>1 DEF Abandon
      <4>2. wk[w].pc # "ack"
        BY <1>0, <4>1 DEF PlainIn, Logs
      <4>. QED
        BY <4>2
    <3>2. CASE AckStep(w)
      BY <3>2 DEF AckStep, Remove
    <3>. QED
      BY <1>0, <3>1, <3>2 DEF WorkerStep, Process, Load, MarkDeliveryDisabled, Defer, Reject,
         MarkRejectedDead, MarkDeliveryFiltered, MarkDeliveryInFlight, Send, AfterFailure, MarkDeliveryDelivered,
         MarkDeliveryForRetry, ScheduleRetry, MarkDeliveryDead, PublishExhausted,
         PublishDisabled, Bury, PanicBury, PanicDead, Panic, ResetEndpointFailures,
         IncrSnapshot, IncrUpdate, At
  <2>4. \A m \in leased' : m \in Closing(wk) => m \in Closing(wk')
    BY <1>1, <2>3 DEF Closing
  <2>5. \A v \in Workers : \A m \in Leases : wk'[v].lease = m => wk[v].lease = m
    BY <1>1, NoLeaseAssumption DEF Idle
  <2>. QED
    BY <1>0, <2>1, <2>2, <2>4, <2>5, NoLeaseAssumption, AliveShrinks
<1>. QED
  BY <1>2, <1>3

LEMMA AliveElsewhere ==
    ASSUME TypeOK, TypeOK', AbsentRows, NEW w \in Workers, WorkerStep(w), NEW d \in Items,
           wk[w].pc # "pick" => Dv(w) # d, wk'[w].pc # "pick" => wk'[w].lease.evt # d,
           OneAlive(d, waiting, wk, leased, lapsed)
    PROVE  OneAlive(d, waiting', wk', leased', lapsed')
<1>0. /\ WorkersOK /\ WorkersOK' /\ leased \subseteq Leases /\ lapsed \subseteq leased
      /\ leased' \subseteq Leases /\ lapsed' \subseteq Leases
  BY TypeParts DEF TypeOK, LeaseTypeOK, WorkersOK
<1>1. \A v \in Workers \ {w} : wk'[v] = wk[v]
  BY WorkerMoves
<1>2. \A m \in Leases : m.evt = d => (m \in leased' <=> m \in leased) /\ (m \in lapsed' <=> m \in lapsed)
  BY Elsewhere
<1>3. \A m \in Leases : m.evt = d => m # wk[w].lease /\ m # wk'[w].lease
  BY <1>0, NoLeaseAssumption DEF WorkersOK, Dv
<1>4. \A m \in Leases : m.evt = d => (m \in Closing(wk) => m \in Closing(wk'))
  BY <1>1, <1>3 DEF Closing
<1>5. \A v \in Workers : \A m \in Leases : m.evt = d /\ wk'[v].lease = m => wk[v].lease = m
  BY <1>1, <1>3
<1>6. CASE waiting'[d] = waiting[d]
  BY <1>0, <1>2, <1>4, <1>5, <1>6, NoLeaseAssumption, AliveShrinks
<1>7. CASE del[d].status = "absent" /\ waiting'[d] = waiting[d] + 1
  <2>1. NothingYet(d, waiting, leased, wk, buried, del[d], log[d])
    BY <1>7 DEF AbsentRows
  <2>2. waiting'[d] = 1 /\ \A m \in leased' : m.evt # d
    BY <1>0, <1>2, <1>7, <2>1 DEF NothingYet
  <2>. QED
    BY <1>0, <2>2 DEF OneAlive, TypeOK, LeaseTypeOK
<1>. QED
  BY <1>6, <1>7, Elsewhere

LEMMA AlivePick ==
    ASSUME TypeOK, TypeOK', NEW w \in Workers, WorkerStep(w), wk[w].pc = "pick", NEW d \in Items,
           wk'[w].lease.evt = d, OneAlive(d, waiting, wk, leased, lapsed)
    PROVE  OneAlive(d, waiting', wk', leased', lapsed')
<1>0. WorkersOK /\ leased \subseteq Leases /\ lapsed \subseteq leased /\ waiting \in [Items -> Nat]
  BY TypeParts DEF TypeOK, LeaseTypeOK
<1>1. PICK t \in Tokens, x \in Items :
         /\ Take(t, x) /\ wk'[w].pc = "load" /\ wk'[w].lease = [tok |-> t, evt |-> x]
         /\ \A v \in Workers : wk[v].lease # NoLease => wk[v].lease.tok # t
  BY WorkerMoves
<1>. DEFINE n == [tok |-> t, evt |-> x]
<1>2. x = d /\ n.evt = d /\ n.tok = t /\ n \in Leases
  BY <1>1 DEF Leases
<1>3. waiting[d] = 1 /\ waiting'[d] = 0 /\ leased' = leased \cup {n} /\ lapsed' = lapsed
  BY <1>0, <1>1, <1>2 DEF Take, OneAlive
<1>4. \A v \in Workers \ {w} : wk'[v] = wk[v] /\ wk[v].lease # n
  BY <1>1, <1>2, NoLeaseAssumption, WorkerMoves
<1>5. n \notin Closing(wk') /\ n \notin leased
  BY <1>1, <1>2, <1>4 DEF Closing, Take
<1>6. \A m \in leased : m \in Closing(wk) => m \in Closing(wk')
  BY <1>4 DEF Closing
<1>. HIDE DEF n
<1>7. \A m \in leased' \ Closing(wk') : m.evt = d => m = n
  BY <1>3, <1>6 DEF OneAlive
<1>8. \A m \in lapsed' : m.evt = d => \A v \in Workers : wk'[v].lease # m
  <2>1. wk'[w].lease = n
    BY <1>1 DEF n
  <2>. QED
    BY <1>0, <1>3, <1>4, <1>5, <2>1 DEF OneAlive
<1>. QED
  BY <1>3, <1>7, <1>8 DEF OneAlive

LEMMA AliveOther ==
    ASSUME TypeOK, TypeOK', AbsentRows, OtherStep, NEW d \in Items, d \in PlainIn(log'), d \in PlainIn(log),
           OneAlive(d, waiting, wk, leased, lapsed)
    PROVE  OneAlive(d, waiting', wk', leased', lapsed')
<1>0. /\ waiting \in [Items -> Nat] /\ leased \subseteq Leases /\ lapsed \subseteq leased
      /\ leased' \subseteq Leases /\ lapsed' \subseteq Leases /\ log \in [Items -> Logs] /\ waiting'[d] \in Nat
  BY TypeParts DEF TypeOK, LeaseTypeOK
<1>1. wk' = wk /\ Closing(wk') = Closing(wk)
  BY OtherLeases
<1>2. CASE OrphanExpires
  <2>1. PICK m \in leased : ~Held(m) /\ Lapse(m)
    BY <1>2 DEF OrphanExpires
  <2>2. leased' = leased /\ waiting' = waiting /\ lapsed' = lapsed \cup {m} /\ \A v \in Workers : wk[v].lease # m
    BY <2>1 DEF Lapse, Held
  <2>. QED
    BY <1>1, <2>2 DEF OneAlive
<1>3. CASE LeaseOverrun
  <2>1. PICK m \in leased : /\ Lapse(m)
                            /\ log' = [log EXCEPT ![m.evt].overrun = TRUE, ![m.evt].doubled = TRUE]
    BY <1>3 DEF LeaseOverrun
  <2>2. m.evt # d
    BY <1>0, <2>1 DEF PlainIn, Logs
  <2>. QED
    BY <1>1, <2>1, <2>2 DEF OneAlive, Lapse
<1>4. CASE Recoverer
  <2>. DEFINE back == {m.evt : m \in lapsed}
  <2>1. /\ leased' = leased \ lapsed /\ lapsed' = {}
        /\ \E merged \in SUBSET {i \in back : waiting[i] > 0} :
              waiting' = [i \in Items |-> IF i \in back \ merged THEN waiting[i] + 1 ELSE waiting[i]]
    BY <1>4 DEF Recoverer, Reclaim
  <2>2. CASE d \notin back
    <3>1. waiting'[d] = waiting[d]
      BY <2>1, <2>2
    <3>. QED
      BY <1>1, <2>1, <3>1 DEF OneAlive
  <2>3. CASE d \in back
    <3>1. PICK m \in lapsed : m.evt = d
      BY <2>3
    <3>2. m \in leased \ Closing(wk)
      BY <1>0, <3>1 DEF OneAlive, Closing
    <3>3. waiting[d] = 0 /\ \A n \in leased \ Closing(wk) : n.evt = d => n = m
      BY <3>1, <3>2 DEF OneAlive
    <3>4. waiting'[d] <= 1
      BY <1>0, <2>1, <3>3
    <3>5. \A n \in leased' \ Closing(wk') : n.evt # d
      BY <1>1, <2>1, <3>1, <3>3
    <3>. QED
      BY <2>1, <3>4, <3>5 DEF OneAlive
  <2>. QED
    BY <2>2, <2>3
<1>5. CASE leased' = leased /\ lapsed' = lapsed /\ waiting'[d] = waiting[d]
  BY <1>1, <1>5 DEF OneAlive
<1>6. CASE leased' = leased /\ lapsed' = lapsed /\ (\A m \in leased : m.evt # d) /\ waiting'[d] <= 1
  BY <1>0, <1>6 DEF OneAlive
<1>7. ASSUME NEW x \in Items, CreateDelivery(x) \/ Replay(x) \/ RequeueDead(x) \/ Ages(x) \/ ClaimStuck(x)
      PROVE  OneAlive(d, waiting', wk', leased', lapsed')
  <2>1. leased' = leased /\ lapsed' = lapsed
    BY <1>7 DEF CreateDelivery, Replay, RequeueDead, Ages, ClaimStuck, Put, leaseVars
  <2>2. CASE x # d
    BY <1>0, <1>5, <1>7, <2>1, <2>2 DEF CreateDelivery, Replay, RequeueDead, Ages, ClaimStuck, Put, leaseVars
  <2>3. CASE waiting' = waiting
    BY <1>5, <2>1, <2>3
  <2>4. CASE x = d /\ CreateDelivery(d)
    <3>1. NothingYet(d, waiting, leased, wk, buried, del[d], log[d])
      BY <2>4 DEF AbsentRows, CreateDelivery
    <3>2. waiting'[d] <= 1
      BY <1>0, <2>4, <3>1 DEF CreateDelivery, Put, NothingYet, leaseVars
    <3>. QED
      BY <1>6, <2>1, <3>1, <3>2 DEF NothingYet
  <2>5. CASE x = d /\ ClaimStuck(d)
    <3>1. CASE ~Queued(d) /\ Put(d)
      <4>1. waiting[d] = 0 /\ \A m \in leased : m.evt # d
        BY <1>0, <3>1 DEF Queued
      <4>2. waiting'[d] <= 1
        BY <1>0, <3>1, <4>1 DEF Put
      <4>. QED
        BY <1>6, <2>1, <4>1, <4>2
    <3>2. log' # [log EXCEPT ![d].doubled = TRUE]
      BY <1>0 DEF PlainIn, Logs
    <3>. QED
      BY <2>3, <2>5, <3>1, <3>2 DEF ClaimStuck, leaseVars
  <2>6. ~(RequeueDead(d) \/ Replay(d))
    BY <1>0 DEF RequeueDead, Replay, PlainIn, Logs
  <2>. QED
    BY <1>7, <2>2, <2>3, <2>4, <2>5, <2>6 DEF Ages, leaseVars
<1>8. CASE \E e \in Endpoints : EndpointPatched(e) \/ EndpointDeleted(e)
  BY <1>5, <1>8 DEF EndpointPatched, EndpointDeleted, leaseVars
<1>. QED
  BY <1>2, <1>3, <1>4, <1>7, <1>8 DEF OtherStep

LEMMA AliveStep ==
    ASSUME TypeOK, TypeOK', HoldersOK, AbsentRows, [Next]_vars, NEW d \in Items,
           d \in PlainIn(log'), d \in PlainIn(log), log[d].overrun => log[d].doubled,
           OneAlive(d, waiting, wk, leased, lapsed)
    PROVE  OneAlive(d, waiting', wk', leased', lapsed')
<1>1. ~log[d].overrun
  BY DEF PlainIn
<1>2. ASSUME NEW w \in Workers, WorkerStep(w)
      PROVE  OneAlive(d, waiting', wk', leased', lapsed')
  <2>1. CASE wk[w].pc # "pick" /\ Dv(w) = d
    BY <1>1, <1>2, <2>1, AliveOwn
  <2>2. CASE wk[w].pc = "pick" /\ wk'[w].lease.evt = d
    BY <1>2, <2>2, AlivePick
  <2>3. CASE (wk[w].pc # "pick" => Dv(w) # d) /\ (wk[w].pc = "pick" => wk'[w].lease.evt # d)
    <3>1. wk'[w].pc # "pick" => wk'[w].lease.evt # d
      BY <1>2, <2>3, WorkerMoves DEF Idle, Dv
    <3>. QED
      BY <1>2, <2>3, <3>1, AliveElsewhere
  <2>. QED
    BY <2>1, <2>2, <2>3
<1>3. CASE UNCHANGED vars
  BY <1>3 DEF vars, leaseVars, OneAlive
<1>. QED
  BY <1>2, <1>3, NextSplit, AliveOther

-----------------------------------------------------------------------------
(* The numbers of attempts. *)

Crew(f, d, labels) == {v \in Workers : f[v].pc \in labels /\ f[v].lease.evt = d}

\* A worker has the count it read, or the one it made, and numbers its attempt with it.
Counting(d, r, f) ==
    /\ \A k \in r.recorded : k <= r.count
    /\ \A v \in Crew(f, d, {"gate"}) : f[v].row = r.count
    /\ \A v \in Crew(f, d, {"send"}) : f[v].row + 1 = r.count /\ r.count \notin r.recorded

\* A rejected delivery has used a number ahead of its count, and is attempted no more.
NumbersOK(d, r, f, h) ==
    /\ ~h.refused
    /\ r.status \in {"absent", "deleted"} => r.recorded = {}
    /\ r.status \notin {"absent", "deleted"} =>
          \/ Counting(d, r, f)
          \/ Crew(f, d, {"reject"}) # {}
          \/ r.status \in Over /\ Crew(f, d, {"gate", "send", "retry"}) = {}

Unsettled == Labels \ {"pick", "ack", "panicDead"}

\* Nobody else is at a plain delivery that a worker has not settled.
LEMMA Exclusive ==
    ASSUME TypeOK, HoldersOK, NEW d \in Items, ~log[d].overrun, OneAlive(d, waiting, wk, leased, lapsed),
           NEW v \in Crew(wk, d, Unsettled), NEW w \in Crew(wk, d, Unsettled)
    PROVE  v = w
<1>1. /\ v \in Workers /\ w \in Workers /\ Dv(v) = d /\ Dv(w) = d
      /\ wk[v].pc \notin {"pick", "panicDead", "ack"} /\ wk[w].pc \notin {"pick", "panicDead", "ack"}
  BY DEF Crew, Unsettled, Dv
<1>2. wk[v].lease \in leased \ Closing(wk) /\ wk[w].lease \in leased \ Closing(wk)
  BY <1>1, OnlyHolder
<1>3. wk[v].lease = wk[w].lease
  BY <1>1, <1>2, OnlyHolder DEF Dv
<1>. QED
  BY <1>1, <1>3 DEF HoldersOK

\* Nobody begins an attempt, and the row keeps its count and its attempts.
LEMMA NumbersKeep ==
    ASSUME NEW d \in Items, NumbersOK(d, del[d], wk, log[d]), log'[d].refused = log[d].refused,
           del'[d].count = del[d].count, del'[d].recorded = del[d].recorded,
           del'[d].status = del[d].status \/ (del'[d].status \in Over /\ del[d].status \notin {"absent", "deleted"}),
           \A v \in Crew(wk', d, {"gate", "send", "retry"}) :
               v \in Crew(wk, d, {"gate", "send", "retry"}),
           \A v \in Crew(wk', d, {"gate"}) : v \in Crew(wk, d, {"gate"}) /\ wk'[v].row = wk[v].row,
           \A v \in Crew(wk', d, {"send"}) : v \in Crew(wk, d, {"send"}) /\ wk'[v].row = wk[v].row,
           \A v \in Crew(wk, d, {"reject"}) : v \in Crew(wk', d, {"reject"})
    PROVE  NumbersOK(d, del'[d], wk', log'[d])
<1>1. Counting(d, del[d], wk) => Counting(d, del'[d], wk')
  BY DEF Counting
<1>2. Crew(wk, d, {"reject"}) # {} => Crew(wk', d, {"reject"}) # {}
  OBVIOUS
<1>3. Crew(wk, d, {"gate", "send", "retry"}) = {} => Crew(wk', d, {"gate", "send", "retry"}) = {}
  OBVIOUS
<1>4. "absent" \notin Over /\ "deleted" \notin Over
  BY DEF Over
<1>. QED
  BY <1>1, <1>2, <1>3, <1>4 DEF NumbersOK

LEMMA NumbersElsewhere ==
    ASSUME TypeOK, TypeOK', AbsentRows, NEW w \in Workers, WorkerStep(w), NEW d \in Items,
           wk[w].pc # "pick" => Dv(w) # d, wk'[w].pc # "pick" => wk'[w].lease.evt # d,
           NumbersOK(d, del[d], wk, log[d])
    PROVE  NumbersOK(d, del'[d], wk', log'[d])
<1>1. \A v \in Workers \ {w} : wk'[v] = wk[v]
  BY WorkerMoves
<1>2. ASSUME NEW labels, "pick" \notin labels
      PROVE  /\ w \notin Crew(wk, d, labels) /\ w \notin Crew(wk', d, labels)
             /\ Crew(wk', d, labels) = Crew(wk, d, labels)
  BY <1>1, <1>2 DEF Crew, Dv
<1>3. CASE del'[d] = del[d]
  <2>1. log'[d] = log[d]
    BY Elsewhere
  <2>2. /\ Crew(wk', d, {"gate"}) = Crew(wk, d, {"gate"}) /\ Crew(wk', d, {"send"}) = Crew(wk, d, {"send"})
        /\ Crew(wk', d, {"reject"}) = Crew(wk, d, {"reject"})
        /\ Crew(wk', d, {"gate", "send", "retry"}) = Crew(wk, d, {"gate", "send", "retry"})
        /\ w \notin Crew(wk, d, {"gate"}) /\ w \notin Crew(wk, d, {"send"})
    BY <1>2
  <2>3. \A v \in Crew(wk, d, {"gate"}) \cup Crew(wk, d, {"send"}) : wk'[v] = wk[v]
    BY <1>1, <2>2 DEF Crew
  <2>. QED
    BY <1>3, <2>1, <2>2, <2>3, NumbersKeep
<1>4. CASE del[d].status = "absent" /\ del'[d] = [del[d] EXCEPT !.status = "queued"]
  <2>1. NothingYet(d, waiting, leased, wk, buried, del[d], log[d])
    BY <1>4 DEF AbsentRows
  <2>2. del[d] \in Rows
    BY TypeParts DEF RowsOK
  <2>3. del'[d].count = 0 /\ del'[d].recorded = {} /\ del'[d].status = "queued"
    BY <1>4, <2>1, <2>2 DEF NothingYet, Rows
  <2>4. Crew(wk, d, {"gate"}) = {} /\ Crew(wk, d, {"send"}) = {}
    BY <2>1 DEF NothingYet, Crew
  <2>5. Crew(wk', d, {"gate"}) = {} /\ Crew(wk', d, {"send"}) = {}
    BY <1>2, <2>4
  <2>6. Counting(d, del'[d], wk')
    BY <2>3, <2>5 DEF Counting
  <2>. QED
    BY <2>3, <2>6, Elsewhere DEF NumbersOK
<1>. QED
  BY <1>3, <1>4, Elsewhere

\* A status write that takes effect or not.
LEMMA StatusWritten ==
    ASSUME TypeOK, NEW d \in Items, NEW s \in Over \cup {"queued", "in_flight"},
           SetStatus(d, s) \/ SetStatusUnchecked(d, s)
    PROVE  /\ del'[d].count = del[d].count /\ del'[d].recorded = del[d].recorded
           /\ del'[d].status = del[d].status \/ (Exists(d) /\ del'[d].status = s)
<1>0. del \in [Items -> Rows] /\ log \in [Items -> Logs]
  BY TypeParts DEF RowsOK
<1>1. /\ WithStatus(d, s).status = s /\ WithStatus(d, s).count = del[d].count
      /\ WithStatus(d, s).recorded = del[d].recorded
  BY <1>0 DEF WithStatus, Rows
<1>2. ASSUME SetStatus(d, s)
      PROVE  del'[d] = IF Exists(d) THEN WithStatus(d, s) ELSE del[d]
  BY <1>0, <1>2 DEF SetStatus, Update
<1>. QED
  BY <1>1, <1>2 DEF SetStatusUnchecked

LEMMA NumbersOwn ==
    ASSUME TypeOK, TypeOK', HoldersOK, AbsentRows, NEW w \in Workers, WorkerStep(w), wk[w].pc # "pick",
           NEW d \in Items, d = Dv(w), d \in PlainIn(log'), ~log[d].overrun,
           OneAlive(d, waiting, wk, leased, lapsed), NumbersOK(d, del[d], wk, log[d])
    PROVE  NumbersOK(d, del'[d], wk', log'[d])
<1>0. /\ WorkersOK /\ del \in [Items -> Rows] /\ log \in [Items -> Logs] /\ wk[w] \in WorkerStates
      /\ del[d] \in Rows /\ wk[w].row \in Nat /\ del[d].count \in Nat /\ wk[w].lease.evt = d /\ ~Pick(w)
  BY TypeParts, HolderType DEF RowsOK, At, WorkerStates, Rows, Dv, Pick
<1>1. \A v \in Workers \ {w} : wk'[v] = wk[v]
  BY WorkerMoves
<1>2. ASSUME wk[w].pc \in Unsettled, NEW v \in Workers, wk[v].pc \in Unsettled, wk[v].lease.evt = d PROVE v = w
  BY <1>0, <1>2, Exclusive DEF Crew
<1>k. ASSUME log'[d].refused = log[d].refused, del'[d].count = del[d].count, del'[d].recorded = del[d].recorded,
             del'[d].status = del[d].status \/ (del'[d].status \in Over /\ Exists(d)),
             wk'[w].pc \notin {"gate", "send", "retry"}, wk[w].pc # "reject"
      PROVE  NumbersOK(d, del'[d], wk', log'[d])
  <2>1. \A v \in Crew(wk', d, {"gate", "send", "retry"}) : v \in Crew(wk, d, {"gate", "send", "retry"})
    BY <1>1, <1>k DEF Crew
  <2>2. \A v \in Crew(wk', d, {"gate"}) : v \in Crew(wk, d, {"gate"}) /\ wk'[v].row = wk[v].row
    BY <1>1, <1>k DEF Crew
  <2>3. \A v \in Crew(wk', d, {"send"}) : v \in Crew(wk, d, {"send"}) /\ wk'[v].row = wk[v].row
    BY <1>1, <1>k DEF Crew
  <2>4. \A v \in Crew(wk, d, {"reject"}) : v \in Crew(wk', d, {"reject"})
    BY <1>1, <1>k DEF Crew
  <2>. QED
    BY <1>k, <2>1, <2>2, <2>3, <2>4, NumbersKeep DEF Exists
<1>g. ASSUME NEW label, Goto(w, label) PROVE wk'[w].pc = label /\ wk'[w].lease = wk[w].lease
  BY <1>0, <1>g DEF Goto, WorkersOK, WorkerStates
<1>f. ASSUME Free(w) PROVE wk'[w].pc = "pick"
  BY <1>0, <1>f DEF Free, WorkersOK, Idle
<1>3. CASE Load(w)
  <2>1. del' = del /\ log' = log /\ wk[w].pc = "load"
    BY <1>3 DEF Load, At
  <2>2. CASE wk' = [wk EXCEPT ![w].pc = "gate", ![w].row = del[d].count] /\ Exists(d) /\ del[d].status \notin Over
    <3>1. wk'[w].pc = "gate" /\ wk'[w].row = del[d].count
      BY <1>0, <2>2 DEF WorkersOK, WorkerStates
    <3>2. wk[w].pc \in Unsettled
      BY <2>1 DEF Unsettled, Labels
    <3>3. Crew(wk, d, {"reject"}) = {}
      BY <1>2, <2>1, <3>2 DEF Crew, Unsettled, Labels
    <3>4. Counting(d, del[d], wk)
      BY <2>2, <3>3 DEF NumbersOK, Exists
    <3>5. Counting(d, del'[d], wk')
      BY <1>1, <2>1, <3>1, <3>4 DEF Counting, Crew
    <3>. QED
      BY <2>1, <3>5 DEF NumbersOK
  <2>3. CASE Goto(w, "ack") \/ Goto(w, "disable")
    BY <1>g, <1>k, <2>1, <2>3
  <2>. QED
    BY <1>3, <2>2, <2>3 DEF Load
<1>4. CASE MarkDeliveryDisabled(w) \/ MarkDeliveryFiltered(w) \/ MarkDeliveryDelivered(w) \/ MarkDeliveryDead(w) \/ PanicDead(w)
  <2>1. PICK s \in Over : SetStatus(d, s) \/ SetStatusUnchecked(d, s)
    BY <1>4 DEF MarkDeliveryDisabled, MarkDeliveryFiltered, MarkDeliveryDelivered, MarkDeliveryDead, PanicDead, Over
  <2>2. wk[w].pc # "reject" /\ wk'[w].pc \notin {"gate", "send", "retry"}
    BY <1>4, <1>g, <1>f DEF MarkDeliveryDisabled, MarkDeliveryFiltered, MarkDeliveryDelivered, MarkDeliveryDead, PanicDead, At
  <2>3. log'[d].refused = log[d].refused
    <3>1. log' = log \/ log' = [log EXCEPT ![d].slipped = TRUE]
      BY <1>4 DEF MarkDeliveryDisabled, MarkDeliveryFiltered, MarkDeliveryDelivered, MarkDeliveryDead, PanicDead, SetStatusUnchecked
    <3>. QED
      BY <1>0, <3>1 DEF Logs
  <2>. QED
    BY <1>k, <2>1, <2>2, <2>3, StatusWritten
<1>5. CASE MarkRejectedDead(w)
  <2>1. wk[w].pc = "reject" /\ wk'[w].pc = "bury" /\ SetStatusUnchecked(d, "dead")
    BY <1>5, <1>g DEF MarkRejectedDead, At
  <2>2. ~log'[d].slipped
    BY DEF PlainIn
  <2>3. SetStatus(d, "dead") /\ log' = log
    <3>1. ASSUME log' = [log EXCEPT ![d].slipped = TRUE] PROVE FALSE
      BY <1>0, <2>2, <3>1 DEF Logs
    <3>. QED
      BY <2>1, <3>1 DEF SetStatusUnchecked
  <2>4. wk[w].pc \in Unsettled
    BY <2>1 DEF Unsettled, Labels
  <2>5. Crew(wk', d, {"gate", "send", "retry"}) = {}
    BY <1>1, <1>2, <2>1, <2>4 DEF Crew, Unsettled, Labels
  <2>6. del'[d].recorded = del[d].recorded /\ del'[d].status = IF Exists(d) THEN "dead" ELSE del[d].status
    BY <1>0, <2>3 DEF SetStatus, Update, WithStatus, Rows
  <2>. QED
    BY <2>3, <2>5, <2>6 DEF NumbersOK, Exists, Over
<1>6. CASE MarkDeliveryInFlight(w)
  <2>1. wk[w].pc = "gate" /\ wk' = [wk EXCEPT ![w].pc = "send"] /\ log' = log
    BY <1>6 DEF MarkDeliveryInFlight, At
  <2>2. wk'[w].pc = "send" /\ wk'[w].row = wk[w].row
    BY <1>0, <2>1 DEF WorkersOK, WorkerStates
  <2>3. CASE ~Exists(d)
    <3>1. del'[d] = del[d]
      BY <1>0, <1>6, <2>3 DEF MarkDeliveryInFlight, Update
    <3>. QED
      BY <2>1, <2>3, <3>1 DEF NumbersOK, Exists
  <2>4. CASE Exists(d)
    <3>1. del'[d] = [WithStatus(d, "in_flight") EXCEPT !.count = @ + 1]
      BY <1>0, <1>6, <2>4 DEF MarkDeliveryInFlight, Update
    <3>2. del'[d].count = del[d].count + 1 /\ del'[d].recorded = del[d].recorded /\ del'[d].status = "in_flight"
      BY <1>0, <3>1 DEF WithStatus, Rows
    <3>3. wk[w].pc \in Unsettled /\ w \in Crew(wk, d, {"gate"}) /\ w \in Crew(wk, d, {"gate", "send", "retry"})
      BY <1>0, <2>1 DEF Unsettled, Labels, Crew
    <3>4. \A v \in Workers : wk[v].pc \in {"gate", "send", "reject"} /\ wk[v].lease.evt = d => v = w
      BY <1>2, <3>3 DEF Unsettled, Labels
    <3>5. Crew(wk, d, {"reject"}) = {}
      BY <2>1, <3>4 DEF Crew
    <3>6. Counting(d, del[d], wk)
      BY <2>4, <3>3, <3>5 DEF NumbersOK, Exists
    <3>7. wk[w].row = del[d].count /\ \A k \in del[d].recorded : k <= del[d].count
      BY <3>3, <3>6 DEF Counting
    <3>8. Crew(wk', d, {"gate"}) = {} /\ \A v \in Crew(wk', d, {"send"}) : v = w
      BY <1>1, <2>2, <3>4 DEF Crew
    <3>9. del[d].recorded \subseteq Nat
      BY <1>0 DEF Rows
    <3>10. Counting(d, del'[d], wk')
      BY <1>0, <2>2, <3>2, <3>7, <3>8, <3>9 DEF Counting
    <3>. QED
      BY <2>1, <3>2, <3>10 DEF NumbersOK
  <2>. QED
    BY <2>3, <2>4
<1>7. CASE MarkDeliveryForRetry(w)
  <2>1. wk[w].pc = "retry" /\ wk'[w].pc = "schedule" /\ log' = log
    BY <1>7, <1>g DEF MarkDeliveryForRetry, At
  <2>2. CASE ~Exists(d)
    <3>1. del'[d] = del[d]
      BY <1>0, <1>7, <2>2 DEF MarkDeliveryForRetry, Update
    <3>. QED
      BY <2>1, <2>2, <3>1 DEF NumbersOK, Exists
  <2>3. CASE Exists(d)
    <3>1. del'[d] = [WithStatus(d, "queued") EXCEPT !.retryAt = TRUE]
      BY <1>0, <1>7, <2>3 DEF MarkDeliveryForRetry, Update
    <3>2. del'[d].count = del[d].count /\ del'[d].recorded = del[d].recorded /\ del'[d].status = "queued"
      BY <1>0, <3>1 DEF WithStatus, Rows
    <3>3. wk[w].pc \in Unsettled /\ w \in Crew(wk, d, {"gate", "send", "retry"})
      BY <1>0, <2>1 DEF Unsettled, Labels, Crew
    <3>5. Crew(wk, d, {"reject"}) = {}
      BY <1>2, <2>1, <3>3 DEF Crew, Unsettled, Labels
    <3>6. Counting(d, del[d], wk)
      BY <2>3, <3>3, <3>5 DEF NumbersOK, Exists
    <3>7. Counting(d, del'[d], wk')
      BY <1>1, <2>1, <3>2, <3>6 DEF Counting, Crew
    <3>. QED
      BY <2>1, <3>2, <3>7 DEF NumbersOK
  <2>. QED
    BY <2>2, <2>3
<1>8. CASE Reject(w) \/ Send(w)
  <2>1. /\ wk[w].pc \in {"gate", "send"} /\ wk[w].pc \in Unsettled
        /\ w \in Crew(wk, d, {wk[w].pc}) /\ w \in Crew(wk, d, {"gate", "send", "retry"})
    BY <1>0, <1>8 DEF Reject, Send, AfterFailure, At, Crew, Unsettled, Labels
  <2>2. PICK n \in Nat : RecordAttempt(w, n) \/ UNCHANGED <<del, log>>
    BY <1>8 DEF Reject, Send, AfterFailure
  <2>3. \A v \in Workers : wk[v].pc \in {"gate", "send", "reject"} /\ wk[v].lease.evt = d => v = w
    BY <1>2, <2>1 DEF Unsettled, Labels
  <2>4. Crew(wk, d, {"reject"}) = {}
    BY <2>1, <2>3 DEF Crew
  <2>5. Exists(d) => Counting(d, del[d], wk)
    BY <2>1, <2>4 DEF NumbersOK, Exists
  <2>6. Attempt(w) \notin del[d].recorded /\ Attempt(w) \in Nat
    <3>1. CASE ~Exists(d)
      BY <1>0, <3>1 DEF NumbersOK, Exists, Attempt
    <3>2. CASE Exists(d)
      <4>1. CASE wk[w].pc = "gate"
        BY <1>0, <2>1, <2>5, <3>2, <4>1 DEF Counting, Attempt
      <4>2. CASE wk[w].pc = "send"
        BY <1>0, <2>1, <2>5, <3>2, <4>2 DEF Counting, Attempt
      <4>. QED
        BY <2>1, <4>1, <4>2
    <3>. QED
      BY <3>1, <3>2
  <2>7. ~log'[d].refused
    <3>1. ~Refused(w) /\ Refused(w) \in BOOLEAN
      BY <2>6 DEF NumbersOK, Refused
    <3>2. \/ log' = [log EXCEPT ![d].refused = Refused(w), ![d].sends = @ + n]
          \/ log' = [log EXCEPT ![d].sends = @ + n]
          \/ log' = log
      BY <2>2 DEF RecordAttempt
    <3>. QED
      BY <1>0, <3>1, <3>2 DEF Logs, NumbersOK
  <2>8. /\ del'[d].status = del[d].status /\ del'[d].count = del[d].count
        /\ ~Exists(d) => del'[d].recorded = del[d].recorded
        /\ del'[d].recorded \in {del[d].recorded, del[d].recorded \cup {Attempt(w)}}
    <3>1. del'[d] = del[d] \/ (Exists(d) /\ del'[d] = [del[d] EXCEPT !.recorded = @ \cup {Attempt(w)}])
      BY <1>0, <2>2 DEF RecordAttempt, Update
    <3>. QED
      BY <1>0, <3>1 DEF Rows
  <2>9. CASE Reject(w)
    <3>1. wk'[w].pc = "reject" /\ wk'[w].lease.evt = d
      BY <1>0, <1>g, <2>9 DEF Reject
    <3>2. Crew(wk', d, {"reject"}) # {}
      BY <3>1 DEF Crew
    <3>. QED
      BY <2>7, <2>8, <3>2 DEF NumbersOK, Exists
  <2>10. CASE Send(w)
    <3>1. wk[w].pc = "send" /\ wk'[w].pc \in {"deliver", "dead", "retry"}
      BY <1>g, <2>10 DEF Send, AfterFailure, At
    <3>2. Crew(wk', d, {"gate"}) = {} /\ Crew(wk', d, {"send"}) = {}
      BY <1>1, <2>3, <3>1 DEF Crew
    <3>3. Exists(d) => Attempt(w) = del[d].count
      BY <2>1, <2>5, <3>1 DEF Counting, Attempt
    <3>4. Exists(d) => Counting(d, del'[d], wk')
      BY <1>0, <2>5, <2>8, <3>2, <3>3 DEF Counting
    <3>. QED
      BY <2>7, <2>8, <3>4 DEF NumbersOK, Exists
  <2>. QED
    BY <1>8, <2>9, <2>10
<1>9. CASE Abandon(w)
  <2>1. wk[w].pc = "reject" => log' = [log EXCEPT ![d].doubled = TRUE]
    BY <1>9 DEF Abandon
  <2>2. wk[w].pc # "reject"
    BY <1>0, <2>1 DEF PlainIn, Logs
  <2>3. del' = del /\ wk'[w].pc = "pick" /\ log'[d].refused = log[d].refused
    <3>1. log' = log \/ log' = [log EXCEPT ![d].doubled = TRUE]
      BY <1>9 DEF Abandon
    <3>2. log'[d].refused = log[d].refused
      BY <1>0, <3>1 DEF Logs
    <3>. QED
      BY <1>9, <1>f, <3>2 DEF Abandon
  <2>. QED
    BY <1>k, <2>2, <2>3
<1>10. CASE PublishExhausted(w) \/ PublishDisabled(w)
  <2>1. log' = log /\ wk[w].pc # "reject" /\ wk'[w].pc \notin {"gate", "send", "retry"}
    BY <1>10, <1>g DEF PublishExhausted, PublishDisabled, At
  <2>2. ASSUME NEW o \in Op, del[o].status = "absent" PROVE o # d
    BY <2>2, OpAssumption DEF AbsentRows, NothingYet, Dv
  <2>3. del'[d] = del[d]
    BY <1>0, <1>10, <2>2, OpAssumption DEF PublishExhausted, PublishDisabled, Publish
  <2>. QED
    BY <1>k, <2>1, <2>3
<1>11. CASE IncrSnapshot(w)
  <2>1. CASE wk' = [wk EXCEPT ![w].pc = "increment", ![w].was = ep[EndpointOf(Dv(w))].disabled]
    <3>1. wk'[w].pc = "increment"
      BY <1>0, <2>1 DEF WorkersOK, WorkerStates
    <3>. QED
      BY <1>11, <1>k, <3>1 DEF IncrSnapshot, At
  <2>2. CASE Goto(w, "bury")
    BY <1>11, <1>g, <1>k, <2>2 DEF IncrSnapshot, At
  <2>. QED
    BY <1>11, <2>1, <2>2 DEF IncrSnapshot
<1>12. CASE \/ Defer(w) \/ ResetEndpointFailures(w) \/ ScheduleRetry(w) \/ AckStep(w) \/ IncrUpdate(w)
            \/ Bury(w) \/ PanicBury(w) \/ Panic(w)
  <2>1. del' = del /\ log' = log /\ wk[w].pc # "reject"
    BY <1>12 DEF Defer, ResetEndpointFailures, ScheduleRetry, AckStep, IncrUpdate, Bury, PanicBury, Panic, At
  <2>2. wk'[w].pc \notin {"gate", "send", "retry"}
    BY <1>12, <1>g, <1>f DEF Defer, ResetEndpointFailures, ScheduleRetry, AckStep, IncrUpdate, Bury, PanicBury, Panic
  <2>. QED
    BY <1>k, <2>1, <2>2
<1>. QED
  BY <1>0, <1>3, <1>4, <1>5, <1>6, <1>7, <1>8, <1>9, <1>10, <1>11, <1>12 DEF WorkerStep, Process

LEMMA NumbersPick ==
    ASSUME TypeOK, NEW w \in Workers, WorkerStep(w), wk[w].pc = "pick", NEW d \in Items,
           NumbersOK(d, del[d], wk, log[d])
    PROVE  NumbersOK(d, del'[d], wk', log'[d])
<1>1. del' = del /\ log' = log /\ wk'[w].pc = "load" /\ \A v \in Workers \ {w} : wk'[v] = wk[v]
  BY WorkerMoves DEF Pick
<1>2. \A v \in Crew(wk', d, {"gate", "send", "retry"}) : v \in Crew(wk, d, {"gate", "send", "retry"})
  BY <1>1 DEF Crew
<1>3. \A v \in Crew(wk', d, {"gate"}) : v \in Crew(wk, d, {"gate"}) /\ wk'[v].row = wk[v].row
  BY <1>1 DEF Crew
<1>4. \A v \in Crew(wk', d, {"send"}) : v \in Crew(wk, d, {"send"}) /\ wk'[v].row = wk[v].row
  BY <1>1 DEF Crew
<1>5. \A v \in Crew(wk, d, {"reject"}) : v \in Crew(wk', d, {"reject"})
  BY <1>1 DEF Crew
<1>. QED
  BY <1>1, <1>2, <1>3, <1>4, <1>5, NumbersKeep

LEMMA NumbersOther ==
    ASSUME TypeOK, AbsentRows, OtherStep, NEW d \in Items, d \in PlainIn(log'), d \in PlainIn(log),
           NumbersOK(d, del[d], wk, log[d])
    PROVE  NumbersOK(d, del'[d], wk', log'[d])
<1>0. del \in [Items -> Rows] /\ log \in [Items -> Logs] /\ del[d] \in Rows
  BY TypeParts DEF RowsOK
<1>1. wk' = wk
  BY OtherLeases
<1>2. log'[d].refused = log[d].refused
  <2>1. ASSUME NEW x \in Items, \/ log' = [log EXCEPT ![x].replays = @ + 1]
                                \/ log' = [log EXCEPT ![x].doubled = TRUE]
                                \/ log' = [log EXCEPT ![x].overrun = TRUE, ![x].doubled = TRUE]
        PROVE  log'[d].refused = log[d].refused
    BY <1>0, <2>1 DEF Logs
  <2>. QED
    BY <2>1, OtherLogs
<1>k. ASSUME del'[d].count = del[d].count, del'[d].recorded = del[d].recorded, del'[d].status = del[d].status
      PROVE  NumbersOK(d, del'[d], wk', log'[d])
  BY <1>1, <1>2, <1>k DEF NumbersOK, Counting
<1>3. ASSUME NEW x \in Items, CreateDelivery(x) PROVE NumbersOK(d, del'[d], wk', log'[d])
  <2>1. CASE x # d
    BY <1>0, <1>3, <1>k, <2>1 DEF CreateDelivery
  <2>2. CASE x = d
    <3>1. NothingYet(d, waiting, leased, wk, buried, del[d], log[d])
      BY <1>3, <2>2 DEF CreateDelivery, AbsentRows
    <3>2. del'[d].count = 0 /\ del'[d].recorded = {} /\ del'[d].status = "queued"
      BY <1>0, <1>3, <2>2, <3>1 DEF CreateDelivery, NothingYet, Rows
    <3>3. Crew(wk, d, {"gate"}) = {} /\ Crew(wk, d, {"send"}) = {}
      BY <3>1 DEF NothingYet, Crew
    <3>4. Counting(d, del'[d], wk')
      BY <1>1, <3>2, <3>3 DEF Counting
    <3>. QED
      BY <1>2, <3>2, <3>4 DEF NumbersOK
  <2>. QED
    BY <2>1, <2>2
<1>4. ASSUME NEW x \in Items, Replay(x) PROVE NumbersOK(d, del'[d], wk', log'[d])
  <2>1. x # d
    <3>1. log' = [log EXCEPT ![x].replays = @ + 1]
      BY <1>4 DEF Replay
    <3>2. x = d => log'[d].replays = log[d].replays + 1
      BY <1>0, <3>1 DEF Logs
    <3>. QED
      BY <3>2 DEF PlainIn
  <2>. QED
    BY <1>0, <1>4, <1>k, <2>1 DEF Replay, Update
<1>5. ASSUME NEW x \in Items, Ages(x) \/ ClaimStuck(x) PROVE NumbersOK(d, del'[d], wk', log'[d])
  <2>1. PICK b \in BOOLEAN : del' = [del EXCEPT ![x].stale = b]
    BY <1>5 DEF Ages, ClaimStuck
  <2>2. del'[d].count = del[d].count /\ del'[d].recorded = del[d].recorded /\ del'[d].status = del[d].status
    BY <1>0, <2>1 DEF Rows
  <2>. QED
    BY <1>k, <2>2
<1>6. ASSUME NEW e \in Endpoints, EndpointDeleted(e) PROVE NumbersOK(d, del'[d], wk', log'[d])
  <2>1. del'[d] = del[d] \/ del'[d] = [del[d] EXCEPT !.status = "deleted", !.recorded = {}]
    BY <1>6 DEF EndpointDeleted
  <2>2. CASE del'[d] = [del[d] EXCEPT !.status = "deleted", !.recorded = {}]
    <3>1. del'[d].status = "deleted" /\ del'[d].recorded = {}
      BY <1>0, <2>2 DEF Rows
    <3>. QED
      BY <1>2, <3>1 DEF NumbersOK
  <2>. QED
    BY <1>k, <2>1, <2>2
<1>7. CASE del' = del
  BY <1>k, <1>7
<1>. QED
  BY <1>3, <1>4, <1>5, <1>6, <1>7 DEF OtherStep, OrphanExpires, LeaseOverrun, Recoverer, RequeueDead, EndpointPatched

\* Every attempt of a plain delivery gets a number of its own.
PlainSound ==
    \A d \in Items : /\ log[d].overrun => log[d].doubled
                     /\ d \in PlainIn(log) => /\ OneAlive(d, waiting, wk, leased, lapsed)
                                              /\ NumbersOK(d, del[d], wk, log[d])

LEMMA PlainStep ==
    TypeOK /\ TypeOK' /\ HoldersOK /\ AbsentRows /\ PlainSound /\ [Next]_vars => PlainSound'
<1>. SUFFICES ASSUME TypeOK, TypeOK', HoldersOK, AbsentRows, PlainSound, [Next]_vars, NEW d \in Items
              PROVE  /\ log'[d].overrun => log'[d].doubled
                     /\ d \in PlainIn(log') => /\ OneAlive(d, waiting', wk', leased', lapsed')
                                               /\ NumbersOK(d, del'[d], wk', log'[d])
  BY DEF PlainSound
<1>1. (d \in PlainIn(log') => d \in PlainIn(log)) /\ (log'[d].overrun => log'[d].doubled)
  BY MarksStay DEF PlainSound
<1>2. SUFFICES ASSUME d \in PlainIn(log')
               PROVE  OneAlive(d, waiting', wk', leased', lapsed') /\ NumbersOK(d, del'[d], wk', log'[d])
  BY <1>1
<1>3. /\ d \in PlainIn(log) /\ ~log[d].overrun /\ OneAlive(d, waiting, wk, leased, lapsed)
      /\ NumbersOK(d, del[d], wk, log[d])
  BY <1>1, <1>2 DEF PlainSound, PlainIn
<1>4. OneAlive(d, waiting', wk', leased', lapsed')
  BY <1>2, <1>3, AliveStep
<1>5. ASSUME NEW w \in Workers, WorkerStep(w) PROVE NumbersOK(d, del'[d], wk', log'[d])
  <2>1. CASE wk[w].pc # "pick" /\ Dv(w) = d
    BY <1>2, <1>3, <1>5, <2>1, NumbersOwn
  <2>2. CASE wk[w].pc = "pick"
    BY <1>3, <1>5, <2>2, NumbersPick
  <2>3. CASE wk[w].pc # "pick" /\ Dv(w) # d
    <3>1. wk'[w].pc # "pick" => wk'[w].lease.evt # d
      BY <1>5, <2>3, WorkerMoves DEF Idle, Dv
    <3>. QED
      BY <1>3, <1>5, <2>3, <3>1, NumbersElsewhere
  <2>. QED
    BY <2>1, <2>2, <2>3
<1>6. CASE UNCHANGED vars
  BY <1>3, <1>4, <1>6 DEF vars
<1>. QED
  BY <1>2, <1>3, <1>4, <1>5, <1>6, NextSplit, NumbersOther

-----------------------------------------------------------------------------
(* The budget of a delivery. *)

\* A copy that may still lead to a request: it waits, a worker is on its way with it,
\* or its lease is nobody's or will be given back.
Travelling == {"load", "gate", "send", "retry", "schedule", "panic", "panicDead"}
LooseOf(d, f, ls, lp) == {m \in ls : m.evt = d /\ (m \in lp \/ \A v \in Workers : f[v].lease # m)}
CopiesOf(d, wt, f, ls, lp) == wt[d] + Cardinality(Crew(f, d, Travelling)) + Cardinality(LooseOf(d, f, ls, lp))

\* One copy comes with the row, and one with each disturbance.
CopiesDue(r, u) == IF r.status = "absent" THEN u ELSE u + 1

\* Workers whose next attempt, as they know it, is not the last one.
EarlyAt(d, f, label) == {v \in Crew(f, d, {label}) : f[v].row < MaxRetries}

\* The requests of this life of the row, but for those that the copies pay for.
Paid(d, f, r, u) ==
    IF r.status # "deleted" /\ r.count < MaxRetries THEN r.count
    ELSE MaxRetries + u - Cardinality(EarlyAt(d, f, "gate"))
PaidBefore(h, u) == (MaxRetries + u) * h.replays

\* The reaper may add a copy only if there is none, and then one is due.
Claimable(r) == r.status = "queued" /\ ~r.retryAt
Available(d, wt, f, ls) ==
    \/ wt[d] > 0
    \/ \E m \in ls : m.evt = d /\ \A v \in Workers : f[v].lease = m => f[v].pc \in {"load", "gate"}

\* c copies of e are about, s requests were or will be made of a paid for; the copies
\* that have been used up pay for x more.
Balanced(c, e, s, a, fresh, avail) ==
    \E x \in Nat : /\ c + x <= e /\ s <= a + x
                   /\ fresh => c + x + 1 <= e \/ avail

BudgetKept(d, wt, f, ls, lp, r, h, u) ==
    /\ IsFiniteSet(Crew(f, d, Travelling)) /\ IsFiniteSet(LooseOf(d, f, ls, lp))
    /\ Balanced(CopiesOf(d, wt, f, ls, lp), CopiesDue(r, u),
                h.sends + Cardinality(EarlyAt(d, f, "send")),
                Paid(d, f, r, u) + PaidBefore(h, u), Claimable(r), Available(d, wt, f, ls))

\* Two sets that differ in one element at most.
LEMMA OneApart ==
    ASSUME NEW A, NEW B, NEW w, IsFiniteSet(A), A \ {w} = B \ {w}
    PROVE  /\ IsFiniteSet(B) /\ Cardinality(A) \in Nat /\ Cardinality(B) \in Nat
           /\ w \in A /\ w \notin B => Cardinality(A) = Cardinality(B) + 1
           /\ w \notin A /\ w \in B => Cardinality(B) = Cardinality(A) + 1
           /\ (w \in A <=> w \in B) => A = B
<1>1. (w \in A <=> w \in B) => A = B
  <2>1. ASSUME w \in A, w \in B PROVE A = B
    <3>1. A = (A \ {w}) \cup {w} /\ B = (B \ {w}) \cup {w}
      BY <2>1
    <3>. QED
      BY <3>1
  <2>2. ASSUME w \notin A, w \notin B PROVE A = B
    <3>1. A = A \ {w} /\ B = B \ {w}
      BY <2>2
    <3>. QED
      BY <3>1
  <2>. QED
    BY <2>1, <2>2
<1>2. CASE w \in A /\ w \notin B
  <2>1. B = A \ {w}
    BY <1>2
  <2>2. IsFiniteSet(B) /\ Cardinality(B) = Cardinality(A) - 1
    BY <1>2, <2>1, FS_RemoveElement
  <2>. QED
    BY <1>2, <2>2, FS_CardinalityType
<1>3. CASE w \notin A /\ w \in B
  <2>1. B = A \cup {w}
    BY <1>3
  <2>2. IsFiniteSet(B) /\ Cardinality(B) = Cardinality(A) + 1
    BY <1>3, <2>1, FS_AddElement
  <2>. QED
    BY <1>3, <2>2, FS_CardinalityType
<1>. QED
  BY <1>1, <1>2, <1>3, FS_CardinalityType

\* The books stay in balance when copies and what is due move together.
LEMMA BalanceMoves ==
    ASSUME NEW c \in Int, NEW e \in Int, NEW s \in Int, NEW a \in Int, NEW fr, NEW av,
           NEW c1 \in Int, NEW e1 \in Int, NEW s1 \in Int, NEW a1 \in Int, NEW fr1, NEW av1,
           Balanced(c, e, s, a, fr, av),
           c1 + e <= c + e1, s1 + a <= s + a1,
           fr1 => av1 \/ c1 + 1 + e <= c + e1 \/ (fr /\ (av => av1))
    PROVE  Balanced(c1, e1, s1, a1, fr1, av1)
<1>1. PICK x \in Nat : c + x <= e /\ s <= a + x /\ (fr => c + x + 1 <= e \/ av)
  BY DEF Balanced
<1>2. c1 + x <= e1 /\ s1 <= a1 + x
  BY <1>1
<1>3. fr1 => c1 + x + 1 <= e1 \/ av1
  <2>1. c1 + 1 + e <= c + e1 => c1 + x + 1 <= e1
    BY <1>1
  <2>2. c + x + 1 <= e => c1 + x + 1 <= e1
    BY <1>1
  <2>. QED
    BY <1>1, <2>1, <2>2
<1>. QED
  BY <1>2, <1>3 DEF Balanced

\* A copy is used up by the last request.
LEMMA BalancePays ==
    ASSUME NEW c \in Int, NEW e \in Int, NEW s \in Int, NEW a \in Int, NEW fr, NEW av,
           NEW c1 \in Int, NEW e1 \in Int, NEW s1 \in Int, NEW a1 \in Int, NEW fr1, NEW av1,
           Balanced(c, e, s, a, fr, av),
           c1 + 1 + e <= c + e1, s1 + a <= s + 1 + a1, fr1 => fr /\ (av => av1)
    PROVE  Balanced(c1, e1, s1, a1, fr1, av1)
<1>1. PICK x \in Nat : c + x <= e /\ s <= a + x /\ (fr => c + x + 1 <= e \/ av)
  BY DEF Balanced
<1>2. x + 1 \in Nat /\ c1 + (x + 1) <= e1 /\ s1 <= a1 + (x + 1)
  BY <1>1
<1>3. fr1 => c1 + (x + 1) + 1 <= e1 \/ av1
  BY <1>1
<1>. QED
  BY <1>2, <1>3 DEF Balanced

LEMMA PaidBeforeGrows ==
    ASSUME NEW h, NEW h1, NEW u \in Nat, NEW u1 \in Nat, u1 >= u, h.replays \in Nat, h1.replays \in Nat,
           h1.replays >= h.replays
    PROVE  /\ PaidBefore(h, u) \in Int /\ PaidBefore(h1, u1) \in Int /\ PaidBefore(h, u) <= PaidBefore(h1, u1)
           /\ h1.replays = h.replays + 1 => PaidBefore(h, u) + MaxRetries + u1 <= PaidBefore(h1, u1)
<1>. DEFINE m == MaxRetries + u
            n == MaxRetries + u1
<1>1. m \in Nat /\ n \in Nat /\ m <= n
  BY BoundsAssumption
<1>2. ASSUME NEW i \in Nat, NEW j \in Nat, i <= j PROVE m * i <= n * j /\ m * i \in Nat /\ n * j \in Nat /\ n * (i + 1) >= m * i + n
  <2>1. m * i <= n * i
    BY <1>1
  <2>2. n * i <= n * j
    BY <1>1, <1>2
  <2>3. n * (i + 1) = n * i + n
    BY <1>1
  <2>4. m * i \in Nat /\ n * i \in Nat /\ n * j \in Nat
    BY <1>1, <1>2
  <2>. QED
    BY <1>1, <2>1, <2>2, <2>3, <2>4
<1>. QED
  BY <1>1, <1>2, BoundsAssumption DEF PaidBefore

\* The amounts are numbers, and the early ones are among those on their way.
LEMMA Amounts ==
    ASSUME NEW d \in Items, NEW f \in [Workers -> WorkerStates], NEW wt \in [Items -> Nat], NEW ls, NEW lp,
           NEW r \in Rows, NEW h \in Logs, NEW u \in Nat,
           IsFiniteSet(Crew(f, d, Travelling)), IsFiniteSet(LooseOf(d, f, ls, lp))
    PROVE  /\ CopiesOf(d, wt, f, ls, lp) \in Nat /\ CopiesDue(r, u) \in Nat
           /\ \A label \in {"gate", "send"} :
                 /\ EarlyAt(d, f, label) \subseteq Crew(f, d, Travelling)
                 /\ IsFiniteSet(EarlyAt(d, f, label)) /\ Cardinality(EarlyAt(d, f, label)) \in Nat
                 /\ Cardinality(EarlyAt(d, f, label)) <= Cardinality(Crew(f, d, Travelling))
           /\ h.sends \in Nat /\ h.sends + Cardinality(EarlyAt(d, f, "send")) \in Int
           /\ Paid(d, f, r, u) \in Int /\ PaidBefore(h, u) \in Int /\ Paid(d, f, r, u) + PaidBefore(h, u) \in Int
           /\ r.count \in Nat /\ MaxRetries \in Nat /\ wt[d] \in Nat
           /\ Cardinality(Crew(f, d, Travelling)) \in Nat /\ Cardinality(LooseOf(d, f, ls, lp)) \in Nat
<1>1. /\ Cardinality(Crew(f, d, Travelling)) \in Nat /\ Cardinality(LooseOf(d, f, ls, lp)) \in Nat
      /\ MaxRetries \in Nat /\ wt[d] \in Nat
  BY BoundsAssumption, FS_CardinalityType
<1>2. ASSUME NEW label \in {"gate", "send"}
      PROVE  /\ EarlyAt(d, f, label) \subseteq Crew(f, d, Travelling)
             /\ IsFiniteSet(EarlyAt(d, f, label)) /\ Cardinality(EarlyAt(d, f, label)) \in Nat
             /\ Cardinality(EarlyAt(d, f, label)) <= Cardinality(Crew(f, d, Travelling))
  <2>1. EarlyAt(d, f, label) \subseteq Crew(f, d, Travelling)
    BY DEF EarlyAt, Crew, Travelling
  <2>. QED
    BY <2>1, FS_Subset, FS_CardinalityType
<1>3. r.count \in Nat /\ h.sends \in Nat /\ h.replays \in Nat
  BY DEF Rows, Logs
<1>4. CopiesOf(d, wt, f, ls, lp) \in Nat /\ CopiesDue(r, u) \in Nat
  BY <1>1 DEF CopiesOf, CopiesDue
<1>5. Paid(d, f, r, u) \in Int
  BY <1>1, <1>2, <1>3 DEF Paid
<1>6. PaidBefore(h, u) \in Int
  BY <1>3, PaidBeforeGrows
<1>. QED
  BY <1>1, <1>2, <1>3, <1>4, <1>5, <1>6

\* A row that is there has one worker with an early number more than the disturbances, at most.
LEMMA EarlyFew ==
    ASSUME NEW d \in Items, NEW f \in [Workers -> WorkerStates], NEW wt \in [Items -> Nat], NEW ls, NEW lp,
           NEW r \in Rows, NEW h \in Logs, NEW u \in Nat, BudgetKept(d, wt, f, ls, lp, r, h, u)
    PROVE  Cardinality(EarlyAt(d, f, "gate")) <= u + 1 /\ Cardinality(Crew(f, d, Travelling)) <= u + 1
<1>1. IsFiniteSet(Crew(f, d, Travelling)) /\ IsFiniteSet(LooseOf(d, f, ls, lp))
  BY DEF BudgetKept
<1>2. CopiesOf(d, wt, f, ls, lp) <= CopiesDue(r, u)
  <2>1. CopiesOf(d, wt, f, ls, lp) \in Nat /\ CopiesDue(r, u) \in Nat
    BY <1>1, Amounts
  <2>. QED
    BY <2>1 DEF BudgetKept, Balanced
<1>. QED
  BY <1>1, <1>2, Amounts DEF CopiesOf, CopiesDue

LEMMA BudgetElsewhere ==
    ASSUME TypeOK, TypeOK', AbsentRows, [Next]_vars, NEW w \in Workers, WorkerStep(w), NEW d \in Items,
           wk[w].pc # "pick" => Dv(w) # d, wk'[w].pc # "pick" => wk'[w].lease.evt # d,
           BudgetKept(d, waiting, wk, leased, lapsed, del[d], log[d], used)
    PROVE  BudgetKept(d, waiting', wk', leased', lapsed', del'[d], log'[d], used')
<1>0. /\ WorkersOK /\ WorkersOK' /\ leased \subseteq Leases /\ lapsed \subseteq leased
      /\ leased' \subseteq Leases /\ lapsed' \subseteq Leases
      /\ wk \in [Workers -> WorkerStates] /\ wk' \in [Workers -> WorkerStates]
      /\ waiting \in [Items -> Nat] /\ waiting' \in [Items -> Nat]
      /\ del[d] \in Rows /\ del'[d] \in Rows /\ log[d] \in Logs /\ log'[d] \in Logs
      /\ used \in Nat /\ used' \in Nat /\ used' >= used
  BY TypeParts, UsedGrows DEF TypeOK, LeaseTypeOK, WorkersOK
<1>1. \A v \in Workers \ {w} : wk'[v] = wk[v]
  BY WorkerMoves
<1>2. \A m \in Leases : m.evt = d => (m \in leased' <=> m \in leased) /\ (m \in lapsed' <=> m \in lapsed)
  BY Elsewhere
<1>3. \A m \in Leases : m.evt = d => m # wk[w].lease /\ m # wk'[w].lease
  BY <1>0, NoLeaseAssumption DEF WorkersOK, Dv
<1>4. ASSUME NEW labels, "pick" \notin labels
      PROVE  w \notin Crew(wk, d, labels) /\ Crew(wk', d, labels) = Crew(wk, d, labels)
  BY <1>1, <1>4 DEF Crew, Dv
<1>5. /\ Crew(wk', d, Travelling) = Crew(wk, d, Travelling)
      /\ EarlyAt(d, wk', "gate") = EarlyAt(d, wk, "gate") /\ EarlyAt(d, wk', "send") = EarlyAt(d, wk, "send")
  <2>1. Crew(wk', d, Travelling) = Crew(wk, d, Travelling)
    BY <1>4 DEF Travelling
  <2>2. ASSUME NEW label \in {"gate", "send"} PROVE EarlyAt(d, wk', label) = EarlyAt(d, wk, label)
    <3>1. w \notin Crew(wk, d, {label}) /\ Crew(wk', d, {label}) = Crew(wk, d, {label})
      BY <1>4
    <3>2. \A v \in Crew(wk, d, {label}) : wk'[v] = wk[v]
      BY <1>1, <3>1 DEF Crew
    <3>. QED
      BY <3>1, <3>2 DEF EarlyAt
  <2>. QED
    BY <2>1, <2>2
<1>6. LooseOf(d, wk', leased', lapsed') = LooseOf(d, wk, leased, lapsed)
  <2>1. \A m \in Leases : m.evt = d => ((\A v \in Workers : wk'[v].lease # m) <=> (\A v \in Workers : wk[v].lease # m))
    BY <1>1, <1>3
  <2>. QED
    BY <1>0, <1>2, <2>1 DEF LooseOf
<1>7. Available(d, waiting, wk, leased) /\ waiting'[d] = waiting[d] => Available(d, waiting', wk', leased')
  BY <1>0, <1>1, <1>2, <1>3 DEF Available
<1>8. log'[d] = log[d]
  BY Elsewhere
<1>9. IsFiniteSet(Crew(wk, d, Travelling)) /\ IsFiniteSet(LooseOf(d, wk, leased, lapsed))
  BY DEF BudgetKept
<1>. DEFINE c == CopiesOf(d, waiting, wk, leased, lapsed)
            e == CopiesDue(del[d], used)
            s == log[d].sends + Cardinality(EarlyAt(d, wk, "send"))
            a == Paid(d, wk, del[d], used) + PaidBefore(log[d], used)
            c1 == CopiesOf(d, waiting', wk', leased', lapsed')
            e1 == CopiesDue(del'[d], used')
            s1 == log'[d].sends + Cardinality(EarlyAt(d, wk', "send"))
            a1 == Paid(d, wk', del'[d], used') + PaidBefore(log'[d], used')
            fr == Claimable(del[d])
            av == Available(d, waiting, wk, leased)
            fr1 == Claimable(del'[d])
            av1 == Available(d, waiting', wk', leased')
<1>10. c \in Int /\ e \in Int /\ s \in Int /\ a \in Int /\ Balanced(c, e, s, a, fr, av)
  <2>1. c \in Nat /\ e \in Nat
    BY <1>0, <1>9, Amounts
  <2>2. s \in Int
    BY <1>0, <1>9, Amounts
  <2>3. a \in Int
    BY <1>0, <1>9, Amounts
  <2>. QED
    BY <2>1, <2>2, <2>3 DEF BudgetKept
<1>11. c1 \in Int /\ e1 \in Int /\ s1 \in Int /\ a1 \in Int
  <2>1. IsFiniteSet(Crew(wk', d, Travelling)) /\ IsFiniteSet(LooseOf(d, wk', leased', lapsed'))
    BY <1>5, <1>6, <1>9
  <2>2. c1 \in Nat /\ e1 \in Nat
    BY <1>0, <2>1, Amounts
  <2>3. s1 \in Int
    BY <1>0, <2>1, Amounts
  <2>4. a1 \in Int
    BY <1>0, <2>1, Amounts
  <2>. QED
    BY <2>2, <2>3, <2>4
<1>12. s1 = s
  BY <1>5, <1>8
<1>13. PaidBefore(log[d], used) <= PaidBefore(log'[d], used') /\ PaidBefore(log[d], used) \in Int /\ PaidBefore(log'[d], used') \in Int
  <2>1. log[d].replays \in Nat
    BY <1>0 DEF Logs
  <2>. QED
    BY <1>0, <1>8, <2>1, PaidBeforeGrows
<1>14. del'[d].count = del[d].count /\ (del'[d].status = "deleted" <=> del[d].status = "deleted")
  <2>1. CASE del'[d] = [del[d] EXCEPT !.status = "queued"] /\ del[d].status = "absent"
    BY <1>0, <2>1 DEF Rows
  <2>. QED
    BY <2>1, Elsewhere
<1>15. a <= a1
  <2>1. Paid(d, wk, del[d], used) <= Paid(d, wk', del'[d], used') /\ Paid(d, wk, del[d], used) \in Int /\ Paid(d, wk', del'[d], used') \in Int
    <3>1. Cardinality(EarlyAt(d, wk, "gate")) \in Nat /\ del[d].count \in Nat /\ MaxRetries \in Nat
      BY <1>0, <1>9, Amounts
    <3>. QED
      BY <1>0, <1>5, <1>14, <3>1 DEF Paid
  <2>. QED
    BY <1>13, <2>1
<1>16. CASE del'[d] = del[d] /\ waiting'[d] = waiting[d]
  <2>1. c1 = c
    BY <1>5, <1>6, <1>16 DEF CopiesOf
  <2>2. e1 >= e
    BY <1>0, <1>16 DEF CopiesDue
  <2>3. fr1 => fr /\ (av => av1)
    BY <1>7, <1>16
  <2>. HIDE DEF c, e, s, a, c1, e1, s1, a1, fr, av, fr1, av1
  <2>4. Balanced(c1, e1, s1, a1, fr1, av1)
    BY <1>10, <1>11, <1>12, <1>15, <2>1, <2>2, <2>3, BalanceMoves
  <2>. QED
    BY <1>5, <1>6, <1>9, <2>4 DEF BudgetKept, c1, e1, s1, a1, fr1, av1
<1>17. CASE /\ del[d].status = "absent" /\ del'[d] = [del[d] EXCEPT !.status = "queued"]
            /\ \/ waiting'[d] = waiting[d] + 1
               \/ waiting'[d] = waiting[d] /\ used' = used + 1
  <2>1. del'[d].status = "queued"
    BY <1>0, <1>17 DEF Rows
  <2>2. e = used /\ e1 = used' + 1
    BY <1>17, <2>1 DEF CopiesDue
  <2>3. c1 - waiting'[d] = c - waiting[d]
    BY <1>0, <1>5, <1>6, <1>9, FS_CardinalityType DEF CopiesOf
  <2>4. waiting'[d] = waiting[d] + 1 => av1
    BY <1>0 DEF Available
  <2>. HIDE DEF c, e, s, a, c1, e1, s1, a1, fr, av, fr1, av1
  <2>5. c1 + e <= c + e1 /\ (fr1 => av1 \/ c1 + 1 + e <= c + e1)
    BY <1>0, <1>10, <1>11, <1>17, <2>2, <2>3, <2>4
  <2>6. Balanced(c1, e1, s1, a1, fr1, av1)
    BY <1>10, <1>11, <1>12, <1>15, <2>5, BalanceMoves
  <2>. QED
    BY <1>5, <1>6, <1>9, <2>6 DEF BudgetKept, c1, e1, s1, a1, fr1, av1
<1>. QED
  BY <1>16, <1>17, Elsewhere

\* What a step has to show for a delivery.
LEMMA BudgetMoves ==
    ASSUME TypeOK, TypeOK', NEW d \in Items,
           BudgetKept(d, waiting, wk, leased, lapsed, del[d], log[d], used),
           IsFiniteSet(Crew(wk', d, Travelling)), IsFiniteSet(LooseOf(d, wk', leased', lapsed')),
           CopiesOf(d, waiting', wk', leased', lapsed') + CopiesDue(del[d], used)
             <= CopiesOf(d, waiting, wk, leased, lapsed) + CopiesDue(del'[d], used'),
           (log'[d].sends + Cardinality(EarlyAt(d, wk', "send"))) + (Paid(d, wk, del[d], used) + PaidBefore(log[d], used))
             <= (log[d].sends + Cardinality(EarlyAt(d, wk, "send"))) + (Paid(d, wk', del'[d], used') + PaidBefore(log'[d], used')),
           Claimable(del'[d]) =>
             \/ Available(d, waiting', wk', leased')
             \/ CopiesOf(d, waiting', wk', leased', lapsed') + 1 + CopiesDue(del[d], used)
                  <= CopiesOf(d, waiting, wk, leased, lapsed) + CopiesDue(del'[d], used')
             \/ Claimable(del[d]) /\ (Available(d, waiting, wk, leased) => Available(d, waiting', wk', leased'))
    PROVE  BudgetKept(d, waiting', wk', leased', lapsed', del'[d], log'[d], used')
<1>0. /\ wk \in [Workers -> WorkerStates] /\ wk' \in [Workers -> WorkerStates]
      /\ waiting \in [Items -> Nat] /\ waiting' \in [Items -> Nat]
      /\ del[d] \in Rows /\ del'[d] \in Rows /\ log[d] \in Logs /\ log'[d] \in Logs
      /\ used \in Nat /\ used' \in Nat
  BY BoundsAssumption DEF TypeOK, LeaseTypeOK
<1>1. IsFiniteSet(Crew(wk, d, Travelling)) /\ IsFiniteSet(LooseOf(d, wk, leased, lapsed))
  BY DEF BudgetKept
<1>. DEFINE c == CopiesOf(d, waiting, wk, leased, lapsed)
            e == CopiesDue(del[d], used)
            s == log[d].sends + Cardinality(EarlyAt(d, wk, "send"))
            a == Paid(d, wk, del[d], used) + PaidBefore(log[d], used)
            c1 == CopiesOf(d, waiting', wk', leased', lapsed')
            e1 == CopiesDue(del'[d], used')
            s1 == log'[d].sends + Cardinality(EarlyAt(d, wk', "send"))
            a1 == Paid(d, wk', del'[d], used') + PaidBefore(log'[d], used')
            fr == Claimable(del[d])
            av == Available(d, waiting, wk, leased)
            fr1 == Claimable(del'[d])
            av1 == Available(d, waiting', wk', leased')
<1>2. c \in Nat /\ e \in Nat
  BY <1>0, <1>1, Amounts
<1>3. s \in Int
  BY <1>0, <1>1, Amounts
<1>4. a \in Int
  BY <1>0, <1>1, Amounts
<1>5. c1 \in Nat /\ e1 \in Nat
  BY <1>0, Amounts
<1>6. s1 \in Int
  BY <1>0, Amounts
<1>7. a1 \in Int
  BY <1>0, Amounts
<1>8. Balanced(c, e, s, a, fr, av)
  BY DEF BudgetKept
<1>9. /\ c1 + e <= c + e1 /\ s1 + a <= s + a1
      /\ fr1 => av1 \/ c1 + 1 + e <= c + e1 \/ (fr /\ (av => av1))
  OBVIOUS
<1>. HIDE DEF c, e, s, a, c1, e1, s1, a1, fr, av, fr1, av1
<1>10. Balanced(c1, e1, s1, a1, fr1, av1)
  BY <1>2, <1>3, <1>4, <1>5, <1>6, <1>7, <1>8, <1>9, BalanceMoves
<1>. QED
  BY <1>10 DEF BudgetKept, c1, e1, s1, a1, fr1, av1

\* The sets of the worker's own delivery.
LEMMA OwnSets ==
    ASSUME TypeOK, TypeOK', HoldersOK, NEW w \in Workers, WorkerStep(w), wk[w].pc # "pick",
           NEW d \in Items, d = Dv(w),
           IsFiniteSet(Crew(wk, d, Travelling)), IsFiniteSet(LooseOf(d, wk, leased, lapsed))
    PROVE  /\ IsFiniteSet(Crew(wk', d, Travelling))
           /\ Cardinality(Crew(wk', d, Travelling)) + (IF wk[w].pc \in Travelling THEN 1 ELSE 0)
              = Cardinality(Crew(wk, d, Travelling)) + (IF wk'[w].pc \in Travelling THEN 1 ELSE 0)
           /\ IsFiniteSet(LooseOf(d, wk', leased', lapsed'))
           /\ Cardinality(LooseOf(d, wk', leased', lapsed')) <= Cardinality(LooseOf(d, wk, leased, lapsed)) + 1
           /\ wk'[w].pc # "pick" \/ wk[w].lease \notin leased' =>
                 Cardinality(LooseOf(d, wk', leased', lapsed')) <= Cardinality(LooseOf(d, wk, leased, lapsed))
           /\ \A label \in {"gate", "send"} :
                 Cardinality(EarlyAt(d, wk', label)) + (IF wk[w].pc = label /\ wk[w].row < MaxRetries THEN 1 ELSE 0)
                 = Cardinality(EarlyAt(d, wk, label)) + (IF wk'[w].pc = label /\ wk'[w].row < MaxRetries THEN 1 ELSE 0)
<1>0. /\ WorkersOK /\ wk[w].lease \in Leases /\ wk[w].lease.evt = d /\ lapsed \subseteq leased /\ ~Pick(w)
      /\ wk \in [Workers -> WorkerStates] /\ wk' \in [Workers -> WorkerStates]
  BY TypeParts, HolderType DEF TypeOK, LeaseTypeOK, At, Dv, Pick
<1>1. /\ \A v \in Workers \ {w} : wk'[v] = wk[v]
      /\ wk'[w].lease = wk[w].lease \/ wk'[w] = Idle
  BY WorkerMoves
<1>2. wk'[w].pc # "pick" => wk'[w].lease.evt = d
  BY <1>0, <1>1 DEF Idle
<1>3. /\ IsFiniteSet(Crew(wk', d, Travelling))
      /\ Cardinality(Crew(wk', d, Travelling)) + (IF wk[w].pc \in Travelling THEN 1 ELSE 0)
              = Cardinality(Crew(wk, d, Travelling)) + (IF wk'[w].pc \in Travelling THEN 1 ELSE 0)
  <2>. DEFINE A == Crew(wk, d, Travelling)
              B == Crew(wk', d, Travelling)
  <2>1. A \ {w} = B \ {w}
    BY <1>1 DEF Crew
  <2>2. (w \in A <=> wk[w].pc \in Travelling) /\ (w \in B <=> wk'[w].pc \in Travelling)
    BY <1>0, <1>2 DEF Crew, Travelling
  <2>3. IsFiniteSet(A)
    OBVIOUS
  <2>. HIDE DEF A, B
  <2>4. /\ IsFiniteSet(B) /\ Cardinality(A) \in Nat /\ Cardinality(B) \in Nat
        /\ w \in A /\ w \notin B => Cardinality(A) = Cardinality(B) + 1
        /\ w \notin A /\ w \in B => Cardinality(B) = Cardinality(A) + 1
        /\ (w \in A <=> w \in B) => A = B
    BY <2>1, <2>3, OneApart
  <2>5. Cardinality(B) + (IF wk[w].pc \in Travelling THEN 1 ELSE 0) = Cardinality(A) + (IF wk'[w].pc \in Travelling THEN 1 ELSE 0)
    BY <2>2, <2>4
  <2>. QED
    BY <2>4, <2>5 DEF A, B
<1>4. ASSUME NEW label \in {"gate", "send"}
      PROVE  Cardinality(EarlyAt(d, wk', label)) + (IF wk[w].pc = label /\ wk[w].row < MaxRetries THEN 1 ELSE 0)
                 = Cardinality(EarlyAt(d, wk, label)) + (IF wk'[w].pc = label /\ wk'[w].row < MaxRetries THEN 1 ELSE 0)
  <2>. DEFINE A == EarlyAt(d, wk, label)
              B == EarlyAt(d, wk', label)
  <2>1. A \ {w} = B \ {w}
    BY <1>1 DEF EarlyAt, Crew
  <2>2. /\ w \in A <=> wk[w].pc = label /\ wk[w].row < MaxRetries
        /\ w \in B <=> wk'[w].pc = label /\ wk'[w].row < MaxRetries
    BY <1>0, <1>2 DEF EarlyAt, Crew
  <2>3. IsFiniteSet(A)
    <3>1. A \subseteq Crew(wk, d, Travelling)
      BY DEF EarlyAt, Crew, Travelling
    <3>. QED
      BY <3>1, FS_Subset
  <2>. HIDE DEF A, B
  <2>4. /\ IsFiniteSet(B) /\ Cardinality(A) \in Nat /\ Cardinality(B) \in Nat
        /\ w \in A /\ w \notin B => Cardinality(A) = Cardinality(B) + 1
        /\ w \notin A /\ w \in B => Cardinality(B) = Cardinality(A) + 1
        /\ (w \in A <=> w \in B) => A = B
    BY <2>1, <2>3, OneApart
  <2>5. Cardinality(B) + (IF wk[w].pc = label /\ wk[w].row < MaxRetries THEN 1 ELSE 0)
        = Cardinality(A) + (IF wk'[w].pc = label /\ wk'[w].row < MaxRetries THEN 1 ELSE 0)
    BY <2>2, <2>4
  <2>. QED
    BY <2>5 DEF A, B
<1>5. /\ IsFiniteSet(LooseOf(d, wk', leased', lapsed'))
      /\ Cardinality(LooseOf(d, wk', leased', lapsed')) <= Cardinality(LooseOf(d, wk, leased, lapsed)) + 1
      /\ wk'[w].pc # "pick" \/ wk[w].lease \notin leased' =>
            Cardinality(LooseOf(d, wk', leased', lapsed')) <= Cardinality(LooseOf(d, wk, leased, lapsed))
  <2>. DEFINE A == LooseOf(d, wk, leased, lapsed)
              B == LooseOf(d, wk', leased', lapsed')
              m0 == wk[w].lease
  <2>1. /\ leased' = leased \/ leased' = leased \ {m0}
        /\ lapsed' = lapsed \/ lapsed' = lapsed \ {m0}
    BY <1>0 DEF WorkerStep, Process, Load, MarkDeliveryDisabled, Defer, Reject,
         MarkRejectedDead, MarkDeliveryFiltered, MarkDeliveryInFlight, Send, AfterFailure, MarkDeliveryDelivered,
         MarkDeliveryForRetry, ScheduleRetry, AckStep, MarkDeliveryDead, PublishExhausted,
         PublishDisabled, Bury, PanicBury, PanicDead, Panic, Abandon, ResetEndpointFailures,
         IncrSnapshot, IncrUpdate, leaseVars, Publish, Put, Remove
  <2>2. \A m \in leased : m # m0 => ((\A v \in Workers : wk'[v].lease # m) <=> (\A v \in Workers : wk[v].lease # m))
    <3>1. \A m \in leased : m # NoLease
      BY NoLeaseAssumption DEF TypeOK, LeaseTypeOK
    <3>. QED
      BY <1>1, <3>1 DEF Idle
  <2>3. A \ {m0} = B \ {m0}
    BY <2>1, <2>2 DEF LooseOf
  <2>4. (wk'[w].pc # "pick" \/ m0 \notin leased') /\ m0 \in B => m0 \in A
    <3>1. ASSUME wk'[w].pc # "pick", m0 \in B PROVE m0 \in A
      <4>1. wk'[w].lease = m0
        BY <1>1, <3>1 DEF Idle
      <4>2. m0 \in lapsed'
        BY <3>1, <4>1 DEF LooseOf
      <4>3. m0 \in lapsed /\ m0 \in leased
        BY <1>0, <2>1, <4>2
      <4>. QED
        BY <1>0, <4>3 DEF LooseOf
    <3>2. m0 \in B => m0 \in leased'
      BY DEF LooseOf
    <3>. QED
      BY <3>1, <3>2
  <2>5. IsFiniteSet(A)
    OBVIOUS
  <2>. HIDE DEF A, B, m0
  <2>6. /\ IsFiniteSet(B) /\ Cardinality(A) \in Nat /\ Cardinality(B) \in Nat
        /\ m0 \in A /\ m0 \notin B => Cardinality(A) = Cardinality(B) + 1
        /\ m0 \notin A /\ m0 \in B => Cardinality(B) = Cardinality(A) + 1
        /\ (m0 \in A <=> m0 \in B) => A = B
    BY <2>3, <2>5, OneApart
  <2>7. /\ Cardinality(B) <= Cardinality(A) + 1
        /\ wk'[w].pc # "pick" \/ m0 \notin leased' => Cardinality(B) <= Cardinality(A)
    BY <2>4, <2>6
  <2>. QED
    BY <2>6, <2>7 DEF A, B, m0
<1>. QED
  BY <1>3, <1>4, <1>5

\* A worker that is past the gate takes no copy away that the queue could offer.
LEMMA AvailableStays ==
    ASSUME TypeOK, TypeOK', HoldersOK, NEW w \in Workers, WorkerStep(w), wk[w].pc # "pick", NEW d \in Items,
           waiting'[d] >= waiting[d], wk[w].pc \notin {"load", "gate"} \/ (wk'[w].pc \in {"load", "gate"} /\ leased' = leased),
           Available(d, waiting, wk, leased)
    PROVE  Available(d, waiting', wk', leased')
<1>0. waiting[d] \in Nat /\ waiting'[d] \in Nat /\ leased \subseteq Leases
  BY DEF TypeOK, LeaseTypeOK
<1>1. CASE waiting[d] > 0
  <2>1. waiting'[d] > 0
    BY <1>0, <1>1
  <2>. QED
    BY <2>1 DEF Available
<1>2. ASSUME NEW m \in leased, m.evt = d, \A v \in Workers : wk[v].lease = m => wk[v].pc \in {"load", "gate"}
      PROVE  Available(d, waiting', wk', leased')
  <2>1. /\ \A v \in Workers \ {w} : wk'[v] = wk[v]
        /\ wk'[w].lease = wk[w].lease \/ wk'[w] = Idle
    BY WorkerMoves
  <2>2. m # NoLease
    BY <1>0, NoLeaseAssumption
  <2>3. m \in leased'
    BY <1>2, LeaseFrame
  <2>4. \A v \in Workers : wk'[v].lease = m => wk'[v].pc \in {"load", "gate"}
    BY <1>2, <2>1, <2>2 DEF Idle
  <2>. QED
    BY <1>2, <2>3, <2>4 DEF Available
<1>. QED
  BY <1>1, <1>2 DEF Available

\* The same, for a row that neither comes nor goes, with the copies counted apart.
LEMMA BudgetFrame ==
    ASSUME TypeOK, TypeOK', NEW d \in Items, used' >= used,
           BudgetKept(d, waiting, wk, leased, lapsed, del[d], log[d], used),
           IsFiniteSet(Crew(wk', d, Travelling)), IsFiniteSet(LooseOf(d, wk', leased', lapsed')),
           del'[d].status = "absent" <=> del[d].status = "absent", log'[d].replays >= log[d].replays,
           CopiesOf(d, waiting', wk', leased', lapsed') + used <= CopiesOf(d, waiting, wk, leased, lapsed) + used',
           (log'[d].sends + Cardinality(EarlyAt(d, wk', "send"))) + Paid(d, wk, del[d], used)
             <= (log[d].sends + Cardinality(EarlyAt(d, wk, "send"))) + Paid(d, wk', del'[d], used'),
           Claimable(del'[d]) =>
             \/ Available(d, waiting', wk', leased')
             \/ CopiesOf(d, waiting', wk', leased', lapsed') + 1 + used
                  <= CopiesOf(d, waiting, wk, leased, lapsed) + used'
             \/ Claimable(del[d]) /\ (Available(d, waiting, wk, leased) => Available(d, waiting', wk', leased'))
    PROVE  BudgetKept(d, waiting', wk', leased', lapsed', del'[d], log'[d], used')
<1>0. /\ wk \in [Workers -> WorkerStates] /\ wk' \in [Workers -> WorkerStates]
      /\ waiting \in [Items -> Nat] /\ waiting' \in [Items -> Nat]
      /\ del[d] \in Rows /\ del'[d] \in Rows /\ log[d] \in Logs /\ log'[d] \in Logs
      /\ used \in Nat /\ used' \in Nat
  BY BoundsAssumption DEF TypeOK, LeaseTypeOK
<1>1. IsFiniteSet(Crew(wk, d, Travelling)) /\ IsFiniteSet(LooseOf(d, wk, leased, lapsed))
  BY DEF BudgetKept
<1>. DEFINE c == CopiesOf(d, waiting, wk, leased, lapsed)
            e == CopiesDue(del[d], used)
            s == log[d].sends + Cardinality(EarlyAt(d, wk, "send"))
            p == Paid(d, wk, del[d], used)
            q == PaidBefore(log[d], used)
            c1 == CopiesOf(d, waiting', wk', leased', lapsed')
            e1 == CopiesDue(del'[d], used')
            s1 == log'[d].sends + Cardinality(EarlyAt(d, wk', "send"))
            p1 == Paid(d, wk', del'[d], used')
            q1 == PaidBefore(log'[d], used')
<1>2. c \in Nat /\ e \in Nat
  BY <1>0, <1>1, Amounts
<1>3. s \in Int
  BY <1>0, <1>1, Amounts
<1>4. p \in Int
  BY <1>0, <1>1, Amounts
<1>5. c1 \in Nat /\ e1 \in Nat
  BY <1>0, Amounts
<1>6. s1 \in Int
  BY <1>0, Amounts
<1>7. p1 \in Int
  BY <1>0, Amounts
<1>8. q \in Int /\ q1 \in Int /\ q <= q1
  <2>1. log[d].replays \in Nat /\ log'[d].replays \in Nat
    BY <1>0 DEF Logs
  <2>. QED
    BY <1>0, <2>1, PaidBeforeGrows
<1>9. e1 + used = e + used'
  BY <1>0 DEF CopiesDue
<1>10. c1 + used <= c + used' /\ s1 + p <= s + p1
  OBVIOUS
<1>. HIDE DEF c, e, s, p, q, c1, e1, s1, p1, q1
<1>11. /\ c1 + e <= c + e1 /\ s1 + (p + q) <= s + (p1 + q1)
       /\ c1 + 1 + used <= c + used' => c1 + 1 + e <= c + e1
  <2>1. used \in Nat /\ used' \in Nat
    BY <1>0
  <2>2. ASSUME NEW i \in Nat, NEW j \in Nat, e1 + i = e + j
        PROVE  /\ c1 + i <= c + j => c1 + e <= c + e1
               /\ c1 + 1 + i <= c + j => c1 + 1 + e <= c + e1
    BY <1>2, <1>5, <2>2
  <2>3. s1 + (p + q) <= s + (p1 + q1)
    BY <1>3, <1>4, <1>6, <1>7, <1>8, <1>10
  <2>. QED
    BY <1>9, <1>10, <2>1, <2>2, <2>3
<1>. QED
  BY <1>11, BudgetMoves DEF c, e, s, p, q, c1, e1, s1, p1, q1

\* What is paid does not shrink while the count stands and nobody new waits at the gate.
LEMMA PaidKeeps ==
    ASSUME NEW d \in Items, NEW f, NEW f1, NEW r \in Rows, NEW r1 \in Rows, NEW u \in Nat, NEW u1 \in Nat,
           r1.count = r.count, r1.status = "deleted" <=> r.status = "deleted", u1 >= u,
           Cardinality(EarlyAt(d, f, "gate")) \in Nat, Cardinality(EarlyAt(d, f1, "gate")) \in Nat,
           Cardinality(EarlyAt(d, f1, "gate")) <= Cardinality(EarlyAt(d, f, "gate"))
    PROVE  Paid(d, f, r, u) <= Paid(d, f1, r1, u1)
<1>1. r.count \in Nat /\ MaxRetries \in Nat
  BY BoundsAssumption DEF Rows
<1>. QED
  BY <1>1 DEF Paid

\* What a worker does to the row and the history of its delivery.
LEMMA OwnRow ==
    ASSUME TypeOK, AbsentRows, NEW w \in Workers, WorkerStep(w), wk[w].pc # "pick", NEW d \in Items, d = Dv(w)
    PROVE  /\ del[d].status # "absent" /\ del'[d].status # "absent"
           /\ del'[d].status = "deleted" <=> del[d].status = "deleted"
           /\ Claimable(del'[d]) => Claimable(del[d])
           /\ MarkDeliveryInFlight(w) \/ del'[d].count = del[d].count
           /\ log'[d].replays = log[d].replays
           /\ Send(w) \/ log'[d].sends = log[d].sends
           /\ Send(w) => log'[d].sends \in {log[d].sends, log[d].sends + 1}
<1>0. /\ WorkersOK /\ del \in [Items -> Rows] /\ log \in [Items -> Logs] /\ del[d] \in Rows
  BY TypeParts DEF TypeOK
<1>1. del[d].status # "absent"
  BY DEF AbsentRows, NothingYet, Dv
<1>2. /\ del'[d].status # "absent" /\ (del'[d].status = "deleted" <=> del[d].status = "deleted")
  BY <1>1, RowFrame
<1>3. log'[d].replays = log[d].replays /\ (Send(w) \/ log'[d].sends = log[d].sends)
  <2>1. ASSUME log' # log PROVE log'[d].replays = log[d].replays /\ (Send(w) \/ log'[d].sends = log[d].sends)
    <3>1. log[d].sends \in Nat
      BY <1>0 DEF Logs
    <3>2. \/ log' = [log EXCEPT ![d].refused = Refused(w), ![d].sends = @ + 0]
          \/ log' = [log EXCEPT ![d].sends = @ + 0]
          \/ Send(w) /\ log' = [log EXCEPT ![d].refused = Refused(w), ![d].sends = @ + 1]
          \/ Send(w) /\ log' = [log EXCEPT ![d].sends = @ + 1]
          \/ log' = [log EXCEPT ![d].slipped = TRUE]
          \/ log' = [log EXCEPT ![d].doubled = TRUE]
      BY <2>1, WorkerLogs
    <3>. QED
      BY <1>0, <3>1, <3>2 DEF Logs
  <2>. QED
    BY <2>1
<1>4. Send(w) => log'[d].sends \in {log[d].sends, log[d].sends + 1}
  <2>1. ASSUME Send(w)
        PROVE  \/ log' = [log EXCEPT ![d].refused = Refused(w), ![d].sends = @ + 1]
               \/ log' = [log EXCEPT ![d].sends = @ + 1]
               \/ log' = log
    BY <2>1 DEF Send, AfterFailure, RecordAttempt
  <2>. QED
    BY <1>0, <2>1 DEF Logs
<1>5. CASE del'[d] = del[d]
  BY <1>1, <1>2, <1>3, <1>4, <1>5
<1>6. ASSUME NEW s \in Over, SetStatus(d, s) \/ SetStatusUnchecked(d, s)
      PROVE  /\ Claimable(del'[d]) => Claimable(del[d])
             /\ del'[d].count = del[d].count
  <2>1. del'[d] = del[d] \/ del'[d] = WithStatus(d, s)
    BY <1>0, <1>6 DEF SetStatus, SetStatusUnchecked, Update
  <2>. QED
    BY <1>0, <2>1 DEF WithStatus, Rows, Claimable, Over
<1>7. CASE MarkDeliveryDisabled(w) \/ MarkDeliveryFiltered(w) \/ MarkDeliveryDelivered(w) \/ MarkDeliveryDead(w)
           \/ PanicDead(w) \/ MarkRejectedDead(w)
  <2>1. PICK s \in Over : SetStatus(d, s) \/ SetStatusUnchecked(d, s)
    BY <1>7 DEF MarkDeliveryDisabled, MarkDeliveryFiltered, MarkDeliveryDelivered, MarkDeliveryDead, PanicDead,
         MarkRejectedDead, Over
  <2>. QED
    BY <1>1, <1>2, <1>3, <1>4, <1>6, <2>1
<1>8. CASE MarkDeliveryInFlight(w)
  <2>1. del'[d] = del[d] \/ del'[d] = [WithStatus(d, "in_flight") EXCEPT !.count = @ + 1]
    BY <1>0, <1>8 DEF MarkDeliveryInFlight, Update
  <2>2. Claimable(del'[d]) => Claimable(del[d])
    BY <1>0, <2>1 DEF WithStatus, Rows, Claimable
  <2>. QED
    BY <1>1, <1>2, <1>3, <1>4, <1>8, <2>2
<1>9. CASE MarkDeliveryForRetry(w)
  <2>1. del'[d] = del[d] \/ del'[d] = [WithStatus(d, "queued") EXCEPT !.retryAt = TRUE]
    BY <1>0, <1>9 DEF MarkDeliveryForRetry, Update
  <2>2. (Claimable(del'[d]) => Claimable(del[d])) /\ del'[d].count = del[d].count
    BY <1>0, <2>1 DEF WithStatus, Rows, Claimable
  <2>. QED
    BY <1>1, <1>2, <1>3, <1>4, <2>2
<1>10. CASE Reject(w) \/ Send(w)
  <2>1. del'[d] = del[d] \/ del'[d] = [del[d] EXCEPT !.recorded = @ \cup {Attempt(w)}]
    BY <1>0, <1>10 DEF Reject, Send, AfterFailure, RecordAttempt, Update
  <2>2. (Claimable(del'[d]) => Claimable(del[d])) /\ del'[d].count = del[d].count
    BY <1>0, <2>1 DEF Rows, Claimable
  <2>. QED
    BY <1>1, <1>2, <1>3, <1>4, <2>2
<1>11. CASE PublishExhausted(w) \/ PublishDisabled(w)
  <2>1. ASSUME NEW o \in Op, del[o].status = "absent" PROVE o # d
    BY <1>1, <2>1
  <2>2. del'[d] = del[d]
    BY <1>0, <1>11, <2>1, OpAssumption DEF PublishExhausted, PublishDisabled, Publish
  <2>. QED
    BY <1>5, <2>2
<1>12. CASE del' = del
  BY <1>5, <1>12
<1>. QED
  BY <1>7, <1>8, <1>9, <1>10, <1>11, <1>12 DEF WorkerStep, Process, Pick, Load, Defer, ScheduleRetry, AckStep,
     Bury, PanicBury, Panic, Abandon, ResetEndpointFailures, IncrSnapshot, IncrUpdate, At

\* A worker's last request is paid for by its copy.
LEMMA BudgetPays ==
    ASSUME TypeOK, TypeOK', NEW d \in Items, used' >= used,
           BudgetKept(d, waiting, wk, leased, lapsed, del[d], log[d], used),
           IsFiniteSet(Crew(wk', d, Travelling)), IsFiniteSet(LooseOf(d, wk', leased', lapsed')),
           del'[d].status = "absent" <=> del[d].status = "absent", log'[d].replays >= log[d].replays,
           CopiesOf(d, waiting', wk', leased', lapsed') + 1 + used <= CopiesOf(d, waiting, wk, leased, lapsed) + used',
           log'[d].sends + Cardinality(EarlyAt(d, wk', "send")) <= log[d].sends + Cardinality(EarlyAt(d, wk, "send")) + 1,
           Paid(d, wk, del[d], used) <= Paid(d, wk', del'[d], used'),
           Claimable(del'[d]) => Claimable(del[d]),
           Available(d, waiting, wk, leased) => Available(d, waiting', wk', leased')
    PROVE  BudgetKept(d, waiting', wk', leased', lapsed', del'[d], log'[d], used')
<1>0. /\ wk \in [Workers -> WorkerStates] /\ wk' \in [Workers -> WorkerStates]
      /\ waiting \in [Items -> Nat] /\ waiting' \in [Items -> Nat]
      /\ del[d] \in Rows /\ del'[d] \in Rows /\ log[d] \in Logs /\ log'[d] \in Logs
      /\ used \in Nat /\ used' \in Nat
  BY BoundsAssumption DEF TypeOK, LeaseTypeOK
<1>1. IsFiniteSet(Crew(wk, d, Travelling)) /\ IsFiniteSet(LooseOf(d, wk, leased, lapsed))
  BY DEF BudgetKept
<1>. DEFINE c == CopiesOf(d, waiting, wk, leased, lapsed)
            e == CopiesDue(del[d], used)
            s == log[d].sends + Cardinality(EarlyAt(d, wk, "send"))
            p == Paid(d, wk, del[d], used)
            q == PaidBefore(log[d], used)
            c1 == CopiesOf(d, waiting', wk', leased', lapsed')
            e1 == CopiesDue(del'[d], used')
            s1 == log'[d].sends + Cardinality(EarlyAt(d, wk', "send"))
            p1 == Paid(d, wk', del'[d], used')
            q1 == PaidBefore(log'[d], used')
            fr == Claimable(del[d])
            av == Available(d, waiting, wk, leased)
            fr1 == Claimable(del'[d])
            av1 == Available(d, waiting', wk', leased')
<1>2. c \in Nat /\ e \in Nat
  BY <1>0, <1>1, Amounts
<1>3. s \in Int
  BY <1>0, <1>1, Amounts
<1>4. p \in Int
  BY <1>0, <1>1, Amounts
<1>5. c1 \in Nat /\ e1 \in Nat
  BY <1>0, Amounts
<1>6. s1 \in Int
  BY <1>0, Amounts
<1>7. p1 \in Int
  BY <1>0, Amounts
<1>8. q \in Int /\ q1 \in Int /\ q <= q1
  <2>1. log[d].replays \in Nat /\ log'[d].replays \in Nat
    BY <1>0 DEF Logs
  <2>. QED
    BY <1>0, <2>1, PaidBeforeGrows
<1>9. e1 + used = e + used'
  BY <1>0 DEF CopiesDue
<1>10. c1 + 1 + used <= c + used' /\ s1 <= s + 1 /\ p <= p1
  OBVIOUS
<1>11. (fr1 => fr /\ (av => av1)) /\ Balanced(c, e, s, p + q, fr, av)
  BY DEF BudgetKept
<1>. HIDE DEF c, e, s, p, q, c1, e1, s1, p1, q1, fr, av, fr1, av1
<1>12. ASSUME NEW i \in Nat, NEW j \in Nat, e1 + i = e + j, c1 + 1 + i <= c + j
       PROVE  c1 + 1 + e <= c + e1
  BY <1>2, <1>5, <1>12
<1>13. c1 + 1 + e <= c + e1
  BY <1>0, <1>9, <1>10, <1>12
<1>14. s1 + (p + q) <= s + 1 + (p1 + q1) /\ p + q \in Int /\ p1 + q1 \in Int
  BY <1>3, <1>4, <1>6, <1>7, <1>8, <1>10
<1>15. Balanced(c1, e1, s1, p1 + q1, fr1, av1)
  BY <1>2, <1>3, <1>5, <1>6, <1>11, <1>13, <1>14, BalancePays
<1>. QED
  BY <1>15 DEF BudgetKept, c1, e1, s1, p1, q1, fr1, av1

\* The step of a worker, for its own delivery.
LEMMA BudgetOwn ==
    ASSUME TypeOK, TypeOK', HoldersOK, AbsentRows, [Next]_vars, NEW w \in Workers, WorkerStep(w), wk[w].pc # "pick",
           NEW d \in Items, d = Dv(w),
           BudgetKept(d, waiting, wk, leased, lapsed, del[d], log[d], used)
    PROVE  BudgetKept(d, waiting', wk', leased', lapsed', del'[d], log'[d], used')
<1>0. /\ WorkersOK /\ wk \in [Workers -> WorkerStates] /\ wk' \in [Workers -> WorkerStates]
      /\ waiting \in [Items -> Nat] /\ waiting' \in [Items -> Nat]
      /\ del[d] \in Rows /\ del'[d] \in Rows /\ log[d] \in Logs /\ log'[d] \in Logs
  BY TypeParts DEF TypeOK, LeaseTypeOK
<1>1. used \in Nat /\ used' \in Nat /\ used' >= used /\ MaxRetries \in Nat
  BY UsedGrows, BoundsAssumption
<1>2. IsFiniteSet(Crew(wk, d, Travelling)) /\ IsFiniteSet(LooseOf(d, wk, leased, lapsed))
  BY DEF BudgetKept
<1>. DEFINE c == CopiesOf(d, waiting, wk, leased, lapsed)
            t == Cardinality(Crew(wk, d, Travelling))
            l == Cardinality(LooseOf(d, wk, leased, lapsed))
            g == Cardinality(EarlyAt(d, wk, "gate"))
            n == Cardinality(EarlyAt(d, wk, "send"))
            p == Paid(d, wk, del[d], used)
            c1 == CopiesOf(d, waiting', wk', leased', lapsed')
            t1 == Cardinality(Crew(wk', d, Travelling))
            l1 == Cardinality(LooseOf(d, wk', leased', lapsed'))
            g1 == Cardinality(EarlyAt(d, wk', "gate"))
            n1 == Cardinality(EarlyAt(d, wk', "send"))
            p1 == Paid(d, wk', del'[d], used')
            slack == c1 + 1 + used <= c + used'
            av == Available(d, waiting, wk, leased)
            av1 == Available(d, waiting', wk', leased')
<1>3. /\ IsFiniteSet(Crew(wk', d, Travelling)) /\ IsFiniteSet(LooseOf(d, wk', leased', lapsed'))
      /\ t1 + (IF wk[w].pc \in Travelling THEN 1 ELSE 0) = t + (IF wk'[w].pc \in Travelling THEN 1 ELSE 0)
      /\ l1 <= l + 1
      /\ wk'[w].pc # "pick" \/ wk[w].lease \notin leased' => l1 <= l
  BY <1>2, OwnSets
<1>4. /\ g1 + (IF wk[w].pc = "gate" /\ wk[w].row < MaxRetries THEN 1 ELSE 0)
         = g + (IF wk'[w].pc = "gate" /\ wk'[w].row < MaxRetries THEN 1 ELSE 0)
      /\ n1 + (IF wk[w].pc = "send" /\ wk[w].row < MaxRetries THEN 1 ELSE 0)
         = n + (IF wk'[w].pc = "send" /\ wk'[w].row < MaxRetries THEN 1 ELSE 0)
  BY <1>2, OwnSets
<1>5. t \in Nat /\ l \in Nat /\ g \in Nat /\ n \in Nat
  BY <1>0, <1>1, <1>2, Amounts
<1>6. t1 \in Nat /\ l1 \in Nat /\ g1 \in Nat /\ n1 \in Nat
  BY <1>0, <1>1, <1>3, Amounts
<1>7. p \in Int /\ p1 \in Int
  <2>1. p \in Int
    BY <1>0, <1>1, <1>2, Amounts
  <2>2. p1 \in Int
    BY <1>0, <1>1, <1>3, Amounts
  <2>. QED
    BY <2>1, <2>2
<1>8. waiting[d] \in Nat /\ waiting'[d] \in Nat /\ c = waiting[d] + t + l /\ c1 = waiting'[d] + t1 + l1
  BY <1>0 DEF CopiesOf
<1>9. log[d].sends \in Nat /\ log'[d].sends \in Nat /\ log'[d].replays >= log[d].replays
  <2>1. log[d].sends \in Nat /\ log'[d].sends \in Nat /\ log[d].replays \in Nat
    BY <1>0 DEF Logs
  <2>. QED
    BY <2>1, OwnRow
<1>10. /\ del[d].status # "absent" /\ del'[d].status # "absent"
       /\ del'[d].status = "deleted" <=> del[d].status = "deleted"
       /\ Claimable(del'[d]) => Claimable(del[d])
  BY OwnRow
<1>11. waiting'[d] >= waiting[d] /\ wk[w].pc \notin {"load", "gate"} => (av => av1)
  BY AvailableStays
<1>12. Travelling = {"load", "gate", "send", "retry", "schedule", "panic", "panicDead"}
  BY DEF Travelling
<1>g. ASSUME NEW label, Goto(w, label) PROVE wk'[w].pc = label
  BY <1>0, <1>g DEF Goto, WorkersOK, WorkerStates
<1>f. ASSUME Free(w) PROVE wk'[w].pc = "pick"
  BY <1>0, <1>f DEF Free, WorkersOK, Idle
<1>13. ASSUME c1 + used <= c + used', (log'[d].sends + n1) + p <= (log[d].sends + n) + p1,
              Claimable(del'[d]) => av1 \/ slack \/ (av => av1)
       PROVE  BudgetKept(d, waiting', wk', leased', lapsed', del'[d], log'[d], used')
  BY <1>1, <1>3, <1>9, <1>10, <1>13, BudgetFrame
<1>14. ASSUME ~Send(w), ~MarkDeliveryInFlight(w), wk'[w].pc \notin {"gate", "send"}, c1 + used <= c + used',
              Claimable(del'[d]) => av1 \/ slack \/ (av => av1)
       PROVE  BudgetKept(d, waiting', wk', leased', lapsed', del'[d], log'[d], used')
  <2>1. del'[d].count = del[d].count /\ log'[d].sends = log[d].sends
    BY <1>14, OwnRow
  <2>2. g1 <= g /\ n1 <= n
    BY <1>4, <1>5, <1>6, <1>14
  <2>3. p <= p1
    BY <1>0, <1>1, <1>5, <1>6, <1>10, <2>1, <2>2, PaidKeeps
  <2>4. (log'[d].sends + n1) + p <= (log[d].sends + n) + p1
    <3>. HIDE DEF p, p1, n, n1
    <3>. QED
      BY <1>5, <1>6, <1>7, <1>9, <2>1, <2>2, <2>3
  <2>. QED
    BY <1>13, <1>14, <2>4
<1>15. CASE Defer(w) \/ ScheduleRetry(w)
  <2>1. /\ wk[w].pc \in {"gate", "schedule"} /\ wk'[w].pc = "ack" /\ used' = used /\ Put(d)
    BY <1>15, <1>g DEF Defer, ScheduleRetry, At
  <2>2. waiting'[d] <= waiting[d] + 1 /\ waiting'[d] > 0
    BY <1>0, <2>1 DEF Put
  <2>3. t1 + 1 = t /\ l1 <= l
    BY <1>3, <1>5, <1>6, <1>12, <2>1
  <2>4. c1 + used <= c + used'
    BY <1>1, <1>5, <1>6, <1>8, <2>1, <2>2, <2>3
  <2>5. av1
    BY <2>2 DEF Available
  <2>6. ~Send(w) /\ ~MarkDeliveryInFlight(w)
    <3>1. wk' = [wk EXCEPT ![w].pc = "send"] => wk'[w].pc = "send"
      BY <1>0 DEF WorkerStates
    <3>. QED
      BY <2>1, <3>1 DEF Send, AfterFailure, MarkDeliveryInFlight, At
  <2>. QED
    BY <1>14, <2>1, <2>4, <2>5, <2>6
<1>16. CASE AckStep(w) \/ Bury(w)
  <2>1. /\ wk[w].pc \in {"ack", "bury"} /\ wk'[w].pc = "pick" /\ used' = used
        /\ waiting' = waiting /\ wk[w].lease \notin leased'
    BY <1>16, <1>f DEF AckStep, Bury, At, Remove
  <2>2. t1 = t /\ l1 <= l
    BY <1>3, <1>5, <1>6, <1>12, <2>1
  <2>3. c1 + used <= c + used'
    BY <1>1, <1>5, <1>6, <1>8, <2>1, <2>2
  <2>4. av => av1
    BY <1>8, <1>11, <2>1
  <2>5. ~Send(w) /\ ~MarkDeliveryInFlight(w)
    BY <2>1 DEF Send, AfterFailure, MarkDeliveryInFlight, At
  <2>. QED
    BY <1>14, <2>1, <2>3, <2>4, <2>5
<1>17. CASE Reject(w) \/ MarkDeliveryFiltered(w)
  <2>1. /\ wk[w].pc = "gate" /\ wk'[w].pc \in {"reject", "ack"} /\ waiting' = waiting
    BY <1>17, <1>g DEF Reject, MarkDeliveryFiltered, At, leaseVars
  <2>2. t1 + 1 = t /\ l1 <= l
    BY <1>3, <1>5, <1>6, <1>12, <2>1
  <2>3. c1 + used <= c + used' /\ slack
    BY <1>1, <1>5, <1>6, <1>8, <2>1, <2>2
  <2>4. ~Send(w) /\ ~MarkDeliveryInFlight(w)
    <3>1. wk' = [wk EXCEPT ![w].pc = "send"] => wk'[w].pc = "send"
      BY <1>0 DEF WorkerStates
    <3>. QED
      BY <2>1, <3>1 DEF Send, AfterFailure, MarkDeliveryInFlight, At
  <2>. QED
    BY <1>14, <2>1, <2>3, <2>4
<1>18. CASE Panic(w)
  <2>1. /\ wk[w].pc \in {"gate", "send"} /\ wk'[w].pc = "panic" /\ waiting' = waiting /\ used' = used + 1
    BY <1>18, <1>g DEF Panic, At, leaseVars, Spend
  <2>2. t1 = t /\ l1 <= l
    BY <1>3, <1>5, <1>6, <1>12, <2>1
  <2>3. c1 + used <= c + used' /\ slack
    BY <1>1, <1>5, <1>6, <1>8, <2>1, <2>2
  <2>4. ~Send(w) /\ ~MarkDeliveryInFlight(w)
    <3>1. ~MarkDeliveryInFlight(w)
      BY <1>1, <2>1 DEF MarkDeliveryInFlight
    <3>2. ASSUME Send(w) PROVE FALSE
      BY <1>g, <2>1, <3>2 DEF Send, AfterFailure
    <3>. QED
      BY <3>1, <3>2
  <2>. QED
    BY <1>14, <2>1, <2>3, <2>4
<1>19. CASE PanicDead(w) \/ Abandon(w)
  <2>1. wk'[w].pc = "pick" /\ waiting' = waiting
    BY <1>19, <1>f DEF PanicDead, Abandon, leaseVars
  <2>2. ~Send(w) /\ ~MarkDeliveryInFlight(w)
    <3>1. wk' = [wk EXCEPT ![w].pc = "send"] => wk'[w].pc = "send"
      BY <1>0 DEF WorkerStates
    <3>2. ASSUME Send(w) PROVE FALSE
      BY <1>g, <2>1, <3>2 DEF Send, AfterFailure
    <3>. QED
      BY <2>1, <3>1, <3>2 DEF MarkDeliveryInFlight
  <2>3. CASE PanicDead(w)
    <3>1. wk[w].pc = "panicDead"
      BY <2>3 DEF PanicDead, At
    <3>2. t1 + 1 = t
      BY <1>3, <1>5, <1>6, <1>12, <2>1, <3>1
    <3>3. c1 + used <= c + used'
      BY <1>1, <1>3, <1>5, <1>6, <1>8, <2>1, <3>2
    <3>4. av => av1
      BY <1>8, <1>11, <2>1, <3>1
    <3>. QED
      BY <1>14, <2>1, <2>2, <3>3, <3>4
  <2>4. CASE Abandon(w)
    <3>1. used' = used + 1
      BY <2>4 DEF Abandon, Spend
    <3>2. t1 <= t /\ (wk[w].pc \in Travelling => t1 + 1 = t)
      BY <1>3, <1>5, <1>6, <1>12, <2>1
    <3>3. c1 + used <= c + used' /\ (wk[w].pc \in Travelling => slack)
      BY <1>1, <1>3, <1>5, <1>6, <1>8, <2>1, <3>1, <3>2
    <3>4. wk[w].pc \notin Travelling => (av => av1)
      BY <1>8, <1>11, <1>12, <2>1
    <3>. QED
      BY <1>14, <2>1, <2>2, <3>3, <3>4
  <2>. QED
    BY <1>19, <2>3, <2>4
<1>20. ASSUME ~Send(w), ~MarkDeliveryInFlight(w), wk[w].pc \notin {"load", "gate"}, wk'[w].pc \notin {"gate", "send", "pick"},
              wk'[w].pc \in Travelling => wk[w].pc \in Travelling, waiting'[d] = waiting[d]
       PROVE  BudgetKept(d, waiting', wk', leased', lapsed', del'[d], log'[d], used')
  <2>1. t1 <= t /\ l1 <= l
    BY <1>3, <1>5, <1>6, <1>20
  <2>2. c1 + used <= c + used'
    BY <1>1, <1>5, <1>6, <1>8, <1>20, <2>1
  <2>3. av => av1
    BY <1>8, <1>11, <1>20
  <2>. QED
    BY <1>14, <1>20, <2>2, <2>3
<1>21. CASE PublishExhausted(w) \/ PublishDisabled(w)
  <2>1. /\ wk[w].pc \in {"exhausted", "notify"} /\ wk'[w].pc \in {"snapshot", "bury"}
    BY <1>21, <1>g DEF PublishExhausted, PublishDisabled, At
  <2>2. ASSUME NEW o \in Op, del[o].status = "absent" PROVE o # d
    BY <1>10, <2>2
  <2>3. waiting'[d] = waiting[d]
    BY <1>0, <1>21, <2>2, OpAssumption DEF PublishExhausted, PublishDisabled, Publish, Put, leaseVars
  <2>4. ~Send(w) /\ ~MarkDeliveryInFlight(w)
    BY <2>1 DEF Send, AfterFailure, MarkDeliveryInFlight, At
  <2>. QED
    BY <1>12, <1>20, <2>1, <2>3, <2>4
<1>22. CASE PanicBury(w) \/ MarkDeliveryDisabled(w) \/ MarkRejectedDead(w) \/ MarkDeliveryDelivered(w)
            \/ ResetEndpointFailures(w) \/ MarkDeliveryForRetry(w) \/ MarkDeliveryDead(w) \/ IncrUpdate(w)
  <2>1. /\ wk[w].pc \in {"panic", "disable", "reject", "deliver", "reset", "retry", "dead", "increment"}
        /\ waiting' = waiting
    BY <1>22 DEF PanicBury, MarkDeliveryDisabled, MarkRejectedDead, MarkDeliveryDelivered, ResetEndpointFailures,
       MarkDeliveryForRetry, MarkDeliveryDead, IncrUpdate, At, leaseVars, Remove
  <2>2. /\ wk'[w].pc \in {"panicDead", "ack", "bury", "reset", "schedule", "exhausted", "notify"}
        /\ wk'[w].pc = "panicDead" => wk[w].pc = "panic"
        /\ wk'[w].pc = "schedule" => wk[w].pc = "retry"
    BY <1>22, <1>g DEF PanicBury, MarkDeliveryDisabled, MarkRejectedDead, MarkDeliveryDelivered, ResetEndpointFailures,
       MarkDeliveryForRetry, MarkDeliveryDead, IncrUpdate, At
  <2>3. ~Send(w) /\ ~MarkDeliveryInFlight(w)
    BY <2>1 DEF Send, AfterFailure, MarkDeliveryInFlight, At
  <2>. QED
    BY <1>12, <1>20, <2>1, <2>2, <2>3
<1>23. CASE IncrSnapshot(w)
  <2>1. wk[w].pc = "snapshot" /\ waiting' = waiting
    BY <1>23 DEF IncrSnapshot, At, leaseVars
  <2>2. wk'[w].pc \in {"increment", "bury"}
    <3>1. CASE wk' = [wk EXCEPT ![w].pc = "increment", ![w].was = ep[EndpointOf(Dv(w))].disabled]
      BY <1>0, <3>1 DEF WorkerStates
    <3>2. CASE Goto(w, "bury")
      BY <1>g, <3>2
    <3>. QED
      BY <1>23, <3>1, <3>2 DEF IncrSnapshot
  <2>3. ~Send(w) /\ ~MarkDeliveryInFlight(w)
    BY <2>1 DEF Send, AfterFailure, MarkDeliveryInFlight, At
  <2>. QED
    BY <1>12, <1>20, <2>1, <2>2, <2>3
<1>24. CASE Load(w)
  <2>1. wk[w].pc = "load" /\ waiting' = waiting /\ leased' = leased /\ used' = used /\ del' = del
    BY <1>24 DEF Load, At, leaseVars
  <2>2. ~Send(w) /\ ~MarkDeliveryInFlight(w)
    BY <2>1 DEF Send, AfterFailure, MarkDeliveryInFlight, At
  <2>3. CASE Goto(w, "ack") \/ Goto(w, "disable")
    <3>1. wk'[w].pc \in {"ack", "disable"}
      BY <1>g, <2>3
    <3>2. t1 + 1 = t /\ l1 <= l
      BY <1>3, <1>5, <1>6, <1>12, <2>1, <3>1
    <3>3. c1 + used <= c + used' /\ slack
      BY <1>1, <1>5, <1>6, <1>8, <2>1, <3>2
    <3>. QED
      BY <1>14, <2>2, <3>1, <3>3
  <2>4. CASE wk' = [wk EXCEPT ![w].pc = "gate", ![w].row = del[d].count] /\ Exists(d)
    <3>1. wk'[w].pc = "gate" /\ wk'[w].row = del[d].count
      BY <1>0, <2>4 DEF WorkerStates
    <3>2. t1 = t /\ l1 <= l
      BY <1>3, <1>5, <1>6, <1>12, <2>1, <3>1
    <3>3. c1 + used <= c + used'
      BY <1>1, <1>5, <1>6, <1>8, <2>1, <3>2
    <3>4. av => av1
      BY <1>8, <2>1, <3>1, AvailableStays
    <3>5. p1 = p
      <4>1. del[d].count \in Nat
        BY <1>0 DEF Rows
      <4>2. del[d].count >= MaxRetries => g1 = g
        BY <1>1, <1>4, <1>5, <1>6, <2>1, <3>1, <4>1
      <4>. QED
        BY <1>1, <2>1, <2>4, <4>1, <4>2 DEF Paid, Exists
    <3>6. n1 = n /\ log'[d].sends = log[d].sends
      BY <1>4, <1>5, <1>6, <2>1, <2>2, <3>1, OwnRow
    <3>7. (log'[d].sends + n1) + p <= (log[d].sends + n) + p1
      <4>. HIDE DEF p, p1, n, n1
      <4>. QED
        BY <1>5, <1>7, <1>9, <3>5, <3>6
    <3>. QED
      BY <1>13, <3>3, <3>4, <3>7
  <2>. QED
    BY <1>24, <2>3, <2>4 DEF Load
<1>25. CASE MarkDeliveryInFlight(w)
  <2>1. wk[w].pc = "gate" /\ waiting' = waiting /\ leased' = leased /\ used' = used /\ wk' = [wk EXCEPT ![w].pc = "send"]
    BY <1>25 DEF MarkDeliveryInFlight, At, leaseVars
  <2>2. wk'[w].pc = "send" /\ wk'[w].row = wk[w].row /\ wk[w].row \in Nat
    BY <1>0, <2>1 DEF WorkerStates
  <2>3. t1 = t /\ l1 <= l
    <3>1. wk[w].pc \in Travelling /\ wk'[w].pc \in Travelling /\ wk'[w].pc # "pick"
      BY <1>12, <2>1, <2>2
    <3>. QED
      BY <1>3, <1>5, <1>6, <3>1
  <2>4. c1 + used <= c + used'
    BY <1>1, <1>5, <1>6, <1>8, <2>1, <2>3
  <2>5. ~Send(w) /\ log'[d].sends = log[d].sends
    <3>1. ~Send(w)
      BY <2>1 DEF Send, AfterFailure, At
    <3>. QED
      BY <3>1, OwnRow
  <2>6. n1 - n = g - g1 /\ (n1 = n \/ n1 = n + 1)
    BY <1>1, <1>4, <1>5, <1>6, <2>1, <2>2
  <2>7. g <= used + 1
    BY <1>0, <1>1, EarlyFew
  <2>8. n1 + p <= n + p1 /\ ~Claimable(del'[d])
    <3>1. CASE ~Exists(d)
      <4>1. del'[d] = del[d] /\ del[d].status = "deleted"
        BY <1>0, <1>10, <1>25, <3>1 DEF MarkDeliveryInFlight, Update, Exists, TypeOK
      <4>2. p = MaxRetries + used - g /\ p1 = MaxRetries + used - g1
        BY <2>1, <4>1 DEF Paid
      <4>. QED
        BY <1>1, <1>5, <1>6, <2>6, <4>1, <4>2 DEF Claimable
    <3>2. CASE Exists(d)
      <4>1. del'[d] = [WithStatus(d, "in_flight") EXCEPT !.count = @ + 1]
        BY <1>0, <1>25, <3>2 DEF MarkDeliveryInFlight, Update, TypeOK
      <4>2. del'[d].count = del[d].count + 1 /\ del'[d].status = "in_flight" /\ del[d].count \in Nat
        BY <1>0, <4>1 DEF WithStatus, Rows
      <4>3. /\ p = IF del[d].count < MaxRetries THEN del[d].count ELSE MaxRetries + used - g
            /\ p1 = IF del[d].count + 1 < MaxRetries THEN del[d].count + 1 ELSE MaxRetries + used - g1
        BY <2>1, <3>2, <4>2 DEF Paid, Exists
      <4>. QED
        BY <1>1, <1>5, <1>6, <2>6, <2>7, <4>2, <4>3 DEF Claimable
    <3>. QED
      BY <3>1, <3>2
  <2>9. (log'[d].sends + n1) + p <= (log[d].sends + n) + p1
    <3>. HIDE DEF p, p1, n, n1
    <3>. QED
      BY <1>5, <1>6, <1>7, <1>9, <2>5, <2>8
  <2>. QED
    BY <1>13, <2>4, <2>8, <2>9
<1>26. CASE Send(w)
  <2>1. /\ wk[w].pc = "send" /\ waiting' = waiting /\ leased' = leased
        /\ wk'[w].pc \in {"deliver", "retry", "dead"}
        /\ wk[w].row + 1 > MaxRetries => wk'[w].pc # "retry"
    BY <1>26, <1>g DEF Send, AfterFailure, At, leaseVars, Attempt
  <2>2. wk[w].row \in Nat /\ ~MarkDeliveryInFlight(w)
    BY <1>0, <2>1 DEF WorkerStates, MarkDeliveryInFlight, At
  <2>3. del'[d].count = del[d].count /\ log'[d].sends \in {log[d].sends, log[d].sends + 1}
    BY <1>26, <2>2, OwnRow
  <2>4. t1 <= t /\ l1 <= l /\ (wk'[w].pc # "retry" => t1 + 1 = t)
    BY <1>3, <1>5, <1>6, <1>12, <2>1
  <2>5. g1 <= g
    BY <1>4, <1>5, <1>6, <2>1
  <2>6. p <= p1
    BY <1>0, <1>1, <1>5, <1>6, <1>10, <2>3, <2>5, PaidKeeps
  <2>7. av => av1
    BY <1>8, <1>11, <2>1
  <2>8. CASE wk[w].row < MaxRetries
    <3>1. n1 + 1 = n
      BY <1>4, <1>5, <1>6, <2>1, <2>8
    <3>2. c1 + used <= c + used'
      BY <1>1, <1>5, <1>6, <1>8, <2>1, <2>4
    <3>3. (log'[d].sends + n1) + p <= (log[d].sends + n) + p1
      <4>. HIDE DEF p, p1, n, n1
      <4>. QED
        BY <1>5, <1>6, <1>7, <1>9, <2>3, <2>6, <3>1
    <3>. QED
      BY <1>13, <2>7, <3>2, <3>3
  <2>9. CASE wk[w].row >= MaxRetries
    <3>1. wk'[w].pc # "retry" /\ n1 = n
      BY <1>1, <1>4, <1>5, <1>6, <2>1, <2>2, <2>9
    <3>2. c1 + 1 + used <= c + used'
      BY <1>1, <1>5, <1>6, <1>8, <2>1, <2>4, <3>1
    <3>3. log'[d].sends + n1 <= log[d].sends + n + 1
      <4>. HIDE DEF n, n1
      <4>. QED
        BY <1>5, <1>6, <1>9, <2>3, <3>1
    <3>. QED
      BY <1>1, <1>3, <1>9, <1>10, <2>6, <2>7, <3>2, <3>3, BudgetPays
  <2>. QED
    BY <1>1, <2>2, <2>8, <2>9
<1>. QED
  BY <1>15, <1>16, <1>17, <1>18, <1>19, <1>21, <1>22, <1>23, <1>24, <1>25, <1>26 DEF WorkerStep, Process, Pick, At

\* A worker takes a copy.
LEMMA BudgetPick ==
    ASSUME TypeOK, TypeOK', [Next]_vars, NEW w \in Workers, WorkerStep(w), wk[w].pc = "pick",
           NEW d \in Items, wk'[w].lease.evt = d,
           BudgetKept(d, waiting, wk, leased, lapsed, del[d], log[d], used)
    PROVE  BudgetKept(d, waiting', wk', leased', lapsed', del'[d], log'[d], used')
<1>0. /\ WorkersOK /\ wk \in [Workers -> WorkerStates] /\ wk' \in [Workers -> WorkerStates]
      /\ waiting \in [Items -> Nat] /\ waiting' \in [Items -> Nat]
      /\ leased \subseteq Leases /\ lapsed \subseteq leased
      /\ del[d] \in Rows /\ log[d] \in Logs /\ wk[w].lease = NoLease
  BY TypeParts DEF TypeOK, LeaseTypeOK
<1>1. used \in Nat /\ used' \in Nat /\ used' >= used /\ MaxRetries \in Nat
  BY UsedGrows, BoundsAssumption
<1>2. IsFiniteSet(Crew(wk, d, Travelling)) /\ IsFiniteSet(LooseOf(d, wk, leased, lapsed))
  BY DEF BudgetKept
<1>3. /\ \A v \in Workers \ {w} : wk'[v] = wk[v]
      /\ Pick(w)
      /\ \E tk \in Tokens, x \in Items :
            /\ \A v \in Workers : wk[v].lease # NoLease => wk[v].lease.tok # tk
            /\ Take(tk, x)
            /\ wk'[w].pc = "load" /\ wk'[w].lease = [tok |-> tk, evt |-> x]
  BY WorkerMoves
<1>4. PICK tk \in Tokens, x \in Items :
            /\ \A v \in Workers : wk[v].lease # NoLease => wk[v].lease.tok # tk
            /\ Take(tk, x)
            /\ wk'[w].pc = "load" /\ wk'[w].lease = [tok |-> tk, evt |-> x]
  BY <1>3
<1>. DEFINE m0 == [tok |-> tk, evt |-> d]
<1>5. x = d /\ wk'[w].lease = m0 /\ m0 \in Leases /\ m0.evt = d /\ m0.tok = tk
  BY <1>4 DEF Leases
<1>6. /\ del' = del /\ log' = log /\ used' = used
      /\ waiting'[d] = waiting[d] - 1 /\ waiting[d] > 0
      /\ leased' = leased \cup {m0} /\ lapsed' = lapsed /\ m0 \notin leased
  BY <1>0, <1>3, <1>4, <1>5 DEF Pick, Take
<1>7. \A v \in Workers \ {w} : wk[v].lease # m0
  BY <1>4, <1>5, NoLeaseAssumption
<1>8. LooseOf(d, wk', leased', lapsed') = LooseOf(d, wk, leased, lapsed)
  <2>1. m0 \notin LooseOf(d, wk', leased', lapsed')
    BY <1>0, <1>5, <1>6 DEF LooseOf
  <2>2. \A m \in leased : (\A v \in Workers : wk'[v].lease # m) <=> (\A v \in Workers : wk[v].lease # m)
    BY <1>0, <1>3, <1>5, <1>6, NoLeaseAssumption
  <2>. HIDE DEF m0
  <2>. QED
    BY <1>6, <2>1, <2>2 DEF LooseOf
<1>. DEFINE A == Crew(wk, d, Travelling)
            B == Crew(wk', d, Travelling)
<1>9. IsFiniteSet(B) /\ Cardinality(A) \in Nat /\ Cardinality(B) = Cardinality(A) + 1
  <2>1. A \ {w} = B \ {w}
    BY <1>3 DEF Crew
  <2>2. w \notin A /\ w \in B
    BY <1>4, <1>5 DEF Crew, Travelling
  <2>3. IsFiniteSet(A)
    BY <1>2
  <2>. HIDE DEF A, B
  <2>. QED
    BY <2>1, <2>2, <2>3, OneApart
<1>10. EarlyAt(d, wk', "gate") = EarlyAt(d, wk, "gate") /\ EarlyAt(d, wk', "send") = EarlyAt(d, wk, "send")
  BY <1>3, <1>4 DEF EarlyAt, Crew
<1>. DEFINE c == CopiesOf(d, waiting, wk, leased, lapsed)
            c1 == CopiesOf(d, waiting', wk', leased', lapsed')
            l == Cardinality(LooseOf(d, wk, leased, lapsed))
            s == log[d].sends + Cardinality(EarlyAt(d, wk, "send"))
            p == Paid(d, wk, del[d], used)
<1>11. l \in Nat /\ waiting[d] \in Nat
  BY <1>0, <1>2, FS_CardinalityType
<1>12. c = waiting[d] + Cardinality(A) + l /\ c1 = waiting'[d] + Cardinality(B) + l
  BY <1>8 DEF CopiesOf
<1>13. c1 = c
  <2>. HIDE DEF A, B, c, c1, l
  <2>. QED
    BY <1>6, <1>9, <1>11, <1>12
<1>14. c \in Nat /\ s \in Int /\ p \in Int /\ log[d].replays \in Nat
  <2>1. c \in Nat
    BY <1>0, <1>1, <1>2, Amounts
  <2>2. s \in Int
    BY <1>0, <1>1, <1>2, Amounts
  <2>3. p \in Int
    BY <1>0, <1>1, <1>2, Amounts
  <2>. QED
    BY <1>0, <2>1, <2>2, <2>3 DEF Logs
<1>15. Available(d, waiting', wk', leased')
  <2>1. m0 \in leased' /\ \A v \in Workers : wk'[v].lease = m0 => wk'[v].pc \in {"load", "gate"}
    BY <1>3, <1>4, <1>6, <1>7
  <2>. QED
    BY <1>5, <2>1 DEF Available
<1>16. /\ log'[d].sends + Cardinality(EarlyAt(d, wk', "send")) = s
       /\ Paid(d, wk', del'[d], used') = p
  BY <1>6, <1>10 DEF Paid
<1>17. /\ c1 + used <= c + used'
       /\ (log'[d].sends + Cardinality(EarlyAt(d, wk', "send"))) + p <= s + Paid(d, wk', del'[d], used')
  <2>. HIDE DEF c, c1, s, p
  <2>. QED
    BY <1>1, <1>6, <1>13, <1>14, <1>16
<1>18. IsFiniteSet(Crew(wk', d, Travelling)) /\ IsFiniteSet(LooseOf(d, wk', leased', lapsed'))
  BY <1>2, <1>8, <1>9
<1>19. (del'[d].status = "absent" <=> del[d].status = "absent") /\ log'[d].replays >= log[d].replays
  BY <1>6, <1>14
<1>. QED
  BY <1>1, <1>15, <1>17, <1>18, <1>19, BudgetFrame

\* A step of nobody's worker that leaves the count and the requests alone.
LEMMA BudgetStays ==
    ASSUME TypeOK, TypeOK', NEW d \in Items, used' >= used, wk' = wk,
           BudgetKept(d, waiting, wk, leased, lapsed, del[d], log[d], used),
           IsFiniteSet(LooseOf(d, wk', leased', lapsed')),
           del'[d].status = "absent" <=> del[d].status = "absent",
           del'[d].status = "deleted" <=> del[d].status = "deleted", del'[d].count = del[d].count,
           log'[d].sends = log[d].sends, log'[d].replays = log[d].replays,
           waiting'[d] + Cardinality(LooseOf(d, wk', leased', lapsed')) + used
             <= waiting[d] + Cardinality(LooseOf(d, wk, leased, lapsed)) + used',
           Claimable(del'[d]) =>
             \/ Available(d, waiting', wk', leased')
             \/ waiting'[d] + Cardinality(LooseOf(d, wk', leased', lapsed')) + 1 + used
                  <= waiting[d] + Cardinality(LooseOf(d, wk, leased, lapsed)) + used'
             \/ Claimable(del[d]) /\ (Available(d, waiting, wk, leased) => Available(d, waiting', wk', leased'))
    PROVE  BudgetKept(d, waiting', wk', leased', lapsed', del'[d], log'[d], used')
<1>0. /\ wk \in [Workers -> WorkerStates] /\ waiting \in [Items -> Nat] /\ waiting' \in [Items -> Nat]
      /\ del[d] \in Rows /\ del'[d] \in Rows /\ log[d] \in Logs
      /\ used \in Nat /\ used' \in Nat
  BY BoundsAssumption DEF TypeOK, LeaseTypeOK
<1>1. IsFiniteSet(Crew(wk, d, Travelling)) /\ IsFiniteSet(LooseOf(d, wk, leased, lapsed))
  BY DEF BudgetKept
<1>. DEFINE c == CopiesOf(d, waiting, wk, leased, lapsed)
            c1 == CopiesOf(d, waiting', wk', leased', lapsed')
            t == Cardinality(Crew(wk, d, Travelling))
            l == Cardinality(LooseOf(d, wk, leased, lapsed))
            l1 == Cardinality(LooseOf(d, wk', leased', lapsed'))
            s == log[d].sends + Cardinality(EarlyAt(d, wk, "send"))
            p == Paid(d, wk, del[d], used)
            p1 == Paid(d, wk', del'[d], used')
<1>2. t \in Nat /\ l \in Nat /\ l1 \in Nat /\ waiting[d] \in Nat /\ waiting'[d] \in Nat
  BY <1>0, <1>1, FS_CardinalityType
<1>3. c = waiting[d] + t + l /\ c1 = waiting'[d] + t + l1
  BY DEF CopiesOf
<1>4. s \in Int
  BY <1>0, <1>1, Amounts
<1>5. Cardinality(EarlyAt(d, wk, "gate")) \in Nat
  BY <1>0, <1>1, Amounts
<1>6. p \in Int /\ log[d].replays \in Nat
  <2>1. p \in Int
    BY <1>0, <1>1, Amounts
  <2>. QED
    BY <1>0, <2>1 DEF Logs
<1>7. p1 \in Int
  BY <1>0, <1>1, Amounts
<1>8. p <= p1
  <2>1. Paid(d, wk, del[d], used) <= Paid(d, wk, del'[d], used')
    <3>1. Cardinality(EarlyAt(d, wk, "gate")) <= Cardinality(EarlyAt(d, wk, "gate"))
      BY <1>5
    <3>. QED
      BY <1>0, <1>5, <3>1, PaidKeeps
  <2>. QED
    BY <2>1
<1>9. /\ waiting'[d] + l1 + used <= waiting[d] + l + used' => c1 + used <= c + used'
      /\ waiting'[d] + l1 + 1 + used <= waiting[d] + l + used' => c1 + 1 + used <= c + used'
  <2>. HIDE DEF c, c1, t, l, l1
  <2>. QED
    BY <1>0, <1>2, <1>3
<1>10. (log'[d].sends + Cardinality(EarlyAt(d, wk', "send"))) + p <= s + p1
  <2>1. log'[d].sends + Cardinality(EarlyAt(d, wk', "send")) = s
    OBVIOUS
  <2>. HIDE DEF s, p, p1
  <2>. QED
    BY <1>4, <1>6, <1>7, <1>8, <2>1
<1>11. IsFiniteSet(Crew(wk', d, Travelling)) /\ log'[d].replays >= log[d].replays
  BY <1>1, <1>6
<1>. QED
  BY <1>9, <1>10, <1>11, BudgetFrame

\* The steps that are not a worker's.
LEMMA BudgetOther ==
    ASSUME TypeOK, TypeOK', AbsentRows, [Next]_vars, OtherStep, NEW d \in Items,
           BudgetKept(d, waiting, wk, leased, lapsed, del[d], log[d], used)
    PROVE  BudgetKept(d, waiting', wk', leased', lapsed', del'[d], log'[d], used')
<1>0. /\ del \in [Items -> Rows] /\ log \in [Items -> Logs] /\ waiting \in [Items -> Nat] /\ waiting' \in [Items -> Nat]
      /\ leased \subseteq Leases /\ lapsed \subseteq leased /\ wk \in [Workers -> WorkerStates]
      /\ del[d] \in Rows /\ del'[d] \in Rows /\ log[d] \in Logs /\ log'[d] \in Logs
  BY DEF TypeOK, LeaseTypeOK
<1>1. used \in Nat /\ used' \in Nat /\ used' >= used /\ MaxRetries \in Nat
  BY UsedGrows, BoundsAssumption
<1>2. IsFiniteSet(Crew(wk, d, Travelling)) /\ IsFiniteSet(LooseOf(d, wk, leased, lapsed))
  BY DEF BudgetKept
<1>3. wk' = wk
  BY OtherLeases
<1>. DEFINE A == LooseOf(d, wk, leased, lapsed)
            B == LooseOf(d, wk', leased', lapsed')
            av == Available(d, waiting, wk, leased)
            av1 == Available(d, waiting', wk', leased')
<1>4. Cardinality(A) \in Nat /\ waiting[d] \in Nat /\ waiting'[d] \in Nat
  BY <1>0, <1>2, FS_CardinalityType
<1>5. ASSUME leased' = leased, lapsed' = lapsed PROVE B = A /\ (waiting'[d] >= waiting[d] => (av => av1))
  <2>1. B = A
    BY <1>3, <1>5
  <2>2. ASSUME waiting'[d] >= waiting[d], av PROVE av1
    BY <1>3, <1>4, <1>5, <2>2 DEF Available
  <2>. QED
    BY <2>1, <2>2
\* Nothing happens to the delivery.
<1>6. ASSUME leased' = leased, lapsed' = lapsed, waiting'[d] = waiting[d], del'[d] = del[d],
             log'[d].sends = log[d].sends, log'[d].replays = log[d].replays
      PROVE  BudgetKept(d, waiting', wk', leased', lapsed', del'[d], log'[d], used')
  <2>1. B = A /\ (av => av1)
    BY <1>4, <1>5, <1>6
  <2>2. waiting'[d] + Cardinality(B) + used <= waiting[d] + Cardinality(A) + used'
    <3>. HIDE DEF A, B
    <3>. QED
      BY <1>1, <1>4, <1>6, <2>1
  <2>3. IsFiniteSet(B)
    BY <1>2, <2>1
  <2>. QED
    BY <1>1, <1>3, <1>6, <2>1, <2>2, <2>3, BudgetStays
<1>7. CASE OrphanExpires
  <2>1. PICK m \in leased : ~Held(m) /\ Lapse(m)
    BY <1>7 DEF OrphanExpires
  <2>2. waiting' = waiting /\ leased' = leased /\ lapsed' = lapsed \cup {m} /\ del' = del /\ log' = log
    BY <1>7, <2>1 DEF OrphanExpires, Lapse
  <2>3. B = A
    BY <1>3, <2>1, <2>2 DEF LooseOf, Held
  <2>4. av => av1
    BY <1>3, <2>2 DEF Available
  <2>5. waiting'[d] + Cardinality(B) + used <= waiting[d] + Cardinality(A) + used'
    <3>. HIDE DEF A, B
    <3>. QED
      BY <1>1, <1>4, <2>2, <2>3
  <2>6. IsFiniteSet(B)
    BY <1>2, <2>3
  <2>. QED
    BY <1>1, <1>3, <2>2, <2>4, <2>5, <2>6, BudgetStays
<1>8. CASE LeaseOverrun
  <2>1. PICK m \in leased : Lapse(m) /\ log' = [log EXCEPT ![m.evt].overrun = TRUE, ![m.evt].doubled = TRUE]
    BY <1>8 DEF LeaseOverrun
  <2>2. waiting' = waiting /\ leased' = leased /\ lapsed' = lapsed \cup {m} /\ del' = del /\ used' = used + 1
    BY <1>8, <2>1 DEF LeaseOverrun, Lapse, Spend
  <2>3. log'[d].sends = log[d].sends /\ log'[d].replays = log[d].replays
    BY <1>0, <2>1 DEF Logs
  <2>4. A \ {m} = B \ {m}
    BY <1>3, <2>2 DEF LooseOf
  <2>5. av => av1
    BY <1>3, <2>2 DEF Available
  <2>6. IsFiniteSet(B) /\ Cardinality(B) <= Cardinality(A) + 1 /\ Cardinality(B) \in Nat
    <3>1. IsFiniteSet(A)
      BY <1>2
    <3>. HIDE DEF A, B
    <3>2. /\ IsFiniteSet(B) /\ Cardinality(A) \in Nat /\ Cardinality(B) \in Nat
          /\ m \in A /\ m \notin B => Cardinality(A) = Cardinality(B) + 1
          /\ m \notin A /\ m \in B => Cardinality(B) = Cardinality(A) + 1
          /\ (m \in A <=> m \in B) => A = B
      BY <2>4, <3>1, OneApart
    <3>. QED
      BY <3>2
  <2>7. waiting'[d] + Cardinality(B) + used <= waiting[d] + Cardinality(A) + used'
    <3>. HIDE DEF A, B
    <3>. QED
      BY <1>1, <1>4, <2>2, <2>6
  <2>. QED
    BY <1>1, <1>3, <2>2, <2>3, <2>5, <2>6, <2>7, BudgetStays
<1>9. CASE Recoverer
  <2>. DEFINE back == {m.evt : m \in lapsed}
  <2>1. /\ leased' = leased \ lapsed /\ lapsed' = {} /\ del' = del /\ log' = log /\ used' = used
        /\ \E merged \in SUBSET {i \in back : waiting[i] > 0} :
              waiting' = [i \in Items |-> IF i \in back \ merged THEN waiting[i] + 1 ELSE waiting[i]]
    BY <1>9 DEF Recoverer, Reclaim
  <2>2. PICK merged \in SUBSET {i \in back : waiting[i] > 0} :
              waiting' = [i \in Items |-> IF i \in back \ merged THEN waiting[i] + 1 ELSE waiting[i]]
    BY <2>1
  <2>3. B = A \ lapsed
    BY <1>3, <2>1 DEF LooseOf
  <2>4. CASE d \in back
    <3>1. PICK m \in lapsed : m.evt = d
      BY <2>4
    <3>2. m \in A /\ m \notin B
      BY <1>0, <2>3, <3>1 DEF LooseOf
    <3>3. IsFiniteSet(B) /\ Cardinality(B) \in Nat /\ Cardinality(B) + 1 <= Cardinality(A)
      <4>1. B \subseteq A \ {m} /\ IsFiniteSet(A)
        BY <1>2, <2>3, <3>1
      <4>. HIDE DEF A, B
      <4>2. IsFiniteSet(A \ {m}) /\ Cardinality(A \ {m}) = Cardinality(A) - 1
        BY <3>2, <4>1, FS_RemoveElement
      <4>3. IsFiniteSet(B) /\ Cardinality(B) <= Cardinality(A \ {m})
        BY <4>1, <4>2, FS_Subset
      <4>. QED
        BY <1>4, <4>2, <4>3, FS_CardinalityType
    <3>4. waiting'[d] <= waiting[d] + 1 /\ waiting'[d] > 0
      <4>1. waiting'[d] = waiting[d] + 1 \/ (waiting'[d] = waiting[d] /\ waiting[d] > 0)
        BY <2>2, <2>4
      <4>. QED
        BY <1>4, <4>1
    <3>5. av1
      BY <3>4 DEF Available
    <3>6. waiting'[d] + Cardinality(B) + used <= waiting[d] + Cardinality(A) + used'
      <4>. HIDE DEF A, B
      <4>. QED
        BY <1>1, <1>4, <2>1, <3>3, <3>4
    <3>. QED
      BY <1>1, <1>3, <2>1, <3>3, <3>5, <3>6, BudgetStays
  <2>5. CASE d \notin back
    <3>1. waiting'[d] = waiting[d]
      BY <2>2, <2>5
    <3>2. \A m \in lapsed : m.evt # d
      BY <2>5
    <3>3. B = A
      BY <2>3, <3>2 DEF LooseOf
    <3>4. av => av1
      BY <1>3, <2>1, <3>1, <3>2 DEF Available
    <3>5. IsFiniteSet(B)
      BY <1>2, <3>3
    <3>6. waiting'[d] + Cardinality(B) + used <= waiting[d] + Cardinality(A) + used'
      <4>. HIDE DEF A, B
      <4>. QED
        BY <1>1, <1>4, <3>1, <3>3
    <3>. QED
      BY <1>1, <1>3, <2>1, <3>4, <3>5, <3>6, BudgetStays
  <2>. QED
    BY <2>4, <2>5
\* A copy is added, or the step is a disturbance.
<1>10. ASSUME leased' = leased, lapsed' = lapsed, del'[d].status = "absent" <=> del[d].status = "absent",
              del'[d].status = "deleted" <=> del[d].status = "deleted", del'[d].count = del[d].count,
              log'[d].sends = log[d].sends, log'[d].replays = log[d].replays, used' = used + 1,
              waiting'[d] = waiting[d] \/ (waiting'[d] <= waiting[d] + 1 /\ waiting'[d] > 0)
       PROVE  BudgetKept(d, waiting', wk', leased', lapsed', del'[d], log'[d], used')
  <2>1. B = A
    BY <1>5, <1>10
  <2>2. /\ waiting'[d] + Cardinality(B) + used <= waiting[d] + Cardinality(A) + used'
        /\ waiting'[d] = waiting[d] => waiting'[d] + Cardinality(B) + 1 + used <= waiting[d] + Cardinality(A) + used'
    <3>. HIDE DEF A, B
    <3>. QED
      BY <1>1, <1>4, <1>10, <2>1
  <2>3. waiting'[d] > 0 => av1
    BY DEF Available
  <2>4. IsFiniteSet(B)
    BY <1>2, <2>1
  <2>. QED
    BY <1>1, <1>3, <1>10, <2>2, <2>3, <2>4, BudgetStays
<1>p. ASSUME Put(d) PROVE waiting'[d] <= waiting[d] + 1 /\ waiting'[d] > 0 /\ leased' = leased /\ lapsed' = lapsed
  BY <1>0, <1>4, <1>p DEF Put
<1>11. ASSUME NEW e \in Endpoints, EndpointPatched(e)
       PROVE  BudgetKept(d, waiting', wk', leased', lapsed', del'[d], log'[d], used')
  BY <1>6, <1>11 DEF EndpointPatched, leaseVars
<1>12. ASSUME NEW x \in Items, RequeueDead(x)
       PROVE  BudgetKept(d, waiting', wk', leased', lapsed', del'[d], log'[d], used')
  <2>1. del' = del /\ used' = used + 1 /\ Put(x) /\ log' = [log EXCEPT ![x].doubled = TRUE]
    BY <1>12 DEF RequeueDead, Spend
  <2>2. log'[d].sends = log[d].sends /\ log'[d].replays = log[d].replays
    BY <1>0, <2>1 DEF Logs
  <2>3. leased' = leased /\ lapsed' = lapsed /\ (x # d => waiting'[d] = waiting[d])
    BY <1>0, <2>1 DEF Put
  <2>. QED
    BY <1>10, <1>p, <2>1, <2>2, <2>3
<1>13. ASSUME NEW x \in Items, Ages(x)
       PROVE  BudgetKept(d, waiting', wk', leased', lapsed', del'[d], log'[d], used')
  <2>1. del' = [del EXCEPT ![x].stale = TRUE] /\ waiting' = waiting /\ leased' = leased /\ lapsed' = lapsed
        /\ log' = log /\ used' = used
    BY <1>13 DEF Ages, leaseVars
  <2>2. del'[d].status = del[d].status /\ del'[d].count = del[d].count /\ del'[d].retryAt = del[d].retryAt
    BY <1>0, <2>1 DEF Rows
  <2>3. B = A /\ (av => av1)
    BY <1>4, <1>5, <2>1
  <2>4. waiting'[d] + Cardinality(B) + used <= waiting[d] + Cardinality(A) + used'
    <3>. HIDE DEF A, B
    <3>. QED
      BY <1>1, <1>4, <2>1, <2>3
  <2>5. IsFiniteSet(B) /\ (Claimable(del'[d]) => Claimable(del[d]))
    BY <1>2, <2>2, <2>3 DEF Claimable
  <2>. QED
    BY <1>1, <1>3, <2>1, <2>2, <2>3, <2>4, <2>5, BudgetStays

<1>14. ASSUME NEW x \in Items, CreateDelivery(x)
       PROVE  BudgetKept(d, waiting', wk', leased', lapsed', del'[d], log'[d], used')
  <2>1. /\ del[x].status = "absent" /\ del' = [del EXCEPT ![x].status = "queued"] /\ log' = log
        /\ \/ Put(x) /\ used' = used
           \/ used' = used + 1 /\ waiting' = waiting /\ leased' = leased /\ lapsed' = lapsed
    BY <1>14 DEF CreateDelivery, Spend, leaseVars
  <2>2. leased' = leased /\ lapsed' = lapsed /\ (x # d => waiting'[d] = waiting[d] /\ del'[d] = del[d])
    BY <1>0, <2>1 DEF Put
  <2>3. CASE x = d
    <3>1. del'[d].status = "queued" /\ del'[d].count = del[d].count
      BY <1>0, <2>1, <2>3 DEF Rows
    <3>. DEFINE c == CopiesOf(d, waiting, wk, leased, lapsed)
                e == CopiesDue(del[d], used)
                s == log[d].sends + Cardinality(EarlyAt(d, wk, "send"))
                p == Paid(d, wk, del[d], used)
                q == PaidBefore(log[d], used)
                c1 == CopiesOf(d, waiting', wk', leased', lapsed')
                e1 == CopiesDue(del'[d], used')
                s1 == log'[d].sends + Cardinality(EarlyAt(d, wk', "send"))
                p1 == Paid(d, wk', del'[d], used')
                q1 == PaidBefore(log'[d], used')
    <3>2. e = used /\ e1 = used' + 1
      BY <2>1, <2>3, <3>1 DEF CopiesDue
    <3>3. B = A
      BY <1>5, <2>2
    <3>4. Cardinality(Crew(wk, d, Travelling)) \in Nat
      BY <1>2, FS_CardinalityType
    <3>5. c1 - waiting'[d] = c - waiting[d] /\ c \in Nat /\ c1 \in Nat
      <4>1. c = waiting[d] + Cardinality(Crew(wk, d, Travelling)) + Cardinality(A)
        BY DEF CopiesOf
      <4>2. c1 = waiting'[d] + Cardinality(Crew(wk, d, Travelling)) + Cardinality(A)
        BY <1>3, <3>3 DEF CopiesOf
      <4>. HIDE DEF c, c1, A
      <4>. QED
        BY <1>4, <3>4, <4>1, <4>2
    <3>6. \/ waiting'[d] <= waiting[d] + 1 /\ waiting'[d] > 0 /\ used' = used
          \/ waiting'[d] = waiting[d] /\ used' = used + 1
      BY <1>p, <2>1, <2>3
    <3>7. waiting'[d] > 0 => av1
      BY DEF Available
    <3>8. c1 + e <= c + e1 /\ (av1 \/ c1 + 1 + e <= c + e1)
      <4>. HIDE DEF c, c1, e, e1, av1
      <4>. QED
        BY <1>1, <1>4, <3>2, <3>5, <3>6, <3>7
    <3>9. s1 = s /\ s \in Int
      <4>1. s \in Int
        BY <1>0, <1>1, <1>2, Amounts
      <4>. QED
        BY <1>3, <2>1, <4>1
    <3>10. p <= p1 /\ p \in Int /\ p1 \in Int
      <4>1. Cardinality(EarlyAt(d, wk, "gate")) \in Nat /\ del[d].count \in Nat
        BY <1>0, <1>1, <1>2, Amounts
      <4>. QED
        BY <1>1, <1>3, <2>1, <2>3, <3>1, <4>1 DEF Paid
    <3>11. q <= q1 /\ q \in Int /\ q1 \in Int
      <4>1. log[d].replays \in Nat /\ log'[d].replays \in Nat /\ log'[d].replays >= log[d].replays
        BY <1>0, <2>1 DEF Logs
      <4>. QED
        BY <1>1, <4>1, PaidBeforeGrows
    <3>12. s1 + (p + q) <= s + (p1 + q1)
      <4>. HIDE DEF s, s1, p, p1, q, q1
      <4>. QED
        BY <3>9, <3>10, <3>11
    <3>13. IsFiniteSet(Crew(wk', d, Travelling)) /\ IsFiniteSet(B)
      BY <1>2, <1>3, <3>3
    <3>. QED
      BY <3>8, <3>12, <3>13, BudgetMoves
  <2>. QED
    BY <1>6, <2>1, <2>2, <2>3
<1>15. ASSUME NEW x \in Items, Replay(x)
       PROVE  BudgetKept(d, waiting', wk', leased', lapsed', del'[d], log'[d], used')
  <2>1. /\ Exists(x) /\ del' = [del EXCEPT ![x] = [WithStatus(x, "queued") EXCEPT !.count = 0, !.retryAt = FALSE]]
        /\ log' = [log EXCEPT ![x].replays = @ + 1] /\ used' = used + 1
        /\ Put(x) \/ (waiting' = waiting /\ leased' = leased /\ lapsed' = lapsed)
    BY <1>15 DEF Replay, Update, Spend, leaseVars
  <2>2. /\ leased' = leased /\ lapsed' = lapsed
        /\ x # d => waiting'[d] = waiting[d] /\ del'[d] = del[d] /\ log'[d] = log[d]
    BY <1>0, <2>1 DEF Put
  <2>3. CASE x = d
    <3>1. /\ del'[d].status = "queued" /\ del'[d].count = 0 /\ del[d].status \notin {"absent", "deleted"}
          /\ del[d].count \in Nat
      BY <1>0, <2>1, <2>3 DEF Rows, WithStatus, Exists
    <3>2. /\ log'[d].replays = log[d].replays + 1 /\ log[d].replays \in Nat /\ log'[d].replays \in Nat
          /\ log'[d].sends = log[d].sends
      BY <1>0, <2>1, <2>3 DEF Logs
    <3>. DEFINE c == CopiesOf(d, waiting, wk, leased, lapsed)
                e == CopiesDue(del[d], used)
                s == log[d].sends + Cardinality(EarlyAt(d, wk, "send"))
                p == Paid(d, wk, del[d], used)
                q == PaidBefore(log[d], used)
                g == Cardinality(EarlyAt(d, wk, "gate"))
                c1 == CopiesOf(d, waiting', wk', leased', lapsed')
                e1 == CopiesDue(del'[d], used')
                s1 == log'[d].sends + Cardinality(EarlyAt(d, wk', "send"))
                p1 == Paid(d, wk', del'[d], used')
                q1 == PaidBefore(log'[d], used')
    <3>3. e = used + 1 /\ e1 = used + 2
      BY <1>1, <2>1, <3>1 DEF CopiesDue
    <3>4. B = A
      BY <1>5, <2>2
    <3>5. Cardinality(Crew(wk, d, Travelling)) \in Nat
      BY <1>2, FS_CardinalityType
    <3>6. c1 - waiting'[d] = c - waiting[d] /\ c \in Nat /\ c1 \in Nat
      <4>1. c = waiting[d] + Cardinality(Crew(wk, d, Travelling)) + Cardinality(A)
        BY DEF CopiesOf
      <4>2. c1 = waiting'[d] + Cardinality(Crew(wk, d, Travelling)) + Cardinality(A)
        BY <1>3, <3>4 DEF CopiesOf
      <4>. HIDE DEF c, c1, A
      <4>. QED
        BY <1>4, <3>5, <4>1, <4>2
    <3>7. \/ waiting'[d] <= waiting[d] + 1 /\ waiting'[d] > 0
          \/ waiting'[d] = waiting[d]
      BY <1>p, <2>1, <2>3
    <3>8. waiting'[d] > 0 => av1
      BY DEF Available
    <3>9. c1 + e <= c + e1 /\ (av1 \/ c1 + 1 + e <= c + e1)
      <4>. HIDE DEF c, c1, e, e1, av1
      <4>. QED
        BY <1>1, <1>4, <3>3, <3>6, <3>7, <3>8
    <3>10. s1 = s /\ s \in Int
      <4>1. s \in Int
        BY <1>0, <1>1, <1>2, Amounts
      <4>. QED
        BY <1>3, <3>2, <4>1
    <3>11. g \in Nat /\ g <= used + 1
      <4>1. g \in Nat
        BY <1>0, <1>1, <1>2, Amounts
      <4>2. g <= used + 1
        BY <1>0, <1>1, EarlyFew
      <4>. QED
        BY <4>1, <4>2
    <3>12. p \in Int /\ p1 \in Int /\ p <= MaxRetries + used /\ p1 >= 0
      <4>1. p = IF del[d].count < MaxRetries THEN del[d].count ELSE MaxRetries + used - g
        BY <3>1 DEF Paid
      <4>2. p1 = IF 0 < MaxRetries THEN 0 ELSE MaxRetries + used' - g
        BY <1>3, <3>1 DEF Paid
      <4>. HIDE DEF p, p1, g
      <4>. QED
        BY <1>1, <2>1, <3>1, <3>11, <4>1, <4>2
    <3>13. q + MaxRetries + used' <= q1 /\ q \in Int /\ q1 \in Int
      <4>1. log'[d].replays >= log[d].replays
        BY <3>2
      <4>. QED
        BY <1>1, <3>2, <4>1, PaidBeforeGrows
    <3>14. s1 + (p + q) <= s + (p1 + q1)
      <4>. HIDE DEF s, s1, p, p1, q, q1
      <4>. QED
        BY <1>1, <2>1, <3>10, <3>12, <3>13
    <3>15. IsFiniteSet(Crew(wk', d, Travelling)) /\ IsFiniteSet(B)
      BY <1>2, <1>3, <3>4
    <3>. QED
      BY <3>9, <3>14, <3>15, BudgetMoves
  <2>. QED
    BY <1>6, <2>2, <2>3
<1>16. ASSUME NEW x \in Items, ClaimStuck(x)
       PROVE  BudgetKept(d, waiting', wk', leased', lapsed', del'[d], log'[d], used')
  <2>1. /\ del[x].status = "queued" /\ ~del[x].retryAt /\ del' = [del EXCEPT ![x].stale = FALSE]
        /\ \/ ~Queued(x) /\ Put(x) /\ log' = log /\ used' = used
           \/ Put(x) /\ used' = used + 1 /\ log' = [log EXCEPT ![x].doubled = TRUE]
           \/ used' = used + 1 /\ waiting' = waiting /\ leased' = leased /\ lapsed' = lapsed /\ log' = log
    BY <1>16 DEF ClaimStuck, Spend, leaseVars
  <2>2. /\ leased' = leased /\ lapsed' = lapsed
        /\ x # d => waiting'[d] = waiting[d] /\ del'[d] = del[d] /\ log'[d] = log[d]
    BY <1>0, <2>1 DEF Put
  <2>3. /\ del'[d].status = del[d].status /\ del'[d].count = del[d].count /\ del'[d].retryAt = del[d].retryAt
        /\ log'[d].sends = log[d].sends /\ log'[d].replays = log[d].replays
    BY <1>0, <2>1 DEF Rows, Logs
  <2>4. CASE x = d /\ ~Queued(x) /\ Put(x) /\ log' = log /\ used' = used
    <3>1. ~av /\ Claimable(del[d])
      BY <1>0, <2>1, <2>4 DEF Available, Queued, Claimable
    <3>2. av1 /\ waiting'[d] <= waiting[d] + 1
      BY <1>p, <2>4 DEF Available
    <3>3. B = A
      BY <1>5, <2>2
    <3>. DEFINE c == CopiesOf(d, waiting, wk, leased, lapsed)
                e == CopiesDue(del[d], used)
                s == log[d].sends + Cardinality(EarlyAt(d, wk, "send"))
                a == Paid(d, wk, del[d], used) + PaidBefore(log[d], used)
                fr == Claimable(del[d])
                fr1 == Claimable(del'[d])
                c1 == CopiesOf(d, waiting', wk', leased', lapsed')
    <3>4. c \in Nat /\ c1 \in Nat /\ c1 <= c + 1
      <4>1. c = waiting[d] + Cardinality(Crew(wk, d, Travelling)) + Cardinality(A)
        BY DEF CopiesOf
      <4>2. c1 = waiting'[d] + Cardinality(Crew(wk, d, Travelling)) + Cardinality(A)
        BY <1>3, <3>3 DEF CopiesOf
      <4>3. Cardinality(Crew(wk, d, Travelling)) \in Nat
        BY <1>2, FS_CardinalityType
      <4>. HIDE DEF c, c1, A
      <4>. QED
        BY <1>4, <3>2, <4>1, <4>2, <4>3
    <3>5. e \in Nat
      BY <1>0, <1>1, <1>2, Amounts
    <3>6. s \in Int
      BY <1>0, <1>1, <1>2, Amounts
    <3>7. a \in Int
      BY <1>0, <1>1, <1>2, Amounts
    <3>8. Balanced(c, e, s, a, fr, av)
      BY DEF BudgetKept
    <3>9. /\ CopiesDue(del'[d], used') = e /\ log'[d].sends + Cardinality(EarlyAt(d, wk', "send")) = s
          /\ Paid(d, wk', del'[d], used') + PaidBefore(log'[d], used') = a
      BY <1>3, <2>3, <2>4 DEF CopiesDue, Paid, PaidBefore
    <3>10. IsFiniteSet(Crew(wk', d, Travelling)) /\ IsFiniteSet(B)
      BY <1>2, <1>3, <3>3
    <3>. HIDE DEF c, e, s, a, fr, av, c1, av1, fr1
    <3>11. Balanced(c1, e, s, a, fr1, av1)
      <4>1. fr /\ ~av /\ av1
        BY <3>1, <3>2 DEF fr
      <4>2. PICK y \in Nat : c + y <= e /\ s <= a + y /\ (fr => c + y + 1 <= e \/ av)
        BY <3>8 DEF Balanced
      <4>3. c1 + y <= e
        BY <3>4, <3>5, <4>1, <4>2
      <4>. QED
        BY <4>1, <4>2, <4>3 DEF Balanced
    <3>. QED
      BY <3>9, <3>10, <3>11 DEF BudgetKept, c1, fr1, av1
  <2>5. CASE x = d /\ used' = used + 1
    BY <1>10, <1>p, <2>1, <2>2, <2>3, <2>5
  <2>6. CASE x # d
    BY <1>6, <2>2, <2>6
  <2>. QED
    BY <2>1, <2>4, <2>5, <2>6
<1>17. ASSUME NEW x \in Endpoints, EndpointDeleted(x)
       PROVE  BudgetKept(d, waiting', wk', leased', lapsed', del'[d], log'[d], used')
  <2>1. /\ used' = used + 1 /\ waiting' = waiting /\ leased' = leased /\ lapsed' = lapsed /\ log' = log
        /\ del'[d] = IF EndpointOf(d) = x /\ Exists(d)
                     THEN [del[d] EXCEPT !.status = "deleted", !.recorded = {}] ELSE del[d]
    BY <1>17 DEF EndpointDeleted, Spend, leaseVars
  <2>2. CASE EndpointOf(d) = x /\ Exists(d)
    <3>1. /\ del'[d].status = "deleted" /\ del'[d].count = del[d].count /\ del[d].count \in Nat
          /\ del[d].status \notin {"absent", "deleted"}
      BY <1>0, <2>1, <2>2 DEF Rows, Exists
    <3>. DEFINE c == CopiesOf(d, waiting, wk, leased, lapsed)
                c1 == CopiesOf(d, waiting', wk', leased', lapsed')
                s == log[d].sends + Cardinality(EarlyAt(d, wk, "send"))
                p == Paid(d, wk, del[d], used)
                g == Cardinality(EarlyAt(d, wk, "gate"))
                p1 == Paid(d, wk', del'[d], used')
    <3>2. c1 = c
      BY <1>3, <2>1
    <3>3. c \in Nat
      BY <1>0, <1>1, <1>2, Amounts
    <3>4. s \in Int
      BY <1>0, <1>1, <1>2, Amounts
    <3>5. g \in Nat
      BY <1>0, <1>1, <1>2, Amounts
    <3>6. g <= used + 1
      BY <1>0, <1>1, EarlyFew
    <3>7. p <= p1 /\ p \in Int /\ p1 \in Int
      <4>1. p = IF del[d].count < MaxRetries THEN del[d].count ELSE MaxRetries + used - g
        BY <3>1 DEF Paid
      <4>2. p1 = MaxRetries + used' - g
        BY <1>3, <3>1 DEF Paid
      <4>. HIDE DEF p, p1, g
      <4>. QED
        BY <1>1, <2>1, <3>1, <3>5, <3>6, <4>1, <4>2
    <3>8. (log'[d].sends + Cardinality(EarlyAt(d, wk', "send"))) + p <= s + p1
      <4>1. log'[d].sends + Cardinality(EarlyAt(d, wk', "send")) = s
        BY <1>3, <2>1
      <4>. HIDE DEF s, p, p1
      <4>. QED
        BY <3>4, <3>7, <4>1
    <3>9. c1 + used <= c + used'
      <4>. HIDE DEF c, c1
      <4>. QED
        BY <1>1, <2>1, <3>2, <3>3
    <3>10. /\ IsFiniteSet(Crew(wk', d, Travelling)) /\ IsFiniteSet(B) /\ ~Claimable(del'[d])
           /\ del'[d].status = "absent" <=> del[d].status = "absent"
      BY <1>2, <1>3, <2>1, <3>1 DEF Claimable
    <3>11. log'[d].replays >= log[d].replays
      BY <1>0, <2>1 DEF Logs
    <3>. QED
      BY <1>1, <3>8, <3>9, <3>10, <3>11, BudgetFrame
  <2>. QED
    BY <1>6, <2>1, <2>2
<1>. QED
  BY <1>7, <1>8, <1>9, <1>11, <1>12, <1>13, <1>14, <1>15, <1>16, <1>17 DEF OtherStep

BudgetsKept == \A d \in Items : BudgetKept(d, waiting, wk, leased, lapsed, del[d], log[d], used)

LEMMA BudgetStep ==
    TypeOK /\ TypeOK' /\ HoldersOK /\ AbsentRows /\ BudgetsKept /\ [Next]_vars => BudgetsKept'
<1>. SUFFICES ASSUME TypeOK, TypeOK', HoldersOK, AbsentRows, BudgetsKept, [Next]_vars, NEW d \in Items
              PROVE  BudgetKept(d, waiting', wk', leased', lapsed', del'[d], log'[d], used')
  BY DEF BudgetsKept
<1>1. BudgetKept(d, waiting, wk, leased, lapsed, del[d], log[d], used)
  BY DEF BudgetsKept
<1>2. ASSUME NEW w \in Workers, WorkerStep(w)
      PROVE  BudgetKept(d, waiting', wk', leased', lapsed', del'[d], log'[d], used')
  <2>1. CASE wk[w].pc # "pick" /\ Dv(w) = d
    BY <1>1, <1>2, <2>1, BudgetOwn
  <2>2. CASE wk[w].pc = "pick" /\ wk'[w].lease.evt = d
    BY <1>1, <1>2, <2>2, BudgetPick
  <2>3. CASE wk[w].pc = "pick" /\ wk'[w].lease.evt # d
    BY <1>1, <1>2, <2>3, BudgetElsewhere
  <2>4. CASE wk[w].pc # "pick" /\ Dv(w) # d
    <3>1. wk'[w].pc # "pick" => wk'[w].lease.evt # d
      BY <1>2, <2>4, WorkerMoves DEF Idle, Dv
    <3>. QED
      BY <1>1, <1>2, <2>4, <3>1, BudgetElsewhere
  <2>. QED
    BY <2>1, <2>2, <2>3, <2>4
<1>3. CASE UNCHANGED vars
  BY <1>1, <1>3 DEF vars, leaseVars
<1>4. CASE OtherStep
  BY <1>1, <1>4, BudgetOther
<1>. QED
  BY <1>2, <1>3, <1>4, NextSplit

LEMMA BudgetInit == Init => BudgetsKept
<1>. SUFFICES ASSUME Init, NEW d \in Items
              PROVE  BudgetKept(d, waiting, wk, leased, lapsed, del[d], log[d], used)
  BY DEF BudgetsKept
<1>1. /\ \A v \in Workers : wk[v].pc = "pick"
      /\ waiting[d] = 0 /\ leased = {} /\ used = 0
      /\ del[d].status = "absent" /\ del[d].count = 0 /\ log[d].sends = 0 /\ log[d].replays = 0
  BY DEF Init, LeaseInit, Idle
<1>2. Crew(wk, d, Travelling) = {} /\ LooseOf(d, wk, leased, lapsed) = {}
  BY <1>1 DEF Crew, Travelling, LooseOf
<1>3. EarlyAt(d, wk, "gate") = {} /\ EarlyAt(d, wk, "send") = {}
  BY <1>1 DEF EarlyAt, Crew
<1>4. IsFiniteSet({}) /\ Cardinality({}) = 0 /\ MaxRetries \in Nat
  BY FS_EmptySet, BoundsAssumption
<1>5. CopiesOf(d, waiting, wk, leased, lapsed) = 0 /\ CopiesDue(del[d], used) = 0
  BY <1>1, <1>2, <1>4 DEF CopiesOf, CopiesDue
<1>6. Paid(d, wk, del[d], used) = 0 /\ PaidBefore(log[d], used) = 0
  BY <1>1, <1>3, <1>4 DEF Paid, PaidBefore
<1>7. log[d].sends + Cardinality(EarlyAt(d, wk, "send")) = 0
  BY <1>1, <1>3, <1>4
<1>8. ~Claimable(del[d])
  BY <1>1 DEF Claimable
<1>. QED
  BY <1>2, <1>4, <1>5, <1>6, <1>7, <1>8 DEF BudgetKept, Balanced

\* The copies pay for one request each, and no more copies were ever due than there
\* were disturbances, and one.
LEMMA BudgetSuffices == ASSUME TypeOK, BudgetsKept PROVE BudgetShared
<1>. SUFFICES ASSUME NEW d \in Items
              PROVE  log[d].sends <= (1 + MaxRetries + used) * (1 + log[d].replays) + used
  BY DEF BudgetShared
<1>0. /\ wk \in [Workers -> WorkerStates] /\ waiting \in [Items -> Nat]
      /\ del[d] \in Rows /\ log[d] \in Logs /\ used \in Nat /\ MaxRetries \in Nat
  BY BoundsAssumption DEF TypeOK, LeaseTypeOK
<1>1. BudgetKept(d, waiting, wk, leased, lapsed, del[d], log[d], used)
  BY DEF BudgetsKept
<1>2. IsFiniteSet(Crew(wk, d, Travelling)) /\ IsFiniteSet(LooseOf(d, wk, leased, lapsed))
  BY <1>1 DEF BudgetKept
<1>. DEFINE c == CopiesOf(d, waiting, wk, leased, lapsed)
            e == CopiesDue(del[d], used)
            n == Cardinality(EarlyAt(d, wk, "send"))
            p == Paid(d, wk, del[d], used)
            q == PaidBefore(log[d], used)
<1>3. c \in Nat /\ e <= used + 1 /\ e \in Nat
  <2>1. c \in Nat
    BY <1>0, <1>2, Amounts
  <2>. QED
    BY <1>0, <2>1 DEF CopiesDue
<1>4. n \in Nat /\ log[d].sends \in Nat
  BY <1>0, <1>2, Amounts
<1>5. p <= MaxRetries + used /\ p \in Int
  <2>1. Cardinality(EarlyAt(d, wk, "gate")) \in Nat /\ del[d].count \in Nat
    BY <1>0, <1>2, Amounts
  <2>. QED
    BY <1>0, <2>1 DEF Paid
<1>6. PICK x \in Nat : c + x <= e /\ log[d].sends + n <= (p + q) + x
  BY <1>1 DEF BudgetKept, Balanced
<1>7. q = (MaxRetries + used) * log[d].replays /\ q \in Int /\ log[d].replays \in Nat
  <2>1. log[d].replays \in Nat
    BY <1>0 DEF Logs
  <2>2. q \in Int
    BY <1>0, <1>2, Amounts
  <2>. QED
    BY <2>1, <2>2 DEF PaidBefore
<1>8. (1 + MaxRetries + used) * (1 + log[d].replays) = q + log[d].replays + 1 + MaxRetries + used
  <2>1. ASSUME NEW i \in Nat, NEW j \in Nat PROVE (1 + i) * (1 + j) = i * j + j + 1 + i
    OBVIOUS
  <2>2. 1 + MaxRetries + used = 1 + (MaxRetries + used) /\ MaxRetries + used \in Nat
    BY <1>0
  <2>. QED
    BY <1>0, <1>7, <2>1, <2>2
<1>9. log[d].sends <= q + log[d].replays + 1 + MaxRetries + used + used
  <2>. HIDE DEF c, e, n, p, q
  <2>1. x <= used + 1
    BY <1>0, <1>3, <1>6
  <2>. QED
    BY <1>0, <1>4, <1>5, <1>6, <1>7, <2>1
<1>. QED
  BY <1>8, <1>9

AttemptsInv == IInv /\ AbsentRows /\ PlainSound /\ BudgetsKept

LEMMA AttemptsInit == Init => AttemptsInv
<1>. SUFFICES ASSUME Init PROVE AttemptsInv
  OBVIOUS
<1>1. AbsentRows
  BY DEF Init, LeaseInit, AbsentRows, NothingYet, Idle
<1>2. PlainSound
  <2>. SUFFICES ASSUME NEW d \in Items
                PROVE  /\ log[d].overrun => log[d].doubled
                       /\ OneAlive(d, waiting, wk, leased, lapsed) /\ NumbersOK(d, del[d], wk, log[d])
    BY DEF PlainSound
  <2>1. waiting[d] = 0 /\ leased = {} /\ lapsed = {} /\ ~log[d].overrun /\ ~log[d].refused
    BY DEF Init, LeaseInit
  <2>2. del[d].status = "absent" /\ del[d].recorded = {}
    BY DEF Init
  <2>. QED
    BY <2>1, <2>2 DEF OneAlive, NumbersOK
<1>. QED
  BY <1>1, <1>2, IInvInit, BudgetInit DEF AttemptsInv

LEMMA AttemptsStep == AttemptsInv /\ [Next]_vars => AttemptsInv'
<1>. SUFFICES ASSUME AttemptsInv, [Next]_vars PROVE AttemptsInv'
  OBVIOUS
<1>1. IInv' /\ TypeOK /\ HoldersOK /\ TypeOK'
  BY IInvStep DEF AttemptsInv, IInv
<1>. QED
  BY <1>1, AbsentRowsStep, PlainStep, BudgetStep DEF AttemptsInv

\* attempt_count, kept in the row and moved before the request, serves as the budget
\* and as the number of the next attempt, and is right as both: however many copies
\* of a delivery there are, they share its budget, a disturbance being good for one
\* more request in each life of the row and one in all; and an attempt's number is
\* taken only where a replay, a second copy or a lost status write explains it.
THEOREM AttemptsAreAccounted == Spec => []AttemptsAccounted
<1>1. AttemptsInv => AttemptsAccounted
  <2>. SUFFICES ASSUME AttemptsInv PROVE AttemptsAccounted
    OBVIOUS
  <2>1. TypeOK /\ BudgetShared
    BY BudgetSuffices DEF AttemptsInv, IInv
  <2>2. AttemptsKept
    <3>1. \A d \in Items : log[d].replays = 0 \/ log[d].replays > 0
      BY <2>1 DEF TypeOK, Logs
    <3>2. \A d \in Items : d \in PlainIn(log) => ~log[d].refused
      BY DEF AttemptsInv, PlainSound, NumbersOK
    <3>. QED
      BY <3>1, <3>2 DEF PlainIn, AttemptsKept
  <2>. QED
    BY <2>1, <2>2 DEF AttemptsAccounted
<1>. QED
  BY <1>1, AttemptsInit, AttemptsStep, PTL DEF Spec

-----------------------------------------------------------------------------
(* The outbound API: what a request under way relies on. *)

Ops == {"idle", "create", "patch", "delete", "rotate", "link", "revoke", "publish", "replayed", "list",
        "fanout", "test", "probe", "replay", "ensure", "fallback", "seed", "emit", "match", "spread"}

Asked == [op: Ops, n: 0..MaxRequests, by: Callers \cup {None}, tok: [app: Apps, epoch: Nat] \cup {None},
          app: Apps \cup {None}, ep: EndpointIds \cup {None},
          set: Urls \cup Bodies \cup Secrets \cup BOOLEAN \cup {None}, key: EventIds \cup Secrets \cup {None},
          epoch: Nat, list: SUBSET EndpointIds, tx: MessageRow \cup {None}]

\* The message of such a request is not there yet.
Unborn == {"publish", "list", "fanout", "test", "ensure", "fallback", "seed", "emit"}

OnFor(en, e, a) == IsRow(en[e]) /\ en[e].app = a /\ en[e].on

\* The row was in the application, and is if it is still there.
Belongs(table, i, a) == table[i] # None /\ (IsRow(table[i]) => table[i].app = a)

\* Edits of an endpoint.
EditFits(r, en, gv) ==
    /\ r.tok # None => r.app = r.tok.app /\ r.op \notin {"ensure", "fallback"}
    /\ r.op = "create" => r.app \in Apps /\ r.set \in Urls
    /\ r.op = "patch" =>
          /\ r.ep \in EndpointIds /\ r.set \in Bodies
          /\ r.by # "admin" /\ r.set.url # None => en[r.ep] # None /\ r.set.url \in gv[r.ep]
    /\ r.op \in {"delete", "rotate"} => r.ep \in EndpointIds
    /\ r.op = "rotate" => r.set \in Secrets

\* Portal links.
LinkFits(r, ap) ==
    /\ r.op \in {"link", "revoke"} => r.app \in Apps
    /\ r.op = "link" => ap[r.app] # None /\ (IsRow(ap[r.app]) => r.epoch <= ap[r.app].epoch)

\* Its message.
MessageFits(r, ms, ak) ==
    /\ r.op \in Unborn => ms[r.n] = None /\ r.n \notin ak
    /\ r.op \in {"publish", "replayed", "list", "fanout"} => r.app \in Apps /\ r.key \in EventIds \cup {None}
    /\ r.op \in {"test", "probe", "ensure", "fallback", "seed", "emit", "match", "spread"} => r.key = None
    /\ r.op = "probe" => ms[r.n] # None /\ (IsRow(ms[r.n]) => ms[r.n] = [app |-> r.app, key |-> None])
    /\ r.op \in {"match", "spread"} => ms[r.n] = [app |-> r.app, key |-> None]
    /\ r.op = "replay" => r.key \in Messages /\ Belongs(ms, r.key, r.app)

\* Where it goes.
TargetFits(r, en, st) ==
    /\ r.op \in {"publish", "list", "seed", "emit", "match"} => \A e \in st[r.n] : OnFor(en, e, r.app)
    /\ r.op \in {"ensure", "fallback"} => st[r.n] = {}
    /\ r.op \in {"fanout", "spread"} => st[r.n] \subseteq r.list /\ \A e \in r.list : Belongs(en, e, r.app)
    /\ r.op \in {"test", "probe", "replay"} => r.app \in Apps /\ r.ep \in EndpointIds /\ Belongs(en, r.ep, r.app)
    /\ r.op \in {"test", "probe"} => st[r.n] \subseteq {r.ep}

\* The application it holds on to.
AppFits(r, ap) ==
    /\ r.tx # None <=> r.op \in {"list", "fanout"}
    /\ r.tx # None => r.tx = [app |-> r.app, key |-> r.key] /\ r.app \in Apps /\ IsRow(ap[r.app])
    /\ r.op \in {"seed", "emit", "match", "spread"} => r.app \in Apps /\ IsRow(ap[r.app]) /\ ap[r.app].op
    /\ r.op = "fallback" => \E a \in Apps : IsRow(ap[a]) /\ ap[a].op

RequestsFit ==
    \A s \in Slots : /\ EditFits(req[s], endpoint, given) /\ LinkFits(req[s], app)
                     /\ MessageFits(req[s], msg, acked) /\ TargetFits(req[s], endpoint, steady)
                     /\ AppFits(req[s], app)

Numbered ==
    /\ \A s \in Slots : req[s] # NoRequest => req[s].n \in 1..started
    /\ \A s, t \in Slots : s # t /\ req[s] # NoRequest => req[s].n # req[t].n
    /\ \A m \in Messages : msg[m] # None \/ m \in acked => m <= started

\* Two messages with one key are not even under way.
KeysApart ==
    /\ \A m, n \in Messages : IsRow(msg[m]) /\ msg[m] = msg[n] /\ msg[m].key # None => m = n
    /\ \A s \in Slots, m \in Messages :
          req[s].tx # None /\ IsRow(msg[m]) /\ msg[m] = req[s].tx => msg[m].key = None
    /\ \A s, t \in Slots : s # t /\ req[s].tx # None /\ req[s].tx = req[t].tx => req[s].tx.key = None

Reached ==
    \A m \in Messages : IsRow(msg[m]) /\ (m \in acked \/ msg[m].key # None) =>
        \A e \in steady[m] : <<m, e>> \in dels

OneOperational == \A a, b \in Apps : IsRow(app[a]) /\ app[a].op /\ IsRow(app[b]) /\ app[b].op => a = b

Graced ==
    \A e \in EndpointIds : /\ endpoint[e] = None => before[e] = None
                           /\ IsRow(endpoint[e]) /\ before[e] # None => before[e] = endpoint[e].prev

\* A link is never ahead of its application, and a revoked one is behind.
LinksBehind ==
    \A t \in tokens : /\ app[t.app] # None
                      /\ IsRow(app[t.app]) => /\ t.epoch <= app[t.app].epoch
                                              /\ t \in void => t.epoch < app[t.app].epoch

ApiInv ==
    /\ ApiTypeOK /\ req \in [Slots -> Asked] /\ RequestsFit /\ Numbered /\ KeysApart
    /\ Reached /\ OneOperational /\ Graced /\ LinksBehind /\ WithinApp /\ UrlsGiven /\ OpEventsSurvive

\* The body of PortalContained.
Contained ==
    \A s \in Slots :
       /\ req[s] = NoRequest /\ req'[s].tok # None => req'[s].tok \notin void
       /\ req[s].tok # None /\ req'[s] = NoRequest =>
             \A e \in LiveEndpoints : endpoint'[e] # endpoint[e] => endpoint[e].app = req[s].tok.app

ApiGood == ApiInv' /\ Contained

LEMMA NoRequestFacts ==
  /\ NoRequest \in Asked /\ NoRequest.op = "idle" /\ NoRequest.n = 0 /\ NoRequest.tok = None /\ NoRequest.tx = None
  /\ NoRequest.key = None /\ NoRequest.app = None /\ NoRequest.list = {} /\ NoRequest.by = None
  BY Bounds DEF NoRequest, Asked, Ops

LEMMA CallerFacts ==
  ASSUME ApiInv, NEW a \in Apps, NEW roles \in SUBSET Callers, NEW c \in Caller(roles, a)
  PROVE  /\ c \in Asked /\ c.app = a /\ c.key = None /\ c.tx = None /\ c.list = {} /\ c.by \in Callers
         /\ c.tok # None => c.tok \in tokens \ void /\ c.tok.app = a
<1>1. CASE \E b \in roles : c = [NoRequest EXCEPT !.by = b, !.app = a]
  <2>1. PICK b \in Callers : c = [NoRequest EXCEPT !.by = b, !.app = a]
    BY <1>1
  <2>. QED
    BY <2>1, NoRequestFacts DEF Asked
<1>2. ASSUME NEW t \in tokens, t.app = a, Current(t), c = [NoRequest EXCEPT !.by = "portal", !.app = a, !.tok = t]
      PROVE  /\ c \in Asked /\ c.app = a /\ c.key = None /\ c.tx = None /\ c.list = {} /\ c.by \in Callers
             /\ c.tok = t
  <2>1. t \in [app: Apps, epoch: Nat]
    BY DEF ApiInv, ApiTypeOK
  <2>. QED
    BY <1>2, <2>1, NoRequestFacts DEF Asked, Callers
<1>3. ASSUME NEW t \in tokens, t.app = a, Current(t) PROVE t \notin void
  <2>1. t.app \in Apps /\ t.epoch \in Nat /\ app[t.app].epoch = t.epoch /\ IsRow(app[t.app])
    BY <1>3 DEF ApiInv, ApiTypeOK, Current
  <2>. QED
    BY <2>1 DEF ApiInv, LinksBehind
<1>. QED
  BY <1>1, <1>2, <1>3 DEF Caller

\* How rows may change under a request: they come, are edited and go, but a row
\* that is gone stays gone, a row stays where it is, and what somebody holds on to
\* stays.
AppsOnward ==
    \A a \in Apps : app[a] # None =>
        /\ app'[a] # None
        /\ IsRow(app'[a]) => IsRow(app[a]) /\ app'[a].op = app[a].op /\ app[a].epoch <= app'[a].epoch
        /\ IsRow(app[a]) /\ (app[a].op \/ Locked(a)) => IsRow(app'[a])

EndpointsOnward ==
    \A e \in EndpointIds : endpoint[e] # None =>
        /\ endpoint'[e] # None /\ given[e] \subseteq given'[e]
        /\ IsRow(endpoint'[e]) => IsRow(endpoint[e]) /\ endpoint'[e].app = endpoint[e].app

MessagesOnward ==
    \A m \in Messages : msg[m] # None =>
        /\ msg'[m] # None /\ (IsRow(msg'[m]) => msg'[m] = msg[m])
        /\ IsRow(msg[m]) /\ app[msg[m].app].op => msg'[m] = msg[m]

SteadyOnward ==
    \A m \in Messages : m <= started =>
        /\ steady'[m] \subseteq steady[m]
        /\ \A e \in steady'[m], a \in Apps : OnFor(endpoint, e, a) => OnFor(endpoint', e, a)

Onward == AppsOnward /\ EndpointsOnward /\ MessagesOnward /\ SteadyOnward

\* What a request relies on stays while others move on.
LEMMA StillFits ==
  ASSUME ApiInv, ApiTypeOK', Onward, NEW t \in Slots,
         req[t].op \in Unborn => msg'[req[t].n] = None /\ req[t].n \notin acked'
  PROVE  /\ EditFits(req[t], endpoint', given') /\ LinkFits(req[t], app')
         /\ MessageFits(req[t], msg', acked') /\ TargetFits(req[t], endpoint', steady')
         /\ AppFits(req[t], app')
<1>. DEFINE r == req[t]
<1>0. /\ r \in Asked /\ EditFits(r, endpoint, given) /\ LinkFits(r, app) /\ MessageFits(r, msg, acked)
      /\ TargetFits(r, endpoint, steady) /\ AppFits(r, app)
  BY DEF ApiInv, RequestsFit
<1>1. r.op # "idle" => r.n \in 1..started /\ r.n \in Messages
  BY <1>0, NoRequestFacts DEF ApiInv, Numbered, ApiTypeOK, Messages, Asked
<1>2. r.tx # None => Locked(r.app)
  BY DEF Locked
<1>3. r.op \in Unborn => msg'[r.n] = None /\ r.n \notin acked'
  OBVIOUS
<1>. HIDE DEF r
<1>4. EditFits(r, endpoint', given')
  BY <1>0 DEF EditFits, Onward, EndpointsOnward
<1>5. LinkFits(r, app')
  <2>1. ASSUME r.op = "link" PROVE app'[r.app] # None /\ (IsRow(app'[r.app]) => r.epoch <= app'[r.app].epoch)
    <3>1. r.app \in Apps /\ app[r.app] # None /\ (IsRow(app[r.app]) => r.epoch <= app[r.app].epoch)
      BY <1>0, <2>1 DEF LinkFits
    <3>2. /\ app'[r.app] # None
          /\ IsRow(app'[r.app]) => IsRow(app[r.app]) /\ app[r.app].epoch <= app'[r.app].epoch
      BY <3>1 DEF Onward, AppsOnward
    <3>3. (IsRow(app[r.app]) => app[r.app].epoch \in Nat) /\ (IsRow(app'[r.app]) => app'[r.app].epoch \in Nat)
      BY <3>1 DEF ApiInv, ApiTypeOK, IsRow, AppRow
    <3>4. r.epoch \in Nat
      BY <1>0 DEF Asked
    <3>. QED
      BY <3>1, <3>2, <3>3, <3>4
  <2>. QED
    BY <1>0, <2>1 DEF LinkFits
<1>6. MessageFits(r, msg', acked')
  <2>1. ASSUME r.op = "probe"
        PROVE  msg'[r.n] # None /\ (IsRow(msg'[r.n]) => msg'[r.n] = [app |-> r.app, key |-> None])
    <3>1. r.n \in Messages /\ msg[r.n] # None /\ (IsRow(msg[r.n]) => msg[r.n] = [app |-> r.app, key |-> None])
      BY <1>0, <1>1, <2>1 DEF MessageFits
    <3>. QED
      BY <3>1 DEF Onward, MessagesOnward
  <2>2. ASSUME r.op \in {"match", "spread"} PROVE msg'[r.n] = [app |-> r.app, key |-> None]
    <3>1. r.n \in Messages /\ msg[r.n] = [app |-> r.app, key |-> None] /\ r.app \in Apps /\ app[r.app].op
      BY <1>0, <1>1, <2>2 DEF MessageFits, AppFits
    <3>2. IsRow(msg[r.n]) /\ msg[r.n] # None /\ msg[r.n].app = r.app
      BY <3>1, Marks DEF IsRow, MessageRow
    <3>. QED
      BY <3>1, <3>2 DEF Onward, MessagesOnward
  <2>3. ASSUME r.op = "replay" PROVE r.key \in Messages /\ Belongs(msg', r.key, r.app)
    <3>1. r.key \in Messages /\ msg[r.key] # None /\ (IsRow(msg[r.key]) => msg[r.key].app = r.app)
      BY <1>0, <2>3 DEF MessageFits, Belongs
    <3>. QED
      BY <3>1 DEF Onward, MessagesOnward, Belongs
  <2>. QED
    BY <1>0, <1>3, <2>1, <2>2, <2>3 DEF MessageFits
<1>7. TargetFits(r, endpoint', steady')
  <2>0. /\ r.op # "idle" => r.n \in Messages /\ r.n <= started /\ steady'[r.n] \subseteq steady[r.n]
        /\ \A e \in EndpointIds : Belongs(endpoint, e, r.app) => Belongs(endpoint', e, r.app)
        /\ r.list \subseteq EndpointIds
    BY <1>0, <1>1 DEF Onward, SteadyOnward, EndpointsOnward, Belongs, ApiInv, ApiTypeOK, Asked
  <2>1. ASSUME r.op \in {"publish", "list", "seed", "emit", "match"}, NEW e \in steady'[r.n]
        PROVE  OnFor(endpoint', e, r.app)
    <3>1. r.app \in Apps /\ OnFor(endpoint, e, r.app)
      BY <1>0, <2>0, <2>1 DEF TargetFits, MessageFits, AppFits
    <3>. QED
      BY <2>0, <2>1, <3>1 DEF Onward, SteadyOnward
  <2>. QED
    BY <1>0, <2>0, <2>1 DEF TargetFits
<1>8. AppFits(r, app')
  <2>1. r.tx # None => IsRow(app'[r.app])
    <3>1. ASSUME r.tx # None PROVE r.app \in Apps /\ IsRow(app[r.app]) /\ app[r.app] # None /\ Locked(r.app)
      BY <1>0, <1>2, <3>1 DEF AppFits, IsRow
    <3>. QED
      BY <3>1 DEF Onward, AppsOnward
  <2>2. ASSUME NEW a \in Apps, IsRow(app[a]), app[a].op PROVE IsRow(app'[a]) /\ app'[a].op
    <3>1. app[a] # None
      BY <2>2 DEF IsRow
    <3>. QED
      BY <2>2, <3>1 DEF Onward, AppsOnward
  <2>. QED
    BY <1>0, <2>1, <2>2 DEF AppFits
<1>. QED
  BY <1>4, <1>5, <1>6, <1>7, <1>8 DEF r

LEMMA RequestsMove ==
  ASSUME ApiInv, ApiTypeOK', Onward, NEW s \in Slots, NEW q \in Asked, req' = [req EXCEPT ![s] = q],
         EditFits(q, endpoint', given'), LinkFits(q, app'), MessageFits(q, msg', acked'),
         TargetFits(q, endpoint', steady'), AppFits(q, app'),
         \A t \in Slots \ {s} : req[t].op \in Unborn => msg'[req[t].n] = None /\ req[t].n \notin acked'
  PROVE  /\ req' \in [Slots -> Asked] /\ req'[s] = q /\ \A t \in Slots \ {s} : req'[t] = req[t]
         /\ RequestsFit'
<1>1. req \in [Slots -> Asked]
  BY DEF ApiInv
<1>2. req' \in [Slots -> Asked] /\ req'[s] = q /\ \A t \in Slots \ {s} : req'[t] = req[t]
  BY <1>1
<1>3. ASSUME NEW t \in Slots
      PROVE  /\ EditFits(req'[t], endpoint', given') /\ LinkFits(req'[t], app')
             /\ MessageFits(req'[t], msg', acked') /\ TargetFits(req'[t], endpoint', steady')
             /\ AppFits(req'[t], app')
  <2>1. CASE t = s
    BY <1>2, <2>1
  <2>2. CASE t # s
    <3>1. req'[t] = req[t] /\ (req[t].op \in Unborn => msg'[req[t].n] = None /\ req[t].n \notin acked')
      BY <1>2, <2>2
    <3>2. /\ EditFits(req[t], endpoint', given') /\ LinkFits(req[t], app')
          /\ MessageFits(req[t], msg', acked') /\ TargetFits(req[t], endpoint', steady')
          /\ AppFits(req[t], app')
      BY <3>1, StillFits
    <3>. QED
      BY <3>1, <3>2
  <2>. QED
    BY <2>1, <2>2
<1>. QED
  BY <1>2, <1>3 DEF RequestsFit

\* The next number is nobody's.
LEMMA Numbers ==
  ASSUME ApiInv
  PROVE  /\ started \in Nat /\ MaxRequests \in Nat /\ started <= MaxRequests
         /\ started < MaxRequests => started + 1 \in Messages /\ started + 1 \in 0..MaxRequests
         /\ \A s \in Slots : /\ req[s].n \in 0..MaxRequests
                             /\ req[s] # NoRequest => req[s].n \in 1..started /\ req[s].n \in Messages
                             /\ req[s].op # "idle" => req[s] # NoRequest
         /\ \A s, t \in Slots : s # t /\ req[s] # NoRequest => req[s].n # req[t].n
<1>1. /\ started \in 0..MaxRequests /\ MaxRequests \in Nat
      /\ req \in [Slots -> Asked] /\ Numbered
  BY Bounds DEF ApiInv, ApiTypeOK
<1>2. \A s \in Slots : req[s].n \in 0..MaxRequests
  BY <1>1 DEF Asked
<1>. QED
  BY <1>1, <1>2, NoRequestFacts DEF Numbered, Messages

\* Numbered, for the next state.
LEMMA NumbersMove ==
  ASSUME ApiInv, NEW s \in Slots, NEW q \in Asked, req' = [req EXCEPT ![s] = q],
         \/ started' = started /\ (q = NoRequest \/ (req[s] # NoRequest /\ q.n = req[s].n))
         \/ started' = started + 1 /\ q.n = started + 1,
         \A m \in Messages : msg'[m] # None \/ m \in acked' => msg[m] # None \/ m \in acked \/ m = req[s].n
  PROVE  Numbered'
<1>0. /\ Numbered /\ started \in Nat /\ req \in [Slots -> Asked]
      /\ \A t \in Slots : req[t].n \in Nat /\ (req[t] # NoRequest => req[t].n \in 1..started)
  BY Numbers DEF ApiInv
<1>1. req'[s] = q /\ \A t \in Slots \ {s} : req'[t] = req[t]
  BY <1>0
<1>2. started' \in Nat /\ started <= started'
  BY <1>0
<1>3. \A m \in Messages : msg'[m] # None \/ m \in acked' => m <= started'
  <2>1. SUFFICES ASSUME NEW m \in Messages, msg'[m] # None \/ m \in acked' PROVE m <= started'
    OBVIOUS
  <2>2. m <= started
    <3>1. msg[m] # None \/ m \in acked \/ m = req[s].n
      BY <2>1
    <3>2. m \in Nat /\ m >= 1
      BY Bounds DEF Messages
    <3>3. m = req[s].n => m <= started
      BY <1>0, <3>2, NoRequestFacts
    <3>. QED
      BY <1>0, <3>1, <3>3 DEF Numbered
  <2>. QED
    BY <1>0, <1>2, <2>2, Bounds DEF Messages
<1>4. \A t \in Slots : req'[t] # NoRequest => req'[t].n \in 1..started'
  <2>1. ASSUME q # NoRequest PROVE q.n \in 1..started'
    BY <1>0, <2>1
  <2>2. ASSUME NEW t \in Slots \ {s}, req[t] # NoRequest PROVE req[t].n \in 1..started'
    BY <1>0, <1>2, <2>2
  <2>. QED
    BY <1>1, <2>1, <2>2
<1>5. \A t, u \in Slots : t # u /\ req'[t] # NoRequest => req'[t].n # req'[u].n
  <2>1. \A t \in Slots \ {s} : (q # NoRequest \/ req[t] # NoRequest) => q.n # req[t].n
    BY <1>0, Numbers, NoRequestFacts
  <2>2. \A t, u \in Slots \ {s} : t # u /\ req[t] # NoRequest => req[t].n # req[u].n
    BY <1>0 DEF Numbered
  <2>. QED
    BY <1>1, <2>1, <2>2
<1>. QED
  BY <1>3, <1>4, <1>5 DEF Numbered

\* A step that only moves a request, or begins one.
LEMMA StillGood ==
  ASSUME ApiInv, NEW s \in Slots, NEW q \in Asked, req' = [req EXCEPT ![s] = q],
         UNCHANGED <<app, endpoint, msg, dels, tokens, acked, dropped, void, before, given>>,
         etype' \in {None, "live", "archived"},
         \/ /\ started' = started /\ UNCHANGED steady
            /\ q = NoRequest \/ (req[s] # NoRequest /\ q.n = req[s].n)
         \/ /\ started < MaxRequests /\ started' = started + 1 /\ q.n = started + 1
            /\ UNCHANGED steady \/ \E X \in SUBSET EndpointIds : steady' = [steady EXCEPT ![started + 1] = X],
         EditFits(q, endpoint, given), LinkFits(q, app), MessageFits(q, msg, acked),
         TargetFits(q, endpoint, steady'), AppFits(q, app),
         q.tx # None => \/ q.tx = req[s].tx
                        \/ /\ \A m \in Messages : IsRow(msg[m]) /\ msg[m] = q.tx => msg[m].key = None
                           /\ \A t \in Slots \ {s} : req[t].tx = q.tx => q.tx.key = None,
         req[s] = NoRequest /\ q.tok # None => q.tok \notin void
  PROVE  ApiGood
<1>0. /\ ApiTypeOK /\ req \in [Slots -> Asked] /\ Numbered /\ KeysApart
      /\ started \in Nat /\ MaxRequests \in Nat
  BY Numbers DEF ApiInv
<1>1. /\ steady' \in [Messages -> SUBSET EndpointIds] /\ started' \in 0..MaxRequests
      /\ \A m \in Messages : m <= started => steady'[m] = steady[m]
  <2>1. steady \in [Messages -> SUBSET EndpointIds] /\ \A m \in Messages : m \in Nat
    BY <1>0 DEF ApiTypeOK, Messages
  <2>2. started \in 0..MaxRequests
    BY <1>0 DEF ApiTypeOK
  <2>3. CASE UNCHANGED steady
    BY <1>0, <2>1, <2>2, <2>3
  <2>4. CASE /\ started < MaxRequests /\ started' = started + 1
             /\ \E X \in SUBSET EndpointIds : steady' = [steady EXCEPT ![started + 1] = X]
    <3>1. PICK X \in SUBSET EndpointIds : steady' = [steady EXCEPT ![started + 1] = X]
      BY <2>4
    <3>2. steady' \in [Messages -> SUBSET EndpointIds] /\ \A m \in Messages : m <= started => steady'[m] = steady[m]
      <4>1. steady' \in [Messages -> SUBSET EndpointIds] /\ \A m \in Messages : m # started + 1 => steady'[m] = steady[m]
        BY <2>1, <3>1
      <4>2. \A m \in Messages : m <= started => m # started + 1
        BY <1>0, <2>1
      <4>. QED
        BY <4>1, <4>2
    <3>. QED
      BY <1>0, <2>4, <3>2
  <2>. QED
    BY <2>3, <2>4
<1>2. ApiTypeOK'
  BY <1>0, <1>1 DEF ApiTypeOK, LiveApps, LiveEndpoints, LiveMessages
<1>3. Onward
  <2>1. AppsOnward
    BY <1>0 DEF AppsOnward, ApiTypeOK, AppRow, IsRow
  <2>2. EndpointsOnward /\ MessagesOnward
    BY DEF EndpointsOnward, MessagesOnward
  <2>3. SteadyOnward
    BY <1>1 DEF SteadyOnward
  <2>. QED
    BY <2>1, <2>2, <2>3 DEF Onward
<1>4. \A t \in Slots : req[t].op \in Unborn => msg'[req[t].n] = None /\ req[t].n \notin acked'
  BY DEF ApiInv, RequestsFit, MessageFits
<1>5. /\ req' \in [Slots -> Asked] /\ req'[s] = q /\ \A t \in Slots \ {s} : req'[t] = req[t]
      /\ RequestsFit'
  <2>1. /\ EditFits(q, endpoint', given') /\ LinkFits(q, app') /\ MessageFits(q, msg', acked')
        /\ TargetFits(q, endpoint', steady') /\ AppFits(q, app')
    OBVIOUS
  <2>. QED
    BY <1>2, <1>3, <1>4, <2>1, RequestsMove
<1>6. Numbered'
  BY NumbersMove
<1>7. KeysApart'
  BY <1>0, <1>5 DEF KeysApart
<1>8. Reached'
  <2>1. \A m \in Messages : IsRow(msg[m]) => m <= started
    BY <1>0 DEF Numbered, IsRow
  <2>. QED
    BY <1>1, <2>1 DEF ApiInv, Reached
<1>9. OneOperational' /\ Graced' /\ LinksBehind' /\ WithinApp' /\ UrlsGiven' /\ OpEventsSurvive'
  BY DEF ApiInv, OneOperational, Graced, LinksBehind, WithinApp, UrlsGiven, OpEventsSurvive, LiveEndpoints
<1>10. Contained
  <2>1. \A t \in Slots \ {s} : req'[t] = req[t]
    BY <1>5
  <2>. QED
    BY <1>5, <2>1, NoRequestFacts DEF Contained
<1>. QED
  BY <1>2, <1>5, <1>6, <1>7, <1>8, <1>9, <1>10 DEF ApiInv, ApiGood

\* The request that begins.
LEMMA BeginAsked ==
  ASSUME ApiInv, NEW s \in Slots, NEW r \in Asked, Begin(s, r)
  PROVE  \E q \in Asked :
            /\ req[s] = NoRequest /\ req' = [req EXCEPT ![s] = q]
            /\ started < MaxRequests /\ started' = started + 1 /\ q.n = started + 1
            /\ q.op = r.op /\ q.by = r.by /\ q.tok = r.tok /\ q.app = r.app /\ q.ep = r.ep /\ q.set = r.set
            /\ q.key = r.key /\ q.epoch = r.epoch /\ q.list = r.list /\ q.tx = r.tx
<1>. DEFINE q == [r EXCEPT !.n = started + 1]
<1>1. /\ req[s] = NoRequest /\ started < MaxRequests /\ started' = started + 1
      /\ req' = [req EXCEPT ![s] = q]
  BY DEF Begin
<1>2. started + 1 \in 0..MaxRequests
  BY <1>1, Numbers
<1>3. q \in Asked /\ q.n = started + 1
  BY <1>2 DEF Asked
<1>4. /\ q.op = r.op /\ q.by = r.by /\ q.tok = r.tok /\ q.app = r.app /\ q.ep = r.ep /\ q.set = r.set
      /\ q.key = r.key /\ q.epoch = r.epoch /\ q.list = r.list /\ q.tx = r.tx
  BY DEF Asked
<1>. HIDE DEF q
<1>. QED
  BY <1>1, <1>3, <1>4

\* An edit or a link begins.
LEMMA BeginGood ==
  ASSUME ApiInv, NEW s \in Slots, NEW r \in Asked, Begin(s, r),
         UNCHANGED <<tables, tokens, history>>,
         r.op \in {"create", "patch", "delete", "rotate", "link", "revoke", "replay"},
         EditFits(r, endpoint, given), LinkFits(r, app), r.tx = None,
         r.op = "replay" => /\ r.key \in Messages /\ r.app \in Apps /\ r.ep \in EndpointIds
                            /\ Belongs(msg, r.key, r.app) /\ Belongs(endpoint, r.ep, r.app),
         r.tok # None => r.tok \notin void
  PROVE  ApiGood
<1>1. PICK q \in Asked :
            /\ req[s] = NoRequest /\ req' = [req EXCEPT ![s] = q]
            /\ started < MaxRequests /\ started' = started + 1 /\ q.n = started + 1
            /\ q.op = r.op /\ q.by = r.by /\ q.tok = r.tok /\ q.app = r.app /\ q.ep = r.ep /\ q.set = r.set
            /\ q.key = r.key /\ q.epoch = r.epoch /\ q.list = r.list /\ q.tx = r.tx
  BY BeginAsked
<1>2. UNCHANGED <<app, etype, endpoint, msg, dels, tokens, steady, acked, dropped, void, before, given>>
  BY DEF tables, history
<1>3. etype' \in {None, "live", "archived"}
  BY <1>2 DEF ApiInv, ApiTypeOK
<1>4. EditFits(q, endpoint, given) /\ LinkFits(q, app)
  BY <1>1 DEF EditFits, LinkFits
<1>5. MessageFits(q, msg, acked) /\ TargetFits(q, endpoint, steady')
  BY <1>1 DEF MessageFits, TargetFits, Unborn
<1>6. AppFits(q, app) /\ q.tx = None
  BY <1>1 DEF AppFits
<1>. QED
  BY <1>1, <1>2, <1>3, <1>4, <1>5, <1>6, StillGood

LEMMA CreateEndpointGood ==
  ASSUME ApiInv, NEW s \in Slots, NEW a \in Apps, NEW u \in Urls, CreateEndpoint(s, a, u) PROVE ApiGood
<1>1. PICK c \in Caller({"admin", "member"}, a) : Begin(s, [c EXCEPT !.op = "create", !.set = u])
  BY DEF CreateEndpoint
<1>c. c \in Asked
  BY CallerFacts DEF Callers
<1>2. /\ c \in Asked /\ c.app = a /\ c.tx = None
      /\ c.tok # None => c.tok \in tokens \ void /\ c.tok.app = a
  BY CallerFacts DEF Callers
<1>. DEFINE r == [c EXCEPT !.op = "create", !.set = u]
<1>3. r \in Asked /\ r.op = "create" /\ r.set = u /\ r.app = a /\ r.tx = None /\ r.tok = c.tok
  <2>1. r \in Asked
    BY <1>c DEF Asked, Ops
  <2>2. r.op = "create" /\ r.set = u /\ r.app = a /\ r.tx = None /\ r.tok = c.tok
    BY <1>c, <1>2 DEF Asked
  <2>. QED
    BY <2>1, <2>2
<1>4. Begin(s, r)
  BY <1>1
<1>. HIDE DEF r
<1>5. EditFits(r, endpoint, given) /\ LinkFits(r, app)
  BY <1>2, <1>3 DEF EditFits, LinkFits
<1>. QED
  BY <1>2, <1>3, <1>4, <1>5, BeginGood DEF CreateEndpoint

LEMMA PatchEndpointGood ==
  ASSUME ApiInv, NEW s \in Slots, NEW a \in Apps, NEW e \in EndpointIds, NEW b \in Bodies,
         PatchEndpoint(s, a, e, b) PROVE ApiGood
<1>1. PICK c \in Caller({"admin", "member"}, a) :
         /\ IsRow(endpoint[e]) => MayRepoint(c, e, b)
         /\ Begin(s, [c EXCEPT !.op = "patch", !.ep = e, !.set = b])
  BY DEF PatchEndpoint
<1>c. c \in Asked
  BY CallerFacts DEF Callers
<1>2. /\ c \in Asked /\ c.app = a /\ c.tx = None
      /\ c.tok # None => c.tok \in tokens \ void /\ c.tok.app = a
  BY CallerFacts DEF Callers
<1>. DEFINE r == [c EXCEPT !.op = "patch", !.ep = e, !.set = b]
<1>3. r \in Asked /\ r.op = "patch" /\ r.ep = e /\ r.set = b /\ r.app = a /\ r.tx = None /\ r.tok = c.tok /\ r.by = c.by
  <2>1. r \in Asked
    BY <1>c DEF Asked, Ops
  <2>2. r.op = "patch" /\ r.ep = e /\ r.set = b /\ r.app = a /\ r.tx = None /\ r.tok = c.tok /\ r.by = c.by
    BY <1>c, <1>2 DEF Asked
  <2>. QED
    BY <2>1, <2>2
<1>4. Begin(s, r)
  BY <1>1
<1>. HIDE DEF r
<1>5. ASSUME c.by # "admin", b.url # None PROVE endpoint[e] # None /\ b.url \in given[e]
  <2>1. IsRow(endpoint[e])
    BY <1>5 DEF PatchEndpoint, InApp
  <2>2. b.url = endpoint[e].url
    BY <1>1, <1>5, <2>1 DEF MayRepoint
  <2>. QED
    BY <2>1, <2>2 DEF ApiInv, UrlsGiven, LiveEndpoints, IsRow
<1>6. EditFits(r, endpoint, given) /\ LinkFits(r, app)
  BY <1>2, <1>3, <1>5 DEF EditFits, LinkFits
<1>. QED
  BY <1>2, <1>3, <1>4, <1>6, BeginGood DEF PatchEndpoint

LEMMA DeleteEndpointGood ==
  ASSUME ApiInv, NEW s \in Slots, NEW a \in Apps, NEW e \in EndpointIds, DeleteEndpoint(s, a, e) PROVE ApiGood
<1>1. PICK c \in Caller({"admin"}, a) : Begin(s, [c EXCEPT !.op = "delete", !.ep = e])
  BY DEF DeleteEndpoint
<1>c. c \in Asked
  BY CallerFacts DEF Callers
<1>2. /\ c \in Asked /\ c.app = a /\ c.tx = None
      /\ c.tok # None => c.tok \in tokens \ void /\ c.tok.app = a
  BY CallerFacts DEF Callers
<1>. DEFINE r == [c EXCEPT !.op = "delete", !.ep = e]
<1>3. r \in Asked /\ r.op = "delete" /\ r.ep = e /\ r.app = a /\ r.tx = None /\ r.tok = c.tok
  <2>1. r \in Asked
    BY <1>c DEF Asked, Ops
  <2>2. r.op = "delete" /\ r.ep = e /\ r.app = a /\ r.tx = None /\ r.tok = c.tok
    BY <1>c, <1>2 DEF Asked
  <2>. QED
    BY <2>1, <2>2
<1>4. Begin(s, r)
  BY <1>1
<1>. HIDE DEF r
<1>5. EditFits(r, endpoint, given) /\ LinkFits(r, app)
  BY <1>2, <1>3 DEF EditFits, LinkFits
<1>. QED
  BY <1>2, <1>3, <1>4, <1>5, BeginGood DEF DeleteEndpoint

LEMMA RotateEndpointGood ==
  ASSUME ApiInv, NEW s \in Slots, NEW a \in Apps, NEW e \in EndpointIds, NEW k \in BOOLEAN,
         RotateEndpointSecret(s, a, e, k) PROVE ApiGood
<1>. DEFINE new == IF k THEN started + 1 ELSE 0
            old == endpoint[e].secret
<1>1. PICK c \in Caller({"admin"}, a) :
         Begin(s, [c EXCEPT !.op = "rotate", !.ep = e, !.key = old, !.set = new])
  BY DEF RotateEndpointSecret
<1>c. c \in Asked
  BY CallerFacts DEF Callers
<1>2. /\ c \in Asked /\ c.app = a /\ c.tx = None
      /\ c.tok # None => c.tok \in tokens \ void /\ c.tok.app = a
  BY CallerFacts DEF Callers
<1>3. new \in Secrets
  BY <1>1, Numbers DEF Secrets, Begin
<1>4. old \in Secrets
  BY DEF RotateEndpointSecret, InApp, IsRow, ApiInv, ApiTypeOK, EndpointRow
<1>. DEFINE r == [c EXCEPT !.op = "rotate", !.ep = e, !.key = old, !.set = new]
<1>5. Begin(s, r)
  BY <1>1
<1>. HIDE DEF new, old
<1>6. r \in Asked /\ r.op = "rotate" /\ r.ep = e /\ r.set = new /\ r.app = a /\ r.tx = None /\ r.tok = c.tok
  <2>1. r \in Asked
    BY <1>c, <1>3, <1>4 DEF Asked, Ops
  <2>2. r.op = "rotate" /\ r.ep = e /\ r.set = new /\ r.app = a /\ r.tx = None /\ r.tok = c.tok
    BY <1>c, <1>2, <1>3, <1>4 DEF Asked
  <2>. QED
    BY <2>1, <2>2
<1>. HIDE DEF r
<1>7. EditFits(r, endpoint, given) /\ LinkFits(r, app)
  BY <1>2, <1>3, <1>6 DEF EditFits, LinkFits
<1>. QED
  BY <1>2, <1>5, <1>6, <1>7, BeginGood DEF RotateEndpointSecret

LEMMA LinkGood ==
  ASSUME ApiInv, NEW s \in Slots, NEW a \in Apps, CreatePortalAccess(s, a) \/ RevokePortalAccess(s, a)
  PROVE  ApiGood
<1>1. PICK o \in {"link", "revoke"} :
         Begin(s, [NoRequest EXCEPT !.op = o, !.by = "admin", !.app = a, !.epoch = app[a].epoch])
  BY DEF CreatePortalAccess, RevokePortalAccess
<1>. DEFINE now == app[a].epoch
            r == [NoRequest EXCEPT !.op = o, !.by = "admin", !.app = a, !.epoch = now]
<1>2. now \in Nat /\ IsRow(app[a])
  BY DEF CreatePortalAccess, RevokePortalAccess, LiveApps, IsRow, ApiInv, ApiTypeOK, AppRow
<1>3. Begin(s, r) /\ now = app[a].epoch
  BY <1>1
<1>. HIDE DEF now
<1>4. r \in Asked /\ r.op = o /\ r.app = a /\ r.epoch = now /\ r.tx = None /\ r.tok = None
  BY <1>2, NoRequestFacts DEF Asked, Ops, Callers
<1>. HIDE DEF r
<1>5. EditFits(r, endpoint, given) /\ LinkFits(r, app)
  BY <1>2, <1>3, <1>4 DEF EditFits, LinkFits, IsRow
<1>. QED
  BY <1>3, <1>4, <1>5, BeginGood DEF CreatePortalAccess, RevokePortalAccess

LEMMA ReplayDeliveryGood ==
  ASSUME ApiInv, NEW s \in Slots, NEW a \in Apps, NEW e \in EndpointIds, NEW m \in Messages,
         ReplayDelivery(s, a, m, e) PROVE ApiGood
<1>1. PICK c \in Caller({"admin", "member"}, a) : Begin(s, [c EXCEPT !.op = "replay", !.ep = e, !.key = m])
  BY DEF ReplayDelivery
<1>c. c \in Asked
  BY CallerFacts DEF Callers
<1>2. /\ c \in Asked /\ c.app = a /\ c.tx = None
      /\ c.tok # None => c.tok \in tokens \ void /\ c.tok.app = a
  BY CallerFacts DEF Callers
<1>. DEFINE r == [c EXCEPT !.op = "replay", !.ep = e, !.key = m]
<1>3. Begin(s, r) /\ m \in Secrets
  BY <1>1 DEF Messages, Secrets
<1>4. r \in Asked /\ r.op = "replay" /\ r.ep = e /\ r.key = m /\ r.app = a /\ r.tx = None /\ r.tok = c.tok
  <2>1. r \in Asked
    BY <1>c, <1>3 DEF Asked, Ops
  <2>2. r.op = "replay" /\ r.ep = e /\ r.key = m /\ r.app = a /\ r.tx = None /\ r.tok = c.tok
    BY <1>c, <1>2, <1>3 DEF Asked
  <2>. QED
    BY <2>1, <2>2
<1>. HIDE DEF r
<1>5. EditFits(r, endpoint, given) /\ LinkFits(r, app)
  BY <1>2, <1>4 DEF EditFits, LinkFits
<1>6. Belongs(msg, m, a) /\ Belongs(endpoint, e, a)
  BY DEF ReplayDelivery, Belongs, IsRow, InApp
<1>. QED
  BY <1>2, <1>3, <1>4, <1>5, <1>6, BeginGood DEF ReplayDelivery

\* A message is on its way: CreateMessage, TestEndpoint, Seed.
LEMMA PublishBegins ==
  ASSUME ApiInv, NEW s \in Slots, NEW r \in Asked, Begin(s, r), NEW X \in SUBSET EndpointIds,
         steady' = [steady EXCEPT ![started + 1] = X],
         UNCHANGED <<tables, tokens, acked, dropped, void, before, given>>,
         r.op \in {"publish", "test", "ensure", "seed"}, r.tx = None,
         r.tok # None => r.tok \notin void /\ r.app = r.tok.app,
         r.op = "publish" => r.app \in Apps /\ r.key \in EventIds \cup {None},
         r.op # "publish" => r.key = None,
         r.op \in {"publish", "seed"} => \A e \in X : OnFor(endpoint, e, r.app),
         r.op = "ensure" => X = {} /\ r.tok = None,
         r.op = "test" => r.app \in Apps /\ r.ep \in EndpointIds /\ Belongs(endpoint, r.ep, r.app) /\ X \subseteq {r.ep},
         r.op = "seed" => r.app \in Apps /\ IsRow(app[r.app]) /\ app[r.app].op
  PROVE  ApiGood
<1>1. PICK q \in Asked :
            /\ req[s] = NoRequest /\ req' = [req EXCEPT ![s] = q]
            /\ started < MaxRequests /\ started' = started + 1 /\ q.n = started + 1
            /\ q.op = r.op /\ q.by = r.by /\ q.tok = r.tok /\ q.app = r.app /\ q.ep = r.ep /\ q.set = r.set
            /\ q.key = r.key /\ q.epoch = r.epoch /\ q.list = r.list /\ q.tx = r.tx
  BY BeginAsked
<1>2. UNCHANGED <<app, etype, endpoint, msg, dels, tokens, acked, dropped, void, before, given>>
  BY DEF tables
<1>3. etype' \in {None, "live", "archived"}
  BY <1>2 DEF ApiInv, ApiTypeOK
<1>4. started + 1 \in Messages /\ msg[started + 1] = None /\ started + 1 \notin acked
  <2>1. started \in Nat /\ started + 1 \in Messages
    BY <1>1, Numbers
  <2>. QED
    BY <2>1 DEF ApiInv, Numbered
<1>5. steady'[started + 1] = X
  BY <1>4 DEF ApiInv, ApiTypeOK
<1>6. EditFits(q, endpoint, given) /\ LinkFits(q, app)
  BY <1>1 DEF EditFits, LinkFits
<1>7. MessageFits(q, msg, acked)
  BY <1>1, <1>4 DEF MessageFits
<1>8. TargetFits(q, endpoint, steady')
  BY <1>1, <1>5 DEF TargetFits
<1>9. AppFits(q, app) /\ q.tx = None
  BY <1>1 DEF AppFits
<1>. QED
  BY <1>1, <1>2, <1>3, <1>6, <1>7, <1>8, <1>9, StillGood

LEMMA OnFacts ==
  ASSUME NEW a PROVE On(a) \subseteq EndpointIds /\ \A e \in On(a) : OnFor(endpoint, e, a)
  BY DEF On, LiveEndpoints, OnFor

LEMMA CreateMessageGood ==
  ASSUME ApiInv, NEW s \in Slots, NEW a \in Apps, NEW k \in EventIds \cup {None}, CreateMessage(s, a, k)
  PROVE  ApiGood
<1>. DEFINE r == [NoRequest EXCEPT !.op = "publish", !.by = "admin", !.app = a, !.key = k]
<1>1. Begin(s, r) /\ steady' = [steady EXCEPT ![started + 1] = On(a)]
  BY DEF CreateMessage
<1>2. r \in Asked
  BY NoRequestFacts DEF Asked, Ops, Callers
<1>3. r.op = "publish" /\ r.app = a /\ r.key = k /\ r.tx = None /\ r.tok = None
  BY NoRequestFacts DEF Asked
<1>. HIDE DEF r
<1>. QED
  BY <1>1, <1>2, <1>3, OnFacts, PublishBegins DEF CreateMessage

LEMMA TestEndpointGood ==
  ASSUME ApiInv, NEW s \in Slots, NEW a \in Apps, NEW e \in EndpointIds, TestEndpoint(s, a, e)
  PROVE  ApiGood
<1>1. PICK c \in Caller({"admin", "member"}, a) : Begin(s, [c EXCEPT !.op = "test", !.ep = e])
  BY DEF TestEndpoint
<1>c. c \in Asked
  BY CallerFacts DEF Callers
<1>2. /\ c \in Asked /\ c.app = a /\ c.tx = None /\ c.key = None
      /\ c.tok # None => c.tok \in tokens \ void /\ c.tok.app = a
  BY CallerFacts DEF Callers
<1>. DEFINE r == [c EXCEPT !.op = "test", !.ep = e]
<1>3. r \in Asked
  BY <1>c DEF Asked, Ops
<1>4. r.op = "test" /\ r.ep = e /\ r.app = a /\ r.tx = None /\ r.key = None /\ r.tok = c.tok
  BY <1>c, <1>2 DEF Asked
<1>5. Begin(s, r) /\ steady' = [steady EXCEPT ![started + 1] = {e}]
  BY <1>1 DEF TestEndpoint
<1>6. Belongs(endpoint, e, a)
  BY DEF TestEndpoint, Belongs, IsRow, InApp
<1>. HIDE DEF r
<1>7. {e} \in SUBSET EndpointIds /\ {e} \subseteq {r.ep}
  BY <1>4
<1>. QED
  BY <1>2, <1>3, <1>4, <1>5, <1>6, <1>7, PublishBegins DEF TestEndpoint

LEMMA SeedGood ==
  ASSUME ApiInv, NEW s \in Slots, NEW event \in BOOLEAN, Seed(s, event) PROVE ApiGood
<1>. DEFINE found == {a \in LiveApps : app[a].op}
            X == {e \in LiveEndpoints : endpoint[e].app \in found /\ endpoint[e].on}
            r == [NoRequest EXCEPT !.set = event]
<1>1. /\ Begin(s, IF found = {} THEN [r EXCEPT !.op = "ensure"]
                  ELSE [r EXCEPT !.op = "seed", !.app = CHOOSE a \in found : TRUE])
      /\ steady' = [steady EXCEPT ![started + 1] = X]
      /\ UNCHANGED <<tables, tokens, acked, dropped, void, before, given>>
  BY DEF Seed
<1>2. r \in Asked
  BY NoRequestFacts DEF Asked
<1>3. r.key = None /\ r.tx = None /\ r.tok = None
  BY NoRequestFacts DEF Asked
<1>4. X \in SUBSET EndpointIds
  BY DEF LiveEndpoints
<1>. HIDE DEF r
<1>5. CASE found = {}
  <2>. DEFINE q == [r EXCEPT !.op = "ensure"]
  <2>1. q \in Asked
    BY <1>2 DEF Asked, Ops
  <2>2. q.op = "ensure" /\ q.key = None /\ q.tx = None /\ q.tok = None
    BY <1>2, <1>3 DEF Asked
  <2>3. Begin(s, q) /\ X = {}
    BY <1>1, <1>5
  <2>. HIDE DEF q, X, found
  <2>. QED
    BY <1>1, <1>4, <2>1, <2>2, <2>3, PublishBegins
<1>6. CASE found # {}
  <2>. DEFINE a0 == CHOOSE a \in found : TRUE
              q == [r EXCEPT !.op = "seed", !.app = a0]
  <2>1. a0 \in found
    BY <1>6
  <2>2. a0 \in Apps /\ IsRow(app[a0]) /\ app[a0].op /\ \A a \in found : a = a0
    BY <2>1 DEF LiveApps, ApiInv, OneOperational
  <2>3. Begin(s, q)
    BY <1>1, <1>6
  <2>4. \A e \in X : OnFor(endpoint, e, a0)
    BY <2>2 DEF OnFor, LiveEndpoints
  <2>. HIDE DEF a0, X, found
  <2>5. q \in Asked
    BY <1>2, <2>2 DEF Asked, Ops
  <2>6. q.op = "seed" /\ q.app = a0 /\ q.key = None /\ q.tx = None /\ q.tok = None
    BY <1>2, <1>3 DEF Asked
  <2>. HIDE DEF q
  <2>. QED
    BY <1>1, <1>4, <2>2, <2>3, <2>4, <2>5, <2>6, PublishBegins
<1>. QED
  BY <1>5, <1>6

-----------------------------------------------------------------------------
(* Requests that move on. *)

LEMMA NoRequestFits ==
  ASSUME NEW ap, NEW en, NEW gv, NEW ms, NEW ak, NEW st
  PROVE  /\ EditFits(NoRequest, en, gv) /\ LinkFits(NoRequest, ap) /\ MessageFits(NoRequest, ms, ak)
         /\ TargetFits(NoRequest, en, st) /\ AppFits(NoRequest, ap)
  BY NoRequestFacts DEF EditFits, LinkFits, MessageFits, TargetFits, AppFits, Unborn

LEMMA SlotFacts ==
  ASSUME ApiInv, NEW s \in Slots
  PROVE  /\ req[s] \in Asked /\ EditFits(req[s], endpoint, given) /\ LinkFits(req[s], app)
         /\ MessageFits(req[s], msg, acked) /\ TargetFits(req[s], endpoint, steady) /\ AppFits(req[s], app)
         /\ etype \in {None, "live", "archived"}
  BY DEF ApiInv, RequestsFit, ApiTypeOK

LEMMA Proceeds ==
  ASSUME ApiInv, NEW s \in Slots, NEW o \in Ops, Proceed(s, o)
  PROVE  \E q \in Asked :
            /\ req' = [req EXCEPT ![s] = q] /\ q.op = o
            /\ q.n = req[s].n /\ q.by = req[s].by /\ q.tok = req[s].tok /\ q.app = req[s].app /\ q.ep = req[s].ep
            /\ q.set = req[s].set /\ q.key = req[s].key /\ q.list = req[s].list /\ q.tx = req[s].tx
<1>. DEFINE r == req[s]
            q == [r EXCEPT !.op = o]
<1>1. r \in Asked /\ req' = [req EXCEPT ![s] = q]
  BY DEF ApiInv, Proceed
<1>. HIDE DEF r
<1>2. q \in Asked
  BY <1>1 DEF Asked
<1>3. /\ q.op = o /\ q.n = r.n /\ q.by = r.by /\ q.tok = r.tok /\ q.app = r.app /\ q.ep = r.ep
      /\ q.set = r.set /\ q.key = r.key /\ q.list = r.list /\ q.tx = r.tx
  BY <1>1 DEF Asked
<1>. HIDE DEF q
<1>. QED
  BY <1>1, <1>2, <1>3 DEF r

LEMMA FailGood == ASSUME ApiInv, NEW s \in Slots, Fail(s) PROVE ApiGood
<1>1. /\ req' = [req EXCEPT ![s] = NoRequest]
      /\ UNCHANGED <<app, etype, endpoint, msg, dels, tokens, started, steady, acked, dropped, void, before, given>>
  BY DEF Fail, End, tables, history
<1>2. etype' \in {None, "live", "archived"}
  BY <1>1, SlotFacts
<1>. DEFINE q == NoRequest
<1>3. /\ EditFits(q, endpoint, given) /\ LinkFits(q, app) /\ MessageFits(q, msg, acked)
      /\ TargetFits(q, endpoint, steady') /\ AppFits(q, app)
  BY NoRequestFits
<1>4. q \in Asked /\ q.tx = None /\ q.tok = None /\ q = NoRequest
  BY NoRequestFacts
<1>. HIDE DEF q
<1>. QED
  BY <1>1, <1>2, <1>3, <1>4, StillGood

LEMMA InsertMessageGood == ASSUME ApiInv, NEW s \in Slots, InsertMessage(s) PROVE ApiGood
<1>. DEFINE r == req[s]
            row == [app |-> r.app, key |-> r.key]
            q == [r EXCEPT !.op = "list", !.tx = row]
<1>0. /\ r \in Asked /\ EditFits(r, endpoint, given) /\ LinkFits(r, app) /\ MessageFits(r, msg, acked)
      /\ TargetFits(r, endpoint, steady) /\ AppFits(r, app) /\ etype \in {None, "live", "archived"}
  BY SlotFacts
<1>1. /\ r.op = "publish" /\ r.app \in LiveApps /\ ~Awaited(s) /\ SameKey(s) = {} /\ req' = [req EXCEPT ![s] = q]
      /\ UNCHANGED <<app, etype, endpoint, msg, dels, tokens, started, steady, acked, dropped, void, before, given>>
  BY DEF InsertMessage, Row, tables, history
<1>2. row \in MessageRow
  BY <1>0, <1>1 DEF MessageRow, MessageFits, LiveApps
<1>3. row # None /\ row.key = r.key
  BY <1>2, Marks
<1>4. row.key # None => /\ \A m \in Messages : ~(IsRow(msg[m]) /\ msg[m] = row)
                        /\ \A t \in Slots \ {s} : req[t].tx # row
  BY <1>1, <1>3 DEF SameKey, Awaited, Row, LiveMessages
<1>5. r # NoRequest
  BY <1>1, NoRequestFacts
<1>6. row = [app |-> r.app, key |-> r.key]
  OBVIOUS
<1>7. r = req[s]
  OBVIOUS
<1>. HIDE DEF row, r
<1>8. q \in Asked
  BY <1>0, <1>2 DEF Asked, Ops
<1>9. q.op = "list" /\ q.tx = row /\ q.n = r.n /\ q.app = r.app /\ q.key = r.key /\ q.tok = r.tok
  BY <1>0 DEF Asked
<1>. HIDE DEF q
<1>10. /\ EditFits(q, endpoint, given) /\ LinkFits(q, app)
  BY <1>0, <1>9 DEF EditFits, LinkFits
<1>11. MessageFits(q, msg, acked)
  BY <1>0, <1>1, <1>9 DEF MessageFits, Unborn
<1>12. TargetFits(q, endpoint, steady')
  BY <1>0, <1>1, <1>9 DEF TargetFits
<1>13. AppFits(q, app)
  BY <1>1, <1>3, <1>6, <1>9 DEF AppFits, LiveApps
<1>. QED
  BY <1>0, <1>1, <1>4, <1>5, <1>7, <1>8, <1>9, <1>10, <1>11, <1>12, <1>13, StillGood

LEMMA InsertConflictsGood == ASSUME ApiInv, NEW s \in Slots, InsertConflicts(s) PROVE ApiGood
<1>. DEFINE r == req[s]
<1>0. /\ r \in Asked /\ EditFits(r, endpoint, given) /\ LinkFits(r, app) /\ MessageFits(r, msg, acked)
      /\ TargetFits(r, endpoint, steady) /\ AppFits(r, app) /\ etype \in {None, "live", "archived"}
  BY SlotFacts
<1>1. /\ r.op = "publish" /\ Proceed(s, "replayed")
      /\ UNCHANGED <<app, etype, endpoint, msg, dels, tokens, started, steady, acked, dropped, void, before, given>>
  BY DEF InsertConflicts, tables, history
<1>2. PICK q \in Asked :
            /\ req' = [req EXCEPT ![s] = q] /\ q.op = "replayed"
            /\ q.n = r.n /\ q.by = r.by /\ q.tok = r.tok /\ q.app = r.app /\ q.ep = r.ep
            /\ q.set = r.set /\ q.key = r.key /\ q.list = r.list /\ q.tx = r.tx
  <2>1. "replayed" \in Ops
    BY DEF Ops
  <2>. QED
    BY <1>1, <2>1, Proceeds
<1>3. r # NoRequest /\ r.tx = None
  BY <1>0, <1>1, NoRequestFacts DEF AppFits
<1>4. r = req[s]
  OBVIOUS
<1>. HIDE DEF r
<1>5. /\ EditFits(q, endpoint, given) /\ LinkFits(q, app)
  BY <1>0, <1>2 DEF EditFits, LinkFits
<1>6. MessageFits(q, msg, acked)
  BY <1>0, <1>1, <1>2 DEF MessageFits, Unborn
<1>7. TargetFits(q, endpoint, steady') /\ AppFits(q, app)
  BY <1>2, <1>3 DEF TargetFits, AppFits
<1>. QED
  BY <1>0, <1>1, <1>2, <1>3, <1>4, <1>5, <1>6, <1>7, StillGood

\* ListMatchingEndpoints, by a publish or an operational event.
LEMMA ListGood == ASSUME ApiInv, NEW s \in Slots, ListMatchingEndpoints(s) \/ MatchEvent(s) PROVE ApiGood
<1>1. PICK o \in {"fanout", "spread"} :
        /\ req[s].op = IF o = "fanout" THEN "list" ELSE "match"
        /\ req' = [req EXCEPT ![s] = [@ EXCEPT !.op = o, !.list = On(req[s].app)]]
  BY DEF ListMatchingEndpoints, MatchEvent
<1>. DEFINE r == req[s]
            L == On(r.app)
            q == [r EXCEPT !.op = o, !.list = L]
<1>0. /\ r \in Asked /\ EditFits(r, endpoint, given) /\ LinkFits(r, app) /\ MessageFits(r, msg, acked)
      /\ TargetFits(r, endpoint, steady) /\ AppFits(r, app) /\ etype \in {None, "live", "archived"}
  BY SlotFacts
<1>2. /\ req' = [req EXCEPT ![s] = q]
      /\ UNCHANGED <<app, etype, endpoint, msg, dels, tokens, started, steady, acked, dropped, void, before, given>>
  BY <1>1 DEF ListMatchingEndpoints, MatchEvent, tables, history
<1>3. L \in SUBSET EndpointIds /\ \A e \in L : OnFor(endpoint, e, r.app)
  BY OnFacts
<1>4. \A e \in EndpointIds : OnFor(endpoint, e, r.app) => e \in L
  BY DEF On, LiveEndpoints, OnFor
<1>5. r # NoRequest /\ r = req[s]
  BY <1>1, NoRequestFacts
<1>. HIDE DEF r, L
<1>6. q \in Asked
  BY <1>0, <1>3 DEF Asked, Ops
<1>7. q.op = o /\ q.list = L /\ q.n = r.n /\ q.app = r.app /\ q.key = r.key /\ q.tok = r.tok /\ q.tx = r.tx
  BY <1>0 DEF Asked
<1>. HIDE DEF q
<1>8. EditFits(q, endpoint, given) /\ LinkFits(q, app)
  BY <1>0, <1>7 DEF EditFits, LinkFits
<1>9. MessageFits(q, msg, acked)
  BY <1>0, <1>1, <1>5, <1>7 DEF MessageFits, Unborn
<1>10. TargetFits(q, endpoint, steady')
  <2>1. r.n \in Messages /\ steady[r.n] \subseteq EndpointIds
    BY <1>5, Numbers DEF ApiInv, ApiTypeOK
  <2>2. \A e \in steady[r.n] : OnFor(endpoint, e, r.app)
    BY <1>0, <1>1, <1>5 DEF TargetFits
  <2>3. steady[r.n] \subseteq L
    BY <1>4, <2>1, <2>2
  <2>4. \A e \in L : Belongs(endpoint, e, r.app)
    BY <1>3 DEF OnFor, Belongs, IsRow
  <2>. QED
    BY <1>2, <1>7, <2>3, <2>4 DEF TargetFits
<1>11. AppFits(q, app)
  BY <1>0, <1>1, <1>5, <1>7 DEF AppFits
<1>. QED
  BY <1>0, <1>2, <1>5, <1>6, <1>7, <1>8, <1>9, <1>10, <1>11, StillGood

LEMMA EnsureFindsNothingGood == ASSUME ApiInv, NEW s \in Slots, EnsureFindsNothing(s) PROVE ApiGood
<1>. DEFINE r == req[s]
<1>0. /\ r \in Asked /\ EditFits(r, endpoint, given) /\ LinkFits(r, app) /\ MessageFits(r, msg, acked)
      /\ TargetFits(r, endpoint, steady) /\ AppFits(r, app) /\ etype \in {None, "live", "archived"}
  BY SlotFacts
<1>1. /\ r.op = "ensure" /\ Proceed(s, "fallback") /\ \E a \in Apps : IsRow(app[a]) /\ app[a].op
      /\ UNCHANGED <<app, etype, endpoint, msg, dels, tokens, started, steady, acked, dropped, void, before, given>>
  BY DEF EnsureFindsNothing, tables, history, LiveApps
<1>2. PICK q \in Asked :
            /\ req' = [req EXCEPT ![s] = q] /\ q.op = "fallback"
            /\ q.n = r.n /\ q.by = r.by /\ q.tok = r.tok /\ q.app = r.app /\ q.ep = r.ep
            /\ q.set = r.set /\ q.key = r.key /\ q.list = r.list /\ q.tx = r.tx
  <2>1. "fallback" \in Ops
    BY DEF Ops
  <2>. QED
    BY <1>1, <2>1, Proceeds
<1>3. r # NoRequest /\ r.tx = None
  BY <1>0, <1>1, NoRequestFacts DEF AppFits
<1>4. r = req[s]
  OBVIOUS
<1>. HIDE DEF r
<1>5. EditFits(q, endpoint, given) /\ LinkFits(q, app)
  BY <1>0, <1>1, <1>2 DEF EditFits, LinkFits
<1>6. MessageFits(q, msg, acked)
  BY <1>0, <1>1, <1>2 DEF MessageFits, Unborn
<1>7. TargetFits(q, endpoint, steady') /\ AppFits(q, app)
  BY <1>0, <1>1, <1>2, <1>3 DEF TargetFits, AppFits
<1>. QED
  BY <1>0, <1>1, <1>2, <1>3, <1>4, <1>5, <1>6, <1>7, StillGood

\* There is an operational application by now, and it does not go away.
LEMMA FallbackGood == ASSUME ApiInv, NEW s \in Slots, Fallback(s) PROVE ApiGood
<1>. DEFINE r == req[s]
<1>0. /\ r \in Asked /\ EditFits(r, endpoint, given) /\ LinkFits(r, app) /\ MessageFits(r, msg, acked)
      /\ TargetFits(r, endpoint, steady) /\ AppFits(r, app) /\ etype \in {None, "live", "archived"}
  BY SlotFacts
<1>1. r.op = "fallback"
  BY DEF Fallback
<1>2. GetOperationalApp # {}
  BY <1>0, <1>1 DEF AppFits, GetOperationalApp, LiveApps
<1>3. PICK a \in GetOperationalApp : req' = [req EXCEPT ![s] = [@ EXCEPT !.op = "seed", !.app = a]] /\ UNCHANGED dropped
  BY <1>2 DEF Fallback
<1>4. UNCHANGED <<app, etype, endpoint, msg, dels, tokens, started, steady, acked, void, before, given>>
  BY DEF Fallback, tables
<1>5. a \in Apps /\ IsRow(app[a]) /\ app[a].op
  BY DEF GetOperationalApp, LiveApps
<1>. DEFINE q == [r EXCEPT !.op = "seed", !.app = a]
<1>6. req' = [req EXCEPT ![s] = q] /\ r = req[s]
  BY <1>3
<1>7. r # NoRequest /\ r.tx = None /\ r.n \in Messages /\ r.key = None /\ steady[r.n] = {}
  BY <1>0, <1>1, Numbers DEF AppFits, TargetFits, MessageFits
<1>. HIDE DEF r
<1>8. q \in Asked
  BY <1>0, <1>5 DEF Asked, Ops
<1>9. q.op = "seed" /\ q.app = a /\ q.n = r.n /\ q.key = r.key /\ q.tok = r.tok /\ q.tx = r.tx
  BY <1>0 DEF Asked
<1>. HIDE DEF q
<1>10. EditFits(q, endpoint, given) /\ LinkFits(q, app)
  <2>1. q.tok = None
    BY <1>0, <1>1, <1>9 DEF EditFits
  <2>. QED
    BY <1>9, <2>1 DEF EditFits, LinkFits
<1>11. MessageFits(q, msg, acked)
  BY <1>0, <1>1, <1>7, <1>9 DEF MessageFits, Unborn
<1>12. TargetFits(q, endpoint, steady') /\ AppFits(q, app)
  BY <1>4, <1>5, <1>7, <1>9 DEF TargetFits, AppFits
<1>. QED
  BY <1>0, <1>3, <1>4, <1>6, <1>7, <1>8, <1>9, <1>10, <1>11, <1>12, StillGood

LEMMA SeedEventTypesGood == ASSUME ApiInv, NEW s \in Slots, SeedEventTypes(s) PROVE ApiGood
<1>. DEFINE r == req[s]
<1>0. /\ r \in Asked /\ EditFits(r, endpoint, given) /\ LinkFits(r, app) /\ MessageFits(r, msg, acked)
      /\ TargetFits(r, endpoint, steady) /\ AppFits(r, app) /\ etype \in {None, "live", "archived"}
  BY SlotFacts
<1>1. /\ r.op = "seed" /\ (Proceed(s, "emit") \/ End(s))
      /\ UNCHANGED <<app, endpoint, msg, dels, tokens, started, steady, acked, dropped, void, before, given>>
      /\ etype' \in {None, "live", "archived"}
  BY <1>0 DEF SeedEventTypes, SeedEventType, history
<1>2. r # NoRequest /\ r.tx = None
  BY <1>0, <1>1, NoRequestFacts DEF AppFits
<1>3. r = req[s]
  OBVIOUS
<1>. HIDE DEF r
<1>4. CASE Proceed(s, "emit")
  <2>1. PICK q \in Asked :
            /\ req' = [req EXCEPT ![s] = q] /\ q.op = "emit"
            /\ q.n = r.n /\ q.by = r.by /\ q.tok = r.tok /\ q.app = r.app /\ q.ep = r.ep
            /\ q.set = r.set /\ q.key = r.key /\ q.list = r.list /\ q.tx = r.tx
    <3>1. "emit" \in Ops
      BY DEF Ops
    <3>. QED
      BY <1>3, <1>4, <3>1, Proceeds
  <2>2. EditFits(q, endpoint, given) /\ LinkFits(q, app)
    BY <1>0, <2>1 DEF EditFits, LinkFits
  <2>3. MessageFits(q, msg, acked)
    BY <1>0, <1>1, <2>1 DEF MessageFits, Unborn
  <2>4. TargetFits(q, endpoint, steady') /\ AppFits(q, app)
    BY <1>0, <1>1, <1>2, <2>1 DEF TargetFits, AppFits
  <2>. QED
    BY <1>1, <1>2, <1>3, <2>1, <2>2, <2>3, <2>4, StillGood
<1>5. CASE End(s)
  <2>. DEFINE q == NoRequest
  <2>1. /\ EditFits(q, endpoint, given) /\ LinkFits(q, app) /\ MessageFits(q, msg, acked)
        /\ TargetFits(q, endpoint, steady') /\ AppFits(q, app)
    BY NoRequestFits
  <2>2. q \in Asked /\ q.tx = None /\ q.tok = None /\ q = NoRequest /\ req' = [req EXCEPT ![s] = q]
    BY <1>5, NoRequestFacts DEF End
  <2>. HIDE DEF q
  <2>. QED
    BY <1>1, <2>1, <2>2, StillGood
<1>. QED
  BY <1>1, <1>4, <1>5

\* A step of a request that writes: what becomes of the requests.
LEMMA Moved ==
  ASSUME ApiInv, ApiTypeOK', Onward, NEW s \in Slots, NEW q \in Asked, req' = [req EXCEPT ![s] = q],
         started' = started, q = NoRequest \/ (req[s] # NoRequest /\ q.n = req[s].n),
         q.tx = None \/ q.tx = req[s].tx,
         EditFits(q, endpoint', given'), LinkFits(q, app'), MessageFits(q, msg', acked'),
         TargetFits(q, endpoint', steady'), AppFits(q, app'),
         \A m \in Messages : msg'[m] # None \/ m \in acked' => msg[m] # None \/ m \in acked \/ m = req[s].n,
         \A t \in Slots \ {s} : req[t].op \in Unborn => msg'[req[t].n] = None /\ req[t].n \notin acked',
         q = NoRequest /\ req[s].tok # None =>
            \A e \in LiveEndpoints : endpoint'[e] # endpoint[e] => endpoint[e].app = req[s].tok.app
  PROVE  /\ req' \in [Slots -> Asked] /\ RequestsFit' /\ Numbered' /\ Contained
         /\ \A t \in Slots : req'[t].tx = None \/ req'[t].tx = req[t].tx
<1>1. /\ req' \in [Slots -> Asked] /\ req'[s] = q /\ \A t \in Slots \ {s} : req'[t] = req[t]
      /\ RequestsFit'
  BY RequestsMove
<1>2. Numbered'
  BY NumbersMove
<1>3. Contained
  BY <1>1, NoRequestFacts DEF Contained
<1>. QED
  BY <1>1, <1>2, <1>3

\* The last step of a request.
LEMMA Ended ==
  ASSUME ApiInv, ApiTypeOK', Onward, NEW s \in Slots, End(s), started' = started,
         \A m \in Messages : msg'[m] # None \/ m \in acked' => msg[m] # None \/ m \in acked \/ m = req[s].n,
         \A t \in Slots \ {s} : req[t].op \in Unborn => msg'[req[t].n] = None /\ req[t].n \notin acked',
         req[s].tok # None =>
            \A e \in LiveEndpoints : endpoint'[e] # endpoint[e] => endpoint[e].app = req[s].tok.app
  PROVE  /\ req' \in [Slots -> Asked] /\ RequestsFit' /\ Numbered' /\ Contained
         /\ \A t \in Slots : req'[t].tx = None \/ req'[t].tx = req[t].tx
<1>. DEFINE q == NoRequest
<1>1. /\ EditFits(q, endpoint', given') /\ LinkFits(q, app') /\ MessageFits(q, msg', acked')
      /\ TargetFits(q, endpoint', steady') /\ AppFits(q, app')
  BY NoRequestFits
<1>2. q \in Asked /\ q.tx = None /\ q.tok = None /\ q = NoRequest /\ req' = [req EXCEPT ![s] = q]
  BY NoRequestFacts DEF End
<1>. HIDE DEF q
<1>. QED
  BY <1>1, <1>2, Moved

\* What a step leaves alone.
LEMMA Stays ==
  ASSUME ApiInv
  PROVE  /\ UNCHANGED app => AppsOnward
         /\ UNCHANGED <<endpoint, given>> => EndpointsOnward
         /\ UNCHANGED msg => MessagesOnward
         /\ UNCHANGED <<endpoint, steady>> => SteadyOnward
         /\ \A t \in Slots : req[t].op \in Unborn => msg[req[t].n] = None /\ req[t].n \notin acked
<1>1. UNCHANGED app => AppsOnward
  BY DEF ApiInv, AppsOnward, ApiTypeOK, AppRow, IsRow
<1>2. UNCHANGED <<endpoint, given>> => EndpointsOnward
  BY DEF EndpointsOnward
<1>3. UNCHANGED msg => MessagesOnward
  BY DEF MessagesOnward
<1>4. UNCHANGED <<endpoint, steady>> => SteadyOnward
  BY DEF SteadyOnward
<1>5. \A t \in Slots : req[t].op \in Unborn => msg[req[t].n] = None /\ req[t].n \notin acked
  BY DEF ApiInv, RequestsFit, MessageFits
<1>. QED
  BY <1>1, <1>2, <1>3, <1>4, <1>5

LEMMA KeysStay ==
  ASSUME ApiInv, \A t \in Slots : req'[t].tx = None \/ req'[t].tx = req[t].tx,
         \A m \in Messages : msg'[m] = msg[m] \/ ~IsRow(msg'[m])
  PROVE  KeysApart'
  BY DEF ApiInv, KeysApart, IsRow

\* An endpoint is created.
LEMMA InsertEndpointGood == ASSUME ApiInv, NEW s \in Slots, InsertEndpoint(s) PROVE ApiGood
<1>1. /\ req[s].op = "create" /\ req[s].app \in LiveApps /\ End(s)
      /\ UNCHANGED <<app, etype, msg, dels, tokens, started, steady, acked, dropped, void, before>>
  BY DEF InsertEndpoint
<1>2. PICK e \in Fresh(endpoint) :
          /\ endpoint' = [endpoint EXCEPT ![e] = [app |-> req[s].app, on |-> TRUE, url |-> req[s].set,
                                      secret |-> req[s].n, prev |-> None]]
          /\ given' = [given EXCEPT ![e] = {req[s].set}]
  BY DEF InsertEndpoint
<1>. DEFINE row == [app |-> req[s].app, on |-> TRUE, url |-> req[s].set, secret |-> req[s].n, prev |-> None]
<1>3. e \in EndpointIds /\ endpoint[e] = None
  BY DEF Fresh, ApiInv, ApiTypeOK
<1>4. req[s].set \in Urls /\ req[s].n \in Secrets /\ req[s].app \in Apps
  BY <1>1, SlotFacts, Numbers DEF EditFits, Secrets
<1>5. row \in EndpointRow /\ row.app = req[s].app /\ row.url = req[s].set
  BY <1>4 DEF EndpointRow
<1>6. IsRow(row) /\ row # None
  BY <1>5, Marks DEF IsRow
<1>. HIDE DEF row
<1>7. /\ endpoint' \in [EndpointIds -> EndpointRow \cup {None, Gone}] /\ endpoint'[e] = row
      /\ \A x \in EndpointIds : x # e => endpoint'[x] = endpoint[x]
      /\ given' \in [EndpointIds -> SUBSET Urls] /\ given'[e] = {req[s].set}
      /\ \A x \in EndpointIds : x # e => given'[x] = given[x]
  <2>1. endpoint \in [EndpointIds -> EndpointRow \cup {None, Gone}] /\ given \in [EndpointIds -> SUBSET Urls]
    BY DEF ApiInv, ApiTypeOK
  <2>2. endpoint' = [endpoint EXCEPT ![e] = row] /\ given' = [given EXCEPT ![e] = {req[s].set}]
    BY <1>2 DEF row
  <2>. QED
    BY <1>3, <1>4, <1>5, <2>1, <2>2
<1>8. ~IsRow(endpoint[e])
  BY <1>3 DEF IsRow
<1>9. ApiTypeOK'
  <2>1. LiveApps' = LiveApps /\ LiveMessages' = LiveMessages /\ LiveEndpoints \subseteq LiveEndpoints'
    BY <1>1, <1>7, <1>8 DEF LiveApps, LiveMessages, LiveEndpoints
  <2>2. \A x \in LiveEndpoints' : endpoint'[x].app \in LiveApps'
    BY <1>1, <1>5, <1>7, <2>1 DEF ApiInv, ApiTypeOK, LiveEndpoints
  <2>. QED
    BY <1>1, <1>7, <2>1, <2>2 DEF ApiInv, ApiTypeOK
<1>10. Onward
  <2>1. EndpointsOnward
    BY <1>3, <1>7 DEF EndpointsOnward
  <2>2. SteadyOnward
    <3>1. steady \in [Messages -> SUBSET EndpointIds]
      BY DEF ApiInv, ApiTypeOK
    <3>. QED
      BY <1>1, <1>7, <1>8, <3>1 DEF SteadyOnward, OnFor
  <2>. QED
    BY <1>1, <2>1, <2>2, Stays DEF Onward
<1>11. /\ req' \in [Slots -> Asked] /\ RequestsFit' /\ Numbered' /\ Contained
       /\ \A t \in Slots : req'[t].tx = None \/ req'[t].tx = req[t].tx
  <2>1. \A x \in LiveEndpoints : endpoint'[x] = endpoint[x]
    BY <1>7, <1>8 DEF LiveEndpoints
  <2>. QED
    BY <1>1, <1>9, <1>10, <2>1, Stays, Ended
<1>12. KeysApart' /\ Reached' /\ OneOperational' /\ LinksBehind' /\ OpEventsSurvive'
  <2>1. KeysApart'
    BY <1>1, <1>11, KeysStay
  <2>. QED
    BY <1>1, <2>1 DEF ApiInv, Reached, OneOperational, LinksBehind, OpEventsSurvive
<1>13. Graced'
  BY <1>1, <1>3, <1>6, <1>7 DEF ApiInv, Graced
<1>14. WithinApp'
  <2>1. \A d \in dels : d[2] \in EndpointIds /\ d[2] # e
    BY <1>8 DEF ApiInv, ApiTypeOK, LiveEndpoints
  <2>. QED
    BY <1>1, <1>7, <2>1 DEF ApiInv, WithinApp
<1>15. UrlsGiven'
  BY <1>5, <1>7 DEF ApiInv, UrlsGiven, LiveEndpoints
<1>. QED
  BY <1>9, <1>11, <1>12, <1>13, <1>14, <1>15 DEF ApiInv, ApiGood

\* An endpoint is edited.
LEMMA EndpointEdited ==
  ASSUME ApiInv, NEW e \in EndpointIds, IsRow(endpoint[e]), NEW row \in EndpointRow,
         row.app = endpoint[e].app, endpoint' = [endpoint EXCEPT ![e] = row],
         UNCHANGED <<app, etype, msg, dels, tokens, started, acked, dropped, void>>,
         given' \in [EndpointIds -> SUBSET Urls], \A x \in EndpointIds : given[x] \subseteq given'[x],
         before' \in [EndpointIds -> Secrets \cup {None}],
         steady' \in [Messages -> SUBSET EndpointIds],
         \A m \in Messages : steady'[m] \subseteq steady[m] /\ (e \in steady'[m] => row.on \/ ~endpoint[e].on)
  PROVE  /\ ApiTypeOK' /\ Onward /\ endpoint'[e] = row /\ \A x \in EndpointIds : x # e => endpoint'[x] = endpoint[x]
         /\ Reached' /\ OneOperational' /\ LinksBehind' /\ OpEventsSurvive' /\ WithinApp' /\ LiveEndpoints' = LiveEndpoints
<1>1. /\ endpoint' \in [EndpointIds -> EndpointRow \cup {None, Gone}] /\ endpoint'[e] = row
      /\ \A x \in EndpointIds : x # e => endpoint'[x] = endpoint[x]
  BY DEF ApiInv, ApiTypeOK
<1>2. IsRow(row) /\ row # None
  BY Marks DEF IsRow
<1>3. LiveApps' = LiveApps /\ LiveMessages' = LiveMessages /\ LiveEndpoints' = LiveEndpoints
  BY <1>1, <1>2 DEF LiveApps, LiveMessages, LiveEndpoints
<1>4. \A x \in EndpointIds : IsRow(endpoint[x]) => endpoint'[x].app = endpoint[x].app
  BY <1>1
<1>5. ApiTypeOK'
  <2>1. \A x \in LiveEndpoints' : endpoint'[x].app \in LiveApps'
    BY <1>3, <1>4 DEF ApiInv, ApiTypeOK, LiveEndpoints
  <2>. QED
    BY <1>1, <1>3, <2>1 DEF ApiInv, ApiTypeOK
<1>6. Onward
  <2>1. EndpointsOnward
    <3>1. endpoint[e] # None
      BY DEF IsRow
    <3>. QED
      BY <1>1, <1>2, <3>1 DEF EndpointsOnward
  <2>2. SteadyOnward
    <3>1. ASSUME NEW m \in Messages, NEW x \in steady'[m], NEW a \in Apps, OnFor(endpoint, x, a)
          PROVE  OnFor(endpoint', x, a)
      <4>1. x \in EndpointIds
        OBVIOUS
      <4>2. CASE x = e
        BY <1>1, <1>2, <3>1, <4>2 DEF OnFor
      <4>3. CASE x # e
        BY <1>1, <3>1, <4>1, <4>3 DEF OnFor
      <4>. QED
        BY <4>2, <4>3
    <3>. QED
      BY <3>1 DEF SteadyOnward
  <2>. QED
    BY <2>1, <2>2, Stays DEF Onward
<1>7. Reached' /\ OneOperational' /\ LinksBehind' /\ OpEventsSurvive'
  BY DEF ApiInv, Reached, OneOperational, LinksBehind, OpEventsSurvive
<1>8. WithinApp'
  <2>1. \A d \in dels : d[2] \in EndpointIds /\ IsRow(endpoint[d[2]])
    BY DEF ApiInv, ApiTypeOK, LiveEndpoints
  <2>. QED
    BY <1>4, <2>1 DEF ApiInv, WithinApp
<1>. QED
  BY <1>1, <1>3, <1>5, <1>6, <1>7, <1>8

LEMMA UpdateEndpointGood == ASSUME ApiInv, NEW s \in Slots, UpdateEndpoint(s) PROVE ApiGood
<1>. DEFINE e == req[s].ep
            b == req[s].set
            old == endpoint[e]
            row == [old EXCEPT !.on = IF b.on = None THEN old.on ELSE b.on, !.url = IF b.url = None THEN old.url ELSE b.url]
<1>1. /\ req[s].op = "patch" /\ InApp(e, req[s].app) /\ End(s)
      /\ UNCHANGED <<app, etype, msg, dels, tokens, started, acked, dropped, void, before>>
      /\ endpoint' = [endpoint EXCEPT ![e] = row]
      /\ given' = [given EXCEPT ![e] = IF req[s].by = "admin" THEN @ \cup {endpoint'[e].url} ELSE @]
      /\ steady' = [m \in Messages |-> IF endpoint'[e].on THEN steady[m] ELSE steady[m] \ {e}]
  BY DEF UpdateEndpoint
<1>2. /\ e \in EndpointIds /\ b \in Bodies
      /\ req[s].by # "admin" /\ b.url # None => b.url \in given[e]
      /\ req[s].tok # None => req[s].app = req[s].tok.app
  BY <1>1, SlotFacts DEF EditFits
<1>3. old \in EndpointRow /\ IsRow(old) /\ old.app = req[s].app
  BY <1>1, <1>2 DEF InApp, ApiInv, ApiTypeOK, IsRow
<1>4. b.on \in BOOLEAN \cup {None} /\ b.url \in Urls \cup {None}
  BY <1>2, BodiesTyped
<1>5. old = endpoint[e]
  OBVIOUS
<1>. HIDE DEF old, b
<1>6. /\ row \in EndpointRow /\ row.app = old.app /\ row.prev = old.prev
      /\ row.url = IF b.url = None THEN old.url ELSE b.url
  BY <1>3, <1>4 DEF EndpointRow
<1>. HIDE DEF row, e
<1>7. /\ endpoint'[e] = row
      /\ \A x \in EndpointIds : x # e => endpoint'[x] = endpoint[x]
  BY <1>1, <1>2 DEF ApiInv, ApiTypeOK
<1>8. /\ given' \in [EndpointIds -> SUBSET Urls] /\ \A x \in EndpointIds : given[x] \subseteq given'[x]
      /\ req[s].by = "admin" => row.url \in given'[e]
  <2>1. given \in [EndpointIds -> SUBSET Urls] /\ row.url \in Urls
    BY <1>6 DEF ApiInv, ApiTypeOK, EndpointRow
  <2>. QED
    BY <1>1, <1>2, <1>7, <2>1
<1>9. /\ steady' \in [Messages -> SUBSET EndpointIds]
      /\ \A m \in Messages : steady'[m] \subseteq steady[m] /\ (e \in steady'[m] => row.on \/ ~endpoint[e].on)
  <2>1. steady \in [Messages -> SUBSET EndpointIds]
    BY DEF ApiInv, ApiTypeOK
  <2>. QED
    BY <1>1, <1>7, <2>1
<1>10. before' \in [EndpointIds -> Secrets \cup {None}]
  BY <1>1 DEF ApiInv, ApiTypeOK
<1>11. /\ ApiTypeOK' /\ Onward /\ endpoint'[e] = row /\ \A x \in EndpointIds : x # e => endpoint'[x] = endpoint[x]
       /\ Reached' /\ OneOperational' /\ LinksBehind' /\ OpEventsSurvive' /\ WithinApp' /\ LiveEndpoints' = LiveEndpoints
  <2>1. IsRow(endpoint[e]) /\ row.app = endpoint[e].app /\ endpoint' = [endpoint EXCEPT ![e] = row]
    BY <1>1, <1>3, <1>5, <1>6
  <2>. QED
    BY <1>1, <1>2, <1>6, <1>8, <1>9, <1>10, <2>1, EndpointEdited
<1>12. /\ req' \in [Slots -> Asked] /\ RequestsFit' /\ Numbered' /\ Contained
       /\ \A t \in Slots : req'[t].tx = None \/ req'[t].tx = req[t].tx
  <2>1. ASSUME req[s].tok # None, NEW x \in LiveEndpoints, endpoint'[x] # endpoint[x]
        PROVE  endpoint[x].app = req[s].tok.app
    BY <1>2, <1>3, <1>5, <1>11, <2>1 DEF LiveEndpoints
  <2>. QED
    BY <1>1, <1>11, <2>1, Stays, Ended
<1>13. KeysApart'
  BY <1>1, <1>12, KeysStay
<1>14. Graced'
  <2>1. row # None
    BY <1>6, Marks
  <2>. QED
    BY <1>1, <1>2, <1>3, <1>5, <1>6, <1>11, <2>1 DEF ApiInv, Graced
<1>15. UrlsGiven'
  <2>1. row.url \in given'[e]
    <3>1. old.url \in given[e]
      BY <1>2, <1>3, <1>5 DEF ApiInv, UrlsGiven, LiveEndpoints
    <3>. QED
      BY <1>2, <1>6, <1>8, <3>1
  <2>. QED
    BY <1>8, <1>11, <2>1 DEF ApiInv, UrlsGiven, LiveEndpoints
<1>. QED
  BY <1>11, <1>12, <1>13, <1>14, <1>15 DEF ApiInv, ApiGood

LEMMA RotateSecretGood == ASSUME ApiInv, NEW s \in Slots, RotateSecret(s) PROVE ApiGood
<1>. DEFINE e == req[s].ep
            old == endpoint[e]
            row == [old EXCEPT !.prev = old.secret, !.secret = req[s].set]
<1>1. /\ req[s].op = "rotate" /\ InApp(e, req[s].app) /\ End(s)
      /\ UNCHANGED <<app, etype, msg, dels, tokens, started, steady, acked, dropped, void, given>>
      /\ endpoint' = [endpoint EXCEPT ![e] = row]
      /\ before' = [before EXCEPT ![e] = old.secret]
  BY DEF RotateSecret, PrevSecret
<1>2. /\ e \in EndpointIds /\ req[s].set \in Secrets
      /\ req[s].tok # None => req[s].app = req[s].tok.app
  BY <1>1, SlotFacts DEF EditFits
<1>3. old \in EndpointRow /\ IsRow(old) /\ old.app = req[s].app
  BY <1>1, <1>2 DEF InApp, ApiInv, ApiTypeOK, IsRow
<1>5. old = endpoint[e]
  OBVIOUS
<1>. HIDE DEF old
<1>6. row \in EndpointRow /\ row.app = old.app /\ row.prev = old.secret /\ row.url = old.url /\ row.on = old.on
  BY <1>2, <1>3 DEF EndpointRow
<1>7. old.secret \in Secrets
  BY <1>3 DEF EndpointRow
<1>. HIDE DEF row, e
<1>8. /\ before' \in [EndpointIds -> Secrets \cup {None}] /\ before'[e] = old.secret
      /\ \A x \in EndpointIds : x # e => before'[x] = before[x]
  BY <1>1, <1>2, <1>7 DEF ApiInv, ApiTypeOK
<1>9. /\ steady' \in [Messages -> SUBSET EndpointIds]
      /\ \A m \in Messages : steady'[m] \subseteq steady[m] /\ (e \in steady'[m] => row.on \/ ~endpoint[e].on)
  BY <1>1, <1>5, <1>6 DEF ApiInv, ApiTypeOK
<1>10. given' \in [EndpointIds -> SUBSET Urls] /\ \A x \in EndpointIds : given[x] \subseteq given'[x]
  BY <1>1 DEF ApiInv, ApiTypeOK
<1>11. /\ ApiTypeOK' /\ Onward /\ endpoint'[e] = row /\ \A x \in EndpointIds : x # e => endpoint'[x] = endpoint[x]
       /\ Reached' /\ OneOperational' /\ LinksBehind' /\ OpEventsSurvive' /\ WithinApp' /\ LiveEndpoints' = LiveEndpoints
  <2>1. IsRow(endpoint[e]) /\ row.app = endpoint[e].app /\ endpoint' = [endpoint EXCEPT ![e] = row]
    BY <1>1, <1>3, <1>5, <1>6
  <2>. QED
    BY <1>1, <1>2, <1>6, <1>8, <1>9, <1>10, <2>1, EndpointEdited
<1>12. /\ req' \in [Slots -> Asked] /\ RequestsFit' /\ Numbered' /\ Contained
       /\ \A t \in Slots : req'[t].tx = None \/ req'[t].tx = req[t].tx
  <2>1. ASSUME req[s].tok # None, NEW x \in LiveEndpoints, endpoint'[x] # endpoint[x]
        PROVE  endpoint[x].app = req[s].tok.app
    BY <1>2, <1>3, <1>5, <1>11, <2>1 DEF LiveEndpoints
  <2>. QED
    BY <1>1, <1>11, <2>1, Stays, Ended
<1>13. KeysApart'
  BY <1>1, <1>12, KeysStay
<1>14. Graced'
  <2>1. row # None
    BY <1>6, Marks
  <2>. QED
    BY <1>2, <1>6, <1>8, <1>11, <2>1 DEF ApiInv, Graced
<1>15. UrlsGiven'
  BY <1>1, <1>2, <1>3, <1>5, <1>6, <1>11 DEF ApiInv, UrlsGiven, LiveEndpoints
<1>. QED
  BY <1>11, <1>12, <1>13, <1>14, <1>15 DEF ApiInv, ApiGood

\* Rows go: an application, or an endpoint, with all that depends on it.
LEMMA RemovedRows ==
  ASSUME ApiInv, NEW A \in SUBSET LiveApps, NEW E \in SUBSET LiveEndpoints, Removed(A, E),
         \A a \in A : ~app[a].op /\ ~Locked(a),
         UNCHANGED <<etype, tokens, acked, dropped, void, before, given>>, started' \in 0..MaxRequests
  PROVE  /\ ApiTypeOK' /\ Onward
         /\ Reached' /\ OneOperational' /\ Graced' /\ LinksBehind' /\ WithinApp' /\ UrlsGiven' /\ OpEventsSurvive'
         /\ \A m \in Messages : msg'[m] = msg[m] \/ (msg'[m] = Gone /\ IsRow(msg[m]))
         /\ \A e \in EndpointIds : endpoint'[e] # endpoint[e] => e \in E \/ endpoint[e].app \in A
<1>. DEFINE M == {m \in LiveMessages : msg[m].app \in A}
            F == E \cup {e \in LiveEndpoints : endpoint[e].app \in A}
<1>0. /\ app \in [Apps -> AppRow \cup {None, Gone}] /\ endpoint \in [EndpointIds -> EndpointRow \cup {None, Gone}]
      /\ msg \in [Messages -> MessageRow \cup {None, Gone}] /\ steady \in [Messages -> SUBSET EndpointIds]
      /\ dels \subseteq LiveMessages \X LiveEndpoints
      /\ \A e \in LiveEndpoints : endpoint[e].app \in LiveApps
      /\ \A m \in LiveMessages : msg[m].app \in LiveApps
  BY DEF ApiInv, ApiTypeOK
<1>1. /\ app' = [i \in Apps |-> IF i \in A THEN Gone ELSE app[i]]
      /\ endpoint' = [i \in EndpointIds |-> IF i \in F THEN Gone ELSE endpoint[i]]
      /\ msg' = [i \in Messages |-> IF i \in M THEN Gone ELSE msg[i]]
      /\ dels' = {d \in dels : d[1] \notin M /\ d[2] \notin F}
      /\ steady' = [m \in Messages |-> steady[m] \ F]
  BY <1>0 DEF Removed
<1>2. /\ F \subseteq EndpointIds /\ M \subseteq Messages /\ A \subseteq Apps
      /\ \A a \in A : IsRow(app[a])
      /\ \A e \in F : IsRow(endpoint[e])
      /\ \A m \in M : IsRow(msg[m]) /\ msg[m].app \in A
      /\ \A m \in Messages : IsRow(msg[m]) /\ m \notin M => msg[m].app \in LiveApps \ A
      /\ \A e \in EndpointIds : IsRow(endpoint[e]) /\ e \notin F => endpoint[e].app \in LiveApps \ A
      /\ \A e \in F : e \in E \/ endpoint[e].app \in A
  BY <1>0 DEF LiveApps, LiveEndpoints, LiveMessages
<1>. HIDE DEF F, M
<1>3. /\ \A a \in Apps : app'[a] = IF a \in A THEN Gone ELSE app[a]
      /\ \A e \in EndpointIds : endpoint'[e] = IF e \in F THEN Gone ELSE endpoint[e]
      /\ \A m \in Messages : msg'[m] = IF m \in M THEN Gone ELSE msg[m]
      /\ \A m \in Messages : steady'[m] = steady[m] \ F
  BY <1>1
<1>4. ~IsRow(Gone) /\ None # Gone
  BY Marks DEF IsRow
<1>5. /\ LiveApps' = LiveApps \ A /\ LiveEndpoints' = LiveEndpoints \ F /\ LiveMessages' = LiveMessages \ M
  BY <1>3, <1>4 DEF LiveApps, LiveEndpoints, LiveMessages
<1>6. ApiTypeOK'
  <2>1. /\ app' \in [Apps -> AppRow \cup {None, Gone}] /\ endpoint' \in [EndpointIds -> EndpointRow \cup {None, Gone}]
        /\ msg' \in [Messages -> MessageRow \cup {None, Gone}] /\ steady' \in [Messages -> SUBSET EndpointIds]
    BY <1>0, <1>1
  <2>2. dels' \subseteq LiveMessages' \X LiveEndpoints'
    <3>1. ASSUME NEW d \in dels' PROVE d \in LiveMessages' \X LiveEndpoints'
      <4>1. d \in LiveMessages \X LiveEndpoints /\ d[1] \notin M /\ d[2] \notin F
        BY <1>0, <1>1
      <4>. QED
        BY <4>1, <1>5
    <3>. QED
      BY <3>1
  <2>3. \A e \in LiveEndpoints' : endpoint'[e].app \in LiveApps'
    BY <1>2, <1>3, <1>5 DEF LiveEndpoints
  <2>4. \A m \in LiveMessages' : msg'[m].app \in LiveApps'
    BY <1>2, <1>3, <1>5 DEF LiveMessages
  <2>. QED
    BY <2>1, <2>2, <2>3, <2>4 DEF ApiInv, ApiTypeOK
<1>7. Onward
  <2>1. AppsOnward
    BY <1>0, <1>2, <1>3, <1>4 DEF AppsOnward, AppRow, IsRow
  <2>2. EndpointsOnward /\ MessagesOnward
    BY <1>2, <1>3, <1>4 DEF EndpointsOnward, MessagesOnward
  <2>3. SteadyOnward
    BY <1>0, <1>3 DEF SteadyOnward, OnFor
  <2>. QED
    BY <2>1, <2>2, <2>3 DEF Onward
<1>8. Reached'
  <2>1. SUFFICES ASSUME NEW m \in Messages, IsRow(msg'[m]), m \in acked' \/ msg'[m].key # None, NEW e \in steady'[m]
                 PROVE  <<m, e>> \in dels'
    BY DEF Reached
  <2>2. m \notin M /\ msg'[m] = msg[m] /\ e \in steady[m] /\ e \notin F
    BY <1>3, <1>4, <2>1
  <2>3. <<m, e>> \in dels
    BY <2>1, <2>2 DEF ApiInv, Reached
  <2>. QED
    BY <1>1, <2>2, <2>3
<1>9. OneOperational' /\ LinksBehind' /\ OpEventsSurvive'
  <2>1. OneOperational'
    BY <1>3, <1>4 DEF ApiInv, OneOperational
  <2>2. LinksBehind'
    <3>1. \A t \in tokens : t.app \in Apps
      BY DEF ApiInv, ApiTypeOK
    <3>. QED
      BY <1>3, <1>4, <3>1 DEF ApiInv, LinksBehind
  <2>. QED
    BY <2>1, <2>2 DEF ApiInv, OpEventsSurvive
<1>10. Graced' /\ UrlsGiven'
  BY <1>2, <1>3, <1>4 DEF ApiInv, Graced, UrlsGiven, LiveEndpoints
<1>11. WithinApp'
  <2>1. \A d \in dels' : d \in dels /\ d[1] \in Messages \ M /\ d[2] \in EndpointIds \ F
    BY <1>0, <1>1 DEF LiveMessages, LiveEndpoints
  <2>. QED
    BY <1>3, <2>1 DEF ApiInv, WithinApp
<1>12. \A m \in Messages : msg'[m] = msg[m] \/ (msg'[m] = Gone /\ IsRow(msg[m]))
  BY <1>2, <1>3
<1>13. \A e \in EndpointIds : endpoint'[e] # endpoint[e] => e \in E \/ endpoint[e].app \in A
  BY <1>2, <1>3
<1>. QED
  BY <1>6, <1>7, <1>8, <1>9, <1>10, <1>11, <1>12, <1>13

LEMMA DeleteEndpointForAppGood == ASSUME ApiInv, NEW s \in Slots, DeleteEndpointForApp(s) PROVE ApiGood
<1>. DEFINE e == req[s].ep
<1>1. /\ req[s].op = "delete" /\ InApp(e, req[s].app) /\ Removed({}, {e}) /\ End(s)
      /\ UNCHANGED <<etype, tokens, started, acked, dropped, void, before, given>>
  BY DEF DeleteEndpointForApp
<1>2. e \in LiveEndpoints /\ endpoint[e].app = req[s].app /\ (req[s].tok # None => req[s].app = req[s].tok.app)
  BY <1>1, SlotFacts DEF EditFits, InApp, LiveEndpoints
<1>. HIDE DEF e
<1>3. /\ ApiTypeOK' /\ Onward
      /\ Reached' /\ OneOperational' /\ Graced' /\ LinksBehind' /\ WithinApp' /\ UrlsGiven' /\ OpEventsSurvive'
      /\ \A m \in Messages : msg'[m] = msg[m] \/ (msg'[m] = Gone /\ IsRow(msg[m]))
      /\ \A x \in EndpointIds : endpoint'[x] # endpoint[x] => x \in {e} \/ endpoint[x].app \in {}
  <2>1. {} \in SUBSET LiveApps /\ {e} \in SUBSET LiveEndpoints /\ started' \in 0..MaxRequests
        /\ \A a \in {} : ~app[a].op /\ ~Locked(a)
    BY <1>1, <1>2 DEF ApiInv, ApiTypeOK
  <2>. QED
    BY <1>1, <2>1, RemovedRows
<1>4. \A m \in Messages : msg'[m] # None => msg[m] # None
  BY <1>3 DEF IsRow
<1>5. \A t \in Slots \ {s} : req[t].op \in Unborn => msg'[req[t].n] = None /\ req[t].n \notin acked'
  <2>1. ASSUME NEW t \in Slots, req[t].op \in Unborn PROVE msg'[req[t].n] = None /\ req[t].n \notin acked'
    <3>1. req[t].n \in Messages /\ msg[req[t].n] = None /\ req[t].n \notin acked
      BY <2>1, Stays, Numbers DEF Unborn
    <3>. QED
      BY <1>1, <1>3, <3>1 DEF IsRow
  <2>. QED
    BY <2>1
<1>6. /\ req' \in [Slots -> Asked] /\ RequestsFit' /\ Numbered' /\ Contained
      /\ \A t \in Slots : req'[t].tx = None \/ req'[t].tx = req[t].tx
  <2>1. ASSUME req[s].tok # None, NEW x \in LiveEndpoints, endpoint'[x] # endpoint[x]
        PROVE  endpoint[x].app = req[s].tok.app
    BY <1>2, <1>3, <2>1 DEF LiveEndpoints
  <2>. QED
    BY <1>1, <1>3, <1>4, <1>5, <2>1, Ended
<1>7. KeysApart'
  <2>1. \A m \in Messages : msg'[m] = msg[m] \/ ~IsRow(msg'[m])
    BY <1>3 DEF IsRow
  <2>. QED
    BY <1>6, <2>1, KeysStay
<1>. QED
  BY <1>3, <1>6, <1>7 DEF ApiInv, ApiGood

\* A step of no request: what becomes of the requests.
LEMMA Untouched ==
  ASSUME ApiInv, ApiTypeOK', Onward, UNCHANGED <<req, acked>>,
         started' \in {started, started + 1},
         \A m \in Messages : msg'[m] = msg[m] \/ (msg'[m] = Gone /\ IsRow(msg[m]))
  PROVE  /\ req' \in [Slots -> Asked] /\ RequestsFit' /\ Numbered' /\ KeysApart' /\ Contained
<1>0. started \in Nat /\ \A m \in Messages : m \in Nat
  BY Numbers DEF Messages
<1>1. ASSUME NEW t \in Slots
      PROVE  /\ EditFits(req[t], endpoint', given') /\ LinkFits(req[t], app')
             /\ MessageFits(req[t], msg', acked') /\ TargetFits(req[t], endpoint', steady')
             /\ AppFits(req[t], app')
  <2>1. ASSUME req[t].op \in Unborn PROVE msg'[req[t].n] = None /\ req[t].n \notin acked'
    <3>1. req[t].n \in Messages /\ msg[req[t].n] = None /\ req[t].n \notin acked
      BY <2>1, Stays, Numbers DEF Unborn
    <3>. QED
      BY <3>1 DEF IsRow
  <2>. QED
    BY <2>1, StillFits
<1>2. req' \in [Slots -> Asked] /\ RequestsFit'
  BY <1>1 DEF RequestsFit, ApiInv
<1>3. Numbered'
  <2>1. \A m \in Messages : msg'[m] # None \/ m \in acked' => m <= started
    BY DEF ApiInv, Numbered, IsRow
  <2>2. \A m \in Messages : m <= started => m <= started'
    BY <1>0
  <2>3. \A t \in Slots : req[t] # NoRequest => req[t].n \in 1..started'
    BY <1>0, Numbers
  <2>. QED
    BY <2>1, <2>2, <2>3 DEF ApiInv, Numbered
<1>4. KeysApart'
  <2>1. \A m \in Messages : msg'[m] = msg[m] \/ ~IsRow(msg'[m])
    BY DEF IsRow
  <2>. QED
    BY <2>1, KeysStay
<1>5. Contained
  BY NoRequestFacts DEF Contained
<1>. QED
  BY <1>2, <1>3, <1>4, <1>5

LEMMA DeleteApplicationGood == ASSUME ApiInv, NEW a \in Apps, DeleteApplication(a) PROVE ApiGood
<1>1. /\ started < MaxRequests /\ started' = started + 1 /\ UNCHANGED req
      /\ IsRow(app[a]) /\ ~app[a].op /\ ~Locked(a) /\ Removed({a}, {})
      /\ UNCHANGED <<etype, tokens, acked, dropped, void, before, given>>
  BY DEF DeleteApplication, AtOnce
<1>2. {a} \in SUBSET LiveApps /\ {} \in SUBSET LiveEndpoints /\ started' \in 0..MaxRequests
  BY <1>1, Numbers DEF LiveApps
<1>3. /\ ApiTypeOK' /\ Onward
      /\ Reached' /\ OneOperational' /\ Graced' /\ LinksBehind' /\ WithinApp' /\ UrlsGiven' /\ OpEventsSurvive'
      /\ \A m \in Messages : msg'[m] = msg[m] \/ (msg'[m] = Gone /\ IsRow(msg[m]))
  BY <1>1, <1>2, RemovedRows
<1>. QED
  BY <1>1, <1>3, Untouched DEF ApiInv, ApiGood

LEMMA CreateApplicationGood == ASSUME ApiInv, CreateApplication PROVE ApiGood
<1>1. /\ started < MaxRequests /\ started' = started + 1 /\ UNCHANGED req
      /\ UNCHANGED <<etype, endpoint, msg, dels, tokens, steady, acked, dropped, void, before, given>>
  BY DEF CreateApplication, AtOnce, history
<1>2. PICK a \in Fresh(app) : app' = [app EXCEPT ![a] = [op |-> FALSE, epoch |-> 0]]
  BY DEF CreateApplication
<1>. DEFINE row == [op |-> FALSE, epoch |-> 0]
<1>3. row \in AppRow /\ ~row.op
  BY DEF AppRow
<1>. HIDE DEF row
<1>4. a \in Apps /\ app[a] = None
  BY DEF Fresh, ApiInv, ApiTypeOK
<1>5. /\ app' \in [Apps -> AppRow \cup {None, Gone}] /\ app'[a] = row
      /\ \A x \in Apps : x # a => app'[x] = app[x]
  <2>1. app' = [app EXCEPT ![a] = row]
    BY <1>2 DEF row
  <2>. QED
    BY <1>3, <1>4, <2>1 DEF ApiInv, ApiTypeOK
<1>6. ApiTypeOK'
  <2>1. LiveApps \subseteq LiveApps' /\ LiveEndpoints' = LiveEndpoints /\ LiveMessages' = LiveMessages
    BY <1>1, <1>4, <1>5 DEF LiveApps, LiveEndpoints, LiveMessages, IsRow
  <2>2. started' \in 0..MaxRequests
    BY <1>1, Numbers
  <2>. QED
    BY <1>1, <1>5, <2>1, <2>2 DEF ApiInv, ApiTypeOK
<1>7. Onward
  <2>1. AppsOnward
    <3>1. \A x \in Apps : IsRow(app[x]) => app[x].epoch \in Nat
      BY DEF ApiInv, ApiTypeOK, IsRow, AppRow
    <3>2. \A x \in Apps : app[x] # None => x # a
      BY <1>4
    <3>. QED
      BY <1>5, <3>1, <3>2 DEF AppsOnward
  <2>. QED
    BY <1>1, <2>1, Stays DEF Onward
<1>8. /\ req' \in [Slots -> Asked] /\ RequestsFit' /\ Numbered' /\ KeysApart' /\ Contained
  BY <1>1, <1>6, <1>7, Untouched
<1>9. Reached' /\ Graced' /\ WithinApp' /\ UrlsGiven' /\ OpEventsSurvive'
  BY <1>1 DEF ApiInv, Reached, Graced, WithinApp, UrlsGiven, OpEventsSurvive, LiveEndpoints
<1>10. OneOperational'
  BY <1>3, <1>5 DEF ApiInv, OneOperational
<1>11. LinksBehind'
  <2>1. \A t \in tokens : t.app \in Apps /\ t.app # a
    BY <1>4 DEF ApiInv, ApiTypeOK, LinksBehind
  <2>. QED
    BY <1>1, <1>5, <2>1 DEF ApiInv, LinksBehind
<1>. QED
  BY <1>6, <1>8, <1>9, <1>10, <1>11 DEF ApiInv, ApiGood

LEMMA EventTypesGood ==
  ASSUME ApiInv, CreateEventType \/ DeleteEventType \/ \E archived \in BOOLEAN : PatchEventType(archived)
  PROVE  ApiGood
<1>1. /\ started < MaxRequests /\ started' = started + 1 /\ UNCHANGED req
      /\ UNCHANGED <<app, endpoint, msg, dels, tokens, steady, acked, dropped, void, before, given>>
      /\ etype' \in {None, "live", "archived"}
  BY DEF CreateEventType, DeleteEventType, PatchEventType, AtOnce, history
<1>2. ApiTypeOK'
  <2>1. started' \in 0..MaxRequests
    BY <1>1, Numbers
  <2>2. LiveApps' = LiveApps /\ LiveEndpoints' = LiveEndpoints /\ LiveMessages' = LiveMessages
    BY <1>1 DEF LiveApps, LiveEndpoints, LiveMessages
  <2>. QED
    BY <1>1, <2>1, <2>2 DEF ApiInv, ApiTypeOK
<1>3. Onward
  BY <1>1, Stays DEF Onward
<1>4. /\ req' \in [Slots -> Asked] /\ RequestsFit' /\ Numbered' /\ KeysApart' /\ Contained
  BY <1>1, <1>2, <1>3, Untouched
<1>5. /\ Reached' /\ Graced' /\ WithinApp' /\ UrlsGiven' /\ OpEventsSurvive' /\ OneOperational' /\ LinksBehind'
  BY <1>1 DEF ApiInv, Reached, Graced, WithinApp, UrlsGiven, OpEventsSurvive, LiveEndpoints, OneOperational, LinksBehind
<1>. QED
  BY <1>2, <1>4, <1>5 DEF ApiInv, ApiGood

LEMMA ApiStutters == ASSUME ApiInv, UNCHANGED apiVars PROVE ApiGood
<1>1. UNCHANGED <<app, etype, endpoint, msg, dels, tokens, req, started, steady, acked, dropped, void, before, given>>
  BY DEF apiVars, tables, history
<1>2. ApiTypeOK'
  BY <1>1 DEF ApiInv, ApiTypeOK, LiveApps, LiveEndpoints, LiveMessages
<1>3. Onward
  BY <1>1, Stays DEF Onward
<1>4. /\ req' \in [Slots -> Asked] /\ RequestsFit' /\ Numbered' /\ KeysApart' /\ Contained
  BY <1>1, <1>2, <1>3, Untouched
<1>5. /\ Reached' /\ Graced' /\ WithinApp' /\ UrlsGiven' /\ OpEventsSurvive' /\ OneOperational' /\ LinksBehind'
  BY <1>1 DEF ApiInv, Reached, Graced, WithinApp, UrlsGiven, OpEventsSurvive, LiveEndpoints, OneOperational, LinksBehind
<1>. QED
  BY <1>2, <1>4, <1>5 DEF ApiInv, ApiGood

LEMMA GraceOverGood == ASSUME ApiInv, NEW e \in EndpointIds, GraceOver(e) PROVE ApiGood
<1>. DEFINE old == endpoint[e]
            row == [old EXCEPT !.prev = None]
<1>1. /\ IsRow(old) /\ endpoint' = [endpoint EXCEPT ![e] = row] /\ before' = [before EXCEPT ![e] = None]
      /\ UNCHANGED <<app, etype, msg, dels, tokens, req, started, steady, acked, dropped, void, given>>
  BY DEF GraceOver
<1>2. old \in EndpointRow /\ old = endpoint[e]
  BY <1>1 DEF ApiInv, ApiTypeOK, IsRow
<1>. HIDE DEF old
<1>3. row \in EndpointRow /\ row.app = old.app /\ row.url = old.url /\ row.on = old.on
  BY <1>2 DEF EndpointRow
<1>. HIDE DEF row
<1>4. /\ before' \in [EndpointIds -> Secrets \cup {None}] /\ before'[e] = None
      /\ \A x \in EndpointIds : x # e => before'[x] = before[x]
  BY <1>1 DEF ApiInv, ApiTypeOK
<1>5. /\ steady' \in [Messages -> SUBSET EndpointIds]
      /\ \A m \in Messages : steady'[m] \subseteq steady[m] /\ (e \in steady'[m] => row.on \/ ~endpoint[e].on)
  BY <1>1, <1>2, <1>3 DEF ApiInv, ApiTypeOK
<1>6. given' \in [EndpointIds -> SUBSET Urls] /\ \A x \in EndpointIds : given[x] \subseteq given'[x]
  BY <1>1 DEF ApiInv, ApiTypeOK
<1>7. /\ ApiTypeOK' /\ Onward /\ endpoint'[e] = row /\ \A x \in EndpointIds : x # e => endpoint'[x] = endpoint[x]
      /\ Reached' /\ OneOperational' /\ LinksBehind' /\ OpEventsSurvive' /\ WithinApp' /\ LiveEndpoints' = LiveEndpoints
  BY <1>1, <1>2, <1>3, <1>4, <1>5, <1>6, EndpointEdited
<1>8. /\ req' \in [Slots -> Asked] /\ RequestsFit' /\ Numbered' /\ KeysApart' /\ Contained
  BY <1>1, <1>7, Untouched
<1>9. Graced'
  BY <1>4, <1>7 DEF ApiInv, Graced
<1>10. UrlsGiven'
  BY <1>1, <1>2, <1>3, <1>7 DEF ApiInv, UrlsGiven, LiveEndpoints
<1>. QED
  BY <1>7, <1>8, <1>9, <1>10 DEF ApiInv, ApiGood

LEMMA MintGood == ASSUME ApiInv, NEW s \in Slots, Mint(s) PROVE ApiGood
<1>. DEFINE t == [app |-> req[s].app, epoch |-> req[s].epoch]
<1>1. /\ req[s].op = "link" /\ tokens' = tokens \cup {t} /\ End(s)
      /\ UNCHANGED <<app, etype, endpoint, msg, dels, started, steady, acked, dropped, void, before, given>>
  BY DEF Mint, tables, history
<1>2. req[s] \in Asked /\ req[s].app \in Apps /\ app[req[s].app] # None
      /\ (IsRow(app[req[s].app]) => req[s].epoch <= app[req[s].app].epoch)
  BY <1>1, SlotFacts DEF LinkFits
<1>3. req[s].epoch \in Nat
  BY <1>2 DEF Asked
<1>4. t \in [app: Apps, epoch: Nat] /\ t.app = req[s].app /\ t.epoch = req[s].epoch
  BY <1>2, <1>3
<1>. HIDE DEF t
<1>5. ApiTypeOK'
  <2>1. LiveApps' = LiveApps /\ LiveEndpoints' = LiveEndpoints /\ LiveMessages' = LiveMessages
    BY <1>1 DEF LiveApps, LiveEndpoints, LiveMessages
  <2>2. tokens' \subseteq [app: Apps, epoch: Nat] /\ void' \subseteq tokens'
    BY <1>1, <1>4 DEF ApiInv, ApiTypeOK
  <2>. QED
    BY <1>1, <2>1, <2>2 DEF ApiInv, ApiTypeOK
<1>6. Onward
  BY <1>1, Stays DEF Onward
<1>7. /\ req' \in [Slots -> Asked] /\ RequestsFit' /\ Numbered' /\ Contained
      /\ \A u \in Slots : req'[u].tx = None \/ req'[u].tx = req[u].tx
  BY <1>1, <1>5, <1>6, Stays, Ended
<1>8. KeysApart'
  BY <1>1, <1>7, KeysStay
<1>9. Reached' /\ Graced' /\ WithinApp' /\ UrlsGiven' /\ OpEventsSurvive' /\ OneOperational'
  BY <1>1 DEF ApiInv, Reached, Graced, WithinApp, UrlsGiven, OpEventsSurvive, LiveEndpoints, OneOperational
<1>10. LinksBehind'
  <2>1. t \in void => t \in tokens
    BY DEF ApiInv, ApiTypeOK
  <2>. QED
    BY <1>1, <1>2, <1>4, <2>1 DEF ApiInv, LinksBehind
<1>. QED
  BY <1>5, <1>7, <1>8, <1>9, <1>10 DEF ApiInv, ApiGood

LEMMA BumpGood == ASSUME ApiInv, NEW s \in Slots, BumpApplicationPortalEpoch(s) PROVE ApiGood
<1>. DEFINE a == req[s].app
            old == app[a]
            row == [old EXCEPT !.epoch = old.epoch + 1]
<1>1. /\ req[s].op = "revoke" /\ IsRow(old) /\ app' = [app EXCEPT ![a] = row] /\ End(s)
      /\ void' = void \cup {t \in tokens : t.app = a}
      /\ UNCHANGED <<etype, endpoint, msg, dels, tokens, started, steady, acked, dropped, before, given>>
  BY DEF BumpApplicationPortalEpoch
<1>2. a \in Apps
  BY <1>1, SlotFacts DEF LinkFits
<1>3. old \in AppRow /\ old = app[a]
  BY <1>1, <1>2 DEF ApiInv, ApiTypeOK, IsRow
<1>. HIDE DEF old
<1>4. row \in AppRow /\ row.op = old.op /\ row.epoch = old.epoch + 1 /\ old.epoch \in Nat
  BY <1>3 DEF AppRow
<1>. HIDE DEF row, a
<1>5. IsRow(row) /\ row # None
  BY <1>4, Marks DEF IsRow
<1>6. /\ app' \in [Apps -> AppRow \cup {None, Gone}] /\ app'[a] = row
      /\ \A x \in Apps : x # a => app'[x] = app[x]
  BY <1>1, <1>2, <1>4 DEF ApiInv, ApiTypeOK
<1>7. ApiTypeOK'
  <2>1. LiveApps' = LiveApps /\ LiveEndpoints' = LiveEndpoints /\ LiveMessages' = LiveMessages
    BY <1>1, <1>2, <1>3, <1>5, <1>6 DEF LiveApps, LiveEndpoints, LiveMessages
  <2>2. void' \subseteq tokens'
    BY <1>1 DEF ApiInv, ApiTypeOK
  <2>. QED
    BY <1>1, <1>6, <2>1, <2>2 DEF ApiInv, ApiTypeOK
<1>8. Onward
  <2>1. AppsOnward
    <3>1. \A x \in Apps : IsRow(app[x]) => app[x].epoch \in Nat
      BY DEF ApiInv, ApiTypeOK, IsRow, AppRow
    <3>2. IsRow(app[a]) /\ app'[a].op = app[a].op /\ app[a].epoch <= app'[a].epoch /\ IsRow(app'[a]) /\ app'[a] # None
      BY <1>1, <1>3, <1>4, <1>5, <1>6
    <3>. QED
      BY <1>6, <3>1, <3>2 DEF AppsOnward
  <2>. QED
    BY <1>1, <2>1, Stays DEF Onward
<1>9. /\ req' \in [Slots -> Asked] /\ RequestsFit' /\ Numbered' /\ Contained
      /\ \A u \in Slots : req'[u].tx = None \/ req'[u].tx = req[u].tx
  BY <1>1, <1>7, <1>8, Stays, Ended
<1>10. KeysApart'
  BY <1>1, <1>9, KeysStay
<1>11. Reached' /\ Graced' /\ WithinApp' /\ UrlsGiven' /\ OpEventsSurvive'
  BY <1>1 DEF ApiInv, Reached, Graced, WithinApp, UrlsGiven, OpEventsSurvive, LiveEndpoints
<1>12. OneOperational'
  BY <1>1, <1>2, <1>3, <1>4, <1>6 DEF ApiInv, OneOperational
<1>13. LinksBehind'
  <2>1. ASSUME NEW t \in tokens
        PROVE  /\ app'[t.app] # None
               /\ IsRow(app'[t.app]) => /\ t.epoch <= app'[t.app].epoch
                                        /\ t \in void' => t.epoch < app'[t.app].epoch
    <3>1. /\ t.app \in Apps /\ t.epoch \in Nat /\ app[t.app] # None
          /\ IsRow(app[t.app]) => /\ t.epoch <= app[t.app].epoch
                                  /\ t \in void => t.epoch < app[t.app].epoch
      BY DEF ApiInv, ApiTypeOK, LinksBehind
    <3>2. CASE t.app = a
      BY <1>1, <1>3, <1>4, <1>5, <1>6, <3>1, <3>2
    <3>3. CASE t.app # a
      BY <1>1, <1>6, <3>1, <3>3
    <3>. QED
      BY <3>2, <3>3
  <2>. QED
    BY <1>1, <2>1 DEF LinksBehind
<1>. QED
  BY <1>7, <1>9, <1>10, <1>11, <1>12, <1>13 DEF ApiInv, ApiGood

\* The operational application is created.
LEMMA EnsureOperationalAppGood == ASSUME ApiInv, NEW s \in Slots, EnsureOperationalApp(s) PROVE ApiGood
<1>. DEFINE r == req[s]
<1>0. /\ r \in Asked /\ EditFits(r, endpoint, given) /\ LinkFits(r, app) /\ MessageFits(r, msg, acked)
      /\ TargetFits(r, endpoint, steady) /\ AppFits(r, app)
  BY SlotFacts
<1>1. /\ r.op = "ensure" /\ \A b \in LiveApps : ~app[b].op
      /\ UNCHANGED <<etype, endpoint, msg, dels, tokens, started, steady, acked, dropped, void, before, given>>
  BY DEF EnsureOperationalApp, history
<1>2. PICK a \in Fresh(app) :
          /\ app' = [app EXCEPT ![a] = [op |-> TRUE, epoch |-> 0]]
          /\ req' = [req EXCEPT ![s] = [@ EXCEPT !.op = "seed", !.app = a]]
  BY DEF EnsureOperationalApp
<1>. DEFINE row == [op |-> TRUE, epoch |-> 0]
            q == [r EXCEPT !.op = "seed", !.app = a]
<1>3. row \in AppRow /\ row.op
  BY DEF AppRow
<1>4. app' = [app EXCEPT ![a] = row] /\ req' = [req EXCEPT ![s] = q] /\ r = req[s]
  BY <1>2
<1>. HIDE DEF row
<1>5. IsRow(row)
  BY <1>3, Marks DEF IsRow
<1>6. a \in Apps /\ app[a] = None
  BY DEF Fresh, ApiInv, ApiTypeOK
<1>7. /\ app' \in [Apps -> AppRow \cup {None, Gone}] /\ app'[a] = row
      /\ \A x \in Apps : x # a => app'[x] = app[x]
  BY <1>3, <1>4, <1>6 DEF ApiInv, ApiTypeOK
<1>8. ApiTypeOK'
  <2>1. LiveApps \subseteq LiveApps' /\ LiveEndpoints' = LiveEndpoints /\ LiveMessages' = LiveMessages
    BY <1>1, <1>6, <1>7 DEF LiveApps, LiveEndpoints, LiveMessages, IsRow
  <2>. QED
    BY <1>1, <1>7, <2>1 DEF ApiInv, ApiTypeOK
<1>9. Onward
  <2>1. AppsOnward
    <3>1. \A x \in Apps : IsRow(app[x]) => app[x].epoch \in Nat
      BY DEF ApiInv, ApiTypeOK, IsRow, AppRow
    <3>2. \A x \in Apps : app[x] # None => x # a
      BY <1>6
    <3>. QED
      BY <1>7, <3>1, <3>2 DEF AppsOnward
  <2>. QED
    BY <1>1, <2>1, Stays DEF Onward
<1>10. r # NoRequest /\ r.tx = None /\ r.n \in Messages /\ r.key = None /\ steady[r.n] = {} /\ r.tok = None
  BY <1>0, <1>1, Numbers DEF AppFits, TargetFits, MessageFits, EditFits
<1>r. r \in Asked /\ a \in Apps
  BY <1>0, <1>6
<1>. HIDE DEF r
<1>11. q \in Asked
  BY <1>r DEF Asked, Ops
<1>12. q.op = "seed" /\ q.app = a /\ q.n = r.n /\ q.key = r.key /\ q.tok = r.tok /\ q.tx = r.tx
  BY <1>0 DEF Asked
<1>. HIDE DEF q
<1>13. EditFits(q, endpoint', given') /\ LinkFits(q, app')
  BY <1>10, <1>12 DEF EditFits, LinkFits
<1>14. MessageFits(q, msg', acked')
  BY <1>0, <1>1, <1>10, <1>12 DEF MessageFits, Unborn
<1>15. TargetFits(q, endpoint', steady') /\ AppFits(q, app')
  BY <1>1, <1>3, <1>5, <1>6, <1>7, <1>10, <1>12 DEF TargetFits, AppFits
<1>16. /\ req' \in [Slots -> Asked] /\ RequestsFit' /\ Numbered' /\ Contained
       /\ \A u \in Slots : req'[u].tx = None \/ req'[u].tx = req[u].tx
  <2>1. q # NoRequest
    BY <1>12, NoRequestFacts
  <2>. QED
    BY <1>1, <1>4, <1>8, <1>9, <1>10, <1>11, <1>12, <1>13, <1>14, <1>15, <2>1, Stays, Moved
<1>17. KeysApart'
  BY <1>1, <1>16, KeysStay
<1>18. Reached' /\ Graced' /\ WithinApp' /\ UrlsGiven' /\ OpEventsSurvive'
  BY <1>1 DEF ApiInv, Reached, Graced, WithinApp, UrlsGiven, OpEventsSurvive, LiveEndpoints
<1>19. OneOperational'
  BY <1>1, <1>7 DEF OneOperational, LiveApps
<1>20. LinksBehind'
  <2>1. \A t \in tokens : t.app \in Apps /\ t.app # a
    BY <1>6 DEF ApiInv, ApiTypeOK, LinksBehind
  <2>. QED
    BY <1>1, <1>7, <2>1 DEF ApiInv, LinksBehind
<1>. QED
  BY <1>8, <1>16, <1>17, <1>18, <1>19, <1>20 DEF ApiInv, ApiGood

\* A message, or its deliveries, are inserted.
LEMMA MessageGrows ==
  ASSUME ApiInv, UNCHANGED <<app, etype, endpoint, tokens, started, steady, dropped, void, before, given>>,
         NEW n \in Messages, msg' \in [Messages -> MessageRow \cup {None, Gone}],
         \A m \in Messages : m # n => msg'[m] = msg[m], msg[n] = None \/ msg'[n] = msg[n],
         IsRow(msg'[n]), msg'[n].app \in LiveApps,
         NEW E \in SUBSET LiveEndpoints, dels' = dels \cup ({n} \X E),
         \A e \in E : endpoint[e].app = msg'[n].app, acked' \subseteq Messages
  PROVE  /\ ApiTypeOK' /\ Onward
         /\ OneOperational' /\ Graced' /\ LinksBehind' /\ WithinApp' /\ UrlsGiven' /\ OpEventsSurvive'
<1>1. \A m \in Messages : IsRow(msg[m]) => msg'[m] = msg[m]
  BY DEF IsRow
<1>2. LiveApps' = LiveApps /\ LiveEndpoints' = LiveEndpoints /\ LiveMessages' = LiveMessages \cup {n}
  BY <1>1 DEF LiveApps, LiveEndpoints, LiveMessages
<1>3. dels \subseteq LiveMessages \X LiveEndpoints
  BY DEF ApiInv, ApiTypeOK
<1>4. ApiTypeOK'
  <2>1. dels' \subseteq LiveMessages' \X LiveEndpoints'
    BY <1>2, <1>3
  <2>2. \A m \in LiveMessages' : msg'[m].app \in LiveApps'
    BY <1>1, <1>2 DEF ApiInv, ApiTypeOK, LiveMessages
  <2>. QED
    BY <1>2, <2>1, <2>2 DEF ApiInv, ApiTypeOK
<1>5. Onward
  <2>1. MessagesOnward
    BY DEF MessagesOnward
  <2>. QED
    BY <2>1, Stays DEF Onward
<1>6. WithinApp'
  <2>1. ASSUME NEW d \in dels' PROVE msg'[d[1]].app = endpoint'[d[2]].app
    <3>1. CASE d \in dels
      <4>1. d[1] \in Messages /\ IsRow(msg[d[1]])
        BY <1>3, <3>1 DEF LiveMessages
      <4>. QED
        BY <1>1, <3>1, <4>1 DEF ApiInv, WithinApp
    <3>2. CASE d \in {n} \X E
      BY <3>2
    <3>. QED
      BY <3>1, <3>2
  <2>. QED
    BY <2>1 DEF WithinApp
<1>7. OneOperational' /\ Graced' /\ LinksBehind' /\ UrlsGiven' /\ OpEventsSurvive'
  BY DEF ApiInv, Graced, UrlsGiven, OpEventsSurvive, LiveEndpoints, OneOperational, LinksBehind
<1>. QED
  BY <1>4, <1>5, <1>6, <1>7

LEMMA GetMessageGood == ASSUME ApiInv, NEW s \in Slots, GetMessageByAppEventID(s) PROVE ApiGood
<1>1. /\ acked' = acked \cup SameKey(s) /\ End(s)
      /\ UNCHANGED <<app, etype, endpoint, msg, dels, tokens, started, steady, dropped, void, before, given>>
  BY DEF GetMessageByAppEventID, tables
<1>2. \A m \in SameKey(s) : m \in Messages /\ IsRow(msg[m]) /\ msg[m].key # None
  BY DEF SameKey, LiveMessages, Row
<1>3. ApiTypeOK'
  <2>1. LiveApps' = LiveApps /\ LiveEndpoints' = LiveEndpoints /\ LiveMessages' = LiveMessages
    BY <1>1 DEF LiveApps, LiveEndpoints, LiveMessages
  <2>2. acked' \subseteq Messages
    BY <1>1, <1>2 DEF ApiInv, ApiTypeOK
  <2>. QED
    BY <1>1, <2>1, <2>2 DEF ApiInv, ApiTypeOK
<1>4. Onward
  BY <1>1, Stays DEF Onward
<1>5. /\ req' \in [Slots -> Asked] /\ RequestsFit' /\ Numbered' /\ Contained
      /\ \A u \in Slots : req'[u].tx = None \/ req'[u].tx = req[u].tx
  <2>1. \A m \in Messages : msg'[m] # None \/ m \in acked' => msg[m] # None \/ m \in acked \/ m = req[s].n
    BY <1>1, <1>2 DEF IsRow
  <2>2. \A t \in Slots \ {s} : req[t].op \in Unborn => msg'[req[t].n] = None /\ req[t].n \notin acked'
    BY <1>1, <1>2, Stays DEF IsRow
  <2>. QED
    BY <1>1, <1>3, <1>4, <2>1, <2>2, Ended
<1>6. KeysApart'
  BY <1>1, <1>5, KeysStay
<1>7. Reached'
  BY <1>1, <1>2 DEF ApiInv, Reached
<1>8. Graced' /\ WithinApp' /\ UrlsGiven' /\ OpEventsSurvive' /\ OneOperational' /\ LinksBehind'
  BY <1>1 DEF ApiInv, Graced, WithinApp, UrlsGiven, OpEventsSurvive, LiveEndpoints, OneOperational, LinksBehind
<1>. QED
  BY <1>3, <1>5, <1>6, <1>7, <1>8 DEF ApiInv, ApiGood

\* A publish commits: its message has not been there, and has the deliveries at once.
LEMMA CommitGood == ASSUME ApiInv, NEW s \in Slots, Commit(s) PROVE ApiGood
<1>. DEFINE r == req[s]
            n == req[s].n
            row == [app |-> r.app, key |-> r.key]
            L == r.list
<1>0. /\ r \in Asked /\ EditFits(r, endpoint, given) /\ LinkFits(r, app) /\ MessageFits(r, msg, acked)
      /\ TargetFits(r, endpoint, steady) /\ AppFits(r, app)
  BY SlotFacts
<1>1. /\ r.op = "fanout" /\ msg' = [msg EXCEPT ![n] = row] /\ End(s)
      /\ L \subseteq LiveEndpoints /\ dels' = dels \cup ({n} \X L) /\ acked' = acked \cup {n}
      /\ UNCHANGED <<app, etype, endpoint, tokens, started, steady, dropped, void, before, given>>
  BY DEF Commit, Batch, Row
<1>2. /\ n \in Messages /\ msg[n] = None /\ n \notin acked /\ r.app \in Apps /\ r.key \in EventIds \cup {None}
      /\ \A t \in Slots \ {s} : req[t] # NoRequest => req[t].n # n
  <2>1. r.op \in Unborn /\ r.op \in {"publish", "replayed", "list", "fanout"} /\ r # NoRequest
    BY <1>1, NoRequestFacts DEF Unborn
  <2>. QED
    BY <1>0, <2>1, Numbers DEF MessageFits
<1>3. /\ r.tx = row /\ r.tx # None /\ r.app \in LiveApps
  BY <1>0, <1>1 DEF AppFits, LiveApps
<1>4. row \in MessageRow /\ row.app = r.app /\ row.key = r.key
  BY <1>2 DEF MessageRow
<1>5. steady[n] \subseteq L /\ \A e \in L : IsRow(endpoint[e]) => endpoint[e].app = r.app
  BY <1>0, <1>1 DEF TargetFits, Belongs
<1>6. req[s].tx = row
  BY <1>3
<1>. HIDE DEF r, n, row, L
<1>7. IsRow(row)
  BY <1>4, Marks DEF IsRow
<1>8. /\ msg' \in [Messages -> MessageRow \cup {None, Gone}] /\ msg'[n] = row
      /\ \A m \in Messages : m # n => msg'[m] = msg[m]
  BY <1>1, <1>2, <1>4 DEF ApiInv, ApiTypeOK
<1>9. /\ ApiTypeOK' /\ Onward
      /\ OneOperational' /\ Graced' /\ LinksBehind' /\ WithinApp' /\ UrlsGiven' /\ OpEventsSurvive'
  <2>1. acked' \subseteq Messages
    BY <1>1, <1>2 DEF ApiInv, ApiTypeOK
  <2>2. \A e \in L : endpoint[e].app = row.app
    BY <1>1, <1>4, <1>5 DEF LiveEndpoints
  <2>. QED
    BY <1>1, <1>2, <1>3, <1>4, <1>7, <1>8, <2>1, <2>2, MessageGrows
<1>10. /\ req' \in [Slots -> Asked] /\ RequestsFit' /\ Numbered' /\ Contained
       /\ \A u \in Slots : req'[u].tx = None \/ req'[u].tx = req[u].tx
  <2>1. \A m \in Messages : msg'[m] # None \/ m \in acked' => msg[m] # None \/ m \in acked \/ m = req[s].n
    BY <1>1, <1>8 DEF n
  <2>2. \A t \in Slots \ {s} : req[t].op \in Unborn => msg'[req[t].n] = None /\ req[t].n \notin acked'
    <3>1. ASSUME NEW t \in Slots \ {s}, req[t].op \in Unborn PROVE msg'[req[t].n] = None /\ req[t].n \notin acked'
      <4>1. req[t] # NoRequest /\ req[t].n \in Messages
        BY <3>1, Numbers DEF Unborn
      <4>2. req[t].n # n /\ msg[req[t].n] = None /\ req[t].n \notin acked
        BY <1>2, <3>1, <4>1, Stays
      <4>. QED
        BY <1>1, <1>8, <4>1, <4>2
    <3>. QED
      BY <3>1
  <2>. QED
    BY <1>1, <1>9, <2>1, <2>2, Ended
<1>11. KeysApart'
  <2>1. req'[s].tx = None
    BY <1>1, NoRequestFacts DEF End, ApiInv
  <2>2. \A m \in Messages : IsRow(msg[m]) /\ msg[m] = row => row.key = None
    BY <1>3, <1>6 DEF ApiInv, KeysApart
  <2>3. \A t \in Slots \ {s} : req[t].tx = row => row.key = None
    BY <1>3, <1>6 DEF ApiInv, KeysApart
  <2>4. \A m, k \in Messages : IsRow(msg'[m]) /\ msg'[m] = msg'[k] /\ msg'[m].key # None => m = k
    BY <1>7, <1>8, <2>2 DEF ApiInv, KeysApart
  <2>5. \A t \in Slots, m \in Messages :
           req'[t].tx # None /\ IsRow(msg'[m]) /\ msg'[m] = req'[t].tx => msg'[m].key = None
    BY <1>8, <1>10, <2>1, <2>3 DEF ApiInv, KeysApart
  <2>6. \A t, u \in Slots : t # u /\ req'[t].tx # None /\ req'[t].tx = req'[u].tx => req'[t].tx.key = None
    BY <1>10 DEF ApiInv, KeysApart
  <2>. QED
    BY <2>4, <2>5, <2>6 DEF KeysApart
<1>12. Reached'
  <2>1. \A e \in steady[n] : <<n, e>> \in dels'
    BY <1>1, <1>5
  <2>2. \A m \in Messages : m # n /\ m \in acked' => m \in acked
    BY <1>1
  <2>. QED
    BY <1>1, <1>8, <2>1, <2>2 DEF ApiInv, Reached
<1>. QED
  BY <1>9, <1>10, <1>11, <1>12 DEF ApiInv, ApiGood

\* A message without an event_id is inserted, with nothing that delivers it yet.
LEMMA MessageFirst ==
  ASSUME ApiInv, NEW s \in Slots, NEW o \in Ops, Proceed(s, o), msg' = [msg EXCEPT ![req[s].n] = Row(s)],
         UNCHANGED <<app, etype, endpoint, dels, tokens, started, history>>,
         \/ req[s].op = "test" /\ o = "probe"
         \/ req[s].op = "emit" /\ o = "match",
         req[s].app \in LiveApps
  PROVE  ApiGood
<1>. DEFINE r == req[s]
            n == req[s].n
            row == [app |-> r.app, key |-> r.key]
<1>0. /\ r \in Asked /\ EditFits(r, endpoint, given) /\ LinkFits(r, app) /\ MessageFits(r, msg, acked)
      /\ TargetFits(r, endpoint, steady) /\ AppFits(r, app)
  BY SlotFacts
<1>1. /\ msg' = [msg EXCEPT ![n] = row] /\ r.app \in LiveApps
      /\ UNCHANGED <<app, etype, endpoint, dels, tokens, started, steady, acked, dropped, void, before, given>>
      /\ (r.op = "test" /\ o = "probe") \/ (r.op = "emit" /\ o = "match")
  BY DEF Row, history
<1>2. /\ n \in Messages /\ msg[n] = None /\ n \notin acked /\ r.app \in Apps /\ r.key = None /\ r # NoRequest
      /\ \A t \in Slots \ {s} : req[t] # NoRequest => req[t].n # n
  <2>1. r.op \in Unborn /\ r.op \in {"test", "emit"} /\ r # NoRequest
    BY <1>1, NoRequestFacts DEF Unborn
  <2>. QED
    BY <1>0, <1>1, <2>1, Numbers DEF MessageFits, LiveApps
<1>3. PICK q \in Asked :
            /\ req' = [req EXCEPT ![s] = q] /\ q.op = o
            /\ q.n = r.n /\ q.by = r.by /\ q.tok = r.tok /\ q.app = r.app /\ q.ep = r.ep
            /\ q.set = r.set /\ q.key = r.key /\ q.list = r.list /\ q.tx = r.tx
  BY Proceeds
<1>4. row \in MessageRow /\ row.app = r.app /\ row.key = None /\ row = [app |-> r.app, key |-> None]
  BY <1>2 DEF MessageRow
<1>5. r = req[s] /\ n = r.n
  OBVIOUS
<1>. HIDE DEF r, n, row
<1>6. IsRow(row) /\ row # None
  BY <1>4, Marks DEF IsRow
<1>7. /\ msg' \in [Messages -> MessageRow \cup {None, Gone}] /\ msg'[n] = row
      /\ \A m \in Messages : m # n => msg'[m] = msg[m]
  BY <1>1, <1>2, <1>4 DEF ApiInv, ApiTypeOK
<1>8. /\ ApiTypeOK' /\ Onward
      /\ OneOperational' /\ Graced' /\ LinksBehind' /\ WithinApp' /\ UrlsGiven' /\ OpEventsSurvive'
  <2>1. acked' \subseteq Messages
    BY <1>1 DEF ApiInv, ApiTypeOK
  <2>. DEFINE E == {}
  <2>2. E \in SUBSET LiveEndpoints /\ dels' = dels \cup ({n} \X E) /\ \A e \in E : endpoint[e].app = msg'[n].app
    BY <1>1
  <2>3. IsRow(msg'[n]) /\ msg'[n].app \in LiveApps
    BY <1>1, <1>4, <1>6, <1>7
  <2>. HIDE DEF E
  <2>. QED
    BY <1>1, <1>2, <1>7, <2>1, <2>2, <2>3, MessageGrows
<1>9. EditFits(q, endpoint', given') /\ LinkFits(q, app')
  BY <1>0, <1>1, <1>3 DEF EditFits, LinkFits
<1>10. MessageFits(q, msg', acked')
  BY <1>1, <1>2, <1>3, <1>4, <1>5, <1>6, <1>7 DEF MessageFits, Unborn
<1>11. TargetFits(q, endpoint', steady')
  BY <1>0, <1>1, <1>3, <1>5 DEF TargetFits
<1>12. AppFits(q, app')
  BY <1>0, <1>1, <1>3 DEF AppFits
<1>13. /\ req' \in [Slots -> Asked] /\ RequestsFit' /\ Numbered' /\ Contained
       /\ \A u \in Slots : req'[u].tx = None \/ req'[u].tx = req[u].tx
  <2>1. \A m \in Messages : msg'[m] # None \/ m \in acked' => msg[m] # None \/ m \in acked \/ m = req[s].n
    BY <1>1, <1>5, <1>7
  <2>2. \A t \in Slots \ {s} : req[t].op \in Unborn => msg'[req[t].n] = None /\ req[t].n \notin acked'
    <3>1. ASSUME NEW t \in Slots \ {s}, req[t].op \in Unborn PROVE msg'[req[t].n] = None /\ req[t].n \notin acked'
      <4>1. req[t] # NoRequest /\ req[t].n \in Messages
        BY <3>1, Numbers DEF Unborn
      <4>2. req[t].n # n /\ msg[req[t].n] = None /\ req[t].n \notin acked
        BY <1>2, <3>1, <4>1, Stays
      <4>. QED
        BY <1>1, <1>7, <4>1, <4>2
    <3>. QED
      BY <3>1
  <2>3. q # NoRequest /\ req[s] # NoRequest /\ q.n = req[s].n /\ q.tx = req[s].tx
    BY <1>1, <1>2, <1>3, <1>5, NoRequestFacts
  <2>. QED
    BY <1>1, <1>3, <1>8, <1>9, <1>10, <1>11, <1>12, <2>1, <2>2, <2>3, Moved
<1>14. KeysApart'
  <2>1. \A m, k \in Messages : IsRow(msg'[m]) /\ msg'[m] = msg'[k] /\ msg'[m].key # None => m = k
    BY <1>4, <1>7 DEF ApiInv, KeysApart
  <2>2. \A t \in Slots, m \in Messages :
           req'[t].tx # None /\ IsRow(msg'[m]) /\ msg'[m] = req'[t].tx => msg'[m].key = None
    BY <1>4, <1>7, <1>13 DEF ApiInv, KeysApart
  <2>3. \A t, u \in Slots : t # u /\ req'[t].tx # None /\ req'[t].tx = req'[u].tx => req'[t].tx.key = None
    BY <1>13 DEF ApiInv, KeysApart
  <2>. QED
    BY <2>1, <2>2, <2>3 DEF KeysApart
<1>15. Reached'
  BY <1>1, <1>2, <1>4, <1>7 DEF ApiInv, Reached
<1>. QED
  BY <1>8, <1>13, <1>14, <1>15 DEF ApiInv, ApiGood

LEMMA InsertTestGood == ASSUME ApiInv, NEW s \in Slots, InsertTest(s) PROVE ApiGood
<1>1. "probe" \in Ops
  BY DEF Ops
<1>. QED
  BY <1>1, MessageFirst DEF InsertTest

LEMMA InsertEventGood == ASSUME ApiInv, NEW s \in Slots, InsertEvent(s) PROVE ApiGood
<1>1. "match" \in Ops
  BY DEF Ops
<1>2. req[s].op = "emit" /\ req[s].app \in LiveApps
  BY SlotFacts DEF InsertEvent, AppFits, LiveApps
<1>. QED
  BY <1>1, <1>2, MessageFirst DEF InsertEvent

\* The deliveries of a message that is there already.
LEMMA BatchGood ==
  ASSUME ApiInv, NEW s \in Slots, NEW n \in Messages, NEW E \in SUBSET LiveEndpoints, End(s), IsRow(msg[n]),
         dels' = dels \cup ({n} \X E), \A e \in E : endpoint[e].app = msg[n].app,
         UNCHANGED <<app, etype, endpoint, msg, tokens, started, steady, dropped, void, before, given>>,
         UNCHANGED acked \/ (acked' = acked \cup {n} /\ steady[n] \subseteq E)
  PROVE  ApiGood
<1>1. /\ ApiTypeOK' /\ Onward
      /\ OneOperational' /\ Graced' /\ LinksBehind' /\ WithinApp' /\ UrlsGiven' /\ OpEventsSurvive'
  <2>1. /\ acked' \subseteq Messages /\ msg' \in [Messages -> MessageRow \cup {None, Gone}]
        /\ msg[n].app \in LiveApps
    BY DEF ApiInv, ApiTypeOK, LiveMessages
  <2>. QED
    BY <2>1, MessageGrows
<1>2. /\ req' \in [Slots -> Asked] /\ RequestsFit' /\ Numbered' /\ Contained
      /\ \A u \in Slots : req'[u].tx = None \/ req'[u].tx = req[u].tx
  <2>1. \A m \in Messages : msg'[m] # None \/ m \in acked' => msg[m] # None \/ m \in acked \/ m = req[s].n
    BY DEF IsRow
  <2>2. \A t \in Slots \ {s} : req[t].op \in Unborn => msg'[req[t].n] = None /\ req[t].n \notin acked'
    BY Stays DEF IsRow
  <2>. QED
    BY <1>1, <2>1, <2>2, Ended
<1>3. KeysApart'
  BY <1>2, KeysStay
<1>4. Reached'
  <2>1. SUFFICES ASSUME NEW m \in Messages, IsRow(msg[m]), m \in acked' \/ msg[m].key # None, NEW e \in steady[m]
                 PROVE  <<m, e>> \in dels'
    BY DEF Reached
  <2>2. CASE m \in acked \/ msg[m].key # None
    BY <2>1, <2>2 DEF ApiInv, Reached
  <2>3. CASE m = n /\ steady[n] \subseteq E
    BY <2>1, <2>3
  <2>. QED
    BY <2>1, <2>2, <2>3
<1>. QED
  BY <1>1, <1>2, <1>3, <1>4 DEF ApiInv, ApiGood

LEMMA DeliverTestGood == ASSUME ApiInv, NEW s \in Slots, DeliverTest(s) PROVE ApiGood
<1>1. /\ req[s].op = "probe" /\ IsRow(msg[req[s].n]) /\ {req[s].ep} \subseteq LiveEndpoints
      /\ dels' = dels \cup ({req[s].n} \X {req[s].ep}) /\ acked' = acked \cup {req[s].n} /\ End(s)
      /\ UNCHANGED <<app, etype, endpoint, msg, tokens, started, steady, dropped, void, before, given>>
  BY DEF DeliverTest, Batch
<1>2. /\ req[s].n \in Messages /\ steady[req[s].n] \subseteq {req[s].ep}
      /\ endpoint[req[s].ep].app = req[s].app /\ msg[req[s].n] = [app |-> req[s].app, key |-> None]
  BY <1>1, SlotFacts, Numbers DEF TargetFits, MessageFits, Belongs, LiveEndpoints
<1>. DEFINE E == {req[s].ep}
<1>3. E \in SUBSET LiveEndpoints /\ \A e \in E : endpoint[e].app = msg[req[s].n].app
  BY <1>1, <1>2
<1>4. dels' = dels \cup ({req[s].n} \X E) /\ steady[req[s].n] \subseteq E
  BY <1>1, <1>2
<1>. HIDE DEF E
<1>. QED
  BY <1>1, <1>2, <1>3, <1>4, BatchGood

LEMMA ReplayFindOrCreateGood == ASSUME ApiInv, NEW s \in Slots, ReplayFindOrCreate(s) PROVE ApiGood
<1>1. /\ req[s].op = "replay" /\ IsRow(msg[req[s].key]) /\ {req[s].ep} \subseteq LiveEndpoints
      /\ dels' = dels \cup ({req[s].key} \X {req[s].ep}) /\ End(s)
      /\ UNCHANGED <<app, etype, endpoint, msg, tokens, started, steady, acked, dropped, void, before, given>>
  BY DEF ReplayFindOrCreate, Batch, history
<1>2. /\ req[s].key \in Messages
      /\ endpoint[req[s].ep].app = req[s].app /\ msg[req[s].key].app = req[s].app
  BY <1>1, SlotFacts DEF TargetFits, MessageFits, Belongs, LiveEndpoints
<1>. DEFINE E == {req[s].ep}
<1>3. E \in SUBSET LiveEndpoints /\ \A e \in E : endpoint[e].app = msg[req[s].key].app
  BY <1>1, <1>2
<1>4. dels' = dels \cup ({req[s].key} \X E)
  BY <1>1, <1>2
<1>. HIDE DEF E
<1>. QED
  BY <1>1, <1>2, <1>3, <1>4, BatchGood

LEMMA SpreadEventGood == ASSUME ApiInv, NEW s \in Slots, SpreadEvent(s) PROVE ApiGood
<1>1. /\ req[s].op = "spread" /\ req[s].list \subseteq LiveEndpoints
      /\ dels' = dels \cup ({req[s].n} \X req[s].list) /\ acked' = acked \cup {req[s].n} /\ End(s)
      /\ UNCHANGED <<app, etype, endpoint, msg, tokens, started, steady, dropped, void, before, given>>
  BY DEF SpreadEvent, Batch
<1>2. /\ req[s].n \in Messages /\ steady[req[s].n] \subseteq req[s].list
      /\ \A e \in req[s].list : Belongs(endpoint, e, req[s].app)
      /\ msg[req[s].n] = [app |-> req[s].app, key |-> None] /\ req[s].app \in Apps
  BY <1>1, SlotFacts, Numbers DEF TargetFits, MessageFits, AppFits
<1>3. msg[req[s].n] \in MessageRow /\ msg[req[s].n].app = req[s].app
  BY <1>2 DEF MessageRow
<1>4. IsRow(msg[req[s].n])
  BY <1>3, Marks DEF IsRow
<1>5. \A e \in req[s].list : endpoint[e].app = msg[req[s].n].app
  BY <1>1, <1>2, <1>3 DEF Belongs, LiveEndpoints
<1>. QED
  BY <1>1, <1>2, <1>4, <1>5, BatchGood

-----------------------------------------------------------------------------
LEMMA ApiInitInv == ASSUME ApiInit PROVE ApiInv
<1>0. /\ etype = "live" /\ msg = [m \in Messages |-> None] /\ dels = {} /\ tokens = {}
      /\ req = [s \in Slots |-> NoRequest] /\ started = 0
      /\ steady = [m \in Messages |-> {}] /\ acked = {} /\ dropped = {} /\ void = {}
      /\ before = [e \in EndpointIds |-> None]
  BY DEF ApiInit
<1>1. PICK seeded \in BOOLEAN :
          /\ app = [a \in Apps |-> CASE a = 1 -> [op |-> FALSE, epoch |-> 0]
                                     [] a = 2 /\ seeded -> [op |-> TRUE, epoch |-> 0]
                                     [] OTHER -> None]
          /\ endpoint = [e \in EndpointIds |->
                     IF e = 1 \/ (e = 2 /\ seeded)
                     THEN [app |-> e, on |-> TRUE, url |-> CHOOSE u \in Urls : TRUE,
                           secret |-> 0, prev |-> None]
                     ELSE None]
          /\ given = [e \in EndpointIds |-> IF IsRow(endpoint[e]) THEN {endpoint[e].url} ELSE {}]
  BY DEF ApiInit
<1>. DEFINE url == CHOOSE u \in Urls : TRUE
            first == [op |-> FALSE, epoch |-> 0]
            second == [op |-> TRUE, epoch |-> 0]
            row(e) == [app |-> e, on |-> TRUE, url |-> url, secret |-> 0, prev |-> None]
<1>2. url \in Urls
  BY Bounds
<1>3. first \in AppRow /\ second \in AppRow /\ ~first.op /\ second.op
  BY DEF AppRow
<1>. HIDE DEF url
<1>4. 1 \in Apps /\ 2 \in Apps /\ 0 \in Secrets /\ 0 \in 0..MaxRequests
  BY Bounds DEF Apps, Secrets
<1>5. \A e \in {1, 2} : row(e) \in EndpointRow /\ row(e).app = e /\ row(e).url = url
  BY <1>2, <1>4 DEF EndpointRow
<1>6. /\ \A a \in Apps : app[a] = IF a = 1 THEN first ELSE IF a = 2 /\ seeded THEN second ELSE None
      /\ \A e \in EndpointIds : endpoint[e] = IF e = 1 \/ (e = 2 /\ seeded) THEN row(e) ELSE None
      /\ \A e \in EndpointIds : given[e] = IF IsRow(endpoint[e]) THEN {endpoint[e].url} ELSE {}
      /\ app = [a \in Apps |-> app[a]] /\ endpoint = [e \in EndpointIds |-> endpoint[e]]
      /\ given = [e \in EndpointIds |-> given[e]]
  BY <1>1 DEF url
<1>. HIDE DEF first, second, row
<1>7. /\ IsRow(first) /\ IsRow(second) /\ ~IsRow(None)
      /\ \A e \in {1, 2} : IsRow(row(e)) /\ row(e) # None
  BY <1>3, <1>5, Marks DEF IsRow
<1>8. /\ app \in [Apps -> AppRow \cup {None, Gone}]
      /\ endpoint \in [EndpointIds -> EndpointRow \cup {None, Gone}]
  BY <1>3, <1>5, <1>6
<1>9. \A e \in LiveEndpoints : e \in {1, 2} /\ endpoint[e] = row(e) /\ endpoint[e].app \in LiveApps /\ given[e] = {url}
  <2>1. ASSUME NEW e \in EndpointIds, IsRow(endpoint[e])
        PROVE  e \in {1, 2} /\ endpoint[e] = row(e) /\ (e = 2 => seeded)
    BY <1>6, <1>7, <2>1
  <2>. QED
    BY <1>4, <1>5, <1>6, <1>7, <2>1 DEF LiveEndpoints, LiveApps
<1>10. LiveMessages = {}
  BY <1>0, <1>7 DEF LiveMessages
<1>11. given \in [EndpointIds -> SUBSET Urls]
  BY <1>2, <1>6, <1>9 DEF LiveEndpoints
<1>12. ApiTypeOK
  BY <1>0, <1>4, <1>8, <1>9, <1>10, <1>11 DEF ApiTypeOK
<1>13. req \in [Slots -> Asked] /\ RequestsFit /\ Numbered
  <2>1. \A s \in Slots : req[s] = NoRequest
    BY <1>0
  <2>2. RequestsFit
    BY <2>1, NoRequestFits DEF RequestsFit
  <2>3. Numbered
    BY <1>0, <2>1 DEF Numbered
  <2>. QED
    BY <1>0, <2>2, <2>3, NoRequestFacts
<1>14. KeysApart /\ Reached
  <2>1. \A s \in Slots : req[s].tx = None
    BY <1>0, NoRequestFacts
  <2>2. \A m \in Messages : ~IsRow(msg[m])
    BY <1>0, <1>7
  <2>. QED
    BY <2>1, <2>2 DEF KeysApart, Reached
<1>15. OneOperational
  BY <1>3, <1>6, <1>7 DEF OneOperational
<1>16. Graced /\ LinksBehind /\ WithinApp /\ OpEventsSurvive
  BY <1>0 DEF Graced, LinksBehind, WithinApp, OpEventsSurvive
<1>17. UrlsGiven
  BY <1>5, <1>9 DEF UrlsGiven
<1>. QED
  BY <1>12, <1>13, <1>14, <1>15, <1>16, <1>17 DEF ApiInv

LEMMA ApiStep == ASSUME ApiInv, [ApiNext]_apiVars PROVE ApiGood
<1>1. ASSUME NEW s \in Slots, Endpoint(s) PROVE ApiGood
  BY <1>1, CreateEndpointGood, PatchEndpointGood, RotateEndpointGood, DeleteEndpointGood,
     InsertEndpointGood, UpdateEndpointGood, DeleteEndpointForAppGood, RotateSecretGood DEF Endpoint
<1>2. ASSUME NEW s \in Slots, Portal(s) PROVE ApiGood
  BY <1>2, LinkGood, MintGood, BumpGood DEF Portal
<1>3. ASSUME NEW s \in Slots, Message(s) PROVE ApiGood
  BY <1>3, CreateMessageGood, InsertMessageGood, InsertConflictsGood, GetMessageGood, ListGood, CommitGood,
     TestEndpointGood, ReplayDeliveryGood, InsertTestGood, DeliverTestGood, ReplayFindOrCreateGood DEF Message
<1>4. ASSUME NEW s \in Slots, Operational(s) PROVE ApiGood
  BY <1>4, SeedGood, EnsureOperationalAppGood, EnsureFindsNothingGood, FallbackGood, SeedEventTypesGood,
     InsertEventGood, ListGood, SpreadEventGood DEF Operational
<1>. QED
  BY <1>1, <1>2, <1>3, <1>4, FailGood, CreateApplicationGood, DeleteApplicationGood, EventTypesGood,
     GraceOverGood, ApiStutters DEF ApiNext

LEMMA ApiAlways == ApiSpec => []ApiInv
<1>1. ApiInit => ApiInv
  BY ApiInitInv
<1>2. ApiInv /\ [ApiNext]_apiVars => ApiInv'
  BY ApiStep DEF ApiGood
<1>. QED
  BY <1>1, <1>2, PTL DEF ApiSpec

LEMMA InvArrives == ASSUME ApiInv PROVE PublishedArrives
<1>1. AckedReachesAll
  <2>1. ASSUME NEW m \in acked, IsRow(msg[m]) PROVE {m} \X steady[m] \subseteq dels
    BY <2>1 DEF ApiInv, Reached, ApiTypeOK
  <2>. QED
    BY <2>1 DEF AckedReachesAll
<1>2. KeysUnique
  <2>1. \A m, n \in LiveMessages : msg[m] = msg[n] /\ msg[m].key # None => m = n
    BY DEF ApiInv, KeysApart, LiveMessages
  <2>. DEFINE S == {a \in LiveApps : app[a].op}
  <2>2. \A a, b \in S : a = b
    BY DEF ApiInv, OneOperational, LiveApps
  <2>. HIDE DEF S
  <2>3. Cardinality(S) <= 1
    <3>1. CASE S = {}
      BY <3>1, FS_EmptySet
    <3>2. ASSUME NEW a \in S PROVE Cardinality(S) <= 1
      <4>1. S = {a}
        BY <2>2
      <4>2. Cardinality({a}) = 1
        BY FS_Singleton
      <4>. QED
        BY <4>1, <4>2
    <3>. QED
      BY <3>1, <3>2
  <2>. QED
    BY <2>1, <2>3 DEF KeysUnique, S
<1>. QED
  BY <1>1, <1>2 DEF ApiInv, PublishedArrives

LEMMA InvTrusted == ASSUME ApiInv PROVE EndpointTrusted
<1>1. GraceKept
  BY DEF ApiInv, Graced, GraceKept, signHeader, LiveEndpoints
<1>. QED
  BY <1>1 DEF ApiInv, EndpointTrusted

\* Of the outbound API: a message that a publisher was answered with has a delivery
\* to every endpoint that was on all the while; there is one message per event_id and
\* one operational application; no operational event is lost to a race, and nothing
\* is delivered across applications (CreateMessage, TestEndpoint, ReplayDelivery,
\* SeedOperationalApp, opevents.Publish).
THEOREM PublishesArrive == ApiSpec => []PublishedArrives
<1>1. ApiInv => PublishedArrives
  BY InvArrives
<1>. QED
  BY <1>1, ApiAlways, PTL

\* An endpoint keeps a secret that its receiver knows through a rotation, and a URL
\* that its creator or an admin gave it (RotateEndpointSecret, PatchEndpoint).
THEOREM EndpointsTrusted == ApiSpec => []EndpointTrusted
<1>1. ApiInv => EndpointTrusted
  BY InvTrusted
<1>. QED
  BY <1>1, ApiAlways, PTL

\* A portal link that was revoked lets nobody in, and a request through a link
\* changes endpoints of its own application only (RequirePortal).
THEOREM PortalsContained == ApiSpec => PortalContained
<1>. DEFINE Act == \A s \in Slots :
          /\ req[s] = NoRequest /\ req'[s].tok # None => req'[s].tok \notin void
          /\ req[s].tok # None /\ req'[s] = NoRequest =>
                \A e \in LiveEndpoints : endpoint'[e] # endpoint[e] => endpoint[e].app = req[s].tok.app
<1>1. ApiInv /\ [ApiNext]_apiVars => [Act]_apiVars
  BY ApiStep DEF ApiGood, Contained
<1>. HIDE DEF Act
<1>2. ApiSpec => [][Act]_apiVars
  BY <1>1, ApiAlways, PTL DEF ApiSpec
<1>. QED
  BY <1>2 DEF PortalContained, Act

=============================================================================
