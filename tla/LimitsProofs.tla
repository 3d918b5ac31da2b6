---------------------------- MODULE LimitsProofs ----------------------------
(***************************************************************************)
(* Proofs about what holds an organization to its limits: the in-flight    *)
(* gate (InflightGate) and the metering of its quota (Usage).              *)
(*                                                                         *)
(* The gate, for every number of deliveries and every cap: the counter is  *)
(* exact and the cap holds until a slot leaks, and no number of leaks      *)
(* leaves a counter at its cap that cannot lapse.  GateSound is not        *)
(* inductive: NeverWedged is about states nobody is in, and its cause is   *)
(* in the states before.  NoTtlNoDebt says why it holds: a counter without *)
(* a TTL was left by DECRs alone, so it is not above zero and the next     *)
(* INCR is within any cap and sets the TTL.                                *)
(*                                                                         *)
(* The metering, for every calendar, plan, PATCH body and number of        *)
(* workers.  A ceiling holds because every accepted request is in the      *)
(* counter or owed to an overwrite (CounterPays); a record holds rows of   *)
(* its own month because the count that a sweep carries did when it was    *)
(* taken, and rows made only grow (SweepsOwnRows); a rejection is          *)
(* explained because a latch is only set with the alert or with the fault  *)
(* that lost it (LatchTells); and the limits in use never go back because  *)
(* one reload is under way at a time (LoadsForward).                       *)
(***************************************************************************)
EXTENDS InflightGate, Usage, FiniteSetTheorems, TLAPS

-----------------------------------------------------------------------------
(* The in-flight gate.                                                     *)

\* What a delivery at b adds to the count of a label.
At(label, b) == IF b = label THEN 1 ELSE 0

GateLabels == {"idle", "over", "deferred", "run", "open"}

\* The increments in flight: of deliveries that hold a slot, and of callers that
\* were turned away and have not given theirs back.
Holders == Cardinality(In("run"))
Turned  == Cardinality(In("over"))

\* CounterExact and CapWithoutLeaks in these terms.
SlotsCounted == leaks = 0 => n = Holders + Turned /\ Holders <= Cap

\* A counter without a TTL owes nothing.
NoTtlNoDebt == ttl = "off" => n <= 0

GateInv == GateTypeOK /\ SlotsCounted /\ NoTtlNoDebt

-----------------------------------------------------------------------------
\* The deliveries at a label are finite in number.
LEMMA InFinite ==
    ASSUME NEW label
    PROVE  IsFiniteSet(In(label)) /\ Cardinality(In(label)) \in Nat
<1>1. In(label) \in SUBSET Procs
  BY DEF In
<1>. QED
  BY <1>1, ProcsAssumption, FS_Subset, FS_CardinalityType

\* A delivery that moves from one label to another is counted once at each end.
LEMMA CountMoved ==
    ASSUME NEW f \in [Procs -> GateLabels], NEW p \in Procs, NEW b \in GateLabels, b # f[p],
           NEW label \in GateLabels
    PROVE  Cardinality({q \in Procs : [f EXCEPT ![p] = b][q] = label}) =
             Cardinality({q \in Procs : f[q] = label})
               + At(label, b) - At(label, f[p])
<1>. DEFINE S == {q \in Procs : f[q] = label}
            T == {q \in Procs : [f EXCEPT ![p] = b][q] = label}
<1>0. IsFiniteSet(S) /\ Cardinality(S) \in Nat
  <2>1. S \in SUBSET Procs
    OBVIOUS
  <2>. QED
    BY <2>1, ProcsAssumption, FS_Subset, FS_CardinalityType
<1>1. b = label => T = S \cup {p} /\ p \notin S
  OBVIOUS
<1>2. f[p] = label => T = S \ {p} /\ p \in S
  OBVIOUS
<1>3. b # label /\ f[p] # label => T = S
  OBVIOUS
<1>. HIDE DEF S, T
<1>4. Cardinality(T) = Cardinality(S) + At(label, b) - At(label, f[p])
  <2>1. CASE b = label
    BY <1>0, <1>1, <2>1, FS_AddElement DEF At
  <2>2. CASE f[p] = label
    BY <1>0, <1>2, <2>2, FS_RemoveElement DEF At
  <2>3. CASE b # label /\ f[p] # label
    BY <1>0, <1>3, <2>3 DEF At
  <2>. QED
    BY <2>1, <2>2, <2>3
<1>. QED
  BY <1>4 DEF S, T

\* What a move does to the two counts the counter is made of.
LEMMA MoveCounts ==
    ASSUME GateTypeOK, NEW p \in Procs, NEW b \in GateLabels, b # pc[p], pc' = [pc EXCEPT ![p] = b]
    PROVE  /\ Holders' = Holders + At("run", b) - At("run", pc[p])
           /\ Turned' = Turned + At("over", b) - At("over", pc[p])
<1>1. pc \in [Procs -> GateLabels] /\ "run" \in GateLabels /\ "over" \in GateLabels
  BY DEF GateTypeOK, GateLabels
<1>2. /\ Cardinality({q \in Procs : [pc EXCEPT ![p] = b][q] = "run"}) =
           Cardinality({q \in Procs : pc[q] = "run"}) + At("run", b) - At("run", pc[p])
      /\ Cardinality({q \in Procs : [pc EXCEPT ![p] = b][q] = "over"}) =
           Cardinality({q \in Procs : pc[q] = "over"}) + At("over", b) - At("over", pc[p])
  BY <1>1, CountMoved
<1>. QED
  BY <1>2 DEF In, Holders, Turned

-----------------------------------------------------------------------------
LEMMA InitInv == GateInit => GateInv
<1>. SUFFICES ASSUME GateInit PROVE GateInv
  OBVIOUS
<1>1. GateTypeOK
  <2>1. exists \in BOOLEAN
    BY Zenon DEF GateInit
  <2>. QED
    BY <2>1, LeakAssumption DEF GateInit, GateTypeOK
<1>2. In("run") = {} /\ In("over") = {}
  BY DEF GateInit, In
<1>3. Holders = 0 /\ Turned = 0
  BY <1>2, FS_EmptySet DEF Holders, Turned
<1>. QED
  BY <1>1, <1>3, CapAssumption
  DEF GateInit, GateInv, SlotsCounted, NoTtlNoDebt

\* The steps of a delivery.
LEMMA StepInv ==
    ASSUME GateInv, NEW p \in Procs, Step(p) \/ Crash(p) \/ EnterFailOpen(p)
    PROVE  GateInv'
<1>. USE CapAssumption, LeakAssumption
<1>. USE DEF GateInv, SlotsCounted, NoTtlNoDebt
<1>0. /\ Holders \in Nat /\ Turned \in Nat
  BY InFinite DEF Holders, Turned
<1>1. CASE Enter(p)
  <2>1. GateTypeOK'
    BY <1>1 DEF Enter, Incr, Admitted, GateTypeOK
  <2>2. CASE n + 1 <= Cap
    <3>1. /\ Holders' = Holders + 1
          /\ Turned' = Turned
      <4>1. "run" \in GateLabels /\ "run" # pc[p] /\ pc' = [pc EXCEPT ![p] = "run"]
        BY <1>1, <2>2 DEF Enter, Admitted, GateLabels
      <4>2. /\ Holders' = Holders + At("run", "run") - At("run", pc[p])
            /\ Turned' = Turned + At("over", "run") - At("over", pc[p])
        BY <4>1, MoveCounts
      <4>. QED
        BY <1>0, <4>2, <1>1 DEF Enter, At
    <3>. QED
      BY <1>0, <1>1, <2>1, <2>2, <3>1 DEF Enter, Incr, GateTypeOK
  <2>3. CASE ~(n + 1 <= Cap)
    <3>1. /\ Holders' = Holders
          /\ Turned' = Turned + 1
      <4>1. "over" \in GateLabels /\ "over" # pc[p] /\ pc' = [pc EXCEPT ![p] = "over"]
        BY <1>1, <2>3 DEF Enter, Admitted, GateLabels
      <4>2. /\ Holders' = Holders + At("run", "over") - At("run", pc[p])
            /\ Turned' = Turned + At("over", "over") - At("over", pc[p])
        BY <4>1, MoveCounts
      <4>. QED
        BY <1>0, <4>2, <1>1 DEF Enter, At
    <3>. QED
      BY <1>0, <1>1, <2>1, <2>3, <3>1 DEF Enter, Incr, GateTypeOK
  <2>. QED
    BY <2>2, <2>3
<1>2. CASE BackOff(p)
  <2>1. GateTypeOK'
    BY <1>2 DEF BackOff, Decr, GateTypeOK
  <2>2. /\ Holders' = Holders
        /\ Turned' = Turned - 1
    <3>1. "deferred" \in GateLabels /\ "deferred" # pc[p] /\ pc' = [pc EXCEPT ![p] = "deferred"]
      BY <1>2 DEF BackOff, GateLabels
    <3>2. /\ Holders' = Holders + At("run", "deferred") - At("run", pc[p])
          /\ Turned' = Turned + At("over", "deferred") - At("over", pc[p])
      BY <3>1, MoveCounts
    <3>. QED
      BY <1>0, <3>2, <1>2 DEF BackOff, At
  <2>. QED
    BY <1>0, <1>2, <2>1, <2>2 DEF BackOff, Decr, GateTypeOK
<1>3. CASE Return(p)
  <2>1. GateTypeOK'
    BY <1>3 DEF Return, GateTypeOK
  <2>2. /\ Holders' = Holders
        /\ Turned' = Turned
    <3>1. "idle" \in GateLabels /\ "idle" # pc[p] /\ pc' = [pc EXCEPT ![p] = "idle"]
      BY <1>3 DEF Return, GateLabels
    <3>2. /\ Holders' = Holders + At("run", "idle") - At("run", pc[p])
          /\ Turned' = Turned + At("over", "idle") - At("over", pc[p])
      BY <3>1, MoveCounts
    <3>. QED
      BY <1>0, <3>2, <1>3 DEF Return, At
  <2>. QED
    BY <1>0, <1>3, <2>1, <2>2 DEF Return, GateTypeOK
<1>4. CASE Leave(p)
  <2>1. GateTypeOK'
    BY <1>4 DEF Leave, Decr, GateTypeOK
  <2>2. /\ Holders' = Holders - 1
        /\ Turned' = Turned
    <3>1. "idle" \in GateLabels /\ "idle" # pc[p] /\ pc' = [pc EXCEPT ![p] = "idle"]
      BY <1>4 DEF Leave, GateLabels
    <3>2. /\ Holders' = Holders + At("run", "idle") - At("run", pc[p])
          /\ Turned' = Turned + At("over", "idle") - At("over", pc[p])
      BY <3>1, MoveCounts
    <3>. QED
      BY <1>0, <3>2, <1>4 DEF Leave, At
  <2>. QED
    BY <1>0, <1>4, <2>1, <2>2 DEF Leave, Decr, GateTypeOK
<1>5. CASE LeaveOpen(p)
  <2>1. GateTypeOK'
    BY <1>5 DEF LeaveOpen, GateTypeOK
  <2>2. /\ Holders' = Holders
        /\ Turned' = Turned
    <3>1. "idle" \in GateLabels /\ "idle" # pc[p] /\ pc' = [pc EXCEPT ![p] = "idle"]
      BY <1>5 DEF LeaveOpen, GateLabels
    <3>2. /\ Holders' = Holders + At("run", "idle") - At("run", pc[p])
          /\ Turned' = Turned + At("over", "idle") - At("over", pc[p])
      BY <3>1, MoveCounts
    <3>. QED
      BY <1>0, <3>2, <1>5 DEF LeaveOpen, At
  <2>. QED
    BY <1>0, <1>5, <2>1, <2>2 DEF LeaveOpen, GateTypeOK
<1>6. CASE Crash(p)
  <2>1. GateTypeOK' /\ leaks' # 0
    BY <1>6 DEF Crash, Leak, GateTypeOK
  <2>. QED
    BY <1>6, <2>1 DEF Crash
<1>7. CASE EnterFailOpen(p)
  <2>0. exists' \in BOOLEAN
    BY <1>7, Zenon DEF EnterFailOpen, Incr, GateTypeOK
  <2>1. GateTypeOK'
    BY <1>7, <2>0 DEF EnterFailOpen, Incr, GateTypeOK
  <2>2. /\ Holders' = Holders
        /\ Turned' = Turned
    <3>1. "open" \in GateLabels /\ "open" # pc[p] /\ pc' = [pc EXCEPT ![p] = "open"]
      BY <1>7 DEF EnterFailOpen, GateLabels
    <3>2. /\ Holders' = Holders + At("run", "open") - At("run", pc[p])
          /\ Turned' = Turned + At("over", "open") - At("over", pc[p])
      BY <3>1, MoveCounts
    <3>. QED
      BY <1>0, <3>2, <1>7 DEF EnterFailOpen, At
  <2>3. CASE UNCHANGED <<exists, n, ttl, leaks>>
    BY <1>0, <2>1, <2>2, <2>3
  <2>4. CASE Incr /\ leaks' = leaks + 1
    BY <1>0, <2>1, <2>2, <2>4 DEF Incr, GateTypeOK
  <2>. QED
    BY <1>7, <2>3, <2>4 DEF EnterFailOpen
<1>. QED
  BY <1>1, <1>2, <1>3, <1>4, <1>5, <1>6, <1>7 DEF Step

\* Time passing: the TTL lapses only on slots that nobody counts on.
LEMMA TimeInv == ASSUME GateInv, GrowOld \/ Lapse PROVE GateInv'
<1>. USE CapAssumption, LeakAssumption
<1>. USE DEF GateInv, SlotsCounted, NoTtlNoDebt
<1>0. /\ Holders \in Nat /\ Turned \in Nat
  BY InFinite DEF Holders, Turned
<1>1. CASE GrowOld
  <2>1. Holders' = Holders /\ Turned' = Turned /\ GateTypeOK'
    BY <1>1 DEF GrowOld, In, GateTypeOK, Holders, Turned
  <2>. QED
    BY <1>1, <2>1 DEF GrowOld
<1>2. CASE Lapse
  <2>0. exists' \in BOOLEAN
    BY <1>2, Zenon DEF Lapse
  <2>1. Holders' = Holders /\ Turned' = Turned /\ GateTypeOK'
    BY <1>2, <2>0 DEF Lapse, In, GateTypeOK, Holders, Turned
  <2>2. Holders = 0 /\ (In("over") = {} => Turned = 0)
    BY <1>2, FS_EmptySet DEF Lapse, Holders, Turned
  <2>3. leaks = 0 => Turned = 0
    BY <1>0, <1>2, <2>2 DEF Lapse, Phantom, Holders, Turned
  <2>. QED
    BY <1>2, <2>1, <2>2, <2>3 DEF Lapse, GateTypeOK
<1>. QED
  BY <1>1, <1>2

LEMMA NextInv == GateInv /\ [GateNext]_gateVars => GateInv'
<1>. SUFFICES ASSUME GateInv, [GateNext]_gateVars PROVE GateInv'
  OBVIOUS
<1>1. CASE UNCHANGED gateVars
  BY <1>1 DEF gateVars, GateInv, GateTypeOK, SlotsCounted, NoTtlNoDebt, Holders, Turned, In
<1>. QED
  BY <1>1, StepInv, TimeInv DEF GateNext

\* A counter at its cap is above zero, and one above zero has a TTL.
LEMMA InvSound == GateInv => GateSound
  BY CapAssumption, InFinite
  DEF GateInv, GateSound, SlotsCounted, CapWithoutLeaks, CapRespected, CounterExact, Phantom,
      Holders, Turned, NeverWedged, NoTtlNoDebt, GateTypeOK

-----------------------------------------------------------------------------
\* acquireOrgSlot, its release and the TTL: until a slot leaks the counter counts
\* the increments in flight and no more than Cap deliveries hold one, and a
\* counter that leaks have filled always has a TTL to empty it.
THEOREM GateCorrect == GateSpec => []GateSound
<1>1. GateSpec => []GateInv
  BY InitInv, NextInv, PTL DEF GateSpec
<1>. QED
  BY <1>1, InvSound, PTL

-----------------------------------------------------------------------------
(* Days, periods and sums over them. *)

LEMMA PeriodStarts ==
  ASSUME NEW d \in Days, NEW period
  PROVE  /\ PeriodStart(d, period) \in Days /\ PeriodStart(d, period) <= d
         /\ period \in {"day", "month"} =>
               PeriodStart(PeriodStart(d, period), "month") = PeriodStart(d, "month")
<1>1. MaxDay \in Nat /\ DaysPerMonth \in Nat /\ DaysPerMonth > 0 /\ d \in Nat /\ d <= MaxDay
  BY Calendar DEF Days
<1>2. d % DaysPerMonth \in Int /\ d % DaysPerMonth >= 0 /\ d % DaysPerMonth <= d
  BY <1>1
<1>3. (d - (d % DaysPerMonth)) % DaysPerMonth = 0
  BY <1>1
<1>4. PeriodStart(d, "month") \in Days /\ PeriodStart(d, "month") <= d
  BY <1>1, <1>2 DEF PeriodStart, Days
<1>5. PeriodStart(PeriodStart(d, "month"), "month") = PeriodStart(d, "month")
  BY <1>1, <1>2, <1>3 DEF PeriodStart
<1>6. period = "day" => PeriodStart(d, period) = d
  BY DEF PeriodStart
<1>7. period # "day" => PeriodStart(d, period) = PeriodStart(d, "month")
  BY DEF PeriodStart
<1>. QED
  BY <1>1, <1>4, <1>5, <1>6, <1>7

\* What holds of no day, and of the next one whenever of one, holds of all.
LEMMA DayInduction ==
  ASSUME NEW m \in Nat, NEW T, 0 \in T, \A i \in 0..m : i \in T /\ i < m => i + 1 \in T
  PROVE  \A i \in 0..m : i \in T
<1>. DEFINE U == {i \in 0..m : i \notin T}
<1>1. SUFFICES ASSUME U # {} PROVE FALSE
  OBVIOUS
<1>2. IsWellFoundedOn(OpToRel(<, Nat), Nat)
  BY NatLessThanWellFounded
<1>3. PICK x \in U : \A y \in U : ~(<<y, x>> \in OpToRel(<, Nat))
  <2>. HIDE DEF U
  <2>1. U \subseteq Nat
    BY DEF U
  <2>. QED
    BY <1>1, <1>2, <2>1, WFMin
<1>4. ASSUME NEW y \in U, y < x PROVE FALSE
  <2>1. <<y, x>> \in Nat \X Nat /\ <<y, x>>[1] < <<y, x>>[2]
    BY <1>4
  <2>2. <<y, x>> \in OpToRel(<, Nat)
    BY <2>1, Zenon DEF OpToRel
  <2>. QED
    BY <1>3, <2>2
<1>. QED
  BY <1>4

\* The function that Total computes adds up one day after the other.
LEMMA TotalLoop ==
  ASSUME NEW f \in [Days -> Nat]
  PROVE  \E g : /\ DOMAIN g = 0..(MaxDay + 1) /\ g[0] = 0
                /\ \A i \in 1..(MaxDay + 1) : g[i] = g[i - 1] + f[i - 1]
                /\ Total(f) = g[MaxDay + 1]
<1>. DEFINE m == MaxDay + 1
            Def(g, i) == IF i = 0 THEN 0 ELSE g[i - 1] + f[i - 1]
            Approx(k) == \E g : g = [i \in 0..k |-> Def(g, i)]
            T == {k \in 0..m : Approx(k)}
<1>0. m \in Nat
  BY Calendar
<1>1. Approx(0)
  <2>1. [i \in 0..0 |-> 0] = [i \in 0..0 |-> Def([j \in 0..0 |-> 0], i)]
    OBVIOUS
  <2>. QED
    BY <2>1
<1>2. ASSUME NEW k \in 0..m, k < m, Approx(k) PROVE Approx(k + 1)
  <2>1. PICK g : g = [i \in 0..k |-> Def(g, i)]
    BY <1>2
  <2>. DEFINE h == [i \in 0..(k + 1) |-> IF i = k + 1 THEN g[k] + f[k] ELSE g[i]]
  <2>2. ASSUME NEW i \in 0..(k + 1) PROVE h[i] = Def(h, i)
    <3>1. CASE i = 0
      BY <1>0, <2>1, <3>1
    <3>2. CASE i \in 1..k
      BY <1>0, <2>1, <3>2
    <3>3. CASE i = k + 1
      BY <1>0, <2>1, <3>3
    <3>. QED
      BY <1>0, <3>1, <3>2, <3>3
  <2>3. h = [i \in 0..(k + 1) |-> Def(h, i)]
    BY <2>2
  <2>. QED
    BY <2>3
<1>3. Approx(m)
  <2>. HIDE DEF Approx, m
  <2>1. 0 \in T /\ \A i \in 0..m : i \in T /\ i < m => i + 1 \in T
    BY <1>0, <1>1, <1>2
  <2>2. \A i \in 0..m : i \in T
    <3>. HIDE DEF T
    <3>. QED
      BY <1>0, <2>1, DayInduction
  <2>. QED
    BY <1>0, <2>2
<1>. DEFINE h == CHOOSE g : g = [i \in 0..m |-> Def(g, i)]
<1>4. h = [i \in 0..m |-> Def(h, i)]
  BY <1>3
<1>5. Total(f) = h[m]
  BY DEF Total
<1>. HIDE DEF h
<1>6. DOMAIN h = 0..m /\ \A i \in 0..m : h[i] = Def(h, i)
  BY <1>0, <1>4
<1>7. h[0] = 0 /\ \A i \in 1..m : h[i] = h[i - 1] + f[i - 1]
  BY <1>0, <1>6
<1>. QED
  BY <1>5, <1>6, <1>7

LEMMA TotalMonotone ==
  ASSUME NEW f \in [Days -> Nat], NEW g \in [Days -> Nat], \A d \in Days : f[d] <= g[d]
  PROVE  Total(f) \in Nat /\ Total(g) \in Nat /\ Total(f) <= Total(g)
<1>. DEFINE m == MaxDay + 1
<1>0. m \in Nat /\ \A i \in 1..m : i - 1 \in Days
  BY Calendar DEF Days
<1>1. PICK x : /\ DOMAIN x = 0..m /\ x[0] = 0 /\ Total(f) = x[m]
               /\ \A i \in 1..m : x[i] = x[i - 1] + f[i - 1]
  BY TotalLoop
<1>2. PICK y : /\ DOMAIN y = 0..m /\ y[0] = 0 /\ Total(g) = y[m]
               /\ \A i \in 1..m : y[i] = y[i - 1] + g[i - 1]
  BY TotalLoop
<1>. DEFINE T == {i \in 0..m : x[i] \in Nat /\ y[i] \in Nat /\ x[i] <= y[i]}
<1>. HIDE DEF m
<1>3. 0 \in T
  BY <1>0, <1>1, <1>2
<1>4. ASSUME NEW i \in 0..m, i \in T, i < m PROVE i + 1 \in T
  <2>1. i + 1 \in 1..m /\ i \in Days
    BY <1>0, <1>4 DEF m, Days
  <2>2. x[i + 1] = x[i] + f[i] /\ y[i + 1] = y[i] + g[i]
    BY <1>0, <1>1, <1>2, <2>1
  <2>. QED
    BY <1>0, <1>4, <2>1, <2>2
<1>5. \A i \in 0..m : i \in T
  <2>. HIDE DEF T
  <2>. QED
    BY <1>0, <1>3, <1>4, DayInduction
<1>. QED
  BY <1>0, <1>1, <1>2, <1>5

-----------------------------------------------------------------------------
(* The inductive invariant. *)

Alerts == [Days -> [Tiers -> Nat]]

HistoryTyped ==
    /\ ver \in Nat
    /\ accepted \in [Days -> Nat] /\ miss \in [Days -> Nat] /\ cap \in [Days -> Int]
    /\ rejected \subseteq Days /\ published \in Alerts /\ unexplained \subseteq Days

\* One reload is under way at most, of limits not older than those in use.
LoadsForward ==
    /\ snap.ver <= ver
    /\ \A l \in loading : snap.ver <= l.ver /\ l.ver <= ver
    /\ \A k, l \in loading : k = l

\* Every accepted request is in the counter or among those taken out of it.
CounterPays == \A p \in Days : accepted[p] <= counter[p] + miss[p]

\* A count under way is of rows of the period's month that were made.
SweepsOwnRows == \A w \in Sweepers :
    LET sw == sweep[w] IN sw.pc \in {"upsert", "set"} => sw.count > 0 /\ sw.count <= MonthRows(After(sw), made)

RowsMade == \A d \in Days : rows[d] <= made[d]

\* The latch of an alert is set by its publication, or by a fault that lost it.
LatchTells == \A p \in Days, t \in Tiers :
    /\ published[p][t] <= 1
    /\ published[p][t] = 1 => <<p, t>> \in latch
    /\ <<p, t>> \in latch => published[p][t] = 1 \/ p \in unexplained

Metered == CounterPays /\ CeilingHolds
Recorded == RowsMade /\ SweepsOwnRows /\ RecordsOwnRows
Told == LatchTells /\ RejectionExplained

UsageInv == TypeOK /\ HistoryTyped /\ LoadsForward /\ Metered /\ Recorded /\ Told

-----------------------------------------------------------------------------
(* What an action leaves alone. *)

UsedTyped == used \in [Bounded -> Nat] /\ \A what \in Bounded : used[what] <= Most(what)

LEMMA Keeps ==
  ASSUME UsageInv
  PROVE  /\ UNCHANGED <<snap, loading, ver>> => LoadsForward' /\ SnapshotForward
         /\ UNCHANGED <<accepted, counter, miss, cap>> => Metered'
         /\ UNCHANGED <<rows, made, sweep, rollup>> => Recorded'
         /\ UNCHANGED <<alerting, latch, published, unexplained, rejected>> => Told'
         /\ UNCHANGED <<day, sweep, rollup>> => RecordsFinal
         /\ UNCHANGED sweep => CountersOwn
<1>1. UNCHANGED <<snap, loading, ver>> => LoadsForward' /\ SnapshotForward
  BY DEF UsageInv, LoadsForward, SnapshotForward, TypeOK
<1>2. UNCHANGED <<accepted, counter, miss, cap>> => Metered'
  BY DEF UsageInv, Metered, CounterPays, CeilingHolds
<1>3. UNCHANGED <<rows, made, sweep, rollup>> => Recorded'
  BY DEF UsageInv, Recorded, RowsMade, SweepsOwnRows, RecordsOwnRows
<1>4. UNCHANGED <<alerting, latch, published, unexplained, rejected>> => Told'
  BY DEF UsageInv, Told, LatchTells, RejectionExplained
<1>5. UNCHANGED <<day, sweep, rollup>> => RecordsFinal
  BY DEF RecordsFinal, Closed, Runs, PeriodStart
<1>6. UNCHANGED sweep => CountersOwn
  BY DEF CountersOwn
<1>. QED
  BY <1>1, <1>2, <1>3, <1>4, <1>5, <1>6

LEMMA UsedKept == ASSUME TypeOK, UNCHANGED used \/ \E what \in Bounded : May(what) PROVE UsedTyped'
<1>. USE Bounds DEF TypeOK, UsedTyped
<1>1. CASE UNCHANGED used
  BY <1>1
<1>2. ASSUME NEW what \in Bounded, May(what) PROVE UsedTyped'
  <2>1. Most(what) \in Nat
    BY DEF Most, Bounded
  <2>2. used' = [used EXCEPT ![what] = used[what] + 1] /\ used[what] < Most(what)
    BY <1>2 DEF May
  <2>. HIDE DEF Bounded
  <2>. QED
    BY <2>1, <2>2
<1>. QED
  BY <1>1, <1>2

UsageGood == UsageInv' /\ RecordsFinal /\ CountersOwn /\ SnapshotForward

-----------------------------------------------------------------------------
(* The gate. *)

LEMMA Uncounted == ASSUME UsageInv, CheckFailsOpen \/ CheckUnlimited PROVE UsageGood
<1>1. /\ pending' = pending + 1 /\ May("checks")
      /\ UNCHANGED <<day, tables, counter, snap, loading, sweep, alerts, history>>
  BY DEF CheckFailsOpen, CheckUnlimited, Accept
<1>2. UNCHANGED <<day, quota, patching, rows, made, rollup, ver, counter, snap, loading, sweep, alerting, latch,
                  published, unexplained, accepted, miss, cap, rejected>>
  BY <1>1 DEF tables, alerts, history
<1>3. UsedTyped'
  BY <1>1, UsedKept DEF UsageInv, Bounded
<1>4. TypeOK'
  BY <1>1, <1>2, <1>3 DEF UsageInv, TypeOK, UsedTyped
<1>5. HistoryTyped'
  BY <1>2 DEF UsageInv, HistoryTyped
<1>. QED
  BY <1>2, <1>4, <1>5, Keeps DEF UsageGood, UsageInv

LEMMA CheckCountsGood == ASSUME UsageInv, NEW d \in JustRead, CheckCounts(d) PROVE UsageGood
<1>. DEFINE lim == snap.lim
            p == PeriodStart(d, lim.period)
            dec == Check(counter[p] + 1, lim)
<1>0. TypeOK /\ HistoryTyped /\ Metered /\ Told
  BY DEF UsageInv
<1>1. p \in Days /\ lim.soft \in Nat /\ lim.hard \in Nat
  BY <1>0, PeriodStarts DEF TypeOK, Limits, JustRead
<1>2. /\ May("checks") /\ counter' = [counter EXCEPT ![p] = counter[p] + 1]
      /\ alerting' = IF dec = "allow" THEN alerting ELSE [alerting EXCEPT ![p][dec] = @ + 1]
      /\ UNCHANGED <<day, quota, patching, rows, made, rollup, ver, snap, loading, sweep, latch, published,
                     unexplained, miss>>
  BY DEF CheckCounts, tables
<1>3. dec \in {"allow", "soft", "hard"}
  BY DEF Check
<1>4. CASE dec = "hard"
  <2>1. rejected' = rejected \cup {p} /\ UNCHANGED <<pending, accepted, cap>>
    BY <1>4 DEF CheckCounts
  <2>2. alerting' = [alerting EXCEPT ![p]["hard"] = @ + 1]
    BY <1>2, <1>4
  <2>. HIDE DEF p, dec
  <2>3. UsedTyped'
    BY <1>0, <1>2, UsedKept DEF Bounded
  <2>4. TypeOK' /\ HistoryTyped'
    BY <1>0, <1>1, <1>2, <2>1, <2>2, <2>3 DEF TypeOK, UsedTyped, HistoryTyped, Tiers
  <2>5. Metered'
    BY <1>0, <1>1, <1>2, <2>1 DEF TypeOK, HistoryTyped, Metered, CounterPays, CeilingHolds
  <2>6. Told'
    BY <1>0, <1>1, <1>2, <2>1, <2>2 DEF TypeOK, Told, LatchTells, RejectionExplained, Tiers
  <2>. QED
    BY <1>2, <2>4, <2>5, <2>6, Keeps DEF UsageGood, UsageInv
<1>5. CASE dec # "hard"
  <2>1. /\ pending' = pending + 1 /\ accepted' = [accepted EXCEPT ![p] = accepted[p] + 1]
        /\ cap' = [cap EXCEPT ![p] = IF lim.hard = 0 \/ cap[p] = -1 THEN -1
                                     ELSE IF lim.hard > cap[p] THEN lim.hard ELSE cap[p]]
        /\ UNCHANGED rejected
    BY <1>5 DEF CheckCounts, Accept
  <2>2. alerting' \in [Days -> [Tiers -> Nat]] /\ \A q \in Days : alerting'[q]["hard"] = alerting[q]["hard"]
    <3>. HIDE DEF p, dec
    <3>1. CASE dec = "allow"
      BY <1>0, <1>2, <3>1 DEF TypeOK
    <3>2. CASE dec = "soft"
      BY <1>0, <1>1, <1>2, <3>2 DEF TypeOK, Tiers
    <3>. QED
      BY <1>3, <1>5, <3>1, <3>2
  <2>3. lim.hard > 0 => counter[p] + 1 < lim.hard
    BY <1>0, <1>1, <1>5 DEF Check, TypeOK
  <2>. HIDE DEF p, dec, lim
  <2>4. UsedTyped'
    BY <1>0, <1>2, UsedKept DEF Bounded
  <2>5. cap'[p] \in Int /\ cap' \in [Days -> Int]
    BY <1>0, <1>1, <2>1 DEF HistoryTyped
  <2>6. TypeOK' /\ HistoryTyped'
    BY <1>0, <1>1, <1>2, <2>1, <2>2, <2>4, <2>5 DEF TypeOK, UsedTyped, HistoryTyped
  <2>7. Metered'
    <3>1. CounterPays'
      BY <1>0, <1>1, <1>2, <2>1 DEF TypeOK, HistoryTyped, Metered, CounterPays
    <3>2. cap'[p] > 0 => accepted'[p] < cap'[p] + miss'[p]
      <4>1. cap'[p] > 0 => lim.hard > 0 /\ cap'[p] >= lim.hard
        BY <1>0, <1>1, <2>1 DEF HistoryTyped
      <4>2. accepted'[p] = accepted[p] + 1 /\ accepted[p] <= counter[p] + miss[p] /\ miss'[p] = miss[p]
        BY <1>0, <1>1, <1>2, <2>1 DEF HistoryTyped, Metered, CounterPays
      <4>3. accepted[p] \in Nat /\ counter[p] \in Nat /\ miss[p] \in Nat
        BY <1>0, <1>1 DEF TypeOK, HistoryTyped
      <4>. QED
        BY <1>1, <2>3, <2>5, <4>1, <4>2, <4>3
    <3>3. \A q \in Days \ {p} : accepted'[q] = accepted[q] /\ cap'[q] = cap[q] /\ miss'[q] = miss[q]
      BY <1>0, <1>2, <2>1 DEF HistoryTyped
    <3>4. CeilingHolds'
      BY <1>0, <3>2, <3>3 DEF Metered, CeilingHolds
    <3>. QED
      BY <3>1, <3>4 DEF Metered
  <2>8. Told'
    BY <1>0, <1>2, <2>1, <2>2 DEF Told, LatchTells, RejectionExplained, HistoryTyped
  <2>. QED
    BY <1>2, <2>6, <2>7, <2>8, Keeps DEF UsageGood, UsageInv
<1>. QED
  BY <1>4, <1>5

-----------------------------------------------------------------------------
(* Rows, and the sums of a month's. *)

LEMMA MonthGrows ==
  ASSUME NEW f \in [Days -> Nat], NEW g \in [Days -> Nat], \A d \in Days : f[d] <= g[d], NEW p
  PROVE  MonthRows(p, f) \in Nat /\ MonthRows(p, g) \in Nat /\ MonthRows(p, f) <= MonthRows(p, g)
<1>. DEFINE Own(d) == d >= p /\ PeriodStart(d, "month") = PeriodStart(p, "month")
            x == [d \in Days |-> IF Own(d) THEN f[d] ELSE 0]
            y == [d \in Days |-> IF Own(d) THEN g[d] ELSE 0]
<1>1. MonthRows(p, f) = Total(x) /\ MonthRows(p, g) = Total(y)
  BY DEF MonthRows
<1>. HIDE DEF Own
<1>2. x \in [Days -> Nat] /\ y \in [Days -> Nat] /\ \A d \in Days : x[d] <= y[d]
  OBVIOUS
<1>. HIDE DEF x, y
<1>. QED
  BY <1>1, <1>2, TotalMonotone

\* A period lies in one month, so its rows are rows of that month.
LEMMA CountedInMonth ==
  ASSUME UsageInv, NEW d \in Days, NEW period \in {"day", "month"}
  PROVE  /\ CountRows(PeriodStart(d, period), period) \in Nat
         /\ CountRows(PeriodStart(d, period), period) <= MonthRows(PeriodStart(d, period), made)
<1>. DEFINE p == PeriodStart(d, period)
            x == [e \in Days |-> IF e \in Bucket(p, period) THEN rows[e] ELSE 0]
            y == [e \in Days |-> IF e >= p /\ PeriodStart(e, "month") = PeriodStart(p, "month")
                                 THEN made[e] ELSE 0]
<1>0. rows \in [Days -> Nat] /\ made \in [Days -> Nat] /\ \A e \in Days : rows[e] <= made[e]
  BY DEF UsageInv, TypeOK, Recorded, RowsMade
<1>1. CountRows(p, period) = Total(x) /\ MonthRows(p, made) = Total(y)
  BY DEF CountRows, MonthRows
<1>2. ASSUME NEW e \in Days, e \in Bucket(p, period)
      PROVE  e >= p /\ PeriodStart(e, "month") = PeriodStart(p, "month")
  <2>1. e >= p /\ PeriodStart(e, period) = p
    BY <1>2 DEF Bucket
  <2>2. PeriodStart(PeriodStart(e, period), "month") = PeriodStart(e, "month")
    BY PeriodStarts
  <2>. QED
    BY <2>1, <2>2
<1>. HIDE DEF p
<1>3. x \in [Days -> Nat] /\ y \in [Days -> Nat] /\ \A e \in Days : x[e] <= y[e]
  BY <1>0, <1>2
<1>. HIDE DEF x, y
<1>4. CountRows(p, period) \in Nat /\ CountRows(p, period) <= MonthRows(p, made)
  BY <1>1, <1>3, TotalMonotone
<1>. QED
  BY <1>4 DEF p

LEMMA InsertGood == ASSUME UsageInv, Insert PROVE UsageGood
<1>0. TypeOK /\ HistoryTyped /\ Recorded
  BY DEF UsageInv
<1>1. PICK k \in 0..MaxFanOut : /\ rows' = [rows EXCEPT ![day] = rows[day] + k]
                                /\ made' = [made EXCEPT ![day] = made[day] + k]
  BY DEF Insert
<1>2. /\ pending > 0 /\ pending' = pending - 1
      /\ UNCHANGED <<day, quota, patching, rollup, ver, counter, snap, loading, sweep, alerting, latch,
                     published, unexplained, accepted, miss, cap, rejected, used>>
  BY DEF Insert, alerts, history
<1>3. /\ rows' \in [Days -> Nat] /\ made' \in [Days -> Nat] /\ day \in Days
      /\ \A d \in Days : rows'[d] <= made'[d] /\ made[d] <= made'[d]
  BY <1>0, <1>1, Bounds DEF TypeOK, Recorded, RowsMade
<1>4. TypeOK' /\ HistoryTyped'
  BY <1>0, <1>2, <1>3 DEF TypeOK, HistoryTyped
<1>5. Recorded'
  <2>1. \A p : MonthRows(p, made) \in Nat /\ MonthRows(p, made') \in Nat /\ MonthRows(p, made) <= MonthRows(p, made')
    BY <1>0, <1>3, MonthGrows DEF TypeOK
  <2>2. RowsMade'
    BY <1>3 DEF RowsMade
  <2>3. SweepsOwnRows'
    <3>1. ASSUME NEW w \in Sweepers, sweep[w].pc \in {"upsert", "set"}
          PROVE  sweep[w].count > 0 /\ sweep[w].count <= MonthRows(After(sweep[w]), made')
      <4>1. sweep[w].count > 0 /\ sweep[w].count <= MonthRows(After(sweep[w]), made) /\ sweep[w].count \in Nat
        BY <1>0, <3>1 DEF Recorded, SweepsOwnRows, TypeOK
      <4>. QED
        BY <4>1, <2>1
    <3>. QED
      BY <1>2, <3>1 DEF SweepsOwnRows
  <2>4. RecordsOwnRows'
    <3>1. ASSUME NEW p \in Days, rollup[p] # None PROVE rollup[p] <= MonthRows(p, made')
      <4>1. rollup[p] <= MonthRows(p, made) /\ rollup[p] \in Nat
        BY <1>0, <3>1 DEF Recorded, RecordsOwnRows, TypeOK
      <4>. QED
        BY <4>1, <2>1
    <3>. QED
      BY <1>2, <3>1 DEF RecordsOwnRows
  <2>. QED
    BY <2>2, <2>3, <2>4 DEF Recorded
<1>. QED
  BY <1>2, <1>4, <1>5, Keeps DEF UsageGood, UsageInv

LEMMA CascadeGood == ASSUME UsageInv, NEW d \in Days, CascadeDelete(d) PROVE UsageGood
<1>0. TypeOK /\ HistoryTyped /\ Recorded
  BY DEF UsageInv
<1>1. /\ rows[d] > 0 /\ May("deletes") /\ rows' = [rows EXCEPT ![d] = rows[d] - 1]
      /\ UNCHANGED <<day, quota, patching, made, rollup, ver, counter, snap, loading, pending, sweep, alerting,
                     latch, published, unexplained, accepted, miss, cap, rejected>>
  BY DEF CascadeDelete, alerts, history, gate
<1>2. rows' \in [Days -> Nat] /\ RowsMade'
  BY <1>0, <1>1 DEF TypeOK, Recorded, RowsMade
<1>3. UsedTyped'
  BY <1>0, <1>1, UsedKept DEF Bounded
<1>4. TypeOK' /\ HistoryTyped'
  BY <1>0, <1>1, <1>2, <1>3 DEF TypeOK, HistoryTyped, UsedTyped
<1>5. Recorded'
  BY <1>0, <1>1, <1>2 DEF Recorded, SweepsOwnRows, RecordsOwnRows
<1>. QED
  BY <1>1, <1>4, <1>5, Keeps DEF UsageGood, UsageInv

-----------------------------------------------------------------------------
(* The snapshot of the limits, and the day. *)

LEMMA DayGood == ASSUME UsageInv, DayPasses PROVE UsageGood
<1>0. TypeOK /\ HistoryTyped
  BY DEF UsageInv
<1>1. /\ day' \in Days /\ day' = day + 1 /\ day \in Int
      /\ UNCHANGED <<quota, patching, rows, made, rollup, ver, counter, snap, loading, pending, sweep, alerting,
                     latch, published, unexplained, accepted, miss, cap, rejected, used>>
  BY <1>0, Calendar DEF DayPasses, alerts, history, gate, tables, TypeOK, Days
<1>2. TypeOK' /\ HistoryTyped'
  BY <1>0, <1>1 DEF TypeOK, HistoryTyped
<1>3. RecordsFinal
  <2>1. SUFFICES ASSUME NEW p \in Days, Closed(p) PROVE Closed(p)'
    BY <1>1 DEF RecordsFinal
  <2>2. \A d \in Days : d \in Int /\ (d >= day' => d >= day)
    BY <1>1 DEF Days
  <2>. QED
    BY <1>1, <2>1, <2>2 DEF Closed, Runs, PeriodStart
<1>. QED
  BY <1>1, <1>2, <1>3, Keeps DEF UsageGood, UsageInv

LEMMA RefreshGood == ASSUME UsageInv, Refresh PROVE UsageGood
<1>0. TypeOK /\ HistoryTyped /\ LoadsForward
  BY DEF UsageInv
<1>. DEFINE l == [ver |-> ver, lim |-> quota.lim]
<1>1. /\ loading = {} /\ loading' = {l}
      /\ UNCHANGED <<day, quota, patching, rows, made, rollup, ver, counter, snap, pending, sweep, alerting,
                     latch, published, unexplained, accepted, miss, cap, rejected, used>>
  BY DEF Refresh, Idling, alerts, history, tables
<1>2. l \in [ver: Nat, lim: Limits] /\ l.ver = ver /\ snap.ver \in Nat
  BY <1>0 DEF TypeOK, HistoryTyped, Stored
<1>. HIDE DEF l
<1>3. TypeOK' /\ HistoryTyped'
  BY <1>0, <1>1, <1>2 DEF TypeOK, HistoryTyped
<1>4. LoadsForward' /\ SnapshotForward
  BY <1>0, <1>1, <1>2 DEF LoadsForward, SnapshotForward, HistoryTyped
<1>. QED
  BY <1>1, <1>3, <1>4, Keeps DEF UsageGood, UsageInv

LEMMA ReloadGood == ASSUME UsageInv, NEW l \in loading, Reload(l) PROVE UsageGood
<1>0. TypeOK /\ HistoryTyped /\ LoadsForward
  BY DEF UsageInv
<1>1. /\ loading' = loading \ {l}
      /\ UNCHANGED <<day, quota, patching, rows, made, rollup, ver, counter, pending, sweep, alerting,
                     latch, published, unexplained, accepted, miss, cap, rejected>>
  BY DEF Reload, alerts, history, tables
<1>2. snap' \in {snap, l}
  BY DEF Reload
<1>3. loading' = {} /\ l.ver \in Nat /\ snap.ver \in Nat /\ l \in [ver: Nat, lim: Limits]
  BY <1>0, <1>1 DEF LoadsForward, TypeOK
<1>4. UsedTyped'
  BY <1>0, UsedKept DEF Reload, Fault, Bounded
<1>5. TypeOK' /\ HistoryTyped'
  BY <1>0, <1>1, <1>2, <1>3, <1>4 DEF TypeOK, HistoryTyped, UsedTyped
<1>6. LoadsForward' /\ SnapshotForward
  BY <1>0, <1>1, <1>2, <1>3 DEF LoadsForward, SnapshotForward, HistoryTyped
<1>. QED
  BY <1>1, <1>5, <1>6, Keeps DEF UsageGood, UsageInv

-----------------------------------------------------------------------------
(* Alerts. *)

LEMMA AlertGood == ASSUME UsageInv, NEW p \in Days, NEW t \in Tiers, Alert(p, t) PROVE UsageGood
<1>0. TypeOK /\ HistoryTyped /\ Told
  BY DEF UsageInv
<1>1. /\ alerting[p][t] > 0 /\ alerting' = [alerting EXCEPT ![p][t] = @ - 1]
      /\ UNCHANGED <<day, quota, patching, rows, made, rollup, ver, counter, snap, loading, pending, sweep,
                     accepted, miss, cap, rejected>>
  BY DEF Alert, gate, history, tables
<1>2. /\ alerting' \in [Days -> [Tiers -> Nat]]
      /\ \A q \in Days, s \in Tiers : <<q, s>> # <<p, t>> => alerting'[q][s] = alerting[q][s]
  BY <1>0, <1>1 DEF TypeOK
<1>3. UsedTyped'
  BY <1>0, UsedKept DEF Alert, Fault, Bounded
<1>4. CASE /\ latch' = latch \cup {<<p, t>>} /\ UNCHANGED unexplained
           /\ IF <<p, t>> \in latch THEN UNCHANGED published
              ELSE published' = [published EXCEPT ![p][t] = @ + 1]
  <2>1. /\ published' \in Alerts
        /\ \A q \in Days, s \in Tiers : <<q, s>> # <<p, t>> => published'[q][s] = published[q][s]
        /\ published'[p][t] = 1 \/ p \in unexplained
        /\ published'[p][t] <= 1
    <3>1. CASE <<p, t>> \in latch
      BY <1>0, <1>4, <3>1 DEF HistoryTyped, Told, LatchTells
    <3>2. CASE <<p, t>> \notin latch
      <4>1. published[p][t] = 0
        <5>1. published[p][t] \in Nat
          BY <1>0 DEF HistoryTyped, Alerts
        <5>2. published[p][t] <= 1 /\ published[p][t] # 1
          BY <1>0, <3>2 DEF Told, LatchTells
        <5>. QED
          BY <5>1, <5>2
      <4>2. published' = [published EXCEPT ![p][t] = @ + 1]
        BY <1>4, <3>2
      <4>. QED
        BY <1>0, <4>1, <4>2 DEF HistoryTyped, Alerts
    <3>. QED
      BY <3>1, <3>2
  <2>2. latch' \subseteq Days \X Tiers
    BY <1>0, <1>4 DEF TypeOK
  <2>3. TypeOK' /\ HistoryTyped'
    BY <1>0, <1>1, <1>2, <1>3, <1>4, <2>1, <2>2 DEF TypeOK, HistoryTyped, UsedTyped
  <2>4. LatchTells'
    BY <1>0, <1>4, <2>1 DEF Told, LatchTells
  <2>5. RejectionExplained'
    <3>1. \A q \in Days, s \in Tiers : published'[q][s] <= 1
      BY <2>4 DEF LatchTells
    <3>2. ASSUME NEW q \in rejected
          PROVE  published'[q]["hard"] = 1 \/ alerting'[q]["hard"] > 0 \/ q \in unexplained'
      <4>1. q \in Days /\ "hard" \in Tiers
        BY <1>0 DEF HistoryTyped, Tiers
      <4>2. CASE <<q, "hard">> = <<p, t>>
        BY <1>4, <2>1, <4>2
      <4>3. CASE <<q, "hard">> # <<p, t>>
        BY <1>0, <1>2, <1>4, <2>1, <4>1, <4>3 DEF Told, RejectionExplained
      <4>. QED
        BY <4>2, <4>3
    <3>. QED
      BY <1>1, <3>1, <3>2 DEF RejectionExplained
  <2>. QED
    BY <1>1, <2>3, <2>4, <2>5, Keeps DEF UsageGood, UsageInv, Told
<1>5. CASE /\ latch' \in {latch, latch \cup {<<p, t>>}} /\ unexplained' = unexplained \cup {p}
           /\ UNCHANGED published
  <2>1. latch' \subseteq Days \X Tiers
    BY <1>0, <1>5 DEF TypeOK
  <2>2. TypeOK' /\ HistoryTyped'
    BY <1>0, <1>1, <1>2, <1>3, <1>5, <2>1 DEF TypeOK, HistoryTyped, UsedTyped
  <2>3. LatchTells'
    <3>1. ASSUME NEW q \in Days, NEW s \in Tiers
          PROVE  /\ published[q][s] <= 1
                 /\ published[q][s] = 1 => <<q, s>> \in latch'
                 /\ <<q, s>> \in latch' => published[q][s] = 1 \/ q \in unexplained'
      <4>1. /\ published[q][s] <= 1
            /\ published[q][s] = 1 => <<q, s>> \in latch
            /\ <<q, s>> \in latch => published[q][s] = 1 \/ q \in unexplained
        BY <1>0 DEF Told, LatchTells
      <4>2. latch \subseteq latch' /\ (<<q, s>> \in latch' => <<q, s>> \in latch \/ q = p)
        BY <1>5
      <4>. QED
        BY <1>5, <4>1, <4>2
    <3>. QED
      BY <1>5, <3>1 DEF LatchTells
  <2>4. RejectionExplained'
    <3>2. ASSUME NEW q \in rejected
          PROVE  published'[q]["hard"] = 1 \/ alerting'[q]["hard"] > 0 \/ q \in unexplained'
      <4>1. q \in Days /\ "hard" \in Tiers
        BY <1>0 DEF HistoryTyped, Tiers
      <4>2. CASE q = p
        BY <1>5, <4>2
      <4>3. CASE q # p
        BY <1>0, <1>2, <1>5, <4>1, <4>3 DEF Told, RejectionExplained
      <4>. QED
        BY <4>2, <4>3
    <3>. QED
      BY <1>0, <1>1, <1>5, <3>2 DEF RejectionExplained, Told
  <2>. QED
    BY <1>1, <2>2, <2>3, <2>4, Keeps DEF UsageGood, UsageInv, Told
<1>. QED
  BY <1>4, <1>5 DEF Alert, Latch

-----------------------------------------------------------------------------
(* The operator's plan changes. *)

LEMMA PatchGood == ASSUME UsageInv, NEW b \in Bodies, PatchOrgPlan(b) PROVE UsageGood
<1>0. TypeOK /\ HistoryTyped
  BY DEF UsageInv
<1>1. /\ May("patches") /\ patching' = patching \cup {[body |-> b, read |-> quota]}
      /\ UNCHANGED <<day, quota, rows, made, rollup, ver, counter, snap, loading, pending, sweep, alerting,
                     latch, published, unexplained, accepted, miss, cap, rejected>>
  BY DEF PatchOrgPlan, alerts, history, gate
<1>2. UsedTyped'
  BY <1>0, <1>1, UsedKept DEF Bounded
<1>3. TypeOK' /\ HistoryTyped'
  BY <1>0, <1>1, <1>2 DEF TypeOK, HistoryTyped, UsedTyped
<1>. QED
  BY <1>1, <1>3, Keeps DEF UsageGood, UsageInv

LEMMA MergedStored == ASSUME NEW read \in Stored, NEW b \in Bodies PROVE Merged(read, b) \in Stored
<1>. DEFINE plan == IF b.plan = None THEN read.plan ELSE b.plan
            hard == IF b.hard = None THEN read.lim.hard ELSE b.hard
            period == IF b.period = None THEN read.lim.period ELSE b.period
<1>1. /\ b.plan \in DOMAIN Presets \cup {"custom", None} /\ b.hard \in Nat \cup {None}
      /\ b.period \in {"day", "month", None}
  BY BodiesTyped
<1>2. /\ read.plan \in DOMAIN Presets \cup {"custom"} /\ read.lim \in Limits
      /\ read.lim.soft \in Nat /\ read.lim.hard \in Nat /\ read.lim.period \in {"day", "month"}
  BY DEF Stored, Limits
<1>3. plan \in DOMAIN Presets \cup {"custom"} /\ hard \in Nat /\ period \in {"day", "month"}
  BY <1>1, <1>2
<1>4. Merged(read, b) = IF plan \in DOMAIN Presets THEN [plan |-> plan, lim |-> Presets[plan]]
                        ELSE [plan |-> plan, lim |-> [read.lim EXCEPT !.hard = hard, !.period = period]]
  BY DEF Merged
<1>. HIDE DEF plan, hard, period
<1>5. [read.lim EXCEPT !.hard = hard, !.period = period] \in Limits
  BY <1>2, <1>3 DEF Limits
<1>6. CASE plan \in DOMAIN Presets
  BY <1>4, <1>6, PresetLimits DEF Stored
<1>7. CASE plan \notin DOMAIN Presets
  BY <1>3, <1>4, <1>5, <1>7 DEF Stored
<1>. QED
  BY <1>6, <1>7

LEMMA UpdateGood == ASSUME UsageInv, NEW r \in patching, UpdateOrgQuota(r) PROVE UsageGood
<1>0. TypeOK /\ HistoryTyped /\ LoadsForward
  BY DEF UsageInv
<1>1. /\ patching' = patching \ {r} /\ quota' = Merged(r.read, r.body) /\ ver' = ver + 1
      /\ UNCHANGED <<day, rows, made, rollup, counter, snap, loading, pending, sweep, alerting,
                     latch, published, unexplained, accepted, miss, cap, rejected, used>>
  BY DEF UpdateOrgQuota, alerts, history, gate
<1>2. quota' \in Stored
  BY <1>0, <1>1, MergedStored DEF TypeOK
<1>3. TypeOK' /\ HistoryTyped'
  BY <1>0, <1>1, <1>2 DEF TypeOK, HistoryTyped
<1>4. LoadsForward' /\ SnapshotForward
  <2>1. snap.ver \in Nat /\ ver \in Nat /\ \A l \in loading : l.ver \in Nat
    BY <1>0 DEF TypeOK, HistoryTyped
  <2>. QED
    BY <1>0, <1>1, <2>1 DEF LoadsForward, SnapshotForward
<1>. QED
  BY <1>1, <1>3, <1>4, Keeps DEF UsageGood, UsageInv

-----------------------------------------------------------------------------
(* The maintenance sweep. *)

Sweeping == [pc: {"rest", "clock", "query", "upsert", "set"}, period: {"day", "month"}, now: Days, count: Nat]

\* What a sweep may hold: a count of rows of its own month.
Honest(sw) ==
    /\ sw \in Sweeping
    /\ sw.pc \in {"upsert", "set"} => sw.count > 0 /\ sw.count <= MonthRows(After(sw), made)

LEMMA RestingHonest == Resting \in Sweeping /\ Resting.pc = "rest"
  BY Calendar DEF Resting, Sweeping, Days

\* A step that changes the sweep of one worker only, and no rows.
LEMMA SweepKept ==
  ASSUME UsageInv, NEW w \in Sweepers, NEW sw, Honest(sw), sweep' = [sweep EXCEPT ![w] = sw],
         UNCHANGED <<rows, made>>
  PROVE  /\ sweep' \in [Sweepers -> Sweeping] /\ RowsMade' /\ SweepsOwnRows'
         /\ UNCHANGED rollup => RecordsOwnRows'
<1>0. TypeOK /\ Recorded
  BY DEF UsageInv
<1>1. sweep \in [Sweepers -> Sweeping]
  BY <1>0 DEF TypeOK, Sweeping
<1>2. sweep' \in [Sweepers -> Sweeping] /\ \A v \in Sweepers : sweep'[v] = IF v = w THEN sw ELSE sweep[v]
  BY <1>1 DEF Honest
<1>3. SweepsOwnRows'
  BY <1>0, <1>2 DEF Recorded, SweepsOwnRows, Honest
<1>. QED
  BY <1>0, <1>2, <1>3 DEF Recorded, RowsMade, RecordsOwnRows

\* A sweep under way has read the clock.
Counting(sw) == sw.pc \in {"query", "upsert", "set"}

\* A step of one sweep that keeps the day it read, or reads today's, and writes only
\* to a period that ran on it.
LEMMA SweepConfined ==
  ASSUME UsageInv, NEW w \in Sweepers, NEW sw, Honest(sw), sweep' = [sweep EXCEPT ![w] = sw],
         UNCHANGED day,
         Counting(sw) => sw.now = day \/ (Counting(sweep[w]) /\ sw.now = sweep[w].now),
         \A p \in Days : rollup'[p] # rollup[p] => Counting(sweep[w]) /\ Runs(p, sweep[w].now),
         \A p \in Days : counter'[p] # counter[p] => Runs(p, sweep[w].now)
  PROVE  RecordsFinal /\ CountersOwn
<1>0. sweep \in [Sweepers -> Sweeping] /\ day \in Days
  BY DEF UsageInv, TypeOK, Sweeping
<1>1. \A v \in Sweepers : sweep'[v] = IF v = w THEN sw ELSE sweep[v]
  BY <1>0
<1>2. CountersOwn
  BY <1>1 DEF CountersOwn
<1>3. ASSUME NEW p \in Days, Closed(p) PROVE Closed(p)' /\ rollup'[p] = rollup[p]
  <2>1. rollup'[p] = rollup[p]
    BY <1>3 DEF Closed, Counting
  <2>2. ~Runs(p, day)
    BY <1>0, <1>3 DEF Closed, Days
  <2>3. \A v \in Sweepers : Counting(sweep'[v]) => ~Runs(p, sweep'[v].now)
    BY <1>1, <1>3, <2>2 DEF Closed, Counting
  <2>4. Closed(p)'
    BY <1>3, <2>3 DEF Closed, Counting, Runs, PeriodStart
  <2>. QED
    BY <2>1, <2>4
<1>. QED
  BY <1>2, <1>3 DEF RecordsFinal

LEMMA RollupUsageGood == ASSUME UsageInv, NEW w \in Sweepers, RollupUsage(w) PROVE UsageGood
<1>0. TypeOK /\ HistoryTyped
  BY DEF UsageInv
<1>. DEFINE sw == [pc |-> "clock", period |-> Grouped(quota.lim), now |-> 0, count |-> 0]
<1>1. /\ sweep' = [sweep EXCEPT ![w] = sw]
      /\ UNCHANGED <<day, quota, patching, rows, made, rollup, ver, counter, snap, loading, pending, alerting,
                     latch, published, unexplained, accepted, miss, cap, rejected, used>>
  BY DEF RollupUsage, alerts, history, gate, tables
<1>2. Honest(sw)
  BY <1>0, Calendar DEF Honest, Sweeping, Grouped, TypeOK, Stored, Limits, Days
<1>c. ~Counting(sw)
  BY DEF Counting
<1>. HIDE DEF sw
<1>3. sweep' \in [Sweepers -> Sweeping] /\ Recorded'
  BY <1>1, <1>2, SweepKept DEF Recorded
<1>4. TypeOK' /\ HistoryTyped'
  BY <1>0, <1>1, <1>3 DEF TypeOK, HistoryTyped, Sweeping
<1>5. RecordsFinal /\ CountersOwn
  BY <1>1, <1>2, <1>c, SweepConfined
<1>. QED
  BY <1>1, <1>3, <1>4, <1>5, Keeps DEF UsageGood, UsageInv

LEMMA ReadClockGood == ASSUME UsageInv, NEW w \in Sweepers, ReadClock(w) PROVE UsageGood
<1>0. TypeOK /\ HistoryTyped
  BY DEF UsageInv
<1>. DEFINE sw == [sweep[w] EXCEPT !.pc = "query", !.now = day]
<1>1. /\ sweep' = [sweep EXCEPT ![w] = sw]
      /\ UNCHANGED <<day, quota, patching, rows, made, rollup, ver, counter, snap, loading, pending, alerting,
                     latch, published, unexplained, accepted, miss, cap, rejected, used>>
  BY DEF ReadClock, alerts, history, gate, tables
<1>2. Honest(sw) /\ sw.now = day
  <2>1. sweep[w] \in Sweeping /\ day \in Days
    BY <1>0 DEF TypeOK, Sweeping
  <2>2. sw \in Sweeping /\ sw.pc = "query" /\ sw.now = day
    BY <2>1 DEF Sweeping
  <2>. HIDE DEF sw
  <2>. QED
    BY <2>2 DEF Honest
<1>. HIDE DEF sw
<1>3. sweep' \in [Sweepers -> Sweeping] /\ Recorded'
  BY <1>1, <1>2, SweepKept DEF Recorded
<1>4. TypeOK' /\ HistoryTyped'
  BY <1>0, <1>1, <1>3 DEF TypeOK, HistoryTyped, Sweeping
<1>5. RecordsFinal /\ CountersOwn
  BY <1>1, <1>2, SweepConfined
<1>. QED
  BY <1>1, <1>3, <1>4, <1>5, Keeps DEF UsageGood, UsageInv

LEMMA RollupEventsGood == ASSUME UsageInv, NEW w \in Sweepers, RollupEvents(w) PROVE UsageGood
<1>0. TypeOK /\ HistoryTyped
  BY DEF UsageInv
<1>. DEFINE was == sweep[w]
            k == CountRows(After(was), was.period)
            next == [was EXCEPT !.pc = "upsert", !.count = k]
<1>1. was.pc = "query" /\ UNCHANGED <<day, quota, patching, rows, made, rollup, ver, counter, snap, loading, pending, alerting,
                  latch, published, unexplained, accepted, miss, cap, rejected>>
  BY DEF RollupEvents, alerts, history, gate, tables
<1>2. was \in Sweeping /\ was.now \in Days /\ was.period \in {"day", "month"}
  BY <1>0 DEF TypeOK, Sweeping
<1>3. k \in Nat /\ k <= MonthRows(After(was), made)
  BY <1>2, CountedInMonth DEF After
<1>4. \/ k > 0 /\ sweep' = [sweep EXCEPT ![w] = next]
      \/ sweep' = [sweep EXCEPT ![w] = Resting]
  BY DEF RollupEvents, Returned
<1>5. k > 0 => Honest(next) /\ next.now = was.now
  <2>. HIDE DEF k, was
  <2>1. next \in Sweeping /\ next.count = k /\ next.now = was.now /\ next.period = was.period
    BY <1>2, <1>3 DEF Sweeping
  <2>2. After(next) = After(was)
    BY <2>1 DEF After
  <2>. HIDE DEF next
  <2>. QED
    BY <1>3, <2>1, <2>2 DEF Honest
<1>6. Honest(Resting) /\ ~Counting(Resting)
  BY RestingHonest DEF Honest, Counting
<1>a. was = sweep[w] /\ Counting(was)
  BY <1>1 DEF Counting
<1>. HIDE DEF k, was, next
<1>7. sweep' \in [Sweepers -> Sweeping] /\ Recorded'
  BY <1>1, <1>4, <1>5, <1>6, SweepKept DEF Recorded
<1>8. UsedTyped'
  BY <1>0, UsedKept DEF RollupEvents, Fault, Bounded
<1>9. TypeOK' /\ HistoryTyped'
  BY <1>0, <1>1, <1>7, <1>8 DEF TypeOK, HistoryTyped, Sweeping, UsedTyped
<1>10. RecordsFinal /\ CountersOwn
  BY <1>1, <1>4, <1>5, <1>6, <1>a, SweepConfined
<1>. QED
  BY <1>1, <1>7, <1>9, <1>10, Keeps DEF UsageGood, UsageInv

LEMMA UpsertGood == ASSUME UsageInv, NEW w \in Sweepers, UpsertUsageRollup(w) PROVE UsageGood
<1>0. TypeOK /\ HistoryTyped /\ Recorded
  BY DEF UsageInv
<1>. DEFINE was == sweep[w]
            p == After(was)
            next == [was EXCEPT !.pc = "set"]
<1>1. UNCHANGED <<day, quota, patching, rows, made, ver, counter, snap, loading, pending, alerting,
                  latch, published, unexplained, accepted, miss, cap, rejected>>
  BY DEF UpsertUsageRollup, alerts, history, gate, tables
<1>2. was \in Sweeping /\ was.now \in Days /\ was.period \in {"day", "month"} /\ was.count \in Nat
  BY <1>0 DEF TypeOK, Sweeping
<1>3. was.pc = "upsert" /\ was.count > 0 /\ was.count <= MonthRows(p, made)
  BY <1>0 DEF UpsertUsageRollup, Recorded, SweepsOwnRows
<1>4. p \in Days /\ p = PeriodStart(was.now, was.period)
  BY <1>2, PeriodStarts DEF After
<1>5. \/ rollup' = [rollup EXCEPT ![p] = was.count] /\ sweep' = [sweep EXCEPT ![w] = next]
      \/ sweep' = [sweep EXCEPT ![w] = Resting] /\ UNCHANGED rollup
  BY DEF UpsertUsageRollup
<1>6. Honest(next) /\ next.pc = "set" /\ next.now = was.now
  <2>. HIDE DEF was
  <2>1. next \in Sweeping /\ next.count = was.count /\ next.now = was.now /\ next.period = was.period /\ next.pc = "set"
    BY <1>2 DEF Sweeping
  <2>2. After(next) = p
    BY <2>1 DEF After
  <2>. HIDE DEF next, p
  <2>. QED
    BY <1>3, <2>1, <2>2 DEF Honest
<1>7. Honest(Resting) /\ ~Counting(Resting)
  BY RestingHonest DEF Honest, Counting
<1>a. was = sweep[w] /\ Counting(was) /\ Runs(p, was.now)
  BY <1>2, <1>3, <1>4 DEF Counting, Runs
<1>8. UsedTyped'
  BY <1>0, UsedKept DEF UpsertUsageRollup, Fault, Bounded
<1>9. CASE rollup' = [rollup EXCEPT ![p] = was.count] /\ sweep' = [sweep EXCEPT ![w] = next]
  <2>. HIDE DEF was, p, next
  <2>1. sweep' \in [Sweepers -> Sweeping] /\ RowsMade' /\ SweepsOwnRows' /\ sweep'[w] = next
    BY <1>0, <1>1, <1>6, <1>9, SweepKept DEF TypeOK
  <2>2. rollup' \in [Days -> (Nat \ {0}) \cup {None}]
    BY <1>0, <1>2, <1>3, <1>4, <1>9 DEF TypeOK
  <2>3. \A q \in Days : rollup'[q] = IF q = p THEN was.count ELSE rollup[q]
    BY <1>0, <1>4, <1>9 DEF TypeOK
  <2>4. RecordsOwnRows'
    BY <1>0, <1>1, <1>3, <2>3 DEF Recorded, RecordsOwnRows
  <2>5. RecordsFinal /\ CountersOwn
    BY <1>1, <1>6, <1>9, <1>a, <2>3, SweepConfined
  <2>6. TypeOK' /\ HistoryTyped'
    BY <1>0, <1>1, <1>8, <2>1, <2>2 DEF TypeOK, HistoryTyped, Sweeping, UsedTyped
  <2>. QED
    BY <1>1, <2>1, <2>4, <2>5, <2>6, Keeps DEF UsageGood, UsageInv, Recorded
<1>10. CASE sweep' = [sweep EXCEPT ![w] = Resting] /\ UNCHANGED rollup
  <2>. HIDE DEF was, p, next
  <2>1. sweep' \in [Sweepers -> Sweeping] /\ Recorded'
    BY <1>1, <1>7, <1>10, SweepKept DEF Recorded
  <2>2. TypeOK' /\ HistoryTyped'
    BY <1>0, <1>1, <1>8, <1>10, <2>1 DEF TypeOK, HistoryTyped, Sweeping, UsedTyped
  <2>3. RecordsFinal /\ CountersOwn
    BY <1>1, <1>7, <1>10, SweepConfined
  <2>. QED
    BY <1>1, <1>10, <2>1, <2>2, <2>3, Keeps DEF UsageGood, UsageInv
<1>. QED
  BY <1>5, <1>9, <1>10

\* Whatever is written over a counter, miss grows by what it no longer holds.
LEMMA OverwritePays ==
  ASSUME UsageInv, NEW p \in Days, NEW k \in Nat, Overwrite(p, k), UNCHANGED <<accepted, cap>>
  PROVE  counter' \in [Days -> Nat] /\ miss' \in [Days -> Nat] /\ Metered'
<1>0. TypeOK /\ HistoryTyped /\ Metered
  BY DEF UsageInv
<1>1. /\ counter \in [Days -> Nat] /\ accepted \in [Days -> Nat] /\ miss \in [Days -> Nat]
      /\ cap \in [Days -> Int]
  BY <1>0 DEF TypeOK, HistoryTyped
<1>. DEFINE left == IF accepted[p] - k > miss[p] THEN accepted[p] - k ELSE miss[p]
<1>2. left \in Nat /\ left >= miss[p] /\ accepted[p] <= k + left
  BY <1>1
<1>3. counter' = [counter EXCEPT ![p] = k] /\ miss' = [miss EXCEPT ![p] = left]
  BY DEF Overwrite
<1>. HIDE DEF left
<1>4. /\ counter' \in [Days -> Nat] /\ miss' \in [Days -> Nat]
      /\ \A q \in Days : miss'[q] = (IF q = p THEN left ELSE miss[q]) /\ counter'[q] = IF q = p THEN k ELSE counter[q]
  BY <1>1, <1>2, <1>3
<1>5. CounterPays'
  BY <1>0, <1>1, <1>2, <1>4 DEF Metered, CounterPays
<1>6. CeilingHolds'
  BY <1>0, <1>1, <1>2, <1>4 DEF Metered, CeilingHolds
<1>. QED
  BY <1>4, <1>5, <1>6 DEF Metered

LEMMA SetCounterGood == ASSUME UsageInv, NEW w \in Sweepers, SetCounter(w) PROVE UsageGood
<1>0. TypeOK /\ HistoryTyped
  BY DEF UsageInv
<1>1. /\ sweep' = [sweep EXCEPT ![w] = Resting]
      /\ UNCHANGED <<day, quota, patching, rows, made, rollup, ver, snap, loading, pending, alerting,
                     latch, published, unexplained, accepted, cap, rejected>>
  BY DEF SetCounter, alerts, gate, tables
<1>2. After(sweep[w]) \in Days /\ sweep[w].count \in Nat
  BY <1>0, PeriodStarts DEF TypeOK, After
<1>3. Honest(Resting) /\ ~Counting(Resting)
  BY RestingHonest DEF Honest, Counting
<1>4. sweep' \in [Sweepers -> Sweeping] /\ Recorded'
  BY <1>1, <1>3, SweepKept DEF Recorded
<1>5. counter' \in [Days -> Nat] /\ miss' \in [Days -> Nat] /\ Metered'
  <2>1. CASE Overwrite(After(sweep[w]), sweep[w].count)
    BY <1>1, <1>2, <2>1, OverwritePays
  <2>2. CASE UNCHANGED <<counter, miss>>
    BY <1>0, <1>1, <2>2, Keeps DEF TypeOK, HistoryTyped
  <2>. QED
    BY <2>1, <2>2 DEF SetCounter
<1>6. UsedTyped'
  BY <1>0, UsedKept DEF SetCounter, Fault, Bounded
<1>7. TypeOK' /\ HistoryTyped'
  BY <1>0, <1>1, <1>4, <1>5, <1>6 DEF TypeOK, HistoryTyped, Sweeping, UsedTyped
<1>8. \A p \in Days : counter'[p] # counter[p] => Runs(p, sweep[w].now)
  <2>1. \A p \in Days : counter'[p] # counter[p] => p = After(sweep[w])
    BY <1>0, <1>2 DEF SetCounter, Overwrite, TypeOK
  <2>2. sweep[w].period \in {"day", "month"}
    BY <1>0 DEF TypeOK
  <2>. QED
    BY <2>1, <2>2 DEF After, Runs
<1>9. RecordsFinal /\ CountersOwn
  BY <1>1, <1>3, <1>8, SweepConfined
<1>. QED
  BY <1>1, <1>4, <1>5, <1>7, <1>9, Keeps DEF UsageGood, UsageInv

LEMMA EvictGood == ASSUME UsageInv, NEW p \in Days, Evict(p) PROVE UsageGood
<1>0. TypeOK /\ HistoryTyped
  BY DEF UsageInv
<1>1. UNCHANGED <<day, quota, patching, rows, made, rollup, ver, snap, loading, pending, sweep, alerting,
                  latch, published, unexplained, accepted, cap, rejected>>
  BY DEF Evict, alerts, gate, tables
<1>2. counter' \in [Days -> Nat] /\ miss' \in [Days -> Nat] /\ Metered'
  BY <1>1, OverwritePays DEF Evict
<1>3. UsedTyped'
  BY <1>0, UsedKept DEF Evict, Fault, Bounded
<1>4. TypeOK' /\ HistoryTyped'
  BY <1>0, <1>1, <1>2, <1>3 DEF TypeOK, HistoryTyped, UsedTyped
<1>. QED
  BY <1>1, <1>2, <1>4, Keeps DEF UsageGood, UsageInv

-----------------------------------------------------------------------------
(* The theorems. *)

LEMMA UsageInitInv == Init => UsageInv
<1>. SUFFICES ASSUME Init PROVE UsageInv
  OBVIOUS
<1>1. Presets["free"] \in Limits /\ NoLimits \in Limits /\ 0 \in Days
  BY PresetLimits, Calendar DEF NoLimits, Limits, Days
<1>2. quota \in Stored /\ quota.lim \in Limits
  BY <1>1, PresetLimits DEF Init, Stored
<1>3. snap \in [ver: Nat, lim: Limits] /\ snap.ver = 0
  BY <1>1, <1>2 DEF Init
<1>4. sweep \in [Sweepers -> Sweeping] /\ \A w \in Sweepers : sweep[w].pc = "rest"
  BY RestingHonest DEF Init
<1>5. UsedTyped
  BY Bounds DEF Init, UsedTyped, Most, Bounded
<1>6. TypeOK
  BY <1>1, <1>2, <1>3, <1>4, <1>5 DEF Init, TypeOK, UsedTyped, Sweeping
<1>7. HistoryTyped /\ LoadsForward
  BY <1>3 DEF Init, HistoryTyped, LoadsForward, Alerts
<1>8. Metered
  BY DEF Init, Metered, CounterPays, CeilingHolds
<1>9. Recorded
  BY <1>4 DEF Init, Recorded, RowsMade, SweepsOwnRows, RecordsOwnRows
<1>10. Told
  BY DEF Init, Told, LatchTells, RejectionExplained
<1>. QED
  BY <1>6, <1>7, <1>8, <1>9, <1>10 DEF UsageInv

LEMMA UsageStep == ASSUME UsageInv, [Next]_vars PROVE UsageGood
<1>1. CASE UNCHANGED vars
  <2>1. UNCHANGED <<day, quota, patching, rows, made, rollup, ver, counter, snap, loading, pending, sweep, alerting,
                    latch, published, unexplained, accepted, miss, cap, rejected, used>>
    BY <1>1 DEF vars, tables, gate, alerts, history
  <2>2. TypeOK' /\ HistoryTyped'
    BY <2>1 DEF UsageInv, TypeOK, HistoryTyped
  <2>. QED
    BY <2>1, <2>2, Keeps DEF UsageGood, UsageInv
<1>2. CASE CheckFailsOpen \/ CheckUnlimited \/ (\E d \in JustRead : CheckCounts(d)) \/ Insert \/ Refresh \/ DayPasses
  BY <1>2, Uncounted, CheckCountsGood, InsertGood, RefreshGood, DayGood
<1>3. ASSUME NEW l \in loading, Reload(l) PROVE UsageGood
  BY <1>3, ReloadGood
<1>4. ASSUME NEW p \in Days, NEW t \in Tiers, Alert(p, t) PROVE UsageGood
  BY <1>4, AlertGood
<1>5. ASSUME NEW b \in Bodies, PatchOrgPlan(b) PROVE UsageGood
  BY <1>5, PatchGood
<1>6. ASSUME NEW r \in patching, UpdateOrgQuota(r) PROVE UsageGood
  BY <1>6, UpdateGood
<1>7. ASSUME NEW w \in Sweepers, SweepStep(w) PROVE UsageGood
  BY <1>7, RollupUsageGood, ReadClockGood, RollupEventsGood, UpsertGood, SetCounterGood DEF SweepStep
<1>8. ASSUME NEW d \in Days, CascadeDelete(d) \/ Evict(d) PROVE UsageGood
  BY <1>8, CascadeGood, EvictGood
<1>. QED
  BY <1>1, <1>2, <1>3, <1>4, <1>5, <1>6, <1>7, <1>8 DEF Next, AlertStep

\* A period lets no more requests through than the ceiling in force, but for those
\* a sweep or an eviction took out of its counter, and its record holds rows of
\* its own month only (Gate.check, rollupPeriod).
THEOREM PeriodsKept == Spec => []WithinPeriod
<1>1. UsageInv /\ [Next]_vars => UsageInv'
  BY UsageStep DEF UsageGood
<1>2. UsageInv => WithinPeriod
  BY DEF UsageInv, WithinPeriod, Metered, Recorded
<1>. QED
  BY UsageInitInv, <1>1, <1>2, PTL DEF Spec

\* An alert goes out at most once per period and tier, and a period with a rejected
\* request has its alert, sent or on its way, unless a fault took it (Gate.alert).
THEOREM RejectionsExplained == Spec => []RejectionExplained
<1>1. UsageInv /\ [Next]_vars => UsageInv'
  BY UsageStep DEF UsageGood
<1>2. UsageInv => RejectionExplained
  BY DEF UsageInv, Told
<1>. QED
  BY UsageInitInv, <1>1, <1>2, PTL DEF Spec

\* The record of a period that is over, and that no sweep begun in it is still
\* counting, is final; a late sweep leaves the counters of other periods alone; and
\* the limits in use are never replaced by older ones, for any number of workers
\* (rollupPeriod, Gate.refresh).
THEOREM LateSteps == Spec => LateStepsConfined
<1>. DEFINE A == RecordsFinal /\ CountersOwn /\ SnapshotForward
<1>1. UsageInv /\ [Next]_vars => UsageInv' /\ A
  BY UsageStep DEF UsageGood
<1>2. LateStepsConfined <=> [][A]_vars
  BY DEF LateStepsConfined
<1>. HIDE DEF A
<1>. QED
  BY UsageInitInv, <1>1, <1>2, PTL DEF Spec

=============================================================================
