---------------------------- MODULE DQueueProofs ----------------------------
EXTENDS DQueue, FiniteSetTheorems, FunctionTheorems, TLAPS

LEMMA IntervalInduction ==
  ASSUME NEW n \in Nat, NEW T, 0 \in T,
         \A i \in 0..n : i \in T /\ i < n => i + 1 \in T
  PROVE  \A i \in 0..n : i \in T
<1> DEFINE U == {i \in 0..n : i \notin T}
<1>1. SUFFICES ASSUME U # {} PROVE FALSE
  OBVIOUS
<1>2. IsWellFoundedOn(OpToRel(<, Nat), Nat)
  BY NatLessThanWellFounded
<1>3. PICK x \in U : \A y \in U : ~(<<y, x>> \in OpToRel(<, Nat))
  <2> HIDE DEF U
  <2>1. U \subseteq Nat
    BY DEF U
  <2> QED BY <1>1, <1>2, <2>1, WFMin
<1>4. \A y \in U : ~(y < x)
  <2> SUFFICES ASSUME NEW y \in U, y < x PROVE FALSE
    OBVIOUS
  <2>1. <<y, x>> \in Nat \X Nat
    OBVIOUS
  <2>2. <<y, x>>[1] < <<y, x>>[2]
    OBVIOUS
  <2>3. <<y, x>> \in OpToRel(<, Nat)
    BY <2>1, <2>2, Zenon DEF OpToRel
  <2> QED BY <1>3, <2>3
<1> QED BY <1>4

\* The function the loop of PushAll computes satisfies its recursion.
LEMMA PushAllLoop ==
  ASSUME NEW q, NEW s \in Seq(Payloads)
  PROVE  \E f : /\ DOMAIN f = 0..Len(s)
                /\ f[0] = q
                /\ \A i \in 1..Len(s) : f[i] = Push(f[i - 1], s[i])
                /\ PushAll(q, s) = f[Len(s)]
<1> DEFINE n == Len(s)
           Def(g, i) == IF i = 0 THEN q ELSE Push(g[i - 1], s[i])
           Approx(m) == \E g : g = [i \in 0..m |-> Def(g, i)]
           T == {m \in 0..n : Approx(m)}
<1>0. n \in Nat
  OBVIOUS
<1>1. Approx(0)
  <2>1. [i \in 0..0 |-> q] = [i \in 0..0 |-> Def([j \in 0..0 |-> q], i)]
    OBVIOUS
  <2> QED BY <2>1
<1>2. ASSUME NEW m \in 0..n, m < n, Approx(m) PROVE Approx(m + 1)
  <2>1. PICK g : g = [i \in 0..m |-> Def(g, i)]
    BY <1>2
  <2> DEFINE h == [i \in 0..(m + 1) |-> IF i = m + 1 THEN Push(g[m], s[m + 1]) ELSE g[i]]
  <2>2. ASSUME NEW i \in 0..(m + 1) PROVE h[i] = Def(h, i)
    <3>1. CASE i = 0
      BY <2>1, <3>1
    <3>2. CASE i \in 1..m
      BY <2>1, <3>2
    <3>3. CASE i = m + 1
      BY <2>1, <3>3
    <3> QED BY <3>1, <3>2, <3>3
  <2>3. h = [i \in 0..(m + 1) |-> Def(h, i)]
    BY <2>2
  <2> QED BY <2>3
<1>3. Approx(n)
  <2> HIDE DEF Approx
  <2>1. 0 \in T
    BY <1>0, <1>1
  <2>2. \A i \in 0..n : i \in T /\ i < n => i + 1 \in T
    BY <1>0, <1>2
  <2>3. \A i \in 0..n : i \in T
    <3> HIDE DEF T, n
    <3> QED BY <1>0, <2>1, <2>2, IntervalInduction
  <2> QED BY <1>0, <2>3
<1> DEFINE f == CHOOSE g : g = [i \in 0..n |-> Def(g, i)]
<1>4. f = [i \in 0..n |-> Def(f, i)]
  BY <1>3
<1>5. PushAll(q, s) = f[n]
  BY DEF PushAll
<1> HIDE DEF f
<1>6. DOMAIN f = 0..n /\ \A i \in 0..n : f[i] = Def(f, i)
  BY <1>0, <1>4
<1>7. f[0] = q /\ \A i \in 1..n : f[i] = Push(f[i - 1], s[i])
  BY <1>0, <1>6
<1> QED BY <1>5, <1>6, <1>7

-----------------------------------------------------------------------------
(* What one push, and a script's loop of pushes, does to lists and ring. *)

Lists == [list: [Orgs -> Seq(Payloads)], ring: Seq(Orgs)]

RingOK(q) ==
    /\ \A i, j \in DOMAIN q.ring : q.ring[i] = q.ring[j] => i = j
    /\ \A o \in Orgs : q.list[o] # <<>> <=> \E i \in DOMAIN q.ring : q.ring[i] = o

\* r extends q at the tail ends only.
Grown(q, r) ==
    /\ Len(q.ring) <= Len(r.ring)
    /\ \A i \in DOMAIN q.ring : r.ring[i] = q.ring[i]
    /\ \A o \in Orgs : /\ Len(q.list[o]) <= Len(r.list[o])
                       /\ \A i \in DOMAIN q.list[o] : r.list[o][i] = q.list[o][i]

Contains(q, p) == \E o \in Orgs : \E i \in DOMAIN q.list[o] : q.list[o][i] = p

LEMMA PushLemma ==
  ASSUME NEW q \in Lists, NEW p \in Payloads
  PROVE  /\ Push(q, p) \in Lists
         /\ Grown(q, Push(q, p))
         /\ Contains(Push(q, p), p)
         /\ Len(Push(q, p).list[OrgOf[p.ev]]) > 0
         /\ RingOK(q) => RingOK(Push(q, p))
<1> DEFINE o == OrgOf[p.ev]
           r == Push(q, p)
<1>1. o \in Orgs
  BY OrgOfAssumption DEF Payloads
<1>2. /\ r.list = [q.list EXCEPT ![o] = Append(@, p)]
      /\ r.ring = IF q.list[o] = <<>> THEN Append(q.ring, o) ELSE q.ring
      /\ r = [list |-> r.list, ring |-> r.ring]
  BY DEF Push
<1> HIDE DEF r, o
<1>3. q.list \in [Orgs -> Seq(Payloads)] /\ q.ring \in Seq(Orgs)
  BY DEF Lists
<1>4. r.list \in [Orgs -> Seq(Payloads)] /\ r.ring \in Seq(Orgs)
  BY <1>1, <1>2, <1>3
<1>5. r \in Lists
  BY <1>2, <1>4 DEF Lists
<1>6. \A x \in Orgs : x # o => r.list[x] = q.list[x]
  BY <1>1, <1>2, <1>3
<1>7. /\ r.list[o] = Append(q.list[o], p)
      /\ q.list[o] \in Seq(Payloads)
      /\ Len(r.list[o]) = Len(q.list[o]) + 1
      /\ r.list[o][Len(r.list[o])] = p
      /\ \A i \in DOMAIN q.list[o] : r.list[o][i] = q.list[o][i]
  BY <1>1, <1>2, <1>3
<1>8. Grown(q, r)
  <2>1. Len(q.ring) <= Len(r.ring) /\ \A i \in DOMAIN q.ring : r.ring[i] = q.ring[i]
    BY <1>1, <1>2, <1>3
  <2>2. ASSUME NEW x \in Orgs
        PROVE  /\ Len(q.list[x]) <= Len(r.list[x])
               /\ \A i \in DOMAIN q.list[x] : r.list[x][i] = q.list[x][i]
    <3>1. q.list[x] \in Seq(Payloads) /\ r.list[x] \in Seq(Payloads)
      BY <1>3, <1>4
    <3>2. CASE x = o
      BY <1>7, <3>1, <3>2
    <3>3. CASE x # o
      BY <1>6, <3>1, <3>3
    <3> QED BY <3>2, <3>3
  <2> QED BY <2>1, <2>2 DEF Grown
<1>9. Contains(r, p) /\ Len(r.list[o]) > 0
  BY <1>1, <1>4, <1>7 DEF Contains
<1>10. ASSUME RingOK(q) PROVE RingOK(r)
  <2>1. CASE q.list[o] = <<>>
    <3>1. r.ring = Append(q.ring, o)
      BY <1>2, <2>1
    <3>2. \A i \in DOMAIN q.ring : q.ring[i] # o
      BY <1>1, <1>10, <2>1 DEF RingOK
    <3>3. \A i, j \in DOMAIN r.ring : r.ring[i] = r.ring[j] => i = j
      BY <1>1, <1>3, <1>10, <3>1, <3>2 DEF RingOK
    <3>4. ASSUME NEW x \in Orgs
          PROVE  r.list[x] # <<>> <=> \E i \in DOMAIN r.ring : r.ring[i] = x
      <4>0. /\ DOMAIN r.ring = 1..(Len(q.ring) + 1) /\ DOMAIN q.ring = 1..Len(q.ring)
            /\ Len(q.ring) \in Nat
            /\ r.ring[Len(q.ring) + 1] = o
            /\ \A i \in DOMAIN q.ring : r.ring[i] = q.ring[i]
        BY <1>1, <1>3, <3>1
      <4>1. CASE x = o
        <5>1. r.list[o] # <<>>
          BY <1>7
        <5> QED BY <4>0, <4>1, <5>1
      <4>2. CASE x # o
        <5>1. q.list[x] # <<>> <=> \E i \in DOMAIN q.ring : q.ring[i] = x
          BY <1>10 DEF RingOK
        <5> QED BY <1>6, <4>0, <4>2, <5>1
      <4> QED BY <4>1, <4>2
    <3> QED BY <3>3, <3>4 DEF RingOK
  <2>2. CASE q.list[o] # <<>>
    <3>1. r.ring = q.ring
      BY <1>2, <2>2
    <3>2. r.list[o] # <<>>
      BY <1>7
    <3> QED BY <1>6, <1>10, <2>2, <3>1, <3>2 DEF RingOK
  <2> QED BY <2>1, <2>2
<1> QED BY <1>5, <1>8, <1>9, <1>10 DEF r, o

LEMMA GrownTransitive ==
  ASSUME NEW q \in Lists, NEW r \in Lists, NEW t \in Lists, Grown(q, r), Grown(r, t)
  PROVE  Grown(q, t)
<1>1. /\ q.ring \in Seq(Orgs) /\ r.ring \in Seq(Orgs) /\ t.ring \in Seq(Orgs)
      /\ \A o \in Orgs : /\ q.list[o] \in Seq(Payloads)
                         /\ r.list[o] \in Seq(Payloads)
                         /\ t.list[o] \in Seq(Payloads)
  BY DEF Lists
<1>2. Len(q.ring) <= Len(t.ring) /\ \A i \in DOMAIN q.ring : t.ring[i] = q.ring[i]
  BY <1>1 DEF Grown
<1>3. ASSUME NEW o \in Orgs
      PROVE  /\ Len(q.list[o]) <= Len(t.list[o])
             /\ \A i \in DOMAIN q.list[o] : t.list[o][i] = q.list[o][i]
  <2>1. /\ q.list[o] \in Seq(Payloads) /\ r.list[o] \in Seq(Payloads)
        /\ t.list[o] \in Seq(Payloads)
    BY <1>1
  <2>2. /\ Len(q.list[o]) <= Len(r.list[o])
        /\ \A i \in DOMAIN q.list[o] : r.list[o][i] = q.list[o][i]
    BY DEF Grown
  <2>3. /\ Len(r.list[o]) <= Len(t.list[o])
        /\ \A i \in DOMAIN r.list[o] : t.list[o][i] = r.list[o][i]
    BY DEF Grown
  <2> QED BY <2>1, <2>2, <2>3
<1> QED BY <1>2, <1>3 DEF Grown

LEMMA GrownContains ==
  ASSUME NEW q \in Lists, NEW r \in Lists, Grown(q, r), NEW p, Contains(q, p)
  PROVE  Contains(r, p)
<1>1. PICK o \in Orgs : \E i \in DOMAIN q.list[o] : q.list[o][i] = p
  BY DEF Contains
<1>2. PICK i \in DOMAIN q.list[o] : q.list[o][i] = p
  BY <1>1
<1>3. q.list[o] \in Seq(Payloads) /\ r.list[o] \in Seq(Payloads)
  BY DEF Lists
<1>4. i \in DOMAIN r.list[o] /\ r.list[o][i] = p
  BY <1>2, <1>3 DEF Grown
<1> QED BY <1>4 DEF Contains

LEMMA PushAllLemma ==
  ASSUME NEW q \in Lists, NEW s \in Seq(Payloads)
  PROVE  /\ PushAll(q, s) \in Lists
         /\ Grown(q, PushAll(q, s))
         /\ \A k \in DOMAIN s : Contains(PushAll(q, s), s[k])
         /\ RingOK(q) => RingOK(PushAll(q, s))
<1>1. PICK f : /\ DOMAIN f = 0..Len(s)
               /\ f[0] = q
               /\ \A i \in 1..Len(s) : f[i] = Push(f[i - 1], s[i])
               /\ PushAll(q, s) = f[Len(s)]
  BY PushAllLoop
<1> DEFINE n == Len(s)
           Good(i) == /\ f[i] \in Lists
                      /\ Grown(q, f[i])
                      /\ \A k \in 1..i : Contains(f[i], s[k])
                      /\ RingOK(q) => RingOK(f[i])
           T == {i \in 0..n : Good(i)}
<1>2. n \in Nat /\ DOMAIN s = 1..n
  OBVIOUS
<1>3. Good(0)
  <2>1. Grown(q, q)
    BY DEF Grown, Lists
  <2> QED BY <1>1, <2>1
<1>4. ASSUME NEW i \in 0..n, Good(i), i < n PROVE Good(i + 1)
  <2>1. s[i + 1] \in Payloads
    BY <1>2, <1>4
  <2>2. f[i + 1] = Push(f[i], s[i + 1])
    BY <1>1, <1>2, <1>4
  <2>3. /\ f[i + 1] \in Lists
        /\ Grown(f[i], f[i + 1])
        /\ Contains(f[i + 1], s[i + 1])
        /\ RingOK(f[i]) => RingOK(f[i + 1])
    BY <1>4, <2>1, <2>2, PushLemma
  <2>4. Grown(q, f[i + 1])
    BY <1>4, <2>3, GrownTransitive
  <2>5. ASSUME NEW k \in 1..(i + 1) PROVE Contains(f[i + 1], s[k])
    <3>1. CASE k = i + 1
      BY <2>3, <3>1
    <3>2. CASE k \in 1..i
      BY <1>4, <2>3, <3>2, GrownContains
    <3> QED BY <3>1, <3>2
  <2> QED BY <1>4, <2>3, <2>4, <2>5
<1>5. Good(n)
  <2> HIDE DEF Good
  <2>1. 0 \in T
    BY <1>2, <1>3
  <2>2. \A i \in 0..n : i \in T /\ i < n => i + 1 \in T
    BY <1>2, <1>4
  <2>3. \A i \in 0..n : i \in T
    <3> HIDE DEF T, n
    <3> QED BY <1>2, <2>1, <2>2, IntervalInduction
  <2> QED BY <1>2, <2>3
<1> QED BY <1>1, <1>2, <1>5

-----------------------------------------------------------------------------
(* The queue's own invariant, operation by operation. *)

QInv == QueueTypeOK /\ RingMatchesPending

\* The copies waiting in lists and scheduled set are still waiting afterwards.
KeepsWaiting == \A e \in Events : Waiting(e) => Waiting(e)'

\* The ring only grows at its end.
KeepsRing ==
    /\ Len(ring) <= Len(ring')
    /\ \A i \in DOMAIN ring : ring'[i] = ring[i]

LEMMA InjectLemma ==
  ASSUME QInv, NEW s \in Seq(Payloads), Inject(s)
  PROVE  /\ pending' \in [Orgs -> Seq(Payloads)]
         /\ ring' \in Seq(Orgs)
         /\ notify' \in 0..NotifyCap
         /\ RingMatchesPending'
         /\ KeepsRing
         /\ \A o \in Orgs : \A i \in DOMAIN pending[o] :
               i \in DOMAIN pending'[o] /\ pending'[o][i] = pending[o][i]
         /\ \A k \in DOMAIN s : \E o \in Orgs : \E i \in DOMAIN pending'[o] : pending'[o][i] = s[k]
<1> DEFINE q == [list |-> pending, ring |-> ring]
           r == PushAll(q, s)
<1>1. q \in Lists /\ RingOK(q)
  BY DEF QInv, QueueTypeOK, RingMatchesPending, Lists, RingOK
<1>2. r \in Lists /\ Grown(q, r) /\ RingOK(r) /\ \A k \in DOMAIN s : Contains(r, s[k])
  <2> HIDE DEF q
  <2> QED BY <1>1, PushAllLemma
<1>3. pending' = r.list /\ ring' = r.ring
  BY DEF Inject
<1>4. notify' \in 0..NotifyCap
  BY CapAssumption DEF Inject, QInv, QueueTypeOK
<1> HIDE DEF r
<1>5. pending' \in [Orgs -> Seq(Payloads)] /\ ring' \in Seq(Orgs)
  BY <1>2, <1>3 DEF Lists
<1>6. RingMatchesPending'
  BY <1>2, <1>3 DEF RingOK, RingMatchesPending
<1>7. KeepsRing
  BY <1>2, <1>3 DEF Grown, KeepsRing
<1>8. ASSUME NEW o \in Orgs, NEW i \in DOMAIN pending[o]
      PROVE  i \in DOMAIN pending'[o] /\ pending'[o][i] = pending[o][i]
  <2>1. pending[o] \in Seq(Payloads) /\ pending'[o] \in Seq(Payloads)
    BY <1>5 DEF QInv, QueueTypeOK
  <2>2. /\ Len(pending[o]) <= Len(pending'[o])
        /\ \A j \in DOMAIN pending[o] : pending'[o][j] = pending[o][j]
    BY <1>2, <1>3 DEF Grown
  <2> QED BY <2>1, <2>2
<1>9. \A k \in DOMAIN s : \E o \in Orgs : \E i \in DOMAIN pending'[o] : pending'[o][i] = s[k]
  BY <1>2, <1>3 DEF Contains
<1> QED BY <1>4, <1>5, <1>6, <1>7, <1>8, <1>9

LEMMA EnqueueLemma ==
  ASSUME QInv, NEW p \in Payloads, Enqueue(p)
  PROVE  QInv' /\ KeepsRing /\ KeepsWaiting /\ Waiting(p.ev)'
<1>1. <<p>> \in Seq(Payloads) /\ DOMAIN <<p>> = 1..1 /\ <<p>>[1] = p
  OBVIOUS
<1>2. Inject(<<p>>)
  BY DEF Enqueue
<1>3. /\ pending' \in [Orgs -> Seq(Payloads)] /\ ring' \in Seq(Orgs)
      /\ notify' \in 0..NotifyCap /\ RingMatchesPending' /\ KeepsRing
      /\ \A o \in Orgs : \A i \in DOMAIN pending[o] :
            i \in DOMAIN pending'[o] /\ pending'[o][i] = pending[o][i]
      /\ \A k \in DOMAIN <<p>> : \E o \in Orgs : \E i \in DOMAIN pending'[o] : pending'[o][i] = <<p>>[k]
  BY <1>1, <1>2, InjectLemma
<1>4. QInv'
  BY <1>3 DEF Enqueue, QInv, QueueTypeOK
<1>5. KeepsWaiting
  BY <1>3 DEF KeepsWaiting, Waiting, Enqueue
<1>6. \E o \in Orgs : \E i \in DOMAIN pending'[o] : pending'[o][i] = p
  BY <1>1, <1>3
<1> QED BY <1>3, <1>4, <1>5, <1>6 DEF Waiting

LEMMA ScheduleLemma ==
  ASSUME QInv, NEW p \in Payloads, Schedule(p)
  PROVE  QInv' /\ ring' = ring /\ KeepsWaiting /\ Waiting(p.ev)'
BY DEF Schedule, QInv, QueueTypeOK, RingMatchesPending, KeepsWaiting, Waiting

LEMMA FairPickEmptyLemma ==
  ASSUME QInv, FairPickEmpty
  PROVE  QInv' /\ ring = <<>> /\ UNCHANGED queueVars
<1>1. ring \in Seq(Orgs)
  BY DEF QInv, QueueTypeOK
<1>2. ring = <<>>
  <2> SUFFICES ASSUME ring # <<>> PROVE FALSE
    OBVIOUS
  <2>1. 1 \in DOMAIN ring /\ Head(ring) = ring[1] /\ ring[1] \in Orgs
    BY <1>1
  <2>2. pending[Head(ring)] # <<>>
    BY <2>1 DEF QInv, RingMatchesPending
  <2> QED BY <2>2 DEF FairPickEmpty
<1>3. ring' = ring
  BY <1>2 DEF FairPickEmpty
<1> QED BY <1>2, <1>3 DEF FairPickEmpty, QInv, QueueTypeOK, RingMatchesPending, queueVars

LEMMA FairPickLemma ==
  ASSUME QInv, NEW tok \in Tokens, FairPick(tok)
  PROVE  /\ QInv'
         /\ Head(pending[Head(ring)]) \in Payloads
         /\ \A i \in DOMAIN ring : i = 1 \/ (i - 1 \in DOMAIN ring' /\ ring'[i - 1] = ring[i])
         /\ \A e \in Events :
               Waiting(e) => Waiting(e)' \/ e = Head(pending[Head(ring)]).ev
<1> DEFINE o == Head(ring)
           p == Head(pending[o])
<1>1. /\ ring \in Seq(Orgs) /\ ring # <<>> /\ o = ring[1] /\ o \in Orgs
      /\ pending \in [Orgs -> Seq(Payloads)] /\ pending[o] \in Seq(Payloads)
      /\ pending[o] # <<>>
  BY DEF FairPick, QInv, QueueTypeOK
<1>2. /\ pending' = [pending EXCEPT ![o] = Tail(@)]
      /\ ring' = IF Tail(pending[o]) # <<>> THEN Append(Tail(ring), o) ELSE Tail(ring)
      /\ processing' = processing \cup {[tok |-> tok, evt |-> p]}
      /\ UNCHANGED <<expired, later, due, dead, notify>>
  BY DEF FairPick
<1> HIDE DEF o
<1>3. p \in Payloads
  BY <1>1
<1>4. /\ pending' \in [Orgs -> Seq(Payloads)]
      /\ pending'[o] = Tail(pending[o])
      /\ \A x \in Orgs : x # o => pending'[x] = pending[x]
  BY <1>1, <1>2
<1>5. ring' \in Seq(Orgs)
  BY <1>1, <1>2
<1>6. [tok |-> tok, evt |-> p] \in Members
  <2> HIDE DEF p
  <2> QED BY <1>3 DEF Members
<1>7. QueueTypeOK'
  <2> HIDE DEF p
  <2> QED BY <1>2, <1>4, <1>5, <1>6 DEF QInv, QueueTypeOK
<1>8. RingMatchesPending'
  <2>1. /\ \A i, j \in DOMAIN ring : ring[i] = ring[j] => i = j
        /\ \A x \in Orgs : pending[x] # <<>> <=> \E i \in DOMAIN ring : ring[i] = x
    BY DEF QInv, RingMatchesPending
  <2>2. /\ Tail(ring) \in Seq(Orgs) /\ Len(Tail(ring)) = Len(ring) - 1
        /\ DOMAIN Tail(ring) = 1..(Len(ring) - 1)
        /\ DOMAIN ring = 1..Len(ring) /\ Len(ring) \in Nat \ {0}
        /\ \A i \in 1..(Len(ring) - 1) : Tail(ring)[i] = ring[i + 1]
    BY <1>1
  <2>3. ASSUME NEW i \in DOMAIN Tail(ring), Tail(ring)[i] = o PROVE FALSE
    <3>1. i + 1 \in DOMAIN ring /\ 1 \in DOMAIN ring /\ ring[i + 1] = ring[1] /\ i + 1 # 1
      BY <1>1, <2>2, <2>3
    <3> QED BY <2>1, <3>1
  <2>4. \A i, j \in DOMAIN Tail(ring) : Tail(ring)[i] = Tail(ring)[j] => i = j
    BY <2>1, <2>2
  <2>5. ASSUME NEW x \in Orgs, x # o
        PROVE  pending[x] # <<>> <=> \E i \in DOMAIN Tail(ring) : Tail(ring)[i] = x
    <3>1. ASSUME NEW i \in DOMAIN ring, ring[i] = x
          PROVE  \E j \in DOMAIN Tail(ring) : Tail(ring)[j] = x
      <4>1. i # 1
        BY <1>1, <2>5, <3>1
      <4>2. i - 1 \in 1..(Len(ring) - 1) /\ Tail(ring)[i - 1] = x
        BY <2>2, <3>1, <4>1
      <4> QED BY <2>2, <4>2
    <3>2. ASSUME NEW i \in DOMAIN Tail(ring), Tail(ring)[i] = x
          PROVE  \E j \in DOMAIN ring : ring[j] = x
      <4>1. i + 1 \in DOMAIN ring /\ ring[i + 1] = x
        BY <2>2, <3>2
      <4> QED BY <4>1
    <3> QED BY <2>1, <3>1, <3>2
  <2>6. CASE Tail(pending[o]) # <<>>
    <3> DEFINE t == Tail(ring)
    <3>1. ring' = Append(t, o)
      BY <1>2, <2>6
    <3>2. t \in Seq(Orgs)
      BY <2>2
    <3> HIDE DEF t
    <3>3. /\ DOMAIN ring' = 1..(Len(t) + 1) /\ DOMAIN t = 1..Len(t) /\ Len(t) \in Nat
          /\ ring'[Len(t) + 1] = o
          /\ \A i \in DOMAIN t : ring'[i] = t[i]
      BY <1>1, <3>1, <3>2
    <3>4. \A i, j \in DOMAIN ring' : ring'[i] = ring'[j] => i = j
      BY <2>3, <2>4, <3>3 DEF t
    <3>5. ASSUME NEW x \in Orgs
          PROVE  pending'[x] # <<>> <=> \E i \in DOMAIN ring' : ring'[i] = x
      <4>1. CASE x = o
        BY <1>4, <2>6, <3>3, <4>1
      <4>2. CASE x # o
        <5>1. pending[x] # <<>> <=> \E i \in DOMAIN t : t[i] = x
          BY <2>5, <4>2 DEF t
        <5> QED BY <1>4, <3>3, <4>2, <5>1
      <4> QED BY <4>1, <4>2
    <3> QED BY <3>4, <3>5 DEF RingMatchesPending
  <2>7. CASE Tail(pending[o]) = <<>>
    <3>1. ring' = Tail(ring)
      BY <1>2, <2>7
    <3>2. ASSUME NEW x \in Orgs
          PROVE  pending'[x] # <<>> <=> \E i \in DOMAIN ring' : ring'[i] = x
      <4>1. CASE x = o
        BY <1>4, <2>3, <2>7, <3>1, <4>1
      <4>2. CASE x # o
        BY <1>4, <2>5, <3>1, <4>2
      <4> QED BY <4>1, <4>2
    <3> QED BY <2>4, <3>1, <3>2 DEF RingMatchesPending
  <2> QED BY <2>6, <2>7
<1>9. ASSUME NEW i \in DOMAIN ring, i # 1
      PROVE  i - 1 \in DOMAIN ring' /\ ring'[i - 1] = ring[i]
  <2>1. ring' = Append(Tail(ring), o) \/ ring' = Tail(ring)
    BY <1>2
  <2>2. /\ Tail(ring) \in Seq(Orgs) /\ DOMAIN Tail(ring) = 1..(Len(ring) - 1)
        /\ Len(Tail(ring)) = Len(ring) - 1
        /\ i - 1 \in 1..(Len(ring) - 1) /\ Tail(ring)[i - 1] = ring[i]
    BY <1>1, <1>9
  <2> QED BY <1>1, <2>1, <2>2
<1>10. ASSUME NEW e \in Events, Waiting(e)
       PROVE  Waiting(e)' \/ e = p.ev
  <2>1. CASE \E x \in later \cup due : x.ev = e
    BY <1>2, <2>1 DEF Waiting
  <2>2. CASE \E x \in Orgs : \E i \in DOMAIN pending[x] : pending[x][i].ev = e
    <3>0. PICK x \in Orgs : \E i \in DOMAIN pending[x] : pending[x][i].ev = e
      BY <2>2
    <3>1. PICK i \in DOMAIN pending[x] : pending[x][i].ev = e
      BY <3>0
    <3>2. CASE x # o
      BY <1>4, <3>1, <3>2 DEF Waiting
    <3>3. CASE x = o /\ i = 1
      BY <1>1, <3>1, <3>3
    <3>4. CASE x = o /\ i # 1
      <4>1. i - 1 \in DOMAIN pending'[o] /\ pending'[o][i - 1] = pending[o][i]
        BY <1>1, <1>4, <3>1, <3>4
      <4> QED BY <1>1, <3>1, <3>4, <4>1 DEF Waiting
    <3> QED BY <3>2, <3>3, <3>4
  <2> QED BY <1>10, <2>1, <2>2 DEF Waiting
<1> QED BY <1>3, <1>7, <1>8, <1>9, <1>10 DEF QInv, o

LEMMA AckLemma ==
  ASSUME QInv, NEW m, Ack(m)
  PROVE  QInv' /\ ring' = ring /\ KeepsWaiting
BY DEF Ack, QInv, QueueTypeOK, RingMatchesPending, KeepsWaiting, Waiting

LEMMA DeadLetterLemma ==
  ASSUME QInv, NEW m \in Members, DeadLetter(m)
  PROVE  QInv' /\ ring' = ring /\ KeepsWaiting
<1>1. m.evt \in Payloads
  BY DEF Members
<1>2. dead' \in Seq(Payloads) /\ Len(dead') <= DeadCap
  BY <1>1, CapAssumption DEF DeadLetter, PushDead, QInv, QueueTypeOK
<1> QED BY <1>2 DEF DeadLetter, QInv, QueueTypeOK, RingMatchesPending, KeepsWaiting, Waiting

LEMMA PromoteDueLemma ==
  ASSUME QInv, PromoteDue
  PROVE  QInv' /\ KeepsRing /\ KeepsWaiting
<1>1. PICK s \in Batches : /\ due' = due \ {s[i] : i \in DOMAIN s}
                           /\ Inject(s)
                           /\ UNCHANGED <<processing, expired, later, dead>>
  BY DEF PromoteDue
<1>2. PICK n \in 0..PromoteLimit : s \in [1..n -> due]
  BY DEF Batches
<1>3. s \in Seq(Payloads)
  <2>1. due \subseteq Payloads
    BY DEF QInv, QueueTypeOK
  <2>2. n \in Nat
    BY LimitAssumption
  <2>3. s \in [1..n -> Payloads]
    BY <1>2, <2>1
  <2> QED BY <2>2, <2>3
<1>4. /\ pending' \in [Orgs -> Seq(Payloads)] /\ ring' \in Seq(Orgs)
      /\ notify' \in 0..NotifyCap /\ RingMatchesPending' /\ KeepsRing
      /\ \A o \in Orgs : \A i \in DOMAIN pending[o] :
            i \in DOMAIN pending'[o] /\ pending'[o][i] = pending[o][i]
      /\ \A k \in DOMAIN s : \E o \in Orgs : \E i \in DOMAIN pending'[o] : pending'[o][i] = s[k]
  BY <1>1, <1>3, InjectLemma
<1>5. QInv'
  BY <1>1, <1>4 DEF QInv, QueueTypeOK
<1>6. ASSUME NEW e \in Events, Waiting(e) PROVE Waiting(e)'
  <2>1. CASE \E o \in Orgs : \E i \in DOMAIN pending[o] : pending[o][i].ev = e
    BY <1>4, <2>1 DEF Waiting
  <2>2. CASE \E p \in later \cup due : p.ev = e
    <3>1. PICK p \in later \cup due : p.ev = e
      BY <2>2
    <3>2. CASE p \in later' \cup due'
      BY <3>1, <3>2 DEF Waiting
    <3>3. CASE p \notin later' \cup due'
      <4>1. PICK k \in DOMAIN s : s[k] = p
        BY <1>1, <3>1, <3>3
      <4> QED BY <1>4, <3>1, <4>1 DEF Waiting
    <3> QED BY <3>2, <3>3
  <2> QED BY <1>6, <2>1, <2>2 DEF Waiting
<1> QED BY <1>4, <1>5, <1>6 DEF KeepsWaiting

LEMMA RecoverLemma ==
  ASSUME QInv, Recover
  PROVE  /\ QInv' /\ ring' = ring /\ KeepsWaiting
         /\ \A m \in expired : Waiting(m.evt.ev)'
<1> DEFINE back == {m.evt : m \in expired}
<1>1. back \subseteq Payloads
  BY DEF QInv, QueueTypeOK, Members
<1>2. /\ processing' = processing \ expired /\ expired' = {}
      /\ due' = due \cup back /\ later' = later \ back
      /\ UNCHANGED <<pending, ring, dead, notify>>
  BY DEF Recover
<1>3. \A m \in expired : m.evt \in back
  OBVIOUS
<1> HIDE DEF back
<1>4. QInv'
  BY <1>1, <1>2 DEF QInv, QueueTypeOK, RingMatchesPending
<1>5. KeepsWaiting
  BY <1>2 DEF KeepsWaiting, Waiting
<1> QED BY <1>2, <1>3, <1>4, <1>5 DEF Waiting

LEMMA TakeNotifyLemma ==
  ASSUME QInv, TakeNotify
  PROVE  QInv' /\ ring' = ring /\ KeepsWaiting
BY CapAssumption DEF TakeNotify, QInv, QueueTypeOK, RingMatchesPending, KeepsWaiting, Waiting

LEMMA RequeueDeadLemma ==
  ASSUME QInv, NEW i, NEW at \in Stamps, RequeueDead(i, at), NEW e, e = dead[i].ev
  PROVE  QInv' /\ KeepsRing /\ KeepsWaiting /\ Waiting(e)'
<1> DEFINE p == [ev |-> dead[i].ev, at |-> at, attempt |-> 0]
<1>1. dead \in Seq(Payloads) /\ i \in DOMAIN dead /\ dead[i] \in Payloads
  BY DEF RequeueDead, FirstDead, QInv, QueueTypeOK
<1>2. p \in Payloads /\ p.ev = e
  BY <1>1, AttemptAssumption DEF Payloads
<1>3. dead' \in Seq(Payloads) /\ Len(dead') <= DeadCap
  <2>1. dead' = SubSeq(dead, 1, i - 1) \o SubSeq(dead, i + 1, Len(dead))
    BY DEF RequeueDead
  <2>2. i \in 1..Len(dead) /\ Len(dead) <= DeadCap /\ Len(dead) \in Nat
    BY <1>1 DEF QInv, QueueTypeOK
  <2>3. SubSeq(dead, 1, i - 1) \in Seq(Payloads) /\ Len(SubSeq(dead, 1, i - 1)) = i - 1
    BY <1>1, <2>2
  <2>4. /\ SubSeq(dead, i + 1, Len(dead)) \in Seq(Payloads)
        /\ Len(SubSeq(dead, i + 1, Len(dead))) = Len(dead) - i
    BY <1>1, <2>2
  <2> DEFINE a == SubSeq(dead, 1, i - 1)
             b == SubSeq(dead, i + 1, Len(dead))
  <2>5. a \o b \in Seq(Payloads) /\ Len(a \o b) = Len(a) + Len(b)
    <3> HIDE DEF a, b
    <3>1. a \in Seq(Payloads) /\ b \in Seq(Payloads)
      BY <2>3, <2>4 DEF a, b
    <3> QED BY <3>1
  <2>6. dead' = a \o b /\ Len(a) = i - 1 /\ Len(b) = Len(dead) - i
    BY <2>1, <2>3, <2>4
  <2> HIDE DEF a, b
  <2>7. Len(dead') = (i - 1) + (Len(dead) - i)
    BY <2>5, <2>6
  <2> QED BY <2>2, <2>5, <2>6, <2>7, CapAssumption
<1> HIDE DEF p
<1>4. <<p>> \in Seq(Payloads) /\ DOMAIN <<p>> = 1..1 /\ <<p>>[1] = p
  BY <1>2
<1>5. Inject(<<p>>)
  BY DEF RequeueDead, p
<1>6. /\ pending' \in [Orgs -> Seq(Payloads)] /\ ring' \in Seq(Orgs)
      /\ notify' \in 0..NotifyCap /\ RingMatchesPending' /\ KeepsRing
      /\ \A o \in Orgs : \A k \in DOMAIN pending[o] :
            k \in DOMAIN pending'[o] /\ pending'[o][k] = pending[o][k]
      /\ \A k \in DOMAIN <<p>> : \E o \in Orgs : \E j \in DOMAIN pending'[o] : pending'[o][j] = <<p>>[k]
  BY <1>4, <1>5, InjectLemma
<1>7. QInv'
  BY <1>3, <1>6 DEF RequeueDead, QInv, QueueTypeOK
<1>8. KeepsWaiting
  BY <1>6 DEF KeepsWaiting, Waiting, RequeueDead
<1>9. \E o \in Orgs : \E j \in DOMAIN pending'[o] : pending'[o][j] = p
  BY <1>4, <1>6
<1> QED BY <1>2, <1>6, <1>7, <1>8, <1>9 DEF Waiting

LEMMA PromoteScheduledLemma ==
  ASSUME QInv, NEW p \in Payloads, PromoteScheduled(p)
  PROVE  QInv' /\ KeepsRing /\ KeepsWaiting
<1>1. <<p>> \in Seq(Payloads) /\ DOMAIN <<p>> = 1..1 /\ <<p>>[1] = p
  OBVIOUS
<1>2. Inject(<<p>>)
  BY DEF PromoteScheduled
<1>3. /\ pending' \in [Orgs -> Seq(Payloads)] /\ ring' \in Seq(Orgs)
      /\ notify' \in 0..NotifyCap /\ RingMatchesPending' /\ KeepsRing
      /\ \A o \in Orgs : \A i \in DOMAIN pending[o] :
            i \in DOMAIN pending'[o] /\ pending'[o][i] = pending[o][i]
      /\ \A k \in DOMAIN <<p>> : \E o \in Orgs : \E i \in DOMAIN pending'[o] : pending'[o][i] = <<p>>[k]
  BY <1>1, <1>2, InjectLemma
<1>4. QInv'
  BY <1>3 DEF PromoteScheduled, QInv, QueueTypeOK
<1>5. \E o \in Orgs : \E i \in DOMAIN pending'[o] : pending'[o][i] = p
  BY <1>1, <1>3
<1>6. ASSUME NEW e \in Events, Waiting(e) PROVE Waiting(e)'
  <2>1. CASE \E o \in Orgs : \E i \in DOMAIN pending[o] : pending[o][i].ev = e
    BY <1>3, <2>1 DEF Waiting
  <2>2. CASE \E x \in later \cup due : x.ev = e
    BY <1>5, <2>2 DEF Waiting, PromoteScheduled
  <2> QED BY <1>6, <2>1, <2>2 DEF Waiting
<1> QED BY <1>3, <1>4, <1>6 DEF KeepsWaiting

LEMMA DrainDeadLemma ==
  ASSUME QInv, DrainDead
  PROVE  QInv' /\ ring' = ring /\ KeepsWaiting
BY CapAssumption DEF DrainDead, QInv, QueueTypeOK, RingMatchesPending, KeepsWaiting, Waiting

LEMMA BecomeDueLemma ==
  ASSUME QInv, NEW p, BecomeDue(p)
  PROVE  QInv' /\ ring' = ring /\ KeepsWaiting
BY DEF BecomeDue, QInv, QueueTypeOK, RingMatchesPending, KeepsWaiting, Waiting

LEMMA LeaseExpiresLemma ==
  ASSUME QInv, NEW m, LeaseExpires(m)
  PROVE  QInv' /\ ring' = ring /\ KeepsWaiting
BY DEF LeaseExpires, QInv, QueueTypeOK, RingMatchesPending, KeepsWaiting, Waiting

LEMMA QueueInitLemma ==
  ASSUME QueueInit PROVE QInv
BY CapAssumption DEF QueueInit, QInv, QueueTypeOK, RingMatchesPending

-----------------------------------------------------------------------------
(* How many copies of a payload the lists hold, for the refinement. *)

One(x, p) == IF x = p THEN 1 ELSE 0

Copies(s, p) == Cardinality({i \in DOMAIN s : s[i] = p})

LEMMA CopiesFinite ==
  ASSUME NEW s \in Seq(Payloads), NEW p
  PROVE  /\ IsFiniteSet({i \in DOMAIN s : s[i] = p})
         /\ Copies(s, p) \in Nat
         /\ \A i \in DOMAIN s : s[i] = p => Copies(s, p) > 0
<1> DEFINE S == {i \in DOMAIN s : s[i] = p}
<1>1. S \in SUBSET (1..Len(s)) /\ Len(s) \in Nat
  OBVIOUS
<1>2. IsFiniteSet(1..Len(s))
  BY <1>1, FS_Interval
<1>3. \A i \in DOMAIN s : s[i] = p => S # {}
  OBVIOUS
<1> HIDE DEF S
<1>4. IsFiniteSet(S) /\ Cardinality(S) \in Nat
  BY <1>1, <1>2, FS_Subset, FS_CardinalityType
<1>5. \A i \in DOMAIN s : s[i] = p => Cardinality(S) > 0
  BY <1>3, <1>4, FS_EmptySet
<1> QED BY <1>4, <1>5 DEF S, Copies

\* RPUSH adds one copy of the payload it pushes, and of no other.
LEMMA CopiesAppend ==
  ASSUME NEW s \in Seq(Payloads), NEW x \in Payloads, NEW p
  PROVE  Copies(Append(s, x), p) = Copies(s, p) + One(x, p)
<1> DEFINE S == {i \in DOMAIN s : s[i] = p}
           T == {i \in DOMAIN Append(s, x) : Append(s, x)[i] = p}
           n == Len(s) + 1
<1>1. IsFiniteSet(S) /\ Cardinality(S) \in Nat
  BY CopiesFinite DEF Copies
<1>2. T = IF x = p THEN S \cup {n} ELSE S
  OBVIOUS
<1>3. n \notin S
  OBVIOUS
<1> HIDE DEF S, T, n
<1>4. Cardinality(S \cup {n}) = Cardinality(S) + 1
  BY <1>1, <1>3, FS_AddElement
<1>5. Cardinality(T) = Cardinality(S) + One(x, p)
  BY <1>1, <1>2, <1>4 DEF One
<1> QED BY <1>5 DEF S, T, Copies

\* LPOP takes one copy of the head, and of no other payload.
LEMMA CopiesTail ==
  ASSUME NEW s \in Seq(Payloads), s # <<>>, NEW p
  PROVE  Copies(Tail(s), p) = Copies(s, p) - One(Head(s), p)
<1> DEFINE S == {i \in DOMAIN s : s[i] = p}
           T == {i \in DOMAIN Tail(s) : Tail(s)[i] = p}
           R == S \ {1}
           f == [i \in T |-> i + 1]
<1>1. IsFiniteSet(S) /\ Cardinality(S) \in Nat
  BY CopiesFinite DEF Copies
<1>2. Len(s) \in Nat \ {0} /\ DOMAIN s = 1..Len(s) /\ DOMAIN Tail(s) = 1..(Len(s) - 1)
  OBVIOUS
<1>3. \A i \in DOMAIN Tail(s) : Tail(s)[i] = s[i + 1]
  OBVIOUS
<1>4. f \in Bijection(T, R)
  <2>1. f \in [T -> R]
    BY <1>2, <1>3
  <2>2. \A i, j \in T : f[i] = f[j] => i = j
    BY <1>2
  <2>3. \A k \in R : \E i \in T : f[i] = k
    <3> SUFFICES ASSUME NEW k \in R PROVE \E i \in T : f[i] = k
      OBVIOUS
    <3>1. k - 1 \in T /\ f[k - 1] = k
      BY <1>2, <1>3
    <3> QED BY <3>1
  <2> QED BY <2>1, <2>2, <2>3 DEF Bijection, Injection, Surjection, IsInjective
<1>5. 1 \in S <=> Head(s) = p
  BY <1>2
<1>6. ExistsBijection(T, R)
  BY <1>4 DEF ExistsBijection
<1>7. R = S \ {1}
  OBVIOUS
<1> HIDE DEF S, T, R, f
<1>8. IsFiniteSet(R) /\ Cardinality(R) = Cardinality(S) - One(Head(s), p)
  <2>1. /\ IsFiniteSet(S \ {1})
        /\ Cardinality(S \ {1}) = IF 1 \in S THEN Cardinality(S) - 1 ELSE Cardinality(S)
    BY <1>1, FS_RemoveElement
  <2> QED BY <1>1, <1>5, <1>7, <2>1 DEF One
<1>9. ExistsBijection(R, T)
  BY <1>6, Fun_ExistsBijSymmetric
<1>10. Cardinality(T) = Cardinality(R)
  BY <1>8, <1>9, FS_Bijection
<1> QED BY <1>8, <1>10 DEF S, T, Copies

\* Every payload is on its own org's list.
HomeOK(q) == \A o \in Orgs : \A i \in DOMAIN q.list[o] : OrgOf[q.list[o][i].ev] = o

CopiesIn(q, p) == Copies(q.list[OrgOf[p.ev]], p)

LEMMA PushCounts ==
  ASSUME NEW q \in Lists, NEW p \in Payloads, HomeOK(q)
  PROVE  /\ HomeOK(Push(q, p))
         /\ \A x \in Payloads : CopiesIn(Push(q, p), x) = CopiesIn(q, x) + One(p, x)
<1> DEFINE o == OrgOf[p.ev]
           r == Push(q, p)
<1>1. o \in Orgs /\ \A x \in Payloads : OrgOf[x.ev] \in Orgs
  BY OrgOfAssumption DEF Payloads
<1>2. q.list \in [Orgs -> Seq(Payloads)] /\ r.list = [q.list EXCEPT ![o] = Append(@, p)]
  BY DEF Push, Lists
<1>3. \A x \in Payloads : OrgOf[x.ev] # o => x # p
  OBVIOUS
<1> HIDE DEF o, r
<1>4. /\ \A y \in Orgs : y # o => r.list[y] = q.list[y]
      /\ r.list[o] = Append(q.list[o], p) /\ q.list[o] \in Seq(Payloads)
      /\ \A y \in Orgs : q.list[y] \in Seq(Payloads)
  BY <1>1, <1>2
<1>5. HomeOK(r)
  <2> SUFFICES ASSUME NEW y \in Orgs, NEW i \in DOMAIN r.list[y]
               PROVE  OrgOf[r.list[y][i].ev] = y
    BY DEF HomeOK
  <2>1. CASE y # o
    BY <1>4, <2>1 DEF HomeOK
  <2>2. CASE y = o /\ i \in DOMAIN q.list[o]
    BY <1>1, <1>4, <2>2 DEF HomeOK
  <2>3. CASE y = o /\ i \notin DOMAIN q.list[o]
    <3>1. r.list[y][i] = p
      BY <1>4, <2>3
    <3> QED BY <2>3, <3>1 DEF o
  <2> QED BY <2>1, <2>2, <2>3
<1>6. ASSUME NEW x \in Payloads PROVE CopiesIn(r, x) = CopiesIn(q, x) + One(p, x)
  <2>1. CASE OrgOf[x.ev] = o
    BY <1>4, <2>1, CopiesAppend DEF CopiesIn
  <2>2. CASE OrgOf[x.ev] # o
    <3>1. r.list[OrgOf[x.ev]] = q.list[OrgOf[x.ev]] /\ q.list[OrgOf[x.ev]] \in Seq(Payloads)
      BY <1>1, <1>4, <2>2
    <3>2. Copies(q.list[OrgOf[x.ev]], x) \in Nat
      BY <3>1, CopiesFinite
    <3> QED BY <1>3, <2>2, <3>1, <3>2 DEF CopiesIn, One
  <2> QED BY <2>1, <2>2
<1> QED BY <1>5, <1>6 DEF r

\* A script's loop over distinct payloads adds one copy of each.
LEMMA PushAllCounts ==
  ASSUME NEW q \in Lists, NEW s \in Seq(Payloads), HomeOK(q),
         \A i, j \in DOMAIN s : i # j => s[i] # s[j]
  PROVE  /\ HomeOK(PushAll(q, s))
         /\ \A x \in Payloads :
               CopiesIn(PushAll(q, s), x) =
                  CopiesIn(q, x) + IF \E k \in DOMAIN s : s[k] = x THEN 1 ELSE 0
<1>1. PICK f : /\ DOMAIN f = 0..Len(s)
               /\ f[0] = q
               /\ \A i \in 1..Len(s) : f[i] = Push(f[i - 1], s[i])
               /\ PushAll(q, s) = f[Len(s)]
  BY PushAllLoop
<1> DEFINE n == Len(s)
           Good(i) == /\ f[i] \in Lists
                      /\ HomeOK(f[i])
                      /\ \A x \in Payloads :
                            CopiesIn(f[i], x) =
                               CopiesIn(q, x) + IF \E k \in 1..i : s[k] = x THEN 1 ELSE 0
           T == {i \in 0..n : Good(i)}
<1>2. n \in Nat /\ DOMAIN s = 1..n
  OBVIOUS
<1>0. \A x \in Payloads : CopiesIn(q, x) \in Nat
  <2> SUFFICES ASSUME NEW x \in Payloads PROVE CopiesIn(q, x) \in Nat
    OBVIOUS
  <2>1. q.list[OrgOf[x.ev]] \in Seq(Payloads)
    BY OrgOfAssumption DEF Payloads, Lists
  <2> QED BY <2>1, CopiesFinite DEF CopiesIn
<1>3. Good(0)
  BY <1>0, <1>1
<1>4. ASSUME NEW i \in 0..n, Good(i), i < n PROVE Good(i + 1)
  <2>1. s[i + 1] \in Payloads
    BY <1>2, <1>4
  <2>2. f[i + 1] = Push(f[i], s[i + 1])
    BY <1>1, <1>2, <1>4
  <2>3. /\ f[i + 1] \in Lists /\ HomeOK(f[i + 1])
        /\ \A x \in Payloads : CopiesIn(f[i + 1], x) = CopiesIn(f[i], x) + One(s[i + 1], x)
    BY <1>4, <2>1, <2>2, PushLemma, PushCounts
  <2>4. ASSUME NEW x \in Payloads
        PROVE  CopiesIn(f[i + 1], x) =
                  CopiesIn(q, x) + IF \E k \in 1..(i + 1) : s[k] = x THEN 1 ELSE 0
    <3>1. CASE s[i + 1] = x
      <4>1. ~\E k \in 1..i : s[k] = x
        <5> SUFFICES ASSUME NEW k \in 1..i, s[k] = x PROVE FALSE
          OBVIOUS
        <5>1. k \in DOMAIN s /\ i + 1 \in DOMAIN s /\ k # i + 1
          BY <1>2, <1>4
        <5> QED BY <3>1, <5>1
      <4>2. \E k \in 1..(i + 1) : s[k] = x
        BY <3>1
      <4> QED BY <1>0, <1>4, <2>3, <3>1, <4>1, <4>2 DEF One
    <3>2. CASE s[i + 1] # x
      <4>1. (\E k \in 1..(i + 1) : s[k] = x) <=> \E k \in 1..i : s[k] = x
        BY <3>2
      <4> QED BY <1>0, <1>4, <2>3, <3>2, <4>1 DEF One
    <3> QED BY <3>1, <3>2
  <2> QED BY <2>3, <2>4
<1>5. Good(n)
  <2> HIDE DEF Good
  <2>1. 0 \in T
    BY <1>2, <1>3
  <2>2. \A i \in 0..n : i \in T /\ i < n => i + 1 \in T
    BY <1>2, <1>4
  <2>3. \A i \in 0..n : i \in T
    <3> HIDE DEF T, n
    <3> QED BY <1>2, <2>1, <2>2, IntervalInduction
  <2> QED BY <1>2, <2>3
<1> QED BY <1>1, <1>2, <1>5

\* AtHome, and what the scripts that push do to the number of copies.
AtHome == \A o \in Orgs : \A i \in DOMAIN pending[o] : OrgOf[pending[o][i].ev] = o

LEMMA InjectCounts ==
  ASSUME QInv, AtHome, NEW s \in Seq(Payloads), Inject(s),
         \A i, j \in DOMAIN s : i # j => s[i] # s[j]
  PROVE  /\ AtHome'
         /\ \A x \in Payloads :
               Copies(pending'[OrgOf[x.ev]], x) =
                  Copies(pending[OrgOf[x.ev]], x)
                     + IF \E k \in DOMAIN s : s[k] = x THEN 1 ELSE 0
<1> DEFINE q == [list |-> pending, ring |-> ring]
           r == PushAll(q, s)
<1>1. q \in Lists /\ HomeOK(q) /\ q.list = pending
  BY DEF QInv, QueueTypeOK, Lists, HomeOK, AtHome
<1>2. pending' = r.list
  BY DEF Inject
<1> HIDE DEF q
<1>3. /\ HomeOK(r)
      /\ \A x \in Payloads :
            CopiesIn(r, x) = CopiesIn(q, x) + IF \E k \in DOMAIN s : s[k] = x THEN 1 ELSE 0
  BY <1>1, PushAllCounts
<1> HIDE DEF r
<1> QED BY <1>1, <1>2, <1>3 DEF HomeOK, AtHome, CopiesIn

=============================================================================
