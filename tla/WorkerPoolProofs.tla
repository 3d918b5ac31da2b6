-------------------------- MODULE WorkerPoolProofs --------------------------
(* The worker pool keeps its type, its ring, its tokens and every event it  *)
(* owes, for any number of orgs, events, consumers and faults.              *)
EXTENDS WorkerPool, DQueueProofs

PoolTypeOK ==
    /\ pc \in [Workers -> {"pick", "wait", "work", "ack"}]
    /\ hold \in [Workers -> Members \cup {NoMember}]
    /\ \A w \in Workers : hold[w] # NoMember <=> pc[w] \in {"work", "ack"}
    /\ sent \in [Events -> 0..MaxSends]
    /\ owed \subseteq Events
    /\ faults \in 0..MaxFaults

IInv == QInv /\ PoolTypeOK /\ TokensDistinct /\ NothingLost

-----------------------------------------------------------------------------
(* NothingLost survives a step that keeps the waiting copies, the secure     *)
(* leases it touches, and owes nothing new that is not waiting.              *)
LEMMA OwedKept ==
  ASSUME NothingLost, owed \subseteq Events, KeepsWaiting,
         \A e \in owed' : e \in owed \/ Waiting(e)',
         \A e \in owed', m \in processing :
            m.evt.ev = e /\ (\A w \in Workers : ~(pc[w] = "ack" /\ hold[w] = m))
              => \/ Waiting(e)'
                 \/ m \in processing' /\ \A w \in Workers : ~(pc'[w] = "ack" /\ hold'[w] = m)
  PROVE  NothingLost'
<1> SUFFICES ASSUME NEW e \in owed' PROVE Secure(e)'
  BY DEF NothingLost
<1>1. CASE Waiting(e)'
  BY <1>1 DEF Secure
<1>2. CASE ~Waiting(e)'
  <2>1. e \in owed /\ e \in Events
    BY <1>2
  <2>2. ~Waiting(e)
    BY <1>2, <2>1 DEF KeepsWaiting
  <2>3. PICK m \in processing : /\ m.evt.ev = e
                                /\ \A w \in Workers : ~(pc[w] = "ack" /\ hold[w] = m)
    BY <2>1, <2>2 DEF NothingLost, Secure
  <2>4. m \in processing' /\ \A w \in Workers : ~(pc'[w] = "ack" /\ hold'[w] = m)
    BY <1>2, <2>3
  <2> QED BY <2>3, <2>4 DEF Secure
<1> QED BY <1>1, <1>2

LEMMA TypeOKSplit == TypeOK <=> QueueTypeOK /\ PoolTypeOK
BY DEF TypeOK, PoolTypeOK

LEMMA InitInv == Init => IInv
<1> SUFFICES ASSUME Init PROVE IInv
  OBVIOUS
<1>1. QInv
  BY QueueInitLemma DEF Init
<1>2. PoolTypeOK
  BY BoundsAssumption DEF Init, PoolTypeOK
<1>3. TokensDistinct
  BY DEF Init, QueueInit, TokensDistinct
<1>4. NothingLost
  BY DEF Init, NothingLost
<1> QED BY <1>1, <1>2, <1>3, <1>4 DEF IInv

-----------------------------------------------------------------------------
LEMMA ProduceInv == ASSUME IInv, NEW e \in Events, Produce(e) PROVE IInv' /\ KeepsRing
<1>1. PICK at \in Stamps : Enqueue([ev |-> e, at |-> at, attempt |-> 0])
  BY DEF Produce
<1> DEFINE p == [ev |-> e, at |-> at, attempt |-> 0]
<1>2. p \in Payloads /\ p.ev = e
  BY AttemptAssumption DEF Payloads
<1> HIDE DEF p
<1>3. QInv' /\ KeepsRing /\ KeepsWaiting /\ Waiting(e)'
  <2>1. Enqueue(p)
    BY <1>1 DEF p
  <2>2. QInv' /\ KeepsRing /\ KeepsWaiting /\ Waiting(p.ev)'
    BY <1>2, <2>1, EnqueueLemma DEF IInv
  <2> QED BY <1>2, <2>2
<1>4. UNCHANGED <<processing, expired, pc, hold>>
  BY <1>1 DEF Produce, Enqueue
<1>5. PoolTypeOK'
  BY <1>4, BoundsAssumption DEF IInv, PoolTypeOK, Produce
<1>6. TokensDistinct'
  BY <1>4 DEF IInv, TokensDistinct
<1>7. NothingLost'
  BY <1>3, <1>4, OwedKept DEF IInv, PoolTypeOK, Produce
<1> QED BY <1>3, <1>5, <1>6, <1>7 DEF IInv

LEMMA PickInv ==
  ASSUME IInv, NEW w \in Workers, Pick(w)
  PROVE  /\ IInv'
         /\ \A i \in DOMAIN ring : i = 1 \/ (i - 1 \in DOMAIN ring' /\ ring'[i - 1] = ring[i])
<1> DEFINE p == Head(pending[Head(ring)])
<1>1. PICK tok \in Fresh : /\ FairPick(tok)
                           /\ hold' = [hold EXCEPT ![w] = [tok |-> tok, evt |-> p]]
  BY DEF Pick
<1>2. tok \in Tokens
  BY DEF Fresh
<1>3. /\ QInv' /\ p \in Payloads
      /\ \A i \in DOMAIN ring : i = 1 \/ (i - 1 \in DOMAIN ring' /\ ring'[i - 1] = ring[i])
      /\ \A e \in Events : Waiting(e) => Waiting(e)' \/ e = p.ev
  BY <1>1, <1>2, FairPickLemma DEF IInv
<1> DEFINE m == [tok |-> tok, evt |-> p]
<1>4. /\ processing' = processing \cup {m} /\ expired' = expired
      /\ pc[w] = "pick" /\ pc' = [pc EXCEPT ![w] = "work"]
      /\ UNCHANGED <<sent, owed, faults>>
  BY <1>1 DEF FairPick, Pick, Goto
<1>5. /\ m \in Members /\ m.tok = tok /\ m.evt = p
      /\ \A n \in processing : n.tok # tok
      /\ \A v \in Workers : hold[v] # NoMember => hold[v].tok # tok
  <2>1. p \in Payloads
    BY <1>3
  <2> HIDE DEF p
  <2> QED BY <1>2, <2>1 DEF Members, Fresh
<1>6. hold' = [hold EXCEPT ![w] = m]
  BY <1>1
<1> HIDE DEF p, m
<1>7. m # NoMember
  BY <1>5, NoMemberAssumption
<1>8. PoolTypeOK'
  BY <1>4, <1>5, <1>6, <1>7 DEF IInv, PoolTypeOK
<1>9. \A v \in Workers : hold'[v] = IF v = w THEN m ELSE hold[v]
  BY <1>6 DEF IInv, PoolTypeOK
<1>10. TokensDistinct'
  <2>1. \A a, b \in processing' : a.tok = b.tok => a = b
    BY <1>4, <1>5 DEF IInv, TokensDistinct
  <2>2. \A v \in Workers, a \in processing' :
           hold'[v] # NoMember /\ hold'[v].tok = a.tok => hold'[v] = a
    BY <1>4, <1>5, <1>7, <1>9 DEF IInv, TokensDistinct
  <2>3. \A u, v \in Workers :
           hold'[u] # NoMember /\ hold'[v] # NoMember /\ hold'[u].tok = hold'[v].tok => u = v
    BY <1>5, <1>7, <1>9 DEF IInv, TokensDistinct
  <2> QED BY <2>1, <2>2, <2>3 DEF TokensDistinct
<1>11. NothingLost'
  <2> SUFFICES ASSUME NEW e \in owed' PROVE Secure(e)'
    BY DEF NothingLost
  <2>1. e \in owed /\ e \in Events /\ Secure(e)
    BY <1>4 DEF IInv, PoolTypeOK, NothingLost
  <2>2. \A v \in Workers : pc'[v] = "ack" => pc[v] = "ack" /\ hold'[v] = hold[v]
    BY <1>4, <1>9 DEF IInv, PoolTypeOK
  <2>3. CASE Waiting(e)'
    BY <2>3 DEF Secure
  <2>4. CASE e = p.ev
    <3>1. \A v \in Workers : ~(pc'[v] = "ack" /\ hold'[v] = m)
      BY <1>5, <1>7, <2>2
    <3> QED BY <1>4, <1>5, <2>4, <3>1 DEF Secure
  <2>5. CASE ~Waiting(e)
    <3>1. PICK n \in processing : /\ n.evt.ev = e
                                  /\ \A v \in Workers : ~(pc[v] = "ack" /\ hold[v] = n)
      BY <2>1, <2>5 DEF Secure
    <3> QED BY <1>4, <2>2, <3>1 DEF Secure
  <2> QED BY <1>3, <2>1, <2>3, <2>4, <2>5
<1> QED BY <1>3, <1>8, <1>10, <1>11 DEF IInv

LEMMA PickReplyLostInv ==
  ASSUME IInv, NEW w \in Workers, PickReplyLost(w)
  PROVE  /\ IInv'
         /\ \A i \in DOMAIN ring : i = 1 \/ (i - 1 \in DOMAIN ring' /\ ring'[i - 1] = ring[i])
<1> DEFINE p == Head(pending[Head(ring)])
<1>1. PICK tok \in Fresh : FairPick(tok)
  BY DEF PickReplyLost
<1>2. tok \in Tokens
  BY DEF Fresh
<1>3. /\ QInv' /\ p \in Payloads
      /\ \A i \in DOMAIN ring : i = 1 \/ (i - 1 \in DOMAIN ring' /\ ring'[i - 1] = ring[i])
      /\ \A e \in Events : Waiting(e) => Waiting(e)' \/ e = p.ev
  BY <1>1, <1>2, FairPickLemma DEF IInv
<1> DEFINE m == [tok |-> tok, evt |-> p]
<1>4. processing' = processing \cup {m} /\ UNCHANGED <<pc, hold, sent, owed>>
  BY <1>1 DEF FairPick, PickReplyLost
<1>5. /\ m.tok = tok /\ m.evt = p
      /\ \A n \in processing : n.tok # tok
      /\ \A v \in Workers : hold[v] # NoMember => hold[v].tok # tok
      /\ m # NoMember
  <2>1. p \in Payloads
    BY <1>3
  <2> HIDE DEF p
  <2> QED BY <1>2, <2>1, NoMemberAssumption DEF Members, Fresh
<1> HIDE DEF p, m
<1>6. PoolTypeOK'
  BY <1>4, BoundsAssumption DEF IInv, PoolTypeOK, PickReplyLost, Fault
<1>7. TokensDistinct'
  BY <1>4, <1>5 DEF IInv, TokensDistinct
<1>8. NothingLost'
  <2> SUFFICES ASSUME NEW e \in owed' PROVE Secure(e)'
    BY DEF NothingLost
  <2>1. e \in owed /\ e \in Events /\ Secure(e)
    BY <1>4 DEF IInv, PoolTypeOK, NothingLost
  <2>3. CASE Waiting(e)'
    BY <2>3 DEF Secure
  <2>4. CASE e = p.ev
    BY <1>4, <1>5, <2>4 DEF Secure
  <2>5. CASE ~Waiting(e)
    BY <1>4, <2>1, <2>5 DEF Secure
  <2> QED BY <1>3, <2>1, <2>3, <2>4, <2>5
<1> QED BY <1>3, <1>6, <1>7, <1>8 DEF IInv

\* Steps that neither lease nor settle: leases and hands are left alone.
LEMMA QuietInv ==
  ASSUME IInv, QInv', PoolTypeOK', KeepsWaiting,
         UNCHANGED processing,
         \A e \in owed' : e \in owed \/ Waiting(e)',
         \A v \in Workers : hold'[v] = hold[v] /\ (pc'[v] = "ack" => pc[v] = "ack")
  PROVE  IInv'
<1>1. TokensDistinct'
  BY DEF IInv, TokensDistinct
<1>2. NothingLost'
  BY OwedKept DEF IInv, PoolTypeOK
<1> QED BY <1>1, <1>2 DEF IInv

LEMMA PickNothingInv ==
  ASSUME IInv, NEW w \in Workers, PickNothing(w) PROVE IInv' /\ ring' = ring
<1>1. QInv' /\ UNCHANGED queueVars
  BY FairPickEmptyLemma DEF IInv, PickNothing
<1>2. PoolTypeOK'
  BY DEF IInv, PoolTypeOK, PickNothing, Goto
<1>3. KeepsWaiting
  BY <1>1 DEF KeepsWaiting, Waiting, queueVars
<1>4. \A v \in Workers : hold'[v] = hold[v] /\ (pc'[v] = "ack" => pc[v] = "ack")
  BY DEF IInv, PoolTypeOK, PickNothing, Goto
<1> QED BY <1>1, <1>2, <1>3, <1>4, QuietInv DEF PickNothing, queueVars

LEMMA WaitNotifyInv ==
  ASSUME IInv, NEW w \in Workers, WaitNotify(w) PROVE IInv' /\ ring' = ring
<1>1. QInv' /\ ring' = ring /\ KeepsWaiting
  BY TakeNotifyLemma DEF IInv, WaitNotify
<1>2. PoolTypeOK'
  BY DEF IInv, PoolTypeOK, WaitNotify, Goto
<1>3. \A v \in Workers : hold'[v] = hold[v] /\ (pc'[v] = "ack" => pc[v] = "ack")
  BY DEF IInv, PoolTypeOK, WaitNotify, Goto
<1> QED BY <1>1, <1>2, <1>3, QuietInv DEF WaitNotify, TakeNotify

LEMMA WaitTimeoutInv ==
  ASSUME IInv, NEW w \in Workers, WaitTimeout(w) PROVE IInv' /\ ring' = ring
<1>1. UNCHANGED queueVars
  BY DEF WaitTimeout
<1>2. QInv' /\ KeepsWaiting
  BY <1>1 DEF IInv, QInv, QueueTypeOK, RingMatchesPending, KeepsWaiting, Waiting, queueVars
<1>3. PoolTypeOK'
  BY DEF IInv, PoolTypeOK, WaitTimeout, Goto
<1>4. \A v \in Workers : hold'[v] = hold[v] /\ (pc'[v] = "ack" => pc[v] = "ack")
  BY DEF IInv, PoolTypeOK, WaitTimeout, Goto
<1> QED BY <1>1, <1>2, <1>3, <1>4, QuietInv DEF WaitTimeout, queueVars

\* Steps that settle: w's member leaves the processing set, w's hands are empty.
LEMMA SettleInv ==
  ASSUME IInv, NEW w \in Workers, pc[w] \in {"work", "ack"},
         QInv', KeepsWaiting, processing' = processing \ {hold[w]}, Release(w),
         sent' = sent, faults' \in 0..MaxFaults,
         owed' = IF pc[w] = "work" THEN owed \ {hold[w].evt.ev} ELSE owed
  PROVE  IInv'
<1>1. PoolTypeOK'
  BY DEF IInv, PoolTypeOK, Release, Goto
<1>2. \A v \in Workers : /\ hold'[v] = IF v = w THEN NoMember ELSE hold[v]
                         /\ pc'[v] = IF v = w THEN "pick" ELSE pc[v]
  BY DEF IInv, PoolTypeOK, Release, Goto
<1>3. TokensDistinct'
  BY <1>2 DEF IInv, TokensDistinct
<1>4. ASSUME NEW e \in owed', NEW m \in processing, m.evt.ev = e,
             \A v \in Workers : ~(pc[v] = "ack" /\ hold[v] = m)
      PROVE  m \in processing' /\ \A v \in Workers : ~(pc'[v] = "ack" /\ hold'[v] = m)
  <2>1. m # hold[w]
    BY <1>4
  <2> QED BY <1>2, <1>4, <2>1
<1>5. NothingLost'
  BY <1>4, OwedKept DEF IInv, PoolTypeOK
<1> QED BY <1>1, <1>3, <1>5 DEF IInv

LEMMA FinishInv ==
  ASSUME IInv, NEW w \in Workers, Finish(w) PROVE IInv' /\ ring' = ring
<1>1. QInv' /\ ring' = ring /\ KeepsWaiting
  BY AckLemma DEF IInv, Finish
<1> QED BY <1>1, SettleInv DEF IInv, PoolTypeOK, Finish, Ack

LEMMA AckScheduledInv ==
  ASSUME IInv, NEW w \in Workers, AckScheduled(w) PROVE IInv' /\ ring' = ring
<1>1. QInv' /\ ring' = ring /\ KeepsWaiting
  BY AckLemma DEF IInv, AckScheduled
<1> QED BY <1>1, SettleInv DEF IInv, PoolTypeOK, AckScheduled, Ack

LEMMA GiveUpInv ==
  ASSUME IInv, NEW w \in Workers, GiveUp(w) PROVE IInv' /\ ring' = ring
<1>1. hold[w] \in Members
  BY DEF IInv, PoolTypeOK, GiveUp
<1>2. QInv' /\ ring' = ring /\ KeepsWaiting
  BY <1>1, DeadLetterLemma DEF IInv, GiveUp
<1> QED BY <1>2, SettleInv DEF IInv, PoolTypeOK, GiveUp, DeadLetter

\* Steps that schedule the next copy: w is half settled, its event waits.
LEMMA HalfSettleInv ==
  ASSUME IInv, NEW w \in Workers, pc[w] = "work", NEW p \in Payloads,
         p.ev = hold[w].evt.ev, Schedule(p), Goto(w, "ack"),
         UNCHANGED <<hold, sent, owed, faults>>
  PROVE  IInv' /\ ring' = ring
<1>1. QInv' /\ ring' = ring /\ KeepsWaiting /\ Waiting(p.ev)' /\ processing' = processing
  BY ScheduleLemma DEF IInv, Schedule
<1>2. PoolTypeOK'
  BY DEF IInv, PoolTypeOK, Goto
<1>3. TokensDistinct'
  BY <1>1 DEF IInv, TokensDistinct
<1>4. ASSUME NEW e \in owed', NEW m \in processing, m.evt.ev = e,
             \A v \in Workers : ~(pc[v] = "ack" /\ hold[v] = m)
      PROVE  \/ Waiting(e)'
             \/ m \in processing' /\ \A v \in Workers : ~(pc'[v] = "ack" /\ hold'[v] = m)
  <2>1. CASE m = hold[w]
    BY <1>1, <1>4, <2>1
  <2>2. CASE m # hold[w]
    BY <1>1, <1>4, <2>2 DEF IInv, PoolTypeOK, Goto
  <2> QED BY <2>1, <2>2
<1>5. NothingLost'
  BY <1>1, <1>4, OwedKept DEF IInv, PoolTypeOK
<1> QED BY <1>1, <1>2, <1>3, <1>5 DEF IInv

LEMMA RetryInv ==
  ASSUME IInv, NEW w \in Workers, Retry(w) PROVE IInv' /\ ring' = ring
<1>1. hold[w] \in Members /\ hold[w].evt \in Payloads
  BY DEF IInv, PoolTypeOK, Retry, Members
<1> DEFINE p == [hold[w].evt EXCEPT !.attempt = @ + 1]
<1>2. p \in Payloads /\ p.ev = hold[w].evt.ev
  BY <1>1, AttemptAssumption DEF Retry, Payloads
<1>3. Schedule(p)
  BY DEF Retry
<1> HIDE DEF p
<1> QED BY <1>2, <1>3, HalfSettleInv DEF Retry

LEMMA DeferInv ==
  ASSUME IInv, NEW w \in Workers, Defer(w) PROVE IInv' /\ ring' = ring
<1>1. hold[w] \in Members /\ hold[w].evt \in Payloads
  BY DEF IInv, PoolTypeOK, Defer, Members
<1>2. PICK at \in Stamps : Schedule([hold[w].evt EXCEPT !.at = at])
  BY DEF Defer
<1> DEFINE p == [hold[w].evt EXCEPT !.at = at]
<1>3. p \in Payloads /\ p.ev = hold[w].evt.ev
  BY <1>1 DEF Payloads
<1>4. Schedule(p)
  BY <1>2
<1> HIDE DEF p
<1> QED BY <1>3, <1>4, HalfSettleInv DEF Defer

LEMMA AbandonInv ==
  ASSUME IInv, NEW w \in Workers, Abandon(w) PROVE IInv' /\ ring' = ring
<1>1. UNCHANGED queueVars
  BY DEF Abandon
<1>2. QInv' /\ KeepsWaiting /\ processing' = processing
  BY <1>1 DEF IInv, QInv, QueueTypeOK, RingMatchesPending, KeepsWaiting, Waiting, queueVars
<1>3. PoolTypeOK'
  BY BoundsAssumption DEF IInv, PoolTypeOK, Abandon, Fault, Release, Goto
<1>4. \A v \in Workers : /\ hold'[v] = IF v = w THEN NoMember ELSE hold[v]
                         /\ pc'[v] = IF v = w THEN "pick" ELSE pc[v]
  BY DEF IInv, PoolTypeOK, Abandon, Release, Goto
<1>5. TokensDistinct'
  BY <1>2, <1>4 DEF IInv, TokensDistinct
<1>6. ASSUME NEW e \in owed', NEW m \in processing, m.evt.ev = e,
             \A v \in Workers : ~(pc[v] = "ack" /\ hold[v] = m)
      PROVE  m \in processing' /\ \A v \in Workers : ~(pc'[v] = "ack" /\ hold'[v] = m)
  BY <1>2, <1>4, <1>6
<1>7. NothingLost'
  BY <1>2, <1>6, OwedKept DEF IInv, PoolTypeOK, Abandon
<1> QED BY <1>1, <1>2, <1>3, <1>5, <1>7 DEF IInv, queueVars

-----------------------------------------------------------------------------
LEMMA MoverInv == ASSUME IInv, Mover PROVE IInv' /\ KeepsRing
<1>1. QInv' /\ KeepsRing /\ KeepsWaiting
  BY PromoteDueLemma DEF IInv, Mover
<1>2. UNCHANGED <<processing, pc, hold, sent, owed, faults>>
  BY DEF Mover, PromoteDue, poolVars
<1>3. PoolTypeOK'
  BY <1>2 DEF IInv, PoolTypeOK
<1> QED BY <1>1, <1>2, <1>3, QuietInv

LEMMA RecovererInv == ASSUME IInv, Recoverer PROVE IInv' /\ ring' = ring
<1>1. QInv' /\ ring' = ring /\ KeepsWaiting /\ \A m \in expired : Waiting(m.evt.ev)'
  BY RecoverLemma DEF IInv, Recoverer
<1>2. processing' = processing \ expired /\ UNCHANGED <<pc, hold, sent, owed, faults>>
  BY DEF Recoverer, Recover, poolVars
<1>3. PoolTypeOK'
  BY <1>2 DEF IInv, PoolTypeOK
<1>4. TokensDistinct'
  BY <1>2 DEF IInv, TokensDistinct
<1>5. NothingLost'
  BY <1>1, <1>2, OwedKept DEF IInv, PoolTypeOK
<1> QED BY <1>1, <1>3, <1>4, <1>5 DEF IInv

LEMMA AdminRequeueDeadInv == ASSUME IInv, AdminRequeueDead PROVE IInv' /\ KeepsRing
<1>1. PICK i \in DOMAIN dead, at \in Stamps :
         RequeueDead(i, at) /\ owed' = owed \cup {dead[i].ev}
  BY DEF AdminRequeueDead
<1>2. PICK e : e = dead[i].ev
  OBVIOUS
<1>3. QInv' /\ KeepsRing /\ KeepsWaiting /\ Waiting(e)'
  BY <1>1, <1>2, RequeueDeadLemma DEF IInv
<1>4. UNCHANGED <<processing, pc, hold, sent, faults>>
  BY <1>1 DEF AdminRequeueDead, RequeueDead
<1>5. e \in Events
  <2>1. dead[i] \in Payloads
    BY <1>1 DEF IInv, QInv, QueueTypeOK
  <2> QED BY <1>2, <2>1 DEF Payloads
<1>6. PoolTypeOK'
  BY <1>1, <1>2, <1>4, <1>5 DEF IInv, PoolTypeOK
<1> QED BY <1>1, <1>2, <1>3, <1>4, <1>6, QuietInv

LEMMA AdminPromoteInv == ASSUME IInv, AdminPromote PROVE IInv' /\ KeepsRing
<1>1. PICK p \in Payloads : PromoteScheduled(p)
  BY DEF AdminPromote
<1>2. QInv' /\ KeepsRing /\ KeepsWaiting
  BY <1>1, PromoteScheduledLemma DEF IInv
<1>3. UNCHANGED <<processing, pc, hold, sent, owed, faults>>
  BY <1>1 DEF AdminPromote, PromoteScheduled, poolVars
<1>4. PoolTypeOK'
  BY <1>3 DEF IInv, PoolTypeOK
<1> QED BY <1>2, <1>3, <1>4, QuietInv

LEMMA AdminDrainInv == ASSUME IInv, AdminDrain PROVE IInv' /\ ring' = ring
<1>1. QInv' /\ ring' = ring /\ KeepsWaiting
  BY DrainDeadLemma DEF IInv, AdminDrain
<1>2. UNCHANGED <<processing, pc, hold, sent, owed, faults>>
  BY DEF AdminDrain, DrainDead, poolVars
<1>3. PoolTypeOK'
  BY <1>2 DEF IInv, PoolTypeOK
<1> QED BY <1>1, <1>2, <1>3, QuietInv

LEMMA TimeReachesInv ==
  ASSUME IInv, NEW p \in Payloads, TimeReaches(p) PROVE IInv' /\ ring' = ring
<1>1. QInv' /\ ring' = ring /\ KeepsWaiting
  BY BecomeDueLemma DEF IInv, TimeReaches
<1>2. UNCHANGED <<processing, pc, hold, sent, owed, faults>>
  BY DEF TimeReaches, BecomeDue, poolVars
<1>3. PoolTypeOK'
  BY <1>2 DEF IInv, PoolTypeOK
<1> QED BY <1>1, <1>2, <1>3, QuietInv

LEMMA ExpiryInv ==
  ASSUME IInv, (\E t \in Tokens : OrphanExpires(t)) \/ LeaseOverrun
  PROVE  IInv' /\ ring' = ring /\ processing' = processing
<1>1. PICK m \in processing : LeaseExpires(m)
  BY DEF OrphanExpires, LeaseOverrun
<1>2. QInv' /\ ring' = ring /\ KeepsWaiting
  BY <1>1, LeaseExpiresLemma DEF IInv
<1>3. UNCHANGED <<processing, pc, hold, sent, owed>>
  BY <1>1 DEF OrphanExpires, LeaseOverrun, LeaseExpires, poolVars
<1>4. PoolTypeOK'
  BY <1>3, BoundsAssumption DEF IInv, PoolTypeOK, OrphanExpires, LeaseOverrun, Fault, poolVars
<1> QED BY <1>2, <1>3, <1>4, QuietInv

-----------------------------------------------------------------------------
\* Every step keeps the invariant.
LEMMA NextInv == IInv /\ [Next]_vars => IInv'
<1> SUFFICES ASSUME IInv, [Next]_vars PROVE IInv'
  OBVIOUS
<1>1. ASSUME NEW e \in Events, Produce(e) PROVE IInv'
  BY <1>1, ProduceInv
<1>2. ASSUME NEW w \in Workers, Consume(w) \/ PickReplyLost(w) \/ Abandon(w) PROVE IInv'
  BY <1>2, PickInv, PickReplyLostInv, PickNothingInv, WaitNotifyInv, WaitTimeoutInv,
     FinishInv, RetryInv, DeferInv, AckScheduledInv, GiveUpInv, AbandonInv DEF Consume
<1>3. CASE Mover
  BY <1>3, MoverInv
<1>4. CASE Recoverer
  BY <1>4, RecovererInv
<1>5. CASE LeaseOverrun \/ \E t \in Tokens : OrphanExpires(t)
  BY <1>5, ExpiryInv
<1>6. CASE AdminRequeueDead
  BY <1>6, AdminRequeueDeadInv
<1>7. CASE AdminPromote
  BY <1>7, AdminPromoteInv
<1>8. CASE AdminDrain
  BY <1>8, AdminDrainInv
<1>9. ASSUME NEW p \in Payloads, TimeReaches(p) PROVE IInv'
  BY <1>9, TimeReachesInv
<1>10. CASE UNCHANGED vars
  BY <1>10 DEF IInv, QInv, QueueTypeOK, RingMatchesPending, PoolTypeOK, TokensDistinct,
     NothingLost, Secure, Waiting, vars, queueVars, poolVars
<1> QED BY <1>1, <1>2, <1>3, <1>4, <1>5, <1>6, <1>7, <1>8, <1>9, <1>10 DEF Next

LEMMA AlwaysInv == Spec => []IInv
BY InitInv, NextInv, PTL DEF Spec

(* The pool's state keeps its type, whatever the constants. *)
THEOREM PoolTypeCorrect == Spec => []TypeOK
<1>1. IInv => TypeOK
  BY TypeOKSplit DEF IInv, QInv
<1> QED BY <1>1, AlwaysInv, PTL

(* The scripts of dqueue.go keep ring and lists in step: every org with      *)
(* pending payloads is in the ring exactly once and no other org is.         *)
THEOREM RingCorrect == Spec => []RingMatchesPending
<1>1. IInv => RingMatchesPending
  BY DEF IInv, QInv
<1> QED BY <1>1, AlwaysInv, PTL

(* At-least-once: an enqueued event no handler has settled is never lost, by *)
(* any interleaving of crashes, lost replies, lease overruns and retries.    *)
THEOREM AtLeastOnce == Spec => []NothingLost
<1>1. IInv => NothingLost
  BY DEF IInv
<1> QED BY <1>1, AlwaysInv, PTL

(* Fencing: a lease disappears only expired or by its own holder's hand.     *)
THEOREM LeasesFenced == Spec => FencedLeases
<1> DEFINE Fenced == \A m \in processing \ processing' :
                        \/ m \in expired
                        \/ \E w \in Workers : hold[w] = m /\ hold'[w] = NoMember
<1>1. IInv /\ [Next]_vars => [Fenced]_vars
  <2> SUFFICES ASSUME IInv, Next PROVE Fenced
    OBVIOUS
  <2>1. ASSUME NEW w \in Workers, Finish(w) \/ AckScheduled(w) \/ GiveUp(w) PROVE Fenced
    <3>1. processing' = processing \ {hold[w]}
      BY <2>1 DEF Finish, AckScheduled, GiveUp, Ack, DeadLetter
    <3>2. hold'[w] = NoMember
      BY <2>1 DEF Finish, AckScheduled, GiveUp, Release, IInv, PoolTypeOK
    <3> QED BY <3>1, <3>2
  <2>2. ASSUME NEW w \in Workers, Pick(w) \/ PickReplyLost(w) PROVE Fenced
    BY <2>2 DEF Pick, PickReplyLost, FairPick
  <2>3. ASSUME NEW w \in Workers,
               \/ PickNothing(w) \/ WaitNotify(w) \/ WaitTimeout(w)
               \/ Retry(w) \/ Defer(w) \/ Abandon(w)
        PROVE  Fenced
    <3>1. processing' = processing
      BY <2>3 DEF PickNothing, FairPickEmpty, WaitNotify, TakeNotify, WaitTimeout, Retry,
         Defer, Schedule, Abandon, queueVars
    <3> QED BY <3>1
  <2>4. CASE Recoverer
    BY <2>4 DEF Recoverer, Recover
  <2>5. ASSUME \/ \E e \in Events : Produce(e)
               \/ Mover \/ LeaseOverrun \/ AdminRequeueDead \/ AdminPromote \/ AdminDrain
               \/ \E p \in Payloads : TimeReaches(p)
               \/ \E t \in Tokens : OrphanExpires(t)
        PROVE  Fenced
    <3>1. processing' = processing
      BY <2>5 DEF Produce, Enqueue, Mover, PromoteDue, LeaseOverrun, LeaseExpires,
         AdminRequeueDead, RequeueDead, AdminPromote, PromoteScheduled, AdminDrain,
         DrainDead, TimeReaches, BecomeDue, OrphanExpires
    <3> QED BY <3>1
  <2> HIDE DEF Fenced
  <2> QED BY <2>1, <2>2, <2>3, <2>4, <2>5 DEF Next, Consume
<1> QED BY <1>1, AlwaysInv, PTL DEF Spec, FencedLeases

(* A token names one lease, whatever was recovered and picked again.         *)
THEOREM TokensUnique == Spec => []TokensDistinct
<1>1. IInv => TokensDistinct
  BY DEF IInv
<1> QED BY <1>1, AlwaysInv, PTL

(* Fairness of the ring: a waiting org is never overtaken, and every pick    *)
(* brings it one place closer.                                               *)
THEOREM RingIsRoundRobin == Spec => RoundRobin
<1> DEFINE Forward == \A i \in DOMAIN ring :
                         \/ i = 1
                         \/ \E j \in DOMAIN ring' :
                               /\ ring'[j] = ring[i]
                               /\ j <= i
                               /\ processing' \subseteq processing \/ j < i
<1>1. IInv /\ [Next]_vars => [Forward]_vars
  <2> SUFFICES ASSUME IInv, Next PROVE Forward
    OBVIOUS
  <2>0. ring \in Seq(Orgs) /\ ring' \in Seq(Orgs)
    BY NextInv DEF IInv, QInv, QueueTypeOK
  <2>1. ASSUME ring' = ring \/ KeepsRing, processing' \subseteq processing PROVE Forward
    <3> SUFFICES ASSUME NEW i \in DOMAIN ring
                 PROVE  \E j \in DOMAIN ring' : ring'[j] = ring[i] /\ j <= i
      BY <2>1
    <3>1. i \in DOMAIN ring' /\ ring'[i] = ring[i] /\ i <= i
      BY <2>0, <2>1 DEF KeepsRing
    <3> QED BY <3>1
  <2>3. CASE \A i \in DOMAIN ring : i = 1 \/ (i - 1 \in DOMAIN ring' /\ ring'[i - 1] = ring[i])
    <3> SUFFICES ASSUME NEW i \in DOMAIN ring, i # 1
                 PROVE  \E j \in DOMAIN ring' : ring'[j] = ring[i] /\ j <= i /\ j < i
      OBVIOUS
    <3>1. i - 1 \in DOMAIN ring' /\ ring'[i - 1] = ring[i] /\ i - 1 <= i /\ i - 1 < i
      BY <2>0, <2>3
    <3> QED BY <3>1
  <2> HIDE DEF Forward
  <2>4. ASSUME NEW e \in Events, Produce(e) PROVE Forward
    <3>1. processing' \subseteq processing
      BY <2>4 DEF Produce, Enqueue
    <3> QED BY <2>1, <2>4, <3>1, ProduceInv
  <2>5. ASSUME NEW w \in Workers, Pick(w) \/ PickReplyLost(w) PROVE Forward
    BY <2>3, <2>5, PickInv, PickReplyLostInv
  <2>6. ASSUME NEW w \in Workers,
               \/ PickNothing(w) \/ WaitNotify(w) \/ WaitTimeout(w) \/ Finish(w) \/ Retry(w)
               \/ Defer(w) \/ AckScheduled(w) \/ GiveUp(w) \/ Abandon(w)
        PROVE  Forward
    <3>1. processing' \subseteq processing
      BY <2>6 DEF PickNothing, FairPickEmpty, WaitNotify, TakeNotify, WaitTimeout, Finish,
         Retry, Defer, AckScheduled, GiveUp, Ack, DeadLetter, Schedule, Abandon, queueVars
    <3>2. ring' = ring
      BY <2>6, PickNothingInv, WaitNotifyInv, WaitTimeoutInv, FinishInv, RetryInv,
         DeferInv, AckScheduledInv, GiveUpInv, AbandonInv
    <3> QED BY <2>1, <3>1, <3>2
  <2>7. CASE Mover \/ AdminRequeueDead \/ AdminPromote
    <3>1. processing' \subseteq processing
      BY <2>7 DEF Mover, PromoteDue, AdminRequeueDead, RequeueDead, AdminPromote,
         PromoteScheduled
    <3> QED BY <2>1, <2>7, <3>1, MoverInv, AdminRequeueDeadInv, AdminPromoteInv
  <2>8. CASE Recoverer \/ AdminDrain \/ LeaseOverrun \/ \E t \in Tokens : OrphanExpires(t)
    <3>1. processing' \subseteq processing
      BY <2>8 DEF Recoverer, Recover, AdminDrain, DrainDead, LeaseOverrun, OrphanExpires,
         LeaseExpires
    <3> QED BY <2>1, <2>8, <3>1, RecovererInv, AdminDrainInv, ExpiryInv
  <2>9. ASSUME NEW p \in Payloads, TimeReaches(p) PROVE Forward
    <3>1. processing' \subseteq processing
      BY <2>9 DEF TimeReaches, BecomeDue
    <3> QED BY <2>1, <2>9, <3>1, TimeReachesInv
  <2> QED BY <2>4, <2>5, <2>6, <2>7, <2>8, <2>9 DEF Next, Consume
<1> QED BY <1>1, AlwaysInv, PTL DEF Spec, RoundRobin

-----------------------------------------------------------------------------
(* Wake-ups. *)

\* Every script that pushes leaves a wake-up on the notify list.
LEMMA InjectNotifies ==
  ASSUME QInv, NEW s \in Seq(Payloads), s # <<>>, Inject(s) PROVE notify' > 0
<1>1. Len(s) \in Nat \ {0} /\ notify \in 0..NotifyCap
  BY DEF QInv, QueueTypeOK
<1> QED BY <1>1, CapAssumption DEF Inject

\* The batch of PromoteDue is a sequence of distinct payloads.
LEMMA BatchType ==
  ASSUME QInv, NEW s \in Batches
  PROVE  /\ s \in Seq(Payloads)
         /\ \A i \in DOMAIN s : s[i] \in due
         /\ \A i, j \in DOMAIN s : i # j => s[i] # s[j]
<1>1. PICK n \in 0..PromoteLimit : s \in [1..n -> due]
  BY DEF Batches
<1>2. n \in Nat /\ due \subseteq Payloads
  BY LimitAssumption DEF QInv, QueueTypeOK
<1>3. s \in [1..n -> Payloads]
  BY <1>1, <1>2
<1> QED BY <1>1, <1>2, <1>3 DEF Batches

LEMMA WakeupStep == IInv /\ NoLostWakeup /\ [Next]_vars => NoLostWakeup'
<1> SUFFICES ASSUME IInv, NoLostWakeup, [Next]_vars PROVE NoLostWakeup'
  OBVIOUS
<1>0. pc \in [Workers -> {"pick", "wait", "work", "ack"}] /\ QInv /\ notify \in Nat
  BY CapAssumption DEF IInv, PoolTypeOK, QInv, QueueTypeOK
<1>1. ASSUME NEW s \in Seq(Payloads), s # <<>>, Inject(s) PROVE NoLostWakeup'
  BY <1>0, <1>1, InjectNotifies DEF NoLostWakeup
<1>2. ASSUME NEW w \in Workers, pc'[w] # "wait" PROVE NoLostWakeup'
  BY <1>2 DEF NoLostWakeup
<1>3. ASSUME ring' = ring, notify' = notify, pc' = pc PROVE NoLostWakeup'
  BY <1>3 DEF NoLostWakeup
<1>4. ASSUME NEW e \in Events, Produce(e) PROVE NoLostWakeup'
  <2>1. PICK at \in Stamps : Inject(<<[ev |-> e, at |-> at, attempt |-> 0]>>)
    BY <1>4 DEF Produce, Enqueue
  <2> DEFINE p == [ev |-> e, at |-> at, attempt |-> 0]
  <2>2. p \in Payloads
    BY AttemptAssumption DEF Payloads
  <2> HIDE DEF p
  <2>3. <<p>> \in Seq(Payloads) /\ <<p>> # <<>>
    BY <2>2
  <2> QED BY <1>1, <2>1, <2>3 DEF p
<1>5. ASSUME NEW w \in Workers, PickNothing(w) PROVE NoLostWakeup'
  <2>1. ring' = <<>>
    BY <1>0, <1>5, FairPickEmptyLemma DEF PickNothing, queueVars
  <2> QED BY <2>1 DEF NoLostWakeup
<1>6. ASSUME NEW w \in Workers,
             \/ Pick(w) \/ PickReplyLost(w) \/ WaitNotify(w) \/ WaitTimeout(w) \/ Finish(w)
             \/ Retry(w) \/ Defer(w) \/ AckScheduled(w) \/ GiveUp(w) \/ Abandon(w)
      PROVE  NoLostWakeup'
  <2>1. pc'[w] # "wait"
    BY <1>0, <1>6 DEF Pick, PickReplyLost, WaitNotify, WaitTimeout, Finish, Retry, Defer,
       AckScheduled, GiveUp, Abandon, Release, Goto
  <2> QED BY <1>2, <2>1
<1>7. CASE Mover
  <2>1. PICK s \in Batches : s # <<>> /\ Inject(s)
    BY <1>7 DEF Mover, PromoteDue
  <2> QED BY <1>0, <1>1, <2>1, BatchType
<1>8. CASE AdminRequeueDead
  <2>1. PICK i \in DOMAIN dead, at \in Stamps : RequeueDead(i, at)
    BY <1>8 DEF AdminRequeueDead
  <2> DEFINE p == [ev |-> dead[i].ev, at |-> at, attempt |-> 0]
  <2>2. dead[i] \in Payloads
    BY <1>0 DEF QInv, QueueTypeOK
  <2>3. p \in Payloads /\ Inject(<<p>>)
    BY <2>1, <2>2, AttemptAssumption DEF Payloads, RequeueDead
  <2> HIDE DEF p
  <2>4. <<p>> \in Seq(Payloads) /\ <<p>> # <<>>
    BY <2>3
  <2> QED BY <1>1, <2>3, <2>4
<1>9. CASE AdminPromote
  <2>1. PICK p \in Payloads : Inject(<<p>>)
    BY <1>9 DEF AdminPromote, PromoteScheduled
  <2>2. <<p>> \in Seq(Payloads) /\ <<p>> # <<>>
    OBVIOUS
  <2> QED BY <1>1, <2>1, <2>2
<1>10. ASSUME \/ Recoverer \/ LeaseOverrun \/ AdminDrain
              \/ \E p \in Payloads : TimeReaches(p)
              \/ \E t \in Tokens : OrphanExpires(t)
              \/ UNCHANGED vars
       PROVE  NoLostWakeup'
  <2>1. ring' = ring /\ notify' = notify /\ pc' = pc
    BY <1>10 DEF Recoverer, Recover, LeaseOverrun, LeaseExpires, AdminDrain, DrainDead,
       TimeReaches, BecomeDue, OrphanExpires, vars, queueVars, poolVars
  <2> QED BY <1>3, <2>1
<1> QED BY <1>4, <1>5, <1>6, <1>7, <1>8, <1>9, <1>10 DEF Next, Consume

(* The notify list is capped and a wake-up may be dropped or taken by a      *)
(* consumer that then finds nothing, yet the pool never sleeps on a backlog. *)
THEOREM WakeupsSuffice == Spec => []NoLostWakeup
<1>1. Init => NoLostWakeup
  BY DEF Init, QueueInit, NoLostWakeup
<1> QED BY <1>1, WakeupStep, AlwaysInv, PTL DEF Spec

-----------------------------------------------------------------------------
(* The refinement.  CopiesWaiting counts a payload on its own org's list     *)
(* only, so that no payload is ever on another list (AtHome) is part of the  *)
(* invariant.                                                                *)

RInv == IInv /\ AtHome

AbstractStep == [Abstract!LeaseNext]_(Abstract!leaseVars)

Member(p, S) == IF p \in S THEN 1 ELSE 0

LEMMA CopiesValue ==
  /\ CopiesWaiting = [p \in Payloads |->
                         Copies(pending[OrgOf[p.ev]], p) + Member(p, later \cup due)]
  /\ CopiesWaiting' = [p \in Payloads |->
                          Copies(pending'[OrgOf[p.ev]], p) + Member(p, later' \cup due')]
BY DEF CopiesWaiting, Copies, Member

LEMMA CopiesShape ==
  /\ CopiesWaiting = [p \in Payloads |-> CopiesWaiting[p]]
  /\ CopiesWaiting' = [p \in Payloads |-> CopiesWaiting'[p]]
BY CopiesValue

LEMMA CopiesNat ==
  ASSUME QInv
  PROVE  /\ CopiesWaiting \in [Payloads -> Nat]
         /\ \A p \in Payloads : Copies(pending[OrgOf[p.ev]], p) \in Nat
         /\ \A p \in later \cup due : CopiesWaiting[p] > 0
<1>1. ASSUME NEW p \in Payloads PROVE Copies(pending[OrgOf[p.ev]], p) \in Nat
  <2>1. pending[OrgOf[p.ev]] \in Seq(Payloads)
    BY OrgOfAssumption DEF Payloads, QInv, QueueTypeOK
  <2> QED BY <2>1, CopiesFinite
<1>2. later \cup due \subseteq Payloads
  BY DEF QInv, QueueTypeOK
<1> QED BY <1>1, <1>2, CopiesValue DEF Member

\* Steps that leave copies and leases alone.
LEMMA AbstractStutter ==
  ASSUME \A p \in Payloads : CopiesWaiting'[p] = CopiesWaiting[p],
         UNCHANGED <<processing, expired>>
  PROVE  AbstractStep
<1>1. CopiesWaiting' = CopiesWaiting
  BY CopiesValue
<1> QED BY <1>1 DEF AbstractStep, Abstract!leaseVars

\* Steps that add one copy.
LEMMA AbstractPut ==
  ASSUME QInv, NEW p \in Payloads,
         \A x \in Payloads : CopiesWaiting'[x] = CopiesWaiting[x] + One(p, x),
         UNCHANGED <<processing, expired>>
  PROVE  AbstractStep
<1>1. CopiesWaiting' = [CopiesWaiting EXCEPT ![p] = @ + 1]
  <2>1. CopiesWaiting \in [Payloads -> Nat]
    BY CopiesNat
  <2>2. \A x \in Payloads : CopiesWaiting'[x] = [CopiesWaiting EXCEPT ![p] = @ + 1][x]
    BY <2>1 DEF One
  <2> QED BY <2>1, <2>2, CopiesShape
<1>2. Abstract!Put(p)
  BY <1>1 DEF Abstract!Put
<1> QED BY <1>2 DEF AbstractStep, Abstract!LeaseNext

\* A push of distinct payloads that were not scheduled, or that leave the
\* scheduled set with the push.
LEMMA PushedCopies ==
  ASSUME RInv, NEW s \in Seq(Payloads), Inject(s),
         \A i, j \in DOMAIN s : i # j => s[i] # s[j]
  PROVE  /\ AtHome'
         /\ \A x \in Payloads :
               CopiesWaiting'[x] = CopiesWaiting[x]
                                    + (IF \E k \in DOMAIN s : s[k] = x THEN 1 ELSE 0)
                                    + Member(x, later' \cup due') - Member(x, later \cup due)
<1>1. QInv /\ AtHome
  BY DEF RInv, IInv
<1>2. /\ AtHome'
      /\ \A x \in Payloads :
            Copies(pending'[OrgOf[x.ev]], x) =
               Copies(pending[OrgOf[x.ev]], x) + IF \E k \in DOMAIN s : s[k] = x THEN 1 ELSE 0
  BY <1>1, InjectCounts
<1> QED BY <1>1, <1>2, CopiesValue, CopiesNat DEF Member

LEMMA EnqueueRefines ==
  ASSUME RInv, NEW p \in Payloads, Inject(<<p>>),
         UNCHANGED <<processing, expired, later, due>>
  PROVE  AbstractStep /\ AtHome'
<1>1. <<p>> \in Seq(Payloads) /\ DOMAIN <<p>> = 1..1 /\ <<p>>[1] = p
  OBVIOUS
<1>2. QInv /\ CopiesWaiting \in [Payloads -> Nat]
  BY CopiesNat DEF RInv, IInv
<1>3. /\ AtHome'
      /\ \A x \in Payloads :
            CopiesWaiting'[x] = CopiesWaiting[x]
                                 + (IF \E k \in DOMAIN <<p>> : <<p>>[k] = x THEN 1 ELSE 0)
                                 + Member(x, later' \cup due') - Member(x, later \cup due)
  <2> DEFINE s == <<p>>
  <2>1. s \in Seq(Payloads) /\ Inject(s) /\ \A i, j \in DOMAIN s : i # j => s[i] # s[j]
    BY <1>1
  <2> HIDE DEF s
  <2>2. /\ AtHome'
        /\ \A x \in Payloads :
              CopiesWaiting'[x] = CopiesWaiting[x]
                                   + (IF \E k \in DOMAIN s : s[k] = x THEN 1 ELSE 0)
                                   + Member(x, later' \cup due') - Member(x, later \cup due)
    BY <2>1, PushedCopies
  <2> QED BY <2>2 DEF s
<1>4. \A x \in Payloads : CopiesWaiting'[x] = CopiesWaiting[x] + One(p, x)
  BY <1>1, <1>2, <1>3 DEF One, Member
<1> QED BY <1>2, <1>3, <1>4, AbstractPut

LEMMA PromoteDueRefines == ASSUME RInv, PromoteDue PROVE AbstractStep /\ AtHome'
<1>1. PICK s \in Batches : /\ due' = due \ {s[i] : i \in DOMAIN s}
                           /\ Inject(s)
                           /\ UNCHANGED <<processing, expired, later, dead>>
  BY DEF PromoteDue
<1>2. QInv /\ CopiesWaiting \in [Payloads -> Nat] /\ later \cap due = {}
  BY CopiesNat DEF RInv, IInv, QInv, QueueTypeOK
<1>3. /\ s \in Seq(Payloads)
      /\ \A i \in DOMAIN s : s[i] \in due
      /\ \A i, j \in DOMAIN s : i # j => s[i] # s[j]
  BY <1>2, BatchType
<1>4. /\ AtHome'
      /\ \A x \in Payloads :
            CopiesWaiting'[x] = CopiesWaiting[x]
                                 + (IF \E k \in DOMAIN s : s[k] = x THEN 1 ELSE 0)
                                 + Member(x, later' \cup due') - Member(x, later \cup due)
  BY <1>1, <1>3, PushedCopies
<1>5. ASSUME NEW x \in Payloads PROVE CopiesWaiting'[x] = CopiesWaiting[x]
  <2>1. CASE \E k \in DOMAIN s : s[k] = x
    <3>1. x \in later \cup due /\ x \notin later' \cup due'
      BY <1>1, <1>2, <1>3, <2>1
    <3> QED BY <1>2, <1>4, <2>1, <3>1 DEF Member
  <2>2. CASE ~\E k \in DOMAIN s : s[k] = x
    <3>1. x \in later \cup due <=> x \in later' \cup due'
      BY <1>1, <2>2
    <3> QED BY <1>2, <1>4, <2>2, <3>1 DEF Member
  <2> QED BY <2>1, <2>2
<1> QED BY <1>1, <1>4, <1>5, AbstractStutter

LEMMA PromoteScheduledRefines ==
  ASSUME RInv, NEW p \in Payloads, PromoteScheduled(p) PROVE AbstractStep /\ AtHome'
<1>1. <<p>> \in Seq(Payloads) /\ DOMAIN <<p>> = 1..1 /\ <<p>>[1] = p
  OBVIOUS
<1>2. QInv /\ CopiesWaiting \in [Payloads -> Nat]
  BY CopiesNat DEF RInv, IInv
<1>3. /\ AtHome'
      /\ \A x \in Payloads :
            CopiesWaiting'[x] = CopiesWaiting[x]
                                 + (IF \E k \in DOMAIN <<p>> : <<p>>[k] = x THEN 1 ELSE 0)
                                 + Member(x, later' \cup due') - Member(x, later \cup due)
  <2> DEFINE s == <<p>>
  <2>1. s \in Seq(Payloads) /\ Inject(s) /\ \A i, j \in DOMAIN s : i # j => s[i] # s[j]
    BY <1>1 DEF PromoteScheduled
  <2> HIDE DEF s
  <2>2. /\ AtHome'
        /\ \A x \in Payloads :
              CopiesWaiting'[x] = CopiesWaiting[x]
                                   + (IF \E k \in DOMAIN s : s[k] = x THEN 1 ELSE 0)
                                   + Member(x, later' \cup due') - Member(x, later \cup due)
    BY <2>1, PushedCopies
  <2> QED BY <2>2 DEF s
<1>4. ASSUME NEW x \in Payloads PROVE CopiesWaiting'[x] = CopiesWaiting[x]
  <2>1. x \in later' \cup due' <=> x \in later \cup due /\ x # p
    BY DEF PromoteScheduled
  <2>2. p \in later \cup due
    BY DEF PromoteScheduled
  <2> QED BY <1>1, <1>2, <1>3, <2>1, <2>2 DEF Member
<1>5. UNCHANGED <<processing, expired>>
  BY DEF PromoteScheduled
<1> QED BY <1>3, <1>4, <1>5, AbstractStutter

\* ZADD of a new member is a put, of one already scheduled it is no step.
LEMMA ScheduleRefines ==
  ASSUME RInv, NEW p \in Payloads, Schedule(p) PROVE AbstractStep /\ AtHome'
<1>1. QInv /\ \A x \in Payloads : Copies(pending[OrgOf[x.ev]], x) \in Nat
  BY CopiesNat DEF RInv, IInv
<1>2. UNCHANGED <<pending, processing, expired>> /\ later' \cup due' = later \cup due \cup {p}
  BY DEF Schedule
<1>3. AtHome'
  BY <1>2 DEF RInv, AtHome
<1>4. CASE p \in later \cup due
  <2>1. later' \cup due' = later \cup due
    BY <1>2, <1>4
  <2>2. \A x \in Payloads : CopiesWaiting'[x] = CopiesWaiting[x]
    BY <1>2, <2>1, CopiesValue
  <2> QED BY <1>2, <1>3, <2>2, AbstractStutter
<1>5. CASE p \notin later \cup due
  <2>1. \A x \in Payloads : Member(x, later' \cup due') = Member(x, later \cup due) + One(p, x)
    BY <1>2, <1>5 DEF Member, One
  <2>2. \A x \in Payloads : /\ Member(x, later \cup due) \in Nat /\ One(p, x) \in Nat
    BY DEF Member, One
  <2>3. \A x \in Payloads : CopiesWaiting'[x] = CopiesWaiting[x] + One(p, x)
    <3> SUFFICES ASSUME NEW x \in Payloads
                 PROVE  CopiesWaiting'[x] = CopiesWaiting[x] + One(p, x)
      OBVIOUS
    <3>1. /\ CopiesWaiting[x] = Copies(pending[OrgOf[x.ev]], x) + Member(x, later \cup due)
          /\ CopiesWaiting'[x] = Copies(pending'[OrgOf[x.ev]], x) + Member(x, later' \cup due')
      BY CopiesValue
    <3> HIDE DEF Copies, Member, One
    <3>2. /\ Copies(pending'[OrgOf[x.ev]], x) = Copies(pending[OrgOf[x.ev]], x)
          /\ Copies(pending[OrgOf[x.ev]], x) \in Nat
      BY <1>1, <1>2
    <3>3. Member(x, later' \cup due') = Member(x, later \cup due) + One(p, x)
      BY <2>1
    <3>4. Member(x, later \cup due) \in Nat /\ One(p, x) \in Nat
      BY <2>2
    <3> QED BY <3>1, <3>2, <3>3, <3>4
  <2> QED BY <1>1, <1>2, <1>3, <2>3, AbstractPut
<1> QED BY <1>4, <1>5

LEMMA FairPickRefines ==
  ASSUME RInv, NEW tok \in Fresh, FairPick(tok) PROVE AbstractStep /\ AtHome'
<1> DEFINE o == Head(ring)
           p == Head(pending[o])
<1>1. QInv /\ AtHome /\ CopiesWaiting \in [Payloads -> Nat]
      /\ \A x \in Payloads : Copies(pending[OrgOf[x.ev]], x) \in Nat
  BY CopiesNat DEF RInv, IInv
<1>2. /\ ring \in Seq(Orgs) /\ ring # <<>> /\ o \in Orgs
      /\ pending \in [Orgs -> Seq(Payloads)] /\ pending[o] \in Seq(Payloads)
      /\ pending[o] # <<>>
  <2>1. /\ ring \in Seq(Orgs) /\ ring # <<>> /\ pending \in [Orgs -> Seq(Payloads)]
        /\ pending[o] # <<>>
    BY <1>1 DEF FairPick, QInv, QueueTypeOK
  <2>2. o \in Orgs
    BY <2>1
  <2> HIDE DEF o
  <2> QED BY <2>1, <2>2
<1>3. /\ pending' = [pending EXCEPT ![o] = Tail(@)]
      /\ processing' = processing \cup {[tok |-> tok, evt |-> p]}
      /\ UNCHANGED <<expired, later, due>>
  BY DEF FairPick
<1>4. p = pending[o][1] /\ 1 \in DOMAIN pending[o] /\ p \in Payloads
  BY <1>2
<1> HIDE DEF o, p
<1>5. OrgOf[p.ev] = o
  BY <1>1, <1>2, <1>4 DEF AtHome
<1>6. AtHome'
  <2> SUFFICES ASSUME NEW y \in Orgs, NEW i \in DOMAIN pending'[y]
               PROVE  OrgOf[pending'[y][i].ev] = y
    BY DEF AtHome
  <2>1. CASE y # o
    BY <1>1, <1>2, <1>3, <2>1 DEF AtHome
  <2>2. CASE y = o
    <3>1. pending'[o] = Tail(pending[o])
      BY <1>2, <1>3
    <3>2. i + 1 \in DOMAIN pending[o] /\ pending'[o][i] = pending[o][i + 1]
      BY <1>2, <2>2, <3>1
    <3> QED BY <1>1, <1>2, <2>2, <3>2 DEF AtHome
  <2> QED BY <2>1, <2>2
<1>7. ASSUME NEW x \in Payloads PROVE CopiesWaiting'[x] = CopiesWaiting[x] - One(p, x)
  <2>1. OrgOf[x.ev] \in Orgs
    BY OrgOfAssumption DEF Payloads
  <2>2. Copies(pending'[OrgOf[x.ev]], x) = Copies(pending[OrgOf[x.ev]], x) - One(p, x)
    <3>1. CASE OrgOf[x.ev] = o
      <4>1. pending'[o] = Tail(pending[o])
        BY <1>2, <1>3
      <4>2. Copies(Tail(pending[o]), x) = Copies(pending[o], x) - One(p, x)
        BY <1>2, CopiesTail DEF p
      <4> QED BY <3>1, <4>1, <4>2
    <3>2. CASE OrgOf[x.ev] # o
      <4>1. pending'[OrgOf[x.ev]] = pending[OrgOf[x.ev]] /\ x # p
        BY <1>2, <1>3, <1>5, <2>1, <3>2
      <4> QED BY <1>1, <4>1 DEF One
    <3> QED BY <3>1, <3>2
  <2>3. later' \cup due' = later \cup due
    BY <1>3
  <2> QED BY <1>1, <2>2, <2>3, CopiesValue DEF One, Member
<1>8. CopiesWaiting[p] > 0
  <2>1. Copies(pending[o], p) > 0
    BY <1>2, <1>4, CopiesFinite
  <2> QED BY <1>1, <1>4, <1>5, <2>1, CopiesValue DEF Member
<1>9. CopiesWaiting' = [CopiesWaiting EXCEPT ![p] = @ - 1]
  <2>1. \A x \in Payloads : CopiesWaiting'[x] = [CopiesWaiting EXCEPT ![p] = @ - 1][x]
    BY <1>1, <1>4, <1>7 DEF One
  <2> QED BY <1>1, <2>1, CopiesShape
<1>10. tok \in Tokens /\ \A m \in processing : m.tok # tok
  BY DEF Fresh
<1>11. Abstract!Take(tok, p)
  BY <1>3, <1>8, <1>9, <1>10 DEF Abstract!Take
<1> QED BY <1>4, <1>6, <1>10, <1>11 DEF AbstractStep, Abstract!LeaseNext

\* An Ack removes the lease it names, or finds it gone.
LEMMA SettleRefines ==
  ASSUME RInv, NEW m, processing' = processing \ {m}, expired' = expired \ {m},
         UNCHANGED <<pending, later, due>>
  PROVE  AbstractStep /\ AtHome'
<1>1. CopiesWaiting' = CopiesWaiting
  BY CopiesValue
<1>2. AtHome'
  BY DEF RInv, AtHome
<1>3. expired \subseteq processing
  BY DEF RInv, IInv, QInv, QueueTypeOK
<1>4. CASE m \in processing
  <2>1. Abstract!Remove(m)
    BY <1>1 DEF Abstract!Remove
  <2> QED BY <1>2, <1>4, <2>1 DEF AbstractStep, Abstract!LeaseNext
<1>5. CASE m \notin processing
  <2>1. UNCHANGED <<processing, expired>>
    BY <1>3, <1>5
  <2> QED BY <1>1, <1>2, <2>1, AbstractStutter
<1> QED BY <1>4, <1>5

\* Two leases of one payload, and a lease of a payload already scheduled, become
\* one scheduled member: the copies that Reclaim merges.
LEMMA RecoverRefines == ASSUME RInv, Recover PROVE AbstractStep /\ AtHome'
<1> DEFINE back == {m.evt : m \in expired}
           merged == back \cap (later \cup due)
<1>1. /\ expired # {} /\ processing' = processing \ expired /\ expired' = {}
      /\ due' = due \cup back /\ later' = later \ back
      /\ pending' = pending
  BY DEF Recover
<1>2. QInv /\ CopiesWaiting \in [Payloads -> Nat]
      /\ (\A x \in Payloads : Copies(pending[OrgOf[x.ev]], x) \in Nat)
      /\ \A x \in later \cup due : CopiesWaiting[x] > 0
  BY CopiesNat DEF RInv, IInv
<1>3. back \subseteq Payloads
  BY <1>2 DEF QInv, QueueTypeOK, Members
<1>4. AtHome'
  BY <1>1 DEF RInv, AtHome
<1>5. merged \in SUBSET {x \in back : CopiesWaiting[x] > 0}
  BY <1>2
<1> HIDE DEF back
<1>6. later' \cup due' = later \cup due \cup back
  BY <1>1
<1>7. ASSUME NEW x \in Payloads
      PROVE  CopiesWaiting'[x] = IF x \in back \ merged THEN CopiesWaiting[x] + 1
                                                        ELSE CopiesWaiting[x]
  <2>1. CASE x \in back \ merged
    BY <1>1, <1>2, <1>6, <2>1, CopiesValue DEF Member
  <2>2. CASE x \notin back \ merged
    BY <1>1, <1>2, <1>6, <2>2, CopiesValue DEF Member
  <2> QED BY <2>1, <2>2
<1> HIDE DEF merged
<1>8. CopiesWaiting' = [x \in Payloads |-> IF x \in back \ merged THEN CopiesWaiting[x] + 1
                                                                 ELSE CopiesWaiting[x]]
  BY <1>7, CopiesValue
<1>9. Abstract!Reclaim
  BY <1>1, <1>5, <1>8 DEF Abstract!Reclaim, back
<1> QED BY <1>4, <1>9 DEF AbstractStep, Abstract!LeaseNext

LEMMA ExpiryRefines ==
  ASSUME RInv, NEW m \in processing, LeaseExpires(m) PROVE AbstractStep /\ AtHome'
<1>1. CopiesWaiting' = CopiesWaiting /\ AtHome'
  BY CopiesValue DEF LeaseExpires, RInv, AtHome
<1>2. Abstract!Lapse(m)
  BY <1>1 DEF LeaseExpires, Abstract!Lapse
<1> QED BY <1>1, <1>2 DEF AbstractStep, Abstract!LeaseNext

\* What moves between lists, ring, dead list and notify list only.
LEMMA QuietRefines ==
  ASSUME RInv, UNCHANGED <<pending, processing, expired>>,
         later' \cup due' = later \cup due
  PROVE  AbstractStep /\ AtHome'
<1>1. \A x \in Payloads : CopiesWaiting'[x] = CopiesWaiting[x]
  BY CopiesValue
<1>2. AtHome'
  BY DEF RInv, AtHome
<1> QED BY <1>1, <1>2, AbstractStutter

LEMMA RefinementStep == RInv /\ [Next]_vars => AbstractStep /\ AtHome'
<1> SUFFICES ASSUME RInv, [Next]_vars PROVE AbstractStep /\ AtHome'
  OBVIOUS
<1>0. QInv /\ hold \in [Workers -> Members \cup {NoMember}]
      /\ \A w \in Workers : pc[w] \in {"work", "ack"} => hold[w] \in Members
  BY DEF RInv, IInv, PoolTypeOK
<1>1. ASSUME NEW e \in Events, Produce(e) PROVE AbstractStep /\ AtHome'
  <2>1. PICK at \in Stamps : Enqueue([ev |-> e, at |-> at, attempt |-> 0])
    BY <1>1 DEF Produce
  <2> DEFINE p == [ev |-> e, at |-> at, attempt |-> 0]
  <2>2. p \in Payloads
    BY AttemptAssumption DEF Payloads
  <2> HIDE DEF p
  <2>3. Inject(<<p>>) /\ UNCHANGED <<processing, expired, later, due>>
    BY <2>1 DEF Enqueue, p
  <2> QED BY <2>2, <2>3, EnqueueRefines
<1>2. ASSUME NEW w \in Workers, Pick(w) \/ PickReplyLost(w) PROVE AbstractStep /\ AtHome'
  <2>1. PICK tok \in Fresh : FairPick(tok)
    BY <1>2 DEF Pick, PickReplyLost
  <2> QED BY <2>1, FairPickRefines
<1>3. ASSUME NEW w \in Workers, PickNothing(w) \/ WaitNotify(w) \/ WaitTimeout(w) \/ Abandon(w)
      PROVE  AbstractStep /\ AtHome'
  <2>1. UNCHANGED <<pending, processing, expired, later, due>>
    BY <1>3 DEF PickNothing, FairPickEmpty, WaitNotify, TakeNotify, WaitTimeout, Abandon,
       queueVars
  <2> QED BY <2>1, QuietRefines
<1>4. ASSUME NEW w \in Workers, Finish(w) \/ AckScheduled(w) \/ GiveUp(w)
      PROVE  AbstractStep /\ AtHome'
  <2>1. /\ processing' = processing \ {hold[w]} /\ expired' = expired \ {hold[w]}
        /\ UNCHANGED <<pending, later, due>>
    BY <1>4 DEF Finish, AckScheduled, GiveUp, Ack, DeadLetter
  <2> QED BY <2>1, SettleRefines
<1>5. ASSUME NEW w \in Workers, Retry(w) PROVE AbstractStep /\ AtHome'
  <2> DEFINE p == [hold[w].evt EXCEPT !.attempt = @ + 1]
  <2>1. hold[w].evt \in Payloads
    BY <1>0, <1>5 DEF Retry, Members
  <2>2. p \in Payloads /\ Schedule(p)
    BY <1>5, <2>1, AttemptAssumption DEF Retry, Payloads
  <2> HIDE DEF p
  <2> QED BY <2>2, ScheduleRefines
<1>6. ASSUME NEW w \in Workers, Defer(w) PROVE AbstractStep /\ AtHome'
  <2>1. PICK at \in Stamps : Schedule([hold[w].evt EXCEPT !.at = at])
    BY <1>6 DEF Defer
  <2> DEFINE p == [hold[w].evt EXCEPT !.at = at]
  <2>2. hold[w].evt \in Payloads
    BY <1>0, <1>6 DEF Defer, Members
  <2>3. p \in Payloads /\ Schedule(p)
    BY <2>1, <2>2 DEF Payloads
  <2> HIDE DEF p
  <2> QED BY <2>3, ScheduleRefines
<1>7. CASE Mover
  BY <1>7, PromoteDueRefines DEF Mover
<1>8. CASE Recoverer
  BY <1>8, RecoverRefines DEF Recoverer
<1>9. CASE LeaseOverrun \/ \E t \in Tokens : OrphanExpires(t)
  <2>1. PICK m \in processing : LeaseExpires(m)
    BY <1>9 DEF LeaseOverrun, OrphanExpires
  <2> QED BY <2>1, ExpiryRefines
<1>10. CASE AdminRequeueDead
  <2>1. PICK i \in DOMAIN dead, at \in Stamps : RequeueDead(i, at)
    BY <1>10 DEF AdminRequeueDead
  <2> DEFINE p == [ev |-> dead[i].ev, at |-> at, attempt |-> 0]
  <2>2. dead[i] \in Payloads
    BY <1>0 DEF QInv, QueueTypeOK
  <2>3. p \in Payloads /\ Inject(<<p>>) /\ UNCHANGED <<processing, expired, later, due>>
    BY <2>1, <2>2, AttemptAssumption DEF Payloads, RequeueDead
  <2> HIDE DEF p
  <2> QED BY <2>3, EnqueueRefines
<1>11. CASE AdminPromote
  BY <1>11, PromoteScheduledRefines DEF AdminPromote
<1>12. CASE AdminDrain
  <2>1. UNCHANGED <<pending, processing, expired, later, due>>
    BY <1>12 DEF AdminDrain, DrainDead
  <2> QED BY <2>1, QuietRefines
<1>13. ASSUME NEW p \in Payloads, TimeReaches(p) PROVE AbstractStep /\ AtHome'
  <2>1. UNCHANGED <<pending, processing, expired>> /\ later' \cup due' = later \cup due
    BY <1>13 DEF TimeReaches, BecomeDue
  <2> QED BY <2>1, QuietRefines
<1>14. CASE UNCHANGED vars
  <2>1. UNCHANGED <<pending, processing, expired, later, due>>
    BY <1>14 DEF vars, queueVars
  <2> QED BY <2>1, QuietRefines
<1> QED BY <1>1, <1>2, <1>3, <1>4, <1>5, <1>6, <1>7, <1>8, <1>9, <1>10, <1>11, <1>12,
           <1>13, <1>14 DEF Next, Consume

LEMMA RefinementInit == Init => Abstract!LeaseInit /\ AtHome
<1> SUFFICES ASSUME Init PROVE Abstract!LeaseInit /\ AtHome
  OBVIOUS
<1>1. pending = [o \in Orgs |-> <<>>] /\ later = {} /\ due = {}
  BY DEF Init, QueueInit
<1>2. ASSUME NEW p \in Payloads PROVE CopiesWaiting[p] = 0
  <2>1. OrgOf[p.ev] \in Orgs
    BY OrgOfAssumption DEF Payloads
  <2>2. {i \in DOMAIN pending[OrgOf[p.ev]] : pending[OrgOf[p.ev]][i] = p} = {}
    BY <1>1, <2>1
  <2>3. Copies(pending[OrgOf[p.ev]], p) = 0
    BY <2>2, FS_EmptySet DEF Copies
  <2> QED BY <1>1, <2>3, CopiesValue DEF Member
<1>3. CopiesWaiting = [p \in Payloads |-> 0]
  BY <1>2, CopiesValue
<1>4. AtHome
  BY <1>1 DEF AtHome
<1> QED BY <1>3, <1>4 DEF Init, QueueInit, Abstract!LeaseInit

(* The scripts implement the abstract queue: every step of the pool, the     *)
(* console and the clock puts one copy, takes one under a fresh token,       *)
(* removes or lapses one lease, gives lapsed leases back, or changes nothing *)
(* a client can see.                                                         *)
THEOREM QueueRefinement == Spec => QueueImplements
<1>1. Spec => []RInv
  <2>1. Init => RInv
    BY InitInv, RefinementInit DEF RInv
  <2>2. RInv /\ [Next]_vars => RInv'
    BY NextInv, RefinementStep DEF RInv
  <2> QED BY <2>1, <2>2, PTL DEF Spec
<1>2. Init => Abstract!LeaseInit
  BY RefinementInit
<1>3. RInv /\ [Next]_vars => [Abstract!LeaseNext]_(Abstract!leaseVars)
  BY RefinementStep DEF AbstractStep
<1> QED BY <1>1, <1>2, <1>3, PTL DEF Spec, QueueImplements, Abstract!LeaseSpec

=============================================================================
