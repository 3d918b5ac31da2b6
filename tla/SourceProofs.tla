---------------------------- MODULE SourceProofs ----------------------------
(***************************************************************************)
(* Proofs about what a source owns: its webhooks (Ingest, Sender), its     *)
(* cached configuration (SourceCache) and its tunnel (CliTunnel).  For     *)
(* every set of transmissions and connections and every bound: the type    *)
(* invariant, that no event exists without its body, that the dedup key    *)
(* lets one transmission through per key lifetime, and that a 2xx to the   *)
(* sender means the webhook was kept.  For every number of requests and    *)
(* edits: edits take effect at once unless a lookup was overtaken or an    *)
(* eviction was skipped.  For any number of events, connections and        *)
(* goroutines: registrations are kept and delivered events stay delivered. *)
(*                                                                         *)
(* DedupEffective is not inductive: it says nothing of transmissions that  *)
(* hold the key and have not inserted yet, nor of rollbacks under way.     *)
(* KeyPaysFor counts those too and balances them against the key and the   *)
(* gaps; ControlOK ties the counts to the handler's position.              *)
(*                                                                         *)
(* AcceptedNotLost is not inductive either: KeyKept says whom an existing  *)
(* key stands for while transmissions are under way.                       *)
(*                                                                         *)
(* Nor is EffectiveUnlessOvertaken.  A request is answered from the entry  *)
(* or from what its lookup has read: Fresh says that neither is older than *)
(* an answered edit, and Written that no edit and no request has a version *)
(* that the tables have not reached.  That the versions stay within their  *)
(* type needs VersionsCounted: each edit counts up one of them, once.      *)
(*                                                                         *)
(* The tunnel's properties rest on where an event is.  Copies lists the    *)
(* places that have it (queue, worker, dispatch list, dispatch loop,       *)
(* goroutine); an event that never was in the system twice is in one of    *)
(* them at most (OneCopy) and not settled while it is (Alive).  Then a     *)
(* goroutine's channel is its own (ChanOwned, Hears), and nobody writes    *)
(* the status of an event that is delivered.                               *)
(***************************************************************************)
EXTENDS Sender, SourceCache, CliTunnel, FiniteSetTheorems, SequenceTheorems, TLAPS

\* What EvictCaptureBookmarks keeps is a sequence of bookmarks.
LEMMA NewestType ==
    ASSUME NEW s \in Seq(Reqs), Len(s) > Cap
    PROVE  Newest(s) \in Seq(Reqs)
<1>1. Cap \in Nat \ {0}
  BY IngestAssumption
<1>2. Len(s) - Cap + 1 \in 1..Len(s)
  BY <1>1
<1>. QED
  BY <1>1, <1>2 DEF Newest

LEMMA InitInv == Init => TypeOK /\ ControlOK /\ EventHasBody
<1>. SUFFICES ASSUME Init PROVE TypeOK /\ ControlOK /\ EventHasBody
  OBVIOUS
<1>1. TypeOK
  <2>1. /\ dup \in [Reqs -> BOOLEAN] /\ claimed \in [Reqs -> BOOLEAN]
        /\ committed \in [Reqs -> BOOLEAN] /\ key \in BOOLEAN
    BY Zenon DEF Init
  <2>2. /\ pc \in [Reqs -> Labels] /\ todo \in [Reqs -> SUBSET Conns]
        /\ reply \in [Reqs -> Replies]
    BY DEF Init, Labels, Running, Replies
  <2>3. /\ rows \subseteq Reqs /\ bodies \subseteq rows
        /\ events \subseteq Reqs \X Conns /\ queued \subseteq events
        /\ marks \in Seq(Reqs)
    BY DEF Init
  <2>4. faults \in 0..MaxFaults /\ gaps \in 0..MaxGaps
    BY IngestAssumption DEF Init
  <2>. QED
    BY <2>1, <2>2, <2>3, <2>4 DEF TypeOK
<1>2. Fanned = {}
  BY DEF Init, Fanned
<1>3. ControlOK
  BY <1>2 DEF Init, ControlOK
<1>. QED
  BY <1>1, <1>2, <1>3 DEF EventHasBody

-----------------------------------------------------------------------------
LEMMA TypeStep == TypeOK /\ ControlOK /\ [Next]_vars => TypeOK'
<1>. SUFFICES ASSUME TypeOK, ControlOK, [Next]_vars PROVE TypeOK'
  OBVIOUS
<1>. USE IngestAssumption DEF TypeOK, table, local, Labels, Running, Replies, Goto,
       Return, Fault, Gap
<1>1. ASSUME NEW r \in Reqs, Send(r) PROVE TypeOK'
  BY <1>1 DEF Send
<1>2. ASSUME NEW r \in Reqs, CheckDedup(r) PROVE TypeOK'
  BY <1>2 DEF CheckDedup, DedupClaimed
<1>3. ASSUME NEW r \in Reqs, CreateRequest(r) PROVE TypeOK'
  BY <1>3 DEF CreateRequest
<1>4. ASSUME NEW r \in Reqs, PutBody(r) PROVE TypeOK'
  BY <1>4 DEF PutBody, ControlOK
<1>5. ASSUME NEW r \in Reqs, ListConns(r) PROVE TypeOK'
  BY <1>5 DEF ListConns
<1>6. ASSUME NEW r \in Reqs, CreateEvents(r) PROVE TypeOK'
  BY <1>6 DEF CreateEvents
<1>7. ASSUME NEW r \in Reqs, EnqueueEvent(r) PROVE TypeOK'
  BY <1>7 DEF EnqueueEvent, ControlOK
<1>8. ASSUME NEW r \in Reqs, SkipCapture(r) PROVE TypeOK'
  BY <1>8 DEF SkipCapture
<1>9. ASSUME NEW r \in Reqs, CreateAutoBookmark(r) PROVE TypeOK'
  BY <1>9 DEF CreateAutoBookmark
<1>10. ASSUME NEW r \in Reqs, Evict(r) PROVE TypeOK'
  BY <1>10, NewestType DEF Evict
<1>11. ASSUME NEW r \in Reqs, Rollback(r) PROVE TypeOK'
  <2>1. key' \in BOOLEAN
    BY <1>11, Zenon DEF Rollback
  <2>. QED
    BY <2>1, <1>11 DEF Rollback
<1>12. ASSUME NEW r \in Reqs, Reject(r) PROVE TypeOK'
  BY <1>12 DEF Reject
<1>13. ASSUME NEW r \in Reqs, CheckDedupFails(r) PROVE TypeOK'
  <2>1. key' \in BOOLEAN
    BY <1>13, Zenon DEF CheckDedupFails, DedupClaimed
  <2>. QED
    BY <2>1, <1>13 DEF CheckDedupFails, DedupClaimed
<1>14. ASSUME NEW r \in Reqs, CreateEventsReplyLost(r) PROVE TypeOK'
  BY <1>14 DEF CreateEventsReplyLost
<1>15. ASSUME NEW r \in Reqs, Fail(r) PROVE TypeOK'
  BY <1>15 DEF Fail
<1>16. ASSUME NEW r \in Reqs, Crash(r) PROVE TypeOK'
  BY <1>16 DEF Crash
<1>17. CASE Expire
  <2>1. key' \in BOOLEAN
    BY <1>17, Zenon DEF Expire
  <2>. QED
    BY <2>1, <1>17 DEF Expire
<1>18. CASE UNCHANGED vars
  BY <1>18 DEF vars
<1>. QED
  BY <1>1, <1>2, <1>3, <1>4, <1>5, <1>6, <1>7, <1>8, <1>9, <1>10, <1>11, <1>12, <1>13,
     <1>14, <1>15, <1>16, <1>17, <1>18
  DEF Next, handleIngest, Persist, Capture, Disturb

-----------------------------------------------------------------------------
\* An insert adds its own transmission to Fanned and no other.
LEMMA FannedStep ==
    ASSUME TypeOK, NEW r \in Reqs, events' = events \cup ({r} \X todo[r])
    PROVE  Fanned \subseteq Fanned' /\ Fanned' \subseteq Fanned \cup {r}
  BY DEF Fanned, TypeOK

LEMMA ControlStep ==
    TypeOK /\ ControlOK /\ EventHasBody /\ [Next]_vars => ControlOK' /\ EventHasBody'
<1>. SUFFICES ASSUME TypeOK, ControlOK, EventHasBody, [Next]_vars
              PROVE  ControlOK' /\ EventHasBody'
  OBVIOUS
<1>. USE DEF table, local, Running, Goto, Return, Fault, Gap
<1>1. ASSUME NEW r \in Reqs, Send(r) PROVE ControlOK' /\ EventHasBody'
  <2>1. Fanned' = Fanned
    BY <1>1 DEF Send, Fanned
  <2>. QED
    BY <2>1, <1>1 DEF Send, TypeOK, ControlOK, EventHasBody
<1>2. ASSUME NEW r \in Reqs, CheckDedup(r) PROVE ControlOK' /\ EventHasBody'
  <2>1. Fanned' = Fanned
    BY <1>2 DEF CheckDedup, Fanned
  <2>. QED
    BY <2>1, <1>2 DEF CheckDedup, DedupClaimed, TypeOK, ControlOK, EventHasBody
<1>3. ASSUME NEW r \in Reqs, CreateRequest(r) PROVE ControlOK' /\ EventHasBody'
  <2>1. Fanned' = Fanned
    BY <1>3 DEF CreateRequest, Fanned
  <2>. QED
    BY <2>1, <1>3 DEF CreateRequest, TypeOK, ControlOK, EventHasBody
<1>4. ASSUME NEW r \in Reqs, PutBody(r) PROVE ControlOK' /\ EventHasBody'
  <2>1. Fanned' = Fanned
    BY <1>4 DEF PutBody, Fanned
  <2>. QED
    BY <2>1, <1>4 DEF PutBody, TypeOK, ControlOK, EventHasBody
<1>5. ASSUME NEW r \in Reqs, ListConns(r) PROVE ControlOK' /\ EventHasBody'
  <2>1. Fanned' = Fanned
    BY <1>5 DEF ListConns, Fanned
  <2>. QED
    BY <2>1, <1>5 DEF ListConns, TypeOK, ControlOK, EventHasBody
<1>6. ASSUME NEW r \in Reqs, CreateEvents(r) PROVE ControlOK' /\ EventHasBody'
  <2>1. Fanned' \subseteq Fanned \cup {r}
    BY <1>6, FannedStep DEF CreateEvents
  <2>. QED
    BY <2>1, <1>6 DEF CreateEvents, TypeOK, ControlOK, EventHasBody
<1>7. ASSUME NEW r \in Reqs, EnqueueEvent(r) PROVE ControlOK' /\ EventHasBody'
  <2>1. Fanned' = Fanned
    BY <1>7 DEF EnqueueEvent, Fanned
  <2>2. PICK c \in todo[r] :
            /\ todo' = [todo EXCEPT ![r] = @ \ {c}]
            /\ committed' = [committed EXCEPT ![r] = (todo[r] = {c})]
            /\ pc' = [pc EXCEPT ![r] = IF todo[r] = {c} THEN "capture" ELSE "enqueue"]
    BY <1>7 DEF EnqueueEvent
  <2>3. /\ UNCHANGED <<events, dup, claimed, rows, bodies>>
        /\ pc[r] = "enqueue"
    BY <1>7 DEF EnqueueEvent
  <2>4. pc'[r] = "capture" => committed'[r]
    <3>1. CASE todo[r] = {c}
      <4>1. committed'[r] = TRUE
        BY <3>1, <2>2, Zenon DEF TypeOK
      <4>. QED
        BY <4>1
    <3>2. CASE todo[r] # {c}
      BY <3>2, <2>2 DEF TypeOK
    <3>. QED
      BY <3>1, <3>2
  <2>5. todo'[r] \subseteq todo[r] /\ pc'[r] \in {"capture", "enqueue"}
    BY <2>2 DEF TypeOK
  <2>6. \A q \in Reqs \ {r} : pc'[q] = pc[q] /\ todo'[q] = todo[q]
    BY <2>2 DEF TypeOK
  <2>7. \A q \in Reqs \ {r} : committed'[q] = committed[q]
    BY <2>2, Zenon DEF TypeOK
  <2>8. ControlOK'
    BY <2>1, <2>3, <2>4, <2>5, <2>6, <2>7 DEF ControlOK
  <2>. QED
    BY <2>1, <2>3, <2>8 DEF EventHasBody
<1>8. ASSUME NEW r \in Reqs, SkipCapture(r) PROVE ControlOK' /\ EventHasBody'
  <2>1. Fanned' = Fanned
    BY <1>8 DEF SkipCapture, Fanned
  <2>. QED
    BY <2>1, <1>8 DEF SkipCapture, TypeOK, ControlOK, EventHasBody
<1>9. ASSUME NEW r \in Reqs, CreateAutoBookmark(r) PROVE ControlOK' /\ EventHasBody'
  <2>1. Fanned' = Fanned
    BY <1>9 DEF CreateAutoBookmark, Fanned
  <2>. QED
    BY <2>1, <1>9 DEF CreateAutoBookmark, TypeOK, ControlOK, EventHasBody
<1>10. ASSUME NEW r \in Reqs, Evict(r) PROVE ControlOK' /\ EventHasBody'
  <2>1. Fanned' = Fanned
    BY <1>10 DEF Evict, Fanned
  <2>. QED
    BY <2>1, <1>10 DEF Evict, TypeOK, ControlOK, EventHasBody
<1>11. ASSUME NEW r \in Reqs, Rollback(r) PROVE ControlOK' /\ EventHasBody'
  <2>1. Fanned' = Fanned
    BY <1>11 DEF Rollback, Fanned
  <2>. QED
    BY <2>1, <1>11 DEF Rollback, TypeOK, ControlOK, EventHasBody
<1>12. ASSUME NEW r \in Reqs, Reject(r) PROVE ControlOK' /\ EventHasBody'
  <2>1. Fanned' = Fanned
    BY <1>12 DEF Reject, Fanned
  <2>. QED
    BY <2>1, <1>12 DEF Reject, TypeOK, ControlOK, EventHasBody
<1>13. ASSUME NEW r \in Reqs, CheckDedupFails(r) PROVE ControlOK' /\ EventHasBody'
  <2>1. Fanned' = Fanned
    BY <1>13 DEF CheckDedupFails, Fanned
  <2>. QED
    BY <2>1, <1>13 DEF CheckDedupFails, DedupClaimed, TypeOK, ControlOK, EventHasBody
<1>14. ASSUME NEW r \in Reqs, CreateEventsReplyLost(r) PROVE ControlOK' /\ EventHasBody'
  <2>1. Fanned' \subseteq Fanned \cup {r}
    BY <1>14, FannedStep DEF CreateEventsReplyLost
  <2>. QED
    BY <2>1, <1>14 DEF CreateEventsReplyLost, TypeOK, ControlOK, EventHasBody
<1>15. ASSUME NEW r \in Reqs, Fail(r) PROVE ControlOK' /\ EventHasBody'
  <2>1. Fanned' = Fanned
    BY <1>15 DEF Fail, Fanned
  <2>. QED
    BY <2>1, <1>15 DEF Fail, TypeOK, ControlOK, EventHasBody
<1>16. ASSUME NEW r \in Reqs, Crash(r) PROVE ControlOK' /\ EventHasBody'
  <2>1. Fanned' = Fanned
    BY <1>16 DEF Crash, Fanned
  <2>. QED
    BY <2>1, <1>16 DEF Crash, TypeOK, ControlOK, EventHasBody
<1>17. CASE Expire \/ UNCHANGED vars
  <2>1. Fanned' = Fanned
    BY <1>17 DEF Expire, vars, Fanned
  <2>. QED
    BY <2>1, <1>17 DEF Expire, vars, ControlOK, EventHasBody
<1>. QED
  BY <1>1, <1>2, <1>3, <1>4, <1>5, <1>6, <1>7, <1>8, <1>9, <1>10, <1>11, <1>12, <1>13,
     <1>14, <1>15, <1>16, <1>17
  DEF Next, handleIngest, Persist, Capture, Disturb

-----------------------------------------------------------------------------
\* Both counts are of subsets of Reqs.
LEMMA Counted ==
    ASSUME TypeOK
    PROVE  /\ IsFiniteSet(Passed) /\ Cardinality(Passed) \in Nat
           /\ IsFiniteSet(Dropping) /\ Cardinality(Dropping) \in Nat
           /\ gaps \in Nat /\ KeyWeight \in {0, 1}
           /\ key => KeyWeight = 1
           /\ ~key => KeyWeight = 0
<1>1. Passed \in SUBSET Reqs /\ Dropping \in SUBSET Reqs
  BY DEF Passed, Dropping, Fanned
<1>2. IsFiniteSet(Reqs)
  BY IngestAssumption
<1>3. IsFiniteSet(Passed) /\ IsFiniteSet(Dropping)
  BY <1>1, <1>2, FS_Subset
<1>4. Cardinality(Passed) \in Nat /\ Cardinality(Dropping) \in Nat
  BY <1>3, FS_CardinalityType
<1>5. gaps \in Nat
  BY IngestAssumption DEF TypeOK
<1>. QED
  BY <1>3, <1>4, <1>5 DEF KeyWeight

\* A step that lets nobody past and takes no cover away.
LEMMA Quiet ==
    ASSUME TypeOK, TypeOK', KeyPaysFor,
           Passed' \subseteq Passed, Dropping' \subseteq Dropping,
           gaps' + KeyWeight' >= gaps + KeyWeight
    PROVE  KeyPaysFor'
<1>1. Cardinality(Passed') <= Cardinality(Passed)
  BY Counted, FS_Subset
<1>2. Cardinality(Dropping') <= Cardinality(Dropping)
  BY Counted, FS_Subset
<1>3. /\ Cardinality(Passed') \in Nat /\ Cardinality(Dropping') \in Nat
      /\ gaps' \in Nat /\ KeyWeight' \in {0, 1}
  <2>1. IsFiniteSet(Passed') /\ IsFiniteSet(Dropping')
    BY Counted, FS_Subset
  <2>2. gaps' \in Nat
    BY IngestAssumption DEF TypeOK
  <2>. QED
    BY <2>1, <2>2, FS_CardinalityType DEF KeyWeight
<1>. QED
  BY <1>1, <1>2, <1>3, Counted DEF KeyPaysFor

\* One more element.
LEMMA AddOne ==
    ASSUME NEW S, NEW x, IsFiniteSet(S)
    PROVE  /\ IsFiniteSet(S \cup {x})
           /\ Cardinality(S \cup {x}) \in Nat
           /\ Cardinality(S \cup {x}) <= Cardinality(S) + 1
<1>1. IsFiniteSet(S \cup {x})
  BY FS_AddElement
<1>2. Cardinality(S \cup {x}) \in {Cardinality(S), Cardinality(S) + 1}
  BY FS_AddElement
<1>3. Cardinality(S) \in Nat
  BY FS_CardinalityType
<1>. QED
  BY <1>1, <1>2, <1>3

\* A step that lets r past the key, on a gap or a claim.
LEMMA LetPast ==
    ASSUME TypeOK, TypeOK', KeyPaysFor, NEW r,
           Passed' \subseteq Passed \cup {r}, Dropping' \subseteq Dropping,
           gaps' + KeyWeight' >= gaps + KeyWeight + 1
    PROVE  KeyPaysFor'
<1>1. /\ IsFiniteSet(Passed \cup {r})
      /\ Cardinality(Passed \cup {r}) \in Nat
      /\ Cardinality(Passed \cup {r}) <= Cardinality(Passed) + 1
  BY Counted, AddOne
<1>2. IsFiniteSet(Passed') /\ Cardinality(Passed') <= Cardinality(Passed \cup {r})
  BY <1>1, FS_Subset
<1>3. IsFiniteSet(Dropping') /\ Cardinality(Dropping') <= Cardinality(Dropping)
  BY Counted, FS_Subset
<1>4. Cardinality(Passed') \in Nat /\ Cardinality(Dropping') \in Nat
  BY <1>2, <1>3, FS_CardinalityType
<1>5. gaps' \in Nat /\ KeyWeight' \in {0, 1}
  BY IngestAssumption DEF TypeOK, KeyWeight
<1>. QED
  BY <1>1, <1>2, <1>3, <1>4, <1>5, Counted DEF KeyPaysFor

\* A commit whose reply is lost: r will drop the key with its events behind.
LEMMA LoseReply ==
    ASSUME TypeOK, TypeOK', KeyPaysFor, NEW r,
           Passed' \subseteq Passed, Dropping' \subseteq Dropping \cup {r},
           gaps' + KeyWeight' >= gaps + KeyWeight + 1
    PROVE  KeyPaysFor'
<1>1. /\ IsFiniteSet(Dropping \cup {r})
      /\ Cardinality(Dropping \cup {r}) \in Nat
      /\ Cardinality(Dropping \cup {r}) <= Cardinality(Dropping) + 1
  BY Counted, AddOne
<1>2. IsFiniteSet(Dropping') /\ Cardinality(Dropping') <= Cardinality(Dropping \cup {r})
  BY <1>1, FS_Subset
<1>3. IsFiniteSet(Passed') /\ Cardinality(Passed') <= Cardinality(Passed)
  BY Counted, FS_Subset
<1>4. Cardinality(Passed') \in Nat /\ Cardinality(Dropping') \in Nat
  BY <1>2, <1>3, FS_CardinalityType
<1>5. gaps' \in Nat /\ KeyWeight' \in {0, 1}
  BY IngestAssumption DEF TypeOK, KeyWeight
<1>. QED
  BY <1>1, <1>2, <1>3, <1>4, <1>5, Counted DEF KeyPaysFor

\* A rollback gives up one of the two claims it held on the key's cover.
LEMMA GiveBack ==
    ASSUME TypeOK, TypeOK', KeyPaysFor, NEW r,
           Passed' \subseteq Passed, Dropping' \subseteq Dropping,
           \/ r \in Passed /\ r \notin Passed'
           \/ r \in Dropping /\ r \notin Dropping',
           gaps' = gaps
    PROVE  KeyPaysFor'
<1>1. IsFiniteSet(Passed') /\ Cardinality(Passed') <= Cardinality(Passed)
  BY Counted, FS_Subset
<1>2. IsFiniteSet(Dropping') /\ Cardinality(Dropping') <= Cardinality(Dropping)
  BY Counted, FS_Subset
<1>3. \/ Cardinality(Passed') # Cardinality(Passed)
      \/ Cardinality(Dropping') # Cardinality(Dropping)
  BY Counted, FS_Subset
<1>4. Cardinality(Passed') \in Nat /\ Cardinality(Dropping') \in Nat
  BY <1>1, <1>2, FS_CardinalityType
<1>5. gaps' \in Nat /\ KeyWeight' \in {0, 1}
  BY IngestAssumption DEF TypeOK, KeyWeight
<1>. QED
  BY <1>1, <1>2, <1>3, <1>4, <1>5, Counted DEF KeyPaysFor

LEMMA KeyStep ==
    TypeOK /\ TypeOK' /\ ControlOK /\ KeyPaysFor /\ [Next]_vars => KeyPaysFor'
<1>. SUFFICES ASSUME TypeOK, TypeOK', ControlOK, KeyPaysFor, [Next]_vars
              PROVE  KeyPaysFor'
  OBVIOUS
<1>. USE DEF table, local, Running, Goto, Return, Fault, Gap
<1>1. ASSUME NEW r \in Reqs, Send(r) PROVE KeyPaysFor'
  <2>1. Fanned' = Fanned
    BY <1>1 DEF Send, Fanned
  <2>2. Passed' \subseteq Passed /\ Dropping' \subseteq Dropping
    BY <2>1, <1>1 DEF Send, Passed, Dropping, ControlOK, TypeOK
  <2>3. gaps' + KeyWeight' >= gaps + KeyWeight
    BY <1>1, Counted DEF Send, KeyWeight
  <2>. QED
    BY <2>2, <2>3, Quiet
<1>2. ASSUME NEW r \in Reqs, CreateRequest(r) PROVE KeyPaysFor'
  <2>1. Fanned' = Fanned
    BY <1>2 DEF CreateRequest, Fanned
  <2>2. Passed' \subseteq Passed /\ Dropping' \subseteq Dropping
    BY <2>1, <1>2 DEF CreateRequest, Passed, Dropping, ControlOK, TypeOK
  <2>3. gaps' + KeyWeight' >= gaps + KeyWeight
    BY <1>2, Counted DEF CreateRequest, KeyWeight
  <2>. QED
    BY <2>2, <2>3, Quiet
<1>3. ASSUME NEW r \in Reqs, PutBody(r) PROVE KeyPaysFor'
  <2>1. Fanned' = Fanned
    BY <1>3 DEF PutBody, Fanned
  <2>2. Passed' \subseteq Passed /\ Dropping' \subseteq Dropping
    <3>1. CASE dup[r]
      <4>1. pc' = [pc EXCEPT ![r] = "done"] /\ UNCHANGED dup
        BY <3>1, <1>3 DEF PutBody, ControlOK
      <4>. QED
        BY <2>1, <4>1 DEF Passed, Dropping, TypeOK
    <3>2. CASE ~dup[r]
      <4>1. pc' = [pc EXCEPT ![r] = "list"] /\ UNCHANGED dup /\ pc[r] = "body"
        BY <3>2, <1>3 DEF PutBody
      <4>. QED
        BY <2>1, <4>1 DEF Passed, Dropping, TypeOK
    <3>. QED
      BY <3>1, <3>2
  <2>3. gaps' + KeyWeight' >= gaps + KeyWeight
    BY <1>3, Counted DEF PutBody, KeyWeight
  <2>. QED
    BY <2>2, <2>3, Quiet
<1>4. ASSUME NEW r \in Reqs, ListConns(r) PROVE KeyPaysFor'
  <2>1. Fanned' = Fanned
    BY <1>4 DEF ListConns, Fanned
  <2>2. Passed' \subseteq Passed /\ Dropping' \subseteq Dropping
    BY <2>1, <1>4 DEF ListConns, Passed, Dropping, ControlOK, TypeOK
  <2>3. gaps' + KeyWeight' >= gaps + KeyWeight
    BY <1>4, Counted DEF ListConns, KeyWeight
  <2>. QED
    BY <2>2, <2>3, Quiet
<1>5. ASSUME NEW r \in Reqs, CreateEvents(r) PROVE KeyPaysFor'
  <2>1. Fanned' \subseteq Fanned \cup {r}
    BY <1>5, FannedStep DEF CreateEvents
  <2>2. Passed' \subseteq Passed /\ Dropping' \subseteq Dropping
    BY <2>1, <1>5 DEF CreateEvents, Passed, Dropping, ControlOK, TypeOK
  <2>3. gaps' + KeyWeight' >= gaps + KeyWeight
    BY <1>5, Counted DEF CreateEvents, KeyWeight
  <2>. QED
    BY <2>2, <2>3, Quiet
<1>6. ASSUME NEW r \in Reqs, EnqueueEvent(r) PROVE KeyPaysFor'
  <2>1. Fanned' = Fanned
    BY <1>6 DEF EnqueueEvent, Fanned
  <2>2. Passed' \subseteq Passed /\ Dropping' \subseteq Dropping
    BY <2>1, <1>6 DEF EnqueueEvent, Passed, Dropping, ControlOK, TypeOK
  <2>3. gaps' + KeyWeight' >= gaps + KeyWeight
    BY <1>6, Counted DEF EnqueueEvent, KeyWeight
  <2>. QED
    BY <2>2, <2>3, Quiet
<1>7. ASSUME NEW r \in Reqs, SkipCapture(r) PROVE KeyPaysFor'
  <2>1. Fanned' = Fanned
    BY <1>7 DEF SkipCapture, Fanned
  <2>2. Passed' \subseteq Passed /\ Dropping' \subseteq Dropping
    BY <2>1, <1>7 DEF SkipCapture, Passed, Dropping, ControlOK, TypeOK
  <2>3. gaps' + KeyWeight' >= gaps + KeyWeight
    BY <1>7, Counted DEF SkipCapture, KeyWeight
  <2>. QED
    BY <2>2, <2>3, Quiet
<1>8. ASSUME NEW r \in Reqs, CreateAutoBookmark(r) PROVE KeyPaysFor'
  <2>1. Fanned' = Fanned
    BY <1>8 DEF CreateAutoBookmark, Fanned
  <2>2. Passed' \subseteq Passed /\ Dropping' \subseteq Dropping
    BY <2>1, <1>8 DEF CreateAutoBookmark, Passed, Dropping, ControlOK, TypeOK
  <2>3. gaps' + KeyWeight' >= gaps + KeyWeight
    BY <1>8, Counted DEF CreateAutoBookmark, KeyWeight
  <2>. QED
    BY <2>2, <2>3, Quiet
<1>9. ASSUME NEW r \in Reqs, Evict(r) PROVE KeyPaysFor'
  <2>1. Fanned' = Fanned
    BY <1>9 DEF Evict, Fanned
  <2>2. Passed' \subseteq Passed /\ Dropping' \subseteq Dropping
    BY <2>1, <1>9 DEF Evict, Passed, Dropping, ControlOK, TypeOK
  <2>3. gaps' + KeyWeight' >= gaps + KeyWeight
    BY <1>9, Counted DEF Evict, KeyWeight
  <2>. QED
    BY <2>2, <2>3, Quiet
<1>10. ASSUME NEW r \in Reqs, Reject(r) PROVE KeyPaysFor'
  <2>1. Fanned' = Fanned
    BY <1>10 DEF Reject, Fanned
  <2>2. Passed' \subseteq Passed /\ Dropping' \subseteq Dropping
    BY <2>1, <1>10 DEF Reject, Passed, Dropping, ControlOK, TypeOK
  <2>3. gaps' + KeyWeight' >= gaps + KeyWeight
    BY <1>10, Counted DEF Reject, KeyWeight
  <2>. QED
    BY <2>2, <2>3, Quiet
<1>11. ASSUME NEW r \in Reqs, Fail(r) PROVE KeyPaysFor'
  <2>1. Fanned' = Fanned
    BY <1>11 DEF Fail, Fanned
  <2>2. Passed' \subseteq Passed /\ Dropping' \subseteq Dropping
    BY <2>1, <1>11 DEF Fail, Passed, Dropping, ControlOK, TypeOK
  <2>3. gaps' + KeyWeight' >= gaps + KeyWeight
    BY <1>11, Counted DEF Fail, KeyWeight
  <2>. QED
    BY <2>2, <2>3, Quiet
<1>12. ASSUME NEW r \in Reqs, Crash(r) PROVE KeyPaysFor'
  <2>1. Fanned' = Fanned
    BY <1>12 DEF Crash, Fanned
  <2>2. Passed' \subseteq Passed /\ Dropping' \subseteq Dropping
    BY <2>1, <1>12 DEF Crash, Passed, Dropping, ControlOK, TypeOK
  <2>3. gaps' + KeyWeight' >= gaps + KeyWeight
    BY <1>12, Counted DEF Crash, KeyWeight
  <2>. QED
    BY <2>2, <2>3, Quiet
<1>13. ASSUME NEW r \in Reqs, CheckDedup(r) PROVE KeyPaysFor'
  <2>1. Fanned' = Fanned /\ gaps' = gaps /\ KeyWeight' = 1
    BY <1>13 DEF CheckDedup, Fanned, KeyWeight
  <2>2. Dropping' \subseteq Dropping
    BY <2>1, <1>13 DEF CheckDedup, Dropping, TypeOK
  <2>3. CASE key
    <3>1. Passed' \subseteq Passed
      BY <2>1, <2>3, <1>13 DEF CheckDedup, Passed, TypeOK
    <3>. QED
      BY <2>1, <2>2, <2>3, <3>1, Counted, Quiet
  <2>4. CASE ~key
    <3>1. Passed' \subseteq Passed \cup {r}
      BY <2>1, <1>13 DEF CheckDedup, Passed, TypeOK
    <3>. QED
      BY <2>1, <2>2, <2>4, <3>1, Counted, LetPast
  <2>. QED
    BY <2>3, <2>4
<1>14. ASSUME NEW r \in Reqs, CheckDedupFails(r) PROVE KeyPaysFor'
  <2>1. Fanned' = Fanned /\ gaps' = gaps + 1
    BY <1>14 DEF CheckDedupFails, Fanned
  <2>2. KeyWeight' >= KeyWeight
    BY <1>14 DEF CheckDedupFails, KeyWeight
  <2>3. Dropping' \subseteq Dropping /\ Passed' \subseteq Passed \cup {r}
    BY <2>1, <1>14 DEF CheckDedupFails, Dropping, Passed, TypeOK
  <2>4. gaps' + KeyWeight' >= gaps + KeyWeight + 1
    BY <2>1, <2>2, Counted DEF KeyWeight
  <2>. QED
    BY <2>3, <2>4, LetPast
<1>15. ASSUME NEW r \in Reqs, CreateEventsReplyLost(r) PROVE KeyPaysFor'
  <2>1. Fanned' \subseteq Fanned \cup {r}
    BY <1>15, FannedStep DEF CreateEventsReplyLost
  <2>2. Passed' \subseteq Passed /\ Dropping' \subseteq Dropping \cup {r}
    BY <2>1, <1>15 DEF CreateEventsReplyLost, Passed, Dropping, ControlOK, TypeOK
  <2>3. gaps' + KeyWeight' >= gaps + KeyWeight + 1
    BY <1>15, Counted DEF CreateEventsReplyLost, KeyWeight
  <2>. QED
    BY <2>2, <2>3, LoseReply
<1>16. ASSUME NEW r \in Reqs, Rollback(r) PROVE KeyPaysFor'
  <2>1. Fanned' = Fanned /\ gaps' = gaps
    BY <1>16 DEF Rollback, Fanned
  <2>2. Passed' \subseteq Passed /\ Dropping' \subseteq Dropping
    BY <2>1, <1>16 DEF Rollback, Passed, Dropping, TypeOK
  <2>3. \/ r \in Passed /\ r \notin Passed'
        \/ r \in Dropping /\ r \notin Dropping'
    BY <2>1, <1>16 DEF Rollback, Passed, Dropping, ControlOK, TypeOK
  <2>. QED
    BY <2>1, <2>2, <2>3, GiveBack
<1>17. CASE Expire
  <2>1. Fanned' = Fanned /\ gaps' = gaps + 1
    BY <1>17 DEF Expire, Fanned
  <2>2. Passed' \subseteq Passed /\ Dropping' \subseteq Dropping
    BY <2>1, <1>17 DEF Expire, Passed, Dropping
  <2>3. gaps' + KeyWeight' >= gaps + KeyWeight
    BY <2>1, Counted DEF KeyWeight
  <2>. QED
    BY <2>2, <2>3, Quiet
<1>18. CASE UNCHANGED vars
  <2>1. Fanned' = Fanned
    BY <1>18 DEF vars, Fanned
  <2>2. Passed' \subseteq Passed /\ Dropping' \subseteq Dropping
    BY <2>1, <1>18 DEF vars, Passed, Dropping
  <2>3. gaps' + KeyWeight' >= gaps + KeyWeight
    BY <1>18, Counted DEF vars, KeyWeight
  <2>. QED
    BY <2>2, <2>3, Quiet
<1>. QED
  BY <1>1, <1>2, <1>3, <1>4, <1>5, <1>6, <1>7, <1>8, <1>9, <1>10, <1>11, <1>12, <1>13,
     <1>14, <1>15, <1>16, <1>17, <1>18
  DEF Next, handleIngest, Persist, Capture, Disturb

-----------------------------------------------------------------------------
\* handleIngest keeps every variable within its type, and bodies within the
\* persisted requests, for any number of transmissions and connections.
THEOREM IngestTypeCorrect == Spec => []TypeOK
<1>. DEFINE IInv == TypeOK /\ ControlOK /\ EventHasBody
<1>1. Init => IInv
  BY InitInv
<1>2. IInv /\ [Next]_vars => IInv'
  BY TypeStep, ControlStep
<1>. QED
  BY <1>1, <1>2, PTL DEF Spec

\* No event is ever created for a request whose body was not stored.
THEOREM EventsHaveBodies == Spec => []EventHasBody
<1>. DEFINE IInv == TypeOK /\ ControlOK /\ EventHasBody
<1>1. Init => IInv
  BY InitInv
<1>2. IInv /\ [Next]_vars => IInv'
  BY TypeStep, ControlStep
<1>. QED
  BY <1>1, <1>2, PTL DEF Spec

\* One webhook creates events once per lifetime of its dedup key, whatever the
\* transmissions, rollbacks, crashes and errors: expiries, failed checks and lost
\* commit replies account for every further time.
THEOREM DedupHolds == Spec => []DedupEffective
<1>. DEFINE IInv == TypeOK /\ ControlOK /\ EventHasBody /\ KeyPaysFor
<1>1. Init => IInv
  <2>. SUFFICES ASSUME Init PROVE IInv
    OBVIOUS
  <2>1. TypeOK /\ ControlOK /\ EventHasBody
    BY InitInv
  <2>2. Passed = {} /\ Dropping = {}
    BY DEF Init, Passed, Dropping, Fanned, Running
  <2>3. KeyPaysFor
    BY <2>2, FS_EmptySet DEF KeyPaysFor, KeyWeight, Init
  <2>. QED
    BY <2>1, <2>3
<1>2. IInv /\ [Next]_vars => IInv'
  BY TypeStep, ControlStep, KeyStep
<1>3. IInv => DedupEffective
  <2>. SUFFICES ASSUME IInv PROVE DedupEffective
    OBVIOUS
  <2>1. Fanned \subseteq Passed
    BY DEF Passed
  <2>2. IsFiniteSet(Fanned) /\ Cardinality(Fanned) <= Cardinality(Passed)
    BY <2>1, Counted, FS_Subset
  <2>3. Cardinality(Fanned) \in Nat
    BY <2>2, FS_CardinalityType
  <2>. QED
    BY <2>2, <2>3, Counted DEF KeyPaysFor, DedupEffective
<1>. QED
  BY <1>1, <1>2, <1>3, PTL DEF Spec

-----------------------------------------------------------------------------
(* The sender's promise. *)

\* What the sender's promise rests on: a fresh transmission holds nothing, the
\* commit flag comes late, an insert has events to write, the answer comes last
\* and says what the handler found.
SenderControl ==
    \A r \in Reqs :
        /\ pc[r] \in {"unsent", "check"} => ~claimed[r] /\ ~dup[r]
        /\ committed[r] => pc[r] \in {"capture", "evict", "rollback", "done", "dead"}
        /\ pc[r] = "insert" => todo[r] # {}
        /\ reply[r] # "none" => pc[r] \in {"rollback", "done", "dead"}
        /\ reply[r] = "deduped" => dup[r]
        /\ reply[r] = "accepted" => committed[r]

\* Unless excused, the key stands for a transmission that got through or is still
\* on its way, and nobody was turned away on behalf of one that did not.
KeyKept ==
    ~excused => /\ key => GotThrough \/ \E q \in Reqs : Holding(q)
                /\ \A r \in Reqs : dup[r] => GotThrough

LEMMA SenderControlStep ==
    TypeOK /\ ControlOK /\ SenderControl /\ [Next]_vars => SenderControl'
<1>. SUFFICES ASSUME TypeOK, ControlOK, SenderControl, [Next]_vars PROVE SenderControl'
  OBVIOUS
<1>. USE DEF table, local, Running, Goto, Return, Fault, Gap
<1>1. ASSUME NEW r \in Reqs, Send(r) PROVE SenderControl'
  BY <1>1 DEF Send, TypeOK, ControlOK, SenderControl
<1>2. ASSUME NEW r \in Reqs, CheckDedup(r) PROVE SenderControl'
  BY <1>2 DEF CheckDedup, DedupClaimed, TypeOK, ControlOK, SenderControl
<1>3. ASSUME NEW r \in Reqs, CreateRequest(r) PROVE SenderControl'
  BY <1>3 DEF CreateRequest, TypeOK, ControlOK, SenderControl
<1>4. ASSUME NEW r \in Reqs, PutBody(r) PROVE SenderControl'
  BY <1>4 DEF PutBody, TypeOK, ControlOK, SenderControl
<1>5. ASSUME NEW r \in Reqs, ListConns(r) PROVE SenderControl'
  BY <1>5 DEF ListConns, TypeOK, ControlOK, SenderControl
<1>6. ASSUME NEW r \in Reqs, CreateEvents(r) PROVE SenderControl'
  BY <1>6 DEF CreateEvents, TypeOK, ControlOK, SenderControl
<1>7. ASSUME NEW r \in Reqs, EnqueueEvent(r) PROVE SenderControl'
  BY <1>7 DEF EnqueueEvent, TypeOK, ControlOK, SenderControl
<1>8. ASSUME NEW r \in Reqs, SkipCapture(r) PROVE SenderControl'
  BY <1>8 DEF SkipCapture, TypeOK, ControlOK, SenderControl
<1>9. ASSUME NEW r \in Reqs, CreateAutoBookmark(r) PROVE SenderControl'
  BY <1>9 DEF CreateAutoBookmark, TypeOK, ControlOK, SenderControl
<1>10. ASSUME NEW r \in Reqs, Evict(r) PROVE SenderControl'
  BY <1>10 DEF Evict, TypeOK, ControlOK, SenderControl
<1>11. ASSUME NEW r \in Reqs, Rollback(r) PROVE SenderControl'
  BY <1>11 DEF Rollback, TypeOK, ControlOK, SenderControl
<1>12. ASSUME NEW r \in Reqs, Reject(r) PROVE SenderControl'
  BY <1>12 DEF Reject, TypeOK, ControlOK, SenderControl
<1>13. ASSUME NEW r \in Reqs, CheckDedupFails(r) PROVE SenderControl'
  BY <1>13 DEF CheckDedupFails, DedupClaimed, TypeOK, ControlOK, SenderControl
<1>14. ASSUME NEW r \in Reqs, CreateEventsReplyLost(r) PROVE SenderControl'
  BY <1>14 DEF CreateEventsReplyLost, TypeOK, ControlOK, SenderControl
<1>15. ASSUME NEW r \in Reqs, Fail(r) PROVE SenderControl'
  BY <1>15 DEF Fail, TypeOK, ControlOK, SenderControl
<1>16. ASSUME NEW r \in Reqs, Crash(r) PROVE SenderControl'
  BY <1>16 DEF Crash, TypeOK, ControlOK, SenderControl
<1>17. CASE Expire \/ UNCHANGED vars
  BY <1>17 DEF Expire, vars, SenderControl
<1>. QED
  BY <1>1, <1>2, <1>3, <1>4, <1>5, <1>6, <1>7, <1>8, <1>9, <1>10, <1>11, <1>12, <1>13, <1>14, <1>15, <1>16, <1>17
  DEF Next, handleIngest, Persist, Capture, Disturb

\* Events are never deleted and the commit flag is never taken back.
LEMMA GotThroughKept ==
    ASSUME TypeOK, ControlOK, SenderControl, [Next]_vars, GotThrough PROVE GotThrough'
<1>1. events \subseteq events'
  BY DEF Next, handleIngest, Persist, Capture, Disturb, Send, CheckDedup, CreateRequest,
     PutBody, ListConns, CreateEvents, EnqueueEvent, SkipCapture, CreateAutoBookmark, Evict,
     Rollback, Reject, CheckDedupFails, CreateEventsReplyLost, Fail, Crash, Expire, vars, table
<1>2. Fanned \subseteq Fanned'
  BY <1>1 DEF Fanned
<1>3. PICK q \in Reqs : committed[q] \/ q \in Fanned
  BY DEF GotThrough
<1>4. CASE q \in Fanned
  BY <1>2, <1>4 DEF GotThrough
<1>5. CASE committed[q]
  <2>1. pc[q] \notin {"list", "enqueue"}
    BY <1>5 DEF SenderControl
  <2>2. committed'[q] = committed[q]
    <3>1. ASSUME NEW r \in Reqs, ListConns(r) PROVE committed'[q] = committed[q]
      <4>1. r # q
        BY <2>1, <3>1 DEF ListConns
      <4>. QED
        BY <3>1, <4>1, Zenon DEF ListConns, TypeOK
    <3>2. ASSUME NEW r \in Reqs, EnqueueEvent(r) PROVE committed'[q] = committed[q]
      <4>1. r # q
        BY <2>1, <3>2 DEF EnqueueEvent
      <4>. QED
        BY <3>2, <4>1, Zenon DEF EnqueueEvent, TypeOK
    <3>. QED
      BY <3>1, <3>2
      DEF Next, handleIngest, Persist, Capture, Disturb, Send, CheckDedup, CreateRequest,
          PutBody, CreateEvents, SkipCapture, CreateAutoBookmark, Evict, Rollback, Reject,
          CheckDedupFails, CreateEventsReplyLost, Fail, Crash, Expire, vars, local
  <2>. QED
    BY <1>5, <2>2 DEF GotThrough
<1>. QED
  BY <1>3, <1>4, <1>5

\* The claimers still on their way.
Holders == {q \in Reqs : Holding(q)}

LEMMA KeyKeptStep ==
    ASSUME TypeOK, ControlOK, SenderControl, KeyKept, [SenderNext]_<<vars, excused>>
    PROVE  KeyKept'
<1>. USE DEF table, local, Running, Goto, Return, Fault, Gap
<1>0. [Next]_vars
  BY DEF SenderNext
<1>. SUFFICES ASSUME ~excused'
              PROVE  /\ key' => GotThrough' \/ Holders' # {}
                     /\ \A r \in Reqs : dup'[r] => GotThrough'
  BY DEF KeyKept, Holders
<1>1. ~excused
  BY DEF SenderNext, Record
<1>2. CASE GotThrough
  BY <1>0, <1>2, GotThroughKept
<1>3. CASE ~GotThrough
  <2>1. /\ \A r \in Reqs : ~dup[r] /\ ~committed[r]
        /\ Fanned = {}
        /\ key => Holders # {}
    BY <1>1, <1>3 DEF KeyKept, GotThrough, Holders, Fanned
  <2>2. Holders = {q \in Reqs : claimed[q] /\ pc[q] \in Running}
    BY <2>1 DEF Holders, Holding
  <2>3. ASSUME NEW r \in Reqs, r \in Fanned' \/ committed'[r] PROVE GotThrough'
    BY <2>3 DEF GotThrough
  <2>4. ASSUME Fanned' = Fanned, committed' = committed, NEW q \in Reqs,
               claimed'[q], pc'[q] \in Running
        PROVE  Holders' # {}
    BY <2>1, <2>4 DEF Holders, Holding
  <2>5. ASSUME NEW r \in Reqs, Send(r) \/ Reject(r)
        PROVE  (key' => Holders' # {}) /\ \A q \in Reqs : ~dup'[q]
    <3>1. UNCHANGED <<key, dup, claimed, committed>> /\ Fanned' = Fanned
      BY <2>5 DEF Send, Reject, Fanned
    <3>2. pc[r] \in {"unsent", "check"} /\ \A q \in Reqs \ {r} : pc'[q] = pc[q]
      BY <2>5 DEF Send, Reject, TypeOK
    <3>3. ~claimed[r]
      BY <3>2 DEF SenderControl
    <3>. QED
      BY <2>1, <2>2, <2>4, <3>1, <3>2, <3>3
  <2>6. ASSUME NEW r \in Reqs, CheckDedup(r)
        PROVE  (key' => Holders' # {}) /\ \A q \in Reqs : ~dup'[q]
    <3>1. ~Overlap
      BY <2>6 DEF SenderNext, Record, CheckDedup, vars, TypeOK
    <3>2. pc[r] = "check" /\ pc'[r] = "create" /\ dup' = [dup EXCEPT ![r] = key]
      BY <2>6 DEF CheckDedup, TypeOK
    <3>3. ~key
      <4>. SUFFICES ASSUME key PROVE FALSE
        OBVIOUS
      <4>1. PICK q \in Reqs : Holding(q)
        BY <2>1 DEF Holders
      <4>2. dup'[r]
        BY <3>2 DEF TypeOK
      <4>. QED
        BY <3>1, <3>2, <4>1, <4>2 DEF Overlap, FoundKey
    <3>4. claimed'[r] /\ Fanned' = Fanned /\ committed' = committed
      BY <2>6, <3>3 DEF CheckDedup, DedupClaimed, TypeOK, Fanned
    <3>5. \A q \in Reqs : ~dup'[q]
      BY <2>1, <3>2, <3>3 DEF TypeOK
    <3>. QED
      BY <2>4, <3>2, <3>4, <3>5
  <2>7. ASSUME NEW r \in Reqs, CheckDedupFails(r)
        PROVE  (key' => Holders' # {}) /\ \A q \in Reqs : ~dup'[q]
    <3>0. gaps' > gaps /\ gaps' # gaps
      BY <2>7, IngestAssumption DEF CheckDedupFails, TypeOK
    <3>1. ~KeyUnowned /\ gaps' > gaps
      BY <3>0 DEF SenderNext, Record, vars
    <3>2. key' => key
      BY <3>1 DEF KeyUnowned
    <3>3. /\ UNCHANGED <<dup, committed>> /\ Fanned' = Fanned /\ pc[r] = "check"
          /\ \A q \in Reqs \ {r} : pc'[q] = pc[q] /\ claimed'[q] = claimed[q]
      BY <2>7 DEF CheckDedupFails, TypeOK, Fanned
    <3>4. ~claimed[r]
      BY <3>3 DEF SenderControl
    <3>. QED
      BY <2>1, <2>2, <2>4, <3>2, <3>3, <3>4
  <2>8. ASSUME NEW r \in Reqs, CreateRequest(r) \/ PutBody(r) \/ Fail(r)
        PROVE  (key' => Holders' # {}) /\ \A q \in Reqs : ~dup'[q]
    <3>1. UNCHANGED <<key, dup, claimed, committed>> /\ Fanned' = Fanned
      BY <2>8 DEF CreateRequest, PutBody, Fail, Fanned
    <3>2. /\ \A q \in Reqs \ {r} : pc'[q] = pc[q]
          /\ claimed[r] => pc'[r] \in Running
      BY <2>1, <2>8, <3>1 DEF CreateRequest, PutBody, Fail, TypeOK
    <3>. QED
      BY <2>1, <2>2, <2>4, <3>1, <3>2
  <2>9. ASSUME NEW r \in Reqs, ListConns(r)
        PROVE  (key' => GotThrough' \/ Holders' # {}) /\ \A q \in Reqs : ~dup'[q]
    <3>1. UNCHANGED <<key, dup, claimed>> /\ Fanned' = Fanned
      BY <2>9 DEF ListConns, Fanned
    <3>2. \A q \in Reqs \ {r} : pc'[q] = pc[q]
      BY <2>9 DEF ListConns, TypeOK
    <3>3. pc'[r] \in Running
      BY <2>9 DEF ListConns, TypeOK
    <3>4. \A q \in Reqs : ~committed'[q] /\ q \in Holders => q \in Holders'
      BY <2>1, <2>2, <3>1, <3>2, <3>3 DEF Holders, Holding
    <3>. QED
      BY <2>1, <2>3, <3>1, <3>4 DEF Holders
  <2>10. ASSUME NEW r \in Reqs, CreateEvents(r) \/ CreateEventsReplyLost(r) PROVE GotThrough'
    <3>1. events' = events \cup ({r} \X todo[r]) /\ pc[r] = "insert"
      BY <2>10 DEF CreateEvents, CreateEventsReplyLost
    <3>2. PICK c \in todo[r] : c \in Conns
      BY <3>1 DEF SenderControl, TypeOK
    <3>3. r \in Fanned'
      BY <3>1, <3>2 DEF Fanned
    <3>. QED
      BY <2>3, <3>3
  <2>11. ASSUME NEW r \in Reqs, EnqueueEvent(r) PROVE FALSE
    <3>1. PICK c \in todo[r] : <<r, c>> \in events /\ c \in Conns
      BY <2>11 DEF EnqueueEvent, ControlOK, TypeOK
    <3>. QED
      BY <2>1, <3>1 DEF Fanned
  <2>12. ASSUME NEW r \in Reqs, Capture(r) PROVE FALSE
    BY <2>1, <2>12 DEF Capture, SkipCapture, CreateAutoBookmark, Evict, ControlOK
  <2>13. ASSUME NEW r \in Reqs, Rollback(r)
         PROVE  ~key' /\ \A q \in Reqs : ~dup'[q]
    <3>1. pc[r] = "rollback" /\ pc'[r] = "done" /\ dup' = dup
      BY <2>13 DEF Rollback, TypeOK
    <3>2. ~KeyStuck
      BY <2>13, <3>1 DEF SenderNext, Record, vars
    <3>3. ~(faults' > faults)
      BY <3>1, <3>2 DEF KeyStuck
    <3>4. key' = FALSE
      BY <2>13, <3>3 DEF Rollback, TypeOK
    <3>. QED
      BY <2>1, <3>1, <3>4
  <2>14. ASSUME NEW r \in Reqs, Crash(r)
         PROVE  (key' => Holders' # {}) /\ \A q \in Reqs : ~dup'[q]
    <3>1. UNCHANGED <<key, dup, claimed, committed>> /\ Fanned' = Fanned
      BY <2>14 DEF Crash, Fanned
    <3>2. pc[r] \in Running /\ pc'[r] = "dead" /\ \A q \in Reqs \ {r} : pc'[q] = pc[q]
      BY <2>14 DEF Crash, TypeOK
    <3>3. ~ClaimerDies
      BY <3>2 DEF SenderNext, Record, vars
    <3>4. r \notin Holders
      BY <3>2, <3>3 DEF ClaimerDies, Holders
    <3>. QED
      BY <2>1, <2>2, <2>4, <3>1, <3>2, <3>4
  <2>15. CASE Expire
    BY <2>1, <2>15 DEF Expire
  <2>16. CASE UNCHANGED vars
    <3>1. UNCHANGED <<key, dup, claimed, committed, pc>> /\ Fanned' = Fanned
      BY <2>16 DEF vars, Fanned
    <3>. QED
      BY <2>1, <2>2, <2>4, <3>1
  <2>. QED
    BY <1>0, <2>5, <2>6, <2>7, <2>8, <2>9, <2>10, <2>11, <2>12, <2>13, <2>14, <2>15, <2>16
    DEF Next, handleIngest, Persist, Disturb
<1>. QED
  BY <1>2, <1>3

-----------------------------------------------------------------------------
(* The capture rule's bookmarks. *)

\* Captures between their insert and their eviction, and those that died.
Unevicted == {r \in Reqs : pc[r] \in {"evict", "dead"}}

LEMMA UnevictedFinite == IsFiniteSet(Unevicted) /\ Cardinality(Unevicted) \in Nat
<1>1. Unevicted \in SUBSET Reqs
  BY DEF Unevicted
<1>. QED
  BY <1>1, IngestAssumption, FS_Subset, FS_CardinalityType

\* A step that appends nothing and takes nobody out of the count.
LEMMA MarksQuiet ==
    ASSUME TypeOK, TypeOK', MarksBounded, marks' = marks, Unevicted \subseteq Unevicted',
           faults' >= faults
    PROVE  MarksBounded'
<1>1. IsFiniteSet(Unevicted') /\ Cardinality(Unevicted') \in Nat
  <2>1. Unevicted' \in SUBSET Reqs
    BY DEF Unevicted
  <2>. QED
    BY <2>1, IngestAssumption, FS_Subset, FS_CardinalityType
<1>2. Cardinality(Unevicted) <= Cardinality(Unevicted')
  BY <1>1, FS_Subset
<1>3. Len(marks) <= Cap + Cardinality(Unevicted) + faults
  BY DEF MarksBounded, Unevicted
<1>4. Len(marks) \in Nat /\ Cap \in Nat /\ faults \in Nat /\ faults' \in Nat
  BY IngestAssumption DEF TypeOK
<1>5. Len(marks') <= Cap + Cardinality(Unevicted') + faults'
  BY <1>1, <1>2, <1>3, <1>4, UnevictedFinite
<1>. QED
  BY <1>5 DEF MarksBounded, Unevicted

LEMMA MarksStep == TypeOK /\ TypeOK' /\ MarksBounded /\ [Next]_vars => MarksBounded'
<1>. SUFFICES ASSUME TypeOK, TypeOK', MarksBounded, [Next]_vars PROVE MarksBounded'
  OBVIOUS
<1>. USE DEF table, Goto, Return, Fault, Gap
<1>0. /\ Len(marks) <= Cap + Cardinality(Unevicted) + faults
      /\ Len(marks) \in Nat /\ Cap \in Nat \ {0} /\ faults \in Nat /\ faults' \in Nat
  BY IngestAssumption DEF MarksBounded, Unevicted, TypeOK
<1>1. ASSUME NEW r \in Reqs, CreateAutoBookmark(r) PROVE MarksBounded'
  <2>1. /\ pc' = [pc EXCEPT ![r] = "evict"] /\ pc[r] = "capture"
        /\ marks' = Append(marks, r) /\ faults' = faults
    BY <1>1 DEF CreateAutoBookmark
  <2>2. Unevicted' = Unevicted \cup {r} /\ r \notin Unevicted
    BY <2>1 DEF Unevicted, TypeOK
  <2>3. Cardinality(Unevicted') = Cardinality(Unevicted) + 1
    BY <2>2, UnevictedFinite, FS_AddElement
  <2>4. Len(marks') = Len(marks) + 1
    BY <2>1 DEF TypeOK
  <2>5. Len(marks') <= Cap + Cardinality(Unevicted') + faults'
    BY <1>0, <2>1, <2>3, <2>4, UnevictedFinite
  <2>. QED
    BY <2>5 DEF MarksBounded, Unevicted
<1>2. ASSUME NEW r \in Reqs, Evict(r) PROVE MarksBounded'
  <2>1. pc[r] = "evict" /\ pc'[r] \in {"rollback", "done"} /\ \A q \in Reqs \ {r} : pc'[q] = pc[q]
    BY <1>2 DEF Evict, TypeOK
  <2>2. Unevicted' = Unevicted \ {r} /\ r \in Unevicted
    BY <2>1 DEF Unevicted
  <2>3. /\ Cardinality(Unevicted') = Cardinality(Unevicted) - 1
        /\ Cardinality(Unevicted') \in Nat
    <3>1. Cardinality(Unevicted') = Cardinality(Unevicted) - 1
      BY <2>2, UnevictedFinite, FS_RemoveElement
    <3>2. IsFiniteSet(Unevicted')
      BY <2>2, UnevictedFinite, FS_RemoveElement
    <3>. QED
      BY <3>1, <3>2, FS_CardinalityType
  <2>4. Len(marks') <= Cap + Cardinality(Unevicted') + faults'
    <3>1. CASE marks' = IF Len(marks) > Cap THEN Newest(marks) ELSE marks
      <4>1. Len(marks') <= Cap /\ Len(marks') \in Nat
        BY <1>0, <3>1 DEF TypeOK, Newest
      <4>. QED
        BY <1>0, <2>3, <4>1
    <3>2. CASE marks' = marks /\ faults' = faults + 1
      BY <1>0, <2>3, <3>2, UnevictedFinite
    <3>. QED
      BY <1>2, <3>1, <3>2 DEF Evict
  <2>. QED
    BY <2>4 DEF MarksBounded, Unevicted
<1>3. ASSUME NEW r \in Reqs,
             \/ Send(r) \/ CheckDedup(r) \/ Persist(r) \/ EnqueueEvent(r) \/ SkipCapture(r)
             \/ Rollback(r) \/ Disturb(r)
      PROVE  MarksBounded'
  <2>1. marks' = marks /\ faults' >= faults
    <3>1. marks' = marks
      BY <1>3 DEF Send, CheckDedup, Persist, CreateRequest, PutBody, ListConns, CreateEvents,
         EnqueueEvent, SkipCapture, Rollback, Disturb, Reject, CheckDedupFails,
         CreateEventsReplyLost, Fail, Crash
    <3>2. ASSUME Send(r) \/ CheckDedup(r) \/ Persist(r) \/ SkipCapture(r) PROVE faults' = faults
      BY <3>2 DEF Send, CheckDedup, Persist, CreateRequest, PutBody, ListConns, CreateEvents,
         SkipCapture
    <3>3. ASSUME EnqueueEvent(r) \/ Rollback(r) \/ Disturb(r)
          PROVE  faults' = faults \/ faults' = faults + 1
      BY <3>3 DEF EnqueueEvent, Rollback, Disturb, Reject, CheckDedupFails,
         CreateEventsReplyLost, Fail, Crash
    <3>4. faults' = faults \/ faults' = faults + 1
      BY <1>3, <3>2, <3>3
    <3>. QED
      BY <1>0, <3>1, <3>4
  <2>2. /\ \A q \in Reqs \ {r} : pc'[q] = pc[q]
        /\ pc[r] \in {"evict", "dead"} => pc'[r] = "dead"
    BY <1>3 DEF TypeOK, Send, CheckDedup, Persist, CreateRequest, PutBody, ListConns, CreateEvents,
       EnqueueEvent, SkipCapture, Rollback, Disturb, Reject, CheckDedupFails,
       CreateEventsReplyLost, Fail, Crash, Running
  <2>3. Unevicted \subseteq Unevicted'
    BY <2>2 DEF Unevicted
  <2>. QED
    BY <2>1, <2>3, MarksQuiet
<1>4. CASE Expire \/ UNCHANGED vars
  <2>1. marks' = marks /\ faults' >= faults /\ pc' = pc
    BY <1>0, <1>4 DEF Expire, vars
  <2>2. Unevicted \subseteq Unevicted'
    BY <2>1 DEF Unevicted
  <2>. QED
    BY <2>1, <2>2, MarksQuiet
<1>. QED
  BY <1>1, <1>2, <1>3, <1>4 DEF Next, handleIngest, Capture

-----------------------------------------------------------------------------
\* What a sender may rely on: once its transmissions are over, a 2xx (the answer
\* to a duplicate included) means that a transmission was fanned out, unless one
\* of the recorded exceptions happened; and the rule's bookmarks stay within its
\* cap but for captures not yet evicted and evictions that failed.
THEOREM SenderServed == SenderSpec => []WebhookKept
<1>. DEFINE IInv == TypeOK /\ ControlOK /\ EventHasBody /\ SenderControl /\ KeyKept /\ MarksBounded
<1>1. SenderInit => IInv
  <2>. SUFFICES ASSUME SenderInit PROVE IInv
    OBVIOUS
  <2>1. TypeOK /\ ControlOK /\ EventHasBody
    BY InitInv DEF SenderInit
  <2>2. SenderControl /\ KeyKept
    BY DEF SenderInit, Init, SenderControl, KeyKept
  <2>3. MarksBounded
    <3>1. Len(marks) = 0 /\ faults = 0 /\ Cap \in Nat
      BY IngestAssumption DEF SenderInit, Init
    <3>. QED
      BY <3>1, UnevictedFinite DEF MarksBounded, Unevicted
  <2>. QED
    BY <2>1, <2>2, <2>3
<1>2. IInv /\ [SenderNext]_<<vars, excused>> => IInv'
  <2>. SUFFICES ASSUME IInv, [SenderNext]_<<vars, excused>> PROVE IInv'
    OBVIOUS
  <2>1. [Next]_vars
    BY DEF SenderNext
  <2>2. TypeOK' /\ ControlOK' /\ EventHasBody'
    BY <2>1, TypeStep, ControlStep
  <2>. QED
    BY <2>1, <2>2, SenderControlStep, KeyKeptStep, MarksStep
<1>3. IInv => WebhookKept
  BY DEF WebhookKept, AcceptedNotLost, Settled, Satisfied, SenderControl, KeyKept, GotThrough
<1>. QED
  BY <1>1, <1>2, <1>3, PTL DEF SenderSpec

-----------------------------------------------------------------------------
(* The source cache, for every number of requests and edits.               *)

Begun == {e \in Edits : edit[e].pc # "new"}

\* One version per edit.
VersionsCounted == sver + rver = Cardinality(Begun)

\* Nobody knows of a version before it is written.
Written ==
    /\ \A e \in Edits : edit[e].s <= sver /\ edit[e].r <= rver
    /\ acked.s <= sver /\ acked.r <= rver
    /\ \A p \in Readers : req[p].sinceS <= acked.s /\ req[p].sinceR <= acked.r

\* A live entry is not older than an answered edit.
EntryFresh ==
    cache.live => /\ cache.s >= acked.s
                  /\ cache.kind = "found" => cache.r = NoRules \/ cache.r >= acked.r

\* Neither is what a lookup under way has read.
LookupsFresh ==
    \A p \in Readers :
        /\ req[p].pc \in {"rules", "store", "negative"} => req[p].s >= acked.s
        /\ req[p].pc = "store" => req[p].r = NoRules \/ req[p].r >= acked.r

Fresh == ~raced => EntryFresh /\ LookupsFresh /\ EffectiveImmediately

CacheInv == CacheTypeOK /\ VersionsCounted /\ Written /\ Fresh

-----------------------------------------------------------------------------
\* The edits begun are among finitely many.
LEMMA BegunFinite ==
    /\ IsFiniteSet(Edits) /\ Cardinality(Edits) \in Nat
    /\ IsFiniteSet(Begun) /\ Cardinality(Begun) \in Nat
    /\ Cardinality(Begun) <= Cardinality(Edits)
<1>1. IsFiniteSet(Edits)
  BY CacheAssumption
<1>2. Begun \subseteq Edits
  BY DEF Begun
<1>. QED
  BY <1>1, <1>2, FS_Subset, FS_CardinalityType

\* An edit that begins leaves room for one more version.
LEMMA BeginCounts ==
    ASSUME VersionsCounted, sver \in Nat, rver \in Nat, NEW e \in Edits, edit[e].pc = "new",
           Begun' = Begun \cup {e}, sver' + rver' = sver + rver + 1
    PROVE  VersionsCounted' /\ sver + 1 \in Versions /\ rver + 1 \in Versions
<1>1. e \notin Begun
  BY DEF Begun
<1>2. Cardinality(Begun \cup {e}) = Cardinality(Begun) + 1
  BY <1>1, BegunFinite, FS_AddElement
<1>3. Begun \cup {e} \subseteq Edits
  BY DEF Begun
<1>4. Cardinality(Begun \cup {e}) <= Cardinality(Edits)
  BY <1>3, BegunFinite, FS_Subset
<1>5. Cardinality(Begun') = Cardinality(Begun) + 1
  BY <1>2
<1>6. sver + rver = Cardinality(Begun)
  BY DEF VersionsCounted
<1>7. sver + 1 <= Cardinality(Edits) /\ rver + 1 <= Cardinality(Edits)
  BY <1>2, <1>4, <1>6, BegunFinite
<1>8. sver' + rver' = Cardinality(Begun')
  BY <1>5, <1>6
<1>. QED
  BY <1>7, <1>8, BegunFinite DEF VersionsCounted, Versions

LEMMA CacheInitInv == CacheInit => CacheInv
<1>. SUFFICES ASSUME CacheInit PROVE CacheInv
  OBVIOUS
<1>1. 0 \in Versions /\ 0 \in RuleVersions
  BY BegunFinite DEF Versions, RuleVersions
<1>2. CacheTypeOK
  <2>1. raced \in BOOLEAN
    BY DEF CacheInit
  <2>2. /\ cache \in [kind: {"none", "found", "missing"}, s: Versions, r: RuleVersions, live: BOOLEAN]
        /\ ~cache.live
    BY <1>1 DEF CacheInit, NoEntry
  <2>3. req \in [Readers -> [pc: CacheLabels, s: Versions, r: RuleVersions,
                          sinceS: Versions, sinceR: Versions, stale: BOOLEAN]]
    BY <1>1 DEF CacheInit, CacheLabels
  <2>4. /\ edit \in [Edits -> [pc: {"new", "lookup", "evict", "done"}, s: Versions, r: Versions]]
        /\ acked \in [s: Versions, r: Versions]
    BY <1>1 DEF CacheInit
  <2>5. src \in {"on", "off", "gone"} /\ sver \in Versions /\ rver \in Versions /\ fails \in 0..MaxFails
    BY <1>1, CacheAssumption DEF CacheInit
  <2>. QED
    BY <2>1, <2>2, <2>3, <2>4, <2>5 DEF CacheTypeOK
<1>3. VersionsCounted
  <2>1. Begun = {}
    BY DEF CacheInit, Begun
  <2>2. sver + rver = 0
    BY DEF CacheInit
  <2>. QED
    BY <2>1, <2>2, FS_EmptySet DEF VersionsCounted
<1>4. Written /\ Fresh
  BY DEF CacheInit, Written, Fresh, EntryFresh, LookupsFresh, EffectiveImmediately, NoEntry
<1>. QED
  BY <1>2, <1>3, <1>4 DEF CacheInv

-----------------------------------------------------------------------------
\* Versions are numbers.
LEMMA VersionsType == Versions \subseteq Nat /\ RuleVersions \subseteq Int /\ 0 \in Versions /\ NoRules = -1
  BY BegunFinite DEF Versions, RuleVersions, NoRules

ReqStates == [pc: CacheLabels, s: Versions, r: RuleVersions, sinceS: Versions, sinceR: Versions,
              stale: BOOLEAN]
Entries == [kind: {"none", "found", "missing"}, s: Versions, r: RuleVersions, live: BOOLEAN]

\* What CacheTypeOK says of the numbers.
LEMMA Numbers ==
    ASSUME CacheTypeOK
    PROVE  /\ sver \in Nat /\ rver \in Nat
           /\ acked.s \in Nat /\ acked.r \in Nat
           /\ cache \in Entries /\ cache.s \in Nat /\ cache.r \in Nat \cup {NoRules}
           /\ \A p \in Readers : /\ req[p] \in ReqStates
                              /\ req[p].s \in Nat /\ req[p].r \in Nat \cup {NoRules}
                              /\ req[p].sinceS \in Nat /\ req[p].sinceR \in Nat
           /\ \A e \in Edits : edit[e].s \in Nat /\ edit[e].r \in Nat
<1>. USE VersionsType
<1>1. sver \in Nat /\ rver \in Nat /\ acked.s \in Nat /\ acked.r \in Nat
  BY DEF CacheTypeOK
<1>2. cache \in Entries
  BY DEF CacheTypeOK, Entries
<1>3. cache.s \in Nat /\ cache.r \in Nat \cup {NoRules}
  BY <1>2 DEF Entries, RuleVersions
<1>4. ASSUME NEW p \in Readers PROVE req[p] \in ReqStates
  BY DEF CacheTypeOK, ReqStates
<1>5. ASSUME NEW p \in Readers
      PROVE  /\ req[p].s \in Nat /\ req[p].r \in Nat \cup {NoRules}
             /\ req[p].sinceS \in Nat /\ req[p].sinceR \in Nat
  BY <1>4 DEF ReqStates, RuleVersions
<1>6. ASSUME NEW e \in Edits PROVE edit[e].s \in Nat /\ edit[e].r \in Nat
  BY DEF CacheTypeOK
<1>. QED
  BY <1>1, <1>2, <1>3, <1>4, <1>5, <1>6

LEMMA NoEntryType == NoEntry \in Entries /\ ~NoEntry.live
  BY VersionsType DEF NoEntry, Entries, RuleVersions

\* A request writes nothing but its own state and the entry.
LEMMA RequestStep ==
    ASSUME CacheInv, NEW p \in Readers, resolveSource(p)
    PROVE  CacheInv'
<1>. USE VersionsType
<1>1. /\ UNCHANGED <<src, sver, rver, edit, acked, raced>>
      /\ fails' \in 0..MaxFails
  BY CacheAssumption DEF CacheInv, CacheTypeOK, resolveSource, Hit, Miss, Lookup, GetSourceByIngestToken,
     ListEnabledCaptureRules, StoreFound, StoreMissing, QueryFails
<1>2. PICK new \in ReqStates : req' = [req EXCEPT ![p] = new]
  BY DEF CacheInv, CacheTypeOK, resolveSource, Hit, Miss, Lookup, GetSourceByIngestToken, ReqStates,
     ListEnabledCaptureRules, StoreFound, StoreMissing, Answer, CacheLabels, RuleVersions
<1>3. cache' \in Entries /\ (cache'.live => cache'.kind # "none")
  <2>1. CASE cache' = cache \/ cache' = NoEntry
    BY <2>1, NoEntryType, Numbers DEF CacheInv, CacheTypeOK
  <2>2. CASE StoreFound(p)
    BY <2>2 DEF CacheInv, CacheTypeOK, StoreFound, Entries
  <2>3. CASE StoreMissing(p)
    BY <2>3 DEF CacheInv, CacheTypeOK, StoreMissing, Entries, RuleVersions
  <2>. QED
    BY <2>1, <2>2, <2>3 DEF resolveSource, Hit, Miss, Lookup, GetSourceByIngestToken,
       ListEnabledCaptureRules
<1>4. req \in [Readers -> ReqStates] /\ req' \in [Readers -> ReqStates]
  BY <1>2 DEF CacheInv, CacheTypeOK, ReqStates
<1>5. CacheTypeOK'
  BY <1>1, <1>3, <1>4 DEF CacheInv, CacheTypeOK, ReqStates, Entries
<1>6. VersionsCounted'
  <2>1. Begun' = Begun
    BY <1>1 DEF Begun
  <2>. QED
    BY <1>1, <2>1 DEF CacheInv, VersionsCounted
<1>7. req'[p] = new /\ \A q \in Readers \ {p} : req'[q] = req[q]
  BY <1>2, <1>4
<1>8. new.sinceS <= acked.s /\ new.sinceR <= acked.r
  BY <1>4, <1>7 DEF CacheInv, CacheTypeOK, Written, resolveSource, Hit, Miss, Lookup, GetSourceByIngestToken,
     ListEnabledCaptureRules, StoreFound, StoreMissing, Answer, ReqStates
<1>9. Written'
  BY <1>1, <1>7, <1>8 DEF CacheInv, Written
<1>10. ASSUME ~raced PROVE EntryFresh' /\ LookupsFresh' /\ EffectiveImmediately'
  <2>0. EntryFresh /\ LookupsFresh /\ EffectiveImmediately
    BY <1>10 DEF CacheInv, Fresh
  <2>1. /\ new.pc \in {"rules", "store", "negative"} => new.s >= acked.s
        /\ new.pc = "store" => new.r = NoRules \/ new.r >= acked.r
        /\ ~new.stale
        /\ EntryFresh'
    <3>1. CASE Hit(p)
      <4>1. ~(cache.s < acked.s) /\ ~(cache.kind = "found" /\ cache.r \in 0..(acked.r - 1))
        BY <2>0, <3>1, Numbers DEF Hit, CacheInv, EntryFresh
      <4>2. new = [req[p] EXCEPT !.sinceS = acked.s, !.sinceR = acked.r, !.stale = FALSE]
        BY <3>1, <4>1, <1>4, <1>7 DEF Hit
      <4>. QED
        BY <2>0, <3>1, <4>2, <1>1, Numbers DEF Hit, CacheInv, EntryFresh, ReqStates, CacheLabels
    <3>2. CASE Miss(p)
      BY <2>0, <3>2, <1>1, <1>4, <1>7 DEF Miss, NoEntry, CacheInv, CacheTypeOK, EntryFresh, EffectiveImmediately, ReqStates
    <3>3. CASE GetSourceByIngestToken(p)
      BY <2>0, <3>3, <1>1, <1>4, <1>7
      DEF GetSourceByIngestToken, CacheInv, CacheTypeOK, Written, EntryFresh, EffectiveImmediately, ReqStates
    <3>4. CASE ListEnabledCaptureRules(p)
      BY <2>0, <3>4, <1>1, <1>4, <1>7
      DEF ListEnabledCaptureRules, CacheInv, CacheTypeOK, Written, EntryFresh, LookupsFresh, EffectiveImmediately, ReqStates
    <3>5. CASE StoreFound(p)
      <4>1. req[p].s >= acked.s /\ req[p].s >= req[p].sinceS /\ (req[p].r # NoRules => req[p].r >= req[p].sinceR)
        BY <2>0, <3>5, Numbers DEF StoreFound, CacheInv, LookupsFresh, Written
      <4>2. new = [req[p] EXCEPT !.pc = "idle", !.stale = FALSE]
        <5>1. ~(req[p].s < req[p].sinceS \/ (req[p].r # NoRules /\ req[p].r < req[p].sinceR))
          BY <4>1, Numbers DEF CacheInv
        <5>. QED
          BY <3>5, <5>1, <1>4, <1>7 DEF StoreFound, Answer
      <4>3. EntryFresh'
        BY <2>0, <3>5, <4>1, <1>1, Numbers DEF StoreFound, CacheInv, EntryFresh, LookupsFresh
      <4>. QED
        BY <4>2, <4>3, Numbers DEF CacheInv, ReqStates
    <3>6. CASE StoreMissing(p)
      <4>1. req[p].s >= acked.s /\ req[p].s >= req[p].sinceS
        BY <2>0, <3>6, Numbers DEF StoreMissing, CacheInv, LookupsFresh, Written
      <4>2. new = [req[p] EXCEPT !.pc = "idle", !.stale = FALSE]
        <5>1. ~(req[p].s < req[p].sinceS \/ (NoRules # NoRules /\ NoRules < req[p].sinceR))
          BY <4>1, Numbers DEF CacheInv
        <5>. QED
          BY <3>6, <5>1, <1>4, <1>7 DEF StoreMissing, Answer
      <4>3. EntryFresh'
        BY <2>0, <3>6, <4>1, <1>1, Numbers DEF StoreMissing, CacheInv, EntryFresh, LookupsFresh
      <4>. QED
        BY <4>2, <4>3, Numbers DEF CacheInv, ReqStates
    <3>. QED
      BY <3>1, <3>2, <3>3, <3>4, <3>5, <3>6 DEF resolveSource, Lookup
  <2>2. LookupsFresh'
    BY <2>0, <2>1, <1>1, <1>7 DEF LookupsFresh
  <2>3. EffectiveImmediately'
    BY <2>0, <2>1, <1>1, <1>7 DEF EffectiveImmediately
  <2>. QED
    BY <2>1, <2>2, <2>3
<1>. QED
  BY <1>1, <1>5, <1>6, <1>9, <1>10 DEF CacheInv, Fresh

\* PatchSource, DeleteSource and the rule handlers, up to their database write.
LEMMA EditStep ==
    ASSUME CacheInv, NEW e \in Edits, EditSource(e) \/ EditRules(e)
    PROVE  CacheInv'
<1>. USE VersionsType
<1>1. /\ UNCHANGED <<cache, req, acked, raced, fails>> /\ src' \in {"on", "off", "gone"}
      /\ edit[e].pc = "new"
      /\ sver \in Nat /\ rver \in Nat /\ sver' \in Nat /\ rver' \in Nat
      /\ sver' >= sver /\ rver' >= rver /\ sver' + rver' = sver + rver + 1
      /\ sver' \in {sver, sver + 1} /\ rver' \in {rver, rver + 1}
  <2>1. sver \in Nat /\ rver \in Nat
    BY Numbers DEF CacheInv
  <2>2. CASE EditSource(e)
    BY <2>1, <2>2 DEF EditSource
  <2>3. CASE EditRules(e)
    BY <2>1, <2>3 DEF EditRules, CacheInv, CacheTypeOK
  <2>. QED
    BY <2>2, <2>3
<1>2. PICK new \in [pc: {"lookup", "evict"}, s: {0, sver'}, r: {0, rver'}] :
         edit' = [edit EXCEPT ![e] = new]
  BY <1>1 DEF EditSource, EditRules
<1>3. edit'[e] = new /\ \A d \in Edits \ {e} : edit'[d] = edit[d]
  BY <1>2 DEF CacheInv, CacheTypeOK
<1>4. Begun' = Begun \cup {e}
  BY <1>3 DEF Begun
<1>5. VersionsCounted' /\ sver + 1 \in Versions /\ rver + 1 \in Versions
  BY <1>1, <1>4, BeginCounts DEF CacheInv
<1>6. sver' \in Versions /\ rver' \in Versions
  BY <1>1, <1>5 DEF CacheInv, CacheTypeOK
<1>7. CacheTypeOK'
  BY <1>1, <1>2, <1>6 DEF CacheInv, CacheTypeOK
<1>8. Written'
  <2>1. ASSUME NEW d \in Edits PROVE edit'[d].s <= sver' /\ edit'[d].r <= rver'
    <3>1. CASE d = e
      BY <3>1, <1>1, <1>3
    <3>2. CASE d # e
      BY <3>2, <1>1, <1>3, Numbers DEF CacheInv, Written
    <3>. QED
      BY <3>1, <3>2
  <2>2. acked'.s <= sver' /\ acked'.r <= rver'
    BY <1>1, Numbers DEF CacheInv, Written
  <2>. QED
    BY <1>1, <2>1, <2>2 DEF CacheInv, Written
<1>9. Fresh'
  BY <1>1 DEF CacheInv, Fresh, EntryFresh, LookupsFresh, EffectiveImmediately
<1>. QED
  BY <1>5, <1>7, <1>8, <1>9 DEF CacheInv

\* The end of an edit: answered with or without an eviction.
LEMMA AnswerStep ==
    ASSUME CacheInv, NEW e \in Edits, FindToken(e) \/ InvalidateSource(e)
    PROVE  CacheInv'
<1>. USE VersionsType
<1>1. /\ UNCHANGED <<src, sver, rver, req>> /\ fails' \in 0..MaxFails
      /\ edit[e].pc \in {"lookup", "evict"}
      /\ cache' \in {cache, NoEntry}
      /\ raced => raced'
  BY CacheAssumption DEF CacheInv, CacheTypeOK, FindToken, InvalidateSource, QueryFails
<1>2. PICK label \in {"evict", "done"} : edit' = [edit EXCEPT ![e].pc = label]
  BY DEF FindToken, InvalidateSource, Done
<1>3. /\ edit'[e] = [edit[e] EXCEPT !.pc = label]
      /\ \A d \in Edits \ {e} : edit'[d] = edit[d]
  BY <1>2 DEF CacheInv, CacheTypeOK
<1>4. acked' = acked \/ acked' = [s |-> Newer(acked.s, edit[e].s), r |-> Newer(acked.r, edit[e].r)]
  BY DEF FindToken, InvalidateSource, Done
<1>5. /\ acked' \in [s: Versions, r: Versions]
      /\ acked'.s \in {acked.s, edit[e].s} /\ acked'.r \in {acked.r, edit[e].r}
      /\ acked'.s >= acked.s /\ acked'.r >= acked.r
  <2>1. acked \in [s: Versions, r: Versions] /\ edit[e].s \in Versions /\ edit[e].r \in Versions
    BY DEF CacheInv, CacheTypeOK
  <2>2. CASE acked' = acked
    <3>1. acked.s \in Nat /\ acked.r \in Nat
      BY <2>1
    <3>. QED
      BY <2>1, <2>2, <3>1
  <2>3. CASE acked' = [s |-> Newer(acked.s, edit[e].s), r |-> Newer(acked.r, edit[e].r)]
    <3>1. /\ Newer(acked.s, edit[e].s) \in {acked.s, edit[e].s} /\ Newer(acked.s, edit[e].s) >= acked.s
          /\ Newer(acked.r, edit[e].r) \in {acked.r, edit[e].r} /\ Newer(acked.r, edit[e].r) >= acked.r
      BY Numbers DEF CacheInv, Newer
    <3>. QED
      BY <2>1, <2>3, <3>1
  <2>. QED
    BY <1>4, <2>2, <2>3
<1>6. raced' \in BOOLEAN
  BY DEF CacheInv, CacheTypeOK, FindToken, InvalidateSource
<1>7. CacheTypeOK'
  <2>1. cache' \in Entries /\ (cache'.live => cache'.kind # "none")
    BY <1>1, NoEntryType, Numbers DEF CacheInv, CacheTypeOK
  <2>2. edit' \in [Edits -> [pc: {"new", "lookup", "evict", "done"}, s: Versions, r: Versions]]
    BY <1>2 DEF CacheInv, CacheTypeOK
  <2>. QED
    BY <1>1, <1>5, <1>6, <2>1, <2>2 DEF CacheInv, CacheTypeOK, Entries
<1>8. VersionsCounted'
  <2>1. Begun' = Begun
    BY <1>1, <1>3 DEF Begun, CacheInv, CacheTypeOK
  <2>. QED
    BY <1>1, <2>1 DEF CacheInv, VersionsCounted
<1>9. Written'
  BY <1>1, <1>3, <1>5 DEF CacheInv, CacheTypeOK, Written
<1>10. Fresh'
  <2>. SUFFICES ASSUME ~raced' PROVE EntryFresh' /\ LookupsFresh' /\ EffectiveImmediately'
    BY DEF Fresh
  <2>0. EntryFresh /\ LookupsFresh /\ EffectiveImmediately
    BY <1>1 DEF CacheInv, Fresh
  <2>1. EffectiveImmediately'
    BY <2>0, <1>1 DEF EffectiveImmediately
  <2>2. CASE acked' = acked
    BY <2>0, <2>1, <2>2, <1>1 DEF EntryFresh, LookupsFresh, NoEntry
  <2>3. CASE InvalidateSource(e) /\ ~Overtaken(e)
    <3>1. EntryFresh'
      BY <2>3, NoEntryType DEF InvalidateSource, EntryFresh
    <3>2. LookupsFresh'
      BY <2>0, <2>3, <1>1, <1>5, Numbers DEF LookupsFresh, Overtaken, CacheInv
    <3>. QED
      BY <2>1, <3>1, <3>2
  <2>. QED
    BY <2>1, <2>2, <2>3 DEF FindToken, InvalidateSource
<1>. QED
  BY <1>7, <1>8, <1>9, <1>10 DEF CacheInv

\* Time, and the sweep.
LEMMA ClockStep == ASSUME CacheInv, EntryLapses \/ Sweep PROVE CacheInv'
<1>. USE VersionsType
<1>1. /\ UNCHANGED <<src, sver, rver, req, edit, acked, raced, fails>>
      /\ cache' \in Entries /\ ~cache'.live
  <2>1. CASE EntryLapses
    BY <2>1, Numbers DEF CacheInv, EntryLapses, Entries
  <2>2. CASE Sweep
    BY <2>2, NoEntryType DEF Sweep
  <2>. QED
    BY <2>1, <2>2
<1>2. CacheTypeOK'
  BY <1>1 DEF CacheInv, CacheTypeOK, Entries
<1>3. VersionsCounted' /\ Written'
  BY <1>1 DEF CacheInv, VersionsCounted, Begun, Written
<1>4. Fresh'
  BY <1>1 DEF CacheInv, Fresh, EntryFresh, LookupsFresh, EffectiveImmediately
<1>. QED
  BY <1>2, <1>3, <1>4 DEF CacheInv

-----------------------------------------------------------------------------
\* "Edits take effect immediately", except when a lookup that had read the older
\* row was under way at the eviction, or the eviction was skipped: with any number
\* of requests and edits, hits, misses, expiries and other edits never bring an
\* older row back (resolveSource, InvalidateSource).
THEOREM EditsTakeEffect == CacheSpec => []EffectiveUnlessOvertaken
<1>1. CacheInv /\ [CacheNext]_cacheVars => CacheInv'
  <2>. SUFFICES ASSUME CacheInv, [CacheNext]_cacheVars PROVE CacheInv'
    OBVIOUS
  <2>1. CASE UNCHANGED cacheVars
    BY <2>1 DEF cacheVars, CacheInv, CacheTypeOK, VersionsCounted, Begun, Written, Fresh, EntryFresh, LookupsFresh,
       EffectiveImmediately
  <2>. QED
    BY <2>1, RequestStep, EditStep, AnswerStep, ClockStep DEF CacheNext, Console
<1>2. CacheInv => EffectiveUnlessOvertaken
  BY DEF CacheInv, Fresh, EffectiveUnlessOvertaken
<1>. QED
  BY CacheInitInv, <1>1, <1>2, PTL DEF CacheSpec

-----------------------------------------------------------------------------
(* The CLI tunnel: where the copies of an event are. *)

\* What the worker has and has not passed on.
InHand == IF stage \in {"pick", "ack"} THEN None ELSE hold.evt.ev

Spots(e, wt, hd, ls, pp, jb) ==
    {<<"queue", i, i>> : i \in {i \in Items : i.ev = e /\ wt[i] > 0}}
    \cup {<<"hand", h, h>> : h \in {h \in {e} : hd = e}}
    \cup {<<"list", k, k>> : k \in {k \in DOMAIN ls : ls[k] = e}}
    \cup {<<"popped", c, c>> : c \in {c \in Sockets : pp[c] = e}}
    \cup {<<"job", x[1], x[2]>> : x \in {x \in Sockets \X Slots : jb[x[1]][x[2]].ev = e}}

Copies == [e \in Events |-> Spots(e, waiting, InHand, list, popped, job)]

\* The events that never were in the system twice, while no call has failed.
Clean == IF used.faults = 0 THEN Events \ doubled ELSE {}

Live == {"queued", "in_flight"}

OneCopy ==
    \A e \in Clean : /\ \A x, y \in Copies[e] : x = y
                     /\ \A i \in Items : i.ev = e => waiting[i] <= 1

\* Nobody has an event in hand that is settled.
Alive == \A e \in Clean : Copies[e] # {} => status[e] \in Live

\* The connection that registered last, and is open, has the key.
KeyHeld ==
    \A c \in Sockets : conn[c] = "on" /\ c \notin overwritten /\ used.faults = 0 => session = c

\* The worker's lease is the only one.
LeaseHeld == used.faults = 0 => leased = {hold} \ {None} /\ lapsed = {}

Closed ==
    \A c \in Sockets : conn[c] # "on" => /\ popped[c] = None
                                         /\ \A s \in Slots : job[c][s] = Idle
                                         /\ \A e \in Events : chan[c][e] = None

\* A channel is that of a goroutine which has the event and is past its load.
ChanOwned ==
    \A c \in Sockets, e \in Events : chan[c][e] # None =>
        job[c][chan[c][e]].ev = e /\ job[c][chan[c][e]].pc \in {"write", "wait"}

\* A goroutine without an answer has its channel.
Hears ==
    \A c \in Sockets, s \in Slots :
        job[c][s].pc \in {"write", "wait"} /\ job[c][s].resp = None /\ job[c][s].ev \in Clean
            => chan[c][job[c][s].ev] = s

TunnelInv ==
    /\ TunnelTypeOK /\ KeyHeld /\ LeaseHeld /\ Closed /\ ChanOwned /\ Hears
    /\ OneCopy /\ Alive /\ AnswersHeard

\* The body of DeliveredStays.
Stays ==
    \A e \in Events :
        status[e] = "delivered" /\ status'[e] # "delivered"
            => e \in doubled' \/ used.faults > 0 \/ RetryEvent(e)

TunnelGood == TunnelInv' /\ Stays

LEMMA SpotsIn ==
  ASSUME NEW e, NEW wt, NEW hd, NEW ls, NEW pp, NEW jb, NEW x
  PROVE  x \in Spots(e, wt, hd, ls, pp, jb) <=>
           \/ \E i \in Items : x = <<"queue", i, i>> /\ i.ev = e /\ wt[i] > 0
           \/ x = <<"hand", e, e>> /\ hd = e
           \/ \E k \in DOMAIN ls : x = <<"list", k, k>> /\ ls[k] = e
           \/ \E c \in Sockets : x = <<"popped", c, c>> /\ pp[c] = e
           \/ \E c \in Sockets, s \in Slots : x = <<"job", c, s>> /\ jb[c][s].ev = e
<1>1. (\E y \in {y \in Sockets \X Slots : jb[y[1]][y[2]].ev = e} : x = <<"job", y[1], y[2]>>)
         <=> \E c \in Sockets, s \in Slots : x = <<"job", c, s>> /\ jb[c][s].ev = e
  <2>1. ASSUME NEW c \in Sockets, NEW s \in Slots, x = <<"job", c, s>>, jb[c][s].ev = e
        PROVE  \E y \in {y \in Sockets \X Slots : jb[y[1]][y[2]].ev = e} : x = <<"job", y[1], y[2]>>
    <3>1. <<c, s>> \in Sockets \X Slots /\ <<c, s>>[1] = c /\ <<c, s>>[2] = s
      OBVIOUS
    <3>. QED
      BY <2>1, <3>1
  <2>. QED
    BY <2>1
<1>. QED
  BY <1>1 DEF Spots

\* Where an event that moved is, and where the others are.
LEMMA CopyMoved ==
  ASSUME TunnelInv, Clean' \subseteq Clean,
         \A e \in Clean' :
            \/ /\ Copies'[e] \subseteq Copies[e]
               /\ status'[e] = status[e] \/ status'[e] \in Live \/ Copies'[e] = {}
               /\ \A i \in Items : i.ev = e => waiting'[i] <= waiting[i]
            \/ /\ \A x, y \in Copies'[e] : x = y
               /\ status'[e] \in Live \/ (status'[e] = status[e] /\ Copies[e] # {})
               /\ \A i \in Items : i.ev = e => waiting'[i] <= 1,
         waiting' \in [Items -> Nat]
  PROVE  OneCopy' /\ Alive'
<1>1. waiting \in [Items -> Nat]
  BY DEF TunnelInv, TunnelTypeOK, LeaseTypeOK
<1>2. OneCopy'
  BY <1>1 DEF TunnelInv, OneCopy
<1>3. Alive'
  BY DEF TunnelInv, Alive
<1>. QED
  BY <1>2, <1>3

UsedNow == used' \in [faults: 0..MaxDisturbances, extra: 0..MaxDisturbances]

LEMMA TunnelFrames ==
  ASSUME TunnelInv, UsedNow, used'.faults >= used.faults, doubled \subseteq doubled'
  PROVE  /\ Clean' \subseteq Clean
         /\ UNCHANGED <<conn, overwritten, session>> => KeyHeld'
         /\ UNCHANGED <<leased, lapsed, hold>> => LeaseHeld'
         /\ UNCHANGED <<conn, popped, job, chan>> => Closed'
         /\ UNCHANGED <<job, chan>> => ChanOwned' /\ Hears'
         /\ UNCHANGED unheard => AnswersHeard'
         /\ UNCHANGED <<waiting, stage, hold, list, popped, job>> => Copies' = Copies
         /\ UNCHANGED status => Stays
         /\ UNCHANGED <<waiting, stage, hold, list, popped, job, status>> => OneCopy' /\ Alive'
<1>0. TunnelTypeOK /\ used.faults \in Nat /\ used'.faults \in Nat
  BY DEF TunnelInv, TunnelTypeOK, UsedNow
<1>1. Clean' \subseteq Clean /\ (used'.faults = 0 => used.faults = 0)
  BY <1>0 DEF Clean
<1>2. UNCHANGED <<conn, overwritten, session>> => KeyHeld'
  BY <1>1 DEF TunnelInv, KeyHeld
<1>3. UNCHANGED <<leased, lapsed, hold>> => LeaseHeld'
  BY <1>1 DEF TunnelInv, LeaseHeld
<1>4. UNCHANGED <<conn, popped, job, chan>> => Closed'
  BY DEF TunnelInv, Closed
<1>5. UNCHANGED <<job, chan>> => ChanOwned' /\ Hears'
  BY <1>1 DEF TunnelInv, ChanOwned, Hears
<1>6. UNCHANGED unheard => AnswersHeard'
  BY <1>0 DEF TunnelInv, AnswersHeard
<1>7. UNCHANGED <<waiting, stage, hold, list, popped, job>> => Copies' = Copies
  BY DEF Copies, InHand
<1>8. UNCHANGED status => Stays
  BY DEF Stays
<1>9. UNCHANGED <<waiting, stage, hold, list, popped, job, status>> => OneCopy' /\ Alive'
  BY <1>1, <1>7 DEF TunnelInv, OneCopy, Alive
<1>. QED
  BY <1>1, <1>2, <1>3, <1>4, <1>5, <1>6, <1>7, <1>8, <1>9

LEMMA UsedSteps ==
  ASSUME TunnelTypeOK
  PROVE  /\ UNCHANGED used => UsedNow /\ used'.faults >= used.faults
         /\ TunnelFault => UsedNow /\ used'.faults >= used.faults /\ used'.faults > 0
         /\ Extra => UsedNow /\ used'.faults >= used.faults
<1>1. /\ used.faults \in 0..MaxDisturbances /\ used.extra \in 0..MaxDisturbances /\ MaxDisturbances \in Nat
      /\ used \in [faults: 0..MaxDisturbances, extra: 0..MaxDisturbances]
  BY CliBound DEF TunnelTypeOK
<1>2. TunnelFault => UsedNow /\ used'.faults = used.faults + 1
  BY <1>1 DEF TunnelFault, MayDisturb, UsedNow
<1>3. Extra => UsedNow /\ used'.faults = used.faults
  BY <1>1 DEF Extra, MayDisturb, UsedNow
<1>. QED
  BY <1>1, <1>2, <1>3 DEF UsedNow

\* Once a call has failed nothing is claimed of the copies.
LEMMA Dirty ==
  ASSUME UsedNow, used'.faults > 0
  PROVE  Clean' = {} /\ KeyHeld' /\ LeaseHeld' /\ Hears' /\ OneCopy' /\ Alive' /\ AnswersHeard'
<1>1. used'.faults # 0 /\ Clean' = {}
  BY DEF UsedNow, Clean
<1>. QED
  BY <1>1 DEF KeyHeld, LeaseHeld, Hears, OneCopy, Alive, AnswersHeard

\* An event that is nowhere has no copy.
LEMMA AbsentEmpty ==
  ASSUME TunnelInv, NEW e \in Clean, ~Present(e)
  PROVE  /\ Copies[e] = {}
         /\ \A i \in Items : i.ev = e => waiting[i] = 0
<1>0. /\ TunnelTypeOK /\ Closed /\ LeaseHeld /\ used.faults = 0 /\ e \in Events
  BY DEF TunnelInv, Clean
<1>1. \A i \in Items : i.ev = e => waiting[i] = 0
  BY <1>0 DEF Present, Attended, TunnelTypeOK, LeaseTypeOK
<1>2. InHand # e
  <2>1. ASSUME InHand = e PROVE FALSE
    <3>1. stage # "pick" /\ hold # None /\ hold.evt.ev = e
      BY <1>0, <2>1, CliNone DEF InHand, TunnelTypeOK
    <3>2. hold \in leased
      BY <1>0, <3>1 DEF LeaseHeld
    <3>. QED
      BY <3>1, <3>2 DEF Present, Attended
  <2>. QED
    BY <2>1
<1>3. \A k \in DOMAIN list : list[k] # e
  BY DEF Present
<1>4. \A c \in Sockets : popped[c] # e
  BY DEF Present, Attended
<1>5. \A c \in Sockets, s \in Slots : job[c][s].ev # e
  <2>1. Idle.ev = None /\ e # None
    BY <1>0, CliNone DEF Idle
  <2>. QED
    BY <1>0, <2>1 DEF Present, Attended, Serving, Closed
<1>6. ASSUME NEW x \in Copies[e] PROVE FALSE
  <2>1. x \in Spots(e, waiting, InHand, list, popped, job)
    BY <1>0 DEF Copies
  <2>2. \/ \E i \in Items : i.ev = e /\ waiting[i] > 0
        \/ InHand = e
        \/ \E k \in DOMAIN list : list[k] = e
        \/ \E c \in Sockets : popped[c] = e
        \/ \E c \in Sockets, s \in Slots : job[c][s].ev = e
    BY <2>1, SpotsIn
  <2>. QED
    BY <1>1, <1>2, <1>3, <1>4, <1>5, <2>2
<1>. QED
  BY <1>1, <1>6

\* Fewer things hold the event, so it is in fewer places.
LEMMA SpotsMono ==
  ASSUME NEW e, NEW wt, NEW hd, NEW ls, NEW pp, NEW jb, NEW wt2, NEW hd2, NEW ls2, NEW pp2, NEW jb2,
         \A i \in Items : i.ev = e /\ wt2[i] > 0 => wt[i] > 0,
         hd2 = e => hd = e,
         \A k \in DOMAIN ls2 : ls2[k] = e => k \in DOMAIN ls /\ ls[k] = e,
         \A c \in Sockets : pp2[c] = e => pp[c] = e,
         \A c \in Sockets, s \in Slots : jb2[c][s].ev = e => jb[c][s].ev = e
  PROVE  Spots(e, wt2, hd2, ls2, pp2, jb2) \subseteq Spots(e, wt, hd, ls, pp, jb)
<1>1. SUFFICES ASSUME NEW x \in Spots(e, wt2, hd2, ls2, pp2, jb2)
               PROVE  x \in Spots(e, wt, hd, ls, pp, jb)
  OBVIOUS
<1>2. \/ \E i \in Items : x = <<"queue", i, i>> /\ i.ev = e /\ wt2[i] > 0
      \/ x = <<"hand", e, e>> /\ hd2 = e
      \/ \E k \in DOMAIN ls2 : x = <<"list", k, k>> /\ ls2[k] = e
      \/ \E c \in Sockets : x = <<"popped", c, c>> /\ pp2[c] = e
      \/ \E c \in Sockets, s \in Slots : x = <<"job", c, s>> /\ jb2[c][s].ev = e
  BY <1>1, SpotsIn
<1>3. \/ \E i \in Items : x = <<"queue", i, i>> /\ i.ev = e /\ wt[i] > 0
      \/ x = <<"hand", e, e>> /\ hd = e
      \/ \E k \in DOMAIN ls : x = <<"list", k, k>> /\ ls[k] = e
      \/ \E c \in Sockets : x = <<"popped", c, c>> /\ pp[c] = e
      \/ \E c \in Sockets, s \in Slots : x = <<"job", c, s>> /\ jb[c][s].ev = e
  BY <1>2
<1>. QED
  BY <1>3, SpotsIn

\* An event that is nowhere but at x is in one place at most.
LEMMA SpotsOnly ==
  ASSUME NEW e, NEW wt, NEW hd, NEW ls, NEW pp, NEW jb, NEW z,
         \A i \in Items : i.ev = e /\ wt[i] > 0 => z = <<"queue", i, i>>,
         hd = e => z = <<"hand", e, e>>,
         \A k \in DOMAIN ls : ls[k] = e => z = <<"list", k, k>>,
         \A c \in Sockets : pp[c] = e => z = <<"popped", c, c>>,
         \A c \in Sockets, s \in Slots : jb[c][s].ev = e => z = <<"job", c, s>>
  PROVE  Spots(e, wt, hd, ls, pp, jb) \subseteq {z}
<1>1. SUFFICES ASSUME NEW x \in Spots(e, wt, hd, ls, pp, jb) PROVE x = z
  OBVIOUS
<1>2. \/ \E i \in Items : x = <<"queue", i, i>> /\ i.ev = e /\ wt[i] > 0
      \/ x = <<"hand", e, e>> /\ hd = e
      \/ \E k \in DOMAIN ls : x = <<"list", k, k>> /\ ls[k] = e
      \/ \E c \in Sockets : x = <<"popped", c, c>> /\ pp[c] = e
      \/ \E c \in Sockets, s \in Slots : x = <<"job", c, s>> /\ jb[c][s].ev = e
  BY <1>1, SpotsIn
<1>. QED
  BY <1>2

\* The places of a clean event, once one of them is known.
LEMMA Alone ==
  ASSUME TunnelInv, NEW e \in Clean, NEW z,
         \/ \E i \in Items : z = <<"queue", i, i>> /\ i.ev = e /\ waiting[i] > 0
         \/ z = <<"hand", e, e>> /\ InHand = e
         \/ \E k \in DOMAIN list : z = <<"list", k, k>> /\ list[k] = e
         \/ \E c \in Sockets : z = <<"popped", c, c>> /\ popped[c] = e
         \/ \E c \in Sockets, s \in Slots : z = <<"job", c, s>> /\ job[c][s].ev = e
  PROVE  /\ Copies[e] # {} /\ status[e] \in Live
         /\ \A i \in Items : i.ev = e => waiting[i] <= 1
         /\ \A i \in Items : i.ev = e /\ waiting[i] > 0 => z = <<"queue", i, i>>
         /\ InHand = e => z = <<"hand", e, e>>
         /\ \A k \in DOMAIN list : list[k] = e => z = <<"list", k, k>>
         /\ \A c \in Sockets : popped[c] = e => z = <<"popped", c, c>>
         /\ \A c \in Sockets, s \in Slots : job[c][s].ev = e => z = <<"job", c, s>>
<1>. DEFINE S == Spots(e, waiting, InHand, list, popped, job)
<1>0. OneCopy /\ Alive /\ e \in Events
  BY DEF TunnelInv, Clean
<1>1. Copies[e] = S
  BY <1>0 DEF Copies
<1>2. z \in S
  BY SpotsIn
<1>. HIDE DEF S
<1>3. \A y \in S : z = y
  BY <1>0, <1>1, <1>2 DEF OneCopy
<1>4. \A i \in Items : i.ev = e /\ waiting[i] > 0 => <<"queue", i, i>> \in S
  BY SpotsIn DEF S
<1>5. InHand = e => <<"hand", e, e>> \in S
  BY SpotsIn DEF S
<1>6. \A k \in DOMAIN list : list[k] = e => <<"list", k, k>> \in S
  BY SpotsIn DEF S
<1>7. \A c \in Sockets : popped[c] = e => <<"popped", c, c>> \in S
  BY SpotsIn DEF S
<1>8. \A c \in Sockets, s \in Slots : job[c][s].ev = e => <<"job", c, s>> \in S
  BY SpotsIn DEF S
<1>9. Copies[e] # {} /\ status[e] \in Live /\ \A i \in Items : i.ev = e => waiting[i] <= 1
  BY <1>0, <1>1, <1>2 DEF OneCopy, Alive
<1>. QED
  BY <1>3, <1>4, <1>5, <1>6, <1>7, <1>8, <1>9

-----------------------------------------------------------------------------
(* An event enters the queue. *)

LEMMA PutGood ==
  ASSUME TunnelInv, NEW e \in Events, NEW i \in Items, i.ev = e, Put(i) \/ UNCHANGED leaseVars,
         SetStatus(e, "queued"), UsedNow, used'.faults >= used.faults,
         doubled \subseteq doubled', doubled' \subseteq Events, Present(e) => e \in doubled',
         UNCHANGED <<old, session, list, worker, tunnel, unheard, overwritten>>
  PROVE  TunnelInv'
<1>0. TunnelTypeOK /\ waiting \in [Items -> Nat]
  BY DEF TunnelInv, TunnelTypeOK, LeaseTypeOK
<1>1. UNCHANGED <<old, session, list, stage, hold, conn, popped, job, chan, frames, unheard, overwritten>>
  BY DEF worker, tunnel
<1>2. /\ UNCHANGED <<leased, lapsed>> /\ waiting' \in [Items -> Nat]
      /\ \A j \in Items : j # i => waiting'[j] = waiting[j]
      /\ waiting'[i] <= waiting[i] + 1
  BY <1>0 DEF Put, leaseVars
<1>3. status' = [status EXCEPT ![e] = "queued"] /\ stale' = [stale EXCEPT ![e] = FALSE]
  BY DEF SetStatus
<1>4. TunnelTypeOK'
  BY <1>0, <1>1, <1>2, <1>3 DEF TunnelTypeOK, LeaseTypeOK, UsedNow
<1>5. KeyHeld' /\ LeaseHeld' /\ Closed' /\ ChanOwned' /\ Hears' /\ AnswersHeard' /\ Clean' \subseteq Clean
  BY <1>1, <1>2, TunnelFrames
<1>6. UNCHANGED InHand
  BY <1>1 DEF InHand
<1>7. ASSUME NEW f \in Clean'
      PROVE  \/ /\ Copies'[f] \subseteq Copies[f]
                /\ status'[f] = status[f] \/ status'[f] \in Live \/ Copies'[f] = {}
                /\ \A j \in Items : j.ev = f => waiting'[j] <= waiting[j]
             \/ /\ \A x, y \in Copies'[f] : x = y
                /\ status'[f] \in Live \/ (status'[f] = status[f] /\ Copies[f] # {})
                /\ \A j \in Items : j.ev = f => waiting'[j] <= 1
  <2>0. f \in Clean /\ f \in Events /\ f \notin doubled'
    BY <1>5 DEF Clean
  <2>1. Copies[f] = Spots(f, waiting, InHand, list, popped, job)
    BY <2>0 DEF Copies
  <2>2. Copies'[f] = Spots(f, waiting', InHand, list, popped, job)
    BY <1>1, <1>6, <2>0 DEF Copies
  <2>3. CASE f # e
    <3>1. \A j \in Items : j.ev = f => waiting'[j] = waiting[j]
      BY <1>2, <2>3
    <3>2. Copies'[f] \subseteq Copies[f]
      BY <2>1, <2>2, <3>1, SpotsMono
    <3>3. status'[f] = status[f]
      BY <1>0, <1>3, <2>0, <2>3 DEF TunnelTypeOK
    <3>. QED
      BY <1>0, <3>1, <3>2, <3>3
  <2>4. CASE f = e
    <3>1. Copies[e] = {} /\ \A j \in Items : j.ev = e => waiting[j] = 0
      BY <2>0, <2>4, AbsentEmpty
    <3>2. Copies'[e] \subseteq {<<"queue", i, i>>}
      <4>1. /\ \A j \in Items : j.ev = e /\ waiting'[j] > 0 => <<"queue", i, i>> = <<"queue", j, j>>
            /\ InHand # e /\ (\A k \in DOMAIN list : list[k] # e) /\ (\A c \in Sockets : popped[c] # e)
            /\ \A c \in Sockets, s \in Slots : job[c][s].ev # e
        <5>1. \A j \in Items : j.ev = e /\ waiting'[j] > 0 => j = i
          BY <1>0, <1>2, <3>1
        <5>2. \A x : x \notin Spots(e, waiting, InHand, list, popped, job)
          BY <2>1, <2>4, <3>1
        <5>3. InHand # e
          BY <5>2, SpotsIn
        <5>4. \A k \in DOMAIN list : list[k] # e
          BY <5>2, SpotsIn
        <5>5. \A c \in Sockets : popped[c] # e
          BY <5>2, SpotsIn
        <5>6. \A c \in Sockets, s \in Slots : job[c][s].ev # e
          BY <5>2, SpotsIn
        <5>. QED
          BY <5>1, <5>3, <5>4, <5>5, <5>6
      <4>. DEFINE z == <<"queue", i, i>>
      <4>2. /\ \A j \in Items : j.ev = e /\ waiting'[j] > 0 => z = <<"queue", j, j>>
            /\ InHand = e => z = <<"hand", e, e>>
            /\ \A k \in DOMAIN list : list[k] = e => z = <<"list", k, k>>
            /\ \A c \in Sockets : popped[c] = e => z = <<"popped", c, c>>
            /\ \A c \in Sockets, s \in Slots : job[c][s].ev = e => z = <<"job", c, s>>
        BY <4>1
      <4>3. Spots(e, waiting', InHand, list, popped, job) \subseteq {z}
        <5>. HIDE DEF z
        <5>. QED
          BY <4>2, SpotsOnly
      <4>. QED
        BY <2>2, <2>4, <4>3
    <3>3. status'[e] \in Live
      BY <1>0, <1>3 DEF TunnelTypeOK, Live
    <3>4. \A j \in Items : j.ev = e => waiting'[j] <= 1
      BY <1>0, <1>2, <3>1
    <3>. QED
      BY <2>4, <3>2, <3>3, <3>4
  <2>. QED
    BY <2>3, <2>4
<1>8. OneCopy' /\ Alive'
  BY <1>2, <1>5, <1>7, CopyMoved
<1>. QED
  BY <1>4, <1>5, <1>8 DEF TunnelInv

LEMMA ProducerGood ==
  ASSUME TunnelInv, NEW e \in Events, CreateEvent(e) \/ RetryEvent(e) \/ ClaimStuck(e)
  PROVE  TunnelGood
<1>0. TunnelTypeOK
  BY DEF TunnelInv
<1>1. /\ SetStatus(e, "queued")
      /\ UNCHANGED <<old, session, list, worker, tunnel, unheard, overwritten>>
  BY DEF CreateEvent, RetryEvent, ClaimStuck
<1>2. PICK i \in Items : i.ev = e /\ (Put(i) \/ UNCHANGED leaseVars)
  <2>1. \A m \in BOOLEAN : [ev |-> e, manual |-> m] \in Items /\ [ev |-> e, manual |-> m].ev = e
    BY CliItems
  <2>2. \E m \in BOOLEAN : Put([ev |-> e, manual |-> m]) \/ UNCHANGED leaseVars
    BY DEF CreateEvent, RetryEvent, ClaimStuck, PutOrLose
  <2>. QED
    BY <2>1, <2>2
<1>3. UNCHANGED used \/ TunnelFault \/ Extra
  BY DEF CreateEvent, RetryEvent, ClaimStuck, PutOrLose
<1>4. UsedNow /\ used'.faults >= used.faults
  BY <1>0, <1>3, UsedSteps
<1>5. doubled' \in {doubled, doubled \cup {e}} /\ (Present(e) => e \in doubled')
  BY DEF CreateEvent, RetryEvent, ClaimStuck, PutOrLose, Present
<1>6. doubled \subseteq doubled' /\ doubled' \subseteq Events
  BY <1>0, <1>5 DEF TunnelTypeOK
<1>7. TunnelInv'
  BY <1>1, <1>2, <1>4, <1>5, <1>6, PutGood
<1>8. \A f \in Events \ {e} : status'[f] = status[f]
  BY <1>0, <1>1 DEF SetStatus, TunnelTypeOK
<1>9. status[e] # "delivered" \/ RetryEvent(e)
  BY DEF CreateEvent, ClaimStuck
<1>. QED
  BY <1>7, <1>8, <1>9 DEF TunnelGood, Stays

-----------------------------------------------------------------------------
(* The worker. *)

\* What the steps of the worker leave alone.
LEMMA HoldTyped ==
  ASSUME TunnelTypeOK, stage # "pick"
  PROVE  hold \in Leases /\ hold.evt \in Items /\ hold.evt.ev \in Events /\ hold # None
<1>1. hold \in Leases
  BY DEF TunnelTypeOK
<1>2. hold.evt \in Items
  BY <1>1 DEF Leases
<1>. QED
  BY <1>1, <1>2, CliItems, CliNone

LEMMA PickGood == ASSUME TunnelInv, Pick PROVE TunnelGood
<1>0. TunnelTypeOK /\ LeaseHeld /\ waiting \in [Items -> Nat]
  BY DEF TunnelInv, TunnelTypeOK, LeaseTypeOK
<1>1. PICK i \in Items, t \in Tokens : Take(t, i) /\ hold' = [tok |-> t, evt |-> i]
  BY DEF Pick
<1>2. /\ stage = "pick" /\ stage' = "load"
      /\ UNCHANGED <<status, stale, old, session, list, conn, popped, job, chan, frames, doubled, unheard,
                     overwritten, used>>
  BY DEF Pick, tables, tunnel, history
<1>3. /\ waiting[i] > 0 /\ waiting' = [waiting EXCEPT ![i] = waiting[i] - 1] /\ UNCHANGED lapsed
      /\ leased' = leased \cup {hold'}
  BY <1>1 DEF Take
<1>4. hold' \in Leases /\ hold'.evt = i /\ i.ev \in Events /\ hold' # None
  BY <1>1, CliItems, CliNone DEF Leases
<1>5. waiting' \in [Items -> Nat] /\ \A j \in Items : waiting'[j] = IF j = i THEN waiting[i] - 1 ELSE waiting[j]
  BY <1>0, <1>3
<1>6. TunnelTypeOK'
  BY <1>0, <1>2, <1>3, <1>4, <1>5 DEF TunnelTypeOK, LeaseTypeOK
<1>7. UsedNow /\ used'.faults >= used.faults
  BY <1>0, <1>2, UsedSteps
<1>8. KeyHeld' /\ Closed' /\ ChanOwned' /\ Hears' /\ AnswersHeard' /\ Clean' \subseteq Clean /\ Stays
  BY <1>2, <1>7, TunnelFrames
<1>9. LeaseHeld'
  <2>1. hold = None
    BY <1>0, <1>2 DEF TunnelTypeOK
  <2>. QED
    BY <1>0, <1>2, <1>3, <1>4, <2>1 DEF LeaseHeld
<1>10. InHand = None /\ InHand' = i.ev
  BY <1>2, <1>4 DEF InHand
<1>11. ASSUME NEW f \in Clean'
       PROVE  \/ /\ Copies'[f] \subseteq Copies[f]
                 /\ status'[f] = status[f] \/ status'[f] \in Live \/ Copies'[f] = {}
                 /\ \A j \in Items : j.ev = f => waiting'[j] <= waiting[j]
              \/ /\ \A x, y \in Copies'[f] : x = y
                 /\ status'[f] \in Live \/ (status'[f] = status[f] /\ Copies[f] # {})
                 /\ \A j \in Items : j.ev = f => waiting'[j] <= 1
  <2>0. f \in Clean /\ f \in Events
    BY <1>8 DEF Clean
  <2>1. Copies[f] = Spots(f, waiting, InHand, list, popped, job)
    BY <2>0 DEF Copies
  <2>2. Copies'[f] = Spots(f, waiting', InHand', list, popped, job)
    BY <1>2, <2>0 DEF Copies
  <2>3. CASE f # i.ev
    <3>1. \A j \in Items : j.ev = f => waiting'[j] = waiting[j]
      BY <1>5, <2>3
    <3>2. Copies'[f] \subseteq Copies[f]
      BY <1>10, <2>1, <2>2, <2>3, <3>1, SpotsMono
    <3>. QED
      BY <1>0, <1>2, <3>1, <3>2
  <2>4. CASE f = i.ev
    <3>. DEFINE z == <<"queue", i, i>>
                y == <<"hand", f, f>>
    <3>1. /\ Copies[f] # {} /\ status[f] \in Live
          /\ \A j \in Items : j.ev = f => waiting[j] <= 1
          /\ \A j \in Items : j.ev = f /\ waiting[j] > 0 => z = <<"queue", j, j>>
          /\ \A k \in DOMAIN list : list[k] = f => z = <<"list", k, k>>
          /\ \A c \in Sockets : popped[c] = f => z = <<"popped", c, c>>
          /\ \A c \in Sockets, s \in Slots : job[c][s].ev = f => z = <<"job", c, s>>
      <4>1. \E j \in Items : z = <<"queue", j, j>> /\ j.ev = f /\ waiting[j] > 0
        BY <1>3, <2>4
      <4>. HIDE DEF z
      <4>. QED
        BY <2>0, <4>1, Alone
    <3>2. /\ \A j \in Items : j.ev = f => waiting'[j] = 0
          /\ \A k \in DOMAIN list : list[k] # f
          /\ \A c \in Sockets : popped[c] # f
          /\ \A c \in Sockets, s \in Slots : job[c][s].ev # f
      BY <1>0, <1>3, <1>5, <2>4, <3>1
    <3>3. Copies'[f] \subseteq {y}
      <4>. HIDE DEF y, z
      <4>1. InHand' = f => y = <<"hand", f, f>>
        BY DEF y
      <4>2. Spots(f, waiting', InHand', list, popped, job) \subseteq {y}
        BY <3>2, <4>1, SpotsOnly
      <4>. QED
        BY <2>2, <4>2
    <3>. QED
      BY <1>2, <3>1, <3>2, <3>3
  <2>. QED
    BY <2>3, <2>4
<1>12. OneCopy' /\ Alive'
  BY <1>5, <1>8, <1>11, CopyMoved
<1>. QED
  BY <1>6, <1>8, <1>9, <1>12 DEF TunnelInv, TunnelGood

\* The worker goes on, or is done: nothing but its own place changes.
LEMMA HandDropped ==
  ASSUME TunnelInv, Clean' \subseteq Clean, InHand' \in {InHand, None},
         UNCHANGED <<waiting, list, popped, job>>
  PROVE  \A f \in Clean' : Copies'[f] \subseteq Copies[f] /\ \A j \in Items : waiting'[j] <= waiting[j]
<1>1. SUFFICES ASSUME NEW f \in Clean'
               PROVE  Copies'[f] \subseteq Copies[f] /\ \A j \in Items : waiting'[j] <= waiting[j]
  OBVIOUS
<1>2. f \in Events /\ f # None
  BY CliNone DEF Clean
<1>3. Copies[f] = Spots(f, waiting, InHand, list, popped, job)
  BY <1>2 DEF Copies
<1>4. Copies'[f] = Spots(f, waiting, InHand', list, popped, job)
  BY <1>2 DEF Copies
<1>5. InHand' = f => InHand = f
  BY <1>2
<1>6. Copies'[f] \subseteq Copies[f]
  BY <1>3, <1>4, <1>5, SpotsMono
<1>. QED
  BY <1>6 DEF TunnelInv, TunnelTypeOK, LeaseTypeOK

LEMMA RouteGood == ASSUME TunnelInv, LoadEvent \/ Route PROVE TunnelGood
<1>0. TunnelTypeOK
  BY DEF TunnelInv
<1>1. /\ stage \in {"load", "route"} /\ stage' \in {"route", "ack", "push", "discard", "reset"}
      /\ UNCHANGED <<waiting, leased, lapsed, status, stale, old, session, list, hold, conn, popped, job, chan,
                     frames, doubled, unheard, overwritten, used>>
  BY DEF LoadEvent, Route, leaseVars, tables, tunnel, history
<1>2. UsedNow /\ used'.faults >= used.faults
  BY <1>0, <1>1, UsedSteps
<1>3. KeyHeld' /\ LeaseHeld' /\ Closed' /\ ChanOwned' /\ Hears' /\ AnswersHeard' /\ Clean' \subseteq Clean /\ Stays
  BY <1>1, <1>2, TunnelFrames
<1>4. TunnelTypeOK'
  BY <1>0, <1>1 DEF TunnelTypeOK, LeaseTypeOK
<1>5. InHand' \in {InHand, None}
  BY <1>1 DEF InHand
<1>6. OneCopy' /\ Alive'
  BY <1>0, <1>1, <1>3, <1>5, HandDropped, CopyMoved DEF TunnelTypeOK, LeaseTypeOK
<1>. QED
  BY <1>3, <1>4, <1>6 DEF TunnelInv, TunnelGood

LEMMA AckGood == ASSUME TunnelInv, AckStep PROVE TunnelGood
<1>0. TunnelTypeOK /\ LeaseHeld
  BY DEF TunnelInv
<1>1. /\ stage = "ack" /\ stage' = "pick" /\ hold' = None
      /\ leased' = leased \ {hold} /\ lapsed' = lapsed \ {hold}
      /\ UNCHANGED <<waiting, status, stale, old, session, list, conn, popped, job, chan,
                     frames, doubled, unheard, overwritten, used>>
  BY DEF AckStep, Free, Remove, tables, tunnel, history
<1>2. UsedNow /\ used'.faults >= used.faults
  BY <1>0, <1>1, UsedSteps
<1>3. KeyHeld' /\ Closed' /\ ChanOwned' /\ Hears' /\ AnswersHeard' /\ Clean' \subseteq Clean /\ Stays
  BY <1>1, <1>2, TunnelFrames
<1>4. TunnelTypeOK'
  BY <1>0, <1>1 DEF TunnelTypeOK, LeaseTypeOK
<1>5. InHand' \in {InHand, None}
  BY <1>1 DEF InHand
<1>6. OneCopy' /\ Alive'
  BY <1>0, <1>1, <1>3, <1>5, HandDropped, CopyMoved DEF TunnelTypeOK, LeaseTypeOK
<1>7. LeaseHeld'
  BY <1>0, <1>1 DEF LeaseHeld
<1>. QED
  BY <1>3, <1>4, <1>6, <1>7 DEF TunnelInv, TunnelGood

\* A status write that may fail, of the event in the worker's hand.
LEMMA TryTyped ==
  ASSUME TunnelTypeOK, NEW e \in Events, NEW st \in Terminal \cup Live, TrySetStatus(e, st)
  PROVE  /\ status' \in [Events -> Terminal \cup {"absent", "queued", "in_flight"}]
         /\ stale' \in [Events -> BOOLEAN]
         /\ UsedNow /\ used'.faults >= used.faults
         /\ \A f \in Events \ {e} : status'[f] = status[f]
         /\ used'.faults = 0 => status'[e] = st
<1>1. status' = [status EXCEPT ![e] = st] \/ UNCHANGED status
  BY DEF TrySetStatus, SetStatus
<1>2. stale' = [stale EXCEPT ![e] = FALSE] \/ UNCHANGED stale
  BY DEF TrySetStatus, SetStatus
<1>3. UsedNow /\ used'.faults >= used.faults
  BY UsedSteps DEF TrySetStatus
<1>4. used'.faults = 0 => status' = [status EXCEPT ![e] = st]
  BY UsedSteps DEF TrySetStatus, SetStatus
<1>. QED
  BY <1>1, <1>2, <1>3, <1>4 DEF TunnelTypeOK, Live

LEMMA WriteGood == ASSUME TunnelInv, MarkEventDiscarded \/ ResetEventForRetry PROVE TunnelGood
<1>0. TunnelTypeOK
  BY DEF TunnelInv
<1>1. PICK st \in {"discarded", "queued"} :
         /\ TrySetStatus(hold.evt.ev, st)
         /\ IF st = "discarded" THEN stage = "discard" /\ stage' = "ack"
            ELSE stage = "reset" /\ stage' = "defer"
  BY DEF MarkEventDiscarded, ResetEventForRetry, Ev
<1>2. UNCHANGED <<waiting, leased, lapsed, old, session, list, hold, conn, popped, job, chan,
                  frames, doubled, unheard, overwritten>>
  BY DEF MarkEventDiscarded, ResetEventForRetry, leaseVars, tunnel, history
<1>. DEFINE e == hold.evt.ev
<1>3. stage # "pick" /\ stage # "ack" /\ e \in Events /\ st \in Terminal \cup Live /\ InHand = e
  <2>1. stage # "pick" /\ stage # "ack"
    BY <1>1
  <2>. QED
    BY <1>0, <1>1, <2>1, HoldTyped DEF InHand, Terminal, Live
<1>4. /\ status' \in [Events -> Terminal \cup {"absent", "queued", "in_flight"}]
      /\ stale' \in [Events -> BOOLEAN]
      /\ UsedNow /\ used'.faults >= used.faults
      /\ \A f \in Events \ {e} : status'[f] = status[f]
      /\ used'.faults = 0 => status'[e] = st
  BY <1>0, <1>1, <1>3, TryTyped
<1>5. KeyHeld' /\ LeaseHeld' /\ Closed' /\ ChanOwned' /\ Hears' /\ AnswersHeard' /\ Clean' \subseteq Clean
  BY <1>2, <1>4, TunnelFrames
<1>6. TunnelTypeOK'
  BY <1>0, <1>1, <1>2, <1>3, <1>4 DEF TunnelTypeOK, LeaseTypeOK, UsedNow
<1>7. InHand' \in {InHand, None} /\ (st = "discarded" => InHand' = None)
  BY <1>1, <1>2, <1>3 DEF InHand
<1>8. \A f \in Clean' : Copies'[f] \subseteq Copies[f] /\ \A j \in Items : waiting'[j] <= waiting[j]
  BY <1>2, <1>5, <1>7, HandDropped
<1>9. e \in Clean => /\ status[e] \in Live
                     /\ \A x \in Copies[e] : x = <<"hand", e, e>>
  <2>1. ASSUME e \in Clean PROVE status[e] \in Live /\ \A x \in Copies[e] : x = <<"hand", e, e>>
    <3>. DEFINE z == <<"hand", e, e>>
    <3>1. z = <<"hand", e, e>> /\ InHand = e
      BY <1>3
    <3>. HIDE DEF z
    <3>2. /\ Copies[e] # {} /\ status[e] \in Live
          /\ \A j \in Items : j.ev = e /\ waiting[j] > 0 => z = <<"queue", j, j>>
          /\ \A k \in DOMAIN list : list[k] = e => z = <<"list", k, k>>
          /\ \A c \in Sockets : popped[c] = e => z = <<"popped", c, c>>
          /\ \A c \in Sockets, s \in Slots : job[c][s].ev = e => z = <<"job", c, s>>
      BY <2>1, <3>1, Alone
    <3>3. Spots(e, waiting, InHand, list, popped, job) \subseteq {z}
      BY <3>1, <3>2, SpotsOnly
    <3>4. Copies[e] = Spots(e, waiting, InHand, list, popped, job)
      BY <1>3 DEF Copies
    <3>. QED
      BY <3>1, <3>2, <3>3, <3>4
  <2>. QED
    BY <2>1
<1>10. e \in Clean' /\ st = "discarded" => Copies'[e] = {}
  <2>1. SUFFICES ASSUME e \in Clean', st = "discarded", NEW x \in Copies'[e] PROVE FALSE
    OBVIOUS
  <2>2. x = <<"hand", e, e>>
    BY <1>5, <1>8, <1>9, <2>1
  <2>3. x \in Spots(e, waiting', InHand', list', popped', job')
    BY <1>3, <2>1 DEF Copies
  <2>4. InHand' = e
    BY <2>2, <2>3, SpotsIn
  <2>. QED
    BY <1>3, <1>7, <2>1, <2>4, CliNone
<1>11. ASSUME NEW f \in Clean'
       PROVE  status'[f] = status[f] \/ status'[f] \in Live \/ Copies'[f] = {}
  <2>1. used'.faults = 0 /\ f \in Events
    BY DEF Clean
  <2>. QED
    BY <1>1, <1>4, <1>10, <2>1 DEF Live
<1>12. OneCopy' /\ Alive'
  BY <1>0, <1>2, <1>5, <1>8, <1>11, CopyMoved DEF TunnelTypeOK, LeaseTypeOK
<1>13. Stays
  <2>1. status[e] = "delivered" => e \notin Clean
    BY <1>9 DEF Live
  <2>2. e \notin Clean => e \in doubled \/ used.faults > 0
    BY <1>0, <1>3 DEF Clean, TunnelTypeOK
  <2>. QED
    BY <1>2, <1>4, <2>1, <2>2 DEF Stays
<1>. QED
  BY <1>5, <1>6, <1>12, <1>13 DEF TunnelInv, TunnelGood

LEMMA AbandonGood == ASSUME TunnelInv, Abandon PROVE TunnelGood
<1>0. TunnelTypeOK
  BY DEF TunnelInv
<1>1. /\ stage' = "pick" /\ hold' = None /\ TunnelFault
      /\ UNCHANGED <<waiting, leased, lapsed, status, stale, old, session, list, conn, popped, job, chan,
                     frames, doubled, unheard, overwritten>>
  BY DEF Abandon, Free, leaseVars, tables, tunnel, history
<1>2. UsedNow /\ used'.faults >= used.faults /\ used'.faults > 0
  BY <1>0, <1>1, UsedSteps
<1>3. Closed' /\ ChanOwned' /\ Stays
  BY <1>1, <1>2, TunnelFrames
<1>4. TunnelTypeOK'
  BY <1>0, <1>1, <1>2 DEF TunnelTypeOK, LeaseTypeOK, UsedNow
<1>. QED
  BY <1>2, <1>3, <1>4, Dirty DEF TunnelInv, TunnelGood

\* Whoever has the event in hand alone passes it on to one other place.
LEMMA HandOver ==
  ASSUME TunnelInv, stage \notin {"pick", "ack"}, Clean' \subseteq Clean, stage' = "ack", NEW z,
         UNCHANGED <<hold, popped, job, status>>, waiting' \in [Items -> Nat],
         \A j \in Items : waiting'[j] = waiting[j]
             \/ (j.ev = hold.evt.ev /\ z = <<"queue", j, j>> /\ waiting'[j] <= waiting[j] + 1),
         \A k \in DOMAIN list' : (k \in DOMAIN list /\ list'[k] = list[k])
             \/ (list'[k] = hold.evt.ev /\ z = <<"list", k, k>>)
  PROVE  OneCopy' /\ Alive'
<1>. DEFINE e == hold.evt.ev
            y == <<"hand", e, e>>
<1>0. TunnelTypeOK /\ waiting \in [Items -> Nat]
  BY DEF TunnelInv, TunnelTypeOK, LeaseTypeOK
<1>1. e \in Events /\ InHand = e /\ InHand' = None
  BY <1>0, HoldTyped DEF InHand
<1>2. ASSUME NEW f \in Clean'
      PROVE  \/ /\ Copies'[f] \subseteq Copies[f]
                /\ status'[f] = status[f] \/ status'[f] \in Live \/ Copies'[f] = {}
                /\ \A j \in Items : j.ev = f => waiting'[j] <= waiting[j]
             \/ /\ \A x, w \in Copies'[f] : x = w
                /\ status'[f] \in Live \/ (status'[f] = status[f] /\ Copies[f] # {})
                /\ \A j \in Items : j.ev = f => waiting'[j] <= 1
  <2>0. f \in Clean /\ f \in Events /\ f # None
    BY CliNone DEF Clean
  <2>1. Copies[f] = Spots(f, waiting, InHand, list, popped, job)
    BY <2>0 DEF Copies
  <2>2. Copies'[f] = Spots(f, waiting', InHand', list', popped, job)
    BY <2>0 DEF Copies
  <2>3. CASE f # e
    <3>1. \A j \in Items : j.ev = f => waiting'[j] = waiting[j]
      BY <2>3
    <3>2. \A k \in DOMAIN list' : list'[k] = f => k \in DOMAIN list /\ list[k] = f
      BY <2>3
    <3>3. Copies'[f] \subseteq Copies[f]
      BY <1>1, <2>0, <2>1, <2>2, <3>1, <3>2, SpotsMono
    <3>. QED
      BY <1>0, <3>1, <3>3
  <2>4. CASE f = e
    <3>0. y = <<"hand", e, e>>
      OBVIOUS
    <3>. HIDE DEF y
    <3>1. /\ Copies[e] # {} /\ status[e] \in Live
          /\ \A j \in Items : j.ev = e /\ waiting[j] > 0 => y = <<"queue", j, j>>
          /\ \A k \in DOMAIN list : list[k] = e => y = <<"list", k, k>>
          /\ \A c \in Sockets : popped[c] = e => y = <<"popped", c, c>>
          /\ \A c \in Sockets, s \in Slots : job[c][s].ev = e => y = <<"job", c, s>>
      <4>. HIDE DEF e
      <4>. QED
        BY <1>1, <2>0, <2>4, <3>0, Alone
    <3>2. /\ \A j \in Items : j.ev = e => waiting[j] = 0
          /\ \A k \in DOMAIN list : list[k] # e
          /\ \A c \in Sockets : popped[c] # e
          /\ \A c \in Sockets, s \in Slots : job[c][s].ev # e
      BY <1>0, <3>0, <3>1
    <3>3. /\ \A j \in Items : j.ev = e /\ waiting'[j] > 0 => z = <<"queue", j, j>>
          /\ \A j \in Items : j.ev = e => waiting'[j] <= 1
          /\ \A k \in DOMAIN list' : list'[k] = e => z = <<"list", k, k>>
      BY <1>0, <3>2
    <3>4. InHand' # e
      BY <1>1, <2>0, <2>4
    <3>5. Spots(e, waiting', InHand', list', popped, job) \subseteq {z}
      <4>. HIDE DEF e
      <4>. QED
        BY <3>2, <3>3, <3>4, SpotsOnly
    <3>. QED
      BY <2>2, <2>4, <3>1, <3>3, <3>5
  <2>. QED
    BY <2>3, <2>4
<1>. QED
  BY <1>2, CopyMoved

LEMMA DeferGood == ASSUME TunnelInv, Defer PROVE TunnelGood
<1>0. TunnelTypeOK /\ waiting \in [Items -> Nat]
  BY DEF TunnelInv, TunnelTypeOK, LeaseTypeOK
<1>1. /\ stage = "defer" /\ stage' = "ack" /\ Put(hold.evt)
      /\ UNCHANGED <<status, stale, old, session, list, hold, conn, popped, job, chan,
                     frames, doubled, unheard, overwritten, used>>
  BY DEF Defer, tables, tunnel, history
<1>2. hold.evt \in Items
  BY <1>0, <1>1, HoldTyped
<1>3. /\ UNCHANGED <<leased, lapsed>> /\ waiting' \in [Items -> Nat]
      /\ \A j \in Items : j # hold.evt => waiting'[j] = waiting[j]
      /\ waiting'[hold.evt] <= waiting[hold.evt] + 1
  BY <1>0, <1>1, <1>2 DEF Put
<1>4. UsedNow /\ used'.faults >= used.faults
  BY <1>0, <1>1, UsedSteps
<1>5. /\ KeyHeld' /\ LeaseHeld' /\ Closed' /\ ChanOwned' /\ Hears' /\ AnswersHeard'
      /\ Clean' \subseteq Clean /\ Stays
  BY <1>1, <1>3, <1>4, TunnelFrames
<1>6. TunnelTypeOK'
  BY <1>0, <1>1, <1>3 DEF TunnelTypeOK, LeaseTypeOK
<1>7. OneCopy' /\ Alive'
  <2>. DEFINE z == <<"queue", hold.evt, hold.evt>>
  <2>1. \A j \in Items : waiting'[j] = waiting[j]
             \/ (j.ev = hold.evt.ev /\ z = <<"queue", j, j>> /\ waiting'[j] <= waiting[j] + 1)
    BY <1>3
  <2>2. \A k \in DOMAIN list' : (k \in DOMAIN list /\ list'[k] = list[k])
             \/ (list'[k] = hold.evt.ev /\ z = <<"list", k, k>>)
    BY <1>1
  <2>3. stage \notin {"pick", "ack"}
    BY <1>1
  <2>. HIDE DEF z
  <2>. QED
    BY <1>1, <1>3, <1>5, <2>1, <2>2, <2>3, HandOver
<1>. QED
  BY <1>5, <1>6, <1>7 DEF TunnelInv, TunnelGood

LEMMA PushGood == ASSUME TunnelInv, PushDispatch PROVE TunnelGood
<1>0. TunnelTypeOK /\ waiting \in [Items -> Nat]
  BY DEF TunnelInv, TunnelTypeOK, LeaseTypeOK
<1>. DEFINE e == hold.evt.ev
<1>1. /\ stage = "push" /\ stage' = "ack" /\ list' = Append(list, e)
      /\ UNCHANGED <<waiting, leased, lapsed, status, stale, old, session, hold, conn, popped, job, chan,
                     frames, doubled, unheard, overwritten, used>>
  BY DEF PushDispatch, Ev, leaseVars, tables, tunnel, history
<1>2. e \in Events /\ list \in Seq(Events)
  BY <1>0, <1>1, HoldTyped DEF TunnelTypeOK
<1>3. /\ list' \in Seq(Events) /\ DOMAIN list = 1..Len(list) /\ DOMAIN list' = 1..(Len(list) + 1)
      /\ Len(list) \in Nat /\ list'[Len(list) + 1] = e
      /\ \A k \in 1..Len(list) : list'[k] = list[k]
  <2>. HIDE DEF e
  <2>. QED
    BY <1>1, <1>2
<1>4. UsedNow /\ used'.faults >= used.faults
  BY <1>0, <1>1, UsedSteps
<1>5. /\ KeyHeld' /\ LeaseHeld' /\ Closed' /\ ChanOwned' /\ Hears' /\ AnswersHeard'
      /\ Clean' \subseteq Clean /\ Stays
  BY <1>1, <1>4, TunnelFrames
<1>6. TunnelTypeOK'
  BY <1>0, <1>1, <1>3 DEF TunnelTypeOK, LeaseTypeOK
<1>7. OneCopy' /\ Alive'
  <2>. DEFINE z == <<"list", Len(list) + 1, Len(list) + 1>>
  <2>1. \A j \in Items : waiting'[j] = waiting[j]
    BY <1>1
  <2>2. \A k \in DOMAIN list' : (k \in DOMAIN list /\ list'[k] = list[k])
             \/ (list'[k] = hold.evt.ev /\ z = <<"list", k, k>>)
    BY <1>3
  <2>3. stage \notin {"pick", "ack"} /\ waiting' \in [Items -> Nat]
    BY <1>0, <1>1
  <2>. HIDE DEF z
  <2>. QED
    BY <1>1, <1>5, <2>1, <2>2, <2>3, HandOver
<1>. QED
  BY <1>5, <1>6, <1>7 DEF TunnelInv, TunnelGood

-----------------------------------------------------------------------------
(* Leases, the age of rows, and the session key. *)

\* A lease that lapses or is given back without a fault would be the worker's own.
LEMMA LeaseStepGood ==
  ASSUME TunnelInv, Recoverer \/ OrphanLapses \/ LeaseOverrun
  PROVE  TunnelGood
<1>0. TunnelTypeOK /\ LeaseHeld /\ waiting \in [Items -> Nat] /\ used.faults \in Nat
  BY DEF TunnelInv, TunnelTypeOK, LeaseTypeOK
<1>1. /\ UNCHANGED used \/ TunnelFault
      /\ UNCHANGED <<status, stale, old, session, list, stage, hold, conn, popped, job, chan,
                     frames, doubled, unheard, overwritten>>
  BY DEF Recoverer, OrphanLapses, LeaseOverrun, rest, tables, worker, tunnel, history
<1>2. UsedNow /\ used'.faults >= used.faults /\ used'.faults > 0
  <2>1. CASE TunnelFault
    BY <1>0, <2>1, UsedSteps
  <2>2. CASE ~TunnelFault
    <3>1. Recoverer \/ OrphanLapses
      BY <2>2 DEF LeaseOverrun
    <3>2. used.faults # 0
      BY <1>0, <3>1 DEF LeaseHeld, Recoverer, OrphanLapses, Reclaim, Lapse
    <3>. QED
      BY <1>0, <1>1, <2>2, <3>2, UsedSteps
  <2>. QED
    BY <2>1, <2>2
<1>3. LeaseTypeOK'
  <2>1. CASE Reclaim
    BY <1>0, <2>1 DEF Reclaim, TunnelTypeOK, LeaseTypeOK
  <2>2. ASSUME NEW m, Lapse(m) PROVE LeaseTypeOK'
    BY <1>0, <2>2 DEF Lapse, TunnelTypeOK, LeaseTypeOK
  <2>. QED
    BY <2>1, <2>2 DEF Recoverer, OrphanLapses, LeaseOverrun
<1>4. Closed' /\ ChanOwned' /\ Stays
  BY <1>1, <1>2, TunnelFrames
<1>5. TunnelTypeOK'
  BY <1>0, <1>1, <1>2, <1>3 DEF TunnelTypeOK, UsedNow
<1>. QED
  BY <1>2, <1>4, <1>5, Dirty DEF TunnelInv, TunnelGood

LEMMA AgeGood == ASSUME TunnelInv, NEW e \in Events, Ages(e) \/ WaitsTooLong(e) PROVE TunnelGood
<1>0. TunnelTypeOK
  BY DEF TunnelInv
<1>1. UNCHANGED <<waiting, leased, lapsed, status, session, list, stage, hold, conn, popped, job, chan,
                  frames, doubled, unheard, overwritten, used>>
  BY DEF Ages, WaitsTooLong, leaseVars, worker, tunnel, history
<1>2. stale' \in [Events -> BOOLEAN] /\ old' \in [Events -> BOOLEAN]
  BY <1>0 DEF Ages, WaitsTooLong, TunnelTypeOK
<1>3. UsedNow /\ used'.faults >= used.faults
  BY <1>0, <1>1, UsedSteps
<1>4. /\ KeyHeld' /\ LeaseHeld' /\ Closed' /\ ChanOwned' /\ Hears' /\ AnswersHeard'
      /\ OneCopy' /\ Alive' /\ Stays
  BY <1>1, <1>3, TunnelFrames
<1>5. TunnelTypeOK'
  BY <1>0, <1>1, <1>2 DEF TunnelTypeOK, LeaseTypeOK
<1>. QED
  BY <1>4, <1>5 DEF TunnelInv, TunnelGood

LEMMA KeyGood ==
  ASSUME TunnelInv, KeyLapses \/ KeyLost \/ \E c \in Sockets : Connect(c) \/ Ping(c) \/ Release(c)
  PROVE  TunnelGood
<1>0. TunnelTypeOK /\ KeyHeld /\ Closed
  BY DEF TunnelInv
<1>1. /\ UNCHANGED <<waiting, leased, lapsed, status, stale, old, list, stage, hold, popped, job, chan,
                     frames, doubled, unheard>>
      /\ UNCHANGED used \/ TunnelFault
  BY DEF KeyLapses, KeyLost, Connect, Ping, Release, leaseVars, tables, worker, tunnel, history
<1>2. UsedNow /\ used'.faults >= used.faults
  BY <1>0, <1>1, UsedSteps
<1>3. /\ LeaseHeld' /\ ChanOwned' /\ Hears' /\ AnswersHeard' /\ OneCopy' /\ Alive' /\ Stays
  BY <1>1, <1>2, TunnelFrames
<1>4. /\ session' \in Sockets \cup {None} /\ overwritten' \subseteq Sockets
      /\ conn' \in [Sockets -> {"off", "on", "closing", "done"}]
      /\ \A c \in Sockets : conn'[c] # "on" => conn[c] # "on"
  <2>1. CASE KeyLapses \/ KeyLost
    BY <1>0, <2>1 DEF KeyLapses, KeyLost, TunnelTypeOK, tunnel, history
  <2>2. ASSUME NEW c \in Sockets, Connect(c) \/ Ping(c)
        PROVE  /\ session' \in Sockets \cup {None} /\ overwritten' \subseteq Sockets
               /\ conn' \in [Sockets -> {"off", "on", "closing", "done"}]
               /\ \A d \in Sockets : conn'[d] # "on" => conn[d] # "on"
    BY <1>0, <2>2 DEF Connect, Ping, SetKey, TunnelTypeOK, tunnel
  <2>3. ASSUME NEW c \in Sockets, Release(c)
        PROVE  /\ session' \in Sockets \cup {None} /\ overwritten' \subseteq Sockets
               /\ conn' \in [Sockets -> {"off", "on", "closing", "done"}]
               /\ \A d \in Sockets : conn'[d] # "on" => conn[d] # "on"
    BY <1>0, <2>3 DEF Release, TunnelTypeOK, history
  <2>. QED
    BY <2>1, <2>2, <2>3
<1>5. Closed'
  BY <1>0, <1>1, <1>4 DEF Closed
<1>6. KeyHeld'
  <2>1. CASE KeyLapses
    BY <2>1 DEF KeyLapses, KeyHeld, tunnel
  <2>2. CASE KeyLost
    BY <1>0, <1>2, <2>2, UsedSteps, Dirty DEF KeyLost
  <2>3. ASSUME NEW c \in Sockets, Connect(c) \/ Ping(c) PROVE KeyHeld'
    <3>1. /\ session' = c /\ overwritten' = overwritten \cup {d \in Sockets \ {c} : conn[d] = "on"}
          /\ \A d \in Sockets \ {c} : conn'[d] = conn[d]
      BY <1>0, <2>3 DEF Connect, Ping, SetKey, tunnel, TunnelTypeOK
    <3>. QED
      BY <3>1 DEF KeyHeld
  <2>4. ASSUME NEW c \in Sockets, Release(c) PROVE KeyHeld'
    <3>1. /\ conn[c] = "closing" /\ conn' = [conn EXCEPT ![c] = "done"]
          /\ session' = IF session = c THEN None ELSE session
          /\ UNCHANGED <<overwritten, used>>
      BY <2>4 DEF Release, history
    <3>2. \A d \in Sockets : conn'[d] = "on" => conn[d] = "on" /\ d # c
      BY <1>0, <3>1 DEF TunnelTypeOK
    <3>. QED
      BY <1>0, <3>1, <3>2 DEF KeyHeld
  <2>. QED
    BY <2>1, <2>2, <2>3, <2>4
<1>7. TunnelTypeOK'
  BY <1>0, <1>1, <1>2, <1>4 DEF TunnelTypeOK, LeaseTypeOK, UsedNow
<1>. QED
  BY <1>3, <1>5, <1>6, <1>7 DEF TunnelInv, TunnelGood

-----------------------------------------------------------------------------
(* The connection. *)

LEMMA JobFacts ==
  /\ Idle \in Jobs /\ Idle.pc = "idle" /\ Idle.ev = None /\ Idle.resp = None
  /\ \A j \in Jobs : j = Idle \/ (j.pc \in {"load", "write", "wait"} /\ j.ev \in Events /\ j.resp \in Results \cup {None}
                                  /\ j \in [pc: {"load", "write", "wait"}, ev: Events, resp: Results \cup {None}])
  BY DEF Idle, Jobs

LEMMA EndGood == ASSUME TunnelInv, NEW c \in Sockets, Disconnect(c) \/ ServerDies(c) PROVE TunnelGood
<1>0. TunnelTypeOK /\ KeyHeld /\ Closed /\ ChanOwned /\ Hears
  BY DEF TunnelInv
<1>1. /\ UNCHANGED <<waiting, leased, lapsed, status, stale, old, session, list, stage, hold, doubled, unheard>>
      /\ UNCHANGED used \/ TunnelFault
      /\ conn' = [conn EXCEPT ![c] = "closing"] \/ conn' = [conn EXCEPT ![c] = "done"]
  BY DEF Disconnect, ServerDies, leaseVars, tables, worker
<1>2. /\ job' = [job EXCEPT ![c] = NoJobs] /\ chan' = [chan EXCEPT ![c] = NoChans]
      /\ frames' = [frames EXCEPT ![c] = NoFrames] /\ popped' = [popped EXCEPT ![c] = None]
      /\ overwritten' = overwritten \ {c}
  BY DEF Disconnect, ServerDies, Cancel
<1>3. UsedNow /\ used'.faults >= used.faults
  BY <1>0, <1>1, UsedSteps
<1>4. NoJobs \in [Slots -> Jobs] /\ NoChans \in [Events -> Slots \cup {None}] /\ NoFrames \in [Events -> Nat]
  BY JobFacts DEF NoJobs, NoChans, NoFrames
<1>5. TunnelTypeOK'
  BY <1>0, <1>1, <1>2, <1>3, <1>4 DEF TunnelTypeOK, LeaseTypeOK, UsedNow
<1>6. /\ \A d \in Sockets : d # c => conn'[d] = conn[d] /\ job'[d] = job[d] /\ chan'[d] = chan[d] /\ popped'[d] = popped[d]
      /\ conn'[c] # "on" /\ popped'[c] = None
      /\ \A s \in Slots : job'[c][s] = Idle
      /\ \A e \in Events : chan'[c][e] = None
  BY <1>0, <1>1, <1>2 DEF TunnelTypeOK, NoJobs, NoChans
<1>7. LeaseHeld' /\ AnswersHeard' /\ Clean' \subseteq Clean /\ Stays
  BY <1>1, <1>3, TunnelFrames
<1>8. KeyHeld'
  <2>1. used'.faults = 0 => used.faults = 0
    BY <1>0, <1>3 DEF TunnelTypeOK, UsedNow
  <2>. QED
    BY <1>0, <1>1, <1>2, <1>6, <2>1 DEF KeyHeld
<1>9. Closed'
  BY <1>0, <1>6 DEF Closed
<1>10. ChanOwned'
  <2>1. SUFFICES ASSUME NEW d \in Sockets, NEW e \in Events, chan'[d][e] # None
                 PROVE  job'[d][chan'[d][e]].ev = e /\ job'[d][chan'[d][e]].pc \in {"write", "wait"}
    BY DEF ChanOwned
  <2>2. d # c
    BY <1>6, <2>1
  <2>. QED
    BY <1>0, <1>6, <2>1, <2>2 DEF ChanOwned
<1>11. Hears'
  <2>1. SUFFICES ASSUME NEW d \in Sockets, NEW s \in Slots, job'[d][s].pc \in {"write", "wait"},
                        job'[d][s].resp = None, job'[d][s].ev \in Clean'
                 PROVE  chan'[d][job'[d][s].ev] = s
    BY DEF Hears
  <2>2. d # c
    BY <1>6, <2>1, JobFacts
  <2>. QED
    BY <1>0, <1>6, <1>7, <2>1, <2>2 DEF Hears
<1>12. ASSUME NEW f \in Clean' PROVE Copies'[f] \subseteq Copies[f]
  <2>0. f \in Events /\ f # None
    BY CliNone DEF Clean
  <2>1. Copies[f] = Spots(f, waiting, InHand, list, popped, job)
    BY <2>0 DEF Copies
  <2>2. Copies'[f] = Spots(f, waiting, InHand, list, popped', job')
    BY <1>1, <2>0 DEF Copies, InHand
  <2>3. /\ \A d \in Sockets : popped'[d] = f => popped[d] = f
        /\ \A d \in Sockets, s \in Slots : job'[d][s].ev = f => job[d][s].ev = f
    BY <1>6, <2>0, JobFacts
  <2>. QED
    BY <2>1, <2>2, <2>3, SpotsMono
<1>13. OneCopy' /\ Alive'
  BY <1>0, <1>1, <1>7, <1>12, CopyMoved DEF TunnelTypeOK, LeaseTypeOK
<1>. QED
  BY <1>5, <1>7, <1>8, <1>9, <1>10, <1>11, <1>13 DEF TunnelInv, TunnelGood

LEMMA PopGood == ASSUME TunnelInv, NEW c \in Sockets, Pop(c) PROVE TunnelGood
<1>0. TunnelTypeOK /\ Closed /\ OneCopy /\ Alive
  BY DEF TunnelInv
<1>. DEFINE e == Head(list)
<1>1. /\ conn[c] = "on" /\ popped[c] = None /\ list # <<>> /\ popped' = [popped EXCEPT ![c] = e]
      /\ list' = Tail(list)
      /\ UNCHANGED <<waiting, leased, lapsed, status, stale, old, session, stage, hold, conn, job, chan,
                     frames, doubled, unheard, overwritten, used>>
  BY DEF Pop, leaseVars, tables, worker, history
<1>2. /\ list \in Seq(Events) /\ e = list[1] /\ e \in Events /\ list' \in Seq(Events)
      /\ DOMAIN list = 1..Len(list) /\ Len(list) \in Nat /\ Len(list) >= 1
      /\ DOMAIN list' = 1..(Len(list) - 1)
      /\ \A k \in 1..(Len(list) - 1) : list'[k] = list[k + 1]
  BY <1>0, <1>1 DEF TunnelTypeOK
<1>. HIDE DEF e
<1>3. popped' \in [Sockets -> Events \cup {None}] /\ \A d \in Sockets : popped'[d] = IF d = c THEN e ELSE popped[d]
  BY <1>0, <1>1, <1>2 DEF TunnelTypeOK
<1>4. TunnelTypeOK'
  BY <1>0, <1>1, <1>2, <1>3 DEF TunnelTypeOK, LeaseTypeOK
<1>5. UsedNow /\ used'.faults >= used.faults
  BY <1>0, <1>1, UsedSteps
<1>6. /\ KeyHeld' /\ LeaseHeld' /\ ChanOwned' /\ Hears' /\ AnswersHeard' /\ Clean' \subseteq Clean /\ Stays
  BY <1>1, <1>5, TunnelFrames
<1>7. Closed'
  BY <1>0, <1>1, <1>3 DEF Closed
<1>8. ASSUME NEW f \in Clean'
      PROVE  /\ \A x, y \in Copies'[f] : x = y
             /\ Copies'[f] # {} => Copies[f] # {}
             /\ \A j \in Items : j.ev = f => waiting'[j] <= 1
  <2>0. f \in Clean /\ f \in Events /\ f # None
    BY <1>6, CliNone DEF Clean
  <2>1. Copies[f] = Spots(f, waiting, InHand, list, popped, job)
    BY <2>0 DEF Copies
  <2>2. Copies'[f] = Spots(f, waiting, InHand, list', popped', job)
    BY <1>1, <2>0 DEF Copies, InHand
  <2>3. CASE f = e
    <3>. DEFINE z == <<"list", 1, 1>>
                to == <<"popped", c, c>>
    <3>1. \E k \in DOMAIN list : z = <<"list", k, k>> /\ list[k] = f
      BY <1>2, <2>3
    <3>2. /\ Copies[f] # {}
          /\ \A j \in Items : j.ev = f => waiting[j] <= 1
          /\ \A j \in Items : j.ev = f /\ waiting[j] > 0 => z = <<"queue", j, j>>
          /\ InHand = f => z = <<"hand", f, f>>
          /\ \A k \in DOMAIN list : list[k] = f => z = <<"list", k, k>>
          /\ \A d \in Sockets : popped[d] = f => z = <<"popped", d, d>>
          /\ \A d \in Sockets, s \in Slots : job[d][s].ev = f => z = <<"job", d, s>>
      <4>. HIDE DEF z
      <4>. QED
        BY <2>0, <3>1, Alone
    <3>3. /\ \A j \in Items : ~(j.ev = f /\ waiting[j] > 0)
          /\ InHand # f
          /\ \A k \in DOMAIN list : list[k] = f => k = 1
          /\ \A d \in Sockets : popped[d] # f
          /\ \A d \in Sockets, s \in Slots : job[d][s].ev # f
      BY <3>2
    <3>4. \A k \in DOMAIN list' : list'[k] # f
      <4>1. ASSUME NEW k \in 1..(Len(list) - 1) PROVE list'[k] # f
        <5>1. k + 1 \in DOMAIN list /\ k + 1 # 1
          BY <1>2
        <5>. QED
          BY <1>2, <3>3, <5>1
      <4>. QED
        BY <1>2, <4>1
    <3>5. \A d \in Sockets : popped'[d] = f => to = <<"popped", d, d>>
      BY <1>3, <3>3
    <3>6. Spots(f, waiting, InHand, list', popped', job) \subseteq {to}
      <4>. HIDE DEF to, z
      <4>. QED
        BY <3>3, <3>4, <3>5, SpotsOnly
    <3>7. \A x \in Copies'[f] : x = to
      BY <2>2, <3>6
    <3>. QED
      BY <1>1, <3>2, <3>7
  <2>4. CASE f # e
    <3>. DEFINE Shift(x) == IF x[1] = "list" THEN <<"list", x[2] + 1, x[2] + 1>> ELSE x
    <3>1. ASSUME NEW x \in Copies'[f]
          PROVE  /\ Shift(x) \in Copies[f]
                 /\ x[1] = "list" => x[2] \in Nat /\ x = <<"list", x[2], x[2]>>
      <4>1. \/ \E j \in Items : x = <<"queue", j, j>> /\ j.ev = f /\ waiting[j] > 0
            \/ x = <<"hand", f, f>> /\ InHand = f
            \/ \E k \in DOMAIN list' : x = <<"list", k, k>> /\ list'[k] = f
            \/ \E d \in Sockets : x = <<"popped", d, d>> /\ popped'[d] = f
            \/ \E d \in Sockets, s \in Slots : x = <<"job", d, s>> /\ job[d][s].ev = f
        BY <2>2, <3>1, SpotsIn
      <4>2. CASE \E k \in DOMAIN list' : x = <<"list", k, k>> /\ list'[k] = f
        <5>1. PICK k \in DOMAIN list' : x = <<"list", k, k>> /\ list'[k] = f
          BY <4>2
        <5>2. k + 1 \in DOMAIN list /\ list[k + 1] = f /\ k \in Nat
          BY <1>2, <5>1
        <5>3. Shift(x) = <<"list", k + 1, k + 1>>
          BY <5>1
        <5>4. <<"list", k + 1, k + 1>> \in Spots(f, waiting, InHand, list, popped, job)
          BY <5>2, SpotsIn
        <5>. QED
          BY <2>1, <5>1, <5>2, <5>3, <5>4
      <4>3. CASE ~\E k \in DOMAIN list' : x = <<"list", k, k>> /\ list'[k] = f
        <5>1. x[1] # "list" /\ Shift(x) = x
          BY <4>1, <4>3
        <5>2. \/ \E j \in Items : x = <<"queue", j, j>> /\ j.ev = f /\ waiting[j] > 0
              \/ x = <<"hand", f, f>> /\ InHand = f
              \/ \E d \in Sockets : x = <<"popped", d, d>> /\ popped[d] = f
              \/ \E d \in Sockets, s \in Slots : x = <<"job", d, s>> /\ job[d][s].ev = f
          BY <1>3, <2>4, <4>1, <4>3
        <5>3. x \in Spots(f, waiting, InHand, list, popped, job)
          BY <5>2, SpotsIn
        <5>. QED
          BY <2>1, <5>1, <5>3
      <4>. QED
        BY <4>2, <4>3
    <3>2. \A x, y \in Copies'[f] : x = y
      <4>1. SUFFICES ASSUME NEW x \in Copies'[f], NEW y \in Copies'[f] PROVE x = y
        OBVIOUS
      <4>2. Shift(x) = Shift(y)
        BY <1>0, <2>0, <3>1, <4>1 DEF OneCopy
      <4>3. CASE x[1] = "list"
        <5>1. Shift(x) = <<"list", x[2] + 1, x[2] + 1>>
          BY <4>3
        <5>2. y[1] = "list"
          BY <4>2, <5>1
        <5>3. Shift(y) = <<"list", y[2] + 1, y[2] + 1>>
          BY <5>2
        <5>4. x[2] \in Nat /\ y[2] \in Nat /\ x = <<"list", x[2], x[2]>> /\ y = <<"list", y[2], y[2]>>
          BY <3>1, <4>1, <4>3, <5>2
        <5>5. x[2] + 1 = y[2] + 1
          BY <4>2, <5>1, <5>3
        <5>6. x[2] = y[2]
          BY <5>4, <5>5
        <5>. QED
          BY <5>4, <5>6
      <4>4. CASE x[1] # "list"
        BY <4>2, <4>4
      <4>. QED
        BY <4>3, <4>4
    <3>3. \A j \in Items : j.ev = f => waiting'[j] <= 1
      BY <1>0, <1>1, <2>0 DEF OneCopy
    <3>. QED
      BY <3>1, <3>2, <3>3
  <2>. QED
    BY <2>3, <2>4
<1>9. OneCopy'
  BY <1>8 DEF OneCopy
<1>10. Alive'
  <2>1. \A f \in Clean' : f \in Clean /\ status'[f] = status[f]
    BY <1>1, <1>6
  <2>. QED
    BY <1>0, <1>8, <2>1 DEF Alive
<1>. QED
  BY <1>4, <1>6, <1>7, <1>9, <1>10 DEF TunnelInv, TunnelGood

\* One goroutine's record is replaced.
LEMMA JobReplaced ==
  ASSUME TunnelTypeOK, NEW c \in Sockets, NEW s \in Slots, NEW j \in Jobs, job' = [job EXCEPT ![c][s] = j]
  PROVE  /\ job' \in [Sockets -> [Slots -> Jobs]]
         /\ \A d \in Sockets, t \in Slots : job'[d][t] = IF d = c /\ t = s THEN j ELSE job[d][t]
<1>1. job \in [Sockets -> [Slots -> Jobs]]
  BY DEF TunnelTypeOK
<1>. QED
  BY <1>1

\* The same, of a goroutine that keeps its event.
LEMMA JobMoved ==
  ASSUME TunnelTypeOK, NEW c \in Sockets, NEW s \in Slots, job[c][s] # Idle,
         NEW l \in {"write", "wait"}, JobGoto(c, s, l)
  PROVE  /\ job' \in [Sockets -> [Slots -> Jobs]]
         /\ \A d \in Sockets, t \in Slots : d # c \/ t # s => job'[d][t] = job[d][t]
         /\ job'[c][s].ev = job[c][s].ev /\ job[c][s].ev \in Events
         /\ job'[c][s].pc = l /\ job'[c][s].resp = job[c][s].resp
<1>. DEFINE was == job[c][s]
            j == [was EXCEPT !.pc = l]
<1>1. was \in [pc: {"load", "write", "wait"}, ev: Events, resp: Results \cup {None}] /\ was.ev \in Events
  BY JobFacts DEF TunnelTypeOK
<1>2. job' = [job EXCEPT ![c][s] = j]
  BY DEF JobGoto
<1>. HIDE DEF was
<1>3. j \in Jobs /\ j.pc = l /\ j.ev = was.ev /\ j.resp = was.resp
  BY <1>1 DEF Jobs
<1>. HIDE DEF j
<1>4. /\ job' \in [Sockets -> [Slots -> Jobs]]
      /\ \A d \in Sockets, t \in Slots : job'[d][t] = IF d = c /\ t = s THEN j ELSE job[d][t]
  BY <1>2, <1>3, JobReplaced
<1>. QED
  BY <1>1, <1>3, <1>4 DEF was

JobAnswer(c, s, r) == job' = [job EXCEPT ![c][s].resp = r]

LEMMA JobAnswered ==
  ASSUME TunnelTypeOK, NEW c \in Sockets, NEW s \in Slots, job[c][s] # Idle,
         NEW r \in Results, JobAnswer(c, s, r)
  PROVE  /\ job' \in [Sockets -> [Slots -> Jobs]]
         /\ \A d \in Sockets, t \in Slots : d # c \/ t # s => job'[d][t] = job[d][t]
         /\ job'[c][s].ev = job[c][s].ev /\ job[c][s].ev \in Events
         /\ job'[c][s].pc = job[c][s].pc /\ job'[c][s].resp = r
<1>. DEFINE was == job[c][s]
            j == [was EXCEPT !.resp = r]
<1>1. was \in [pc: {"load", "write", "wait"}, ev: Events, resp: Results \cup {None}] /\ was.ev \in Events
  BY JobFacts DEF TunnelTypeOK
<1>2. job' = [job EXCEPT ![c][s] = j]
  BY DEF JobAnswer
<1>. HIDE DEF was
<1>3. j \in Jobs /\ j.pc = was.pc /\ j.ev = was.ev /\ j.resp = r
  BY <1>1 DEF Jobs
<1>. HIDE DEF j
<1>4. /\ job' \in [Sockets -> [Slots -> Jobs]]
      /\ \A d \in Sockets, t \in Slots : job'[d][t] = IF d = c /\ t = s THEN j ELSE job[d][t]
  BY <1>2, <1>3, JobReplaced
<1>. QED
  BY <1>1, <1>3, <1>4 DEF was

LEMMA SpawnGood == ASSUME TunnelInv, NEW c \in Sockets, Spawn(c) PROVE TunnelGood
<1>0. TunnelTypeOK /\ Closed /\ ChanOwned /\ Hears
  BY DEF TunnelInv
<1>. DEFINE e == popped[c]
            j == [Idle EXCEPT !.pc = "load", !.ev = e]
<1>1. PICK s \in Slots : job[c][s] = Idle /\ job' = [job EXCEPT ![c][s] = j]
  <2>. DEFINE free == {t \in Slots : job[c][t] = Idle}
              s0 == CHOOSE t \in free : TRUE
  <2>1. free # {} /\ job' = [job EXCEPT ![c][s0] = j]
    BY DEF Spawn
  <2>2. s0 \in free
    BY <2>1
  <2>. QED
    BY <2>1, <2>2
<1>2. /\ conn[c] = "on" /\ e # None /\ popped' = [popped EXCEPT ![c] = None]
      /\ UNCHANGED <<waiting, leased, lapsed, status, stale, old, session, list, stage, hold, conn, chan,
                     frames, doubled, unheard, overwritten, used>>
  BY DEF Spawn, leaseVars, tables, worker, history
<1>3. e \in Events
  BY <1>0, <1>2 DEF TunnelTypeOK
<1>4. j \in Jobs /\ j.pc = "load" /\ j.ev = e
  BY <1>3 DEF Jobs, Idle
<1>. HIDE DEF j
<1>5. /\ job' \in [Sockets -> [Slots -> Jobs]]
      /\ \A d \in Sockets, t \in Slots : job'[d][t] = IF d = c /\ t = s THEN j ELSE job[d][t]
  BY <1>0, <1>1, <1>4, JobReplaced
<1>6. popped' \in [Sockets -> Events \cup {None}] /\ \A d \in Sockets : popped'[d] = IF d = c THEN None ELSE popped[d]
  BY <1>0, <1>2 DEF TunnelTypeOK
<1>. HIDE DEF e
<1>7. TunnelTypeOK'
  BY <1>0, <1>2, <1>5, <1>6 DEF TunnelTypeOK, LeaseTypeOK
<1>8. UsedNow /\ used'.faults >= used.faults
  BY <1>0, <1>2, UsedSteps
<1>9. /\ KeyHeld' /\ LeaseHeld' /\ AnswersHeard' /\ Clean' \subseteq Clean /\ Stays
  BY <1>2, <1>8, TunnelFrames
<1>10. Closed'
  BY <1>0, <1>2, <1>5, <1>6 DEF Closed
<1>11. ChanOwned'
  <2>1. SUFFICES ASSUME NEW d \in Sockets, NEW f \in Events, chan[d][f] # None
                 PROVE  job'[d][chan[d][f]].ev = f /\ job'[d][chan[d][f]].pc \in {"write", "wait"}
    BY <1>2 DEF ChanOwned
  <2>2. chan[d][f] \in Slots /\ job[d][chan[d][f]].ev = f /\ job[d][chan[d][f]].pc \in {"write", "wait"}
    BY <1>0, <2>1 DEF ChanOwned, TunnelTypeOK
  <2>. QED
    BY <1>1, <1>5, <2>2, JobFacts
<1>12. Hears'
  <2>1. SUFFICES ASSUME NEW d \in Sockets, NEW t \in Slots, job'[d][t].pc \in {"write", "wait"},
                        job'[d][t].resp = None, job'[d][t].ev \in Clean'
                 PROVE  chan'[d][job'[d][t].ev] = t
    BY DEF Hears
  <2>2. job'[d][t] = job[d][t]
    BY <1>4, <1>5, <2>1
  <2>. QED
    BY <1>0, <1>2, <1>9, <2>1, <2>2 DEF Hears
<1>13. ASSUME NEW f \in Clean'
       PROVE  \/ /\ Copies'[f] \subseteq Copies[f]
                 /\ status'[f] = status[f] \/ status'[f] \in Live \/ Copies'[f] = {}
                 /\ \A i \in Items : i.ev = f => waiting'[i] <= waiting[i]
              \/ /\ \A x, y \in Copies'[f] : x = y
                 /\ status'[f] \in Live \/ (status'[f] = status[f] /\ Copies[f] # {})
                 /\ \A i \in Items : i.ev = f => waiting'[i] <= 1
  <2>0. f \in Clean /\ f \in Events /\ f # None
    BY <1>9, CliNone DEF Clean
  <2>1. Copies[f] = Spots(f, waiting, InHand, list, popped, job)
    BY <2>0 DEF Copies
  <2>2. Copies'[f] = Spots(f, waiting, InHand, list, popped', job')
    BY <1>2, <2>0 DEF Copies, InHand
  <2>3. CASE f # e
    <3>1. /\ \A d \in Sockets : popped'[d] = f => popped[d] = f
          /\ \A d \in Sockets, t \in Slots : job'[d][t].ev = f => job[d][t].ev = f
      BY <1>4, <1>5, <1>6, <2>0, <2>3
    <3>2. Copies'[f] \subseteq Copies[f]
      BY <2>1, <2>2, <3>1, SpotsMono
    <3>. QED
      BY <1>0, <1>2, <3>2 DEF TunnelTypeOK, LeaseTypeOK
  <2>4. CASE f = e
    <3>. DEFINE z == <<"popped", c, c>>
                to == <<"job", c, s>>
    <3>1. \E d \in Sockets : z = <<"popped", d, d>> /\ popped[d] = f
      BY <2>4 DEF e
    <3>2. /\ Copies[f] # {}
          /\ \A i \in Items : i.ev = f => waiting[i] <= 1
          /\ \A i \in Items : i.ev = f /\ waiting[i] > 0 => z = <<"queue", i, i>>
          /\ InHand = f => z = <<"hand", f, f>>
          /\ \A k \in DOMAIN list : list[k] = f => z = <<"list", k, k>>
          /\ \A d \in Sockets : popped[d] = f => z = <<"popped", d, d>>
          /\ \A d \in Sockets, t \in Slots : job[d][t].ev = f => z = <<"job", d, t>>
      <4>. HIDE DEF z
      <4>. QED
        BY <2>0, <3>1, Alone
    <3>3. /\ \A i \in Items : ~(i.ev = f /\ waiting[i] > 0)
          /\ InHand # f
          /\ \A k \in DOMAIN list : list[k] # f
          /\ \A d \in Sockets : popped[d] = f => d = c
          /\ \A d \in Sockets, t \in Slots : job[d][t].ev # f
      BY <3>2
    <3>4. /\ \A d \in Sockets : popped'[d] # f
          /\ \A d \in Sockets, t \in Slots : job'[d][t].ev = f => to = <<"job", d, t>>
      BY <1>5, <1>6, <2>0, <3>3
    <3>5. Spots(f, waiting, InHand, list, popped', job') \subseteq {to}
      <4>. HIDE DEF to, z
      <4>. QED
        BY <3>3, <3>4, SpotsOnly
    <3>6. \A x \in Copies'[f] : x = to
      BY <2>2, <3>5
    <3>. QED
      BY <1>2, <3>2, <3>6
  <2>. QED
    BY <2>3, <2>4
<1>14. OneCopy' /\ Alive'
  BY <1>0, <1>2, <1>9, <1>13, CopyMoved DEF TunnelTypeOK, LeaseTypeOK
<1>. QED
  BY <1>7, <1>9, <1>10, <1>11, <1>12, <1>14 DEF TunnelInv, TunnelGood

-----------------------------------------------------------------------------
(* The goroutine of one event. *)

\* A clean event in the hands of a goroutine is in nobody else's, and not settled.
LEMMA JobAlone ==
  ASSUME TunnelInv, NEW c \in Sockets, NEW s \in Slots, NEW e \in Clean, job[c][s].ev = e
  PROVE  /\ status[e] \in Live
         /\ Copies[e] \subseteq {<<"job", c, s>>}
         /\ \A d \in Sockets, t \in Slots : job[d][t].ev = e => d = c /\ t = s
<1>. DEFINE z == <<"job", c, s>>
<1>1. \E d \in Sockets, t \in Slots : z = <<"job", d, t>> /\ job[d][t].ev = e
  OBVIOUS
<1>2. /\ status[e] \in Live
      /\ \A i \in Items : i.ev = e /\ waiting[i] > 0 => z = <<"queue", i, i>>
      /\ InHand = e => z = <<"hand", e, e>>
      /\ \A k \in DOMAIN list : list[k] = e => z = <<"list", k, k>>
      /\ \A d \in Sockets : popped[d] = e => z = <<"popped", d, d>>
      /\ \A d \in Sockets, t \in Slots : job[d][t].ev = e => z = <<"job", d, t>>
  <2>. HIDE DEF z
  <2>. QED
    BY <1>1, Alone
<1>3. Spots(e, waiting, InHand, list, popped, job) \subseteq {z}
  <2>. HIDE DEF z
  <2>. QED
    BY <1>2, SpotsOnly
<1>4. Copies[e] = Spots(e, waiting, InHand, list, popped, job)
  BY DEF Copies, Clean
<1>. QED
  BY <1>2, <1>3, <1>4

\* A goroutine that returns takes its event and its channel along.
LEMMA FinishGood ==
  ASSUME TunnelInv, NEW c \in Sockets, NEW s \in Slots, job[c][s] # Idle, Finish(c, s),
         status' \in [Events -> Terminal \cup {"absent", "queued", "in_flight"}],
         stale' \in [Events -> BOOLEAN], UsedNow, used'.faults >= used.faults,
         \A f \in Events \ {job[c][s].ev} : status'[f] = status[f],
         UNCHANGED <<leaseVars, old, session, list, worker, conn, popped, frames, history>>
  PROVE  TunnelGood
<1>. DEFINE e == job[c][s].ev
<1>0. TunnelTypeOK /\ Closed /\ ChanOwned /\ Hears
  BY DEF TunnelInv
<1>1. /\ job' = [job EXCEPT ![c][s] = Idle] /\ chan' = [chan EXCEPT ![c][e] = None]
      /\ UNCHANGED <<waiting, leased, lapsed, old, session, list, stage, hold, conn, popped,
                     frames, doubled, unheard, overwritten>>
  BY DEF Finish, leaseVars, worker, history
<1>2. e \in Events /\ e # None
  <2>1. job[c][s] \in Jobs
    BY <1>0 DEF TunnelTypeOK
  <2>. QED
    BY <2>1, JobFacts, CliNone
<1>3. /\ job' \in [Sockets -> [Slots -> Jobs]]
      /\ \A d \in Sockets, t \in Slots : job'[d][t] = IF d = c /\ t = s THEN Idle ELSE job[d][t]
  BY <1>0, <1>1, JobFacts, JobReplaced
<1>4. /\ chan' \in [Sockets -> [Events -> Slots \cup {None}]]
      /\ \A d \in Sockets, f \in Events : chan'[d][f] = IF d = c /\ f = e THEN None ELSE chan[d][f]
  <2>1. chan \in [Sockets -> [Events -> Slots \cup {None}]]
    BY <1>0 DEF TunnelTypeOK
  <2>. HIDE DEF e
  <2>. QED
    BY <1>1, <1>2, <2>1
<1>5. e \in Clean => /\ status[e] \in Live /\ Copies[e] \subseteq {<<"job", c, s>>}
                     /\ \A d \in Sockets, t \in Slots : job[d][t].ev = e => d = c /\ t = s
  BY JobAlone
<1>6. \A f \in Events \ {e} : status'[f] = status[f]
  OBVIOUS
<1>7. e = job[c][s].ev
  OBVIOUS
<1>. HIDE DEF e
<1>8. TunnelTypeOK'
  BY <1>0, <1>1, <1>3, <1>4 DEF TunnelTypeOK, LeaseTypeOK, UsedNow
<1>9. KeyHeld' /\ LeaseHeld' /\ AnswersHeard' /\ Clean' \subseteq Clean
  BY <1>1, TunnelFrames
<1>10. Closed'
  BY <1>0, <1>1, <1>3, <1>4 DEF Closed
<1>11. ChanOwned'
  <2>1. SUFFICES ASSUME NEW d \in Sockets, NEW f \in Events, chan'[d][f] # None
                 PROVE  job'[d][chan'[d][f]].ev = f /\ job'[d][chan'[d][f]].pc \in {"write", "wait"}
    BY DEF ChanOwned
  <2>2. chan'[d][f] = chan[d][f] /\ (d # c \/ f # e)
    BY <1>4, <2>1
  <2>3. chan[d][f] \in Slots /\ job[d][chan[d][f]].ev = f /\ job[d][chan[d][f]].pc \in {"write", "wait"}
    BY <1>0, <2>1, <2>2 DEF ChanOwned, TunnelTypeOK
  <2>4. job'[d][chan[d][f]] = job[d][chan[d][f]]
    BY <1>3, <1>7, <2>2, <2>3
  <2>. QED
    BY <2>2, <2>3, <2>4
<1>12. Hears'
  <2>1. SUFFICES ASSUME NEW d \in Sockets, NEW t \in Slots, job'[d][t].pc \in {"write", "wait"},
                        job'[d][t].resp = None, job'[d][t].ev \in Clean'
                 PROVE  chan'[d][job'[d][t].ev] = t
    BY DEF Hears
  <2>2. job'[d][t] = job[d][t] /\ (d # c \/ t # s)
    BY <1>3, <2>1, JobFacts
  <2>3. job[d][t].ev \in Clean /\ job[d][t].ev \in Events /\ chan[d][job[d][t].ev] = t
    BY <1>0, <1>9, <2>1, <2>2 DEF Hears, Clean
  <2>4. job[d][t].ev # e
    BY <1>5, <2>2, <2>3
  <2>. QED
    BY <1>4, <2>2, <2>3, <2>4
<1>13. ASSUME NEW f \in Clean'
       PROVE  /\ Copies'[f] \subseteq Copies[f]
              /\ status'[f] = status[f] \/ status'[f] \in Live \/ Copies'[f] = {}
  <2>0. f \in Clean /\ f \in Events /\ f # None
    BY <1>9, CliNone DEF Clean
  <2>1. Copies[f] = Spots(f, waiting, InHand, list, popped, job)
    BY <2>0 DEF Copies
  <2>2. Copies'[f] = Spots(f, waiting, InHand, list, popped, job')
    BY <1>1, <2>0 DEF Copies, InHand
  <2>3. \A d \in Sockets, t \in Slots : job'[d][t].ev = f => job[d][t].ev = f
    BY <1>3, <2>0, JobFacts
  <2>4. Copies'[f] \subseteq Copies[f]
    BY <2>1, <2>2, <2>3, SpotsMono
  <2>5. ASSUME f = e PROVE Copies'[f] = {}
    <3>1. SUFFICES ASSUME NEW x \in Copies'[f] PROVE FALSE
      OBVIOUS
    <3>2. x = <<"job", c, s>>
      BY <1>5, <2>0, <2>4, <2>5, <3>1
    <3>3. x \in Spots(f, waiting, InHand, list, popped, job')
      BY <2>2, <3>1
    <3>4. job'[c][s].ev = f
      BY <3>2, <3>3, SpotsIn
    <3>. QED
      BY <1>3, <2>0, <3>4, JobFacts
  <2>. QED
    BY <1>6, <2>0, <2>4, <2>5
<1>14. OneCopy' /\ Alive'
  BY <1>0, <1>1, <1>9, <1>13, CopyMoved DEF TunnelTypeOK, LeaseTypeOK
<1>15. Stays
  <2>1. status[e] = "delivered" => e \notin Clean
    BY <1>5 DEF Live
  <2>2. e \notin Clean => e \in doubled \/ used.faults > 0
    BY <1>0, <1>2 DEF Clean, TunnelTypeOK
  <2>. QED
    BY <1>1, <1>6, <2>1, <2>2 DEF Stays
<1>. QED
  BY <1>8, <1>9, <1>10, <1>11, <1>12, <1>14, <1>15 DEF TunnelInv, TunnelGood

LEMMA SettleGood ==
  ASSUME TunnelInv, NEW c \in Sockets, NEW s \in Slots,
         JobWriteFails(c, s) \/ JobSettle(c, s) \/ JobTimeout(c, s)
  PROVE  TunnelGood
<1>. DEFINE e == job[c][s].ev
<1>0. TunnelTypeOK
  BY DEF TunnelInv
<1>1. /\ job[c][s].pc \in {"write", "wait"} /\ Finish(c, s)
      /\ UNCHANGED <<leaseVars, old, session, list, worker, conn, popped, frames, history>>
  BY DEF JobWriteFails, JobSettle, JobTimeout
<1>2. job[c][s] # Idle /\ e \in Events
  BY <1>0, <1>1, JobFacts DEF TunnelTypeOK
<1>3. /\ status' \in [Events -> Terminal \cup {"absent", "queued", "in_flight"}]
      /\ stale' \in [Events -> BOOLEAN] /\ UsedNow /\ used'.faults >= used.faults
      /\ \A f \in Events \ {e} : status'[f] = status[f]
  <2>1. CASE JobWriteFails(c, s)
    <3>1. TunnelFault /\ status' = [status EXCEPT ![e] = "failed"] /\ stale' = [stale EXCEPT ![e] = FALSE]
      BY <2>1 DEF JobWriteFails, SetStatus
    <3>2. UsedNow /\ used'.faults >= used.faults
      BY <1>0, <3>1, UsedSteps
    <3>. HIDE DEF e
    <3>. QED
      BY <1>0, <3>1, <3>2 DEF TunnelTypeOK, Terminal
  <2>2. CASE JobSettle(c, s) \/ JobTimeout(c, s)
    <3>1. PICK st \in {"delivered", "failed"} : TrySetStatus(e, st)
      BY <2>2 DEF JobSettle, JobTimeout
    <3>2. st \in Terminal \cup Live
      BY DEF Terminal
    <3>. QED
      BY <1>0, <1>2, <3>1, <3>2, TryTyped
  <2>. QED
    BY <2>1, <2>2
<1>. QED
  BY <1>1, <1>2, <1>3, FinishGood

LEMMA LoadGood == ASSUME TunnelInv, NEW c \in Sockets, NEW s \in Slots, JobLoad(c, s) PROVE TunnelGood
<1>. DEFINE e == job[c][s].ev
<1>0. TunnelTypeOK /\ Closed /\ ChanOwned /\ Hears
  BY DEF TunnelInv
<1>1. /\ job[c][s].pc = "load"
      /\ UNCHANGED <<waiting, leased, lapsed, old, session, list, stage, hold, conn, popped,
                     frames, doubled, unheard, overwritten>>
  BY DEF JobLoad, leaseVars, worker, history
<1>2. job[c][s] # Idle /\ e \in Events /\ conn[c] = "on"
  BY <1>0, <1>1, JobFacts DEF TunnelTypeOK, Closed
<1>3. \A d \in Sockets, f \in Events : chan[d][f] # None =>
         chan[d][f] \in Slots /\ (d # c \/ chan[d][f] # s)
  <2>1. SUFFICES ASSUME NEW d \in Sockets, NEW f \in Events, chan[d][f] # None
                 PROVE  chan[d][f] \in Slots /\ (d # c \/ chan[d][f] # s)
    OBVIOUS
  <2>2. chan[d][f] \in Slots
    BY <1>0, <2>1 DEF TunnelTypeOK
  <2>3. job[d][chan[d][f]].pc # "load"
    BY <1>0, <2>1 DEF ChanOwned
  <2>. QED
    BY <1>1, <2>2, <2>3
<1>4. CASE TrySetStatus(e, "in_flight") /\ PendingAdd(c, s, e) /\ JobGoto(c, s, "write")
  <2>1. /\ status' \in [Events -> Terminal \cup {"absent", "queued", "in_flight"}]
        /\ stale' \in [Events -> BOOLEAN]
        /\ UsedNow /\ used'.faults >= used.faults
        /\ \A f \in Events \ {e} : status'[f] = status[f]
        /\ used'.faults = 0 => status'[e] = "in_flight"
    BY <1>0, <1>2, <1>4, TryTyped DEF Live
  <2>2. /\ job' \in [Sockets -> [Slots -> Jobs]]
        /\ \A d \in Sockets, t \in Slots : d # c \/ t # s => job'[d][t] = job[d][t]
        /\ job'[c][s].ev = e /\ job'[c][s].pc = "write"
    BY <1>0, <1>2, <1>4, JobMoved
  <2>3. /\ chan' \in [Sockets -> [Events -> Slots \cup {None}]]
        /\ \A d \in Sockets, f \in Events : chan'[d][f] = IF d = c /\ f = e THEN s ELSE chan[d][f]
    <3>1. chan \in [Sockets -> [Events -> Slots \cup {None}]] /\ chan' = [chan EXCEPT ![c][e] = s]
      BY <1>0, <1>4 DEF TunnelTypeOK, PendingAdd
    <3>. HIDE DEF e
    <3>. QED
      BY <1>2, <3>1
  <2>4. e \in Clean => /\ status[e] \in Live
                       /\ \A d \in Sockets, t \in Slots : job[d][t].ev = e => d = c /\ t = s
    BY JobAlone
  <2>5. e = job[c][s].ev
    OBVIOUS
  <2>. HIDE DEF e
  <2>6. TunnelTypeOK'
    BY <1>0, <1>1, <2>1, <2>2, <2>3 DEF TunnelTypeOK, LeaseTypeOK, UsedNow
  <2>7. KeyHeld' /\ LeaseHeld' /\ AnswersHeard' /\ Clean' \subseteq Clean
    BY <1>1, <2>1, TunnelFrames
  <2>8. Closed'
    <3>1. SUFFICES ASSUME NEW d \in Sockets, conn[d] # "on"
                   PROVE  /\ popped'[d] = None
                          /\ \A t \in Slots : job'[d][t] = Idle
                          /\ \A f \in Events : chan'[d][f] = None
      BY <1>1 DEF Closed
    <3>2. d # c /\ popped[d] = None /\ (\A t \in Slots : job[d][t] = Idle) /\ \A f \in Events : chan[d][f] = None
      BY <1>0, <1>2, <3>1 DEF Closed
    <3>. QED
      BY <1>1, <2>2, <2>3, <3>2
  <2>9. ChanOwned'
    <3>1. SUFFICES ASSUME NEW d \in Sockets, NEW f \in Events, chan'[d][f] # None
                   PROVE  job'[d][chan'[d][f]].ev = f /\ job'[d][chan'[d][f]].pc \in {"write", "wait"}
      BY DEF ChanOwned
    <3>2. CASE d = c /\ f = e
      BY <2>2, <2>3, <3>2
    <3>3. CASE ~(d = c /\ f = e)
      <4>1. chan'[d][f] = chan[d][f]
        BY <2>3, <3>3
      <4>2. job[d][chan[d][f]].ev = f /\ job[d][chan[d][f]].pc \in {"write", "wait"}
        BY <1>0, <3>1, <4>1 DEF ChanOwned
      <4>3. job'[d][chan[d][f]] = job[d][chan[d][f]]
        BY <1>3, <2>2, <3>1, <4>1
      <4>. QED
        BY <4>1, <4>2, <4>3
    <3>. QED
      BY <3>2, <3>3
  <2>10. Hears'
    <3>1. SUFFICES ASSUME NEW d \in Sockets, NEW t \in Slots, job'[d][t].pc \in {"write", "wait"},
                          job'[d][t].resp = None, job'[d][t].ev \in Clean'
                   PROVE  chan'[d][job'[d][t].ev] = t
      BY DEF Hears
    <3>2. CASE d = c /\ t = s
      BY <1>2, <2>2, <2>3, <3>2
    <3>3. CASE d # c \/ t # s
      <4>1. job'[d][t] = job[d][t]
        BY <2>2, <3>3
      <4>2. job[d][t].ev \in Clean /\ job[d][t].ev \in Events /\ chan[d][job[d][t].ev] = t
        BY <1>0, <2>7, <3>1, <4>1 DEF Hears, Clean
      <4>3. job[d][t].ev # e
        BY <2>4, <3>3, <4>2
      <4>. QED
        BY <2>3, <4>1, <4>2, <4>3
    <3>. QED
      BY <3>2, <3>3
  <2>11. ASSUME NEW f \in Clean'
         PROVE  Copies'[f] \subseteq Copies[f] /\ (status'[f] = status[f] \/ status'[f] \in Live)
    <3>0. f \in Events /\ used'.faults = 0
      BY DEF Clean
    <3>1. Copies[f] = Spots(f, waiting, InHand, list, popped, job)
      BY <3>0 DEF Copies
    <3>2. Copies'[f] = Spots(f, waiting, InHand, list, popped, job')
      BY <1>1, <3>0 DEF Copies, InHand
    <3>3. \A d \in Sockets, t \in Slots : job'[d][t].ev = f => job[d][t].ev = f
      BY <2>2, <2>5
    <3>4. Copies'[f] \subseteq Copies[f]
      BY <3>1, <3>2, <3>3, SpotsMono
    <3>. QED
      BY <2>1, <3>0, <3>4 DEF Live
  <2>12. OneCopy' /\ Alive'
    BY <1>0, <1>1, <2>7, <2>11, CopyMoved DEF TunnelTypeOK, LeaseTypeOK
  <2>13. Stays
    <3>1. status[e] = "delivered" => e \notin Clean
      BY <2>4 DEF Live
    <3>2. e \notin Clean => e \in doubled \/ used.faults > 0
      BY <1>0, <1>2 DEF Clean, TunnelTypeOK
    <3>. QED
      BY <1>1, <2>1, <3>1, <3>2 DEF Stays
  <2>. QED
    BY <2>6, <2>7, <2>8, <2>9, <2>10, <2>12, <2>13 DEF TunnelInv, TunnelGood
<1>5. CASE TunnelFault /\ job' = [job EXCEPT ![c][s] = Idle] /\ UNCHANGED <<status, stale, chan>>
  <2>1. UsedNow /\ used'.faults >= used.faults /\ used'.faults > 0
    BY <1>0, <1>5, UsedSteps
  <2>2. /\ job' \in [Sockets -> [Slots -> Jobs]]
        /\ \A d \in Sockets, t \in Slots : job'[d][t] = IF d = c /\ t = s THEN Idle ELSE job[d][t]
    BY <1>0, <1>5, JobFacts, JobReplaced
  <2>3. TunnelTypeOK'
    BY <1>0, <1>1, <1>5, <2>1, <2>2 DEF TunnelTypeOK, LeaseTypeOK, UsedNow
  <2>4. Closed'
    BY <1>0, <1>1, <1>5, <2>2 DEF Closed
  <2>5. ChanOwned'
    BY <1>0, <1>3, <1>5, <2>2 DEF ChanOwned
  <2>6. Stays
    BY <1>5 DEF Stays
  <2>. QED
    BY <2>1, <2>3, <2>4, <2>5, <2>6, Dirty DEF TunnelInv, TunnelGood
<1>. QED
  BY <1>4, <1>5 DEF JobLoad

\* The frame is out.
LEMMA JobWriteGood == ASSUME TunnelInv, NEW c \in Sockets, NEW s \in Slots, JobWrite(c, s) PROVE TunnelGood
<1>. DEFINE e == job[c][s].ev
<1>0. TunnelTypeOK /\ Closed /\ ChanOwned /\ Hears
  BY DEF TunnelInv
<1>1. /\ job[c][s].pc = "write" /\ frames' = [frames EXCEPT ![c][e] = @ + 1] /\ JobGoto(c, s, "wait")
      /\ UNCHANGED <<waiting, leased, lapsed, status, stale, old, session, list, stage, hold, conn, popped,
                     chan, doubled, unheard, overwritten, used>>
  BY DEF JobWrite, SendFrame, leaseVars, tables, worker, history
<1>2. job[c][s] # Idle /\ e \in Events /\ conn[c] = "on"
  BY <1>0, <1>1, JobFacts DEF TunnelTypeOK, Closed
<1>3. /\ job' \in [Sockets -> [Slots -> Jobs]]
      /\ \A d \in Sockets, t \in Slots : d # c \/ t # s => job'[d][t] = job[d][t]
      /\ job'[c][s].ev = e /\ job'[c][s].pc = "wait" /\ job'[c][s].resp = job[c][s].resp
  BY <1>0, <1>1, <1>2, JobMoved
<1>4. frames' \in [Sockets -> [Events -> Nat]]
  <2>1. frames \in [Sockets -> [Events -> Nat]]
    BY <1>0 DEF TunnelTypeOK
  <2>. HIDE DEF e
  <2>. QED
    BY <1>1, <1>2, <2>1
<1>5. UsedNow /\ used'.faults >= used.faults
  BY <1>0, <1>1, UsedSteps
<1>6. TunnelTypeOK'
  BY <1>0, <1>1, <1>3, <1>4 DEF TunnelTypeOK, LeaseTypeOK
<1>7. KeyHeld' /\ LeaseHeld' /\ AnswersHeard' /\ Clean' \subseteq Clean /\ Stays
  BY <1>1, <1>5, TunnelFrames
<1>8. Closed'
  <2>1. SUFFICES ASSUME NEW d \in Sockets, conn[d] # "on"
                 PROVE  /\ popped'[d] = None
                        /\ \A t \in Slots : job'[d][t] = Idle
                        /\ \A f \in Events : chan'[d][f] = None
    BY <1>1 DEF Closed
  <2>2. d # c /\ popped[d] = None /\ (\A t \in Slots : job[d][t] = Idle) /\ \A f \in Events : chan[d][f] = None
    BY <1>0, <1>2, <2>1 DEF Closed
  <2>. QED
    BY <1>1, <1>3, <2>2
<1>9. ChanOwned'
  <2>1. SUFFICES ASSUME NEW d \in Sockets, NEW f \in Events, chan[d][f] # None
                 PROVE  job'[d][chan[d][f]].ev = f /\ job'[d][chan[d][f]].pc \in {"write", "wait"}
    BY <1>1 DEF ChanOwned
  <2>2. chan[d][f] \in Slots /\ job[d][chan[d][f]].ev = f /\ job[d][chan[d][f]].pc \in {"write", "wait"}
    BY <1>0, <2>1 DEF ChanOwned, TunnelTypeOK
  <2>3. CASE d = c /\ chan[d][f] = s
    BY <1>3, <2>2, <2>3
  <2>4. CASE d # c \/ chan[d][f] # s
    BY <1>3, <2>2, <2>4
  <2>. QED
    BY <2>3, <2>4
<1>10. Hears'
  <2>1. SUFFICES ASSUME NEW d \in Sockets, NEW t \in Slots, job'[d][t].pc \in {"write", "wait"},
                        job'[d][t].resp = None, job'[d][t].ev \in Clean'
                 PROVE  chan'[d][job'[d][t].ev] = t
    BY DEF Hears
  <2>2. job[d][t].pc \in {"write", "wait"} /\ job[d][t].resp = None /\ job[d][t].ev = job'[d][t].ev
    <3>1. CASE d = c /\ t = s
      BY <1>1, <1>3, <2>1, <3>1
    <3>2. CASE d # c \/ t # s
      BY <1>3, <2>1, <3>2
    <3>. QED
      BY <3>1, <3>2
  <2>. QED
    BY <1>0, <1>1, <1>7, <2>1, <2>2 DEF Hears
<1>11. ASSUME NEW f \in Clean' PROVE Copies'[f] \subseteq Copies[f] /\ status'[f] = status[f]
  <2>0. f \in Events
    BY DEF Clean
  <2>1. Copies[f] = Spots(f, waiting, InHand, list, popped, job)
    BY <2>0 DEF Copies
  <2>2. Copies'[f] = Spots(f, waiting, InHand, list, popped, job')
    BY <1>1, <2>0 DEF Copies, InHand
  <2>3. \A d \in Sockets, t \in Slots : job'[d][t].ev = f => job[d][t].ev = f
    BY <1>3
  <2>4. Copies'[f] \subseteq Copies[f]
    BY <2>1, <2>2, <2>3, SpotsMono
  <2>. QED
    BY <1>1, <2>4
<1>12. OneCopy' /\ Alive'
  BY <1>0, <1>1, <1>7, <1>11, CopyMoved DEF TunnelTypeOK, LeaseTypeOK
<1>. QED
  BY <1>6, <1>7, <1>8, <1>9, <1>10, <1>12 DEF TunnelInv, TunnelGood

\* An answer reaches the goroutine whose channel the event has.
LEMMA ReaderGood ==
  ASSUME TunnelInv, NEW c \in Sockets, NEW e \in Events, NEW r \in Results, Reader(c, e, r)
  PROVE  TunnelGood
<1>. DEFINE s == chan[c][e]
<1>0. TunnelTypeOK /\ Closed /\ ChanOwned /\ Hears /\ AnswersHeard
  BY DEF TunnelInv
<1>1. /\ conn[c] = "on" /\ frames[c][e] > 0 /\ frames' = [frames EXCEPT ![c][e] = @ - 1]
      /\ UNCHANGED <<waiting, leased, lapsed, status, stale, old, session, list, stage, hold, conn, popped,
                     doubled, overwritten, used>>
  BY DEF Reader, Forward, leaseVars, tables, worker
<1>2. frames' \in [Sockets -> [Events -> Nat]]
  <2>1. frames \in [Sockets -> [Events -> Nat]]
    BY <1>0 DEF TunnelTypeOK
  <2>. QED
    BY <1>1, <2>1
<1>3. UsedNow /\ used'.faults >= used.faults
  BY <1>0, <1>1, UsedSteps
<1>4. KeyHeld' /\ LeaseHeld' /\ Clean' \subseteq Clean /\ Clean' = Clean /\ Stays
  BY <1>1, <1>3, TunnelFrames DEF Clean
<1>5. CASE s = None
  <2>1. /\ unheard' = IF Waits(c, e) THEN unheard \cup {e} ELSE unheard
        /\ UNCHANGED <<job, chan>>
    BY <1>5 DEF Reader
  <2>2. TunnelTypeOK'
    BY <1>0, <1>1, <1>2, <2>1 DEF TunnelTypeOK, LeaseTypeOK
  <2>3. Closed' /\ ChanOwned' /\ Hears' /\ OneCopy' /\ Alive'
    BY <1>1, <1>3, <2>1, TunnelFrames
  <2>4. ASSUME Waits(c, e) PROVE e \in doubled \/ used.faults > 0
    <3>1. PICK t \in Slots : job[c][t].pc = "wait" /\ job[c][t].ev = e /\ job[c][t].resp = None
      BY <2>4 DEF Waits
    <3>2. t # None
      BY CliNone
    <3>3. e \notin Clean
      BY <1>0, <1>5, <3>1, <3>2 DEF Hears
    <3>. QED
      BY <1>0, <3>3 DEF Clean, TunnelTypeOK
  <2>5. AnswersHeard'
    BY <1>0, <1>1, <2>1, <2>4 DEF AnswersHeard
  <2>. QED
    BY <1>4, <2>2, <2>3, <2>5 DEF TunnelInv, TunnelGood
<1>6. CASE s # None
  <2>1. JobAnswer(c, s, r) /\ chan' = [chan EXCEPT ![c][e] = None] /\ UNCHANGED unheard
    BY <1>6 DEF Reader, JobAnswer
  <2>2. s \in Slots /\ job[c][s].ev = e /\ job[c][s].pc \in {"write", "wait"}
    BY <1>0, <1>6 DEF ChanOwned, TunnelTypeOK
  <2>3. s = chan[c][e] /\ job[c][s] # Idle /\ r # None
    BY <2>2, JobFacts, CliNone DEF Results
  <2>4. /\ chan' \in [Sockets -> [Events -> Slots \cup {None}]]
        /\ \A d \in Sockets, f \in Events : chan'[d][f] = IF d = c /\ f = e THEN None ELSE chan[d][f]
    <3>1. chan \in [Sockets -> [Events -> Slots \cup {None}]]
      BY <1>0 DEF TunnelTypeOK
    <3>. HIDE DEF s
    <3>. QED
      BY <2>1, <3>1
  <2>. HIDE DEF s
  <2>5. /\ job' \in [Sockets -> [Slots -> Jobs]]
        /\ \A d \in Sockets, t \in Slots : d # c \/ t # s => job'[d][t] = job[d][t]
        /\ job'[c][s].ev = e /\ job'[c][s].pc = job[c][s].pc /\ job'[c][s].resp = r
    BY <1>0, <2>1, <2>2, <2>3, JobAnswered
  <2>6. e \in Clean => \A d \in Sockets, t \in Slots : job[d][t].ev = e => d = c /\ t = s
    BY <2>2, JobAlone
  <2>7. TunnelTypeOK'
    BY <1>0, <1>1, <1>2, <2>1, <2>4, <2>5 DEF TunnelTypeOK, LeaseTypeOK
  <2>8. AnswersHeard'
    BY <1>3, <1>1, <2>1, TunnelFrames
  <2>9. Closed'
    <3>1. SUFFICES ASSUME NEW d \in Sockets, conn[d] # "on"
                   PROVE  /\ popped'[d] = None
                          /\ \A t \in Slots : job'[d][t] = Idle
                          /\ \A f \in Events : chan'[d][f] = None
      BY <1>1 DEF Closed
    <3>2. d # c /\ popped[d] = None /\ (\A t \in Slots : job[d][t] = Idle) /\ \A f \in Events : chan[d][f] = None
      BY <1>0, <1>1, <3>1 DEF Closed
    <3>. QED
      BY <1>1, <2>4, <2>5, <3>2
  <2>10. ChanOwned'
    <3>1. SUFFICES ASSUME NEW d \in Sockets, NEW f \in Events, chan'[d][f] # None
                   PROVE  job'[d][chan'[d][f]].ev = f /\ job'[d][chan'[d][f]].pc \in {"write", "wait"}
      BY DEF ChanOwned
    <3>2. chan'[d][f] = chan[d][f] /\ (d # c \/ f # e)
      BY <2>4, <3>1
    <3>3. chan[d][f] \in Slots /\ job[d][chan[d][f]].ev = f /\ job[d][chan[d][f]].pc \in {"write", "wait"}
      BY <1>0, <3>1, <3>2 DEF ChanOwned, TunnelTypeOK
    <3>4. d # c \/ chan[d][f] # s
      BY <2>2, <3>2, <3>3
    <3>. QED
      BY <2>5, <3>2, <3>3, <3>4
  <2>11. Hears'
    <3>1. SUFFICES ASSUME NEW d \in Sockets, NEW t \in Slots, job'[d][t].pc \in {"write", "wait"},
                          job'[d][t].resp = None, job'[d][t].ev \in Clean'
                   PROVE  chan'[d][job'[d][t].ev] = t
      BY DEF Hears
    <3>2. d # c \/ t # s
      BY <2>3, <2>5, <3>1
    <3>3. job'[d][t] = job[d][t]
      BY <2>5, <3>2
    <3>4. job[d][t].ev \in Clean /\ job[d][t].ev \in Events /\ chan[d][job[d][t].ev] = t
      BY <1>0, <1>4, <3>1, <3>3 DEF Hears, Clean
    <3>5. job[d][t].ev # e
      BY <2>6, <3>2, <3>4
    <3>. QED
      BY <2>4, <3>3, <3>4, <3>5
  <2>12. ASSUME NEW f \in Clean' PROVE Copies'[f] \subseteq Copies[f] /\ status'[f] = status[f]
    <3>0. f \in Events
      BY DEF Clean
    <3>1. Copies[f] = Spots(f, waiting, InHand, list, popped, job)
      BY <3>0 DEF Copies
    <3>2. Copies'[f] = Spots(f, waiting, InHand, list, popped, job')
      BY <1>1, <3>0 DEF Copies, InHand
    <3>3. \A d \in Sockets, t \in Slots : job'[d][t].ev = f => job[d][t].ev = f
      BY <2>2, <2>5
    <3>4. Copies'[f] \subseteq Copies[f]
      BY <3>1, <3>2, <3>3, SpotsMono
    <3>. QED
      BY <1>1, <3>4
  <2>13. OneCopy' /\ Alive'
    BY <1>0, <1>1, <1>4, <2>12, CopyMoved DEF TunnelTypeOK, LeaseTypeOK
  <2>. QED
    BY <1>4, <2>7, <2>8, <2>9, <2>10, <2>11, <2>13 DEF TunnelInv, TunnelGood
<1>. QED
  BY <1>5, <1>6

-----------------------------------------------------------------------------
LEMMA TunnelInitInv == ASSUME TunnelInit PROVE TunnelInv
<1>1. TunnelTypeOK
  <2>1. LeaseTypeOK
    BY DEF TunnelInit, LeaseInit, LeaseTypeOK
  <2>2. NoJobs \in [Slots -> Jobs] /\ NoChans \in [Events -> Slots \cup {None}] /\ NoFrames \in [Events -> Nat]
    BY JobFacts DEF NoJobs, NoChans, NoFrames
  <2>3. used \in [faults: 0..MaxDisturbances, extra: 0..MaxDisturbances]
    BY CliBound DEF TunnelInit
  <2>4. list \in Seq(Events)
    BY DEF TunnelInit
  <2>. QED
    BY <2>1, <2>2, <2>3, <2>4 DEF TunnelInit, TunnelTypeOK
<1>2. /\ \A c \in Sockets : conn[c] = "off" /\ popped[c] = None
      /\ \A c \in Sockets, s \in Slots : job[c][s] = Idle
      /\ \A c \in Sockets, e \in Events : chan[c][e] = None
      /\ \A i \in Items : waiting[i] = 0
      /\ leased = {} /\ lapsed = {} /\ hold = None /\ list = <<>> /\ stage = "pick" /\ unheard = {}
  BY DEF TunnelInit, LeaseInit, NoJobs, NoChans
<1>3. KeyHeld /\ LeaseHeld /\ Closed /\ ChanOwned /\ AnswersHeard
  BY <1>2 DEF KeyHeld, LeaseHeld, Closed, ChanOwned, AnswersHeard
<1>4. Hears
  BY <1>2, JobFacts DEF Hears
<1>5. ASSUME NEW e \in Clean PROVE Copies[e] = {}
  <2>0. e \in Events /\ e # None
    BY CliNone DEF Clean
  <2>1. SUFFICES ASSUME NEW x \in Copies[e] PROVE FALSE
    OBVIOUS
  <2>2. x \in Spots(e, waiting, InHand, list, popped, job)
    BY <2>0, <2>1 DEF Copies
  <2>3. \/ \E i \in Items : i.ev = e /\ waiting[i] > 0
        \/ InHand = e
        \/ \E k \in DOMAIN list : list[k] = e
        \/ \E c \in Sockets : popped[c] = e
        \/ \E c \in Sockets, s \in Slots : job[c][s].ev = e
    BY <2>2, SpotsIn
  <2>4. InHand = None /\ DOMAIN list = {}
    BY <1>2 DEF InHand
  <2>. QED
    BY <1>2, <2>0, <2>3, <2>4, JobFacts
<1>6. OneCopy /\ Alive
  BY <1>2, <1>5 DEF OneCopy, Alive
<1>. QED
  BY <1>1, <1>3, <1>4, <1>6 DEF TunnelInv

LEMMA TunnelStill == ASSUME TunnelInv, UNCHANGED tunnelVars PROVE TunnelGood
<1>0. TunnelTypeOK
  BY DEF TunnelInv
<1>1. UNCHANGED <<waiting, leased, lapsed, status, stale, old, session, list, stage, hold, conn, popped, job, chan,
                  frames, doubled, unheard, overwritten, used>>
  BY DEF tunnelVars, leaseVars, tables, worker, tunnel, history
<1>2. UsedNow /\ used'.faults >= used.faults
  BY <1>0, <1>1, UsedSteps
<1>3. /\ KeyHeld' /\ LeaseHeld' /\ Closed' /\ ChanOwned' /\ Hears' /\ AnswersHeard'
      /\ OneCopy' /\ Alive' /\ Stays
  BY <1>1, <1>2, TunnelFrames
<1>4. TunnelTypeOK'
  BY <1>0, <1>1 DEF TunnelTypeOK, LeaseTypeOK
<1>. QED
  BY <1>3, <1>4 DEF TunnelInv, TunnelGood

LEMMA TunnelStep == ASSUME TunnelInv, [TunnelNext]_tunnelVars PROVE TunnelGood
<1>1. CASE \E e \in Events : CreateEvent(e) \/ RetryEvent(e) \/ ClaimStuck(e) \/ Ages(e) \/ WaitsTooLong(e)
  BY <1>1, ProducerGood, AgeGood
<1>2. CASE WorkerStep \/ Abandon
  BY <1>2, PickGood, RouteGood, WriteGood, DeferGood, PushGood, AckGood, AbandonGood DEF WorkerStep
<1>3. CASE Recoverer \/ OrphanLapses \/ LeaseOverrun
  BY <1>3, LeaseStepGood
<1>4. CASE KeyLapses \/ KeyLost \/ \E c \in Sockets : Connect(c) \/ Ping(c) \/ Release(c)
  BY <1>4, KeyGood
<1>5. CASE \E c \in Sockets : Disconnect(c) \/ ServerDies(c) \/ Pop(c) \/ Spawn(c)
  BY <1>5, EndGood, PopGood, SpawnGood
<1>6. CASE \E c \in Sockets, e \in Events, r \in Results : Reader(c, e, r)
  BY <1>6, ReaderGood
<1>7. CASE \E c \in Sockets, s \in Slots : Dispatch(c, s)
  BY <1>7, LoadGood, JobWriteGood, SettleGood DEF Dispatch
<1>8. CASE UNCHANGED tunnelVars
  BY <1>8, TunnelStill
<1>. QED
  BY <1>1, <1>2, <1>3, <1>4, <1>5, <1>6, <1>7, <1>8 DEF TunnelNext, Connection

\* What a goroutine has registered in the pending map, and a connection under the
\* session key, is not taken away by the end of another (pendingMap, the deferred
\* remove of dispatchEventToCLI, Connect's compare-and-delete): for any number of
\* events, connections and goroutines.
THEOREM TunnelRegistrations == TunnelSpec => []RegistrationsKept
<1>1. ASSUME TunnelInv PROVE RegistrationsKept
  <2>1. KeySurvives
    <3>1. SUFFICES ASSUME NEW c \in Sockets, conn[c] = "on", session = None, c \notin overwritten
                   PROVE  used.faults > 0
      BY DEF KeySurvives
    <3>2. c # None
      BY CliNone
    <3>3. used.faults # 0 /\ used.faults \in Nat
      BY <1>1, <3>1, <3>2 DEF TunnelInv, TunnelTypeOK, KeyHeld
    <3>. QED
      BY <3>3
  <2>. QED
    BY <1>1, <2>1 DEF TunnelInv, RegistrationsKept
<1>2. TunnelInv /\ [TunnelNext]_tunnelVars => TunnelInv'
  BY TunnelStep DEF TunnelGood
<1>. QED
  BY <1>1, <1>2, TunnelInitInv, PTL DEF TunnelSpec

\* An event the CLI has answered for stays delivered, although the goroutines never
\* look at the status before they write it: only a user's retry, a second copy or a
\* failed call undoes it.
THEOREM DeliveredEventsStay == TunnelSpec => DeliveredStays
<1>. DEFINE Act == \A e \in Events :
                      status[e] = "delivered" /\ status'[e] # "delivered"
                          => e \in doubled' \/ used.faults > 0 \/ RetryEvent(e)
<1>1. TunnelInv /\ [TunnelNext]_tunnelVars => TunnelInv'
  BY TunnelStep DEF TunnelGood
<1>2. TunnelInv /\ [TunnelNext]_tunnelVars => Act
  BY TunnelStep DEF TunnelGood, Stays
<1>3. DeliveredStays <=> [][Act]_tunnelVars
  BY DEF DeliveredStays
<1>. HIDE DEF Act
<1>. QED
  BY <1>1, <1>2, <1>3, TunnelInitInv, PTL DEF TunnelSpec

=============================================================================
