------------------------------- MODULE Sender -------------------------------
(***************************************************************************)
(* What the ingest path (Ingest) promises to the sender of a webhook, who  *)
(* repeats it until an answer is a 2xx.  The promise has exceptions, which *)
(* the history variable excused collects as they happen: each is a step    *)
(* after which the dedup key may turn a retransmission away on behalf of a *)
(* transmission that never gets its events into the database.              *)
(***************************************************************************)
EXTENDS Ingest

VARIABLE excused    \* one of the exceptions has happened

\* r holds the key and its events are not in the database yet.
Holding(r) == claimed[r] /\ ~committed[r] /\ pc[r] \in Running /\ r \notin Fanned

\* The dedup check of r found the key.
FoundKey(r) == pc[r] = "check" /\ pc'[r] = "create" /\ dup'[r]

\* A retransmission overlaps the claimer and is answered "deduped" whatever
\* becomes of the claimer.
Overlap == \E r, q \in Reqs : FoundKey(r) /\ Holding(q)

\* The claimer fails and the DEL that should give the key back fails too.
KeyStuck == \E r \in Reqs : pc[r] = "rollback" /\ pc'[r] = "done" /\ faults' > faults

\* The claimer dies with the key.
ClaimerDies == \E r \in Reqs : Holding(r) /\ pc'[r] = "dead"

\* SETNX took effect although its reply was an error: nobody owns the key.
KeyUnowned == ~key /\ key' /\ gaps' > gaps

Record == excused' = (excused \/ Overlap \/ KeyStuck \/ ClaimerDies \/ KeyUnowned)

SenderInit == Init /\ excused = FALSE

SenderNext == Next /\ Record

SenderSpec == SenderInit /\ [][SenderNext]_<<vars, excused>>

-----------------------------------------------------------------------------
\* Every transmission is over.
Settled == \A r \in Reqs : pc[r] \in {"unsent", "done", "dead"}

\* Some transmission was fanned out to every connection it found.
GotThrough == \E r \in Reqs : committed[r] \/ r \in Fanned

\* Once every transmission is over, a sender that got its 2xx can rely on it
\* (handleIngest answers 202 to a duplicate too): unless excused, its webhook
\* was fanned out.
AcceptedNotLost == Settled /\ Satisfied => GotThrough \/ excused

\* What is kept of a webhook: its events, as the 2xx promised, and the bookmarks
\* of a capture rule, up to the rule's cap (handleIngest, capture).
WebhookKept == AcceptedNotLost /\ MarksBounded

=============================================================================
