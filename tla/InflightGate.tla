---------------------------- MODULE InflightGate ----------------------------
(***************************************************************************)
(* The in-flight gates of the delivery handlers: one Redis counter per org *)
(* (inflight:org:...) or per destination (inflight:dest:...), incremented  *)
(* before a delivery and decremented after it, with a time to live of five *)
(* delivery timeouts that reclaims the slots of crashed workers.           *)
(*                                                                         *)
(* Time.  The counter's TTL is off, "fresh", or "old" (about to lapse).  A *)
(* delivery is far shorter than the TTL, so the TTL cannot grow old while  *)
(* the delivery that refreshed it last is still running.  An over-cap      *)
(* caller holds its increment for one round trip: it can meet a lapse only *)
(* if leaked slots, not live deliveries, put it over the cap.              *)
(***************************************************************************)
EXTENDS Integers, FiniteSets

CONSTANTS
    Procs,     \* deliveries that want the gate, fleet-wide
    Cap,       \* PerOrgMaxInflight or max_inflight
    MaxLeaks   \* bound: crashes and lost replies that leak a slot

ASSUME CapAssumption == Cap \in Nat \ {0}
ASSUME LeakAssumption == MaxLeaks \in Nat
ASSUME ProcsAssumption == IsFiniteSet(Procs)

VARIABLES
    exists,  \* the key exists
    n,       \* its value
    ttl,     \* "off", "fresh" or "old"
    pc,      \* [Procs -> {"idle", "over", "deferred", "run", "open"}]
    leaks    \* slots leaked so far

gateVars == <<exists, n, ttl, pc, leaks>>

In(label) == {p \in Procs : pc[p] = label}

\* Increments in the counter that nobody will take back.
Phantom == n - Cardinality(In("run")) - Cardinality(In("over"))

GateTypeOK ==
    /\ exists \in BOOLEAN
    /\ n \in Int
    /\ ttl \in {"off", "fresh", "old"}
    /\ pc \in [Procs -> {"idle", "over", "deferred", "run", "open"}]
    /\ leaks \in 0..MaxLeaks
    /\ ~exists => n = 0 /\ ttl = "off"

GateInit ==
    /\ exists = FALSE /\ n = 0 /\ ttl = "off"
    /\ pc = [p \in Procs |-> "idle"]
    /\ leaks = 0

-----------------------------------------------------------------------------
\* Mutant of Incr: EXPIRE on every call.
IncrAlwaysExpire ==
    /\ exists' = TRUE
    /\ n' = n + 1
    /\ ttl' = "fresh"

\* inflightIncrScript: INCR, and EXPIRE only when the result is within the cap.
Incr ==
    /\ exists' = TRUE
    /\ n' = n + 1
    /\ ttl' = IF n + 1 <= Cap THEN "fresh" ELSE ttl

\* Mutant of Decr: only a key that exists is decremented.
DecrExisting ==
    /\ n' = IF exists /\ n > 1 THEN n - 1 ELSE n
    /\ UNCHANGED <<exists, ttl>>

\* DECR creates a missing key, without a TTL.
Decr ==
    /\ exists' = TRUE
    /\ n' = n - 1
    /\ ttl' = ttl

Admitted(m) == m <= Cap

Enter(p) ==
    /\ pc[p] = "idle"
    /\ Incr
    /\ pc' = [pc EXCEPT ![p] = IF Admitted(n + 1) THEN "run" ELSE "over"]
    /\ UNCHANGED leaks

\* Over the cap: give the increment back and defer.
BackOff(p) ==
    /\ pc[p] = "over"
    /\ Decr
    /\ pc' = [pc EXCEPT ![p] = "deferred"]
    /\ UNCHANGED leaks

\* Timing assumption, which the code relies on and does not enforce: the deferral of
\* 250 or 500 ms outlasts every over-cap round trip to Redis under way.
Return(p) ==
    /\ pc[p] = "deferred"
    /\ In("over") = {}
    /\ pc' = [pc EXCEPT ![p] = "idle"]
    /\ UNCHANGED <<exists, n, ttl, leaks>>

\* The deferred DECR at the handler's return.
Leave(p) ==
    /\ pc[p] = "run"
    /\ Decr
    /\ pc' = [pc EXCEPT ![p] = "idle"]
    /\ UNCHANGED leaks

Leak == leaks < MaxLeaks /\ leaks' = leaks + 1

\* The worker dies between its INCR and its DECR, or the DECR fails.
Crash(p) ==
    /\ pc[p] \in {"run", "over"}
    /\ Leak
    /\ pc' = [pc EXCEPT ![p] = "idle"]
    /\ UNCHANGED <<exists, n, ttl>>

\* The script fails: the delivery goes ahead without a slot (err # nil).
EnterFailOpen(p) ==
    /\ pc[p] = "idle"
    /\ leaks < MaxLeaks
    /\ pc' = [pc EXCEPT ![p] = "open"]
    /\ \/ UNCHANGED <<exists, n, ttl, leaks>>
       \/ Incr /\ leaks' = leaks + 1

LeaveOpen(p) ==
    /\ pc[p] = "open"
    /\ pc' = [pc EXCEPT ![p] = "idle"]
    /\ UNCHANGED <<exists, n, ttl, leaks>>

-----------------------------------------------------------------------------
\* Time passes since the last EXPIRE.
GrowOld ==
    /\ ttl = "fresh"
    /\ In("run") = {}
    /\ ttl' = "old"
    /\ UNCHANGED <<exists, n, pc, leaks>>

Lapse ==
    /\ ttl = "old"
    /\ In("run") = {}
    /\ In("over") = {} \/ Phantom > 0
    /\ exists' = FALSE /\ n' = 0 /\ ttl' = "off"
    /\ UNCHANGED <<pc, leaks>>

Step(p) == Enter(p) \/ BackOff(p) \/ Return(p) \/ Leave(p) \/ LeaveOpen(p)

GateNext ==
    \/ \E p \in Procs : Step(p) \/ Crash(p) \/ EnterFailOpen(p)
    \/ GrowOld \/ Lapse

GateSpec == GateInit /\ [][GateNext]_gateVars

-----------------------------------------------------------------------------
\* What the handler says of the gate ("caps how many deliveries a single org runs
\* at once across the whole worker fleet"): at most Cap deliveries hold a slot at once.
CapRespected == Cardinality(In("run")) <= Cap

\* As long as no slot has leaked, lapses included, the cap holds.
CapWithoutLeaks == leaks = 0 => CapRespected

\* Without leaks the counter counts exactly the increments in flight, however
\* lapses, over-cap callers and releases interleave.
CounterExact == leaks = 0 => Phantom = 0

\* A counter at its cap that no live caller will bring down can lapse: a leaked
\* slot never closes the gate for good.
NeverWedged == n >= Cap /\ In("run") = {} /\ In("over") = {} => ttl # "off"

\* The counter and its TTL together keep the cap and let go of what leaked
\* (acquireOrgSlot and its release).
GateSound == GateTypeOK /\ CapWithoutLeaks /\ CounterExact /\ NeverWedged

GateFairSpec ==
    /\ GateSpec
    /\ \A p \in Procs : WF_gateVars(Step(p))
    /\ WF_gateVars(GrowOld) /\ WF_gateVars(Lapse)

\* The gate heals: whatever leaked, deliveries keep getting through under
\* continuous traffic (acquireOrgSlot; on the timing assumption of Return).
KeepsAdmitting == []<>(In("run") \cup In("open") # {})

=============================================================================
