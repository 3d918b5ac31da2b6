---------------------------- MODULE SourceCache -----------------------------
(***************************************************************************)
(* The in-process source cache of ingest (resolveSource, InvalidateSource) *)
(* for one ingest token, and the console handlers that edit the source and *)
(* its capture rules and then evict the entry.                             *)
(*                                                                         *)
(* A row is abstracted to the number of times it has been edited: sver for *)
(* the source, rver for its rules.  A lookup reads the source, then its    *)
(* rules, then stores an entry: three steps between which edits and        *)
(* evictions run.                                                          *)
(***************************************************************************)
EXTENDS Integers, FiniteSets

CONSTANTS
    Readers,      \* ingest goroutines presenting the token
    Edits,     \* console requests
    MaxFails   \* bound: failed queries

ASSUME CacheAssumption == MaxFails \in Nat /\ IsFiniteSet(Edits)

NoRules == -1   \* the rules could not be read: capture is off for this entry

VARIABLES
    src,      \* the source is "on", "off" or "gone"
    sver,     \* edits of the source so far
    rver,     \* edits of its rules so far
    cache,    \* the entry, live or expired, or none
    req,      \* each request: where it is, what it has read, what was acked before it
    edit,     \* "new", "lookup", "evict" or "done", and the versions it wrote
    acked,    \* newest versions whose edit has been answered
    raced,  \* an edit was answered although an older entry could follow it
    fails     \* failed queries so far

cacheVars == <<src, sver, rver, cache, req, edit, acked, raced, fails>>

Versions == 0..Cardinality(Edits)
RuleVersions == Versions \cup {NoRules}
CacheLabels == {"idle", "source", "rules", "store", "negative"}

NoEntry == [kind |-> "none", s |-> 0, r |-> 0, live |-> FALSE]

CacheTypeOK ==
    /\ src \in {"on", "off", "gone"}
    /\ sver \in Versions /\ rver \in Versions
    /\ cache \in [kind: {"none", "found", "missing"}, s: Versions, r: RuleVersions, live: BOOLEAN]
    /\ req \in [Readers -> [pc: CacheLabels, s: Versions, r: RuleVersions,
                         sinceS: Versions, sinceR: Versions, stale: BOOLEAN]]
    /\ edit \in [Edits -> [pc: {"new", "lookup", "evict", "done"}, s: Versions, r: Versions]]
    /\ acked \in [s: Versions, r: Versions]
    /\ raced \in BOOLEAN
    /\ fails \in 0..MaxFails
    /\ cache.live => cache.kind # "none"

CacheInit ==
    /\ src = "on" /\ sver = 0 /\ rver = 0
    /\ cache = NoEntry
    /\ req = [p \in Readers |-> [pc |-> "idle", s |-> 0, r |-> 0,
                              sinceS |-> 0, sinceR |-> 0, stale |-> FALSE]]
    /\ edit = [e \in Edits |-> [pc |-> "new", s |-> 0, r |-> 0]]
    /\ acked = [s |-> 0, r |-> 0]
    /\ raced = FALSE
    /\ fails = 0

QueryFails == fails < MaxFails /\ fails' = fails + 1
Newer(a, b) == IF a > b THEN a ELSE b

-----------------------------------------------------------------------------
(* resolveSource.                                                          *)

\* The request is answered from version s of the source and r of its rules.
Answer(p, s, r) ==
    req' = [req EXCEPT ![p].pc = "idle",
                       ![p].stale = s < req[p].sinceS \/ (r # NoRules /\ r < req[p].sinceR)]

\* A live entry, positive or negative, answers without a query.  (A negative one
\* says nothing of the rules.)
Hit(p) ==
    /\ req[p].pc = "idle"
    /\ cache.live
    /\ req' = [req EXCEPT ![p].sinceS = acked.s, ![p].sinceR = acked.r,
                          ![p].stale = \/ cache.s < acked.s
                                       \/ cache.kind = "found" /\ cache.r \in 0..(acked.r - 1)]
    /\ UNCHANGED <<src, sver, rver, cache, edit, acked, raced, fails>>

\* No entry, or an expired one, which is deleted.
Miss(p) ==
    /\ req[p].pc = "idle"
    /\ ~cache.live
    /\ cache' = NoEntry
    /\ req' = [req EXCEPT ![p].pc = "source", ![p].sinceS = acked.s, ![p].sinceR = acked.r]
    /\ UNCHANGED <<src, sver, rver, edit, acked, raced, fails>>

GetSourceByIngestToken(p) ==
    /\ req[p].pc = "source"
    /\ \/ /\ req' = [req EXCEPT ![p].pc = IF src = "on" THEN "rules" ELSE "negative",
                                ![p].s = sver]
          /\ UNCHANGED fails
       \/ /\ QueryFails
          /\ req' = [req EXCEPT ![p].pc = "idle"]
    /\ UNCHANGED <<src, sver, rver, cache, edit, acked, raced>>

\* A failure leaves the entry without rules.
ListEnabledCaptureRules(p) ==
    /\ req[p].pc = "rules"
    /\ \/ req' = [req EXCEPT ![p].pc = "store", ![p].r = rver] /\ UNCHANGED fails
       \/ req' = [req EXCEPT ![p].pc = "store", ![p].r = NoRules] /\ QueryFails
    /\ UNCHANGED <<src, sver, rver, cache, edit, acked, raced>>

StoreFound(p) ==
    /\ req[p].pc = "store"
    /\ cache' = [kind |-> "found", s |-> req[p].s, r |-> req[p].r, live |-> TRUE]
    /\ Answer(p, req[p].s, req[p].r)
    /\ UNCHANGED <<src, sver, rver, edit, acked, raced, fails>>

StoreMissing(p) ==
    /\ req[p].pc = "negative"
    /\ cache' = [kind |-> "missing", s |-> req[p].s, r |-> 0, live |-> TRUE]
    /\ Answer(p, req[p].s, NoRules)
    /\ UNCHANGED <<src, sver, rver, edit, acked, raced, fails>>

\* Mutant of EntryLapses: only a negative entry has a deadline.
LapseMissingOnly ==
    /\ cache.live /\ cache.kind = "missing"
    /\ cache' = [cache EXCEPT !.live = FALSE]
    /\ UNCHANGED <<src, sver, rver, req, edit, acked, raced, fails>>

\* SourceCacheTTL or NegativeSourceCacheTTL has passed.
EntryLapses ==
    /\ cache.live
    /\ cache' = [cache EXCEPT !.live = FALSE]
    /\ UNCHANGED <<src, sver, rver, req, edit, acked, raced, fails>>

\* sweepExpiredSources.
Sweep ==
    /\ cache.kind # "none" /\ ~cache.live
    /\ cache' = NoEntry
    /\ UNCHANGED <<src, sver, rver, req, edit, acked, raced, fails>>

-----------------------------------------------------------------------------
(* The console.                                                            *)

\* PatchSource (enabled or methods) and DeleteSource.
EditSource(e) ==
    /\ edit[e].pc = "new"
    /\ src # "gone"
    /\ src' \in {"on", "off", "gone"}
    /\ sver' = sver + 1
    /\ edit' = [edit EXCEPT ![e] = [pc |-> "evict", s |-> sver + 1, r |-> 0]]
    /\ UNCHANGED <<rver, cache, req, acked, raced, fails>>

\* CreateCaptureRule knows the token; PatchCaptureRule and DeleteCaptureRule have
\* to look the source up again.
EditRules(e) ==
    /\ edit[e].pc = "new"
    /\ src # "gone"
    /\ rver' = rver + 1
    /\ \E next \in {"lookup", "evict"} :
          edit' = [edit EXCEPT ![e] = [pc |-> next, s |-> 0, r |-> rver + 1]]
    /\ UNCHANGED <<src, sver, cache, req, acked, raced, fails>>

\* A lookup under way that read an older version than the edit wrote.
Overtaken(e) ==
    \E p \in Readers :
        \/ req[p].pc \in {"rules", "store", "negative"} /\ req[p].s < edit[e].s
        \/ req[p].pc = "store" /\ req[p].r # NoRules /\ req[p].r < edit[e].r

\* The edit is answered.
Done(e) ==
    /\ edit' = [edit EXCEPT ![e].pc = "done"]
    /\ acked' = [s |-> Newer(acked.s, edit[e].s), r |-> Newer(acked.r, edit[e].r)]

\* invalidateSourceCache: a failed lookup, or a source that is gone, skips the
\* eviction.
FindToken(e) ==
    /\ edit[e].pc = "lookup"
    /\ \/ /\ src # "gone"
          /\ edit' = [edit EXCEPT ![e].pc = "evict"]
          /\ UNCHANGED <<acked, raced, fails>>
       \/ /\ IF src = "gone" THEN UNCHANGED fails ELSE QueryFails
          /\ Done(e)
          /\ raced' = TRUE
    /\ UNCHANGED <<src, sver, rver, cache, req>>

\* Mutant of InvalidateSource: only an expired entry is dropped.
InvalidateExpired(e) ==
    /\ edit[e].pc = "evict"
    /\ cache' = IF cache.live THEN cache ELSE NoEntry
    /\ Done(e)
    /\ raced' = (raced \/ Overtaken(e))
    /\ UNCHANGED <<src, sver, rver, req, fails>>

InvalidateSource(e) ==
    /\ edit[e].pc = "evict"
    /\ cache' = NoEntry
    /\ Done(e)
    /\ raced' = (raced \/ Overtaken(e))
    /\ UNCHANGED <<src, sver, rver, req, fails>>

-----------------------------------------------------------------------------
Lookup(p) ==
    \/ GetSourceByIngestToken(p) \/ ListEnabledCaptureRules(p)
    \/ StoreFound(p) \/ StoreMissing(p)

resolveSource(p) == Hit(p) \/ Miss(p) \/ Lookup(p)

Console(e) == EditSource(e) \/ EditRules(e) \/ FindToken(e) \/ InvalidateSource(e)

CacheNext ==
    \/ \E p \in Readers : resolveSource(p)
    \/ \E e \in Edits : Console(e)
    \/ EntryLapses \/ Sweep

CacheSpec == CacheInit /\ [][CacheNext]_cacheVars

-----------------------------------------------------------------------------
\* "Edits take effect immediately": a request that starts after an edit was
\* answered is never served from an older row.
EffectiveImmediately == \A p \in Readers : ~req[p].stale

\* They do unless a lookup that had read the older row was under way at the
\* eviction, or the eviction was skipped: hits, misses, expiries and other edits
\* alone never bring an older row back.
EffectiveUnlessOvertaken == CacheTypeOK /\ (~raced => EffectiveImmediately)

\* An older entry does not stay: once the edits are over, the cache comes to hold
\* only the current rows, whatever lookups raced with the evictions.
Current ==
    cache.live => /\ cache.s = sver
                  /\ cache.kind = "found" => cache.r = rver

EventuallyCurrent == <>[]Current

=============================================================================
