------------------------------ MODULE Catalog -------------------------------
(***************************************************************************)
(* The pipeline API: sources, destinations, connections, capture rules,    *)
(* bookmarks and scenarios (internal/api/pipeline, internal/bookmark), and *)
(* the retention of captured payloads (cmd/dstream/maintenance.go).        *)
(*                                                                         *)
(* A handler is a few statements with nothing around them: it looks rows   *)
(* up, checks, and writes, while the requests of others run in between.    *)
(* The database adds foreign keys, which refuse an insert whose parent is  *)
(* gone and delete children with their parent.                             *)
(*                                                                         *)
(* A row is a pair of columns <a, b> that a PATCH may set: the type and    *)
(* the URL of a destination, the enabled flag and one more of the others.  *)
(* Names are data; a name already taken is one way for a write to Fail.    *)
(* What becomes of an event after its insertion is the matter of Deliver,  *)
(* and the cache that some handlers evict of SourceCache.                  *)
(***************************************************************************)
EXTENDS Integers

CONSTANTS
    Sources, Destinations, Connections, Requests, Rules, Bookmarks, Scenarios, \* ids
    Owner,          \* the org_id of the rows that have one
    Callers,        \* the organizations whose members send requests
    Slots,          \* request handlers
    Bodies,         \* PATCH bodies of destinations: [a, b], None where absent
    Seed,           \* the tables at the start: [row, refs, body, steps]
    None, Gone,
    MaxRequests, MaxSweeps, MaxSteps  \* bounds of one behaviour

Ids == Sources \cup Destinations \cup Connections \cup Requests \cup Rules \cup Bookmarks
       \cup Scenarios
Urls == {"empty", "u", "v"}
Pair == [a: {0, 1}, b: {0, 1}]
Endpoint == [a: {"http", "cli"}, b: Urls \cup {None}]
Columns(i) == IF i \in Destinations THEN Endpoint ELSE Pair
Stages == {"none", "fresh", "old", "expired"}

\* The steps of a scenario by position.  Those of a deleted bookmark leave gaps.
StepRows == UNION {[P -> Bookmarks] : P \in SUBSET (1..MaxSteps)}

SourceIn(R) == CHOOSE s \in Sources : s \in R

\* The rows R that a row of each table references; a connection, those of one
\* organization, as its handler has checked.
Fit(i, R) ==
    /\ i \in Sources \cup Destinations \cup Scenarios => R = {}
    /\ i \in Connections => \E s \in Sources, d \in Destinations : R = {s, d} /\ Owner[s] = Owner[d]
    /\ i \in Requests \cup Rules => \E s \in Sources : R = {s}
    /\ i \in Bookmarks => \E r \in Requests : R = {r}

\* A destination of type http needs a URL that can be called.
Deliverable(v) == v.a = "http" => v.b \in {"u", "v"}

ASSUME Owned == DOMAIN Owner = Ids \ (Connections \cup Requests)
ASSUME Bounds == MaxRequests \in Nat /\ MaxSweeps \in Nat /\ MaxSteps \in Nat

\* An id belongs to one table.
ASSUME TablesApart ==
    /\ Sources \cap (Destinations \cup Connections \cup Requests \cup Rules \cup Bookmarks \cup Scenarios) = {}
    /\ Destinations \cap (Connections \cup Requests \cup Rules \cup Bookmarks \cup Scenarios) = {}
    /\ Connections \cap (Requests \cup Rules \cup Bookmarks \cup Scenarios) = {}
    /\ Requests \cap (Rules \cup Bookmarks \cup Scenarios) = {}
    /\ Rules \cap (Bookmarks \cup Scenarios) = {} /\ Bookmarks \cap Scenarios = {}

\* The marks of an absent row, id or column are none of these.
ASSUME MarksApart ==
    /\ None # Gone /\ None \notin Ids /\ None \notin {0, 1} /\ None \notin Urls \cup {"http", "cli"}
    /\ \A i \in Ids : None \notin Columns(i) /\ Gone \notin Columns(i)

ASSUME BodiesTyped == Bodies \subseteq [a: {"http", "cli", None}, b: Urls \cup {None}]

\* The tables at the start are those of a database in use: what the schema demands
\* of them holds, and so does what the handlers have checked.
ASSUME SeedSound ==
    LET there == {i \in Ids : Seed.row[i] \notin {None, Gone}}
    IN  /\ DOMAIN Seed.row = Ids /\ DOMAIN Seed.refs = Ids
        /\ Seed.body \in [Requests -> Stages] /\ Seed.steps \in [Scenarios -> StepRows]
        /\ \A i \in there : /\ Seed.row[i] \in Columns(i)
                             /\ Fit(i, Seed.refs[i]) /\ Seed.refs[i] \subseteq there
        /\ \A i \in Ids \ there : Seed.refs[i] = {}
        /\ \A d \in Destinations \cap there : Deliverable(Seed.row[d])
        /\ \A m \in Bookmarks \cap there : \A r \in Seed.refs[m] :
              Seed.body[r] \in {"fresh", "old"} /\ Owner[SourceIn(Seed.refs[r])] = Owner[m]
        /\ \A n \in Scenarios : \A k \in DOMAIN Seed.steps[n] :
              n \in there /\ Seed.steps[n][k] \in there /\ Owner[Seed.steps[n][k]] = Owner[n]

VARIABLES
    row,      \* [Ids -> columns]; None: not yet created, Gone: deleted
    refs,     \* [Ids -> the rows it references]
    body,     \* [Requests -> Stages]: request_bodies
    steps,    \* [Scenarios -> StepRows]: scenario_steps
    events,   \* test events: [req, conn]
    req,      \* [Slots -> the request being handled]
    started,  \* requests so far
    sweep,    \* the rows a running ExpireOldRequestBodies has chosen, or None
    sweeps,   \* sweeps so far
    \* history
    want,       \* the columns as the requests answered so far asked for them
    overlapped, \* rows written by a PATCH after another write it had not read
    late        \* bookmarks of a payload that was gone or being expired

tables == <<row, refs, body, steps, events>>
history == <<want, overlapped, late>>
vars == <<tables, req, started, sweep, sweeps, history>>

Idle == [op |-> "idle", org |-> None, adm |-> FALSE, id |-> None, refs |-> {},
         set |-> None, read |-> None, over |-> FALSE, list |-> None]

Exists(i) == row[i] \notin {None, Gone}
Live == {i \in Ids : Exists(i)}
Free(K, org) == {i \in K : row[i] = None /\ Owner[i] = org}
Stored(r) == body[r] \in {"fresh", "old"}

TypeOK ==
    /\ DOMAIN row = Ids /\ DOMAIN refs = Ids /\ DOMAIN want = Ids /\ DOMAIN req = Slots
    /\ \A i \in Live : row[i] \in Columns(i)
    /\ body \in [Requests -> Stages]
    /\ steps \in [Scenarios -> StepRows]
    /\ \A n \in Scenarios \ Live : DOMAIN steps[n] = {}
    /\ \A s \in Slots : req[s].op \in {"idle", "connect", "rule", "mark", "import", "test", "replay",
                                       "reinject", "patch", "scenario"}
    /\ started \in 0..MaxRequests /\ sweeps \in 0..MaxSweeps
    /\ sweep = None \/ sweep \subseteq Requests
    /\ overlapped \subseteq Ids /\ late \subseteq Bookmarks

-----------------------------------------------------------------------------
(* Lookups, each scoped to the caller's organization                       *)

SourceOf(i) == SourceIn(refs[i])

GetSourceForOrg(i, org) == Exists(i) /\ Owner[i] = org
GetDestinationForOrg(i, org) == Exists(i) /\ Owner[i] = org
GetConnectionForOrg(i, org) == Exists(i) /\ Owner[SourceOf(i)] = org
GetRequestForReplay(i, org) == Exists(i) /\ Owner[SourceOf(i)] = org
GetCaptureRuleForOrg(i, org) == Exists(i) /\ Owner[i] = org
GetBookmarkForOrg(i, org) == Exists(i) /\ Owner[i] = org
GetScenarioForOrg(i, org) == Exists(i) /\ Owner[i] = org

\* Mutant of ListEnabledConnectionsBySource: of every source.
ListEnabledConnections(src) == {c \in Connections : Exists(c) /\ row[c].a = 1}

ListEnabledConnectionsBySource(src) ==
    {c \in Connections : Exists(c) /\ src \in refs[c] /\ row[c].a = 1}

-----------------------------------------------------------------------------
(* Writes                                                                  *)

\* An insert that references a row which is gone fails.
ForeignKeys(parents) == \A i \in parents : Exists(i)

Insert(i, parents, v) ==
    /\ ForeignKeys(parents)
    /\ row' = [row EXCEPT ![i] = v]
    /\ refs' = [refs EXCEPT ![i] = parents]
    /\ want' = [want EXCEPT ![i] = v]

\* Columns v with what a PATCH body sets.
Over(v, b) == [a |-> IF b.a = None THEN v.a ELSE b.a, b |-> IF b.b = None THEN v.b ELSE b.b]

Begin(s, r) ==
    /\ req[s] = Idle /\ started < MaxRequests
    /\ req' = [req EXCEPT ![s] = r]
    /\ started' = started + 1

\* A request of one statement.
AtOnce == started < MaxRequests /\ started' = started + 1 /\ UNCHANGED req

End(s) == req' = [req EXCEPT ![s] = Idle]

New(op, org, parents) == [Idle EXCEPT !.op = op, !.org = org, !.refs = parents]

\* An error response: a lookup found nothing, a constraint refused the write, the
\* database failed, or the client went away.  What was written before stays.
Fail(s) ==
    /\ req[s] # Idle
    /\ End(s)
    /\ UNCHANGED <<tables, started, sweep, sweeps, history>>

\* Every row that hangs on X: requests and connections on a source, bookmarks
\* on a request.
Below(X) == X \cup {i \in Live : refs[i] \cap X # {}}
Cascade(X) == Below(Below(X))

Delete(X) ==
    LET D == Cascade(X)
    IN  /\ row' = [i \in Ids |-> IF i \in D THEN Gone ELSE row[i]]
        /\ refs' = [i \in Ids |-> IF i \in D THEN {} ELSE refs[i]]
        /\ want' = [i \in Ids |-> IF i \in D THEN Gone ELSE want[i]]
        /\ steps' = [n \in Scenarios |->
                       LET kept == {k \in DOMAIN steps[n] : {n, steps[n][k]} \cap D = {}}
                       IN  [k \in kept |-> steps[n][k]]]
        /\ events' = {e \in events : {e.req, e.conn} \cap D = {}}
        /\ body' = [r \in Requests |-> IF r \in D THEN "none" ELSE body[r]]
        /\ UNCHANGED <<sweep, sweeps, overlapped, late>>

-----------------------------------------------------------------------------
(* Sources, destinations and connections                                   *)

CreateSource(org) ==
    /\ AtOnce
    /\ \E i \in Free(Sources, org) : Insert(i, {}, [a |-> 1, b |-> 0])
    /\ UNCHANGED <<body, steps, events, sweep, sweeps, overlapped, late>>

\* One statement, COALESCE on every column: nothing was read before.
UpdateSource(org, i, b) ==
    /\ AtOnce
    /\ GetSourceForOrg(i, org)
    /\ row' = [row EXCEPT ![i] = Over(@, b)]
    /\ want' = [want EXCEPT ![i] = Over(@, b)]
    /\ UNCHANGED <<refs, body, steps, events, sweep, sweeps, overlapped, late>>

DeleteSource(org, i) == AtOnce /\ GetSourceForOrg(i, org) /\ Delete({i})

CreateDestination(org, v) ==
    /\ AtOnce
    /\ Deliverable(v)
    /\ \E i \in Free(Destinations, org) : Insert(i, {}, v)
    /\ UNCHANGED <<body, steps, events, sweep, sweeps, overlapped, late>>

Patching(org, adm, i, b) ==
    [Idle EXCEPT !.op = "patch", !.org = org, !.adm = adm, !.id = i, !.set = b, !.read = row[i]]

\* Mutant of MayRepoint: the URL is like any other field.
MayRepointAlways(adm, read, b) == TRUE

\* A member may send a URL along, but not another one than the row had.
MayRepoint(adm, read, b) == b.b # None /\ b.b # read.b => adm

PatchDestination(s, org, adm, i, b) ==
    /\ Begin(s, Patching(org, adm, i, b))
    /\ GetDestinationForOrg(i, org)
    /\ MayRepoint(adm, row[i], b)
    /\ Deliverable(Over(row[i], b))
    /\ UNCHANGED <<tables, sweep, sweeps, history>>

DeleteDestination(org, i) == AtOnce /\ GetDestinationForOrg(i, org) /\ Delete({i})

CreateConnection(s, org, src, dst) ==
    /\ Begin(s, New("connect", org, {src, dst}))
    /\ GetSourceForOrg(src, org) /\ GetDestinationForOrg(dst, org)
    /\ UNCHANGED <<tables, sweep, sweeps, history>>

InsertConnection(s) ==
    /\ req[s].op = "connect"
    /\ ~\E c \in Connections : Exists(c) /\ refs[c] = req[s].refs
    /\ \E c \in Connections : row[c] = None /\ Insert(c, req[s].refs, [a |-> 1, b |-> 0])
    /\ End(s)
    /\ UNCHANGED <<body, steps, events, started, sweep, sweeps, overlapped, late>>

PatchConnection(s, org, i, b) ==
    /\ Begin(s, Patching(org, FALSE, i, b))
    /\ GetConnectionForOrg(i, org)
    /\ UNCHANGED <<tables, sweep, sweeps, history>>

DeleteConnection(org, i) == AtOnce /\ GetConnectionForOrg(i, org) /\ Delete({i})

\* The write of a PATCH.  Every other PATCH of the row that has read it is late.
Written(s, K, v) ==
    LET i == req[s].id
    IN  /\ req[s].op = "patch" /\ i \in K /\ Exists(i)
        /\ row' = [row EXCEPT ![i] = v]
        /\ want' = [want EXCEPT ![i] = Over(@, req[s].set)]
        /\ overlapped' = IF req[s].over THEN overlapped \cup {i} ELSE overlapped
        /\ req' = [t \in Slots |-> IF t = s THEN Idle
                                   ELSE [req[t] EXCEPT !.over = @ \/ req[t].id = i]]
        /\ UNCHANGED <<refs, body, steps, events, started, sweep, sweeps, late>>

\* Mutant of PatchDestinationForOrg: all columns, from the row as read.
UpdateDestination(s) == Written(s, Destinations, Over(req[s].read, req[s].set))

\* COALESCE: the columns a body does not name keep the value they have now.
PatchDestinationForOrg(s) ==
    /\ req[s].op = "patch" /\ req[s].id \in Destinations
    /\ Written(s, Destinations, Over(row[req[s].id], req[s].set))
PatchConnectionForOrg(s) ==
    /\ req[s].op = "patch" /\ req[s].id \in Connections
    /\ Written(s, Connections, Over(row[req[s].id], req[s].set))

-----------------------------------------------------------------------------
(* Capture rules                                                           *)

CreateCaptureRule(s, org, src) ==
    /\ Begin(s, New("rule", org, {src}))
    /\ GetSourceForOrg(src, org)
    /\ UNCHANGED <<tables, sweep, sweeps, history>>

InsertCaptureRule(s) ==
    /\ req[s].op = "rule"
    /\ \E k \in Free(Rules, req[s].org) : Insert(k, req[s].refs, [a |-> 1, b |-> 0])
    /\ End(s)
    /\ UNCHANGED <<body, steps, events, started, sweep, sweeps, overlapped, late>>

PatchCaptureRule(s, org, i, b) ==
    /\ Begin(s, Patching(org, FALSE, i, b))
    /\ GetCaptureRuleForOrg(i, org)
    /\ UNCHANGED <<tables, sweep, sweeps, history>>

\* All columns are written: those the body does not name as they were read.
UpdateCaptureRule(s) == Written(s, Rules, Over(req[s].read, req[s].set))

DeleteCaptureRule(org, i) == AtOnce /\ GetCaptureRuleForOrg(i, org) /\ Delete({i})

-----------------------------------------------------------------------------
(* Bookmarks                                                               *)

\* The bookmarked payload is not (or will not be) there.
Missed(r) == ~Stored(r) \/ (sweep # None /\ r \in sweep)

InsertBookmark(s, r) ==
    /\ \E m \in Free(Bookmarks, req[s].org) :
         /\ Insert(m, {r}, [a |-> 1, b |-> 0])
         /\ late' = IF Missed(r) THEN late \cup {m} ELSE late
    /\ End(s)
    /\ UNCHANGED <<body, steps, events, started, sweep, sweeps, overlapped>>

\* The request row is looked up, not its payload.
CreateBookmark(s, org, r) ==
    /\ Begin(s, New("mark", org, {r}))
    /\ GetRequestForReplay(r, org)
    /\ UNCHANGED <<tables, sweep, sweeps, history>>

StoreBookmark(s) ==
    /\ req[s].op = "mark"
    /\ \E r \in req[s].refs : InsertBookmark(s, r)

PatchBookmark(s, org, i, b) ==
    /\ Begin(s, Patching(org, FALSE, i, b))
    /\ GetBookmarkForOrg(i, org)
    /\ UNCHANGED <<tables, sweep, sweeps, history>>

UpdateBookmarkForOrg(s) == Written(s, Bookmarks, Over(req[s].read, req[s].set))

DeleteBookmark(org, i) == AtOnce /\ GetBookmarkForOrg(i, org) /\ Delete({i})

\* A fixture becomes a request, its body and a bookmark, one after the other.
ImportBookmark(s, org, src) ==
    /\ Begin(s, New("import", org, {src}))
    /\ GetSourceForOrg(src, org)
    /\ UNCHANGED <<tables, sweep, sweeps, history>>

CreateRequest(s) ==
    /\ req[s].op \in {"import", "test"} /\ req[s].id = None
    /\ \E r \in Requests :
         /\ row[r] = None
         /\ Insert(r, req[s].refs \cap Sources, [a |-> 1, b |-> 0])
         /\ req' = [req EXCEPT ![s].id = r]
    /\ UNCHANGED <<body, steps, events, started, sweep, sweeps, overlapped, late>>

PutBody(s) ==
    /\ req[s].op \in {"import", "test"} /\ req[s].id # None
    /\ body[req[s].id] = "none"
    /\ ForeignKeys({req[s].id})
    /\ body' = [body EXCEPT ![req[s].id] = "fresh"]
    /\ UNCHANGED <<row, refs, steps, events, req, started, sweep, sweeps, history>>

StoreImported(s) ==
    /\ req[s].op = "import" /\ req[s].id # None
    /\ body[req[s].id] # "none"
    /\ InsertBookmark(s, req[s].id)

\* A synthetic request of the connection's own source.
TestConnection(s, org, c) ==
    /\ GetConnectionForOrg(c, org)
    /\ Begin(s, New("test", org, {c, SourceOf(c)}))
    /\ UNCHANGED <<tables, sweep, sweeps, history>>

ReplayBookmark(s, org, m) ==
    /\ GetBookmarkForOrg(m, org)
    /\ Begin(s, [New("replay", org, {}) EXCEPT !.id = CHOOSE r \in Requests : r \in refs[m]])
    /\ UNCHANGED <<tables, sweep, sweeps, history>>

\* The request is looked up again, and the connections that are enabled now.
Reinject(s) ==
    LET r == req[s].id
    IN  /\ req[s].op = "replay"
        /\ GetRequestForReplay(r, req[s].org)
        /\ LET conns == ListEnabledConnectionsBySource(SourceOf(r))
           IN  req' = [req EXCEPT ![s] = IF conns = {} THEN Idle
                                         ELSE [@ EXCEPT !.op = "reinject", !.refs = conns]]
        /\ UNCHANGED <<tables, started, sweep, sweeps, history>>

\* One INSERT for all connections: all events or none.
CreateEventsBatch(s) ==
    LET r == req[s].id
        conns == req[s].refs \cap Connections
    IN  /\ req[s].op = "reinject" \/ (req[s].op = "test" /\ r # None /\ body[r] # "none")
        /\ ForeignKeys({r} \cup conns)
        /\ events' = events \cup {[req |-> r, conn |-> c] : c \in conns}
        /\ End(s)
        /\ UNCHANGED <<row, refs, body, steps, started, sweep, sweeps, history>>

-----------------------------------------------------------------------------
(* Scenarios                                                               *)

StepLists == UNION {[1..n -> Bookmarks] : n \in 0..MaxSteps}

ValidateSteps(org, list) == \A k \in DOMAIN list : GetBookmarkForOrg(list[k], org)

CreateScenario(s, org, list) ==
    /\ Begin(s, [New("scenario", org, {}) EXCEPT !.list = list])
    /\ ValidateSteps(org, list)
    /\ UNCHANGED <<tables, sweep, sweeps, history>>

\* list is None when the body leaves the steps alone.
PatchScenario(s, org, n, b, list) ==
    /\ Begin(s, [Patching(org, FALSE, n, b) EXCEPT !.list = list])
    /\ GetScenarioForOrg(n, org)
    /\ list # None => ValidateSteps(org, list)
    /\ UNCHANGED <<tables, sweep, sweeps, history>>

\* The transaction: the row and every step, or nothing.
WriteSteps(list) == ForeignKeys({list[k] : k \in DOMAIN list})

InsertScenario(s) ==
    /\ req[s].op = "scenario"
    /\ WriteSteps(req[s].list)
    /\ \E n \in Free(Scenarios, req[s].org) :
         /\ Insert(n, {}, [a |-> 1, b |-> 0])
         /\ steps' = [steps EXCEPT ![n] = req[s].list]
    /\ End(s)
    /\ UNCHANGED <<body, events, started, sweep, sweeps, overlapped, late>>

UpdateScenario(s) ==
    LET n == req[s].id
        v == Over(req[s].read, req[s].set)
    IN  /\ req[s].op = "patch" /\ n \in Scenarios /\ Exists(n)
        /\ req[s].list # None => WriteSteps(req[s].list)
        /\ row' = [row EXCEPT ![n] = v]
        /\ want' = [want EXCEPT ![n] = Over(@, req[s].set)]
        /\ overlapped' = IF req[s].over THEN overlapped \cup {n} ELSE overlapped
        /\ steps' = IF req[s].list = None THEN steps ELSE [steps EXCEPT ![n] = req[s].list]
        /\ req' = [t \in Slots |-> IF t = s THEN Idle
                                   ELSE [req[t] EXCEPT !.over = @ \/ req[t].id = n]]
        /\ UNCHANGED <<refs, body, events, started, sweep, sweeps, late>>

DeleteScenario(org, n) == AtOnce /\ GetScenarioForOrg(n, org) /\ Delete({n})

-----------------------------------------------------------------------------
(* Retention                                                               *)

Pinned(r) == \E m \in Bookmarks : Exists(m) /\ r \in refs[m]

\* A payload crosses the retention cutoff.
PassesCutoff(r) ==
    /\ body[r] = "fresh"
    /\ body' = [body EXCEPT ![r] = "old"]
    /\ UNCHANGED <<row, refs, steps, events, req, started, sweep, sweeps, history>>

\* The statement sees the bookmarks of the moment it starts,
ExpireOldRequestBodies ==
    /\ sweep = None /\ sweeps < MaxSweeps
    /\ sweep' = {r \in Requests \cap Live : body[r] = "old" /\ ~Pinned(r)}
    /\ sweeps' = sweeps + 1
    /\ UNCHANGED <<tables, req, started, history>>

\* and commits later.
SweepCommits ==
    /\ sweep # None
    /\ body' = [r \in Requests |-> IF r \in sweep /\ body[r] = "old" THEN "expired"
                                   ELSE body[r]]
    /\ sweep' = None
    /\ UNCHANGED <<row, refs, steps, events, req, started, sweeps, history>>

-----------------------------------------------------------------------------
Init ==
    /\ row = Seed.row /\ refs = Seed.refs /\ body = Seed.body /\ steps = Seed.steps
    /\ events = {}
    /\ req = [s \in Slots |-> Idle] /\ started = 0
    /\ sweep = None /\ sweeps = 0
    /\ want = row /\ overlapped = {} /\ late = {}

Patches == {[a |-> 0, b |-> None], [a |-> None, b |-> 1]}

PipelineRequest(s, org) ==
    \/ \E i \in Destinations, adm \in BOOLEAN, b \in Bodies : PatchDestination(s, org, adm, i, b)
    \/ \E src \in Sources, dst \in Destinations : CreateConnection(s, org, src, dst)
    \/ \E i \in Connections, b \in Patches : PatchConnection(s, org, i, b)
    \/ \E i \in Connections : TestConnection(s, org, i)
    \/ \E i \in Sources : CreateCaptureRule(s, org, i) \/ ImportBookmark(s, org, i)
    \/ \E i \in Rules, b \in Patches : PatchCaptureRule(s, org, i, b)

FixtureRequest(s, org) ==
    \/ \E r \in Requests : CreateBookmark(s, org, r)
    \/ \E i \in Bookmarks, b \in Patches : PatchBookmark(s, org, i, b)
    \/ \E i \in Bookmarks : ReplayBookmark(s, org, i)
    \/ \E l \in StepLists : CreateScenario(s, org, l)
    \/ \E n \in Scenarios, b \in Patches, l \in StepLists \cup {None} : PatchScenario(s, org, n, b, l)

Statement(org) ==
    \/ CreateSource(org)
    \/ \E i \in Sources, b \in Patches : UpdateSource(org, i, b)
    \/ \E v \in Endpoint : CreateDestination(org, v)
    \/ \E i \in Sources : DeleteSource(org, i)
    \/ \E i \in Destinations : DeleteDestination(org, i)
    \/ \E i \in Connections : DeleteConnection(org, i)
    \/ \E i \in Rules : DeleteCaptureRule(org, i)
    \/ \E i \in Bookmarks : DeleteBookmark(org, i)
    \/ \E i \in Scenarios : DeleteScenario(org, i)

Step(s) ==
    \/ InsertConnection(s) \/ InsertCaptureRule(s) \/ StoreBookmark(s)
    \/ CreateRequest(s) \/ PutBody(s) \/ StoreImported(s)
    \/ Reinject(s) \/ CreateEventsBatch(s)
    \/ PatchDestinationForOrg(s) \/ PatchConnectionForOrg(s) \/ UpdateCaptureRule(s)
    \/ UpdateBookmarkForOrg(s) \/ InsertScenario(s) \/ UpdateScenario(s)
    \/ Fail(s)

Next ==
    \/ \E s \in Slots, org \in Callers : PipelineRequest(s, org) \/ FixtureRequest(s, org)
    \/ \E org \in Callers : Statement(org)
    \/ \E s \in Slots : Step(s)
    \/ \E r \in Requests : PassesCutoff(r)
    \/ ExpireOldRequestBodies \/ SweepCommits

Spec == Init /\ [][Next]_vars

-----------------------------------------------------------------------------
(* Properties                                                              *)

\* No row, step or event outlives what it refers to, although handlers check
\* first and insert later while others delete (CreateConnection, Reinject,
\* writeSteps).
NoDangling ==
    /\ \A i \in Live : refs[i] \subseteq Live
    /\ \A n \in Scenarios : \A k \in DOMAIN steps[n] : steps[n][k] \in Live
    /\ \A e \in events : {e.req, e.conn} \subseteq Live

\* Nothing joins two organizations: a connection, a bookmark and its request, a
\* scenario and its steps; and an event takes a connection of its request's
\* own source (the ForOrg queries).
OneTenant ==
    /\ \A c \in Connections \cap Live : \A i, j \in refs[c] : Owner[i] = Owner[j]
    /\ \A m \in Bookmarks \cap Live : \A r \in refs[m] : Owner[SourceOf(r)] = Owner[m]
    /\ \A n \in Scenarios : \A k \in DOMAIN steps[n] : Owner[steps[n][k]] = Owner[n]
    /\ \A e \in events : SourceOf(e.req) = SourceOf(e.conn)

\* A column holds what the last request that named it asked for.  Where a PATCH
\* writes back a row it has read (rules, bookmarks, scenarios), this may fail
\* only for a row that two overlapping PATCHes wrote (PatchCaptureRule).
EditsKept == \A i \in Live :
    i \notin overlapped \cap (Rules \cup Bookmarks \cup Scenarios) => row[i] = want[i]

\* A destination of type http has a URL to call, unless two overlapping PATCHes,
\* each checked against the row before the other, broke it (PatchDestination).
Callable == \A d \in Destinations \cap Live : 
    d \in overlapped \/ (row[d].a = "http" => row[d].b \in {"u", "v"})

\* The URL of a destination is changed by an administrator; or by a member who
\* sent along the URL it had, after an administrator's change that the check had
\* not seen (RequireAdminForURLChange).
RepointedByAdmin == [][\A d \in Destinations \cap Live :
    row'[d] # Gone /\ row'[d].b # row[d].b =>
        \E s \in Slots : /\ req[s].op = "patch" /\ req[s].id = d /\ req'[s] = Idle
                         /\ req[s].adm \/ (req[s].over /\ row'[d].b = req[s].read.b)]_vars

\* A bookmark keeps its payload from the retention sweep, unless it was made
\* after the payload had gone or while the sweep was running
\* (ExpireOldRequestBodies).
PinKept == \A m \in (Bookmarks \cap Live) \ late : \A r \in refs[m] : Stored(r)

\* What handlers looked up before they wrote still holds of the rows they wrote
\* (the foreign keys, the ForOrg queries, the merged checks of a PATCH).
RowsSound == TypeOK /\ NoDangling /\ OneTenant /\ Callable /\ PinKept

=============================================================================
