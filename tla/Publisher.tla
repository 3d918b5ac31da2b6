----------------------------- MODULE Publisher ------------------------------
(***************************************************************************)
(* The outbound API (internal/api/outbound): applications, event types,    *)
(* endpoints and their secrets, portal links, the publishing of messages,  *)
(* and the operational events that dstream itself publishes                *)
(* (internal/opevents), for one organization.                              *)
(*                                                                         *)
(* A handler looks rows up and then writes, and other requests run in      *)
(* between.  Lookups that can only turn the request away are taken         *)
(* together, when it begins; the write meets the rows as they then are.    *)
(* Only the console's publish is a transaction: what it has inserted is in *)
(* req[s].tx until it commits, and holds up those who would delete the     *)
(* application or insert the same event_id.                                *)
(*                                                                         *)
(* Names, uids, metadata, headers, schemas and payloads are data, and a    *)
(* duplicate or invalid one is a way to Fail; PatchApplication writes      *)
(* nothing else.  An endpoint is "on" when it is enabled and its filters   *)
(* let the event type through.  What becomes of a delivery is the matter   *)
(* of Outbound, and the quota of Usage.                                    *)
(***************************************************************************)
EXTENDS Integers, FiniteSets

CONSTANTS
    MaxApps, MaxEndpoints,  \* bounds: rows ever created
    MaxRequests,            \* bound: requests and operational events
    Slots,                  \* handlers at work
    Bodies,                 \* PATCH bodies of endpoints: [on, url], None where absent
    EventIds,               \* the event_ids of publishers
    Urls, None, Gone

Apps == 1..MaxApps
EndpointIds == 1..MaxEndpoints
Messages == 1..MaxRequests      \* a request makes at most one
Secrets == 0..MaxRequests       \* 0: of the endpoints at the start

AppRow == [op: BOOLEAN, epoch: Nat]
EndpointRow == [app: Apps, on: BOOLEAN, url: Urls, secret: Secrets, prev: Secrets \cup {None}]
MessageRow == [app: Apps, key: EventIds \cup {None}]

ASSUME Bounds ==
    /\ MaxApps \in Nat /\ MaxEndpoints \in Nat /\ MaxRequests \in Nat
    /\ MaxApps >= 2 /\ MaxEndpoints >= 2
    /\ Urls # {}

ASSUME BodiesTyped == Bodies \subseteq [on: BOOLEAN \cup {None}, url: Urls \cup {None}]

ASSUME Marks ==
    /\ None # Gone /\ None \notin Urls \cup EventIds \cup Secrets
    /\ None \notin AppRow /\ Gone \notin AppRow
    /\ None \notin EndpointRow /\ Gone \notin EndpointRow
    /\ None \notin MessageRow /\ Gone \notin MessageRow

VARIABLES
    app,      \* [Apps -> [op, epoch]]; None: not yet created, Gone: deleted
    etype,    \* an event type, one of the operational ones: None, "live", "archived"
    endpoint, \* [EndpointIds -> [app, on, url, secret, prev]]; prev None: none or expired
    msg,      \* [Messages -> [app, key]]
    dels,     \* message_deliveries: <<message, endpoint>>
    tokens,   \* portal tokens handed out: [app, epoch]
    req,      \* [Slots -> the request being handled]
    started,  \* requests so far
    \* history
    steady,   \* [Messages -> endpoints on ever since the request began]
    acked,    \* messages named in a 2xx answer
    dropped,  \* operational events lost though the database did not fail
    void,     \* tokens handed out before a revocation
    before,   \* [EndpointIds -> the secret replaced last]
    given     \* [EndpointIds -> URLs given by its creator or by an admin]

tables == <<app, etype, endpoint, msg, dels>>
history == <<steady, acked, dropped, void, before, given>>
apiVars == <<tables, tokens, req, started, history>>

Callers == {"admin", "member", "portal"}

NoRequest == [op |-> "idle", n |-> 0, by |-> None, tok |-> None, app |-> None, ep |-> None,
              set |-> None, key |-> None, epoch |-> 0, list |-> {}, tx |-> None]

IsRow(row) == row \notin {None, Gone}
LiveApps == {a \in Apps : IsRow(app[a])}
LiveEndpoints == {e \in EndpointIds : IsRow(endpoint[e])}
LiveMessages == {m \in Messages : IsRow(msg[m])}

\* The id of the next row of a table, if there is room for it.
Fresh(table) == {i \in DOMAIN table : table[i] = None /\ \A j \in 1..(i - 1) : table[j] # None}

\* Endpoints and messages are of an application that exists, and deliveries of a
\* message and an endpoint that do.
ApiTypeOK ==
    /\ app \in [Apps -> AppRow \cup {None, Gone}]
    /\ etype \in {None, "live", "archived"}
    /\ endpoint \in [EndpointIds -> EndpointRow \cup {None, Gone}]
    /\ \A e \in LiveEndpoints : endpoint[e].app \in LiveApps
    /\ msg \in [Messages -> MessageRow \cup {None, Gone}]
    /\ \A m \in LiveMessages : msg[m].app \in LiveApps
    /\ dels \subseteq LiveMessages \X LiveEndpoints
    /\ tokens \subseteq [app: Apps, epoch: Nat] /\ void \subseteq tokens
    /\ started \in 0..MaxRequests
    /\ steady \in [Messages -> SUBSET EndpointIds]
    /\ acked \subseteq Messages /\ dropped \subseteq Messages
    /\ before \in [EndpointIds -> Secrets \cup {None}]
    /\ given \in [EndpointIds -> SUBSET Urls]

ApiInit ==
    /\ \E seeded \in BOOLEAN :  \* the operational app exists, with an endpoint
          /\ app = [a \in Apps |-> CASE a = 1 -> [op |-> FALSE, epoch |-> 0]
                                     [] a = 2 /\ seeded -> [op |-> TRUE, epoch |-> 0]
                                     [] OTHER -> None]
          /\ endpoint = [e \in EndpointIds |->
                     IF e = 1 \/ (e = 2 /\ seeded)
                     THEN [app |-> e, on |-> TRUE, url |-> CHOOSE u \in Urls : TRUE,
                           secret |-> 0, prev |-> None]
                     ELSE None]
          /\ given = [e \in EndpointIds |-> IF IsRow(endpoint[e]) THEN {endpoint[e].url} ELSE {}]
    /\ etype = "live"
    /\ msg = [m \in Messages |-> None] /\ dels = {} /\ tokens = {}
    /\ req = [s \in Slots |-> NoRequest] /\ started = 0
    /\ steady = [m \in Messages |-> {}] /\ acked = {} /\ dropped = {} /\ void = {}
    /\ before = [e \in EndpointIds |-> None]

-----------------------------------------------------------------------------
(* Requests                                                                *)

InApp(e, a) == IsRow(endpoint[e]) /\ endpoint[e].app = a

On(a) == {e \in LiveEndpoints : endpoint[e].app = a /\ endpoint[e].on}

Begin(s, r) ==
    /\ req[s] = NoRequest /\ started < MaxRequests
    /\ started' = started + 1
    /\ req' = [req EXCEPT ![s] = [r EXCEPT !.n = started + 1]]

\* A request of one statement.
AtOnce == started < MaxRequests /\ started' = started + 1 /\ UNCHANGED req

End(s) == req' = [req EXCEPT ![s] = NoRequest]
Proceed(s, op) == req' = [req EXCEPT ![s].op = op]

\* Mutant of Current: a link works until it expires.
CurrentAlways(t) == IsRow(app[t.app])

\* The check of RequirePortal.
Current(t) == IsRow(app[t.app]) /\ app[t.app].epoch = t.epoch

\* The callers of a route: of the console those with the role, and of the
\* portal the holder of a link, who is in the application of the link.
Caller(roles, a) ==
    {[NoRequest EXCEPT !.by = b, !.app = a] : b \in roles}
    \cup {[NoRequest EXCEPT !.by = "portal", !.app = a, !.tok = t] :
            t \in {t \in tokens : t.app = a /\ Current(t)}}

\* The database fails, or the client or the process goes away.  What was written
\* outside a transaction stays.
Fail(s) ==
    /\ req[s] # NoRequest
    /\ End(s)
    /\ UNCHANGED <<tables, tokens, started, history>>

-----------------------------------------------------------------------------
(* Applications and event types                                            *)

CreateApplication ==
    /\ AtOnce
    /\ \E a \in Fresh(app) : app' = [app EXCEPT ![a] = [op |-> FALSE, epoch |-> 0]]
    /\ UNCHANGED <<etype, endpoint, msg, dels, tokens, history>>

\* Endpoints and messages go with their application, deliveries with either.
Removed(A, E) ==
    LET gone(t, X) == [i \in DOMAIN t |-> IF i \in X THEN Gone ELSE t[i]]
        M == {m \in LiveMessages : msg[m].app \in A}
        F == E \cup {e \in LiveEndpoints : endpoint[e].app \in A}
    IN  /\ app' = gone(app, A) /\ endpoint' = gone(endpoint, F) /\ msg' = gone(msg, M)
        /\ dels' = {d \in dels : d[1] \notin M /\ d[2] \notin F}
        /\ steady' = [m \in Messages |-> steady[m] \ F]

\* A transaction that has inserted into a holds a lock on it.
Locked(a) == \E s \in Slots : req[s].tx # None /\ req[s].app = a

\* Admins only; the operational application stays.
DeleteApplication(a) ==
    /\ AtOnce
    /\ IsRow(app[a]) /\ ~app[a].op /\ ~Locked(a)
    /\ Removed({a}, {})
    /\ UNCHANGED <<etype, tokens, acked, dropped, void, before, given>>

CreateEventType ==
    /\ AtOnce
    /\ etype = None
    /\ etype' = "live"
    /\ UNCHANGED <<app, endpoint, msg, dels, tokens, history>>

PatchEventType(archived) ==
    /\ AtOnce
    /\ etype # None
    /\ etype' = IF archived THEN "archived" ELSE "live"
    /\ UNCHANGED <<app, endpoint, msg, dels, tokens, history>>

DeleteEventType ==
    /\ AtOnce
    /\ etype # None
    /\ etype' = None
    /\ UNCHANGED <<app, endpoint, msg, dels, tokens, history>>

-----------------------------------------------------------------------------
(* Endpoints                                                               *)

CreateEndpoint(s, a, u) ==
    /\ a \in LiveApps
    /\ \E c \in Caller({"admin", "member"}, a) :
          Begin(s, [c EXCEPT !.op = "create", !.set = u])
    /\ UNCHANGED <<tables, tokens, history>>

InsertEndpoint(s) ==
    /\ req[s].op = "create"
    /\ req[s].app \in LiveApps
    /\ \E e \in Fresh(endpoint) :
          /\ endpoint' = [endpoint EXCEPT ![e] = [app |-> req[s].app, on |-> TRUE, url |-> req[s].set,
                                      secret |-> req[s].n, prev |-> None]]
          /\ given' = [given EXCEPT ![e] = {req[s].set}]
    /\ End(s)
    /\ UNCHANGED <<app, etype, msg, dels, tokens, started, steady, acked, dropped, void, before>>

\* RequireAdminForURLChange, when the URL sent is not the stored one.
MayRepoint(c, e, b) == b.url # None /\ b.url # endpoint[e].url => c.by = "admin"

PatchEndpoint(s, a, e, b) ==
    /\ a \in LiveApps
    /\ b.url # None => InApp(e, a)
    /\ \E c \in Caller({"admin", "member"}, a) :
          /\ IsRow(endpoint[e]) => MayRepoint(c, e, b)
          /\ Begin(s, [c EXCEPT !.op = "patch", !.ep = e, !.set = b])
    /\ UNCHANGED <<tables, tokens, history>>

UpdateEndpoint(s) ==
    LET e == req[s].ep
        b == req[s].set
    IN  /\ req[s].op = "patch"
        /\ InApp(e, req[s].app)
        /\ endpoint' = [endpoint EXCEPT ![e] = [@ EXCEPT !.on = IF b.on = None THEN endpoint[e].on ELSE b.on,
                                                        !.url = IF b.url = None THEN endpoint[e].url ELSE b.url]]
        /\ given' = [given EXCEPT ![e] = IF req[s].by = "admin" THEN @ \cup {endpoint'[e].url} ELSE @]
        /\ steady' = [m \in Messages |-> IF endpoint'[e].on THEN steady[m] ELSE steady[m] \ {e}]
        /\ End(s)
        /\ UNCHANGED <<app, etype, msg, dels, tokens, started, acked, dropped, void, before>>

DeleteEndpoint(s, a, e) ==
    /\ a \in LiveApps
    /\ \E c \in Caller({"admin"}, a) : Begin(s, [c EXCEPT !.op = "delete", !.ep = e])
    /\ UNCHANGED <<tables, tokens, history>>

DeleteEndpointForApp(s) ==
    /\ req[s].op = "delete"
    /\ InApp(req[s].ep, req[s].app)
    /\ Removed({}, {req[s].ep})
    /\ End(s)
    /\ UNCHANGED <<etype, tokens, started, acked, dropped, void, before, given>>

\* The new secret is generated, or the caller's own: here the first one again.
\* The row at this moment is kept in the request for the mutant of PrevSecret.
RotateEndpointSecret(s, a, e, k) ==
    /\ a \in LiveApps /\ InApp(e, a)
    /\ \E c \in Caller({"admin"}, a) :
          Begin(s, [c EXCEPT !.op = "rotate", !.ep = e, !.key = endpoint[e].secret,
                             !.set = IF k THEN started + 1 ELSE 0])
    /\ UNCHANGED <<tables, tokens, history>>

\* Mutant of PrevSecret: the secret the handler has read.
PrevSecretRead(s) == req[s].key

\* SET prev_secret = secret, in the statement that sets the new one.
PrevSecret(s) == endpoint[req[s].ep].secret

RotateSecret(s) ==
    LET e == req[s].ep
    IN  /\ req[s].op = "rotate"
        /\ InApp(e, req[s].app)
        /\ endpoint' = [endpoint EXCEPT ![e] = [@ EXCEPT !.prev = PrevSecret(s), !.secret = req[s].set]]
        /\ before' = [before EXCEPT ![e] = endpoint[e].secret]
        /\ End(s)
        /\ UNCHANGED <<app, etype, msg, dels, tokens, started, steady, acked, dropped, void, given>>

\* prev_secret_expires_at passes.
GraceOver(e) ==
    /\ IsRow(endpoint[e]) /\ endpoint[e].prev # None
    /\ endpoint' = [endpoint EXCEPT ![e].prev = None]
    /\ before' = [before EXCEPT ![e] = None]
    /\ UNCHANGED <<app, etype, msg, dels, tokens, req, started, steady, acked, dropped, void, given>>

\* The secrets a delivery is signed with.
signHeader(e) == {endpoint[e].secret, endpoint[e].prev} \ {None}

-----------------------------------------------------------------------------
(* Portal links                                                            *)

CreatePortalAccess(s, a) ==
    /\ a \in LiveApps
    /\ Begin(s, [NoRequest EXCEPT !.op = "link", !.by = "admin", !.app = a, !.epoch = app[a].epoch])
    /\ UNCHANGED <<tables, tokens, history>>

Mint(s) ==
    /\ req[s].op = "link"
    /\ tokens' = tokens \cup {[app |-> req[s].app, epoch |-> req[s].epoch]}
    /\ End(s)
    /\ UNCHANGED <<tables, started, history>>

RevokePortalAccess(s, a) ==
    /\ a \in LiveApps
    /\ Begin(s, [NoRequest EXCEPT !.op = "revoke", !.by = "admin", !.app = a, !.epoch = app[a].epoch])
    /\ UNCHANGED <<tables, tokens, history>>

BumpApplicationPortalEpoch(s) ==
    LET a == req[s].app
    IN  /\ req[s].op = "revoke"
        /\ IsRow(app[a])
        /\ app' = [app EXCEPT ![a].epoch = @ + 1]
        /\ void' = void \cup {t \in tokens : t.app = a}
        /\ End(s)
        /\ UNCHANGED <<etype, endpoint, msg, dels, tokens, started, steady, acked, dropped, before, given>>

-----------------------------------------------------------------------------
(* Messages                                                                *)

\* Admins only: application, quota, event type.
CreateMessage(s, a, k) ==
    /\ a \in LiveApps /\ etype = "live"
    /\ Begin(s, [NoRequest EXCEPT !.op = "publish", !.by = "admin", !.app = a, !.key = k])
    /\ steady' = [steady EXCEPT ![started + 1] = On(a)]
    /\ UNCHANGED <<tables, tokens, acked, dropped, void, before, given>>

Row(s) == [app |-> req[s].app, key |-> req[s].key]

\* The messages with the application and the event_id of the request.
SameKey(s) == {m \in LiveMessages : msg[m] = Row(s) /\ req[s].key # None}

\* An uncommitted one, for which the insert waits.
Awaited(s) ==
    \E t \in Slots \ {s} : req[t].tx # None /\ req[s].key # None /\ req[t].tx = Row(s)

\* Mutant of InsertMessage: no transaction.
InsertMessageAutocommit(s) ==
    /\ req[s].op = "publish"
    /\ req[s].app \in LiveApps
    /\ ~Awaited(s) /\ SameKey(s) = {}
    /\ req' = [req EXCEPT ![s].op = "list"]
    /\ msg' = [msg EXCEPT ![req[s].n] = Row(s)]
    /\ UNCHANGED <<app, etype, endpoint, dels, tokens, started, history>>

InsertMessage(s) ==
    /\ req[s].op = "publish"
    /\ req[s].app \in LiveApps
    /\ ~Awaited(s) /\ SameKey(s) = {}
    /\ req' = [req EXCEPT ![s] = [@ EXCEPT !.op = "list", !.tx = Row(s)]]
    /\ UNCHANGED <<tables, tokens, started, history>>

\* ON CONFLICT DO NOTHING: the transaction is dropped.
InsertConflicts(s) ==
    /\ req[s].op = "publish"
    /\ ~Awaited(s) /\ SameKey(s) # {}
    /\ Proceed(s, "replayed")
    /\ UNCHANGED <<tables, tokens, started, history>>

\* The answer is the message that is there already.
GetMessageByAppEventID(s) ==
    /\ req[s].op = "replayed"
    /\ SameKey(s) # {}
    /\ acked' = acked \cup SameKey(s)
    /\ End(s)
    /\ UNCHANGED <<tables, tokens, started, steady, dropped, void, before, given>>

ListMatchingEndpoints(s) ==
    /\ req[s].op = "list"
    /\ req' = [req EXCEPT ![s] = [@ EXCEPT !.op = "fanout", !.list = On(req[s].app)]]
    /\ UNCHANGED <<tables, tokens, started, history>>

\* CreateMessageDeliveriesBatch, all or none: a row of list may be gone.
Batch(m, E) ==
    /\ E \subseteq LiveEndpoints
    /\ dels' = dels \cup ({m} \X E)

\* The batch and the commit: the rows it references are locked until then.
Commit(s) ==
    /\ req[s].op = "fanout"
    /\ msg' = [msg EXCEPT ![req[s].n] = Row(s)]
    /\ Batch(req[s].n, req[s].list)
    /\ acked' = acked \cup {req[s].n}
    /\ End(s)
    /\ UNCHANGED <<app, etype, endpoint, tokens, started, steady, dropped, void, before, given>>

\* A test message goes to one endpoint, on or not, and not in a transaction.
TestEndpoint(s, a, e) ==
    /\ a \in LiveApps /\ InApp(e, a) /\ etype = "live"
    /\ \E c \in Caller({"admin", "member"}, a) : Begin(s, [c EXCEPT !.op = "test", !.ep = e])
    /\ steady' = [steady EXCEPT ![started + 1] = {e}]
    /\ UNCHANGED <<tables, tokens, acked, dropped, void, before, given>>

InsertTest(s) ==
    /\ req[s].op = "test"
    /\ req[s].app \in LiveApps
    /\ msg' = [msg EXCEPT ![req[s].n] = Row(s)]
    /\ Proceed(s, "probe")
    /\ UNCHANGED <<app, etype, endpoint, dels, tokens, started, history>>

DeliverTest(s) ==
    /\ req[s].op = "probe"
    /\ IsRow(msg[req[s].n])
    /\ Batch(req[s].n, {req[s].ep})
    /\ acked' = acked \cup {req[s].n}
    /\ End(s)
    /\ UNCHANGED <<app, etype, endpoint, msg, tokens, started, steady, dropped, void, before, given>>

\* The message and the endpoint are both looked up in the application.
ReplayDelivery(s, a, m, e) ==
    /\ a \in LiveApps /\ IsRow(msg[m]) /\ msg[m].app = a /\ InApp(e, a)
    /\ \E c \in Caller({"admin", "member"}, a) :
          Begin(s, [c EXCEPT !.op = "replay", !.ep = e, !.key = m])
    /\ UNCHANGED <<tables, tokens, history>>

\* Find or create; a row that another replay has created in between is found.
ReplayFindOrCreate(s) ==
    /\ req[s].op = "replay"
    /\ IsRow(msg[req[s].key])
    /\ Batch(req[s].key, {req[s].ep})
    /\ End(s)
    /\ UNCHANGED <<app, etype, endpoint, msg, tokens, started, history>>

-----------------------------------------------------------------------------
(* Operational events                                                      *)

GetOperationalApp == {a \in LiveApps : app[a].op}

\* SeedOperationalApp begins, for an event or for the console.
\* EnsureOperationalApp is one statement: its snapshot is taken here, and if the
\* application is not in it the insert comes later.
Seed(s, event) ==
    /\ LET found == {a \in LiveApps : app[a].op}
           r == [NoRequest EXCEPT !.set = event]
       IN  /\ Begin(s, IF found = {} THEN [r EXCEPT !.op = "ensure"]
                       ELSE [r EXCEPT !.op = "seed", !.app = CHOOSE a \in found : TRUE])
           /\ steady' = [steady EXCEPT ![started + 1] = {e \in LiveEndpoints : endpoint[e].app \in found /\ endpoint[e].on}]
    /\ UNCHANGED <<tables, tokens, acked, dropped, void, before, given>>

EnsureOperationalApp(s) ==
    /\ req[s].op = "ensure"
    /\ \A a \in LiveApps : ~app[a].op
    /\ \E a \in Fresh(app) :
          /\ app' = [app EXCEPT ![a] = [op |-> TRUE, epoch |-> 0]]
          /\ req' = [req EXCEPT ![s] = [@ EXCEPT !.op = "seed", !.app = a]]
    /\ UNCHANGED <<etype, endpoint, msg, dels, tokens, started, history>>

\* ON CONFLICT DO NOTHING, and the snapshot has no row either.
EnsureFindsNothing(s) ==
    /\ req[s].op = "ensure"
    /\ \E a \in LiveApps : app[a].op
    /\ Proceed(s, "fallback")
    /\ UNCHANGED <<tables, tokens, started, history>>

Fallback(s) ==
    /\ req[s].op = "fallback"
    /\ \/ \E a \in GetOperationalApp :
             /\ req' = [req EXCEPT ![s] = [@ EXCEPT !.op = "seed", !.app = a]]
             /\ UNCHANGED dropped
       \/ /\ GetOperationalApp = {}
          /\ End(s)
          /\ dropped' = dropped \cup {req[s].n}
    /\ UNCHANGED <<tables, tokens, started, steady, acked, void, before, given>>

\* ON CONFLICT DO NOTHING.
SeedEventType(t) == IF t = None THEN "live" ELSE t

SeedEventTypes(s) ==
    /\ req[s].op = "seed"
    /\ etype' = SeedEventType(etype)
    /\ IF req[s].set THEN Proceed(s, "emit") ELSE End(s)
    /\ UNCHANGED <<app, endpoint, msg, dels, tokens, started, history>>

\* Publish: each statement commits on its own.
InsertEvent(s) ==
    /\ req[s].op = "emit"
    /\ msg' = [msg EXCEPT ![req[s].n] = Row(s)]
    /\ Proceed(s, "match")
    /\ UNCHANGED <<app, etype, endpoint, dels, tokens, started, history>>

MatchEvent(s) ==
    /\ req[s].op = "match"
    /\ req' = [req EXCEPT ![s] = [@ EXCEPT !.op = "spread", !.list = On(req[s].app)]]
    /\ UNCHANGED <<tables, tokens, started, history>>

SpreadEvent(s) ==
    /\ req[s].op = "spread"
    /\ Batch(req[s].n, req[s].list)
    /\ acked' = acked \cup {req[s].n}
    /\ End(s)
    /\ UNCHANGED <<app, etype, endpoint, msg, tokens, started, steady, dropped, void, before, given>>

-----------------------------------------------------------------------------
Endpoint(s) ==
    \/ \E a \in Apps, u \in Urls : CreateEndpoint(s, a, u)
    \/ \E a \in Apps, e \in EndpointIds :
          \/ \E b \in Bodies : PatchEndpoint(s, a, e, b)
          \/ \E k \in BOOLEAN : RotateEndpointSecret(s, a, e, k)
          \/ DeleteEndpoint(s, a, e)
    \/ InsertEndpoint(s) \/ UpdateEndpoint(s) \/ DeleteEndpointForApp(s) \/ RotateSecret(s)

Portal(s) ==
    \/ \E a \in Apps : CreatePortalAccess(s, a) \/ RevokePortalAccess(s, a)
    \/ Mint(s) \/ BumpApplicationPortalEpoch(s)

Message(s) ==
    \/ \E a \in Apps, k \in EventIds \cup {None} : CreateMessage(s, a, k)
    \/ InsertMessage(s) \/ InsertConflicts(s) \/ GetMessageByAppEventID(s)
    \/ ListMatchingEndpoints(s) \/ Commit(s)
    \/ \E a \in Apps, e \in EndpointIds :
          TestEndpoint(s, a, e) \/ \E m \in Messages : ReplayDelivery(s, a, m, e)
    \/ InsertTest(s) \/ DeliverTest(s) \/ ReplayFindOrCreate(s)

Operational(s) ==
    \/ \E event \in BOOLEAN : Seed(s, event)
    \/ EnsureOperationalApp(s) \/ EnsureFindsNothing(s) \/ Fallback(s)
    \/ SeedEventTypes(s) \/ InsertEvent(s) \/ MatchEvent(s) \/ SpreadEvent(s)

ApiNext ==
    \/ \E s \in Slots : Endpoint(s) \/ Portal(s) \/ Message(s) \/ Operational(s) \/ Fail(s)
    \/ CreateApplication
    \/ \E a \in Apps : DeleteApplication(a)
    \/ CreateEventType \/ DeleteEventType
    \/ \E archived \in BOOLEAN : PatchEventType(archived)
    \/ \E e \in EndpointIds : GraceOver(e)

ApiSpec == ApiInit /\ [][ApiNext]_apiVars

-----------------------------------------------------------------------------
\* A publisher that is answered with a message_id can rely on it: the message has
\* a delivery to every endpoint that was on from the start of the publish that
\* created it, although an earlier publish with its event_id may have failed half
\* way (CreateMessage's transaction; the answer to a replay names the first one).
AckedReachesAll == \A m \in acked : IsRow(msg[m]) => {m} \X steady[m] \subseteq dels

\* At most one message per application and event_id, and at most one operational
\* application, however publishes overlap.
KeysUnique ==
    /\ \A m, n \in LiveMessages : msg[m] = msg[n] /\ msg[m].key # None => m = n
    /\ Cardinality({a \in LiveApps : app[a].op}) <= 1

\* No operational event is lost because two of them seed the operational
\* application at once (SeedOperationalApp's fallback).
OpEventsSurvive == dropped = {}

\* A delivery never carries a message of one application to an endpoint of
\* another, whether it was published, tested or replayed.
WithinApp == \A d \in dels : msg[d[1]].app = endpoint[d[2]].app

\* What is published arrives, once, and nowhere else (CreateMessage, TestEndpoint,
\* ReplayDelivery, opevents.Publish).
PublishedArrives == ApiTypeOK /\ AckedReachesAll /\ KeysUnique /\ OpEventsSurvive /\ WithinApp

\* Whoever last took note of an endpoint's secret before its latest rotation can
\* still verify deliveries while the grace period lasts (RotateEndpointSecret,
\* signHeader), and the holder of the current one always can.
GraceKept == \A e \in LiveEndpoints : before[e] # None => before[e] \in signHeader(e)

\* An endpoint delivers only to a URL that its creator or an admin has given it:
\* members and portal users may send an older one again (PatchEndpoint compares
\* with a row read earlier), never a new one.
UrlsGiven == \A e \in LiveEndpoints : endpoint[e].url \in given[e]

\* Overlapping edits of an endpoint leave it a secret its receiver knows and a URL
\* somebody entitled chose (RotateEndpointSecret, PatchEndpoint).
EndpointTrusted == GraceKept /\ UrlsGiven

\* A portal request gets in only with a link handed out since the last revocation,
\* and changes only endpoints of the application of its link (RequirePortal).
PortalContained ==
    [][\A s \in Slots :
          /\ req[s] = NoRequest /\ req'[s].tok # None => req'[s].tok \notin void
          /\ req[s].tok # None /\ req'[s] = NoRequest =>
                \A e \in LiveEndpoints : endpoint'[e] # endpoint[e] => endpoint[e].app = req[s].tok.app]_apiVars

=============================================================================
