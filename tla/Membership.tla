----------------------------- MODULE Membership -----------------------------
(***************************************************************************)
(* Organizations, their members and their API keys                         *)
(* (internal/api/identity/{members,orgs,api_keys}.go and the administrator *)
(* commands of cmd/dstream/admin.go).  A handler first reads the roles of  *)
(* the caller and of the target, outside any transaction, and then runs    *)
(* one statement; between the two other requests run.  A statement that    *)
(* guards itself with a subquery evaluates that subquery in the snapshot   *)
(* it starts with, and applies its assignments to the rows as they are     *)
(* when it gets their locks (READ COMMITTED): Snapshot and the action that *)
(* follows it are two steps for that reason.  A cookie is set in a step of *)
(* its own, after the lookup of the organization it names.                 *)
(*                                                                         *)
(* A refused request changes nothing and is not an action.  The audit rows *)
(* the handlers write, and the display names, are left out.                *)
(***************************************************************************)
EXTENDS Naturals, FiniteSets

CONSTANTS
    Users,       \* an e-mail address stands for the user it names
    Browsers,    \* each holds at most one session cookie
    Orgs,        \* numbered in the order in which they are created
    Keys,        \* ids of API keys
    Slots,       \* requests in progress
    None,
    MaxRequests  \* bound on the requests and commands of one behaviour

ASSUME OrgNumbers == Orgs \subseteq Nat /\ 1 \in Orgs
ASSUME NoneApart == None \notin Users \cup Browsers \cup Orgs \cup Keys \cup Slots \cup Nat
ASSUME SlotsApart == Slots \cap Browsers = {}
ASSUME RequestBound == MaxRequests \in Nat

VARIABLES
    live,     \* organizations
    born,     \* the organizations created so far
    role,     \* [Orgs -> [Users -> Roles]]: org_members
    epoch,    \* users.session_epoch; None: there is no such user
    key,      \* [Keys -> Orgs or None]: the org of an api_keys row that is not revoked
    session,  \* the cookie a browser holds: [user, org, epoch]
    req,      \* the requests in progress
    started   \* how many requests there have been

memberVars == <<live, born, role, epoch, key, session, req, started>>

Roles == {"none", "member", "admin", "owner"}
AtLeastAdmin == {"admin", "owner"}
NoSession == [user |-> None, org |-> None, epoch |-> 0]
Idle == [op |-> "idle", by |-> None, p |-> NoSession, org |-> None, who |-> None,
         arg |-> "none", rows |-> {}, fresh |-> TRUE, got |-> None, invs |-> {}]

-----------------------------------------------------------------------------
\* auth.Authenticate: the cookie's epoch is compared with the user's row.
Authenticated(b) ==
    LET c == session[b] IN c.user # None /\ epoch[c.user] = c.epoch

Owners(o) == {u \in Users : role[o][u] = "owner"}
MembersOf(o) == {u \in Users : role[o][u] # "none"}
OrgsOf(u) == {o \in Orgs : role[o][u] # "none"}

Arrives == started < MaxRequests /\ started' = started + 1

\* A request that has read what it needs and goes on to write.
Open(s, r) ==
    /\ req[s] = Idle
    /\ Arrives
    /\ req' = [req EXCEPT ![s] = r]

Request(op, b, o, t, r) ==
    [Idle EXCEPT !.op = op, !.by = b, !.p = session[b], !.org = o, !.who = t, !.arg = r]

\* The members become f and the request in slot s (None: a step without a
\* request) goes on as r.  What the others read of an organization that changes
\* is no longer fresh, and a row that is gone is gone from their snapshots.
SetRoles(s, r, f) ==
    /\ role' = f
    /\ req' = [x \in Slots |->
         LET o == req[x].org
         IN  IF x = s THEN r
             ELSE IF o # None /\ f[o] # role[o]
             THEN [req[x] EXCEPT !.fresh = FALSE, !.rows = {u \in @ : f[o][u] # "none"}]
             ELSE req[x]]

SetMembers(s, r, o, f) == SetRoles(s, r, [role EXCEPT ![o] = f])

Answered(s) == req' = [req EXCEPT ![s] = Idle]

-----------------------------------------------------------------------------
(* Session cookies: SessionSigner.Issue.                                   *)

\* What is left of a request that has to set a cookie: a cookie that names org o,
\* or one for which GetFirstOrgForUser has yet to be asked.
SetsCookie(r, o) == [Idle EXCEPT !.op = "cookie", !.by = r.by, !.p = r.p, !.org = o]
AsksNext(r) == [Idle EXCEPT !.op = "next", !.by = r.by, !.p = r.p]

\* An empty answer and an error leave the session without an org.
GetFirstOrgForUser(s) ==
    LET r == req[s]
    IN  /\ r.op = "next"
        /\ \E o \in OrgsOf(r.p.user) \cup {None} : req' = [req EXCEPT ![s] = SetsCookie(r, o)]
        /\ UNCHANGED <<live, born, role, epoch, key, session, started>>

\* Mutant of Issue: the cookie is given the epoch of the moment.
IssueNow(s) ==
    LET r == req[s]
    IN  /\ r.op = "cookie"
        /\ session' = [session EXCEPT ![r.by] = [user |-> r.p.user, org |-> r.org,
                                                 epoch |-> epoch[r.p.user]]]
        /\ Answered(s)
        /\ UNCHANGED <<live, born, role, epoch, key, started>>

\* The epoch is that of the principal, as the request began with it.
Issue(s) ==
    LET r == req[s]
    IN  /\ r.op = "cookie"
        /\ session' = [session EXCEPT ![r.by] = [r.p EXCEPT !.org = r.org]]
        /\ Answered(s)
        /\ UNCHANGED <<live, born, role, epoch, key, started>>

-----------------------------------------------------------------------------
(* PATCH /orgs/{org_id}/members/{user_id}                                  *)

PatchMember(s, b, o, t, r) ==
    LET caller == role[o][session[b].user]
    IN  /\ Authenticated(b)
        /\ caller \in AtLeastAdmin
        /\ role[o][t] # "none" /\ r # role[o][t]
        /\ r # "owner"
        /\ role[o][t] = "owner" => caller = "owner"
        /\ Open(s, Request(IF role[o][t] = "owner" THEN "demote" ELSE "setrole", b, o, t, r))
        /\ UNCHANGED <<live, born, role, epoch, key, session>>

UpdateOrgMemberRole(s) ==
    LET r == req[s]
    IN  /\ r.op = "setrole"
        /\ SetMembers(s, Idle, r.org, IF role[r.org][r.who] = "none" THEN role[r.org]
                                      ELSE [role[r.org] EXCEPT ![r.who] = r.arg])
        /\ UNCHANGED <<live, born, epoch, key, session, started>>

\* The subquery of the two guarded statements counts the owners it can see.
NotLast(o) == Cardinality(Owners(o)) > 1

\* Mutant of Snapshot: the owners are counted by the handler, with its other reads.
SnapshotEarlier(s) ==
    LET r == req[s]
    IN  /\ r.op \in {"demote", "removeowner"}
        /\ req' = [req EXCEPT ![s] =
             IF ~r.fresh \/ NotLast(r.org)
             THEN [r EXCEPT !.op = IF @ = "demote" THEN "demoting" ELSE "removing",
                            !.rows = MembersOf(r.org), !.fresh = TRUE]
             ELSE Idle]
        /\ UNCHANGED <<live, born, role, epoch, key, session, started>>

\* The statement starts: what it reads from here on, it reads in this snapshot.
Snapshot(s) ==
    LET r == req[s]
    IN  /\ r.op \in {"demote", "removeowner"}
        /\ req' = [req EXCEPT ![s] =
             IF NotLast(r.org)
             THEN [r EXCEPT !.op = IF @ = "demote" THEN "demoting" ELSE "removing",
                            !.rows = MembersOf(r.org), !.fresh = TRUE]
             ELSE Idle]
        /\ UNCHANGED <<live, born, role, epoch, key, session, started>>

\* The row is changed only if it is the owner's still.
DemoteOrgOwnerIfNotLast(s) ==
    LET r == req[s]
    IN  /\ r.op = "demoting"
        /\ SetMembers(s, Idle, r.org, IF r.who \in r.rows /\ role[r.org][r.who] = "owner"
                                      THEN [role[r.org] EXCEPT ![r.who] = r.arg]
                                      ELSE role[r.org])
        /\ UNCHANGED <<live, born, epoch, key, session, started>>

-----------------------------------------------------------------------------
(* DELETE /orgs/{org_id}/members/{user_id}                                 *)

RemoveMember(s, b, o, t) ==
    LET u == session[b].user
    IN  /\ Authenticated(b)
        /\ role[o][u] # "none" /\ role[o][t] # "none"
        /\ t # u => role[o][u] \in AtLeastAdmin
        /\ t # u /\ role[o][t] = "owner" => role[o][u] = "owner"
        /\ Open(s, Request(IF role[o][t] = "owner" THEN "removeowner" ELSE "remove",
                           b, o, t, "none"))
        /\ UNCHANGED <<live, born, role, epoch, key, session>>

\* Whoever leaves the org of his session gets a cookie for another one.
SelfLeave(r) == IF r.who = r.p.user /\ r.p.org = r.org THEN AsksNext(r) ELSE Idle

DeleteOrgMember(s) ==
    LET r == req[s]
    IN  /\ r.op = "remove"
        /\ SetMembers(s, SelfLeave(r), r.org, [role[r.org] EXCEPT ![r.who] = "none"])
        /\ UNCHANGED <<live, born, epoch, key, session, started>>

DeleteOrgOwnerIfNotLast(s) ==
    LET r == req[s]
        matches == r.who \in r.rows /\ role[r.org][r.who] = "owner"
    IN  /\ r.op = "removing"
        /\ IF matches
           THEN SetMembers(s, SelfLeave(r), r.org, [role[r.org] EXCEPT ![r.who] = "none"])
           ELSE Answered(s) /\ UNCHANGED role
        /\ UNCHANGED <<live, born, epoch, key, session, started>>

-----------------------------------------------------------------------------
(* POST /orgs/{org_id}/transfer: one statement guarded by two subqueries.  *)

TransferOwnership(s, b, o, t) ==
    LET u == session[b].user
    IN  /\ Authenticated(b)
        /\ t # u
        /\ role[o][u] = "owner" /\ role[o][t] # "none"
        /\ Open(s, [Request("transferring", b, o, t, "owner") EXCEPT !.rows = MembersOf(o)])
        /\ UNCHANGED <<live, born, role, epoch, key, session>>

TransferOrgOwnership(s) ==
    LET r == req[s]
        now == role[r.org]
    IN  /\ r.op = "transferring"
        /\ SetMembers(s, Idle, r.org,
             [u \in Users |-> CASE u \notin r.rows -> now[u]
                                [] u \in r.rows /\ u = r.who -> "owner"
                                [] u \in r.rows /\ u = r.p.user /\ now[u] = "owner" -> "admin"
                                [] OTHER -> now[u]])
        /\ UNCHANGED <<live, born, epoch, key, session, started>>

-----------------------------------------------------------------------------
(* Organizations                                                           *)

NextOrg == CHOOSE o \in Orgs \ born : \A n \in Orgs \ born : o <= n

\* CreateOrganization and AddOrgMember for the owner.
Found(o, u) ==
    /\ live' = live \cup {o} /\ born' = born \cup {o}
    /\ role' = [role EXCEPT ![o][u] = "owner"]

CreateOrg(b) ==
    /\ Authenticated(b)
    /\ Arrives /\ Orgs # born
    /\ Found(NextOrg, session[b].user)
    /\ UNCHANGED <<epoch, key, session, req>>

SelectOrg(s, b, o) ==
    /\ Authenticated(b)
    /\ role[o][session[b].user] # "none"
    /\ Open(s, SetsCookie(Request("cookie", b, o, None, "none"), o))
    /\ UNCHANGED <<live, born, role, epoch, key, session>>

DeleteOrg(s, b, o) ==
    /\ Authenticated(b)
    /\ role[o][session[b].user] = "owner"
    /\ Open(s, Request("deleteorg", b, o, None, "none"))
    /\ UNCHANGED <<live, born, role, epoch, key, session>>

WithoutKeys(o) == [k \in Keys |-> IF key[k] = o THEN None ELSE key[k]]

\* The members and the keys go with the organization (ON DELETE CASCADE).  A
\* session that was in it is given the next one.
DeleteOrganization(s) ==
    LET r == req[s]
    IN  /\ r.op = "deleteorg"
        /\ live' = live \ {r.org}
        /\ SetMembers(s, IF r.p.org = r.org THEN AsksNext(r) ELSE Idle, r.org,
                      [u \in Users |-> "none"])
        /\ key' = WithoutKeys(r.org)
        /\ UNCHANGED <<born, epoch, session, started>>

-----------------------------------------------------------------------------
(* API keys.  The role of a key is data.                                   *)

CreateAPIKey(s, b, o) ==
    /\ Authenticated(b)
    /\ role[o][session[b].user] \in AtLeastAdmin
    /\ Open(s, Request("key", b, o, None, "none"))
    /\ UNCHANGED <<live, born, role, epoch, key, session>>

\* The foreign key refuses the row of an organization that is gone.
InsertKey(s, k) ==
    LET r == req[s]
    IN  /\ r.op = "key" /\ key[k] = None
        /\ key' = IF r.org \in live THEN [key EXCEPT ![k] = r.org] ELSE key
        /\ Answered(s)
        /\ UNCHANGED <<live, born, role, epoch, session, started>>

RevokeAPIKey(b, k) ==
    /\ Authenticated(b)
    /\ key[k] # None
    /\ role[key[k]][session[b].user] \in AtLeastAdmin
    /\ Arrives
    /\ key' = [key EXCEPT ![k] = None]
    /\ UNCHANGED <<live, born, role, epoch, session, req>>

-----------------------------------------------------------------------------
(* dstream admin member add, org create                                    *)

RunMemberAdd(o, u, r) ==
    /\ o \in live /\ epoch[u] # None /\ role[o][u] = "none"
    /\ Arrives
    /\ SetMembers(None, Idle, o, [role[o] EXCEPT ![u] = r])
    /\ UNCHANGED <<live, born, epoch, key, session>>

\* Two statements and no transaction: the command may die between them.
RunOrgCreate(s, u) ==
    /\ epoch[u] # None /\ Orgs # born
    /\ Open(s, [Idle EXCEPT !.op = "addowner", !.org = NextOrg, !.who = u])
    /\ live' = live \cup {NextOrg} /\ born' = born \cup {NextOrg}
    /\ UNCHANGED <<role, epoch, key, session>>

AddOwner(s) ==
    /\ req[s].op = "addowner"
    /\ req[s].org \in live /\ role[req[s].org][req[s].who] = "none"
    /\ SetMembers(s, Idle, req[s].org, [role[req[s].org] EXCEPT ![req[s].who] = "owner"])
    /\ UNCHANGED <<live, born, epoch, key, session, started>>

\* A request whose process dies, or whose next statement fails.
Abandon(s) ==
    /\ req[s] # Idle
    /\ Answered(s)
    /\ UNCHANGED <<live, born, role, epoch, key, session, started>>

-----------------------------------------------------------------------------
MemberNext ==
    \/ \E s \in Slots, b \in Browsers, o \in live :
         \/ \E t \in Users : \/ \E r \in Roles \ {"none"} : PatchMember(s, b, o, t, r)
                             \/ RemoveMember(s, b, o, t)
                             \/ TransferOwnership(s, b, o, t)
         \/ DeleteOrg(s, b, o) \/ SelectOrg(s, b, o)
         \/ CreateAPIKey(s, b, o)
    \/ \E s \in Slots :
         \/ UpdateOrgMemberRole(s) \/ Snapshot(s) \/ DemoteOrgOwnerIfNotLast(s)
         \/ DeleteOrgMember(s) \/ DeleteOrgOwnerIfNotLast(s) \/ TransferOrgOwnership(s)
         \/ DeleteOrganization(s) \/ AddOwner(s) \/ Abandon(s)
         \/ GetFirstOrgForUser(s) \/ Issue(s)
         \/ \E k \in Keys : InsertKey(s, k)
         \/ \E u \in Users : RunOrgCreate(s, u)
    \/ \E b \in Browsers :
         \/ CreateOrg(b)
         \/ \E k \in Keys : RevokeAPIKey(b, k)
    \/ \E o \in live, u \in Users, r \in Roles \ {"none"} : RunMemberAdd(o, u, r)

=============================================================================
