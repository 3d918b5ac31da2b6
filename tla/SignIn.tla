------------------------------- MODULE SignIn -------------------------------
(***************************************************************************)
(* Signing in and joining organizations: magic links, single sign-on,      *)
(* invitations and logout (internal/auth/{magiclink,invites,session}.go,   *)
(* internal/api/identity/{auth,sso,invites}.go), on top of Membership,     *)
(* whose requests interleave with these.                                   *)
(*                                                                         *)
(* Both ways of signing in end in BootstrapSession, a transaction of       *)
(* several statements at READ COMMITTED: Begin locks the magic link,       *)
(* List creates the user if need be and lists the pending invitations      *)
(* without locking them, Count decides whether a workspace is needed, and  *)
(* Commit makes the writes visible.  A request record's "got" is the link  *)
(* or the SSO state it serves, "arg" how far it is.                        *)
(***************************************************************************)
EXTENDS Membership

CONSTANTS
    Links, Invites, States,  \* ids of magic links, invitations, SSO states
    Enforced,                \* DSTREAM_OIDC_ENFORCE
    DefaultOrg,              \* the org of DSTREAM_OIDC_DEFAULT_ORG, or None
    DefaultRole              \* DSTREAM_OIDC_DEFAULT_ROLE

ASSUME EnforcedBoolean == Enforced \in BOOLEAN
ASSUME DefaultRoles == DefaultRole \in {"member", "admin"}
ASSUME DefaultOrgs == DefaultOrg \in Orgs \cup {None}
ASSUME IdsApart ==
    /\ None \notin Links \cup Invites \cup States
    /\ Links \cap Invites = {} /\ Links \cap States = {} /\ Invites \cap States = {}

VARIABLES
    link,      \* [Links -> [user, st]]
    inv,       \* [Invites -> [org, user, role, st]]: org_invites
    sso,       \* [States -> BOOLEAN]: sso:state:<state> is in Redis
    ssoCookie, \* the state cookie a browser holds
    \* history
    grants,    \* [Invites -> Nat]: memberships an invitation has given, those
               \* apart that it gave to a sign-in that had listed it earlier
    uses,      \* [Links \cup States -> Nat]: sessions each has opened
    begun,     \* the browser that asked for an SSO state
    void       \* browsers and slots whose session a logout has ended

signVars == <<link, inv, sso, ssoCookie>>
history == <<grants, uses, begun, void>>
vars == <<memberVars, signVars, history>>

NoLink == [user |-> None, st |-> "free"]
NoInvite == [org |-> None, user |-> None, role |-> "none", st |-> "free"]
Kept == {"pending", "accepted", "expired"}  \* the row is there
Bootstrapping == {"listing", "counting", "joining", "minting"}

Principals == [user: Users, org: Orgs \cup {None}, epoch: Nat]

\* What a request record may hold.
Requests ==
    [op: {"idle", "setrole", "demote", "demoting", "remove", "removeowner", "removing",
          "transferring", "deleteorg", "key", "addowner", "invite", "accept",
          "verify", "callback", "next", "cookie"},
     by: Browsers \cup {None}, p: Principals \cup {NoSession}, org: Orgs \cup {None},
     who: Users \cup {None}, arg: Roles \cup Bootstrapping, rows: SUBSET Users,
     fresh: BOOLEAN, got: Invites \cup Links \cup States \cup {None}, invs: SUBSET Invites]

TypeOK ==
    /\ live \subseteq born /\ born \subseteq Orgs
    /\ role \in [Orgs -> [Users -> Roles]]
    /\ epoch \in [Users -> Nat \cup {None}]
    /\ key \in [Keys -> live \cup {None}]
    /\ session \in [Browsers -> Principals \cup {NoSession}]
    /\ req \in [Slots -> Requests]
    /\ started \in 0..MaxRequests
    /\ link \in [Links -> [user: Users, st: {"active", "used", "expired"}] \cup {NoLink}]
    /\ inv \in [Invites -> [org: Orgs, user: Users, role: {"admin", "member"},
                           st: Kept \cup {"gone"}] \cup {NoInvite}]
    /\ sso \in [States -> BOOLEAN]
    /\ ssoCookie \in [Browsers -> States \cup {None}]
    /\ grants \in [Invites -> Nat]
    /\ uses \in [Links \cup States -> Nat]
    /\ begun \in [States -> Browsers \cup {None}]
    /\ void \subseteq Browsers \cup Slots

\* One organization with an owner.  Another user is in it, or has an account and
\* no organization and may be invited, or is unknown.
Init ==
    /\ live = {1} /\ born = {1}
    /\ \E boss, other \in Users, r \in Roles, known, invited \in BOOLEAN :
         /\ boss # other
         /\ r # "none" => known /\ ~invited
         /\ role = [o \in Orgs |-> [u \in Users |->
              CASE o = 1 /\ u = boss -> "owner"
                [] o = 1 /\ u = other -> r
                [] OTHER -> "none"]]
         /\ epoch = [u \in Users |-> IF u = boss \/ (u = other /\ known) THEN 0 ELSE None]
         /\ \E b \in Browsers : session =
              [x \in Browsers |-> IF x = b THEN [user |-> boss, org |-> 1, epoch |-> 0]
                                  ELSE IF ~known THEN NoSession
                                  ELSE [user |-> other, org |-> IF r = "none" THEN None ELSE 1,
                                        epoch |-> 0]]
         /\ \E first \in Invites : inv =
              [i \in Invites |-> IF i = first /\ invited
                                 THEN [org |-> 1, user |-> other, role |-> "member", st |-> "pending"]
                                 ELSE NoInvite]
    /\ key = [k \in Keys |-> None]
    /\ req = [s \in Slots |-> Idle]
    /\ started = 0
    /\ link = [l \in Links |-> NoLink]
    /\ sso = [x \in States |-> FALSE]
    /\ ssoCookie = [b \in Browsers |-> None]
    /\ grants = [i \in Invites |-> 0]
    /\ uses = [x \in Links \cup States |-> 0]
    /\ begun = [x \in States |-> None]
    /\ void = {}

-----------------------------------------------------------------------------
(* Invitations                                                             *)

Unaccepted(o, u) == {i \in Invites : inv[i].org = o /\ inv[i].user = u
                                      /\ inv[i].st \in {"pending", "expired"}}

CreateInvite(s, b, o, u, r) ==
    /\ Authenticated(b)
    /\ role[o][session[b].user] \in AtLeastAdmin
    /\ role[o][u] = "none"
    /\ Open(s, Request("invite", b, o, u, r))
    /\ UNCHANGED <<live, born, role, epoch, key, session, signVars, history>>

Insertable(o, u) == o \in live /\ Unaccepted(o, u) = {}

\* The partial unique index counts a lapsed invitation as pending.
IssueOrgInvite(s, i) ==
    LET r == req[s]
    IN  /\ r.op = "invite" /\ inv[i] = NoInvite
        /\ void' = void \ {s}
        /\ inv' = IF Insertable(r.org, r.who)
                  THEN [inv EXCEPT ![i] = [org |-> r.org, user |-> r.who, role |-> r.arg,
                                           st |-> "pending"]]
                  ELSE inv
        /\ Answered(s)
        /\ UNCHANGED <<live, born, role, epoch, key, session, started, link, sso, ssoCookie,
                       grants, uses, begun>>

DeleteInvite(b, i) ==
    /\ Authenticated(b)
    /\ inv[i].st \in Kept
    /\ role[inv[i].org][session[b].user] \in AtLeastAdmin
    /\ Arrives
    /\ inv' = [inv EXCEPT ![i].st = "gone"]
    /\ UNCHANGED <<live, born, role, epoch, key, session, req, link, sso, ssoCookie, history>>

\* Path A: a session of the invited user.
AcceptInvite(s, b, i) ==
    /\ inv[i].st = "pending"
    /\ Authenticated(b) /\ session[b].user = inv[i].user
    /\ Open(s, [Request("accept", b, inv[i].org, inv[i].user, "none") EXCEPT !.got = i])
    /\ UNCHANGED <<live, born, role, epoch, key, session, signVars, history>>

Granted(is) ==
    grants' = [i \in Invites |->
      grants[i] + IF i \in is /\ role[inv[i].org][inv[i].user] = "none" THEN 1 ELSE 0]

\* Mutant of Acceptable: what was active at the first look is not checked again.
AcceptableUnchecked(i, u) == inv[i].user = u

Acceptable(i, u) == inv[i].st = "pending" /\ inv[i].user = u

\* One transaction, the invitation locked: an existing role stays as it is.
ConsumeOrgInvite(s) ==
    LET r == req[s]  i == r.got
    IN  /\ r.op = "accept"
        /\ IF Acceptable(i, r.who)
           THEN /\ SetMembers(s, SetsCookie(r, inv[i].org), inv[i].org,
                     IF role[inv[i].org][r.who] # "none" THEN role[inv[i].org]
                     ELSE [role[inv[i].org] EXCEPT ![r.who] = inv[i].role])
                /\ inv' = [inv EXCEPT ![i].st = "accepted"]
                /\ Granted({i}) /\ UNCHANGED void
           ELSE /\ Answered(s) /\ void' = void \ {s}
                /\ UNCHANGED <<role, inv, grants>>
        /\ UNCHANGED <<live, born, epoch, key, session, started, link, sso, ssoCookie, uses, begun>>

-----------------------------------------------------------------------------
(* Magic links                                                             *)

IssueMagicLink(l, u) ==
    /\ link[l] = NoLink
    /\ link' = [link EXCEPT ![l] = [user |-> u, st |-> "active"]]
    /\ UNCHANGED <<live, born, role, epoch, key, session, req, inv, sso, ssoCookie, history>>

RequestMagicLink(l, u) == ~Enforced /\ Arrives /\ IssueMagicLink(l, u)

\* Path B of AcceptInvite: nobody is signed in, the link goes to the invited.
AcceptByLink(b, i, l) ==
    /\ ~Enforced
    /\ inv[i].st = "pending" /\ session[b] = NoSession
    /\ Arrives
    /\ IssueMagicLink(l, inv[i].user)

\* dstream admin magic-link: an existing user with an org, enforcement or not.
RunMagicLink(l, u) ==
    /\ epoch[u] # None /\ OrgsOf(u) # {}
    /\ Arrives
    /\ IssueMagicLink(l, u)

\* GetUserByEmail is the first thing a sign-in reads; rows = {}: there is none.
SigningIn(op, b, u, x) ==
    [Idle EXCEPT !.op = op, !.by = b, !.who = u, !.got = x, !.arg = "listing",
                 !.rows = IF epoch[u] = None THEN {} ELSE {u},
                 !.p = [user |-> u, org |-> None, epoch |-> IF epoch[u] = None THEN 0 ELSE epoch[u]]]

\* Mutant of Locked: no FOR UPDATE.
LockedNever(l) == FALSE

\* GetActiveMagicLinkToken ... FOR UPDATE: one consumer at a time.
Locked(l) == \E s \in Slots : req[s].op = "verify" /\ req[s].got = l

VerifyMagicLink(s, b, l) ==
    /\ link[l].st = "active" /\ ~Locked(l)
    /\ LET u == link[l].user
       IN  Open(s, SigningIn("verify", b, u, l))
    /\ UNCHANGED <<live, born, role, epoch, key, session, signVars, history>>

-----------------------------------------------------------------------------
(* Single sign-on                                                          *)

StartSSO(b, x) ==
    /\ ~sso[x] /\ begun[x] = None
    /\ Arrives
    /\ sso' = [sso EXCEPT ![x] = TRUE]
    /\ ssoCookie' = [ssoCookie EXCEPT ![b] = x]
    /\ begun' = [begun EXCEPT ![x] = b]
    /\ UNCHANGED <<live, born, role, epoch, key, session, req, link, inv,
                   grants, uses, void>>

\* GETDEL and the cookie: the state must have been given to this browser.  The
\* identity provider vouches for u or the sign-in ends here.
CallbackSSO(s, b, x, u) ==
    /\ sso[x]
    /\ sso' = [sso EXCEPT ![x] = FALSE]
    /\ ssoCookie' = [ssoCookie EXCEPT ![b] = None]
    /\ \/ /\ ssoCookie[b] = x
          /\ Open(s, SigningIn("callback", b, u, x))
       \/ Arrives /\ UNCHANGED req
    /\ UNCHANGED <<live, born, role, epoch, key, session, link, inv, history>>

-----------------------------------------------------------------------------
(* BootstrapSession                                                        *)

SignIns == {"verify", "callback"}

\* Another transaction has inserted the user and not committed.
Creating(u, s) == \E x \in Slots \ {s} :
    req[x].op \in SignIns /\ req[x].who = u /\ req[x].arg # "listing"

\* A user that appeared since the first look is loaded again.
ListPendingOrgInvitesByEmail(s) ==
    LET r == req[s]  u == req[s].who
    IN  /\ r.op \in SignIns /\ r.arg = "listing"
        /\ epoch[u] = None => ~Creating(u, s)
        /\ req' = [req EXCEPT ![s] = [r EXCEPT !.arg = "counting",
             !.p.epoch = IF r.rows = {} /\ epoch[u] # None THEN epoch[u] ELSE @,
             !.invs = {i \in Invites : inv[i].user = u /\ inv[i].st = "pending"}]]
        /\ void' = IF r.rows = {} THEN void \ {s} ELSE void
        /\ UNCHANGED <<live, born, role, epoch, key, session, started, signVars, grants, uses, begun>>

CountOrgMembershipsForUser(s) ==
    LET r == req[s]
    IN  /\ r.op \in SignIns /\ r.arg = "counting"
        /\ req' = [req EXCEPT ![s].arg =
             IF r.invs = {} /\ OrgsOf(r.who) = {} THEN "minting" ELSE "joining"]
        /\ UNCHANGED <<live, born, role, epoch, key, session, started, signVars, history>>

InDefaultOrg(r) == r.arg = "minting" /\ r.op = "callback" /\ DefaultOrg # None
InOwnOrg(r) == r.arg = "minting" /\ ~InDefaultOrg(r)

\* The memberships that the transaction adds: those of the invitations it has
\* listed, or the default org of single sign-on, or a workspace of one's own.  A
\* role one has stays (AddOrgMember in a savepoint).
Joined(r, o) ==
    CASE role[o][r.who] # "none" -> role[o][r.who]
      [] role[o][r.who] = "none" /\ \E i \in r.invs : inv[i].org = o ->
           inv[CHOOSE i \in r.invs : inv[i].org = o].role
      [] role[o][r.who] = "none" /\ InDefaultOrg(r) /\ o = DefaultOrg -> DefaultRole
      [] role[o][r.who] = "none" /\ InOwnOrg(r) /\ o = NextOrg -> "owner"
      [] OTHER -> "none"

\* MarkMagicLinkUsed or nothing: an SSO state went with GETDEL.
Spend(r) == link' = IF r.op = "verify" THEN [link EXCEPT ![r.got].st = "used"] ELSE link

\* An organization that is gone fails the insert, and a user without any fails
\* GetFirstOrgForUser: the transaction is rolled back (Abandon).
CommitSignIn(s) ==
    LET r == req[s]
    IN  /\ r.op \in SignIns /\ r.arg \in {"joining", "minting"}
        /\ \A i \in r.invs : inv[i].org \in live
        /\ InDefaultOrg(r) => DefaultOrg \in live
        /\ InOwnOrg(r) => Orgs # born
        /\ LET new == IF InOwnOrg(r) THEN {NextOrg} ELSE {}
           IN  live' = live \cup new /\ born' = born \cup new
        /\ \E first \in Orgs :
             /\ Joined(r, first) # "none"
             /\ SetRoles(s, SetsCookie(r, first),
                         [o \in Orgs |-> [role[o] EXCEPT ![r.who] = Joined(r, o)]])
        /\ epoch' = [epoch EXCEPT ![r.who] = IF @ = None THEN 0 ELSE @]
        /\ inv' = [i \in Invites |-> IF i \in r.invs /\ inv[i].st \in Kept
                                     THEN [inv[i] EXCEPT !.st = "accepted"] ELSE inv[i]]
        /\ Spend(r)
        /\ Granted({i \in r.invs : inv[i].st = "pending"})
        /\ uses' = [uses EXCEPT ![r.got] = @ + 1]
        /\ UNCHANGED <<key, session, started, sso, ssoCookie, begun, void>>

-----------------------------------------------------------------------------
(* Logout, expiry, clean-up                                                *)

\* The signature is checked and the epoch is not.  A failed update is logged.
Logout(b) ==
    LET u == session[b].user
    IN  /\ u # None
        /\ Arrives
        /\ \/ /\ epoch' = [epoch EXCEPT ![u] = @ + 1]
              /\ void' = ((void \cup {x \in Browsers : session[x].user = u}) \ {b})
                         \cup {s \in Slots : req[s].p.user = u}
           \/ UNCHANGED epoch /\ void' = void \ {b}
        /\ session' = [session EXCEPT ![b] = NoSession]
        /\ UNCHANGED <<live, born, role, key, req, signVars, grants, uses, begun>>

Expires ==
    /\ \/ \E l \in Links : /\ link[l].st = "active" /\ ~Locked(l)
                            /\ link' = [link EXCEPT ![l].st = "expired"] /\ UNCHANGED <<inv, sso>>
       \/ \E i \in Invites : /\ inv[i].st = "pending"
                              /\ inv' = [inv EXCEPT ![i].st = "expired"] /\ UNCHANGED <<link, sso>>
       \/ \E x \in States : sso[x] /\ sso' = [sso EXCEPT ![x] = FALSE] /\ UNCHANGED <<link, inv>>
    /\ UNCHANGED <<memberVars, ssoCookie, history>>

\* DeleteExpiredOrgInvites, of the maintenance loop.
Prune(i) ==
    /\ inv[i].st \in {"accepted", "expired"}
    /\ inv' = [inv EXCEPT ![i].st = "gone"]
    /\ UNCHANGED <<memberVars, link, sso, ssoCookie, history>>

\* A step of Membership: the invitations of an organization go with it.
MemberStep ==
    /\ MemberNext
    /\ inv' = [i \in Invites |-> IF inv[i].st \in Kept /\ inv[i].org \notin live'
                                 THEN [inv[i] EXCEPT !.st = "gone"] ELSE inv[i]]
    /\ LET done == {s \in Slots : req[s] # Idle /\ req'[s] = Idle}
           set == {b \in Browsers : session'[b] # session[b]}
       IN  void' = (IF done = {} THEN void
                    ELSE (void \ set) \cup {b \in set : done \cap void # {}}) \ done
    /\ UNCHANGED <<link, sso, ssoCookie, grants, uses, begun>>

Next ==
    \/ MemberStep
    \/ \E s \in Slots, b \in Browsers :
         \/ \E o \in live, u \in Users, r \in {"admin", "member"} : CreateInvite(s, b, o, u, r)
         \/ \E i \in Invites : AcceptInvite(s, b, i)
         \/ \E l \in Links : VerifyMagicLink(s, b, l)
         \/ \E x \in States, u \in Users : CallbackSSO(s, b, x, u)
    \/ \E s \in Slots :
         \/ \E i \in Invites : IssueOrgInvite(s, i)
         \/ ConsumeOrgInvite(s) \/ ListPendingOrgInvitesByEmail(s)
         \/ CountOrgMembershipsForUser(s) \/ CommitSignIn(s)
    \/ \E b \in Browsers :
         \/ \E i \in Invites : DeleteInvite(b, i)
         \/ \E i \in Invites, l \in Links : AcceptByLink(b, i, l)
         \/ \E x \in States : StartSSO(b, x)
         \/ Logout(b)
    \/ \E l \in Links, u \in Users : RequestMagicLink(l, u) \/ RunMagicLink(l, u)
    \/ Expires
    \/ \E i \in Invites : Prune(i)

Spec == Init /\ [][Next]_vars

-----------------------------------------------------------------------------
(* Properties                                                              *)

Completes(s, ops) == req[s].op \in ops /\ req'[s].op # req[s].op

\* An organization loses its last owner only to a step that missed another: a
\* statement with a guard (DemoteOrgOwnerIfNotLast, DeleteOrgOwnerIfNotLast,
\* TransferOrgOwnership) whose own snapshot is older than a change of the members,
\* or one without (UpdateOrgMemberRole, DeleteOrgMember) of a handler that read
\* the role before it changed.  What happens between the handler's reads and the
\* snapshot does no harm: the count is not the handler's.
OwnerKept ==
  \A o \in live : Owners(o) # {} /\ Owners(o)' = {} /\ o \in live' =>
    \E s \in Slots : /\ Completes(s, {"setrole", "demoting", "remove", "removing", "transferring"})
                     /\ req[s].org = o /\ ~req[s].fresh

\* Neither a sign-in nor an invitation changes a role that somebody has, and
\* nobody becomes an owner of an organization he is in but by a transfer
\* (BootstrapSession, ConsumeOrgInvite, PatchMember).
RoleKept == \A o \in Orgs, u \in Users :
    role[o][u] # "none" /\ role'[o][u] # role[o][u] =>
      \E s \in Slots : Completes(s, IF role'[o][u] = "owner" THEN {"transferring"}
                                    ELSE {"setrole", "demoting", "remove", "removing",
                                          "transferring", "deleteorg"})

\* What a step may never do to a membership: OwnerKept and RoleKept.
MembershipKept == [][role' # role => OwnerKept /\ RoleKept]_vars

\* "Atomic demote: change role to $3 ONLY IF at least one other owner remains. The
\* whole operation is one statement, so two concurrent demote requests can't both
\* pass a count-then-update race." (internal/store/identity.sql.go, on
\* DemoteOrgOwnerIfNotLast).  Each counts in its own snapshot and updates a row
\* the other does not touch: both pass.
DemoteLeavesOwner ==
    [][\A o \in live \cap live', s \in Slots :
         Completes(s, {"demoting"}) /\ req[s].org = o /\ Owners(o) # {} => Owners(o)' # {}]_vars

\* An invitation gives at most one membership, whoever accepts it at once and
\* however often its member is removed again (ConsumeOrgInvite).  A sign-in that
\* listed it before it was accepted or revoked is apart: nothing locks the list.
InviteOnce == \A i \in Invites : grants[i] <= 1

\* Nothing belongs to an organization that is gone, whatever was under way when
\* it was deleted (DeleteOrg).
NoOrphans ==
    /\ \A o \in Orgs \ live : MembersOf(o) = {}
    /\ \A i \in Invites : inv[i].st \in Kept => inv[i].org \in live

\* Memberships come from one invitation each, and end with their organization.
InvitesSound == TypeOK /\ InviteOnce /\ NoOrphans

\* A magic link or an SSO state opens one session, and a state opens it in the
\* browser that asked for it (GetActiveMagicLinkToken, CallbackSSO).
OpensOnce == uses' # uses => \A s \in Slots : LET x == req[s].got IN
    x \in Links \cup States /\ uses'[x] # uses[x] =>
      /\ uses[x] = 0
      /\ x \in States => req[s].by = begun[x]

\* A cookie names an organization its user was a member of when it was looked up
\* (GetFirstOrgForUser, SelectOrg, ConsumeOrgInvite), and is one of still unless the
\* members of that organization changed before the cookie was set; and a spent link
\* has made its user.
LandsInMembership ==
    /\ \A s \in Slots : LET c == session'[req[s].by] IN
         Completes(s, {"cookie"}) /\ c # session[req[s].by] /\ c.org # None =>
           role[c.org][c.user] # "none" \/ ~req[s].fresh
    /\ \A l \in Links : link'[l].st = "used" => epoch'[link[l].user] # None

\* What a step may never do in handing out a session: OpensOnce and
\* LandsInMembership.
SessionsEarned == [][OpensOnce /\ LandsInMembership]_vars

\* After a logout no browser acts with a session opened before it, nor with one
\* that a request of such a session has set since (SessionSigner.Issue and the
\* epoch of the principal).
LogoutEndsAll == \A b \in Browsers : b \in void => ~Authenticated(b)

=============================================================================
