---------------------------- MODULE SignInProofs ----------------------------
(***************************************************************************)
(* Proofs about SignIn and Membership, for any users, browsers, orgs,      *)
(* links, invitations and SSO states, and any number of requests, as many  *)
(* at a time as there are slots.                                           *)
(*                                                                         *)
(* The inductive invariant is IInv.  RequestsSound says what a request has *)
(* in hand by what it is about to do: a principal no younger than its      *)
(* user's row, an organization that was created, a link or a state nobody  *)
(* has used, and, as long as it is fresh, roles that still hold (for a     *)
(* cookie about to be set, the membership that was looked up).             *)
(* Exclusive gives each link and state to one request.  EpochsSound ties   *)
(* the sessions and requests a logout has ended to an epoch below their    *)
(* user's; LinksSound and GrantsSound tie the history to what is stored.   *)
(*                                                                         *)
(* A step of Membership is shown to be MemberGood, and every step          *)
(* StepGood: IInv again, and the two action properties.                    *)
(***************************************************************************)
EXTENDS SignIn, FiniteSetTheorems, WellFoundedInduction, TLAPS

-----------------------------------------------------------------------------
(* The inductive invariant. *)

SessionOps == {"setrole", "demote", "demoting", "remove", "removeowner", "removing",
               "transferring", "deleteorg", "key", "invite", "accept"}

\* What is left of a request that has to set a cookie.
CookieOps == {"next", "cookie"}

\* Principals as old as their user's row or older, of users that exist.
Issued == {c \in Principals : epoch[c.user] # None /\ c.epoch <= epoch[c.user]}

\* Those that a logout has ended.
Ended == {c \in Issued : c.epoch < epoch[c.user]}

\* Those of a sign-in: the user may be about to be created.
Tickets == Issued \cup {c \in Principals : epoch[c.user] = None /\ c.epoch = 0}

\* What a request has in hand, by what it is about to do.
Sounds ==
    {r \in Requests :
        /\ r.op = "idle" => r = Idle
        /\ r.op \in SessionOps => /\ r.by \in Browsers /\ r.p \in Issued /\ r.org \in born
                                  /\ r.op \notin {"deleteorg", "key"} => r.who \in Users
        /\ r.op \in {"setrole", "demote", "demoting", "invite"} => r.arg \in {"admin", "member"}
        /\ r.op = "transferring" => r.who # r.p.user
        /\ r.op = "accept" => r.got \in Invites /\ r.who = r.p.user
        /\ r.op \in CookieOps => r.by \in Browsers /\ r.p \in Issued /\ r.org \in born \cup {None}
        /\ r.op = "addowner" => r.org \in born /\ r.who \in Users /\ r.p = NoSession
        /\ r.op \in SignIns => /\ r.by \in Browsers /\ r.who \in Users /\ r.org = None
                               /\ r.p \in Tickets /\ r.p.user = r.who
                               /\ \A i \in r.invs : inv[i] # NoInvite
                               /\ r.arg = "minting" => r.invs = {}
        /\ r.op = "verify" => r.got \in Links /\ link[r.got].st = "active" /\ link[r.got].user = r.who
        /\ r.op = "callback" => r.got \in States /\ ~sso[r.got] /\ begun[r.got] = r.by /\ uses[r.got] = 0
        /\ r.op \notin SignIns \cup {"accept"} => r.got = None
        /\ r.org # None => \A u \in r.rows : role[r.org][u] # "none"}

\* Organizations with more than one owner.
Spared == {o \in Orgs : NotLast(o)}

\* What a request has read is true as long as it is fresh.
Timely ==
    {r \in Requests : r.fresh =>
        /\ r.op \in {"setrole", "remove"} => role[r.org][r.who] # "owner"
        /\ r.op \in {"demoting", "removing"} => r.org \in Spared
        /\ r.op = "transferring" => r.who \in r.rows
        /\ r.op = "cookie" /\ r.org # None => role[r.org][r.p.user] # "none"}

RequestsSound == \A s \in Slots : req[s] \in Sounds /\ req[s] \in Timely

\* A link or a state is in the hands of one request.
Exclusive ==
    \A s, x \in Slots : s # x /\ req[s].got \in Links \cup States => req[s].got # req[x].got

\* A logout ends what was there before it.
EpochsSound ==
    /\ \A b \in Browsers : session[b] # NoSession => session[b] \in Issued
    /\ \A b \in Browsers : b \in void /\ session[b] # NoSession => session[b] \in Ended
    /\ \A s \in Slots : s \in void => req[s].p \in Ended

LinksSound ==
    /\ \A l \in Links : link[l].st # "used" => uses[l] = 0
    /\ \A l \in Links : link[l].st = "used" => epoch[link[l].user] # None
    /\ \A x \in States : sso[x] \/ begun[x] = None => uses[x] = 0
    /\ \A x \in States : sso[x] => begun[x] # None
    /\ \A b \in Browsers : ssoCookie[b] # None => begun[ssoCookie[b]] = b

GrantsSound ==
    \A i \in Invites : IF inv[i].st \in {"free", "pending", "expired"} THEN grants[i] = 0 ELSE grants[i] <= 1

IInv == TypeOK /\ NoOrphans /\ RequestsSound /\ Exclusive /\ EpochsSound /\ LinksSound /\ GrantsSound

-----------------------------------------------------------------------------
(* Constants and operators. *)

LEMMA NoSessionApart == NoSession \notin Principals /\ NoSession.user = None /\ Idle.p = NoSession
  BY NoneApart DEF NoSession, Principals, Idle

LEMMA IdleSound == Idle \in Requests /\ Idle \in Sounds /\ Idle \in Timely
<1>1. Idle \in Requests
  BY DEF Idle, Requests, Roles
<1>2. Idle \in Sounds
  BY <1>1 DEF Sounds, Idle, SessionOps, CookieOps, SignIns
<1>3. Idle \in Timely
  BY <1>1 DEF Timely, Idle
<1>. QED
  BY <1>1, <1>2, <1>3

\* There is a first org to create.
LEMMA NextOrgNew == ASSUME born \subseteq Orgs, Orgs # born PROVE NextOrg \in Orgs /\ NextOrg \notin born
<1>. DEFINE U == Orgs \ born
<1>1. U \subseteq Nat /\ U # {}
  BY OrgNumbers
<1>2. IsWellFoundedOn(OpToRel(<, Nat), Nat)
  BY NatLessThanWellFounded
<1>3. PICK x \in U : \A y \in U : ~(<<y, x>> \in OpToRel(<, Nat))
  <2>. HIDE DEF U
  <2>. QED
    BY <1>1, <1>2, WFMin
<1>4. \A y \in U : x <= y
  <2>. SUFFICES ASSUME NEW y \in U, y < x PROVE FALSE
    BY <1>1
  <2>1. <<y, x>> \in Nat \X Nat
    BY <1>1
  <2>2. <<y, x>>[1] < <<y, x>>[2]
    OBVIOUS
  <2>3. <<y, x>> \in OpToRel(<, Nat)
    BY <2>1, <2>2, Zenon DEF OpToRel
  <2>. QED
    BY <1>3, <2>3
<1>5. \E o \in U : \A n \in U : o <= n
  BY <1>4
<1>6. NextOrg \in U
  BY <1>5 DEF NextOrg
<1>. QED
  BY <1>6

\* A user's epoch is never taken back.
EpochsGrow ==
    \A u \in Users : IF epoch[u] = None THEN epoch'[u] \in {None, 0}
                     ELSE epoch'[u] # None /\ epoch'[u] >= epoch[u]

LEMMA EpochFrame ==
    ASSUME epoch \in [Users -> Nat \cup {None}], epoch' \in [Users -> Nat \cup {None}], EpochsGrow
    PROVE  Issued \subseteq Issued' /\ Ended \subseteq Ended' /\ Tickets \subseteq Tickets'
<1>1. ASSUME NEW c \in Principals
      PROVE  /\ c.user \in Users /\ c.epoch \in Nat
             /\ epoch[c.user] # None => epoch[c.user] \in Nat
             /\ epoch'[c.user] # None => epoch'[c.user] \in Nat
  BY DEF Principals
<1>2. Issued \subseteq Issued'
  BY <1>1 DEF Issued, EpochsGrow
<1>3. Ended \subseteq Ended'
  BY <1>1, <1>2 DEF Issued, Ended, EpochsGrow
<1>4. Tickets \subseteq Tickets'
  <2>. SUFFICES ASSUME NEW c \in Tickets PROVE c \in Tickets'
    OBVIOUS
  <2>1. CASE c \in Issued
    BY <1>2, <2>1 DEF Tickets
  <2>2. CASE c \notin Issued
    <3>1. c \in Principals /\ epoch[c.user] = None /\ c.epoch = 0
      BY <2>2 DEF Tickets
    <3>2. epoch'[c.user] \in {None, 0}
      BY <1>1, <3>1 DEF EpochsGrow
    <3>. QED
      BY <3>1, <3>2, NoneApart DEF Tickets, Issued
  <2>. QED
    BY <2>1, <2>2
<1>. QED
  BY <1>2, <1>3, <1>4

\* A request that a step leaves alone.
LEMMA SoundFrame ==
    ASSUME TypeOK, TypeOK', EpochsGrow, born \subseteq born',
           \A i \in Invites : inv[i] # NoInvite => inv'[i] # NoInvite,
           NEW r \in Sounds,
           r.op = "verify" => link'[r.got] = link[r.got],
           r.op = "callback" => /\ sso'[r.got] = sso[r.got] /\ begun'[r.got] = begun[r.got]
                                /\ uses'[r.got] = uses[r.got],
           r.org # None => \A u \in r.rows : role'[r.org][u] # "none"
    PROVE  r \in Sounds'
<1>1. Issued \subseteq Issued' /\ Tickets \subseteq Tickets'
  BY EpochFrame DEF TypeOK
<1>2. r \in Requests /\ r.invs \subseteq Invites
  BY DEF Sounds, Requests
<1>. QED
  BY <1>1, <1>2 DEF Sounds

LEMMA SparedFrame ==
    ASSUME NEW o \in Spared, role'[o] = role[o] PROVE o \in Spared'
<1>1. {u \in Users : role'[o][u] = "owner"} = {u \in Users : role[o][u] = "owner"}
  OBVIOUS
<1>. QED
  BY <1>1 DEF Spared, NotLast, Owners

LEMMA TimelyFrame ==
    ASSUME TypeOK, NEW r \in Sounds, r \in Timely, r.org # None => role'[r.org] = role[r.org]
    PROVE  r \in Timely'
<1>1. r.op \in SessionOps => r.org \in Orgs /\ r.org # None
  BY NoneApart DEF Sounds, TypeOK
<1>2. r.org \in Spared /\ r.org # None => r.org \in Spared'
  BY SparedFrame
<1>. QED
  BY <1>1, <1>2 DEF Timely, SessionOps

-----------------------------------------------------------------------------
(* Types of what the actions are made of. *)

RoleTable == [Orgs -> [Users -> Roles]]

LEMMA ArrivesType == ASSUME TypeOK, Arrives PROVE started' \in 0..MaxRequests
  BY RequestBound DEF TypeOK, Arrives

LEMMA OpenType ==
    ASSUME TypeOK, NEW s \in Slots, NEW r \in Requests, Open(s, r)
    PROVE  /\ req' \in [Slots -> Requests] /\ started' \in 0..MaxRequests
           /\ req[s] = Idle /\ req'[s] = r /\ \A x \in Slots \ {s} : req'[x] = req[x]
  BY ArrivesType DEF TypeOK, Open

LEMMA AnsweredType ==
    ASSUME TypeOK, NEW s \in Slots, Answered(s)
    PROVE  /\ req' \in [Slots -> Requests]
           /\ req'[s] = Idle /\ \A x \in Slots \ {s} : req'[x] = req[x]
  BY IdleSound DEF TypeOK, Answered

\* SetRoles, for each request: answered, left alone or told that it is out of date.
Staled(r, f) == [r EXCEPT !.fresh = FALSE, !.rows = {u \in @ : f[r.org][u] # "none"}]

LEMMA StaledType ==
    ASSUME NEW r \in Requests, NEW f
    PROVE  /\ Staled(r, f) \in Requests
           /\ Staled(r, f).op = r.op /\ Staled(r, f).by = r.by /\ Staled(r, f).p = r.p
           /\ Staled(r, f).org = r.org /\ Staled(r, f).who = r.who /\ Staled(r, f).arg = r.arg
           /\ Staled(r, f).got = r.got /\ Staled(r, f).invs = r.invs
           /\ Staled(r, f).rows = {u \in r.rows : f[r.org][u] # "none"}
           /\ ~Staled(r, f).fresh /\ Staled(r, f) # Idle
<1>1. Staled(r, f).fresh = FALSE
  BY Zenon DEF Staled, Requests
<1>2. Idle.fresh = TRUE
  BY Zenon DEF Idle
<1>3. Staled(r, f) # Idle
  BY <1>1, <1>2, Zenon
<1>4. {u \in r.rows : f[r.org][u] # "none"} \in SUBSET Users
  BY DEF Requests
<1>5. Staled(r, f) \in Requests
  BY <1>4 DEF Staled, Requests
<1>. QED
  BY <1>1, <1>3, <1>5 DEF Staled, Requests

RolesSet(s, r, f) ==
    /\ role' = f /\ req' \in [Slots -> Requests]
    /\ \A x \in Slots : x = s => req'[x] = r
    /\ \A x \in Slots : x # s /\ (req[x].org = None \/ f[req[x].org] = role[req[x].org])
                        => req'[x] = req[x]
    /\ \A x \in Slots : x # s /\ req[x].org # None /\ f[req[x].org] # role[req[x].org]
                        => req'[x] = Staled(req[x], f)

LEMMA RolesType ==
    ASSUME TypeOK, NEW s, NEW r \in Requests, NEW f \in RoleTable, SetRoles(s, r, f)
    PROVE  RolesSet(s, r, f)
<1>0. req \in [Slots -> Requests] /\ role' = f
  BY DEF TypeOK, SetRoles
<1>1. ASSUME NEW x \in Slots
      PROVE  req'[x] = IF x = s THEN r
                       ELSE IF req[x].org # None /\ f[req[x].org] # role[req[x].org] THEN Staled(req[x], f)
                       ELSE req[x]
  BY DEF SetRoles, Staled
<1>2. \A x \in Slots : req'[x] \in Requests
  BY <1>0, <1>1, StaledType
<1>3. req' \in [Slots -> Requests]
  BY <1>2 DEF SetRoles
<1>. QED
  BY <1>0, <1>1, <1>3 DEF RolesSet

LEMMA MembersType ==
    ASSUME TypeOK, NEW s, NEW r, NEW o \in Orgs, NEW g \in [Users -> Roles], SetMembers(s, r, o, g)
    PROVE  /\ [role EXCEPT ![o] = g] \in RoleTable /\ SetRoles(s, r, [role EXCEPT ![o] = g])
           /\ [role EXCEPT ![o] = g][o] = g /\ \A x \in Orgs \ {o} : [role EXCEPT ![o] = g][x] = role[x]
  BY DEF TypeOK, SetMembers, RoleTable

\* A cookie made of a principal.
Cookie(p, o) == [p EXCEPT !.org = o]

LEMMA CookieType ==
    ASSUME NEW p \in Principals, NEW o \in Orgs \cup {None}
    PROVE  /\ Cookie(p, o) \in Principals
           /\ Cookie(p, o).org = o /\ Cookie(p, o).user = p.user /\ Cookie(p, o).epoch = p.epoch
           /\ p \in Issued => Cookie(p, o) \in Issued
           /\ p \in Ended => Cookie(p, o) \in Ended
<1>1. Cookie(p, o) = [user |-> p.user, org |-> o, epoch |-> p.epoch]
  BY DEF Principals, Cookie
<1>2. Cookie(p, o) \in Principals /\ Cookie(p, o).org = o /\ Cookie(p, o).user = p.user
      /\ Cookie(p, o).epoch = p.epoch
  BY <1>1 DEF Principals
<1>. QED
  BY <1>2 DEF Issued, Ended

\* The cookie that a browser gets.
Gets(b, p, o) == session' = [session EXCEPT ![b] = Cookie(p, o)]

LEMMA GetsType ==
    ASSUME TypeOK, NEW b \in Browsers, NEW p \in Principals, NEW o \in Orgs \cup {None}, Gets(b, p, o)
    PROVE  /\ session' \in [Browsers -> Principals \cup {NoSession}] /\ session'[b] = Cookie(p, o)
           /\ \A x \in Browsers \ {b} : session'[x] = session[x]
  BY CookieType DEF TypeOK, Gets

\* The session of a caller, and the record of the request.
LEMMA CallerIssued ==
    ASSUME TypeOK, NEW b \in Browsers, Authenticated(b)
    PROVE  session[b] \in Issued /\ session[b] \in Principals /\ session[b].user \in Users
<1>1. session[b] \in Principals
  BY NoSessionApart DEF TypeOK, Authenticated
<1>2. session[b].user \in Users /\ session[b].epoch \in Nat
  BY <1>1 DEF Principals
<1>. QED
  BY <1>1, <1>2, NoneApart DEF Authenticated, Issued

LEMMA RequestType ==
    ASSUME TypeOK, NEW b \in Browsers, Authenticated(b), NEW o \in born, NEW t \in Users \cup {None},
           NEW a \in Roles, NEW op \in SessionOps
    PROVE  LET r == Request(op, b, o, t, a)
           IN  /\ r \in Requests
               /\ r.op = op /\ r.by = b /\ r.p = session[b] /\ r.org = o /\ r.who = t /\ r.arg = a
               /\ r.rows = {} /\ r.got = None /\ r.invs = {} /\ r.fresh
<1>1. Request(op, b, o, t, a).fresh = TRUE
  BY Zenon DEF Request, Idle
<1>2. session[b] \in Principals /\ o \in Orgs
  BY CallerIssued DEF TypeOK
<1>3. Request(op, b, o, t, a) \in Requests
  BY <1>2, IdleSound DEF Request, Requests, SessionOps
<1>. QED
  BY <1>1, <1>3 DEF Request, Idle

-----------------------------------------------------------------------------
(* What a step leaves as it is. *)

\* A request is answered, left alone, or told that what it has read is out of date.
Goes(x) ==
    \/ req'[x] = Idle
    \/ req'[x] = req[x] /\ (req[x].org # None => role'[req[x].org] = role[req[x].org])
    \/ req'[x] = Staled(req[x], role') /\ req[x].org # None

LEMMA GoesSound ==
    ASSUME TypeOK, TypeOK', RequestsSound, EpochsGrow, born \subseteq born',
           \A i \in Invites : inv[i] # NoInvite => inv'[i] # NoInvite,
           NEW x \in Slots, Goes(x),
           req'[x].op = "verify" => link'[req'[x].got] = link[req'[x].got],
           req'[x].op = "callback" => /\ sso'[req'[x].got] = sso[req'[x].got]
                                      /\ begun'[req'[x].got] = begun[req'[x].got]
                                      /\ uses'[req'[x].got] = uses[req'[x].got]
    PROVE  req'[x] \in Sounds' /\ req'[x] \in Timely'
<1>0. req[x] \in Sounds /\ req[x] \in Timely /\ req[x] \in Requests
  BY DEF RequestsSound, TypeOK
<1>1. CASE req'[x] = Idle
  <2>1. Idle \in Requests
    BY IdleSound
  <2>2. Idle \in Sounds'
    BY <2>1 DEF Sounds, Idle, SessionOps, CookieOps, SignIns
  <2>3. Idle \in Timely'
    BY <2>1 DEF Timely, Idle
  <2>. QED
    BY <1>1, <2>2, <2>3
<1>2. CASE req'[x] = req[x] /\ (req[x].org # None => role'[req[x].org] = role[req[x].org])
  <2>1. req[x].org # None => \A u \in req[x].rows : role'[req[x].org][u] # "none"
    BY <1>0, <1>2 DEF Sounds
  <2>2. req[x] \in Sounds'
    BY <1>0, <1>2, <2>1, SoundFrame
  <2>3. req[x] \in Timely'
    BY <1>0, <1>2, TimelyFrame
  <2>. QED
    BY <1>2, <2>2, <2>3
<1>3. CASE req'[x] = Staled(req[x], role') /\ req[x].org # None
  <2>. DEFINE n == Staled(req[x], role')
  <2>1. /\ n \in Requests /\ n # Idle /\ ~n.fresh
        /\ n.op = req[x].op /\ n.by = req[x].by /\ n.p = req[x].p /\ n.org = req[x].org
        /\ n.who = req[x].who /\ n.arg = req[x].arg /\ n.got = req[x].got /\ n.invs = req[x].invs
        /\ n.rows = {u \in req[x].rows : role'[req[x].org][u] # "none"}
    BY <1>0, StaledType
  <2>. HIDE DEF n
  <2>2. req[x].op \notin SignIns \cup {"idle"}
    BY <1>0, <1>3 DEF Sounds, Idle
  <2>3. Issued \subseteq Issued'
    BY EpochFrame DEF TypeOK
  <2>4. n \in Sounds'
    BY <1>0, <2>1, <2>2, <2>3 DEF Sounds, SignIns
  <2>5. n \in Timely'
    BY <2>1 DEF Timely
  <2>. QED
    BY <1>3, <2>4, <2>5 DEF n
<1>. QED
  BY <1>1, <1>2, <1>3 DEF Goes

\* The requests when the members change: the one in slot s goes on as r.
GoOn(s, r) ==
    /\ req' \in [Slots -> Requests]
    /\ \A x \in Slots : x = s => req'[x] = r
    /\ \A x \in Slots : x # s => /\ Goes(x)
                                 /\ req'[x].p = req[x].p /\ req'[x].got = req[x].got
                                 /\ req'[x].op = req[x].op
                                 /\ req'[x] = Idle <=> req[x] = Idle

LEMMA RolesGo ==
    ASSUME TypeOK, RequestsSound, NEW s, NEW r \in Requests, NEW f \in RoleTable, SetRoles(s, r, f)
    PROVE  role' = f /\ GoOn(s, r)
<1>0. RolesSet(s, r, f)
  BY RolesType
<1>1. /\ role' = f /\ req' \in [Slots -> Requests] /\ \A x \in Slots : x = s => req'[x] = r
      /\ \A x \in Slots : x # s /\ (req[x].org = None \/ f[req[x].org] = role[req[x].org])
                          => req'[x] = req[x]
      /\ \A x \in Slots : x # s /\ req[x].org # None /\ f[req[x].org] # role[req[x].org]
                          => req'[x] = Staled(req[x], f)
  BY <1>0 DEF RolesSet
<1>2. ASSUME NEW x \in Slots, x # s
      PROVE  /\ Goes(x)
             /\ req'[x].p = req[x].p /\ req'[x].got = req[x].got /\ req'[x].op = req[x].op
             /\ req'[x] = Idle <=> req[x] = Idle
  <2>1. req[x] \in Requests
    BY DEF TypeOK
  <2>3. CASE req[x].org = None \/ f[req[x].org] = role[req[x].org]
    <3>1. req'[x] = req[x]
      BY <1>1, <1>2, <2>3
    <3>. QED
      BY <1>1, <2>3, <3>1 DEF Goes
  <2>4. CASE req[x].org # None /\ f[req[x].org] # role[req[x].org]
    <3>1. req'[x] = Staled(req[x], f)
      BY <1>1, <1>2, <2>4
    <3>2. req[x] # Idle
      BY <2>4 DEF Idle
    <3>3. req'[x] # Idle /\ req'[x].p = req[x].p /\ req'[x].got = req[x].got /\ req'[x].op = req[x].op
      BY <2>1, <3>1, StaledType
    <3>. QED
      BY <1>1, <2>4, <3>1, <3>2, <3>3 DEF Goes
  <2>. QED
    BY <2>3, <2>4
<1>. QED
  BY <1>1, <1>2 DEF GoOn

LEMMA AnsweredGo ==
    ASSUME TypeOK, NEW s \in Slots, Answered(s), UNCHANGED role
    PROVE  /\ req' \in [Slots -> Requests] /\ \A x \in Slots : Goes(x)
           /\ req'[s] = Idle /\ \A x \in Slots \ {s} : req'[x] = req[x]
  BY AnsweredType DEF Goes

\* A link or a state stays with the request that has it.
LEMMA ExclusiveFrame ==
    ASSUME Exclusive, \A x \in Slots : req'[x].got = req[x].got \/ req'[x].got \notin Links \cup States
    PROVE  Exclusive'
  BY DEF Exclusive

LEMMA LinksFrame ==
    ASSUME TypeOK, LinksSound, EpochsGrow, UNCHANGED <<link, uses, sso, ssoCookie, begun>>
    PROVE  LinksSound'
<1>1. \A l \in Links : link[l].st = "used" => link[l].user \in Users
  BY DEF TypeOK, NoLink
<1>. QED
  BY <1>1 DEF LinksSound, EpochsGrow

LEMMA GrantsFrame ==
    ASSUME TypeOK, GrantsSound, UNCHANGED grants,
           \A i \in Invites : inv'[i] = inv[i] \/ inv'[i].st = "gone"
                              \/ (inv[i].st \in {"free", "pending", "expired"}
                                  /\ inv'[i].st \in {"free", "pending", "expired"})
    PROVE  GrantsSound'
  BY DEF TypeOK, GrantsSound

\* Sessions and requests keep their principal, or get one that is sound.
LEMMA EpochsFrame ==
    ASSUME TypeOK, TypeOK', EpochsSound, EpochsGrow,
           \A b \in Browsers : \/ session'[b] = session[b] /\ (b \in void' => b \in void)
                               \/ session'[b] = NoSession
                               \/ session'[b] \in Issued' /\ (b \in void' => session'[b] \in Ended'),
           \A s \in Slots : s \in void' => (s \in void /\ req'[s].p = req[s].p) \/ req'[s].p \in Ended'
    PROVE  EpochsSound'
<1>1. Issued \subseteq Issued' /\ Ended \subseteq Ended'
  BY EpochFrame DEF TypeOK
<1>. QED
  BY <1>1 DEF EpochsSound

\* Nobody who acts has been logged out, and no slot at rest.
LEMMA Unvoid ==
    ASSUME TypeOK, EpochsSound
    PROVE  /\ \A b \in Browsers : Authenticated(b) => b \notin void
           /\ \A s \in Slots : req[s] = Idle => s \notin void
           /\ LogoutEndsAll
<1>1. ASSUME NEW b \in Browsers, Authenticated(b), b \in void PROVE FALSE
  <2>1. session[b] # NoSession /\ epoch[session[b].user] = session[b].epoch
    BY <1>1, NoSessionApart DEF Authenticated
  <2>2. session[b] \in Ended
    BY <1>1, <2>1 DEF EpochsSound
  <2>3. session[b].epoch < session[b].epoch /\ session[b].epoch \in Nat
    BY <2>1, <2>2 DEF Ended, Issued, Principals
  <2>. QED
    BY <2>3
<1>2. ASSUME NEW s \in Slots, req[s] = Idle, s \in void PROVE FALSE
  BY <1>2, NoSessionApart DEF EpochsSound, Ended, Issued
<1>. QED
  BY <1>1, <1>2 DEF LogoutEndsAll

-----------------------------------------------------------------------------
(* The steps of Membership. *)

MemberTypes ==
    /\ live \subseteq born /\ born \subseteq Orgs /\ role \in RoleTable
    /\ key \in [Keys -> live \cup {None}]
    /\ session \in [Browsers -> Principals \cup {NoSession}]
    /\ req \in [Slots -> Requests]
    /\ started \in 0..MaxRequests

Vacant == \A o \in Orgs \ live : \A u \in Users : role[o][u] = "none"

\* Only Issue sets a cookie.
CookiesSet == session' = session \/ \E s \in Slots : Issue(s)

MemberGood ==
    /\ MemberTypes' /\ Vacant' /\ epoch' = epoch /\ born \subseteq born'
    /\ \A x \in Slots : Goes(x) \/ (req'[x] \in Sounds' /\ req'[x] \in Timely')
    /\ \A x \in Slots : req'[x].got = req[x].got \/ req'[x].got = None
    /\ \A x \in Slots : req[x] # Idle /\ req'[x] # Idle => req'[x].p = req[x].p
    /\ CookiesSet
    /\ OwnerKept /\ RoleKept

LEMMA VacantNow == ASSUME TypeOK, NoOrphans PROVE Vacant
  BY DEF NoOrphans, Vacant, MembersOf

\* Owners enough for one to go.
LEMMA SparedTwo ==
    ASSUME NEW o \in Spared, NEW u PROVE \E v \in Users \ {u} : role[o][v] = "owner"
<1>. SUFFICES ASSUME \A v \in Users \ {u} : role[o][v] # "owner" PROVE FALSE
  OBVIOUS
<1>. DEFINE S == Owners(o)
<1>1. S \subseteq {u} /\ S \subseteq Users /\ Cardinality(S) > 1
  BY DEF Owners, Spared, NotLast
<1>. HIDE DEF S
<1>2. IsFiniteSet({u}) /\ Cardinality({u}) = 1
  BY FS_Singleton
<1>3. Cardinality(S) <= Cardinality({u}) /\ Cardinality(S) \in Nat
  BY <1>1, <1>2, FS_Subset, FS_CardinalityType
<1>. QED
  BY <1>1, <1>2, <1>3

\* A step that leaves the members alone.
LEMMA RolesKept == ASSUME role' = role PROVE OwnerKept /\ RoleKept
  BY DEF OwnerKept, RoleKept, Owners

\* A request comes in: only the slots, and perhaps the organizations, change.
LEMMA OpenGood ==
    ASSUME IInv, NEW s \in Slots, NEW r \in Requests, Open(s, r), r.got = None,
           r \in Sounds', r \in Timely',
           live \subseteq live', born \subseteq born', live' \subseteq born', born' \subseteq Orgs,
           UNCHANGED <<role, epoch, key, session>>
    PROVE  MemberGood
<1>0. TypeOK /\ NoOrphans
  BY DEF IInv
<1>1. /\ req' \in [Slots -> Requests] /\ started' \in 0..MaxRequests
      /\ req[s] = Idle /\ req'[s] = r /\ \A x \in Slots \ {s} : req'[x] = req[x]
  BY <1>0, OpenType
<1>2. MemberTypes'
  BY <1>0, <1>1 DEF TypeOK, MemberTypes, RoleTable
<1>3. Vacant'
  BY <1>0, VacantNow DEF Vacant
<1>4. \A x \in Slots : Goes(x) \/ (req'[x] \in Sounds' /\ req'[x] \in Timely')
  BY <1>1 DEF Goes
<1>5. CookiesSet
  BY DEF CookiesSet
<1>6. OwnerKept /\ RoleKept
  BY RolesKept
<1>. QED
  BY <1>1, <1>2, <1>3, <1>4, <1>5, <1>6 DEF MemberGood

\* A request is answered and the members stay.
LEMMA AnswerGood ==
    ASSUME IInv, NEW s \in Slots, Answered(s), key' \in [Keys -> live \cup {None}],
           UNCHANGED <<live, born, role, epoch, session, started>>
    PROVE  MemberGood
<1>0. TypeOK /\ NoOrphans
  BY DEF IInv
<1>1. /\ req' \in [Slots -> Requests] /\ \A x \in Slots : Goes(x)
      /\ req'[s] = Idle /\ \A x \in Slots \ {s} : req'[x] = req[x]
  BY <1>0, AnsweredGo
<1>2. MemberTypes'
  BY <1>0, <1>1 DEF TypeOK, MemberTypes, RoleTable
<1>3. Vacant'
  BY <1>0, VacantNow DEF Vacant
<1>4. CookiesSet
  BY DEF CookiesSet
<1>5. OwnerKept /\ RoleKept
  BY RolesKept
<1>6. Idle.got = None
  BY DEF Idle
<1>. QED
  BY <1>1, <1>2, <1>3, <1>4, <1>5, <1>6 DEF MemberGood

\* Whatever a request is about exists, or existed.
LEMMA OrgBorn ==
    ASSUME TypeOK, RequestsSound, NEW x \in Slots, req[x].org # None PROVE req[x].org \in born
<1>1. req[x] \in Sounds /\ req[x] \in Requests
  BY DEF RequestsSound, TypeOK
<1>2. req[x].op \in SessionOps \cup CookieOps \cup SignIns \cup {"idle", "addowner"}
  BY <1>1 DEF Requests, SessionOps, CookieOps, SignIns
<1>. QED
  BY <1>1, <1>2 DEF Sounds, Idle

\* The slots stay as they are.
LEMMA AtOnceGood ==
    ASSUME IInv, UNCHANGED <<epoch, req>>, MemberTypes', Vacant', born \subseteq born',
           \A o \in born : role'[o] = role[o], CookiesSet, OwnerKept, RoleKept
    PROVE  MemberGood
<1>1. ASSUME NEW x \in Slots PROVE Goes(x)
  BY OrgBorn DEF IInv, Goes
<1>. QED
  BY <1>1 DEF MemberGood

\* A request that has done its work is over, or has to set a cookie.
MayFollow(s, r) == r = Idle \/ (s \in Slots /\ req[s].op \in SessionOps /\ r = AsksNext(req[s]))

Follows(s, r) ==
    /\ r \in Requests /\ r \in Sounds' /\ r \in Timely'
    /\ r.op \in {"idle", "next", "cookie"} /\ r.got = None /\ (r # Idle => r.p = req[s].p)

\* The members of o become g and the request in slot s goes on as r.
Members(s, r, o, g) ==
    /\ o \in Orgs /\ g \in [Users -> Roles] /\ SetMembers(s, r, o, g) /\ Follows(s, r)
    /\ live' \subseteq born' /\ born' = born /\ epoch' = epoch /\ session' = session
    /\ \A x \in Orgs \ live' : x \notin live \/ x = o
    /\ o \notin live' => \A u \in Users : g[u] = "none"
    /\ key' \in [Keys -> live' \cup {None}] /\ started' \in 0..MaxRequests

\* What may become of a member, and of the last owner.
MayGo(s, o, g) ==
    /\ \A u \in Users : role[o][u] # "none" /\ g[u] # role[o][u] =>
         /\ s \in Slots
         /\ req[s].op \in IF g[u] = "owner" THEN {"transferring"}
                          ELSE {"setrole", "demoting", "remove", "removing", "transferring", "deleteorg"}
    /\ (\E u \in Users : role[o][u] = "owner") /\ (\A u \in Users : g[u] # "owner") /\ o \in live' =>
         /\ s \in Slots /\ req[s].org = o /\ ~req[s].fresh
         /\ req[s].op \in {"setrole", "demoting", "remove", "removing", "transferring"}

\* A request under way, and what it knows.
LEMMA Underway ==
    ASSUME IInv, NEW s \in Slots, req[s].op \in SessionOps
    PROVE  /\ TypeOK /\ req[s] \in Requests /\ req[s] \in Sounds /\ req[s] \in Timely /\ req[s] # Idle
           /\ req[s].by \in Browsers /\ req[s].p \in Issued /\ req[s].p \in Principals /\ req[s].p.user \in Users
           /\ req[s].org \in born /\ req[s].org \in Orgs
           /\ req[s].op \notin {"deleteorg", "key"} => req[s].who \in Users
           /\ \A u \in req[s].rows : role[req[s].org][u] # "none"
<1>1. TypeOK /\ req[s] \in Sounds /\ req[s] \in Timely /\ req[s] \in Requests
  BY DEF IInv, RequestsSound, TypeOK
<1>2. req[s] # Idle
  BY DEF Idle, SessionOps
<1>3. /\ req[s].by \in Browsers /\ req[s].p \in Issued /\ req[s].org \in born
      /\ req[s].op \notin {"deleteorg", "key"} => req[s].who \in Users
  BY <1>1 DEF Sounds
<1>4. req[s].p \in Principals /\ req[s].p.user \in Users
  BY <1>3 DEF Issued, Principals
<1>5. req[s].org \in Orgs /\ req[s].org # None
  BY <1>1, <1>3, NoneApart DEF TypeOK
<1>6. \A u \in req[s].rows : role[req[s].org][u] # "none"
  BY <1>1, <1>5 DEF Sounds
<1>. QED
  BY <1>1, <1>2, <1>3, <1>4, <1>5, <1>6

LEMMA FollowSound ==
    ASSUME IInv, NEW s, NEW r, MayFollow(s, r), UNCHANGED epoch
    PROVE  Follows(s, r)
<1>1. CASE r = Idle
  <2>1. Idle \in Requests /\ Idle.op = "idle" /\ Idle.got = None
    BY IdleSound DEF Idle
  <2>2. Idle \in Sounds'
    BY <2>1 DEF Sounds, Idle, SessionOps, CookieOps, SignIns
  <2>3. Idle \in Timely'
    BY <2>1 DEF Timely, Idle
  <2>. QED
    BY <1>1, <2>1, <2>2, <2>3 DEF Follows
<1>2. CASE r # Idle
  <2>1. s \in Slots /\ req[s].op \in SessionOps /\ r = AsksNext(req[s])
    BY <1>2 DEF MayFollow
  <2>2. req[s].by \in Browsers /\ req[s].p \in Issued /\ req[s].p \in Principals
    BY <2>1, Underway
  <2>3. r \in Requests
    BY <2>1, <2>2, IdleSound DEF AsksNext, Requests
  <2>4. /\ r.op = "next" /\ r.by = req[s].by /\ r.p = req[s].p /\ r.org = None /\ r.got = None
    BY <2>1 DEF AsksNext, Idle
  <2>5. req[s].p \in Issued'
    BY <2>2 DEF Issued
  <2>6. r \in Sounds'
    BY <2>2, <2>3, <2>4, <2>5 DEF Sounds, SessionOps, CookieOps, SignIns
  <2>7. r \in Timely'
    BY <2>3, <2>4 DEF Timely
  <2>. QED
    BY <2>3, <2>4, <2>6, <2>7 DEF Follows
<1>. QED
  BY <1>1, <1>2

LEMMA MembersGood ==
    ASSUME IInv, NEW s, NEW r, NEW o, NEW g, Members(s, r, o, g), MayGo(s, o, g)
    PROVE  MemberGood
<1>0. TypeOK /\ NoOrphans /\ RequestsSound /\ o \in Orgs /\ g \in [Users -> Roles] /\ SetMembers(s, r, o, g)
  BY DEF IInv, Members
<1>a. /\ r \in Requests /\ r \in Sounds' /\ r \in Timely'
      /\ r.op \in {"idle", "next", "cookie"} /\ r.got = None /\ (r # Idle => r.p = req[s].p)
  BY DEF Members, Follows
<1>. DEFINE f == [role EXCEPT ![o] = g]
<1>1. f \in RoleTable /\ SetRoles(s, r, f) /\ f[o] = g /\ \A x \in Orgs \ {o} : f[x] = role[x]
  BY <1>0, MembersType
<1>. HIDE DEF f
<1>b. role' = f /\ GoOn(s, r)
  BY <1>0, <1>a, <1>1, RolesGo
<1>2. /\ role' = f /\ req' \in [Slots -> Requests]
      /\ \A x \in Slots : x = s => req'[x] = r
      /\ \A x \in Slots : x # s => /\ Goes(x)
                                   /\ req'[x].p = req[x].p /\ req'[x].got = req[x].got
                                   /\ req'[x].op = req[x].op
                                   /\ req'[x] = Idle <=> req[x] = Idle
  BY <1>b DEF GoOn
<1>3. role'[o] = g /\ \A x \in Orgs \ {o} : role'[x] = role[x]
  BY <1>1, <1>2
<1>5. MemberTypes'
  BY <1>0, <1>1, <1>2 DEF TypeOK, MemberTypes, Members
<1>6. Vacant'
  BY <1>0, <1>3, VacantNow DEF Vacant, Members
<1>7. CookiesSet
  BY DEF Members, CookiesSet
<1>8. OwnerKept
  <2>. SUFFICES ASSUME NEW x \in live, Owners(x) # {}, Owners(x)' = {}, x \in live'
                PROVE  \E t \in Slots : /\ Completes(t, {"setrole", "demoting", "remove", "removing", "transferring"})
                                        /\ req[t].org = x /\ ~req[t].fresh
    BY DEF OwnerKept
  <2>1. x \in Orgs
    BY <1>0 DEF TypeOK
  <2>2. \E u \in Users : role[x][u] = "owner"
    BY DEF Owners
  <2>3. \A u \in Users : role'[x][u] # "owner"
    BY DEF Owners
  <2>4. x = o /\ \A u \in Users : g[u] # "owner"
    BY <1>3, <2>1, <2>2, <2>3
  <2>5. /\ s \in Slots /\ req[s].org = o /\ ~req[s].fresh
        /\ req[s].op \in {"setrole", "demoting", "remove", "removing", "transferring"}
    BY <2>2, <2>4 DEF MayGo
  <2>. QED
    BY <1>a, <1>2, <2>4, <2>5 DEF Completes
<1>9. RoleKept
  <2>. SUFFICES ASSUME NEW x \in Orgs, NEW u \in Users, role[x][u] # "none", role'[x][u] # role[x][u]
                PROVE  \E t \in Slots : Completes(t, IF role'[x][u] = "owner" THEN {"transferring"}
                                    ELSE {"setrole", "demoting", "remove", "removing",
                                          "transferring", "deleteorg"})
    BY DEF RoleKept
  <2>1. x = o /\ g[u] # role[o][u] /\ role'[x][u] = g[u]
    BY <1>3
  <2>2. s \in Slots /\ req[s].op \in IF g[u] = "owner" THEN {"transferring"}
                          ELSE {"setrole", "demoting", "remove", "removing", "transferring", "deleteorg"}
    BY <2>1 DEF MayGo
  <2>. QED
    BY <1>a, <1>2, <2>1, <2>2 DEF Completes
<1>10. \A x \in Slots : Goes(x) \/ (req'[x] \in Sounds' /\ req'[x] \in Timely')
  BY <1>a, <1>2
<1>11. /\ \A x \in Slots : req'[x].got = req[x].got \/ req'[x].got = None
       /\ \A x \in Slots : req[x] # Idle /\ req'[x] # Idle => req'[x].p = req[x].p
  BY <1>a, <1>2
<1>. QED
  BY <1>5, <1>6, <1>7, <1>8, <1>9, <1>10, <1>11 DEF MemberGood, Members

\* A request of somebody who is signed in.
LEMMA CallerSound ==
    ASSUME IInv, NEW b \in Browsers, Authenticated(b), UNCHANGED <<role, epoch>>, born \subseteq born',
           NEW r \in Requests, r.op \in SessionOps \ {"accept"}, r.by = b, r.p = session[b],
           r.org \in born, r.got = None,
           r.op \notin {"deleteorg", "key"} => r.who \in Users,
           r.op \in {"setrole", "demote", "demoting", "invite"} => r.arg \in {"admin", "member"},
           r.op = "transferring" => r.who # r.p.user,
           \A u \in r.rows : role[r.org][u] # "none"
    PROVE  r \in Sounds'
<1>1. session[b] \in Issued
  BY CallerIssued DEF IInv
<1>2. session[b] \in Issued'
  BY <1>1 DEF Issued
<1>. QED
  BY <1>2 DEF Sounds, SessionOps, CookieOps, SignIns

LEMMA PatchMemberGood ==
    ASSUME IInv, NEW s \in Slots, NEW b \in Browsers, NEW o \in live, NEW t \in Users,
           NEW a \in Roles \ {"none"}, PatchMember(s, b, o, t, a)
    PROVE  MemberGood
<1>0. TypeOK /\ Authenticated(b) /\ o \in born /\ a \in {"admin", "member"} /\ a \in Roles
  BY DEF IInv, TypeOK, PatchMember, Roles
<1>. DEFINE op == IF role[o][t] = "owner" THEN "demote" ELSE "setrole"
            r == Request(op, b, o, t, a)
<1>1. op \in SessionOps /\ op \in {"demote", "setrole"} /\ (op = "setrole" => role[o][t] # "owner")
  BY DEF SessionOps
<1>2. Open(s, r) /\ UNCHANGED <<live, born, role, epoch, key, session>>
  BY DEF PatchMember
<1>. HIDE DEF op
<1>3. /\ r \in Requests
      /\ r.op = op /\ r.by = b /\ r.p = session[b] /\ r.org = o /\ r.who = t /\ r.arg = a
      /\ r.rows = {} /\ r.got = None /\ r.invs = {} /\ r.fresh
  BY <1>0, <1>1, RequestType
<1>. HIDE DEF r
<1>4. r \in Sounds'
  BY <1>0, <1>1, <1>2, <1>3, CallerSound
<1>5. r \in Timely'
  BY <1>1, <1>2, <1>3 DEF Timely
<1>. QED
  BY <1>0, <1>2, <1>3, <1>4, <1>5, OpenGood DEF TypeOK

LEMMA RemoveMemberGood ==
    ASSUME IInv, NEW s \in Slots, NEW b \in Browsers, NEW o \in live, NEW t \in Users,
           RemoveMember(s, b, o, t)
    PROVE  MemberGood
<1>0. TypeOK /\ Authenticated(b) /\ o \in born /\ "none" \in Roles
  BY DEF IInv, TypeOK, RemoveMember, Roles
<1>. DEFINE op == IF role[o][t] = "owner" THEN "removeowner" ELSE "remove"
            r == Request(op, b, o, t, "none")
<1>1. op \in SessionOps /\ op \in {"removeowner", "remove"} /\ (op = "remove" => role[o][t] # "owner")
  BY DEF SessionOps
<1>2. Open(s, r) /\ UNCHANGED <<live, born, role, epoch, key, session>>
  BY DEF RemoveMember
<1>. HIDE DEF op
<1>3. /\ r \in Requests
      /\ r.op = op /\ r.by = b /\ r.p = session[b] /\ r.org = o /\ r.who = t /\ r.arg = "none"
      /\ r.rows = {} /\ r.got = None /\ r.invs = {} /\ r.fresh
  BY <1>0, <1>1, RequestType
<1>. HIDE DEF r
<1>4. r \in Sounds'
  BY <1>0, <1>1, <1>2, <1>3, CallerSound
<1>5. r \in Timely'
  BY <1>1, <1>2, <1>3 DEF Timely
<1>. QED
  BY <1>0, <1>2, <1>3, <1>4, <1>5, OpenGood DEF TypeOK

LEMMA TransferOwnershipGood ==
    ASSUME IInv, NEW s \in Slots, NEW b \in Browsers, NEW o \in live, NEW t \in Users,
           TransferOwnership(s, b, o, t)
    PROVE  MemberGood
<1>0. /\ TypeOK /\ Authenticated(b) /\ o \in born /\ "owner" \in Roles
      /\ "transferring" \in SessionOps /\ t \in MembersOf(o) /\ MembersOf(o) \in SUBSET Users
      /\ t # session[b].user
  BY DEF IInv, TypeOK, TransferOwnership, Roles, SessionOps, MembersOf
<1>. DEFINE q == Request("transferring", b, o, t, "owner")
            r == [q EXCEPT !.rows = MembersOf(o)]
<1>2. Open(s, r) /\ UNCHANGED <<live, born, role, epoch, key, session>>
  BY DEF TransferOwnership
<1>3. /\ q \in Requests
      /\ q.op = "transferring" /\ q.by = b /\ q.p = session[b] /\ q.org = o /\ q.who = t /\ q.arg = "owner"
      /\ q.rows = {} /\ q.got = None /\ q.invs = {} /\ q.fresh
  BY <1>0, RequestType
<1>. HIDE DEF q
<1>4. /\ r \in Requests /\ r.op = "transferring" /\ r.by = b /\ r.p = session[b] /\ r.org = o /\ r.who = t
      /\ r.rows = MembersOf(o) /\ r.got = None
  BY <1>0, <1>3 DEF Requests
<1>. HIDE DEF r
<1>5. r \in Sounds'
  <2>1. \A u \in r.rows : role[r.org][u] # "none"
    BY <1>4 DEF MembersOf
  <2>. QED
    BY <1>0, <1>2, <1>4, <2>1, CallerSound
<1>6. r \in Timely'
  BY <1>0, <1>2, <1>4 DEF Timely
<1>. QED
  BY <1>0, <1>2, <1>4, <1>5, <1>6, OpenGood DEF TypeOK

LEMMA DeleteOrgGood ==
    ASSUME IInv, NEW s \in Slots, NEW b \in Browsers, NEW o \in live,
           DeleteOrg(s, b, o) \/ CreateAPIKey(s, b, o)
    PROVE  MemberGood
<1>0. TypeOK /\ Authenticated(b) /\ o \in born /\ "none" \in Roles
  BY DEF IInv, TypeOK, DeleteOrg, CreateAPIKey, Roles
<1>1. PICK op \in {"deleteorg", "key"} : /\ Open(s, Request(op, b, o, None, "none"))
                                         /\ UNCHANGED <<live, born, role, epoch, key, session>>
  BY DEF DeleteOrg, CreateAPIKey
<1>. DEFINE r == Request(op, b, o, None, "none")
<1>2. op \in SessionOps
  BY DEF SessionOps
<1>3. /\ r \in Requests
      /\ r.op = op /\ r.by = b /\ r.p = session[b] /\ r.org = o /\ r.who = None /\ r.arg = "none"
      /\ r.rows = {} /\ r.got = None /\ r.invs = {} /\ r.fresh
  BY <1>0, <1>2, RequestType
<1>4. Open(s, r)
  BY <1>1
<1>. HIDE DEF r
<1>5. r \in Sounds'
  BY <1>0, <1>1, <1>2, <1>3, CallerSound
<1>6. r \in Timely'
  BY <1>1, <1>3 DEF Timely
<1>. QED
  BY <1>0, <1>1, <1>3, <1>4, <1>5, <1>6, OpenGood DEF TypeOK

LEMMA RunOrgCreateGood ==
    ASSUME IInv, NEW s \in Slots, NEW u \in Users, RunOrgCreate(s, u)
    PROVE  MemberGood
<1>0. TypeOK /\ born \subseteq Orgs /\ Orgs # born
  BY DEF IInv, TypeOK, RunOrgCreate
<1>1. NextOrg \in Orgs
  BY <1>0, NextOrgNew
<1>. DEFINE r == [Idle EXCEPT !.op = "addowner", !.org = NextOrg, !.who = u]
<1>2. /\ Open(s, r) /\ live' = live \cup {NextOrg} /\ born' = born \cup {NextOrg}
      /\ UNCHANGED <<role, epoch, key, session>>
  BY DEF RunOrgCreate
<1>3. r \in Requests
  BY <1>1, IdleSound DEF Requests
<1>4. r.op = "addowner" /\ r.org = NextOrg /\ r.who = u /\ r.p = NoSession /\ r.rows = {} /\ r.got = None
  BY DEF Idle
<1>. HIDE DEF r
<1>5. r \in Sounds'
  BY <1>2, <1>3, <1>4 DEF Sounds, SessionOps, CookieOps, SignIns
<1>6. r \in Timely'
  BY <1>3, <1>4 DEF Timely
<1>7. live \subseteq live' /\ born \subseteq born' /\ live' \subseteq born' /\ born' \subseteq Orgs
  BY <1>0, <1>1, <1>2 DEF TypeOK
<1>. QED
  BY <1>2, <1>3, <1>4, <1>5, <1>6, <1>7, OpenGood

\* A step for a request about organization o that leaves the organizations.
LEMMA Settles ==
    ASSUME IInv, NEW s, NEW r, MayFollow(s, r),
           NEW o \in Orgs, NEW g \in [Users -> Roles], SetMembers(s, r, o, g),
           o \notin live => \A u \in Users : g[u] = "none", started' \in 0..MaxRequests,
           UNCHANGED <<live, born, epoch, key, session>>
    PROVE  Members(s, r, o, g)
  BY FollowSound DEF Members, IInv, TypeOK

LEMMA LeaveFollows ==
    ASSUME NEW s \in Slots, req[s].op \in SessionOps PROVE MayFollow(s, SelfLeave(req[s]))
  BY DEF MayFollow, SelfLeave

LEMMA UpdateOrgMemberRoleGood ==
    ASSUME IInv, NEW s \in Slots, UpdateOrgMemberRole(s) PROVE MemberGood
<1>. DEFINE r == req[s]
            g == IF role[r.org][r.who] = "none" THEN role[r.org] ELSE [role[r.org] EXCEPT ![r.who] = r.arg]
<1>1. r.op = "setrole" /\ SetMembers(s, Idle, r.org, g) /\ UNCHANGED <<live, born, epoch, key, session, started>>
  BY DEF UpdateOrgMemberRole
<1>2. /\ TypeOK /\ r \in Sounds /\ r \in Timely /\ r.org \in Orgs /\ r.who \in Users
  BY <1>1, Underway DEF SessionOps
<1>3. r.arg \in {"admin", "member"} /\ (r.fresh => role[r.org][r.who] # "owner")
  BY <1>1, <1>2 DEF Sounds, Timely
<1>4. /\ role[r.org] \in [Users -> Roles] /\ g \in [Users -> Roles]
      /\ \A u \in Users : g[u] = IF u = r.who /\ role[r.org][u] # "none" THEN r.arg ELSE role[r.org][u]
  BY <1>2, <1>3 DEF TypeOK, Roles
<1>5. r.org \notin live => \A u \in Users : role[r.org][u] = "none"
  BY <1>2, VacantNow DEF IInv, Vacant
<1>. HIDE DEF g
<1>6. Members(s, Idle, r.org, g)
  BY <1>1, <1>2, <1>4, <1>5, Settles DEF TypeOK, MayFollow
<1>7. MayGo(s, r.org, g)
  BY <1>1, <1>3, <1>4 DEF MayGo
<1>. QED
  BY <1>6, <1>7, MembersGood

LEMMA DemoteGood ==
    ASSUME IInv, NEW s \in Slots, DemoteOrgOwnerIfNotLast(s) PROVE MemberGood
<1>. DEFINE r == req[s]
            g == IF r.who \in r.rows /\ role[r.org][r.who] = "owner"
                 THEN [role[r.org] EXCEPT ![r.who] = r.arg] ELSE role[r.org]
<1>1. r.op = "demoting" /\ SetMembers(s, Idle, r.org, g) /\ UNCHANGED <<live, born, epoch, key, session, started>>
  BY DEF DemoteOrgOwnerIfNotLast
<1>2. /\ TypeOK /\ r \in Sounds /\ r \in Timely /\ r.org \in Orgs /\ r.who \in Users
  BY <1>1, Underway DEF SessionOps
<1>3. r.arg \in {"admin", "member"} /\ (r.fresh => r.org \in Spared)
  BY <1>1, <1>2 DEF Sounds, Timely
<1>4. /\ role[r.org] \in [Users -> Roles] /\ g \in [Users -> Roles]
      /\ \A u \in Users : g[u] = role[r.org][u] \/ (u = r.who /\ role[r.org][u] = "owner" /\ g[u] = r.arg)
  BY <1>2, <1>3 DEF TypeOK, Roles
<1>5. r.org \notin live => \A u \in Users : role[r.org][u] = "none"
  BY <1>2, VacantNow DEF IInv, Vacant
<1>. HIDE DEF g
<1>6. Members(s, Idle, r.org, g)
  BY <1>1, <1>2, <1>4, <1>5, Settles DEF TypeOK, MayFollow
<1>7. MayGo(s, r.org, g)
  <2>1. r.fresh => \E v \in Users \ {r.who} : role[r.org][v] = "owner"
    BY <1>3, SparedTwo
  <2>. QED
    BY <1>1, <1>3, <1>4, <2>1 DEF MayGo
<1>. QED
  BY <1>6, <1>7, MembersGood

LEMMA DeleteOrgMemberGood ==
    ASSUME IInv, NEW s \in Slots, DeleteOrgMember(s) PROVE MemberGood
<1>. DEFINE r == req[s]
            g == [role[r.org] EXCEPT ![r.who] = "none"]
<1>1. /\ r.op = "remove" /\ SetMembers(s, SelfLeave(r), r.org, g)
      /\ UNCHANGED <<live, born, epoch, key, session, started>>
  BY DEF DeleteOrgMember
<1>2. /\ TypeOK /\ r \in Timely /\ r.org \in Orgs /\ r.who \in Users
  BY <1>1, Underway DEF SessionOps
<1>3. r.fresh => role[r.org][r.who] # "owner"
  BY <1>1, <1>2 DEF Timely
<1>4. /\ role[r.org] \in [Users -> Roles] /\ g \in [Users -> Roles]
      /\ \A u \in Users : g[u] = IF u = r.who THEN "none" ELSE role[r.org][u]
  BY <1>2 DEF TypeOK, Roles
<1>5. r.org \notin live => \A u \in Users : role[r.org][u] = "none"
  BY <1>2, VacantNow DEF IInv, Vacant
<1>. HIDE DEF g
<1>6. Members(s, SelfLeave(r), r.org, g)
  BY <1>1, <1>2, <1>4, <1>5, Settles, LeaveFollows DEF TypeOK, SessionOps
<1>7. MayGo(s, r.org, g)
  BY <1>1, <1>3, <1>4 DEF MayGo
<1>. QED
  BY <1>6, <1>7, MembersGood

LEMMA DeleteOrgOwnerGood ==
    ASSUME IInv, NEW s \in Slots, DeleteOrgOwnerIfNotLast(s) PROVE MemberGood
<1>. DEFINE r == req[s]
            g == [role[r.org] EXCEPT ![r.who] = "none"]
<1>0. r.op = "removing" /\ UNCHANGED <<live, born, epoch, key, session, started>>
  BY DEF DeleteOrgOwnerIfNotLast
<1>1. CASE r.who \in r.rows /\ role[r.org][r.who] = "owner"
  <2>1. SetMembers(s, SelfLeave(r), r.org, g)
    BY <1>1 DEF DeleteOrgOwnerIfNotLast
  <2>2. /\ TypeOK /\ r \in Timely /\ r.org \in Orgs /\ r.who \in Users
    BY <1>0, Underway DEF SessionOps
  <2>3. r.fresh => \E v \in Users \ {r.who} : role[r.org][v] = "owner"
    <3>1. r.fresh => r.org \in Spared
      BY <1>0, <2>2 DEF Timely
    <3>. QED
      BY <3>1, SparedTwo
  <2>4. /\ role[r.org] \in [Users -> Roles] /\ g \in [Users -> Roles]
        /\ \A u \in Users : g[u] = IF u = r.who THEN "none" ELSE role[r.org][u]
    BY <2>2 DEF TypeOK, Roles
  <2>5. r.org \notin live => \A u \in Users : role[r.org][u] = "none"
    BY <2>2, VacantNow DEF IInv, Vacant
  <2>. HIDE DEF g
  <2>6. Members(s, SelfLeave(r), r.org, g)
    BY <1>0, <2>1, <2>2, <2>4, <2>5, Settles, LeaveFollows DEF TypeOK, SessionOps
  <2>7. MayGo(s, r.org, g)
    BY <1>0, <2>3, <2>4 DEF MayGo
  <2>. QED
    BY <2>6, <2>7, MembersGood
<1>2. CASE ~(r.who \in r.rows /\ role[r.org][r.who] = "owner")
  <2>1. Answered(s) /\ UNCHANGED role
    BY <1>2 DEF DeleteOrgOwnerIfNotLast
  <2>2. key' \in [Keys -> live \cup {None}]
    BY <1>0 DEF IInv, TypeOK
  <2>. QED
    BY <1>0, <2>1, <2>2, AnswerGood
<1>. QED
  BY <1>1, <1>2

LEMMA TransferGood ==
    ASSUME IInv, NEW s \in Slots, TransferOrgOwnership(s) PROVE MemberGood
<1>. DEFINE r == req[s]
            now == role[r.org]
            g == [u \in Users |-> CASE u \notin r.rows -> now[u]
                                [] u \in r.rows /\ u = r.who -> "owner"
                                [] u \in r.rows /\ u = r.p.user /\ now[u] = "owner" -> "admin"
                                [] OTHER -> now[u]]
<1>1. /\ r.op = "transferring" /\ SetMembers(s, Idle, r.org, g)
      /\ UNCHANGED <<live, born, epoch, key, session, started>>
  BY DEF TransferOrgOwnership
<1>2. /\ TypeOK /\ r \in Sounds /\ r \in Timely /\ r.org \in Orgs /\ r.who \in Users
      /\ \A u \in r.rows : role[r.org][u] # "none"
  BY <1>1, Underway DEF SessionOps
<1>3. (r.fresh => r.who \in r.rows) /\ r.who # r.p.user
  BY <1>1, <1>2 DEF Timely, Sounds
<1>4. role[r.org] \in [Users -> Roles]
  BY <1>2 DEF TypeOK
<1>5. ASSUME NEW u \in Users
      PROVE  /\ g[u] \in Roles
             /\ u \notin r.rows => g[u] = role[r.org][u]
             /\ u \in r.rows /\ u = r.who => g[u] = "owner"
  <2>1. CASE u \notin r.rows
    BY <1>4, <2>1
  <2>2. CASE u \in r.rows /\ u = r.who
    BY <1>3, <2>2 DEF Roles
  <2>3. CASE u \in r.rows /\ u # r.who
    BY <1>4, <2>3 DEF Roles
  <2>. QED
    BY <2>1, <2>2, <2>3
<1>6. g \in [Users -> Roles]
  BY <1>5
<1>7. r.org \notin live => \A u \in Users : role[r.org][u] = "none"
  BY <1>2, VacantNow DEF IInv, Vacant
<1>. HIDE DEF g
<1>8. r.org \notin live => \A u \in Users : g[u] = "none"
  BY <1>2, <1>5, <1>7
<1>9. Members(s, Idle, r.org, g)
  BY <1>1, <1>2, <1>6, <1>8, Settles DEF TypeOK, MayFollow
<1>10. MayGo(s, r.org, g)
  BY <1>1, <1>2, <1>3, <1>5 DEF MayGo
<1>. QED
  BY <1>9, <1>10, MembersGood

LEMMA DeleteOrganizationGood ==
    ASSUME IInv, NEW s \in Slots, DeleteOrganization(s) PROVE MemberGood
<1>. DEFINE r == req[s]
            g == [u \in Users |-> "none"]
            n == IF r.p.org = r.org THEN AsksNext(r) ELSE Idle
<1>1. /\ r.op = "deleteorg" /\ SetMembers(s, n, r.org, g)
      /\ live' = live \ {r.org} /\ key' = WithoutKeys(r.org)
      /\ UNCHANGED <<born, epoch, session, started>>
  BY DEF DeleteOrganization
<1>2. TypeOK /\ r.org \in Orgs
  BY <1>1, Underway DEF SessionOps
<1>3. g \in [Users -> Roles] /\ \A u \in Users : g[u] = "none"
  BY DEF Roles
<1>4. MayFollow(s, n)
  BY <1>1 DEF MayFollow, SessionOps
<1>. HIDE DEF g, n
<1>5. key' \in [Keys -> live' \cup {None}]
  BY <1>1, <1>2 DEF TypeOK, WithoutKeys
<1>6. Members(s, n, r.org, g)
  BY <1>1, <1>2, <1>3, <1>4, <1>5, FollowSound DEF Members, TypeOK
<1>7. MayGo(s, r.org, g)
  BY <1>1, <1>3 DEF MayGo
<1>. QED
  BY <1>6, <1>7, MembersGood

LEMMA AddOwnerGood ==
    ASSUME IInv, NEW s \in Slots, AddOwner(s) PROVE MemberGood
<1>. DEFINE r == req[s]
            g == [role[r.org] EXCEPT ![r.who] = "owner"]
<1>1. /\ r.op = "addowner" /\ r.org \in live /\ role[r.org][r.who] = "none"
      /\ SetMembers(s, Idle, r.org, g) /\ UNCHANGED <<live, born, epoch, key, session, started>>
  BY DEF AddOwner
<1>2. TypeOK /\ r.org \in Orgs /\ r.who \in Users
  BY <1>1 DEF IInv, TypeOK, RequestsSound, Sounds
<1>3. /\ g \in [Users -> Roles]
      /\ \A u \in Users : g[u] = IF u = r.who THEN "owner" ELSE role[r.org][u]
  BY <1>2 DEF TypeOK, Roles
<1>. HIDE DEF g
<1>4. Members(s, Idle, r.org, g)
  BY <1>1, <1>2, <1>3, Settles DEF TypeOK, MayFollow
<1>5. MayGo(s, r.org, g)
  BY <1>1, <1>3 DEF MayGo
<1>. QED
  BY <1>4, <1>5, MembersGood

LEMMA RunMemberAddGood ==
    ASSUME IInv, NEW o \in live, NEW t \in Users, NEW a \in Roles \ {"none"}, RunMemberAdd(o, t, a)
    PROVE  MemberGood
<1>. DEFINE g == [role[o] EXCEPT ![t] = a]
<1>1. /\ role[o][t] = "none" /\ Arrives /\ SetMembers(None, Idle, o, g)
      /\ UNCHANGED <<live, born, epoch, key, session>>
  BY DEF RunMemberAdd
<1>2. TypeOK /\ o \in Orgs
  BY DEF IInv, TypeOK
<1>3. /\ g \in [Users -> Roles]
      /\ \A u \in Users : g[u] = IF u = t THEN a ELSE role[o][u]
  BY <1>2 DEF TypeOK, Roles
<1>. HIDE DEF g
<1>4. Members(None, Idle, o, g)
  BY <1>1, <1>2, <1>3, Settles, ArrivesType DEF MayFollow
<1>5. MayGo(None, o, g)
  BY <1>1, <1>3 DEF MayGo
<1>. QED
  BY <1>4, <1>5, MembersGood

LEMMA AnswersGood ==
    ASSUME IInv, NEW s \in Slots, Abandon(s) \/ \E k \in Keys : InsertKey(s, k) PROVE MemberGood
<1>0. TypeOK
  BY DEF IInv
<1>1. CASE Abandon(s)
  BY <1>0, <1>1, AnswerGood DEF Abandon, TypeOK
<1>2. CASE \E k \in Keys : InsertKey(s, k)
  <2>1. PICK k \in Keys : InsertKey(s, k)
    BY <1>2
  <2>2. key' \in [Keys -> live \cup {None}]
    BY <1>0, <2>1 DEF InsertKey, TypeOK
  <2>. QED
    BY <2>1, <2>2, AnswerGood DEF InsertKey
<1>. QED
  BY <1>1, <1>2

LEMMA SnapshotGood ==
    ASSUME IInv, NEW s \in Slots, Snapshot(s) PROVE MemberGood
<1>. DEFINE r == req[s]
            op == IF r.op = "demote" THEN "demoting" ELSE "removing"
            M == MembersOf(r.org)
            n == [r EXCEPT !.op = op, !.rows = M, !.fresh = TRUE]
<1>1. /\ r.op \in {"demote", "removeowner"} /\ UNCHANGED <<live, born, role, epoch, key, session, started>>
      /\ req' = [req EXCEPT ![s] = IF NotLast(r.org) THEN n ELSE Idle]
  BY DEF Snapshot, Requests, IInv, TypeOK
<1>2. /\ TypeOK /\ r \in Requests /\ r \in Sounds /\ r # Idle /\ r.by \in Browsers /\ r.p \in Issued
      /\ r.org \in born /\ r.org \in Orgs /\ r.who \in Users /\ r.got = None
  <2>1. r.op \in SessionOps /\ r.op \notin {"deleteorg", "key"} /\ r.op \notin SignIns \cup {"accept"}
    BY <1>1 DEF SessionOps, SignIns
  <2>2. /\ TypeOK /\ r \in Requests /\ r \in Sounds /\ r # Idle /\ r.by \in Browsers /\ r.p \in Issued
        /\ r.org \in born /\ r.org \in Orgs /\ r.who \in Users
    BY <2>1, Underway
  <2>. QED
    BY <2>1, <2>2 DEF Sounds
<1>3. CASE ~NotLast(r.org)
  <2>1. Answered(s)
    BY <1>1, <1>3 DEF Answered
  <2>. QED
    BY <1>1, <1>2, <2>1, AnswerGood DEF TypeOK
<1>4. CASE NotLast(r.org)
  <2>1. r.org \in Spared'
    BY <1>1, <1>2, <1>4 DEF Spared, NotLast, Owners
  <2>2. M \in SUBSET Users /\ \A u \in M : role'[r.org][u] # "none"
    BY <1>1 DEF MembersOf
  <2>3. op \in {"demoting", "removing"} /\ (op = "demoting" => r.op = "demote")
    OBVIOUS
  <2>4. req' = [req EXCEPT ![s] = n]
    BY <1>1, <1>4
  <2>. HIDE DEF op, M
  <2>5. /\ n \in Requests /\ n.op = op
        /\ n.by = r.by /\ n.p = r.p /\ n.org = r.org /\ n.who = r.who /\ n.arg = r.arg
        /\ n.rows = M /\ n.got = r.got
    BY <1>2, <2>2, <2>3 DEF Requests
  <2>. HIDE DEF n
  <2>6. r.p \in Issued'
    BY <1>1, <1>2 DEF Issued
  <2>7. r.op = "demote" => r.arg \in {"admin", "member"}
    BY <1>2 DEF Sounds
  <2>8. n \in Sounds'
    BY <1>1, <1>2, <2>5, <2>2, <2>3, <2>6, <2>7 DEF Sounds, SignIns, CookieOps
  <2>9. n \in Timely'
    BY <2>1, <2>5, <2>3 DEF Timely
  <2>10. /\ req' \in [Slots -> Requests] /\ req'[s] = n /\ \A x \in Slots \ {s} : req'[x] = req[x]
    BY <1>2, <2>5, <2>4 DEF TypeOK
  <2>11. MemberTypes'
    BY <1>1, <1>2, <2>10 DEF TypeOK, MemberTypes, RoleTable
  <2>12. Vacant'
    BY <1>1, <1>2, VacantNow DEF IInv, Vacant
  <2>13. \A x \in Slots : Goes(x) \/ (req'[x] \in Sounds' /\ req'[x] \in Timely')
    BY <1>1, <2>8, <2>9, <2>10 DEF Goes
  <2>14. CookiesSet /\ OwnerKept /\ RoleKept
    BY <1>1, RolesKept DEF CookiesSet
  <2>. QED
    BY <1>1, <1>2, <2>5, <2>10, <2>11, <2>12, <2>13, <2>14 DEF MemberGood
<1>. QED
  BY <1>3, <1>4

LEMMA CreateOrgGood == ASSUME IInv, NEW b \in Browsers, CreateOrg(b) PROVE MemberGood
<1>0. TypeOK /\ NoOrphans /\ born \subseteq Orgs /\ Orgs # born /\ session[b].user \in Users
  BY CallerIssued DEF IInv, TypeOK, CreateOrg
<1>. DEFINE o == NextOrg
            u == session[b].user
<1>1. o \in Orgs /\ o \notin born
  BY <1>0, NextOrgNew
<1>2. /\ live' = live \cup {o} /\ born' = born \cup {o} /\ role' = [role EXCEPT ![o][u] = "owner"]
      /\ Arrives /\ UNCHANGED <<epoch, key, session, req>>
  BY DEF CreateOrg, Found
<1>. HIDE DEF o, u
<1>3. /\ role' \in RoleTable /\ \A x \in Orgs \ {o} : role'[x] = role[x]
  BY <1>0, <1>1, <1>2 DEF TypeOK, RoleTable, Roles, u
<1>4. MemberTypes'
  BY <1>0, <1>1, <1>2, <1>3, ArrivesType DEF TypeOK, MemberTypes
<1>5. Vacant'
  BY <1>0, <1>2, <1>3, VacantNow DEF Vacant
<1>6. OwnerKept
  BY <1>0, <1>1, <1>3 DEF OwnerKept, Owners, TypeOK
<1>7. RoleKept
  <2>1. \A x \in Users : role[o][x] = "none"
    BY <1>0, <1>1, VacantNow DEF Vacant, TypeOK
  <2>. QED
    BY <1>3, <2>1 DEF RoleKept
<1>8. CookiesSet
  BY <1>2 DEF CookiesSet
<1>. QED
  BY <1>0, <1>1, <1>2, <1>3, <1>4, <1>5, <1>6, <1>7, <1>8, AtOnceGood

\* A cookie to set, for a principal that is sound.
LEMMA CookieRequest ==
    ASSUME TypeOK, NEW r, r.by \in Browsers, r.p \in Issued', r.p \in Principals,
           NEW o \in Orgs \cup {None}, o \in born' \cup {None}, o # None => role'[o][r.p.user] # "none"
    PROVE  LET n == SetsCookie(r, o)
           IN  /\ n \in Requests /\ n \in Sounds' /\ n \in Timely'
               /\ n.op = "cookie" /\ n.got = None /\ n.p = r.p
<1>. DEFINE n == SetsCookie(r, o)
<1>1. n \in Requests
  BY IdleSound DEF SetsCookie, Requests
<1>2. /\ n.op = "cookie" /\ n.by = r.by /\ n.p = r.p /\ n.org = o /\ n.got = None /\ n.rows = {}
  BY DEF SetsCookie, Idle
<1>. HIDE DEF n
<1>3. n \in Sounds'
  BY <1>1, <1>2 DEF Sounds, SessionOps, CookieOps, SignIns
<1>4. n \in Timely'
  BY <1>1, <1>2 DEF Timely
<1>. QED
  BY <1>1, <1>2, <1>3, <1>4 DEF n

LEMMA SelectOrgGood ==
    ASSUME IInv, NEW s \in Slots, NEW b \in Browsers, NEW o \in live, SelectOrg(s, b, o) PROVE MemberGood
<1>0. /\ TypeOK /\ session[b] \in Issued /\ session[b] \in Principals /\ o \in Orgs /\ o \in born
  BY CallerIssued DEF IInv, TypeOK, SelectOrg
<1>. DEFINE q == Request("cookie", b, o, None, "none")
            r == SetsCookie(q, o)
<1>1. /\ role[o][session[b].user] # "none" /\ Open(s, r)
      /\ UNCHANGED <<live, born, role, epoch, key, session>>
  BY DEF SelectOrg
<1>2. q.by = b /\ q.p = session[b]
  BY DEF Request, Idle
<1>. HIDE DEF q
<1>3. q.p \in Issued'
  BY <1>0, <1>1, <1>2 DEF Issued
<1>4. r \in Requests /\ r \in Sounds' /\ r \in Timely' /\ r.got = None
  BY <1>0, <1>1, <1>2, <1>3, CookieRequest
<1>. HIDE DEF r
<1>. QED
  BY <1>0, <1>1, <1>4, OpenGood DEF TypeOK

\* A request that has a cookie to set.
LEMMA CookieUnderway ==
    ASSUME IInv, NEW s \in Slots, req[s].op \in CookieOps
    PROVE  /\ TypeOK /\ req[s] \in Timely /\ req[s] # Idle /\ req[s].by \in Browsers /\ req[s].p \in Issued
           /\ req[s].p \in Principals /\ req[s].org \in Orgs \cup {None}
<1>1. TypeOK /\ req[s] \in Sounds /\ req[s] \in Timely
  BY DEF IInv, RequestsSound
<1>2. req[s].by \in Browsers /\ req[s].p \in Issued /\ req[s].org \in born \cup {None}
  BY <1>1 DEF Sounds
<1>. QED
  BY <1>1, <1>2 DEF Issued, TypeOK, Idle, CookieOps

LEMMA GetFirstOrgGood ==
    ASSUME IInv, NEW s \in Slots, GetFirstOrgForUser(s) PROVE MemberGood
<1>0. /\ TypeOK /\ NoOrphans /\ req[s] # Idle /\ req[s].by \in Browsers /\ req[s].p \in Issued
      /\ req[s].p \in Principals /\ req[s].p.user \in Users
  <2>1. req[s].op \in CookieOps
    BY DEF GetFirstOrgForUser, CookieOps
  <2>. QED
    BY <2>1, CookieUnderway DEF Principals, IInv
<1>1. PICK o \in OrgsOf(req[s].p.user) \cup {None} : req' = [req EXCEPT ![s] = SetsCookie(req[s], o)]
  BY DEF GetFirstOrgForUser
<1>2. UNCHANGED <<live, born, role, epoch, key, session, started>>
  BY DEF GetFirstOrgForUser
<1>3. /\ o \in Orgs \cup {None} /\ (o # None => role'[o][req[s].p.user] # "none")
  BY <1>2 DEF OrgsOf
<1>4. o \in born' \cup {None}
  BY <1>0, <1>2, <1>3, VacantNow DEF Vacant, TypeOK
<1>5. req[s].p \in Issued'
  BY <1>0, <1>2 DEF Issued
<1>. DEFINE n == SetsCookie(req[s], o)
<1>6. /\ n \in Requests /\ n \in Sounds' /\ n \in Timely' /\ n.op = "cookie" /\ n.got = None /\ n.p = req[s].p
  BY <1>0, <1>3, <1>4, <1>5, CookieRequest
<1>7. req' = [req EXCEPT ![s] = n]
  BY <1>1
<1>. HIDE DEF n
<1>8. /\ req' \in [Slots -> Requests] /\ req'[s] = n /\ \A x \in Slots \ {s} : req'[x] = req[x]
  BY <1>0, <1>6, <1>7 DEF TypeOK
<1>9. MemberTypes'
  BY <1>0, <1>2, <1>8 DEF TypeOK, MemberTypes, RoleTable
<1>10. Vacant'
  BY <1>0, <1>2, VacantNow DEF Vacant
<1>11. \A x \in Slots : Goes(x) \/ (req'[x] \in Sounds' /\ req'[x] \in Timely')
  BY <1>2, <1>6, <1>8 DEF Goes
<1>12. CookiesSet /\ OwnerKept /\ RoleKept
  BY <1>2, RolesKept DEF CookiesSet
<1>. QED
  BY <1>2, <1>6, <1>8, <1>9, <1>10, <1>11, <1>12 DEF MemberGood

\* The cookie that Issue sets.
LEMMA IssueSets ==
    ASSUME IInv, NEW s \in Slots, Issue(s)
    PROVE  /\ req[s].op = "cookie" /\ req[s] \in Timely /\ req[s] # Idle
           /\ req[s].by \in Browsers /\ req[s].p \in Issued /\ req[s].p \in Principals
           /\ req[s].org \in Orgs \cup {None} /\ Gets(req[s].by, req[s].p, req[s].org)
           /\ req' = [req EXCEPT ![s] = Idle] /\ UNCHANGED <<live, born, role, epoch, key, started>>
<1>1. req[s].op \in CookieOps
  BY DEF Issue, CookieOps
<1>. QED
  BY <1>1, CookieUnderway DEF Issue, Gets, Cookie, Answered

LEMMA IssueGood == ASSUME IInv, NEW s \in Slots, Issue(s) PROVE MemberGood
<1>0. TypeOK /\ NoOrphans
  BY DEF IInv
<1>1. /\ req[s].by \in Browsers /\ req[s].p \in Principals /\ req[s].org \in Orgs \cup {None}
      /\ Gets(req[s].by, req[s].p, req[s].org)
      /\ req' = [req EXCEPT ![s] = Idle] /\ UNCHANGED <<live, born, role, epoch, key, started>>
  BY IssueSets
<1>2. session' \in [Browsers -> Principals \cup {NoSession}]
  BY <1>0, <1>1, GetsType
<1>3. /\ req' \in [Slots -> Requests] /\ \A x \in Slots : Goes(x)
      /\ req'[s] = Idle /\ \A x \in Slots \ {s} : req'[x] = req[x]
  BY <1>0, <1>1, AnsweredGo DEF Answered
<1>4. MemberTypes'
  BY <1>0, <1>1, <1>2, <1>3 DEF TypeOK, MemberTypes, RoleTable
<1>5. Vacant'
  BY <1>0, <1>1, VacantNow DEF Vacant
<1>6. CookiesSet /\ OwnerKept /\ RoleKept
  BY <1>1, RolesKept DEF CookiesSet
<1>7. Idle.got = None
  BY DEF Idle
<1>. QED
  BY <1>1, <1>3, <1>4, <1>5, <1>6, <1>7 DEF MemberGood

LEMMA RevokeGood ==
    ASSUME IInv, NEW b \in Browsers, NEW k \in Keys, RevokeAPIKey(b, k) PROVE MemberGood
<1>0. TypeOK /\ NoOrphans
  BY DEF IInv
<1>1. Arrives /\ key' = [key EXCEPT ![k] = None] /\ UNCHANGED <<live, born, role, epoch, session, req>>
  BY DEF RevokeAPIKey
<1>2. MemberTypes'
  BY <1>0, <1>1, ArrivesType DEF TypeOK, MemberTypes, RoleTable
<1>3. Vacant'
  BY <1>0, <1>1, VacantNow DEF Vacant
<1>4. CookiesSet
  BY <1>1 DEF CookiesSet
<1>. QED
  BY <1>1, <1>2, <1>3, <1>4, RolesKept, AtOnceGood

LEMMA MemberNextGood == ASSUME IInv, MemberNext PROVE MemberGood
<1>1. CASE \E s \in Slots, b \in Browsers, o \in live, t \in Users :
             \/ \E a \in Roles \ {"none"} : PatchMember(s, b, o, t, a)
             \/ RemoveMember(s, b, o, t) \/ TransferOwnership(s, b, o, t)
  BY <1>1, PatchMemberGood, RemoveMemberGood, TransferOwnershipGood
<1>2. CASE \E s \in Slots, b \in Browsers, o \in live :
             DeleteOrg(s, b, o) \/ SelectOrg(s, b, o) \/ CreateAPIKey(s, b, o)
  BY <1>2, DeleteOrgGood, SelectOrgGood
<1>3. CASE \E s \in Slots : \/ UpdateOrgMemberRole(s) \/ Snapshot(s) \/ DemoteOrgOwnerIfNotLast(s)
                            \/ DeleteOrgMember(s) \/ DeleteOrgOwnerIfNotLast(s) \/ TransferOrgOwnership(s)
                            \/ DeleteOrganization(s) \/ AddOwner(s)
  BY <1>3, UpdateOrgMemberRoleGood, SnapshotGood, DemoteGood, DeleteOrgMemberGood, DeleteOrgOwnerGood,
     TransferGood, DeleteOrganizationGood, AddOwnerGood
<1>4. CASE \E s \in Slots : \/ Abandon(s) \/ (\E k \in Keys : InsertKey(s, k))
                            \/ GetFirstOrgForUser(s) \/ Issue(s)
                            \/ \E u \in Users : RunOrgCreate(s, u)
  BY <1>4, AnswersGood, GetFirstOrgGood, IssueGood, RunOrgCreateGood
<1>5. CASE \E b \in Browsers : CreateOrg(b) \/ \E k \in Keys : RevokeAPIKey(b, k)
  BY <1>5, CreateOrgGood, RevokeGood
<1>6. CASE \E o \in live, u \in Users, a \in Roles \ {"none"} : RunMemberAdd(o, u, a)
  BY <1>6, RunMemberAddGood
<1>. QED
  BY <1>1, <1>2, <1>3, <1>4, <1>5, <1>6 DEF MemberNext

\* What is proved of every step.
StepGood == IInv' /\ OwnerKept /\ RoleKept /\ OpensOnce /\ LandsInMembership

InvRows == [org: Orgs, user: Users, role: {"admin", "member"}, st: Kept \cup {"gone"}]

LEMMA InviteRows ==
    ASSUME TypeOK, NEW i \in Invites
    PROVE  /\ inv[i].st \in Kept \cup {"gone"} => inv[i] \in InvRows
           /\ inv[i] \in InvRows \/ inv[i] = NoInvite
           /\ inv[i] \in InvRows => inv[i] # NoInvite /\ inv[i].st \in Kept \cup {"gone"}
           /\ NoInvite.st = "free"
  BY DEF TypeOK, NoInvite, InvRows, Kept

\* The state of an invitation changes.
LEMMA InviteBecomes ==
    ASSUME NEW v \in InvRows, NEW st \in Kept \cup {"gone"}
    PROVE  /\ [v EXCEPT !.st = st] \in InvRows /\ [v EXCEPT !.st = st].st = st
           /\ [v EXCEPT !.st = st].org = v.org /\ [v EXCEPT !.st = st].user = v.user
  BY DEF InvRows

LEMMA MemberStepGood == ASSUME IInv, MemberStep PROVE StepGood
<1>0. TypeOK /\ NoOrphans /\ RequestsSound /\ Exclusive /\ EpochsSound /\ LinksSound /\ GrantsSound
  BY DEF IInv
<1>1. MemberGood
  BY MemberNextGood DEF MemberStep
<1>. DEFINE done == {s \in Slots : req[s] # Idle /\ req'[s] = Idle}
            set == {b \in Browsers : session'[b] # session[b]}
<1>2. /\ inv' = [i \in Invites |-> IF inv[i].st \in Kept /\ inv[i].org \notin live'
                                   THEN [inv[i] EXCEPT !.st = "gone"] ELSE inv[i]]
      /\ void' = (IF done = {} THEN void ELSE (void \ set) \cup {b \in set : done \cap void # {}}) \ done
      /\ UNCHANGED <<link, sso, ssoCookie, grants, uses, begun>>
  BY DEF MemberStep
<1>3. EpochsGrow
  <2>1. epoch' = epoch /\ epoch \in [Users -> Nat \cup {None}]
    BY <1>0, <1>1 DEF MemberGood, TypeOK
  <2>. QED
    BY <2>1 DEF EpochsGrow
<1>4. ASSUME NEW i \in Invites
      PROVE  /\ \/ inv'[i] = inv[i] /\ (inv[i].st \in Kept => inv[i].org \in live')
                \/ inv[i] \in InvRows /\ inv'[i] \in InvRows /\ inv'[i].st = "gone"
             /\ inv'[i] \in InvRows \cup {NoInvite}
             /\ inv[i] # NoInvite => inv'[i] # NoInvite
  <2>1. CASE inv[i].st \in Kept /\ inv[i].org \notin live'
    <3>1. inv[i] \in InvRows /\ inv'[i] = [inv[i] EXCEPT !.st = "gone"]
      BY <1>0, <1>2, <2>1, InviteRows
    <3>2. inv'[i] \in InvRows /\ inv'[i].st = "gone"
      BY <3>1, InviteBecomes
    <3>. QED
      BY <3>1, <3>2 DEF InvRows, NoInvite
  <2>2. CASE ~(inv[i].st \in Kept /\ inv[i].org \notin live')
    <3>1. inv'[i] = inv[i]
      BY <1>2, <2>2
    <3>. QED
      BY <1>0, <2>2, <3>1, InviteRows
  <2>. QED
    BY <2>1, <2>2
<1>5. TypeOK'
  <2>1. inv' \in [Invites -> InvRows \cup {NoInvite}]
    BY <1>2, <1>4
  <2>2. void' \subseteq Browsers \cup Slots
    BY <1>0, <1>2 DEF TypeOK
  <2>. QED
    BY <1>0, <1>1, <1>2, <2>1, <2>2 DEF TypeOK, MemberGood, MemberTypes, InvRows, RoleTable
<1>6. NoOrphans'
  <2>1. \A o \in Orgs \ live' : MembersOf(o)' = {}
    BY <1>1 DEF MemberGood, Vacant, MembersOf
  <2>2. \A i \in Invites : inv'[i].st \in Kept => inv'[i].org \in live'
    BY <1>4 DEF Kept
  <2>. QED
    BY <2>1, <2>2 DEF NoOrphans
<1>7. RequestsSound'
  <2>. SUFFICES ASSUME NEW x \in Slots PROVE req'[x] \in Sounds' /\ req'[x] \in Timely'
    BY DEF RequestsSound
  <2>1. CASE Goes(x)
    BY <1>0, <1>1, <1>2, <1>3, <1>4, <1>5, <2>1, GoesSound DEF MemberGood
  <2>. QED
    BY <1>1, <2>1 DEF MemberGood
<1>8. Exclusive'
  BY <1>0, <1>1, IdsApart, ExclusiveFrame DEF MemberGood
<1>9. EpochsSound'
  <2>1. \A x \in Slots : x \in void => req[x] # Idle
    BY <1>0, Unvoid
  <2>2. ASSUME NEW x \in Slots, x \in void' PROVE x \in void /\ req'[x].p = req[x].p
    <3>1. x \notin set
      BY SlotsApart
    <3>2. x \in void /\ x \notin done
      BY <1>2, <2>2, <3>1
    <3>. QED
      BY <1>1, <2>1, <3>2 DEF MemberGood
  <2>3. ASSUME NEW b \in Browsers
        PROVE  \/ session'[b] = session[b] /\ (b \in void' => b \in void)
               \/ session'[b] \in Issued' /\ (b \in void' => session'[b] \in Ended')
    <3>0. Issued \subseteq Issued' /\ Ended \subseteq Ended'
      BY <1>0, <1>3, <1>5, EpochFrame DEF TypeOK
    <3>1. CASE session'[b] = session[b]
      BY <1>2, <3>1
    <3>2. CASE session'[b] # session[b]
      <4>1. PICK s \in Slots : Issue(s)
        BY <1>1, <3>2 DEF MemberGood, CookiesSet
      <4>2. /\ req[s] # Idle /\ req[s].by \in Browsers /\ req[s].p \in Issued /\ req[s].p \in Principals
            /\ req[s].org \in Orgs \cup {None} /\ Gets(req[s].by, req[s].p, req[s].org)
            /\ req' = [req EXCEPT ![s] = Idle]
        BY <4>1, IssueSets
      <4>3. session'[b] = Cookie(req[s].p, req[s].org)
        BY <1>0, <3>2, <4>2, GetsType
      <4>4. session'[b] \in Issued /\ (req[s].p \in Ended => session'[b] \in Ended)
        BY <4>2, <4>3, CookieType
      <4>5. done = {s} /\ b \in set
        BY <1>0, <3>2, <4>2 DEF TypeOK
      <4>6. b \in void' => s \in void
        BY <1>2, <4>5
      <4>7. s \in void => req[s].p \in Ended
        BY <1>0 DEF EpochsSound
      <4>. QED
        BY <3>0, <4>4, <4>6, <4>7
    <3>. QED
      BY <3>1, <3>2
  <2>. QED
    BY <1>0, <1>3, <1>5, <2>2, <2>3, EpochsFrame
<1>10. LinksSound'
  BY <1>0, <1>2, <1>3, LinksFrame
<1>11. GrantsSound'
  BY <1>0, <1>2, <1>4, GrantsFrame
<1>12. OpensOnce
  BY <1>2 DEF OpensOnce
<1>13. LandsInMembership
  <2>1. ASSUME NEW t \in Slots, Completes(t, {"cookie"}), session'[req[t].by] # session[req[t].by],
               session'[req[t].by].org # None
        PROVE  role[session'[req[t].by].org][session'[req[t].by].user] # "none" \/ ~req[t].fresh
    <3>1. PICK s \in Slots : Issue(s)
      BY <1>1, <2>1 DEF MemberGood, CookiesSet
    <3>2. /\ req[s].op = "cookie" /\ req[s] \in Timely /\ req[s].by \in Browsers /\ req[s].p \in Principals
          /\ req[s].org \in Orgs \cup {None} /\ Gets(req[s].by, req[s].p, req[s].org)
          /\ req' = [req EXCEPT ![s] = Idle]
      BY <3>1, IssueSets
    <3>3. t = s
      BY <1>0, <2>1, <3>2 DEF TypeOK, Completes
    <3>4. session'[req[t].by] = Cookie(req[s].p, req[s].org)
      BY <1>0, <3>2, <3>3, GetsType
    <3>5. Cookie(req[s].p, req[s].org).org = req[s].org /\ Cookie(req[s].p, req[s].org).user = req[s].p.user
      BY <3>2, CookieType
    <3>. QED
      BY <2>1, <3>2, <3>3, <3>4, <3>5 DEF Timely
  <2>2. \A l \in Links : link'[l].st = "used" => epoch'[link[l].user] # None
    BY <1>0, <1>1, <1>2 DEF LinksSound, MemberGood
  <2>. QED
    BY <2>1, <2>2 DEF LandsInMembership
<1>. QED
  BY <1>1, <1>5, <1>6, <1>7, <1>8, <1>9, <1>10, <1>11, <1>12, <1>13 DEF StepGood, IInv, MemberGood

-----------------------------------------------------------------------------
(* The steps of SignIn: those that only bring a request in. *)

\* What a request has in hand is a link, a state or an invitation by what it does.
LEMMA Holds ==
    ASSUME IInv, NEW x \in Slots
    PROVE  /\ req[x].got \in Links => /\ req[x].op = "verify" /\ link[req[x].got].st = "active"
                                      /\ link[req[x].got].user = req[x].who
           /\ req[x].got \in States => /\ req[x].op = "callback" /\ ~sso[req[x].got]
                                       /\ begun[req[x].got] = req[x].by /\ req[x].by \in Browsers
                                       /\ uses[req[x].got] = 0
           /\ req[x].op = "verify" => req[x].got \in Links
           /\ req[x].op = "callback" => req[x].got \in States
<1>1. req[x] \in Sounds
  BY DEF IInv, RequestsSound
<1>. QED
  BY <1>1, IdsApart DEF Sounds, SignIns

\* The roles, the requests and what they hold stay.
LEMMA QuietRequests ==
    ASSUME IInv, TypeOK', EpochsGrow, UNCHANGED <<born, role, req>>,
           \A i \in Invites : inv[i] # NoInvite => inv'[i] # NoInvite,
           \A x \in Slots : req[x].op = "verify" => link'[req[x].got] = link[req[x].got],
           \A x \in Slots : req[x].op = "callback" =>
             /\ sso'[req[x].got] = sso[req[x].got] /\ begun'[req[x].got] = begun[req[x].got]
             /\ uses'[req[x].got] = uses[req[x].got]
    PROVE  RequestsSound' /\ Exclusive' /\ OwnerKept /\ RoleKept
<1>1. ASSUME NEW x \in Slots PROVE req'[x] \in Sounds' /\ req'[x] \in Timely'
  <2>1. Goes(x)
    BY DEF Goes
  <2>. QED
    BY <2>1, GoesSound DEF IInv
<1>2. RequestsSound'
  BY <1>1 DEF RequestsSound
<1>3. Exclusive'
  BY DEF IInv, Exclusive
<1>. QED
  BY <1>2, <1>3, RolesKept

\* A step that opens no session.
LEMMA NoSessions ==
    ASSUME TypeOK, LinksSound', UNCHANGED <<session, uses>>,
           \A l \in Links : link'[l].st = "used" => link'[l].user = link[l].user
    PROVE  OpensOnce /\ LandsInMembership
  BY DEF OpensOnce, LandsInMembership, LinksSound

LEMMA SignOpen ==
    ASSUME IInv, NEW s \in Slots, NEW r \in Requests, Open(s, r), r \in Sounds', r \in Timely',
           UNCHANGED <<live, born, role, epoch, key, session, link, inv, grants, uses, begun, void>>,
           sso' \in [States -> BOOLEAN], ssoCookie' \in [Browsers -> States \cup {None}], LinksSound',
           \A x \in Slots : req[x].op = "callback" => sso'[req[x].got] = sso[req[x].got],
           r.got \in Links \cup States => \A x \in Slots \ {s} : req[x].got # r.got
    PROVE  StepGood
<1>0. TypeOK /\ NoOrphans /\ RequestsSound /\ Exclusive /\ EpochsSound /\ LinksSound /\ GrantsSound
  BY DEF IInv
<1>1. /\ req' \in [Slots -> Requests] /\ started' \in 0..MaxRequests
      /\ req[s] = Idle /\ req'[s] = r /\ \A x \in Slots \ {s} : req'[x] = req[x]
  BY <1>0, OpenType
<1>2. TypeOK'
  BY <1>0, <1>1 DEF TypeOK
<1>3. EpochsGrow
  BY <1>0 DEF TypeOK, EpochsGrow
<1>4. NoOrphans'
  BY <1>0 DEF NoOrphans, MembersOf
<1>5. RequestsSound'
  <2>. SUFFICES ASSUME NEW x \in Slots PROVE req'[x] \in Sounds' /\ req'[x] \in Timely'
    BY DEF RequestsSound
  <2>1. CASE x # s
    <3>1. Goes(x) /\ req'[x] = req[x]
      BY <1>1, <2>1 DEF Goes
    <3>. QED
      BY <1>0, <1>2, <1>3, <3>1, GoesSound
  <2>. QED
    BY <1>1, <2>1
<1>6. Exclusive'
  BY <1>0, <1>1 DEF Exclusive
<1>7. EpochsSound'
  <2>1. s \notin void
    BY <1>0, <1>1, Unvoid
  <2>2. \A x \in Slots : x \in void' => x \in void /\ req'[x].p = req[x].p
    BY <1>1, <2>1
  <2>. QED
    BY <1>0, <1>2, <1>3, <2>2, EpochsFrame
<1>8. GrantsSound'
  BY <1>0, GrantsFrame
<1>9. OwnerKept /\ RoleKept
  BY RolesKept
<1>10. OpensOnce /\ LandsInMembership
  BY <1>0, NoSessions
<1>. QED
  BY <1>2, <1>4, <1>5, <1>6, <1>7, <1>8, <1>9, <1>10 DEF StepGood, IInv

LEMMA CreateInviteGood ==
    ASSUME IInv, NEW s \in Slots, NEW b \in Browsers, NEW o \in live, NEW t \in Users,
           NEW a \in {"admin", "member"}, CreateInvite(s, b, o, t, a)
    PROVE  StepGood
<1>0. TypeOK /\ LinksSound /\ Authenticated(b) /\ o \in born /\ a \in Roles /\ "invite" \in SessionOps
  BY DEF IInv, TypeOK, CreateInvite, Roles, SessionOps
<1>. DEFINE r == Request("invite", b, o, t, a)
<1>1. Open(s, r) /\ UNCHANGED <<live, born, role, epoch, key, session, signVars, history>>
  BY DEF CreateInvite
<1>2. /\ r \in Requests
      /\ r.op = "invite" /\ r.by = b /\ r.p = session[b] /\ r.org = o /\ r.who = t /\ r.arg = a
      /\ r.rows = {} /\ r.got = None /\ r.invs = {} /\ r.fresh
  BY <1>0, RequestType
<1>. HIDE DEF r
<1>3. UNCHANGED <<link, inv, sso, ssoCookie, grants, uses, begun, void>>
  BY <1>1 DEF signVars, history
<1>4. r \in Sounds'
  BY <1>0, <1>1, <1>2, CallerSound
<1>5. r \in Timely'
  BY <1>2 DEF Timely
<1>6. LinksSound'
  BY <1>0, <1>1, <1>3, LinksFrame DEF EpochsGrow, TypeOK
<1>. QED
  BY <1>0, <1>1, <1>2, <1>3, <1>4, <1>5, <1>6, IdsApart, SignOpen DEF TypeOK

LEMMA AcceptInviteGood ==
    ASSUME IInv, NEW s \in Slots, NEW b \in Browsers, NEW i \in Invites, AcceptInvite(s, b, i)
    PROVE  StepGood
<1>0. TypeOK /\ LinksSound /\ Authenticated(b) /\ "none" \in Roles /\ "accept" \in SessionOps
  BY DEF IInv, TypeOK, AcceptInvite, Roles, SessionOps
<1>1. inv[i].st = "pending" /\ session[b].user = inv[i].user
  BY DEF AcceptInvite
<1>2. inv[i].org \in live /\ inv[i].org \in born /\ inv[i].user \in Users
  BY <1>0, <1>1, InviteRows DEF IInv, TypeOK, NoOrphans, Kept, InvRows
<1>. DEFINE q == Request("accept", b, inv[i].org, inv[i].user, "none")
            r == [q EXCEPT !.got = i]
<1>3. Open(s, r) /\ UNCHANGED <<live, born, role, epoch, key, session, signVars, history>>
  BY DEF AcceptInvite
<1>4. /\ q \in Requests
      /\ q.op = "accept" /\ q.by = b /\ q.p = session[b] /\ q.org = inv[i].org /\ q.who = inv[i].user
      /\ q.rows = {}
  BY <1>0, <1>2, RequestType
<1>. HIDE DEF q
<1>5. /\ r \in Requests /\ r.op = "accept" /\ r.by = b /\ r.p = session[b] /\ r.org = inv[i].org
      /\ r.who = inv[i].user /\ r.rows = {} /\ r.got = i
  BY <1>4 DEF Requests
<1>. HIDE DEF r
<1>6. UNCHANGED <<link, inv, sso, ssoCookie, grants, uses, begun, void>>
  BY <1>3 DEF signVars, history
<1>7. session[b] \in Issued'
  <2>1. session[b] \in Issued
    BY <1>0, CallerIssued
  <2>. QED
    BY <1>3, <2>1 DEF Issued
<1>8. r \in Sounds'
  BY <1>1, <1>2, <1>3, <1>5, <1>7 DEF Sounds, SignIns, CookieOps
<1>9. r \in Timely'
  BY <1>5 DEF Timely
<1>10. LinksSound'
  BY <1>0, <1>3, <1>6, LinksFrame DEF EpochsGrow, TypeOK
<1>. QED
  BY <1>0, <1>3, <1>5, <1>6, <1>8, <1>9, <1>10, IdsApart, SignOpen DEF TypeOK

LEMMA SigningInType ==
    ASSUME TypeOK, NEW op \in SignIns, NEW b \in Browsers, NEW u \in Users, NEW x \in Links \cup States
    PROVE  LET r == SigningIn(op, b, u, x)
           IN  /\ r \in Requests /\ r.op = op /\ r.by = b /\ r.who = u /\ r.got = x
               /\ r.org = None /\ r.invs = {} /\ r.p \in Tickets /\ r.p.user = u
<1>. DEFINE R == IF epoch[u] = None THEN {} ELSE {u}
            p == [user |-> u, org |-> None, epoch |-> IF epoch[u] = None THEN 0 ELSE epoch[u]]
            r == [Idle EXCEPT !.op = op, !.by = b, !.who = u, !.got = x, !.arg = "listing", !.rows = R, !.p = p]
<1>1. SigningIn(op, b, u, x) = r
  BY DEF SigningIn
<1>2. epoch[u] \in Nat \cup {None}
  BY DEF TypeOK
<1>3. p \in Principals /\ p \in Tickets /\ p.user = u
  BY <1>2, NoneApart DEF Principals, Tickets, Issued
<1>4. R \in SUBSET Users
  OBVIOUS
<1>. HIDE DEF R, p
<1>5. r \in Requests
  <2>. DEFINE a == "listing"
  <2>1. a \in Roles \cup Bootstrapping /\ op \in {"verify", "callback"}
    BY DEF Bootstrapping, SignIns
  <2>. HIDE DEF a
  <2>. DEFINE q == [Idle EXCEPT !.op = op, !.by = b, !.who = u]
  <2>2. q \in Requests
    BY <2>1, IdleSound DEF Requests
  <2>3. [q EXCEPT !.got = x, !.arg = a, !.rows = R, !.p = p]
          = [Idle EXCEPT !.op = op, !.by = b, !.who = u, !.got = x, !.arg = a, !.rows = R, !.p = p]
    BY IdleSound DEF Requests
  <2>. HIDE DEF q
  <2>4. [q EXCEPT !.got = x, !.arg = a, !.rows = R, !.p = p] \in Requests
    BY <1>3, <1>4, <2>1, <2>2 DEF Requests
  <2>. QED
    BY <2>3, <2>4 DEF a
<1>6. /\ r.op = op /\ r.by = b /\ r.who = u /\ r.got = x /\ r.org = None /\ r.invs = {} /\ r.p = p
  BY DEF Idle
<1>. QED
  BY <1>1, <1>3, <1>5, <1>6

LEMMA VerifyMagicLinkGood ==
    ASSUME IInv, NEW s \in Slots, NEW b \in Browsers, NEW l \in Links, VerifyMagicLink(s, b, l)
    PROVE  StepGood
<1>0. TypeOK /\ LinksSound /\ "verify" \in SignIns
  BY DEF IInv, SignIns
<1>. DEFINE u == link[l].user
            r == SigningIn("verify", b, u, l)
<1>1. /\ link[l].st = "active" /\ ~Locked(l) /\ Open(s, r)
      /\ UNCHANGED <<live, born, role, epoch, key, session, signVars, history>>
  BY DEF VerifyMagicLink
<1>2. UNCHANGED <<link, inv, sso, ssoCookie, grants, uses, begun, void>>
  BY <1>1 DEF signVars, history
<1>3. u \in Users
  BY <1>0, <1>1 DEF TypeOK, NoLink
<1>. HIDE DEF u
<1>4. /\ r \in Requests /\ r.op = "verify" /\ r.by = b /\ r.who = u /\ r.got = l
      /\ r.org = None /\ r.invs = {} /\ r.p \in Tickets /\ r.p.user = u
  BY <1>0, <1>3, SigningInType
<1>. HIDE DEF r
<1>5. r.p \in Tickets'
  BY <1>1, <1>4 DEF Tickets, Issued
<1>6. r \in Sounds'
  BY <1>1, <1>2, <1>3, <1>4, <1>5 DEF Sounds, SignIns, SessionOps, CookieOps, u
<1>7. r \in Timely'
  BY <1>4 DEF Timely
<1>8. \A x \in Slots \ {s} : req[x].got # r.got
  BY <1>1, <1>4, Holds DEF Locked
<1>9. LinksSound'
  BY <1>0, <1>1, <1>2, LinksFrame DEF EpochsGrow, TypeOK
<1>. QED
  BY <1>0, <1>1, <1>2, <1>4, <1>6, <1>7, <1>8, <1>9, SignOpen DEF TypeOK

LEMMA CallbackSSOGood ==
    ASSUME IInv, NEW s \in Slots, NEW b \in Browsers, NEW x \in States, NEW u \in Users,
           CallbackSSO(s, b, x, u)
    PROVE  StepGood
<1>0. TypeOK /\ NoOrphans /\ EpochsSound /\ LinksSound /\ GrantsSound /\ "callback" \in SignIns
  BY DEF IInv, SignIns
<1>1. /\ sso[x] /\ sso' = [sso EXCEPT ![x] = FALSE] /\ ssoCookie' = [ssoCookie EXCEPT ![b] = None]
      /\ UNCHANGED <<live, born, role, epoch, key, session, link, inv, history>>
  BY DEF CallbackSSO
<1>2. UNCHANGED <<grants, uses, begun, void>>
  BY <1>1 DEF history
<1>3. /\ sso' \in [States -> BOOLEAN] /\ ~sso'[x] /\ \A y \in States : sso'[y] => sso[y]
      /\ \A y \in States \ {x} : sso'[y] = sso[y]
  BY <1>0, <1>1 DEF TypeOK
<1>4. /\ ssoCookie' \in [Browsers -> States \cup {None}]
      /\ \A y \in Browsers : ssoCookie'[y] # None => ssoCookie'[y] = ssoCookie[y]
  BY <1>0, <1>1 DEF TypeOK
<1>5. LinksSound'
  BY <1>0, <1>1, <1>2, <1>3, <1>4 DEF LinksSound
<1>6. \A y \in Slots : req[y].op = "callback" => sso'[req[y].got] = sso[req[y].got]
  BY <1>1, <1>3, Holds
<1>7. CASE ssoCookie[b] = x /\ Open(s, SigningIn("callback", b, u, x))
  <2>. DEFINE r == SigningIn("callback", b, u, x)
  <2>1. /\ r \in Requests /\ r.op = "callback" /\ r.by = b /\ r.who = u /\ r.got = x
        /\ r.org = None /\ r.invs = {} /\ r.p \in Tickets /\ r.p.user = u
    BY <1>0, SigningInType
  <2>2. Open(s, r)
    BY <1>7
  <2>. HIDE DEF r
  <2>3. r.p \in Tickets'
    BY <1>1, <2>1 DEF Tickets, Issued
  <2>4. begun'[x] = b /\ uses'[x] = 0
    <3>1. x # None
      BY IdsApart
    <3>. QED
      BY <1>0, <1>1, <1>2, <1>7, <3>1 DEF LinksSound
  <2>5. r \in Sounds'
    BY <1>3, <2>1, <2>3, <2>4 DEF Sounds, SignIns, SessionOps, CookieOps
  <2>6. r \in Timely'
    BY <2>1 DEF Timely
  <2>7. \A y \in Slots \ {s} : req[y].got # r.got
    BY <1>1, <2>1, Holds
  <2>. QED
    BY <1>1, <1>2, <1>3, <1>4, <1>5, <1>6, <2>1, <2>2, <2>5, <2>6, <2>7, SignOpen
<1>8. CASE Arrives /\ UNCHANGED req
  <2>1. TypeOK'
    BY <1>0, <1>1, <1>2, <1>3, <1>4, <1>8, ArrivesType DEF TypeOK
  <2>2. EpochsGrow
    BY <1>0, <1>1 DEF TypeOK, EpochsGrow
  <2>3. RequestsSound' /\ Exclusive' /\ OwnerKept /\ RoleKept
    BY <1>1, <1>2, <1>6, <1>8, <2>1, <2>2, QuietRequests
  <2>4. NoOrphans'
    BY <1>0, <1>1 DEF NoOrphans, MembersOf
  <2>5. EpochsSound'
    BY <1>0, <1>1, <1>2, <1>8, <2>1, <2>2, EpochsFrame
  <2>6. GrantsSound'
    BY <1>0, <1>1, <1>2, GrantsFrame
  <2>7. OpensOnce /\ LandsInMembership
    BY <1>0, <1>1, <1>2, <1>5, NoSessions
  <2>. QED
    BY <1>5, <2>1, <2>3, <2>4, <2>5, <2>6, <2>7 DEF StepGood, IInv
<1>. QED
  BY <1>7, <1>8 DEF CallbackSSO

-----------------------------------------------------------------------------
(* The steps that leave the requests alone. *)

\* The state of one invitation changes.
LEMMA InviteMoves ==
    ASSUME IInv, NEW i \in Invites, inv[i].st \in Kept, NEW st \in {"gone", "expired"},
           st = "expired" => inv[i].st = "pending",
           inv' = [inv EXCEPT ![i].st = st], started' \in 0..MaxRequests,
           UNCHANGED <<live, born, role, epoch, key, session, req, link, sso, ssoCookie, history>>
    PROVE  StepGood
<1>0. TypeOK /\ NoOrphans /\ EpochsSound /\ LinksSound /\ GrantsSound
  BY DEF IInv
<1>1. UNCHANGED <<grants, uses, begun, void>>
  BY DEF history
<1>. DEFINE v == [inv[i] EXCEPT !.st = st]
<1>2. v \in InvRows /\ v.st = st /\ v.org = inv[i].org /\ inv[i] \in InvRows
  BY <1>0, InviteRows, InviteBecomes DEF Kept
<1>3. inv' = [inv EXCEPT ![i] = v]
  BY <1>0 DEF TypeOK
<1>. HIDE DEF v
<1>4. /\ inv' \in [Invites -> InvRows \cup {NoInvite}] /\ inv'[i] = v
      /\ \A j \in Invites \ {i} : inv'[j] = inv[j]
  BY <1>0, <1>2, <1>3 DEF TypeOK, InvRows
<1>5. TypeOK'
  BY <1>0, <1>1, <1>4 DEF TypeOK, InvRows
<1>6. EpochsGrow
  BY <1>0 DEF TypeOK, EpochsGrow
<1>7. \A j \in Invites : inv[j] # NoInvite => inv'[j] # NoInvite
  BY <1>2, <1>4 DEF InvRows, NoInvite, Kept
<1>8. RequestsSound' /\ Exclusive' /\ OwnerKept /\ RoleKept
  BY <1>1, <1>5, <1>6, <1>7, QuietRequests
<1>9. NoOrphans'
  BY <1>0, <1>2, <1>4 DEF NoOrphans, MembersOf
<1>10. EpochsSound'
  BY <1>0, <1>1, <1>5, <1>6, EpochsFrame
<1>11. LinksSound'
  BY <1>0, <1>1, <1>6, LinksFrame
<1>12. GrantsSound'
  BY <1>0, <1>1, <1>2, <1>4, GrantsFrame
<1>13. OpensOnce /\ LandsInMembership
  BY <1>0, <1>1, <1>11, NoSessions
<1>. QED
  BY <1>5, <1>8, <1>9, <1>10, <1>11, <1>12, <1>13 DEF StepGood, IInv

LEMMA DeleteInviteGood ==
    ASSUME IInv, NEW b \in Browsers, NEW i \in Invites, DeleteInvite(b, i) PROVE StepGood
  BY InviteMoves, ArrivesType DEF DeleteInvite, IInv

LEMMA PruneGood == ASSUME IInv, NEW i \in Invites, Prune(i) PROVE StepGood
<1>1. inv[i].st \in Kept /\ inv' = [inv EXCEPT ![i].st = "gone"]
      /\ UNCHANGED <<live, born, role, epoch, key, session, req, started, link, sso, ssoCookie, history>>
  BY DEF Prune, Kept, memberVars
<1>. QED
  BY <1>1, InviteMoves DEF IInv, TypeOK

\* Only links and states change.
LEMMA QuietGood ==
    ASSUME IInv, TypeOK', LinksSound',
           UNCHANGED <<live, born, role, epoch, key, session, req, inv, grants, uses, void>>,
           \A x \in Slots : req[x].op = "verify" => link'[req[x].got] = link[req[x].got],
           \A x \in Slots : req[x].op = "callback" =>
             sso'[req[x].got] = sso[req[x].got] /\ begun'[req[x].got] = begun[req[x].got],
           \A l \in Links : link'[l].st = "used" => link'[l].user = link[l].user
    PROVE  StepGood
<1>0. TypeOK /\ NoOrphans /\ EpochsSound /\ LinksSound /\ GrantsSound
  BY DEF IInv
<1>1. EpochsGrow
  BY <1>0 DEF TypeOK, EpochsGrow
<1>2. RequestsSound' /\ Exclusive' /\ OwnerKept /\ RoleKept
  BY <1>1, QuietRequests
<1>3. NoOrphans'
  BY <1>0 DEF NoOrphans, MembersOf
<1>4. EpochsSound'
  BY <1>0, <1>1, EpochsFrame
<1>5. GrantsSound'
  BY <1>0, GrantsFrame
<1>6. OpensOnce /\ LandsInMembership
  BY <1>0, NoSessions
<1>. QED
  BY <1>2, <1>3, <1>4, <1>5, <1>6 DEF StepGood, IInv

LEMMA LinkIssued ==
    ASSUME IInv, NEW l \in Links, NEW u \in Users, Arrives, IssueMagicLink(l, u) PROVE StepGood
<1>0. TypeOK /\ LinksSound
  BY DEF IInv
<1>. DEFINE v == [user |-> u, st |-> "active"]
<1>1. /\ link[l] = NoLink /\ link' = [link EXCEPT ![l] = v]
      /\ UNCHANGED <<live, born, role, epoch, key, session, req, inv, sso, ssoCookie, grants, uses, begun, void>>
  BY DEF IssueMagicLink, history
<1>2. v \in [user: Users, st: {"active", "used", "expired"}] /\ v.st = "active"
  OBVIOUS
<1>. HIDE DEF v
<1>3. /\ link' \in [Links -> [user: Users, st: {"active", "used", "expired"}] \cup {NoLink}]
      /\ link'[l] = v /\ \A k \in Links \ {l} : link'[k] = link[k]
  BY <1>0, <1>1, <1>2 DEF TypeOK
<1>4. TypeOK'
  BY <1>0, <1>1, <1>3, ArrivesType DEF TypeOK
<1>5. link[l].st = "free"
  BY <1>1 DEF NoLink
<1>6. LinksSound'
  BY <1>0, <1>1, <1>2, <1>3, <1>5 DEF LinksSound
<1>7. \A x \in Slots : req[x].op = "verify" => link'[req[x].got] = link[req[x].got]
  BY <1>3, <1>5, Holds
<1>8. \A k \in Links : link'[k].st = "used" => link'[k].user = link[k].user
  BY <1>2, <1>3
<1>. QED
  BY <1>1, <1>4, <1>6, <1>7, <1>8, QuietGood

LEMMA LinksGood ==
    ASSUME IInv, NEW l \in Links,
           \/ \E u \in Users : RequestMagicLink(l, u) \/ RunMagicLink(l, u)
           \/ \E b \in Browsers, i \in Invites : AcceptByLink(b, i, l)
    PROVE  StepGood
<1>1. ASSUME NEW b \in Browsers, NEW i \in Invites, AcceptByLink(b, i, l) PROVE StepGood
  <2>1. inv[i].user \in Users
    BY <1>1, InviteRows DEF IInv, AcceptByLink, Kept, InvRows
  <2>. QED
    BY <1>1, <2>1, LinkIssued DEF AcceptByLink
<1>2. ASSUME NEW u \in Users, RequestMagicLink(l, u) \/ RunMagicLink(l, u) PROVE StepGood
  BY <1>2, LinkIssued DEF RequestMagicLink, RunMagicLink
<1>. QED
  BY <1>1, <1>2

LEMMA StartSSOGood ==
    ASSUME IInv, NEW b \in Browsers, NEW x \in States, StartSSO(b, x) PROVE StepGood
<1>0. TypeOK /\ LinksSound
  BY DEF IInv
<1>1. /\ ~sso[x] /\ begun[x] = None /\ Arrives /\ sso' = [sso EXCEPT ![x] = TRUE]
      /\ ssoCookie' = [ssoCookie EXCEPT ![b] = x] /\ begun' = [begun EXCEPT ![x] = b]
      /\ UNCHANGED <<live, born, role, epoch, key, session, req, link, inv, grants, uses, void>>
  BY DEF StartSSO
<1>2. /\ sso' \in [States -> BOOLEAN] /\ \A y \in States \ {x} : sso'[y] = sso[y]
      /\ begun' \in [States -> Browsers \cup {None}] /\ begun'[x] = b /\ \A y \in States \ {x} : begun'[y] = begun[y]
      /\ ssoCookie' \in [Browsers -> States \cup {None}] /\ ssoCookie'[b] = x
      /\ \A c \in Browsers \ {b} : ssoCookie'[c] = ssoCookie[c]
  BY <1>0, <1>1 DEF TypeOK
<1>3. TypeOK'
  BY <1>0, <1>1, <1>2, ArrivesType DEF TypeOK
<1>4. b # None
  BY NoneApart
<1>5. \A c \in Browsers : ssoCookie[c] # x
  BY <1>0, <1>1, NoneApart, IdsApart DEF LinksSound
<1>6. LinksSound'
  <2>1. \A y \in States : sso'[y] \/ begun'[y] = None => uses'[y] = 0
    BY <1>0, <1>1, <1>2 DEF LinksSound
  <2>2. \A y \in States : sso'[y] => begun'[y] # None
    BY <1>0, <1>1, <1>2, <1>4 DEF LinksSound
  <2>3. \A c \in Browsers : ssoCookie'[c] # None => begun'[ssoCookie'[c]] = c
    <3>. SUFFICES ASSUME NEW c \in Browsers, ssoCookie'[c] # None PROVE begun'[ssoCookie'[c]] = c
      OBVIOUS
    <3>1. CASE c = b
      BY <1>2, <3>1
    <3>2. CASE c # b
      <4>1. ssoCookie'[c] = ssoCookie[c] /\ ssoCookie[c] \in States \ {x}
        BY <1>0, <1>2, <1>5, <3>2 DEF TypeOK
      <4>. QED
        BY <1>0, <1>2, <4>1 DEF LinksSound
    <3>. QED
      BY <3>1, <3>2
  <2>. QED
    BY <1>0, <1>1, <2>1, <2>2, <2>3 DEF LinksSound
<1>7. \A y \in Slots : req[y].op = "callback" => req[y].got \in States \ {x}
  BY <1>1, Holds, NoneApart
<1>. QED
  BY <1>1, <1>2, <1>3, <1>6, <1>7, QuietGood

LEMMA ExpiresGood == ASSUME IInv, Expires PROVE StepGood
<1>0. TypeOK /\ LinksSound
  BY DEF IInv
<1>1. /\ UNCHANGED <<live, born, role, epoch, key, session, req, started, ssoCookie, history>>
      /\ UNCHANGED <<grants, uses, begun, void>>
  BY DEF Expires, memberVars, history
<1>2. ASSUME NEW l \in Links, link[l].st = "active", ~Locked(l), link' = [link EXCEPT ![l].st = "expired"],
             UNCHANGED <<inv, sso>>
      PROVE  StepGood
  <2>. DEFINE v == [link[l] EXCEPT !.st = "expired"]
  <2>1. v \in [user: Users, st: {"active", "used", "expired"}] /\ v.st = "expired"
    BY <1>0, <1>2 DEF TypeOK, NoLink
  <2>2. link' = [link EXCEPT ![l] = v]
    BY <1>0, <1>2 DEF TypeOK
  <2>. HIDE DEF v
  <2>3. /\ link' \in [Links -> [user: Users, st: {"active", "used", "expired"}] \cup {NoLink}]
        /\ link'[l] = v /\ \A k \in Links \ {l} : link'[k] = link[k]
    BY <1>0, <2>1, <2>2 DEF TypeOK
  <2>4. TypeOK'
    BY <1>0, <1>1, <1>2, <2>3 DEF TypeOK
  <2>5. LinksSound'
    BY <1>0, <1>1, <1>2, <2>1, <2>3 DEF LinksSound
  <2>6. \A x \in Slots : req[x].op = "verify" => link'[req[x].got] = link[req[x].got]
    BY <1>2, <2>3, Holds DEF Locked
  <2>7. \A k \in Links : link'[k].st = "used" => link'[k].user = link[k].user
    BY <2>1, <2>3
  <2>. QED
    BY <1>1, <1>2, <2>4, <2>5, <2>6, <2>7, QuietGood
<1>3. ASSUME NEW i \in Invites, inv[i].st = "pending", inv' = [inv EXCEPT ![i].st = "expired"],
             UNCHANGED <<link, sso>>
      PROVE  StepGood
  <2>1. inv[i].st \in Kept /\ started' \in 0..MaxRequests
    BY <1>0, <1>1, <1>3 DEF Kept, TypeOK
  <2>. QED
    BY <1>1, <1>3, <2>1, InviteMoves
<1>4. ASSUME NEW x \in States, sso[x], sso' = [sso EXCEPT ![x] = FALSE], UNCHANGED <<link, inv>>
      PROVE  StepGood
  <2>1. /\ sso' \in [States -> BOOLEAN] /\ ~sso'[x] /\ \A y \in States \ {x} : sso'[y] = sso[y]
    BY <1>0, <1>4 DEF TypeOK
  <2>2. TypeOK'
    BY <1>0, <1>1, <1>4, <2>1 DEF TypeOK
  <2>3. LinksSound'
    BY <1>0, <1>1, <1>4, <2>1 DEF LinksSound
  <2>4. \A y \in Slots : req[y].op = "callback" => req[y].got \in States \ {x}
    BY <1>4, Holds
  <2>. QED
    BY <1>1, <1>4, <2>1, <2>2, <2>3, <2>4, QuietGood
<1>. QED
  BY <1>2, <1>3, <1>4 DEF Expires

LEMMA LogoutGood == ASSUME IInv, NEW b \in Browsers, Logout(b) PROVE StepGood
<1>0. TypeOK /\ NoOrphans /\ RequestsSound /\ EpochsSound /\ LinksSound /\ GrantsSound
  BY DEF IInv
<1>. DEFINE u == session[b].user
<1>1. /\ u # None /\ Arrives /\ session' = [session EXCEPT ![b] = NoSession]
      /\ UNCHANGED <<live, born, role, key, req, link, inv, sso, ssoCookie, grants, uses, begun>>
  BY DEF Logout, signVars
<1>2. session[b] # NoSession
  BY <1>1, NoSessionApart
<1>3. session[b] \in Issued /\ u \in Users /\ epoch[u] \in Nat
  <2>1. session[b] \in Issued
    BY <1>0, <1>2 DEF EpochsSound
  <2>. QED
    BY <1>0, <2>1 DEF Issued, Principals, TypeOK
<1>4. /\ session' \in [Browsers -> Principals \cup {NoSession}] /\ session'[b] = NoSession
      /\ \A c \in Browsers \ {b} : session'[c] = session[c]
  BY <1>0, <1>1 DEF TypeOK
<1>. HIDE DEF u
<1>5. \/ /\ epoch' = [epoch EXCEPT ![u] = @ + 1]
         /\ void' = ((void \cup {x \in Browsers : session[x].user = u}) \ {b}) \cup {s \in Slots : req[s].p.user = u}
      \/ epoch' = epoch /\ void' = void \ {b}
  BY DEF Logout, u
<1>6. /\ epoch' \in [Users -> Nat \cup {None}] /\ EpochsGrow /\ void' \subseteq Browsers \cup Slots
      /\ epoch' # epoch => epoch'[u] = epoch[u] + 1
  <2>1. epoch \in [Users -> Nat \cup {None}] /\ void \subseteq Browsers \cup Slots
    BY <1>0 DEF TypeOK
  <2>2. void' \subseteq Browsers \cup Slots
    BY <1>5, <2>1
  <2>3. CASE epoch' = epoch
    BY <2>1, <2>2, <2>3 DEF EpochsGrow
  <2>4. CASE epoch' = [epoch EXCEPT ![u] = @ + 1]
    <3>1. /\ epoch' \in [Users -> Nat \cup {None}] /\ epoch'[u] = epoch[u] + 1
          /\ \A x \in Users \ {u} : epoch'[x] = epoch[x]
      BY <1>3, <2>1, <2>4
    <3>2. epoch[u] # None /\ epoch[u] + 1 # None
      BY <1>3, NoneApart
    <3>3. EpochsGrow
      BY <1>3, <2>1, <3>1, <3>2 DEF EpochsGrow
    <3>. QED
      BY <2>2, <3>1, <3>3
  <2>. QED
    BY <1>5, <2>3, <2>4
<1>7. TypeOK'
  BY <1>0, <1>1, <1>4, <1>6, ArrivesType DEF TypeOK
<1>8. Issued \subseteq Issued' /\ Ended \subseteq Ended'
  BY <1>0, <1>6, EpochFrame DEF TypeOK
<1>9. ASSUME epoch' # epoch, NEW c \in Issued, c.user = u PROVE c \in Ended'
  <2>1. c \in Issued' /\ c.epoch \in Nat /\ c.epoch <= epoch[u] /\ epoch'[u] = epoch[u] + 1
    BY <1>6, <1>8, <1>9 DEF Issued, Principals
  <2>. QED
    BY <1>3, <1>9, <2>1 DEF Ended
<1>10. ASSUME NEW s \in Slots, req[s].p.user = u PROVE req[s].p \in Issued
  <2>1. req[s] \in Sounds /\ req[s] \in Requests
    BY <1>0 DEF RequestsSound, TypeOK
  <2>2. req[s].op \in SessionOps \cup CookieOps \cup SignIns \cup {"idle", "addowner"}
    BY <2>1 DEF Requests, SessionOps, CookieOps, SignIns
  <2>3. req[s].p # NoSession
    BY <1>3, <1>10, NoSessionApart, NoneApart
  <2>4. CASE req[s].op \in SignIns
    BY <1>3, <1>10, <2>1, <2>4, NoneApart DEF Sounds, Tickets
  <2>5. CASE req[s].op \in SessionOps \cup CookieOps
    BY <2>1, <2>5 DEF Sounds
  <2>. QED
    BY <2>1, <2>2, <2>3, <2>4, <2>5, NoSessionApart DEF Sounds
<1>11. EpochsSound'
  <2>1. ASSUME NEW c \in Browsers
        PROVE  \/ session'[c] = session[c] /\ (c \in void' => c \in void)
               \/ session'[c] = NoSession
               \/ session'[c] \in Issued' /\ (c \in void' => session'[c] \in Ended')
    <3>1. CASE c = b \/ session[c] = NoSession
      BY <1>4, <3>1
    <3>2. CASE c # b /\ session[c] # NoSession
      <4>1. session'[c] = session[c] /\ session[c] \in Issued
        BY <1>0, <1>4, <3>2 DEF EpochsSound
      <4>2. CASE session[c].user = u /\ epoch' # epoch
        BY <1>8, <1>9, <4>1, <4>2
      <4>3. CASE session[c].user # u \/ epoch' = epoch
        <5>1. c \in void' => c \in void
          <6>1. epoch[u] + 1 # epoch[u]
            BY <1>3
          <6>2. epoch' = epoch => void' = void \ {b}
            <7>1. epoch' = [epoch EXCEPT ![u] = @ + 1] => epoch'[u] = epoch[u] + 1
              BY <1>0, <1>3 DEF TypeOK
            <7>. QED
              BY <1>5, <6>1, <7>1
          <6>. QED
            BY <1>5, <4>3, <6>2, SlotsApart
        <5>. QED
          BY <4>1, <5>1
      <4>. QED
        BY <4>2, <4>3
    <3>. QED
      BY <3>1, <3>2
  <2>2. ASSUME NEW s \in Slots, s \in void'
        PROVE  (s \in void /\ req'[s].p = req[s].p) \/ req'[s].p \in Ended'
    <3>1. CASE s \in void
      BY <1>1, <3>1
    <3>2. CASE s \notin void
      <4>1. epoch' = [epoch EXCEPT ![u] = @ + 1] /\ req[s].p.user = u
        BY <1>5, <2>2, <3>2, SlotsApart
      <4>2. epoch' # epoch
        <5>1. epoch'[u] = epoch[u] + 1
          BY <1>0, <1>3, <4>1 DEF TypeOK
        <5>. QED
          BY <1>3, <5>1
      <4>. QED
        BY <1>1, <1>9, <1>10, <4>1, <4>2
    <3>. QED
      BY <3>1, <3>2
  <2>. QED
    BY <1>0, <1>6, <1>7, <2>1, <2>2, EpochsFrame
<1>12. RequestsSound' /\ Exclusive' /\ OwnerKept /\ RoleKept
  BY <1>1, <1>6, <1>7, QuietRequests
<1>13. NoOrphans'
  BY <1>0, <1>1 DEF NoOrphans, MembersOf
<1>14. LinksSound'
  BY <1>0, <1>1, <1>6, LinksFrame
<1>15. GrantsSound'
  BY <1>0, <1>1, GrantsFrame
<1>16. OpensOnce /\ LandsInMembership
  <2>1. \A s \in Slots : ~Completes(s, {"cookie"})
    BY <1>1 DEF Completes
  <2>. QED
    BY <1>1, <1>14, <2>1 DEF OpensOnce, LandsInMembership, LinksSound
<1>. QED
  BY <1>7, <1>11, <1>12, <1>13, <1>14, <1>15, <1>16 DEF StepGood, IInv

-----------------------------------------------------------------------------
(* The steps of a request that is under way. *)

LEMMA SlotChanges ==
    ASSUME IInv, NEW s \in Slots, NEW n \in Requests, req' = [req EXCEPT ![s] = n],
           n \in Sounds', n \in Timely', n.got = req[s].got, void' \subseteq void, s \in void' => n.p = req[s].p,
           UNCHANGED <<live, born, role, epoch, key, session, started, link, inv, sso, ssoCookie, grants, uses, begun>>
    PROVE  StepGood
<1>0. TypeOK /\ NoOrphans /\ RequestsSound /\ Exclusive /\ EpochsSound /\ LinksSound /\ GrantsSound
  BY DEF IInv
<1>1. /\ req' \in [Slots -> Requests] /\ req'[s] = n /\ \A x \in Slots \ {s} : req'[x] = req[x]
  BY <1>0 DEF TypeOK
<1>2. TypeOK'
  BY <1>0, <1>1 DEF TypeOK
<1>3. EpochsGrow
  BY <1>0 DEF TypeOK, EpochsGrow
<1>4. RequestsSound'
  <2>. SUFFICES ASSUME NEW x \in Slots PROVE req'[x] \in Sounds' /\ req'[x] \in Timely'
    BY DEF RequestsSound
  <2>1. CASE x # s
    <3>1. Goes(x)
      BY <1>1, <2>1 DEF Goes
    <3>. QED
      BY <1>0, <1>2, <1>3, <3>1, GoesSound
  <2>. QED
    BY <1>1, <2>1
<1>5. Exclusive'
  <2>1. \A x \in Slots : req'[x].got = req[x].got
    BY <1>1
  <2>. QED
    BY <1>0, <2>1, ExclusiveFrame
<1>6. NoOrphans'
  BY <1>0 DEF NoOrphans, MembersOf
<1>7. EpochsSound'
  <2>1. \A x \in Slots : x \in void' => x \in void /\ req'[x].p = req[x].p
    BY <1>1
  <2>2. \A b \in Browsers : session'[b] = session[b] /\ (b \in void' => b \in void)
    OBVIOUS
  <2>. QED
    BY <1>0, <1>2, <1>3, <2>1, <2>2, EpochsFrame
<1>8. LinksSound' /\ GrantsSound'
  BY <1>0, <1>3, LinksFrame, GrantsFrame
<1>9. OwnerKept /\ RoleKept /\ OpensOnce /\ LandsInMembership
  BY <1>0, <1>8, RolesKept, NoSessions
<1>. QED
  BY <1>2, <1>4, <1>5, <1>6, <1>7, <1>8, <1>9 DEF StepGood, IInv

\* A sign-in that is under way.
LEMMA SigningUp ==
    ASSUME IInv, NEW s \in Slots, req[s].op \in SignIns
    PROVE  /\ TypeOK /\ req[s] \in Requests /\ req[s] \in Sounds /\ req[s] # Idle /\ req[s].by \in Browsers
           /\ req[s].who \in Users /\ req[s].org = None /\ req[s].p \in Tickets /\ req[s].p \in Principals
           /\ req[s].p.user = req[s].who /\ req[s].invs \subseteq Invites
           /\ \A i \in req[s].invs : inv[i] \in InvRows
           /\ req[s].got \in Links \cup States
<1>1. TypeOK /\ req[s] \in Requests /\ req[s] \in Sounds
  BY DEF IInv, TypeOK, RequestsSound
<1>2. /\ req[s].by \in Browsers /\ req[s].who \in Users /\ req[s].org = None /\ req[s].p \in Tickets
      /\ req[s].p.user = req[s].who /\ \A i \in req[s].invs : inv[i] # NoInvite
  BY <1>1 DEF Sounds
<1>3. req[s].p \in Principals
  BY <1>2 DEF Tickets, Issued
<1>4. req[s] # Idle
  BY DEF Idle, SignIns
<1>5. req[s].invs \subseteq Invites
  BY <1>1 DEF Requests
<1>6. \A i \in req[s].invs : inv[i] \in InvRows
  BY <1>1, <1>2, <1>5, InviteRows
<1>7. req[s].got \in Links \cup States
  BY Holds DEF SignIns
<1>. QED
  BY <1>1, <1>2, <1>3, <1>4, <1>5, <1>6, <1>7

LEMMA ListPendingGood ==
    ASSUME IInv, NEW s \in Slots, ListPendingOrgInvitesByEmail(s) PROVE StepGood
<1>. DEFINE r == req[s]
            u == r.who
            e == IF r.rows = {} /\ epoch[u] # None THEN epoch[u] ELSE r.p.epoch
            p == [r.p EXCEPT !.epoch = e]
            I == {i \in Invites : inv[i].user = u /\ inv[i].st = "pending"}
            a == "counting"
            n == [r EXCEPT !.arg = a, !.p = p, !.invs = I]
<1>1. /\ r.op \in SignIns /\ void' = IF r.rows = {} THEN void \ {s} ELSE void
      /\ UNCHANGED <<live, born, role, epoch, key, session, started, link, inv, sso, ssoCookie, grants, uses, begun>>
  BY DEF ListPendingOrgInvitesByEmail, signVars
<1>2. /\ TypeOK /\ r \in Requests /\ r \in Sounds /\ r.by \in Browsers
      /\ u \in Users /\ r.org = None /\ r.p \in Tickets /\ r.p \in Principals /\ r.p.user = u
  BY <1>1, SigningUp
<1>3. req' = [req EXCEPT ![s] = n]
  BY <1>2 DEF ListPendingOrgInvitesByEmail, TypeOK, Requests, Principals
<1>4. e \in Nat /\ (r.rows # {} => e = r.p.epoch) /\ (e # r.p.epoch => epoch[u] # None /\ e = epoch[u])
  BY <1>2 DEF TypeOK, Principals
<1>. HIDE DEF e
<1>5. p \in Principals /\ p.user = u /\ p.epoch = e /\ (e = r.p.epoch => p = r.p)
  BY <1>2, <1>4 DEF Principals
<1>. HIDE DEF p
<1>6. p \in Tickets
  BY <1>2, <1>4, <1>5 DEF Tickets, Issued, TypeOK
<1>7. I \subseteq Invites /\ \A i \in I : inv[i] # NoInvite
  BY DEF NoInvite
<1>8. a \in Roles \cup Bootstrapping /\ a # "minting"
  BY DEF Bootstrapping
<1>. HIDE DEF I, a
<1>9. /\ n \in Requests /\ n.op = r.op /\ n.by = r.by /\ n.p = p /\ n.org = r.org /\ n.who = u /\ n.rows = r.rows
      /\ n.got = r.got /\ n.invs = I /\ n.arg = a
  BY <1>2, <1>5, <1>7, <1>8 DEF Requests
<1>. HIDE DEF n
<1>10. p \in Tickets'
  BY <1>1, <1>6 DEF Tickets, Issued
<1>11. n \in Sounds'
  BY <1>1, <1>2, <1>5, <1>7, <1>8, <1>9, <1>10 DEF Sounds, SignIns, SessionOps, CookieOps
<1>12. n \in Timely'
  BY <1>1, <1>9 DEF Timely, SignIns
<1>13. void' \subseteq void /\ (s \in void' => n.p = r.p)
  BY <1>1, <1>4, <1>5, <1>9
<1>. QED
  BY <1>1, <1>3, <1>9, <1>11, <1>12, <1>13, SlotChanges

LEMMA CountGood ==
    ASSUME IInv, NEW s \in Slots, CountOrgMembershipsForUser(s) PROVE StepGood
<1>. DEFINE r == req[s]
            a == IF r.invs = {} /\ OrgsOf(r.who) = {} THEN "minting" ELSE "joining"
            n == [r EXCEPT !.arg = a]
<1>1. /\ r.op \in SignIns /\ void' = void
      /\ UNCHANGED <<live, born, role, epoch, key, session, started, link, inv, sso, ssoCookie, grants, uses, begun>>
  BY DEF CountOrgMembershipsForUser, signVars, history
<1>2. /\ TypeOK /\ r \in Requests /\ r \in Sounds /\ r \in Timely
  BY <1>1, SigningUp DEF IInv, RequestsSound
<1>3. req' = [req EXCEPT ![s] = n]
  BY <1>2 DEF CountOrgMembershipsForUser, TypeOK
<1>4. a \in Roles \cup Bootstrapping /\ (a = "minting" => r.invs = {})
  BY DEF Bootstrapping
<1>. HIDE DEF a
<1>5. /\ n \in Requests /\ n.op = r.op /\ n.by = r.by /\ n.p = r.p /\ n.org = r.org /\ n.who = r.who
      /\ n.rows = r.rows /\ n.got = r.got /\ n.invs = r.invs /\ n.arg = a
  BY <1>2, <1>4 DEF Requests
<1>. HIDE DEF n
<1>6. r.p \in Tickets /\ r.p \in Tickets'
  BY <1>1, <1>2 DEF Sounds, Tickets, Issued
<1>7. n \in Sounds'
  BY <1>1, <1>2, <1>4, <1>5, <1>6 DEF Sounds, SignIns, SessionOps, CookieOps
<1>8. n \in Timely'
  BY <1>1, <1>5 DEF Timely, SignIns
<1>. QED
  BY <1>1, <1>3, <1>5, <1>7, <1>8, SlotChanges

LEMMA IssueOrgInviteGood ==
    ASSUME IInv, NEW s \in Slots, NEW i \in Invites, IssueOrgInvite(s, i) PROVE StepGood
<1>0. TypeOK /\ NoOrphans /\ RequestsSound /\ Exclusive /\ EpochsSound /\ LinksSound /\ GrantsSound
  BY DEF IInv
<1>. DEFINE r == req[s]
            v == [org |-> r.org, user |-> r.who, role |-> r.arg, st |-> "pending"]
<1>1. /\ r.op = "invite" /\ inv[i] = NoInvite /\ void' = void \ {s} /\ Answered(s)
      /\ inv' = IF Insertable(r.org, r.who) THEN [inv EXCEPT ![i] = v] ELSE inv
      /\ UNCHANGED <<live, born, role, epoch, key, session, started, link, sso, ssoCookie, grants, uses, begun>>
  BY DEF IssueOrgInvite
<1>2. r.org \in Orgs /\ r.who \in Users /\ r.arg \in {"admin", "member"}
  <2>1. r \in Sounds /\ r.org \in Orgs /\ r.who \in Users
    BY <1>1, Underway DEF SessionOps
  <2>. QED
    BY <1>1, <2>1 DEF Sounds
<1>3. v \in InvRows /\ v.st = "pending" /\ v.org = r.org
  BY <1>2 DEF InvRows, Kept
<1>. HIDE DEF v
<1>4. /\ inv' \in [Invites -> InvRows \cup {NoInvite}] /\ \A j \in Invites \ {i} : inv'[j] = inv[j]
      /\ inv'[i] = NoInvite \/ (inv'[i] = v /\ r.org \in live)
  BY <1>0, <1>1, <1>3 DEF TypeOK, InvRows, Insertable
<1>5. /\ req' \in [Slots -> Requests] /\ \A x \in Slots : Goes(x)
      /\ req'[s] = Idle /\ \A x \in Slots \ {s} : req'[x] = req[x]
  BY <1>0, <1>1, AnsweredGo
<1>6. TypeOK'
  BY <1>0, <1>1, <1>4, <1>5 DEF TypeOK, InvRows
<1>7. EpochsGrow
  BY <1>0, <1>1 DEF TypeOK, EpochsGrow
<1>8. RequestsSound'
  <2>1. \A j \in Invites : inv[j] # NoInvite => inv'[j] # NoInvite
    BY <1>1, <1>4
  <2>2. ASSUME NEW x \in Slots PROVE req'[x] \in Sounds' /\ req'[x] \in Timely'
    BY <1>0, <1>1, <1>5, <1>6, <1>7, <2>1, GoesSound
  <2>. QED
    BY <2>2 DEF RequestsSound
<1>9. Exclusive'
  <2>1. \A x \in Slots : req'[x].got = req[x].got \/ req'[x].got \notin Links \cup States
    BY <1>5, IdsApart DEF Idle
  <2>. QED
    BY <1>0, <2>1, ExclusiveFrame
<1>10. NoOrphans'
  BY <1>0, <1>1, <1>3, <1>4, InviteRows DEF NoOrphans, MembersOf, Kept
<1>11. EpochsSound'
  <2>1. \A x \in Slots : x \in void' => x \in void /\ req'[x].p = req[x].p
    BY <1>1, <1>5
  <2>2. \A b \in Browsers : session'[b] = session[b] /\ (b \in void' => b \in void)
    BY <1>1
  <2>. QED
    BY <1>0, <1>6, <1>7, <2>1, <2>2, EpochsFrame
<1>12. LinksSound'
  BY <1>0, <1>1, <1>7, LinksFrame
<1>13. GrantsSound'
  <2>1. inv[i].st = "free" /\ inv'[i].st \in {"free", "pending"}
    BY <1>1, <1>3, <1>4 DEF NoInvite
  <2>. QED
    BY <1>0, <1>1, <1>4, <2>1, GrantsFrame
<1>14. OwnerKept /\ RoleKept /\ OpensOnce /\ LandsInMembership
  BY <1>0, <1>1, <1>12, RolesKept, NoSessions
<1>. QED
  BY <1>6, <1>8, <1>9, <1>10, <1>11, <1>12, <1>13, <1>14 DEF StepGood, IInv

\* The requests go on and the sessions stay.
LEMMA RequestsGoOn ==
    ASSUME IInv, TypeOK', EpochsGrow, born \subseteq born', UNCHANGED <<session, void, sso, begun>>,
           \A x \in Slots : Goes(x) \/ (req'[x] \in Sounds' /\ req'[x] \in Timely'),
           \A x \in Slots : req'[x].got = req[x].got \/ req'[x].got = None,
           \A x \in Slots : x \in void => req'[x].p = req[x].p,
           \A i \in Invites : inv[i] # NoInvite => inv'[i] # NoInvite,
           \A x \in Slots : req'[x].op = "verify" => link'[req'[x].got] = link[req'[x].got],
           \A x \in Slots : req'[x].op = "callback" => uses'[req'[x].got] = uses[req'[x].got]
    PROVE  RequestsSound' /\ Exclusive' /\ EpochsSound'
<1>0. TypeOK /\ RequestsSound /\ Exclusive /\ EpochsSound
  BY DEF IInv
<1>1. RequestsSound'
  <2>1. ASSUME NEW x \in Slots PROVE req'[x] \in Sounds' /\ req'[x] \in Timely'
    BY <1>0, GoesSound
  <2>. QED
    BY <2>1 DEF RequestsSound
<1>2. Exclusive'
  BY <1>0, IdsApart, ExclusiveFrame
<1>3. EpochsSound'
  BY <1>0, EpochsFrame
<1>. QED
  BY <1>1, <1>2, <1>3

LEMMA ConsumeGood == ASSUME IInv, NEW s \in Slots, ConsumeOrgInvite(s) PROVE StepGood
<1>0. TypeOK /\ NoOrphans /\ RequestsSound /\ Exclusive /\ EpochsSound /\ LinksSound /\ GrantsSound
  BY DEF IInv
<1>. DEFINE r == req[s]
            i == r.got
<1>1. /\ r.op = "accept"
      /\ UNCHANGED <<live, born, epoch, key, session, started, link, sso, ssoCookie, uses, begun>>
  BY DEF ConsumeOrgInvite
<1>2. /\ r \in Sounds /\ r # Idle /\ r.by \in Browsers /\ r.p \in Issued /\ r.p \in Principals /\ r.who \in Users
  BY <1>1, Underway DEF SessionOps
<1>3. i \in Invites /\ r.who = r.p.user
  BY <1>1, <1>2 DEF Sounds
<1>4. EpochsGrow
  BY <1>0, <1>1 DEF TypeOK, EpochsGrow
<1>5. LinksSound'
  BY <1>0, <1>1, <1>4, LinksFrame
<1>6. CASE ~Acceptable(i, r.who)
  <2>1. Answered(s) /\ void' = void \ {s} /\ UNCHANGED <<role, inv, grants>>
    BY <1>6 DEF ConsumeOrgInvite
  <2>2. req' = [req EXCEPT ![s] = Idle]
    BY <2>1 DEF Answered
  <2>3. /\ req' \in [Slots -> Requests] /\ \A x \in Slots : Goes(x)
        /\ req'[s] = Idle /\ \A x \in Slots \ {s} : req'[x] = req[x]
    BY <1>0, <2>1, AnsweredGo
  <2>4. TypeOK'
    BY <1>0, <1>1, <2>1, <2>3 DEF TypeOK
  <2>5. RequestsSound'
    <3>1. ASSUME NEW x \in Slots PROVE req'[x] \in Sounds' /\ req'[x] \in Timely'
      BY <1>0, <1>1, <1>4, <2>1, <2>3, <2>4, GoesSound
    <3>. QED
      BY <3>1 DEF RequestsSound
  <2>6. Exclusive'
    <3>1. \A x \in Slots : req'[x].got = req[x].got \/ req'[x].got \notin Links \cup States
      BY <2>3, IdsApart DEF Idle
    <3>. QED
      BY <1>0, <3>1, ExclusiveFrame
  <2>7. NoOrphans'
    BY <1>0, <1>1, <2>1 DEF NoOrphans, MembersOf
  <2>8. EpochsSound'
    <3>1. \A x \in Slots : x \in void' => x \in void /\ req'[x].p = req[x].p
      BY <2>1, <2>3
    <3>2. \A b \in Browsers : session'[b] = session[b] /\ (b \in void' => b \in void)
      BY <1>1, <2>1
    <3>. QED
      BY <1>0, <1>4, <2>4, <3>1, <3>2, EpochsFrame
  <2>9. GrantsSound'
    BY <1>0, <2>1, GrantsFrame
  <2>10. OwnerKept /\ RoleKept /\ OpensOnce /\ LandsInMembership
    BY <1>0, <1>1, <1>5, <2>1, RolesKept, NoSessions
  <2>. QED
    BY <1>5, <2>4, <2>5, <2>6, <2>7, <2>8, <2>9, <2>10 DEF StepGood, IInv
<1>7. CASE Acceptable(i, r.who)
  <2>. DEFINE o == inv[i].org
              g == IF role[o][r.who] # "none" THEN role[o] ELSE [role[o] EXCEPT ![r.who] = inv[i].role]
              v == [inv[i] EXCEPT !.st = "accepted"]
              n == SetsCookie(r, o)
  <2>1. /\ SetMembers(s, n, o, g) /\ inv' = [inv EXCEPT ![i].st = "accepted"]
        /\ Granted({i}) /\ void' = void
    BY <1>7 DEF ConsumeOrgInvite
  <2>2. inv[i].st = "pending" /\ inv[i] \in InvRows /\ o \in live /\ o \in Orgs /\ inv[i].role \in {"admin", "member"}
    BY <1>0, <1>3, <1>7, InviteRows DEF Acceptable, Kept, NoOrphans, InvRows, TypeOK
  <2>3. v \in InvRows /\ v.st = "accepted" /\ v.org = o
    BY <2>2, InviteBecomes DEF Kept
  <2>4. inv' = [inv EXCEPT ![i] = v]
    BY <1>0, <2>1 DEF TypeOK
  <2>. HIDE DEF v
  <2>5. /\ inv' \in [Invites -> InvRows \cup {NoInvite}] /\ inv'[i] = v
        /\ \A j \in Invites \ {i} : inv'[j] = inv[j]
    BY <1>0, <1>3, <2>3, <2>4 DEF TypeOK, InvRows
  <2>6. /\ g \in [Users -> Roles] /\ g[r.who] # "none"
        /\ \A u \in Users : g[u] = role[o][u] \/ role[o][u] = "none"
    BY <1>0, <1>2, <2>2 DEF TypeOK, Roles
  <2>7. role' = [role EXCEPT ![o] = g]
    BY <2>1 DEF SetMembers, SetRoles
  <2>. HIDE DEF g, o
  <2>8. o \in born' /\ role'[o][r.p.user] # "none" /\ r.p \in Issued'
    BY <1>0, <1>1, <1>2, <1>3, <2>2, <2>6, <2>7 DEF TypeOK, Issued
  <2>9. n \in Requests /\ n \in Sounds' /\ n \in Timely' /\ n.op = "cookie" /\ n.got = None /\ n.p = r.p
    BY <1>0, <1>2, <2>2, <2>8, CookieRequest
  <2>. HIDE DEF n
  <2>10. Members(s, n, o, g)
    BY <1>0, <1>1, <2>1, <2>2, <2>6, <2>9 DEF TypeOK, Members, Follows
  <2>11. MayGo(s, o, g)
    BY <2>6 DEF MayGo
  <2>12. MemberGood
    BY <2>10, <2>11, MembersGood
  <2>13. grants' \in [Invites -> Nat] /\ grants'[i] <= 1 /\ \A j \in Invites \ {i} : grants'[j] = grants[j]
    <3>1. grants \in [Invites -> Nat] /\ grants[i] = 0
      BY <1>0, <1>3, <2>2 DEF TypeOK, GrantsSound
    <3>. QED
      BY <1>3, <2>1, <3>1 DEF Granted
  <2>15. TypeOK'
    BY <1>0, <1>1, <2>1, <2>5, <2>12, <2>13 DEF TypeOK, MemberGood, MemberTypes, RoleTable, InvRows
  <2>16. \A j \in Invites : inv[j] # NoInvite => inv'[j] # NoInvite
    BY <2>3, <2>5 DEF InvRows, NoInvite, Kept
  <2>17. RequestsSound' /\ Exclusive' /\ EpochsSound'
    <3>1. \A x \in Slots : x \in void => req'[x].p = req[x].p
      <4>1. \A x \in Slots : x \in void => req[x] # Idle
        BY <1>0, Unvoid
      <4>2. [role EXCEPT ![o] = g] \in RoleTable /\ SetRoles(s, n, [role EXCEPT ![o] = g])
        BY <1>0, <2>1, <2>2, <2>6, MembersType
      <4>3. /\ \A x \in Slots : x = s => req'[x] = n
            /\ \A x \in Slots : x # s => req'[x].p = req[x].p
        BY <1>0, <2>9, <4>2, RolesGo DEF GoOn
      <4>. QED
        BY <2>9, <4>3
    <3>. QED
      BY <1>1, <1>4, <2>1, <2>12, <2>15, <2>16, <3>1, RequestsGoOn DEF MemberGood
  <2>18. NoOrphans'
    <3>1. \A x \in Orgs \ live' : MembersOf(x)' = {}
      BY <2>12 DEF MemberGood, Vacant, MembersOf
    <3>2. \A j \in Invites : inv'[j].st \in Kept => inv'[j].org \in live'
      BY <1>0, <1>1, <2>2, <2>3, <2>5 DEF NoOrphans
    <3>. QED
      BY <3>1, <3>2 DEF NoOrphans
  <2>19. GrantsSound'
    BY <1>0, <2>3, <2>5, <2>13 DEF GrantsSound
  <2>20. OpensOnce /\ LandsInMembership
    BY <1>0, <1>1, <1>5, NoSessions
  <2>. QED
    BY <1>5, <2>12, <2>15, <2>17, <2>18, <2>19, <2>20 DEF StepGood, IInv, MemberGood
<1>. QED
  BY <1>6, <1>7

\* A sign-in keeps the roles one has, and adds some in organizations that exist.
LEMMA JoinedRoles ==
    ASSUME IInv, NEW s \in Slots, CommitSignIn(s), NEW o \in Orgs
    PROVE  /\ Joined(req[s], o) \in Roles
           /\ role[o][req[s].who] # "none" => Joined(req[s], o) = role[o][req[s].who]
           /\ Joined(req[s], o) # "none" => o \in live'
<1>. DEFINE r == req[s]
<1>0. /\ r.op \in SignIns /\ \A i \in r.invs : inv[i].org \in live
      /\ InDefaultOrg(r) => DefaultOrg \in live
      /\ live' = live \cup (IF InOwnOrg(r) THEN {NextOrg} ELSE {})
  BY DEF CommitSignIn
<1>1. /\ TypeOK /\ r \in Sounds /\ r.who \in Users /\ r.invs \subseteq Invites /\ \A i \in r.invs : inv[i] \in InvRows
  BY <1>0, SigningUp
<1>2. r.arg = "minting" => r.invs = {}
  BY <1>0, <1>1 DEF Sounds
<1>3. role[o][r.who] \in Roles
  BY <1>1 DEF TypeOK
<1>4. role[o][r.who] # "none" => o \in live
  BY <1>1, VacantNow DEF IInv, Vacant
<1>5. InDefaultOrg(r) \/ InOwnOrg(r) => r.invs = {}
  BY <1>2 DEF InDefaultOrg, InOwnOrg
<1>6. ~(InDefaultOrg(r) /\ InOwnOrg(r))
  BY DEF InOwnOrg
<1>7. CASE role[o][r.who] # "none"
  BY <1>3, <1>4, <1>0, <1>7 DEF Joined
<1>8. CASE role[o][r.who] = "none" /\ \E i \in r.invs : inv[i].org = o
  <2>. DEFINE i == CHOOSE j \in r.invs : inv[j].org = o
  <2>1. i \in r.invs /\ inv[i].org = o
    BY <1>8
  <2>2. ~InDefaultOrg(r) /\ ~InOwnOrg(r)
    BY <1>5, <1>8
  <2>3. Joined(r, o) = inv[i].role
    BY <1>8, <2>2 DEF Joined
  <2>4. inv[i].role \in {"admin", "member"} /\ o \in live'
    BY <1>0, <1>1, <2>1 DEF InvRows
  <2>. QED
    BY <1>8, <2>3, <2>4 DEF Roles
<1>9. CASE role[o][r.who] = "none" /\ InDefaultOrg(r) /\ o = DefaultOrg
  <2>1. ~InOwnOrg(r) /\ ~\E i \in r.invs : inv[i].org = o
    BY <1>5, <1>6, <1>9
  <2>2. Joined(r, o) = DefaultRole
    BY <1>9, <2>1 DEF Joined
  <2>. QED
    BY <1>0, <1>9, <2>2, DefaultRoles DEF Roles
<1>10. CASE role[o][r.who] = "none" /\ InOwnOrg(r) /\ o = NextOrg
  <2>1. ~InDefaultOrg(r) /\ ~\E i \in r.invs : inv[i].org = o
    BY <1>5, <1>6, <1>10
  <2>2. Joined(r, o) = "owner"
    BY <1>10, <2>1 DEF Joined
  <2>. QED
    BY <1>0, <1>10, <2>2 DEF Roles
<1>11. CASE /\ role[o][r.who] = "none" /\ ~(\E i \in r.invs : inv[i].org = o)
            /\ ~(InDefaultOrg(r) /\ o = DefaultOrg) /\ ~(InOwnOrg(r) /\ o = NextOrg)
  <2>1. Joined(r, o) = "none"
    BY <1>11 DEF Joined
  <2>. QED
    BY <1>11, <2>1 DEF Roles
<1>. QED
  BY <1>7, <1>8, <1>9, <1>10, <1>11

LEMMA CommitGood == ASSUME IInv, NEW s \in Slots, CommitSignIn(s) PROVE StepGood
<1>0. TypeOK /\ NoOrphans /\ RequestsSound /\ Exclusive /\ EpochsSound /\ LinksSound /\ GrantsSound
  BY DEF IInv
<1>. DEFINE r == req[s]
            u == r.who
            x == r.got
            f == [o \in Orgs |-> [role[o] EXCEPT ![u] = Joined(r, o)]]
            new == IF InOwnOrg(r) THEN {NextOrg} ELSE {}
            P == {i \in r.invs : inv[i].st = "pending"}
<1>a. PICK o \in Orgs : Joined(r, o) # "none" /\ SetRoles(s, SetsCookie(r, o), f)
  BY DEF CommitSignIn
<1>. DEFINE n == SetsCookie(r, o)
<1>1. /\ r.op \in SignIns /\ (InOwnOrg(r) => Orgs # born)
      /\ live' = live \cup new /\ born' = born \cup new /\ SetRoles(s, n, f)
      /\ epoch' = [epoch EXCEPT ![u] = IF @ = None THEN 0 ELSE @]
      /\ inv' = [i \in Invites |-> IF i \in r.invs /\ inv[i].st \in Kept
                                   THEN [inv[i] EXCEPT !.st = "accepted"] ELSE inv[i]]
      /\ Spend(r) /\ Granted(P)
      /\ uses' = [uses EXCEPT ![x] = @ + 1]
      /\ UNCHANGED <<key, session, started, sso, ssoCookie, begun, void>>
  BY <1>a DEF CommitSignIn
<1>2. /\ r \in Requests /\ r \in Sounds /\ r # Idle /\ r.by \in Browsers /\ u \in Users /\ r.p \in Tickets
      /\ r.p \in Principals /\ r.p.user = u /\ r.invs \subseteq Invites /\ x \in Links \cup States
      /\ \A i \in r.invs : inv[i] \in InvRows
  BY <1>1, SigningUp
<1>3. /\ f \in RoleTable
      /\ \A z \in Orgs, y \in Users : f[z][y] = IF y = u THEN Joined(r, z) ELSE role[z][y]
  BY <1>0, <1>2, JoinedRoles DEF TypeOK, RoleTable
<1>b. n \in Requests /\ n.op = "cookie" /\ n.got = None /\ n.p = r.p
  <2>1. n \in Requests
    BY <1>2, IdleSound DEF SetsCookie, Requests
  <2>. QED
    BY <2>1 DEF SetsCookie, Idle
<1>4. /\ role' = f /\ req' \in [Slots -> Requests] /\ req'[s] = n
      /\ \A y \in Slots : y # s => /\ Goes(y) /\ req'[y].p = req[y].p /\ req'[y].got = req[y].got
                                   /\ req'[y].op = req[y].op
  <2>. HIDE DEF f, n
  <2>1. /\ role' = f /\ req' \in [Slots -> Requests]
        /\ \A y \in Slots : y = s => req'[y] = n
        /\ \A y \in Slots : y # s => /\ Goes(y)
                                     /\ req'[y].p = req[y].p /\ req'[y].got = req[y].got
                                     /\ req'[y].op = req[y].op
                                     /\ req'[y] = Idle <=> req[y] = Idle
    BY <1>0, <1>1, <1>3, <1>b, RolesGo DEF GoOn
  <2>. QED
    BY <2>1
<1>5. \A z \in Orgs, y \in Users : /\ role[z][y] # "none" => role'[z][y] = role[z][y]
                                   /\ role'[z][y] # "none" => z \in live'
  <2>1. \A z \in Orgs, y \in Users : role[z][y] # "none" => z \in live
    BY <1>0, VacantNow DEF Vacant
  <2>. QED
    BY <1>1, <1>3, <1>4, <2>1, JoinedRoles
<1>c. role'[o][r.p.user] # "none"
  BY <1>a, <1>2, <1>3, <1>4
<1>. HIDE DEF f
<1>6. live' \subseteq born' /\ born' \subseteq Orgs /\ born \subseteq born' /\ live \subseteq live'
  BY <1>0, <1>1, NextOrgNew DEF TypeOK
<1>7. /\ epoch' \in [Users -> Nat \cup {None}] /\ EpochsGrow /\ epoch'[u] # None
      /\ epoch'[u] = IF epoch[u] = None THEN 0 ELSE epoch[u]
  <2>1. epoch \in [Users -> Nat \cup {None}]
    BY <1>0 DEF TypeOK
  <2>2. /\ epoch' \in [Users -> Nat \cup {None}] /\ \A y \in Users \ {u} : epoch'[y] = epoch[y]
        /\ epoch'[u] = IF epoch[u] = None THEN 0 ELSE epoch[u]
    BY <1>1, <1>2, <2>1
  <2>3. EpochsGrow
    BY <2>1, <2>2, NoneApart DEF EpochsGrow
  <2>. QED
    BY <1>2, <2>2, <2>3, NoneApart
<1>8. ASSUME NEW i \in Invites
      PROVE  /\ inv'[i] \in InvRows \cup {NoInvite} /\ (inv[i] # NoInvite => inv'[i] # NoInvite)
             /\ \/ inv'[i] = inv[i] /\ i \notin P
                \/ /\ inv[i].st \in Kept /\ inv'[i].st = "accepted" /\ inv'[i].org = inv[i].org
                   /\ i \in P <=> inv[i].st = "pending"
  <2>1. CASE i \in r.invs /\ inv[i].st \in Kept
    <3>1. inv'[i] = [inv[i] EXCEPT !.st = "accepted"] /\ inv[i] \in InvRows
      BY <1>1, <1>2, <2>1
    <3>2. inv'[i] \in InvRows /\ inv'[i].st = "accepted" /\ inv'[i].org = inv[i].org
      <4>1. "accepted" \in Kept \cup {"gone"}
        BY DEF Kept
      <4>. QED
        BY <3>1, <4>1, InviteBecomes
    <3>. QED
      BY <2>1, <3>2 DEF InvRows, NoInvite, Kept
  <2>2. CASE ~(i \in r.invs /\ inv[i].st \in Kept)
    <3>1. inv'[i] = inv[i]
      BY <1>1, <2>2
    <3>2. i \notin P
      BY <2>2 DEF Kept
    <3>. QED
      BY <1>0, <3>1, <3>2, InviteRows
  <2>. QED
    BY <2>1, <2>2
<1>9. inv' \in [Invites -> InvRows \cup {NoInvite}]
  BY <1>1, <1>8
<1>. HIDE DEF P
<1>10. /\ grants' \in [Invites -> Nat]
       /\ \A i \in Invites : IF i \in P THEN grants'[i] <= grants[i] + 1 ELSE grants'[i] = grants[i]
  <2>1. grants \in [Invites -> Nat]
    BY <1>0 DEF TypeOK
  <2>. QED
    BY <1>1, <2>1 DEF Granted
<1>11. /\ uses \in [Links \cup States -> Nat] /\ uses' \in [Links \cup States -> Nat]
       /\ \A y \in (Links \cup States) \ {x} : uses'[y] = uses[y]
  BY <1>0, <1>1, <1>2 DEF TypeOK
<1>12. /\ link' \in [Links -> [user: Users, st: {"active", "used", "expired"}] \cup {NoLink}]
       /\ \A l \in Links \ {x} : link'[l] = link[l]
       /\ x \in Links => link'[x].st = "used" /\ link'[x].user = u /\ link[x].user = u
  <2>0. link \in [Links -> [user: Users, st: {"active", "used", "expired"}] \cup {NoLink}]
    BY <1>0 DEF TypeOK
  <2>1. CASE r.op = "verify"
    <3>. DEFINE v == [link[x] EXCEPT !.st = "used"]
    <3>1. x \in Links /\ link[x].st = "active" /\ link[x].user = u
      BY <2>1, Holds
    <3>2. v \in [user: Users, st: {"active", "used", "expired"}] /\ v.st = "used" /\ v.user = u
      BY <2>0, <3>1 DEF NoLink
    <3>3. link' = [link EXCEPT ![x] = v]
      BY <1>1, <2>0, <2>1 DEF Spend
    <3>. HIDE DEF v
    <3>. QED
      BY <2>0, <3>1, <3>2, <3>3
  <2>2. CASE r.op # "verify"
    <3>1. x \notin Links /\ link' = link
      BY <1>1, <2>2, Holds DEF Spend
    <3>. QED
      BY <2>0, <3>1
  <2>. QED
    BY <2>1, <2>2
<1>. HIDE DEF n
<1>15. TypeOK'
  <2>1. key' \in [Keys -> live' \cup {None}] /\ started' \in 0..MaxRequests
    BY <1>0, <1>1, <1>6 DEF TypeOK
  <2>2. /\ void' \subseteq Browsers \cup Slots
        /\ session' \in [Browsers -> Principals \cup {NoSession}]
    BY <1>0, <1>1 DEF TypeOK
  <2>3. role' \in [Orgs -> [Users -> Roles]]
    BY <1>3, <1>4 DEF RoleTable
  <2>4. /\ sso' \in [States -> BOOLEAN] /\ ssoCookie' \in [Browsers -> States \cup {None}]
        /\ begun' \in [States -> Browsers \cup {None}]
    BY <1>0, <1>1 DEF TypeOK
  <2>. QED
    BY <1>4, <1>6, <1>7, <1>9, <1>10, <1>11, <1>12, <2>1, <2>2, <2>3, <2>4 DEF TypeOK, InvRows
<1>16. NoOrphans'
  <2>1. \A y \in Orgs \ live' : MembersOf(y)' = {}
    BY <1>5 DEF MembersOf
  <2>2. \A i \in Invites : inv'[i].st \in Kept => inv'[i].org \in live'
    BY <1>0, <1>6, <1>8 DEF NoOrphans
  <2>. QED
    BY <2>1, <2>2 DEF NoOrphans
<1>17. \A y \in Slots : y # s => req[y].got # x
  BY <1>0, <1>2 DEF Exclusive
<1>18. r.p \in Issued'
  <2>1. r.p.epoch \in Nat /\ epoch[u] \in Nat \cup {None}
    BY <1>0, <1>2 DEF Principals, TypeOK
  <2>2. epoch[u] = None => r.p.epoch = 0
    BY <1>2 DEF Tickets, Issued
  <2>3. epoch[u] # None => r.p.epoch <= epoch[u]
    BY <1>2 DEF Tickets, Issued
  <2>. QED
    BY <1>2, <1>7, <2>1, <2>2, <2>3 DEF Issued
<1>d. n \in Sounds' /\ n \in Timely'
  <2>1. o \in born'
    BY <1>2, <1>5, <1>6, <1>c
  <2>. QED
    BY <1>0, <1>2, <1>18, <1>c, <2>1, CookieRequest DEF n
<1>19. RequestsSound' /\ Exclusive' /\ EpochsSound'
  <2>1. ASSUME NEW y \in Slots, req'[y].op = "verify" PROVE link'[req'[y].got] = link[req'[y].got]
    <3>1. y # s
      BY <1>4, <1>b, <2>1
    <3>2. req'[y].got = req[y].got /\ req'[y].got # x /\ req[y].op = "verify"
      BY <1>4, <1>17, <2>1, <3>1
    <3>3. req[y].got \in Links
      BY <3>2, Holds
    <3>. QED
      BY <1>12, <3>2, <3>3
  <2>2. ASSUME NEW y \in Slots, req'[y].op = "callback" PROVE uses'[req'[y].got] = uses[req'[y].got]
    <3>1. y # s
      BY <1>4, <1>b, <2>2
    <3>2. req'[y].got = req[y].got /\ req'[y].got # x /\ req[y].op = "callback"
      BY <1>4, <1>17, <2>2, <3>1
    <3>3. req[y].got \in States
      BY <3>2, Holds
    <3>. QED
      BY <1>11, <3>2, <3>3
  <2>3. /\ \A y \in Slots : Goes(y) \/ (req'[y] \in Sounds' /\ req'[y] \in Timely')
        /\ \A y \in Slots : req'[y].got = req[y].got \/ req'[y].got = None
        /\ \A y \in Slots : req'[y].p = req[y].p
    BY <1>4, <1>b, <1>d
  <2>. QED
    BY <1>1, <1>6, <1>7, <1>8, <1>15, <2>1, <2>2, <2>3, RequestsGoOn
<1>20. LinksSound'
  <2>1. x \in States => ~sso[x] /\ begun[x] \in Browsers
    BY Holds
  <2>2. \A l \in Links : link'[l].st # "used" => uses'[l] = 0
    BY <1>0, <1>11, <1>12 DEF LinksSound
  <2>3. \A l \in Links : link'[l].st = "used" => epoch'[link'[l].user] # None
    <3>. SUFFICES ASSUME NEW l \in Links, link'[l].st = "used" PROVE epoch'[link'[l].user] # None
      OBVIOUS
    <3>1. CASE l = x
      BY <1>7, <1>12, <3>1
    <3>2. CASE l # x
      <4>1. link'[l] = link[l] /\ link[l].user \in Users /\ epoch[link[l].user] # None
        BY <1>0, <1>12, <3>2 DEF LinksSound, TypeOK, NoLink
      <4>. QED
        BY <1>7, <4>1 DEF EpochsGrow
    <3>. QED
      BY <3>1, <3>2
  <2>4. \A y \in States : sso'[y] \/ begun'[y] = None => uses'[y] = 0
    BY <1>0, <1>1, <1>11, <2>1, NoneApart DEF LinksSound
  <2>. QED
    BY <1>0, <1>1, <2>2, <2>3, <2>4 DEF LinksSound
<1>21. GrantsSound'
  <2>. SUFFICES ASSUME NEW i \in Invites
                PROVE  IF inv'[i].st \in {"free", "pending", "expired"} THEN grants'[i] = 0 ELSE grants'[i] <= 1
    BY DEF GrantsSound
  <2>1. grants[i] \in Nat /\ grants'[i] \in Nat
    BY <1>0, <1>10 DEF TypeOK
  <2>2. CASE inv'[i] = inv[i] /\ i \notin P
    BY <1>0, <1>10, <2>2 DEF GrantsSound
  <2>3. CASE inv[i].st \in Kept /\ inv'[i].st = "accepted" /\ (i \in P <=> inv[i].st = "pending")
    BY <1>0, <1>10, <2>1, <2>3 DEF GrantsSound, Kept
  <2>. QED
    BY <1>8, <2>2, <2>3
<1>22. OwnerKept /\ RoleKept
  <2>1. RoleKept
    BY <1>5 DEF RoleKept
  <2>2. OwnerKept
    BY <1>0, <1>5 DEF OwnerKept, Owners, TypeOK
  <2>. QED
    BY <2>1, <2>2
<1>23. OpensOnce
  <2>1. uses[x] = 0 /\ (x \in States => r.by = begun[x])
    <3>1. CASE x \in Links
      BY <1>0, <3>1, Holds, IdsApart DEF LinksSound
    <3>2. CASE x \in States
      BY <3>2, Holds
    <3>. QED
      BY <1>2, <3>1, <3>2
  <2>2. ASSUME NEW t \in Slots, req[t].got \in Links \cup States, uses'[req[t].got] # uses[req[t].got]
        PROVE  uses[req[t].got] = 0 /\ (req[t].got \in States => req[t].by = begun[req[t].got])
    <3>1. req[t].got = x
      BY <1>11, <2>2
    <3>2. t = s
      BY <1>17, <3>1
    <3>. QED
      BY <2>1, <3>1, <3>2
  <2>. QED
    BY <2>2 DEF OpensOnce
<1>24. LandsInMembership
  <2>1. \A l \in Links : link'[l].st = "used" => link'[l].user = link[l].user
    BY <1>12
  <2>. QED
    BY <1>1, <1>20, <2>1 DEF LandsInMembership, LinksSound
<1>. QED
  BY <1>15, <1>16, <1>19, <1>20, <1>21, <1>22, <1>23, <1>24 DEF StepGood, IInv

-----------------------------------------------------------------------------
(* The theorems. *)

LEMMA InitSound == Init => IInv
<1>. SUFFICES ASSUME Init PROVE IInv
  OBVIOUS
<1>1. PICK boss \in Users, other \in Users, a \in Roles, known \in BOOLEAN, invited \in BOOLEAN :
         /\ boss # other
         /\ a # "none" => known /\ ~invited
         /\ role = [o \in Orgs |-> [u \in Users |->
              CASE o = 1 /\ u = boss -> "owner"
                [] o = 1 /\ u = other -> a
                [] OTHER -> "none"]]
         /\ epoch = [u \in Users |-> IF u = boss \/ (u = other /\ known) THEN 0 ELSE None]
         /\ \E b \in Browsers : session =
              [x \in Browsers |-> IF x = b THEN [user |-> boss, org |-> 1, epoch |-> 0]
                                  ELSE IF ~known THEN NoSession
                                  ELSE [user |-> other, org |-> IF a = "none" THEN None ELSE 1,
                                        epoch |-> 0]]
         /\ \E first \in Invites : inv =
              [i \in Invites |-> IF i = first /\ invited
                                 THEN [org |-> 1, user |-> other, role |-> "member", st |-> "pending"]
                                 ELSE NoInvite]
  BY DEF Init
<1>2. /\ live = {1} /\ born = {1} /\ key = [k \in Keys |-> None] /\ req = [s \in Slots |-> Idle] /\ started = 0
      /\ link = [l \in Links |-> NoLink] /\ sso = [x \in States |-> FALSE] /\ ssoCookie = [b \in Browsers |-> None]
      /\ grants = [i \in Invites |-> 0] /\ uses = [x \in Links \cup States |-> 0]
      /\ begun = [x \in States |-> None] /\ void = {}
  BY DEF Init
<1>3. ASSUME NEW o \in Orgs, NEW u \in Users
      PROVE  role[o][u] \in Roles /\ (o # 1 => role[o][u] = "none")
  BY <1>1 DEF Roles
<1>4. role \in [Orgs -> [Users -> Roles]]
  <2>1. role = [o \in Orgs |-> role[o]] /\ \A o \in Orgs : role[o] = [u \in Users |-> role[o][u]]
    BY <1>1
  <2>. QED
    BY <1>3, <2>1
<1>5. epoch \in [Users -> Nat \cup {None}] /\ epoch[boss] = 0 /\ (known => epoch[other] = 0)
  BY <1>1
<1>6. \A b \in Browsers : session[b] = NoSession \/ session[b] \in Issued
  <2>1. PICK c \in Browsers : session =
              [x \in Browsers |-> IF x = c THEN [user |-> boss, org |-> 1, epoch |-> 0]
                                  ELSE IF ~known THEN NoSession
                                  ELSE [user |-> other, org |-> IF a = "none" THEN None ELSE 1,
                                        epoch |-> 0]]
    BY <1>1
  <2>2. [user |-> boss, org |-> 1, epoch |-> 0] \in Issued
    BY <1>5, OrgNumbers, NoneApart DEF Issued, Principals
  <2>3. known => [user |-> other, org |-> IF a = "none" THEN None ELSE 1, epoch |-> 0] \in Issued
    BY <1>5, OrgNumbers, NoneApart DEF Issued, Principals
  <2>. QED
    BY <2>1, <2>2, <2>3
<1>7. session \in [Browsers -> Principals \cup {NoSession}]
  <2>1. session = [b \in Browsers |-> session[b]]
    BY <1>1
  <2>. QED
    BY <1>6, <2>1 DEF Issued
<1>8. /\ inv \in [Invites -> InvRows \cup {NoInvite}]
      /\ \A i \in Invites : inv[i] = NoInvite \/ inv[i].org = 1
  <2>1. PICK first \in Invites : inv =
              [i \in Invites |-> IF i = first /\ invited
                                 THEN [org |-> 1, user |-> other, role |-> "member", st |-> "pending"]
                                 ELSE NoInvite]
    BY <1>1
  <2>2. [org |-> 1, user |-> other, role |-> "member", st |-> "pending"] \in InvRows
    BY OrgNumbers DEF InvRows, Kept
  <2>. QED
    BY <2>1, <2>2
<1>9. TypeOK
  <2>1. /\ req \in [Slots -> Requests] /\ started \in 0..MaxRequests
    BY <1>2, IdleSound, RequestBound
  <2>2. link \in [Links -> [user: Users, st: {"active", "used", "expired"}] \cup {NoLink}]
    BY <1>2
  <2>3. sso \in [States -> BOOLEAN]
    BY <1>2
  <2>. QED
    BY <1>2, <1>4, <1>5, <1>7, <1>8, <2>1, <2>2, <2>3, OrgNumbers DEF TypeOK, InvRows
<1>10. NoOrphans
  BY <1>2, <1>3, <1>8 DEF NoOrphans, MembersOf, NoInvite, Kept
<1>11. RequestsSound /\ Exclusive
  BY <1>2, IdleSound, IdsApart DEF RequestsSound, Exclusive, Idle
<1>12. EpochsSound
  BY <1>2, <1>6 DEF EpochsSound
<1>13. LinksSound
  BY <1>2 DEF LinksSound, NoLink
<1>14. GrantsSound
  BY <1>2 DEF GrantsSound
<1>. QED
  BY <1>9, <1>10, <1>11, <1>12, <1>13, <1>14 DEF IInv

LEMMA NextSound == ASSUME IInv, Next PROVE StepGood
<1>1. CASE MemberStep
  BY <1>1, MemberStepGood
<1>2. CASE \E s \in Slots, b \in Browsers :
         \/ \E o \in live, u \in Users, r \in {"admin", "member"} : CreateInvite(s, b, o, u, r)
         \/ \E i \in Invites : AcceptInvite(s, b, i)
         \/ \E l \in Links : VerifyMagicLink(s, b, l)
         \/ \E x \in States, u \in Users : CallbackSSO(s, b, x, u)
  BY <1>2, CreateInviteGood, AcceptInviteGood, VerifyMagicLinkGood, CallbackSSOGood
<1>3. CASE \E s \in Slots :
         \/ \E i \in Invites : IssueOrgInvite(s, i)
         \/ ConsumeOrgInvite(s) \/ ListPendingOrgInvitesByEmail(s)
         \/ CountOrgMembershipsForUser(s) \/ CommitSignIn(s)
  BY <1>3, IssueOrgInviteGood, ConsumeGood, ListPendingGood, CountGood, CommitGood
<1>4. CASE \E b \in Browsers :
         \/ \E i \in Invites : DeleteInvite(b, i)
         \/ \E i \in Invites, l \in Links : AcceptByLink(b, i, l)
         \/ \E x \in States : StartSSO(b, x)
         \/ Logout(b)
  BY <1>4, DeleteInviteGood, LinksGood, StartSSOGood, LogoutGood
<1>5. CASE \E l \in Links, u \in Users : RequestMagicLink(l, u) \/ RunMagicLink(l, u)
  BY <1>5, LinksGood
<1>6. CASE Expires \/ \E i \in Invites : Prune(i)
  BY <1>6, ExpiresGood, PruneGood
<1>. QED
  BY <1>1, <1>2, <1>3, <1>4, <1>5, <1>6 DEF Next

LEMMA StutterSound == ASSUME IInv, UNCHANGED vars PROVE IInv'
<1>1. /\ UNCHANGED <<live, born, role, epoch, key, session, req, started>>
      /\ UNCHANGED <<link, inv, sso, ssoCookie, grants, uses, begun, void>>
  BY DEF vars, memberVars, signVars, history
<1>0. TypeOK /\ NoOrphans /\ RequestsSound /\ Exclusive /\ EpochsSound /\ LinksSound /\ GrantsSound
  BY DEF IInv
<1>2. TypeOK' /\ EpochsGrow
  BY <1>0, <1>1 DEF TypeOK, EpochsGrow
<1>3. RequestsSound' /\ Exclusive'
  BY <1>1, <1>2, QuietRequests
<1>4. NoOrphans'
  BY <1>0, <1>1 DEF NoOrphans, MembersOf
<1>5. EpochsSound'
  BY <1>0, <1>1, <1>2, EpochsFrame
<1>6. LinksSound' /\ GrantsSound'
  BY <1>0, <1>1, <1>2, LinksFrame, GrantsFrame
<1>. QED
  BY <1>2, <1>3, <1>4, <1>5, <1>6 DEF IInv

LEMMA Inductive == Spec => []IInv
<1>1. IInv /\ [Next]_vars => IInv'
  BY NextSound, StutterSound DEF StepGood
<1>. QED
  BY InitSound, <1>1, PTL DEF Spec

\* Memberships come from one invitation each and end with their organization
\* (ConsumeOrgInvite, BootstrapSession, DeleteOrg), however many requests overlap.
THEOREM InvitationsSound == Spec => []InvitesSound
<1>1. IInv => InvitesSound
  <2>. SUFFICES ASSUME IInv PROVE InvitesSound
    OBVIOUS
  <2>1. InviteOnce
    <3>1. \A i \in Invites : grants[i] = 0 => grants[i] <= 1
      OBVIOUS
    <3>. QED
      BY <3>1 DEF IInv, GrantsSound, InviteOnce
  <2>. QED
    BY <2>1 DEF InvitesSound, IInv
<1>. QED
  BY <1>1, Inductive, PTL

\* A logout ends every session of its user, those too that are set afterwards by
\* the requests of those sessions (Logout, SessionSigner.Issue).
THEOREM LogoutIsFinal == Spec => []LogoutEndsAll
<1>1. IInv => LogoutEndsAll
  BY Unvoid DEF IInv
<1>. QED
  BY <1>1, Inductive, PTL

\* No step takes the last owner from an organization but a statement whose snapshot,
\* or an unguarded one whose handler's reads, are older than a change of the members;
\* and none but the requests that say so changes a role somebody has
\* (DemoteOrgOwnerIfNotLast, the guards of members.go, AddOrgMember).
THEOREM MembershipsKept == Spec => MembershipKept
<1>. DEFINE A == role' # role => OwnerKept /\ RoleKept
<1>1. IInv /\ [Next]_vars => [A]_vars
  BY NextSound DEF StepGood
<1>. HIDE DEF A
<1>2. Spec => [][A]_vars
  BY <1>1, Inductive, PTL DEF Spec
<1>. QED
  BY <1>2 DEF A, MembershipKept

\* A link or a state opens one session, a state in the browser that asked for it,
\* and a cookie names an organization its user is in, unless its members changed
\* between the lookup and the cookie (GetActiveMagicLinkToken, CallbackSSO,
\* GetFirstOrgForUser, SessionSigner.Issue).
THEOREM SessionsAreEarned == Spec => SessionsEarned
<1>. DEFINE A == OpensOnce /\ LandsInMembership
<1>1. IInv /\ [Next]_vars => [A]_vars
  BY NextSound DEF StepGood
<1>. HIDE DEF A
<1>2. Spec => [][A]_vars
  BY <1>1, Inductive, PTL DEF Spec
<1>. QED
  BY <1>2 DEF A, SessionsEarned

=============================================================================
