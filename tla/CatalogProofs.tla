--------------------------- MODULE CatalogProofs ----------------------------
(***************************************************************************)
(* Proofs about Catalog, for any rows of any number of organizations, any  *)
(* requests, as many at a time as there are slots, and any tables that a   *)
(* database in use may hold at the start.                                  *)
(*                                                                         *)
(* The inductive invariant is IInv: RowsInv about the tables, and          *)
(* RequestsSound, which says what a request between its lookups and its    *)
(* write still knows of the rows it has in hand.  It knows little: a row   *)
(* it has seen may be gone, but it never comes back and never moves, so    *)
(* that whatever the foreign keys let through is as it was looked up.      *)
(*                                                                         *)
(* Every action is of one of few kinds (it opens or ends a request,        *)
(* inserts, deletes, writes back, expires), and each kind has one lemma    *)
(* about the tables and one about the requests in hand.                    *)
(***************************************************************************)
EXTENDS Catalog, TLAPS

-----------------------------------------------------------------------------
(* The inductive invariant. *)

Ops == {"idle", "connect", "rule", "mark", "import", "test", "replay", "reinject", "patch", "scenario"}

Handlings ==
    [op: Ops, org: Callers \cup {None}, adm: BOOLEAN, id: Ids \cup {None}, refs: SUBSET Ids,
     set: Bodies \cup Patches \cup {None}, read: Pair \cup Endpoint \cup {None}, over: BOOLEAN,
     list: StepLists \cup {None}]

Patched == Destinations \cup Connections \cup Rules \cup Bookmarks \cup Scenarios

\* Rows that exist, and rows that exist or did.
LiveIn(rw) == {i \in Ids : rw[i] \notin {None, Gone}}
Known(rw) == {i \in Ids : rw[i] # None}

\* What a request r knows, by what it is about to do, where the rows are rw and
\* their references rf.
Inserts(r, rw, rf) ==
    /\ r.op = "connect" => \E s \in Sources, d \in Destinations :
          r.refs = {s, d} /\ Owner[s] = r.org /\ Owner[d] = r.org
    /\ r.op = "rule" => \E s \in Sources : r.refs = {s}
    /\ r.op = "mark" => \E q \in Requests :
          r.refs = {q} /\ (q \in LiveIn(rw) => Owner[SourceIn(rf[q])] = r.org)
    /\ r.op = "scenario" => r.list \in StepLists /\ \A k \in DOMAIN r.list : Owner[r.list[k]] = r.org

Sends(r, rw, rf) ==
    /\ r.op = "import" => \E s \in Sources :
          /\ r.refs = {s} /\ Owner[s] = r.org
          /\ r.id # None => r.id \in Requests /\ (r.id \in LiveIn(rw) => rf[r.id] = {s})
    /\ r.op = "test" => \E s \in Sources, c \in Connections :
          /\ r.refs = {c, s} /\ (c \in LiveIn(rw) => SourceIn(rf[c]) = s)
          /\ r.id # None => r.id \in Requests /\ (r.id \in LiveIn(rw) => rf[r.id] = {s})
    /\ r.op = "replay" => r.id \in Requests
    /\ r.op = "reinject" =>
          /\ r.id \in Requests /\ r.refs \subseteq Connections
          /\ \A c \in r.refs : c \in LiveIn(rw) /\ r.id \in LiveIn(rw) => SourceIn(rf[c]) = SourceIn(rf[r.id])

Merges(r, rw) ==
    r.op = "patch" =>
          /\ r.id \in Patched
          /\ r.read \in Columns(r.id)
          /\ r.set \in (IF r.id \in Destinations THEN Bodies ELSE Patches)
          /\ r.id \in LiveIn(rw) /\ ~r.over => r.read = rw[r.id]
          /\ r.id \in Destinations => MayRepoint(r.adm, r.read, r.set) /\ Deliverable(Over(r.read, r.set))
          /\ r.id \in Scenarios /\ r.list # None =>
                r.list \in StepLists /\ \A k \in DOMAIN r.list : Owner[r.list[k]] = Owner[r.id]

Sound(r, rw, rf) ==
    /\ r \in Handlings
    /\ r.id # None => r.id \in Known(rw)
    /\ r.refs \subseteq Known(rw)
    /\ Inserts(r, rw, rf) /\ Sends(r, rw, rf) /\ Merges(r, rw)

RequestsSound == DOMAIN req = Slots /\ \A s \in Slots : Sound(req[s], row, refs)

TypeRows ==
    /\ DOMAIN row = Ids /\ DOMAIN refs = Ids /\ DOMAIN want = Ids
    /\ \A i \in Live : row[i] \in Columns(i)
    /\ body \in [Requests -> Stages]
    /\ steps \in [Scenarios -> StepRows]
    /\ \A n \in Scenarios \ Live : DOMAIN steps[n] = {}
    /\ events \subseteq [req: Requests, conn: Connections]
    /\ sweep = None \/ sweep \subseteq Requests
    /\ overlapped \subseteq Ids /\ late \subseteq Bookmarks

RefsSound == \A i \in Ids : IF i \in Live THEN Fit(i, refs[i]) ELSE refs[i] = {}

\* A running sweep has chosen no payload that a bookmark keeps.
PinSafe == \A m \in (Bookmarks \cap Live) \ late : \A r \in refs[m] : sweep = None \/ r \notin sweep

Counted == started \in 0..MaxRequests /\ sweeps \in 0..MaxSweeps

RowsInv == TypeRows /\ RefsSound /\ NoDangling /\ OneTenant /\ Callable /\ PinKept /\ PinSafe /\ EditsKept

IInv == RowsInv /\ RequestsSound /\ Counted

-----------------------------------------------------------------------------
(* Rows and the rows they reference. *)

LEMMA Kinds ==
  /\ Sources \subseteq Ids /\ Destinations \subseteq Ids /\ Connections \subseteq Ids
  /\ Requests \subseteq Ids /\ Rules \subseteq Ids /\ Bookmarks \subseteq Ids /\ Scenarios \subseteq Ids
  BY DEF Ids

LEMMA LiveNow == Live = LiveIn(row) /\ Live' = LiveIn(row')
  BY DEF Live, LiveIn, Exists

\* The source among the rows that a connection, a request or a rule references.
LEMMA SourceOne == ASSUME NEW s \in Sources PROVE SourceIn({s}) = s
  BY DEF SourceIn

LEMMA SourcePair == ASSUME NEW s \in Sources, NEW d \in Destinations PROVE SourceIn({s, d}) = s
<1>1. d \notin Sources
  BY TablesApart
<1>. QED
  BY <1>1 DEF SourceIn

LEMMA SourceFit ==
  ASSUME NEW i \in Connections \cup Requests \cup Rules, NEW R, Fit(i, R)
  PROVE  SourceIn(R) \in Sources /\ SourceIn(R) \in R
<1>1. \E s \in Sources : s \in R
  BY DEF Fit
<1>. QED
  BY <1>1 DEF SourceIn

\* A row that references another one is a step further from the sources.
LEMMA Depth ==
  ASSUME NEW i \in Ids, NEW R, Fit(i, R), NEW p \in R
  PROVE  \/ p \in Sources \cup Destinations
         \/ p \in Requests /\ i \in Bookmarks
  BY DEF Fit, Ids

\* The columns of a row after a PATCH.
LEMMA OverType ==
  ASSUME NEW i \in Ids, NEW v \in Columns(i), NEW b \in (IF i \in Destinations THEN Bodies ELSE Patches)
  PROVE  Over(v, b) \in Columns(i)
<1>1. CASE i \in Destinations
  <2>1. b \in [a: {"http", "cli", None}, b: Urls \cup {None}] /\ v \in Endpoint
    BY <1>1, BodiesTyped DEF Columns
  <2>. QED
    BY <1>1, <2>1 DEF Over, Columns, Endpoint
<1>2. CASE i \notin Destinations
  <2>1. b \in Patches /\ v \in Pair
    BY <1>2 DEF Columns
  <2>2. CASE b = [a |-> 0, b |-> None]
    BY <1>2, <2>1, <2>2, MarksApart DEF Over, Columns, Pair
  <2>3. CASE b = [a |-> None, b |-> 1]
    BY <1>2, <2>1, <2>3, MarksApart DEF Over, Columns, Pair
  <2>. QED
    BY <2>1, <2>2, <2>3 DEF Patches
<1>. QED
  BY <1>1, <1>2

LEMMA ColumnsApart == ASSUME NEW i \in Ids, NEW v \in Columns(i) PROVE v # None /\ v # Gone
  BY MarksApart

-----------------------------------------------------------------------------
(* Requests in hand. *)

\* Rows do not come back, and the references of a row that stays are fixed.
Forward ==
    \A i \in Ids : row[i] # None =>
        /\ row'[i] # None
        /\ i \in LiveIn(row') => i \in LiveIn(row) /\ refs'[i] = refs[i]

LEMMA Idling == Idle \in Handlings /\ \A rw, rf : Sound(Idle, rw, rf)
<1>1. Idle \in Handlings
  BY DEF Idle, Handlings, Ops
<1>. QED
  BY <1>1 DEF Idle, Sound, Inserts, Sends, Merges

LEMMA SoundFrame ==
  ASSUME Forward, NEW r, Sound(r, row, refs),
         r.op = "patch" /\ r.id \in LiveIn(row') /\ ~r.over => row'[r.id] = row[r.id]
  PROVE  Sound(r, row', refs')
<1>0. r \in Handlings /\ r.id \in Ids \cup {None} /\ r.refs \subseteq Ids
  BY DEF Sound, Handlings
<1>1. /\ Known(row) \subseteq Known(row')
      /\ \A i \in Known(row) : i \in LiveIn(row') => i \in LiveIn(row) /\ refs'[i] = refs[i]
  BY DEF Known, Forward
<1>2. (r.id # None => r.id \in Known(row)) /\ r.refs \subseteq Known(row)
  BY DEF Sound
<1>3. Inserts(r, row', refs')
  <2>1. Inserts(r, row, refs)
    BY DEF Sound
  <2>. QED
    BY <2>1, <1>1, <1>2 DEF Inserts
<1>4. Sends(r, row', refs')
  <2>1. Sends(r, row, refs)
    BY DEF Sound
  <2>2. r.op = "import" => \E s \in Sources :
          /\ r.refs = {s} /\ Owner[s] = r.org
          /\ r.id # None => r.id \in Requests /\ (r.id \in LiveIn(row') => refs'[r.id] = {s})
    BY <2>1, <1>1, <1>2 DEF Sends
  <2>3. r.op = "test" => \E s \in Sources, c \in Connections :
          /\ r.refs = {c, s} /\ (c \in LiveIn(row') => SourceIn(refs'[c]) = s)
          /\ r.id # None => r.id \in Requests /\ (r.id \in LiveIn(row') => refs'[r.id] = {s})
    BY <2>1, <1>1, <1>2 DEF Sends
  <2>4. r.op = "reinject" =>
          /\ r.id \in Requests /\ r.refs \subseteq Connections
          /\ \A c \in r.refs : c \in LiveIn(row') /\ r.id \in LiveIn(row')
                                 => SourceIn(refs'[c]) = SourceIn(refs'[r.id])
    <3>1. r.op = "reinject" => r.id # None
      BY <2>1, MarksApart DEF Sends, Ids
    <3>. QED
      BY <2>1, <1>1, <1>2, <3>1 DEF Sends
  <2>. QED
    BY <2>1, <2>2, <2>3, <2>4 DEF Sends
<1>5. Merges(r, row')
  <2>1. Merges(r, row)
    BY DEF Sound
  <2>2. r.op = "patch" => r.id # None /\ r.id \in Known(row)
    BY <2>1, <1>2, MarksApart DEF Merges, Patched, Ids
  <2>. QED
    BY <2>1, <2>2, <1>1 DEF Merges
<1>. QED
  BY <1>0, <1>1, <1>2, <1>3, <1>4, <1>5 DEF Sound


\* The rows that a PATCH may be about keep their columns.
Steady == \A i \in Patched : row[i] # None /\ i \in LiveIn(row') => row'[i] = row[i]

LEMMA SoundSteady ==
  ASSUME Forward, Steady, NEW r, Sound(r, row, refs)
  PROVE  Sound(r, row', refs')
<1>1. r.op = "patch" => r.id \in Patched /\ row[r.id] # None
  <2>1. r.op = "patch" => r.id \in Patched /\ r.id # None
    BY MarksApart DEF Sound, Merges, Patched, Ids
  <2>. QED
    BY <2>1 DEF Sound, Known
<1>. QED
  BY <1>1, SoundFrame DEF Steady

LEMMA OthersSound ==
  ASSUME RequestsSound, Forward, Steady, NEW s \in Slots, NEW r, Sound(r, row', refs'),
         req' = [req EXCEPT ![s] = r]
  PROVE  RequestsSound'
<1>1. DOMAIN req' = Slots /\ req'[s] = r /\ \A t \in Slots \ {s} : req'[t] = req[t]
  BY DEF RequestsSound
<1>2. ASSUME NEW t \in Slots \ {s} PROVE Sound(req'[t], row', refs')
  BY <1>1, SoundSteady DEF RequestsSound
<1>. QED
  BY <1>1, <1>2 DEF RequestsSound

LEMMA AllSound ==
  ASSUME RequestsSound, Forward, Steady, req' = req
  PROVE  RequestsSound'
<1>1. ASSUME NEW t \in Slots PROVE Sound(req[t], row', refs')
  BY SoundSteady DEF RequestsSound
<1>. QED
  BY <1>1 DEF RequestsSound

LEMMA EndSound ==
  ASSUME RequestsSound, Forward, Steady, NEW s \in Slots, End(s)
  PROVE  RequestsSound'
  BY Idling, OthersSound DEF End

LEMMA StillForward == ASSUME UNCHANGED <<row, refs>> PROVE Forward /\ Steady
  BY DEF Forward, Steady

-----------------------------------------------------------------------------
(* What an insert does to the tables. *)

\* A new row that the schema admits and that the handler has checked.
Admitted(i, parents, v) ==
    /\ i \in Ids /\ row[i] = None /\ v \in Columns(i)
    /\ Fit(i, parents) /\ parents \subseteq Live
    /\ i \in Destinations => Deliverable(v)
    /\ i \in Bookmarks => \A r \in parents : Owner[SourceIn(refs[r])] = Owner[i]

\* The steps of a scenario are as before, or a list that was checked.
StepsWritten ==
    /\ steps' = [n \in Scenarios |-> steps'[n]]
    /\ \A n \in Scenarios : \/ steps'[n] = steps[n]
                            \/ /\ n \in LiveIn(row') /\ steps'[n] \in StepRows
                               /\ \A k \in DOMAIN steps'[n] : /\ steps'[n][k] \in Live
                                                              /\ Owner[steps'[n][k]] = Owner[n]

LEMMA InsertForward ==
  ASSUME TypeRows, NEW i, NEW parents, NEW v, Admitted(i, parents, v), Insert(i, parents, v)
  PROVE  /\ Forward /\ Steady
         /\ LiveIn(row') = LiveIn(row) \cup {i} /\ i \notin LiveIn(row)
         /\ row'[i] = v /\ refs'[i] = parents /\ want'[i] = v
         /\ \A j \in Ids \ {i} : row'[j] = row[j] /\ refs'[j] = refs[j] /\ want'[j] = want[j]
         /\ DOMAIN row' = Ids /\ DOMAIN refs' = Ids /\ DOMAIN want' = Ids
<1>1. i \in Ids /\ row[i] = None /\ v # None /\ v # Gone
  BY ColumnsApart DEF Admitted
<1>2. /\ row'[i] = v /\ refs'[i] = parents /\ want'[i] = v
      /\ \A j \in Ids \ {i} : row'[j] = row[j] /\ refs'[j] = refs[j] /\ want'[j] = want[j]
      /\ DOMAIN row' = Ids /\ DOMAIN refs' = Ids /\ DOMAIN want' = Ids
  BY <1>1 DEF Insert, TypeRows
<1>3. LiveIn(row') = LiveIn(row) \cup {i} /\ i \notin LiveIn(row)
  BY <1>1, <1>2 DEF LiveIn
<1>4. Forward /\ Steady
  BY <1>1, <1>2, <1>3, Kinds DEF Forward, Steady, Patched
<1>. QED
  BY <1>2, <1>3, <1>4

LEMMA InsertRows ==
  ASSUME RowsInv, NEW i, NEW parents, NEW v, Admitted(i, parents, v), Insert(i, parents, v),
         UNCHANGED <<body, events, sweep, overlapped>>, StepsWritten,
         late' \subseteq Bookmarks, late \subseteq late',
         i \in Bookmarks \ late' => \A r \in parents : ~Missed(r)
  PROVE  RowsInv'
<1>0. /\ TypeRows /\ RefsSound /\ NoDangling /\ OneTenant /\ Callable /\ PinKept /\ PinSafe /\ EditsKept
      /\ i \in Ids
  BY DEF RowsInv, Admitted
<1>1. /\ LiveIn(row') = LiveIn(row) \cup {i} /\ i \notin LiveIn(row)
      /\ row'[i] = v /\ refs'[i] = parents /\ want'[i] = v
      /\ \A j \in Ids \ {i} : row'[j] = row[j] /\ refs'[j] = refs[j] /\ want'[j] = want[j]
      /\ DOMAIN row' = Ids /\ DOMAIN refs' = Ids /\ DOMAIN want' = Ids
  BY <1>0, InsertForward
<1>2. Live' = Live \cup {i} /\ i \notin Live /\ Live \subseteq Ids
  BY <1>1, LiveNow DEF Live
<1>3. \A n \in Scenarios : \A k \in DOMAIN steps'[n] : steps'[n][k] \in Live /\ Owner[steps'[n][k]] = Owner[n]
  BY <1>0 DEF StepsWritten, NoDangling, OneTenant
<1>4. TypeRows'
  <2>1. \A j \in Live' : row'[j] \in Columns(j)
    BY <1>0, <1>1, <1>2 DEF TypeRows, Admitted
  <2>2. steps' \in [Scenarios -> StepRows] /\ \A n \in Scenarios \ Live' : DOMAIN steps'[n] = {}
    <3>1. \A n \in Scenarios : steps'[n] \in StepRows
      BY <1>0 DEF StepsWritten, TypeRows
    <3>2. steps' \in [Scenarios -> StepRows]
      BY <3>1 DEF StepsWritten
    <3>3. \A n \in Scenarios \ Live' : steps'[n] = steps[n] /\ n \notin Live
      BY <1>2, LiveNow DEF StepsWritten
    <3>. QED
      BY <1>0, <3>2, <3>3 DEF TypeRows
  <2>. QED
    BY <1>0, <1>1, <2>1, <2>2 DEF TypeRows
<1>5. RefsSound'
  BY <1>0, <1>1, <1>2 DEF RefsSound, Admitted
<1>6. NoDangling'
  <2>1. \A j \in Live' : refs'[j] \subseteq Live'
    BY <1>0, <1>1, <1>2 DEF NoDangling, Admitted
  <2>. QED
    BY <1>0, <1>2, <1>3, <2>1 DEF NoDangling
<1>7. OneTenant'
  <2>1. \A c \in Connections \cap Live' : \A j, k \in refs'[c] : Owner[j] = Owner[k]
    <3>1. i \in Connections => \A j, k \in parents : Owner[j] = Owner[k]
      BY DEF Admitted, Fit
    <3>. QED
      BY <1>0, <1>1, <1>2, <3>1, Kinds DEF OneTenant
  <2>2. \A m \in Bookmarks \cap Live' : \A r \in refs'[m] : Owner[SourceIn(refs'[r])] = Owner[m]
    <3>1. \A m \in Bookmarks \cap Live : \A r \in refs[m] : r # i /\ r \in Ids
      BY <1>0, <1>2 DEF NoDangling
    <3>2. \A r \in parents : r # i /\ r \in Ids
      BY <1>2 DEF Admitted
    <3>. QED
      BY <1>0, <1>1, <1>2, <3>1, <3>2, Kinds DEF OneTenant, SourceOf, Admitted
  <2>3. \A e \in events' : SourceOf(e.req)' = SourceOf(e.conn)'
    <3>1. \A e \in events : e.req \in Live /\ e.conn \in Live
      BY <1>0 DEF NoDangling
    <3>. QED
      BY <1>0, <1>1, <1>2, <3>1 DEF OneTenant, SourceOf
  <2>. QED
    BY <1>3, <2>1, <2>2, <2>3 DEF OneTenant, SourceOf
<1>8. Callable'
  BY <1>0, <1>1, <1>2, Kinds DEF Callable, Admitted, Deliverable
<1>9. PinKept' /\ PinSafe'
  <2>1. ASSUME NEW m \in (Bookmarks \cap Live') \ late', NEW r \in refs'[m]
        PROVE  Stored(r)' /\ (sweep' = None \/ r \notin sweep')
    <3>1. CASE m = i
      BY <1>1, <2>1, <3>1 DEF Missed, Stored
    <3>2. CASE m # i
      <4>1. m \in (Bookmarks \cap Live) \ late /\ r \in refs[m]
        BY <1>1, <1>2, <2>1, <3>2, Kinds
      <4>. QED
        BY <1>0, <4>1 DEF PinKept, PinSafe, Stored
    <3>. QED
      BY <3>1, <3>2
  <2>. QED
    BY <2>1 DEF PinKept, PinSafe
<1>10. EditsKept'
  BY <1>0, <1>1, <1>2 DEF EditsKept
<1>. QED
  BY <1>4, <1>5, <1>6, <1>7, <1>8, <1>9, <1>10 DEF RowsInv

-----------------------------------------------------------------------------
(* What a deletion does to the tables. *)

\* Nothing that hangs on a deleted row survives it.
LEMMA CascadeClosed ==
  ASSUME RefsSound, NEW x \in Ids, NEW j \in Live, refs[j] \cap Cascade({x}) # {}
  PROVE  j \in Cascade({x})
<1>1. PICK p \in refs[j] : p \in Cascade({x})
  OBVIOUS
<1>2. CASE p \in Below({x})
  BY <1>1, <1>2 DEF Cascade, Below
<1>3. CASE p \notin Below({x})
  <2>1. p \in Live /\ refs[p] \cap Below({x}) # {}
    BY <1>1, <1>3 DEF Cascade, Below
  <2>2. PICK q \in refs[p] : q \in Below({x}) /\ q # x
    BY <1>3, <2>1 DEF Below
  <2>3. q \in Live /\ refs[q] # {}
    BY <2>2 DEF Below
  <2>4. Fit(j, refs[j]) /\ Fit(p, refs[p]) /\ Fit(q, refs[q]) /\ j \in Ids /\ p \in Ids /\ q \in Ids
    BY <2>1, <2>3 DEF RefsSound, Live
  <2>5. p \in Requests
    <3>1. p \notin Sources \cup Destinations
      BY <2>1, <2>4 DEF Fit
    <3>. QED
      BY <1>1, <2>4, <3>1, Depth
  <2>6. q \in Sources \cup Destinations
    BY <2>2, <2>4, <2>5, Depth, TablesApart
  <2>. QED
    BY <2>3, <2>4, <2>6 DEF Fit
<1>. QED
  BY <1>2, <1>3

LEMMA DeleteForward ==
  ASSUME TypeRows, RefsSound, NEW x \in Ids, Delete({x})
  PROVE  /\ Forward /\ Steady
         /\ LiveIn(row') = LiveIn(row) \ Cascade({x})
         /\ DOMAIN row' = Ids /\ DOMAIN refs' = Ids /\ DOMAIN want' = Ids
         /\ \A j \in LiveIn(row') : row'[j] = row[j] /\ refs'[j] = refs[j] /\ want'[j] = want[j]
         /\ \A j \in Ids \ LiveIn(row') : refs'[j] = {}
<1>0. x \in Cascade({x})
  BY DEF Cascade, Below
<1>. DEFINE D == Cascade({x})
<1>1. /\ row' = [j \in Ids |-> IF j \in D THEN Gone ELSE row[j]]
      /\ refs' = [j \in Ids |-> IF j \in D THEN {} ELSE refs[j]]
      /\ want' = [j \in Ids |-> IF j \in D THEN Gone ELSE want[j]]
  BY DEF Delete
<1>. HIDE DEF D
<1>2. LiveIn(row') = LiveIn(row) \ D
  BY <1>1 DEF LiveIn
<1>3. \A j \in Ids \ LiveIn(row') : refs'[j] = {}
  BY <1>1, <1>2, LiveNow DEF RefsSound
<1>4. \A j \in LiveIn(row') : row'[j] = row[j] /\ refs'[j] = refs[j] /\ want'[j] = want[j] /\ j \in Ids
  BY <1>1, <1>2 DEF LiveIn
<1>5. Forward /\ Steady
  <2>1. \A j \in Ids : row[j] # None => row'[j] # None
    BY <1>1, MarksApart
  <2>. QED
    BY <1>2, <1>4, <2>1 DEF Forward, Steady
<1>. QED
  BY <1>1, <1>2, <1>3, <1>4, <1>5 DEF D

LEMMA DeleteRows ==
  ASSUME RowsInv, NEW x \in Ids, Delete({x})
  PROVE  RowsInv'
<1>. DEFINE D == Cascade({x})
<1>0. /\ TypeRows /\ RefsSound /\ NoDangling /\ OneTenant /\ Callable /\ PinKept /\ PinSafe /\ EditsKept
  BY DEF RowsInv
<1>1. /\ Live' = Live \ D /\ Live \subseteq Ids
      /\ DOMAIN row' = Ids /\ DOMAIN refs' = Ids /\ DOMAIN want' = Ids
      /\ \A j \in Live' : row'[j] = row[j] /\ refs'[j] = refs[j] /\ want'[j] = want[j]
      /\ \A j \in Ids \ Live' : refs'[j] = {}
  BY <1>0, DeleteForward, LiveNow DEF Live
<1>2. \A j \in Live' : refs[j] \cap D = {} /\ refs[j] \subseteq Live
  BY <1>0, <1>1, CascadeClosed DEF NoDangling
<1>3. /\ steps' = [n \in Scenarios |->
                     [k \in {k \in DOMAIN steps[n] : {n, steps[n][k]} \cap D = {}} |-> steps[n][k]]]
      /\ events' = {e \in events : {e.req, e.conn} \cap D = {}}
      /\ body' = [r \in Requests |-> IF r \in D THEN "none" ELSE body[r]]
      /\ UNCHANGED <<sweep, sweeps, overlapped, late>>
  BY DEF Delete
<1>. HIDE DEF D
<1>4. \A n \in Scenarios : /\ DOMAIN steps'[n] \subseteq DOMAIN steps[n]
                           /\ \A k \in DOMAIN steps'[n] : /\ steps'[n][k] = steps[n][k]
                                                          /\ steps[n][k] \notin D /\ n \notin D
  BY <1>3
<1>5. TypeRows'
  <2>1. \A n \in Scenarios : steps'[n] \in StepRows
    <3>. SUFFICES ASSUME NEW n \in Scenarios PROVE steps'[n] \in StepRows
      OBVIOUS
    <3>1. PICK P \in SUBSET (1..MaxSteps) : steps[n] \in [P -> Bookmarks]
      BY <1>0 DEF TypeRows, StepRows
    <3>. DEFINE Q == {k \in DOMAIN steps[n] : {n, steps[n][k]} \cap D = {}}
    <3>2. Q \in SUBSET (1..MaxSteps) /\ steps'[n] \in [Q -> Bookmarks]
      BY <1>3, <3>1
    <3>. QED
      BY <3>2 DEF StepRows
  <2>2. steps' \in [Scenarios -> StepRows]
    BY <1>3, <2>1
  <2>3. \A n \in Scenarios \ Live' : DOMAIN steps'[n] = {}
    BY <1>0, <1>1, <1>4 DEF TypeRows
  <2>4. body' \in [Requests -> Stages]
    BY <1>0, <1>3 DEF TypeRows, Stages
  <2>5. events' \subseteq [req: Requests, conn: Connections]
    BY <1>0, <1>3 DEF TypeRows
  <2>. QED
    BY <1>0, <1>1, <1>3, <2>2, <2>3, <2>4, <2>5 DEF TypeRows
<1>6. RefsSound'
  BY <1>0, <1>1 DEF RefsSound
<1>7. NoDangling'
  <2>1. \A e \in events' : e.req \in Live' /\ e.conn \in Live'
    BY <1>0, <1>1, <1>3 DEF NoDangling
  <2>. QED
    BY <1>0, <1>1, <1>2, <1>4, <2>1 DEF NoDangling
<1>8. OneTenant'
  <2>1. \A m \in Bookmarks \cap Live' : \A r \in refs'[m] : Owner[SourceIn(refs'[r])] = Owner[m]
    BY <1>0, <1>1, <1>2 DEF OneTenant, SourceOf
  <2>2. \A e \in events' : SourceIn(refs'[e.req]) = SourceIn(refs'[e.conn])
    <3>1. \A e \in events' : e \in events /\ e.req \in Live' /\ e.conn \in Live'
      BY <1>0, <1>1, <1>3 DEF NoDangling
    <3>. QED
      BY <1>0, <1>1, <3>1 DEF OneTenant, SourceOf
  <2>. QED
    BY <1>0, <1>1, <1>4, <2>1, <2>2 DEF OneTenant, SourceOf
<1>9. Callable'
  BY <1>0, <1>1, <1>3 DEF Callable
<1>10. PinKept' /\ PinSafe'
  <2>1. ASSUME NEW m \in (Bookmarks \cap Live') \ late', NEW r \in refs'[m]
        PROVE  Stored(r)' /\ (sweep' = None \/ r \notin sweep')
    <3>1. m \in (Bookmarks \cap Live) \ late /\ r \in refs[m] /\ r \notin D
      BY <1>1, <1>2, <1>3, <2>1
    <3>2. r \in Requests
      BY <1>0, <3>1, Kinds DEF RefsSound, Fit
    <3>. QED
      BY <1>0, <1>3, <3>1, <3>2 DEF PinKept, PinSafe, Stored
  <2>. QED
    BY <2>1 DEF PinKept, PinSafe
<1>11. EditsKept'
  BY <1>0, <1>1, <1>3 DEF EditsKept
<1>. QED
  BY <1>5, <1>6, <1>7, <1>8, <1>9, <1>10, <1>11 DEF RowsInv

-----------------------------------------------------------------------------
(* What a write to a row, a payload or the events does to the tables. *)

LEMMA UpdateForward ==
  ASSUME TypeRows, NEW x \in LiveIn(row), NEW v \in Columns(x), row' = [row EXCEPT ![x] = v], refs' = refs
  PROVE  /\ Forward /\ x \in Ids /\ LiveIn(row') = LiveIn(row) /\ DOMAIN row' = Ids
         /\ row'[x] = v /\ \A j \in Ids \ {x} : row'[j] = row[j]
<1>1. x \in Ids /\ row[x] # None /\ v # None /\ v # Gone
  BY ColumnsApart DEF LiveIn
<1>2. DOMAIN row' = Ids /\ row'[x] = v /\ \A j \in Ids \ {x} : row'[j] = row[j]
  BY <1>1 DEF TypeRows
<1>3. LiveIn(row') = LiveIn(row)
  BY <1>1, <1>2 DEF LiveIn
<1>. QED
  BY <1>1, <1>2, <1>3 DEF Forward

LEMMA UpdateRows ==
  ASSUME RowsInv, NEW x \in LiveIn(row), NEW v \in Columns(x), NEW w,
         row' = [row EXCEPT ![x] = v], want' = [want EXCEPT ![x] = w],
         UNCHANGED <<refs, body, events, sweep, late>>, StepsWritten,
         overlapped \subseteq overlapped', overlapped' \subseteq Ids,
         x \in Destinations => x \in overlapped' \/ Deliverable(v),
         x \notin overlapped' \cap (Rules \cup Bookmarks \cup Scenarios) => v = w
  PROVE  RowsInv'
<1>0. TypeRows /\ RefsSound /\ NoDangling /\ OneTenant /\ Callable /\ PinKept /\ PinSafe /\ EditsKept
  BY DEF RowsInv
<1>1. /\ x \in Ids /\ LiveIn(row') = LiveIn(row) /\ DOMAIN row' = Ids
      /\ row'[x] = v /\ \A j \in Ids \ {x} : row'[j] = row[j]
  BY <1>0, UpdateForward
<1>2. Live' = Live /\ Live \subseteq Ids
  BY <1>1, LiveNow DEF Live
<1>3. DOMAIN want' = Ids /\ want'[x] = w /\ \A j \in Ids \ {x} : want'[j] = want[j]
  BY <1>0, <1>1 DEF TypeRows
<1>4. \A n \in Scenarios : \A k \in DOMAIN steps'[n] : steps'[n][k] \in Live /\ Owner[steps'[n][k]] = Owner[n]
  BY <1>0 DEF StepsWritten, NoDangling, OneTenant
<1>5. TypeRows'
  <2>1. \A j \in Live' : row'[j] \in Columns(j)
    BY <1>0, <1>1, <1>2 DEF TypeRows
  <2>2. steps' \in [Scenarios -> StepRows] /\ \A n \in Scenarios \ Live' : DOMAIN steps'[n] = {}
    <3>1. \A n \in Scenarios : steps'[n] \in StepRows
      BY <1>0 DEF StepsWritten, TypeRows
    <3>2. steps' \in [Scenarios -> StepRows]
      BY <3>1 DEF StepsWritten
    <3>3. \A n \in Scenarios \ Live' : steps'[n] = steps[n] /\ n \notin Live
      BY <1>2, LiveNow DEF StepsWritten
    <3>. QED
      BY <1>0, <3>2, <3>3 DEF TypeRows
  <2>. QED
    BY <1>0, <1>1, <1>3, <2>1, <2>2 DEF TypeRows
<1>6. RefsSound' /\ NoDangling'
  BY <1>0, <1>2, <1>4 DEF RefsSound, NoDangling
<1>7. OneTenant'
  BY <1>0, <1>2, <1>4 DEF OneTenant, SourceOf
<1>8. Callable'
  BY <1>0, <1>1, <1>2, Kinds DEF Callable, Deliverable
<1>9. PinKept' /\ PinSafe'
  BY <1>0, <1>2 DEF PinKept, PinSafe, Stored
<1>10. EditsKept'
  BY <1>0, <1>1, <1>2, <1>3 DEF EditsKept
<1>. QED
  BY <1>5, <1>6, <1>7, <1>8, <1>9, <1>10 DEF RowsInv

\* Payloads and the sweep that expires them.
LEMMA BodyRows ==
  ASSUME RowsInv, UNCHANGED <<row, refs, steps, events, history>>,
         body' \in [Requests -> Stages], sweep' = None \/ sweep' \subseteq Requests,
         \A m \in (Bookmarks \cap Live) \ late : \A r \in refs[m] :
            Stored(r)' /\ (sweep' = None \/ r \notin sweep')
  PROVE  RowsInv'
<1>0. TypeRows /\ RefsSound /\ NoDangling /\ OneTenant /\ Callable /\ PinKept /\ PinSafe /\ EditsKept
  BY DEF RowsInv
<1>1. Live' = Live /\ UNCHANGED <<want, overlapped, late>>
  BY DEF Live, Exists, history
<1>2. TypeRows' /\ RefsSound' /\ NoDangling' /\ OneTenant' /\ Callable' /\ EditsKept'
  BY <1>0, <1>1 DEF TypeRows, RefsSound, NoDangling, OneTenant, Callable, EditsKept, SourceOf
<1>3. PinKept' /\ PinSafe'
  BY <1>1 DEF PinKept, PinSafe
<1>. QED
  BY <1>2, <1>3 DEF RowsInv

LEMMA EventRows ==
  ASSUME RowsInv, UNCHANGED <<row, refs, body, steps, sweep, history>>,
         NEW r \in Requests \cap Live, NEW C \in SUBSET (Connections \cap Live),
         \A c \in C : SourceIn(refs[c]) = SourceIn(refs[r]),
         events' = events \cup {[req |-> r, conn |-> c] : c \in C}
  PROVE  RowsInv'
<1>0. TypeRows /\ RefsSound /\ NoDangling /\ OneTenant /\ Callable /\ PinKept /\ PinSafe /\ EditsKept
  BY DEF RowsInv
<1>1. Live' = Live /\ UNCHANGED <<want, overlapped, late>>
  BY DEF Live, Exists, history
<1>2. \A e \in events' : e \in events \/ \E c \in C : e.req = r /\ e.conn = c
  OBVIOUS
<1>3. events' \subseteq [req: Requests, conn: Connections]
  BY <1>0 DEF TypeRows
<1>4. TypeRows' /\ RefsSound' /\ Callable' /\ EditsKept' /\ PinKept' /\ PinSafe'
  BY <1>0, <1>1, <1>3 DEF TypeRows, RefsSound, Callable, EditsKept, PinKept, PinSafe, Stored
<1>5. NoDangling'
  BY <1>0, <1>1, <1>2 DEF NoDangling
<1>6. OneTenant'
  <2>1. \A e \in events' : SourceIn(refs'[e.req]) = SourceIn(refs'[e.conn])
    BY <1>0, <1>2 DEF OneTenant, SourceOf
  <2>. QED
    BY <1>0, <1>1, <2>1 DEF OneTenant, SourceOf
<1>. QED
  BY <1>4, <1>5, <1>6 DEF RowsInv

LEMMA SameRows == ASSUME RowsInv, UNCHANGED <<tables, sweep, history>> PROVE RowsInv'
<1>0. TypeRows /\ RefsSound /\ NoDangling /\ OneTenant /\ Callable /\ PinKept /\ PinSafe /\ EditsKept
  BY DEF RowsInv
<1>1. Live' = Live /\ UNCHANGED <<row, refs, body, steps, events, sweep, want, overlapped, late>>
  BY DEF Live, Exists, tables, history
<1>2. TypeRows' /\ RefsSound' /\ NoDangling' /\ OneTenant' /\ Callable'
  BY <1>0, <1>1 DEF TypeRows, RefsSound, NoDangling, OneTenant, Callable, SourceOf
<1>3. EditsKept' /\ PinKept' /\ PinSafe'
  BY <1>0, <1>1 DEF EditsKept, PinKept, PinSafe, Stored
<1>. QED
  BY <1>2, <1>3 DEF RowsInv

-----------------------------------------------------------------------------
(* A good step keeps the invariant and changes no URL but as it may. *)

Repointed == \A d \in Destinations \cap Live :
    row'[d] # Gone /\ row'[d].b # row[d].b =>
        \E s \in Slots : /\ req[s].op = "patch" /\ req[s].id = d /\ req'[s] = Idle
                         /\ req[s].adm \/ (req[s].over /\ row'[d].b = req[s].read.b)

StepGood == IInv' /\ Repointed

LEMMA UrlsKept ==
  ASSUME \A d \in Destinations \cap Live : row'[d] = row[d] \/ row'[d] = Gone
  PROVE  Repointed
  BY DEF Repointed

LEMMA BeginGood ==
  ASSUME IInv, NEW s \in Slots, NEW r, Begin(s, r), Sound(r, row, refs),
         UNCHANGED <<tables, sweep, sweeps, history>>
  PROVE  StepGood
<1>1. RowsInv /\ RequestsSound /\ Counted
  BY DEF IInv
<1>2. UNCHANGED <<row, refs>>
  BY DEF tables
<1>3. RowsInv'
  BY <1>1, SameRows
<1>4. RequestsSound'
  BY <1>1, <1>2, StillForward, OthersSound DEF Begin
<1>5. Counted'
  BY <1>1, Bounds DEF Counted, Begin
<1>. QED
  BY <1>2, <1>3, <1>4, <1>5, UrlsKept DEF StepGood, IInv

LEMMA FailGood == ASSUME IInv, NEW s \in Slots, Fail(s) PROVE StepGood
<1>1. RowsInv /\ RequestsSound /\ Counted /\ UNCHANGED <<tables, started, sweep, sweeps, history>> /\ End(s)
  BY DEF IInv, Fail
<1>2. UNCHANGED <<row, refs>>
  BY <1>1 DEF tables
<1>3. RowsInv' /\ RequestsSound' /\ Counted'
  BY <1>1, <1>2, SameRows, StillForward, EndSound DEF Counted
<1>. QED
  BY <1>2, <1>3, UrlsKept DEF StepGood, IInv

LEMMA NewRequest ==
  ASSUME NEW op \in Ops, NEW org \in Callers, NEW R \in SUBSET Ids
  PROVE  LET r == New(op, org, R)
         IN  /\ r \in Handlings /\ r.op = op /\ r.org = org /\ r.refs = R /\ r.id = None /\ r.list = None
  BY DEF New, Idle, Handlings

LEMMA PatchRequest ==
  ASSUME NEW org \in Callers, NEW adm \in BOOLEAN, NEW i \in Ids, NEW b \in Bodies \cup Patches,
         row[i] \in Pair \cup Endpoint
  PROVE  LET r == Patching(org, adm, i, b)
         IN  /\ r \in Handlings /\ r.op = "patch" /\ (r.adm <=> adm) /\ r.id = i /\ r.set = b
             /\ r.read = row[i] /\ r.refs = {} /\ ~r.over /\ r.list = None
  BY DEF Patching, Idle, Handlings, Ops

LEMMA Looked == ASSUME IInv, NEW i \in Ids, Exists(i)
                PROVE  /\ i \in Live /\ i \in LiveIn(row) /\ i \in Known(row)
                       /\ row[i] \in Columns(i) /\ row[i] \in Pair \cup Endpoint /\ Fit(i, refs[i])
  BY DEF IInv, RowsInv, TypeRows, RefsSound, Live, LiveIn, Known, Exists, Columns

\* The request that a PATCH handler has after its lookup.
LEMMA PatchingSound ==
  ASSUME IInv, NEW org \in Callers, NEW adm \in BOOLEAN, NEW i \in Patched, Exists(i),
         NEW b \in (IF i \in Destinations THEN Bodies ELSE Patches),
         i \in Destinations => MayRepoint(adm, row[i], b) /\ Deliverable(Over(row[i], b))
  PROVE  Sound(Patching(org, adm, i, b), row, refs)
<1>. DEFINE r == Patching(org, adm, i, b)
<1>1. i \in Ids /\ row[i] \in Columns(i) /\ row[i] \in Pair \cup Endpoint /\ i \in Known(row)
  BY Looked, Kinds DEF Patched
<1>2. /\ r \in Handlings /\ r.op = "patch" /\ (r.adm <=> adm) /\ r.id = i /\ r.set = b
      /\ r.read = row[i] /\ r.refs = {} /\ ~r.over /\ r.list = None
  <2>1. b \in Bodies \cup Patches
    OBVIOUS
  <2>. QED
    BY <1>1, <2>1, PatchRequest
<1>. HIDE DEF r
<1>3. Merges(r, row)
  BY <1>1, <1>2 DEF Merges, MayRepoint
<1>4. Inserts(r, row, refs) /\ Sends(r, row, refs)
  BY <1>2 DEF Inserts, Sends
<1>. QED
  BY <1>1, <1>2, <1>3, <1>4 DEF Sound, r

LEMMA PatchDestinationGood ==
  ASSUME IInv, NEW s \in Slots, NEW org \in Callers, NEW adm \in BOOLEAN, NEW i \in Destinations,
         NEW b \in Bodies, PatchDestination(s, org, adm, i, b)
  PROVE  StepGood
<1>1. Sound(Patching(org, adm, i, b), row, refs)
  BY PatchingSound DEF PatchDestination, GetDestinationForOrg, Patched
<1>. QED
  BY <1>1, BeginGood DEF PatchDestination

LEMMA PatchesGood ==
  ASSUME IInv, NEW s \in Slots, NEW org \in Callers, NEW i, NEW b \in Patches,
         \/ i \in Connections /\ PatchConnection(s, org, i, b)
         \/ i \in Rules /\ PatchCaptureRule(s, org, i, b)
         \/ i \in Bookmarks /\ PatchBookmark(s, org, i, b)
  PROVE  StepGood
<1>1. /\ i \in Patched /\ Exists(i) /\ i \notin Destinations
      /\ Begin(s, Patching(org, FALSE, i, b)) /\ UNCHANGED <<tables, sweep, sweeps, history>>
  BY TablesApart DEF PatchConnection, PatchCaptureRule, PatchBookmark, GetConnectionForOrg, GetCaptureRuleForOrg,
                     GetBookmarkForOrg, Patched
<1>2. Sound(Patching(org, FALSE, i, b), row, refs)
  BY <1>1, PatchingSound
<1>. QED
  BY <1>1, <1>2, BeginGood

LEMMA CreateConnectionGood ==
  ASSUME IInv, NEW s \in Slots, NEW org \in Callers, NEW src \in Sources, NEW dst \in Destinations,
         CreateConnection(s, org, src, dst)
  PROVE  StepGood
<1>. DEFINE r == New("connect", org, {src, dst})
<1>1. src \in Known(row) /\ dst \in Known(row) /\ Owner[src] = org /\ Owner[dst] = org
  BY Looked, Kinds DEF CreateConnection, GetSourceForOrg, GetDestinationForOrg
<1>2. r \in Handlings /\ r.op = "connect" /\ r.org = org /\ r.refs = {src, dst} /\ r.id = None
  BY NewRequest, Kinds DEF Ops
<1>3. Begin(s, r) /\ UNCHANGED <<tables, sweep, sweeps, history>>
  BY DEF CreateConnection
<1>. HIDE DEF r
<1>4. Sound(r, row, refs)
  BY <1>1, <1>2 DEF Sound, Inserts, Sends, Merges
<1>. QED
  BY <1>3, <1>4, BeginGood

LEMMA OnSourceGood ==
  ASSUME IInv, NEW s \in Slots, NEW org \in Callers, NEW src \in Sources,
         CreateCaptureRule(s, org, src) \/ ImportBookmark(s, org, src)
  PROVE  StepGood
<1>. DEFINE r(op) == New(op, org, {src})
<1>1. src \in Known(row) /\ Owner[src] = org
  BY Looked, Kinds DEF CreateCaptureRule, ImportBookmark, GetSourceForOrg
<1>2. ASSUME NEW op \in {"rule", "import"}
      PROVE  r(op) \in Handlings /\ r(op).op = op /\ r(op).org = org /\ r(op).refs = {src} /\ r(op).id = None
  BY NewRequest, Kinds DEF Ops
<1>3. \E op \in {"rule", "import"} : Begin(s, r(op)) /\ UNCHANGED <<tables, sweep, sweeps, history>>
  BY DEF CreateCaptureRule, ImportBookmark
<1>4. ASSUME NEW op \in {"rule", "import"} PROVE Sound(r(op), row, refs)
  <2>. DEFINE q == r(op)
  <2>1. q \in Handlings /\ q.op = op /\ q.org = org /\ q.refs = {src} /\ q.id = None
    BY <1>2
  <2>. HIDE DEF q
  <2>2. Sound(q, row, refs)
    BY <1>1, <2>1 DEF Sound, Inserts, Sends, Merges
  <2>. QED
    BY <2>2 DEF q
<1>. HIDE DEF r
<1>. QED
  BY <1>3, <1>4, BeginGood

LEMMA TestConnectionGood ==
  ASSUME IInv, NEW s \in Slots, NEW org \in Callers, NEW c \in Connections, TestConnection(s, org, c)
  PROVE  StepGood
<1>. DEFINE r == New("test", org, {c, SourceOf(c)})
<1>1. c \in Live /\ c \in Known(row) /\ Fit(c, refs[c])
  BY Looked, Kinds DEF TestConnection, GetConnectionForOrg
<1>2. SourceOf(c) \in Sources /\ SourceOf(c) \in refs[c]
  BY <1>1, SourceFit DEF SourceOf
<1>3. SourceOf(c) \in Known(row)
  BY <1>1, <1>2, Kinds DEF IInv, RowsInv, NoDangling, Live, Exists, Known
<1>4. r \in Handlings /\ r.op = "test" /\ r.org = org /\ r.refs = {c, SourceOf(c)} /\ r.id = None
  BY <1>2, NewRequest, Kinds DEF Ops
<1>5. Begin(s, r) /\ UNCHANGED <<tables, sweep, sweeps, history>>
  BY DEF TestConnection
<1>. HIDE DEF r
<1>6. Sends(r, row, refs)
  BY <1>2, <1>4 DEF Sends, SourceOf
<1>7. Sound(r, row, refs)
  BY <1>1, <1>3, <1>4, <1>6 DEF Sound, Inserts, Merges
<1>. QED
  BY <1>5, <1>7, BeginGood

LEMMA CreateBookmarkGood ==
  ASSUME IInv, NEW s \in Slots, NEW org \in Callers, NEW q \in Requests, CreateBookmark(s, org, q)
  PROVE  StepGood
<1>. DEFINE r == New("mark", org, {q})
<1>1. q \in Known(row) /\ Owner[SourceIn(refs[q])] = org
  BY Looked, Kinds DEF CreateBookmark, GetRequestForReplay, SourceOf
<1>2. r \in Handlings /\ r.op = "mark" /\ r.org = org /\ r.refs = {q} /\ r.id = None
  BY NewRequest, Kinds DEF Ops
<1>3. Begin(s, r) /\ UNCHANGED <<tables, sweep, sweeps, history>>
  BY DEF CreateBookmark
<1>. HIDE DEF r
<1>4. Sound(r, row, refs)
  BY <1>1, <1>2 DEF Sound, Inserts, Sends, Merges
<1>. QED
  BY <1>3, <1>4, BeginGood

LEMMA ReplayBookmarkGood ==
  ASSUME IInv, NEW s \in Slots, NEW org \in Callers, NEW m \in Bookmarks, ReplayBookmark(s, org, m)
  PROVE  StepGood
<1>. DEFINE q == CHOOSE r \in Requests : r \in refs[m]
            n == New("replay", org, {})
            r == [n EXCEPT !.id = q]
<1>1. m \in Live /\ Fit(m, refs[m])
  BY Looked, Kinds DEF ReplayBookmark, GetBookmarkForOrg
<1>2. q \in Requests /\ q \in refs[m]
  BY <1>1 DEF Fit
<1>3. q \in Known(row)
  BY <1>1, <1>2, Kinds DEF IInv, RowsInv, NoDangling, Live, Exists, Known
<1>4. Begin(s, r) /\ UNCHANGED <<tables, sweep, sweeps, history>>
  BY DEF ReplayBookmark
<1>. HIDE DEF q
<1>5. n \in Handlings /\ n.op = "replay" /\ n.org = org /\ n.refs = {}
  BY NewRequest DEF Ops
<1>. HIDE DEF n
<1>6. r \in Handlings /\ r.op = "replay" /\ r.refs = {} /\ r.id = q
  BY <1>2, <1>5, Kinds DEF Handlings
<1>. HIDE DEF r
<1>7. Sound(r, row, refs)
  BY <1>2, <1>3, <1>6 DEF Sound, Inserts, Sends, Merges
<1>. QED
  BY <1>4, <1>7, BeginGood

LEMMA ListOwned ==
  ASSUME IInv, NEW org, NEW list \in StepLists, ValidateSteps(org, list)
  PROVE  \A k \in DOMAIN list : Owner[list[k]] = org
  BY DEF ValidateSteps, GetBookmarkForOrg

LEMMA CreateScenarioGood ==
  ASSUME IInv, NEW s \in Slots, NEW org \in Callers, NEW list \in StepLists, CreateScenario(s, org, list)
  PROVE  StepGood
<1>. DEFINE n == New("scenario", org, {})
            r == [n EXCEPT !.list = list]
<1>1. \A k \in DOMAIN list : Owner[list[k]] = org
  BY ListOwned DEF CreateScenario
<1>2. Begin(s, r) /\ UNCHANGED <<tables, sweep, sweeps, history>>
  BY DEF CreateScenario
<1>3. n \in Handlings /\ n.op = "scenario" /\ n.org = org /\ n.refs = {} /\ n.id = None
  BY NewRequest DEF Ops
<1>. HIDE DEF n
<1>4. r \in Handlings /\ r.op = "scenario" /\ r.org = org /\ r.refs = {} /\ r.id = None /\ r.list = list
  BY <1>3 DEF Handlings
<1>. HIDE DEF r
<1>5. Sound(r, row, refs)
  BY <1>1, <1>4 DEF Sound, Inserts, Sends, Merges
<1>. QED
  BY <1>2, <1>5, BeginGood

LEMMA PatchScenarioGood ==
  ASSUME IInv, NEW s \in Slots, NEW org \in Callers, NEW n \in Scenarios, NEW b \in Patches,
         NEW list \in StepLists \cup {None}, PatchScenario(s, org, n, b, list)
  PROVE  StepGood
<1>. DEFINE p == Patching(org, FALSE, n, b)
            r == [p EXCEPT !.list = list]
<1>1. /\ Exists(n) /\ Owner[n] = org /\ (list # None => ValidateSteps(org, list))
      /\ Begin(s, r) /\ UNCHANGED <<tables, sweep, sweeps, history>>
  BY DEF PatchScenario, GetScenarioForOrg
<1>2. n \in Patched /\ n \notin Destinations
  BY TablesApart DEF Patched
<1>3. list # None => list \in StepLists /\ \A k \in DOMAIN list : Owner[list[k]] = Owner[n]
  BY <1>1, ListOwned
<1>4. Sound(p, row, refs)
  BY <1>1, <1>2, PatchingSound
<1>5. p.op = "patch" /\ p.id = n
  BY DEF Patching, Idle
<1>. HIDE DEF p
<1>6. /\ r \in Handlings /\ r.op = "patch" /\ r.id = n /\ r.refs = p.refs /\ r.list = list
      /\ r.read = p.read /\ r.set = p.set /\ r.over = p.over
  BY <1>4, <1>5 DEF Sound, Handlings
<1>. HIDE DEF r
<1>7. Merges(r, row)
  <2>1. Merges(p, row)
    BY <1>4 DEF Sound
  <2>. QED
    BY <1>2, <1>3, <1>5, <1>6, <2>1 DEF Merges
<1>8. Sound(r, row, refs)
  BY <1>4, <1>5, <1>6, <1>7 DEF Sound, Inserts, Sends
<1>. QED
  BY <1>1, <1>8, BeginGood

\* A row is written: the new one, or one that no other PATCH is about.
LEMMA InsertGood ==
  ASSUME IInv, NEW i, NEW parents, NEW v, Admitted(i, parents, v), Insert(i, parents, v),
         UNCHANGED <<body, events, sweep, overlapped>>, StepsWritten,
         late' \subseteq Bookmarks, late \subseteq late',
         i \in Bookmarks \ late' => \A r \in parents : ~Missed(r),
         RequestsSound', Counted'
  PROVE  StepGood
<1>1. RowsInv /\ TypeRows
  BY DEF IInv, RowsInv
<1>2. RowsInv'
  BY <1>1, InsertRows
<1>3. \A d \in Destinations \cap Live : row'[d] = row[d]
  BY <1>1, InsertForward, LiveNow, Kinds
<1>. QED
  BY <1>2, <1>3, UrlsKept DEF StepGood, IInv

LEMMA StepsSame == ASSUME IInv, steps' = steps PROVE StepsWritten /\ steps' = [n \in Scenarios |-> steps'[n]]
  BY DEF IInv, RowsInv, TypeRows, StepsWritten

LEMMA CreateSourceGood == ASSUME IInv, NEW org \in Callers, CreateSource(org) PROVE StepGood
<1>1. PICK i \in Free(Sources, org) : Insert(i, {}, [a |-> 1, b |-> 0])
  BY DEF CreateSource
<1>2. RowsInv /\ TypeRows /\ RequestsSound /\ Counted
  BY DEF IInv, RowsInv
<1>3. Admitted(i, {}, [a |-> 1, b |-> 0])
  <2>1. i \in Sources /\ row[i] = None
    BY <1>1 DEF Free
  <2>. QED
    BY <2>1, Kinds, TablesApart DEF Admitted, Fit, Columns, Pair
<1>4. RequestsSound' /\ Counted'
  <2>1. Forward /\ Steady
    BY <1>1, <1>2, <1>3, InsertForward
  <2>. QED
    BY <1>2, <2>1, AllSound, Bounds DEF CreateSource, AtOnce, Counted
<1>. QED
  BY <1>1, <1>2, <1>3, <1>4, InsertGood, StepsSame, TablesApart DEF CreateSource, TypeRows, Free

LEMMA CreateDestinationGood ==
  ASSUME IInv, NEW org \in Callers, NEW v \in Endpoint, CreateDestination(org, v) PROVE StepGood
<1>1. PICK i \in Free(Destinations, org) : Insert(i, {}, v)
  BY DEF CreateDestination
<1>2. RowsInv /\ TypeRows /\ RequestsSound /\ Counted
  BY DEF IInv, RowsInv
<1>3. Admitted(i, {}, v)
  <2>1. i \in Destinations /\ row[i] = None
    BY <1>1 DEF Free
  <2>. QED
    BY <2>1, Kinds, TablesApart DEF Admitted, Fit, Columns, CreateDestination
<1>4. RequestsSound' /\ Counted'
  <2>1. Forward /\ Steady
    BY <1>1, <1>2, <1>3, InsertForward
  <2>. QED
    BY <1>2, <2>1, AllSound, Bounds DEF CreateDestination, AtOnce, Counted
<1>. QED
  BY <1>1, <1>2, <1>3, <1>4, InsertGood, StepsSame, TablesApart DEF CreateDestination, TypeRows, Free

LEMMA UpdateSourceGood ==
  ASSUME IInv, NEW org \in Callers, NEW i \in Sources, NEW b \in Patches, UpdateSource(org, i, b)
  PROVE  StepGood
<1>. DEFINE v == Over(row[i], b)
            w == Over(want[i], b)
<1>0. RowsInv /\ TypeRows /\ EditsKept /\ RequestsSound /\ Counted
  BY DEF IInv, RowsInv
<1>1. /\ i \in LiveIn(row) /\ i \in Live /\ i \in Ids /\ row[i] \in Columns(i)
      /\ i \notin Destinations /\ i \notin Rules \cup Bookmarks \cup Scenarios /\ i \notin Patched
  BY Looked, Kinds, TablesApart DEF UpdateSource, GetSourceForOrg, Patched
<1>2. v \in Columns(i) /\ v = w
  BY <1>0, <1>1, OverType DEF EditsKept
<1>3. /\ row' = [row EXCEPT ![i] = v] /\ want' = [want EXCEPT ![i] = w]
      /\ UNCHANGED <<refs, body, steps, events, sweep, sweeps, overlapped, late>> /\ AtOnce
  BY DEF UpdateSource
<1>. HIDE DEF v, w
<1>4. RowsInv'
  BY <1>0, <1>1, <1>2, <1>3, UpdateRows, StepsSame DEF TypeRows
<1>5. Forward /\ \A j \in Ids \ {i} : row'[j] = row[j]
  BY <1>0, <1>1, <1>2, <1>3, UpdateForward
<1>6. Steady
  BY <1>1, <1>5, Kinds DEF Steady, Patched
<1>7. RequestsSound' /\ Counted'
  BY <1>0, <1>3, <1>5, <1>6, AllSound, Bounds DEF AtOnce, Counted
<1>8. Repointed
  BY <1>1, <1>5, UrlsKept, Kinds
<1>. QED
  BY <1>4, <1>7, <1>8 DEF StepGood, IInv

LEMMA DeleteGood == ASSUME IInv, NEW x \in Ids, AtOnce, Delete({x}) PROVE StepGood
<1>0. RowsInv /\ TypeRows /\ RefsSound /\ RequestsSound /\ Counted
  BY DEF IInv, RowsInv
<1>1. RowsInv'
  BY <1>0, DeleteRows
<1>2. Forward /\ Steady
  BY <1>0, DeleteForward
<1>3. RequestsSound' /\ Counted'
  BY <1>0, <1>2, AllSound, Bounds DEF AtOnce, Counted, Delete
<1>4. \A d \in Destinations \cap Live : row'[d] = row[d] \/ row'[d] = Gone
  BY Kinds DEF Delete
<1>. QED
  BY <1>1, <1>3, <1>4, UrlsKept DEF StepGood, IInv

LEMMA StatementGood == ASSUME IInv, NEW org \in Callers, Statement(org) PROVE StepGood
<1>1. ASSUME \/ \E i \in Sources : DeleteSource(org, i)
             \/ \E i \in Destinations : DeleteDestination(org, i)
             \/ \E i \in Connections : DeleteConnection(org, i)
             \/ \E i \in Rules : DeleteCaptureRule(org, i)
             \/ \E i \in Bookmarks : DeleteBookmark(org, i)
             \/ \E i \in Scenarios : DeleteScenario(org, i)
      PROVE  StepGood
  <2>1. \E x \in Ids : AtOnce /\ Delete({x})
    BY <1>1, Kinds DEF DeleteSource, DeleteDestination, DeleteConnection, DeleteCaptureRule, DeleteBookmark,
                       DeleteScenario
  <2>. QED
    BY <2>1, DeleteGood
<1>. QED
  BY <1>1, CreateSourceGood, CreateDestinationGood, UpdateSourceGood DEF Statement

-----------------------------------------------------------------------------
(* The writes of requests in hand. *)

LEMMA InsertConnectionGood == ASSUME IInv, NEW s \in Slots, InsertConnection(s) PROVE StepGood
<1>. DEFINE v == [a |-> 1, b |-> 0]
            r == req[s]
<1>0. RowsInv /\ TypeRows /\ RequestsSound /\ Counted /\ Sound(r, row, refs)
  BY DEF IInv, RowsInv, RequestsSound
<1>1. PICK c \in Connections : row[c] = None /\ Insert(c, r.refs, v)
  BY DEF InsertConnection
<1>2. r.op = "connect" /\ r.refs \subseteq Live
  BY <1>0, <1>1 DEF InsertConnection, Insert, ForeignKeys, Live, Sound, Known
<1>. HIDE DEF r
<1>3. \E x \in Sources, d \in Destinations : r.refs = {x, d} /\ Owner[x] = Owner[d]
  BY <1>0, <1>2 DEF Sound, Inserts
<1>4. Admitted(c, r.refs, v)
  <2>1. c \notin Sources \cup Destinations \cup Scenarios \cup Requests \cup Rules \cup Bookmarks
    BY TablesApart
  <2>2. Fit(c, r.refs)
    BY <1>3, <2>1 DEF Fit
  <2>. QED
    BY <1>1, <1>2, <2>1, <2>2, Kinds DEF Admitted, Columns, Pair
<1>5. RequestsSound'
  BY <1>0, <1>1, <1>4, InsertForward, EndSound DEF InsertConnection
<1>. QED
  BY <1>0, <1>1, <1>4, <1>5, InsertGood, StepsSame, TablesApart DEF InsertConnection, TypeRows, Counted

LEMMA InsertCaptureRuleGood == ASSUME IInv, NEW s \in Slots, InsertCaptureRule(s) PROVE StepGood
<1>. DEFINE v == [a |-> 1, b |-> 0]
            r == req[s]
<1>0. RowsInv /\ TypeRows /\ RequestsSound /\ Counted /\ Sound(r, row, refs)
  BY DEF IInv, RowsInv, RequestsSound
<1>1. PICK c \in Free(Rules, r.org) : Insert(c, r.refs, v)
  BY DEF InsertCaptureRule
<1>2. r.op = "rule" /\ r.refs \subseteq Live /\ row[c] = None /\ c \in Rules
  BY <1>0, <1>1 DEF InsertCaptureRule, Insert, ForeignKeys, Live, Sound, Known, Free
<1>. HIDE DEF r
<1>3. \E x \in Sources : r.refs = {x}
  BY <1>0, <1>2 DEF Sound, Inserts
<1>4. Admitted(c, r.refs, v)
  <2>1. c \notin Sources \cup Destinations \cup Scenarios \cup Requests \cup Connections \cup Bookmarks
    BY <1>2, TablesApart
  <2>2. Fit(c, r.refs)
    BY <1>3, <2>1 DEF Fit
  <2>. QED
    BY <1>2, <2>1, <2>2, Kinds DEF Admitted, Columns, Pair
<1>5. RequestsSound'
  BY <1>0, <1>1, <1>4, InsertForward, EndSound DEF InsertCaptureRule
<1>. QED
  BY <1>0, <1>1, <1>2, <1>4, <1>5, InsertGood, StepsSame, TablesApart DEF InsertCaptureRule, TypeRows, Counted

\* A bookmark of a request of the caller's own.
LEMMA InsertBookmarkGood ==
  ASSUME IInv, NEW s \in Slots, NEW q \in Requests, InsertBookmark(s, q),
         q \in Live => Owner[SourceIn(refs[q])] = req[s].org
  PROVE  StepGood
<1>. DEFINE v == [a |-> 1, b |-> 0]
<1>0. RowsInv /\ TypeRows /\ RequestsSound /\ Counted
  BY DEF IInv, RowsInv
<1>1. PICK m \in Free(Bookmarks, req[s].org) :
        Insert(m, {q}, v) /\ late' = IF Missed(q) THEN late \cup {m} ELSE late
  BY DEF InsertBookmark
<1>2. q \in Live /\ row[m] = None /\ m \in Bookmarks /\ Owner[m] = req[s].org
  BY <1>1, Kinds DEF Insert, ForeignKeys, Live, Free
<1>3. Admitted(m, {q}, v)
  <2>1. m \notin Sources \cup Destinations \cup Scenarios \cup Requests \cup Connections \cup Rules
    BY <1>2, TablesApart
  <2>2. Fit(m, {q})
    BY <2>1 DEF Fit
  <2>. QED
    BY <1>2, <2>1, <2>2, Kinds DEF Admitted, Columns, Pair
<1>4. RequestsSound'
  BY <1>0, <1>1, <1>3, InsertForward, EndSound DEF InsertBookmark
<1>5. /\ late' \subseteq Bookmarks /\ late \subseteq late'
      /\ m \in Bookmarks \ late' => \A r \in {q} : ~Missed(r)
  BY <1>0, <1>1, <1>2 DEF TypeRows
<1>6. UNCHANGED <<body, steps, events, started, sweep, sweeps, overlapped>>
  BY DEF InsertBookmark
<1>. QED
  BY <1>0, <1>1, <1>3, <1>4, <1>5, <1>6, InsertGood, StepsSame DEF Counted

LEMMA StoreBookmarkGood == ASSUME IInv, NEW s \in Slots, StoreBookmark(s) PROVE StepGood
<1>1. PICK q \in req[s].refs : InsertBookmark(s, q)
  BY DEF StoreBookmark
<1>2. q \in Requests /\ (q \in Live => Owner[SourceIn(refs[q])] = req[s].org)
  BY <1>1, LiveNow DEF StoreBookmark, IInv, RequestsSound, Sound, Inserts
<1>. QED
  BY <1>1, <1>2, InsertBookmarkGood

LEMMA StoreImportedGood == ASSUME IInv, NEW s \in Slots, StoreImported(s) PROVE StepGood
<1>. DEFINE q == req[s].id
<1>1. PICK x \in Sources : Owner[x] = req[s].org /\ q \in Requests /\ (q \in Live => refs[q] = {x})
  BY LiveNow DEF StoreImported, IInv, RequestsSound, Sound, Sends
<1>2. q \in Live => Owner[SourceIn(refs[q])] = req[s].org
  BY <1>1, SourceOne
<1>. QED
  BY <1>1, <1>2, InsertBookmarkGood DEF StoreImported

LEMMA CreateRequestGood == ASSUME IInv, NEW s \in Slots, CreateRequest(s) PROVE StepGood
<1>. DEFINE v == [a |-> 1, b |-> 0]
            r == req[s]
            R == r.refs \cap Sources
<1>0. RowsInv /\ TypeRows /\ RequestsSound /\ Counted /\ Sound(r, row, refs)
  BY DEF IInv, RowsInv, RequestsSound
<1>1. PICK q \in Requests : row[q] = None /\ Insert(q, R, v) /\ req' = [req EXCEPT ![s].id = q]
  BY DEF CreateRequest
<1>. DEFINE n == [r EXCEPT !.id = q]
<1>2. req' = [req EXCEPT ![s] = n] /\ r.op \in {"import", "test"} /\ r.id = None
  BY <1>0, <1>1 DEF CreateRequest, RequestsSound
<1>. HIDE DEF r
<1>3. PICK x \in Sources : R = {x}
  <2>1. CASE r.op = "import"
    BY <1>0, <2>1 DEF Sound, Sends
  <2>2. CASE r.op = "test"
    <3>1. PICK y \in Sources, c \in Connections : r.refs = {c, y}
      BY <1>0, <2>2 DEF Sound, Sends
    <3>. QED
      BY <3>1, TablesApart
  <2>. QED
    BY <1>2, <2>1, <2>2
<1>4. x \in Live
  BY <1>1, <1>3, Kinds DEF Insert, ForeignKeys, Live
<1>5. Admitted(q, R, v)
  <2>1. q \notin Sources \cup Destinations \cup Scenarios \cup Bookmarks \cup Connections \cup Rules
    BY TablesApart
  <2>2. Fit(q, R)
    BY <1>3, <2>1 DEF Fit
  <2>. QED
    BY <1>1, <1>3, <1>4, <2>1, <2>2, Kinds DEF Admitted, Columns, Pair
<1>6. /\ Forward /\ Steady /\ refs'[q] = {x} /\ row'[q] = v /\ q \in LiveIn(row')
      /\ \A j \in Ids \ {q} : refs'[j] = refs[j]
  BY <1>0, <1>1, <1>3, <1>5, InsertForward
<1>7. Sound(r, row', refs')
  BY <1>0, <1>6, SoundSteady
<1>8. /\ n \in Handlings /\ n.op = r.op /\ n.org = r.org /\ n.refs = r.refs /\ n.id = q
  BY <1>0, Kinds DEF Sound, Handlings
<1>. HIDE DEF n
<1>9. Sends(n, row', refs')
  <2>1. CASE r.op = "import"
    BY <1>3, <1>6, <1>7, <1>8, <2>1 DEF Sound, Sends
  <2>2. CASE r.op = "test"
    <3>1. PICK y \in Sources, c \in Connections :
            r.refs = {c, y} /\ (c \in LiveIn(row') => SourceIn(refs'[c]) = y)
      BY <1>7, <2>2 DEF Sound, Sends
    <3>2. y = x
      BY <1>3, <3>1
    <3>. QED
      BY <1>6, <1>8, <2>2, <3>1, <3>2 DEF Sends
  <2>. QED
    BY <1>2, <2>1, <2>2
<1>10. Sound(n, row', refs')
  <2>1. q \in Known(row')
    BY <1>6, Kinds DEF Known, LiveIn
  <2>2. Inserts(n, row', refs') /\ Merges(n, row')
    BY <1>2, <1>8 DEF Inserts, Merges
  <2>. QED
    BY <1>7, <1>8, <1>9, <2>1, <2>2 DEF Sound
<1>11. RequestsSound'
  BY <1>0, <1>2, <1>6, <1>10, OthersSound
<1>. QED
  BY <1>0, <1>1, <1>5, <1>11, InsertGood, StepsSame, TablesApart DEF CreateRequest, TypeRows, Counted

LEMMA SweepGood ==
  ASSUME IInv, RowsInv', UNCHANGED <<row, refs, req>>, Counted' PROVE StepGood
<1>1. RequestsSound'
  BY StillForward, AllSound DEF IInv
<1>. QED
  BY <1>1, UrlsKept DEF StepGood, IInv

LEMMA PutBodyGood == ASSUME IInv, NEW s \in Slots, PutBody(s) PROVE StepGood
<1>. DEFINE q == req[s].id
<1>0. RowsInv /\ TypeRows /\ PinKept /\ PinSafe /\ Counted
  BY DEF IInv, RowsInv
<1>1. q \in Requests
  BY DEF PutBody, IInv, RequestsSound, Sound, Sends
<1>2. body[q] = "none" /\ body' = [body EXCEPT ![q] = "fresh"]
  BY DEF PutBody
<1>3. UNCHANGED <<row, refs, steps, events, req, started, sweep, sweeps, history>>
  BY DEF PutBody
<1>. HIDE DEF q
<1>4. body' \in [Requests -> Stages] /\ (sweep' = None \/ sweep' \subseteq Requests)
  BY <1>0, <1>2, <1>3 DEF TypeRows, Stages
<1>5. \A m \in (Bookmarks \cap Live) \ late : \A r \in refs[m] :
         Stored(r)' /\ (sweep' = None \/ r \notin sweep')
  <2>1. \A r : body[r] \in {"fresh", "old"} => body'[r] \in {"fresh", "old"}
    BY <1>0, <1>1, <1>2 DEF TypeRows
  <2>. QED
    BY <1>0, <1>3, <2>1 DEF PinKept, PinSafe, Stored
<1>6. RowsInv'
  BY <1>0, <1>3, <1>4, <1>5, BodyRows
<1>. QED
  BY <1>0, <1>3, <1>6, SweepGood DEF Counted

LEMMA PassesCutoffGood == ASSUME IInv, NEW q \in Requests, PassesCutoff(q) PROVE StepGood
<1>0. RowsInv /\ TypeRows /\ PinKept /\ PinSafe /\ Counted
  BY DEF IInv, RowsInv
<1>1. /\ UNCHANGED <<row, refs, steps, events, req, started, sweep, sweeps, history>>
      /\ body' = [body EXCEPT ![q] = "old"]
  BY DEF PassesCutoff
<1>2. body' \in [Requests -> Stages] /\ (sweep' = None \/ sweep' \subseteq Requests)
  BY <1>0, <1>1 DEF TypeRows, Stages
<1>3. \A m \in (Bookmarks \cap Live) \ late : \A r \in refs[m] :
         Stored(r)' /\ (sweep' = None \/ r \notin sweep')
  <2>1. \A r : body[r] \in {"fresh", "old"} => body'[r] \in {"fresh", "old"}
    BY <1>0, <1>1 DEF TypeRows
  <2>. QED
    BY <1>0, <1>1, <2>1 DEF PinKept, PinSafe, Stored
<1>4. RowsInv'
  BY <1>0, <1>1, <1>2, <1>3, BodyRows
<1>. QED
  BY <1>0, <1>1, <1>4, SweepGood DEF Counted

LEMMA ExpireGood == ASSUME IInv, ExpireOldRequestBodies PROVE StepGood
<1>0. RowsInv /\ TypeRows /\ PinKept /\ PinSafe /\ Counted
  BY DEF IInv, RowsInv
<1>1. /\ UNCHANGED <<row, refs, steps, events, body, req, started, history>> /\ sweeps < MaxSweeps
      /\ sweep' = {r \in Requests \cap Live : body[r] = "old" /\ ~Pinned(r)} /\ sweeps' = sweeps + 1
  BY DEF ExpireOldRequestBodies, tables
<1>2. \A m \in (Bookmarks \cap Live) \ late : \A r \in refs[m] :
         Stored(r)' /\ (sweep' = None \/ r \notin sweep')
  BY <1>0, <1>1 DEF PinKept, Stored, Pinned, Live
<1>3. body' \in [Requests -> Stages] /\ sweep' \subseteq Requests
  BY <1>0, <1>1 DEF TypeRows
<1>4. RowsInv'
  BY <1>0, <1>1, <1>2, <1>3, BodyRows
<1>. QED
  BY <1>0, <1>1, <1>4, SweepGood, Bounds DEF Counted

LEMMA SweepCommitsGood == ASSUME IInv, SweepCommits PROVE StepGood
<1>0. RowsInv /\ TypeRows /\ PinKept /\ PinSafe /\ Counted /\ RefsSound
  BY DEF IInv, RowsInv
<1>1. /\ UNCHANGED <<row, refs, steps, events, req, started, sweeps, history>> /\ sweep # None
      /\ body' = [r \in Requests |-> IF r \in sweep /\ body[r] = "old" THEN "expired" ELSE body[r]]
      /\ sweep' = None
  BY DEF SweepCommits
<1>2. ASSUME NEW m \in (Bookmarks \cap Live) \ late, NEW r \in refs[m]
      PROVE  Stored(r)' /\ (sweep' = None \/ r \notin sweep')
  <2>1. r \in Requests
    BY <1>0, Kinds DEF RefsSound, Fit
  <2>. QED
    BY <1>0, <1>1, <2>1 DEF PinKept, PinSafe, Stored
<1>3. body' \in [Requests -> Stages]
  BY <1>0, <1>1 DEF TypeRows, Stages
<1>4. RowsInv'
  BY <1>0, <1>1, <1>2, <1>3, BodyRows
<1>. QED
  BY <1>0, <1>1, <1>4, SweepGood DEF Counted

LEMMA ReinjectGood == ASSUME IInv, NEW s \in Slots, Reinject(s) PROVE StepGood
<1>. DEFINE r == req[s]
            C == ListEnabledConnectionsBySource(SourceOf(r.id))
            n == [r EXCEPT !.op = "reinject", !.refs = C]
            p == IF C = {} THEN Idle ELSE n
<1>0. RowsInv /\ RefsSound /\ RequestsSound /\ Counted /\ Sound(r, row, refs)
  BY DEF IInv, RowsInv, RequestsSound
<1>1. /\ r.op = "replay" /\ Exists(r.id) /\ req' = [req EXCEPT ![s] = p]
      /\ UNCHANGED <<tables, started, sweep, sweeps, history>>
  BY <1>0 DEF Reinject, GetRequestForReplay, RequestsSound
<1>2. UNCHANGED <<row, refs>>
  BY <1>1 DEF tables
<1>3. C \subseteq Connections \cap Live /\ \A c \in C : SourceIn(refs[r.id]) \in refs[c]
  BY Kinds DEF ListEnabledConnectionsBySource, Live, SourceOf
<1>. HIDE DEF r, C
<1>4. r.id \in Requests /\ r.id \in Live
  BY <1>0, <1>1, Kinds DEF Sound, Sends, Live
<1>5. \A c \in C : SourceIn(refs[c]) = SourceIn(refs[r.id])
  <2>1. SourceIn(refs[r.id]) \in Sources
    BY <1>0, <1>4, SourceFit, Kinds DEF RefsSound
  <2>2. ASSUME NEW c \in C PROVE SourceIn(refs[c]) = SourceIn(refs[r.id])
    <3>1. PICK x \in Sources, d \in Destinations : refs[c] = {x, d}
      BY <1>0, <1>3, Kinds DEF RefsSound, Fit
    <3>2. SourceIn(refs[r.id]) = x
      BY <1>3, <2>1, <3>1, TablesApart
    <3>. QED
      BY <3>1, <3>2, SourcePair
  <2>. QED
    BY <2>2
<1>6. Sound(n, row, refs)
  <2>1. n \in Handlings /\ n.op = "reinject" /\ n.refs = C /\ n.id = r.id
    BY <1>0, <1>3, Kinds DEF Sound, Handlings, Ops
  <2>. HIDE DEF n
  <2>2. C \subseteq Known(row) /\ r.id \in Known(row)
    BY <1>3, <1>4 DEF Live, Exists, Known
  <2>3. Sends(n, row, refs)
    BY <1>3, <1>4, <1>5, <2>1 DEF Sends
  <2>. QED
    BY <2>1, <2>2, <2>3 DEF Sound, Inserts, Merges
<1>7. Sound(p, row', refs')
  BY <1>2, <1>6, Idling
<1>. HIDE DEF p
<1>8. RequestsSound'
  BY <1>0, <1>1, <1>2, <1>7, StillForward, OthersSound
<1>9. RowsInv' /\ Counted'
  BY <1>0, <1>1, SameRows DEF Counted
<1>. QED
  BY <1>2, <1>8, <1>9, UrlsKept DEF StepGood, IInv

LEMMA CreateEventsBatchGood == ASSUME IInv, NEW s \in Slots, CreateEventsBatch(s) PROVE StepGood
<1>. DEFINE r == req[s]
            C == r.refs \cap Connections
<1>0. RowsInv /\ RequestsSound /\ Counted /\ Sound(r, row, refs) /\ RefsSound
  BY DEF IInv, RowsInv, RequestsSound
<1>1. /\ r.op = "reinject" \/ (r.op = "test" /\ r.id # None)
      /\ Exists(r.id) /\ \A c \in C : Exists(c)
      /\ events' = events \cup {[req |-> r.id, conn |-> c] : c \in C}
      /\ End(s) /\ UNCHANGED <<row, refs, body, steps, started, sweep, sweeps, history>>
  BY DEF CreateEventsBatch, ForeignKeys
<1>. HIDE DEF r
<1>2. r.id \in Requests \cap Live /\ C \in SUBSET (Connections \cap Live)
  <2>1. r.id \in Requests
    BY <1>0, <1>1 DEF Sound, Sends
  <2>. QED
    BY <1>1, <2>1, Kinds DEF Live
<1>3. \A c \in C : SourceIn(refs[c]) = SourceIn(refs[r.id])
  <2>1. CASE r.op = "reinject"
    BY <1>0, <1>2, <2>1, LiveNow DEF Sound, Sends
  <2>2. CASE r.op = "test" /\ r.id # None
    <3>1. PICK x \in Sources, c \in Connections :
            /\ r.refs = {c, x} /\ (c \in Live => SourceIn(refs[c]) = x)
            /\ r.id \in Live => refs[r.id] = {x}
      BY <1>0, <2>2, LiveNow DEF Sound, Sends
    <3>2. C = {c} /\ SourceIn(refs[r.id]) = x
      BY <1>2, <3>1, SourceOne, TablesApart
    <3>. QED
      BY <1>2, <3>1, <3>2
  <2>. QED
    BY <1>1, <2>1, <2>2
<1>4. RowsInv'
  BY <1>0, <1>1, <1>2, <1>3, EventRows
<1>5. RequestsSound' /\ Counted'
  BY <1>0, <1>1, StillForward, EndSound DEF Counted
<1>. QED
  BY <1>1, <1>4, <1>5, UrlsKept DEF StepGood, IInv

-----------------------------------------------------------------------------
(* The write of a PATCH: other PATCHes of the row are overtaken. *)

Overtaken(r, x) == [r EXCEPT !.over = @ \/ r.id = x]

LEMMA OvertakenSound ==
  ASSUME Forward, NEW x \in Ids, \A j \in Ids \ {x} : row'[j] = row[j], NEW r, Sound(r, row, refs)
  PROVE  Sound(Overtaken(r, x), row', refs')
<1>. DEFINE n == Overtaken(r, x)
<1>0. r \in Handlings /\ r.id \in Ids \cup {None}
  BY DEF Sound, Handlings
<1>1. /\ n.op = r.op /\ n.org = r.org /\ n.adm = r.adm /\ n.id = r.id /\ n.refs = r.refs
      /\ n.set = r.set /\ n.read = r.read /\ n.list = r.list
  BY <1>0 DEF Overtaken, Handlings
<1>2. n.over <=> r.over \/ r.id = x
  BY <1>0 DEF Overtaken, Handlings
<1>3. n \in Handlings
  <2>1. (r.over \/ r.id = x) \in BOOLEAN
    OBVIOUS
  <2>. QED
    BY <1>0, <2>1 DEF Overtaken, Handlings
<1>. HIDE DEF n
<1>4. Merges(n, row)
  <2>1. Merges(r, row)
    BY DEF Sound
  <2>. QED
    BY <1>1, <1>2, <2>1 DEF Merges
<1>5. Inserts(n, row, refs) /\ Sends(n, row, refs)
  <2>1. Inserts(r, row, refs) /\ Sends(r, row, refs)
    BY DEF Sound
  <2>. QED
    BY <1>1, <2>1 DEF Inserts, Sends
<1>6. Sound(n, row, refs)
  BY <1>1, <1>3, <1>4, <1>5 DEF Sound
<1>7. n.op = "patch" /\ n.id \in LiveIn(row') /\ ~n.over => row'[n.id] = row[n.id]
  BY <1>1, <1>2 DEF LiveIn
<1>8. Sound(n, row', refs')
  BY <1>6, <1>7, SoundFrame
<1>. QED
  BY <1>8 DEF n

LEMMA WriteBackGood ==
  ASSUME IInv, NEW s \in Slots, NEW x, NEW v, req[s].op = "patch", req[s].id = x, Exists(x),
         \/ v = Over(row[x], req[s].set)
         \/ x \in Rules \cup Bookmarks \cup Scenarios /\ v = Over(req[s].read, req[s].set),
         row' = [row EXCEPT ![x] = v], want' = [want EXCEPT ![x] = Over(want[x], req[s].set)],
         overlapped' = IF req[s].over THEN overlapped \cup {x} ELSE overlapped,
         req' = [t \in Slots |-> IF t = s THEN Idle ELSE Overtaken(req[t], x)],
         UNCHANGED <<refs, body, events, started, sweep, sweeps, late>>, StepsWritten
  PROVE  StepGood
<1>. DEFINE r == req[s]
            w == Over(want[x], r.set)
<1>0. /\ RowsInv /\ TypeRows /\ EditsKept /\ RequestsSound /\ Counted
      /\ Sound(r, row, refs) /\ Merges(r, row) /\ r \in Handlings
  BY DEF IInv, RowsInv, RequestsSound, Sound
<1>1. x \in Patched /\ x \in Ids
  BY <1>0, Kinds DEF Merges, Patched
<1>2. x \in LiveIn(row) /\ x \in Live /\ row[x] \in Columns(x)
  BY <1>1, Looked
<1>3. /\ r.read \in Columns(x) /\ r.set \in (IF x \in Destinations THEN Bodies ELSE Patches)
      /\ ~r.over => r.read = row[x]
      /\ x \in Destinations => MayRepoint(r.adm, r.read, r.set) /\ Deliverable(Over(r.read, r.set))
  BY <1>0, <1>2 DEF Merges
<1>4. v \in Columns(x)
  BY <1>1, <1>2, <1>3, OverType
<1>5. x \in Destinations => v = Over(row[x], r.set)
  BY TablesApart
<1>. HIDE DEF r
<1>6. x \in Destinations => x \in overlapped' \/ Deliverable(v)
  BY <1>3, <1>5 DEF r
<1>7. x \notin overlapped' \cap (Rules \cup Bookmarks \cup Scenarios) => v = w
  <2>1. CASE x \in Rules \cup Bookmarks \cup Scenarios
    BY <1>0, <1>2, <1>3, <2>1 DEF EditsKept, r
  <2>2. CASE x \notin Rules \cup Bookmarks \cup Scenarios
    BY <1>0, <1>2, <2>2 DEF EditsKept, r
  <2>. QED
    BY <2>1, <2>2
<1>8. RowsInv'
  <2>1. overlapped \subseteq overlapped' /\ overlapped' \subseteq Ids
    BY <1>0, <1>1 DEF TypeRows
  <2>. QED
    BY <1>0, <1>2, <1>4, <1>6, <1>7, <2>1, UpdateRows DEF r
<1>9. Forward /\ row'[x] = v /\ \A j \in Ids \ {x} : row'[j] = row[j]
  BY <1>0, <1>2, <1>4, UpdateForward
<1>10. RequestsSound'
  <2>1. ASSUME NEW t \in Slots PROVE Sound(req'[t], row', refs')
    <3>1. CASE t = s
      BY <3>1, Idling
    <3>2. CASE t # s
      <4>1. Sound(Overtaken(req[t], x), row', refs')
        BY <1>0, <1>1, <1>9, OvertakenSound DEF RequestsSound
      <4>. QED
        BY <3>2, <4>1
    <3>. QED
      BY <3>1, <3>2
  <2>. QED
    BY <2>1 DEF RequestsSound
<1>11. Repointed
  <2>1. ASSUME x \in Destinations, v.b # row[x].b
        PROVE  r.adm \/ (r.over /\ v.b = r.read.b)
    <3>1. v.b = IF r.set.b = None THEN row[x].b ELSE r.set.b
      BY <1>5, <2>1 DEF Over
    <3>2. r.set.b # None /\ v.b = r.set.b
      BY <2>1, <3>1
    <3>3. CASE r.set.b # r.read.b
      BY <1>3, <2>1, <3>2, <3>3 DEF MayRepoint
    <3>4. CASE r.set.b = r.read.b
      BY <1>3, <2>1, <3>2, <3>4
    <3>. QED
      BY <3>3, <3>4
  <2>2. req'[s] = Idle
    OBVIOUS
  <2>. QED
    BY <1>9, <2>1, <2>2, Kinds DEF Repointed, r
<1>. QED
  BY <1>0, <1>8, <1>10, <1>11 DEF StepGood, IInv, Counted

LEMMA PatchWritten ==
  ASSUME IInv, NEW s \in Slots, NEW K, NEW v, Written(s, K, v),
         \/ v = Over(row[req[s].id], req[s].set)
         \/ K \subseteq Rules \cup Bookmarks \cup Scenarios /\ v = Over(req[s].read, req[s].set)
  PROVE  StepGood
<1>. DEFINE x == req[s].id
<1>1. /\ req[s].op = "patch" /\ x \in K /\ Exists(x)
      /\ row' = [row EXCEPT ![x] = v] /\ want' = [want EXCEPT ![x] = Over(want[x], req[s].set)]
      /\ overlapped' = IF req[s].over THEN overlapped \cup {x} ELSE overlapped
      /\ req' = [t \in Slots |-> IF t = s THEN Idle ELSE Overtaken(req[t], x)]
      /\ UNCHANGED <<refs, body, steps, events, started, sweep, sweeps, late>>
  BY DEF Written, Overtaken
<1>. QED
  BY <1>1, WriteBackGood, StepsSame

LEMMA UpdateScenarioGood == ASSUME IInv, NEW s \in Slots, UpdateScenario(s) PROVE StepGood
<1>. DEFINE x == req[s].id
            l == req[s].list
<1>0. RowsInv /\ TypeRows /\ Sound(req[s], row, refs) /\ Merges(req[s], row)
  BY DEF IInv, RowsInv, RequestsSound, Sound
<1>1. /\ req[s].op = "patch" /\ x \in Scenarios /\ Exists(x)
      /\ row' = [row EXCEPT ![x] = Over(req[s].read, req[s].set)]
      /\ want' = [want EXCEPT ![x] = Over(want[x], req[s].set)]
      /\ overlapped' = IF req[s].over THEN overlapped \cup {x} ELSE overlapped
      /\ req' = [t \in Slots |-> IF t = s THEN Idle ELSE Overtaken(req[t], x)]
      /\ UNCHANGED <<refs, body, events, started, sweep, sweeps, late>>
  BY DEF UpdateScenario, Overtaken
<1>2. /\ steps' = IF l = None THEN steps ELSE [steps EXCEPT ![x] = l]
      /\ l # None => \A k \in DOMAIN l : Exists(l[k])
  BY DEF UpdateScenario, WriteSteps, ForeignKeys
<1>. HIDE DEF x, l
<1>3. StepsWritten
  <2>1. CASE l = None
    BY <1>2, <2>1, StepsSame
  <2>2. CASE l # None
    <3>1. l \in StepLists /\ \A k \in DOMAIN l : Owner[l[k]] = Owner[x]
      BY <1>0, <1>1, <2>2 DEF Merges, x, l
    <3>2. PICK n \in 0..MaxSteps : l \in [1..n -> Bookmarks]
      BY <3>1 DEF StepLists
    <3>3. l \in StepRows
      <4>1. 1..n \in SUBSET (1..MaxSteps)
        BY <3>2, Bounds
      <4>. QED
        BY <3>2, <4>1 DEF StepRows
    <3>4. \A k \in DOMAIN l : l[k] \in Live
      BY <1>2, <2>2, <3>2, Kinds DEF Live
    <3>5. x \in LiveIn(row')
      <4>1. x \in LiveIn(row)
        BY <1>1, Kinds DEF LiveIn, Exists
      <4>2. x \notin Destinations /\ req[s].read \in Columns(x) /\ req[s].set \in Patches
        BY <1>0, <1>1, TablesApart DEF Merges, x
      <4>3. Over(req[s].read, req[s].set) \in Columns(x)
        BY <1>1, <4>2, OverType, Kinds
      <4>. QED
        BY <1>0, <1>1, <4>1, <4>3, UpdateForward
    <3>6. steps' = [steps EXCEPT ![x] = l]
      BY <1>2, <2>2
    <3>. QED
      BY <1>0, <1>1, <3>1, <3>3, <3>4, <3>5, <3>6 DEF StepsWritten, TypeRows
  <2>. QED
    BY <2>1, <2>2
<1>. QED
  BY <1>1, <1>3, WriteBackGood DEF x

LEMMA InsertScenarioGood == ASSUME IInv, NEW s \in Slots, InsertScenario(s) PROVE StepGood
<1>. DEFINE v == [a |-> 1, b |-> 0]
            l == req[s].list
<1>0. RowsInv /\ TypeRows /\ RequestsSound /\ Counted /\ Sound(req[s], row, refs) /\ Inserts(req[s], row, refs)
  BY DEF IInv, RowsInv, RequestsSound, Sound
<1>1. PICK n \in Free(Scenarios, req[s].org) : Insert(n, {}, v) /\ steps' = [steps EXCEPT ![n] = l]
  BY DEF InsertScenario
<1>2. n \in Scenarios /\ row[n] = None /\ Owner[n] = req[s].org
  BY <1>1 DEF Free
<1>3. /\ l \in StepLists /\ \A k \in DOMAIN l : Owner[l[k]] = Owner[n]
      /\ \A k \in DOMAIN l : Exists(l[k])
  BY <1>0, <1>2 DEF InsertScenario, WriteSteps, ForeignKeys, Inserts
<1>. HIDE DEF l
<1>4. Admitted(n, {}, v)
  <2>1. n \notin Sources \cup Destinations \cup Bookmarks \cup Requests \cup Connections \cup Rules
    BY <1>2, TablesApart
  <2>. QED
    BY <1>2, <2>1, Kinds DEF Admitted, Fit, Columns, Pair
<1>5. Forward /\ Steady /\ n \in LiveIn(row')
  BY <1>0, <1>1, <1>4, InsertForward
<1>6. StepsWritten
  <2>1. PICK k \in 0..MaxSteps : l \in [1..k -> Bookmarks]
    BY <1>3 DEF StepLists
  <2>2. l \in StepRows
    <3>1. 1..k \in SUBSET (1..MaxSteps)
      BY <2>1, Bounds
    <3>. QED
      BY <2>1, <3>1 DEF StepRows
  <2>3. \A j \in DOMAIN l : l[j] \in Live
    BY <1>3, <2>1, Kinds DEF Live
  <2>. QED
    BY <1>0, <1>1, <1>2, <1>3, <1>5, <2>2, <2>3 DEF StepsWritten, TypeRows
<1>7. RequestsSound'
  BY <1>0, <1>5, EndSound DEF InsertScenario
<1>. QED
  BY <1>0, <1>1, <1>2, <1>4, <1>6, <1>7, InsertGood, TablesApart DEF InsertScenario, TypeRows, Counted

-----------------------------------------------------------------------------
(* The theorems. *)

LEMMA StepsGood == ASSUME IInv, NEW s \in Slots, Step(s) PROVE StepGood
<1>1. ASSUME PatchDestinationForOrg(s) \/ PatchConnectionForOrg(s) PROVE StepGood
  BY <1>1, PatchWritten DEF PatchDestinationForOrg, PatchConnectionForOrg
<1>2. ASSUME UpdateCaptureRule(s) \/ UpdateBookmarkForOrg(s) PROVE StepGood
  BY <1>2, PatchWritten DEF UpdateCaptureRule, UpdateBookmarkForOrg
<1>3. ASSUME InsertConnection(s) \/ InsertCaptureRule(s) \/ InsertScenario(s) \/ UpdateScenario(s) PROVE StepGood
  BY <1>3, InsertConnectionGood, InsertCaptureRuleGood, InsertScenarioGood, UpdateScenarioGood
<1>4. ASSUME StoreBookmark(s) \/ StoreImported(s) \/ CreateRequest(s) \/ PutBody(s) PROVE StepGood
  BY <1>4, StoreBookmarkGood, StoreImportedGood, CreateRequestGood, PutBodyGood
<1>5. ASSUME Reinject(s) \/ CreateEventsBatch(s) \/ Fail(s) PROVE StepGood
  BY <1>5, ReinjectGood, CreateEventsBatchGood, FailGood
<1>. QED
  BY <1>1, <1>2, <1>3, <1>4, <1>5 DEF Step

LEMMA RequestsGood ==
  ASSUME IInv, NEW s \in Slots, NEW org \in Callers, PipelineRequest(s, org) \/ FixtureRequest(s, org)
  PROVE  StepGood
<1>1. CASE PipelineRequest(s, org)
  BY <1>1, PatchDestinationGood, CreateConnectionGood, PatchesGood, TestConnectionGood, OnSourceGood
     DEF PipelineRequest
<1>2. CASE FixtureRequest(s, org)
  BY <1>2, CreateBookmarkGood, PatchesGood, ReplayBookmarkGood, CreateScenarioGood, PatchScenarioGood
     DEF FixtureRequest
<1>. QED
  BY <1>1, <1>2

LEMMA NextGood == IInv /\ [Next]_vars => IInv' /\ (Next => Repointed)
<1>1. ASSUME IInv, Next PROVE StepGood
  BY <1>1, RequestsGood, StatementGood, StepsGood, PassesCutoffGood, ExpireGood, SweepCommitsGood DEF Next
<1>2. ASSUME IInv, UNCHANGED vars PROVE IInv'
  <2>1. UNCHANGED <<row, refs, body, steps, events, req, started, sweep, sweeps, want, overlapped, late>>
    BY <1>2 DEF vars, tables, history
  <2>2. RowsInv'
    BY <1>2, <2>1, SameRows DEF IInv, tables, history
  <2>3. RequestsSound' /\ Counted'
    BY <1>2, <2>1, StillForward, AllSound DEF IInv, Counted
  <2>. QED
    BY <2>2, <2>3 DEF IInv
<1>. QED
  BY <1>1, <1>2 DEF StepGood

LEMMA InitGood == Init => IInv
<1>. SUFFICES ASSUME Init PROVE IInv
  OBVIOUS
<1>1. /\ row = Seed.row /\ refs = Seed.refs /\ body = Seed.body /\ steps = Seed.steps /\ events = {}
      /\ req = [s \in Slots |-> Idle] /\ started = 0 /\ sweep = None /\ sweeps = 0
      /\ want = row /\ overlapped = {} /\ late = {}
  BY DEF Init
<1>2. Live = {i \in Ids : Seed.row[i] \notin {None, Gone}} /\ Live \subseteq Ids
  BY <1>1 DEF Live, Exists
<1>3. /\ DOMAIN row = Ids /\ DOMAIN refs = Ids
      /\ body \in [Requests -> Stages] /\ steps \in [Scenarios -> StepRows]
      /\ \A i \in Live : row[i] \in Columns(i) /\ Fit(i, refs[i]) /\ refs[i] \subseteq Live
      /\ \A i \in Ids \ Live : refs[i] = {}
      /\ \A d \in Destinations \cap Live : Deliverable(row[d])
      /\ \A m \in Bookmarks \cap Live : \A r \in refs[m] :
            body[r] \in {"fresh", "old"} /\ Owner[SourceIn(refs[r])] = Owner[m]
      /\ \A n \in Scenarios : \A k \in DOMAIN steps[n] :
            n \in Live /\ steps[n][k] \in Live /\ Owner[steps[n][k]] = Owner[n]
  BY <1>1, <1>2, SeedSound
<1>4. TypeRows
  BY <1>1, <1>3 DEF TypeRows
<1>5. RefsSound /\ NoDangling
  BY <1>1, <1>2, <1>3 DEF RefsSound, NoDangling
<1>6. OneTenant
  <2>1. \A c \in Connections \cap Live : \A i, j \in refs[c] : Owner[i] = Owner[j]
    BY <1>2, <1>3 DEF Fit
  <2>. QED
    BY <1>1, <1>3, <2>1 DEF OneTenant, SourceOf
<1>7. Callable /\ PinKept /\ PinSafe /\ EditsKept
  BY <1>1, <1>3 DEF Callable, Deliverable, PinKept, PinSafe, EditsKept, Stored
<1>8. RequestsSound
  BY <1>1, Idling DEF RequestsSound
<1>9. Counted
  BY <1>1, Bounds DEF Counted
<1>. QED
  BY <1>4, <1>5, <1>6, <1>7, <1>8, <1>9 DEF IInv, RowsInv

LEMMA Inductive == Spec => []IInv
<1>1. IInv /\ [Next]_vars => IInv'
  BY NextGood
<1>. QED
  BY InitGood, <1>1, PTL DEF Spec

\* What the handlers looked up before they wrote still holds of the rows they wrote,
\* however many requests run at a time: nothing dangles, nothing joins two
\* organizations, an http destination has a URL to call unless two overlapping
\* PATCHes broke it, and a bookmark made in time keeps its payload (the foreign
\* keys, the ForOrg queries, PatchDestination, ExpireOldRequestBodies).
THEOREM CatalogSound == Spec => []RowsSound
<1>1. IInv => RowsSound
  <2>. SUFFICES ASSUME IInv PROVE RowsSound
    OBVIOUS
  <2>1. TypeRows /\ NoDangling /\ OneTenant /\ Callable /\ PinKept /\ RequestsSound /\ Counted
    BY DEF IInv, RowsInv
  <2>2. \A s \in Slots : req[s].op \in Ops
    BY <2>1 DEF RequestsSound, Sound, Handlings
  <2>3. TypeOK
    BY <2>1, <2>2 DEF TypeOK, TypeRows, Counted, RequestsSound, Ops
  <2>. QED
    BY <2>1, <2>3 DEF RowsSound
<1>. QED
  BY <1>1, Inductive, PTL

\* Outside two overlapping PATCHes of one capture rule, bookmark or scenario, no
\* edit is lost: a column holds what the last request that named it asked for
\* (the COALESCE of PatchDestinationForOrg, UpdateSource, the read and write-back
\* of PatchCaptureRule).
THEOREM EditsAreKept == Spec => []EditsKept
<1>1. IInv => EditsKept
  BY DEF IInv, RowsInv
<1>. QED
  BY <1>1, Inductive, PTL

\* A URL changes by an administrator's request, or by a member's that sends along
\* the URL it had read before an administrator changed it (RequireAdminForURLChange).
THEOREM UrlsStayWithAdmins == Spec => RepointedByAdmin
<1>1. IInv /\ [Next]_vars => [Repointed]_vars
  BY NextGood
<1>. DEFINE A == \A d \in Destinations \cap Live :
              row'[d] # Gone /\ row'[d].b # row[d].b =>
                \E s \in Slots : /\ req[s].op = "patch" /\ req[s].id = d /\ req'[s] = Idle
                                 /\ req[s].adm \/ (req[s].over /\ row'[d].b = req[s].read.b)
<1>2. IInv /\ [Next]_vars => [A]_vars
  BY <1>1 DEF Repointed
<1>. HIDE DEF A
<1>3. Spec => [][A]_vars
  BY <1>2, Inductive, PTL DEF Spec
<1>. QED
  BY <1>3 DEF A, RepointedByAdmin

=============================================================================
