----------------------------- MODULE LeaseQueue -----------------------------
(***************************************************************************)
(* What the delivery queue promises its clients, without orgs, lists,      *)
(* rings and clocks: a bag of waiting items and a set of leases.  An item  *)
(* that was put is waiting or leased until somebody removes a lease of it; *)
(* a lease that lapses is given back.  DQueue implements this module (see  *)
(* WorkerPool!QueueImplements); Outbound is built on it.                   *)
(*                                                                         *)
(* Items that are the same Redis member may be merged when they meet in    *)
(* the scheduled set: a put, or a give-back, then adds no second copy.     *)
(***************************************************************************)
EXTENDS Naturals

CONSTANTS Items, Tokens

VARIABLES
    waiting,   \* [Items -> Nat]: copies in lists and in the scheduled set
    leased,    \* set of leases
    lapsed     \* the leases whose time is over

leaseVars == <<waiting, leased, lapsed>>

Leases == [tok: Tokens, evt: Items]

LeaseTypeOK ==
    /\ waiting \in [Items -> Nat]
    /\ leased \subseteq Leases
    /\ lapsed \subseteq leased

LeaseInit ==
    /\ waiting = [i \in Items |-> 0]
    /\ leased = {}
    /\ lapsed = {}

\* Enqueue, Schedule, a requeue from the dead list.
Put(i) ==
    /\ \/ waiting' = [waiting EXCEPT ![i] = @ + 1]
       \/ waiting[i] > 0 /\ UNCHANGED waiting
    /\ UNCHANGED <<leased, lapsed>>

\* FairPick: whichever item the ring serves, under a token nobody uses.
Take(t, i) ==
    /\ waiting[i] > 0
    /\ \A m \in leased : m.tok # t
    /\ waiting' = [waiting EXCEPT ![i] = @ - 1]
    /\ leased' = leased \cup {[tok |-> t, evt |-> i]}
    /\ UNCHANGED lapsed

\* Ack, and the lease part of DeadLetter: no effect once the lease is gone.
Remove(m) ==
    /\ leased' = leased \ {m}
    /\ lapsed' = lapsed \ {m}
    /\ UNCHANGED waiting

Lapse(m) ==
    /\ m \in leased \ lapsed
    /\ lapsed' = lapsed \cup {m}
    /\ UNCHANGED <<waiting, leased>>

\* Recover: every lapsed lease is given back.
Reclaim ==
    LET back == {m.evt : m \in lapsed}
    IN  /\ lapsed # {}
        /\ leased' = leased \ lapsed
        /\ lapsed' = {}
        /\ \E merged \in SUBSET {i \in back : waiting[i] > 0} :
              waiting' = [i \in Items |->
                             IF i \in back \ merged THEN waiting[i] + 1 ELSE waiting[i]]

LeaseNext ==
    \/ \E i \in Items : Put(i) \/ \E t \in Tokens : Take(t, i)
    \/ \E m \in leased : Remove(m) \/ Lapse(m)
    \/ Reclaim

LeaseSpec == LeaseInit /\ [][LeaseNext]_leaseVars

=============================================================================
