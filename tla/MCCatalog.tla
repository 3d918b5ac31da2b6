----------------------------- MODULE MCCatalog ------------------------------
(* One organization with a small pipeline, a bookmark and a scenario, next  *)
(* to another one whose rows it must not reach.                             *)
EXTENDS Catalog, TLC

CONSTANTS A, B, s1, s2, s3, d1, d2, d3, c1, c2, c3, r1, r2, r3, k1, k2, b1, b2, b3, n1, n2

MCOwner == s1 :> A @@ s2 :> B @@ s3 :> A @@ d1 :> A @@ d2 :> A @@ d3 :> B
           @@ k1 :> A @@ k2 :> A @@ b1 :> A @@ b2 :> A @@ b3 :> B @@ n1 :> A @@ n2 :> A

MCBodies == {[a |-> "http", b |-> None], [a |-> None, b |-> "empty"],
             [a |-> None, b |-> "u"], [a |-> "cli", b |-> "v"]}

There == [a |-> 1, b |-> 0]

MCSeed ==
    [row |-> [i \in Ids |->
                IF i = d1 THEN [a |-> "http", b |-> "u"]
                ELSE IF i = d3 THEN [a |-> "cli", b |-> None]
                ELSE IF i \in {s1, s2, c1, c3, r1, r2, k1, b1, n1} THEN There ELSE None],
     refs |-> [i \in Ids |->
                 CASE i = c1 -> {s1, d1} [] i = c3 -> {s2, d3}
                   [] i \in {r1, r2, k1} -> {s1} [] i = b1 -> {r1} [] OTHER -> {}],
     body |-> [r \in Requests |-> IF r = r3 THEN "none" ELSE IF r = r2 THEN "old" ELSE "fresh"],
     steps |-> [n \in Scenarios |-> IF n = n1 THEN <<b1>> ELSE <<>>]]

Symm == Permutations(Slots)

=============================================================================
