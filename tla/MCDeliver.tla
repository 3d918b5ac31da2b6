------------------------------ MODULE MCDeliver ------------------------------
(* One event is enough: rows, copies and leases of two events never meet.   *)
EXTENDS Deliver, TLC

CONSTANTS o1, e1

MCOrgOf == [e \in Events |-> o1]

Symm == Permutations(Tokens) \cup Permutations(Workers)

=============================================================================
