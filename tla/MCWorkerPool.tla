---------------------------- MODULE MCWorkerPool ----------------------------
(* Two orgs with an event each, so that the ring has to rotate.            *)
EXTENDS WorkerPool

CONSTANTS o1, o2, e1, e2

MCOrgOf == [e \in Events |-> IF e = e2 THEN o2 ELSE o1]

=============================================================================
