---------------------------- MODULE MCPublisher -----------------------------
EXTENDS Publisher, TLC

CONSTANTS u, v

\* A member's switch, and a form that sends the URL along.
MCBodies == {[on |-> FALSE, url |-> None], [on |-> TRUE, url |-> u], [on |-> None, url |-> v]}

Symm == Permutations(Slots)

=============================================================================
