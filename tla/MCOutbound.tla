----------------------------- MODULE MCOutbound -----------------------------
(* One delivery to a customer's endpoint and one to the operational        *)
(* endpoint, so that exhaustion publishes an event that can itself exhaust. *)
EXTENDS Outbound

CONSTANTS d1, o1

=============================================================================
