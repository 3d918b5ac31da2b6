--------------------------- MODULE MCInflightGate ---------------------------
(* Four deliveries compete for two slots.                                   *)
EXTENDS InflightGate

=============================================================================
