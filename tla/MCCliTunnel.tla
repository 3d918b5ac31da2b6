----------------------------- MODULE MCCliTunnel -----------------------------
EXTENDS CliTunnel

MCItems == [ev: Events, manual: BOOLEAN]

=============================================================================
