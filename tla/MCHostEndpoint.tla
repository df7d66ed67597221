--------------------------- MODULE MCHostEndpoint ---------------------------
(* Two hosts, the daemon and an older owner contend; one client.           *)
EXTENDS HostEndpoint
=============================================================================
