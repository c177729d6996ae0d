----------------------------- MODULE MCBusGrant -----------------------------
(* Four masters, the number that compete for a slave of sl_cluster.        *)
EXTENDS BusGrant
=============================================================================
