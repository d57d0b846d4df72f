--------------------------- MODULE MCEtcdRestore ---------------------------
(* The restore controller and its agents, for TLC. *)
EXTENDS EtcdRestore
=============================================================================
