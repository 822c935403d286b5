---------------------------- MODULE DbServerMC ----------------------------
(* Instances of DbServer for TLC. *)
EXTENDS DbServer
=============================================================================
