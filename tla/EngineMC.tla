------------------------------ MODULE EngineMC ------------------------------
(* Engine for TLC. *)
EXTENDS Engine
=============================================================================
