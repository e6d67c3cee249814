---------------------------- MODULE MCClientPath ----------------------------
(* Instances of ClientPath for TLC. *)
EXTENDS ClientPath
=============================================================================
