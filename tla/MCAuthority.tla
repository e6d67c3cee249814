---------------------------- MODULE MCAuthority ----------------------------
(* Instances of Authority for TLC. *)
EXTENDS Authority

FirstWriter == <<1>>
=============================================================================
