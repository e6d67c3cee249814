---------------------------- MODULE MCMembership ----------------------------
(* Instances of Membership for TLC. *)
EXTENDS Membership

\* One node joins, or the writer with the highest id leaves.
JoinOrLeave == {{4}, {3}}

\* Two nodes join at the same time.
JoinBoth == {{2, 4}}
=============================================================================
