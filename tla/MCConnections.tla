--------------------------- MODULE MCConnections ---------------------------
(* Small networks for TLC.                                                  *)
EXTENDS Connections

\* Each of two nodes may hear of the other after it has started.
EitherLate == {<<1, 2>>, <<2, 1>>}
=============================================================================
