-------------------------- MODULE MCConsensusRound --------------------------
(* Instances of ConsensusRound for TLC. *)
EXTENDS ConsensusRoundInv

\* Three writers; ids need not be contiguous.
List3 == <<1, 2, 4>>

\* All databases empty: the first round is round 0, with the genesis block.
FreshStart == [n \in Writers |-> <<>>]
=============================================================================
