------------------------- MODULE ConsensusResetInv -------------------------
(***************************************************************************)
(* The inductive invariant behind ChainsOfOneStartAgree and NeverSentTwice *)
(* of ConsensusRound, which hold however often the chains are reset.       *)
(*                                                                         *)
(* A reset empties a chain at the top of a round and leaves the round      *)
(* number alone, so neither the length of a chain nor the number of a      *)
(* round tells how far an engine is: after a reset in round 2 the next     *)
(* round is round 2 again, and engines of the two meet.  What does tell is *)
(* the messages: the winner of a round sends its block to everybody else,  *)
(* so that an engine is one block behind exactly while a block is on its   *)
(* way to it.                                                              *)
(***************************************************************************)
EXTENDS ConsensusRoundInv

\* The block of the round n is in has been made, and n has not stored it.
Late(n) == \E m \in MsgsOf("block") : m.to = n

SomeoneLate == MsgsOf("block") # {}

\* n is in the round whose block was made last or is made next.
Deciding(n) == SomeoneLate => Late(n)

\* Everybody in that round has given its number, in a round of number r.
AllEngaged(r) ==
  \A n \in Writers : Deciding(n) => round[n] = r /\ pc[n] \in Engaged

----------------------------------------------------------------------------
(* Rounds.                                                                  *)

\* Round 0 is never gone through again, and who has stored a block since its
\* last reset counts its rounds by the length of its chain.
CountInv ==
  /\ \A m, n \in Writers :
       (Late(m) <=> Late(n)) /\ round[m] = 0 => round[n] = 0
  /\ \A n \in Writers :
       ~Deciding(n) =>
         round[n] # 0 /\ (chain[n] # <<>> => round[n] = Len(chain[n]) + 1)

----------------------------------------------------------------------------
(* Requests and replies, all of them of engines that are not late.          *)

AskInv ==
  \A m \in MsgsOf("request") :
    /\ m.from = Coordinator(m.round)
    /\ pc[m.from] = "replies"
    /\ round[m.from] = m.round
    /\ ~Late(m.to) /\ round[m.to] = m.round => pc[m.to] \in {"loop", "request"}
    /\ m.to \notin Ids(numbers[m.from])
    /\ \A o \in MsgsOf("reply") : ~(o.from = m.to /\ o.to = m.from)

AnswerInv ==
  \A m \in MsgsOf("reply") :
    /\ pc[m.to] = "replies"
    /\ round[m.to] = m.round
    /\ pc[m.from] = "announce" /\ ~Late(m.from)
    /\ round[m.from] = m.round
    /\ m.from \notin Ids(numbers[m.to])
    /\ \A o \in MsgsOf("reply") : o.from = m.from /\ o.to = m.to => o = m

CollectedInv ==
  \A n \in Writers :
    pc[n] = "replies" =>
      /\ \A i, j \in DOMAIN numbers[n] :
           numbers[n][i][1] = numbers[n][j][1] => i = j
      /\ \A o \in Ids(numbers[n]) :
           o # n /\ round[o] = round[n] /\ pc[o] = "announce" /\ ~Late(o)

\* Who has replied has a coordinator that asked it in the round it is in.
AskedInv ==
  \A n \in Writers :
    pc[n] \in {"announce", "dead"} /\ ~Late(n) =>
      LET c == Coordinator(round[n])
      IN  round[c] = round[n] /\ pc[c] \in {"replies", "block"} /\ ~Late(c)

----------------------------------------------------------------------------
(* Announcements and blocks.                                                *)

\* A round is announced when all are engaged in it, and ends before the next.
DecisionInv ==
  /\ \A n \in Writers : pc[n] = "block" => Deciding(n) /\ AllEngaged(round[n])
  /\ \A m \in MsgsOf("announce") :
       Deciding(m.to) /\ AllEngaged(m.round) /\ pc[m.to] = "announce"
  /\ \A m \in MsgsOf("block") : AllEngaged(m.round)

\* Nobody is sent an announcement or a block twice.
OneEachInv ==
  /\ \A m, o \in MsgsOf("announce") : m.to = o.to => m = o
  /\ \A m, o \in MsgsOf("block") : m.to = o.to => m = o

\* There is one winner, the first to leave the round, and one block.
OneWinnerInv ==
  /\ \A m, o \in MsgsOf("announce") : m.winner = o.winner
  /\ \A m \in MsgsOf("announce"), n \in Writers :
       pc[n] = "block" => winner[n] = m.winner
  /\ \A m \in MsgsOf("announce") : SomeoneLate => ~Late(m.winner)
  /\ \A n \in Writers : pc[n] = "block" /\ SomeoneLate => ~Late(winner[n])
  /\ \A m, o \in MsgsOf("block") : m.block = o.block

----------------------------------------------------------------------------
(* Chains.                                                                  *)

\* The chains of engines of the same round number are copies, but for those
\* that were emptied.  Engines that left a round with different numbers had
\* emptied some of the chains in it and not the others.
SameChain(c, d) == c = d \/ c = <<>> \/ d = <<>>

KinInv ==
  \A m, n \in Writers :
    (Late(m) <=> Late(n)) =>
      IF round[m] = round[n]
      THEN SameChain(chain[m], chain[n])
      ELSE Len(chain[m]) <= 1 \/ Len(chain[n]) <= 1

\* An engine that is past the round a block is of has stored that block, after
\* what the late engine has or at the start of its chain, or was reset since.
StoredInv ==
  \A m \in MsgsOf("block"), n \in Writers :
    ~Late(n) /\ chain[n] # <<>> =>
      /\ chain[n][Len(chain[n])] = m.block
      /\ \/ Len(chain[n]) = 1
         \/ chain[m.to] = <<>>
         \/ chain[n] = Append(chain[m.to], m.block)

----------------------------------------------------------------------------
\* The conjunction is inductive for ConsensusRound, resets included.
ResetCore ==
  /\ RoleInv /\ CountInv
  /\ AskInv /\ AnswerInv /\ CollectedInv /\ AskedInv
  /\ DecisionInv /\ OneEachInv /\ OneWinnerInv
  /\ KinInv /\ StoredInv

\* Engines that are done with the same rounds and count them differently: a
\* reset reached some of them a round later than others.
Apart == \E m, n \in Writers : ~Late(m) /\ ~Late(n) /\ round[m] # round[n]

\* The network does not survive it: who is not waiting for the block of the
\* round before never stores a block again, and that does not change.
StuckWhenApart ==
  [][Apart => /\ Apart'
              /\ \A n \in Writers : ~Late(n) =>
                   chain'[n] = chain[n] \/ chain'[n] = <<>>]_vars
=============================================================================
