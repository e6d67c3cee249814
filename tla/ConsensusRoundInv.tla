------------------------- MODULE ConsensusRoundInv -------------------------
(***************************************************************************)
(* The inductive invariant behind Agreement, Lockstep and ChainVerifies of *)
(* ConsensusRound.  It speaks of the time before the first reset and of    *)
(* engines that start from equal databases.  TLC checks it on the          *)
(* instances of MCConsensusRound; ConsensusRoundProofs proves it.          *)
(***************************************************************************)
EXTENDS ConsensusRound

EqualStart == \A m, n \in Writers : InitialChain[m] = InitialChain[n]

\* The number of blocks the engines find in their databases.
StartLen == Len(InitialChain[WriterList[1]])

\* The round an engine is in when its chain has l blocks: the first round is
\* numbered by the length, the others by the length plus one.
RoundAt(l) == IF l = StartLen THEN l ELSE l + 1

\* The height of the block that round r adds.
HeightOf(r) == IF r = StartLen THEN r + 1 ELSE r

MsgsOf(type) == {m \in msgs : m.type = type}

Ids(nums) == {nums[i][1] : i \in DOMAIN nums}

----------------------------------------------------------------------------
(* Rounds and roles.                                                        *)

\* A round number is determined by the length of the chain, no reset is seen.
RoundInv ==
  /\ \A n \in Writers :
       /\ Len(chain[n]) >= StartLen
       /\ round[n] = RoundAt(Len(chain[n]))
       /\ reset_number[n] = 0
  /\ \A m \in msgs : m.round >= StartLen

\* Only the coordinator of a round collects replies, only the others reply.
RoleInv ==
  \A n \in Writers :
    /\ pc[n] \in {"request", "announce", "dead"} => Coordinator(round[n]) # n
    /\ pc[n] = "replies" => Coordinator(round[n]) = n

\* An engine that has given its number in round r and not finished it.
Engaged == {"announce", "block", "dead"}

\* Who is behind is one block behind and only lacks the end of its round.
BehindInv ==
  \A m, n \in Writers :
    round[m] < round[n] =>
      Len(chain[n]) = Len(chain[m]) + 1 /\ pc[m] \in Engaged

----------------------------------------------------------------------------
(* Requests and replies.                                                    *)

\* The coordinator waits for the answer to a request on its way, and the
\* receiver has not given one.
RequestInv ==
  \A m \in MsgsOf("request") :
    /\ m.from = Coordinator(m.round)
    /\ pc[m.from] = "replies"
    /\ round[m.from] = m.round
    /\ round[m.to] <= m.round
    /\ round[m.to] = m.round => pc[m.to] \in {"loop", "request"}
    /\ m.to \notin Ids(numbers[m.from])
    /\ \A o \in MsgsOf("reply") : ~(o.from = m.to /\ o.to = m.from)

\* A reply on its way is for the round both ends are in, and the only one.
ReplyInv ==
  \A m \in MsgsOf("reply") :
    /\ pc[m.to] = "replies"
    /\ round[m.to] = m.round
    /\ pc[m.from] = "announce"
    /\ round[m.from] = m.round
    /\ m.from \notin Ids(numbers[m.to])
    /\ \A o \in MsgsOf("reply") : o.from = m.from /\ o.to = m.to => o = m

\* The replies collected come from different writers that now wait for the
\* announcement in the coordinator's round.
NumbersInv ==
  \A n \in Writers :
    pc[n] = "replies" =>
      /\ \A i, j \in DOMAIN numbers[n] :
           numbers[n][i][1] = numbers[n][j][1] => i = j
      /\ \A o \in Ids(numbers[n]) :
           o # n /\ round[o] = round[n] /\ pc[o] = "announce"

\* The coordinator of a round in which somebody has replied is in it, or past.
AnsweredInv ==
  \A n \in Writers :
    pc[n] \in {"announce", "dead"} =>
      LET c == Coordinator(round[n])
      IN  \/ round[c] > round[n]
          \/ round[c] = round[n] /\ pc[c] \in {"replies", "block"}

----------------------------------------------------------------------------
(* Winners and blocks.                                                      *)

\* Round r has a winner: everybody has given its number in it.
Committed(r) ==
  \A n \in Writers : round[n] >= r /\ (round[n] = r => pc[n] \in Engaged)

CommittedInv ==
  /\ \A n \in Writers : pc[n] = "block" => Committed(round[n])
  /\ \A m \in MsgsOf("announce") \cup MsgsOf("block") : Committed(m.round)

\* A round has one winner, and it is the first to go on to the next round.
WinnerInv ==
  /\ \A m, o \in MsgsOf("announce") : m.round = o.round => m.winner = o.winner
  /\ \A m \in MsgsOf("announce"), n \in Writers :
       pc[n] = "block" /\ round[n] = m.round => winner[n] = m.winner
  /\ \A m \in MsgsOf("announce"), n \in Writers :
       round[n] > m.round => round[m.winner] > m.round
  /\ \A m, n \in Writers :
       pc[m] = "block" /\ round[n] > round[m] => round[winner[m]] > round[m]
  /\ \A n \in Writers : pc[n] = "block" => winner[n] \in Writers

\* A block on its way is the one its sender and all who are past its round
\* have stored.
BlockInv ==
  \A m \in MsgsOf("block") :
    /\ round[m.from] > m.round
    /\ \A n \in Writers :
         round[n] > m.round => chain[n][HeightOf(m.round)] = m.block
    /\ \A o \in MsgsOf("block") : o.round = m.round => o.block = m.block

SameBlocks ==
  \A m, n \in Writers : \A i \in 1 .. Len(chain[m]) :
    i <= Len(chain[n]) => chain[m][i] = chain[n][i]

WellLinked(c) ==
  \A i \in 1 .. Len(c) :
    /\ i > 1 => c[i].prev_hash = Hash(c[i - 1])
    /\ c[i].writerID # c[i].coordinatorID

LinkInv == \A n \in Writers : WellLinked(chain[n])

----------------------------------------------------------------------------
\* The conjunction is inductive for ConsensusRound: no part is without the
\* others.  It says why the engines stay together although no barrier holds
\* them: a round cannot be announced before everybody is engaged in it.
Core ==
  /\ RoundInv /\ RoleInv /\ BehindInv
  /\ RequestInv /\ ReplyInv /\ NumbersInv /\ AnsweredInv
  /\ CommittedInv /\ WinnerInv /\ BlockInv
  /\ SameBlocks /\ LinkInv

\* The inductive invariant.
IInv == resetNumber = 0 => Core
=============================================================================
