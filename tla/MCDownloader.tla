---------------------------- MODULE MCDownloader ----------------------------
(* Instances of Downloader for TLC. *)
EXTENDS Downloader

Link(id, prev) == [id |-> id, prev |-> prev]

\* What the writers build: four blocks.
MainChain == <<Link("a", "0"), Link("b", "a"), Link("c", "b"), Link("d", "c")>>

ThreePeers == <<1, 2, 3>>

\* What a node that was in a network of its own may have stored.
Other == <<Link("x", "0"), Link("y", "x")>>

\* APIs started together with the network, and one of them restarted lately.
ApiSinceGenesis == [p \in {1, 2, 3} |-> 0]
ApiMixed == [p \in {1, 2, 3} |-> IF p = 2 THEN 3 ELSE 0]

\* A new node, one that was away for long or a short time, and one of another
\* network.  The genesis block is a JSON document, others may be.
AllStarts ==
  {Scenario(start, {"a"} \cup others, api) :
     start \in {<<>>, SubSeq(MainChain, 1, 1), SubSeq(MainChain, 1, 2), Other},
     others \in {{}, {"c"}, {"d"}}, api \in {ApiSinceGenesis, ApiMixed}}
=============================================================================
