----------------------------- MODULE Downloader -----------------------------
(***************************************************************************)
(* How a node that is not in the first configuration gets its chain and    *)
(* becomes active: Downloader.download_db in src/downloader.py, which the  *)
(* download thread calls in a loop until the node is active, and the       *)
(* engine again while it waits to be connected.                            *)
(*                                                                         *)
(* The peers are client APIs, processes of their own that read the         *)
(* database of a writer while the network goes on.  Requests to a peer and *)
(* the registration at the membership authority may fail.                  *)
(*                                                                         *)
(* An operator whose name ends in _word is a seeded fault of the operator  *)
(* that follows it; no definition uses it.                                 *)
(***************************************************************************)
EXTENDS Naturals, SequencesExt, FiniteSetsExt

CONSTANTS
  Network,        \* the chain the writers build, a sequence of blocks
  PeerList,       \* the active nodes, in the order the MA lists them
  Scenarios,      \* where the node starts: see Scenario
  InitialHeight,  \* how many blocks every peer has when the node starts
  MaxFailures,    \* bound on the requests to peers that fail
  MaxPostFailures \* bound on the registrations that go wrong

Peers == Range(PeerList)

NoAnswer == [status |-> 0, blocks |-> <<>>]

\* start: the chain the node finds in its own database.  json: the ids of the
\* network's blocks whose payload is a JSON document.  apiLength: how many
\* blocks a peer had when its API was started.
Scenario(start, json, apiLength) ==
  [start |-> start, json |-> json, apiLength |-> apiLength]

ASSUME DownloaderAssumption ==
  /\ InitialHeight \in 0 .. Len(Network)
  /\ IsInjective(PeerList)
  /\ \A s \in Scenarios : s.apiLength \in [Peers -> 0 .. InitialHeight]
  /\ MaxFailures \in Nat /\ MaxPostFailures \in Nat

\* get_payload writes a JSON document into the first block of every chain.
ASSUME GenesisIsJson ==
  /\ Network # <<>>
  /\ \A s \in Scenarios : Network[1].id \in s.json

VARIABLES
  scenario,       \* the one of Scenarios that this is
  mine,           \* the joining node's chain
  height,         \* how much of Network each peer has
  pc,             \* "start" of download_db, its "loop", or "hung" for ever
  node_num,       \* position of the peer to ask in PeerList, from 1
  latest_block,   \* the node's last block when download_db began, with its
                  \* round; <<>> if it had none
  response,       \* the last answer download_db received in this call
  in_sync,
  node_activated, \* the engine may start
  registered,     \* the node is in the MA's configuration
  failures,       \* failed requests to peers so far
  postFailures    \* failed registrations so far

callVars == <<node_num, latest_block, response, in_sync>>
maVars == <<node_activated, registered, postFailures>>
vars == <<scenario, mine, height, pc, callVars, maVars, failures>>

Json == scenario.json
ApiLength == scenario.apiLength

----------------------------------------------------------------------------
(* The peers' client API.                                                   *)

ChainOf(p) == SubSeq(Network, 1, height[p])

Found(blocks) == [status |-> 200, blocks |-> blocks]
NotFound == [status |-> 404, blocks |-> <<>>]

\* get_latest_block reads the rows from self.length - 1 on and takes the
\* first; the API's own BlockchainDB never inserts, so its length stays.
LatestRound(p) == IF ApiLength[p] = 0 THEN 0 ELSE ApiLength[p] - 1

From_after(c, b) == SubSeq(c, SelectInSeq(c, LAMBDA x : x = b) + 1, Len(c))

\* get_missing_blocks of the API's BlockchainDB: from the row with the given
\* hash on.
From(c, b) == SubSeq(c, SelectInSeq(c, LAMBDA x : x = b), Len(c))

\* Otherwise 404 for a round or a hash the API does not know, 500 if it has no
\* block at all.
Missing(p, latest) ==
  IF /\ height[p] > 0 /\ latest.round <= LatestRound(p)
     /\ latest.block \in Range(ChainOf(p))
  THEN Found(From(ChainOf(p), latest.block))
  ELSE NotFound

----------------------------------------------------------------------------
(* The node.                                                                *)

\* The API answers with a payload that is JSON already parsed, from_dict
\* refuses a payload that is not a string: the blocks before it are inserted.
Readable(blocks) == \A i \in DOMAIN blocks : blocks[i].id \notin Json

UpToJson(blocks) ==
  IF Readable(blocks) THEN blocks
  ELSE SubSeq(blocks, 1,
              Min({i \in DOMAIN blocks : blocks[i].id \in Json}) - 1)

Init ==
  /\ scenario \in Scenarios
  /\ mine = scenario.start
  /\ height = [p \in Peers |-> InitialHeight]
  /\ pc = "start"
  /\ node_num = 1 /\ latest_block = <<>> /\ response = NoAnswer
  /\ in_sync = FALSE
  /\ node_activated = FALSE /\ registered = FALSE
  /\ failures = 0 /\ postFailures = 0

\* The writers are never more than a block apart.
Grow(p) ==
  /\ height[p] < Len(Network)
  /\ \A q \in Peers : height[q] >= height[p]
  /\ height' = [height EXCEPT ![p] = @ + 1]
  /\ UNCHANGED <<scenario, mine, pc, callVars, maVars, failures>>

\* get_latest_block of the node's own database: rows are numbered from 0.
RowOf(c) == [block |-> Last(c), round |-> Len(c) - 1]

Begin ==
  /\ pc = "start"
  /\ pc' = "loop"
  /\ latest_block' = IF mine = <<>> THEN <<>> ELSE RowOf(mine)
  /\ node_num' = 1 /\ response' = NoAnswer /\ in_sync' = FALSE
  /\ UNCHANGED <<scenario, mine, height, maVars, failures>>

Asking_once == pc = "loop" /\ ~in_sync /\ node_num = 1

Asking == pc = "loop" /\ ~in_sync /\ node_num <= Len(PeerList)
Peer == PeerList[node_num]

\* An exception that download_db catches at its end: the call is over.
Abandon ==
  /\ pc' = "start"
  /\ UNCHANGED <<node_num, latest_block, in_sync>>

Appended_withFirst(blocks) == blocks

\* missing_blocks[1:]
Appended(blocks) == Tail(blocks)

\* What the loop does with the answer of missing_blocks.  The first block was
\* found by its hash, so its prevHash is the one of the local latest block.
UseMissing(answer) ==
  LET blocks == Appended(answer.blocks) IN
  \/ /\ answer.status # 200
     /\ node_num' = node_num + 1
     /\ UNCHANGED <<mine, pc, latest_block, in_sync>>
  \/ /\ answer.status = 200 /\ Len(answer.blocks) > 1
     /\ answer.blocks[1].prev = latest_block.block.prev
     /\ mine' = mine \o UpToJson(blocks)
     /\ \/ /\ Readable(blocks)
           /\ in_sync' = TRUE /\ node_num' = node_num + 2
           /\ UNCHANGED <<pc, latest_block>>
        \/ ~Readable(blocks) /\ Abandon
  \/ /\ answer.status = 200 /\ Len(answer.blocks) = 1
     /\ in_sync' = TRUE /\ node_num' = node_num + 2
     /\ UNCHANGED <<mine, pc, latest_block>>

AskMissing ==
  /\ Asking /\ latest_block # <<>>
  /\ response' = Missing(Peer, latest_block)
  /\ UseMissing(response')
  /\ UNCHANGED <<scenario, height, maVars, failures>>

\* The exception is caught and the last answer used, or, if there has been
\* none, reading the unbound variable raises another one.
AskMissingFails ==
  /\ Asking /\ latest_block # <<>>
  /\ failures < MaxFailures /\ failures' = failures + 1
  /\ \/ response = NoAnswer /\ Abandon /\ UNCHANGED mine
     \/ response # NoAnswer /\ UseMissing(response)
  /\ UNCHANGED <<scenario, height, response, maVars>>

\* Whether the loop over the blocks came to its end.
Complete(blocks) == blocks # <<>> /\ Readable(blocks)

\* An exception is caught in the loop, after the blocks before the one that
\* caused it have been inserted: none, since the first block causes it.
AskAll ==
  /\ Asking /\ latest_block = <<>>
  /\ mine' = mine \o UpToJson(ChainOf(Peer))
  /\ in_sync' = Complete(ChainOf(Peer))
  /\ node_num' = node_num + 1
  /\ UNCHANGED <<scenario, pc, height, latest_block, response, maVars, failures>>

AskAllFails ==
  /\ Asking /\ latest_block = <<>>
  /\ failures < MaxFailures /\ failures' = failures + 1
  /\ node_num' = node_num + 1
  /\ UNCHANGED <<scenario, mine, pc, height, latest_block, response, in_sync, maVars>>

----------------------------------------------------------------------------
(* After the loop, in sync or not: activate_node.                           *)

Activating_again == pc = "loop" /\ ~Asking /\ node_activated

Activating ==
  /\ pc = "loop" /\ ~Asking
  /\ ~node_activated

Activate ==
  /\ Activating
  /\ registered' = TRUE /\ node_activated' = TRUE /\ pc' = "start"
  /\ UNCHANGED <<scenario, mine, height, callVars, failures, postFailures>>

\* No answer in time, whether the MA has registered the node or not: the node
\* goes on with the configuration it has.
ActivateUnanswered ==
  /\ Activating
  /\ postFailures < MaxPostFailures /\ postFailures' = postFailures + 1
  /\ registered' \in {FALSE, TRUE}
  /\ node_activated' = TRUE /\ pc' = "start"
  /\ UNCHANGED <<scenario, mine, height, callVars, failures>>

\* An error instead of a configuration: stop_event is set, so the thread ends,
\* and reading membership_version raises, so node_activated is not.
ActivateRefused ==
  /\ Activating
  /\ postFailures < MaxPostFailures /\ postFailures' = postFailures + 1
  /\ pc' = "hung"
  /\ UNCHANGED <<scenario, mine, height, callVars, node_activated, registered, failures>>

Finish ==
  /\ pc = "loop" /\ ~Asking /\ node_activated
  /\ pc' = "start"
  /\ UNCHANGED <<scenario, mine, height, callVars, maVars, failures>>

Download == \/ Begin \/ AskMissing \/ AskMissingFails \/ AskAll \/ AskAllFails
            \/ Activate \/ ActivateUnanswered \/ ActivateRefused \/ Finish

Next == Download \/ \E p \in Peers : Grow(p)

Spec == Init /\ [][Next]_vars

\* The thread, and after it the engine, keep calling download_db.
FairSpec == Spec /\ WF_vars(Download)

----------------------------------------------------------------------------
(* Properties.                                                              *)

\* Every variable has its type, and a peer that has found something always
\* sends blocks (the loop has no branch for an empty list).
TypeOK ==
  /\ mine \in Seq(Range(Network) \cup Range(scenario.start))
  /\ height \in [Peers -> 0 .. Len(Network)]
  /\ pc \in {"start", "loop", "hung"}
  /\ node_num \in 1 .. Len(PeerList) + 2
  /\ latest_block = <<>> \/ latest_block.round \in Nat
  /\ response.status \in {0, 200, 404}
  /\ response.status = 200 <=> response.blocks # <<>>
  /\ {in_sync, node_activated, registered} \subseteq BOOLEAN
  /\ failures \in 0 .. MaxFailures /\ postFailures \in 0 .. MaxPostFailures

\* The node's chain stays linked, whatever it begins with and fetches in however
\* many calls, those included that an unreadable block ends half way: no gap, no
\* block twice (insert_block numbers the rows by their arrival and looks at no
\* hash).
MineIsLinked == \A i \in 2 .. Len(mine) : mine[i].prev = mine[i - 1].id

\* A call of download_db that ends in sync leaves the node with the network's
\* chain, as far as every peer had it when the node was started.
InSyncMeansCaughtUp ==
  in_sync => Len(mine) >= InitialHeight /\ IsPrefix(mine, Network)

\* The peers whose API knows the last block that the node began with.
Informed ==
  {p \in Peers : /\ scenario.start # <<>>
                 /\ Last(scenario.start) \in Range(Network)
                 /\ RowOf(scenario.start).round <= LatestRound(p)}

\* The node's next block is one that it cannot read.  An empty node's is.
AtJson ==
  /\ IsPrefix(mine, Network) /\ Len(mine) < Len(Network)
  /\ Network[Len(mine) + 1].id \in Json

Behind == Len(mine) < InitialHeight /\ ~AtJson

\* An active node has what the network had when it was started, or all of it up
\* to a block that it cannot read, unless nobody who knows its last block has
\* answered ("Node has latest blocks. Activate node").
ActivatedCaughtUp ==
  node_activated /\ failures < Cardinality(Informed) => ~Behind

\* "Node has latest blocks. Activate node": no empty node has.
LatestWhenActivated == node_activated => Len(mine) >= InitialHeight

\* The node becomes active, whatever it began with and however the requests to
\* its peers fail, unless it has blocks and cannot read the next one or the
\* authority answers with an error.
EventuallyActivated ==
  <>(node_activated \/ pc = "hung" \/ (mine # <<>> /\ AtJson))
=============================================================================
