----------------------------- MODULE Membership -----------------------------
(***************************************************************************)
(* How the set of writers changes while the network runs: ProtoEngine.run  *)
(* and join_writer_set in src/protoengine.py, MembershipData, and the      *)
(* connections of ProtoCom.                                                *)
(*                                                                         *)
(* A joining node calls download_db until it returns, has the membership   *)
(* authority (MA) append a configuration that contains it, and waits until *)
(* it is connected to all writers, whether it has got the chain or not:    *)
(* module Downloader says when it does, here it depends on the blocks that *)
(* are missing and on chance.  The coordinator of every round asks the MA  *)
(* for the newest configuration; its version travels with the request, the *)
(* others fetch that version, and all switch to it at the top of their     *)
(* next loop, where they connect to the new writer and wait for it too.    *)
(*                                                                         *)
(* A round is the one of module ConsensusRound with the lottery reduced to *)
(* a choice and a block to the id of its writer.  A writer that the MA     *)
(* takes out of the configuration takes part until the others change to    *)
(* the new version and close their connections to it; no other connection  *)
(* breaks, so round_writer_list has the members of ma_writer_list.         *)
(*                                                                         *)
(* An operator whose name ends in _word is a seeded fault of the operator  *)
(* that follows it; no definition uses it.                                 *)
(***************************************************************************)
EXTENDS Integers, SequencesExt, FiniteSetsExt

CONSTANTS
  Genesis,        \* the writers of the first configuration
  Joiners,        \* nodes that may join, each of them once
  Scenarios,      \* sets of nodes that may join or leave in one behaviour
  Rounds,         \* self.rounds: the engine stops after this round number
  Json,           \* the heights, from 1, of the blocks with a JSON payload
  MaxMAFailures   \* bound on the requests to the MA that fail

Nodes == Genesis \cup Joiners

ASSUME MembershipAssumption ==
  /\ Genesis \subseteq Nat \ {0} /\ Joiners \subseteq Nat \ {0}
  /\ IsFiniteSet(Nodes) /\ Cardinality(Genesis) > 1
  /\ Genesis \cap Joiners = {} /\ Scenarios \subseteq SUBSET Nodes
  /\ Rounds \in Nat \ {0}
  /\ Json \subseteq Nat \ {0} /\ 1 \in Json
  /\ MaxMAFailures \in Nat

VARIABLES
  moving,           \* the nodes that may join or leave
  configs,          \* the MA's configurations: the writers of each version
  maFailures,       \* failed requests to the MA so far
  pc,               \* where the node is: off, fetching, joining, in a round
  round, chain, numbers, winner,      \* as in ConsensusRound
  conf,             \* the version of the configuration in self.conf
  current_version, proposed_version,
  ma_writer_list,
  peers,            \* the nodes ProtoCom has a RemoteEnd for
  connected,        \* those of them that are active
  accepting,        \* <<a, b>>: b's ProtoCom thread is accepting a
  in_sync,          \* a download_db of the waiting node has ended in sync
                    \* since the last writer began to call it
  listening,        \* the ProtoCom thread is alive
  msgs

roundVars == <<round, numbers, winner>>
maVars == <<moving, configs, maFailures>>
memberVars == <<conf, current_version, proposed_version, ma_writer_list>>
comVars == <<peers, connected, accepting, listening>>
vars == <<maVars, pc, roundVars, chain, memberVars, comVars, in_sync, msgs>>

Latest == Len(configs)

\* get_coordinatorID: the writers take turns in the order of their ids.
Coordinator(n) ==
  LET list == ma_writer_list[n]
  IN CHOOSE c \in list :
       Cardinality({m \in list : m < c}) = (round[n] - 1) % Cardinality(list)

\* get_version.
GetVersion(n) == Max({current_version[n], proposed_version[n]})

Msg(type, n, to, content) ==
  [type |-> type, round |-> round[n], from |-> n, to |-> to,
   content |-> content]

\* broadcast: to whom this node has a connection.
Broadcast(type, n, content) ==
  {Msg(type, n, m, content) : m \in connected[n]}

Receivable(n, type) ==
  {m \in msgs : /\ listening[n] /\ m.to = n /\ m.type = type
                /\ round[n] # 0 => m.round = round[n]}

MAFails == maFailures < MaxMAFailures /\ maFailures' = maFailures + 1
MAAnswers == UNCHANGED maFailures

----------------------------------------------------------------------------
Init ==
  /\ moving \in Scenarios
  /\ configs = <<Genesis>> /\ maFailures = 0
  /\ pc = [n \in Nodes |-> IF n \in Genesis THEN "join" ELSE "off"]
  /\ round = [n \in Nodes |-> 0]
  /\ chain = [n \in Nodes |-> <<>>]
  /\ numbers = [n \in Nodes |-> {}]
  /\ winner = [n \in Nodes |-> 0]
  /\ conf = [n \in Nodes |-> 1]
  /\ current_version = [n \in Nodes |-> 1]
  /\ proposed_version = [n \in Nodes |-> 0]
  /\ ma_writer_list = [n \in Nodes |-> Genesis]
  /\ peers = [n \in Nodes |-> IF n \in Genesis THEN Genesis \ {n} ELSE {}]
  /\ connected = [n \in Nodes |-> {}]
  /\ accepting = {}
  /\ in_sync = [n \in Nodes |-> FALSE]
  /\ listening = [n \in Nodes |-> n \in Genesis]
  /\ msgs = {}

----------------------------------------------------------------------------
(* A node joins.                                                            *)

\* A node is started: its database has nothing, or as much of the chain as
\* somebody has; MembershipData reads the newest configuration and ProtoCom
\* makes a RemoteEnd for everybody in it.
StartNode(n) ==
  /\ pc[n] = "off" /\ n \in moving
  /\ pc' = [pc EXCEPT ![n] = "fetch"]
  /\ \E m \in Nodes : \E k \in 0 .. Len(chain[m]) :
       chain' = [chain EXCEPT ![n] = SubSeq(chain[m], 1, k)]
  /\ conf' = [conf EXCEPT ![n] = Latest]
  /\ current_version' = [current_version EXCEPT ![n] = Latest]
  /\ ma_writer_list' = [ma_writer_list EXCEPT ![n] = configs[Latest]]
  /\ peers' = [peers EXCEPT ![n] = configs[Latest]]
  /\ listening' = [listening EXCEPT ![n] = TRUE]
  /\ UNCHANGED <<maVars, roundVars, proposed_version, connected, accepting,
                 in_sync, msgs>>

\* The blocks that the API of m sends n after n's last block, which it finds by
\* its hash.  An empty node is sent all blocks.
Knows(m, n) ==
  /\ chain[n] # <<>> /\ Len(chain[n]) <= Len(chain[m])
  /\ chain[m][Len(chain[n])] = Last(chain[n])

Missing_butLast(n, m) ==
  SubSeq(chain[m], Len(chain[n]) + 1, Len(chain[m]) - 1)

Missing(n, m) == SubSeq(chain[m], Len(chain[n]) + 1, Len(chain[m]))

\* The first of them that n cannot read: from_dict refuses a JSON document.
Unreadable(n, m) == {i \in Len(chain[n]) + 1 .. Len(chain[m]) : i \in Json}

\* A call of download_db that ends in sync, with all blocks of a node.
InSync(n, list) ==
  \E m \in list \ {n} :
    /\ Knows(m, n) /\ Unreadable(n, m) = {}
    /\ chain' = [chain EXCEPT ![n] = @ \o Missing(n, m)]

\* One that an exception ends, at the first block that n cannot read.
Abandoned(n, list) ==
  \E m \in list \ {n} :
    /\ Knows(m, n) /\ Unreadable(n, m) # {}
    /\ chain' = [chain EXCEPT ![n] =
         @ \o SubSeq(chain[m], Len(@) + 1, Min(Unreadable(n, m)) - 1)]

\* One that ends with nothing: no API has answered, or none that knows the
\* node's last block or had as many when it was started.  An empty node's calls
\* all end like this, the first block being one that it cannot read.
Unanswered == UNCHANGED chain

\* The first call of download_db, and the MA is asked to activate the node.
Activate(n) ==
  /\ pc[n] = "fetch"
  /\ pc' = [pc EXCEPT ![n] = "join"]
  /\ InSync(n, ma_writer_list[n]) \/ Unanswered
  /\ configs' = Append(configs, configs[Latest] \cup {n})
  /\ conf' = [conf EXCEPT ![n] = Latest + 1]
  /\ current_version' = [current_version EXCEPT ![n] = Latest + 1]
  /\ ma_writer_list' =
       [ma_writer_list EXCEPT ![n] = configs[Latest] \cup {n}]
  /\ UNCHANGED <<moving, maFailures, roundVars, proposed_version, comVars, in_sync,
                 msgs>>

\* A call that is abandoned does not come to activate_node; the thread makes
\* another one.
FetchAbandoned(n) ==
  /\ pc[n] = "fetch"
  /\ Abandoned(n, ma_writer_list[n])
  /\ UNCHANGED <<maVars, pc, roundVars, memberVars, comVars, in_sync, msgs>>

\* POST /deactivate_node, by the node's operator or by deactivate_node; at least
\* two writers are left.
Deactivate(n) ==
  /\ n \in moving \cap Genesis \cap configs[Latest] /\ Cardinality(configs[Latest]) > 2
  /\ configs' = Append(configs, configs[Latest] \ {n})
  /\ UNCHANGED <<moving, maFailures, pc, roundVars, chain, memberVars, comVars,
                 in_sync, msgs>>

\* How many connected peers join_writer_set waits for.
ExpectedPeers(n) == Cardinality(ma_writer_list[n]) - 1

Joined(n) == Cardinality(connected[n]) >= ExpectedPeers(n)

\* waiting_node_get_conf, which applies the lists at once.
WaitingNodeGetConf(n) ==
  \/ /\ MAAnswers
     /\ conf' = [conf EXCEPT ![n] = Latest]
     /\ current_version' = [current_version EXCEPT ![n] = Latest]
     /\ ma_writer_list' = [ma_writer_list EXCEPT ![n] = configs[Latest]]
  \/ /\ MAFails
     /\ current_version' = [current_version EXCEPT ![n] = 0]
     /\ UNCHANGED <<conf, ma_writer_list>>

\* One turn of the loop in join_writer_set on a node that is not a genesis
\* node: waiting_node_get_conf, then download_db.
JoinPoll(n) ==
  /\ pc[n] \in {"join", "rejoin"} /\ n \notin Genesis /\ ~Joined(n)
  /\ WaitingNodeGetConf(n)
  /\ \/ /\ InSync(n, ma_writer_list'[n])
        /\ in_sync' = [in_sync EXCEPT ![n] = TRUE]
     \/ /\ Abandoned(n, ma_writer_list'[n]) \/ Unanswered
        /\ UNCHANGED in_sync
  /\ UNCHANGED <<moving, configs, pc, roundVars, proposed_version, comVars, msgs>>

\* join_writer_set returns, in run or after a change of the configuration.
JoinDone(n) ==
  /\ pc[n] \in {"join", "rejoin"} /\ Joined(n)
  /\ pc' = [pc EXCEPT ![n] = IF @ = "join" THEN "loop" ELSE "ready"]
  /\ round' = [round EXCEPT ![n] = Len(chain[n])]
  /\ UNCHANGED <<maVars, numbers, winner, chain, memberVars, comVars, in_sync,
                 msgs>>

----------------------------------------------------------------------------
(* The loop of run.                                                         *)

\* update_lists: the lists of the configuration in self.conf.
ListsOf(n) == configs[conf[n]]

\* set_active_nodes: those it makes a RemoteEnd for.
PeersOf(n) == ListsOf(n) \ {n}

\* set_active_nodes: those it keeps.
Remaining(n) == peers[n] \cap ListsOf(n)

\* update_version, set_active_nodes, which also closes the connections to nodes
\* that have left, and the call of join_writer_set.
UpdateVersion(n) ==
  /\ pc[n] = "loop" /\ proposed_version[n] > current_version[n]
  /\ pc' = [pc EXCEPT ![n] = "rejoin"]
  /\ ma_writer_list' = [ma_writer_list EXCEPT ![n] = ListsOf(n)]
  /\ current_version' = [current_version EXCEPT ![n] = proposed_version[n]]
  /\ peers' = [peers EXCEPT ![n] = Remaining(n) \cup PeersOf(n)]
  /\ connected' = [connected EXCEPT ![n] = @ \cap peers'[n]]
  /\ UNCHANGED <<maVars, roundVars, chain, conf, proposed_version, accepting,
                 listening, in_sync, msgs>>

TopOfRound(n) ==
  \/ pc[n] = "ready"
  \/ pc[n] = "loop" /\ proposed_version[n] <= current_version[n]

\* get_remote_conf.
GetRemoteConf(n) ==
  \/ /\ MAAnswers
     /\ conf' = [conf EXCEPT ![n] = Latest]
     /\ IF current_version[n] # 0 /\ Latest > current_version[n]
        THEN /\ proposed_version' = [proposed_version EXCEPT ![n] = Latest]
             /\ UNCHANGED current_version
        ELSE /\ current_version' = [current_version EXCEPT ![n] = Latest]
             /\ UNCHANGED proposed_version
  \/ /\ MAFails
     /\ current_version' = [current_version EXCEPT ![n] = 0]
     /\ UNCHANGED <<conf, proposed_version>>

StartCoordinator(n) ==
  /\ TopOfRound(n) /\ Coordinator(n) = n
  /\ GetRemoteConf(n)
  /\ msgs' = msgs \cup Broadcast("request", n, GetVersion(n)')
  /\ numbers' = [numbers EXCEPT ![n] = {}]
  /\ pc' = [pc EXCEPT ![n] = "collect"]
  /\ UNCHANGED <<moving, configs, round, winner, chain, ma_writer_list, comVars,
                 in_sync>>

StartWriter(n) ==
  /\ TopOfRound(n) /\ Coordinator(n) # n
  /\ pc' = [pc EXCEPT ![n] = "await_request"]
  /\ UNCHANGED <<maVars, roundVars, chain, memberVars, comVars, in_sync, msgs>>

\* get_membership_version, which leaves the lists alone.
GetMembershipVersion(n, version) ==
  \/ /\ MAAnswers
     /\ conf' = [conf EXCEPT ![n] = version]
     /\ proposed_version' = [proposed_version EXCEPT ![n] = version]
  \/ MAFails /\ UNCHANGED <<conf, proposed_version>>

CheckVersion_ignored(n, version) ==
  UNCHANGED <<maFailures, conf, proposed_version>>

\* check_membership_version_update; writer_round ignores what it returns.
CheckVersion(n, version) ==
  \/ version > current_version[n] /\ GetMembershipVersion(n, version)
  \/ /\ version <= current_version[n]
     /\ UNCHANGED <<maFailures, conf, proposed_version>>

\* get_request_msg takes the coordinator's only.
Requests(n) == {m \in Receivable(n, "request") : m.from = Coordinator(n)}

AnswerRequest(n) ==
  /\ pc[n] = "await_request"
  /\ \E m \in Requests(n) :
       /\ CheckVersion(n, m.content)
       /\ msgs' = (msgs \ {m}) \cup
                  {Msg("reply", n, c, 0) : c \in {m.from} \cap connected[n]}
  /\ pc' = [pc EXCEPT ![n] = "await_announce"]
  /\ UNCHANGED <<moving, configs, roundVars, chain, current_version, ma_writer_list,
                 comVars, in_sync>>

RepliesNeeded_all(n) == Cardinality(ma_writer_list[n])

RepliesNeeded(n) == Cardinality(ma_writer_list[n]) - 1

CollectReply(n) ==
  /\ pc[n] = "collect" /\ Cardinality(numbers[n]) < RepliesNeeded(n)
  /\ \E m \in Receivable(n, "reply") :
       /\ numbers' = [numbers EXCEPT ![n] = @ \cup {m.from}]
       /\ msgs' = msgs \ {m}
  /\ UNCHANGED <<maVars, pc, round, winner, chain, memberVars, comVars,
                 in_sync>>

AnnounceWinner(n) ==
  /\ pc[n] = "collect" /\ Cardinality(numbers[n]) >= RepliesNeeded(n)
  /\ \E w \in numbers[n] \cap ma_writer_list[n] :
       /\ winner' = [winner EXCEPT ![n] = w]
       /\ msgs' = msgs \cup Broadcast("announce", n, w)
  /\ pc' = [pc EXCEPT ![n] = "await_block"]
  /\ UNCHANGED <<maVars, round, numbers, chain, memberVars, comVars, in_sync>>

\* insert_block, and the end of the loop.
StoreBlock(n, b) ==
  /\ chain' = [chain EXCEPT ![n] = Append(@, b)]
  /\ round' = [round EXCEPT ![n] = Len(chain'[n]) + 1]
  /\ pc' = [pc EXCEPT ![n] = IF round'[n] > Rounds THEN "done" ELSE "loop"]

IsWinner_noIdCheck(n, w) == TRUE

IsWinner(n, w) == w = n

TakeAnnouncement(n) ==
  /\ pc[n] = "await_announce"
  /\ \E m \in Receivable(n, "announce") :
       /\ m.from = Coordinator(n)
       /\ winner' = [winner EXCEPT ![n] = m.content]
       /\ \/ LET b == <<n, Len(chain[n])>> IN
             /\ IsWinner(n, m.content)
             /\ StoreBlock(n, b)
             /\ msgs' = (msgs \ {m}) \cup Broadcast("block", n, b)
          \/ /\ ~IsWinner(n, m.content)
             /\ msgs' = msgs \ {m}
             /\ pc' = [pc EXCEPT ![n] = "await_block"]
             /\ UNCHANGED <<chain, round>>
  /\ UNCHANGED <<maVars, numbers, memberVars, comVars, in_sync>>

ReceiveBlock(n) ==
  /\ pc[n] = "await_block"
  /\ \E m \in Receivable(n, "block") :
       /\ m.from = winner[n]
       /\ StoreBlock(n, m.content)
       /\ msgs' = msgs \ {m}
  /\ UNCHANGED <<maVars, numbers, winner, memberVars, comVars, in_sync>>

----------------------------------------------------------------------------
(* The connections, made by the ProtoCom thread of each node.               *)

Dials_everybody(a, b) == TRUE

\* init_con_all dials nodes with a higher id only.
Dials(a, b) == a < b

Busy(n) == \E p \in accepting : p[2] = n

\* The dialling side counts the connection when the other one has replied;
\* that one sleeps for two seconds before it reads the acknowledgement.
\* accept_con looks up whoever calls in peers: the KeyError of an unknown node
\* ends its thread.
Dial(a, b) ==
  /\ listening[a] /\ listening[b] /\ ~Busy(a) /\ ~Busy(b)
  /\ Dials(a, b) /\ b \in peers[a] \ connected[a]
  /\ \/ /\ a \in peers[b]
        /\ connected' = [connected EXCEPT ![a] = @ \cup {b}]
        /\ accepting' = accepting \cup {<<a, b>>}
        /\ in_sync' = [in_sync EXCEPT ![b] = FALSE]
        /\ UNCHANGED listening
     \/ /\ a \notin peers[b]
        /\ listening' = [listening EXCEPT ![b] = FALSE]
        /\ UNCHANGED <<connected, accepting, in_sync>>
  /\ UNCHANGED <<maVars, pc, roundVars, chain, memberVars, peers, msgs>>

Accept(a, b) ==
  /\ <<a, b>> \in accepting
  /\ \/ a \in peers[b] /\ connected' = [connected EXCEPT ![b] = @ \cup {a}]
        /\ UNCHANGED listening
     \/ a \notin peers[b] /\ listening' = [listening EXCEPT ![b] = FALSE]
        /\ UNCHANGED connected
  /\ accepting' = accepting \ {<<a, b>>}
  /\ UNCHANGED <<maVars, pc, roundVars, chain, memberVars, peers, in_sync, msgs>>

\* read_con of a connection that the other side has closed.
ReadClosed(a, b) ==
  /\ listening[a] /\ b \in connected[a] /\ a \notin peers[b]
  /\ connected' = [connected EXCEPT ![a] = @ \ {b}]
  /\ UNCHANGED <<maVars, pc, roundVars, chain, memberVars, peers, accepting,
                 listening, in_sync, msgs>>

----------------------------------------------------------------------------
EngineStep(n) ==
  \/ JoinPoll(n) \/ JoinDone(n)
  \/ UpdateVersion(n) \/ StartCoordinator(n) \/ StartWriter(n)
  \/ AnswerRequest(n) \/ CollectReply(n) \/ AnnounceWinner(n)
  \/ TakeAnnouncement(n) \/ ReceiveBlock(n)

ComStep(n) ==
  \E m \in Nodes : Dial(n, m) \/ Accept(m, n) \/ ReadClosed(n, m)

Terminated ==
  (\A n \in Genesis \cap configs[Latest] : pc[n] = "done") /\ UNCHANGED vars

Next ==
  \/ \E n \in Nodes :
       \/ StartNode(n) \/ Activate(n) \/ FetchAbandoned(n) \/ Deactivate(n)
       \/ EngineStep(n) \/ ComStep(n)
  \/ Terminated

Spec == Init /\ [][Next]_vars

\* The engine polls its queue and the MA in a loop, ProtoCom its sockets.
FairSpec ==
  Spec /\ \A n \in Nodes : WF_vars(EngineStep(n)) /\ WF_vars(ComStep(n))

----------------------------------------------------------------------------
(* Properties.                                                              *)

InRound(n) == pc[n] \in {"ready", "collect", "await_request", "await_announce",
                         "await_block"}

Versions == 0 .. 1 + Cardinality(UNION Scenarios)

\* Every variable has its type.
TypeOK ==
  /\ moving \in Scenarios
  /\ configs \in Seq(SUBSET Nodes) /\ Len(configs) \in Versions
  /\ pc \in [Nodes -> {"off", "fetch", "join", "rejoin", "loop", "ready",
                        "collect", "await_request", "await_announce",
                        "await_block", "done"}]
  /\ round \in [Nodes -> 0 .. Rounds + 2]
  /\ \A n \in Nodes : Len(chain[n]) <= Rounds + 1
  /\ winner \in [Nodes -> Nodes \cup {0}]
  /\ numbers \in [Nodes -> SUBSET Nodes]
  /\ {conf, current_version, proposed_version} \subseteq [Nodes -> Versions]
  /\ {ma_writer_list, peers, connected} \subseteq [Nodes -> SUBSET Nodes]
  /\ \A n \in Nodes : connected[n] \subseteq peers[n] /\ n \notin peers[n]
  /\ accepting \subseteq Nodes \X Nodes

\* Two nodes that work on the same block have the same list of writers, so
\* that they agree on the coordinator and on who replies.
SameMembers ==
  \A n, m \in Nodes :
    InRound(n) /\ InRound(m) /\ Len(chain[n]) = Len(chain[m])
      => ma_writer_list[n] = ma_writer_list[m]

\* No two nodes store different blocks at the same height, those that joined
\* later included.
ChainsAgree ==
  \A n, m \in Nodes :
    IsPrefix(chain[n], chain[m]) \/ IsPrefix(chain[m], chain[n])

\* A node that leaves join_writer_set for its first round has every block that
\* anybody has stored ("Consensus is ongoing while node waits, and node needs
\* to stay updated"), if a call of download_db has ended in sync since the last
\* writer began to connect to it: no block is added while it answers.
JoinedUpToDate ==
  [][\A n \in Joiners :
       pc[n] = "join" /\ pc'[n] = "loop" /\ in_sync[n]
         => \A m \in Nodes : Len(chain[m]) <= Len(chain[n])]_vars

\* The version a node announces as its current one is the one its lists are
\* taken from ("changes current version when changes have been applied").
VersionMeansLists ==
  \A n \in Nodes :
    current_version[n] # 0 => ma_writer_list[n] = configs[current_version[n]]

\* No node's ProtoCom thread dies of a connection attempt.
EveryoneListens == \A n \in Nodes : pc[n] # "off" => listening[n]

\* A node that has joined out of sync lacks a block for good.
LeftBehind(h) ==
  /\ pc[h] \notin {"off", "fetch", "join"} /\ ~in_sync[h]
  /\ \E m \in Nodes : Len(chain[m]) > Len(chain[h])

\* All rounds come to their end on the nodes of the first configuration that
\* have not left, whoever joins and leaves in between, unless a node has joined
\* out of sync and stays behind (as every node with an empty database does).
RoundsComplete ==
  <>[](\/ \A n \in Genesis \cap configs[Latest] : pc[n] = "done"
       \/ \E h \in Joiners : LeftBehind(h))
=============================================================================
