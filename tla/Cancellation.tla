---------------------------- MODULE Cancellation ----------------------------
(***************************************************************************)
(* What the engines do when a connection is lost in the middle of a round: *)
(* lines 465 to 786 of src/protoengine.py.                                 *)
(*                                                                         *)
(* Every poll of a round calls node_check_round_cancelled.  A node that    *)
(* has lost a peer, or that receives a proposal, proposes to cancel the    *)
(* round; the cancel coordinator collects proposals and requests a vote on *)
(* one of them; all vote for the accused if they have lost it too, else    *)
(* for the accuser, and what the ballot says goes to the penalty box.      *)
(* Timeouts lead to view changes, or past them.                            *)
(*                                                                         *)
(* The rounds themselves are those of module ConsensusRound, reduced to    *)
(* the number of blocks a node has.  The fault has happened when the       *)
(* behaviour begins; each node notices it in its own time.                 *)
(*                                                                         *)
(* An operator whose name ends in _word is a seeded fault of the operator  *)
(* that follows it; no definition uses it.                                 *)
(***************************************************************************)
EXTENDS PenaltyBox, SequencesExt

CONSTANTS
  Writers,     \* ids of the writers of all configurations
  Scenarios,   \* what may have failed, in which configuration; see Scenario
  StartHeight, \* blocks in the other nodes' chains
  Json,        \* heights at which the last block's payload is JSON
  MaxHeight    \* bound on the rounds after the fault

Scenario ==
  [writers : SUBSET Writers,      \* those in the configuration
   links : SUBSET SUBSET Writers, \* the pairs whose connection is lost
   down : SUBSET Writers,         \* those that have crashed
   ahead : SUBSET Writers,        \* those that have the running round's block
   patient : BOOLEAN]             \* timeouts are longer than all else takes

ASSUME CancellationAssumption ==
  /\ Writers \subseteq Nat \ {0} /\ IsFiniteSet(Writers)
  /\ Scenarios \subseteq Scenario
  /\ StartHeight \in Nat \ {0} /\ MaxHeight \in Nat
  /\ Json \subseteq Nat

VARIABLES
  scenario,           \* the one of Scenarios that happened
  inactive,           \* the peers whose RemoteEnd a node has closed
  pc, view, cancel_number,
  accuser, accused,   \* the ids a node votes about, 0 for None
  received,           \* received_messages of wait_for_supermajority_...
  view_changed,       \* broadcasted_view_change
  min_view_change,
  ballot,             \* votes for accuser, for accused, and all of them
  height,             \* the length of a node's chain
  disconnected_nodes,
  round_writer_list, penalty_box,
  msgs                \* in flight or in one of a node's two cancel queues

accusation == <<accuser, accused>>
waits == <<received, view_changed, min_view_change>>
memVars == <<disconnected_nodes, round_writer_list, penalty_box>>
vars == <<scenario, inactive, pc, view, cancel_number, accusation, waits,
          ballot, height, memVars, msgs>>

Up == scenario.writers \ scenario.down

\* Votes and quorums count round_writer_list.
Size(n) == Cardinality(round_writer_list[n])
Minority(n) == ((Size(n) - 1) \div 3) + 1

Supermajority(n) == 2 * ((Size(n) - 1) \div 3) + 1

IsCoordinator(n, v) == CancelCoordinator(penalty_box[n], v) = n

----------------------------------------------------------------------------
(* Messages.                                                                *)

Reached(n) ==
  {m \in Up \ {n} : m \notin inactive[n] /\ {n, m} \notin scenario.links}

Proposal(n, faulty) ==
  {[type |-> "propose_cancel", from |-> n, to |-> m,
    cancel_number |-> cancel_number[n], faulty_node |-> faulty,
    block |-> height[n]] : m \in Reached(n)}

Request(n, v, acc, accd) ==
  {[type |-> "request_cancel", from |-> n, to |-> m,
    cancel_number |-> cancel_number[n], view |-> v, vote |-> <<acc, accd>>,
    block |-> height[n]] : m \in Reached(n)}

VoteFor(n, id) ==
  {[type |-> "vote_cancel", from |-> n, to |-> m,
    cancel_number |-> cancel_number[n], faulty_node |-> id] : m \in Reached(n)}

\* view_change or new_view, which go to the same queue; the count keeps apart
\* the several ones wait_for_supermajority_propose_cancel may send.
ViewChange(n, type, v) ==
  {[type |-> type, from |-> n, to |-> m, cancel_number |-> cancel_number[n],
    view |-> v, block |-> height[n], count |-> received[n]] : m \in Reached(n)}

Inbox(n, type) == {m \in msgs : m.to = n /\ m.type = type}

\* _search_msg compares the cancel number ...
Proposals(n) ==
  {m \in Inbox(n, "propose_cancel") : m.cancel_number = cancel_number[n]}

\* ... and so does _recv_msg, "if cancel_round:", but not the view.
Receivable(n, type) ==
  {m \in Inbox(n, type) :
     cancel_number[n] # 0 => m.cancel_number = cancel_number[n]}

ViewQueue(n) == Inbox(n, "view_change") \cup Inbox(n, "new_view")

\* check_view_change: the messages it counts, which all stay in the queue.
ViewChanges(n) ==
  {m \in ViewQueue(n) : /\ m.cancel_number = cancel_number[n]
                        /\ m.view > view[n]
                        /\ m.from \in round_writer_list[n]}

SeesViewChange(n) == Cardinality(ViewChanges(n)) >= Minority(n)

SeesNewView(n) ==
  Cardinality({m \in ViewChanges(n) : IsCoordinator(n, m.view)})
    >= Supermajority(n)

\* The view check_view_change returns with a new view: enumerate yields pairs
\* of position and count, read as count and view.
NewViewNumber(n) ==
  Cardinality({m \in ViewChanges(n) : m.view = Supermajority(n)})

AppendRaises_same(n, block) == block = height[n]

\* check_append_block: a block whose hash is the predecessor of the node's own
\* last block, that is, of a node one block behind, makes it read the round
\* that a block made from a tuple does not have.  Other blocks are ignored.
AppendRaises(n, block) == block + 1 = height[n]

----------------------------------------------------------------------------
Init ==
  /\ scenario \in Scenarios
  /\ inactive = [n \in Writers |-> {}]
  /\ pc = [n \in Writers |-> IF n \in Up THEN "round" ELSE "crashed"]
  /\ view = [n \in Writers |-> 0]
  /\ cancel_number = [n \in Writers |-> 0]
  /\ accuser = [n \in Writers |-> 0]
  /\ accused = [n \in Writers |-> 0]
  /\ received = [n \in Writers |-> 0]
  /\ view_changed = [n \in Writers |-> FALSE]
  /\ min_view_change = [n \in Writers |-> 0]
  /\ ballot = [n \in Writers |-> [accuser |-> 0, accused |-> 0, all |-> 0]]
  /\ height = [n \in Writers |-> IF n \in scenario.ahead THEN StartHeight + 1
                                 ELSE StartHeight]
  /\ disconnected_nodes = [n \in Writers |-> <<>>]
  /\ round_writer_list = [n \in Writers |-> scenario.writers]
  /\ penalty_box = 
       [n \in Writers |-> [m \in scenario.writers |-> NewEntry]]
  /\ msgs = {}

\* The ProtoCom thread finds a connection closed.
Notice(n, m) ==
  /\ n \in Up /\ {n, m} \in scenario.links /\ n # m /\ m \notin inactive[n]
  /\ inactive' = [inactive EXCEPT ![n] = @ \cup {m}]
  /\ UNCHANGED <<scenario, pc, view, cancel_number, accusation, waits,
                 ballot, height, memVars, msgs>>

\* The order of the peers: the i-th of them has i - 1 before it.
InOrder(S) ==
  [i \in 1 .. Cardinality(S) |->
     Min({x \in S : Cardinality({y \in S : y < x}) >= i - 1})]

\* peers_disconnected: disconnected_nodes after the call.
Disconnected(n) ==
  disconnected_nodes[n]
    \o InOrder(inactive[n] \ (InBox(penalty_box[n])
                                \cup Range(disconnected_nodes[n])))

\* An exception nobody catches ends the engine thread.
Die(n) ==
  /\ pc' = [pc EXCEPT ![n] = "dead"]
  /\ UNCHANGED <<scenario, inactive, view, cancel_number, accusation,
                 waits, ballot, height, memVars, msgs>>

----------------------------------------------------------------------------
(* Steps that several waits end with.                                       *)

\* vote: whom n votes for.
Choice(n, acc, accd) ==
  IF accd \in Range(Disconnected(n)) THEN accd ELSE acc

\* vote, with the messages sent before it, up to the wait for votes.
Vote(n, v, acc, accd, queue) ==
  LET choice == Choice(n, acc, accd) IN
  /\ pc' = [pc EXCEPT ![n] = "ballot"]
  /\ view' = [view EXCEPT ![n] = v]
  /\ accuser' = [accuser EXCEPT ![n] = acc]
  /\ accused' = [accused EXCEPT ![n] = accd]
  /\ disconnected_nodes' = [disconnected_nodes EXCEPT ![n] = Disconnected(n)]
  /\ ballot' = [ballot EXCEPT ![n] =
       IF accd \in Range(Disconnected(n))
       THEN [accuser |-> 0, accused |-> 1, all |-> 1]
       ELSE [accuser |-> 1, accused |-> 0, all |-> 1]]
  /\ msgs' = queue \cup VoteFor(n, choice)
  /\ UNCHANGED waits

\* coordinator_round_cancelled from its call of send_request_cancel on.
RequestVote(n, v, acc, accd, queue) ==
  Vote(n, v, acc, accd, queue \cup Request(n, v, acc, accd))

\* node_check_round_cancelled for a view above 0; there are as many views as
\* nodes in the configuration, and none after the last.
EnterView(n, v, queue) ==
  LET last == v >= Cardinality(DOMAIN penalty_box[n]) IN
  \/ /\ ~last /\ IsCoordinator(n, v)
     /\ RequestVote(n, v, IF accuser[n] = 0 THEN n ELSE accuser[n], accused[n],
                    queue)
  \/ /\ last \/ ~IsCoordinator(n, v)
     /\ pc' = [pc EXCEPT ![n] = IF last THEN "dead" ELSE "requested"]
     /\ view' = [view EXCEPT ![n] = v]
     /\ view_changed' = [view_changed EXCEPT ![n] = FALSE]
     /\ msgs' = queue
     /\ UNCHANGED <<accusation, received, min_view_change, ballot,
                    disconnected_nodes>>

\* send_new_view, then the next view.  Without a message for the view the
\* faulty node is an unbound variable.
SendNewView(n, v, queue) ==
  LET found == {m \in ViewQueue(n) : m.view = v} IN
  \/ /\ found # {} /\ \A m \in found : ~AppendRaises(n, m.block)
     /\ EnterView(n, view[n] + 1,
                  (queue \ ViewQueue(n)) \cup ViewChange(n, "new_view", v))
  \/ /\ found = {} \/ \E m \in found : AppendRaises(n, m.block)
     /\ pc' = [pc EXCEPT ![n] = "dead"]
     /\ UNCHANGED <<view, accusation, waits, ballot, disconnected_nodes, msgs>>

\* What no step of a cancellation changes before its verdict.
Frame ==
  UNCHANGED <<scenario, inactive, cancel_number, height,
              round_writer_list, penalty_box>>

----------------------------------------------------------------------------
(* A poll of the round: writer_round_cancelled, coordinator_round_cancelled. *)

\* The node accuses, by a proposal it has received (from acc) or by itself
\* (acc = 0).  Its own proposal carries its last block, which Block.from_dict
\* refuses if the database has parsed the payload.
Propose(n, acc, accd, queue) ==
  /\ disconnected_nodes' = [disconnected_nodes EXCEPT ![n] = Disconnected(n)]
  /\ accused' = [accused EXCEPT ![n] = accd]
  /\ accuser' = [accuser EXCEPT ![n] =
       IF acc = 0 /\ IsCoordinator(n, 0) THEN n ELSE acc]
  /\ received' = [received EXCEPT ![n] = IF acc = 0 THEN 1 ELSE 2]
  /\ view_changed' = [view_changed EXCEPT ![n] = FALSE]
  /\ min_view_change' = [min_view_change EXCEPT ![n] = 0]
  /\ view' = [view EXCEPT ![n] = 0]
  /\ pc' = [pc EXCEPT ![n] = IF height[n] \in Json THEN "dead"
                             ELSE IF IsCoordinator(n, 0) THEN "proposals"
                             ELSE "requested"]
  /\ msgs' = IF height[n] \in Json THEN queue
             ELSE queue \cup Proposal(n, accd)
  /\ UNCHANGED ballot

FollowProposal(n) ==
  /\ pc[n] = "round"
  /\ \E m \in Proposals(n) :
       /\ ~AppendRaises(n, m.block)
       /\ Propose(n, m.from, m.faulty_node, msgs \ {m})
  /\ Frame

OwnProposal(n) ==
  /\ pc[n] = "round" /\ Disconnected(n) # <<>>
  /\ Propose(n, 0, Disconnected(n)[1], msgs)
  /\ Frame

----------------------------------------------------------------------------
(* The coordinator of view 0: wait_for_supermajority_propose_cancel.        *)

\* The results are returned in another order than the caller reads them: a
\* view change that was broadcast is taken for a new view to announce, and
\* everything else for success.
EndOfProposals(n, queue) ==
  \/ view_changed[n] /\ SendNewView(n, min_view_change[n], queue)
  \/ ~view_changed[n] /\ RequestVote(n, 0, accuser[n], accused[n], queue)

\* The proposal completes the supermajority.
LastProposal(n) ==
  /\ pc[n] = "proposals" /\ received[n] + 1 >= Supermajority(n)
  /\ \E m \in Proposals(n) :
       ~AppendRaises(n, m.block) /\ EndOfProposals(n, msgs \ {m})
  /\ Frame

\* It does not, and check_view_change is called unless a view change was sent,
\* in which case the one found then is sent again.  A new view is never found:
\* the coordinator of view 0 is that of no other one.
OneMoreProposal(n) ==
  /\ pc[n] = "proposals" /\ received[n] + 1 < Supermajority(n)
  /\ \E m \in Proposals(n) :
       /\ ~AppendRaises(n, m.block)
       /\ \/ /\ ~view_changed[n]
             /\ msgs' = msgs \ {m}
             /\ UNCHANGED <<view_changed, min_view_change>>
          \/ /\ view_changed[n] \/ SeesViewChange(n)
             /\ \E v \in IF view_changed[n] THEN {min_view_change[n]}
                        ELSE {c.view : c \in ViewChanges(n)} :
                  /\ min_view_change' = [min_view_change EXCEPT ![n] = v]
                  /\ msgs' = (msgs \ {m}) \cup ViewChange(n, "view_change", v)
             /\ view_changed' = [view_changed EXCEPT ![n] = TRUE]
  /\ received' = [received EXCEPT ![n] = @ + 1]
  /\ UNCHANGED <<pc, view, accusation, ballot, disconnected_nodes>>
  /\ Frame

\* A proposal from a node one block behind.
BadProposal(n) ==
  /\ pc[n] \in {"round", "proposals"}
  /\ \E m \in Proposals(n) : AppendRaises(n, m.block)
  /\ Die(n)

\* The time for proposals is over; the view change sent then is for view 1.
ProposalsTimeOut(n) ==
  /\ pc[n] = "proposals"
  /\ EndOfProposals(n, IF view_changed[n] THEN msgs
                       ELSE msgs \cup ViewChange(n, "view_change", 1))
  /\ Frame

----------------------------------------------------------------------------
(* The others, and every node of a later view: get_request_cancel.          *)

TakeRequest(n) ==
  /\ pc[n] = "requested"
  /\ \E m \in Receivable(n, "request_cancel") :
       /\ ~AppendRaises(n, m.block)
       /\ Vote(n, view[n], m.vote[1], m.vote[2], msgs \ {m})
  /\ Frame

BadRequest(n) ==
  /\ pc[n] = "requested"
  /\ \E m \in Receivable(n, "request_cancel") : AppendRaises(n, m.block)
  /\ Die(n)

\* f + 1 view changes make the node send its own.
JoinViewChange(n) ==
  /\ pc[n] = "requested" /\ ~view_changed[n]
  /\ SeesViewChange(n) /\ ~SeesNewView(n)
  /\ view_changed' = [view_changed EXCEPT ![n] = TRUE]
  /\ msgs' = msgs \cup ViewChange(n, "view_change", view[n] + 1)
  /\ UNCHANGED <<pc, view, accusation, received, min_view_change, ballot,
                 disconnected_nodes>>
  /\ Frame

\* 2f + 1 of them for views this node coordinates end the wait.
NewView(n) ==
  /\ pc[n] = "requested" /\ SeesNewView(n)
  /\ SendNewView(n, NewViewNumber(n), msgs)
  /\ Frame

\* A node that has sent a view change before goes to the next view.  One that
\* sends it only now reports that it has not, and votes by its own accusation.
RequestTimesOut(n) ==
  /\ pc[n] = "requested"
  /\ \/ view_changed[n] /\ EnterView(n, view[n] + 1, msgs)
     \/ /\ ~view_changed[n]
        /\ Vote(n, view[n], accuser[n], accused[n],
                msgs \cup ViewChange(n, "view_change", view[n] + 1))
  /\ Frame

----------------------------------------------------------------------------
(* get_vote_ballot and what follows it.                                     *)

\* "consensus" is looked at only when a vote has been received.
Open(n) ==
  /\ ballot[n].all < Size(n)
  /\ \/ ballot[n].all = 1
     \/ /\ 3 * ballot[n].accuser <= Size(n)
        /\ 3 * ballot[n].accused <= Size(n)

\* A vote for the accuser is counted for it even if it is also the accused.
TakeVote(n) ==
  /\ pc[n] = "ballot" /\ Open(n)
  /\ \E m \in Receivable(n, "vote_cancel") :
       /\ LET for == m.faulty_node = accuser[n]
              against == m.faulty_node = accused[n] /\ ~for
          IN  ballot' = [ballot EXCEPT ![n] =
                [accuser |-> @.accuser + (IF for THEN 1 ELSE 0),
                 accused |-> @.accused + (IF against THEN 1 ELSE 0),
                 all |-> @.all + 1]]
       /\ msgs' = msgs \ {m}
  /\ UNCHANGED <<pc, view, accusation, waits, disconnected_nodes>>
  /\ Frame

Sanctioned_both(n) == {accuser[n], accused[n]}

Sanctioned_rejected(n) ==
  IF ballot[n].accuser > ballot[n].accused THEN {} ELSE {accused[n]}

\* round_disconnect_list after the ballot.
Sanctioned(n) ==
  IF 2 * ballot[n].accuser > Size(n) THEN {accuser[n], accused[n]}
  ELSE {accused[n]}

\* The end of this iteration of run and the top of the next, as in a round
\* that is completed.
NextRound(n, disconnected) ==
  /\ penalty_box' = [penalty_box EXCEPT ![n] = NextBox(@, disconnected)]
  /\ round_writer_list' = [round_writer_list EXCEPT ![n] =
       NextList(@, penalty_box[n], disconnected)]
  /\ disconnected_nodes' = [disconnected_nodes EXCEPT ![n] = <<>>]

\* The ballot is closed: the nodes it sanctions leave the round, and the same
\* round begins again.  remove_blocks is called with the number of the next
\* round, of which there is no block.  None is never sanctioned: only a node that
\* has lost the accused itself has no accuser, and none votes for None.
Verdict(n) ==
  /\ pc[n] = "ballot" /\ ~Open(n)
  /\ NextRound(n, Sanctioned(n))
  /\ cancel_number' = [cancel_number EXCEPT ![n] = @ + 1]
  /\ pc' = [pc EXCEPT ![n] = "round"]
  /\ view' = [view EXCEPT ![n] = 0]
  /\ accuser' = [accuser EXCEPT ![n] = 0]
  /\ accused' = [accused EXCEPT ![n] = 0]
  /\ ballot' = [ballot EXCEPT ![n] = [accuser |-> 0, accused |-> 0, all |-> 0]]
  /\ received' = [received EXCEPT ![n] = 0]
  /\ view_changed' = [view_changed EXCEPT ![n] = FALSE]
  /\ min_view_change' = [min_view_change EXCEPT ![n] = 0]
  /\ UNCHANGED <<scenario, inactive, height, msgs>>

----------------------------------------------------------------------------
(* A round of ConsensusRound that comes to its end at a node: the members   *)
(* its coordinator needs answer, and do so for the same round and number of *)
(* cancellations.                                                           *)

Coordinator(n) ==
  CHOOSE x \in round_writer_list[n] :
    Cardinality({y \in round_writer_list[n] : y < x}) = height[n] % Size(n)

TakesPart(m, n) ==
  /\ m \in Up /\ pc[m] # "dead"
  /\ {m, Coordinator(n)} \notin scenario.links
  /\ cancel_number[m] = cancel_number[n]
  /\ round_writer_list[m] = round_writer_list[n]
  /\ \/ height[m] = height[n] /\ pc[m] = "round"
     \/ height[m] = height[n] + 1

Completes(n) ==
  /\ pc[n] = "round" /\ height[n] < MaxHeight
  /\ n \in round_writer_list[n]
  /\ \A m \in round_writer_list[n] : TakesPart(m, n)

CompleteRound(n) ==
  /\ Completes(n)
  /\ height' = [height EXCEPT ![n] = @ + 1]
  /\ NextRound(n, {})
  /\ UNCHANGED <<scenario, inactive, pc, view, cancel_number, accusation,
                 waits, ballot, msgs>>

----------------------------------------------------------------------------
Timely(n) ==
  \/ FollowProposal(n) \/ OwnProposal(n) \/ BadProposal(n)
  \/ LastProposal(n) \/ OneMoreProposal(n)
  \/ TakeRequest(n) \/ BadRequest(n) \/ JoinViewChange(n) \/ NewView(n)
  \/ TakeVote(n) \/ Verdict(n)
  \/ CompleteRound(n)

\* The guards of Notice and Timely: there is something n can do.
Noticing(n) ==
  \E m \in Writers : {n, m} \in scenario.links /\ n # m /\ m \notin inactive[n]

Ready(n) ==
  \/ pc[n] = "round" /\ (Proposals(n) # {} \/ Disconnected(n) # <<>>)
  \/ pc[n] = "proposals" /\ Proposals(n) # {}
  \/ /\ pc[n] = "requested"
     /\ \/ Receivable(n, "request_cancel") # {}
        \/ ~view_changed[n] /\ SeesViewChange(n)
        \/ SeesNewView(n)
  \/ pc[n] = "ballot" /\ (Open(n) => Receivable(n, "vote_cancel") # {})
  \/ Completes(n)

\* With patience a timeout expires only when nothing else can happen.
MayExpire == scenario.patient => \A n \in Up : ~Noticing(n) /\ ~Ready(n)

NodeStep(n) ==
  \/ Timely(n)
  \/ pc[n] = "proposals" /\ MayExpire /\ ProposalsTimeOut(n)
  \/ pc[n] = "requested" /\ MayExpire /\ RequestTimesOut(n)

Next == \E n \in Up : NodeStep(n) \/ \E m \in Writers : Notice(n, m)

Spec == Init /\ [][Next]_vars

\* Threads keep running, and a closed connection is found by the next poll.
\* As every step uses up a message, a link, a timeout or a round, no thread can
\* run forever while another waits: the fairness of each is that of them all.
FairSpec == Spec /\ WF_vars(Next)

----------------------------------------------------------------------------
(* Properties.                                                              *)

Ids == Writers \cup {0}

Messages ==
  [from : Writers, to : Writers, cancel_number : Nat,
   type : {"propose_cancel"}, faulty_node : Ids, block : Nat]
    \cup [from : Writers, to : Writers, cancel_number : Nat,
          type : {"request_cancel"}, view : Nat, vote : Ids \X Ids, block : Nat]
    \cup [from : Writers, to : Writers, cancel_number : Nat,
          type : {"vote_cancel"}, faulty_node : Ids]
    \cup [from : Writers, to : Writers, cancel_number : Nat,
          type : {"view_change", "new_view"}, view : Nat, block : Nat,
          count : Nat]

Boxes ==
  [scenario.writers -> [counter : Nat, in_penalty_box : BOOLEAN, curr_counter : Int,
               honesty_counter : Nat]]

\* The types of the engines' cancellation state and of its messages.
TypeOK ==
  /\ scenario \in Scenarios
  /\ inactive \in [Writers -> SUBSET Writers]
  /\ pc \in [Writers -> {"crashed", "round", "proposals", "requested",
                         "ballot", "dead"}]
  /\ {view, cancel_number, received, min_view_change, height}
       \subseteq [Writers -> Nat]
  /\ {accuser, accused} \subseteq [Writers -> Ids]
  /\ view_changed \in [Writers -> BOOLEAN]
  /\ ballot \in [Writers -> [accuser : Nat, accused : Nat, all : Nat]]
  /\ disconnected_nodes \in [Writers -> Seq(Writers)]
  /\ round_writer_list \in [Writers -> SUBSET Writers]
  /\ penalty_box \in [Writers -> Boxes]
  /\ \A m \in msgs : m \in Messages

\* Nodes that have been through as many cancellations and rounds know the same
\* members and the same penalties, whichever votes each of them counted: so they
\* agree on the coordinator of the round they repeat and of the next cancellation.
SameVerdict ==
  \A m, n \in Up :
    (cancel_number[m] = cancel_number[n] /\ height[m] = height[n])
      => /\ round_writer_list[m] = round_writer_list[n]
         /\ penalty_box[m] = penalty_box[n]

\* A cancellation sanctions no node that reaches all the others that are up.
OnlyTheFaultySanctioned ==
  \A n \in Up : \A x \in InBox(penalty_box[n]) :
    \E m \in Up : {m, x} \in scenario.links

\* No exception ends an engine thread in the course of a cancellation.
NobodyDies == \A n \in Up : pc[n] # "dead"

\* If no timeout is too short and no node was ahead of the others, the survivors
\* of a crash agree to exclude the crashed node and go on to add blocks.
RoundsGoOn == <>(\A n \in Up : height[n] = MaxHeight)

\* "Coordinator broadcasts a new-view if: 1. It has received 2f+1 view-change
\* messages for some view x > v", check_view_change says of itself.
AnnouncesNewView ==
  [][\A n \in Up :
       NewView(n) => \E m \in msgs' : m.type = "new_view" /\ m.from = n]_vars
=============================================================================
