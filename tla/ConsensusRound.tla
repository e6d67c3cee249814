--------------------------- MODULE ConsensusRound ---------------------------
(***************************************************************************)
(* The rounds of the consensus engine, ProtoEngine in src/protoengine.py,  *)
(* for a fixed set of writers that stay connected.                         *)
(*                                                                         *)
(* In every round one writer is the coordinator.  It asks the others for   *)
(* a number, waits for all of them, runs the lottery and announces the     *)
(* winner; the winner makes a block of its next payload, appends it to its *)
(* chain and broadcasts it; everybody else appends what it receives.       *)
(* There is no barrier: a writer goes on to the next round as soon as it   *)
(* has stored the block, while others still wait for it.  The membership   *)
(* authority can ask for the chains to be deleted (resetNumber), which     *)
(* every engine polls on its own at the top of its loop.                   *)
(*                                                                         *)
(* Each disjunct of Next is what the engine thread of one node does        *)
(* between two waits: it consumes at most one message and runs up to the   *)
(* next receive loop.  Membership changes, disconnections and the          *)
(* cancellation protocol they start are not part of this module.           *)
(*                                                                         *)
(* An operator whose name ends in _word is a seeded fault of the operator  *)
(* that follows it; no definition uses it.                                 *)
(***************************************************************************)
EXTENDS Lottery

CONSTANTS
  WriterList,    \* round_writer_list: the sorted ids of the active writers
  InitialChain,  \* the chain each writer finds in its database on startup
  Payloads,      \* the payloads clients may submit, each of them once
  Rounds,        \* self.rounds: the engine stops after this round number
  MaxResets      \* bound on the number of chain resets the MA orders

Writers == Range(WriterList)
NumWriters == Len(WriterList)

NoPayload == "Writer had nothing to write"
GenesisPayload == "genesis"

ASSUME ConsensusAssumption ==
  /\ WriterList \in Seq(Nat \ {0})
  /\ NumWriters > 1
  /\ \A i, j \in 1 .. NumWriters : i < j => WriterList[i] < WriterList[j]
  /\ Rounds \in Nat
  /\ MaxResets \in Nat

\* The engine looks at its limit at the end of a round, and takes 0 for no
\* limit; it has at least one round to do.
ASSUME RoundsAssumption ==
  Rounds > 0 /\ \A n \in Writers : Len(InitialChain[n]) <= Rounds

VARIABLES
  pc,            \* where the engine thread of a writer is in its loop
  round,         \* the engine's local round number
  chain,         \* the rows of bcdb, in order of their key
  numbers,       \* the <<id, number>> pairs the coordinator has collected
  pad,           \* the number a writer drew for this round
  winner,        \* the writer whose block the node waits for
  payload_queue, \* payloads accepted by the client server, not yet in a block
  submitted,     \* the payloads clients have handed in, and to which writer
  reset_number,  \* the last reset a node has seen
  resetNumber,   \* the reset counter of the membership authority
  published,     \* what each node handed to the block broker
  msgs           \* messages in flight or in a node's message_queue

engineVars == <<pc, round, numbers, pad, winner>>
clientVars == <<payload_queue, submitted>>
resetVars == <<reset_number, resetNumber>>
vars == <<engineVars, chain, clientVars, resetVars, published, msgs>>

----------------------------------------------------------------------------
(* Blocks.  A hash is represented by the fields it digests, so that two     *)
(* blocks have the same hash only if they are the same.  Signature and      *)
(* timestamp are left out.                                                  *)

Block(prev_hash, writerID, coordinatorID, winning_number, payload) ==
  [prev_hash |-> prev_hash, writerID |-> writerID,
   coordinatorID |-> coordinatorID, winning_number |-> winning_number,
   payload |-> payload]

Hash(b) == <<"0x", b.prev_hash, b.writerID, b.coordinatorID,
             b.payload, b.winning_number>>

ZeroHash == <<"0">>

PrevHash_oneBack(c) == IF Len(c) < 2 THEN ZeroHash ELSE Hash(c[Len(c) - 1])

\* get_prev_hash: the hash of the latest block, or "0" for an empty chain.
PrevHash(c) == IF c = <<>> THEN ZeroHash ELSE Hash(c[Len(c)])

\* get_coordinatorID: the list is sorted; round 0 is the last writer's.
Coordinator(r) == WriterList[((r - 1) % NumWriters) + 1]

\* get_payload: genesis in round 0, else the head of the queue if there is one.
GetPayload(n, r) ==
  IF r = 0 THEN GenesisPayload
  ELSE IF payload_queue[n] = <<>> THEN NoPayload
  ELSE Head(payload_queue[n])

PayloadsLeft_peek(n, r) == payload_queue[n]

PayloadsLeft(n, r) ==
  IF r = 0 \/ payload_queue[n] = <<>> THEN payload_queue[n]
  ELSE Tail(payload_queue[n])

\* create_block, signed by n with its own number as the winning number.
CreateBlock(n, r) ==
  Block(IF r = 0 THEN ZeroHash ELSE PrevHash(chain[n]),
        n, Coordinator(r), pad[n], GetPayload(n, r))

----------------------------------------------------------------------------
(* Messages and _recv_msg.                                                  *)

Request(r, c, n) == [type |-> "request", round |-> r, from |-> c, to |-> n]

Reply_swapped(r, n, c, x) ==
  [type |-> "reply", round |-> r, from |-> c, to |-> n, number |-> x]

Reply(r, n, c, x) ==
  [type |-> "reply", round |-> r, from |-> n, to |-> c, number |-> x]

Announce(r, c, n, nums, p, w) ==
  [type |-> "announce", round |-> r, from |-> c, to |-> n,
   numbers |-> nums, pad |-> p, winner |-> w]

BlockMsg(r, w, n, b) ==
  [type |-> "block", round |-> r, from |-> w, to |-> n, block |-> b]

\* The round is compared only "if round:", so in round 0 any round matches.
\* A message that does not match goes to the back of the queue, hence any
\* message in the queue can be the next one to be received.
Receivable(n, type) ==
  {m \in msgs : /\ m.type = type
                /\ m.to = n
                /\ round[n] # 0 => m.round = round[n]}

Others(n) == Writers \ {n}

----------------------------------------------------------------------------
Init ==
  /\ pc = [n \in Writers |-> "loop"]
  /\ chain = InitialChain
  /\ round = [n \in Writers |-> Len(InitialChain[n])]
  /\ numbers = [n \in Writers |-> <<>>]
  /\ pad = [n \in Writers |-> 0]
  /\ winner = [n \in Writers |-> 0]
  /\ payload_queue = [n \in Writers |-> <<>>]
  /\ submitted = [p \in Payloads |-> 0]
  /\ reset_number = [n \in Writers |-> 0]
  /\ resetNumber = 0
  /\ published = {}
  /\ msgs = {}

\* ClientHandler.run: a payload is queued and acknowledged at once.
ClientSubmit(n, p) ==
  /\ submitted[p] = 0
  /\ submitted' = [submitted EXCEPT ![p] = n]
  /\ payload_queue' = [payload_queue EXCEPT ![n] = Append(@, p)]
  /\ UNCHANGED <<engineVars, chain, resetVars, published, msgs>>

\* The membership authority is told to have the blockchain deleted.
DeleteChain ==
  /\ resetNumber < MaxResets
  /\ resetNumber' = resetNumber + 1
  /\ UNCHANGED <<engineVars, chain, clientVars, reset_number, published, msgs>>

\* check_for_chain_reset at the top of the loop of n: poll and truncate.  The
\* request to the membership authority may fail, and is then as good as none.
PollReset(n) ==
  /\ \/ /\ resetNumber > reset_number[n]
        /\ reset_number' = [reset_number EXCEPT ![n] = resetNumber]
        /\ chain' = [chain EXCEPT ![n] = <<>>]
     \/ UNCHANGED <<reset_number, chain>>
  /\ UNCHANGED resetNumber

EndsLoop(n) == pc[n] = "loop" /\ round[n] > Rounds

\* coordinator_round, step 1: ask every other writer for a number.
StartCoordinator(n) ==
  /\ pc[n] = "loop" /\ ~EndsLoop(n)
  /\ Coordinator(round[n]) = n
  /\ PollReset(n)
  /\ msgs' = msgs \cup {Request(round[n], n, w) : w \in Others(n)}
  /\ pc' = [pc EXCEPT ![n] = "replies"]
  /\ numbers' = [numbers EXCEPT ![n] = <<>>]
  /\ UNCHANGED <<round, pad, winner, clientVars, published>>

\* writer_round, up to the wait for the coordinator's request.
StartWriter(n) ==
  /\ pc[n] = "loop" /\ ~EndsLoop(n)
  /\ Coordinator(round[n]) # n
  /\ PollReset(n)
  /\ pc' = [pc EXCEPT ![n] = "request"]
  /\ UNCHANGED <<round, numbers, pad, winner, clientVars, published, msgs>>

\* writer_round, step 2: draw a number and send it to the coordinator.
AnswerRequest(n) ==
  /\ pc[n] = "request"
  /\ \E m \in Receivable(n, "request"), x \in Pads :
       /\ m.from = Coordinator(round[n])
       /\ pad' = [pad EXCEPT ![n] = x]
       /\ msgs' = (msgs \ {m}) \cup {Reply(round[n], n, m.from, x)}
  /\ pc' = [pc EXCEPT ![n] = "announce"]
  /\ UNCHANGED <<round, numbers, winner, chain, clientVars, resetVars,
                 published>>

RepliesNeeded_early == NumWriters - 2

RepliesNeeded_all == NumWriters

\* get_otp_numbers returns once this many replies were received.
RepliesNeeded == NumWriters - 1

\* get_otp_numbers: one more reply.
CollectReply(n) ==
  /\ pc[n] = "replies"
  /\ Len(numbers[n]) < RepliesNeeded
  /\ \E m \in Receivable(n, "reply") :
       /\ numbers' = [numbers EXCEPT ![n] = Append(@, <<m.from, m.number>>)]
       /\ msgs' = msgs \ {m}
  /\ UNCHANGED <<pc, round, pad, winner, chain, clientVars, resetVars,
                 published>>

\* coordinator_round, step 3: run the lottery and announce the winner.
AnnounceWinner(n) ==
  /\ pc[n] = "replies"
  /\ Len(numbers[n]) >= RepliesNeeded
  /\ \E p \in Pads, w \in Writers :
       /\ IsOutcome(numbers[n], p, w)
       /\ msgs' = msgs \cup {Announce(round[n], n, o, numbers[n], p, w) :
                               o \in Others(n)}
       /\ winner' = [winner EXCEPT ![n] = w]
  /\ pc' = [pc EXCEPT ![n] = "block"]
  /\ numbers' = [numbers EXCEPT ![n] = <<>>]
  /\ UNCHANGED <<round, pad, chain, clientVars, resetVars, published>>

\* insert_block and the end of the loop of run: the next round number is
\* computed from the length of the chain, not from the round.  The number
\* drawn and the winner were local to the round.
StoreBlock(n, b) ==
  /\ chain' = [chain EXCEPT ![n] = Append(@, b)]
  /\ round' = [round EXCEPT ![n] = Len(chain[n]) + 2]
  /\ pc' = [pc EXCEPT ![n] = "loop"]
  /\ pad' = [pad EXCEPT ![n] = 0]
  /\ winner' = [winner EXCEPT ![n] = 0]
  /\ UNCHANGED numbers

\* The announcements n takes in the current round.
Announcements(n) ==
  {m \in Receivable(n, "announce") : m.from = Coordinator(round[n])}

Verified(n, m) == VerifyRoundWinner(m.numbers, m.pad, m.winner, pad[n])

IsWinner_noIdCheck(n, m) == Verified(n, m)

\* The branch of writer_round in which the node makes the block.
IsWinner(n, m) == m.winner = n /\ Verified(n, m)

\* writer_round, step 4, of the winner: make, send, store and publish a block.
WinRound(n) ==
  /\ pc[n] = "announce"
  /\ \E m \in Announcements(n) :
       /\ IsWinner(n, m)
       /\ LET b == CreateBlock(n, round[n])
          IN  /\ msgs' = (msgs \ {m})
                           \cup {BlockMsg(round[n], n, o, b) : o \in Others(n)}
              /\ published' = published \cup {<<n, b>>}
              /\ StoreBlock(n, b)
  /\ payload_queue' = [payload_queue EXCEPT ![n] = PayloadsLeft(n, round[n])]
  /\ UNCHANGED <<submitted, resetVars>>

\* writer_round, step 4, of the others.  A writer that cannot verify the
\* outcome calls cancel_round, whose call of create_cancel_block raises, and
\* its engine thread dies.
AwaitBlock(n) ==
  /\ pc[n] = "announce"
  /\ \E m \in Announcements(n) :
       /\ ~IsWinner(n, m)
       /\ msgs' = msgs \ {m}
       /\ pc' = [pc EXCEPT ![n] = IF Verified(n, m) THEN "block" ELSE "dead"]
       /\ winner' = [winner EXCEPT ![n] = m.winner]
  /\ UNCHANGED <<round, numbers, pad, chain, clientVars, resetVars, published>>

\* receive_block, then insert_block.  writer_round publishes the block, on
\* every node that takes part as a writer; coordinator_round does not.
ReceiveBlock(n) ==
  /\ pc[n] = "block"
  /\ \E m \in Receivable(n, "block") :
       /\ m.from = winner[n]
       /\ msgs' = msgs \ {m}
       /\ StoreBlock(n, m.block)
       /\ published' = IF Coordinator(round[n]) = n
                       THEN published
                       ELSE published \cup {<<n, m.block>>}
  /\ UNCHANGED <<clientVars, resetVars>>

EngineStep(n) ==
  \/ StartCoordinator(n)
  \/ StartWriter(n)
  \/ AnswerRequest(n)
  \/ CollectReply(n)
  \/ AnnounceWinner(n)
  \/ WinRound(n)
  \/ AwaitBlock(n)
  \/ ReceiveBlock(n)

\* The engines have all done their last round.
Terminated ==
  /\ \A n \in Writers : EndsLoop(n)
  /\ UNCHANGED vars

Next ==
  \/ \E n \in Writers : EngineStep(n)
  \/ \E n \in Writers, p \in Payloads : ClientSubmit(n, p)
  \/ DeleteChain
  \/ Terminated

\* Every engine is a thread that polls its queue until it can go on.
Fairness == \A n \in Writers : WF_vars(EngineStep(n))

Spec == Init /\ [][Next]_vars

FairSpec == Spec /\ Fairness
----------------------------------------------------------------------------
(* Types.                                                                   *)

IsBlock(b) ==
  /\ b = Block(b.prev_hash, b.writerID, b.coordinatorID,
               b.winning_number, b.payload)
  /\ b.writerID \in Writers
  /\ b.coordinatorID \in Writers
  /\ b.winning_number \in Pads
  /\ b.payload \in Payloads \cup {NoPayload, GenesisPayload}

IsChain(c) ==
  /\ c \in Seq(Range(c))
  /\ \A i \in 1 .. Len(c) : IsBlock(c[i])

IsMessage(m) ==
  /\ m.round \in Nat
  /\ m.from \in Writers
  /\ m.to \in Others(m.from)
  /\ \/ /\ m.type = "request"
        /\ m = Request(m.round, m.from, m.to)
     \/ /\ m.type = "reply"
        /\ m = Reply(m.round, m.from, m.to, m.number)
        /\ m.number \in Pads
     \/ /\ m.type = "announce"
        /\ m = Announce(m.round, m.from, m.to, m.numbers, m.pad, m.winner)
        /\ m.numbers \in Seq(Writers \X Pads)
        /\ m.pad \in Pads
        /\ m.winner \in Writers
     \/ /\ m.type = "block"
        /\ m = BlockMsg(m.round, m.from, m.to, m.block)
        /\ IsBlock(m.block)

\* Every variable holds a value of its type; in particular a number drawn is
\* below the modulus and a list of replies names writers only.
TypeOK ==
  /\ pc \in [Writers -> {"loop", "request", "replies", "announce", "block",
                         "dead"}]
  /\ round \in [Writers -> Nat]
  /\ DOMAIN chain = Writers
  /\ \A n \in Writers : IsChain(chain[n])
  /\ numbers \in [Writers -> Seq(Writers \X Pads)]
  /\ pad \in [Writers -> Pads]
  /\ winner \in [Writers -> Writers \cup {0}]
  /\ payload_queue \in [Writers -> Seq(Payloads)]
  /\ submitted \in [Payloads -> Writers \cup {0}]
  /\ reset_number \in [Writers -> 0 .. MaxResets]
  /\ resetNumber \in 0 .. MaxResets
  /\ \A p \in published : p[1] \in Writers /\ IsBlock(p[2])
  /\ \A m \in msgs : IsMessage(m)

----------------------------------------------------------------------------
(* Safety.  Until the membership authority orders a reset:                  *)

\* Agreement of run's rounds: two writers never store different blocks at the
\* same height, however their engines interleave.
Agreement ==
  resetNumber = 0 =>
    \A m, n \in Writers : \A i \in DOMAIN chain[m] \cap DOMAIN chain[n] :
      chain[m][i] = chain[n][i]

\* Nobody is ever more than one block ahead: the next round cannot end before
\* get_otp_numbers has heard from a writer that finished this one.
Lockstep ==
  resetNumber = 0 =>
    \A m, n \in Writers : Len(chain[m]) <= Len(chain[n]) + 1

\* The chain every node stores passes verify_chain of the engine's test: each
\* block carries the hash of its predecessor, and no coordinator won a round
\* it ran.
ChainVerifies ==
  resetNumber = 0 =>
    \A n \in Writers : \A i \in DOMAIN chain[n] :
      /\ i > 1 => chain[n][i].prev_hash = Hash(chain[n][i - 1])
      /\ chain[n][i].writerID # chain[n][i].coordinatorID

\* The queues hold no left-overs: a message still to be received is for the
\* round its receiver is in, or the receiver has that round still before it.
\* So the round-0 wildcard of _recv_msg never takes a message of a later
\* round for one of round 0.
Awaited(n) ==
  CASE pc[n] = "loop"     -> {"request", "reply", "announce", "block"}
    [] pc[n] = "request"  -> {"request", "announce", "block"}
    [] pc[n] = "replies"  -> {"reply", "block"}
    [] pc[n] = "announce" -> {"announce", "block"}
    [] pc[n] = "block"    -> {"block"}
    [] OTHER              -> {}

NoStaleMessages ==
  resetNumber = 0 =>
    \A m \in msgs :
      /\ m.round >= round[m.to]
      /\ m.round = round[m.to] => m.type \in Awaited(m.to)
      /\ m.round > round[m.to] =>
           m.type = "request" /\ pc[m.to] \in {"announce", "block"}

\* A payload that was acknowledged to a client is in exactly one place: still
\* in the queue of the writer it was given to, or once in that writer's chain.
PlacesOf(p) ==
  LET n == submitted[p]
  IN  Cardinality({i \in DOMAIN payload_queue[n] : payload_queue[n][i] = p})
      + Cardinality({i \in DOMAIN chain[n] : chain[n][i].payload = p})

PayloadExactlyOnce ==
  resetNumber = 0 => \A p \in Payloads : submitted[p] # 0 => PlacesOf(p) = 1

(* Safety, whether or not a reset is ordered.                              *)

\* A reset empties chains, never queues, and no payload enters a chain twice.
PayloadNeverTwice ==
  \A n \in Writers, p \in Payloads :
    Cardinality({i \in DOMAIN payload_queue[n] : payload_queue[n][i] = p})
      + Cardinality({i \in DOMAIN chain[n] : chain[n][i].payload = p}) <= 1

\* Two chains that start from the same first block never diverge: a reset that
\* reaches the engines in different rounds may leave them on different chains,
\* but not on two versions of one.
ChainsOfOneStartAgree ==
  \A m, n \in Writers :
    chain[m] # <<>> /\ chain[n] # <<>> /\ chain[m][1] = chain[n][1] =>
      \A i \in DOMAIN chain[m] \cap DOMAIN chain[n] : chain[m][i] = chain[n][i]

\* A message queue holds at most one message of a type from each sender, so
\* the queues stay bounded although nothing is ever thrown out of them.
QueuesBounded ==
  \A m, o \in msgs :
    m.type = o.type /\ m.from = o.from /\ m.to = o.to => m = o

\* No message is sent while its double is still under way, not even when a
\* reset makes an engine go through a round number again; so a set of messages
\* stands for the queues, which could hold a message twice.
NeverSentTwice ==
  [][\A n \in Writers :
       LET InFlight(type) ==
             \E m \in msgs :
               m.type = type /\ m.from = n /\ m.round = round[n]
       IN  /\ StartCoordinator(n) => ~InFlight("request")
           /\ AnswerRequest(n) => ~InFlight("reply")
           /\ AnnounceWinner(n) => ~InFlight("announce")
           /\ WinRound(n) => ~InFlight("block")]_vars

----------------------------------------------------------------------------
(* Liveness, under the fairness of the engine threads.                      *)

\* Every engine gets through all its rounds: nobody waits for ever for a
\* message that is not coming.
AllRoundsComplete == <>(\A n \in Writers : EndsLoop(n))

\* After a reset was ordered the blockchain restarts: the engines go on to
\* complete their rounds.
RestartsAfterReset ==
  (resetNumber > 0) ~> (\A n \in Writers : EndsLoop(n))

----------------------------------------------------------------------------
(* The rounds implement one shared ledger.                                  *)

LongestChain ==
  chain[CHOOSE n \in Writers :
          \A m \in Writers : Len(chain[m]) <= Len(chain[n])]

ExtendsChain(c, n, b) == b.writerID = n /\ b.prev_hash = PrevHash(c)

Ledger == INSTANCE AbstractLedger
  WITH Nodes   <- Writers,
       Extends <- ExtendsChain,
       ledger  <- LongestChain,
       height  <- [n \in Writers |-> Len(chain[n])]

\* The chains of the writers are copies, complete or one block behind, of one
\* ledger that is extended by one correctly linked block at a time, and every
\* writer that is behind catches up.
RefinesLedger == Ledger!Spec
=============================================================================
