------------------------ MODULE ConsensusRoundProofs ------------------------
(***************************************************************************)
(* Proofs about ConsensusRound, for any number of writers, any lottery     *)
(* modulus, any payloads and any number of rounds.                         *)
(***************************************************************************)
EXTENDS ConsensusRoundInv, TLAPS, SequenceTheorems, FunctionTheorems,
        FiniteSetTheorems, WellFoundedInduction

USE ConsensusAssumption, LotteryAssumption

----------------------------------------------------------------------------
(* The constants.                                                           *)

\* The databases the engines start from hold well-formed blocks.
TypedStart ==
  /\ InitialChain \in [Writers -> {InitialChain[n] : n \in Writers}]
  /\ \A n \in Writers : IsChain(InitialChain[n])

LEMMA WritersType ==
  /\ NumWriters \in Nat
  /\ WriterList \in [1 .. NumWriters -> Nat \ {0}]
  /\ Writers \subseteq Nat \ {0}
  /\ 0 \notin Writers
  /\ \A i \in 1 .. NumWriters : WriterList[i] \in Writers
  BY DEF Writers, NumWriters, Range

LEMMA CoordinatorType ==
  ASSUME NEW r \in Nat
  PROVE  Coordinator(r) \in Writers
<1>1. NumWriters \in Nat /\ NumWriters > 0
  BY WritersType
<1>2. (r - 1) % NumWriters \in 0 .. NumWriters - 1
  BY <1>1
<1>. QED
  BY <1>1, <1>2, WritersType DEF Coordinator

LEMMA PadsType == Pads \subseteq Nat /\ 0 \in Pads
  BY DEF Pads

----------------------------------------------------------------------------
(* Chains.                                                                  *)

LEMMA ChainAppend ==
  ASSUME NEW c, IsChain(c), NEW b, IsBlock(b)
  PROVE  /\ IsChain(Append(c, b))
         /\ Len(c) \in Nat
         /\ Len(Append(c, b)) = Len(c) + 1
         /\ \A i \in 1 .. Len(c) : Append(c, b)[i] = c[i]
         /\ Append(c, b)[Len(c) + 1] = b
<1>. DEFINE S == Range(c) \cup {b}
            d == Append(c, b)
<1>1. c \in Seq(S) /\ b \in S
  <2>1. c \in Seq(Range(c))
    BY DEF IsChain
  <2>. QED
    BY <2>1
<1>2. /\ d \in Seq(S)
      /\ Len(d) = Len(c) + 1
      /\ \A i \in 1 .. Len(c) : d[i] = c[i]
      /\ d[Len(c) + 1] = b
  BY <1>1
<1>3. Len(c) \in Nat /\ DOMAIN d = 1 .. Len(d)
  BY <1>1, <1>2
<1>4. \A i \in 1 .. Len(d) : d[i] \in Range(d)
  BY <1>3 DEF Range
<1>5. d \in Seq(Range(d))
  BY <1>2, <1>3, <1>4
<1>6. \A i \in 1 .. Len(d) : IsBlock(d[i])
  BY <1>2, <1>3 DEF IsChain
<1>. QED
  BY <1>2, <1>3, <1>5, <1>6 DEF IsChain

LEMMA EmptyChain == IsChain(<<>>)
  BY DEF IsChain, Range

LEMMA ChainLen == ASSUME NEW c, IsChain(c) PROVE Len(c) \in Nat
  BY DEF IsChain

----------------------------------------------------------------------------
(* Type correctness.                                                        *)

LEMMA ReceivableType ==
  ASSUME TypeOK, NEW n \in Writers, NEW type, NEW m \in Receivable(n, type)
  PROVE  m \in msgs /\ IsMessage(m) /\ m.type = type /\ m.to = n
  BY DEF Receivable, TypeOK

LEMMA NewBlockType ==
  ASSUME TypeOK, NEW n \in Writers
  PROVE  IsBlock(CreateBlock(n, round[n]))
<1>1. /\ round[n] \in Nat /\ pad[n] \in Pads
      /\ payload_queue[n] \in Seq(Payloads)
  BY DEF TypeOK
<1>2. GetPayload(n, round[n]) \in Payloads \cup {NoPayload, GenesisPayload}
  BY <1>1 DEF GetPayload
<1>3. Coordinator(round[n]) \in Writers
  BY <1>1, CoordinatorType
<1>. QED
  BY <1>1, <1>2, <1>3 DEF CreateBlock, IsBlock, Block

\* Sending adds well-formed messages, receiving removes one.
LEMMA MessageTypes ==
  ASSUME NEW c \in Writers, NEW o \in Others(c), NEW r \in Nat
  PROVE  /\ IsMessage(Request(r, c, o))
         /\ \A x \in Pads : IsMessage(Reply(r, c, o, x))
         /\ \A nums \in Seq(Writers \X Pads), p \in Pads, w \in Writers :
              IsMessage(Announce(r, c, o, nums, p, w))
         /\ \A b : IsBlock(b) => IsMessage(BlockMsg(r, c, o, b))
  BY DEF IsMessage, Request, Reply, Announce, BlockMsg, Others

LEMMA InitTypeOK == ASSUME TypedStart PROVE Init => TypeOK
<1>. SUFFICES ASSUME Init PROVE TypeOK
  OBVIOUS
<1>1. \A n \in Writers : Len(InitialChain[n]) \in Nat
  BY ChainLen DEF TypedStart
<1>2. round \in [Writers -> Nat]
  BY <1>1 DEF Init
<1>3. DOMAIN chain = Writers /\ \A n \in Writers : IsChain(chain[n])
  BY DEF Init, TypedStart
<1>4. pad \in [Writers -> Pads]
  BY PadsType DEF Init
<1>. QED
  BY <1>2, <1>3, <1>4 DEF Init, TypeOK

LEMMA StoreBlockType ==
  ASSUME TypeOK, NEW n \in Writers, NEW b, IsBlock(b), StoreBlock(n, b)
  PROVE  /\ pc' \in [Writers -> {"loop", "request", "replies", "announce",
                                 "block", "dead"}]
         /\ round' \in [Writers -> Nat]
         /\ DOMAIN chain' = Writers
         /\ \A m \in Writers : IsChain(chain[m])'
         /\ pad' \in [Writers -> Pads]
         /\ winner' \in [Writers -> Writers \cup {0}]
         /\ numbers' \in [Writers -> Seq(Writers \X Pads)]
<1>1. IsChain(chain[n]) /\ IsChain(Append(chain[n], b))
  BY ChainAppend DEF TypeOK
<1>2. Len(chain[n]) \in Nat
  BY <1>1, ChainLen
<1>3. DOMAIN chain' = Writers /\ \A m \in Writers : IsChain(chain[m])'
  <2>1. \A m \in Writers :
          chain'[m] = IF m = n THEN Append(chain[n], b) ELSE chain[m]
    BY DEF StoreBlock, TypeOK
  <2>2. \A m \in Writers : IsChain(chain'[m])
    BY <1>1, <2>1 DEF TypeOK
  <2>3. DOMAIN chain' = Writers
    BY DEF StoreBlock, TypeOK
  <2>. QED
    BY <2>2, <2>3
<1>. QED
  BY <1>2, <1>3, PadsType DEF StoreBlock, TypeOK

LEMMA PollResetType ==
  ASSUME TypeOK, NEW n \in Writers, PollReset(n)
  PROVE  /\ DOMAIN chain' = Writers
         /\ \A m \in Writers : IsChain(chain[m])'
         /\ reset_number' \in [Writers -> 0 .. MaxResets]
         /\ resetNumber' \in 0 .. MaxResets
<1>1. \A m \in Writers : chain'[m] = chain[m] \/ chain'[m] = <<>>
  BY DEF PollReset, TypeOK
<1>2. \A m \in Writers : IsChain(chain'[m])
  BY <1>1, EmptyChain DEF TypeOK
<1>3. DOMAIN chain' = Writers
  BY DEF PollReset, TypeOK
<1>4. /\ reset_number \in [Writers -> 0 .. MaxResets]
      /\ resetNumber \in 0 .. MaxResets /\ resetNumber' = resetNumber
      /\ \/ reset_number' = [reset_number EXCEPT ![n] = resetNumber]
         \/ reset_number' = reset_number
  BY DEF PollReset, TypeOK
<1>. QED
  BY <1>2, <1>3, <1>4

LEMMA NextTypeOK == TypeOK /\ [Next]_vars => TypeOK'
<1>. SUFFICES ASSUME TypeOK, [Next]_vars PROVE TypeOK'
  OBVIOUS
<1>. USE DEF engineVars, clientVars, resetVars
<1>1. ASSUME NEW n \in Writers, StartCoordinator(n) PROVE TypeOK'
  <2>1. round[n] \in Nat
    BY DEF TypeOK
  <2>2. \A m \in msgs' : IsMessage(m)
    BY <1>1, <2>1, MessageTypes DEF StartCoordinator, TypeOK
  <2>3. PollReset(n)
    BY <1>1 DEF StartCoordinator
  <2>4. UNCHANGED <<round, pad, winner, clientVars, published>>
        /\ pc' \in [Writers -> {"loop", "request", "replies", "announce",
                                "block", "dead"}]
        /\ numbers' \in [Writers -> Seq(Writers \X Pads)]
    BY <1>1 DEF StartCoordinator, TypeOK
  <2>. QED
    BY <2>2, <2>3, <2>4, PollResetType DEF TypeOK
<1>2. ASSUME NEW n \in Writers, StartWriter(n) PROVE TypeOK'
  <2>1. PollReset(n)
    BY <1>2 DEF StartWriter
  <2>2. UNCHANGED <<round, numbers, pad, winner, clientVars, published, msgs>>
        /\ pc' \in [Writers -> {"loop", "request", "replies", "announce",
                                "block", "dead"}]
    BY <1>2 DEF StartWriter, TypeOK
  <2>. QED
    BY <2>1, <2>2, PollResetType DEF TypeOK
<1>3. ASSUME NEW n \in Writers, AnswerRequest(n) PROVE TypeOK'
  <2>1. PICK m \in Receivable(n, "request"), x \in Pads :
          /\ pad' = [pad EXCEPT ![n] = x]
          /\ msgs' = (msgs \ {m}) \cup {Reply(round[n], n, m.from, x)}
    BY <1>3 DEF AnswerRequest
  <2>2. IsMessage(m) /\ m.to = n /\ round[n] \in Nat
    BY ReceivableType DEF TypeOK
  <2>3. m.from \in Others(n)
    BY <2>2 DEF IsMessage, Others
  <2>4. \A o \in msgs' : IsMessage(o)
    BY <2>1, <2>2, <2>3, MessageTypes DEF TypeOK
  <2>. QED
    BY <1>3, <2>1, <2>4 DEF AnswerRequest, TypeOK
<1>4. ASSUME NEW n \in Writers, CollectReply(n) PROVE TypeOK'
  <2>1. PICK m \in Receivable(n, "reply") :
          /\ numbers' = [numbers EXCEPT ![n] = Append(@, <<m.from, m.number>>)]
          /\ msgs' = msgs \ {m}
    BY <1>4 DEF CollectReply
  <2>2. m.from \in Writers /\ m.number \in Pads
    BY ReceivableType DEF IsMessage
  <2>3. numbers' \in [Writers -> Seq(Writers \X Pads)]
    <3>1. /\ numbers \in [Writers -> Seq(Writers \X Pads)]
          /\ <<m.from, m.number>> \in Writers \X Pads
      BY <2>2 DEF TypeOK
    <3>2. Append(numbers[n], <<m.from, m.number>>) \in Seq(Writers \X Pads)
      BY <3>1
    <3>. QED
      BY <2>1, <3>1, <3>2
  <2>. QED
    BY <1>4, <2>1, <2>3 DEF CollectReply, TypeOK
<1>5. ASSUME NEW n \in Writers, AnnounceWinner(n) PROVE TypeOK'
  <2>1. PICK p \in Pads, w \in Writers :
          /\ msgs' = msgs \cup {Announce(round[n], n, o, numbers[n], p, w) :
                                  o \in Others(n)}
          /\ winner' = [winner EXCEPT ![n] = w]
    BY <1>5 DEF AnnounceWinner
  <2>2. round[n] \in Nat /\ numbers[n] \in Seq(Writers \X Pads)
    BY DEF TypeOK
  <2>3. \A o \in Others(n) :
          IsMessage(Announce(round[n], n, o, numbers[n], p, w))
    BY <2>2, MessageTypes
  <2>4. \A o \in msgs' : IsMessage(o)
    BY <2>1, <2>3 DEF TypeOK
  <2>5. winner' \in [Writers -> Writers \cup {0}]
    BY <2>1 DEF TypeOK
  <2>6. UNCHANGED <<round, pad, chain, clientVars, resetVars, published>>
        /\ pc' \in [Writers -> {"loop", "request", "replies", "announce",
                                "block", "dead"}]
    BY <1>5 DEF AnnounceWinner, TypeOK
  <2>7. numbers' \in [Writers -> Seq(Writers \X Pads)]
    <3>1. numbers' = [numbers EXCEPT ![n] = <<>>]
      BY <1>5 DEF AnnounceWinner
    <3>. QED
      BY <3>1 DEF TypeOK
  <2>. QED
    BY <2>4, <2>5, <2>6, <2>7 DEF TypeOK
<1>6. ASSUME NEW n \in Writers, WinRound(n) PROVE TypeOK'
  <2>. DEFINE b == CreateBlock(n, round[n])
  <2>1. PICK m \in msgs :
          /\ msgs' = (msgs \ {m})
                       \cup {BlockMsg(round[n], n, o, b) : o \in Others(n)}
          /\ published' = published \cup {<<n, b>>}
          /\ StoreBlock(n, b)
    BY <1>6 DEF WinRound, Announcements, Receivable
  <2>2. IsBlock(b) /\ round[n] \in Nat
    BY NewBlockType DEF TypeOK
  <2>. HIDE DEF b
  <2>3. \A o \in msgs' : IsMessage(o)
    BY <2>1, <2>2, MessageTypes DEF TypeOK
  <2>4. \A p \in published' : p[1] \in Writers /\ IsBlock(p[2])
    BY <2>1, <2>2 DEF TypeOK
  <2>5. payload_queue' \in [Writers -> Seq(Payloads)]
    <3>1. payload_queue[n] \in Seq(Payloads)
      BY DEF TypeOK
    <3>2. PayloadsLeft(n, round[n]) \in Seq(Payloads)
      BY <3>1 DEF PayloadsLeft
    <3>. QED
      BY <1>6, <3>2 DEF WinRound, TypeOK
  <2>6. UNCHANGED <<submitted, resetVars>>
    BY <1>6 DEF WinRound
  <2>. QED
    BY <2>1, <2>2, <2>3, <2>4, <2>5, <2>6, StoreBlockType DEF TypeOK
<1>7. ASSUME NEW n \in Writers, AwaitBlock(n) PROVE TypeOK'
  <2>1. PICK m \in Announcements(n) :
          /\ msgs' = msgs \ {m}
          /\ pc' = [pc EXCEPT ![n] = IF Verified(n, m) THEN "block" ELSE "dead"]
          /\ winner' = [winner EXCEPT ![n] = m.winner]
    BY <1>7 DEF AwaitBlock
  <2>2. m.winner \in Writers
    BY ReceivableType DEF Announcements, IsMessage
  <2>. QED
    BY <1>7, <2>1, <2>2 DEF AwaitBlock, TypeOK
<1>8. ASSUME NEW n \in Writers, ReceiveBlock(n) PROVE TypeOK'
  <2>1. PICK m \in Receivable(n, "block") :
          /\ msgs' = msgs \ {m}
          /\ StoreBlock(n, m.block)
          /\ published' = IF Coordinator(round[n]) = n
                          THEN published
                          ELSE published \cup {<<n, m.block>>}
    BY <1>8 DEF ReceiveBlock
  <2>2. IsBlock(m.block)
    BY ReceivableType DEF IsMessage
  <2>3. \A p \in published' : p[1] \in Writers /\ IsBlock(p[2])
    BY <2>1, <2>2 DEF TypeOK
  <2>4. UNCHANGED <<clientVars, resetVars>> /\ \A o \in msgs' : IsMessage(o)
    BY <1>8, <2>1 DEF ReceiveBlock, TypeOK
  <2>. QED
    BY <2>1, <2>2, <2>3, <2>4, StoreBlockType DEF TypeOK
<1>9. ASSUME NEW n \in Writers, NEW p \in Payloads, ClientSubmit(n, p)
      PROVE  TypeOK'
  BY <1>9, SMTT(30) DEF ClientSubmit, TypeOK
<1>10. ASSUME DeleteChain PROVE TypeOK'
  BY <1>10 DEF DeleteChain, TypeOK
<1>11. ASSUME UNCHANGED vars PROVE TypeOK'
  BY <1>11 DEF vars, TypeOK
<1>. QED
  BY <1>1, <1>2, <1>3, <1>4, <1>5, <1>6, <1>7, <1>8, <1>9, <1>10, <1>11
  DEF Next, EngineStep, Terminated

\* Every reachable state of the engines is well typed, whatever the number of
\* writers, resets and rounds.
THEOREM TypeCorrectness == ASSUME TypedStart PROVE Spec => []TypeOK
<1>1. Init => TypeOK
  BY InitTypeOK
<1>. QED
  BY <1>1, NextTypeOK, PTL DEF Spec

----------------------------------------------------------------------------
(* The inductive invariant.                                                 *)

\* Equal, well-typed and well-linked databases on startup.
GoodStart ==
  TypedStart /\ EqualStart /\ \A n \in Writers : WellLinked(InitialChain[n])

LEMMA StartLenType ==
  ASSUME GoodStart
  PROVE  /\ StartLen \in Nat
         /\ \A n \in Writers : Len(InitialChain[n]) = StartLen
<1>1. WriterList[1] \in Writers
  BY WritersType
<1>. QED
  BY <1>1, ChainLen DEF GoodStart, TypedStart, EqualStart, StartLen

\* Round numbers grow with the height and determine it.
LEMMA RoundAtGrows ==
  ASSUME GoodStart, NEW a \in Nat, NEW b \in Nat, a >= StartLen, b >= StartLen
  PROVE  /\ RoundAt(a) \in Nat /\ RoundAt(a) >= StartLen
         /\ RoundAt(a) < RoundAt(b) <=> a < b
         /\ RoundAt(a) = RoundAt(b) <=> a = b
         /\ HeightOf(RoundAt(a)) = a + 1
         /\ RoundAt(a + 1) = a + 2
  BY StartLenType DEF RoundAt, HeightOf

\* A round not before a's has its block above those of a, an earlier one below.
LEMMA HeightOfBounds ==
  ASSUME GoodStart, NEW a \in Nat, a >= StartLen, NEW r \in Nat, r >= StartLen
  PROVE  /\ HeightOf(r) \in Nat \ {0}
         /\ r < RoundAt(a) => HeightOf(r) <= a
  BY StartLenType DEF RoundAt, HeightOf

LEMMA ChainFacts ==
  ASSUME TypeOK
  PROVE  \A n \in Writers :
           /\ Len(chain[n]) \in Nat
           /\ DOMAIN chain[n] = 1 .. Len(chain[n])
           /\ round[n] \in Nat
<1>. SUFFICES ASSUME NEW n \in Writers
              PROVE  /\ Len(chain[n]) \in Nat
                     /\ DOMAIN chain[n] = 1 .. Len(chain[n])
                     /\ round[n] \in Nat
  OBVIOUS
<1>1. chain[n] \in Seq(Range(chain[n]))
  BY DEF TypeOK, IsChain
<1>. QED
  BY <1>1 DEF TypeOK

LEMMA InitCore == ASSUME GoodStart, Init PROVE Core
<1>1. /\ \A n \in Writers : chain[n] = InitialChain[n] /\ round[n] = StartLen
      /\ \A n \in Writers : Len(chain[n]) = StartLen
      /\ msgs = {} /\ \A n \in Writers : pc[n] = "loop"
      /\ \A n \in Writers : reset_number[n] = 0
  BY StartLenType DEF Init
<1>2. RoundInv
  BY <1>1, StartLenType DEF RoundInv, RoundAt
<1>3. RoleInv /\ BehindInv /\ NumbersInv /\ AnsweredInv
  BY <1>1, StartLenType DEF RoleInv, BehindInv, NumbersInv, AnsweredInv
<1>4. RequestInv /\ ReplyInv /\ CommittedInv /\ WinnerInv /\ BlockInv
  BY <1>1, StartLenType
  DEF RequestInv, ReplyInv, CommittedInv, WinnerInv, BlockInv, MsgsOf
<1>5. SameBlocks /\ LinkInv
  BY <1>1 DEF SameBlocks, LinkInv, GoodStart, EqualStart
<1>. QED
  BY <1>2, <1>3, <1>4, <1>5 DEF Core

\* The first steps of an engine's loop and of its round.
LEMMA StartWriterCore ==
  ASSUME TypeOK, Core, resetNumber = 0, NEW n \in Writers, StartWriter(n)
  PROVE  Core'
<1>1. /\ pc[n] = "loop" /\ Coordinator(round[n]) # n
      /\ pc' = [pc EXCEPT ![n] = "request"]
      /\ UNCHANGED <<round, numbers, winner, msgs>>
  BY DEF StartWriter
<1>2. UNCHANGED <<chain, reset_number>>
  BY DEF StartWriter, PollReset, Core, RoundInv, TypeOK
<1>3. \A x \in Writers : pc'[x] = IF x = n THEN "request" ELSE pc[x]
  BY <1>1 DEF TypeOK
<1>. USE DEF MsgsOf, Engaged
<1>4. RoundInv'
  BY <1>1, <1>2 DEF Core, RoundInv
<1>5. RoleInv' /\ BehindInv'
  BY <1>1, <1>2, <1>3 DEF Core, RoleInv, BehindInv
<1>6. RequestInv' /\ ReplyInv' /\ NumbersInv' 
  BY <1>1, <1>3 DEF Core, RequestInv, ReplyInv, NumbersInv
<1>7. AnsweredInv' 
  BY <1>1, <1>3 DEF Core, AnsweredInv
<1>8. CommittedInv'
  BY <1>1, <1>3 DEF Core, CommittedInv, Committed
<1>9. WinnerInv' 
  BY <1>1, <1>3 DEF Core, WinnerInv
<1>10. BlockInv' /\ SameBlocks' /\ LinkInv'
  BY <1>1, <1>2 DEF Core, BlockInv, SameBlocks, LinkInv
<1>. QED
  BY <1>4, <1>5, <1>6, <1>7, <1>8, <1>9, <1>10 DEF Core

LEMMA StartCoordinatorCore ==
  ASSUME TypeOK, Core, resetNumber = 0, GoodStart,
         NEW n \in Writers, StartCoordinator(n)
  PROVE  Core'
<1>1. /\ pc[n] = "loop" /\ Coordinator(round[n]) = n
      /\ pc' = [pc EXCEPT ![n] = "replies"]
      /\ numbers' = [numbers EXCEPT ![n] = <<>>]
      /\ msgs' = msgs \cup {Request(round[n], n, w) : w \in Others(n)}
      /\ UNCHANGED <<round, winner>>
  BY DEF StartCoordinator
<1>2. UNCHANGED <<chain, reset_number>>
  BY DEF StartCoordinator, PollReset, Core, RoundInv, TypeOK
<1>3. /\ \A x \in Writers : pc'[x] = IF x = n THEN "replies" ELSE pc[x]
      /\ \A x \in Writers : numbers'[x] = IF x = n THEN <<>> ELSE numbers[x]
  BY <1>1 DEF TypeOK
<1>4. /\ \A x \in Writers : round[x] \in Nat
      /\ \A m \in msgs : IsMessage(m)
  BY DEF TypeOK
<1>5. /\ MsgsOf("reply")' = MsgsOf("reply")
      /\ MsgsOf("announce")' = MsgsOf("announce")
      /\ MsgsOf("block")' = MsgsOf("block")
  BY <1>1 DEF MsgsOf, Request
<1>6. RoundInv'
  <2>1. round[n] >= StartLen
    BY ChainFacts, RoundAtGrows DEF Core, RoundInv
  <2>2. \A m \in msgs' : m \in msgs \/ m.round = round[n]
    BY <1>1 DEF Request
  <2>. QED
    BY <1>1, <1>2, <2>1, <2>2 DEF Core, RoundInv
<1>7. RoleInv' /\ BehindInv'
  BY <1>1, <1>2, <1>3 DEF Core, RoleInv, BehindInv, Engaged
<1>8. \* Nobody is past the coordinator, nor engaged in its round.
      \A x \in Writers :
        /\ round[x] <= round[n]
        /\ x # n /\ round[x] = round[n] => pc[x] \in {"loop", "request"}
  <2>1. \A x \in Writers : round[x] <= round[n]
    BY <1>1, <1>4 DEF Core, BehindInv, Engaged
  <2>2. ASSUME NEW x \in Writers, x # n, round[x] = round[n]
        PROVE  pc[x] \in {"loop", "request"}
    <3>1. pc[x] # "replies"
      BY <1>1, <2>2 DEF Core, RoleInv
    <3>2. pc[x] # "block"
      BY <1>1, <2>2 DEF Core, CommittedInv, Committed, Engaged
    <3>3. pc[x] \notin {"announce", "dead"}
      BY <1>1, <1>4, <2>2 DEF Core, AnsweredInv
    <3>. QED
      BY <3>1, <3>2, <3>3 DEF TypeOK
  <2>. QED
    BY <2>1, <2>2
<1>9. RequestInv'
  <2>. SUFFICES ASSUME NEW m \in MsgsOf("request")'
                PROVE  /\ m.from = Coordinator(m.round)
                       /\ pc'[m.from] = "replies"
                       /\ round[m.from] = m.round
                       /\ round[m.to] <= m.round
                       /\ round[m.to] = m.round =>
                            pc'[m.to] \in {"loop", "request"}
                       /\ m.to \notin Ids(numbers'[m.from])
                       /\ \A o \in MsgsOf("reply") :
                            ~(o.from = m.to /\ o.to = m.from)
    BY <1>1, <1>5 DEF RequestInv, Ids
  <2>1. CASE m \in MsgsOf("request")
    <3>1. m.from # n
      BY <1>1, <2>1 DEF Core, RequestInv
    <3>2. m.to = n => round[m.to] # m.round
      BY <1>1, <2>1, <3>1 DEF Core, RequestInv
    <3>3. m.from \in Writers /\ m.to \in Writers
      BY <1>4, <2>1 DEF MsgsOf, IsMessage, Others
    <3>. QED
      BY <1>3, <2>1, <3>1, <3>2, <3>3 DEF Core, RequestInv
  <2>2. CASE m \in {Request(round[n], n, w) : w \in Others(n)}
    <3>1. PICK w \in Others(n) : m = Request(round[n], n, w)
      BY <2>2
    <3>2. m.round = round[n] /\ m.from = n /\ m.to = w /\ w \in Writers /\ w # n
      BY <3>1 DEF Request, Others
    <3>3. w \notin Ids(numbers'[n])
      BY <1>3 DEF Ids
    <3>4. \A o \in MsgsOf("reply") : ~(o.from = w /\ o.to = n)
      BY <1>1 DEF Core, ReplyInv
    <3>. QED
      BY <1>1, <1>3, <1>8, <3>2, <3>3, <3>4
  <2>. QED
    BY <1>1, <2>1, <2>2 DEF MsgsOf
<1>10. ReplyInv' /\ NumbersInv'
  <2>1. \A m \in MsgsOf("reply") : m.to # n /\ m.from # n
    BY <1>1 DEF Core, ReplyInv
  <2>2. \A m \in MsgsOf("reply") : m.to \in Writers /\ m.from \in Writers
    BY <1>4 DEF MsgsOf, IsMessage, Others
  <2>3. ReplyInv'
    BY <1>1, <1>3, <1>5, <2>1, <2>2 DEF Core, ReplyInv
  <2>4. NumbersInv'
    BY <1>1, <1>3 DEF Core, NumbersInv, Ids
  <2>. QED
    BY <2>3, <2>4
<1>11. AnsweredInv'
  BY <1>1, <1>3, CoordinatorType, <1>4 DEF Core, AnsweredInv
<1>12. CommittedInv'
  BY <1>1, <1>3, <1>5 DEF Core, CommittedInv, Committed, Engaged
<1>13. WinnerInv'
  BY <1>1, <1>3, <1>5 DEF Core, WinnerInv
<1>14. BlockInv' /\ SameBlocks' /\ LinkInv'
  BY <1>1, <1>2, <1>5 DEF Core, BlockInv, SameBlocks, LinkInv
<1>. QED
  BY <1>6, <1>7, <1>9, <1>10, <1>11, <1>12, <1>13, <1>14 DEF Core

LEMMA AnswerRequestCore ==
  ASSUME TypeOK, Core, resetNumber = 0, GoodStart,
         NEW n \in Writers, AnswerRequest(n)
  PROVE  Core'
<1>1. PICK m \in Receivable(n, "request"), x \in Pads :
        /\ m.from = Coordinator(round[n])
        /\ msgs' = (msgs \ {m}) \cup {Reply(round[n], n, m.from, x)}
  BY DEF AnswerRequest
<1>2. /\ pc[n] = "request"
      /\ pc' = [pc EXCEPT ![n] = "announce"]
      /\ UNCHANGED <<round, numbers, winner, chain, reset_number>>
  BY DEF AnswerRequest, resetVars
<1>3. \A y \in Writers : pc'[y] = IF y = n THEN "announce" ELSE pc[y]
  BY <1>2 DEF TypeOK
<1>4. /\ \A y \in Writers : round[y] \in Nat
      /\ \A o \in msgs : IsMessage(o)
  BY DEF TypeOK
<1>. DEFINE c == m.from
            r == round[n]
            reply == Reply(r, n, c, x)
<1>5. /\ m \in MsgsOf("request") /\ m.to = n
      /\ c \in Writers /\ c # n
      /\ r \in Nat
  BY <1>4 DEF Receivable, MsgsOf, IsMessage, Others
<1>6. \* The request is for the round n is in: in round 0 too, since a
      \* coordinator that were ahead would find n engaged.
      /\ m.round = r /\ pc[c] = "replies" /\ round[c] = r
      /\ n \notin Ids(numbers[c])
      /\ \A o \in MsgsOf("reply") : ~(o.from = n /\ o.to = c)
  <2>1. /\ pc[c] = "replies" /\ round[c] = m.round /\ r <= m.round
        /\ n \notin Ids(numbers[c])
        /\ \A o \in MsgsOf("reply") : ~(o.from = n /\ o.to = c)
    BY <1>5 DEF Core, RequestInv
  <2>2. ~(r < round[c])
    BY <1>2, <1>5 DEF Core, BehindInv, Engaged
  <2>. QED
    BY <1>4, <1>5, <2>1, <2>2
<1>7. /\ MsgsOf("request")' = MsgsOf("request") \ {m}
      /\ MsgsOf("reply")' = MsgsOf("reply") \cup {reply}
      /\ MsgsOf("announce")' = MsgsOf("announce")
      /\ MsgsOf("block")' = MsgsOf("block")
      /\ reply.from = n /\ reply.to = c /\ reply.round = r
      /\ reply.type = "reply"
  BY <1>1, <1>5 DEF MsgsOf, Reply
<1>. HIDE DEF reply, c, r
<1>8. RoundInv'
  <2>1. r >= StartLen
    BY ChainFacts, RoundAtGrows DEF Core, RoundInv, r
  <2>2. \A o \in msgs' : o \in msgs \/ o.round = r
    BY <1>1, <1>7 DEF reply, c, r
  <2>. QED
    BY <1>2, <2>1, <2>2 DEF Core, RoundInv
<1>9. RoleInv' /\ BehindInv'
  BY <1>2, <1>3 DEF Core, RoleInv, BehindInv, Engaged
<1>10. RequestInv'
  <2>. SUFFICES ASSUME NEW o \in MsgsOf("request"), o # m
                PROVE  /\ o.from = Coordinator(o.round)
                       /\ pc'[o.from] = "replies"
                       /\ round[o.from] = o.round
                       /\ round[o.to] <= o.round
                       /\ round[o.to] = o.round =>
                            pc'[o.to] \in {"loop", "request"}
                       /\ o.to \notin Ids(numbers[o.from])
                       /\ \A q \in MsgsOf("reply") \cup {reply} :
                            ~(q.from = o.to /\ q.to = o.from)
    BY <1>2, <1>7, SMTT(30) DEF RequestInv, Ids
  <2>1. o.from \in Writers /\ o.to \in Writers /\ o.type = "request"
        /\ o = Request(o.round, o.from, o.to)
    BY <1>4 DEF MsgsOf, IsMessage, Others, Reply, Announce, BlockMsg, Request
  <2>2. m = Request(m.round, m.from, m.to)
    BY <1>4, <1>5 DEF MsgsOf, IsMessage, Reply, Announce, BlockMsg, Request
  <2>3. o.from # n
    BY <1>2 DEF Core, RequestInv
  <2>4. ~(o.to = n /\ o.round = r)
    <3>. SUFFICES ASSUME o.to = n, o.round = r PROVE FALSE
      OBVIOUS
    <3>1. o.from = c
      BY <1>1 DEF Core, RequestInv, c, r
    <3>. QED
      BY <1>5, <1>6, <2>1, <2>2, <3>1 DEF c, r
  <2>5. ~(o.to = n /\ o.from = c)
    BY <1>6, <2>4 DEF Core, RequestInv
  <2>. QED
    BY <1>3, <1>7, <2>1, <2>3, <2>4, <2>5 DEF Core, RequestInv, r
<1>11. ReplyInv'
  <2>1. ASSUME NEW o \in MsgsOf("reply")
        PROVE  /\ pc'[o.to] = "replies" /\ round'[o.to] = o.round
               /\ pc'[o.from] = "announce" /\ round'[o.from] = o.round
               /\ o.from \notin Ids(numbers'[o.to])
    <3>1. o.to \in Writers /\ o.from \in Writers /\ o.to # n /\ o.from # n
      BY <1>2, <1>4, <2>1 DEF Core, ReplyInv, MsgsOf, IsMessage, Others
    <3>. QED
      BY <1>2, <1>3, <2>1, <3>1 DEF Core, ReplyInv
  <2>2. /\ pc'[reply.to] = "replies" /\ round'[reply.to] = reply.round
        /\ pc'[reply.from] = "announce" /\ round'[reply.from] = reply.round
        /\ reply.from \notin Ids(numbers'[reply.to])
    BY <1>2, <1>3, <1>5, <1>6, <1>7 DEF r
  <2>3. \A o, q \in MsgsOf("reply") \cup {reply} :
          q.from = o.from /\ q.to = o.to => q = o
    BY <1>6, <1>7 DEF Core, ReplyInv
  <2>. QED
    BY <1>7, <2>1, <2>2, <2>3 DEF ReplyInv, Ids
<1>12. NumbersInv'
  BY <1>2, <1>3 DEF Core, NumbersInv, Ids
<1>13. AnsweredInv'
  BY <1>1, <1>2, <1>3, <1>4, <1>5, <1>6 DEF Core, AnsweredInv, c, r
<1>14. CommittedInv'
  BY <1>2, <1>3, <1>7 DEF Core, CommittedInv, Committed, Engaged
<1>15. WinnerInv'
  BY <1>2, <1>3, <1>7 DEF Core, WinnerInv
<1>16. BlockInv' /\ SameBlocks' /\ LinkInv'
  BY <1>2, <1>7 DEF Core, BlockInv, SameBlocks, LinkInv
<1>. QED
  BY <1>8, <1>9, <1>10, <1>11, <1>12, <1>13, <1>14, <1>15, <1>16 DEF Core

LEMMA CollectReplyCore ==
  ASSUME TypeOK, Core, resetNumber = 0, NEW n \in Writers, CollectReply(n)
  PROVE  Core'
<1>1. PICK m \in Receivable(n, "reply") :
        /\ numbers' = [numbers EXCEPT ![n] = Append(@, <<m.from, m.number>>)]
        /\ msgs' = msgs \ {m}
  BY DEF CollectReply
<1>2. /\ pc[n] = "replies"
      /\ UNCHANGED <<pc, round, winner, chain, reset_number>>
  BY DEF CollectReply, resetVars
<1>3. /\ m \in MsgsOf("reply") /\ m.to = n /\ m.from \in Writers /\ m.from # n
      /\ m.number \in Pads /\ \A o \in msgs : IsMessage(o)
  BY ReceivableType DEF Receivable, MsgsOf, IsMessage, Others, TypeOK
<1>4. /\ \A y \in Writers : y # n => numbers'[y] = numbers[y]
      /\ Len(numbers'[n]) = Len(numbers[n]) + 1
      /\ \A i \in DOMAIN numbers'[n] :
           \/ i \in DOMAIN numbers[n] /\ numbers'[n][i] = numbers[n][i]
           \/ i = Len(numbers[n]) + 1 /\ numbers'[n][i][1] = m.from
  <2>. DEFINE s == numbers[n]
              e == <<m.from, m.number>>
  <2>1. s \in Seq(Writers \X Pads) /\ e \in Writers \X Pads
    BY <1>3 DEF TypeOK
  <2>2. numbers'[n] = Append(s, e)
    BY <1>1 DEF TypeOK
  <2>3. \A y \in Writers : y # n => numbers'[y] = numbers[y]
    BY <1>1 DEF TypeOK
  <2>4. e[1] = m.from
    OBVIOUS
  <2>. HIDE DEF s, e
  <2>5. /\ Len(Append(s, e)) = Len(s) + 1
        /\ \A i \in DOMAIN Append(s, e) :
             \/ i \in DOMAIN s /\ Append(s, e)[i] = s[i]
             \/ i = Len(s) + 1 /\ Append(s, e)[i] = e
    BY <2>1
  <2>. QED
    BY <2>2, <2>3, <2>4, <2>5 DEF s
<1>5. Ids(numbers'[n]) \subseteq Ids(numbers[n]) \cup {m.from}
  BY <1>4 DEF Ids
<1>6. /\ MsgsOf("request")' = MsgsOf("request")
      /\ MsgsOf("reply")' = MsgsOf("reply") \ {m}
      /\ MsgsOf("announce")' = MsgsOf("announce")
      /\ MsgsOf("block")' = MsgsOf("block")
  BY <1>1, <1>3 DEF MsgsOf
<1>7. RoundInv'
  BY <1>1, <1>2 DEF Core, RoundInv
<1>8. RoleInv' /\ BehindInv' /\ AnsweredInv'
  BY <1>2 DEF Core, RoleInv, BehindInv, AnsweredInv
<1>9. RequestInv'
  <2>1. \A o \in MsgsOf("request") : o.from \in Writers
    BY <1>3 DEF MsgsOf, IsMessage
  <2>2. \A o \in MsgsOf("request") : o.to \notin Ids(numbers'[o.from])
    BY <1>3, <1>4, <1>5, <2>1 DEF Core, RequestInv
  <2>. QED
    BY <1>2, <1>6, <2>2 DEF Core, RequestInv, Ids
<1>10. ReplyInv'
  <2>1. \A o \in MsgsOf("reply") : o.to \in Writers
    BY <1>3 DEF MsgsOf, IsMessage, Others
  <2>2. \A o \in MsgsOf("reply") \ {m} : o.from \notin Ids(numbers'[o.to])
    BY <1>3, <1>4, <1>5, <2>1 DEF Core, ReplyInv
  <2>. QED
    BY <1>2, <1>6, <2>2 DEF Core, ReplyInv, Ids
<1>11. NumbersInv'
  <2>1. \A i \in DOMAIN numbers[n] : numbers[n][i][1] # m.from
    BY <1>3 DEF Core, ReplyInv, Ids
  <2>2. \A i, j \in DOMAIN numbers'[n] :
          numbers'[n][i][1] = numbers'[n][j][1] => i = j
    BY <1>2, <1>4, <2>1 DEF Core, NumbersInv
  <2>3. \A o \in Ids(numbers'[n]) :
          o # n /\ round[o] = round[n] /\ pc[o] = "announce"
    BY <1>2, <1>3, <1>5 DEF Core, NumbersInv, ReplyInv
  <2>. QED
    BY <1>2, <1>4, <2>2, <2>3 DEF Core, NumbersInv, Ids
<1>12. CommittedInv' /\ WinnerInv'
  BY <1>2, <1>6 DEF Core, CommittedInv, Committed, WinnerInv
<1>13. BlockInv' /\ SameBlocks' /\ LinkInv'
  BY <1>2, <1>6 DEF Core, BlockInv, SameBlocks, LinkInv
<1>. QED
  BY <1>7, <1>8, <1>9, <1>10, <1>11, <1>12, <1>13 DEF Core

\* The writers are as many as the list is long.
LEMMA WritersCount ==
  /\ IsFiniteSet(Writers)
  /\ Cardinality(Writers) = NumWriters
<1>. DEFINE D == 1 .. NumWriters
<1>1. NumWriters \in Nat /\ WriterList \in [D -> Writers]
  BY WritersType
<1>2. \A i, j \in D : WriterList[i] = WriterList[j] => i = j
  <2>1. \A i \in D : WriterList[i] \in Nat
    BY WritersType
  <2>. QED
    BY <1>1, <2>1
<1>3. \A w \in Writers : \E i \in D : WriterList[i] = w
  BY <1>1 DEF Writers, Range
<1>4. WriterList \in Injection(D, Writers) /\ WriterList \in Surjection(D, Writers)
  BY <1>1, <1>2, <1>3 DEF Injection, IsInjective, Surjection
<1>5. IsFiniteSet(D) /\ Cardinality(D) = NumWriters
  BY <1>1, FS_Interval
<1>. HIDE DEF D
<1>. QED
  BY <1>4, <1>5, FS_Surjection

\* Enough replies of different writers are the replies of all the others.
LEMMA AllReplied ==
  ASSUME NEW n \in Writers, NEW s \in Seq(Writers \X Pads),
         \A i, j \in DOMAIN s : s[i][1] = s[j][1] => i = j,
         n \notin Ids(s), Len(s) >= RepliesNeeded
  PROVE  Writers \ {n} \subseteq Ids(s)
<1>. DEFINE D == 1 .. Len(s)
            T == Writers \ {n}
            f == [i \in D |-> s[i][1]]
<1>1. Len(s) \in Nat /\ DOMAIN s = D
  OBVIOUS
<1>2. f \in Injection(D, T)
  <2>1. \A i \in D : s[i][1] \in T
    BY <1>1 DEF Ids
  <2>. QED
    BY <1>1, <2>1 DEF Injection, IsInjective
<1>3. IsFiniteSet(T) /\ Cardinality(T) = NumWriters - 1
  BY WritersCount, FS_RemoveElement
<1>4. Cardinality(D) = Len(s)
  <2>. DEFINE k == Len(s)
  <2>1. k \in Nat
    BY <1>1
  <2>. HIDE DEF k
  <2>2. Cardinality(1 .. k) = k
    BY <2>1, FS_Interval
  <2>. QED
    BY <2>2 DEF k
<1>5. \A i \in D : f[i] = s[i][1]
  OBVIOUS
<1>. HIDE DEF D, T, f
<1>6. f \in Surjection(D, T)
  <2>1. Cardinality(D) <= Cardinality(T)
        /\ (Cardinality(D) = Cardinality(T) <=> f \in Surjection(D, T))
    BY <1>2, <1>3, FS_Injection
  <2>2. Cardinality(D) = Cardinality(T)
    BY <1>1, <1>3, <1>4, <2>1, WritersType DEF RepliesNeeded
  <2>. QED
    BY <2>1, <2>2
<1>7. \A w \in T : \E i \in D : f[i] = w
  BY <1>6 DEF Surjection
<1>. QED
  BY <1>1, <1>5, <1>7 DEF Ids, T

LEMMA AnnounceWinnerCore ==
  ASSUME TypeOK, Core, resetNumber = 0, GoodStart,
         NEW n \in Writers, AnnounceWinner(n)
  PROVE  Core'
<1>1. PICK p \in Pads, w \in Writers :
        /\ msgs' = msgs \cup {Announce(round[n], n, o, numbers[n], p, w) :
                                o \in Others(n)}
        /\ winner' = [winner EXCEPT ![n] = w]
  BY DEF AnnounceWinner
<1>2. /\ pc[n] = "replies" /\ Len(numbers[n]) >= RepliesNeeded
      /\ pc' = [pc EXCEPT ![n] = "block"]
      /\ numbers' = [numbers EXCEPT ![n] = <<>>]
      /\ UNCHANGED <<round, chain, reset_number>>
  BY DEF AnnounceWinner, resetVars
<1>. DEFINE r == round[n]
            new == {Announce(r, n, o, numbers[n], p, w) : o \in Others(n)}
<1>3. /\ \A x \in Writers : pc'[x] = IF x = n THEN "block" ELSE pc[x]
      /\ \A x \in Writers : winner'[x] = IF x = n THEN w ELSE winner[x]
      /\ \A x \in Writers : x # n => numbers'[x] = numbers[x]
      /\ \A x \in Writers : round[x] \in Nat
      /\ \A m \in msgs : IsMessage(m)
      /\ r \in Nat
  BY <1>1, <1>2 DEF TypeOK
<1>4. \A m \in new : /\ m.type = "announce" /\ m.round = r /\ m.from = n
                     /\ m.winner = w
  BY DEF Announce
<1>5. /\ MsgsOf("request")' = MsgsOf("request")
      /\ MsgsOf("reply")' = MsgsOf("reply")
      /\ MsgsOf("announce")' = MsgsOf("announce") \cup new
      /\ MsgsOf("block")' = MsgsOf("block")
  BY <1>1, <1>4 DEF MsgsOf
<1>6. \* Everybody else has replied and waits for the announcement.
      \A x \in Writers \ {n} : round[x] = r /\ pc[x] = "announce"
  <2>1. numbers[n] \in Seq(Writers \X Pads)
    BY DEF TypeOK
  <2>2. /\ \A i, j \in DOMAIN numbers[n] :
             numbers[n][i][1] = numbers[n][j][1] => i = j
        /\ \A o \in Ids(numbers[n]) :
             o # n /\ round[o] = round[n] /\ pc[o] = "announce"
    BY <1>2 DEF Core, NumbersInv
  <2>3. Writers \ {n} \subseteq Ids(numbers[n])
    BY <1>2, <2>1, <2>2, AllReplied
  <2>. QED
    BY <2>2, <2>3
<1>. HIDE DEF new
<1>7. Committed(r)'
  BY <1>2, <1>3, <1>6 DEF Committed, Engaged
<1>8. MsgsOf("request") = {} /\ MsgsOf("reply") = {}
  <2>1. \A m \in MsgsOf("request") : FALSE
    <3>. SUFFICES ASSUME NEW m \in MsgsOf("request") PROVE FALSE
      OBVIOUS
    <3>1. m.from \in Writers /\ m.to \in Writers /\ m.to # m.from
      BY <1>3 DEF MsgsOf, IsMessage, Others
    <3>2. m.from = n
      BY <1>6, <3>1 DEF Core, RequestInv
    <3>. QED
      BY <1>6, <3>1, <3>2 DEF Core, RequestInv
  <2>2. \A m \in MsgsOf("reply") : FALSE
    <3>. SUFFICES ASSUME NEW m \in MsgsOf("reply") PROVE FALSE
      OBVIOUS
    <3>1. m.from \in Writers /\ m.to \in Writers /\ m.to # m.from
      BY <1>3 DEF MsgsOf, IsMessage, Others
    <3>2. m.to = n
      BY <1>6, <3>1 DEF Core, ReplyInv
    <3>3. m.from \in Ids(numbers[n])
      <4>1. numbers[n] \in Seq(Writers \X Pads)
        BY DEF TypeOK
      <4>2. /\ \A i, j \in DOMAIN numbers[n] :
                 numbers[n][i][1] = numbers[n][j][1] => i = j
            /\ n \notin Ids(numbers[n])
        BY <1>2 DEF Core, NumbersInv
      <4>. QED
        BY <1>2, <3>1, <3>2, <4>1, <4>2, AllReplied
    <3>. QED
      BY <3>2, <3>3 DEF Core, ReplyInv
  <2>. QED
    BY <2>1, <2>2
<1>9. RoundInv'
  <2>1. r >= StartLen
    BY ChainFacts, RoundAtGrows DEF Core, RoundInv
  <2>2. \A m \in msgs' : m \in msgs \/ m.round = r
    BY <1>1, <1>4 DEF new
  <2>. QED
    BY <1>2, <2>1, <2>2 DEF Core, RoundInv
<1>10. RoleInv' /\ BehindInv'
  BY <1>2, <1>3 DEF Core, RoleInv, BehindInv, Engaged
<1>11. RequestInv' /\ ReplyInv'
  BY <1>5, <1>8 DEF RequestInv, ReplyInv
<1>12. NumbersInv'
  BY <1>2, <1>3, <1>6 DEF Core, NumbersInv
<1>13. AnsweredInv'
  BY <1>2, <1>3, CoordinatorType DEF Core, AnsweredInv
<1>14. CommittedInv'
  <2>1. \A x \in Writers : Committed(round[x]) => Committed(round[x])'
    BY <1>2, <1>3 DEF Committed, Engaged
  <2>2. \A k : Committed(k) => Committed(k)'
    BY <1>2, <1>3 DEF Committed, Engaged
  <2>. QED
    BY <1>2, <1>3, <1>4, <1>5, <1>7, <2>1, <2>2 DEF Core, CommittedInv, r
<1>15. WinnerInv'
  <2>1. \A m \in MsgsOf("announce") : m.round # r
    BY <1>2 DEF Core, CommittedInv, Committed, Engaged
  <2>2. \A x \in Writers : pc[x] = "block" => round[x] # r
    BY <1>2, <1>6
  <2>3. \A x \in Writers : round[x] = r
    BY <1>6
  <2>4. \A m, o \in MsgsOf("announce") \cup new :
          m.round = o.round => m.winner = o.winner
    BY <1>4, <2>1 DEF Core, WinnerInv
  <2>5. \A m \in MsgsOf("announce") \cup new, x \in Writers :
          /\ pc'[x] = "block" /\ round[x] = m.round => winner'[x] = m.winner
          /\ round[x] > m.round => round[m.winner] > m.round
    BY <1>3, <1>4, <2>1, <2>2, <2>3 DEF Core, WinnerInv
  <2>6. \A x, y \in Writers :
          pc'[x] = "block" /\ round[y] > round[x] =>
            round[winner'[x]] > round[x]
    BY <1>3, <2>3
  <2>7. \A x \in Writers : pc'[x] = "block" => winner'[x] \in Writers
    BY <1>3 DEF Core, WinnerInv
  <2>. QED
    BY <1>2, <1>5, <2>4, <2>5, <2>6, <2>7 DEF WinnerInv
<1>16. BlockInv' /\ SameBlocks' /\ LinkInv'
  BY <1>2, <1>5 DEF Core, BlockInv, SameBlocks, LinkInv
<1>. QED
  BY <1>9, <1>10, <1>11, <1>12, <1>13, <1>14, <1>15, <1>16 DEF Core

LEMMA IdsType ==
  ASSUME TypeOK, NEW n \in Writers
  PROVE  Ids(numbers[n]) \subseteq Writers
<1>1. numbers[n] \in Seq(Writers \X Pads)
  BY DEF TypeOK
<1>. QED
  BY <1>1 DEF Ids

\* An announcement or a block that an engine takes is for the round it is in,
\* also in round 0, and everybody is engaged in that round.
LEMMA TakenInTime ==
  ASSUME TypeOK, Core, NEW n \in Writers, NEW type \in {"announce", "block"},
         NEW m \in Receivable(n, type)
  PROVE  m.round = round[n] /\ Committed(round[n]) /\ m \in MsgsOf(type)
<1>1. /\ IsMessage(m) /\ m \in msgs /\ m.type = type /\ m.to = n
      /\ round[n] # 0 => m.round = round[n]
  BY ReceivableType DEF Receivable
<1>2. Committed(m.round)
  BY <1>1 DEF Core, CommittedInv, MsgsOf
<1>3. m.round \in Nat /\ round[n] \in Nat
  BY <1>1 DEF IsMessage, TypeOK
<1>. QED
  BY <1>1, <1>2, <1>3 DEF Committed, MsgsOf

LEMMA AwaitBlockCore ==
  ASSUME TypeOK, Core, resetNumber = 0, NEW n \in Writers, AwaitBlock(n)
  PROVE  Core'
<1>1. PICK m \in Announcements(n) :
        /\ msgs' = msgs \ {m}
        /\ pc' = [pc EXCEPT ![n] = IF Verified(n, m) THEN "block" ELSE "dead"]
        /\ winner' = [winner EXCEPT ![n] = m.winner]
  BY DEF AwaitBlock
<1>2. /\ pc[n] = "announce"
      /\ UNCHANGED <<round, numbers, chain, reset_number>>
  BY DEF AwaitBlock, resetVars
<1>. DEFINE r == round[n]
<1>3. /\ m \in MsgsOf("announce") /\ m.round = r /\ Committed(r)
      /\ m.winner \in Writers
  <2>1. m \in Receivable(n, "announce")
    BY DEF Announcements
  <2>2. m.winner \in Writers
    BY <2>1, ReceivableType DEF IsMessage
  <2>. QED
    BY <2>1, <2>2, TakenInTime
<1>4. /\ pc'[n] \in {"block", "dead"}
      /\ \A x \in Writers : x # n => pc'[x] = pc[x]
      /\ winner'[n] = m.winner
      /\ \A x \in Writers : x # n => winner'[x] = winner[x]
      /\ \A x \in Writers : round[x] \in Nat
      /\ \A o \in msgs : IsMessage(o)
  BY <1>1 DEF TypeOK
<1>5. /\ MsgsOf("request")' = MsgsOf("request")
      /\ MsgsOf("reply")' = MsgsOf("reply")
      /\ MsgsOf("announce")' = MsgsOf("announce") \ {m}
      /\ MsgsOf("block")' = MsgsOf("block")
  BY <1>1, <1>3 DEF MsgsOf
<1>6. RoundInv'
  BY <1>1, <1>2 DEF Core, RoundInv
<1>7. RoleInv' /\ BehindInv'
  BY <1>2, <1>4 DEF Core, RoleInv, BehindInv, Engaged
<1>8. \* No reply of n is on its way or collected: its coordinator is past that.
      \A x \in Writers : pc[x] = "replies" => round[x] # r
  BY <1>3 DEF Committed, Engaged
<1>9. RequestInv'
  <2>1. \A o \in MsgsOf("request") : o.from \in Writers /\ o.to \in Writers
    BY <1>4 DEF MsgsOf, IsMessage, Others
  <2>2. \A o \in MsgsOf("request") : o.from # n
    BY <1>2 DEF Core, RequestInv
  <2>3. \A o \in MsgsOf("request") : o.to = n => o.round # r
    BY <1>2 DEF Core, RequestInv
  <2>. QED
    BY <1>2, <1>4, <1>5, <2>1, <2>2, <2>3 DEF Core, RequestInv
<1>10. ReplyInv'
  <2>1. \A o \in MsgsOf("reply") : o.to \in Writers /\ o.from \in Writers
    BY <1>4 DEF MsgsOf, IsMessage, Others
  <2>2. \A o \in MsgsOf("reply") : o.to # n /\ o.from # n
    BY <1>2, <1>8, <2>1 DEF Core, ReplyInv
  <2>. QED
    BY <1>2, <1>4, <1>5, <2>1, <2>2 DEF Core, ReplyInv
<1>11. NumbersInv'
  <2>1. \A x \in Writers : pc[x] = "replies" => n \notin Ids(numbers[x])
    BY <1>8 DEF Core, NumbersInv
  <2>2. \A x \in Writers : pc'[x] = "replies" => pc[x] = "replies"
    BY <1>2, <1>4
  <2>3. \A x \in Writers : \A o \in Ids(numbers[x]) :
          pc[x] = "replies" => pc'[o] = "announce"
    <3>1. \A x \in Writers : Ids(numbers[x]) \subseteq Writers
      BY IdsType
    <3>. QED
      BY <1>4, <2>1, <3>1 DEF Core, NumbersInv
  <2>. QED
    BY <1>2, <2>2, <2>3 DEF Core, NumbersInv, Ids
<1>12. AnsweredInv'
  <2>1. Coordinator(r) # n
    BY <1>2 DEF Core, RoleInv
  <2>2. \A x \in Writers : Coordinator(round[x]) \in Writers
    BY <1>4, CoordinatorType
  <2>. QED
    BY <1>2, <1>4, <2>1, <2>2 DEF Core, AnsweredInv
<1>13. CommittedInv'
  <2>1. \A k : Committed(k) => Committed(k)'
    BY <1>2, <1>4 DEF Committed, Engaged
  <2>. QED
    BY <1>2, <1>3, <1>4, <1>5, <2>1 DEF Core, CommittedInv
<1>14. WinnerInv'
  <2>1. \A o, q \in MsgsOf("announce")' :
          o.round = q.round => o.winner = q.winner
    BY <1>5 DEF Core, WinnerInv
  <2>2. \A o \in MsgsOf("announce")', x \in Writers :
          pc'[x] = "block" /\ round'[x] = o.round => winner'[x] = o.winner
    BY <1>2, <1>3, <1>4, <1>5 DEF Core, WinnerInv
  <2>3. \A o \in MsgsOf("announce")', x \in Writers :
          round'[x] > o.round => round'[o.winner] > o.round
    BY <1>2, <1>5 DEF Core, WinnerInv
  <2>4. \A x, y \in Writers :
          pc'[x] = "block" /\ round'[y] > round'[x] =>
            round'[winner'[x]] > round'[x]
    <3>1. \A y \in Writers : round[y] > r => round[m.winner] > r
      BY <1>3 DEF Core, WinnerInv
    <3>. QED
      BY <1>2, <1>4, <3>1 DEF Core, WinnerInv
  <2>5. \A x \in Writers : pc'[x] = "block" => winner'[x] \in Writers
    BY <1>3, <1>4 DEF Core, WinnerInv
  <2>. QED
    BY <2>1, <2>2, <2>3, <2>4, <2>5 DEF WinnerInv
<1>15. BlockInv' /\ SameBlocks' /\ LinkInv'
  BY <1>2, <1>5 DEF Core, BlockInv, SameBlocks, LinkInv
<1>. QED
  BY <1>6, <1>7, <1>9, <1>10, <1>11, <1>12, <1>13, <1>14, <1>15 DEF Core

\* What storing a block does to the variables of the engines.
LEMMA StoreBlockFacts ==
  ASSUME TypeOK, Core, GoodStart,
         NEW n \in Writers, NEW b, IsBlock(b), StoreBlock(n, b)
  PROVE  /\ Len(chain[n]) \in Nat /\ Len(chain[n]) >= StartLen
         /\ Len(chain'[n]) = Len(chain[n]) + 1
         /\ \A i \in 1 .. Len(chain[n]) : chain'[n][i] = chain[n][i]
         /\ chain'[n][Len(chain[n]) + 1] = b
         /\ HeightOf(round[n]) = Len(chain[n]) + 1
         /\ round'[n] = RoundAt(Len(chain'[n]))
         /\ round[n] \in Nat /\ round'[n] \in Nat /\ round'[n] > round[n]
         /\ pc'[n] = "loop"
         /\ \A x \in Writers : x # n =>
              /\ chain'[x] = chain[x] /\ round'[x] = round[x]
              /\ pc'[x] = pc[x] /\ winner'[x] = winner[x]
<1>1. /\ IsChain(chain[n])
      /\ chain'[n] = Append(chain[n], b)
      /\ round'[n] = Len(chain[n]) + 2
      /\ pc'[n] = "loop"
      /\ \A x \in Writers : x # n =>
           /\ chain'[x] = chain[x] /\ round'[x] = round[x]
           /\ pc'[x] = pc[x] /\ winner'[x] = winner[x]
  BY DEF StoreBlock, TypeOK
<1>2. /\ Len(chain[n]) \in Nat
      /\ Len(Append(chain[n], b)) = Len(chain[n]) + 1
      /\ \A i \in 1 .. Len(chain[n]) : Append(chain[n], b)[i] = chain[n][i]
      /\ Append(chain[n], b)[Len(chain[n]) + 1] = b
  BY <1>1, ChainAppend
<1>3. Len(chain[n]) >= StartLen /\ round[n] = RoundAt(Len(chain[n]))
  BY DEF Core, RoundInv
<1>4. /\ RoundAt(Len(chain[n]) + 1) = Len(chain[n]) + 2
      /\ HeightOf(RoundAt(Len(chain[n]))) = Len(chain[n]) + 1
      /\ RoundAt(Len(chain[n])) \in Nat
      /\ RoundAt(Len(chain[n])) < RoundAt(Len(chain[n]) + 1)
  <2>. DEFINE L == Len(chain[n])
  <2>1. L \in Nat /\ L + 1 \in Nat /\ L >= StartLen /\ L + 1 >= StartLen
        /\ StartLen \in Nat
    BY <1>2, <1>3, StartLenType
  <2>. HIDE DEF L
  <2>2. RoundAt(L) < RoundAt(L + 1)
    BY <2>1, RoundAtGrows
  <2>3. /\ RoundAt(L + 1) = L + 2
        /\ HeightOf(RoundAt(L)) = L + 1
        /\ RoundAt(L) \in Nat
    BY <2>1, RoundAtGrows
  <2>. QED
    BY <2>2, <2>3 DEF L
<1>. QED
  BY <1>1, <1>2, <1>3, <1>4

\* The parts of the invariant about rounds, roles, requests and replies.
LEMMA StoreBlockCore ==
  ASSUME TypeOK, Core, GoodStart,
         NEW n \in Writers, NEW b, IsBlock(b), StoreBlock(n, b),
         pc[n] \in {"announce", "block"}, Committed(round[n]),
         MsgsOf("request")' = MsgsOf("request"),
         MsgsOf("reply")' = MsgsOf("reply")
  PROVE  /\ RoleInv' /\ BehindInv' /\ RequestInv' /\ ReplyInv'
         /\ NumbersInv' /\ AnsweredInv'
         /\ \A k \in Nat : Committed(k) => Committed(k)'
         /\ \A x \in Writers : round'[x] <= round'[n]
<1>. DEFINE r == round[n]
            s == round'[n]
            L == Len(chain[n])
<1>1. /\ L \in Nat /\ L >= StartLen
      /\ Len(chain'[n]) = L + 1
      /\ r \in Nat /\ s \in Nat /\ s > r
      /\ s = RoundAt(L + 1) /\ r = RoundAt(L)
      /\ pc'[n] = "loop"
      /\ \A x \in Writers : x # n =>
           /\ chain'[x] = chain[x] /\ round'[x] = round[x] /\ pc'[x] = pc[x]
  BY StoreBlockFacts DEF Core, RoundInv
<1>2. /\ \A x \in Writers : round[x] \in Nat /\ Len(chain[x]) \in Nat
      /\ \A m \in msgs : IsMessage(m)
      /\ numbers' = numbers
  BY ChainFacts DEF TypeOK, StoreBlock
<1>3. \A x \in Writers : round[x] >= r /\ (round[x] = r => pc[x] \in Engaged)
  BY DEF Committed
<1>4. \* The others are in this round or in the next one.
      \A x \in Writers :
        round[x] = r \/ (round[x] = s /\ Len(chain[x]) = L + 1)
  <2>. SUFFICES ASSUME NEW x \in Writers, round[x] # r
                PROVE  round[x] = s /\ Len(chain[x]) = L + 1
    OBVIOUS
  <2>1. r < round[x]
    BY <1>1, <1>2, <1>3
  <2>2. Len(chain[x]) = L + 1
    BY <2>1 DEF Core, BehindInv
  <2>. QED
    BY <1>1, <2>2 DEF Core, RoundInv
<1>5. \A x \in Writers : round[x] = r => Len(chain[x]) = L
  <2>. SUFFICES ASSUME NEW x \in Writers, round[x] = r
                PROVE  Len(chain[x]) = L
    OBVIOUS
  <2>1. /\ RoundAt(Len(chain[x])) = RoundAt(L)
        /\ Len(chain[x]) >= StartLen
    BY <1>1 DEF Core, RoundInv
  <2>. QED
    BY <1>1, <1>2, <2>1, RoundAtGrows
<1>. HIDE DEF r, s, L
<1>6. \A x \in Writers : pc[x] = "replies" => round[x] = s
  BY <1>3, <1>4 DEF Engaged
<1>7. RoleInv'
  BY <1>1 DEF Core, RoleInv
<1>8. \A x \in Writers : round'[x] <= s
  BY <1>1, <1>4 DEF s
<1>9. BehindInv'
  <2>. SUFFICES ASSUME NEW x \in Writers, NEW y \in Writers,
                       round'[x] < round'[y]
                PROVE  /\ Len(chain'[y]) = Len(chain'[x]) + 1
                       /\ pc'[x] \in Engaged
    BY DEF BehindInv
  <2>1. x # n
    BY <1>1, <1>2, <1>4 DEF s
  <2>2. round[x] = r
    BY <1>1, <1>2, <1>4, <2>1 DEF s
  <2>3. y = n \/ round[y] = s
    BY <1>1, <1>4, <2>1, <2>2
  <2>4. Len(chain'[y]) = L + 1
    <3>1. CASE y = n
      BY <1>1, <3>1
    <3>2. CASE y # n
      <4>1. round[y] = s /\ s # r
        BY <1>1, <2>3, <3>2
      <4>. QED
        BY <1>1, <1>4, <3>2, <4>1
    <3>. QED
      BY <3>1, <3>2
  <2>5. Len(chain'[x]) = L /\ pc'[x] = pc[x]
    BY <1>1, <1>5, <2>1, <2>2
  <2>. QED
    BY <1>3, <2>2, <2>4, <2>5
<1>10. RequestInv'
  <2>. SUFFICES ASSUME NEW m \in MsgsOf("request")
                PROVE  /\ m.from = Coordinator(m.round)
                       /\ pc'[m.from] = "replies"
                       /\ round'[m.from] = m.round
                       /\ round'[m.to] <= m.round
                       /\ round'[m.to] = m.round =>
                            pc'[m.to] \in {"loop", "request"}
                       /\ m.to \notin Ids(numbers[m.from])
                       /\ \A o \in MsgsOf("reply") :
                            ~(o.from = m.to /\ o.to = m.from)
    BY <1>2 DEF RequestInv, Ids
  <2>1. m.from \in Writers /\ m.to \in Writers /\ m.round \in Nat
    BY <1>2 DEF MsgsOf, IsMessage, Others
  <2>2. pc[m.from] = "replies" /\ round[m.from] = m.round /\ m.from # n
    BY DEF Core, RequestInv
  <2>3. m.round = s
    BY <1>6, <2>1, <2>2
  <2>. QED
    BY <1>1, <2>1, <2>2, <2>3 DEF Core, RequestInv, s
<1>11. ReplyInv'
  <2>1. \A m \in MsgsOf("reply") :
          /\ m.to \in Writers /\ m.from \in Writers
          /\ m.to # n /\ m.from # n
    <3>. SUFFICES ASSUME NEW m \in MsgsOf("reply")
                  PROVE  /\ m.to \in Writers /\ m.from \in Writers
                         /\ m.to # n /\ m.from # n
      OBVIOUS
    <3>1. m.from \in Writers /\ m.to \in Writers
      BY <1>2 DEF MsgsOf, IsMessage, Others
    <3>2. pc[m.to] = "replies" /\ round[m.to] = round[m.from]
      BY DEF Core, ReplyInv
    <3>. QED
      BY <1>1, <1>6, <3>1, <3>2 DEF r
  <2>2. \A m \in MsgsOf("reply") :
          /\ pc'[m.to] = "replies" /\ round'[m.to] = m.round
          /\ pc'[m.from] = "announce" /\ round'[m.from] = m.round
          /\ m.from \notin Ids(numbers[m.to])
    BY <1>1, <2>1 DEF Core, ReplyInv
  <2>3. \A m, o \in MsgsOf("reply") : o.from = m.from /\ o.to = m.to => o = m
    BY DEF Core, ReplyInv
  <2>. QED
    BY <1>2, <2>2, <2>3 DEF ReplyInv, Ids
<1>12. NumbersInv'
  <2>. SUFFICES ASSUME NEW x \in Writers, pc'[x] = "replies"
                PROVE  /\ \A i, j \in DOMAIN numbers[x] :
                            numbers[x][i][1] = numbers[x][j][1] => i = j
                       /\ \A o \in Ids(numbers[x]) :
                            o # x /\ round'[o] = round'[x] /\ pc'[o] = "announce"
    BY <1>2 DEF NumbersInv, Ids
  <2>1. x # n /\ pc[x] = "replies" /\ round[x] = s
    BY <1>1, <1>6
  <2>2. n \notin Ids(numbers[x])
    BY <1>1, <2>1 DEF Core, NumbersInv, r
  <2>3. Ids(numbers[x]) \subseteq Writers
    BY IdsType
  <2>. QED
    BY <1>1, <2>1, <2>2, <2>3 DEF Core, NumbersInv
<1>13. AnsweredInv'
  <2>. SUFFICES ASSUME NEW x \in Writers, pc'[x] \in {"announce", "dead"}
                PROVE  LET c == Coordinator(round'[x])
                       IN  \/ round'[c] > round'[x]
                           \/ /\ round'[c] = round'[x]
                              /\ pc'[c] \in {"replies", "block"}
    BY DEF AnsweredInv, Coordinator
  <2>1. x # n /\ pc[x] \in {"announce", "dead"}
        /\ round'[x] = round[x]
    BY <1>1
  <2>2. Coordinator(round[x]) \in Writers
    BY <1>2, CoordinatorType
  <2>3. \/ round[Coordinator(round[x])] > round[x]
        \/ /\ round[Coordinator(round[x])] = round[x]
           /\ pc[Coordinator(round[x])] \in {"replies", "block"}
    BY <2>1 DEF Core, AnsweredInv
  <2>4. round[x] <= s
    BY <1>1, <1>4
  <2>5. CASE Coordinator(round[x]) = n
    <3>1. round[x] = r
      BY <1>1, <1>2, <1>4, <2>3, <2>5 DEF r
    <3>. QED
      BY <1>1, <2>1, <2>5, <3>1 DEF s
  <2>6. CASE Coordinator(round[x]) # n
    BY <1>1, <2>1, <2>2, <2>3, <2>6
  <2>. QED
    BY <2>5, <2>6
<1>14. \A k \in Nat : Committed(k) => Committed(k)'
  BY <1>1, <1>2 DEF Committed, s, r
<1>. QED
  BY <1>7, <1>8, <1>9, <1>10, <1>11, <1>12, <1>13, <1>14 DEF s

\* A block of an earlier round is not touched by storing another one.
LEMMA StoreBlockKeeps ==
  ASSUME TypeOK, Core, GoodStart,
         NEW n \in Writers, NEW b, IsBlock(b), StoreBlock(n, b),
         NEW k \in Nat, k >= StartLen, k < round[n]
  PROVE  chain'[n][HeightOf(k)] = chain[n][HeightOf(k)]
<1>1. round[n] = RoundAt(Len(chain[n])) /\ Len(chain[n]) >= StartLen
      /\ Len(chain[n]) \in Nat
  BY ChainFacts DEF Core, RoundInv
<1>2. HeightOf(k) \in 1 .. Len(chain[n])
  BY <1>1, HeightOfBounds
<1>. QED
  BY <1>2, StoreBlockFacts

LEMMA StoreBlockRoundInv ==
  ASSUME TypeOK, Core, GoodStart, UNCHANGED reset_number,
         NEW n \in Writers, NEW b, IsBlock(b), StoreBlock(n, b),
         \A m \in msgs' : m \in msgs \/ m.round = round[n]
  PROVE  RoundInv'
<1>1. round[n] >= StartLen
  BY ChainFacts, RoundAtGrows DEF Core, RoundInv
<1>2. \A m \in msgs' : m.round >= StartLen
  BY <1>1 DEF Core, RoundInv
<1>3. \A x \in Writers : Len(chain'[x]) >= StartLen
                         /\ round'[x] = RoundAt(Len(chain'[x]))
  <2>. SUFFICES ASSUME NEW x \in Writers
                PROVE  Len(chain'[x]) >= StartLen
                       /\ round'[x] = RoundAt(Len(chain'[x]))
    OBVIOUS
  <2>1. CASE x = n
    <3>1. /\ Len(chain[n]) \in Nat /\ Len(chain[n]) >= StartLen
          /\ Len(chain'[n]) = Len(chain[n]) + 1
          /\ round'[n] = RoundAt(Len(chain'[n]))
      BY StoreBlockFacts
    <3>. QED
      BY <2>1, <3>1, StartLenType
  <2>2. CASE x # n
    <3>1. chain'[x] = chain[x] /\ round'[x] = round[x]
      BY <2>2, StoreBlockFacts
    <3>. QED
      BY <3>1 DEF Core, RoundInv
  <2>. QED
    BY <2>1, <2>2
<1>. QED
  BY <1>2, <1>3 DEF Core, RoundInv, RoundAt, StartLen

LEMMA WinRoundCore ==
  ASSUME TypeOK, Core, resetNumber = 0, GoodStart,
         NEW n \in Writers, WinRound(n)
  PROVE  Core'
<1>. DEFINE b == CreateBlock(n, round[n])
            r == round[n]
            L == Len(chain[n])
            new == {BlockMsg(r, n, o, b) : o \in Others(n)}
<1>1. PICK m \in Announcements(n) :
        /\ m.winner = n
        /\ msgs' = (msgs \ {m}) \cup new
        /\ StoreBlock(n, b)
  BY DEF WinRound, IsWinner
<1>2. pc[n] = "announce" /\ UNCHANGED reset_number
  BY DEF WinRound, resetVars
<1>3. IsBlock(b)
  BY NewBlockType
<1>4. /\ b.writerID = n /\ b.coordinatorID = Coordinator(r)
      /\ b.prev_hash = IF r = 0 THEN ZeroHash ELSE PrevHash(chain[n])
  BY DEF CreateBlock, Block
<1>5. \A o \in new : /\ o.type = "block" /\ o.round = r /\ o.from = n
                     /\ o.block = b
  BY DEF BlockMsg
<1>. HIDE DEF b, new
<1>6. /\ m \in MsgsOf("announce") /\ m.round = r /\ Committed(r)
  <2>1. m \in Receivable(n, "announce")
    BY DEF Announcements
  <2>. QED
    BY <2>1, TakenInTime
<1>7. /\ MsgsOf("request")' = MsgsOf("request")
      /\ MsgsOf("reply")' = MsgsOf("reply")
      /\ MsgsOf("announce")' = MsgsOf("announce") \ {m}
      /\ MsgsOf("block")' = MsgsOf("block") \cup new
  BY <1>1, <1>5, <1>6 DEF MsgsOf
<1>8. /\ \A x \in Writers : round[x] \in Nat /\ Len(chain[x]) \in Nat
      /\ \A o \in msgs : IsMessage(o)
  BY ChainFacts DEF TypeOK
<1>9. /\ L \in Nat /\ L >= StartLen /\ HeightOf(r) = L + 1
      /\ Len(chain'[n]) = L + 1
      /\ \A i \in 1 .. L : chain'[n][i] = chain[n][i]
      /\ chain'[n][L + 1] = b
      /\ r \in Nat /\ round'[n] \in Nat /\ round'[n] > r /\ pc'[n] = "loop"
      /\ \A x \in Writers : x # n =>
           /\ chain'[x] = chain[x] /\ round'[x] = round[x]
           /\ pc'[x] = pc[x] /\ winner'[x] = winner[x]
  BY <1>1, <1>3, StoreBlockFacts
<1>10. /\ RoleInv' /\ BehindInv' /\ RequestInv' /\ ReplyInv'
       /\ NumbersInv' /\ AnsweredInv'
       /\ \A k \in Nat : Committed(k) => Committed(k)'
  BY <1>1, <1>2, <1>3, <1>6, <1>7, StoreBlockCore
<1>11. \* The winner is the first to get past the round.
       \A x \in Writers : round[x] = r /\ Len(chain[x]) = L
  <2>1. \A x \in Writers : round[x] = r
    BY <1>1, <1>6, <1>8 DEF Core, WinnerInv, Committed
  <2>2. \A x \in Writers : Len(chain[x]) >= StartLen
                           /\ RoundAt(Len(chain[x])) = RoundAt(L)
    BY <2>1 DEF Core, RoundInv
  <2>. QED
    BY <1>8, <1>9, <2>1, <2>2, RoundAtGrows
<1>12. \* What is still on its way is of this or, if a block, of earlier rounds.
       /\ \A o \in MsgsOf("announce") : o.round \in Nat /\ o.round <= r
                                        /\ o.winner \in Writers
       /\ \A o \in MsgsOf("block") : /\ o.round \in Nat /\ o.round < r
                                     /\ o.round >= StartLen
                                     /\ o.from \in Writers
  <2>1. \A o \in MsgsOf("announce") \cup MsgsOf("block") :
          o.round \in Nat /\ o.from \in Writers /\ o.round >= StartLen
    BY <1>8 DEF MsgsOf, IsMessage, Core, RoundInv
  <2>2. \A o \in MsgsOf("announce") \cup MsgsOf("block") : o.round <= r
    BY <1>8, <2>1 DEF Core, CommittedInv, Committed
  <2>3. \A o \in MsgsOf("block") : o.round # r
    BY <1>8, <1>11, <2>1 DEF Core, BlockInv
  <2>4. \A o \in MsgsOf("announce") : o.winner \in Writers
    BY <1>8 DEF MsgsOf, IsMessage, Request, Reply, BlockMsg, Announce
  <2>. QED
    BY <1>8, <2>1, <2>2, <2>3, <2>4
<1>13. RoundInv'
  <2>1. \A o \in msgs' : o \in msgs \/ o.round = round[n]
    BY <1>1, <1>5
  <2>. QED
    BY <1>1, <1>2, <1>3, <2>1, StoreBlockRoundInv
<1>14. CommittedInv'
  <2>1. \A k \in Nat : k = r => Committed(k)'
    BY <1>6, <1>10
  <2>2. \A x \in Writers : pc'[x] = "block" => Committed(round[x])'
    <3>. SUFFICES ASSUME NEW x \in Writers, pc'[x] = "block"
                  PROVE  Committed(round[x])'
      OBVIOUS
    <3>1. x # n /\ pc[x] = "block" /\ round'[x] = round[x] /\ round[x] \in Nat
      BY <1>8, <1>9
    <3>2. Committed(round[x])
      BY <3>1 DEF Core, CommittedInv
    <3>3. \A k \in Nat : k = round[x] => Committed(k)'
      BY <1>10, <3>1, <3>2
    <3>4. \A k \in Nat : k = round'[x] => Committed(k)'
      BY <3>1, <3>3
    <3>. QED
      BY <3>1, <3>4
  <2>3. \A o \in MsgsOf("announce") \cup MsgsOf("block") :
          \A k \in Nat : k = o.round => Committed(k)'
    BY <1>10, <1>12 DEF Core, CommittedInv
  <2>4. \A o \in MsgsOf("announce")' \cup MsgsOf("block")' :
          \A k \in Nat : k = o.round => Committed(k)'
    BY <1>5, <1>7, <2>1, <2>3
  <2>5. \A o \in MsgsOf("announce")' \cup MsgsOf("block")' : o.round \in Nat
    BY <1>5, <1>7, <1>9, <1>12
  <2>6. \A o \in MsgsOf("announce")' \cup MsgsOf("block")' : Committed(o.round)'
    BY <2>4, <2>5
  <2>. QED
    BY <2>2, <2>6 DEF CommittedInv
<1>15. WinnerInv'
  <2>1. \A o \in MsgsOf("announce") \ {m}, x \in Writers :
          pc'[x] = "block" /\ round'[x] = o.round => winner'[x] = o.winner
    BY <1>9 DEF Core, WinnerInv
  <2>2. \A o \in MsgsOf("announce") \ {m}, x \in Writers :
          round'[x] > o.round => round'[o.winner] > o.round
    <3>. SUFFICES ASSUME NEW o \in MsgsOf("announce") \ {m}
                  PROVE  round'[o.winner] > o.round
      OBVIOUS
    <3>1. CASE o.round = r
      BY <1>1, <1>6, <1>9, <3>1 DEF Core, WinnerInv
    <3>2. CASE o.round < r
      BY <1>9, <1>11, <1>12, <3>2
    <3>. QED
      BY <1>9, <1>12, <3>1, <3>2
  <2>3. \A x, y \in Writers :
          pc'[x] = "block" /\ round'[y] > round'[x] =>
            round'[winner'[x]] > round'[x]
    <3>. SUFFICES ASSUME NEW x \in Writers, pc'[x] = "block"
                  PROVE  round'[winner'[x]] > round'[x]
      OBVIOUS
    <3>1. x # n /\ pc[x] = "block" /\ winner'[x] = winner[x]
          /\ round'[x] = r
      BY <1>9, <1>11
    <3>2. winner[x] = n
      BY <1>1, <1>6, <1>11, <3>1 DEF Core, WinnerInv
    <3>. QED
      BY <1>9, <3>1, <3>2
  <2>4. \A x \in Writers : pc'[x] = "block" => winner'[x] \in Writers
    BY <1>9 DEF Core, WinnerInv
  <2>. QED
    BY <1>7, <2>1, <2>2, <2>3, <2>4 DEF Core, WinnerInv
<1>16. BlockInv'
  <2>1. \A o \in new :
          /\ round'[o.from] > o.round
          /\ \A x \in Writers :
               round'[x] > o.round => chain'[x][HeightOf(o.round)] = o.block
    BY <1>5, <1>9, <1>11
  <2>2. \A o \in MsgsOf("block"), x \in Writers :
          chain'[x][HeightOf(o.round)] = o.block
    <3>. SUFFICES ASSUME NEW o \in MsgsOf("block"), NEW x \in Writers
                  PROVE  chain'[x][HeightOf(o.round)] = o.block
      OBVIOUS
    <3>1. chain[x][HeightOf(o.round)] = o.block
      BY <1>11, <1>12 DEF Core, BlockInv
    <3>2. chain'[n][HeightOf(o.round)] = chain[n][HeightOf(o.round)]
      BY <1>1, <1>3, <1>12, StoreBlockKeeps
    <3>. QED
      BY <1>9, <3>1, <3>2
  <2>3. \A o \in MsgsOf("block") : round'[o.from] > o.round
    BY <1>9, <1>11, <1>12
  <2>4. \A o, q \in MsgsOf("block") \cup new :
          o.round = q.round => o.block = q.block
    BY <1>5, <1>12 DEF Core, BlockInv
  <2>. QED
    BY <1>7, <2>1, <2>2, <2>3, <2>4 DEF BlockInv, HeightOf, StartLen
<1>17. SameBlocks'
  <2>. SUFFICES ASSUME NEW x \in Writers, NEW y \in Writers,
                       NEW i \in 1 .. Len(chain'[x]), i <= Len(chain'[y])
                PROVE  chain'[x][i] = chain'[y][i]
    BY DEF SameBlocks
  <2>. HIDE DEF r, L
  <2>1. i \in 1 .. L => chain[x][i] = chain[y][i]
    BY <1>11 DEF Core, SameBlocks
  <2>2. CASE i \in 1 .. L
    BY <1>9, <2>1, <2>2
  <2>3. CASE i \notin 1 .. L
    <3>1. \A z \in Writers \ {n} : Len(chain'[z]) = L
      BY <1>9, <1>11
    <3>2. L \in Nat /\ Len(chain'[n]) = L + 1
      BY <1>9
    <3>3. x = n
      <4>. SUFFICES ASSUME x # n PROVE FALSE
        OBVIOUS
      <4>1. Len(chain'[x]) = L
        BY <3>1
      <4>. QED
        BY <2>3, <4>1
    <3>4. y = n
      <4>. SUFFICES ASSUME y # n PROVE FALSE
        OBVIOUS
      <4>1. Len(chain'[y]) = L
        BY <3>1
      <4>2. i \in Nat /\ i >= 1
        BY <3>2, <3>3
      <4>. QED
        BY <2>3, <3>2, <4>1, <4>2
    <3>. QED
      BY <3>3, <3>4
  <2>. QED
    BY <2>2, <2>3
<1>18. LinkInv'
  <2>1. WellLinked(chain[n])
    BY DEF Core, LinkInv
  <2>2. n # Coordinator(r)
    BY <1>2 DEF Core, RoleInv
  <2>3. L > 0 => b.prev_hash = Hash(chain[n][L])
    <3>. SUFFICES ASSUME L > 0 PROVE b.prev_hash = Hash(chain[n][L])
      OBVIOUS
    <3>1. r # 0
      BY <1>9, StartLenType DEF Core, RoundInv, RoundAt
    <3>2. chain[n] # <<>>
      BY <1>9
    <3>. QED
      BY <1>4, <3>1, <3>2 DEF PrevHash
  <2>4. WellLinked(chain'[n])
    <3>. SUFFICES ASSUME NEW i \in 1 .. L + 1
                  PROVE  /\ i > 1 => chain'[n][i].prev_hash
                                       = Hash(chain'[n][i - 1])
                         /\ chain'[n][i].writerID # chain'[n][i].coordinatorID
      BY <1>9 DEF WellLinked
    <3>1. CASE i \in 1 .. L
      <4>1. i > 1 => i - 1 \in 1 .. L
        BY <1>9, <3>1
      <4>. QED
        BY <1>9, <2>1, <3>1, <4>1 DEF WellLinked
    <3>2. CASE i = L + 1
      <4>1. i > 1 => L > 0 /\ i - 1 = L /\ L \in 1 .. L
        BY <1>9, <3>2
      <4>. QED
        BY <1>4, <1>9, <2>2, <2>3, <3>2, <4>1
    <3>. QED
      BY <1>9, <3>1, <3>2
  <2>. QED
    BY <1>9, <2>4 DEF Core, LinkInv
<1>. QED
  BY <1>10, <1>13, <1>14, <1>15, <1>16, <1>17, <1>18 DEF Core

LEMMA ReceiveBlockCore ==
  ASSUME TypeOK, Core, resetNumber = 0, GoodStart,
         NEW n \in Writers, ReceiveBlock(n)
  PROVE  Core'
<1>1. PICK m \in Receivable(n, "block") :
        msgs' = msgs \ {m} /\ StoreBlock(n, m.block)
  BY DEF ReceiveBlock
<1>. DEFINE r == round[n]
            L == Len(chain[n])
            b == m.block
            f == m.from
<1>2. pc[n] = "block" /\ UNCHANGED reset_number
  BY DEF ReceiveBlock, resetVars
<1>3. /\ m \in MsgsOf("block") /\ m.round = r /\ Committed(r)
      /\ IsMessage(m) /\ IsBlock(b) /\ f \in Writers
  BY TakenInTime, ReceivableType DEF IsMessage
<1>4. StoreBlock(n, b)
  BY <1>1
<1>. HIDE DEF b
<1>5. /\ MsgsOf("request")' = MsgsOf("request")
      /\ MsgsOf("reply")' = MsgsOf("reply")
      /\ MsgsOf("announce")' = MsgsOf("announce")
      /\ MsgsOf("block")' = MsgsOf("block") \ {m}
  BY <1>1, <1>3 DEF MsgsOf
<1>6. /\ \A x \in Writers : round[x] \in Nat /\ Len(chain[x]) \in Nat
      /\ \A o \in msgs : IsMessage(o)
  BY ChainFacts DEF TypeOK
<1>7. /\ L \in Nat /\ L >= StartLen /\ HeightOf(r) = L + 1
      /\ Len(chain'[n]) = L + 1
      /\ \A i \in 1 .. L : chain'[n][i] = chain[n][i]
      /\ chain'[n][L + 1] = b
      /\ r \in Nat /\ round'[n] \in Nat /\ round'[n] > r /\ pc'[n] = "loop"
      /\ \A x \in Writers : x # n =>
           /\ chain'[x] = chain[x] /\ round'[x] = round[x]
           /\ pc'[x] = pc[x] /\ winner'[x] = winner[x]
  BY <1>3, <1>4, StoreBlockFacts
<1>8. /\ RoleInv' /\ BehindInv' /\ RequestInv' /\ ReplyInv'
      /\ NumbersInv' /\ AnsweredInv'
      /\ \A k \in Nat : Committed(k) => Committed(k)'
  BY <1>2, <1>3, <1>4, <1>5, StoreBlockCore
<1>9. /\ round[f] > r
      /\ \A x \in Writers : round[x] > r => chain[x][L + 1] = b
  BY <1>3, <1>7 DEF Core, BlockInv, b
<1>10. \A o \in MsgsOf("announce") \cup MsgsOf("block") :
         o.round \in Nat /\ o.round <= r /\ o.round >= StartLen
  <2>1. \A o \in MsgsOf("announce") \cup MsgsOf("block") :
          o.round \in Nat /\ o.round >= StartLen
    BY <1>6 DEF MsgsOf, IsMessage, Core, RoundInv
  <2>2. \A o \in MsgsOf("announce") \cup MsgsOf("block") : o.round <= r
    BY <1>6, <2>1 DEF Core, CommittedInv, Committed
  <2>. QED
    BY <2>1, <2>2
<1>11. \A x \in Writers : round'[x] \in Nat /\ round'[x] >= round[x]
  <2>1. round'[n] \in Nat /\ round[n] \in Nat /\ round'[n] > round[n]
    BY <1>7
  <2>2. \A x \in Writers : x # n => round'[x] = round[x] /\ round[x] \in Nat
    BY <1>6, <1>7
  <2>. QED
    BY <2>1, <2>2
<1>12. RoundInv'
  BY <1>1, <1>2, <1>3, <1>4, StoreBlockRoundInv
<1>13. CommittedInv'
  <2>1. \A x \in Writers : pc'[x] = "block" => Committed(round[x])'
    <3>. SUFFICES ASSUME NEW x \in Writers, pc'[x] = "block"
                  PROVE  Committed(round[x])'
      OBVIOUS
    <3>1. x # n /\ pc[x] = "block" /\ round'[x] = round[x] /\ round[x] \in Nat
      BY <1>6, <1>7
    <3>2. Committed(round[x])
      BY <3>1 DEF Core, CommittedInv
    <3>3. \A k \in Nat : k = round[x] => Committed(k)'
      BY <1>8, <3>1, <3>2
    <3>4. \A k \in Nat : k = round'[x] => Committed(k)'
      BY <3>1, <3>3
    <3>. QED
      BY <3>1, <3>4
  <2>2. \A o \in MsgsOf("announce") \cup MsgsOf("block") :
          \A k \in Nat : k = o.round => Committed(k)'
    BY <1>8, <1>10 DEF Core, CommittedInv
  <2>3. \A o \in MsgsOf("announce")' \cup MsgsOf("block")' : Committed(o.round)'
    BY <1>5, <1>10, <2>2
  <2>. QED
    BY <2>1, <2>3 DEF CommittedInv
<1>14. WinnerInv'
  <2>1. \A o \in MsgsOf("announce"), x \in Writers :
          pc'[x] = "block" /\ round'[x] = o.round => winner'[x] = o.winner
    BY <1>7 DEF Core, WinnerInv
  <2>2. \A o \in MsgsOf("announce"), x \in Writers :
          round'[x] > o.round => round'[o.winner] > o.round
    <3>. SUFFICES ASSUME NEW o \in MsgsOf("announce"), NEW x \in Writers,
                         round'[x] > o.round
                  PROVE  round'[o.winner] > o.round
      OBVIOUS
    <3>1. o.winner \in Writers /\ o.round \in Nat /\ o.round <= r
      BY <1>6, <1>10 DEF MsgsOf, IsMessage, Request, Reply, BlockMsg, Announce
    <3>2. round[f] > o.round
      BY <1>3, <1>6, <1>7, <1>9, <3>1
    <3>3. round[o.winner] > o.round
      BY <1>3, <3>2 DEF Core, WinnerInv
    <3>. QED
      BY <1>6, <1>11, <3>1, <3>3
  <2>3. \A x, y \in Writers :
          pc'[x] = "block" /\ round'[y] > round'[x] =>
            round'[winner'[x]] > round'[x]
    <3>. SUFFICES ASSUME NEW x \in Writers, pc'[x] = "block",
                         NEW y \in Writers, round'[y] > round'[x]
                  PROVE  round'[winner'[x]] > round'[x]
      OBVIOUS
    <3>1. x # n /\ pc[x] = "block" /\ winner'[x] = winner[x]
          /\ round'[x] = round[x] /\ round[x] \in Nat
          /\ winner[x] \in Writers
      BY <1>6, <1>7 DEF Core, WinnerInv
    <3>2. round[x] <= r
      BY <1>6, <1>7, <3>1 DEF Core, CommittedInv, Committed
    <3>3. round[f] > round[x]
      BY <1>3, <1>6, <1>7, <1>9, <3>1, <3>2
    <3>4. round[winner[x]] > round[x]
      BY <1>3, <3>1, <3>3 DEF Core, WinnerInv
    <3>. QED
      BY <1>6, <1>11, <3>1, <3>4
  <2>4. \A x \in Writers : pc'[x] = "block" => winner'[x] \in Writers
    BY <1>7 DEF Core, WinnerInv
  <2>. QED
    BY <1>5, <2>1, <2>2, <2>3, <2>4 DEF Core, WinnerInv
<1>15. BlockInv'
  <2>. SUFFICES ASSUME NEW o \in MsgsOf("block"), NEW x \in Writers
                PROVE  /\ round'[o.from] > o.round
                       /\ round'[x] > o.round =>
                            chain'[x][HeightOf(o.round)] = o.block
    BY <1>5 DEF Core, BlockInv, HeightOf, StartLen
  <2>1. o.from \in Writers /\ o.round \in Nat
    BY <1>6, <1>10 DEF MsgsOf, IsMessage
  <2>2. round'[o.from] > o.round
    BY <1>6, <1>11, <2>1 DEF Core, BlockInv
  <2>3. CASE x # n
    BY <1>7, <2>2, <2>3 DEF Core, BlockInv
  <2>4. CASE x = n /\ o.round = r
    BY <1>3, <1>7, <2>2, <2>4 DEF Core, BlockInv, b
  <2>5. CASE x = n /\ o.round < r
    <3>1. chain[n][HeightOf(o.round)] = o.block
      BY <1>7, <2>1, <2>5 DEF Core, BlockInv
    <3>2. chain'[n][HeightOf(o.round)] = chain[n][HeightOf(o.round)]
      BY <1>3, <1>4, <1>10, <2>1, <2>5, StoreBlockKeeps
    <3>. QED
      BY <2>2, <2>5, <3>1, <3>2
  <2>. QED
    BY <1>7, <1>10, <2>1, <2>3, <2>4, <2>5
<1>16. \* Who has a block at this height is past this round.
       \A x \in Writers : Len(chain[x]) >= L + 1 => round[x] > r
  <2>. SUFFICES ASSUME NEW x \in Writers, Len(chain[x]) >= L + 1
                PROVE  round[x] > r
    OBVIOUS
  <2>. DEFINE K == Len(chain[x])
  <2>1. /\ K \in Nat /\ K >= StartLen /\ round[x] = RoundAt(K)
        /\ L \in Nat /\ L >= StartLen /\ r = RoundAt(L)
        /\ L < K /\ RoundAt(L) \in Nat /\ RoundAt(K) \in Nat
    BY <1>6, <1>7 DEF Core, RoundInv
  <2>. HIDE DEF K, L, r
  <2>2. RoundAt(L) < RoundAt(K)
    BY <2>1, RoundAtGrows
  <2>. QED
    BY <2>1, <2>2
<1>17. SameBlocks'
  <2>1. \A x \in Writers : \A i \in 1 .. L :
          i <= Len(chain[x]) => chain'[n][i] = chain[x][i]
    BY <1>7 DEF Core, SameBlocks
  <2>2. \A x \in Writers : x # n =>
          \A i \in 1 .. Len(chain'[n]) :
            i <= Len(chain'[x]) => chain'[n][i] = chain'[x][i]
    BY <1>6, <1>7, <1>9, <1>16, <2>1, SMTT(30)
  <2>3. \A x, y \in Writers : \A i \in 1 .. Len(chain'[x]) :
          i <= Len(chain'[y]) => chain'[x][i] = chain'[y][i]
    <3>. SUFFICES ASSUME NEW x \in Writers, NEW y \in Writers,
                         NEW i \in 1 .. Len(chain'[x]), i <= Len(chain'[y])
                  PROVE  chain'[x][i] = chain'[y][i]
      OBVIOUS
    <3>1. CASE x # n /\ y # n
      BY <1>7, <3>1 DEF Core, SameBlocks
    <3>2. CASE x = n /\ y # n
      BY <2>2, <3>2
    <3>3. CASE x # n /\ y = n
      <4>1. Len(chain'[x]) \in Nat /\ i \in 1 .. Len(chain'[n])
        BY <1>6, <1>7, <3>3
      <4>. QED
        BY <2>2, <3>3, <4>1
    <3>. QED
      BY <3>1, <3>2, <3>3
  <2>. QED
    BY <2>3 DEF SameBlocks
<1>18. LinkInv'
  <2>1. WellLinked(chain[n]) /\ WellLinked(chain[f])
    BY <1>3 DEF Core, LinkInv
  <2>2. Len(chain[f]) >= L + 1 /\ chain[f][L + 1] = b
    <3>1. \A x \in Writers : Len(chain[x]) >= StartLen
                             /\ round[x] = RoundAt(Len(chain[x]))
      BY DEF Core, RoundInv
    <3>2. Len(chain[f]) \in Nat /\ Len(chain[f]) >= StartLen
          /\ round[f] = RoundAt(Len(chain[f])) /\ round[f] > r
      BY <1>3, <1>6, <1>9, <3>1
    <3>3. L \in Nat /\ L >= StartLen /\ r = RoundAt(L)
      BY <1>7, <3>1
    <3>4. RoundAt(L) < RoundAt(Len(chain[f])) <=> L < Len(chain[f])
      BY <3>2, <3>3, RoundAtGrows
    <3>5. Len(chain[f]) >= L + 1
      BY <3>2, <3>3, <3>4
    <3>. QED
      BY <1>3, <1>6, <1>7, <1>9, <3>2, <3>5
  <2>3. L > 0 => b.prev_hash = Hash(chain[n][L])
    <3>. SUFFICES ASSUME L > 0 PROVE b.prev_hash = Hash(chain[n][L])
      OBVIOUS
    <3>1. L + 1 \in 1 .. Len(chain[f]) /\ L \in 1 .. L /\ L + 1 > 1
          /\ (L + 1) - 1 = L
      BY <1>3, <1>6, <1>7, <2>2
    <3>2. chain[f][L + 1].prev_hash = Hash(chain[f][L])
      BY <2>1, <3>1 DEF WellLinked
    <3>3. chain[n][L] = chain[f][L]
      <4>1. L \in 1 .. Len(chain[n]) /\ L <= Len(chain[f])
        BY <1>6, <1>7, <2>2
      <4>. QED
        BY <1>3, <4>1 DEF Core, SameBlocks
    <3>. QED
      BY <2>2, <3>2, <3>3
  <2>4. b.writerID # b.coordinatorID
    <3>1. L + 1 \in 1 .. Len(chain[f])
      BY <1>3, <1>6, <1>7, <2>2
    <3>. QED
      BY <2>1, <2>2, <3>1 DEF WellLinked
  <2>5. WellLinked(chain'[n])
    <3>. SUFFICES ASSUME NEW i \in 1 .. L + 1
                  PROVE  /\ i > 1 => chain'[n][i].prev_hash
                                       = Hash(chain'[n][i - 1])
                         /\ chain'[n][i].writerID # chain'[n][i].coordinatorID
      BY <1>7 DEF WellLinked
    <3>1. CASE i \in 1 .. L
      <4>1. i > 1 => i - 1 \in 1 .. L
        BY <1>7, <3>1
      <4>. QED
        BY <1>7, <2>1, <3>1, <4>1 DEF WellLinked
    <3>2. CASE i = L + 1
      <4>1. i > 1 => L > 0 /\ i - 1 = L /\ L \in 1 .. L
        BY <1>7, <3>2
      <4>. QED
        BY <1>7, <2>3, <2>4, <3>2, <4>1
    <3>. QED
      BY <1>7, <3>1, <3>2
  <2>. QED
    BY <1>7, <2>5 DEF Core, LinkInv
<1>. QED
  BY <1>8, <1>12, <1>13, <1>14, <1>15, <1>17, <1>18 DEF Core

----------------------------------------------------------------------------
(* The theorems.                                                            *)

\* What the engines do not write leaves the invariant alone.
LEMMA UnchangedCore ==
  ASSUME Core, UNCHANGED <<engineVars, chain, reset_number, msgs>>
  PROVE  Core'
BY DEF Core, engineVars, RoundInv, RoleInv, BehindInv, RequestInv, ReplyInv,
       NumbersInv, AnsweredInv, CommittedInv, Committed, WinnerInv, BlockInv,
       SameBlocks, LinkInv, MsgsOf

LEMMA EngineStepCore ==
  ASSUME TypeOK, Core, resetNumber = 0, GoodStart,
         NEW n \in Writers, EngineStep(n)
  PROVE  Core'
BY StartCoordinatorCore, StartWriterCore, AnswerRequestCore, CollectReplyCore,
   AnnounceWinnerCore, WinRoundCore, AwaitBlockCore, ReceiveBlockCore
DEF EngineStep

LEMMA NextIInv ==
  ASSUME GoodStart
  PROVE  TypeOK /\ IInv /\ [Next]_vars => IInv'
<1>. SUFFICES ASSUME TypeOK, IInv, [Next]_vars, resetNumber' = 0 PROVE Core'
  BY DEF IInv
<1>1. CASE \E n \in Writers : EngineStep(n)
  <2>1. PICK n \in Writers : EngineStep(n)
    BY <1>1
  <2>2. UNCHANGED resetNumber
    BY <2>1 DEF EngineStep, StartCoordinator, StartWriter, AnswerRequest,
                CollectReply, AnnounceWinner, WinRound, AwaitBlock,
                ReceiveBlock, PollReset, resetVars
  <2>3. resetNumber = 0 /\ Core
    BY <2>2 DEF IInv
  <2>. QED
    BY <2>1, <2>3, EngineStepCore
<1>2. CASE \E n \in Writers, p \in Payloads : ClientSubmit(n, p)
  <2>1. UNCHANGED <<engineVars, chain, resetVars, msgs>>
    BY <1>2 DEF ClientSubmit
  <2>. QED
    BY <2>1, UnchangedCore DEF IInv, resetVars
<1>3. CASE DeleteChain
  \* The counter of the membership authority never returns to zero.
  <2>1. resetNumber' = resetNumber + 1 /\ resetNumber \in 0 .. MaxResets
    BY <1>3 DEF DeleteChain, TypeOK
  <2>. QED
    BY <2>1, ConsensusAssumption
<1>4. CASE UNCHANGED vars
  BY <1>4, UnchangedCore DEF IInv, vars, resetVars
<1>. QED
  BY <1>1, <1>2, <1>3, <1>4 DEF Next, Terminated

\* The rounds keep the inductive invariant: for any number of writers that
\* start from equal, well-linked databases, it holds until a reset is ordered.
THEOREM InductiveInvariant == ASSUME GoodStart PROVE Spec => [](TypeOK /\ IInv)
<1>1. Init => TypeOK /\ IInv
  BY InitTypeOK, InitCore DEF GoodStart, IInv
<1>2. TypeOK /\ IInv /\ [Next]_vars => (TypeOK /\ IInv)'
  BY NextTypeOK, NextIInv
<1>. QED
  BY <1>1, <1>2, PTL DEF Spec

\* Agreement of run's rounds: no two writers store different blocks at the
\* same height, for any number of writers, rounds and payloads.
THEOREM AgreementHolds == ASSUME GoodStart PROVE Spec => []Agreement
<1>1. TypeOK /\ IInv => Agreement
  <2>. SUFFICES ASSUME TypeOK, Core, NEW m \in Writers, NEW n \in Writers,
                       NEW i \in DOMAIN chain[m] \cap DOMAIN chain[n]
                PROVE  chain[m][i] = chain[n][i]
    BY DEF IInv, Agreement
  <2>1. i \in 1 .. Len(chain[m]) /\ i <= Len(chain[n])
    BY ChainFacts
  <2>. QED
    BY <2>1 DEF Core, SameBlocks
<1>. QED
  BY <1>1, InductiveInvariant, PTL

\* No writer gets more than one block ahead of another: run has no barrier,
\* but the coordinator of a round waits for everybody in get_otp_numbers.
THEOREM LockstepHolds == ASSUME GoodStart PROVE Spec => []Lockstep
<1>1. TypeOK /\ IInv => Lockstep
  <2>. SUFFICES ASSUME TypeOK, Core, NEW m \in Writers, NEW n \in Writers
                PROVE  Len(chain[m]) <= Len(chain[n]) + 1
    BY DEF IInv, Lockstep
  <2>1. /\ Len(chain[m]) \in Nat /\ Len(chain[n]) \in Nat
        /\ round[m] \in Nat /\ round[n] \in Nat
    BY ChainFacts
  <2>2. CASE round[n] < round[m]
    BY <2>1, <2>2 DEF Core, BehindInv
  <2>3. CASE round[m] <= round[n]
    <3>1. /\ Len(chain[m]) >= StartLen /\ round[m] = RoundAt(Len(chain[m]))
          /\ Len(chain[n]) >= StartLen /\ round[n] = RoundAt(Len(chain[n]))
      BY DEF Core, RoundInv
    <3>2. RoundAt(Len(chain[n])) < RoundAt(Len(chain[m]))
            <=> Len(chain[n]) < Len(chain[m])
      BY <2>1, <3>1, RoundAtGrows
    <3>. QED
      BY <2>1, <2>3, <3>1, <3>2
  <2>. QED
    BY <2>1, <2>2, <2>3
<1>. QED
  BY <1>1, InductiveInvariant, PTL

\* Every chain passes verify_chain: the hashes link its blocks, and none was
\* won by the coordinator of its round.
THEOREM ChainVerifiesHolds == ASSUME GoodStart PROVE Spec => []ChainVerifies
<1>1. TypeOK /\ IInv => ChainVerifies
  BY ChainFacts DEF IInv, Core, LinkInv, WellLinked, ChainVerifies
<1>. QED
  BY <1>1, InductiveInvariant, PTL

----------------------------------------------------------------------------
(* The rounds implement the ledger of AbstractLedger until a reset is       *)
(* ordered: the longest chain is the ledger, and every step of an engine, a *)
(* client or the membership authority is a step of the ledger or leaves it  *)
(* alone.                                                                   *)

\* Two chains with the same blocks are the same.
LEMMA ChainsEqual ==
  ASSUME NEW c, IsChain(c), NEW d, IsChain(d), Len(c) = Len(d),
         \A i \in 1 .. Len(c) : c[i] = d[i]
  PROVE  c = d
<1>1. /\ c \in Seq(Range(c) \cup Range(d)) /\ d \in Seq(Range(c) \cup Range(d))
  BY DEF IsChain
<1>. QED
  BY <1>1, SeqEqual

\* Nobody is more than a block ahead.
LEMMA CoreLockstep ==
  ASSUME TypeOK, Core, NEW m \in Writers, NEW n \in Writers
  PROVE  Len(chain[m]) <= Len(chain[n]) + 1
<1>1. /\ Len(chain[m]) \in Nat /\ Len(chain[n]) \in Nat
      /\ round[m] \in Nat /\ round[n] \in Nat
  BY ChainFacts
<1>2. CASE round[n] < round[m]
  BY <1>1, <1>2 DEF Core, BehindInv
<1>3. CASE ~(round[n] < round[m])
  BY <1>1, <1>3 DEF Core, RoundInv, RoundAt
<1>. QED
  BY <1>2, <1>3

\* Any chains that agree on the blocks they share have one longest chain.
LEMMA LongestIs ==
  ASSUME NEW c, \A m \in Writers : IsChain(c[m]),
         \A m, k \in Writers : \A i \in 1 .. Len(c[m]) :
           i <= Len(c[k]) => c[m][i] = c[k][i],
         NEW n \in Writers, \A m \in Writers : Len(c[m]) <= Len(c[n])
  PROVE  c[CHOOSE x \in Writers : \A m \in Writers : Len(c[m]) <= Len(c[x])] = c[n]
<1>. DEFINE l == CHOOSE x \in Writers : \A m \in Writers : Len(c[m]) <= Len(c[x])
<1>1. l \in Writers /\ \A m \in Writers : Len(c[m]) <= Len(c[l])
  OBVIOUS
<1>. HIDE DEF l
<1>2. Len(c[l]) = Len(c[n])
  BY <1>1, ChainLen
<1>3. \A i \in 1 .. Len(c[l]) : c[l][i] = c[n][i]
  BY <1>1, <1>2
<1>. QED
  BY <1>1, <1>2, <1>3, ChainsEqual DEF l

\* Every chain that no other one exceeds is the ledger.
LEMMA LedgerIs ==
  ASSUME TypeOK, Core, NEW n \in Writers,
         \A m \in Writers : Len(chain[m]) <= Len(chain[n])
  PROVE  LongestChain = chain[n]
BY LongestIs DEF LongestChain, TypeOK, Core, SameBlocks

LEMMA NextLedgerIs ==
  ASSUME TypeOK', Core', NEW n \in Writers,
         \A m \in Writers : Len(chain'[m]) <= Len(chain'[n])
  PROVE  LongestChain' = chain'[n]
<1>1. /\ \A m \in Writers : IsChain(chain'[m])
      /\ \A m, k \in Writers : \A i \in 1 .. Len(chain'[m]) :
           i <= Len(chain'[k]) => chain'[m][i] = chain'[k][i]
  BY DEF TypeOK, Core, SameBlocks
<1>. QED
  BY <1>1, LongestIs DEF LongestChain

\* The winner has the whole ledger, like everybody else, and extends it.
LEMMA WinRoundDecides ==
  ASSUME TypeOK, Core, resetNumber = 0, GoodStart, TypeOK', Core',
         NEW n \in Writers, WinRound(n)
  PROVE  Ledger!Decide(n)
<1>. DEFINE b == CreateBlock(n, round[n])
            L == Len(chain[n])
<1>1. PICK m \in Announcements(n) : m.winner = n /\ StoreBlock(n, b)
  BY DEF WinRound, IsWinner
<1>2. IsBlock(b)
  BY NewBlockType
<1>3. b.writerID = n /\ b.prev_hash = PrevHash(chain[n])
  <2>1. b.writerID = n
        /\ b.prev_hash = IF round[n] = 0 THEN ZeroHash ELSE PrevHash(chain[n])
    BY DEF CreateBlock, Block
  <2>2. ASSUME round[n] = 0 PROVE PrevHash(chain[n]) = ZeroHash
    <3>1. Len(chain[n]) \in Nat /\ round[n] = RoundAt(Len(chain[n]))
      BY ChainFacts DEF Core, RoundInv
    <3>2. Len(chain[n]) = 0
      BY <2>2, <3>1 DEF RoundAt
    <3>3. chain[n] = <<>>
      BY <3>2 DEF TypeOK, IsChain
    <3>. QED
      BY <3>3 DEF PrevHash
  <2>. QED
    BY <2>1, <2>2
<1>. HIDE DEF b
<1>4. m \in MsgsOf("announce") /\ m.round = round[n] /\ Committed(round[n])
  <2>1. m \in Receivable(n, "announce")
    BY DEF Announcements
  <2>. QED
    BY <2>1, TakenInTime
<1>5. \A x \in Writers : Len(chain[x]) = L
  <2>. SUFFICES ASSUME NEW x \in Writers PROVE Len(chain[x]) = L
    OBVIOUS
  <2>1. round[x] \in Nat /\ round[n] \in Nat /\ Len(chain[x]) \in Nat /\ L \in Nat
    BY ChainFacts
  <2>2. round[x] = round[n]
    BY <1>1, <1>4, <2>1 DEF Core, WinnerInv, Committed
  <2>3. /\ round[x] = RoundAt(Len(chain[x])) /\ Len(chain[x]) >= StartLen
        /\ round[n] = RoundAt(L) /\ L >= StartLen
    BY DEF Core, RoundInv
  <2>. DEFINE k == Len(chain[x])
  <2>4. /\ k \in Nat /\ k >= StartLen /\ L \in Nat /\ L >= StartLen
        /\ RoundAt(k) = RoundAt(L)
    BY <2>1, <2>2, <2>3
  <2>. HIDE DEF k, L
  <2>5. k = L
    BY <2>4, RoundAtGrows
  <2>. QED
    BY <2>5 DEF k, L
<1>6. /\ L \in Nat /\ chain'[n] = Append(chain[n], b) /\ Len(chain'[n]) = L + 1
      /\ chain'[n][L + 1] = b
      /\ chain' = [chain EXCEPT ![n] = Append(@, b)] /\ DOMAIN chain = Writers
      /\ \A x \in Writers : x # n => chain'[x] = chain[x]
  BY <1>1, <1>2, StoreBlockFacts, SMTT(30) DEF StoreBlock, TypeOK
<1>7. LongestChain = chain[n]
  BY <1>5, <1>6, LedgerIs
<1>8. LongestChain' = chain'[n]
  <2>1. \A x \in Writers : Len(chain'[x]) <= Len(chain'[n])
    BY <1>5, <1>6
  <2>. QED
    BY <2>1, NextLedgerIs
<1>9. [x \in Writers |-> Len(chain'[x])] =
        [[x \in Writers |-> Len(chain[x])] EXCEPT ![n] = L + 1]
  BY <1>5, <1>6
<1>10. ExtendsChain(chain[n], n, b)
  BY <1>3 DEF ExtendsChain
<1>. QED
  BY <1>5, <1>6, <1>7, <1>8, <1>9, <1>10 DEF Ledger!Decide

\* The others store the next block of the ledger.
LEMMA ReceiveBlockCatchesUp ==
  ASSUME TypeOK, Core, resetNumber = 0, GoodStart, TypeOK', Core',
         NEW n \in Writers, ReceiveBlock(n)
  PROVE  Ledger!CatchUp(n)
<1>. DEFINE L == Len(chain[n])
<1>1. PICK m \in Receivable(n, "block") : StoreBlock(n, m.block)
  BY DEF ReceiveBlock
<1>. DEFINE w == m.from
<1>2. m \in MsgsOf("block") /\ m.round = round[n]
  BY <1>1, TakenInTime
<1>3. IsBlock(m.block) /\ w \in Writers /\ m.to = n /\ w # n
  BY <1>1, ReceivableType DEF IsMessage, BlockMsg, Others
<1>4. round[w] > round[n]
  BY <1>2 DEF Core, BlockInv
<1>. HIDE DEF w
<1>5. L \in Nat /\ Len(chain[w]) = L + 1
  BY <1>3, <1>4, ChainFacts DEF Core, BehindInv
<1>6. \A x \in Writers : Len(chain[x]) \in Nat /\ Len(chain[x]) <= L + 1
  BY ChainFacts, CoreLockstep
<1>7. LongestChain = chain[w]
  BY <1>3, <1>5, <1>6, LedgerIs
<1>8. /\ Len(chain'[n]) = L + 1
      /\ \A x \in Writers : x # n => chain'[x] = chain[x]
  BY <1>1, <1>3, StoreBlockFacts
<1>9. LongestChain' = chain'[w]
  <2>1. \A x \in Writers : Len(chain'[x]) <= Len(chain'[w])
    BY <1>3, <1>5, <1>6, <1>8
  <2>. QED
    BY <1>3, <2>1, NextLedgerIs
<1>10. [x \in Writers |-> Len(chain'[x])] =
         [[x \in Writers |-> Len(chain[x])] EXCEPT ![n] = @ + 1]
  BY <1>8
<1>. QED
  BY <1>3, <1>5, <1>7, <1>8, <1>9, <1>10 DEF Ledger!CatchUp

\* What leaves the chains alone leaves the ledger alone.
LEMMA ChainsStutter == ASSUME UNCHANGED chain PROVE UNCHANGED Ledger!vars
BY DEF Ledger!vars, LongestChain

LEMMA StepImplements ==
  ASSUME GoodStart, TypeOK, IInv, TypeOK', IInv', [Next]_vars, resetNumber' = 0
  PROVE  [Ledger!Next]_(Ledger!vars)
<1>1. CASE \E n \in Writers : EngineStep(n)
  <2>1. PICK n \in Writers : EngineStep(n)
    BY <1>1
  <2>2. UNCHANGED resetNumber
    BY <2>1 DEF EngineStep, StartCoordinator, StartWriter, AnswerRequest,
                CollectReply, AnnounceWinner, WinRound, AwaitBlock,
                ReceiveBlock, PollReset, resetVars
  <2>3. resetNumber = 0 /\ Core /\ Core'
    BY <2>2 DEF IInv
  <2>4. CASE WinRound(n)
    BY <2>3, <2>4, WinRoundDecides DEF Ledger!Next
  <2>5. CASE ReceiveBlock(n)
    BY <2>3, <2>5, ReceiveBlockCatchesUp DEF Ledger!Next
  <2>6. CASE ~(WinRound(n) \/ ReceiveBlock(n))
    <3>1. ASSUME PollReset(n) PROVE UNCHANGED chain
      BY <2>3, <3>1 DEF PollReset, Core, RoundInv
    <3>2. UNCHANGED chain
      BY <2>1, <2>6, <3>1 DEF EngineStep, StartCoordinator, StartWriter,
         AnswerRequest, CollectReply, AnnounceWinner, AwaitBlock
    <3>. QED
      BY <3>2, ChainsStutter
  <2>. QED
    BY <2>4, <2>5, <2>6
<1>2. CASE ~ \E n \in Writers : EngineStep(n)
  <2>1. UNCHANGED chain
    BY <1>2 DEF Next, ClientSubmit, DeleteChain, Terminated, vars
  <2>. QED
    BY <2>1, ChainsStutter
<1>. QED
  BY <1>1, <1>2

LEMMA InitImplements == ASSUME GoodStart, Init PROVE Ledger!Init
<1>1. Core /\ TypeOK
  BY InitCore, InitTypeOK DEF GoodStart
<1>2. \A n \in Writers : Len(chain[n]) = StartLen /\ StartLen \in Nat
  BY StartLenType DEF Init
<1>3. WriterList[1] \in Writers
  BY ConsensusAssumption, WritersType
<1>4. LongestChain = chain[WriterList[1]]
  BY <1>1, <1>2, <1>3, LedgerIs
<1>. QED
  BY <1>2, <1>3, <1>4 DEF Ledger!Init

\* The rounds implement one shared ledger as long as no reset is ordered: every
\* step of a node that was reached without one extends the ledger by one linked
\* block when all have the rest of it, or lets one node catch up, or changes
\* no chain.
THEOREM ImplementsUntilReset ==
  ASSUME GoodStart
  PROVE  Spec => /\ Ledger!Init
                 /\ [][resetNumber' = 0 => [Ledger!Next]_(Ledger!vars)]_vars
<1>. DEFINE Inv == TypeOK /\ IInv
<1>1. Init => Ledger!Init
  BY InitImplements
<1>2. Spec => []Inv
  BY InductiveInvariant
<1>3. Inv /\ Inv' /\ [Next]_vars
        => [resetNumber' = 0 => [Ledger!Next]_(Ledger!vars)]_vars
  BY StepImplements
<1>. QED
  BY <1>1, <1>2, <1>3, PTL DEF Spec

\* Without resets the rounds implement it for ever; that every node catches up
\* is the part of RefinesLedger that rests on fairness.
THEOREM ImplementsLedger ==
  ASSUME GoodStart, MaxResets = 0
  PROVE  Spec => Ledger!Init /\ [][Ledger!Next]_(Ledger!vars)
<1>. DEFINE Inv == TypeOK /\ IInv
<1>1. Init => Ledger!Init
  BY InitImplements
<1>2. Spec => []Inv
  BY InductiveInvariant
<1>3. Inv /\ Inv' /\ [Next]_vars => [Ledger!Next]_(Ledger!vars)
  <2>1. TypeOK' => resetNumber' = 0
    BY DEF TypeOK
  <2>. QED
    BY <2>1, StepImplements
<1>. QED
  BY <1>1, <1>2, <1>3, PTL DEF Spec

----------------------------------------------------------------------------
(* What the queues hold, for any number of writers: the message queues no   *)
(* left-overs, and the payload queues every payload that was acknowledged   *)
(* and is not in a block.                                                   *)

(* Messages.  Until a reset is ordered no message is left over from a round *)
(* its receiver has finished, and every outcome of the lottery is accepted  *)
(* by everybody, if the engines start from equal databases.                 *)

\* An announcement is for the round its receiver is in, who waits for it.
AnnounceToInv ==
  \A m \in MsgsOf("announce") :
    /\ round[m.to] = m.round /\ pc[m.to] = "announce"
    /\ \A o \in MsgsOf("announce") : o.to = m.to => o = m

\* A block is for the round its receiver is in.
BlockToInv ==
  \A m \in MsgsOf("block") :
    /\ round[m.to] = m.round
    /\ \A o \in MsgsOf("block") : o.to = m.to => o = m

\* A number that was sent or collected is the one its writer still has.
DrawnInv ==
  /\ \A m \in MsgsOf("reply") : m.number = pad[m.from]
  /\ \A n \in Writers : pc[n] = "replies" =>
       \A i \in DOMAIN numbers[n] : numbers[n][i][2] = pad[numbers[n][i][1]]

\* So the receiver finds its own number in an announced outcome.
VerifiedInv == \A m \in MsgsOf("announce") : Verified(m.to, m)

Alive == \A n \in Writers : pc[n] # "dead"

MessageCore ==
  AnnounceToInv /\ BlockToInv /\ DrawnInv /\ VerifiedInv /\ Alive

MessageInv == resetNumber = 0 => MessageCore

----------------------------------------------------------------------------
LEMMA MsgTypes ==
  ASSUME TypeOK, NEW type, NEW m \in MsgsOf(type)
  PROVE  m.from \in Writers /\ m.to \in Writers /\ m.to # m.from /\ m.type = type
BY DEF MsgsOf, TypeOK, IsMessage, Others

\* Requests and the start of a round.
LEMMA StartMessages ==
  ASSUME TypeOK, MessageCore, NEW n \in Writers,
         StartCoordinator(n) \/ StartWriter(n)
  PROVE  MessageCore'
<1>1. /\ pc[n] = "loop" /\ pc'[n] # "dead" /\ pc'[n] # "announce"
      /\ \A k \in Writers : k # n => pc'[k] = pc[k] /\ numbers'[k] = numbers[k]
      /\ pc'[n] = "replies" => numbers'[n] = <<>>
      /\ UNCHANGED <<round, pad>>
  BY DEF StartCoordinator, StartWriter, TypeOK
<1>2. /\ MsgsOf("announce")' = MsgsOf("announce")
      /\ MsgsOf("block")' = MsgsOf("block")
      /\ MsgsOf("reply")' = MsgsOf("reply")
  BY DEF StartCoordinator, StartWriter, MsgsOf, Request
<1>3. \A m \in MsgsOf("announce") : m.to \in Writers /\ m.to # n
  BY <1>1, MsgTypes DEF MessageCore, AnnounceToInv
<1>4. AnnounceToInv' /\ BlockToInv' /\ VerifiedInv' /\ Alive'
  BY <1>1, <1>2, <1>3
  DEF MessageCore, AnnounceToInv, BlockToInv, VerifiedInv, Verified, Alive
<1>5. DrawnInv'
  BY <1>1, <1>2 DEF MessageCore, DrawnInv
<1>. QED
  BY <1>4, <1>5 DEF MessageCore

LEMMA AnswerMessages ==
  ASSUME TypeOK, Core, MessageCore, NEW n \in Writers, AnswerRequest(n)
  PROVE  MessageCore'
<1>1. PICK m \in Receivable(n, "request"), x \in Pads :
        /\ pad' = [pad EXCEPT ![n] = x]
        /\ msgs' = (msgs \ {m}) \cup {Reply(round[n], n, m.from, x)}
  BY DEF AnswerRequest
<1>. DEFINE a == Reply(round[n], n, m.from, x)
<1>2. /\ pc[n] = "request" /\ pc' = [pc EXCEPT ![n] = "announce"]
      /\ UNCHANGED <<round, numbers>>
  BY DEF AnswerRequest
<1>3. a.type = "reply" /\ a.from = n /\ a.number = x /\ m.type = "request"
  BY DEF Reply, Receivable
<1>. HIDE DEF a
<1>4. /\ MsgsOf("announce")' = MsgsOf("announce")
      /\ MsgsOf("block")' = MsgsOf("block")
      /\ MsgsOf("reply")' = MsgsOf("reply") \cup {a}
  BY <1>1, <1>3 DEF MsgsOf, a
<1>5. /\ pad'[n] = x /\ pc'[n] = "announce"
      /\ \A k \in Writers : k # n => pc'[k] = pc[k] /\ pad'[k] = pad[k]
  BY <1>1, <1>2 DEF TypeOK
<1>6. \A o \in MsgsOf("announce") : o.to \in Writers /\ o.to # n
  BY <1>2, MsgTypes DEF MessageCore, AnnounceToInv
<1>7. AnnounceToInv' /\ BlockToInv' /\ VerifiedInv' /\ Alive'
  BY <1>2, <1>4, <1>5, <1>6
  DEF MessageCore, AnnounceToInv, BlockToInv, VerifiedInv, Verified, Alive
<1>8. \A o \in MsgsOf("reply") : o.from \in Writers /\ o.from # n
  BY <1>2, MsgTypes DEF Core, ReplyInv
<1>9. \A k \in Writers : pc[k] = "replies" => n \notin Ids(numbers[k])
  BY <1>2 DEF Core, NumbersInv
<1>10. DrawnInv'
  <2>1. \A o \in MsgsOf("reply")' : o.number = pad'[o.from]
    BY <1>3, <1>4, <1>5, <1>8 DEF MessageCore, DrawnInv
  <2>2. ASSUME NEW k \in Writers, pc'[k] = "replies", NEW i \in DOMAIN numbers[k]
        PROVE  numbers[k][i][2] = pad'[numbers[k][i][1]]
    <3>1. pc[k] = "replies"
      BY <1>5, <2>2
    <3>2. numbers[k][i][1] \in Ids(numbers[k])
      BY DEF Ids
    <3>3. numbers[k][i][1] \in Writers /\ numbers[k][i][1] # n
      BY <1>9, <3>1, <3>2, IdsType
    <3>. QED
      BY <1>5, <3>1, <3>3 DEF MessageCore, DrawnInv
  <2>. QED
    BY <1>2, <2>1, <2>2 DEF DrawnInv
<1>. QED
  BY <1>7, <1>10 DEF MessageCore

LEMMA CollectMessages ==
  ASSUME TypeOK, MessageCore, NEW n \in Writers, CollectReply(n)
  PROVE  MessageCore'
<1>1. PICK m \in Receivable(n, "reply") :
        /\ numbers' = [numbers EXCEPT ![n] = Append(@, <<m.from, m.number>>)]
        /\ msgs' = msgs \ {m}
  BY DEF CollectReply
<1>2. UNCHANGED <<pc, round, pad>>
  BY DEF CollectReply
<1>3. m \in MsgsOf("reply") /\ m.type = "reply"
  BY DEF Receivable, MsgsOf
<1>4. /\ MsgsOf("announce")' = MsgsOf("announce")
      /\ MsgsOf("block")' = MsgsOf("block")
      /\ MsgsOf("reply")' \subseteq MsgsOf("reply")
  BY <1>1, <1>3 DEF MsgsOf
<1>5. AnnounceToInv' /\ BlockToInv' /\ VerifiedInv' /\ Alive'
  BY <1>2, <1>4
  DEF MessageCore, AnnounceToInv, BlockToInv, VerifiedInv, Verified, Alive
<1>6. DrawnInv'
  <2>1. m.number = pad[m.from]
    BY <1>3 DEF MessageCore, DrawnInv
  <2>2. ASSUME NEW k \in Writers, pc[k] = "replies", NEW i \in DOMAIN numbers'[k]
        PROVE  numbers'[k][i][2] = pad[numbers'[k][i][1]]
    <3>1. CASE k # n
      <4>1. numbers'[k] = numbers[k]
        BY <1>1, <3>1 DEF TypeOK
      <4>. QED
        BY <2>2, <4>1 DEF MessageCore, DrawnInv
    <3>2. CASE k = n
      <4>1. /\ numbers[n] \in Seq(Writers \X Pads)
            /\ numbers'[n] = Append(numbers[n], <<m.from, m.number>>)
        BY <1>1 DEF TypeOK
      <4>2. /\ i \in 1 .. Len(numbers[n]) + 1 /\ Len(numbers[n]) \in Nat
            /\ DOMAIN numbers[n] = 1 .. Len(numbers[n])
            /\ \A j \in 1 .. Len(numbers[n]) : numbers'[n][j] = numbers[n][j]
            /\ numbers'[n][Len(numbers[n]) + 1] = <<m.from, m.number>>
        BY <2>2, <3>2, <4>1
      <4>3. CASE i = Len(numbers[n]) + 1
        BY <2>1, <3>2, <4>2, <4>3
      <4>4. CASE i \in 1 .. Len(numbers[n])
        BY <2>2, <3>2, <4>2, <4>4 DEF MessageCore, DrawnInv
      <4>5. i = Len(numbers[n]) + 1 \/ i \in 1 .. Len(numbers[n])
        BY <4>2
      <4>. QED
        BY <4>3, <4>4, <4>5
    <3>. QED
      BY <3>1, <3>2
  <2>. QED
    BY <1>2, <1>4, <2>2 DEF MessageCore, DrawnInv
<1>. QED
  BY <1>5, <1>6 DEF MessageCore

\* Everybody waits for the announcement, and none is under way.
LEMMA AnnounceMessages ==
  ASSUME TypeOK, Core, MessageCore, NEW n \in Writers, AnnounceWinner(n)
  PROVE  MessageCore'
<1>1. PICK p \in Pads, w \in Writers :
        /\ IsOutcome(numbers[n], p, w)
        /\ msgs' = msgs \cup {Announce(round[n], n, o, numbers[n], p, w) :
                                o \in Others(n)}
  BY DEF AnnounceWinner
<1>. DEFINE new == {Announce(round[n], n, o, numbers[n], p, w) : o \in Others(n)}
<1>2. /\ pc[n] = "replies" /\ pc' = [pc EXCEPT ![n] = "block"]
      /\ numbers' = [numbers EXCEPT ![n] = <<>>]
      /\ Len(numbers[n]) >= RepliesNeeded
      /\ UNCHANGED <<round, pad>>
  BY DEF AnnounceWinner
<1>3. /\ \A m \in new : /\ m.type = "announce" /\ m.round = round[n]
                        /\ m.to \in Others(n) /\ m.numbers = numbers[n]
                        /\ m.pad = p /\ m.winner = w
      /\ \A m, o \in new : m.to = o.to => m = o
  BY DEF Announce
<1>. HIDE DEF new
<1>4. /\ MsgsOf("announce")' = MsgsOf("announce") \cup new
      /\ MsgsOf("block")' = MsgsOf("block")
      /\ MsgsOf("reply")' = MsgsOf("reply")
  BY <1>1, <1>3 DEF MsgsOf, new
<1>5. /\ pc'[n] = "block" /\ \A k \in Writers : k # n => pc'[k] = pc[k]
      /\ \A k \in Writers : k # n => numbers'[k] = numbers[k]
  BY <1>2 DEF TypeOK
<1>6. numbers[n] \in Seq(Writers \X Pads)
  BY DEF TypeOK
<1>7. Writers \ {n} \subseteq Ids(numbers[n])
  <2>1. /\ \A i, j \in DOMAIN numbers[n] :
             numbers[n][i][1] = numbers[n][j][1] => i = j
        /\ n \notin Ids(numbers[n])
    BY <1>2 DEF Core, NumbersInv
  <2>. QED
    BY <1>2, <1>6, <2>1, AllReplied
<1>8. \A o \in Others(n) : round[o] = round[n] /\ pc[o] = "announce"
  BY <1>2, <1>7 DEF Core, NumbersInv, Others
<1>9. MsgsOf("announce") = {}
  <2>. SUFFICES ASSUME NEW m \in MsgsOf("announce") PROVE FALSE
    OBVIOUS
  <2>1. m.to \in Writers /\ round[m.to] = m.round /\ pc[m.to] = "announce"
    BY MsgTypes DEF MessageCore, AnnounceToInv
  <2>2. m.round = round[n]
    BY <1>2, <1>8, <2>1 DEF Others
  <2>3. pc[n] \in Engaged
    BY <2>2 DEF Core, CommittedInv, Committed
  <2>. QED
    BY <1>2, <2>3 DEF Engaged
<1>10. AnnounceToInv'
  BY <1>2, <1>3, <1>4, <1>5, <1>8, <1>9 DEF AnnounceToInv, Others
<1>11. VerifiedInv'
  <2>. SUFFICES ASSUME NEW m \in new PROVE Verified(m.to, m)'
    BY <1>4, <1>9 DEF VerifiedInv
  <2>1. m.to \in Ids(numbers[n])
    BY <1>3, <1>7 DEF Others
  <2>2. PICK i \in DOMAIN numbers[n] : numbers[n][i][1] = m.to
    BY <2>1 DEF Ids
  <2>3. numbers[n][i] \in Range(numbers[n]) /\ numbers[n][i][2] = pad[m.to]
    BY <1>2, <2>2 DEF MessageCore, DrawnInv, Range
  <2>4. VerifyRoundWinner(m.numbers, m.pad, m.winner, pad[m.to])
    BY <1>1, <1>3, <2>3 DEF VerifyRoundWinner
  <2>. QED
    BY <1>2, <2>4 DEF Verified
<1>12. BlockToInv' /\ Alive'
  BY <1>2, <1>4, <1>5 DEF MessageCore, BlockToInv, Alive
<1>13. DrawnInv'
  BY <1>2, <1>4, <1>5 DEF MessageCore, DrawnInv
<1>. QED
  BY <1>10, <1>11, <1>12, <1>13 DEF MessageCore

\* The outcome that is announced to a writer is one that it accepts.
LEMMA AwaitMessages ==
  ASSUME TypeOK, MessageCore, NEW n \in Writers, AwaitBlock(n)
  PROVE  MessageCore'
<1>1. PICK m \in Announcements(n) :
        /\ msgs' = msgs \ {m}
        /\ pc' = [pc EXCEPT ![n] = IF Verified(n, m) THEN "block" ELSE "dead"]
  BY DEF AwaitBlock
<1>2. UNCHANGED <<round, pad, numbers>>
  BY DEF AwaitBlock
<1>3. m \in MsgsOf("announce") /\ m.to = n /\ m.type = "announce"
  BY DEF Announcements, Receivable, MsgsOf
<1>4. /\ MsgsOf("announce")' = MsgsOf("announce") \ {m}
      /\ MsgsOf("block")' = MsgsOf("block")
      /\ MsgsOf("reply")' = MsgsOf("reply")
  BY <1>1, <1>3 DEF MsgsOf
<1>5. pc'[n] = "block" /\ \A k \in Writers : k # n => pc'[k] = pc[k]
  <2>1. Verified(n, m)
    BY <1>3 DEF MessageCore, VerifiedInv
  <2>. QED
    BY <1>1, <2>1 DEF TypeOK
<1>6. \A o \in MsgsOf("announce") \ {m} : o.to \in Writers /\ o.to # n
  BY <1>3, MsgTypes DEF MessageCore, AnnounceToInv
<1>7. AnnounceToInv' /\ BlockToInv' /\ VerifiedInv' /\ Alive'
  BY <1>2, <1>4, <1>5, <1>6
  DEF MessageCore, AnnounceToInv, BlockToInv, VerifiedInv, Verified, Alive
<1>8. DrawnInv'
  BY <1>2, <1>4, <1>5 DEF MessageCore, DrawnInv
<1>. QED
  BY <1>7, <1>8 DEF MessageCore

\* A writer that stores a block has no number under way or collected.
LEMMA StoreMessages ==
  ASSUME TypeOK, Core, MessageCore, NEW n \in Writers, NEW b, StoreBlock(n, b),
         pc[n] \in {"announce", "block"}, Committed(round[n]),
         \A m \in MsgsOf("announce")' : m \in MsgsOf("announce") /\ m.to # n,
         MsgsOf("reply")' = MsgsOf("reply")
  PROVE  AnnounceToInv' /\ DrawnInv' /\ VerifiedInv' /\ Alive'
<1>1. /\ pc'[n] = "loop"
      /\ \A k \in Writers : k # n =>
           pc'[k] = pc[k] /\ round'[k] = round[k] /\ pad'[k] = pad[k]
      /\ numbers' = numbers
  BY DEF StoreBlock, TypeOK
<1>2. AnnounceToInv' /\ VerifiedInv'
  BY <1>1, MsgTypes DEF MessageCore, AnnounceToInv, VerifiedInv, Verified
<1>3. Alive'
  BY <1>1 DEF MessageCore, Alive
<1>4. \A k \in Writers : round[k] = round[n] => pc[k] # "replies"
  BY DEF Committed, Engaged
<1>5. \A o \in MsgsOf("reply") : o.from \in Writers /\ o.from # n
  <2>. SUFFICES ASSUME NEW o \in MsgsOf("reply"), o.from = n PROVE FALSE
    BY MsgTypes
  <2>1. o.to \in Writers /\ pc[o.to] = "replies" /\ round[o.to] = round[n]
    BY MsgTypes DEF Core, ReplyInv
  <2>. QED
    BY <1>4, <2>1
<1>6. \A k \in Writers : pc[k] = "replies" => n \notin Ids(numbers[k])
  BY <1>4 DEF Core, NumbersInv
<1>7. DrawnInv'
  <2>1. ASSUME NEW k \in Writers, pc'[k] = "replies", NEW i \in DOMAIN numbers[k]
        PROVE  numbers[k][i][2] = pad'[numbers[k][i][1]]
    <3>1. pc[k] = "replies"
      BY <1>1, <2>1
    <3>2. numbers[k][i][1] \in Ids(numbers[k])
      BY DEF Ids
    <3>3. numbers[k][i][1] \in Writers /\ numbers[k][i][1] # n
      BY <1>6, <3>1, <3>2, IdsType
    <3>. QED
      BY <1>1, <3>1, <3>3 DEF MessageCore, DrawnInv
  <2>. QED
    BY <1>1, <1>5, <2>1 DEF MessageCore, DrawnInv
<1>. QED
  BY <1>2, <1>3, <1>7

\* All are in the winner's round when it makes its block, so that the block is
\* for the round its receivers are in and no older one is under way.
LEMMA WinRoundMessages ==
  ASSUME TypeOK, Core, MessageCore, NEW n \in Writers, WinRound(n)
  PROVE  MessageCore'
<1>. DEFINE b == CreateBlock(n, round[n])
            new == {BlockMsg(round[n], n, o, b) : o \in Others(n)}
<1>1. PICK m \in Announcements(n) :
        /\ m.winner = n
        /\ msgs' = (msgs \ {m}) \cup new
        /\ StoreBlock(n, b)
  BY DEF WinRound, IsWinner
<1>2. /\ \A c \in new : c.type = "block" /\ c.round = round[n] /\ c.to \in Others(n)
      /\ \A c, d \in new : c.to = d.to => c = d
  BY DEF BlockMsg
<1>. HIDE DEF b, new
<1>3. /\ m \in MsgsOf("announce") /\ m.round = round[n] /\ m.to = n
      /\ Committed(round[n]) /\ m.type = "announce"
  <2>1. m \in Receivable(n, "announce")
    BY DEF Announcements
  <2>. QED
    BY <2>1, TakenInTime DEF Receivable
<1>4. \A x \in Writers : round[x] = round[n]
  <2>. SUFFICES ASSUME NEW x \in Writers PROVE round[x] = round[n]
    OBVIOUS
  <2>1. round[x] \in Nat /\ round[n] \in Nat
    BY DEF TypeOK
  <2>. QED
    BY <1>1, <1>3, <2>1 DEF Core, WinnerInv, Committed
<1>5. MsgsOf("block") = {}
  <2>. SUFFICES ASSUME NEW c \in MsgsOf("block") PROVE FALSE
    OBVIOUS
  <2>1. /\ c.to \in Writers /\ c.from \in Writers
        /\ c.round = round[c.to] /\ round[c.from] > c.round
    BY MsgTypes DEF MessageCore, BlockToInv, Core, BlockInv
  <2>2. round[c.from] = round[n] /\ round[c.to] = round[n] /\ round[n] \in Nat
    BY <1>4, <2>1 DEF TypeOK
  <2>. QED
    BY <2>1, <2>2
<1>6. /\ MsgsOf("announce")' = MsgsOf("announce") \ {m}
      /\ MsgsOf("block")' = new
      /\ MsgsOf("reply")' = MsgsOf("reply")
  BY <1>1, <1>2, <1>3, <1>5 DEF MsgsOf
<1>7. \A o \in MsgsOf("announce")' : o \in MsgsOf("announce") /\ o.to # n
  BY <1>3, <1>6 DEF MessageCore, AnnounceToInv
<1>8. AnnounceToInv' /\ DrawnInv' /\ VerifiedInv' /\ Alive'
  BY <1>1, <1>3, <1>6, <1>7, StoreMessages DEF WinRound
<1>9. BlockToInv'
  <2>1. \A x \in Writers : x # n => round'[x] = round[x]
    BY <1>1 DEF StoreBlock, TypeOK
  <2>. QED
    BY <1>2, <1>4, <1>6, <2>1 DEF BlockToInv, Others
<1>. QED
  BY <1>8, <1>9 DEF MessageCore

LEMMA ReceiveMessages ==
  ASSUME TypeOK, Core, MessageCore, NEW n \in Writers, ReceiveBlock(n)
  PROVE  MessageCore'
<1>1. PICK m \in Receivable(n, "block") :
        msgs' = msgs \ {m} /\ StoreBlock(n, m.block)
  BY DEF ReceiveBlock
<1>2. pc[n] = "block" /\ Committed(round[n])
  BY <1>1, TakenInTime DEF ReceiveBlock
<1>3. m \in MsgsOf("block") /\ m.type = "block" /\ m.to = n
  BY DEF Receivable, MsgsOf
<1>4. /\ MsgsOf("announce")' = MsgsOf("announce")
      /\ MsgsOf("block")' = MsgsOf("block") \ {m}
      /\ MsgsOf("reply")' = MsgsOf("reply")
  BY <1>1, <1>3 DEF MsgsOf
<1>5. \A o \in MsgsOf("announce") : o.to # n
  BY <1>2 DEF MessageCore, AnnounceToInv
<1>6. AnnounceToInv' /\ DrawnInv' /\ VerifiedInv' /\ Alive'
  BY <1>1, <1>2, <1>4, <1>5, StoreMessages
<1>7. BlockToInv'
  <2>1. \A x \in Writers : x # n => round'[x] = round[x]
    BY <1>1 DEF StoreBlock, TypeOK
  <2>2. \A o \in MsgsOf("block") \ {m} : o.to \in Writers /\ o.to # n
    BY <1>3, MsgTypes DEF MessageCore, BlockToInv
  <2>. QED
    BY <1>4, <2>1, <2>2 DEF MessageCore, BlockToInv
<1>. QED
  BY <1>6, <1>7 DEF MessageCore

----------------------------------------------------------------------------
LEMMA SameMessages ==
  ASSUME MessageCore, UNCHANGED <<engineVars, msgs>>
  PROVE  MessageCore'
BY DEF MessageCore, engineVars, AnnounceToInv, BlockToInv, DrawnInv, VerifiedInv,
       Verified, Alive, MsgsOf

LEMMA NextMessageInv ==
  TypeOK /\ IInv /\ MessageInv /\ [Next]_vars => MessageInv'
<1>. SUFFICES ASSUME TypeOK, IInv, MessageInv, [Next]_vars, resetNumber' = 0
              PROVE  MessageCore'
  BY DEF MessageInv
<1>1. resetNumber = 0
  <2>1. CASE DeleteChain
    BY <2>1 DEF DeleteChain, TypeOK
  <2>2. CASE ~DeleteChain
    BY <2>2 DEF Next, EngineStep, StartCoordinator, StartWriter, AnswerRequest,
                CollectReply, AnnounceWinner, WinRound, AwaitBlock, ReceiveBlock,
                PollReset, resetVars, ClientSubmit, Terminated, vars
  <2>. QED
    BY <2>1, <2>2
<1>2. Core /\ MessageCore
  BY <1>1 DEF IInv, MessageInv
<1>3. CASE \E n \in Writers : EngineStep(n)
  BY <1>2, <1>3, StartMessages, AnswerMessages, CollectMessages, AnnounceMessages,
     AwaitMessages, WinRoundMessages, ReceiveMessages DEF EngineStep
<1>4. CASE ~ \E n \in Writers : EngineStep(n)
  <2>1. UNCHANGED <<engineVars, msgs>>
    BY <1>4 DEF Next, ClientSubmit, DeleteChain, Terminated, vars
  <2>. QED
    BY <1>2, <2>1, SameMessages
<1>. QED
  BY <1>3, <1>4

LEMMA InitMessageInv == Init => MessageInv
<1>. SUFFICES ASSUME Init PROVE MessageCore
  BY DEF MessageInv
<1>1. (\A type : MsgsOf(type) = {}) /\ \A n \in Writers : pc[n] = "loop"
  BY DEF Init, MsgsOf
<1>. QED
  BY <1>1 DEF MessageCore, AnnounceToInv, BlockToInv, DrawnInv, VerifiedInv, Alive

THEOREM MessageInvariant ==
  ASSUME GoodStart
  PROVE  Spec => []MessageInv
<1>1. Spec => [](TypeOK /\ IInv)
  BY InductiveInvariant
<1>. QED
  BY <1>1, InitMessageInv, NextMessageInv, PTL DEF Spec

\* The queues hold no left-overs: a message still to be received is for the round
\* its receiver is in, which waits for it or will, or for one it has before it.
THEOREM NoStaleMessagesHolds ==
  ASSUME GoodStart
  PROVE  Spec => []NoStaleMessages
<1>1. TypeOK /\ IInv /\ MessageInv => NoStaleMessages
  <2>. SUFFICES ASSUME TypeOK, Core, MessageCore, NEW m \in msgs
                PROVE  /\ m.round >= round[m.to]
                       /\ m.round = round[m.to] => m.type \in Awaited(m.to)
                       /\ m.round > round[m.to] =>
                            m.type = "request" /\ pc[m.to] \in {"announce", "block"}
    BY DEF IInv, MessageInv, NoStaleMessages
  <2>1. /\ m.type \in {"request", "reply", "announce", "block"}
        /\ m \in MsgsOf(m.type)
        /\ m.from \in Writers /\ m.to \in Writers /\ m.round \in Nat
        /\ round[m.to] \in Nat /\ round[m.from] \in Nat
        /\ pc[m.to] # "dead"
    BY DEF TypeOK, IsMessage, Others, MsgsOf, MessageCore, Alive
  <2>2. CASE m.type = "request"
    <3>1. /\ round[m.to] <= m.round /\ round[m.from] = m.round
          /\ round[m.to] = m.round => pc[m.to] \in {"loop", "request"}
      BY <2>1, <2>2 DEF Core, RequestInv
    <3>2. round[m.to] < m.round => pc[m.to] \in {"announce", "block"}
      BY <2>1, <3>1 DEF Core, BehindInv, Engaged
    <3>. QED
      BY <2>1, <2>2, <3>1, <3>2 DEF Awaited
  <2>3. CASE m.type = "reply"
    <3>1. round[m.to] = m.round /\ pc[m.to] = "replies"
      BY <2>1, <2>3 DEF Core, ReplyInv
    <3>. QED
      BY <2>1, <2>3, <3>1 DEF Awaited
  <2>4. CASE m.type = "announce"
    <3>1. round[m.to] = m.round /\ pc[m.to] = "announce"
      BY <2>1, <2>4 DEF MessageCore, AnnounceToInv
    <3>. QED
      BY <2>1, <2>4, <3>1 DEF Awaited
  <2>5. CASE m.type = "block"
    <3>1. round[m.to] = m.round /\ round[m.from] > m.round
      BY <2>1, <2>5 DEF MessageCore, BlockToInv, Core, BlockInv
    <3>2. pc[m.to] \in {"announce", "block"}
      BY <2>1, <3>1 DEF Core, BehindInv, Engaged
    <3>. QED
      BY <2>1, <2>5, <3>1, <3>2 DEF Awaited
  <2>. QED
    BY <2>1, <2>2, <2>3, <2>4, <2>5
<1>. QED
  BY <1>1, InductiveInvariant, MessageInvariant, PTL

\* verify_round_winner never rejects an outcome that a coordinator announced, so
\* no engine comes to cancel_round, in which it would die.
THEOREM OutcomesAccepted ==
  ASSUME GoodStart
  PROVE  Spec => [](resetNumber = 0 => Alive)
<1>1. MessageInv => (resetNumber = 0 => Alive)
  BY DEF MessageInv, MessageCore
<1>. QED
  BY <1>1, MessageInvariant, PTL

----------------------------------------------------------------------------
(* The lottery's outcome.                                                   *)

\* calculate_sum's minimum: w's number is the closest to p, or of a lower id
\* among the closest.
Wins(replies, p, w) ==
  \E e \in Range(replies) :
    e[1] = w /\ \A f \in Range(replies) : Beats(e, f, p)

\* A set of numbers has a least member.
LEMMA LeastOf ==
  ASSUME NEW T, \A x \in T : x \in Nat, T # {}
  PROVE  \E x \in T : \A y \in T : x <= y
<1>. DEFINE R == OpToRel(<, Nat)
<1>1. IsWellFoundedOn(R, Nat)
  BY NatLessThanWellFounded
<1>2. \A x, y \in Nat : <<y, x>> \in R <=> y < x
  BY DEF OpToRel
<1>. HIDE DEF R
<1>3. PICK x \in T : \A y \in T : ~(<<y, x>> \in R)
  <2>1. T \subseteq Nat
    OBVIOUS
  <2>. QED
    BY <1>1, <2>1, WFMin
<1>4. ASSUME NEW y \in T PROVE x <= y
  <2>1. ~(y < x)
    BY <1>2, <1>3
  <2>. QED
    BY <2>1
<1>. QED
  BY <1>4

LEMMA DistanceType ==
  ASSUME NEW a \in Int, NEW b \in Int
  PROVE  Distance(a, b) \in Nat
<1>1. (a - b) % Modulus \in Nat /\ (b - a) % Modulus \in Nat
  OBVIOUS
<1>. QED
  BY <1>1 DEF Distance

\* The replies of different writers have one winner for every pad.
LEMMA WinnerOf ==
  ASSUME NEW replies \in Seq(Nat \X Nat), replies # <<>>, NEW p \in Pads,
         \A i, j \in DOMAIN replies : replies[i][1] = replies[j][1] => i = j
  PROVE  \E w \in Ids(replies) : \A v : Wins(replies, p, v) <=> v = w
<1>. DEFINE S == Range(replies)
            d(e) == Distance(e[2], p)
<1>1. /\ S # {} /\ \A e \in S : e[1] \in Nat /\ e[2] \in Nat
      /\ \A e \in S : e[1] \in Ids(replies)
  BY SMTT(30) DEF Range, Ids
<1>2. \A e, f \in S : e[1] = f[1] => e = f
  BY DEF Range
<1>3. \A e \in S : d(e) \in Nat
  <2>1. p \in Int /\ \A e \in S : e[2] \in Int
    BY <1>1 DEF Pads
  <2>2. ASSUME NEW e \in S PROVE d(e) \in Nat
    BY <2>1, DistanceType
  <2>. QED
    BY <2>2
<1>. HIDE DEF S, d
<1>4. PICK near \in S : \A f \in S : d(near) <= d(f)
  <2>. DEFINE T == {d(e) : e \in S}
  <2>1. T # {} /\ \A x \in T : x \in Nat
    BY <1>1, <1>3
  <2>2. PICK x \in T : \A y \in T : x <= y
    BY <2>1, LeastOf
  <2>. QED
    BY <2>2
<1>5. PICK e \in S : d(e) = d(near) /\ \A f \in S : d(f) = d(near) => e[1] <= f[1]
  <2>. DEFINE N == {f \in S : d(f) = d(near)}
              T == {f[1] : f \in N}
  <2>1. near \in N /\ \A x \in T : x \in Nat
    BY <1>1
  <2>2. T # {}
    BY <2>1
  <2>3. PICK x \in T : \A y \in T : x <= y
    BY <2>1, <2>2, LeastOf
  <2>. QED
    BY <2>3
<1>6. \A f \in S : Beats(e, f, p)
  BY <1>1, <1>3, <1>4, <1>5 DEF Beats, d
<1>7. ASSUME NEW g \in S, \A f \in S : Beats(g, f, p) PROVE g[1] = e[1]
  <2>1. Beats(g, e, p) /\ Beats(e, g, p)
    BY <1>6, <1>7
  <2>2. d(g) = d(e) /\ g[1] <= e[1] /\ e[1] <= g[1]
    BY <1>3, <2>1 DEF Beats, d
  <2>. QED
    BY <1>1, <2>2
<1>8. \A v : Wins(replies, p, v) <=> v = e[1]
  BY <1>5, <1>6, <1>7 DEF Wins, S
<1>. QED
  BY <1>1, <1>8

\* Pad and winner are the same in whichever order the replies arrived.
THEOREM OutcomeOfReplies ==
  ASSUME NEW replies \in Seq(Nat \X Nat), NEW p, NEW w,
         NEW order \in Bijection(DOMAIN replies, DOMAIN replies)
  PROVE  IsOutcome([i \in DOMAIN replies |-> replies[order[i]]], p, w)
           <=> IsOutcome(replies, p, w)
<1>. DEFINE D == DOMAIN replies
            other == [i \in D |-> replies[order[i]]]
            Ones(r, b) == {i \in DOMAIN r : Bit(r[i][2], b) = 1}
<1>1. /\ \A i \in D : order[i] \in D
      /\ \A i, j \in D : order[i] = order[j] => i = j
      /\ \A j \in D : \E i \in D : order[i] = j
      /\ DOMAIN order = D
  BY DEF Bijection, Injection, Surjection, IsInjective
<1>2. DOMAIN other = D /\ \A i \in D : other[i] = replies[order[i]]
  OBVIOUS
<1>3. IsFiniteSet(D)
  <2>1. D = 1 .. Len(replies) /\ Len(replies) \in Nat
    OBVIOUS
  <2>. QED
    BY <2>1, FS_Interval
<1>. HIDE DEF D, other
<1>4. Range(other) = Range(replies)
  <2>1. \A i \in D : \E j \in D : other[i] = replies[j]
    BY <1>1, <1>2
  <2>2. ASSUME NEW j \in D PROVE \E i \in D : other[i] = replies[j]
    <3>1. PICK i \in D : order[i] = j
      BY <1>1
    <3>2. other[i] = replies[j]
      BY <1>2, <3>1
    <3>. QED
      BY <3>2
  <2>3. DOMAIN replies = D
    BY DEF D
  <2>. QED
    BY <1>2, <2>1, <2>2, <2>3 DEF Range
<1>5. ASSUME NEW b PROVE Cardinality(Ones(other, b)) = Cardinality(Ones(replies, b))
  <2>. DEFINE A == Ones(other, b)
              B == Ones(replies, b)
              f == [i \in A |-> order[i]]
  <2>1. A = {i \in D : Bit(replies[order[i]][2], b) = 1}
    BY <1>2
  <2>2. B = {i \in D : Bit(replies[i][2], b) = 1}
    BY DEF D
  <2>. HIDE DEF A, B
  <2>3. f \in Bijection(A, B)
    <3>1. \A i \in A : f[i] \in B
      BY <1>1, <2>1, <2>2
    <3>2. \A i, j \in A : f[i] = f[j] => i = j
      BY <1>1, <2>1
    <3>3. \A j \in B : \E i \in A : f[i] = j
      BY <1>1, <2>1, <2>2
    <3>. QED
      BY <3>1, <3>2, <3>3 DEF Bijection, Injection, Surjection, IsInjective
  <2>4. IsFiniteSet(A)
    BY <1>3, <2>1, FS_Subset
  <2>5. ExistsBijection(A, B)
    BY <2>3 DEF ExistsBijection
  <2>. QED
    BY <2>4, <2>5, FS_Bijection DEF A, B
<1>6. \A x : IsXor(x, other) <=> IsXor(x, replies)
  BY <1>5 DEF IsXor
<1>7. IsOutcome(other, p, w) <=> IsOutcome(replies, p, w)
  BY <1>4, <1>6 DEF IsOutcome
<1>. QED
  BY <1>7 DEF other, D

\* Whoever has the replies of a round can name one winner only, another writer
\* than the coordinator, which draws no number; and verify_round_winner refuses
\* every other.
THEOREM OneWinner ==
  ASSUME GoodStart
  PROVE  Spec => [](resetNumber = 0 =>
                      \A n \in Writers, p \in Pads :
                        pc[n] = "replies" /\ Len(numbers[n]) >= RepliesNeeded =>
                          \E w \in Writers \ {n} :
                            /\ Wins(numbers[n], p, w)
                            /\ \A v, mine :
                                 VerifyRoundWinner(numbers[n], p, v, mine) => v = w)
<1>. DEFINE One ==
  resetNumber = 0 =>
    \A n \in Writers, p \in Pads :
      pc[n] = "replies" /\ Len(numbers[n]) >= RepliesNeeded =>
        \E w \in Writers \ {n} :
          /\ Wins(numbers[n], p, w)
          /\ \A v, mine : VerifyRoundWinner(numbers[n], p, v, mine) => v = w
<1>1. TypeOK /\ IInv => One
  <2>. SUFFICES ASSUME TypeOK, Core, NEW n \in Writers, NEW p \in Pads,
                       pc[n] = "replies", Len(numbers[n]) >= RepliesNeeded
                PROVE  \E w \in Writers \ {n} :
                         /\ Wins(numbers[n], p, w)
                         /\ \A v, mine :
                              VerifyRoundWinner(numbers[n], p, v, mine) => v = w
    BY DEF IInv
  <2>1. numbers[n] \in Seq(Nat \X Nat) /\ Ids(numbers[n]) \subseteq Writers
    <3>1. numbers[n] \in Seq(Writers \X Pads)
      BY DEF TypeOK
    <3>2. /\ Len(numbers[n]) \in Nat /\ DOMAIN numbers[n] = 1 .. Len(numbers[n])
          /\ \A i \in 1 .. Len(numbers[n]) : numbers[n][i] \in Writers \X Pads
      BY <3>1
    <3>3. Writers \X Pads \subseteq Nat \X Nat
      BY WritersType, PadsType
    <3>4. numbers[n] \in Seq(Nat \X Nat)
      BY <3>1, <3>3
    <3>. QED
      BY <3>2, <3>4 DEF Ids
  <2>2. numbers[n] # <<>>
    BY WritersType, ConsensusAssumption DEF RepliesNeeded, NumWriters
  <2>3. /\ \A i, j \in DOMAIN numbers[n] :
             numbers[n][i][1] = numbers[n][j][1] => i = j
        /\ n \notin Ids(numbers[n])
    BY DEF Core, NumbersInv
  <2>4. PICK w \in Ids(numbers[n]) : \A v : Wins(numbers[n], p, v) <=> v = w
    BY <2>1, <2>2, <2>3, WinnerOf
  <2>5. ASSUME NEW v, NEW mine, VerifyRoundWinner(numbers[n], p, v, mine)
        PROVE  v = w
    <3>1. IsOutcome(numbers[n], p, v)
      BY <2>5 DEF VerifyRoundWinner
    <3>2. Wins(numbers[n], p, v)
      BY <3>1 DEF IsOutcome, Wins
    <3>. QED
      BY <2>4, <3>2
  <2>. QED
    BY <2>1, <2>3, <2>4, <2>5
<1>. QED
  BY <1>1, InductiveInvariant, PTL

----------------------------------------------------------------------------
(* Payloads.  Whatever resets are ordered none enters a chain twice, and    *)
(* until one is ordered none is lost.  This needs nothing of the agreement  *)
(* of the chains.                                                           *)

\* No client sends the two payloads that stand for something else, and none of
\* the payloads to come is in a database when the engines start.
NewPayloads ==
  /\ NoPayload \notin Payloads /\ GenesisPayload \notin Payloads
  /\ \A n \in Writers : \A i \in 1 .. Len(InitialChain[n]) :
       InitialChain[n][i].payload \notin Payloads

InQueue(n, p) == \E i \in 1 .. Len(payload_queue[n]) : payload_queue[n][i] = p

InChain(n, p) == \E i \in 1 .. Len(chain[n]) : chain[n][i].payload = p

\* The blocks on their way that carry p.
Carriers(p) == {m \in MsgsOf("block") : m.block.payload = p}

\* A payload is once in a queue or once in a chain.
OnceInv ==
  \A n \in Writers :
    /\ \A i, j \in 1 .. Len(payload_queue[n]) :
         payload_queue[n][i] = payload_queue[n][j] => i = j
    /\ \A i, j \in 1 .. Len(chain[n]) :
         chain[n][i].payload \in Payloads /\ chain[n][i].payload = chain[n][j].payload
           => i = j

\* What queues, chains and blocks hold was submitted, and sent by the writer it
\* was submitted to.
OriginInv ==
  \A p \in Payloads :
    /\ \A n \in Writers : InQueue(n, p) => submitted[p] = n
    /\ \A n \in Writers : InChain(n, p) => submitted[p] # 0
    /\ \A m \in Carriers(p) : submitted[p] = m.from

\* A payload that waits in a queue is nowhere else, one that is on its way to a
\* node is on its way to it once, and not in that node's chain.
ApartInv ==
  \A p \in Payloads :
    /\ \A k, n \in Writers : InQueue(k, p) => ~InChain(n, p)
    /\ \A k \in Writers : InQueue(k, p) => Carriers(p) = {}
    /\ \A m \in Carriers(p) : ~InChain(m.to, p)
    /\ \A m, o \in Carriers(p) : m.to = o.to => m = o

\* Before a reset is ordered the writer it was submitted to has it.
KeptInv ==
  resetNumber = 0 =>
    \A n \in Writers, p \in Payloads :
      submitted[p] = n => InQueue(n, p) \/ InChain(n, p)

PayloadInv == OnceInv /\ OriginInv /\ ApartInv /\ KeptInv

----------------------------------------------------------------------------
LEMMA InitPayloadInv == ASSUME TypedStart, NewPayloads, Init PROVE PayloadInv
<1>1. /\ \A n \in Writers : payload_queue[n] = <<>> /\ chain[n] = InitialChain[n]
      /\ \A p \in Payloads : submitted[p] = 0
      /\ msgs = {}
  BY DEF Init
<1>2. \A n \in Writers, p \in Payloads : ~InQueue(n, p) /\ ~InChain(n, p)
  BY <1>1 DEF InQueue, InChain, NewPayloads
<1>3. \A p \in Payloads : Carriers(p) = {}
  BY <1>1 DEF Carriers, MsgsOf
<1>4. OnceInv
  BY <1>1 DEF OnceInv, NewPayloads
<1>5. KeptInv
  BY <1>1, ConsensusAssumption, WritersType DEF KeptInv
<1>. QED
  BY <1>2, <1>3, <1>4, <1>5 DEF PayloadInv, OriginInv, ApartInv

LEMMA CarrierType ==
  ASSUME TypeOK, NEW p, NEW m \in Carriers(p)
  PROVE  m.from \in Writers /\ m.to \in Writers /\ m.to # m.from /\ m \in MsgsOf("block")
BY DEF Carriers, MsgsOf, TypeOK, IsMessage, Others

\* A step that adds no block and takes no payload, but may delete a chain after
\* a reset was ordered.
LEMMA NothingAdded ==
  ASSUME TypeOK, PayloadInv, UNCHANGED clientVars, resetNumber' = 0 => resetNumber = 0,
         MsgsOf("block")' \subseteq MsgsOf("block"),
         \A n \in Writers : \/ chain'[n] = chain[n]
                            \/ chain'[n] = <<>> /\ resetNumber' # 0
  PROVE  PayloadInv'
<1>1. /\ \A n \in Writers, p \in Payloads : InQueue(n, p)' <=> InQueue(n, p)
      /\ \A n \in Writers, p \in Payloads : InChain(n, p)' => InChain(n, p)
      /\ resetNumber' = 0 => \A n \in Writers : chain'[n] = chain[n]
      /\ \A p \in Payloads : Carriers(p)' \subseteq Carriers(p)
  BY DEF InQueue, InChain, Carriers, clientVars
<1>2. OnceInv'
  BY DEF PayloadInv, OnceInv, clientVars
<1>3. OriginInv'
  BY <1>1 DEF PayloadInv, OriginInv, clientVars
<1>4. ApartInv'
  <2>1. \A p \in Payloads : \A m \in Carriers(p)' : ~InChain(m.to, p)'
    BY <1>1, CarrierType DEF PayloadInv, ApartInv
  <2>. QED
    BY <1>1, <2>1 DEF PayloadInv, ApartInv
<1>5. KeptInv'
  <2>1. resetNumber' = 0 =>
          \A n \in Writers, p \in Payloads : InChain(n, p)' <=> InChain(n, p)
    BY <1>1 DEF InChain
  <2>. QED
    BY <1>1, <2>1 DEF PayloadInv, KeptInv, clientVars
<1>. QED
  BY <1>2, <1>3, <1>4, <1>5 DEF PayloadInv

\* A new payload goes to the end of one queue.
LEMMA ClientSubmitInv ==
  ASSUME TypeOK, PayloadInv, NEW n \in Writers, NEW p \in Payloads, ClientSubmit(n, p)
  PROVE  PayloadInv'
<1>. DEFINE q == payload_queue[n]
<1>1. /\ submitted[p] = 0 /\ submitted' = [submitted EXCEPT ![p] = n]
      /\ payload_queue' = [payload_queue EXCEPT ![n] = Append(q, p)]
      /\ UNCHANGED <<chain, msgs, resetNumber>>
  BY DEF ClientSubmit, resetVars
<1>2. /\ q \in Seq(Payloads) /\ Len(q) \in Nat
      /\ submitted \in [Payloads -> Writers \cup {0}] /\ 0 \notin Writers
  BY ConsensusAssumption, WritersType DEF TypeOK
<1>3. /\ payload_queue'[n] = Append(q, p) /\ Len(payload_queue'[n]) = Len(q) + 1
      /\ \A i \in 1 .. Len(q) : payload_queue'[n][i] = q[i]
      /\ payload_queue'[n][Len(q) + 1] = p
      /\ \A k \in Writers : k # n => payload_queue'[k] = payload_queue[k]
  BY <1>1, <1>2 DEF TypeOK
<1>4. \A k \in Writers : ~InQueue(k, p) /\ ~InChain(k, p)
  BY <1>1, <1>2 DEF PayloadInv, OriginInv
<1>. DEFINE l == Len(q)
<1>12. /\ l \in Nat
       /\ \A o : InQueue(n, o) <=> \E i \in 1 .. l : q[i] = o
       /\ \A o : InQueue(n, o)' <=> \E i \in 1 .. l + 1 : payload_queue'[n][i] = o
       /\ \A i \in 1 .. l : payload_queue'[n][i] = q[i]
       /\ payload_queue'[n][l + 1] = p
  BY <1>2, <1>3 DEF InQueue
<1>. HIDE DEF q, l
<1>5. \A k \in Writers, o \in Payloads :
        /\ InQueue(k, o)' <=> InQueue(k, o) \/ (k = n /\ o = p)
        /\ InChain(k, o)' <=> InChain(k, o)
  <2>1. ASSUME NEW k \in Writers, NEW o \in Payloads
        PROVE  InQueue(k, o)' <=> InQueue(k, o) \/ (k = n /\ o = p)
    <3>1. CASE k = n
      <4>1. InQueue(n, o)' => InQueue(n, o) \/ o = p
        BY <1>12
      <4>2. InQueue(n, o) => InQueue(n, o)'
        BY <1>12
      <4>3. InQueue(n, p)'
        BY <1>12
      <4>. QED
        BY <3>1, <4>1, <4>2, <4>3
    <3>2. CASE k # n
      BY <1>3, <3>2 DEF InQueue
    <3>. QED
      BY <3>1, <3>2
  <2>. QED
    BY <1>1, <2>1 DEF InChain
<1>6. \A o : Carriers(o)' = Carriers(o)
  BY <1>1 DEF Carriers, MsgsOf
<1>7. Carriers(p) = {}
  <2>1. \A m \in Carriers(p) : m.from \in Writers
    BY DEF Carriers, MsgsOf, TypeOK, IsMessage
  <2>. QED
    BY <1>1, <1>2, <2>1 DEF PayloadInv, OriginInv
<1>8. OnceInv'
  <2>1. ASSUME NEW k \in Writers, NEW i \in 1 .. Len(payload_queue'[k]),
               NEW j \in 1 .. Len(payload_queue'[k]),
               payload_queue'[k][i] = payload_queue'[k][j]
        PROVE  i = j
    <3>1. CASE k # n
      BY <1>3, <2>1, <3>1 DEF PayloadInv, OnceInv
    <3>2. CASE k = n
      <4>1. \A x \in 1 .. l : q[x] # p
        BY <1>4, <1>12
      <4>2. \A x, y \in 1 .. l : q[x] = q[y] => x = y
        BY DEF PayloadInv, OnceInv, q, l
      <4>3. i \in 1 .. l + 1 /\ j \in 1 .. l + 1
            /\ payload_queue'[n][i] = payload_queue'[n][j]
        BY <1>3, <2>1, <3>2 DEF l
      <4>. QED
        BY <1>12, <4>1, <4>2, <4>3
    <3>. QED
      BY <3>1, <3>2
  <2>2. chain' = chain
    BY <1>1
  <2>. QED
    BY <2>1, <2>2 DEF PayloadInv, OnceInv
<1>9. OriginInv'
  <2>. SUFFICES ASSUME NEW o \in Payloads
                PROVE  /\ \A k \in Writers : InQueue(k, o)' => submitted'[o] = k
                       /\ \A k \in Writers : InChain(k, o)' => submitted'[o] # 0
                       /\ \A m \in Carriers(o)' : submitted'[o] = m.from
    BY DEF OriginInv
  <2>1. submitted'[o] = IF o = p THEN n ELSE submitted[o]
    BY <1>1, <1>2
  <2>. QED
    BY <1>2, <1>4, <1>5, <1>6, <1>7, <2>1 DEF PayloadInv, OriginInv
<1>10. ApartInv'
  <2>. SUFFICES ASSUME NEW o \in Payloads
                PROVE  /\ \A j, k \in Writers : InQueue(j, o)' => ~InChain(k, o)'
                       /\ \A k \in Writers : InQueue(k, o)' => Carriers(o)' = {}
                       /\ \A m \in Carriers(o)' : ~InChain(m.to, o)'
                       /\ \A m, c \in Carriers(o)' : m.to = c.to => m = c
    BY DEF ApartInv
  <2>1. \A m \in Carriers(o) : m.to \in Writers
    BY CarrierType
  <2>. QED
    BY <1>4, <1>5, <1>6, <1>7, <2>1 DEF PayloadInv, ApartInv
<1>11. KeptInv'
  BY <1>1, <1>2, <1>5 DEF PayloadInv, KeptInv
<1>. QED
  BY <1>8, <1>9, <1>10, <1>11 DEF PayloadInv

\* What storing a block means for the payloads in the chains.
LEMMA StoredPayload ==
  ASSUME TypeOK, NEW n \in Writers, NEW b, IsBlock(b), StoreBlock(n, b)
  PROVE  /\ \A k \in Writers : \A p :
              InChain(k, p)' <=> InChain(k, p) \/ (k = n /\ b.payload = p)
         /\ \A k \in Writers : k # n => chain'[k] = chain[k]
         /\ Len(chain[n]) \in Nat
         /\ Len(chain'[n]) = Len(chain[n]) + 1
         /\ \A i \in 1 .. Len(chain[n]) : chain'[n][i] = chain[n][i]
         /\ chain'[n][Len(chain[n]) + 1] = b
<1>1. /\ IsChain(chain[n]) /\ chain'[n] = Append(chain[n], b)
      /\ \A k \in Writers : k # n => chain'[k] = chain[k]
  BY DEF StoreBlock, TypeOK
<1>2. /\ Len(chain[n]) \in Nat /\ Len(chain'[n]) = Len(chain[n]) + 1
      /\ \A i \in 1 .. Len(chain[n]) : chain'[n][i] = chain[n][i]
      /\ chain'[n][Len(chain[n]) + 1] = b
  BY <1>1, ChainAppend
<1>3. ASSUME NEW k \in Writers, NEW p
      PROVE  InChain(k, p)' <=> InChain(k, p) \/ (k = n /\ b.payload = p)
  <2>1. CASE k = n
    <3>. DEFINE L == Len(chain[n])
    <3>1. InChain(k, p)' <=> \E i \in 1 .. L + 1 : chain'[n][i].payload = p
      BY <1>2, <2>1 DEF InChain
    <3>2. L \in Nat => (1 .. L + 1) = (1 .. L) \cup {L + 1}
      OBVIOUS
    <3>3. L \in Nat
      BY <1>2
    <3>4. /\ chain'[n][L + 1] = b
          /\ \A i \in 1 .. L : chain'[n][i] = chain[n][i]
      BY <1>2
    <3>5. InChain(k, p) <=> \E i \in 1 .. L : chain[n][i].payload = p
      BY <2>1 DEF InChain
    <3>. HIDE DEF L
    <3>6. (\E i \in 1 .. L + 1 : chain'[n][i].payload = p)
             <=> (\E i \in 1 .. L : chain[n][i].payload = p) \/ b.payload = p
      BY <3>2, <3>3, <3>4
    <3>. QED
      BY <2>1, <3>1, <3>5, <3>6
  <2>2. CASE k # n
    BY <1>1, <2>2 DEF InChain
  <2>. QED
    BY <2>1, <2>2
<1>. QED
  BY <1>1, <1>2, <1>3

\* A block with a payload that is not in the chain yet keeps payloads apart.
LEMMA StoredOnce ==
  ASSUME TypeOK, PayloadInv, NEW n \in Writers, NEW b, IsBlock(b), StoreBlock(n, b),
         b.payload \in Payloads => ~InChain(n, b.payload)
  PROVE  \A k \in Writers : \A i, j \in 1 .. Len(chain'[k]) :
           chain'[k][i].payload \in Payloads
             /\ chain'[k][i].payload = chain'[k][j].payload => i = j
<1>. SUFFICES ASSUME NEW k \in Writers, NEW i \in 1 .. Len(chain'[k]),
                     NEW j \in 1 .. Len(chain'[k]),
                     chain'[k][i].payload \in Payloads,
                     chain'[k][i].payload = chain'[k][j].payload
              PROVE  i = j
  OBVIOUS
<1>1. CASE k # n
  BY <1>1, StoredPayload DEF PayloadInv, OnceInv
<1>2. CASE k = n
  <2>. DEFINE L == Len(chain[n])
  <2>1. /\ L \in Nat /\ i \in 1 .. L + 1 /\ j \in 1 .. L + 1
        /\ \A l \in 1 .. L : chain'[n][l] = chain[n][l]
        /\ chain'[n][L + 1] = b
    BY <1>2, StoredPayload
  <2>2. b.payload \in Payloads => \A l \in 1 .. L : chain[n][l].payload # b.payload
    BY DEF InChain
  <2>5. /\ chain'[n][i].payload \in Payloads
        /\ chain'[n][i].payload = chain'[n][j].payload
    BY <1>2
  <2>3. CASE i \in 1 .. L /\ j \in 1 .. L
    BY <2>1, <2>3, <2>5 DEF PayloadInv, OnceInv
  <2>. HIDE DEF L
  <2>4. CASE i = L + 1 \/ j = L + 1
    <3>1. \A x \in 1 .. L : chain'[n][x].payload # b.payload \/ b.payload \notin Payloads
      BY <2>1, <2>2
    <3>. QED
      BY <2>1, <2>4, <2>5, <3>1
  <2>. QED
    BY <2>1, <2>3, <2>4
<1>. QED
  BY <1>1, <1>2

\* The others store what was on its way to them.
LEMMA ReceiveBlockInv ==
  ASSUME TypeOK, PayloadInv, NEW n \in Writers, ReceiveBlock(n)
  PROVE  PayloadInv'
<1>1. PICK m \in Receivable(n, "block") :
        msgs' = msgs \ {m} /\ StoreBlock(n, m.block)
  BY DEF ReceiveBlock
<1>. DEFINE p == m.block.payload
<1>2. /\ IsBlock(m.block) /\ m \in MsgsOf("block") /\ m.to = n
      /\ m.from \in Writers /\ m.from # n
  BY <1>1, ReceivableType DEF IsMessage, BlockMsg, Others, MsgsOf
<1>3. UNCHANGED clientVars /\ UNCHANGED resetNumber
  BY DEF ReceiveBlock, resetVars
<1>4. m \in Carriers(p)
  BY <1>2 DEF Carriers
<1>5. p \in Payloads => /\ submitted[p] = m.from
                        /\ \A k \in Writers : ~InQueue(k, p)
                        /\ ~InChain(n, p)
  BY <1>2, <1>4 DEF PayloadInv, OriginInv, ApartInv
<1>. HIDE DEF p
<1>6. /\ \A k \in Writers, o \in Payloads : InQueue(k, o)' <=> InQueue(k, o)
      /\ \A k \in Writers : \A o :
           InChain(k, o)' <=> InChain(k, o) \/ (k = n /\ o = p)
  BY <1>1, <1>2, <1>3, StoredPayload DEF InQueue, clientVars, p
<1>7. \A o : Carriers(o)' = Carriers(o) \ {m}
  BY <1>1 DEF Carriers, MsgsOf
<1>8. OnceInv'
  <2>1. payload_queue' = payload_queue
    BY <1>3 DEF clientVars
  <2>2. \A k \in Writers : \A i, j \in 1 .. Len(chain'[k]) :
          chain'[k][i].payload \in Payloads
            /\ chain'[k][i].payload = chain'[k][j].payload => i = j
    BY <1>1, <1>2, <1>5, StoredOnce DEF p
  <2>. QED
    BY <2>1, <2>2 DEF PayloadInv, OnceInv
<1>9. OriginInv'
  <2>1. p \in Payloads => submitted[p] # 0
    BY <1>2, <1>5, ConsensusAssumption, WritersType
  <2>. QED
    BY <1>3, <1>6, <1>7, <2>1 DEF PayloadInv, OriginInv, clientVars
<1>10. ApartInv'
  <2>1. \A o \in Payloads : \A c \in Carriers(o)' : ~InChain(c.to, o)'
    <3>1. ASSUME NEW o \in Payloads, NEW c \in Carriers(o), c # m
          PROVE  ~InChain(c.to, o)'
      <4>1. c.to \in Writers /\ ~InChain(c.to, o)
        BY DEF PayloadInv, ApartInv, Carriers, MsgsOf, TypeOK, IsMessage, Others
      <4>2. ~(c.to = n /\ o = p)
        BY <1>2, <1>4, <3>1 DEF PayloadInv, ApartInv
      <4>. QED
        BY <1>6, <4>1, <4>2
    <3>. QED
      BY <1>7, <3>1
  <2>. QED
    BY <1>5, <1>6, <1>7, <2>1 DEF PayloadInv, ApartInv
<1>11. KeptInv'
  BY <1>3, <1>6 DEF PayloadInv, KeptInv, clientVars
<1>. QED
  BY <1>8, <1>9, <1>10, <1>11 DEF PayloadInv

\* The payload of a winner's block: the head of its queue, or none of a client.
LEMMA TakenPayload ==
  ASSUME TypeOK, PayloadInv, NewPayloads, NEW n \in Writers,
         payload_queue' = [payload_queue EXCEPT ![n] = PayloadsLeft(n, round[n])]
  PROVE  LET p == GetPayload(n, round[n])
         IN  /\ p \in Payloads => InQueue(n, p)
             /\ \A k \in Writers, o \in Payloads :
                  InQueue(k, o)' <=> InQueue(k, o) /\ ~(k = n /\ o = p)
             /\ \A k \in Writers : \A i, j \in 1 .. Len(payload_queue'[k]) :
                  payload_queue'[k][i] = payload_queue'[k][j] => i = j
<1>. DEFINE p == GetPayload(n, round[n])
            q == payload_queue[n]
            l == Len(q)
<1>1. q \in Seq(Payloads) /\ l \in Nat /\ \A i \in 1 .. l : q[i] \in Payloads
  BY DEF TypeOK
<1>2. /\ payload_queue'[n] = PayloadsLeft(n, round[n])
      /\ \A k \in Writers : k # n => payload_queue'[k] = payload_queue[k]
  BY DEF TypeOK
<1>3. \A i, j \in 1 .. l : q[i] = q[j] => i = j
  BY DEF PayloadInv, OnceInv
<1>4. ASSUME NEW k \in Writers, k # n
      PROVE  /\ \A o : InQueue(k, o)' <=> InQueue(k, o)
             /\ \A i, j \in 1 .. Len(payload_queue'[k]) :
                  payload_queue'[k][i] = payload_queue'[k][j] => i = j
  BY <1>2, <1>4 DEF InQueue, PayloadInv, OnceInv
<1>5. CASE round[n] = 0 \/ q = <<>>
  <2>1. p \notin Payloads
    BY <1>5 DEF GetPayload, NewPayloads
  <2>2. payload_queue'[n] = q
    BY <1>2, <1>5 DEF PayloadsLeft
  <2>3. \A o : InQueue(n, o)' <=> InQueue(n, o)
    BY <2>2 DEF InQueue
  <2>. QED
    BY <1>3, <1>4, <2>1, <2>2, <2>3
<1>6. CASE ~(round[n] = 0 \/ q = <<>>)
  <2>1. p = Head(q) /\ payload_queue'[n] = Tail(q)
    BY <1>2, <1>6 DEF GetPayload, PayloadsLeft
  <2>2. /\ l > 0 /\ p = q[1] /\ Len(payload_queue'[n]) = l - 1
        /\ \A i \in 1 .. l - 1 : payload_queue'[n][i] = q[i + 1]
    <3>1. /\ l > 0 /\ Head(q) = q[1] /\ Len(Tail(q)) = l - 1
          /\ \A i \in 1 .. Len(Tail(q)) : Tail(q)[i] = q[i + 1]
      <4>. HIDE DEF q
      <4>1. q \in Seq(Payloads) /\ q # <<>>
        BY <1>1, <1>6
      <4>. QED
        BY <4>1, HeadTailProperties, EmptySeq
    <3>. QED
      BY <2>1, <3>1
  <2>. DEFINE r == payload_queue'[n]
  <2>3. /\ \A o : InQueue(n, o) <=> \E i \in 1 .. l : q[i] = o
        /\ \A o : InQueue(n, o)' <=> \E i \in 1 .. l - 1 : r[i] = o
        /\ \A i \in 1 .. l - 1 : r[i] = q[i + 1]
    BY <2>2 DEF InQueue
  <2>. HIDE DEF p, q, l, r
  <2>4. InQueue(n, p)
    BY <1>1, <2>2, <2>3
  <2>5. \A o : o = p => ~InQueue(n, o)'
    <3>1. ASSUME NEW i \in 1 .. l - 1 PROVE r[i] # p
      <4>1. i + 1 \in 1 .. l /\ 1 \in 1 .. l /\ i + 1 # 1
        BY <1>1, <2>2
      <4>. QED
        BY <1>3, <2>2, <2>3, <4>1
    <3>. QED
      BY <2>3, <3>1
  <2>6. ASSUME NEW o, o # p PROVE InQueue(n, o)' <=> InQueue(n, o)
    <3>1. ASSUME NEW i \in 1 .. l, q[i] = o PROVE \E j \in 1 .. l - 1 : r[j] = o
      <4>1. i # 1
        BY <2>2, <2>6, <3>1
      <4>2. i - 1 \in 1 .. l - 1 /\ (i - 1) + 1 = i
        BY <1>1, <4>1
      <4>. QED
        BY <2>3, <3>1, <4>2
    <3>2. ASSUME NEW j \in 1 .. l - 1 PROVE j + 1 \in 1 .. l /\ q[j + 1] = r[j]
      BY <1>1, <2>3
    <3>. QED
      BY <2>3, <3>1, <3>2
  <2>7. \A i, j \in 1 .. l - 1 : r[i] = r[j] => i = j
    <3>. SUFFICES ASSUME NEW i \in 1 .. l - 1, NEW j \in 1 .. l - 1, r[i] = r[j]
                  PROVE  i = j
      OBVIOUS
    <3>1. i + 1 \in 1 .. l /\ j + 1 \in 1 .. l /\ q[i + 1] = q[j + 1]
      BY <1>1, <2>3
    <3>2. i + 1 = j + 1
      BY <1>3, <3>1
    <3>. QED
      BY <3>2
  <2>8. \A i, j \in 1 .. Len(payload_queue'[n]) :
          payload_queue'[n][i] = payload_queue'[n][j] => i = j
    BY <2>2, <2>7 DEF r
  <2>9. \A k \in Writers, o \in Payloads :
          InQueue(k, o)' <=> InQueue(k, o) /\ ~(k = n /\ o = p)
    <3>1. \A o : InQueue(n, o)' <=> InQueue(n, o) /\ o # p
      BY <2>5, <2>6
    <3>. QED
      BY <1>4, <3>1
  <2>. QED
    BY <1>4, <2>4, <2>8, <2>9 DEF p
<1>. QED
  BY <1>5, <1>6

\* The winner moves a payload from its queue to its chain and to everybody.
LEMMA WinRoundInv ==
  ASSUME TypeOK, PayloadInv, NewPayloads, NEW n \in Writers, WinRound(n)
  PROVE  PayloadInv'
<1>. DEFINE b == CreateBlock(n, round[n])
            p == GetPayload(n, round[n])
            new == {BlockMsg(round[n], n, o, b) : o \in Others(n)}
<1>1. PICK m \in Announcements(n) : msgs' = (msgs \ {m}) \cup new /\ StoreBlock(n, b)
  BY DEF WinRound
<1>2. IsBlock(b) /\ b.payload = p
  BY NewBlockType DEF CreateBlock, Block
<1>3. /\ p \in Payloads => InQueue(n, p)
      /\ \A k \in Writers, o \in Payloads :
           InQueue(k, o)' <=> InQueue(k, o) /\ ~(k = n /\ o = p)
      /\ \A k \in Writers : \A i, j \in 1 .. Len(payload_queue'[k]) :
           payload_queue'[k][i] = payload_queue'[k][j] => i = j
  BY TakenPayload DEF WinRound
<1>4. UNCHANGED <<submitted, resetNumber>>
  BY DEF WinRound, resetVars
<1>5. \A c \in new : /\ c.type = "block" /\ c.from = n /\ c.block = b
                     /\ c.to \in Writers /\ c.to # n
  BY DEF BlockMsg, Others
<1>6. \A c, d \in new : c.to = d.to => c = d
  BY DEF BlockMsg
<1>7. m.type = "announce"
  BY DEF Announcements, Receivable
<1>. HIDE DEF b, p, new
<1>8. \A o : Carriers(o)' = IF o = p THEN Carriers(o) \cup new ELSE Carriers(o)
  BY <1>1, <1>2, <1>5, <1>7 DEF Carriers, MsgsOf
<1>9. p \in Payloads => /\ submitted[p] = n /\ Carriers(p) = {}
                        /\ \A k \in Writers : ~InChain(k, p) /\ (InQueue(k, p) => k = n)
  BY <1>3 DEF PayloadInv, OriginInv, ApartInv
<1>10. \A k \in Writers : \A o : InChain(k, o)' <=> InChain(k, o) \/ (k = n /\ o = p)
  BY <1>1, <1>2, StoredPayload
<1>11. OnceInv'
  <2>1. \A k \in Writers : \A i, j \in 1 .. Len(chain'[k]) :
          chain'[k][i].payload \in Payloads
            /\ chain'[k][i].payload = chain'[k][j].payload => i = j
    BY <1>1, <1>2, <1>9, StoredOnce
  <2>. QED
    BY <1>3, <2>1 DEF OnceInv
<1>12. OriginInv'
  <2>. SUFFICES ASSUME NEW o \in Payloads
                PROVE  /\ \A k \in Writers : InQueue(k, o)' => submitted[o] = k
                       /\ \A k \in Writers : InChain(k, o)' => submitted[o] # 0
                       /\ \A c \in Carriers(o)' : submitted[o] = c.from
    BY <1>4 DEF OriginInv
  <2>1. \A k \in Writers : InQueue(k, o)' => submitted[o] = k
    BY <1>3 DEF PayloadInv, OriginInv
  <2>2. \A k \in Writers : InChain(k, o)' => submitted[o] # 0
    BY <1>9, <1>10, ConsensusAssumption, WritersType DEF PayloadInv, OriginInv
  <2>3. \A c \in Carriers(o)' : submitted[o] = c.from
    BY <1>5, <1>8, <1>9 DEF PayloadInv, OriginInv
  <2>. QED
    BY <2>1, <2>2, <2>3
<1>13. ApartInv'
  <2>. SUFFICES ASSUME NEW o \in Payloads
                PROVE  /\ \A j, k \in Writers : InQueue(j, o)' => ~InChain(k, o)'
                       /\ \A k \in Writers : InQueue(k, o)' => Carriers(o)' = {}
                       /\ \A c \in Carriers(o)' : ~InChain(c.to, o)'
                       /\ \A c, d \in Carriers(o)' : c.to = d.to => c = d
    BY DEF ApartInv
  <2>1. CASE o # p
    BY <1>3, <1>8, <1>10, <2>1, CarrierType DEF PayloadInv, ApartInv
  <2>2. CASE o = p
    BY <1>3, <1>5, <1>6, <1>8, <1>9, <1>10, <2>2
  <2>. QED
    BY <2>1, <2>2
<1>14. KeptInv'
  BY <1>3, <1>4, <1>10 DEF PayloadInv, KeptInv
<1>. QED
  BY <1>11, <1>12, <1>13, <1>14 DEF PayloadInv

----------------------------------------------------------------------------
LEMMA NextPayloadInv ==
  ASSUME NewPayloads
  PROVE  TypeOK /\ PayloadInv /\ [Next]_vars => PayloadInv'
<1>. SUFFICES ASSUME TypeOK, PayloadInv, [Next]_vars PROVE PayloadInv'
  OBVIOUS
<1>1. ASSUME NEW n \in Writers, PollReset(n), NEW k \in Writers
      PROVE  chain'[k] = chain[k] \/ (chain'[k] = <<>> /\ resetNumber' # 0)
  BY <1>1 DEF PollReset, TypeOK
<1>2. ASSUME NEW n \in Writers, StartCoordinator(n) PROVE PayloadInv'
  <2>1. MsgsOf("block")' = MsgsOf("block")
    BY <1>2 DEF StartCoordinator, MsgsOf, Request
  <2>2. UNCHANGED <<clientVars, resetNumber>> /\ PollReset(n)
    BY <1>2 DEF StartCoordinator, PollReset
  <2>. QED
    BY <1>1, <2>1, <2>2, NothingAdded
<1>3. ASSUME NEW n \in Writers, StartWriter(n) PROVE PayloadInv'
  <2>1. MsgsOf("block")' = MsgsOf("block")
    BY <1>3 DEF StartWriter, MsgsOf
  <2>2. UNCHANGED <<clientVars, resetNumber>> /\ PollReset(n)
    BY <1>3 DEF StartWriter, PollReset
  <2>. QED
    BY <1>1, <2>1, <2>2, NothingAdded
<1>4. ASSUME NEW n \in Writers,
             \/ AnswerRequest(n) \/ CollectReply(n) \/ AnnounceWinner(n) \/ AwaitBlock(n)
      PROVE  PayloadInv'
  <2>1. UNCHANGED <<clientVars, chain, resetNumber>>
    BY <1>4 DEF AnswerRequest, CollectReply, AnnounceWinner, AwaitBlock, resetVars
  <2>2. MsgsOf("block")' \subseteq MsgsOf("block")
    BY <1>4 DEF AnswerRequest, CollectReply, AnnounceWinner, AwaitBlock, MsgsOf,
                Reply, Announce
  <2>. QED
    BY <2>1, <2>2, NothingAdded
<1>5. ASSUME DeleteChain PROVE PayloadInv'
  <2>1. resetNumber' = 0 => resetNumber = 0
    BY <1>5 DEF DeleteChain, TypeOK
  <2>. QED
    BY <1>5, <2>1, NothingAdded DEF DeleteChain, MsgsOf
<1>6. ASSUME UNCHANGED vars PROVE PayloadInv'
  BY <1>6, NothingAdded DEF vars, resetVars, MsgsOf
<1>. QED
  BY <1>2, <1>3, <1>4, <1>5, <1>6, WinRoundInv, ReceiveBlockInv, ClientSubmitInv
  DEF Next, EngineStep, Terminated

\* For any number of writers, resets and rounds: what queues, chains and blocks
\* on their way hold of the clients' payloads.
THEOREM PayloadInvariant ==
  ASSUME TypedStart, NewPayloads
  PROVE  Spec => []PayloadInv
<1>1. Init => PayloadInv
  BY InitPayloadInv
<1>2. Spec => []TypeOK
  BY TypeCorrectness
<1>. QED
  BY <1>1, <1>2, NextPayloadInv, PTL DEF Spec

\* The places of a payload in a list that holds it at most once.
LEMMA PlacesCount ==
  ASSUME NEW S, \A x, y \in S : x = y
  PROVE  /\ Cardinality(S) = IF S = {} THEN 0 ELSE 1
<1>1. CASE S = {}
  BY <1>1, FS_EmptySet
<1>2. CASE S # {}
  <2>1. PICK x \in S : TRUE
    BY <1>2
  <2>2. S = {x}
    BY <2>1
  <2>. QED
    BY <1>2, <2>2, FS_Singleton
<1>. QED
  BY <1>1, <1>2

LEMMA PlacesFacts ==
  ASSUME TypeOK, PayloadInv, NEW n \in Writers, NEW p \in Payloads
  PROVE  LET Q == {i \in DOMAIN payload_queue[n] : payload_queue[n][i] = p}
             C == {i \in DOMAIN chain[n] : chain[n][i].payload = p}
         IN  /\ Cardinality(Q) = IF InQueue(n, p) THEN 1 ELSE 0
             /\ Cardinality(C) = IF InChain(n, p) THEN 1 ELSE 0
<1>. DEFINE Q == {i \in DOMAIN payload_queue[n] : payload_queue[n][i] = p}
            C == {i \in DOMAIN chain[n] : chain[n][i].payload = p}
<1>1. /\ DOMAIN payload_queue[n] = 1 .. Len(payload_queue[n])
      /\ DOMAIN chain[n] = 1 .. Len(chain[n])
  BY ChainFacts DEF TypeOK
<1>2. (\A x, y \in Q : x = y) /\ (\A x, y \in C : x = y)
  <2>1. OnceInv
    BY DEF PayloadInv
  <2>2. \A x, y \in Q : x = y
    BY <1>1, <2>1 DEF OnceInv
  <2>3. \A x, y \in C : x = y
    BY <1>1, <2>1 DEF OnceInv
  <2>. QED
    BY <2>2, <2>3
<1>3. (Q = {} <=> ~InQueue(n, p)) /\ (C = {} <=> ~InChain(n, p))
  BY <1>1 DEF InQueue, InChain
<1>. HIDE DEF Q, C
<1>4. /\ Cardinality(Q) = IF Q = {} THEN 0 ELSE 1
      /\ Cardinality(C) = IF C = {} THEN 0 ELSE 1
  BY <1>2, PlacesCount
<1>. QED
  BY <1>3, <1>4 DEF Q, C

\* A reset empties chains, never queues, and no payload enters a chain twice,
\* whatever the order in which the engines see resets.
THEOREM PayloadNeverTwiceHolds ==
  ASSUME TypedStart, NewPayloads
  PROVE  Spec => []PayloadNeverTwice
<1>1. TypeOK /\ PayloadInv => PayloadNeverTwice
  <2>. SUFFICES ASSUME TypeOK, PayloadInv PROVE PayloadNeverTwice
    OBVIOUS
  <2>1. \A n \in Writers, p \in Payloads : ~(InQueue(n, p) /\ InChain(n, p))
    BY DEF PayloadInv, ApartInv
  <2>. QED
    BY <2>1, PlacesFacts DEF PayloadNeverTwice
<1>. QED
  BY <1>1, TypeCorrectness, PayloadInvariant, PTL

\* Until a reset is ordered, a payload that was acknowledged to a client is still
\* in the queue of its writer or once in that writer's chain.
THEOREM PayloadExactlyOnceHolds ==
  ASSUME TypedStart, NewPayloads
  PROVE  Spec => []PayloadExactlyOnce
<1>1. TypeOK /\ PayloadInv => PayloadExactlyOnce
  <2>. SUFFICES ASSUME TypeOK, PayloadInv, resetNumber = 0, NEW p \in Payloads,
                       submitted[p] # 0
                PROVE  PlacesOf(p) = 1
    BY DEF PayloadExactlyOnce
  <2>. DEFINE n == submitted[p]
  <2>1. n \in Writers
    BY DEF TypeOK
  <2>2. InQueue(n, p) \/ InChain(n, p)
    BY <2>1 DEF PayloadInv, KeptInv
  <2>3. ~(InQueue(n, p) /\ InChain(n, p))
    BY <2>1 DEF PayloadInv, ApartInv
  <2>. HIDE DEF n
  <2>4. Cardinality({i \in DOMAIN payload_queue[n] : payload_queue[n][i] = p})
          + Cardinality({i \in DOMAIN chain[n] : chain[n][i].payload = p}) = 1
    BY <2>1, <2>2, <2>3, PlacesFacts
  <2>. QED
    BY <2>4 DEF PlacesOf, n
<1>. QED
  BY <1>1, TypeCorrectness, PayloadInvariant, PTL
=============================================================================
