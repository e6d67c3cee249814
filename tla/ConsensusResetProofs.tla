------------------------ MODULE ConsensusResetProofs ------------------------
(***************************************************************************)
(* What the rounds keep when the membership authority orders resets, for   *)
(* any number of resets, writers, payloads and rounds.                     *)
(***************************************************************************)
EXTENDS ConsensusRoundProofs, ConsensusResetInv

----------------------------------------------------------------------------
(* Who is late.                                                             *)

\* Who is late depends on nothing but the blocks on their way.
LEMMA LateKept ==
  ASSUME MsgsOf("block")' = MsgsOf("block")
  PROVE  /\ SomeoneLate' = SomeoneLate
         /\ \A n : Late(n)' = Late(n) /\ Deciding(n)' = Deciding(n)
  BY DEF SomeoneLate, Late, Deciding

LEMMA BlockEnds ==
  ASSUME TypeOK, NEW m \in MsgsOf("block")
  PROVE  /\ IsMessage(m) /\ m \in msgs /\ m.type = "block"
         /\ m.to \in Writers /\ m.from \in Writers /\ m.to # m.from
         /\ Late(m.to) /\ SomeoneLate
<1>1. m \in msgs /\ m.type = "block" /\ IsMessage(m)
  BY DEF MsgsOf, TypeOK
<1>2. m.to \in Writers /\ m.from \in Writers /\ m.to # m.from
  BY <1>1 DEF IsMessage, Others
<1>. QED
  BY <1>1, <1>2 DEF Late, SomeoneLate

\* Who is late has given its number, and so has everybody else who is.
LEMMA LateEngaged ==
  ASSUME TypeOK, ResetCore, NEW n \in Writers, Late(n)
  PROVE  /\ SomeoneLate /\ pc[n] \in Engaged /\ AllEngaged(round[n])
         /\ \A x \in Writers : Late(x) => round[x] = round[n]
<1>1. PICK m \in MsgsOf("block") : m.to = n
  BY DEF Late
<1>2. SomeoneLate /\ Deciding(n)
  BY <1>1 DEF SomeoneLate, Deciding
<1>3. AllEngaged(m.round)
  BY <1>1 DEF ResetCore, DecisionInv
<1>4. \A x \in Writers : Late(x) => round[x] = m.round
  BY <1>3 DEF AllEngaged, Deciding
<1>5. pc[n] \in Engaged /\ round[n] = m.round
  BY <1>2, <1>3 DEF AllEngaged
<1>. QED
  BY <1>2, <1>3, <1>4, <1>5

\* Chains may be emptied, as long as nothing else is done to them.
LEMMA PlacesKept ==
  ASSUME TypeOK, ResetCore, UNCHANGED round,
         MsgsOf("block")' = MsgsOf("block"),
         \A n \in Writers : chain'[n] = chain[n] \/ chain'[n] = <<>>
  PROVE  CountInv' /\ KinInv' /\ StoredInv'
<1>1. /\ SomeoneLate' = SomeoneLate
      /\ \A n \in Writers : Late(n)' = Late(n) /\ Deciding(n)' = Deciding(n)
  BY LateKept
<1>2. CountInv'
  <2>1. \A m, n \in Writers :
          (Late(m)' <=> Late(n)') /\ round'[m] = 0 => round'[n] = 0
    BY <1>1 DEF ResetCore, CountInv
  <2>2. \A n \in Writers :
          ~Deciding(n)' =>
            round'[n] # 0 /\ (chain'[n] # <<>> => round'[n] = Len(chain'[n]) + 1)
    BY <1>1 DEF ResetCore, CountInv
  <2>. QED
    BY <2>1, <2>2 DEF CountInv
<1>3. KinInv'
  <2>. SUFFICES ASSUME NEW m \in Writers, NEW n \in Writers, Late(m)' <=> Late(n)'
                PROVE  IF round'[m] = round'[n]
                       THEN SameChain(chain'[m], chain'[n])
                       ELSE Len(chain'[m]) <= 1 \/ Len(chain'[n]) <= 1
    BY DEF KinInv, SameChain
  <2>1. IF round[m] = round[n]
        THEN SameChain(chain[m], chain[n])
        ELSE Len(chain[m]) <= 1 \/ Len(chain[n]) <= 1
    BY <1>1 DEF ResetCore, KinInv
  <2>2. Len(<<>>) <= 1
    OBVIOUS
  <2>. QED
    BY <2>1, <2>2 DEF SameChain
<1>4. StoredInv'
  <2>. SUFFICES ASSUME NEW m \in MsgsOf("block"), NEW n \in Writers,
                       ~Late(n), chain'[n] # <<>>
                PROVE  /\ chain'[n][Len(chain'[n])] = m.block
                       /\ \/ Len(chain'[n]) = 1
                          \/ chain'[m.to] = <<>>
                          \/ chain'[n] = Append(chain'[m.to], m.block)
    BY <1>1 DEF StoredInv
  <2>1. chain'[n] = chain[n] /\ m.to \in Writers
    BY BlockEnds
  <2>2. /\ chain[n][Len(chain[n])] = m.block
        /\ \/ Len(chain[n]) = 1
           \/ chain[m.to] = <<>>
           \/ chain[n] = Append(chain[m.to], m.block)
    BY <2>1 DEF ResetCore, StoredInv
  <2>3. chain'[m.to] = chain[m.to] \/ chain'[m.to] = <<>>
    BY <2>1
  <2>. QED
    BY <2>1, <2>2, <2>3
<1>. QED
  BY <1>2, <1>3, <1>4

LEMMA PollResetChains ==
  ASSUME TypeOK, NEW n \in Writers, PollReset(n)
  PROVE  \A x \in Writers : chain'[x] = chain[x] \/ chain'[x] = <<>>
  BY DEF PollReset, TypeOK

\* Nobody has replied or announced anything in a round somebody begins.
LEMMA StarterUndecided ==
  ASSUME TypeOK, ResetCore, NEW n \in Writers, pc[n] \notin Engaged
  PROVE  /\ ~Late(n)
         /\ \A k : AllEngaged(k) => ~Deciding(n)
<1>1. ~Late(n)
  BY LateEngaged
<1>. QED
  BY <1>1 DEF AllEngaged

\* The initial states: no message, no two databases that differ.
LEMMA InitResetCore ==
  ASSUME TypedStart, EqualStart, Init PROVE ResetCore
<1>1. /\ msgs = {} /\ \A n \in Writers : pc[n] = "loop"
      /\ \A m, n \in Writers : chain[m] = chain[n] /\ round[m] = round[n]
  BY DEF Init, EqualStart
<1>2. MsgsOf("request") = {} /\ MsgsOf("reply") = {}
      /\ MsgsOf("announce") = {} /\ MsgsOf("block") = {}
  BY <1>1 DEF MsgsOf
<1>3. ~SomeoneLate /\ \A n \in Writers : ~Late(n) /\ Deciding(n)
  BY <1>2 DEF SomeoneLate, Late, Deciding
<1>4. RoleInv /\ CollectedInv /\ AskedInv
  BY <1>1 DEF RoleInv, CollectedInv, AskedInv
<1>5. AskInv /\ AnswerInv /\ StoredInv /\ OneEachInv
  BY <1>2 DEF AskInv, AnswerInv, StoredInv, OneEachInv
<1>6. DecisionInv /\ OneWinnerInv
  BY <1>1, <1>2 DEF DecisionInv, OneWinnerInv
<1>7. CountInv /\ KinInv
  BY <1>1, <1>3 DEF CountInv, KinInv, SameChain
<1>. QED
  BY <1>4, <1>5, <1>6, <1>7 DEF ResetCore

----------------------------------------------------------------------------
(* The first steps of an engine's loop and of its round.                    *)

LEMMA StartWriterReset ==
  ASSUME TypeOK, ResetCore, NEW n \in Writers, StartWriter(n)
  PROVE  ResetCore'
<1>1. /\ pc[n] = "loop" /\ Coordinator(round[n]) # n
      /\ pc' = [pc EXCEPT ![n] = "request"]
      /\ UNCHANGED <<round, numbers, winner, msgs>>
      /\ PollReset(n)
  BY DEF StartWriter
<1>2. \A x \in Writers : pc'[x] = IF x = n THEN "request" ELSE pc[x]
  BY <1>1 DEF TypeOK
<1>3. /\ MsgsOf("request")' = MsgsOf("request")
      /\ MsgsOf("reply")' = MsgsOf("reply")
      /\ MsgsOf("announce")' = MsgsOf("announce")
      /\ MsgsOf("block")' = MsgsOf("block")
  BY <1>1 DEF MsgsOf
<1>4. /\ SomeoneLate' = SomeoneLate
      /\ \A x \in Writers : Late(x)' = Late(x) /\ Deciding(x)' = Deciding(x)
  BY <1>3, LateKept
<1>5. CountInv' /\ KinInv' /\ StoredInv'
  BY <1>1, <1>3, PollResetChains, PlacesKept
<1>6. ~Late(n) /\ \A k : AllEngaged(k) => ~Deciding(n)
  BY <1>1, StarterUndecided DEF Engaged
<1>7. \A k : AllEngaged(k) => AllEngaged(k)'
  BY <1>1, <1>2, <1>4, <1>6 DEF AllEngaged
<1>8. RoleInv'
  BY <1>1, <1>2 DEF ResetCore, RoleInv
<1>9. /\ \A m \in MsgsOf("request") : m.from \in Writers /\ m.to \in Writers
      /\ \A m \in MsgsOf("reply") : m.from \in Writers /\ m.to \in Writers
      /\ \A m \in MsgsOf("announce") : m.from \in Writers /\ m.to \in Writers
  BY DEF TypeOK, MsgsOf, IsMessage, Others
<1>10. AskInv'
  <2>. SUFFICES ASSUME NEW m \in MsgsOf("request")
                PROVE  /\ m.from = Coordinator(m.round)
                       /\ pc'[m.from] = "replies"
                       /\ round[m.from] = m.round
                       /\ ~Late(m.to) /\ round[m.to] = m.round =>
                            pc'[m.to] \in {"loop", "request"}
                       /\ m.to \notin Ids(numbers[m.from])
                       /\ \A o \in MsgsOf("reply") :
                            ~(o.from = m.to /\ o.to = m.from)
    BY <1>1, <1>3, <1>4, <1>9 DEF AskInv, Ids
  <2>. QED
    BY <1>1, <1>2, <1>9 DEF ResetCore, AskInv
<1>11. AnswerInv'
  <2>. SUFFICES ASSUME NEW m \in MsgsOf("reply")
                PROVE  /\ pc'[m.to] = "replies"
                       /\ round[m.to] = m.round
                       /\ pc'[m.from] = "announce" /\ ~Late(m.from)
                       /\ round[m.from] = m.round
                       /\ m.from \notin Ids(numbers[m.to])
                       /\ \A o \in MsgsOf("reply") :
                            o.from = m.from /\ o.to = m.to => o = m
    BY <1>1, <1>3, <1>4, <1>9 DEF AnswerInv, Ids
  <2>. QED
    BY <1>1, <1>2, <1>9 DEF ResetCore, AnswerInv
<1>12. CollectedInv'
  <2>. SUFFICES ASSUME NEW x \in Writers, pc'[x] = "replies"
                PROVE  /\ \A i, j \in DOMAIN numbers[x] :
                            numbers[x][i][1] = numbers[x][j][1] => i = j
                       /\ \A o \in Ids(numbers[x]) :
                            /\ o # x /\ round[o] = round[x]
                            /\ pc'[o] = "announce" /\ ~Late(o)'
    BY <1>1 DEF CollectedInv, Ids
  <2>1. Ids(numbers[x]) \subseteq Writers
    BY IdsType
  <2>. QED
    BY <1>1, <1>2, <1>4, <2>1 DEF ResetCore, CollectedInv
<1>13. AskedInv'
  <2>. SUFFICES ASSUME NEW x \in Writers, pc'[x] \in {"announce", "dead"}, ~Late(x)
                PROVE  LET c == Coordinator(round[x])
                       IN  /\ round[c] = round[x]
                           /\ pc'[c] \in {"replies", "block"} /\ ~Late(c)'
    BY <1>1, <1>4 DEF AskedInv, Coordinator
  <2>1. Coordinator(round[x]) \in Writers
    BY CoordinatorType DEF TypeOK
  <2>. QED
    BY <1>1, <1>2, <1>4, <2>1 DEF ResetCore, AskedInv
<1>14. DecisionInv'
  BY <1>1, <1>2, <1>3, <1>4, <1>7, <1>9, BlockEnds DEF ResetCore, DecisionInv
<1>15. OneEachInv' /\ OneWinnerInv'
  <2>1. OneEachInv'
    BY <1>3 DEF ResetCore, OneEachInv
  <2>2. \A m \in MsgsOf("announce") : Late(m.winner)' = Late(m.winner)
    BY <1>3 DEF Late
  <2>3. \A x \in Writers : Late(winner[x])' = Late(winner[x])
    BY <1>1, <1>3 DEF Late
  <2>. QED
    BY <1>1, <1>2, <1>3, <1>4, <2>1, <2>2, <2>3 DEF ResetCore, OneWinnerInv
<1>. QED
  BY <1>5, <1>8, <1>10, <1>11, <1>12, <1>13, <1>14, <1>15 DEF ResetCore

LEMMA StartCoordinatorReset ==
  ASSUME TypeOK, ResetCore, NEW n \in Writers, StartCoordinator(n)
  PROVE  ResetCore'
<1>1. /\ pc[n] = "loop" /\ Coordinator(round[n]) = n
      /\ pc' = [pc EXCEPT ![n] = "replies"]
      /\ numbers' = [numbers EXCEPT ![n] = <<>>]
      /\ msgs' = msgs \cup {Request(round[n], n, w) : w \in Others(n)}
      /\ UNCHANGED <<round, winner>>
      /\ PollReset(n)
  BY DEF StartCoordinator
<1>2. /\ \A x \in Writers : pc'[x] = IF x = n THEN "replies" ELSE pc[x]
      /\ \A x \in Writers : numbers'[x] = IF x = n THEN <<>> ELSE numbers[x]
  BY <1>1 DEF TypeOK
<1>3. /\ MsgsOf("reply")' = MsgsOf("reply")
      /\ MsgsOf("announce")' = MsgsOf("announce")
      /\ MsgsOf("block")' = MsgsOf("block")
  BY <1>1 DEF MsgsOf, Request
<1>4. /\ SomeoneLate' = SomeoneLate
      /\ \A x : Late(x)' = Late(x) /\ Deciding(x)' = Deciding(x)
  BY <1>3, LateKept
<1>5. CountInv' /\ KinInv' /\ StoredInv'
  BY <1>1, <1>3, PollResetChains, PlacesKept
<1>6. ~Late(n) /\ \A k : AllEngaged(k) => ~Deciding(n)
  BY <1>1, StarterUndecided DEF Engaged
<1>7. \A k : AllEngaged(k) => AllEngaged(k)'
  BY <1>1, <1>2, <1>4, <1>6 DEF AllEngaged
<1>8. RoleInv'
  BY <1>1, <1>2 DEF ResetCore, RoleInv
<1>9. /\ \A m \in MsgsOf("request") : m.from \in Writers /\ m.to \in Writers
      /\ \A m \in MsgsOf("reply") : m.from \in Writers /\ m.to \in Writers
      /\ \A m \in MsgsOf("announce") : m.from \in Writers /\ m.to \in Writers
      /\ \A x \in Writers : round[x] \in Nat
  BY DEF TypeOK, MsgsOf, IsMessage, Others
<1>10. \* Nobody who is not late is engaged in the round of the coordinator.
       \A x \in Writers :
         x # n /\ ~Late(x) /\ round[x] = round[n] => pc[x] \in {"loop", "request"}
  <2>. SUFFICES ASSUME NEW x \in Writers, x # n, ~Late(x), round[x] = round[n]
                PROVE  pc[x] \in {"loop", "request"}
    OBVIOUS
  <2>1. pc[x] # "replies"
    BY <1>1 DEF ResetCore, RoleInv
  <2>2. pc[x] # "block"
    <3>1. ASSUME pc[x] = "block" PROVE FALSE
      <4>1. Deciding(x) /\ AllEngaged(round[x])
        BY <3>1 DEF ResetCore, DecisionInv
      <4>2. ~SomeoneLate
        BY <4>1 DEF Deciding
      <4>. QED
        BY <1>6, <4>1, <4>2 DEF Deciding
    <3>. QED
      BY <3>1
  <2>3. pc[x] \notin {"announce", "dead"}
    BY <1>1 DEF ResetCore, AskedInv
  <2>. QED
    BY <2>1, <2>2, <2>3 DEF TypeOK
<1>11. AskInv'
  <2>. SUFFICES ASSUME NEW m \in MsgsOf("request")'
                PROVE  /\ m.from = Coordinator(m.round)
                       /\ pc'[m.from] = "replies"
                       /\ round[m.from] = m.round
                       /\ ~Late(m.to) /\ round[m.to] = m.round =>
                            pc'[m.to] \in {"loop", "request"}
                       /\ m.to \notin Ids(numbers'[m.from])
                       /\ \A o \in MsgsOf("reply") :
                            ~(o.from = m.to /\ o.to = m.from)
    BY <1>1, <1>3, <1>4 DEF AskInv, Ids
  <2>1. CASE m \in MsgsOf("request")
    <3>1. m.from # n
      BY <1>1, <2>1 DEF ResetCore, AskInv
    <3>2. m.to = n => round[m.to] # m.round
      BY <1>1, <2>1, <3>1 DEF ResetCore, AskInv
    <3>. QED
      BY <1>2, <1>9, <2>1, <3>1, <3>2 DEF ResetCore, AskInv
  <2>2. CASE m \in {Request(round[n], n, w) : w \in Others(n)}
    <3>1. PICK w \in Others(n) : m = Request(round[n], n, w)
      BY <2>2
    <3>2. m.round = round[n] /\ m.from = n /\ m.to = w /\ w \in Writers /\ w # n
      BY <3>1 DEF Request, Others
    <3>3. w \notin Ids(numbers'[n])
      BY <1>2 DEF Ids
    <3>4. \A o \in MsgsOf("reply") : ~(o.from = w /\ o.to = n)
      BY <1>1 DEF ResetCore, AnswerInv
    <3>. QED
      BY <1>1, <1>2, <1>10, <3>2, <3>3, <3>4
  <2>. QED
    BY <1>1, <2>1, <2>2 DEF MsgsOf
<1>12. AnswerInv'
  <2>. SUFFICES ASSUME NEW m \in MsgsOf("reply")
                PROVE  /\ pc'[m.to] = "replies"
                       /\ round[m.to] = m.round
                       /\ pc'[m.from] = "announce" /\ ~Late(m.from)
                       /\ round[m.from] = m.round
                       /\ m.from \notin Ids(numbers'[m.to])
                       /\ \A o \in MsgsOf("reply") :
                            o.from = m.from /\ o.to = m.to => o = m
    BY <1>1, <1>3, <1>4 DEF AnswerInv, Ids
  <2>. QED
    BY <1>1, <1>2, <1>9 DEF ResetCore, AnswerInv
<1>13. CollectedInv'
  <2>. SUFFICES ASSUME NEW x \in Writers, pc'[x] = "replies"
                PROVE  /\ \A i, j \in DOMAIN numbers'[x] :
                            numbers'[x][i][1] = numbers'[x][j][1] => i = j
                       /\ \A o \in Ids(numbers'[x]) :
                            /\ o # x /\ round[o] = round[x]
                            /\ pc'[o] = "announce" /\ ~Late(o)
    BY <1>1, <1>4 DEF CollectedInv, Ids
  <2>1. CASE x = n
    BY <1>2, <2>1 DEF Ids
  <2>2. CASE x # n
    <3>1. Ids(numbers[x]) \subseteq Writers
      BY IdsType
    <3>. QED
      BY <1>1, <1>2, <2>2, <3>1 DEF ResetCore, CollectedInv
  <2>. QED
    BY <2>1, <2>2
<1>14. AskedInv'
  <2>. SUFFICES ASSUME NEW x \in Writers, pc'[x] \in {"announce", "dead"}, ~Late(x)
                PROVE  LET c == Coordinator(round[x])
                       IN  /\ round[c] = round[x]
                           /\ pc'[c] \in {"replies", "block"} /\ ~Late(c)
    BY <1>1, <1>4 DEF AskedInv, Coordinator
  <2>1. Coordinator(round[x]) \in Writers
    BY <1>9, CoordinatorType
  <2>. QED
    BY <1>1, <1>2, <2>1 DEF ResetCore, AskedInv
<1>15. DecisionInv'
  BY <1>1, <1>2, <1>3, <1>4, <1>7, <1>9, BlockEnds DEF ResetCore, DecisionInv
<1>16. OneEachInv' /\ OneWinnerInv'
  BY <1>1, <1>2, <1>3, <1>4 DEF ResetCore, OneEachInv, OneWinnerInv
<1>. QED
  BY <1>5, <1>8, <1>11, <1>12, <1>13, <1>14, <1>15, <1>16 DEF ResetCore

LEMMA AnswerRequestReset ==
  ASSUME TypeOK, ResetCore, NEW n \in Writers, AnswerRequest(n)
  PROVE  ResetCore'
<1>1. PICK m \in Receivable(n, "request"), x \in Pads :
        /\ m.from = Coordinator(round[n])
        /\ msgs' = (msgs \ {m}) \cup {Reply(round[n], n, m.from, x)}
  BY DEF AnswerRequest
<1>2. /\ pc[n] = "request"
      /\ pc' = [pc EXCEPT ![n] = "announce"]
      /\ UNCHANGED <<round, numbers, winner, chain>>
  BY DEF AnswerRequest
<1>3. \A y \in Writers : pc'[y] = IF y = n THEN "announce" ELSE pc[y]
  BY <1>2 DEF TypeOK
<1>4. /\ \A y \in Writers : round[y] \in Nat
      /\ \A o \in msgs : IsMessage(o)
      /\ \A o \in msgs : o.from \in Writers /\ o.to \in Writers /\ o.to # o.from
  BY DEF TypeOK, IsMessage, Others
<1>. DEFINE c == m.from
            r == round[n]
            reply == Reply(r, n, c, x)
<1>5. /\ m \in MsgsOf("request") /\ m.to = n
      /\ c \in Writers /\ c # n
      /\ r \in Nat
      /\ r # 0 => m.round = r
  BY <1>4 DEF Receivable, MsgsOf
<1>6. ~Late(n) /\ \A k : AllEngaged(k) => ~Deciding(n)
  BY <1>2, StarterUndecided DEF Engaged
<1>7. \* The request is for the round n is in: in round 0 too, in which the
      \* engines that are not late are all or none.
      /\ m.round = r /\ pc[c] = "replies" /\ round[c] = r /\ ~Late(c)
      /\ n \notin Ids(numbers[c])
      /\ \A o \in MsgsOf("reply") : ~(o.from = n /\ o.to = c)
  <2>1. /\ pc[c] = "replies" /\ round[c] = m.round
        /\ n \notin Ids(numbers[c])
        /\ \A o \in MsgsOf("reply") : ~(o.from = n /\ o.to = c)
    BY <1>5 DEF ResetCore, AskInv
  <2>2. ~Late(c)
    BY <1>5, <2>1, LateEngaged DEF Engaged
  <2>3. r = 0 => round[c] = 0
    BY <1>5, <1>6, <2>2 DEF ResetCore, CountInv
  <2>. QED
    BY <1>5, <2>1, <2>2, <2>3
<1>8. /\ MsgsOf("request")' = MsgsOf("request") \ {m}
      /\ MsgsOf("reply")' = MsgsOf("reply") \cup {reply}
      /\ MsgsOf("announce")' = MsgsOf("announce")
      /\ MsgsOf("block")' = MsgsOf("block")
      /\ reply.from = n /\ reply.to = c /\ reply.round = r
      /\ reply.type = "reply"
  BY <1>1, <1>5 DEF MsgsOf, Reply
<1>. HIDE DEF reply, c, r
<1>9. /\ SomeoneLate' = SomeoneLate
      /\ \A y : Late(y)' = Late(y) /\ Deciding(y)' = Deciding(y)
  BY <1>8, LateKept
<1>10. CountInv' /\ KinInv' /\ StoredInv'
  BY <1>2, <1>8, PlacesKept
<1>11. \A k : AllEngaged(k) => AllEngaged(k)'
  BY <1>2, <1>3, <1>6, <1>9 DEF AllEngaged
<1>12. RoleInv'
  BY <1>2, <1>3 DEF ResetCore, RoleInv
<1>13. AskInv'
  <2>. SUFFICES ASSUME NEW o \in MsgsOf("request"), o # m
                PROVE  /\ o.from = Coordinator(o.round)
                       /\ pc'[o.from] = "replies"
                       /\ round[o.from] = o.round
                       /\ ~Late(o.to) /\ round[o.to] = o.round =>
                            pc'[o.to] \in {"loop", "request"}
                       /\ o.to \notin Ids(numbers[o.from])
                       /\ \A q \in MsgsOf("reply") \cup {reply} :
                            ~(q.from = o.to /\ q.to = o.from)
    BY <1>2, <1>8, <1>9 DEF AskInv, Ids
  <2>1. o.from \in Writers /\ o.to \in Writers /\ o.type = "request"
        /\ o = Request(o.round, o.from, o.to)
    BY <1>4 DEF MsgsOf, IsMessage, Reply, Announce, BlockMsg, Request
  <2>2. m = Request(m.round, m.from, m.to)
    BY <1>4, <1>5 DEF MsgsOf, IsMessage, Reply, Announce, BlockMsg, Request
  <2>3. o.from # n
    BY <1>2 DEF ResetCore, AskInv
  <2>4. ~(o.to = n /\ o.round = r)
    <3>. SUFFICES ASSUME o.to = n, o.round = r PROVE FALSE
      OBVIOUS
    <3>1. o.from = c
      BY <1>1 DEF ResetCore, AskInv, c, r
    <3>. QED
      BY <1>5, <1>7, <2>1, <2>2, <3>1 DEF c, r
  <2>5. ~(o.to = n /\ o.from = c)
    BY <1>7, <2>4 DEF ResetCore, AskInv
  <2>. QED
    BY <1>3, <1>8, <2>1, <2>3, <2>4, <2>5 DEF ResetCore, AskInv, r
<1>14. AnswerInv'
  <2>1. ASSUME NEW o \in MsgsOf("reply")
        PROVE  /\ pc'[o.to] = "replies" /\ round'[o.to] = o.round
               /\ pc'[o.from] = "announce" /\ round'[o.from] = o.round
               /\ o.from \notin Ids(numbers'[o.to]) /\ ~Late(o.from)
    <3>1. o.to \in Writers /\ o.from \in Writers /\ o.to # n /\ o.from # n
      BY <1>2, <1>4, <2>1 DEF ResetCore, AnswerInv, MsgsOf
    <3>. QED
      BY <1>2, <1>3, <1>9, <2>1, <3>1 DEF ResetCore, AnswerInv
  <2>2. /\ pc'[reply.to] = "replies" /\ round'[reply.to] = reply.round
        /\ pc'[reply.from] = "announce" /\ round'[reply.from] = reply.round
        /\ reply.from \notin Ids(numbers'[reply.to]) /\ ~Late(reply.from)
    BY <1>2, <1>3, <1>5, <1>6, <1>7, <1>8, <1>9 DEF r
  <2>3. \A o, q \in MsgsOf("reply") \cup {reply} :
          q.from = o.from /\ q.to = o.to => q = o
    BY <1>7, <1>8 DEF ResetCore, AnswerInv
  <2>. QED
    BY <1>8, <1>9, <2>1, <2>2, <2>3 DEF AnswerInv, Ids
<1>15. CollectedInv'
  <2>. SUFFICES ASSUME NEW y \in Writers, pc'[y] = "replies"
                PROVE  /\ \A i, j \in DOMAIN numbers[y] :
                            numbers[y][i][1] = numbers[y][j][1] => i = j
                       /\ \A o \in Ids(numbers[y]) :
                            /\ o # y /\ round[o] = round[y]
                            /\ pc'[o] = "announce" /\ ~Late(o)
    BY <1>2, <1>9 DEF CollectedInv, Ids
  <2>1. Ids(numbers[y]) \subseteq Writers
    BY IdsType
  <2>. QED
    BY <1>2, <1>3, <2>1 DEF ResetCore, CollectedInv
<1>16. AskedInv'
  <2>. SUFFICES ASSUME NEW y \in Writers, pc'[y] \in {"announce", "dead"}, ~Late(y)
                PROVE  /\ round[Coordinator(round[y])] = round[y]
                       /\ pc'[Coordinator(round[y])] \in {"replies", "block"}
                       /\ ~Late(Coordinator(round[y]))
    BY <1>2, <1>9 DEF AskedInv, Coordinator
  <2>1. Coordinator(round[y]) \in Writers
    BY <1>4, CoordinatorType
  <2>2. CASE y = n
    BY <1>1, <1>3, <1>5, <1>7, <2>2 DEF c, r
  <2>3. CASE y # n
    <3>1. /\ round[Coordinator(round[y])] = round[y]
          /\ pc[Coordinator(round[y])] \in {"replies", "block"}
          /\ ~Late(Coordinator(round[y]))
      BY <1>3, <2>3 DEF ResetCore, AskedInv
    <3>. QED
      BY <1>2, <1>3, <2>1, <3>1
  <2>. QED
    BY <2>2, <2>3
<1>17. DecisionInv'
  <2>1. \A y \in Writers : pc'[y] = "block" => Deciding(y)' /\ AllEngaged(round[y])'
    BY <1>2, <1>3, <1>9, <1>11 DEF ResetCore, DecisionInv
  <2>2. \A o \in MsgsOf("announce") :
          Deciding(o.to)' /\ AllEngaged(o.round)' /\ pc'[o.to] = "announce"
    <3>1. \A o \in MsgsOf("announce") : o.to \in Writers
      BY <1>4 DEF MsgsOf
    <3>. QED
      BY <1>3, <1>9, <1>11, <3>1 DEF ResetCore, DecisionInv
  <2>3. \A o \in MsgsOf("block") : AllEngaged(o.round)'
    BY <1>11 DEF ResetCore, DecisionInv
  <2>. QED
    BY <1>2, <1>8, <2>1, <2>2, <2>3 DEF DecisionInv
<1>18. OneEachInv' /\ OneWinnerInv'
  BY <1>2, <1>3, <1>8, <1>9 DEF ResetCore, OneEachInv, OneWinnerInv
<1>. QED
  BY <1>10, <1>12, <1>13, <1>14, <1>15, <1>16, <1>17, <1>18 DEF ResetCore

LEMMA CollectReplyReset ==
  ASSUME TypeOK, ResetCore, NEW n \in Writers, CollectReply(n)
  PROVE  ResetCore'
<1>1. PICK m \in Receivable(n, "reply") :
        /\ numbers' = [numbers EXCEPT ![n] = Append(@, <<m.from, m.number>>)]
        /\ msgs' = msgs \ {m}
  BY DEF CollectReply
<1>2. /\ pc[n] = "replies"
      /\ UNCHANGED <<pc, round, winner, chain>>
  BY DEF CollectReply
<1>3. /\ m \in MsgsOf("reply") /\ m.to = n /\ m.from \in Writers /\ m.from # n
      /\ m.number \in Pads
  BY ReceivableType DEF Receivable, MsgsOf, IsMessage, Others, TypeOK
<1>4. \A o \in msgs : o.from \in Writers /\ o.to \in Writers
  BY DEF TypeOK, IsMessage, Others
<1>5. /\ \A y \in Writers : y # n => numbers'[y] = numbers[y]
      /\ \A i \in DOMAIN numbers'[n] :
           \/ i \in DOMAIN numbers[n] /\ numbers'[n][i] = numbers[n][i]
           \/ i = Len(numbers[n]) + 1 /\ numbers'[n][i][1] = m.from
  <2>. DEFINE s == numbers[n]
              e == <<m.from, m.number>>
  <2>1. s \in Seq(Writers \X Pads) /\ e \in Writers \X Pads
    BY <1>3 DEF TypeOK
  <2>2. numbers'[n] = Append(s, e)
    BY <1>1 DEF TypeOK
  <2>3. \A y \in Writers : y # n => numbers'[y] = numbers[y]
    BY <1>1 DEF TypeOK
  <2>4. e[1] = m.from
    OBVIOUS
  <2>. HIDE DEF s, e
  <2>5. \A i \in DOMAIN Append(s, e) :
          \/ i \in DOMAIN s /\ Append(s, e)[i] = s[i]
          \/ i = Len(s) + 1 /\ Append(s, e)[i] = e
    BY <2>1
  <2>. QED
    BY <2>2, <2>3, <2>4, <2>5 DEF s
<1>6. Ids(numbers'[n]) \subseteq Ids(numbers[n]) \cup {m.from}
  BY <1>5 DEF Ids
<1>7. /\ MsgsOf("request")' = MsgsOf("request")
      /\ MsgsOf("reply")' = MsgsOf("reply") \ {m}
      /\ MsgsOf("announce")' = MsgsOf("announce")
      /\ MsgsOf("block")' = MsgsOf("block")
  BY <1>1, <1>3 DEF MsgsOf
<1>8. /\ SomeoneLate' = SomeoneLate
      /\ \A y : Late(y)' = Late(y) /\ Deciding(y)' = Deciding(y)
  BY <1>7, LateKept
<1>9. CountInv' /\ KinInv' /\ StoredInv'
  BY <1>2, <1>7, PlacesKept
<1>10. \A k : AllEngaged(k) => AllEngaged(k)'
  BY <1>2, <1>8 DEF AllEngaged
<1>11. RoleInv' /\ AskedInv'
  BY <1>2, <1>8 DEF ResetCore, RoleInv, AskedInv
<1>12. AskInv'
  <2>1. \A o \in MsgsOf("request") : o.from \in Writers
    BY <1>4 DEF MsgsOf
  <2>2. \A o \in MsgsOf("request") : o.to \notin Ids(numbers'[o.from])
    <3>. SUFFICES ASSUME NEW o \in MsgsOf("request"), o.from = n,
                         o.to \in Ids(numbers'[n])
                  PROVE  FALSE
      BY <1>5, <2>1 DEF ResetCore, AskInv
    <3>1. o.to \notin Ids(numbers[n])
      BY DEF ResetCore, AskInv
    <3>2. o.to = m.from
      BY <1>6, <3>1
    <3>. QED
      BY <1>3, <3>2 DEF ResetCore, AskInv
  <2>. QED
    BY <1>2, <1>7, <1>8, <2>2 DEF ResetCore, AskInv, Ids
<1>13. AnswerInv'
  <2>1. \A o \in MsgsOf("reply") : o.to \in Writers
    BY <1>4 DEF MsgsOf
  <2>2. \A o \in MsgsOf("reply") \ {m} : o.from \notin Ids(numbers'[o.to])
    <3>. SUFFICES ASSUME NEW o \in MsgsOf("reply"), o # m, o.to = n,
                         o.from \in Ids(numbers'[n])
                  PROVE  FALSE
      BY <1>5, <2>1 DEF ResetCore, AnswerInv
    <3>1. o.from \notin Ids(numbers[n])
      BY DEF ResetCore, AnswerInv
    <3>2. o.from = m.from
      BY <1>6, <3>1
    <3>. QED
      BY <1>3, <3>2 DEF ResetCore, AnswerInv
  <2>. QED
    BY <1>2, <1>7, <1>8, <2>2 DEF ResetCore, AnswerInv, Ids
<1>14. CollectedInv'
  <2>1. \A i \in DOMAIN numbers[n] : numbers[n][i][1] # m.from
    BY <1>3 DEF ResetCore, AnswerInv, Ids
  <2>2. \A i, j \in DOMAIN numbers'[n] :
          numbers'[n][i][1] = numbers'[n][j][1] => i = j
    BY <1>2, <1>5, <2>1 DEF ResetCore, CollectedInv
  <2>3. \A o \in Ids(numbers'[n]) :
          o # n /\ round[o] = round[n] /\ pc[o] = "announce" /\ ~Late(o)
    BY <1>2, <1>3, <1>6 DEF ResetCore, CollectedInv, AnswerInv
  <2>. QED
    BY <1>2, <1>5, <1>8, <2>2, <2>3 DEF ResetCore, CollectedInv, Ids
<1>15. DecisionInv'
  BY <1>2, <1>7, <1>8, <1>10 DEF ResetCore, DecisionInv
<1>16. OneEachInv' /\ OneWinnerInv'
  BY <1>2, <1>7, <1>8 DEF ResetCore, OneEachInv, OneWinnerInv
<1>. QED
  BY <1>9, <1>11, <1>12, <1>13, <1>14, <1>15, <1>16 DEF ResetCore

----------------------------------------------------------------------------
(* The announcement.                                                        *)

\* When all are engaged in a round that is not over, nothing is under way that
\* belongs to its beginning.
LEMMA NothingAsked ==
  ASSUME TypeOK, ResetCore, ~SomeoneLate, NEW r, AllEngaged(r)
  PROVE  /\ MsgsOf("request") = {} /\ MsgsOf("reply") = {}
         /\ MsgsOf("block") = {}
         /\ \A x \in Writers : round[x] = r /\ pc[x] \in Engaged /\ ~Late(x)
<1>1. \A x \in Writers : round[x] = r /\ pc[x] \in Engaged
  BY DEF AllEngaged, Deciding
<1>2. MsgsOf("block") = {} /\ \A x \in Writers : ~Late(x)
  BY DEF SomeoneLate, Late
<1>3. \A o \in msgs : o.from \in Writers /\ o.to \in Writers
  BY DEF TypeOK, IsMessage, Others
<1>4. \A o \in MsgsOf("request") : FALSE
  BY <1>1, <1>3 DEF ResetCore, AskInv, Engaged, MsgsOf
<1>5. \A o \in MsgsOf("reply") : FALSE
  BY <1>1, <1>3 DEF ResetCore, AnswerInv, Engaged, MsgsOf
<1>. QED
  BY <1>1, <1>2, <1>4, <1>5

\* A coordinator that has all replies finds everybody waiting for it.
LEMMA AllWait ==
  ASSUME TypeOK, ResetCore, NEW n \in Writers, pc[n] = "replies",
         Len(numbers[n]) >= RepliesNeeded
  PROVE  /\ \A x \in Writers \ {n} :
              round[x] = round[n] /\ pc[x] = "announce" /\ ~Late(x)
         /\ ~Late(n) /\ ~SomeoneLate
         /\ MsgsOf("request") = {} /\ MsgsOf("reply") = {}
         /\ MsgsOf("announce") = {} /\ MsgsOf("block") = {}
<1>1. numbers[n] \in Seq(Writers \X Pads)
  BY DEF TypeOK
<1>2. /\ \A i, j \in DOMAIN numbers[n] :
           numbers[n][i][1] = numbers[n][j][1] => i = j
      /\ \A o \in Ids(numbers[n]) :
           o # n /\ round[o] = round[n] /\ pc[o] = "announce" /\ ~Late(o)
  BY DEF ResetCore, CollectedInv
<1>3. Writers \ {n} \subseteq Ids(numbers[n])
  BY <1>1, <1>2, AllReplied
<1>4. \A x \in Writers \ {n} :
        round[x] = round[n] /\ pc[x] = "announce" /\ ~Late(x)
  BY <1>2, <1>3
<1>5. ~Late(n) /\ \A k : AllEngaged(k) => ~Deciding(n)
  BY StarterUndecided DEF Engaged
<1>6. MsgsOf("block") = {} /\ ~SomeoneLate
  BY <1>4, <1>5, BlockEnds DEF SomeoneLate
<1>7. MsgsOf("announce") = {}
  BY <1>5, <1>6 DEF ResetCore, DecisionInv, Deciding
<1>8. \A o \in msgs : /\ o.from \in Writers /\ o.to \in Writers
                      /\ o.to # o.from
  BY DEF TypeOK, IsMessage, Others
<1>9. \A o \in MsgsOf("request") : FALSE
  <2>. SUFFICES ASSUME NEW o \in MsgsOf("request") PROVE FALSE
    OBVIOUS
  <2>1. o.from \in Writers /\ o.to \in Writers /\ o.to # o.from
    BY <1>8 DEF MsgsOf
  <2>2. o.from = n /\ o.to \notin Ids(numbers[n])
    BY <1>4, <2>1 DEF ResetCore, AskInv
  <2>. QED
    BY <1>3, <2>1, <2>2
<1>10. \A o \in MsgsOf("reply") : FALSE
  <2>. SUFFICES ASSUME NEW o \in MsgsOf("reply") PROVE FALSE
    OBVIOUS
  <2>1. o.from \in Writers /\ o.to \in Writers /\ o.to # o.from
    BY <1>8 DEF MsgsOf
  <2>2. o.to = n /\ o.from \notin Ids(numbers[n])
    BY <1>4, <2>1 DEF ResetCore, AnswerInv
  <2>. QED
    BY <1>3, <2>1, <2>2
<1>. QED
  BY <1>4, <1>5, <1>6, <1>7, <1>9, <1>10

LEMMA AnnounceWinnerReset ==
  ASSUME TypeOK, ResetCore, NEW n \in Writers, AnnounceWinner(n)
  PROVE  ResetCore'
<1>1. PICK p \in Pads, w \in Writers :
        /\ msgs' = msgs \cup {Announce(round[n], n, o, numbers[n], p, w) :
                                o \in Others(n)}
        /\ winner' = [winner EXCEPT ![n] = w]
  BY DEF AnnounceWinner
<1>2. /\ pc[n] = "replies" /\ Len(numbers[n]) >= RepliesNeeded
      /\ pc' = [pc EXCEPT ![n] = "block"]
      /\ UNCHANGED <<round, chain>>
  BY DEF AnnounceWinner
<1>. DEFINE r == round[n]
            new == {Announce(r, n, o, numbers[n], p, w) : o \in Others(n)}
<1>3. /\ \A x \in Writers : pc'[x] = IF x = n THEN "block" ELSE pc[x]
      /\ \A x \in Writers : winner'[x] = IF x = n THEN w ELSE winner[x]
  BY <1>1, <1>2 DEF TypeOK
<1>4. \A m \in new : /\ m.type = "announce" /\ m.round = r
                     /\ m.to \in Writers /\ m.to # n /\ m.winner = w
  BY DEF Announce, Others
<1>5. \A m, o \in new : m.to = o.to => m = o
  BY DEF Announce
<1>6. /\ \A x \in Writers \ {n} : round[x] = r /\ pc[x] = "announce" /\ ~Late(x)
      /\ ~Late(n) /\ ~SomeoneLate
      /\ MsgsOf("request") = {} /\ MsgsOf("reply") = {}
      /\ MsgsOf("announce") = {} /\ MsgsOf("block") = {}
  BY <1>2, AllWait
<1>7. /\ MsgsOf("request")' = {} /\ MsgsOf("reply")' = {}
      /\ MsgsOf("announce")' = new /\ MsgsOf("block")' = MsgsOf("block")
  <2>1. msgs' = msgs \cup new
    BY <1>1
  <2>. HIDE DEF new
  <2>. QED
    BY <1>4, <1>6, <2>1 DEF MsgsOf
<1>. HIDE DEF new
<1>8. /\ SomeoneLate' = SomeoneLate
      /\ \A x : Late(x)' = Late(x) /\ Deciding(x)' = Deciding(x)
  BY <1>7, LateKept
<1>9. CountInv' /\ KinInv' /\ StoredInv'
  BY <1>2, <1>7, PlacesKept
<1>10. \A x \in Writers : ~Late(x)' /\ Deciding(x)' /\ round'[x] = r
                          /\ pc'[x] \in {"announce", "block"}
  BY <1>2, <1>3, <1>6, <1>8 DEF Deciding
<1>11. AllEngaged(r)'
  BY <1>10 DEF AllEngaged, Engaged
<1>12. RoleInv'
  BY <1>2, <1>3 DEF ResetCore, RoleInv
<1>13. AskInv' /\ AnswerInv' /\ CollectedInv'
  BY <1>7, <1>10 DEF AskInv, AnswerInv, CollectedInv
<1>14. AskedInv'
  <2>. SUFFICES ASSUME NEW x \in Writers, pc'[x] \in {"announce", "dead"}
                PROVE  /\ round'[Coordinator(round'[x])] = round'[x]
                       /\ pc'[Coordinator(round'[x])] \in {"replies", "block"}
                       /\ ~Late(Coordinator(round[x]))'
    BY <1>2 DEF AskedInv, Coordinator
  <2>1. round'[x] = r /\ round[x] = r
    BY <1>2, <1>10
  <2>2. Coordinator(r) = n
    BY <1>2 DEF ResetCore, RoleInv
  <2>. QED
    BY <1>3, <1>8, <1>6, <1>10, <2>1, <2>2
<1>15. DecisionInv'
  <2>1. \A x \in Writers : pc'[x] = "block" => Deciding(x)' /\ AllEngaged(round[x])'
    BY <1>2, <1>10, <1>11
  <2>2. \A m \in new : Deciding(m.to)' /\ AllEngaged(m.round)' /\ pc'[m.to] = "announce"
    BY <1>3, <1>4, <1>6, <1>8, <1>10, <1>11
  <2>. QED
    BY <1>2, <1>6, <1>7, <1>8, <2>1, <2>2 DEF DecisionInv
<1>16. OneEachInv' /\ OneWinnerInv'
  <2>1. \A x \in Writers : pc'[x] = "block" => winner'[x] = w
    BY <1>3, <1>6
  <2>. QED
    BY <1>4, <1>5, <1>6, <1>7, <1>8, <2>1 DEF OneEachInv, OneWinnerInv
<1>. QED
  BY <1>9, <1>12, <1>13, <1>14, <1>15, <1>16 DEF ResetCore

\* An announcement or a block that an engine takes is for the round it is in,
\* also in round 0, and everybody who has not left that round is engaged in it.
LEMMA TakenNow ==
  ASSUME TypeOK, ResetCore, NEW n \in Writers, NEW type \in {"announce", "block"},
         NEW m \in Receivable(n, type)
  PROVE  /\ m \in MsgsOf(type) /\ m.to = n /\ m.round = round[n]
         /\ Deciding(n) /\ AllEngaged(round[n])
<1>1. /\ m \in msgs /\ IsMessage(m) /\ m.type = type /\ m.to = n
  BY ReceivableType
<1>2. m \in MsgsOf(type)
  BY <1>1 DEF MsgsOf
<1>3. AllEngaged(m.round)
  BY <1>2 DEF ResetCore, DecisionInv
<1>4. Deciding(n)
  <2>1. CASE type = "announce"
    BY <1>1, <1>2, <2>1 DEF ResetCore, DecisionInv
  <2>2. CASE type = "block"
    BY <1>1, <1>2, <2>2 DEF Deciding, Late
  <2>. QED
    BY <2>1, <2>2
<1>5. m.round = round[n]
  BY <1>3, <1>4 DEF AllEngaged
<1>. QED
  BY <1>1, <1>2, <1>3, <1>4, <1>5

LEMMA AwaitBlockReset ==
  ASSUME TypeOK, ResetCore, NEW n \in Writers, AwaitBlock(n)
  PROVE  ResetCore'
<1>1. PICK m \in Announcements(n) :
        /\ msgs' = msgs \ {m}
        /\ pc' = [pc EXCEPT ![n] = IF Verified(n, m) THEN "block" ELSE "dead"]
        /\ winner' = [winner EXCEPT ![n] = m.winner]
  BY DEF AwaitBlock
<1>2. /\ pc[n] = "announce"
      /\ UNCHANGED <<round, numbers, chain>>
  BY DEF AwaitBlock
<1>. DEFINE r == round[n]
<1>3. /\ m \in MsgsOf("announce") /\ m.to = n
      /\ Deciding(n) /\ AllEngaged(r)
  <2>1. m \in Receivable(n, "announce")
    BY DEF Announcements
  <2>. QED
    BY <2>1, TakenNow
<1>4. /\ pc'[n] \in {"block", "dead"}
      /\ \A x \in Writers : x # n => pc'[x] = pc[x]
      /\ winner'[n] = m.winner
      /\ \A x \in Writers : x # n => winner'[x] = winner[x]
      /\ \A x \in Writers : round[x] \in Nat
  BY <1>1 DEF TypeOK
<1>5. \A o \in msgs : o.from \in Writers /\ o.to \in Writers
  BY DEF TypeOK, IsMessage, Others
<1>6. /\ MsgsOf("request")' = MsgsOf("request")
      /\ MsgsOf("reply")' = MsgsOf("reply")
      /\ MsgsOf("announce")' = MsgsOf("announce") \ {m}
      /\ MsgsOf("block")' = MsgsOf("block")
  BY <1>1, <1>3 DEF MsgsOf
<1>7. /\ SomeoneLate' = SomeoneLate
      /\ \A x : Late(x)' = Late(x) /\ Deciding(x)' = Deciding(x)
  BY <1>6, LateKept
<1>8. CountInv' /\ KinInv' /\ StoredInv'
  BY <1>2, <1>6, PlacesKept
<1>9. \A k : AllEngaged(k) => AllEngaged(k)'
  BY <1>2, <1>4, <1>7 DEF AllEngaged, Engaged
<1>10. \* If n is not late, all are engaged and nobody collects replies.
       ~Late(n) => \A x \in Writers : pc[x] # "replies"
  BY <1>3, NothingAsked DEF Deciding, Engaged
<1>11. RoleInv'
  BY <1>2, <1>4 DEF ResetCore, RoleInv
<1>12. AskInv'
  <2>. SUFFICES ASSUME NEW o \in MsgsOf("request")
                PROVE  /\ o.from = Coordinator(o.round)
                       /\ pc'[o.from] = "replies"
                       /\ round[o.from] = o.round
                       /\ ~Late(o.to) /\ round[o.to] = o.round =>
                            pc'[o.to] \in {"loop", "request"}
                       /\ o.to \notin Ids(numbers[o.from])
                       /\ \A q \in MsgsOf("reply") :
                            ~(q.from = o.to /\ q.to = o.from)
    BY <1>2, <1>6, <1>7 DEF AskInv, Ids
  <2>1. o.from \in Writers /\ o.to \in Writers
    BY <1>5 DEF MsgsOf
  <2>. QED
    BY <1>2, <1>4, <2>1 DEF ResetCore, AskInv
<1>13. AnswerInv'
  <2>. SUFFICES ASSUME NEW o \in MsgsOf("reply")
                PROVE  /\ pc'[o.to] = "replies"
                       /\ round[o.to] = o.round
                       /\ pc'[o.from] = "announce" /\ ~Late(o.from)
                       /\ round[o.from] = o.round
                       /\ o.from \notin Ids(numbers[o.to])
                       /\ \A q \in MsgsOf("reply") :
                            q.from = o.from /\ q.to = o.to => q = o
    BY <1>2, <1>6, <1>7 DEF AnswerInv, Ids
  <2>1. o.from \in Writers /\ o.to \in Writers
    BY <1>5 DEF MsgsOf
  <2>2. o.from # n
    BY <1>10, <2>1 DEF ResetCore, AnswerInv
  <2>. QED
    BY <1>2, <1>4, <2>1, <2>2 DEF ResetCore, AnswerInv
<1>14. CollectedInv'
  <2>. SUFFICES ASSUME NEW x \in Writers, pc'[x] = "replies"
                PROVE  /\ \A i, j \in DOMAIN numbers[x] :
                            numbers[x][i][1] = numbers[x][j][1] => i = j
                       /\ \A o \in Ids(numbers[x]) :
                            /\ o # x /\ round[o] = round[x]
                            /\ pc'[o] = "announce" /\ ~Late(o)
    BY <1>2, <1>7 DEF CollectedInv, Ids
  <2>1. Ids(numbers[x]) \subseteq Writers
    BY IdsType
  <2>2. x # n /\ pc[x] = "replies"
    BY <1>4
  <2>3. n \notin Ids(numbers[x])
    BY <1>10, <2>2 DEF ResetCore, CollectedInv
  <2>. QED
    BY <1>4, <2>1, <2>2, <2>3 DEF ResetCore, CollectedInv
<1>15. AskedInv'
  <2>. SUFFICES ASSUME NEW x \in Writers, pc'[x] \in {"announce", "dead"}, ~Late(x)
                PROVE  /\ round[Coordinator(round[x])] = round[x]
                       /\ pc'[Coordinator(round[x])] \in {"replies", "block"}
                       /\ ~Late(Coordinator(round[x]))
    BY <1>2, <1>7 DEF AskedInv, Coordinator
  <2>1. Coordinator(round[x]) \in Writers
    BY <1>4, CoordinatorType
  <2>2. pc[x] \in {"announce", "dead"}
    BY <1>2, <1>4
  <2>3. /\ round[Coordinator(round[x])] = round[x]
        /\ pc[Coordinator(round[x])] \in {"replies", "block"}
        /\ ~Late(Coordinator(round[x]))
    BY <2>2 DEF ResetCore, AskedInv
  <2>4. Coordinator(round[x]) # n
    BY <1>2, <2>3
  <2>. QED
    BY <1>4, <2>1, <2>3, <2>4
<1>16. DecisionInv'
  <2>1. \A x \in Writers : pc'[x] = "block" => Deciding(x)' /\ AllEngaged(round[x])'
    BY <1>2, <1>3, <1>4, <1>7, <1>9 DEF ResetCore, DecisionInv
  <2>2. \A o \in MsgsOf("announce") \ {m} :
          Deciding(o.to)' /\ AllEngaged(o.round)' /\ pc'[o.to] = "announce"
    <3>1. \A o \in MsgsOf("announce") : o.to \in Writers
      BY <1>5 DEF MsgsOf
    <3>2. \A o \in MsgsOf("announce") \ {m} : o.to # n
      BY <1>3 DEF ResetCore, OneEachInv
    <3>. QED
      BY <1>4, <1>7, <1>9, <3>1, <3>2 DEF ResetCore, DecisionInv
  <2>. QED
    BY <1>2, <1>6, <1>7, <1>9, <2>1, <2>2 DEF ResetCore, DecisionInv
<1>17. OneEachInv' /\ OneWinnerInv'
  <2>1. OneEachInv'
    BY <1>6 DEF ResetCore, OneEachInv
  <2>2. \A o \in MsgsOf("announce"), x \in Writers :
          pc'[x] = "block" => winner'[x] = o.winner
    BY <1>3, <1>4 DEF ResetCore, OneWinnerInv
  <2>3. \A x \in Writers : pc'[x] = "block" /\ SomeoneLate => ~Late(winner'[x])
    BY <1>3, <1>4 DEF ResetCore, OneWinnerInv
  <2>. QED
    BY <1>6, <1>7, <2>1, <2>2, <2>3 DEF ResetCore, OneWinnerInv
<1>. QED
  BY <1>8, <1>11, <1>12, <1>13, <1>14, <1>15, <1>16, <1>17 DEF ResetCore

----------------------------------------------------------------------------
(* The block.                                                               *)

LEMMA StoredFacts ==
  ASSUME TypeOK, NEW n \in Writers, NEW b, IsBlock(b), StoreBlock(n, b)
  PROVE  /\ Len(chain[n]) \in Nat
         /\ chain'[n] = Append(chain[n], b)
         /\ Len(chain'[n]) = Len(chain[n]) + 1
         /\ chain'[n] # <<>>
         /\ chain'[n][Len(chain'[n])] = b
         /\ chain[n] = <<>> <=> Len(chain[n]) = 0
         /\ round'[n] = Len(chain[n]) + 2
         /\ pc'[n] = "loop"
         /\ numbers' = numbers
         /\ \A x \in Writers : x # n =>
              /\ chain'[x] = chain[x] /\ round'[x] = round[x]
              /\ pc'[x] = pc[x] /\ winner'[x] = winner[x]
<1>1. /\ IsChain(chain[n])
      /\ chain'[n] = Append(chain[n], b)
      /\ round'[n] = Len(chain[n]) + 2
      /\ pc'[n] = "loop" /\ numbers' = numbers
      /\ \A x \in Writers : x # n =>
           /\ chain'[x] = chain[x] /\ round'[x] = round[x]
           /\ pc'[x] = pc[x] /\ winner'[x] = winner[x]
  BY DEF StoreBlock, TypeOK
<1>2. /\ Len(chain[n]) \in Nat
      /\ Len(Append(chain[n], b)) = Len(chain[n]) + 1
      /\ Append(chain[n], b)[Len(chain[n]) + 1] = b
  BY <1>1, ChainAppend
<1>3. chain[n] \in Seq(Range(chain[n]))
  BY <1>1 DEF IsChain
<1>4. chain[n] = <<>> <=> Len(chain[n]) = 0
  BY <1>3, EmptySeq
<1>5. Append(chain[n], b) # <<>>
  BY <1>2
<1>. QED
  BY <1>1, <1>2, <1>4, <1>5

LEMMA WinRoundReset ==
  ASSUME TypeOK, ResetCore, NEW n \in Writers, WinRound(n)
  PROVE  ResetCore'
<1>0. PICK r : r = round[n]
  OBVIOUS
<1>. DEFINE b == CreateBlock(n, round[n])
            new == {BlockMsg(round[n], n, o, b) : o \in Others(n)}
<1>1. PICK m \in Announcements(n) :
        /\ IsWinner(n, m)
        /\ msgs' = (msgs \ {m}) \cup new
        /\ StoreBlock(n, b)
  BY DEF WinRound
<1>2. pc[n] = "announce"
  BY DEF WinRound
<1>3. /\ m \in MsgsOf("announce") /\ m.to = n /\ m.winner = n
      /\ Deciding(n) /\ AllEngaged(r)
  <2>1. m \in Receivable(n, "announce")
    BY DEF Announcements
  <2>2. m.winner = n
    BY <1>1 DEF IsWinner
  <2>. QED
    BY <1>0, <2>1, <2>2, TakenNow
<1>4. ~SomeoneLate
  BY <1>3 DEF ResetCore, OneWinnerInv, Deciding
<1>5. /\ MsgsOf("request") = {} /\ MsgsOf("reply") = {} /\ MsgsOf("block") = {}
      /\ \A x \in Writers : round[x] = r /\ pc[x] \in Engaged /\ ~Late(x)
  BY <1>3, <1>4, NothingAsked
<1>6. IsBlock(b)
  BY NewBlockType
<1>7. \A o \in new : /\ o.type = "block" /\ o.round = r /\ o.block = b
                     /\ o.to \in Writers /\ o.to # n
  BY <1>0 DEF BlockMsg, Others
<1>8. \A o, q \in new : o.to = q.to => o = q
  BY DEF BlockMsg
<1>9. \A x \in Writers : x # n => \E o \in new : o.to = x
  <2>. SUFFICES ASSUME NEW x \in Writers, x # n
                PROVE  \E o \in new : o.to = x
    OBVIOUS
  <2>1. x \in Others(n)
    BY DEF Others
  <2>2. BlockMsg(round[n], n, x, b) \in new
    BY <2>1
  <2>3. BlockMsg(round[n], n, x, b).to = x
    BY DEF BlockMsg
  <2>. HIDE DEF new, b
  <2>. QED
    BY <2>2, <2>3
<1>10. \E x \in Writers : x # n
  <2>1. WriterList[1] \in Writers /\ WriterList[2] \in Writers
        /\ WriterList[1] # WriterList[2]
    <3>1. 1 \in 1 .. NumWriters /\ 2 \in 1 .. NumWriters
      BY WritersType, ConsensusAssumption
    <3>2. WriterList[1] < WriterList[2]
      BY <3>1, ConsensusAssumption
    <3>3. WriterList[1] \in Nat /\ WriterList[2] \in Nat
      BY <3>1, WritersType
    <3>. QED
      BY <3>1, <3>2, <3>3, WritersType
  <2>. QED
    BY <2>1
<1>11. StoreBlock(n, b)
  BY <1>1
<1>. HIDE DEF b, new
<1>12. /\ MsgsOf("request")' = {} /\ MsgsOf("reply")' = {}
       /\ MsgsOf("announce")' = MsgsOf("announce") \ {m}
       /\ MsgsOf("block")' = new
  BY <1>1, <1>3, <1>5, <1>7 DEF MsgsOf
<1>13. /\ SomeoneLate'
       /\ \A x \in Writers : Late(x)' <=> x # n
       /\ \A x \in Writers : Deciding(x)' <=> x # n
  <2>1. \A x \in Writers : Late(x)' <=> x # n
    BY <1>7, <1>9, <1>12 DEF Late
  <2>2. SomeoneLate'
    BY <1>9, <1>10, <1>12 DEF SomeoneLate
  <2>. QED
    BY <2>1, <2>2 DEF Deciding
<1>14. /\ Len(chain[n]) \in Nat
       /\ chain'[n] = Append(chain[n], b)
       /\ Len(chain'[n]) = Len(chain[n]) + 1
       /\ chain'[n] # <<>>
       /\ chain'[n][Len(chain'[n])] = b
       /\ chain[n] = <<>> <=> Len(chain[n]) = 0
       /\ round'[n] = Len(chain[n]) + 2
       /\ pc'[n] = "loop"
       /\ numbers' = numbers
       /\ \A x \in Writers : x # n =>
            /\ chain'[x] = chain[x] /\ round'[x] = round[x]
            /\ pc'[x] = pc[x] /\ winner'[x] = winner[x]
  BY <1>6, <1>11, StoredFacts
<1>15. AllEngaged(r)'
  BY <1>5, <1>13, <1>14 DEF AllEngaged
<1>16. RoleInv'
  <2>. SUFFICES ASSUME NEW x \in Writers
                PROVE  /\ pc'[x] \in {"request", "announce", "dead"} =>
                            Coordinator(round'[x]) # x
                       /\ pc'[x] = "replies" => Coordinator(round'[x]) = x
    BY DEF RoleInv, Coordinator
  <2>1. CASE x = n
    BY <1>14, <2>1
  <2>2. CASE x # n
    BY <1>14, <2>2 DEF ResetCore, RoleInv
  <2>. QED
    BY <2>1, <2>2
<1>17. CountInv'
  <2>1. \A x, y \in Writers :
          (Late(x)' <=> Late(y)') /\ round'[x] = 0 => round'[y] = 0
    <3>. SUFFICES ASSUME NEW x \in Writers, NEW y \in Writers,
                         Late(x)' <=> Late(y)', round'[x] = 0
                  PROVE  round'[y] = 0
      OBVIOUS
    <3>1. x # n
      BY <1>14
    <3>2. y # n
      BY <1>13, <3>1
    <3>. QED
      BY <1>5, <1>14, <3>1, <3>2
  <2>2. \A x \in Writers :
          ~Deciding(x)' =>
            round'[x] # 0 /\ (chain'[x] # <<>> => round'[x] = Len(chain'[x]) + 1)
    BY <1>13, <1>14
  <2>. QED
    BY <2>1, <2>2 DEF CountInv
<1>18. KinInv'
  <2>. SUFFICES ASSUME NEW x \in Writers, NEW y \in Writers, Late(x)' <=> Late(y)'
                PROVE  IF round'[x] = round'[y]
                       THEN SameChain(chain'[x], chain'[y])
                       ELSE Len(chain'[x]) <= 1 \/ Len(chain'[y]) <= 1
    BY DEF KinInv, SameChain
  <2>1. CASE x = n
    <3>1. y = n
      BY <1>13, <2>1
    <3>. QED
      BY <2>1, <3>1 DEF SameChain
  <2>2. CASE x # n
    <3>1. y # n
      BY <1>13, <2>2
    <3>2. ~Late(x) /\ ~Late(y) /\ round[x] = round[y]
      BY <1>5
    <3>3. SameChain(chain[x], chain[y])
      BY <3>2 DEF ResetCore, KinInv
    <3>. QED
      BY <1>14, <2>2, <3>1, <3>2, <3>3
  <2>. QED
    BY <2>1, <2>2
<1>19. StoredInv'
  <2>. SUFFICES ASSUME NEW o \in new, NEW x \in Writers, ~Late(x)', chain'[x] # <<>>
                PROVE  /\ chain'[x][Len(chain'[x])] = o.block
                       /\ \/ Len(chain'[x]) = 1
                          \/ chain'[o.to] = <<>>
                          \/ chain'[x] = Append(chain'[o.to], o.block)
    BY <1>12 DEF StoredInv
  <2>1. x = n
    BY <1>13
  <2>2. o.block = b /\ o.to \in Writers /\ o.to # n
    BY <1>7
  <2>3. chain'[o.to] = chain[o.to]
    BY <1>14, <2>2
  <2>4. SameChain(chain[n], chain[o.to])
    <3>1. ~Late(n) /\ ~Late(o.to) /\ round[n] = round[o.to]
      BY <1>5, <2>2
    <3>. QED
      BY <2>2, <3>1 DEF ResetCore, KinInv
  <2>5. CASE chain[n] = <<>>
    <3>1. Len(chain'[n]) = 1
      BY <1>14, <2>5
    <3>. QED
      BY <1>14, <2>1, <2>2, <3>1
  <2>6. CASE chain[o.to] = <<>>
    BY <1>14, <2>1, <2>2, <2>3, <2>6
  <2>7. CASE chain[n] = chain[o.to]
    BY <1>14, <2>1, <2>2, <2>3, <2>7
  <2>. QED
    BY <2>4, <2>5, <2>6, <2>7 DEF SameChain
<1>20. AskInv' /\ AnswerInv'
  BY <1>12 DEF AskInv, AnswerInv
<1>21. CollectedInv'
  BY <1>5, <1>14 DEF CollectedInv, Engaged
<1>22. AskedInv'
  <2>1. \A x \in Writers : ~(pc'[x] \in {"announce", "dead"} /\ ~Late(x)')
    BY <1>13, <1>14
  <2>. QED
    BY <2>1 DEF AskedInv
<1>23. DecisionInv'
  <2>1. \A x \in Writers : pc'[x] = "block" => Deciding(x)' /\ AllEngaged(round[x])'
    <3>. SUFFICES ASSUME NEW x \in Writers, pc'[x] = "block"
                  PROVE  Deciding(x)' /\ AllEngaged(round[x])'
      OBVIOUS
    <3>1. x # n
      BY <1>14
    <3>2. round'[x] = r
      BY <1>5, <1>14, <3>1
    <3>. QED
      BY <1>13, <1>15, <3>1, <3>2 DEF AllEngaged
  <2>2. \A o \in MsgsOf("announce") \ {m} :
          Deciding(o.to)' /\ AllEngaged(o.round)' /\ pc'[o.to] = "announce"
    <3>. SUFFICES ASSUME NEW o \in MsgsOf("announce"), o # m
                  PROVE  /\ Deciding(o.to)'
                         /\ AllEngaged(o.round)'
                         /\ pc'[o.to] = "announce"
      OBVIOUS
    <3>1. o.to \in Writers
      BY DEF TypeOK, MsgsOf, IsMessage, Others
    <3>2. o.to # n
      BY <1>3 DEF ResetCore, OneEachInv
    <3>3. pc[o.to] = "announce" /\ AllEngaged(o.round) /\ Deciding(o.to)
      BY DEF ResetCore, DecisionInv
    <3>4. o.round = r
      BY <1>5, <3>1, <3>3 DEF AllEngaged
    <3>. QED
      BY <1>13, <1>14, <1>15, <3>1, <3>2, <3>3, <3>4
  <2>3. \A o \in new : AllEngaged(o.round)'
    BY <1>7, <1>15
  <2>. QED
    BY <1>12, <2>1, <2>2, <2>3 DEF DecisionInv
<1>24. OneEachInv'
  BY <1>8, <1>12 DEF ResetCore, OneEachInv
<1>25. OneWinnerInv'
  <2>1. \A o \in MsgsOf("announce") : o.winner = n
    BY <1>3 DEF ResetCore, OneWinnerInv
  <2>2. \A x \in Writers : pc'[x] = "block" => winner'[x] = n
    <3>. SUFFICES ASSUME NEW x \in Writers, pc'[x] = "block" PROVE winner'[x] = n
      OBVIOUS
    <3>1. x # n
      BY <1>14
    <3>. QED
      BY <1>3, <1>14, <3>1 DEF ResetCore, OneWinnerInv
  <2>3. ~Late(n)'
    BY <1>13
  <2>. QED
    BY <1>7, <1>12, <2>1, <2>2, <2>3 DEF OneWinnerInv
<1>. QED
  BY <1>16, <1>17, <1>18, <1>19, <1>20, <1>21, <1>22, <1>23, <1>24, <1>25
  DEF ResetCore

LEMMA NotTwo == ASSUME NEW k \in Nat, k # 1 PROVE k + 1 # 2
  OBVIOUS

\* Two chains that end with the same block and have the same length are equal
\* if they consist of nothing else.
LEMMA OneBlock ==
  ASSUME NEW c, NEW d, IsChain(c), IsChain(d), Len(c) = 1, Len(d) = 1, c[1] = d[1]
  PROVE  c = d
<1>1. c \in Seq(Range(c)) /\ d \in Seq(Range(d))
  BY DEF IsChain
<1>2. DOMAIN c = 1 .. 1 /\ DOMAIN d = 1 .. 1
  BY <1>1
<1>3. c = [i \in 1 .. 1 |-> c[i]] /\ d = [i \in 1 .. 1 |-> d[i]]
  BY <1>1, <1>2
<1>. QED
  BY <1>3

LEMMA ReceiveBlockReset ==
  ASSUME TypeOK, ResetCore, NEW n \in Writers, ReceiveBlock(n)
  PROVE  ResetCore'
<1>0. PICK r : r = round[n]
  OBVIOUS
<1>1. PICK m \in Receivable(n, "block") :
        /\ m.from = winner[n]
        /\ msgs' = msgs \ {m}
        /\ StoreBlock(n, m.block)
  BY DEF ReceiveBlock
<1>2. pc[n] = "block"
  BY DEF ReceiveBlock
<1>3. /\ m \in MsgsOf("block") /\ m.to = n
      /\ Late(n) /\ SomeoneLate /\ AllEngaged(r)
      /\ \A x \in Writers : Late(x) => round[x] = r
  <2>1. m \in MsgsOf("block") /\ m.to = n
    BY TakenNow
  <2>. QED
    BY <1>0, <2>1, BlockEnds, LateEngaged
<1>4. PICK b : b = m.block
  OBVIOUS
<1>5. IsBlock(b) /\ StoreBlock(n, b)
  <2>1. IsBlock(m.block)
    <3>1. IsMessage(m) /\ m.type = "block"
      BY <1>3, BlockEnds
    <3>. QED
      BY <3>1 DEF IsMessage
  <2>. QED
    BY <1>1, <1>4, <2>1
<1>6. /\ MsgsOf("request")' = MsgsOf("request")
      /\ MsgsOf("reply")' = MsgsOf("reply")
      /\ MsgsOf("announce")' = MsgsOf("announce")
      /\ MsgsOf("block")' = MsgsOf("block") \ {m}
  BY <1>1, <1>3 DEF MsgsOf
<1>7. /\ ~Late(n)'
      /\ \A x : x # n => (Late(x)' <=> Late(x))
      /\ \A x : Late(x)' => SomeoneLate' /\ Deciding(x)'
  <2>1. \A o \in MsgsOf("block") \ {m} : o.to # n
    BY <1>3 DEF ResetCore, OneEachInv
  <2>2. ~Late(n)'
    BY <1>6, <2>1 DEF Late
  <2>3. \A x : x # n => (Late(x)' <=> Late(x))
    BY <1>3, <1>6 DEF Late
  <2>4. \A x : Late(x)' => SomeoneLate' /\ Deciding(x)'
    BY <1>6 DEF Late, SomeoneLate, Deciding
  <2>. QED
    BY <2>2, <2>3, <2>4
<1>8. /\ Len(chain[n]) \in Nat
      /\ chain'[n] = Append(chain[n], b)
      /\ Len(chain'[n]) = Len(chain[n]) + 1
      /\ chain'[n] # <<>>
      /\ chain'[n][Len(chain'[n])] = b
      /\ chain[n] = <<>> <=> Len(chain[n]) = 0
      /\ round'[n] = Len(chain[n]) + 2
      /\ pc'[n] = "loop"
      /\ numbers' = numbers
      /\ \A x \in Writers : x # n =>
           /\ chain'[x] = chain[x] /\ round'[x] = round[x]
           /\ pc'[x] = pc[x] /\ winner'[x] = winner[x]
  BY <1>5, StoredFacts
<1>9. \A o \in msgs : o.from \in Writers /\ o.to \in Writers
  BY DEF TypeOK, IsMessage, Others
<1>10. \A k : SomeoneLate' /\ AllEngaged(k) => AllEngaged(k)'
  <2>. SUFFICES ASSUME NEW k, SomeoneLate', AllEngaged(k),
                       NEW x \in Writers, Deciding(x)'
                PROVE  round'[x] = k /\ pc'[x] \in Engaged
    BY DEF AllEngaged
  <2>1. Late(x)'
    BY DEF Deciding
  <2>2. x # n /\ Late(x)
    BY <1>7, <2>1
  <2>. QED
    BY <1>8, <2>2 DEF AllEngaged, Deciding
<1>11. RoleInv'
  <2>. SUFFICES ASSUME NEW x \in Writers
                PROVE  /\ pc'[x] \in {"request", "announce", "dead"} =>
                            Coordinator(round'[x]) # x
                       /\ pc'[x] = "replies" => Coordinator(round'[x]) = x
    BY DEF RoleInv, Coordinator
  <2>1. CASE x = n
    BY <1>8, <2>1
  <2>2. CASE x # n
    BY <1>8, <2>2 DEF ResetCore, RoleInv
  <2>. QED
    BY <2>1, <2>2
<1>12. CountInv'
  <2>1. \A x \in Writers :
          ~Late(x)' =>
            round'[x] # 0 /\ (chain'[x] # <<>> => round'[x] = Len(chain'[x]) + 1)
    <3>. SUFFICES ASSUME NEW x \in Writers, ~Late(x)'
                  PROVE  /\ round'[x] # 0
                         /\ chain'[x] # <<>> => round'[x] = Len(chain'[x]) + 1
      OBVIOUS
    <3>1. CASE x = n
      BY <1>8, <3>1
    <3>2. CASE x # n
      <4>1. ~Deciding(x)
        BY <1>3, <1>7, <3>2 DEF Deciding
      <4>. QED
        BY <1>8, <3>2, <4>1 DEF ResetCore, CountInv
    <3>. QED
      BY <3>1, <3>2
  <2>2. \A x, y \in Writers :
          (Late(x)' <=> Late(y)') /\ round'[x] = 0 => round'[y] = 0
    <3>. SUFFICES ASSUME NEW x \in Writers, NEW y \in Writers,
                         Late(x)' <=> Late(y)', round'[x] = 0
                  PROVE  round'[y] = 0
      OBVIOUS
    <3>1. Late(x)' /\ Late(y)'
      BY <2>1
    <3>2. x # n /\ y # n /\ Late(x) /\ Late(y)
      BY <1>7, <3>1
    <3>. QED
      BY <1>3, <1>8, <3>2
  <2>3. \A x \in Writers : ~Deciding(x)' => ~Late(x)'
    BY DEF Deciding
  <2>. QED
    BY <2>1, <2>2, <2>3 DEF CountInv
<1>13. \* What an engine that is ahead has stored, seen from n.
       \A y \in Writers : ~Late(y) /\ chain[y] # <<>> =>
         /\ y # n
         /\ round[y] = Len(chain[y]) + 1
         /\ chain[y][Len(chain[y])] = b
         /\ \/ Len(chain[y]) = 1
            \/ chain[n] = <<>>
            \/ chain[y] = chain'[n]
  <2>. SUFFICES ASSUME NEW y \in Writers, ~Late(y), chain[y] # <<>>
                PROVE  /\ y # n
                       /\ round[y] = Len(chain[y]) + 1
                       /\ chain[y][Len(chain[y])] = b
                       /\ \/ Len(chain[y]) = 1
                          \/ chain[n] = <<>>
                          \/ chain[y] = chain'[n]
    OBVIOUS
  <2>1. y # n /\ ~Deciding(y)
    BY <1>3 DEF Deciding
  <2>2. round[y] = Len(chain[y]) + 1
    BY <2>1 DEF ResetCore, CountInv
  <2>3. /\ chain[y][Len(chain[y])] = b
        /\ \/ Len(chain[y]) = 1
           \/ chain[n] = <<>>
           \/ chain[y] = Append(chain[n], b)
    BY <1>3, <1>4 DEF ResetCore, StoredInv
  <2>. QED
    BY <1>8, <2>1, <2>2, <2>3
<1>14. \* So n, too, is now where they are.
       \A y \in Writers : ~Late(y) =>
         IF round'[n] = round[y]
         THEN SameChain(chain'[n], chain[y])
         ELSE Len(chain'[n]) <= 1 \/ Len(chain[y]) <= 1
  <2>. SUFFICES ASSUME NEW y \in Writers, ~Late(y)
                PROVE  IF round'[n] = round[y]
                       THEN SameChain(chain'[n], chain[y])
                       ELSE Len(chain'[n]) <= 1 \/ Len(chain[y]) <= 1
    OBVIOUS
  <2>1. CASE chain[y] = <<>>
    BY <2>1 DEF SameChain
  <2>2. CASE chain[y] # <<>>
    <3>1. /\ round[y] = Len(chain[y]) + 1
          /\ chain[y][Len(chain[y])] = b
          /\ Len(chain[y]) = 1 \/ chain[n] = <<>> \/ chain[y] = chain'[n]
      BY <1>13, <2>2
    <3>2. IsChain(chain[y]) /\ IsChain(chain'[n]) /\ Len(chain[y]) \in Nat
      BY <1>5, <1>8, ChainAppend, ChainLen DEF TypeOK
    <3>3. CASE chain[y] = chain'[n]
      BY <1>8, <3>1, <3>3 DEF SameChain
    <3>4. CASE Len(chain[y]) = 1 /\ round'[n] = round[y]
      <4>1. Len(chain'[n]) = 1 /\ chain'[n][1] = b /\ chain[y][1] = b
        BY <1>8, <3>1, <3>4
      <4>2. chain'[n] = chain[y]
        BY <3>2, <3>4, <4>1, OneBlock
      <4>. QED
        BY <3>4, <4>2 DEF SameChain
    <3>5. CASE Len(chain[y]) = 1 /\ round'[n] # round[y]
      BY <3>5
    <3>6. CASE chain[n] = <<>> /\ Len(chain[y]) # 1
      <4>1. Len(chain[n]) = 0
        BY <1>8, <3>6
      <4>2. Len(chain'[n]) = 1 /\ round'[n] = 2
        BY <1>8, <4>1
      <4>3. round[y] # 2
        <5>1. PICK k \in Nat : k = Len(chain[y])
          BY <3>2
        <5>2. round[y] = k + 1 /\ k # 1
          BY <3>1, <3>6, <5>1
        <5>3. k + 1 # 2
          BY <5>2, NotTwo
        <5>. QED
          BY <5>2, <5>3
      <4>. QED
        BY <4>2, <4>3
    <3>. QED
      BY <3>1, <3>3, <3>4, <3>5, <3>6
  <2>. QED
    BY <2>1, <2>2
<1>15. KinInv'
  <2>. SUFFICES ASSUME NEW x \in Writers, NEW y \in Writers, Late(x)' <=> Late(y)'
                PROVE  IF round'[x] = round'[y]
                       THEN SameChain(chain'[x], chain'[y])
                       ELSE Len(chain'[x]) <= 1 \/ Len(chain'[y]) <= 1
    BY DEF KinInv, SameChain
  <2>1. CASE x = n /\ y = n
    BY <2>1 DEF SameChain
  <2>2. CASE x = n /\ y # n
    <3>1. ~Late(y)
      BY <1>7, <2>2
    <3>. QED
      BY <1>8, <1>14, <2>2, <3>1
  <2>3. CASE x # n /\ y = n
    <3>1. ~Late(x)
      BY <1>7, <2>3
    <3>2. IF round'[n] = round[x]
          THEN SameChain(chain'[n], chain[x])
          ELSE Len(chain'[n]) <= 1 \/ Len(chain[x]) <= 1
      BY <1>14, <3>1
    <3>. QED
      BY <1>8, <2>3, <3>2 DEF SameChain
  <2>4. CASE x # n /\ y # n
    <3>1. Late(x) <=> Late(y)
      BY <1>7, <2>4
    <3>2. IF round[x] = round[y]
          THEN SameChain(chain[x], chain[y])
          ELSE Len(chain[x]) <= 1 \/ Len(chain[y]) <= 1
      BY <3>1 DEF ResetCore, KinInv
    <3>. QED
      BY <1>8, <2>4, <3>2
  <2>. QED
    BY <2>1, <2>2, <2>3, <2>4
<1>16. StoredInv'
  <2>. SUFFICES ASSUME NEW o \in MsgsOf("block"), o # m, NEW x \in Writers,
                       ~Late(x)', chain'[x] # <<>>
                PROVE  /\ chain'[x][Len(chain'[x])] = o.block
                       /\ \/ Len(chain'[x]) = 1
                          \/ chain'[o.to] = <<>>
                          \/ chain'[x] = Append(chain'[o.to], o.block)
    BY <1>6 DEF StoredInv
  <2>1. o.to \in Writers /\ o.to # n /\ Late(o.to) /\ o.block = b
    BY <1>3, <1>4, BlockEnds DEF ResetCore, OneEachInv, OneWinnerInv
  <2>2. chain'[o.to] = chain[o.to]
    BY <1>8, <2>1
  <2>3. CASE x = n
    <3>1. SameChain(chain[n], chain[o.to])
      <4>1. (Late(n) <=> Late(o.to)) /\ round[n] = round[o.to]
        BY <1>0, <1>3, <2>1
      <4>. QED
        BY <2>1, <4>1 DEF ResetCore, KinInv
    <3>2. chain[n] = <<>> => Len(chain'[n]) = 1
      BY <1>8
    <3>. QED
      BY <1>8, <2>1, <2>2, <2>3, <3>1, <3>2 DEF SameChain
  <2>4. CASE x # n
    <3>1. ~Late(x) /\ chain'[x] = chain[x]
      BY <1>7, <1>8, <2>4
    <3>2. /\ chain[x][Len(chain[x])] = o.block
          /\ \/ Len(chain[x]) = 1
             \/ chain[o.to] = <<>>
             \/ chain[x] = Append(chain[o.to], o.block)
      BY <3>1 DEF ResetCore, StoredInv
    <3>. QED
      BY <2>2, <3>1, <3>2
  <2>. QED
    BY <2>3, <2>4
<1>17. AskInv'
  <2>0. numbers' = numbers
    BY <1>8
  <2>. SUFFICES ASSUME NEW o \in MsgsOf("request")
                PROVE  /\ o.from = Coordinator(o.round)
                       /\ pc'[o.from] = "replies"
                       /\ round'[o.from] = o.round
                       /\ ~Late(o.to)' /\ round'[o.to] = o.round =>
                            pc'[o.to] \in {"loop", "request"}
                       /\ o.to \notin Ids(numbers[o.from])
                       /\ \A q \in MsgsOf("reply") :
                            ~(q.from = o.to /\ q.to = o.from)
    BY <1>6, <2>0 DEF AskInv, Ids
  <2>1. o.from \in Writers /\ o.to \in Writers
    BY <1>9 DEF MsgsOf
  <2>2. o.from # n
    BY <1>2 DEF ResetCore, AskInv
  <2>3. CASE o.to = n
    BY <1>8, <2>1, <2>2, <2>3 DEF ResetCore, AskInv
  <2>4. CASE o.to # n
    BY <1>7, <1>8, <2>1, <2>2, <2>4 DEF ResetCore, AskInv
  <2>. QED
    BY <2>3, <2>4
<1>18. AnswerInv'
  <2>. SUFFICES ASSUME NEW o \in MsgsOf("reply")
                PROVE  /\ pc'[o.to] = "replies"
                       /\ round'[o.to] = o.round
                       /\ pc'[o.from] = "announce" /\ ~Late(o.from)'
                       /\ round'[o.from] = o.round
                       /\ o.from \notin Ids(numbers[o.to])
                       /\ \A q \in MsgsOf("reply") :
                            q.from = o.from /\ q.to = o.to => q = o
    BY <1>6, <1>8 DEF AnswerInv, Ids
  <2>1. o.from \in Writers /\ o.to \in Writers
    BY <1>9 DEF MsgsOf
  <2>2. o.from # n /\ o.to # n
    BY <1>2 DEF ResetCore, AnswerInv
  <2>. QED
    BY <1>7, <1>8, <2>1, <2>2 DEF ResetCore, AnswerInv
<1>19. CollectedInv'
  <2>. SUFFICES ASSUME NEW x \in Writers, pc'[x] = "replies"
                PROVE  /\ \A i, j \in DOMAIN numbers[x] :
                            numbers[x][i][1] = numbers[x][j][1] => i = j
                       /\ \A o \in Ids(numbers[x]) :
                            /\ o # x /\ round'[o] = round'[x]
                            /\ pc'[o] = "announce" /\ ~Late(o)'
    BY <1>8 DEF CollectedInv, Ids
  <2>1. Ids(numbers[x]) \subseteq Writers
    BY IdsType
  <2>2. x # n /\ pc[x] = "replies"
    BY <1>8
  <2>3. n \notin Ids(numbers[x])
    BY <1>2, <2>2 DEF ResetCore, CollectedInv
  <2>4. /\ \A i, j \in DOMAIN numbers[x] :
             numbers[x][i][1] = numbers[x][j][1] => i = j
        /\ \A o \in Ids(numbers[x]) :
             o # x /\ round[o] = round[x] /\ pc[o] = "announce" /\ ~Late(o)
    BY <2>2 DEF ResetCore, CollectedInv
  <2>. QED
    BY <1>7, <1>8, <2>1, <2>2, <2>3, <2>4
<1>20. AskedInv'
  <2>. SUFFICES ASSUME NEW x \in Writers, pc'[x] \in {"announce", "dead"},
                       ~Late(x)'
                PROVE  /\ round'[Coordinator(round'[x])] = round'[x]
                       /\ pc'[Coordinator(round'[x])] \in {"replies", "block"}
                       /\ ~Late(Coordinator(round[x]))'
    BY DEF AskedInv, Coordinator
  <2>1. x # n /\ ~Late(x)
    BY <1>7, <1>8
  <2>2. round'[x] = round[x] /\ pc'[x] = pc[x] /\ round[x] \in Nat
    BY <1>8, <2>1 DEF TypeOK
  <2>3. PICK c \in Writers : c = Coordinator(round[x])
    BY <2>2, CoordinatorType
  <2>4. round[c] = round[x] /\ pc[c] \in {"replies", "block"} /\ ~Late(c)
    BY <2>1, <2>2, <2>3 DEF ResetCore, AskedInv
  <2>5. c # n
    BY <1>3, <2>4
  <2>6. ~Late(c)'
    BY <1>7, <2>4, <2>5
  <2>7. Coordinator(round[x])' = c
    BY <2>2, <2>3 DEF Coordinator
  <2>8. Coordinator(round'[x]) = c
    BY <2>2, <2>3
  <2>9. ~Late(Coordinator(round[x]))'
    BY <2>6, <2>7 DEF Late
  <2>. QED
    BY <1>8, <2>2, <2>4, <2>5, <2>8, <2>9
<1>21. DecisionInv'
  <2>1. \A x \in Writers : pc'[x] = "block" => Deciding(x)' /\ AllEngaged(round[x])'
    <3>. SUFFICES ASSUME NEW x \in Writers, pc'[x] = "block"
                  PROVE  Deciding(x)' /\ AllEngaged(round[x])'
      OBVIOUS
    <3>1. x # n /\ pc[x] = "block" /\ round'[x] = round[x]
      BY <1>8
    <3>2. Deciding(x) /\ AllEngaged(round[x])
      BY <3>1 DEF ResetCore, DecisionInv
    <3>3. Late(x)'
      BY <1>3, <1>7, <3>1, <3>2 DEF Deciding
    <3>4. PICK k : k = round[x]
      OBVIOUS
    <3>5. AllEngaged(k)'
      BY <1>7, <1>10, <3>2, <3>3, <3>4
    <3>. QED
      BY <1>7, <3>1, <3>3, <3>4, <3>5 DEF AllEngaged
  <2>2. \A o \in MsgsOf("announce") :
          Deciding(o.to)' /\ AllEngaged(o.round)' /\ pc'[o.to] = "announce"
    <3>. SUFFICES ASSUME NEW o \in MsgsOf("announce")
                  PROVE  /\ Deciding(o.to)'
                         /\ AllEngaged(o.round)'
                         /\ pc'[o.to] = "announce"
      OBVIOUS
    <3>1. pc[o.to] = "announce" /\ AllEngaged(o.round) /\ Deciding(o.to)
      BY DEF ResetCore, DecisionInv
    <3>2. o.to # n /\ o.to \in Writers
      BY <1>2, <1>9, <3>1 DEF MsgsOf
    <3>3. Late(o.to)'
      BY <1>3, <1>7, <3>1, <3>2 DEF Deciding
    <3>. QED
      BY <1>7, <1>8, <1>10, <3>1, <3>2, <3>3
  <2>3. \A o \in MsgsOf("block") \ {m} : AllEngaged(o.round)'
    <3>1. SomeoneLate' <=> MsgsOf("block") \ {m} # {}
      BY <1>6 DEF SomeoneLate
    <3>. QED
      BY <1>10, <3>1 DEF ResetCore, DecisionInv
  <2>. QED
    BY <1>6, <2>1, <2>2, <2>3 DEF DecisionInv
<1>22. OneEachInv'
  BY <1>6 DEF ResetCore, OneEachInv
<1>23. OneWinnerInv'
  <2>1. \A x : Late(x)' => Late(x)
    BY <1>3, <1>7
  <2>2. \A o \in MsgsOf("announce") : ~Late(o.winner)'
    BY <1>3, <2>1 DEF ResetCore, OneWinnerInv
  <2>3. \A x \in Writers : pc'[x] = "block" =>
          winner'[x] = winner[x] /\ pc[x] = "block"
    BY <1>8
  <2>4. \A x \in Writers : pc'[x] = "block" => ~Late(winner[x])'
    <3>. SUFFICES ASSUME NEW x \in Writers, pc'[x] = "block"
                  PROVE  ~Late(winner[x])'
      OBVIOUS
    <3>1. PICK w : w = winner[x]
      OBVIOUS
    <3>2. winner'[x] = w /\ ~Late(w)
      BY <1>3, <2>3, <3>1 DEF ResetCore, OneWinnerInv
    <3>3. ~Late(w)'
      BY <2>1, <3>2
    <3>. QED
      BY <3>2, <3>3 DEF Late
  <2>5. \A o, q \in MsgsOf("block") : o.block = q.block
    BY DEF ResetCore, OneWinnerInv
  <2>. QED
    BY <1>6, <2>2, <2>3, <2>4, <2>5 DEF ResetCore, OneWinnerInv
<1>. QED
  BY <1>11, <1>12, <1>15, <1>16, <1>17, <1>18, <1>19, <1>20, <1>21, <1>22,
     <1>23 DEF ResetCore

----------------------------------------------------------------------------
(* The theorems.                                                            *)

LEMMA SameReset ==
  ASSUME ResetCore, UNCHANGED <<engineVars, chain, msgs>>
  PROVE  ResetCore'
BY DEF ResetCore, engineVars, RoleInv, CountInv, AskInv, AnswerInv, CollectedInv,
       AskedInv, DecisionInv, OneEachInv, OneWinnerInv, KinInv, StoredInv,
       SameChain, AllEngaged, Deciding, SomeoneLate, Late, MsgsOf

LEMMA NextResetCore == TypeOK /\ ResetCore /\ [Next]_vars => ResetCore'
<1>. SUFFICES ASSUME TypeOK, ResetCore, [Next]_vars PROVE ResetCore'
  OBVIOUS
<1>1. ASSUME NEW n \in Writers, EngineStep(n) PROVE ResetCore'
  BY <1>1, StartCoordinatorReset, StartWriterReset, AnswerRequestReset,
     CollectReplyReset, AnnounceWinnerReset, WinRoundReset, AwaitBlockReset,
     ReceiveBlockReset
  DEF EngineStep
<1>2. CASE \E n \in Writers, p \in Payloads : ClientSubmit(n, p)
  BY <1>2, SameReset DEF ClientSubmit
<1>3. CASE DeleteChain
  BY <1>3, SameReset DEF DeleteChain
<1>4. CASE UNCHANGED vars
  BY <1>4, SameReset DEF vars
<1>. QED
  BY <1>1, <1>2, <1>3, <1>4 DEF Next, Terminated

\* Whatever resets are ordered and whenever the engines notice them, the rounds
\* keep the invariant: a round of run is decided by engines that are all in it,
\* and left before the next one is announced.
THEOREM ResetInvariant ==
  ASSUME TypedStart, EqualStart PROVE Spec => [](TypeOK /\ ResetCore)
<1>1. Init => TypeOK /\ ResetCore
  BY InitTypeOK, InitResetCore
<1>2. TypeOK /\ ResetCore /\ [Next]_vars => (TypeOK /\ ResetCore)'
  BY NextTypeOK, NextResetCore
<1>. QED
  BY <1>1, <1>2, PTL DEF Spec

\* Two chains that start from the same first block never diverge: truncating
\* chains in check_for_chain_reset may put the engines on different chains, but
\* never on two versions of one.
THEOREM ChainsOfOneStartAgreeHolds ==
  ASSUME TypedStart, EqualStart PROVE Spec => []ChainsOfOneStartAgree
<1>1. TypeOK /\ ResetCore => ChainsOfOneStartAgree
  <2>. SUFFICES ASSUME TypeOK, ResetCore, NEW m \in Writers, NEW n \in Writers,
                       chain[m] # <<>>, chain[n] # <<>>,
                       chain[m][1] = chain[n][1],
                       NEW i \in DOMAIN chain[m] \cap DOMAIN chain[n]
                PROVE  chain[m][i] = chain[n][i]
    BY DEF ChainsOfOneStartAgree
  <2>1. /\ DOMAIN chain[m] = 1 .. Len(chain[m]) /\ Len(chain[m]) \in Nat
        /\ DOMAIN chain[n] = 1 .. Len(chain[n]) /\ Len(chain[n]) \in Nat
    BY DEF TypeOK, IsChain
  <2>2. \* One of them late, the other ahead of it.
        ASSUME NEW x \in Writers, NEW y \in Writers,
               (x = m /\ y = n) \/ (x = n /\ y = m),
               Late(x), ~Late(y)
        PROVE  chain[m][i] = chain[n][i]
    <3>1. PICK o \in MsgsOf("block") : o.to = x
      BY <2>2 DEF Late
    <3>2. /\ IsChain(chain[x]) /\ IsBlock(o.block)
          /\ chain[x] # <<>> /\ chain[y] # <<>>
      BY <2>2, <3>1, BlockEnds DEF TypeOK, IsMessage
    <3>3. Len(chain[y]) = 1 \/ chain[y] = Append(chain[x], o.block)
      BY <2>2, <3>1, <3>2 DEF ResetCore, StoredInv
    <3>4. CASE Len(chain[y]) = 1
      <4>0. i \in DOMAIN chain[y] /\ DOMAIN chain[y] = 1 .. Len(chain[y])
        BY <2>1, <2>2
      <4>1. i = 1
        BY <3>4, <4>0
      <4>. QED
        BY <4>1
    <3>5. CASE chain[y] = Append(chain[x], o.block)
      <4>1. \A j \in 1 .. Len(chain[x]) : chain[y][j] = chain[x][j]
        BY <3>2, <3>5, ChainAppend
      <4>2. i \in 1 .. Len(chain[x])
        BY <2>1, <2>2
      <4>3. chain[y][i] = chain[x][i]
        BY <4>1, <4>2
      <4>. QED
        BY <2>2, <4>3
    <3>. QED
      BY <3>3, <3>4, <3>5
  <2>3. CASE Late(m) <=> Late(n)
    <3>1. SameChain(chain[m], chain[n]) \/ Len(chain[m]) <= 1 \/ Len(chain[n]) <= 1
      BY <2>3 DEF ResetCore, KinInv
    <3>2. CASE chain[m] = chain[n]
      BY <3>2
    <3>3. CASE Len(chain[m]) <= 1 \/ Len(chain[n]) <= 1
      <4>1. i = 1
        BY <2>1, <3>3
      <4>. QED
        BY <4>1
    <3>. QED
      BY <3>1, <3>2, <3>3 DEF SameChain
  <2>4. CASE Late(m) /\ ~Late(n)
    BY <2>2, <2>4
  <2>5. CASE Late(n) /\ ~Late(m)
    BY <2>2, <2>5
  <2>. QED
    BY <2>3, <2>4, <2>5
<1>. QED
  BY <1>1, ResetInvariant, PTL

\* A message queue holds at most one message of a type from each sender, so
\* that nothing piles up in queues from which _recv_msg never drops anything.
THEOREM QueuesBoundedHolds ==
  ASSUME TypedStart, EqualStart PROVE Spec => []QueuesBounded
<1>1. TypeOK /\ ResetCore => QueuesBounded
  <2>. SUFFICES ASSUME TypeOK, ResetCore, NEW m \in msgs, NEW o \in msgs,
                       m.type = o.type, m.from = o.from, m.to = o.to
                PROVE  m = o
    BY DEF QueuesBounded
  <2>1. IsMessage(m) /\ IsMessage(o)
    BY DEF TypeOK
  <2>2. CASE m.type = "request"
    <3>1. m = Request(m.round, m.from, m.to) /\ o = Request(o.round, o.from, o.to)
      BY <2>1, <2>2 DEF IsMessage
    <3>2. m.round = round[m.from] /\ o.round = round[o.from]
      BY <2>2 DEF ResetCore, AskInv, MsgsOf
    <3>. QED
      BY <3>1, <3>2
  <2>3. CASE m.type = "reply"
    BY <2>3 DEF ResetCore, AnswerInv, MsgsOf
  <2>4. CASE m.type = "announce"
    BY <2>4 DEF ResetCore, OneEachInv, MsgsOf
  <2>5. CASE m.type = "block"
    BY <2>5 DEF ResetCore, OneEachInv, MsgsOf
  <2>. QED
    BY <2>1, <2>2, <2>3, <2>4, <2>5 DEF IsMessage
<1>. QED
  BY <1>1, ResetInvariant, PTL

\* Nothing is sent while its double is still under way, not even when an engine
\* goes through a round number a second time; so the set msgs loses nothing of
\* the queues of ProtoCom.
THEOREM NeverSentTwiceHolds ==
  ASSUME TypedStart, EqualStart PROVE Spec => NeverSentTwice
<1>1. ASSUME TypeOK, ResetCore, NEW n \in Writers
      PROVE  LET InFlight(type) ==
                   \E m \in msgs :
                     m.type = type /\ m.from = n /\ m.round = round[n]
             IN  /\ StartCoordinator(n) => ~InFlight("request")
                 /\ AnswerRequest(n) => ~InFlight("reply")
                 /\ AnnounceWinner(n) => ~InFlight("announce")
                 /\ WinRound(n) => ~InFlight("block")
  <2>1. ASSUME StartCoordinator(n), NEW m \in msgs, m.type = "request", m.from = n
        PROVE  FALSE
    BY <1>1, <2>1 DEF StartCoordinator, ResetCore, AskInv, MsgsOf
  <2>2. ASSUME AnswerRequest(n), NEW m \in msgs, m.type = "reply", m.from = n
        PROVE  FALSE
    BY <1>1, <2>2 DEF AnswerRequest, ResetCore, AnswerInv, MsgsOf
  <2>3. ASSUME AnnounceWinner(n), NEW m \in msgs, m.type = "announce"
        PROVE  FALSE
    <3>1. MsgsOf("announce") = {}
      BY <1>1, <2>3, AllWait DEF AnnounceWinner
    <3>. QED
      BY <2>3, <3>1 DEF MsgsOf
  <2>4. ASSUME WinRound(n), NEW m \in msgs, m.type = "block"
        PROVE  FALSE
    <3>1. PICK o \in Announcements(n) : o.winner = n
      BY <2>4 DEF WinRound, IsWinner
    <3>2. o \in MsgsOf("announce") /\ Deciding(n)
      <4>1. o \in Receivable(n, "announce")
        BY DEF Announcements
      <4>. QED
        BY <1>1, <4>1, TakenNow
    <3>3. SomeoneLate
      BY <2>4 DEF SomeoneLate, MsgsOf
    <3>. QED
      BY <1>1, <3>1, <3>2, <3>3 DEF ResetCore, OneWinnerInv, Deciding
  <2>. QED
    BY <2>1, <2>2, <2>3, <2>4
<1>2. TypeOK /\ ResetCore /\ [Next]_vars =>
        [\A n \in Writers :
           LET InFlight(type) ==
                 \E m \in msgs :
                   m.type = type /\ m.from = n /\ m.round = round[n]
           IN  /\ StartCoordinator(n) => ~InFlight("request")
               /\ AnswerRequest(n) => ~InFlight("reply")
               /\ AnnounceWinner(n) => ~InFlight("announce")
               /\ WinRound(n) => ~InFlight("block")]_vars
  BY <1>1
<1>. QED
  BY <1>2, ResetInvariant, PTL DEF Spec, NeverSentTwice

\* When a reset reached the engines in different rounds, so that they count
\* their rounds differently, nobody stores another block but the one of the
\* round before: a chain reset that is not noticed by all in the same round
\* stops the network, and run never gets it going again.
THEOREM StuckWhenApartHolds ==
  ASSUME TypedStart, EqualStart PROVE Spec => StuckWhenApart
<1>1. ASSUME TypeOK, ResetCore, Apart, NEW k \in Writers PROVE ~WinRound(k)
  <2>. SUFFICES ASSUME WinRound(k) PROVE FALSE
    OBVIOUS
  <2>1. PICK o \in Announcements(k) : o.winner = k
    BY DEF WinRound, IsWinner
  <2>2. o \in MsgsOf("announce") /\ Deciding(k) /\ AllEngaged(round[k])
    <3>1. o \in Receivable(k, "announce")
      BY DEF Announcements
    <3>. QED
      BY <1>1, <3>1, TakenNow
  <2>3. ~SomeoneLate
    BY <1>1, <2>1, <2>2 DEF ResetCore, OneWinnerInv, Deciding
  <2>4. \A x \in Writers : round[x] = round[k]
    BY <1>1, <2>2, <2>3, NothingAsked
  <2>. QED
    BY <1>1, <2>4 DEF Apart
<1>2. ASSUME TypeOK, ResetCore, Apart, [Next]_vars
      PROVE  \A x \in Writers : ~Late(x) =>
               /\ ~Late(x)' /\ round'[x] = round[x]
               /\ chain'[x] = chain[x] \/ chain'[x] = <<>>
  <2>1. ASSUME NEW k \in Writers, ReceiveBlock(k)
        PROVE  \A x \in Writers : ~Late(x) =>
                 ~Late(x)' /\ round'[x] = round[x] /\ chain'[x] = chain[x]
    <3>1. PICK o \in Receivable(k, "block") :
            StoreBlock(k, o.block) /\ msgs' = msgs \ {o}
      BY <2>1 DEF ReceiveBlock
    <3>2. o \in MsgsOf("block") /\ o.to = k
      BY <1>2, TakenNow
    <3>3. Late(k)
      BY <3>2 DEF Late
    <3>4. \A x \in Writers : x # k => round'[x] = round[x] /\ chain'[x] = chain[x]
      BY <1>2, <3>1 DEF StoreBlock, TypeOK
    <3>5. \A x : Late(x)' => Late(x)
      BY <3>1 DEF Late, MsgsOf
    <3>. QED
      BY <3>3, <3>4, <3>5
  <2>2. ASSUME UNCHANGED round, MsgsOf("block")' = MsgsOf("block"),
               \A x \in Writers : chain'[x] = chain[x] \/ chain'[x] = <<>>
        PROVE  \A x \in Writers : ~Late(x) =>
                 /\ ~Late(x)' /\ round'[x] = round[x]
                 /\ chain'[x] = chain[x] \/ chain'[x] = <<>>
    BY <2>2, LateKept
  <2>3. ASSUME NEW k \in Writers, EngineStep(k), ~ReceiveBlock(k)
        PROVE  /\ UNCHANGED round
               /\ MsgsOf("block")' = MsgsOf("block")
               /\ \A x \in Writers : chain'[x] = chain[x] \/ chain'[x] = <<>>
    <3>1. CASE StartCoordinator(k)
      <4>1. msgs' = msgs \cup {Request(round[k], k, w) : w \in Others(k)}
        BY <3>1 DEF StartCoordinator
      <4>. QED
        BY <1>2, <3>1, <4>1, PollResetChains DEF StartCoordinator, MsgsOf, Request
    <3>2. CASE StartWriter(k)
      BY <1>2, <3>2, PollResetChains DEF StartWriter, MsgsOf
    <3>3. CASE AnswerRequest(k)
      <4>1. PICK o \in Receivable(k, "request"), y \in Pads :
              msgs' = (msgs \ {o}) \cup {Reply(round[k], k, o.from, y)}
        BY <3>3 DEF AnswerRequest
      <4>. QED
        BY <3>3, <4>1 DEF AnswerRequest, MsgsOf, Reply, Receivable
    <3>4. CASE CollectReply(k)
      BY <3>4 DEF CollectReply, MsgsOf, Receivable
    <3>5. CASE AnnounceWinner(k)
      <4>1. PICK p \in Pads, w \in Writers :
              msgs' = msgs \cup {Announce(round[k], k, q, numbers[k], p, w) :
                                   q \in Others(k)}
        BY <3>5 DEF AnnounceWinner
      <4>. QED
        BY <3>5, <4>1 DEF AnnounceWinner, MsgsOf, Announce
    <3>6. CASE AwaitBlock(k)
      BY <3>6 DEF AwaitBlock, Announcements, MsgsOf, Receivable
    <3>. QED
      BY <1>1, <1>2, <2>3, <3>1, <3>2, <3>3, <3>4, <3>5, <3>6 DEF EngineStep
  <2>4. CASE \E k \in Writers : EngineStep(k)
    BY <2>1, <2>2, <2>3, <2>4
  <2>5. CASE \E k \in Writers, p \in Payloads : ClientSubmit(k, p)
    BY <2>2, <2>5 DEF ClientSubmit, engineVars, MsgsOf
  <2>6. CASE DeleteChain
    BY <2>2, <2>6 DEF DeleteChain, engineVars, MsgsOf
  <2>7. CASE UNCHANGED vars
    BY <2>2, <2>7 DEF vars, engineVars, MsgsOf
  <2>. QED
    BY <1>2, <2>4, <2>5, <2>6, <2>7 DEF Next, Terminated
<1>3. ASSUME TypeOK, ResetCore, Apart, [Next]_vars PROVE Apart'
  <2>1. PICK x \in Writers, y \in Writers :
          ~Late(x) /\ ~Late(y) /\ round[x] # round[y]
    BY <1>3 DEF Apart
  <2>2. ~Late(x)' /\ ~Late(y)' /\ round'[x] # round'[y]
    BY <1>2, <1>3, <2>1
  <2>. QED
    BY <2>2 DEF Apart
<1>4. TypeOK /\ ResetCore /\ [Next]_vars =>
        [Apart => /\ Apart'
                  /\ \A n \in Writers : ~Late(n) =>
                       chain'[n] = chain[n] \/ chain'[n] = <<>>]_vars
  BY <1>2, <1>3
<1>. QED
  BY <1>4, ResetInvariant, PTL DEF Spec, StuckWhenApart
=============================================================================
