-------------------------- MODULE ClientPathProofs --------------------------
(***************************************************************************)
(* Proofs about ClientPath, for any number of workers, threads, requests,  *)
(* restarts and failed commits.                                            *)
(***************************************************************************)
EXTENDS ClientPath, TLAPS, SequenceTheorems

----------------------------------------------------------------------------
(* Queues without repetition.                                               *)

LEMMA TailFacts ==
  ASSUME NEW S, NEW s \in Seq(S), s # <<>>, IsInjective(s)
  PROVE  /\ s[1] \in S /\ Head(s) = s[1]
         /\ Tail(s) \in Seq(S) /\ IsInjective(Tail(s))
         /\ s[1] \in Range(s)
         /\ Range(Tail(s)) = Range(s) \ {s[1]}
<1>1. /\ Len(s) \in Nat /\ Len(s) >= 1 /\ DOMAIN s = 1 .. Len(s)
      /\ Tail(s) \in Seq(S) /\ Len(Tail(s)) = Len(s) - 1
      /\ DOMAIN Tail(s) = 1 .. Len(s) - 1
      /\ \A i \in 1 .. Len(s) - 1 : Tail(s)[i] = s[i + 1]
      /\ s[1] \in S /\ Head(s) = s[1]
  BY EmptySeq, LenProperties, HeadTailProperties, ElementOfSeq
<1>2. IsInjective(Tail(s))
  BY <1>1 DEF IsInjective
<1>3. s[1] \in Range(s)
  BY <1>1 DEF Range
<1>4. \A x \in Range(Tail(s)) : x \in Range(s) \ {s[1]}
  <2>. SUFFICES ASSUME NEW i \in 1 .. Len(s) - 1
                PROVE  Tail(s)[i] \in Range(s) \ {s[1]}
    BY <1>1 DEF Range
  <2>1. i + 1 \in 1 .. Len(s) /\ 1 \in 1 .. Len(s) /\ i + 1 # 1
    BY <1>1
  <2>2. s[i + 1] \in Range(s) /\ s[i + 1] # s[1]
    BY <1>1, <2>1 DEF Range, IsInjective
  <2>. QED
    BY <1>1, <2>2
<1>5. \A x \in Range(s) \ {s[1]} : x \in Range(Tail(s))
  <2>. SUFFICES ASSUME NEW i \in 1 .. Len(s), s[i] # s[1]
                PROVE  s[i] \in Range(Tail(s))
    BY <1>1 DEF Range
  <2>1. i - 1 \in 1 .. Len(s) - 1 /\ (i - 1) + 1 = i
    BY <1>1
  <2>2. Tail(s)[i - 1] = s[i]
    BY <1>1, <2>1
  <2>. QED
    BY <1>1, <2>1, <2>2 DEF Range
<1>. QED
  BY <1>1, <1>2, <1>3, <1>4, <1>5

LEMMA AppendOnce ==
  ASSUME NEW S, NEW s \in Seq(S), NEW e \in S, IsInjective(s), e \notin Range(s)
  PROVE  /\ Append(s, e) \in Seq(S) /\ IsInjective(Append(s, e))
         /\ Range(Append(s, e)) = Range(s) \cup {e}
<1>. DEFINE t == Append(s, e)
<1>1. /\ t \in Seq(S) /\ Len(t) = Len(s) + 1 /\ Len(s) \in Nat
      /\ DOMAIN t = 1 .. Len(s) + 1 /\ DOMAIN s = 1 .. Len(s)
      /\ \A i \in 1 .. Len(s) : t[i] = s[i]
      /\ t[Len(s) + 1] = e
  OBVIOUS
<1>2. \A i \in DOMAIN s : s[i] # e
  BY DEF Range
<1>3. IsInjective(t)
  BY <1>1, <1>2 DEF IsInjective
<1>4. Range(t) = Range(s) \cup {e}
  BY <1>1 DEF Range
<1>. QED
  BY <1>1, <1>3, <1>4

LEMMA NothingIn == IsInjective(<<>>) /\ Range(<<>>) = {}
BY DEF IsInjective, Range

----------------------------------------------------------------------------
(* The invariant.                                                           *)

Numbers == 1 .. Len(requests)

RequestsInv ==
  requests \in Seq([kind : Kinds, hash : Nat, worker : Workers])

\* What is on its way over each connection, in order.
UpInv ==
  /\ up \in [Workers -> Seq(Numbers)]
  /\ \A w \in Workers : IsInjective(up[w])
  /\ \A w, x \in Workers : w # x => Range(up[w]) \cap Range(up[x]) = {}

\* What has arrived, or comes from a worker that is gone.
QueueInv ==
  /\ queue \in Seq(Numbers) /\ IsInjective(queue)
  /\ taken \in Seq(Numbers) /\ IsInjective(taken)
  /\ orphans \subseteq Numbers

\* A request is in one of these places only.
OnePlace ==
  /\ Range(queue) \cap Range(taken) = {}
  /\ orphans \cap (Range(queue) \cup Range(taken)) = {}
  /\ \A w \in Workers :
       Range(up[w]) \cap (Range(queue) \cup Range(taken) \cup orphans) = {}

\* The engine came to insert a before b.
Before(s, a, b) ==
  \E k, l \in DOMAIN s : k < l /\ s[k] = a /\ s[l] = b

\* The rows are numbered without a gap, and they and the open transaction are
\* in the order in which the engine came to insert them.
StoreInv ==
  /\ length \in Nat /\ DOMAIN rows = 0 .. length - 1
  /\ \A i \in 0 .. length - 1 : rows[i] \in Range(taken)
  /\ \A i, j \in 0 .. length - 1 : i < j => Before(taken, rows[i], rows[j])
  /\ pending # <<>> =>
       \E no \in Range(taken) :
         /\ pending = <<no>>
         /\ \A i \in 0 .. length - 1 : Before(taken, rows[i], no)
  /\ inserting => pending # <<>>

ClientInv == RequestsInv /\ UpInv /\ QueueInv /\ OnePlace /\ StoreInv

LEMMA InitialInv ==
  ASSUME Init
  PROVE  ClientInv
<1>1. RequestsInv
  BY DEF Init, RequestsInv
<1>2. UpInv /\ QueueInv /\ OnePlace
  BY NothingIn DEF Init, UpInv, QueueInv, OnePlace
<1>3. StoreInv
  BY DEF Init, StoreInv
<1>. QED
  BY <1>1, <1>2, <1>3 DEF ClientInv

\* The chain does not change while nothing is inserted or committed.
LEMMA StoreKept ==
  ASSUME ClientInv, UNCHANGED <<taken, storeVars>>
  PROVE  StoreInv'
BY DEF ClientInv, StoreInv, Before, storeVars

\* A request is sent: its number is new.
LEMMA PostInv ==
  ASSUME ClientInv, NEW w \in Workers, NEW t \in Threads,
         NEW kind \in Kinds, NEW hash \in Nat, Post(w, t, kind, hash)
  PROVE  ClientInv'
<1>. DEFINE no == Len(requests) + 1
<1>1. /\ requests' = Append(requests, [kind |-> kind, hash |-> hash, worker |-> w])
      /\ up' = [up EXCEPT ![w] = Append(@, no)] \/ UNCHANGED up
      /\ UNCHANGED <<orphans, queue, taken, storeVars>>
  BY DEF Post
<1>2. Len(requests) \in Nat
  BY LenProperties DEF ClientInv, RequestsInv
<1>3. RequestsInv' /\ Len(requests') = Len(requests) + 1
  BY <1>1, AppendProperties DEF ClientInv, RequestsInv
<1>4. Numbers' = Numbers \cup {no} /\ no \notin Numbers
  BY <1>2, <1>3 DEF Numbers
<1>5. /\ no \notin Range(queue) /\ no \notin Range(taken) /\ no \notin orphans
      /\ \A x \in Workers : no \notin Range(up[x])
  BY <1>4, RangeOfSeq DEF ClientInv, UpInv, QueueInv
<1>6. QueueInv'
  <2>1. queue \in Seq(Numbers') /\ taken \in Seq(Numbers')
    BY <1>4, SeqMonotonic DEF ClientInv, QueueInv
  <2>. QED
    BY <1>1, <1>4, <2>1 DEF ClientInv, QueueInv
<1>7. \A x \in Workers : up[x] \in Seq(Numbers')
  BY <1>4, SeqMonotonic DEF ClientInv, UpInv
<1>. HIDE DEF no
<1>8. CASE UNCHANGED up
  BY <1>1, <1>3, <1>6, <1>7, <1>8, StoreKept DEF ClientInv, UpInv, OnePlace
<1>9. CASE up' = [up EXCEPT ![w] = Append(@, no)]
  <2>1. /\ up'[w] = Append(up[w], no)
        /\ \A x \in Workers : x # w => up'[x] = up[x]
        /\ DOMAIN up' = Workers
    BY <1>9 DEF ClientInv, UpInv
  <2>2. /\ up'[w] \in Seq(Numbers') /\ IsInjective(up'[w])
        /\ Range(up'[w]) = Range(up[w]) \cup {no}
    BY <1>4, <1>5, <1>7, <2>1, AppendOnce DEF ClientInv, UpInv
  <2>3. up' \in [Workers -> Seq(Numbers')]
    BY <1>7, <1>9, <2>1, <2>2 DEF ClientInv, UpInv
  <2>4. UpInv'
    <3>1. \A x \in Workers : IsInjective(up'[x])
      BY <2>1, <2>2 DEF ClientInv, UpInv
    <3>2. ASSUME NEW x \in Workers, NEW y \in Workers, x # y
          PROVE  Range(up'[x]) \cap Range(up'[y]) = {}
      <4>1. Range(up[x]) \cap Range(up[y]) = {}
        BY <3>2 DEF ClientInv, UpInv
      <4>. QED
        BY <1>5, <2>1, <2>2, <3>2, <4>1
    <3>. QED
      BY <2>3, <3>1, <3>2 DEF UpInv
  <2>5. OnePlace'
    <3>1. ASSUME NEW x \in Workers
          PROVE  Range(up'[x]) \cap (Range(queue) \cup Range(taken) \cup orphans) = {}
      BY <1>5, <2>1, <2>2 DEF ClientInv, OnePlace
    <3>. QED
      BY <1>1, <3>1 DEF ClientInv, OnePlace
  <2>. QED
    BY <1>1, <1>3, <1>6, <2>4, <2>5, StoreKept DEF ClientInv
<1>. QED
  BY <1>1, <1>8, <1>9

\* A thread serves the next request on its connection.
LEMMA ServeInv ==
  ASSUME ClientInv, NEW w \in Workers, Serve(w)
  PROVE  ClientInv'
<1>. DEFINE no == up[w][1]
<1>1. /\ up[w] # <<>> /\ up' = [up EXCEPT ![w] = Tail(@)]
      /\ UNCHANGED queue \/ queue' = Append(queue, no)
      /\ UNCHANGED <<requests, orphans, taken, storeVars>>
  BY DEF Serve, Queued, apiVars
<1>2. /\ no \in Numbers /\ no \in Range(up[w])
      /\ Tail(up[w]) \in Seq(Numbers) /\ IsInjective(Tail(up[w]))
      /\ Range(Tail(up[w])) = Range(up[w]) \ {no}
  BY <1>1, TailFacts DEF ClientInv, UpInv
<1>3. /\ up'[w] = Tail(up[w])
      /\ \A x \in Workers : x # w => up'[x] = up[x]
      /\ up' \in [Workers -> Seq(Numbers)]
  BY <1>1, <1>2 DEF ClientInv, UpInv
<1>4. Numbers' = Numbers /\ RequestsInv'
  BY <1>1 DEF Numbers, ClientInv, RequestsInv
<1>. HIDE DEF no
<1>5. UpInv'
  BY <1>2, <1>3, <1>4 DEF ClientInv, UpInv
<1>6. /\ queue' \in Seq(Numbers) /\ IsInjective(queue')
      /\ Range(queue') \subseteq Range(queue) \cup {no}
  <2>1. no \notin Range(queue)
    BY <1>2 DEF ClientInv, OnePlace
  <2>2. queue \in Seq(Numbers) /\ IsInjective(queue)
    BY DEF ClientInv, QueueInv
  <2>3. CASE queue' = Append(queue, no)
    BY <1>2, <2>1, <2>2, <2>3, AppendOnce
  <2>. QED
    BY <1>1, <2>2, <2>3
<1>7. QueueInv'
  BY <1>1, <1>4, <1>6 DEF ClientInv, QueueInv
<1>8. OnePlace'
  BY <1>1, <1>2, <1>3, <1>6 DEF ClientInv, OnePlace, UpInv
<1>. QED
  BY <1>1, <1>4, <1>5, <1>7, <1>8, StoreKept DEF ClientInv

LEMMA ServeOrphanInv ==
  ASSUME ClientInv, NEW no \in orphans, ServeOrphan(no)
  PROVE  ClientInv'
<1>1. /\ orphans' = orphans \ {no} /\ queue' = Append(queue, no)
      /\ UNCHANGED <<requests, up, taken, storeVars>>
  BY DEF ServeOrphan, Queued, apiVars
<1>2. Numbers' = Numbers /\ RequestsInv'
  BY <1>1 DEF Numbers, ClientInv, RequestsInv
<1>3. no \in Numbers /\ no \notin Range(queue)
  BY DEF ClientInv, QueueInv, OnePlace
<1>4. /\ queue' \in Seq(Numbers) /\ IsInjective(queue')
      /\ Range(queue') = Range(queue) \cup {no}
  BY <1>1, <1>3, AppendOnce DEF ClientInv, QueueInv
<1>5. UpInv' /\ QueueInv'
  BY <1>1, <1>2, <1>4 DEF ClientInv, UpInv, QueueInv
<1>6. OnePlace'
  BY <1>1, <1>4 DEF ClientInv, OnePlace
<1>. QED
  BY <1>1, <1>2, <1>5, <1>6, StoreKept DEF ClientInv

\* A worker's requests that are not served yet go nowhere, or are served as
\* those of a worker that is gone.
LEMMA RestartWorkerInv ==
  ASSUME ClientInv, NEW w \in Workers, RestartWorker(w)
  PROVE  ClientInv'
<1>1. /\ up' = [up EXCEPT ![w] = <<>>]
      /\ \A no \in orphans' : no \in orphans \/ no \in Range(up[w])
      /\ UNCHANGED <<requests, queue, taken, storeVars>>
  BY DEF RestartWorker, Connected
<1>2. Numbers' = Numbers /\ RequestsInv'
  BY <1>1 DEF Numbers, ClientInv, RequestsInv
<1>3. /\ up'[w] = <<>>
      /\ \A x \in Workers : x # w => up'[x] = up[x]
      /\ up' \in [Workers -> Seq(Numbers)]
  BY <1>1 DEF ClientInv, UpInv
<1>4. UpInv'
  BY <1>2, <1>3, NothingIn DEF ClientInv, UpInv
<1>5. QueueInv'
  <2>1. Range(up[w]) \subseteq Numbers
    BY RangeOfSeq DEF ClientInv, UpInv
  <2>. QED
    BY <1>1, <1>2, <2>1 DEF ClientInv, QueueInv
<1>6. OnePlace'
  BY <1>1, <1>3, NothingIn DEF ClientInv, UpInv, OnePlace
<1>. QED
  BY <1>1, <1>2, <1>4, <1>5, <1>6, StoreKept DEF ClientInv

\* What is before what stays so when something is added to a list, which comes
\* after everything in it.
LEMMA BeforeGrows ==
  ASSUME NEW S, NEW s \in Seq(S), NEW e \in S
  PROVE  /\ \A a, b : Before(s, a, b) => Before(Append(s, e), a, b)
         /\ \A a \in Range(s) : Before(Append(s, e), a, e)
<1>. DEFINE t == Append(s, e)
<1>1. /\ Len(s) \in Nat /\ DOMAIN s = 1 .. Len(s)
      /\ DOMAIN t = 1 .. Len(s) + 1
      /\ \A k \in 1 .. Len(s) : t[k] = s[k]
      /\ t[Len(s) + 1] = e
  OBVIOUS
<1>. HIDE DEF t
<1>2. ASSUME NEW a, NEW b, Before(s, a, b) PROVE Before(t, a, b)
  BY <1>1, <1>2 DEF Before
<1>3. ASSUME NEW a \in Range(s) PROVE Before(t, a, e)
  <2>1. PICK k \in 1 .. Len(s) : s[k] = a
    BY <1>1 DEF Range
  <2>2. k \in DOMAIN t /\ Len(s) + 1 \in DOMAIN t /\ k < Len(s) + 1
    BY <1>1
  <2>. QED
    BY <1>1, <2>1, <2>2 DEF Before
<1>. QED
  BY <1>2, <1>3 DEF t

\* The engine takes a payload; its row is free unless an earlier transaction is
\* still open.
LEMMA InsertInv ==
  ASSUME ClientInv, Insert(RoundIsFree)
  PROVE  ClientInv'
<1>. DEFINE no == Head(queue)
<1>1. /\ queue # <<>> /\ ~inserting
      /\ queue' = Tail(queue) /\ taken' = Append(taken, no)
      /\ UNCHANGED <<requests, up, orphans, rows, length>>
      /\ \/ pending' = <<no>> /\ inserting'
         \/ UNCHANGED <<pending, inserting>>
  BY DEF Insert, apiVars, wireVars
<1>2. /\ no \in Numbers /\ no \in Range(queue)
      /\ Tail(queue) \in Seq(Numbers) /\ IsInjective(Tail(queue))
      /\ Range(Tail(queue)) = Range(queue) \ {no}
  BY <1>1, TailFacts DEF ClientInv, QueueInv
<1>. HIDE DEF no
<1>3. no \notin Range(taken) /\ no \notin orphans /\ \A x \in Workers : no \notin Range(up[x])
  BY <1>2 DEF ClientInv, OnePlace
<1>4. taken \in Seq(Numbers) /\ IsInjective(taken)
  BY DEF ClientInv, QueueInv
<1>5. /\ taken' \in Seq(Numbers) /\ IsInjective(taken')
      /\ Range(taken') = Range(taken) \cup {no}
  BY <1>1, <1>2, <1>3, <1>4, AppendOnce
<1>6. Numbers' = Numbers /\ RequestsInv'
  BY <1>1 DEF Numbers, ClientInv, RequestsInv
<1>7. UpInv' /\ QueueInv'
  BY <1>1, <1>2, <1>5, <1>6 DEF ClientInv, UpInv, QueueInv
<1>8. OnePlace'
  <2>1. Range(queue') = Range(queue) \ {no}
    BY <1>1, <1>2
  <2>2. \A w \in Workers :
          Range(up[w]) \cap (Range(queue') \cup Range(taken') \cup orphans) = {}
    BY <1>3, <1>5, <2>1 DEF ClientInv, OnePlace
  <2>3. orphans \cap (Range(queue') \cup Range(taken')) = {}
    BY <1>3, <1>5, <2>1 DEF ClientInv, OnePlace
  <2>4. Range(queue') \cap Range(taken') = {}
    BY <1>5, <2>1 DEF ClientInv, OnePlace
  <2>. QED
    BY <1>1, <2>2, <2>3, <2>4 DEF OnePlace
<1>9. StoreInv'
  <2>1. /\ \A a, b : Before(taken, a, b) => Before(taken', a, b)
        /\ \A a \in Range(taken) : Before(taken', a, no)
    BY <1>1, <1>2, <1>4, BeforeGrows
  <2>2. /\ length' = length /\ rows' = rows /\ length \in Nat
        /\ DOMAIN rows = 0 .. length - 1
        /\ \A i \in 0 .. length - 1 : rows[i] \in Range(taken)
        /\ \A i, j \in 0 .. length - 1 : i < j => Before(taken, rows[i], rows[j])
    BY <1>1 DEF ClientInv, StoreInv
  <2>3. \A i \in 0 .. length - 1 : rows[i] \in Range(taken')
    BY <1>5, <2>2
  <2>4. \A i, j \in 0 .. length - 1 : i < j => Before(taken', rows[i], rows[j])
    BY <2>1, <2>2
  <2>5. pending' # <<>> =>
          \E o \in Range(taken') :
            pending' = <<o>> /\ \A i \in 0 .. length - 1 : Before(taken', rows[i], o)
    <3>1. CASE pending' = <<no>>
      BY <1>5, <2>1, <2>2, <3>1
    <3>2. CASE UNCHANGED pending
      <4>. SUFFICES ASSUME pending # <<>>
                    PROVE  \E o \in Range(taken') :
                             /\ pending = <<o>>
                             /\ \A i \in 0 .. length - 1 : Before(taken', rows[i], o)
        BY <3>2
      <4>1. PICK o \in Range(taken) :
              pending = <<o>> /\ \A i \in 0 .. length - 1 : Before(taken, rows[i], o)
        BY DEF ClientInv, StoreInv
      <4>. QED
        BY <1>5, <2>1, <4>1
    <3>. QED
      BY <1>1, <3>1, <3>2
  <2>6. inserting' => pending' # <<>>
    <3>1. CASE pending' = <<no>>
      BY <3>1
    <3>2. CASE UNCHANGED <<pending, inserting>>
      BY <1>1, <3>2, Zenon
    <3>. QED
      BY <1>1, <3>1, <3>2
  <2>. QED
    BY <2>2, <2>3, <2>4, <2>5, <2>6 DEF StoreInv
<1>. QED
  BY <1>6, <1>7, <1>8, <1>9 DEF ClientInv

\* The chain with the row of the open transaction.
LEMMA CommittedFacts ==
  ASSUME ClientInv, pending # <<>>
  PROVE  /\ DOMAIN Committed = 0 .. length
         /\ \A i \in 0 .. length : Committed[i] \in Range(taken)
         /\ \A i, j \in 0 .. length : i < j => Before(taken, Committed[i], Committed[j])
<1>1. PICK no \in Range(taken) :
        pending = <<no>> /\ \A i \in 0 .. length - 1 : Before(taken, rows[i], no)
  BY DEF ClientInv, StoreInv
<1>2. /\ length \in Nat /\ DOMAIN rows = 0 .. length - 1
      /\ \A i \in 0 .. length - 1 : rows[i] \in Range(taken)
      /\ \A i, j \in 0 .. length - 1 : i < j => Before(taken, rows[i], rows[j])
  BY DEF ClientInv, StoreInv
<1>3. pending[1] = no
  BY <1>1
<1>4. DOMAIN rows \cup {length} = 0 .. length
  BY <1>2
<1>5. Committed = [r \in 0 .. length |-> IF r = length THEN no ELSE rows[r]]
  BY <1>3, <1>4 DEF Committed
<1>6. \A i \in 0 .. length : Committed[i] = IF i = length THEN no ELSE rows[i]
  BY <1>5
<1>7. \A i \in 0 .. length : i # length => i \in 0 .. length - 1
  BY <1>2
<1>8. ASSUME NEW i \in 0 .. length, NEW j \in 0 .. length, i < j
      PROVE  Before(taken, Committed[i], Committed[j])
  <2>1. i # length /\ i \in 0 .. length - 1
    BY <1>2, <1>8
  <2>. QED
    BY <1>1, <1>2, <1>6, <1>7, <1>8, <2>1
<1>. QED
  BY <1>1, <1>2, <1>5, <1>6, <1>7, <1>8

\* A commit that succeeds makes a row of the open transaction, and one that
\* fails leaves it open.
LEMMA CommitInv ==
  ASSUME ClientInv, NEW ok \in BOOLEAN, Commit(ok)
  PROVE  ClientInv'
<1>1. /\ inserting /\ ~inserting' /\ UNCHANGED <<requests, up, orphans, queue, taken>>
      /\ rows' = (IF ok THEN Committed ELSE rows)
      /\ pending' = (IF ok THEN <<>> ELSE pending)
      /\ length' = (IF ok THEN length + 1 ELSE length)
  BY DEF Commit, NextLength, apiVars, wireVars
<1>2. RequestsInv' /\ UpInv' /\ QueueInv' /\ OnePlace'
  BY <1>1 DEF ClientInv, RequestsInv, UpInv, QueueInv, OnePlace, Numbers
<1>3. StoreInv'
  <2>1. CASE ok
    <3>1. pending # <<>> /\ length \in Nat
      BY <1>1 DEF ClientInv, StoreInv
    <3>2. length' \in Nat /\ length' - 1 = length
      BY <1>1, <2>1, <3>1
    <3>. QED
      BY <1>1, <2>1, <3>1, <3>2, CommittedFacts DEF StoreInv
  <2>2. CASE ~ok
    BY <1>1, <2>2 DEF ClientInv, StoreInv
  <2>. QED
    BY <2>1, <2>2
<1>. QED
  BY <1>2, <1>3 DEF ClientInv

\* get_round_number finds the height of a chain without a gap.
LEMMA RoundNumberIs ==
  ASSUME NEW n \in Nat, NEW chain, DOMAIN chain = 0 .. n - 1
  PROVE  RoundNumber(chain) = n
<1>1. CASE n = 0
  BY <1>1 DEF RoundNumber
<1>2. CASE n # 0
  <2>1. n - 1 \in 0 .. n - 1 /\ \A y \in 0 .. n - 1 : n - 1 >= y
    BY <1>2
  <2>2. \A x \in 0 .. n - 1 : (\A y \in 0 .. n - 1 : x >= y) => x = n - 1
    BY <2>1
  <2>3. Max(0 .. n - 1) = n - 1
    BY <2>1, <2>2 DEF Max
  <2>. QED
    BY <1>2, <2>1, <2>3 DEF RoundNumber
<1>. QED
  BY <1>1, <1>2

\* An engine that starts again finds an empty queue, and the open transaction
\* committed or gone.
LEMMA RestartEngineInv ==
  ASSUME ClientInv, RestartEngine
  PROVE  ClientInv'
<1>1. /\ queue' = <<>> /\ orphans' = {} /\ up' = [w \in Workers |-> <<>>]
      /\ pending' = <<>> /\ inserting' = FALSE /\ UNCHANGED <<requests, taken>>
      /\ rows' = rows \/ rows' = Committed
      /\ length' = RoundNumber(rows')
  BY DEF RestartEngine, NewServer, apiVars
<1>2. RequestsInv' /\ UpInv' /\ QueueInv' /\ OnePlace'
  BY <1>1, NothingIn DEF ClientInv, RequestsInv, UpInv, QueueInv, OnePlace, Numbers
<1>3. StoreInv'
  <2>1. /\ length \in Nat /\ DOMAIN rows = 0 .. length - 1
        /\ \A i \in 0 .. length - 1 : rows[i] \in Range(taken)
        /\ \A i, j \in 0 .. length - 1 : i < j => Before(taken, rows[i], rows[j])
    BY DEF ClientInv, StoreInv
  <2>2. CASE rows' = rows
    <3>1. length' = length
      BY <1>1, <2>1, <2>2, RoundNumberIs
    <3>. QED
      BY <1>1, <2>1, <2>2, <3>1 DEF StoreInv
  <2>3. CASE rows' # rows
    <3>1. rows' = Committed /\ pending # <<>>
      BY <1>1, <2>3 DEF Committed
    <3>2. /\ DOMAIN rows' = 0 .. length
          /\ \A i \in 0 .. length : rows'[i] \in Range(taken)
          /\ \A i, j \in 0 .. length : i < j => Before(taken, rows'[i], rows'[j])
      BY <3>1, CommittedFacts
    <3>3. length + 1 \in Nat /\ (length + 1) - 1 = length
      BY <2>1
    <3>4. length' = length + 1
      BY <1>1, <3>2, <3>3, RoundNumberIs
    <3>. QED
      BY <1>1, <3>2, <3>3, <3>4 DEF StoreInv
  <2>. QED
    BY <2>2, <2>3
<1>. QED
  BY <1>2, <1>3 DEF ClientInv

\* What is told to clients changes none of this.
LEMMA ReadInv ==
  ASSUME ClientInv, UNCHANGED <<requests, up, orphans, queue, taken, storeVars>>
  PROVE  ClientInv'
<1>1. RequestsInv' /\ UpInv' /\ QueueInv' /\ OnePlace'
  BY DEF ClientInv, RequestsInv, UpInv, QueueInv, OnePlace, Numbers
<1>. QED
  BY <1>1, StoreKept DEF ClientInv

----------------------------------------------------------------------------
(* The theorems.                                                            *)

\* The places of requests and the order of rows, in every behaviour.
THEOREM ClientInvariant == Spec => []ClientInv
<1>1. Init => ClientInv
  BY InitialInv
<1>2. ASSUME ClientInv, [Next]_vars PROVE ClientInv'
  <2>1. ASSUME NEW w \in Workers, NEW t \in Threads, Ask(w, t) PROVE ClientInv'
    <3>1. ASSUME NEW kind \in Kinds \ {"verify"}, Post(w, t, kind, 0) PROVE ClientInv'
      BY <1>2, <3>1, PostInv
    <3>2. ASSUME "verify" \in Kinds, NEW no \in DOMAIN requests, Post(w, t, "verify", no)
          PROVE  ClientInv'
      <4>1. no \in Nat
        BY <1>2, LenProperties DEF ClientInv, RequestsInv
      <4>. QED
        BY <1>2, <3>2, <4>1, PostInv
    <3>. QED
      BY <2>1, <3>1, <3>2 DEF Ask
  <2>2. ASSUME NEW w \in Workers, NEW t \in Threads, ReadLength(w, t) \/ ReadBody(w, t)
        PROVE  ClientInv'
    BY <1>2, <2>2, ReadInv DEF ReadLength, ReadBody
  <2>3. CASE UNCHANGED vars
    BY <1>2, <2>3, ReadInv DEF vars, apiVars, wireVars
  <2>4. CASE Commit(TRUE) \/ Commit(FALSE)
    BY <1>2, <2>4, CommitInv
  <2>. QED
    BY <1>2, <2>1, <2>2, <2>3, <2>4, ServeInv, RestartWorkerInv, ServeOrphanInv,
       InsertInv, RestartEngineInv
       DEF Next
<1>. QED
  BY <1>1, <1>2, PTL DEF Spec

\* The chain in the file has no gap and no block twice and keeps the order in
\* which the engine came to insert, whatever commits fail and whatever is
\* restarted.
THEOREM ChainWithoutGapHolds == Spec => []ChainWithoutGap
<1>1. ASSUME ClientInv PROVE ChainWithoutGap
  <2>. DEFINE chain == [i \in 1 .. length |-> rows[i - 1]]
  <2>1. /\ length \in Nat /\ DOMAIN rows = 0 .. length - 1
        /\ \A i, j \in 0 .. length - 1 : i < j => Before(taken, rows[i], rows[j])
        /\ IsInjective(taken)
    BY <1>1 DEF ClientInv, StoreInv, QueueInv
  <2>2. ASSUME NEW i \in 1 .. length, NEW j \in 1 .. length, i < j
        PROVE  Before(taken, chain[i], chain[j])
    <3>1. /\ i - 1 \in 0 .. length - 1 /\ j - 1 \in 0 .. length - 1 /\ i - 1 < j - 1
          /\ chain[i] = rows[i - 1] /\ chain[j] = rows[j - 1]
      BY <2>1, <2>2
    <3>. QED
      BY <2>1, <3>1
  <2>3. \A i, j \in 1 .. length : i < j =>
          \E k, l \in DOMAIN taken : k < l /\ taken[k] = chain[i] /\ taken[l] = chain[j]
    BY <2>2 DEF Before
  <2>4. DOMAIN taken \subseteq Int
    BY <1>1, LenProperties DEF ClientInv, QueueInv
  <2>5. ASSUME NEW i \in 1 .. length, NEW j \in 1 .. length, i < j
        PROVE  chain[i] # chain[j]
    <3>. HIDE DEF chain
    <3>1. PICK k \in DOMAIN taken, l \in DOMAIN taken :
            k < l /\ taken[k] = chain[i] /\ taken[l] = chain[j]
      BY <2>3, <2>5
    <3>. QED
      BY <2>1, <2>4, <3>1 DEF IsInjective
  <2>6. IsInjective(chain)
    <3>. SUFFICES ASSUME NEW i \in 1 .. length, NEW j \in 1 .. length, i # j
                  PROVE  chain[i] # chain[j]
      BY DEF IsInjective
    <3>1. i < j \/ j < i
      BY <2>1
    <3>. HIDE DEF chain
    <3>. QED
      BY <2>5, <3>1
  <2>. QED
    BY <2>1, <2>3, <2>6 DEF ChainWithoutGap
<1>. QED
  BY <1>1, ClientInvariant, PTL

\* The part of PayloadsInOrder that the others rest on: the engine is handed no
\* payload twice, be its worker restarted while it is on its way or not.
THEOREM HandedOnce == Spec => []IsInjective(taken \o queue)
<1>1. ASSUME ClientInv PROVE IsInjective(taken \o queue)
  <2>. DEFINE order == taken \o queue
  <2>1. /\ taken \in Seq(Numbers) /\ IsInjective(taken)
        /\ queue \in Seq(Numbers) /\ IsInjective(queue)
        /\ Range(queue) \cap Range(taken) = {}
    BY <1>1 DEF ClientInv, QueueInv, OnePlace
  <2>2. /\ Len(taken) \in Nat /\ Len(queue) \in Nat
        /\ DOMAIN taken = 1 .. Len(taken) /\ DOMAIN queue = 1 .. Len(queue)
    BY <2>1, LenProperties
  <2>3. /\ order \in Seq(Numbers) /\ Len(order) = Len(taken) + Len(queue)
        /\ \A i \in 1 .. Len(taken) + Len(queue) :
             order[i] = IF i <= Len(taken) THEN taken[i] ELSE queue[i - Len(taken)]
    BY <2>1, ConcatProperties
  <2>. HIDE DEF order
  <2>4. DOMAIN order = 1 .. Len(taken) + Len(queue)
    BY <2>3, LenProperties
  <2>5. ASSUME NEW i \in DOMAIN order, NEW j \in DOMAIN order, i < j
        PROVE  order[i] # order[j]
    <3>1. CASE j <= Len(taken)
      <4>1. i \in DOMAIN taken /\ j \in DOMAIN taken /\ i # j
        BY <2>2, <2>4, <2>5, <3>1
      <4>2. order[i] = taken[i] /\ order[j] = taken[j]
        BY <2>2, <2>3, <2>4, <2>5, <3>1
      <4>. QED
        BY <2>1, <4>1, <4>2 DEF IsInjective
    <3>2. CASE i <= Len(taken) /\ ~(j <= Len(taken))
      <4>1. i \in DOMAIN taken /\ j - Len(taken) \in DOMAIN queue
        BY <2>2, <2>4, <3>2
      <4>2. order[i] = taken[i] /\ order[j] = queue[j - Len(taken)]
        BY <2>2, <2>3, <2>4, <3>2
      <4>. QED
        BY <2>1, <4>1, <4>2 DEF Range
    <3>3. CASE ~(i <= Len(taken))
      <4>1. /\ i - Len(taken) \in DOMAIN queue /\ j - Len(taken) \in DOMAIN queue
            /\ i - Len(taken) # j - Len(taken)
        BY <2>2, <2>4, <2>5, <3>3
      <4>2. order[i] = queue[i - Len(taken)] /\ order[j] = queue[j - Len(taken)]
        BY <2>2, <2>3, <2>4, <2>5, <3>3
      <4>. QED
        BY <2>1, <4>1, <4>2 DEF IsInjective
    <3>. QED
      BY <2>2, <2>4, <2>5, <3>1, <3>2, <3>3
  <2>6. IsInjective(order)
    <3>. SUFFICES ASSUME NEW i \in DOMAIN order, NEW j \in DOMAIN order, i # j
                  PROVE  order[i] # order[j]
      BY DEF IsInjective
    <3>1. i < j \/ j < i
      BY <2>2, <2>4
    <3>. QED
      BY <2>5, <3>1
  <2>. QED
    BY <2>6 DEF order
<1>. QED
  BY <1>1, ClientInvariant, PTL

----------------------------------------------------------------------------
(* Sequences as sets of what is in them.                                    *)

LEMMA ConcatFacts ==
  ASSUME NEW S, NEW s \in Seq(S), NEW r \in Seq(S)
  PROVE  /\ s \o r \in Seq(S) /\ Range(s \o r) = Range(s) \cup Range(r)
         /\ DOMAIN (s \o r) = 1 .. Len(s) + Len(r)
         /\ \A i \in 1 .. Len(s) : (s \o r)[i] = s[i]
         /\ \A i \in 1 .. Len(r) : (s \o r)[Len(s) + i] = r[i]
<1>. DEFINE q == s \o r
<1>1. /\ Len(s) \in Nat /\ Len(r) \in Nat
      /\ DOMAIN s = 1 .. Len(s) /\ DOMAIN r = 1 .. Len(r)
      /\ q \in Seq(S) /\ Len(q) = Len(s) + Len(r)
      /\ \A i \in 1 .. Len(s) + Len(r) : q[i] = IF i <= Len(s) THEN s[i] ELSE r[i - Len(s)]
  BY ConcatProperties, LenProperties
<1>. HIDE DEF q
<1>2. DOMAIN q = 1 .. Len(s) + Len(r)
  BY <1>1, LenProperties
<1>3. \A i \in 1 .. Len(s) : i \in DOMAIN q /\ q[i] = s[i]
  BY <1>1, <1>2
<1>4. \A i \in 1 .. Len(r) : Len(s) + i \in DOMAIN q /\ q[Len(s) + i] = r[i]
  <2>. SUFFICES ASSUME NEW i \in 1 .. Len(r)
                PROVE  Len(s) + i \in DOMAIN q /\ q[Len(s) + i] = r[i]
    OBVIOUS
  <2>1. /\ Len(s) + i \in 1 .. Len(s) + Len(r) /\ ~(Len(s) + i <= Len(s))
        /\ (Len(s) + i) - Len(s) = i
    BY <1>1
  <2>. QED
    BY <1>1, <1>2, <2>1
<1>5. ASSUME NEW x \in Range(q) PROVE x \in Range(s) \cup Range(r)
  <2>1. PICK i \in DOMAIN q : q[i] = x
    BY DEF Range
  <2>2. CASE i <= Len(s)
    BY <1>1, <1>2, <2>1, <2>2 DEF Range
  <2>3. CASE ~(i <= Len(s))
    <3>1. i - Len(s) \in 1 .. Len(r) /\ q[i] = r[i - Len(s)]
      BY <1>1, <1>2, <2>3
    <3>. QED
      BY <1>1, <2>1, <3>1 DEF Range
  <2>. QED
    BY <2>2, <2>3
<1>6. ASSUME NEW x \in Range(s) \cup Range(r) PROVE x \in Range(q)
  <2>1. CASE x \in Range(s)
    BY <1>1, <1>3, <2>1 DEF Range
  <2>2. CASE x \in Range(r)
    BY <1>1, <1>4, <2>2 DEF Range
  <2>. QED
    BY <2>1, <2>2
<1>. QED
  BY <1>1, <1>2, <1>3, <1>4, <1>5, <1>6 DEF q

LEMMA ConcatRange ==
  ASSUME NEW S, NEW s \in Seq(S), NEW r \in Seq(S)
  PROVE  s \o r \in Seq(S) /\ Range(s \o r) = Range(s) \cup Range(r)
BY ConcatFacts

LEMMA TailIn ==
  ASSUME NEW S, NEW s \in Seq(S), s # <<>>
  PROVE  /\ Tail(s) \in Seq(S) /\ s[1] \in S /\ s[1] \in Range(s)
         /\ \A x \in Range(Tail(s)) : x \in Range(s)
<1>1. /\ Len(s) \in Nat /\ Len(s) >= 1 /\ DOMAIN s = 1 .. Len(s)
      /\ Tail(s) \in Seq(S) /\ DOMAIN Tail(s) = 1 .. Len(s) - 1
      /\ \A i \in 1 .. Len(s) - 1 : Tail(s)[i] = s[i + 1]
      /\ s[1] \in S
  BY EmptySeq, LenProperties, HeadTailProperties, ElementOfSeq
<1>2. s[1] \in Range(s)
  BY <1>1 DEF Range
<1>3. ASSUME NEW i \in 1 .. Len(s) - 1 PROVE Tail(s)[i] \in Range(s)
  BY <1>1 DEF Range
<1>. QED
  BY <1>1, <1>2, <1>3 DEF Range

LEMMA TailLength ==
  ASSUME NEW S, NEW s \in Seq(S), s # <<>>
  PROVE  /\ Len(s) \in Nat /\ Len(s) >= 1 /\ DOMAIN s = 1 .. Len(s)
         /\ DOMAIN Tail(s) = 1 .. Len(s) - 1
         /\ \A i \in 1 .. Len(s) - 1 : Tail(s)[i] = s[i + 1]
BY EmptySeq, LenProperties, HeadTailProperties

LEMMA OneAndTwo ==
  ASSUME NEW S, NEW a \in S, NEW b \in S
  PROVE  /\ <<a>> \in Seq(S) /\ Range(<<a>>) = {a}
         /\ <<a, b>> \in Seq(S) /\ Range(<<a, b>>) = {a, b}
BY DEF Range

----------------------------------------------------------------------------
(* Who is told what: the second invariant.                                  *)

Verdicts == {"payload", "verified", "not verified"}

Tokens ==
  [part : {"length", "body", "rest"}, no : Nat, verdict : Verdicts \cup {"none"}]

Answers ==
  [of : Nat, verdict : Verdicts \cup {"500", "201 without a body", "none", "garbled"}]

\* The payloads handed to the engine.
Order == taken \o queue
Arrived == Range(Order)

\* A thread waits for the reply to a request of its own, of which nobody was
\* told anything.
Waiting(w, t) ==
  /\ jobs[w][t].step # "idle" => jobs[w][t].no # 0
  /\ jobs[w][t].no # 0 =>
       /\ jobs[w][t].no \in Numbers
       /\ requests[jobs[w][t].no].worker = w
       /\ answers[jobs[w][t].no] = Empty

JobsInv ==
  /\ jobs \in [Workers -> [Threads ->
       [step : {"idle", "length", "body"}, no : Nat, want : Int]]]
  /\ \A w \in Workers, t \in Threads : Waiting(w, t)
  /\ \A w, x \in Workers, t, u \in Threads :
       jobs[w][t].no # 0 /\ jobs[w][t].no = jobs[x][u].no => w = x /\ t = u

\* Unless something has been restarted, a payload that was sent back is with
\* the engine.
AnswersInv ==
  /\ answers \in Seq(Answers) /\ Len(answers) = Len(requests)
  /\ restarts \in Nat
  /\ restarts = 0 => \A n \in Numbers : answers[n] = Answer(n, "payload") => n \in Arrived

\* What is sent down belongs to a request that was served.
Served(token) ==
  /\ token.no # 0 =>
       /\ token.no \in Numbers \ orphans
       /\ \A x \in Workers : token.no \notin Range(up[x])
  /\ restarts = 0 /\ token.verdict = "payload" => token.no \in Arrived

DownInv ==
  /\ down \in [Workers -> Seq(Tokens)]
  /\ \A w \in Workers : \A token \in Range(down[w]) : Served(token)

\* What is on its way from a worker is newer than what has arrived from it, and
\* is waited for, or its client was told something else.
WaitedFor(w, n) == (\E t \in Threads : jobs[w][t].no = n) \/ ~ToldOfItself(n)

SentInv ==
  /\ handler \in [Workers -> {"running", "dead", "closed"}]
  /\ \A w \in Workers : \A n \in Range(up[w]) :
       /\ requests[n].worker = w
       /\ handler[w] = "running" => WaitedFor(w, n)
       /\ \A m \in Arrived \cup orphans : requests[m].worker = w => m < n
  /\ \A w \in Workers : \A i, j \in DOMAIN up[w] : i < j => up[w][i] < up[w][j]
  /\ \A n \in orphans : ~ToldOfItself(n)

InOrder(s) ==
  \A i, j \in DOMAIN s :
    i < j /\ requests[s[i]].worker = requests[s[j]].worker /\ ToldOfItself(s[j])
      => s[i] < s[j]

PathInv == JobsInv /\ AnswersInv /\ DownInv /\ SentInv /\ InOrder(Order)

\* What ClientInv says of the payloads handed over.
LEMMA OrderFacts ==
  ASSUME ClientInv
  PROVE  /\ Len(requests) \in Nat
         /\ Order \in Seq(Numbers) /\ Arrived = Range(taken) \cup Range(queue)
         /\ Arrived \subseteq Numbers /\ orphans \subseteq Numbers
         /\ Arrived \cap orphans = {}
         /\ \A w \in Workers :
              /\ up[w] \in Seq(Numbers) /\ Range(up[w]) \subseteq Numbers
              /\ Range(up[w]) \cap (Arrived \cup orphans) = {}
<1>1. Len(requests) \in Nat
  BY LenProperties DEF ClientInv, RequestsInv
<1>2. taken \in Seq(Numbers) /\ queue \in Seq(Numbers) /\ orphans \subseteq Numbers
  BY DEF ClientInv, QueueInv
<1>3. Order \in Seq(Numbers) /\ Arrived = Range(taken) \cup Range(queue)
  BY <1>2, ConcatFacts DEF Order, Arrived
<1>4. Arrived \subseteq Numbers
  BY <1>3, RangeOfSeq DEF Arrived
<1>5. ASSUME NEW w \in Workers
      PROVE  /\ up[w] \in Seq(Numbers) /\ Range(up[w]) \subseteq Numbers
             /\ Range(up[w]) \cap (Arrived \cup orphans) = {}
  <2>1. up[w] \in Seq(Numbers)
    BY DEF ClientInv, UpInv
  <2>2. Range(up[w]) \subseteq Numbers
    BY <2>1, RangeOfSeq
  <2>. QED
    BY <1>3, <2>1, <2>2 DEF ClientInv, OnePlace
<1>6. Arrived \cap orphans = {}
  BY <1>3 DEF ClientInv, OnePlace
<1>. QED
  BY <1>1, <1>2, <1>3, <1>4, <1>5, <1>6

LEMMA InitialPath ==
  ASSUME Init
  PROVE  PathInv
<1>1. /\ Order = <<>> /\ Range(<<>>) = {} /\ Len(<<>>) = 0
      /\ requests = <<>> /\ answers = <<>> /\ orphans = {}
      /\ jobs = [w \in Workers |-> [t \in Threads |-> Idle]]
      /\ up = [w \in Workers |-> <<>>] /\ down = [w \in Workers |-> <<>>]
  BY NothingIn DEF Init, Order
<1>2. JobsInv
  <2>1. Idle \in [step : {"idle", "length", "body"}, no : Nat, want : Int]
    BY DEF Idle
  <2>2. \A w \in Workers, t \in Threads : jobs[w][t] = Idle
    BY <1>1
  <2>. QED
    BY <1>1, <2>1, <2>2 DEF JobsInv, Waiting, Idle
<1>3. AnswersInv
  <2>1. Numbers = {}
    BY <1>1 DEF Numbers
  <2>. QED
    BY <1>1, <2>1 DEF Init, AnswersInv
<1>4. DownInv
  BY <1>1 DEF DownInv
<1>5. SentInv
  BY <1>1 DEF Init, SentInv
<1>6. InOrder(Order)
  BY <1>1 DEF InOrder
<1>. QED
  BY <1>2, <1>3, <1>4, <1>5, <1>6 DEF PathInv

LEMMA JobsKept ==
  ASSUME JobsInv, UNCHANGED <<requests, jobs, answers>>
  PROVE  JobsInv'
BY DEF JobsInv, Waiting, Numbers

\* Nothing that PathInv speaks of changes while the engine inserts or commits.
LEMMA PathKept ==
  ASSUME PathInv, UNCHANGED <<apiVars, wireVars, restarts>>, Order' = Order
  PROVE  PathInv'
<1>1. /\ UNCHANGED <<requests, jobs, answers, up, down, handler, orphans, restarts>>
      /\ Arrived' = Arrived /\ Numbers' = Numbers
  BY DEF apiVars, wireVars, Arrived, Numbers
<1>2. \A n : ToldOfItself(n)' <=> ToldOfItself(n)
  BY <1>1 DEF ToldOfItself
<1>3. JobsInv' /\ AnswersInv'
  BY <1>1 DEF PathInv, JobsInv, Waiting, AnswersInv
<1>4. DownInv'
  BY <1>1 DEF PathInv, DownInv, Served
<1>5. SentInv'
  BY <1>1, <1>2 DEF PathInv, SentInv, WaitedFor
<1>6. InOrder(Order)'
  BY <1>1, <1>2 DEF PathInv, InOrder
<1>. QED
  BY <1>3, <1>4, <1>5, <1>6 DEF PathInv

\* Inserting moves a payload from the one list to the other.
LEMMA InsertKeepsOrder ==
  ASSUME ClientInv, Insert(RoundIsFree)
  PROVE  Order' = Order
<1>1. /\ queue # <<>> /\ queue' = Tail(queue) /\ taken' = Append(taken, Head(queue))
      /\ taken \in Seq(Numbers) /\ queue \in Seq(Numbers)
  BY DEF Insert, ClientInv, QueueInv
<1>2. Tail(queue) \in Seq(Numbers) /\ Head(queue) \in Numbers
  BY <1>1, HeadTailProperties
<1>6. queue = <<Head(queue)>> \o Tail(queue)
  BY <1>1, <1>2
<1>3. <<Head(queue)>> \in Seq(Numbers)
  BY <1>2
<1>4. Append(taken, Head(queue)) = taken \o <<Head(queue)>>
  BY <1>1, <1>2, AppendIsConcat
<1>5. (taken \o <<Head(queue)>>) \o Tail(queue) = taken \o (<<Head(queue)>> \o Tail(queue))
  BY <1>1, <1>2, <1>3, ConcatAssociative
<1>. QED
  BY <1>1, <1>2, <1>4, <1>5, <1>6 DEF Order

LEMMA LastOfAppend ==
  ASSUME NEW S, NEW s \in Seq(S), NEW e \in S
  PROVE  /\ Append(s, e) \in Seq(S) /\ Len(Append(s, e)) = Len(s) + 1
         /\ Len(s) \in Nat /\ DOMAIN s = 1 .. Len(s)
         /\ DOMAIN Append(s, e) = 1 .. Len(s) + 1
         /\ \A i \in 1 .. Len(s) : Append(s, e)[i] = s[i]
         /\ Append(s, e)[Len(s) + 1] = e
OBVIOUS

LEMMA PostPath ==
  ASSUME ClientInv, PathInv, NEW w \in Workers, NEW t \in Threads,
         NEW kind \in Kinds, NEW hash \in Nat, Post(w, t, kind, hash)
  PROVE  PathInv'
<1>. DEFINE R == [kind : Kinds, hash : Nat, worker : Workers]
<1>0. PICK no : no = Len(requests) + 1
  OBVIOUS
<1>1. /\ jobs[w][t] = Idle
      /\ requests' = Append(requests, [kind |-> kind, hash |-> hash, worker |-> w])
      /\ \/ /\ up' = [up EXCEPT ![w] = Append(@, no)]
            /\ jobs' = [jobs EXCEPT ![w][t] = Job("length", no, 0)]
            /\ answers' = Append(answers, Empty)
         \/ /\ handler[w] = "closed"
            /\ jobs' = [jobs EXCEPT ![w][t] = Job("length", no, 0)]
            /\ answers' = Append(answers, Empty)
            /\ UNCHANGED up
         \/ /\ answers' = Append(answers, Failed)
            /\ UNCHANGED <<up, jobs>>
      /\ UNCHANGED <<down, handler, orphans, queue, taken, restarts>>
  BY <1>0 DEF Post
<1>2. /\ Len(requests) \in Nat /\ Numbers = 1 .. Len(requests)
      /\ requests \in Seq(R) /\ answers \in Seq(Answers) /\ Len(answers) = Len(requests)
  BY OrderFacts DEF ClientInv, RequestsInv, PathInv, AnswersInv, Numbers
<1>3. /\ Len(requests') = no /\ requests'[no].worker = w
      /\ \A n \in Numbers : requests'[n] = requests[n]
  <2>. DEFINE r == [kind |-> kind, hash |-> hash, worker |-> w]
  <2>1. r \in R /\ r.worker = w
    OBVIOUS
  <2>. HIDE DEF r, R
  <2>2. /\ Len(Append(requests, r)) = no /\ Append(requests, r)[no] = r
        /\ \A n \in Numbers : Append(requests, r)[n] = requests[n]
    BY <1>0, <1>2, <2>1, LastOfAppend
  <2>3. requests' = Append(requests, r)
    BY <1>1 DEF r
  <2>. QED
    BY <2>1, <2>2, <2>3
<1>4. /\ answers' \in Seq(Answers) /\ Len(answers') = no /\ answers'[no] \in {Empty, Failed}
      /\ \A n \in Numbers : answers'[n] = answers[n]
  <2>1. Empty \in Answers /\ Failed \in Answers
    BY DEF Empty, Failed, Answer, Answers
  <2>2. ASSUME NEW a \in Answers, answers' = Append(answers, a)
        PROVE  /\ answers' \in Seq(Answers) /\ Len(answers') = no /\ answers'[no] = a
               /\ \A n \in Numbers : answers'[n] = answers[n]
    BY <1>0, <1>2, <2>2, LastOfAppend
  <2>. QED
    BY <1>1, <2>1, <2>2
<1>5. /\ Numbers' = Numbers \cup {no} /\ no \notin Numbers /\ no \in Nat /\ no # 0
      /\ \A n \in Numbers : n \in Nat /\ n # 0 /\ n < no
  BY <1>0, <1>2, <1>3 DEF Numbers
<1>6. \A n \in Numbers : ToldOfItself(n)' <=> ToldOfItself(n)
  BY <1>4 DEF ToldOfItself
<1>7. Order' = Order /\ Arrived' = Arrived
  BY <1>1 DEF Order, Arrived
<1>8. answers' = Append(answers, Empty) => answers'[no] = Empty
  <2>1. Empty \in Answers
    BY DEF Empty, Answer, Answers
  <2>. QED
    BY <1>0, <1>2, <2>1, LastOfAppend
<1>. HIDE DEF R
<1>9. JobsInv'
  <2>1. CASE jobs' = [jobs EXCEPT ![w][t] = Job("length", no, 0)] /\ answers'[no] = Empty
    <3>1. Job("length", no, 0) \in [step : {"idle", "length", "body"}, no : Nat, want : Int]
      BY <1>5 DEF Job
    <3>2. /\ jobs' \in [Workers -> [Threads ->
               [step : {"idle", "length", "body"}, no : Nat, want : Int]]]
          /\ jobs'[w][t] = Job("length", no, 0)
          /\ \A x \in Workers, u \in Threads :
               x # w \/ u # t => jobs'[x][u] = jobs[x][u]
      BY <2>1, <3>1 DEF PathInv, JobsInv
    <3>3. Job("length", no, 0).no = no /\ Job("length", no, 0).step = "length"
      BY DEF Job
    <3>4. ASSUME NEW x \in Workers, NEW u \in Threads PROVE Waiting(x, u)'
      <4>1. CASE x = w /\ u = t
        BY <1>3, <1>5, <2>1, <3>2, <3>3, <4>1 DEF Waiting
      <4>2. CASE ~(x = w /\ u = t)
        <5>1. jobs'[x][u] = jobs[x][u] /\ Waiting(x, u)
          BY <3>2, <4>2 DEF PathInv, JobsInv
        <5>. QED
          BY <1>3, <1>4, <1>5, <5>1 DEF Waiting
      <4>. QED
        BY <4>1, <4>2
    <3>5. \A x \in Workers, u \in Threads : jobs[x][u].no # no
      BY <1>5 DEF PathInv, JobsInv, Waiting
    <3>6. ASSUME NEW x \in Workers, NEW y \in Workers, NEW u \in Threads, NEW v \in Threads,
                 jobs'[x][u].no # 0, jobs'[x][u].no = jobs'[y][v].no
          PROVE  x = y /\ u = v
      <4>1. CASE x = w /\ u = t /\ y = w /\ v = t
        BY <4>1
      <4>2. CASE x = w /\ u = t /\ ~(y = w /\ v = t)
        BY <3>2, <3>3, <3>5, <3>6, <4>2
      <4>3. CASE ~(x = w /\ u = t) /\ y = w /\ v = t
        BY <3>2, <3>3, <3>5, <3>6, <4>3
      <4>4. CASE ~(x = w /\ u = t) /\ ~(y = w /\ v = t)
        <5>1. jobs'[x][u] = jobs[x][u] /\ jobs'[y][v] = jobs[y][v]
          BY <3>2, <4>4
        <5>. QED
          BY <3>6, <5>1 DEF PathInv, JobsInv
      <4>. QED
        BY <4>1, <4>2, <4>3, <4>4
    <3>. QED
      BY <3>2, <3>4, <3>6 DEF JobsInv
  <2>2. CASE UNCHANGED jobs
    <3>1. ASSUME NEW x \in Workers, NEW u \in Threads PROVE Waiting(x, u)'
      <4>1. Waiting(x, u)
        BY DEF PathInv, JobsInv
      <4>. QED
        BY <1>3, <1>4, <1>5, <2>2, <4>1 DEF Waiting
    <3>. QED
      BY <2>2, <3>1 DEF PathInv, JobsInv
  <2>. QED
    BY <1>1, <1>8, <2>1, <2>2
<1>10. AnswersInv'
  <2>1. answers'[no] # Answer(no, "payload")
    <3>1. Empty.of = 0 /\ Failed.of = 0 /\ Answer(no, "payload").of = no
      BY DEF Empty, Failed, Answer
    <3>. QED
      BY <1>4, <1>5, <3>1
  <2>2. restarts' = 0 => \A n \in Numbers' : answers'[n] = Answer(n, "payload") => n \in Arrived'
    BY <1>1, <1>4, <1>5, <1>7, <2>1 DEF PathInv, AnswersInv
  <2>. QED
    BY <1>1, <1>3, <1>4, <2>2 DEF PathInv, AnswersInv
<1>11. /\ up'[w] = up[w] \/ up'[w] = Append(up[w], no)
       /\ \A x \in Workers : x # w => up'[x] = up[x]
  BY <1>1 DEF ClientInv, UpInv
<1>12. /\ \A x \in Workers : Range(up'[x]) \subseteq Range(up[x]) \cup {no}
       /\ \A x \in Workers : x # w => Range(up'[x]) = Range(up[x])
  <2>1. up[w] \in Seq(Numbers') /\ no \in Numbers'
    BY <1>5, SeqMonotonic DEF ClientInv, UpInv
  <2>2. IsInjective(up[w]) /\ no \notin Range(up[w])
    BY <1>5, OrderFacts DEF ClientInv, UpInv
  <2>3. Range(Append(up[w], no)) = Range(up[w]) \cup {no}
    BY <2>1, <2>2, AppendOnce
  <2>. QED
    BY <1>11, <2>3
<1>13. DownInv'
  <2>1. ASSUME NEW x \in Workers, NEW token \in Range(down[x]) PROVE Served(token)'
    BY <1>1, <1>5, <1>7, <1>12 DEF PathInv, DownInv, Served
  <2>. QED
    BY <1>1, <2>1 DEF PathInv, DownInv
<1>14. \A x \in Workers : Range(up[x]) \subseteq Numbers /\ up[x] \in Seq(Numbers)
  BY OrderFacts
<1>15. Arrived \subseteq Numbers /\ orphans \subseteq Numbers /\ Order \in Seq(Numbers)
  BY OrderFacts
<1>16. SentInv'
  <2>1. ASSUME NEW x \in Workers, NEW n \in Numbers, WaitedFor(x, n) PROVE WaitedFor(x, n)'
    <3>1. ASSUME NEW u \in Threads, jobs[x][u].no = n PROVE jobs'[x][u].no = n
      <4>1. ~(x = w /\ u = t)
        BY <1>1, <1>5, <3>1 DEF Idle
      <4>2. CASE jobs' = [jobs EXCEPT ![w][t] = Job("length", no, 0)]
        BY <3>1, <4>1, <4>2 DEF PathInv, JobsInv
      <4>. QED
        BY <1>1, <3>1, <4>2
    <3>. QED
      BY <1>6, <2>1, <3>1 DEF WaitedFor
  <2>2. up'[w] = up[w] \/ WaitedFor(w, no)'
    <3>1. CASE jobs' = [jobs EXCEPT ![w][t] = Job("length", no, 0)]
      <4>1. jobs'[w][t].no = no
        BY <3>1 DEF PathInv, JobsInv, Job
      <4>. QED
        BY <4>1 DEF WaitedFor
    <3>. QED
      BY <1>1, <3>1
  <2>3. ASSUME NEW x \in Workers, NEW n \in Range(up'[x])
        PROVE  /\ requests'[n].worker = x
               /\ handler'[x] = "running" => WaitedFor(x, n)'
               /\ \A m \in (Arrived \cup orphans)' : requests'[m].worker = x => m < n
    <3>1. CASE n \in Range(up[x])
      <4>1. n \in Numbers /\ requests'[n] = requests[n]
        BY <1>3, <1>14, <3>1
      <4>2. \A m \in Arrived \cup orphans : requests'[m] = requests[m]
        BY <1>3, <1>15
      <4>3. /\ requests[n].worker = x
            /\ handler[x] = "running" => WaitedFor(x, n)
            /\ \A m \in Arrived \cup orphans : requests[m].worker = x => m < n
        BY <3>1 DEF PathInv, SentInv
      <4>. QED
        BY <1>1, <1>7, <2>1, <4>1, <4>2, <4>3
    <3>2. CASE n \notin Range(up[x])
      <4>1. n = no /\ x = w /\ up'[w] # up[w]
        BY <1>11, <1>12, <3>2
      <4>2. WaitedFor(w, no)'
        BY <2>2, <4>1
      <4>3. \A m \in (Arrived \cup orphans)' : m < no
        BY <1>1, <1>5, <1>7, <1>15
      <4>. QED
        BY <1>3, <4>1, <4>2, <4>3
    <3>. QED
      BY <3>1, <3>2
  <2>4. ASSUME NEW x \in Workers, NEW i \in DOMAIN up'[x], NEW j \in DOMAIN up'[x], i < j
        PROVE  up'[x][i] < up'[x][j]
    <3>1. CASE up'[x] = up[x]
      BY <2>4, <3>1 DEF PathInv, SentInv
    <3>2. CASE x = w /\ up'[w] = Append(up[w], no)
      <4>1. up[w] \in Seq(Numbers') /\ no \in Numbers'
        BY <1>5, <1>14, SeqMonotonic
      <4>2. /\ Len(up[w]) \in Nat /\ DOMAIN up[w] = 1 .. Len(up[w])
            /\ DOMAIN up'[w] = 1 .. Len(up[w]) + 1
            /\ \A k \in 1 .. Len(up[w]) : up'[w][k] = up[w][k]
            /\ up'[w][Len(up[w]) + 1] = no
        BY <3>2, <4>1, LastOfAppend
      <4>3. i \in 1 .. Len(up[w]) /\ (j \in 1 .. Len(up[w]) \/ j = Len(up[w]) + 1)
        BY <2>4, <3>2, <4>2
      <4>4. up[w][i] \in Numbers
        BY <1>14, <4>3, ElementOfSeq
      <4>. QED
        BY <1>5, <2>4, <3>2, <4>2, <4>3, <4>4 DEF PathInv, SentInv
    <3>. QED
      BY <1>11, <3>1, <3>2
  <2>5. \A n \in orphans' : ~ToldOfItself(n)'
    BY <1>1, <1>6, <1>15 DEF PathInv, SentInv
  <2>6. handler' \in [Workers -> {"running", "dead", "closed"}]
    BY <1>1 DEF PathInv, SentInv
  <2>. QED
    BY <2>3, <2>4, <2>5, <2>6 DEF SentInv
<1>17. InOrder(Order)'
  <2>1. \A i \in DOMAIN Order : Order[i] \in Numbers
    BY <1>15, LenProperties, ElementOfSeq
  <2>. QED
    BY <1>3, <1>6, <1>7, <2>1 DEF PathInv, InOrder
<1>. QED
  BY <1>9, <1>10, <1>13, <1>16, <1>17 DEF PathInv

\* A payload comes to the end of what is handed over.
LEMMA QueuedLast ==
  ASSUME ClientInv, NEW no \in Numbers, queue' = Append(queue, no), taken' = taken
  PROVE  /\ Order' = Append(Order, no) /\ Arrived' = Arrived \cup {no}
         /\ Len(Order) \in Nat /\ DOMAIN Order = 1 .. Len(Order)
         /\ DOMAIN Order' = 1 .. Len(Order) + 1
         /\ \A i \in 1 .. Len(Order) : Order'[i] = Order[i] /\ Order[i] \in Arrived
         /\ Order'[Len(Order) + 1] = no
<1>1. /\ taken \in Seq(Numbers) /\ queue \in Seq(Numbers) /\ <<no>> \in Seq(Numbers)
      /\ Order \in Seq(Numbers)
  BY OrderFacts DEF ClientInv, QueueInv
<1>2. Append(queue, no) = queue \o <<no>> /\ Append(Order, no) = Order \o <<no>>
  BY <1>1, AppendIsConcat
<1>3. taken \o (queue \o <<no>>) = (taken \o queue) \o <<no>>
  BY <1>1, ConcatAssociative
<1>4. Order' = Append(Order, no)
  BY <1>2, <1>3 DEF Order
<1>5. Arrived' = Arrived \cup {no}
  <2>1. Range(Order \o <<no>>) = Range(Order) \cup Range(<<no>>)
    BY <1>1, ConcatRange
  <2>2. Range(<<no>>) = {no}
    BY OneAndTwo
  <2>. QED
    BY <1>2, <1>4, <2>1, <2>2 DEF Arrived
<1>6. \A i \in 1 .. Len(Order) : Order[i] \in Arrived
  BY <1>1, LenProperties DEF Arrived, Range
<1>. QED
  BY <1>1, <1>4, <1>5, <1>6, LastOfAppend

\* The order is kept where nobody was told of it as itself, or all of its worker
\* that have arrived are older.
LEMMA QueuedInOrder ==
  ASSUME ClientInv, InOrder(Order), NEW no \in Numbers,
         queue' = Append(queue, no), UNCHANGED <<requests, answers, taken>>,
         ToldOfItself(no) =>
           \A m \in Arrived : requests[m].worker = requests[no].worker => m < no
  PROVE  InOrder(Order)'
<1>1. /\ Len(Order) \in Nat /\ DOMAIN Order = 1 .. Len(Order)
      /\ DOMAIN Order' = 1 .. Len(Order) + 1
      /\ \A i \in 1 .. Len(Order) : Order'[i] = Order[i] /\ Order[i] \in Arrived
      /\ Order'[Len(Order) + 1] = no
  BY QueuedLast
<1>2. \A n : ToldOfItself(n)' <=> ToldOfItself(n)
  BY DEF ToldOfItself
<1>3. ASSUME NEW i \in DOMAIN Order', NEW j \in DOMAIN Order', i < j,
             requests[Order'[i]].worker = requests[Order'[j]].worker,
             ToldOfItself(Order'[j])
      PROVE  Order'[i] < Order'[j]
  <2>1. i \in 1 .. Len(Order) /\ (j \in 1 .. Len(Order) \/ j = Len(Order) + 1)
    BY <1>1, <1>3
  <2>2. CASE j \in 1 .. Len(Order)
    BY <1>1, <1>3, <2>1, <2>2 DEF InOrder
  <2>3. CASE j = Len(Order) + 1
    BY <1>1, <1>3, <2>1, <2>3
  <2>. QED
    BY <2>1, <2>2, <2>3
<1>. QED
  BY <1>2, <1>3 DEF InOrder

\* What a reply consists of.
LEMMA ReplyFacts ==
  ASSUME NEW no \in Nat, NEW v \in Verdicts
  PROVE  /\ Reply(no, v) \in Seq(Tokens)
         /\ \A token \in Range(Reply(no, v)) :
              /\ token.no = no \/ token = Garbage
              /\ token.verdict = v \/ token = Garbage
<1>. DEFINE a == Token("length", no, v)
            b == Token("body", no, v)
<1>1. a \in Tokens /\ b \in Tokens /\ Garbage \in Tokens
  BY DEF Tokens, Token, Garbage
<1>2. a.no = no /\ a.verdict = v /\ b.no = no /\ b.verdict = v
  BY DEF Token
<1>3. Reply(no, v) = <<a, b>> \o (IF LongerThanItsLength(no) THEN <<Garbage>> ELSE <<>>)
  BY DEF Reply
<1>. HIDE DEF a, b
<1>4. /\ <<a, b>> \in Seq(Tokens) /\ Range(<<a, b>>) = {a, b}
      /\ <<Garbage>> \in Seq(Tokens) /\ Range(<<Garbage>>) = {Garbage}
      /\ <<>> \in Seq(Tokens) /\ Range(<<>>) = {}
  BY <1>1, OneAndTwo, EmptySeq, NothingIn
<1>5. CASE LongerThanItsLength(no)
  <2>1. PICK r, q : r = <<a, b>> /\ q = <<Garbage>>
    OBVIOUS
  <2>3. Reply(no, v) = r \o q /\ r \in Seq(Tokens) /\ q \in Seq(Tokens)
    BY <1>3, <1>4, <1>5, <2>1
  <2>4. r \o q \in Seq(Tokens) /\ Range(r \o q) = Range(r) \cup Range(q)
    BY <2>3, ConcatRange
  <2>2. Reply(no, v) \in Seq(Tokens) /\ Range(Reply(no, v)) = {a, b} \cup {Garbage}
    BY <1>4, <2>1, <2>3, <2>4
  <2>. QED
    BY <1>2, <2>2
<1>6. CASE ~LongerThanItsLength(no)
  <2>1. Reply(no, v) = <<a, b>>
    BY <1>3, <1>4, <1>6, ConcatEmptySeq
  <2>2. Reply(no, v) \in Seq(Tokens) /\ Range(Reply(no, v)) = {a, b}
    BY <1>4, <2>1
  <2>. QED
    BY <1>2, <2>2
<1>. QED
  BY <1>5, <1>6

LEMMA ServePath ==
  ASSUME ClientInv, PathInv, NEW w \in Workers, Serve(w)
  PROVE  PathInv'
<1>0. PICK no : no = up[w][1]
  OBVIOUS
<1>1. /\ handler[w] = "running" /\ up[w] # <<>> /\ up' = [up EXCEPT ![w] = Tail(@)]
      /\ handler' = handler \/ handler' = [handler EXCEPT ![w] = "dead"]
      /\ queue' = queue \/ queue' = Append(queue, no)
      /\ \/ UNCHANGED down
         \/ \E v \in Verdicts :
              /\ down' = [down EXCEPT ![w] = @ \o Reply(no, v)]
              /\ v = "payload" => queue' = Append(queue, no)
      /\ UNCHANGED <<requests, jobs, answers, orphans, taken, restarts>>
  BY <1>0 DEF Serve, Queued, apiVars, Verdicts
<1>2. /\ no \in Numbers /\ no \in Range(up[w]) /\ Tail(up[w]) \in Seq(Numbers)
      /\ Range(Tail(up[w])) = Range(up[w]) \ {no}
  BY <1>0, <1>1, TailFacts DEF ClientInv, UpInv
<1>3. /\ up'[w] = Tail(up[w])
      /\ \A x \in Workers : x # w => up'[x] = up[x]
      /\ \A x \in Workers : Range(up'[x]) \subseteq Range(up[x]) \ {no}
  <2>1. /\ up'[w] = Tail(up[w])
        /\ \A x \in Workers : x # w => up'[x] = up[x]
    BY <1>1 DEF ClientInv, UpInv
  <2>2. \A x \in Workers : x # w => no \notin Range(up[x])
    BY <1>2 DEF ClientInv, UpInv
  <2>. QED
    BY <1>2, <2>1, <2>2
<1>4. /\ Numbers' = Numbers /\ \A n : ToldOfItself(n)' <=> ToldOfItself(n)
      /\ no \in Nat /\ no # 0
  <2>1. no \in Nat /\ no # 0
    BY <1>2, OrderFacts DEF Numbers
  <2>. QED
    BY <1>1, <2>1 DEF Numbers, ToldOfItself
<1>5. Arrived' = Arrived \/ Arrived' = Arrived \cup {no}
  BY <1>1, <1>2, QueuedLast DEF Order, Arrived
<1>6. no \notin Arrived /\ no \notin orphans
  BY <1>2, OrderFacts
<1>7. JobsInv'
  BY <1>1, JobsKept DEF PathInv
<1>8. AnswersInv'
  BY <1>1, <1>4, <1>5 DEF PathInv, AnswersInv
<1>9. DownInv'
  <2>1. ASSUME NEW token, Served(token) PROVE Served(token)'
    BY <1>1, <1>3, <1>4, <1>5, <2>1 DEF Served
  <2>2. CASE UNCHANGED down
    BY <2>1, <2>2 DEF PathInv, DownInv
  <2>3. ASSUME NEW v \in Verdicts,
               down' = [down EXCEPT ![w] = @ \o Reply(no, v)],
               v = "payload" => queue' = Append(queue, no)
        PROVE  DownInv'
    <3>1. /\ Reply(no, v) \in Seq(Tokens)
          /\ \A token \in Range(Reply(no, v)) :
               /\ token.no = no \/ token = Garbage
               /\ token.verdict = v \/ token = Garbage
      BY <1>4, ReplyFacts
    <3>2. v = "payload" => no \in Arrived'
      BY <1>1, <1>2, <2>3, QueuedLast
    <3>3. Served(Garbage)'
      BY DEF Served, Garbage, Token
    <3>4. \A token \in Range(Reply(no, v)) : Served(token)'
      BY <1>1, <1>2, <1>3, <1>4, <1>6, <3>1, <3>2, <3>3 DEF Served
    <3>5. down[w] \in Seq(Tokens)
      BY DEF PathInv, DownInv
    <3>6. /\ down[w] \o Reply(no, v) \in Seq(Tokens)
          /\ Range(down[w] \o Reply(no, v)) = Range(down[w]) \cup Range(Reply(no, v))
        <4>1. down[w] \in Seq(Tokens) /\ Reply(no, v) \in Seq(Tokens)
        BY <3>1, <3>5
      <4>. QED
        BY <4>1, ConcatRange
    <3>7. /\ down' \in [Workers -> Seq(Tokens)]
          /\ down'[w] = down[w] \o Reply(no, v)
          /\ \A x \in Workers : x # w => down'[x] = down[x]
      BY <2>3, <3>6 DEF PathInv, DownInv
    <3>8. ASSUME NEW x \in Workers, NEW token \in Range(down'[x]) PROVE Served(token)'
      <4>1. token \in Range(down[x]) \/ token \in Range(Reply(no, v))
        BY <3>6, <3>7, <3>8
      <4>2. token \in Range(down[x]) => Served(token)
        BY DEF PathInv, DownInv
      <4>. QED
        BY <2>1, <3>4, <4>1, <4>2
    <3>. QED
      BY <3>7, <3>8 DEF DownInv
  <2>. QED
    BY <1>1, <2>2, <2>3
<1>10. \A x \in Workers : \A n : WaitedFor(x, n)' <=> WaitedFor(x, n)
  BY <1>1, <1>4 DEF WaitedFor
<1>11. ASSUME NEW i \in DOMAIN up[w], NEW j \in DOMAIN up[w], i < j
       PROVE  up[w][i] < up[w][j]
  BY <1>11 DEF PathInv, SentInv
<1>12. /\ Len(up[w]) \in Nat /\ Len(up[w]) >= 1 /\ DOMAIN up[w] = 1 .. Len(up[w])
       /\ DOMAIN up'[w] = 1 .. Len(up[w]) - 1
       /\ \A i \in 1 .. Len(up[w]) - 1 : up'[w][i] = up[w][i + 1]
  <2>1. up[w] \in Seq(Numbers)
    BY OrderFacts
  <2>2. up[w] \in Seq(Numbers) /\ up[w] # <<>>
    BY <1>1, <2>1
  <2>3. /\ Len(up[w]) \in Nat /\ Len(up[w]) >= 1 /\ DOMAIN up[w] = 1 .. Len(up[w])
        /\ DOMAIN Tail(up[w]) = 1 .. Len(up[w]) - 1
        /\ \A i \in 1 .. Len(up[w]) - 1 : Tail(up[w])[i] = up[w][i + 1]
    BY <2>2, TailLength
  <2>. QED
    BY <1>3, <2>3
<1>13. \A n \in Range(up'[w]) : no < n
  <2>1. ASSUME NEW i \in DOMAIN up'[w] PROVE no < up'[w][i]
    <3>1. 1 \in DOMAIN up[w] /\ i + 1 \in DOMAIN up[w] /\ 1 < i + 1 /\ up'[w][i] = up[w][i + 1]
      BY <1>12
    <3>. QED
      BY <1>0, <1>11, <3>1
  <2>. QED
    BY <2>1 DEF Range
<1>14. SentInv'
  <2>1. ASSUME NEW x \in Workers, NEW n \in Range(up'[x])
        PROVE  /\ requests[n].worker = x
               /\ handler'[x] = "running" => WaitedFor(x, n)
               /\ \A m \in Arrived' \cup orphans : requests[m].worker = x => m < n
    <3>1. n \in Range(up[x])
      BY <1>3
    <3>2. handler'[x] = "running" => handler[x] = "running"
      BY <1>1 DEF PathInv, SentInv
    <3>3. requests[no].worker = w
      BY <1>2 DEF PathInv, SentInv
    <3>4. \A m \in Arrived \cup orphans : requests[m].worker = x => m < n
      BY <3>1 DEF PathInv, SentInv
    <3>5. requests[no].worker = x => no < n
      BY <1>13, <3>3
    <3>. QED
      BY <1>5, <3>1, <3>2, <3>4, <3>5 DEF PathInv, SentInv
  <2>2. ASSUME NEW x \in Workers, NEW i \in DOMAIN up'[x], NEW j \in DOMAIN up'[x], i < j
        PROVE  up'[x][i] < up'[x][j]
    <3>1. CASE x # w
      BY <1>3, <2>2, <3>1 DEF PathInv, SentInv
    <3>2. CASE x = w
      <4>1. /\ i + 1 \in DOMAIN up[w] /\ j + 1 \in DOMAIN up[w] /\ i + 1 < j + 1
            /\ up'[w][i] = up[w][i + 1] /\ up'[w][j] = up[w][j + 1]
        BY <1>12, <2>2, <3>2
      <4>. QED
        BY <1>11, <3>2, <4>1
    <3>. QED
      BY <3>1, <3>2
  <2>. QED
    <3>1. handler' \in [Workers -> {"running", "dead", "closed"}]
      BY <1>1 DEF PathInv, SentInv
    <3>2. \A n \in orphans' : ~ToldOfItself(n)'
      BY <1>1, <1>4 DEF PathInv, SentInv
    <3>3. \A x \in Workers : \A n \in Range(up'[x]) :
            /\ requests'[n].worker = x
            /\ handler'[x] = "running" => WaitedFor(x, n)'
            /\ \A m \in (Arrived \cup orphans)' : requests'[m].worker = x => m < n
      BY <1>1, <1>10, <2>1
    <3>. QED
      BY <2>2, <3>1, <3>2, <3>3 DEF SentInv
<1>15. InOrder(Order)'
  <2>1. CASE queue' = queue
    BY <1>1, <1>4, <2>1 DEF PathInv, InOrder, Order
  <2>2. CASE queue' = Append(queue, no)
    <3>1. \A m \in Arrived : requests[m].worker = requests[no].worker => m < no
      BY <1>2 DEF PathInv, SentInv
    <3>. QED
      BY <1>1, <1>2, <2>2, <3>1, QueuedInOrder DEF PathInv
  <2>. QED
    BY <1>1, <2>1, <2>2
<1>. QED
  BY <1>7, <1>8, <1>9, <1>14, <1>15 DEF PathInv

LEMMA ServeOrphanPath ==
  ASSUME ClientInv, PathInv, NEW no \in orphans, ServeOrphan(no)
  PROVE  PathInv'
<1>1. /\ orphans' = orphans \ {no} /\ queue' = Append(queue, no)
      /\ UNCHANGED <<requests, jobs, answers, up, down, handler, taken, restarts>>
  BY DEF ServeOrphan, Queued, apiVars
<1>2. no \in Numbers /\ ~ToldOfItself(no)
  BY OrderFacts DEF PathInv, SentInv
<1>3. /\ Arrived' = Arrived \cup {no} /\ Numbers' = Numbers
      /\ \A n : ToldOfItself(n)' <=> ToldOfItself(n)
  BY <1>1, <1>2, QueuedLast DEF Numbers, ToldOfItself
<1>4. JobsInv'
  BY <1>1, JobsKept DEF PathInv
<1>5. AnswersInv'
  BY <1>1, <1>3 DEF PathInv, AnswersInv
<1>6. DownInv'
  <2>1. ASSUME NEW token, Served(token) PROVE Served(token)'
    BY <1>1, <1>3, <2>1 DEF Served
  <2>. QED
    BY <1>1, <2>1 DEF PathInv, DownInv
<1>7. SentInv'
  <2>1. (Arrived \cup orphans)' = Arrived \cup orphans
    BY <1>1, <1>3
  <2>. QED
    BY <1>1, <1>3, <2>1 DEF PathInv, SentInv, WaitedFor
<1>8. InOrder(Order)'
  BY <1>1, <1>2, QueuedInOrder DEF PathInv
<1>. QED
  BY <1>4, <1>5, <1>6, <1>7, <1>8 DEF PathInv

LEMMA SeqOfFunction ==
  ASSUME NEW S, NEW n \in Nat, NEW f \in [1 .. n -> S]
  PROVE  f \in Seq(S) /\ Len(f) = n
<1>1. f \in Seq(S)
  BY SeqDef
<1>2. Len(f) \in Nat /\ 1 .. Len(f) = 1 .. n
  BY <1>1, LenProperties
<1>. QED
  BY <1>1, <1>2

LEMMA RestartWorkerPath ==
  ASSUME ClientInv, PathInv, NEW w \in Workers, RestartWorker(w)
  PROVE  PathInv'
<1>1. /\ restarts' = restarts + 1
      /\ jobs' = [jobs EXCEPT ![w] = [t \in Threads |-> Idle]]
      /\ answers' = [no \in DOMAIN answers |->
           IF \E t \in Threads : jobs[w][t].no = no THEN Failed ELSE answers[no]]
      /\ up' = [up EXCEPT ![w] = <<>>] /\ down' = [down EXCEPT ![w] = <<>>]
      /\ handler' = [x \in Workers |-> IF x = w THEN "running"
                                       ELSE IF handler[x] = "dead" THEN "closed"
                                       ELSE handler[x]]
      /\ \A no \in orphans' :
           no \in orphans \/ (no \in Range(up[w]) /\ handler[w] = "running")
      /\ UNCHANGED <<requests, queue, taken>>
  BY DEF RestartWorker, Connected
<1>2. Numbers' = Numbers /\ Order' = Order /\ Arrived' = Arrived
  BY <1>1 DEF Numbers, Order, Arrived
<1>3. /\ up'[w] = <<>> /\ down'[w] = <<>> /\ Range(<<>>) = {}
      /\ down' \in [Workers -> Seq(Tokens)]
      /\ \A x \in Workers : x # w => up'[x] = up[x] /\ down'[x] = down[x]
  BY <1>1, NothingIn DEF ClientInv, UpInv, PathInv, DownInv
<1>4. Numbers = 1 .. Len(answers) /\ DOMAIN answers = Numbers /\ Len(answers) \in Nat
  BY LenProperties DEF PathInv, AnswersInv, Numbers
<1>5. \A n \in Numbers :
        answers'[n] = IF \E t \in Threads : jobs[w][t].no = n THEN Failed ELSE answers[n]
  BY <1>1, <1>4
<1>6. \A n \in Numbers : n # 0 /\ n \in Nat
  BY <1>4
<1>7. \A n \in Numbers : ToldOfItself(n)' =>
        ToldOfItself(n) /\ \A t \in Threads : jobs[w][t].no # n
  <2>1. Failed # Empty /\ Failed.of = 0
    BY DEF Failed, Empty, Answer
  <2>. QED
    BY <1>5, <1>6, <2>1 DEF ToldOfItself
<1>8. /\ jobs' \in [Workers -> [Threads ->
           [step : {"idle", "length", "body"}, no : Nat, want : Int]]]
      /\ \A t \in Threads : jobs'[w][t] = Idle
      /\ \A x \in Workers : x # w => jobs'[x] = jobs[x]
  <2>1. Idle \in [step : {"idle", "length", "body"}, no : Nat, want : Int]
    BY DEF Idle
  <2>. QED
    BY <1>1, <2>1 DEF PathInv, JobsInv
<1>9. JobsInv'
  <2>1. Idle.step = "idle" /\ Idle.no = 0
    BY DEF Idle
  <2>2. ASSUME NEW x \in Workers, NEW u \in Threads PROVE Waiting(x, u)'
    <3>1. CASE x = w
      BY <1>8, <2>1, <3>1 DEF Waiting
    <3>2. CASE x # w
      <4>1. jobs'[x][u] = jobs[x][u] /\ Waiting(x, u)
        BY <1>8, <3>2 DEF PathInv, JobsInv
      <4>2. jobs[x][u].no # 0 => \A t \in Threads : jobs[w][t].no # jobs[x][u].no
        BY <3>2 DEF PathInv, JobsInv
      <4>. QED
        BY <1>1, <1>2, <1>5, <4>1, <4>2 DEF Waiting
    <3>. QED
      BY <3>1, <3>2
  <2>3. ASSUME NEW x \in Workers, NEW y \in Workers, NEW u \in Threads, NEW v \in Threads,
               jobs'[x][u].no # 0, jobs'[x][u].no = jobs'[y][v].no
        PROVE  x = y /\ u = v
    <3>1. x # w /\ y # w
      BY <1>8, <2>1, <2>3
    <3>2. jobs'[x][u] = jobs[x][u] /\ jobs'[y][v] = jobs[y][v]
      BY <1>8, <3>1
    <3>. QED
      BY <2>3, <3>2 DEF PathInv, JobsInv
  <2>. QED
    BY <1>8, <2>2, <2>3 DEF JobsInv
<1>10. AnswersInv'
  <2>1. Failed \in Answers
    BY DEF Failed, Answer, Answers
  <2>2. \A n \in Numbers : answers[n] \in Answers
    BY <1>4, ElementOfSeq DEF PathInv, AnswersInv
  <2>3. answers' \in [1 .. Len(answers) -> Answers]
    BY <1>1, <1>4, <2>1, <2>2
  <2>4. answers' \in Seq(Answers) /\ Len(answers') = Len(answers)
    BY <1>4, <2>3, SeqOfFunction
  <2>5. restarts' \in Nat /\ restarts' # 0
    BY <1>1 DEF PathInv, AnswersInv
  <2>. QED
    BY <1>1, <2>4, <2>5 DEF PathInv, AnswersInv
<1>11. DownInv'
  <2>1. ASSUME NEW x \in Workers, NEW token \in Range(down'[x]) PROVE Served(token)'
    <3>1. x # w /\ token \in Range(down[x]) /\ Served(token)
      BY <1>3, <2>1 DEF PathInv, DownInv
    <3>2. token.no # 0 =>
            /\ token.no \in Numbers' \ orphans'
            /\ \A y \in Workers : token.no \notin Range(up'[y])
      BY <1>1, <1>2, <1>3, <3>1 DEF Served
    <3>3. restarts' # 0
      BY <1>1 DEF PathInv, AnswersInv
    <3>. QED
      BY <3>2, <3>3 DEF Served
  <2>. QED
    BY <1>3, <2>1 DEF DownInv
<1>12. SentInv'
  <2>1. \A x \in Workers : Range(up[x]) \subseteq Numbers /\ orphans \subseteq Numbers
    BY OrderFacts
  <2>2. ASSUME NEW x \in Workers, NEW n \in Range(up'[x])
        PROVE  /\ requests'[n].worker = x
               /\ handler'[x] = "running" => WaitedFor(x, n)'
               /\ \A m \in (Arrived \cup orphans)' : requests'[m].worker = x => m < n
    <3>1. x # w /\ n \in Range(up[x])
      BY <1>3, <2>2
    <3>2. handler'[x] = "running" => WaitedFor(x, n)
      BY <1>1, <3>1 DEF PathInv, SentInv
    <3>3. WaitedFor(x, n) => WaitedFor(x, n)'
      BY <1>7, <1>8, <2>1, <3>1 DEF WaitedFor
    <3>4. ASSUME NEW m \in (Arrived \cup orphans)', requests[m].worker = x PROVE m < n
      <4>1. m \in Range(up[w]) => requests[m].worker = w
        BY DEF PathInv, SentInv
      <4>2. m \in Arrived \cup orphans
        BY <1>1, <1>2, <3>1, <3>4, <4>1
      <4>. QED
        BY <3>1, <3>4, <4>2 DEF PathInv, SentInv
    <3>. QED
      BY <1>1, <3>1, <3>2, <3>3, <3>4 DEF PathInv, SentInv
  <2>3. ASSUME NEW x \in Workers, NEW i \in DOMAIN up'[x], NEW j \in DOMAIN up'[x], i < j
        PROVE  up'[x][i] < up'[x][j]
    <3>1. x # w
      BY <1>3, <2>3
    <3>. QED
      BY <1>3, <2>3, <3>1 DEF PathInv, SentInv
  <2>4. ASSUME NEW n \in orphans' PROVE ~ToldOfItself(n)'
    <3>1. CASE n \in orphans
      BY <1>7, <2>1, <3>1 DEF PathInv, SentInv
    <3>2. CASE n \in Range(up[w]) /\ handler[w] = "running"
      <4>1. WaitedFor(w, n) /\ n \in Numbers
        BY <2>1, <3>2 DEF PathInv, SentInv
      <4>. QED
        BY <1>7, <4>1 DEF WaitedFor
    <3>. QED
      BY <1>1, <3>1, <3>2
  <2>5. handler' \in [Workers -> {"running", "dead", "closed"}]
    BY <1>1 DEF PathInv, SentInv
  <2>. QED
    BY <2>2, <2>3, <2>4, <2>5 DEF SentInv
<1>13. InOrder(Order)'
  <2>1. \A i \in DOMAIN Order : Order[i] \in Numbers
    BY OrderFacts, LenProperties, ElementOfSeq
  <2>. QED
    BY <1>1, <1>2, <1>7, <2>1 DEF PathInv, InOrder
<1>. QED
  BY <1>9, <1>10, <1>11, <1>12, <1>13 DEF PathInv

\* What is left of the wire once four bytes were taken for a length.
LEMMA WithoutFourFacts ==
  ASSUME NEW s \in Seq(Tokens), s # <<>>, NEW left \in WithoutFour(s)
  PROVE  left \in Seq(Tokens) /\ \A x \in Range(left) : x \in Range(s) \/ x = Garbage
<1>1. PICK g : g = <<Garbage>>
  OBVIOUS
<1>2. g \in Seq(Tokens) /\ Range(g) = {Garbage}
  <2>1. Garbage \in Tokens
    BY DEF Garbage, Token, Tokens
  <2>. QED
    BY <1>1, <2>1, OneAndTwo
<1>3. Tail(s) \in Seq(Tokens) /\ \A x \in Range(Tail(s)) : x \in Range(s)
  BY TailIn
<1>4. CASE left = Tail(s)
  BY <1>3, <1>4
<1>5. CASE left = g \o Tail(s)
  <2>0. PICK r : r = Tail(s)
    OBVIOUS
  <2>1. g \in Seq(Tokens) /\ r \in Seq(Tokens)
    BY <1>2, <1>3, <2>0
  <2>2. g \o r \in Seq(Tokens) /\ Range(g \o r) = Range(g) \cup Range(r)
    BY <2>1, ConcatRange
  <2>. QED
    BY <1>2, <1>3, <1>5, <2>0, <2>2
<1>6. CASE Len(s) > 1 /\ left = g \o SubSeq(s, 3, Len(s))
  <2>. DEFINE r == SubSeq(s, 3, Len(s))
  <2>1. /\ Len(s) \in Nat /\ DOMAIN s = 1 .. Len(s)
        /\ \A i \in 1 .. Len(s) : s[i] \in Tokens /\ s[i] \in Range(s)
    BY LenProperties, ElementOfSeq DEF Range
  <2>2. r = [i \in 1 .. (Len(s) - 3) + 1 |-> s[(i + 3) - 1]]
    BY <2>1
  <2>3. \A i \in 1 .. (Len(s) - 3) + 1 : (i + 3) - 1 \in 1 .. Len(s)
    BY <2>1
  <2>4. (Len(s) - 3) + 1 \in Int /\ (Len(s) - 3) + 1 >= 0
    BY <1>6, <2>1
  <2>5. PICK n \in Nat : n = (Len(s) - 3) + 1
    BY <2>4
  <2>10. r \in [1 .. n -> Tokens]
    BY <2>1, <2>2, <2>3, <2>5
  <2>6. r \in Seq(Tokens)
    BY <2>10, SeqOfFunction
  <2>7. \A x \in Range(r) : x \in Range(s)
    BY <2>1, <2>2, <2>3 DEF Range
  <2>8. left = g \o r
    BY <1>6
  <2>. HIDE DEF r
  <2>9. left \in Seq(Tokens) /\ Range(left) = Range(g) \cup Range(r)
    BY <1>2, <2>6, <2>8, ConcatRange
  <2>. QED
    BY <1>2, <2>7, <2>9
<1>. QED
  BY <1>1, <1>4, <1>5, <1>6 DEF WithoutFour

\* Whatever a thread reads: what is left was there before, and what it tells
\* its client comes from there, unless the connection is closed.
Takes(w, left) ==
  /\ down' = [down EXCEPT ![w] = left] /\ left \in Seq(Tokens)
  /\ \A x \in Range(left) : x \in Range(down[w]) \/ x = Garbage

ReadsOn(w, t) ==
  /\ UNCHANGED answers
  /\ \E want \in Int : jobs' = [jobs EXCEPT ![w][t] = Job("body", jobs[w][t].no, want)]

IsTold(w, t) ==
  \E answer :
    /\ Answered(w, t, answer)
    /\ \/ answer = Empty /\ handler[w] = "closed"
       \/ \E token \in Range(down[w]) :
            answer \in {Answer(token.no, token.verdict), Answer(token.no, "garbled")}

LEMMA ReadIs ==
  ASSUME PathInv, NEW w \in Workers, NEW t \in Threads, ReadLength(w, t) \/ ReadBody(w, t)
  PROVE  /\ jobs[w][t].step # "idle"
         /\ \E left : Takes(w, left)
         /\ ReadsOn(w, t) \/ IsTold(w, t)
<1>1. down \in [Workers -> Seq(Tokens)] /\ down[w] \in Seq(Tokens)
  BY DEF PathInv, DownInv
<1>2. down[w] # <<>> => /\ Tail(down[w]) \in Seq(Tokens)
                        /\ down[w][1] \in Tokens /\ down[w][1] \in Range(down[w])
                        /\ \A x \in Range(Tail(down[w])) : x \in Range(down[w])
  BY <1>1, TailIn
<1>3. UNCHANGED down => Takes(w, down[w])
  BY <1>1 DEF Takes
<1>4. down[w] # <<>> /\ down' = [down EXCEPT ![w] = Tail(@)] => Takes(w, Tail(down[w]))
  BY <1>1, <1>2 DEF Takes
<1>5. ASSUME NEW left \in WithoutFour(down[w]), down[w] # <<>>, down' = [down EXCEPT ![w] = left]
      PROVE  Takes(w, left)
  <2>1. left \in Seq(Tokens) /\ \A x \in Range(left) : x \in Range(down[w]) \/ x = Garbage
    BY <1>1, <1>5, WithoutFourFacts
  <2>. QED
    BY <1>5, <2>1 DEF Takes
<1>6. down[w] # <<>> => <<Garbage>> \o Tail(down[w]) \in WithoutFour(down[w])
  BY DEF WithoutFour
<1>7. down' = [down EXCEPT ![w] = <<>>] => Takes(w, <<>>)
  BY <1>1, EmptySeq, NothingIn DEF Takes
<1>8. ASSUME ReadLength(w, t)
      PROVE  /\ jobs[w][t].step # "idle"
             /\ \E left : Takes(w, left)
             /\ ReadsOn(w, t) \/ IsTold(w, t)
  <2>1. CASE /\ down[w] # <<>> /\ down[w][1].part = "length"
             /\ down' = [down EXCEPT ![w] = Tail(@)]
             /\ jobs' = [jobs EXCEPT ![w][t] = Job("body", jobs[w][t].no, down[w][1].no)]
             /\ UNCHANGED answers
    <3>1. down[w][1].no \in Int
      <4>1. ASSUME NEW token \in Tokens PROVE token.no \in Int
        <5>1. token.no \in Nat
          BY DEF Tokens
        <5>. QED
          BY <5>1
      <4>. QED
        BY <1>2, <2>1, <4>1
    <3>. QED
      BY <1>4, <1>8, <2>1, <3>1 DEF ReadLength, ReadsOn
  <2>2. CASE /\ down[w] # <<>> /\ down[w][1].part # "length"
             /\ \E left \in WithoutFour(down[w]) : down' = [down EXCEPT ![w] = left]
             /\ jobs' = [jobs EXCEPT ![w][t] = Job("body", jobs[w][t].no, Huge)]
             /\ UNCHANGED answers
    <3>1. Huge \in Int
      BY DEF Huge
    <3>. QED
      BY <1>5, <1>8, <2>2, <3>1 DEF ReadLength, ReadsOn
  <2>3. CASE /\ down[w] = <<>> /\ handler[w] = "closed"
             /\ Answered(w, t, Empty)
             /\ UNCHANGED down
    BY <1>3, <1>8, <2>3 DEF ReadLength, IsTold
  <2>. QED
    BY <1>8, <2>1, <2>2, <2>3 DEF ReadLength
<1>9. ASSUME ReadBody(w, t)
      PROVE  /\ jobs[w][t].step # "idle"
             /\ \E left : Takes(w, left)
             /\ ReadsOn(w, t) \/ IsTold(w, t)
  <2>. DEFINE head == down[w][1]
  <2>1. CASE /\ down[w] # <<>>
             /\ down' = [down EXCEPT ![w] = Tail(@)]
             /\ Answered(w, t, Answer(head.no, head.verdict))
    BY <1>2, <1>4, <1>9, <2>1 DEF ReadBody, IsTold
  <2>2. CASE /\ down[w] # <<>>
             /\ \E left \in IF jobs[w][t].want = Huge THEN {<<>>}
                            ELSE {Tail(down[w]), <<Garbage>> \o Tail(down[w])} :
                  down' = [down EXCEPT ![w] = left]
             /\ Answered(w, t, Answer(head.no, "garbled"))
    <3>1. \E left : Takes(w, left)
      BY <1>4, <1>5, <1>6, <1>7, <2>2
    <3>2. IsTold(w, t)
      BY <1>2, <2>2 DEF IsTold
    <3>. QED
      BY <1>9, <3>1, <3>2 DEF ReadBody
  <2>3. CASE /\ down[w] = <<>> /\ handler[w] = "closed"
             /\ Answered(w, t, Empty)
             /\ UNCHANGED down
    BY <1>3, <1>9, <2>3 DEF ReadBody, IsTold
  <2>. QED
    BY <1>9, <2>1, <2>2, <2>3 DEF ReadBody
<1>. QED
  BY <1>8, <1>9

LEMMA ReadPath ==
  ASSUME ClientInv, PathInv, NEW w \in Workers, NEW t \in Threads,
         ReadLength(w, t) \/ ReadBody(w, t)
  PROVE  PathInv'
<1>1. UNCHANGED <<requests, up, handler, orphans, queue, taken, restarts>>
  BY DEF ReadLength, ReadBody
<1>2. PICK no : no = jobs[w][t].no
  OBVIOUS
<1>3. /\ jobs[w][t].step # "idle" /\ (ReadsOn(w, t) \/ IsTold(w, t))
      /\ no \in Numbers /\ requests[no].worker = w /\ answers[no] = Empty
      /\ no # 0 /\ no \in Nat
  <2>1. jobs[w][t].step # "idle" /\ (ReadsOn(w, t) \/ IsTold(w, t)) /\ Waiting(w, t)
    BY ReadIs DEF PathInv, JobsInv
  <2>2. no \in Numbers /\ no # 0
    BY <1>2, <2>1 DEF Waiting
  <2>3. no \in Nat
    BY <2>2, OrderFacts DEF Numbers
  <2>. QED
    BY <1>2, <2>1, <2>2, <2>3 DEF Waiting
<1>4. PICK left : Takes(w, left)
  BY ReadIs
<1>5. Numbers' = Numbers /\ Order' = Order /\ Arrived' = Arrived
  BY <1>1 DEF Numbers, Order, Arrived
<1>6. /\ down' \in [Workers -> Seq(Tokens)]
      /\ \A x \in Workers : \A token \in Range(down'[x]) :
           token \in Range(down[x]) \/ token = Garbage
  <2>1. /\ down' \in [Workers -> Seq(Tokens)] /\ down'[w] = left
        /\ \A x \in Workers : x # w => down'[x] = down[x]
    BY <1>4 DEF Takes, PathInv, DownInv
  <2>. QED
    BY <1>4, <2>1 DEF Takes
<1>7. DownInv'
  <2>1. Served(Garbage)'
    BY DEF Served, Garbage, Token
  <2>2. ASSUME NEW token, Served(token) PROVE Served(token)'
    BY <1>1, <1>5, <2>2 DEF Served
  <2>. QED
    BY <1>6, <2>1, <2>2 DEF PathInv, DownInv
<1>8. InOrder(Order) /\ \A i \in DOMAIN Order : Order[i] \in Numbers
  BY OrderFacts, LenProperties, ElementOfSeq DEF PathInv
<1>9. CASE ReadsOn(w, t)
  <2>1. PICK want \in Int : jobs' = [jobs EXCEPT ![w][t] = Job("body", no, want)]
    BY <1>2, <1>9 DEF ReadsOn
  <2>2. answers' = answers /\ \A n : ToldOfItself(n)' <=> ToldOfItself(n)
    BY <1>9 DEF ReadsOn, ToldOfItself
  <2>3. /\ Job("body", no, want) \in [step : {"idle", "length", "body"}, no : Nat, want : Int]
        /\ Job("body", no, want).no = no
    BY <1>3 DEF Job
  <2>4. /\ jobs' \in [Workers -> [Threads ->
             [step : {"idle", "length", "body"}, no : Nat, want : Int]]]
        /\ jobs'[w][t].no = no
        /\ \A x \in Workers, u \in Threads : x # w \/ u # t => jobs'[x][u] = jobs[x][u]
    BY <2>1, <2>3 DEF PathInv, JobsInv
  <2>5. \A x \in Workers, u \in Threads : jobs'[x][u].no = jobs[x][u].no
    BY <1>2, <2>4
  <2>6. JobsInv'
    <3>1. ASSUME NEW x \in Workers, NEW u \in Threads PROVE Waiting(x, u)'
      <4>1. CASE x = w /\ u = t
        BY <1>1, <1>3, <1>5, <2>2, <2>4, <4>1 DEF Waiting
      <4>2. CASE ~(x = w /\ u = t)
        <5>1. jobs'[x][u] = jobs[x][u] /\ Waiting(x, u)
          BY <2>4, <4>2 DEF PathInv, JobsInv
        <5>. QED
          BY <1>1, <1>5, <2>2, <5>1 DEF Waiting
      <4>. QED
        BY <4>1, <4>2
    <3>2. \A x, y \in Workers, u, v \in Threads :
            jobs'[x][u].no # 0 /\ jobs'[x][u].no = jobs'[y][v].no => x = y /\ u = v
      BY <2>5 DEF PathInv, JobsInv
    <3>. QED
      BY <2>4, <3>1, <3>2 DEF JobsInv
  <2>7. AnswersInv'
    BY <1>1, <1>5, <2>2 DEF PathInv, AnswersInv
  <2>8. \A x \in Workers : \A n : WaitedFor(x, n)' <=> WaitedFor(x, n)
    BY <2>2, <2>5 DEF WaitedFor
  <2>9. SentInv'
    BY <1>1, <1>5, <2>2, <2>8 DEF PathInv, SentInv
  <2>10. InOrder(Order)'
    BY <1>1, <1>5, <1>8, <2>2 DEF InOrder
  <2>. QED
    BY <1>7, <2>6, <2>7, <2>9, <2>10 DEF PathInv
<1>10. CASE IsTold(w, t)
  <2>1. PICK answer :
          /\ answers' = [answers EXCEPT ![no] = answer]
          /\ jobs' = [jobs EXCEPT ![w][t] = Idle]
          /\ \/ answer = Empty /\ handler[w] = "closed"
             \/ \E token \in Range(down[w]) :
                  answer \in {Answer(token.no, token.verdict), Answer(token.no, "garbled")}
    BY <1>2, <1>10 DEF IsTold, Answered
  <2>2. ASSUME NEW token \in Range(down[w])
        PROVE  /\ token \in Tokens /\ Served(token) /\ token.no \in Nat
               /\ Answer(token.no, token.verdict) \in Answers
               /\ Answer(token.no, "garbled") \in Answers
    <3>1. token \in Tokens /\ Served(token)
      BY RangeOfSeq DEF PathInv, DownInv
    <3>2. token.no \in Nat /\ token.verdict \in Verdicts \cup {"none"}
      BY <3>1 DEF Tokens
    <3>. QED
      BY <3>1, <3>2 DEF Answer, Answers
  <2>3. answer \in Answers
    <3>1. Empty \in Answers
      BY DEF Empty, Answer, Answers
    <3>. QED
      BY <2>1, <2>2, <3>1
  <2>4. /\ answers' \in Seq(Answers) /\ Len(answers') = Len(answers)
        /\ answers'[no] = answer
        /\ \A n \in Numbers : n # no => answers'[n] = answers[n]
    <3>1. answers \in Seq(Answers) /\ no \in 1 .. Len(answers) /\ Numbers = 1 .. Len(answers)
      BY <1>3 DEF PathInv, AnswersInv, Numbers
    <3>. QED
      BY <2>1, <2>3, <3>1, ExceptSeq
  <2>5. answer # Empty => \E token \in Range(down[w]) :
          /\ answer.of = token.no /\ answer \in {Answer(token.no, token.verdict),
                                                  Answer(token.no, "garbled")}
    BY <2>1 DEF Answer
  <2>6. ToldOfItself(no) /\ \A n \in Numbers : ToldOfItself(n)' => ToldOfItself(n)
    BY <1>3, <2>4 DEF ToldOfItself
  <2>7. \A n \in Numbers : ToldOfItself(n) /\ ~ToldOfItself(n)' => n = no
    BY <2>4 DEF ToldOfItself
  <2>8. /\ jobs' \in [Workers -> [Threads ->
             [step : {"idle", "length", "body"}, no : Nat, want : Int]]]
        /\ jobs'[w][t] = Idle
        /\ \A x \in Workers, u \in Threads : x # w \/ u # t => jobs'[x][u] = jobs[x][u]
    <3>1. Idle \in [step : {"idle", "length", "body"}, no : Nat, want : Int]
      BY DEF Idle
    <3>. QED
      BY <2>1, <3>1 DEF PathInv, JobsInv
  <2>9. Idle.no = 0 /\ Idle.step = "idle"
    BY DEF Idle
  <2>10. JobsInv'
    <3>1. ASSUME NEW x \in Workers, NEW u \in Threads PROVE Waiting(x, u)'
      <4>1. CASE x = w /\ u = t
        BY <2>8, <2>9, <4>1 DEF Waiting
      <4>2. CASE ~(x = w /\ u = t)
        <5>1. jobs'[x][u] = jobs[x][u] /\ Waiting(x, u)
          BY <2>8, <4>2 DEF PathInv, JobsInv
        <5>2. jobs[x][u].no # no
          BY <1>2, <1>3, <4>2 DEF PathInv, JobsInv
        <5>. QED
          BY <1>1, <1>5, <2>4, <5>1, <5>2 DEF Waiting
      <4>. QED
        BY <4>1, <4>2
    <3>2. ASSUME NEW x \in Workers, NEW y \in Workers, NEW u \in Threads, NEW v \in Threads,
                 jobs'[x][u].no # 0, jobs'[x][u].no = jobs'[y][v].no
          PROVE  x = y /\ u = v
      <4>1. jobs'[x][u] = jobs[x][u] /\ jobs'[y][v] = jobs[y][v]
        BY <2>8, <2>9, <3>2
      <4>. QED
        BY <3>2, <4>1 DEF PathInv, JobsInv
    <3>. QED
      BY <2>8, <3>1, <3>2 DEF JobsInv
  <2>11. AnswersInv'
    <3>1. ASSUME restarts = 0, answer = Answer(no, "payload") PROVE no \in Arrived
      <4>1. answer # Empty /\ answer.of = no /\ answer.verdict = "payload"
        BY <1>3, <3>1 DEF Empty, Answer
      <4>2. PICK token \in Range(down[w]) :
              /\ answer.of = token.no
              /\ answer \in {Answer(token.no, token.verdict), Answer(token.no, "garbled")}
        BY <2>5, <4>1
      <4>3. token.verdict = "payload"
        BY <4>1, <4>2 DEF Answer
      <4>. QED
        BY <2>2, <3>1, <4>1, <4>2, <4>3 DEF Served
    <3>2. restarts = 0 => \A n \in Numbers : answers'[n] = Answer(n, "payload") => n \in Arrived
      BY <2>4, <3>1 DEF PathInv, AnswersInv
    <3>. QED
      BY <1>1, <1>5, <2>4, <3>2 DEF PathInv, AnswersInv
  <2>12. SentInv'
    <3>1. ASSUME NEW x \in Workers, NEW n \in Range(up[x]), handler[x] = "running",
                 WaitedFor(x, n)
          PROVE  WaitedFor(x, n)'
      <4>1. n \in Numbers
        BY OrderFacts
      <4>2. CASE n = no
        <5>1. x = w
          BY <1>3, <4>2 DEF PathInv, SentInv
        <5>2. answer # Empty
          <6>1. handler[w] # "closed"
            BY <3>1, <5>1
          <6>2. PICK token \in Range(down[w]) :
                  answer \in {Answer(token.no, token.verdict), Answer(token.no, "garbled")}
            BY <2>1, <6>1
          <6>3. token.verdict \in Verdicts \cup {"none"}
            BY <2>2 DEF Tokens
          <6>4. /\ Answer(token.no, token.verdict).verdict = token.verdict
                /\ Answer(token.no, "garbled").verdict = "garbled"
                /\ Empty.verdict = "201 without a body"
            BY DEF Empty, Answer
          <6>5. token.verdict # "201 without a body"
            BY <6>3 DEF Verdicts
          <6>. QED
            BY <6>2, <6>4, <6>5
        <5>3. PICK token \in Range(down[w]) : answer.of = token.no
          BY <2>5, <5>2
        <5>4. token.no # no
          BY <1>3, <2>2, <4>2 DEF Served
        <5>. QED
          BY <2>4, <4>2, <5>2, <5>3, <5>4 DEF WaitedFor, ToldOfItself
      <4>3. CASE n # no
        <5>1. ASSUME NEW u \in Threads, jobs[x][u].no = n PROVE jobs'[x][u].no = n
          BY <1>2, <2>8, <4>3, <5>1
        <5>. QED
          BY <2>6, <3>1, <4>1, <5>1 DEF WaitedFor
      <4>. QED
        BY <4>2, <4>3
    <3>2. \A n \in orphans : ~ToldOfItself(n)'
      BY <2>6, OrderFacts DEF PathInv, SentInv
    <3>. QED
      BY <1>1, <1>5, <3>1, <3>2 DEF PathInv, SentInv
  <2>13. InOrder(Order)'
    BY <1>1, <1>5, <1>8, <2>6 DEF InOrder
  <2>. QED
    BY <1>7, <2>10, <2>11, <2>12, <2>13 DEF PathInv
<1>. QED
  BY <1>3, <1>9, <1>10

LEMMA RestartEnginePath ==
  ASSUME ClientInv, PathInv, RestartEngine
  PROVE  PathInv'
<1>1. /\ queue' = <<>> /\ orphans' = {} /\ restarts' = restarts + 1
      /\ handler' = [w \in Workers |-> "closed"]
      /\ up' = [w \in Workers |-> <<>>]
      /\ UNCHANGED <<requests, jobs, answers, down, taken>>
  BY DEF RestartEngine, NewServer, apiVars
<1>2. /\ taken \in Seq(Numbers) /\ queue \in Seq(Numbers)
      /\ Numbers' = Numbers
      /\ \A n : ToldOfItself(n)' <=> ToldOfItself(n)
  BY <1>1 DEF ClientInv, QueueInv, Numbers, ToldOfItself
<1>3. /\ Order' = taken /\ Arrived' \subseteq Arrived
      /\ DOMAIN taken \subseteq DOMAIN Order
      /\ \A i \in DOMAIN taken : Order[i] = taken[i]
  <2>1. Order' = taken
    BY <1>1, <1>2, ConcatEmptySeq DEF Order
  <2>2. /\ Len(taken) \in Nat /\ Len(queue) \in Nat /\ DOMAIN taken = 1 .. Len(taken)
        /\ DOMAIN Order = 1 .. Len(taken) + Len(queue)
        /\ \A i \in 1 .. Len(taken) : Order[i] = taken[i]
    BY <1>2, ConcatFacts, LenProperties DEF Order
  <2>3. DOMAIN taken \subseteq DOMAIN Order
    BY <2>2
  <2>. QED
    BY <2>1, <2>2, <2>3 DEF Arrived, Range
<1>4. restarts' \in Nat /\ restarts' # 0
  BY <1>1 DEF PathInv, AnswersInv
<1>5. JobsInv'
  BY <1>1, JobsKept DEF PathInv
<1>6. AnswersInv'
  BY <1>1, <1>4 DEF PathInv, AnswersInv
<1>7. Range(<<>>) = {} /\ \A w \in Workers : up'[w] = <<>>
  BY <1>1, NothingIn
<1>8. DownInv'
  <2>1. ASSUME NEW token, Served(token) PROVE Served(token)'
    BY <1>1, <1>2, <1>4, <1>7, <2>1 DEF Served
  <2>. QED
    BY <1>1, <2>1 DEF PathInv, DownInv
<1>9. SentInv'
  BY <1>1, <1>7 DEF SentInv
<1>10. InOrder(Order)'
  <2>1. InOrder(taken)
    BY <1>3 DEF PathInv, InOrder
  <2>. QED
    BY <1>1, <1>2, <1>3, <2>1 DEF InOrder
<1>. QED
  BY <1>5, <1>6, <1>8, <1>9, <1>10 DEF PathInv

----------------------------------------------------------------------------
(* Replies that can be told apart.                                          *)

\* At most one request is on its way on the connection, or its reply, whole or
\* without its length.
Waits(w, t) ==
  LET job == jobs[w][t] IN
  \/ job.step = "idle" /\ down[w] = <<>> /\ (handler[w] = "running" => up[w] = <<>>)
  \/ job.step = "length" /\ down[w] = <<>> /\ (handler[w] = "running" => up[w] = <<job.no>>)
  \/ /\ handler[w] = "running" => up[w] = <<>>
     /\ \E v \in Verdicts :
          \/ /\ job.step = "length"
             /\ down[w] = <<Token("length", job.no, v), Token("body", job.no, v)>>
          \/ /\ job.step = "body" /\ job.want = job.no
             /\ down[w] = <<Token("body", job.no, v)>>

MatchInv ==
  /\ \A w \in Workers : Ordered(w) => \A t \in Threads : Waits(w, t)
  /\ RepliesMatch

LEMMA FewFacts ==
  ASSUME NEW a, NEW b
  PROVE  /\ <<a>>[1] = a /\ Tail(<<a>>) = <<>> /\ <<a>> # <<>>
         /\ <<a, b>>[1] = a /\ Tail(<<a, b>>) = <<b>> /\ <<a, b>> # <<>>
OBVIOUS

LEMMA TokenFacts ==
  ASSUME NEW part, NEW no, NEW v
  PROVE  /\ Token(part, no, v).part = part /\ Token(part, no, v).no = no
         /\ Token(part, no, v).verdict = v
BY DEF Token

LEMMA InitialMatch ==
  ASSUME Init
  PROVE  MatchInv
<1>1. ASSUME NEW w \in Workers, NEW t \in Threads PROVE Waits(w, t)
  BY DEF Init, Waits, Idle
<1>2. RepliesMatch
  BY DEF Init, RepliesMatch
<1>. QED
  BY <1>1, <1>2 DEF MatchInv

LEMMA MatchKept ==
  ASSUME MatchInv, UNCHANGED <<apiVars, up, down, handler>>
  PROVE  MatchInv'
<1>1. UNCHANGED <<requests, jobs, answers>>
  BY DEF apiVars
<1>2. \A w \in Workers : Ordered(w)' <=> Ordered(w)
  BY <1>1 DEF Ordered
<1>3. \A w \in Workers, t \in Threads : Waits(w, t)' <=> Waits(w, t)
  BY <1>1 DEF Waits
<1>4. RepliesMatch'
  BY <1>1, <1>2 DEF MatchInv, RepliesMatch, Ordered
<1>. QED
  BY <1>1, <1>2, <1>3, <1>4 DEF MatchInv

LEMMA PostMatch ==
  ASSUME ClientInv, PathInv, MatchInv, NEW w \in Workers, NEW t \in Threads,
         NEW kind \in Kinds, NEW hash \in Nat, Post(w, t, kind, hash)
  PROVE  MatchInv'
<1>. DEFINE r == [kind |-> kind, hash |-> hash, worker |-> w]
            R == [kind : Kinds, hash : Nat, worker : Workers]
<1>0. PICK no : no = Len(requests) + 1
  OBVIOUS
<1>1. /\ jobs[w][t] = Idle /\ requests' = Append(requests, r)
      /\ \/ /\ \/ up' = [up EXCEPT ![w] = Append(@, no)]
               \/ handler[w] = "closed" /\ UNCHANGED up
            /\ jobs' = [jobs EXCEPT ![w][t] = Job("length", no, 0)]
            /\ answers' = Append(answers, Empty)
         \/ /\ answers' = Append(answers, Failed)
            /\ UNCHANGED <<up, jobs>>
      /\ UNCHANGED <<down, handler>>
  BY <1>0 DEF Post
<1>2. r \in R /\ r.worker = w /\ requests \in Seq(R)
  BY DEF ClientInv, RequestsInv
<1>. HIDE DEF r, R
<1>3. /\ Len(requests) \in Nat /\ Numbers = 1 .. Len(requests)
      /\ DOMAIN requests = Numbers /\ DOMAIN requests' = Numbers \cup {no}
      /\ requests'[no] = r /\ \A n \in Numbers : requests'[n] = requests[n]
  <2>1. /\ Len(requests) \in Nat /\ DOMAIN requests = 1 .. Len(requests)
        /\ DOMAIN Append(requests, r) = 1 .. Len(requests) + 1
        /\ Append(requests, r)[Len(requests) + 1] = r
        /\ \A n \in 1 .. Len(requests) : Append(requests, r)[n] = requests[n]
    BY <1>2, LastOfAppend
  <2>2. 1 .. Len(requests) + 1 = (1 .. Len(requests)) \cup {no}
    BY <1>0, <2>1
  <2>. QED
    BY <1>0, <1>1, <2>1, <2>2 DEF Numbers
<1>4. /\ DOMAIN answers = Numbers /\ DOMAIN answers' = Numbers \cup {no}
      /\ answers'[no] \in {Empty, Failed}
      /\ \A n \in Numbers : answers'[n] = answers[n]
  <2>1. /\ Empty \in Answers /\ Failed \in Answers /\ answers \in Seq(Answers)
        /\ Len(answers) = Len(requests)
    BY DEF Empty, Failed, Answer, Answers, PathInv, AnswersInv
  <2>2. ASSUME NEW a \in Answers, answers' = Append(answers, a)
        PROVE  /\ DOMAIN answers = Numbers /\ DOMAIN answers' = Numbers \cup {no}
               /\ answers'[no] = a /\ \A n \in Numbers : answers'[n] = answers[n]
    <3>1. /\ DOMAIN answers = 1 .. Len(requests)
          /\ DOMAIN answers' = 1 .. Len(requests) + 1
          /\ answers'[Len(requests) + 1] = a
          /\ \A n \in 1 .. Len(requests) : answers'[n] = answers[n]
      BY <2>1, <2>2, LastOfAppend
    <3>2. 1 .. Len(requests) + 1 = (1 .. Len(requests)) \cup {no}
      BY <1>0, <1>3
    <3>. QED
      BY <1>0, <1>3, <3>1, <3>2
  <2>. QED
    BY <1>1, <2>1, <2>2
<1>5. \A x \in Workers : Ordered(x)' => Ordered(x)
  BY <1>3 DEF Ordered
<1>6. RepliesMatch'
  <2>1. ASSUME NEW n \in Numbers, Ordered(requests[n].worker)'
        PROVE  Ordered(requests[n].worker)
    <3>1. requests[n] \in R /\ requests'[n] = requests[n]
      BY <1>2, <1>3, ElementOfSeq
    <3>2. PICK x \in Workers : x = requests[n].worker
      BY <3>1 DEF R
    <3>3. Ordered(x)'
      BY <2>1, <3>1, <3>2 DEF Ordered
    <3>. QED
      BY <1>5, <3>2, <3>3
  <2>. QED
    BY <1>3, <1>4, <2>1 DEF MatchInv, RepliesMatch
<1>7. ASSUME NEW x \in Workers, Ordered(x)', NEW u \in Threads
      PROVE  Waits(x, u)'
  <2>1. Waits(x, u)
    BY <1>5, <1>7 DEF MatchInv
  <2>2. CASE x # w
    <3>1. jobs'[x][u] = jobs[x][u] /\ up'[x] = up[x]
      BY <1>1, <2>2 DEF PathInv, JobsInv, ClientInv, UpInv
    <3>. QED
      BY <1>1, <2>1, <3>1 DEF Waits
  <2>3. CASE x = w
    <3>1. u = t
      BY <1>7 DEF Ordered
    <3>2. down[w] = <<>> /\ (handler[w] = "running" => up[w] = <<>>)
      <4>1. jobs[w][t].step = "idle" /\ Waits(w, t)
        BY <1>1, <2>1, <2>3, <3>1 DEF Idle
      <4>. QED
        BY <4>1 DEF Waits
    <3>3. CASE UNCHANGED <<up, jobs>>
      BY <1>1, <2>1, <3>3 DEF Waits
    <3>4. CASE /\ \/ up' = [up EXCEPT ![w] = Append(@, no)]
                  \/ handler[w] = "closed" /\ UNCHANGED up
               /\ jobs' = [jobs EXCEPT ![w][t] = Job("length", no, 0)]
      <4>1. jobs'[w][t].step = "length" /\ jobs'[w][t].no = no
        BY <3>4 DEF PathInv, JobsInv, Job
      <4>2. handler[w] = "running" => up'[w] = <<no>>
        BY <3>2, <3>4 DEF ClientInv, UpInv
      <4>. QED
        BY <1>1, <2>3, <3>1, <3>2, <4>1, <4>2 DEF Waits
    <3>. QED
      BY <1>1, <3>3, <3>4
  <2>. QED
    BY <2>2, <2>3
<1>. QED
  BY <1>6, <1>7 DEF MatchInv

LEMMA ReadMatch ==
  ASSUME ClientInv, PathInv, MatchInv, NEW w \in Workers, NEW t \in Threads,
         ReadLength(w, t) \/ ReadBody(w, t)
  PROVE  MatchInv'
<1>1. UNCHANGED <<requests, up, handler>>
  BY DEF ReadLength, ReadBody
<1>2. \A x : Ordered(x)' <=> Ordered(x)
  BY <1>1 DEF Ordered
<1>3. PICK no : no = jobs[w][t].no
  OBVIOUS
<1>4. /\ no \in Numbers /\ requests[no].worker = w /\ no \in Nat
      /\ Numbers = DOMAIN answers /\ jobs[w][t].step # "idle"
  <2>1. jobs[w][t].step # "idle" /\ Waiting(w, t)
    BY ReadIs DEF PathInv, JobsInv
  <2>2. no \in Numbers
    BY <1>3, <2>1 DEF Waiting
  <2>3. Numbers = DOMAIN answers /\ no \in Nat
    BY <2>2, OrderFacts, LenProperties DEF PathInv, AnswersInv, Numbers
  <2>. QED
    BY <1>3, <2>1, <2>2, <2>3 DEF Waiting
<1>5. /\ down \in [Workers -> Seq(Tokens)]
      /\ jobs \in [Workers -> [Threads ->
           [step : {"idle", "length", "body"}, no : Nat, want : Int]]]
  BY DEF PathInv, DownInv, JobsInv
<1>6. /\ \E left : down' = [down EXCEPT ![w] = left]
      /\ \E job : jobs' = [jobs EXCEPT ![w][t] = job]
      /\ answers' = answers \/ \E answer : answers' = [answers EXCEPT ![no] = answer]
  <2>1. \E left : down' = [down EXCEPT ![w] = left]
    BY ReadIs DEF Takes
  <2>2. CASE ReadsOn(w, t)
    <3>1. answers' = answers
      BY <2>2 DEF ReadsOn
    <3>2. \E job : jobs' = [jobs EXCEPT ![w][t] = job]
      BY <2>2 DEF ReadsOn
    <3>. QED
      BY <2>1, <3>1, <3>2
  <2>3. CASE IsTold(w, t)
    <3>1. PICK answer : Answered(w, t, answer)
      BY <2>3 DEF IsTold
    <3>2. answers' = [answers EXCEPT ![no] = answer]
      BY <1>3, <3>1 DEF Answered
    <3>3. jobs' = [jobs EXCEPT ![w][t] = Idle]
      BY <3>1 DEF Answered
    <3>. QED
      BY <2>1, <3>2, <3>3
  <2>. QED
    BY <2>2, <2>3, ReadIs
<1>7. /\ \A x \in Workers : x # w => down'[x] = down[x] /\ jobs'[x] = jobs[x]
      /\ DOMAIN answers' = DOMAIN answers
      /\ \A n \in Numbers : n # no => answers'[n] = answers[n]
  BY <1>4, <1>5, <1>6
<1>8. ASSUME Ordered(w)
      PROVE  /\ Waits(w, t)'
             /\ \/ answers' = answers
                \/ answers'[no] = Empty
                \/ answers'[no].of = no /\ answers'[no].verdict # "garbled"
  <2>1. Waits(w, t)
    BY <1>8 DEF MatchInv
  <2>2. CASE ReadLength(w, t)
    <3>1. jobs[w][t].step = "length"
      BY <2>2 DEF ReadLength
    <3>2. CASE down[w] = <<>>
      <4>1. /\ handler[w] = "closed" /\ Answered(w, t, Empty) /\ UNCHANGED down
        BY <2>2, <3>2 DEF ReadLength
      <4>2. jobs'[w][t].step = "idle"
        BY <1>5, <4>1 DEF Answered, Idle
      <4>3. answers'[no] = Empty
        BY <1>3, <1>4, <4>1 DEF Answered
      <4>. QED
        BY <1>1, <3>2, <4>1, <4>2, <4>3 DEF Waits
    <3>3. CASE down[w] # <<>>
      <4>1. PICK v \in Verdicts :
              /\ down[w] = <<Token("length", no, v), Token("body", no, v)>>
              /\ handler[w] = "running" => up[w] = <<>>
        BY <1>3, <2>1, <3>1, <3>3 DEF Waits
      <4>6. PICK len, body : len = Token("length", no, v) /\ body = Token("body", no, v)
        OBVIOUS
      <4>7. down[w] = <<len, body>>
        BY <4>1, <4>6
      <4>8. down[w][1] = len /\ Tail(down[w]) = <<body>>
        BY <4>7
      <4>2. down[w][1].part = "length" /\ down[w][1].no = no
        BY <4>6, <4>8, TokenFacts
      <4>3. /\ down' = [down EXCEPT ![w] = Tail(@)]
            /\ jobs' = [jobs EXCEPT ![w][t] = Job("body", no, no)]
            /\ answers' = answers
        BY <1>3, <2>2, <3>3, <4>2 DEF ReadLength
      <4>4. down'[w] = <<Token("body", no, v)>>
        BY <1>5, <4>3, <4>6, <4>8
      <4>5. jobs'[w][t].step = "body" /\ jobs'[w][t].no = no /\ jobs'[w][t].want = no
        BY <1>5, <4>3 DEF Job
      <4>. QED
        BY <1>1, <4>1, <4>3, <4>4, <4>5 DEF Waits
    <3>. QED
      BY <3>2, <3>3
  <2>3. CASE ReadBody(w, t)
    <3>1. jobs[w][t].step = "body"
      BY <2>3 DEF ReadBody
    <3>2. PICK v \in Verdicts :
            /\ down[w] = <<Token("body", no, v)>> /\ jobs[w][t].want = no
            /\ handler[w] = "running" => up[w] = <<>>
      BY <1>3, <2>1, <3>1 DEF Waits
    <3>3. /\ down[w] # <<>> /\ down[w][1].part = "body" /\ down[w][1].no = no
          /\ down[w][1].verdict = v /\ Tail(down[w]) = <<>>
      <4>1. PICK body : body = Token("body", no, v)
        OBVIOUS
      <4>3. down[w] = <<body>>
        BY <3>2, <4>1
      <4>2. down[w] # <<>> /\ down[w][1] = body /\ Tail(down[w]) = <<>>
        BY <4>3
      <4>. QED
        BY <4>1, <4>2, TokenFacts
    <3>4. /\ down' = [down EXCEPT ![w] = Tail(@)]
          /\ Answered(w, t, Answer(no, v))
      BY <2>3, <3>2, <3>3 DEF ReadBody
    <3>5. down'[w] = <<>>
      BY <1>5, <3>3, <3>4
    <3>6. jobs'[w][t].step = "idle"
      BY <1>5, <3>4 DEF Answered, Idle
    <3>7. answers'[no] = Answer(no, v)
      BY <1>3, <1>4, <3>4 DEF Answered
    <3>8. answers'[no].of = no /\ answers'[no].verdict # "garbled"
      <4>1. Answer(no, v).of = no /\ Answer(no, v).verdict = v
        BY DEF Answer
      <4>2. v # "garbled"
        BY DEF Verdicts
      <4>. QED
        BY <3>7, <4>1, <4>2
    <3>. QED
      BY <1>1, <3>2, <3>5, <3>6, <3>8 DEF Waits
  <2>. QED
    BY <2>2, <2>3
<1>9. ASSUME NEW x \in Workers, Ordered(x), NEW u \in Threads PROVE Waits(x, u)'
  <2>1. CASE x = w
    <3>1. u = t
      BY <1>9 DEF Ordered
    <3>. QED
      BY <1>8, <1>9, <2>1, <3>1
  <2>2. CASE x # w
    <3>1. Waits(x, u)
      BY <1>9 DEF MatchInv
    <3>. QED
      BY <1>1, <1>7, <2>2, <3>1 DEF Waits
  <2>. QED
    BY <2>1, <2>2
<1>10. ASSUME NEW n \in Numbers, Ordered(requests[n].worker), answers'[n] \notin {Failed, Empty}
       PROVE  answers'[n].of = n /\ answers'[n].verdict # "garbled"
  <2>1. answers'[n] = answers[n] => answers'[n].of = n /\ answers'[n].verdict # "garbled"
    BY <1>4, <1>10 DEF MatchInv, RepliesMatch
  <2>2. CASE n # no
    BY <1>7, <2>1, <2>2
  <2>3. CASE n = no
    BY <1>4, <1>8, <1>10, <2>1, <2>3
  <2>. QED
    BY <2>2, <2>3
<1>11. RepliesMatch'
  BY <1>1, <1>2, <1>4, <1>7, <1>10 DEF RepliesMatch, Ordered
<1>. QED
  BY <1>2, <1>9, <1>11 DEF MatchInv

LEMMA ServeMatch ==
  ASSUME ClientInv, PathInv, MatchInv, NEW w \in Workers, Serve(w)
  PROVE  MatchInv'
<1>0. PICK no : no = up[w][1]
  OBVIOUS
<1>1. /\ handler[w] = "running" /\ up[w] # <<>> /\ up' = [up EXCEPT ![w] = Tail(@)]
      /\ UNCHANGED <<requests, jobs, answers>>
      /\ \/ handler' = [handler EXCEPT ![w] = "dead"] /\ UNCHANGED down
         \/ /\ UNCHANGED handler
            /\ \E v \in Verdicts :
                 down' = [down EXCEPT ![w] = @ \o Reply(no, v)]
  BY <1>0 DEF Serve, apiVars, Verdicts
<1>2. /\ \A x : Ordered(x)' <=> Ordered(x)
      /\ DOMAIN requests = Numbers
  BY <1>1, LenProperties DEF Ordered, ClientInv, RequestsInv, Numbers
<1>3. /\ down \in [Workers -> Seq(Tokens)]
      /\ handler \in [Workers -> {"running", "dead", "closed"}]
      /\ up \in [Workers -> Seq(Numbers)]
  BY DEF PathInv, DownInv, SentInv, ClientInv, UpInv
<1>4. \A x \in Workers : x # w =>
        up'[x] = up[x] /\ down'[x] = down[x] /\ handler'[x] = handler[x]
  BY <1>1, <1>3
<1>5. ASSUME Ordered(w), NEW t \in Threads PROVE Waits(w, t)'
  <2>1. Waits(w, t)
    BY <1>5 DEF MatchInv
  <2>2. jobs[w][t].step = "length" /\ down[w] = <<>> /\ up[w] = <<jobs[w][t].no>>
    BY <1>1, <2>1 DEF Waits
  <2>3. up'[w] = <<>> /\ jobs[w][t].no = no
    <3>1. PICK n : n = jobs[w][t].no
      OBVIOUS
    <3>2. up[w][1] = n /\ Tail(up[w]) = <<>>
      BY <2>2, <3>1, FewFacts
    <3>. QED
      BY <1>0, <1>1, <1>3, <3>1, <3>2
  <2>4. CASE handler' = [handler EXCEPT ![w] = "dead"] /\ UNCHANGED down
    <3>1. handler'[w] = "dead"
      BY <1>3, <2>4
    <3>. QED
      BY <1>1, <2>2, <2>4, <3>1 DEF Waits
  <2>5. ASSUME NEW v \in Verdicts,
               down' = [down EXCEPT ![w] = @ \o Reply(no, v)]
        PROVE  Waits(w, t)'
    <3>1. no \in DOMAIN requests /\ requests[no].worker = w
      <4>1. no \in Range(up[w])
        BY <1>0, <1>1, <1>3, TailIn
      <4>. QED
        BY <1>2, <4>1, OrderFacts DEF PathInv, SentInv
    <3>2. ~LongerThanItsLength(no)
      BY <1>5, <3>1 DEF Ordered, LongerThanItsLength
    <3>3. PICK len, body : len = Token("length", no, v) /\ body = Token("body", no, v)
      OBVIOUS
    <3>4. no \in Nat
      <4>1. no \in Numbers
        BY <1>2, <3>1
      <4>2. Len(requests) \in Nat
        BY OrderFacts
      <4>. QED
        BY <4>1, <4>2 DEF Numbers
    <3>5. len \in Tokens /\ body \in Tokens
      BY <3>3, <3>4 DEF Token, Tokens
    <3>6. Reply(no, v) = <<len, body>> \o <<>>
      BY <3>2, <3>3 DEF Reply
    <3>7. Reply(no, v) = <<len, body>> /\ <<len, body>> \in Seq(Tokens)
      <4>1. <<len, body>> \in Seq(Tokens)
        BY <3>5, OneAndTwo
      <4>2. PICK r : r = <<len, body>>
        OBVIOUS
      <4>3. r \o <<>> = r
        BY <4>1, <4>2, ConcatEmptySeq
      <4>. QED
        BY <3>6, <4>1, <4>2, <4>3
    <3>8. down'[w] = <<>> \o <<len, body>>
      BY <1>3, <2>2, <2>5, <3>7
    <3>9. down'[w] = <<len, body>>
      BY <3>7, <3>8, ConcatEmptySeq
    <3>. QED
      BY <1>1, <2>2, <2>3, <3>3, <3>9 DEF Waits
  <2>. QED
    BY <1>1, <2>4, <2>5
<1>6. ASSUME NEW x \in Workers, Ordered(x), NEW u \in Threads PROVE Waits(x, u)'
  <2>1. CASE x = w
    BY <1>5, <1>6, <2>1
  <2>2. CASE x # w
    <3>1. Waits(x, u)
      BY <1>6 DEF MatchInv
    <3>. QED
      BY <1>1, <1>4, <2>2, <3>1 DEF Waits
  <2>. QED
    BY <2>1, <2>2
<1>7. RepliesMatch'
  BY <1>1, <1>2 DEF MatchInv, RepliesMatch, Ordered
<1>. QED
  BY <1>2, <1>6, <1>7 DEF MatchInv

LEMMA RestartWorkerMatch ==
  ASSUME PathInv, ClientInv, MatchInv, NEW w \in Workers, RestartWorker(w)
  PROVE  MatchInv'
<1>1. /\ jobs' = [jobs EXCEPT ![w] = [t \in Threads |-> Idle]]
      /\ answers' = [no \in DOMAIN answers |->
           IF \E t \in Threads : jobs[w][t].no = no THEN Failed ELSE answers[no]]
      /\ up' = [up EXCEPT ![w] = <<>>] /\ down' = [down EXCEPT ![w] = <<>>]
      /\ handler' = [x \in Workers |-> IF x = w THEN "running"
                                       ELSE IF handler[x] = "dead" THEN "closed"
                                       ELSE handler[x]]
      /\ UNCHANGED requests
  BY DEF RestartWorker, Connected
<1>2. \A x : Ordered(x)' <=> Ordered(x)
  BY <1>1 DEF Ordered
<1>3. /\ DOMAIN answers' = DOMAIN answers
      /\ \A n \in DOMAIN answers : answers'[n] \in {Failed, answers[n]}
  BY <1>1
<1>4. RepliesMatch'
  BY <1>1, <1>2, <1>3 DEF MatchInv, RepliesMatch, Ordered
<1>5. /\ up \in [Workers -> Seq(Numbers)] /\ down \in [Workers -> Seq(Tokens)]
      /\ jobs \in [Workers -> [Threads ->
           [step : {"idle", "length", "body"}, no : Nat, want : Int]]]
  BY DEF PathInv, DownInv, JobsInv, ClientInv, UpInv
<1>6. ASSUME NEW x \in Workers, Ordered(x), NEW u \in Threads PROVE Waits(x, u)'
  <2>1. CASE x = w
    <3>1. jobs'[w][u].step = "idle" /\ up'[w] = <<>> /\ down'[w] = <<>>
      BY <1>1, <1>5 DEF Idle
    <3>. QED
      BY <2>1, <3>1 DEF Waits
  <2>2. CASE x # w
    <3>1. Waits(x, u)
      BY <1>6 DEF MatchInv
    <3>2. /\ jobs'[x][u] = jobs[x][u] /\ up'[x] = up[x] /\ down'[x] = down[x]
          /\ handler'[x] = "running" => handler[x] = "running"
      BY <1>1, <1>5, <2>2
    <3>. QED
      BY <3>1, <3>2 DEF Waits
  <2>. QED
    BY <2>1, <2>2
<1>. QED
  BY <1>2, <1>4, <1>6 DEF MatchInv

LEMMA RestartEngineMatch ==
  ASSUME MatchInv, RestartEngine
  PROVE  MatchInv'
<1>1. /\ handler' = [w \in Workers |-> "closed"] /\ up' = [w \in Workers |-> <<>>]
      /\ UNCHANGED <<requests, jobs, answers, down>>
  BY DEF RestartEngine, NewServer, apiVars
<1>2. \A x : Ordered(x)' <=> Ordered(x)
  BY <1>1 DEF Ordered
<1>3. ASSUME NEW x \in Workers, Ordered(x), NEW u \in Threads PROVE Waits(x, u)'
  <2>1. Waits(x, u) /\ handler'[x] = "closed"
    BY <1>1, <1>3 DEF MatchInv
  <2>. QED
    BY <1>1, <2>1 DEF Waits
<1>4. RepliesMatch'
  BY <1>1, <1>2 DEF MatchInv, RepliesMatch, Ordered
<1>. QED
  BY <1>2, <1>3, <1>4 DEF MatchInv

----------------------------------------------------------------------------
(* The theorems of the second invariant.                                    *)

\* Who waits for what, what is on the wire, and in which order payloads arrive.
THEOREM PathInvariant == Spec => [](PathInv /\ MatchInv)
<1>. DEFINE I == PathInv /\ MatchInv
<1>1. Init => I
  BY InitialPath, InitialMatch
<1>2. ASSUME ClientInv, I, [Next]_vars PROVE I'
  <2>1. ASSUME NEW w \in Workers, NEW t \in Threads, Ask(w, t) PROVE I'
    <3>1. ASSUME NEW kind \in Kinds \ {"verify"}, Post(w, t, kind, 0) PROVE I'
      BY <1>2, <3>1, PostPath, PostMatch
    <3>2. ASSUME "verify" \in Kinds, NEW no \in DOMAIN requests, Post(w, t, "verify", no)
          PROVE  I'
      <4>1. no \in Nat
        BY <1>2, LenProperties DEF ClientInv, RequestsInv
      <4>. QED
        BY <1>2, <3>2, <4>1, PostPath, PostMatch
    <3>. QED
      BY <2>1, <3>1, <3>2 DEF Ask
  <2>2. ASSUME NEW w \in Workers, NEW t \in Threads, ReadLength(w, t) \/ ReadBody(w, t)
        PROVE  I'
    BY <1>2, <2>2, ReadPath, ReadMatch
  <2>3. ASSUME NEW w \in Workers, Serve(w) PROVE I'
    BY <1>2, <2>3, ServePath, ServeMatch
  <2>4. ASSUME NEW w \in Workers, RestartWorker(w) PROVE I'
    BY <1>2, <2>4, RestartWorkerPath, RestartWorkerMatch
  <2>5. ASSUME NEW no \in orphans, ServeOrphan(no) PROVE I'
    <3>1. UNCHANGED <<apiVars, up, down, handler>>
      BY <2>5 DEF ServeOrphan
    <3>. QED
      BY <1>2, <2>5, <3>1, ServeOrphanPath, MatchKept
  <2>6. CASE Insert(RoundIsFree)
    <3>1. UNCHANGED <<apiVars, wireVars, restarts>> /\ UNCHANGED <<up, down, handler>>
      BY <2>6 DEF Insert, wireVars
    <3>. QED
      BY <1>2, <2>6, <3>1, PathKept, InsertKeepsOrder, MatchKept
  <2>7. CASE Commit(TRUE) \/ Commit(FALSE)
    <3>1. /\ UNCHANGED <<apiVars, wireVars, restarts>> /\ UNCHANGED <<up, down, handler>>
          /\ UNCHANGED <<queue, taken>>
      BY <2>7 DEF Commit, wireVars
    <3>2. Order' = Order
      BY <3>1 DEF Order
    <3>. QED
      BY <1>2, <3>1, <3>2, PathKept, MatchKept
  <2>8. CASE RestartEngine
    BY <1>2, <2>8, RestartEnginePath, RestartEngineMatch
  <2>9. CASE UNCHANGED vars
    <3>1. /\ UNCHANGED <<apiVars, wireVars, restarts>> /\ UNCHANGED <<up, down, handler>>
          /\ UNCHANGED <<queue, taken>>
      BY <2>9 DEF vars, wireVars
    <3>2. Order' = Order
      BY <3>1 DEF Order
    <3>. QED
      BY <1>2, <3>1, <3>2, PathKept, MatchKept
  <2>. HIDE DEF I
  <2>. QED
    BY <1>2, <2>1, <2>2, <2>3, <2>4, <2>5, <2>6, <2>7, <2>8, <2>9 DEF Next
<1>. QED
  BY <1>1, <1>2, ClientInvariant, PTL DEF Spec

\* A payload is handed to the engine at most once and in the order in which its
\* worker sent it, unless its request failed or was answered with the reply to
\* another; and a payload that was sent back is with the engine.
THEOREM PayloadsInOrderHolds == Spec => []PayloadsInOrder
<1>1. ASSUME ClientInv, PathInv, IsInjective(taken \o queue) PROVE PayloadsInOrder
  <2>1. DOMAIN answers = Numbers
    BY <1>1, LenProperties DEF PathInv, AnswersInv, Numbers
  <2>2. restarts = 0 => \A no \in DOMAIN answers :
          answers[no] = Answer(no, "payload") => no \in Range(taken \o queue)
    BY <1>1, <2>1 DEF PathInv, AnswersInv, Arrived, Order
  <2>. QED
    BY <1>1, <2>2 DEF PathInv, InOrder, Order, PayloadsInOrder
<1>. QED
  BY <1>1, ClientInvariant, PathInvariant, HandedOnce, PTL

\* On a connection used by one thread at a time, whose replies are as long as
\* they say, every client gets the reply to its own request, whatever is
\* restarted.
THEOREM RepliesMatchHolds == Spec => []RepliesMatch
<1>1. MatchInv => RepliesMatch
  BY DEF MatchInv
<1>. QED
  BY <1>1, PathInvariant, PTL
=============================================================================
