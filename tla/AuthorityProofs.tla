--------------------------- MODULE AuthorityProofs ---------------------------
(***************************************************************************)
(* Proofs about Authority, for any number of threads, nodes, versions,     *)
(* resets, engines and restarts.                                           *)
(***************************************************************************)
EXTENDS Authority, TLAPS, SequenceTheorems

----------------------------------------------------------------------------
(* Sequences without repetition.                                            *)

\* What list.append does to a list that lacks the element.
LEMMA AppendFacts ==
  ASSUME NEW S, NEW s \in Seq(S), NEW e \in S, IsInjective(s), e \notin Range(s)
  PROVE  /\ Append(s, e) \in Seq(S)
         /\ IsInjective(Append(s, e))
         /\ Range(Append(s, e)) = Range(s) \cup {e}
<1>. DEFINE t == Append(s, e)
<1>1. /\ t \in Seq(S) /\ Len(t) = Len(s) + 1 /\ Len(s) \in Nat
      /\ DOMAIN t = 1 .. Len(s) + 1 /\ DOMAIN s = 1 .. Len(s)
      /\ \A i \in 1 .. Len(s) : t[i] = s[i]
      /\ t[Len(s) + 1] = e
  OBVIOUS
<1>2. \A i \in DOMAIN s : s[i] # e
  BY DEF Range
<1>3. IsInjective(t)
  BY <1>1, <1>2 DEF IsInjective
<1>4. Range(t) = Range(s) \cup {e}
  BY <1>1 DEF Range
<1>. QED
  BY <1>1, <1>3, <1>4

\* The list without its i-th element.
LEMMA RemoveAtFacts ==
  ASSUME NEW S, NEW s \in Seq(S), NEW i \in 1 .. Len(s)
  PROVE  /\ RemoveAt(s, i) \in Seq(S)
         /\ Len(RemoveAt(s, i)) = Len(s) - 1
         /\ \A j \in 1 .. Len(s) - 1 :
              RemoveAt(s, i)[j] = IF j < i THEN s[j] ELSE s[j + 1]
<1>. DEFINE n == Len(s)
            a == SubSeq(s, 1, i - 1)
            b == SubSeq(s, i + 1, n)
            r == RemoveAt(s, i)
<1>1. n \in Nat /\ i \in 1 .. n /\ \A j \in 1 .. n : s[j] \in S
  BY ElementOfSeq
<1>. HIDE DEF n, a, b, r
<1>2. /\ a \in Seq(S)
      /\ Len(a) = IF 1 <= i - 1 THEN i - 1 - 1 + 1 ELSE 0
      /\ \A j \in 1 .. i - 1 - 1 + 1 : a[j] = s[1 + j - 1]
  <2>1. 1 \in Int /\ i - 1 \in Int /\ \A j \in 1 .. i - 1 : s[j] \in S
    BY <1>1
  <2>. QED
    BY <2>1, SubSeqProperties DEF a
<1>3. /\ b \in Seq(S)
      /\ Len(b) = IF i + 1 <= n THEN n - (i + 1) + 1 ELSE 0
      /\ \A j \in 1 .. n - (i + 1) + 1 : b[j] = s[i + 1 + j - 1]
  <2>1. i + 1 \in Int /\ n \in Int /\ \A j \in i + 1 .. n : s[j] \in S
    BY <1>1
  <2>. QED
    BY <2>1, SubSeqProperties DEF b
<1>4. Len(a) = i - 1 /\ Len(b) = n - i
  BY <1>1, <1>2, <1>3
<1>5. /\ r \in Seq(S) /\ Len(r) = Len(a) + Len(b)
      /\ \A j \in 1 .. Len(a) + Len(b) :
           r[j] = IF j <= Len(a) THEN a[j] ELSE b[j - Len(a)]
  <2>1. r = a \o b
    BY DEF r, a, b, n, RemoveAt
  <2>. QED
    BY <1>2, <1>3, <2>1, ConcatProperties
<1>6. Len(r) = n - 1
  BY <1>1, <1>4, <1>5
<1>7. ASSUME NEW j \in 1 .. n - 1
      PROVE  r[j] = IF j < i THEN s[j] ELSE s[j + 1]
  <2>1. r[j] = IF j <= i - 1 THEN a[j] ELSE b[j - (i - 1)]
    BY <1>1, <1>4, <1>5
  <2>2. CASE j < i
    <3>1. j \in 1 .. i - 1 - 1 + 1 /\ 1 + j - 1 = j /\ j <= i - 1
      BY <1>1, <2>2
    <3>. QED
      BY <1>2, <2>1, <2>2, <3>1
  <2>3. CASE ~(j < i)
    <3>1. j - (i - 1) \in 1 .. n - (i + 1) + 1 /\ i + 1 + (j - (i - 1)) - 1 = j + 1
          /\ ~(j <= i - 1)
      BY <1>1, <2>3
    <3>. QED
      BY <1>3, <2>1, <2>3, <3>1
  <2>. QED
    BY <2>2, <2>3
<1>. QED
  BY <1>5, <1>6, <1>7 DEF r, n

\* What list.remove does.
LEMMA RemoveFirstFacts ==
  ASSUME NEW S, NEW s \in Seq(S), NEW e, IsInjective(s)
  PROVE  /\ RemoveFirst(s, e) \in Seq(S)
         /\ IsInjective(RemoveFirst(s, e))
         /\ Range(RemoveFirst(s, e)) = Range(s) \ {e}
<1>1. CASE ~ \E i \in 1 .. Len(s) : s[i] = e
  <2>1. RemoveFirst(s, e) = s
    BY <1>1 DEF RemoveFirst
  <2>2. e \notin Range(s)
    BY <1>1 DEF Range
  <2>. QED
    BY <2>1, <2>2
<1>2. ASSUME NEW i \in 1 .. Len(s), s[i] = e
      PROVE  /\ RemoveFirst(s, e) \in Seq(S)
             /\ IsInjective(RemoveFirst(s, e))
             /\ Range(RemoveFirst(s, e)) = Range(s) \ {e}
  <2>. DEFINE n == Len(s)
              r == RemoveAt(s, i)
  <2>1. n \in Nat /\ DOMAIN s = 1 .. n /\ i \in 1 .. n
    OBVIOUS
  <2>2. \A j \in 1 .. n : s[j] = e <=> j = i
    BY <1>2, <2>1 DEF IsInjective
  <2>3. {j \in 1 .. n : s[j] = e} = {i}
    BY <2>1, <2>2
  <2>4. Min({i}) = i
    BY <2>1 DEF Min
  <2>5. RemoveFirst(s, e) = r
    BY <1>2, <2>3, <2>4 DEF RemoveFirst, SelectInSeq
  <2>6. /\ r \in Seq(S) /\ Len(r) = n - 1
        /\ \A j \in 1 .. n - 1 : r[j] = IF j < i THEN s[j] ELSE s[j + 1]
    BY RemoveAtFacts
  <2>7. DOMAIN r = 1 .. n - 1
    BY <2>6
  <2>. HIDE DEF r, n
  <2>8. ASSUME NEW j \in DOMAIN r, NEW k \in DOMAIN r, r[j] = r[k]
        PROVE  j = k
    <3>. DEFINE at(l) == IF l < i THEN l ELSE l + 1
    <3>1. at(j) \in DOMAIN s /\ at(k) \in DOMAIN s
      BY <2>1, <2>7
    <3>2. r[j] = s[at(j)] /\ r[k] = s[at(k)]
      BY <2>6, <2>7
    <3>3. at(j) = at(k)
      BY <2>8, <3>1, <3>2 DEF IsInjective
    <3>. QED
      BY <2>1, <2>7, <3>3
  <2>9. ASSUME NEW j \in DOMAIN r PROVE r[j] \in Range(s) \ {e}
    <3>1. CASE j < i
      <4>1. j \in 1 .. n /\ j # i /\ r[j] = s[j]
        BY <2>1, <2>6, <2>7, <3>1
      <4>. QED
        BY <2>1, <2>2, <4>1 DEF Range
    <3>2. CASE ~(j < i)
      <4>1. j + 1 \in 1 .. n /\ j + 1 # i /\ r[j] = s[j + 1]
        BY <2>1, <2>6, <2>7, <3>2
      <4>. QED
        BY <2>1, <2>2, <4>1 DEF Range
    <3>. QED
      BY <3>1, <3>2
  <2>10. ASSUME NEW x \in Range(s) \ {e} PROVE x \in Range(r)
    <3>1. PICK j \in 1 .. n : s[j] = x /\ j # i
      BY <1>2, <2>1, <2>10 DEF Range
    <3>2. CASE j < i
      <4>1. j \in 1 .. n - 1 /\ r[j] = x
        BY <2>1, <2>6, <3>1, <3>2
      <4>. QED
        BY <2>7, <4>1 DEF Range
    <3>3. CASE ~(j < i)
      <4>1. j - 1 \in 1 .. n - 1 /\ ~(j - 1 < i) /\ j - 1 + 1 = j
        BY <2>1, <3>1, <3>3
      <4>2. r[j - 1] = x
        BY <2>6, <3>1, <4>1
      <4>. QED
        BY <2>7, <4>1, <4>2 DEF Range
    <3>. QED
      BY <3>2, <3>3
  <2>11. Range(r) = Range(s) \ {e}
    BY <2>9, <2>10 DEF Range
  <2>. QED
    BY <2>5, <2>6, <2>8, <2>11 DEF IsInjective
<1>. QED
  BY <1>1, <1>2

LEMMA ConcatFacts ==
  ASSUME NEW S, NEW s \in Seq(S), NEW t \in Seq(S)
  PROVE  /\ Range(s \o t) = Range(s) \cup Range(t)
         /\ IsInjective(s \o t) <=>
              IsInjective(s) /\ IsInjective(t) /\ Range(s) \cap Range(t) = {}
<1>. DEFINE r == s \o t
<1>1. /\ Len(s) \in Nat /\ Len(t) \in Nat
      /\ DOMAIN s = 1 .. Len(s) /\ DOMAIN t = 1 .. Len(t)
      /\ DOMAIN r = 1 .. Len(s) + Len(t)
      /\ \A i \in 1 .. Len(s) : r[i] = s[i]
      /\ \A i \in 1 .. Len(t) : r[Len(s) + i] = t[i]
      /\ \A i \in DOMAIN r : i > Len(s) => i - Len(s) \in 1 .. Len(t) /\ r[i] = t[i - Len(s)]
  <2>1. /\ r \in Seq(S) /\ Len(r) = Len(s) + Len(t)
        /\ \A i \in 1 .. Len(s) + Len(t) :
             r[i] = IF i <= Len(s) THEN s[i] ELSE t[i - Len(s)]
    BY ConcatProperties
  <2>. QED
    BY <2>1
<1>. HIDE DEF r
<1>2. Range(r) = Range(s) \cup Range(t)
  <2>1. ASSUME NEW i \in DOMAIN r PROVE r[i] \in Range(s) \cup Range(t)
    <3>1. CASE i > Len(s)
      BY <1>1, <3>1 DEF Range
    <3>2. CASE ~(i > Len(s))
      <4>1. i \in DOMAIN s /\ r[i] = s[i]
        BY <1>1, <3>2
      <4>. QED
        BY <4>1 DEF Range
    <3>. QED
      BY <3>1, <3>2
  <2>2. \A i \in DOMAIN s : s[i] \in Range(r)
    BY <1>1 DEF Range
  <2>3. \A i \in DOMAIN t : Len(s) + i \in DOMAIN r /\ t[i] = r[Len(s) + i]
    BY <1>1
  <2>. QED
    BY <2>1, <2>2, <2>3 DEF Range
<1>3. ASSUME IsInjective(r)
      PROVE  IsInjective(s) /\ IsInjective(t) /\ Range(s) \cap Range(t) = {}
  <2>1. IsInjective(s)
    BY <1>1, <1>3 DEF IsInjective
  <2>2. ASSUME NEW i \in DOMAIN t, NEW j \in DOMAIN t, t[i] = t[j] PROVE i = j
    <3>1. Len(s) + i \in DOMAIN r /\ Len(s) + j \in DOMAIN r
      BY <1>1
    <3>2. r[Len(s) + i] = r[Len(s) + j]
      BY <1>1, <2>2
    <3>3. Len(s) + i = Len(s) + j
      BY <1>3, <3>1, <3>2 DEF IsInjective
    <3>. QED
      BY <1>1, <3>3
  <2>3. ASSUME NEW i \in DOMAIN s, NEW j \in DOMAIN t, s[i] = t[j] PROVE FALSE
    <3>1. i \in DOMAIN r /\ Len(s) + j \in DOMAIN r /\ i # Len(s) + j
      BY <1>1
    <3>2. r[i] = r[Len(s) + j]
      BY <1>1, <2>3
    <3>. QED
      BY <1>3, <3>1, <3>2 DEF IsInjective
  <2>. QED
    BY <2>1, <2>2, <2>3 DEF IsInjective, Range
<1>4. ASSUME IsInjective(s), IsInjective(t), Range(s) \cap Range(t) = {},
             NEW i \in DOMAIN r, NEW j \in DOMAIN r, r[i] = r[j]
      PROVE  i = j
  <2>1. \A k \in DOMAIN s, l \in DOMAIN t : s[k] # t[l]
    BY <1>4 DEF Range
  <2>2. CASE i <= Len(s) /\ j <= Len(s)
    BY <1>1, <1>4, <2>2 DEF IsInjective
  <2>3. CASE i > Len(s) /\ j > Len(s)
    <3>1. t[i - Len(s)] = t[j - Len(s)] /\ i - Len(s) \in DOMAIN t /\ j - Len(s) \in DOMAIN t
      BY <1>1, <1>4, <2>3
    <3>2. i - Len(s) = j - Len(s)
      BY <1>4, <3>1 DEF IsInjective
    <3>. QED
      BY <1>1, <3>2
  <2>4. CASE i <= Len(s) /\ j > Len(s)
    BY <1>1, <1>4, <2>1, <2>4
  <2>5. CASE i > Len(s) /\ j <= Len(s)
    BY <1>1, <1>4, <2>1, <2>5
  <2>. QED
    BY <1>1, <2>2, <2>3, <2>4, <2>5
<1>5. IsInjective(s) /\ IsInjective(t) /\ Range(s) \cap Range(t) = {} => IsInjective(r)
  BY <1>4 DEF IsInjective
<1>. QED
  BY <1>2, <1>3, <1>5 DEF r

----------------------------------------------------------------------------
(* The invariant of the stored configurations and of the requests.          *)

NodeRecords == [id : Nat, key : Nat \cup NewKeys]

Configs ==
  [node_set : Seq(NodeRecords), writer_list : Seq(Nat), reader_list : Seq(Nat)]

Jobs ==
  [op : {"none", "activate", "deactivate", "add"},
   step : {"idle", "new_id", "read", "check", "number", "insert"},
   id : Nat, list : {"writer", "reader", "none"}, key : Nat \cup NewKeys,
   conf : Configs, number : Nat]

\* A configuration that lists no node twice, and none that was never added.
Sound(c) ==
  /\ IsInjective(Listed(c))
  /\ \A id \in Range(Listed(c)) :
       \E w \in DOMAIN configs : id \in IdsOf(configs[w])

\* The configuration does what the request, or the answer to it, is about.
Own(j, c) == IF j.list = "writer" THEN c.writer_list ELSE c.reader_list

Does(j, c) ==
  /\ j.op = "activate" => j.id \in Range(Own(j, c))
  /\ j.op = "deactivate" => j.id \notin Range(Own(j, c))

JobOK(j) ==
  /\ j \in Jobs
  /\ j.step = "check" => j.op # "add"
  /\ j.step \in {"check", "number", "insert"} => Sound(j.conf)
  /\ j.step \in {"number", "insert"} => Does(j, j.conf)
  /\ j.step = "insert" => j.number \in 1 .. LatestId + 1

VersionsInv == LatestId \in Nat \ {0} /\ DOMAIN configs = 1 .. LatestId

AnswersInv ==
  \A a \in answers :
    /\ a.version \in DOMAIN configs
    /\ Does(a, configs[a.version])
    /\ \A b \in answers : b.version = a.version => b = a

\* A thread that is about to insert may hold a number that is taken by now, but
\* none that would leave a gap; what it holds is sound although what it has read
\* may have been replaced since.
ConfigInv ==
  /\ VersionsInv
  /\ \A v \in DOMAIN configs : configs[v] \in Configs
  /\ ListsAreSound
  /\ DOMAIN job = Threads \cup {Operator}
  /\ \A t \in Threads : JobOK(job[t])
  /\ AnswersInv

LEMMA LatestOfRange == ASSUME NEW k \in Nat \ {0} PROVE Max(1 .. k) = k
<1>1. k \in 1 .. k /\ \A x \in 1 .. k : k >= x
  OBVIOUS
<1>2. \A x \in 1 .. k : (\A y \in 1 .. k : x >= y) => x = k
  OBVIOUS
<1>. QED
  BY <1>1, <1>2 DEF Max

LEMMA ListedFacts ==
  ASSUME NEW c \in Configs
  PROVE  /\ c.writer_list \in Seq(Nat) /\ c.reader_list \in Seq(Nat)
         /\ Range(Listed(c)) = Range(c.writer_list) \cup Range(c.reader_list)
         /\ IsInjective(Listed(c)) <=>
              /\ IsInjective(c.writer_list) /\ IsInjective(c.reader_list)
              /\ Range(c.writer_list) \cap Range(c.reader_list) = {}
<1>1. c.writer_list \in Seq(Nat) /\ c.reader_list \in Seq(Nat)
  BY DEF Configs
<1>. QED
  BY <1>1, ConcatFacts DEF Listed

LEMMA NoJobOK == JobOK(NoJob)
<1>1. Config(<<>>, <<>>, <<>>) \in Configs
  BY DEF Config, Configs
<1>. QED
  BY <1>1 DEF JobOK, NoJob, Job, Jobs

LEMMA LatestSound ==
  ASSUME ConfigInv
  PROVE  Latest \in Configs /\ Sound(Latest)
<1>1. LatestId \in DOMAIN configs
  BY DEF ConfigInv, VersionsInv
<1>. QED
  BY <1>1 DEF ConfigInv, ListsAreSound, Latest, Sound

LEMMA InitConfigInv == Init => ConfigInv
<1>. SUFFICES ASSUME Init PROVE ConfigInv
  OBVIOUS
<1>. USE AuthorityAssumption
<1>. DEFINE nodes == [i \in 1 .. InitialNodes |-> Node(i, i)]
            first == Config(nodes, InitialWriters, <<>>)
<1>1. DOMAIN configs = 1 .. 1 /\ configs[1] = first
  BY DEF Init
<1>2. LatestId = 1 /\ VersionsInv
  <2>1. 1 \in Nat \ {0}
    OBVIOUS
  <2>2. Max(1 .. 1) = 1
    BY <2>1, LatestOfRange, Zenon
  <2>3. LatestId = 1
    BY <1>1, <2>2 DEF LatestId
  <2>. QED
    BY <1>1, <2>3 DEF VersionsInv
<1>3. first \in Configs
  <2>1. nodes \in Seq(NodeRecords)
    BY DEF Node, NodeRecords
  <2>2. InitialWriters \in Seq(Nat)
    BY SeqMonotonic
  <2>. QED
    BY <2>1, <2>2 DEF Config, Configs
<1>4. IsInjective(Listed(first)) /\ Range(Listed(first)) = Range(InitialWriters)
  <2>1. IsInjective(<<>>) /\ Range(<<>>) = {}
    BY DEF IsInjective, Range
  <2>. QED
    BY <1>3, <2>1, ListedFacts DEF Config
<1>5. Range(InitialWriters) \subseteq IdsOf(first)
  <2>1. Range(InitialWriters) \subseteq 1 .. InitialNodes
    BY ElementOfSeq DEF Range
  <2>2. \A i \in 1 .. InitialNodes : nodes[i] \in Range(nodes) /\ nodes[i].id = i
    BY DEF Range, Node
  <2>. QED
    BY <2>1, <2>2 DEF IdsOf, Config
<1>6. ListsAreSound
  BY <1>1, <1>4, <1>5 DEF ListsAreSound
<1>. QED
  BY <1>1, <1>2, <1>3, <1>6, NoJobOK DEF Init, ConfigInv, AnswersInv

----------------------------------------------------------------------------
(* The steps of requests.                                                   *)

\* A step that concerns one request only and stores nothing.
LEMMA JobStep ==
  ASSUME ConfigInv, NEW t \in Threads, NEW j, JobOK(j),
         job' = [job EXCEPT ![t] = j], UNCHANGED storeVars
  PROVE  ConfigInv'
<1>. USE DEF storeVars
<1>1. LatestId' = LatestId /\ VersionsInv' /\ ListsAreSound' /\ AnswersInv'
  BY DEF ConfigInv, LatestId, VersionsInv, ListsAreSound, AnswersInv
<1>2. ASSUME NEW i, JobOK(i) PROVE JobOK(i)'
  BY <1>1, <1>2 DEF JobOK, Sound
<1>3. \A u \in Threads : JobOK(job'[u])
  BY DEF ConfigInv
<1>4. \A u \in Threads : JobOK(job[u])'
  BY <1>2, <1>3
<1>. QED
  BY <1>1, <1>4 DEF ConfigInv

LEMMA TakeRequestInv ==
  ASSUME ConfigInv, NEW t \in Threads, TakeRequest(t)
  PROVE  ConfigInv'
<1>1. PICK r \in ListRequests \cup AddRequests : job' = [job EXCEPT ![t] = r]
  BY DEF TakeRequest
<1>2. Config(<<>>, <<>>, <<>>) \in Configs
  BY DEF Config, Configs
<1>3. JobOK(r)
  BY <1>1, <1>2, AuthorityAssumption
     DEF ListRequests, AddRequests, Job, Jobs, JobOK
<1>. QED
  BY <1>1, <1>3, JobStep DEF TakeRequest

LEMMA RefuseInv ==
  ASSUME ConfigInv, NEW t \in Threads, Refuse(t)
  PROVE  ConfigInv'
  BY NoJobOK, JobStep DEF Refuse

LEMMA GetNewNodeIdInv ==
  ASSUME ConfigInv, NEW t \in Threads, GetNewNodeId(t)
  PROVE  ConfigInv'
<1>. DEFINE j == [job[t] EXCEPT !.id = NewNodeId, !.step = "read"]
<1>1. t \in DOMAIN job /\ job[t] \in Jobs
  BY DEF ConfigInv, JobOK
<1>2. NewNodeId \in Nat
  BY LatestSound DEF NewNodeId, Configs
<1>3. JobOK(j)
  BY <1>1, <1>2 DEF JobOK, Jobs
<1>4. job' = [job EXCEPT ![t] = j]
  BY <1>1 DEF GetNewNodeId
<1>. QED
  BY <1>3, <1>4, JobStep DEF GetNewNodeId

LEMMA ReadConfigInv ==
  ASSUME ConfigInv, NEW t \in Threads, ReadConfig(t)
  PROVE  ConfigInv'
<1>. DEFINE j == [job[t] EXCEPT !.conf = Latest, !.step = "check"]
<1>1. t \in DOMAIN job /\ job[t] \in Jobs
  BY DEF ConfigInv, JobOK
<1>2. JobOK(j)
  BY <1>1, LatestSound DEF JobOK, Jobs, ReadConfig
<1>3. job' = [job EXCEPT ![t] = j]
  BY <1>1 DEF ReadConfig
<1>. QED
  BY <1>2, <1>3, JobStep DEF ReadConfig

\* The change a request asks for keeps the copy sound, although whether the node
\* exists was looked up in a newer version.
LEMMA ChangedFacts ==
  ASSUME ConfigInv, NEW j \in Jobs, Sound(j.conf), j.op # "add",
         NodeExists(j.id), Applies(j)
  PROVE  Changed(j) \in Configs /\ Sound(Changed(j)) /\ Does(j, Changed(j))
<1>. DEFINE c == j.conf
            own == Own(j, c)
            other == IF j.list = "writer" THEN c.reader_list ELSE c.writer_list
            own2 == IF j.op = "activate" THEN Append(own, j.id) ELSE RemoveFirst(own, j.id)
            other2 == IF j.op = "activate" THEN RemoveFirst(other, j.id) ELSE other
            d == Changed(j)
<1>1. c \in Configs /\ j.id \in Nat
  BY DEF Jobs
<1>2. /\ own \in Seq(Nat) /\ IsInjective(own)
      /\ other \in Seq(Nat) /\ IsInjective(other)
      /\ Range(own) \cap Range(other) = {}
      /\ Range(Listed(c)) = Range(own) \cup Range(other)
  BY <1>1, ListedFacts DEF Own, Sound
<1>3. ListsOf(j)[1] = own /\ ListsOf(j)[2] = other
  BY DEF ListsOf, Own
<1>4. d = WithLists(j, own2, other2)
  BY <1>3 DEF Changed
<1>5. /\ own2 \in Seq(Nat) /\ IsInjective(own2)
      /\ Range(own2) = IF j.op = "activate" THEN Range(own) \cup {j.id}
                       ELSE Range(own) \ {j.id}
  <2>1. CASE j.op = "activate"
    <3>1. j.id \notin Range(own)
      BY <1>3, <2>1 DEF Applies
    <3>. QED
      BY <1>1, <1>2, <2>1, <3>1, AppendFacts
  <2>2. CASE j.op # "activate"
    BY <1>2, <2>2, RemoveFirstFacts
  <2>. QED
    BY <2>1, <2>2
<1>6. /\ other2 \in Seq(Nat) /\ IsInjective(other2)
      /\ Range(other2) = IF j.op = "activate" THEN Range(other) \ {j.id}
                         ELSE Range(other)
  <2>1. CASE j.op = "activate"
    BY <1>2, <2>1, RemoveFirstFacts
  <2>2. CASE j.op # "activate"
    BY <1>2, <2>2
  <2>. QED
    BY <2>1, <2>2
<1>. HIDE DEF own, other, own2, other2
<1>7. Range(own2) \cap Range(other2) = {}
  BY <1>2, <1>5, <1>6
<1>8. Range(own2) \cup Range(other2) \subseteq Range(Listed(c)) \cup {j.id}
  BY <1>2, <1>5, <1>6
<1>9. /\ d \in Configs /\ Own(j, d) = own2
      /\ \/ d.writer_list = own2 /\ d.reader_list = other2
         \/ d.writer_list = other2 /\ d.reader_list = own2
  <2>1. c.node_set \in Seq(NodeRecords)
    BY <1>1 DEF Configs
  <2>2. CASE j.list = "writer"
    <3>1. d = Config(c.node_set, own2, other2)
      BY <1>4, <2>2 DEF WithLists
    <3>. QED
      BY <1>5, <1>6, <2>1, <2>2, <3>1 DEF Config, Configs, Own
  <2>3. CASE j.list # "writer"
    <3>1. d = Config(c.node_set, other2, own2)
      BY <1>4, <2>3 DEF WithLists
    <3>. QED
      BY <1>5, <1>6, <2>1, <2>3, <3>1 DEF Config, Configs, Own
  <2>. QED
    BY <2>2, <2>3
<1>10. IsInjective(Listed(d)) /\ Range(Listed(d)) = Range(own2) \cup Range(other2)
  BY <1>5, <1>6, <1>7, <1>9, ListedFacts
<1>11. \E w \in DOMAIN configs : j.id \in IdsOf(configs[w])
  <2>1. LatestId \in DOMAIN configs
    BY DEF ConfigInv, VersionsInv
  <2>2. j.id \in IdsOf(Latest)
    BY DEF NodeExists, IdsOf, Range
  <2>. QED
    BY <2>1, <2>2 DEF Latest
<1>12. Sound(d)
  BY <1>8, <1>10, <1>11 DEF Sound
<1>13. Does(j, d)
  BY <1>5, <1>9 DEF Does
<1>. QED
  BY <1>9, <1>12, <1>13

LEMMA ChangeListsInv ==
  ASSUME ConfigInv, NEW t \in Threads, ChangeLists(t)
  PROVE  ConfigInv'
<1>1. CASE Refuse(t)
  BY <1>1, RefuseInv
<1>2. ASSUME NodeExists(job[t].id), Applies(job[t]), UNCHANGED storeVars,
             job' = [job EXCEPT ![t].conf = Changed(job[t]), ![t].step = "number"]
      PROVE  ConfigInv'
  <2>. DEFINE c == Changed(job[t])
              j == [job[t] EXCEPT !.conf = c, !.step = "number"]
  <2>1. /\ t \in DOMAIN job /\ job[t] \in Jobs /\ Sound(job[t].conf)
        /\ job[t].op # "add"
    BY DEF ConfigInv, JobOK, ChangeLists
  <2>2. c \in Configs /\ Sound(c) /\ Does(job[t], c)
    BY <1>2, <2>1, ChangedFacts
  <2>3. job' = [job EXCEPT ![t] = j]
    BY <1>2, <2>1
  <2>. HIDE DEF c
  <2>4. /\ j \in Jobs /\ j.conf = c /\ j.step = "number"
        /\ j.op = job[t].op /\ j.id = job[t].id /\ j.list = job[t].list
    BY <2>1, <2>2 DEF Jobs
  <2>5. JobOK(j)
    BY <2>2, <2>4 DEF JobOK, Does, Own
  <2>. QED
    BY <1>2, <2>3, <2>5, JobStep
<1>. QED
  BY <1>1, <1>2 DEF ChangeLists

LEMMA AddToNodeSetInv ==
  ASSUME ConfigInv, NEW t \in Threads, AddToNodeSet(t)
  PROVE  ConfigInv'
<1>1. CASE Refuse(t)
  BY <1>1, RefuseInv
<1>2. CASE ~Refuse(t)
  <2>. DEFINE node == Node(job[t].id, job[t].key)
              c == [Latest EXCEPT !.node_set = Append(@, node)]
              j == [job[t] EXCEPT !.conf = c, !.step = "number"]
  <2>1. t \in DOMAIN job /\ job[t] \in Jobs /\ job[t].op = "add"
    BY DEF ConfigInv, JobOK, AddToNodeSet
  <2>2. job' = [job EXCEPT ![t] = j] /\ UNCHANGED storeVars
    BY <1>2, <2>1 DEF AddToNodeSet
  <2>3. node \in NodeRecords
    BY <2>1 DEF Jobs, Node, NodeRecords
  <2>4. Latest \in Configs /\ Sound(Latest)
    BY LatestSound
  <2>. HIDE DEF node
  <2>5. /\ c \in Configs
        /\ c.writer_list = Latest.writer_list /\ c.reader_list = Latest.reader_list
    <3>. DEFINE nodes == Append(Latest.node_set, node)
    <3>1. nodes \in Seq(NodeRecords)
      BY <2>3, <2>4 DEF Configs
    <3>2. c = [Latest EXCEPT !.node_set = nodes]
      OBVIOUS
    <3>. HIDE DEF nodes, c
    <3>. QED
      BY <2>4, <3>1, <3>2 DEF Configs
  <2>6. Sound(c)
    BY <2>4, <2>5 DEF Sound, Listed
  <2>. HIDE DEF c
  <2>7. /\ j \in Jobs /\ j.conf = c /\ j.step = "number" /\ j.op = "add"
    BY <2>1, <2>5 DEF Jobs
  <2>8. JobOK(j)
    BY <2>6, <2>7 DEF JobOK, Does
  <2>. QED
    BY <2>2, <2>8, JobStep
<1>. QED
  BY <1>1, <1>2

LEMMA ReadNumberInv ==
  ASSUME ConfigInv, NEW t \in Threads, ReadNumber(t)
  PROVE  ConfigInv'
<1>. DEFINE j == [job[t] EXCEPT !.number = NextId, !.step = "insert"]
<1>1. /\ t \in DOMAIN job /\ job[t] \in Jobs /\ Sound(job[t].conf)
      /\ Does(job[t], job[t].conf)
  BY DEF ConfigInv, JobOK, ReadNumber
<1>2. NextId \in Nat /\ NextId \in 1 .. LatestId + 1
  BY DEF NextId, ConfigInv, VersionsInv
<1>. HIDE DEF NextId
<1>3. /\ j \in Jobs /\ j.conf = job[t].conf /\ j.step = "insert" /\ j.number = NextId
      /\ j.op = job[t].op /\ j.id = job[t].id /\ j.list = job[t].list
  BY <1>1, <1>2 DEF Jobs
<1>4. JobOK(j)
  BY <1>1, <1>2, <1>3 DEF JobOK, Does, Own
<1>5. job' = [job EXCEPT ![t] = j]
  BY <1>1 DEF ReadNumber
<1>. QED
  BY <1>4, <1>5, JobStep DEF ReadNumber

\* The database takes no number twice, so a request that held an old number is
\* refused and the number of one that is stored was the next one all the time.
LEMMA InsertConfigInv ==
  ASSUME ConfigInv, NEW t \in Threads, InsertConfig(t)
  PROVE  ConfigInv'
<1>1. CASE Refuse(t)
  BY <1>1, RefuseInv
<1>2. CASE ~Refuse(t)
  <2>. DEFINE k == job[t].number
              c == job[t].conf
              a == Answer(job[t])
  <2>1. /\ t \in DOMAIN job /\ job[t] \in Jobs /\ job[t].step = "insert"
        /\ Sound(c) /\ Does(job[t], c) /\ k \in 1 .. LatestId + 1
    BY DEF ConfigInv, JobOK, InsertConfig
  <2>2. /\ k \notin DOMAIN configs
        /\ configs' = [v \in DOMAIN configs \cup {k} |-> IF v = k THEN c ELSE configs[v]]
        /\ answers' = answers \cup {a}
        /\ job' = [job EXCEPT ![t] = NoJob]
    BY <1>2 DEF InsertConfig, Free
  <2>3. /\ LatestId \in Nat \ {0} /\ DOMAIN configs = 1 .. LatestId
        /\ \A v \in DOMAIN configs : configs[v] \in Configs
    BY DEF ConfigInv, VersionsInv
  <2>4. k = LatestId + 1
    BY <2>1, <2>2, <2>3
  <2>5. c \in Configs
    BY <2>1 DEF Jobs
  <2>6. a.version = k /\ a.op = job[t].op /\ a.id = job[t].id /\ a.list = job[t].list
    BY DEF Answer
  <2>. HIDE DEF k, c, a
  <2>7. DOMAIN configs' = 1 .. k /\ k \in Nat \ {0}
    BY <2>2, <2>3, <2>4
  <2>8. LatestId' = k /\ VersionsInv'
    <3>1. LatestId' = k
      BY <2>7, LatestOfRange DEF LatestId
    <3>. QED
      BY <2>7, <3>1 DEF VersionsInv
  <2>9. configs'[k] = c /\ \A v \in DOMAIN configs : configs'[v] = configs[v]
    BY <2>2
  <2>10. \A v \in DOMAIN configs' : configs'[v] \in Configs
    BY <2>2, <2>3, <2>5, <2>9
  <2>11. ListsAreSound'
    <3>1. ASSUME NEW v \in DOMAIN configs
          PROVE  /\ IsInjective(Listed(configs'[v]))
                 /\ \A id \in Range(Listed(configs'[v])) :
                      \E w \in DOMAIN configs' : w <= v /\ id \in IdsOf(configs'[w])
      BY <2>2, <2>9 DEF ConfigInv, ListsAreSound
    <3>2. /\ IsInjective(Listed(configs'[k]))
          /\ \A id \in Range(Listed(configs'[k])) :
               \E w \in DOMAIN configs' : w <= k /\ id \in IdsOf(configs'[w])
      <4>1. \A w \in DOMAIN configs : w <= k
        BY <2>3, <2>4
      <4>. QED
        BY <2>1, <2>2, <2>9, <4>1 DEF Sound
    <3>. QED
      BY <2>2, <3>1, <3>2 DEF ListsAreSound
  <2>12. ASSUME NEW i, JobOK(i) PROVE JobOK(i)'
    <3>1. \A w \in DOMAIN configs : w \in DOMAIN configs' /\ configs'[w] = configs[w]
      BY <2>2, <2>9
    <3>2. Sound(i.conf) => Sound(i.conf)'
      BY <3>1 DEF Sound
    <3>3. i.number \in 1 .. LatestId + 1 => i.number \in 1 .. LatestId' + 1
      BY <2>3, <2>4, <2>8
    <3>. QED
      BY <2>12, <3>2, <3>3 DEF JobOK
  <2>13. \A u \in Threads : JobOK(job'[u])
    BY <2>1, <2>2, NoJobOK DEF ConfigInv
  <2>14. \A u \in Threads : JobOK(job[u])'
    BY <2>12, <2>13
  <2>15. AnswersInv'
    <3>1. ASSUME NEW b \in answers
          PROVE  b.version \in DOMAIN configs /\ Does(b, configs[b.version])
      BY DEF ConfigInv, AnswersInv
    <3>2. \A b \in answers : b.version \in DOMAIN configs' /\ Does(b, configs'[b.version])
      BY <2>2, <2>9, <3>1
    <3>3. a.version \in DOMAIN configs' /\ Does(a, configs'[a.version])
      BY <2>1, <2>2, <2>6, <2>9 DEF Does, Own
    <3>4. \A b \in answers : b.version # a.version
      BY <2>2, <2>6, <3>1
    <3>5. \A b, d \in answers' : b.version = d.version => b = d
      BY <2>2, <3>4 DEF ConfigInv, AnswersInv
    <3>. QED
      BY <2>2, <3>2, <3>3, <3>5 DEF AnswersInv
  <2>16. DOMAIN job' = Threads \cup {Operator}
    BY <2>2 DEF ConfigInv
  <2>. QED
    BY <2>8, <2>10, <2>11, <2>14, <2>15, <2>16 DEF ConfigInv
<1>. QED
  BY <1>1, <1>2

\* A step that stores nothing and leaves the requests alone, or drops some.
LEMMA OtherStep ==
  ASSUME ConfigInv, UNCHANGED storeVars, DOMAIN job' = DOMAIN job,
         \A t \in Threads : job'[t] \in {job[t], NoJob}
  PROVE  ConfigInv'
<1>. USE DEF storeVars
<1>1. LatestId' = LatestId /\ VersionsInv' /\ ListsAreSound' /\ AnswersInv'
  BY DEF ConfigInv, LatestId, VersionsInv, ListsAreSound, AnswersInv
<1>2. ASSUME NEW i, JobOK(i) PROVE JobOK(i)'
  BY <1>1, <1>2 DEF JobOK, Sound
<1>3. \A u \in Threads : JobOK(job'[u])
  BY NoJobOK DEF ConfigInv
<1>4. \A u \in Threads : JobOK(job[u])'
  BY <1>2, <1>3
<1>. QED
  BY <1>1, <1>4 DEF ConfigInv

LEMMA NextConfigInv == ConfigInv /\ [Next]_vars => ConfigInv'
<1>. SUFFICES ASSUME ConfigInv, [Next]_vars PROVE ConfigInv'
  OBVIOUS
<1>1. ASSUME NEW t \in Threads, TakeRequest(t) \/ Serve(t) PROVE ConfigInv'
  BY <1>1, TakeRequestInv, GetNewNodeIdInv, ReadConfigInv, ChangeListsInv,
     AddToNodeSetInv, ReadNumberInv, InsertConfigInv DEF Serve
<1>2. CASE ReadReset \/ ServeReset
  <2>1. UNCHANGED storeVars /\ DOMAIN job' = DOMAIN job
    BY <1>2 DEF ReadReset, ServeReset, OpenReset, WriteReset, Goto
  <2>2. \A t \in Threads : job'[t] = job[t]
    BY <1>2, AuthorityAssumption
       DEF ReadReset, ServeReset, OpenReset, WriteReset, Goto, ConfigInv
  <2>. QED
    BY <2>1, <2>2, OtherStep
<1>3. ASSUME NEW e \in Engines, PollReset(e) \/ RestartEngine(e) PROVE ConfigInv'
  BY <1>3, OtherStep DEF PollReset, RestartEngine
<1>4. CASE Restart
  BY <1>4, OtherStep DEF Restart, ConfigInv
<1>5. CASE UNCHANGED vars
  BY <1>5, OtherStep DEF vars
<1>. QED
  BY <1>1, <1>2, <1>3, <1>4, <1>5 DEF Next

----------------------------------------------------------------------------
(* Theorems about the configurations.                                       *)

\* However many threads serve requests, the invariant holds.
THEOREM ConfigInvariant == Spec => []ConfigInv
  BY InitConfigInv, NextConfigInv, PTL DEF Spec

\* Versions are numbered without a gap, however the requests overlap: a number
\* that was read too early is never used for a second configuration and none is
\* left out.
THEOREM VersionsUnbrokenHolds == Spec => []VersionsUnbroken
<1>1. ConfigInv => VersionsUnbroken
  BY DEF ConfigInv, VersionsInv, VersionsUnbroken
<1>. QED
  BY <1>1, ConfigInvariant, PTL

\* No stored configuration lists a node twice or one that was never added.
THEOREM ListsAreSoundHolds == Spec => []ListsAreSound
<1>1. ConfigInv => ListsAreSound
  BY DEF ConfigInv
<1>. QED
  BY <1>1, ConfigInvariant, PTL

\* What was answered with success is stored, in a version of its own.
THEOREM AnsweredIsStoredHolds == Spec => []AnsweredIsStored
<1>1. ConfigInv => AnsweredIsStored
  BY DEF ConfigInv, AnswersInv, Does, Own, AnsweredIsStored
<1>. QED
  BY <1>1, ConfigInvariant, PTL

----------------------------------------------------------------------------
(* Resets.                                                                  *)

\* An engine that would find a higher number when it polled.
Unheard(e) == IF file > reset_number[e] THEN 1 ELSE 0

\* Every reset can be heard by an engine once, and so can a number that it has
\* forgotten by a restart; a file that is empty or set back to 0 adds nothing.
ResetInv ==
  /\ Operator \in DOMAIN job /\ DOMAIN job = Threads \cup {Operator}
  /\ job[Operator].number \in Nat
  /\ file \in Nat \cup {Emptied}
  /\ resets \in Nat
  /\ reset_number \in [Engines -> Nat]
  /\ heard \in [Engines -> Nat]
  /\ engineRestarts \in [Engines -> Nat]
  /\ \A e \in Engines : heard[e] + Unheard(e) <= resets + engineRestarts[e]

LEMMA InitResetInv == Init => ResetInv
  BY DEF Init, ResetInv, NoJob, Job, Unheard

LEMMA NextResetInv == ResetInv /\ [Next]_vars => ResetInv'
<1>. SUFFICES ASSUME ResetInv, [Next]_vars PROVE ResetInv'
  OBVIOUS
<1>. USE DEF resetVars, engineVars, Emptied
<1>1. ASSUME UNCHANGED resetVars, DOMAIN job' = DOMAIN job, job'[Operator].number \in Nat
      PROVE  ResetInv'
  BY <1>1 DEF ResetInv, Unheard
<1>2. ASSUME NEW t \in Threads, TakeRequest(t) \/ Serve(t) PROVE ResetInv'
  <2>1. t # Operator
    BY AuthorityAssumption
  <2>2. UNCHANGED resetVars
    BY <1>2 DEF TakeRequest, Serve, GetNewNodeId, ReadConfig, ChangeLists,
                AddToNodeSet, ReadNumber, InsertConfig
  <2>3. DOMAIN job' = DOMAIN job /\ job'[Operator] = job[Operator]
    BY <1>2, <2>1 DEF TakeRequest, Serve, GetNewNodeId, ReadConfig, ChangeLists,
                AddToNodeSet, ReadNumber, InsertConfig, Refuse, ResetInv
  <2>. QED
    BY <1>1, <2>2, <2>3 DEF ResetInv
<1>3. CASE ReadReset
  <2>1. job'[Operator].number = file /\ file \in Nat /\ DOMAIN job' = DOMAIN job
    BY <1>3 DEF ReadReset, ResetInv, Job
  <2>. QED
    BY <1>1, <1>3, <2>1 DEF ReadReset
<1>4. CASE OpenReset
  <2>1. job'[Operator].number \in Nat /\ DOMAIN job' = DOMAIN job
    BY <1>4 DEF OpenReset, Goto, ResetInv
  <2>2. \A e \in Engines : Unheard(e)' = 0
    BY <1>4 DEF OpenReset, Unheard, ResetInv
  <2>3. \A e \in Engines : Unheard(e) \in {0, 1}
    BY DEF Unheard
  <2>. QED
    BY <1>4, <2>1, <2>2, <2>3 DEF OpenReset, ResetInv
<1>5. CASE WriteReset
  <2>1. job'[Operator].number \in Nat /\ DOMAIN job' = DOMAIN job
    BY <1>5 DEF WriteReset, NoJob, Job, ResetInv
  <2>2. file' \in Nat /\ resets' = resets + 1
    BY <1>5 DEF WriteReset, Increment, ResetInv
  <2>3. \A e \in Engines : Unheard(e) \in {0, 1} /\ Unheard(e)' \in {0, 1}
    BY DEF Unheard
  <2>. QED
    BY <1>5, <2>1, <2>2, <2>3 DEF WriteReset, ResetInv
<1>6. ASSUME NEW e \in Engines, PollReset(e) PROVE ResetInv'
  <2>1. Unheard(e) = 1 /\ Unheard(e)' = 0 /\ heard'[e] = heard[e] + 1
    BY <1>6 DEF PollReset, IsNews, Unheard, ResetInv
  <2>2. \A d \in Engines \ {e} : Unheard(d)' = Unheard(d) /\ heard'[d] = heard[d]
    BY <1>6 DEF PollReset, Unheard, ResetInv
  <2>3. /\ reset_number' \in [Engines -> Nat] /\ heard' \in [Engines -> Nat]
        /\ UNCHANGED <<job, file, resets, engineRestarts>>
    BY <1>6 DEF PollReset, ResetInv
  <2>4. \A d \in Engines : heard'[d] + Unheard(d)' <= resets + engineRestarts[d]
    BY <2>1, <2>2 DEF ResetInv
  <2>. QED
    BY <2>3, <2>4 DEF ResetInv
<1>7. ASSUME NEW e \in Engines, RestartEngine(e) PROVE ResetInv'
  <2>1. engineRestarts'[e] = engineRestarts[e] + 1
    BY <1>7 DEF RestartEngine, ResetInv
  <2>2. Unheard(e) \in {0, 1} /\ Unheard(e)' \in {0, 1}
    BY DEF Unheard
  <2>3. \A d \in Engines \ {e} :
          Unheard(d)' = Unheard(d) /\ engineRestarts'[d] = engineRestarts[d]
    BY <1>7 DEF RestartEngine, Unheard, ResetInv
  <2>4. /\ reset_number' \in [Engines -> Nat] /\ engineRestarts' \in [Engines -> Nat]
        /\ UNCHANGED <<job, file, resets, heard>>
    BY <1>7 DEF RestartEngine, ResetInv
  <2>5. \A d \in Engines : heard[d] + Unheard(d)' <= resets + engineRestarts'[d]
    BY <2>1, <2>2, <2>3, <2>4 DEF ResetInv
  <2>. QED
    BY <2>4, <2>5 DEF ResetInv
<1>8. CASE Restart
  <2>1. job'[Operator].number \in Nat /\ DOMAIN job' = DOMAIN job
    BY <1>8 DEF Restart, NoJob, Job, ResetInv
  <2>2. \A e \in Engines : Unheard(e)' = 0 /\ Unheard(e) \in {0, 1}
    BY <1>8 DEF Restart, Unheard, ResetInv
  <2>. QED
    BY <1>8, <2>1, <2>2 DEF Restart, ResetInv
<1>9. CASE UNCHANGED vars
  BY <1>1, <1>9 DEF vars, ResetInv
<1>. QED
  BY <1>2, <1>3, <1>4, <1>5, <1>6, <1>7, <1>8, <1>9 DEF Next, ServeReset

\* For any number of engines, resets and restarts, no engine truncates its chain
\* more often than it was told to and has forgotten that it was.
THEOREM NoExtraResetHolds == Spec => []NoExtraReset
<1>1. ResetInv => NoExtraReset
  BY DEF ResetInv, NoExtraReset, Unheard
<1>. QED
  BY <1>1, InitResetInv, NextResetInv, PTL DEF Spec
=============================================================================
