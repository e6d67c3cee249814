-------------------------- MODULE DownloaderProofs --------------------------
(***************************************************************************)
(* Proofs about Downloader, for any network, any list of peers and any     *)
(* number of failures.                                                     *)
(***************************************************************************)
EXTENDS Downloader, TLAPS, SequenceTheorems, FiniteSetTheorems, WellFoundedInduction

----------------------------------------------------------------------------
(* What the theorems assume.                                                *)

Linked(c) == \A i \in 2 .. Len(c) : c[i].prev = c[i - 1].id

\* The writers build a linked chain in which no block comes twice.
GoodNetwork ==
  /\ Network \in Seq(Range(Network)) /\ Linked(Network)
  /\ \A i, j \in DOMAIN Network : Network[i] = Network[j] => i = j
  /\ PeerList \in Seq(Peers)

\* The first blocks of the network.
Prefix(k) == SubSeq(Network, 1, k)
Heights == 0 .. Len(Network)

\* A chain of another network.
Foreign(c) ==
  /\ c \in Seq(Range(c)) /\ c # <<>> /\ Linked(c)
  /\ Last(c) \notin Range(Network)

\* The node begins with nothing or a part of the network's chain, or with another
\* network's.  Which blocks it can read is left open, but for the first.
GoodStarts ==
  \A s \in Scenarios : Foreign(s.start) \/ \E k \in Heights : s.start = Prefix(k)

----------------------------------------------------------------------------
(* Minima and parts of sequences.                                           *)

\* Min of FiniteSetsExt is what it is called.
LEMMA MinOfNats ==
  ASSUME NEW T, T \subseteq Nat, T # {}
  PROVE  Min(T) \in T /\ \A y \in T : Min(T) <= y
<1>. DEFINE R == {ss \in Nat \X Nat : ss[1] < ss[2]}
<1>1. IsWellFoundedOn(R, Nat)
  BY NatLessThanWellFounded, Zenon DEF OpToRel
<1>. HIDE DEF R
<1>2. PICK x \in T : \A y \in T : ~(<<y, x>> \in R)
  BY <1>1, WFMin, Zenon
<1>3. ASSUME NEW y \in T PROVE x <= y
  <2>1. ~(y < x)
    BY <1>2 DEF R
  <2>. QED
    BY <2>1
<1>. QED
  BY <1>3 DEF Min

\* The part of a chain that repeats nothing from a given block on.
LEMMA FromIs ==
  ASSUME NEW c, NEW k \in 1 .. Len(c), NEW b, Len(c) \in Nat,
         c[k] = b, \A i \in 1 .. Len(c) : c[i] = b => i = k
  PROVE  From(c, b) = SubSeq(c, k, Len(c))
<1>. DEFINE I == {i \in 1 .. Len(c) : c[i] = b}
<1>1. I = {k}
  OBVIOUS
<1>2. Min(I) = k
  <2>1. I \subseteq Nat /\ I # {}
    BY <1>1
  <2>. HIDE DEF I
  <2>2. Min(I) \in I
    BY <2>1, MinOfNats
  <2>. QED
    BY <1>1, <2>2
<1>3. From(c, b) = SubSeq(c, IF I # {} THEN Min(I) ELSE 0, Len(c))
  BY DEF From, SelectInSeq
<1>. QED
  BY <1>1, <1>2, <1>3

\* The first blocks of the network are a linked chain.
LEMMA PrefixFacts ==
  ASSUME GoodNetwork, NEW k \in Heights
  PROVE  /\ Prefix(k) \in Seq(Range(Network))
         /\ Len(Network) \in Nat /\ DOMAIN Network = 1 .. Len(Network)
         /\ Len(Prefix(k)) = k
         /\ \A i \in 1 .. k : Prefix(k)[i] = Network[i]
         /\ Range(Prefix(k)) \subseteq Range(Network)
         /\ Linked(Prefix(k))
         /\ IsPrefix(Prefix(k), Network)
         /\ k > 0 => Prefix(k) # <<>> /\ Last(Prefix(k)) = Network[k]
<1>1. Len(Network) \in Nat /\ DOMAIN Network = 1 .. Len(Network)
  BY LenProperties DEF GoodNetwork
<1>2. \A i \in 1 .. k : Network[i] \in Range(Network)
  BY <1>1 DEF Heights, Range
<1>3. /\ Prefix(k) \in Seq(Range(Network)) /\ Len(Prefix(k)) = k
      /\ \A i \in 1 .. k : Prefix(k)[i] = Network[i]
  BY <1>1, <1>2, SubSeqProperties DEF Prefix, Heights
<1>4. DOMAIN Prefix(k) = 1 .. k
  BY <1>3, LenProperties
<1>5. Range(Prefix(k)) \subseteq Range(Network)
  BY <1>2, <1>3, <1>4 DEF Range
<1>6. Linked(Prefix(k))
  BY <1>1, <1>3 DEF Linked, GoodNetwork, Heights
<1>7. SubSeq(Prefix(k), 1, k) = Prefix(k)
  BY <1>3, SubSeqFull
<1>8. IsPrefix(Prefix(k), Network)
  BY <1>1, <1>3, <1>7 DEF IsPrefix, Heights, Prefix
<1>9. k > 0 => Prefix(k) # <<>> /\ Last(Prefix(k)) = Network[k]
  BY <1>3 DEF Last
<1>. QED
  BY <1>1, <1>3, <1>5, <1>6, <1>8, <1>9

\* What the node inserts of an answer: its first blocks, all if it can read
\* them, and else those before one that it cannot.
LEMMA InsertedFacts ==
  ASSUME NEW S, NEW blocks \in Seq(S)
  PROVE  \E j \in 0 .. Len(blocks) :
           /\ UpToJson(blocks) = SubSeq(blocks, 1, j)
           /\ Readable(blocks) => j = Len(blocks)
           /\ ~Readable(blocks) => j < Len(blocks) /\ blocks[j + 1].id \in Json
<1>1. Len(blocks) \in Nat /\ DOMAIN blocks = 1 .. Len(blocks)
  BY LenProperties
<1>2. CASE Readable(blocks)
  <2>1. UpToJson(blocks) = SubSeq(blocks, 1, Len(blocks))
    BY <1>2, SubSeqFull DEF UpToJson
  <2>2. Len(blocks) \in 0 .. Len(blocks)
    BY <1>1
  <2>. QED
    BY <1>2, <2>1, <2>2, Zenon
<1>3. CASE ~Readable(blocks)
  <2>. DEFINE U == {i \in DOMAIN blocks : blocks[i].id \in Json}
  <2>1. U \subseteq Nat /\ U # {}
    BY <1>1, <1>3 DEF Readable
  <2>2. Min(U) \in 1 .. Len(blocks) /\ blocks[Min(U)].id \in Json
    BY <1>1, <2>1, MinOfNats
  <2>3. UpToJson(blocks) = SubSeq(blocks, 1, Min(U) - 1)
    BY <1>3 DEF UpToJson
  <2>. HIDE DEF U
  <2>4. /\ Min(U) - 1 \in 0 .. Len(blocks) /\ Min(U) - 1 < Len(blocks)
        /\ (Min(U) - 1) + 1 = Min(U)
    BY <1>1, <2>2
  <2>. QED
    BY <1>3, <2>2, <2>3, <2>4, Zenon
<1>. QED
  BY <1>2, <1>3

\* A part of the chain after the first k blocks continues them.
LEMMA Continued ==
  ASSUME GoodNetwork, NEW k \in Heights, NEW h \in Heights, NEW j \in 0 .. h - k
  PROVE  /\ k + j \in Heights
         /\ Prefix(k) \o SubSeq(SubSeq(Prefix(h), k + 1, h), 1, j) = Prefix(k + j)
<1>. DEFINE c == SubSeq(Prefix(h), k + 1, h)
            t == SubSeq(c, 1, j)
<1>1. /\ Len(Network) \in Nat /\ DOMAIN Network = 1 .. Len(Network)
      /\ k \in Nat /\ h \in Nat /\ j \in Nat /\ k + j \in Heights
  BY PrefixFacts DEF Heights
<1>2. \A i \in k + 1 .. h : Prefix(h)[i] = Network[i] /\ Prefix(h)[i] \in Range(Network)
  <2>1. \A i \in 1 .. h : Prefix(h)[i] = Network[i]
    BY PrefixFacts
  <2>2. \A i \in 1 .. h : Network[i] \in Range(Network)
    BY <1>1 DEF Heights, Range
  <2>. QED
    BY <1>1, <2>1, <2>2
<1>3. /\ c \in Seq(Range(Network)) /\ Len(c) = (IF k + 1 <= h THEN h - k ELSE 0)
      /\ \A i \in 1 .. h - k : c[i] = Network[k + i]
  <2>. HIDE DEF c
  <2>1. /\ c \in Seq(Range(Network)) /\ Len(c) = (IF k + 1 <= h THEN h - (k + 1) + 1 ELSE 0)
        /\ \A i \in 1 .. h - (k + 1) + 1 : c[i] = Prefix(h)[(k + 1) + i - 1]
    BY <1>2, SubSeqProperties DEF Heights, c
  <2>. QED
    BY <1>1, <1>2, <2>1
<1>. HIDE DEF c
<1>4. \A i \in 1 .. j : c[i] \in Range(Network)
  BY <1>1, <1>2, <1>3 DEF Heights
<1>5. /\ t \in Seq(Range(Network)) /\ Len(t) = j
      /\ \A i \in 1 .. j : t[i] = c[i]
  BY <1>4, SubSeqProperties DEF Heights
<1>. HIDE DEF t
<1>6. /\ Prefix(k) \in Seq(Range(Network)) /\ Len(Prefix(k)) = k
      /\ \A i \in 1 .. k : Prefix(k)[i] = Network[i]
      /\ Prefix(k + j) \in Seq(Range(Network)) /\ Len(Prefix(k + j)) = k + j
      /\ \A i \in 1 .. k + j : Prefix(k + j)[i] = Network[i]
  BY <1>1, PrefixFacts
<1>7. /\ Prefix(k) \o t \in Seq(Range(Network)) /\ Len(Prefix(k) \o t) = k + j
      /\ \A i \in 1 .. k + j : (Prefix(k) \o t)[i] =
            IF i <= k THEN Prefix(k)[i] ELSE t[i - k]
  <2>1. /\ Prefix(k) \o t \in Seq(Range(Network))
        /\ Len(Prefix(k) \o t) = Len(Prefix(k)) + Len(t)
        /\ \A i \in 1 .. Len(Prefix(k)) + Len(t) : (Prefix(k) \o t)[i] =
              IF i <= Len(Prefix(k)) THEN Prefix(k)[i] ELSE t[i - Len(Prefix(k))]
    BY <1>5, <1>6, ConcatProperties, Zenon
  <2>. QED
    BY <1>5, <1>6, <2>1, Zenon
<1>8. \A i \in 1 .. k + j : (Prefix(k) \o t)[i] = Prefix(k + j)[i]
  <2>. SUFFICES ASSUME NEW i \in 1 .. k + j
                PROVE  (Prefix(k) \o t)[i] = Network[i]
    BY <1>6
  <2>1. CASE i <= k
    <3>1. i \in 1 .. k
      BY <1>1, <2>1
    <3>. QED
      BY <1>6, <1>7, <2>1, <3>1, Zenon
  <2>2. CASE ~(i <= k)
    <3>1. i - k \in 1 .. j /\ i - k \in 1 .. h - k /\ k + (i - k) = i
      BY <1>1, <2>2
    <3>. QED
      BY <1>3, <1>5, <1>7, <2>2, <3>1, Zenon
  <2>. QED
    BY <2>1, <2>2
<1>9. Prefix(k) \o t = Prefix(k + j)
  BY <1>6, <1>7, <1>8, SeqEqual
<1>. QED
  BY <1>1, <1>9 DEF t, c

\* What the client API of a peer answers to a node that has k blocks of the
\* chain: nothing, or its own blocks from the k-th on.
LEMMA AnswerFacts ==
  ASSUME GoodNetwork, NEW k \in Heights \ {0}, NEW p \in Peers, height[p] \in Heights
  PROVE  LET answer == Missing(p, RowOf(Prefix(k))) IN
         \/ answer = NotFound
         \/ /\ k <= height[p]
            /\ answer = Found(SubSeq(Prefix(height[p]), k, height[p]))
<1>. DEFINE h == height[p]
<1>1. /\ Len(Network) \in Nat /\ DOMAIN Network = 1 .. Len(Network)
      /\ k \in 1 .. Len(Network) /\ h \in Nat /\ h <= Len(Network)
  BY PrefixFacts DEF Heights
<1>2. RowOf(Prefix(k)).block = Network[k]
  BY PrefixFacts, <1>1 DEF RowOf
<1>3. ChainOf(p) = Prefix(h)
  BY DEF ChainOf, Prefix
<1>4. /\ Len(Prefix(h)) = h /\ DOMAIN Prefix(h) = 1 .. h
      /\ \A i \in 1 .. h : Prefix(h)[i] = Network[i]
  BY PrefixFacts, LenProperties
<1>. HIDE DEF h
<1>5. CASE Network[k] \in Range(ChainOf(p))
  <2>1. PICK i \in 1 .. h : Prefix(h)[i] = Network[k]
    BY <1>3, <1>4, <1>5 DEF Range
  <2>2. i = k
    BY <1>1, <1>4, <2>1 DEF GoodNetwork
  <2>3. k <= h /\ k \in 1 .. Len(Prefix(h)) /\ Prefix(h)[k] = Network[k]
    BY <1>1, <1>4, <2>1, <2>2
  <2>4. \A j \in 1 .. Len(Prefix(h)) : Prefix(h)[j] = Network[k] => j = k
    BY <1>1, <1>4, <2>3 DEF GoodNetwork
  <2>5. From(ChainOf(p), Network[k]) = SubSeq(Prefix(h), k, h)
    <3>. HIDE DEF GoodNetwork
    <3>1. Len(Prefix(h)) \in Nat
      BY <1>1, <1>4
    <3>2. From(Prefix(h), Network[k]) = SubSeq(Prefix(h), k, Len(Prefix(h)))
      BY <2>3, <2>4, <3>1, FromIs
    <3>. QED
      BY <1>3, <1>4, <3>2
  <2>. QED
    BY <1>2, <2>3, <2>5 DEF Missing, h
<1>6. CASE Network[k] \notin Range(ChainOf(p))
  BY <1>2, <1>6 DEF Missing
<1>. QED
  BY <1>5, <1>6

\* A node of another network is told nothing.
LEMMA ForeignAnswer ==
  ASSUME GoodNetwork, NEW c, Foreign(c), NEW p \in Peers, height[p] \in Heights
  PROVE  Missing(p, RowOf(c)) = NotFound
<1>1. Range(ChainOf(p)) \subseteq Range(Network)
  BY PrefixFacts DEF ChainOf, Prefix
<1>. QED
  BY <1>1 DEF Foreign, Missing, RowOf

----------------------------------------------------------------------------
(* The invariant.                                                           *)

\* Every peer has at least what it had when the node was started.
PeersInv ==
  /\ scenario \in Scenarios
  /\ height \in [Peers -> InitialHeight .. Len(Network)]
  /\ node_num \in Nat \ {0}
  /\ failures \in 0 .. MaxFailures

\* The node has its own network's chain or the first blocks of this one, and a
\* node in sync as many as every peer had.  An empty node stays empty.
ChainInv ==
  /\ Foreign(mine) \/ \E k \in Heights : mine = Prefix(k)
  /\ mine = <<>> <=> scenario.start = <<>>
  /\ in_sync => \E k \in InitialHeight .. Len(Network) : mine = Prefix(k)

\* Until a call of download_db is in sync, its latest block is the chain's, and
\* an answer that it may use again brings it nothing.
CallInv ==
  pc = "loop" /\ ~in_sync =>
    /\ latest_block = (IF mine = <<>> THEN <<>> ELSE RowOf(mine))
    /\ response.status # 200

\* The peers that this call has asked in vain, of those that know the node's last
\* block.
Refused == Informed \cap {PeerList[i] : i \in 1 .. node_num - 1}

\* A node that is behind has fetched nothing yet, and those it has asked were down.
BehindInv ==
  Behind =>
    /\ mine = scenario.start
    /\ pc = "loop" /\ ~in_sync => Cardinality(Refused) <= failures

DownloadInv == PeersInv /\ ChainInv /\ CallInv /\ BehindInv

\* No row is the empty tuple that stands for an empty database.
LEMMA RowIsOne == ASSUME NEW c PROVE RowOf(c) # <<>>
<1>1. DOMAIN RowOf(c) = {"block", "round"}
  BY DEF RowOf
<1>2. DOMAIN <<>> = {}
  OBVIOUS
<1>. QED
  BY <1>1, <1>2

\* What a node with the first k blocks of the chain has after it has inserted a
\* peer's blocks from the one after them on.
LEMMA Fetched ==
  ASSUME GoodNetwork, NEW k \in Heights, NEW h \in Heights, k <= h
  PROVE  LET blocks == SubSeq(Prefix(h), k + 1, h) IN
         \E m \in Heights :
           /\ m >= k
           /\ Prefix(k) \o UpToJson(blocks) = Prefix(m)
           /\ Readable(blocks) => m = h
           /\ ~Readable(blocks) => m < Len(Network) /\ Network[m + 1].id \in Json
<1>. DEFINE blocks == SubSeq(Prefix(h), k + 1, h)
<1>1. k \in Nat /\ h \in Nat /\ Len(Network) \in Nat
  BY PrefixFacts DEF Heights
<1>2. \A i \in k + 1 .. h : Prefix(h)[i] \in Range(Network)
  <2>1. Prefix(h) \in Seq(Range(Network)) /\ Len(Prefix(h)) = h
    BY PrefixFacts
  <2>. QED
    BY <1>1, <2>1, ElementOfSeq
<1>3. /\ blocks \in Seq(Range(Network))
      /\ Len(blocks) = IF k + 1 <= h THEN h - (k + 1) + 1 ELSE 0
      /\ \A i \in 1 .. h - (k + 1) + 1 : blocks[i] = Prefix(h)[(k + 1) + i - 1]
  <2>. HIDE DEF blocks
  <2>. QED
    BY <1>1, <1>2, SubSeqProperties DEF blocks
<1>4. Len(blocks) = h - k
  BY <1>1, <1>3
<1>5. PICK j \in 0 .. Len(blocks) :
        /\ UpToJson(blocks) = SubSeq(blocks, 1, j)
        /\ Readable(blocks) => j = Len(blocks)
        /\ ~Readable(blocks) => j < Len(blocks) /\ blocks[j + 1].id \in Json
  BY <1>3, InsertedFacts
<1>6. /\ k + j \in Heights
      /\ Prefix(k) \o SubSeq(blocks, 1, j) = Prefix(k + j)
  BY <1>4, <1>5, Continued
<1>9. ASSUME ~Readable(blocks)
      PROVE  k + j < Len(Network) /\ Network[(k + j) + 1].id \in Json
  <2>. HIDE DEF blocks
  <2>1. /\ j \in Nat /\ j < h - k /\ j + 1 \in 1 .. h - (k + 1) + 1
        /\ (k + 1) + (j + 1) - 1 = (k + j) + 1 /\ (k + j) + 1 \in 1 .. h
    BY <1>1, <1>4, <1>5, <1>9
  <2>2. blocks[j + 1] = Prefix(h)[(k + j) + 1]
    BY <1>3, <2>1
  <2>3. Prefix(h)[(k + j) + 1] = Network[(k + j) + 1]
    BY <2>1, PrefixFacts
  <2>4. h <= Len(Network)
    BY DEF Heights
  <2>. QED
    BY <1>1, <1>5, <1>9, <2>1, <2>2, <2>3, <2>4
<1>. HIDE DEF blocks
<1>7. k + j >= k /\ (Readable(blocks) => k + j = h)
  BY <1>1, <1>4, <1>5
<1>8. Prefix(k) \o UpToJson(blocks) = Prefix(k + j)
  BY <1>5, <1>6
<1>. QED
  BY <1>6, <1>7, <1>8, <1>9, Zenon DEF blocks

LEMMA InitialInv ==
  ASSUME GoodNetwork, GoodStarts, Init
  PROVE  DownloadInv
<1>1. /\ InitialHeight \in Nat /\ InitialHeight <= Len(Network)
      /\ Len(Network) \in Nat /\ MaxFailures \in Nat
  BY DownloaderAssumption, LenProperties DEF GoodNetwork
<1>2. PeersInv
  <2>1. height \in [Peers -> InitialHeight .. Len(Network)]
    BY <1>1 DEF Init
  <2>2. failures \in 0 .. MaxFailures
    BY <1>1 DEF Init
  <2>. QED
    BY <2>1, <2>2 DEF Init, PeersInv
<1>3. ChainInv
  <2>1. scenario \in Scenarios /\ mine = scenario.start
    BY DEF Init
  <2>2. Foreign(mine) \/ \E k \in Heights : mine = Prefix(k)
    BY <2>1 DEF GoodStarts
  <2>. QED
    BY <2>1, <2>2 DEF Init, ChainInv
<1>4. CallInv /\ BehindInv
  BY DEF Init, CallInv, BehindInv
<1>. QED
  BY <1>2, <1>3, <1>4 DEF DownloadInv

\* What the next peer has.
LEMMA PeerHeight ==
  ASSUME GoodNetwork, DownloadInv, Asking
  PROVE  /\ Peer \in Peers
         /\ height[Peer] \in InitialHeight .. Len(Network)
         /\ height[Peer] \in Heights
<1>1. Len(PeerList) \in Nat /\ DOMAIN PeerList = 1 .. Len(PeerList)
  BY LenProperties DEF GoodNetwork
<1>2. Peer \in Peers
  BY <1>1 DEF Asking, Peer, Peers, DownloadInv, PeersInv, Range
<1>3. Len(Network) \in Nat /\ InitialHeight \in Nat
  BY DownloaderAssumption, LenProperties DEF GoodNetwork
<1>. QED
  BY <1>2, <1>3 DEF DownloadInv, PeersInv, Heights

\* Whether the node is behind, and who knows its last block.
LEMMA SameBehind ==
  ASSUME UNCHANGED <<scenario, mine>>
  PROVE  (Behind' <=> Behind) /\ Informed' = Informed
BY DEF Behind, AtJson, Json, Informed, LatestRound, ApiLength, RowOf

LEMMA InformedFinite ==
  ASSUME GoodNetwork
  PROVE  IsFiniteSet(Informed) /\ IsFiniteSet(Refused)
<1>1. Len(PeerList) \in Nat /\ DOMAIN PeerList = 1 .. Len(PeerList)
  BY LenProperties DEF GoodNetwork
<1>2. PeerList \in Surjection(1 .. Len(PeerList), Peers)
  BY <1>1 DEF GoodNetwork, Surjection, Peers, Range
<1>3. IsFiniteSet(Peers)
  BY <1>1, <1>2, FS_Interval, FS_Surjection
<1>. QED
  BY <1>3, FS_Subset DEF Informed, Refused

\* One more peer has been asked in vain.
LEMMA RefusedGrows ==
  ASSUME GoodNetwork, node_num \in Nat \ {0}, Asking, node_num' = node_num + 1,
         UNCHANGED <<scenario, mine>>, failures \in Nat, failures' \in Nat,
         Cardinality(Refused) <= failures,
         \/ failures' = failures + 1
         \/ failures' = failures /\ Peer \notin Informed
  PROVE  Cardinality(Refused') <= failures'
<1>1. Informed' = Informed
  BY SameBehind
<1>2. \A i \in 1 .. node_num' - 1 : i \in 1 .. node_num - 1 \/ PeerList[i] = Peer
  BY DEF Peer
<1>3. Refused' \subseteq Refused \cup {Peer}
  BY <1>1, <1>2 DEF Refused
<1>4. Peer \notin Informed => Refused' \subseteq Refused
  BY <1>1, <1>2 DEF Refused
<1>5. IsFiniteSet(Refused) /\ Cardinality(Refused) \in Nat
  BY InformedFinite, FS_CardinalityType
<1>6. CASE failures' = failures + 1
  <2>1. /\ IsFiniteSet(Refused \cup {Peer})
        /\ Cardinality(Refused \cup {Peer}) <= Cardinality(Refused) + 1
        /\ Cardinality(Refused \cup {Peer}) \in Nat
    BY <1>5, FS_AddElement, FS_CardinalityType
  <2>2. Cardinality(Refused') <= Cardinality(Refused \cup {Peer}) /\ Cardinality(Refused') \in Nat
    BY <1>3, <2>1, FS_Subset, FS_CardinalityType
  <2>. QED
    BY <1>5, <1>6, <2>1, <2>2
<1>7. CASE failures' = failures /\ Peer \notin Informed
  <2>1. Cardinality(Refused') <= Cardinality(Refused) /\ Cardinality(Refused') \in Nat
    BY <1>4, <1>5, <1>7, FS_Subset, FS_CardinalityType
  <2>. QED
    BY <1>5, <1>7, <2>1
<1>. QED
  BY <1>6, <1>7

\* An answer without blocks: the next peer is asked.
LEMMA NothingNew ==
  ASSUME GoodNetwork, DownloadInv, Asking, mine # <<>>,
         NEW answer, answer.status # 200, UseMissing(answer),
         response'.status # 200, UNCHANGED <<scenario, height>>,
         failures' \in 0 .. MaxFailures,
         \/ failures' = failures + 1
         \/ failures' = failures /\ (Behind => Peer \notin Informed)
  PROVE  DownloadInv' /\ mine' = mine
<1>1. node_num' = node_num + 1 /\ UNCHANGED <<mine, pc, latest_block, in_sync>>
  BY DEF UseMissing
<1>2. PeersInv'
  BY <1>1 DEF DownloadInv, PeersInv
<1>3. ChainInv'
  BY <1>1 DEF DownloadInv, ChainInv, Foreign, Prefix, Linked
<1>4. CallInv'
  BY <1>1 DEF DownloadInv, CallInv, RowOf
<1>5. BehindInv'
  <2>. SUFFICES ASSUME Behind' PROVE BehindInv'
    BY DEF BehindInv
  <2>1. Behind
    BY <1>1, SameBehind
  <2>2. /\ mine = scenario.start /\ pc = "loop" /\ ~in_sync
        /\ Cardinality(Refused) <= failures
    BY <2>1 DEF DownloadInv, BehindInv, Asking
  <2>3. failures \in Nat /\ failures' \in Nat /\ node_num \in Nat \ {0}
    BY DownloaderAssumption DEF DownloadInv, PeersInv
  <2>4. Cardinality(Refused') <= failures'
    BY <1>1, <2>1, <2>2, <2>3, RefusedGrows
  <2>. QED
    BY <1>1, <2>2, <2>4 DEF BehindInv
<1>. QED
  BY <1>1, <1>2, <1>3, <1>4, <1>5 DEF DownloadInv

\* A node that has fetched blocks is not behind: it has as many as the peer, or
\* all up to one that it cannot read.
LEMMA CaughtUp ==
  ASSUME GoodNetwork, NEW k \in Heights, mine = Prefix(k),
         \/ k >= InitialHeight
         \/ k < Len(Network) /\ Network[k + 1].id \in Json
  PROVE  ~Behind
<1>1. Len(mine) = k /\ IsPrefix(mine, Network)
  BY PrefixFacts
<1>2. k \in Nat /\ InitialHeight \in Nat
  BY DownloaderAssumption DEF Heights
<1>. QED
  BY <1>1, <1>2 DEF Behind, AtJson

\* A peer that knows the last block of a node that is behind has blocks for it.
LEMMA InformedAnswers ==
  ASSUME GoodNetwork, GoodStarts, DownloadInv, Asking, Behind, Peer \in Informed,
         mine # <<>>
  PROVE  Missing(Peer, RowOf(mine)) # NotFound
<1>1. mine = scenario.start /\ scenario \in Scenarios
  BY DEF DownloadInv, BehindInv, PeersInv
<1>2. PICK k \in Heights : mine = Prefix(k)
  BY <1>1 DEF GoodStarts, Foreign, Informed
<1>3. /\ Len(mine) = k /\ k \in Nat /\ Last(mine) = Network[k] /\ k > 0
  <2>1. Len(mine) = k /\ (k > 0 => Last(mine) = Network[k]) /\ k \in Nat
    BY <1>2, PrefixFacts DEF Heights
  <2>2. k # 0
    BY <1>2, SubSeqEmpty DEF Prefix
  <2>. QED
    BY <2>1, <2>2
<1>. DEFINE h == height[Peer]
<1>4. h \in InitialHeight .. Len(Network) /\ h \in Heights
  BY PeerHeight
<1>5. /\ Len(ChainOf(Peer)) = h /\ DOMAIN ChainOf(Peer) = 1 .. h
      /\ \A i \in 1 .. h : ChainOf(Peer)[i] = Network[i]
  BY <1>4, PrefixFacts, LenProperties DEF ChainOf, Prefix
<1>. HIDE DEF h
<1>6. h > 0 /\ k \in 1 .. h
  BY <1>3, <1>4, DownloaderAssumption DEF Behind, Heights
<1>7. Last(mine) \in Range(ChainOf(Peer))
  BY <1>3, <1>5, <1>6 DEF Range
<1>8. RowOf(mine).round <= LatestRound(Peer) /\ RowOf(mine).block = Last(mine)
  BY <1>1 DEF Informed, RowOf
<1>. QED
  BY <1>6, <1>7, <1>8 DEF Missing, Found, NotFound, h

\* The two answers of missing_blocks: nothing, or the peer's blocks from the
\* node's last one on.
LEMMA AskMissingInv ==
  ASSUME GoodNetwork, GoodStarts, DownloadInv, AskMissing
  PROVE  DownloadInv' /\ (mine' = mine \/ ~Behind')
<1>1. /\ latest_block = RowOf(mine) /\ mine # <<>>
      /\ pc = "loop" /\ ~in_sync
  BY DEF AskMissing, Asking, DownloadInv, CallInv
<1>2. Asking
  BY DEF AskMissing
<1>3. /\ Peer \in Peers /\ height[Peer] \in InitialHeight .. Len(Network)
      /\ height[Peer] \in Heights
  BY <1>2, PeerHeight
<1>4. /\ response' = Missing(Peer, RowOf(mine)) /\ UseMissing(response')
      /\ UNCHANGED <<scenario, height, failures>>
  BY <1>1 DEF AskMissing
<1>5. failures' \in 0 .. MaxFailures
  BY <1>4 DEF DownloadInv, PeersInv
<1>6. CASE response' = NotFound
  <2>1. response'.status # 200
    BY <1>6 DEF NotFound
  <2>2. Behind => Peer \notin Informed
    BY <1>1, <1>2, <1>4, <1>6, InformedAnswers
  <2>. QED
    BY <1>1, <1>2, <1>4, <1>5, <2>1, <2>2, NothingNew
<1>7. CASE response' # NotFound
  <2>1. PICK k \in Heights : mine = Prefix(k)
    BY <1>3, <1>4, <1>7, ForeignAnswer DEF DownloadInv, ChainInv
  <2>2. Prefix(0) = <<>>
    BY SubSeqEmpty DEF Prefix
  <2>3. k \in Heights \ {0}
    BY <1>1, <2>1, <2>2
  <2>. DEFINE h == height[Peer]
              blocks == SubSeq(Prefix(h), k, h)
  <2>4. k <= h /\ response' = Found(blocks)
    BY <1>3, <1>4, <1>7, <2>1, <2>3, AnswerFacts
  <2>5. /\ k \in Nat /\ h \in Nat /\ k >= 1 /\ Len(Network) \in Nat
        /\ Len(Prefix(h)) = h /\ Prefix(h) \in Seq(Range(Network))
        /\ h >= InitialHeight /\ h <= Len(Network) /\ InitialHeight \in Nat
    BY <1>3, <2>3, PrefixFacts, DownloaderAssumption DEF Heights
  <2>. HIDE DEF h
  <2>6. /\ Len(blocks) = h - k + 1
        /\ Tail(blocks) = SubSeq(Prefix(h), k + 1, h)
    <3>1. k \in 1 .. Len(Prefix(h)) /\ h \in k .. Len(Prefix(h))
      BY <2>4, <2>5
    <3>2. Tail(blocks) = SubSeq(Prefix(h), k + 1, h)
      BY <2>5, <3>1, HeadTailOfSubSeq
    <3>3. \A i \in k .. h : Prefix(h)[i] \in Range(Network)
      BY <2>5, ElementOfSeq
    <3>4. Len(blocks) = (IF k <= h THEN h - k + 1 ELSE 0)
      BY <2>5, <3>3, SubSeqProperties
    <3>. QED
      BY <2>4, <3>2, <3>4
  <2>7. PICK m \in Heights :
          /\ m >= k
          /\ Prefix(k) \o UpToJson(Tail(blocks)) = Prefix(m)
          /\ Readable(Tail(blocks)) => m = h
          /\ ~Readable(Tail(blocks)) => m < Len(Network) /\ Network[m + 1].id \in Json
    BY <1>3, <2>4, <2>6, Fetched DEF h
  <2>. HIDE DEF blocks
  <2>8. \/ /\ mine' = Prefix(m) /\ in_sync' = TRUE /\ m = h
           /\ node_num' = node_num + 2
        \/ /\ mine' = Prefix(m) /\ pc' = "start" /\ UNCHANGED <<in_sync, node_num>>
           /\ m < Len(Network) /\ Network[m + 1].id \in Json
        \/ /\ mine' = Prefix(k) /\ in_sync' = TRUE /\ k = h
           /\ node_num' = node_num + 2
    <3>1. response'.status = 200 /\ response'.blocks = blocks
      BY <2>4 DEF Found
    <3>2. Len(blocks) = 1 => k = h
      <4>1. Len(blocks) = h - k + 1
        BY <2>6, Zenon
      <4>2. h - k + 1 = 1 => k = h
        BY <2>5
      <4>. QED
        BY <4>1, <4>2, Zenon
    <3>. QED
      BY <1>4, <2>1, <2>7, <3>1, <3>2 DEF UseMissing, Appended, Abandon
  <2>9. PICK l \in Heights :
          /\ l >= k /\ mine' = Prefix(l) /\ (in_sync' => l = h)
          /\ \/ in_sync' = TRUE
             \/ l < Len(Network) /\ Network[l + 1].id \in Json
    BY <1>1, <2>3, <2>5, <2>7, <2>8
  <2>10. mine' # <<>>
    BY <2>5, <2>9, PrefixFacts DEF Heights
  <2>11. PeersInv'
    BY <1>4, <1>5, <2>8 DEF DownloadInv, PeersInv
  <2>12. ChainInv'
    <3>1. in_sync' => l \in InitialHeight .. Len(Network)
      BY <2>5, <2>9
    <3>2. scenario.start # <<>>
      BY <1>1 DEF DownloadInv, ChainInv
    <3>. QED
      BY <1>4, <2>9, <2>10, <3>1, <3>2 DEF ChainInv, Prefix, Heights
  <2>13. CallInv'
    BY <1>1, <2>8 DEF CallInv
  <2>14. ~Behind'
    <3>1. Len(mine') = l /\ IsPrefix(mine', Network)
      BY <2>9, PrefixFacts
    <3>2. Json' = Json
      BY <1>4 DEF Json
    <3>3. l >= InitialHeight \/ (l < Len(Network) /\ Network[l + 1].id \in Json')
      BY <2>5, <2>9, <3>2
    <3>4. l \in Nat /\ InitialHeight \in Nat
      BY <2>5 DEF Heights
    <3>. QED
      BY <3>1, <3>3, <3>4 DEF Behind, AtJson
  <2>15. BehindInv'
    BY <2>14 DEF BehindInv
  <2>. QED
    BY <2>11, <2>12, <2>13, <2>14, <2>15 DEF DownloadInv
<1>. QED
  BY <1>6, <1>7

LEMMA AskMissingFailsInv ==
  ASSUME GoodNetwork, DownloadInv, AskMissingFails
  PROVE  DownloadInv' /\ mine' = mine
<1>1. /\ mine # <<>> /\ Asking /\ pc = "loop" /\ ~in_sync /\ response.status # 200
      /\ UNCHANGED <<scenario, height, response>> /\ failures' = failures + 1
  BY DEF AskMissingFails, Asking, DownloadInv, CallInv
<1>2. failures' \in 0 .. MaxFailures
  BY DownloaderAssumption DEF AskMissingFails, DownloadInv, PeersInv
<1>3. CASE UseMissing(response)
  BY <1>1, <1>2, <1>3, NothingNew
<1>4. CASE Abandon /\ UNCHANGED mine
  <2>1. PeersInv'
    BY <1>1, <1>2, <1>4 DEF DownloadInv, PeersInv, Abandon
  <2>2. ChainInv'
    BY <1>1, <1>4 DEF DownloadInv, ChainInv, Foreign, Prefix, Linked, Abandon
  <2>3. CallInv'
    BY <1>1, <1>4 DEF DownloadInv, CallInv, Abandon
  <2>4. BehindInv'
    BY <1>1, <1>4, SameBehind DEF DownloadInv, BehindInv, Abandon
  <2>. QED
    BY <1>4, <2>1, <2>2, <2>3, <2>4 DEF DownloadInv
<1>. QED
  BY <1>3, <1>4 DEF AskMissingFails

\* An empty node asks for everything and gets nothing, since it cannot read the
\* first block.
LEMMA AskAllInv ==
  ASSUME GoodNetwork, DownloadInv, AskAll
  PROVE  DownloadInv' /\ mine' = mine
<1>1. /\ mine = <<>> /\ latest_block = <<>> /\ Asking /\ pc = "loop" /\ ~in_sync
      /\ UNCHANGED <<scenario, pc, height, latest_block, response, failures>>
      /\ node_num' = node_num + 1
  BY RowIsOne DEF AskAll, Asking, DownloadInv, CallInv
<1>. DEFINE h == height[Peer]
<1>2. h \in Heights
  BY <1>1, PeerHeight
<1>3. /\ ChainOf(Peer) = Prefix(h) /\ h \in Nat /\ Prefix(h) \in Seq(Range(Network))
      /\ Len(Prefix(h)) = h /\ (\A i \in 1 .. h : Prefix(h)[i] = Network[i])
      /\ DOMAIN Prefix(h) = 1 .. h
  BY <1>2, PrefixFacts, LenProperties DEF ChainOf, Prefix, Heights
<1>. HIDE DEF h
<1>4. Network[1].id \in Json
  BY GenesisIsJson DEF DownloadInv, PeersInv, Json
<1>5. h > 0 => ~Readable(Prefix(h))
  BY <1>3, <1>4 DEF Readable
<1>6. UpToJson(Prefix(h)) = <<>> /\ ~Complete(Prefix(h))
  <2>1. CASE h = 0
    <3>1. Prefix(h) = <<>>
      BY <1>3, <2>1
    <3>. QED
      BY <3>1 DEF Complete, UpToJson, Readable
  <2>2. CASE h > 0
    <3>. DEFINE U == {i \in DOMAIN Prefix(h) : Prefix(h)[i].id \in Json}
    <3>1. U \subseteq Nat /\ 1 \in U /\ \A i \in U : i >= 1
      BY <1>3, <1>4, <2>2
    <3>2. Min(U) \in U /\ Min(U) <= 1
      BY <3>1, MinOfNats
    <3>3. Min(U) - 1 = 0
      BY <3>1, <3>2
    <3>4. UpToJson(Prefix(h)) = SubSeq(Prefix(h), 1, Min(U) - 1)
      BY <1>5, <2>2 DEF UpToJson
    <3>. HIDE DEF U
    <3>5. UpToJson(Prefix(h)) = <<>>
      BY <3>3, <3>4, SubSeqEmpty
    <3>. QED
      BY <1>5, <2>2, <3>5 DEF Complete
  <2>. QED
    BY <1>3, <2>1, <2>2
<1>7. mine' = mine /\ ~in_sync'
  <2>1. <<>> \o <<>> = <<>>
    OBVIOUS
  <2>. QED
    BY <1>1, <1>3, <1>6, <2>1 DEF AskAll
<1>8. PeersInv'
  BY <1>1 DEF DownloadInv, PeersInv
<1>9. ChainInv'
  BY <1>1, <1>7 DEF DownloadInv, ChainInv, Foreign, Prefix, Linked
<1>10. CallInv'
  BY <1>1, <1>7 DEF DownloadInv, CallInv, RowOf
<1>11. ~Behind
  <2>1. 0 \in Heights /\ mine = Prefix(0) /\ 0 < Len(Network)
    <3>1. Len(Network) \in Nat /\ Len(Network) # 0
      BY GenesisIsJson, LenProperties, EmptySeq DEF GoodNetwork
    <3>. QED
      BY <1>1, <3>1, SubSeqEmpty DEF Heights, Prefix
  <2>2. Network[0 + 1].id \in Json
    BY <1>4
  <2>. QED
    BY <2>1, <2>2, CaughtUp
<1>12. BehindInv'
  BY <1>1, <1>7, <1>11, SameBehind DEF BehindInv
<1>. QED
  BY <1>7, <1>8, <1>9, <1>10, <1>12 DEF DownloadInv

\* Every step preserves the invariant, and whoever fetches blocks is not behind.
LEMMA DownloadStep ==
  ASSUME GoodNetwork, GoodStarts, DownloadInv, [Next]_vars
  PROVE  DownloadInv' /\ (mine' = mine \/ ~Behind')
<1>. DEFINE Kept == UNCHANGED <<scenario, mine, in_sync>>
<1>1. Kept => ChainInv'
  BY DEF DownloadInv, ChainInv, Foreign, Prefix, Linked
<1>2. CASE Begin
  <2>1. PeersInv'
    BY <1>2 DEF Begin, DownloadInv, PeersInv, maVars
  <2>2. ChainInv'
    BY <1>2 DEF Begin, DownloadInv, ChainInv, Foreign, Prefix, Linked
  <2>3. CallInv'
    BY <1>2 DEF Begin, CallInv, NoAnswer, RowOf
  <2>4. BehindInv'
    <3>1. UNCHANGED <<scenario, mine, failures>> /\ node_num' = 1
      BY <1>2 DEF Begin
    <3>2. Refused' = {}
      BY <3>1 DEF Refused
    <3>3. Cardinality(Refused') <= failures'
      BY <3>1, <3>2, FS_EmptySet, DownloaderAssumption DEF DownloadInv, PeersInv
    <3>. QED
      BY <3>1, <3>3, SameBehind DEF DownloadInv, BehindInv
  <2>. QED
    BY <1>2, <2>1, <2>2, <2>3, <2>4 DEF Begin, DownloadInv
<1>3. CASE AskMissing
  BY <1>3, AskMissingInv
<1>4. CASE AskMissingFails
  BY <1>4, AskMissingFailsInv
<1>5. CASE AskAll
  BY <1>5, AskAllInv
<1>6. CASE AskAllFails
  <2>1. failures \in Nat /\ node_num \in Nat \ {0} /\ MaxFailures \in Nat
    BY DownloaderAssumption DEF DownloadInv, PeersInv
  <2>2. PeersInv'
    BY <1>6, <2>1 DEF AskAllFails, DownloadInv, PeersInv
  <2>3. CallInv'
    BY <1>6 DEF AskAllFails, DownloadInv, CallInv, RowOf
  <2>4. BehindInv'
    <3>. SUFFICES ASSUME Behind' PROVE BehindInv'
      BY DEF BehindInv
    <3>1. /\ UNCHANGED <<scenario, mine, pc, in_sync>> /\ Asking
          /\ node_num' = node_num + 1 /\ failures' = failures + 1
      BY <1>6 DEF AskAllFails
    <3>2. Behind
      BY <3>1, SameBehind
    <3>3. mine = scenario.start /\ Cardinality(Refused) <= failures
      BY <3>1, <3>2 DEF DownloadInv, BehindInv, Asking
    <3>4. Cardinality(Refused') <= failures'
      BY <2>1, <3>1, <3>3, RefusedGrows
    <3>. QED
      BY <3>1, <3>3, <3>4 DEF BehindInv
  <2>. QED
    BY <1>1, <1>6, <2>2, <2>3, <2>4 DEF AskAllFails, DownloadInv
<1>7. CASE Activate \/ ActivateUnanswered \/ ActivateRefused \/ Finish
  <2>1. /\ pc' # "loop"
        /\ UNCHANGED <<scenario, mine, height, node_num, in_sync, failures>>
    BY <1>7 DEF Activate, ActivateUnanswered, ActivateRefused, Finish, callVars
  <2>2. PeersInv'
    BY <2>1 DEF DownloadInv, PeersInv
  <2>3. BehindInv'
    BY <2>1, SameBehind DEF DownloadInv, BehindInv
  <2>. QED
    BY <1>1, <2>1, <2>2, <2>3 DEF DownloadInv, CallInv
<1>8. ASSUME NEW p \in Peers, Grow(p) PROVE DownloadInv' /\ mine' = mine
  <2>1. UNCHANGED <<scenario, mine, pc, node_num, latest_block, response, in_sync, failures>>
    BY <1>8 DEF Grow, callVars
  <2>2. height' \in [Peers -> InitialHeight .. Len(Network)]
    <3>1. /\ height \in [Peers -> InitialHeight .. Len(Network)]
          /\ Len(Network) \in Nat /\ InitialHeight \in Nat
      BY DownloaderAssumption, LenProperties DEF DownloadInv, PeersInv, GoodNetwork
    <3>2. height[p] + 1 \in InitialHeight .. Len(Network)
      BY <1>8, <3>1 DEF Grow
    <3>. QED
      BY <1>8, <3>1, <3>2 DEF Grow
  <2>3. PeersInv'
    BY <2>1, <2>2 DEF DownloadInv, PeersInv
  <2>4. CallInv'
    BY <2>1 DEF DownloadInv, CallInv, RowOf
  <2>5. BehindInv'
    BY <2>1, SameBehind DEF DownloadInv, BehindInv, Refused
  <2>. QED
    BY <1>1, <2>1, <2>3, <2>4, <2>5 DEF DownloadInv
<1>9. CASE UNCHANGED vars
  <2>1. UNCHANGED <<scenario, mine, height, pc, node_num, latest_block, response, in_sync, failures>>
    BY <1>9 DEF vars, callVars
  <2>2. PeersInv'
    BY <2>1 DEF DownloadInv, PeersInv
  <2>3. CallInv'
    BY <2>1 DEF DownloadInv, CallInv, RowOf
  <2>4. BehindInv'
    BY <2>1, SameBehind DEF DownloadInv, BehindInv, Refused
  <2>. QED
    BY <1>1, <2>1, <2>2, <2>3, <2>4 DEF DownloadInv
<1>. QED
  BY <1>2, <1>3, <1>4, <1>5, <1>6, <1>7, <1>8, <1>9 DEF Next, Download

----------------------------------------------------------------------------
(* The theorems.                                                            *)

\* What the chain of the joining node is at every moment of every download.
THEOREM DownloadInvariant ==
  ASSUME GoodNetwork, GoodStarts
  PROVE  Spec => []DownloadInv
<1>1. Init => DownloadInv
  BY InitialInv
<1>2. DownloadInv /\ [Next]_vars => DownloadInv'
  BY DownloadStep
<1>. QED
  BY <1>1, <1>2, PTL DEF Spec

\* download_db appends no block twice and leaves none out, in however many calls
\* and from however many peers it fetches them, whatever chain it begins with and
\* whichever blocks end a call half way.
THEOREM MineIsLinkedHolds ==
  ASSUME GoodNetwork, GoodStarts
  PROVE  Spec => []MineIsLinked
<1>1. DownloadInv => MineIsLinked
  <2>. SUFFICES ASSUME DownloadInv PROVE Linked(mine)
    BY DEF Linked, MineIsLinked
  <2>. QED
    BY PrefixFacts DEF DownloadInv, ChainInv, Foreign
<1>. QED
  BY <1>1, DownloadInvariant, PTL

\* A call of download_db that ends in sync has fetched what every peer had when
\* the node was started.
THEOREM InSyncMeansCaughtUpHolds ==
  ASSUME GoodNetwork, GoodStarts
  PROVE  Spec => []InSyncMeansCaughtUp
<1>1. DownloadInv => InSyncMeansCaughtUp
  <2>. SUFFICES ASSUME DownloadInv, in_sync
                PROVE  Len(mine) >= InitialHeight /\ IsPrefix(mine, Network)
    BY DEF InSyncMeansCaughtUp
  <2>1. PICK k \in InitialHeight .. Len(Network) : mine = Prefix(k)
    BY DEF DownloadInv, ChainInv
  <2>2. k \in Heights /\ k >= InitialHeight
    BY <2>1, DownloaderAssumption, LenProperties DEF GoodNetwork, Heights
  <2>. QED
    BY <2>1, <2>2, PrefixFacts
<1>. QED
  BY <1>1, DownloadInvariant, PTL

\* A node that goes to the authority without having been in sync has asked every
\* peer, also those that know its last block.
LEMMA ActivationStep ==
  ASSUME GoodNetwork, GoodStarts, DownloadInv, DownloadInv', ActivatedCaughtUp, [Next]_vars
  PROVE  ActivatedCaughtUp'
<1>1. SUFFICES ASSUME node_activated', failures' < Cardinality(Informed'), Behind'
               PROVE  FALSE
  BY DEF ActivatedCaughtUp
<1>2. mine' = mine /\ scenario' = scenario
  BY <1>1, DownloadStep
     DEF Next, Download, Begin, Activate, ActivateUnanswered, ActivateRefused,
         Finish, AskMissing, AskMissingFails, AskAll, AskAllFails, Grow, vars
<1>3. Behind /\ Informed' = Informed
  BY <1>1, <1>2, SameBehind
<1>4. /\ failures \in Nat /\ failures' \in Nat /\ Cardinality(Informed) \in Nat
      /\ Len(PeerList) \in Nat /\ node_num \in Nat
      /\ DOMAIN PeerList = 1 .. Len(PeerList)
  BY InformedFinite, FS_CardinalityType, DownloaderAssumption, LenProperties
     DEF DownloadInv, PeersInv, GoodNetwork
<1>5. failures' = failures \/ failures' = failures + 1
  BY DEF Next, Download, Begin, Activate, ActivateUnanswered, ActivateRefused,
         Finish, AskMissing, AskMissingFails, AskAll, AskAllFails, Grow, vars
<1>6. failures < Cardinality(Informed)
  BY <1>1, <1>3, <1>4, <1>5
<1>7. ~node_activated
  BY <1>3, <1>6 DEF ActivatedCaughtUp
<1>8. Activate \/ ActivateUnanswered
  BY <1>1, <1>7
     DEF Next, Download, Begin, ActivateRefused, Finish, AskMissing,
         AskMissingFails, AskAll, AskAllFails, Grow, maVars, vars
<1>9. pc = "loop" /\ ~Asking
  BY <1>8 DEF Activate, ActivateUnanswered, Activating
<1>10. ~in_sync
  <2>1. ASSUME NEW k \in InitialHeight .. Len(Network), mine = Prefix(k) PROVE FALSE
    <3>1. k \in Heights /\ k >= InitialHeight
      BY <1>4, DownloaderAssumption, LenProperties DEF GoodNetwork, Heights
    <3>. QED
      BY <1>3, <2>1, <3>1, CaughtUp
  <2>. QED
    BY <2>1 DEF DownloadInv, ChainInv
<1>11. \A i \in 1 .. Len(PeerList) : i \in 1 .. node_num - 1
  BY <1>4, <1>9, <1>10 DEF Asking
<1>12. Refused = Informed
  BY <1>4, <1>11 DEF Refused, Informed, Peers, Range
<1>. QED
  BY <1>3, <1>4, <1>6, <1>9, <1>10, <1>12 DEF DownloadInv, BehindInv

\* A node is activated without a block that the network had and that it could have
\* read only if as many requests failed as there are peers that know the block it
\* began with.
THEOREM ActivatedCaughtUpHolds ==
  ASSUME GoodNetwork, GoodStarts
  PROVE  Spec => []ActivatedCaughtUp
<1>1. Init => ActivatedCaughtUp
  BY DEF Init, ActivatedCaughtUp
<1>2. /\ DownloadInv /\ DownloadInv' /\ ActivatedCaughtUp /\ [Next]_vars
      => ActivatedCaughtUp'
  BY ActivationStep
<1>. QED
  BY <1>1, <1>2, DownloadInvariant, PTL DEF Spec
=============================================================================
